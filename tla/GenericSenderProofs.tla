-------------------------- MODULE GenericSenderProofs --------------------------
(***************************************************************************)
(* What GenericSender promises for any number of threads, streams, flows   *)
(* and chunks: flows rotate, streams keep step, and the loop ends for a    *)
(* cause.  The arithmetic of dealing streams and flows comes first: every  *)
(* stream has a flow.                                                      *)
(***************************************************************************)
EXTENDS GenericSender, FiniteSetTheorems, TLAPS

-----------------------------------------------------------------------------
(* Dealing                                                                 *)

\* A share is a number of the things dealt out.
LEMMA ShareType ==
    ASSUME NEW n \in Nat, NEW k, NEW i
    PROVE  Share(n, k, i) \in Nat /\ Share(n, k, i) <= n
<1> DEFINE all == 0..(n - 1)
           mine == {j \in all : j % k = i}
<1>1. IsFiniteSet(all) /\ Cardinality(all) = n
  BY FS_Interval
<1>2. mine \in SUBSET all
  OBVIOUS
<1>3. IsFiniteSet(mine) /\ Cardinality(mine) <= n
  BY <1>1, <1>2, FS_Subset
<1> QED
  BY <1>3, FS_CardinalityType DEF Share

\* Of more things everybody gets at least as many.
LEMMA ShareMonotone ==
    ASSUME NEW n \in Nat, NEW m \in Nat, n <= m, NEW k, NEW i
    PROVE  Share(n, k, i) <= Share(m, k, i)
<1> DEFINE small == {j \in 0..(n - 1) : j % k = i}
           large == {j \in 0..(m - 1) : j % k = i}
<1>1. IsFiniteSet(0..(m - 1)) /\ large \in SUBSET (0..(m - 1))
  BY FS_Interval
<1>2. IsFiniteSet(large)
  BY <1>1, FS_Subset
<1>3. small \in SUBSET large
  OBVIOUS
<1>4. Cardinality(small) <= Cardinality(large)
  BY <1>2, <1>3, FS_Subset
<1> QED
  BY <1>4 DEF Share

\* What is smaller than the modulus is its own remainder.
LEMMA SmallRemainder ==
    ASSUME NEW k \in Nat, NEW i \in 0..(k - 1)
    PROVE  i % k = i
BY Z3

\* Nobody goes empty-handed if there are as many things as takers.
LEMMA SharePositive ==
    ASSUME NEW n \in Nat, NEW k \in 1..n, NEW i \in 0..(k - 1)
    PROVE  Share(n, k, i) >= 1
<1> DEFINE mine == {j \in 0..(n - 1) : j % k = i}
<1>1. i \in mine
  BY SmallRemainder
<1>2. IsFiniteSet(0..(n - 1)) /\ mine \in SUBSET (0..(n - 1))
  BY FS_Interval
<1>3. IsFiniteSet(mine)
  BY <1>2, FS_Subset
<1>4. Cardinality(mine) # 0 /\ Cardinality(mine) \in Nat
  BY <1>1, <1>3, FS_EmptySet, FS_CardinalityType
<1> QED
  BY <1>4 DEF Share

\* Numbers a quotient and a remainder determine.
LEMMA QuotientOf ==
    ASSUME NEW q \in Nat, NEW k \in Nat \ {0}, NEW r \in 0..(k - 1)
    PROVE  (q * k + r) \div k = q
BY Z3

-----------------------------------------------------------------------------
(* The inductive invariant                                                 *)

Steps == {"create", "loop", "get", "commit", "destroy", "returned"}
Codes == {"success", "failure", "signal_received", "no_free_chunks", "hw_send_queue_full"}
FailurePlaces == {"create", "destroy", "layout", "last", "earlier"}

DealtOK ==
    /\ numStreams \in 1..MaxStreams /\ numFlows \in 1..MaxFlows
    /\ numStreams <= numFlows

\* A chunk that was got finds its place in the stream's queue.
NodeOK ==
    /\ node \in [does : Steps, chunk : 0..(NumChunks - 1), stream : Streams, rc : Codes]
    /\ node.does = "commit" => inFlight[node.stream] < QueueLength

StateOK ==
    /\ created \subseteq Streams
    /\ m_next_flow_to_send \in [Streams -> Nat]
    /\ inFlight \in [Streams -> 0..QueueLength]
    /\ signal \in BOOLEAN
    /\ rounds \in 0..MaxRounds
    /\ sent \in [Streams -> Nat]
    /\ sentTo = [s \in Streams |-> sentTo[s]]
    /\ \A s \in Streams : sentTo[s] \in [Flows(s) -> Nat]
    /\ cut \in Nat
    /\ failed \in [calls : 0..MaxFailures, at : SUBSET FailurePlaces]

TypesOK == DealtOK /\ NodeOK /\ StateOK

\* Each stream's flows were served q times, and in this turn those before
\* m_next_flow_to_send once more.
InTurn(s) ==
    /\ m_next_flow_to_send[s] \in Flows(s)
    /\ \E q \in Nat :
          /\ sent[s] = q * FlowsIn(s) + m_next_flow_to_send[s]
          /\ \A f \in Flows(s) :
                sentTo[s][f] = q + IF f < m_next_flow_to_send[s] THEN 1 ELSE 0

Rotation == \A s \in Streams : InTurn(s)

\* Stream t was served in this iteration and s was not yet.
Between(t, s) == node.does \in {"get", "commit"} /\ t < node.stream /\ node.stream <= s

InStep ==
    \A s, t \in Streams : t < s =>
        /\ sent[s] + (IF Between(t, s) THEN 1 ELSE 0) <= sent[t]
        /\ sent[t] <= sent[s] + cut + (IF Between(t, s) THEN 1 ELSE 0)

\* Where the statuses that end the main loop come from.
Cause ==
    /\ node.rc = "signal_received" => signal
    /\ node.does = "loop" /\ node.rc = "failure" => "last" \in failed.at
    /\ node.does = "destroy" => signal \/ "last" \in failed.at

IInv == TypesOK /\ Rotation /\ InStep /\ Cause

-----------------------------------------------------------------------------
\* Every stream has a flow.
LEMMA FlowsPositive ==
    ASSUME DealtOK, NEW s \in Streams
    PROVE  FlowsIn(s) \in Nat /\ FlowsIn(s) >= 1
<1>1. numFlows \in Nat /\ numStreams \in 1..numFlows /\ s \in 0..(numStreams - 1)
  BY SenderAssumption DEF DealtOK, Streams
<1> QED
  BY <1>1, ShareType, SharePositive DEF FlowsIn

\* What one thread was dealt, with no stream created yet.
LEMMA InitInv == Init => IInv
<1> SUFFICES ASSUME Init PROVE IInv
  OBVIOUS
<1>0. /\ MaxThreads \in Nat \ {0} /\ MaxStreams \in Nat \ {0} /\ MaxFlows \in Nat \ {0}
      /\ NumChunks \in Nat \ {0} /\ QueueLength \in Nat \ {0}
      /\ MaxRounds \in Nat /\ MaxFailures \in Nat
  BY SenderAssumption
<1>1. PICK threads \in 1..MaxThreads : \E streams \in threads..MaxStreams :
          \E flows \in streams..MaxFlows : \E t \in 0..(threads - 1) :
             numStreams = Share(streams, threads, t) /\ numFlows = Share(flows, threads, t)
  BY DEF Init
<1>2. PICK streams \in threads..MaxStreams : \E flows \in streams..MaxFlows :
          \E t \in 0..(threads - 1) :
             numStreams = Share(streams, threads, t) /\ numFlows = Share(flows, threads, t)
  BY <1>1
<1>3. PICK flows \in streams..MaxFlows : \E t \in 0..(threads - 1) :
          numStreams = Share(streams, threads, t) /\ numFlows = Share(flows, threads, t)
  BY <1>2
<1>4. PICK t \in 0..(threads - 1) :
          numStreams = Share(streams, threads, t) /\ numFlows = Share(flows, threads, t)
  BY <1>3
<1>5. streams \in Nat /\ flows \in Nat /\ threads \in 1..streams /\ streams <= flows
  BY <1>0
<1>6. /\ numStreams \in Nat /\ numStreams <= streams /\ numStreams >= 1
      /\ numFlows \in Nat /\ numFlows <= flows /\ numStreams <= numFlows
  BY <1>4, <1>5, ShareType, SharePositive, ShareMonotone
<1>7. DealtOK
  BY <1>0, <1>6 DEF DealtOK
<1>8. 0 \in Streams
  BY <1>6 DEF Streams
<1>9. NodeOK /\ Cause
  BY <1>0, <1>8 DEF Init, NodeOK, Cause, Steps, Codes
<1>10. StateOK
  <2>1. \A s \in Streams : sentTo[s] \in [Flows(s) -> Nat]
    BY DEF Init
  <2>2. sentTo = [s \in Streams |-> sentTo[s]]
    <3> DEFINE first(s) == [f \in Flows(s) |-> 0]
    <3>1. sentTo = [s \in Streams |-> first(s)]
      BY DEF Init
    <3> HIDE DEF first
    <3> QED
      BY <3>1
  <2>3. failed \in [calls : 0..MaxFailures, at : SUBSET FailurePlaces]
    BY <1>0 DEF Init
  <2>4. /\ created \subseteq Streams
        /\ m_next_flow_to_send \in [Streams -> Nat]
        /\ inFlight \in [Streams -> 0..QueueLength]
        /\ signal \in BOOLEAN
        /\ rounds \in 0..MaxRounds
        /\ sent \in [Streams -> Nat]
        /\ cut \in Nat
    <3>1. /\ created = {} /\ signal = FALSE /\ rounds = 0 /\ cut = 0
          /\ m_next_flow_to_send = [s \in Streams |-> 0]
          /\ inFlight = [s \in Streams |-> 0]
          /\ sent = [s \in Streams |-> 0]
      BY DEF Init
    <3>2. 0 \in 0..QueueLength /\ 0 \in 0..MaxRounds
      BY <1>0
    <3> QED
      BY <3>1, <3>2
  <2> QED
    BY <2>1, <2>2, <2>3, <2>4 DEF StateOK
<1>11. Rotation
  <2> SUFFICES ASSUME NEW s \in Streams PROVE InTurn(s)
    BY DEF Rotation
  <2>1. FlowsIn(s) \in Nat /\ FlowsIn(s) >= 1
    BY <1>7, FlowsPositive
  <2>2. m_next_flow_to_send[s] = 0 /\ sent[s] = 0
    BY DEF Init
  <2>3. \A f \in Flows(s) : sentTo[s][f] = 0
    BY DEF Init
  <2>4. 0 \in Flows(s) /\ \A f \in Flows(s) : ~(f < 0)
    BY <2>1 DEF Flows
  <2>5. sent[s] = 0 * FlowsIn(s) + m_next_flow_to_send[s]
    BY <2>1, <2>2
  <2> QED
    BY <2>2, <2>3, <2>4, <2>5 DEF InTurn
<1>12. InStep
  BY DEF Init, InStep, Between
<1> QED
  BY <1>7, <1>9, <1>10, <1>11, <1>12 DEF IInv, TypesOK

-----------------------------------------------------------------------------
(* Types                                                                   *)

\* The ends of an iteration.
LEMMA EndIterationNode ==
    ASSUME TypesOK, NEW rc \in Codes, EndIteration(rc)
    PROVE  /\ node' \in [does : Steps, chunk : 0..(NumChunks - 1), stream : Streams, rc : Codes]
           /\ node'.stream = 0 /\ node'.rc = rc
           /\ node'.does \in {"get", "loop"}
           /\ node'.does = "loop" => Place = "last"
<1>1. NumChunks \in Nat \ {0} /\ node.chunk \in 0..(NumChunks - 1)
  BY SenderAssumption DEF TypesOK, NodeOK
<1>2. 0 \in Streams
  BY DEF TypesOK, DealtOK, Streams
<1>3. CASE node.chunk + 1 < NumChunks
  <2>1. node' = [does |-> "get", chunk |-> node.chunk + 1, stream |-> 0, rc |-> rc]
    BY <1>3 DEF EndIteration, Goes
  <2> QED
    BY <1>1, <1>2, <1>3, <2>1 DEF Steps
<1>4. CASE ~(node.chunk + 1 < NumChunks)
  <2>1. node' = [does |-> "loop", chunk |-> 0, stream |-> 0, rc |-> rc]
    BY <1>4 DEF EndIteration, Goes
  <2> QED
    BY <1>1, <1>2, <1>4, <2>1 DEF Steps, Place
<1> QED
  BY <1>3, <1>4

\* A failing call is counted where it failed.
LEMMA FailsType ==
    ASSUME StateOK, NEW place \in FailurePlaces, Fails(place)
    PROVE  /\ failed' \in [calls : 0..MaxFailures, at : SUBSET FailurePlaces]
           /\ failed'.at = failed.at \cup {place}
<1>1. failed.calls \in 0..MaxFailures /\ failed.calls < MaxFailures /\ MaxFailures \in Nat
  BY SenderAssumption DEF StateOK, Fails
<1>2. failed' = [calls |-> failed.calls + 1, at |-> failed.at \cup {place}]
  BY DEF Fails
<1> QED
  BY <1>1, <1>2 DEF StateOK

\* How every way out of the loop over the streams leaves the state.
LEMMA CutShortStep ==
    ASSUME TypesOK, NEW onFailure \in Codes, NEW onSignal \in Codes,
           NEW place \in FailurePlaces, CutShort(onFailure, onSignal, place)
    PROVE  /\ node' \in [does : Steps, chunk : 0..(NumChunks - 1), stream : Streams, rc : Codes]
           /\ node'.stream = 0 /\ node'.does \in {"get", "loop"}
           /\ node'.does = "loop" => Place = "last"
           /\ \/ node'.rc = onFailure /\ failed'.at = failed.at \cup {place}
              \/ node'.rc = onSignal /\ signal /\ failed' = failed
           /\ failed' \in [calls : 0..MaxFailures, at : SUBSET FailurePlaces]
           /\ cut' = cut + 1
           /\ UNCHANGED <<dealt, created, m_next_flow_to_send, inFlight, signal, rounds, sent, sentTo>>
<1>1. CASE Fails(place) /\ EndIteration(onFailure)
  BY <1>1, EndIterationNode, FailsType DEF CutShort, TypesOK
<1>2. CASE signal /\ UNCHANGED failed /\ EndIteration(onSignal)
  BY <1>2, EndIterationNode DEF CutShort, TypesOK, StateOK
<1> QED
  BY <1>1, <1>2 DEF CutShort

\* The steps that end an iteration early, in one.
LEMMA Cuts ==
    ASSUME TypesOK, GetFails \/ CommitFails \/ LayoutFails
    PROVE  /\ node.does \in {"get", "commit"}
           /\ \E onFailure \in {"failure", "success"}, onSignal \in {"signal_received", "success"},
                 place \in FailurePlaces :
                 /\ onFailure = "failure" => place = Place
                 /\ CutShort(onFailure, onSignal, place)
<1>1. Place \in {"last", "earlier"}
  BY DEF Place
<1> QED
  BY <1>1 DEF GetFails, CommitFails, LayoutFails, FailurePlaces

\* Neither streams nor flows are dealt out again.
LEMMA DealtStays ==
    ASSUME [Next]_vars
    PROVE  UNCHANGED <<numStreams, numFlows>>
<1> USE DEF dealt
<1>1. CASE Thread
  BY <1>1 DEF Thread, CreateStream, BeginRound, GetChunk, NoFreeChunk, GetFails, LayoutFails,
         CommitQueueFull, CommitFails, Commit, DestroyStream, CutShort
<1>2. CASE Signal \/ (\E s \in Streams : SendChunk(s)) \/ UNCHANGED vars
  BY <1>2 DEF SendChunk, Signal, vars
<1> QED
  BY <1>1, <1>2 DEF Next

\* Every step keeps the types; a commit finds a place because GetChunk saw one.
LEMMA TypesStep ==
    ASSUME TypesOK, Rotation, [Next]_vars
    PROVE  TypesOK'
<1>0. /\ NumChunks \in Nat \ {0} /\ QueueLength \in Nat \ {0}
      /\ MaxRounds \in Nat /\ MaxFailures \in Nat
  BY SenderAssumption
<1>1. /\ 0 \in Streams /\ numStreams \in Nat \ {0} /\ 0 \in 0..(NumChunks - 1)
      /\ \A s \in Streams : s # numStreams - 1 => s + 1 \in Streams
  BY <1>0, SenderAssumption DEF TypesOK, DealtOK, Streams
<1>2. UNCHANGED <<numStreams, numFlows>>
  BY DealtStays
<1>3. DealtOK' /\ Streams' = Streams /\ \A s \in Streams : Flows(s)' = Flows(s)
  BY <1>2 DEF DealtOK, Streams, TypesOK, Flows, FlowsIn, Share
<1>4. /\ node \in [does : Steps, chunk : 0..(NumChunks - 1), stream : Streams, rc : Codes]
      /\ node.stream \in Streams /\ node.chunk \in 0..(NumChunks - 1) /\ node.rc \in Codes
  BY DEF TypesOK, NodeOK
<1>5. CASE CreateStream
  <2>1. node'.does # "commit"
        /\ node' \in [does : Steps, chunk : 0..(NumChunks - 1), stream : Streams, rc : Codes]
    BY <1>1, <1>4, <1>5 DEF CreateStream, Goes, Steps, Codes
  <2>2. created' \subseteq Streams
    BY <1>4, <1>5 DEF CreateStream, TypesOK, StateOK
  <2>3. failed' \in [calls : 0..MaxFailures, at : SUBSET FailurePlaces]
    BY <1>5, FailsType DEF CreateStream, TypesOK, StateOK, FailurePlaces
  <2> QED
    BY <1>3, <1>5, <2>1, <2>2, <2>3 DEF CreateStream, TypesOK, NodeOK, StateOK
<1>6. CASE DestroyStream
  <2>1. node'.does # "commit"
        /\ node' \in [does : Steps, chunk : 0..(NumChunks - 1), stream : Streams, rc : Codes]
    BY <1>1, <1>4, <1>6 DEF DestroyStream, Goes, Steps, Codes
  <2>2. created' \subseteq Streams
    BY <1>4, <1>6 DEF DestroyStream, TypesOK, StateOK
  <2>3. failed' \in [calls : 0..MaxFailures, at : SUBSET FailurePlaces]
    BY <1>6, FailsType DEF DestroyStream, TypesOK, StateOK, FailurePlaces
  <2> QED
    BY <1>3, <1>6, <2>1, <2>2, <2>3 DEF DestroyStream, TypesOK, NodeOK, StateOK
<1>7. CASE BeginRound
  <2>1. node'.does # "commit"
        /\ node' \in [does : Steps, chunk : 0..(NumChunks - 1), stream : Streams, rc : Codes]
    BY <1>1, <1>4, <1>7 DEF BeginRound, Goes, Steps
  <2>2. rounds' \in 0..MaxRounds
    BY <1>0, <1>7 DEF BeginRound, TypesOK, StateOK
  <2> QED
    BY <1>3, <1>7, <2>1, <2>2 DEF BeginRound, TypesOK, NodeOK, StateOK
<1>8. CASE GetChunk
  <2>1. /\ node' \in [does : Steps, chunk : 0..(NumChunks - 1), stream : Streams, rc : Codes]
        /\ node'.stream = node.stream /\ inFlight[node.stream] < QueueLength
    BY <1>4, <1>8 DEF GetChunk, Goes, Steps, Codes
  <2> QED
    BY <1>3, <1>8, <2>1 DEF GetChunk, TypesOK, NodeOK, StateOK, history
<1>9. CASE NoFreeChunk
  <2>1. node'.does # "commit"
        /\ node' \in [does : Steps, chunk : 0..(NumChunks - 1), stream : Streams, rc : Codes]
    BY <1>4, <1>9 DEF NoFreeChunk, Goes, Steps, Codes
  <2> QED
    BY <1>3, <1>9, <2>1 DEF NoFreeChunk, TypesOK, NodeOK, StateOK, history
<1>10. CASE CommitQueueFull
  <2>1. /\ node' \in [does : Steps, chunk : 0..(NumChunks - 1), stream : Streams, rc : Codes]
        /\ node'.stream = node.stream /\ inFlight[node.stream] < QueueLength
    BY <1>4, <1>10 DEF CommitQueueFull, Goes, Steps, Codes, TypesOK, NodeOK
  <2> QED
    BY <1>3, <1>10, <2>1 DEF CommitQueueFull, TypesOK, NodeOK, StateOK, history
<1>11. CASE GetFails \/ CommitFails \/ LayoutFails
  <2>1. PICK onFailure \in {"failure", "success"}, onSignal \in {"signal_received", "success"},
             place \in FailurePlaces : CutShort(onFailure, onSignal, place)
    BY <1>11, Cuts
  <2>2. onFailure \in Codes /\ onSignal \in Codes
    BY DEF Codes
  <2>3. /\ node' \in [does : Steps, chunk : 0..(NumChunks - 1), stream : Streams, rc : Codes]
        /\ node'.does # "commit"
        /\ failed' \in [calls : 0..MaxFailures, at : SUBSET FailurePlaces]
        /\ cut' = cut + 1
        /\ UNCHANGED <<created, m_next_flow_to_send, inFlight, signal, rounds, sent, sentTo>>
    BY <2>1, <2>2, CutShortStep
  <2> QED
    BY <1>3, <2>3 DEF TypesOK, NodeOK, StateOK
<1>12. CASE Commit
  <2> DEFINE s == node.stream
  <2>1. node'.does # "commit"
        /\ node' \in [does : Steps, chunk : 0..(NumChunks - 1), stream : Streams, rc : Codes]
    <3>1. CASE s = numStreams - 1
      BY <1>12, <3>1, EndIterationNode DEF Commit, Codes
    <3>2. CASE s # numStreams - 1
      BY <1>1, <1>4, <1>12, <3>2 DEF Commit, Goes, Steps, Codes
    <3> QED
      BY <3>1, <3>2
  <2>2. inFlight' \in [Streams -> 0..QueueLength]
    <3>1. inFlight[s] + 1 \in 0..QueueLength
      BY <1>0, <1>4, <1>12 DEF Commit, TypesOK, NodeOK, StateOK
    <3> QED
      BY <1>12, <3>1 DEF Commit, TypesOK, StateOK
  <2>3. sent' \in [Streams -> Nat]
    BY <1>4, <1>12 DEF Commit, TypesOK, StateOK
  <2>4. m_next_flow_to_send' \in [Streams -> Nat]
    <3>1. FlowsIn(s) \in Nat /\ FlowsIn(s) >= 1 /\ m_next_flow_to_send[s] \in Nat
      BY <1>4, FlowsPositive DEF TypesOK, StateOK
    <3>2. NextFlow(s) \in Nat
      BY <3>1 DEF NextFlow
    <3> QED
      BY <1>12, <3>2 DEF Commit, TypesOK, StateOK
  <2>5. sentTo' = [t \in Streams |-> sentTo'[t]] /\ \A t \in Streams : sentTo'[t] \in [Flows(t) -> Nat]
    <3>1. sentTo' = [sentTo EXCEPT ![s][m_next_flow_to_send[s]] = @ + 1]
      BY <1>12 DEF Commit
    <3>2. m_next_flow_to_send[s] \in Flows(s)
      BY <1>4 DEF Rotation, InTurn
    <3>3. sentTo = [t \in Streams |-> sentTo[t]] /\ \A t \in Streams : sentTo[t] \in [Flows(t) -> Nat]
      BY DEF TypesOK, StateOK
    <3> QED
      BY <1>4, <3>1, <3>2, <3>3
  <2> QED
    BY <1>3, <1>12, <2>1, <2>2, <2>3, <2>4, <2>5 DEF Commit, TypesOK, NodeOK, StateOK
<1>13. CASE Signal
  BY <1>3, <1>13 DEF Signal, TypesOK, NodeOK, StateOK, history
<1>14. ASSUME NEW s \in Streams, SendChunk(s) PROVE TypesOK'
  <2>1. /\ inFlight' \in [Streams -> 0..QueueLength]
        /\ \A t \in Streams : inFlight'[t] <= inFlight[t]
    BY <1>0, <1>14 DEF SendChunk, TypesOK, StateOK
  <2>2. NodeOK'
    BY <1>0, <1>3, <1>4, <1>14, <2>1 DEF SendChunk, TypesOK, NodeOK, StateOK
  <2> QED
    BY <1>3, <1>14, <2>1, <2>2 DEF SendChunk, TypesOK, StateOK, history
<1>15. CASE UNCHANGED vars
  BY <1>3, <1>15 DEF vars, TypesOK, NodeOK, StateOK, history
<1> QED
  BY <1>5, <1>6, <1>7, <1>8, <1>9, <1>10, <1>11, <1>12, <1>13, <1>14, <1>15 DEF Next, Thread

-----------------------------------------------------------------------------
(* Rotation of the flows                                                   *)

\* Only a commit moves a stream on.
LEMMA OthersSendNothing ==
    ASSUME [Next]_vars, ~Commit
    PROVE  UNCHANGED <<m_next_flow_to_send, sent, sentTo>>
<1>1. CASE Thread
  BY <1>1 DEF Thread, history, CreateStream, BeginRound, GetChunk, NoFreeChunk, GetFails,
              LayoutFails, CommitQueueFull, CommitFails, DestroyStream, CutShort
<1>2. CASE Signal \/ (\E s \in Streams : SendChunk(s)) \/ UNCHANGED vars
  BY <1>2 DEF SendChunk, Signal, vars, history
<1> QED
  BY <1>1, <1>2 DEF Next

\* A commit serves the flow whose turn it is and passes the turn on.
LEMMA RotationStep ==
    ASSUME TypesOK, Rotation, [Next]_vars
    PROVE  Rotation'
<1>1. UNCHANGED <<numStreams, numFlows>>
  BY DealtStays
<1>2. Streams' = Streams /\ \A s \in Streams : Flows(s)' = Flows(s) /\ FlowsIn(s)' = FlowsIn(s)
  BY <1>1 DEF Streams, Flows, FlowsIn, Share
<1>3. CASE ~Commit
  BY <1>2, <1>3, OthersSendNothing DEF Rotation, InTurn
<1>4. CASE Commit
  <2>0. PICK s \in Streams : s = node.stream
    BY DEF TypesOK, NodeOK
  <2> DEFINE F == FlowsIn(s)
             n == m_next_flow_to_send[s]
  <2>1. s \in Streams /\ F \in Nat /\ F >= 1 /\ n \in 0..(F - 1) /\ sent[s] \in Nat
    BY FlowsPositive DEF TypesOK, NodeOK, StateOK, Rotation, InTurn, Flows
  <2>2. PICK q \in Nat : /\ sent[s] = q * F + n
                         /\ \A f \in Flows(s) : sentTo[s][f] = q + IF f < n THEN 1 ELSE 0
    BY <2>1 DEF Rotation, InTurn
  <2>3. /\ sent'[s] = sent[s] + 1
        /\ m_next_flow_to_send'[s] = (n + 1) % F
        /\ \A f \in Flows(s) : sentTo'[s][f] = IF f = n THEN sentTo[s][f] + 1 ELSE sentTo[s][f]
    <3>1. n \in Flows(s) /\ sentTo[s] \in [Flows(s) -> Nat]
      BY <2>1 DEF Flows, TypesOK, StateOK
    <3>2. sentTo'[s] = [sentTo[s] EXCEPT ![n] = @ + 1]
      BY <2>0, <2>1, <1>4 DEF Commit, TypesOK, StateOK
    <3> QED
      BY <1>4, <2>0, <2>1, <3>1, <3>2 DEF Commit, NextFlow, TypesOK, StateOK
  <2>4. \A t \in Streams \ {s} : /\ sent'[t] = sent[t]
                                 /\ m_next_flow_to_send'[t] = m_next_flow_to_send[t]
                                 /\ sentTo'[t] = sentTo[t]
    BY <1>4, <2>0, <2>1 DEF Commit, TypesOK, StateOK
  <2>5. InTurn(s)'
    <3> HIDE DEF F, n
    <3>1. CASE n + 1 < F
      <4>1. (n + 1) % F = n + 1
        BY <2>1, <3>1, SmallRemainder
      <4>2. sent'[s] = q * F + m_next_flow_to_send'[s]
        BY <2>1, <2>2, <2>3, <4>1
      <4>3. \A f \in Flows(s) : sentTo'[s][f] = q + IF f < m_next_flow_to_send'[s] THEN 1 ELSE 0
        BY <2>1, <2>2, <2>3, <4>1 DEF Flows
      <4>4. m_next_flow_to_send'[s] \in Flows(s)
        BY <2>1, <2>3, <3>1, <4>1 DEF Flows, F
      <4> QED
        BY <1>2, <2>1, <4>2, <4>3, <4>4 DEF InTurn, F
    <3>2. CASE n + 1 = F
      <4>1. (n + 1) % F = 0
        BY <2>1, <3>2
      <4>2. sent'[s] = (q + 1) * F + m_next_flow_to_send'[s]
        BY <2>1, <2>2, <2>3, <3>2, <4>1
      <4>3. \A f \in Flows(s) :
               sentTo'[s][f] = (q + 1) + IF f < m_next_flow_to_send'[s] THEN 1 ELSE 0
        BY <2>1, <2>2, <2>3, <3>2, <4>1 DEF Flows, F
      <4>4. m_next_flow_to_send'[s] \in Flows(s)
        BY <2>1, <2>3, <4>1 DEF Flows, F
      <4> QED
        BY <1>2, <2>1, <4>2, <4>3, <4>4 DEF InTurn, F
    <3> QED
      BY <2>1, <3>1, <3>2
  <2>6. \A t \in Streams \ {s} : InTurn(t)'
    BY <1>2, <2>4 DEF Rotation, InTurn
  <2> QED
    BY <1>2, <2>1, <2>5, <2>6 DEF Rotation
<1> QED
  BY <1>3, <1>4

-----------------------------------------------------------------------------
(* Streams keep step                                                       *)

\* Streams are served in order within an iteration, and only an iteration
\* that is cut short lets the later ones fall back by one.
LEMMA InStepStep ==
    ASSUME TypesOK, InStep, [Next]_vars
    PROVE  InStep'
<1>1. Streams' = Streams
  BY DealtStays DEF Streams
<1>2. /\ sent \in [Streams -> Nat] /\ cut \in Nat
      /\ numStreams \in Nat \ {0} /\ Streams = 0..(numStreams - 1)
      /\ node.stream \in Streams
  <2>1. numStreams \in Nat \ {0}
    BY SenderAssumption DEF TypesOK, DealtOK
  <2> QED
    BY <2>1 DEF TypesOK, NodeOK, StateOK, Streams
<1>3. CASE Commit
  <2>0. PICK p \in Streams : p = node.stream
    BY <1>2
  <2>1. node.does = "commit"
    BY <1>3 DEF Commit
  <2>2. sent' = [sent EXCEPT ![p] = @ + 1] /\ cut' = cut
    BY <1>3, <2>0 DEF Commit
  <2>3. CASE p = numStreams - 1
    <3>1. node'.stream = 0
      BY <1>3, <2>0, <2>3, EndIterationNode DEF Commit, Codes
    <3>2. ASSUME NEW s \in Streams, NEW t \in Streams, t < s
          PROVE  /\ ~Between(t, s)'
                 /\ sent'[s] <= sent'[t] /\ sent'[t] <= sent'[s] + cut'
      <4>1. /\ sent[s] + (IF Between(t, s) THEN 1 ELSE 0) <= sent[t]
            /\ sent[t] <= sent[s] + cut + (IF Between(t, s) THEN 1 ELSE 0)
        BY <3>2 DEF InStep
      <4>2. s <= p /\ t < p /\ (Between(t, s) <=> s = p)
        BY <1>2, <2>0, <2>1, <2>3, <3>2 DEF Between
      <4>3. ~Between(t, s)'
        BY <1>2, <3>1, <3>2 DEF Between
      <4>4. sent'[t] = sent[t] /\ sent'[s] = IF s = p THEN sent[s] + 1 ELSE sent[s]
        BY <1>2, <2>2, <4>2
      <4> QED
        BY <1>2, <2>2, <4>1, <4>2, <4>3, <4>4
    <3> QED
      BY <1>1, <1>2, <2>2, <3>2 DEF InStep
  <2>4. CASE p # numStreams - 1
    <3>1. node'.stream = p + 1 /\ node'.does = "get"
      BY <1>3, <2>0, <2>4 DEF Commit, Goes
    <3>2. ASSUME NEW s \in Streams, NEW t \in Streams, t < s
          PROVE  /\ sent'[s] + (IF Between(t, s)' THEN 1 ELSE 0) <= sent'[t]
                 /\ sent'[t] <= sent'[s] + cut' + (IF Between(t, s)' THEN 1 ELSE 0)
      <4>1. /\ sent[s] + (IF Between(t, s) THEN 1 ELSE 0) <= sent[t]
            /\ sent[t] <= sent[s] + cut + (IF Between(t, s) THEN 1 ELSE 0)
        BY <3>2 DEF InStep
      <4>2. /\ Between(t, s) <=> t < p /\ p <= s
            /\ Between(t, s)' <=> t <= p /\ p < s
        BY <1>2, <2>0, <2>1, <3>1, <3>2 DEF Between
      <4>3. /\ sent'[t] = IF t = p THEN sent[t] + 1 ELSE sent[t]
            /\ sent'[s] = IF s = p THEN sent[s] + 1 ELSE sent[s]
        BY <1>2, <2>2
      <4>4. {sent[s], sent[t], cut} \subseteq Nat /\ {s, t, p} \subseteq Nat /\ cut' = cut
        BY <1>2, <2>2
      <4>5. CASE t = p
        BY <3>2, <4>1, <4>2, <4>3, <4>4, <4>5
      <4>6. CASE s = p
        BY <3>2, <4>1, <4>2, <4>3, <4>4, <4>6
      <4>7. CASE t # p /\ s # p
        <5>1. Between(t, s)' <=> Between(t, s)
          BY <4>2, <4>4, <4>7
        <5> QED
          BY <4>1, <4>3, <4>4, <4>7, <5>1
      <4> QED
        BY <4>5, <4>6, <4>7
    <3> QED
      BY <1>1, <3>2 DEF InStep
  <2> QED
    BY <2>3, <2>4
<1>4. CASE GetFails \/ CommitFails \/ LayoutFails
  <2>1. /\ node'.stream = 0 /\ cut' = cut + 1 /\ sent' = sent
    BY <1>4, Cuts, CutShortStep DEF Codes
  <2> QED
    BY <1>1, <1>2, <2>1 DEF InStep, Between
<1>5. CASE CreateStream \/ DestroyStream \/ BeginRound
  <2>1. /\ sent' = sent /\ cut' = cut /\ ~(node.does \in {"get", "commit"})
        /\ node'.does = "get" => node'.stream = 0
        /\ node'.does # "commit"
    BY <1>5 DEF CreateStream, DestroyStream, BeginRound, Goes
  <2> QED
    BY <1>1, <1>2, <2>1 DEF InStep, Between
<1>6. CASE GetChunk \/ NoFreeChunk \/ CommitQueueFull
  <2>1. /\ sent' = sent /\ cut' = cut /\ node'.stream = node.stream
        /\ node.does \in {"get", "commit"} /\ node'.does \in {"get", "commit"}
    BY <1>6 DEF GetChunk, NoFreeChunk, CommitQueueFull, Goes, history
  <2> QED
    BY <1>1, <2>1 DEF InStep, Between
<1>7. CASE Signal \/ (\E s \in Streams : SendChunk(s)) \/ UNCHANGED vars
  <2>1. sent' = sent /\ cut' = cut /\ node' = node
    BY <1>7 DEF Signal, SendChunk, vars, history
  <2> QED
    BY <1>1, <2>1 DEF InStep, Between
<1> QED
  BY <1>3, <1>4, <1>5, <1>6, <1>7 DEF Next, Thread

-----------------------------------------------------------------------------
(* The loop ends for a cause                                               *)

\* A status that ends the loop is not overwritten after the last chunk.
LEMMA CauseStep ==
    ASSUME TypesOK, Cause, [Next]_vars
    PROVE  Cause'
<1>1. CASE CreateStream
  BY <1>1 DEF Cause, CreateStream, Goes
<1>2. CASE DestroyStream
  <2>1. node'.rc \in {"success", "failure"} /\ node'.does \in {"destroy", "returned"}
    BY <1>2 DEF DestroyStream, Goes
  <2>2. node.does = "destroy" /\ signal' = signal /\ failed.at \subseteq failed'.at
    BY <1>2, FailsType DEF DestroyStream, TypesOK, StateOK, FailurePlaces
  <2> QED
    BY <2>1, <2>2 DEF Cause
<1>3. CASE BeginRound
  BY <1>3 DEF Cause, BeginRound, Goes, LoopGoesOn
<1>4. CASE GetChunk \/ NoFreeChunk \/ CommitQueueFull
  BY <1>4 DEF Cause, GetChunk, NoFreeChunk, CommitQueueFull, Goes
<1>5. CASE GetFails \/ CommitFails \/ LayoutFails
  <2>1. PICK onFailure \in {"failure", "success"}, onSignal \in {"signal_received", "success"},
             place \in FailurePlaces :
                 /\ onFailure = "failure" => place = Place
                 /\ CutShort(onFailure, onSignal, place)
    BY <1>5, Cuts
  <2>2. /\ node'.does \in {"get", "loop"}
        /\ node'.does = "loop" => Place = "last"
        /\ \/ node'.rc = onFailure /\ failed'.at = failed.at \cup {place}
           \/ node'.rc = onSignal /\ signal /\ failed' = failed
        /\ signal' = signal
    BY <2>1, CutShortStep DEF Codes
  <2> QED
    BY <2>1, <2>2 DEF Cause
<1>6. CASE Commit
  <2>1. node'.rc = "success" /\ node'.does \in {"get", "loop"}
    BY <1>6, EndIterationNode DEF Commit, Goes, Codes
  <2> QED
    BY <2>1 DEF Cause
<1>7. CASE Signal \/ (\E s \in Streams : SendChunk(s)) \/ UNCHANGED vars
  BY <1>7 DEF Cause, Signal, SendChunk, vars, history
<1> QED
  BY <1>1, <1>2, <1>3, <1>4, <1>5, <1>6, <1>7 DEF Next, Thread

-----------------------------------------------------------------------------
(* Theorems                                                                *)

\* The strengthening holds in every reachable state.
LEMMA Invariance == Spec => []IInv
<1>1. Init => IInv
  BY InitInv
<1>2. IInv /\ [Next]_vars => IInv'
  BY TypesStep, RotationStep, InStepStep, CauseStep DEF IInv
<1> QED
  BY <1>1, <1>2, PTL DEF Spec

\* However many threads, streams, flows and chunks there are, and whatever fails:
\* every variable keeps its type, m_next_flow_to_send designates a flow of its
\* stream, and no stream exceeds its queue.
THEOREM SenderTypeCorrect == Spec => []TypeOK
<1>1. IInv => TypeOK
  BY DEF IInv, TypesOK, DealtOK, NodeOK, StateOK, Steps, Codes, FailurePlaces, Rotation,
         InTurn, TypeOK
<1> QED
  BY <1>1, Invariance, PTL

\* The flows of every stream are served in turn, for any number of flows.
THEOREM FlowsRotate == Spec => []FlowsInRotation
<1>1. IInv => FlowsInRotation
  <2> SUFFICES ASSUME IInv, NEW s \in Streams, NEW f \in Flows(s)
               PROVE  sentTo[s][f] = sent[s] \div FlowsIn(s)
                                     + IF f < m_next_flow_to_send[s] THEN 1 ELSE 0
    BY DEF FlowsInRotation
  <2>1. FlowsIn(s) \in Nat \ {0} /\ m_next_flow_to_send[s] \in 0..(FlowsIn(s) - 1)
    BY FlowsPositive DEF IInv, TypesOK, Rotation, InTurn, Flows
  <2>2. PICK q \in Nat :
            /\ sent[s] = q * FlowsIn(s) + m_next_flow_to_send[s]
            /\ sentTo[s][f] = q + IF f < m_next_flow_to_send[s] THEN 1 ELSE 0
    BY DEF IInv, Rotation, InTurn
  <2>3. sent[s] \div FlowsIn(s) = q
    BY <2>1, <2>2, QuotientOf
  <2> QED
    BY <2>2, <2>3
<1> QED
  BY <1>1, Invariance, PTL

\* The streams of a node keep step, for any number of streams and failures.
THEOREM KeepStep == Spec => []StreamsInStep
<1>1. IInv => StreamsInStep
  BY DEF IInv, InStep, StreamsInStep, TypesOK, StateOK
<1> QED
  BY <1>1, Invariance, PTL

\* The main loop ends for a signal or for a failure in the last chunk of a round.
THEOREM EndsOnlyForCause == Spec => []EndsForCause
<1>1. IInv => EndsForCause
  BY DEF IInv, Cause, EndsForCause
<1> QED
  BY <1>1, Invariance, PTL
=============================================================================
