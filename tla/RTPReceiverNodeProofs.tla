---------------------------- MODULE RTPReceiverNodeProofs ----------------------------
(***************************************************************************)
(* Proofs about RTPReceiverNode, for every number of streams and flows,    *)
(* every range of sequence numbers, any network with any traffic, and any  *)
(* failures.  The facts about one stream are stated of its members alone   *)
(* and carried through each thing that can happen to it; the last part     *)
(* lifts them to the steps of the node.                                    *)
(***************************************************************************)
EXTENDS RTPReceiverNode, DivisionLemmas, WellFoundedInduction, TLAPS

-----------------------------------------------------------------------------
(* The members of a stream                                                 *)

Packets == [id : Nat, good : BOOLEAN]
Stats == [Counters -> Nat]
Receivers == [m_initialized : BOOLEAN, m_last_sequence_number : Nat, m_last_mbit : BOOLEAN,
              m_statistic : Stats, m_statistic_totals : Stats]
Histories == [first : Nat, last : Nat, good : Nat, ordered : BOOLEAN, close : BOOLEAN]
Chunks == [rest : Seq(Packets), length : Nat]
Paths == [next : Nat, held : Nat]
Traffic == [sent : 0..MaxSent, faults : Nat]

\* The constants, one by one.
LEMMA Constants ==
    /\ NumStreams \in Nat \ {0} /\ FrameLen \in Nat \ {0} /\ MaxSent \in Nat
    /\ SeqRange \in Nat \ {0}
BY NodeAssumption

\* What counting does to the members.
LEMMA CountedMembers ==
    ASSUME NEW r \in Receivers, NEW counter \in Counters, NEW n \in Nat
    PROVE  LET c == Counted(r, counter, n)
           IN  /\ c \in Receivers
               /\ c.m_initialized = r.m_initialized
               /\ c.m_last_sequence_number = r.m_last_sequence_number
               /\ c.m_last_mbit = r.m_last_mbit
               /\ c.m_statistic[counter] = r.m_statistic[counter] + n
               /\ c.m_statistic_totals[counter] = r.m_statistic_totals[counter] + n
               /\ \A d \in Counters \ {counter} :
                      /\ c.m_statistic[d] = r.m_statistic[d]
                      /\ c.m_statistic_totals[d] = r.m_statistic_totals[d]
<1> DEFINE S == [r.m_statistic EXCEPT ![counter] = @ + n]
           T == [r.m_statistic_totals EXCEPT ![counter] = @ + n]
           c == Counted(r, counter, n)
<1>1. r.m_statistic \in Stats /\ r.m_statistic_totals \in Stats
  BY DEF Receivers
<1>2. S \in Stats /\ T \in Stats
  BY <1>1 DEF Stats
<1>3. /\ S[counter] = r.m_statistic[counter] + n
      /\ T[counter] = r.m_statistic_totals[counter] + n
      /\ \A d \in Counters \ {counter} :
             S[d] = r.m_statistic[d] /\ T[d] = r.m_statistic_totals[d]
  BY <1>1 DEF Stats
<1>4. c = [r EXCEPT !.m_statistic = S, !.m_statistic_totals = T]
  BY DEF Counted
<1> HIDE DEF S, T, c
<1>5. /\ c \in Receivers /\ c.m_statistic = S /\ c.m_statistic_totals = T
      /\ c.m_initialized = r.m_initialized
      /\ c.m_last_sequence_number = r.m_last_sequence_number
      /\ c.m_last_mbit = r.m_last_mbit
  BY <1>2, <1>4 DEF Receivers
<1> QED
  BY <1>3, <1>5 DEF c

\* What a packet does to the members.
LEMMA HeaderMembers ==
    ASSUME HeaderProcessing, NEW r \in Receivers, NEW p \in Packets
    PROVE  LET e == ProcessPacketHeader(r, p)
               d == NumDropped(r, SequenceNumber(p.id))
           IN  /\ e \in Receivers
               /\ ~p.good => e = Counted(r, "rx_corrupt_header", 1)
               /\ p.good =>
                     /\ d \in Nat
                     /\ e.m_initialized /\ e.m_last_sequence_number = SequenceNumber(p.id)
                     /\ e.m_last_mbit = MBit(p.id)
                     /\ e.m_statistic = Counted(r, "rx_dropped", d).m_statistic
                     /\ e.m_statistic_totals = Counted(r, "rx_dropped", d).m_statistic_totals
<1> DEFINE e == ProcessPacketHeader(r, p)
           d == NumDropped(r, SequenceNumber(p.id))
           c == Counted(r, "rx_dropped", d)
<1>1. CASE ~p.good
  <2>1. e = Counted(r, "rx_corrupt_header", 1)
    BY <1>1 DEF ProcessPacketHeader
  <2>2. "rx_corrupt_header" \in Counters
    BY DEF Counters
  <2> QED
    BY <1>1, <2>1, <2>2, CountedMembers
<1>2. CASE p.good
  <2>1. p.id \in Nat /\ SequenceNumber(p.id) \in Nat
    BY Constants, Parts DEF Packets, SequenceNumber
  <2>2. d \in Nat
    <3>1. r.m_last_sequence_number \in Nat /\ SequenceNumber(p.id) \in Nat
      BY <2>1 DEF Receivers
    <3>2. SequenceNumber(p.id) - (r.m_last_sequence_number + 1) \in Int
      BY <3>1
    <3>3. (SequenceNumber(p.id) - (r.m_last_sequence_number + 1)) % SeqRange \in 0..(SeqRange - 1)
      BY <3>2, Constants, Parts
    <3> QED
      BY <3>3, Constants DEF NumDropped
  <2> HIDE DEF d
  <2>3. c \in Receivers
    BY <2>2, CountedMembers DEF Counters
  <2>4. e = [c EXCEPT !.m_initialized = TRUE,
                      !.m_last_sequence_number = SequenceNumber(p.id),
                      !.m_last_mbit = MBit(p.id)]
    BY <1>2 DEF ProcessPacketHeader, LastMbit, d
  <2> HIDE DEF c, e
  <2>5. MBit(p.id) \in BOOLEAN
    BY DEF MBit
  <2>6. /\ e \in Receivers
        /\ e.m_initialized /\ e.m_last_sequence_number = SequenceNumber(p.id)
        /\ e.m_last_mbit = MBit(p.id)
        /\ e.m_statistic = c.m_statistic /\ e.m_statistic_totals = c.m_statistic_totals
    BY <2>1, <2>3, <2>4, <2>5 DEF Receivers
  <2> QED
    BY <1>2, <2>2, <2>6 DEF c, d, e
<1> QED
  BY <1>1, <1>2

\* What a packet does to the history.
LEMMA SawMembers ==
    ASSUME NEW h \in Histories, NEW p \in Packets
    PROVE  LET e == Saw(h, p)
           IN  /\ e \in Histories
               /\ ~p.good => e = h
               /\ p.good => /\ e.last = p.id /\ e.good = h.good + 1
                            /\ e.first = IF h.good = 0 THEN p.id ELSE h.first
                            /\ e.ordered <=> h.ordered /\ (h.good > 0 => p.id > h.last)
                            /\ e.close <=> h.close /\ (h.good > 0 => p.id - h.last <= SeqRange)
<1> DEFINE e == Saw(h, p)
<1>1. CASE ~p.good
  BY <1>1 DEF Saw
<1>2. CASE p.good
  <2>1. /\ h.first \in Nat /\ h.last \in Nat /\ h.good \in Nat /\ h.ordered \in BOOLEAN
        /\ h.close \in BOOLEAN /\ p.id \in Nat
    BY DEF Histories, Packets
  <2>2. /\ (h.ordered /\ (h.good > 0 => p.id > h.last)) \in BOOLEAN
        /\ (h.close /\ (h.good > 0 => p.id - h.last <= SeqRange)) \in BOOLEAN
    OBVIOUS
  <2>3. e = [first |-> IF h.good = 0 THEN p.id ELSE h.first, last |-> p.id,
             good |-> h.good + 1,
             ordered |-> h.ordered /\ (h.good > 0 => p.id > h.last),
             close |-> h.close /\ (h.good > 0 => p.id - h.last <= SeqRange)]
    BY <1>2 DEF Saw
  <2> HIDE DEF e
  <2>4. e \in Histories
    BY <2>1, <2>2, <2>3 DEF Histories
  <2>5. /\ e.last = p.id /\ e.good = h.good + 1
        /\ e.first = (IF h.good = 0 THEN p.id ELSE h.first)
        /\ e.ordered = (h.ordered /\ (h.good > 0 => p.id > h.last))
        /\ e.close = (h.close /\ (h.good > 0 => p.id - h.last <= SeqRange))
    BY <2>3
  <2> QED
    BY <1>2, <2>4, <2>5 DEF e
<1> QED
  BY <1>1, <1>2

\* What a chunk does to the members once it is consumed: the headers are as they
\* were, nothing is dropped or received.
LEMMA ConsumedMembers ==
    ASSUME NEW r \in Receivers, NEW length \in Nat, NEW consumed \in BOOLEAN
    PROVE  LET e == AfterConsume(r, length, consumed)
               t == e.m_statistic_totals
               u == r.m_statistic_totals
           IN  /\ e \in Receivers
               /\ e.m_initialized = r.m_initialized
               /\ e.m_last_sequence_number = r.m_last_sequence_number
               /\ e.m_last_mbit = r.m_last_mbit
               /\ e.m_statistic["rx_dropped"] = r.m_statistic["rx_dropped"]
               /\ t["rx_count"] = u["rx_count"]
               /\ t["rx_corrupt_header"] = u["rx_corrupt_header"]
               /\ t["consumed_packets"] = u["consumed_packets"]
               /\ t["unconsumed_packets"]
                      = u["unconsumed_packets"] + (IF consumed THEN length ELSE 0)
               /\ \A c \in Counters : t[c] - u[c] = e.m_statistic[c] - r.m_statistic[c]
<1>1. r.m_statistic \in Stats /\ r.m_statistic_totals \in Stats
  BY DEF Receivers
<1>2. \A c \in Counters : r.m_statistic[c] \in Nat /\ r.m_statistic_totals[c] \in Nat
  BY <1>1 DEF Stats
<1>3. CASE ~consumed
  BY <1>2, <1>3 DEF AfterConsume, Counters
<1>4. CASE consumed
  <2> DEFINE d == Counted(r, "consumed_packets", 0)
             e == Counted(d, "unconsumed_packets", length)
  <2>1. AfterConsume(r, length, consumed) = e
    BY <1>4 DEF AfterConsume
  <2>2. {"consumed_packets", "unconsumed_packets"} \subseteq Counters /\ 0 \in Nat
    BY DEF Counters
  <2>3. /\ d \in Receivers
        /\ d.m_initialized = r.m_initialized
        /\ d.m_last_sequence_number = r.m_last_sequence_number
        /\ d.m_last_mbit = r.m_last_mbit
        /\ \A c \in Counters : /\ d.m_statistic[c] = r.m_statistic[c]
                              /\ d.m_statistic_totals[c] = r.m_statistic_totals[c]
    <3>1. /\ d \in Receivers
          /\ d.m_initialized = r.m_initialized
          /\ d.m_last_sequence_number = r.m_last_sequence_number
          /\ d.m_last_mbit = r.m_last_mbit
          /\ d.m_statistic["consumed_packets"] = r.m_statistic["consumed_packets"] + 0
          /\ d.m_statistic_totals["consumed_packets"]
                 = r.m_statistic_totals["consumed_packets"] + 0
          /\ \A c \in Counters \ {"consumed_packets"} :
                 /\ d.m_statistic[c] = r.m_statistic[c]
                 /\ d.m_statistic_totals[c] = r.m_statistic_totals[c]
      BY <2>2, CountedMembers
    <3> HIDE DEF d
    <3> QED
      BY <1>2, <2>2, <3>1
  <2> HIDE DEF d
  <2>4. /\ e \in Receivers
        /\ e.m_initialized = d.m_initialized
        /\ e.m_last_sequence_number = d.m_last_sequence_number
        /\ e.m_last_mbit = d.m_last_mbit
        /\ e.m_statistic["unconsumed_packets"] = d.m_statistic["unconsumed_packets"] + length
        /\ e.m_statistic_totals["unconsumed_packets"]
               = d.m_statistic_totals["unconsumed_packets"] + length
        /\ \A c \in Counters \ {"unconsumed_packets"} :
               /\ e.m_statistic[c] = d.m_statistic[c]
               /\ e.m_statistic_totals[c] = d.m_statistic_totals[c]
    BY <2>2, <2>3, CountedMembers
  <2> HIDE DEF e
  <2>5. {"rx_count", "rx_dropped", "rx_corrupt_header", "consumed_packets", "unconsumed_packets"}
            = Counters
    BY DEF Counters
  <2>6. \A c \in Counters :
            e.m_statistic_totals[c] - r.m_statistic_totals[c] = e.m_statistic[c] - r.m_statistic[c]
    BY <1>2, <2>2, <2>3, <2>4
  <2>7. /\ e.m_statistic["rx_dropped"] = r.m_statistic["rx_dropped"]
        /\ e.m_statistic_totals["rx_count"] = r.m_statistic_totals["rx_count"]
        /\ e.m_statistic_totals["rx_corrupt_header"] = r.m_statistic_totals["rx_corrupt_header"]
        /\ e.m_statistic_totals["consumed_packets"] = r.m_statistic_totals["consumed_packets"]
        /\ e.m_statistic_totals["unconsumed_packets"]
               = r.m_statistic_totals["unconsumed_packets"] + length
    BY <2>3, <2>4, <2>5
  <2> QED
    BY <1>4, <2>1, <2>3, <2>4, <2>6, <2>7
<1> QED
  BY <1>3, <1>4

\* A reset zeroes what is printed and touches nothing else.
LEMMA ResetMembers ==
    ASSUME NEW r \in Receivers
    PROVE  LET e == ResetStatistics(r)
           IN  /\ e \in Receivers /\ e.m_statistic = NoStats
               /\ e.m_initialized = r.m_initialized
               /\ e.m_last_sequence_number = r.m_last_sequence_number
               /\ e.m_last_mbit = r.m_last_mbit
               /\ e.m_statistic_totals = r.m_statistic_totals
<1>1. NoStats \in Stats
  BY DEF NoStats, Stats
<1> QED
  BY <1>1 DEF ResetStatistics, Receivers

\* Statistics are added counter by counter.
LEMMA AddMembers ==
    ASSUME NEW a \in Stats, NEW b \in Stats
    PROVE  Add(a, b) \in Stats /\ \A c \in Counters : Add(a, b)[c] = a[c] + b[c]
BY DEF Add, Stats

\* The first packet of a chunk, and the others.
LEMMA ChunkParts ==
    ASSUME NEW c \in Chunks, c.rest # <<>>
    PROVE  LET d == [c EXCEPT !.rest = Tail(@)]
           IN  /\ d \in Chunks /\ d.length = c.length
               /\ Head(c.rest) \in Packets /\ Head(c.rest) = c.rest[1] /\ 1 \in DOMAIN c.rest
               /\ Len(c.rest) = Len(d.rest) + 1
               /\ \A i \in DOMAIN d.rest : i + 1 \in DOMAIN c.rest /\ d.rest[i] = c.rest[i + 1]
<1> DEFINE q == c.rest
           d == [c EXCEPT !.rest = Tail(@)]
<1>1. q \in Seq(Packets) /\ q # <<>>
  BY DEF Chunks
<1>2. d \in Chunks /\ d.length = c.length /\ d.rest = Tail(q)
  BY <1>1 DEF Chunks
<1> HIDE DEF q, d
<1>3. /\ Head(q) \in Packets /\ Head(q) = q[1] /\ 1 \in DOMAIN q
      /\ Len(q) = Len(Tail(q)) + 1
      /\ \A i \in DOMAIN Tail(q) : i + 1 \in DOMAIN q /\ Tail(q)[i] = q[i + 1]
  BY <1>1
<1> QED
  BY <1>2, <1>3 DEF q, d

-----------------------------------------------------------------------------
(* Types                                                                   *)

Calls == {"create", "attach", "poll", "first", "other", "last", "detach", "destroy"}
Does == {"create", "attach", "start", "poll", "detach", "destroy", "returned"}
Rcs == {"success", "failure", "signal_received"}
Nodes == [does : Does, at : Nat, rc : Rcs]
Reports == [reports : Nat, sum : [Streams -> Stats]]

\* The thread and what it sets up.
NodeTypes ==
    /\ numFlows \in Nat \ {0} /\ node \in Nodes
    /\ created \subseteq Nat /\ adapter \subseteq Nat
    /\ m_flows \in [Streams -> SUBSET Nat]
    /\ signal \in BOOLEAN /\ failed \subseteq Calls

\* The packets and what is known of them.
DataTypes ==
    /\ net \in [Streams -> Paths] /\ traffic \in Traffic
    /\ queue \in [Streams -> Seq(Packets)] /\ chunk \in [Streams -> Chunks]
    /\ rx \in [Streams -> Receivers] /\ seen \in [Streams -> Histories]
    /\ events \in [Streams -> Seq(Nat)] /\ printed \in Reports

TypeOK == NodeTypes /\ DataTypes

dataVars == <<netVars, streamVars>>

\* What a step does to the packets; the flows are what they were, and no failure
\* is forgotten.
LEMMA StepCases ==
    ASSUME [Next]_vars
    PROVE  /\ numFlows' = numFlows /\ failed \subseteq failed'
           /\ \/ UNCHANGED dataVars
              \/ \E s \in Streams : SendPacket(s) \/ HeldPacketArrives(s)
              \/ PollChunk \/ ProcessPacket \/ ConsumeChunk \/ EndRound
<1>1. CASE CreateStream \/ AttachFlow \/ AllAttached \/ DetachFlow \/ AllDetached \/ DestroyStream
  BY <1>1 DEF CreateStream, AttachFlow, AllAttached, DetachFlow, AllDetached, DestroyStream,
     Succeeds, Fails, lifeVars, dataVars
<1>2. CASE BeginRound \/ PollEmpty \/ PollFails \/ Signal \/ UNCHANGED vars
  BY <1>2 DEF BeginRound, PollEmpty, PollFails, Signal, Succeeds, Fails, lifeVars, dataVars, vars
<1>3. CASE PollChunk \/ ProcessPacket \/ ConsumeChunk \/ EndRound
  BY <1>3 DEF PollChunk, ProcessPacket, ConsumeChunk, EndRound, Succeeds, Fails, lifeVars
<1>4. CASE Network
  BY <1>4 DEF Network, SendPacket, HeldPacketArrives, lifeVars
<1> QED
  BY <1>1, <1>2, <1>3, <1>4 DEF Next, Node

LEMMA InitTypes == Init => TypeOK
<1> SUFFICES ASSUME Init PROVE TypeOK
  OBVIOUS
<1>1. NoStats \in Stats /\ <<>> \in Seq(Packets) /\ <<>> \in Seq(Nat)
  BY DEF NoStats, Stats
<1>2. NodeTypes
  BY NodeAssumption DEF Init, NodeTypes, Nodes, Does, Rcs
<1>3. net \in [Streams -> Paths]
  <2>1. ASSUME NEW n \in [next : FirstIds, held : {0}] PROVE n \in Paths
    <3>1. n.next \in Nat /\ n.held = 0
      BY NodeAssumption
    <3>2. n = [next |-> n.next, held |-> n.held]
      OBVIOUS
    <3> QED
      BY <3>1, <3>2 DEF Paths
  <2> QED
    BY <2>1 DEF Init
<1>4. traffic \in Traffic
  BY Constants DEF Init, Traffic
<1>5. queue \in [Streams -> Seq(Packets)] /\ chunk \in [Streams -> Chunks]
  BY <1>1 DEF Init, Chunks, NoChunk
<1>6. rx \in [Streams -> Receivers]
  BY <1>1 DEF Init, Receivers
<1>7. seen \in [Streams -> Histories] /\ events \in [Streams -> Seq(Nat)] /\ printed \in Reports
  BY <1>1 DEF Init, Histories, Reports
<1> QED
  BY <1>2, <1>3, <1>4, <1>5, <1>6, <1>7 DEF TypeOK, DataTypes

\* Every step keeps the types of the thread.
LEMMA NodeTypesStep ==
    ASSUME NodeTypes, DataTypes, [Next]_vars
    PROVE  NodeTypes'
<1>1. node.does \in Does /\ node.at \in Nat /\ node.rc \in Rcs /\ node \in Nodes
  BY DEF NodeTypes, Nodes
<1>2. \A does \in Does, at \in Nat, rc \in Rcs : Goes(does, at, rc) => node' \in Nodes
  BY DEF Goes, Nodes
<1>3. /\ {"create", "attach", "start", "poll", "detach", "destroy", "returned"} = Does
      /\ {"success", "failure", "signal_received"} = Rcs
      /\ 0 \in Nat /\ 1 \in Nat /\ node.at + 1 \in Nat /\ NumStreams + 1 \in Nat
  BY <1>1, Constants DEF Does, Rcs
<1>4. /\ numFlows \in Nat \ {0} /\ created \subseteq Nat /\ adapter \subseteq Nat
      /\ m_flows \in [Streams -> SUBSET Nat]
      /\ signal \in BOOLEAN /\ failed \subseteq Calls
  BY DEF NodeTypes
<1>5. \A call \in Calls : Succeeds \/ Fails(call) => failed' \subseteq Calls
  BY <1>4 DEF Succeeds, Fails
<1>6. CASE CreateStream
  <2>1. node' \in Nodes
    BY <1>1, <1>2, <1>3, <1>6 DEF CreateStream
  <2>2. failed' \subseteq Calls
    BY <1>5, <1>6 DEF CreateStream, Calls
  <2>3. created' \subseteq Nat
    BY <1>1, <1>4, <1>6 DEF CreateStream
  <2> QED
    BY <1>4, <1>6, <2>1, <2>2, <2>3 DEF CreateStream, NodeTypes
<1>7. CASE AttachFlow
  <2>1. node' \in Nodes
    BY <1>1, <1>2, <1>3, <1>7 DEF AttachFlow
  <2>2. failed' \subseteq Calls
    BY <1>5, <1>7 DEF AttachFlow, Calls
  <2>3. m_flows' \in [Streams -> SUBSET Nat] /\ adapter' \subseteq Nat
    BY <1>1, <1>4, <1>7 DEF AttachFlow
  <2> QED
    BY <1>4, <1>7, <2>1, <2>2, <2>3 DEF AttachFlow, NodeTypes
<1>8. CASE AllAttached \/ AllDetached
  <2>1. node' \in Nodes
    BY <1>1, <1>2, <1>3, <1>8 DEF AllAttached, AllDetached
  <2> QED
    BY <1>4, <1>8, <2>1 DEF AllAttached, AllDetached, NodeTypes, lifeVars
<1>9. CASE DetachFlow
  <2>1. node' \in Nodes
    BY <1>1, <1>2, <1>3, <1>9 DEF DetachFlow
  <2>2. failed' \subseteq Calls
    BY <1>5, <1>9 DEF DetachFlow, Calls
  <2>3. m_flows' \in [Streams -> SUBSET Nat] /\ adapter' \subseteq Nat
    BY <1>1, <1>4, <1>9 DEF DetachFlow
  <2> QED
    BY <1>4, <1>9, <2>1, <2>2, <2>3 DEF DetachFlow, NodeTypes
<1>10. CASE DestroyStream
  <2>1. node' \in Nodes
    BY <1>1, <1>2, <1>3, <1>10 DEF DestroyStream
  <2>2. failed' \subseteq Calls
    BY <1>5, <1>10 DEF DestroyStream, Calls
  <2>3. created' \subseteq Nat
    BY <1>4, <1>10 DEF DestroyStream
  <2> QED
    BY <1>4, <1>10, <2>1, <2>2, <2>3 DEF DestroyStream, NodeTypes
<1>11. CASE BeginRound \/ PollEmpty \/ PollFails
  <2>1. CASE BeginRound
    <3>1. node' \in Nodes
      BY <1>1, <1>2, <1>3, <2>1 DEF BeginRound
    <3> QED
      BY <1>4, <2>1, <3>1 DEF BeginRound, NodeTypes, lifeVars
  <2>2. CASE PollEmpty
    <3>1. node' \in Nodes
      BY <1>1, <1>2, <1>3, <2>2 DEF PollEmpty, NextStream
    <3> QED
      BY <1>4, <2>2, <3>1 DEF PollEmpty, NodeTypes, lifeVars
  <2>3. CASE PollFails
    <3>1. node' \in Nodes
      BY <1>1, <1>2, <1>3, <2>3 DEF PollFails, LeavesRound
    <3>2. failed' \subseteq Calls
      BY <1>5, <2>3 DEF PollFails, Calls
    <3> QED
      BY <1>4, <2>3, <3>1, <3>2 DEF PollFails, NodeTypes, lifeVars
  <2> QED
    BY <1>11, <2>1, <2>2, <2>3
<1>12. CASE PollChunk \/ ProcessPacket
  BY <1>1, <1>4, <1>12 DEF PollChunk, ProcessPacket, lifeVars, NodeTypes
<1>13. CASE ConsumeChunk
  <2>1. ConsumerCall \in Calls
    BY DEF ConsumerCall, Calls
  <2>2. failed' \subseteq Calls
    BY <1>5, <1>13, <2>1 DEF ConsumeChunk
  <2>3. node' \in Nodes
    BY <1>1, <1>2, <1>3, <1>13 DEF ConsumeChunk, AfterConsumer, NextStream
  <2> QED
    BY <1>4, <1>13, <2>2, <2>3 DEF ConsumeChunk, NodeTypes, lifeVars
<1>14. CASE EndRound
  <2>1. node' \in Nodes
    BY <1>1, <1>2, <1>3, <1>14 DEF EndRound
  <2> QED
    BY <1>4, <1>14, <2>1 DEF EndRound, NodeTypes, lifeVars
<1>15. CASE Network \/ Signal \/ UNCHANGED vars
  BY <1>1, <1>4, <1>15 DEF Network, SendPacket, HeldPacketArrives, Signal, lifeVars, vars, NodeTypes
<1> QED
  BY <1>6, <1>7, <1>8, <1>9, <1>10, <1>11, <1>12, <1>13, <1>14, <1>15 DEF Next, Node

\* Every step keeps the types of the packets and of what is known of them.
LEMMA DataTypesStep ==
    ASSUME NodeTypes, DataTypes, [Next]_vars
    PROVE  DataTypes'
<1> USE DEF DataTypes
<1>1. CASE UNCHANGED dataVars
  BY <1>1 DEF dataVars, netVars, streamVars
<1>2. ASSUME NEW s \in Streams, SendPacket(s) PROVE DataTypes'
  <2>1. net[s] \in Paths /\ queue[s] \in Seq(Packets)
    OBVIOUS
  <2>2. PICK outcome \in {"arrives", "lost", "damaged", "delayed", "duplicated"},
             n \in 1..SeqRange :
            /\ traffic.sent + n <= MaxSent
            /\ queue' = IF outcome \in {"lost", "delayed"} THEN queue
                        ELSE [queue EXCEPT ![s] =
                                 Append(@, [id |-> net[s].next, good |-> outcome # "damaged"])]
            /\ net' = [net EXCEPT ![s] =
                          [next |-> @.next + n,
                           held |-> IF outcome \in {"delayed", "duplicated"} THEN @.next
                                    ELSE @.held]]
            /\ traffic' = [sent |-> traffic.sent + n,
                           faults |-> traffic.faults + (IF outcome = "arrives" THEN 0 ELSE 1)]
    BY <1>2 DEF SendPacket
  <2>3. [id |-> net[s].next, good |-> outcome # "damaged"] \in Packets
    BY <2>1 DEF Paths, Packets
  <2>4. queue' \in [Streams -> Seq(Packets)]
    BY <2>1, <2>2, <2>3
  <2>5. net' \in [Streams -> Paths]
    BY <2>1, <2>2, Constants DEF Paths
  <2>6. traffic' \in Traffic
    BY <2>2, Constants, SMTT(30) DEF Traffic
  <2> QED
    BY <1>2, <2>4, <2>5, <2>6 DEF SendPacket, streamVars
<1>3. ASSUME NEW s \in Streams, HeldPacketArrives(s) PROVE DataTypes'
  <2>1. net[s] \in Paths /\ queue[s] \in Seq(Packets)
    OBVIOUS
  <2>2. [id |-> net[s].held, good |-> TRUE] \in Packets
    BY <2>1 DEF Paths, Packets
  <2>3. queue' \in [Streams -> Seq(Packets)]
    BY <1>3, <2>1, <2>2 DEF HeldPacketArrives
  <2>4. net' \in [Streams -> Paths]
    BY <1>3, <2>1 DEF HeldPacketArrives, Paths
  <2> QED
    BY <1>3, <2>3, <2>4 DEF HeldPacketArrives, streamVars
<1>4. CASE PollChunk
  <2> DEFINE s == node.at
  <2>1. s \in Streams /\ queue[s] \in Seq(Packets) /\ rx[s] \in Receivers
    BY <1>4 DEF PollChunk, PollsStream
  <2>2. Counted(rx[s], "rx_count", Len(queue[s])) \in Receivers
    <3>1. "rx_count" \in Counters /\ Len(queue[s]) \in Nat
      BY <2>1 DEF Counters
    <3> QED
      BY <2>1, <3>1, CountedMembers
  <2>3. rx' \in [Streams -> Receivers]
    BY <1>4, <2>2 DEF PollChunk
  <2>4. queue' \in [Streams -> Seq(Packets)] /\ chunk' \in [Streams -> Chunks]
    BY <1>4, <2>1 DEF PollChunk, Chunks
  <2> QED
    BY <1>4, <2>3, <2>4 DEF PollChunk
<1>5. CASE ProcessPacket
  <2> DEFINE s == node.at
             p == Head(chunk[s].rest)
  <2>1. s \in Streams /\ chunk[s] \in Chunks /\ chunk[s].rest # <<>>
    BY <1>5 DEF ProcessPacket
  <2>2. p \in Packets /\ [chunk[s] EXCEPT !.rest = Tail(@)] \in Chunks
    BY <2>1, ChunkParts
  <2> HIDE DEF p
  <2>3. ProcessPacketHeader(rx[s], p) \in Receivers
    <3>1. CASE HeaderProcessing
      BY <2>1, <2>2, <3>1, HeaderMembers
    <3>2. CASE ~HeaderProcessing
      BY <2>1, <3>2 DEF ProcessPacketHeader
    <3> QED
      BY <3>1, <3>2
  <2>4. Saw(seen[s], p) \in Histories
    BY <2>1, <2>2, SawMembers
  <2>5. FrameOf(p.id) \in Nat
    BY <2>2, Constants, NaturalParts DEF Packets, FrameOf
  <2>6. /\ chunk' = [chunk EXCEPT ![s] = [chunk[s] EXCEPT !.rest = Tail(@)]]
        /\ rx' = [rx EXCEPT ![s] = ProcessPacketHeader(@, p)]
        /\ seen' = [seen EXCEPT ![s] = Saw(@, p)]
        /\ \/ events' = events
           \/ events' = [events EXCEPT ![s] = Append(@, FrameOf(p.id))]
    BY <1>5 DEF ProcessPacket, p
  <2>7. chunk' \in [Streams -> Chunks] /\ rx' \in [Streams -> Receivers]
    BY <2>2, <2>3, <2>6
  <2>8. seen' \in [Streams -> Histories]
    BY <2>4, <2>6
  <2>9. events' \in [Streams -> Seq(Nat)]
    <3>1. events[s] \in Seq(Nat) /\ Append(events[s], FrameOf(p.id)) \in Seq(Nat)
      BY <2>1, <2>5
    <3> HIDE DEF s
    <3> QED
      BY <2>6, <3>1
  <2> QED
    BY <1>5, <2>7, <2>8, <2>9 DEF ProcessPacket, netVars
<1>6. CASE ConsumeChunk
  <2> DEFINE s == node.at
  <2>1. PICK consumed \in BOOLEAN :
            rx' = [rx EXCEPT ![s] = AfterConsume(@, chunk[s].length, consumed)]
    BY <1>6 DEF ConsumeChunk
  <2>2. s \in Streams /\ chunk[s].length \in Nat /\ rx[s] \in Receivers
    BY <1>6 DEF ConsumeChunk, Chunks
  <2>3. AfterConsume(rx[s], chunk[s].length, consumed) \in Receivers
    BY <2>2, ConsumedMembers
  <2>4. rx' \in [Streams -> Receivers]
    BY <2>1, <2>3
  <2>5. chunk' \in [Streams -> Chunks]
    BY <1>6 DEF ConsumeChunk, NoChunk, Chunks
  <2> QED
    BY <1>6, <2>4, <2>5 DEF ConsumeChunk, netVars
<1>7. CASE EndRound
  <2>1. \A s \in Streams : rx[s] \in Receivers /\ ResetStatistics(rx[s]) \in Receivers
    BY ResetMembers
  <2>2. \A s \in Streams : Add(printed.sum[s], rx[s].m_statistic) \in Stats
    BY AddMembers DEF Reports, Receivers
  <2>3. rx' \in [Streams -> Receivers]
    BY <1>7, <2>1 DEF EndRound
  <2>4. printed' \in Reports
    BY <1>7, <2>2 DEF EndRound, Reports
  <2> QED
    BY <1>7, <2>3, <2>4 DEF EndRound, netVars
<1> QED
  BY <1>1, <1>2, <1>3, <1>4, <1>5, <1>6, <1>7, StepCases

\* The members have their types: no counter is negative, no packet is without a
\* number, no call fails that the code does not make.
THEOREM TypesCorrect == Spec => []TypeOK
<1>1. TypeOK /\ [Next]_vars => TypeOK'
  BY NodeTypesStep, DataTypesStep DEF TypeOK
<1> QED
  BY <1>1, InitTypes, PTL DEF Spec

-----------------------------------------------------------------------------
(* What holds of the members of one stream, and the packets and chunks      *)

Dropped(r, sum) == sum["rx_dropped"] + r.m_statistic["rx_dropped"]
Missing(h) == IF h.good = 0 THEN 0 ELSE h.last - h.first + 1 - h.good

\* The stream remembers the last packet, and its drops are the missing ones up to
\* whole ranges of the sequence number; exactly those, in order and without gaps of
\* a whole range.
DropsOK(r, h, sum) ==
    /\ r.m_initialized <=> h.good > 0
    /\ h.good > 0 => r.m_last_sequence_number = SequenceNumber(h.last)
    /\ \E k \in Int : Dropped(r, sum) = Missing(h) + k * SeqRange
    /\ h.ordered /\ h.close => Dropped(r, sum) = Missing(h)

\* Only the drops and the last packet matter.
LEMMA DropsSame ==
    ASSUME NEW r, NEW h, NEW sum, DropsOK(r, h, sum), NEW q, NEW new,
           q.m_initialized = r.m_initialized,
           q.m_last_sequence_number = r.m_last_sequence_number,
           Dropped(q, new) = Dropped(r, sum)
    PROVE  DropsOK(q, h, new)
BY DEF DropsOK

\* A packet with a good header adds what is missing before it.
LEMMA DropsPacket ==
    ASSUME HeaderProcessing, NEW r \in Receivers, NEW h \in Histories, NEW sum \in Stats,
           NEW p \in Packets, DropsOK(r, h, sum)
    PROVE  DropsOK(ProcessPacketHeader(r, p), Saw(h, p), sum)
<1> DEFINE q == ProcessPacketHeader(r, p)
           g == Saw(h, p)
           d == NumDropped(r, SequenceNumber(p.id))
<1>1. "rx_dropped" \in Counters /\ "rx_corrupt_header" \in Counters
      /\ "rx_dropped" # "rx_corrupt_header" /\ 1 \in Nat
  BY DEF Counters
<1>2. CASE ~p.good
  <2>1. q = Counted(r, "rx_corrupt_header", 1) /\ g = h
    BY <1>2, HeaderMembers, SawMembers
  <2>2. /\ q.m_initialized = r.m_initialized
        /\ q.m_last_sequence_number = r.m_last_sequence_number
        /\ q.m_statistic["rx_dropped"] = r.m_statistic["rx_dropped"]
    BY <1>1, <2>1, CountedMembers
  <2> QED
    BY <2>1, <2>2, DropsSame DEF Dropped
<1>3. CASE p.good
  <2>1. /\ d \in Nat /\ q.m_initialized /\ q.m_last_sequence_number = SequenceNumber(p.id)
        /\ q.m_statistic = Counted(r, "rx_dropped", d).m_statistic
    BY <1>3, HeaderMembers
  <2> HIDE DEF d, q
  <2>2. q.m_statistic["rx_dropped"] = r.m_statistic["rx_dropped"] + d
    BY <1>1, <2>1, CountedMembers
  <2>3. /\ g \in Histories /\ g.last = p.id /\ g.good = h.good + 1
        /\ g.first = (IF h.good = 0 THEN p.id ELSE h.first)
        /\ g.ordered <=> h.ordered /\ (h.good > 0 => p.id > h.last)
        /\ g.close <=> h.close /\ (h.good > 0 => p.id - h.last <= SeqRange)
    BY <1>3, SawMembers
  <2> HIDE DEF g
  <2>4. /\ h.good \in Nat /\ h.first \in Nat /\ h.last \in Nat /\ p.id \in Nat
        /\ sum["rx_dropped"] \in Nat /\ r.m_statistic["rx_dropped"] \in Nat
    BY <1>1 DEF Histories, Packets, Stats, Receivers
  <2>5. Dropped(q, sum) = Dropped(r, sum) + d /\ Dropped(r, sum) \in Int
    BY <2>1, <2>2, <2>4 DEF Dropped
  <2>6. PICK k \in Int : Dropped(r, sum) = Missing(h) + k * SeqRange
    BY DEF DropsOK
  <2>7. CASE h.good = 0
    <3>1. d = 0
      BY <2>7 DEF d, NumDropped, DropsOK
    <3>2. Missing(h) = 0 /\ Missing(g) = 0 /\ (g.ordered /\ g.close => h.ordered /\ h.close)
      BY <2>3, <2>4, <2>7 DEF Missing
    <3>3. Dropped(q, sum) = Dropped(r, sum)
      BY <2>5, <3>1
    <3>4. \E j \in Int : Dropped(q, sum) = Missing(g) + j * SeqRange
      BY <2>6, <3>2, <3>3
    <3>5. g.ordered /\ g.close => Dropped(q, sum) = Missing(g)
      BY <3>2, <3>3 DEF DropsOK
    <3>6. g.good > 0
      BY <2>3, <2>4
    <3> QED
      BY <2>1, <2>3, <3>4, <3>5, <3>6 DEF DropsOK, q, g
  <2>8. CASE h.good > 0
    <3> DEFINE e == p.id - h.last - 1
    <3>1. d = ((p.id % SeqRange) - ((h.last % SeqRange) + 1)) % SeqRange
      BY <2>8 DEF d, NumDropped, DropsOK, SequenceNumber
    <3>2. /\ \E i \in Int : d = e + i * SeqRange
          /\ e \in 0..(SeqRange - 1) => d = e
      <4> DEFINE x == ((p.id % SeqRange) - ((h.last % SeqRange) + 1)) % SeqRange
      <4>1. p.id \in Int /\ h.last \in Int /\ SeqRange \in Nat \ {0}
        BY <2>4, Constants
      <4>2. /\ \E i \in Int : x = p.id - h.last - 1 + i * SeqRange
            /\ p.id - h.last - 1 \in 0..(SeqRange - 1) => x = p.id - h.last - 1
        BY <4>1, SequenceDistance
      <4> QED
        BY <3>1, <4>2, Zenon
    <3>3. PICK i \in Int : d = e + i * SeqRange
      BY <3>2
    <3>4. Missing(g) = Missing(h) + e /\ Missing(h) \in Int /\ e \in Int
      BY <2>3, <2>4, <2>8 DEF Missing
    <3> HIDE DEF e
    <3>5. /\ (k + i) * SeqRange = k * SeqRange + i * SeqRange /\ k + i \in Int
          /\ k * SeqRange \in Int /\ i * SeqRange \in Int
      BY Constants, Products
    <3>6. Dropped(q, sum) = Missing(g) + (k + i) * SeqRange
      BY <2>5, <2>6, <3>3, <3>4, <3>5
    <3>7. ASSUME g.ordered, g.close PROVE Dropped(q, sum) = Missing(g)
      <4>1. e \in 0..(SeqRange - 1) /\ h.ordered /\ h.close
        BY <2>3, <2>4, <2>8, <3>7, Constants DEF e
      <4> QED
        BY <2>5, <3>2, <3>4, <4>1 DEF DropsOK
    <3>8. g.good > 0
      BY <2>3, <2>4
    <3> QED
      BY <2>1, <2>3, <3>5, <3>6, <3>7, <3>8 DEF DropsOK, q, g
  <2> QED
    BY <2>4, <2>7, <2>8
<1> QED
  BY <1>2, <1>3

\* The drops explained, as they are reported.
LEMMA DropsRemainders ==
    ASSUME NEW r \in Receivers, NEW h \in Histories, NEW sum \in Stats, DropsOK(r, h, sum)
    PROVE  Dropped(r, sum) % SeqRange = Missing(h) % SeqRange
<1>1. PICK k \in Int : Dropped(r, sum) = Missing(h) + k * SeqRange
  BY DEF DropsOK
<1>2. Missing(h) \in Int
  BY DEF Missing, Histories
<1>3. (Missing(h) + k * SeqRange) % SeqRange = Missing(h) % SeqRange
  BY <1>2, Constants, MultipleVanishes
<1> QED
  BY <1>1, <1>3, Zenon

-----------------------------------------------------------------------------
\* m_last_mbit is the marker bit of the last packet, and no frame announced is
\* after that packet's.
FramesOK(r, h, e) ==
    /\ ~HeaderProcessing => e = <<>>
    /\ h.good = 0 => r.m_last_mbit /\ e = <<>>
    /\ HeaderProcessing /\ h.good > 0 => r.m_last_mbit = MBit(h.last)
    /\ h.ordered => /\ \A m, n \in DOMAIN e : m < n => e[m] < e[n]
                    /\ \A m \in DOMAIN e : e[m] <= FrameOf(h.last)

\* A packet that starts a frame starts a new one.
LEMMA FramesPacket ==
    ASSUME HeaderProcessing, NEW r \in Receivers, NEW h \in Histories, NEW e \in Seq(Nat),
           NEW p \in Packets, FramesOK(r, h, e)
    PROVE  FramesOK(ProcessPacketHeader(r, p), Saw(h, p),
                    IF p.good /\ StartsFrame(r, p) THEN Append(e, FrameOf(p.id)) ELSE e)
<1> DEFINE q == ProcessPacketHeader(r, p)
           g == Saw(h, p)
           f == IF p.good /\ StartsFrame(r, p) THEN Append(e, FrameOf(p.id)) ELSE e
<1>1. CASE ~p.good
  <2>1. q = Counted(r, "rx_corrupt_header", 1) /\ g = h /\ f = e
    BY <1>1, HeaderMembers, SawMembers
  <2>2. "rx_corrupt_header" \in Counters /\ 1 \in Nat
    BY DEF Counters
  <2>3. q.m_last_mbit = r.m_last_mbit
    BY <2>1, <2>2, CountedMembers
  <2> QED
    BY <2>1, <2>3 DEF FramesOK
<1>2. CASE p.good
  <2>1. q.m_last_mbit = MBit(p.id)
    BY <1>2, HeaderMembers
  <2>2. /\ g \in Histories /\ g.last = p.id /\ g.good = h.good + 1
        /\ g.ordered <=> h.ordered /\ (h.good > 0 => p.id > h.last)
    BY <1>2, SawMembers
  <2> HIDE DEF q, g
  <2>3. h.good \in Nat /\ h.last \in Nat /\ p.id \in Nat
    BY DEF Histories, Packets
  <2>4. g.good > 0
    BY <2>2, <2>3
  <2>5. ASSUME h.good > 0, p.id > h.last
        PROVE  /\ FrameOf(h.last) \in Nat /\ FrameOf(p.id) \in Nat
               /\ FrameOf(h.last) <= FrameOf(p.id)
               /\ MBit(h.last) => FrameOf(h.last) < FrameOf(p.id)
    BY <2>3, <2>5, Constants, QuotientOrder DEF FrameOf, MBit
  <2>6. ASSUME g.ordered
        PROVE  /\ \A m, n \in DOMAIN f : m < n => f[m] < f[n]
               /\ \A m \in DOMAIN f : f[m] <= FrameOf(p.id)
    <3>1. FrameOf(p.id) \in Nat
      BY <2>3, Constants, NaturalParts DEF FrameOf
    <3>2. CASE h.good = 0
      <4>1. e = <<>>
        BY <3>2 DEF FramesOK
      <4>2. f = <<>> \/ f = <<FrameOf(p.id)>>
        BY <4>1
      <4> HIDE DEF f
      <4> QED
        BY <3>1, <4>2
    <3>3. CASE h.good > 0
      <4>1. h.ordered /\ p.id > h.last
        BY <2>2, <2>6, <3>3
      <4>2. /\ \A m, n \in DOMAIN e : m < n => e[m] < e[n]
            /\ \A m \in DOMAIN e : e[m] <= FrameOf(h.last)
            /\ \A m \in DOMAIN e : e[m] \in Nat
        BY <4>1 DEF FramesOK
      <4>3. CASE StartsFrame(r, p)
        <5>1. MBit(h.last)
          BY <3>3, <4>3 DEF FramesOK, StartsFrame
        <5>2. FrameOf(h.last) \in Nat /\ FrameOf(h.last) < FrameOf(p.id)
          BY <2>5, <3>3, <4>1, <5>1
        <5>3. /\ f = Append(e, FrameOf(p.id)) /\ Len(f) = Len(e) + 1
              /\ DOMAIN f = 1..(Len(e) + 1) /\ DOMAIN e = 1..Len(e) /\ Len(e) \in Nat
              /\ \A m \in DOMAIN e : f[m] = e[m]
              /\ f[Len(e) + 1] = FrameOf(p.id)
          BY <1>2, <3>1, <4>3
        <5> HIDE DEF f
        <5>4. \A m \in DOMAIN e : e[m] < FrameOf(p.id)
          BY <3>1, <4>2, <5>2
        <5>5. \A m \in DOMAIN f : m \in DOMAIN e \/ m = Len(e) + 1
          BY <5>3
        <5> QED
          BY <3>1, <4>2, <5>3, <5>4, <5>5
      <4>4. CASE ~StartsFrame(r, p)
        <5>1. f = e
          BY <4>4
        <5> HIDE DEF f
        <5>2. FrameOf(h.last) \in Nat /\ FrameOf(h.last) <= FrameOf(p.id)
          BY <2>5, <3>3, <4>1
        <5>3. \A m \in DOMAIN e : e[m] <= FrameOf(p.id)
          BY <3>1, <4>2, <5>2
        <5> QED
          BY <4>2, <5>1, <5>3
      <4> QED
        BY <4>3, <4>4
    <3>4. h.good = 0 \/ h.good > 0
      BY <2>3
    <3> HIDE DEF f
    <3> QED
      BY <3>2, <3>3, <3>4, Zenon
  <2> HIDE DEF f
  <2>7. FramesOK(q, g, f)
    BY <2>1, <2>2, <2>3, <2>4, <2>6 DEF FramesOK
  <2> QED
    BY <2>7 DEF q, g, f
<1> QED
  BY <1>1, <1>2

-----------------------------------------------------------------------------
\* What is printed and what is not add up; every packet polled is good, corrupt or
\* still to be processed; the chunk and the consumer's account are all of them,
\* unless a consumer failed.
SumsOK(r, sum) == \A d \in Counters : r.m_statistic_totals[d] = sum[d] + r.m_statistic[d]

TotalsOK(r, h, todo, length, fine) ==
    LET t == r.m_statistic_totals
        accounted == t["consumed_packets"] + t["unconsumed_packets"] + length
    IN  /\ HeaderProcessing => t["rx_count"] = h.good + t["rx_corrupt_header"] + todo
        /\ accounted <= t["rx_count"] /\ (fine => accounted = t["rx_count"])

AccountOK(r, h, sum, c, fine) ==
    /\ SumsOK(r, sum) /\ TotalsOK(r, h, Len(c.rest), c.length, fine)
    /\ c.length = 0 => c.rest = <<>>

\* The counters of a stream are numbers.
LEMMA CounterNumbers ==
    ASSUME NEW r \in Receivers, NEW sum \in Stats
    PROVE  /\ \A d \in Counters : /\ r.m_statistic[d] \in Nat /\ sum[d] \in Nat
                                  /\ r.m_statistic_totals[d] \in Nat
           /\ {"rx_count", "rx_dropped", "rx_corrupt_header",
               "consumed_packets", "unconsumed_packets"} \subseteq Counters
<1>1. r.m_statistic \in Stats /\ r.m_statistic_totals \in Stats
  BY DEF Receivers
<1> QED
  BY <1>1 DEF Stats, Counters

\* Statistics and totals that both grow by a number still add up.
LEMMA SumsCounted ==
    ASSUME NEW r \in Receivers, NEW sum \in Stats, SumsOK(r, sum),
           NEW counter \in Counters, NEW n \in Nat, NEW e,
           e.m_statistic = Counted(r, counter, n).m_statistic,
           e.m_statistic_totals = Counted(r, counter, n).m_statistic_totals
    PROVE  SumsOK(e, sum)
<1> SUFFICES ASSUME NEW d \in Counters
             PROVE  e.m_statistic_totals[d] = sum[d] + e.m_statistic[d]
  BY DEF SumsOK
<1>1. /\ r.m_statistic_totals[d] \in Nat /\ r.m_statistic[d] \in Nat /\ sum[d] \in Nat
  BY CounterNumbers
<1>2. r.m_statistic_totals[d] = sum[d] + r.m_statistic[d]
  BY DEF SumsOK
<1>3. CASE d = counter
  <2>1. /\ e.m_statistic[d] = r.m_statistic[d] + n
        /\ e.m_statistic_totals[d] = r.m_statistic_totals[d] + n
    BY <1>3, CountedMembers
  <2> QED
    BY <1>1, <1>2, <2>1
<1>4. CASE d # counter
  <2>1. e.m_statistic[d] = r.m_statistic[d] /\ e.m_statistic_totals[d] = r.m_statistic_totals[d]
    BY <1>4, CountedMembers
  <2> QED
    BY <1>2, <2>1
<1> QED
  BY <1>3, <1>4

\* A poll counts the packets of the new chunk.
LEMMA AccountPoll ==
    ASSUME NEW r \in Receivers, NEW h \in Histories, NEW sum \in Stats, NEW c \in Chunks,
           NEW fine \in BOOLEAN, AccountOK(r, h, sum, c, fine), c.length = 0,
           NEW q \in Seq(Packets), q # <<>>
    PROVE  AccountOK(Counted(r, "rx_count", Len(q)), h, sum,
                     [rest |-> q, length |-> Len(q)], fine)
<1> DEFINE e == Counted(r, "rx_count", Len(q))
           d == [rest |-> q, length |-> Len(q)]
<1>1. Len(q) \in Nat /\ "rx_count" \in Counters
  BY DEF Counters
<1>2. /\ e.m_statistic["rx_count"] = r.m_statistic["rx_count"] + Len(q)
      /\ e.m_statistic_totals["rx_count"] = r.m_statistic_totals["rx_count"] + Len(q)
      /\ \A n \in Counters \ {"rx_count"} :
             /\ e.m_statistic[n] = r.m_statistic[n]
             /\ e.m_statistic_totals[n] = r.m_statistic_totals[n]
  BY <1>1, CountedMembers
<1>3. d.rest = q /\ d.length = Len(q) /\ Len(q) # 0
  BY <1>1
<1>4. h.good \in Nat
  BY DEF Histories
<1>5. Len(c.rest) = 0
  BY DEF AccountOK, TotalsOK
<1>6. SumsOK(e, sum)
  BY <1>1, SumsCounted DEF AccountOK
<1> HIDE DEF d, e
<1>7. \A n \in {"rx_corrupt_header", "consumed_packets", "unconsumed_packets"} :
          e.m_statistic_totals[n] = r.m_statistic_totals[n]
  BY <1>2, CounterNumbers
<1>8. TotalsOK(e, h, Len(d.rest), d.length, fine)
  BY <1>1, <1>2, <1>3, <1>4, <1>5, <1>7, CounterNumbers, SMTT(30) DEF AccountOK, TotalsOK
<1>9. d.length # 0
  BY <1>3
<1> QED
  BY <1>6, <1>8, <1>9 DEF AccountOK, d, e

\* One more processed, one less to process.
LEMMA TotalsPacket ==
    ASSUME NEW r, NEW e, NEW h, NEW g, NEW length, NEW fine, NEW bad \in Nat,
           NEW todo \in Nat, NEW rest \in Nat, todo = rest + 1,
           TotalsOK(r, h, todo, length, fine),
           h.good \in Nat, g.good \in Nat, g.good + bad = h.good + 1,
           r.m_statistic_totals["rx_corrupt_header"] \in Nat,
           e.m_statistic_totals["rx_corrupt_header"]
               = r.m_statistic_totals["rx_corrupt_header"] + bad,
           \A n \in {"rx_count", "consumed_packets", "unconsumed_packets"} :
               e.m_statistic_totals[n] = r.m_statistic_totals[n]
    PROVE  TotalsOK(e, g, rest, length, fine)
BY DEF TotalsOK

\* A packet processed is good or corrupt.
LEMMA AccountPacket ==
    ASSUME NEW r \in Receivers, NEW h \in Histories, NEW sum \in Stats, NEW c \in Chunks,
           NEW fine \in BOOLEAN, AccountOK(r, h, sum, c, fine), c.rest # <<>>,
           NEW p \in Packets, NEW d \in Chunks,
           d.length = c.length, Len(c.rest) = Len(d.rest) + 1
    PROVE  AccountOK(ProcessPacketHeader(r, p), Saw(h, p), sum, d, fine)
<1> DEFINE e == ProcessPacketHeader(r, p)
           g == Saw(h, p)
<1>1. p \in Packets /\ d.length = c.length /\ Len(c.rest) = Len(d.rest) + 1 /\ d \in Chunks
  OBVIOUS
<1>2. /\ ~p.good => g = h
      /\ p.good => g.good = h.good + 1
      /\ h.good \in Nat
  BY <1>1, SawMembers DEF Histories
<1> HIDE DEF g
<1>3. c.length \in Nat /\ Len(d.rest) \in Nat
  BY <1>1 DEF Chunks
<1>4. c.length # 0
  BY DEF AccountOK, TotalsOK
<1>5. {"rx_dropped", "rx_corrupt_header"} \subseteq Counters /\ 1 \in Nat
  BY DEF Counters
<1>6. CASE ~HeaderProcessing
  <2>1. e = r
    BY <1>6 DEF ProcessPacketHeader
  <2> HIDE DEF e
  <2>2. AccountOK(e, g, sum, d, fine)
    <3>1. SumsOK(e, sum)
      BY <2>1 DEF AccountOK
    <3>2. TotalsOK(e, g, Len(d.rest), d.length, fine)
      BY <1>1, <1>6, <2>1 DEF AccountOK, TotalsOK
    <3> QED
      BY <1>1, <1>4, <3>1, <3>2 DEF AccountOK
  <2> QED
    BY <2>2 DEF e, g
<1>7. ASSUME HeaderProcessing, NEW counter \in Counters, NEW n \in Nat,
             counter = "rx_dropped" \/ counter = "rx_corrupt_header",
             e.m_statistic = Counted(r, counter, n).m_statistic,
             e.m_statistic_totals = Counted(r, counter, n).m_statistic_totals,
             g.good + (IF counter = "rx_corrupt_header" THEN n ELSE 0) = h.good + 1
      PROVE  AccountOK(e, g, sum, d, fine)
  <2> HIDE DEF e
  <2>1. /\ e.m_statistic[counter] = r.m_statistic[counter] + n
        /\ e.m_statistic_totals[counter] = r.m_statistic_totals[counter] + n
        /\ \A i \in Counters \ {counter} :
               /\ e.m_statistic[i] = r.m_statistic[i]
               /\ e.m_statistic_totals[i] = r.m_statistic_totals[i]
    BY <1>7, CountedMembers
  <2>2. g.good \in Nat
    <3>1. g \in Histories
      BY <1>1, SawMembers DEF g
    <3> QED
      BY <3>1 DEF Histories
  <2>3. SumsOK(e, sum)
    BY <1>7, SumsCounted DEF AccountOK
  <2>4. /\ e.m_statistic_totals["rx_count"] = r.m_statistic_totals["rx_count"]
        /\ e.m_statistic_totals["consumed_packets"] = r.m_statistic_totals["consumed_packets"]
        /\ e.m_statistic_totals["unconsumed_packets"] = r.m_statistic_totals["unconsumed_packets"]
        /\ e.m_statistic_totals["rx_corrupt_header"]
               = r.m_statistic_totals["rx_corrupt_header"]
                 + (IF counter = "rx_corrupt_header" THEN n ELSE 0)
    BY <1>7, <2>1, CounterNumbers
  <2>5. TotalsOK(e, g, Len(d.rest), d.length, fine)
    <3> DEFINE bad == IF counter = "rx_corrupt_header" THEN n ELSE 0
    <3>1. /\ g.good + bad = h.good + 1 /\ bad \in Nat
          /\ e.m_statistic_totals["rx_corrupt_header"]
                 = r.m_statistic_totals["rx_corrupt_header"] + bad
          /\ r.m_statistic_totals["rx_corrupt_header"] \in Nat
      BY <1>7, <2>4, CounterNumbers
    <3> HIDE DEF bad
    <3>2. TotalsOK(r, h, Len(c.rest), c.length, fine) /\ Len(c.rest) \in Nat
      BY <1>1, <1>3 DEF AccountOK
    <3> QED
      BY <1>1, <1>2, <1>3, <2>2, <2>4, <3>1, <3>2, TotalsPacket
  <2> QED
    BY <1>1, <1>4, <2>3, <2>5 DEF AccountOK
<1>8. CASE HeaderProcessing
  <2>1. CASE ~p.good
    <3>1. e = Counted(r, "rx_corrupt_header", 1)
      BY <1>1, <1>8, <2>1, HeaderMembers
    <3> HIDE DEF e
    <3>2. AccountOK(e, g, sum, d, fine)
      BY <1>2, <1>5, <1>7, <1>8, <2>1, <3>1
    <3> QED
      BY <3>2 DEF e, g
  <2>2. CASE p.good
    <3> DEFINE n == NumDropped(r, SequenceNumber(p.id))
    <3>1. /\ n \in Nat
          /\ e.m_statistic = Counted(r, "rx_dropped", n).m_statistic
          /\ e.m_statistic_totals = Counted(r, "rx_dropped", n).m_statistic_totals
      BY <1>1, <1>8, <2>2, HeaderMembers
    <3> HIDE DEF e, n
    <3>2. AccountOK(e, g, sum, d, fine)
      BY <1>2, <1>5, <1>7, <1>8, <2>2, <3>1
    <3> QED
      BY <3>2 DEF e, g
  <2> QED
    BY <2>1, <2>2
<1> QED
  BY <1>6, <1>8

\* A chunk consumed goes to the consumer's account, if the consumer succeeds.
LEMMA AccountConsumed ==
    ASSUME NEW r \in Receivers, NEW h \in Histories, NEW sum \in Stats, NEW c \in Chunks,
           NEW fine \in BOOLEAN, AccountOK(r, h, sum, c, fine), c.rest = <<>>,
           NEW consumed \in BOOLEAN, NEW still \in BOOLEAN, still => fine /\ consumed
    PROVE  AccountOK(AfterConsume(r, c.length, consumed), h, sum, NoChunk, still)
<1> DEFINE length == c.length
           e == AfterConsume(r, length, consumed)
<1>1. length \in Nat
  BY DEF Chunks
<1> HIDE DEF length
<1>2. NoChunk.rest = <<>> /\ NoChunk.length = 0
  BY DEF NoChunk
<1>3. /\ e \in Receivers
      /\ e.m_statistic_totals["rx_count"] = r.m_statistic_totals["rx_count"]
      /\ e.m_statistic_totals["rx_corrupt_header"] = r.m_statistic_totals["rx_corrupt_header"]
      /\ e.m_statistic_totals["consumed_packets"] = r.m_statistic_totals["consumed_packets"]
      /\ e.m_statistic_totals["unconsumed_packets"]
             = r.m_statistic_totals["unconsumed_packets"] + (IF consumed THEN length ELSE 0)
      /\ \A n \in Counters : e.m_statistic_totals[n] - r.m_statistic_totals[n]
                              = e.m_statistic[n] - r.m_statistic[n]
  BY <1>1, ConsumedMembers, SMTT(30)
<1> HIDE DEF e
<1>4. SumsOK(e, sum)
  <2> SUFFICES ASSUME NEW n \in Counters
               PROVE  e.m_statistic_totals[n] = sum[n] + e.m_statistic[n]
    BY DEF SumsOK
  <2>1. /\ e.m_statistic_totals[n] \in Nat /\ e.m_statistic[n] \in Nat
        /\ r.m_statistic_totals[n] \in Nat /\ r.m_statistic[n] \in Nat /\ sum[n] \in Nat
    BY <1>3, CounterNumbers
  <2>2. r.m_statistic_totals[n] = sum[n] + r.m_statistic[n]
    BY DEF AccountOK, SumsOK
  <2>3. e.m_statistic_totals[n] - r.m_statistic_totals[n] = e.m_statistic[n] - r.m_statistic[n]
    BY <1>3
  <2> QED
    BY <2>1, <2>2, <2>3
<1>5. TotalsOK(e, h, Len(NoChunk.rest), NoChunk.length, still)
  <2>1. \A n \in {"rx_count", "consumed_packets", "unconsumed_packets"} :
            r.m_statistic_totals[n] \in Nat
    BY CounterNumbers
  <2> QED
    BY <1>1, <1>2, <1>3, <2>1 DEF AccountOK, TotalsOK, length
<1> QED
  BY <1>2, <1>4, <1>5 DEF AccountOK, e, length

\* What is printed is reset.
LEMMA ReportKeeps ==
    ASSUME NEW r \in Receivers, NEW h \in Histories, NEW sum \in Stats, NEW c \in Chunks,
           NEW fine \in BOOLEAN
    PROVE  LET e == ResetStatistics(r)
               new == Add(sum, r.m_statistic)
           IN  /\ AccountOK(r, h, sum, c, fine) => AccountOK(e, h, new, c, fine)
               /\ Dropped(e, new) = Dropped(r, sum)
<1> DEFINE e == ResetStatistics(r)
           new == Add(sum, r.m_statistic)
<1>1. /\ e.m_statistic = NoStats /\ e.m_statistic_totals = r.m_statistic_totals
  BY ResetMembers
<1>2. r.m_statistic \in Stats
  BY DEF Receivers
<1>3. \A d \in Counters : new[d] = sum[d] + r.m_statistic[d]
  BY <1>2, AddMembers
<1>4. \A d \in Counters : NoStats[d] = 0
  BY DEF NoStats
<1> HIDE DEF e, new
<1>5. Dropped(e, new) = Dropped(r, sum)
  BY <1>1, <1>3, <1>4, CounterNumbers DEF Dropped
<1>6. AccountOK(r, h, sum, c, fine) => AccountOK(e, h, new, c, fine)
  BY <1>1, <1>3, <1>4, CounterNumbers DEF AccountOK, SumsOK, TotalsOK
<1> QED
  BY <1>5, <1>6 DEF e, new

-----------------------------------------------------------------------------
(* The streams of the node                                                 *)

ConsumersFine == failed \cap {"first", "last", "other"} = {}

\* What holds of the members of a stream.
MembersOK(s) ==
    /\ HeaderProcessing => DropsOK(rx[s], seen[s], printed.sum[s])
    /\ FramesOK(rx[s], seen[s], events[s])
    /\ AccountOK(rx[s], seen[s], printed.sum[s], chunk[s], ConsumersFine)

AllMembersOK == \A s \in Streams : MembersOK(s)

\* A consumer that fails is not forgotten.
LEMMA AccountForgets ==
    ASSUME NEW r, NEW h, NEW sum, NEW c, NEW fine, NEW still, still => fine,
           AccountOK(r, h, sum, c, fine)
    PROVE  AccountOK(r, h, sum, c, still)
BY DEF AccountOK, TotalsOK

\* The members a step leaves alone keep what holds of them.
LEMMA MembersSame ==
    ASSUME NEW s \in Streams, MembersOK(s), numFlows' = numFlows, failed \subseteq failed',
           rx'[s] = rx[s], seen'[s] = seen[s], events'[s] = events[s],
           chunk'[s] = chunk[s], printed'.sum[s] = printed.sum[s]
    PROVE  MembersOK(s)'
<1>1. (HeaderProcessing' <=> HeaderProcessing) /\ (ConsumersFine' => ConsumersFine)
  BY DEF HeaderProcessing, ConsumersFine
<1>2. AccountOK(rx[s], seen[s], printed.sum[s], chunk[s], ConsumersFine')
  BY <1>1, AccountForgets DEF MembersOK
<1> QED
  BY <1>1, <1>2 DEF MembersOK, DropsOK, FramesOK, AccountOK, SumsOK, TotalsOK, Dropped

\* At the start nothing is counted, dropped or announced.
LEMMA InitMembers == Init => AllMembersOK
<1> SUFFICES ASSUME Init, NEW s \in Streams PROVE MembersOK(s)
  BY DEF AllMembersOK
<1>1. /\ chunk[s].rest = <<>> /\ chunk[s].length = 0
      /\ seen[s].good = 0 /\ events[s] = <<>>
      /\ ~rx[s].m_initialized /\ rx[s].m_last_mbit
      /\ rx[s].m_statistic = NoStats /\ rx[s].m_statistic_totals = NoStats
      /\ printed.sum[s] = NoStats
  BY DEF Init, NoChunk
<1>3. \A c \in Counters : NoStats[c] = 0
  BY DEF NoStats
<1>4. {"rx_count", "rx_dropped", "rx_corrupt_header", "consumed_packets", "unconsumed_packets"}
          \subseteq Counters
  BY DEF Counters
<1>5. Dropped(rx[s], printed.sum[s]) = 0 /\ Missing(seen[s]) = 0 /\ 0 + 0 * SeqRange = 0
  BY <1>1, <1>3, <1>4, Constants, Products DEF Dropped, Missing
<1>6. DropsOK(rx[s], seen[s], printed.sum[s])
  BY <1>1, <1>5 DEF DropsOK
<1>7. FramesOK(rx[s], seen[s], events[s])
  BY <1>1 DEF FramesOK
<1>8. AccountOK(rx[s], seen[s], printed.sum[s], chunk[s], ConsumersFine)
  <2>1. SumsOK(rx[s], printed.sum[s])
    BY <1>1, <1>3 DEF SumsOK
  <2>2. TotalsOK(rx[s], seen[s], Len(chunk[s].rest), chunk[s].length, ConsumersFine)
    BY <1>1, <1>3, <1>4 DEF TotalsOK
  <2> QED
    BY <1>1, <2>1, <2>2 DEF AccountOK
<1> QED
  BY <1>6, <1>7, <1>8 DEF MembersOK

\* Every step keeps what holds of the members.
LEMMA MembersStep ==
    ASSUME TypeOK, AllMembersOK, [Next]_vars
    PROVE  AllMembersOK'
<1> SUFFICES ASSUME NEW t \in Streams PROVE MembersOK(t)'
  BY DEF AllMembersOK
<1>1. DataTypes /\ MembersOK(t)
  BY DEF TypeOK, AllMembersOK
<1>2. /\ rx[t] \in Receivers /\ seen[t] \in Histories /\ events[t] \in Seq(Nat)
      /\ chunk[t] \in Chunks /\ queue[t] \in Seq(Packets) /\ printed.sum[t] \in Stats
  BY <1>1 DEF DataTypes, Reports
<1>3. /\ numFlows' = numFlows /\ failed \subseteq failed'
      /\ (HeaderProcessing' <=> HeaderProcessing) /\ (ConsumersFine' => ConsumersFine)
      /\ ConsumersFine \in BOOLEAN
  BY StepCases DEF HeaderProcessing, ConsumersFine
<1>4. CASE /\ rx'[t] = rx[t] /\ seen'[t] = seen[t] /\ events'[t] = events[t]
           /\ chunk'[t] = chunk[t] /\ printed'.sum[t] = printed.sum[t]
  BY <1>1, <1>3, <1>4, MembersSame
<1>5. CASE (\E s \in Streams : SendPacket(s) \/ HeldPacketArrives(s)) \/ UNCHANGED dataVars
  BY <1>4, <1>5 DEF SendPacket, HeldPacketArrives, dataVars, streamVars
<1>6. CASE PollChunk
  <2>1. seen' = seen /\ events' = events /\ printed' = printed /\ failed' = failed
    BY <1>6 DEF PollChunk
  <2>2. CASE node.at # t
    <3>1. rx'[t] = rx[t] /\ chunk'[t] = chunk[t]
      BY <1>1, <1>6, <2>2 DEF PollChunk, DataTypes
    <3> QED
      BY <1>4, <2>1, <3>1
  <2>3. CASE node.at = t
    <3> DEFINE q == queue[t]
               e == Counted(rx[t], "rx_count", Len(q))
               d == [rest |-> q, length |-> Len(q)]
    <3>1. chunk[t].length = 0 /\ q # <<>> /\ rx'[t] = e /\ chunk'[t] = d
      BY <1>1, <1>6, <2>3 DEF PollChunk, PollsStream, DataTypes
    <3>2. "rx_count" \in Counters /\ "rx_dropped" \in Counters \ {"rx_count"} /\ Len(q) \in Nat
      BY <1>2 DEF Counters
    <3>3. /\ e.m_initialized = rx[t].m_initialized
          /\ e.m_last_sequence_number = rx[t].m_last_sequence_number
          /\ e.m_last_mbit = rx[t].m_last_mbit
          /\ e.m_statistic["rx_dropped"] = rx[t].m_statistic["rx_dropped"]
      BY <1>2, <3>2, CountedMembers
    <3>4. AccountOK(e, seen[t], printed.sum[t], d, ConsumersFine)
      BY <1>1, <1>2, <1>3, <3>1, AccountPoll DEF MembersOK
    <3> HIDE DEF e, d
    <3>5. HeaderProcessing => DropsOK(e, seen[t], printed.sum[t])
      <4>1. Dropped(e, printed.sum[t]) = Dropped(rx[t], printed.sum[t])
        BY <3>3 DEF Dropped
      <4> QED
        BY <1>1, <3>3, <4>1, DropsSame DEF MembersOK
    <3>6. FramesOK(e, seen[t], events[t])
      BY <1>1, <3>3 DEF MembersOK, FramesOK
    <3> QED
      BY <1>3, <2>1, <3>1, <3>4, <3>5, <3>6
      DEF MembersOK, DropsOK, FramesOK, AccountOK, SumsOK, TotalsOK, Dropped, ConsumersFine
  <2> QED
    BY <2>2, <2>3
<1>7. CASE ProcessPacket
  <2>1. printed' = printed /\ failed' = failed
    BY <1>7 DEF ProcessPacket
  <2>2. CASE node.at # t
    <3>1. rx'[t] = rx[t] /\ seen'[t] = seen[t] /\ chunk'[t] = chunk[t]
      BY <1>1, <1>7, <2>2 DEF ProcessPacket, DataTypes
    <3>2. events'[t] = events[t]
      BY <1>1, <1>7, <2>2 DEF ProcessPacket, DataTypes
    <3> QED
      BY <1>4, <2>1, <3>1, <3>2
  <2>3. CASE node.at = t
    <3> DEFINE c == chunk[t]
               d == [c EXCEPT !.rest = Tail(@)]
               p == Head(c.rest)
               q == ProcessPacketHeader(rx[t], p)
               g == Saw(seen[t], p)
               f == IF HeaderProcessing /\ p.good /\ StartsFrame(rx[t], p)
                    THEN Append(events[t], FrameOf(p.id)) ELSE events[t]
    <3>1. c.rest # <<>> /\ chunk'[t] = d /\ seen'[t] = g /\ rx'[t] = q
      BY <1>1, <1>7, <2>3 DEF ProcessPacket, DataTypes
    <3>2. events'[t] = f
      BY <1>1, <1>7, <2>3 DEF ProcessPacket, DataTypes
    <3>3. /\ p \in Packets /\ p = c.rest[1] /\ 1 \in DOMAIN c.rest
          /\ d \in Chunks /\ d.length = c.length /\ Len(c.rest) = Len(d.rest) + 1
      BY <1>2, <3>1, ChunkParts
    <3> HIDE DEF d, p
    <3>4. AccountOK(q, g, printed.sum[t], d, ConsumersFine)
      <4>1. AccountOK(rx[t], seen[t], printed.sum[t], chunk[t], ConsumersFine)
        BY <1>1 DEF MembersOK
      <4> QED
        BY <1>2, <1>3, <3>1, <3>3, <4>1, AccountPacket
    <3>6. HeaderProcessing => DropsOK(q, g, printed.sum[t])
      BY <1>1, <1>2, <3>3, DropsPacket DEF MembersOK
    <3>7. FramesOK(q, g, f)
      <4>1. CASE HeaderProcessing
        <5>1. f = IF p.good /\ StartsFrame(rx[t], p)
                  THEN Append(events[t], FrameOf(p.id)) ELSE events[t]
          BY <4>1
        <5> HIDE DEF f
        <5> QED
          BY <1>1, <1>2, <3>3, <4>1, <5>1, FramesPacket DEF MembersOK
      <4>2. CASE ~HeaderProcessing
        <5>1. f = events[t] /\ q = rx[t] /\ events[t] = <<>>
          BY <1>1, <4>2 DEF ProcessPacketHeader, MembersOK, FramesOK
        <5>2. g.good = 0 => seen[t].good = 0
          <6>1. seen[t].good \in Nat
            BY <1>2 DEF Histories
          <6>2. /\ ~p.good => g = seen[t]
                /\ p.good => g.good = seen[t].good + 1
            BY <1>2, <3>3, SawMembers
          <6> HIDE DEF g
          <6> QED
            BY <6>1, <6>2
        <5> HIDE DEF f, q, g
        <5> QED
          BY <1>1, <4>2, <5>1, <5>2 DEF MembersOK, FramesOK
      <4> QED
        BY <4>1, <4>2
    <3> HIDE DEF f, q, g
    <3> QED
      BY <1>3, <2>1, <3>1, <3>2, <3>4, <3>6, <3>7
      DEF MembersOK, DropsOK, FramesOK, AccountOK, SumsOK, TotalsOK, Dropped, ConsumersFine
  <2> QED
    BY <2>2, <2>3
<1>8. CASE ConsumeChunk
  <2>1. seen' = seen /\ events' = events /\ printed' = printed
    BY <1>8 DEF ConsumeChunk
  <2>2. CASE node.at # t
    <3>1. rx'[t] = rx[t] /\ chunk'[t] = chunk[t]
      BY <1>1, <1>8, <2>2 DEF ConsumeChunk, DataTypes
    <3> QED
      BY <1>4, <2>1, <3>1
  <2>3. CASE node.at = t
    <3>1. PICK consumed \in BOOLEAN :
              /\ IF consumed THEN Succeeds ELSE Fails(ConsumerCall)
              /\ rx' = [rx EXCEPT ![t] = AfterConsume(@, chunk[t].length, consumed)]
      BY <1>8, <2>3 DEF ConsumeChunk
    <3> DEFINE e == AfterConsume(rx[t], chunk[t].length, consumed)
    <3>2. chunk[t].rest = <<>> /\ chunk'[t] = NoChunk /\ rx'[t] = e
      BY <1>1, <1>8, <2>3, <3>1 DEF ConsumeChunk, DataTypes
    <3>3. ConsumersFine' => ConsumersFine /\ consumed
      <4>1. ConsumerCall \in {"first", "last", "other"}
        BY DEF ConsumerCall
      <4> QED
        BY <1>3, <3>1, <4>1 DEF Fails, ConsumersFine
    <3>4. chunk[t].length \in Nat /\ ConsumersFine' \in BOOLEAN
      BY <1>2 DEF Chunks, ConsumersFine
    <3>5. AccountOK(e, seen[t], printed.sum[t], NoChunk, ConsumersFine')
      BY <1>1, <1>2, <1>3, <3>2, <3>3, <3>4, AccountConsumed DEF MembersOK
    <3>6. /\ e.m_initialized = rx[t].m_initialized
          /\ e.m_last_sequence_number = rx[t].m_last_sequence_number
          /\ e.m_last_mbit = rx[t].m_last_mbit
          /\ e.m_statistic["rx_dropped"] = rx[t].m_statistic["rx_dropped"]
      BY <1>2, <3>4, ConsumedMembers
    <3> HIDE DEF e
    <3>7. HeaderProcessing => DropsOK(e, seen[t], printed.sum[t])
      <4>1. Dropped(e, printed.sum[t]) = Dropped(rx[t], printed.sum[t])
        BY <3>6 DEF Dropped
      <4> QED
        BY <1>1, <3>6, <4>1, DropsSame DEF MembersOK
    <3>8. FramesOK(e, seen[t], events[t])
      BY <1>1, <3>6 DEF MembersOK, FramesOK
    <3> QED
      BY <1>3, <2>1, <3>2, <3>5, <3>7, <3>8
      DEF MembersOK, DropsOK, FramesOK, AccountOK, SumsOK, TotalsOK, Dropped, ConsumersFine
  <2> QED
    BY <2>2, <2>3
<1>9. CASE EndRound
  <2>1. seen' = seen /\ events' = events /\ chunk' = chunk /\ failed' = failed
    BY <1>9 DEF EndRound
  <2>2. CASE UNCHANGED <<rx, printed>>
    BY <1>4, <2>1, <2>2
  <2>3. CASE ~UNCHANGED <<rx, printed>>
    <3> DEFINE e == ResetStatistics(rx[t])
               new == Add(printed.sum[t], rx[t].m_statistic)
    <3>1. rx'[t] = e /\ printed'.sum[t] = new
      BY <1>9, <2>3 DEF EndRound
    <3>2. /\ AccountOK(e, seen[t], new, chunk[t], ConsumersFine)
          /\ Dropped(e, new) = Dropped(rx[t], printed.sum[t])
      BY <1>1, <1>2, <1>3, ReportKeeps DEF MembersOK
    <3>3. /\ e.m_initialized = rx[t].m_initialized
          /\ e.m_last_sequence_number = rx[t].m_last_sequence_number
          /\ e.m_last_mbit = rx[t].m_last_mbit
      BY <1>2, ResetMembers
    <3> HIDE DEF e, new
    <3>4. HeaderProcessing => DropsOK(e, seen[t], new)
      BY <1>1, <3>2, <3>3, DropsSame DEF MembersOK
    <3>5. FramesOK(e, seen[t], events[t])
      BY <1>1, <3>3 DEF MembersOK, FramesOK
    <3> QED
      BY <1>3, <2>1, <3>1, <3>2, <3>4, <3>5
      DEF MembersOK, DropsOK, FramesOK, AccountOK, SumsOK, TotalsOK, Dropped, ConsumersFine
  <2> QED
    BY <2>2, <2>3
<1> QED
  BY <1>5, <1>6, <1>7, <1>8, <1>9, StepCases

\* The streams hold together in every reachable state.
LEMMA StreamsHold == Spec => [](TypeOK /\ AllMembersOK)
<1>1. TypeOK /\ AllMembersOK /\ [Next]_vars => (TypeOK /\ AllMembersOK)'
  BY NodeTypesStep, DataTypesStep, MembersStep DEF TypeOK
<1>2. Init => TypeOK /\ AllMembersOK
  BY InitTypes, InitMembers
<1> QED
  BY <1>1, <1>2, PTL DEF Spec

\* The drops a stream reports, over any number of intervals, are the packets
\* missing between the first and the last one with a good header: exactly, while
\* they come in order and no gap is as long as the range of sequence numbers, and
\* up to whole ranges otherwise.
THEOREM DropsAreExplained == Spec => []DropsExplained
<1>1. TypeOK /\ AllMembersOK => DropsExplained
  <2> SUFFICES ASSUME TypeOK, AllMembersOK, HeaderProcessing, NEW s \in Streams
               PROVE  /\ Dropped(rx[s], printed.sum[s]) % SeqRange = Missing(seen[s]) % SeqRange
                      /\ seen[s].ordered /\ seen[s].close => Dropped(rx[s], printed.sum[s]) = Missing(seen[s])
    BY Zenon DEF DropsExplained, Dropped, Missing
  <2>1. DropsOK(rx[s], seen[s], printed.sum[s])
    BY DEF AllMembersOK, MembersOK
  <2>2. rx[s] \in Receivers /\ seen[s] \in Histories /\ printed.sum[s] \in Stats
    BY DEF TypeOK, DataTypes, Reports
  <2> QED
    BY <2>1, <2>2, DropsRemainders DEF DropsOK
<1> QED
  BY <1>1, StreamsHold, PTL

\* No packet polled is lost to the statistics: each is good, corrupt or still to be
\* processed, and in the consumer's account once its chunk is consumed, whenever
\* reports reset the statistics and unless a consumer failed.
THEOREM PacketsAreAccounted == Spec => []EveryPacketAccounted
<1>1. TypeOK /\ AllMembersOK => EveryPacketAccounted
  <2> SUFFICES ASSUME TypeOK, AllMembersOK, NEW s \in Streams
               PROVE  LET totals == rx[s].m_statistic_totals
                          accounted == totals["consumed_packets"] + totals["unconsumed_packets"]
                                       + chunk[s].length
                      IN  /\ totals = Add(printed.sum[s], rx[s].m_statistic)
                          /\ HeaderProcessing =>
                                 totals["rx_count"] = seen[s].good + totals["rx_corrupt_header"]
                                                      + Len(chunk[s].rest)
                          /\ accounted <= totals["rx_count"]
                          /\ failed \cap {"first", "last", "other"} = {}
                                 => accounted = totals["rx_count"]
    BY DEF EveryPacketAccounted
  <2>1. AccountOK(rx[s], seen[s], printed.sum[s], chunk[s], ConsumersFine)
    BY DEF AllMembersOK, MembersOK
  <2>2. rx[s].m_statistic_totals \in Stats
    BY DEF TypeOK, DataTypes, Receivers
  <2>3. rx[s].m_statistic_totals = Add(printed.sum[s], rx[s].m_statistic)
    BY <2>1, <2>2 DEF AccountOK, SumsOK, Add, Stats
  <2> QED
    BY <2>1, <2>3 DEF AccountOK, TotalsOK, ConsumersFine
<1> QED
  BY <1>1, StreamsHold, PTL

\* While packets come in order the frames announced are in order, none twice,
\* whatever packets of them are lost or damaged: m_last_mbit is the marker bit of
\* the last good packet, and a packet after one with the marker starts a frame.
THEOREM FramesAreInOrder == Spec => []FramesInOrder
<1>1. AllMembersOK => FramesInOrder
  BY DEF AllMembersOK, MembersOK, FramesOK, FramesInOrder
<1> QED
  BY <1>1, StreamsHold, PTL

-----------------------------------------------------------------------------
(* Why the thread stops                                                    *)

Cause == failed \cap {"poll", "first", "last"} # {}

\* A failed rc without a cause is that of a consumer in the middle of a round of
\* the main loop, where the next poll overwrites it.
EndsInv ==
    /\ Polling /\ node.rc = "failure" /\ node.at \notin 2..NumStreams => Cause
    /\ EndsForCause

LEMMA EndsStep == TypeOK /\ EndsInv /\ [Next]_vars => EndsInv'
<1> SUFFICES ASSUME TypeOK, EndsInv, [Next]_vars PROVE EndsInv'
  OBVIOUS
<1>1. node.at \in Nat /\ NumStreams \in Nat \ {0}
  BY Constants DEF TypeOK, NodeTypes, Nodes
<1>2. Cause => Cause'
  BY StepCases DEF Cause
<1>3. CASE node' = node /\ (signal => signal')
  BY <1>2, <1>3 DEF EndsInv, EndsForCause, Polling, Cause
<1>4. CASE CreateStream \/ AttachFlow \/ AllAttached
  BY <1>4 DEF CreateStream, AttachFlow, AllAttached, Goes, EndsInv, EndsForCause, Polling
<1>5. CASE DetachFlow \/ AllDetached \/ DestroyStream
  <2>1. node.does \in {"detach", "destroy"} /\ signal' = signal
    BY <1>5 DEF DetachFlow, AllDetached, DestroyStream
  <2>2. node'.does \in {"detach", "destroy", "returned"}
    BY <1>5 DEF DetachFlow, AllDetached, DestroyStream, Goes
  <2> QED
    BY <1>2, <2>1, <2>2 DEF EndsInv, EndsForCause, Polling, Cause
<1>6. CASE BeginRound
  <2>1. node.at = 0 /\ Polling /\ signal' = signal /\ failed' = failed
    BY <1>6 DEF BeginRound
  <2>2. node.rc = "failure" => Cause
    BY <1>1, <2>1 DEF EndsInv
  <2>3. CASE node' = [does |-> node.does, at |-> 1, rc |-> node.rc]
             /\ node.rc # "failure"
    BY <2>1, <2>3 DEF EndsInv, EndsForCause, Polling
  <2>4. CASE node' = [does |-> "poll", at |-> 0, rc |-> node.rc]
    BY <1>2, <2>2, <2>4 DEF EndsInv, EndsForCause, Polling
  <2>5. CASE /\ node' = [does |-> "detach", at |-> 1, rc |-> node.rc]
             /\ node.rc = "failure" \/ signal
    BY <1>2, <2>1, <2>2, <2>5 DEF EndsInv, EndsForCause, Polling, Cause
  <2> QED
    BY <1>6, <2>3, <2>4, <2>5 DEF BeginRound, LoopGoesOn, Goes
<1>7. CASE PollEmpty \/ PollFails
  <2>1. node'.rc = "failure" => Cause'
    BY <1>7 DEF PollEmpty, PollFails, NextStream, LeavesRound, Goes, Fails, Cause
  <2>2. node'.does = node.does /\ Polling
    BY <1>7 DEF PollEmpty, PollFails, PollsStream, NextStream, LeavesRound, Goes
  <2> QED
    BY <2>1, <2>2 DEF EndsInv, EndsForCause, Polling
<1>8. CASE ConsumeChunk
  <2>1. Polling /\ node.at \in Streams
    BY <1>8 DEF ConsumeChunk
  <2>2. PICK consumed \in BOOLEAN :
            /\ IF consumed THEN Succeeds ELSE Fails(ConsumerCall)
            /\ IF node.does = "start"
               THEN Goes("poll", 0, IF consumed THEN "success" ELSE "failure")
               ELSE AfterConsumer(IF consumed THEN "success" ELSE "failure")
    BY <1>8 DEF ConsumeChunk
  <2>3. CASE consumed
    BY <2>1, <2>2, <2>3 DEF AfterConsumer, NextStream, Goes, EndsInv, EndsForCause, Polling
  <2>4. CASE ~consumed /\ (node.does = "start" \/ node.at = NumStreams)
    <3>1. Cause'
      BY <2>2, <2>4 DEF ConsumerCall, Fails, Cause
    <3>2. node'.does = "poll"
      BY <2>1, <2>2 DEF AfterConsumer, NextStream, Goes, Polling
    <3> QED
      BY <3>1, <3>2 DEF EndsInv, EndsForCause
  <2>5. CASE ~consumed /\ node.does # "start" /\ node.at # NumStreams
    <3>1. node'.does = "poll" /\ node'.at = node.at + 1
      BY <2>1, <2>2, <2>5 DEF AfterConsumer, NextStream, Goes, Polling
    <3>2. node'.at \in 2..NumStreams
      BY <1>1, <2>1, <2>5, <3>1 DEF Streams
    <3> QED
      BY <3>1, <3>2 DEF EndsInv, EndsForCause
  <2> QED
    BY <2>3, <2>4, <2>5
<1>9. CASE EndRound
  <2>1. Polling /\ node.at = NumStreams + 1
        /\ node' = [does |-> node.does, at |-> 0, rc |-> node.rc]
    BY <1>9 DEF EndRound, Goes
  <2>2. node.rc = "failure" => Cause
    BY <1>1, <2>1 DEF EndsInv
  <2> QED
    BY <1>2, <2>1, <2>2 DEF EndsInv, EndsForCause, Polling
<1>10. CASE PollChunk \/ ProcessPacket \/ Network \/ Signal \/ UNCHANGED vars
  <2>1. node' = node /\ (signal => signal')
    <3>1. CASE Network
      BY <3>1 DEF Network, SendPacket, HeldPacketArrives
    <3>2. CASE Signal \/ UNCHANGED vars
      BY <3>2 DEF Signal, vars
    <3>3. CASE PollChunk \/ ProcessPacket
      BY <3>3 DEF PollChunk, ProcessPacket
    <3> QED
      BY <1>10, <3>1, <3>2, <3>3
  <2> QED
    BY <1>3, <2>1
<1> QED
  BY <1>4, <1>5, <1>6, <1>7, <1>8, <1>9, <1>10 DEF Next, Node

\* The thread only leaves its loop for a signal, a failed poll, or a consumer that
\* failed on the first chunk or on the last stream.
THEOREM ThreadEndsForCause == Spec => []EndsForCause
<1>1. Init => EndsInv
  BY DEF Init, EndsInv, EndsForCause, Polling
<1>2. EndsInv => EndsForCause
  BY DEF EndsInv
<1> QED
  BY <1>1, <1>2, EndsStep, TypesCorrect, PTL DEF Spec

-----------------------------------------------------------------------------
(* The shares of the streams                                               *)

\* The shares are naturals, the first s of them for s = 0 none, and for all
\* streams all flows.
LEMMA Shares ==
    ASSUME numFlows \in Nat
    PROVE  /\ \A s \in Nat : FlowsUpTo(s) \in Nat
           /\ FlowsUpTo(0) = 0 /\ FlowsUpTo(NumStreams) = numFlows
<1> DEFINE q == numFlows \div NumStreams
           u == numFlows % NumStreams
<1>1. q \in Nat /\ u \in 0..(NumStreams - 1) /\ numFlows = q * NumStreams + u
  BY Constants, NaturalParts
<1>2. \A s : FlowsUpTo(s) = s * q + (IF s < u THEN s ELSE u)
  BY DEF FlowsUpTo
<1> HIDE DEF q, u
<1>3. \A s \in Nat : s * q \in Nat /\ s * q = q * s /\ 0 * q = 0
  BY <1>1, Z3
<1>4. \A s \in Nat : FlowsUpTo(s) \in Nat
  BY <1>1, <1>2, <1>3
<1>5. FlowsUpTo(0) = 0
  BY <1>1, <1>2, <1>3
<1>6. FlowsUpTo(NumStreams) = numFlows
  BY <1>1, <1>2, <1>3, Constants
<1> QED
  BY <1>4, <1>5, <1>6

\* Every flow has a stream, and after the last flow all are done.
LEMMA FlowHasStream ==
    ASSUME numFlows \in Nat, NEW f \in Nat \ {0}
    PROVE  /\ FlowsDone(f) <=> f > numFlows
           /\ f <= numFlows => StreamOf(f) \in Streams
<1>1. FlowsDone(f) <=> f > numFlows
  BY Shares DEF FlowsDone
<1>2. ASSUME f <= numFlows PROVE StreamOf(f) \in Streams
  <2> DEFINE S == {s \in Nat : f <= FlowsUpTo(s)}
  <2>1. NumStreams \in S
    BY <1>2, Shares, Constants
  <2>2. \E s \in S : \A t \in S : ~(<<t, s>> \in OpToRel(<, Nat))
    BY <2>1, NatLessThanWellFounded, WFMin
  <2>3. PICK s \in S : \A t \in S : ~(<<t, s>> \in OpToRel(<, Nat))
    BY <2>2
  <2>4. \A t \in S : s <= t
    <3>1. \A t \in S : ~(t < s)
      BY <2>3 DEF OpToRel
    <3>2. s \in Nat /\ \A t \in S : t \in Nat
      OBVIOUS
    <3> QED
      BY <3>1, <3>2
  <2>5. s \in Nat /\ f <= FlowsUpTo(s) /\ s <= NumStreams
    BY <2>1, <2>3, <2>4
  <2>6. s # 0
    BY <2>5, Shares
  <2>7. s \in Streams /\ s - 1 \in Nat /\ s - 1 < s
    BY <2>5, <2>6, Constants DEF Streams
  <2>8. ~(f <= FlowsUpTo(s - 1))
    BY <2>4, <2>5, <2>7
  <2>9. FlowsUpTo(s - 1) < f
    BY <2>7, <2>8, Shares
  <2> QED
    BY <2>5, <2>7, <2>9 DEF StreamOf
<1> QED
  BY <1>1, <1>2

-----------------------------------------------------------------------------
(* What the thread set up and cleans up                                    *)

Clean == failed \cap {"create", "attach", "detach", "destroy"} = {}

\* The adapter steers these flows, each to the stream the shares give it.
Placed(F) == adapter = F /\ m_flows = [s \in Streams |-> {f \in F : StreamOf(f) = s}]

\* Where the thread is says exactly which streams and flows there are, as long as
\* no call of the set-up or the clean-up failed.
SetUpInv ==
    numFlows >= NumStreams /\ Clean =>
        /\ node.does = "create" =>
               node.at \in Streams /\ created = 1..(node.at - 1) /\ Placed({})
        /\ node.does = "attach" =>
               /\ node.at \in 1..(numFlows + 1) /\ created = Streams
               /\ Placed(1..(node.at - 1))
        /\ Polling => created = Streams /\ Placed(1..numFlows)
        /\ node.does = "detach" =>
               /\ node.at \in 1..(numFlows + 1) /\ created = Streams
               /\ Placed(node.at..numFlows)
        /\ node.does = "destroy" =>
               node.at \in Streams /\ created = node.at..NumStreams /\ Placed({})
        /\ node.does = "returned" => created = {} /\ Placed({})

\* A flow more, and a flow less.
LEMMA PlacedChanges ==
    ASSUME NEW F, NEW f, StreamOf(f) \in Streams, Placed(F), numFlows' = numFlows
    PROVE  /\ adapter' = adapter /\ m_flows' = m_flows => Placed(F)'
           /\ /\ adapter' = adapter \cup {f}
              /\ m_flows' = [m_flows EXCEPT ![StreamOf(f)] = @ \cup {f}]
              => Placed(F \cup {f})'
           /\ /\ adapter' = adapter \ {f}
              /\ m_flows' = [m_flows EXCEPT ![StreamOf(f)] = @ \ {f}]
              => Placed(F \ {f})'
<1>1. \A g : StreamOf(g)' = StreamOf(g)
  BY DEF StreamOf, FlowsUpTo
<1>2. adapter = F /\ m_flows = [s \in Streams |-> {g \in F : StreamOf(g) = s}]
  BY DEF Placed
<1>3. ASSUME adapter' = adapter, m_flows' = m_flows PROVE Placed(F)'
  BY <1>1, <1>2, <1>3 DEF Placed
<1>4. ASSUME adapter' = adapter \cup {f},
             m_flows' = [m_flows EXCEPT ![StreamOf(f)] = @ \cup {f}]
      PROVE  Placed(F \cup {f})'
  <2>1. m_flows' = [s \in Streams |-> {g \in F \cup {f} : StreamOf(g) = s}]
    BY <1>2, <1>4
  <2> QED
    BY <1>1, <1>2, <1>4, <2>1 DEF Placed
<1>5. ASSUME adapter' = adapter \ {f},
             m_flows' = [m_flows EXCEPT ![StreamOf(f)] = @ \ {f}]
      PROVE  Placed(F \ {f})'
  <2>1. m_flows' = [s \in Streams |-> {g \in F \ {f} : StreamOf(g) = s}]
    BY <1>2, <1>5
  <2> QED
    BY <1>1, <1>2, <1>5, <2>1 DEF Placed
<1> QED
  BY <1>3, <1>4, <1>5

\* What is placed stays where the flows do not move.
LEMMA PlacedStays ==
    ASSUME NEW F, Placed(F), numFlows' = numFlows, adapter' = adapter, m_flows' = m_flows
    PROVE  Placed(F)'
BY DEF Placed, StreamOf, FlowsUpTo

LEMMA SetUpStep == TypeOK /\ SetUpInv /\ [Next]_vars => SetUpInv'
<1> SUFFICES ASSUME TypeOK, SetUpInv, [Next]_vars, numFlows >= NumStreams, Clean'
             PROVE  SetUpInv'
  BY StepCases DEF SetUpInv
<1>1. numFlows' = numFlows /\ Clean
  BY StepCases DEF Clean
<1>2. node.at \in Nat /\ numFlows \in Nat /\ NumStreams \in Nat \ {0}
  BY Constants DEF TypeOK, NodeTypes, Nodes
<1>3. CASE UNCHANGED <<created, m_flows, adapter>> /\ node' = node
  <2>1. \A F : Placed(F) => Placed(F)'
    BY <1>1, <1>3, PlacedStays
  <2> QED
    BY <1>1, <1>3, <2>1 DEF SetUpInv, Polling
<1>4. CASE CreateStream
  <2>1. node.at \in Streams /\ created = 1..(node.at - 1) /\ Placed({}) /\ node.does = "create"
    BY <1>1, <1>4 DEF SetUpInv, CreateStream
  <2>2. Placed({})'
    BY <1>1, <1>4, <2>1, PlacedStays DEF CreateStream
  <2>3. created' = created \cup {node.at}
        /\ IF node.at = NumStreams THEN Goes("attach", 1, "success")
                                   ELSE Goes("create", node.at + 1, "success")
    BY <1>4 DEF CreateStream, Fails, Clean
  <2>4. created' = 1..node.at
    BY <1>2, <2>1, <2>3 DEF Streams
  <2>5. CASE node.at = NumStreams
    <3>1. node'.does = "attach" /\ node'.at = 1 /\ created' = Streams
      BY <2>3, <2>4, <2>5 DEF Goes, Streams
    <3>2. 1..(node'.at - 1) = {} /\ node'.at \in 1..(numFlows + 1)
      BY <1>2, <3>1
    <3> QED
      BY <1>1, <2>2, <3>1, <3>2 DEF SetUpInv, Polling
  <2>6. CASE node.at # NumStreams
    <3>1. node'.does = "create" /\ node'.at = node.at + 1
      BY <2>3, <2>6 DEF Goes
    <3>2. node'.at \in Streams /\ created' = 1..(node'.at - 1)
      BY <1>2, <2>1, <2>4, <2>6, <3>1 DEF Streams
    <3> QED
      BY <1>1, <2>2, <3>1, <3>2 DEF SetUpInv, Polling
  <2> QED
    BY <2>5, <2>6
<1>5. CASE AttachFlow
  <2>1. /\ node.at \in 1..(numFlows + 1) /\ created = Streams
        /\ Placed(1..(node.at - 1)) /\ node.does = "attach" /\ ~FlowsDone(node.at)
    BY <1>1, <1>5 DEF SetUpInv, AttachFlow
  <2>2. node.at <= numFlows /\ StreamOf(node.at) \in Streams
    BY <1>2, <2>1, FlowHasStream
  <2>3. /\ m_flows' = [m_flows EXCEPT ![StreamOf(node.at)] = @ \cup {node.at}]
        /\ adapter' = adapter \cup {node.at} /\ created' = created
        /\ Goes("attach", node.at + 1, "success")
    BY <1>5 DEF AttachFlow, Fails, Clean
  <2>4. PICK at \in Nat : at = node.at
    BY <1>2
  <2>5. (Placed((1..(at - 1)) \cup {at}))'
    BY <1>1, <2>1, <2>2, <2>3, <2>4, PlacedChanges
  <2>6. node'.does = "attach" /\ node'.at = at + 1
    BY <2>3, <2>4 DEF Goes
  <2>7. (1..(at - 1)) \cup {at} = 1..(node'.at - 1) /\ node'.at \in 1..(numFlows + 1)
    BY <1>2, <2>1, <2>2, <2>4, <2>6
  <2>8. Placed(1..(node.at - 1))'
    BY <2>5, <2>7
  <2> QED
    BY <1>1, <2>1, <2>3, <2>6, <2>7, <2>8 DEF SetUpInv, Polling
<1>6. CASE AllAttached
  <2>1. /\ node.at \in 1..(numFlows + 1) /\ created = Streams
        /\ Placed(1..(node.at - 1)) /\ node.does = "attach"
    BY <1>1, <1>6 DEF SetUpInv, AllAttached
  <2>2. FlowsDone(node.at) /\ Goes("start", 0, "success")
    BY <1>2, <1>6 DEF AllAttached
  <2>3. node.at > numFlows
    BY <1>2, <2>1, <2>2, FlowHasStream
  <2>4. 1..(node.at - 1) = 1..numFlows
    BY <1>2, <2>1, <2>3
  <2>5. Placed(1..numFlows)' /\ created' = Streams
    BY <1>1, <1>6, <2>1, <2>4, PlacedStays DEF AllAttached, lifeVars
  <2>6. node'.does = "start"
    BY <2>2 DEF Goes
  <2> QED
    BY <1>1, <2>5, <2>6 DEF SetUpInv, Polling
<1>7. CASE BeginRound \/ PollEmpty \/ PollFails \/ ConsumeChunk \/ EndRound
  <2>1. Polling /\ UNCHANGED <<created, m_flows, adapter>>
    <3>1. CASE BeginRound
      BY <3>1 DEF BeginRound, lifeVars
    <3>2. CASE PollEmpty \/ PollFails
      BY <3>2 DEF PollEmpty, PollFails, PollsStream, lifeVars
    <3>3. CASE ConsumeChunk \/ EndRound
      BY <3>3 DEF ConsumeChunk, EndRound, lifeVars
    <3> QED
      BY <1>7, <3>1, <3>2, <3>3
  <2>2. created = Streams /\ Placed(1..numFlows)
    BY <1>1, <2>1 DEF SetUpInv
  <2>3. created' = Streams /\ Placed(1..numFlows)'
    BY <1>1, <2>1, <2>2, PlacedStays
  <2>4. Polling' \/ (node'.does = "detach" /\ node'.at = 1)
    <3>1. CASE BeginRound
      BY <2>1, <3>1 DEF BeginRound, Goes, Polling
    <3>2. CASE PollEmpty \/ PollFails
      BY <2>1, <3>2 DEF PollEmpty, PollFails, NextStream, LeavesRound, Goes, Polling
    <3>3. CASE ConsumeChunk \/ EndRound
      BY <2>1, <3>3 DEF ConsumeChunk, AfterConsumer, NextStream, EndRound, Goes, Polling
    <3> QED
      BY <1>7, <3>1, <3>2, <3>3
  <2>5. CASE Polling'
    BY <1>1, <2>3, <2>5 DEF SetUpInv, Polling
  <2>6. CASE node'.does = "detach" /\ node'.at = 1
    <3>1. node'.at \in 1..(numFlows + 1) /\ node'.at..numFlows = 1..numFlows
      BY <1>2, <2>6
    <3> QED
      BY <1>1, <2>3, <2>6, <3>1 DEF SetUpInv, Polling
  <2> QED
    BY <2>4, <2>5, <2>6
<1>8. CASE DetachFlow
  <2>1. /\ node.at \in 1..(numFlows + 1) /\ created = Streams
        /\ Placed(node.at..numFlows) /\ node.does = "detach" /\ ~FlowsDone(node.at)
    BY <1>1, <1>8 DEF SetUpInv, DetachFlow
  <2>2. node.at <= numFlows /\ StreamOf(node.at) \in Streams
    BY <1>2, <2>1, FlowHasStream
  <2>3. node.at \in m_flows[StreamOf(node.at)]
    BY <1>2, <2>1, <2>2 DEF Placed
  <2>4. PICK status \in {"ok", "signal", "failure"} :
            /\ IF status = "failure" THEN Fails("detach") ELSE Succeeds
            /\ adapter' = IF status # "failure" THEN adapter \ {node.at} ELSE adapter
            /\ Detached(status) =>
                  /\ m_flows' = [m_flows EXCEPT ![StreamOf(node.at)] = @ \ {node.at}]
                  /\ Goes("detach", node.at + 1, "success")
    BY <1>8, <2>3 DEF DetachFlow
  <2>5. status # "failure"
    BY <2>4 DEF Fails, Clean
  <2>6. /\ adapter' = adapter \ {node.at}
        /\ m_flows' = [m_flows EXCEPT ![StreamOf(node.at)] = @ \ {node.at}]
        /\ node'.does = "detach" /\ node'.at = node.at + 1
    BY <2>4, <2>5 DEF Detached, Goes
  <2>7. PICK at \in Nat : at = node.at
    BY <1>2
  <2>8. PICK F : F = at..numFlows
    OBVIOUS
  <2>9. (Placed(F \ {at}))'
    BY <1>1, <2>1, <2>2, <2>6, <2>7, <2>8, PlacedChanges
  <2>10. F \ {at} = node'.at..numFlows /\ node'.at \in 1..(numFlows + 1)
    BY <1>2, <2>1, <2>2, <2>6, <2>7, <2>8
  <2>11. Placed(node.at..numFlows)'
    BY <1>1, <2>9, <2>10
  <2>12. created' = Streams
    BY <1>8, <2>1 DEF DetachFlow
  <2> QED
    BY <1>1, <2>6, <2>10, <2>11, <2>12 DEF SetUpInv, Polling
<1>9. CASE AllDetached
  <2>1. /\ node.at \in 1..(numFlows + 1) /\ created = Streams
        /\ Placed(node.at..numFlows) /\ FlowsDone(node.at)
    BY <1>1, <1>9 DEF SetUpInv, AllDetached
  <2>2. node.at..numFlows = {}
    BY <1>2, <2>1, FlowHasStream
  <2>3. Placed({})' /\ created' = Streams
    BY <1>1, <1>9, <2>1, <2>2, PlacedStays DEF AllDetached, lifeVars
  <2>4. node'.does = "destroy" /\ node'.at = 1
    BY <1>9 DEF AllDetached, Goes
  <2>5. node'.at \in Streams /\ Streams = node'.at..NumStreams
    BY <1>2, <2>4 DEF Streams
  <2> QED
    BY <1>1, <2>3, <2>4, <2>5 DEF SetUpInv, Polling
<1>10. CASE DestroyStream
  <2>1. node.at \in Streams /\ created = node.at..NumStreams /\ Placed({})
    BY <1>1, <1>10 DEF SetUpInv, DestroyStream
  <2>2. Placed({})'
    BY <1>1, <1>10, <2>1, PlacedStays DEF DestroyStream
  <2>3. created' = created \ {node.at}
        /\ IF node.at = NumStreams THEN Goes("returned", 0, "success")
                                   ELSE Goes("destroy", node.at + 1, "success")
    BY <1>10 DEF DestroyStream, Fails, Clean
  <2>4. created' = (node.at + 1)..NumStreams
    BY <1>2, <2>1, <2>3 DEF Streams
  <2>5. CASE node.at = NumStreams
    <3>1. node'.does = "returned" /\ created' = {}
      BY <1>2, <2>3, <2>4, <2>5 DEF Goes
    <3> QED
      BY <1>1, <2>2, <3>1 DEF SetUpInv, Polling
  <2>6. CASE node.at # NumStreams
    <3>1. node'.does = "destroy" /\ node'.at = node.at + 1
      BY <2>3, <2>6 DEF Goes
    <3>2. node'.at \in Streams /\ created' = node'.at..NumStreams
      BY <1>2, <2>1, <2>4, <2>6, <3>1 DEF Streams
    <3> QED
      BY <1>1, <2>2, <3>1, <3>2 DEF SetUpInv, Polling
  <2> QED
    BY <2>5, <2>6
<1>11. CASE PollChunk \/ ProcessPacket \/ Network \/ Signal \/ UNCHANGED vars
  <2>1. UNCHANGED <<created, m_flows, adapter>> /\ node' = node
    <3>1. CASE Network
      BY <3>1 DEF Network, SendPacket, HeldPacketArrives, lifeVars
    <3>2. CASE Signal \/ UNCHANGED vars
      BY <3>2 DEF Signal, vars, lifeVars
    <3>3. CASE PollChunk \/ ProcessPacket
      BY <3>3 DEF PollChunk, ProcessPacket, lifeVars
    <3> QED
      BY <1>11, <3>1, <3>2, <3>3
  <2> QED
    BY <1>3, <2>1
<1> QED
  BY <1>4, <1>5, <1>6, <1>7, <1>8, <1>9, <1>10, <1>11 DEF Next, Node

\* When operator() returned nothing is left in the library or the adapter, whenever
\* the signal came, unless a call of the set-up or the clean-up failed.
THEOREM ReturnsClean == Spec => []CleanReturn
<1>1. Init => SetUpInv
  <2> SUFFICES ASSUME Init PROVE SetUpInv
    OBVIOUS
  <2>1. node.does = "create" /\ node.at = 1 /\ created = {} /\ adapter = {}
        /\ m_flows = [s \in Streams |-> {}]
    BY DEF Init
  <2>2. 1 \in Streams /\ 1..(node.at - 1) = {}
    BY <2>1, Constants DEF Streams
  <2>3. Placed({})
    BY <2>1 DEF Placed
  <2> QED
    BY <2>1, <2>2, <2>3 DEF SetUpInv, Polling
<1>2. SetUpInv => CleanReturn
  BY DEF SetUpInv, CleanReturn, Clean, Placed
<1> QED
  BY <1>1, <1>2, SetUpStep, TypesCorrect, PTL DEF Spec
=============================================================================
