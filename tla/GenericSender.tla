----------------------------- MODULE GenericSender -----------------------------
(***************************************************************************)
(* GenericSenderIONode: one thread creates its streams and then commits    *)
(* one chunk after the other to each of them in turn.  A stream sends to   *)
(* its flows in turn (AppGenericSendStream).  Every library call may fail; *)
(* a signal may come at any moment, and calls may then report it.          *)
(*                                                                         *)
(* The application deals streams and flows out to the threads, and the     *)
(* node its flows to the streams, both by remainder.  What is in a chunk   *)
(* is written once, before the loop, and left out.  The library tells that *)
(* the hardware queue is full only after a million attempts to commit.     *)
(***************************************************************************)
EXTENDS Integers, FiniteSets, Functions

CONSTANTS
    MaxThreads, MaxStreams, MaxFlows,   \* bounds of the command line options
    NumChunks,     \* m_num_of_chunks
    QueueLength,   \* chunks of a stream the library holds at a time
    HwDepth,       \* chunks of all streams the hardware queue holds
    MaxRounds,     \* bound: rounds of the main loop
    MaxFailures    \* bound: calls that fail

ASSUME SenderAssumption ==
    /\ {MaxThreads, MaxStreams, MaxFlows, NumChunks, QueueLength, HwDepth} \subseteq Nat \ {0}
    /\ MaxRounds \in Nat /\ MaxFailures \in Nat

VARIABLES
    numStreams, numFlows,   \* m_num_of_streams, flows of this node
    node,                   \* the thread: what it does, loop variables, rc
    created,                \* streams with m_stream_created
    m_next_flow_to_send,
    inFlight,               \* per stream: chunks committed, not yet sent
    signal,                 \* SignalHandler::get_received_signal() >= 0
    rounds,                 \* history: rounds begun
    sent, sentTo,           \* history per stream: chunks committed, and to each flow
    cut,                    \* history: chunk iterations that did not serve every stream
    failed                  \* history: where calls failed, and how many

dealt == <<numStreams, numFlows>>
history == <<rounds, sent, sentTo, cut, failed>>
vars == <<dealt, node, created, m_next_flow_to_send, inFlight, signal, history>>

Streams == 0..(numStreams - 1)

\* How many of n things go to taker i of k: those with flow % k == i.
Share(n, k, i) == Cardinality({j \in 0..(n - 1) : j % k = i})

\* m_flows_in_stream[s].size(), and the flows of stream s.
FlowsIn(s) == Share(numFlows, numStreams, s)
Flows(s) == 0..(FlowsIn(s) - 1)

Init ==
    /\ \E threads \in 1..MaxThreads : \E streams \in threads..MaxStreams :
       \E flows \in streams..MaxFlows : \E t \in 0..(threads - 1) :
          /\ numStreams = Share(streams, threads, t)
          /\ numFlows = Share(flows, threads, t)
    /\ node = [does |-> "create", chunk |-> 0, stream |-> 0, rc |-> "success"]
    /\ created = {}
    /\ m_next_flow_to_send = [s \in Streams |-> 0]
    /\ inFlight = [s \in Streams |-> 0]
    /\ signal = FALSE
    /\ rounds = 0 /\ sent = [s \in Streams |-> 0]
    /\ sentTo = [s \in Streams |-> [f \in Flows(s) |-> 0]]
    /\ cut = 0 /\ failed = [calls |-> 0, at |-> {}]

-----------------------------------------------------------------------------
(* The adapter and the user                                                *)

SendChunk(s) ==
    /\ inFlight[s] > 0
    /\ inFlight' = [inFlight EXCEPT ![s] = @ - 1]
    /\ UNCHANGED <<dealt, node, created, m_next_flow_to_send, signal, history>>

Signal ==
    /\ ~signal /\ signal' = TRUE
    /\ UNCHANGED <<dealt, node, created, m_next_flow_to_send, inFlight, history>>

-----------------------------------------------------------------------------
(* create_streams, destroy_streams                                         *)

Goes(does, chunk, stream, rc) ==
    node' = [does |-> does, chunk |-> chunk, stream |-> stream, rc |-> rc]

Fails(at) ==
    /\ failed.calls < MaxFailures
    /\ failed' = [calls |-> failed.calls + 1, at |-> failed.at \cup {at}]

CreateStream ==
    /\ node.does = "create"
    /\ \/ /\ created' = created \cup {node.stream}
          /\ IF node.stream = numStreams - 1 THEN Goes("loop", 0, 0, "success")
             ELSE Goes("create", 0, node.stream + 1, "success")
          /\ UNCHANGED failed
       \/ Fails("create") /\ Goes("returned", 0, 0, "failure") /\ UNCHANGED created
    /\ UNCHANGED <<dealt, m_next_flow_to_send, inFlight, signal, rounds, sent, sentTo, cut>>

\* The library is busy until all chunks of the stream are sent.
DestroyStream ==
    /\ node.does = "destroy"
    /\ \/ /\ inFlight[node.stream] = 0
          /\ created' = created \ {node.stream}
          /\ IF node.stream = numStreams - 1 THEN Goes("returned", 0, 0, "success")
             ELSE Goes("destroy", 0, node.stream + 1, "success")
          /\ UNCHANGED failed
       \/ Fails("destroy") /\ Goes("returned", 0, 0, "failure") /\ UNCHANGED created
    /\ UNCHANGED <<dealt, m_next_flow_to_send, inFlight, signal, rounds, sent, sentTo, cut>>

-----------------------------------------------------------------------------
(* The main loop                                                           *)

\* Faulty variant: the signal is left to the library to report.
LoopIgnoresSignal == node.rc \notin {"failure", "signal_received"}

LoopGoesOn == node.rc \notin {"failure", "signal_received"} /\ ~signal

BeginRound ==
    /\ node.does = "loop"
    /\ \/ /\ LoopGoesOn /\ rounds < MaxRounds
          /\ rounds' = rounds + 1
          /\ Goes("get", 0, 0, node.rc)
       \/ ~LoopGoesOn /\ Goes("destroy", 0, 0, node.rc) /\ UNCHANGED rounds
    /\ UNCHANGED <<dealt, created, m_next_flow_to_send, inFlight, signal, sent, sentTo, cut, failed>>

\* Faulty variant: rc ends the for-loop over the chunks too.
EndIterationFor(rc) ==
    IF node.chunk + 1 < NumChunks /\ rc # "failure" THEN Goes("get", node.chunk + 1, 0, rc)
    ELSE Goes("loop", 0, 0, rc)

\* The for-loop goes on whatever rc is; the main loop only sees the last one.
EndIteration(rc) ==
    IF node.chunk + 1 < NumChunks THEN Goes("get", node.chunk + 1, 0, rc)
    ELSE Goes("loop", 0, 0, rc)

\* A call fails or reports the signal, and the do-loop over the streams ends
\* with that status in rc, or with the success of an earlier call.
CutShort(onFailure, onSignal, at) ==
    /\ cut' = cut + 1
    /\ \/ Fails(at) /\ EndIteration(onFailure)
       \/ signal /\ UNCHANGED failed /\ EndIteration(onSignal)
    /\ UNCHANGED <<dealt, created, m_next_flow_to_send, inFlight, signal, rounds, sent, sentTo>>

\* Where a failure is recorded: in the last chunk of a round, or before it.
Place == IF node.chunk + 1 = NumChunks THEN "last" ELSE "earlier"

\* get_next_chunk finds a chunk, its address is set and its layout applied ...
GetChunk ==
    /\ node.does = "get" /\ inFlight[node.stream] < QueueLength
    /\ Goes("commit", node.chunk, node.stream, "success")
    /\ UNCHANGED <<dealt, created, m_next_flow_to_send, inFlight, signal, history>>

\* Faulty variant: the stream without a free chunk is passed over.
NoFreeChunkSkips ==
    /\ node.does = "get" /\ inFlight[node.stream] = QueueLength
    /\ IF node.stream = numStreams - 1 THEN EndIteration("no_free_chunks")
       ELSE Goes("get", node.chunk, node.stream + 1, "no_free_chunks")
    /\ UNCHANGED <<dealt, created, m_next_flow_to_send, inFlight, signal, history>>

\* ... or finds none and tries again ...
NoFreeChunk ==
    /\ node.does = "get" /\ inFlight[node.stream] = QueueLength
    /\ Goes("get", node.chunk, node.stream, "no_free_chunks")
    /\ UNCHANGED <<dealt, created, m_next_flow_to_send, inFlight, signal, history>>

\* ... or fails ...
GetFails == node.does = "get" /\ CutShort("failure", "signal_received", Place)

\* ... or its layout cannot be applied, which leaves rc as it was: success.
LayoutFails ==
    /\ node.does = "get" /\ inFlight[node.stream] < QueueLength
    /\ CutShort("success", "success", "layout")

HwQueueFull == FoldFunction(+, 0, inFlight) >= HwDepth

\* Faulty variant: a full hardware queue ends the do-loop over the streams.
CommitQueueFullGivesUp ==
    /\ node.does = "commit" /\ HwQueueFull
    /\ EndIteration("hw_send_queue_full")
    /\ UNCHANGED <<dealt, created, m_next_flow_to_send, inFlight, signal, history>>

\* The thread sleeps and commits the same chunk again.
CommitQueueFull ==
    /\ node.does = "commit" /\ HwQueueFull
    /\ Goes("commit", node.chunk, node.stream, "hw_send_queue_full")
    /\ UNCHANGED <<dealt, created, m_next_flow_to_send, inFlight, signal, history>>

CommitFails == node.does = "commit" /\ CutShort("failure", "signal_received", Place)

\* Faulty variant: the turn never ends.
NextFlowUnwrapped(s) == m_next_flow_to_send[s] + 1

\* Faulty variant: two steps at a time.
NextFlowSkips(s) == (m_next_flow_to_send[s] + 2) % FlowsIn(s)

\* set_next_flow_to_send
NextFlow(s) == (m_next_flow_to_send[s] + 1) % FlowsIn(s)

Commit ==
    /\ node.does = "commit" /\ ~HwQueueFull
    /\ LET s == node.stream
       IN  /\ inFlight' = [inFlight EXCEPT ![s] = @ + 1]
           /\ sent' = [sent EXCEPT ![s] = @ + 1]
           /\ sentTo' = [sentTo EXCEPT ![s][m_next_flow_to_send[s]] = @ + 1]
           /\ m_next_flow_to_send' = [m_next_flow_to_send EXCEPT ![s] = NextFlow(s)]
           /\ IF s = numStreams - 1 THEN EndIteration("success")
              ELSE Goes("get", node.chunk, s + 1, "success")
    /\ UNCHANGED <<dealt, created, signal, rounds, cut, failed>>

-----------------------------------------------------------------------------
(* The specification                                                       *)

Thread ==
    \/ CreateStream \/ BeginRound \/ GetChunk \/ NoFreeChunk \/ GetFails \/ LayoutFails
    \/ CommitQueueFull \/ CommitFails \/ Commit \/ DestroyStream

Next == Thread \/ Signal \/ \E s \in Streams : SendChunk(s)

Spec == Init /\ [][Next]_vars

\* The operating system runs the thread, and the adapter sends what it holds.
\* Nothing makes a call fail or a signal come.
FairSpec ==
    /\ Spec /\ WF_vars(Thread)
    /\ \A s \in 0..(MaxStreams - 1) : WF_vars(s \in Streams /\ SendChunk(s))

-----------------------------------------------------------------------------
(* Properties                                                              *)

\* Every variable has its type; in particular the next flow to send to is one of
\* the stream's flows, and no stream has more chunks out than the library lets it.
TypeOK ==
    /\ numStreams \in 1..MaxStreams /\ numFlows \in 1..MaxFlows
    /\ node \in [does : {"create", "loop", "get", "commit", "destroy", "returned"},
                 chunk : 0..(NumChunks - 1), stream : Streams,
                 rc : {"success", "failure", "signal_received", "no_free_chunks",
                       "hw_send_queue_full"}]
    /\ created \subseteq Streams
    /\ \A s \in Streams : m_next_flow_to_send[s] \in Flows(s)
    /\ inFlight \in [Streams -> 0..QueueLength]
    /\ signal \in BOOLEAN
    /\ rounds \in 0..MaxRounds
    /\ sent \in [Streams -> Nat]
    /\ cut \in Nat
    /\ failed.calls \in 0..MaxFailures
    /\ failed.at \subseteq {"create", "destroy", "layout", "last", "earlier"}

\* The flows of a stream are served in turn, whatever fails, is retried or is
\* given up in between: each got its share of the chunks sent, those of this
\* turn that come before m_next_flow_to_send one more.
FlowsInRotation ==
    \A s \in Streams : \A f \in Flows(s) :
        sentTo[s][f] = sent[s] \div FlowsIn(s)
                       + IF f < m_next_flow_to_send[s] THEN 1 ELSE 0

\* The streams of a node keep step: an earlier one is ahead by the chunk of this
\* iteration, and by one for each iteration that a failed call or the signal cut
\* short, whichever stream it hit.
StreamsInStep ==
    \A s, t \in Streams : t < s => sent[s] <= sent[t] /\ sent[t] <= sent[s] + 1 + cut

\* rc holds only the result of a round's last iteration: the main loop ends for a
\* signal, or for a call that failed there, and for nothing that failed earlier.
EndsForCause == node.does = "destroy" => signal \/ "last" \in failed.at

\* After a signal the thread returns, also from its retries for a free chunk or
\* for room in the hardware queue, which do not look at the signal.
StopsOnSignal == signal ~> node.does = "returned"

\* Nothing but a failure or the signal keeps a stream from sending its chunk in
\* every iteration of every round: a queue that is full is waited for.
EveryStreamServed ==
    <>(signal \/ failed.calls > 0 \/ \A s \in Streams : sent[s] = MaxRounds * NumChunks)
=============================================================================
