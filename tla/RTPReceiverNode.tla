----------------------------- MODULE RTPReceiverNode -----------------------------
(***************************************************************************)
(* RTPReceiverIONode: one thread creates its streams, attaches flows to    *)
(* them, waits for a first packet, polls the streams round after round and *)
(* in the end detaches and destroys (ReceiverIONodeBase, ReceiveStream);   *)
(* AppRTPReceiveStream keeps the statistics of each stream and announces   *)
(* frames.  Every library call may fail, the consumer may fail, a signal   *)
(* may come at any moment, and the network loses, damages, duplicates and  *)
(* delays packets.                                                         *)
(*                                                                         *)
(* The adapter's buffer of a stream is a queue that a poll takes as one    *)
(* chunk, whose packets are then processed one by one.  Packets are        *)
(* numbered from the first one the sender sends after the flow was         *)
(* attached; FrameLen packets make a frame, the last one carries the       *)
(* marker bit.  Packets sent before the thread polls, or after, make no    *)
(* difference.  Bytes counted, memory layout and printing are left out.    *)
(***************************************************************************)
EXTENDS Integers, Sequences, FiniteSets

CONSTANTS
    NumStreams,
    FlowCounts,    \* possible numbers of flows
    SeqRange,        \* m_sequence_number_mask + 1
    FrameLen,      \* packets of a frame
    FirstIds,      \* possible first packets: a stream may join in mid-frame
    MaxSent,       \* bound: packets sent
    MaxChunk,      \* packets of a chunk
    MaxNetFaults,  \* bound: losses, and packets damaged, duplicated or delayed
    MaxFailures,   \* bound: library calls and consumer calls that fail
    MaxReports     \* bound: statistics printed

ASSUME NodeAssumption ==
    /\ NumStreams \in Nat \ {0} /\ FlowCounts \subseteq Nat \ {0}
    /\ FrameLen \in Nat \ {0, 1} /\ MaxChunk \in Nat \ {0} /\ FirstIds \subseteq Nat \ {0}
    /\ {MaxSent, MaxNetFaults, MaxFailures, MaxReports} \subseteq Nat
    /\ SeqRange \in Nat \ {0}

Streams == 1..NumStreams
Counters == {"rx_count", "rx_dropped", "rx_corrupt_header",
             "consumed_packets", "unconsumed_packets"}
NoStats == [c \in Counters |-> 0]
NoChunk == [rest |-> <<>>, length |-> 0]

VARIABLES
    numFlows,          \* m_flows.size()
    node,              \* the thread: what it does, to which stream or flow, rc
    created,           \* streams that exist in the library
    m_flows,           \* per stream: flows it attached
    adapter,           \* flows the adapter steers to a stream
    signal,            \* SignalHandler::get_received_signal() >= 0
    failed,            \* history: kinds of calls that failed
    net,               \* per stream: next packet, one held back (0: none)
    traffic,           \* history: packets sent, faults of the network
    queue,             \* per stream: received packets, not yet polled
    chunk,             \* per stream: what was polled, its packets not yet processed
    rx,                \* per stream: the members of AppRTPReceiveStream
    seen,              \* history per stream: first and last packet with a good
                       \* header, their number, whether they came in order, and
                       \* never after a gap of a whole range of numbers
    events,            \* history per stream: frames announced
    printed            \* history: reports printed, and per stream their sum

lifeVars == <<numFlows, created, m_flows, adapter>>
netVars == <<net, traffic, queue>>
streamVars == <<chunk, rx, seen, events, printed>>
vars == <<lifeVars, node, signal, failed, netVars, streamVars>>

Add(a, b) == [c \in Counters |-> a[c] + b[c]]

Init ==
    /\ numFlows \in FlowCounts
    /\ node = [does |-> "create", at |-> 1, rc |-> "success"]
    /\ created = {} /\ m_flows = [s \in Streams |-> {}] /\ adapter = {}
    /\ signal = FALSE /\ failed = {}
    /\ net \in [Streams -> [next : FirstIds, held : {0}]]
    /\ traffic = [sent |-> 0, faults |-> 0]
    /\ queue = [s \in Streams |-> <<>>] /\ chunk = [s \in Streams |-> NoChunk]
    /\ rx = [s \in Streams |->
                [m_initialized |-> FALSE, m_last_sequence_number |-> 0, m_last_mbit |-> TRUE,
                 m_statistic |-> NoStats, m_statistic_totals |-> NoStats]]
    /\ seen = [s \in Streams |-> [first |-> 0, last |-> 0, good |-> 0, ordered |-> TRUE,
                               close |-> TRUE]]
    /\ events = [s \in Streams |-> <<>>]
    /\ printed = [reports |-> 0, sum |-> [s \in Streams |-> NoStats]]

-----------------------------------------------------------------------------
(* Sender, network and user                                                *)

SequenceNumber(id) == id % SeqRange
FrameOf(id) == id \div FrameLen
MBit(id) == id % FrameLen = FrameLen - 1

\* Several flows share one stream only where header processing is off;
\* what happens to packets on their way makes no difference there.
HeaderProcessing == numFlows = NumStreams

Listening(s) == \E f \in m_flows[s] : f \in adapter

\* The next packet is sent; what is lost may be a burst of packets, as long as a
\* whole range of sequence numbers.
SendPacket(s) ==
    /\ node.does \in {"start", "poll"} /\ Listening(s)
    /\ Len(queue[s]) < MaxChunk
    /\ \E outcome \in {"arrives", "lost", "damaged", "delayed", "duplicated"},
          n \in 1..SeqRange :
          /\ outcome # "lost" => n = 1
          /\ traffic.sent + n <= MaxSent
          /\ outcome # "arrives" => HeaderProcessing /\ traffic.faults < MaxNetFaults
          /\ outcome \in {"delayed", "duplicated"} => net[s].held = 0
          /\ queue' = IF outcome \in {"lost", "delayed"} THEN queue
                      ELSE [queue EXCEPT ![s] =
                              Append(@, [id |-> net[s].next, good |-> outcome # "damaged"])]
          /\ net' = [net EXCEPT ![s] =
                        [next |-> @.next + n,
                         held |-> IF outcome \in {"delayed", "duplicated"} THEN @.next ELSE @.held]]
          /\ traffic' = [sent |-> traffic.sent + n,
                         faults |-> traffic.faults + (IF outcome = "arrives" THEN 0 ELSE 1)]
    /\ UNCHANGED <<lifeVars, node, signal, failed, streamVars>>

HeldPacketArrives(s) ==
    /\ node.does \in {"start", "poll"} /\ Listening(s)
    /\ net[s].held # 0 /\ Len(queue[s]) < MaxChunk
    /\ queue' = [queue EXCEPT ![s] = Append(@, [id |-> net[s].held, good |-> TRUE])]
    /\ net' = [net EXCEPT ![s].held = 0]
    /\ UNCHANGED traffic
    /\ UNCHANGED <<lifeVars, node, signal, failed, streamVars>>

Signal ==
    /\ ~signal
    /\ signal' = TRUE
    /\ UNCHANGED <<lifeVars, node, failed, netVars, streamVars>>

-----------------------------------------------------------------------------
(* create_streams, process_flows, destroy_streams                          *)

Goes(does, at, rc) == node' = [does |-> does, at |-> at, rc |-> rc]
Succeeds == UNCHANGED failed
Fails(call) == Cardinality(failed) < MaxFailures /\ failed' = failed \cup {call}

\* Flows of the first s streams: each has its share, the first ones one more.
FlowsUpTo(s) ==
    LET remainder_flows == numFlows % NumStreams
    IN  s * (numFlows \div NumStreams) + (IF s < remainder_flows THEN s ELSE remainder_flows)

StreamOf(f) == CHOOSE s \in Streams : FlowsUpTo(s - 1) < f /\ f <= FlowsUpTo(s)
FlowsDone(f) == f > FlowsUpTo(NumStreams)

CreateStream ==
    /\ node.does = "create"
    /\ \/ /\ Succeeds
          /\ created' = created \cup {node.at}
          /\ IF node.at = NumStreams THEN Goes("attach", 1, "success")
                                     ELSE Goes("create", node.at + 1, "success")
       \/ Fails("create") /\ Goes("returned", 0, "failure") /\ UNCHANGED created
    /\ UNCHANGED <<numFlows, m_flows, adapter, signal, netVars, streamVars>>

AttachFlow ==
    /\ node.does = "attach" /\ numFlows >= NumStreams /\ ~FlowsDone(node.at)
    /\ \/ /\ Succeeds
          /\ m_flows' = [m_flows EXCEPT ![StreamOf(node.at)] = @ \cup {node.at}]
          /\ adapter' = adapter \cup {node.at}
          /\ Goes("attach", node.at + 1, "success")
       \/ Fails("attach") /\ Goes("returned", 0, "failure") /\ UNCHANGED <<m_flows, adapter>>
    /\ UNCHANGED <<numFlows, created, signal, netVars, streamVars>>

AllAttached ==
    /\ node.does = "attach"
    /\ \/ numFlows < NumStreams /\ Goes("returned", 0, "failure")
       \/ numFlows >= NumStreams /\ FlowsDone(node.at) /\ Goes("start", 0, "success")
    /\ UNCHANGED <<lifeVars, signal, failed, netVars, streamVars>>

\* Faulty variant: an interrupted detach counts as a failure.
DetachedOnlyOk(status) == status = "ok"

Detached(status) == status \in {"ok", "signal"}

\* A detach that a signal interrupts has detached the flow; a flow that the
\* stream does not know never reaches the library.
DetachFlow ==
    /\ node.does = "detach" /\ ~FlowsDone(node.at)
    /\ LET known == node.at \in m_flows[StreamOf(node.at)]
       IN  \E status \in {"ok", "signal", "failure"} :
             /\ status = "signal" => signal
             /\ IF status = "failure" THEN Fails("detach") ELSE Succeeds
             /\ adapter' = IF known /\ status # "failure" THEN adapter \ {node.at} ELSE adapter
             /\ IF known /\ Detached(status)
                THEN /\ m_flows' = [m_flows EXCEPT ![StreamOf(node.at)] = @ \ {node.at}]
                     /\ Goes("detach", node.at + 1, "success")
                ELSE UNCHANGED m_flows /\ Goes("destroy", 1, "failure")
    /\ UNCHANGED <<numFlows, created, signal, netVars, streamVars>>

AllDetached ==
    /\ node.does = "detach" /\ FlowsDone(node.at)
    /\ Goes("destroy", 1, "success")
    /\ UNCHANGED <<lifeVars, signal, failed, netVars, streamVars>>

DestroyStream ==
    /\ node.does = "destroy"
    /\ \/ /\ Succeeds
          /\ created' = created \ {node.at}
          /\ IF node.at = NumStreams THEN Goes("returned", 0, "success")
                                     ELSE Goes("destroy", node.at + 1, "success")
       \/ Fails("destroy") /\ Goes("returned", 0, "failure") /\ UNCHANGED created
    /\ UNCHANGED <<numFlows, m_flows, adapter, signal, netVars, streamVars>>

Polling == node.does \in {"start", "poll"}

-----------------------------------------------------------------------------
(* AppRTPReceiveStream                                                     *)

\* Faulty variant: the difference to the last packet, not to the expected one.
NumDroppedOffByOne(r, sequence_number) ==
    (sequence_number - r.m_last_sequence_number) % SeqRange

\* Packets missing before one with this sequence number.
NumDropped(r, sequence_number) ==
    IF r.m_initialized THEN (sequence_number - (r.m_last_sequence_number + 1)) % SeqRange ELSE 0

Counted(r, counter, n) ==
    [r EXCEPT !.m_statistic[counter] = @ + n, !.m_statistic_totals[counter] = @ + n]

\* Faulty variant: once seen, a marker bit is remembered for ever.
LastMbitSticky(r, p) == r.m_last_mbit \/ MBit(p.id)

LastMbit(r, p) == MBit(p.id)

\* process_packet_header
ProcessPacketHeader(r, p) ==
    IF ~HeaderProcessing THEN r
    ELSE IF ~p.good THEN Counted(r, "rx_corrupt_header", 1)
    ELSE [Counted(r, "rx_dropped", NumDropped(r, SequenceNumber(p.id))) EXCEPT
             !.m_initialized = TRUE,
             !.m_last_sequence_number = SequenceNumber(p.id),
             !.m_last_mbit = LastMbit(r, p)]

StartsFrame(r, p) == ~MBit(p.id) /\ r.m_last_mbit

\* Packets with a good header so far, whether they came in order, and whether
\* fewer than a whole range of sequence numbers were missing before each.
Saw(h, p) ==
    IF ~p.good THEN h
    ELSE [first |-> IF h.good = 0 THEN p.id ELSE h.first,
          last |-> p.id,
          good |-> h.good + 1,
          ordered |-> h.ordered /\ (h.good > 0 => p.id > h.last),
          close |-> h.close /\ (h.good > 0 => p.id - h.last <= SeqRange)]

\* The loop of get_next_chunk over the packets of a chunk.
ProcessPacket ==
    /\ Polling /\ node.at \in Streams /\ chunk[node.at].rest # <<>>
    /\ LET s == node.at
           p == Head(chunk[s].rest)
       IN  /\ chunk' = [chunk EXCEPT ![s].rest = Tail(@)]
           /\ rx' = [rx EXCEPT ![s] = ProcessPacketHeader(@, p)]
           /\ events' = IF HeaderProcessing /\ p.good /\ StartsFrame(rx[s], p)
                        THEN [events EXCEPT ![s] = Append(@, FrameOf(p.id))] ELSE events
           /\ seen' = [seen EXCEPT ![s] = Saw(@, p)]
    /\ UNCHANGED <<lifeVars, node, signal, failed, netVars, printed>>

\* RTPReceiverIONode::consume_chunk: the number of packets the consumer consumed
\* stays in the base class, whatever it is; here it is 0.
AfterConsume(r, length, consumed) ==
    IF ~consumed THEN r
    ELSE Counted(Counted(r, "consumed_packets", 0), "unconsumed_packets", length)

-----------------------------------------------------------------------------
(* wait_first_packet and the main loop of operator()                       *)

\* Faulty variant: in the main loop the signal only ends a wait of the library.
LoopIgnoresSignal(does) == node.rc # "failure" /\ (does = "poll" \/ ~signal)

LoopGoesOn(does) == node.rc # "failure" /\ ~signal

BeginRound ==
    /\ Polling /\ node.at = 0
    /\ IF LoopGoesOn(node.does) THEN Goes(node.does, 1, node.rc)
       ELSE IF node.does = "start" THEN Goes("poll", 0, node.rc)
       ELSE Goes("detach", 1, node.rc)
    /\ UNCHANGED <<lifeVars, signal, failed, netVars, streamVars>>

PollsStream == Polling /\ node.at \in Streams /\ chunk[node.at].length = 0

\* Where the thread goes after stream node.at, leaving the for-loop or not.
NextStream(rc) == Goes(node.does, node.at + 1, rc)
LeavesRound(rc) == Goes(node.does, NumStreams + 1, rc)

PollEmpty ==
    /\ PollsStream /\ queue[node.at] = <<>>
    /\ NextStream("success")
    /\ UNCHANGED <<lifeVars, signal, failed, netVars, streamVars>>

PollFails ==
    /\ PollsStream
    /\ \/ Fails("poll") /\ LeavesRound("failure")
       \/ signal /\ Succeeds /\ LeavesRound("signal_received")
    /\ UNCHANGED <<lifeVars, signal, netVars, streamVars>>

\* Faulty variant: a failed consumer ends the for-loop.
AfterConsumerBreaks(rc) == LeavesRound(rc)

\* In the main loop rc is overwritten by the poll of the next stream.
AfterConsumer(rc) == NextStream(rc)

\* Which consumer call fails: the first one, one of the last stream, another.
ConsumerCall ==
    IF node.does = "start" THEN "first" ELSE IF node.at = NumStreams THEN "last" ELSE "other"

PollChunk ==
    /\ PollsStream /\ queue[node.at] # <<>>
    /\ LET s == node.at
       IN  /\ chunk' = [chunk EXCEPT ![s] = [rest |-> queue[s], length |-> Len(queue[s])]]
           /\ rx' = [rx EXCEPT ![s] = Counted(@, "rx_count", Len(queue[s]))]
           /\ queue' = [queue EXCEPT ![s] = <<>>]
    /\ UNCHANGED <<lifeVars, node, signal, failed, net, traffic, seen, events, printed>>

ConsumeChunk ==
    /\ Polling /\ node.at \in Streams
    /\ chunk[node.at].length > 0 /\ chunk[node.at].rest = <<>>
    /\ \E consumed \in BOOLEAN :
          LET s == node.at
              rc == IF consumed THEN "success" ELSE "failure"
          IN  /\ IF consumed THEN Succeeds ELSE Fails(ConsumerCall)
              /\ rx' = [rx EXCEPT ![s] = AfterConsume(@, chunk[s].length, consumed)]
              /\ chunk' = [chunk EXCEPT ![s] = NoChunk]
              /\ IF node.does = "start" THEN Goes("poll", 0, rc) ELSE AfterConsumer(rc)
    /\ UNCHANGED <<lifeVars, signal, netVars, seen, events, printed>>

\* Faulty variant: what is not printed is reset too.
ResetAll(r) == [r EXCEPT !.m_statistic = NoStats, !.m_statistic_totals = NoStats]

ResetStatistics(r) == [r EXCEPT !.m_statistic = NoStats]

\* After the for-loop; print_statistics of all streams when the interval passed.
EndRound ==
    /\ Polling /\ node.at = NumStreams + 1
    /\ \/ UNCHANGED <<rx, printed>>
       \/ /\ node.does = "poll" /\ printed.reports < MaxReports
          /\ printed' = [reports |-> printed.reports + 1,
                         sum |-> [s \in Streams |-> Add(printed.sum[s], rx[s].m_statistic)]]
          /\ rx' = [s \in Streams |-> ResetStatistics(rx[s])]
    /\ Goes(node.does, 0, node.rc)
    /\ UNCHANGED <<lifeVars, signal, failed, netVars, chunk, seen, events>>

-----------------------------------------------------------------------------
Node ==
    \/ CreateStream \/ AttachFlow \/ AllAttached
    \/ BeginRound \/ PollEmpty \/ PollFails \/ PollChunk
    \/ ProcessPacket \/ ConsumeChunk \/ EndRound
    \/ DetachFlow \/ AllDetached \/ DestroyStream

Network == \E s \in Streams : SendPacket(s) \/ HeldPacketArrives(s)

Next == Node \/ Network \/ Signal

Spec == Init /\ [][Next]_vars

\* The thread has a core of its own.
FairSpec == Spec /\ WF_vars(Node)

-----------------------------------------------------------------------------
\* Once operator() returned, no stream is left in the library and no flow in the
\* adapter, whenever the signal came and whatever poll or consumer failed,
\* unless a call of the set-up or of the clean-up itself failed.
CleanReturn ==
    /\ node.does = "returned" /\ numFlows >= NumStreams
    /\ failed \cap {"create", "attach", "detach", "destroy"} = {}
    => created = {} /\ adapter = {} /\ \A s \in Streams : m_flows[s] = {}

\* Over any number of printed intervals, the drops a stream reports are the
\* packets missing between the first and the last one with a good header, as
\* long as they come in order and a whole range of sequence numbers is never
\* missing at once; out of order, with duplicates, or after such a gap the total
\* is off by whole ranges of the sequence number and by nothing else.
DropsExplained ==
    HeaderProcessing =>
        \A s \in Streams :
            LET dropped == printed.sum[s]["rx_dropped"] + rx[s].m_statistic["rx_dropped"]
                missing == IF seen[s].good = 0 THEN 0
                           ELSE seen[s].last - seen[s].first + 1 - seen[s].good
            IN  /\ dropped % SeqRange = missing % SeqRange
                /\ seen[s].ordered /\ seen[s].close => dropped = missing

\* Printed and current statistics add up to the totals, every packet polled is
\* counted, and, once its chunk is consumed, is in the consumer's account unless
\* a consumer failed.
EveryPacketAccounted ==
    \A s \in Streams :
        LET totals == rx[s].m_statistic_totals
            accounted == totals["consumed_packets"] + totals["unconsumed_packets"]
                         + chunk[s].length
        IN  /\ totals = Add(printed.sum[s], rx[s].m_statistic)
            /\ HeaderProcessing =>
                   totals["rx_count"]
                       = seen[s].good + totals["rx_corrupt_header"] + Len(chunk[s].rest)
            /\ accounted <= totals["rx_count"]
            /\ failed \cap {"first", "last", "other"} = {} => accounted = totals["rx_count"]

\* The frames announced to the tracker of a stream whose packets come in order
\* are in order, none twice, whatever packets of a frame are lost or damaged.
FramesInOrder ==
    \A s \in Streams :
        seen[s].ordered =>
            \A m, n \in DOMAIN events[s] : m < n => events[s][m] < events[s][n]

\* The thread only stops polling because of a signal, a failed poll, or a
\* consumer that failed on the first chunk or on the last stream: rc of another
\* stream's consumer does not outlive the next poll.
EndsForCause ==
    node.does \in {"detach", "destroy"}
        => signal \/ failed \cap {"poll", "first", "last"} # {}

\* After a signal operator() returns, wherever the thread is.
StopsOnSignal == signal ~> node.does = "returned"
=============================================================================
