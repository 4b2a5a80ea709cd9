--------------------------- MODULE IPOReceiveStream ---------------------------
(***************************************************************************)
(* Inline Packet Ordering receiver: one logical RTP stream reconstructed   *)
(* from several redundant network paths that share one memory buffer       *)
(* (IPOReceiveStream and its application subclass AppIPOReceiveStream).    *)
(*                                                                         *)
(* A packet is identified by its position `id' in the order of sending;    *)
(* the receiver only sees the RTP sequence number SeqOf(id).  The adapter  *)
(* writes a packet into the slot its sequence number selects as soon as it *)
(* arrives, whatever the software will decide about it.                    *)
(*                                                                         *)
(* The receiver is one thread.  Only the adapter and the clock run beside  *)
(* it, and they touch what the thread reads in three places: the clock     *)
(* sample, the poll of each sub-stream, and the memory behind a returned   *)
(* chunk.  One get_next_chunk call is therefore one PollBegin step, one    *)
(* TakeChunk step per path followed by one ProcessPacket step per packet,  *)
(* and one Assemble step.                                                  *)
(***************************************************************************)
EXTENDS Integers, Sequences, FiniteSetsExt

CONSTANTS
    NumPaths,          \* m_paths.size()
    SeqMod,            \* get_sequence_number_mask() + 1
    BufElements,       \* num_of_packets_in_chunk
    MaxChunk,          \* max_chunk_size of a sub-stream completion
    MaxPathDiff,       \* m_max_path_differential
    RestartThreshold   \* m_sender_restart_threshold

CONSTANTS              \* the network and the machine around the stream
    Skew,              \* a packet reaches a path at most Skew after it is sent
    PathDelays,        \* per path: the delays its packets may have, in 0..Skew
    PollGap,           \* at most PollGap ticks between two get_next_chunk calls
    PollTicks,         \* at most PollTicks ticks inside one get_next_chunk call
    FirstId,           \* id, and so sequence number, of the first packet sent
    RestartSeqs,       \* sequence numbers a restarted sender may begin with
    RestartSilence,    \* a sender is silent for more than this before a restart
    MaxStart,          \* bound: the stream is started no later than this
    MaxTime,           \* bound: ticks of the clock
    MaxPause,          \* bound: silent ticks between two packets
    MaxSent,           \* bound: packets the sender sends
    MaxLoss,           \* bound: packet copies the network may lose or damage
    MaxBad             \* bound: packet copies the network may damage

Paths == 1..NumPaths

ASSUME ReceiverAssumption ==
    /\ NumPaths \in Nat \ {0}
    /\ SeqMod \in Nat \ {0} /\ SeqMod % 4 = 0
    /\ BufElements \in Nat \ {0}
    /\ MaxChunk \in Nat \ {0}
    /\ MaxPathDiff \in Nat
    /\ RestartThreshold \in Nat

ASSUME EnvironmentAssumption ==
    /\ Skew \in Nat /\ PollGap \in Nat /\ PollTicks \in Nat
    /\ RestartSeqs \subseteq 0..(SeqMod - 1)
    /\ RestartSilence \in Nat
    /\ FirstId \in Nat
    /\ PathDelays \in [Paths -> SUBSET (0..Skew)]
    /\ MaxStart \in Nat /\ MaxTime \in Nat /\ MaxPause \in Nat
    /\ MaxSent \in Nat /\ MaxLoss \in Nat /\ MaxBad \in Nat

\* get_sequence_number_wrap_around(num_of_packets_in_chunk)
WrapAround == IF SeqMod - 1 >= BufElements THEN BufElements ELSE SeqMod

\* m_sequence_number_msb_mask and m_sequence_number_init_offset
MsbMask == SeqMod \div 2
InitOffset == SeqMod \div 4

Slots == 0..(WrapAround - 1)
SeqNums == 0..(SeqMod - 1)
Corrupted == -1        \* an arrived packet whose RTP header does not parse
NoPacket == -2         \* nothing was written to a slot, or nothing delivered

\* header[2..3], and the extension word with extended sequence numbers
SeqOf(id) == id % SeqMod
SlotOf(id) == SeqOf(id) % WrapAround

VARIABLES
    clk,               \* the steady clock
    nextId,            \* id of the next packet of the sender
    sent,              \* how many packets the sender has sent
    lastSend,          \* when the sender sent last
    flight,            \* per path: packets on their way, [id, due]
    cq,                \* per path: arrived packets the software has not polled
    mem,               \* per slot: id of the packet the adapter wrote last
    damaged,           \* how many copies were damaged
    lostOn             \* history: the copies <<path, id>> that never arrive

VARIABLES
    m_state, m_index, m_next_packet_time, m_start_time, m_now,
    m_last_processed_sequence_number,
    m_ext_packet_info_arr,   \* per slot: [sequence_number, is_valid, timestamp]
    pollPath,          \* 0 between calls, else the sub-stream to poll next
    todo               \* packets of the completion being processed

VARIABLES              \* AppIPOReceiveStream
    m_path_packets,    \* per slot: the paths that delivered the packet
    m_statistic,       \* the totals
    m_initialized, m_last_sequence_number

VARIABLES
    chunk,             \* what the last get_next_chunk returned, [slot, seq, id]
    lastOut,           \* history: id of the last packet given to the caller
    span,              \* history: ids covered by the deliveries, in truth
    fresh,             \* history: nothing delivered since the last position
    skippedIds,        \* history: ids the initial sync threw away
    position,          \* history: id of the packet that last positioned the stream
    held,              \* history: per slot, id of the packet its record describes
    front,             \* history: id of the last packet taken out of the buffer
    inSync             \* history: the initial sync skipped no packet with a copy
                       \* under way, and nothing older than the position came out

envVars == <<clk, nextId, sent, lastSend, flight, cq, mem, damaged, lostOn>>
appVars == <<m_path_packets, m_statistic, m_initialized, m_last_sequence_number>>
ipoVars == <<m_state, m_index, m_next_packet_time, m_start_time, m_now,
             m_last_processed_sequence_number, m_ext_packet_info_arr>>
histVars == <<lastOut, span, fresh, skippedIds, position, held, front, inSync>>
vars == <<envVars, ipoVars, pollPath, todo, appVars, chunk, histVars>>

States == {"NotStarted", "WaitFirstPacket", "Running", "Waiting"}
Done == NumPaths + 1   \* pollPath: all sub-streams polled
Ended == NumPaths + 2  \* pollPath: a sub-stream failed, the node's loop ended

Init ==
    /\ clk = 0 /\ nextId = FirstId /\ sent = 0 /\ lastSend = 0
    /\ flight = [p \in Paths |-> <<>>]
    /\ cq = [p \in Paths |-> <<>>]
    /\ mem = [s \in Slots |-> NoPacket]
    /\ damaged = 0 /\ lostOn = {}
    /\ m_state = "NotStarted"
    /\ m_index = 0 /\ m_next_packet_time = 0 /\ m_start_time = 0 /\ m_now = 0
    /\ m_last_processed_sequence_number = 0
    /\ m_ext_packet_info_arr = [s \in Slots |->
           [sequence_number |-> 0, is_valid |-> FALSE, timestamp |-> 0]]
    /\ pollPath = 0 /\ todo = <<>>
    /\ m_path_packets = [s \in Slots |-> {}]
    /\ m_statistic = [rx_count |-> 0, rx_dropped |-> 0, rx_exceed_md |-> 0,
                      rx_corrupt_header |-> 0,
                      path_rx |-> [p \in Paths |-> 0],
                      path_dropped |-> [p \in Paths |-> 0]]
    /\ m_initialized = FALSE /\ m_last_sequence_number = 0
    /\ chunk = <<>> /\ lastOut = NoPacket /\ span = 0 /\ fresh = TRUE
    /\ skippedIds = {}
    /\ position = NoPacket /\ front = NoPacket /\ inSync = TRUE
    /\ held = [s \in Slots |-> NoPacket]

-----------------------------------------------------------------------------
(* The sender, the network and the clock.  They are not observed while the *)
(* thread processes what it already took from a sub-stream.                *)

Observable == todo = <<>> /\ pollPath \in 0..NumPaths

\* What is due at this time is on the adapter's side before anybody looks.
NothingDue == \A p \in Paths : flight[p] # <<>> => Head(flight[p]).due > clk

\* The clock advances, and the receiver thread is being scheduled.
TimePasses ==
    /\ Observable /\ NothingDue
    /\ clk < MaxTime
    /\ \/ m_state = "NotStarted" /\ clk < MaxStart
       \/ m_state # "NotStarted" /\ pollPath = 0 /\ clk - m_now < PollGap
       \/ m_state # "NotStarted" /\ pollPath # 0 /\ clk - m_now < PollTicks
    /\ clk' = clk + 1

\* The sender sends packet id at the new time.  The network loses some of
\* the copies, damages others and delays the rest; a path keeps its order.
SendPacket(id) ==
    /\ sent < MaxSent
    /\ \E lost, bad \in SUBSET Paths, delay \in [Paths -> 0..Skew] :
          /\ lost \cap bad = {}
          /\ Cardinality(bad) <= MaxBad - damaged
          /\ damaged' = damaged + Cardinality(bad)
          /\ Cardinality(lostOn) + Cardinality(lost \cup bad) <= MaxLoss
          /\ lostOn' = lostOn \cup ((lost \cup bad) \X {id})
          /\ \A p \in Paths : delay[p] \in PathDelays[p]
          /\ \A p \in Paths : flight[p] # <<>> =>
                 flight[p][Len(flight[p])].due <= clk + 1 + delay[p]
          /\ flight' = [p \in Paths |->
                 IF p \in lost THEN flight[p]
                 ELSE Append(flight[p],
                             [id  |-> IF p \in bad THEN Corrupted ELSE id,
                              due |-> clk + 1 + delay[p]])]
    /\ nextId' = id + 1
    /\ sent' = sent + 1
    /\ lastSend' = clk + 1

\* The sender pauses; once it has begun, for MaxPause ticks at most.
TickSilent ==
    /\ TimePasses
    /\ sent \in 1..(MaxSent - 1) => clk + 1 - lastSend <= MaxPause
    /\ UNCHANGED <<nextId, sent, lastSend, flight, damaged, lostOn, cq, mem>>
    /\ UNCHANGED <<ipoVars, pollPath, todo, appVars, chunk, histVars>>

TickSend ==
    /\ TimePasses
    /\ SendPacket(nextId)
    /\ UNCHANGED <<cq, mem, ipoVars, pollPath, todo, appVars, chunk, histVars>>

\* The sender restarts: its numbering jumps to seq.
TickRestart(seq) ==
    /\ TimePasses
    /\ sent > 0
    /\ clk + 1 - lastSend > RestartSilence
    /\ SendPacket(nextId - SeqOf(nextId) + SeqMod + seq)
    /\ UNCHANGED <<cq, mem, ipoVars, pollPath, todo, appVars, chunk, histVars>>

\* The adapter receives a packet, places it by sequence number and completes
\* it; a damaged one is completed without a place in the stream.
Arrive(p) ==
    /\ Observable
    /\ flight[p] # <<>>
    /\ Head(flight[p]).due <= clk
    /\ LET id == Head(flight[p]).id IN
          /\ cq' = [cq EXCEPT ![p] = Append(@, id)]
          /\ mem' = IF id = Corrupted THEN mem ELSE [mem EXCEPT ![SlotOf(id)] = id]
    /\ flight' = [flight EXCEPT ![p] = Tail(@)]
    /\ UNCHANGED <<clk, nextId, sent, lastSend, damaged, lostOn>>
    /\ UNCHANGED <<ipoVars, pollPath, todo, appVars, chunk, histVars>>

-----------------------------------------------------------------------------
(* synchronous_start                                                       *)

\* How many packets one rmx_input_get_next_chunk call takes from a path.
TakenFrom(p) == IF Len(cq[p]) <= MaxChunk THEN Len(cq[p]) ELSE MaxChunk

RestOf(p) == SubSeq(cq[p], TakenFrom(p) + 1, Len(cq[p]))

\* sync_paths: completions of a path are taken and thrown away, for as long
\* as the library announces more of them or the time for it has passed.
SyncPath(p) ==
    /\ m_state = "NotStarted"
    /\ pollPath = 0
    /\ cq[p] # <<>>
    /\ cq' = [cq EXCEPT ![p] = RestOf(p)]
    /\ UNCHANGED <<clk, nextId, sent, lastSend, flight, mem, damaged, lostOn>>
    /\ UNCHANGED <<ipoVars, pollPath, todo, appVars, chunk, histVars>>

Start ==
    /\ m_state = "NotStarted"
    /\ pollPath = 0
    /\ m_state' = "WaitFirstPacket"
    /\ m_start_time' = clk + MaxPathDiff
    /\ UNCHANGED <<m_index, m_next_packet_time, m_now>>
    /\ UNCHANGED <<m_last_processed_sequence_number, m_ext_packet_info_arr>>
    /\ UNCHANGED <<envVars, pollPath, todo, appVars, chunk, histVars>>

-----------------------------------------------------------------------------
(* get_next_chunk, first part: take what every sub-stream has.             *)

\* Two calls never sample the same time: the clock is finer than a call.
PollBegin ==
    /\ pollPath = 0 /\ NothingDue
    /\ clk > m_now
    /\ m_now' = clk
    /\ IF m_state = "NotStarted"
       THEN m_state' = "WaitFirstPacket" /\ m_start_time' = clk + MaxPathDiff
       ELSE UNCHANGED <<m_state, m_start_time>>
    /\ pollPath' = 1
    /\ chunk' = <<>>
    /\ UNCHANGED <<m_index, m_next_packet_time>>
    /\ UNCHANGED <<m_last_processed_sequence_number, m_ext_packet_info_arr>>
    /\ UNCHANGED <<envVars, todo, appVars, histVars>>

\* rmx_input_get_next_chunk on the sub-stream, at most MaxChunk packets.
TakeChunk(p) ==
    /\ pollPath = p /\ NothingDue
    /\ todo = <<>>
    /\ todo' = SubSeq(cq[p], 1, TakenFrom(p))
    /\ cq' = [cq EXCEPT ![p] = RestOf(p)]
    /\ pollPath' = p + 1
    /\ UNCHANGED <<clk, nextId, sent, lastSend, flight, mem, damaged, lostOn>>
    /\ UNCHANGED <<ipoVars, appVars, chunk, histVars>>

\* The sub-stream reports an error or a signal: the call returns early and
\* the node's main loop ends.
TakeChunkFails(p) ==
    /\ pollPath = p /\ NothingDue
    /\ todo = <<>>
    /\ pollPath' = Ended
    /\ UNCHANGED <<envVars, ipoVars, todo, appVars, chunk, histVars>>

-----------------------------------------------------------------------------
(* process_completion, one packet of the completion of path pollPath - 1.  *)

SenderRestarted ==
    m_state = "Waiting" /\ m_now - m_next_packet_time > RestartThreshold

\* The packet defines a new position in the stream.
Repositions == m_state = "WaitFirstPacket" \/ SenderRestarted

\* Reference point of the comparison of sequence numbers, after a reposition.
LastProcessed(seq) ==
    IF Repositions THEN (seq - InitOffset) % SeqMod
                   ELSE m_last_processed_sequence_number

SeqDelta(seq) == (seq - LastProcessed(seq)) % SeqMod

IsLate(seq) == SeqDelta(seq) = 0 \/ SeqDelta(seq) >= MsbMask

IsRedundant(seq) ==
    /\ ~IsLate(seq)
    /\ m_ext_packet_info_arr[seq % WrapAround].is_valid
    /\ m_ext_packet_info_arr[seq % WrapAround].sequence_number = seq

\* Faulty variant: the drop counter is not restarted.
HandleSenderRestartIgnored(initialized) == initialized

\* handle_sender_restart of the application stream.
HandleSenderRestart(initialized) == initialized /\ ~SenderRestarted

\* The switch over m_state at the top of the loop body.
UpdateState(seq) ==
    /\ m_state' = "Running"
    /\ m_next_packet_time' = IF m_state = "Running" THEN m_next_packet_time ELSE m_now
    /\ m_index' = IF Repositions THEN seq % WrapAround ELSE m_index
    /\ m_last_processed_sequence_number' = LastProcessed(seq)
    /\ m_start_time' = IF SenderRestarted THEN m_now + MaxPathDiff ELSE m_start_time
    /\ m_initialized' = HandleSenderRestart(m_initialized)
    /\ fresh' = (fresh \/ Repositions)

HandleLatePacket(seq) ==
    /\ IsLate(seq)
    /\ m_statistic' = [m_statistic EXCEPT !.rx_exceed_md = @ + 1]
    /\ UNCHANGED <<m_ext_packet_info_arr, m_path_packets, held>>

HandlePacket(p, seq) ==
    /\ ~IsLate(seq) /\ ~IsRedundant(seq)
    /\ m_ext_packet_info_arr' = [m_ext_packet_info_arr EXCEPT ![seq % WrapAround] =
           [sequence_number |-> seq, is_valid |-> TRUE, timestamp |-> m_now]]
    /\ m_path_packets' = [m_path_packets EXCEPT ![seq % WrapAround] = {p}]
    /\ held' = [held EXCEPT ![seq % WrapAround] = Head(todo)]
    /\ UNCHANGED m_statistic

\* Faulty variant: the second path of a packet is forgotten.
HandleRedundantPacketForgotten(p, seq) ==
    /\ IsRedundant(seq)
    /\ UNCHANGED <<m_ext_packet_info_arr, m_path_packets, held, m_statistic>>

HandleRedundantPacket(p, seq) ==
    /\ IsRedundant(seq)
    /\ m_path_packets' = [m_path_packets EXCEPT ![seq % WrapAround] = @ \cup {p}]
    /\ UNCHANGED <<m_ext_packet_info_arr, held, m_statistic>>

ProcessPacket ==
    /\ todo # <<>>
    /\ Head(todo) # Corrupted
    /\ LET seq == SeqOf(Head(todo))
           p == pollPath - 1
       IN  /\ UpdateState(seq)
           /\ position' = IF Repositions THEN Head(todo) ELSE position
           /\ front' = IF Repositions THEN Head(todo) - 1 ELSE front
           /\ \/ HandleLatePacket(seq)
              \/ HandlePacket(p, seq)
              \/ HandleRedundantPacket(p, seq)
    /\ todo' = Tail(todo)
    /\ UNCHANGED <<envVars, m_now, pollPath, m_last_sequence_number>>
    /\ UNCHANGED <<chunk, lastOut, span, skippedIds, inSync>>

HandleCorruptedPacket ==
    /\ todo # <<>>
    /\ Head(todo) = Corrupted
    /\ m_statistic' = [m_statistic EXCEPT !.rx_corrupt_header = @ + 1]
    /\ todo' = Tail(todo)
    /\ UNCHANGED <<envVars, ipoVars, pollPath, m_path_packets>>
    /\ UNCHANGED <<m_initialized, m_last_sequence_number, chunk, histVars>>

-----------------------------------------------------------------------------
(* get_next_chunk, second part: assemble the chunk for the caller.         *)

Valid(s) == m_ext_packet_info_arr[s].is_valid
Stamp(s) == m_ext_packet_info_arr[s].timestamp
\* Faulty variants: no wait for the other paths, and a wait twice as long.
RipeAtOnce(s) == Stamp(s) < m_now
RipeTooLate(s) == Stamp(s) + 2 * MaxPathDiff < m_now

Ripe(s) == Stamp(s) + MaxPathDiff < m_now
Plus(s, k) == (s + k) % WrapAround

\* Faulty variant: the index is not wrapped at the end of the buffer.
IndexAfterUnwrapped(s, n) == s + n

\* m_index after n packets from slot s, which never pass the end.
IndexAfter(s, n) == IF s + n >= WrapAround THEN 0 ELSE s + n

\* Faulty variant: the search starts behind the current position.
FirstValidBehind ==
    Plus(m_index, Min({k \in 1..WrapAround : Valid(Plus(m_index, k))}))

\* The first valid slot at or after m_index, going round the buffer.
FirstValid ==
    Plus(m_index, Min({k \in Slots : Valid(Plus(m_index, k))}))

BeforeStart(s) == Valid(s) /\ Stamp(s) < m_start_time

\* How many packets the initial sync skips, from slot s on.
SkipCount(s) ==
    Min({k \in 0..WrapAround :
            k = WrapAround \/ ~BeforeStart(Plus(s, k))})

\* How many packets are delivered from slot s on: contiguous, not skipped
\* just before, ripe, and never past the end of the buffer.
DeliverCount(s, skipped) ==
    Min({k \in 0..(WrapAround - s) :
            \/ k = WrapAround - s
            \/ s + k \in skipped \/ ~Valid(s + k) \/ ~Ripe(s + k)})

Invalidate(slots) ==
    [s \in Slots |-> IF s \in slots
                     THEN [m_ext_packet_info_arr[s] EXCEPT !.is_valid = FALSE]
                     ELSE m_ext_packet_info_arr[s]]

\* The call returns an empty chunk and nothing else has changed.
ReturnsNothingYet ==
    /\ \/ m_state # "Running"
       \/ m_next_packet_time + MaxPathDiff >= m_now
    /\ UNCHANGED <<ipoVars, appVars, chunk, histVars>>

CanAssemble ==
    m_state = "Running" /\ m_next_packet_time + MaxPathDiff < m_now

\* Faulty variant: the search stops at the end of the buffer.
NothingFoundToTheEnd == \A s \in m_index..(WrapAround - 1) : ~Valid(s)

\* The search went once round the buffer.
NothingFound == \A s \in Slots : ~Valid(s)

BecomesWaiting ==
    /\ CanAssemble
    /\ NothingFound
    /\ m_state' = "Waiting"
    /\ UNCHANGED <<m_index, m_next_packet_time, m_start_time, m_now>>
    /\ UNCHANGED <<m_last_processed_sequence_number, m_ext_packet_info_arr>>
    /\ UNCHANGED <<appVars, chunk, histVars>>

NotRipeYet ==
    /\ CanAssemble
    /\ ~NothingFound
    /\ ~Ripe(FirstValid)
    /\ m_next_packet_time' = Stamp(FirstValid)
    /\ UNCHANGED <<m_state, m_index, m_start_time, m_now>>
    /\ UNCHANGED <<m_last_processed_sequence_number, m_ext_packet_info_arr>>
    /\ UNCHANGED <<appVars, chunk, histVars>>

\* Packets missing between two consecutively delivered sequence numbers.
DroppedBetween(previous, seq) == (seq - (previous + 1)) % SeqMod

\* complete_packet for the packets of slots first .. first + n - 1.
CompletePackets(first, n) ==
    LET slots == first..(first + n - 1)
        seq(s) == m_ext_packet_info_arr[s].sequence_number
        previous(s) == IF s = first THEN m_last_sequence_number ELSE seq(s - 1)
        dropped(s) == IF s = first /\ ~m_initialized THEN 0
                      ELSE DroppedBetween(previous(s), seq(s))
    IN  /\ m_last_processed_sequence_number' =
               IF n = 0 THEN m_last_processed_sequence_number ELSE seq(first + n - 1)
        /\ m_last_sequence_number' =
               IF n = 0 THEN m_last_sequence_number ELSE seq(first + n - 1)
        /\ m_initialized' = (m_initialized \/ n > 0)
        /\ m_statistic' = [m_statistic EXCEPT
               !.rx_count = @ + n,
               !.rx_dropped = @ + MapThenSumSet(dropped, slots),
               !.path_rx = [p \in Paths |->
                   @[p] + Cardinality({s \in slots : p \in m_path_packets[s]})],
               !.path_dropped = [p \in Paths |->
                   @[p] + Cardinality({s \in slots : p \notin m_path_packets[s]})]]

\* The completion the caller sees, with the packets really behind its slots.
SetCompletion(first, n) ==
    /\ chunk' = [i \in 1..n |->
           [slot |-> first + i - 1,
            seq  |-> m_ext_packet_info_arr[first + i - 1].sequence_number,
            id   |-> mem[first + i - 1],
            by   |-> m_path_packets[first + i - 1]]]
    /\ lastOut' = IF n = 0 THEN lastOut ELSE mem[first + n - 1]
    /\ span' = IF n = 0 THEN span
               ELSE IF fresh THEN span + mem[first + n - 1] - mem[first] + 1
               ELSE span + mem[first + n - 1] - lastOut
    /\ fresh' = (fresh /\ n = 0)

\* A copy of the packet has not been taken from its sub-stream yet.
UnderWay(id) ==
    \E p \in Paths : \/ \E i \in DOMAIN flight[p] : flight[p][i].id = id
                     \/ \E i \in DOMAIN cq[p] : cq[p][i] = id

\* What the initial sync skips, and the first slot behind it.
SkippedCount == SkipCount(FirstValid)
SkippedSlots == {Plus(FirstValid, j) : j \in 0..(SkippedCount - 1)}
ChunkFirst == Plus(FirstValid, SkippedCount)

\* If the sync ends on a slot that holds nothing, the call returns at once.
ChunkLength ==
    IF SkippedCount = WrapAround \/ ~Valid(ChunkFirst) THEN 0
    ELSE DeliverCount(ChunkFirst, SkippedSlots)

ChunkSlots == ChunkFirst..(ChunkFirst + ChunkLength - 1)
LastSkipped == Plus(FirstValid, SkippedCount - 1)

SkipAndDeliver ==
    /\ CanAssemble
    /\ ~NothingFound
    /\ Ripe(FirstValid)
    /\ m_next_packet_time' =
           IF SkippedCount = 0 THEN m_next_packet_time ELSE Stamp(LastSkipped)
    /\ m_index' = IndexAfter(ChunkFirst, ChunkLength)
    /\ m_ext_packet_info_arr' = Invalidate(SkippedSlots \cup ChunkSlots)
    /\ skippedIds' = skippedIds \cup {held[s] : s \in SkippedSlots}
    /\ CompletePackets(ChunkFirst, ChunkLength)
    /\ SetCompletion(ChunkFirst, ChunkLength)
    /\ front' = held[IF ChunkLength = 0 THEN LastSkipped
                     ELSE ChunkFirst + ChunkLength - 1]
    /\ inSync' =
           (/\ inSync
            /\ \A s \in SkippedSlots \cup ChunkSlots : held[s] >= position
            /\ \A s \in SkippedSlots : \A id \in position..held[s] : ~UnderWay(id))
    /\ UNCHANGED <<m_state, m_start_time, m_now, m_path_packets, position, held>>

Assemble ==
    /\ pollPath = Done
    /\ todo = <<>>
    /\ pollPath' = 0
    /\ \/ ReturnsNothingYet
       \/ BecomesWaiting
       \/ NotRipeYet
       \/ SkipAndDeliver
    /\ UNCHANGED <<envVars, todo>>

Next ==
    \/ TickSilent
    \/ TickSend
    \/ \E seq \in RestartSeqs : TickRestart(seq)
    \/ \E p \in Paths : Arrive(p) \/ SyncPath(p)
    \/ \E p \in Paths : TakeChunk(p) \/ TakeChunkFails(p)
    \/ Start
    \/ PollBegin
    \/ ProcessPacket
    \/ HandleCorruptedPacket
    \/ Assemble

Spec == Init /\ [][Next]_vars
-----------------------------------------------------------------------------
PacketInfo == [sequence_number : SeqNums, is_valid : BOOLEAN, timestamp : Nat]
Completion == Seq(Nat \cup {Corrupted})
ChunkEntry == [slot : Slots, seq : SeqNums, id : Int, by : SUBSET Paths]
EnvTypeOK ==
    /\ clk \in Nat /\ nextId \in Nat /\ sent \in Nat /\ lastSend \in Nat
    /\ flight \in [Paths -> Seq([id : Nat \cup {Corrupted}, due : Nat])]
    /\ cq \in [Paths -> Completion]
    /\ mem \in [Slots -> Int]
    /\ damaged \in Nat /\ lostOn \subseteq Paths \X Nat

StreamTypeOK ==
    /\ m_state \in States
    /\ m_index \in Slots
    /\ m_next_packet_time \in Nat /\ m_start_time \in Nat /\ m_now \in Nat
    /\ m_last_processed_sequence_number \in SeqNums
    /\ m_ext_packet_info_arr \in [Slots -> PacketInfo]
    /\ pollPath \in 0..Ended
    /\ todo \in Completion
    /\ todo # <<>> => pollPath \in 2..Done

AppTypeOK ==
    /\ m_path_packets \in [Slots -> SUBSET Paths]
    /\ m_initialized \in BOOLEAN /\ m_last_sequence_number \in SeqNums
    /\ chunk \in Seq(ChunkEntry)
    /\ lastOut \in Int /\ span \in Int /\ fresh \in BOOLEAN
    /\ skippedIds \subseteq Int
    /\ held \in [Slots -> Int]
    /\ position \in Int /\ front \in Int /\ inSync \in BOOLEAN

\* Every variable has the type its declaration in the code gives it; in
\* particular m_index always designates a slot of the buffer, and a completion
\* is processed for the sub-stream polled last.  (m_statistic is left to
\* LossAccounting, which says more about it.)
TypeOK == EnvTypeOK /\ StreamTypeOK /\ AppTypeOK

\* Outside State::Running no slot holds an undelivered packet: a sender
\* restart (process_completion) repositions m_index over an empty buffer and
\* cannot strand packets of the previous sequence.
EmptyUnlessRunning ==
    m_state # "Running" => \A s \in Slots : ~Valid(s)

\* A slot marked valid holds a packet whose sequence number selects that slot,
\* stamped no later than the current poll and seen on at least one path
\* (m_ext_packet_info_arr and m_path_packets agree).
SlotsConsistent ==
    \A s \in Slots : Valid(s) =>
        /\ m_ext_packet_info_arr[s].sequence_number % WrapAround = s
        /\ Stamp(s) <= m_now
        /\ m_path_packets[s] # {}

Delivers == chunk' # <<>> /\ chunk' # chunk
IdsOf(c) == {c[i].id : i \in DOMAIN c}

ChunkInOrder ==
    /\ \A i, j \in DOMAIN chunk' : i < j => chunk'[i].id < chunk'[j].id
    /\ chunk'[1].id > lastOut

\* get_next_chunk hands packets to the caller in the order they were sent,
\* each at most once, through losses, path skew, wrap of the sequence number
\* and sender restarts, as long as the initial sync skipped no packet whose
\* other copy was still under way, and no packet older than the first one came
\* out (inSync).
InOrder == [][Delivers /\ inSync' => ChunkInOrder]_vars

\* The same without these conditions: the initial sync makes "sure that the
\* stream will be completely reconstructed" (comment on get_next_chunk).
AlwaysInOrder == [][Delivers => ChunkInOrder]_vars

\* The payload memory behind a chunk still holds the packets get_next_chunk
\* announced, until the caller polls again: the adapter does not overwrite a
\* slot before its packet was delivered and consumed.
PayloadIntact ==
    inSync => \A i \in DOMAIN chunk :
        /\ SeqOf(chunk[i].id) = chunk[i].seq
        /\ mem[chunk[i].slot] = chunk[i].id

\* With a path skew inside m_max_path_differential no packet is rejected as
\* too late (handle_late_packet).
NoneExceedMd == inSync => m_statistic.rx_exceed_md = 0

Missing(id) == id \notin IdsOf(chunk') /\ \E p \in Paths : <<p, id>> \notin lostOn

\* A packet missing between two delivered ones was lost on every path, or
\* arrived during the initial sync: the wait for the path differential is long
\* enough and the search for the end of a gap never steps over a packet that
\* did arrive.
LostIsReal ==
    [][Delivers /\ inSync' /\ ~fresh =>
         \A id \in (lastOut + 1)..chunk'[Len(chunk')].id :
            Missing(id) => id \in skippedIds']_vars

\* complete_packet charges each path with exactly the copies that path lost:
\* no copy of a delivered packet is still on its way.
AttributionExact ==
    inSync => \A i \in DOMAIN chunk :
        chunk[i].by = {p \in Paths : <<p, chunk[i].id>> \notin lostOn}

\* rx_count plus rx_dropped is the length of the part of the stream that was
\* delivered, although rx_dropped is computed modulo the sequence number
\* range and restarted by handle_sender_restart.
LossAccounting ==
    inSync => m_statistic.rx_count + m_statistic.rx_dropped = span

-----------------------------------------------------------------------------
(* What the properties above need: a differential and a buffer chosen for  *)
(* the skew and the rate.  The code takes both from its user.              *)

\* The clock between two polls of a running stream, and before the first one.
Gap == IF PollGap >= PollTicks THEN PollGap ELSE PollTicks
LongestWait == IF Gap >= MaxStart THEN Gap ELSE MaxStart

\* By how much two copies of a packet are stamped apart, but for the wait
\* until the next call.
Spread == Skew + PollTicks

\* No copy under way is older than this many packets.
Oldest == Skew + PollTicks + LongestWait + 1

\* The buffer covers a whole fraction of the sequence number range.
BufferDivides == SeqMod % WrapAround = 0

\* The time the network and the polls take, against what m_max_path_differential
\* allows and the buffer holds.  The sender does not restart.
TimingSuffices ==
    /\ RestartSeqs = {}
    /\ BufferDivides
    /\ Spread <= MaxPathDiff
    /\ Skew + Gap < MaxPathDiff
    /\ Oldest <= WrapAround
    /\ Oldest <= InitOffset

\* One completion can take all that a sub-stream holds.
CompletionsFit == \A p \in Paths : Len(cq[p]) <= MaxChunk

\* The stream has a position.
Placed == m_state \in {"Running", "Waiting"}

\* The packet m_last_processed_sequence_number stands for.
Reference == IF fresh THEN position - InitOffset ELSE lastOut

\* The oldest packet the caller may still read, or the first one it did not get.
Unread == IF chunk # <<>> THEN chunk[1].id ELSE front + 1

\* A completion takes what a sub-stream holds, the buffer holds what is sent and
\* not read, and what is sent stays within half the sequence number range of the
\* reference point: get_next_chunk keeps up with the sender although it holds
\* back every packet for m_max_path_differential.
CapacitySuffices ==
    /\ CompletionsFit
    /\ inSync /\ Placed => /\ nextId - Unread <= WrapAround
                           /\ nextId - Reference <= MsbMask

\* An instance whose constants suffice has the capacity in every state, losses
\* included: the premises of the promises about a stream in sync are met.
Provisioned == TimingSuffices /\ CapacitySuffices
=============================================================================
