# A TLA+ model of the Rivermax Dev Kit

The Rivermax Dev Kit (RDK) is a C++ library, with sample applications, on top of
NVIDIA's Rivermax streaming library. It builds *IO nodes*: each is a functor run
by its own thread, which owns a few send or receive streams and serves them in a
polling loop until a signal comes. This directory holds a model of the parts in
which that loop, the network adapter, the network and other threads interact,
the model-checking runs over it, and machine-checked proofs.

## 1. Inventory

| Component | State it keeps | Operations | What is hard |
|---|---|---|---|
| `IPOReceiveStream`, `AppIPOReceiveStream` | `m_state`, `m_index`, the record per buffer slot, times, statistics per path | `sync_paths`, `start`, `get_next_chunk`, `process_completion`, `complete_packet` | redundant paths with skew and losses, sequence number wrap, restart detection by time, memory the adapter overwrites |
| `IPMXSenderIONode`, `IPMXStreamSender`, `SharedMessageHandler` | counters of committed and finished fields, first chunks and reports; the shared count of pending reports | start, initial reports, poll reports, poll media, commit, sleep, stop | the adapter runs at its own pace, a shared pool of report chunks, full queues, failures at every call, signals |
| `MediaChunk`, `GenericChunk`, `MediaStream`, `GenericStream` | the chunk's library handle, flow rotation | get, apply layout, mark, commit, cancel, poll | mapping of library statuses; retries |
| `ReceiverIONodeBase`, `ReceiveStream` | created streams, attached flows, buffers | create, attach, start, poll, consume, detach, destroy | one step of several failing |
| `AppRTPReceiveStream` | last sequence number, totals | `process_packet_header` | drop count modulo the range when packets are reordered or duplicated |
| `IPMXStreamTimelineTracker`, `StaticRCU` | report and clock states in a ring of versions | `consume_rtcp_packet`, `notify_data_frame`, `print_updates` | two receiver threads and a printing thread without a lock |
| `MediaFramePool`, frame providers | free indices, frame queue, stop flags | get, return, add, stop | condition variables, a stop that races a wait, conservation of frames |
| `MediaSenderIONode`, `RtpVideoSendStream` | chunk and frame counters, RTP header fields | commit loop, frame refresh | retry loops, counters that wrap |
| `GenericSenderIONode` | stream index, rotation of flows | commit loop | partial failure inside nested loops |
| `LatencyIONode` and subclasses | time stamps | ping-pong, frame latency | measurement |
| report codec (`ipmx.cpp`) | none | build and parse a sender report | field widths |
| memory layout, allocators, strategies | offsets | partition | arithmetic |
| applications, CLI, settings, SDP, statistics reader, affinity, GPU | configuration | set-up | none after start |

Interactions: an IO node calls streams, streams call the library, the library
queues completions from the adapter; the IPMX sender's streams share one report
stream; the IPMX receiver's RTP and RTCP streams share the timeline tracker with
the application thread; the media sender takes frames from a provider that
another thread fills; every loop reads the flag of the signal handler.

What makes each correct: a receive stream gives packets in order, once, and
counts what is missing exactly; a sender never overruns its buffers, pairs each
field with one report, never stops by its own fault and always stops on a
signal; shared state is read consistently; frames are neither lost nor used
twice; streams that were created are destroyed.

`PROJECT.json` lists under `hazards` the places where this can go wrong.

## 2. Modules

### `IPOReceiveStream.tla`

Models `src/source/core/stream/receive/ipo_receive_stream.cpp` and the
application's subclass in `io_node/receivers/ipo_receiver_io_node.cpp`.

*State.* Variables prefixed `m_` are the members of the two classes.
`m_ext_packet_info_arr` holds per slot the sequence number, the valid flag and
the time; `m_path_packets` the paths that delivered the packet of a slot.
`pollPath` and `todo` are the place inside `get_next_chunk`: which sub-stream is
polled next and which packets of its completion are still to be processed.
`clk`, `flight`, `cq`, `mem` are the clock, the packets on each path, the
completions the adapter queued, and the buffer the adapter writes. A packet is
its position in the order of sending; the receiver sees only
`SeqOf(id) = id % SeqMod`, and `SeqMod` stands for 2^16 or 2^32.
`lastOut`, `span`, `fresh`, `skippedIds`, `position`, `held`, `front` and
`inSync` are history variables which only properties and proofs read: `position`
is where the stream was placed by its first packet or by a restart, `held` the
packet that a slot's record describes (`mem` is the one in its memory), `front`
the last packet taken out of the buffer. `inSync` says that the initial sync
skipped no packet with a copy still under way, and that nothing older than
`position` came out.

*Actions.* The receiver is one thread. One call of `get_next_chunk` is

    PollBegin  ->  for each path: TakeChunk (ProcessPacket | HandleCorruptedPacket)*  ->  Assemble

and `Assemble` is the rest of the function with its four ways out:
`ReturnsNothingYet`, `BecomesWaiting`, `NotRipeYet`, `SkipAndDeliver`. The
adapter and the clock move between these steps, where the thread can notice it
(`Observable`). `TakeChunkFails` is the early return on an error or a signal.
`SyncPath` and `Start` are `synchronous_start`. `TickSend`, `TickRestart`,
`TickSilent` and `Arrive` are the sender and the network, which loses, damages
and delays copies but keeps the order of a path.

The loops of the code are stated by what they compute: the search for the end
of a gap is `FirstValid` and `NothingFound`, the initial sync `SkipCount`, the
collection of the chunk `DeliverCount`. `SkipAndDeliver` joins them, through
`SkippedSlots` and `ChunkSlots`, the slots it invalidates and delivers.

*Left out:* header parsing (a packet is damaged or not), hardware timestamps,
the per-interval copy of the statistics, the creation of the stream and the
attachment of its flows.

### `IPMXSender.tla`

Models `src/source/io_node/senders/ipmx_sender_io_node.cpp` with the status
mapping of `core/chunk/media_chunk.cpp`.

*State.* `sender[s]` is the record of an `IPMXStreamSender`'s counters, `pc` and
`cur` the place in the worker's loop, `media[s]` and `report` the chunks the
adapter holds and the completions it queued, `clock` the field period counted
from `m_start_send_time_ns`. `why`, `ownFailure` and `prompt` are history;
`prompt` says that so far thread and adapter finished in every period what was due
in it, and that every stream with room for it had by then begun to commit the
next period's field; it is what the properties about progress assume. `timed`
holds the streams whose `m_start_send_time_ns` was set: `send_initial_reports` sets
the times one by one and stops at the first failure, which nobody looks at, so
that later streams keep the time 0. Their chunks are due at once and their
wakeup time has always passed.

*Actions.* One per library call, with what the code does with its result: the
streams are created (`CreateStream`), each announces its first field
(`SendInitialReport`), then every iteration polls one report completion
(`NoReportCompletion`, `ReportCompletion`, `ReportPollFails`), and for every
stream one media completion (`NoMediaCompletion`, `ProcessMediaCompletion`,
`MediaPollFails`) and one commit (`SkipCommit`, `CommitMediaChunk`,
`CommitQueueFull`, `CommitFails`); it sleeps if all streams can (`Wake`), and
the streams are destroyed at the end (`DestroyRtcp`, `StopMediaStream`,
`StopFails`). `Faults` says which calls may fail in a run; `"report_mark"` and
`"report_commit"` are the two calls of `commit_message` whose results the code
ignores: a report then goes out untracked, or not at all, and is counted as
pending in both cases. `SendMediaChunk`,
`SendReport`, `Tick` and `Signal` are the adapter, the clock and the user.

*Assumed of the library*, from how the code uses it: a chunk is free again once
the adapter has sent it; chunks of a stream are sent in order, the first chunk
of field k not before period k; a stream with unsent reports is busy when it is
to be destroyed, and a stream is destroyed otherwise.

*Left out:* the contents of reports, memory layout, SDP, statistics printing.

### `FramePipeline.tla`

Models `services/media/media_file_streaming_provider.cpp`, `media_frame_pool.cpp`,
the `BufferedMediaFrameProvider` of `media_frame_provider.cpp`, and as its
consumer the main loop of `io_node/senders/media_sender_io_node.cpp` with
`set_next_frame` and `fill_packet` of `services/buffer_wr/rtp_video_buffer_writer.cpp`.

*State.* `m_available_indices` and `m_frame_queue` are the queues of pool and
provider, `pool_stop`, `provider_stop`, `producer_stop` the three flags called
`m_stop`. `producer` and `sender` are the places of the two threads, `prodFrame`
and `sendFrame` their local `frame`. A `std::shared_ptr` is modelled by who holds
the frame: the two local variables, the queue and `m_current_frame`; `LetGo` is
the reset of one of them, and returns the frame if it was the last.
`payload[i]` is the frame of the file that frame `i` holds.

*Actions.* Producer: `GetFrame`, `ReadFrame` (or `EndOfFile`, `ReadFails`),
`AddFrame` (or `AddRefused`, again and again), `IterationEnds`; at the end
`ProviderStop`, `ProviderNotifies`, `PoolStop`. Note that `add_frame` copies the
pointer, so that the producer still holds a frame the sender may already be
sending. Sender: `SenderLoop`, `TakeQueued` or `TakeNothing`, `SetNextFrame` or
`NoNextFrame`, then `SendChunk` for every chunk, or `SendFails`, after which an
error ends the main loop and a call interrupted by the signal at least the frame.
A wait on the condition variable is two steps: `PredicateFalse` finds nothing,
with the mutex; `Block` waits and releases it. `stop()` takes no mutex and comes
in two steps as well, so that it can fall between them. `OwnerStops` and `Signal`
may come at any moment.

*Left out:* times, more than one stream per sender, RTP headers,
`get_frame_blocking` of the pool and `get_frame_not_blocking` of the provider,
which this pipeline does not use; construction and destruction.

### `StaticRCU.tla`, `AtomicRegister.tla`

`StaticRCU` models `services/utils/include/rdk/services/utils/static_rcu.h`. A
value is a record; assigning it (`BeginUpdate`, `StorePart`, `Publish`) and
copying what `read()` refers to (`Read`, `CopyPart`) go part by part, in any
order, and overlap freely. `InPace` is the assumption users of the class make
without saying: a reader finishes before the writer comes round to its version.
`AtomicRegister` is what the class promises: `update()` replaces the value at one
instant, `read()` gives the value of one instant, whole. `Register` is the
refinement mapping; a reader is taken to see, already at `read()`, what it will
have copied.

### `TimelineTracker.tla`

Models `apps/rmax_ipmx_receiver/ipmx_stream_timeline_tracker.cpp` for one
composite stream, and `RTCPChunkConsumer` of `rmax_ipmx_receiver.cpp`, on top of
an instance `R` of `StaticRCU` for `m_shared_report_state`. Three threads: the
RTCP receiver's (`PollReports`, `ConsumeRtcpPacket`, `UpdateReport`,
`RaiseReportFlag`), the RTP receiver's (`NotifyDataFrame`, `CopyReport`,
`UpdateClock`) and the main thread (`CheckReport`, which exchanges the flag,
`ReadReport`, which calls `read()`, and `PrintReport`; the other threads may act
between any two of them). Every step of
`StaticRCU` is a step of one of them, so `R!Spec` is refined by construction of
the actions and `AtomicRegister` through it. Reports and frame starts come from
an IPMX sender that sends the report of a field before the field; either may be
lost, a report may be too long. A report is its field's number, its RTP timestamp
wraps in the runs. `consume_chunk` takes the length of each packet from its own
info but its bytes from `packet_ptr` (`PassedOn`). A poll takes any number of
queued reports; the application asks for chunks of one packet, and larger ones
depend on the library rounding this up.

*Left out:* damage other than the length, which `fill_from_rtcp_sr_packet` does not
detect; the clock quantities computed from an accepted frame, and the second
`StaticRCU` and flag of the same make that bring them to the main thread.

### `RTPReceiverNode.tla`

Models `io_node/receivers/receiver_io_node_base.cpp` (all of `operator()` with
`wait_first_packet`), `rtp_receiver_io_node.cpp` and, as their callee,
`core/stream/receive/receive_stream.cpp` with `core/chunk/receive_chunk.cpp`.
`node` is the place of the thread: `create`, `attach`, `start`
(`wait_first_packet`), `poll` (the main loop), `detach`, `destroy`, and in the
two polling phases `at` is the stream of the for-loop, 0 before it and
`NumStreams + 1` after it. `rx[s]` is the state of `AppRTPReceiveStream`. A call
of `get_next_chunk` with the consumer that follows it is

    PollEmpty | PollFails | PollChunk ProcessPacket* ConsumeChunk

`PollChunk` takes everything the adapter queued as one chunk, `ProcessPacket` is
one turn of the loop over its packets, with `process_packet_header`;
`ConsumeChunk` is the consumer and where the thread goes then. `chunk` is local
to the thread; in between only the network and the user move. `EndRound` prints
and resets the statistics, or not. `SendPacket` and `HeldPacketArrives` are a
network that damages, duplicates and delays single packets, and loses up to a
whole range of sequence numbers at once.

*Left out:* byte counts, memory layout, printing; flows of several senders in one
stream are only modelled with header processing off, as in the IPMX receiver's
RTCP node.

### `GenericSender.tla`

Models `io_node/senders/generic_sender_io_node.cpp`, its streams
(`core/stream/send/generic_stream.cpp`, `core/chunk/generic_chunk.cpp`) and how
`apps/rmax_xstream_generic_sender` deals streams and flows to threads. The three
nested loops are `BeginRound`, `EndIteration` and the next stream in `Commit`;
`CutShort` is any way out of the loop over the streams, with the status that
remains in `rc`. Since an unsuccessful `apply_packets_layout` leaves `rc` at
success, `LayoutFails` is a way out of its own.

*Left out:* memory, contents of chunks, rate limits. The library reports a full
hardware queue after a million attempts; the attempts are not counted.

### `MC*.tla`

Instances for TLC: the shapes of path delay, and plain constants.

### `IPOReceiveStreamProofs.tla`, `FramePipelineProofs.tla`, `StaticRCUProofs.tla`, `TimelineTrackerProofs.tla`, `GenericSenderProofs.tla`, `IPMXSenderProofs.tla`, `RTPReceiverNodeProofs.tla`

Theorems, see section 4. `DivisionLemmas.tla` holds the facts about quotients and
remainders that several of them use.

Definitions whose comment begins "Faulty variant" are never used by the
specifications. They are forms a programming error would give the definition
that follows them; replacing it by one of them must make a property fail, which
shows that the property depends on the code.

## 3. Runs

| Run | Configuration | Checks |
|---|---|---|
| `ipo_skew_loss` | two paths, the second late by 1; 12 packets across the wrap of the sequence numbers, in a buffer of 7 slots, the least that rate, differential and polling gap allow; up to two lost and one damaged copy | `TypeOK`, `Provisioned`, `AttributionExact`, `LostIsReal`, `PayloadIntact` |
| `ipo_slow_poll` | one path late by 0 or 1 per packet, one loss, a tick may pass inside each call | `InOrder`, `NoneExceedMd` |
| `ipo_restart` | a sender that restarts after a silence with one of two other numberings, and up to one lost copy | `EmptyUnlessRunning`, `LossAccounting` |
| `ipo_left_over` | the instance of `ipo_skew_loss` without damage | *violates* `AlwaysInOrder` |
| `ipmx_any_pace` | two streams, no faults, any speed of thread, adapter and clock | `TypeOK`, `NeverSelfInflicted`, `FieldsInFlight`, `OneReportPerField`, `SleepDelaysNoReport`, `ReportChunksSuffice`, `AllFieldsSent` |
| `ipmx_stop` | every call may fail at every place, and a signal may come | `PendingCoversReports`, `StopEndsAtFailure`, `StopsOnSignal` |
| `frame_flow` | three frames, a file of three played once or in a loop, frames that fill a round of chunks or exceed it, the queue limited to one frame or not; errors, stop and signal | `TypeOK`, `FrameConservation`, `InFileOrder`, `AcceptedReachTheWriter`, `ProducerStops` |
| `frame_stop_doc` | the same instance | *violates* `StopReleasesWaiters` |
| `ipmx_tracker` | three fields, RTP timestamps that wrap after the second, new stream information with the second, one report lost or too long, or frame lost; three versions | `NewsNotLost`, `FramesMatched`, `ReportsAreAtomic`, `LastNewsPrinted` |
| `ipmx_tracker_doc` | two fields, nothing lost | *violates* `ReportsConsumed` |
| `rtp_receiver` | two streams and one, two or three flows; five packets over a range of three sequence numbers, joined in mid-frame; one fault of the network, which may be the loss of a whole range, one failing call, one print of the statistics, a signal at any moment | `CleanReturn`, `DropsExplained`, `EveryPacketAccounted`, `FramesInOrder`, `EndsForCause`, `StopsOnSignal` |
| `generic_sender` | any dealing of up to three streams and five flows to up to two threads; two chunks, three rounds, queues of two chunks in a hardware queue of three; two failing calls, a signal | `TypeOK`, `FlowsInRotation`, `StreamsInStep`, `EndsForCause`, `StopsOnSignal`, `EveryStreamServed` |

*Bounds.* `MaxTime`, `MaxSent`, `MaxLoss`, `MaxBad`, `MaxPause` and `MaxStart`
cut the ordering receiver's runs, `MaxFields` the IPMX sender's. They are large
enough for the interesting cases: the sequence numbers wrap (`FirstId` is just
below a multiple of `SeqMod`), the buffer index wraps, initial sync, delivery,
gaps, Waiting and restart all happen, the IPMX sender fills its memory block,
meets a full send queue, sleeps and is woken. The frame pipeline has no bound:
its states are finite, since a file played in a loop repeats. With three frames
both threads and the queue can hold one each, and the pool still runs empty.
Three fields let a report overtake its frame, a frame its report, and RTP
timestamps wrap between them; three versions with `MaxBehind` 1 is the tightest
instance that the pace allows (the code has four). In `rtp_receiver` one kind of
fault of each sort suffices for every early return; `MaxChunk` 2 lets a chunk
hold a packet pair out of order. There are more packets than sequence numbers, so
that numbers repeat, and a burst can hide a whole range from the drop count. In
`generic_sender` the flows of a stream go round more than twice, each kind of
full queue occurs, and a round is cut short twice. That a wrong definition makes
the properties fail under the same bounds was checked for each property.
`CHECK_DEADLOCK FALSE` is set where the bounds end the traffic, or the thread may
end.

*Timing assumptions of the ordering receiver.* `InOrder`, `LostIsReal` and the
invariants about chunks and statistics are promises about a stream in sync
(`inSync`). `ipo_left_over` shows that the condition is necessary. They
also need what the code takes from its user without a check: a differential and a
buffer chosen for the skew and the rate. The last section of the module states
that. `TimingSuffices` is about the constants: two copies of a packet are
stamped apart by at most `m_max_path_differential`, a poll comes often enough to
see them within it, and no copy is under way for longer than the buffer and the
initial quarter of the sequence range allow. `CapacitySuffices` is about the
states: a completion takes all that a sub-stream holds, and the sender is never
ahead of the caller by more than the buffer, nor of the last processed number by
half the sequence range. It depends on the load and on how long losses make the
receiver wait. `Provisioned` joins the two, and `ipo_skew_loss` checks it: in the
smallest buffer for its rate, with losses and damages, the assumptions hold in
every state. With the wait doubled (`RipeTooLate`) they do not.

*Fairness.* Every specification with liveness assumes weak fairness of each
thread: it runs at a time-critical priority on its own core, and none of its
steps waits for another thread except through a mutex that is held for single
steps. In addition the senders assume it of what the adapter sends. The
IPMX sender assumes strong fairness of the clock: in the model a tick is not
possible at every moment of a thread that sleeps, wakes and sleeps again, but
real time goes on all the same. Nothing is assumed of faults, signals, spurious wake-ups or
`stop()`. The receivers assume nothing of the network. In `generic_sender` the
loops that retry do not look at the signal: `StopsOnSignal` rests on the fairness
of the adapter.

*What the violations show.*

- `ipo_left_over`: the first packet sets `m_index` to its slot, but takes copies
  of older packets that arrive after it as valid, into slots behind `m_index`,
  which the initial sync does not visit. Such a packet stays until `m_index`
  comes round; when the packet that should reuse its slot is lost, the old one is
  delivered long after newer ones. There is a second way to the same end, without
  a loss: the sync skips by the time of the first copy, so that with a skew near
  the differential it may skip a packet whose other copy is still under way. That
  copy is then taken as a new packet behind `m_index`. `inSync` excludes both.
- `frame_stop_doc`: `stop()` sets its flag without the mutex. A sender that has
  found the queue empty but does not wait yet misses the notification, and
  nothing notifies again: after a signal the sender thread never ends.
- `ipmx_tracker_doc`: `RTCPChunkConsumer` parses every packet of a chunk from the
  bytes of the first one. The application asks for chunks of one packet
  (`rmax_ipmx_receiver.cpp:191`, `310`), so that it takes a library that rounds this
  up for the error to show.

Differences that no run is spent on:

- The comment on `get_next_chunk` (`ipo_receive_stream.cpp:366`) measures the
  interval before a restart from the entry into `State::Waiting`; the code, and
  the model with it, measures from `m_next_packet_time`, which is earlier.
- `stop_rivermax_streams` (`ipmx_sender_io_node.cpp:764`) returns at the first
  stream that does not stop, which after a signal is the normal outcome of an
  interrupted cancel. `StopEndsAtFailure` says what stays.
- `RTPReceiverIONode::consume_chunk` and `IPOReceiverIONode::consume_chunk`
  declare a `consumed_packets` of their own: the statistics count every packet as
  unconsumed. `AfterConsume` models it.
- A consumer's failure ends the receiver's main loop only if its stream is the
  last one (`EndsForCause` of `RTPReceiverNode`), a failed call the generic
  sender's only in the last chunk of a round (`EndsForCause` of `GenericSender`).

## 4. Proofs

`IPOReceiveStreamProofs` has two parts. The first proves, for every number of
paths, buffer size, sequence range, delay and bound that satisfy
`ReceiverAssumption` and `EnvironmentAssumption`, and without any assumption about
time:

- `TypeCorrect`: `Spec => []TypeOK`. The substance is that `m_index`, the search
  and the slots of a chunk never leave the buffer: the lemmas `PlusReaches`
  (going round from a slot reaches every slot), `FirstValidProperty` (the search
  ends at a valid slot if there is one), `SkipCountType`, `DeliverCountType` and
  `ChunkPosition` (a chunk lies inside the buffer) carry it. They rest on
  `MinIsSmallest`, from the well-foundedness of the naturals.
- `NothingStranded`: `Spec => []EmptyUnlessRunning`. `StateChanges` shows that
  only an empty buffer lets the stream leave Running.
- `SlotsAgree`: `Spec => []SlotsConsistent`. It is inductive relative to the
  types: `OtherStepsKeepSlots` separates the two actions that touch slots from
  all others.

The inductive invariant is `IInv == TypeOK /\ EmptyUnlessRunning /\
SlotsConsistent`: the consistency of slots needs the types of the records that
are invalidated and of the clock, and `EmptyUnlessRunning` those of the slots.

The second part proves what the caller relies on: `PacketsInOrder` (`InOrder`),
`GapsAreLosses` (`LostIsReal`), `PathsAreCharged` (`AttributionExact`),
`PayloadStays` (`PayloadIntact`), `NoneComesTooLate` (`NoneExceedMd`) and
`LossesAreCounted` (`LossAccounting`), each in the form

    ASSUME TimingSuffices  PROVE  Spec /\ []CapacitySuffices => ...

The hypotheses are those of section 3. `TimingSuffices` excludes
a restart of the sender: the invariant compares every packet with reference
points of one numbering. `LossAccounting` across restarts stays with the run
`ipo_restart`. Its part `BufferDivides` says that slots follow each other across
the wrap of the sequence numbers; the application's default of 262144 slots
divides 2^32, and with 16-bit numbers `get_sequence_number_wrap_around` cuts it to
2^16. With a size that is no such fraction, the slot after a wrap is not the one
`m_index` moves to, and the theorems do not apply.

The inductive invariant `StreamInv` (`StreamInvariant`) is built in layers.

- `NetInv`: what is under way. The age of a packet says by when its copies are
  processed (`AgeOK`, `ClearedBy`), each path keeps its order and delays by at most
  `Skew` (`NetworkOK`), and the memory holds what was not processed yet (`MemOK`).
- `RecordsOK`: the record of a slot belongs to the packet `held` names, and every
  copy of that packet and of those before it is processed `Spread` after its stamp.
- For a stream in sync: `PlaceOK` (`m_index` is the slot behind `front`, and the
  sequence numbers the code keeps are those of known packets), `Gone` (nothing up
  to `front` is under way), `LeftOver` (what else the buffer holds is older than
  the stream), `MemProper`, `GapOK`, `StatOK`, `ChunkOK`, and `Exact`, the heart
  of it: a copy between `front` and the sender was lost, is under way, or is
  recorded in its slot; or its slot is blocked by a left-over with the same
  sequence number; or nothing was delivered yet and the initial sync covers it.

`Exact` is needed because the code never looks at a packet's copies again once its
slot is ripe: that the slot's record is complete by then is a fact about all that
happened since it was stamped. Three kinds of steps preserve the invariant.
`Quiet` steps neither process a packet nor deliver; `Process` is one packet
through `process_completion`, where the code's comparison of sequence numbers
modulo their range is shown to be the comparison of ids; `Deliver` is
`SkipAndDeliver`, where the walk over the slots from `m_index` is shown to be a
walk over consecutive ids (`WalkSlots`, `WalkHeld`), over the end of the buffer and
of the sequence range. `ChunkFollows` and `MissingIsAccounted` are then the two
action properties.

`FramePipelineProofs` proves for every pool, file, frame size and queue limit
that satisfy `PipelineAssumption`:

- `PipelineTypeCorrect`: `Spec => []TypeOK`, with the limit of the queue.
- `FramesConserved`: `Spec => []FrameConservation`. The inductive invariant adds
  `Handover` (when the producer holds its frame alone, and that neither thread
  overwrites a pointer it still holds) and `RoundCounter` (the sender's inner
  loop counter stays below its bound). `PushKeepsInjective` and
  `PopKeepsInjective` say what happens to a queue without repetition, and
  `LetGoKeepsFrames` treats at once the four places where a pointer is reset.
- `SentInFileOrder`: `Spec => InFileOrder`. The frames between file and wire
  stand in a line, and `InLine` says that each follows the one before it: the
  writer's follows what was sent, the sender's and the queue's follow that, what
  the producer reads follows the queue. The parts behind the writer hold only
  until a signal or a stop makes a thread drop its frame; after that no new frame
  reaches the writer out of order, because nothing more is given to it or added.
  That reading disturbs nothing in line is where conservation of frames enters.

`StaticRCUProofs` proves for any number of versions, readers and parts:

- `ReadsAtomic`: under `RCUConstants`, `Spec => ReadsAreAtomic`, the refinement of
  `AtomicRegister`. The inductive invariant says that a version somebody copies
  is at most `behind` versions old, hence not the one being written, and that
  what was copied of it is what it holds.

`TimelineTrackerProofs` carries that result to the class's user:

- `TrackerReadsAtomic`: `Spec => ReportsAreAtomic` of `TimelineTracker`, for any
  number of fields, losses and versions that satisfy `TrackerAssumption`.
  `StepOfRCU` shows that every step of the three threads is a step of `StaticRCU`
  or leaves its variables alone; `ReadsAtomic` is cited through an instance of
  `StaticRCUProofs`. The invariant it needs, `TrackerInv`, counts reports along
  their way (`ReceivedWereSent`), so that what is stored is a report state.
- `NoNewsAreLost`: `Spec => []NewsNotLost`. The refinement says that reads are
  atomic; this says what that is good for, and needs to know what each step does to
  the value stored and to what each reader saw last. `StaticRCUProofs` states that
  as one lemma per step of the register (`PublishUpdates`, `ReadReads`,
  `CopyPartHidden`, ...), which its own refinement proof uses too. `NewsInv` then
  follows the news: while the flag is down and no thread is on the way to raise it,
  what the main thread printed, is printing or is about to read (`Known`) is as new
  as what the RTCP thread holds.
- `FramesMeetReports`: `Spec => FramesMatched`. What the RTP thread copied is
  `Whole`, so a valid state carries the report of a field; `BeforeIsEarlier` then
  shows that the code's wrap-around comparison orders the timestamps of any two
  fields as the fields themselves. It holds because `RtpMod`, 2^32 in the code, is
  even, and because the fields span less than half the range of timestamps, which
  `TrackerAssumption` demands: farther apart no comparison of timestamps can tell
  earlier from later.

`GenericSenderProofs` proves for every number of threads, streams, flows, chunks
and failures that satisfy `SenderAssumption`:

- `SenderTypeCorrect`: `Spec => []TypeOK`. Since the rotation divides by the
  number of a stream's flows, the substance is `FlowsPositive`: after two
  roundings every stream has a flow. It rests on `SharePositive` and
  `ShareMonotone`, about the cardinality of shares.
- `FlowsRotate`: `Spec => []FlowsInRotation`. The property divides; the invariant
  `Rotation` names the quotient instead, and `QuotientOf` links the two.
- `KeepStep`: `Spec => []StreamsInStep`, from `InStep`, which tracks the stream
  the loop has reached in the current iteration.
- `EndsOnlyForCause`: `Spec => []EndsForCause`, from `Cause`, which says what a
  status may be at each place. `CutShortStep` treats every way out of the inner
  loop at once.

`IPMXSenderProofs` proves every safety property of `IPMXSender`, for every number
of streams, fields, chunks, queue slots and any set of faults that satisfies
the assumptions of that module:

- `SenderTypes`: `Spec => []TypeOK`.
- `NodeNeverStopsItself`: `NeverSelfInflicted` and `ReportChunksSuffice`, that is,
  which errors of its own can end the node: none but an exhausted pool of report
  chunks, and that only when a thread or adapter fell behind the clock or a stream
  was left without start time. A slow adapter does exhaust the pool.
- `FieldsAccountedFor`, `SleepIsHarmless`: `FieldsInFlight`,
  `SleepDelaysNoReport`. Both, and `NeverSelfInflicted`, follow from `Alignment`. The
  chunks of a stream are numbered in the order of their commits; what the adapter
  still has and what it has completed are then the tokens of consecutive numbers,
  from the last polled to the last committed. `AlignedCommit`, `AlignedSend` and
  `AlignedFinish` keep that under the three things that can happen to a chunk.
  From it the token at the front is the one `process_media_completion` expects,
  and a stream with a free frame buffer has a free chunk (`RoomHasChunk`).
- `PendingCountIsRight`: `PendingCoversReports`, from the cardinality of the
  reports every stream waits for (`PendingStep`); of the reports with the adapter
  only the tracked ones are counted (`InBothSteps`).
- `StopLeavesTheRest`: `StopEndsAtFailure`, from `Life`, which says what is
  created at each place of the thread.
- `ReportChunksAreEnough`: `ReportChunksSuffice`. `Promptness` says how far a
  run has got in each period in which adapter and thread keep pace and the streams
  have, or still get, their start times (`Punctual`), `ReportOfEach` that a full pool then holds
  one report of each stream, the current one's too, against `OneReportPerField`.
- `EachFieldAnnounced`: `OneReportPerField`, when `Faults` has no failure of a
  report (`ReportsDoNotFail`): with them the code ignores the failure.

The inductive invariant `IInv` joins these with `NothingYet`, `DonePast` and
`WakeupInTime`, which say that no media chunk is committed before the loop, that
nothing of a stream with a start time is sent before its period, and that the
thread is not asleep after what it waits for.

`RTPReceiverNodeProofs` proves every safety property of `RTPReceiverNode`, for
every number of streams and flows, length of frames and chunks, and any losses,
damages, duplicates, delays and failures that satisfy `NodeAssumption`. Its
invariants join into three strengthenings:

- `TypesCorrect`: `Spec => []TypeOK`; the cursor never leaves the streams.
- `DropsAreExplained`, `PacketsAreAccounted`, `FramesAreInOrder`:
  `DropsExplained`, `EveryPacketAccounted`, `FramesInOrder`. One invariant per
  stream, `MembersOK`, carries all three. It relates the
  members of `AppRTPReceiveStream` to what it saw: `DropsOK`, `FramesOK`, and
  `AccountOK`, with one lemma per thing that happens to the members
  (`DropsPacket`, `FramesPacket`, `AccountPoll`, `AccountPacket`,
  `AccountConsumed`, `ReportKeeps`). `DropsOK` names the number of whole
  ranges that the property's remainder hides. It is zero
  while packets come in order with fewer than a whole range missing before each
  (`seen[s].close`); a loss of a whole range at once looks to a receiver like none.
  `MaxSent` may be any number, so that nothing bounds the traffic or how often
  the numbers wrap. The arithmetic is in
  `MultipleVanishes`, `SequenceDistance` and `QuotientOrder` of `DivisionLemmas`.
- `ThreadEndsForCause`: `EndsForCause`, from `EndsInv`, which says what `rc` may be
  at each place of the two polling loops.
- `ReturnsClean`: `CleanReturn`, from `SetUpInv`, which says which streams exist
  and, with `Placed(F)`, that exactly the flows `F` are attached, each
  to the stream that the partition gives it. `FlowHasStream` shows that the
  partition with its remainder gives every flow to exactly one stream.

Only model-checked: that an instance has the capacity it needs in every state
(`Provisioned`; it is a property of the load, and the theorems assume it),
`LossAccounting` across restarts of the sender, and all liveness, the
tracker's `LastNewsPrinted` included: fairness and ENABLED are outside what the
proof system does.

## 5. Not modelled

- The report codec, memory layout, media settings tables, buffer writers' header
  arithmetic: sequential computations without state between calls, covered only
  where a module needs their result.
- The latency nodes: what they measure is time itself.
- Options, settings, SDP, affinity, GPU, clocks and statistics printing, which run
  once or only format; vendored code (`services/legacy_util`: CLI11, GL and CUDA
  headers), which is most of the repository's lines.
- `MediaFileFrameProvider` and `NullFrameProvider`: no thread of their own.
- Construction, attachment and destruction of `IPOReceiveStream`'s sub-streams.

Worth doing next: a bound on the load from which `CapacitySuffices` follows; an
ordered lossy channel that `IPOReceiveStream` implements; several streams in
`FramePipeline`.
