---------------------------- MODULE FramePipeline ----------------------------
(***************************************************************************)
(* Frames of a media file on their way to the wire.                        *)
(*                                                                         *)
(* The producer thread (MediaFileStreamingProvider) takes a free frame     *)
(* from a MediaFramePool, reads the file into it and adds it to the queue  *)
(* of a BufferedMediaFrameProvider.  The sender thread (MediaSenderIONode) *)
(* takes it from the queue, waiting on a condition variable, and its       *)
(* RTPVideoBufferWriter copies it chunk by chunk into the send buffer.     *)
(*                                                                         *)
(* A frame is a std::shared_ptr: its index goes back to the pool when the  *)
(* last of its holders lets it go.  The holders are the producer's local   *)
(* variable, the queue, the sender's local variable and the writer.        *)
(***************************************************************************)
EXTENDS Integers, Sequences, Functions

CONSTANTS
    NumFrames,      \* m_frame_count of the pool
    FileFrames,     \* frames in the file, a partial last one included
    FrameChunks,    \* possible sizes of a frame, in chunks of the send buffer
    ChunksInFrame,  \* chunks_in_frame_field: chunks the sender commits per round
    QueueSizes      \* possible values of m_max_queue_size, 0 for no limit

ASSUME PipelineAssumption ==
    /\ NumFrames \in Nat \ {0}
    /\ FileFrames \in Nat \ {0}
    /\ FrameChunks \subseteq Nat \ {0} /\ FrameChunks # {}
    /\ ChunksInFrame \in Nat \ {0}
    /\ QueueSizes \subseteq Nat /\ QueueSizes # {}

Frames == 0..(NumFrames - 1)
NoFrame == -1                  \* nullptr
NoPayload == -1                \* a frame that was never filled

VARIABLES
    m_loop_frames, m_max_queue_size, frameChunks,  \* settings, fixed at construction
    m_available_indices,       \* the pool's queue of free frames
    pool_stop,                 \* MediaFramePool::m_stop
    m_frame_queue,             \* the frames the sender has not taken yet
    provider_stop,             \* BufferedMediaFrameProvider::m_stop
    producer_stop,             \* MediaFileStreamingProvider::m_stop
    received_signal,           \* SignalHandler::get_received_signal() >= 0
    payload,                   \* per frame: the frame of the file it holds
    filePos,                   \* position of m_input_file, in frames
    producer, prodFrame,       \* the producer thread: its place, its "frame"
    sender, sendFrame,         \* the sender thread: its place, its "frame"
    m_current_frame, m_data_left_in_frame,         \* the buffer writer
    chunk_in_frame_counter,
    lastSent                   \* history: the payload last copied by the writer

settings == <<m_loop_frames, m_max_queue_size, frameChunks>>
flags == <<pool_stop, provider_stop, producer_stop, received_signal>>
file == <<payload, filePos>>
writer == <<m_current_frame, m_data_left_in_frame, chunk_in_frame_counter, lastSent>>
vars == <<settings, m_available_indices, flags, m_frame_queue, file, producer,
          prodFrame, sender, sendFrame, writer>>

ProducerPlaces == {"get", "read", "add", "added", "close", "notify", "pool", "done"}
SenderPlaces == {"loop", "frame", "evaluated", "blocked", "got", "send", "done"}

Init ==
    /\ m_loop_frames \in BOOLEAN
    /\ m_max_queue_size \in QueueSizes
    /\ frameChunks \in FrameChunks
    /\ m_available_indices = [k \in 1..NumFrames |-> k - 1]
    /\ m_frame_queue = <<>>
    /\ pool_stop = FALSE /\ provider_stop = FALSE
    /\ producer_stop = FALSE /\ received_signal = FALSE
    /\ payload = [i \in Frames |-> NoPayload]
    /\ filePos = 0
    /\ producer = "get" /\ prodFrame = NoFrame
    /\ sender = "loop" /\ sendFrame = NoFrame
    /\ m_current_frame = NoFrame /\ m_data_left_in_frame = 0
    /\ chunk_in_frame_counter = 0
    /\ lastSent = NoPayload

-----------------------------------------------------------------------------
(* The frame pool and the lifetime of a frame                              *)

\* Faulty variant: the first holder that lets go returns the frame.
LetGoAtOnce(i, holders) ==
    m_available_indices' = IF i = NoFrame \/ pool_stop
                             THEN m_available_indices
                             ELSE Append(m_available_indices, i)

\* A holder's shared_ptr to frame i is reset.  Unless another holder is left,
\* the deleter calls return_frame_to_pool, which a stopped pool ignores.
LetGo(i, holders) ==
    m_available_indices' = IF i = NoFrame \/ i \in holders \/ pool_stop
                             THEN m_available_indices
                             ELSE Append(m_available_indices, i)

Queued == Range(m_frame_queue)

\* MediaFramePool::get_frame finds a frame.
FrameFree == m_available_indices # <<>> /\ ~pool_stop

-----------------------------------------------------------------------------
(* The condition variable of BufferedMediaFrameProvider                    *)

\* Faulty variant: a waiting thread is not notified.
NotifyNone(place) == place

\* m_cv.notify_one or notify_all: the only thread that may wait is the sender.
\* A thread that has evaluated its predicate but does not wait yet is not
\* reached.
Notify(place) == IF place = "blocked" THEN "frame" ELSE place

\* The sender holds m_mutex from the evaluation of the predicate until it waits;
\* every other critical section is a single step.
MutexFree == sender # "evaluated"

\* Faulty variant: off by one.
QueueFullLate == m_max_queue_size > 0 /\ Len(m_frame_queue) > m_max_queue_size

\* add_frame refuses with frame_send_queue_full.
QueueFull == m_max_queue_size > 0 /\ Len(m_frame_queue) >= m_max_queue_size

-----------------------------------------------------------------------------
(* The producer thread: MediaFileStreamingProvider::operator()             *)

\* Faulty variant: only a signal ends the thread.
StopOnlyBySignal == received_signal

\* The condition both loops of the producer test.
StopRequested == producer_stop \/ received_signal

\* The outer loop ends.
ProducerLoopEnds ==
    /\ producer = "get" /\ StopRequested
    /\ producer' = "close"
    /\ UNCHANGED <<settings, m_available_indices, flags, m_frame_queue, file,
                   prodFrame, sender, sendFrame, writer>>

\* get_frame succeeds; without a free frame the thread sleeps and tries again.
GetFrame ==
    /\ producer = "get" /\ ~StopRequested /\ FrameFree
    /\ prodFrame' = Head(m_available_indices)
    /\ m_available_indices' = Tail(m_available_indices)
    /\ producer' = "read"
    /\ UNCHANGED <<settings, flags, m_frame_queue, file, sender, sendFrame, writer>>

\* The next frame of the file is copied into the frame.
ReadFrame ==
    /\ producer = "read" /\ filePos < FileFrames
    /\ payload' = [payload EXCEPT ![prodFrame] = filePos]
    /\ filePos' = filePos + 1
    /\ producer' = "add"
    /\ UNCHANGED <<settings, m_available_indices, flags, m_frame_queue, prodFrame,
                   sender, sendFrame, writer>>

\* The producer's frame goes out of scope.
ProducerLetsGo ==
    /\ LetGo(prodFrame, Queued \cup {sendFrame, m_current_frame})
    /\ prodFrame' = NoFrame

\* The end of the file: rewind and start over, or leave the loop.
EndOfFile ==
    /\ producer = "read" /\ filePos = FileFrames
    /\ ProducerLetsGo
    /\ filePos' = IF m_loop_frames THEN 0 ELSE filePos
    /\ producer' = IF m_loop_frames THEN "get" ELSE "close"
    /\ UNCHANGED <<settings, flags, m_frame_queue, payload, sender, sendFrame, writer>>

\* The file cannot be read.
ReadFails ==
    /\ producer = "read" /\ filePos < FileFrames
    /\ ProducerLetsGo
    /\ producer' = "close"
    /\ UNCHANGED <<settings, flags, m_frame_queue, file, sender, sendFrame, writer>>

\* add_frame takes a copy of the producer's pointer into the queue.
AddFrame ==
    /\ producer = "add" /\ ~StopRequested /\ MutexFree /\ ~QueueFull
    /\ m_frame_queue' = Append(m_frame_queue, prodFrame)
    /\ sender' = Notify(sender)
    /\ producer' = "added"
    /\ UNCHANGED <<settings, m_available_indices, flags, file, prodFrame,
                   sendFrame, writer>>

\* Faulty variant: a frame the queue does not take is given up.
AddRefusedGivesUp ==
    /\ producer = "add" /\ ~StopRequested /\ MutexFree /\ QueueFull
    /\ producer' = "added"
    /\ UNCHANGED <<settings, m_available_indices, flags, m_frame_queue, file,
                   prodFrame, sender, sendFrame, writer>>

\* The queue is full: sleep, then try again with the same frame.
AddRefused ==
    /\ producer = "add" /\ ~StopRequested /\ MutexFree /\ QueueFull
    /\ UNCHANGED vars

\* The iteration ends, with the frame added or given up because of a stop.
IterationEnds ==
    /\ \/ producer = "added"
       \/ producer = "add" /\ StopRequested
    /\ ProducerLetsGo
    /\ producer' = IF received_signal THEN "close" ELSE "get"
    /\ UNCHANGED <<settings, flags, m_frame_queue, file, sender, sendFrame, writer>>

\* BufferedMediaFrameProvider::stop sets the flag, without the mutex ...
ProviderStop ==
    /\ producer = "close"
    /\ provider_stop' = TRUE
    /\ producer' = "notify"
    /\ UNCHANGED <<settings, m_available_indices, pool_stop, producer_stop,
                   received_signal, m_frame_queue, file, prodFrame, sender,
                   sendFrame, writer>>

\* ... and then notifies.
ProviderNotifies ==
    /\ producer = "notify"
    /\ sender' = Notify(sender)
    /\ producer' = "pool"
    /\ UNCHANGED <<settings, m_available_indices, flags, m_frame_queue, file,
                   prodFrame, sendFrame, writer>>

\* MediaFramePool::stop, the thread's last step.
PoolStop ==
    /\ producer = "pool"
    /\ pool_stop' = TRUE
    /\ producer' = "done"
    /\ UNCHANGED <<settings, m_available_indices, provider_stop, producer_stop,
                   received_signal, m_frame_queue, file, prodFrame, sender,
                   sendFrame, writer>>

ProducerStep ==
    \/ ProducerLoopEnds \/ GetFrame \/ ReadFrame \/ EndOfFile \/ ReadFails
    \/ AddFrame \/ AddRefused \/ IterationEnds
    \/ ProviderStop \/ ProviderNotifies \/ PoolStop

-----------------------------------------------------------------------------
(* The sender thread: MediaSenderIONode::operator() for one stream         *)

\* The head of the main loop and the wait for the time of the next frame.
SenderLoop ==
    /\ sender = "loop"
    /\ sender' = IF received_signal THEN "done" ELSE "frame"
    /\ chunk_in_frame_counter' = 0
    /\ UNCHANGED <<settings, m_available_indices, flags, m_frame_queue, file,
                   producer, prodFrame, sendFrame, m_current_frame,
                   m_data_left_in_frame, lastSent>>

\* get_frame_blocking: a frame is there.
TakeQueued ==
    /\ sender = "frame" /\ m_frame_queue # <<>>
    /\ sendFrame' = Head(m_frame_queue)
    /\ m_frame_queue' = Tail(m_frame_queue)
    /\ sender' = "got"
    /\ UNCHANGED <<settings, m_available_indices, flags, file, producer, prodFrame,
                   writer>>

\* get_frame_blocking: the provider has stopped and the queue is drained.
TakeNothing ==
    /\ sender = "frame" /\ m_frame_queue = <<>> /\ provider_stop
    /\ sendFrame' = NoFrame
    /\ sender' = "got"
    /\ UNCHANGED <<settings, m_available_indices, flags, m_frame_queue, file,
                   producer, prodFrame, writer>>

\* The predicate of the wait is false: the thread will wait, still with the mutex ...
PredicateFalse ==
    /\ sender = "frame" /\ m_frame_queue = <<>> /\ ~provider_stop
    /\ sender' = "evaluated"
    /\ UNCHANGED <<settings, m_available_indices, flags, m_frame_queue, file,
                   producer, prodFrame, sendFrame, writer>>

\* ... and now waits, which releases the mutex.
Block ==
    /\ sender = "evaluated"
    /\ sender' = "blocked"
    /\ UNCHANGED <<settings, m_available_indices, flags, m_frame_queue, file,
                   producer, prodFrame, sendFrame, writer>>

\* A condition variable may wake its waiter for no reason.
SpuriousWakeup ==
    /\ sender = "blocked"
    /\ sender' = "frame"
    /\ UNCHANGED <<settings, m_available_indices, flags, m_frame_queue, file,
                   producer, prodFrame, sendFrame, writer>>

\* process_frame gives no frame to the writer: there is none, or a signal came
\* and the frame is released.
NoNextFrame ==
    /\ sender = "got" /\ (received_signal \/ sendFrame = NoFrame)
    /\ LetGo(sendFrame, Queued \cup {prodFrame, m_current_frame})
    /\ sendFrame' = NoFrame
    /\ sender' = "send"
    /\ UNCHANGED <<settings, flags, m_frame_queue, file, producer, prodFrame, writer>>

\* set_next_frame: the writer lets go what it had not sent of the frame before.
SetNextFrame ==
    /\ sender = "got" /\ ~received_signal /\ sendFrame # NoFrame
    /\ LetGo(m_current_frame, Queued \cup {prodFrame, sendFrame})
    /\ m_current_frame' = sendFrame
    /\ m_data_left_in_frame' = frameChunks
    /\ sendFrame' = NoFrame
    /\ sender' = "send"
    /\ UNCHANGED <<settings, flags, m_frame_queue, file, producer, prodFrame,
                   chunk_in_frame_counter, lastSent>>

\* fill_packet for the packets of a chunk: the frame is copied, and let go with
\* its last part; without a frame nothing is copied.
FillChunk ==
    IF m_current_frame = NoFrame
      THEN UNCHANGED <<m_available_indices, m_current_frame, m_data_left_in_frame, lastSent>>
      ELSE /\ lastSent' = payload[m_current_frame]
           /\ m_data_left_in_frame' = m_data_left_in_frame - 1
           /\ IF m_data_left_in_frame' = 0
                THEN /\ m_current_frame' = NoFrame
                     /\ LetGo(m_current_frame, Queued \cup {prodFrame, sendFrame})
                ELSE UNCHANGED <<m_current_frame, m_available_indices>>

\* One chunk is obtained, written and committed.
SendChunk ==
    /\ sender = "send"
    /\ FillChunk
    /\ chunk_in_frame_counter' = chunk_in_frame_counter + 1
    /\ sender' = IF chunk_in_frame_counter' < ChunksInFrame THEN "send" ELSE "loop"
    /\ UNCHANGED <<settings, flags, m_frame_queue, file, producer, prodFrame, sendFrame>>

\* The library gives no chunk, or does not take the one written: an error ends the
\* main loop, a call interrupted by the signal only the frame.
SendFails ==
    /\ sender = "send"
    /\ \/ FillChunk
       \/ UNCHANGED <<m_available_indices, m_current_frame, m_data_left_in_frame, lastSent>>
    /\ \/ sender' = "done"
       \/ received_signal /\ sender' = "loop"
    /\ UNCHANGED <<settings, flags, m_frame_queue, file, producer, prodFrame,
                   sendFrame, chunk_in_frame_counter>>

SenderStep ==
    \/ SenderLoop \/ TakeQueued \/ TakeNothing \/ PredicateFalse \/ Block
    \/ NoNextFrame \/ SetNextFrame \/ SendChunk

-----------------------------------------------------------------------------
(* The owner of the pipeline and the user                                  *)

\* MediaFileStreamingProvider::stop, from the thread that owns the provider.
OwnerStops ==
    /\ ~producer_stop
    /\ producer_stop' = TRUE
    /\ UNCHANGED <<settings, m_available_indices, pool_stop, provider_stop,
                   received_signal, m_frame_queue, file, producer, prodFrame,
                   sender, sendFrame, writer>>

Signal ==
    /\ ~received_signal
    /\ received_signal' = TRUE
    /\ UNCHANGED <<settings, m_available_indices, pool_stop, provider_stop,
                   producer_stop, m_frame_queue, file, producer, prodFrame,
                   sender, sendFrame, writer>>

Next == ProducerStep \/ SenderStep \/ SpuriousWakeup \/ SendFails \/ OwnerStops \/ Signal

Spec == Init /\ [][Next]_vars

\* Both threads are scheduled; that the library fails, that the waiter wakes for
\* no reason and that anyone stops the pipeline is not assumed.
FairSpec == Spec /\ WF_vars(ProducerStep) /\ WF_vars(SenderStep)

-----------------------------------------------------------------------------
(* Properties                                                              *)

MaybeFrame == Frames \cup {NoFrame}
Payloads == 0..(FileFrames - 1)

\* The flags, and where the threads are.
ControlTypeOK ==
    /\ m_loop_frames \in BOOLEAN
    /\ pool_stop \in BOOLEAN /\ provider_stop \in BOOLEAN
    /\ producer_stop \in BOOLEAN /\ received_signal \in BOOLEAN
    /\ producer \in ProducerPlaces /\ sender \in SenderPlaces

\* The frames and who has them; the queue respects its limit.
FramesTypeOK ==
    /\ m_available_indices \in Seq(Frames)
    /\ m_frame_queue \in Seq(Frames) /\ m_max_queue_size \in Nat
    /\ m_max_queue_size > 0 => Len(m_frame_queue) <= m_max_queue_size
    /\ prodFrame \in MaybeFrame /\ sendFrame \in MaybeFrame
    /\ m_current_frame \in MaybeFrame

\* File and writer; the writer has data left exactly while it has a frame.
DataTypeOK ==
    /\ payload \in [Frames -> Payloads \cup {NoPayload}]
    /\ filePos \in 0..FileFrames
    /\ frameChunks \in Nat \ {0}
    /\ m_data_left_in_frame \in 0..frameChunks
    /\ (m_current_frame = NoFrame) <=> (m_data_left_in_frame = 0)
    /\ chunk_in_frame_counter \in 0..ChunksInFrame
    /\ lastSent \in Payloads \cup {NoPayload}

\* Types, with the limit of the queue (add_frame) and the bookkeeping of the
\* writer (set_next_frame, fill_packet).
TypeOK == ControlTypeOK /\ FramesTypeOK /\ DataTypeOK

Held == Queued \cup {prodFrame, sendFrame, m_current_frame}

\* No frame is lost or used twice: as long as the pool is not stopped each frame
\* is either free or held; a free frame is held by nobody, and neither the pool
\* nor the queue has it twice, although the last of several holders in two
\* threads returns it (MediaFramePool::get_frame, return_frame_to_pool).
FrameConservation ==
    /\ IsInjective(m_available_indices) /\ IsInjective(m_frame_queue)
    /\ Range(m_available_indices) \cap Held = {}
    /\ ~pool_stop => Frames \subseteq Range(m_available_indices) \cup Held

\* Frame q of the file follows frame p, when it is played once or in a loop.
Follows(p, q) ==
    \/ q = p + 1
    \/ m_loop_frames /\ p = FileFrames - 1 /\ q = 0

\* When a chunk is copied, the writer begins the frame of the file that follows
\* the last one, or goes on with that.
CopiesInOrder ==
    (chunk_in_frame_counter' > chunk_in_frame_counter /\ m_current_frame # NoFrame)
      => IF m_data_left_in_frame = frameChunks
           THEN Follows(lastSent, lastSent')
           ELSE lastSent' = lastSent

\* The writer copies the frames of the file in their order, without a gap or a
\* repetition, and all parts of a frame from the same frame of the file: no frame
\* is refilled while the writer or the queue still holds it.
InFileOrder == [][CopiesInOrder]_vars

\* A frame the queue accepted is taken by the sender, however the addition
\* races with a sender about to wait, unless the sender's thread ends.
AcceptedReachTheWriter ==
    \A i \in Frames : (i \in Queued) ~> (i \notin Queued \/ sender = "done")

\* A stop request or a signal ends the producer thread, also while the queue is
\* full or the pool empty (MediaFileStreamingProvider::operator()).
ProducerStops == (producer_stop \/ received_signal) ~> (producer = "done")

\* After stop() has returned nobody waits: IFrameProvider documents that it
\* releases all waiting threads.
StopReleasesWaiters == producer \in {"pool", "done"} => sender # "blocked"
==============================================================================
