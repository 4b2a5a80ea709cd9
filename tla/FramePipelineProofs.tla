------------------------- MODULE FramePipelineProofs -------------------------
(***************************************************************************)
(* Machine-checked proofs about FramePipeline, for a pool and a file of    *)
(* any size, any frame size and any limit of the queue.                    *)
(***************************************************************************)
EXTENDS FramePipeline, SequenceTheorems, TLAPS

-----------------------------------------------------------------------------
(* Queues without repetition                                               *)

\* Pushing an element that is not in the queue.
LEMMA PushKeepsInjective ==
    ASSUME NEW S, NEW q \in Seq(S), NEW x \in S
    PROVE  /\ Append(q, x) \in Seq(S)
           /\ Range(Append(q, x)) = Range(q) \cup {x}
           /\ IsInjective(q) /\ x \notin Range(q) => IsInjective(Append(q, x))
<1> DEFINE r == Append(q, x)
<1>1. /\ r \in Seq(S) /\ Len(r) = Len(q) + 1 /\ Len(q) \in Nat
      /\ \A i \in 1..Len(q) : r[i] = q[i]
      /\ r[Len(q) + 1] = x
      /\ DOMAIN q = 1..Len(q) /\ DOMAIN r = 1..(Len(q) + 1)
  OBVIOUS
<1> HIDE DEF r
<1>2. Range(r) = Range(q) \cup {x}
  <2>1. ASSUME NEW y \in Range(r) PROVE y \in Range(q) \cup {x}
    <3>1. PICK i \in 1..(Len(q) + 1) : y = r[i]
      BY <1>1 DEF Range
    <3>2. i \in 1..Len(q) \/ i = Len(q) + 1
      BY <1>1
    <3> QED
      BY <1>1, <3>1, <3>2 DEF Range
  <2>2. ASSUME NEW y \in Range(q) PROVE y \in Range(r)
    <3>1. PICK i \in 1..Len(q) : y = q[i]
      BY <1>1 DEF Range
    <3>2. i \in 1..(Len(q) + 1)
      BY <1>1
    <3> QED
      BY <1>1, <3>1, <3>2 DEF Range
  <2>3. x \in Range(r)
    <3>1. Len(q) + 1 \in 1..(Len(q) + 1)
      BY <1>1
    <3> QED
      BY <1>1, <3>1 DEF Range
  <2> QED
    BY <2>1, <2>2, <2>3
<1>3. ASSUME IsInjective(q), x \notin Range(q) PROVE IsInjective(r)
  <2>1. \A i \in 1..Len(q) : q[i] # x
    BY <1>1, <1>3 DEF Range
  <2> QED
    BY <1>1, <1>3, <2>1 DEF IsInjective
<1> QED
  BY <1>1, <1>2, <1>3 DEF r

\* Popping the head of a queue without repetition.
LEMMA PopKeepsInjective ==
    ASSUME NEW S, NEW q \in Seq(S), q # <<>>, IsInjective(q)
    PROVE  /\ Head(q) \in S /\ Head(q) \in Range(q)
           /\ Tail(q) \in Seq(S) /\ Len(Tail(q)) = Len(q) - 1
           /\ Range(Tail(q)) = Range(q) \ {Head(q)}
           /\ IsInjective(Tail(q))
<1> DEFINE r == Tail(q)
<1>1. /\ r \in Seq(S) /\ Len(r) = Len(q) - 1 /\ Len(q) \in Nat \ {0}
      /\ \A i \in 1..(Len(q) - 1) : r[i] = q[i + 1]
      /\ Head(q) = q[1] /\ 1 \in 1..Len(q) /\ q[1] \in S
      /\ DOMAIN q = 1..Len(q) /\ DOMAIN r = 1..(Len(q) - 1)
  OBVIOUS
<1> HIDE DEF r
<1>2. ASSUME NEW y \in Range(r) PROVE y \in Range(q) /\ y # Head(q)
  <2>1. PICK i \in 1..(Len(q) - 1) : y = r[i]
    BY <1>1 DEF Range
  <2>2. i + 1 \in 1..Len(q) /\ i + 1 # 1
    BY <1>1
  <2> QED
    BY <1>1, <2>1, <2>2 DEF Range, IsInjective
<1>3. ASSUME NEW y \in Range(q), y # Head(q) PROVE y \in Range(r)
  <2>1. PICK i \in 1..Len(q) : y = q[i]
    BY <1>1 DEF Range
  <2>2. i - 1 \in 1..(Len(q) - 1) /\ (i - 1) + 1 = i
    BY <1>1, <1>3, <2>1
  <2> QED
    BY <1>1, <2>1, <2>2 DEF Range
<1>4. IsInjective(r)
  <2>1. \A i \in 1..(Len(q) - 1) : i + 1 \in 1..Len(q)
    BY <1>1
  <2> QED
    BY <1>1, <2>1 DEF IsInjective
<1>5. Head(q) \in Range(q)
  BY <1>1 DEF Range
<1> QED
  BY <1>1, <1>2, <1>3, <1>4, <1>5 DEF r

-----------------------------------------------------------------------------
(* The inductive invariant                                                 *)

\* Where the threads hold a frame: the producer from get_frame to the end of its
\* iteration, alone until add_frame; the sender between get_frame_blocking and
\* set_next_frame.
Handover ==
    /\ producer \in {"read", "add"} =>
         prodFrame \in Frames \ (Queued \cup {sendFrame, m_current_frame})
    /\ producer \notin {"read", "add", "added"} => prodFrame = NoFrame
    /\ sender # "got" => sendFrame = NoFrame

\* The counter of the sender's inner loop, which starts at the head of the outer one.
RoundCounter ==
    /\ sender = "send" => chunk_in_frame_counter < ChunksInFrame
    /\ sender \in {"frame", "evaluated", "blocked", "got"} => chunk_in_frame_counter = 0

IInv == TypeOK /\ FrameConservation /\ Handover /\ RoundCounter

NoFrameIsNone == NoFrame \notin Frames

LEMMA NoFrameOutside == NoFrameIsNone
BY PipelineAssumption DEF NoFrameIsNone, NoFrame, Frames

\* The effect of a holder letting go of a frame on the pool.
LEMMA LetGoEffect ==
    ASSUME m_available_indices \in Seq(Frames), IsInjective(m_available_indices),
           NEW i \in MaybeFrame, NEW H,
           i \notin Range(m_available_indices), LetGo(i, H)
    PROVE  /\ m_available_indices' \in Seq(Frames)
           /\ IsInjective(m_available_indices')
           /\ Range(m_available_indices') =
                Range(m_available_indices)
                  \cup (IF i = NoFrame \/ i \in H \/ pool_stop THEN {} ELSE {i})
<1>1. CASE i = NoFrame \/ i \in H \/ pool_stop
  BY <1>1 DEF LetGo
<1>2. CASE ~(i = NoFrame \/ i \in H \/ pool_stop)
  <2>1. i \in Frames
    BY <1>2 DEF MaybeFrame
  <2>2. m_available_indices' = Append(m_available_indices, i)
    BY <1>2 DEF LetGo
  <2> QED
    BY <1>2, <2>1, <2>2, PushKeepsInjective
<1> QED
  BY <1>1, <1>2

LEMMA InitIInv == Init => IInv
<1> SUFFICES ASSUME Init PROVE IInv
  OBVIOUS
<1>1. /\ m_available_indices \in Seq(Frames)
      /\ IsInjective(m_available_indices)
      /\ Range(m_available_indices) = Frames
  <2>1. m_available_indices = [k \in 1..NumFrames |-> k - 1] /\ NumFrames \in Nat
    BY PipelineAssumption DEF Init
  <2>2. \A k \in 1..NumFrames : k - 1 \in Frames
    BY <2>1 DEF Frames
  <2>3. m_available_indices \in Seq(Frames)
    BY <2>1, <2>2, IsASeq
  <2>4. ASSUME NEW f \in Frames PROVE f \in Range(m_available_indices)
    <3>1. f + 1 \in 1..NumFrames /\ (f + 1) - 1 = f
      BY <2>1 DEF Frames
    <3> QED
      BY <2>1, <3>1 DEF Range
  <2>5. Range(m_available_indices) \subseteq Frames
    BY <2>1, <2>2 DEF Range
  <2> QED
    BY <2>1, <2>3, <2>4, <2>5 DEF IsInjective
<1>2. Queued = {} /\ IsInjective(m_frame_queue)
  BY DEF Init, Queued, Range, IsInjective
<1>3. TypeOK
  <2>1. ControlTypeOK
    BY DEF Init, ControlTypeOK, ProducerPlaces, SenderPlaces
  <2>2. FramesTypeOK
    BY <1>1, PipelineAssumption DEF Init, FramesTypeOK, MaybeFrame
  <2>3. DataTypeOK
    BY PipelineAssumption DEF Init, DataTypeOK
  <2> QED
    BY <2>1, <2>2, <2>3 DEF TypeOK
<1>4. FrameConservation
  BY <1>1, <1>2, NoFrameOutside DEF Init, FrameConservation, Held, NoFrameIsNone
<1>5. Handover /\ RoundCounter
  BY DEF Init, Handover, RoundCounter
<1> QED
  BY <1>3, <1>4, <1>5 DEF IInv

\* The steps that touch neither pool nor queue nor who holds a frame.
LEMMA OtherStepsKeepFrames ==
    ASSUME FrameConservation, pool_stop' \in {pool_stop, TRUE},
           UNCHANGED <<m_available_indices, m_frame_queue, prodFrame, sendFrame,
                       m_current_frame>>
    PROVE  FrameConservation'
BY DEF FrameConservation, Held, Queued

\* get_frame moves a frame from the pool to the producer.
LEMMA GetFrameKeeps == ASSUME IInv, GetFrame PROVE IInv'
<1> USE DEF IInv
<1> DEFINE f == Head(m_available_indices)
<1>1. /\ f \in Frames /\ f \in Range(m_available_indices)
      /\ m_available_indices' \in Seq(Frames)
      /\ Range(m_available_indices') = Range(m_available_indices) \ {f}
      /\ IsInjective(m_available_indices')
  BY PopKeepsInjective DEF GetFrame, FrameFree, TypeOK, FramesTypeOK, FrameConservation
<1>2. prodFrame = NoFrame /\ prodFrame' = f
  BY DEF GetFrame, Handover
<1>3. Held' = Held \cup {f} \/ Held' = (Held \ {NoFrame}) \cup {f}
  BY <1>2 DEF GetFrame, Held, Queued, writer
<1>4. TypeOK'
  BY <1>1, <1>2 DEF GetFrame, TypeOK, ControlTypeOK, FramesTypeOK, DataTypeOK,
    settings, flags, file, writer, MaybeFrame, ProducerPlaces
<1>5. FrameConservation'
  BY <1>1, <1>3, NoFrameOutside
  DEF GetFrame, FrameConservation, flags, NoFrameIsNone
<1>6. Handover'
  BY <1>1, <1>2 DEF GetFrame, Handover, FrameConservation, Held, Queued, writer
<1>7. RoundCounter'
  BY DEF GetFrame, RoundCounter, writer
<1> QED
  BY <1>4, <1>5, <1>6, <1>7

\* A holder lets go of its frame: it returns to the pool unless it is in H, the
\* frames with another holder.
LEMMA LetGoKeepsFrames ==
    ASSUME FramesTypeOK, FrameConservation, pool_stop' = pool_stop,
           NEW i \in MaybeFrame, NEW H, LetGo(i, H),
           Held = H \cup {i}, Held' \cup {NoFrame} = H \cup {NoFrame},
           m_frame_queue' = m_frame_queue
    PROVE  m_available_indices' \in Seq(Frames) /\ FrameConservation'
<1>1. i \notin Range(m_available_indices)
  BY DEF FrameConservation
<1>2. /\ m_available_indices' \in Seq(Frames)
      /\ IsInjective(m_available_indices')
      /\ Range(m_available_indices') =
           Range(m_available_indices)
             \cup (IF i = NoFrame \/ i \in H \/ pool_stop THEN {} ELSE {i})
  BY <1>1, LetGoEffect DEF FramesTypeOK, FrameConservation
<1>3. NoFrame \notin Range(m_available_indices)
  BY NoFrameOutside DEF FramesTypeOK, Range, NoFrameIsNone
<1>4. Range(m_available_indices') \cap Held' = {}
  BY <1>2, <1>3 DEF FrameConservation
<1>5. ~pool_stop => Frames \subseteq Range(m_available_indices') \cup Held'
  BY <1>2, NoFrameOutside DEF FrameConservation, NoFrameIsNone
<1> QED
  BY <1>2, <1>4, <1>5 DEF FrameConservation

\* The producer's iteration ends, at the end of the file, after an error, after
\* the addition or because of a stop.
LEMMA ProducerLetsGoKeeps ==
    ASSUME IInv, EndOfFile \/ ReadFails \/ IterationEnds
    PROVE  IInv'
<1> USE DEF IInv
<1>1. /\ ProducerLetsGo
      /\ UNCHANGED <<settings, flags, m_frame_queue, payload, sender, sendFrame, writer>>
      /\ filePos' \in {0, filePos}
      /\ producer' \in {"get", "close"}
  BY DEF EndOfFile, ReadFails, IterationEnds, file
<1>2. m_available_indices' \in Seq(Frames) /\ FrameConservation'
  <2>1. Held = (Queued \cup {sendFrame, m_current_frame}) \cup {prodFrame}
    BY DEF Held
  <2>2. Held' = (Queued \cup {sendFrame, m_current_frame}) \cup {NoFrame}
    BY <1>1 DEF Held, Queued, ProducerLetsGo, writer
  <2> QED
    BY <1>1, <2>1, <2>2, LetGoKeepsFrames
    DEF ProducerLetsGo, TypeOK, FramesTypeOK, flags
<1>3. ControlTypeOK'
  BY <1>1 DEF TypeOK, ControlTypeOK, settings, flags, ProducerPlaces
<1>4. FramesTypeOK'
  BY <1>1, <1>2 DEF TypeOK, FramesTypeOK, ProducerLetsGo, settings, writer, MaybeFrame
<1>5. DataTypeOK'
  BY <1>1, PipelineAssumption DEF TypeOK, DataTypeOK, settings, writer
<1>6. Handover'
  BY <1>1 DEF Handover, ProducerLetsGo
<1>7. RoundCounter'
  BY <1>1 DEF RoundCounter, writer
<1> QED
  BY <1>2, <1>3, <1>4, <1>5, <1>6, <1>7 DEF TypeOK

\* add_frame: the queue becomes a second holder of the producer's frame.
LEMMA AddFrameKeeps == ASSUME IInv, AddFrame PROVE IInv'
<1> USE DEF IInv
<1>1. prodFrame \in Frames /\ prodFrame \notin Queued
  BY DEF AddFrame, Handover
<1>2. /\ m_frame_queue' \in Seq(Frames) /\ Len(m_frame_queue') = Len(m_frame_queue) + 1
      /\ Queued' = Queued \cup {prodFrame} /\ IsInjective(m_frame_queue')
  BY <1>1, PushKeepsInjective
  DEF AddFrame, TypeOK, FramesTypeOK, FrameConservation, Queued
<1>3. Held' = Held
  BY <1>2 DEF AddFrame, Held, writer
<1>4. ControlTypeOK'
  BY DEF AddFrame, TypeOK, ControlTypeOK, settings, flags, Notify, ProducerPlaces, SenderPlaces
<1>5. FramesTypeOK'
  BY <1>2 DEF AddFrame, QueueFull, TypeOK, FramesTypeOK, settings, writer
<1>6. DataTypeOK'
  BY DEF AddFrame, TypeOK, DataTypeOK, settings, file, writer
<1>7. FrameConservation'
  BY <1>2, <1>3 DEF AddFrame, FrameConservation, flags
<1>8. Handover'
  BY DEF AddFrame, Handover, Notify
<1>9. RoundCounter'
  BY DEF AddFrame, RoundCounter, Notify, writer
<1> QED
  BY <1>4, <1>5, <1>6, <1>7, <1>8, <1>9 DEF TypeOK

\* get_frame_blocking moves a frame from the queue to the sender.
LEMMA TakeQueuedKeeps == ASSUME IInv, TakeQueued PROVE IInv'
<1> USE DEF IInv
<1>1. sendFrame = NoFrame /\ sendFrame' = Head(m_frame_queue)
  BY DEF TakeQueued, Handover
<1>2. /\ sendFrame' \in Frames /\ sendFrame' \in Queued
      /\ m_frame_queue' \in Seq(Frames) /\ Len(m_frame_queue') = Len(m_frame_queue) - 1
      /\ Queued' = Queued \ {sendFrame'} /\ IsInjective(m_frame_queue')
  BY <1>1, PopKeepsInjective
  DEF TakeQueued, TypeOK, FramesTypeOK, FrameConservation, Queued
<1>3. Held' \cup {NoFrame} = Held \cup {NoFrame} /\ Held' \subseteq Held
  BY <1>1, <1>2 DEF TakeQueued, Held, writer
<1>4. ControlTypeOK'
  BY DEF TakeQueued, TypeOK, ControlTypeOK, settings, flags, SenderPlaces
<1>5. FramesTypeOK'
  BY <1>2 DEF TakeQueued, TypeOK, FramesTypeOK, settings, writer, MaybeFrame
<1>6. DataTypeOK'
  BY DEF TakeQueued, TypeOK, DataTypeOK, settings, file, writer
<1>7. FrameConservation'
  BY <1>2, <1>3, NoFrameOutside DEF TakeQueued, FrameConservation, flags, NoFrameIsNone
<1>8. Handover'
  BY <1>2 DEF TakeQueued, Handover, writer
<1>9. RoundCounter'
  BY DEF TakeQueued, RoundCounter, writer
<1> QED
  BY <1>4, <1>5, <1>6, <1>7, <1>8, <1>9 DEF TypeOK

\* process_frame passes no frame on.
LEMMA NoNextFrameKeeps == ASSUME IInv, NoNextFrame PROVE IInv'
<1> USE DEF IInv
<1>1. m_available_indices' \in Seq(Frames) /\ FrameConservation'
  <2>1. Held = (Queued \cup {prodFrame, m_current_frame}) \cup {sendFrame}
    BY DEF Held
  <2>2. Held' = (Queued \cup {prodFrame, m_current_frame}) \cup {NoFrame}
    BY DEF Held, Queued, NoNextFrame, writer
  <2> QED
    BY <2>1, <2>2, LetGoKeepsFrames DEF NoNextFrame, TypeOK, FramesTypeOK, flags
<1>2. ControlTypeOK'
  BY DEF NoNextFrame, TypeOK, ControlTypeOK, settings, flags, SenderPlaces
<1>3. FramesTypeOK'
  BY <1>1 DEF NoNextFrame, TypeOK, FramesTypeOK, settings, writer, MaybeFrame
<1>4. DataTypeOK'
  BY DEF NoNextFrame, TypeOK, DataTypeOK, settings, file, writer
<1>5. Handover'
  BY NoFrameOutside DEF NoNextFrame, Handover, Queued, writer, NoFrameIsNone
<1>6. RoundCounter'
  BY PipelineAssumption DEF NoNextFrame, RoundCounter, writer
<1> QED
  BY <1>1, <1>2, <1>3, <1>4, <1>5, <1>6 DEF TypeOK

\* set_next_frame moves the sender's frame to the writer, which lets go of its own.
LEMMA SetNextFrameKeeps == ASSUME IInv, SetNextFrame PROVE IInv'
<1> USE DEF IInv
<1>1. m_available_indices' \in Seq(Frames) /\ FrameConservation'
  <2>1. Held = (Queued \cup {prodFrame, sendFrame}) \cup {m_current_frame}
    BY DEF Held
  <2>2. Held' = (Queued \cup {prodFrame, sendFrame}) \cup {NoFrame}
    BY DEF Held, Queued, SetNextFrame
  <2> QED
    BY <2>1, <2>2, LetGoKeepsFrames DEF SetNextFrame, TypeOK, FramesTypeOK, flags
<1>2. ControlTypeOK'
  BY DEF SetNextFrame, TypeOK, ControlTypeOK, settings, flags, SenderPlaces
<1>3. FramesTypeOK'
  BY <1>1 DEF SetNextFrame, TypeOK, FramesTypeOK, settings, MaybeFrame
<1>4. DataTypeOK'
  BY DEF SetNextFrame, TypeOK, DataTypeOK, settings, file
<1>5. Handover'
  BY NoFrameOutside DEF SetNextFrame, Handover, Queued, NoFrameIsNone
<1>6. RoundCounter'
  BY PipelineAssumption DEF SetNextFrame, RoundCounter
<1> QED
  BY <1>1, <1>2, <1>3, <1>4, <1>5, <1>6 DEF TypeOK

\* fill_packet lets go of the frame with its last part.
LEMMA FillChunkKeeps ==
    ASSUME IInv, FillChunk, sender = "send", sender' # "got",
           UNCHANGED <<settings, flags, m_frame_queue, file, producer, prodFrame, sendFrame>>
    PROVE  /\ FramesTypeOK' /\ FrameConservation' /\ Handover'
           /\ m_data_left_in_frame' \in 0..frameChunks
           /\ (m_current_frame' = NoFrame) <=> (m_data_left_in_frame' = 0)
           /\ lastSent' \in Payloads \cup {NoPayload}
<1> USE DEF IInv
<1>1. CASE UNCHANGED <<m_available_indices, m_current_frame, m_data_left_in_frame, lastSent>>
  <2>1. FramesTypeOK'
    BY <1>1 DEF TypeOK, FramesTypeOK, settings
  <2>2. FrameConservation'
    BY <1>1, OtherStepsKeepFrames DEF flags
  <2>3. Handover'
    BY <1>1 DEF Handover, Queued
  <2> QED
    BY <1>1, <2>1, <2>2, <2>3 DEF TypeOK, DataTypeOK
<1>2. CASE m_current_frame # NoFrame
  <2>1. /\ lastSent' = payload[m_current_frame]
        /\ m_data_left_in_frame' = m_data_left_in_frame - 1
        /\ m_current_frame \in Frames /\ m_data_left_in_frame # 0
    BY <1>2 DEF FillChunk, TypeOK, FramesTypeOK, DataTypeOK, MaybeFrame
  <2>2. /\ m_data_left_in_frame' \in 0..frameChunks
        /\ lastSent' \in Payloads \cup {NoPayload}
    BY <2>1 DEF TypeOK, DataTypeOK
  <2>3. CASE m_data_left_in_frame' = 0
    <3>1. /\ m_current_frame' = NoFrame
          /\ LetGo(m_current_frame, Queued \cup {prodFrame, sendFrame})
      BY <1>2, <2>3 DEF FillChunk
    <3>2. Held = (Queued \cup {prodFrame, sendFrame}) \cup {m_current_frame}
      BY DEF Held
    <3>3. Held' = (Queued \cup {prodFrame, sendFrame}) \cup {NoFrame}
      BY <3>1 DEF Held, Queued
    <3>4. m_available_indices' \in Seq(Frames) /\ FrameConservation'
      BY <3>1, <3>2, <3>3, LetGoKeepsFrames DEF TypeOK, FramesTypeOK, flags
    <3>5. FramesTypeOK'
      BY <3>1, <3>4 DEF TypeOK, FramesTypeOK, settings, MaybeFrame
    <3>6. Handover'
      BY <3>1, NoFrameOutside DEF Handover, Queued, NoFrameIsNone
    <3> QED
      BY <2>2, <2>3, <3>1, <3>4, <3>5, <3>6
  <2>4. CASE m_data_left_in_frame' # 0
    <3>1. UNCHANGED <<m_current_frame, m_available_indices>>
      BY <1>2, <2>4 DEF FillChunk
    <3>2. FramesTypeOK'
      BY <3>1 DEF TypeOK, FramesTypeOK, settings
    <3>3. FrameConservation'
      BY <3>1, OtherStepsKeepFrames DEF flags
    <3>4. Handover'
      BY <3>1 DEF Handover, Queued
    <3> QED
      BY <1>2, <2>2, <2>4, <3>1, <3>2, <3>3, <3>4
  <2> QED
    BY <2>3, <2>4
<1> QED
  BY <1>1, <1>2 DEF FillChunk

\* A chunk is sent, or the library fails before or after it was written.
LEMMA SendKeeps == ASSUME IInv, SendChunk \/ SendFails PROVE IInv'
<1> USE DEF IInv
<1>1. CASE SendChunk
  <2>1. /\ FramesTypeOK' /\ FrameConservation' /\ Handover'
        /\ m_data_left_in_frame' \in 0..frameChunks
        /\ (m_current_frame' = NoFrame) <=> (m_data_left_in_frame' = 0)
        /\ lastSent' \in Payloads \cup {NoPayload}
    BY <1>1, FillChunkKeeps DEF SendChunk
  <2>2. chunk_in_frame_counter' \in 0..ChunksInFrame /\ RoundCounter'
    BY <1>1, PipelineAssumption DEF SendChunk, TypeOK, DataTypeOK, RoundCounter
  <2>3. ControlTypeOK'
    BY <1>1 DEF SendChunk, TypeOK, ControlTypeOK, settings, flags, SenderPlaces
  <2>4. DataTypeOK'
    BY <1>1, <2>1, <2>2 DEF SendChunk, TypeOK, DataTypeOK, settings, file
  <2> QED
    BY <2>1, <2>2, <2>3, <2>4 DEF TypeOK
<1>2. CASE SendFails
  <2>1. /\ FramesTypeOK' /\ FrameConservation' /\ Handover'
        /\ m_data_left_in_frame' \in 0..frameChunks
        /\ (m_current_frame' = NoFrame) <=> (m_data_left_in_frame' = 0)
        /\ lastSent' \in Payloads \cup {NoPayload}
    <3>1. CASE FillChunk
      BY <1>2, <3>1, FillChunkKeeps DEF SendFails
    <3>2. CASE UNCHANGED <<m_available_indices, m_current_frame, m_data_left_in_frame, lastSent>>
      <4>1. FrameConservation'
        BY <1>2, <3>2, OtherStepsKeepFrames DEF SendFails, flags
      <4>2. FramesTypeOK' /\ Handover'
        BY <1>2, <3>2 DEF SendFails, TypeOK, FramesTypeOK, Handover, Queued, settings
      <4> QED
        BY <1>2, <3>2, <4>1, <4>2 DEF SendFails, TypeOK, DataTypeOK, settings
    <3> QED
      BY <1>2, <3>1, <3>2 DEF SendFails
  <2>2. ControlTypeOK' /\ RoundCounter'
    BY <1>2 DEF SendFails, TypeOK, ControlTypeOK, RoundCounter, settings, flags, SenderPlaces
  <2>3. DataTypeOK'
    BY <1>2, <2>1 DEF SendFails, TypeOK, DataTypeOK, settings, file
  <2> QED
    BY <2>1, <2>2, <2>3 DEF TypeOK
<1> QED
  BY <1>1, <1>2

\* Reading the file fills the frame the producer holds alone.
LEMMA ReadFrameKeeps == ASSUME IInv, ReadFrame PROVE IInv'
<1> USE DEF IInv
<1>1. payload' \in [Frames -> Payloads \cup {NoPayload}] /\ filePos' \in 0..FileFrames
  <2>1. filePos \in Payloads
    BY PipelineAssumption DEF ReadFrame, TypeOK, DataTypeOK, Payloads
  <2>2. payload' \in [Frames -> Payloads \cup {NoPayload}]
    BY <2>1 DEF ReadFrame, TypeOK, DataTypeOK
  <2>3. filePos' \in 0..FileFrames
    BY PipelineAssumption DEF ReadFrame, TypeOK, DataTypeOK
  <2> QED
    BY <2>2, <2>3
<1>2. ControlTypeOK' /\ FramesTypeOK'
  BY DEF ReadFrame, TypeOK, ControlTypeOK, FramesTypeOK, settings, flags, writer, ProducerPlaces
<1>3. DataTypeOK'
  BY <1>1 DEF ReadFrame, TypeOK, DataTypeOK, settings, writer
<1>4. FrameConservation'
  BY OtherStepsKeepFrames DEF ReadFrame, flags, writer
<1>5. Handover' /\ RoundCounter'
  BY DEF ReadFrame, Handover, RoundCounter, Queued, writer
<1> QED
  BY <1>2, <1>3, <1>4, <1>5 DEF TypeOK

\* The steps that only move a thread or set a flag.
ControlStep ==
    \/ ProducerLoopEnds \/ ProviderStop \/ ProviderNotifies \/ PoolStop
    \/ SenderLoop \/ TakeNothing \/ PredicateFalse \/ Block \/ SpuriousWakeup
    \/ OwnerStops \/ Signal

LEMMA ControlStepKeeps == ASSUME IInv, ControlStep PROVE IInv'
<1> USE DEF IInv
<1>1. /\ UNCHANGED <<settings, m_available_indices, m_frame_queue, file, prodFrame,
                     sendFrame, m_current_frame, m_data_left_in_frame, lastSent>>
      /\ pool_stop' \in {pool_stop, TRUE}
      /\ chunk_in_frame_counter' \in {chunk_in_frame_counter, 0}
  BY DEF ControlStep, ProducerLoopEnds, ProviderStop, ProviderNotifies, PoolStop,
    SenderLoop, TakeNothing, PredicateFalse, Block, SpuriousWakeup, OwnerStops, Signal,
    Handover, writer, flags
<1>2. ControlTypeOK'
  <2>1. producer' \in ProducerPlaces /\ sender' \in SenderPlaces
    BY DEF ControlStep, ProducerLoopEnds, ProviderStop, ProviderNotifies, PoolStop,
      SenderLoop, TakeNothing, PredicateFalse, Block, SpuriousWakeup, OwnerStops, Signal,
      Notify, TypeOK, ControlTypeOK, ProducerPlaces, SenderPlaces
  <2>2. /\ provider_stop' = provider_stop \/ provider_stop' = TRUE
        /\ producer_stop' = producer_stop \/ producer_stop' = TRUE
        /\ received_signal' = received_signal \/ received_signal' = TRUE
    BY DEF ControlStep, ProducerLoopEnds, ProviderStop, ProviderNotifies, PoolStop,
      SenderLoop, TakeNothing, PredicateFalse, Block, SpuriousWakeup, OwnerStops, Signal, flags
  <2> QED
    BY <1>1, <2>1, <2>2 DEF TypeOK, ControlTypeOK, settings
<1>3. FramesTypeOK'
  BY <1>1 DEF TypeOK, FramesTypeOK, settings
<1>4. DataTypeOK'
  BY <1>1, PipelineAssumption DEF TypeOK, DataTypeOK, settings, file
<1>5. FrameConservation'
  BY <1>1, OtherStepsKeepFrames
<1>6. Handover'
  BY <1>1 DEF ControlStep, ProducerLoopEnds, ProviderStop, ProviderNotifies, PoolStop,
    SenderLoop, TakeNothing, PredicateFalse, Block, SpuriousWakeup, OwnerStops, Signal,
    Notify, Handover, Queued
<1>7. RoundCounter'
  BY PipelineAssumption DEF ControlStep, ProducerLoopEnds, ProviderStop, ProviderNotifies,
    PoolStop, SenderLoop, TakeNothing, PredicateFalse, Block, SpuriousWakeup, OwnerStops,
    Signal, Notify, RoundCounter, writer
<1> QED
  BY <1>2, <1>3, <1>4, <1>5, <1>6, <1>7 DEF TypeOK

\* A step that changes nothing keeps the invariant.
LEMMA StutterKeeps == ASSUME IInv, UNCHANGED vars PROVE IInv'
<1>1. TypeOK'
  BY DEF IInv, vars, settings, flags, file, writer, TypeOK, ControlTypeOK, FramesTypeOK, DataTypeOK
<1>2. FrameConservation'
  BY OtherStepsKeepFrames DEF IInv, vars, flags, writer
<1>3. Handover' /\ RoundCounter'
  BY DEF IInv, vars, writer, Handover, RoundCounter, Queued
<1> QED
  BY <1>1, <1>2, <1>3 DEF IInv

\* Every step of the producer, the sender, the owner and the user keeps it.
LEMMA NextKeeps == IInv /\ [Next]_vars => IInv'
<1> SUFFICES ASSUME IInv, [Next]_vars PROVE IInv'
  OBVIOUS
<1>1. CASE ControlStep
  BY <1>1, ControlStepKeeps
<1>2. CASE GetFrame
  BY <1>2, GetFrameKeeps
<1>3. CASE ReadFrame
  BY <1>3, ReadFrameKeeps
<1>4. CASE EndOfFile \/ ReadFails \/ IterationEnds
  BY <1>4, ProducerLetsGoKeeps
<1>5. CASE AddFrame
  BY <1>5, AddFrameKeeps
<1>6. CASE AddRefused \/ UNCHANGED vars
  BY <1>6, StutterKeeps DEF AddRefused
<1>7. CASE TakeQueued
  BY <1>7, TakeQueuedKeeps
<1>8. CASE NoNextFrame
  BY <1>8, NoNextFrameKeeps
<1>9. CASE SetNextFrame
  BY <1>9, SetNextFrameKeeps
<1>10. CASE SendChunk \/ SendFails
  BY <1>10, SendKeeps
<1> QED
  BY <1>1, <1>2, <1>3, <1>4, <1>5, <1>6, <1>7, <1>8, <1>9, <1>10
  DEF Next, ProducerStep, SenderStep, ControlStep

\* Types, the limit of the queue, and the writer's bookkeeping, for every size.
THEOREM PipelineTypeCorrect == Spec => []TypeOK
<1>1. IInv => TypeOK
  BY DEF IInv
<1> QED
  BY InitIInv, NextKeeps, <1>1, PTL DEF Spec

\* No frame is lost or used twice, however get_frame, add_frame,
\* get_frame_blocking, set_next_frame and fill_packet of the two threads, and the
\* stop of either, follow each other.
THEOREM FramesConserved == Spec => []FrameConservation
<1>1. IInv => FrameConservation
  BY DEF IInv
<1> QED
  BY InitIInv, NextKeeps, <1>1, PTL DEF Spec

-----------------------------------------------------------------------------
(* The order of the file                                                   *)

\* The frames between file and wire stand in a line: the writer's, the sender's,
\* the queue's, the producer's.  The payload at the end of the line, after the
\* writer, the sender and the queue.
WriterEnd ==
    IF m_current_frame # NoFrame /\ m_data_left_in_frame = frameChunks
      THEN payload[m_current_frame] ELSE lastSent
SenderEnd == IF sendFrame # NoFrame THEN payload[sendFrame] ELSE WriterEnd
QueueEnd ==
    IF m_frame_queue # <<>> THEN payload[m_frame_queue[Len(m_frame_queue)]] ELSE SenderEnd

\* What the writer sends next follows what it sent, or is the rest of it; it
\* begins each frame before it is given another, which after a signal never happens.
WriterInLine ==
    m_current_frame # NoFrame =>
      IF m_data_left_in_frame = frameChunks
        THEN /\ Follows(lastSent, payload[m_current_frame])
             /\ sender \in {"send", "done"} \/ received_signal
        ELSE payload[m_current_frame] = lastSent

\* Until a signal makes the sender drop a frame, its frame and the queue follow.
QueueInLine ==
    ~received_signal =>
      /\ sendFrame # NoFrame => Follows(WriterEnd, payload[sendFrame])
      /\ m_frame_queue # <<>> => Follows(SenderEnd, payload[m_frame_queue[1]])
      /\ \A k \in 1..(Len(m_frame_queue) - 1) :
           Follows(payload[m_frame_queue[k]], payload[m_frame_queue[k + 1]])

\* Until a stop makes the producer drop a frame, what it reads follows the queue.
ProducerInLine ==
    ~producer_stop /\ ~received_signal =>
      /\ producer \in {"get", "read", "added"} => Follows(QueueEnd, filePos)
      /\ producer = "add" => /\ Follows(QueueEnd, payload[prodFrame])
                             /\ filePos = payload[prodFrame] + 1

InLine == WriterInLine /\ QueueInLine /\ ProducerInLine

\* Steps that leave the frames, their contents and the positions alone.
LEMMA UnchangedInLine ==
    ASSUME InLine,
           UNCHANGED <<settings, file, m_frame_queue, prodFrame, sendFrame,
                       m_current_frame, m_data_left_in_frame, lastSent>>,
           received_signal' = received_signal \/ received_signal' = TRUE,
           producer_stop' = producer_stop \/ producer_stop' = TRUE,
           \/ producer' = producer
           \/ producer' \notin {"get", "read", "added", "add"},
           sender \in {"send", "done"} => sender' \in {"send", "done"} \/ received_signal
    PROVE  InLine'
<1>1. WriterEnd' = WriterEnd /\ SenderEnd' = SenderEnd /\ QueueEnd' = QueueEnd
  BY DEF WriterEnd, SenderEnd, QueueEnd, settings, file
<1>2. WriterInLine'
  BY DEF InLine, WriterInLine, Follows, settings, file
<1>3. QueueInLine'
  BY <1>1 DEF InLine, QueueInLine, Follows, settings, file
<1>4. ProducerInLine'
  BY <1>1 DEF InLine, ProducerInLine, Follows, settings, file
<1> QED
  BY <1>2, <1>3, <1>4 DEF InLine

LEMMA InitInLine == Init => InLine
BY DEF Init, InLine, WriterInLine, QueueInLine, ProducerInLine, Follows,
  WriterEnd, SenderEnd, QueueEnd, NoPayload

\* The payload of a frame in line does not change when the producer reads into its
\* own.
LEMMA ReadFrameInLine == ASSUME IInv, InLine, ReadFrame PROVE InLine'
<1>1. /\ prodFrame \in Frames /\ prodFrame \notin Queued
      /\ prodFrame # sendFrame /\ prodFrame # m_current_frame
      /\ UNCHANGED <<settings, flags, m_frame_queue, prodFrame, sender, sendFrame, writer>>
      /\ payload' = [payload EXCEPT ![prodFrame] = filePos]
      /\ payload \in [Frames -> Payloads \cup {NoPayload}]
      /\ producer = "read" /\ producer' = "add" /\ filePos' = filePos + 1
  BY DEF IInv, Handover, ReadFrame, TypeOK, DataTypeOK
<1>2. \A k \in 1..Len(m_frame_queue) : payload'[m_frame_queue[k]] = payload[m_frame_queue[k]]
  <2>1. \A k \in 1..Len(m_frame_queue) :
          m_frame_queue[k] \in Frames /\ m_frame_queue[k] # prodFrame
    BY <1>1 DEF IInv, TypeOK, FramesTypeOK, Queued, Range
  <2> QED
    BY <1>1, <2>1
<1>3. /\ m_current_frame # NoFrame => payload'[m_current_frame] = payload[m_current_frame]
      /\ sendFrame # NoFrame => payload'[sendFrame] = payload[sendFrame]
  BY <1>1 DEF IInv, TypeOK, FramesTypeOK, MaybeFrame
<1>4. WriterEnd' = WriterEnd /\ SenderEnd' = SenderEnd
  BY <1>1, <1>3 DEF WriterEnd, SenderEnd, settings, writer
<1>5. QueueEnd' = QueueEnd
  <2>1. m_frame_queue # <<>> => Len(m_frame_queue) \in 1..Len(m_frame_queue)
    BY DEF IInv, TypeOK, FramesTypeOK
  <2> QED
    BY <1>1, <1>2, <1>4, <2>1 DEF QueueEnd
<1>6. WriterInLine'
  BY <1>1, <1>3 DEF InLine, WriterInLine, Follows, settings, flags, writer
<1>7. QueueInLine'
  <2>1. /\ Len(m_frame_queue) \in Nat
        /\ m_frame_queue # <<>> => 1 \in 1..Len(m_frame_queue)
        /\ \A k \in 1..(Len(m_frame_queue) - 1) :
             k \in 1..Len(m_frame_queue) /\ k + 1 \in 1..Len(m_frame_queue)
    BY DEF IInv, TypeOK, FramesTypeOK
  <2> QED
    BY <1>1, <1>2, <1>3, <1>4, <2>1 DEF InLine, QueueInLine, Follows, settings, flags
<1>8. ProducerInLine'
  <2>1. payload'[prodFrame] = filePos
    BY <1>1
  <2> QED
    BY <1>1, <1>5, <2>1 DEF InLine, ProducerInLine, Follows, settings, flags
<1> QED
  BY <1>6, <1>7, <1>8 DEF InLine

\* At the end of the file the first frame follows the last, in a loop.
LEMMA ProducerLetsGoInLine ==
    ASSUME IInv, InLine, EndOfFile \/ ReadFails \/ IterationEnds
    PROVE  InLine'
<1>1. /\ UNCHANGED <<settings, flags, m_frame_queue, payload, sender, sendFrame, writer>>
      /\ producer' \in {"get", "close"}
  BY DEF EndOfFile, ReadFails, IterationEnds, file
<1>2. WriterEnd' = WriterEnd /\ SenderEnd' = SenderEnd /\ QueueEnd' = QueueEnd
  BY <1>1 DEF WriterEnd, SenderEnd, QueueEnd, settings, writer
<1>3. WriterInLine'
  BY <1>1 DEF InLine, WriterInLine, Follows, settings, flags, writer
<1>4. QueueInLine'
  BY <1>1, <1>2 DEF InLine, QueueInLine, Follows, settings, flags
<1>5. ProducerInLine'
  <2> SUFFICES ASSUME ~producer_stop, ~received_signal, producer' = "get"
               PROVE  Follows(QueueEnd, filePos)'
    BY <1>1 DEF ProducerInLine, flags
  <2>1. CASE EndOfFile
    <3>1. /\ filePos = FileFrames /\ filePos' = 0 /\ m_loop_frames /\ m_loop_frames'
          /\ Follows(QueueEnd, filePos)
      BY <1>1, <2>1 DEF EndOfFile, InLine, ProducerInLine, settings
    <3>2. QueueEnd = FileFrames - 1
      <4>1. QueueEnd \in Int
        BY PipelineAssumption
        DEF IInv, TypeOK, FramesTypeOK, DataTypeOK, QueueEnd, SenderEnd, WriterEnd,
          MaybeFrame, Payloads, NoPayload
      <4> QED
        BY <3>1, <4>1, PipelineAssumption DEF Follows
    <3> QED
      BY <1>2, <3>1, <3>2 DEF Follows
  <2>2. CASE ReadFails
    BY <2>2 DEF ReadFails
  <2>3. CASE IterationEnds
    <3>1. producer = "added" /\ filePos' = filePos
      BY <2>3 DEF IterationEnds, StopRequested, file
    <3> QED
      BY <1>1, <1>2, <3>1 DEF InLine, ProducerInLine, Follows, settings
  <2> QED
    BY <2>1, <2>2, <2>3
<1> QED
  BY <1>3, <1>4, <1>5 DEF InLine

\* The frame added is the one that follows the end of the queue.
LEMMA AddFrameInLine == ASSUME IInv, InLine, AddFrame PROVE InLine'
<1> DEFINE n == Len(m_frame_queue)
<1>1. /\ UNCHANGED <<settings, flags, file, prodFrame, sendFrame, writer>>
      /\ producer = "add" /\ producer' = "added"
      /\ ~producer_stop /\ ~received_signal
      /\ sender' = Notify(sender) /\ prodFrame \in Frames
  BY DEF IInv, Handover, AddFrame, StopRequested
<1>2. /\ n \in Nat /\ Len(m_frame_queue') = n + 1 /\ m_frame_queue' # <<>>
      /\ \A k \in 1..n : m_frame_queue'[k] = m_frame_queue[k]
      /\ m_frame_queue'[n + 1] = prodFrame
      /\ m_frame_queue # <<>> <=> n > 0
  BY <1>1 DEF IInv, TypeOK, FramesTypeOK, AddFrame
<1>3. WriterEnd' = WriterEnd /\ SenderEnd' = SenderEnd
  BY <1>1 DEF WriterEnd, SenderEnd, settings, file, writer
<1>4. QueueEnd' = payload[prodFrame] /\ Follows(QueueEnd, payload[prodFrame])
      /\ filePos = payload[prodFrame] + 1
  BY <1>1, <1>2 DEF QueueEnd, file, InLine, ProducerInLine
<1>5. WriterInLine'
  BY <1>1 DEF InLine, WriterInLine, Follows, Notify, settings, file, writer
<1>6. QueueInLine'
  <2>1. sendFrame' # NoFrame => Follows(WriterEnd, payload[sendFrame])'
    BY <1>1, <1>3 DEF InLine, QueueInLine, Follows, settings, file
  <2>2. Follows(SenderEnd, payload[m_frame_queue[1]])'
    <3>1. CASE n = 0
      BY <1>1, <1>2, <1>3, <1>4, <3>1 DEF QueueEnd, Follows, settings, file
    <3>2. CASE n > 0
      BY <1>1, <1>2, <1>3, <3>2 DEF InLine, QueueInLine, Follows, settings, file
    <3> QED
      BY <1>2, <3>1, <3>2
  <2>3. ASSUME NEW k \in 1..n
        PROVE  Follows(payload[m_frame_queue[k]], payload[m_frame_queue[k + 1]])'
    <3>1. CASE k = n
      BY <1>1, <1>2, <1>4, <3>1 DEF QueueEnd, Follows, settings, file
    <3>2. CASE k # n
      <4>1. k \in 1..(n - 1) /\ k + 1 \in 1..n
        BY <1>2, <3>2
      <4> QED
        BY <1>1, <1>2, <4>1 DEF InLine, QueueInLine, Follows, settings, file
    <3> QED
      BY <3>1, <3>2
  <2>4. Len(m_frame_queue') - 1 = n
    BY <1>2
  <2> QED
    BY <2>1, <2>2, <2>3, <2>4 DEF QueueInLine
<1>7. ProducerInLine'
  BY <1>1, <1>4 DEF ProducerInLine, Follows, settings, file
<1> QED
  BY <1>5, <1>6, <1>7 DEF InLine

\* The free frame the producer takes is not in line yet.
LEMMA GetFrameInLine == ASSUME InLine, GetFrame PROVE InLine'
<1>1. /\ UNCHANGED <<settings, flags, m_frame_queue, file, sender, sendFrame, writer>>
      /\ producer = "get" /\ producer' = "read"
  BY DEF GetFrame
<1>2. WriterEnd' = WriterEnd /\ SenderEnd' = SenderEnd /\ QueueEnd' = QueueEnd
  BY <1>1 DEF WriterEnd, SenderEnd, QueueEnd, settings, file, writer
<1>3. WriterInLine'
  BY <1>1 DEF InLine, WriterInLine, Follows, settings, flags, file, writer
<1>4. QueueInLine'
  BY <1>1, <1>2 DEF InLine, QueueInLine, Follows, settings, file, flags
<1>5. ProducerInLine'
  BY <1>1, <1>2 DEF InLine, ProducerInLine, Follows, settings, file, flags
<1> QED
  BY <1>3, <1>4, <1>5 DEF InLine

\* The sender takes the head of the queue, which follows what the writer has.
LEMMA TakeQueuedInLine == ASSUME IInv, InLine, TakeQueued PROVE InLine'
<1> DEFINE n == Len(m_frame_queue)
<1>1. /\ UNCHANGED <<settings, flags, file, producer, prodFrame, writer>>
      /\ sender = "frame" /\ sender' = "got" /\ sendFrame = NoFrame
  BY DEF IInv, Handover, TakeQueued
<1>2. /\ n \in Nat \ {0} /\ Len(m_frame_queue') = n - 1
      /\ \A k \in 1..(n - 1) : m_frame_queue'[k] = m_frame_queue[k + 1]
      /\ sendFrame' = m_frame_queue[1] /\ sendFrame' \in Frames
      /\ m_frame_queue' # <<>> <=> n > 1
      /\ m_frame_queue # <<>>
  BY DEF IInv, TypeOK, FramesTypeOK, TakeQueued
<1>3. sendFrame' # NoFrame
  BY <1>2, NoFrameOutside DEF NoFrameIsNone
<1>4. WriterEnd' = WriterEnd /\ SenderEnd = WriterEnd /\ SenderEnd' = payload[m_frame_queue[1]]
  BY <1>1, <1>2, <1>3 DEF WriterEnd, SenderEnd, settings, file, writer
<1>5. QueueEnd' = QueueEnd
  <2>1. CASE n = 1
    BY <1>2, <1>4, <2>1 DEF QueueEnd
  <2>2. CASE n > 1
    <3>1. m_frame_queue'[n - 1] = m_frame_queue[n]
      BY <1>2, <2>2
    <3> QED
      BY <1>1, <1>2, <2>2, <3>1 DEF QueueEnd, file
  <2> QED
    BY <1>2, <2>1, <2>2
<1>6. WriterInLine'
  BY <1>1 DEF InLine, WriterInLine, Follows, settings, flags, file, writer
<1>7. QueueInLine'
  <2> SUFFICES ASSUME ~received_signal'
               PROVE  /\ Follows(WriterEnd, payload[sendFrame])'
                      /\ m_frame_queue' # <<>> => Follows(SenderEnd, payload[m_frame_queue[1]])'
                      /\ \A k \in 1..(n - 2) :
                           Follows(payload[m_frame_queue[k]], payload[m_frame_queue[k + 1]])'
    <3>1. Len(m_frame_queue') - 1 = n - 2
      BY <1>2
    <3> QED
      BY <3>1 DEF QueueInLine
  <2>1. /\ Follows(SenderEnd, payload[m_frame_queue[1]])
        /\ \A k \in 1..(n - 1) :
             Follows(payload[m_frame_queue[k]], payload[m_frame_queue[k + 1]])
    BY <1>1, <1>2 DEF InLine, QueueInLine, flags
  <2>2. Follows(WriterEnd, payload[sendFrame])'
    BY <1>1, <1>2, <1>4, <2>1 DEF Follows, settings, file
  <2>3. ASSUME m_frame_queue' # <<>> PROVE Follows(SenderEnd, payload[m_frame_queue[1]])'
    <3>1. 1 \in 1..(n - 1) /\ m_frame_queue'[1] = m_frame_queue[1 + 1]
      BY <1>2, <2>3
    <3> QED
      BY <1>1, <1>4, <2>1, <3>1 DEF Follows, settings, file
  <2>4. ASSUME NEW k \in 1..(n - 2)
        PROVE  Follows(payload[m_frame_queue[k]], payload[m_frame_queue[k + 1]])'
    <3>1. /\ k \in 1..(n - 1) /\ k + 1 \in 1..(n - 1)
          /\ m_frame_queue'[k] = m_frame_queue[k + 1]
          /\ m_frame_queue'[k + 1] = m_frame_queue[(k + 1) + 1]
      BY <1>2
    <3> QED
      BY <1>1, <2>1, <3>1 DEF Follows, settings, file
  <2> QED
    BY <2>2, <2>3, <2>4
<1>8. ProducerInLine'
  BY <1>1, <1>5 DEF InLine, ProducerInLine, Follows, settings, file, flags
<1> QED
  BY <1>6, <1>7, <1>8 DEF InLine

\* A signal is the only reason to drop a frame here.
LEMMA NoNextFrameInLine == ASSUME InLine, NoNextFrame PROVE InLine'
<1>1. /\ UNCHANGED <<settings, flags, m_frame_queue, file, producer, prodFrame, writer>>
      /\ received_signal \/ sendFrame = NoFrame
      /\ sendFrame' = NoFrame /\ sender = "got" /\ sender' = "send"
  BY DEF NoNextFrame
<1>2. CASE sendFrame = NoFrame
  BY <1>1, <1>2, UnchangedInLine DEF flags, writer
<1>3. CASE received_signal
  BY <1>1, <1>3
  DEF InLine, WriterInLine, QueueInLine, ProducerInLine, Follows, settings, file, flags, writer
<1> QED
  BY <1>1, <1>2, <1>3

\* The writer has begun the frame it had, so the new one follows what it sent.
LEMMA SetNextFrameInLine == ASSUME IInv, InLine, SetNextFrame PROVE InLine'
<1>1. /\ UNCHANGED <<settings, flags, m_frame_queue, file, producer, prodFrame, lastSent>>
      /\ ~received_signal /\ sendFrame # NoFrame /\ sendFrame' = NoFrame
      /\ m_current_frame' = sendFrame /\ m_data_left_in_frame' = frameChunks
      /\ sender = "got" /\ sender' = "send"
  BY DEF SetNextFrame
<1>2. WriterEnd = lastSent
  BY <1>1 DEF InLine, WriterInLine, WriterEnd
<1>3. WriterEnd' = payload[sendFrame] /\ SenderEnd = payload[sendFrame]
      /\ SenderEnd' = payload[sendFrame]
  BY <1>1 DEF WriterEnd, SenderEnd, settings, file
<1>4. QueueEnd' = QueueEnd
  BY <1>1, <1>3 DEF QueueEnd, file
<1>5. WriterInLine'
  BY <1>1, <1>2 DEF InLine, QueueInLine, WriterInLine, Follows, settings, file
<1>6. QueueInLine'
  BY <1>1, <1>3 DEF InLine, QueueInLine, Follows, settings, file, flags
<1>7. ProducerInLine'
  BY <1>1, <1>4 DEF InLine, ProducerInLine, Follows, settings, file, flags
<1> QED
  BY <1>5, <1>6, <1>7 DEF InLine

\* What the writer copies is the frame in line, or the rest of the last one.
LEMMA FillChunkInOrder ==
    ASSUME IInv, InLine, FillChunk, m_current_frame # NoFrame
    PROVE  /\ lastSent' = payload[m_current_frame]
           /\ m_data_left_in_frame' = m_data_left_in_frame - 1
           /\ m_data_left_in_frame' # frameChunks
           /\ m_current_frame' \in {m_current_frame, NoFrame}
           /\ IF m_data_left_in_frame = frameChunks
                THEN Follows(lastSent, lastSent') ELSE lastSent' = lastSent
<1>1. /\ lastSent' = payload[m_current_frame]
      /\ m_data_left_in_frame' = m_data_left_in_frame - 1
      /\ m_current_frame' \in {m_current_frame, NoFrame}
  BY DEF FillChunk
<1>2. m_data_left_in_frame' # frameChunks
  BY <1>1 DEF IInv, TypeOK, DataTypeOK
<1> QED
  BY <1>1, <1>2 DEF InLine, WriterInLine

LEMMA SendInLine == ASSUME IInv, InLine, SendChunk \/ SendFails PROVE InLine'
<1>1. /\ UNCHANGED <<settings, flags, m_frame_queue, file, producer, prodFrame, sendFrame>>
      /\ sender = "send" /\ sendFrame = NoFrame
      /\ sender' \in {"send", "done"} \/ received_signal \/ FillChunk
      /\ \/ FillChunk
         \/ UNCHANGED <<m_current_frame, m_data_left_in_frame, lastSent>>
  BY DEF SendChunk, SendFails, IInv, Handover
<1>2. CASE UNCHANGED <<m_current_frame, m_data_left_in_frame, lastSent>>
  <2>1. CASE sender' \in {"send", "done"} \/ received_signal
    BY <1>1, <1>2, <2>1, UnchangedInLine DEF flags
  <2>2. CASE FillChunk
    <3>1. m_current_frame = NoFrame
      BY <1>2, <2>2 DEF FillChunk, IInv, TypeOK, DataTypeOK
    <3>2. WriterEnd' = WriterEnd /\ SenderEnd' = SenderEnd /\ QueueEnd' = QueueEnd
      BY <1>1, <1>2 DEF WriterEnd, SenderEnd, QueueEnd, settings, file
    <3> QED
      BY <1>1, <1>2, <3>1, <3>2
      DEF InLine, WriterInLine, QueueInLine, ProducerInLine, Follows, settings, file, flags
  <2> QED
    BY <1>1, <2>1, <2>2
<1>3. CASE FillChunk /\ m_current_frame # NoFrame
  <2>1. /\ lastSent' = payload[m_current_frame]
        /\ m_data_left_in_frame' # frameChunks
        /\ m_current_frame' \in {m_current_frame, NoFrame}
        /\ m_data_left_in_frame # frameChunks => lastSent' = lastSent
    BY <1>3, FillChunkInOrder
  <2>2. WriterEnd' = WriterEnd
    BY <1>1, <1>3, <2>1 DEF WriterEnd, settings
  <2>3. SenderEnd' = SenderEnd /\ QueueEnd' = QueueEnd
    BY <1>1, <2>2 DEF SenderEnd, QueueEnd, file
  <2>4. WriterInLine'
    BY <1>1, <2>1 DEF WriterInLine, settings, file
  <2>5. QueueInLine' /\ ProducerInLine'
    BY <1>1, <2>2, <2>3
    DEF InLine, QueueInLine, ProducerInLine, Follows, settings, file, flags
  <2> QED
    BY <2>4, <2>5 DEF InLine
<1> QED
  BY <1>1, <1>2, <1>3 DEF FillChunk

LEMMA ControlStepInLine == ASSUME IInv, InLine, ControlStep PROVE InLine'
<1>1. /\ UNCHANGED <<settings, file, m_frame_queue, prodFrame, sendFrame,
                     m_current_frame, m_data_left_in_frame, lastSent>>
      /\ received_signal' = received_signal \/ received_signal' = TRUE
      /\ producer_stop' = producer_stop \/ producer_stop' = TRUE
  BY DEF IInv, Handover, ControlStep, ProducerLoopEnds, ProviderStop, ProviderNotifies,
    PoolStop, SenderLoop, TakeNothing, PredicateFalse, Block, SpuriousWakeup, OwnerStops,
    Signal, flags, writer
<1>2. /\ \/ producer' = producer
         \/ producer' \notin {"get", "read", "added", "add"}
      /\ sender \in {"send", "done"} => sender' \in {"send", "done"}
  BY DEF ControlStep, ProducerLoopEnds, ProviderStop, ProviderNotifies,
    PoolStop, SenderLoop, TakeNothing, PredicateFalse, Block, SpuriousWakeup, OwnerStops,
    Signal, Notify
<1> QED
  BY <1>1, <1>2, UnchangedInLine

\* Every step keeps the line.
LEMMA NextInLine == IInv /\ InLine /\ [Next]_vars => InLine'
<1> SUFFICES ASSUME IInv, InLine, [Next]_vars PROVE InLine'
  OBVIOUS
<1>1. CASE ControlStep
  BY <1>1, ControlStepInLine
<1>2. CASE GetFrame
  BY <1>2, GetFrameInLine
<1>3. CASE ReadFrame
  BY <1>3, ReadFrameInLine
<1>4. CASE EndOfFile \/ ReadFails \/ IterationEnds
  BY <1>4, ProducerLetsGoInLine
<1>5. CASE AddFrame
  BY <1>5, AddFrameInLine
<1>6. CASE AddRefused \/ UNCHANGED vars
  BY <1>6, UnchangedInLine DEF AddRefused, vars, flags, writer
<1>7. CASE TakeQueued
  BY <1>7, TakeQueuedInLine
<1>8. CASE NoNextFrame
  BY <1>8, NoNextFrameInLine
<1>9. CASE SetNextFrame
  BY <1>9, SetNextFrameInLine
<1>10. CASE SendChunk \/ SendFails
  BY <1>10, SendInLine
<1> QED
  BY <1>1, <1>2, <1>3, <1>4, <1>5, <1>6, <1>7, <1>8, <1>9, <1>10
  DEF Next, ProducerStep, SenderStep, ControlStep

\* The file goes out in its order, without gap, repetition or mixed frames, for
\* a pool, a queue and a file of any size and whatever the pace of the threads.
THEOREM SentInFileOrder == Spec => InFileOrder
<1>1. IInv /\ InLine /\ [Next]_vars => [CopiesInOrder]_vars
  <2> SUFFICES ASSUME IInv, InLine, Next PROVE CopiesInOrder
    OBVIOUS
  <2>1. CASE SendChunk
    BY <2>1, FillChunkInOrder DEF SendChunk, CopiesInOrder
  <2>2. CASE ~SendChunk
    <3>1. chunk_in_frame_counter' = chunk_in_frame_counter \/ chunk_in_frame_counter' = 0
      BY <2>2 DEF Next, ProducerStep, SenderStep, ProducerLoopEnds, GetFrame, ReadFrame,
        EndOfFile, ReadFails, AddFrame, AddRefused, IterationEnds, ProviderStop,
        ProviderNotifies, PoolStop, SenderLoop, TakeQueued, TakeNothing, PredicateFalse,
        Block, NoNextFrame, SetNextFrame, SendFails, SpuriousWakeup, OwnerStops, Signal,
        vars, writer
    <3> QED
      BY <3>1 DEF CopiesInOrder, IInv, TypeOK, DataTypeOK
  <2> QED
    BY <2>1, <2>2
<1> QED
  BY InitIInv, InitInLine, NextKeeps, NextInLine, <1>1, PTL DEF Spec, InFileOrder
==============================================================================
