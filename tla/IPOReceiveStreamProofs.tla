------------------------ MODULE IPOReceiveStreamProofs ------------------------
(***************************************************************************)
(* Machine-checked proofs about IPOReceiveStream, for any number of paths, *)
(* any buffer and sequence number range, and any delays and bounds.        *)
(*                                                                         *)
(* The first part proves what needs no assumption about time: types, an    *)
(* empty buffer outside State::Running, slots that agree.  The second part *)
(* proves what the caller may rely on if TimingSuffices and as long as     *)
(* CapacitySuffices.  It goes from what is under way (NetInv) over what    *)
(* the buffer holds (RecordsOK) to the invariant StreamInv of a stream in  *)
(* sync, and takes three kinds of steps in turn: those that neither        *)
(* process a packet nor deliver (Quiet), the processing of a packet        *)
(* (Process) and the delivery of a chunk (Deliver).                        *)
(***************************************************************************)
EXTENDS IPOReceiveStream, FiniteSetTheorems, SequenceTheorems,
        WellFoundedInduction, TLAPS, DivisionLemmas

-----------------------------------------------------------------------------
(* Arithmetic of the buffer and of the search.                             *)

\* A non-empty set of naturals has a smallest element: the search for the
\* first valid slot and the scans of get_next_chunk end at one.
LEMMA MinIsSmallest ==
    ASSUME NEW S \in SUBSET Nat, S # {}
    PROVE  Min(S) \in S /\ \A y \in S : Min(S) <= y
<1>1. \E x \in S : \A y \in S : ~(<<y, x>> \in OpToRel(<, Nat))
  BY NatLessThanWellFounded, WFMin
<1>2. PICK x \in S : \A y \in S : ~(<<y, x>> \in OpToRel(<, Nat))
  BY <1>1
<1>3. \A y \in S : ~(y < x)
  BY <1>2 DEF OpToRel
<1>4. \A y \in S : x <= y
  BY <1>3
<1> QED
  BY <1>4 DEF Min

\* The buffer has at least one slot, whichever of its size and the sequence
\* number range get_sequence_number_wrap_around chose.
LEMMA WrapAroundType == WrapAround \in Nat /\ WrapAround > 0
  BY ReceiverAssumption DEF WrapAround

\* Reduction modulo the wrap-around yields a slot.
LEMMA ModIsSlot == \A n \in Int : n % WrapAround \in Slots
  BY WrapAroundType DEF Slots

\* Reduction modulo the sequence number range yields a sequence number.
LEMMA ModIsSeq == \A n \in Int : n % SeqMod \in SeqNums
  BY ReceiverAssumption DEF SeqNums

\* The sequence number of a packet and the slot it selects.
LEMMA SeqOfType ==
    ASSUME NEW id \in Int
    PROVE  SeqOf(id) \in SeqNums /\ SlotOf(id) \in Slots
<1>1. SeqOf(id) \in SeqNums
  BY ModIsSeq DEF SeqOf
<1>2. SeqOf(id) \in Int
  BY <1>1, ReceiverAssumption DEF SeqNums
<1> QED
  BY <1>1, <1>2, ModIsSlot DEF SlotOf

\* m_index stays inside the buffer when packets up to its end are consumed.
LEMMA IndexAfterType ==
    ASSUME NEW s \in Slots, NEW n \in Nat
    PROVE  IndexAfter(s, n) \in Slots
  BY WrapAroundType DEF IndexAfter, Slots

\* The slot k further on, going round the buffer.
LEMMA PlusType ==
    ASSUME NEW s \in Slots, NEW k \in Nat
    PROVE  Plus(s, k) \in Slots
<1>1. s + k \in Int
  BY WrapAroundType DEF Slots
<1> QED
  BY <1>1, ModIsSlot DEF Plus

\* Going round the buffer from any slot reaches every slot.
LEMMA PlusReaches ==
    ASSUME NEW s \in Slots, NEW t \in Slots
    PROVE  \E k \in Slots : Plus(s, k) = t
<1> DEFINE W == WrapAround
<1>1. W \in Nat /\ W > 0 /\ s \in 0..(W - 1) /\ t \in 0..(W - 1)
  BY WrapAroundType DEF Slots
<1> HIDE DEF W
<1>2. CASE t >= s
  <2>1. t - s \in 0..(W - 1) /\ (s + (t - s)) % W = t
    BY <1>1, <1>2
  <2> QED
    BY <2>1 DEF W, Plus, Slots
<1>3. CASE t < s
  <2>1. t - s + W \in 0..(W - 1) /\ s + (t - s + W) = t + W
    BY <1>1, <1>3
  <2>2. (t + W) % W = t
    BY <1>1
  <2> QED
    BY <2>1, <2>2 DEF W, Plus, Slots
<1> QED
  BY <1>1, <1>2, <1>3

\* When a slot is valid the search from m_index ends at a valid slot.
LEMMA FirstValidProperty ==
    ASSUME m_index \in Slots, ~NothingFound
    PROVE  FirstValid \in Slots /\ Valid(FirstValid)
<1> DEFINE S == {k \in Slots : Valid(Plus(m_index, k))}
<1>1. PICK t \in Slots : Valid(t)
  BY DEF NothingFound
<1>2. \E k \in Slots : Plus(m_index, k) = t
  BY PlusReaches
<1>3. S # {}
  BY <1>1, <1>2
<1>4. S \in SUBSET Nat
  BY WrapAroundType DEF Slots
<1> HIDE DEF S
<1>5. Min(S) \in S
  BY <1>3, <1>4, MinIsSmallest
<1>6. Min(S) \in Nat /\ Valid(Plus(m_index, Min(S)))
  BY <1>4, <1>5 DEF S
<1>7. FirstValid = Plus(m_index, Min(S))
  BY DEF FirstValid, S
<1> QED
  BY <1>6, <1>7, PlusType

\* The initial sync skips at most one round of the buffer.
LEMMA SkipCountType ==
    ASSUME NEW s \in Slots
    PROVE  SkipCount(s) \in 0..WrapAround
<1> DEFINE S == {k \in 0..WrapAround :
                    k = WrapAround \/ ~BeforeStart(Plus(s, k))}
<1>1. WrapAround \in S
  BY WrapAroundType
<1>2. S \in SUBSET Nat
  BY WrapAroundType
<1>3. S \subseteq 0..WrapAround
  OBVIOUS
<1> HIDE DEF S
<1>4. Min(S) \in S
  BY <1>1, <1>2, MinIsSmallest
<1>5. SkipCount(s) = Min(S)
  BY DEF SkipCount, S
<1> QED
  BY <1>3, <1>4, <1>5

\* A chunk begins at a slot and never passes the end of the buffer.
LEMMA DeliverCountType ==
    ASSUME NEW s \in Slots, NEW skipped
    PROVE  DeliverCount(s, skipped) \in
             {k \in 0..(WrapAround - s) :
                 \/ k = WrapAround - s
                 \/ s + k \in skipped \/ ~Valid(s + k) \/ ~Ripe(s + k)}
<1> DEFINE S == {k \in 0..(WrapAround - s) :
                    \/ k = WrapAround - s
                    \/ s + k \in skipped \/ ~Valid(s + k) \/ ~Ripe(s + k)}
<1>0. WrapAround - s \in Nat
  BY WrapAroundType DEF Slots
<1>1. WrapAround - s \in S
  BY <1>0
<1>2. S \in SUBSET Nat
  BY <1>0
<1>3. S \subseteq 0..(WrapAround - s)
  OBVIOUS
<1> HIDE DEF S
<1>4. Min(S) \in S
  BY <1>1, <1>2, MinIsSmallest
<1>5. DeliverCount(s, skipped) = Min(S)
  BY DEF DeliverCount, S
<1> QED
  BY <1>4, <1>5 DEF S

\* What is invalidated keeps its type, and only the flag changes.
LEMMA InvalidateType ==
    ASSUME m_ext_packet_info_arr \in [Slots -> PacketInfo], NEW slots
    PROVE  Invalidate(slots) \in [Slots -> PacketInfo]
  BY DEF Invalidate, PacketInfo

-----------------------------------------------------------------------------
(* The environment.                                                        *)

\* The initial state is well typed.
LEMMA InitTypeOK == Init => TypeOK
<1> SUFFICES ASSUME Init PROVE TypeOK
  OBVIOUS
<1>1. 0 \in Slots /\ 0 \in SeqNums /\ Done \in Nat /\ Ended \in Nat /\ Ended > 0
  BY WrapAroundType, ReceiverAssumption DEF Slots, SeqNums, Done, Ended
<1>2. EnvTypeOK
  BY EnvironmentAssumption DEF Init, EnvTypeOK, Completion, NoPacket
<1>3. StreamTypeOK
  BY <1>1 DEF Init, StreamTypeOK, States, PacketInfo, Completion
<1>4. AppTypeOK
  <2>1. m_path_packets \in [Slots -> SUBSET Paths] /\ m_last_sequence_number \in SeqNums
    BY <1>1 DEF Init
  <2>2. /\ lastOut \in Int /\ span \in Int /\ position \in Int /\ front \in Int
        /\ held \in [Slots -> Int]
    BY DEF Init, NoPacket
  <2>3. skippedIds \subseteq Int /\ chunk \in Seq(ChunkEntry)
    BY DEF Init
  <2>4. m_initialized \in BOOLEAN /\ fresh \in BOOLEAN /\ inSync \in BOOLEAN
    BY DEF Init
  <2> QED
    BY <2>1, <2>2, <2>3, <2>4 DEF AppTypeOK
<1> QED
  BY <1>2, <1>3, <1>4 DEF TypeOK

\* What leaves the variables of the environment alone keeps their types.
LEMMA EnvUntouched ==
    ASSUME EnvTypeOK, UNCHANGED envVars
    PROVE  EnvTypeOK'
  BY DEF EnvTypeOK, envVars

\* The same for what the application and the caller see.
LEMMA AppUntouched ==
    ASSUME AppTypeOK, UNCHANGED <<appVars, chunk, histVars>>
    PROVE  AppTypeOK'
  BY DEF AppTypeOK, appVars, histVars

\* Sending a packet leaves the network well typed.
LEMMA SendPacketType ==
    ASSUME EnvTypeOK, NEW id \in Nat, SendPacket(id)
    PROVE  /\ nextId' \in Nat /\ sent' \in Nat /\ lastSend' \in Nat
           /\ flight' \in [Paths -> Seq([id : Nat \cup {Corrupted}, due : Nat])]
           /\ damaged' \in Nat /\ lostOn' \subseteq Paths \X Nat
<1> DEFINE Flying == [id : Nat \cup {Corrupted}, due : Nat]
<1>1. nextId' \in Nat /\ sent' \in Nat /\ lastSend' \in Nat
  BY DEF EnvTypeOK, SendPacket
<1>2. PICK lost \in SUBSET Paths, bad \in SUBSET Paths, delay \in [Paths -> 0..Skew] :
          /\ damaged' = damaged + Cardinality(bad)
          /\ lostOn' = lostOn \cup ((lost \cup bad) \X {id})
          /\ flight' = [p \in Paths |->
                 IF p \in lost THEN flight[p]
                 ELSE Append(flight[p],
                             [id  |-> IF p \in bad THEN Corrupted ELSE id,
                              due |-> clk + 1 + delay[p]])]
  BY ZenonT(60) DEF SendPacket
<1>3. damaged' \in Nat
  <2>1. IsFiniteSet(Paths)
    BY FS_Interval, ReceiverAssumption DEF Paths
  <2>2. Cardinality(bad) \in Nat
    BY <2>1, FS_Subset, FS_CardinalityType
  <2> QED
    BY <1>2, <2>2 DEF EnvTypeOK
<1>4. lostOn' \subseteq Paths \X Nat
  BY <1>2 DEF EnvTypeOK
<1>5. flight' \in [Paths -> Seq(Flying)]
  <2>1. ASSUME NEW p \in Paths
        PROVE  [id  |-> IF p \in bad THEN Corrupted ELSE id,
                due |-> clk + 1 + delay[p]] \in Flying
    <3>1. clk + 1 + delay[p] \in Nat
      BY EnvironmentAssumption DEF EnvTypeOK
    <3> QED
      BY <3>1
  <2>2. \A p \in Paths : flight[p] \in Seq(Flying)
    BY DEF EnvTypeOK
  <2> HIDE DEF Flying
  <2> QED
    BY <1>2, <2>1, <2>2
<1> QED
  BY <1>1, <1>3, <1>4, <1>5

\* A suffix of a completion queue is a completion queue.
LEMMA RestOfType ==
    ASSUME EnvTypeOK, NEW p \in Paths
    PROVE  /\ RestOf(p) \in Completion
           /\ SubSeq(cq[p], 1, TakenFrom(p)) \in Completion
<1> DEFINE E == Nat \cup {Corrupted}
<1>1. cq[p] \in Seq(E) /\ Len(cq[p]) \in Nat
  BY DEF EnvTypeOK, Completion
<1>2. TakenFrom(p) \in 0..Len(cq[p])
  BY <1>1, ReceiverAssumption DEF TakenFrom
<1> HIDE DEF E
<1>3. \A i \in 1..Len(cq[p]) : cq[p][i] \in E
  BY <1>1
<1>4. SubSeq(cq[p], TakenFrom(p) + 1, Len(cq[p])) \in Seq(E)
  BY <1>1, <1>2, <1>3, SubSeqProperties
<1>5. SubSeq(cq[p], 1, TakenFrom(p)) \in Seq(E)
  BY <1>1, <1>2, <1>3, SubSeqProperties
<1> QED
  BY <1>4, <1>5 DEF RestOf, Completion, E

\* The clock and the sender touch the environment only.
LEMMA TickType ==
    ASSUME TypeOK, \/ TickSilent \/ TickSend
                   \/ \E seq \in RestartSeqs : TickRestart(seq)
    PROVE  TypeOK'
<1>1. StreamTypeOK' /\ AppTypeOK'
  <2>1. UNCHANGED <<ipoVars, pollPath, todo, appVars, chunk, histVars>>
    BY DEF TickSilent, TickSend, TickRestart
  <2> QED
    BY <2>1 DEF TypeOK, StreamTypeOK, AppTypeOK, ipoVars, appVars, histVars, Valid
<1>2. clk' \in Nat
  BY DEF TypeOK, EnvTypeOK, TickSilent, TickSend, TickRestart, TimePasses
<1>3. CASE TickSilent
  BY <1>1, <1>2, <1>3 DEF TypeOK, EnvTypeOK, TickSilent
<1>4. CASE TickSend
  <2>1. nextId \in Nat
    BY DEF TypeOK, EnvTypeOK
  <2> QED
    BY <1>1, <1>2, <1>4, <2>1, SendPacketType DEF TypeOK, EnvTypeOK, TickSend
<1>5. ASSUME NEW seq \in RestartSeqs, TickRestart(seq)
      PROVE  TypeOK'
  <2>1. nextId \in Nat /\ seq \in Nat /\ SeqMod \in Nat
    BY ReceiverAssumption, EnvironmentAssumption DEF TypeOK, EnvTypeOK
  <2>2. SeqOf(nextId) \in 0..(SeqMod - 1)
    BY <2>1, SeqOfType DEF SeqNums
  <2>3. nextId - SeqOf(nextId) + SeqMod + seq \in Nat
    BY <2>1, <2>2
  <2> QED
    BY <1>1, <1>2, <1>5, <2>3, SendPacketType DEF TypeOK, EnvTypeOK, TickRestart
<1> QED
  BY <1>3, <1>4, <1>5

\* Arrival of a packet: the adapter's queue and the buffer.
LEMMA ArriveType ==
    ASSUME TypeOK, NEW p \in Paths, Arrive(p)
    PROVE  TypeOK'
<1> DEFINE Flying == [id : Nat \cup {Corrupted}, due : Nat]
<1>1. flight[p] \in Seq(Flying) /\ flight[p] # <<>>
  BY DEF TypeOK, EnvTypeOK, Arrive
<1>2. Head(flight[p]) \in Flying /\ Tail(flight[p]) \in Seq(Flying)
  <2> HIDE DEF Flying
  <2> QED
    BY <1>1, HeadTailProperties
<1>3. PICK id \in Nat \cup {Corrupted} : id = Head(flight[p]).id
  BY <1>2
<1>4. cq' \in [Paths -> Completion]
  BY <1>3 DEF TypeOK, EnvTypeOK, Arrive, Completion
<1>5. mem' \in [Slots -> Int]
  <2>1. mem' = IF id = Corrupted THEN mem ELSE [mem EXCEPT ![SlotOf(id)] = id]
    BY <1>3 DEF Arrive
  <2>2. CASE id = Corrupted
    BY <2>1, <2>2 DEF TypeOK, EnvTypeOK
  <2>3. CASE id # Corrupted
    <3>1. id \in Int /\ mem \in [Slots -> Int]
      BY <1>3, <2>3 DEF TypeOK, EnvTypeOK
    <3>2. SlotOf(id) \in Slots
      BY <3>1, SeqOfType
    <3>3. mem' = [mem EXCEPT ![SlotOf(id)] = id]
      BY <2>1, <2>3
    <3> QED
      BY <3>1, <3>2, <3>3
  <2> QED
    BY <2>2, <2>3
<1>6. flight' \in [Paths -> Seq(Flying)]
  <2> HIDE DEF Flying
  <2>1. flight \in [Paths -> Seq(Flying)]
    BY DEF TypeOK, EnvTypeOK, Flying
  <2> QED
    BY <1>2, <2>1 DEF Arrive
<1>7. EnvTypeOK'
  BY <1>4, <1>5, <1>6 DEF TypeOK, EnvTypeOK, Arrive
<1>8. StreamTypeOK' /\ AppTypeOK'
  BY DEF TypeOK, StreamTypeOK, AppTypeOK, Arrive, ipoVars, appVars, histVars
<1> QED
  BY <1>7, <1>8 DEF TypeOK

-----------------------------------------------------------------------------
(* Taking completions from the sub-streams.                                *)

\* synchronous_start and the polls of the sub-streams keep the types.
LEMMA PollType ==
    ASSUME TypeOK,
           \/ \E p \in Paths : SyncPath(p) \/ TakeChunk(p) \/ TakeChunkFails(p)
           \/ Start
           \/ PollBegin
    PROVE  TypeOK'
<1>0. NumPaths \in Nat /\ NumPaths > 0 /\ MaxPathDiff \in Nat
  BY ReceiverAssumption
<1>1. ASSUME NEW p \in Paths, SyncPath(p)
      PROVE  TypeOK'
  <2>1. EnvTypeOK'
    BY <1>1, RestOfType DEF TypeOK, EnvTypeOK, SyncPath
  <2> QED
    BY <1>1, <2>1 DEF TypeOK, StreamTypeOK, AppTypeOK, SyncPath, ipoVars, appVars, histVars
<1>2. ASSUME NEW p \in Paths, TakeChunk(p)
      PROVE  TypeOK'
  <2>1. EnvTypeOK'
    BY <1>2, RestOfType DEF TypeOK, EnvTypeOK, TakeChunk
  <2>2. todo' \in Completion
    BY <1>2, RestOfType DEF TypeOK, TakeChunk
  <2>3. pollPath' \in 2..Done /\ pollPath' \in 0..Ended
    BY <1>0, <1>2 DEF TakeChunk, Paths, Done, Ended
  <2> QED
    BY <1>2, <2>1, <2>2, <2>3
    DEF TypeOK, StreamTypeOK, AppTypeOK, TakeChunk, ipoVars, appVars, histVars
<1>3. ASSUME NEW p \in Paths, TakeChunkFails(p)
      PROVE  TypeOK'
  <2>1. pollPath' \in 0..Ended
    BY <1>0, <1>3 DEF TakeChunkFails, Ended
  <2> QED
    BY <1>3, <2>1
    DEF TypeOK, EnvTypeOK, StreamTypeOK, AppTypeOK, TakeChunkFails,
        envVars, ipoVars, appVars, histVars
<1>4. CASE Start
  <2>1. StreamTypeOK'
    BY <1>0, <1>4 DEF TypeOK, EnvTypeOK, StreamTypeOK, Start, States
  <2> QED
    BY <1>4, <2>1, EnvUntouched, AppUntouched DEF TypeOK, Start
<1>5. CASE PollBegin
  <2>1. StreamTypeOK'
    BY <1>0, <1>5
    DEF TypeOK, EnvTypeOK, StreamTypeOK, PollBegin, States, Done, Ended, envVars
  <2>2. AppTypeOK'
    BY <1>5 DEF TypeOK, AppTypeOK, PollBegin, appVars, histVars
  <2> QED
    BY <1>5, <2>1, <2>2, EnvUntouched DEF TypeOK, PollBegin
<1> QED
  BY <1>1, <1>2, <1>3, <1>4, <1>5

-----------------------------------------------------------------------------
(* process_completion.                                                     *)

\* Processing one packet of a completion keeps the types.
LEMMA ProcessPacketType ==
    ASSUME TypeOK, ProcessPacket
    PROVE  TypeOK'
<1> DEFINE seq == SeqOf(Head(todo))
           p == pollPath - 1
<1>1. todo \in Seq(Nat \cup {Corrupted}) /\ todo # <<>> /\ Head(todo) # Corrupted
  BY DEF TypeOK, StreamTypeOK, Completion, ProcessPacket
<1>2. Head(todo) \in Nat /\ Tail(todo) \in Completion
  BY <1>1, HeadTailProperties DEF Completion
<1>3. seq \in SeqNums /\ seq \in Int /\ seq % WrapAround \in Slots
  BY <1>2, SeqOfType, ModIsSlot, ReceiverAssumption DEF SeqNums
<1>4. p \in Paths /\ pollPath \in 2..Done /\ pollPath' = pollPath
  BY <1>1, ReceiverAssumption DEF TypeOK, StreamTypeOK, ProcessPacket, Done, Paths
<1>5. /\ UpdateState(seq)
      /\ HandleLatePacket(seq) \/ HandlePacket(p, seq) \/ HandleRedundantPacket(p, seq)
  BY DEF ProcessPacket
<1> HIDE DEF seq, p
<1>6. LastProcessed(seq) \in SeqNums
  <2>1. seq - InitOffset \in Int
    BY <1>3, ReceiverAssumption DEF InitOffset
  <2> QED
    BY <2>1, ModIsSeq DEF LastProcessed, TypeOK, StreamTypeOK
<1>7. m_state' \in States /\ m_next_packet_time' \in Nat /\ m_index' \in Slots
      /\ m_last_processed_sequence_number' \in SeqNums /\ m_start_time' \in Nat
  BY <1>3, <1>5, <1>6, ReceiverAssumption DEF UpdateState, TypeOK, StreamTypeOK, States
<1>8. /\ m_initialized' \in BOOLEAN /\ fresh' \in BOOLEAN /\ inSync' \in BOOLEAN
      /\ position' \in Int /\ front' \in Int
  <2>1. /\ position' \in {Head(todo), position} /\ Head(todo) \in Int
        /\ front' \in {Head(todo) - 1, front} /\ inSync' = inSync
    BY <1>2 DEF ProcessPacket
  <2> QED
    BY <1>5, <2>1 DEF UpdateState, HandleSenderRestart, TypeOK, AppTypeOK,
                      Repositions, SenderRestarted
<1>9. /\ m_ext_packet_info_arr' \in [Slots -> PacketInfo]
      /\ m_path_packets' \in [Slots -> SUBSET Paths] /\ held' \in [Slots -> Int]
  <2>1. CASE HandleLatePacket(seq)
    BY <2>1 DEF HandleLatePacket, TypeOK, StreamTypeOK, AppTypeOK
  <2>2. CASE HandlePacket(p, seq)
    BY <1>2, <1>3, <1>4, <2>2
    DEF HandlePacket, TypeOK, StreamTypeOK, AppTypeOK, PacketInfo
  <2>3. CASE HandleRedundantPacket(p, seq)
    BY <1>3, <1>4, <2>3
    DEF HandleRedundantPacket, TypeOK, StreamTypeOK, AppTypeOK
  <2> QED
    BY <1>5, <2>1, <2>2, <2>3
<1>10. StreamTypeOK'
  BY <1>2, <1>4, <1>7, <1>9 DEF TypeOK, StreamTypeOK, ProcessPacket
<1>11. AppTypeOK'
  BY <1>8, <1>9 DEF TypeOK, AppTypeOK, ProcessPacket
<1> QED
  BY <1>10, <1>11, EnvUntouched DEF TypeOK, ProcessPacket

\* A damaged packet only shortens the completion and counts.
LEMMA CorruptedPacketType ==
    ASSUME TypeOK, HandleCorruptedPacket
    PROVE  TypeOK'
<1>1. todo \in Seq(Nat \cup {Corrupted}) /\ todo # <<>>
  BY DEF TypeOK, StreamTypeOK, Completion, HandleCorruptedPacket
<1>2. todo' \in Completion
  BY <1>1, HeadTailProperties DEF Completion, HandleCorruptedPacket
<1>3. StreamTypeOK'
  BY <1>1, <1>2 DEF TypeOK, StreamTypeOK, HandleCorruptedPacket, ipoVars
<1>4. AppTypeOK'
  BY DEF TypeOK, AppTypeOK, HandleCorruptedPacket, histVars
<1> QED
  BY <1>3, <1>4, EnvUntouched DEF TypeOK, HandleCorruptedPacket

-----------------------------------------------------------------------------
(* The chunk for the caller.                                               *)

\* Where the chunk of a SkipAndDeliver begins and how long it is: it never
\* leaves the buffer, and a call that finds a ripe packet consumes one.
LEMMA ChunkPosition ==
    ASSUME TypeOK, SkipAndDeliver
    PROVE  /\ FirstValid \in Slots /\ Valid(FirstValid)
           /\ SkippedCount \in 0..WrapAround
           /\ ChunkFirst \in Slots
           /\ ChunkLength \in Nat /\ ChunkFirst + ChunkLength <= WrapAround
           /\ ChunkLength # 0 => Valid(ChunkFirst)
           /\ ChunkLength = 0 => SkippedCount > 0
<1>1. FirstValid \in Slots /\ Valid(FirstValid)
  BY FirstValidProperty DEF SkipAndDeliver, TypeOK, StreamTypeOK
<1>2. SkippedCount \in 0..WrapAround
  BY <1>1, SkipCountType DEF SkippedCount
<1>3. ChunkFirst \in Slots
  BY <1>1, <1>2, WrapAroundType, PlusType DEF ChunkFirst
<1>4. DeliverCount(ChunkFirst, SkippedSlots) \in 0..(WrapAround - ChunkFirst)
  BY <1>3, DeliverCountType
<1>5. /\ ChunkLength \in Nat /\ ChunkFirst + ChunkLength <= WrapAround
      /\ ChunkLength # 0 => Valid(ChunkFirst)
  BY <1>3, <1>4, WrapAroundType DEF Slots, ChunkLength
<1>6. CASE SkippedCount = 0
  <2>1. SkippedSlots = {} /\ SkippedCount # WrapAround
    BY <1>6, WrapAroundType DEF SkippedSlots
  <2>2. ChunkFirst = FirstValid
    BY <1>1, <1>6, WrapAroundType DEF ChunkFirst, Plus, Slots
  <2>3. Ripe(ChunkFirst) /\ Valid(ChunkFirst)
    BY <1>1, <2>2 DEF SkipAndDeliver
  <2>4. ChunkLength = DeliverCount(ChunkFirst, {})
    BY <2>1, <2>3 DEF ChunkLength
  <2>5. DeliverCount(ChunkFirst, {}) \in
             {i \in 0..(WrapAround - ChunkFirst) :
                 \/ i = WrapAround - ChunkFirst
                 \/ ChunkFirst + i \in {}
                 \/ ~Valid(ChunkFirst + i) \/ ~Ripe(ChunkFirst + i)}
    BY <1>3, DeliverCountType
  <2>6. ChunkLength # 0
    BY <1>3, <2>3, <2>4, <2>5, WrapAroundType DEF Slots
  <2> QED
    BY <1>1, <1>2, <1>3, <1>5, <2>6
<1>7. CASE SkippedCount # 0
  <2>1. SkippedCount > 0
    BY <1>2, <1>7, WrapAroundType
  <2> QED
    BY <1>1, <1>2, <1>3, <1>5, <2>1
<1> QED
  BY <1>6, <1>7

\* Delivering a chunk keeps the types: every slot of the chunk is in the
\* buffer, and so is the position behind it.
LEMMA SkipAndDeliverType ==
    ASSUME TypeOK, SkipAndDeliver
    PROVE  /\ m_index' \in Slots /\ m_next_packet_time' \in Nat
           /\ m_last_processed_sequence_number' \in SeqNums
           /\ m_ext_packet_info_arr' \in [Slots -> PacketInfo]
           /\ AppTypeOK'
<1> DEFINE first == ChunkFirst
           n == ChunkLength
<1>1. /\ first \in Slots /\ n \in Nat /\ first + n <= WrapAround
      /\ FirstValid \in Slots /\ SkippedCount \in 0..WrapAround
      /\ n = 0 => SkippedCount > 0
      /\ CompletePackets(first, n) /\ SetCompletion(first, n)
  BY ChunkPosition DEF SkipAndDeliver
<1>0. /\ m_next_packet_time' =
           IF SkippedCount = 0 THEN m_next_packet_time ELSE Stamp(LastSkipped)
      /\ m_index' = IndexAfter(first, n)
      /\ m_ext_packet_info_arr' = Invalidate(SkippedSlots \cup ChunkSlots)
      /\ skippedIds' = skippedIds \cup {held[s] : s \in SkippedSlots}
      /\ front' = held[IF n = 0 THEN LastSkipped ELSE first + n - 1]
  BY DEF SkipAndDeliver
<1> HIDE DEF first, n
<1>2. /\ m_ext_packet_info_arr \in [Slots -> PacketInfo]
      /\ \A s \in Slots : Stamp(s) \in Nat
                          /\ m_ext_packet_info_arr[s].sequence_number \in SeqNums
      /\ mem \in [Slots -> Int] /\ held \in [Slots -> Int]
      /\ m_path_packets \in [Slots -> SUBSET Paths]
  BY DEF TypeOK, EnvTypeOK, StreamTypeOK, AppTypeOK, PacketInfo, Stamp
<1>3. \A i \in 1..n : first + i - 1 \in Slots
  BY <1>1, WrapAroundType DEF Slots
<1>4. m_index' \in Slots
  BY <1>0, <1>1, IndexAfterType
<1>5. SkippedCount # 0 => LastSkipped \in Slots
  <2>1. SkippedCount # 0 => SkippedCount - 1 \in Nat
    BY <1>1, WrapAroundType
  <2> QED
    BY <1>1, <2>1, PlusType DEF LastSkipped
<1>6. /\ m_next_packet_time' \in Nat
      /\ m_ext_packet_info_arr' \in [Slots -> PacketInfo]
  BY <1>0, <1>2, <1>5, InvalidateType DEF TypeOK, StreamTypeOK
<1>7. n # 0 => first + n - 1 \in Slots
  BY <1>1, WrapAroundType DEF Slots
<1>8. /\ m_last_processed_sequence_number' \in SeqNums
      /\ m_last_sequence_number' \in SeqNums
  BY <1>1, <1>2, <1>7 DEF CompletePackets, TypeOK, StreamTypeOK, AppTypeOK
<1>9. chunk' \in Seq(ChunkEntry)
  <2>1. chunk' = [i \in 1..n |->
           [slot |-> first + i - 1,
            seq  |-> m_ext_packet_info_arr[first + i - 1].sequence_number,
            id   |-> mem[first + i - 1],
            by   |-> m_path_packets[first + i - 1]]]
    BY <1>1 DEF SetCompletion
  <2>2. \A i \in 1..n :
           [slot |-> first + i - 1,
            seq  |-> m_ext_packet_info_arr[first + i - 1].sequence_number,
            id   |-> mem[first + i - 1],
            by   |-> m_path_packets[first + i - 1]] \in ChunkEntry
    BY <1>2, <1>3 DEF ChunkEntry
  <2> QED
    BY <1>1, <2>1, <2>2
<1>10. lastOut' \in Int /\ span' \in Int
  BY <1>1, <1>2, <1>7 DEF SetCompletion, TypeOK, AppTypeOK
<1>11. skippedIds' \subseteq Int
  <2>1. \A j \in 0..(SkippedCount - 1) : Plus(FirstValid, j) \in Slots
    BY <1>1, PlusType
  <2> QED
    BY <1>0, <1>2, <2>1 DEF TypeOK, AppTypeOK, SkippedSlots
<1>12. m_initialized' \in BOOLEAN /\ fresh' \in BOOLEAN
  BY <1>1 DEF CompletePackets, SetCompletion
<1>13. /\ m_path_packets' = m_path_packets /\ position' = position
       /\ held' = held /\ inSync' \in BOOLEAN
  BY DEF SkipAndDeliver
<1>14. front' \in Int
  BY <1>0, <1>1, <1>2, <1>5, <1>7
<1>15. AppTypeOK'
  BY <1>8, <1>9, <1>10, <1>11, <1>12, <1>13, <1>14 DEF TypeOK, AppTypeOK
<1> QED
  BY <1>4, <1>6, <1>8, <1>15

\* The second part of get_next_chunk keeps the types.
LEMMA AssembleType ==
    ASSUME TypeOK, Assemble
    PROVE  TypeOK'
<1>1. UNCHANGED envVars /\ todo' = todo /\ pollPath' = 0 /\ 0 \in 0..Ended /\ todo = <<>>
  BY ReceiverAssumption DEF Assemble, Ended
<1>2. CASE ReturnsNothingYet
  BY <1>1, <1>2, EnvUntouched, AppUntouched
  DEF ReturnsNothingYet, TypeOK, StreamTypeOK, ipoVars
<1>3. CASE BecomesWaiting
  <2>1. StreamTypeOK'
    BY <1>1, <1>3 DEF BecomesWaiting, TypeOK, StreamTypeOK, States
  <2> QED
    BY <1>1, <1>3, <2>1, EnvUntouched, AppUntouched DEF BecomesWaiting, TypeOK
<1>4. CASE NotRipeYet
  <2>1. FirstValid \in Slots
    BY <1>4, FirstValidProperty DEF NotRipeYet, TypeOK, StreamTypeOK
  <2>2. m_next_packet_time' \in Nat
    BY <1>4, <2>1 DEF NotRipeYet, Stamp, TypeOK, StreamTypeOK, PacketInfo
  <2>3. StreamTypeOK'
    BY <1>1, <1>4, <2>2 DEF NotRipeYet, TypeOK, StreamTypeOK
  <2> QED
    BY <1>1, <1>4, <2>3, EnvUntouched, AppUntouched DEF NotRipeYet, TypeOK
<1>5. CASE SkipAndDeliver
  <2>1. UNCHANGED <<m_state, m_start_time, m_now>>
    BY <1>5 DEF SkipAndDeliver
  <2>2. StreamTypeOK'
    BY <1>1, <1>5, <2>1, SkipAndDeliverType DEF TypeOK, StreamTypeOK
  <2> QED
    BY <1>1, <1>5, <2>2, SkipAndDeliverType, EnvUntouched DEF TypeOK
<1> QED
  BY <1>2, <1>3, <1>4, <1>5 DEF Assemble

\* Every step of the system keeps the types.
LEMMA NextTypeOK == TypeOK /\ [Next]_vars => TypeOK'
<1> SUFFICES ASSUME TypeOK, [Next]_vars PROVE TypeOK'
  OBVIOUS
<1>1. CASE UNCHANGED vars
  <2>1. UNCHANGED envVars /\ UNCHANGED <<appVars, chunk, histVars>>
        /\ UNCHANGED <<ipoVars, pollPath, todo>>
    BY <1>1 DEF vars
  <2>2. StreamTypeOK'
    BY <2>1 DEF TypeOK, StreamTypeOK, ipoVars
  <2> QED
    BY <2>1, <2>2, EnvUntouched, AppUntouched DEF TypeOK
<1>2. CASE Next
  BY <1>2, TickType, ArriveType, PollType, ProcessPacketType,
     CorruptedPacketType, AssembleType DEF Next
<1> QED
  BY <1>1, <1>2

\* Type correctness of the receive stream: m_index always designates a slot
\* of the buffer (get_next_chunk never indexes m_ext_packet_info_arr past its
\* end), whatever the network does.
THEOREM TypeCorrect == Spec => []TypeOK
  BY InitTypeOK, NextTypeOK, PTL DEF Spec

-----------------------------------------------------------------------------
(* The slots of the buffer.                                                *)

\* Invalidating slots makes no other slot valid and changes nothing else.
LEMMA InvalidateOnlyClears ==
    ASSUME m_ext_packet_info_arr \in [Slots -> PacketInfo], NEW slots, NEW s \in Slots,
           m_ext_packet_info_arr' = Invalidate(slots), Valid(s)'
    PROVE  Valid(s) /\ m_ext_packet_info_arr'[s] = m_ext_packet_info_arr[s]
<1>1. CASE s \in slots
  <2>1. m_ext_packet_info_arr'[s] = [m_ext_packet_info_arr[s] EXCEPT !.is_valid = FALSE]
    BY <1>1 DEF Invalidate
  <2>2. m_ext_packet_info_arr[s] \in PacketInfo
    OBVIOUS
  <2>3. m_ext_packet_info_arr'[s].is_valid = FALSE
    BY <2>1, <2>2 DEF PacketInfo
  <2> QED
    BY <2>3 DEF Valid
<1>2. CASE s \notin slots
  BY <1>2 DEF Invalidate, Valid
<1> QED
  BY <1>1, <1>2

\* The steps that leave the slots alone.
SlotsUntouched ==
    UNCHANGED <<m_ext_packet_info_arr, m_path_packets>> /\ m_now <= m_now'

\* Outside process_completion and the delivery of a chunk no step touches the
\* slots, and m_now only grows.
LEMMA OtherStepsKeepSlots ==
    ASSUME TypeOK, [Next]_vars, ~ProcessPacket, ~SkipAndDeliver
    PROVE  SlotsUntouched
<1>1. m_now \in Nat /\ clk \in Nat
  BY DEF TypeOK, EnvTypeOK, StreamTypeOK
<1>2. CASE UNCHANGED vars
  BY <1>1, <1>2 DEF vars, ipoVars, appVars, SlotsUntouched
<1>3. CASE TickSilent \/ TickSend \/ \E seq \in RestartSeqs : TickRestart(seq)
  BY <1>1, <1>3 DEF TickSilent, TickSend, TickRestart, ipoVars, appVars, SlotsUntouched
<1>4. CASE \E p \in Paths : Arrive(p) \/ SyncPath(p)
  BY <1>1, <1>4 DEF Arrive, SyncPath, ipoVars, appVars, SlotsUntouched
<1>5. CASE \E p \in Paths : TakeChunk(p) \/ TakeChunkFails(p)
  BY <1>1, <1>5 DEF TakeChunk, TakeChunkFails, ipoVars, appVars, SlotsUntouched
<1>6. CASE Start \/ PollBegin
  BY <1>1, <1>6 DEF Start, PollBegin, appVars, SlotsUntouched
<1>7. CASE HandleCorruptedPacket
  BY <1>1, <1>7 DEF HandleCorruptedPacket, ipoVars, SlotsUntouched
<1>8. CASE Assemble
  BY <1>1, <1>8
  DEF Assemble, ReturnsNothingYet, BecomesWaiting, NotRipeYet, ipoVars, appVars,
      SlotsUntouched
<1> QED
  BY <1>2, <1>3, <1>4, <1>5, <1>6, <1>7, <1>8 DEF Next

\* What a step may do to the state of the stream: only process_completion
\* makes it Running, and it leaves Running only over an empty buffer.
LEMMA StateChanges ==
    ASSUME [Next]_vars, ~ProcessPacket, m_state' # "Running"
    PROVE  m_state # "Running" \/ (NothingFound /\ UNCHANGED m_ext_packet_info_arr)
<1>1. CASE UNCHANGED vars
  BY <1>1 DEF vars, ipoVars
<1>2. CASE TickSilent \/ TickSend \/ \E seq \in RestartSeqs : TickRestart(seq)
  BY <1>2 DEF TickSilent, TickSend, TickRestart, ipoVars
<1>3. CASE \E p \in Paths : Arrive(p) \/ SyncPath(p)
  BY <1>3 DEF Arrive, SyncPath, ipoVars
<1>4. CASE \E p \in Paths : TakeChunk(p) \/ TakeChunkFails(p)
  BY <1>4 DEF TakeChunk, TakeChunkFails, ipoVars
<1>5. CASE Start \/ PollBegin
  BY <1>5 DEF Start, PollBegin
<1>6. CASE HandleCorruptedPacket
  BY <1>6 DEF HandleCorruptedPacket, ipoVars
<1>7. CASE Assemble
  BY <1>7
  DEF Assemble, ReturnsNothingYet, BecomesWaiting, NotRipeYet, SkipAndDeliver, ipoVars
<1> QED
  BY <1>1, <1>2, <1>3, <1>4, <1>5, <1>6, <1>7 DEF Next

\* A delivery happens in State::Running and stays there.
LEMMA EmptyPreserved ==
    ASSUME TypeOK, EmptyUnlessRunning, [Next]_vars
    PROVE  EmptyUnlessRunning'
<1> SUFFICES ASSUME m_state' # "Running", NEW s \in Slots
             PROVE  ~Valid(s)'
  BY DEF EmptyUnlessRunning, Slots, WrapAround
<1>1. ~ProcessPacket /\ ~SkipAndDeliver
  BY DEF ProcessPacket, UpdateState, SkipAndDeliver, CanAssemble
<1>2. ~Valid(s)
  BY <1>1, StateChanges DEF EmptyUnlessRunning, NothingFound
<1>3. m_ext_packet_info_arr' = m_ext_packet_info_arr
  BY <1>1, OtherStepsKeepSlots DEF SlotsUntouched
<1> QED
  BY <1>2, <1>3 DEF Valid

\* The slots stay consistent: process_completion writes sequence number, time
\* and path of a slot together, and a delivery only clears flags.
LEMMA SlotsPreserved ==
    ASSUME TypeOK, SlotsConsistent, [Next]_vars
    PROVE  SlotsConsistent'
<1> DEFINE Good(s) == /\ m_ext_packet_info_arr[s].sequence_number % WrapAround = s
                      /\ Stamp(s) <= m_now
                      /\ m_path_packets[s] # {}
<1> SUFFICES ASSUME NEW s \in Slots, Valid(s)'
             PROVE  Good(s)'
  BY DEF SlotsConsistent, Slots, WrapAround
<1>1. Valid(s) => Good(s)
  BY DEF SlotsConsistent
<1>2. /\ m_ext_packet_info_arr \in [Slots -> PacketInfo]
      /\ m_path_packets \in [Slots -> SUBSET Paths]
      /\ m_now \in Nat /\ Stamp(s) \in Nat
  BY DEF TypeOK, StreamTypeOK, AppTypeOK, Stamp, PacketInfo
<1>3. CASE ~ProcessPacket /\ ~SkipAndDeliver
  <2>1. SlotsUntouched
    BY <1>3, OtherStepsKeepSlots
  <2>2. m_now' \in Nat
    BY NextTypeOK DEF TypeOK, StreamTypeOK
  <2> QED
    BY <1>1, <1>2, <2>1, <2>2 DEF SlotsUntouched, Valid, Stamp, WrapAround
<1>4. CASE SkipAndDeliver
  <2>1. PICK slots : m_ext_packet_info_arr' = Invalidate(slots)
    BY <1>4 DEF SkipAndDeliver
  <2>2. Valid(s) /\ m_ext_packet_info_arr'[s] = m_ext_packet_info_arr[s]
    BY <1>2, <2>1, InvalidateOnlyClears
  <2> QED
    BY <1>1, <1>4, <2>2 DEF SkipAndDeliver, Stamp, WrapAround
<1>5. CASE ProcessPacket
  <2> DEFINE seq == SeqOf(Head(todo))
             p == pollPath - 1
  <2>1. m_now' = m_now
        /\ (HandleLatePacket(seq) \/ HandlePacket(p, seq) \/ HandleRedundantPacket(p, seq))
    BY <1>5 DEF ProcessPacket
  <2> HIDE DEF seq, p
  <2>2. CASE HandleLatePacket(seq)
    BY <1>1, <2>1, <2>2 DEF HandleLatePacket, Valid, Stamp, WrapAround
  <2>3. CASE HandlePacket(p, seq)
    <3>1. CASE s = seq % WrapAround
      BY <1>2, <2>1, <2>3, <3>1 DEF HandlePacket, Stamp
    <3>2. CASE s # seq % WrapAround
      <4>1. /\ m_ext_packet_info_arr'[s] = m_ext_packet_info_arr[s]
            /\ m_path_packets'[s] = m_path_packets[s]
        BY <1>2, <2>3, <3>2 DEF HandlePacket
      <4> QED
        BY <1>1, <2>1, <4>1 DEF Valid, Stamp
    <3> QED
      BY <3>1, <3>2
  <2>4. CASE HandleRedundantPacket(p, seq)
    <3>1. m_path_packets'[s] # {}
      <4>1. CASE s = seq % WrapAround
        BY <1>2, <2>4, <4>1 DEF HandleRedundantPacket
      <4>2. CASE s # seq % WrapAround
        BY <1>1, <1>2, <2>4, <4>2 DEF HandleRedundantPacket, Valid
      <4> QED
        BY <4>1, <4>2
    <3>2. m_ext_packet_info_arr' = m_ext_packet_info_arr
      BY <2>4 DEF HandleRedundantPacket
    <3> QED
      BY <1>1, <2>1, <3>1, <3>2 DEF Valid, Stamp
  <2> QED
    BY <2>1, <2>2, <2>3, <2>4
<1> QED
  BY <1>3, <1>4, <1>5

\* The inductive invariant: the slots' consistency rests on the types.
IInv == TypeOK /\ EmptyUnlessRunning /\ SlotsConsistent

\* The invariant holds initially and every step keeps it.
LEMMA IInvInductive == (Init => IInv) /\ (IInv /\ [Next]_vars => IInv')
<1>1. Init => IInv
  BY InitTypeOK DEF IInv, Init, EmptyUnlessRunning, SlotsConsistent, Valid
<1>2. IInv /\ [Next]_vars => IInv'
  BY NextTypeOK, EmptyPreserved, SlotsPreserved DEF IInv
<1> QED
  BY <1>1, <1>2

\* Outside State::Running no slot holds an undelivered packet, so the
\* repositioning of m_index after a sender restart strands none.
THEOREM NothingStranded == Spec => []EmptyUnlessRunning
<1>1. IInv => EmptyUnlessRunning
  BY DEF IInv
<1> QED
  BY IInvInductive, <1>1, PTL DEF Spec

\* A slot marked valid carries a sequence number that selects it, a time no
\* later than the current poll, and at least one path.
THEOREM SlotsAgree == Spec => []SlotsConsistent
<1>1. IInv => SlotsConsistent
  BY DEF IInv
<1> QED
  BY IInvInductive, <1>1, PTL DEF Spec

-----------------------------------------------------------------------------
(* Positions in the stream, sequence numbers and slots.                    *)

\* A number is a multiple of SeqMod away from its sequence number, and
\* SeqMod is a multiple of the size of the buffer.
LEMMA SlotIsRemainder ==
    ASSUME BufferDivides, NEW x \in Int
    PROVE  SlotOf(x) = x % WrapAround
<1> DEFINE q == x \div SeqMod
           m == SeqMod \div WrapAround
           W == WrapAround
<1>1. W \in Nat \ {0} /\ SeqMod \in Nat \ {0}
  BY WrapAroundType, ReceiverAssumption
<1>2. q \in Int /\ SeqOf(x) \in Int /\ x = q * SeqMod + SeqOf(x)
  BY <1>1, Parts DEF SeqOf
<1>3. m \in Int /\ SeqMod = m * W
  <2>1. m \in Int /\ SeqMod = m * W + (SeqMod % W)
    BY <1>1, Parts
  <2>2. SeqMod % W = 0
    BY DEF BufferDivides
  <2> HIDE DEF m, W
  <2>3. m * W \in Int
    BY <1>1, <2>1, Products
  <2> QED
    BY <2>1, <2>2, <2>3
<1> HIDE DEF q, m, W
<1>4. q * m \in Int /\ q * (m * W) = (q * m) * W
  <2>1. \A a, b, c \in Int : a * (b * c) = (a * b) * c /\ a * b \in Int
    BY Z3
  <2> QED
    BY <1>1, <1>2, <1>3, <2>1
<1>5. x = SeqOf(x) + (q * m) * W
  <2>1. (q * m) * W \in Int
    BY <1>1, <1>4, Products
  <2> QED
    BY <1>2, <1>3, <1>4, <2>1
<1>6. (SeqOf(x) + (q * m) * W) % W = SeqOf(x) % W
  BY <1>1, <1>2, <1>4, MultipleVanishes
<1> QED
  BY <1>5, <1>6 DEF SlotOf, W

\* Numbers less than r apart with the same remainder are equal.
LEMMA CloseRemainders ==
    ASSUME NEW a \in Int, NEW b \in Int, NEW r \in Nat \ {0},
           a % r = b % r, a - b < r, b - a < r
    PROVE  a = b
<1> DEFINE p == a \div r
           q == b \div r
           u == a % r
<1>1. p \in Int /\ q \in Int /\ u \in 0..(r - 1) /\ a = p * r + u /\ b = q * r + u
  BY Parts
<1> HIDE DEF p, q, u
<1>2. /\ p * r \in Int /\ q * r \in Int
      /\ p + 1 <= q => p * r + r <= q * r
      /\ q + 1 <= p => q * r + r <= p * r
  BY <1>1, Products
<1>3. p = q
  BY <1>1, <1>2
<1> QED
  BY <1>1, <1>3

\* Packets less than a buffer apart do not share a slot.
LEMMA CloseSlots ==
    ASSUME BufferDivides, NEW x \in Int, NEW y \in Int,
           SlotOf(x) = SlotOf(y), x - y < WrapAround, y - x < WrapAround
    PROVE  x = y
<1>1. WrapAround \in Nat \ {0} /\ x % WrapAround = y % WrapAround
  BY SlotIsRemainder, WrapAroundType
<1> QED
  BY <1>1, CloseRemainders

\* Packets less than a sequence number range apart differ in their numbers.
LEMMA CloseSequence ==
    ASSUME NEW x \in Int, NEW y \in Int,
           SeqOf(x) = SeqOf(y), x - y < SeqMod, y - x < SeqMod
    PROVE  x = y
  BY CloseRemainders, ReceiverAssumption DEF SeqOf

\* The same sequence number means the same slot.
LEMMA SameSequenceSameSlot ==
    ASSUME NEW x, NEW y, SeqOf(x) = SeqOf(y)
    PROVE  SlotOf(x) = SlotOf(y)
  BY DEF SlotOf

\* A step of k slots is a step of k packets.
LEMMA PlusIsSlot ==
    ASSUME BufferDivides, NEW x \in Int, NEW k \in Nat
    PROVE  Plus(SlotOf(x), k) = SlotOf(x + k)
<1> DEFINE W == WrapAround
           q == x \div W
           u == x % W
<1>1. W \in Nat \ {0}
  BY WrapAroundType
<1>2. q \in Int /\ u \in 0..(W - 1) /\ x = q * W + u
  BY <1>1, Parts
<1> HIDE DEF W, q
<1>3. q * W \in Int
  BY <1>1, <1>2, Products
<1>4. x + k = (u + k) + q * W /\ u + k \in Int
  BY <1>1, <1>2, <1>3
<1>5. ((u + k) + q * W) % W = (u + k) % W
  BY <1>1, <1>2, <1>4, MultipleVanishes
<1>6. SlotOf(x) = u /\ SlotOf(x + k) = (x + k) % W
  BY SlotIsRemainder DEF W
<1> QED
  BY <1>4, <1>5, <1>6 DEF Plus, W

\* Until the end of the buffer the slot grows with the packet.
LEMMA NextSlots ==
    ASSUME BufferDivides, NEW x \in Int, NEW k \in Nat, SlotOf(x) + k < WrapAround
    PROVE  SlotOf(x + k) = SlotOf(x) + k
<1>1. SlotOf(x) \in Slots /\ WrapAround \in Nat \ {0}
  BY SeqOfType, WrapAroundType
<1>2. SlotOf(x) + k \in 0..(WrapAround - 1)
  BY <1>1 DEF Slots
<1>3. (SlotOf(x) + k) % WrapAround = SlotOf(x) + k
  BY <1>1, <1>2, SmallRemainder
<1> QED
  BY <1>3, PlusIsSlot DEF Plus

\* m_index after the packet of a slot is the slot of the next packet.
LEMMA IndexAfterIsSlot ==
    ASSUME BufferDivides, NEW x \in Int
    PROVE  IndexAfter(SlotOf(x), 1) = SlotOf(x + 1)
<1>1. SlotOf(x) \in Slots /\ WrapAround \in Nat \ {0}
  BY SeqOfType, WrapAroundType
<1>2. CASE SlotOf(x) + 1 < WrapAround
  <2>1. SlotOf(x + 1) = SlotOf(x) + 1
    BY <1>2, NextSlots
  <2> QED
    BY <1>1, <1>2, <2>1 DEF IndexAfter, Slots
<1>3. CASE SlotOf(x) + 1 >= WrapAround
  <2>1. SlotOf(x) + 1 = WrapAround
    BY <1>1, <1>3 DEF Slots
  <2>2. WrapAround % WrapAround = 0 % WrapAround /\ 0 % WrapAround = 0
    <3>1. 0 \in Int /\ WrapAround = 0 + WrapAround /\ 0 \in 0..(WrapAround - 1)
      BY <1>1
    <3> QED
      BY <1>1, <3>1, OnceRound, SmallRemainder
  <2>3. SlotOf(x + 1) = 0
    BY <2>1, <2>2, PlusIsSlot DEF Plus
  <2> QED
    BY <2>1, <2>3, <1>1 DEF IndexAfter
<1> QED
  BY <1>1, <1>2, <1>3 DEF Slots

-----------------------------------------------------------------------------
(* What is under way, as sets.                                             *)

Elements(seq) == {seq[i] : i \in DOMAIN seq}

\* The packets on their way on a path, those its sub-stream holds, and those
\* of the completion being processed.
FlightOf(p) == Elements(flight[p])
QueueOf(p) == Elements(cq[p])
Processing == Elements(todo)

\* What a queue holds after an arrival.
LEMMA ElementsAppend ==
    ASSUME NEW T, NEW seq \in Seq(T), NEW e \in T
    PROVE  Elements(Append(seq, e)) = Elements(seq) \cup {e}
<1> DEFINE r == Append(seq, e)
<1>1. r \in Seq(T) /\ Len(r) = Len(seq) + 1 /\ Len(seq) \in Nat
  OBVIOUS
<1>2. \A i \in 1..Len(seq) : r[i] = seq[i]
  OBVIOUS
<1>3. r[Len(seq) + 1] = e
  OBVIOUS
<1>4. DOMAIN r = 1..(Len(seq) + 1) /\ DOMAIN seq = 1..Len(seq)
  BY <1>1
<1> HIDE DEF r
<1>5. DOMAIN r = DOMAIN seq \cup {Len(seq) + 1}
  BY <1>1, <1>4
<1>6. Elements(r) = {r[i] : i \in DOMAIN seq} \cup {r[Len(seq) + 1]}
  BY <1>5 DEF Elements
<1> QED
  BY <1>2, <1>3, <1>4, <1>6 DEF Elements, r

\* What a queue holds without its head.
LEMMA ElementsTail ==
    ASSUME NEW T, NEW seq \in Seq(T), seq # <<>>
    PROVE  Elements(seq) = {Head(seq)} \cup Elements(Tail(seq))
<1> DEFINE r == Tail(seq)
<1>1. /\ Len(seq) \in Nat /\ Len(seq) > 0 /\ Len(r) = Len(seq) - 1
      /\ DOMAIN seq = 1..Len(seq) /\ DOMAIN r = 1..(Len(seq) - 1)
      /\ \A i \in 1..(Len(seq) - 1) : r[i] = seq[i + 1]
      /\ Head(seq) = seq[1]
  OBVIOUS
<1> HIDE DEF r
<1>2. ASSUME NEW x \in Elements(seq) PROVE x \in {Head(seq)} \cup Elements(r)
  <2>1. PICK i \in 1..Len(seq) : x = seq[i]
    BY <1>1 DEF Elements
  <2>2. CASE i = 1
    BY <1>1, <2>1, <2>2
  <2>3. CASE i # 1
    <3>1. i - 1 \in DOMAIN r /\ r[i - 1] = seq[i]
      BY <1>1, <2>3
    <3> QED
      BY <2>1, <3>1 DEF Elements
  <2> QED
    BY <2>2, <2>3
<1>3. ASSUME NEW x \in Elements(r) PROVE x \in Elements(seq)
  <2>1. PICK i \in 1..(Len(seq) - 1) : x = r[i]
    BY <1>1, <1>3 DEF Elements
  <2>2. i + 1 \in DOMAIN seq /\ x = seq[i + 1]
    BY <1>1, <2>1
  <2> QED
    BY <2>2 DEF Elements
<1>4. Head(seq) \in Elements(seq)
  <2>1. 1 \in DOMAIN seq
    BY <1>1
  <2> QED
    BY <1>1, <2>1 DEF Elements
<1> QED
  BY <1>2, <1>3, <1>4 DEF r

\* What is left of a queue was in it.
LEMMA ElementsSuffix ==
    ASSUME NEW T, NEW seq \in Seq(T), NEW m \in 0..Len(seq)
    PROVE  Elements(SubSeq(seq, m + 1, Len(seq))) \subseteq Elements(seq)
<1> DEFINE a == m + 1
           b == Len(seq)
           r == SubSeq(seq, a, b)
<1>1. a \in Int /\ a >= 1 /\ b \in Int /\ DOMAIN seq = 1..b
  OBVIOUS
<1>2. \A j \in 1..b : seq[j] \in T
  OBVIOUS
<1> HIDE DEF a, b
<1>3. \A j \in a..b : seq[j] \in T
  BY <1>1, <1>2
<1>4. /\ Len(r) = IF a <= b THEN b - a + 1 ELSE 0
      /\ \A i \in 1..(b - a + 1) : r[i] = seq[a + i - 1]
      /\ r \in Seq(T)
  BY <1>1, <1>3, SubSeqProperties
<1> HIDE DEF r
<1>5. DOMAIN r = 1..Len(r)
  BY <1>4
<1>6. \A i \in DOMAIN r : r[i] = seq[a + i - 1] /\ a + i - 1 \in DOMAIN seq
  BY <1>1, <1>4, <1>5
<1>7. Elements(r) \subseteq Elements(seq)
  BY <1>6 DEF Elements
<1> QED
  BY <1>7 DEF r, a, b

\* What a queue holds has the type of its elements.
LEMMA ElementsType ==
    ASSUME NEW T, NEW seq \in Seq(T)
    PROVE  Elements(seq) \subseteq T
  BY DEF Elements

\* The types of the sets.
LEMMA UnderWayTypes ==
    ASSUME TypeOK
    PROVE  /\ \A p \in Paths : /\ FlightOf(p) \subseteq [id : Nat \cup {Corrupted}, due : Nat]
                               /\ QueueOf(p) \subseteq Nat \cup {Corrupted}
           /\ Processing \subseteq Nat \cup {Corrupted}
<1> DEFINE Flying == [id : Nat \cup {Corrupted}, due : Nat]
           Arrived == Nat \cup {Corrupted}
<1>1. /\ \A p \in Paths : flight[p] \in Seq(Flying) /\ cq[p] \in Seq(Arrived)
      /\ todo \in Seq(Arrived)
  BY DEF TypeOK, EnvTypeOK, StreamTypeOK, Completion
<1> HIDE DEF Flying, Arrived
<1>2. /\ \A p \in Paths : FlightOf(p) \subseteq Flying /\ QueueOf(p) \subseteq Arrived
      /\ Processing \subseteq Arrived
  BY <1>1, ElementsType DEF FlightOf, QueueOf, Processing
<1> QED
  BY <1>2 DEF Flying, Arrived

\* Without restarts the sender numbers its packets one after the other.
LEMMA SendSets ==
    ASSUME TypeOK, TickSend
    PROVE  /\ clk' = clk + 1 /\ nextId' = nextId + 1 /\ lostOn \subseteq lostOn'
           /\ lostOn' \subseteq lostOn \cup (Paths \X {nextId})
           /\ \A p \in Paths :
                /\ FlightOf(p) \subseteq FlightOf(p)'
                /\ \A f \in FlightOf(p)' \ FlightOf(p) :
                      /\ f.id = nextId => <<p, nextId>> \notin lostOn' \ lostOn
                      /\ f.id \in {Corrupted, nextId}
                      /\ clk + 1 <= f.due /\ f.due <= clk + 1 + Skew
                /\ \/ <<p, nextId>> \in lostOn'
                   \/ \E f \in FlightOf(p)' : f.id = nextId
<1> DEFINE id == nextId
           Flying == [id : Nat \cup {Corrupted}, due : Nat]
<1>1. id \in Nat /\ clk \in Nat /\ clk' = clk + 1 /\ nextId' = nextId + 1
  BY DEF TypeOK, EnvTypeOK, TickSend, TimePasses, SendPacket
<1>2. PICK lost \in SUBSET Paths, bad \in SUBSET Paths, delay \in [Paths -> 0..Skew] :
          /\ lostOn' = lostOn \cup ((lost \cup bad) \X {id})
          /\ flight' = [p \in Paths |->
                 IF p \in lost THEN flight[p]
                 ELSE Append(flight[p],
                             [id  |-> IF p \in bad THEN Corrupted ELSE id,
                              due |-> clk + 1 + delay[p]])]
  BY ZenonT(60) DEF SendPacket, TickSend
<1>3. lostOn \subseteq lostOn' /\ lostOn' \subseteq lostOn \cup (Paths \X {id})
  BY <1>2
<1>4. ASSUME NEW p \in Paths
      PROVE  /\ FlightOf(p) \subseteq FlightOf(p)'
             /\ \A f \in FlightOf(p)' \ FlightOf(p) :
                   /\ f.id = id => <<p, id>> \notin lostOn' \ lostOn
                   /\ f.id \in {Corrupted, id}
                   /\ clk + 1 <= f.due /\ f.due <= clk + 1 + Skew
             /\ \/ <<p, id>> \in lostOn'
                \/ \E f \in FlightOf(p)' : f.id = id
  <2>1. CASE p \in lost
    <3>1. FlightOf(p)' = FlightOf(p)
      BY <1>2, <2>1 DEF FlightOf, Elements
    <3>2. <<p, id>> \in lostOn'
      BY <1>2, <2>1
    <3> QED
      BY <3>1, <3>2
  <2>2. CASE p \notin lost
    <3> DEFINE f == [id  |-> IF p \in bad THEN Corrupted ELSE id,
                     due |-> clk + 1 + delay[p]]
    <3>1. delay[p] \in Nat /\ delay[p] <= Skew
      BY EnvironmentAssumption
    <3>2. f \in Flying
      BY <1>1, <3>1
    <3>3. flight[p] \in Seq(Flying)
      BY DEF TypeOK, EnvTypeOK
    <3>4. flight'[p] = Append(flight[p], f)
      BY <1>2, <2>2
    <3>5. f.id \in {Corrupted, id} /\ f.due = clk + 1 + delay[p]
          /\ (p \in bad => f.id = Corrupted) /\ (p \notin bad => f.id = id)
      OBVIOUS
    <3>6. p \notin bad => <<p, id>> \notin lostOn' \ lostOn
      BY <1>2, <2>2
    <3>7. p \in bad => <<p, id>> \in lostOn'
      BY <1>2
    <3>8. Corrupted # id
      BY <1>1 DEF Corrupted
    <3> HIDE DEF f, Flying
    <3>9. FlightOf(p)' = FlightOf(p) \cup {f}
      BY <3>2, <3>3, <3>4, ElementsAppend DEF FlightOf
    <3> QED
      BY <1>1, <3>1, <3>5, <3>6, <3>7, <3>8, <3>9, EnvironmentAssumption
  <2> QED
    BY <2>1, <2>2
<1> QED
  BY <1>1, <1>3, <1>4

\* A packet arrives: it is the first one on its way, and the last one the
\* sub-stream holds.
LEMMA ArriveSets ==
    ASSUME TypeOK, NEW p \in Paths, Arrive(p)
    PROVE  \E f \in FlightOf(p) :
             /\ f.due <= clk
             /\ FlightOf(p) = {f} \cup FlightOf(p)'
             /\ QueueOf(p)' = QueueOf(p) \cup {f.id}
             /\ \A q \in Paths \ {p} :
                   FlightOf(q)' = FlightOf(q) /\ QueueOf(q)' = QueueOf(q)
             /\ mem' = IF f.id = Corrupted THEN mem ELSE [mem EXCEPT ![SlotOf(f.id)] = f.id]
<1> DEFINE Flying == [id : Nat \cup {Corrupted}, due : Nat]
           f == Head(flight[p])
<1>1. flight \in [Paths -> Seq(Flying)] /\ flight[p] # <<>>
      /\ cq \in [Paths -> Seq(Nat \cup {Corrupted})]
  BY DEF TypeOK, EnvTypeOK, Arrive, Completion
<1>2. /\ flight' = [flight EXCEPT ![p] = Tail(@)]
      /\ cq' = [cq EXCEPT ![p] = Append(@, f.id)]
      /\ mem' = IF f.id = Corrupted THEN mem ELSE [mem EXCEPT ![SlotOf(f.id)] = f.id]
      /\ f.due <= clk
  BY DEF Arrive
<1> HIDE DEF Flying
<1>3. FlightOf(p) = {f} \cup Elements(Tail(flight[p])) /\ FlightOf(p) \subseteq Flying
  BY <1>1, ElementsTail, ElementsType DEF FlightOf
<1>4. f.id \in Nat \cup {Corrupted}
  BY <1>3 DEF Flying
<1>5. QueueOf(p)' = QueueOf(p) \cup {f.id}
  <2>1. cq'[p] = Append(cq[p], f.id) /\ cq[p] \in Seq(Nat \cup {Corrupted})
    BY <1>1, <1>2
  <2> HIDE DEF f
  <2> QED
    BY <1>4, <2>1, ElementsAppend DEF QueueOf
<1>6. FlightOf(p)' = Elements(Tail(flight[p]))
  BY <1>1, <1>2 DEF FlightOf
<1>7. \A q \in Paths \ {p} : FlightOf(q)' = FlightOf(q) /\ QueueOf(q)' = QueueOf(q)
  BY <1>1, <1>2 DEF FlightOf, QueueOf
<1> HIDE DEF f
<1> QED
  BY <1>2, <1>3, <1>5, <1>6, <1>7

\* synchronous_start throws away what it takes.
LEMMA SyncSets ==
    ASSUME TypeOK, NEW p \in Paths, SyncPath(p)
    PROVE  \A q \in Paths : QueueOf(q)' \subseteq QueueOf(q)
<1>1. cq \in [Paths -> Seq(Nat \cup {Corrupted})] /\ cq' = [cq EXCEPT ![p] = RestOf(p)]
  BY DEF TypeOK, EnvTypeOK, Completion, SyncPath
<1>2. Len(cq[p]) \in Nat /\ TakenFrom(p) \in 0..Len(cq[p])
  BY <1>1, ReceiverAssumption DEF TakenFrom
<1>3. Elements(RestOf(p)) \subseteq Elements(cq[p])
  BY <1>1, <1>2, ElementsSuffix DEF RestOf
<1> QED
  BY <1>1, <1>3 DEF QueueOf

\* A poll takes all a sub-stream holds when that fits one completion.
LEMMA TakeSets ==
    ASSUME TypeOK, NEW p \in Paths, TakeChunk(p), Len(cq[p]) <= MaxChunk
    PROVE  /\ Processing' = QueueOf(p) /\ QueueOf(p)' = {}
           /\ \A q \in Paths \ {p} : QueueOf(q)' = QueueOf(q)
<1>1. cq \in [Paths -> Seq(Nat \cup {Corrupted})] /\ cq' = [cq EXCEPT ![p] = RestOf(p)]
      /\ todo' = SubSeq(cq[p], 1, TakenFrom(p))
  BY DEF TypeOK, EnvTypeOK, Completion, TakeChunk
<1>2. TakenFrom(p) = Len(cq[p])
  BY DEF TakenFrom
<1>3. SubSeq(cq[p], 1, Len(cq[p])) = cq[p] /\ SubSeq(cq[p], Len(cq[p]) + 1, Len(cq[p])) = <<>>
  BY <1>1
<1>4. Elements(<<>>) = {}
  BY DEF Elements
<1> QED
  BY <1>1, <1>2, <1>3, <1>4 DEF QueueOf, Processing, RestOf

\* Processing works through the completion.
LEMMA ProcessSets ==
    ASSUME TypeOK, ProcessPacket \/ HandleCorruptedPacket
    PROVE  Processing = {Head(todo)} \cup Processing' /\ Head(todo) \in Nat \cup {Corrupted}
<1>1. todo \in Seq(Nat \cup {Corrupted}) /\ todo # <<>> /\ todo' = Tail(todo)
  BY DEF TypeOK, StreamTypeOK, Completion, ProcessPacket, HandleCorruptedPacket
<1> QED
  BY <1>1, ElementsTail, HeadTailProperties DEF Processing

-----------------------------------------------------------------------------
(* Time.                                                                   *)

\* The waits are numbers, and LongestWait is the longest of them.
LEMMA WaitTypes ==
    /\ Gap \in Nat /\ LongestWait \in Nat
    /\ PollGap <= Gap /\ PollTicks <= Gap /\ Gap <= LongestWait /\ MaxStart <= LongestWait
  BY EnvironmentAssumption DEF Gap, LongestWait

\* How far the clock runs ahead of the last poll, and how far ahead of it the
\* initial sync lies.
ClockOK ==
    /\ m_now <= clk /\ clk <= m_now + LongestWait
    /\ pollPath # 0 => clk <= m_now + PollTicks
    /\ m_state = "NotStarted" => pollPath = 0 /\ clk <= MaxStart
    /\ m_start_time <= clk + MaxPathDiff
    /\ pollPath # 0 \/ Placed => m_start_time <= m_now + MaxPathDiff

DueInOrder(seq) == \A i, j \in DOMAIN seq : i <= j => seq[i].due <= seq[j].due

\* Nothing on its way is overdue or later than Skew, and a path keeps its order.
NetworkOK ==
    /\ \A p \in Paths : DueInOrder(flight[p])
    /\ \A p \in Paths : \A f \in FlightOf(p) :
           clk <= f.due /\ f.due <= clk + Skew /\ f.id < nextId
    /\ \A p \in Paths : \A x \in QueueOf(p) : x < nextId
    /\ \A x \in Processing : x < nextId

\* The steps of the stream once the sender does not restart.
LEMMA StepCases ==
    ASSUME [Next]_vars, RestartSeqs = {}
    PROVE  \/ UNCHANGED vars \/ TickSilent \/ TickSend
           \/ \E p \in Paths : Arrive(p) \/ SyncPath(p) \/ TakeChunk(p) \/ TakeChunkFails(p)
           \/ Start \/ PollBegin \/ ProcessPacket \/ HandleCorruptedPacket \/ Assemble
  BY DEF Next

\* Before the first packet is processed the stream is not placed.
LEMMA ProcessKeepsClock ==
    ASSUME ProcessPacket \/ HandleCorruptedPacket
    PROVE  UNCHANGED <<clk, nextId, flight, cq, mem, lostOn, m_now, pollPath, chunk, damaged>>
  BY DEF ProcessPacket, HandleCorruptedPacket, envVars, ipoVars, histVars

\* Assemble changes nothing outside the receiver, and ends the call.
LEMMA AssembleKeepsClock ==
    ASSUME Assemble
    PROVE  UNCHANGED <<clk, nextId, flight, cq, mem, lostOn, damaged, m_now, m_start_time, todo>>
           /\ pollPath = Done /\ pollPath' = 0 /\ todo = <<>>
           /\ (m_state' = m_state \/ (m_state = "Running" /\ m_state' = "Waiting"))
  BY DEF Assemble, ReturnsNothingYet, BecomesWaiting, NotRipeYet, SkipAndDeliver, CanAssemble,
         envVars, ipoVars, histVars

\* Every step keeps the clock within the polling gaps.
LEMMA ClockStep ==
    ASSUME TypeOK, ClockOK, [Next]_vars, RestartSeqs = {}
    PROVE  ClockOK'
<1>0. /\ clk \in Nat /\ m_now \in Nat /\ m_start_time \in Nat /\ pollPath \in 0..Ended
      /\ MaxPathDiff \in Nat /\ NumPaths \in Nat /\ NumPaths > 0
      /\ todo # <<>> => pollPath \in 2..Done
  BY ReceiverAssumption DEF TypeOK, EnvTypeOK, StreamTypeOK
<1>1. CASE UNCHANGED vars
  BY <1>1 DEF vars, ClockOK, envVars, ipoVars, Placed
<1>2. CASE TickSilent \/ TickSend
  <2>1. /\ UNCHANGED <<m_now, m_start_time, m_state, pollPath>> /\ TimePasses
    BY <1>2 DEF TickSilent, TickSend, ipoVars
  <2> QED
    BY <1>0, <2>1, WaitTypes, EnvironmentAssumption DEF ClockOK, Placed, TimePasses
<1>3. CASE \E p \in Paths : Arrive(p) \/ SyncPath(p)
  BY <1>3 DEF Arrive, SyncPath, ClockOK, Placed, ipoVars
<1>4. CASE \E p \in Paths : TakeChunk(p) \/ TakeChunkFails(p)
  <2>1. /\ UNCHANGED <<clk, m_now, m_start_time, m_state>> /\ pollPath # 0 /\ pollPath' # 0
    BY <1>0, <1>4 DEF TakeChunk, TakeChunkFails, envVars, ipoVars, Paths, Ended
  <2> QED
    BY <2>1 DEF ClockOK, Placed
<1>5. CASE Start
  BY <1>0, <1>5 DEF ClockOK, Placed, Start, envVars
<1>6. CASE PollBegin
  <2>1. clk' = clk /\ m_now' = clk /\ pollPath' = 1
    BY <1>6 DEF PollBegin, envVars
  <2>2. m_start_time' \in {m_start_time, clk + MaxPathDiff} /\ m_state' # "NotStarted"
    BY <1>6 DEF PollBegin
  <2> QED
    BY <1>0, <2>1, <2>2, WaitTypes, EnvironmentAssumption DEF ClockOK, Placed
<1>7. CASE ProcessPacket
  <2>1. /\ m_state' = "Running" /\ m_start_time' \in {m_start_time, m_now + MaxPathDiff}
        /\ pollPath # 0
    BY <1>0, <1>7 DEF ProcessPacket, UpdateState
  <2> QED
    BY <1>0, <1>7, <2>1, ProcessKeepsClock DEF ClockOK, Placed
<1>8. CASE HandleCorruptedPacket
  BY <1>8 DEF HandleCorruptedPacket, ClockOK, Placed, envVars, ipoVars
<1>9. CASE Assemble
  BY <1>0, <1>9, AssembleKeepsClock DEF ClockOK, Placed, Done
<1> QED
  BY <1>1, <1>2, <1>3, <1>4, <1>5, <1>6, <1>7, <1>8, <1>9, StepCases

\* When nothing is due at the head of a path nothing on it is due.
LEMMA NothingIsDue ==
    ASSUME TypeOK, NetworkOK, NothingDue, NEW p \in Paths, NEW f \in FlightOf(p)
    PROVE  clk < f.due
<1> DEFINE Flying == [id : Nat \cup {Corrupted}, due : Nat]
<1>1. flight[p] \in Seq(Flying)
  BY DEF TypeOK, EnvTypeOK
<1>2. PICK i \in DOMAIN flight[p] : f = flight[p][i]
  BY DEF FlightOf, Elements
<1>3. 1 \in DOMAIN flight[p] /\ 1 <= i /\ flight[p] # <<>> /\ Head(flight[p]) = flight[p][1]
  BY <1>1, <1>2
<1>4. Head(flight[p]).due > clk
  BY <1>3 DEF NothingDue
<1>5. flight[p][1].due <= flight[p][i].due
  BY <1>2, <1>3 DEF NetworkOK, DueInOrder
<1>6. \A x \in Flying : x.due \in Nat
  OBVIOUS
<1>7. clk \in Nat
  BY DEF TypeOK, EnvTypeOK
<1> HIDE DEF Flying
<1>8. flight[p][1] \in Flying /\ flight[p][i] \in Flying
  BY <1>1, <1>2, <1>3
<1>9. flight[p][1].due \in Nat /\ flight[p][i].due \in Nat
  BY <1>6, <1>8
<1> QED
  BY <1>2, <1>3, <1>4, <1>5, <1>7, <1>9

\* A packet sent last and due last keeps the order of a path.
LEMMA OrderAppend ==
    ASSUME NEW T, NEW seq \in Seq(T), NEW e \in T, DueInOrder(seq),
           \A x \in T : x.due \in Nat,
           seq # <<>> => seq[Len(seq)].due <= e.due
    PROVE  DueInOrder(Append(seq, e))
<1> DEFINE r == Append(seq, e)
<1>a. r \in Seq(T) /\ Len(r) = Len(seq) + 1 /\ Len(seq) \in Nat /\ r[Len(seq) + 1] = e
  OBVIOUS
<1>b. \A i \in 1..Len(seq) : r[i] = seq[i] /\ seq[i] \in T
  OBVIOUS
<1>c. DOMAIN seq = 1..Len(seq)
  OBVIOUS
<1> HIDE DEF r
<1>1. /\ Len(seq) \in Nat /\ DOMAIN seq = 1..Len(seq) /\ DOMAIN r = 1..(Len(seq) + 1)
      /\ \A i \in 1..Len(seq) : r[i] = seq[i] /\ seq[i] \in T
      /\ r[Len(seq) + 1] = e
  BY <1>a, <1>b, <1>c
<1> SUFFICES ASSUME NEW i \in DOMAIN r, NEW j \in DOMAIN r, i <= j
             PROVE  r[i].due <= r[j].due
  BY DEF DueInOrder, r
<1>2. CASE j <= Len(seq)
  BY <1>1, <1>2 DEF DueInOrder
<1>3. CASE j = Len(seq) + 1 /\ i <= Len(seq)
  <2>1. seq # <<>> /\ Len(seq) \in DOMAIN seq /\ i \in DOMAIN seq
    BY <1>1, <1>3
  <2>2. seq[i].due <= seq[Len(seq)].due /\ seq[Len(seq)].due <= e.due
    BY <1>1, <2>1 DEF DueInOrder
  <2>3. seq[i].due \in Nat /\ seq[Len(seq)].due \in Nat /\ e.due \in Nat
    BY <1>1, <2>1
  <2> QED
    BY <1>1, <1>3, <2>1, <2>2, <2>3
<1>4. CASE j = Len(seq) + 1 /\ i = Len(seq) + 1
  BY <1>1, <1>4
<1> QED
  BY <1>1, <1>2, <1>3, <1>4

\* So does the arrival of the first one.
LEMMA OrderTail ==
    ASSUME NEW T, NEW seq \in Seq(T), seq # <<>>, DueInOrder(seq)
    PROVE  DueInOrder(Tail(seq))
<1> DEFINE r == Tail(seq)
<1>1. /\ Len(seq) \in Nat /\ DOMAIN seq = 1..Len(seq) /\ DOMAIN r = 1..(Len(seq) - 1)
      /\ \A i \in 1..(Len(seq) - 1) : r[i] = seq[i + 1]
  OBVIOUS
<1> HIDE DEF r
<1>2. ASSUME NEW i \in DOMAIN r, NEW j \in DOMAIN r, i <= j
      PROVE  r[i].due <= r[j].due
  <2>1. i + 1 \in DOMAIN seq /\ j + 1 \in DOMAIN seq /\ i + 1 <= j + 1
        /\ r[i] = seq[i + 1] /\ r[j] = seq[j + 1]
    BY <1>1, <1>2
  <2> QED
    BY <2>1 DEF DueInOrder
<1> QED
  BY <1>2 DEF DueInOrder, r

\* Sending and arrival keep the order of a path.
LEMMA OrderStep ==
    ASSUME TypeOK, NetworkOK, [Next]_vars, RestartSeqs = {}, NEW p \in Paths
    PROVE  DueInOrder(flight'[p])
<1> DEFINE Flying == [id : Nat \cup {Corrupted}, due : Nat]
<1>1. flight \in [Paths -> Seq(Flying)] /\ DueInOrder(flight[p])
      /\ clk \in Nat /\ nextId \in Nat
  BY DEF TypeOK, EnvTypeOK, NetworkOK
<1>2. CASE TickSend
  <2>1. PICK lost \in SUBSET Paths, bad \in SUBSET Paths, delay \in [Paths -> 0..Skew] :
          /\ \A q \in Paths : flight[q] # <<>> =>
                 flight[q][Len(flight[q])].due <= clk + 1 + delay[q]
          /\ flight' = [q \in Paths |->
                 IF q \in lost THEN flight[q]
                 ELSE Append(flight[q],
                             [id  |-> IF q \in bad THEN Corrupted ELSE nextId,
                              due |-> clk + 1 + delay[q]])]
    BY <1>2, ZenonT(60) DEF SendPacket, TickSend
  <2>2. CASE p \in lost
    BY <1>1, <2>1, <2>2
  <2>3. CASE p \notin lost
    <3> DEFINE f == [id |-> IF p \in bad THEN Corrupted ELSE nextId, due |-> clk + 1 + delay[p]]
    <3>1. delay[p] \in Nat
      BY EnvironmentAssumption
    <3>2. f \in Flying /\ f.due = clk + 1 + delay[p]
      BY <1>1, <3>1
    <3>3. \A x \in Flying : x.due \in Nat
      OBVIOUS
    <3>4. flight'[p] = Append(flight[p], f) /\ flight[p] \in Seq(Flying)
          /\ (flight[p] # <<>> => flight[p][Len(flight[p])].due <= f.due)
      BY <1>1, <2>1, <2>3, <3>2
    <3> HIDE DEF f, Flying
    <3> QED
      BY <1>1, <3>2, <3>3, <3>4, OrderAppend
  <2> QED
    BY <2>2, <2>3
<1>3. CASE \E q \in Paths : Arrive(q)
  <2> HIDE DEF Flying
  <2>1. PICK q \in Paths : Arrive(q)
    BY <1>3
  <2>2. flight' = [flight EXCEPT ![q] = Tail(@)] /\ flight[q] # <<>>
    BY <2>1 DEF Arrive
  <2>3. CASE q = p
    BY <1>1, <2>2, <2>3, OrderTail
  <2>4. CASE q # p
    BY <1>1, <2>2, <2>4
  <2> QED
    BY <2>3, <2>4
<1>4. CASE ~TickSend /\ ~(\E q \in Paths : Arrive(q))
  <2>1. flight' = flight
    BY <1>4, StepCases, AssembleKeepsClock, ProcessKeepsClock
    DEF TickSilent, SyncPath, TakeChunk, TakeChunkFails, Start, PollBegin, envVars, vars
  <2> QED
    BY <1>1, <2>1
<1> QED
  BY <1>2, <1>3, <1>4

\* The numbers among the variables and constants.
LEMMA NumberTypes ==
    ASSUME TypeOK
    PROVE  /\ clk \in Nat /\ nextId \in Nat /\ m_now \in Nat /\ m_start_time \in Nat
           /\ pollPath \in 0..Ended /\ NumPaths \in Nat /\ NumPaths > 0
           /\ Skew \in Nat /\ PollTicks \in Nat /\ PollGap \in Nat /\ MaxPathDiff \in Nat
           /\ todo # <<>> => pollPath \in 2..Done
           /\ \A p \in Paths : p \in 1..NumPaths
           /\ Done = NumPaths + 1 /\ Ended = NumPaths + 2
           /\ Corrupted = -1
  BY ReceiverAssumption, EnvironmentAssumption
  DEF TypeOK, EnvTypeOK, StreamTypeOK, Paths, Done, Ended, Corrupted

\* Packets under way are numbers, and so are their times.
LEMMA UnderWayNumbers ==
    ASSUME TypeOK
    PROVE  /\ \A p \in Paths : \A f \in FlightOf(p) : f.due \in Nat /\ f.id \in Int
           /\ \A p \in Paths : \A x \in QueueOf(p) : x \in Int
           /\ \A x \in Processing : x \in Int
  BY UnderWayTypes DEF Corrupted

\* So are the times of those in flight after a step.
LEMMA FlightTypeNext ==
    ASSUME TypeOK'
    PROVE  \A p \in Paths : \A f \in FlightOf(p)' : f.due \in Int
<1> DEFINE Flying == [id : Nat \cup {Corrupted}, due : Nat]
<1> SUFFICES ASSUME NEW p \in Paths, NEW f \in FlightOf(p)' PROVE f.due \in Int
  OBVIOUS
<1>1. flight'[p] \in Seq(Flying)
  BY DEF TypeOK, EnvTypeOK
<1>2. \A x \in Flying : x.due \in Int
  OBVIOUS
<1> HIDE DEF Flying
<1>3. f \in Flying
  BY <1>1, ElementsType DEF FlightOf
<1> QED
  BY <1>2, <1>3

\* Every step keeps what is under way older than the next packet, and due in time.
LEMMA NetworkStep ==
    ASSUME TypeOK, ClockOK, NetworkOK, CompletionsFit, [Next]_vars, RestartSeqs = {}
    PROVE  NetworkOK'
<1>0. \A p \in Paths : DueInOrder(flight'[p])
  BY OrderStep
<1> SUFFICES /\ \A p \in Paths : \A f \in FlightOf(p)' :
                   clk' <= f.due /\ f.due <= clk' + Skew /\ f.id < nextId'
             /\ \A p \in Paths : \A x \in QueueOf(p)' : x < nextId'
             /\ \A x \in Processing' : x < nextId'
  BY <1>0 DEF NetworkOK
<1>t. /\ \A p \in Paths : \A f \in FlightOf(p) : f.due \in Nat /\ f.id \in Int
      /\ \A p \in Paths : \A x \in QueueOf(p) : x \in Int
      /\ \A x \in Processing : x \in Int
  BY UnderWayNumbers
<1>n. clk \in Nat /\ nextId \in Nat /\ Skew \in Nat
  BY NumberTypes
<1>1. CASE UNCHANGED vars \/ Start \/ PollBegin \/ Assemble
           \/ \E p \in Paths : TakeChunkFails(p)
  <2>1. UNCHANGED <<clk, nextId, flight, cq, todo>>
    BY <1>1, AssembleKeepsClock DEF vars, envVars, Start, PollBegin, TakeChunkFails
  <2> QED
    BY <2>1 DEF NetworkOK, FlightOf, QueueOf, Processing
<1>2. CASE TickSilent
  <2>1. clk' = clk + 1 /\ NothingDue /\ UNCHANGED <<nextId, flight, cq, todo>>
    BY <1>2 DEF TickSilent, TimePasses
  <2>2. \A p \in Paths : \A f \in FlightOf(p) : clk < f.due
    BY <2>1, NothingIsDue
  <2> QED
    BY <1>n, <1>t, <2>1, <2>2 DEF NetworkOK, FlightOf, QueueOf, Processing
<1>3. CASE TickSend
  <2>1. NothingDue /\ UNCHANGED <<cq, todo>>
    BY <1>3 DEF TickSend, TimePasses
  <2>2. \A p \in Paths : \A f \in FlightOf(p) : clk < f.due
    BY <2>1, NothingIsDue
  <2>3. \A p \in Paths : \A f \in FlightOf(p)' :
            clk' <= f.due /\ f.due <= clk' + Skew /\ f.id < nextId'
    <3> SUFFICES ASSUME NEW p \in Paths, NEW f \in FlightOf(p)'
                 PROVE  clk' <= f.due /\ f.due <= clk' + Skew /\ f.id < nextId'
      OBVIOUS
    <3>1. clk' = clk + 1 /\ nextId' = nextId + 1
      BY <1>3, SendSets
    <3>2. CASE f \in FlightOf(p)
      BY <1>n, <1>t, <2>2, <3>1, <3>2 DEF NetworkOK
    <3>3. CASE f \notin FlightOf(p)
      <4>1. f.id \in {-1, nextId} /\ clk + 1 <= f.due /\ f.due <= clk + 1 + Skew
        BY <1>3, <3>3, SendSets DEF Corrupted
      <4> QED
        BY <1>n, <3>1, <4>1
    <3> QED
      BY <3>2, <3>3
  <2>4. nextId' = nextId + 1
    BY <1>3, SendSets
  <2> QED
    BY <1>n, <1>t, <2>1, <2>3, <2>4 DEF NetworkOK, QueueOf, Processing
<1>4. ASSUME NEW p \in Paths, Arrive(p)
      PROVE  /\ \A q \in Paths : \A f \in FlightOf(q)' :
                   clk' <= f.due /\ f.due <= clk' + Skew /\ f.id < nextId'
             /\ \A q \in Paths : \A x \in QueueOf(q)' : x < nextId'
             /\ \A x \in Processing' : x < nextId'
  <2>1. UNCHANGED <<clk, nextId, todo>>
    BY <1>4 DEF Arrive
  <2>2. PICK f \in FlightOf(p) :
             /\ FlightOf(p) = {f} \cup FlightOf(p)'
             /\ QueueOf(p)' = QueueOf(p) \cup {f.id}
             /\ \A q \in Paths \ {p} :
                   FlightOf(q)' = FlightOf(q) /\ QueueOf(q)' = QueueOf(q)
    BY <1>4, ArriveSets
  <2> QED
    BY <2>1, <2>2 DEF NetworkOK, Processing
<1>5. ASSUME NEW p \in Paths, SyncPath(p)
      PROVE  /\ \A q \in Paths : \A f \in FlightOf(q)' :
                   clk' <= f.due /\ f.due <= clk' + Skew /\ f.id < nextId'
             /\ \A q \in Paths : \A x \in QueueOf(q)' : x < nextId'
             /\ \A x \in Processing' : x < nextId'
  <2>1. UNCHANGED <<clk, nextId, flight, todo>>
    BY <1>5 DEF SyncPath
  <2> QED
    BY <1>5, <2>1, SyncSets DEF NetworkOK, FlightOf, Processing
<1>6. ASSUME NEW p \in Paths, TakeChunk(p)
      PROVE  /\ \A q \in Paths : \A f \in FlightOf(q)' :
                   clk' <= f.due /\ f.due <= clk' + Skew /\ f.id < nextId'
             /\ \A q \in Paths : \A x \in QueueOf(q)' : x < nextId'
             /\ \A x \in Processing' : x < nextId'
  <2>1. UNCHANGED <<clk, nextId, flight>>
    BY <1>6 DEF TakeChunk
  <2>2. /\ Processing' = QueueOf(p) /\ QueueOf(p)' = {}
        /\ \A q \in Paths \ {p} : QueueOf(q)' = QueueOf(q)
    BY <1>6, TakeSets DEF CompletionsFit
  <2> QED
    BY <2>1, <2>2 DEF NetworkOK, FlightOf
<1>7. CASE ProcessPacket \/ HandleCorruptedPacket
  <2>1. UNCHANGED <<clk, nextId, flight, cq>>
    BY <1>7, ProcessKeepsClock
  <2> QED
    BY <1>7, <2>1, ProcessSets DEF NetworkOK, FlightOf, QueueOf
<1> QED
  BY <1>1, <1>2, <1>3, <1>4, <1>5, <1>6, <1>7, StepCases

-----------------------------------------------------------------------------
(* By when the copies of a packet are processed.                           *)

\* The sub-stream will not be polled any more before the next call polls it.
Polled(p) == ~(pollPath \in 1..p \/ pollPath = Ended)

\* The copies of the packets up to h that are still under way were sent so
\* long ago that they arrive by the time t, and are processed by a call that
\* samples its time by t + c.
ClearedBy(h, t, c) ==
    /\ \A p \in Paths : \A f \in FlightOf(p) :
           f.id # Corrupted /\ f.id <= h => f.due <= t
    /\ \A p \in Paths : \A x \in QueueOf(p) :
           x # Corrupted /\ x <= h =>
               /\ m_now <= t + c
               /\ Polled(p) => m_now <= t /\ clk <= t + c
    /\ \A x \in Processing : x # Corrupted /\ x <= h => m_now <= t + c

\* No step but sending adds to what is under way, and each call of
\* get_next_chunk polls every sub-stream.
LEMMA ClearedStep ==
    ASSUME TypeOK, ClockOK, NetworkOK, CompletionsFit, [Next]_vars, RestartSeqs = {},
           NEW h \in Int, NEW t \in Int, NEW c \in Nat,
           h < nextId \/ clk + 1 + Skew <= t, Gap <= c, m_state = "NotStarted" => MaxStart <= c,
           ClearedBy(h, t, c)
    PROVE  ClearedBy(h, t, c)'
<1>n. /\ clk \in Nat /\ nextId \in Nat /\ m_now \in Nat /\ pollPath \in 0..Ended
      /\ NumPaths \in Nat /\ NumPaths > 0
      /\ \A p \in Paths : p \in 1..NumPaths
      /\ Done = NumPaths + 1 /\ Ended = NumPaths + 2
  BY NumberTypes
<1>t. /\ \A p \in Paths : \A f \in FlightOf(p) : f.due \in Nat /\ f.id \in Int
      /\ \A p \in Paths : \A x \in QueueOf(p) : x \in Int
      /\ \A x \in Processing : x \in Int
  BY UnderWayNumbers
<1>1. CASE UNCHANGED vars \/ Start
  <2>1. UNCHANGED <<clk, flight, cq, todo, m_now, pollPath>>
    BY <1>1 DEF vars, envVars, ipoVars, Start
  <2> QED
    BY <2>1 DEF ClearedBy, FlightOf, QueueOf, Processing, Polled
<1>2. CASE TickSilent \/ TickSend
  <2>1. /\ UNCHANGED <<cq, todo, m_now, pollPath>> /\ TimePasses /\ clk' = clk + 1
    BY <1>2 DEF TickSilent, TickSend, ipoVars, TimePasses
  <2>2. \A p \in Paths : \A f \in FlightOf(p)' :
            f \in FlightOf(p) \/ (f.id \in {Corrupted, nextId} /\ f.due <= clk + 1 + Skew
                                  /\ f.due \in Int)
    <3>1. CASE TickSilent
      BY <3>1 DEF TickSilent, FlightOf
    <3>2. CASE TickSend
      <4>1. \A p \in Paths : \A f \in FlightOf(p)' : f.due \in Int
        BY NextTypeOK, FlightTypeNext
      <4> QED
        BY <3>2, <4>1, SendSets
    <3> QED
      BY <1>2, <3>1, <3>2
  <2>3. PollGap <= c /\ PollTicks <= c
    BY WaitTypes, EnvironmentAssumption
  <2>5. m_now <= t => clk + 1 <= t + c
    BY <1>n, <2>1, <2>3, EnvironmentAssumption DEF TimePasses, ClockOK
  <2> QED
    BY <1>n, <1>t, <2>1, <2>2, <2>5, EnvironmentAssumption
    DEF ClearedBy, QueueOf, Processing, Polled
<1>3. ASSUME NEW p \in Paths, Arrive(p)
      PROVE  ClearedBy(h, t, c)'
  <2>1. UNCHANGED <<clk, nextId, todo, m_now, pollPath>>
    BY <1>3 DEF Arrive, ipoVars
  <2>2. PICK f \in FlightOf(p) :
             /\ f.due <= clk
             /\ FlightOf(p) = {f} \cup FlightOf(p)'
             /\ QueueOf(p)' = QueueOf(p) \cup {f.id}
             /\ \A q \in Paths \ {p} :
                   FlightOf(q)' = FlightOf(q) /\ QueueOf(q)' = QueueOf(q)
    BY <1>3, ArriveSets
  <2>3. clk <= f.due /\ m_now <= clk
    BY <2>2 DEF NetworkOK, ClockOK
  <2>4. f.id # Corrupted /\ f.id <= h => clk <= t /\ m_now <= t + c /\ m_now <= t /\ clk <= t + c
    BY <1>n, <1>t, <2>2, <2>3 DEF ClearedBy
  <2>5. \A q \in Paths : \A g \in FlightOf(q)' : g \in FlightOf(q)
    BY <2>2
  <2>6. \A q \in Paths : \A x \in QueueOf(q)' : x \in QueueOf(q) \/ (q = p /\ x = f.id)
    BY <2>2
  <2> QED
    BY <2>1, <2>4, <2>5, <2>6 DEF ClearedBy, Processing, Polled
<1>4. ASSUME NEW p \in Paths, SyncPath(p)
      PROVE  ClearedBy(h, t, c)'
  <2>1. UNCHANGED <<clk, flight, todo, m_now, pollPath>>
    BY <1>4 DEF SyncPath, ipoVars
  <2> QED
    BY <1>4, <2>1, SyncSets DEF ClearedBy, FlightOf, Processing, Polled
<1>5. ASSUME NEW p \in Paths, TakeChunk(p)
      PROVE  ClearedBy(h, t, c)'
  <2>1. UNCHANGED <<clk, flight, m_now>> /\ pollPath = p /\ pollPath' = p + 1
    BY <1>5 DEF TakeChunk, ipoVars
  <2>2. /\ Processing' = QueueOf(p) /\ QueueOf(p)' = {}
        /\ \A q \in Paths \ {p} : QueueOf(q)' = QueueOf(q)
    BY <1>5, TakeSets DEF CompletionsFit
  <2>3. \A q \in Paths \ {p} : Polled(q)' <=> Polled(q)
    BY <1>n, <2>1 DEF Polled
  <2> QED
    BY <2>1, <2>2, <2>3 DEF ClearedBy, FlightOf
<1>6. ASSUME NEW p \in Paths, TakeChunkFails(p)
      PROVE  ClearedBy(h, t, c)'
  <2>1. UNCHANGED <<clk, flight, cq, todo, m_now>> /\ pollPath' = Ended
    BY <1>6 DEF TakeChunkFails, envVars, ipoVars
  <2>2. \A q \in Paths : ~Polled(q)'
    BY <2>1 DEF Polled
  <2> QED
    BY <2>1, <2>2 DEF ClearedBy, FlightOf, QueueOf, Processing
<1>7. CASE PollBegin
  <2>1. UNCHANGED <<clk, flight, cq, todo>> /\ pollPath = 0 /\ pollPath' = 1 /\ m_now' = clk
    BY <1>7 DEF PollBegin, envVars
  <2>2. \A q \in Paths : Polled(q) /\ ~Polled(q)'
    BY <1>n, <2>1 DEF Polled
  <2>3. todo = <<>>
    BY <2>1, NumberTypes
  <2>4. Processing' = {}
    BY <2>1, <2>3 DEF Processing, Elements
  <2> QED
    BY <2>1, <2>2, <2>4 DEF ClearedBy, FlightOf, QueueOf
<1>8. CASE ProcessPacket \/ HandleCorruptedPacket
  <2>1. UNCHANGED <<clk, flight, cq, m_now, pollPath>>
    BY <1>8, ProcessKeepsClock
  <2>2. \A x \in Processing' : x \in Processing
    BY <1>8, ProcessSets
  <2> QED
    BY <2>1, <2>2 DEF ClearedBy, FlightOf, QueueOf, Polled
<1>9. CASE Assemble
  <2>1. UNCHANGED <<clk, flight, cq, todo, m_now>> /\ pollPath = Done /\ pollPath' = 0
    BY <1>9, AssembleKeepsClock
  <2>2. \A q \in Paths : Polled(q) /\ Polled(q)'
    BY <1>n, <2>1 DEF Polled
  <2> QED
    BY <2>1, <2>2 DEF ClearedBy, FlightOf, QueueOf, Processing
<1> QED
  BY <1>1, <1>2, <1>3, <1>4, <1>5, <1>6, <1>7, <1>8, <1>9, StepCases

\* An earlier packet is cleared by a later time as well.
LEMMA ClearedLater ==
    ASSUME TypeOK, NEW h \in Int, NEW t \in Int, NEW c \in Nat, ClearedBy(h, t, c),
           NEW k \in Int, k <= h, NEW u \in Int, t <= u, NEW d \in Nat, c <= d
    PROVE  ClearedBy(k, u, d)
<1>t. /\ \A p \in Paths : \A f \in FlightOf(p) : f.due \in Nat /\ f.id \in Int
      /\ \A p \in Paths : \A x \in QueueOf(p) : x \in Int
      /\ \A x \in Processing : x \in Int
      /\ clk \in Nat /\ m_now \in Nat
  BY UnderWayNumbers, NumberTypes
<1> QED
  BY <1>t DEF ClearedBy

\* Everything sent so far arrives within Skew and is processed by the next call.
LEMMA ClearedNow ==
    ASSUME TypeOK, ClockOK, NetworkOK, NEW h \in Int, NEW t \in Int, clk + Skew <= t,
           NEW c \in Nat
    PROVE  ClearedBy(h, t, c)
<1>t. /\ \A p \in Paths : \A f \in FlightOf(p) : f.due \in Nat /\ f.id \in Int
      /\ \A p \in Paths : \A x \in QueueOf(p) : x \in Int
      /\ \A x \in Processing : x \in Int
      /\ clk \in Nat /\ m_now \in Nat /\ Skew \in Nat
  BY UnderWayNumbers, NumberTypes
<1> QED
  BY <1>t DEF ClearedBy, NetworkOK, ClockOK

\* When a call assembles a chunk and its time is past t, nothing up to h is
\* under way.
LEMMA NothingUnderWay ==
    ASSUME TypeOK, ClockOK, NetworkOK, pollPath = Done, todo = <<>>,
           NEW h \in Int, NEW t \in Int, NEW c \in Nat, ClearedBy(h, t, c), t < m_now
    PROVE  /\ \A p \in Paths : \A f \in FlightOf(p) : f.id = Corrupted \/ f.id > h
           /\ \A p \in Paths : \A x \in QueueOf(p) : x = Corrupted \/ x > h
           /\ Processing = {}
<1>t. /\ \A p \in Paths : \A f \in FlightOf(p) : f.due \in Nat /\ f.id \in Int
      /\ \A p \in Paths : \A x \in QueueOf(p) : x \in Int
      /\ clk \in Nat /\ m_now \in Nat
  BY UnderWayNumbers, NumberTypes
<1>1. \A p \in Paths : Polled(p)
  BY NumberTypes DEF Polled
<1>2. Processing = {}
  BY DEF Processing, Elements
<1> QED
  BY <1>t, <1>1, <1>2 DEF ClearedBy, NetworkOK, ClockOK

\* A copy that is d packets old was sent d ticks ago or earlier.
AgeOK == \A d \in Nat : ClearedBy(nextId - 1 - d, clk + Skew - d, LongestWait)

\* The memory holds what was not processed yet.
MemOK ==
    /\ \A p \in Paths : \A x \in QueueOf(p) : x # Corrupted => mem[SlotOf(x)] = x
    /\ \A x \in Processing : x # Corrupted => mem[SlotOf(x)] = x

NetInv == TypeOK /\ ClockOK /\ NetworkOK /\ AgeOK /\ MemOK

Recent(x) == x \in Nat /\ x < nextId /\ nextId - x <= Oldest

\* What is under way is among the last packets sent.
LEMMA UnderWayRecent ==
    ASSUME TypeOK, ClockOK, NetworkOK, AgeOK
    PROVE  /\ \A p \in Paths : \A f \in FlightOf(p) : f.id # Corrupted => Recent(f.id)
           /\ \A p \in Paths : \A x \in QueueOf(p) : x # Corrupted => Recent(x)
           /\ \A x \in Processing : x # Corrupted => Recent(x)
<1>n. /\ clk \in Nat /\ nextId \in Nat /\ m_now \in Nat /\ Skew \in Nat /\ PollTicks \in Nat
      /\ LongestWait \in Nat /\ pollPath \in 0..Ended
      /\ todo # <<>> => pollPath # 0
  BY NumberTypes, WaitTypes
<1>t. /\ \A p \in Paths : \A f \in FlightOf(p) : f.due \in Nat /\ f.id \in Int
      /\ \A p \in Paths : \A x \in QueueOf(p) : x \in Int
      /\ \A x \in Processing : x \in Int
  BY UnderWayNumbers
<1>c. Corrupted = -1
  BY NumberTypes
<1>1. ASSUME NEW x \in Nat, x < nextId
      PROVE  ClearedBy(x, clk + Skew - (nextId - 1 - x), LongestWait)
  <2> DEFINE d == nextId - 1 - x
  <2>1. d \in Nat /\ nextId - 1 - d = x
    BY <1>n, <1>1
  <2>2. ClearedBy(nextId - 1 - d, clk + Skew - d, LongestWait)
    BY <2>1 DEF AgeOK
  <2> QED
    BY <2>1, <2>2
<1>2. ASSUME NEW p \in Paths, NEW f \in FlightOf(p), f.id # Corrupted
      PROVE  Recent(f.id)
  <2>1. f.id \in Nat /\ f.id < nextId /\ clk <= f.due
    BY <1>2, UnderWayTypes DEF NetworkOK
  <2>2. f.due <= clk + Skew - (nextId - 1 - f.id)
    BY <1>1, <1>2, <2>1 DEF ClearedBy
  <2> QED
    BY <1>n, <1>t, <2>1, <2>2 DEF Recent, Oldest
<1>3. ASSUME NEW p \in Paths, NEW x \in QueueOf(p), x # Corrupted
      PROVE  Recent(x)
  <2>1. x \in Nat /\ x < nextId
    BY <1>3, UnderWayTypes DEF NetworkOK
  <2>2. /\ m_now <= clk + Skew - (nextId - 1 - x) + LongestWait
        /\ Polled(p) => m_now <= clk + Skew - (nextId - 1 - x)
    BY <1>1, <1>3, <2>1 DEF ClearedBy
  <2>3. ~Polled(p) => pollPath # 0
    BY NumberTypes DEF Polled
  <2>4. /\ clk <= m_now + LongestWait
        /\ ~Polled(p) => clk <= m_now + PollTicks
    BY <2>3 DEF ClockOK
  <2> QED
    BY <1>n, <2>1, <2>2, <2>4 DEF Recent, Oldest
<1>4. ASSUME NEW x \in Processing, x # Corrupted
      PROVE  Recent(x)
  <2>1. x \in Nat /\ x < nextId
    BY <1>4, UnderWayTypes DEF NetworkOK
  <2>2. m_now <= clk + Skew - (nextId - 1 - x) + LongestWait
    BY <1>1, <1>4, <2>1 DEF ClearedBy
  <2>3. todo # <<>>
    BY DEF Processing, Elements
  <2>4. clk <= m_now + PollTicks
    BY <1>n, <2>3 DEF ClockOK
  <2> QED
    BY <1>n, <2>1, <2>2, <2>4 DEF Recent, Oldest
<1> QED
  BY <1>2, <1>3, <1>4

\* Every step keeps the copies from growing older than the network allows.
LEMMA AgeStep ==
    ASSUME TypeOK, ClockOK, NetworkOK, AgeOK, CompletionsFit, [Next]_vars, RestartSeqs = {}
    PROVE  AgeOK'
<1>n. /\ clk \in Nat /\ nextId \in Nat /\ Skew \in Nat /\ LongestWait \in Nat
      /\ Gap <= LongestWait /\ MaxStart <= LongestWait
  BY NumberTypes, WaitTypes
<1> SUFFICES ASSUME NEW d \in Nat
             PROVE  ClearedBy(nextId - 1 - d, clk + Skew - d, LongestWait)'
  BY DEF AgeOK
<1>1. CASE TickSend
  <2>1. clk' = clk + 1 /\ nextId' = nextId + 1
    BY <1>1, SendSets
  <2>2. PICK h \in Int, t \in Int : h = nextId - d /\ t = clk + 1 + Skew - d
    BY <1>n
  <2>3. ClearedBy(h, t, LongestWait)
    <3>1. CASE d = 0
      <4>1. clk + Skew <= t
        BY <1>n, <2>2, <3>1
      <4> QED
        BY <1>n, <4>1, ClearedNow
    <3>2. CASE d # 0
      <4>1. d - 1 \in Nat /\ h = nextId - 1 - (d - 1) /\ t = clk + Skew - (d - 1)
        BY <1>n, <2>2, <3>2
      <4> QED
        BY <4>1 DEF AgeOK
    <3> QED
      BY <3>1, <3>2
  <2>4. h < nextId \/ clk + 1 + Skew <= t
    BY <1>n, <2>2
  <2>5. ClearedBy(h, t, LongestWait)'
    BY <1>n, <2>3, <2>4, ClearedStep
  <2>6. h = nextId' - 1 - d /\ t = clk' + Skew - d
    BY <1>n, <2>1, <2>2
  <2> QED
    BY <2>5, <2>6 DEF ClearedBy
<1>2. CASE ~TickSend
  <2>0. nextId' = nextId /\ (clk' = clk \/ clk' = clk + 1)
    <3>1. CASE TickSilent
      BY <3>1 DEF TickSilent, TimePasses
    <3>2. CASE ~TickSilent
      BY <1>2, <3>2, StepCases, AssembleKeepsClock, ProcessKeepsClock
      DEF Arrive, SyncPath, TakeChunk, TakeChunkFails, Start, PollBegin, envVars, vars
    <3> QED
      BY <3>1, <3>2
  <2>1. PICK v \in Nat : v = clk' /\ clk <= v
    BY <1>n, <2>0
  <2>a. nextId - 1 - d \in Int /\ clk + Skew - d \in Int /\ v + Skew - d \in Int
        /\ clk + Skew - d <= v + Skew - d /\ nextId - 1 - d < nextId
    <3>1. clk <= v
      BY <2>1
    <3> QED
      BY <1>n, <3>1
  <2>b. PICK h \in Int : h = nextId - 1 - d
    BY <2>a
  <2>c. PICK t \in Int : t = clk + Skew - d
    BY <2>a
  <2>d. PICK u \in Int : u = v + Skew - d
    BY <2>a
  <2>2. h = nextId - 1 - d /\ t = clk + Skew - d /\ u = v + Skew - d
    BY <2>b, <2>c, <2>d
  <2>3. ClearedBy(h, t, LongestWait)
    BY <2>2 DEF AgeOK
  <2>4. h <= h /\ t <= u /\ LongestWait <= LongestWait /\ h < nextId
    BY <1>n, <2>2, <2>a
  <2>5. ClearedBy(h, u, LongestWait)
    BY <1>n, <2>3, <2>4, ClearedLater
  <2>6. ClearedBy(h, u, LongestWait)'
    BY <1>n, <2>4, <2>5, ClearedStep
  <2>7. h = nextId' - 1 - d /\ u = clk' + Skew - d
    BY <2>0, <2>1, <2>2
  <2> QED
    BY <2>6, <2>7 DEF ClearedBy
<1> QED
  BY <1>1, <1>2

\* The adapter overwrites no packet that was not processed: two packets under
\* way are less than a buffer apart.
LEMMA MemStep ==
    ASSUME NetInv, CompletionsFit, [Next]_vars, RestartSeqs = {}, BufferDivides,
           Oldest <= WrapAround
    PROVE  MemOK'
<1>1. ASSUME NEW p \in Paths, Arrive(p)
      PROVE  MemOK'
  <2>1. PICK f \in FlightOf(p) :
             /\ QueueOf(p)' = QueueOf(p) \cup {f.id}
             /\ \A q \in Paths \ {p} : QueueOf(q)' = QueueOf(q)
             /\ mem' = IF f.id = Corrupted THEN mem ELSE [mem EXCEPT ![SlotOf(f.id)] = f.id]
    BY <1>1, ArriveSets DEF NetInv
  <2>2. todo' = todo /\ todo = <<>>
    BY <1>1 DEF Arrive, Observable
  <2>3. Processing' = {}
    BY <2>2 DEF Processing, Elements
  <2>4. \A q \in Paths : \A x \in QueueOf(q)' : x \in QueueOf(q) \/ x = f.id
    BY <2>1
  <2>5. CASE f.id = Corrupted
    BY <2>1, <2>3, <2>4, <2>5 DEF NetInv, MemOK
  <2>6. CASE f.id # Corrupted
    <3>1. Recent(f.id) /\ SlotOf(f.id) \in Slots
      BY <2>6, UnderWayRecent, SeqOfType DEF NetInv, Recent
    <3>2. mem \in [Slots -> Int] /\ mem' = [mem EXCEPT ![SlotOf(f.id)] = f.id]
      BY <2>1, <2>6 DEF NetInv, TypeOK, EnvTypeOK
    <3>3. ASSUME NEW q \in Paths, NEW x \in QueueOf(q), x # Corrupted
          PROVE  mem'[SlotOf(x)] = x
      <4>1. Recent(x) /\ mem[SlotOf(x)] = x
        BY <3>3, UnderWayRecent DEF NetInv, MemOK
      <4>2. SlotOf(x) \in Slots
        BY <4>1, SeqOfType DEF Recent
      <4>3. CASE SlotOf(x) = SlotOf(f.id)
        <5>1. x \in Int /\ f.id \in Int /\ x - f.id < WrapAround /\ f.id - x < WrapAround
          BY <3>1, <4>1, WrapAroundType, WaitTypes, EnvironmentAssumption
          DEF Recent, Oldest, NetInv, TypeOK, EnvTypeOK
        <5>2. x = f.id
          BY <4>3, <5>1, CloseSlots
        <5> QED
          BY <3>1, <3>2, <5>2
      <4>4. CASE SlotOf(x) # SlotOf(f.id)
        BY <3>1, <3>2, <4>1, <4>2, <4>4
      <4> QED
        BY <4>3, <4>4
    <3>4. mem'[SlotOf(f.id)] = f.id
      BY <3>1, <3>2
    <3> QED
      BY <2>3, <2>4, <3>3, <3>4 DEF MemOK
  <2> QED
    BY <2>5, <2>6
<1>2. ASSUME NEW p \in Paths, SyncPath(p)
      PROVE  MemOK'
  <2>1. UNCHANGED <<mem, todo>>
    BY <1>2 DEF SyncPath
  <2> QED
    BY <1>2, <2>1, SyncSets DEF NetInv, MemOK, Processing
<1>3. ASSUME NEW p \in Paths, TakeChunk(p)
      PROVE  MemOK'
  <2>1. mem' = mem
    BY <1>3 DEF TakeChunk
  <2> QED
    BY <1>3, <2>1, TakeSets DEF NetInv, MemOK, CompletionsFit
<1>4. CASE ProcessPacket \/ HandleCorruptedPacket
  <2>1. mem' = mem /\ cq' = cq
    BY <1>4, ProcessKeepsClock
  <2> QED
    BY <1>4, <2>1, ProcessSets DEF NetInv, MemOK, QueueOf
<1>5. CASE UNCHANGED vars \/ TickSilent \/ TickSend \/ Start \/ PollBegin \/ Assemble
           \/ \E p \in Paths : TakeChunkFails(p)
  <2>1. UNCHANGED <<mem, cq, todo>>
    BY <1>5, AssembleKeepsClock
    DEF vars, envVars, Start, PollBegin, TakeChunkFails, TickSilent, TickSend
  <2> QED
    BY <2>1 DEF NetInv, MemOK, QueueOf, Processing
<1> QED
  BY <1>1, <1>2, <1>3, <1>4, <1>5, StepCases

\* Initially nothing is under way.
LEMMA NetInit == Init => NetInv
<1> SUFFICES ASSUME Init PROVE NetInv
  OBVIOUS
<1>1. TypeOK
  BY InitTypeOK
<1>2. \A p \in Paths : FlightOf(p) = {} /\ QueueOf(p) = {}
  BY DEF Init, FlightOf, QueueOf, Elements
<1>3. Processing = {} /\ \A p \in Paths : DueInOrder(flight[p])
  BY DEF Init, Processing, Elements, DueInOrder
<1>4. ClockOK
  BY WaitTypes, EnvironmentAssumption, ReceiverAssumption DEF Init, ClockOK, Placed
<1>5. NetworkOK /\ AgeOK /\ MemOK
  BY <1>2, <1>3 DEF NetworkOK, AgeOK, MemOK, ClearedBy
<1> QED
  BY <1>1, <1>4, <1>5 DEF NetInv

\* Every step keeps the invariant of the network.
LEMMA NetStep ==
    ASSUME NetInv, CompletionsFit, [Next]_vars, RestartSeqs = {}, BufferDivides,
           Oldest <= WrapAround
    PROVE  NetInv'
  BY NextTypeOK, ClockStep, NetworkStep, AgeStep, MemStep DEF NetInv

\* A valid slot describes the packet `held' names, and says by when every copy
\* of it and of the packets before it is processed.
RecordsOK ==
    \A s \in Slots : Valid(s) =>
        /\ held[s] \in Nat /\ held[s] < nextId
        /\ SlotOf(held[s]) = s
        /\ m_ext_packet_info_arr[s].sequence_number = SeqOf(held[s])
        /\ ClearedBy(held[s], Stamp(s) + Spread, Gap)

StatFields == {"rx_count", "rx_dropped", "rx_exceed_md", "rx_corrupt_header",
               "path_rx", "path_dropped"}
StatShape == DOMAIN m_statistic = StatFields

\* What is left alone by every step but processing a packet and delivering.
QuietVars == <<m_ext_packet_info_arr, m_path_packets, m_index,
               m_last_processed_sequence_number, m_initialized, m_last_sequence_number,
               lastOut, span, fresh, skippedIds, position, held, front, inSync>>

\* The steps that neither process a packet nor deliver leave the buffer alone.
LEMMA QuietStep ==
    ASSUME TypeOK, [Next]_vars, RestartSeqs = {}, ~ProcessPacket, ~(Assemble /\ SkipAndDeliver)
    PROVE  /\ UNCHANGED QuietVars
           /\ \/ m_state' = m_state /\ m_start_time' = m_start_time
              \/ /\ m_state = "NotStarted" /\ m_state' = "WaitFirstPacket"
                 /\ m_start_time' = clk + MaxPathDiff
              \/ /\ m_state = "Running" /\ m_state' = "Waiting" /\ NothingFound
                 /\ m_start_time' = m_start_time
           /\ (chunk' = chunk /\ (pollPath = 0 => pollPath' = 0)) \/ chunk' = <<>>
<1>1. CASE UNCHANGED vars
  BY <1>1 DEF vars, ipoVars, appVars, histVars, QuietVars
<1>2. CASE TickSilent \/ TickSend
  BY <1>2 DEF TickSilent, TickSend, ipoVars, appVars, histVars, QuietVars
<1>3. CASE \E p \in Paths : Arrive(p) \/ SyncPath(p)
  BY <1>3 DEF Arrive, SyncPath, ipoVars, appVars, histVars, QuietVars
<1>4. CASE \E p \in Paths : TakeChunk(p) \/ TakeChunkFails(p)
  BY <1>4, NumberTypes DEF TakeChunk, TakeChunkFails, ipoVars, appVars, histVars, QuietVars
<1>5. CASE Start
  BY <1>5 DEF Start, ipoVars, appVars, histVars, QuietVars
<1>6. CASE PollBegin
  BY <1>6 DEF PollBegin, ipoVars, appVars, histVars, QuietVars
<1>7. CASE HandleCorruptedPacket
  BY <1>7 DEF HandleCorruptedPacket, ipoVars, appVars, histVars, QuietVars
<1>8. CASE Assemble
  BY <1>8
  DEF Assemble, ReturnsNothingYet, BecomesWaiting, NotRipeYet, CanAssemble, ipoVars, appVars,
      histVars, QuietVars
<1> QED
  BY <1>1, <1>2, <1>3, <1>4, <1>5, <1>6, <1>7, <1>8, StepCases

\* The counters but the damaged packets are left alone as well.
LEMMA QuietStatistic ==
    ASSUME TypeOK, StatShape, [Next]_vars, RestartSeqs = {},
           ~ProcessPacket, ~(Assemble /\ SkipAndDeliver)
    PROVE  /\ StatShape'
           /\ m_statistic'.rx_exceed_md = m_statistic.rx_exceed_md
           /\ m_statistic'.rx_count = m_statistic.rx_count
           /\ m_statistic'.rx_dropped = m_statistic.rx_dropped
<1>1. CASE HandleCorruptedPacket
  <2>1. m_statistic' = [m_statistic EXCEPT !.rx_corrupt_header = @ + 1]
    BY <1>1 DEF HandleCorruptedPacket
  <2> QED
    BY <2>1 DEF StatShape, StatFields
<1>2. CASE ~HandleCorruptedPacket
  <2>1. m_statistic' = m_statistic
    <3>1. CASE UNCHANGED vars
      BY <3>1 DEF vars, appVars
    <3>2. CASE TickSilent \/ TickSend
      BY <3>2 DEF TickSilent, TickSend, appVars
    <3>3. CASE \E p \in Paths : Arrive(p) \/ SyncPath(p)
      BY <3>3 DEF Arrive, SyncPath, appVars
    <3>4. CASE \E p \in Paths : TakeChunk(p) \/ TakeChunkFails(p)
      BY <3>4 DEF TakeChunk, TakeChunkFails, appVars
    <3>5. CASE Start \/ PollBegin
      BY <3>5 DEF Start, PollBegin, appVars
    <3>6. CASE Assemble
      BY <3>6 DEF Assemble, ReturnsNothingYet, BecomesWaiting, NotRipeYet, appVars
    <3> QED
      BY <1>2, <3>1, <3>2, <3>3, <3>4, <3>5, <3>6, StepCases
  <2> QED
    BY <2>1 DEF StatShape
<1> QED
  BY <1>1, <1>2

\* The sender numbers its packets one after the other.
LEMMA SenderGoesOn ==
    ASSUME TypeOK, [Next]_vars, RestartSeqs = {}
    PROVE  nextId' \in Nat /\ (nextId' = nextId \/ (TickSend /\ nextId' = nextId + 1))
<1>1. nextId' \in Nat
  BY NextTypeOK DEF TypeOK, EnvTypeOK
<1>2. CASE TickSend
  BY <1>1, <1>2, SendSets
<1>3. CASE ~TickSend
  <2>1. nextId' = nextId
    BY <1>3, StepCases, AssembleKeepsClock, ProcessKeepsClock
    DEF TickSilent, Arrive, SyncPath, TakeChunk, TakeChunkFails, Start, PollBegin, envVars, vars
  <2> QED
    BY <1>1, <2>1
<1> QED
  BY <1>2, <1>3

\* The packet being processed, its path and its slot.
LEMMA ProcessedPacket ==
    ASSUME TypeOK, ProcessPacket
    PROVE  /\ Head(todo) \in Nat /\ Head(todo) # Corrupted /\ Head(todo) \in Processing
           /\ pollPath - 1 \in Paths /\ pollPath \in 2..Done
           /\ SeqOf(Head(todo)) % WrapAround = SlotOf(Head(todo))
           /\ SlotOf(Head(todo)) \in Slots
           /\ SeqOf(Head(todo)) \in SeqNums
<1>1. Head(todo) # Corrupted /\ todo # <<>>
  BY DEF ProcessPacket
<1>2. Head(todo) \in Nat /\ Head(todo) \in Processing
  BY <1>1, ProcessSets
<1>3. pollPath \in 2..Done /\ pollPath - 1 \in Paths
  BY <1>1, NumberTypes DEF Paths
<1> QED
  BY <1>1, <1>2, <1>3, SeqOfType DEF SlotOf

\* What processing does to the records of the slots.
LEMMA ProcessRecords ==
    ASSUME TypeOK, ProcessPacket
    PROVE  \/ UNCHANGED <<m_ext_packet_info_arr, m_path_packets, held>>
              /\ IsLate(SeqOf(Head(todo)))
              /\ m_statistic' = [m_statistic EXCEPT !.rx_exceed_md = @ + 1]
           \/ /\ ~IsLate(SeqOf(Head(todo))) /\ ~IsRedundant(SeqOf(Head(todo)))
              /\ m_statistic' = m_statistic
              /\ m_ext_packet_info_arr' = [m_ext_packet_info_arr EXCEPT ![SlotOf(Head(todo))] =
                    [sequence_number |-> SeqOf(Head(todo)), is_valid |-> TRUE,
                     timestamp |-> m_now]]
              /\ m_path_packets' = [m_path_packets EXCEPT ![SlotOf(Head(todo))] = {pollPath - 1}]
              /\ held' = [held EXCEPT ![SlotOf(Head(todo))] = Head(todo)]
           \/ /\ IsRedundant(SeqOf(Head(todo)))
              /\ UNCHANGED <<m_ext_packet_info_arr, held, m_statistic>>
              /\ m_path_packets' =
                    [m_path_packets EXCEPT ![SlotOf(Head(todo))] = @ \cup {pollPath - 1}]
  BY DEF ProcessPacket, HandleLatePacket, HandlePacket, HandleRedundantPacket, SlotOf

\* Every step keeps what the records of the buffer say.
LEMMA RecordsStep ==
    ASSUME NetInv, EmptyUnlessRunning, RecordsOK, CompletionsFit, [Next]_vars, RestartSeqs = {}
    PROVE  RecordsOK'
<1> DEFINE Good(s) == /\ held[s] \in Nat /\ held[s] < nextId
                      /\ SlotOf(held[s]) = s
                      /\ m_ext_packet_info_arr[s].sequence_number = SeqOf(held[s])
                      /\ ClearedBy(held[s], Stamp(s) + Spread, Gap)
<1> SUFFICES ASSUME NEW s \in Slots, Valid(s)'
             PROVE  Good(s)'
  BY DEF RecordsOK, Slots, WrapAround
<1>n. /\ nextId \in Nat /\ clk \in Nat /\ m_now \in Nat /\ Spread \in Nat /\ Gap \in Nat
      /\ Skew \in Nat /\ PollTicks \in Nat
  BY NumberTypes, WaitTypes DEF NetInv, Spread
<1>t. /\ m_ext_packet_info_arr \in [Slots -> PacketInfo] /\ Stamp(s) \in Nat
      /\ held \in [Slots -> Int]
  BY DEF NetInv, TypeOK, StreamTypeOK, AppTypeOK, Stamp, PacketInfo
<1>1. ASSUME Valid(s), m_ext_packet_info_arr'[s] = m_ext_packet_info_arr[s],
             held'[s] = held[s]
      PROVE  Good(s)'
  <2>1. Good(s)
    BY <1>1 DEF RecordsOK
  <2>2. PICK h \in Int, t \in Int : h = held[s] /\ t = Stamp(s) + Spread
    BY <1>n, <1>t
  <2>3. h < nextId /\ ClearedBy(h, t, Gap) /\ m_state = "Running"
    BY <1>1, <2>1, <2>2 DEF EmptyUnlessRunning
  <2>4. ClearedBy(h, t, Gap)'
    BY <1>n, <2>3, ClearedStep DEF NetInv
  <2>5. held'[s] = h /\ Stamp(s)' + Spread = t
    BY <1>1, <2>2 DEF Stamp
  <2>6. h < nextId'
    BY <1>n, <2>3, SenderGoesOn DEF NetInv
  <2>7. h \in Nat /\ SlotOf(h) = s /\ m_ext_packet_info_arr'[s].sequence_number = SeqOf(h)
    BY <1>1, <2>1, <2>2
  <2> QED
    BY <2>4, <2>5, <2>6, <2>7 DEF ClearedBy, SlotOf, SeqOf, WrapAround
<1>2. CASE ~ProcessPacket /\ ~SkipAndDeliver
  <2>1. m_ext_packet_info_arr' = m_ext_packet_info_arr /\ held' = held
    BY <1>2, QuietStep DEF QuietVars, NetInv
  <2> QED
    BY <1>1, <2>1 DEF Valid
<1>3. CASE SkipAndDeliver
  <2>1. PICK slots : m_ext_packet_info_arr' = Invalidate(slots)
    BY <1>3 DEF SkipAndDeliver
  <2>2. held' = held
    BY <1>3 DEF SkipAndDeliver
  <2>3. Valid(s) /\ m_ext_packet_info_arr'[s] = m_ext_packet_info_arr[s]
    BY <1>t, <2>1, InvalidateOnlyClears
  <2> QED
    BY <1>1, <2>2, <2>3
<1>4. CASE ProcessPacket
  <2> DEFINE x == Head(todo)
  <2>1. /\ x \in Nat /\ x \in Processing /\ x # Corrupted /\ SlotOf(x) \in Slots
        /\ pollPath # 0
    BY <1>4, ProcessedPacket DEF NetInv
  <2>2. x < nextId /\ m_now' = m_now
    BY <1>4, <2>1 DEF NetInv, NetworkOK, ProcessPacket
  <2>3. CASE UNCHANGED <<m_ext_packet_info_arr, held>>
    BY <1>1, <2>3 DEF Valid
  <2>4. CASE /\ m_ext_packet_info_arr' = [m_ext_packet_info_arr EXCEPT ![SlotOf(x)] =
                    [sequence_number |-> SeqOf(x), is_valid |-> TRUE, timestamp |-> m_now]]
             /\ held' = [held EXCEPT ![SlotOf(x)] = x]
    <3>1. CASE s # SlotOf(x)
      BY <1>1, <1>t, <2>4, <3>1 DEF Valid
    <3>2. CASE s = SlotOf(x)
      <4>1. PICK h \in Int, t \in Int : h = x /\ t = m_now + Spread
        BY <1>n, <2>1
      <4>2. clk + Skew <= t
        BY <1>n, <2>1, <4>1 DEF NetInv, ClockOK, Spread
      <4>3. ClearedBy(h, t, Gap)
        BY <1>n, <4>2, ClearedNow DEF NetInv
      <4>4. m_state # "NotStarted"
        BY <2>1 DEF NetInv, ClockOK
      <4>5. h < nextId
        BY <2>2, <4>1
      <4>6. ClearedBy(h, t, Gap)'
        BY <1>n, <4>3, <4>4, <4>5, ClearedStep DEF NetInv
      <4>7. held'[s] = h /\ Stamp(s)' = m_now
            /\ m_ext_packet_info_arr'[s].sequence_number = SeqOf(h)
        BY <1>t, <2>1, <2>4, <3>2, <4>1 DEF Stamp
      <4>8. Stamp(s)' + Spread = t /\ h \in Nat /\ SlotOf(h) = s
        BY <2>1, <3>2, <4>1, <4>7
      <4>9. h < nextId'
        BY <1>n, <4>5, SenderGoesOn DEF NetInv
      <4> QED
        BY <4>6, <4>7, <4>8, <4>9 DEF ClearedBy, SlotOf, SeqOf, WrapAround
    <3> QED
      BY <3>1, <3>2
  <2> QED
    BY <1>4, <2>3, <2>4, ProcessRecords DEF NetInv
<1> QED
  BY <1>2, <1>3, <1>4

-----------------------------------------------------------------------------
(* The invariant of a stream in sync.                                      *)

\* A copy of the packet on path p is under way.
UnderWayOn(p, x) ==
    \/ \E f \in FlightOf(p) : f.id = x
    \/ x \in QueueOf(p)
    \/ pollPath = p + 1 /\ x \in Processing

\* Before the first packet nothing has a position.
IdleOK ==
    ~Placed => /\ front = NoPacket /\ position = NoPacket /\ lastOut = NoPacket
               /\ fresh /\ ~m_initialized /\ chunk = <<>>

\* The stream's position: m_index is the slot behind the last packet taken out
\* of the buffer, and the reference points are those of the packets delivered.
PlaceOK ==
    Placed =>
      /\ 0 <= position /\ position - 1 <= front /\ front < nextId
      /\ m_index = SlotOf(front + 1)
      /\ lastOut <= front
      /\ m_initialized <=> ~fresh
      /\ m_last_processed_sequence_number = SeqOf(Reference)
      /\ ~fresh => position <= lastOut /\ m_last_sequence_number = SeqOf(lastOut)
      /\ m_state = "Waiting" => position <= front
      /\ front = position - 1 => /\ m_state = "Running"
                                 /\ Valid(SlotOf(position))
                                 /\ held[SlotOf(position)] = position

\* Nothing up to the last packet taken out is under way.
Gone ==
    Placed => \A p \in Paths, x \in Nat :
                 UnderWayOn(p, x) => x > front \/ front = position - 1

\* What the buffer holds comes after the packets taken out, but for packets
\* older than the one the stream began with.
LeftOver == \A s \in Slots : Valid(s) => held[s] > front \/ held[s] < position

MemProper == \A s \in Slots : Valid(s) /\ held[s] > front => mem[s] = held[s]

\* The copy of path p was processed and is in the buffer.
Recorded(p, q) ==
    /\ Valid(SlotOf(q)) /\ held[SlotOf(q)] = q
    /\ p \in m_path_packets[SlotOf(q)]

\* The slot of the packet holds an older packet with its sequence number.
Blocked(q) ==
    /\ Valid(SlotOf(q)) /\ held[SlotOf(q)] < position
    /\ SeqOf(held[SlotOf(q)]) = SeqOf(q)

\* All copies of the packets up to q fall into the initial sync.
Synced(q) ==
    /\ ClearedBy(q, m_start_time - 1 - Gap, Gap)
    /\ \A s \in Slots : Valid(s) /\ held[s] <= q => Stamp(s) < m_start_time

\* No copy is forgotten: it was lost, is under way, in the buffer, or the
\* stream has not delivered anything yet and the initial sync covers it.
Exact ==
    m_state # "NotStarted" =>
    \A p \in Paths, q \in Nat :
        front < q /\ q < nextId =>
            \/ <<p, q>> \in lostOn
            \/ UnderWayOn(p, q)
            \/ Recorded(p, q)
            \/ Blocked(q)
            \/ fresh /\ Synced(q)

LostOK ==
    \A p \in Paths, q \in Nat : <<p, q>> \in lostOn =>
        /\ q < nextId
        /\ ~UnderWayOn(p, q)
        /\ q > front => ~Recorded(p, q)

\* What was passed over since the last delivery was skipped or lost.
GapOK ==
    ~fresh => \A q \in Nat : lastOut < q /\ q <= front =>
                  q \in skippedIds \/ \A p \in Paths : <<p, q>> \in lostOn

StatOK ==
    /\ m_statistic.rx_exceed_md = 0
    /\ m_statistic.rx_count \in Int /\ m_statistic.rx_dropped \in Int
    /\ m_statistic.rx_count + m_statistic.rx_dropped = span

ChunkOK ==
    chunk # <<>> =>
      /\ pollPath = 0 /\ Placed /\ position <= front
      /\ \A i \in DOMAIN chunk :
           /\ chunk[i].id \in Nat /\ chunk[i].id <= front
           /\ chunk[1].id <= chunk[i].id
           /\ SlotOf(chunk[i].id) = chunk[i].slot
           /\ SeqOf(chunk[i].id) = chunk[i].seq
           /\ mem[chunk[i].slot] = chunk[i].id
           /\ chunk[i].by = {p \in Paths : <<p, chunk[i].id>> \notin lostOn}

SyncInv == /\ PlaceOK /\ Gone /\ LeftOver /\ MemProper
           /\ Exact /\ LostOK /\ GapOK /\ StatOK /\ ChunkOK

SlotInv == NetInv /\ EmptyUnlessRunning /\ RecordsOK /\ StatShape /\ IdleOK

StreamInv == SlotInv /\ (inSync => SyncInv)

-----------------------------------------------------------------------------

\* The types the proofs below need.
LEMMA SyncTypes ==
    ASSUME TypeOK
    PROVE  /\ clk \in Nat /\ nextId \in Nat /\ m_now \in Nat /\ m_start_time \in Nat
           /\ front \in Int /\ position \in Int /\ lastOut \in Int /\ span \in Int
           /\ held \in [Slots -> Int] /\ mem \in [Slots -> Int]
           /\ m_path_packets \in [Slots -> SUBSET Paths]
           /\ m_ext_packet_info_arr \in [Slots -> PacketInfo]
           /\ \A s \in Slots : Stamp(s) \in Nat
           /\ m_index \in Slots /\ m_state \in States
           /\ fresh \in BOOLEAN /\ inSync \in BOOLEAN /\ m_initialized \in BOOLEAN
  BY DEF TypeOK, EnvTypeOK, StreamTypeOK, AppTypeOK, Stamp, PacketInfo

\* The sizes of the buffer and of the sequence number range.
LEMMA SizeTypes ==
    /\ WrapAround \in Nat /\ WrapAround > 0 /\ WrapAround <= SeqMod
    /\ SeqMod \in Nat /\ InitOffset \in Nat /\ InitOffset > 0
    /\ MsbMask = 2 * InitOffset /\ SeqMod = 4 * InitOffset
    /\ MaxPathDiff \in Nat
<1>1. SeqMod \in Nat /\ SeqMod > 0 /\ SeqMod % 4 = 0
  BY ReceiverAssumption
<1>2. InitOffset \in Nat /\ SeqMod = 4 * InitOffset
  BY <1>1 DEF InitOffset
<1>3. MsbMask = 2 * InitOffset /\ InitOffset > 0
  BY <1>1, <1>2 DEF MsbMask
<1>4. WrapAround <= SeqMod
  BY <1>1, ReceiverAssumption DEF WrapAround
<1> QED
  BY <1>1, <1>2, <1>3, <1>4, WrapAroundType, ReceiverAssumption

\* The packets that may be in the buffer are fewer than its slots.
LEMMA BufferHolds ==
    ASSUME TypeOK, CapacitySuffices, inSync, Placed, ChunkOK
    PROVE  nextId <= front + 1 + WrapAround
<1>1. nextId - Unread <= WrapAround
  BY DEF CapacitySuffices
<1>2. CASE chunk = <<>>
  BY <1>1, <1>2, SyncTypes, SizeTypes DEF Unread
<1>3. CASE chunk # <<>>
  <2>1. chunk \in Seq(ChunkEntry)
    BY DEF TypeOK, AppTypeOK
  <2>2. 1 \in DOMAIN chunk
    BY <1>3, <2>1
  <2>3. chunk[1].id \in Nat /\ chunk[1].id <= front
    BY <1>3, <2>2 DEF ChunkOK
  <2>4. PICK u \in Nat : u = Unread /\ u <= front
    BY <1>3, <2>3 DEF Unread
  <2>5. nextId - u <= WrapAround
    BY <1>1, <2>4
  <2>6. nextId \in Nat /\ front \in Int /\ WrapAround \in Nat
    BY SyncTypes, SizeTypes
  <2> QED
    BY <2>4, <2>5, <2>6
<1> QED
  BY <1>2, <1>3

\* Packets in the buffer or under way that share a slot are one.
LEMMA SameSlotSamePacket ==
    ASSUME TypeOK, CapacitySuffices, inSync, Placed, ChunkOK, BufferDivides,
           NEW x \in Int, NEW y \in Int, x < nextId, y < nextId, SlotOf(x) = SlotOf(y),
           x > front \/ nextId - x <= WrapAround, y > front \/ nextId - y <= WrapAround
    PROVE  x = y
<1>1. nextId <= front + 1 + WrapAround
  BY BufferHolds
<1>2. x - y < WrapAround /\ y - x < WrapAround
  BY <1>1, SyncTypes, SizeTypes
<1> QED
  BY <1>2, CloseSlots

\* The distance of two sequence numbers.
LEMMA DistanceOfNumbers ==
    ASSUME NEW a \in Int, NEW b \in Int, 0 <= a - b, a - b < SeqMod
    PROVE  (SeqOf(a) - SeqOf(b)) % SeqMod = a - b
<1>1. SeqMod \in Nat \ {0}
  BY ReceiverAssumption
<1> DEFINE c == b - 1
<1>2. c \in Int /\ a - c - 1 = a - b /\ a - c - 1 \in 0..(SeqMod - 1)
  BY <1>1
<1> DEFINE p == a \div SeqMod
           u == a % SeqMod
           q == b \div SeqMod
           v == b % SeqMod
<1>3. p \in Int /\ u \in Int /\ a = p * SeqMod + u
  BY <1>1, Parts
<1>4. q \in Int /\ v \in Int /\ b = q * SeqMod + v
  BY <1>1, Parts
<1> HIDE DEF p, u, q, v
<1>5. /\ p * SeqMod \in Int /\ q * SeqMod \in Int
      /\ (p - q) * SeqMod = p * SeqMod - q * SeqMod /\ (p - q) \in Int
  BY <1>1, <1>3, <1>4, Products
<1>6. a - b = (u - v) + (p - q) * SeqMod
  BY <1>3, <1>4, <1>5
<1>7. (u - v) \in Int /\ ((u - v) + (p - q) * SeqMod) % SeqMod = (u - v) % SeqMod
  <2>1. u - v \in Int /\ p - q \in Int
    BY <1>3, <1>4
  <2> QED
    BY <1>1, <2>1, MultipleVanishes
<1>8. a - b \in 0..(SeqMod - 1) /\ (a - b) % SeqMod = a - b
  <2>1. a - b \in 0..(SeqMod - 1)
    BY <1>1
  <2> QED
    BY <1>1, <2>1, SmallRemainder
<1> QED
  BY <1>6, <1>7, <1>8 DEF SeqOf, u, v

\* Subtracting from a sequence number is subtracting from the packet.
LEMMA ShiftedNumber ==
    ASSUME NEW a \in Int, NEW k \in Int
    PROVE  (SeqOf(a) - k) % SeqMod = SeqOf(a - k)
<1>1. SeqMod \in Nat \ {0}
  BY ReceiverAssumption
<1> DEFINE p == a \div SeqMod
           u == a % SeqMod
<1>3. p \in Int /\ u \in Int /\ a = p * SeqMod + u
  BY <1>1, Parts
<1> HIDE DEF p, u
<1>5. p * SeqMod \in Int
  BY <1>1, <1>3, Products
<1>6. a - k = (u - k) + p * SeqMod /\ u - k \in Int
  BY <1>3, <1>5
<1>7. ((u - k) + p * SeqMod) % SeqMod = (u - k) % SeqMod
  BY <1>1, <1>3, <1>6, MultipleVanishes
<1> QED
  BY <1>6, <1>7 DEF SeqOf, u

\* Only sending puts copies under way, and only processing ends that.
LEMMA UnderWayChanges ==
    ASSUME NetInv, CompletionsFit, [Next]_vars, RestartSeqs = {},
           NEW p \in Paths, NEW x \in Nat
    PROVE  /\ UnderWayOn(p, x)' => \/ UnderWayOn(p, x)
                                   \/ TickSend /\ x = nextId /\ <<p, x>> \notin lostOn' \ lostOn
           /\ UnderWayOn(p, x) => \/ UnderWayOn(p, x)'
                                  \/ m_state = "NotStarted"
                                  \/ ProcessPacket /\ x = Head(todo) /\ p = pollPath - 1
           /\ TickSend /\ x = nextId => UnderWayOn(p, x)' \/ <<p, x>> \in lostOn'
<1>n. /\ x # Corrupted
      /\ pollPath \in 0..Ended /\ (todo # <<>> => pollPath \in 2..Done) /\ Done = NumPaths + 1
      /\ NumPaths \in Nat /\ p \in 1..NumPaths
  BY NumberTypes DEF NetInv
<1>e. todo = <<>> => Processing = {}
  BY DEF Processing, Elements
<1>1. ASSUME flight' = flight, cq' = cq, todo' = todo, pollPath' = pollPath \/ todo = <<>>
      PROVE  UnderWayOn(p, x)' <=> UnderWayOn(p, x)
  <2>1. FlightOf(p)' = FlightOf(p) /\ QueueOf(p)' = QueueOf(p) /\ Processing' = Processing
    BY <1>1 DEF FlightOf, QueueOf, Processing, Elements
  <2> QED
    BY <1>1, <1>e, <2>1 DEF UnderWayOn
<1>2. CASE UNCHANGED vars
  <2>1. flight' = flight /\ cq' = cq /\ todo' = todo /\ pollPath' = pollPath /\ clk' = clk
    BY <1>2 DEF vars, envVars
  <2>2. ~TickSend
    BY <2>1, NumberTypes DEF TickSend, TimePasses, NetInv
  <2> QED
    BY <1>1, <2>1, <2>2
<1>3. CASE TickSend
  <2>1. /\ FlightOf(p) \subseteq FlightOf(p)'
        /\ \A f \in FlightOf(p)' \ FlightOf(p) :
              /\ f.id = nextId => <<p, nextId>> \notin lostOn' \ lostOn
              /\ f.id \in {Corrupted, nextId}
        /\ <<p, nextId>> \in lostOn' \/ \E f \in FlightOf(p)' : f.id = nextId
    BY <1>3, SendSets DEF NetInv
  <2>2. cq' = cq /\ todo' = todo /\ pollPath' = pollPath
    BY <1>3 DEF TickSend, SendPacket
  <2>3. QueueOf(p)' = QueueOf(p) /\ Processing' = Processing
    BY <2>2 DEF QueueOf, Processing, Elements
  <2>4. UnderWayOn(p, x)' => UnderWayOn(p, x) \/ (x = nextId /\ <<p, x>> \notin lostOn' \ lostOn)
    <3>1. SUFFICES ASSUME NEW f \in FlightOf(p)', f.id = x, f \notin FlightOf(p)
                   PROVE  x = nextId /\ <<p, x>> \notin lostOn' \ lostOn
      BY <2>2, <2>3 DEF UnderWayOn
    <3> QED
      BY <1>n, <2>1, <3>1
  <2>5. UnderWayOn(p, x) => UnderWayOn(p, x)'
    BY <2>1, <2>2, <2>3 DEF UnderWayOn
  <2>6. x = nextId => UnderWayOn(p, x)' \/ <<p, x>> \in lostOn'
    BY <2>1 DEF UnderWayOn
  <2> QED
    BY <1>3, <2>4, <2>5, <2>6
<1>4. CASE ~TickSend /\ \/ TickSilent \/ \E q \in Paths : TakeChunkFails(q)
                        \/ Start \/ PollBegin \/ Assemble
  <2>1. flight' = flight /\ cq' = cq /\ todo' = todo /\ (pollPath' = pollPath \/ todo = <<>>)
    BY <1>4, <1>n DEF TickSilent, TakeChunkFails, Start, PollBegin, Assemble, envVars
  <2> QED
    BY <1>1, <1>4, <2>1
<1>5. ASSUME NEW q \in Paths, Arrive(q)
      PROVE  UnderWayOn(p, x)' <=> UnderWayOn(p, x)
  <2>1. PICK f \in FlightOf(q) :
             /\ FlightOf(q) = {f} \cup FlightOf(q)'
             /\ QueueOf(q)' = QueueOf(q) \cup {f.id}
             /\ \A r \in Paths \ {q} :
                   FlightOf(r)' = FlightOf(r) /\ QueueOf(r)' = QueueOf(r)
    BY <1>5, ArriveSets DEF NetInv
  <2>2. todo' = todo /\ pollPath' = pollPath
    BY <1>5 DEF Arrive
  <2>3. Processing' = Processing
    BY <2>2 DEF Processing, Elements
  <2>4. CASE p = q
    BY <2>1, <2>2, <2>3, <2>4 DEF UnderWayOn
  <2>5. CASE p # q
    BY <2>1, <2>2, <2>3, <2>5 DEF UnderWayOn
  <2> QED
    BY <2>4, <2>5
<1>6. ASSUME NEW q \in Paths, SyncPath(q)
      PROVE  UnderWayOn(p, x)' => UnderWayOn(p, x)
  <2>1. QueueOf(p)' \subseteq QueueOf(p)
    BY <1>6, SyncSets DEF NetInv
  <2>2. flight' = flight /\ todo' = todo /\ pollPath' = pollPath
    BY <1>6 DEF SyncPath
  <2>3. FlightOf(p)' = FlightOf(p) /\ Processing' = Processing
    BY <2>2 DEF FlightOf, Processing, Elements
  <2> QED
    BY <2>1, <2>2, <2>3 DEF UnderWayOn
<1>7. ASSUME NEW q \in Paths, TakeChunk(q)
      PROVE  UnderWayOn(p, x)' <=> UnderWayOn(p, x)
  <2>1. /\ Processing' = QueueOf(q) /\ QueueOf(q)' = {}
        /\ \A r \in Paths \ {q} : QueueOf(r)' = QueueOf(r)
    BY <1>7, TakeSets DEF NetInv, CompletionsFit
  <2>2. flight' = flight /\ todo = <<>> /\ pollPath' = q + 1
    BY <1>7 DEF TakeChunk
  <2>3. FlightOf(p)' = FlightOf(p)
    BY <2>2 DEF FlightOf, Elements
  <2>4. q \in 1..NumPaths
    BY DEF Paths
  <2>5. pollPath' = p + 1 <=> p = q
    BY <1>n, <2>2, <2>4
  <2> QED
    BY <1>e, <2>1, <2>2, <2>3, <2>5 DEF UnderWayOn
<1>8. CASE ProcessPacket \/ HandleCorruptedPacket
  <2>1. Processing = {Head(todo)} \cup Processing'
    BY <1>8, ProcessSets DEF NetInv
  <2>2. flight' = flight /\ cq' = cq /\ pollPath' = pollPath /\ todo # <<>>
    BY <1>8, ProcessKeepsClock DEF ProcessPacket, HandleCorruptedPacket
  <2>3. FlightOf(p)' = FlightOf(p) /\ QueueOf(p)' = QueueOf(p)
    BY <2>2 DEF FlightOf, QueueOf, Elements
  <2>4. HandleCorruptedPacket => Head(todo) # x
    BY <1>n DEF HandleCorruptedPacket
  <2>5. pollPath = p + 1 => p = pollPath - 1
    BY <1>n
  <2>6. ~TickSend
    BY <2>2 DEF TickSend, TimePasses, Observable
  <2> QED
    BY <1>8, <2>1, <2>2, <2>3, <2>4, <2>5, <2>6 DEF UnderWayOn
<1>9. ASSUME NEW q \in Paths, Arrive(q) \/ SyncPath(q) \/ TakeChunk(q)
      PROVE  ~TickSend
  <2>1. CASE SyncPath(q) \/ Arrive(q)
    <3>1. clk' = clk
      BY <2>1 DEF SyncPath, Arrive
    <3> QED
      BY <3>1, NumberTypes DEF TickSend, TimePasses, NetInv
  <2>2. CASE TakeChunk(q)
    <3>1. clk' = clk
      BY <2>2 DEF TakeChunk
    <3> QED
      BY <3>1, NumberTypes DEF TickSend, TimePasses, NetInv
  <2> QED
    BY <1>9, <2>1, <2>2
<1>10. ASSUME NEW q \in Paths, SyncPath(q)
       PROVE  m_state = "NotStarted"
  BY <1>10 DEF SyncPath
<1> QED
  BY <1>2, <1>3, <1>4, <1>5, <1>6, <1>7, <1>8, <1>9, <1>10, StepCases

\* Copies under way are not older than Oldest.
LEMMA UnderWayIsRecent ==
    ASSUME NetInv, NEW p \in Paths, NEW x \in Nat, UnderWayOn(p, x)
    PROVE  Recent(x)
<1>1. x # Corrupted
  BY DEF Corrupted
<1> QED
  BY <1>1, UnderWayRecent DEF UnderWayOn, NetInv

\* The network loses copies of the packet being sent only.
LEMMA LossesGrow ==
    ASSUME TypeOK, [Next]_vars, RestartSeqs = {}
    PROVE  /\ lostOn \subseteq lostOn' /\ lostOn' \subseteq lostOn \cup (Paths \X {nextId})
           /\ lostOn' = lostOn \/ (TickSend /\ nextId' = nextId + 1)
<1>1. CASE TickSend
  BY <1>1, SendSets
<1>2. CASE ~TickSend
  <2>1. lostOn' = lostOn
    BY <1>2, StepCases, AssembleKeepsClock, ProcessKeepsClock
    DEF TickSilent, Arrive, SyncPath, TakeChunk, TakeChunkFails, Start, PollBegin, envVars, vars
  <2> QED
    BY <2>1
<1> QED
  BY <1>1, <1>2

\* The adapter writes the memory of the slot of a packet that was under way.
LEMMA MemChanges ==
    ASSUME NetInv, [Next]_vars, RestartSeqs = {}
    PROVE  \/ mem' = mem
           \/ \E x \in Nat : Recent(x) /\ mem' = [mem EXCEPT ![SlotOf(x)] = x]
<1>1. CASE \E p \in Paths : Arrive(p)
  <2>1. PICK p \in Paths : Arrive(p)
    BY <1>1
  <2>2. PICK f \in FlightOf(p) :
             mem' = IF f.id = Corrupted THEN mem ELSE [mem EXCEPT ![SlotOf(f.id)] = f.id]
    BY <2>1, ArriveSets DEF NetInv
  <2>3. CASE f.id = Corrupted
    BY <2>2, <2>3
  <2>4. CASE f.id # Corrupted
    <3>1. Recent(f.id)
      BY <2>4, UnderWayRecent DEF NetInv
    <3>2. f.id \in Nat
      BY <3>1 DEF Recent
    <3> QED
      BY <2>2, <2>4, <3>1, <3>2
  <2> QED
    BY <2>3, <2>4
<1>2. CASE ~\E p \in Paths : Arrive(p)
  <2>1. mem' = mem
    BY <1>2, StepCases, AssembleKeepsClock, ProcessKeepsClock
    DEF TickSilent, TickSend, SyncPath, TakeChunk, TakeChunkFails, Start, PollBegin,
        envVars, vars
  <2> QED
    BY <2>1
<1> QED
  BY <1>1, <1>2

\* The age of the oldest copy is a number.
LEMMA OldestType == Oldest \in Nat
BY WaitTypes, EnvironmentAssumption DEF Oldest

\* The invariant holds before anything was sent.
LEMMA StreamInit == Init => StreamInv
<1> SUFFICES ASSUME Init
             PROVE  StreamInv
  OBVIOUS
<1>1. NetInv /\ EmptyUnlessRunning
  BY NetInit, IInvInductive DEF IInv
<1>2. \A s \in Slots : ~Valid(s)
  BY DEF Init, Valid
<1>3. RecordsOK
  BY <1>2 DEF RecordsOK
<1>4. StatShape
  BY DEF Init, StatShape, StatFields
<1>5. m_state = "NotStarted" /\ ~Placed /\ fresh /\ lostOn = {} /\ chunk = <<>>
  BY DEF Init, Placed
<1>6. IdleOK
  BY <1>5 DEF Init, IdleOK
<1>7. PlaceOK /\ Gone /\ LeftOver /\ MemProper
  BY <1>2, <1>5 DEF PlaceOK, Gone, LeftOver, MemProper
<1>8. Exact /\ LostOK /\ GapOK /\ ChunkOK
  BY <1>5 DEF Exact, LostOK, GapOK, ChunkOK
<1>9. StatOK
  BY DEF Init, StatOK
<1> QED
  BY <1>1, <1>3, <1>4, <1>6, <1>7, <1>8, <1>9 DEF StreamInv, SlotInv, SyncInv

-----------------------------------------------------------------------------
(* Steps that neither process a packet nor deliver.                        *)

\* The hypotheses of these lemmas.
Quiet == /\ StreamInv /\ CapacitySuffices /\ TimingSuffices
         /\ [Next]_vars /\ ~ProcessPacket /\ ~(Assemble /\ SkipAndDeliver)

\* What such a step finds, and what it leaves alone.
LEMMA QuietFacts ==
    ASSUME Quiet
    PROVE  /\ NetInv /\ TypeOK /\ RecordsOK /\ EmptyUnlessRunning /\ IdleOK /\ StatShape
           /\ CompletionsFit /\ [Next]_vars /\ RestartSeqs = {}
           /\ BufferDivides /\ Oldest <= WrapAround
           /\ UNCHANGED QuietVars
           /\ Placed' <=> Placed
           /\ m_state' = "NotStarted" => m_state = "NotStarted"
           /\ m_state # "NotStarted" => m_start_time' = m_start_time
           /\ nextId' \in Nat /\ nextId \in Nat /\ nextId <= nextId'
           /\ nextId' = nextId \/ (TickSend /\ nextId' = nextId + 1)
<1>1. /\ NetInv /\ TypeOK /\ RecordsOK /\ EmptyUnlessRunning /\ IdleOK /\ StatShape
      /\ CompletionsFit /\ [Next]_vars /\ RestartSeqs = {}
      /\ BufferDivides /\ Oldest <= WrapAround /\ ~ProcessPacket /\ ~(Assemble /\ SkipAndDeliver)
  BY DEF Quiet, StreamInv, SlotInv, NetInv, CapacitySuffices, TimingSuffices
<1>2. UNCHANGED QuietVars
  BY <1>1, QuietStep
<1>3. /\ Placed' <=> Placed
      /\ m_state' = "NotStarted" => m_state = "NotStarted"
      /\ m_state # "NotStarted" => m_start_time' = m_start_time
  BY <1>1, QuietStep DEF Placed
<1>4. /\ nextId' \in Nat /\ nextId \in Nat
      /\ nextId' = nextId \/ (TickSend /\ nextId' = nextId + 1)
  BY <1>1, SenderGoesOn, SyncTypes
<1>5. nextId <= nextId'
  BY <1>4
<1> HIDE DEF NetInv, TypeOK, RecordsOK, EmptyUnlessRunning, IdleOK, StatShape, CompletionsFit,
             BufferDivides, Oldest, QuietVars, Placed
<1> QED
  BY <1>1, <1>2, <1>3, <1>4, <1>5

\* A stream without a position stays without one.
LEMMA QuietIdle ==
    ASSUME Quiet
    PROVE  IdleOK' /\ StatShape'
<1>1. StatShape'
  BY QuietFacts, QuietStatistic DEF Quiet
<1>2. UNCHANGED QuietVars /\ IdleOK /\ (Placed' <=> Placed) /\ TypeOK /\ RestartSeqs = {}
  BY QuietFacts
<1>3. chunk' = chunk \/ chunk' = <<>>
  BY <1>2, QuietStep DEF Quiet
<1>4. IdleOK'
  BY <1>2, <1>3 DEF IdleOK, QuietVars
<1> QED
  BY <1>1, <1>4

\* The position stays; only an empty buffer lets the stream wait.
LEMMA QuietPlace ==
    ASSUME Quiet, SyncInv
    PROVE  PlaceOK'
<1>1. /\ UNCHANGED QuietVars /\ (Placed' <=> Placed) /\ TypeOK /\ RestartSeqs = {}
      /\ nextId' \in Nat /\ nextId \in Nat /\ nextId <= nextId'
  BY QuietFacts
<1>2. SUFFICES ASSUME Placed, PlaceOK
               PROVE  PlaceOK'
  BY <1>1 DEF SyncInv, PlaceOK
<1>3. m_state' # m_state => m_state' = "Waiting" /\ NothingFound
  BY <1>1, <1>2, QuietStep DEF Quiet, Placed
<1>4. front \in Int /\ position \in Int
  BY <1>1, SyncTypes
<1>5. NothingFound => position <= front
  <2>1. SlotOf(position) \in Slots
    BY <1>4, SeqOfType
  <2>2. ~(NothingFound /\ front = position - 1)
    BY <1>2, <2>1 DEF PlaceOK, NothingFound
  <2> QED
    BY <1>2, <1>4, <2>2 DEF PlaceOK
<1>6. Valid(SlotOf(position))' = Valid(SlotOf(position))
      /\ (held[SlotOf(position)])' = held[SlotOf(position)]
      /\ SlotOf(front + 1)' = SlotOf(front + 1)
      /\ SeqOf(Reference)' = SeqOf(Reference) /\ SeqOf(lastOut)' = SeqOf(lastOut)
  BY <1>1 DEF QuietVars, Valid, SlotOf, SeqOf, Reference
<1>7. front < nextId'
  BY <1>1, <1>2, <1>4 DEF PlaceOK
<1>8. m_state' = "Waiting" => position <= front
  BY <1>2, <1>3, <1>5 DEF PlaceOK
<1>9. front = position - 1 => m_state' = "Running"
  BY <1>2, <1>3, <1>4, <1>5 DEF PlaceOK
<1> QED
  BY <1>1, <1>2, <1>6, <1>7, <1>8, <1>9 DEF PlaceOK, QuietVars

\* What is sent or arrives comes behind the packets taken out.
LEMMA QuietBuffer ==
    ASSUME Quiet, SyncInv, inSync
    PROVE  Gone' /\ LeftOver' /\ MemProper'
<1>1. /\ UNCHANGED QuietVars /\ (Placed' <=> Placed) /\ NetInv /\ TypeOK /\ RestartSeqs = {}
      /\ [Next]_vars /\ CompletionsFit /\ BufferDivides /\ Oldest <= WrapAround
      /\ RecordsOK /\ EmptyUnlessRunning
      /\ nextId \in Nat
  BY QuietFacts
<1>2. Gone'
  <2> SUFFICES ASSUME Placed, NEW p \in Paths, NEW x \in Nat, UnderWayOn(p, x)'
               PROVE  x > front \/ front = position - 1
    BY <1>1 DEF Gone, QuietVars
  <2>1. CASE UnderWayOn(p, x)
    BY <2>1 DEF SyncInv, Gone
  <2>2. CASE x = nextId
    BY <1>1, <2>2, SyncTypes DEF SyncInv, PlaceOK
  <2> QED
    BY <1>1, <2>1, <2>2, UnderWayChanges
<1>3. LeftOver'
  BY <1>1 DEF SyncInv, LeftOver, QuietVars, Valid
<1>4. MemProper'
  <2> SUFFICES ASSUME NEW s \in Slots, Valid(s), held[s] > front
               PROVE  mem'[s] = held[s]
    BY <1>1 DEF MemProper, QuietVars, Valid
  <2>1. mem[s] = held[s]
    BY DEF SyncInv, MemProper
  <2>2. m_state = "Running" /\ Placed
    BY <1>1 DEF EmptyUnlessRunning, Placed
  <2>3. held[s] \in Nat /\ held[s] < nextId /\ SlotOf(held[s]) = s
    BY <1>1 DEF RecordsOK
  <2>4. CASE mem' = mem
    BY <2>1, <2>4
  <2>5. ASSUME NEW x \in Nat, Recent(x), mem' = [mem EXCEPT ![SlotOf(x)] = x]
        PROVE  mem'[s] = held[s]
    <3>1. CASE SlotOf(x) = s
      <4>1. x < nextId /\ nextId - x <= WrapAround
        BY <1>1, <2>5, SizeTypes, OldestType DEF Recent
      <4>2. x = held[s]
        BY <1>1, <2>2, <2>3, <3>1, <4>1, SameSlotSamePacket DEF Quiet, SyncInv
      <4> QED
        BY <2>5, <3>1, <4>2, <1>1, SyncTypes
    <3>2. CASE SlotOf(x) # s
      BY <2>1, <2>5, <3>2, <1>1, SyncTypes
    <3> QED
      BY <3>1, <3>2
  <2> QED
    BY <1>1, <2>4, <2>5, MemChanges
<1> QED
  BY <1>2, <1>3, <1>4

\* The first packets: what is under way when the stream is started falls into
\* the initial sync.
LEMMA StartSyncs ==
    ASSUME Quiet, m_state = "NotStarted", m_state' # "NotStarted", NEW q \in Nat
    PROVE  Synced(q)'
<1>1. /\ UNCHANGED QuietVars /\ NetInv /\ TypeOK /\ RestartSeqs = {} /\ EmptyUnlessRunning
      /\ [Next]_vars
  BY QuietFacts
<1>2. \A s \in Slots : ~Valid(s)'
  BY <1>1 DEF EmptyUnlessRunning, QuietVars, Valid
<1>3. m_start_time' = clk + MaxPathDiff
  BY <1>1, QuietStep DEF Quiet
<1>4. Start \/ PollBegin
  <2>1. ~TickSilent /\ ~TickSend
    BY DEF TickSilent, TickSend, ipoVars
  <2>2. \A p \in Paths : ~Arrive(p) /\ ~SyncPath(p) /\ ~TakeChunk(p) /\ ~TakeChunkFails(p)
    BY DEF Arrive, SyncPath, TakeChunk, TakeChunkFails, ipoVars
  <2>3. ~HandleCorruptedPacket /\ ~UNCHANGED vars /\ ~ProcessPacket
    BY DEF HandleCorruptedPacket, ipoVars, vars, Quiet
  <2>4. ~Assemble
    BY AssembleKeepsClock
  <2> QED
    BY <1>1, <2>1, <2>2, <2>3, <2>4, StepCases
<1>5. /\ flight' = flight /\ cq' = cq /\ todo' = todo
      /\ m_now' = m_now \/ m_now' = clk
  BY <1>4 DEF Start, PollBegin, envVars
<1>6. /\ clk \in Nat /\ m_now \in Nat /\ m_now <= clk /\ Gap \in Nat /\ Skew \in Nat
      /\ MaxPathDiff \in Nat /\ Skew + Gap < MaxPathDiff
  BY <1>1, NumberTypes, WaitTypes DEF NetInv, ClockOK, Quiet, TimingSuffices
<1>7. PICK t \in Int : t = clk + MaxPathDiff - 1 - Gap
  BY <1>6
<1>8. clk + Skew <= t
  BY <1>6, <1>7
<1>9. \A p \in Paths : \A f \in FlightOf(p) : f.due <= t
  <2>1. \A p \in Paths : \A f \in FlightOf(p) : f.due <= clk + Skew /\ f.due \in Nat
    BY <1>1, UnderWayNumbers DEF NetInv, NetworkOK
  <2>2. clk + Skew \in Nat
    BY <1>6
  <2> QED
    BY <1>8, <2>1, <2>2
<1>10. m_now' <= t + Gap /\ m_now' <= t /\ clk' = clk /\ clk <= t + Gap
  <2>1. \A v \in {m_now, clk} : v <= t + Gap /\ v <= t
    BY <1>6, <1>7
  <2>2. clk' = clk
    BY <1>4 DEF Start, PollBegin, envVars
  <2> QED
    BY <1>5, <2>1, <2>2
<1>11. ClearedBy(q, t, Gap)'
  <2>1. /\ \A p \in Paths : FlightOf(p)' = FlightOf(p)
        /\ \A p \in Paths : QueueOf(p)' = QueueOf(p) /\ Processing' = Processing
    BY <1>5 DEF FlightOf, QueueOf, Processing, Elements
  <2> QED
    BY <1>9, <1>10, <2>1 DEF ClearedBy
<1>12. m_start_time' - 1 - Gap = t
  <2>1. PICK v \in Nat : v = clk + MaxPathDiff
    BY <1>6
  <2>2. m_start_time' = v
    BY <1>3, <2>1
  <2> QED
    BY <1>6, <1>7, <2>1, <2>2
<1> QED
  BY <1>2, <1>11, <1>12 DEF Synced, ClearedBy

\* The initial sync goes on to cover what it covered.
LEMMA SyncedStays ==
    ASSUME Quiet, m_state # "NotStarted", NEW q \in Nat, q < nextId, Synced(q)
    PROVE  Synced(q)'
<1>1. /\ UNCHANGED QuietVars /\ NetInv /\ TypeOK /\ RestartSeqs = {} /\ CompletionsFit
      /\ [Next]_vars /\ m_start_time' = m_start_time
  BY QuietFacts
<1>2. PICK t \in Int : t = m_start_time - 1 - Gap
  BY <1>1, WaitTypes, SyncTypes
<1>3. ClearedBy(q, t, Gap)
  BY <1>2 DEF Synced
<1>4. ClearedBy(q, t, Gap)'
  BY <1>1, <1>3, WaitTypes, ClearedStep DEF NetInv
<1>5. m_start_time' - 1 - Gap = t
  BY <1>1, <1>2
<1> QED
  BY <1>1, <1>4, <1>5 DEF Synced, QuietVars, Valid, Stamp, ClearedBy

\* A packet that is sent is under way on every path or lost; nothing is forgotten.
LEMMA QuietExact ==
    ASSUME Quiet, SyncInv
    PROVE  Exact'
<1>1. /\ UNCHANGED QuietVars /\ (Placed' <=> Placed) /\ NetInv /\ TypeOK /\ RestartSeqs = {}
      /\ [Next]_vars /\ CompletionsFit /\ IdleOK
      /\ m_state' = "NotStarted" => m_state = "NotStarted"
      /\ nextId \in Nat /\ nextId' \in Nat
      /\ nextId' = nextId \/ (TickSend /\ nextId' = nextId + 1)
  BY QuietFacts
<1> SUFFICES ASSUME m_state' # "NotStarted", NEW p \in Paths, NEW q \in Nat,
                    front < q, q < nextId'
             PROVE  \/ <<p, q>> \in lostOn'
                    \/ UnderWayOn(p, q)'
                    \/ Recorded(p, q)'
                    \/ Blocked(q)'
                    \/ fresh' /\ Synced(q)'
  BY <1>1 DEF Exact, QuietVars
<1>2. CASE m_state = "NotStarted"
  <2>1. fresh'
    BY <1>1, <1>2 DEF IdleOK, QuietVars, Placed
  <2> QED
    BY <1>2, <2>1, StartSyncs
<1>3. CASE m_state # "NotStarted" /\ TickSend /\ q = nextId
  BY <1>1, <1>3, UnderWayChanges
<1>4. CASE m_state # "NotStarted" /\ ~(TickSend /\ q = nextId)
  <2>1. q < nextId
    BY <1>1, <1>4
  <2>2. \/ <<p, q>> \in lostOn
        \/ UnderWayOn(p, q)
        \/ Recorded(p, q)
        \/ Blocked(q)
        \/ fresh /\ Synced(q)
    BY <1>4, <2>1 DEF SyncInv, Exact
  <2>3. <<p, q>> \in lostOn => <<p, q>> \in lostOn'
    BY <1>1, LossesGrow
  <2>4. UnderWayOn(p, q) => UnderWayOn(p, q)'
    BY <1>1, <1>4, UnderWayChanges DEF Quiet
  <2>5. Recorded(p, q) => Recorded(p, q)'
    BY <1>1 DEF Recorded, QuietVars, Valid, SlotOf, SeqOf
  <2>6. Blocked(q) => Blocked(q)'
    BY <1>1 DEF Blocked, QuietVars, Valid, SlotOf, SeqOf
  <2>7. Synced(q) => Synced(q)'
    BY <1>4, <2>1, SyncedStays
  <2> QED
    BY <1>1, <2>2, <2>3, <2>4, <2>5, <2>6, <2>7 DEF QuietVars
<1> QED
  BY <1>2, <1>3, <1>4

\* A copy that is lost is not under way.
LEMMA QuietLost ==
    ASSUME Quiet, SyncInv
    PROVE  LostOK' /\ GapOK'
<1>1. /\ UNCHANGED QuietVars /\ NetInv /\ TypeOK /\ RestartSeqs = {}
      /\ [Next]_vars /\ CompletionsFit /\ RecordsOK
      /\ nextId \in Nat /\ nextId' \in Nat /\ nextId <= nextId'
      /\ nextId' = nextId \/ (TickSend /\ nextId' = nextId + 1)
  BY QuietFacts
<1>2. LostOK /\ GapOK
  BY DEF SyncInv
<1>3. LostOK'
  <2> SUFFICES ASSUME NEW p \in Paths, NEW q \in Nat, <<p, q>> \in lostOn'
               PROVE  /\ q < nextId'
                      /\ ~UnderWayOn(p, q)'
                      /\ q > front => ~Recorded(p, q)
    BY <1>1 DEF LostOK, QuietVars, Recorded, Valid, SlotOf, SeqOf
  <2>1. CASE <<p, q>> \in lostOn
    <3>1. /\ q < nextId /\ ~UnderWayOn(p, q)
          /\ q > front => ~Recorded(p, q)
      BY <1>2, <2>1 DEF LostOK
    <3>2. ~UnderWayOn(p, q)'
      BY <1>1, <2>1, <3>1, UnderWayChanges
    <3>3. q < nextId'
      BY <1>1, <3>1
    <3> QED
      BY <3>1, <3>2, <3>3
  <2>2. CASE <<p, q>> \notin lostOn
    <3>1. q = nextId /\ nextId' = nextId + 1
      BY <1>1, <2>2, LossesGrow
    <3>2. ~UnderWayOn(p, q)
      BY <1>1, <3>1, UnderWayIsRecent DEF Recent
    <3>3. ~UnderWayOn(p, q)'
      BY <1>1, <2>2, <3>2, UnderWayChanges
    <3>4. ~Recorded(p, q)
      <4>1. SlotOf(q) \in Slots
        BY SeqOfType
      <4> QED
        BY <1>1, <3>1, <4>1 DEF Recorded, RecordsOK
    <3> QED
      BY <1>1, <3>1, <3>3, <3>4
  <2> QED
    BY <2>1, <2>2
<1>4. GapOK'
  <2>1. lostOn \subseteq lostOn'
    BY <1>1, LossesGrow
  <2> QED
    BY <1>1, <1>2, <2>1 DEF GapOK, QuietVars
<1> QED
  BY <1>3, <1>4

\* The adapter does not overwrite a packet the caller may still read.
LEMMA QuietChunk ==
    ASSUME Quiet, SyncInv, inSync
    PROVE  StatOK' /\ ChunkOK'
<1>1. /\ UNCHANGED QuietVars /\ NetInv /\ TypeOK /\ RestartSeqs = {} /\ StatShape
      /\ [Next]_vars /\ CompletionsFit /\ BufferDivides /\ Oldest <= WrapAround
      /\ (Placed' <=> Placed) /\ nextId \in Nat
  BY QuietFacts
<1>2. StatOK'
  BY <1>1, QuietStatistic DEF SyncInv, StatOK, Quiet, QuietVars
<1>3. ChunkOK'
  <2>1. CASE chunk' = <<>>
    BY <2>1 DEF ChunkOK
  <2>2. CASE chunk' = chunk /\ (pollPath = 0 => pollPath' = 0)
    <3> SUFFICES ASSUME chunk # <<>>
                 PROVE  ChunkOK'
      BY <2>2 DEF ChunkOK
    <3> DEFINE Good(i) == /\ chunk[i].id \in Nat /\ chunk[i].id <= front
                          /\ chunk[1].id <= chunk[i].id
                          /\ SlotOf(chunk[i].id) = chunk[i].slot
                          /\ SeqOf(chunk[i].id) = chunk[i].seq
                          /\ mem[chunk[i].slot] = chunk[i].id
                          /\ chunk[i].by = {p \in Paths : <<p, chunk[i].id>> \notin lostOn}
    <3>1. pollPath = 0 /\ Placed /\ position <= front /\ \A i \in DOMAIN chunk : Good(i)
      BY DEF SyncInv, ChunkOK
    <3>2. chunk \in Seq(ChunkEntry) /\ 1 \in DOMAIN chunk
      BY <1>1 DEF TypeOK, AppTypeOK
    <3>3. ASSUME NEW i \in DOMAIN chunk
          PROVE  /\ mem'[chunk[i].slot] = chunk[i].id
                 /\ chunk[i].by = {p \in Paths : <<p, chunk[i].id>> \notin lostOn'}
      <4>1. Good(i) /\ chunk[1].id \in Nat
        BY <3>1, <3>2
      <4>2. PICK c \in Nat, u \in Nat : c = chunk[i].id /\ u = chunk[1].id
        BY <4>1
      <4>3. /\ c <= front /\ u <= c /\ SlotOf(c) = chunk[i].slot /\ mem[SlotOf(c)] = c
            /\ chunk[i].by = {p \in Paths : <<p, c>> \notin lostOn}
        BY <4>1, <4>2
      <4>4. front < nextId /\ front \in Int /\ c < nextId
        BY <1>1, <3>1, <4>3, SyncTypes DEF SyncInv, PlaceOK
      <4>5. nextId - u <= WrapAround
        BY <1>1, <3>1, <4>2 DEF Quiet, CapacitySuffices, Unread
      <4>6. nextId - c <= WrapAround
        BY <1>1, <4>3, <4>5, SizeTypes
      <4>7. \A p \in Paths : <<p, c>> \in lostOn' <=> <<p, c>> \in lostOn
        BY <1>1, <4>4, LossesGrow
      <4>8. CASE mem' = mem
        BY <4>2, <4>3, <4>7, <4>8
      <4>9. ASSUME NEW x \in Nat, Recent(x), mem' = [mem EXCEPT ![SlotOf(x)] = x]
            PROVE  mem'[SlotOf(c)] = c
        <5>1. CASE SlotOf(x) = SlotOf(c)
          <6>1. x < nextId /\ nextId - x <= WrapAround
            BY <1>1, <4>9, SizeTypes, OldestType DEF Recent
          <6>2. x = c
            BY <1>1, <3>1, <4>4, <4>6, <5>1, <6>1, SameSlotSamePacket DEF Quiet, SyncInv
          <6> QED
            BY <1>1, <4>9, <6>2, SyncTypes, SeqOfType
        <5>2. CASE SlotOf(x) # SlotOf(c)
          <6>1. SlotOf(x) \in Slots /\ SlotOf(c) \in Slots
            BY SeqOfType
          <6>2. mem \in [Slots -> Int]
            BY <1>1, SyncTypes
          <6>3. mem'[SlotOf(c)] = mem[SlotOf(c)]
            BY <4>9, <5>2, <6>1, <6>2
          <6> QED
            BY <4>3, <6>3
        <5> QED
          BY <5>1, <5>2
      <4>10. mem'[SlotOf(c)] = c
        BY <1>1, <4>3, <4>8, <4>9, MemChanges
      <4> QED
        BY <4>2, <4>3, <4>7, <4>10
    <3>4. pollPath' = 0 /\ Placed' /\ position' <= front'
      BY <1>1, <2>2, <3>1 DEF QuietVars
    <3> QED
      BY <1>1, <2>2, <3>1, <3>3, <3>4 DEF ChunkOK, QuietVars, SlotOf, SeqOf
  <2> QED
    BY <1>1, <2>1, <2>2, QuietStep DEF Quiet
<1> QED
  BY <1>2, <1>3

\* Together: the quiet steps preserve the invariant of a stream in sync.
LEMMA QuietSync ==
    ASSUME Quiet
    PROVE  IdleOK' /\ StatShape' /\ (inSync' => SyncInv')
<1>1. inSync' = inSync
  BY QuietFacts DEF QuietVars
<1>2. inSync => SyncInv
  BY DEF Quiet, StreamInv
<1> QED
  BY <1>1, <1>2, QuietIdle, QuietPlace, QuietBuffer, QuietExact, QuietLost, QuietChunk
  DEF SyncInv

-----------------------------------------------------------------------------
(* Processing a packet.                                                    *)

\* The packet being processed and its path.
Packet == Head(todo)
OnPath == pollPath - 1

Process == StreamInv /\ CapacitySuffices /\ TimingSuffices /\ [Next]_vars /\ ProcessPacket

\* What the processing of a packet finds, and what it leaves alone.
LEMMA ProcessFacts ==
    ASSUME Process
    PROVE  /\ NetInv /\ TypeOK /\ RecordsOK /\ EmptyUnlessRunning /\ IdleOK /\ StatShape
           /\ CompletionsFit /\ [Next]_vars /\ RestartSeqs = {} /\ BufferDivides
           /\ Packet \in Nat /\ Packet < nextId
           /\ nextId - Packet <= WrapAround /\ nextId - Packet <= InitOffset
           /\ OnPath \in Paths /\ UnderWayOn(OnPath, Packet)
           /\ SlotOf(Packet) \in Slots /\ mem[SlotOf(Packet)] = Packet
           /\ SeqOf(Packet) % WrapAround = SlotOf(Packet)
           /\ m_state # "NotStarted" /\ m_state' = "Running"
           /\ UNCHANGED <<nextId, mem, lostOn, m_now, chunk, pollPath, lastOut, span,
                          m_last_sequence_number, skippedIds, inSync>>
           /\ todo # <<>> /\ pollPath # 0
<1>1. /\ NetInv /\ TypeOK /\ RecordsOK /\ EmptyUnlessRunning /\ IdleOK /\ StatShape
      /\ CompletionsFit /\ [Next]_vars /\ RestartSeqs = {} /\ BufferDivides
      /\ Oldest <= WrapAround /\ Oldest <= InitOffset /\ ProcessPacket
  BY DEF Process, StreamInv, SlotInv, NetInv, CapacitySuffices, TimingSuffices
<1>2. /\ Packet \in Nat /\ Packet # Corrupted /\ Packet \in Processing
      /\ OnPath \in Paths /\ pollPath \in 2..Done
      /\ SeqOf(Packet) % WrapAround = SlotOf(Packet) /\ SlotOf(Packet) \in Slots
  BY <1>1, ProcessedPacket DEF Packet, OnPath
<1>3. pollPath = OnPath + 1 /\ pollPath # 0
  BY <1>2 DEF OnPath
<1>4. UnderWayOn(OnPath, Packet)
  BY <1>2, <1>3 DEF UnderWayOn
<1>5. Packet < nextId /\ nextId - Packet <= Oldest
  BY <1>1, <1>2, <1>4, UnderWayIsRecent DEF Recent
<1>6. nextId - Packet <= WrapAround /\ nextId - Packet <= InitOffset
  BY <1>1, <1>2, <1>5, OldestType, SizeTypes, SyncTypes
<1>7. mem[SlotOf(Packet)] = Packet
  BY <1>1, <1>2 DEF NetInv, MemOK
<1>8. m_state # "NotStarted"
  BY <1>1, <1>3 DEF NetInv, ClockOK
<1>9. /\ m_state' = "Running" /\ todo # <<>>
      /\ UNCHANGED <<nextId, mem, lostOn, m_now, chunk, pollPath, lastOut, span,
                     m_last_sequence_number, skippedIds, inSync>>
  BY <1>1 DEF ProcessPacket, UpdateState, envVars
<1> HIDE DEF NetInv, TypeOK, RecordsOK, EmptyUnlessRunning, IdleOK, StatShape, CompletionsFit,
             BufferDivides, Packet, OnPath
<1> QED
  BY <1>1, <1>2, <1>3, <1>4, <1>5, <1>6, <1>7, <1>8, <1>9

\* Only the packet being processed ceases to be under way.
LEMMA ProcessUnderWay ==
    ASSUME Process, NEW r \in Paths, NEW q \in Nat
    PROVE  /\ UnderWayOn(r, q)' => UnderWayOn(r, q)
           /\ UnderWayOn(r, q) => UnderWayOn(r, q)' \/ (q = Packet /\ r = OnPath)
<1>1. ~TickSend
  BY ProcessFacts DEF TickSend, TimePasses, Observable
<1> QED
  BY <1>1, ProcessFacts, UnderWayChanges DEF Packet, OnPath

\* The initial sync covers the packets it covered, and stamps them early enough.
LEMMA ProcessSyncs ==
    ASSUME Process, NEW q \in Nat, q < nextId, Synced(q)
    PROVE  /\ m_start_time' \in Nat /\ m_start_time <= m_start_time'
           /\ ClearedBy(q, m_start_time - 1 - Gap, Gap)
           /\ ClearedBy(q, m_start_time - 1 - Gap, Gap)'
           /\ Packet <= q => m_now < m_start_time
<1>1. /\ NetInv /\ TypeOK /\ RestartSeqs = {} /\ CompletionsFit /\ [Next]_vars
      /\ m_state # "NotStarted" /\ pollPath # 0 /\ Packet \in Nat /\ Packet \in Processing
  BY ProcessFacts, ProcessedPacket DEF Process, Packet
<1>2. /\ m_start_time \in Nat /\ m_now \in Nat /\ MaxPathDiff \in Nat /\ Gap \in Nat
      /\ m_start_time <= m_now + MaxPathDiff
  BY <1>1, NumberTypes, WaitTypes DEF NetInv, ClockOK
<1>3. m_start_time' \in {m_start_time, m_now + MaxPathDiff}
  BY DEF Process, ProcessPacket, UpdateState
<1>4. PICK v \in Nat : v = m_start_time' /\ m_start_time <= v
  <2>1. \A v \in {m_start_time, m_now + MaxPathDiff} : v \in Nat /\ m_start_time <= v
    BY <1>2
  <2> QED
    BY <1>3, <2>1
<1>4v. m_start_time <= v
  BY <1>4
<1>5. PICK t \in Int : t = m_start_time - 1 - Gap
  BY <1>2
<1>5u. PICK u \in Int : u = v - 1 - Gap
  BY <1>2
<1>6. ClearedBy(q, t, Gap)
  BY <1>5 DEF Synced
<1>7. t <= u /\ q <= q /\ Gap <= Gap
  BY <1>2, <1>4v, <1>5, <1>5u
<1>8. ClearedBy(q, u, Gap)
  <2>1. TypeOK /\ q \in Int /\ Gap \in Nat
    BY <1>1, <1>2
  <2> QED
    BY <1>6, <1>7, <2>1, ClearedLater
<1>9. ClearedBy(q, u, Gap)'
  BY <1>1, <1>2, <1>8, ClearedStep DEF NetInv
<1>10. m_start_time' - 1 - Gap = u
  <2>1. m_start_time' = v
    BY <1>4
  <2> QED
    BY <1>5u, <2>1
<1>11. Packet <= q => m_now <= t + Gap
  <2>1. Packet # Corrupted
    BY <1>1 DEF Corrupted
  <2> QED
    BY <1>1, <1>6, <2>1 DEF ClearedBy
<1>12. Packet <= q => m_now < m_start_time
  BY <1>2, <1>5, <1>11
<1>13. ClearedBy(q, m_start_time - 1 - Gap, Gap)'
  BY <1>9, <1>10 DEF ClearedBy
<1>14. ClearedBy(q, m_start_time - 1 - Gap, Gap)
  BY DEF Synced
<1> QED
  BY <1>4, <1>12, <1>13, <1>14

\* The packet repositions the stream: the buffer is empty, and the packet is
\* the first of the new position.
LEMMA RepositionFacts ==
    ASSUME Process, Repositions
    PROVE  /\ \A s \in Slots : ~Valid(s)
           /\ LastProcessed(SeqOf(Packet)) = SeqOf(Packet - InitOffset)
           /\ ~IsLate(SeqOf(Packet)) /\ ~IsRedundant(SeqOf(Packet))
           /\ m_last_processed_sequence_number' = SeqOf(Packet - InitOffset)
           /\ position' = Packet /\ front' = Packet - 1 /\ fresh'
           /\ m_index' = SlotOf(Packet) /\ ~m_initialized'
<1>1. m_state # "Running" /\ TypeOK /\ EmptyUnlessRunning /\ IdleOK
      /\ Packet \in Nat /\ SlotOf(Packet) \in Slots
      /\ SeqOf(Packet) % WrapAround = SlotOf(Packet)
  BY ProcessFacts DEF Repositions, SenderRestarted
<1>2. \A s \in Slots : ~Valid(s)
  BY <1>1 DEF EmptyUnlessRunning
<1>3. LastProcessed(SeqOf(Packet)) = SeqOf(Packet - InitOffset)
  BY <1>1, ShiftedNumber, SizeTypes DEF LastProcessed
<1>4. SeqDelta(SeqOf(Packet)) = InitOffset
  <2>1. PICK a \in Int, b \in Int : a = Packet /\ b = Packet - InitOffset
    BY <1>1, SizeTypes
  <2>2. 0 <= a - b /\ a - b < SeqMod /\ a - b = InitOffset
    BY <1>1, <2>1, SizeTypes
  <2>3. (SeqOf(a) - SeqOf(b)) % SeqMod = a - b
    BY <2>2, DistanceOfNumbers
  <2> QED
    BY <1>3, <2>1, <2>2, <2>3 DEF SeqDelta
<1>5. ~IsLate(SeqOf(Packet))
  BY <1>4, SizeTypes DEF IsLate
<1>6. ~IsRedundant(SeqOf(Packet))
  BY <1>1, <1>2 DEF IsRedundant, Valid
<1>7. UpdateState(SeqOf(Packet)) /\ position' = Packet /\ front' = Packet - 1
  BY DEF Process, ProcessPacket, Packet
<1>8. /\ m_last_processed_sequence_number' = SeqOf(Packet - InitOffset) /\ fresh'
      /\ m_index' = SlotOf(Packet)
  BY <1>1, <1>3, <1>7 DEF UpdateState
<1>9. ~m_initialized'
  <2>1. m_initialized' = (m_initialized /\ ~SenderRestarted)
    BY <1>7 DEF UpdateState, HandleSenderRestart
  <2>2. ~SenderRestarted => ~m_initialized
    BY <1>1 DEF Repositions, IdleOK, Placed
  <2> QED
    BY <2>1, <2>2
<1> QED
  BY <1>2, <1>3, <1>5, <1>6, <1>7, <1>8, <1>9

\* The buffer then holds that packet only.
LEMMA RepositionRecords ==
    ASSUME Process, Repositions, NEW s \in Slots
    PROVE  /\ Valid(s)' <=> s = SlotOf(Packet)
           /\ s = SlotOf(Packet) => /\ held'[s] = Packet /\ m_path_packets'[s] = {OnPath}
                                    /\ Stamp(s)' = m_now
           /\ m_statistic' = m_statistic
<1>1. /\ m_statistic' = m_statistic
      /\ m_ext_packet_info_arr' = [m_ext_packet_info_arr EXCEPT ![SlotOf(Packet)] =
            [sequence_number |-> SeqOf(Packet), is_valid |-> TRUE, timestamp |-> m_now]]
      /\ m_path_packets' = [m_path_packets EXCEPT ![SlotOf(Packet)] = {OnPath}]
      /\ held' = [held EXCEPT ![SlotOf(Packet)] = Packet]
  <2>1. ~IsLate(SeqOf(Packet)) /\ ~IsRedundant(SeqOf(Packet))
    BY RepositionFacts
  <2>2. TypeOK /\ ProcessPacket
    BY ProcessFacts DEF Process
  <2> QED
    BY <2>1, <2>2, ProcessRecords DEF Packet, OnPath
<1>2. /\ m_ext_packet_info_arr \in [Slots -> PacketInfo] /\ held \in [Slots -> Int]
      /\ m_path_packets \in [Slots -> SUBSET Paths] /\ SlotOf(Packet) \in Slots
  BY ProcessFacts, SyncTypes
<1>3. CASE s = SlotOf(Packet)
  BY <1>1, <1>2, <1>3 DEF Valid, Stamp
<1>4. CASE s # SlotOf(Packet)
  <2>1. ~Valid(s)
    BY RepositionFacts
  <2>2. m_ext_packet_info_arr'[s] = m_ext_packet_info_arr[s]
    BY <1>1, <1>2, <1>4
  <2> QED
    BY <1>1, <1>4, <2>1, <2>2 DEF Valid
<1> QED
  BY <1>3, <1>4

\* The packet that positions the stream starts the invariant.
LEMMA RepositionStep ==
    ASSUME Process, inSync, SyncInv, Repositions
    PROVE  SyncInv'
<1>1. /\ NetInv /\ TypeOK /\ RestartSeqs = {} /\ BufferDivides /\ IdleOK
      /\ Packet \in Nat /\ Packet < nextId /\ nextId \in Nat
      /\ OnPath \in Paths /\ UnderWayOn(OnPath, Packet)
      /\ SlotOf(Packet) \in Slots /\ mem[SlotOf(Packet)] = Packet
      /\ m_state # "NotStarted" /\ m_state' = "Running"
      /\ UNCHANGED <<nextId, mem, lostOn, m_now, chunk, pollPath, lastOut, span,
                     m_last_sequence_number, skippedIds, inSync>>
      /\ pollPath # 0
  BY ProcessFacts, SyncTypes
<1>2. /\ m_last_processed_sequence_number' = SeqOf(Packet - InitOffset)
      /\ position' = Packet /\ front' = Packet - 1 /\ fresh'
      /\ m_index' = SlotOf(Packet) /\ ~m_initialized'
      /\ \A s \in Slots : ~Valid(s)
  BY RepositionFacts
<1>3. PICK x \in Nat, g \in Int : x = Packet /\ g = front
  BY <1>1, SyncTypes
<1>4. g < x /\ lastOut <= x - 1
  <2>1. CASE Placed
    <3>1. m_state = "Waiting"
      BY <2>1 DEF Placed, Repositions, SenderRestarted
    <3>2. position <= front /\ lastOut <= front
      BY <2>1, <3>1 DEF SyncInv, PlaceOK
    <3>3. x > front \/ front = position - 1
      BY <1>1, <1>3, <2>1 DEF SyncInv, Gone
    <3> QED
      BY <1>1, <1>3, <3>2, <3>3, SyncTypes
  <2>2. CASE ~Placed
    BY <1>1, <1>3, <2>2 DEF IdleOK, NoPacket
  <2> QED
    BY <2>1, <2>2
<1>5. /\ position' = x /\ front' = x - 1 /\ nextId' = nextId /\ lastOut' = lastOut
      /\ m_last_processed_sequence_number' = SeqOf(x - InitOffset) /\ m_index' = SlotOf(x)
      /\ x < nextId /\ SlotOf(x) \in Slots
  BY <1>1, <1>2, <1>3
<1>6. \A s \in Slots : /\ Valid(s)' <=> s = SlotOf(x)
                       /\ s = SlotOf(x) => /\ held'[s] = x /\ m_path_packets'[s] = {OnPath}
                                           /\ Stamp(s)' = m_now
  BY <1>3, RepositionRecords
<1>7. \A y \in Int : SlotOf(y)' = SlotOf(y) /\ SeqOf(y)' = SeqOf(y)
  BY DEF SlotOf, SeqOf
<1>8. PlaceOK'
  <2>1. x - 1 + 1 = x /\ x - 1 < nextId /\ 0 <= x /\ x - 1 <= x - 1
    BY <1>1, <1>5
  <2>2. Reference' = x - InitOffset
    BY <1>2, <1>5 DEF Reference
  <2>3. Valid(SlotOf(x))' /\ held'[SlotOf(x)] = x
    BY <1>5, <1>6 DEF SlotOf, SeqOf, Valid
  <2> QED
    BY <1>1, <1>2, <1>4, <1>5, <2>1, <2>2, <2>3 DEF PlaceOK, SlotOf, SeqOf, Valid
<1>9. Gone'
  BY <1>5 DEF Gone
<1>10. LeftOver' /\ MemProper'
  <2>1. x > x - 1
    OBVIOUS
  <2> QED
    BY <1>1, <1>3, <1>5, <1>6, <2>1 DEF LeftOver, MemProper
<1>11. Exact'
  <2> SUFFICES ASSUME NEW r \in Paths, NEW q \in Nat, x - 1 < q, q < nextId
               PROVE  \/ <<r, q>> \in lostOn'
                      \/ UnderWayOn(r, q)'
                      \/ Recorded(r, q)'
                      \/ Blocked(q)'
                      \/ fresh' /\ Synced(q)'
    BY <1>5 DEF Exact
  <2>1. g < q
    BY <1>3, <1>4
  <2>2. SlotOf(q) \in Slots
    BY SeqOfType
  <2>3. \/ <<r, q>> \in lostOn
        \/ UnderWayOn(r, q)
        \/ fresh /\ Synced(q)
    BY <1>1, <1>2, <1>3, <2>1, <2>2 DEF SyncInv, Exact, Recorded, Blocked
  <2>4. CASE UnderWayOn(r, q)
    <3>1. q = x /\ r = OnPath => Recorded(r, q)'
      BY <1>5, <1>6 DEF Recorded, SlotOf, SeqOf, Valid
    <3> QED
      BY <1>3, <2>4, <3>1, ProcessUnderWay
  <2>5. CASE Synced(q)
    <3>1. /\ m_start_time' \in Nat /\ m_start_time <= m_start_time'
          /\ ClearedBy(q, m_start_time - 1 - Gap, Gap)'
          /\ x <= q => m_now < m_start_time
      BY <1>1, <1>3, <2>5, ProcessSyncs
    <3>2. m_now < m_start_time'
      <4>1. x <= q /\ m_now \in Nat /\ m_start_time \in Nat
        BY <1>1, <1>3, SyncTypes
      <4>2. PICK v \in Nat : v = m_start_time' /\ m_start_time <= v
        BY <3>1
      <4> QED
        BY <3>1, <4>1, <4>2
    <3>3. Synced(q)'
      BY <1>6, <3>1, <3>2 DEF Synced, ClearedBy
    <3>4. fresh'
      BY <1>2
    <3> QED
      BY <3>3, <3>4
  <2> QED
    BY <1>1, <2>3, <2>4, <2>5
<1>12. LostOK'
  <2> SUFFICES ASSUME NEW r \in Paths, NEW q \in Nat, <<r, q>> \in lostOn
               PROVE  q < nextId /\ ~UnderWayOn(r, q)' /\ ~Recorded(r, q)'
    BY <1>1 DEF LostOK
  <2>1. q < nextId /\ ~UnderWayOn(r, q)
    BY DEF SyncInv, LostOK
  <2>2. ~UnderWayOn(r, q)'
    BY <2>1, ProcessUnderWay
  <2>3. ~Recorded(r, q)'
    <3>1. SUFFICES ASSUME Recorded(r, q)'
                   PROVE  FALSE
      OBVIOUS
    <3>2. SlotOf(q) \in Slots
      BY SeqOfType
    <3>3. Valid(SlotOf(q))' /\ held'[SlotOf(q)] = q /\ r \in m_path_packets'[SlotOf(q)]
      BY <3>1 DEF Recorded, SlotOf, SeqOf, Valid
    <3>4. SlotOf(q) = SlotOf(x)
      BY <1>6, <3>2, <3>3 DEF SlotOf, SeqOf, Valid
    <3>5. q = x /\ r = OnPath
      BY <1>6, <3>2, <3>3, <3>4
    <3> QED
      BY <1>1, <1>3, <2>1, <3>5
  <2> QED
    BY <2>1, <2>2, <2>3
<1>13. GapOK'
  BY <1>2 DEF GapOK
<1>14. StatOK'
  <2>1. m_statistic' = m_statistic /\ span' = span
    BY <1>1, RepositionRecords
  <2> QED
    BY <2>1 DEF SyncInv, StatOK
<1>15. ChunkOK'
  BY <1>1 DEF SyncInv, ChunkOK
<1> QED
  BY <1>8, <1>9, <1>10, <1>11, <1>12, <1>13, <1>14, <1>15 DEF SyncInv

\* What stays when the packet does not reposition the stream.
LEMMA InPlaceFacts ==
    ASSUME Process, inSync, SyncInv, ~Repositions
    PROVE  /\ Placed /\ m_start_time' = m_start_time
           /\ UNCHANGED <<m_index, m_last_processed_sequence_number, m_initialized, fresh,
                          position, front>>
           /\ Packet > front \/ (front = position - 1 /\ fresh)
           /\ Reference \in Int /\ 0 < Packet - Reference /\ Packet - Reference < MsbMask
           /\ front = position - 1 => m_state = "Running"
<1>1. /\ NetInv /\ TypeOK /\ RecordsOK /\ EmptyUnlessRunning
      /\ Packet \in Nat /\ Packet < nextId /\ nextId - Packet <= InitOffset
      /\ OnPath \in Paths /\ UnderWayOn(OnPath, Packet) /\ m_state # "NotStarted"
  BY ProcessFacts
<1>2. Placed
  BY <1>1 DEF Placed, Repositions, TypeOK, StreamTypeOK, States
<1>3. UpdateState(SeqOf(Packet)) /\ position' = position /\ front' = front
  BY DEF Process, ProcessPacket, Packet
<1>4. /\ m_start_time' = m_start_time
      /\ UNCHANGED <<m_index, m_last_processed_sequence_number, m_initialized, fresh>>
  <2>1. ~SenderRestarted
    BY DEF Repositions
  <2>2. m_initialized \in BOOLEAN /\ fresh \in BOOLEAN
    BY <1>1, SyncTypes
  <2> QED
    BY <1>3, <2>1, <2>2 DEF UpdateState, LastProcessed, HandleSenderRestart
<1>5. PICK x \in Nat, n \in Nat, g \in Int, c \in Int, l \in Int, i \in Nat :
          /\ x = Packet /\ n = nextId /\ g = front /\ c = position /\ l = lastOut
          /\ i = InitOffset
  BY <1>1, SyncTypes, SizeTypes
<1>6. /\ 0 <= c /\ c - 1 <= g /\ g < n /\ l <= g
      /\ ~fresh => c <= l
      /\ g = c - 1 => /\ m_state = "Running" /\ Valid(SlotOf(c)) /\ held[SlotOf(c)] = c
      /\ x > g \/ g = c - 1
      /\ x < n /\ n - x <= i /\ 0 < i
  BY <1>1, <1>2, <1>5, SizeTypes DEF SyncInv, PlaceOK, Gone
<1>7. x > g \/ (g = c - 1 /\ fresh)
  <2>1. ~fresh /\ g = c - 1 => FALSE
    BY <1>5, <1>6
  <2> QED
    BY <1>6, <2>1
<1>8. g = c - 1 => c < n
  <2>1. SlotOf(c) \in Slots
    BY SeqOfType
  <2> QED
    BY <1>1, <1>5, <1>6, <2>1 DEF RecordsOK
<1>9. nextId - Reference <= MsbMask
  BY <1>2 DEF Process, CapacitySuffices
<1>10. PICK r \in Int : r = Reference
  BY <1>1, SyncTypes, SizeTypes DEF Reference
<1>11. r = IF fresh THEN c - i ELSE l
  BY <1>5, <1>10 DEF Reference
<1>12. 0 < x - r
  <2>1. CASE fresh
    <3>1. CASE x > g
      BY <1>5, <1>6, <1>11, <2>1, <3>1
    <3>2. CASE g = c - 1
      BY <1>5, <1>6, <1>8, <1>11, <2>1, <3>2
    <3> QED
      BY <1>7, <3>1, <3>2
  <2>2. CASE ~fresh
    BY <1>5, <1>6, <1>7, <1>11, <2>2
  <2> QED
    BY <2>1, <2>2
<1>13. x - r < MsbMask
  <2>1. n - r <= MsbMask
    BY <1>5, <1>9, <1>10
  <2>2. MsbMask \in Nat
    BY SizeTypes
  <2> QED
    BY <1>5, <1>6, <1>10, <2>1, <2>2
<1> QED
  BY <1>2, <1>3, <1>4, <1>5, <1>6, <1>7, <1>10, <1>12, <1>13

\* It is not late, and what its slot holds is itself or left over.
LEMMA InPlaceSlot ==
    ASSUME Process, inSync, SyncInv, ~Repositions
    PROVE  /\ ~IsLate(SeqOf(Packet))
           /\ Valid(SlotOf(Packet)) => \/ held[SlotOf(Packet)] = Packet
                                       \/ /\ held[SlotOf(Packet)] < position
                                          /\ held[SlotOf(Packet)] <= front
           /\ IsRedundant(SeqOf(Packet)) <=>
                 Valid(SlotOf(Packet)) /\ SeqOf(held[SlotOf(Packet)]) = SeqOf(Packet)
<1>1. /\ NetInv /\ TypeOK /\ RecordsOK /\ BufferDivides
      /\ Packet \in Nat /\ Packet < nextId /\ nextId - Packet <= WrapAround
      /\ SlotOf(Packet) \in Slots /\ SeqOf(Packet) % WrapAround = SlotOf(Packet)
  BY ProcessFacts
<1>2. /\ Placed /\ Reference \in Int
      /\ 0 < Packet - Reference /\ Packet - Reference < MsbMask
  BY InPlaceFacts
<1>3. ~IsLate(SeqOf(Packet))
  <2>1. PICK a \in Int, b \in Int, d \in Int :
             a = Packet /\ b = Reference /\ d = a - b
    BY <1>1, <1>2
  <2>2. 0 < d /\ d < MsbMask
    BY <1>2, <2>1
  <2>3. 0 <= a - b /\ a - b < SeqMod
    BY <2>1, <2>2, SizeTypes
  <2>4. (SeqOf(a) - SeqOf(b)) % SeqMod = d
    BY <2>1, <2>3, DistanceOfNumbers
  <2>5. LastProcessed(SeqOf(Packet)) = SeqOf(b)
    BY <1>2, <2>1 DEF LastProcessed, SyncInv, PlaceOK
  <2>6. SeqDelta(SeqOf(Packet)) = d
    BY <2>1, <2>4, <2>5 DEF SeqDelta
  <2>7. MsbMask \in Nat
    BY SizeTypes
  <2> QED
    BY <2>1, <2>2, <2>6, <2>7 DEF IsLate
<1>4. ASSUME Valid(SlotOf(Packet))
      PROVE  \/ held[SlotOf(Packet)] = Packet
             \/ held[SlotOf(Packet)] < position /\ held[SlotOf(Packet)] <= front
  <2>1. PICK h \in Nat : /\ h = held[SlotOf(Packet)] /\ h < nextId
                         /\ SlotOf(h) = SlotOf(Packet)
    BY <1>1, <1>4 DEF RecordsOK
  <2>2. h > front => h = Packet
    BY <1>1, <1>2, <2>1, SameSlotSamePacket DEF Process, SyncInv
  <2>3. h > front \/ h < position
    BY <1>1, <1>4, <2>1 DEF SyncInv, LeftOver
  <2>4. front \in Int
    BY <1>1, SyncTypes
  <2> QED
    BY <2>1, <2>2, <2>3, <2>4
<1>5. Valid(SlotOf(Packet)) =>
        m_ext_packet_info_arr[SlotOf(Packet)].sequence_number = SeqOf(held[SlotOf(Packet)])
  BY <1>1 DEF RecordsOK
<1>6. IsRedundant(SeqOf(Packet)) <=>
         Valid(SlotOf(Packet)) /\ SeqOf(held[SlotOf(Packet)]) = SeqOf(Packet)
  BY <1>1, <1>3, <1>5 DEF IsRedundant, Valid
<1> QED
  BY <1>3, <1>4, <1>6

\* The conjuncts that do not depend on the records.
LEMMA InPlaceRest ==
    ASSUME Process, inSync, SyncInv, ~Repositions
    PROVE  Gone' /\ GapOK' /\ StatOK' /\ ChunkOK'
<1>1. /\ UNCHANGED <<nextId, mem, lostOn, m_now, chunk, pollPath, lastOut, span,
                     m_last_sequence_number, skippedIds, inSync>>
      /\ pollPath # 0 /\ TypeOK
  BY ProcessFacts
<1>2. UNCHANGED <<m_index, m_last_processed_sequence_number, m_initialized, fresh,
                  position, front>> /\ Placed
  BY InPlaceFacts
<1>3. Gone'
  <2> SUFFICES ASSUME NEW p \in Paths, NEW x \in Nat, UnderWayOn(p, x)'
               PROVE  x > front \/ front = position - 1
    BY <1>2 DEF Gone
  <2>1. UnderWayOn(p, x)
    BY ProcessUnderWay
  <2> QED
    BY <1>2, <2>1 DEF SyncInv, Gone
<1>4. GapOK'
  BY <1>1, <1>2 DEF SyncInv, GapOK
<1>5. m_statistic' = m_statistic
  <2>1. ~IsLate(SeqOf(Packet))
    BY InPlaceSlot
  <2> QED
    BY <1>1, <2>1, ProcessRecords DEF Process, Packet
<1>6. StatOK'
  BY <1>1, <1>5 DEF SyncInv, StatOK
<1>7. ChunkOK'
  BY <1>1 DEF SyncInv, ChunkOK
<1> QED
  BY <1>3, <1>4, <1>6, <1>7

\* Every copy stays accounted for: the one being processed is recorded or
\* blocked, the others stay what they are.
LEMMA InPlaceExact ==
    ASSUME Process, inSync, SyncInv, ~Repositions,
           NEW o \in Paths, o = OnPath, NEW x \in Nat, x = Packet,
           Recorded(o, x)' \/ Blocked(x)',
           \A r \in Paths, q \in Nat : front < q /\ q < nextId /\ Recorded(r, q)
               => Recorded(r, q)',
           \A q \in Nat : front < q /\ q < nextId /\ Blocked(q) => Blocked(q)',
           \A s \in Slots : Valid(s)' =>
               \/ Valid(s) /\ held'[s] = held[s] /\ Stamp(s)' = Stamp(s)
               \/ held'[s] = Packet /\ Stamp(s)' = m_now
    PROVE  Exact'
<1>1. /\ UNCHANGED <<nextId, lostOn, m_now, front, fresh>> /\ m_start_time' = m_start_time
      /\ m_state # "NotStarted" /\ Packet \in Nat
  BY ProcessFacts, InPlaceFacts
<1> SUFFICES ASSUME NEW r \in Paths, NEW q \in Nat, front < q, q < nextId
             PROVE  \/ <<r, q>> \in lostOn
                    \/ UnderWayOn(r, q)'
                    \/ Recorded(r, q)'
                    \/ Blocked(q)'
                    \/ fresh /\ Synced(q)'
  BY <1>1 DEF Exact
<1>2. \/ <<r, q>> \in lostOn
      \/ UnderWayOn(r, q)
      \/ Recorded(r, q)
      \/ Blocked(q)
      \/ fresh /\ Synced(q)
  BY <1>1 DEF SyncInv, Exact
<1>3. CASE UnderWayOn(r, q)
  <2>1. q = x /\ r = o => Recorded(r, q)' \/ Blocked(q)'
    OBVIOUS
  <2>2. UnderWayOn(r, q)' \/ (q = x /\ r = o)
    BY <1>3, ProcessUnderWay
  <2> QED
    BY <2>1, <2>2
<1>4. CASE fresh /\ Synced(q)
  <2>1. /\ ClearedBy(q, m_start_time - 1 - Gap, Gap)'
        /\ Packet <= q => m_now < m_start_time
    BY <1>4, ProcessSyncs
  <2>2. \A s \in Slots : Valid(s) /\ held[s] <= q => Stamp(s) < m_start_time
    BY <1>4 DEF Synced
  <2>3. \A s \in Slots : Valid(s)' /\ held'[s] <= q => Stamp(s)' < m_start_time
    BY <2>1, <2>2
  <2>4. Synced(q)'
    BY <1>1, <2>1, <2>3 DEF Synced
  <2> QED
    BY <1>4, <2>4
<1> QED
  BY <1>2, <1>3, <1>4

\* The slot keeps its record, and the path is added to it.
LEMMA RedundantStep ==
    ASSUME Process, inSync, SyncInv, ~Repositions, IsRedundant(SeqOf(Packet))
    PROVE  SyncInv'
<1>1. /\ NetInv /\ TypeOK /\ RecordsOK
      /\ Packet \in Nat /\ Packet < nextId /\ nextId \in Nat
      /\ OnPath \in Paths /\ UnderWayOn(OnPath, Packet)
      /\ SlotOf(Packet) \in Slots /\ m_state' = "Running" /\ m_state # "NotStarted"
      /\ UNCHANGED <<nextId, mem, lostOn, lastOut, m_last_sequence_number>>
      /\ m_path_packets \in [Slots -> SUBSET Paths]
      /\ held \in [Slots -> Int] /\ front \in Int /\ position \in Int
  BY ProcessFacts, SyncTypes
<1>2. /\ UNCHANGED <<m_index, m_last_processed_sequence_number, m_initialized, fresh,
                     position, front>> /\ Placed
      /\ front = position - 1 => m_state = "Running"
  BY InPlaceFacts
<1>3. /\ UNCHANGED <<m_ext_packet_info_arr, held>>
      /\ m_path_packets' = [m_path_packets EXCEPT ![SlotOf(Packet)] = @ \cup {OnPath}]
  <2>1. ~IsLate(SeqOf(Packet)) /\ TypeOK /\ ProcessPacket
    BY <1>1, InPlaceSlot DEF Process
  <2> QED
    BY <2>1, ProcessRecords DEF Packet, OnPath
<1>4. PICK x \in Nat, o \in Paths, s \in Slots : x = Packet /\ o = OnPath /\ s = SlotOf(x)
  BY <1>1
<1>5. /\ Valid(s) /\ SeqOf(held[s]) = SeqOf(x)
      /\ held[s] = x \/ held[s] < position
  BY <1>4, InPlaceSlot
<1>6. m_path_packets' = [m_path_packets EXCEPT ![s] = @ \cup {o}]
  BY <1>3, <1>4
<1>7. /\ \A y \in Slots : Valid(y)' = Valid(y) /\ Stamp(y)' = Stamp(y)
      /\ \A y \in Int : SlotOf(y)' = SlotOf(y) /\ SeqOf(y)' = SeqOf(y)
  BY <1>3 DEF Valid, Stamp, SlotOf, SeqOf
<1>8. PlaceOK'
  BY <1>1, <1>2, <1>3
  DEF SyncInv, PlaceOK, Reference, Valid, SlotOf, SeqOf, Placed
<1>9. LeftOver' /\ MemProper'
  BY <1>1, <1>2, <1>3 DEF SyncInv, LeftOver, MemProper, Valid
<1>10. Exact'
  <2>1. Recorded(o, x)' \/ Blocked(x)'
    <3>1. o \in m_path_packets'[s]
      BY <1>1, <1>6
    <3>2. SlotOf(x) = s
      BY <1>4
    <3> QED
      BY <1>2, <1>3, <1>5, <3>1, <3>2 DEF Recorded, Blocked, Valid, SlotOf, SeqOf
  <2>2. \A r \in Paths, q \in Nat : Recorded(r, q) => Recorded(r, q)'
    <3> SUFFICES ASSUME NEW r \in Paths, NEW q \in Nat, Recorded(r, q)
                 PROVE  Recorded(r, q)'
      OBVIOUS
    <3>1. SlotOf(q) \in Slots
      BY SeqOfType
    <3>2. m_path_packets[SlotOf(q)] \subseteq m_path_packets'[SlotOf(q)]
      BY <1>1, <1>6, <3>1
    <3> QED
      BY <1>3, <3>2 DEF Recorded, Valid, SlotOf, SeqOf
  <2>3. \A q \in Nat : Blocked(q) => Blocked(q)'
    BY <1>2, <1>3 DEF Blocked, Valid, SlotOf, SeqOf
  <2>4. \A y \in Slots : Valid(y)' =>
               Valid(y) /\ held'[y] = held[y] /\ Stamp(y)' = Stamp(y)
    BY <1>3 DEF Valid, Stamp
  <2> QED
    BY <1>4, <2>1, <2>2, <2>3, <2>4, InPlaceExact
<1>11. LostOK'
  <2> SUFFICES ASSUME NEW r \in Paths, NEW q \in Nat, <<r, q>> \in lostOn
               PROVE  /\ q < nextId /\ ~UnderWayOn(r, q)'
                      /\ q > front => ~Recorded(r, q)'
    BY <1>1, <1>2 DEF LostOK
  <2>1. q < nextId /\ ~UnderWayOn(r, q) /\ (q > front => ~Recorded(r, q))
    BY DEF SyncInv, LostOK
  <2>2. ~UnderWayOn(r, q)'
    BY <2>1, ProcessUnderWay
  <2>3. ASSUME q > front, Recorded(r, q)'
        PROVE  FALSE
    <3>1. SlotOf(q) \in Slots
      BY SeqOfType
    <3>2. Valid(SlotOf(q)) /\ held[SlotOf(q)] = q /\ r \in m_path_packets'[SlotOf(q)]
      BY <1>3, <2>3 DEF Recorded, Valid, SlotOf, SeqOf
    <3>3. r \notin m_path_packets[SlotOf(q)]
      BY <2>1, <2>3, <3>2 DEF Recorded
    <3>4. SlotOf(q) = s /\ r = o
      BY <1>1, <1>6, <3>1, <3>2, <3>3
    <3>5. held[s] = q
      BY <3>2, <3>4
    <3>6. q # x
      BY <1>1, <1>4, <2>1, <3>4
    <3>7. q < position /\ position - 1 <= front
      BY <1>2, <1>5, <3>5, <3>6 DEF SyncInv, PlaceOK
    <3> QED
      BY <1>1, <2>3, <3>7
  <2> QED
    BY <2>1, <2>2, <2>3
<1> QED
  BY <1>8, <1>9, <1>10, <1>11, InPlaceRest DEF SyncInv

\* A new packet takes a slot that is free or holds a left-over packet.
LEMMA NewPacketStep ==
    ASSUME Process, inSync, SyncInv, ~Repositions, ~IsRedundant(SeqOf(Packet))
    PROVE  SyncInv'
<1>1. /\ NetInv /\ TypeOK /\ RecordsOK /\ BufferDivides
      /\ Packet \in Nat /\ Packet < nextId /\ nextId \in Nat
      /\ nextId - Packet <= WrapAround
      /\ OnPath \in Paths /\ UnderWayOn(OnPath, Packet)
      /\ SlotOf(Packet) \in Slots /\ m_state' = "Running" /\ m_state # "NotStarted"
      /\ mem[SlotOf(Packet)] = Packet
      /\ UNCHANGED <<nextId, mem, lostOn, lastOut, m_last_sequence_number>>
      /\ m_path_packets \in [Slots -> SUBSET Paths]
      /\ m_ext_packet_info_arr \in [Slots -> PacketInfo]
      /\ held \in [Slots -> Int] /\ front \in Int /\ position \in Int
  BY ProcessFacts, SyncTypes
<1>2. /\ UNCHANGED <<m_index, m_last_processed_sequence_number, m_initialized, fresh,
                     position, front>> /\ Placed
      /\ front = position - 1 => m_state = "Running"
      /\ Packet > front \/ front = position - 1
  BY InPlaceFacts
<1>3. PICK x \in Nat, o \in Paths, s \in Slots : x = Packet /\ o = OnPath /\ s = SlotOf(x)
  BY <1>1
<1>4. /\ m_ext_packet_info_arr' = [m_ext_packet_info_arr EXCEPT ![s] =
            [sequence_number |-> SeqOf(x), is_valid |-> TRUE, timestamp |-> m_now]]
      /\ m_path_packets' = [m_path_packets EXCEPT ![s] = {o}]
      /\ held' = [held EXCEPT ![s] = x]
  <2>1. ~IsLate(SeqOf(Packet)) /\ TypeOK /\ ProcessPacket
    BY <1>1, InPlaceSlot DEF Process
  <2> QED
    BY <1>3, <2>1, ProcessRecords DEF Packet, OnPath
<1>5. Valid(s) => held[s] < position /\ held[s] <= front /\ SeqOf(held[s]) # SeqOf(x)
  BY <1>3, InPlaceSlot
<1>6. /\ \A y \in Slots \ {s} : /\ Valid(y)' <=> Valid(y)
                                /\ Stamp(y)' = Stamp(y) /\ held'[y] = held[y]
                                /\ m_path_packets'[y] = m_path_packets[y]
      /\ Valid(s)' /\ Stamp(s)' = m_now /\ held'[s] = x /\ m_path_packets'[s] = {o}
  BY <1>1, <1>4 DEF Valid, Stamp
<1>7. position - 1 <= front
  BY <1>2 DEF SyncInv, PlaceOK
<1>8. PlaceOK'
  <2>1. front = position - 1 => Valid(SlotOf(position))' /\ held'[SlotOf(position)] = position
    <3>1. SUFFICES ASSUME front = position - 1
                   PROVE  Valid(SlotOf(position))' /\ held'[SlotOf(position)] = position
      OBVIOUS
    <3>2. PICK c \in Int : c = position /\ SlotOf(c) \in Slots
      BY <1>1, SeqOfType
    <3>3. Valid(SlotOf(c)) /\ held[SlotOf(c)] = c
      BY <1>2, <3>1, <3>2 DEF SyncInv, PlaceOK
    <3>4. SlotOf(c) # s
      BY <1>5, <3>2, <3>3
    <3>5. Valid(SlotOf(c))' /\ held'[SlotOf(c)] = c
      BY <1>1, <1>4, <3>2, <3>3, <3>4 DEF Valid, SlotOf, SeqOf
    <3> QED
      BY <1>2, <3>2, <3>5 DEF Valid, SlotOf, SeqOf
  <2> QED
    BY <1>1, <1>2, <2>1 DEF SyncInv, PlaceOK, Reference, Valid, SlotOf, SeqOf, Placed
<1>9. LeftOver'
  <2>1. x > front \/ x < position
    BY <1>1, <1>2, <1>3
  <2>2. \A y \in Slots : Valid(y)' => held'[y] > front \/ held'[y] < position
    BY <1>6, <2>1 DEF SyncInv, LeftOver
  <2> QED
    BY <1>2, <2>2 DEF LeftOver
<1>10. MemProper'
  <2>1. \A y \in Slots : Valid(y)' /\ held'[y] > front => mem[y] = held'[y]
    BY <1>1, <1>3, <1>6 DEF SyncInv, MemProper
  <2> QED
    BY <1>1, <1>2, <2>1 DEF MemProper
<1>11. Exact'
  <2>1. Recorded(o, x)'
    BY <1>3, <1>6 DEF Recorded, Valid, SlotOf, SeqOf
  <2>2. ASSUME NEW r \in Paths, NEW q \in Nat, front < q, q < nextId, Recorded(r, q)
        PROVE  Recorded(r, q)'
    <3>1. SlotOf(q) \in Slots /\ Valid(SlotOf(q)) /\ held[SlotOf(q)] = q
          /\ r \in m_path_packets[SlotOf(q)]
      BY <2>2, SeqOfType DEF Recorded
    <3>2. SlotOf(q) # s
      BY <1>1, <1>5, <2>2, <3>1
    <3> QED
      BY <1>6, <3>1, <3>2 DEF Recorded, Valid, SlotOf, SeqOf
  <2>3. ASSUME NEW q \in Nat, front < q, q < nextId, Blocked(q)
        PROVE  Blocked(q)'
    <3>1. SlotOf(q) \in Slots /\ Valid(SlotOf(q)) /\ held[SlotOf(q)] < position
          /\ SeqOf(held[SlotOf(q)]) = SeqOf(q)
      BY <2>3, SeqOfType DEF Blocked
    <3>2. SlotOf(q) # s
      <4>1. SUFFICES ASSUME SlotOf(q) = s
                     PROVE  FALSE
        OBVIOUS
      <4>2. q # x
        BY <1>5, <3>1, <4>1
      <4>3. x < nextId /\ nextId - x <= WrapAround /\ SlotOf(q) = SlotOf(x)
        BY <1>1, <1>3, <4>1
      <4>4. q = x
        BY <1>1, <1>2, <2>3, <4>3, SameSlotSamePacket DEF Process, SyncInv
      <4> QED
        BY <4>2, <4>4
    <3> QED
      BY <1>2, <1>6, <3>1, <3>2 DEF Blocked, Valid, SlotOf, SeqOf
  <2>4. \A y \in Slots : Valid(y)' =>
               \/ Valid(y) /\ held'[y] = held[y] /\ Stamp(y)' = Stamp(y)
               \/ held'[y] = Packet /\ Stamp(y)' = m_now
    BY <1>3, <1>6
  <2> QED
    BY <1>3, <2>1, <2>2, <2>3, <2>4, InPlaceExact
<1>12. LostOK'
  <2> SUFFICES ASSUME NEW r \in Paths, NEW q \in Nat, <<r, q>> \in lostOn
               PROVE  /\ q < nextId /\ ~UnderWayOn(r, q)'
                      /\ q > front => ~Recorded(r, q)'
    BY <1>1, <1>2 DEF LostOK
  <2>1. q < nextId /\ ~UnderWayOn(r, q) /\ (q > front => ~Recorded(r, q))
    BY DEF SyncInv, LostOK
  <2>2. ~UnderWayOn(r, q)'
    BY <2>1, ProcessUnderWay
  <2>3. ASSUME q > front, Recorded(r, q)'
        PROVE  FALSE
    <3>1. SlotOf(q) \in Slots
      BY SeqOfType
    <3>2. Valid(SlotOf(q))' /\ held'[SlotOf(q)] = q /\ r \in m_path_packets'[SlotOf(q)]
      BY <2>3 DEF Recorded, Valid, SlotOf, SeqOf
    <3>3. SlotOf(q) = s
      BY <1>6, <2>1, <2>3, <3>1, <3>2 DEF Recorded, Valid, SlotOf, SeqOf
    <3>4. q = x /\ r = o
      BY <1>6, <3>2, <3>3
    <3> QED
      BY <1>1, <1>3, <2>1, <3>4
  <2> QED
    BY <2>1, <2>2, <2>3
<1> QED
  BY <1>8, <1>9, <1>10, <1>11, <1>12, InPlaceRest DEF SyncInv

\* Together: processing a packet preserves the invariant.
LEMMA ProcessSync ==
    ASSUME Process
    PROVE  IdleOK' /\ StatShape' /\ (inSync' => SyncInv')
<1>1. /\ m_state' = "Running" /\ inSync' = inSync /\ StatShape /\ TypeOK
  BY ProcessFacts
<1>2. inSync => SyncInv
  BY DEF Process, StreamInv
<1>3. IdleOK'
  BY <1>1 DEF IdleOK, Placed
<1>4. StatShape'
  <2>1. \/ m_statistic' = m_statistic
        \/ m_statistic' = [m_statistic EXCEPT !.rx_exceed_md = @ + 1]
    BY <1>1, ProcessRecords DEF Process
  <2> QED
    BY <1>1, <2>1 DEF StatShape
<1> QED
  BY <1>1, <1>2, <1>3, <1>4, RepositionStep, RedundantStep, NewPacketStep

-----------------------------------------------------------------------------
(* What the searches for a chunk find.                                     *)

\* The slots from m_index to the first valid one are not valid.
LEMMA FirstValidScan ==
    ASSUME m_index \in Slots, ~NothingFound
    PROVE  \E k \in Slots : /\ FirstValid = Plus(m_index, k)
                            /\ Valid(Plus(m_index, k))
                            /\ \A j \in Nat : j < k => ~Valid(Plus(m_index, j))
<1> DEFINE S == {k \in Slots : Valid(Plus(m_index, k))}
<1>1. S \in SUBSET Nat
  BY DEF Slots
<1>2. S # {}
  <2>1. PICK t \in Slots : Valid(t)
    BY DEF NothingFound
  <2>2. PICK k \in Slots : Plus(m_index, k) = t
    BY PlusReaches
  <2> QED
    BY <2>1, <2>2
<1>3. Min(S) \in S /\ \A y \in S : Min(S) <= y
  BY <1>1, <1>2, MinIsSmallest
<1>4. PICK m \in S : m = Min(S) /\ \A y \in S : m <= y
  BY <1>3
<1>5. m \in Nat /\ m < WrapAround
  BY WrapAroundType DEF Slots
<1>6. ASSUME NEW j \in Nat, j < m
      PROVE  ~Valid(Plus(m_index, j))
  <2>1. j \in Slots
    BY <1>5, <1>6, WrapAroundType DEF Slots
  <2>2. j \notin S
    BY <1>4, <1>5, <1>6
  <2> QED
    BY <2>1, <2>2
<1>7. FirstValid = Plus(m_index, m)
  BY <1>4 DEF FirstValid
<1> QED
  BY <1>6, <1>7

\* The slots skipped hold packets stamped before the start time; what follows
\* them does not, unless the sync went once round the buffer.
LEMMA SkipCountScan ==
    ASSUME NEW s \in Slots
    PROVE  /\ SkipCount(s) \in 0..WrapAround
           /\ \A j \in Nat : j < SkipCount(s) => BeforeStart(Plus(s, j))
           /\ SkipCount(s) = WrapAround \/ ~BeforeStart(Plus(s, SkipCount(s)))
<1> DEFINE S == {k \in 0..WrapAround : k = WrapAround \/ ~BeforeStart(Plus(s, k))}
<1>1. S \in SUBSET Nat /\ WrapAround \in S
  BY WrapAroundType
<1>2. S # {}
  BY <1>1
<1>3. Min(S) \in S /\ \A y \in S : Min(S) <= y
  BY <1>1, <1>2, MinIsSmallest
<1>4. PICK m \in S : m = Min(S) /\ \A y \in S : m <= y
  BY <1>3
<1>5. m \in 0..WrapAround
  OBVIOUS
<1>6. ASSUME NEW j \in Nat, j < m
      PROVE  BeforeStart(Plus(s, j))
  <2>1. j \in 0..WrapAround
    BY <1>5, <1>6, WrapAroundType
  <2>2. j \notin S
    BY <1>4, <1>5, <1>6, <2>1, WrapAroundType
  <2> QED
    BY <2>1, <2>2
<1>7. SkipCount(s) = m
  BY <1>4 DEF SkipCount
<1> QED
  BY <1>5, <1>6, <1>7

\* The slots delivered are valid and ripe, and none was skipped just before.
LEMMA DeliverCountScan ==
    ASSUME NEW s \in Slots, NEW skipped
    PROVE  /\ DeliverCount(s, skipped) \in 0..(WrapAround - s)
           /\ \A i \in Nat : i < DeliverCount(s, skipped) =>
                  s + i \notin skipped /\ Valid(s + i) /\ Ripe(s + i)
<1> DEFINE S == {k \in 0..(WrapAround - s) :
                    \/ k = WrapAround - s
                    \/ s + k \in skipped \/ ~Valid(s + k) \/ ~Ripe(s + k)}
<1>0. s \in Nat /\ WrapAround - s \in Nat
  BY WrapAroundType DEF Slots
<1>1. S \in SUBSET Nat /\ WrapAround - s \in S
  BY <1>0
<1>2. S # {}
  BY <1>1
<1>3. Min(S) \in S /\ \A y \in S : Min(S) <= y
  BY <1>1, <1>2, MinIsSmallest
<1>4. PICK m \in S : m = Min(S) /\ \A y \in S : m <= y
  BY <1>3
<1>5. m \in 0..(WrapAround - s)
  OBVIOUS
<1>6. ASSUME NEW j \in Nat, j < m
      PROVE  s + j \notin skipped /\ Valid(s + j) /\ Ripe(s + j)
  <2>1. j \in 0..(WrapAround - s)
    BY <1>0, <1>5, <1>6
  <2>2. j \notin S
    BY <1>0, <1>4, <1>5, <1>6, <2>1
  <2> QED
    BY <2>1, <2>2
<1>7. DeliverCount(s, skipped) = m
  BY <1>4 DEF DeliverCount
<1> QED
  BY <1>5, <1>6, <1>7

\* What complete_packet counts as dropped between the packets of a chunk.
DroppedAt(first, s) ==
    IF s = first /\ ~m_initialized THEN 0
    ELSE DroppedBetween(IF s = first THEN m_last_sequence_number
                        ELSE m_ext_packet_info_arr[s - 1].sequence_number,
                        m_ext_packet_info_arr[s].sequence_number)

\* What complete_packet adds to the totals for a whole chunk.
LEMMA CountsOfChunk ==
    ASSUME NEW first, NEW n, CompletePackets(first, n), StatShape
    PROVE  LET dropped(s) == DroppedAt(first, s)
           IN  /\ StatShape'
               /\ m_statistic'.rx_exceed_md = m_statistic.rx_exceed_md
               /\ m_statistic'.rx_count = m_statistic.rx_count + n
               /\ m_statistic'.rx_dropped = m_statistic.rx_dropped
                      + MapThenSumSet(dropped, first..(first + n - 1))
  BY DEF CompletePackets, DroppedAt, StatShape, StatFields

\* If packets are missing in front of the first one only, their number is the total.
LEMMA DroppedSum ==
    ASSUME NEW first \in Int, NEW S, IsFiniteSet(S), first \in S,
           DroppedAt(first, first) \in Int,
           \A s \in S \ {first} : DroppedAt(first, s) = 0
    PROVE  LET dropped(s) == DroppedAt(first, s)
           IN  MapThenSumSet(dropped, S) = DroppedAt(first, first)
<1> DEFINE dropped(s) == DroppedAt(first, s)
           d == DroppedAt(first, first)
           next(s) == CHOOSE x \in s : TRUE
           step(g) == [s \in SUBSET S |->
                          IF s = {} THEN 0 ELSE dropped(next(s)) + g[s \ {next(s)}]]
           iter == CHOOSE g : g = step(g)
           sum == [s \in SUBSET S |-> IF first \in s THEN d ELSE 0]
<1>1. MapThenSumSet(dropped, S) = iter[S]
  BY DEF MapThenSumSet, MapThenFoldSet
<1>d. d \in Int
  OBVIOUS
<1> HIDE DEF dropped, d
<1>2. sum = step(sum)
  <2>1. ASSUME NEW s \in SUBSET S
        PROVE  sum[s] = step(sum)[s]
    <3>1. CASE s = {}
      BY <3>1
    <3>2. CASE s # {}
      <4>1. PICK x \in s : x = next(s)
        BY <3>2
      <4> HIDE DEF next
      <4>2. step(sum)[s] = dropped(x) + sum[s \ {x}]
        BY <3>2, <4>1
      <4>3. sum[s \ {x}] = IF first \in s \ {x} THEN d ELSE 0
        OBVIOUS
      <4>4. CASE x = first
        <5>1. dropped(x) = d
          BY <4>4 DEF dropped, d
        <5> QED
          BY <4>2, <4>3, <4>4, <5>1, <1>d
      <4>5. CASE x # first
        <5>1. dropped(x) = 0
          BY <4>5 DEF dropped
        <5> QED
          BY <4>2, <4>3, <4>5, <5>1, <1>d
      <4> QED
        BY <4>4, <4>5
    <3> QED
      BY <3>1, <3>2
  <2> QED
    BY <2>1
<1>3. iter = step(iter)
  BY <1>2
<1> HIDE DEF iter, next
<1>4. ASSUME NEW s \in SUBSET S, s # {}
      PROVE  \E x \in s : iter[s] = dropped(x) + iter[s \ {x}]
  <2>1. next(s) \in s
    BY <1>4 DEF next
  <2>2. step(iter)[s] = dropped(next(s)) + iter[s \ {next(s)}]
    BY <1>4
  <2> QED
    BY <1>3, <2>1, <2>2
<1>5. iter[{}] = 0
  BY <1>3
<1>6. \A s \in SUBSET S : iter[s] = sum[s]
  <2> DEFINE N == {Cardinality(s) : s \in {t \in SUBSET S : iter[t] # sum[t]}}
  <2> SUFFICES ASSUME N # {}
               PROVE  FALSE
    OBVIOUS
  <2>1. \A s \in SUBSET S : IsFiniteSet(s) /\ Cardinality(s) \in Nat
    BY FS_Subset, FS_CardinalityType
  <2>2. N \in SUBSET Nat
    BY <2>1
  <2>3. Min(N) \in N /\ \A y \in N : Min(N) <= y
    BY <2>2, MinIsSmallest
  <2>4. PICK s \in SUBSET S : /\ iter[s] # sum[s]
                              /\ \A t \in SUBSET S :
                                    iter[t] # sum[t] => Cardinality(s) <= Cardinality(t)
    BY <2>3
  <2>5. s # {}
    BY <1>5, <2>4
  <2>6. PICK x \in s : iter[s] = dropped(x) + iter[s \ {x}]
    BY <1>4, <2>5
  <2>7. Cardinality(s \ {x}) = Cardinality(s) - 1
    BY <2>1, FS_RemoveElement
  <2>8. iter[s \ {x}] = sum[s \ {x}]
    <3>1. s \ {x} \in SUBSET S
      OBVIOUS
    <3>2. ~(Cardinality(s) <= Cardinality(s \ {x}))
      BY <2>1, <2>7
    <3> QED
      BY <2>4, <3>1, <3>2
  <2>9. CASE x = first
    <3>1. dropped(x) = d
      BY <2>9 DEF dropped, d
    <3>2. sum[s \ {x}] = 0 /\ sum[s] = d
      BY <2>9
    <3> QED
      BY <1>d, <2>4, <2>6, <2>8, <3>1, <3>2
  <2>10. CASE x # first
    <3>1. dropped(x) = 0
      BY <2>10 DEF dropped
    <3>2. sum[s \ {x}] = sum[s] /\ sum[s] \in Int
      BY <1>d, <2>10
    <3> QED
      BY <2>4, <2>6, <2>8, <3>1, <3>2
  <2> QED
    BY <2>9, <2>10
<1> QED
  BY <1>1, <1>6 DEF dropped, d

-----------------------------------------------------------------------------
(* Delivering a chunk.                                                     *)

Deliver == /\ StreamInv /\ SyncInv /\ inSync' /\ CapacitySuffices /\ TimingSuffices
           /\ [Next]_vars /\ Assemble /\ SkipAndDeliver

\* The packet of the first valid slot, and how many packets leave the buffer.
First == held[FirstValid]
Consumed == SkippedCount + ChunkLength
Taken == SkippedSlots \cup ChunkSlots

\* What a delivery finds, and what it leaves alone.
LEMMA DeliverFacts ==
    ASSUME Deliver
    PROVE  /\ NetInv /\ TypeOK /\ RecordsOK /\ EmptyUnlessRunning /\ StatShape
           /\ CompletionsFit /\ RestartSeqs = {} /\ BufferDivides
           /\ inSync /\ Placed /\ m_state = "Running" /\ m_state' = "Running"
           /\ UNCHANGED <<clk, nextId, flight, cq, mem, lostOn, m_now, m_start_time, todo,
                          m_path_packets, position, held>>
           /\ pollPath = Done /\ pollPath' = 0 /\ todo = <<>>
           /\ ~NothingFound /\ Ripe(FirstValid)
           /\ \A s \in Taken : held[s] >= position
           /\ \A s \in SkippedSlots : \A id \in position..held[s] : ~UnderWay(id)
           /\ front < nextId /\ nextId <= front + 1 + WrapAround /\ position - 1 <= front
           /\ m_index = SlotOf(front + 1)
<1>1. /\ NetInv /\ TypeOK /\ RecordsOK /\ EmptyUnlessRunning /\ StatShape
      /\ CompletionsFit /\ RestartSeqs = {} /\ BufferDivides /\ SkipAndDeliver /\ Assemble
      /\ SyncInv /\ CapacitySuffices
  BY DEF Deliver, StreamInv, SlotInv, NetInv, CapacitySuffices, TimingSuffices
<1>2. /\ m_state = "Running" /\ m_state' = "Running" /\ Placed
      /\ UNCHANGED <<m_now, m_start_time, m_path_packets, position, held>>
      /\ ~NothingFound /\ Ripe(FirstValid)
  BY <1>1 DEF SkipAndDeliver, CanAssemble, Placed
<1>3. /\ UNCHANGED <<clk, nextId, flight, cq, mem, lostOn, todo>>
      /\ pollPath = Done /\ pollPath' = 0 /\ todo = <<>>
  BY <1>1, AssembleKeepsClock
<1>4. /\ inSync
      /\ \A s \in Taken : held[s] >= position
      /\ \A s \in SkippedSlots : \A id \in position..held[s] : ~UnderWay(id)
  <2>1. inSync' =
           (/\ inSync
            /\ \A s \in SkippedSlots \cup ChunkSlots : held[s] >= position
            /\ \A s \in SkippedSlots : \A id \in position..held[s] : ~UnderWay(id))
    BY <1>1 DEF SkipAndDeliver
  <2>2. inSync'
    BY DEF Deliver
  <2> QED
    BY <2>1, <2>2 DEF Taken
<1>5. front < nextId /\ position - 1 <= front /\ m_index = SlotOf(front + 1)
  BY <1>1, <1>2 DEF SyncInv, PlaceOK
<1>6. nextId <= front + 1 + WrapAround
  BY <1>1, <1>2, <1>4, BufferHolds DEF SyncInv
<1> HIDE DEF NetInv, TypeOK, RecordsOK, EmptyUnlessRunning, StatShape, CompletionsFit,
             BufferDivides, NothingFound, Ripe, FirstValid, Taken, SkippedSlots, UnderWay
<1> QED
  BY <1>1, <1>2, <1>3, <1>4, <1>5, <1>6

\* The slots taken hold packets behind those taken out before.
LEMMA TakenSlots ==
    ASSUME Deliver, NEW s \in Taken, s \in Slots, Valid(s)
    PROVE  /\ held[s] \in Nat /\ front < held[s] /\ position <= held[s]
           /\ held[s] < nextId /\ SlotOf(held[s]) = s /\ mem[s] = held[s]
           /\ m_ext_packet_info_arr[s].sequence_number = SeqOf(held[s])
<1>1. /\ TypeOK /\ RecordsOK /\ \A y \in Taken : held[y] >= position
      /\ position \in Int /\ front \in Int
  BY DeliverFacts, SyncTypes
<1>2. /\ held[s] \in Nat /\ held[s] < nextId /\ SlotOf(held[s]) = s
      /\ m_ext_packet_info_arr[s].sequence_number = SeqOf(held[s])
  BY <1>1 DEF RecordsOK
<1>3. held[s] >= position
  BY <1>1
<1>4. held[s] > front \/ held[s] < position
  BY DEF Deliver, SyncInv, LeftOver
<1>5. held[s] > front
  BY <1>1, <1>2, <1>3, <1>4
<1>6. mem[s] = held[s]
  BY <1>5 DEF Deliver, SyncInv, MemProper
<1> QED
  BY <1>1, <1>2, <1>3, <1>5, <1>6

\* The skipped slots are valid, and so are those of the chunk.
LEMMA TakenAreValid ==
    ASSUME Deliver
    PROVE  /\ FirstValid \in Slots /\ Valid(FirstValid) /\ FirstValid \in Taken
           /\ SkippedCount \in Nat /\ SkippedCount <= WrapAround
           /\ ChunkLength \in Nat /\ ChunkFirst \in Slots
           /\ ChunkFirst + ChunkLength <= WrapAround
           /\ SkippedCount + ChunkLength > 0
           /\ SkippedCount = WrapAround => ChunkLength = 0
           /\ \A j \in Nat : j < SkippedCount =>
                 /\ Plus(FirstValid, j) \in SkippedSlots /\ BeforeStart(Plus(FirstValid, j))
           /\ \A i \in Nat : i < ChunkLength =>
                 /\ ChunkFirst + i \in ChunkSlots /\ ChunkFirst + i \notin SkippedSlots
                 /\ Valid(ChunkFirst + i) /\ Ripe(ChunkFirst + i)
           /\ ChunkLength > 0 => ~BeforeStart(ChunkFirst)
           /\ \A s \in Taken : s \in Slots /\ Valid(s)
<1>1. TypeOK /\ SkipAndDeliver
  BY DeliverFacts DEF Deliver
<1>2. /\ FirstValid \in Slots /\ Valid(FirstValid)
      /\ SkippedCount \in 0..WrapAround
      /\ ChunkFirst \in Slots
      /\ ChunkLength \in Nat /\ ChunkFirst + ChunkLength <= WrapAround
      /\ ChunkLength = 0 => SkippedCount > 0
  BY <1>1, ChunkPosition
<1>w. WrapAround \in Nat /\ WrapAround > 0
  BY WrapAroundType
<1>3. SkippedCount \in Nat /\ SkippedCount <= WrapAround /\ SkippedCount + ChunkLength > 0
      /\ (SkippedCount = WrapAround => ChunkLength = 0)
  BY <1>2, <1>w DEF ChunkLength
<1>4. ASSUME NEW j \in Nat, j < SkippedCount
      PROVE  Plus(FirstValid, j) \in SkippedSlots /\ BeforeStart(Plus(FirstValid, j))
  <2>1. j \in 0..(SkippedCount - 1)
    BY <1>3, <1>4
  <2>2. BeforeStart(Plus(FirstValid, j))
    BY <1>2, <1>4, SkipCountScan DEF SkippedCount
  <2> QED
    BY <2>1, <2>2 DEF SkippedSlots
<1>5. ASSUME NEW i \in Nat, i < ChunkLength
      PROVE  /\ ChunkFirst + i \in ChunkSlots /\ ChunkFirst + i \notin SkippedSlots
             /\ Valid(ChunkFirst + i) /\ Ripe(ChunkFirst + i)
  <2>1. ChunkFirst \in Nat
    BY <1>2, <1>w DEF Slots
  <2>2. ChunkFirst + i \in ChunkSlots
    BY <1>2, <1>5, <2>1 DEF ChunkSlots
  <2>3. ChunkLength = DeliverCount(ChunkFirst, SkippedSlots)
    BY <1>5 DEF ChunkLength
  <2> QED
    BY <1>2, <1>5, <2>2, <2>3, DeliverCountScan
<1>6. ChunkLength > 0 => ~BeforeStart(ChunkFirst)
  <2>1. ChunkLength > 0 => SkippedCount # WrapAround
    BY <1>3
  <2> QED
    BY <1>2, <2>1, SkipCountScan DEF SkippedCount, ChunkFirst
<1>7. ASSUME NEW s \in SkippedSlots
      PROVE  s \in Slots /\ Valid(s)
  <2>1. PICK j \in 0..(SkippedCount - 1) : s = Plus(FirstValid, j)
    BY DEF SkippedSlots
  <2>2. j \in Nat /\ j < SkippedCount
    BY <1>3
  <2> QED
    BY <1>2, <1>4, <2>1, <2>2, PlusType DEF BeforeStart
<1>8. ASSUME NEW s \in ChunkSlots
      PROVE  s \in Slots /\ Valid(s)
  <2>1. s \in ChunkFirst..(ChunkFirst + ChunkLength - 1) /\ ChunkFirst \in Nat
    BY <1>2, <1>w DEF ChunkSlots, Slots
  <2>2. PICK i \in Nat : i = s - ChunkFirst /\ i < ChunkLength /\ s = ChunkFirst + i
    BY <1>2, <2>1
  <2>3. s \in Slots
    BY <1>2, <1>w, <2>1 DEF Slots
  <2> QED
    BY <1>5, <2>2, <2>3
<1>9. FirstValid \in Taken
  <2>1. CASE SkippedCount > 0
    <3>1. Plus(FirstValid, 0) \in SkippedSlots
      BY <1>4, <2>1
    <3>2. Plus(FirstValid, 0) = FirstValid
      BY <1>2, <1>w DEF Plus, Slots
    <3> QED
      BY <3>1, <3>2 DEF Taken
  <2>2. CASE SkippedCount = 0
    <3>1. ChunkLength > 0
      BY <1>2, <2>2
    <3>2. ChunkFirst + 0 \in ChunkSlots /\ ChunkFirst + 0 = ChunkFirst
      BY <1>2, <1>5, <1>w, <3>1 DEF Slots
    <3>3. ChunkFirst = FirstValid
      BY <1>2, <1>w, <2>2 DEF ChunkFirst, Plus, Slots
    <3> QED
      BY <3>2, <3>3 DEF Taken
  <2> QED
    BY <1>3, <2>1, <2>2
<1> QED
  BY <1>2, <1>3, <1>4, <1>5, <1>6, <1>7, <1>8, <1>9 DEF Taken

\* The first valid slot holds the first packet behind those taken out before.
LEMMA FirstFacts ==
    ASSUME Deliver
    PROVE  /\ First \in Nat /\ front < First /\ position <= First /\ First < nextId
           /\ SlotOf(First) = FirstValid
           /\ \A q \in Int : front < q /\ q < First => ~Valid(SlotOf(q))
<1>1. /\ TypeOK /\ BufferDivides /\ ~NothingFound
      /\ m_index = SlotOf(front + 1) /\ front \in Int /\ nextId \in Nat
      /\ nextId <= front + 1 + WrapAround /\ m_index \in Slots
  BY DeliverFacts, SyncTypes
<1>2. /\ First \in Nat /\ front < First /\ position <= First /\ First < nextId
      /\ SlotOf(First) = FirstValid
  BY TakenAreValid, TakenSlots DEF First
<1>3. PICK k \in Slots : /\ FirstValid = Plus(m_index, k)
                         /\ \A j \in Nat : j < k => ~Valid(Plus(m_index, j))
  BY <1>1, FirstValidScan
<1>4. PICK f \in Int : f = front + 1
  BY <1>1
<1>5. \A j \in Nat : Plus(m_index, j) = SlotOf(f + j)
  BY <1>1, <1>4, PlusIsSlot
<1>6. WrapAround \in Nat /\ k \in Nat /\ k < WrapAround
  BY WrapAroundType DEF Slots
<1>7. First = f + k
  <2>1. SlotOf(First) = SlotOf(f + k)
    BY <1>2, <1>3, <1>5, <1>6
  <2>2. f <= First /\ First < f + WrapAround /\ f + k \in Int
    BY <1>1, <1>2, <1>4, <1>6
  <2>3. First - (f + k) < WrapAround /\ (f + k) - First < WrapAround
    BY <1>2, <1>6, <2>2
  <2> QED
    BY <1>1, <1>2, <2>1, <2>2, <2>3, CloseSlots
<1>8. ASSUME NEW q \in Int, front < q, q < First
      PROVE  ~Valid(SlotOf(q))
  <2>1. PICK j \in Nat : q = f + j /\ j < k
    <3>1. q - f \in Nat /\ q - f < k /\ q = f + (q - f)
      BY <1>1, <1>4, <1>6, <1>7, <1>8
    <3> QED
      BY <3>1
  <2> QED
    BY <1>3, <1>5, <2>1
<1> QED
  BY <1>2, <1>8

\* The slots the searches walk over are those of consecutive packets.
LEMMA WalkSlots ==
    ASSUME Deliver
    PROVE  /\ \A j \in Nat : Plus(FirstValid, j) = SlotOf(First + j)
           /\ ChunkFirst = SlotOf(First + SkippedCount)
           /\ \A i \in Nat : i < ChunkLength =>
                 SlotOf(First + SkippedCount + i) = ChunkFirst + i
           /\ \A j \in Nat : j < Consumed =>
                 /\ SlotOf(First + j) \in Taken
                 /\ j < SkippedCount => SlotOf(First + j) \in SkippedSlots
                 /\ ~(j < SkippedCount) => /\ SlotOf(First + j) \in ChunkSlots
                                           /\ SlotOf(First + j) \notin SkippedSlots
<1>1. BufferDivides /\ First \in Nat /\ SlotOf(First) = FirstValid
  BY DeliverFacts, FirstFacts
<1>2. /\ SkippedCount \in Nat /\ ChunkLength \in Nat /\ ChunkFirst \in Slots
      /\ ChunkFirst + ChunkLength <= WrapAround
      /\ \A j \in Nat : j < SkippedCount => Plus(FirstValid, j) \in SkippedSlots
      /\ \A i \in Nat : i < ChunkLength =>
            ChunkFirst + i \in ChunkSlots /\ ChunkFirst + i \notin SkippedSlots
  BY TakenAreValid
<1>3. \A j \in Nat : Plus(FirstValid, j) = SlotOf(First + j)
  BY <1>1, PlusIsSlot
<1>4. ChunkFirst = SlotOf(First + SkippedCount)
  BY <1>2, <1>3 DEF ChunkFirst
<1>5. ASSUME NEW i \in Nat, i < ChunkLength
      PROVE  SlotOf(First + SkippedCount + i) = ChunkFirst + i
  <2>1. PICK c \in Int : c = First + SkippedCount
    BY <1>1, <1>2
  <2>2. SlotOf(c) + i < WrapAround
    BY <1>2, <1>4, <1>5, <2>1, WrapAroundType DEF Slots
  <2>3. SlotOf(c + i) = SlotOf(c) + i
    BY <1>1, <2>2, NextSlots
  <2> QED
    BY <1>4, <2>1, <2>3
<1>6. ASSUME NEW j \in Nat, j < Consumed
      PROVE  /\ SlotOf(First + j) \in Taken
             /\ j < SkippedCount => SlotOf(First + j) \in SkippedSlots
             /\ ~(j < SkippedCount) => /\ SlotOf(First + j) \in ChunkSlots
                                       /\ SlotOf(First + j) \notin SkippedSlots
  <2>1. CASE j < SkippedCount
    BY <1>2, <1>3, <2>1 DEF Taken
  <2>2. CASE ~(j < SkippedCount)
    <3>1. PICK i \in Nat : j = SkippedCount + i /\ i < ChunkLength
      <4>1. j - SkippedCount \in Nat /\ j - SkippedCount < ChunkLength
            /\ j = SkippedCount + (j - SkippedCount)
        BY <1>2, <1>6, <2>2 DEF Consumed
      <4> QED
        BY <4>1
    <3>2. First + SkippedCount + i = First + j
      BY <1>1, <1>2, <3>1
    <3> QED
      BY <1>2, <1>5, <2>2, <3>1, <3>2 DEF Taken
  <2> QED
    BY <2>1, <2>2
<1> QED
  BY <1>3, <1>4, <1>5, <1>6

\* They do not go round past m_index.
LEMMA WalkEnds ==
    ASSUME Deliver
    PROVE  First + Consumed <= front + 1 + WrapAround
<1>1. /\ TypeOK /\ BufferDivides /\ front \in Int /\ nextId \in Nat /\ WrapAround \in Nat
      /\ nextId <= front + 1 + WrapAround
      /\ First \in Nat /\ front < First /\ First < nextId
      /\ WrapAround > 0
  BY DeliverFacts, FirstFacts, SyncTypes, WrapAroundType
<1>2. /\ SkippedCount \in Nat /\ ChunkLength \in Nat /\ ChunkFirst \in Slots
      /\ ChunkFirst + ChunkLength <= WrapAround /\ SkippedCount <= WrapAround
      /\ SkippedCount = WrapAround => ChunkLength = 0
      /\ Consumed = SkippedCount + ChunkLength
  BY TakenAreValid DEF Consumed
<1> SUFFICES ASSUME First + Consumed > front + 1 + WrapAround
             PROVE  FALSE
  BY <1>1, <1>2
<1>3. PICK f \in Int, j \in Nat : f = front + 1 /\ j = f + WrapAround - First
  <2>1. front + 1 \in Int /\ front + 1 + WrapAround - First \in Nat
    BY <1>1
  <2> QED
    BY <2>1
<1>4. j < Consumed /\ First + j = f + WrapAround
  BY <1>1, <1>2, <1>3
<1>5. SlotOf(f + WrapAround) = SlotOf(f)
  <2>1. (f + WrapAround) % WrapAround = f % WrapAround
    <3>1. PICK b \in Int : b = f + WrapAround
      BY <1>1
    <3>2. WrapAround \in Nat \ {0}
      BY <1>1
    <3> QED
      BY <3>1, <3>2, OnceRound
  <2> QED
    BY <1>1, <2>1, SlotIsRemainder
<1>6. SlotOf(f) \in Taken /\ SlotOf(f) \in Slots /\ Valid(SlotOf(f))
  BY <1>4, <1>5, WalkSlots, TakenAreValid
<1>7. First = f
  <2>1. ~(f < First)
    BY <1>1, <1>3, <1>6, FirstFacts
  <2> QED
    BY <1>1, <1>3, <2>1
<1>8. j = WrapAround /\ SlotOf(First + WrapAround) = SlotOf(First)
  BY <1>1, <1>3, <1>5, <1>7
<1>9. CASE SkippedCount = 0
  BY <1>1, <1>2, <1>4, <1>8, <1>9 DEF Slots
<1>10. CASE SkippedCount # 0
  <2>1. ~(j < SkippedCount)
    BY <1>2, <1>8
  <2>2. SlotOf(First) \notin SkippedSlots
    BY <1>4, <1>8, <2>1, WalkSlots
  <2>3. 0 < SkippedCount /\ 0 < Consumed /\ First + 0 = First
    BY <1>1, <1>2, <1>10
  <2>4. SlotOf(First) \in SkippedSlots
    BY <2>3, WalkSlots
  <2> QED
    BY <2>2, <2>4
<1> QED
  BY <1>9, <1>10

\* The slot of each packet walked over holds that packet.
LEMMA WalkHeld ==
    ASSUME Deliver, NEW j \in Nat, j < Consumed
    PROVE  /\ SlotOf(First + j) \in Taken /\ SlotOf(First + j) \in Slots
           /\ Valid(SlotOf(First + j)) /\ held[SlotOf(First + j)] = First + j
           /\ mem[SlotOf(First + j)] = First + j /\ First + j < nextId
           /\ m_ext_packet_info_arr[SlotOf(First + j)].sequence_number = SeqOf(First + j)
<1>1. /\ TypeOK /\ BufferDivides /\ front \in Int /\ nextId \in Nat /\ WrapAround \in Nat
      /\ nextId <= front + 1 + WrapAround
      /\ First \in Nat /\ front < First /\ First + Consumed <= front + 1 + WrapAround
      /\ Consumed \in Nat
  <2>1. Consumed \in Nat
    BY TakenAreValid DEF Consumed
  <2>2. TypeOK /\ BufferDivides /\ nextId <= front + 1 + WrapAround
    BY DeliverFacts
  <2> QED
    BY <2>1, <2>2, FirstFacts, SyncTypes, WrapAroundType, WalkEnds
<1>2. PICK s \in Slots : s = SlotOf(First + j) /\ s \in Taken /\ Valid(s)
  BY WalkSlots, TakenAreValid
<1>3. PICK v \in Nat : /\ v = held[s] /\ front < v /\ v < nextId /\ SlotOf(v) = s
                       /\ mem[s] = v /\ m_ext_packet_info_arr[s].sequence_number = SeqOf(v)
  BY <1>2, TakenSlots
<1>4. PICK y \in Int : y = First + j
  BY <1>1
<1>5. y - v < WrapAround /\ v - y < WrapAround
  BY <1>1, <1>3, <1>4
<1>6. v = y
  BY <1>1, <1>2, <1>3, <1>4, <1>5, CloseSlots
<1> QED
  BY <1>2, <1>3, <1>4, <1>6

\* The last packet that leaves the buffer.
Last == First + Consumed - 1

\* The numbers of a delivery.
LEMMA DeliverNumbers ==
    ASSUME Deliver
    PROVE  /\ First \in Nat /\ Last \in Nat /\ Consumed \in Nat
           /\ SkippedCount \in Nat /\ ChunkLength \in Nat
           /\ Consumed = SkippedCount + ChunkLength /\ Consumed > 0
           /\ Last = First + Consumed - 1
           /\ First <= Last /\ front < First /\ position <= First /\ Last < nextId
           /\ front \in Int /\ position \in Int /\ lastOut \in Int /\ nextId \in Nat
           /\ span \in Int
           /\ SlotOf(Last) \in Taken /\ SlotOf(Last) \in Slots /\ held[SlotOf(Last)] = Last
           /\ m_ext_packet_info_arr[SlotOf(Last)].sequence_number = SeqOf(Last)
           /\ mem[SlotOf(Last)] = Last
<1>1. /\ SkippedCount \in Nat /\ ChunkLength \in Nat /\ SkippedCount + ChunkLength > 0
  BY TakenAreValid
<1>2. Consumed \in Nat /\ Consumed = SkippedCount + ChunkLength /\ Consumed > 0
  BY <1>1 DEF Consumed
<1>3. First \in Nat /\ front < First /\ position <= First
  BY FirstFacts
<1>4. PICK j \in Nat : j = Consumed - 1 /\ j < Consumed
  BY <1>2
<1>5. /\ SlotOf(First + j) \in Taken /\ SlotOf(First + j) \in Slots
      /\ held[SlotOf(First + j)] = First + j
      /\ mem[SlotOf(First + j)] = First + j /\ First + j < nextId
      /\ m_ext_packet_info_arr[SlotOf(First + j)].sequence_number = SeqOf(First + j)
  BY <1>4, WalkHeld
<1>6. First + j = Last /\ Last \in Nat /\ First <= Last /\ Last = First + Consumed - 1
  BY <1>2, <1>3, <1>4 DEF Last
<1>7. front \in Int /\ position \in Int /\ lastOut \in Int /\ nextId \in Nat /\ span \in Int
  BY DeliverFacts, SyncTypes
<1> QED
  BY <1>1, <1>2, <1>3, <1>5, <1>6, <1>7

\* A slot that is taken holds one of the packets walked over.
LEMMA TakenWalk ==
    ASSUME Deliver, NEW s \in Taken
    PROVE  /\ \E j \in Nat : j < Consumed /\ s = SlotOf(First + j)
           /\ held[s] \in Nat /\ First <= held[s] /\ held[s] <= Last
<1>1. /\ SkippedCount \in Nat /\ ChunkLength \in Nat /\ First \in Nat /\ Consumed \in Nat
      /\ Consumed = SkippedCount + ChunkLength /\ Last = First + Consumed - 1
  BY DeliverNumbers
<1>2. \E j \in Nat : j < Consumed /\ s = SlotOf(First + j)
  <2>1. CASE s \in SkippedSlots
    <3>1. PICK j \in 0..(SkippedCount - 1) : s = Plus(FirstValid, j)
      BY <2>1 DEF SkippedSlots
    <3>2. j \in Nat /\ j < Consumed
      BY <1>1
    <3> QED
      BY <3>1, <3>2, WalkSlots
  <2>2. CASE s \in ChunkSlots
    <3>1. ChunkFirst \in Nat
      BY TakenAreValid, WrapAroundType DEF Slots
    <3>2. s \in ChunkFirst..(ChunkFirst + ChunkLength - 1)
      BY <2>2 DEF ChunkSlots
    <3>3. PICK i \in Nat : i < ChunkLength /\ s = ChunkFirst + i
      <4>1. s - ChunkFirst \in Nat /\ s - ChunkFirst < ChunkLength
            /\ s = ChunkFirst + (s - ChunkFirst)
        BY <1>1, <3>1, <3>2
      <4> QED
        BY <4>1
    <3>4. SlotOf(First + SkippedCount + i) = s
      BY <3>3, WalkSlots
    <3>5. PICK j \in Nat : j = SkippedCount + i /\ j < Consumed
      BY <1>1, <3>3
    <3>6. First + SkippedCount + i = First + j
      BY <1>1, <3>5
    <3> QED
      BY <3>4, <3>5, <3>6
  <2> QED
    BY <2>1, <2>2 DEF Taken
<1>3. PICK j \in Nat : j < Consumed /\ s = SlotOf(First + j)
  BY <1>2
<1>4. held[s] = First + j
  BY <1>3, WalkHeld
<1>5. First + j \in Nat /\ First <= First + j /\ First + j <= Last
  BY <1>1, <1>3
<1> QED
  BY <1>2, <1>4, <1>5

\* A ripe packet, and those before it, have no copy under way.
LEMMA RipeIsAlone ==
    ASSUME Deliver, NEW s \in Slots, Valid(s), Ripe(s),
           NEW p \in Paths, NEW x \in Nat, UnderWayOn(p, x)
    PROVE  x > held[s]
<1>1. /\ NetInv /\ TypeOK /\ RecordsOK /\ pollPath = Done /\ todo = <<>>
      /\ m_now \in Nat /\ Stamp(s) \in Nat
  BY DeliverFacts, SyncTypes
<1>2. held[s] \in Nat /\ ClearedBy(held[s], Stamp(s) + Spread, Gap)
  BY <1>1 DEF RecordsOK
<1>3. /\ Spread \in Nat /\ MaxPathDiff \in Nat /\ Gap \in Nat /\ Spread <= MaxPathDiff
      /\ Stamp(s) + MaxPathDiff < m_now
  <2>1. Spread \in Nat /\ MaxPathDiff \in Nat /\ Gap \in Nat
    BY <1>1, NumberTypes, WaitTypes DEF Spread
  <2>2. Spread <= MaxPathDiff
    BY DEF Deliver, TimingSuffices
  <2>3. Stamp(s) + MaxPathDiff < m_now
    BY DEF Ripe
  <2> QED
    BY <2>1, <2>2, <2>3
<1>4. PICK h \in Int, t \in Int : h = held[s] /\ t = Stamp(s) + Spread
  BY <1>1, <1>2, <1>3
<1>5. ClearedBy(h, t, Gap) /\ t < m_now
  BY <1>1, <1>2, <1>3, <1>4
<1>6. /\ \A f \in FlightOf(p) : f.id = Corrupted \/ f.id > h
      /\ \A y \in QueueOf(p) : y = Corrupted \/ y > h
      /\ Processing = {}
  BY <1>1, <1>3, <1>5, NothingUnderWay DEF NetInv
<1>7. x # Corrupted
  BY DEF Corrupted
<1> QED
  BY <1>4, <1>6, <1>7 DEF UnderWayOn

\* No packet up to the last one taken has a copy under way.
LEMMA NothingUpToLast ==
    ASSUME Deliver, NEW p \in Paths, NEW x \in Nat, UnderWayOn(p, x)
    PROVE  x > Last
<1>1. /\ First \in Nat /\ Last \in Nat /\ position <= First /\ position \in Int
      /\ SkippedCount \in Nat /\ ChunkLength \in Nat /\ Consumed > 0
      /\ Consumed = SkippedCount + ChunkLength /\ Last = First + Consumed - 1
      /\ SlotOf(Last) \in Taken /\ SlotOf(Last) \in Slots /\ held[SlotOf(Last)] = Last
  BY DeliverNumbers
<1>2. x > First
  <2>1. FirstValid \in Slots /\ Valid(FirstValid) /\ Ripe(FirstValid)
    BY DeliverFacts, TakenAreValid
  <2> QED
    BY <2>1, RipeIsAlone DEF First
<1>3. CASE ChunkLength > 0
  <2>1. PICK i \in Nat : i = ChunkLength - 1 /\ i < ChunkLength
    BY <1>1, <1>3
  <2>2. First + SkippedCount + i = Last
    BY <1>1, <2>1
  <2>3. SlotOf(Last) = ChunkFirst + i
    BY <2>1, <2>2, WalkSlots
  <2>4. Valid(SlotOf(Last)) /\ Ripe(SlotOf(Last))
    BY <2>1, <2>3, TakenAreValid
  <2> QED
    BY <1>1, <2>4, RipeIsAlone
<1>4. CASE ChunkLength = 0
  <2> SUFFICES ASSUME x <= Last
               PROVE  FALSE
    BY <1>1
  <2>1. PICK j \in Nat : j = Consumed - 1 /\ j < Consumed /\ j < SkippedCount
                         /\ First + j = Last
    BY <1>1, <1>4
  <2>2. SlotOf(Last) \in SkippedSlots
    BY <2>1, WalkSlots
  <2>3. x \in position..held[SlotOf(Last)]
    BY <1>1, <1>2
  <2>4. ~UnderWay(x)
    BY <2>2, <2>3, DeliverFacts
  <2>5. Processing = {}
    BY DeliverFacts DEF Processing, Elements
  <2> QED
    BY <2>4, <2>5 DEF UnderWayOn, UnderWay, FlightOf, QueueOf, Elements
<1> QED
  BY <1>1, <1>3, <1>4

\* What is under way stays so.
LEMMA DeliverUnderWay ==
    ASSUME Deliver, NEW p \in Paths, NEW x \in Nat
    PROVE  UnderWayOn(p, x)' <=> UnderWayOn(p, x)
<1>1. /\ NetInv /\ CompletionsFit /\ [Next]_vars /\ RestartSeqs = {}
      /\ m_state = "Running" /\ pollPath' = 0 /\ pollPath = Done
  BY DeliverFacts DEF Deliver
<1>2. ~ProcessPacket
  BY DeliverFacts DEF ProcessPacket
<1>3. ~TickSend
  <2>1. pollPath # 0
    BY <1>1, NumberTypes DEF NetInv
  <2> QED
    BY <1>1, <2>1 DEF TickSend
<1> QED
  BY <1>1, <1>2, <1>3, UnderWayChanges

\* The packets passed over in front of the first valid slot were lost on every
\* path, once the stream has delivered something.
LEMMA GapIsLost ==
    ASSUME Deliver, ~fresh, NEW p \in Paths, NEW q \in Nat, front < q, q < First
    PROVE  <<p, q>> \in lostOn
<1>1. /\ First <= Last /\ Last < nextId /\ First \in Nat /\ Last \in Nat /\ nextId \in Nat
      /\ m_state = "Running"
  BY DeliverNumbers, DeliverFacts
<1>2. q < nextId /\ ~(q > Last)
  BY <1>1
<1>3. ~UnderWayOn(p, q)
  BY <1>2, NothingUpToLast
<1>4. ~Valid(SlotOf(q))
  BY FirstFacts
<1> QED
  BY <1>1, <1>2, <1>3, <1>4 DEF Deliver, SyncInv, Exact, Recorded, Blocked

\* The initial sync ends in front of the chunk.
LEMMA ChunkNotSynced ==
    ASSUME Deliver, ChunkLength > 0, NEW q \in Nat, First + SkippedCount <= q
    PROVE  ~Synced(q)
<1>1. /\ SkippedCount \in Nat /\ ChunkLength \in Nat /\ First \in Nat
      /\ Consumed = SkippedCount + ChunkLength
  BY DeliverNumbers
<1>2. SkippedCount < Consumed
  BY <1>1
<1>3. ChunkFirst = SlotOf(First + SkippedCount) /\ ~BeforeStart(ChunkFirst)
  BY WalkSlots, TakenAreValid
<1>4. ChunkFirst \in Slots /\ Valid(ChunkFirst) /\ held[ChunkFirst] = First + SkippedCount
  BY <1>1, <1>2, <1>3, WalkHeld
<1> QED
  BY <1>3, <1>4 DEF Synced, BeforeStart

\* The paths of a packet of the chunk are those that did not lose it.
LEMMA PathsOfChunk ==
    ASSUME Deliver, NEW i \in Nat, i < ChunkLength
    PROVE  m_path_packets[ChunkFirst + i] =
               {p \in Paths : <<p, First + SkippedCount + i>> \notin lostOn}
<1>1. /\ SkippedCount \in Nat /\ ChunkLength \in Nat /\ First \in Nat /\ Consumed \in Nat
      /\ Consumed = SkippedCount + ChunkLength /\ Last = First + Consumed - 1
      /\ front < First /\ front \in Int /\ position <= First /\ position \in Int
      /\ Last < nextId /\ nextId \in Nat /\ ChunkLength > 0
  BY DeliverNumbers
<1>2. PICK q \in Nat, j \in Nat : q = First + j /\ j = SkippedCount + i
                                  /\ q = First + SkippedCount + i
  BY <1>1
<1>3. front < q /\ q < nextId /\ ~(q > Last) /\ First + SkippedCount <= q /\ j < Consumed
      /\ position <= q
  BY <1>1, <1>2
<1>4. SlotOf(q) = ChunkFirst + i
  BY <1>2, WalkSlots
<1>5. SlotOf(q) \in Slots /\ Valid(SlotOf(q)) /\ held[SlotOf(q)] = q
  BY <1>2, <1>3, WalkHeld
<1>6. m_path_packets[SlotOf(q)] \subseteq Paths
  BY <1>5, DeliverFacts, SyncTypes
<1>7. ASSUME NEW p \in Paths
      PROVE  p \in m_path_packets[SlotOf(q)] <=> <<p, q>> \notin lostOn
  <2>1. <<p, q>> \in lostOn => ~Recorded(p, q)
    BY <1>3 DEF Deliver, SyncInv, LostOK
  <2>2. ~UnderWayOn(p, q)
    BY <1>3, NothingUpToLast
  <2>3. ~Blocked(q)
    BY <1>1, <1>3, <1>5 DEF Blocked
  <2>4. ~Synced(q)
    BY <1>1, <1>3, ChunkNotSynced
  <2>5. <<p, q>> \in lostOn \/ Recorded(p, q)
    BY <1>3, <2>2, <2>3, <2>4, DeliverFacts DEF Deliver, SyncInv, Exact
  <2> QED
    BY <1>5, <2>1, <2>5 DEF Recorded
<1> QED
  BY <1>2, <1>4, <1>6, <1>7

\* The slots taken are free afterwards, the others are left alone.
LEMMA DeliverRecords ==
    ASSUME Deliver, NEW s \in Slots
    PROVE  /\ Valid(s)' <=> Valid(s) /\ s \notin Taken
           /\ Stamp(s)' = Stamp(s)
           /\ m_ext_packet_info_arr'[s].sequence_number
                = m_ext_packet_info_arr[s].sequence_number
<1>1. m_ext_packet_info_arr' = Invalidate(Taken)
  BY DEF Deliver, SkipAndDeliver, Taken
<1>2. m_ext_packet_info_arr \in [Slots -> PacketInfo]
  BY DeliverFacts, SyncTypes
<1>3. CASE s \in Taken
  <2>1. m_ext_packet_info_arr'[s] = [m_ext_packet_info_arr[s] EXCEPT !.is_valid = FALSE]
    BY <1>1, <1>3 DEF Invalidate
  <2>2. m_ext_packet_info_arr[s] \in PacketInfo
    BY <1>2
  <2> QED
    BY <1>3, <2>1, <2>2 DEF Valid, Stamp, PacketInfo
<1>4. CASE s \notin Taken
  <2>1. m_ext_packet_info_arr'[s] = m_ext_packet_info_arr[s]
    BY <1>1, <1>4 DEF Invalidate
  <2> QED
    BY <1>4, <2>1 DEF Valid, Stamp
<1> QED
  BY <1>3, <1>4

\* Where the stream stands afterwards.
LEMMA DeliverPosition ==
    ASSUME Deliver
    PROVE  /\ front' = Last /\ m_index' = SlotOf(Last + 1)
           /\ ChunkLength = 0 =>
                 UNCHANGED <<m_last_processed_sequence_number, m_last_sequence_number,
                             m_initialized, lastOut, span, fresh>>
           /\ ChunkLength > 0 => /\ m_last_processed_sequence_number' = SeqOf(Last)
                                 /\ m_last_sequence_number' = SeqOf(Last)
                                 /\ m_initialized' /\ ~fresh' /\ lastOut' = Last
<1>1. /\ SkippedCount \in Nat /\ ChunkLength \in Nat /\ First \in Nat /\ Consumed \in Nat
      /\ Consumed = SkippedCount + ChunkLength /\ Last = First + Consumed - 1
      /\ Consumed > 0 /\ Last \in Nat
      /\ held[SlotOf(Last)] = Last /\ mem[SlotOf(Last)] = Last
      /\ m_ext_packet_info_arr[SlotOf(Last)].sequence_number = SeqOf(Last)
  BY DeliverNumbers
<1>2. /\ ChunkFirst \in Slots /\ ChunkFirst \in Nat /\ ChunkFirst + ChunkLength <= WrapAround
      /\ WrapAround \in Nat /\ ChunkFirst < WrapAround
  BY TakenAreValid, WrapAroundType DEF Slots
<1>3. /\ CompletePackets(ChunkFirst, ChunkLength) /\ SetCompletion(ChunkFirst, ChunkLength)
      /\ m_index' = IndexAfter(ChunkFirst, ChunkLength)
      /\ front' = held[IF ChunkLength = 0 THEN LastSkipped ELSE ChunkFirst + ChunkLength - 1]
      /\ BufferDivides /\ TypeOK
      /\ m_initialized \in BOOLEAN /\ fresh \in BOOLEAN
  BY DeliverFacts, SyncTypes DEF Deliver, SkipAndDeliver
<1>4. CASE ChunkLength = 0
  <2>1. PICK j \in Nat : j = SkippedCount - 1 /\ First + j = Last
    BY <1>1, <1>4
  <2>2. LastSkipped = SlotOf(Last)
    BY <2>1, WalkSlots DEF LastSkipped
  <2>3. front' = Last
    BY <1>1, <1>3, <1>4, <2>2
  <2>4. First + SkippedCount = Last + 1
    BY <1>1, <1>4
  <2>5. ChunkFirst = SlotOf(Last + 1)
    BY <2>4, WalkSlots
  <2>6. m_index' = ChunkFirst
    BY <1>2, <1>3, <1>4 DEF IndexAfter
  <2>7. UNCHANGED <<m_last_processed_sequence_number, m_last_sequence_number,
                    m_initialized, lastOut, span, fresh>>
    <3>1. CompletePackets(ChunkFirst, 0) /\ SetCompletion(ChunkFirst, 0)
      BY <1>3, <1>4
    <3>2. UNCHANGED <<m_last_processed_sequence_number, m_last_sequence_number>>
          /\ m_initialized' = (m_initialized \/ 0 > 0)
      BY <3>1 DEF CompletePackets
    <3>3. UNCHANGED <<lastOut, span>> /\ fresh' = (fresh /\ 0 = 0)
      BY <3>1 DEF SetCompletion
    <3>4. ~(0 > 0)
      OBVIOUS
    <3> QED
      BY <1>3, <3>2, <3>3, <3>4
  <2> QED
    BY <1>4, <2>3, <2>5, <2>6, <2>7
<1>5. CASE ChunkLength > 0
  <2>1. PICK i \in Nat : i = ChunkLength - 1 /\ i < ChunkLength
    BY <1>1, <1>5
  <2>2. First + SkippedCount + i = Last /\ ChunkFirst + i = ChunkFirst + ChunkLength - 1
    BY <1>1, <1>2, <2>1
  <2>3. ChunkFirst + ChunkLength - 1 = SlotOf(Last)
    BY <2>1, <2>2, WalkSlots
  <2>4. front' = Last
    BY <1>1, <1>3, <1>5, <2>3
  <2>5. IndexAfter(SlotOf(Last), 1) = SlotOf(Last + 1)
    BY <1>1, <1>3, IndexAfterIsSlot
  <2>6. PICK e \in Int : e = SlotOf(Last) /\ e + 1 = ChunkFirst + ChunkLength
    BY <1>1, <1>2, <2>3
  <2>7. m_index' = SlotOf(Last + 1)
    <3>1. IndexAfter(e, 1) = IF ChunkFirst + ChunkLength >= WrapAround THEN 0
                             ELSE ChunkFirst + ChunkLength
      BY <2>6 DEF IndexAfter
    <3>2. m_index' = IF ChunkFirst + ChunkLength >= WrapAround THEN 0
                     ELSE ChunkFirst + ChunkLength
      BY <1>3 DEF IndexAfter
    <3> QED
      BY <2>5, <2>6, <3>1, <3>2
  <2>8. /\ m_last_processed_sequence_number' = SeqOf(Last)
        /\ m_last_sequence_number' = SeqOf(Last)
        /\ m_initialized' /\ ~fresh' /\ lastOut' = Last
    <3>1. ChunkLength # 0
      BY <1>1, <1>5
    <3>2. /\ m_last_processed_sequence_number' =
               m_ext_packet_info_arr[ChunkFirst + ChunkLength - 1].sequence_number
          /\ m_last_sequence_number' =
               m_ext_packet_info_arr[ChunkFirst + ChunkLength - 1].sequence_number
          /\ m_initialized' = (m_initialized \/ ChunkLength > 0)
      BY <1>3, <3>1 DEF CompletePackets
    <3>3. lastOut' = mem[ChunkFirst + ChunkLength - 1] /\ fresh' = (fresh /\ ChunkLength = 0)
      BY <1>3, <3>1 DEF SetCompletion
    <3>4. PICK s \in Int : s = ChunkFirst + ChunkLength - 1 /\ s = SlotOf(Last)
      BY <1>1, <1>2, <2>3
    <3>5. m_ext_packet_info_arr[s].sequence_number = SeqOf(Last) /\ mem[s] = Last
      BY <1>1, <3>4
    <3>6. m_initialized' /\ ~fresh'
      BY <1>5, <3>1, <3>2, <3>3
    <3> QED
      BY <3>2, <3>3, <3>4, <3>5, <3>6
  <2>9. ChunkLength # 0
    BY <1>1, <1>5
  <2> QED
    BY <2>4, <2>7, <2>8, <2>9
<1> QED
  BY <1>1, <1>4, <1>5

\* The chunk holds consecutive packets, the last of which is the last taken.
LEMMA DeliverChunk ==
    ASSUME Deliver
    PROVE  /\ DOMAIN chunk' = 1..ChunkLength
           /\ \A i \in DOMAIN chunk' :
                 /\ chunk'[i].id = First + SkippedCount + i - 1
                 /\ chunk'[i].slot = SlotOf(chunk'[i].id)
                 /\ chunk'[i].seq = SeqOf(chunk'[i].id)
                 /\ mem[chunk'[i].slot] = chunk'[i].id
                 /\ chunk'[i].by = {p \in Paths : <<p, chunk'[i].id>> \notin lostOn}
                 /\ chunk'[i].id \in Nat
                 /\ First <= chunk'[i].id /\ chunk'[i].id <= Last
<1>1. /\ SkippedCount \in Nat /\ ChunkLength \in Nat /\ First \in Nat /\ Consumed \in Nat
      /\ Consumed = SkippedCount + ChunkLength /\ Last = First + Consumed - 1
  BY DeliverNumbers
<1>2. chunk' = [i \in 1..ChunkLength |->
           [slot |-> ChunkFirst + i - 1,
            seq  |-> m_ext_packet_info_arr[ChunkFirst + i - 1].sequence_number,
            id   |-> mem[ChunkFirst + i - 1],
            by   |-> m_path_packets[ChunkFirst + i - 1]]]
  BY DEF Deliver, SkipAndDeliver, SetCompletion
<1>3. ChunkFirst \in Nat
  BY TakenAreValid, WrapAroundType DEF Slots
<1>4. ASSUME NEW i \in 1..ChunkLength
      PROVE  /\ chunk'[i].id = First + SkippedCount + i - 1
             /\ chunk'[i].slot = SlotOf(chunk'[i].id)
             /\ chunk'[i].seq = SeqOf(chunk'[i].id)
             /\ mem[chunk'[i].slot] = chunk'[i].id
             /\ chunk'[i].by = {p \in Paths : <<p, chunk'[i].id>> \notin lostOn}
             /\ chunk'[i].id \in Nat
             /\ First <= chunk'[i].id /\ chunk'[i].id <= Last
  <2>1. PICK j \in Nat, q \in Nat, m \in Nat, s \in Nat :
             /\ j = i - 1 /\ j < ChunkLength /\ q = First + SkippedCount + i - 1
             /\ q = First + SkippedCount + j /\ m = SkippedCount + j /\ q = First + m
             /\ m < Consumed /\ s = ChunkFirst + j /\ s = ChunkFirst + i - 1
             /\ First <= q /\ q <= Last
    <3>1. /\ i - 1 \in Nat /\ i - 1 < ChunkLength /\ First + SkippedCount + i - 1 \in Nat
          /\ First + SkippedCount + i - 1 = First + SkippedCount + (i - 1)
          /\ SkippedCount + (i - 1) \in Nat
          /\ First + SkippedCount + i - 1 = First + (SkippedCount + (i - 1))
          /\ SkippedCount + (i - 1) < Consumed
          /\ ChunkFirst + (i - 1) = ChunkFirst + i - 1 /\ ChunkFirst + (i - 1) \in Nat
          /\ First <= First + SkippedCount + i - 1 /\ First + SkippedCount + i - 1 <= Last
      BY <1>1, <1>3
    <3> QED
      BY <3>1
  <2>2. SlotOf(q) = s
    BY <2>1, WalkSlots
  <2>3. mem[s] = q /\ m_ext_packet_info_arr[s].sequence_number = SeqOf(q)
    BY <2>1, <2>2, WalkHeld
  <2>4. m_path_packets[s] = {p \in Paths : <<p, q>> \notin lostOn}
    BY <2>1, PathsOfChunk
  <2>5. /\ chunk'[i].slot = s /\ chunk'[i].id = mem[s]
        /\ chunk'[i].seq = m_ext_packet_info_arr[s].sequence_number
        /\ chunk'[i].by = m_path_packets[s]
    BY <1>2, <2>1
  <2>6. chunk'[i].id = q
    BY <2>3, <2>5
  <2> QED
    BY <2>1, <2>2, <2>3, <2>4, <2>5, <2>6
<1>5. DOMAIN chunk' = 1..ChunkLength
  BY <1>2
<1> QED
  BY <1>4, <1>5

\* Where the stream stands after a delivery.
LEMMA DeliverPlace ==
    ASSUME Deliver
    PROVE  PlaceOK'
<1>1. /\ Last \in Nat /\ First \in Nat /\ First <= Last /\ position <= First /\ Last < nextId
      /\ front < First /\ front \in Int /\ position \in Int /\ lastOut \in Int
      /\ ChunkLength \in Nat
  BY DeliverNumbers
<1>2. /\ UNCHANGED <<nextId, position>> /\ m_state' = "Running" /\ Placed
  BY DeliverFacts
<1>3. /\ 0 <= position /\ lastOut <= front
      /\ m_initialized <=> ~fresh
      /\ m_last_processed_sequence_number = SeqOf(Reference)
      /\ ~fresh => position <= lastOut /\ m_last_sequence_number = SeqOf(lastOut)
  BY <1>2 DEF Deliver, SyncInv, PlaceOK
<1>4. front' = Last /\ m_index' = SlotOf(Last + 1)
  BY DeliverPosition
<1>5. /\ lastOut' <= Last
      /\ m_initialized' <=> ~fresh'
      /\ m_last_processed_sequence_number' = SeqOf(Reference)'
      /\ ~fresh' => position <= lastOut' /\ m_last_sequence_number' = SeqOf(lastOut')
  <2>1. CASE ChunkLength = 0
    <3>1. UNCHANGED <<m_last_processed_sequence_number, m_last_sequence_number,
                      m_initialized, lastOut, fresh>>
      BY <2>1, DeliverPosition
    <3>2. lastOut <= Last
      BY <1>1, <1>3
    <3>3. Reference' = Reference
      BY <1>2, <3>1 DEF Reference
    <3>4. SeqOf(Reference)' = SeqOf(Reference)
      BY <3>3 DEF SeqOf
    <3> QED
      BY <1>3, <3>1, <3>2, <3>4
  <2>2. CASE ChunkLength # 0
    <3>0. ChunkLength > 0
      BY <1>1, <2>2
    <3>1. /\ m_last_processed_sequence_number' = SeqOf(Last)
          /\ m_last_sequence_number' = SeqOf(Last)
          /\ m_initialized' /\ ~fresh' /\ lastOut' = Last
      BY <3>0, DeliverPosition
    <3>2. Reference' = Last
      BY <3>1 DEF Reference
    <3>3. SeqOf(Reference)' = SeqOf(Last)
      BY <3>2 DEF SeqOf
    <3>4. position <= Last /\ Last <= Last
      BY <1>1
    <3> QED
      BY <3>1, <3>3, <3>4
  <2> QED
    BY <2>1, <2>2
<1>6. position - 1 <= Last /\ Last # position - 1
  BY <1>1
<1>7. SlotOf(front + 1)' = SlotOf(Last + 1)
  BY <1>4 DEF SlotOf, SeqOf
<1>8. SeqOf(lastOut)' = SeqOf(lastOut')
  BY DEF SeqOf
<1>9. m_state' # "Waiting"
  BY <1>2
<1> QED
  BY <1>1, <1>2, <1>3, <1>4, <1>5, <1>6, <1>7, <1>8, <1>9 DEF PlaceOK

\* What is under way and in the buffer afterwards comes behind the last packet.
LEMMA DeliverRest ==
    ASSUME Deliver
    PROVE  Gone' /\ LeftOver' /\ MemProper'
<1>1. /\ Last \in Nat /\ First \in Nat /\ First <= Last /\ position <= First
      /\ front < First /\ front \in Int /\ position \in Int /\ Consumed \in Nat
      /\ Last = First + Consumed - 1
  BY DeliverNumbers
<1>2. UNCHANGED <<mem, held, position>> /\ TypeOK /\ RecordsOK
  BY DeliverFacts
<1>3. front' = Last
  BY DeliverPosition
<1>4. Gone'
  <2>1. ASSUME NEW p \in Paths, NEW x \in Nat, UnderWayOn(p, x)'
        PROVE  x > Last
    BY <2>1, DeliverUnderWay, NothingUpToLast
  <2> QED
    BY <1>3, <2>1 DEF Gone
<1>5. ASSUME NEW s \in Slots, Valid(s)', ~(held[s] < position)
      PROVE  held[s] > Last
  <2>1. Valid(s) /\ s \notin Taken
    BY <1>5, DeliverRecords
  <2>2. PICK h \in Nat : h = held[s] /\ SlotOf(h) = s
    BY <1>2, <2>1 DEF RecordsOK
  <2>3. h > front
    BY <1>5, <2>1, <2>2 DEF Deliver, SyncInv, LeftOver
  <2>4. ~(h < First)
    BY <2>1, <2>2, <2>3, FirstFacts
  <2>5. ASSUME h <= Last
        PROVE  FALSE
    <3>1. PICK j \in Nat : j = h - First /\ j < Consumed /\ First + j = h
      <4>1. h - First \in Nat /\ h - First < Consumed /\ First + (h - First) = h
        BY <1>1, <2>4, <2>5
      <4> QED
        BY <4>1
    <3>2. SlotOf(h) \in Taken
      BY <3>1, WalkHeld
    <3> QED
      BY <2>1, <2>2, <3>2
  <2> QED
    BY <1>1, <2>2, <2>5
<1>6. LeftOver'
  BY <1>2, <1>3, <1>5 DEF LeftOver
<1>7. MemProper'
  <2>1. ASSUME NEW s \in Slots, Valid(s)', held[s] > Last
        PROVE  mem[s] = held[s]
    <3>1. Valid(s)
      BY <2>1, DeliverRecords
    <3>2. held[s] \in Int /\ held[s] > front
      BY <1>1, <1>2, <2>1, SyncTypes
    <3> QED
      BY <3>1, <3>2 DEF Deliver, SyncInv, MemProper
  <2> QED
    BY <1>2, <1>3, <2>1 DEF MemProper
<1> QED
  BY <1>4, <1>6, <1>7

\* No copy is forgotten.
LEMMA DeliverExact ==
    ASSUME Deliver
    PROVE  Exact' /\ LostOK'
<1>1. /\ Last \in Nat /\ First \in Nat /\ First <= Last /\ position <= First
      /\ front < First /\ front \in Int /\ position \in Int
      /\ SkippedCount \in Nat /\ ChunkLength \in Nat /\ Consumed \in Nat
      /\ Consumed = SkippedCount + ChunkLength /\ Last = First + Consumed - 1
      /\ nextId \in Nat
  BY DeliverNumbers
<1>2. /\ UNCHANGED <<nextId, lostOn, held, position, m_path_packets, m_start_time, m_now>>
      /\ NetInv /\ TypeOK /\ RecordsOK /\ m_state = "Running" /\ m_state' = "Running"
      /\ RestartSeqs = {} /\ CompletionsFit /\ [Next]_vars
  BY DeliverFacts DEF Deliver
<1>3. front' = Last
  BY DeliverPosition
<1>4. ASSUME NEW p \in Paths, NEW q \in Nat, Recorded(p, q), Last < q
      PROVE  Recorded(p, q)'
  <2>1. SlotOf(q) \in Slots /\ Valid(SlotOf(q)) /\ held[SlotOf(q)] = q
        /\ p \in m_path_packets[SlotOf(q)]
    BY <1>4, SeqOfType DEF Recorded
  <2>2. SlotOf(q) \notin Taken
    BY <1>1, <1>4, <2>1, TakenWalk
  <2>3. Valid(SlotOf(q))'
    BY <2>1, <2>2, DeliverRecords
  <2> QED
    BY <1>2, <2>1, <2>3 DEF Recorded, SlotOf, SeqOf, Valid
<1>5. ASSUME NEW q \in Nat, Blocked(q)
      PROVE  Blocked(q)'
  <2>1. SlotOf(q) \in Slots /\ Valid(SlotOf(q)) /\ held[SlotOf(q)] < position
        /\ SeqOf(held[SlotOf(q)]) = SeqOf(q)
    BY <1>5, SeqOfType DEF Blocked
  <2>2. SlotOf(q) \notin Taken
    <3>1. ASSUME SlotOf(q) \in Taken
          PROVE  FALSE
      <4>1. held[SlotOf(q)] \in Nat /\ First <= held[SlotOf(q)]
        BY <3>1, TakenWalk
      <4> QED
        BY <1>1, <2>1, <4>1
    <3> QED
      BY <3>1
  <2>3. Valid(SlotOf(q))'
    BY <2>1, <2>2, DeliverRecords
  <2> QED
    BY <1>2, <2>1, <2>3 DEF Blocked, SlotOf, SeqOf, Valid
<1>6. ASSUME NEW q \in Nat, fresh, Synced(q), Last < q, q < nextId
      PROVE  fresh' /\ Synced(q)'
  <2>1. ChunkLength = 0
    <3>1. First + SkippedCount <= q \/ ~(ChunkLength > 0)
      BY <1>1, <1>6
    <3>2. ~(ChunkLength > 0)
      BY <1>6, <3>1, ChunkNotSynced
    <3> QED
      BY <1>1, <3>2
  <2>2. fresh'
    BY <1>6, <2>1, DeliverPosition
  <2>3. PICK t \in Int : t = m_start_time - 1 - Gap
    BY <1>2, WaitTypes, SyncTypes
  <2>4. ClearedBy(q, t, Gap)
    BY <1>6, <2>3 DEF Synced
  <2>5. ClearedBy(q, t, Gap)'
    BY <1>2, <1>6, <2>4, WaitTypes, ClearedStep DEF NetInv
  <2>6. m_start_time' - 1 - Gap = t
    BY <1>2, <2>3
  <2>7. \A s \in Slots : Valid(s)' /\ held[s] <= q => Stamp(s)' < m_start_time
    BY <1>6, DeliverRecords DEF Synced
  <2>8. \A s \in Slots : Valid(s)' /\ held'[s] <= q => Stamp(s)' < m_start_time'
    BY <1>2, <2>7
  <2> QED
    BY <2>2, <2>5, <2>6, <2>8 DEF Synced
<1>7. Exact'
  <2> SUFFICES ASSUME NEW p \in Paths, NEW q \in Nat, Last < q, q < nextId
               PROVE  \/ <<p, q>> \in lostOn
                      \/ UnderWayOn(p, q)'
                      \/ Recorded(p, q)'
                      \/ Blocked(q)'
                      \/ fresh' /\ Synced(q)'
    BY <1>2, <1>3 DEF Exact
  <2>1. front < q
    BY <1>1
  <2>2. \/ <<p, q>> \in lostOn
        \/ UnderWayOn(p, q)
        \/ Recorded(p, q)
        \/ Blocked(q)
        \/ fresh /\ Synced(q)
    BY <1>2, <2>1 DEF Deliver, SyncInv, Exact
  <2> QED
    BY <1>4, <1>5, <1>6, <2>2, DeliverUnderWay
<1>8. LostOK'
  <2> SUFFICES ASSUME NEW p \in Paths, NEW q \in Nat, <<p, q>> \in lostOn
               PROVE  /\ q < nextId
                      /\ ~UnderWayOn(p, q)'
                      /\ q > Last => ~Recorded(p, q)'
    BY <1>2, <1>3 DEF LostOK
  <2>1. q < nextId /\ ~UnderWayOn(p, q) /\ (q > front => ~Recorded(p, q))
    BY DEF Deliver, SyncInv, LostOK
  <2>2. ~UnderWayOn(p, q)'
    BY <2>1, DeliverUnderWay
  <2>3. ASSUME q > Last, Recorded(p, q)'
        PROVE  FALSE
    <3>1. q > front
      BY <1>1, <2>3
    <3>2. SlotOf(q) \in Slots
      BY SeqOfType
    <3>3. Valid(SlotOf(q))' /\ held[SlotOf(q)] = q /\ p \in m_path_packets[SlotOf(q)]
      BY <1>2, <2>3 DEF Recorded, SlotOf, SeqOf, Valid
    <3>4. Valid(SlotOf(q))
      BY <3>2, <3>3, DeliverRecords
    <3> QED
      BY <2>1, <3>1, <3>3, <3>4 DEF Recorded
  <2> QED
    BY <2>1, <2>2, <2>3
<1> QED
  BY <1>7, <1>8

\* What was passed over since the last delivery was skipped or lost.
LEMMA DeliverGap ==
    ASSUME Deliver
    PROVE  GapOK'
<1>1. /\ Last \in Nat /\ First \in Nat /\ First <= Last /\ front < First /\ front \in Int
      /\ SkippedCount \in Nat /\ ChunkLength \in Nat /\ Consumed \in Nat
      /\ Consumed = SkippedCount + ChunkLength /\ Last = First + Consumed - 1
  BY DeliverNumbers
<1>2. lostOn' = lostOn /\ skippedIds' = skippedIds \cup {held[s] : s \in SkippedSlots}
  BY DeliverFacts DEF Deliver, SkipAndDeliver
<1>3. front' = Last
  BY DeliverPosition
<1>4. CASE ChunkLength > 0
  <2>1. lastOut' = Last
    BY <1>4, DeliverPosition
  <2> QED
    BY <1>1, <1>3, <1>4, <2>1, DeliverPosition DEF GapOK
<1>5. CASE ChunkLength = 0
  <2>1. lastOut' = lastOut /\ fresh' = fresh
    BY <1>5, DeliverPosition
  <2> SUFFICES ASSUME ~fresh, NEW q \in Nat, lastOut < q, q <= Last
               PROVE  q \in skippedIds' \/ \A p \in Paths : <<p, q>> \in lostOn
    BY <1>2, <1>3, <2>1 DEF GapOK
  <2>2. CASE q <= front
    BY <1>2, <2>2 DEF Deliver, SyncInv, GapOK
  <2>3. CASE front < q /\ q < First
    BY <2>3, GapIsLost
  <2>4. CASE First <= q
    <3>1. PICK j \in Nat : j < Consumed /\ j < SkippedCount /\ First + j = q
      <4>1. q - First \in Nat /\ q - First < Consumed /\ q - First < SkippedCount
            /\ First + (q - First) = q
        BY <1>1, <1>5, <2>4
      <4> QED
        BY <4>1
    <3>2. SlotOf(q) \in SkippedSlots /\ held[SlotOf(q)] = q
      BY <3>1, WalkSlots, WalkHeld
    <3> QED
      BY <1>2, <3>2
  <2> QED
    BY <1>1, <2>2, <2>3, <2>4
<1> QED
  BY <1>1, <1>4, <1>5

\* Nothing is dropped in front of no packet.
LEMMA NoneDropped ==
    ASSUME NEW first \in Int, NEW S, IsFiniteSet(S), ~(\E x \in S : TRUE)
    PROVE  LET dropped(s) == DroppedAt(first, s)
           IN  MapThenSumSet(dropped, S) = 0
<1>0. S = {}
  OBVIOUS
<1> DEFINE dropped(s) == DroppedAt(first, s)
           next(s) == CHOOSE x \in s : TRUE
           step(g) == [s \in SUBSET S |->
                          IF s = {} THEN 0 ELSE dropped(next(s)) + g[s \ {next(s)}]]
           iter == CHOOSE g : g = step(g)
           sum == [s \in SUBSET S |-> 0]
<1>1. MapThenSumSet(dropped, S) = iter[S]
  BY DEF MapThenSumSet, MapThenFoldSet
<1> HIDE DEF dropped
<1>2. sum = step(sum)
  BY <1>0
<1>3. iter = step(iter)
  BY <1>2
<1> HIDE DEF iter
<1>4. iter[S] = 0
  BY <1>0, <1>3
<1> QED
  BY <1>1, <1>4 DEF dropped

\* The packets of a chunk follow each other.
LEMMA ChunkHasNoGap ==
    ASSUME Deliver, NEW s \in ChunkSlots \ {ChunkFirst}
    PROVE  DroppedAt(ChunkFirst, s) = 0
<1>1. /\ First \in Nat /\ SkippedCount \in Nat /\ ChunkLength \in Nat
      /\ Consumed = SkippedCount + ChunkLength /\ Consumed \in Nat
  BY DeliverNumbers
<1>2. ChunkFirst \in Nat
  BY TakenAreValid, WrapAroundType DEF Slots
<1>3. s \in ChunkFirst..(ChunkFirst + ChunkLength - 1)
  BY DEF ChunkSlots
<1>4. PICK i \in Nat, k \in Nat : /\ s = ChunkFirst + i /\ i < ChunkLength /\ k = i - 1
                                  /\ s - 1 = ChunkFirst + k /\ k < ChunkLength
  <2>1. /\ s - ChunkFirst \in Nat /\ s = ChunkFirst + (s - ChunkFirst)
        /\ s - ChunkFirst < ChunkLength /\ s - ChunkFirst - 1 \in Nat
        /\ s - 1 = ChunkFirst + (s - ChunkFirst - 1) /\ s - ChunkFirst - 1 < ChunkLength
    BY <1>1, <1>2, <1>3
  <2> QED
    BY <2>1
<1>j. PICK j \in Nat, l \in Nat : /\ j = SkippedCount + i /\ l = SkippedCount + k
                                  /\ j < Consumed /\ l < Consumed /\ j = l + 1
  <2>1. /\ SkippedCount + i \in Nat /\ SkippedCount + k \in Nat
        /\ SkippedCount + i < Consumed /\ SkippedCount + k < Consumed
        /\ SkippedCount + i = SkippedCount + k + 1
    BY <1>1, <1>4
  <2> QED
    BY <2>1
<1>a. PICK a \in Int : a = First + j /\ a = First + SkippedCount + i
  BY <1>1, <1>4, <1>j
<1>b. PICK b \in Int : b = First + l /\ b = First + SkippedCount + k
  BY <1>1, <1>4, <1>j
<1>5. a - b - 1 = 0
  BY <1>1, <1>j, <1>a, <1>b
<1>6. SlotOf(a) = s /\ SlotOf(b) = s - 1
  BY <1>4, <1>a, <1>b, WalkSlots
<1>7. /\ m_ext_packet_info_arr[s].sequence_number = a % SeqMod
      /\ m_ext_packet_info_arr[s - 1].sequence_number = b % SeqMod
  BY <1>j, <1>a, <1>b, <1>6, WalkHeld DEF SeqOf
<1>8. ((a % SeqMod) - ((b % SeqMod) + 1)) % SeqMod = 0
  <2>1. SeqMod \in Nat \ {0} /\ 0 \in 0..(SeqMod - 1)
    BY SizeTypes
  <2> QED
    BY <1>5, <2>1, SequenceDistance
<1> QED
  BY <1>7, <1>8 DEF DroppedAt, DroppedBetween

\* What is dropped in front of a chunk.
LEMMA ChunkGap ==
    ASSUME Deliver, ChunkLength > 0
    PROVE  DroppedAt(ChunkFirst, ChunkFirst) =
               IF fresh THEN 0 ELSE First + SkippedCount - lastOut - 1
<1>1. /\ First \in Nat /\ SkippedCount \in Nat /\ ChunkLength \in Nat
      /\ Consumed = SkippedCount + ChunkLength /\ Consumed \in Nat
      /\ Last = First + Consumed - 1 /\ Last < nextId /\ nextId \in Nat /\ Last \in Nat
      /\ lastOut \in Int /\ front < First /\ front \in Int
  BY DeliverNumbers
<1>2. /\ lastOut <= front /\ (m_initialized <=> ~fresh)
      /\ ~fresh => m_last_sequence_number = SeqOf(lastOut)
  BY DeliverFacts DEF Deliver, SyncInv, PlaceOK
<1>3. CASE fresh
  BY <1>2, <1>3 DEF DroppedAt
<1>4. CASE ~fresh
  <2>1. PICK a \in Int : a = First + SkippedCount /\ a <= Last
    BY <1>1
  <2>2. a = First + SkippedCount /\ SkippedCount < Consumed
    BY <1>1, <2>1
  <2>3. ChunkFirst = SlotOf(a)
    BY <2>1, WalkSlots
  <2>4. m_ext_packet_info_arr[ChunkFirst].sequence_number = a % SeqMod
    BY <1>1, <2>1, <2>2, <2>3, WalkHeld DEF SeqOf
  <2>5. m_initialized /\ m_last_sequence_number = lastOut % SeqMod
    BY <1>2, <1>4 DEF SeqOf
  <2>6. nextId - lastOut <= MsbMask
    BY <1>4, DeliverFacts DEF Deliver, CapacitySuffices, Reference
  <2>7. a - lastOut - 1 \in 0..(SeqMod - 1) /\ SeqMod \in Nat \ {0}
    BY <1>1, <1>2, <2>1, <2>6, SizeTypes
  <2>8. ((a % SeqMod) - ((lastOut % SeqMod) + 1)) % SeqMod = a - lastOut - 1
    BY <1>1, <2>7, SequenceDistance
  <2>9. DroppedAt(ChunkFirst, ChunkFirst) = a - lastOut - 1
    BY <2>4, <2>5, <2>8 DEF DroppedAt, DroppedBetween
  <2>10. a - lastOut - 1 = First + SkippedCount - lastOut - 1
    BY <1>1, <2>1
  <2> QED
    BY <1>4, <2>9, <2>10
<1> QED
  BY <1>3, <1>4

\* The counts keep up with what was delivered.
LEMMA DeliverCounts ==
    ASSUME Deliver
    PROVE  StatOK' /\ StatShape'
<1>1. /\ First \in Nat /\ SkippedCount \in Nat /\ ChunkLength \in Nat
      /\ Consumed = SkippedCount + ChunkLength /\ Consumed \in Nat
      /\ Last = First + Consumed - 1 /\ Last \in Nat
      /\ lastOut \in Int /\ span \in Int
      /\ mem[SlotOf(Last)] = Last
  BY DeliverNumbers
<1>2. CompletePackets(ChunkFirst, ChunkLength) /\ SetCompletion(ChunkFirst, ChunkLength)
      /\ StatShape
  BY DeliverFacts DEF Deliver, SkipAndDeliver
<1> DEFINE dropped(s) == DroppedAt(ChunkFirst, s)
           all == MapThenSumSet(dropped, ChunkSlots)
<1>3. /\ StatShape'
      /\ m_statistic'.rx_exceed_md = m_statistic.rx_exceed_md
      /\ m_statistic'.rx_count = m_statistic.rx_count + ChunkLength
      /\ m_statistic'.rx_dropped = m_statistic.rx_dropped + all
  BY <1>2, CountsOfChunk DEF ChunkSlots
<1>4. /\ m_statistic.rx_exceed_md = 0
      /\ m_statistic.rx_count \in Int /\ m_statistic.rx_dropped \in Int
      /\ m_statistic.rx_count + m_statistic.rx_dropped = span
  BY DEF Deliver, SyncInv, StatOK
<1>5. ChunkFirst \in Nat
  BY TakenAreValid, WrapAroundType DEF Slots
<1>6. CASE ChunkLength = 0
  <2>1. ChunkSlots = {}
    BY <1>5, <1>6 DEF ChunkSlots
  <2>2. all = 0
    <3>1. IsFiniteSet(ChunkSlots) /\ ~(\E x \in ChunkSlots : TRUE) /\ ChunkFirst \in Int
      BY <1>5, <2>1, FS_EmptySet
    <3> QED
      BY <3>1, NoneDropped
  <2>3. span' = span
    BY <1>6, DeliverPosition
  <2> HIDE DEF all
  <2> QED
    BY <1>3, <1>4, <1>6, <2>2, <2>3 DEF StatOK
<1>7. CASE ChunkLength > 0
  <2>1. PICK d \in Int : d = IF fresh THEN 0 ELSE First + SkippedCount - lastOut - 1
    <3>1. First + SkippedCount - lastOut - 1 \in Int /\ 0 \in Int
      BY <1>1
    <3>2. (IF fresh THEN 0 ELSE First + SkippedCount - lastOut - 1) \in Int
      BY <3>1
    <3> QED
      BY <3>2
  <2>2. DroppedAt(ChunkFirst, ChunkFirst) = d
    BY <1>7, <2>1, ChunkGap
  <2>3. IsFiniteSet(ChunkSlots) /\ ChunkFirst \in ChunkSlots /\ ChunkFirst \in Int
    <3>1. ChunkFirst + ChunkLength - 1 \in Int
      BY <1>1, <1>5
    <3> QED
      BY <1>1, <1>5, <1>7, <3>1, FS_Interval DEF ChunkSlots
  <2>4. all = d
    BY <2>2, <2>3, ChunkHasNoGap, DroppedSum
  <2> HIDE DEF all
  <2>5. PICK i \in Nat, s \in Int :
           /\ i = ChunkLength - 1 /\ i < ChunkLength /\ First + SkippedCount + i = Last
           /\ s = ChunkFirst + ChunkLength - 1 /\ s = ChunkFirst + i
    BY <1>1, <1>5, <1>7
  <2>6. mem[s] = Last
    BY <1>1, <2>5, WalkSlots
  <2>7. mem[ChunkFirst] = First + SkippedCount
    <3>1. SkippedCount < Consumed
      BY <1>1, <1>7
    <3> QED
      BY <1>1, <3>1, WalkSlots, WalkHeld
  <2>8. ChunkLength # 0
    BY <1>7
  <2>9. span' = IF fresh THEN span + Last - (First + SkippedCount) + 1
                ELSE span + Last - lastOut
    <3>1. span' = IF ChunkLength = 0 THEN span
                  ELSE IF fresh THEN span + mem[s] - mem[ChunkFirst] + 1
                  ELSE span + mem[s] - lastOut
      BY <1>2, <2>5 DEF SetCompletion
    <3> QED
      BY <2>6, <2>7, <2>8, <3>1
  <2>10. PICK w \in Int : w = IF fresh THEN span + Last - (First + SkippedCount) + 1
                              ELSE span + Last - lastOut
    <3>1. /\ span + Last - (First + SkippedCount) + 1 \in Int
          /\ span + Last - lastOut \in Int
      BY <1>1
    <3>2. (IF fresh THEN span + Last - (First + SkippedCount) + 1
           ELSE span + Last - lastOut) \in Int
      BY <3>1
    <3> QED
      BY <3>2
  <2>11. w = span + ChunkLength + d
    BY <1>1, <2>1, <2>10
  <2>12. PICK c \in Int, r \in Int : c = m_statistic.rx_count /\ r = m_statistic.rx_dropped
    BY <1>4
  <2>13. m_statistic'.rx_count = c + ChunkLength /\ m_statistic'.rx_dropped = r + d
    BY <1>3, <2>4, <2>12
  <2>14. c + r = span
    BY <1>4, <2>12
  <2>15. (c + ChunkLength) + (r + d) = w /\ c + ChunkLength \in Int /\ r + d \in Int
    BY <1>1, <2>11, <2>14
  <2>16. span' = w
    BY <2>9, <2>10
  <2> QED
    BY <1>3, <1>4, <2>13, <2>15, <2>16 DEF StatOK
<1> QED
  BY <1>1, <1>3, <1>6, <1>7

\* What the caller reads.
LEMMA DeliverRead ==
    ASSUME Deliver
    PROVE  ChunkOK'
<1>1. /\ Last \in Nat /\ First \in Nat /\ First <= Last /\ position <= First
      /\ position \in Int /\ SkippedCount \in Nat /\ ChunkLength \in Nat
  BY DeliverNumbers
<1>2. /\ UNCHANGED <<mem, lostOn, position>> /\ pollPath' = 0 /\ m_state' = "Running"
  BY DeliverFacts
<1>3. front' = Last
  BY DeliverPosition
<1>4. DOMAIN chunk' = 1..ChunkLength
  BY DeliverChunk
<1>5. ASSUME NEW i \in DOMAIN chunk'
      PROVE  /\ chunk'[i].id \in Nat /\ chunk'[i].id <= Last
             /\ chunk'[1].id <= chunk'[i].id
             /\ SlotOf(chunk'[i].id) = chunk'[i].slot
             /\ SeqOf(chunk'[i].id) = chunk'[i].seq
             /\ mem[chunk'[i].slot] = chunk'[i].id
             /\ chunk'[i].by = {p \in Paths : <<p, chunk'[i].id>> \notin lostOn}
  <2>1. i \in Nat /\ 1 <= i /\ 1 \in DOMAIN chunk'
    BY <1>1, <1>4
  <2>2. chunk'[i].id = First + SkippedCount + i - 1
    BY DeliverChunk
  <2>3. chunk'[1].id = First + SkippedCount + 1 - 1
    BY <2>1, DeliverChunk
  <2>4. First + SkippedCount + 1 - 1 <= First + SkippedCount + i - 1
    BY <1>1, <2>1
  <2>5. chunk'[1].id <= chunk'[i].id
    BY <2>2, <2>3, <2>4
  <2> QED
    BY <2>5, DeliverChunk
<1>6. position <= Last
  BY <1>1
<1>7. Placed'
  BY <1>2 DEF Placed
<1> QED
  BY <1>2, <1>3, <1>5, <1>6, <1>7 DEF ChunkOK, SlotOf, SeqOf

\* A delivery keeps the invariant of a stream in sync.
LEMMA DeliverSync ==
    ASSUME Deliver
    PROVE  SyncInv'
BY DeliverPlace, DeliverRest, DeliverExact, DeliverGap, DeliverCounts, DeliverRead DEF SyncInv

-----------------------------------------------------------------------------
(* The invariant is inductive.                                             *)

\* A delivery keeps what holds out of sync, too.
LEMMA DeliverSlots ==
    ASSUME StreamInv, Assemble, SkipAndDeliver
    PROVE  IdleOK' /\ StatShape' /\ (inSync' => inSync)
<1>1. StatShape /\ CompletePackets(ChunkFirst, ChunkLength)
  BY DEF StreamInv, SlotInv, SkipAndDeliver
<1>2. StatShape'
  BY <1>1, CountsOfChunk
<1>3. m_state' = "Running"
  BY DEF SkipAndDeliver, CanAssemble
<1>4. inSync' => inSync
  BY DEF SkipAndDeliver
<1> QED
  BY <1>2, <1>3, <1>4 DEF IdleOK, Placed

\* Every step keeps the stream in step with what was sent.
LEMMA StreamStep ==
    ASSUME TimingSuffices, CapacitySuffices, StreamInv, [Next]_vars
    PROVE  StreamInv'
<1>1. /\ NetInv /\ EmptyUnlessRunning /\ RecordsOK /\ CompletionsFit /\ RestartSeqs = {}
      /\ TypeOK /\ BufferDivides /\ Oldest <= WrapAround
  BY DEF StreamInv, SlotInv, CapacitySuffices, TimingSuffices, NetInv
<1>2. NetInv' /\ RecordsOK'
  BY <1>1, NetStep, RecordsStep
<1>3. EmptyUnlessRunning'
  BY <1>1, EmptyPreserved
<1>4. IdleOK' /\ StatShape' /\ (inSync' => SyncInv')
  <2>1. CASE ProcessPacket
    BY <2>1, ProcessSync DEF Process
  <2>2. CASE Assemble /\ SkipAndDeliver
    <3>1. IdleOK' /\ StatShape' /\ (inSync' => inSync)
      BY <2>2, DeliverSlots
    <3>2. ASSUME inSync'
          PROVE  SyncInv'
      BY <2>2, <3>1, <3>2, DeliverSync DEF Deliver, StreamInv
    <3> QED
      BY <3>1, <3>2
  <2>3. CASE ~ProcessPacket /\ ~(Assemble /\ SkipAndDeliver)
    BY <2>3, QuietSync DEF Quiet
  <2> QED
    BY <2>1, <2>2, <2>3
<1> QED
  BY <1>2, <1>3, <1>4 DEF StreamInv, SlotInv

\* The invariant holds as long as the capacity suffices.
LEMMA StreamInvariant ==
    ASSUME TimingSuffices
    PROVE  Spec /\ []CapacitySuffices => []StreamInv
<1>1. Init => StreamInv
  BY StreamInit
<1>2. CapacitySuffices /\ StreamInv /\ [Next]_vars => StreamInv'
  BY StreamStep
<1> QED
  BY <1>1, <1>2, PTL DEF Spec

-----------------------------------------------------------------------------
(* What the caller may rely on.                                            *)

\* A chunk appears in one way only.
LEMMA DeliversByAssembling ==
    ASSUME StreamInv, TimingSuffices, CapacitySuffices, [Next]_vars, Delivers, inSync'
    PROVE  Deliver /\ chunk' \in Seq(ChunkEntry) /\ 1 \in DOMAIN chunk'
<1>1. TypeOK /\ RestartSeqs = {}
  BY DEF StreamInv, SlotInv, NetInv, TimingSuffices
<1>2. ~ProcessPacket
  BY DEF Delivers, ProcessPacket
<1>3. Assemble /\ SkipAndDeliver
  <2>1. ~(chunk' = chunk) /\ ~(chunk' = <<>>)
    BY DEF Delivers
  <2> QED
    BY <1>1, <1>2, <2>1, QuietStep
<1>4. inSync /\ SyncInv
  BY <1>3, DeliverSlots DEF StreamInv
<1>5. chunk' \in Seq(ChunkEntry)
  BY <1>1, NextTypeOK DEF TypeOK, AppTypeOK
<1>6. 1 \in DOMAIN chunk'
  BY <1>5 DEF Delivers
<1> QED
  BY <1>3, <1>4, <1>5, <1>6 DEF Deliver

\* get_next_chunk hands packets to the caller in the order they were sent.
LEMMA ChunkFollows ==
    ASSUME StreamInv, TimingSuffices, CapacitySuffices, [Next]_vars, Delivers, inSync'
    PROVE  ChunkInOrder
<1>1. Deliver /\ 1 \in DOMAIN chunk'
  BY DeliversByAssembling
<1>2. /\ First \in Nat /\ SkippedCount \in Nat /\ ChunkLength \in Nat
      /\ front < First /\ front \in Int /\ lastOut \in Int
  BY <1>1, DeliverNumbers
<1>3. lastOut <= front
  BY <1>1, DeliverFacts DEF Deliver, SyncInv, PlaceOK
<1>4. DOMAIN chunk' = 1..ChunkLength
  BY <1>1, DeliverChunk
<1>5. ASSUME NEW i \in DOMAIN chunk', NEW j \in DOMAIN chunk', i < j
      PROVE  chunk'[i].id < chunk'[j].id
  <2>1. /\ chunk'[i].id = First + SkippedCount + i - 1
        /\ chunk'[j].id = First + SkippedCount + j - 1
    BY <1>1, DeliverChunk
  <2>2. i \in Nat /\ j \in Nat
    BY <1>2, <1>4
  <2>3. First + SkippedCount + i - 1 < First + SkippedCount + j - 1
    BY <1>2, <1>5, <2>2
  <2> QED
    BY <2>1, <2>3
<1>6. chunk'[1].id > lastOut
  <2>1. chunk'[1].id \in Nat /\ First <= chunk'[1].id
    BY <1>1, DeliverChunk
  <2> QED
    BY <1>2, <1>3, <2>1
<1> QED
  BY <1>5, <1>6 DEF ChunkInOrder

\* A packet missing between two delivered ones was lost, or was skipped.
LEMMA MissingIsAccounted ==
    ASSUME StreamInv, TimingSuffices, CapacitySuffices, [Next]_vars, Delivers, inSync', ~fresh,
           NEW id \in (lastOut + 1)..chunk'[Len(chunk')].id, Missing(id)
    PROVE  id \in skippedIds'
<1>1. Deliver /\ chunk' \in Seq(ChunkEntry) /\ 1 \in DOMAIN chunk'
  BY DeliversByAssembling
<1>2. /\ First \in Nat /\ SkippedCount \in Nat /\ ChunkLength \in Nat /\ Last \in Nat
      /\ front < First /\ front \in Int /\ lastOut \in Int /\ position \in Int
      /\ Consumed = SkippedCount + ChunkLength /\ Last = First + Consumed - 1
      /\ Consumed \in Nat
  BY <1>1, DeliverNumbers
<1>3. /\ 0 <= position /\ position <= lastOut
  BY <1>1, DeliverFacts DEF Deliver, SyncInv, PlaceOK
<1>4. id \in Nat /\ lastOut < id /\ id <= Last
  <2>1. Len(chunk') \in DOMAIN chunk'
    BY <1>1
  <2>2. PICK e \in Nat : e = chunk'[Len(chunk')].id /\ e <= Last
    BY <1>1, <2>1, DeliverChunk
  <2>3. id \in (lastOut + 1)..e
    BY <2>2
  <2> QED
    BY <1>2, <1>3, <2>2, <2>3
<1>5. id \notin {chunk'[i].id : i \in DOMAIN chunk'} /\ \E p \in Paths : <<p, id>> \notin lostOn
  BY DEF Missing, IdsOf
<1>6. CASE id <= front
  <2>1. id \in skippedIds \/ \A p \in Paths : <<p, id>> \in lostOn
    BY <1>1, <1>4, <1>6 DEF Deliver, SyncInv, GapOK
  <2>2. skippedIds \subseteq skippedIds'
    BY <1>1 DEF Deliver, SkipAndDeliver
  <2> QED
    BY <1>5, <2>1, <2>2
<1>7. CASE front < id /\ id < First
  BY <1>1, <1>4, <1>5, <1>7, GapIsLost
<1>8. CASE First <= id /\ id < First + SkippedCount
  <2>1. PICK j \in Nat : j < Consumed /\ j < SkippedCount /\ First + j = id
    <3>1. id - First \in Nat /\ id - First < Consumed /\ id - First < SkippedCount
          /\ First + (id - First) = id
      BY <1>2, <1>4, <1>8
    <3> QED
      BY <3>1
  <2>2. SlotOf(id) \in SkippedSlots /\ held[SlotOf(id)] = id
    BY <1>1, <2>1, WalkSlots, WalkHeld
  <2>3. skippedIds' = skippedIds \cup {held[s] : s \in SkippedSlots}
    BY <1>1 DEF Deliver, SkipAndDeliver
  <2> QED
    BY <2>2, <2>3
<1>9. CASE First + SkippedCount <= id
  <2>1. PICK i \in 1..ChunkLength : First + SkippedCount + i - 1 = id
    <3>1. id - First - SkippedCount + 1 \in 1..ChunkLength
          /\ First + SkippedCount + (id - First - SkippedCount + 1) - 1 = id
      BY <1>2, <1>4, <1>9
    <3> QED
      BY <3>1
  <2>2. i \in DOMAIN chunk' /\ chunk'[i].id = id
    BY <1>1, <2>1, DeliverChunk
  <2> QED
    BY <1>5, <2>2
<1> QED
  BY <1>2, <1>4, <1>6, <1>7, <1>8, <1>9

\* With a path skew inside m_max_path_differential no packet is rejected as
\* too late (handle_late_packet).
THEOREM NoneComesTooLate ==
    ASSUME TimingSuffices
    PROVE  Spec /\ []CapacitySuffices => []NoneExceedMd
<1>1. StreamInv => NoneExceedMd
  BY DEF StreamInv, SyncInv, StatOK, NoneExceedMd
<1> QED
  BY StreamInvariant, <1>1, PTL

\* rx_count plus rx_dropped is the length of the part of the stream that was
\* delivered.
THEOREM LossesAreCounted ==
    ASSUME TimingSuffices
    PROVE  Spec /\ []CapacitySuffices => []LossAccounting
<1>1. StreamInv => LossAccounting
  BY DEF StreamInv, SyncInv, StatOK, LossAccounting
<1> QED
  BY StreamInvariant, <1>1, PTL

\* complete_packet charges each path with exactly the copies that path lost.
THEOREM PathsAreCharged ==
    ASSUME TimingSuffices
    PROVE  Spec /\ []CapacitySuffices => []AttributionExact
<1>1. StreamInv => AttributionExact
  BY DEF StreamInv, SyncInv, ChunkOK, AttributionExact
<1> QED
  BY StreamInvariant, <1>1, PTL

\* The memory behind a chunk holds the packets get_next_chunk announced until
\* the caller polls again.
THEOREM PayloadStays ==
    ASSUME TimingSuffices
    PROVE  Spec /\ []CapacitySuffices => []PayloadIntact
<1>1. StreamInv => PayloadIntact
  BY DEF StreamInv, SyncInv, ChunkOK, PayloadIntact
<1> QED
  BY StreamInvariant, <1>1, PTL

\* get_next_chunk hands packets to the caller in the order they were sent,
\* each at most once.
THEOREM PacketsInOrder ==
    ASSUME TimingSuffices
    PROVE  Spec /\ []CapacitySuffices => InOrder
<1>1. StreamInv /\ CapacitySuffices /\ [Next]_vars => [Delivers /\ inSync' => ChunkInOrder]_vars
  BY ChunkFollows
<1> QED
  BY StreamInvariant, <1>1, PTL DEF Spec, InOrder

\* A packet missing between two delivered ones was lost on every path, or the
\* initial sync skipped it.
THEOREM GapsAreLosses ==
    ASSUME TimingSuffices
    PROVE  Spec /\ []CapacitySuffices => LostIsReal
<1>1. StreamInv /\ CapacitySuffices /\ [Next]_vars =>
          [Delivers /\ inSync' /\ ~fresh =>
             \A id \in (lastOut + 1)..chunk'[Len(chunk')].id :
                Missing(id) => id \in skippedIds']_vars
  BY MissingIsAccounted
<1> QED
  BY StreamInvariant, <1>1, PTL DEF Spec, LostIsReal
=============================================================================
