------------------------- MODULE TimelineTrackerProofs -------------------------
(***************************************************************************)
(* The three threads of the tracker use its StaticRCU object only as the   *)
(* class allows, so that what StaticRCUProofs proves of the class holds of *)
(* the reports they share: every step of the tracker is a step of          *)
(* StaticRCU or leaves it alone.  The one fact this needs is that what is  *)
(* given to update() is a report state, for which reports received are     *)
(* counted along the way from the sender.                                  *)
(*                                                                         *)
(* Whatever else is proved here then speaks of the register: the report    *)
(* state it holds, and what each reader is taken to have read.             *)
(***************************************************************************)
EXTENDS TimelineTracker, DivisionLemmas, FiniteSetTheorems, SequenceTheorems, TLAPS

RP == INSTANCE StaticRCUProofs WITH
    Readers <- {"data", "main"}, Parts <- {"last_report", "stats"},
    Value <- [last_report : Reports, stats : ReportStats], FirstValue <- NoReportState,
    m_buffer <- rBuffer, m_current_index <- rIndex, update <- rUpdate,
    copy <- rCopy, behind <- rBehind

\* Reports the sender has sent so far.
ReportsSent == IF sending.report THEN sending.field - 1 ELSE sending.field

TypesOK ==
    /\ sending \in [field : 1..(MaxFields + 1), report : BOOLEAN]
    /\ ~sending.report => sending.field <= MaxFields
    /\ rtcpQueue \in Seq(Packets)
    /\ rtcpChunk \in Seq(Packets)
    /\ m_local_report_state \in [last_report : Reports,
                                 stats : [is_last_report_valid : BOOLEAN, reports_received : Nat]]

\* No report is received that was not sent, refused ones included.
ReceivedWereSent ==
    m_local_report_state.stats.reports_received + Len(rtcpChunk) + Len(rtcpQueue) <= ReportsSent

TrackerInv == TypesOK /\ ReceivedWereSent

-----------------------------------------------------------------------------
\* Before the first report is sent none is under way.
LEMMA InitTracker == Init => TrackerInv
<1> SUFFICES ASSUME Init PROVE TrackerInv
  OBVIOUS
<1>1. MaxFields \in Nat \ {0}
  BY TrackerAssumption
<1>2. TypesOK
  BY <1>1 DEF Init, TypesOK, NoReportState, Reports
<1>3. ReceivedWereSent
  BY <1>1 DEF Init, ReceivedWereSent, ReportsSent, NoReportState
<1> QED
  BY <1>2, <1>3 DEF TrackerInv

\* What is consumed is counted, and stays a report state.
LEMMA ReceivedType ==
    ASSUME TypesOK, NEW packet \in Packets
    PROVE  LET state == Received(m_local_report_state, packet)
           IN  /\ state \in [last_report : Reports,
                             stats : [is_last_report_valid : BOOLEAN, reports_received : Nat]]
               /\ state.stats.reports_received
                      = m_local_report_state.stats.reports_received + 1
<1>1. packet.id \in Fields /\ packet.fits \in BOOLEAN
  BY DEF Packets
<1>2. ReportOf(packet.id) \in Reports
  BY <1>1 DEF Reports
<1> QED
  BY <1>1, <1>2 DEF TypesOK, Received

\* What PollReports takes from the queue, and what it leaves.
LEMMA PolledReports ==
    ASSUME NEW q \in Seq(Packets), NEW n \in 1..Len(q)
    PROVE  LET polled == PassedOn(SubSeq(q, 1, n))
               left == SubSeq(q, n + 1, Len(q))
           IN  /\ polled \in Seq(Packets) /\ left \in Seq(Packets)
               /\ Len(polled) = n /\ Len(left) = Len(q) - n
<1> DEFINE chunk == SubSeq(q, 1, n)
           left == SubSeq(q, n + 1, Len(q))
<1>1. Len(q) \in Nat /\ n \in Nat \ {0} /\ n <= Len(q)
  OBVIOUS
<1>2. chunk \in Seq(Packets) /\ Len(chunk) = n
  BY <1>1, SubSeqProperties
<1>3. left \in Seq(Packets) /\ Len(left) = Len(q) - n
  BY <1>1, SubSeqProperties
<1> HIDE DEF chunk, left
<1>4. Head(chunk) \in Packets
  BY <1>1, <1>2
<1>5. \A i \in 1..n : [id |-> Head(chunk).id, fits |-> chunk[i].fits] \in Packets
  <2> SUFFICES ASSUME NEW i \in 1..n
               PROVE  [id |-> Head(chunk).id, fits |-> chunk[i].fits] \in Packets
    OBVIOUS
  <2>1. chunk[i] \in Packets
    BY <1>1, <1>2
  <2> QED
    BY <1>4, <2>1 DEF Packets
<1>6. PassedOn(chunk) \in Seq(Packets) /\ Len(PassedOn(chunk)) = n
  <2> DEFINE polled == [i \in 1..n |-> [id |-> Head(chunk).id, fits |-> chunk[i].fits]]
  <2>1. polled \in [1..n -> Packets]
    BY <1>5
  <2>2. PassedOn(chunk) = polled
    BY <1>2 DEF PassedOn
  <2> HIDE DEF polled
  <2>3. polled \in Seq(Packets)
    BY <1>1, <2>1, SeqDef
  <2>4. DOMAIN polled = 1..n
    BY <2>1
  <2>5. Len(polled) = n
    BY <1>1, <2>3, <2>4, LenProperties
  <2> QED
    BY <2>2, <2>3, <2>5
<1> QED
  BY <1>3, <1>6 DEF chunk, left

\* Sending adds a report, polling and consuming pass them on or drop them.
LEMMA TrackerStep ==
    ASSUME TrackerInv, [Next]_vars
    PROVE  TrackerInv'
<1> USE DEF TrackerInv, TypesOK, ReceivedWereSent, ReportsSent
<1>0. MaxFields \in Nat \ {0}
  BY TrackerAssumption
<1>1. CASE SendReport
  <2>1. sending.field \in 0..MaxFields /\ sending.field \in Nat
    BY <1>0, <1>1 DEF SendReport
  <2>2. \E packet \in Packets : rtcpQueue' \in {rtcpQueue, Append(rtcpQueue, packet)}
    <3> DEFINE packet(fits) == [id |-> sending.field, fits |-> fits]
    <3>1. packet(TRUE) \in Packets /\ packet(FALSE) \in Packets
      BY <1>1, <2>1 DEF SendReport, Packets, Fields
    <3>2. \/ rtcpQueue' = rtcpQueue \/ rtcpQueue' = Append(rtcpQueue, packet(TRUE))
          \/ rtcpQueue' = Append(rtcpQueue, packet(FALSE))
      BY <1>1 DEF SendReport
    <3> QED
      BY <3>1, <3>2
  <2>3. /\ rtcpQueue' \in Seq(Packets)
        /\ Len(rtcpQueue) \in Nat /\ Len(rtcpQueue') \in Nat
        /\ Len(rtcpQueue') <= Len(rtcpQueue) + 1
    <3>1. rtcpQueue \in Seq(Packets)
      OBVIOUS
    <3>2. PICK packet \in Packets : rtcpQueue' \in {rtcpQueue, Append(rtcpQueue, packet)}
      BY <2>2
    <3>3. CASE rtcpQueue' = rtcpQueue
      BY <3>1, <3>3
    <3>4. CASE rtcpQueue' = Append(rtcpQueue, packet)
      BY <3>1, <3>4
    <3> QED
      BY <3>2, <3>3, <3>4
  <2>4. sending.report /\ sending.field <= MaxFields
    BY <1>1 DEF SendReport
  <2>5. sending' = [field |-> sending.field, report |-> FALSE]
    BY <1>1 DEF SendReport
  <2>6. rtcpChunk' = rtcpChunk /\ m_local_report_state' = m_local_report_state
    BY <1>1 DEF SendReport, rtcpVars
  <2>7. TypesOK'
    BY <1>0, <2>1, <2>3, <2>4, <2>5, <2>6
  <2>8. ReceivedWereSent'
    BY <1>0, <2>1, <2>3, <2>4, <2>5, <2>6
  <2> QED
    BY <2>7, <2>8
<1>2. CASE SendFrame
  BY <1>0, <1>2 DEF SendFrame, rtcpVars
<1>3. CASE PollReports
  <2>1. PICK n \in 1..Len(rtcpQueue) :
               /\ rtcpChunk' = PassedOn(SubSeq(rtcpQueue, 1, n))
               /\ rtcpQueue' = SubSeq(rtcpQueue, n + 1, Len(rtcpQueue))
    BY <1>3 DEF PollReports
  <2>2. rtcpQueue \in Seq(Packets) /\ Len(rtcpQueue) \in Nat /\ n \in Nat
    OBVIOUS
  <2>3. /\ rtcpChunk' \in Seq(Packets) /\ rtcpQueue' \in Seq(Packets)
        /\ Len(rtcpChunk') = n /\ Len(rtcpQueue') = Len(rtcpQueue) - n
    BY <2>1, <2>2, PolledReports
  <2>4. Len(rtcpChunk) = 0
    BY <1>3 DEF PollReports
  <2>5. sending' = sending /\ m_local_report_state' = m_local_report_state
    BY <1>3 DEF PollReports
  <2> QED
    BY <1>0, <2>2, <2>3, <2>4, <2>5
<1>4. CASE ConsumeRtcpPacket
  <2>1. rtcpChunk \in Seq(Packets) /\ rtcpChunk # <<>>
    BY <1>4 DEF ConsumeRtcpPacket
  <2>2. /\ Head(rtcpChunk) \in Packets /\ Tail(rtcpChunk) \in Seq(Packets)
        /\ Len(rtcpChunk) \in Nat /\ Len(Tail(rtcpChunk)) = Len(rtcpChunk) - 1
    BY <2>1
  <2>3. /\ m_local_report_state' \in
               [last_report : Reports,
                stats : [is_last_report_valid : BOOLEAN, reports_received : Nat]]
        /\ m_local_report_state'.stats.reports_received
               = m_local_report_state.stats.reports_received + 1
    BY <1>4, <2>2, ReceivedType DEF ConsumeRtcpPacket
  <2>4. rtcpChunk' = Tail(rtcpChunk) /\ sending' = sending /\ rtcpQueue' = rtcpQueue
    BY <1>4 DEF ConsumeRtcpPacket, netVars
  <2> QED
    BY <1>0, <2>2, <2>3, <2>4, SMTT(30)
<1>5. CASE UpdateReport
  BY <1>5 DEF UpdateReport, netVars
<1>6. CASE RaiseReportFlag
  BY <1>6 DEF RaiseReportFlag, netVars
<1>7. CASE DataThread
  BY <1>7 DEF DataThread, NotifyDataFrame, CopyReport, UpdateClock, netVars, rtcpVars
<1>8. CASE MainThread
  BY <1>8 DEF MainThread, CheckReport, ReadReport, PrintReport, netVars, rtcpVars
<1>9. CASE UNCHANGED vars
  BY <1>9 DEF vars, netVars, rtcpVars
<1> QED
  BY <1>1, <1>2, <1>3, <1>4, <1>5, <1>6, <1>7, <1>8, <1>9 DEF Next, RtcpThread

-----------------------------------------------------------------------------
\* A report state fits the value type of the shared object.
HoldsValue == m_local_report_state \in [last_report : Reports, stats : ReportStats]

LEMMA StateIsValue == TrackerInv => HoldsValue
<1> SUFFICES ASSUME TrackerInv PROVE HoldsValue
  OBVIOUS
<1>1. MaxFields \in Nat
  BY TrackerAssumption
<1>2. m_local_report_state.stats.reports_received \in 0..MaxFields
  BY <1>1 DEF TrackerInv, TypesOK, ReceivedWereSent, ReportsSent
<1> QED
  BY <1>2 DEF TrackerInv, TypesOK, ReportStats, HoldsValue

\* And so does the next one.
LEMMA NextIsValue == TrackerInv' => HoldsValue'
BY StateIsValue, PTL

\* RP repeats the definitions of R, over the same variables.
LEMMA SameObject ==
    /\ R!RCUConstants = RP!RCUConstants
    /\ R!Init = RP!Init
    /\ \A v : R!BeginUpdate(v) = RP!BeginUpdate(v)
    /\ \A p : R!StorePart(p) = RP!StorePart(p)
    /\ R!Publish = RP!Publish
    /\ \A r : R!Read(r) = RP!Read(r)
    /\ \A r, p : R!CopyPart(r, p) = RP!CopyPart(r, p)
BY DEF R!RCUConstants, RP!RCUConstants, R!Init, RP!Init, R!BeginUpdate, RP!BeginUpdate,
       R!StorePart, RP!StorePart, R!Publish, RP!Publish, R!Read, RP!Read,
       R!CopyPart, RP!CopyPart, R!Versions, RP!Versions, R!NewIndex, RP!NewIndex,
       R!Updating, RP!Updating, R!Copying, RP!Copying, R!InPace, RP!InPace

\* And so do the registers they implement.
LEMMA SameRegister ==
    /\ R!Register!Init = RP!Register!Init
    /\ [R!Register!Next]_(R!Register!registerVars)
          = [RP!Register!Next]_(RP!Register!registerVars)
BY DEF R!Register!Init, RP!Register!Init, R!Register!Next, RP!Register!Next,
       R!Register!registerVars, RP!Register!registerVars,
       R!Register!Hand, RP!Register!Hand, R!Register!Update, RP!Register!Update,
       R!Register!Read, RP!Register!Read, R!Seen, RP!Seen

\* Each step of a thread is a step of the shared object, or leaves it alone.
LEMMA StepOfRCU ==
    ASSUME m_local_report_state' \in [last_report : Reports, stats : ReportStats],
           [Next]_vars
    PROVE  [RP!Next]_(RP!rcuVars)
<1> USE DEF RP!rcuVars, RP!Next
<1>1. CASE ConsumeRtcpPacket
  BY <1>1, SameObject DEF ConsumeRtcpPacket
<1>2. CASE UpdateReport
  BY <1>2, SameObject DEF UpdateReport, reportVars
<1>3. CASE NotifyDataFrame
  BY <1>3, SameObject DEF NotifyDataFrame, reportVars
<1>4. CASE CopyReport
  BY <1>4, SameObject DEF CopyReport, reportVars
<1>5. CASE ReadReport
  BY <1>5, SameObject DEF ReadReport, reportVars
<1>6. CASE PrintReport
  BY <1>6, SameObject DEF PrintReport, reportVars
<1>7. CASE \/ SendReport \/ SendFrame \/ PollReports \/ RaiseReportFlag
           \/ UpdateClock \/ CheckReport \/ UNCHANGED vars
  BY <1>7 DEF SendReport, SendFrame, PollReports, RaiseReportFlag, UpdateClock, CheckReport,
              vars, reportVars
<1> QED
  BY <1>1, <1>2, <1>3, <1>4, <1>5, <1>6, <1>7 DEF Next, RtcpThread, DataThread, MainThread

\* The shared report state gives the RTP thread and the main thread whole
\* reports, for any number of fields, losses and changes of the stream
\* information, and any ring of versions that keeps the pace.
THEOREM TrackerReadsAtomic == Spec => ReportsAreAtomic
<1>1. RP!RCUConstants
  BY TrackerAssumption, SameObject
<1>2. Spec => []TrackerInv
  BY InitTracker, TrackerStep, PTL DEF Spec
<1>3. Init => RP!Init
  BY SameObject DEF Init
<1>4. TrackerInv => HoldsValue
  BY StateIsValue
<1>5. HoldsValue' /\ [Next]_vars => [RP!Next]_(RP!rcuVars)
  BY StepOfRCU DEF HoldsValue
<1>6. Spec => RP!Spec
  BY <1>2, <1>3, <1>4, <1>5, PTL DEF Spec, RP!Spec
<1>7. RP!Spec => RP!ReadsAreAtomic
  BY <1>1, RP!ReadsAtomic
<1>8. RP!ReadsAreAtomic => ReportsAreAtomic
  <2>1. RP!Register!Init => R!Register!Init
    BY SameRegister
  <2>2. [RP!Register!Next]_(RP!Register!registerVars)
            => [R!Register!Next]_(R!Register!registerVars)
    BY SameRegister
  <2>3. RP!ReadsAreAtomic => R!ReadsAreAtomic
    BY <2>1, <2>2, PTL DEF RP!ReadsAreAtomic, R!ReadsAreAtomic,
                           RP!Register!Spec, R!Register!Spec
  <2> QED
    BY <2>3 DEF ReportsAreAtomic
<1> QED
  BY <1>6, <1>7, <1>8, PTL

-----------------------------------------------------------------------------
(* The steps of the threads as steps of the register                       *)

Shared == rBuffer[rIndex]
Shown == RP!Seen("main")     \* what the main thread read last
Heard == RP!Seen("data")     \* what the RTP thread read last

ObjectInv == TrackerInv /\ RP!IInv

\* The shared object keeps its own invariant.
LEMMA ObjectHolds ==
    /\ RP!RCUConstants
    /\ Init => ObjectInv
    /\ ObjectInv /\ [Next]_vars => ObjectInv'
<1>1. RP!RCUConstants
  BY TrackerAssumption, SameObject
<1>2. Init => ObjectInv
  BY <1>1, InitTracker, SameObject, RP!InitInv DEF Init, ObjectInv
<1>3. ASSUME ObjectInv, [Next]_vars PROVE ObjectInv'
  <2>1. TrackerInv'
    BY <1>3, TrackerStep DEF ObjectInv
  <2>2. HoldsValue'
    BY <2>1, NextIsValue
  <2>3. [RP!Next]_(RP!rcuVars)
    BY <1>3, <2>2, StepOfRCU DEF HoldsValue
  <2> QED
    BY <1>1, <1>3, <2>1, <2>3, RP!NextInv DEF ObjectInv
<1> QED
  BY <1>1, <1>2, <1>3

\* consume_rtcp_packet hands its state to update().
LEMMA ConsumeHands ==
    ASSUME ObjectInv, ObjectInv', ConsumeRtcpPacket
    PROVE  /\ rUpdate'.value = m_local_report_state'
           /\ Shared' = Shared /\ Shown' = Shown /\ Heard' = Heard
<1>1. m_local_report_state' \in [last_report : Reports, stats : ReportStats]
  BY NextIsValue DEF ObjectInv, HoldsValue
<1>2. RP!BeginUpdate(m_local_report_state')
  BY SameObject DEF ConsumeRtcpPacket
<1> QED
  BY <1>1, <1>2, RP!BeginUpdateHands DEF RP!ValueStays, RP!SeenStays, Shared, Shown, Heard

\* The shared state changes at one step of update().
LEMMA UpdateUpdates ==
    ASSUME ObjectInv, UpdateReport
    PROVE  /\ rUpdate'.value = rUpdate.value
           /\ Shown' = Shown /\ Heard' = Heard
           /\ \/ rtcp' = "update" /\ Shared' = Shared
              \/ rtcp' = "flag" /\ Shared' = rUpdate.value
<1> USE ObjectHolds DEF RP!ValueStays, RP!SeenStays, Shared, Shown, Heard, ObjectInv
<1>1. CASE rtcp' = rtcp /\ \E p \in {"last_report", "stats"} : R!StorePart(p)
  <2>1. PICK p \in {"last_report", "stats"} : RP!StorePart(p)
    BY <1>1, SameObject
  <2> QED
    BY <1>1, <2>1, RP!StorePartHidden DEF UpdateReport
<1>2. CASE rtcp' = "flag" /\ R!Publish
  BY <1>2, SameObject, RP!PublishUpdates
<1> QED
  BY <1>1, <1>2 DEF UpdateReport

\* notify_data_frame reads.
LEMMA NotifyReads ==
    ASSUME ObjectInv, NotifyDataFrame
    PROVE  /\ rUpdate' = rUpdate /\ Shared' = Shared
           /\ Heard' = Shared /\ Shown' = Shown
BY ObjectHolds, SameObject, RP!ReadReads
   DEF NotifyDataFrame, RP!ValueStays, Shared, Shown, Heard, ObjectInv

\* So does the main thread after a flag that was up.
LEMMA ReportReads ==
    ASSUME ObjectInv, ReadReport
    PROVE  /\ rUpdate' = rUpdate /\ Shared' = Shared
           /\ Shown' = Shared /\ Heard' = Heard
BY ObjectHolds, SameObject, RP!ReadReads
   DEF ReadReport, RP!ValueStays, Shared, Shown, Heard, ObjectInv

\* All other steps leave the register alone.
Aside == \/ SendReport \/ SendFrame \/ PollReports \/ RaiseReportFlag
         \/ CopyReport \/ UpdateClock \/ CheckReport \/ PrintReport \/ UNCHANGED vars

LEMMA AsideHidden ==
    ASSUME ObjectInv, Aside
    PROVE  /\ rUpdate' = rUpdate /\ Shared' = Shared
           /\ Shown' = Shown /\ Heard' = Heard
<1> USE DEF RP!ValueStays, RP!SeenStays, Shared, Shown, Heard
<1>1. CASE UNCHANGED reportVars
  BY <1>1, RP!StutterHidden DEF reportVars, RP!rcuVars
<1>2. CASE \E r \in {"data", "main"}, p \in {"last_report", "stats"} : R!CopyPart(r, p)
  <2>1. PICK r \in {"data", "main"}, p \in {"last_report", "stats"} : RP!CopyPart(r, p)
    BY <1>2, SameObject
  <2> QED
    BY <2>1, ObjectHolds, RP!CopyPartHidden DEF ObjectInv
<1> QED
  BY <1>1, <1>2 DEF Aside, SendReport, SendFrame, PollReports, RaiseReportFlag, CopyReport,
                    UpdateClock, PrintReport, CheckReport, vars, mainVars

\* Which steps there are.
LEMMA RegisterSteps ==
    ASSUME [Next]_vars
    PROVE  \/ ConsumeRtcpPacket \/ UpdateReport \/ NotifyDataFrame
           \/ ReadReport \/ Aside
BY DEF Next, RtcpThread, DataThread, MainThread, Aside

\* A reader that copied everything has what it is taken to see.
LEMMA CopiedIsSeen ==
    ASSUME NEW r \in {"data", "main"}, ~R!Copying(r)
    PROVE  /\ RP!Seen(r).last_report = rCopy[r].got.last_report
           /\ RP!Seen(r).stats = rCopy[r].got.stats
BY DEF RP!Seen, R!Copying

-----------------------------------------------------------------------------
(* Every state of the register is one the RTCP thread made                 *)

\* A state with a valid report has one.
Whole(state) ==
    /\ state.last_report \in Reports
    /\ state.stats.is_last_report_valid => state.last_report # NoReport

AllWhole ==
    /\ Whole(m_local_report_state) /\ Whole(rUpdate.value)
    /\ Whole(Shared) /\ Whole(Shown) /\ Whole(Heard)

\* A report of a field is a report.
LEMMA ReportFacts ==
    ASSUME NEW f \in Fields
    PROVE  ReportOf(f) \in Reports /\ ReportOf(f) # NoReport /\ ReportOf(f).id = f
<1>1. f # 0
  BY TrackerAssumption DEF Fields
<1> QED
  BY <1>1 DEF Reports, ReportOf, NoReport

\* What is consumed is a packet.
LEMMA HeadOfChunk ==
    ASSUME ObjectInv, ConsumeRtcpPacket
    PROVE  Head(rtcpChunk) \in Packets
<1>1. rtcpChunk \in Seq(Packets) /\ rtcpChunk # <<>>
  BY DEF ObjectInv, TrackerInv, TypesOK, ConsumeRtcpPacket
<1> QED
  BY <1>1

LEMMA WholeStep ==
    ASSUME ObjectInv, ObjectInv', AllWhole, [Next]_vars
    PROVE  AllWhole'
<1> USE DEF AllWhole
<1>1. ASSUME m_local_report_state' = m_local_report_state
      PROVE  Whole(m_local_report_state)'
  BY <1>1 DEF Whole
<1>2. CASE ConsumeRtcpPacket
  <2>1. Head(rtcpChunk) \in Packets
    BY <1>2, HeadOfChunk
  <2>2. Head(rtcpChunk).id \in Fields
    BY <2>1 DEF Packets
  <2>3. m_local_report_state' = Received(m_local_report_state, Head(rtcpChunk))
    BY <1>2 DEF ConsumeRtcpPacket
  <2>4. Whole(Received(m_local_report_state, Head(rtcpChunk)))
    BY <2>2, ReportFacts DEF Whole, Received
  <2>5. Whole(m_local_report_state)'
    BY <2>3, <2>4 DEF Whole
  <2> QED
    BY <1>2, <2>5, ConsumeHands DEF Whole
<1>3. CASE UpdateReport
  <2>1. m_local_report_state' = m_local_report_state
    BY <1>3 DEF UpdateReport
  <2> QED
    BY <1>3, <2>1, UpdateUpdates DEF Whole
<1>4. CASE NotifyDataFrame
  <2>1. m_local_report_state' = m_local_report_state
    BY <1>4 DEF NotifyDataFrame, rtcpVars
  <2> QED
    BY <1>4, <2>1, NotifyReads DEF Whole
<1>5. CASE ReadReport
  <2>1. m_local_report_state' = m_local_report_state
    BY <1>5 DEF ReadReport, rtcpVars
  <2> QED
    BY <1>5, <2>1, ReportReads DEF Whole
<1>6. CASE Aside
  <2>1. m_local_report_state' = m_local_report_state
    BY <1>6 DEF Aside, SendReport, SendFrame, PollReports, RaiseReportFlag, CopyReport,
                UpdateClock, PrintReport, CheckReport, vars, rtcpVars
  <2> QED
    BY <1>6, <2>1, AsideHidden DEF Whole
<1> QED
  BY <1>2, <1>3, <1>4, <1>5, <1>6, RegisterSteps

LEMMA InitWhole == Init => AllWhole
<1> SUFFICES ASSUME Init PROVE AllWhole
  OBVIOUS
<1>1. /\ m_local_report_state = NoReportState /\ rUpdate.value = NoReportState
      /\ Shared = NoReportState
  BY TrackerAssumption DEF Init, R!Init, R!Versions, R!RCUConstants, Shared
<1>2. \A r \in {"data", "main"} : /\ ~R!Copying(r)
                                 /\ rCopy[r].got = NoReportState
  BY DEF Init, R!Init, R!Copying
<1>3. Whole(NoReportState)
  BY DEF Whole, NoReportState, Reports
<1>4. Whole(Shown) /\ Whole(Heard)
  BY <1>2, <1>3, CopiedIsSeen DEF Whole, Shown, Heard
<1> QED
  BY <1>1, <1>3, <1>4 DEF AllWhole

-----------------------------------------------------------------------------
(* No news are lost                                                        *)

\* How new the stream information of a report is; that of none is the oldest.
Rank(report) == IF report = NoReport THEN -1 ELSE report.info_block_version

\* What the main thread printed, or is about to read and print.
Known == IF main = "read" THEN Rank(Shared.last_report)
         ELSE IF main = "report" THEN Rank(Shown.last_report)
         ELSE IF printed = 0 THEN -1 ELSE ReportOf(printed).info_block_version

\* Without news, an update may be under way or not: what the main thread would
\* read has the same stream information.  With the flag down, and no thread on
\* the way to raise it, the main thread knows it already.
NewsInv ==
    /\ rtcp \in {"idle", "update", "flag"} /\ main \in {"idle", "read", "report"}
    /\ news \in BOOLEAN /\ m_new_report_version_available \in BOOLEAN
    /\ rtcp = "update" => rUpdate.value = m_local_report_state
    /\ rtcp # "update" => Shared = m_local_report_state
    /\ ~news => Rank(Shared.last_report) = Rank(m_local_report_state.last_report)
    /\ ~m_new_report_version_available /\ (rtcp = "idle" \/ ~news)
           => Known = Rank(m_local_report_state.last_report)

\* A report that is no news has the stream information of the one before.
LEMMA NoNews ==
    ASSUME NEW state, Whole(state), NEW packet \in Packets,
           ~IsNews(state, Received(state, packet))
    PROVE  Rank(Received(state, packet).last_report) = Rank(state.last_report)
<1> DEFINE report == ReportOf(packet.id)
<1>1. CASE ~packet.fits
  BY <1>1 DEF Received
<1>2. CASE packet.fits
  <2>1. packet.id \in Fields
    BY DEF Packets
  <2>2. report # NoReport
    BY <2>1, ReportFacts
  <2>3. /\ Received(state, packet).last_report = report
        /\ Received(state, packet).stats.is_last_report_valid
    BY <1>2 DEF Received
  <2>4. /\ state.stats.is_last_report_valid
        /\ report.info_block_version = state.last_report.info_block_version
    BY <2>3 DEF IsNews
  <2> QED
    BY <2>2, <2>3, <2>4 DEF Rank, Whole
<1> QED
  BY <1>1, <1>2

\* What is printed is as new as its number says.
LEMMA PrintedRank ==
    ASSUME NEW report \in Reports
    PROVE  Rank(report) = IF report.id = 0 THEN -1 ELSE ReportOf(report.id).info_block_version
<1>1. CASE report = NoReport
  BY <1>1 DEF Rank, NoReport
<1>2. CASE report # NoReport
  <2>1. PICK f \in Fields : report = ReportOf(f)
    BY <1>2 DEF Reports
  <2>2. report.id = f /\ f # 0
    BY <2>1, ReportFacts, TrackerAssumption DEF Fields
  <2> QED
    BY <1>2, <2>1, <2>2 DEF Rank
<1> QED
  BY <1>1, <1>2

LEMMA InitNews == Init => NewsInv
<1> SUFFICES ASSUME Init PROVE NewsInv
  OBVIOUS
<1>1. m_local_report_state = NoReportState /\ Shared = NoReportState
  BY TrackerAssumption DEF Init, R!Init, R!Versions, R!RCUConstants, Shared
<1>2. Rank(NoReportState.last_report) = -1
  BY DEF Rank, NoReportState
<1> QED
  BY <1>1, <1>2 DEF Init, NewsInv, Known

LEMMA NewsStep ==
    ASSUME ObjectInv, ObjectInv', AllWhole, NewsInv, [Next]_vars
    PROVE  NewsInv'
<1>1. CASE ConsumeRtcpPacket
  <2> DEFINE old == m_local_report_state
             new == Received(m_local_report_state, Head(rtcpChunk))
  <2>1. /\ m_local_report_state' = new /\ news' = IsNews(old, new)
        /\ rtcp = "idle" /\ rtcp' = "update"
        /\ main' = main /\ printed' = printed
        /\ m_new_report_version_available' = m_new_report_version_available
    BY <1>1 DEF ConsumeRtcpPacket, mainVars
  <2>2. Head(rtcpChunk) \in Packets
    BY <1>1, HeadOfChunk
  <2>3. ~IsNews(old, new) => Rank(new.last_report) = Rank(old.last_report)
    BY <2>2, NoNews DEF AllWhole
  <2>4. IsNews(old, new) \in BOOLEAN
    BY DEF IsNews
  <2>5. rUpdate'.value = m_local_report_state' /\ Shared' = Shared /\ Shown' = Shown
    BY <1>1, ConsumeHands
  <2>6. Known' = Known
    BY <2>1, <2>5 DEF Known
  <2> HIDE DEF old, new
  <2>7. Shared = old
    BY <2>1 DEF NewsInv, old
  <2>8. ~news' => Rank(Shared'.last_report) = Rank(m_local_report_state'.last_report)
    BY <2>1, <2>3, <2>5, <2>7
  <2>9. ~m_new_report_version_available /\ ~news' => Known' = Rank(m_local_report_state'.last_report)
    BY <2>1, <2>3, <2>6 DEF NewsInv, old
  <2> QED
    BY <2>1, <2>4, <2>5, <2>8, <2>9 DEF NewsInv
<1>2. CASE UpdateReport
  <2>1. /\ rtcp = "update"
        /\ m_local_report_state' = m_local_report_state /\ news' = news
        /\ main' = main /\ printed' = printed
        /\ m_new_report_version_available' = m_new_report_version_available
    BY <1>2 DEF UpdateReport, mainVars
  <2>2. /\ rUpdate'.value = rUpdate.value /\ Shown' = Shown
        /\ \/ rtcp' = "update" /\ Shared' = Shared
           \/ rtcp' = "flag" /\ Shared' = rUpdate.value
    BY <1>2, UpdateUpdates
  <2>3. ~news => Rank(Shared'.last_report) = Rank(m_local_report_state.last_report)
    BY <2>1, <2>2 DEF NewsInv
  <2>4. Known' = IF main = "read" THEN Rank(Shared'.last_report) ELSE Known
    BY <2>1, <2>2 DEF Known
  <2>5. ~m_new_report_version_available /\ ~news
            => Known' = Rank(m_local_report_state.last_report)
    BY <2>3, <2>4 DEF NewsInv
  <2> QED
    BY <2>1, <2>2, <2>3, <2>5 DEF NewsInv
<1>3. CASE RaiseReportFlag
  <2>1. rUpdate' = rUpdate /\ Shared' = Shared /\ Shown' = Shown
    BY <1>3, AsideHidden DEF Aside
  <2>2. /\ rtcp = "flag" /\ rtcp' = "idle"
        /\ m_local_report_state' = m_local_report_state /\ news' = news
        /\ main' = main /\ printed' = printed
        /\ m_new_report_version_available' = (m_new_report_version_available \/ news)
    BY <1>3 DEF RaiseReportFlag, mainVars
  <2>3. Known' = Known
    BY <2>1, <2>2 DEF Known
  <2> QED
    BY <2>1, <2>2, <2>3 DEF NewsInv
<1>4. CASE CheckReport
  <2>1. /\ rtcp' = rtcp /\ m_local_report_state' = m_local_report_state /\ news' = news
        /\ main = "idle" /\ printed' = printed /\ ~m_new_report_version_available'
        /\ m_new_report_version_available' \in BOOLEAN
    BY <1>4 DEF CheckReport, rtcpVars
  <2>2. rUpdate' = rUpdate /\ Shared' = Shared /\ Shown' = Shown
    BY <1>4, AsideHidden DEF Aside
  <2>3. CASE m_new_report_version_available
    <3>1. main' = "read"
      BY <1>4, <2>3 DEF CheckReport
    <3>2. Known' = Rank(Shared.last_report)
      BY <2>2, <3>1 DEF Known
    <3> QED
      BY <2>1, <2>2, <3>1, <3>2 DEF NewsInv
  <2>4. CASE ~m_new_report_version_available
    <3>1. main' = main
      BY <1>4, <2>1, <2>4 DEF CheckReport
    <3>2. Known' = Known
      BY <2>1, <2>2, <3>1 DEF Known
    <3> QED
      BY <2>1, <2>2, <2>4, <3>1, <3>2 DEF NewsInv
  <2> QED
    BY <2>3, <2>4
<1>7. CASE ReadReport
  <2>1. rUpdate' = rUpdate /\ Shared' = Shared /\ Shown' = Shared
    BY <1>7, ReportReads
  <2>2. /\ rtcp' = rtcp /\ m_local_report_state' = m_local_report_state /\ news' = news
        /\ m_new_report_version_available' = m_new_report_version_available
        /\ main = "read" /\ main' = "report"
    BY <1>7 DEF ReadReport, rtcpVars
  <2>3. Known' = Known
    BY <2>1, <2>2 DEF Known
  <2> QED
    BY <2>1, <2>2, <2>3 DEF NewsInv
<1>5. CASE PrintReport
  <2>1. rUpdate' = rUpdate /\ Shared' = Shared /\ Shown' = Shown
    BY <1>5, AsideHidden DEF Aside
  <2>2. /\ rtcp' = rtcp /\ m_local_report_state' = m_local_report_state /\ news' = news
        /\ m_new_report_version_available' = m_new_report_version_available
        /\ main = "report"
    BY <1>5 DEF PrintReport, rtcpVars
  <2>3. main' \in {"idle", "report"} /\ Known' = Known
    <3>1. CASE UNCHANGED mainVars
      BY <2>1, <2>2, <3>1 DEF Known, mainVars
    <3>2. CASE /\ ~R!Copying("main") /\ main' = "idle"
               /\ printed' = rCopy["main"].got.last_report.id
      <4>1. printed' = Shown.last_report.id
        BY <3>2, CopiedIsSeen DEF Shown
      <4>2. Shown.last_report \in Reports
        BY DEF AllWhole, Whole
      <4> QED
        BY <2>2, <3>2, <4>1, <4>2, PrintedRank DEF Known, ReportOf, RtpOf
    <3> QED
      BY <1>5, <3>1, <3>2 DEF PrintReport
  <2> QED
    BY <2>1, <2>2, <2>3 DEF NewsInv
<1>6. CASE \/ SendReport \/ SendFrame \/ PollReports
           \/ NotifyDataFrame \/ CopyReport \/ UpdateClock \/ UNCHANGED vars
  <2>1. rUpdate' = rUpdate /\ Shared' = Shared /\ Shown' = Shown
    BY <1>6, AsideHidden, NotifyReads DEF Aside
  <2>2. /\ rtcp' = rtcp /\ m_local_report_state' = m_local_report_state /\ news' = news
        /\ main' = main /\ printed' = printed
        /\ m_new_report_version_available' = m_new_report_version_available
    BY <1>6 DEF SendReport, SendFrame, PollReports, NotifyDataFrame, CopyReport, UpdateClock,
                vars, rtcpVars, mainVars
  <2>3. Known' = Known
    BY <2>1, <2>2 DEF Known
  <2> QED
    BY <2>1, <2>2, <2>3 DEF NewsInv
<1> QED
  BY <1>1, <1>2, <1>3, <1>4, <1>5, <1>6, <1>7 DEF Next, RtcpThread, DataThread, MainThread

\* Versions of the stream information are counted from 0.
LEMMA VersionType ==
    ASSUME NEW f \in Fields
    PROVE  ReportOf(f).info_block_version \in Nat
<1> DEFINE changes == {n \in InfoChanges : n <= f}
<1>1. MaxFields \in Nat /\ changes \subseteq 1..MaxFields
  BY TrackerAssumption DEF Fields
<1>2. IsFiniteSet(1..MaxFields)
  BY <1>1, FS_Interval
<1>3. IsFiniteSet(changes)
  BY <1>1, <1>2, FS_Subset
<1>4. Cardinality(changes) \in Nat
  BY <1>3, FS_CardinalityType
<1> QED
  BY <1>4 DEF ReportOf

\* For any number of fields, losses, refused reports and changes of the stream
\* information, and any ring of versions that keeps the pace: when neither thread
\* is between its steps and the flag is down, nothing consumed is newer than what
\* was printed.
THEOREM NoNewsAreLost == Spec => []NewsNotLost
<1>1. Spec => [](ObjectInv /\ AllWhole /\ NewsInv)
  BY ObjectHolds, InitWhole, WholeStep, InitNews, NewsStep, PTL DEF Spec
<1>2. ObjectInv /\ AllWhole /\ NewsInv => NewsNotLost
  <2> SUFFICES ASSUME AllWhole, NewsInv,
                      rtcp = "idle", main = "idle", ~m_new_report_version_available,
                      m_local_report_state.last_report # NoReport
               PROVE  /\ printed # 0
                      /\ ReportOf(printed).info_block_version
                             >= m_local_report_state.last_report.info_block_version
    BY DEF NewsNotLost
  <2>1. PICK f \in Fields : m_local_report_state.last_report = ReportOf(f)
    BY DEF AllWhole, Whole, Reports
  <2>2. ReportOf(f).info_block_version \in Nat
    BY VersionType
  <2>3. Known = ReportOf(f).info_block_version
    BY <2>1 DEF NewsInv, Rank
  <2> DEFINE v == ReportOf(printed).info_block_version
  <2>4. Known = IF printed = 0 THEN -1 ELSE v
    BY DEF Known
  <2> HIDE DEF v
  <2>5. printed # 0 /\ v = ReportOf(f).info_block_version
    BY <2>2, <2>3, <2>4
  <2> QED
    BY <2>1, <2>2, <2>5 DEF v
<1> QED
  BY <1>1, <1>2, PTL

-----------------------------------------------------------------------------
(* Frames meet their reports                                               *)

\* The first remainders.
LEMMA HalfRemainder ==
    ASSUME NEW h \in Nat \ {0}, NEW a \in 0..(2 * h - 1)
    PROVE  a % h = IF a < h THEN a ELSE a - h
<1>1. CASE a < h
  BY <1>1, SmallRemainder
<1>2. CASE a >= h
  <2> DEFINE c == a - h
  <2>1. c \in 0..(h - 1) /\ c \in Int /\ a = c + h
    BY <1>2
  <2> HIDE DEF c
  <2>2. c % h = c
    BY <2>1, SmallRemainder
  <2>3. a % h = c % h
    BY <2>1, OnceRound, Zenon
  <2> QED
    BY <1>2, <2>1, <2>2, <2>3
<1> QED
  BY <1>1, <1>2

\* IsBefore tells the order of timestamps that are less than half the range
\* apart, wherever the range wraps.
LEMMA BeforeIsAhead ==
    ASSUME NEW a \in 0..(RtpMod - 1), NEW d \in Nat, 2 * d < RtpMod
    PROVE  /\ d > 0 => IsBefore(a, (a + d) % RtpMod)
           /\ ~IsBefore((a + d) % RtpMod, a)
<1>1. PICK h \in Nat : RtpMod = 2 * h
  <2>1. RtpMod \in Nat /\ RtpMod % 2 = 0
    BY TrackerAssumption
  <2>2. RtpMod \div 2 \in Nat /\ RtpMod = (RtpMod \div 2) * 2 + (RtpMod % 2)
    BY <2>1, NaturalParts
  <2> QED
    BY <2>1, <2>2
<1> DEFINE b == IF a + d < RtpMod THEN a + d ELSE a + d - RtpMod
<1>2. RtpMod \in Nat \ {0} /\ h \in Nat \ {0} /\ a \in 0..(2 * h - 1) /\ d < h
  BY <1>1
<1>3. b \in 0..(2 * h - 1)
  BY <1>1, <1>2
<1>4. (a + d) % RtpMod = b
  <2> DEFINE c == a + d
  <2>1. b % RtpMod = b
    BY <1>1, <1>2, <1>3, SmallRemainder
  <2>2. (c = b \/ c = b + RtpMod) /\ b \in Int /\ RtpMod \in Nat \ {0}
    BY <1>2, <1>3
  <2> HIDE DEF b, c
  <2>3. c % RtpMod = b % RtpMod
    BY <2>2, OnceRound, Zenon
  <2> QED
    BY <2>1, <2>3 DEF c
<1>5. RtpMod \div 2 = h
  <2>1. (h * 2 + 0) \div 2 = h
    BY <1>2, PartsUnique
  <2> QED
    BY <1>1, <2>1
<1>6. /\ a % h = IF a < h THEN a ELSE a - h
      /\ b % h = IF b < h THEN b ELSE b - h
  BY <1>2, <1>3, HalfRemainder
<1>7. b = IF a + d < 2 * h THEN a + d ELSE a + d - 2 * h
  BY <1>1
<1> HIDE DEF b
<1>8. /\ IsBefore(a, b) <=> \/ (a >= h) = (b >= h) /\ a < b
                            \/ (a >= h) # (b >= h) /\ a % h > b % h
      /\ IsBefore(b, a) <=> \/ (b >= h) = (a >= h) /\ b < a
                            \/ (b >= h) # (a >= h) /\ b % h > a % h
  BY <1>5 DEF IsBefore
<1>9. (d > 0 => IsBefore(a, b)) /\ ~IsBefore(b, a)
  <2> DEFINE u == a % h
             v == b % h
  <2>1. /\ u = IF a < h THEN a ELSE a - h
        /\ v = IF b < h THEN b ELSE b - h
        /\ IsBefore(a, b) <=> \/ (a >= h) = (b >= h) /\ a < b
                              \/ (a >= h) # (b >= h) /\ u > v
        /\ IsBefore(b, a) <=> \/ (b >= h) = (a >= h) /\ b < a
                              \/ (b >= h) # (a >= h) /\ v > u
    BY <1>6, <1>8
  <2> HIDE DEF u, v
  <2> QED
    BY <1>2, <1>3, <1>7, <2>1
<1> QED
  BY <1>4, <1>9

\* Timestamps of an earlier and a later field.
LEMMA FieldDistance ==
    ASSUME NEW f \in Fields, NEW g \in Fields, f <= g
    PROVE  LET d == (g - f) * TicksPerField
           IN  /\ RtpOf(f) \in 0..(RtpMod - 1) /\ d \in Nat /\ 2 * d < RtpMod
               /\ RtpOf(g) = (RtpOf(f) + d) % RtpMod
               /\ f < g => d > 0
<1> DEFINE T == TicksPerField
           k == g - f
           d == k * T
           u == FirstRtp + f * T
           q == u \div RtpMod
           a == u % RtpMod
           n == MaxFields - 1
<1>1. /\ MaxFields \in Nat \ {0} /\ T \in Nat \ {0} /\ RtpMod \in Nat \ {0}
      /\ FirstRtp \in Nat /\ 2 * n * T < RtpMod
  BY TrackerAssumption
<1>2. f \in Nat /\ g \in Nat /\ k \in Nat /\ k <= n /\ n \in Nat /\ g = f + k
  BY <1>1 DEF Fields
<1> HIDE DEF k, n, T
<1>3. /\ f * T \in Int /\ k * T \in Int /\ n * T \in Int /\ g * T = f * T + k * T
      /\ (n + n) * T = n * T + n * T
      /\ k + 1 <= n => k * T + T <= n * T
      /\ 0 * T = 0
      /\ 0 + 1 <= k => 0 * T + T <= k * T
  BY <1>1, <1>2, Products
<1>4. d \in Nat /\ (f < g => d > 0) /\ d <= n * T
  BY <1>1, <1>2, <1>3
<1>5. 2 * d < RtpMod
  <2>1. 2 * n = n + n
    BY <1>2
  <2>2. 2 * n * T = n * T + n * T
    BY <1>3, <2>1
  <2> QED
    BY <1>1, <1>3, <1>4, <2>2
<1>6. u \in Int /\ FirstRtp + g * T = u + d
  BY <1>1, <1>3
<1> HIDE DEF d, u
<1>7. q \in Int /\ a \in 0..(RtpMod - 1) /\ u = q * RtpMod + a
  BY <1>1, <1>6, Parts
<1> HIDE DEF q, a
<1>8. q * RtpMod \in Int
  BY <1>1, <1>7, Products
<1>9. (u + d) % RtpMod = (a + d) % RtpMod
  <2> DEFINE c == a + d
  <2>1. c \in Int /\ u + d = c + q * RtpMod
    BY <1>4, <1>7, <1>8
  <2> HIDE DEF c
  <2>2. (c + q * RtpMod) % RtpMod = c % RtpMod
    BY <1>1, <1>7, <2>1, MultipleVanishes
  <2> QED
    BY <2>1, <2>2 DEF c
<1>10. RtpOf(f) = a /\ RtpOf(g) = (u + d) % RtpMod
  BY <1>6 DEF RtpOf, a, u, T
<1> QED
  BY <1>4, <1>5, <1>7, <1>9, <1>10 DEF d, k, T

\* A field is before another exactly when its timestamp is.
LEMMA BeforeIsEarlier ==
    ASSUME NEW f \in Fields, NEW g \in Fields
    PROVE  IsBefore(RtpOf(f), RtpOf(g)) <=> f < g
<1>1. f \in Int /\ g \in Int
  BY DEF Fields
<1>2. CASE f < g
  BY <1>1, <1>2, FieldDistance, BeforeIsAhead
<1>3. CASE g <= f
  BY <1>1, <1>3, FieldDistance, BeforeIsAhead
<1> QED
  BY <1>1, <1>2, <1>3

\* What the RTP thread has in hand.
ClockStats == [frames_received : Nat, frames_missing_send_report : Nat,
               frames_bad_rtp_time : Nat]

FramesInv ==
    /\ frameQueue \in Seq(Fields)
    /\ data = "read" => frame \in Fields
    /\ m_local_clock_state.stats \in ClockStats

LEMMA InitFrames == Init => FramesInv
BY DEF Init, FramesInv, ClockStats, NoClockState

Verdicts == {"frames_received", "frames_missing_send_report", "frames_bad_rtp_time"}

\* A frame is judged in one of three ways.
LEMMA JudgeVerdict ==
    ASSUME NEW state, NEW rtp
    PROVE  Judge(state, rtp) \in Verdicts
BY DEF Judge, Verdicts

LEMMA ClockCounts ==
    ASSUME NEW stats \in ClockStats, NEW is \in Verdicts
    PROVE  LET after == [stats EXCEPT ![is] = @ + 1]
           IN  /\ after \in ClockStats
               /\ after[is] # stats[is]
               /\ \A c \in Verdicts \ {is} : after[c] = stats[c]
BY DEF ClockStats, Verdicts

LEMMA FramesStep ==
    ASSUME TrackerInv, FramesInv, [Next]_vars
    PROVE  FramesInv'
<1> USE DEF FramesInv
<1>1. CASE SendFrame
  <2>1. sending.field \in Fields
    BY <1>1 DEF SendFrame, TrackerInv, TypesOK, Fields
  <2>2. frameQueue' \in Seq(Fields)
    BY <1>1, <2>1 DEF SendFrame
  <2> QED
    BY <1>1, <2>2 DEF SendFrame, dataVars
<1>2. CASE NotifyDataFrame
  <2>1. frameQueue \in Seq(Fields) /\ frameQueue # <<>>
    BY <1>2 DEF NotifyDataFrame
  <2>2. Head(frameQueue) \in Fields /\ Tail(frameQueue) \in Seq(Fields)
    BY <2>1
  <2> QED
    BY <1>2, <2>2 DEF NotifyDataFrame
<1>3. CASE UpdateClock
  <2> DEFINE is == Judge(rCopy["data"].got, RtpOf(frame))
             stats == m_local_clock_state.stats
  <2>1. m_local_clock_state'.stats = [stats EXCEPT ![is] = @ + 1]
    BY <1>3 DEF UpdateClock
  <2>2. is \in Verdicts
    BY JudgeVerdict
  <2>3. stats \in ClockStats
    OBVIOUS
  <2> HIDE DEF is, stats
  <2>5. m_local_clock_state'.stats \in ClockStats
    BY <2>1, <2>2, <2>3, ClockCounts
  <2>4. frameQueue' = frameQueue /\ data' = "idle"
    BY <1>3 DEF UpdateClock, netVars
  <2> QED
    BY <2>4, <2>5
<1>4. CASE \/ SendReport \/ PollReports \/ ConsumeRtcpPacket \/ UpdateReport \/ RaiseReportFlag
           \/ CopyReport \/ MainThread \/ UNCHANGED vars
  BY <1>4 DEF MainThread, SendReport, PollReports, ConsumeRtcpPacket, UpdateReport, RaiseReportFlag,
              CopyReport, CheckReport, ReadReport, PrintReport, vars, netVars, dataVars
<1> QED
  BY <1>1, <1>2, <1>3, <1>4 DEF Next, RtcpThread, DataThread, MainThread

\* The verdict on a frame says how its field lies to that of the report.
LEMMA JudgeMatches ==
    ASSUME NEW state, Whole(state), NEW f \in Fields
    PROVE  LET is == Judge(state, RtpOf(f))
               valid == state.stats.is_last_report_valid
               id == state.last_report.id
           IN  /\ is = "frames_received" => valid /\ id = f
               /\ is = "frames_missing_send_report" => ~valid \/ id < f
               /\ is = "frames_bad_rtp_time" => valid /\ id > f
<1>1. CASE ~state.stats.is_last_report_valid
  BY <1>1 DEF Judge
<1>2. CASE state.stats.is_last_report_valid
  <2>1. PICK g \in Fields : state.last_report = ReportOf(g)
    BY <1>2 DEF Whole, Reports
  <2>2. state.last_report.id = g /\ state.last_report.rtp = RtpOf(g)
    BY <2>1 DEF ReportOf
  <2>3. /\ IsBefore(RtpOf(f), RtpOf(g)) <=> f < g
        /\ IsBefore(RtpOf(g), RtpOf(f)) <=> g < f
    BY BeforeIsEarlier
  <2>4. f \in Int /\ g \in Int
    BY DEF Fields
  <2> QED
    BY <1>2, <2>2, <2>3, <2>4 DEF Judge
<1> QED
  BY <1>1, <1>2

\* For any number of fields within half the range of timestamps, wherever these
\* wrap, and whatever is lost, refused or overtaken: a frame is used exactly with
\* its own report, and the other counts say truly why it was not.
THEOREM FramesMeetReports == Spec => FramesMatched
<1>1. Spec => [](ObjectInv /\ AllWhole /\ FramesInv)
  <2>1. Init => ObjectInv /\ AllWhole /\ FramesInv
    BY ObjectHolds, InitWhole, InitFrames
  <2>2. ASSUME ObjectInv, AllWhole, FramesInv, [Next]_vars
        PROVE  ObjectInv' /\ AllWhole' /\ FramesInv'
    BY <2>2, ObjectHolds, WholeStep, FramesStep DEF ObjectInv
  <2> QED
    BY <2>1, <2>2, PTL DEF Spec
<1>2. ASSUME ObjectInv, AllWhole, FramesInv, [Next]_vars
      PROVE  [FrameMatches]_vars
  <2>1. CASE UpdateClock
    <3> DEFINE state == rCopy["data"].got
               is == Judge(state, RtpOf(frame))
               clock == m_local_clock_state
    <3>1. ~R!Copying("data") /\ frame \in Fields
      BY <1>2, <2>1 DEF UpdateClock, FramesInv
    <3>2. Heard.last_report = state.last_report /\ Heard.stats = state.stats
      BY <3>1, CopiedIsSeen DEF Heard
    <3>3. Whole(state)
      BY <1>2, <3>2 DEF AllWhole, Whole
    <3>4. clock'.stats = [clock.stats EXCEPT ![is] = @ + 1]
      BY <2>1 DEF UpdateClock
    <3>5. /\ clock'.last_frame = (IF is # "frames_received" THEN clock.last_frame
                                  ELSE [tx_rtp_timestamp |-> RtpOf(frame),
                                        tx_ntp_timestamp |-> state.last_report.id])
      BY <2>1 DEF UpdateClock
    <3>6. is \in Verdicts
      BY JudgeVerdict
    <3>7. /\ is = "frames_received" =>
                 state.stats.is_last_report_valid /\ state.last_report.id = frame
          /\ is = "frames_missing_send_report" =>
                 ~state.stats.is_last_report_valid \/ state.last_report.id < frame
          /\ is = "frames_bad_rtp_time" =>
                 state.stats.is_last_report_valid /\ state.last_report.id > frame
      BY <3>1, <3>3, JudgeMatches
    <3>8. clock.stats \in ClockStats
      BY <1>2 DEF FramesInv
    <3> HIDE DEF is, state
    <3>9. \A c \in Verdicts : clock'.stats[c] # clock.stats[c] <=> c = is
      BY <3>4, <3>6, <3>8, ClockCounts
    <3>10. /\ clock'.stats["frames_received"] # clock.stats["frames_received"]
                 <=> is = "frames_received"
           /\ clock'.stats["frames_missing_send_report"]
                  # clock.stats["frames_missing_send_report"]
                 <=> is = "frames_missing_send_report"
           /\ clock'.stats["frames_bad_rtp_time"] # clock.stats["frames_bad_rtp_time"]
                 <=> is = "frames_bad_rtp_time"
      BY <3>9 DEF Verdicts
    <3>11. FrameMatches
      BY <3>5, <3>7, <3>10 DEF FrameMatches, state
    <3> QED
      BY <3>11
  <2>2. CASE UNCHANGED m_local_clock_state
    BY <2>2 DEF FrameMatches
  <2> QED
    BY <1>2, <2>1, <2>2 DEF Next, RtcpThread, DataThread, MainThread, SendReport, SendFrame,
           PollReports, ConsumeRtcpPacket, UpdateReport, RaiseReportFlag, NotifyDataFrame,
           CopyReport, CheckReport, ReadReport, PrintReport, vars, dataVars
<1> QED
  BY <1>1, <1>2, PTL DEF Spec, FramesMatched
=============================================================================
