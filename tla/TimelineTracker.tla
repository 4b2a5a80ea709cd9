----------------------------- MODULE TimelineTracker -----------------------------
(***************************************************************************)
(* IPMXStreamTimelineTracker of one composite stream.  The RTCP receiver's *)
(* thread consumes sender reports, the RTP receiver's thread is told the   *)
(* start of every media frame, and the main thread prints new stream info; *)
(* they share reports through a StaticRCU object and an atomic flag.       *)
(*                                                                         *)
(* The sender sends the report of a field before the field, and the next   *)
(* report once the first packets of the field left (IPMXSender); reports   *)
(* and frames then travel, and wait for their threads, independently.      *)
(* Reports are numbered by their field; the NTP time of a report stands    *)
(* for that number.  A report is refused only for its length, so a packet  *)
(* is the number its bytes hold and whether it fits.  Left out: reports    *)
(* with other bytes than were sent, which would be parsed as they are, the *)
(* quantities computed from an accepted frame, and the printing of clock   *)
(* statistics, which another StaticRCU and another flag of the same make   *)
(* take to the main thread.                                                *)
(***************************************************************************)
EXTENDS Integers, Sequences, FiniteSets

CONSTANTS
    NumVersions,    \* RCU_NUM_VERSIONS
    MaxBehind,      \* pace of the threads, see StaticRCU
    RtpMod,         \* 2^32, the range of RTP timestamps
    FirstRtp,       \* RTP timestamp of the first field
    TicksPerField,
    InfoChanges,    \* fields with another media info block version
    MaxLoss,        \* bound: reports and frame starts that do not arrive well
    MaxFields       \* bound: fields the sender sends

Fields == 1..MaxFields
NoReport == [id |-> 0, rtp |-> 0, info_block_version |-> 0]

RtpOf(f) == (FirstRtp + f * TicksPerField) % RtpMod
ReportOf(f) == [id |-> f, rtp |-> RtpOf(f),
                info_block_version |-> Cardinality({n \in InfoChanges : n <= f})]
Reports == {NoReport} \cup {ReportOf(f) : f \in Fields}

\* A received packet: the report its bytes hold, and whether it is short enough.
Packets == [id : Fields, fits : BOOLEAN]

\* Parts of IPMXSenderReportState and of IPMXDataClockState.
ReportStats == [is_last_report_valid : BOOLEAN, reports_received : 0..MaxFields]
NoReportState ==
    [last_report |-> NoReport,
     stats |-> [is_last_report_valid |-> FALSE, reports_received |-> 0]]

NoFrame == [tx_rtp_timestamp |-> 0, tx_ntp_timestamp |-> 0]
NoClockState ==
    [last_frame |-> NoFrame,
     stats |-> [frames_received |-> 0, frames_missing_send_report |-> 0,
                frames_bad_rtp_time |-> 0]]

VARIABLES
    sending,          \* the sender: next field, and whether its report left
    rtcpQueue,        \* received reports, not yet polled
    frameQueue,       \* fields whose start was received, not yet notified
    lost,             \* history: number of losses
    arrived,          \* history: the report that arrived last and fits
    rtcpChunk,        \* polled packets, as consume_chunk will pass them on
    rtcp, m_local_report_state, news,    \* the RTCP thread: what it does next
    data, m_local_clock_state, frame,    \* the RTP thread
    main,             \* the main thread
    printed,          \* history: id of the report printed last
    m_new_report_version_available,
    rBuffer, rIndex, rUpdate, rCopy, rBehind     \* m_shared_report_state

R == INSTANCE StaticRCU WITH
    Readers <- {"data", "main"}, Parts <- {"last_report", "stats"},
    Value <- [last_report : Reports, stats : ReportStats], FirstValue <- NoReportState,
    m_buffer <- rBuffer, m_current_index <- rIndex, update <- rUpdate,
    copy <- rCopy, behind <- rBehind

ASSUME TrackerAssumption ==
    /\ R!RCUConstants
    /\ MaxFields \in Nat \ {0} /\ MaxLoss \in Nat
    /\ InfoChanges \subseteq Fields
    /\ RtpMod \in Nat /\ RtpMod % 2 = 0
    /\ FirstRtp \in 0..(RtpMod - 1) /\ TicksPerField \in Nat \ {0}
    /\ 2 * (MaxFields - 1) * TicksPerField < RtpMod

netVars == <<sending, rtcpQueue, frameQueue, lost, arrived>>
rtcpVars == <<rtcp, rtcpChunk, m_local_report_state, news>>
dataVars == <<data, m_local_clock_state, frame>>
mainVars == <<main, printed>>
reportVars == <<rBuffer, rIndex, rUpdate, rCopy, rBehind>>
vars == <<netVars, rtcpVars, dataVars, mainVars, m_new_report_version_available, reportVars>>

Init ==
    /\ sending = [field |-> 1, report |-> TRUE]
    /\ rtcpQueue = <<>> /\ frameQueue = <<>> /\ lost = 0 /\ arrived = 0
    /\ rtcpChunk = <<>>
    /\ rtcp = "idle" /\ m_local_report_state = NoReportState /\ news = FALSE
    /\ data = "idle" /\ m_local_clock_state = NoClockState /\ frame = 0
    /\ main = "idle" /\ printed = 0
    /\ m_new_report_version_available = FALSE
    /\ R!Init

-----------------------------------------------------------------------------
(* The sender and the network: each path keeps its order.                  *)

SendReport ==
    /\ sending.field <= MaxFields /\ sending.report
    /\ sending' = [sending EXCEPT !.report = FALSE]
    /\ \/ /\ rtcpQueue' = Append(rtcpQueue, [id |-> sending.field, fits |-> TRUE])
          /\ arrived' = sending.field /\ UNCHANGED lost
       \/ /\ lost < MaxLoss /\ lost' = lost + 1 /\ UNCHANGED arrived
          /\ \/ UNCHANGED rtcpQueue
             \/ rtcpQueue' = Append(rtcpQueue, [id |-> sending.field, fits |-> FALSE])
    /\ UNCHANGED <<frameQueue, rtcpVars, dataVars, mainVars, m_new_report_version_available>>
    /\ UNCHANGED reportVars

SendFrame ==
    /\ sending.field <= MaxFields /\ ~sending.report
    /\ sending' = [field |-> sending.field + 1, report |-> TRUE]
    /\ \/ frameQueue' = Append(frameQueue, sending.field) /\ UNCHANGED lost
       \/ lost < MaxLoss /\ lost' = lost + 1 /\ UNCHANGED frameQueue
    /\ UNCHANGED <<rtcpQueue, arrived, rtcpVars, dataVars, mainVars>>
    /\ UNCHANGED m_new_report_version_available
    /\ UNCHANGED reportVars

-----------------------------------------------------------------------------
(* consume_rtcp_packet                                                     *)

\* IPMXSenderReportState::update: a report that is too long leaves last_report
\* as it was.
Received(state, packet) ==
    [last_report |-> IF packet.fits THEN ReportOf(packet.id) ELSE state.last_report,
     stats |-> [is_last_report_valid |-> packet.fits,
                reports_received |-> state.stats.reports_received + 1]]

\* Faulty variant: only the first report is news.
IsNewsOnce(old, new) == new.stats.is_last_report_valid /\ ~old.stats.is_last_report_valid

IsNews(old, new) ==
    /\ new.stats.is_last_report_valid
    /\ \/ ~old.stats.is_last_report_valid
       \/ new.last_report.info_block_version # old.last_report.info_block_version

\* RTCPChunkConsumer::consume_chunk goes through the chunk and passes on the length
\* of every packet from its own info, but the bytes at packet_ptr, which stays at
\* the first packet.
PassedOn(chunk) ==
    [i \in 1..Len(chunk) |-> [id |-> Head(chunk).id, fits |-> chunk[i].fits]]

\* The thread polls a chunk of reports.  The application asks for chunks of one
\* packet, which the library may round up.
PollReports ==
    /\ rtcp = "idle" /\ rtcpChunk = <<>>
    /\ \E n \in 1..Len(rtcpQueue) :
           /\ rtcpChunk' = PassedOn(SubSeq(rtcpQueue, 1, n))
           /\ rtcpQueue' = SubSeq(rtcpQueue, n + 1, Len(rtcpQueue))
    /\ UNCHANGED <<sending, frameQueue, lost, arrived, rtcp, m_local_report_state, news>>
    /\ UNCHANGED <<dataVars, mainVars, m_new_report_version_available, reportVars>>

ConsumeRtcpPacket ==
    /\ rtcp = "idle" /\ rtcpChunk # <<>>
    /\ rtcpChunk' = Tail(rtcpChunk)
    /\ m_local_report_state' = Received(m_local_report_state, Head(rtcpChunk))
    /\ news' = IsNews(m_local_report_state, m_local_report_state')
    /\ R!BeginUpdate(m_local_report_state')
    /\ rtcp' = "update"
    /\ UNCHANGED <<netVars, dataVars, mainVars, m_new_report_version_available>>

UpdateReport ==
    /\ rtcp = "update"
    /\ \/ UNCHANGED rtcp /\ \E p \in {"last_report", "stats"} : R!StorePart(p)
       \/ rtcp' = "flag" /\ R!Publish
    /\ UNCHANGED <<netVars, rtcpChunk, m_local_report_state, news, dataVars, mainVars>>
    /\ UNCHANGED m_new_report_version_available

RaiseReportFlag ==
    /\ rtcp = "flag"
    /\ rtcp' = "idle"
    /\ m_new_report_version_available' = (m_new_report_version_available \/ news)
    /\ UNCHANGED <<netVars, rtcpChunk, m_local_report_state, news, dataVars, mainVars>>
    /\ UNCHANGED reportVars

-----------------------------------------------------------------------------
(* notify_data_frame                                                       *)

\* Faulty variant: the wrap-around is forgotten.
IsBeforeUnwrapped(a, b) == a < b

\* The most significant bits differ when the values are on different halves.
IsBefore(a, b) ==
    LET half == RtpMod \div 2
    IN  \/ (a >= half) = (b >= half) /\ a < b
        \/ (a >= half) # (b >= half) /\ a % half > b % half

NotifyDataFrame ==
    /\ data = "idle" /\ frameQueue # <<>>
    /\ frameQueue' = Tail(frameQueue)
    /\ frame' = Head(frameQueue)
    /\ data' = "read"
    /\ R!Read("data")
    /\ UNCHANGED <<sending, rtcpQueue, lost, arrived, rtcpVars, m_local_clock_state>>
    /\ UNCHANGED <<mainVars, m_new_report_version_available>>

CopyReport ==
    /\ data = "read"
    /\ \E p \in {"last_report", "stats"} : R!CopyPart("data", p)
    /\ UNCHANGED <<netVars, rtcpVars, dataVars, mainVars, m_new_report_version_available>>

\* How IPMXDataClockState::update judges a frame, given the report state.
Judge(state, rtp) ==
    IF ~state.stats.is_last_report_valid \/ IsBefore(state.last_report.rtp, rtp)
    THEN "frames_missing_send_report"
    ELSE IF IsBefore(rtp, state.last_report.rtp) THEN "frames_bad_rtp_time"
    ELSE "frames_received"

UpdateClock ==
    /\ data = "read" /\ ~R!Copying("data")
    /\ LET state == rCopy["data"].got
           rtp == RtpOf(frame)
           is == Judge(state, rtp)
       IN  m_local_clock_state' =
               [last_frame |->
                   IF is # "frames_received" THEN m_local_clock_state.last_frame
                   ELSE [tx_rtp_timestamp |-> rtp, tx_ntp_timestamp |-> state.last_report.id],
                stats |-> [m_local_clock_state.stats EXCEPT ![is] = @ + 1]]
    /\ data' = "idle"
    /\ UNCHANGED <<netVars, rtcpVars, frame, mainVars, m_new_report_version_available, reportVars>>

-----------------------------------------------------------------------------
(* print_updates, print_stream_new_info                                    *)

\* print_updates takes the flag, exchange(false) ...
CheckReport ==
    /\ main = "idle"
    /\ m_new_report_version_available' = FALSE
    /\ main' = IF m_new_report_version_available THEN "read" ELSE "idle"
    /\ UNCHANGED <<netVars, rtcpVars, dataVars, printed, reportVars>>

\* ... and if it was up reads the report state, which may be newer by then ...
ReadReport ==
    /\ main = "read"
    /\ main' = "report"
    /\ R!Read("main")
    /\ UNCHANGED <<netVars, rtcpVars, dataVars, printed, m_new_report_version_available>>

\* ... and prints what it refers to.
PrintReport ==
    /\ main = "report"
    /\ \/ /\ \E p \in {"last_report", "stats"} : R!CopyPart("main", p)
          /\ UNCHANGED mainVars
       \/ /\ ~R!Copying("main")
          /\ printed' = rCopy["main"].got.last_report.id
          /\ main' = "idle"
          /\ UNCHANGED reportVars
    /\ UNCHANGED <<netVars, rtcpVars, dataVars, m_new_report_version_available>>

-----------------------------------------------------------------------------
RtcpThread == PollReports \/ ConsumeRtcpPacket \/ UpdateReport \/ RaiseReportFlag
DataThread == NotifyDataFrame \/ CopyReport \/ UpdateClock

\* Faulty variant: the flag is looked at, but lowered only after the read.
MainThreadReadsFirst ==
    \/ /\ main = "idle" /\ m_new_report_version_available
       /\ main' = "read" /\ R!Read("main")
       /\ UNCHANGED <<netVars, rtcpVars, dataVars, printed, m_new_report_version_available>>
    \/ /\ main = "read" /\ main' = "report"
       /\ m_new_report_version_available' = FALSE
       /\ UNCHANGED <<netVars, rtcpVars, dataVars, printed, reportVars>>
    \/ PrintReport

MainThread == CheckReport \/ ReadReport \/ PrintReport

Next == SendReport \/ SendFrame \/ RtcpThread \/ DataThread \/ MainThread

Spec == Init /\ [][Next]_vars

\* Every thread has a core of its own.
FairSpec == Spec /\ WF_vars(RtcpThread) /\ WF_vars(DataThread) /\ WF_vars(MainThread)

-----------------------------------------------------------------------------
\* The shared report state gives the RTP thread and the main thread whole
\* reports, although both copy it while the RTCP thread may update it again.
ReportsAreAtomic == R!ReadsAreAtomic

\* What a step that counts a frame must find in the report state it copied.
FrameMatches ==
    LET clock == m_local_clock_state
        state == rCopy["data"].got
        valid == state.stats.is_last_report_valid
        id == state.last_report.id
        Counts(c) == clock'.stats[c] # clock.stats[c]
    IN  /\ Counts("frames_received") =>
               valid /\ id = frame /\ clock'.last_frame.tx_ntp_timestamp = frame
        /\ Counts("frames_missing_send_report") => ~valid \/ id < frame
        /\ Counts("frames_bad_rtp_time") => valid /\ id > frame
        /\ ~Counts("frames_received") => clock'.last_frame = clock.last_frame

\* Reports and frames reach the tracker through different threads, some are
\* lost and timestamps wrap around; still a frame is used for the clock
\* statistics exactly when the report that was current when it was notified
\* is its own, it is counted as without report only when its report did not come
\* yet or could not be parsed, and as having a bad time only when it was
\* overtaken by a later report.
FramesMatched == [][FrameMatches]_vars

\* Whenever neither thread is between its steps and the flag is down, what was
\* printed last is as new as the report last consumed: the flag raised after the
\* update and taken before the read loses no news, whatever is consumed between the
\* two and whatever is refused.
NewsNotLost ==
    rtcp = "idle" /\ main = "idle" /\ ~m_new_report_version_available
    /\ m_local_report_state.last_report # NoReport
    => /\ printed # 0
       /\ ReportOf(printed).info_block_version
              >= m_local_report_state.last_report.info_block_version

\* A consumed report with the last version of the stream information gets
\* printed in the end.
LastNewsPrinted ==
    LET IsLast(version) == version = Cardinality(InfoChanges)
    IN  IsLast(m_local_report_state.last_report.info_block_version)
            ~> printed # 0 /\ IsLast(ReportOf(printed).info_block_version)

\* "This function consumes the packets contained in the provided chunk": when the
\* RTCP thread has nothing left to consume, the report it holds is the one that
\* arrived last.
ReportsConsumed ==
    rtcp = "idle" /\ rtcpChunk = <<>> /\ rtcpQueue = <<>>
        => m_local_report_state.last_report.id = arrived
=============================================================================
