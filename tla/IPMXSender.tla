------------------------------ MODULE IPMXSender ------------------------------
(***************************************************************************)
(* IPMX sender node: one thread that sends several media streams and, for  *)
(* every field of every stream, an RTCP sender report through one generic  *)
(* stream they all share (IPMXSenderIONode, IPMXStreamSender and           *)
(* SharedMessageHandler).                                                  *)
(*                                                                         *)
(* The adapter runs beside the thread: it sends committed chunks in order, *)
(* the first chunk of field k not before period k, and queues a completion *)
(* for each chunk marked for tracking.  Each step of the thread is one     *)
(* call into the library with what the code does with its result; the      *)
(* clock counts field periods from m_start_send_time_ns.                   *)
(***************************************************************************)
EXTENDS Integers, Sequences, FiniteSets

CONSTANTS
    NumStreams,        \* m_stream_senders.size()
    ChunksInField,     \* chunks_in_frame_field
    FieldsInMemBlock,  \* frames_fields_in_mem_block
    Sleeps,            \* m_sleep_between_operations
    HwDepth,           \* chunks of a stream the adapter's send queue takes
    Faults,            \* which library calls may fail, and "signal"
    MaxFields          \* bound: fields a stream sends

FaultKinds == {"create", "poll", "report", "report_mark", "report_commit",
               "media_commit", "cancel", "destroy", "signal"}

\* The settings the application computes: four lines make a chunk, so that a
\* field of any supported resolution has several.
ASSUME SettingsAssumption ==
    /\ NumStreams \in Nat \ {0}
    /\ ChunksInField \in Nat /\ ChunksInField >= 2
    /\ FieldsInMemBlock \in Nat \ {0}
    /\ HwDepth \in Nat \ {0}
    /\ Sleeps \in BOOLEAN
    /\ Faults \subseteq FaultKinds
    /\ MaxFields \in Nat \ {0}

Streams == 0..(NumStreams - 1)
Rtcp == -1                     \* the generic stream of the reports

\* Faulty variant: one chunk less.
ReportChunksShort == NumStreams - 1

\* One chunk of the report stream per media stream (initialize_streams).
ReportChunks == NumStreams

\* num_of_chunks_in_mem_block
MediaChunks == FieldsInMemBlock * ChunksInField

LastChunkToken == -1           \* LAST_CHUNK_IN_FRAME_TOKEN
NoToken == -2                  \* a chunk that is not tracked

VARIABLES
    pc, cur,           \* the thread: what it does next, and for which stream
    created,           \* streams that exist in the library
    sender,            \* per stream: the counters of IPMXStreamSender
    timed,             \* streams whose m_start_send_time_ns was set, others have 0
    m_pending_message_count,
    all_senders_can_sleep, latest_wakeup_time,
    media,             \* per stream: tokens of committed chunks, completions
    report,            \* committed reports, sender ids of their completions
    clock,             \* the field period
    prompt,            \* history: every period was over when the next one began
    signal,            \* a signal was received
    why,               \* history: what made the thread leave its loop
    ownFailure         \* history: streams whose own stop failed

threadVars == <<pc, cur, all_senders_can_sleep, latest_wakeup_time>>
vars == <<threadVars, created, sender, m_pending_message_count, media, report,
          clock, prompt, signal, why, ownFailure, timed>>

Init ==
    /\ pc = "start" /\ cur = Rtcp
    /\ created = {}
    /\ sender = [s \in Streams |->
           [committed_reports |-> 0, finished_reports |-> 0,
            committed_first_chunks |-> 0, finished_first_chunks |-> 0,
            committed_fields |-> 0, finished_fields |-> 0,
            chunk_in_field_counter |-> 0, chunk_pending |-> FALSE]]
    /\ m_pending_message_count = 0
    /\ all_senders_can_sleep = FALSE /\ latest_wakeup_time = 0
    /\ media = [s \in Streams |-> [queue |-> <<>>, done |-> <<>>]]
    /\ report = [queue |-> <<>>, done |-> <<>>]
    /\ clock = -1 /\ prompt = TRUE
    /\ signal = FALSE
    /\ why = "none" /\ ownFailure = {} /\ timed = {}

-----------------------------------------------------------------------------
(* The adapter, the clock and the user.                                    *)

\* The time of the first chunk of a stream that has no start time is long past.
Due(s, token) == s \in timed /\ token >= 0 => token <= clock

SendMediaChunk(s) ==
    /\ media[s].queue # <<>>
    /\ LET token == Head(media[s].queue) IN
          /\ Due(s, token)
          /\ media' = [media EXCEPT ![s] =
                 [queue |-> Tail(@.queue),
                  done  |-> IF token = NoToken THEN @.done ELSE Append(@.done, token)]]
    /\ UNCHANGED <<threadVars, created, sender, m_pending_message_count>>
    /\ UNCHANGED <<report, clock, prompt, signal, why, ownFailure, timed>>

SendReport ==
    /\ report.queue # <<>>
    /\ LET sent == Head(report.queue) IN
          report' = [queue |-> Tail(report.queue),
                     done  |-> IF sent.tracked THEN Append(report.done, sent.of)
                               ELSE report.done]
    /\ UNCHANGED <<threadVars, created, sender, m_pending_message_count>>
    /\ UNCHANGED <<media, clock, prompt, signal, why, ownFailure, timed>>

\* Faulty variant: one field too many is committed.
HasFreeFrameBufferOffByOne(c) ==
    c.committed_fields <= c.finished_fields + FieldsInMemBlock

HasFreeFrameBuffer(c) ==
    c.committed_fields < c.finished_fields + FieldsInMemBlock

\* Nothing that could happen in this period is left to do, and every stream that
\* has room for it has begun to commit the field of the next one.
PeriodIsOver ==
    /\ report.queue = <<>> /\ report.done = <<>>
    /\ \A s \in Streams :
          /\ media[s].done = <<>>
          /\ media[s].queue # <<>> => ~Due(s, Head(media[s].queue))
          /\ HasFreeFrameBuffer(sender[s]) /\ clock + 1 < MaxFields
                 => sender[s].committed_first_chunks > clock + 1

\* The next period begins.  A sleeping thread is woken up before the period
\* it waits for; m_start_send_time_ns is chosen once the streams exist.
Tick ==
    /\ clock < MaxFields
    /\ pc # "start"
    /\ pc = "sleep" => clock + 1 < latest_wakeup_time
    /\ clock' = clock + 1
    /\ prompt' = (prompt /\ PeriodIsOver /\ pc # "initial")
    /\ UNCHANGED <<threadVars, created, sender, m_pending_message_count>>
    /\ UNCHANGED <<media, report, signal, why, ownFailure, timed>>

Signal ==
    /\ "signal" \in Faults
    /\ ~signal
    /\ signal' = TRUE
    /\ UNCHANGED <<threadVars, created, sender, m_pending_message_count>>
    /\ UNCHANGED <<media, report, clock, prompt, why, ownFailure, timed>>

\* A library call of this kind may fail, or report the received signal.
MayFail(kind) == kind \in Faults \/ signal

-----------------------------------------------------------------------------
(* start_rivermax_streams                                                  *)

CreateStream ==
    /\ pc = "start"
    /\ created' = created \cup {cur}
    /\ IF cur = NumStreams - 1 THEN pc' = "initial" /\ cur' = 0
       ELSE pc' = pc /\ cur' = cur + 1
    /\ UNCHANGED <<all_senders_can_sleep, latest_wakeup_time, sender, media>>
    /\ UNCHANGED <<m_pending_message_count, report>>
    /\ UNCHANGED <<clock, prompt, signal, why, ownFailure, timed>>

\* The node gives up; what was created stays.
CreateFails ==
    /\ pc = "start"
    /\ "create" \in Faults
    /\ pc' = "failed"
    /\ UNCHANGED <<cur, all_senders_can_sleep, latest_wakeup_time, created, sender>>
    /\ UNCHANGED <<m_pending_message_count, media, report>>
    /\ UNCHANGED <<clock, prompt, signal, why, ownFailure, timed>>

-----------------------------------------------------------------------------
(* Reports                                                                 *)

\* A report chunk is in use from its commit until the adapter has sent it.
FreeReportChunk == Len(report.queue) < ReportChunks

\* Faulty variant: the message is not counted.
CommitMessageUncounted(s) ==
    /\ report' = [report EXCEPT !.queue = Append(@, [of |-> s, tracked |-> TRUE])]
    /\ UNCHANGED m_pending_message_count

\* commit_message: the results of mark_for_tracking and commit_chunk are not
\* looked at, so a report that is sent but not tracked, or refused by the library,
\* is counted like any other.
CommitMessage(s) ==
    /\ \/ \E marked \in BOOLEAN :
              /\ marked \/ "report_mark" \in Faults
              /\ report' = [report EXCEPT !.queue = Append(@, [of |-> s, tracked |-> marked])]
       \/ MayFail("report_commit") /\ UNCHANGED report
    /\ m_pending_message_count' = m_pending_message_count + 1

\* Faulty variant: no report while the previous one is on its way.
CommitSenderReportUnlessLate(s, c, r) ==
    /\ r = "success"
    /\ IF c.committed_reports > c.finished_reports
       THEN sender' = [sender EXCEPT ![s] = c] /\ UNCHANGED <<report, m_pending_message_count>>
       ELSE /\ CommitMessage(s)
            /\ sender' = [sender EXCEPT ![s] = [c EXCEPT !.committed_reports = @ + 1]]

\* commit_sender_report of stream s, whose counters are c, with result r.
CommitSenderReport(s, c, r) ==
    \/ /\ FreeReportChunk
       /\ r = "success"
       /\ CommitMessage(s)
       /\ sender' = [sender EXCEPT ![s] =
              [c EXCEPT !.committed_reports = @ + 1]]
    \/ /\ \/ ~FreeReportChunk /\ r = "no_free_report"
          \/ MayFail("report") /\ r = "fault"
       /\ sender' = [sender EXCEPT ![s] = c]
       /\ UNCHANGED <<report, m_pending_message_count>>

Results == {"success", "no_free_report", "fault"}

\* send_initial_reports gives the streams their start time one by one and stops at
\* the first failure, which nobody looks at: the streams after it get none.
SendInitialReport ==
    /\ pc = "initial"
    /\ timed' = timed \cup {cur}
    /\ \E r \in Results :
          /\ CommitSenderReport(cur, sender[cur], r)
          /\ IF r = "success" /\ cur < NumStreams - 1
             THEN pc' = pc /\ cur' = cur + 1
             ELSE pc' = "check" /\ cur' = 0
    /\ UNCHANGED <<all_senders_can_sleep, latest_wakeup_time, created, media>>
    /\ UNCHANGED <<clock, prompt, signal, why, ownFailure>>

\* The loop is left, for reason r.
Abort(r) ==
    /\ pc' = "stop" /\ cur' = Rtcp
    /\ why' = r
    /\ UNCHANGED <<all_senders_can_sleep, latest_wakeup_time>>

\* The iteration goes on to the streams, after its clock sample.
ServeStreams ==
    /\ pc' = "track" /\ cur' = 0
    /\ all_senders_can_sleep' = Sleeps
    /\ latest_wakeup_time' = clock + 1
    /\ UNCHANGED why

\* Faulty variant: the loop condition does not look at the signal.
LoopIgnoresSignal ==
    /\ pc = "check"
    /\ signal
    /\ ServeStreams
    /\ UNCHANGED <<created, sender, m_pending_message_count, media, report>>
    /\ UNCHANGED <<clock, prompt, signal, ownFailure, timed>>

LoopEndsBySignal ==
    /\ pc = "check"
    /\ signal
    /\ Abort("signal")
    /\ UNCHANGED <<created, sender, m_pending_message_count, media, report>>
    /\ UNCHANGED <<clock, prompt, signal, ownFailure, timed>>

NoReportCompletion ==
    /\ pc = "check" /\ ~signal
    /\ m_pending_message_count = 0 \/ report.done = <<>>
    /\ ServeStreams
    /\ UNCHANGED <<created, sender, m_pending_message_count, media, report>>
    /\ UNCHANGED <<clock, prompt, signal, ownFailure, timed>>

\* check_report_completion and notify_report_completion.
ReportCompletion ==
    /\ pc = "check" /\ ~signal
    /\ m_pending_message_count > 0 /\ report.done # <<>>
    /\ m_pending_message_count' = m_pending_message_count - 1
    /\ report' = [report EXCEPT !.done = Tail(@)]
    /\ LET s == Head(report.done) IN
          IF sender[s].committed_reports <= sender[s].finished_reports
          THEN Abort("unsolicited") /\ UNCHANGED sender
          ELSE ServeStreams /\ sender' = [sender EXCEPT ![s].finished_reports = @ + 1]
    /\ UNCHANGED <<created, media, clock, prompt, signal, ownFailure, timed>>

ReportPollFails ==
    /\ pc = "check" /\ ~signal
    /\ m_pending_message_count > 0
    /\ "poll" \in Faults
    /\ Abort("fault")
    /\ UNCHANGED <<created, sender, m_pending_message_count, media, report>>
    /\ UNCHANGED <<clock, prompt, signal, ownFailure, timed>>

-----------------------------------------------------------------------------
(* track_media_completions, for stream cur                                 *)

ContinueWith(next) ==
    /\ pc' = next
    /\ UNCHANGED <<cur, all_senders_can_sleep, latest_wakeup_time, why>>

NoMediaCompletion ==
    /\ pc = "track"
    /\ media[cur].done = <<>>
    /\ ContinueWith("commit")
    /\ UNCHANGED <<created, sender, m_pending_message_count, media, report>>
    /\ UNCHANGED <<clock, prompt, signal, ownFailure, timed>>

MediaPollFails ==
    /\ pc = "track"
    /\ MayFail("poll")
    /\ Abort("fault")
    /\ UNCHANGED <<created, sender, m_pending_message_count, media, report>>
    /\ UNCHANGED <<clock, prompt, signal, ownFailure, timed>>

\* Counters after the completion of a tracked chunk.
Finished(c, token) ==
    IF token = LastChunkToken THEN [c EXCEPT !.finished_fields = @ + 1]
    ELSE [c EXCEPT !.finished_first_chunks = @ + 1]

\* process_media_completion
ProcessMediaCompletion ==
    /\ pc = "track"
    /\ media[cur].done # <<>>
    /\ media' = [media EXCEPT ![cur].done = Tail(@)]
    /\ LET token == Head(media[cur].done)
           c == Finished(sender[cur], token)
       IN  \/ /\ token = LastChunkToken
              /\ sender' = [sender EXCEPT ![cur] = c]
              /\ ContinueWith("commit")
              /\ UNCHANGED <<m_pending_message_count, report>>
           \/ /\ token # LastChunkToken
              /\ token # sender[cur].finished_first_chunks
              /\ Abort("out_of_order")
              /\ UNCHANGED <<sender, m_pending_message_count, report>>
           \/ /\ token # LastChunkToken
              /\ token = sender[cur].finished_first_chunks
              /\ \E r \in Results :
                    /\ CommitSenderReport(cur, c, r)
                    /\ IF r = "success" THEN ContinueWith("commit") ELSE Abort(r)
    /\ UNCHANGED <<created, clock, prompt, signal, ownFailure, timed>>

-----------------------------------------------------------------------------
(* commit_next_media_chunk, for stream cur, and the end of the iteration   *)

IsReportForCurrentFrameSent(c) == c.finished_reports >= c.finished_fields + 1

CanSleep(c) == ~HasFreeFrameBuffer(c) /\ IsReportForCurrentFrameSent(c)

\* Faulty variant: the period after the field that is sent.
WakeupTimeLate(s, c) == IF s \in timed THEN c.finished_first_chunks + 1 ELSE clock

\* max_wakeup_time of can_sleep; without a start time it is in the past.
WakeupTime(s, c) == IF s \in timed THEN c.finished_first_chunks ELSE clock

\* The rest of the loop body for stream cur, whose counters are now c; after
\* the last stream the thread sleeps or begins the next iteration.
EndOfStream(c) ==
    /\ all_senders_can_sleep' = (all_senders_can_sleep /\ CanSleep(c))
    /\ latest_wakeup_time' =
           IF all_senders_can_sleep' /\ WakeupTime(cur, c) < latest_wakeup_time
           THEN WakeupTime(cur, c) ELSE latest_wakeup_time
    /\ IF cur < NumStreams - 1 THEN pc' = "track" /\ cur' = cur + 1
       ELSE /\ pc' = IF all_senders_can_sleep' /\ latest_wakeup_time' > clock
                     THEN "sleep" ELSE "check"
            /\ cur' = 0
    /\ UNCHANGED why

\* The commit is attempted; the bound ends the traffic of the model.
Commits == HasFreeFrameBuffer(sender[cur]) /\ sender[cur].committed_fields < MaxFields

SkipCommit ==
    /\ pc = "commit"
    /\ ~Commits
    /\ EndOfStream(sender[cur])
    /\ UNCHANGED <<created, sender, m_pending_message_count, media, report>>
    /\ UNCHANGED <<clock, prompt, signal, ownFailure, timed>>

\* A chunk is in use from the moment it was got until the adapter sent it.
FreeMediaChunk(s) == Len(media[s].queue) < MediaChunks

\* Faulty variants: the tokens count fields from one; the last chunk of a
\* field is not tracked.
TokenForOneBased(c) ==
    IF c.chunk_in_field_counter = 0 THEN c.committed_first_chunks + 1
    ELSE IF c.chunk_in_field_counter = ChunksInField - 1 THEN LastChunkToken
    ELSE NoToken
TokenForNoLast(c) ==
    IF c.chunk_in_field_counter = 0 THEN c.committed_first_chunks ELSE NoToken

TokenFor(c) ==
    IF c.chunk_in_field_counter = 0 THEN c.committed_first_chunks
    ELSE IF c.chunk_in_field_counter = ChunksInField - 1 THEN LastChunkToken
    ELSE NoToken

\* Faulty variant: the chunk counter is not reset at the end of a field.
CommittedWithoutReset(c) ==
    [c EXCEPT !.chunk_pending = FALSE, !.chunk_in_field_counter = @ + 1,
              !.committed_first_chunks = IF c.chunk_in_field_counter = 0 THEN @ + 1 ELSE @,
              !.committed_fields = IF c.chunk_in_field_counter = ChunksInField - 1
                                   THEN @ + 1 ELSE @]

\* Counters after a successful commit.
Committed(c) ==
    LET n == c.chunk_in_field_counter + 1
    IN  [c EXCEPT
           !.chunk_pending = FALSE,
           !.committed_first_chunks = IF n = 1 THEN @ + 1 ELSE @,
           !.chunk_in_field_counter = IF n = ChunksInField THEN 0 ELSE n,
           !.committed_fields = IF n = ChunksInField THEN @ + 1 ELSE @]

HasChunk(s) == sender[s].chunk_pending \/ FreeMediaChunk(s)

CommitMediaChunk ==
    /\ pc = "commit" /\ Commits
    /\ HasChunk(cur)
    /\ Len(media[cur].queue) < HwDepth
    /\ media' = [media EXCEPT ![cur].queue = Append(@, TokenFor(sender[cur]))]
    /\ sender' = [sender EXCEPT ![cur] = Committed(@)]
    /\ EndOfStream(Committed(sender[cur]))
    /\ UNCHANGED <<created, m_pending_message_count, report>>
    /\ UNCHANGED <<clock, prompt, signal, ownFailure, timed>>

\* The chunk is kept for the next attempt.
KeepChunk(c) == [c EXCEPT !.chunk_pending = TRUE]

\* hw_send_queue_full
CommitQueueFull ==
    /\ pc = "commit" /\ Commits
    /\ HasChunk(cur)
    /\ Len(media[cur].queue) >= HwDepth
    /\ sender' = [sender EXCEPT ![cur] = KeepChunk(@)]
    /\ EndOfStream(KeepChunk(sender[cur]))
    /\ UNCHANGED <<created, m_pending_message_count, media, report, clock, prompt>>
    /\ UNCHANGED <<signal, ownFailure, timed>>

CommitFails ==
    /\ pc = "commit" /\ Commits
    /\ \/ ~HasChunk(cur) /\ Abort("no_free_media")
       \/ MayFail("media_commit") /\ Abort("fault")
    /\ UNCHANGED <<created, sender, m_pending_message_count, media, report>>
    /\ UNCHANGED <<clock, prompt, signal, ownFailure, timed>>

Wake ==
    /\ pc = "sleep"
    /\ pc' = "check"
    /\ UNCHANGED <<cur, all_senders_can_sleep, latest_wakeup_time, created, sender>>
    /\ UNCHANGED <<m_pending_message_count, media, report>>
    /\ UNCHANGED <<clock, prompt, signal, why, ownFailure, timed>>

-----------------------------------------------------------------------------
(* stop_rivermax_streams                                                   *)

\* destroy_stream repeats while the library is busy with unsent reports.
DestroyRtcp ==
    /\ pc = "stop" /\ cur = Rtcp
    /\ report.queue = <<>>
    /\ created' = created \ {Rtcp}
    /\ cur' = 0
    /\ UNCHANGED <<pc, all_senders_can_sleep, latest_wakeup_time, sender>>
    /\ UNCHANGED <<m_pending_message_count, media, report>>
    /\ UNCHANGED <<clock, prompt, signal, why, ownFailure, timed>>

\* Faulty variant: the library is trusted to forget the chunks.
CancelNothing == UNCHANGED media

CancelUnsent == media' = [media EXCEPT ![cur].queue = <<>>]

\* stop_media_stream: cancel_unsent, then destroy_stream.
StopMediaStream ==
    /\ pc = "stop" /\ cur # Rtcp
    /\ CancelUnsent
    /\ created' = created \ {cur}
    /\ IF cur < NumStreams - 1 THEN pc' = pc /\ cur' = cur + 1
       ELSE pc' = "done" /\ cur' = cur
    /\ UNCHANGED <<all_senders_can_sleep, latest_wakeup_time, sender>>
    /\ UNCHANGED <<m_pending_message_count, report>>
    /\ UNCHANGED <<clock, prompt, signal, why, ownFailure, timed>>

\* The first failure ends the method, and with it the node.
StopFails ==
    /\ pc = "stop"
    /\ \/ "destroy" \in Faults /\ cur = Rtcp /\ UNCHANGED media
       \/ "destroy" \in Faults /\ cur # Rtcp /\ CancelUnsent
       \/ MayFail("cancel") /\ cur # Rtcp /\ UNCHANGED media
    /\ pc' = "done"
    /\ ownFailure' = ownFailure \cup {cur}
    /\ UNCHANGED <<cur, all_senders_can_sleep, latest_wakeup_time, created, sender>>
    /\ UNCHANGED <<m_pending_message_count, report, clock, prompt, signal, why, timed>>

-----------------------------------------------------------------------------
ThreadStep ==
    \/ CreateStream \/ CreateFails
    \/ SendInitialReport
    \/ LoopEndsBySignal \/ NoReportCompletion \/ ReportCompletion \/ ReportPollFails
    \/ NoMediaCompletion \/ ProcessMediaCompletion \/ MediaPollFails
    \/ SkipCommit \/ CommitMediaChunk \/ CommitQueueFull \/ CommitFails
    \/ Wake
    \/ DestroyRtcp \/ StopMediaStream \/ StopFails

Next ==
    \/ ThreadStep
    \/ \E s \in Streams : SendMediaChunk(s)
    \/ SendReport
    \/ Tick
    \/ Signal

Spec == Init /\ [][Next]_vars

\* The thread runs on its own core, the adapter sends what is due, time goes on,
\* also for a thread that sleeps, wakes up and sleeps again.
FairSpec ==
    /\ Spec
    /\ WF_vars(ThreadStep)
    /\ WF_vars(SendReport)
    /\ \A s \in Streams : WF_vars(SendMediaChunk(s))
    /\ SF_vars(Tick)
-----------------------------------------------------------------------------
Counters == [committed_reports : Nat, finished_reports : Nat,
             committed_first_chunks : Nat, finished_first_chunks : Nat,
             committed_fields : Nat, finished_fields : Nat,
             chunk_in_field_counter : 0..(ChunksInField - 1),
             chunk_pending : BOOLEAN]

TrackedTokens == Nat \cup {LastChunkToken}

ReportsSent == [of : Streams, tracked : BOOLEAN]

\* Every variable has the type its declaration gives it; in particular
\* m_pending_message_count, which is unsigned, never goes below zero and
\* m_chunk_in_field_counter stays inside a field.
TypeOK ==
    /\ pc \in {"start", "initial", "check", "track", "commit", "sleep", "stop",
               "done", "failed"}
    /\ cur \in Streams \cup {Rtcp}
    /\ created \subseteq Streams \cup {Rtcp}
    /\ sender \in [Streams -> Counters]
    /\ m_pending_message_count \in Nat
    /\ all_senders_can_sleep \in BOOLEAN /\ latest_wakeup_time \in Int
    /\ media \in [Streams -> [queue : Seq(TrackedTokens \cup {NoToken}), done : Seq(TrackedTokens)]]
    /\ report \in [queue : Seq(ReportsSent), done : Seq(Streams)]
    /\ clock \in Int /\ prompt \in BOOLEAN /\ signal \in BOOLEAN
    /\ why \in {"none", "signal", "fault", "out_of_order", "unsolicited",
                "no_free_media", "no_free_report"}
    /\ ownFailure \subseteq Streams \cup {Rtcp} /\ timed \subseteq Streams

\* However far the adapter runs ahead of the thread and whatever calls fail,
\* the node does not end itself by a miscount: the library always has a chunk
\* when has_free_frame_buffer says so, completions of first chunks carry the token
\* process_media_completion expects, and no report completion is unsolicited.
\* What is left is the want of a report chunk, see ReportChunksSuffice.
NeverSelfInflicted ==
    why \notin {"out_of_order", "no_free_media", "unsolicited"}

\* How many elements of q are in S.
Occurrences(q, S) == Cardinality({i \in DOMAIN q : q[i] \in S})

\* Reports of stream s whose completion is to come: the adapter has them, or has
\* sent them and nobody polled.
InReports(s) ==
    Occurrences(report.queue, {[of |-> s, tracked |-> TRUE]}) + Occurrences(report.done, {s})

Outstanding(s) == sender[s].committed_reports - sender[s].finished_reports

\* The n-th report of stream s was committed, or refused, and is waited for.
AwaitedReports ==
    UNION {{s} \X ((sender[s].finished_reports + 1) .. sender[s].committed_reports) : s \in Streams}

\* The shared m_pending_message_count is the number of reports all streams
\* wait for, and every report whose completion is to come is one of them: the
\* early return of check_completion never hides a completion, although refused
\* and untracked reports are counted too.
PendingCoversReports ==
    /\ m_pending_message_count = Cardinality(AwaitedReports)
    /\ \A s \in Streams : InReports(s) <= Outstanding(s)

\* While the loop runs each stream has announced exactly the field after the
\* last one whose first chunk left: one report before the first field, then
\* one per field begun, whichever completions were polled in which order.
OneReportPerField ==
    pc \in {"check", "track", "commit", "sleep"} =>
        \A s \in Streams :
            sender[s].committed_reports = sender[s].finished_first_chunks + 1

\* The counters of a stream agree with the chunks the adapter holds: what was
\* committed and is not finished is on its way or waits to be polled, and no
\* more than the memory block's fields are.
FieldsInFlight ==
    pc \in {"check", "track", "commit", "sleep"} =>
        \A s \in Streams :
            LET c == sender[s]
            IN  /\ Len(media[s].done) + Occurrences(media[s].queue, TrackedTokens)
                       = c.committed_first_chunks - c.finished_first_chunks
                         + c.committed_fields - c.finished_fields
                /\ c.committed_first_chunks <= c.finished_fields + FieldsInMemBlock
                /\ c.finished_first_chunks - c.finished_fields \in {0, 1}

\* With a prompt adapter and thread, and streams that have their start time, one
\* report chunk per stream is enough: the loop never ends for want of one.  A
\* stream that has none sends all its fields at once, and a report for each.
ReportChunksSuffice == prompt /\ timed = Streams => why # "no_free_report"

\* While the thread sleeps no first chunk has completed: the sleep of can_sleep
\* never delays the report the next field needs, whatever completes between
\* the poll of a stream and the decision to sleep.
SleepDelaysNoReport ==
    pc = "sleep" => \A s \in Streams :
        \A i \in DOMAIN media[s].done : media[s].done[i] = LastChunkToken

\* Without faults, and while adapter and thread keep pace with the clock,
\* every stream sends all its fields, each is polled as finished, and every
\* report completes: neither the sleep nor a full send queue nor the shared
\* report stream stalls the node.
AllFieldsSent ==
    []prompt =>
        <>[](\A s \in Streams : /\ sender[s].finished_fields = MaxFields
                               /\ sender[s].finished_reports = MaxFields + 1)

\* After a signal the node returns from its worker, whatever it was doing.
StopsOnSignal == signal ~> pc \in {"done", "failed"}

\* stop_rivermax_streams returns at the first stream that does not stop, after a
\* signal often because its cancel was interrupted: exactly that stream and the
\* following ones stay.  A stream that is gone has nothing left to send.
StopEndsAtFailure ==
    /\ pc = "done" =>
           created = {s \in {Rtcp} \cup Streams : \E f \in ownFailure : f <= s}
    /\ \A s \in Streams \ created : media[s].queue = <<>>
    /\ Rtcp \notin created => report.queue = <<>>
=============================================================================
