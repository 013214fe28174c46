----------------------------- MODULE Scheduler -----------------------------
(***************************************************************************)
(* Everything that works on a meeting's transcript: the transcription      *)
(* worker and its job table, the AI worker and its queue, the commands of  *)
(* the main thread (Transcribe, Cancel, delete the note), "Re-analyze      *)
(* speakers", captures, and restarts (src-tauri/src/scheduler.rs,          *)
(* pipeline.rs, commands.rs, import_commands.rs, asr_commands.rs).         *)
(*                                                                         *)
(* They meet in four places, each behind a mutex of its own: the database, *)
(* pipeline_stage (the per-meeting guard), cancel_requests and the AI      *)
(* queue.  A step is what one of them does under one lock, in the order of *)
(* the code; between two steps anyone may act.                             *)
(*                                                                         *)
(* A note here has one meeting.  The saved row of the AI queue is AiPasses' *)
(* subject: here a restart brings back any part of what was unfinished.    *)
(***************************************************************************)
EXTENDS AiQueue, TranscriptionJobs

CONSTANTS
    MaxAttempts,    \* MAX_ATTEMPTS
    Commands,       \* bound: which commands the user gives
    MaxCommands,    \* bound: how many
    MaxFaults,      \* bound: runs that fail for a reason of their own
    MaxRecordings,  \* bound: captures started
    MaxCrashes      \* bound: the process ends

ASSUME MaxAttemptsAssumption == MaxAttempts \in Nat \ {0}
ASSUME SomeMeetingAssumption == Meetings # {}
ASSUME BoundsAssumption ==
    /\ Commands \subseteq {"transcribe", "cancel", "delete", "rediarize"}
    /\ MaxCommands \in Nat /\ MaxFaults \in Nat
    /\ MaxRecordings \in Nat /\ MaxCrashes \in Nat

VARIABLES
    jobs,        \* transcription_jobs
    meeting,     \* meeting[m]: "live", "orphan" (note deleted) or "gone" (purged)
    transcript,  \* transcript[m]: "none", "current", or "old" (a newer one overwritten)
    cleaned,     \* cleaned[m]: the polished variant of the current transcript, or "stale"
    stage,       \* pipeline_stage[m]: "none", "waiting", "busy" (a run's), "polishing"
    cancels,     \* cancel_requests
    aiq,         \* the AI queue
    recording,   \* an audio or screen capture is active
    tw,          \* the transcription worker
    aw,          \* the AI worker
    ut,          \* the main thread
    rd,          \* re_diarize_meeting
    left         \* what the bounds leave

vars == <<jobs, meeting, transcript, cleaned, stage, cancels, aiq, recording,
          tw, aw, ut, rd, left>>
stored == <<jobs, meeting, transcript, cleaned>>
actors == <<tw, aw, ut, rd>>

AnyMeeting == CHOOSE m \in Meetings : TRUE

WorkerStart == [pc |-> "recover", m |-> AnyMeeting, attempts |-> 0, err |-> "none",
                kind |-> "ExtractOnly", ids |-> {}, passes |-> {}]
AiStart == [pc |-> "gate", m |-> AnyMeeting, kind |-> "ExtractOnly", read |-> "none"]
MainStart == [pc |-> "idle", m |-> AnyMeeting, op |-> "transcribe"]
ReDiarizeStart == [pc |-> "idle", m |-> AnyMeeting, read |-> "none", ok |-> FALSE]

Left == [commands |-> MaxCommands, faults |-> MaxFaults,
         recordings |-> MaxRecordings, crashes |-> MaxCrashes]
Spend(what) == left[what] > 0 /\ left' = [left EXCEPT ![what] = @ - 1]

\* Notes with a recording, some of them transcribed already.
Init ==
    /\ jobs = EmptyTable(Meetings)
    /\ meeting = [m \in Meetings |-> "live"]
    /\ transcript \in [Meetings -> {"none", "current"}]
    /\ cleaned = [m \in Meetings |-> "none"]
    /\ stage = [m \in Meetings |-> "none"]
    /\ cancels = {}
    /\ aiq = EmptyQueue
    /\ recording = FALSE
    /\ tw = [WorkerStart EXCEPT !.pc = "gate"]
    /\ aw = AiStart
    /\ ut = MainStart
    /\ rd = ReDiarizeStart
    /\ left = Left

\* A slip a run must notice: a purge leaves the meeting's job.
PurgeKeepsJob(m) ==
    /\ meeting' = [meeting EXCEPT ![m] = "gone"]
    /\ transcript' = [transcript EXCEPT ![m] = "none"]
    /\ cleaned' = [cleaned EXCEPT ![m] = "none"]
    /\ UNCHANGED jobs

\* purge_if_orphaned and purge_meeting: row, transcript and job go together.
PurgeMeeting(m) ==
    /\ meeting' = [meeting EXCEPT ![m] = "gone"]
    /\ transcript' = [transcript EXCEPT ![m] = "none"]
    /\ cleaned' = [cleaned EXCEPT ![m] = "none"]
    /\ jobs' = DeleteTranscriptionJob(jobs, m)

PurgeIfOrphaned(m) ==
    IF meeting[m] = "orphan" THEN PurgeMeeting(m) ELSE UNCHANGED stored

----------------------------------------------------------------------------
(***************************************************************************)
(* The transcription worker: scheduler::tick, handle_tick and              *)
(* pipeline::run_with.                                                     *)
(***************************************************************************)
TStep(from, to) == tw.pc = from /\ tw' = [tw EXCEPT !.pc = to]
TSetStage(s) == stage' = [stage EXCEPT ![tw.m] = s]
TFail(err) == tw' = [tw EXCEPT !.pc = "failed", !.err = err]

TGate ==
    /\ ~recording
    /\ TStep("gate", "pick")
    /\ UNCHANGED <<stored, stage, cancels, aiq, recording, aw, ut, rd, left>>

TPick ==
    /\ tw.pc = "pick"
    /\ IF NextTranscriptionJob(jobs) = {}
       THEN tw' = [tw EXCEPT !.pc = "gate"]
       ELSE \E m \in NextTranscriptionJob(jobs) :
               tw' = [tw EXCEPT !.pc = "stop", !.m = m, !.err = "none",
                                !.attempts = jobs.row[m].attempts]
    /\ UNCHANGED <<stored, stage, cancels, aiq, recording, aw, ut, rd, left>>

\* A pass of this very meeting is stopped and waited for.
TStopPass ==
    /\ TStep("stop", IF Has(aiq.running, tw.m) THEN "wait" ELSE "mark")
    /\ aiq' = CancelRunning(aiq, tw.m)
    /\ UNCHANGED <<stored, stage, cancels, recording, aw, ut, rd, left>>

TWaitForPassEnd ==
    /\ ~Has(aiq.running, tw.m)
    /\ TStep("wait", "regate")
    /\ UNCHANGED <<stored, stage, cancels, aiq, recording, aw, ut, rd, left>>

TRegate ==
    /\ TStep("regate", IF recording THEN "gate" ELSE "mark")
    /\ UNCHANGED <<stored, stage, cancels, aiq, recording, aw, ut, rd, left>>

TMarkRunning ==
    /\ TStep("mark", "unwait")
    /\ jobs' = MarkRunning(jobs, tw.m)
    /\ UNCHANGED <<meeting, transcript, cleaned, stage, cancels, aiq, recording, aw, ut, rd, left>>

TClearWaiting ==
    /\ TStep("unwait", "guard")
    /\ TSetStage("none")
    /\ UNCHANGED <<stored, cancels, aiq, recording, aw, ut, rd, left>>

\* The guard is looked at and claimed under two locks.
TGuard ==
    /\ tw.pc = "guard"
    /\ IF stage[tw.m] # "none" THEN TFail("transient") ELSE TStep("guard", "claim")
    /\ UNCHANGED <<stored, stage, cancels, aiq, recording, aw, ut, rd, left>>

TClaim ==
    /\ TStep("claim", "load")
    /\ TSetStage("busy")
    /\ UNCHANGED <<stored, cancels, aiq, recording, aw, ut, rd, left>>

\* A meeting that is gone is an error like any other (retried); missing or
\* deleted audio is a permanent one.
TLoad ==
    /\ tw.pc = "load"
    /\ \/ meeting[tw.m] = "gone" /\ TFail("transient") /\ UNCHANGED left
       \/ meeting[tw.m] # "gone" /\ TFail("permanent") /\ Spend("faults")
       \/ meeting[tw.m] # "gone" /\ TStep("load", "asr") /\ UNCHANGED left
    /\ UNCHANGED <<stored, stage, cancels, aiq, recording, aw, ut, rd>>

\* Preparation, the engines (which poll for a cancel between batches) and the
\* check after the last batch.
TTranscribe ==
    /\ tw.pc = "asr"
    /\ \/ tw.m \in cancels /\ TFail("cancelled") /\ UNCHANGED <<stage, left>>
       \/ tw.m \notin cancels /\ TStep("asr", "diarize") /\ TSetStage("busy") /\ UNCHANGED left
       \/ \E err \in {"transient", "permanent"} : TFail(err) /\ Spend("faults") /\ UNCHANGED stage
    /\ UNCHANGED <<stored, cancels, aiq, recording, aw, ut, rd>>

\* Diarize, align, and the last cancel gate.
TDiarize ==
    /\ tw.pc = "diarize"
    /\ \/ tw.m \in cancels /\ TFail("cancelled") /\ UNCHANGED left
       \/ tw.m \notin cancels /\ TStep("diarize", "saving") /\ UNCHANGED left
       \/ TFail("transient") /\ Spend("faults")
    /\ UNCHANGED <<stored, stage, cancels, aiq, recording, aw, ut, rd>>

TEmitSaving ==
    /\ TStep("saving", "save")
    /\ TSetStage("busy")
    /\ UNCHANGED <<stored, cancels, aiq, recording, aw, ut, rd, left>>

\* What another actor has read of m's transcript is out of date from here on.
Stale(actor, m) == IF actor.m = m /\ actor.read = "current"
                   THEN [actor EXCEPT !.read = "stale"] ELSE actor

\* save_transcript and clear_cleaned_transcript, under one storage lock.
TSave ==
    /\ TStep("save", "release")
    /\ transcript' = [transcript EXCEPT ![tw.m] = "current"]
    /\ cleaned' = [cleaned EXCEPT ![tw.m] = "none"]
    /\ aw' = Stale(aw, tw.m)
    /\ rd' = Stale(rd, tw.m)
    /\ UNCHANGED <<jobs, meeting, stage, cancels, aiq, recording, ut, left>>

TRelease ==
    /\ TStep("release", "moot")
    /\ TSetStage("none")
    /\ UNCHANGED <<stored, cancels, aiq, recording, aw, ut, rd, left>>

\* A cancel that landed after the last gate is moot now.
TDropCancel ==
    /\ TStep("moot", "done")
    /\ cancels' = cancels \ {tw.m}
    /\ UNCHANGED <<stored, stage, aiq, recording, aw, ut, rd, left>>

TMarkDone ==
    /\ TStep("done", "queue")
    /\ jobs' = MarkDone(jobs, tw.m)
    /\ UNCHANGED <<meeting, transcript, cleaned, stage, cancels, aiq, recording, aw, ut, rd, left>>

\* queue_ai_pass: does nothing when the meeting is queued or running again.
TQueueAiPass ==
    /\ TStep("queue", IF stage[tw.m] = "none" THEN "push" ELSE "gate")
    /\ UNCHANGED <<stored, stage, cancels, aiq, recording, aw, ut, rd, left>>

TPushPass ==
    /\ TStep("push", "gate")
    /\ aiq' = Push(aiq, NewJob(tw.m, "AfterTranscription"))
    /\ UNCHANGED <<stored, stage, cancels, recording, aw, ut, rd, left>>

\* A run that fails for any reason while a cancel is pending ends cancelled.
TClassify ==
    /\ TStep("failed", IF tw.err = "cancelled" \/ tw.m \in cancels
                       THEN "cancelled" ELSE "error")
    /\ UNCHANGED <<stored, stage, cancels, aiq, recording, aw, ut, rd, left>>

TCancelledStage ==
    /\ TStep("cancelled", "honour")
    /\ TSetStage("none")
    /\ UNCHANGED <<stored, cancels, aiq, recording, aw, ut, rd, left>>

THonourCancel ==
    /\ TStep("honour", "delete")
    /\ cancels' = cancels \ {tw.m}
    /\ UNCHANGED <<stored, stage, aiq, recording, aw, ut, rd, left>>

\* A slip a run must notice: a cancelled run leaves its row.
TDeleteJobSkipped ==
    /\ TStep("delete", "purge")
    /\ UNCHANGED <<stored, stage, cancels, aiq, recording, aw, ut, rd, left>>

TDeleteJob ==
    /\ TStep("delete", "purge")
    /\ jobs' = DeleteTranscriptionJob(jobs, tw.m)
    /\ UNCHANGED <<meeting, transcript, cleaned, stage, cancels, aiq, recording, aw, ut, rd, left>>

\* A slip a run must notice: a cancelled run purges nothing.
TFinishCancelledKeeps ==
    /\ TStep("purge", "gate")
    /\ UNCHANGED <<stored, stage, cancels, aiq, recording, aw, ut, rd, left>>

TFinishCancelled ==
    /\ TStep("purge", "gate")
    /\ PurgeIfOrphaned(tw.m)
    /\ UNCHANGED <<stage, cancels, aiq, recording, aw, ut, rd, left>>

TErrorStage ==
    /\ TStep("error", "park")
    /\ TSetStage("none")
    /\ UNCHANGED <<stored, cancels, aiq, recording, aw, ut, rd, left>>

\* A slip a run must notice: one try too many.
RetriesOnceMore == tw.attempts + 1 <= MaxAttempts /\ tw.err # "permanent"

\* The attempts are those read when the job was picked up, plus this one.
Retries == tw.attempts + 1 < MaxAttempts /\ tw.err # "permanent"

TParkOrRequeue ==
    /\ TStep("park", IF Retries THEN "rewait" ELSE "gate")
    /\ jobs' = IF Retries
               THEN RequeueTranscription(jobs, tw.m, tw.attempts + 1)
               ELSE MarkFailed(jobs, tw.m, tw.attempts + 1)
    /\ UNCHANGED <<meeting, transcript, cleaned, stage, cancels, aiq, recording, aw, ut, rd, left>>

TMarkWaiting ==
    /\ TStep("rewait", "gate")
    /\ TSetStage("waiting")
    /\ UNCHANGED <<stored, cancels, aiq, recording, aw, ut, rd, left>>

\* recover: interrupted jobs are queued again, every queued one shows as
\* waiting; then the saved passes of meetings with a transcript come back,
\* unless their meeting is waiting.
TRecover ==
    /\ tw.pc = "recover"
    /\ jobs' = ResetRunning(jobs)
    /\ tw' = [tw EXCEPT !.pc = "waiting",
                        !.ids = {m \in Meetings : Status(jobs', m) = "queued"}]
    /\ UNCHANGED <<meeting, transcript, cleaned, stage, cancels, aiq, recording, aw, ut, rd, left>>

TRecoverWaiting ==
    /\ tw.pc = "waiting"
    /\ IF tw.ids = {}
       THEN TStep("waiting", "read") /\ UNCHANGED stage
       ELSE \E m \in tw.ids : /\ tw' = [tw EXCEPT !.ids = @ \ {m}]
                              /\ stage' = [stage EXCEPT ![m] = "waiting"]
    /\ UNCHANGED <<stored, cancels, aiq, recording, aw, ut, rd, left>>

TReadPasses ==
    /\ tw.pc = "read"
    /\ tw' = [tw EXCEPT !.pc = "passes",
                        !.passes = {j \in @ : /\ meeting[j.meeting] # "gone"
                                              /\ transcript[j.meeting] # "none"}]
    /\ UNCHANGED <<stored, stage, cancels, aiq, recording, aw, ut, rd, left>>

TRecoverPass ==
    /\ tw.pc = "passes"
    /\ IF tw.passes = {} THEN TStep("passes", "gate")
       ELSE \E j \in tw.passes :
               tw' = [tw EXCEPT !.passes = @ \ {j}, !.m = j.meeting, !.kind = j.kind,
                                !.pc = IF stage[j.meeting] = "none" THEN "repush" ELSE @]
    /\ UNCHANGED <<stored, stage, cancels, aiq, recording, aw, ut, rd, left>>

TPushRecovered ==
    /\ TStep("repush", "passes")
    /\ aiq' = Push(aiq, NewJob(tw.m, tw.kind))
    /\ UNCHANGED <<stored, stage, cancels, recording, aw, ut, rd, left>>

TranscriptionWorker ==
    \/ TGate \/ TPick \/ TStopPass \/ TWaitForPassEnd \/ TRegate \/ TMarkRunning
    \/ TClearWaiting \/ TGuard \/ TClaim \/ TLoad \/ TTranscribe \/ TDiarize
    \/ TEmitSaving \/ TSave \/ TRelease \/ TDropCancel \/ TMarkDone
    \/ TQueueAiPass \/ TPushPass \/ TClassify \/ TCancelledStage \/ THonourCancel
    \/ TDeleteJob \/ TFinishCancelled \/ TErrorStage \/ TParkOrRequeue
    \/ TMarkWaiting \/ TRecover \/ TRecoverWaiting \/ TReadPasses \/ TRecoverPass \/ TPushRecovered

----------------------------------------------------------------------------
(***************************************************************************)
(* The AI worker: run_next_ai_job, ai_pass and run_polish.                 *)
(***************************************************************************)
AStep(from, to) == aw.pc = from /\ aw' = [aw EXCEPT !.pc = to]

AGate ==
    /\ ~recording
    /\ AStep("gate", "next")
    /\ UNCHANGED <<stored, stage, cancels, aiq, recording, tw, ut, rd, left>>

ANext ==
    /\ aw.pc = "next"
    /\ IF CanStart(aiq)
       THEN /\ aiq' = Start(aiq)
            /\ aw' = [pc |-> "begin", m |-> Head(aiq.pending).meeting,
                      kind |-> Head(aiq.pending).kind, read |-> "none"]
       ELSE aiq' = aiq /\ aw' = [aw EXCEPT !.pc = "gate"]
    /\ UNCHANGED <<stored, stage, cancels, recording, tw, ut, rd, left>>

\* Cleanup first, except after a speaker change.
ABegin ==
    /\ aw.pc = "begin"
    /\ IF aw.kind = "ExtractOnly"
       THEN AStep("begin", "extract") /\ UNCHANGED stage
       ELSE AStep("begin", "read") /\ stage' = [stage EXCEPT ![aw.m] = "polishing"]
    /\ UNCHANGED <<stored, cancels, aiq, recording, tw, ut, rd, left>>

\* run_polish reads the raw transcript; a provider that refuses, or no
\* transcript, ends the cleanup.
AReadTranscript ==
    /\ aw.pc = "read"
    /\ \/ transcript[aw.m] # "none" /\ aw' = [aw EXCEPT !.pc = "chat", !.read = "current"]
       \/ AStep("read", "unmark")
    /\ UNCHANGED <<stored, stage, cancels, aiq, recording, tw, ut, rd, left>>

\* The model's answer is saved (an UPDATE of the transcript's row), or it
\* failed or took too long.
ASaveCleaned ==
    /\ aw.pc = "chat"
    /\ aw' = [aw EXCEPT !.pc = "unmark", !.read = "none"]
    /\ \/ transcript[aw.m] # "none" /\ cleaned' = [cleaned EXCEPT ![aw.m] = aw.read]
       \/ UNCHANGED cleaned
    /\ UNCHANGED <<jobs, meeting, transcript, stage, cancels, aiq, recording, tw, ut, rd, left>>

\* Only the pass's own marker is cleared.
Unpolish(m) == stage' = IF stage[m] = "polishing" THEN [stage EXCEPT ![m] = "none"] ELSE stage

AClearMarker ==
    /\ AStep("unmark", "extract")
    /\ Unpolish(aw.m)
    /\ UNCHANGED <<stored, cancels, aiq, recording, tw, ut, rd, left>>

AExtract ==
    /\ AStep("extract", "finished")
    /\ UNCHANGED <<stored, stage, cancels, aiq, recording, tw, ut, rd, left>>

\* At an await of the pass, the cancel wins the select.
ACancelled ==
    /\ aiq.cancel
    /\ aw.pc \in {"begin", "read", "chat", "extract"}
    /\ aw' = [aw EXCEPT !.pc = "abandon", !.read = "none"]
    /\ UNCHANGED <<stored, stage, cancels, aiq, recording, tw, ut, rd, left>>

\* A slip a run must notice: a pass dropped where it stands leaves its marker.
AAbandonKeepsMarker ==
    /\ AStep("abandon", "finished")
    /\ UNCHANGED <<stored, stage, cancels, aiq, recording, tw, ut, rd, left>>

AAbandon ==
    /\ AStep("abandon", "finished")
    /\ Unpolish(aw.m)
    /\ UNCHANGED <<stored, cancels, aiq, recording, tw, ut, rd, left>>

\* A slip a run must notice: a pass that ends purges nothing.
APurgeSkipped ==
    /\ AStep("finished", "drop")
    /\ UNCHANGED <<stored, stage, cancels, aiq, recording, tw, ut, rd, left>>

APurge ==
    /\ AStep("finished", "drop")
    /\ PurgeIfOrphaned(aw.m)
    /\ UNCHANGED <<stage, cancels, aiq, recording, tw, ut, rd, left>>

ADropRunning ==
    /\ AStep("drop", "gate")
    /\ aiq' = Finish(aiq)
    /\ UNCHANGED <<stored, stage, cancels, recording, tw, ut, rd, left>>

AiWorker ==
    \/ AGate \/ ANext \/ ABegin \/ AReadTranscript \/ ASaveCleaned \/ AClearMarker
    \/ AExtract \/ ACancelled \/ AAbandon \/ APurge \/ ADropRunning

----------------------------------------------------------------------------
(***************************************************************************)
(* The main thread, which runs the synchronous commands one at a time.     *)
(***************************************************************************)
UStep(from, to) == ut.pc = from /\ ut' = [ut EXCEPT !.pc = to]
Command(op) == ut.pc = "idle" /\ op \in Commands /\ Spend("commands")

\* transcribe_meeting: enqueue.  Only a newly queued job clears what an
\* earlier run of the meeting left.
UEnqueue(m) ==
    /\ Command("transcribe")
    /\ meeting[m] = "live"
    /\ jobs' = EnqueueTranscription(jobs, m)
    /\ ut' = [pc |-> IF CanEnqueue(jobs, m) THEN "uncancel" ELSE "idle",
              m |-> m, op |-> "transcribe"]
    /\ UNCHANGED <<meeting, transcript, cleaned, stage, cancels, aiq, recording, tw, aw, rd>>

UEnqueueUncancel ==
    /\ UStep("uncancel", "drop")
    /\ cancels' = cancels \ {ut.m}
    /\ UNCHANGED <<stored, stage, aiq, recording, tw, aw, rd, left>>

UEnqueueDropPass ==
    /\ UStep("drop", "wait")
    /\ aiq' = RemovePending(aiq, ut.m)
    /\ UNCHANGED <<stored, stage, cancels, recording, tw, aw, rd, left>>

UEnqueueMarkWaiting ==
    /\ UStep("wait", "idle")
    /\ stage' = [stage EXCEPT ![ut.m] = "waiting"]
    /\ UNCHANGED <<stored, cancels, aiq, recording, tw, aw, rd, left>>

\* scheduler::cancel, from cancel_transcription or delete_note.
AfterCancel == IF ut.op = "delete" THEN "note" ELSE "idle"

UCancel(m, op) ==
    /\ op \in {"cancel", "delete"} /\ Command(op)
    /\ meeting[m] = "live"
    /\ aiq' = RemovePending(aiq, m)
    /\ ut' = [pc |-> "look", m |-> m, op |-> op]
    /\ UNCHANGED <<stored, stage, cancels, recording, tw, aw, rd>>

UCancelLook ==
    /\ UStep("look", IF stage[ut.m] \in {"none", "waiting"} THEN "job" ELSE "request")
    /\ UNCHANGED <<stored, stage, cancels, aiq, recording, tw, aw, rd, left>>

UCancelRequest ==
    /\ UStep("request", AfterCancel)
    /\ cancels' = cancels \cup {ut.m}
    /\ UNCHANGED <<stored, stage, aiq, recording, tw, aw, rd, left>>

\* A job queued or running is removed on the spot.
UCancelJob ==
    /\ ut.pc = "job"
    /\ IF CanEnqueue(jobs, ut.m)
       THEN /\ ut' = [ut EXCEPT !.pc = IF ut.op = "cancel" THEN "parked" ELSE AfterCancel]
            /\ UNCHANGED jobs
       ELSE /\ ut' = [ut EXCEPT !.pc = "race"]
            /\ jobs' = DeleteTranscriptionJob(jobs, ut.m)
    /\ UNCHANGED <<meeting, transcript, cleaned, stage, cancels, aiq, recording, tw, aw, rd, left>>

\* The worker may have picked the job up meanwhile: a request stops that run.
UCancelGuardPickup ==
    /\ UStep("race", "unstage")
    /\ cancels' = cancels \cup {ut.m}
    /\ UNCHANGED <<stored, stage, aiq, recording, tw, aw, rd, left>>

UCancelUnstage ==
    /\ UStep("unstage", AfterCancel)
    /\ stage' = [stage EXCEPT ![ut.m] = "none"]
    /\ UNCHANGED <<stored, cancels, aiq, recording, tw, aw, rd, left>>

\* cancel_staged_transcription: nothing was in flight; a parked failure goes.
UCancelParked ==
    /\ UStep("parked", "idle")
    /\ jobs' = IF Status(jobs, ut.m) = "failed"
               THEN DeleteTranscriptionJob(jobs, ut.m) ELSE jobs
    /\ UNCHANGED <<meeting, transcript, cleaned, stage, cancels, aiq, recording, tw, aw, rd, left>>

\* delete_note_with after the cancel: the note, the running pass, and the
\* meeting unless it is busy.
UDeleteNote ==
    /\ UStep("note", "pass")
    /\ meeting' = [meeting EXCEPT ![ut.m] = "orphan"]
    /\ UNCHANGED <<jobs, transcript, cleaned, stage, cancels, aiq, recording, tw, aw, rd, left>>

UDeleteStopPass ==
    /\ UStep("pass", "busy")
    /\ aiq' = CancelRunning(aiq, ut.m)
    /\ UNCHANGED <<stored, stage, cancels, recording, tw, aw, rd, left>>

UDeleteLook ==
    /\ UStep("busy", IF stage[ut.m] = "none" THEN "purge" ELSE "idle")
    /\ UNCHANGED <<stored, stage, cancels, aiq, recording, tw, aw, rd, left>>

UDeletePurge ==
    /\ UStep("purge", "idle")
    /\ PurgeMeeting(ut.m)
    /\ UNCHANGED <<stage, cancels, aiq, recording, tw, aw, rd, left>>

MainThread ==
    \/ UEnqueueUncancel \/ UEnqueueDropPass \/ UEnqueueMarkWaiting \/ UCancelLook
    \/ UCancelRequest \/ UCancelJob \/ UCancelGuardPickup \/ UCancelUnstage
    \/ UCancelParked \/ UDeleteNote \/ UDeleteStopPass \/ UDeleteLook \/ UDeletePurge

----------------------------------------------------------------------------
(***************************************************************************)
(* re_diarize_meeting / re_diarize_with, on a thread of the runtime.       *)
(***************************************************************************)
RStep(from, to) == rd.pc = from /\ rd' = [rd EXCEPT !.pc = to]

\* Looked at and claimed under one lock.
RClaim(m) ==
    /\ rd.pc = "idle" /\ "rediarize" \in Commands /\ Spend("commands")
    /\ meeting[m] = "live"
    /\ stage[m] = "none"
    /\ stage' = [stage EXCEPT ![m] = "busy"]
    /\ rd' = [pc |-> "read", m |-> m, read |-> "none", ok |-> FALSE]
    /\ UNCHANGED <<stored, cancels, aiq, recording, tw, aw, ut>>

RRead ==
    /\ rd.pc = "read"
    /\ IF transcript[rd.m] = "none" THEN RStep("read", "release")
       ELSE rd' = [rd EXCEPT !.pc = "diarize", !.read = "current"]
    /\ UNCHANGED <<stored, stage, cancels, aiq, recording, tw, aw, ut, left>>

\* Every stage of the work writes the meeting's entry again; the diarizer may fail.
RDiarize ==
    /\ rd.pc = "diarize"
    /\ \/ RStep("diarize", "save") /\ UNCHANGED left
       \/ RStep("diarize", "release") /\ Spend("faults")
    /\ stage' = [stage EXCEPT ![rd.m] = "busy"]
    /\ UNCHANGED <<stored, cancels, aiq, recording, tw, aw, ut>>

\* The whole transcript read at the start is written back (an upsert, which
\* asks for no meeting row).
RSave ==
    /\ rd.pc = "save"
    /\ transcript' = [transcript EXCEPT ![rd.m] = IF rd.read = "stale" THEN "old" ELSE rd.read]
    /\ rd' = [rd EXCEPT !.pc = "release", !.ok = TRUE, !.read = "none"]
    /\ UNCHANGED <<jobs, meeting, cleaned, stage, cancels, aiq, recording, tw, aw, ut, left>>

RRelease ==
    /\ RStep("release", IF rd.ok THEN "queue" ELSE "idle")
    /\ stage' = [stage EXCEPT ![rd.m] = "none"]
    /\ UNCHANGED <<stored, cancels, aiq, recording, tw, aw, ut, left>>

RQueueExtraction ==
    /\ RStep("queue", IF stage[rd.m] = "none" THEN "push" ELSE "idle")
    /\ UNCHANGED <<stored, stage, cancels, aiq, recording, tw, aw, ut, left>>

RPushExtraction ==
    /\ RStep("push", "idle")
    /\ aiq' = Push(aiq, NewJob(rd.m, "ExtractOnly"))
    /\ UNCHANGED <<stored, stage, cancels, recording, tw, aw, ut, left>>

ReDiarize == RRead \/ RDiarize \/ RSave \/ RRelease \/ RQueueExtraction \/ RPushExtraction

----------------------------------------------------------------------------
StartRecording ==
    /\ ~recording
    /\ Spend("recordings")
    /\ recording' = TRUE
    /\ UNCHANGED <<stored, stage, cancels, aiq, actors>>

StopRecording ==
    /\ recording
    /\ recording' = FALSE
    /\ UNCHANGED <<stored, stage, cancels, aiq, actors, left>>

\* The process ends and starts again: the database stays, memory does not.
Restart ==
    /\ Spend("crashes")
    /\ stage' = [m \in Meetings |-> "none"]
    /\ cancels' = {}
    /\ aiq' = EmptyQueue
    /\ recording' = FALSE
    /\ \E saved \in SUBSET {NewJob(j.meeting, j.kind) : j \in Snapshot(aiq)} :
           tw' = [WorkerStart EXCEPT !.passes = saved]
    /\ aw' = AiStart /\ ut' = MainStart /\ rd' = ReDiarizeStart
    /\ UNCHANGED stored

Next ==
    \/ TranscriptionWorker
    \/ AiWorker
    \/ \E m \in Meetings : UEnqueue(m) \/ (\E op \in Commands : UCancel(m, op)) \/ RClaim(m)
    \/ MainThread
    \/ ReDiarize
    \/ StartRecording \/ StopRecording \/ Restart

Spec == Init /\ [][Next]_vars
----------------------------------------------------------------------------
(***************************************************************************)
(* Fairness.  Both workers loop for ever on the async runtime; everything  *)
(* a run or a pass awaits ends (requests, engines and the cleanup have     *)
(* limits of their own, and what a hung engine does is a fault).  A        *)
(* command, once given, runs to its end.  No command need ever be given,   *)
(* and the user may record for as long as they like.                       *)
(***************************************************************************)
Fairness ==
    WF_vars(TranscriptionWorker) /\ WF_vars(AiWorker)
        /\ WF_vars(MainThread) /\ WF_vars(ReDiarize)

FairSpec == Spec /\ Fairness

----------------------------------------------------------------------------
(***************************************************************************)
(* Properties.                                                             *)
(***************************************************************************)
RunSteps == {"load", "asr", "diarize", "saving", "save", "release"}
FailSteps == {"failed", "cancelled", "honour", "delete", "purge", "error", "park"}
WorkerSteps ==
    {"recover", "waiting", "read", "passes", "repush", "gate", "pick", "stop", "wait", "regate",
     "mark", "unwait", "guard", "claim", "moot", "done", "queue", "push", "rewait"}
        \cup RunSteps \cup FailSteps
PassSteps == {"begin", "read", "chat", "unmark", "extract", "abandon", "finished"}
MainSteps ==
    {"idle", "uncancel", "drop", "wait", "look", "request", "job", "race", "unstage",
     "parked", "note", "pass", "busy", "purge"}
ReDiarizeSteps == {"idle", "read", "diarize", "save", "release", "queue", "push"}
Reads == {"none", "current", "stale"}

CapturesEnd == <>[](~recording)

Restarted == tw.pc = "recover"

\* Every variable keeps its shape.
TypeOK ==
    /\ jobs \in Table(Meetings)
    /\ meeting \in [Meetings -> {"live", "orphan", "gone"}]
    /\ transcript \in [Meetings -> {"none", "current", "old"}]
    /\ cleaned \in [Meetings -> Reads]
    /\ stage \in [Meetings -> {"none", "waiting", "busy", "polishing"}]
    /\ cancels \subseteq Meetings
    /\ aiq \in Queue
    /\ recording \in BOOLEAN
    /\ tw \in [pc : WorkerSteps, m : Meetings, attempts : Nat,
               err : {"none", "transient", "permanent", "cancelled"},
               kind : Kinds, ids : SUBSET Meetings, passes : SUBSET Job]
    /\ aw \in [pc : PassSteps \cup {"gate", "next", "drop"}, m : Meetings,
               kind : Kinds, read : Reads]
    /\ ut \in [pc : MainSteps, m : Meetings, op : {"transcribe", "cancel", "delete"}]
    /\ rd \in [pc : ReDiarizeSteps, m : Meetings, read : Reads, ok : BOOLEAN]
    /\ left \in [{"commands", "faults", "recordings", "crashes"} -> Nat]

\* A job says "running" only while the worker is at work on it, or before a
\* restart has reset it: a job left "running" with nobody on it would never be
\* run again, because Transcribe leaves it untouched (enqueue_transcription).
RunningHasOwner ==
    \A m \in Meetings : Status(jobs, m) = "running" =>
        \/ tw.pc = "recover"
        \/ /\ tw.m = m
           /\ tw.pc \in {"unwait", "guard", "claim", "moot", "done"}
                           \cup RunSteps \cup FailSteps

\* A busy marker has an owner still at work, who will clear it: one left behind
\* would shut the meeting out of transcription, re-analysis and deletion until
\* the app is restarted (run_inner, re_diarize_with, ai_pass, abandon_pass).
MarkerHasOwner ==
    \A m \in Meetings :
        /\ stage[m] = "busy" =>
             \/ tw.m = m /\ tw.pc \in RunSteps \cup {"failed", "cancelled", "error"}
             \/ rd.m = m /\ rd.pc \in {"read", "diarize", "save", "release"}
        /\ stage[m] = "polishing" =>
             aw.m = m /\ aw.pc \in {"read", "chat", "unmark", "abandon"}

\* However cancels, new requests, restarts and failures fall, a job is tried at
\* most MAX_ATTEMPTS times: one that still waits has a try left (tick).
RetriesBounded ==
    \A m \in Meetings :
        /\ jobs.row[m].attempts <= MaxAttempts
        /\ Status(jobs, m) \in {"queued", "running"} => jobs.row[m].attempts < MaxAttempts

\* A request to transcribe is dealt with as TranscriptionRequests promises: it is
\* done only with a transcript there, though the run writes the transcript, the
\* user's commands the requests, and a purge erases both, each under a lock of its
\* own; its tries only go up, though they are read before the run and written
\* after it; and nothing but a cancel or a purge takes it away (tick,
\* enqueue_transcription, cancel, purge_meeting).
Requests == INSTANCE TranscriptionRequests WITH
    MaxTries <- MaxAttempts,
    request <- [m \in Meetings |-> Status(jobs, m)],
    tries <- [m \in Meetings |-> jobs.row[m].attempts],
    text <- {m \in Meetings : transcript[m] # "none"}
RefinesRequests == Requests!Spec

\* A queued job comes to an end once captures have ended (enqueue: "The worker
\* picks it up when no recording is active"), past retries, a pass to stop,
\* collisions on the guard, cancels and restarts.
QueuedJobsEnd ==
    CapturesEnd =>
        \A m \in Meetings :
            Status(jobs, m) = "queued" ~> Status(jobs, m) \notin {"queued", "running"}

\* A note deleted while a pass works on its meeting leaves the meeting to the
\* pass, which purges it however it ends (run_next_ai_job, abandon_pass), if
\* the process lives.
DeletedUnderPassIsPurged ==
    CapturesEnd =>
        \A m \in Meetings :
            meeting[m] = "orphan" /\ aw.m = m /\ aw.pc \in PassSteps
                ~> meeting[m] = "gone" \/ Restarted

\* A note deleted while its meeting is transcribed leaves the meeting to the
\* run (or to the pass it queues), which purges it unless its job gave up, if
\* the process lives (tick, finish_cancelled).
DeletedUnderRunIsPurged ==
    CapturesEnd =>
        \A m \in Meetings :
            meeting[m] = "orphan" /\ tw.m = m /\ tw.pc \in RunSteps
                ~> meeting[m] = "gone" \/ Status(jobs, m) = "failed" \/ Restarted

\* "Meetings must not survive as orphans" (commands.rs).
OrphansArePurged ==
    \A m \in Meetings : meeting[m] = "orphan" ~> meeting[m] = "gone"

\* "One pipeline per meeting at a time" (pipeline.rs): a run and a re-analysis
\* never overlap, so neither writes over what the other saved.
NoOldTranscript == \A m \in Meetings : transcript[m] # "old"

\* "so nothing writes under the new run" (scheduler.rs, tick).
NoStaleCleanup == \A m \in Meetings : cleaned[m] # "stale"
=============================================================================
