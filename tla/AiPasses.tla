----------------------------- MODULE AiPasses ------------------------------
(***************************************************************************)
(* The AI passes: the queue (AiQueue), its saved row ai.pending_passes,    *)
(* the worker that runs one pass at a time, the threads that queue and     *)
(* drop passes, "Delete all my data", and the process that quits, crashes  *)
(* and starts again (src-tauri/src/scheduler.rs, ai_queue.rs,              *)
(* privacy.rs).                                                            *)
(*                                                                         *)
(* Each step is what the code does under one lock: the queue's mutex, or   *)
(* the storage lock (persist_ai_queue takes its snapshot inside it).       *)
(* What a pass does to its meeting, and the per-meeting busy marker that   *)
(* may make queue_ai_job return early, are in Scheduler.                   *)
(***************************************************************************)
EXTENDS AiQueue

CONSTANTS
    Threads,          \* command threads and the transcription worker
    AskedKinds,       \* bound: the kinds of pass they ask for
    MaxPassAttempts,  \* MAX_PASS_ATTEMPTS
    MaxAsks,          \* bound: calls that queue or drop a pass
    MaxCrashes,       \* bound: the process dies unannounced
    MaxQuits,         \* bound: the process quits
    MaxWipes,         \* bound: "Delete all my data"
    MaxRecordings     \* bound: captures started

ASSUME MaxPassAttemptsAssumption == MaxPassAttempts \in Nat \ {0}
ASSUME BoundsAssumption ==
    /\ AskedKinds \subseteq Kinds
    /\ MaxAsks \in Nat /\ MaxCrashes \in Nat /\ MaxQuits \in Nat
    /\ MaxWipes \in Nat /\ MaxRecordings \in Nat

VARIABLES
    aiq,        \* AppState::ai_queue
    row,        \* the jobs in settings row ai.pending_passes
    kept,       \* meetings that exist and have a transcript
    recording,  \* an audio or screen capture is active
    thread,     \* thread[c]: where a thread stands, and the job it pushes
    worker,     \* where the AI worker stands
    boot,       \* where recover_ai_passes stands, and the jobs it still has
    wipe,       \* where delete_all_data stands
    quitting,   \* RunEvent::Exit has saved the queue
    deaths,     \* history: crashes inside m's pass since it was last asked for
    left        \* what the bounds leave

vars == <<aiq, row, kept, recording, thread, worker, boot, wipe, quitting,
          deaths, left>>

Idle == [pc |-> "idle", job |-> <<>>]
ThreadStates == [pc : {"idle", "push", "persist"}, job : Seq(Job)]

WorkerStates == {"idle", "next", "started", "run", "ended", "finished"}
WipeStates == {"idle", "wait", "erase", "forget", "resume", "persist"}
BootStates == {"read", "take", "push", "persist", "save", "done"}
Left == [asks |-> MaxAsks, crashes |-> MaxCrashes, quits |-> MaxQuits,
         wipes |-> MaxWipes, recordings |-> MaxRecordings]

\* A freshly started process: nothing in memory, recovery ahead.
FreshProcess ==
    /\ aiq' = EmptyQueue
    /\ recording' = FALSE
    /\ thread' = [c \in Threads |-> Idle]
    /\ worker' = "idle"
    /\ boot' = [pc |-> "read", jobs |-> {}, job |-> <<>>]
    /\ wipe' = "idle"
    /\ quitting' = FALSE

\* A first launch, whose recovery found no saved queue.
Init ==
    /\ aiq = EmptyQueue
    /\ row = {}
    /\ kept = Meetings
    /\ recording = FALSE
    /\ thread = [c \in Threads |-> Idle]
    /\ worker = "idle"
    /\ boot = [pc |-> "done", jobs |-> {}, job |-> <<>>]
    /\ wipe = "idle"
    /\ quitting = FALSE
    /\ deaths = [m \in Meetings |-> 0]
    /\ left = Left

Spend(what) == left[what] > 0 /\ left' = [left EXCEPT ![what] = @ - 1]

\* A slip a run must notice: only the meetings are saved.
PersistMeetings == row' = Unfinished(aiq)

PersistAiQueue == row' = Snapshot(aiq)

----------------------------------------------------------------------------
(***************************************************************************)
(* Threads that queue, drop and cancel passes.                             *)
(***************************************************************************)

\* queue_ai_job up to its push: refused while halted.
QueueAiJob(c, m, k) ==
    /\ thread[c].pc = "idle"
    /\ m \in kept
    /\ Spend("asks")
    /\ ~aiq.halted
    /\ thread' = [thread EXCEPT ![c] = [pc |-> "push", job |-> <<NewJob(m, k)>>]]
    /\ UNCHANGED <<aiq, row, kept, recording, worker, boot, wipe, quitting, deaths>>

PushJob(c) ==
    /\ thread[c].pc = "push"
    /\ LET j == thread[c].job[1]
       IN  /\ aiq' = Push(aiq, j)
           /\ deaths' = [deaths EXCEPT ![j.meeting] = 0]
    /\ thread' = [thread EXCEPT ![c] = [pc |-> "persist", job |-> <<>>]]
    /\ UNCHANGED <<row, kept, recording, worker, boot, wipe, quitting, left>>

\* enqueue and cancel: a pass that hasn't started is dropped, and the queue
\* saved when that changed it.
DropPending(c, m) ==
    /\ thread[c].pc = "idle"
    /\ Spend("asks")
    /\ aiq' = RemovePending(aiq, m)
    /\ thread' = IF Has(aiq.pending, m)
                 THEN [thread EXCEPT ![c] = [pc |-> "persist", job |-> <<>>]]
                 ELSE thread
    /\ UNCHANGED <<row, kept, recording, worker, boot, wipe, quitting, deaths>>

PersistByThread(c) ==
    /\ thread[c].pc = "persist"
    /\ PersistAiQueue
    /\ thread' = [thread EXCEPT ![c] = Idle]
    /\ UNCHANGED <<aiq, kept, recording, worker, boot, wipe, quitting, deaths, left>>

\* A meeting is purged (its note deleted).
PurgeMeeting(m) ==
    /\ m \in kept
    /\ Spend("asks")
    /\ kept' = kept \ {m}
    /\ UNCHANGED <<aiq, row, recording, thread, worker, boot, wipe, quitting, deaths>>

----------------------------------------------------------------------------
(***************************************************************************)
(* run_next_ai_job: the worker's loop.                                     *)
(***************************************************************************)
Gate ==
    /\ worker = "idle" /\ ~recording
    /\ worker' = "next"
    /\ UNCHANGED <<aiq, row, kept, recording, thread, boot, wipe, quitting, deaths, left>>

NextJob ==
    /\ worker = "next"
    /\ IF CanStart(aiq)
       THEN aiq' = Start(aiq) /\ worker' = "started"
       ELSE aiq' = aiq /\ worker' = "idle"
    /\ UNCHANGED <<row, kept, recording, thread, boot, wipe, quitting, deaths, left>>

\* A slip a run must notice: the attempt is not on record when the pass starts.
PersistStartSkipped ==
    /\ worker = "started"
    /\ worker' = "run"
    /\ UNCHANGED <<aiq, row, kept, recording, thread, boot, wipe, quitting, deaths, left>>

\* The attempt is on record before the pass starts.
PersistStart ==
    /\ worker = "started"
    /\ PersistAiQueue
    /\ worker' = "run"
    /\ UNCHANGED <<aiq, kept, recording, thread, boot, wipe, quitting, deaths, left>>

\* The pass runs to its end, or is dropped because it was cancelled.
PassEnds ==
    /\ worker = "run"
    /\ worker' = "ended"
    /\ UNCHANGED <<aiq, row, kept, recording, thread, boot, wipe, quitting, deaths, left>>

\* A slip a run must notice: the queue is not saved when a pass ends.
DropRunningUnsaved ==
    /\ worker = "ended"
    /\ aiq' = Finish(aiq)
    /\ worker' = "idle"
    /\ UNCHANGED <<row, kept, recording, thread, boot, wipe, quitting, deaths, left>>

DropRunning ==
    /\ worker = "ended"
    /\ aiq' = Finish(aiq)
    /\ worker' = "finished"
    /\ UNCHANGED <<row, kept, recording, thread, boot, wipe, quitting, deaths, left>>

PersistEnd ==
    /\ worker = "finished"
    /\ PersistAiQueue
    /\ worker' = "idle"
    /\ UNCHANGED <<aiq, kept, recording, thread, boot, wipe, quitting, deaths, left>>

RunNextAiJob == Gate \/ NextJob \/ PersistStart \/ PassEnds \/ DropRunning \/ PersistEnd

----------------------------------------------------------------------------
(***************************************************************************)
(* recover_ai_passes, in the transcription worker before its loop.         *)
(***************************************************************************)
Recoverable(j) == j.attempts < MaxPassAttempts /\ j.meeting \in kept

ReadRow ==
    /\ boot.pc = "read"
    /\ boot' = [pc |-> "take", jobs |-> {j \in row : Recoverable(j)}, job |-> <<>>]
    /\ UNCHANGED <<aiq, row, kept, recording, thread, worker, wipe, quitting, deaths, left>>

\* The next saved job; queue_ai_job drops it when the queue is halted, or its
\* meeting was queued for transcription again ("waiting", any time).
TakeJob ==
    /\ boot.pc = "take"
    /\ IF boot.jobs = {}
       THEN boot' = [boot EXCEPT !.pc = "save"]
       ELSE \E j \in boot.jobs :
               \/ boot' = [pc |-> "push", jobs |-> boot.jobs \ {j}, job |-> <<j>>]
                  /\ ~aiq.halted
               \/ boot' = [boot EXCEPT !.jobs = @ \ {j}]
    /\ UNCHANGED <<aiq, row, kept, recording, thread, worker, wipe, quitting, deaths, left>>

PushRecovered ==
    /\ boot.pc = "push"
    /\ aiq' = Push(aiq, boot.job[1])
    /\ boot' = [boot EXCEPT !.pc = "persist", !.job = <<>>]
    /\ UNCHANGED <<row, kept, recording, thread, worker, wipe, quitting, deaths, left>>

\* queue_ai_job saves after each push, recover_ai_passes once more at its end.
PersistRecovered ==
    /\ boot.pc \in {"persist", "save"}
    /\ PersistAiQueue
    /\ boot' = [boot EXCEPT !.pc = IF @ = "persist" THEN "take" ELSE "done"]
    /\ UNCHANGED <<aiq, kept, recording, thread, worker, wipe, quitting, deaths, left>>

RecoverAiPasses == ReadRow \/ TakeJob \/ PushRecovered \/ PersistRecovered

----------------------------------------------------------------------------
(***************************************************************************)
(* delete_all_data / perform_delete_all, the part that meets the passes.   *)
(***************************************************************************)
HaltAiPasses ==
    /\ wipe = "idle"
    /\ Spend("wipes")
    /\ aiq' = Halt(aiq)
    /\ wipe' = "wait"
    /\ UNCHANGED <<row, kept, recording, thread, worker, boot, quitting, deaths>>

\* Until no pass runs, or the time is up and the wipe is refused.
WaitNotBusy ==
    /\ wipe = "wait"
    /\ wipe' = IF aiq.running = <<>> THEN "erase" ELSE "resume"
    /\ UNCHANGED <<aiq, row, kept, recording, thread, worker, boot, quitting, deaths, left>>

\* The database is emptied, the saved queue with everything else; or the
\* marker or the erase fails and nothing is.
EraseContent ==
    /\ wipe = "erase"
    /\ \/ row' = {} /\ kept' = {} /\ wipe' = "forget"
       \/ UNCHANGED <<row, kept>> /\ wipe' = "resume"
    /\ UNCHANGED <<aiq, recording, thread, worker, boot, quitting, deaths, left>>

ForgetHalted ==
    /\ wipe = "forget"
    /\ aiq' = DiscardHeld(aiq)
    /\ wipe' = "resume"
    /\ UNCHANGED <<row, kept, recording, thread, worker, boot, quitting, deaths, left>>

ResumeAiPasses ==
    /\ wipe = "resume"
    /\ aiq' = Resume(aiq)
    /\ wipe' = "persist"
    /\ UNCHANGED <<row, kept, recording, thread, worker, boot, quitting, deaths, left>>

PersistResumed ==
    /\ wipe = "persist"
    /\ PersistAiQueue
    /\ wipe' = "idle"
    /\ UNCHANGED <<aiq, kept, recording, thread, worker, boot, quitting, deaths, left>>

DeleteAllData == HaltAiPasses \/ WaitNotBusy \/ EraseContent \/ ForgetHalted
                 \/ ResumeAiPasses \/ PersistResumed

----------------------------------------------------------------------------
StartRecording ==
    /\ ~recording
    /\ Spend("recordings")
    /\ recording' = TRUE
    /\ UNCHANGED <<aiq, row, kept, thread, worker, boot, wipe, quitting, deaths>>

StopRecording ==
    /\ recording
    /\ recording' = FALSE
    /\ UNCHANGED <<aiq, row, kept, thread, worker, boot, wipe, quitting, deaths, left>>

\* save_ai_queue_on_quit, which gives up when the database stays busy; the
\* other threads run on until the process is gone.
SaveOnQuit ==
    /\ ~quitting
    /\ Spend("quits")
    /\ row' \in {SnapshotForQuit(aiq), row}
    /\ quitting' = TRUE
    /\ UNCHANGED <<aiq, kept, recording, thread, worker, boot, wipe, deaths>>

Exit ==
    /\ quitting
    /\ FreshProcess
    /\ UNCHANGED <<row, kept, deaths, left>>

Crash ==
    /\ ~quitting
    /\ Spend("crashes")
    /\ FreshProcess
    /\ deaths' = IF worker = "run"
                 THEN [deaths EXCEPT ![aiq.running[1].meeting] = @ + 1]
                 ELSE deaths
    /\ UNCHANGED <<row, kept>>

Process == StartRecording \/ StopRecording \/ SaveOnQuit \/ Exit \/ Crash

Next ==
    \/ \E c \in Threads : \E m \in Meetings :
          \/ \E k \in AskedKinds : QueueAiJob(c, m, k)
          \/ DropPending(c, m)
    \/ \E c \in Threads : PushJob(c) \/ PersistByThread(c)
    \/ \E m \in Meetings : PurgeMeeting(m)
    \/ RunNextAiJob
    \/ RecoverAiPasses
    \/ DeleteAllData
    \/ Process

Spec == Init /\ [][Next]_vars

\* The two workers are tokio tasks polled by a live runtime, a command runs to
\* its end, the wipe waits with a deadline, and a process that has begun to
\* exit exits.  A pass ends because its steps are timed (POLISH_TIMEOUT,
\* BatchLimits).  Nothing is assumed of the user.
Fairness ==
    /\ WF_vars(RunNextAiJob)
    /\ WF_vars(RecoverAiPasses)
    /\ \A c \in Threads : WF_vars(PushJob(c) \/ PersistByThread(c))
    /\ WF_vars(WaitNotBusy \/ EraseContent \/ ForgetHalted \/ ResumeAiPasses \/ PersistResumed)
    /\ WF_vars(Exit)

FairSpec == Spec /\ Fairness

----------------------------------------------------------------------------
(***************************************************************************)
(* Properties.                                                             *)
(***************************************************************************)

\* Every variable holds a value the code's types allow, and a thread that
\* stands before its push has the job it will push.
TypeOK ==
    /\ aiq \in Queue /\ Len(aiq.running) <= 1
    /\ row \subseteq Job
    /\ kept \subseteq Meetings
    /\ recording \in BOOLEAN /\ quitting \in BOOLEAN
    /\ thread \in [Threads -> ThreadStates]
    /\ \A c \in Threads : thread[c].pc = "push" => thread[c].job # <<>>
    /\ worker \in WorkerStates /\ wipe \in WipeStates
    /\ boot \in [pc : BootStates, jobs : SUBSET Job, job : Seq(Job)]
    /\ boot.pc = "push" => boot.job # <<>>
    /\ deaths \in [Meetings -> Nat]
    /\ left \in [DOMAIN Left -> Nat]

\* The queue keeps one entry per meeting, holds passes only under a halt and
\* never while something is pending; the worker's place and the running pass
\* agree.  (ai_queue.rs: push, halt and resume together.)
QueueShape ==
    /\ PendingDistinct(aiq)
    /\ HeldShape(aiq)
    /\ aiq.running # <<>> <=> worker \in {"started", "run", "ended"}
    /\ aiq.halted <=> wipe \in {"wait", "erase", "forget", "resume"}

\* Someone stands between a change of the queue and the save that follows it.
Saving ==
    \/ \E c \in Threads : thread[c].pc = "persist"
    \/ worker \in {"started", "finished"}
    \/ boot.pc # "done"
    \/ wipe \in {"forget", "resume", "persist"}
    \/ quitting

\* Whenever nobody stands there, the saved row is exactly the set of passes
\* not yet finished, attempts included: no interleaving of the workers, the
\* commands and a wipe leaves an older queue in the row (scheduler.rs,
\* persist_ai_queue).
RowMatchesQueue == ~Saving => row = Snapshot(aiq)

\* A pass that takes the app down every time it runs does so at most
\* MAX_PASS_ATTEMPTS times for each time it was asked for, whatever quits,
\* wipes and other queueing happen between (scheduler.rs, recover_ai_passes).
CrashLoopEnds == \A m \in Meetings : deaths[m] <= MaxPassAttempts

\* A meeting's pass leaves the queue only when it ended, was dropped with its
\* meeting, was erased by a wipe that worked, or the process died: a halt, the
\* resume of a wipe that was refused or failed, and queueing a meeting twice
\* lose none (ai_queue.rs, halt / resume / push).
PassesLeaveOnlyWhenDone ==
    [][\A m \in Unfinished(aiq) \ Unfinished(aiq') :
          \/ worker = "ended" /\ worker' = "finished" /\ Has(aiq.running, m)
          \/ \E c \in Threads : DropPending(c, m)
          \/ wipe = "forget"
          \/ Crash \/ Exit]_vars

\* The saved queue drains: each meeting in it leaves it, because its pass
\* ended, was dropped or was given up, through crashes and restarts, once
\* captures have ended (scheduler.rs, run_next_ai_job).
SavedQueueDrains ==
    <>[](~recording) =>
        \A m \in Meetings : m \in MeetingsOf(row) ~> m \notin MeetingsOf(row)

\* ai_queue.rs:12-13: the saved queue is read back at startup "so a quit or
\* restart loses no pass".  A process that dies leaves in the row every pass
\* that is queued or that recovery has read and not queued yet, once the
\* thread that queued it has saved.
RestartLosesNoPass ==
    [][Crash /\ (\A c \in Threads : thread[c].pc = "idle") =>
          \A j \in boot.jobs : j.meeting \in MeetingsOf(row')]_vars
=============================================================================
