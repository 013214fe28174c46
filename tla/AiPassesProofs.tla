--------------------------- MODULE AiPassesProofs ---------------------------
(***************************************************************************)
(* Theorems about AiPasses, for every set of meetings and threads and      *)
(* every bound: type correctness, that the saved row is the queue whenever *)
(* nobody stands between a change and the save that follows it, and that   *)
(* no pass leaves the queue before its time.                               *)
(***************************************************************************)
EXTENDS AiPasses, AiQueueProofs

\* Spending a bound leaves every bound a natural number.
LEMMA LeftType ==
    ASSUME left \in [DOMAIN Left -> Nat], NEW what \in DOMAIN Left, Spend(what)
    PROVE  left' \in [DOMAIN Left -> Nat]
BY DEF Spend

\* The bounds there are.
LEMMA LeftDomain == DOMAIN Left = {"asks", "crashes", "quits", "wipes", "recordings"}
BY DEF Left

\* The first of some passes is a pass.
LEMMA FirstOfSeq ==
    ASSUME NEW s \in Seq(Job), s # <<>>
    PROVE  s[1] \in Job
BY EmptySeq, LenProperties, ElementOfSeq

\* Counting one up keeps a function into the naturals one.
LEMMA CountType ==
    ASSUME NEW S, NEW f \in [S -> Nat], NEW x
    PROVE  [f EXCEPT ![x] = @ + 1] \in [S -> Nat]
<1>1. CASE x \in S
  BY <1>1
<1>2. CASE x \notin S
  <2>1. [f EXCEPT ![x] = @ + 1] = f
    BY <1>2, Zenon
  <2> QED
    BY <2>1
<1> QED
  BY <1>1, <1>2

\* One pass is a sequence of passes.
LEMMA OneJob ==
    ASSUME NEW j \in Job
    PROVE  <<j>> \in Seq(Job) /\ <<j>> # <<>>
OBVIOUS

\* The first launch is well-typed.
LEMMA InitType == Init => TypeOK
<1> SUFFICES ASSUME Init PROVE TypeOK
  OBVIOUS
<1>1. aiq \in Queue /\ Len(aiq.running) <= 1
  BY EmptyQueueType, EmptySeq DEF Init, EmptyQueue
<1>2. thread \in [Threads -> ThreadStates]
  BY EmptySeq DEF Init, Idle, ThreadStates
<1>3. boot \in [pc : BootStates, jobs : SUBSET Job, job : Seq(Job)]
  BY EmptySeq DEF Init, BootStates
<1>4. left \in [DOMAIN Left -> Nat]
  BY BoundsAssumption DEF Init, Left
<1> QED
  BY <1>1, <1>2, <1>3, <1>4 DEF Init, TypeOK, Idle, WorkerStates, WipeStates

\* What a fresh process starts with is well-typed.
LEMMA FreshType ==
    ASSUME FreshProcess
    PROVE  /\ aiq' \in Queue /\ Len(aiq'.running) <= 1
           /\ recording' \in BOOLEAN /\ quitting' \in BOOLEAN
           /\ thread' \in [Threads -> ThreadStates]
           /\ \A c \in Threads : thread'[c].pc = "push" => thread'[c].job # <<>>
           /\ worker' \in WorkerStates /\ wipe' \in WipeStates
           /\ boot' \in [pc : BootStates, jobs : SUBSET Job, job : Seq(Job)]
           /\ boot'.pc = "push" => boot'.job # <<>>
<1>1. aiq' \in Queue /\ Len(aiq'.running) <= 1
  BY EmptyQueueType, EmptySeq DEF FreshProcess, EmptyQueue
<1>2. thread' \in [Threads -> ThreadStates]
  BY EmptySeq DEF FreshProcess, Idle, ThreadStates
<1>3. boot' \in [pc : BootStates, jobs : SUBSET Job, job : Seq(Job)]
  BY EmptySeq DEF FreshProcess, BootStates
<1> QED
  BY <1>1, <1>2, <1>3 DEF FreshProcess, Idle, WorkerStates, WipeStates

\* Threads that ask for a pass or drop one.
LEMMA AskType ==
    ASSUME TypeOK, NEW c \in Threads, NEW m \in Meetings,
           (\E k \in AskedKinds : QueueAiJob(c, m, k)) \/ DropPending(c, m)
    PROVE  TypeOK'
<1>1. ASSUME NEW k \in AskedKinds, QueueAiJob(c, m, k) PROVE TypeOK'
  <2>1. NewJob(m, k) \in Job
    BY BoundsAssumption DEF NewJob, Job
  <2>2. [pc |-> "push", job |-> <<NewJob(m, k)>>] \in ThreadStates
    BY <2>1, OneJob DEF ThreadStates
  <2>3. thread' \in [Threads -> ThreadStates]
    BY <1>1, <2>2 DEF QueueAiJob, TypeOK
  <2>4. left' \in [DOMAIN Left -> Nat]
    BY <1>1, LeftType, LeftDomain DEF QueueAiJob, TypeOK
  <2>5. \A d \in Threads : thread'[d].pc = "push" => thread'[d].job # <<>>
    BY <1>1, <2>1, OneJob DEF QueueAiJob, TypeOK
  <2> QED
    BY <1>1, <2>3, <2>4, <2>5 DEF QueueAiJob, TypeOK
<1>2. ASSUME DropPending(c, m) PROVE TypeOK'
  <2>1. aiq' \in Queue /\ aiq'.running = aiq.running
    BY <1>2, RemovePendingType DEF DropPending, TypeOK
  <2>2. thread' \in [Threads -> ThreadStates]
    BY <1>2, EmptySeq DEF DropPending, TypeOK, ThreadStates
  <2>3. \A d \in Threads : thread'[d].pc = "push" => thread'[d].job # <<>>
    BY <1>2 DEF DropPending, TypeOK
  <2>4. left' \in [DOMAIN Left -> Nat]
    BY <1>2, LeftType, LeftDomain DEF DropPending, TypeOK
  <2> QED
    BY <1>2, <2>1, <2>2, <2>3, <2>4 DEF DropPending, TypeOK
<1> QED
  BY <1>1, <1>2

\* Threads that push, and save the queue.
LEMMA ThreadStepType ==
    ASSUME TypeOK, NEW c \in Threads, PushJob(c) \/ PersistByThread(c)
    PROVE  TypeOK'
<1>1. ASSUME PushJob(c) PROVE TypeOK'
  <2>1. thread[c].job[1] \in Job
    BY <1>1, FirstOfSeq DEF PushJob, TypeOK, ThreadStates
  <2>2. aiq' \in Queue /\ aiq'.running = aiq.running
    BY <1>1, <2>1, PushType DEF PushJob, TypeOK
  <2>3. thread' \in [Threads -> ThreadStates]
    BY <1>1, EmptySeq DEF PushJob, TypeOK, ThreadStates
  <2>4. \A d \in Threads : thread'[d].pc = "push" => thread'[d].job # <<>>
    BY <1>1 DEF PushJob, TypeOK
  <2>5. deaths' \in [Meetings -> Nat]
    BY <1>1 DEF PushJob, TypeOK
  <2> QED
    BY <1>1, <2>2, <2>3, <2>4, <2>5 DEF PushJob, TypeOK
<1>2. ASSUME PersistByThread(c) PROVE TypeOK'
  <2>1. row' \subseteq Job
    BY <1>2, SnapshotType DEF PersistByThread, PersistAiQueue, TypeOK
  <2>2. thread' \in [Threads -> ThreadStates]
    BY <1>2, EmptySeq DEF PersistByThread, Idle, TypeOK, ThreadStates
  <2>3. \A d \in Threads : thread'[d].pc = "push" => thread'[d].job # <<>>
    BY <1>2 DEF PersistByThread, Idle, TypeOK
  <2> QED
    BY <1>2, <2>1, <2>2, <2>3 DEF PersistByThread, TypeOK
<1> QED
  BY <1>1, <1>2

\* A meeting that is purged.
LEMMA PurgeType ==
    ASSUME TypeOK, NEW m \in Meetings, PurgeMeeting(m)
    PROVE  TypeOK'
<1>1. left' \in [DOMAIN Left -> Nat]
  BY LeftType, LeftDomain DEF PurgeMeeting, TypeOK
<1> QED
  BY <1>1 DEF PurgeMeeting, TypeOK

\* The AI worker.
LEMMA WorkerType ==
    ASSUME TypeOK, RunNextAiJob
    PROVE  TypeOK'
<1>1. CASE Gate
  BY <1>1 DEF Gate, TypeOK, WorkerStates
<1>2. CASE NextJob
  <2>1. aiq' \in Queue /\ Len(aiq'.running) <= 1
    <3>1. CASE CanStart(aiq)
      <4>1. aiq \in Queue /\ aiq' = Start(aiq)
        BY <1>2, <3>1 DEF NextJob, TypeOK
      <4>2. Start(aiq) \in Queue /\ Len(Start(aiq).running) = 1
        BY <3>1, <4>1, StartType
      <4> QED
        BY <4>1, <4>2
    <3>2. CASE ~CanStart(aiq)
      BY <1>2, <3>2 DEF NextJob, TypeOK
    <3> QED
      BY <3>1, <3>2
  <2> QED
    BY <1>2, <2>1 DEF NextJob, TypeOK, WorkerStates
<1>3. CASE PersistStart
  <2>1. row' \subseteq Job
    BY <1>3, SnapshotType DEF PersistStart, PersistAiQueue, TypeOK
  <2> QED
    BY <1>3, <2>1 DEF PersistStart, TypeOK, WorkerStates
<1>4. CASE PassEnds
  BY <1>4 DEF PassEnds, TypeOK, WorkerStates
<1>5. CASE DropRunning
  <2>1. aiq' \in Queue /\ Len(aiq'.running) <= 1
    BY <1>5, FinishType, EmptySeq DEF DropRunning, TypeOK
  <2> QED
    BY <1>5, <2>1 DEF DropRunning, TypeOK, WorkerStates
<1>6. CASE PersistEnd
  <2>1. row' \subseteq Job
    BY <1>6, SnapshotType DEF PersistEnd, PersistAiQueue, TypeOK
  <2> QED
    BY <1>6, <2>1 DEF PersistEnd, TypeOK, WorkerStates
<1> QED
  BY <1>1, <1>2, <1>3, <1>4, <1>5, <1>6 DEF RunNextAiJob

\* Recovery at startup.
LEMMA RecoveryType ==
    ASSUME TypeOK, RecoverAiPasses
    PROVE  TypeOK'
<1> DEFINE Boot == [pc : BootStates, jobs : SUBSET Job, job : Seq(Job)]
<1>1. CASE ReadRow
  <2>1. boot' \in Boot /\ boot'.pc # "push"
    BY <1>1, EmptySeq DEF ReadRow, TypeOK, BootStates
  <2> QED
    BY <1>1, <2>1 DEF ReadRow, TypeOK
<1>2. CASE TakeJob
  <2>1. CASE boot' = [boot EXCEPT !.pc = "save"]
    <3>1. boot' \in Boot /\ boot'.pc # "push"
      BY <2>1 DEF TypeOK, BootStates
    <3> QED
      BY <1>2, <3>1 DEF TakeJob, TypeOK
  <2>2. ASSUME NEW j \in boot.jobs,
               boot' = [pc |-> "push", jobs |-> boot.jobs \ {j}, job |-> <<j>>]
        PROVE  TypeOK'
    <3>1. j \in Job /\ boot.jobs \ {j} \in SUBSET Job
      BY DEF TypeOK
    <3>2. boot' \in Boot /\ boot'.job # <<>>
      BY <2>2, <3>1, OneJob DEF BootStates
    <3> QED
      BY <1>2, <3>2 DEF TakeJob, TypeOK
  <2>3. ASSUME NEW j \in boot.jobs, boot' = [boot EXCEPT !.jobs = @ \ {j}]
        PROVE  TypeOK'
    <3>1. boot' \in Boot /\ boot'.pc = boot.pc
      BY <2>3 DEF TypeOK
    <3>2. boot'.pc # "push"
      BY <1>2, <3>1 DEF TakeJob
    <3> QED
      BY <1>2, <3>1, <3>2 DEF TakeJob, TypeOK
  <2> QED
    BY <1>2, <2>1, <2>2, <2>3 DEF TakeJob
<1>3. CASE PushRecovered
  <2>1. boot.job[1] \in Job
    BY <1>3, FirstOfSeq DEF PushRecovered, TypeOK
  <2>2. aiq' \in Queue /\ aiq'.running = aiq.running
    BY <1>3, <2>1, PushType DEF PushRecovered, TypeOK
  <2>3. boot' \in Boot /\ boot'.pc # "push"
    BY <1>3, EmptySeq DEF PushRecovered, TypeOK, BootStates
  <2> QED
    BY <1>3, <2>2, <2>3 DEF PushRecovered, TypeOK
<1>4. CASE PersistRecovered
  <2>1. row' \subseteq Job
    BY <1>4, SnapshotType DEF PersistRecovered, PersistAiQueue, TypeOK
  <2>2. boot' \in Boot /\ boot'.pc # "push"
    BY <1>4 DEF PersistRecovered, TypeOK, BootStates
  <2> QED
    BY <1>4, <2>1, <2>2 DEF PersistRecovered, TypeOK
<1> QED
  BY <1>1, <1>2, <1>3, <1>4 DEF RecoverAiPasses

\* "Delete all my data".
LEMMA WipeType ==
    ASSUME TypeOK, DeleteAllData
    PROVE  TypeOK'
<1>1. CASE HaltAiPasses
  <2>1. aiq' \in Queue /\ aiq'.running = aiq.running
    BY <1>1, HaltType DEF HaltAiPasses, TypeOK
  <2>2. left' \in [DOMAIN Left -> Nat]
    BY <1>1, LeftType, LeftDomain DEF HaltAiPasses, TypeOK
  <2> QED
    BY <1>1, <2>1, <2>2 DEF HaltAiPasses, TypeOK, WipeStates
<1>2. CASE WaitNotBusy
  BY <1>2 DEF WaitNotBusy, TypeOK, WipeStates
<1>3. CASE EraseContent
  BY <1>3 DEF EraseContent, TypeOK, WipeStates
<1>4. CASE ForgetHalted
  <2>1. aiq' \in Queue /\ aiq'.running = aiq.running
    BY <1>4, DiscardHeldType DEF ForgetHalted, TypeOK
  <2> QED
    BY <1>4, <2>1 DEF ForgetHalted, TypeOK, WipeStates
<1>5. CASE ResumeAiPasses
  <2>1. aiq' \in Queue /\ aiq'.running = aiq.running
    BY <1>5, ResumeType DEF ResumeAiPasses, TypeOK
  <2> QED
    BY <1>5, <2>1 DEF ResumeAiPasses, TypeOK, WipeStates
<1>6. CASE PersistResumed
  <2>1. row' \subseteq Job
    BY <1>6, SnapshotType DEF PersistResumed, PersistAiQueue, TypeOK
  <2> QED
    BY <1>6, <2>1 DEF PersistResumed, TypeOK, WipeStates
<1> QED
  BY <1>1, <1>2, <1>3, <1>4, <1>5, <1>6 DEF DeleteAllData

\* Captures, quits and crashes.
LEMMA ProcessType ==
    ASSUME TypeOK, Process
    PROVE  TypeOK'
<1>1. CASE StartRecording
  <2>1. left' \in [DOMAIN Left -> Nat]
    BY <1>1, LeftType, LeftDomain DEF StartRecording, TypeOK
  <2> QED
    BY <1>1, <2>1 DEF StartRecording, TypeOK
<1>2. CASE StopRecording
  BY <1>2 DEF StopRecording, TypeOK
<1>3. CASE SaveOnQuit
  <2>1. left' \in [DOMAIN Left -> Nat]
    BY <1>3, LeftType, LeftDomain DEF SaveOnQuit, TypeOK
  <2>2. row' \subseteq Job
    BY <1>3, SnapshotForQuitType DEF SaveOnQuit, TypeOK
  <2> QED
    BY <1>3, <2>1, <2>2 DEF SaveOnQuit, TypeOK
<1>4. CASE Exit
  BY <1>4, FreshType DEF Exit, TypeOK
<1>5. CASE Crash
  <2>1. left' \in [DOMAIN Left -> Nat]
    BY <1>5, LeftType, LeftDomain DEF Crash, TypeOK
  <2>2. deaths' \in [Meetings -> Nat]
    <3> DEFINE m == aiq.running[1].meeting
    <3>1. deaths' = deaths \/ deaths' = [deaths EXCEPT ![m] = @ + 1]
      BY <1>5 DEF Crash
    <3> HIDE DEF m
    <3>2. deaths \in [Meetings -> Nat]
      BY DEF TypeOK
    <3>3. [deaths EXCEPT ![m] = @ + 1] \in [Meetings -> Nat]
      BY <3>2, CountType
    <3> QED
      BY <3>1, <3>2, <3>3
  <2> QED
    BY <1>5, <2>1, <2>2, FreshType DEF Crash, TypeOK
<1> QED
  BY <1>1, <1>2, <1>3, <1>4, <1>5 DEF Process

\* Every step keeps every variable well-typed.
LEMMA NextType == TypeOK /\ [Next]_vars => TypeOK'
<1> SUFFICES ASSUME TypeOK, [Next]_vars PROVE TypeOK'
  OBVIOUS
<1>1. CASE \E c \in Threads : \E m \in Meetings :
              (\E k \in AskedKinds : QueueAiJob(c, m, k)) \/ DropPending(c, m)
  BY <1>1, AskType
<1>2. ASSUME NEW c \in Threads, PushJob(c) \/ PersistByThread(c) PROVE TypeOK'
  BY <1>2, ThreadStepType
<1>3. ASSUME NEW m \in Meetings, PurgeMeeting(m) PROVE TypeOK'
  BY <1>3, PurgeType
<1>4. CASE UNCHANGED vars
  BY <1>4 DEF vars, TypeOK
<1> QED
  BY <1>1, <1>2, <1>3, <1>4, WorkerType, RecoveryType, WipeType, ProcessType DEF Next

\* Every variable of the AI passes keeps its shape: at most one pass runs, what
\* is saved are well-formed passes, and a thread that stands before its push
\* has the job it will push.
THEOREM TypeCorrect == Spec => []TypeOK
BY InitType, NextType, PTL DEF Spec

----------------------------------------------------------------------------
(***************************************************************************)
(* The queue's shape.  Its parts are inductive together with the types: a  *)
(* halt keeps one entry per meeting because nothing was held before it,    *)
(* and a resume because only the pass that was running can have another.   *)
(***************************************************************************)
WorkerRuns == aiq.running # <<>> <=> worker \in {"started", "run", "ended"}
WipeHalts == aiq.halted <=> wipe \in {"wait", "erase", "forget", "resume"}

\* The shape is the queue's own and the two places it must agree with.
LEMMA ShapeParts == QueueShape <=> Shaped(aiq) /\ WorkerRuns /\ WipeHalts
BY DEF QueueShape, Shaped, WorkerRuns, WipeHalts

\* The empty queue has the shape.
LEMMA ShapeInit == Init => QueueShape
<1> SUFFICES ASSUME Init PROVE QueueShape
  OBVIOUS
<1>1. aiq.running = <<>> /\ aiq.pending = <<>> /\ aiq.held = <<>> /\ ~aiq.halted
  BY DEF Init, EmptyQueue
<1> QED
  BY <1>1, EmptyDistinct DEF QueueShape, PendingDistinct, HeldShape, Init

\* Every step keeps the shape.
LEMMA ShapeNext == TypeOK /\ QueueShape /\ [Next]_vars => QueueShape'
<1> SUFFICES ASSUME TypeOK, Shaped(aiq), WorkerRuns, WipeHalts, [Next]_vars
             PROVE  Shaped(aiq)' /\ WorkerRuns' /\ WipeHalts'
  BY ShapeParts DEF QueueShape, Shaped, WorkerRuns, WipeHalts
<1> DEFINE Goal == Shaped(aiq)' /\ WorkerRuns' /\ WipeHalts'
<1>0. aiq \in Queue /\ Len(aiq.running) <= 1
  BY DEF TypeOK
<1>1. CASE aiq' = aiq /\ wipe' = wipe
           /\ (worker' = worker \/ {worker, worker'} \subseteq {"idle", "next", "finished"}
                                \/ {worker, worker'} \subseteq {"started", "run", "ended"})
  BY <1>1 DEF WorkerRuns, WipeHalts
<1>2. ASSUME Shaped(aiq'), aiq'.running = aiq.running, aiq'.halted = aiq.halted,
             worker' = worker, wipe' = wipe
      PROVE  Goal
  BY <1>2 DEF WorkerRuns, WipeHalts
<1>3. ASSUME NEW c \in Threads, NEW m \in Meetings, DropPending(c, m)
      PROVE  Goal
  BY <1>0, <1>2, <1>3, RemovePendingType, RemovePendingShaped DEF DropPending
<1>4. ASSUME NEW c \in Threads, PushJob(c) PROVE Goal
  <2>1. thread[c].job[1] \in Job
    BY <1>4, FirstOfSeq DEF PushJob, TypeOK, ThreadStates
  <2> QED
    BY <1>0, <1>2, <1>4, <2>1, PushType, PushShaped DEF PushJob
<1>5. ASSUME NextJob PROVE Goal
  <2>1. CASE CanStart(aiq)
    <3>1. /\ Start(aiq).halted = aiq.halted /\ Len(Start(aiq).running) = 1
          /\ Shaped(Start(aiq))
      BY <1>0, <2>1, StartType, StartShaped
    <3>2. Start(aiq).running # <<>>
      BY <3>1, EmptySeq
    <3> QED
      BY <1>5, <2>1, <3>1, <3>2 DEF NextJob, WorkerRuns, WipeHalts
  <2>2. CASE ~CanStart(aiq)
    BY <1>1, <1>5, <2>2 DEF NextJob
  <2> QED
    BY <2>1, <2>2
<1>6. ASSUME DropRunning PROVE Goal
  BY <1>0, <1>6, FinishType, FinishShaped DEF DropRunning, WorkerRuns, WipeHalts
<1>7. ASSUME PushRecovered PROVE Goal
  <2>1. boot.job[1] \in Job
    BY <1>7, FirstOfSeq DEF PushRecovered, TypeOK
  <2> QED
    BY <1>0, <1>2, <1>7, <2>1, PushType, PushShaped DEF PushRecovered
<1>8. ASSUME DeleteAllData PROVE Goal
  <2>1. CASE HaltAiPasses
    BY <1>0, <2>1, HaltType, HaltShaped DEF HaltAiPasses, WorkerRuns, WipeHalts
  <2>2. CASE WaitNotBusy
    BY <2>2 DEF WaitNotBusy, WorkerRuns, WipeHalts
  <2>3. CASE EraseContent
    BY <2>3 DEF EraseContent, WorkerRuns, WipeHalts
  <2>4. CASE ForgetHalted
    BY <1>0, <2>4, DiscardHeldType, DiscardHeldShaped DEF ForgetHalted, WorkerRuns, WipeHalts
  <2>5. CASE ResumeAiPasses
    <3>1. aiq.halted
      BY <2>5 DEF ResumeAiPasses, WipeHalts
    <3> QED
      BY <1>0, <2>5, <3>1, ResumeType, ResumeShaped DEF ResumeAiPasses, WorkerRuns, WipeHalts
  <2>6. CASE PersistResumed
    BY <2>6 DEF PersistResumed, WorkerRuns, WipeHalts
  <2> QED
    BY <1>8, <2>1, <2>2, <2>3, <2>4, <2>5, <2>6 DEF DeleteAllData
<1>9. ASSUME Exit \/ Crash PROVE Goal
  <2>1. FreshProcess
    BY <1>9 DEF Exit, Crash
  <2>2. aiq'.running = <<>> /\ aiq'.pending = <<>> /\ aiq'.held = <<>> /\ ~aiq'.halted
    BY <2>1 DEF FreshProcess, EmptyQueue
  <2> QED
    BY <2>1, <2>2, EmptyDistinct
       DEF FreshProcess, Shaped, PendingDistinct, HeldShape, WorkerRuns, WipeHalts
<1>10. ASSUME NEW c \in Threads, NEW m \in Meetings, NEW k \in AskedKinds, QueueAiJob(c, m, k)
       PROVE  Goal
  BY <1>1, <1>10 DEF QueueAiJob
<1>11. ASSUME NEW c \in Threads, PersistByThread(c) PROVE Goal
  BY <1>1, <1>11 DEF PersistByThread
<1>12. ASSUME NEW m \in Meetings, PurgeMeeting(m) PROVE Goal
  BY <1>1, <1>12 DEF PurgeMeeting
<1>13. ASSUME \/ Gate \/ PersistStart \/ PassEnds \/ PersistEnd
              \/ ReadRow \/ TakeJob \/ PersistRecovered
              \/ StartRecording \/ StopRecording \/ SaveOnQuit \/ UNCHANGED vars
       PROVE  Goal
  BY <1>1, <1>13 DEF Gate, PersistStart, PassEnds, PersistEnd, ReadRow, TakeJob,
     PersistRecovered, StartRecording, StopRecording, SaveOnQuit, vars
<1> HIDE DEF Goal
<1>14. Goal
  BY <1>3, <1>4, <1>5, <1>6, <1>7, <1>8, <1>9, <1>10, <1>11, <1>12, <1>13
     DEF Next, RunNextAiJob, RecoverAiPasses, Process
<1> QED
  BY <1>14 DEF Goal

\* The queue keeps one entry per meeting, holds passes only under a halt and
\* never while something is pending, and the worker's place and the running
\* pass agree (ai_queue.rs: push, halt and resume together).
THEOREM QueueKeepsShape == Spec => []QueueShape
<1>1. TypeOK /\ QueueShape /\ [Next]_vars => (TypeOK /\ QueueShape)'
  BY NextType, ShapeNext
<1> QED
  BY InitType, ShapeInit, <1>1, PTL DEF Spec

----------------------------------------------------------------------------
(***************************************************************************)
(* The saved row is the queue.  A step of the code either saves the queue  *)
(* as it then is, or leaves someone behind who has still to save it, or    *)
(* changes neither the queue nor the row.  The one exception is the halt   *)
(* of "Delete all my data", which empties the queue and saves nothing: it  *)
(* is right because what it holds is what was saved (HaltKeepsSnapshot),   *)
(* and for that nothing may be held when it halts, which the shape says.   *)
(***************************************************************************)
RowInv == TypeOK /\ QueueShape /\ RowMatchesQueue

\* No row, no passes.
LEMMA RowInit == Init => RowMatchesQueue
<1> SUFFICES ASSUME Init PROVE row = Snapshot(aiq)
  BY DEF RowMatchesQueue
<1>1. aiq.running \o aiq.pending \o aiq.held = <<>>
  BY ConcatEmptySeq, EmptySeq DEF Init, EmptyQueue
<1>2. Firsts(<<>>) = {}
  BY EmptySeq, LenProperties DEF Firsts, FirstPlaces
<1> QED
  BY <1>1, <1>2 DEF Init, Snapshot

\* Every step leaves the row right, or someone who has still to save it.
LEMMA RowNext == RowInv /\ [Next]_vars => RowMatchesQueue'
<1> SUFFICES ASSUME RowInv, [Next]_vars PROVE RowMatchesQueue'
  OBVIOUS
<1>1. CASE Saving'
  BY <1>1 DEF RowMatchesQueue
<1>2. CASE row' = Snapshot(aiq) /\ aiq' = aiq
  BY <1>2 DEF RowMatchesQueue
<1>3. CASE row' = row /\ aiq' = aiq /\ (Saving => Saving')
  BY <1>3 DEF RowMatchesQueue, RowInv
<1>4. ASSUME NEW c \in Threads, NEW m \in Meetings, DropPending(c, m)
      PROVE  RowMatchesQueue'
  <2>1. CASE Has(aiq.pending, m)
    <3>1. thread'[c].pc = "persist"
      BY <1>4, <2>1 DEF DropPending, RowInv, TypeOK
    <3> QED
      BY <1>1, <3>1 DEF Saving
  <2>2. CASE ~Has(aiq.pending, m)
    <3>1. aiq' = aiq /\ thread' = thread
      BY <1>4, <2>2 DEF DropPending, RemovePending
    <3> QED
      BY <1>3, <1>4, <3>1 DEF DropPending, Saving
  <2> QED
    BY <2>1, <2>2
<1>5. ASSUME NEW c \in Threads, PushJob(c) PROVE RowMatchesQueue'
  <2>1. thread'[c].pc = "persist"
    BY <1>5 DEF PushJob, RowInv, TypeOK
  <2> QED
    BY <1>1, <2>1 DEF Saving
<1>6. ASSUME NEW c \in Threads, NEW m \in Meetings, NEW k \in AskedKinds, QueueAiJob(c, m, k)
      PROVE  RowMatchesQueue'
  <2>1. \A d \in Threads : thread[d].pc = "persist" => thread'[d].pc = "persist"
    BY <1>6 DEF QueueAiJob, RowInv, TypeOK
  <2> QED
    BY <1>3, <1>6, <2>1 DEF QueueAiJob, Saving
<1>7. ASSUME NEW c \in Threads, PersistByThread(c) PROVE RowMatchesQueue'
  BY <1>2, <1>7 DEF PersistByThread, PersistAiQueue
<1>8. ASSUME NEW m \in Meetings, PurgeMeeting(m) PROVE RowMatchesQueue'
  BY <1>3, <1>8 DEF PurgeMeeting, Saving
<1>9. CASE NextJob
  <2>1. CASE CanStart(aiq)
    <3>1. worker' = "started"
      BY <1>9, <2>1 DEF NextJob
    <3> QED
      BY <1>1, <3>1 DEF Saving
  <2>2. CASE ~CanStart(aiq)
    BY <1>3, <1>9, <2>2 DEF NextJob, Saving
  <2> QED
    BY <2>1, <2>2
<1>10. CASE PersistStart \/ PersistEnd \/ PersistRecovered \/ PersistResumed
  BY <1>2, <1>10 DEF PersistStart, PersistEnd, PersistRecovered, PersistResumed, PersistAiQueue
<1>11. CASE DropRunning \/ EraseContent \/ ForgetHalted \/ ResumeAiPasses \/ SaveOnQuit
  BY <1>1, <1>11 DEF DropRunning, EraseContent, ForgetHalted, ResumeAiPasses, SaveOnQuit, Saving
<1>12. CASE ReadRow \/ TakeJob \/ PushRecovered
  <2>1. boot'.pc # "done"
    <3>1. boot \in [pc : BootStates, jobs : SUBSET Job, job : Seq(Job)]
      BY DEF RowInv, TypeOK
    <3>2. CASE ReadRow
      BY <3>2 DEF ReadRow
    <3>3. CASE PushRecovered
      BY <3>1, <3>3 DEF PushRecovered
    <3>4. CASE TakeJob
      BY <3>1, <3>4 DEF TakeJob
    <3> QED
      BY <1>12, <3>2, <3>3, <3>4
  <2> QED
    BY <1>1, <2>1 DEF Saving
<1>13. CASE Exit \/ Crash
  <2>1. boot'.pc = "read"
    BY <1>13 DEF Exit, Crash, FreshProcess
  <2> QED
    BY <1>1, <2>1 DEF Saving
<1>14. CASE \/ Gate \/ PassEnds \/ WaitNotBusy \/ StartRecording \/ StopRecording
            \/ UNCHANGED vars
  BY <1>3, <1>14 DEF Gate, PassEnds, WaitNotBusy, StartRecording, StopRecording, vars, Saving
<1>15. CASE HaltAiPasses
  <2>1. aiq \in Queue /\ Len(aiq.running) <= 1
    BY DEF RowInv, TypeOK
  <2>2. ~aiq.halted /\ aiq.held = <<>>
    BY <1>15 DEF HaltAiPasses, RowInv, QueueShape, HeldShape
  <2>3. aiq' = Halt(aiq) /\ row' = row
    BY <1>15 DEF HaltAiPasses
  <2>4. Snapshot(Halt(aiq)) = Snapshot(aiq)
    BY <2>1, <2>2, HaltKeepsSnapshot
  <2>5. Saving => Saving'
    BY <1>15 DEF HaltAiPasses, Saving
  <2> QED
    BY <2>3, <2>4, <2>5 DEF RowMatchesQueue, RowInv
<1> QED
  BY <1>4, <1>5, <1>6, <1>7, <1>8, <1>9, <1>10, <1>11, <1>12, <1>13, <1>14, <1>15
     DEF Next, RunNextAiJob, RecoverAiPasses, DeleteAllData, Process

\* Whenever nobody stands between a change of the queue and the save that
\* follows it, the saved row is exactly the set of passes not yet finished,
\* attempts included, whatever the threads, the worker, recovery, a wipe, quits
\* and crashes do (persist_ai_queue).
THEOREM RowIsTheQueue == Spec => []RowMatchesQueue
<1>1. Init => RowInv
  BY InitType, ShapeInit, RowInit DEF RowInv
<1>2. RowInv /\ [Next]_vars => RowInv'
  BY NextType, ShapeNext, RowNext DEF RowInv
<1>3. RowInv => RowMatchesQueue
  BY DEF RowInv
<1> QED
  BY <1>1, <1>2, <1>3, PTL DEF Spec

----------------------------------------------------------------------------
(***************************************************************************)
(* No pass is lost: who is in the queue stays in it through every method   *)
(* but those that are to take it off (the Keeps lemmas of AiQueueProofs).  *)
(***************************************************************************)

\* Why a meeting's pass may leave the queue.
MayLeave(m) ==
    \/ worker = "ended" /\ worker' = "finished" /\ Has(aiq.running, m)
    \/ \E c \in Threads : DropPending(c, m)
    \/ wipe = "forget"
    \/ Crash \/ Exit

\* Every step keeps every pass in the queue, or is one that may take it off.
LEMMA StepKeepsPasses ==
    ASSUME TypeOK, TypeOK', QueueShape, [Next]_vars, NEW m, m \in Unfinished(aiq),
           m \notin Unfinished(aiq')
    PROVE  MayLeave(m)
<1>1. aiq \in Queue /\ aiq' \in Queue
  BY DEF TypeOK
<1>2. InQueue(aiq, m) /\ ~InQueue(aiq', m)
  BY <1>1, UnfinishedIsInQueue
<1>3. aiq' # aiq
  BY <1>2
<1>4. ASSUME NEW c \in Threads, NEW x \in Meetings, DropPending(c, x) PROVE MayLeave(m)
  <2>1. aiq' = RemovePending(aiq, x)
    BY <1>4 DEF DropPending
  <2>2. m = x
    BY <1>1, <1>2, <2>1, RemovePendingKeeps
  <2> QED
    BY <1>4, <2>2 DEF MayLeave
<1>5. ASSUME NEW c \in Threads, PushJob(c) PROVE FALSE
  <2>1. thread[c].job[1] \in Job /\ aiq' = Push(aiq, thread[c].job[1])
    BY <1>5, FirstOfSeq DEF PushJob, TypeOK, ThreadStates
  <2> QED
    BY <1>1, <1>2, <2>1, PushKeeps
<1>6. ASSUME NextJob PROVE FALSE
  <2>1. CanStart(aiq) /\ aiq' = Start(aiq) /\ aiq.running = <<>>
    BY <1>3, <1>6 DEF NextJob, QueueShape
  <2> QED
    BY <1>1, <1>2, <2>1, StartKeeps
<1>7. ASSUME DropRunning PROVE MayLeave(m)
  <2>1. aiq' = Finish(aiq) /\ worker = "ended" /\ worker' = "finished"
    BY <1>7 DEF DropRunning
  <2>2. Has(aiq.running, m)
    BY <1>1, <1>2, <2>1, FinishKeeps
  <2> QED
    BY <2>1, <2>2 DEF MayLeave
<1>8. ASSUME PushRecovered PROVE FALSE
  <2>1. boot.job[1] \in Job /\ aiq' = Push(aiq, boot.job[1])
    BY <1>8, FirstOfSeq DEF PushRecovered, TypeOK
  <2> QED
    BY <1>1, <1>2, <2>1, PushKeeps
<1>9. ASSUME HaltAiPasses PROVE FALSE
  BY <1>1, <1>2, <1>9, HaltKeeps DEF HaltAiPasses
<1>10. ASSUME ResumeAiPasses PROVE FALSE
  BY <1>1, <1>2, <1>10, ResumeKeeps DEF ResumeAiPasses
<1>11. ASSUME ForgetHalted \/ Exit \/ Crash PROVE MayLeave(m)
  BY <1>11 DEF ForgetHalted, MayLeave
<1>12. ASSUME NEW c \in Threads, NEW x \in Meetings, NEW k \in AskedKinds, QueueAiJob(c, x, k)
       PROVE  aiq' = aiq
  BY <1>12 DEF QueueAiJob
<1>13. ASSUME NEW x \in Meetings, PurgeMeeting(x) PROVE aiq' = aiq
  BY <1>13 DEF PurgeMeeting
<1>14. ASSUME NEW c \in Threads, PersistByThread(c) PROVE aiq' = aiq
  BY <1>14 DEF PersistByThread
<1>15. ASSUME \/ Gate \/ PersistStart \/ PassEnds \/ PersistEnd
              \/ ReadRow \/ TakeJob \/ PersistRecovered
              \/ WaitNotBusy \/ EraseContent \/ PersistResumed
              \/ StartRecording \/ StopRecording \/ SaveOnQuit \/ UNCHANGED vars
       PROVE  aiq' = aiq
  BY <1>15 DEF Gate, PersistStart, PassEnds, PersistEnd, ReadRow, TakeJob, PersistRecovered,
     WaitNotBusy, EraseContent, PersistResumed, StartRecording, StopRecording, SaveOnQuit, vars
<1> QED
  BY <1>3, <1>4, <1>5, <1>6, <1>7, <1>8, <1>9, <1>10, <1>11, <1>12, <1>13, <1>14, <1>15
     DEF Next, RunNextAiJob, RecoverAiPasses, DeleteAllData, Process

\* A meeting's pass leaves the queue only when it ended, was dropped with its
\* meeting, was erased by a wipe that worked, or the process died, for any
\* number of meetings and threads: a halt, the resume of a wipe that was
\* refused or failed, and queueing a meeting twice lose none (ai_queue.rs,
\* halt / resume / push).
THEOREM NoPassIsLost == Spec => PassesLeaveOnlyWhenDone
<1>1. /\ TypeOK /\ TypeOK' /\ QueueShape /\ [Next]_vars
      => [\A m \in Unfinished(aiq) \ Unfinished(aiq') : MayLeave(m)]_vars
  BY StepKeepsPasses
<1>2. Spec => [][\A m \in Unfinished(aiq) \ Unfinished(aiq') : MayLeave(m)]_vars
  BY <1>1, TypeCorrect, QueueKeepsShape, PTL DEF Spec
<1>3. (\A m \in Unfinished(aiq) \ Unfinished(aiq') : MayLeave(m)) <=>
      (\A m \in Unfinished(aiq) \ Unfinished(aiq') :
          \/ worker = "ended" /\ worker' = "finished" /\ Has(aiq.running, m)
          \/ \E c \in Threads : DropPending(c, m)
          \/ wipe = "forget"
          \/ Crash \/ Exit)
  BY DEF MayLeave
<1> QED
  BY <1>2, <1>3, PTL DEF PassesLeaveOnlyWhenDone
=============================================================================
