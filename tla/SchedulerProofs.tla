-------------------------- MODULE SchedulerProofs --------------------------
(***************************************************************************)
(* What holds of the two workers, the commands and the job table for any   *)
(* number of meetings, commands, captures, faults and restarts: the state  *)
(* keeps its shape, a running job and a busy marker always have an owner,  *)
(* no job is tried more than MAX_ATTEMPTS times, and requests to           *)
(* transcribe are dealt with as TranscriptionRequests promises.            *)
(***************************************************************************)
EXTENDS Scheduler, AiQueueProofs

-----------------------------------------------------------------------------
(* The job table.                                                          *)

Row == [status : Statuses, attempts : Nat]

\* A meeting that has a row is taken out of the order, which stays one.
LEMMA WithoutType ==
    ASSUME NEW M, NEW order \in Seq(M), NEW m
    PROVE  Without(order, m) \in Seq(M)
<1>1. CASE \E i \in DOMAIN order : order[i] = m
  <2> DEFINE p == CHOOSE i \in DOMAIN order : order[i] = m
             a == SubSeq(order, 1, p - 1)
             b == SubSeq(order, p + 1, Len(order))
  <2>1. p \in 1..Len(order) /\ Len(order) \in Nat
    BY <1>1, LenProperties
  <2>2. \A k \in 1..Len(order) : order[k] \in M
    BY ElementOfSeq
  <2>3. Without(order, m) = a \o b
    BY <1>1 DEF Without, RemoveAt
  <2> HIDE DEF p
  <2>4. a \in Seq(M)
    <3>1. \A k \in 1..(p - 1) : order[k] \in M
      BY <2>1, <2>2
    <3> QED
      BY <2>1, <3>1, SubSeqProperties, SMT
  <2>5. b \in Seq(M)
    <3>1. \A k \in (p + 1)..Len(order) : order[k] \in M
      BY <2>1, <2>2
    <3> QED
      BY <2>1, <3>1, SubSeqProperties, SMT
  <2> HIDE DEF a, b
  <2> QED
    BY <2>3, <2>4, <2>5, ConcatProperties
<1>2. CASE ~ \E i \in DOMAIN order : order[i] = m
  BY <1>2 DEF Without
<1> QED
  BY <1>1, <1>2

\* A table's parts.
LEMMA TableParts ==
    ASSUME NEW t \in Table(Meetings)
    PROVE  /\ t.row \in [Meetings -> Row] /\ t.order \in Seq(Meetings)
           /\ t = [row |-> t.row, order |-> t.order]
BY DEF Table, Row

\* Every write of a row keeps the table one, and every other row.
LEMMA WriteType ==
    ASSUME NEW t \in Table(Meetings), NEW m \in Meetings, NEW s \in Statuses, NEW n \in Nat
    PROVE  /\ Write(t, m, s, n) \in Table(Meetings)
           /\ Write(t, m, s, n).row[m] = [status |-> s, attempts |-> n]
           /\ \A k \in Meetings : k # m => Write(t, m, s, n).row[k] = t.row[k]
<1>1. Append(Without(t.order, m), m) \in Seq(Meetings)
  BY WithoutType, AppendProperties, TableParts
<1>2. [t.row EXCEPT ![m] = [status |-> s, attempts |-> n]]
         \in [Meetings -> [status : Statuses, attempts : Nat]]
  BY DEF Table
<1> QED
  BY <1>1, <1>2 DEF Write, Table

LEMMA SetJobType ==
    ASSUME NEW t \in Table(Meetings), NEW m \in Meetings, NEW s \in Statuses, NEW n \in Nat
    PROVE  /\ SetJob(t, m, s, n) \in Table(Meetings)
           /\ \/ Status(t, m) = "none" /\ SetJob(t, m, s, n) = t
              \/ /\ Status(t, m) # "none"
                 /\ SetJob(t, m, s, n).row[m] = [status |-> s, attempts |-> n]
           /\ \A k \in Meetings : k # m => SetJob(t, m, s, n).row[k] = t.row[k]
BY WriteType DEF SetJob

LEMMA EnqueueType ==
    ASSUME NEW t \in Table(Meetings), NEW m \in Meetings
    PROVE  /\ EnqueueTranscription(t, m) \in Table(Meetings)
           /\ \/ ~CanEnqueue(t, m) /\ EnqueueTranscription(t, m) = t
              \/ EnqueueTranscription(t, m).row[m] = [status |-> "queued", attempts |-> 0]
           /\ \A k \in Meetings : k # m => EnqueueTranscription(t, m).row[k] = t.row[k]
BY WriteType DEF EnqueueTranscription, Statuses

LEMMA DeleteJobType ==
    ASSUME NEW t \in Table(Meetings), NEW m \in Meetings
    PROVE  /\ DeleteTranscriptionJob(t, m) \in Table(Meetings)
           /\ DeleteTranscriptionJob(t, m).row[m] = NoJob
           /\ \A k \in Meetings : k # m => DeleteTranscriptionJob(t, m).row[k] = t.row[k]
<1>1. Without(t.order, m) \in Seq(Meetings)
  BY WithoutType, TableParts
<1>2. [t.row EXCEPT ![m] = NoJob] \in [Meetings -> [status : Statuses, attempts : Nat]]
  BY DEF Table, NoJob, Statuses
<1> QED
  BY <1>1, <1>2 DEF DeleteTranscriptionJob, Table

\* The job picked is a queued one.
LEMMA NextIsQueued ==
    ASSUME NEW t \in Table(Meetings), NEW m \in NextTranscriptionJob(t)
    PROVE  m \in Meetings /\ Status(t, m) = "queued"
<1>1. PICK i \in QueuedIds(t) : m = t.order[i]
  BY DEF NextTranscriptionJob
<1>2. i \in DOMAIN t.order /\ Status(t, t.order[i]) = "queued"
  BY DEF QueuedIds
<1>3. t.order \in Seq(Meetings)
  BY TableParts
<1> QED
  BY <1>1, <1>2, <1>3, ElementOfSeq, LenProperties

\* reset_running: one interrupted job is queued again, with its attempts.
LEMMA ResetType ==
    ASSUME NEW t \in Table(Meetings)
    PROVE  /\ ResetRunning(t) \in Table(Meetings)
           /\ \A k \in Meetings :
                 \/ ResetRunning(t).row[k] = t.row[k]
                 \/ /\ Status(t, k) = "running"
                    /\ ResetRunning(t).row[k] = [status |-> "queued", attempts |-> t.row[k].attempts]
           /\ (\A k, n \in Meetings : Status(t, k) = "running" /\ Status(t, n) = "running" => k = n)
                 => \A k \in Meetings : ResetRunning(t).row[k].status # "running"
<1> DEFINE running == {m \in DOMAIN t.row : Status(t, m) = "running"}
<1>0. DOMAIN t.row = Meetings
  BY DEF Table
<1>1. CASE running = {}
  <2>1. ResetRunning(t) = t
    BY <1>1 DEF ResetRunning
  <2> QED
    BY <1>0, <1>1, <2>1 DEF Status
<1>2. CASE running # {}
  <2> DEFINE m == CHOOSE m \in running : TRUE
  <2>1. m \in running
    BY <1>2
  <2>2. ResetRunning(t) = SetJob(t, m, "queued", t.row[m].attempts)
    BY <1>2 DEF ResetRunning
  <2>3. m \in Meetings /\ Status(t, m) = "running" /\ t.row[m].attempts \in Nat
    BY <1>0, <2>1 DEF Table
  <2> HIDE DEF m
  <2>4. /\ ResetRunning(t) \in Table(Meetings)
        /\ ResetRunning(t).row[m] = [status |-> "queued", attempts |-> t.row[m].attempts]
        /\ \A k \in Meetings : k # m => ResetRunning(t).row[k] = t.row[k]
    BY <2>2, <2>3, SetJobType DEF Statuses
  <2> QED
    BY <2>3, <2>4 DEF Status
<1> QED
  BY <1>1, <1>2

-----------------------------------------------------------------------------
(* The state keeps its shape.                                              *)

WorkerType == [pc : WorkerSteps, m : Meetings, attempts : Nat,
               err : {"none", "transient", "permanent", "cancelled"},
               kind : Kinds, ids : SUBSET Meetings, passes : SUBSET Job]
AiType == [pc : PassSteps \cup {"gate", "next", "drop"}, m : Meetings,
           kind : Kinds, read : Reads]
MainType == [pc : MainSteps, m : Meetings, op : {"transcribe", "cancel", "delete"}]
ReDiarizeType == [pc : ReDiarizeSteps, m : Meetings, read : Reads, ok : BOOLEAN]
Markers == {"none", "waiting", "busy", "polishing"}
LeftType == [{"commands", "faults", "recordings", "crashes"} -> Nat]

LEMMA AnyMeetingIsOne == AnyMeeting \in Meetings
BY SomeMeetingAssumption DEF AnyMeeting

\* What a fresh process starts with.
LEMMA StartsTyped ==
    /\ \A pc \in WorkerSteps, passes \in SUBSET Job :
          [WorkerStart EXCEPT !.pc = pc, !.passes = passes] \in WorkerType
    /\ \A pc \in WorkerSteps : [WorkerStart EXCEPT !.pc = pc] \in WorkerType
    /\ \A passes \in SUBSET Job : [WorkerStart EXCEPT !.passes = passes] \in WorkerType
    /\ AiStart \in AiType /\ MainStart \in MainType /\ ReDiarizeStart \in ReDiarizeType
BY AnyMeetingIsOne
   DEF WorkerStart, AiStart, MainStart, ReDiarizeStart, WorkerType, AiType, MainType,
       ReDiarizeType, WorkerSteps, PassSteps, MainSteps, ReDiarizeSteps, Reads, Kinds

\* The types of the parts of the state.
LEMMA Shape ==
    TypeOK <=>
      /\ jobs \in Table(Meetings)
      /\ meeting \in [Meetings -> {"live", "orphan", "gone"}]
      /\ transcript \in [Meetings -> {"none", "current", "old"}]
      /\ cleaned \in [Meetings -> Reads]
      /\ stage \in [Meetings -> Markers]
      /\ cancels \subseteq Meetings
      /\ aiq \in Queue
      /\ recording \in BOOLEAN
      /\ tw \in WorkerType /\ aw \in AiType /\ ut \in MainType /\ rd \in ReDiarizeType
      /\ left \in LeftType
BY DEF TypeOK, WorkerType, AiType, MainType, ReDiarizeType, Markers, LeftType

LEMMA ShapeNext ==
    TypeOK' <=>
      /\ jobs' \in Table(Meetings)
      /\ meeting' \in [Meetings -> {"live", "orphan", "gone"}]
      /\ transcript' \in [Meetings -> {"none", "current", "old"}]
      /\ cleaned' \in [Meetings -> Reads]
      /\ stage' \in [Meetings -> Markers]
      /\ cancels' \subseteq Meetings
      /\ aiq' \in Queue
      /\ recording' \in BOOLEAN
      /\ tw' \in WorkerType /\ aw' \in AiType /\ ut' \in MainType /\ rd' \in ReDiarizeType
      /\ left' \in LeftType
BY DEF TypeOK, WorkerType, AiType, MainType, ReDiarizeType, Markers, LeftType

LEMMA InitType == Init => TypeOK
<1> SUFFICES ASSUME Init PROVE TypeOK
  OBVIOUS
<1>1. jobs \in Table(Meetings)
  BY EmptySeq DEF Init, EmptyTable, Table, NoJob, Statuses
<1>2. aiq \in Queue
  BY EmptyQueueType DEF Init
<1>3. tw \in WorkerType /\ aw \in AiType /\ ut \in MainType /\ rd \in ReDiarizeType
  BY StartsTyped DEF Init, WorkerSteps
<1>4. left \in LeftType
  BY BoundsAssumption DEF Init, Left, LeftType
<1> QED
  BY <1>1, <1>2, <1>3, <1>4, Shape DEF Init, Markers, Reads

LEMMA SpendType ==
    ASSUME left \in LeftType, NEW what \in {"commands", "faults", "recordings", "crashes"},
           Spend(what)
    PROVE  left' \in LeftType
BY DEF Spend, LeftType

\* A purge leaves the four tables tables.
LEMMA PurgeType ==
    ASSUME TypeOK, NEW m \in Meetings, PurgeMeeting(m) \/ PurgeIfOrphaned(m)
    PROVE  /\ jobs' \in Table(Meetings)
           /\ meeting' \in [Meetings -> {"live", "orphan", "gone"}]
           /\ transcript' \in [Meetings -> {"none", "current", "old"}]
           /\ cleaned' \in [Meetings -> Reads]
<1>1. ASSUME PurgeMeeting(m)
      PROVE  /\ jobs' \in Table(Meetings)
             /\ meeting' \in [Meetings -> {"live", "orphan", "gone"}]
             /\ transcript' \in [Meetings -> {"none", "current", "old"}]
             /\ cleaned' \in [Meetings -> Reads]
  BY <1>1, DeleteJobType DEF PurgeMeeting, TypeOK, Reads
<1> QED
  BY <1>1 DEF PurgeIfOrphaned, stored, TypeOK

\* A step of the worker that only moves on.
LEMMA WorkerMoves ==
    ASSUME tw \in WorkerType, NEW from, NEW to \in WorkerSteps, TStep(from, to)
    PROVE  tw' \in WorkerType /\ tw'.pc = to /\ tw'.m = tw.m /\ tw'.attempts = tw.attempts
BY DEF TStep, WorkerType

LEMMA WorkerFails ==
    ASSUME tw \in WorkerType, NEW err \in {"transient", "permanent", "cancelled"}, TFail(err)
    PROVE  /\ tw' \in WorkerType /\ tw'.pc = "failed" /\ tw'.m = tw.m
           /\ tw'.attempts = tw.attempts /\ tw'.err = err
BY DEF TFail, WorkerType, WorkerSteps, FailSteps

\* What a newer transcript does to what others have read of it.
LEMMA StaleType ==
    ASSUME NEW m
    PROVE  /\ aw \in AiType => Stale(aw, m) \in AiType
           /\ rd \in ReDiarizeType => Stale(rd, m) \in ReDiarizeType
BY DEF Stale, AiType, ReDiarizeType, Reads

\* The transcription worker, from the gate to the first word of a run.
LEMMA PickingType ==
    ASSUME TypeOK,
           \/ TGate \/ TPick \/ TStopPass \/ TWaitForPassEnd \/ TRegate \/ TMarkRunning
           \/ TClearWaiting \/ TGuard \/ TClaim \/ TLoad
    PROVE  TypeOK'
<1> USE DEF stored, WorkerSteps, RunSteps, FailSteps
<1>0. tw \in WorkerType /\ left \in LeftType /\ tw.m \in Meetings
  BY Shape DEF WorkerType
<1>1. CASE TGate
  BY <1>0, <1>1, WorkerMoves DEF TGate, TypeOK, WorkerType
<1>2. CASE TPick
  <2>1. tw' \in WorkerType
    <3>1. CASE tw' = [tw EXCEPT !.pc = "gate"]
      BY <1>0, <3>1 DEF WorkerType
    <3>2. ASSUME NEW m \in NextTranscriptionJob(jobs),
                 tw' = [tw EXCEPT !.pc = "stop", !.m = m, !.err = "none",
                                  !.attempts = jobs.row[m].attempts]
          PROVE  tw' \in WorkerType
      <4>1. m \in Meetings /\ jobs.row[m].attempts \in Nat
        BY NextIsQueued DEF TypeOK, Table
      <4> QED
        BY <1>0, <3>2, <4>1 DEF WorkerType
    <3> QED
      BY <1>2, <3>1, <3>2 DEF TPick
  <2> QED
    BY <1>2, <2>1 DEF TPick, TypeOK, WorkerType
<1>3. CASE TStopPass
  BY <1>0, <1>3, WorkerMoves, CancelRunningType DEF TStopPass, TypeOK, WorkerType
<1>4. CASE TWaitForPassEnd
  BY <1>0, <1>4, WorkerMoves DEF TWaitForPassEnd, TypeOK, WorkerType
<1>5. CASE TRegate
  BY <1>0, <1>5, WorkerMoves DEF TRegate, TypeOK, WorkerType
<1>6. CASE TMarkRunning
  <2>1. tw' \in WorkerType
    BY <1>0, <1>6, WorkerMoves DEF TMarkRunning
  <2>2. jobs' \in Table(Meetings)
    <3>1. jobs.row[tw.m].attempts \in Nat /\ "running" \in Statuses
      BY <1>0 DEF TypeOK, Table, Statuses
    <3> QED
      BY <1>0, <1>6, <3>1, SetJobType DEF TMarkRunning, MarkRunning, TypeOK
  <2> QED
    BY <1>6, <2>1, <2>2 DEF TMarkRunning, TypeOK, WorkerType
<1>7. CASE TClearWaiting
  <2>1. tw' \in WorkerType
    BY <1>0, <1>7, WorkerMoves DEF TClearWaiting
  <2> QED
    BY <1>0, <1>7, <2>1 DEF TClearWaiting, TSetStage, TypeOK, WorkerType
<1>8. CASE TGuard
  <2>1. tw' \in WorkerType
    BY <1>0, <1>8, WorkerMoves, WorkerFails DEF TGuard
  <2> QED
    BY <1>8, <2>1 DEF TGuard, TypeOK, WorkerType
<1>9. CASE TClaim
  <2>1. tw' \in WorkerType
    BY <1>0, <1>9, WorkerMoves DEF TClaim
  <2> QED
    BY <1>0, <1>9, <2>1 DEF TClaim, TSetStage, TypeOK, WorkerType
<1>10. CASE TLoad
  <2>1. tw' \in WorkerType
    BY <1>0, <1>10, WorkerMoves, WorkerFails DEF TLoad
  <2>2. left' \in LeftType
    BY <1>0, <1>10, SpendType DEF TLoad
  <2> QED
    BY <1>10, <2>1, <2>2 DEF TLoad, TypeOK, WorkerType, LeftType
<1> QED
  BY <1>1, <1>2, <1>3, <1>4, <1>5, <1>6, <1>7, <1>8, <1>9, <1>10

\* The run, to the pass it asks for.
LEMMA RunningType ==
    ASSUME TypeOK,
           \/ TTranscribe \/ TDiarize \/ TEmitSaving \/ TSave \/ TRelease \/ TDropCancel
           \/ TMarkDone \/ TQueueAiPass \/ TPushPass
    PROVE  TypeOK'
<1> USE DEF stored, WorkerSteps, RunSteps, FailSteps
<1>0. tw \in WorkerType /\ left \in LeftType /\ tw.m \in Meetings
  BY Shape DEF WorkerType
<1>1. CASE TTranscribe
  <2>1. tw' \in WorkerType
    BY <1>0, <1>1, WorkerMoves, WorkerFails DEF TTranscribe
  <2>2. left' \in LeftType
    BY <1>0, <1>1, SpendType DEF TTranscribe
  <2>3. stage' \in [Meetings -> Markers]
    BY <1>0, <1>1 DEF TTranscribe, TSetStage, TypeOK, Markers
  <2> QED
    BY <1>1, <2>1, <2>2, <2>3 DEF TTranscribe, TypeOK, WorkerType, LeftType, Markers
<1>2. CASE TDiarize
  <2>1. tw' \in WorkerType
    BY <1>0, <1>2, WorkerMoves, WorkerFails DEF TDiarize
  <2>2. left' \in LeftType
    BY <1>0, <1>2, SpendType DEF TDiarize
  <2> QED
    BY <1>2, <2>1, <2>2 DEF TDiarize, TypeOK, WorkerType, LeftType
<1>3. CASE TEmitSaving
  <2>1. tw' \in WorkerType
    BY <1>0, <1>3, WorkerMoves DEF TEmitSaving
  <2> QED
    BY <1>0, <1>3, <2>1 DEF TEmitSaving, TSetStage, TypeOK, WorkerType
<1>4. CASE TSave
  <2>1. tw' \in WorkerType
    BY <1>0, <1>4, WorkerMoves DEF TSave
  <2>2. aw' \in AiType /\ rd' \in ReDiarizeType
    BY <1>4, Shape, StaleType DEF TSave
  <2>3. /\ transcript' \in [Meetings -> {"none", "current", "old"}]
        /\ cleaned' \in [Meetings -> Reads]
    BY <1>0, <1>4 DEF TSave, TypeOK, Reads
  <2> QED
    BY <1>4, <2>1, <2>2, <2>3 DEF TSave, TypeOK, WorkerType, AiType, ReDiarizeType
<1>5. CASE TRelease
  <2>1. tw' \in WorkerType
    BY <1>0, <1>5, WorkerMoves DEF TRelease
  <2> QED
    BY <1>0, <1>5, <2>1 DEF TRelease, TSetStage, TypeOK, WorkerType
<1>6. CASE TDropCancel
  BY <1>0, <1>6, WorkerMoves DEF TDropCancel, TypeOK, WorkerType
<1>7. CASE TMarkDone
  <2>1. tw' \in WorkerType
    BY <1>0, <1>7, WorkerMoves DEF TMarkDone
  <2>2. jobs' \in Table(Meetings)
    <3>1. jobs.row[tw.m].attempts \in Nat /\ "done" \in Statuses
      BY <1>0 DEF TypeOK, Table, Statuses
    <3> QED
      BY <1>0, <1>7, <3>1, SetJobType DEF TMarkDone, MarkDone, TypeOK
  <2> QED
    BY <1>7, <2>1, <2>2 DEF TMarkDone, TypeOK, WorkerType
<1>8. CASE TQueueAiPass
  BY <1>0, <1>8, WorkerMoves DEF TQueueAiPass, TypeOK, WorkerType
<1>9. CASE TPushPass
  <2>1. tw' \in WorkerType
    BY <1>0, <1>9, WorkerMoves DEF TPushPass
  <2>2. NewJob(tw.m, "AfterTranscription") \in Job
    BY <1>0 DEF NewJob, Job, Kinds
  <2>3. aiq' \in Queue
    BY <1>9, <2>2, PushType DEF TPushPass, TypeOK
  <2> QED
    BY <1>9, <2>1, <2>3 DEF TPushPass, TypeOK, WorkerType
<1> QED
  BY <1>1, <1>2, <1>3, <1>4, <1>5, <1>6, <1>7, <1>8, <1>9

\* A run that failed, and the recovery after a restart.
LEMMA EndingType ==
    ASSUME TypeOK,
           \/ TClassify \/ TCancelledStage \/ THonourCancel \/ TDeleteJob \/ TFinishCancelled
           \/ TErrorStage \/ TParkOrRequeue \/ TMarkWaiting
    PROVE  TypeOK'
<1> USE DEF stored, WorkerSteps, RunSteps, FailSteps
<1>0. tw \in WorkerType /\ left \in LeftType /\ tw.m \in Meetings /\ tw.attempts \in Nat
  BY Shape, ShapeNext DEF WorkerType
<1>1. CASE TClassify
  BY <1>0, <1>1, WorkerMoves DEF TClassify, TypeOK, WorkerType
<1>2. CASE TCancelledStage
  <2>1. tw' \in WorkerType
    BY <1>0, <1>2, WorkerMoves DEF TCancelledStage
  <2> QED
    BY <1>0, <1>2, <2>1 DEF TCancelledStage, TSetStage, TypeOK, WorkerType
<1>3. CASE THonourCancel
  BY <1>0, <1>3, WorkerMoves DEF THonourCancel, TypeOK, WorkerType
<1>4. CASE TDeleteJob
  <2>1. tw' \in WorkerType /\ jobs' \in Table(Meetings)
    BY <1>0, <1>4, WorkerMoves, DeleteJobType DEF TDeleteJob, TypeOK
  <2> QED
    BY <1>4, <2>1 DEF TDeleteJob, TypeOK, WorkerType
<1>5. CASE TFinishCancelled
  <2>1. tw' \in WorkerType
    BY <1>0, <1>5, WorkerMoves DEF TFinishCancelled
  <2>2. /\ jobs' \in Table(Meetings)
        /\ meeting' \in [Meetings -> {"live", "orphan", "gone"}]
        /\ transcript' \in [Meetings -> {"none", "current", "old"}]
        /\ cleaned' \in [Meetings -> Reads]
    BY <1>0, <1>5, PurgeType DEF TFinishCancelled
  <2> QED
    BY <1>5, <2>1, <2>2, Shape, ShapeNext DEF TFinishCancelled
<1>6. CASE TErrorStage
  <2>1. tw' \in WorkerType
    BY <1>0, <1>6, WorkerMoves DEF TErrorStage
  <2> QED
    BY <1>0, <1>6, <2>1 DEF TErrorStage, TSetStage, TypeOK, WorkerType
<1>7. CASE TParkOrRequeue
  <2>1. tw' \in WorkerType
    BY <1>0, <1>7, WorkerMoves DEF TParkOrRequeue
  <2>2. jobs' \in Table(Meetings)
    <3>1. tw.attempts + 1 \in Nat /\ {"queued", "failed"} \subseteq Statuses
      BY <1>0 DEF Statuses
    <3> QED
      BY <1>0, <1>7, <3>1, SetJobType
         DEF TParkOrRequeue, RequeueTranscription, MarkFailed, TypeOK
  <2> QED
    BY <1>7, <2>1, <2>2 DEF TParkOrRequeue, TypeOK, WorkerType
<1>8. CASE TMarkWaiting
  <2>1. tw' \in WorkerType
    BY <1>0, <1>8, WorkerMoves DEF TMarkWaiting
  <2> QED
    BY <1>0, <1>8, <2>1 DEF TMarkWaiting, TSetStage, TypeOK, WorkerType
<1> QED
  BY <1>1, <1>2, <1>3, <1>4, <1>5, <1>6, <1>7, <1>8

LEMMA RecoveringType ==
    ASSUME TypeOK,
           TRecover \/ TRecoverWaiting \/ TReadPasses \/ TRecoverPass \/ TPushRecovered
    PROVE  TypeOK'
<1> USE DEF stored, WorkerSteps, RunSteps, FailSteps
<1>0. tw \in WorkerType /\ tw.m \in Meetings
  BY Shape, ShapeNext DEF WorkerType
<1>1. CASE TRecover
  <2>1. jobs' \in Table(Meetings)
    BY <1>1, ResetType DEF TRecover, TypeOK
  <2>2. tw' \in WorkerType
    BY <1>0, <1>1 DEF TRecover, WorkerType
  <2> QED
    BY <1>1, <2>1, <2>2, Shape, ShapeNext DEF TRecover
<1>2. CASE TRecoverWaiting
  <2>1. tw' \in WorkerType /\ stage' \in [Meetings -> Markers]
    <3>1. CASE tw.ids = {}
      BY <1>0, <1>2, <3>1, WorkerMoves, Shape, ShapeNext DEF TRecoverWaiting
    <3>2. CASE tw.ids # {}
      <4>1. PICK m \in tw.ids : /\ tw' = [tw EXCEPT !.ids = @ \ {m}]
                                /\ stage' = [stage EXCEPT ![m] = "waiting"]
        BY <1>2, <3>2 DEF TRecoverWaiting
      <4>2. tw' \in WorkerType
        BY <1>0, <4>1 DEF WorkerType
      <4>3. stage' \in [Meetings -> Markers]
        BY <4>1, Shape, ShapeNext DEF Markers
      <4> QED
        BY <4>2, <4>3
    <3> QED
      BY <3>1, <3>2
  <2> QED
    BY <1>2, <2>1, Shape, ShapeNext DEF TRecoverWaiting
<1>3. CASE TReadPasses
  <2>1. tw' \in WorkerType
    BY <1>0, <1>3 DEF TReadPasses, WorkerType
  <2> QED
    BY <1>3, <2>1, Shape, ShapeNext DEF TReadPasses
<1>4. CASE TRecoverPass
  <2>1. tw' \in WorkerType
    <3>1. CASE tw.passes = {}
      BY <1>0, <1>4, <3>1, WorkerMoves DEF TRecoverPass
    <3>2. CASE tw.passes # {}
      <4>1. PICK j \in tw.passes :
               tw' = [tw EXCEPT !.passes = @ \ {j}, !.m = j.meeting, !.kind = j.kind,
                                !.pc = IF stage[j.meeting] = "none" THEN "repush" ELSE @]
        BY <1>4, <3>2 DEF TRecoverPass
      <4>2. j.meeting \in Meetings /\ j.kind \in Kinds
        BY <1>0 DEF WorkerType, Job
      <4> QED
        BY <1>0, <4>1, <4>2 DEF WorkerType
    <3> QED
      BY <3>1, <3>2
  <2> QED
    BY <1>4, <2>1, Shape, ShapeNext DEF TRecoverPass
<1>5. CASE TPushRecovered
  <2>1. tw' \in WorkerType
    BY <1>0, <1>5, WorkerMoves DEF TPushRecovered
  <2>2. NewJob(tw.m, tw.kind) \in Job
    BY <1>0 DEF NewJob, Job, WorkerType
  <2>3. aiq' \in Queue
    BY <1>5, <2>2, PushType DEF TPushRecovered, TypeOK
  <2> QED
    BY <1>5, <2>1, <2>3, Shape, ShapeNext DEF TPushRecovered
<1> QED
  BY <1>1, <1>2, <1>3, <1>4, <1>5

LEMMA TranscriptionWorkerType == TypeOK /\ TranscriptionWorker => TypeOK'
BY PickingType, RunningType, EndingType, RecoveringType DEF TranscriptionWorker

\* A step of the AI worker that only moves on.
LEMMA AiMoves ==
    ASSUME aw \in AiType, NEW from, NEW to \in PassSteps \cup {"gate", "next", "drop"},
           AStep(from, to)
    PROVE  aw' \in AiType /\ aw'.pc = to /\ aw'.m = aw.m
BY DEF AStep, AiType

\* Only the pass's own marker goes.
LEMMA UnpolishType ==
    ASSUME stage \in [Meetings -> Markers], NEW m \in Meetings, Unpolish(m)
    PROVE  /\ stage' \in [Meetings -> Markers] /\ stage'[m] # "polishing"
           /\ \A k \in Meetings : stage'[k] \in {stage[k], "none"}
BY DEF Unpolish, Markers

LEMMA AiWorkerType == TypeOK /\ AiWorker => TypeOK'
<1> USE DEF stored, PassSteps
<1> SUFFICES ASSUME TypeOK, AiWorker PROVE TypeOK'
  OBVIOUS
<1>0. aw \in AiType /\ aw.m \in Meetings /\ aw.kind \in Kinds /\ aiq \in Queue
  BY Shape, ShapeNext DEF AiType
<1>1. CASE AGate
  BY <1>0, <1>1, AiMoves, Shape, ShapeNext DEF AGate
<1>2. CASE ANext
  <2>1. CASE CanStart(aiq)
    <3>1. aiq' \in Queue
      BY <1>0, <1>2, <2>1, StartType DEF ANext
    <3>2. Head(aiq.pending) \in Job
      BY <1>0, <2>1, HeadTailProperties DEF CanStart, Queue
    <3>3. aw' \in AiType
      BY <1>2, <2>1, <3>2 DEF ANext, AiType, Job, Reads
    <3> QED
      BY <1>2, <3>1, <3>3, Shape, ShapeNext DEF ANext
  <2>2. CASE ~CanStart(aiq)
    <3>1. aw' \in AiType /\ aiq' = aiq
      BY <1>0, <1>2, <2>2 DEF ANext, AiType
    <3> QED
      BY <1>2, <3>1, Shape, ShapeNext DEF ANext
  <2> QED
    BY <2>1, <2>2
<1>3. CASE ABegin
  <2>1. aw' \in AiType
    BY <1>0, <1>3, AiMoves DEF ABegin
  <2>2. stage' \in [Meetings -> Markers]
    BY <1>0, <1>3, Shape, ShapeNext DEF ABegin, Markers
  <2> QED
    BY <1>3, <2>1, <2>2, Shape, ShapeNext DEF ABegin
<1>4. CASE AReadTranscript
  <2>1. aw' \in AiType
    BY <1>0, <1>4, AiMoves DEF AReadTranscript, AiType, Reads
  <2> QED
    BY <1>4, <2>1, Shape, ShapeNext DEF AReadTranscript
<1>5. CASE ASaveCleaned
  <2>1. aw' \in AiType
    BY <1>0, <1>5 DEF ASaveCleaned, AiType, Reads
  <2>2. cleaned' \in [Meetings -> Reads]
    <3>1. aw.read \in Reads
      BY <1>0 DEF AiType
    <3> QED
      BY <1>0, <1>5, <3>1, Shape, ShapeNext DEF ASaveCleaned
  <2> QED
    BY <1>5, <2>1, <2>2, Shape, ShapeNext DEF ASaveCleaned
<1>6. CASE AClearMarker
  BY <1>0, <1>6, AiMoves, UnpolishType, Shape, ShapeNext DEF AClearMarker
<1>7. CASE AExtract
  BY <1>0, <1>7, AiMoves, Shape, ShapeNext DEF AExtract
<1>8. CASE ACancelled
  <2>1. aw' \in AiType
    BY <1>0, <1>8 DEF ACancelled, AiType, Reads
  <2> QED
    BY <1>8, <2>1, Shape, ShapeNext DEF ACancelled
<1>9. CASE AAbandon
  BY <1>0, <1>9, AiMoves, UnpolishType, Shape, ShapeNext DEF AAbandon
<1>10. CASE APurge
  <2>1. aw' \in AiType
    BY <1>0, <1>10, AiMoves DEF APurge
  <2>2. /\ jobs' \in Table(Meetings)
        /\ meeting' \in [Meetings -> {"live", "orphan", "gone"}]
        /\ transcript' \in [Meetings -> {"none", "current", "old"}]
        /\ cleaned' \in [Meetings -> Reads]
    BY <1>0, <1>10, PurgeType DEF APurge
  <2> QED
    BY <1>10, <2>1, <2>2, Shape, ShapeNext DEF APurge
<1>11. CASE ADropRunning
  BY <1>0, <1>11, AiMoves, FinishType, Shape, ShapeNext DEF ADropRunning
<1> QED
  BY <1>1, <1>2, <1>3, <1>4, <1>5, <1>6, <1>7, <1>8, <1>9, <1>10, <1>11 DEF AiWorker

\* A step of the main thread that only moves on.
LEMMA MainMoves ==
    ASSUME ut \in MainType, NEW from, NEW to \in MainSteps, UStep(from, to)
    PROVE  ut' \in MainType /\ ut'.pc = to /\ ut'.m = ut.m /\ ut'.op = ut.op
BY DEF UStep, MainType

\* The commands as they are given.
LEMMA AskedType ==
    ASSUME TypeOK, NEW m \in Meetings,
           UEnqueue(m) \/ (\E op \in Commands : UCancel(m, op)) \/ RClaim(m)
    PROVE  TypeOK'
<1> USE DEF stored
<1>0. left \in LeftType
  BY Shape
<1>1. CASE UEnqueue(m)
  <2>1. jobs' \in Table(Meetings)
    BY <1>1, EnqueueType, Shape DEF UEnqueue
  <2>2. ut' \in MainType
    BY <1>1 DEF UEnqueue, MainType, MainSteps
  <2>3. left' \in LeftType
    BY <1>0, <1>1, SpendType DEF UEnqueue, Command
  <2> QED
    BY <1>1, <2>1, <2>2, <2>3, Shape, ShapeNext DEF UEnqueue
<1>2. ASSUME NEW op \in Commands, UCancel(m, op) PROVE TypeOK'
  <2>1. aiq' \in Queue
    BY <1>2, RemovePendingType, Shape DEF UCancel
  <2>2. ut' \in MainType
    BY <1>2 DEF UCancel, MainType, MainSteps
  <2>3. left' \in LeftType
    BY <1>0, <1>2, SpendType DEF UCancel, Command
  <2> QED
    BY <1>2, <2>1, <2>2, <2>3, Shape, ShapeNext DEF UCancel
<1>3. CASE RClaim(m)
  <2>1. rd' \in ReDiarizeType
    BY <1>3 DEF RClaim, ReDiarizeType, ReDiarizeSteps, Reads
  <2>2. stage' \in [Meetings -> Markers]
    BY <1>3, Shape DEF RClaim, Markers
  <2>3. left' \in LeftType
    BY <1>0, <1>3, SpendType DEF RClaim
  <2> QED
    BY <1>3, <2>1, <2>2, <2>3, Shape, ShapeNext DEF RClaim
<1> QED
  BY <1>1, <1>2, <1>3

LEMMA MainThreadType == TypeOK /\ MainThread => TypeOK'
<1> USE DEF stored, MainSteps
<1> SUFFICES ASSUME TypeOK, MainThread PROVE TypeOK'
  OBVIOUS
<1>0. ut \in MainType /\ ut.m \in Meetings /\ AfterCancel \in MainSteps
  BY Shape DEF MainType, AfterCancel
<1>1. CASE UEnqueueUncancel
  BY <1>0, <1>1, MainMoves, Shape, ShapeNext DEF UEnqueueUncancel
<1>2. CASE UEnqueueDropPass
  BY <1>0, <1>2, MainMoves, RemovePendingType, Shape, ShapeNext DEF UEnqueueDropPass
<1>3. CASE UEnqueueMarkWaiting
  <2>1. ut' \in MainType
    BY <1>0, <1>3, MainMoves DEF UEnqueueMarkWaiting
  <2>2. stage' \in [Meetings -> Markers]
    BY <1>0, <1>3, Shape DEF UEnqueueMarkWaiting, Markers
  <2> QED
    BY <1>3, <2>1, <2>2, Shape, ShapeNext DEF UEnqueueMarkWaiting
<1>4. CASE UCancelLook
  BY <1>0, <1>4, MainMoves, Shape, ShapeNext DEF UCancelLook
<1>5. CASE UCancelRequest
  BY <1>0, <1>5, MainMoves, Shape, ShapeNext DEF UCancelRequest
<1>6. CASE UCancelJob
  <2>1. ut' \in MainType
    BY <1>0, <1>6 DEF UCancelJob, MainType
  <2>2. jobs' \in Table(Meetings)
    BY <1>0, <1>6, DeleteJobType, Shape DEF UCancelJob
  <2> QED
    BY <1>6, <2>1, <2>2, Shape, ShapeNext DEF UCancelJob
<1>7. CASE UCancelGuardPickup
  BY <1>0, <1>7, MainMoves, Shape, ShapeNext DEF UCancelGuardPickup
<1>8. CASE UCancelUnstage
  <2>1. ut' \in MainType
    BY <1>0, <1>8, MainMoves DEF UCancelUnstage
  <2>2. stage' \in [Meetings -> Markers]
    BY <1>0, <1>8, Shape DEF UCancelUnstage, Markers
  <2> QED
    BY <1>8, <2>1, <2>2, Shape, ShapeNext DEF UCancelUnstage
<1>9. CASE UCancelParked
  <2>1. jobs' \in Table(Meetings)
    BY <1>0, <1>9, DeleteJobType, Shape DEF UCancelParked
  <2> QED
    BY <1>0, <1>9, <2>1, MainMoves, Shape, ShapeNext DEF UCancelParked
<1>10. CASE UDeleteNote
  <2>1. meeting' \in [Meetings -> {"live", "orphan", "gone"}]
    BY <1>0, <1>10, Shape DEF UDeleteNote
  <2> QED
    BY <1>0, <1>10, <2>1, MainMoves, Shape, ShapeNext DEF UDeleteNote
<1>11. CASE UDeleteStopPass
  BY <1>0, <1>11, MainMoves, CancelRunningType, Shape, ShapeNext DEF UDeleteStopPass
<1>12. CASE UDeleteLook
  BY <1>0, <1>12, MainMoves, Shape, ShapeNext DEF UDeleteLook
<1>13. CASE UDeletePurge
  <2>1. /\ jobs' \in Table(Meetings)
        /\ meeting' \in [Meetings -> {"live", "orphan", "gone"}]
        /\ transcript' \in [Meetings -> {"none", "current", "old"}]
        /\ cleaned' \in [Meetings -> Reads]
    BY <1>0, <1>13, PurgeType DEF UDeletePurge
  <2> QED
    BY <1>0, <1>13, <2>1, MainMoves, Shape, ShapeNext DEF UDeletePurge
<1> QED
  BY <1>1, <1>2, <1>3, <1>4, <1>5, <1>6, <1>7, <1>8, <1>9, <1>10, <1>11, <1>12, <1>13
     DEF MainThread

\* A step of a re-analysis that only moves on.
LEMMA ReDiarizeMoves ==
    ASSUME rd \in ReDiarizeType, NEW from, NEW to \in ReDiarizeSteps, RStep(from, to)
    PROVE  rd' \in ReDiarizeType /\ rd'.pc = to /\ rd'.m = rd.m
BY DEF RStep, ReDiarizeType

LEMMA ReDiarizeStepType == TypeOK /\ ReDiarize => TypeOK'
<1> USE DEF stored, ReDiarizeSteps
<1> SUFFICES ASSUME TypeOK, ReDiarize PROVE TypeOK'
  OBVIOUS
<1>0. rd \in ReDiarizeType /\ rd.m \in Meetings /\ left \in LeftType
  BY Shape DEF ReDiarizeType
<1>1. CASE RRead
  <2>1. rd' \in ReDiarizeType
    BY <1>0, <1>1, ReDiarizeMoves DEF RRead, ReDiarizeType, Reads
  <2> QED
    BY <1>1, <2>1, Shape, ShapeNext DEF RRead
<1>2. CASE RDiarize
  <2>1. rd' \in ReDiarizeType
    BY <1>0, <1>2, ReDiarizeMoves DEF RDiarize
  <2>2. stage' \in [Meetings -> Markers]
    BY <1>0, <1>2, Shape DEF RDiarize, Markers
  <2>3. left' \in LeftType
    BY <1>0, <1>2, SpendType DEF RDiarize
  <2> QED
    BY <1>2, <2>1, <2>2, <2>3, Shape, ShapeNext DEF RDiarize
<1>3. CASE RSave
  <2>1. rd' \in ReDiarizeType
    BY <1>0, <1>3 DEF RSave, ReDiarizeType, Reads
  <2>2. transcript' \in [Meetings -> {"none", "current", "old"}]
    <3>1. rd.read \in {"none", "current", "stale"}
      BY <1>0 DEF ReDiarizeType, Reads
    <3> QED
      BY <1>0, <1>3, <3>1, Shape DEF RSave
  <2> QED
    BY <1>3, <2>1, <2>2, Shape, ShapeNext DEF RSave
<1>4. CASE RRelease
  <2>1. rd' \in ReDiarizeType
    BY <1>0, <1>4, ReDiarizeMoves DEF RRelease
  <2>2. stage' \in [Meetings -> Markers]
    BY <1>0, <1>4, Shape DEF RRelease, Markers
  <2> QED
    BY <1>4, <2>1, <2>2, Shape, ShapeNext DEF RRelease
<1>5. CASE RQueueExtraction
  BY <1>0, <1>5, ReDiarizeMoves, Shape, ShapeNext DEF RQueueExtraction
<1>6. CASE RPushExtraction
  <2>1. NewJob(rd.m, "ExtractOnly") \in Job
    BY <1>0 DEF NewJob, Job, Kinds
  <2>2. aiq' \in Queue
    BY <1>6, <2>1, PushType, Shape DEF RPushExtraction
  <2> QED
    BY <1>0, <1>6, <2>2, ReDiarizeMoves, Shape, ShapeNext DEF RPushExtraction
<1> QED
  BY <1>1, <1>2, <1>3, <1>4, <1>5, <1>6 DEF ReDiarize

LEMMA CaptureType == TypeOK /\ (StartRecording \/ StopRecording) => TypeOK'
BY SpendType, Shape, ShapeNext DEF StartRecording, StopRecording, stored, actors

LEMMA RestartType == TypeOK /\ Restart => TypeOK'
<1> SUFFICES ASSUME TypeOK, Restart PROVE TypeOK'
  OBVIOUS
<1>1. left' \in LeftType
  BY SpendType, Shape DEF Restart
<1>2. aiq' \in Queue
  BY EmptyQueueType DEF Restart
<1>3. tw' \in WorkerType
  <2>1. PICK saved \in SUBSET {NewJob(j.meeting, j.kind) : j \in Snapshot(aiq)} :
           tw' = [WorkerStart EXCEPT !.passes = saved]
    BY DEF Restart
  <2>2. Snapshot(aiq) \subseteq Job
    BY SnapshotType, Shape
  <2>3. \A j \in Job : NewJob(j.meeting, j.kind) \in Job
    BY DEF NewJob, Job
  <2>4. saved \in SUBSET Job
    BY <2>2, <2>3
  <2> QED
    BY <2>1, <2>4, StartsTyped
<1>4. aw' \in AiType /\ ut' \in MainType /\ rd' \in ReDiarizeType
  BY StartsTyped DEF Restart
<1> QED
  BY <1>1, <1>2, <1>3, <1>4, Shape, ShapeNext DEF Restart, stored, Markers

\* A step of anyone leaves every variable its type.
LEMMA StepType == TypeOK /\ [Next]_vars => TypeOK'
<1> SUFFICES ASSUME TypeOK, [Next]_vars PROVE TypeOK'
  OBVIOUS
<1>1. CASE Next
  BY <1>1, TranscriptionWorkerType, AiWorkerType, AskedType, MainThreadType,
     ReDiarizeStepType, CaptureType, RestartType DEF Next
<1>2. CASE UNCHANGED vars
  BY <1>2, Shape, ShapeNext DEF vars
<1> QED
  BY <1>1, <1>2

\* The job table, the markers and the queue, the places of both workers and of
\* the commands: all keep the shape the code gives them.
THEOREM SchedulerTypes == Spec => []TypeOK
<1>1. Init => TypeOK
  BY InitType
<1>2. TypeOK /\ [Next]_vars => TypeOK'
  BY StepType
<1> QED
  BY <1>1, <1>2, PTL DEF Spec

-----------------------------------------------------------------------------
(* A running job has an owner, and a job has tries left.                   *)
(*                                                                         *)
(* Neither holds by induction alone.  The worker writes "running" with an  *)
(* UPDATE of a row it picked some steps ago: what it picked must still be  *)
(* queued or gone then, and what it counted when it picked still be a      *)
(* number of tries below the limit.  A restart resets one row: there must  *)
(* be no second one.                                                       *)

Picking == {"stop", "wait", "regate", "mark"}
Owning == {"unwait", "guard", "claim", "moot", "done"} \cup RunSteps \cup FailSteps
Trying == Picking \cup {"unwait", "guard", "claim"} \cup RunSteps \cup FailSteps

OneRuns ==
    \A m, k \in Meetings :
        Status(jobs, m) = "running" /\ Status(jobs, k) = "running" => m = k

PickedWaits == tw.pc \in Picking => Status(jobs, tw.m) \in {"none", "queued"}

CancelledIsOff == tw.pc = "purge" => Status(jobs, tw.m) # "running"

TriesLeft == tw.pc \in Trying => tw.attempts < MaxAttempts

JobInv ==
    /\ OneRuns /\ RunningHasOwner /\ PickedWaits /\ CancelledIsOff
    /\ TriesLeft /\ RetriesBounded

\* What holds of the jobs speaks of the rows and the worker only.
LEMMA OthersKeepJobs ==
    ASSUME TypeOK, JobInv, UNCHANGED tw,
           \A k \in Meetings :
              jobs'.row[k] \in {jobs.row[k], NoJob, [status |-> "queued", attempts |-> 0]}
    PROVE  JobInv'
<1>1. \A k \in Meetings : Status(jobs', k) = "running" => jobs'.row[k] = jobs.row[k]
  BY DEF Status, NoJob
<1>2. \A k \in Meetings : \/ jobs'.row[k] = jobs.row[k]
                          \/ Status(jobs', k) \in {"none", "queued"}
  BY DEF Status, NoJob
<1>3. OneRuns' /\ RunningHasOwner'
  BY <1>1 DEF JobInv, OneRuns, RunningHasOwner, Status
<1>4. PickedWaits' /\ CancelledIsOff' /\ TriesLeft'
  <2>1. tw.m \in Meetings
    BY Shape DEF WorkerType
  <2> QED
    BY <1>2, <2>1 DEF JobInv, PickedWaits, CancelledIsOff, TriesLeft, Status
<1>5. RetriesBounded'
  BY MaxAttemptsAssumption DEF JobInv, RetriesBounded, Status, NoJob
<1> QED
  BY <1>3, <1>4, <1>5 DEF JobInv

\* The worker moves on and leaves the table alone.
LEMMA MovingKeepsJobs ==
    ASSUME TypeOK, JobInv, UNCHANGED jobs,
           tw.pc # "recover",
           tw'.m = tw.m, tw'.attempts = tw.attempts,
           tw'.pc \in Picking => tw.pc \in Picking,
           tw'.pc \in Trying => tw.pc \in Trying,
           tw.pc \in Owning => tw'.pc \in Owning \/ Status(jobs, tw.m) # "running",
           tw'.pc = "purge" => Status(jobs, tw.m) # "running"
    PROVE  JobInv'
<1>1. RunningHasOwner'
  BY DEF JobInv, RunningHasOwner, Owning, Status
<1> QED
  BY <1>1 DEF JobInv, OneRuns, PickedWaits, CancelledIsOff, TriesLeft, RetriesBounded, Status

\* The worker writes the row of its meeting, and moves on.
LEMMA WritingKeepsJobs ==
    ASSUME TypeOK, JobInv,
           tw.pc \in Owning,
           tw'.m = tw.m, tw'.attempts = tw.attempts,
           tw'.pc \notin Picking, tw'.pc \notin Trying \/ tw'.pc = "purge",
           tw'.pc \in Trying => tw.pc \in Trying,
           \A k \in Meetings : k # tw.m => jobs'.row[k] = jobs.row[k],
           Status(jobs', tw.m) # "running",
           jobs'.row[tw.m].attempts <= MaxAttempts,
           Status(jobs', tw.m) = "queued" => jobs'.row[tw.m].attempts < MaxAttempts
    PROVE  JobInv'
<1>1. \A k \in Meetings : Status(jobs, k) = "running" => k = tw.m
  BY DEF JobInv, RunningHasOwner, Owning, RunSteps, FailSteps
<1>2. \A k \in Meetings : Status(jobs', k) # "running"
  BY <1>1 DEF Status
<1>3. OneRuns' /\ RunningHasOwner'
  BY <1>2 DEF OneRuns, RunningHasOwner
<1>4. PickedWaits' /\ CancelledIsOff' /\ TriesLeft'
  BY DEF JobInv, PickedWaits, CancelledIsOff, TriesLeft
<1>5. RetriesBounded'
  <2>1. ASSUME NEW k \in Meetings
        PROVE  /\ jobs'.row[k].attempts <= MaxAttempts
               /\ Status(jobs', k) \in {"queued", "running"} => jobs'.row[k].attempts < MaxAttempts
    BY <1>2 DEF JobInv, RetriesBounded, Status
  <2> QED
    BY <2>1 DEF RetriesBounded
<1> QED
  BY <1>3, <1>4, <1>5 DEF JobInv

LEMMA PickingKeepsJobs ==
    ASSUME TypeOK, JobInv,
           \/ TGate \/ TPick \/ TStopPass \/ TWaitForPassEnd \/ TRegate \/ TMarkRunning
           \/ TClearWaiting \/ TGuard \/ TClaim \/ TLoad
    PROVE  JobInv'
<1> USE DEF stored, RunSteps, FailSteps, WorkerSteps
<1>0. /\ tw \in WorkerType /\ tw.m \in Meetings /\ tw.pc \in WorkerSteps
      /\ jobs \in Table(Meetings)
  BY Shape DEF WorkerType
<1>1. CASE TGate
  BY <1>0, <1>1, WorkerMoves, MovingKeepsJobs DEF TGate, TStep, Picking, Trying, Owning
<1>2. CASE TPick
  <2>1. CASE tw' = [tw EXCEPT !.pc = "gate"]
    <3>1. tw'.pc = "gate" /\ tw'.m = tw.m /\ tw'.attempts = tw.attempts
      BY <1>0, <2>1 DEF WorkerType
    <3> QED
      BY <1>2, <3>1, MovingKeepsJobs DEF TPick, Picking, Trying, Owning
  <2>2. ASSUME NEW m \in NextTranscriptionJob(jobs),
               tw' = [tw EXCEPT !.pc = "stop", !.m = m, !.err = "none",
                                !.attempts = jobs.row[m].attempts]
        PROVE  JobInv'
    <3>1. m \in Meetings /\ Status(jobs, m) = "queued"
      BY <1>0, NextIsQueued
    <3>2. tw'.pc = "stop" /\ tw'.m = m /\ tw'.attempts = jobs.row[m].attempts
      BY <1>0, <2>2 DEF WorkerType
    <3>3. jobs' = jobs /\ tw.pc = "pick"
      BY <1>2 DEF TPick
    <3>4. \A k \in Meetings : Status(jobs, k) # "running"
      BY <3>3 DEF JobInv, RunningHasOwner
    <3>5. tw'.attempts < MaxAttempts
      BY <3>1, <3>2 DEF JobInv, RetriesBounded
    <3> QED
      BY <3>1, <3>2, <3>3, <3>4, <3>5
         DEF JobInv, OneRuns, RunningHasOwner, PickedWaits, CancelledIsOff, TriesLeft,
             RetriesBounded
  <2> QED
    BY <1>2, <2>1, <2>2 DEF TPick
<1>3. CASE TStopPass
  BY <1>0, <1>3, WorkerMoves, MovingKeepsJobs DEF TStopPass, TStep, Picking, Trying, Owning
<1>4. CASE TWaitForPassEnd
  BY <1>0, <1>4, WorkerMoves, MovingKeepsJobs DEF TWaitForPassEnd, TStep, Picking, Trying, Owning
<1>5. CASE TRegate
  BY <1>0, <1>5, WorkerMoves, MovingKeepsJobs DEF TRegate, TStep, Picking, Trying, Owning
<1>6. CASE TMarkRunning
  <2>1. tw.pc = "mark" /\ tw'.pc = "unwait" /\ tw'.m = tw.m /\ tw'.attempts = tw.attempts
    BY <1>0, <1>6, WorkerMoves DEF TMarkRunning, TStep
  <2>2. Status(jobs, tw.m) \in {"none", "queued"} /\ tw.attempts < MaxAttempts
    BY <2>1 DEF JobInv, PickedWaits, TriesLeft, Picking, Trying
  <2>3. /\ \/ Status(jobs, tw.m) = "none" /\ jobs' = jobs
           \/ /\ Status(jobs, tw.m) # "none"
              /\ jobs'.row[tw.m] = [status |-> "running", attempts |-> jobs.row[tw.m].attempts]
        /\ \A k \in Meetings : k # tw.m => jobs'.row[k] = jobs.row[k]
    <3>1. jobs.row[tw.m].attempts \in Nat
      BY <1>0 DEF Table
    <3> QED
      BY <1>0, <1>6, <3>1, SetJobType DEF TMarkRunning, MarkRunning, Statuses
  <2>4. \A k \in Meetings : Status(jobs, k) # "running"
    BY <2>1 DEF JobInv, RunningHasOwner
  <2>5. \A k \in Meetings : Status(jobs', k) = "running" => k = tw.m
    BY <2>3, <2>4 DEF Status
  <2>6. RetriesBounded'
    <3>1. ASSUME NEW k \in Meetings
          PROVE  /\ jobs'.row[k].attempts <= MaxAttempts
                 /\ Status(jobs', k) \in {"queued", "running"} => jobs'.row[k].attempts < MaxAttempts
      <4>1. /\ jobs.row[k].attempts <= MaxAttempts
            /\ Status(jobs, k) \in {"queued", "running"} => jobs.row[k].attempts < MaxAttempts
        BY DEF JobInv, RetriesBounded
      <4>2. CASE jobs'.row[k] = jobs.row[k]
        BY <4>1, <4>2 DEF Status
      <4>3. CASE jobs'.row[k] # jobs.row[k]
        <5>1. k = tw.m /\ Status(jobs, k) = "queued"
          BY <2>2, <2>3, <4>3
        <5> QED
          BY <2>3, <4>1, <4>3, <5>1
      <4> QED
        BY <4>2, <4>3
    <3> QED
      BY <3>1 DEF RetriesBounded
  <2> QED
    BY <2>1, <2>2, <2>5, <2>6
       DEF JobInv, OneRuns, RunningHasOwner, PickedWaits, CancelledIsOff, TriesLeft,
           Picking, Trying
<1>7. CASE TClearWaiting
  BY <1>0, <1>7, WorkerMoves, MovingKeepsJobs DEF TClearWaiting, TStep, Picking, Trying, Owning
<1>8. CASE TGuard
  BY <1>0, <1>8, WorkerMoves, WorkerFails, MovingKeepsJobs
     DEF TGuard, TStep, Picking, Trying, Owning
<1>9. CASE TClaim
  BY <1>0, <1>9, WorkerMoves, MovingKeepsJobs DEF TClaim, TStep, Picking, Trying, Owning
<1>10. CASE TLoad
  <2>1. /\ tw.pc = "load" /\ tw'.pc \in {"failed", "asr"} /\ tw'.m = tw.m
        /\ tw'.attempts = tw.attempts /\ jobs' = jobs
    BY <1>0, <1>10, WorkerMoves, WorkerFails DEF TLoad
  <2> QED
    BY <2>1, MovingKeepsJobs DEF Picking, Trying, Owning
<1> QED
  BY <1>1, <1>2, <1>3, <1>4, <1>5, <1>6, <1>7, <1>8, <1>9, <1>10

LEMMA RunningKeepsJobs ==
    ASSUME TypeOK, JobInv,
           \/ TTranscribe \/ TDiarize \/ TEmitSaving \/ TSave \/ TRelease \/ TDropCancel
           \/ TMarkDone \/ TQueueAiPass \/ TPushPass
    PROVE  JobInv'
<1> USE DEF stored, RunSteps, FailSteps, WorkerSteps
<1>0. /\ tw \in WorkerType /\ tw.m \in Meetings /\ tw.pc \in WorkerSteps
      /\ jobs \in Table(Meetings)
  BY Shape DEF WorkerType
<1>1. CASE TTranscribe
  <2>1. /\ tw.pc = "asr" /\ tw'.pc \in {"failed", "diarize"} /\ tw'.m = tw.m
        /\ tw'.attempts = tw.attempts /\ jobs' = jobs
    BY <1>0, <1>1, WorkerMoves, WorkerFails DEF TTranscribe
  <2> QED
    BY <2>1, MovingKeepsJobs DEF Picking, Trying, Owning
<1>2. CASE TDiarize
  <2>1. /\ tw.pc = "diarize" /\ tw'.pc \in {"failed", "saving"} /\ tw'.m = tw.m
        /\ tw'.attempts = tw.attempts /\ jobs' = jobs
    BY <1>0, <1>2, WorkerMoves, WorkerFails DEF TDiarize
  <2> QED
    BY <2>1, MovingKeepsJobs DEF Picking, Trying, Owning
<1>3. CASE TEmitSaving
  BY <1>0, <1>3, WorkerMoves, MovingKeepsJobs DEF TEmitSaving, TStep, Picking, Trying, Owning
<1>4. CASE TSave
  BY <1>0, <1>4, WorkerMoves, MovingKeepsJobs DEF TSave, TStep, Picking, Trying, Owning
<1>5. CASE TRelease
  BY <1>0, <1>5, WorkerMoves, MovingKeepsJobs DEF TRelease, TStep, Picking, Trying, Owning
<1>6. CASE TDropCancel
  BY <1>0, <1>6, WorkerMoves, MovingKeepsJobs DEF TDropCancel, TStep, Picking, Trying, Owning
<1>7. CASE TMarkDone
  <2>1. tw.pc = "done" /\ tw'.pc = "queue" /\ tw'.m = tw.m /\ tw'.attempts = tw.attempts
    BY <1>0, <1>7, WorkerMoves DEF TMarkDone, TStep
  <2>2. /\ \/ Status(jobs, tw.m) = "none" /\ jobs' = jobs
           \/ jobs'.row[tw.m] = [status |-> "done", attempts |-> jobs.row[tw.m].attempts]
        /\ \A k \in Meetings : k # tw.m => jobs'.row[k] = jobs.row[k]
    <3>1. jobs.row[tw.m].attempts \in Nat
      BY <1>0 DEF Table
    <3> QED
      BY <1>0, <1>7, <3>1, SetJobType DEF TMarkDone, MarkDone, Statuses
  <2>3. jobs'.row[tw.m].attempts <= MaxAttempts /\ Status(jobs', tw.m) \in {"none", "done"}
    BY <1>0, <2>2 DEF JobInv, RetriesBounded, Status
  <2> QED
    BY <2>1, <2>2, <2>3, WritingKeepsJobs DEF Picking, Trying, Owning
<1>8. CASE TQueueAiPass
  BY <1>0, <1>8, WorkerMoves, MovingKeepsJobs DEF TQueueAiPass, TStep, Picking, Trying, Owning
<1>9. CASE TPushPass
  BY <1>0, <1>9, WorkerMoves, MovingKeepsJobs DEF TPushPass, TStep, Picking, Trying, Owning
<1> QED
  BY <1>1, <1>2, <1>3, <1>4, <1>5, <1>6, <1>7, <1>8, <1>9

\* How a run ends: cancelled, parked as failed, or queued for another try.
LEMMA EndingKeepsJobs ==
    ASSUME TypeOK, JobInv,
           \/ TClassify \/ TCancelledStage \/ THonourCancel \/ TDeleteJob
           \/ TFinishCancelled \/ TErrorStage \/ TParkOrRequeue \/ TMarkWaiting
    PROVE  JobInv'
<1> USE DEF stored, RunSteps, FailSteps, WorkerSteps
<1>0. /\ tw \in WorkerType /\ tw.m \in Meetings /\ tw.pc \in WorkerSteps
      /\ jobs \in Table(Meetings)
  BY Shape DEF WorkerType
<1>1. CASE TClassify
  BY <1>0, <1>1, WorkerMoves, MovingKeepsJobs DEF TClassify, TStep, Picking, Trying, Owning
<1>2. CASE TCancelledStage
  BY <1>0, <1>2, WorkerMoves, MovingKeepsJobs DEF TCancelledStage, TStep, Picking, Trying, Owning
<1>3. CASE THonourCancel
  BY <1>0, <1>3, WorkerMoves, MovingKeepsJobs DEF THonourCancel, TStep, Picking, Trying, Owning
<1>4. CASE TDeleteJob
  <2>1. tw.pc = "delete" /\ tw'.pc = "purge" /\ tw'.m = tw.m /\ tw'.attempts = tw.attempts
    BY <1>0, <1>4, WorkerMoves DEF TDeleteJob, TStep
  <2>2. /\ jobs'.row[tw.m] = NoJob
        /\ \A k \in Meetings : k # tw.m => jobs'.row[k] = jobs.row[k]
    BY <1>0, <1>4, DeleteJobType DEF TDeleteJob
  <2>3. Status(jobs', tw.m) = "none" /\ jobs'.row[tw.m].attempts <= MaxAttempts
    BY <2>2, MaxAttemptsAssumption DEF Status, NoJob
  <2> QED
    BY <2>1, <2>2, <2>3, WritingKeepsJobs DEF Picking, Trying, Owning
<1>5. CASE TFinishCancelled
  <2>1. tw.pc = "purge" /\ tw'.pc = "gate" /\ tw'.m = tw.m /\ tw'.attempts = tw.attempts
    BY <1>0, <1>5, WorkerMoves DEF TFinishCancelled, TStep
  <2>2. CASE jobs' = jobs
    <3>1. Status(jobs, tw.m) # "running"
      BY <2>1 DEF JobInv, CancelledIsOff
    <3> QED
      BY <2>1, <2>2, <3>1, MovingKeepsJobs DEF Picking, Trying, Owning
  <2>3. CASE jobs' = DeleteTranscriptionJob(jobs, tw.m)
    <3>1. /\ jobs'.row[tw.m] = NoJob
          /\ \A k \in Meetings : k # tw.m => jobs'.row[k] = jobs.row[k]
      BY <1>0, <2>3, DeleteJobType
    <3>2. Status(jobs', tw.m) = "none" /\ jobs'.row[tw.m].attempts <= MaxAttempts
      BY <3>1, MaxAttemptsAssumption DEF Status, NoJob
    <3> QED
      BY <2>1, <3>1, <3>2, WritingKeepsJobs DEF Picking, Trying, Owning
  <2> QED
    BY <1>5, <2>2, <2>3 DEF TFinishCancelled, PurgeIfOrphaned, PurgeMeeting
<1>6. CASE TErrorStage
  BY <1>0, <1>6, WorkerMoves, MovingKeepsJobs DEF TErrorStage, TStep, Picking, Trying, Owning
<1>7. CASE TParkOrRequeue
  <2>1. tw.pc = "park" /\ tw'.pc \in {"rewait", "gate"} /\ tw'.m = tw.m /\ tw'.attempts = tw.attempts
    BY <1>0, <1>7, WorkerMoves DEF TParkOrRequeue, TStep
  <2>2. tw.attempts \in Nat /\ tw.attempts < MaxAttempts
    BY <1>0, <2>1 DEF JobInv, TriesLeft, Trying, WorkerType
  <2>3. jobs.row[tw.m].attempts <= MaxAttempts
    BY <1>0 DEF JobInv, RetriesBounded
  <2>4. /\ \A k \in Meetings : k # tw.m => jobs'.row[k] = jobs.row[k]
        /\ \/ Status(jobs, tw.m) = "none" /\ jobs' = jobs
           \/ Retries /\ jobs'.row[tw.m] = [status |-> "queued", attempts |-> tw.attempts + 1]
           \/ jobs'.row[tw.m] = [status |-> "failed", attempts |-> tw.attempts + 1]
    <3>1. tw.attempts + 1 \in Nat /\ {"queued", "failed"} \subseteq Statuses
      BY <2>2 DEF Statuses
    <3>2. CASE Retries
      <4>1. jobs' = SetJob(jobs, tw.m, "queued", tw.attempts + 1)
        BY <1>7, <3>2 DEF TParkOrRequeue, RequeueTranscription
      <4> QED
        BY <1>0, <3>1, <3>2, <4>1, SetJobType
    <3>3. CASE ~Retries
      <4>1. jobs' = SetJob(jobs, tw.m, "failed", tw.attempts + 1)
        BY <1>7, <3>3 DEF TParkOrRequeue, MarkFailed
      <4> QED
        BY <1>0, <3>1, <4>1, SetJobType
    <3> QED
      BY <3>2, <3>3
  <2>5. /\ Status(jobs', tw.m) # "running" /\ jobs'.row[tw.m].attempts <= MaxAttempts
        /\ Status(jobs', tw.m) = "queued" => jobs'.row[tw.m].attempts < MaxAttempts
    <3>1. CASE Status(jobs, tw.m) = "none" /\ jobs' = jobs
      BY <2>3, <3>1
    <3>2. CASE Retries /\ jobs'.row[tw.m] = [status |-> "queued", attempts |-> tw.attempts + 1]
      <4>1. tw.attempts + 1 < MaxAttempts
        BY <3>2 DEF Retries
      <4> QED
        BY <2>2, <3>2, <4>1, MaxAttemptsAssumption DEF Status
    <3>3. CASE jobs'.row[tw.m] = [status |-> "failed", attempts |-> tw.attempts + 1]
      BY <2>2, <3>3, MaxAttemptsAssumption DEF Status
    <3> QED
      BY <2>4, <3>1, <3>2, <3>3
  <2> QED
    BY <2>1, <2>4, <2>5, WritingKeepsJobs DEF Picking, Trying, Owning
<1>8. CASE TMarkWaiting
  BY <1>0, <1>8, WorkerMoves, MovingKeepsJobs DEF TMarkWaiting, TStep, Picking, Trying, Owning
<1> QED
  BY <1>1, <1>2, <1>3, <1>4, <1>5, <1>6, <1>7, <1>8

\* What the worker does once after a start.
LEMMA RecoveringKeepsJobs ==
    ASSUME TypeOK, JobInv,
           TRecover \/ TRecoverWaiting \/ TReadPasses \/ TRecoverPass \/ TPushRecovered
    PROVE  JobInv'
<1> USE DEF stored, RunSteps, FailSteps, WorkerSteps
<1>0. tw \in WorkerType /\ jobs \in Table(Meetings)
  BY Shape
<1>1. CASE TRecover
  <2>1. tw'.pc = "waiting"
    BY <1>0, <1>1 DEF TRecover, WorkerType
  <2>2. jobs' = ResetRunning(jobs)
    BY <1>1 DEF TRecover
  <2>3. \A k \in Meetings : Status(jobs', k) # "running"
    BY <1>0, <2>2, ResetType DEF JobInv, OneRuns, Status
  <2>4. \A k \in Meetings :
           \/ jobs'.row[k] = jobs.row[k]
           \/ /\ Status(jobs, k) = "running"
              /\ jobs'.row[k] = [status |-> "queued", attempts |-> jobs.row[k].attempts]
    BY <1>0, <2>2, ResetType
  <2>5. RetriesBounded'
    <3>1. ASSUME NEW k \in Meetings
          PROVE  /\ jobs'.row[k].attempts <= MaxAttempts
                 /\ Status(jobs', k) \in {"queued", "running"} => jobs'.row[k].attempts < MaxAttempts
      <4>1. /\ jobs.row[k].attempts <= MaxAttempts
            /\ Status(jobs, k) \in {"queued", "running"} => jobs.row[k].attempts < MaxAttempts
        BY DEF JobInv, RetriesBounded
      <4>2. CASE jobs'.row[k] = jobs.row[k]
        BY <4>1, <4>2 DEF Status
      <4>3. CASE jobs'.row[k] # jobs.row[k]
        <5>1. /\ Status(jobs, k) = "running"
              /\ jobs'.row[k] = [status |-> "queued", attempts |-> jobs.row[k].attempts]
          BY <2>4, <4>3
        <5> QED
          BY <4>1, <5>1
      <4> QED
        BY <4>2, <4>3
    <3> QED
      BY <3>1 DEF RetriesBounded
  <2> QED
    BY <2>1, <2>3, <2>5
       DEF JobInv, OneRuns, RunningHasOwner, PickedWaits, CancelledIsOff, TriesLeft,
           Picking, Trying
<1>2. CASE TRecoverWaiting \/ TReadPasses \/ TRecoverPass \/ TPushRecovered
  <2>1. /\ tw.pc \in {"waiting", "read", "passes", "repush"} /\ jobs' = jobs
        /\ tw'.pc \in {"waiting", "read", "passes", "repush", "gate"}
    BY <1>0, <1>2 DEF TRecoverWaiting, TReadPasses, TRecoverPass, TPushRecovered, TStep, WorkerType
  <2>2. \A k \in Meetings : Status(jobs, k) # "running"
    BY <2>1 DEF JobInv, RunningHasOwner
  <2> QED
    BY <2>1, <2>2
       DEF JobInv, OneRuns, RunningHasOwner, PickedWaits, CancelledIsOff, TriesLeft,
           RetriesBounded, Picking, Trying
<1> QED
  BY <1>1, <1>2

\* The AI worker deletes a row with its meeting, or none.
LEMMA AiWorkerKeepsJobs == TypeOK /\ JobInv /\ AiWorker => JobInv'
<1> USE DEF stored
<1> SUFFICES ASSUME TypeOK, JobInv, AiWorker PROVE JobInv'
  OBVIOUS
<1>0. jobs \in Table(Meetings) /\ aw.m \in Meetings
  BY Shape DEF AiType
<1>1. UNCHANGED tw
  BY DEF AiWorker, AGate, ANext, ABegin, AReadTranscript, ASaveCleaned, AClearMarker, AExtract,
         ACancelled, AAbandon, APurge, ADropRunning
<1>2. jobs' = jobs \/ jobs' = DeleteTranscriptionJob(jobs, aw.m)
  BY DEF AiWorker, AGate, ANext, ABegin, AReadTranscript, ASaveCleaned, AClearMarker, AExtract,
         ACancelled, AAbandon, APurge, ADropRunning, PurgeIfOrphaned, PurgeMeeting
<1>3. \A k \in Meetings : jobs'.row[k] \in {jobs.row[k], NoJob}
  BY <1>0, <1>2, DeleteJobType
<1> QED
  BY <1>1, <1>3, OthersKeepJobs

\* A command queues a job with no tries behind it, or deletes one.
LEMMA CommandsKeepJobs ==
    ASSUME TypeOK, JobInv,
           \/ \E m \in Meetings : UEnqueue(m) \/ (\E op \in Commands : UCancel(m, op)) \/ RClaim(m)
           \/ MainThread \/ ReDiarize \/ StartRecording \/ StopRecording
    PROVE  JobInv'
<1> USE DEF stored, actors
<1>0. jobs \in Table(Meetings) /\ ut.m \in Meetings
  BY Shape DEF MainType
<1>1. CASE \E m \in Meetings : UEnqueue(m)
  BY <1>0, <1>1, EnqueueType, OthersKeepJobs DEF UEnqueue
<1>2. CASE \E m \in Meetings : (\E op \in Commands : UCancel(m, op)) \/ RClaim(m)
  BY <1>2, OthersKeepJobs DEF UCancel, RClaim
<1>3. CASE MainThread
  <2>1. UNCHANGED tw /\ (jobs' = jobs \/ jobs' = DeleteTranscriptionJob(jobs, ut.m))
    BY <1>3 DEF MainThread, UEnqueueUncancel, UEnqueueDropPass, UEnqueueMarkWaiting, UCancelLook,
         UCancelRequest, UCancelJob, UCancelGuardPickup, UCancelUnstage, UCancelParked,
         UDeleteNote, UDeleteStopPass, UDeleteLook, UDeletePurge, PurgeMeeting
  <2> QED
    BY <1>0, <2>1, DeleteJobType, OthersKeepJobs
<1>4. CASE ReDiarize \/ StartRecording \/ StopRecording
  <2>1. UNCHANGED <<tw, jobs>>
    BY <1>4 DEF ReDiarize, RRead, RDiarize, RSave, RRelease, RQueueExtraction, RPushExtraction,
         StartRecording, StopRecording
  <2> QED
    BY <2>1, OthersKeepJobs
<1> QED
  BY <1>1, <1>2, <1>3, <1>4

LEMMA RestartKeepsJobs == TypeOK /\ JobInv /\ Restart => JobInv'
<1> SUFFICES ASSUME TypeOK, JobInv, Restart PROVE JobInv'
  OBVIOUS
<1>1. jobs' = jobs
  BY DEF Restart, stored
<1>2. tw'.pc = "recover"
  BY DEF Restart, WorkerStart
<1> QED
  BY <1>1, <1>2
     DEF JobInv, OneRuns, RunningHasOwner, PickedWaits, CancelledIsOff, TriesLeft,
         RetriesBounded, Picking, Trying, RunSteps, FailSteps

LEMMA JobInvHolds == Spec => []JobInv
<1>1. Init => JobInv
  <2> SUFFICES ASSUME Init PROVE JobInv
    OBVIOUS
  <2>1. \A m \in Meetings : jobs.row[m] = NoJob
    BY DEF Init, EmptyTable
  <2>2. tw.pc = "gate"
    BY DEF Init, WorkerStart
  <2> QED
    BY <2>1, <2>2, MaxAttemptsAssumption
       DEF JobInv, OneRuns, RunningHasOwner, PickedWaits, CancelledIsOff, TriesLeft,
           RetriesBounded, Picking, Trying, RunSteps, FailSteps, Status, NoJob
<1>2. TypeOK /\ JobInv /\ [Next]_vars => JobInv'
  <2> SUFFICES ASSUME TypeOK, JobInv, [Next]_vars PROVE JobInv'
    OBVIOUS
  <2>1. CASE TranscriptionWorker
    BY <2>1, PickingKeepsJobs, RunningKeepsJobs, EndingKeepsJobs, RecoveringKeepsJobs
       DEF TranscriptionWorker
  <2>2. CASE UNCHANGED vars
    BY <2>2, OthersKeepJobs DEF vars
  <2> QED
    BY <2>1, <2>2, AiWorkerKeepsJobs, CommandsKeepJobs, RestartKeepsJobs DEF Next
<1> QED
  BY <1>1, <1>2, SchedulerTypes, PTL DEF Spec

\* A job says "running" only while the worker is at work on it, or before a
\* restart has reset it (mark_running, reset_running, tick).
THEOREM RunningJobsAreOwned == Spec => []RunningHasOwner
<1>1. JobInv => RunningHasOwner
  BY DEF JobInv
<1> QED
  BY <1>1, JobInvHolds, PTL

\* A job is tried at most MAX_ATTEMPTS times, and one that waits or runs has a
\* try left: whatever cancels, requests and restarts come between (tick).
THEOREM TriesAreBounded == Spec => []RetriesBounded
<1>1. JobInv => RetriesBounded
  BY DEF JobInv
<1> QED
  BY <1>1, JobInvHolds, PTL

-----------------------------------------------------------------------------
(* A busy marker has an owner.  Three actors set markers, and five clear   *)
(* them: a step keeps the invariant when what it leaves busy or polishing  *)
(* is still somebody's.                                                    *)

Runs(m) == tw.m = m /\ tw.pc \in RunSteps \cup {"failed", "cancelled", "error"}
ReAnalyses(m) == rd.m = m /\ rd.pc \in {"read", "diarize", "save", "release"}
Polishes(m) == aw.m = m /\ aw.pc \in {"read", "chat", "unmark", "abandon"}

\* The transcription worker's steps keep everyone else's markers, and clear
\* its own before it stops running.
LEMMA WorkersMarkers ==
    ASSUME TypeOK, MarkerHasOwner,
           rd'.m = rd.m, rd'.pc = rd.pc, aw'.m = aw.m, aw'.pc = aw.pc,
           \A k \in Meetings :
              \/ stage'[k] \in {"none", "waiting"}
              \/ stage'[k] = "busy" /\ Runs(k)'
              \/ stage'[k] = stage[k] /\ (Runs(k) => Runs(k)')
    PROVE  MarkerHasOwner'
BY DEF MarkerHasOwner, Runs

\* A step that only moves on, to where it still owns what it owned.
LEMMA WorkerKeepsMarkers ==
    ASSUME TypeOK, MarkerHasOwner, UNCHANGED <<stage, aw, rd>>,
           \/ tw.pc \notin RunSteps \cup {"failed", "cancelled", "error"}
           \/ tw'.m = tw.m /\ tw'.pc \in RunSteps \cup {"failed", "cancelled", "error"}
    PROVE  MarkerHasOwner'
BY WorkersMarkers DEF Runs

\* A step that writes its meeting's marker, and gives it up or owns it.
LEMMA WorkerSetsMarker ==
    ASSUME TypeOK, MarkerHasOwner, UNCHANGED <<aw, rd>>,
           NEW s \in Markers, stage' = [stage EXCEPT ![tw.m] = s],
           tw'.m = tw.m,
           \/ s \in {"none", "waiting"}
           \/ s = "busy" /\ tw'.pc \in RunSteps \cup {"failed", "cancelled", "error"}
    PROVE  MarkerHasOwner'
<1>1. stage \in [Meetings -> Markers] /\ tw.m \in Meetings
  BY Shape DEF WorkerType
<1> QED
  BY <1>1, WorkersMarkers DEF Runs

LEMMA WorkerMarkers == TypeOK /\ MarkerHasOwner /\ TranscriptionWorker => MarkerHasOwner'
<1> USE DEF stored, RunSteps, FailSteps, WorkerSteps, Markers
<1> SUFFICES ASSUME TypeOK, MarkerHasOwner, TranscriptionWorker PROVE MarkerHasOwner'
  OBVIOUS
<1>0. tw \in WorkerType /\ tw.m \in Meetings /\ stage \in [Meetings -> Markers]
  BY Shape DEF WorkerType
<1>1. CASE \/ TGate \/ TPick \/ TStopPass \/ TWaitForPassEnd \/ TRegate \/ TMarkRunning
           \/ TDropCancel \/ TMarkDone \/ TQueueAiPass \/ TPushPass \/ THonourCancel
           \/ TDeleteJob \/ TFinishCancelled \/ TParkOrRequeue \/ TRecover \/ TReadPasses
           \/ TRecoverPass \/ TPushRecovered
  BY <1>1, WorkerKeepsMarkers
     DEF TGate, TPick, TStopPass, TWaitForPassEnd, TRegate, TMarkRunning, TDropCancel, TMarkDone,
         TQueueAiPass, TPushPass, THonourCancel, TDeleteJob, TFinishCancelled, TParkOrRequeue,
         TRecover, TReadPasses, TRecoverPass, TPushRecovered, TStep
<1>2. CASE TGuard
  BY <1>2, WorkerKeepsMarkers DEF TGuard
<1>3. CASE TClearWaiting \/ TRelease \/ TCancelledStage \/ TErrorStage \/ TMarkWaiting
  <2>1. tw'.m = tw.m
    BY <1>0, <1>3, WorkerMoves DEF TClearWaiting, TRelease, TCancelledStage, TErrorStage, TMarkWaiting
  <2> QED
    BY <1>3, <2>1, WorkerSetsMarker
       DEF TClearWaiting, TRelease, TCancelledStage, TErrorStage, TMarkWaiting, TSetStage
<1>4. CASE TClaim \/ TEmitSaving
  <2>1. tw'.m = tw.m /\ tw'.pc \in {"load", "save"}
    BY <1>0, <1>4, WorkerMoves DEF TClaim, TEmitSaving
  <2> QED
    BY <1>4, <2>1, WorkerSetsMarker DEF TClaim, TEmitSaving, TSetStage
<1>5. CASE TLoad
  <2>1. tw'.m = tw.m /\ tw'.pc \in {"failed", "asr"}
    BY <1>0, <1>5, WorkerMoves, WorkerFails DEF TLoad
  <2> QED
    BY <1>5, <2>1, WorkerKeepsMarkers DEF TLoad
<1>6. CASE TTranscribe
  <2>1. tw'.m = tw.m /\ tw'.pc \in {"failed", "diarize"}
    BY <1>0, <1>6, WorkerMoves, WorkerFails DEF TTranscribe
  <2>2. CASE UNCHANGED stage
    BY <1>6, <2>1, <2>2, WorkerKeepsMarkers DEF TTranscribe
  <2>3. CASE TStep("asr", "diarize") /\ TSetStage("busy")
    BY <1>6, <2>1, <2>3, WorkerSetsMarker DEF TTranscribe, TSetStage
  <2> QED
    BY <1>6, <2>2, <2>3 DEF TTranscribe
<1>7. CASE TDiarize
  <2>1. tw'.m = tw.m /\ tw'.pc \in {"failed", "saving"}
    BY <1>0, <1>7, WorkerMoves, WorkerFails DEF TDiarize
  <2> QED
    BY <1>7, <2>1, WorkerKeepsMarkers DEF TDiarize
<1>8. CASE TSave
  <2>1. tw'.m = tw.m /\ tw'.pc = "release"
    BY <1>0, <1>8, WorkerMoves DEF TSave
  <2>2. aw'.m = aw.m /\ aw'.pc = aw.pc /\ rd'.m = rd.m /\ rd'.pc = rd.pc
    BY <1>8, Shape DEF TSave, Stale, AiType, ReDiarizeType
  <2> QED
    BY <1>8, <2>1, <2>2, WorkersMarkers DEF TSave, Runs
<1>9. CASE TClassify
  <2>1. tw'.m = tw.m /\ tw'.pc \in {"cancelled", "error"}
    BY <1>0, <1>9, WorkerMoves DEF TClassify
  <2> QED
    BY <1>9, <2>1, WorkerKeepsMarkers DEF TClassify
<1>10. CASE TRecoverWaiting
  <2>1. tw.pc = "waiting"
    BY <1>10 DEF TRecoverWaiting, TStep
  <2>2. CASE UNCHANGED stage
    BY <1>10, <2>1, <2>2, WorkerKeepsMarkers DEF TRecoverWaiting
  <2>3. CASE \E m \in Meetings : stage' = [stage EXCEPT ![m] = "waiting"]
    BY <1>0, <1>10, <2>1, <2>3, WorkersMarkers DEF TRecoverWaiting, Runs
  <2>4. tw.ids \subseteq Meetings
    BY <1>0 DEF WorkerType
  <2> QED
    BY <1>10, <2>2, <2>3, <2>4 DEF TRecoverWaiting
<1> QED
  BY <1>1, <1>2, <1>3, <1>4, <1>5, <1>6, <1>7, <1>8, <1>9, <1>10 DEF TranscriptionWorker

\* A pass marks its meeting as it begins its cleanup, and clears the marker
\* when that ends or it is abandoned.
LEMMA AiMarkers == TypeOK /\ MarkerHasOwner /\ AiWorker => MarkerHasOwner'
<1> USE DEF stored, Markers
<1> SUFFICES ASSUME TypeOK, MarkerHasOwner, AiWorker PROVE MarkerHasOwner'
  OBVIOUS
<1>0. aw \in AiType /\ aw.m \in Meetings /\ stage \in [Meetings -> Markers]
  BY Shape DEF AiType
<1>1. UNCHANGED <<tw, rd>>
  BY DEF AiWorker, AGate, ANext, ABegin, AReadTranscript, ASaveCleaned, AClearMarker, AExtract,
         ACancelled, AAbandon, APurge, ADropRunning
<1>2. SUFFICES \A k \in Meetings :
         \/ stage'[k] = "none"
         \/ stage'[k] = "polishing" /\ Polishes(k)'
         \/ stage'[k] = stage[k] /\ (stage[k] = "polishing" /\ Polishes(k) => Polishes(k)')
  BY <1>1, <1>2 DEF MarkerHasOwner, Polishes
<1>3. CASE AGate \/ ANext \/ AExtract \/ APurge \/ ADropRunning
  BY <1>3 DEF AGate, ANext, AExtract, APurge, ADropRunning, AStep, Polishes
<1>4. CASE ABegin
  BY <1>0, <1>4 DEF ABegin, AStep, Polishes, AiType
<1>5. CASE AReadTranscript \/ ASaveCleaned \/ ACancelled
  BY <1>0, <1>5 DEF AReadTranscript, ASaveCleaned, ACancelled, AStep, Polishes, AiType
<1>6. CASE AClearMarker \/ AAbandon
  BY <1>0, <1>6 DEF AClearMarker, AAbandon, AStep, Unpolish, Polishes, AiType
<1> QED
  BY <1>3, <1>4, <1>5, <1>6 DEF AiWorker

\* The commands: they clear markers, or show a job as waiting.
LEMMA CommandsMarkers ==
    ASSUME TypeOK, MarkerHasOwner,
           \/ \E m \in Meetings : UEnqueue(m) \/ \E op \in Commands : UCancel(m, op)
           \/ MainThread \/ StartRecording \/ StopRecording
    PROVE  MarkerHasOwner'
<1> USE DEF stored, actors
<1>0. ut.m \in Meetings /\ stage \in [Meetings -> Markers]
  BY Shape DEF MainType
<1>1. UNCHANGED <<tw, aw, rd>>
  BY DEF UEnqueue, UCancel, MainThread, UEnqueueUncancel, UEnqueueDropPass, UEnqueueMarkWaiting,
         UCancelLook, UCancelRequest, UCancelJob, UCancelGuardPickup, UCancelUnstage,
         UCancelParked, UDeleteNote, UDeleteStopPass, UDeleteLook, UDeletePurge,
         StartRecording, StopRecording
<1>2. \/ stage' = stage
      \/ stage' = [stage EXCEPT ![ut.m] = "waiting"]
      \/ stage' = [stage EXCEPT ![ut.m] = "none"]
  BY DEF UEnqueue, UCancel, MainThread, UEnqueueUncancel, UEnqueueDropPass, UEnqueueMarkWaiting,
         UCancelLook, UCancelRequest, UCancelJob, UCancelGuardPickup, UCancelUnstage,
         UCancelParked, UDeleteNote, UDeleteStopPass, UDeleteLook, UDeletePurge,
         StartRecording, StopRecording
<1> QED
  BY <1>0, <1>1, <1>2 DEF MarkerHasOwner

\* A re-analysis claims a free meeting, and releases what it claimed.
LEMMA ReDiarizeMarkers ==
    ASSUME TypeOK, MarkerHasOwner, ReDiarize \/ \E m \in Meetings : RClaim(m)
    PROVE  MarkerHasOwner'
<1> USE DEF stored, Markers
<1>0. rd \in ReDiarizeType /\ rd.m \in Meetings /\ stage \in [Meetings -> Markers]
  BY Shape DEF ReDiarizeType
<1>1. UNCHANGED <<tw, aw>>
  BY DEF ReDiarize, RRead, RDiarize, RSave, RRelease, RQueueExtraction, RPushExtraction, RClaim
<1>2. SUFFICES \A k \in Meetings :
         \/ stage'[k] = "none"
         \/ stage'[k] = "busy" /\ ReAnalyses(k)'
         \/ stage'[k] = stage[k] /\ (ReAnalyses(k) => ReAnalyses(k)')
  BY <1>1, <1>2 DEF MarkerHasOwner, ReAnalyses
<1>3. CASE \E m \in Meetings : RClaim(m)
  BY <1>0, <1>3 DEF RClaim, ReAnalyses
<1>4. CASE RRead \/ RSave
  BY <1>0, <1>4 DEF RRead, RSave, RStep, ReAnalyses, ReDiarizeType
<1>5. CASE RDiarize \/ RRelease
  BY <1>0, <1>5 DEF RDiarize, RRelease, RStep, ReAnalyses, ReDiarizeType
<1>6. CASE RQueueExtraction \/ RPushExtraction
  BY <1>6 DEF RQueueExtraction, RPushExtraction, RStep, ReAnalyses
<1> QED
  BY <1>3, <1>4, <1>5, <1>6 DEF ReDiarize

\* A meeting shut out by a marker is one somebody works on, who will clear it:
\* however runs, passes, re-analyses, cancels and deletions cross (run_inner,
\* re_diarize_with, ai_pass, abandon_pass).
THEOREM MarkersAreOwned == Spec => []MarkerHasOwner
<1>1. Init => MarkerHasOwner
  BY DEF Init, MarkerHasOwner
<1>2. TypeOK /\ MarkerHasOwner /\ [Next]_vars => MarkerHasOwner'
  <2> SUFFICES ASSUME TypeOK, MarkerHasOwner, [Next]_vars PROVE MarkerHasOwner'
    OBVIOUS
  <2>1. CASE Restart
    BY <2>1 DEF Restart, MarkerHasOwner
  <2>2. CASE UNCHANGED vars
    BY <2>2 DEF vars, MarkerHasOwner
  <2> QED
    BY <2>1, <2>2, WorkerMarkers, AiMarkers, CommandsMarkers, ReDiarizeMarkers DEF Next
<1> QED
  BY <1>1, <1>2, SchedulerTypes, PTL DEF Spec

-----------------------------------------------------------------------------
(* The table keeps what TranscriptionRequests promises.                    *)
(*                                                                         *)
(* Each write of a row is a turn of one request.  Which one it is depends  *)
(* on what the worker still holds true of a row and a transcript it wrote  *)
(* or read some steps ago: RequestInv.                                     *)

NoRowIsBlank == \A m \in Meetings : Status(jobs, m) = "none" => jobs.row[m] = NoJob

AtWorkIsOpen ==
    tw.pc \in Owning \ {"purge"} => Status(jobs, tw.m) \in {"none", "queued", "running"}

ChargedEnough == tw.pc \in Trying => jobs.row[tw.m].attempts <= tw.attempts

\* The run's transcript is there until a purge takes it with the row, and no
\* row comes back to a meeting that is purged.
SavedIsThere ==
    tw.pc \in {"release", "moot", "done"} =>
        transcript[tw.m] # "none" \/ (meeting[tw.m] # "live" /\ Status(jobs, tw.m) = "none")

WritesWhatItRead == rd.pc \in {"diarize", "save"} => rd.read # "none"

RequestInv ==
    NoRowIsBlank /\ AtWorkIsOpen /\ ChargedEnough /\ SavedIsThere /\ WritesWhatItRead

RequestStep == [Requests!Next]_<<[m \in Meetings |-> Status(jobs, m)],
                                 [m \in Meetings |-> jobs.row[m].attempts],
                                 {m \in Meetings : transcript[m] # "none"}>>

\* A row rewritten is a turn of its request.
LEMMA RowTurns ==
    ASSUME NEW m \in Meetings, \A k \in Meetings : k # m => jobs'.row[k] = jobs.row[k]
    PROVE  /\ [k \in Meetings |-> Status(jobs', k)] =
                 [[k \in Meetings |-> Status(jobs, k)] EXCEPT ![m] = Status(jobs', m)]
           /\ [k \in Meetings |-> jobs'.row[k].attempts] =
                 [[k \in Meetings |-> jobs.row[k].attempts] EXCEPT ![m] = jobs'.row[m].attempts]
BY DEF Status

LEMMA RowsStay ==
    ASSUME \A k \in Meetings : jobs'.row[k] = jobs.row[k]
    PROVE  UNCHANGED <<[m \in Meetings |-> Status(jobs, m)],
                       [m \in Meetings |-> jobs.row[m].attempts]>>
BY DEF Status

LEMMA NothingTurns ==
    ASSUME \A k \in Meetings : jobs'.row[k] = jobs.row[k], UNCHANGED transcript
    PROVE  RequestStep
BY RowsStay DEF RequestStep

\* A transcript written, or written over.
LEMMA TextWritten ==
    ASSUME TypeOK, NEW m \in Meetings, NEW t, t # "none",
           transcript' = [transcript EXCEPT ![m] = t], UNCHANGED jobs
    PROVE  RequestStep
<1>1. {k \in Meetings : transcript'[k] # "none"} = {k \in Meetings : transcript[k] # "none"} \cup {m}
  BY DEF TypeOK
<1>2. Requests!Transcribe(m)
  BY <1>1 DEF Requests!Transcribe
<1> QED
  BY <1>2 DEF RequestStep, Requests!Next

\* How one row may change.
RowTurn(m, old, new) ==
    \/ new = old
    \/ /\ old.status \notin {"queued", "running"}
       /\ new = [status |-> "queued", attempts |-> 0]
    \/ /\ old.status = "queued" /\ \A k \in Meetings : Status(jobs, k) # "running"
       /\ new = [status |-> "running", attempts |-> old.attempts]
    \/ /\ old.status = "running"
       /\ new = [status |-> "queued", attempts |-> old.attempts]
    \/ /\ old.status \in {"queued", "running"} /\ transcript[m] # "none"
       /\ new = [status |-> "done", attempts |-> old.attempts]
    \/ /\ old.status \in {"queued", "running"}
       /\ \E n \in (old.attempts + 1)..(MaxAttempts - 1) : new = [status |-> "queued", attempts |-> n]
    \/ /\ old.status \in {"queued", "running"}
       /\ \E n \in (old.attempts + 1)..MaxAttempts : new = [status |-> "failed", attempts |-> n]
    \/ old.status \in {"queued", "running", "failed"} /\ new = NoJob

LEMMA RowTurnMaps ==
    ASSUME NEW m \in Meetings, \A k \in Meetings : k # m => jobs'.row[k] = jobs.row[k],
           UNCHANGED transcript, RowTurn(m, jobs.row[m], jobs'.row[m])
    PROVE  RequestStep
<1> DEFINE old == jobs.row[m]
           new == jobs'.row[m]
           Begun == /\ old.status = "queued" /\ \A k \in Meetings : Status(jobs, k) # "running"
                    /\ new = [status |-> "running", attempts |-> old.attempts]
<1>1. /\ [k \in Meetings |-> jobs'.row[k].status] =
            [[k \in Meetings |-> jobs.row[k].status] EXCEPT ![m] = new.status]
      /\ [k \in Meetings |-> jobs'.row[k].attempts] =
            [[k \in Meetings |-> jobs.row[k].attempts] EXCEPT ![m] = new.attempts]
  BY RowTurns DEF Status
<1> USE DEF Status, Requests!Open, Requests!Turn
<1>2. CASE new = old
  BY <1>2, NothingTurns
<1>3. CASE old.status \notin {"queued", "running"} /\ new = [status |-> "queued", attempts |-> 0]
  <2>1. Requests!Ask(m)
    BY <1>1, <1>3 DEF Requests!Ask
  <2> QED
    BY <2>1 DEF RequestStep, Requests!Next
<1>4. CASE Begun
  <2>1. Requests!Begin(m)
    BY <1>1, <1>4 DEF Requests!Begin
  <2> QED
    BY <2>1 DEF RequestStep, Requests!Next
<1>5. CASE old.status = "running" /\ new = [status |-> "queued", attempts |-> old.attempts]
  <2>1. Requests!Resume(m)
    BY <1>1, <1>5 DEF Requests!Resume
  <2> QED
    BY <2>1 DEF RequestStep, Requests!Next
<1>6. CASE /\ old.status \in {"queued", "running"} /\ transcript[m] # "none"
           /\ new = [status |-> "done", attempts |-> old.attempts]
  <2>1. Requests!Serve(m)
    BY <1>1, <1>6 DEF Requests!Serve
  <2> QED
    BY <2>1 DEF RequestStep, Requests!Next
<1>7. ASSUME old.status \in {"queued", "running"},
             NEW n \in (old.attempts + 1)..(MaxAttempts - 1), new = [status |-> "queued", attempts |-> n]
      PROVE  RequestStep
  <2> DEFINE count == [k \in Meetings |-> jobs.row[k].attempts]
  <2>1. count[m] = old.attempts
    OBVIOUS
  <2>2. Requests!Turn(m, "queued", n)
    BY <1>1, <1>7
  <2>3. [k \in Meetings |-> jobs.row[k].status][m] \in {"queued", "running"}
    BY <1>7
  <2>4. \E i \in (count[m] + 1)..(MaxAttempts - 1) : Requests!Turn(m, "queued", i)
    <3> HIDE DEF count, Requests!Turn
    <3>1. n \in (count[m] + 1)..(MaxAttempts - 1)
      BY <1>7, <2>1
    <3> QED
      BY <2>2, <3>1
  <2>5. Requests!TryAgain(m)
    <3> HIDE DEF Requests!Turn
    <3> QED
      BY <2>3, <2>4, Zenon DEF Requests!TryAgain
  <2> QED
    BY <2>5 DEF RequestStep, Requests!Next
<1>8. ASSUME old.status \in {"queued", "running"},
             NEW n \in (old.attempts + 1)..MaxAttempts, new = [status |-> "failed", attempts |-> n]
      PROVE  RequestStep
  <2> DEFINE count == [k \in Meetings |-> jobs.row[k].attempts]
  <2>1. count[m] = old.attempts
    OBVIOUS
  <2>2. Requests!Turn(m, "failed", n)
    BY <1>1, <1>8
  <2>3. [k \in Meetings |-> jobs.row[k].status][m] \in {"queued", "running"}
    BY <1>8
  <2>4. \E i \in (count[m] + 1)..MaxAttempts : Requests!Turn(m, "failed", i)
    <3> HIDE DEF count, Requests!Turn
    <3>1. n \in (count[m] + 1)..MaxAttempts
      BY <1>8, <2>1
    <3> QED
      BY <2>2, <3>1
  <2>5. Requests!GiveUp(m)
    <3> HIDE DEF Requests!Turn
    <3> QED
      BY <2>3, <2>4, Zenon DEF Requests!GiveUp
  <2> QED
    BY <2>5 DEF RequestStep, Requests!Next
<1>9. CASE old.status \in {"queued", "running", "failed"} /\ new = NoJob
  <2>1. Requests!TakeBack(m)
    BY <1>1, <1>9 DEF Requests!TakeBack, NoJob
  <2> QED
    BY <2>1 DEF RequestStep, Requests!Next
<1> QED
  BY <1>2, <1>3, <1>4, <1>5, <1>6, <1>7, <1>8, <1>9 DEF RowTurn

\* A purge erases the transcript and the request with it.
LEMMA PurgeMaps ==
    ASSUME TypeOK, NEW m \in Meetings, PurgeMeeting(m)
    PROVE  RequestStep
<1>0. jobs \in Table(Meetings) /\ jobs' = DeleteTranscriptionJob(jobs, m)
  BY Shape DEF PurgeMeeting
<1>1. /\ jobs'.row[m] = NoJob
      /\ \A k \in Meetings : k # m => jobs'.row[k] = jobs.row[k]
  BY <1>0, DeleteJobType
<1>2. /\ [k \in Meetings |-> jobs'.row[k].status] =
            [[k \in Meetings |-> jobs.row[k].status] EXCEPT ![m] = "none"]
      /\ [k \in Meetings |-> jobs'.row[k].attempts] =
            [[k \in Meetings |-> jobs.row[k].attempts] EXCEPT ![m] = 0]
  <2>1. jobs'.row[m].status = "none" /\ jobs'.row[m].attempts = 0
    BY <1>1 DEF NoJob
  <2> QED
    BY <1>1, <2>1, RowTurns DEF Status
<1>3. {k \in Meetings : transcript'[k] # "none"} = {k \in Meetings : transcript[k] # "none"} \ {m}
  BY DEF TypeOK, PurgeMeeting
<1>4. Requests!Erase(m)
  BY <1>2, <1>3 DEF Requests!Erase, Requests!Turn, Status
<1> QED
  BY <1>4 DEF RequestStep, Requests!Next

\* What anyone but the worker does to rows, transcripts and meetings.
LEMMA OthersKeepRequests ==
    ASSUME TypeOK, TypeOK', RequestInv, UNCHANGED tw, WritesWhatItRead',
           \A k \in Meetings :
              /\ \/ jobs'.row[k] \in {jobs.row[k], NoJob}
                 \/ jobs'.row[k] = [status |-> "queued", attempts |-> 0] /\ meeting[k] = "live"
              /\ \/ transcript'[k] # "none" \/ transcript[k] = "none"
                 \/ meeting'[k] = "gone" /\ jobs'.row[k] = NoJob
              /\ meeting'[k] # "live" \/ meeting[k] = "live"
    PROVE  RequestInv'
<1>0. tw.m \in Meetings /\ tw.attempts \in Nat /\ jobs.row[tw.m].attempts \in Nat
  BY Shape DEF WorkerType, Table
<1>1. NoRowIsBlank'
  BY DEF RequestInv, NoRowIsBlank, Status, NoJob
<1>2. AtWorkIsOpen'
  BY <1>0 DEF RequestInv, AtWorkIsOpen, Status, NoJob
<1>3. ChargedEnough'
  BY <1>0 DEF RequestInv, ChargedEnough, NoJob
<1>4. SavedIsThere'
  <2> SUFFICES ASSUME tw.pc \in {"release", "moot", "done"}, transcript'[tw.m] = "none"
               PROVE  meeting'[tw.m] # "live" /\ Status(jobs', tw.m) = "none"
    BY DEF SavedIsThere
  <2>1. CASE transcript[tw.m] = "none"
    <3>1. meeting[tw.m] # "live" /\ Status(jobs, tw.m) = "none"
      BY <2>1 DEF RequestInv, SavedIsThere
    <3> QED
      BY <1>0, <3>1 DEF Status, NoJob
  <2>2. CASE transcript[tw.m] # "none"
    BY <1>0, <2>2 DEF Status, NoJob
  <2> QED
    BY <2>1, <2>2
<1> QED
  BY <1>1, <1>2, <1>3, <1>4 DEF RequestInv

\* The worker moves on and writes nothing.
LEMMA MovingKeepsRequests ==
    ASSUME RequestInv, UNCHANGED <<jobs, meeting, transcript, rd>>,
           tw'.m = tw.m, tw'.attempts = tw.attempts,
           tw'.pc \in Trying => tw.pc \in Trying,
           tw'.pc \in Owning \ {"purge"} => tw.pc \in Owning \ {"purge"},
           tw'.pc \in {"release", "moot", "done"} => tw.pc \in {"release", "moot", "done"}
    PROVE  RequestInv'
BY DEF RequestInv, NoRowIsBlank, AtWorkIsOpen, ChargedEnough, SavedIsThere, WritesWhatItRead

\* The worker's last write of a row.
LEMMA EndingKeepsRequests ==
    ASSUME TypeOK, RequestInv, UNCHANGED rd, tw'.m = tw.m, tw'.attempts = tw.attempts,
           tw'.pc \notin (Owning \cup Trying) \/ (tw'.pc = "purge" /\ jobs'.row[tw.m] = NoJob),
           \A k \in Meetings : k # tw.m => jobs'.row[k] = jobs.row[k],
           Status(jobs', tw.m) = "none" => jobs'.row[tw.m] = NoJob
    PROVE  RequestInv'
<1>0. tw.attempts \in Nat
  BY Shape DEF WorkerType
<1>1. NoRowIsBlank'
  BY DEF RequestInv, NoRowIsBlank, Status
<1>2. AtWorkIsOpen' /\ SavedIsThere'
  BY DEF AtWorkIsOpen, SavedIsThere, Owning, RunSteps
<1>3. ChargedEnough'
  BY <1>0 DEF ChargedEnough, NoJob
<1> QED
  BY <1>1, <1>2, <1>3 DEF RequestInv, WritesWhatItRead

\* Picking a job, and its first words.
LEMMA PickingTurns ==
    ASSUME TypeOK, JobInv, RequestInv,
           \/ TGate \/ TPick \/ TStopPass \/ TWaitForPassEnd \/ TRegate \/ TMarkRunning
           \/ TClearWaiting \/ TGuard \/ TClaim \/ TLoad
    PROVE  RequestStep /\ RequestInv'
<1> USE DEF stored, RunSteps, FailSteps, WorkerSteps
<1>0. /\ tw \in WorkerType /\ tw.m \in Meetings /\ tw.pc \in WorkerSteps
      /\ jobs \in Table(Meetings)
  BY Shape DEF WorkerType
<1>1. CASE TPick
  <2>1. RequestStep
    BY <1>1, NothingTurns DEF TPick
  <2>2. CASE tw' = [tw EXCEPT !.pc = "gate"]
    <3>1. tw'.pc = "gate" /\ tw'.m = tw.m /\ tw'.attempts = tw.attempts
      BY <1>0, <2>2 DEF WorkerType
    <3> QED
      BY <1>1, <2>1, <3>1, MovingKeepsRequests DEF TPick, Trying, Owning, Picking
  <2>3. ASSUME NEW m \in NextTranscriptionJob(jobs),
               tw' = [tw EXCEPT !.pc = "stop", !.m = m, !.err = "none",
                                !.attempts = jobs.row[m].attempts]
        PROVE  RequestInv'
    <3>1. m \in Meetings /\ jobs.row[m].attempts \in Nat
      BY <1>0, NextIsQueued DEF Table
    <3>2. tw'.pc = "stop" /\ tw'.m = m /\ tw'.attempts = jobs.row[m].attempts
      BY <1>0, <2>3 DEF WorkerType
    <3>3. UNCHANGED <<jobs, rd>>
      BY <1>1 DEF TPick
    <3>4. AtWorkIsOpen' /\ SavedIsThere'
      BY <3>2 DEF AtWorkIsOpen, SavedIsThere, Owning
    <3>5. ChargedEnough'
      BY <3>1, <3>2, <3>3 DEF ChargedEnough
    <3> QED
      BY <3>3, <3>4, <3>5 DEF RequestInv, NoRowIsBlank, WritesWhatItRead
  <2> QED
    BY <1>1, <2>1, <2>2, <2>3 DEF TPick
<1>2. CASE TMarkRunning
  <2>1. tw.pc = "mark" /\ tw'.pc = "unwait" /\ tw'.m = tw.m /\ tw'.attempts = tw.attempts
    BY <1>0, <1>2, WorkerMoves DEF TMarkRunning, TStep
  <2>2. Status(jobs, tw.m) \in {"none", "queued"}
    BY <2>1 DEF JobInv, PickedWaits, Picking
  <2>3. /\ \/ Status(jobs, tw.m) = "none" /\ jobs' = jobs
           \/ /\ Status(jobs, tw.m) # "none"
              /\ jobs'.row[tw.m] = [status |-> "running", attempts |-> jobs.row[tw.m].attempts]
        /\ \A k \in Meetings : k # tw.m => jobs'.row[k] = jobs.row[k]
    <3>1. jobs.row[tw.m].attempts \in Nat
      BY <1>0 DEF Table
    <3> QED
      BY <1>0, <1>2, <3>1, SetJobType DEF TMarkRunning, MarkRunning, Statuses
  <2>4. \A k \in Meetings : Status(jobs, k) # "running"
    BY <2>1 DEF JobInv, RunningHasOwner
  <2>5. RowTurn(tw.m, jobs.row[tw.m], jobs'.row[tw.m])
    BY <2>2, <2>3, <2>4 DEF RowTurn, Status
  <2>6. RequestStep
    BY <1>0, <1>2, <2>3, <2>5, RowTurnMaps DEF TMarkRunning
  <2>7. NoRowIsBlank'
    BY <2>3 DEF RequestInv, NoRowIsBlank, Status
  <2>8. AtWorkIsOpen'
    BY <2>1, <2>2, <2>3 DEF AtWorkIsOpen, Status
  <2>9. ChargedEnough'
    BY <2>1, <2>3 DEF RequestInv, ChargedEnough, Trying, Picking
  <2> QED
    BY <1>2, <2>1, <2>6, <2>7, <2>8, <2>9
       DEF TMarkRunning, RequestInv, SavedIsThere, WritesWhatItRead
<1>3. CASE TGate \/ TStopPass \/ TWaitForPassEnd \/ TRegate \/ TClearWaiting \/ TClaim
  <2>1. UNCHANGED <<jobs, meeting, transcript, rd>>
    BY <1>3 DEF TGate, TStopPass, TWaitForPassEnd, TRegate, TClearWaiting, TClaim
  <2>2. /\ tw'.m = tw.m /\ tw'.attempts = tw.attempts
        /\ <<tw.pc, tw'.pc>> \in {<<"gate", "pick">>, <<"stop", "wait">>, <<"stop", "mark">>,
              <<"wait", "regate">>, <<"regate", "gate">>, <<"regate", "mark">>,
              <<"unwait", "guard">>, <<"claim", "load">>}
    BY <1>0, <1>3, WorkerMoves
       DEF TGate, TStopPass, TWaitForPassEnd, TRegate, TClearWaiting, TClaim, TStep
  <2> QED
    BY <2>1, <2>2, NothingTurns, MovingKeepsRequests DEF Trying, Picking, Owning
<1>4. CASE TGuard \/ TLoad
  <2>1. UNCHANGED <<jobs, meeting, transcript, rd>>
    BY <1>4 DEF TGuard, TLoad
  <2>2. /\ tw'.m = tw.m /\ tw'.attempts = tw.attempts
        /\ tw.pc \in {"guard", "load"} /\ tw'.pc \in {"failed", "claim", "asr"}
    BY <1>0, <1>4, WorkerMoves, WorkerFails DEF TGuard, TLoad, TStep
  <2> QED
    BY <2>1, <2>2, NothingTurns, MovingKeepsRequests DEF Trying, Picking, Owning
<1> QED
  BY <1>1, <1>2, <1>3, <1>4

\* A run: nothing is served but by the transcript it has saved.
LEMMA RunTurns ==
    ASSUME TypeOK, TypeOK', JobInv, RequestInv,
           \/ TTranscribe \/ TDiarize \/ TEmitSaving \/ TSave \/ TRelease \/ TDropCancel
           \/ TMarkDone \/ TQueueAiPass \/ TPushPass
    PROVE  RequestStep /\ RequestInv'
<1> USE DEF stored, RunSteps, FailSteps, WorkerSteps
<1>0. /\ tw \in WorkerType /\ tw.m \in Meetings /\ tw.pc \in WorkerSteps
      /\ jobs \in Table(Meetings) /\ rd \in ReDiarizeType
  BY Shape DEF WorkerType
<1>1. CASE TSave
  <2>1. tw.pc = "save" /\ tw'.pc = "release" /\ tw'.m = tw.m /\ tw'.attempts = tw.attempts
    BY <1>0, <1>1, WorkerMoves DEF TSave, TStep
  <2>2. UNCHANGED jobs /\ transcript' = [transcript EXCEPT ![tw.m] = "current"]
    BY <1>1 DEF TSave
  <2>3. RequestStep
    BY <1>0, <2>2, TextWritten
  <2>4. transcript'[tw.m] = "current"
    BY <1>0, <2>2 DEF TypeOK
  <2>5. AtWorkIsOpen' /\ ChargedEnough' /\ SavedIsThere'
    BY <2>1, <2>2, <2>4
       DEF RequestInv, AtWorkIsOpen, ChargedEnough, SavedIsThere, Owning, Trying
  <2>6. WritesWhatItRead'
    BY <1>0, <1>1 DEF TSave, Stale, RequestInv, WritesWhatItRead, ReDiarizeType
  <2> QED
    BY <2>2, <2>3, <2>5, <2>6 DEF RequestInv, NoRowIsBlank
<1>2. CASE TMarkDone
  <2>1. tw.pc = "done" /\ tw'.pc = "queue" /\ tw'.m = tw.m /\ tw'.attempts = tw.attempts
    BY <1>0, <1>2, WorkerMoves DEF TMarkDone, TStep
  <2>2. /\ \/ Status(jobs, tw.m) = "none" /\ jobs' = jobs
           \/ /\ Status(jobs, tw.m) # "none"
              /\ jobs'.row[tw.m] = [status |-> "done", attempts |-> jobs.row[tw.m].attempts]
        /\ \A k \in Meetings : k # tw.m => jobs'.row[k] = jobs.row[k]
    <3>1. jobs.row[tw.m].attempts \in Nat
      BY <1>0 DEF Table
    <3> QED
      BY <1>0, <1>2, <3>1, SetJobType DEF TMarkDone, MarkDone, Statuses
  <2>3. /\ Status(jobs, tw.m) \in {"none", "queued", "running"}
        /\ Status(jobs, tw.m) # "none" => transcript[tw.m] # "none"
    BY <2>1 DEF RequestInv, AtWorkIsOpen, SavedIsThere, Owning
  <2>4. RowTurn(tw.m, jobs.row[tw.m], jobs'.row[tw.m])
    BY <2>2, <2>3 DEF RowTurn, Status
  <2>5. RequestStep
    BY <1>0, <1>2, <2>2, <2>4, RowTurnMaps DEF TMarkDone
  <2>6. Status(jobs', tw.m) = "none" => jobs'.row[tw.m] = NoJob
    BY <1>0, <2>2 DEF RequestInv, NoRowIsBlank, Status
  <2>7. RequestInv'
    BY <1>2, <2>1, <2>2, <2>6, EndingKeepsRequests DEF TMarkDone, Owning, Trying, Picking
  <2> QED
    BY <2>5, <2>7
<1>3. CASE TTranscribe \/ TDiarize
  <2>1. UNCHANGED <<jobs, meeting, transcript, rd>>
    BY <1>3 DEF TTranscribe, TDiarize
  <2>2. /\ tw'.m = tw.m /\ tw'.attempts = tw.attempts
        /\ tw.pc \in {"asr", "diarize"} /\ tw'.pc \in {"failed", "diarize", "saving"}
    BY <1>0, <1>3, WorkerMoves, WorkerFails DEF TTranscribe, TDiarize, TStep
  <2> QED
    BY <2>1, <2>2, NothingTurns, MovingKeepsRequests DEF Trying, Picking, Owning
<1>4. CASE TEmitSaving \/ TRelease \/ TDropCancel \/ TQueueAiPass \/ TPushPass
  <2>1. UNCHANGED <<jobs, meeting, transcript, rd>>
    BY <1>4 DEF TEmitSaving, TRelease, TDropCancel, TQueueAiPass, TPushPass
  <2>2. /\ tw'.m = tw.m /\ tw'.attempts = tw.attempts
        /\ <<tw.pc, tw'.pc>> \in {<<"saving", "save">>, <<"release", "moot">>, <<"moot", "done">>,
              <<"queue", "push">>, <<"queue", "gate">>, <<"push", "gate">>}
    BY <1>0, <1>4, WorkerMoves
       DEF TEmitSaving, TRelease, TDropCancel, TQueueAiPass, TPushPass, TStep
  <2> QED
    BY <2>1, <2>2, NothingTurns, MovingKeepsRequests DEF Trying, Picking, Owning
<1> QED
  BY <1>1, <1>2, <1>3, <1>4

\* A run that failed or was cancelled.
LEMMA EndTurns ==
    ASSUME TypeOK, TypeOK', JobInv, RequestInv,
           \/ TClassify \/ TCancelledStage \/ THonourCancel \/ TDeleteJob
           \/ TFinishCancelled \/ TErrorStage \/ TParkOrRequeue \/ TMarkWaiting
    PROVE  RequestStep /\ RequestInv'
<1> USE DEF stored, RunSteps, FailSteps, WorkerSteps
<1>0. /\ tw \in WorkerType /\ tw.m \in Meetings /\ tw.pc \in WorkerSteps
      /\ jobs \in Table(Meetings)
  BY Shape DEF WorkerType
<1>1. CASE TDeleteJob
  <2>1. tw.pc = "delete" /\ tw'.pc = "purge" /\ tw'.m = tw.m /\ tw'.attempts = tw.attempts
    BY <1>0, <1>1, WorkerMoves DEF TDeleteJob, TStep
  <2>2. /\ jobs'.row[tw.m] = NoJob
        /\ \A k \in Meetings : k # tw.m => jobs'.row[k] = jobs.row[k]
    BY <1>0, <1>1, DeleteJobType DEF TDeleteJob
  <2>3. Status(jobs, tw.m) \in {"none", "queued", "running"}
    BY <2>1 DEF RequestInv, AtWorkIsOpen, Owning
  <2>4. Status(jobs, tw.m) = "none" => jobs.row[tw.m] = NoJob
    BY <1>0 DEF RequestInv, NoRowIsBlank
  <2>5. RowTurn(tw.m, jobs.row[tw.m], jobs'.row[tw.m])
    BY <2>2, <2>3, <2>4 DEF RowTurn, Status
  <2>6. RequestStep
    BY <1>0, <1>1, <2>2, <2>5, RowTurnMaps DEF TDeleteJob
  <2> QED
    BY <1>1, <2>1, <2>2, <2>6, EndingKeepsRequests DEF TDeleteJob
<1>2. CASE TFinishCancelled
  <2>1. tw.pc = "purge" /\ tw'.pc = "gate" /\ tw'.m = tw.m /\ tw'.attempts = tw.attempts
    BY <1>0, <1>2, WorkerMoves DEF TFinishCancelled, TStep
  <2>2. CASE PurgeMeeting(tw.m)
    <3>1. /\ jobs'.row[tw.m] = NoJob
          /\ \A k \in Meetings : k # tw.m => jobs'.row[k] = jobs.row[k]
      BY <1>0, <2>2, DeleteJobType DEF PurgeMeeting
    <3>2. RequestInv'
      BY <1>2, <2>1, <3>1, EndingKeepsRequests DEF TFinishCancelled, Owning, Trying, Picking
    <3> QED
      BY <1>0, <2>2, <3>2, PurgeMaps
  <2>3. CASE UNCHANGED <<jobs, meeting, transcript>>
    BY <1>2, <2>1, <2>3, NothingTurns, MovingKeepsRequests
       DEF TFinishCancelled, Owning, Trying, Picking
  <2> QED
    BY <1>2, <2>2, <2>3 DEF TFinishCancelled, PurgeIfOrphaned
<1>3. CASE TParkOrRequeue
  <2>1. tw.pc = "park" /\ tw'.pc \in {"rewait", "gate"} /\ tw'.m = tw.m /\ tw'.attempts = tw.attempts
    BY <1>0, <1>3, WorkerMoves DEF TParkOrRequeue, TStep
  <2>2. /\ tw.attempts \in Nat /\ tw.attempts < MaxAttempts
        /\ jobs.row[tw.m].attempts \in Nat /\ jobs.row[tw.m].attempts <= tw.attempts
    BY <1>0, <2>1 DEF JobInv, TriesLeft, RequestInv, ChargedEnough, Trying, WorkerType, Table
  <2>3. /\ \A k \in Meetings : k # tw.m => jobs'.row[k] = jobs.row[k]
        /\ \/ Status(jobs, tw.m) = "none" /\ jobs' = jobs
           \/ /\ Retries /\ Status(jobs, tw.m) # "none"
              /\ jobs'.row[tw.m] = [status |-> "queued", attempts |-> tw.attempts + 1]
           \/ /\ Status(jobs, tw.m) # "none"
              /\ jobs'.row[tw.m] = [status |-> "failed", attempts |-> tw.attempts + 1]
    <3>1. tw.attempts + 1 \in Nat /\ {"queued", "failed"} \subseteq Statuses
      BY <2>2 DEF Statuses
    <3>2. CASE Retries
      <4>1. jobs' = SetJob(jobs, tw.m, "queued", tw.attempts + 1)
        BY <1>3, <3>2 DEF TParkOrRequeue, RequeueTranscription
      <4> QED
        BY <1>0, <3>1, <3>2, <4>1, SetJobType
    <3>3. CASE ~Retries
      <4>1. jobs' = SetJob(jobs, tw.m, "failed", tw.attempts + 1)
        BY <1>3, <3>3 DEF TParkOrRequeue, MarkFailed
      <4> QED
        BY <1>0, <3>1, <4>1, SetJobType
    <3> QED
      BY <3>2, <3>3
  <2>4. Status(jobs, tw.m) \in {"none", "queued", "running"}
    BY <2>1 DEF RequestInv, AtWorkIsOpen, Owning
  <2>5. RowTurn(tw.m, jobs.row[tw.m], jobs'.row[tw.m])
    <3> DEFINE old == jobs.row[tw.m]
               new == jobs'.row[tw.m]
               n == tw.attempts + 1
    <3>1. n \in (old.attempts + 1)..MaxAttempts /\ (Retries => n \in (old.attempts + 1)..(MaxAttempts - 1))
      BY <2>2, MaxAttemptsAssumption DEF Retries
    <3>2. new = old \/ old.status \in {"queued", "running"}
      BY <2>3, <2>4 DEF Status
    <3>3. \/ new = old
          \/ Retries /\ new = [status |-> "queued", attempts |-> n]
          \/ new = [status |-> "failed", attempts |-> n]
      BY <2>3
    <3> HIDE DEF old, new, n
    <3>4. RowTurn(tw.m, old, new)
      BY <3>1, <3>2, <3>3 DEF RowTurn
    <3> QED
      BY <3>4 DEF old, new
  <2>6. RequestStep
    BY <1>0, <1>3, <2>3, <2>5, RowTurnMaps DEF TParkOrRequeue
  <2>7. Status(jobs', tw.m) = "none" => jobs'.row[tw.m] = NoJob
    BY <1>0, <2>3 DEF RequestInv, NoRowIsBlank, Status
  <2>8. RequestInv'
    BY <1>3, <2>1, <2>3, <2>7, EndingKeepsRequests DEF TParkOrRequeue, Owning, Trying, Picking
  <2> QED
    BY <2>6, <2>8
<1>4. CASE TClassify \/ TCancelledStage \/ THonourCancel \/ TErrorStage \/ TMarkWaiting
  <2>1. UNCHANGED <<jobs, meeting, transcript, rd>>
    BY <1>4 DEF TClassify, TCancelledStage, THonourCancel, TErrorStage, TMarkWaiting
  <2>2. /\ tw'.m = tw.m /\ tw'.attempts = tw.attempts
        /\ <<tw.pc, tw'.pc>> \in {<<"failed", "cancelled">>, <<"failed", "error">>,
              <<"cancelled", "honour">>, <<"honour", "delete">>, <<"error", "park">>,
              <<"rewait", "gate">>}
    BY <1>0, <1>4, WorkerMoves
       DEF TClassify, TCancelledStage, THonourCancel, TErrorStage, TMarkWaiting, TStep
  <2> QED
    BY <2>1, <2>2, NothingTurns, MovingKeepsRequests DEF Trying, Picking, Owning
<1> QED
  BY <1>1, <1>2, <1>3, <1>4

\* After a start one job at most was interrupted, and is queued again.
LEMMA RecoveryTurns ==
    ASSUME TypeOK, TypeOK', JobInv, RequestInv,
           TRecover \/ TRecoverWaiting \/ TReadPasses \/ TRecoverPass \/ TPushRecovered
    PROVE  RequestStep /\ RequestInv'
<1> USE DEF stored, RunSteps, FailSteps, WorkerSteps
<1>0. tw \in WorkerType /\ jobs \in Table(Meetings)
  BY Shape
<1>1. tw'.pc \in {"waiting", "read", "passes", "repush", "gate"} /\ UNCHANGED <<rd, transcript>>
  BY <1>0 DEF TRecover, TRecoverWaiting, TReadPasses, TRecoverPass, TPushRecovered, TStep,
              WorkerType
<1>2. AtWorkIsOpen' /\ ChargedEnough' /\ SavedIsThere' /\ WritesWhatItRead'
  BY <1>1 DEF AtWorkIsOpen, ChargedEnough, SavedIsThere, RequestInv, WritesWhatItRead,
              Owning, Trying, Picking
<1>3. CASE TRecover
  <2>1. /\ \A k \in Meetings :
              \/ jobs'.row[k] = jobs.row[k]
              \/ /\ Status(jobs, k) = "running"
                 /\ jobs'.row[k] = [status |-> "queued", attempts |-> jobs.row[k].attempts]
    BY <1>0, <1>3, ResetType DEF TRecover
  <2>2. NoRowIsBlank'
    <3>1. ASSUME NEW k \in Meetings, Status(jobs', k) = "none" PROVE jobs'.row[k] = NoJob
      <4>1. \/ jobs'.row[k] = jobs.row[k]
            \/ jobs'.row[k] = [status |-> "queued", attempts |-> jobs.row[k].attempts]
        BY <2>1, Zenon
      <4> QED
        BY <3>1, <4>1 DEF RequestInv, NoRowIsBlank, Status
    <3> QED
      BY <3>1 DEF NoRowIsBlank
  <2>3. CASE \A k \in Meetings : jobs'.row[k] = jobs.row[k]
    BY <1>1, <1>2, <2>2, <2>3, NothingTurns DEF RequestInv
  <2>4. ASSUME NEW m \in Meetings, jobs'.row[m] # jobs.row[m] PROVE RequestStep
    <3>1. \A k \in Meetings : k # m => jobs'.row[k] = jobs.row[k]
      BY <2>1, <2>4 DEF JobInv, OneRuns
    <3>2. RowTurn(m, jobs.row[m], jobs'.row[m])
      BY <2>1, <2>4 DEF RowTurn, Status
    <3> QED
      BY <1>1, <3>1, <3>2, RowTurnMaps
  <2> QED
    BY <1>2, <2>2, <2>3, <2>4 DEF RequestInv
<1>4. CASE TRecoverWaiting \/ TReadPasses \/ TRecoverPass \/ TPushRecovered
  <2>1. UNCHANGED jobs
    BY <1>4 DEF TRecoverWaiting, TReadPasses, TRecoverPass, TPushRecovered
  <2> QED
    BY <1>1, <1>2, <2>1, NothingTurns DEF RequestInv, NoRowIsBlank
<1> QED
  BY <1>3, <1>4

\* A purge by someone else than the worker.
LEMMA PurgeKeepsRequests ==
    ASSUME TypeOK, TypeOK', RequestInv, NEW m \in Meetings, PurgeMeeting(m), UNCHANGED <<tw, rd>>
    PROVE  RequestInv'
<1>1. /\ jobs'.row[m] = NoJob
      /\ \A k \in Meetings : k # m => jobs'.row[k] = jobs.row[k]
  <2>1. jobs \in Table(Meetings) /\ jobs' = DeleteTranscriptionJob(jobs, m)
    BY Shape DEF PurgeMeeting
  <2> QED
    BY <2>1, DeleteJobType
<1>2. /\ meeting'[m] = "gone"
      /\ \A k \in Meetings : k # m => meeting'[k] = meeting[k] /\ transcript'[k] = transcript[k]
  BY DEF PurgeMeeting, TypeOK
<1>3. WritesWhatItRead'
  BY DEF RequestInv, WritesWhatItRead
<1> QED
  BY <1>1, <1>2, <1>3, OthersKeepRequests

LEMMA AiWorkerTurns ==
    ASSUME TypeOK, TypeOK', RequestInv, AiWorker
    PROVE  RequestStep /\ RequestInv'
<1> USE DEF stored
<1>0. aw.m \in Meetings
  BY Shape DEF AiType
<1>1. UNCHANGED <<tw, rd>>
  BY DEF AiWorker, AGate, ANext, ABegin, AReadTranscript, ASaveCleaned, AClearMarker, AExtract,
         ACancelled, AAbandon, APurge, ADropRunning
<1>2. PurgeMeeting(aw.m) \/ UNCHANGED <<jobs, meeting, transcript>>
  BY DEF AiWorker, AGate, ANext, ABegin, AReadTranscript, ASaveCleaned, AClearMarker, AExtract,
         ACancelled, AAbandon, APurge, ADropRunning, PurgeIfOrphaned
<1>3. CASE PurgeMeeting(aw.m)
  BY <1>0, <1>1, <1>3, PurgeMaps, PurgeKeepsRequests
<1>4. CASE UNCHANGED <<jobs, meeting, transcript>>
  BY <1>1, <1>4, NothingTurns
     DEF RequestInv, NoRowIsBlank, AtWorkIsOpen, ChargedEnough, SavedIsThere, WritesWhatItRead
<1> QED
  BY <1>2, <1>3, <1>4

\* A command asks, or takes back what is not done.
LEMMA CommandTurns ==
    ASSUME TypeOK, TypeOK', RequestInv,
           \/ \E m \in Meetings : UEnqueue(m) \/ (\E op \in Commands : UCancel(m, op))
           \/ MainThread
    PROVE  RequestStep /\ RequestInv'
<1> USE DEF stored
<1>0. jobs \in Table(Meetings) /\ ut.m \in Meetings
  BY Shape DEF MainType
<1>1. UNCHANGED <<tw, rd>>
  BY DEF UEnqueue, UCancel, MainThread, UEnqueueUncancel, UEnqueueDropPass, UEnqueueMarkWaiting,
         UCancelLook, UCancelRequest, UCancelJob, UCancelGuardPickup, UCancelUnstage,
         UCancelParked, UDeleteNote, UDeleteStopPass, UDeleteLook, UDeletePurge
<1>2. WritesWhatItRead'
  BY <1>1 DEF RequestInv, WritesWhatItRead
<1>3. ASSUME NEW m \in Meetings, UEnqueue(m) PROVE RequestStep /\ RequestInv'
  <2>1. /\ \/ ~CanEnqueue(jobs, m) /\ jobs'.row[m] = jobs.row[m]
           \/ CanEnqueue(jobs, m) /\ jobs'.row[m] = [status |-> "queued", attempts |-> 0]
        /\ \A k \in Meetings : k # m => jobs'.row[k] = jobs.row[k]
    BY <1>0, <1>3, EnqueueType, WriteType DEF UEnqueue, EnqueueTranscription, Statuses
  <2>2. UNCHANGED <<meeting, transcript>> /\ meeting[m] = "live"
    BY <1>3 DEF UEnqueue
  <2>3. RowTurn(m, jobs.row[m], jobs'.row[m])
    BY <2>1 DEF RowTurn, CanEnqueue, Status
  <2>4. RequestStep
    BY <2>1, <2>2, <2>3, RowTurnMaps
  <2>5. RequestInv'
    BY <1>1, <1>2, <2>1, <2>2, OthersKeepRequests
  <2> QED
    BY <2>4, <2>5
<1>4. CASE UCancelJob \/ UCancelParked
  <2>1. UNCHANGED <<meeting, transcript>>
    BY <1>4 DEF UCancelJob, UCancelParked
  <2>2. \/ jobs' = jobs
        \/ /\ jobs' = DeleteTranscriptionJob(jobs, ut.m)
           /\ Status(jobs, ut.m) \in {"queued", "running", "failed"}
    BY <1>4 DEF UCancelJob, UCancelParked, CanEnqueue
  <2>3. CASE jobs' = jobs
    BY <1>1, <1>2, <2>1, <2>3, NothingTurns, OthersKeepRequests
  <2>4. CASE /\ jobs' = DeleteTranscriptionJob(jobs, ut.m)
             /\ Status(jobs, ut.m) \in {"queued", "running", "failed"}
    <3>1. /\ jobs'.row[ut.m] = NoJob
          /\ \A k \in Meetings : k # ut.m => jobs'.row[k] = jobs.row[k]
      BY <1>0, <2>4, DeleteJobType
    <3>2. RowTurn(ut.m, jobs.row[ut.m], jobs'.row[ut.m])
      BY <2>4, <3>1 DEF RowTurn, Status
    <3>3. RequestStep
      BY <1>0, <2>1, <3>1, <3>2, RowTurnMaps
    <3>4. RequestInv'
      BY <1>1, <1>2, <2>1, <3>1, OthersKeepRequests
    <3> QED
      BY <3>3, <3>4
  <2> QED
    BY <2>2, <2>3, <2>4
<1>5. CASE UDeletePurge
  BY <1>0, <1>1, <1>5, PurgeMaps, PurgeKeepsRequests DEF UDeletePurge
<1>6. CASE UDeleteNote
  <2>1. UNCHANGED <<jobs, transcript>> /\ \A k \in Meetings : meeting'[k] \in {meeting[k], "orphan"}
    BY <1>0, <1>6 DEF UDeleteNote, TypeOK
  <2> QED
    BY <1>1, <1>2, <2>1, NothingTurns, OthersKeepRequests
<1>7. CASE \/ \E m \in Meetings : \E op \in Commands : UCancel(m, op)
           \/ UEnqueueUncancel \/ UEnqueueDropPass \/ UEnqueueMarkWaiting \/ UCancelLook
           \/ UCancelRequest \/ UCancelGuardPickup \/ UCancelUnstage \/ UDeleteStopPass
           \/ UDeleteLook
  <2>1. UNCHANGED <<jobs, meeting, transcript>>
    BY <1>7 DEF UCancel, UEnqueueUncancel, UEnqueueDropPass, UEnqueueMarkWaiting, UCancelLook,
         UCancelRequest, UCancelGuardPickup, UCancelUnstage, UDeleteStopPass, UDeleteLook
  <2> QED
    BY <1>1, <1>2, <2>1, NothingTurns, OthersKeepRequests
<1> QED
  BY <1>3, <1>4, <1>5, <1>6, <1>7 DEF MainThread

\* A re-analysis writes a transcript it has read, and no row.
LEMMA ReDiarizeTurns ==
    ASSUME TypeOK, TypeOK', RequestInv, ReDiarize \/ \E m \in Meetings : RClaim(m)
    PROVE  RequestStep /\ RequestInv'
<1> USE DEF stored
<1>0. rd \in ReDiarizeType /\ rd.m \in Meetings
  BY Shape DEF ReDiarizeType
<1>1. UNCHANGED <<tw, jobs, meeting>>
  BY DEF ReDiarize, RRead, RDiarize, RSave, RRelease, RQueueExtraction, RPushExtraction, RClaim
<1>2. WritesWhatItRead'
  <2>1. CASE RRead
    BY <1>0, <2>1 DEF RRead, RStep, WritesWhatItRead, ReDiarizeType
  <2>2. CASE RDiarize
    BY <1>0, <2>2 DEF RDiarize, RStep, RequestInv, WritesWhatItRead, ReDiarizeType
  <2>3. CASE \/ RSave \/ RRelease \/ RQueueExtraction \/ RPushExtraction
             \/ \E m \in Meetings : RClaim(m)
    <3>1. rd'.pc \in {"read", "release", "queue", "push", "idle"}
      <4>1. CASE RSave
        BY <1>0, <4>1 DEF RSave, ReDiarizeType
      <4>2. CASE RRelease \/ RQueueExtraction \/ RPushExtraction
        BY <1>0, <4>2 DEF RRelease, RQueueExtraction, RPushExtraction, RStep, ReDiarizeType
      <4>3. CASE \E m \in Meetings : RClaim(m)
        BY <4>3 DEF RClaim
      <4> QED
        BY <2>3, <4>1, <4>2, <4>3
    <3> QED
      BY <3>1 DEF WritesWhatItRead
  <2> QED
    BY <2>1, <2>2, <2>3 DEF ReDiarize
<1>3. CASE RSave
  <2>1. PICK t \in {"current", "stale", "old"} : transcript' = [transcript EXCEPT ![rd.m] = t]
    BY <1>0, <1>3 DEF RSave, RequestInv, WritesWhatItRead, ReDiarizeType, Reads
  <2>2. RequestStep
    BY <1>0, <1>1, <2>1, TextWritten
  <2>3. \A k \in Meetings : transcript'[k] # "none" \/ transcript[k] = "none"
    BY <1>0, <2>1 DEF TypeOK
  <2> QED
    BY <1>1, <1>2, <2>2, <2>3, OthersKeepRequests
<1>4. CASE \/ RRead \/ RDiarize \/ RRelease \/ RQueueExtraction \/ RPushExtraction
           \/ \E m \in Meetings : RClaim(m)
  <2>1. UNCHANGED transcript
    BY <1>4 DEF RRead, RDiarize, RRelease, RQueueExtraction, RPushExtraction, RClaim
  <2> QED
    BY <1>1, <1>2, <2>1, NothingTurns, OthersKeepRequests
<1> QED
  BY <1>3, <1>4 DEF ReDiarize

\* Captures and restarts turn nothing.
LEMMA RestTurns ==
    ASSUME TypeOK, TypeOK', RequestInv, StartRecording \/ StopRecording \/ Restart \/ UNCHANGED vars
    PROVE  RequestStep /\ RequestInv'
<1> USE DEF stored, actors, vars
<1>1. UNCHANGED <<jobs, meeting, transcript>>
  BY DEF StartRecording, StopRecording, Restart
<1>2. RequestStep
  BY <1>1, NothingTurns
<1>3. CASE Restart
  <2>1. tw'.pc = "recover" /\ rd'.pc = "idle"
    BY <1>3 DEF Restart, WorkerStart, ReDiarizeStart
  <2> QED
    BY <1>1, <1>2, <2>1
       DEF RequestInv, NoRowIsBlank, AtWorkIsOpen, ChargedEnough, SavedIsThere, WritesWhatItRead,
           Owning, Trying, Picking, RunSteps, FailSteps
<1>4. CASE StartRecording \/ StopRecording \/ UNCHANGED vars
  <2>1. UNCHANGED <<tw, rd>>
    BY <1>4 DEF StartRecording, StopRecording
  <2> QED
    BY <1>1, <1>2, <2>1
       DEF RequestInv, NoRowIsBlank, AtWorkIsOpen, ChargedEnough, SavedIsThere, WritesWhatItRead
<1> QED
  BY <1>3, <1>4

LEMMA RequestsStart == Init => Requests!Init /\ RequestInv
<1> SUFFICES ASSUME Init PROVE Requests!Init /\ RequestInv
  OBVIOUS
<1>1. \A m \in Meetings : jobs.row[m] = NoJob
  BY DEF Init, EmptyTable
<1>2. tw.pc = "gate" /\ rd.pc = "idle"
  BY DEF Init, WorkerStart, ReDiarizeStart
<1>3. RequestInv
  BY <1>1, <1>2
     DEF RequestInv, NoRowIsBlank, AtWorkIsOpen, ChargedEnough, SavedIsThere, WritesWhatItRead,
         Owning, Trying, Picking, RunSteps, FailSteps
<1>4. Requests!Init
  BY <1>1 DEF Requests!Init, Status, NoJob
<1> QED
  BY <1>3, <1>4

LEMMA RequestsGoOn ==
    TypeOK /\ TypeOK' /\ JobInv /\ RequestInv /\ [Next]_vars => RequestStep /\ RequestInv'
<1> SUFFICES ASSUME TypeOK, TypeOK', JobInv, RequestInv, [Next]_vars
             PROVE  RequestStep /\ RequestInv'
  OBVIOUS
<1>1. CASE TranscriptionWorker
  BY <1>1, PickingTurns, RunTurns, EndTurns, RecoveryTurns DEF TranscriptionWorker
<1> QED
  BY <1>1, AiWorkerTurns, CommandTurns, ReDiarizeTurns, RestTurns DEF Next

\* The scheduler deals with requests as TranscriptionRequests promises, for any
\* number of meetings, commands, faults and restarts: at most one is tried at a
\* time, its tries only go up, it is done only with a transcript there, and only
\* a cancel or a purge takes it away (tick, enqueue, cancel, purge_meeting).
THEOREM RequestsAreKept == Spec => RefinesRequests
<1>1. Spec => []RequestInv
  BY RequestsStart, RequestsGoOn, SchedulerTypes, JobInvHolds, PTL DEF Spec
<1> QED
  BY <1>1, RequestsStart, RequestsGoOn, SchedulerTypes, JobInvHolds, PTL
     DEF Spec, RefinesRequests, Requests!Spec, RequestStep

\* A job that is "done" has its transcript, whatever is deleted, cancelled and
\* asked for again between the run's save and its mark (pipeline::run_with, tick).
THEOREM DoneHasTranscript == Spec => []Requests!DoneIsTranscribed
<1> DEFINE Done == Requests!DoneIsTranscribed
<1>1. Requests!Init => Done
  BY DEF Requests!Init, Requests!DoneIsTranscribed
<1>2. Done /\ RequestStep => Done'
  BY DEF RequestStep, Requests!DoneIsTranscribed, Requests!Next, Requests!Ask, Requests!Begin,
         Requests!Resume, Requests!Transcribe, Requests!Serve, Requests!TryAgain,
         Requests!GiveUp, Requests!TakeBack, Requests!Erase, Requests!Turn, Requests!Open
<1> QED
  BY <1>1, <1>2, RequestsAreKept, PTL DEF RefinesRequests, Requests!Spec, RequestStep
=============================================================================
