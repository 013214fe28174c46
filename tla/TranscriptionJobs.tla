------------------------- MODULE TranscriptionJobs -------------------------
(***************************************************************************)
(* The table transcription_jobs (crates/fly-storage/src/jobs.rs).  A table *)
(* is a record: row[m] is meeting m's job (status "none": no row), order   *)
(* the meetings that have one, by updated_at, which every write moves to   *)
(* now.  Each operator is one statement of the code, run under the storage *)
(* lock.                                                                   *)
(***************************************************************************)
EXTENDS Integers, Sequences, SequencesExt

Statuses == {"none", "queued", "running", "done", "failed"}

NoJob == [status |-> "none", attempts |-> 0]

Table(M) == [row : [M -> [status : Statuses, attempts : Nat]], order : Seq(M)]

EmptyTable(M) == [row |-> [m \in M |-> NoJob], order |-> <<>>]

Status(t, m) == t.row[m].status

Without(order, m) ==
    IF \E i \in DOMAIN order : order[i] = m
    THEN RemoveAt(order, CHOOSE i \in DOMAIN order : order[i] = m)
    ELSE order

Write(t, m, status, attempts) ==
    [row |-> [t.row EXCEPT ![m] = [status |-> status, attempts |-> attempts]],
     order |-> Append(Without(t.order, m), m)]

\* set_job: an UPDATE, so a row that is gone stays gone.
SetJob(t, m, status, attempts) ==
    IF Status(t, m) = "none" THEN t ELSE Write(t, m, status, attempts)

\* A job already queued or running is left untouched.
CanEnqueue(t, m) == Status(t, m) \notin {"queued", "running"}

EnqueueTranscription(t, m) ==
    IF CanEnqueue(t, m) THEN Write(t, m, "queued", 0) ELSE t

QueuedIds(t) == {i \in DOMAIN t.order : Status(t, t.order[i]) = "queued"}

\* The meeting whose queued job changed least recently, if one is queued.
NextTranscriptionJob(t) ==
    {t.order[i] : i \in {n \in QueuedIds(t) : \A k \in QueuedIds(t) : n <= k}}

MarkRunning(t, m) == SetJob(t, m, "running", t.row[m].attempts)

MarkDone(t, m) == SetJob(t, m, "done", t.row[m].attempts)

\* A slip a run must notice: a status no query knows.
RequeueAsRetrying(t, m, attempts) == SetJob(t, m, "retrying", attempts)

RequeueTranscription(t, m, attempts) == SetJob(t, m, "queued", attempts)

MarkFailed(t, m, attempts) == SetJob(t, m, "failed", attempts)

DeleteTranscriptionJob(t, m) ==
    [row |-> [t.row EXCEPT ![m] = NoJob], order |-> Without(t.order, m)]

\* A slip a run must notice: interrupted jobs stay "running".
ResetNothing(t) == t

\* The only worker left at most one row running (Scheduler!RunningHasOwner).
ResetRunning(t) ==
    LET running == {m \in DOMAIN t.row : Status(t, m) = "running"}
    IN  IF running = {} THEN t
        ELSE LET m == CHOOSE m \in running : TRUE
             IN  SetJob(t, m, "queued", t.row[m].attempts)
=============================================================================
