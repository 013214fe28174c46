------------------------------ MODULE AiQueue ------------------------------
(***************************************************************************)
(* The in-memory queue of AI passes (src-tauri/src/ai_queue.rs).           *)
(*                                                                         *)
(* Every method of AiQueue takes the queue's mutex once, so each is one    *)
(* operator from the queue's value to its next value; AiPasses and         *)
(* Scheduler give the steps that apply them.  A queue is a record:         *)
(*   pending  the passes waiting, oldest first                             *)
(*   running  <<job>> while the worker runs one, else <<>>                 *)
(*   cancel   the running pass's Notify holds a permit (it was cancelled)  *)
(*   halted   nothing starts or is accepted ("Delete all my data")         *)
(*   held     what halt took out, running pass first                       *)
(***************************************************************************)
EXTENDS Integers, Sequences, SequencesExt

CONSTANT Meetings

Kinds == {"ExtractOnly", "ConsentRerun", "AfterTranscription"}

\* AiJobKind::rank: what a pass of this kind covers.
Rank == [ExtractOnly |-> 0, ConsentRerun |-> 1, AfterTranscription |-> 2]

Job == [meeting : Meetings, kind : Kinds, attempts : Nat]

NewJob(m, k) == [meeting |-> m, kind |-> k, attempts |-> 0]

Queue == [pending : Seq(Job), running : Seq(Job), cancel : BOOLEAN,
          halted : BOOLEAN, held : Seq(Job)]

EmptyQueue == [pending |-> <<>>, running |-> <<>>, cancel |-> FALSE,
               halted |-> FALSE, held |-> <<>>]

Has(s, m) == \E i \in DOMAIN s : s[i].meeting = m

Place(s, m) == CHOOSE i \in DOMAIN s : s[i].meeting = m

\* A slip a run must notice: a second entry for a meeting already waiting.
PushAgain(q, j) == IF q.halted THEN q ELSE [q EXCEPT !.pending = Append(@, j)]

\* One entry per meeting: a meeting already waiting keeps its place (and its
\* attempts), upgraded to the fuller kind.
Push(q, j) ==
    IF q.halted THEN q
    ELSE IF Has(q.pending, j.meeting)
         THEN [q EXCEPT !.pending[Place(q.pending, j.meeting)].kind =
                            IF Rank[j.kind] > Rank[@] THEN j.kind ELSE @]
         ELSE [q EXCEPT !.pending = Append(@, j)]

CanStart(q) == ~q.halted /\ q.pending # <<>>

\* next: the oldest pass becomes the running one, its attempt counted.
Start(q) ==
    [q EXCEPT !.pending = Tail(@), !.cancel = FALSE,
              !.running = <<[Head(q.pending) EXCEPT !.attempts = @ + 1]>>]

\* A slip a run must notice: the pass stays "running" after its end.
FinishKeepsRunning(q) == [q EXCEPT !.cancel = FALSE]

\* RunningPass dropped.  Its Notify goes with it.
Finish(q) == [q EXCEPT !.running = <<>>, !.cancel = FALSE]

\* retain(meeting_id # m): push keeps one entry per meeting, so at most one
\* entry goes (PendingDistinct below).
RemovePending(q, m) ==
    IF Has(q.pending, m)
    THEN [q EXCEPT !.pending = RemoveAt(@, Place(q.pending, m))]
    ELSE q

CancelRunning(q, m) == IF Has(q.running, m) THEN [q EXCEPT !.cancel = TRUE] ELSE q

Back(n) == IF n > 0 THEN n - 1 ELSE 0

\* The stopped pass with the attempt it was using given back.
GivenBack(running) ==
    [i \in DOMAIN running |-> [running[i] EXCEPT !.attempts = Back(@)]]

Halt(q) ==
    IF q.halted THEN [q EXCEPT !.cancel = (q.running # <<>>)]
    ELSE [q EXCEPT !.halted = TRUE, !.pending = <<>>,
                   !.cancel = (q.running # <<>>),
                   !.held = @ \o GivenBack(q.running) \o q.pending]

\* resume pushes the held passes back to the front, last one first, and skips
\* a meeting that is pending by then.  Nothing is pending while something is
\* held and only the pass that was running can share its meeting with a later
\* one (HeldShape below), so the later entry wins over the first.
Unheld(held) ==
    IF held # <<>> /\ Has(Tail(held), Head(held).meeting) THEN Tail(held) ELSE held

\* A slip a run must notice: the worker starts again without the held passes.
ResumeDropsHeld(q) == [q EXCEPT !.halted = FALSE, !.held = <<>>]

Resume(q) ==
    [q EXCEPT !.halted = FALSE, !.held = <<>>, !.pending = Unheld(q.held) \o @]

DiscardHeld(q) == [q EXCEPT !.held = <<>>]

\* The entries of s that are the first of their meeting.
FirstPlaces(s) ==
    {n \in DOMAIN s : \A k \in 1..(n - 1) : s[k].meeting # s[n].meeting}
Firsts(s) == {s[i] : i \in FirstPlaces(s)}

\* snapshot: every pass not yet finished, once per meeting, the running one
\* before a waiting one before a held one.  What is saved is kept as a set:
\* its order decides only the order passes are queued again after a restart.
Snapshot(q) == Firsts(q.running \o q.pending \o q.held)

\* snapshot_for_quit: the interrupted pass gets its start back.
SnapshotForQuit(q) ==
    {IF Has(q.running, j.meeting) THEN [j EXCEPT !.attempts = Back(@)] ELSE j :
        j \in Snapshot(q)}

MeetingsOf(jobs) == {j.meeting : j \in jobs}

Unfinished(q) == MeetingsOf(Snapshot(q))

----------------------------------------------------------------------------
(***************************************************************************)
(* What every reachable queue satisfies.                                   *)
(***************************************************************************)
Distinct(s) == \A i, k \in DOMAIN s : s[i].meeting = s[k].meeting => i = k

PendingDistinct(q) == Distinct(q.pending)

\* Passes are held only under a halt, when nothing is pending, and of the held
\* passes only the first (the one that was running) may share its meeting.
HeldShape(q) ==
    /\ q.halted => q.pending = <<>>
    /\ q.held # <<>> => q.halted /\ Distinct(Tail(q.held))
=============================================================================
