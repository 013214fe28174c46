--------------------------- MODULE CrashLoopProofs ---------------------------
(***************************************************************************)
(* A pass that takes the app down every time it runs does so at most       *)
(* MAX_PASS_ATTEMPTS times: CrashLoopEnds, for every bound and any number  *)
(* of threads and meetings.                                                *)
(*                                                                         *)
(* The argument: an attempt is counted, and saved, before the pass starts, *)
(* so wherever a pass is kept (pending, running, held, saved, being        *)
(* recovered) its count covers the crashes inside it; while it runs, the   *)
(* row is one ahead of them, until a quit gives the start back.            *)
(***************************************************************************)
EXTENDS AiPassesProofs

\* A pass not yet started has used an attempt for each crash inside it, and
\* has one left; d counts the crashes.
Allowed(d, j) == d[j.meeting] <= j.attempts /\ j.attempts < MaxPassAttempts

\* A running one has counted the attempt it is using.
Counted(d, j) == d[j.meeting] < j.attempts /\ j.attempts <= MaxPassAttempts

AllAllowed(d, s) == \A i \in DOMAIN s : Allowed(d, s[i])

QueueCovers(q, d) ==
    /\ AllAllowed(d, q.pending)
    /\ AllAllowed(d, q.held)
    /\ \A i \in DOMAIN q.running : Counted(d, q.running[i])

RowCovers == \A j \in row : deaths[j.meeting] <= j.attempts

RowAhead ==
    worker = "run" /\ ~quitting =>
        \A j \in row : j.meeting = aiq.running[1].meeting =>
            deaths[j.meeting] < j.attempts

RecoveryCovers ==
    (\A j \in boot.jobs : Allowed(deaths, j)) /\ AllAllowed(deaths, boot.job)

AskedAfresh ==
    \A c \in Threads : \A i \in DOMAIN thread[c].job : thread[c].job[i].attempts = 0

CountsCoverDeaths ==
    QueueCovers(aiq, deaths) /\ RowCovers /\ RowAhead /\ RecoveryCovers /\ AskedAfresh

----------------------------------------------------------------------------
(***************************************************************************)
(* The queue's operations keep every count at or above the crashes.        *)
(***************************************************************************)

\* Concatenation, tail and removal keep only entries that were there.
LEMMA AllowedConcat ==
    ASSUME NEW d, NEW s \in Seq(Job), NEW t \in Seq(Job),
           AllAllowed(d, s), AllAllowed(d, t)
    PROVE  AllAllowed(d, s \o t)
<1>1. /\ s \o t \in Seq(Job) /\ Len(s \o t) = Len(s) + Len(t)
      /\ \A i \in 1..Len(s) + Len(t) :
            (s \o t)[i] = IF i <= Len(s) THEN s[i] ELSE t[i - Len(s)]
  BY ConcatProperties
<1>2. /\ DOMAIN s = 1..Len(s) /\ DOMAIN t = 1..Len(t) /\ DOMAIN (s \o t) = 1..(Len(s) + Len(t))
      /\ Len(s) \in Nat /\ Len(t) \in Nat
  BY <1>1, LenProperties
<1>3. ASSUME NEW i \in 1..(Len(s) + Len(t)) PROVE Allowed(d, (s \o t)[i])
  <2>1. CASE i <= Len(s)
    <3>1. i \in 1..Len(s) /\ (s \o t)[i] = s[i]
      BY <1>1, <1>2, <2>1
    <3> QED
      BY <1>2, <3>1 DEF AllAllowed
  <2>2. CASE ~(i <= Len(s))
    <3>1. i - Len(s) \in 1..Len(t) /\ (s \o t)[i] = t[i - Len(s)]
      BY <1>1, <1>2, <2>2
    <3> QED
      BY <1>2, <3>1 DEF AllAllowed
  <2> QED
    BY <2>1, <2>2
<1> QED
  BY <1>2, <1>3 DEF AllAllowed

\* The tail of a sequence of allowed passes.
LEMMA AllowedTail ==
    ASSUME NEW d, NEW s \in Seq(Job), s # <<>>, AllAllowed(d, s)
    PROVE  AllAllowed(d, Tail(s)) /\ Allowed(d, Head(s))
<1>1. /\ Tail(s) \in Seq(Job) /\ Len(Tail(s)) = Len(s) - 1
      /\ \A i \in 1..Len(Tail(s)) : Tail(s)[i] = s[i + 1]
      /\ Head(s) = s[1]
  BY HeadTailProperties
<1>2. /\ DOMAIN s = 1..Len(s) /\ DOMAIN Tail(s) = 1..Len(Tail(s)) /\ Len(s) \in Nat /\ Len(s) # 0
  BY <1>1, LenProperties, EmptySeq
<1>3. \A i \in 1..Len(Tail(s)) : i + 1 \in 1..Len(s)
  BY <1>1, <1>2
<1>4. 1 \in 1..Len(s)
  BY <1>2
<1> QED
  BY <1>1, <1>2, <1>3, <1>4 DEF AllAllowed

\* The empty sequence.
LEMMA AllowedEmpty == \A d : AllAllowed(d, <<>>)
<1>1. DOMAIN <<>> = {}
  OBVIOUS
<1> QED
  BY <1>1 DEF AllAllowed

\* A pass asked for again starts counting afresh.
LEMMA ResetCovers ==
    ASSUME NEW q \in Queue, NEW d \in [Meetings -> Nat], NEW m \in Meetings, QueueCovers(q, d)
    PROVE  QueueCovers(q, [d EXCEPT ![m] = 0])
<1>1. ASSUME NEW j \in Job, Allowed(d, j) PROVE Allowed([d EXCEPT ![m] = 0], j)
  BY <1>1 DEF Allowed, Job
<1>2. ASSUME NEW j \in Job, Counted(d, j) PROVE Counted([d EXCEPT ![m] = 0], j)
  BY <1>2 DEF Counted, Job
<1>3. ASSUME NEW s \in Seq(Job), NEW i \in DOMAIN s PROVE s[i] \in Job
  BY <1>3, LenProperties, ElementOfSeq
<1>4. q.pending \in Seq(Job) /\ q.held \in Seq(Job) /\ q.running \in Seq(Job)
  BY DEF Queue
<1> QED
  BY <1>1, <1>2, <1>3, <1>4 DEF QueueCovers, AllAllowed

\* push: what joins the queue is allowed, and an upgraded entry keeps its count.
LEMMA PushCovers ==
    ASSUME NEW q \in Queue, NEW j \in Job, NEW d, QueueCovers(q, d), Allowed(d, j)
    PROVE  QueueCovers(Push(q, j), d)
<1>0. q.pending \in Seq(Job) /\ DOMAIN q.pending = 1..Len(q.pending) /\ Len(q.pending) \in Nat
  BY LenProperties DEF Queue
<1>1. CASE q.halted
  BY <1>1 DEF Push
<1>2. CASE ~q.halted /\ Has(q.pending, j.meeting)
  <2> DEFINE p == Place(q.pending, j.meeting)
             e == [q.pending[p] EXCEPT
                     !.kind = IF Rank[j.kind] > Rank[@] THEN j.kind ELSE @]
             s == [q.pending EXCEPT ![p] = e]
  <2>1. Push(q, j) = [q EXCEPT !.pending = s]
    BY <1>2 DEF Push
  <2>2. p \in 1..Len(q.pending) /\ q.pending[p] \in Job
    BY <1>0, <1>2, PlaceInDomain, ElementOfSeq
  <2>3. e.meeting = q.pending[p].meeting /\ e.attempts = q.pending[p].attempts
    BY <2>2 DEF Job
  <2>4. Allowed(d, q.pending[p])
    BY <1>0, <2>2 DEF QueueCovers, AllAllowed
  <2>5. Allowed(d, e)
    BY <2>3, <2>4 DEF Allowed
  <2>6. DOMAIN s = DOMAIN q.pending /\ \A i \in DOMAIN s : s[i] = IF i = p THEN e ELSE q.pending[i]
    BY <1>0, <2>2
  <2> HIDE DEF p, e, s
  <2>7. AllAllowed(d, s)
    BY <2>5, <2>6 DEF QueueCovers, AllAllowed
  <2>8. /\ [q EXCEPT !.pending = s].pending = s
        /\ [q EXCEPT !.pending = s].held = q.held
        /\ [q EXCEPT !.pending = s].running = q.running
    BY DEF Queue
  <2> QED
    BY <2>1, <2>7, <2>8 DEF QueueCovers
<1>3. CASE ~q.halted /\ ~Has(q.pending, j.meeting)
  <2> DEFINE s == Append(q.pending, j)
  <2>1. Push(q, j) = [q EXCEPT !.pending = s]
    BY <1>3 DEF Push
  <2>2. /\ s \in Seq(Job) /\ Len(s) = Len(q.pending) + 1
        /\ \A i \in 1..Len(q.pending) : s[i] = q.pending[i]
        /\ s[Len(q.pending) + 1] = j
    BY <1>0, AppendProperties
  <2>3. DOMAIN s = 1..(Len(q.pending) + 1)
    BY <2>2, LenProperties
  <2> HIDE DEF s
  <2>4. ASSUME NEW i \in DOMAIN s PROVE Allowed(d, s[i])
    <3>1. i \in 1..Len(q.pending) \/ i = Len(q.pending) + 1
      BY <1>0, <2>3, <2>4
    <3> QED
      BY <1>0, <2>2, <3>1 DEF QueueCovers, AllAllowed
  <2>5. /\ [q EXCEPT !.pending = s].pending = s
        /\ [q EXCEPT !.pending = s].held = q.held
        /\ [q EXCEPT !.pending = s].running = q.running
    BY DEF Queue
  <2> QED
    BY <2>1, <2>4, <2>5 DEF QueueCovers, AllAllowed
<1> QED
  BY <1>1, <1>2, <1>3

\* next: the pass that starts counts the attempt it uses.
LEMMA StartCovers ==
    ASSUME NEW q \in Queue, CanStart(q), NEW d \in [Meetings -> Nat], QueueCovers(q, d)
    PROVE  QueueCovers(Start(q), d)
<1> DEFINE h == Head(q.pending)
           e == [h EXCEPT !.attempts = @ + 1]
<1>1. q.pending \in Seq(Job) /\ q.pending # <<>>
  BY DEF Queue, CanStart
<1>2. h \in Job /\ Allowed(d, h) /\ AllAllowed(d, Tail(q.pending))
  BY <1>1, AllowedTail, HeadTailProperties DEF QueueCovers
<1>3. e.meeting = h.meeting /\ e.attempts = h.attempts + 1
  BY <1>2 DEF Job
<1>4. d[h.meeting] \in Nat /\ h.attempts \in Nat /\ MaxPassAttempts \in Nat
  BY <1>2, MaxPassAttemptsAssumption DEF Job
<1>5. Counted(d, e)
  BY <1>2, <1>3, <1>4 DEF Allowed, Counted
<1>6. /\ Start(q).pending = Tail(q.pending) /\ Start(q).held = q.held
      /\ Start(q).running = <<e>>
  BY DEF Start, Queue
<1> HIDE DEF h, e
<1>7. \A i \in DOMAIN <<e>> : <<e>>[i] = e
  OBVIOUS
<1> QED
  BY <1>2, <1>5, <1>6, <1>7 DEF QueueCovers

\* finish: nothing is left running.
LEMMA FinishCovers ==
    ASSUME NEW q \in Queue, NEW d, QueueCovers(q, d)
    PROVE  QueueCovers(Finish(q), d)
<1>1. /\ Finish(q).pending = q.pending /\ Finish(q).held = q.held /\ Finish(q).running = <<>>
  BY DEF Finish, Queue
<1>2. DOMAIN <<>> = {}
  OBVIOUS
<1> QED
  BY <1>1, <1>2 DEF QueueCovers

\* remove_pending: the entries that stay were there.
LEMMA RemoveCovers ==
    ASSUME NEW q \in Queue, NEW m, NEW d, QueueCovers(q, d)
    PROVE  QueueCovers(RemovePending(q, m), d)
<1>0. q.pending \in Seq(Job) /\ DOMAIN q.pending = 1..Len(q.pending) /\ Len(q.pending) \in Nat
  BY LenProperties DEF Queue
<1>1. CASE Has(q.pending, m)
  <2> DEFINE p == Place(q.pending, m)
             s == RemoveAt(q.pending, p)
  <2>1. p \in 1..Len(q.pending)
    BY <1>0, <1>1, PlaceInDomain
  <2>2. RemovePending(q, m) = [q EXCEPT !.pending = s]
    BY <1>1 DEF RemovePending
  <2> HIDE DEF p
  <2>3. /\ s \in Seq(Job) /\ Len(s) = Len(q.pending) - 1
        /\ \A k \in 1..(Len(q.pending) - 1) : s[k] = IF k < p THEN q.pending[k] ELSE q.pending[k + 1]
    BY <1>0, <2>1, RemoveAtType
  <2> HIDE DEF s
  <2>4. DOMAIN s = 1..(Len(q.pending) - 1)
    BY <2>3, LenProperties
  <2>5. ASSUME NEW k \in DOMAIN s PROVE Allowed(d, s[k])
    <3>1. k \in 1..Len(q.pending) /\ k + 1 \in 1..Len(q.pending)
      BY <1>0, <2>4, <2>5
    <3> QED
      BY <1>0, <2>3, <2>4, <3>1 DEF QueueCovers, AllAllowed
  <2>6. /\ [q EXCEPT !.pending = s].pending = s
        /\ [q EXCEPT !.pending = s].held = q.held
        /\ [q EXCEPT !.pending = s].running = q.running
    BY DEF Queue
  <2> QED
    BY <2>2, <2>5, <2>6 DEF QueueCovers, AllAllowed
<1>2. CASE ~Has(q.pending, m)
  BY <1>2 DEF RemovePending
<1> QED
  BY <1>1, <1>2

\* halt: the running pass is held with the attempt it was using given back,
\* which still covers the crashes because it had not been one of them.
LEMMA HaltCovers ==
    ASSUME NEW q \in Queue, NEW d \in [Meetings -> Nat], QueueCovers(q, d)
    PROVE  QueueCovers(Halt(q), d)
<1>1. CASE q.halted
  <2>1. /\ Halt(q).pending = q.pending /\ Halt(q).held = q.held /\ Halt(q).running = q.running
    BY <1>1 DEF Halt, Queue
  <2> QED
    BY <2>1 DEF QueueCovers
<1>2. CASE ~q.halted
  <2> DEFINE g == GivenBack(q.running)
             h == q.held \o g \o q.pending
  <2>1. /\ Halt(q).pending = <<>> /\ Halt(q).held = h /\ Halt(q).running = q.running
    BY <1>2 DEF Halt, Queue
  <2>2. /\ q.held \in Seq(Job) /\ q.pending \in Seq(Job) /\ q.running \in Seq(Job)
        /\ g \in Seq(Job)
    BY GivenBackType DEF Queue
  <2>3. AllAllowed(d, g)
    <3>1. DOMAIN g = DOMAIN q.running
      BY DEF GivenBack
    <3>2. ASSUME NEW i \in DOMAIN q.running PROVE Allowed(d, g[i])
      <4>1. q.running[i] \in Job
        BY <2>2, <3>2, LenProperties, ElementOfSeq
      <4>2. /\ g[i].meeting = q.running[i].meeting
            /\ g[i].attempts = Back(q.running[i].attempts)
        BY <3>2, <4>1 DEF GivenBack, Job
      <4>3. Counted(d, q.running[i])
        BY <3>2 DEF QueueCovers
      <4>4. /\ d[q.running[i].meeting] \in Nat /\ q.running[i].attempts \in Nat
            /\ MaxPassAttempts \in Nat
        BY <4>1, MaxPassAttemptsAssumption DEF Job
      <4> QED
        BY <4>2, <4>3, <4>4 DEF Allowed, Counted, Back
    <3> QED
      BY <3>1, <3>2 DEF AllAllowed
  <2> HIDE DEF g
  <2>4. AllAllowed(d, q.held) /\ AllAllowed(d, q.pending)
    BY DEF QueueCovers
  <2>5. AllAllowed(d, q.held \o g) /\ q.held \o g \in Seq(Job)
    BY <2>2, <2>3, <2>4, AllowedConcat, ConcatProperties
  <2>6. AllAllowed(d, h)
    BY <2>2, <2>4, <2>5, AllowedConcat
  <2> QED
    BY <2>1, <2>6, AllowedEmpty DEF QueueCovers
<1> QED
  BY <1>1, <1>2

\* resume: the held passes go back with their counts.
LEMMA ResumeCovers ==
    ASSUME NEW q \in Queue, NEW d, QueueCovers(q, d)
    PROVE  QueueCovers(Resume(q), d)
<1> DEFINE u == Unheld(q.held)
<1>1. q.held \in Seq(Job) /\ q.pending \in Seq(Job)
  BY DEF Queue
<1>2. u \in Seq(Job) /\ AllAllowed(d, u)
  <2>1. AllAllowed(d, q.held)
    BY DEF QueueCovers
  <2>2. CASE q.held # <<>>
    BY <1>1, <2>1, <2>2, AllowedTail, HeadTailProperties DEF Unheld
  <2>3. CASE q.held = <<>>
    BY <1>1, <2>1, <2>3 DEF Unheld
  <2> QED
    BY <2>2, <2>3
<1>3. /\ Resume(q).pending = u \o q.pending /\ Resume(q).held = <<>>
      /\ Resume(q).running = q.running
  BY DEF Resume, Queue
<1> HIDE DEF u
<1>4. AllAllowed(d, u \o q.pending)
  BY <1>1, <1>2, AllowedConcat DEF QueueCovers
<1> QED
  BY <1>3, <1>4, AllowedEmpty DEF QueueCovers

\* discard_held: the held passes go.
LEMMA DiscardCovers ==
    ASSUME NEW q \in Queue, NEW d, QueueCovers(q, d)
    PROVE  QueueCovers(DiscardHeld(q), d)
<1>1. /\ DiscardHeld(q).pending = q.pending /\ DiscardHeld(q).held = <<>>
      /\ DiscardHeld(q).running = q.running
  BY DEF DiscardHeld, Queue
<1> QED
  BY <1>1, AllowedEmpty DEF QueueCovers

\* snapshot: what is saved covers the crashes, and the running pass's entry is
\* one ahead of them, because it is the one saved for its meeting.
LEMMA SnapshotCovers ==
    ASSUME NEW q \in Queue, Len(q.running) <= 1,
           NEW d \in [Meetings -> Nat], QueueCovers(q, d)
    PROVE  \A j \in Snapshot(q) :
              /\ d[j.meeting] <= j.attempts
              /\ q.running # <<>> /\ j.meeting = q.running[1].meeting => d[j.meeting] < j.attempts
<1> DEFINE r == q.running
           t == q.pending \o q.held
           s == r \o q.pending \o q.held
<1>1. /\ r \in Seq(Job) /\ t \in Seq(Job) /\ Len(r) \in Nat /\ Len(t) \in Nat
      /\ AllAllowed(d, t) /\ DOMAIN t = 1..Len(t) /\ DOMAIN r = 1..Len(r)
  <2>1. /\ r \in Seq(Job) /\ q.pending \in Seq(Job) /\ q.held \in Seq(Job)
        /\ AllAllowed(d, q.pending) /\ AllAllowed(d, q.held)
    BY DEF Queue, QueueCovers
  <2>2. t \in Seq(Job) /\ AllAllowed(d, t)
    BY <2>1, AllowedConcat, ConcatProperties
  <2> QED
    BY <2>1, <2>2, LenProperties
<1>2. s = r \o t
  BY ConcatAssociative DEF Queue
<1>3. s \in Seq(Job) /\ DOMAIN s = 1..(Len(r) + Len(t))
      /\ \A i \in 1..(Len(r) + Len(t)) : s[i] = IF i <= Len(r) THEN r[i] ELSE t[i - Len(r)]
  <2>1. r \o t \in Seq(Job) /\ Len(r \o t) = Len(r) + Len(t)
    BY <1>1, ConcatProperties
  <2>2. \A i \in 1..(Len(r) + Len(t)) : (r \o t)[i] = IF i <= Len(r) THEN r[i] ELSE t[i - Len(r)]
    BY <1>1, ConcatProperties
  <2>3. DOMAIN (r \o t) = 1..(Len(r) + Len(t))
    BY <2>1, LenProperties
  <2> HIDE DEF r, t
  <2> QED
    BY <1>2, <2>1, <2>2, <2>3
<1>4. \A i \in 1..Len(r) : Counted(d, r[i])
  BY <1>1 DEF QueueCovers
<1>5. r # <<>> <=> Len(r) # 0
  BY <1>1, EmptySeq
<1>6. Snapshot(q) = Firsts(s) /\ Len(r) <= 1
  BY DEF Snapshot
<1> HIDE DEF r, t, s
<1> SUFFICES ASSUME NEW n \in FirstPlaces(s)
             PROVE  /\ d[s[n].meeting] <= s[n].attempts
                    /\ r # <<>> /\ s[n].meeting = r[1].meeting => d[s[n].meeting] < s[n].attempts
  BY <1>6 DEF Firsts, r
<1>7. n \in 1..(Len(r) + Len(t)) /\ \A k \in 1..(n - 1) : s[k].meeting # s[n].meeting
  BY <1>3 DEF FirstPlaces
<1>8. s[n] \in Job /\ d[s[n].meeting] \in Nat /\ s[n].attempts \in Nat
  <2>1. s[n] \in Job
    BY <1>3, <1>7, ElementOfSeq, LenProperties
  <2> QED
    BY <2>1 DEF Job
<1>9. CASE n <= Len(r)
  <2>1. n \in 1..Len(r) /\ s[n] = r[n]
    BY <1>1, <1>3, <1>7, <1>9
  <2> QED
    BY <1>4, <1>8, <2>1 DEF Counted
<1>10. CASE ~(n <= Len(r))
  <2>1. n - Len(r) \in 1..Len(t) /\ s[n] = t[n - Len(r)]
    BY <1>1, <1>3, <1>7, <1>10
  <2>2. Allowed(d, s[n])
    BY <1>1, <2>1 DEF AllAllowed
  <2>3. ASSUME r # <<>>, s[n].meeting = r[1].meeting PROVE FALSE
    <3>1. Len(r) = 1
      BY <1>1, <1>5, <1>6, <2>3
    <3>2. 1 \in 1..(n - 1) /\ s[1] = r[1]
      BY <1>1, <1>3, <1>7, <1>10, <3>1
    <3> QED
      BY <1>7, <2>3, <3>2
  <2> QED
    BY <2>2, <2>3 DEF Allowed
<1> QED
  BY <1>9, <1>10

\* snapshot_for_quit: the start given back had not crashed.
LEMMA SnapshotForQuitCovers ==
    ASSUME NEW q \in Queue, Len(q.running) <= 1,
           NEW d \in [Meetings -> Nat], QueueCovers(q, d)
    PROVE  \A j \in SnapshotForQuit(q) : d[j.meeting] <= j.attempts
<1>1. SUFFICES ASSUME NEW j \in Snapshot(q)
               PROVE  LET e == IF Has(q.running, j.meeting)
                               THEN [j EXCEPT !.attempts = Back(@)] ELSE j
                      IN  d[e.meeting] <= e.attempts
  BY DEF SnapshotForQuit
<1>2. j \in Job /\ d[j.meeting] \in Nat /\ j.attempts \in Nat
  <2>1. j \in Job
    BY SnapshotType
  <2> QED
    BY <2>1 DEF Job
<1>3. CASE Has(q.running, j.meeting)
  <2>1. q.running \in Seq(Job) /\ DOMAIN q.running = 1..Len(q.running) /\ Len(q.running) \in Nat
    BY LenProperties DEF Queue
  <2>2. PICK i \in 1..Len(q.running) : q.running[i].meeting = j.meeting
    BY <1>3, <2>1 DEF Has
  <2>3. i = 1 /\ q.running # <<>>
    BY <2>1, <2>2, EmptySeq
  <2>4. d[j.meeting] < j.attempts
    BY <2>2, <2>3, SnapshotCovers
  <2>5. /\ [j EXCEPT !.attempts = Back(@)].meeting = j.meeting
        /\ [j EXCEPT !.attempts = Back(@)].attempts = Back(j.attempts)
    BY <1>2 DEF Job
  <2>6. d[j.meeting] <= Back(j.attempts)
    BY <1>2, <2>4 DEF Back
  <2> QED
    BY <1>3, <2>5, <2>6
<1>4. CASE ~Has(q.running, j.meeting)
  BY <1>4, SnapshotCovers
<1> QED
  BY <1>3, <1>4

----------------------------------------------------------------------------
(***************************************************************************)
(* The invariant, one lemma per part.                                      *)
(***************************************************************************)
CountInv == TypeOK /\ QueueShape /\ CountsCoverDeaths /\ CrashLoopEnds

\* At a first launch nothing is queued and nothing has crashed.
LEMMA CountInit == Init => CountsCoverDeaths /\ CrashLoopEnds
<1> SUFFICES ASSUME Init PROVE CountsCoverDeaths /\ CrashLoopEnds
  OBVIOUS
<1>1. DOMAIN <<>> = {}
  OBVIOUS
<1>2. QueueCovers(aiq, deaths)
  BY <1>1, AllowedEmpty DEF Init, EmptyQueue, QueueCovers
<1>3. RowCovers /\ RowAhead
  BY DEF Init, RowCovers, RowAhead
<1>4. RecoveryCovers
  BY AllowedEmpty DEF Init, RecoveryCovers
<1>5. AskedAfresh
  BY <1>1 DEF Init, Idle, AskedAfresh
<1>6. CrashLoopEnds
  BY MaxPassAttemptsAssumption DEF Init, CrashLoopEnds
<1> QED
  BY <1>2, <1>3, <1>4, <1>5, <1>6 DEF CountsCoverDeaths

\* Facts of the invariant every part uses.
LEMMA CountFacts ==
    ASSUME CountInv
    PROVE  /\ aiq \in Queue /\ Len(aiq.running) <= 1
           /\ deaths \in [Meetings -> Nat] /\ row \subseteq Job
           /\ QueueCovers(aiq, deaths)
           /\ worker = "run" =>
                 /\ aiq.running # <<>> /\ aiq.running[1] \in Job
                 /\ Counted(deaths, aiq.running[1])
<1>1. /\ aiq \in Queue /\ Len(aiq.running) <= 1 /\ aiq.running \in Seq(Job)
      /\ deaths \in [Meetings -> Nat] /\ row \subseteq Job
      /\ QueueCovers(aiq, deaths)
  BY DEF CountInv, TypeOK, CountsCoverDeaths, Queue
<1>2. ASSUME worker = "run"
      PROVE  aiq.running # <<>> /\ aiq.running[1] \in Job /\ Counted(deaths, aiq.running[1])
  <2>1. aiq.running # <<>>
    BY <1>2 DEF CountInv, QueueShape
  <2>2. 1 \in DOMAIN aiq.running
    BY <1>1, <2>1, LenProperties, EmptySeq
  <2> QED
    BY <1>1, <2>1, <2>2, FirstOfSeq DEF QueueCovers
<1> QED
  BY <1>1, <1>2

\* What a thread pushes has used no attempt, and its meeting starts afresh.
LEMMA AskedJob ==
    ASSUME CountInv, NEW c \in Threads, PushJob(c)
    PROVE  /\ thread[c].job[1] \in Job /\ thread[c].job[1].attempts = 0
           /\ thread[c].job[1].meeting \in Meetings
           /\ deaths' = [deaths EXCEPT ![thread[c].job[1].meeting] = 0]
           /\ deaths' \in [Meetings -> Nat]
<1>1. thread[c].job \in Seq(Job) /\ thread[c].job # <<>>
  BY DEF PushJob, CountInv, TypeOK, ThreadStates
<1>2. thread[c].job[1] \in Job /\ 1 \in DOMAIN thread[c].job
  BY <1>1, FirstOfSeq, LenProperties, EmptySeq
<1> QED
  BY <1>2 DEF PushJob, CountInv, TypeOK, CountsCoverDeaths, AskedAfresh, Job

\* The queue: every operation keeps the counts at or above the crashes.
LEMMA QueueCoversNext == CountInv /\ [Next]_vars => QueueCovers(aiq, deaths)'
<1> SUFFICES ASSUME CountInv, [Next]_vars PROVE QueueCovers(aiq', deaths')
  OBVIOUS
<1> DEFINE Goal == QueueCovers(aiq', deaths')
<1>0. aiq \in Queue /\ deaths \in [Meetings -> Nat] /\ QueueCovers(aiq, deaths)
  BY CountFacts
<1>1. ASSUME aiq' = aiq, deaths' = deaths PROVE Goal
  BY <1>0, <1>1
<1>2. ASSUME NEW c \in Threads, NEW m \in Meetings, DropPending(c, m) PROVE Goal
  BY <1>0, <1>2, RemoveCovers DEF DropPending
<1>3. ASSUME NEW c \in Threads, PushJob(c) PROVE Goal
  <2> DEFINE j == thread[c].job[1]
  <2>1. /\ j \in Job /\ j.attempts = 0 /\ j.meeting \in Meetings
        /\ deaths' = [deaths EXCEPT ![j.meeting] = 0] /\ aiq' = Push(aiq, j)
    BY <1>3, AskedJob DEF PushJob
  <2> HIDE DEF j
  <2>2. QueueCovers(aiq, deaths')
    BY <1>0, <2>1, ResetCovers
  <2>3. deaths'[j.meeting] = 0
    BY <1>0, <2>1
  <2>4. Allowed(deaths', j)
    BY <2>1, <2>3, MaxPassAttemptsAssumption DEF Allowed
  <2> QED
    BY <1>0, <2>1, <2>2, <2>4, PushCovers
<1>4. ASSUME NextJob PROVE Goal
  BY <1>0, <1>1, <1>4, StartCovers DEF NextJob
<1>5. ASSUME DropRunning PROVE Goal
  BY <1>0, <1>5, FinishCovers DEF DropRunning
<1>6. ASSUME PushRecovered PROVE Goal
  <2>1. boot.job \in Seq(Job) /\ boot.job # <<>>
    BY <1>6 DEF PushRecovered, CountInv, TypeOK
  <2>2. boot.job[1] \in Job /\ 1 \in DOMAIN boot.job
    BY <2>1, FirstOfSeq, LenProperties, EmptySeq
  <2>3. Allowed(deaths, boot.job[1])
    BY <2>2 DEF CountInv, CountsCoverDeaths, RecoveryCovers, AllAllowed
  <2> QED
    BY <1>0, <1>6, <2>2, <2>3, PushCovers DEF PushRecovered
<1>7. ASSUME HaltAiPasses PROVE Goal
  BY <1>0, <1>7, HaltCovers DEF HaltAiPasses
<1>8. ASSUME ForgetHalted PROVE Goal
  BY <1>0, <1>8, DiscardCovers DEF ForgetHalted
<1>9. ASSUME ResumeAiPasses PROVE Goal
  BY <1>0, <1>9, ResumeCovers DEF ResumeAiPasses
<1>10. ASSUME Exit \/ Crash PROVE Goal
  <2>1. aiq'.pending = <<>> /\ aiq'.held = <<>> /\ aiq'.running = <<>>
    BY <1>10 DEF Exit, Crash, FreshProcess, EmptyQueue
  <2>2. DOMAIN <<>> = {}
    OBVIOUS
  <2> QED
    BY <2>1, <2>2, AllowedEmpty DEF QueueCovers
<1>11. ASSUME NEW c \in Threads, NEW m \in Meetings, NEW k \in AskedKinds, QueueAiJob(c, m, k)
       PROVE  Goal
  BY <1>1, <1>11 DEF QueueAiJob
<1>12. ASSUME NEW c \in Threads, PersistByThread(c) PROVE Goal
  BY <1>1, <1>12 DEF PersistByThread
<1>13. ASSUME NEW m \in Meetings, PurgeMeeting(m) PROVE Goal
  BY <1>1, <1>13 DEF PurgeMeeting
<1>14. ASSUME \/ Gate \/ PersistStart \/ PassEnds \/ PersistEnd
              \/ ReadRow \/ TakeJob \/ PersistRecovered
              \/ WaitNotBusy \/ EraseContent \/ PersistResumed
              \/ StartRecording \/ StopRecording \/ SaveOnQuit \/ UNCHANGED vars
       PROVE  Goal
  BY <1>1, <1>14 DEF Gate, PersistStart, PassEnds, PersistEnd, ReadRow, TakeJob,
     PersistRecovered, WaitNotBusy, EraseContent, PersistResumed,
     StartRecording, StopRecording, SaveOnQuit, vars
<1> HIDE DEF Goal
<1>15. Goal
  BY <1>2, <1>3, <1>4, <1>5, <1>6, <1>7, <1>8, <1>9, <1>10, <1>11, <1>12, <1>13, <1>14
     DEF Next, RunNextAiJob, RecoverAiPasses, DeleteAllData, Process
<1> QED
  BY <1>15 DEF Goal

\* The row: a save writes counts that cover the crashes; a crash inside a pass
\* finds the row one ahead.
LEMMA RowCoversNext == CountInv /\ [Next]_vars => RowCovers'
<1> SUFFICES ASSUME CountInv, [Next]_vars PROVE RowCovers'
  OBVIOUS
<1>0. /\ aiq \in Queue /\ Len(aiq.running) <= 1 /\ deaths \in [Meetings -> Nat]
      /\ QueueCovers(aiq, deaths) /\ row \subseteq Job /\ RowCovers
  BY CountFacts DEF CountInv, CountsCoverDeaths
<1>1. ASSUME row' = row, deaths' = deaths PROVE RowCovers'
  BY <1>0, <1>1 DEF RowCovers
<1>2. ASSUME row' = Snapshot(aiq), deaths' = deaths PROVE RowCovers'
  BY <1>0, <1>2, SnapshotCovers DEF RowCovers
<1>3. ASSUME NEW c \in Threads, PushJob(c) PROVE RowCovers'
  <2> DEFINE m == thread[c].job[1].meeting
  <2>1. m \in Meetings /\ deaths' = [deaths EXCEPT ![m] = 0] /\ row' = row
    BY <1>3, AskedJob DEF PushJob
  <2> HIDE DEF m
  <2>2. ASSUME NEW j \in row PROVE deaths'[j.meeting] <= j.attempts
    BY <1>0, <2>1, <2>2 DEF RowCovers, Job
  <2> QED
    BY <2>1, <2>2 DEF RowCovers
<1>4. ASSUME SaveOnQuit PROVE RowCovers'
  BY <1>0, <1>4, SnapshotForQuitCovers DEF SaveOnQuit, RowCovers
<1>5. ASSUME EraseContent PROVE RowCovers'
  BY <1>0, <1>5 DEF EraseContent, RowCovers
<1>6. ASSUME Crash PROVE RowCovers'
  <2>1. CASE worker = "run"
    <3> DEFINE m == aiq.running[1].meeting
    <3>1. deaths' = [deaths EXCEPT ![m] = @ + 1] /\ row' = row /\ ~quitting
      BY <1>6, <2>1 DEF Crash
    <3>2. \A j \in row : j.meeting = m => deaths[m] < j.attempts
      BY <2>1, <3>1 DEF CountInv, CountsCoverDeaths, RowAhead
    <3> HIDE DEF m
    <3>3. ASSUME NEW j \in row PROVE deaths'[j.meeting] <= j.attempts
      <4>1. j.meeting \in Meetings /\ j.attempts \in Nat /\ deaths[j.meeting] \in Nat
        BY <1>0 DEF Job
      <4>2. CASE j.meeting = m
        <5>1. deaths'[j.meeting] = deaths[j.meeting] + 1
          BY <1>0, <3>1, <4>1, <4>2
        <5> QED
          BY <3>2, <4>1, <4>2, <5>1
      <4>3. CASE j.meeting # m
        <5>1. deaths'[j.meeting] = deaths[j.meeting]
          BY <1>0, <3>1, <4>1, <4>3
        <5> QED
          BY <1>0, <5>1 DEF RowCovers
      <4> QED
        BY <4>2, <4>3
    <3> QED
      BY <3>1, <3>3 DEF RowCovers
  <2>2. CASE worker # "run"
    BY <1>1, <1>6, <2>2 DEF Crash
  <2> QED
    BY <2>1, <2>2
<1>7. ASSUME NEW c \in Threads, NEW m \in Meetings,
             (\E k \in AskedKinds : QueueAiJob(c, m, k)) \/ DropPending(c, m) \/ PurgeMeeting(m)
      PROVE  RowCovers'
  BY <1>1, <1>7 DEF QueueAiJob, DropPending, PurgeMeeting
<1>8. ASSUME NEW c \in Threads, PersistByThread(c) PROVE RowCovers'
  BY <1>2, <1>8 DEF PersistByThread, PersistAiQueue
<1>9. ASSUME PersistStart \/ PersistEnd \/ PersistRecovered \/ PersistResumed PROVE RowCovers'
  BY <1>2, <1>9 DEF PersistStart, PersistEnd, PersistRecovered, PersistResumed, PersistAiQueue
<1>10. ASSUME \/ Gate \/ NextJob \/ PassEnds \/ DropRunning \/ ReadRow \/ TakeJob
              \/ PushRecovered \/ HaltAiPasses \/ WaitNotBusy \/ ForgetHalted \/ ResumeAiPasses
              \/ StartRecording \/ StopRecording \/ Exit \/ UNCHANGED vars
       PROVE  RowCovers'
  BY <1>1, <1>10 DEF Gate, NextJob, PassEnds, DropRunning, ReadRow, TakeJob, PushRecovered,
     HaltAiPasses, WaitNotBusy, ForgetHalted, ResumeAiPasses, StartRecording, StopRecording,
     Exit, vars
<1>11. ASSUME NEW m \in Meetings, PurgeMeeting(m) PROVE RowCovers'
  BY <1>1, <1>11 DEF PurgeMeeting
<1> HIDE DEF RowCovers
<1> QED
  BY <1>3, <1>4, <1>5, <1>6, <1>7, <1>8, <1>9, <1>10, <1>11
     DEF Next, RunNextAiJob, RecoverAiPasses, DeleteAllData, Process

\* While a pass runs, whoever saves the queue writes the attempt in use.
LEMMA RowAheadNext == CountInv /\ [Next]_vars => RowAhead'
<1> SUFFICES ASSUME CountInv, [Next]_vars PROVE RowAhead'
  OBVIOUS
<1>0. /\ aiq \in Queue /\ Len(aiq.running) <= 1 /\ deaths \in [Meetings -> Nat]
      /\ QueueCovers(aiq, deaths) /\ row \subseteq Job /\ RowAhead
  BY CountFacts DEF CountInv, CountsCoverDeaths
<1>1. ASSUME row' = row, deaths' = deaths, aiq'.running = aiq.running,
             worker' = worker, quitting' = quitting
      PROVE  RowAhead'
  BY <1>0, <1>1 DEF RowAhead
<1>2. ASSUME worker' # "run" PROVE RowAhead'
  BY <1>2 DEF RowAhead
<1>3. ASSUME row' = Snapshot(aiq), deaths' = deaths, aiq' = aiq,
             worker' = "run" => worker \in {"started", "run"}
      PROVE  RowAhead'
  <2>1. worker' = "run" => aiq.running # <<>>
    BY <1>3 DEF CountInv, QueueShape
  <2> QED
    BY <1>0, <1>3, <2>1, SnapshotCovers DEF RowAhead
<1>4. ASSUME NEW c \in Threads, NEW m \in Meetings, DropPending(c, m) PROVE RowAhead'
  BY <1>0, <1>1, <1>4, RemovePendingType DEF DropPending
<1>5. ASSUME NEW c \in Threads, PushJob(c) PROVE RowAhead'
  <2> DEFINE m == thread[c].job[1].meeting
  <2>1. m \in Meetings /\ deaths' = [deaths EXCEPT ![m] = 0]
    BY <1>5, AskedJob
  <2>2. aiq'.running = aiq.running /\ row' = row /\ worker' = worker /\ quitting' = quitting
    BY <1>0, <1>5, AskedJob, PushType DEF PushJob
  <2> HIDE DEF m
  <2>3. SUFFICES ASSUME worker = "run", ~quitting,
                        NEW j \in row, j.meeting = aiq.running[1].meeting
                 PROVE  deaths'[j.meeting] < j.attempts
    BY <2>2 DEF RowAhead
  <2>4. deaths[j.meeting] < j.attempts
    BY <1>0, <2>3 DEF RowAhead
  <2>5. j.meeting \in Meetings /\ j.attempts \in Nat /\ deaths[j.meeting] \in Nat
    BY <1>0, <2>3 DEF Job
  <2>6. deaths'[j.meeting] = 0 \/ deaths'[j.meeting] = deaths[j.meeting]
    BY <1>0, <2>1, <2>5
  <2> QED
    BY <2>4, <2>5, <2>6
<1>6. ASSUME PushRecovered PROVE RowAhead'
  <2>1. boot.job[1] \in Job
    BY <1>6, FirstOfSeq DEF PushRecovered, CountInv, TypeOK
  <2> QED
    BY <1>0, <1>1, <1>6, <2>1, PushType DEF PushRecovered
<1>7. ASSUME HaltAiPasses PROVE RowAhead'
  BY <1>0, <1>1, <1>7, HaltType DEF HaltAiPasses
<1>8. ASSUME ForgetHalted PROVE RowAhead'
  BY <1>0, <1>1, <1>8, DiscardHeldType DEF ForgetHalted
<1>9. ASSUME ResumeAiPasses PROVE RowAhead'
  BY <1>0, <1>1, <1>9, ResumeType DEF ResumeAiPasses
<1>10. ASSUME EraseContent PROVE RowAhead'
  BY <1>0, <1>10 DEF EraseContent, RowAhead
<1>11. ASSUME SaveOnQuit PROVE RowAhead'
  BY <1>11 DEF SaveOnQuit, RowAhead
<1>12. ASSUME Gate \/ NextJob \/ PassEnds \/ DropRunning \/ PersistEnd PROVE RowAhead'
  BY <1>1, <1>2, <1>12 DEF Gate, NextJob, PassEnds, DropRunning, PersistEnd
<1>13. ASSUME Exit \/ Crash PROVE RowAhead'
  BY <1>2, <1>13 DEF Exit, Crash, FreshProcess
<1>14. ASSUME NEW c \in Threads, PersistByThread(c) PROVE RowAhead'
  BY <1>3, <1>14 DEF PersistByThread, PersistAiQueue
<1>15. ASSUME PersistStart \/ PersistRecovered \/ PersistResumed PROVE RowAhead'
  BY <1>3, <1>15 DEF PersistStart, PersistRecovered, PersistResumed, PersistAiQueue
<1>16. ASSUME NEW c \in Threads, NEW m \in Meetings, NEW k \in AskedKinds, QueueAiJob(c, m, k)
       PROVE  RowAhead'
  BY <1>1, <1>16 DEF QueueAiJob
<1>17. ASSUME NEW m \in Meetings, PurgeMeeting(m) PROVE RowAhead'
  BY <1>1, <1>17 DEF PurgeMeeting
<1>18. ASSUME ReadRow \/ TakeJob \/ WaitNotBusy \/ StartRecording \/ StopRecording \/ UNCHANGED vars
       PROVE  RowAhead'
  BY <1>1, <1>18 DEF ReadRow, TakeJob, WaitNotBusy, StartRecording, StopRecording, vars
<1> HIDE DEF RowAhead
<1> QED
  BY <1>4, <1>5, <1>6, <1>7, <1>8, <1>9, <1>10, <1>11, <1>12, <1>13, <1>14, <1>15, <1>16,
     <1>17, <1>18 DEF Next, RunNextAiJob, RecoverAiPasses, DeleteAllData, Process

\* What recovery reads is filtered by the limit, and what it holds was read.
LEMMA RecoveryCoversNext == CountInv /\ [Next]_vars => RecoveryCovers'
<1> SUFFICES ASSUME CountInv, [Next]_vars PROVE RecoveryCovers'
  OBVIOUS
<1>0. /\ deaths \in [Meetings -> Nat] /\ row \subseteq Job /\ RowCovers /\ RecoveryCovers
      /\ boot \in [pc : BootStates, jobs : SUBSET Job, job : Seq(Job)]
  BY DEF CountInv, CountsCoverDeaths, TypeOK
<1>1. ASSUME boot' = boot, deaths' = deaths PROVE RecoveryCovers'
  BY <1>0, <1>1 DEF RecoveryCovers, AllAllowed, Allowed
<1>2. ASSUME NEW c \in Threads, PushJob(c) PROVE RecoveryCovers'
  <2> DEFINE m == thread[c].job[1].meeting
  <2>1. m \in Meetings /\ deaths' = [deaths EXCEPT ![m] = 0] /\ boot' = boot
    BY <1>2, AskedJob DEF PushJob
  <2> HIDE DEF m
  <2>2. ASSUME NEW j \in Job, Allowed(deaths, j) PROVE Allowed(deaths', j)
    <3>1. j.meeting \in Meetings /\ j.attempts \in Nat /\ deaths[j.meeting] \in Nat
      BY <1>0 DEF Job
    <3>2. deaths'[j.meeting] = 0 \/ deaths'[j.meeting] = deaths[j.meeting]
      BY <1>0, <2>1, <3>1
    <3> QED
      BY <2>2, <3>1, <3>2 DEF Allowed
  <2>3. boot.jobs \subseteq Job /\ \A i \in DOMAIN boot.job : boot.job[i] \in Job
    BY <1>0, LenProperties, ElementOfSeq
  <2> QED
    BY <1>0, <2>1, <2>2, <2>3 DEF RecoveryCovers, AllAllowed
<1>3. ASSUME ReadRow PROVE RecoveryCovers'
  <2>1. boot'.jobs = {j \in row : Recoverable(j)} /\ boot'.job = <<>> /\ deaths' = deaths
    BY <1>3 DEF ReadRow
  <2>2. ASSUME NEW j \in row, Recoverable(j) PROVE Allowed(deaths, j)
    BY <1>0, <2>2 DEF RowCovers, Recoverable, Allowed
  <2> QED
    BY <2>1, <2>2, AllowedEmpty DEF RecoveryCovers
<1>4. ASSUME TakeJob PROVE RecoveryCovers'
  <2>0. deaths' = deaths
    BY <1>4 DEF TakeJob
  <2>1. CASE boot' = [boot EXCEPT !.pc = "save"]
    <3>1. boot'.jobs = boot.jobs /\ boot'.job = boot.job
      BY <1>0, <2>1
    <3> QED
      BY <1>0, <2>0, <3>1 DEF RecoveryCovers
  <2>2. ASSUME NEW j \in boot.jobs,
               boot' = [pc |-> "push", jobs |-> boot.jobs \ {j}, job |-> <<j>>]
        PROVE  RecoveryCovers'
    <3>1. boot'.jobs = boot.jobs \ {j} /\ boot'.job = <<j>>
      BY <2>2
    <3>2. \A i \in DOMAIN <<j>> : <<j>>[i] = j
      OBVIOUS
    <3> QED
      BY <1>0, <2>0, <2>2, <3>1, <3>2 DEF RecoveryCovers, AllAllowed
  <2>3. ASSUME NEW j \in boot.jobs, boot' = [boot EXCEPT !.jobs = @ \ {j}]
        PROVE  RecoveryCovers'
    <3>1. boot'.jobs = boot.jobs \ {j} /\ boot'.job = boot.job
      BY <1>0, <2>3
    <3> QED
      BY <1>0, <2>0, <3>1 DEF RecoveryCovers
  <2> HIDE DEF RecoveryCovers
  <2> QED
    BY <1>4, <2>1, <2>2, <2>3 DEF TakeJob
<1>5. ASSUME PushRecovered \/ PersistRecovered PROVE RecoveryCovers'
  <2>1. boot'.jobs = boot.jobs /\ boot'.job \in {boot.job, <<>>} /\ deaths' = deaths
    BY <1>0, <1>5 DEF PushRecovered, PersistRecovered
  <2> QED
    BY <1>0, <2>1, AllowedEmpty DEF RecoveryCovers
<1>6. ASSUME Exit \/ Crash PROVE RecoveryCovers'
  <2>1. boot'.jobs = {} /\ boot'.job = <<>>
    BY <1>6 DEF Exit, Crash, FreshProcess
  <2> QED
    BY <2>1, AllowedEmpty DEF RecoveryCovers
<1>7. ASSUME NEW c \in Threads, NEW m \in Meetings,
             (\E k \in AskedKinds : QueueAiJob(c, m, k)) \/ DropPending(c, m)
      PROVE  RecoveryCovers'
  BY <1>1, <1>7 DEF QueueAiJob, DropPending
<1>8. ASSUME NEW c \in Threads, PersistByThread(c) PROVE RecoveryCovers'
  BY <1>1, <1>8 DEF PersistByThread
<1>9. ASSUME NEW m \in Meetings, PurgeMeeting(m) PROVE RecoveryCovers'
  BY <1>1, <1>9 DEF PurgeMeeting
<1>10. ASSUME RunNextAiJob \/ DeleteAllData \/ UNCHANGED vars PROVE RecoveryCovers'
  BY <1>1, <1>10 DEF RunNextAiJob, Gate, NextJob, PersistStart, PassEnds, DropRunning,
     PersistEnd, DeleteAllData, HaltAiPasses, WaitNotBusy, EraseContent, ForgetHalted,
     ResumeAiPasses, PersistResumed, vars
<1>11. ASSUME StartRecording \/ StopRecording \/ SaveOnQuit PROVE RecoveryCovers'
  BY <1>1, <1>11 DEF StartRecording, StopRecording, SaveOnQuit
<1> HIDE DEF RecoveryCovers
<1> QED
  BY <1>2, <1>3, <1>4, <1>5, <1>6, <1>7, <1>8, <1>9, <1>10, <1>11
     DEF Next, RecoverAiPasses, Process

\* A thread asks for a pass that has used no attempt.
LEMMA AskedAfreshNext == CountInv /\ [Next]_vars => AskedAfresh'
<1> SUFFICES ASSUME CountInv, [Next]_vars PROVE AskedAfresh'
  OBVIOUS
<1>0. AskedAfresh /\ thread \in [Threads -> ThreadStates]
  BY DEF CountInv, CountsCoverDeaths, TypeOK
<1>1. ASSUME thread' = thread PROVE AskedAfresh'
  BY <1>0, <1>1 DEF AskedAfresh
<1>2. ASSUME NEW c \in Threads, NEW t, t.job = <<>>, thread' = [thread EXCEPT ![c] = t]
      PROVE  AskedAfresh'
  <2>1. DOMAIN <<>> = {}
    OBVIOUS
  <2> QED
    BY <1>0, <1>2, <2>1 DEF AskedAfresh
<1>3. ASSUME NEW c \in Threads, NEW m \in Meetings, NEW k \in AskedKinds, QueueAiJob(c, m, k)
      PROVE  AskedAfresh'
  <2>1. thread' = [thread EXCEPT ![c] = [pc |-> "push", job |-> <<NewJob(m, k)>>]]
    BY <1>3 DEF QueueAiJob
  <2>2. NewJob(m, k).attempts = 0
    BY DEF NewJob
  <2>3. \A i \in DOMAIN <<NewJob(m, k)>> : <<NewJob(m, k)>>[i] = NewJob(m, k)
    OBVIOUS
  <2> QED
    BY <1>0, <2>1, <2>2, <2>3 DEF AskedAfresh
<1>4. ASSUME NEW c \in Threads, PushJob(c) \/ PersistByThread(c) \/ \E m \in Meetings : DropPending(c, m)
      PROVE  AskedAfresh'
  BY <1>1, <1>2, <1>4 DEF PushJob, PersistByThread, DropPending, Idle
<1>5. ASSUME NEW m \in Meetings, PurgeMeeting(m) PROVE AskedAfresh'
  BY <1>1, <1>5 DEF PurgeMeeting
<1>6. ASSUME RunNextAiJob \/ RecoverAiPasses \/ UNCHANGED vars PROVE AskedAfresh'
  BY <1>1, <1>6 DEF RunNextAiJob, Gate, NextJob, PersistStart, PassEnds, DropRunning,
     PersistEnd, RecoverAiPasses, ReadRow, TakeJob, PushRecovered, PersistRecovered, vars
<1>7. ASSUME DeleteAllData PROVE AskedAfresh'
  BY <1>1, <1>7 DEF DeleteAllData, HaltAiPasses, WaitNotBusy, EraseContent, ForgetHalted,
     ResumeAiPasses, PersistResumed
<1>8. ASSUME StartRecording \/ StopRecording \/ SaveOnQuit PROVE AskedAfresh'
  BY <1>1, <1>8 DEF StartRecording, StopRecording, SaveOnQuit
<1>9. ASSUME Exit \/ Crash PROVE AskedAfresh'
  <2>1. \A c \in Threads : thread'[c].job = <<>>
    BY <1>9 DEF Exit, Crash, FreshProcess, Idle
  <2>2. DOMAIN <<>> = {}
    OBVIOUS
  <2> QED
    BY <2>1, <2>2 DEF AskedAfresh
<1> HIDE DEF AskedAfresh
<1> QED
  BY <1>3, <1>4, <1>5, <1>6, <1>7, <1>8, <1>9 DEF Next, Process

\* A crash finds the running pass's count ahead of the crashes before it.
LEMMA CrashLoopNext == CountInv /\ [Next]_vars => CrashLoopEnds'
<1> SUFFICES ASSUME CountInv, [Next]_vars PROVE CrashLoopEnds'
  OBVIOUS
<1>0. /\ deaths \in [Meetings -> Nat] /\ CrashLoopEnds /\ MaxPassAttempts \in Nat
  BY CountFacts, MaxPassAttemptsAssumption DEF CountInv
<1>1. ASSUME deaths' = deaths PROVE CrashLoopEnds'
  BY <1>0, <1>1 DEF CrashLoopEnds
<1>2. ASSUME NEW c \in Threads, PushJob(c) PROVE CrashLoopEnds'
  <2> DEFINE m == thread[c].job[1].meeting
  <2>1. m \in Meetings /\ deaths' = [deaths EXCEPT ![m] = 0]
    BY <1>2, AskedJob
  <2> HIDE DEF m
  <2> QED
    BY <1>0, <2>1 DEF CrashLoopEnds
<1>3. ASSUME Crash, worker = "run" PROVE CrashLoopEnds'
  <2> DEFINE m == aiq.running[1].meeting
  <2>1. deaths' = [deaths EXCEPT ![m] = @ + 1]
    BY <1>3 DEF Crash
  <2>2. aiq.running[1] \in Job /\ Counted(deaths, aiq.running[1])
    BY <1>3, CountFacts
  <2>3. m \in Meetings /\ deaths[m] \in Nat /\ deaths[m] + 1 <= MaxPassAttempts
    BY <1>0, <2>2 DEF Counted, Job
  <2> HIDE DEF m
  <2> QED
    BY <1>0, <2>1, <2>3 DEF CrashLoopEnds
<1>4. ASSUME Crash, worker # "run" PROVE CrashLoopEnds'
  BY <1>1, <1>4 DEF Crash
<1>5. ASSUME NEW c \in Threads, NEW m \in Meetings,
             (\E k \in AskedKinds : QueueAiJob(c, m, k)) \/ DropPending(c, m)
      PROVE  CrashLoopEnds'
  BY <1>1, <1>5 DEF QueueAiJob, DropPending
<1>6. ASSUME NEW c \in Threads, PersistByThread(c) PROVE CrashLoopEnds'
  BY <1>1, <1>6 DEF PersistByThread
<1>7. ASSUME NEW m \in Meetings, PurgeMeeting(m) PROVE CrashLoopEnds'
  BY <1>1, <1>7 DEF PurgeMeeting
<1>8. ASSUME RunNextAiJob \/ RecoverAiPasses \/ UNCHANGED vars PROVE CrashLoopEnds'
  BY <1>1, <1>8 DEF RunNextAiJob, Gate, NextJob, PersistStart, PassEnds, DropRunning,
     PersistEnd, RecoverAiPasses, ReadRow, TakeJob, PushRecovered, PersistRecovered, vars
<1>9. ASSUME DeleteAllData PROVE CrashLoopEnds'
  BY <1>1, <1>9 DEF DeleteAllData, HaltAiPasses, WaitNotBusy, EraseContent, ForgetHalted,
     ResumeAiPasses, PersistResumed
<1>10. ASSUME StartRecording \/ StopRecording \/ SaveOnQuit \/ Exit PROVE CrashLoopEnds'
  BY <1>1, <1>10 DEF StartRecording, StopRecording, SaveOnQuit, Exit
<1> HIDE DEF CrashLoopEnds
<1> QED
  BY <1>2, <1>3, <1>4, <1>5, <1>6, <1>7, <1>8, <1>9, <1>10 DEF Next, Process

\* However often the app crashes, quits or wipes its data, a pass is running
\* at no more than MAX_PASS_ATTEMPTS of the crashes since it was last asked
\* for (recover_ai_passes, with the attempt counted by next and saved by
\* run_next_ai_job before the pass starts).
THEOREM CrashLoopsEnd == Spec => []CrashLoopEnds
<1>1. Init => CountInv
  BY InitType, ShapeInit, CountInit DEF CountInv
<1>2. CountInv /\ [Next]_vars => CountInv'
  <2>1. CountInv /\ [Next]_vars => CountsCoverDeaths'
    BY QueueCoversNext, RowCoversNext, RowAheadNext, RecoveryCoversNext, AskedAfreshNext
       DEF CountsCoverDeaths
  <2> QED
    BY <2>1, NextType, ShapeNext, CrashLoopNext DEF CountInv
<1>3. CountInv => CrashLoopEnds
  BY DEF CountInv
<1> QED
  BY <1>1, <1>2, <1>3, PTL DEF Spec
=============================================================================
