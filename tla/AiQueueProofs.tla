--------------------------- MODULE AiQueueProofs ---------------------------
(***************************************************************************)
(* Lemmas about the operators of AiQueue, for every set of meetings: each  *)
(* method of the queue maps a queue to a queue (what TypeCorrect of        *)
(* AiPassesProofs rests on), halting changes nothing that is saved, and    *)
(* who is in the queue stays in it (what NoPassIsLost rests on).           *)
(***************************************************************************)
EXTENDS AiQueue, SequenceTheorems, WellFoundedInduction, TLAPS

\* A meeting that is waiting has a place in the queue.
LEMMA PlaceInDomain ==
    ASSUME NEW s \in Seq(Job), NEW m, Has(s, m)
    PROVE  Place(s, m) \in 1..Len(s) /\ s[Place(s, m)].meeting = m
BY DEF Has, Place

\* A new queue is well-formed.
LEMMA EmptyQueueType == EmptyQueue \in Queue
BY EmptySeq DEF EmptyQueue, Queue

\* push touches only what is pending.
LEMMA PushType ==
    ASSUME NEW q \in Queue, NEW j \in Job
    PROVE  /\ Push(q, j) \in Queue
           /\ Push(q, j).running = q.running
           /\ Push(q, j).held = q.held
           /\ Push(q, j).halted = q.halted
<1>1. CASE q.halted
  BY <1>1 DEF Push
<1>2. CASE ~q.halted /\ Has(q.pending, j.meeting)
  <2> DEFINE p == Place(q.pending, j.meeting)
             e == [q.pending[p] EXCEPT
                     !.kind = IF Rank[j.kind] > Rank[@] THEN j.kind ELSE @]
             s == [q.pending EXCEPT ![p] = e]
  <2>1. q.pending \in Seq(Job)
    BY DEF Queue
  <2>2. p \in 1..Len(q.pending)
    BY <1>2, <2>1, PlaceInDomain
  <2>3. e \in Job
    <3> DEFINE old == q.pending[p]
               kind == IF Rank[j.kind] > Rank[old.kind] THEN j.kind ELSE old.kind
    <3>1. old \in Job
      BY <2>1, <2>2, ElementOfSeq
    <3> HIDE DEF old
    <3>2. kind \in Kinds
      BY <3>1 DEF Job
    <3>3. e = [old EXCEPT !.kind = kind]
      BY DEF old
    <3> HIDE DEF kind, e
    <3> QED
      BY <3>1, <3>2, <3>3 DEF Job
  <2>4. s \in Seq(Job)
    BY <2>1, <2>2, <2>3, ExceptSeq
  <2>5. Push(q, j) = [q EXCEPT !.pending = s]
    BY <1>2 DEF Push, Queue
  <2> QED
    BY <2>4, <2>5 DEF Queue
<1>3. CASE ~q.halted /\ ~Has(q.pending, j.meeting)
  BY <1>3, AppendProperties DEF Push, Queue
<1> QED
  BY <1>1, <1>2, <1>3

\* The pass that starts is one well-formed entry.
LEMMA StartType ==
    ASSUME NEW q \in Queue, CanStart(q)
    PROVE  /\ Start(q) \in Queue
           /\ Len(Start(q).running) = 1
           /\ Start(q).held = q.held
           /\ Start(q).halted = q.halted
<1> DEFINE e == [Head(q.pending) EXCEPT !.attempts = @ + 1]
<1>1. q.pending \in Seq(Job) /\ q.pending # <<>>
  BY DEF Queue, CanStart
<1>2. Head(q.pending) \in Job /\ Tail(q.pending) \in Seq(Job)
  BY <1>1, HeadTailProperties
<1>3. e \in Job
  BY <1>2 DEF Job
<1>4. <<e>> \in Seq(Job) /\ Len(<<e>>) = 1
  BY <1>3
<1> HIDE DEF e
<1>5. Start(q) = [q EXCEPT !.pending = Tail(q.pending), !.cancel = FALSE, !.running = <<e>>]
  BY DEF Start, e
<1> QED
  BY <1>2, <1>4, <1>5 DEF Queue

\* finish touches only what runs.
LEMMA FinishType ==
    ASSUME NEW q \in Queue
    PROVE  /\ Finish(q) \in Queue
           /\ Finish(q).running = <<>>
           /\ Finish(q).held = q.held
           /\ Finish(q).halted = q.halted
BY EmptySeq DEF Finish, Queue

\* Taking the entry at a place out of a sequence leaves a sequence.
LEMMA RemoveAtType ==
    ASSUME NEW s \in Seq(Job), NEW i \in 1..Len(s)
    PROVE  /\ RemoveAt(s, i) \in Seq(Job)
           /\ Len(RemoveAt(s, i)) = Len(s) - 1
           /\ \A k \in 1..(Len(s) - 1) :
                 RemoveAt(s, i)[k] = IF k < i THEN s[k] ELSE s[k + 1]
<1> DEFINE a == SubSeq(s, 1, i - 1)
           b == SubSeq(s, i + 1, Len(s))
<1>1. Len(s) \in Nat
  BY LenProperties
<1>2. \A k \in 1..Len(s) : s[k] \in Job
  BY ElementOfSeq
<1>3. /\ a \in Seq(Job) /\ Len(a) = i - 1
      /\ \A k \in 1..(i - 1) : a[k] = s[k]
  <2>1. \A k \in 1..(i - 1) : s[k] \in Job
    BY <1>1, <1>2
  <2> QED
    BY <1>1, <2>1, SubSeqProperties, SMT
<1>4. /\ b \in Seq(Job) /\ Len(b) = Len(s) - i
      /\ \A k \in 1..(Len(s) - i) : b[k] = s[k + i]
  <2>1. \A k \in (i + 1)..Len(s) : s[k] \in Job
    BY <1>1, <1>2
  <2>2. /\ b \in Seq(Job)
        /\ Len(b) = IF i + 1 <= Len(s) THEN Len(s) - (i + 1) + 1 ELSE 0
        /\ \A k \in 1..(Len(s) - (i + 1) + 1) : b[k] = s[(i + 1) + k - 1]
    BY <1>1, <2>1, SubSeqProperties
  <2> QED
    BY <1>1, <2>2
<1> HIDE DEF a, b
<1>5. /\ a \o b \in Seq(Job)
      /\ Len(a \o b) = Len(a) + Len(b)
      /\ \A k \in 1..(Len(a) + Len(b)) : (a \o b)[k] = IF k <= Len(a) THEN a[k] ELSE b[k - Len(a)]
  BY <1>3, <1>4, ConcatProperties
<1>6. RemoveAt(s, i) = a \o b
  BY DEF RemoveAt, a, b
<1>7. Len(a) + Len(b) = Len(s) - 1
  BY <1>1, <1>3, <1>4
<1>8. ASSUME NEW k \in 1..(Len(s) - 1)
      PROVE  (a \o b)[k] = IF k < i THEN s[k] ELSE s[k + 1]
  <2>1. (a \o b)[k] = IF k <= i - 1 THEN a[k] ELSE b[k - (i - 1)]
    BY <1>3, <1>5, <1>7
  <2>2. CASE k < i
    BY <1>1, <1>3, <2>1, <2>2
  <2>3. CASE ~(k < i)
    <3>1. k - (i - 1) \in 1..(Len(s) - i)
      BY <1>1, <2>3
    <3>2. b[k - (i - 1)] = s[(k - (i - 1)) + i]
      BY <1>4, <3>1
    <3> QED
      BY <1>1, <2>1, <2>3, <3>2
  <2> QED
    BY <2>2, <2>3
<1> QED
  BY <1>5, <1>6, <1>7, <1>8

\* remove_pending touches only what is pending.
LEMMA RemovePendingType ==
    ASSUME NEW q \in Queue, NEW m
    PROVE  /\ RemovePending(q, m) \in Queue
           /\ RemovePending(q, m).running = q.running
           /\ RemovePending(q, m).held = q.held
           /\ RemovePending(q, m).halted = q.halted
<1>1. CASE Has(q.pending, m)
  <2> DEFINE s == RemoveAt(q.pending, Place(q.pending, m))
  <2>1. s \in Seq(Job)
    BY <1>1, PlaceInDomain, RemoveAtType DEF Queue
  <2>2. RemovePending(q, m) = [q EXCEPT !.pending = s]
    BY <1>1 DEF RemovePending
  <2> HIDE DEF s
  <2> QED
    BY <2>1, <2>2 DEF Queue
<1>2. CASE ~Has(q.pending, m)
  BY <1>2 DEF RemovePending
<1> QED
  BY <1>1, <1>2

\* cancel_running only leaves a permit.
LEMMA CancelRunningType ==
    ASSUME NEW q \in Queue, NEW m
    PROVE  CancelRunning(q, m) \in Queue
BY DEF CancelRunning, Queue

\* The passes given back are well-formed, as many as ran, for the same meetings.
LEMMA GivenBackType ==
    ASSUME NEW r \in Seq(Job)
    PROVE  /\ GivenBack(r) \in Seq(Job)
           /\ Len(GivenBack(r)) = Len(r)
           /\ \A i \in 1..Len(r) : GivenBack(r)[i].meeting = r[i].meeting
<1>1. DOMAIN r = 1..Len(r) /\ Len(r) \in Nat
  BY LenProperties
<1>2. ASSUME NEW i \in 1..Len(r)
      PROVE  /\ [r[i] EXCEPT !.attempts = Back(@)] \in Job
             /\ [r[i] EXCEPT !.attempts = Back(@)].meeting = r[i].meeting
  <2>1. r[i] \in Job
    BY ElementOfSeq
  <2> QED
    BY <2>1 DEF Job, Back
<1>3. GivenBack(r) = [i \in 1..Len(r) |-> [r[i] EXCEPT !.attempts = Back(@)]]
  BY <1>1 DEF GivenBack
<1>4. GivenBack(r) \in [1..Len(r) -> Job]
  BY <1>2, <1>3
<1>5. GivenBack(r) \in Seq(Job)
  BY <1>1, <1>4, SeqDef
<1>6. Len(GivenBack(r)) = Len(r)
  BY <1>1, <1>3, <1>5, LenProperties
<1> QED
  BY <1>2, <1>3, <1>5, <1>6

\* halt lets the running pass run on.
LEMMA HaltType ==
    ASSUME NEW q \in Queue
    PROVE  /\ Halt(q) \in Queue
           /\ Halt(q).running = q.running
           /\ Halt(q).halted
<1>1. CASE q.halted
  BY <1>1 DEF Halt, Queue
<1>2. CASE ~q.halted
  <2> DEFINE h == q.held \o GivenBack(q.running) \o q.pending
  <2>1. h \in Seq(Job)
    BY GivenBackType, ConcatProperties DEF Queue
  <2>2. Halt(q) = [q EXCEPT !.halted = TRUE, !.pending = <<>>,
                            !.cancel = (q.running # <<>>), !.held = h]
    BY <1>2 DEF Halt
  <2> HIDE DEF h
  <2> QED
    BY <2>1, <2>2, EmptySeq DEF Queue
<1> QED
  BY <1>1, <1>2

\* resume holds nothing back and lets the running pass run on.
LEMMA ResumeType ==
    ASSUME NEW q \in Queue
    PROVE  /\ Resume(q) \in Queue
           /\ Resume(q).running = q.running
           /\ Resume(q).held = <<>>
           /\ ~Resume(q).halted
<1> DEFINE p == Unheld(q.held) \o q.pending
<1>1. Unheld(q.held) \in Seq(Job)
  BY HeadTailProperties DEF Unheld, Queue
<1>2. p \in Seq(Job)
  BY <1>1, ConcatProperties DEF Queue
<1>3. Resume(q) = [q EXCEPT !.halted = FALSE, !.held = <<>>, !.pending = p]
  BY DEF Resume
<1> HIDE DEF p
<1> QED
  BY <1>2, <1>3, EmptySeq DEF Queue

\* discard_held touches only what is held.
LEMMA DiscardHeldType ==
    ASSUME NEW q \in Queue
    PROVE  /\ DiscardHeld(q) \in Queue
           /\ DiscardHeld(q).running = q.running
           /\ DiscardHeld(q).held = <<>>
           /\ DiscardHeld(q).halted = q.halted
BY EmptySeq DEF DiscardHeld, Queue

----------------------------------------------------------------------------
\* What is saved is a set of well-formed passes.
LEMMA FirstsType ==
    ASSUME NEW s \in Seq(Job)
    PROVE  Firsts(s) \subseteq Job
BY LenProperties, ElementOfSeq DEF Firsts, FirstPlaces

\* What snapshot saves.
LEMMA SnapshotType ==
    ASSUME NEW q \in Queue
    PROVE  Snapshot(q) \subseteq Job
<1>1. q.running \o q.pending \o q.held \in Seq(Job)
  BY ConcatProperties DEF Queue
<1> QED
  BY <1>1, FirstsType DEF Snapshot

\* What snapshot_for_quit saves.
LEMMA SnapshotForQuitType ==
    ASSUME NEW q \in Queue
    PROVE  SnapshotForQuit(q) \subseteq Job
<1>1. ASSUME NEW j \in Job
      PROVE  [j EXCEPT !.attempts = Back(@)] \in Job
  BY DEF Job, Back
<1> QED
  BY <1>1, SnapshotType DEF SnapshotForQuit

\* An entry of the same meeting right behind the first one changes nothing
\* that is saved.
LEMMA FirstsIgnoresRepeat ==
    ASSUME NEW s \in Seq(Job), NEW t \in Seq(Job),
           Len(t) = Len(s) + 1, s # <<>>,
           t[1] = s[1], t[2].meeting = s[1].meeting,
           \A i \in 2..Len(s) : t[i + 1] = s[i]
    PROVE  Firsts(t) = Firsts(s)
<1>1. /\ Len(s) \in Nat \ {0}
      /\ DOMAIN s = 1..Len(s)
      /\ DOMAIN t = 1..(Len(s) + 1)
  BY LenProperties, EmptySeq
<1>2. ASSUME NEW n \in FirstPlaces(s)
      PROVE  \E i \in FirstPlaces(t) : t[i] = s[n]
  <2>1. n \in 1..Len(s) /\ \A k \in 1..(n - 1) : s[k].meeting # s[n].meeting
    BY <1>1 DEF FirstPlaces
  <2>2. CASE n = 1
    <3>1. 1 \in FirstPlaces(t)
      BY <1>1 DEF FirstPlaces
    <3> QED
      BY <2>2, <3>1
  <2>3. CASE n # 1
    <3>1. n \in 2..Len(s) /\ t[n + 1] = s[n]
      BY <1>1, <2>1, <2>3
    <3>2. ASSUME NEW k \in 1..n
          PROVE  t[k].meeting # t[n + 1].meeting
      <4>1. CASE k = 1 \/ k = 2
        BY <2>1, <3>1, <4>1
      <4>2. CASE k \in 3..n
        <5>1. k - 1 \in 2..Len(s) /\ k - 1 \in 1..(n - 1) /\ (k - 1) + 1 = k
          BY <1>1, <2>1, <4>2
        <5>2. t[k] = s[k - 1]
          BY <5>1
        <5> QED
          BY <2>1, <3>1, <5>1, <5>2
      <4> QED
        BY <1>1, <2>1, <4>1, <4>2
    <3>3. n + 1 \in DOMAIN t /\ (n + 1) - 1 = n
      BY <1>1, <3>1
    <3>4. n + 1 \in FirstPlaces(t)
      BY <3>2, <3>3 DEF FirstPlaces
    <3> QED
      BY <3>1, <3>4
  <2> QED
    BY <2>2, <2>3
<1>3. ASSUME NEW n \in FirstPlaces(t)
      PROVE  \E i \in FirstPlaces(s) : s[i] = t[n]
  <2>1. n \in 1..(Len(s) + 1) /\ \A k \in 1..(n - 1) : t[k].meeting # t[n].meeting
    BY <1>1 DEF FirstPlaces
  <2>2. CASE n = 1
    <3>1. 1 \in FirstPlaces(s)
      BY <1>1 DEF FirstPlaces
    <3> QED
      BY <2>2, <3>1
  <2>3. CASE n = 2
    BY <2>1, <2>3
  <2>4. CASE n \in 3..(Len(s) + 1)
    <3>1. /\ n - 1 \in 2..Len(s) /\ n - 1 \in 1..Len(s) /\ (n - 1) + 1 = n
      BY <1>1, <2>4
    <3>2. t[n] = s[n - 1]
      BY <3>1
    <3>3. ASSUME NEW k \in 1..((n - 1) - 1)
          PROVE  s[k].meeting # s[n - 1].meeting
      <4>1. CASE k = 1
        BY <2>1, <2>4, <3>2, <4>1
      <4>2. CASE k # 1
        <5>1. k \in 2..Len(s) /\ k + 1 \in 1..(n - 1)
          BY <1>1, <2>4, <4>2
        <5>2. t[k + 1] = s[k]
          BY <5>1
        <5> QED
          BY <2>1, <3>2, <5>1, <5>2
      <4> QED
        BY <4>1, <4>2
    <3>4. n - 1 \in FirstPlaces(s)
      BY <1>1, <3>1, <3>3 DEF FirstPlaces
    <3> QED
      BY <3>2, <3>4
  <2> QED
    BY <1>1, <2>1, <2>2, <2>3, <2>4
<1> QED
  BY <1>2, <1>3 DEF Firsts

\* Halting the queue takes every pass off it and changes nothing that a save
\* would write: the stopped pass is still running and so still first.
LEMMA HaltKeepsSnapshot ==
    ASSUME NEW q \in Queue, Len(q.running) <= 1, ~q.halted, q.held = <<>>
    PROVE  Snapshot(Halt(q)) = Snapshot(q)
<1> DEFINE r == q.running
           p == q.pending
           g == GivenBack(r)
           s == r \o p \o <<>>
           t == r \o <<>> \o (<<>> \o g \o p)
<1>1. /\ r \in Seq(Job) /\ p \in Seq(Job) /\ g \in Seq(Job)
      /\ Len(g) = Len(r) /\ Len(r) \in 0..1 /\ Len(p) \in Nat
  <2>1. r \in Seq(Job) /\ p \in Seq(Job)
    BY DEF Queue
  <2>2. Len(r) \in Nat /\ Len(r) <= 1 /\ Len(p) \in Nat
    BY <2>1, LenProperties
  <2>3. g \in Seq(Job) /\ Len(g) = Len(r)
    BY <2>1, GivenBackType
  <2> HIDE DEF r, p, g
  <2> QED
    BY <2>1, <2>2, <2>3
<1>2. Snapshot(q) = Firsts(s)
  BY DEF Snapshot
<1>3. Snapshot(Halt(q)) = Firsts(t)
  <2>1. /\ Halt(q).running = r
        /\ Halt(q).pending = <<>>
        /\ Halt(q).held = q.held \o g \o p
    BY DEF Halt, Queue
  <2> QED
    BY <2>1 DEF Snapshot
<1>4. s = r \o p /\ t = r \o (g \o p)
  BY <1>1, ConcatEmptySeq, ConcatProperties
<1>5. CASE r = <<>>
  <2>1. Len(g) = 0
    BY <1>1, <1>5, EmptySeq
  <2>2. g = <<>>
    BY <1>1, <2>1, EmptySeq
  <2> QED
    BY <1>1, <1>2, <1>3, <1>4, <1>5, <2>2, ConcatEmptySeq, ConcatProperties
<1>6. CASE r # <<>>
  <2>1. Len(r) = 1 /\ Len(g) = 1
    BY <1>1, <1>6, EmptySeq
  <2>2. g[1].meeting = r[1].meeting
    BY <1>1, <2>1, GivenBackType
  <2> HIDE DEF r, p, g
  <2>3. /\ g \o p \in Seq(Job) /\ Len(g \o p) = 1 + Len(p)
        /\ (g \o p)[1] = g[1]
        /\ \A i \in 1..Len(p) : (g \o p)[i + 1] = p[i]
    BY <1>1, <2>1, ConcatProperties
  <2>4. /\ r \o p \in Seq(Job) /\ Len(r \o p) = 1 + Len(p)
        /\ (r \o p)[1] = r[1]
        /\ \A i \in 1..Len(p) : (r \o p)[i + 1] = p[i]
    BY <1>1, <2>1, ConcatProperties
  <2> DEFINE u == g \o p
  <2>5. /\ r \o u \in Seq(Job) /\ Len(r \o u) = 2 + Len(p)
        /\ (r \o u)[1] = r[1]
        /\ \A i \in 1..(Len(p) + 1) : (r \o u)[i + 1] = u[i]
    <3>1. u \in Seq(Job) /\ Len(u) = 1 + Len(p)
      BY <2>3
    <3> HIDE DEF u, s, t
    <3>2. /\ r \o u \in Seq(Job)
          /\ Len(r \o u) = Len(r) + Len(u)
          /\ \A i \in 1..(Len(r) + Len(u)) :
                (r \o u)[i] = IF i <= Len(r) THEN r[i] ELSE u[i - Len(r)]
      BY <1>1, <3>1, ConcatProperties
    <3> QED
      BY <1>1, <2>1, <3>1, <3>2
  <2>6. /\ t \in Seq(Job) /\ s \in Seq(Job)
        /\ Len(t) = Len(s) + 1
        /\ t[1] = s[1] /\ t[2] = g[1] /\ s[1] = r[1]
    BY <1>1, <1>4, <2>3, <2>4, <2>5
  <2>7. ASSUME NEW i \in 2..Len(s)
        PROVE  t[i + 1] = s[i]
    <3>1. i - 1 \in 1..Len(p) /\ i \in 1..(Len(p) + 1) /\ (i - 1) + 1 = i
      BY <1>1, <1>4, <2>4
    <3>2. s[i] = p[i - 1] /\ u[i] = p[i - 1]
      BY <1>4, <2>3, <2>4, <3>1
    <3>3. t[i + 1] = u[i]
      BY <1>4, <2>5, <3>1
    <3> QED
      BY <3>2, <3>3
  <2>8. s # <<>>
    BY <1>1, <1>4, <2>4, <2>6, EmptySeq
  <2> HIDE DEF s, t
  <2> QED
    BY <1>2, <1>3, <2>2, <2>6, <2>7, <2>8, FirstsIgnoresRepeat
<1> QED
  BY <1>5, <1>6

----------------------------------------------------------------------------
(***************************************************************************)
(* Every method keeps the queue's shape: one entry per meeting waiting,    *)
(* and passes held only under a halt, distinct but for the first.          *)
(***************************************************************************)
Shaped(q) == PendingDistinct(q) /\ HeldShape(q)

\* Distinct, by places.
LEMMA DistinctPlaces ==
    ASSUME NEW s \in Seq(Job)
    PROVE  Distinct(s) <=> \A i, k \in 1..Len(s) : s[i].meeting = s[k].meeting => i = k
BY LenProperties DEF Distinct

\* Nothing is repeated in nothing,
LEMMA EmptyDistinct == Distinct(<<>>)
<1>1. DOMAIN <<>> = {}
  OBVIOUS
<1> QED
  BY <1>1 DEF Distinct

\* nor in the tail of what repeats nothing.
LEMMA TailDistinct ==
    ASSUME NEW s \in Seq(Job), s # <<>>, Distinct(s)
    PROVE  Distinct(Tail(s))
<1>1. /\ Tail(s) \in Seq(Job) /\ Len(Tail(s)) = Len(s) - 1 /\ Len(s) \in Nat
      /\ \A i \in 1..Len(Tail(s)) : Tail(s)[i] = s[i + 1]
  BY HeadTailProperties, LenProperties
<1>2. ASSUME NEW i \in 1..Len(Tail(s)), NEW k \in 1..Len(Tail(s)),
             Tail(s)[i].meeting = Tail(s)[k].meeting
      PROVE  i = k
  <2>1. i + 1 \in 1..Len(s) /\ k + 1 \in 1..Len(s)
    BY <1>1
  <2>2. s[i + 1].meeting = s[k + 1].meeting
    BY <1>1, <1>2
  <2>3. i + 1 = k + 1
    BY <2>1, <2>2, DistinctPlaces
  <2> QED
    BY <1>1, <2>3
<1> QED
  BY <1>1, <1>2, DistinctPlaces

\* push keeps one entry per meeting: a meeting already pending is upgraded in place.
LEMMA PushShaped ==
    ASSUME NEW q \in Queue, NEW j \in Job, Shaped(q)
    PROVE  Shaped(Push(q, j))
<1>0. q.pending \in Seq(Job) /\ Len(q.pending) \in Nat
  BY LenProperties DEF Queue
<1>1. CASE q.halted
  BY <1>1 DEF Push
<1>2. CASE ~q.halted /\ Has(q.pending, j.meeting)
  <2> DEFINE p == Place(q.pending, j.meeting)
             e == [q.pending[p] EXCEPT
                     !.kind = IF Rank[j.kind] > Rank[@] THEN j.kind ELSE @]
             s == [q.pending EXCEPT ![p] = e]
  <2>1. p \in 1..Len(q.pending)
    BY <1>0, <1>2, PlaceInDomain
  <2>2. q.pending[p] \in Job
    BY <1>0, <2>1, ElementOfSeq
  <2>3. e.meeting = q.pending[p].meeting /\ DOMAIN e = {"meeting", "kind", "attempts"}
    BY <2>2 DEF Job
  <2>4. Push(q, j) = [q EXCEPT !.pending = s]
    BY <1>2 DEF Push, Queue
  <2>5. Push(q, j).pending = s /\ Push(q, j).held = q.held /\ Push(q, j).halted = q.halted
    BY <2>4 DEF Queue
  <2> HIDE DEF e, p
  <2>6. \A i \in 1..Len(q.pending) : s[i].meeting = q.pending[i].meeting
    BY <1>0, <2>1, <2>3, LenProperties
  <2>7. DOMAIN s = 1..Len(q.pending)
    BY <1>0, LenProperties
  <2>8. Distinct(s)
    BY <1>0, <2>6, <2>7, DistinctPlaces DEF Distinct, Shaped, PendingDistinct
  <2> HIDE DEF s
  <2> QED
    BY <1>2, <2>5, <2>8 DEF Shaped, PendingDistinct, HeldShape
<1>3. CASE ~q.halted /\ ~Has(q.pending, j.meeting)
  <2> DEFINE s == Append(q.pending, j)
  <2>1. /\ s \in Seq(Job) /\ Len(s) = Len(q.pending) + 1
        /\ \A i \in 1..Len(q.pending) : s[i] = q.pending[i]
        /\ s[Len(q.pending) + 1] = j
    BY <1>0, AppendProperties
  <2>2. \A i \in 1..Len(q.pending) : q.pending[i].meeting # j.meeting
    BY <1>0, <1>3, LenProperties DEF Has
  <2>3. Push(q, j) = [q EXCEPT !.pending = s]
    BY <1>3 DEF Push
  <2>4. Push(q, j).pending = s /\ Push(q, j).held = q.held /\ Push(q, j).halted = q.halted
    BY <2>3 DEF Queue
  <2> HIDE DEF s
  <2>5. ASSUME NEW i \in 1..Len(s), NEW k \in 1..Len(s), s[i].meeting = s[k].meeting
        PROVE  i = k
    <3>1. CASE i <= Len(q.pending) /\ k <= Len(q.pending)
      <4>1. i \in 1..Len(q.pending) /\ k \in 1..Len(q.pending)
        BY <3>1
      <4>2. q.pending[i].meeting = q.pending[k].meeting
        BY <2>1, <2>5, <4>1
      <4> QED
        BY <1>0, <4>1, <4>2, DistinctPlaces DEF Shaped, PendingDistinct
    <3>2. CASE i <= Len(q.pending) /\ ~(k <= Len(q.pending))
      <4>1. i \in 1..Len(q.pending) /\ k = Len(q.pending) + 1
        BY <1>0, <2>1, <3>2
      <4> QED
        BY <2>1, <2>2, <2>5, <4>1
    <3>3. CASE ~(i <= Len(q.pending)) /\ k <= Len(q.pending)
      <4>1. k \in 1..Len(q.pending) /\ i = Len(q.pending) + 1
        BY <1>0, <2>1, <3>3
      <4> QED
        BY <2>1, <2>2, <2>5, <4>1
    <3>4. CASE ~(i <= Len(q.pending)) /\ ~(k <= Len(q.pending))
      BY <1>0, <2>1, <3>4
    <3> QED
      BY <3>1, <3>2, <3>3, <3>4
  <2>6. Distinct(s)
    BY <2>1, <2>5, DistinctPlaces
  <2> QED
    BY <1>3, <2>4, <2>6 DEF Shaped, PendingDistinct, HeldShape
<1> QED
  BY <1>1, <1>2, <1>3

\* next takes the first entry.
LEMMA StartShaped ==
    ASSUME NEW q \in Queue, Shaped(q), CanStart(q)
    PROVE  Shaped(Start(q))
<1>1. /\ Start(q).pending = Tail(q.pending)
      /\ Start(q).held = q.held /\ Start(q).halted = q.halted
  BY DEF Start, Queue
<1>2. Distinct(Tail(q.pending)) /\ ~q.halted
  BY TailDistinct DEF Shaped, PendingDistinct, CanStart, Queue
<1> QED
  BY <1>1, <1>2 DEF Shaped, PendingDistinct, HeldShape

\* finish leaves what is pending and held alone.
LEMMA FinishShaped ==
    ASSUME NEW q \in Queue, Shaped(q)
    PROVE  Shaped(Finish(q))
BY DEF Finish, Queue, Shaped, PendingDistinct, HeldShape

\* remove_pending moves the later entries up and repeats none.
LEMMA RemovePendingShaped ==
    ASSUME NEW q \in Queue, NEW m, Shaped(q)
    PROVE  Shaped(RemovePending(q, m))
<1>0. q.pending \in Seq(Job) /\ Len(q.pending) \in Nat
  BY LenProperties DEF Queue
<1>1. CASE Has(q.pending, m)
  <2> DEFINE p == Place(q.pending, m)
             s == RemoveAt(q.pending, p)
  <2>1. p \in 1..Len(q.pending)
    BY <1>0, <1>1, PlaceInDomain
  <2>2. RemovePending(q, m) = [q EXCEPT !.pending = s]
    BY <1>1 DEF RemovePending
  <2> HIDE DEF p
  <2>3. /\ s \in Seq(Job) /\ Len(s) = Len(q.pending) - 1
        /\ \A k \in 1..(Len(q.pending) - 1) :
              s[k] = IF k < p THEN q.pending[k] ELSE q.pending[k + 1]
    BY <1>0, <2>1, RemoveAtType
  <2> HIDE DEF s
  <2>4. /\ RemovePending(q, m).pending = s
        /\ RemovePending(q, m).held = q.held /\ RemovePending(q, m).halted = q.halted
    BY <2>2 DEF Queue
  <2>5. ASSUME NEW i \in 1..Len(s), NEW k \in 1..Len(s), s[i].meeting = s[k].meeting
        PROVE  i = k
    <3> DEFINE f(x) == IF x < p THEN x ELSE x + 1
    <3>1. /\ f(i) \in 1..Len(q.pending) /\ f(k) \in 1..Len(q.pending)
          /\ s[i] = q.pending[f(i)] /\ s[k] = q.pending[f(k)]
      BY <1>0, <2>1, <2>3
    <3>2. f(i) = f(k)
      <4> HIDE DEF f
      <4> QED
        BY <1>0, <2>5, <3>1, DistinctPlaces DEF Shaped, PendingDistinct
    <3> QED
      BY <1>0, <2>1, <2>3, <3>2
  <2>6. Distinct(s)
    BY <2>3, <2>5, DistinctPlaces
  <2>7. q.pending # <<>>
    BY <1>0, <2>1, EmptySeq
  <2> QED
    BY <2>4, <2>6, <2>7 DEF Shaped, PendingDistinct, HeldShape
<1>2. CASE ~Has(q.pending, m)
  BY <1>2 DEF RemovePending
<1> QED
  BY <1>1, <1>2

\* halt: of what is held only the pass that was running can share its meeting.
LEMMA HaltShaped ==
    ASSUME NEW q \in Queue, Len(q.running) <= 1, Shaped(q)
    PROVE  Shaped(Halt(q))
<1>1. CASE q.halted
  BY <1>1 DEF Halt, Queue, Shaped, PendingDistinct, HeldShape
<1>2. CASE ~q.halted
  <2> DEFINE g == GivenBack(q.running)
             h == q.held \o g \o q.pending
  <2>1. /\ Halt(q).pending = <<>> /\ Halt(q).halted /\ Halt(q).held = h
    BY <1>2 DEF Halt, Queue
  <2>2. /\ g \in Seq(Job) /\ q.pending \in Seq(Job) /\ q.held = <<>>
        /\ Len(g) \in Nat /\ Len(g) <= 1 /\ Len(q.pending) \in Nat
    BY <1>2, GivenBackType, LenProperties DEF Queue, Shaped, HeldShape
  <2>3. h = g \o q.pending
    BY <2>2, ConcatEmptySeq
  <2>4. Distinct(q.pending)
    BY DEF Shaped, PendingDistinct
  <2>5. ASSUME h # <<>> PROVE Distinct(Tail(h))
    <3>1. CASE Len(g) = 0
      <4>1. h = q.pending
        BY <2>2, <2>3, <3>1, EmptySeq, ConcatEmptySeq
      <4> QED
        BY <2>2, <2>4, <2>5, <4>1, TailDistinct
    <3>2. CASE Len(g) = 1
      <4> HIDE DEF g
      <4>1. /\ h \in Seq(Job) /\ Len(h) = 1 + Len(q.pending)
            /\ \A i \in 1..Len(q.pending) : h[i + 1] = q.pending[i]
        BY <2>2, <2>3, <3>2, ConcatProperties
      <4> HIDE DEF h
      <4>2. /\ Tail(h) \in Seq(Job) /\ Len(Tail(h)) = Len(q.pending)
            /\ \A i \in 1..Len(q.pending) : Tail(h)[i] = h[i + 1]
        BY <2>2, <2>5, <4>1, HeadTailProperties
      <4>3. Tail(h) = q.pending
        BY <2>2, <4>1, <4>2, SeqEqual
      <4> QED
        BY <2>4, <4>3
    <3>3. Len(g) = 0 \/ Len(g) = 1
      <4> HIDE DEF g
      <4> QED
        BY <2>2
    <3> QED
      BY <3>1, <3>2, <3>3
  <2> HIDE DEF h
  <2> QED
    BY <2>1, <2>5, EmptyDistinct DEF Shaped, PendingDistinct, HeldShape
<1> QED
  BY <1>1, <1>2

\* What a resume puts back holds each meeting once.
LEMMA UnheldDistinct ==
    ASSUME NEW h \in Seq(Job), h # <<>> => Distinct(Tail(h))
    PROVE  Distinct(Unheld(h)) /\ Unheld(h) \in Seq(Job)
<1>1. CASE h = <<>>
  BY <1>1, EmptyDistinct DEF Unheld
<1>2. CASE h # <<>> /\ Has(Tail(h), Head(h).meeting)
  BY <1>2, HeadTailProperties DEF Unheld
<1>3. CASE h # <<>> /\ ~Has(Tail(h), Head(h).meeting)
  <2>1. /\ Tail(h) \in Seq(Job) /\ Len(Tail(h)) = Len(h) - 1 /\ Len(h) \in Nat \ {0}
        /\ \A i \in 1..Len(Tail(h)) : Tail(h)[i] = h[i + 1]
        /\ Head(h) = h[1]
    BY <1>3, HeadTailProperties, LenProperties, EmptySeq
  <2>2. \A i \in 1..Len(Tail(h)) : Tail(h)[i].meeting # h[1].meeting
    BY <1>3, <2>1, LenProperties DEF Has
  <2>3. ASSUME NEW i \in 2..Len(h)
        PROVE  i - 1 \in 1..Len(Tail(h)) /\ Tail(h)[i - 1] = h[i]
    BY <2>1
  <2>4. ASSUME NEW i \in 1..Len(h), NEW k \in 1..Len(h), h[i].meeting = h[k].meeting
        PROVE  i = k
    <3>1. CASE i = 1 /\ k # 1
      <4>1. k \in 2..Len(h)
        BY <2>1, <3>1
      <4> QED
        BY <2>2, <2>3, <2>4, <3>1, <4>1
    <3>2. CASE i # 1 /\ k = 1
      <4>1. i \in 2..Len(h)
        BY <2>1, <3>2
      <4> QED
        BY <2>2, <2>3, <2>4, <3>2, <4>1
    <3>3. CASE i # 1 /\ k # 1
      <4>1. i \in 2..Len(h) /\ k \in 2..Len(h)
        BY <2>1, <3>3
      <4>2. /\ i - 1 \in 1..Len(Tail(h)) /\ Tail(h)[i - 1] = h[i]
            /\ k - 1 \in 1..Len(Tail(h)) /\ Tail(h)[k - 1] = h[k]
        BY <2>3, <4>1
      <4>3. Tail(h)[i - 1].meeting = Tail(h)[k - 1].meeting
        BY <2>4, <4>2
      <4>4. Distinct(Tail(h))
        BY <1>3
      <4>5. i - 1 = k - 1
        BY <2>1, <4>2, <4>3, <4>4, DistinctPlaces
      <4> QED
        BY <4>1, <4>5
    <3> QED
      BY <3>1, <3>2, <3>3
  <2>5. Distinct(h)
    BY <2>4, DistinctPlaces
  <2> QED
    BY <1>3, <2>5 DEF Unheld
<1> QED
  BY <1>1, <1>2, <1>3

\* resume puts back one entry per meeting, nothing being pending under a halt.
LEMMA ResumeShaped ==
    ASSUME NEW q \in Queue, Shaped(q), q.halted
    PROVE  Shaped(Resume(q))
<1> DEFINE u == Unheld(q.held)
<1>1. u \in Seq(Job) /\ Distinct(u)
  BY UnheldDistinct DEF Queue, Shaped, HeldShape
<1>2. q.pending = <<>>
  BY DEF Shaped, HeldShape
<1>3. Resume(q) = [q EXCEPT !.halted = FALSE, !.held = <<>>, !.pending = u \o q.pending]
  BY DEF Resume
<1> HIDE DEF u
<1>4. u \o q.pending = u
  BY <1>1, <1>2, ConcatEmptySeq
<1>5. /\ Resume(q).pending = u /\ Resume(q).held = <<>> /\ ~Resume(q).halted
  BY <1>3, <1>4 DEF Queue
<1> QED
  BY <1>1, <1>5 DEF Shaped, PendingDistinct, HeldShape

\* discard_held leaves what is pending alone.
LEMMA DiscardHeldShaped ==
    ASSUME NEW q \in Queue, Shaped(q)
    PROVE  Shaped(DiscardHeld(q))
BY DEF DiscardHeld, Queue, Shaped, PendingDistinct, HeldShape

----------------------------------------------------------------------------
(***************************************************************************)
(* Who is in the queue: a meeting is among the unfinished exactly if it is *)
(* running, waiting or held, and no method loses one but those that are    *)
(* meant to.                                                               *)
(***************************************************************************)
InQueue(q, m) == Has(q.running, m) \/ Has(q.pending, m) \/ Has(q.held, m)

\* A set of numbers that is not empty has a least one.
LEMMA LeastOne ==
    ASSUME NEW T, T \subseteq Nat, T # {}
    PROVE  \E x \in T : \A y \in T : x <= y
<1> DEFINE R == OpToRel(<, Nat)
<1>1. IsWellFoundedOn(R, Nat)
  BY NatLessThanWellFounded
<1>2. \A x, y \in Nat : y < x => <<y, x>> \in R
  BY DEF OpToRel
<1> HIDE DEF R
<1>3. PICK x \in T : \A y \in T : ~(<<y, x>> \in R)
  BY <1>1, WFMin, Zenon
<1>4. \A y \in T : x \in Nat /\ y \in Nat /\ ~(y < x)
  BY <1>2, <1>3
<1>5. \A y \in T : x <= y
  BY <1>4
<1> QED
  BY <1>3, <1>5

\* The first passes are those of every meeting there is one of.
LEMMA FirstsOfAll ==
    ASSUME NEW s \in Seq(Job), NEW m
    PROVE  m \in MeetingsOf(Firsts(s)) <=> Has(s, m)
<1>1. DOMAIN s = 1..Len(s) /\ Len(s) \in Nat
  BY LenProperties
<1>2. m \in MeetingsOf(Firsts(s)) => Has(s, m)
  BY DEF MeetingsOf, Firsts, FirstPlaces, Has
<1>3. ASSUME Has(s, m)
      PROVE  m \in MeetingsOf(Firsts(s))
  <2> DEFINE T == {i \in 1..Len(s) : s[i].meeting = m}
  <2>1. T \subseteq Nat /\ T # {}
    BY <1>1, <1>3 DEF Has
  <2>2. PICK n \in T : \A k \in T : n <= k
    BY <2>1, LeastOne
  <2>3. \A k \in 1..(n - 1) : s[k].meeting # m
    BY <1>1, <2>2
  <2>4. n \in FirstPlaces(s) /\ s[n].meeting = m
    BY <1>1, <2>2, <2>3 DEF FirstPlaces
  <2> QED
    BY <2>4 DEF MeetingsOf, Firsts
<1> QED
  BY <1>2, <1>3

\* Who is in either part is in both together.
LEMMA HasConcat ==
    ASSUME NEW s \in Seq(Job), NEW t \in Seq(Job), NEW m
    PROVE  Has(s \o t, m) <=> Has(s, m) \/ Has(t, m)
<1> DEFINE u == s \o t
<1>1. /\ u \in Seq(Job) /\ Len(u) = Len(s) + Len(t)
      /\ \A i \in 1..(Len(s) + Len(t)) :
            u[i] = IF i <= Len(s) THEN s[i] ELSE t[i - Len(s)]
  BY ConcatProperties
<1>2. /\ DOMAIN s = 1..Len(s) /\ DOMAIN t = 1..Len(t) /\ DOMAIN u = 1..Len(u)
      /\ Len(s) \in Nat /\ Len(t) \in Nat
  BY <1>1, LenProperties
<1> HIDE DEF u
<1>3. ASSUME NEW i \in 1..Len(s), s[i].meeting = m
      PROVE  Has(u, m)
  <2>1. i \in 1..Len(u) /\ u[i] = s[i]
    BY <1>1, <1>2
  <2> QED
    BY <1>2, <1>3, <2>1 DEF Has
<1>4. ASSUME NEW i \in 1..Len(t), t[i].meeting = m
      PROVE  Has(u, m)
  <2> DEFINE k == Len(s) + i
  <2>1. k \in 1..(Len(s) + Len(t)) /\ ~(k <= Len(s)) /\ k - Len(s) = i
    BY <1>2
  <2> HIDE DEF k
  <2>2. k \in 1..Len(u) /\ u[k] = t[i]
    BY <1>1, <2>1
  <2> QED
    BY <1>2, <1>4, <2>2 DEF Has
<1>5. ASSUME NEW i \in 1..Len(u), u[i].meeting = m
      PROVE  Has(s, m) \/ Has(t, m)
  <2>1. CASE i <= Len(s)
    <3>1. i \in 1..Len(s) /\ s[i] = u[i]
      BY <1>1, <1>2, <2>1
    <3> QED
      BY <1>2, <1>5, <3>1 DEF Has
  <2>2. CASE ~(i <= Len(s))
    <3>1. i - Len(s) \in 1..Len(t) /\ t[i - Len(s)] = u[i]
      BY <1>1, <1>2, <2>2
    <3> QED
      BY <1>2, <1>5, <3>1 DEF Has
  <2> QED
    BY <2>1, <2>2
<1>6. Has(s, m) => Has(u, m)
  BY <1>2, <1>3 DEF Has
<1>7. Has(t, m) => Has(u, m)
  BY <1>2, <1>4 DEF Has
<1>8. Has(u, m) => Has(s, m) \/ Has(t, m)
  BY <1>2, <1>5 DEF Has
<1>9. Has(u, m) <=> Has(s, m) \/ Has(t, m)
  BY <1>6, <1>7, <1>8
<1> QED
  BY <1>9 DEF u

\* snapshot tells of every meeting in the queue, and of no other.
LEMMA UnfinishedIsInQueue ==
    ASSUME NEW q \in Queue, NEW m
    PROVE  m \in Unfinished(q) <=> InQueue(q, m)
<1>1. q.running \in Seq(Job) /\ q.pending \in Seq(Job) /\ q.held \in Seq(Job)
  BY DEF Queue
<1> DEFINE rp == q.running \o q.pending
<1>2. rp \in Seq(Job) /\ rp \o q.held \in Seq(Job)
  BY <1>1, ConcatProperties
<1>3. m \in Unfinished(q) <=> Has(rp \o q.held, m)
  BY <1>2, FirstsOfAll DEF Unfinished, Snapshot
<1>4. Has(rp, m) <=> Has(q.running, m) \/ Has(q.pending, m)
  BY <1>1, HasConcat
<1> HIDE DEF rp
<1>5. Has(rp \o q.held, m) <=> Has(rp, m) \/ Has(q.held, m)
  BY <1>1, <1>2, HasConcat
<1> QED
  BY <1>3, <1>4, <1>5 DEF InQueue

\* The first pass and the rest have the meetings of all.
LEMMA HasHeadTail ==
    ASSUME NEW s \in Seq(Job), s # <<>>, NEW m
    PROVE  Has(s, m) <=> Head(s).meeting = m \/ Has(Tail(s), m)
<1>1. /\ DOMAIN s = 1..Len(s) /\ Len(s) \in Nat /\ Len(s) # 0
      /\ Tail(s) \in Seq(Job) /\ Len(Tail(s)) = Len(s) - 1
      /\ Head(s) = s[1]
      /\ \A i \in 1..(Len(s) - 1) : Tail(s)[i] = s[i + 1]
      /\ DOMAIN Tail(s) = 1..(Len(s) - 1)
  BY HeadTailProperties, LenProperties, EmptySeq
<1>2. ASSUME NEW i \in 1..Len(s), s[i].meeting = m, i # 1
      PROVE  Has(Tail(s), m)
  <2>1. i - 1 \in 1..(Len(s) - 1) /\ (i - 1) + 1 = i
    BY <1>1, <1>2
  <2>2. Tail(s)[i - 1].meeting = m
    BY <1>1, <1>2, <2>1
  <2> QED
    BY <1>1, <2>1, <2>2 DEF Has
<1>3. ASSUME NEW i \in 1..(Len(s) - 1), Tail(s)[i].meeting = m
      PROVE  Has(s, m)
  <2>1. i + 1 \in 1..Len(s) /\ s[i + 1].meeting = m
    BY <1>1, <1>3
  <2> QED
    BY <1>1, <2>1 DEF Has
<1>4. Head(s).meeting = m => Has(s, m)
  <2>1. 1 \in 1..Len(s)
    BY <1>1
  <2> QED
    BY <1>1, <2>1 DEF Has
<1>5. Has(s, m) => Head(s).meeting = m \/ Has(Tail(s), m)
  BY <1>1, <1>2 DEF Has
<1>6. Has(Tail(s), m) => Has(s, m)
  BY <1>1, <1>3 DEF Has
<1> QED
  BY <1>4, <1>5, <1>6

\* push loses no one.
LEMMA PushKeeps ==
    ASSUME NEW q \in Queue, NEW j \in Job, NEW m, InQueue(q, m)
    PROVE  InQueue(Push(q, j), m)
<1>1. Push(q, j).running = q.running /\ Push(q, j).held = q.held
  BY PushType
<1>2. ASSUME Has(q.pending, m)
      PROVE  Has(Push(q, j).pending, m)
  <2>1. q.pending \in Seq(Job) /\ DOMAIN q.pending = 1..Len(q.pending)
    BY LenProperties DEF Queue
  <2>2. CASE q.halted
    BY <1>2, <2>2 DEF Push
  <2>3. CASE ~q.halted /\ Has(q.pending, j.meeting)
    <3> DEFINE p == Place(q.pending, j.meeting)
               old == q.pending[p]
               e == [old EXCEPT !.kind = IF Rank[j.kind] > Rank[old.kind] THEN j.kind ELSE old.kind]
    <3>1. p \in 1..Len(q.pending)
      BY <2>1, <2>3, PlaceInDomain
    <3>2. old \in Job
      BY <2>1, <3>1, ElementOfSeq
    <3>3. e.meeting = old.meeting
      BY <3>2 DEF Job
    <3>4. Push(q, j).pending = [q.pending EXCEPT ![p] = e]
      BY <2>3 DEF Push, Queue
    <3> HIDE DEF e
    <3>5. /\ DOMAIN Push(q, j).pending = DOMAIN q.pending
          /\ \A i \in DOMAIN q.pending :
                Push(q, j).pending[i].meeting = q.pending[i].meeting
      BY <3>3, <3>4
    <3> QED
      BY <1>2, <3>5 DEF Has
  <2>4. CASE ~q.halted /\ ~Has(q.pending, j.meeting)
    <3>1. Push(q, j).pending = Append(q.pending, j)
      BY <2>4 DEF Push, Queue
    <3>2. \A i \in 1..Len(q.pending) : /\ i \in DOMAIN Append(q.pending, j)
                                       /\ Append(q.pending, j)[i] = q.pending[i]
      BY <2>1, AppendProperties, LenProperties
    <3> QED
      BY <1>2, <2>1, <3>1, <3>2 DEF Has
  <2> QED
    BY <2>2, <2>3, <2>4
<1> QED
  BY <1>1, <1>2 DEF InQueue

\* remove_pending loses only whom it is told to.
LEMMA RemovePendingKeeps ==
    ASSUME NEW q \in Queue, NEW x, NEW m, m # x, InQueue(q, m)
    PROVE  InQueue(RemovePending(q, x), m)
<1>1. RemovePending(q, x).running = q.running /\ RemovePending(q, x).held = q.held
  BY RemovePendingType
<1>2. ASSUME Has(q.pending, m)
      PROVE  Has(RemovePending(q, x).pending, m)
  <2>1. q.pending \in Seq(Job) /\ DOMAIN q.pending = 1..Len(q.pending) /\ Len(q.pending) \in Nat
    BY LenProperties DEF Queue
  <2>2. CASE ~Has(q.pending, x)
    BY <1>2, <2>2 DEF RemovePending
  <2>3. CASE Has(q.pending, x)
    <3> DEFINE p == Place(q.pending, x)
               s == RemoveAt(q.pending, p)
    <3>1. p \in 1..Len(q.pending) /\ q.pending[p].meeting = x
      BY <2>1, <2>3, PlaceInDomain
    <3>2. /\ s \in Seq(Job) /\ Len(s) = Len(q.pending) - 1
          /\ \A k \in 1..(Len(q.pending) - 1) :
                s[k] = IF k < p THEN q.pending[k] ELSE q.pending[k + 1]
      BY <2>1, <3>1, RemoveAtType
    <3>3. DOMAIN s = 1..(Len(q.pending) - 1)
      BY <3>2, LenProperties
    <3>4. RemovePending(q, x).pending = s
      BY <2>3 DEF RemovePending, Queue
    <3> HIDE DEF p, s
    <3>5. PICK i \in 1..Len(q.pending) : q.pending[i].meeting = m
      BY <1>2, <2>1 DEF Has
    <3>6. i # p
      BY <3>1, <3>5
    <3>7. CASE i < p
      <4>1. i \in 1..(Len(q.pending) - 1) /\ s[i] = q.pending[i]
        BY <2>1, <3>1, <3>2, <3>7
      <4> QED
        BY <3>3, <3>4, <3>5, <4>1 DEF Has
    <3>8. CASE i > p
      <4>1. i - 1 \in 1..(Len(q.pending) - 1) /\ ~(i - 1 < p) /\ (i - 1) + 1 = i
        BY <2>1, <3>1, <3>8
      <4>2. s[i - 1] = q.pending[i]
        BY <3>2, <4>1
      <4> QED
        BY <3>3, <3>4, <3>5, <4>1, <4>2 DEF Has
    <3> QED
      BY <2>1, <3>1, <3>6, <3>7, <3>8
  <2> QED
    BY <2>2, <2>3
<1> QED
  BY <1>1, <1>2 DEF InQueue

\* next loses no one, if nothing runs.
LEMMA StartKeeps ==
    ASSUME NEW q \in Queue, CanStart(q), q.running = <<>>, NEW m, InQueue(q, m)
    PROVE  InQueue(Start(q), m)
<1>1. q.pending \in Seq(Job) /\ q.pending # <<>>
  BY DEF CanStart, Queue
<1>2. Head(q.pending) \in Job
  BY <1>1, HeadTailProperties
<1> DEFINE j == [Head(q.pending) EXCEPT !.attempts = @ + 1]
<1>3. j.meeting = Head(q.pending).meeting
  BY <1>2 DEF Job
<1>4. /\ Start(q).running = <<j>> /\ Start(q).pending = Tail(q.pending)
      /\ Start(q).held = q.held
  BY DEF Start, Queue
<1> HIDE DEF j
<1>5. Head(q.pending).meeting = m => Has(<<j>>, m)
  BY <1>3 DEF Has
<1>6. ~Has(q.running, m)
  BY EmptySeq DEF Has
<1> QED
  BY <1>1, <1>4, <1>5, <1>6, HasHeadTail DEF InQueue

\* The end of a pass loses only whom it was for.
LEMMA FinishKeeps ==
    ASSUME NEW q \in Queue, NEW m, InQueue(q, m), ~Has(q.running, m)
    PROVE  InQueue(Finish(q), m)
<1>1. Finish(q).pending = q.pending /\ Finish(q).held = q.held
  BY DEF Finish, Queue
<1> QED
  BY <1>1 DEF InQueue

\* halt loses no one: who was waiting is held.
LEMMA HaltKeeps ==
    ASSUME NEW q \in Queue, NEW m, InQueue(q, m)
    PROVE  InQueue(Halt(q), m)
<1>1. CASE q.halted
  <2>1. /\ Halt(q).running = q.running /\ Halt(q).pending = q.pending
        /\ Halt(q).held = q.held
    BY <1>1 DEF Halt, Queue
  <2> QED
    BY <2>1 DEF InQueue
<1>2. CASE ~q.halted
  <2> DEFINE g == GivenBack(q.running)
             hg == q.held \o g
             h == hg \o q.pending
  <2>1. q.held \in Seq(Job) /\ g \in Seq(Job) /\ q.pending \in Seq(Job)
    BY GivenBackType DEF Queue
  <2>2. hg \in Seq(Job)
    BY <2>1, ConcatProperties
  <2>3. Halt(q).running = q.running /\ Halt(q).held = h
    BY <1>2 DEF Halt, Queue
  <2>4. Has(hg, m) <=> Has(q.held, m) \/ Has(g, m)
    BY <2>1, HasConcat
  <2> HIDE DEF hg
  <2>5. Has(h, m) <=> Has(hg, m) \/ Has(q.pending, m)
    BY <2>1, <2>2, HasConcat
  <2> QED
    BY <2>3, <2>4, <2>5 DEF InQueue
<1> QED
  BY <1>1, <1>2

\* resume loses no one: who was held is waiting.
LEMMA ResumeKeeps ==
    ASSUME NEW q \in Queue, NEW m, InQueue(q, m)
    PROVE  InQueue(Resume(q), m)
<1>1. q.held \in Seq(Job) /\ q.pending \in Seq(Job)
  BY DEF Queue
<1> DEFINE u == Unheld(q.held)
<1>2. u \in Seq(Job)
  BY <1>1, HeadTailProperties DEF Unheld
<1>3. Has(q.held, m) => Has(u, m)
  <2>1. CASE q.held # <<>> /\ Has(Tail(q.held), Head(q.held).meeting)
    <3>1. u = Tail(q.held)
      BY <2>1 DEF Unheld
    <3>2. Has(q.held, m) <=> Head(q.held).meeting = m \/ Has(Tail(q.held), m)
      BY <1>1, <2>1, HasHeadTail
    <3> QED
      BY <2>1, <3>1, <3>2
  <2>2. CASE ~(q.held # <<>> /\ Has(Tail(q.held), Head(q.held).meeting))
    BY <2>2 DEF Unheld
  <2> QED
    BY <2>1, <2>2
<1>4. Resume(q).running = q.running /\ Resume(q).pending = u \o q.pending
  BY DEF Resume, Queue
<1> HIDE DEF u
<1>5. Has(u \o q.pending, m) <=> Has(u, m) \/ Has(q.pending, m)
  BY <1>1, <1>2, HasConcat
<1> QED
  BY <1>3, <1>4, <1>5 DEF InQueue
=============================================================================
