-------------------------- MODULE AudioKeptProofs --------------------------
(***************************************************************************)
(* Nothing of a kept meeting's audio is lost, for every folder the job may *)
(* find and every bound: what the row names can be read, no one's file is  *)
(* deleted under them, and only proven copies go.                          *)
(***************************************************************************)
EXTENDS AudioStoreProofs

-----------------------------------------------------------------------------
(* Paths.                                                                  *)

LEMMA RolesSplit ==
    /\ Roles = Sources \cup Derived /\ Sources \cap Derived = {}
    /\ Sources = {"mic", "system"} /\ Derived = {"mixed", "playback"}
    BY DEF Roles, Sources, Derived

LEMMA PathForms ==
    /\ ~IsWav(NoPath)
    /\ \A r \in Roles : /\ IsWav(Wav(r)) /\ ~IsWav(Flac(r))
                        /\ Wav(r) # NoPath /\ Flac(r) # NoPath
                        /\ FlacTwin(Wav(r)) = Flac(r)
    /\ \A r, q \in Roles : /\ Wav(r) = Wav(q) => r = q
                           /\ Flac(r) = Flac(q) => r = q
                           /\ Wav(r) # Flac(q)
    BY DEF IsWav, NoPath, Wav, Flac, FlacTwin, Roles, Sources, Derived

LEMMA FilesByForm ==
    ASSUME NEW f \in Files
    PROVE  \E r \in Roles : f = Wav(r) \/ f = Flac(r)
    BY DEF Files, Wav, Flac

\* Where a path of a recording comes from: the role itself, or a source.
LEMMA NamedFor ==
    ASSUME NEW rec, PathsAsWritten(rec), NEW r \in Roles, rec[r] # NoPath
    PROVE  \E x \in Roles : /\ rec[r] \in {Wav(x), Flac(x)} /\ rec[x] = rec[r]
                            /\ x = r \/ (x \in Sources /\ r \in Derived)
<1>1. CASE rec[r] \in {Wav(r), Flac(r)}
    BY <1>1
<1>2. CASE rec[r] \notin {Wav(r), Flac(r)}
    <2>1. r \in Derived /\ \E s \in Sources : rec[r] = rec[s]
        BY <1>2 DEF PathsAsWritten
    <2>2. PICK s \in Sources : rec[r] = rec[s]
        BY <2>1
    <2>3. rec[s] \in {Wav(s), Flac(s)}
        BY <2>2, RolesSplit DEF PathsAsWritten
    <2>4. QED
        BY <2>1, <2>2, <2>3, RolesSplit
<1>3. QED
    BY <1>1, <1>2

\* No recording names both a WAV and the FLAC that takes its place.
LEMMA OneForm ==
    ASSUME NEW rec, PathsAsWritten(rec), NEW x \in Roles,
           NEW r \in Roles, NEW q \in Roles, rec[r] = Wav(x)
    PROVE  rec[q] # Flac(x)
<1> SUFFICES ASSUME rec[q] = Flac(x) PROVE FALSE
    OBVIOUS
<1>1. rec[x] = Wav(x)
    BY NamedFor, PathForms
<1>2. rec[x] = Flac(x)
    BY NamedFor, PathForms
<1>3. QED
    BY <1>1, <1>2, PathForms

-----------------------------------------------------------------------------
(* Whole recordings: what is named is there, and what isn't named rebuilds *)
(* or never was.                                                           *)

Rebuilds(rec, r, d, l) ==
    /\ r \in l.regen /\ IsStorageV2(rec)
    /\ \A s \in Sources : l.row[s] # NoPath => rec[s] # NoPath /\ d[rec[s]] \in Audio

Whole(rec, d, l) ==
    \A r \in Roles :
        /\ rec[r] # NoPath => d[rec[r]] \in Audio
        /\ rec[r] = NoPath /\ (l.row[r] # NoPath \/ r \in l.regen) => Rebuilds(rec, r, d, l)

\* Whatever files come and go, if none of those named stops being audio.
LEMMA WholeStays ==
    ASSUME NEW rec, NEW d, NEW d2, NEW l, Whole(rec, d, l),
           \A r \in Roles : rec[r] # NoPath /\ d[rec[r]] \in Audio => d2[rec[r]] \in Audio
    PROVE  Whole(rec, d2, l)
    BY RolesSplit DEF Whole, Rebuilds

\* Paths replaced by FLACs that are audio.
LEMMA WholeAdopts ==
    ASSUME NEW rec, NEW rec2, NEW d, NEW l, Whole(rec, d, l),
           \A r \in Roles : \/ rec2[r] = rec[r]
                            \/ rec2[r] # NoPath /\ ~IsWav(rec2[r]) /\ d[rec2[r]] \in Audio
    PROVE  Whole(rec2, d, l)
<1>1. IsStorageV2(rec) => IsStorageV2(rec2)
    BY RolesSplit DEF IsStorageV2
<1>2. QED
    BY <1>1, RolesSplit DEF Whole, Rebuilds

\* A mix that rebuilds is no longer named.
LEMMA WholeDrops ==
    ASSUME NEW rec \in Recording, NEW d, NEW l, Whole(rec, d, l),
           NEW q \in Derived, Rebuilds(rec, q, d, l)
    PROVE  Whole([rec EXCEPT ![q] = NoPath], d, l)
<1> DEFINE rec2 == [rec EXCEPT ![q] = NoPath]
<1>1. rec2[q] = NoPath /\ \A r \in Roles : r # q => rec2[r] = rec[r]
    BY RolesSplit DEF Recording
<1>2. \A s \in Sources : s \in Roles /\ s # q
    BY RolesSplit
<1> HIDE DEF rec2
<1>3. IsStorageV2(rec2) <=> IsStorageV2(rec)
    BY <1>1, <1>2 DEF IsStorageV2
<1>4. \A r \in Roles : Rebuilds(rec, r, d, l) => Rebuilds(rec2, r, d, l)
    BY <1>1, <1>2, <1>3 DEF Rebuilds
<1>5. Whole(rec2, d, l)
    BY <1>1, <1>4 DEF Whole
<1>6. QED
    BY <1>5 DEF rec2

-----------------------------------------------------------------------------
(* The inductive invariant.                                                *)
(*                                                                         *)
(* That the row can be read is kept by the steps that write files only     *)
(* because of what the job has planned: the recording it is going to       *)
(* commit can be read too, step by step, and the WAVs it is going to       *)
(* delete are none that it names.                                          *)

Planning == {"roles", "encode", "commit"}
Committing == {"manifest", "row", "delete"}

RolesOf(queue) == {queue[i] : i \in 1..Len(queue)}
TodoRoles == RolesOf(job.todo)

RowIsWhole == PathsAsWritten(row) /\ Whole(row, disk, layout)

\* The plan is of the row as it still is, and as whole.
PlanIsWhole ==
    /\ job.pc \in Planning \cup {"manifest", "row"} => row = job.planned
    /\ job.pc = "delete" => row = job.next
    /\ job.pc \in Planning \cup Committing =>
         /\ PathsAsWritten(job.next) /\ Whole(job.next, disk, layout)
         /\ \A f \in job.del : IsWav(f) /\ disk[f] = "own" /\ \A r \in Roles : job.next[r] # f

\* What an undo would delete, the row doesn't name.
MadeIsNew ==
    /\ job.pc \in Committing => job.made = {}
    /\ \A f \in job.made : ~IsWav(f) /\ \A r \in Roles : row[r] # f

\* Roles are taken in order, and a source that can be converted is converted
\* before the mixes that may be its file are looked at.
RolesInOrder ==
    /\ job.pc = "encode" => job.todo # <<>>
    /\ job.pc \in {"roles", "encode"} =>
        /\ job.todo \in {<<"mic", "system", "mixed", "playback">>, <<"system", "mixed", "playback">>,
                         <<"mixed", "playback">>, <<"playback">>, <<>>}
        /\ \A r \in Roles : IsWav(job.next[r]) => job.planned[r] = job.next[r]
        /\ \A s \in Sources \cap TodoRoles : job.next[s] = job.planned[s]
        /\ \A s \in Sources \ TodoRoles :
              job.planned[s] = Wav(s) /\ disk[Wav(s)] = "own" => job.next[s] = Flac(s)

FilesInv == RowIsWhole /\ PlanIsWhole /\ MadeIsNew /\ RolesInOrder

\* Whoever has loaded the row holds files it still names, and no commit is on.
ReadersInv ==
    /\ reader.pc = "reading" =>
         /\ job.pc \notin Committing
         /\ \A f \in reader.files : f # NoPath /\ \E r \in Roles : f = row[r]
    /\ player.pc = "plan" \/ player.file # NoPath => player.recent /\ job.pc \notin Committing
    /\ player.pc = "plan" => player.rec = row
    /\ player.file # NoPath => \E r \in Roles : player.file = row[r]

FlacsAreOurs == \A r \in Roles : disk[Flac(r)] \in {"none", "own", "bad"}

PlayerIsRecent == player.pc # "none" => player.recent

KeptInv ==
    /\ FlacsAreOurs /\ PlayerIsRecent
    /\ meeting = "kept" => FilesInv /\ ReadersInv

-----------------------------------------------------------------------------
(* The role at hand.                                                       *)

LEMMA Queues ==
    /\ RolesOf(<<"mic", "system", "mixed", "playback">>) = Roles
    /\ RolesOf(<<"system", "mixed", "playback">>) = {"system", "mixed", "playback"}
    /\ RolesOf(<<"mixed", "playback">>) = {"mixed", "playback"}
    /\ RolesOf(<<"playback">>) = {"playback"}
    /\ RolesOf(<<>>) = {}
    BY DEF RolesOf, Roles, Sources, Derived

LEMMA TodoCases ==
    ASSUME RolesInOrder, AtRole \/ Encoding
    PROVE  /\ Role \in Roles /\ Role \in TodoRoles
           /\ Role \in Derived => Sources \cap TodoRoles = {}
           /\ RolesOf(Tail(job.todo)) = TodoRoles \ {Role}
           /\ Tail(job.todo) \in {<<"system", "mixed", "playback">>,
                                  <<"mixed", "playback">>, <<"playback">>, <<>>}
<1>0. job.todo \in {<<"mic", "system", "mixed", "playback">>, <<"system", "mixed", "playback">>,
                    <<"mixed", "playback">>, <<"playback">>}
    BY DEF RolesInOrder, AtRole, Encoding
<1>1. CASE job.todo = <<"mic", "system", "mixed", "playback">>
    <2>1. Role = "mic" /\ Tail(job.todo) = <<"system", "mixed", "playback">>
        BY <1>1 DEF Role
    <2>2. QED
        BY <1>1, <2>1, Queues, RolesSplit DEF TodoRoles
<1>2. CASE job.todo = <<"system", "mixed", "playback">>
    <2>1. Role = "system" /\ Tail(job.todo) = <<"mixed", "playback">>
        BY <1>2 DEF Role
    <2>2. QED
        BY <1>2, <2>1, Queues, RolesSplit DEF TodoRoles
<1>3. CASE job.todo = <<"mixed", "playback">>
    <2>1. Role = "mixed" /\ Tail(job.todo) = <<"playback">>
        BY <1>3 DEF Role
    <2>2. QED
        BY <1>3, <2>1, Queues, RolesSplit DEF TodoRoles
<1>4. CASE job.todo = <<"playback">>
    <2>1. Role = "playback" /\ Tail(job.todo) = <<>>
        BY <1>4 DEF Role
    <2>2. QED
        BY <1>4, <2>1, Queues, RolesSplit DEF TodoRoles
<1>5. QED
    BY <1>0, <1>1, <1>2, <1>3, <1>4

\* A role about to be converted or dropped has a WAV of its own: one that is a
\* source's file was converted with the source.
LEMMA OwnWav ==
    ASSUME TypeOK, PlanIsWhole, RolesInOrder, PathsAsWritten(row), AtRole \/ Encoding,
           RoleHasWav, disk[RoleWav] = "own"
    PROVE  /\ RoleWav = Wav(Role) /\ FlacTwin(RoleWav) = Flac(Role)
           /\ job.next[Role] = RoleWav /\ row[Role] = RoleWav /\ row = job.planned
           /\ \A r \in Roles : r # Role /\ ~Follows(r) => job.next[r] # RoleWav
<1>0. /\ job.pc \in {"roles", "encode"} /\ row = job.planned /\ Role \in Roles
      /\ PathsAsWritten(job.next) /\ PathsAsWritten(job.planned)
    BY TodoCases DEF AtRole, Encoding, PlanIsWhole, Planning
<1>1. IsWav(RoleWav) /\ RoleWav = job.planned[Role] /\ RoleWav # NoPath
    BY PathForms DEF RoleHasWav, RoleWav
<1>2. job.next[Role] = RoleWav
    <2>1. CASE Role \in Derived
        BY <2>1 DEF RoleHasWav
    <2>2. CASE Role \in Sources
        BY <1>0, <1>1, <2>2, TodoCases DEF RolesInOrder
    <2>3. QED
        BY <1>0, <2>1, <2>2, RolesSplit
<1>3. RoleWav = Wav(Role)
    <2>1. PICK x \in Roles : /\ RoleWav \in {Wav(x), Flac(x)} /\ job.next[x] = RoleWav
                             /\ x = Role \/ (x \in Sources /\ Role \in Derived)
        BY <1>0, <1>1, <1>2, NamedFor
    <2>2. RoleWav = Wav(x)
        BY <1>1, <2>1, PathForms
    <2>3. CASE x # Role
        <3>1. x \in Sources \ TodoRoles
            BY <2>1, <2>3, TodoCases
        <3>2. job.planned[x] = Wav(x)
            BY <1>0, <2>1, <2>2, PathForms DEF RolesInOrder
        <3>3. job.next[x] = Flac(x)
            BY <1>0, <2>2, <3>1, <3>2 DEF RolesInOrder
        <3>4. QED
            BY <2>1, <2>2, <3>3, PathForms
    <2>4. QED
        BY <2>2, <2>3
<1>4. ASSUME NEW r \in Roles, r # Role, ~Follows(r)
      PROVE  job.next[r] # RoleWav
    <2> SUFFICES ASSUME job.next[r] = RoleWav PROVE FALSE
        OBVIOUS
    <2>1. job.planned[r] = RoleWav
        BY <1>0, <1>1 DEF RolesInOrder
    <2>2. PICK x \in Roles : /\ RoleWav \in {Wav(x), Flac(x)}
                             /\ x = r \/ (x \in Sources /\ r \in Derived)
        BY <1>0, <1>1, NamedFor
    <2>3. x = Role
        BY <1>0, <1>3, <2>2, PathForms
    <2>4. QED
        BY <1>4, <2>1, <2>2, <2>3 DEF Follows
<1>5. QED
    BY <1>0, <1>1, <1>2, <1>3, <1>4, PathForms

-----------------------------------------------------------------------------
(* The job's steps.                                                        *)

\* A FLAC takes the place of the role's WAV.
LEMMA AdoptKeeps ==
    ASSUME TypeOK, FilesInv, AtRole \/ Encoding, RoleConverts, Adopt,
           UNCHANGED <<layout, row>>,
           disk' \in {disk, [disk EXCEPT ![FlacTwin(RoleWav)] = "own"]},
           disk'[FlacTwin(RoleWav)] = "own"
    PROVE  FilesInv'
<1> DEFINE w == RoleWav
           fl == Flac(Role)
<1>0. /\ job \in JobType /\ disk \in Folder /\ Role \in Roles
      /\ job.pc \in {"roles", "encode"}
      /\ RowIsWhole /\ PlanIsWhole /\ MadeIsNew /\ RolesInOrder
    BY TodoCases DEF TypeOK, FilesInv, AtRole, Encoding
<1>1. /\ w = Wav(Role) /\ FlacTwin(w) = fl /\ disk[w] = "own"
      /\ job.next[Role] = w /\ row[Role] = w /\ row = job.planned
      /\ \A r \in Roles : r # Role /\ ~Follows(r) => job.next[r] # w
    BY <1>0, OwnWav DEF RoleConverts, RowIsWhole
<1>2. /\ job'.pc = "roles" /\ job'.todo = Tail(job.todo) /\ job'.planned = job.planned
      /\ job'.del = job.del \cup {w} /\ job'.made = job.made \cup {fl}
      /\ \A r \in Roles : job'.next[r] = IF Follows(r) THEN fl ELSE job.next[r]
    BY <1>0, <1>1 DEF Adopt, JobType
<1>3. disk'[fl] = "own" /\ \A g \in Files : g # fl => disk'[g] = disk[g]
    BY <1>0, <1>1 DEF Folder
<1> HIDE DEF w, fl
<1>4. \A f \in Files : disk[f] \in Audio => disk'[f] \in Audio
    BY <1>3 DEF Audio
<1>5. job.planned \in Recording /\ job.next \in Recording /\ row \in Recording
    BY DEF TypeOK, JobType
<1>6. \A r \in Roles : Follows(r) => r = Role \/ (r \in Derived /\ Role \in Sources)
    BY DEF Follows
<1>6a. Follows(Role) /\ ~IsWav(fl) /\ fl # NoPath /\ IsWav(w) /\ fl \in Files /\ w \in Files
    BY <1>0, <1>1, PathForms, RolesAndFiles DEF Follows, fl
<1>7. RowIsWhole'
    <2>1. \A r \in Roles : row[r] # NoPath /\ disk[row[r]] \in Audio => disk'[row[r]] \in Audio
        BY <1>4, <1>5 DEF Recording
    <2>2. QED
        BY <1>0, <2>1, WholeStays DEF RowIsWhole
<1>8. PlanIsWhole'
    <2>1. PathsAsWritten(job'.next)
        <3> SUFFICES ASSUME NEW r \in Roles
                     PROVE  \/ job'.next[r] \in {NoPath, Wav(r), Flac(r)}
                            \/ r \in Derived /\ \E s \in Sources : job'.next[r] = job'.next[s]
            BY DEF PathsAsWritten
        <3>1. CASE r = Role
            BY <1>2, <1>6a, <3>1 DEF fl
        <3>2. CASE r # Role /\ Follows(r)
            BY <1>0, <1>2, <1>6, <1>6a, <3>2
        <3>3. CASE r # Role /\ ~Follows(r)
            <4>1. \/ job.next[r] \in {NoPath, Wav(r), Flac(r)}
                  \/ r \in Derived /\ \E s \in Sources : job.next[r] = job.next[s]
                BY <1>0 DEF PlanIsWhole, Planning, PathsAsWritten
            <4>2. ASSUME NEW s \in Sources, job.next[r] = job.next[s]
                  PROVE  job'.next[s] = job.next[s]
                <5>1. s # Role
                    BY <1>1, <3>3, <4>2
                <5>2. s \in Roles /\ s \notin Derived
                    BY RolesSplit
                <5>3. QED
                    BY <1>2, <1>6, <5>1, <5>2
            <4>3. QED
                BY <1>2, <3>3, <4>1, <4>2
        <3>4. QED
            BY <3>1, <3>2, <3>3
    <2>2. Whole(job'.next, disk', layout)
        <3>1. Whole(job.next, disk, layout)
            BY <1>0 DEF PlanIsWhole, Planning
        <3>2. \A r \in Roles : /\ job.next[r] # NoPath /\ disk[job.next[r]] \in Audio
                               => disk'[job.next[r]] \in Audio
            BY <1>4, <1>5 DEF Recording
        <3>3. Whole(job.next, disk', layout)
            BY <3>1, <3>2, WholeStays
        <3>4. \A r \in Roles :
                 \/ job'.next[r] = job.next[r]
                 \/ /\ job'.next[r] # NoPath /\ ~IsWav(job'.next[r])
                    /\ disk'[job'.next[r]] \in Audio
            BY <1>2, <1>3, <1>6a DEF Audio
        <3>5. QED
            BY <3>3, <3>4, WholeAdopts
    <2>3. ASSUME NEW f \in job'.del
          PROVE  IsWav(f) /\ disk'[f] = "own" /\ \A r \in Roles : job'.next[r] # f
        <3>1. CASE f = w
            <4>1. \A r \in Roles : job'.next[r] # w
                BY <1>1, <1>2, <1>6a
            <4>2. QED
                BY <1>1, <1>3, <1>6a, <3>1, <4>1
        <3>2. CASE f \in job.del
            <4>1. IsWav(f) /\ disk[f] = "own" /\ \A r \in Roles : job.next[r] # f
                BY <1>0, <3>2 DEF PlanIsWhole, Planning
            <4>2. f \in Files
                BY <1>0, <3>2 DEF JobType
            <4>3. QED
                BY <1>2, <1>3, <1>6a, <4>1, <4>2
        <3>3. QED
            BY <1>2, <2>3, <3>1, <3>2
    <2>4. QED
        BY <1>1, <1>2, <2>1, <2>2, <2>3 DEF PlanIsWhole
<1>9. MadeIsNew'
    <2>1. \A r \in Roles : row[r] # fl
        BY <1>0, <1>1, OneForm DEF fl, RowIsWhole
    <2>2. QED
        BY <1>0, <1>2, <1>6a, <2>1 DEF MadeIsNew, Committing
<1>10. RolesInOrder'
    <2>1. (TodoRoles)' = TodoRoles \ {Role}
        BY <1>0, <1>2, TodoCases DEF TodoRoles
    <2>2. \A r \in Roles : IsWav(job'.next[r]) => job'.planned[r] = job'.next[r]
        BY <1>0, <1>2, <1>6a DEF RolesInOrder
    <2>3. ASSUME NEW s \in Sources, s # Role
          PROVE  s \in Roles /\ ~Follows(s)
        BY <1>6, <2>3, RolesSplit
    <2>4. \A s \in Sources \cap (TodoRoles \ {Role}) : job'.next[s] = job'.planned[s]
        BY <1>0, <1>2, <2>3 DEF RolesInOrder
    <2>5. \A s \in Sources \ (TodoRoles \ {Role}) :
             job'.planned[s] = Wav(s) /\ disk'[Wav(s)] = "own" => job'.next[s] = Flac(s)
        <3>1. ASSUME NEW s \in Sources \ TodoRoles, s # Role
              PROVE  job'.planned[s] = Wav(s) /\ disk'[Wav(s)] = "own" => job'.next[s] = Flac(s)
            <4>1. Wav(s) # fl /\ Wav(s) \in Files
                BY <1>0, <2>3, <3>1, PathForms, RolesAndFiles DEF fl
            <4>2. QED
                BY <1>0, <1>2, <1>3, <2>3, <3>1, <4>1 DEF RolesInOrder
        <3>2. job'.next[Role] = Flac(Role)
            BY <1>0, <1>2, <1>6a DEF fl
        <3>3. QED
            BY <3>1, <3>2
    <2>6. QED
        BY <1>0, <1>2, <2>1, <2>2, <2>4, <2>5, TodoCases DEF RolesInOrder
<1>11. QED
    BY <1>7, <1>8, <1>9, <1>10 DEF FilesInv

\* A mix that rebuilds is left out of the plan.
LEMMA DropKeeps ==
    ASSUME TypeOK, FilesInv, DropRole
    PROVE  FilesInv'
<1> USE DEF stored
<1>0. /\ job \in JobType /\ Role \in Roles /\ job.pc = "roles" /\ UNCHANGED <<layout, row, disk>>
      /\ RowIsWhole /\ PlanIsWhole /\ MadeIsNew /\ RolesInOrder
      /\ Role \in Derived /\ disk[RoleWav] = "own" /\ Regenerates(job.next, Role)
    BY TodoCases DEF TypeOK, FilesInv, DropRole, AtRole, RoleDrops
<1>1. /\ RoleWav = Wav(Role) /\ job.next[Role] = RoleWav /\ row = job.planned
      /\ \A r \in Roles : r # Role /\ ~Follows(r) => job.next[r] # RoleWav
    BY <1>0, OwnWav DEF DropRole, RowIsWhole
<1>2. \A r \in Roles : r # Role => ~Follows(r)
    BY <1>0, RolesSplit DEF Follows
<1>3. job.next \in Recording
    BY <1>0 DEF JobType
<1>4. /\ job'.pc = "roles" /\ job'.todo = Tail(job.todo) /\ job'.planned = job.planned
      /\ job'.del = job.del \cup {RoleWav} /\ job'.made = job.made
      /\ job'.next = [job.next EXCEPT ![Role] = NoPath]
    BY <1>0 DEF DropRole, JobType
<1>5. job'.next[Role] = NoPath /\ \A r \in Roles : r # Role => job'.next[r] = job.next[r]
    BY <1>0, <1>3, <1>4 DEF Recording
<1>6. \A s \in Sources : s \in Roles /\ s # Role
    BY <1>0, RolesSplit
<1>7. PathsAsWritten(job'.next)
    <2>1. PathsAsWritten(job.next)
        BY <1>0 DEF PlanIsWhole, Planning
    <2>2. QED
        BY <1>5, <1>6, <2>1 DEF PathsAsWritten
<1>8. Whole(job'.next, disk, layout)
    <2>1. Rebuilds(job.next, Role, disk, layout)
        BY <1>0 DEF Regenerates, Rebuilds
    <2>2. Whole(job.next, disk, layout)
        BY <1>0 DEF PlanIsWhole, Planning
    <2>3. QED
        BY <1>0, <1>3, <1>4, <2>1, <2>2, WholeDrops
<1>9. \A f \in job'.del : IsWav(f) /\ disk[f] = "own" /\ \A r \in Roles : job'.next[r] # f
    <2>1. IsWav(RoleWav) /\ RoleWav # NoPath
        BY <1>0, <1>1, PathForms
    <2>2. \A f \in job.del : IsWav(f) /\ disk[f] = "own" /\ \A r \in Roles : job.next[r] # f
        BY <1>0 DEF PlanIsWhole, Planning
    <2>3. \A r \in Roles : job'.next[r] # RoleWav
        BY <1>1, <1>2, <1>5, <2>1
    <2>4. ASSUME NEW f \in job.del PROVE \A r \in Roles : job'.next[r] # f
        <3>1. f # NoPath
            BY <2>2, PathForms
        <3>2. QED
            BY <1>5, <2>2, <3>1
    <2>5. QED
        BY <1>0, <1>4, <2>1, <2>2, <2>3, <2>4
<1>10. RolesInOrder'
    <2>1. (TodoRoles)' = TodoRoles \ {Role}
        BY <1>0, <1>4, TodoCases DEF TodoRoles, AtRole, DropRole
    <2>2. ~IsWav(NoPath)
        BY PathForms
    <2>3. \A r \in Roles : IsWav(job'.next[r]) => job'.planned[r] = job'.next[r]
        BY <1>0, <1>4, <1>5, <2>2 DEF RolesInOrder
    <2>4. /\ \A s \in Sources \cap (TodoRoles \ {Role}) : job'.next[s] = job'.planned[s]
          /\ \A s \in Sources \ (TodoRoles \ {Role}) :
                job'.planned[s] = Wav(s) /\ disk[Wav(s)] = "own" => job'.next[s] = Flac(s)
        BY <1>0, <1>4, <1>5, <1>6 DEF RolesInOrder
    <2>5. Tail(job.todo) \in {<<"system", "mixed", "playback">>, <<"mixed", "playback">>,
                              <<"playback">>, <<>>}
        BY <1>0, TodoCases DEF DropRole
    <2>6. QED
        BY <1>0, <1>4, <2>1, <2>3, <2>4, <2>5 DEF RolesInOrder
<1>11. QED
    BY <1>0, <1>1, <1>4, <1>7, <1>8, <1>9, <1>10
    DEF FilesInv, RowIsWhole, PlanIsWhole, MadeIsNew, Planning, Committing

\* A role with nothing to convert is passed over: a source's WAV is not one
\* that could have been.
LEMMA SkipKeeps ==
    ASSUME TypeOK, FilesInv, SkipRole
    PROVE  FilesInv'
<1> USE DEF stored
<1>0. /\ job \in JobType /\ Role \in Roles /\ job.pc = "roles" /\ UNCHANGED <<layout, row, disk>>
      /\ RowIsWhole /\ PlanIsWhole /\ MadeIsNew /\ RolesInOrder
    BY TodoCases DEF TypeOK, FilesInv, SkipRole, AtRole
<1>1. /\ job'.pc = "roles" /\ job'.todo = Tail(job.todo) /\ job'.planned = job.planned
      /\ job'.del = job.del /\ job'.made = job.made /\ job'.next = job.next
    BY <1>0 DEF SkipRole, JobType
<1>2. Role \in Sources /\ job.planned[Role] = Wav(Role) => disk[Wav(Role)] # "own"
    <2> SUFFICES ASSUME Role \in Sources, job.planned[Role] = Wav(Role), disk[Wav(Role)] = "own"
                 PROVE  FALSE
        OBVIOUS
    <2>1. RoleHasWav
        BY <1>0, PathForms, RolesSplit DEF RoleHasWav, OnDisk, RoleWav
    <2>2. QED
        BY <2>1 DEF SkipRole, RoleWav
<1>3. RolesInOrder'
    <2>1. (TodoRoles)' = TodoRoles \ {Role}
        BY <1>0, <1>1, TodoCases DEF TodoRoles, AtRole, SkipRole
    <2>2. Tail(job.todo) \in {<<"system", "mixed", "playback">>, <<"mixed", "playback">>,
                              <<"playback">>, <<>>}
        BY <1>0, TodoCases DEF SkipRole
    <2>3. QED
        BY <1>0, <1>1, <1>2, <2>1, <2>2 DEF RolesInOrder
<1>4. QED
    BY <1>0, <1>1, <1>3 DEF FilesInv, RowIsWhole, PlanIsWhole, MadeIsNew, Planning, Committing

\* A FLAC that stands where the role's will goes: nobody names it.
LEMMA RemoveKeeps ==
    ASSUME TypeOK, FilesInv, RemoveBadFlac \/ RemoveUnreadFlac
    PROVE  FilesInv'
<1>0. /\ job \in JobType /\ disk \in Folder /\ Role \in Roles /\ job.pc = "roles"
      /\ RowIsWhole /\ PlanIsWhole /\ MadeIsNew /\ RolesInOrder
      /\ RoleHasWav /\ disk[RoleWav] = "own"
    BY TodoCases
    DEF TypeOK, FilesInv, RemoveBadFlac, RemoveUnreadFlac, AtRole, RoleConverts
<1>1. /\ RoleWav = Wav(Role) /\ FlacTwin(RoleWav) = Flac(Role)
      /\ job.next[Role] = RoleWav /\ row[Role] = RoleWav /\ row = job.planned
    BY <1>0, OwnWav DEF RowIsWhole, RemoveBadFlac, RemoveUnreadFlac
<1>2. UNCHANGED <<layout, row, job>> /\ disk' = [disk EXCEPT ![Flac(Role)] = "none"]
    BY <1>1 DEF RemoveBadFlac, RemoveUnreadFlac, RemoveTwin
<1>3. \A g \in Files : g # Flac(Role) => disk'[g] = disk[g]
    BY <1>0, <1>2 DEF Folder
<1>4. row \in Recording /\ job.next \in Recording /\ job.del \subseteq Files
    BY DEF TypeOK, JobType
<1>5. \A r \in Roles : row[r] # Flac(Role) /\ job.next[r] # Flac(Role)
    BY <1>0, <1>1, OneForm DEF RowIsWhole, PlanIsWhole, Planning
<1>6. RowIsWhole'
    <2>1. \A r \in Roles : row[r] # NoPath /\ disk[row[r]] \in Audio => disk'[row[r]] \in Audio
        BY <1>3, <1>4, <1>5 DEF Recording
    <2>2. QED
        BY <1>0, <1>2, <2>1, WholeStays DEF RowIsWhole
<1>7. PlanIsWhole'
    <2>1. Whole(job.next, disk', layout)
        <3>1. \A r \in Roles : /\ job.next[r] # NoPath /\ disk[job.next[r]] \in Audio
                               => disk'[job.next[r]] \in Audio
            BY <1>3, <1>4, <1>5 DEF Recording
        <3>2. Whole(job.next, disk, layout)
            BY <1>0 DEF PlanIsWhole, Planning
        <3>3. QED
            BY <3>1, <3>2, WholeStays
    <2>2. \A f \in job.del : IsWav(f) /\ disk'[f] = "own" /\ \A r \in Roles : job.next[r] # f
        <3>1. ~IsWav(Flac(Role))
            BY <1>0, PathForms
        <3>2. QED
            BY <1>0, <1>3, <1>4, <3>1 DEF PlanIsWhole, Planning
    <2>3. QED
        BY <1>0, <1>1, <1>2, <2>1, <2>2 DEF PlanIsWhole, Planning
<1>8. RolesInOrder'
    <2>1. \A s \in Sources : Wav(s) # Flac(Role) /\ Wav(s) \in Files
        BY <1>0, PathForms, RolesSplit, RolesAndFiles
    <2>2. QED
        BY <1>0, <1>2, <1>3, <2>1 DEF RolesInOrder, TodoRoles
<1>9. QED
    BY <1>0, <1>2, <1>6, <1>7, <1>8 DEF FilesInv, MadeIsNew

\* Steps that only look, or write a temp file.
LEMMA EncodeKeeps ==
    ASSUME TypeOK, FilesInv, OpenWav \/ EncodeTemp
    PROVE  FilesInv'
<1> USE DEF stored
<1>0. /\ job \in JobType /\ UNCHANGED <<layout, row, disk>> /\ job.pc \in {"roles", "encode"}
      /\ job.todo # <<>>
    BY DEF TypeOK, OpenWav, EncodeTemp, AtRole, Encoding
<1>1. /\ job'.pc = "encode" /\ job'.todo = job.todo /\ job'.planned = job.planned
      /\ job'.del = job.del /\ job'.made = job.made /\ job'.next = job.next
    BY <1>0 DEF OpenWav, EncodeTemp, Goto, Encoding, JobType
<1>2. QED
    BY <1>0, <1>1
    DEF FilesInv, RowIsWhole, PlanIsWhole, MadeIsNew, RolesInOrder, TodoRoles, Planning, Committing

\* The job reads the row, and plans to keep it as it is.
LEMMA ReadKeeps ==
    ASSUME TypeOK, FilesInv, ReadRow
    PROVE  FilesInv'
<1> USE DEF stored
<1>0. /\ job \in JobType /\ UNCHANGED <<layout, row, disk>>
      /\ RowIsWhole /\ MadeIsNew
    BY DEF TypeOK, FilesInv, ReadRow
<1>1. CASE MeetingExists
    <2>1. /\ job'.pc = "roles" /\ job'.todo = RoleOrder /\ job'.planned = row /\ job'.next = row
          /\ job'.del = {} /\ job'.made = {}
        BY <1>1 DEF ReadRow, JobStart
    <2>2. (TodoRoles)' = Roles
        BY <2>1, Queues DEF TodoRoles, RoleOrder
    <2>3. RolesInOrder'
        BY <2>1, <2>2, RolesSplit DEF RolesInOrder, RoleOrder
    <2>4. QED
        BY <1>0, <2>1, <2>3
        DEF FilesInv, RowIsWhole, PlanIsWhole, MadeIsNew, Planning, Committing
<1>2. CASE ~MeetingExists
    <2>1. job'.pc = "undo" /\ job'.made = job.made
        BY <1>0, <1>2 DEF ReadRow, Finish, JobType
    <2>2. QED
        BY <1>0, <2>1
        DEF FilesInv, RowIsWhole, PlanIsWhole, MadeIsNew, RolesInOrder, Planning, Committing
<1>3. QED
    BY <1>1, <1>2

\* Leftovers that are proven join what will be deleted: the plan names none.
LEMMA LeftoversKeep ==
    ASSUME TypeOK, FilesInv, FindLeftovers
    PROVE  FilesInv'
<1> USE DEF stored
<1>0. /\ job \in JobType /\ UNCHANGED <<layout, row, disk>> /\ job.pc = "roles"
      /\ RowIsWhole /\ PlanIsWhole /\ MadeIsNew
    BY DEF TypeOK, FilesInv, FindLeftovers
<1>1. PICK proven \in SUBSET Roles :
        /\ \A r \in proven : LeftoverCandidate(job.next, r) /\ Proven(job.next, r)
        /\ job'.pc = "commit" /\ job'.del = job.del \cup {Wav(r) : r \in proven}
        /\ job'.planned = job.planned /\ job'.next = job.next /\ job'.made = job.made
    <2> DEFINE found == {r \in Roles : LeftoverCandidate(job.next, r) /\ Wav(r) \notin job.del
                                         /\ r \notin unproven}
               proven == {r \in found : Proven(job.next, r)}
    <2>1. job' = [job EXCEPT !.pc = "commit", !.del = @ \cup {Wav(r) : r \in proven},
                             !.doubt = found \ proven]
        BY DEF FindLeftovers
    <2>2. \A r \in proven : r \in Roles /\ LeftoverCandidate(job.next, r) /\ Proven(job.next, r)
        OBVIOUS
    <2> HIDE DEF proven, found
    <2>3. /\ job'.pc = "commit" /\ job'.del = job.del \cup {Wav(r) : r \in proven}
          /\ job'.planned = job.planned /\ job'.next = job.next /\ job'.made = job.made
        BY <1>0, <2>1 DEF JobType
    <2>4. QED
        BY <2>2, <2>3
<1>2. ASSUME NEW f \in job'.del
      PROVE  IsWav(f) /\ disk[f] = "own" /\ \A r \in Roles : job.next[r] # f
    <2>1. CASE f \in job.del
        BY <1>0, <2>1 DEF PlanIsWhole, Planning
    <2>2. CASE f \notin job.del
        <3>1. PICK r \in proven : f = Wav(r)
            BY <1>1, <1>2, <2>2
        <3>2. r \in Roles /\ LeftoverCandidate(job.next, r) /\ Proven(job.next, r)
            BY <1>1, <3>1
        <3>3. QED
            BY <3>1, <3>2, PathForms DEF LeftoverCandidate, Proven
    <2>3. QED
        BY <2>1, <2>2
<1>3. QED
    BY <1>0, <1>1, <1>2
    DEF FilesInv, RowIsWhole, PlanIsWhole, MadeIsNew, RolesInOrder, Planning, Committing

\* The commit: the plan becomes the row, and what it no longer names goes.
LEMMA CommitKeeps ==
    ASSUME TypeOK, FilesInv, CommitCheck \/ WriteManifest \/ WriteRow
    PROVE  FilesInv'
<1> USE DEF stored
<1>0. /\ job \in JobType /\ UNCHANGED <<layout, disk>>
      /\ RowIsWhole /\ PlanIsWhole /\ MadeIsNew
    BY DEF TypeOK, FilesInv, CommitCheck, WriteManifest, WriteRow
<1>1. CASE CommitCheck
    <2>0. job.pc = "commit" /\ UNCHANGED row
        BY <1>1 DEF CommitCheck
    <2>1. CASE Finish("gone") \/ Finish("busy")
        <3>1. job'.pc = "undo" /\ job'.made = job.made
            BY <1>0, <2>1 DEF Finish, JobType
        <3>2. QED
            BY <1>0, <2>0, <3>1
            DEF FilesInv, RowIsWhole, PlanIsWhole, MadeIsNew, RolesInOrder, Planning, Committing
    <2>2. CASE ~(Finish("gone") \/ Finish("busy"))
        <3>1. job' = [job EXCEPT !.made = {},
                        !.pc = IF job.next # job.planned THEN "manifest" ELSE "delete"]
            BY <1>1, <2>2 DEF CommitCheck
        <3>2. /\ job'.made = {} /\ job'.planned = job.planned /\ job'.next = job.next
              /\ job'.del = job.del
              /\ job'.pc = "manifest" \/ (job'.pc = "delete" /\ job.next = job.planned)
            BY <1>0, <3>1 DEF JobType
        <3>3. QED
            BY <1>0, <2>0, <3>2
            DEF FilesInv, RowIsWhole, PlanIsWhole, MadeIsNew, RolesInOrder, Planning, Committing
    <2>3. QED
        BY <2>1, <2>2
<1>2. CASE WriteManifest \/ WriteRow
    <2>1. /\ job'.planned = job.planned /\ job'.next = job.next
          /\ job'.made = job.made /\ job'.del = job.del
          /\ \/ job.pc = "manifest" /\ job'.pc = "row" /\ row' = row
             \/ job.pc = "row" /\ job'.pc = "delete" /\ row' = job.next
        BY <1>0, <1>2 DEF WriteManifest, WriteRow, Goto, JobType
    <2>2. QED
        BY <1>0, <2>1
        DEF FilesInv, RowIsWhole, PlanIsWhole, MadeIsNew, RolesInOrder, Planning, Committing
<1>3. QED
    BY <1>1, <1>2

LEMMA DeleteKeeps ==
    ASSUME TypeOK, FilesInv, DeleteWav \/ DeleteFails
    PROVE  FilesInv'
<1> USE DEF stored
<1>0. /\ job \in JobType /\ disk \in Folder /\ row \in Recording /\ UNCHANGED <<layout, row>>
      /\ job.pc = "delete"
      /\ RowIsWhole /\ PlanIsWhole /\ MadeIsNew
    BY DEF TypeOK, FilesInv, DeleteWav, DeleteFails
<1>1. PICK f \in job.del : /\ job' = [job EXCEPT !.del = @ \ {f}]
                           /\ disk' = disk \/ disk' = [disk EXCEPT ![f] = "none"]
    BY DEF DeleteWav, DeleteFails
<1>2. /\ job'.pc = "delete" /\ job'.planned = job.planned /\ job'.next = job.next
      /\ job'.made = job.made /\ job'.del = job.del \ {f}
    BY <1>0, <1>1 DEF JobType
<1>3. /\ row = job.next /\ \A r \in Roles : row[r] # f
      /\ \A g \in Files : g # f => disk'[g] = disk[g]
      /\ job.del \subseteq Files
    BY <1>0, <1>1 DEF PlanIsWhole, Committing, Folder, JobType
<1>4. Whole(row, disk', layout)
    <2>1. \A r \in Roles : row[r] # NoPath /\ disk[row[r]] \in Audio => disk'[row[r]] \in Audio
        BY <1>0, <1>3 DEF Recording
    <2>2. QED
        BY <1>0, <2>1, WholeStays DEF RowIsWhole
<1>5. QED
    BY <1>0, <1>2, <1>3, <1>4
    DEF FilesInv, RowIsWhole, PlanIsWhole, MadeIsNew, RolesInOrder, Planning, Committing

\* An undo takes back what was made, which the row doesn't name.
LEMMA UndoKeeps ==
    ASSUME TypeOK, FilesInv, Undo
    PROVE  FilesInv'
<1> USE DEF stored
<1>0. /\ job \in JobType /\ disk \in Folder /\ row \in Recording /\ UNCHANGED <<layout, row>>
      /\ RowIsWhole /\ MadeIsNew
    BY DEF TypeOK, FilesInv, Undo
<1>1. job'.pc = "release" /\ job'.made = job.made
    BY <1>0 DEF Undo, Goto, JobType
<1>2. \A g \in Files : g \notin job.made => disk'[g] = disk[g]
    BY <1>0 DEF Undo, Folder
<1>3. Whole(row, disk', layout)
    <2>1. \A r \in Roles : row[r] # NoPath /\ disk[row[r]] \in Audio => disk'[row[r]] \in Audio
        BY <1>0, <1>2 DEF Recording, MadeIsNew
    <2>2. QED
        BY <1>0, <2>1, WholeStays DEF RowIsWhole
<1>4. QED
    BY <1>0, <1>1, <1>3
    DEF FilesInv, RowIsWhole, PlanIsWhole, MadeIsNew, RolesInOrder, Planning, Committing

\* Everything else the job does is before its plan or after it.
LEMMA RestingKeeps ==
    ASSUME TypeOK, FilesInv, UNCHANGED <<layout, row, disk>>,
           job'.pc \notin Planning \cup Committing, job'.made \subseteq job.made
    PROVE  FilesInv'
    BY DEF FilesInv, RowIsWhole, PlanIsWhole, MadeIsNew, RolesInOrder, Planning, Committing

LEMMA JobKeepsFiles ==
    ASSUME TypeOK, FilesInv, Job
    PROVE  FilesInv'
<1> USE DEF stored
<1>0. job \in JobType
    BY DEF TypeOK
<1>1. CASE \/ PlanPass \/ EmptyPass \/ ClearCancels \/ MachineFree \/ GiveUpWaiting
           \/ CheckBeforeLease \/ Announce
    <2>1. CASE EmptyPass
        BY <2>1 DEF EmptyPass, FilesInv, RowIsWhole, PlanIsWhole, MadeIsNew, RolesInOrder, TodoRoles
    <2>2. CASE ~EmptyPass
        <3>1. /\ UNCHANGED <<layout, row, disk>> /\ job'.made = job.made
              /\ job'.pc \in {"clear", "wait", "lease", "idle", "announce", "read"}
            BY <1>0, <1>1, <2>2
            DEF PlanPass, ClearCancels, MachineFree, GiveUpWaiting, CheckBeforeLease, Announce,
                Goto, JobType
        <3>2. QED
            BY <3>1, RestingKeeps DEF Planning, Committing
    <2>3. QED
        BY <2>1, <2>2
<1>2. CASE ReuseFlac \/ Rename
    <2>1. /\ AtRole \/ Encoding
          /\ RoleConverts /\ Adopt /\ UNCHANGED <<layout, row>>
          /\ disk' \in {disk, [disk EXCEPT ![FlacTwin(RoleWav)] = "own"]}
        BY <1>2 DEF ReuseFlac, Rename
    <2>2. AtRole \/ Encoding
        BY <2>1
    <2>3. FlacTwin(RoleWav) \in Files
        BY <1>0, <2>1, <2>2, RoleTyped DEF RoleConverts
    <2>4. disk'[FlacTwin(RoleWav)] = "own"
        BY <1>2, <2>3 DEF ReuseFlac, Rename, TypeOK, Folder
    <2>5. RoleConverts /\ Adopt /\ UNCHANGED <<layout, row>>
        BY <1>2 DEF ReuseFlac, Rename
    <2>6. QED
        BY <2>1, <2>2, <2>4, <2>5, AdoptKeeps
<1>3. CASE Interrupted \/ FilesGone \/ StepFails \/ CommitFails \/ Deleted
    <2>1. UNCHANGED <<layout, row, disk>> /\ job'.pc = "undo" /\ job'.made = job.made
        BY <1>0, <1>3
        DEF Interrupted, FilesGone, StepFails, CommitFails, Deleted, Finish, JobType
    <2>2. QED
        BY <2>1, RestingKeeps DEF Planning, Committing
<1>4. CASE Release
    BY <1>4, RestingKeeps DEF Release, JobStart, Planning, Committing
<1>5. QED
    BY <1>1, <1>2, <1>3, <1>4, ReadKeeps, SkipKeeps, DropKeeps, RemoveKeeps, EncodeKeeps,
       LeftoversKeep, CommitKeeps, DeleteKeeps, UndoKeeps
    DEF Job

-----------------------------------------------------------------------------
(* The readers and the player, and everyone else.                          *)

\* The steps of the job that touch the row are its commit; it begins one only
\* when no reader has claimed its stage and no playback was asked for.
LEMMA JobSparesReaders ==
    ASSUME TypeOK, ReadersInv, Job
    PROVE  ReadersInv'
<1> USE DEF stored, flags, others
<1>0. job \in JobType
    BY DEF TypeOK
<1>1. UNCHANGED <<reader, player>>
    BY DEF Job, PlanPass, EmptyPass, ClearCancels, MachineFree, GiveUpWaiting, CheckBeforeLease,
           Announce, ReadRow, SkipRole, DropRole, ReuseFlac, RemoveBadFlac, RemoveUnreadFlac,
           RemoveTwin, OpenWav, EncodeTemp, Rename, FilesGone, FindLeftovers, Interrupted,
           StepFails, CommitCheck, WriteManifest, WriteRow, CommitFails, DeleteWav, DeleteFails,
           Deleted, Undo, Release
<1>2. row' = row \/ job.pc \in Committing
    BY DEF Job, PlanPass, EmptyPass, ClearCancels, MachineFree, GiveUpWaiting, CheckBeforeLease,
           Announce, ReadRow, SkipRole, DropRole, ReuseFlac, RemoveBadFlac, RemoveUnreadFlac,
           RemoveTwin, OpenWav, EncodeTemp, Rename, FilesGone, FindLeftovers, Interrupted,
           StepFails, CommitCheck, WriteManifest, WriteRow, CommitFails, DeleteWav, DeleteFails,
           Deleted, Undo, Release, Committing
<1>3. job'.pc \in Committing => job.pc \in Committing \/ (reader.pc # "reading" /\ ~player.recent)
    <2>1. CASE CommitCheck
        BY <1>0, <2>1, Finished DEF CommitCheck, Blocked, StageClaimed, Committing
    <2>2. CASE \/ PlanPass \/ EmptyPass \/ ClearCancels \/ MachineFree \/ GiveUpWaiting
               \/ CheckBeforeLease \/ Announce \/ OpenWav \/ WriteManifest \/ WriteRow \/ Undo
        BY <1>0, <2>2, Moved
        DEF PlanPass, EmptyPass, ClearCancels, MachineFree, GiveUpWaiting, CheckBeforeLease,
            Announce, OpenWav, WriteManifest, WriteRow, Undo, Committing
    <2>3. CASE ReadRow
        <3>1. job'.pc \in {"roles", "undo"}
            BY <1>0, <2>3 DEF ReadRow, JobStart, Finish, JobType
        <3>2. QED
            BY <3>1 DEF Committing
    <2>4. CASE SkipRole \/ DropRole \/ DeleteWav \/ DeleteFails
        <3>1. job'.pc = job.pc
            BY <1>0, <2>4 DEF SkipRole, DropRole, DeleteWav, DeleteFails, JobType
        <3>2. QED
            BY <3>1
    <2>5. CASE ReuseFlac \/ Rename
        BY <1>0, <2>5, Adopted DEF ReuseFlac, Rename, Committing
    <2>6. CASE RemoveBadFlac \/ RemoveUnreadFlac \/ EncodeTemp
        BY <2>6 DEF RemoveBadFlac, RemoveUnreadFlac, RemoveTwin, EncodeTemp
    <2>7. CASE FindLeftovers
        <3>1. job'.pc = "commit"
            BY <1>0, <2>7 DEF FindLeftovers, JobType
        <3>2. QED
            BY <3>1 DEF Committing
    <2>8. CASE Interrupted \/ FilesGone \/ StepFails \/ CommitFails \/ Deleted
        BY <1>0, <2>8, Finished
        DEF Interrupted, FilesGone, StepFails, CommitFails, Deleted, Committing
    <2>9. CASE Release
        BY <2>9 DEF Release, JobStart, Committing
    <2>10. QED
        BY <2>1, <2>2, <2>3, <2>4, <2>5, <2>6, <2>7, <2>8, <2>9 DEF Job
<1>4. QED
    BY <1>1, <1>2, <1>3 DEF ReadersInv

\* A restart forgets the job, its readers and the player; the rest of the app
\* changes no file of a meeting that stays kept.
LEMMA OthersKeepFiles ==
    ASSUME TypeOK, FilesInv, Others \/ Arrivals, meeting = "kept", meeting' = "kept"
    PROVE  FilesInv' /\ UNCHANGED <<row, disk>> /\ job' \in {job, JobStart}
<1> USE DEF stored, flags, others
<1>1. UNCHANGED <<layout, row, disk>> /\ (job' = job \/ job' = JobStart)
    BY DEF Others, Arrivals, MachineIdle, ReaderClaims, ReaderLoads, ReaderDone, PlayCancels,
           PlayLoads, PlayPicks, GraceEnds, SweepDeletes, PurgeBarrier, Purge, WipeBarrier,
           WipeProceeds, WipeGivesUp, WipeErases, PurgeMeeting, MachineBusy, ReaderAsks, PlayAsked,
           SweepLooks, PurgeAsked, WipeHalts, Edit, Restart
<1>2. CASE job' = job
    BY <1>1, <1>2 DEF FilesInv, RowIsWhole, PlanIsWhole, MadeIsNew, RolesInOrder, TodoRoles
<1>3. CASE job' = JobStart
    <2>1. job'.pc = "idle" /\ job'.made = {}
        BY <1>3 DEF JobStart
    <2>2. QED
        BY <1>1, <2>1, RestingKeeps DEF Planning, Committing
<1>4. QED
    BY <1>1, <1>2, <1>3

\* The player's file is one the row it read names.
LEMMA PlaysWhatIsNamed ==
    ASSUME NEW rec \in Recording
    PROVE  StoredPlayback(rec) = NoPath \/ \E r \in Roles : StoredPlayback(rec) = rec[r]
    BY DEF StoredPlayback, Roles, Sources, Derived

LEMMA OthersSpareReaders ==
    ASSUME TypeOK, FilesInv, ReadersInv, PlayerIsRecent, Others \/ Arrivals,
           meeting = "kept", meeting' = "kept"
    PROVE  ReadersInv'
<1> USE DEF stored, flags, others
<1>0. /\ UNCHANGED row /\ (job' = job \/ job' = JobStart) /\ row \in Recording
      /\ reader \in ReaderType /\ player \in PlayerType
    BY OthersKeepFiles DEF TypeOK
<1>1. JobStart.pc \notin Committing
    BY DEF JobStart, Committing
<1>2. CASE ReaderLoads
    <2>1. job' = job /\ player' = player /\ job.pc \notin Committing
        BY <1>2 DEF ReaderLoads, StorageFree, StorageHeld, Committing
    <2>2. /\ reader'.pc = "reading"
          /\ reader'.files = {row[r] : r \in {q \in Roles : OnDisk(row, q)}}
        BY <1>0, <1>2 DEF ReaderLoads, MeetingExists, ReaderType
    <2>3. QED
        BY <1>0, <2>1, <2>2 DEF ReadersInv, OnDisk
<1>3. CASE PlayLoads
    <2>1. job' = job /\ reader' = reader /\ job.pc \notin Committing /\ player.pc = "load"
        BY <1>3 DEF PlayLoads, StorageFree, StorageHeld, Committing
    <2>2. player'.pc = "plan" /\ player'.rec = row /\ player'.file = player.file /\ player'.recent
        BY <1>0, <1>3, <2>1 DEF PlayLoads, MeetingExists, AudioDeleted, PlayerType, PlayerIsRecent
    <2>3. QED
        BY <1>0, <2>1, <2>2 DEF ReadersInv
<1>4. CASE PlayPicks
    <2>1. job' = job /\ reader' = reader /\ player.pc = "plan"
        BY <1>4 DEF PlayPicks
    <2>2. player'.pc = "playing" /\ player'.recent = player.recent
          /\ player'.file = StoredPlayback(player.rec)
        BY <1>0, <1>4 DEF PlayPicks, PlayerType
    <2>3. player.rec = row /\ player.recent /\ job.pc \notin Committing
        BY <2>1 DEF ReadersInv
    <2>4. player'.file # NoPath => \E r \in Roles : player'.file = row[r]
        BY <1>0, <2>2, <2>3, PlaysWhatIsNamed
    <2>5. QED
        BY <1>0, <2>1, <2>2, <2>3, <2>4 DEF ReadersInv
<1>5. CASE PlayAsked \/ PlayCancels \/ GraceEnds
    <2>1. job' = job /\ reader' = reader
        BY <1>5 DEF PlayAsked, PlayCancels, GraceEnds
    <2>2. /\ player'.pc \notin {"plan"}
          /\ player'.file = NoPath \/ (player'.file = player.file /\ player'.recent = player.recent)
        <3>1. CASE PlayCancels
            <4>1. /\ player'.pc = "load" /\ player'.file = player.file
                  /\ player'.recent = player.recent
                BY <1>0, <3>1 DEF PlayCancels, PlayerType
            <4>2. QED
                BY <4>1
        <3>2. CASE PlayAsked
            BY <3>2 DEF PlayAsked, NoPlayer
        <3>3. CASE GraceEnds
            BY <3>3 DEF GraceEnds, NoPlayer
        <3>4. QED
            BY <1>5, <3>1, <3>2, <3>3
    <2>3. QED
        BY <1>0, <2>1, <2>2 DEF ReadersInv
<1>6. CASE ReaderAsks \/ ReaderClaims \/ ReaderDone \/ PurgeAsked
    <2>1. job' = job /\ player' = player
        BY <1>6 DEF ReaderAsks, ReaderClaims, ReaderDone, PurgeAsked
    <2>2. reader'.pc # "reading"
        <3>1. CASE ReaderClaims
            BY <1>0, <3>1 DEF ReaderClaims, ReaderType
        <3>2. CASE ReaderAsks
            BY <3>2 DEF ReaderAsks, NoReader
        <3>3. CASE ReaderDone \/ PurgeAsked
            BY <3>3 DEF ReaderDone, PurgeAsked, NoReader
        <3>4. QED
            BY <1>6, <3>1, <3>2, <3>3
    <2>3. QED
        BY <1>0, <2>1, <2>2 DEF ReadersInv
<1>7. CASE Restart
    <2>1. job' = JobStart /\ player' = NoPlayer
        BY <1>7 DEF Restart
    <2>2. reader'.pc # "reading"
        BY <1>0, <1>7 DEF Restart, NoReader, ReaderType
    <2>3. QED
        BY <1>0, <1>1, <2>1, <2>2 DEF ReadersInv, NoPlayer
<1>8. CASE \/ MachineIdle \/ SweepDeletes \/ PurgeBarrier \/ WipeBarrier \/ WipeProceeds
           \/ WipeGivesUp \/ MachineBusy \/ SweepLooks \/ WipeHalts \/ Edit
    BY <1>0, <1>8
    DEF MachineIdle, SweepDeletes, PurgeBarrier, WipeBarrier, WipeProceeds, WipeGivesUp,
        MachineBusy, SweepLooks, WipeHalts, Edit, ReadersInv
<1>9. CASE Purge \/ WipeErases
    BY <1>9 DEF Purge, WipeErases, PurgeMeeting
<1>10. QED
    BY <1>2, <1>3, <1>4, <1>5, <1>6, <1>7, <1>8, <1>9 DEF Others, Arrivals

\* A FLAC on disk is the job's: audio, or damaged.
LEMMA FlacsStayOurs ==
    ASSUME TypeOK, FlacsAreOurs, [Next]_vars
    PROVE  FlacsAreOurs'
<1> USE DEF stored, flags, others
<1>1. disk \in Folder /\ \A r \in Roles : Flac(r) \in Files
    BY RolesAndFiles DEF TypeOK
<1>2. SUFFICES \A g \in Files : disk'[g] \in {disk[g], "none", "own"}
    BY <1>1, <1>2 DEF FlacsAreOurs
<1>3. CASE RemoveBadFlac \/ RemoveUnreadFlac \/ Rename \/ DeleteWav \/ Undo
    BY <1>1, <1>3 DEF RemoveBadFlac, RemoveUnreadFlac, RemoveTwin, Rename, DeleteWav, Undo, Folder
<1>4. CASE Purge \/ WipeErases \/ SweepDeletes
    BY <1>1, <1>4 DEF Purge, WipeErases, SweepDeletes, PurgeMeeting, NothingOnDisk, Folder
<1>5. CASE ~(RemoveBadFlac \/ RemoveUnreadFlac \/ Rename \/ DeleteWav \/ Undo \/ Purge
               \/ WipeErases \/ SweepDeletes)
    <2>1. disk' = disk
        BY <1>5
        DEF Next, vars, Job, Others, Arrivals, PlanPass, EmptyPass, ClearCancels, MachineFree,
            GiveUpWaiting, CheckBeforeLease, Announce, ReadRow, SkipRole, DropRole, ReuseFlac,
            OpenWav, EncodeTemp, FilesGone, FindLeftovers, Interrupted, StepFails, CommitCheck,
            WriteManifest, WriteRow, CommitFails, DeleteFails, Deleted, Release, MachineIdle,
            ReaderClaims, ReaderLoads, ReaderDone, PlayCancels, PlayLoads, PlayPicks, GraceEnds,
            PurgeBarrier, WipeBarrier, WipeProceeds, WipeGivesUp, MachineBusy, ReaderAsks,
            PlayAsked, SweepLooks, PurgeAsked, WipeHalts, Edit, Restart
    <2>2. QED
        BY <2>1
<1>6. QED
    BY <1>3, <1>4, <1>5

LEMMA PlayerStaysRecent ==
    ASSUME TypeOK, PlayerIsRecent, [Next]_vars
    PROVE  PlayerIsRecent'
<1> USE DEF stored, flags, others
<1>0. player \in PlayerType
    BY DEF TypeOK
<1>1. CASE PlayAsked \/ PlayCancels \/ PlayLoads \/ PlayPicks \/ GraceEnds \/ Restart
    <2>1. CASE PlayAsked \/ GraceEnds \/ Restart
        <3>1. CASE PlayAsked
            <4>1. player' = [NoPlayer EXCEPT !.pc = "asked", !.recent = TRUE]
                BY <3>1 DEF PlayAsked
            <4>2. player'.recent = TRUE
                BY <4>1 DEF NoPlayer
            <4>3. QED
                BY <4>2 DEF PlayerIsRecent
        <3>2. CASE GraceEnds \/ Restart
            <4>1. player' = NoPlayer
                BY <3>2 DEF GraceEnds, Restart
            <4>2. QED
                BY <4>1 DEF NoPlayer, PlayerIsRecent
        <3>3. QED
            BY <2>1, <3>1, <3>2
    <2>2. CASE PlayCancels \/ PlayLoads \/ PlayPicks
        <3>1. player.recent
            BY <2>2 DEF PlayCancels, PlayLoads, PlayPicks, PlayerIsRecent
        <3>2. player'.recent = player.recent
            BY <1>0, <2>2 DEF PlayCancels, PlayLoads, PlayPicks, PlayerType
        <3>3. QED
            BY <3>1, <3>2 DEF PlayerIsRecent
    <2>3. QED
        BY <1>1, <2>1, <2>2
<1>2. CASE ~(PlayAsked \/ PlayCancels \/ PlayLoads \/ PlayPicks \/ GraceEnds \/ Restart)
    <2>1. player' = player
        BY <1>2
        DEF Next, vars, Job, Others, Arrivals, PlanPass, EmptyPass, ClearCancels, MachineFree,
            GiveUpWaiting, CheckBeforeLease, Announce, ReadRow, SkipRole, DropRole, ReuseFlac,
            RemoveBadFlac, RemoveUnreadFlac, RemoveTwin, Rename, DeleteWav, Undo, OpenWav,
            EncodeTemp, FilesGone, FindLeftovers, Interrupted, StepFails, CommitCheck,
            WriteManifest, WriteRow, CommitFails, DeleteFails, Deleted, Release, MachineIdle,
            ReaderClaims, ReaderLoads, ReaderDone, SweepDeletes, PurgeBarrier, Purge, WipeBarrier,
            WipeProceeds, WipeGivesUp, WipeErases, MachineBusy, ReaderAsks, SweepLooks,
            PurgeAsked, WipeHalts, Edit
    <2>2. QED
        BY <2>1 DEF PlayerIsRecent
<1>3. QED
    BY <1>1, <1>2

-----------------------------------------------------------------------------
(* The theorems.                                                           *)

LEMMA KeptInvInit == Init => KeptInv
<1> SUFFICES ASSUME Init PROVE KeptInv
    OBVIOUS
<1>1. /\ layout \in Layouts /\ row = layout.row /\ disk = layout.disk
      /\ job = JobStart /\ reader = NoReader /\ player = NoPlayer
    BY DEF Init
<1>2. /\ PathsAsWritten(row)
      /\ \A r \in Roles : row[r] # NoPath => disk[row[r]] \in Audio
      /\ \A r \in Roles : disk[Flac(r)] \in {"none", "own", "bad"}
      /\ \A d \in layout.regen : row[d] = NoPath => IsStorageV2(row)
    BY <1>1, LayoutsAssumption
<1>3. Whole(row, disk, layout)
    BY <1>1, <1>2, RolesSplit DEF Whole, Rebuilds
<1>4. QED
    BY <1>1, <1>2, <1>3
    DEF KeptInv, FlacsAreOurs, PlayerIsRecent, FilesInv, RowIsWhole, PlanIsWhole, MadeIsNew,
        RolesInOrder, ReadersInv, JobStart, NoReader, NoPlayer, Planning, Committing

LEMMA KeptStaysKept ==
    ASSUME TypeOK, [Next]_vars, meeting' = "kept"
    PROVE  meeting = "kept"
<1> USE DEF stored, flags, others
<1>1. CASE Job
    BY <1>1, JobMoves
<1>2. CASE Others \/ Arrivals
    BY <1>2
    DEF Others, Arrivals, MachineIdle, ReaderClaims, ReaderLoads, ReaderDone, PlayCancels,
        PlayLoads, PlayPicks, GraceEnds, SweepDeletes, PurgeBarrier, Purge, WipeBarrier,
        WipeProceeds, WipeGivesUp, WipeErases, PurgeMeeting, MachineBusy, ReaderAsks, PlayAsked,
        SweepLooks, PurgeAsked, WipeHalts, Edit, Restart
<1>3. CASE UNCHANGED vars
    BY <1>3 DEF vars
<1>4. QED
    BY <1>1, <1>2, <1>3 DEF Next

LEMMA KeptInvStep == TypeOK /\ KeptInv /\ [Next]_vars => KeptInv'
<1> SUFFICES ASSUME TypeOK, KeptInv, [Next]_vars PROVE KeptInv'
    OBVIOUS
<1>1. FlacsAreOurs' /\ PlayerIsRecent'
    BY FlacsStayOurs, PlayerStaysRecent DEF KeptInv
<1>2. ASSUME meeting' = "kept" PROVE FilesInv' /\ ReadersInv'
    <2>1. meeting = "kept" /\ FilesInv /\ ReadersInv /\ PlayerIsRecent
        BY <1>2, KeptStaysKept DEF KeptInv
    <2>2. CASE Job
        BY <2>1, <2>2, JobKeepsFiles, JobSparesReaders
    <2>3. CASE Others \/ Arrivals
        BY <1>2, <2>1, <2>3, OthersKeepFiles, OthersSpareReaders
    <2>4. CASE UNCHANGED vars
        BY <2>1, <2>4
        DEF vars, stored, flags, others, FilesInv, RowIsWhole, PlanIsWhole, MadeIsNew,
            RolesInOrder, TodoRoles, ReadersInv
    <2>5. QED
        BY <2>2, <2>3, <2>4 DEF Next
<1>3. QED
    BY <1>1, <1>2 DEF KeptInv

LEMMA KeptInvHolds == Spec => []KeptInv
<1>1. Init => KeptInv
    BY KeptInvInit
<1>2. TypeOK /\ KeptInv /\ [Next]_vars => KeptInv'
    BY KeptInvStep
<1>3. QED
    BY <1>1, <1>2, StateKeepsShape, PTL DEF Spec

\* Every channel and mix that was recorded can be read from the row, whatever
\* stops, failures, torn commits and restarts the job meets, until retention or
\* the user deletes it (compress_meeting, replace_meeting_recording).
THEOREM NoAudioIsLost == Spec => []AudioKept
<1>1. KeptInv => AudioKept
    BY DEF KeptInv, FilesInv, RowIsWhole, Whole, Rebuilds, AudioKept, Readable, Regenerates
<1>2. QED
    BY <1>1, KeptInvHolds, PTL

\* A run that has loaded the row keeps its files: it claimed its stage before,
\* and the job asks for stages under the lock it deletes under (blocked).
THEOREM ReadersAreSpared == Spec => []ReadersKeepFiles
<1>1. KeptInv => ReadersKeepFiles
    BY DEF KeptInv, FilesInv, RowIsWhole, Whole, ReadersInv, ReadersKeepFiles
<1>2. QED
    BY <1>1, KeptInvHolds, PTL

\* The player keeps its WAV for the whole grace period, though it picks it
\* after it gave the storage lock back (prepare_playback).
THEOREM PlayersAreSpared == Spec => []PlayerKeepsFile
<1>1. KeptInv => PlayerKeepsFile
    <2> SUFFICES ASSUME KeptInv, meeting = "kept", player.file # NoPath
                 PROVE  disk[player.file] \in Audio
        BY DEF PlayerKeepsFile
    <2>1. PICK r \in Roles : player.file = row[r]
        BY DEF KeptInv, ReadersInv
    <2>2. QED
        BY <2>1 DEF KeptInv, FilesInv, RowIsWhole, Whole
<1>2. QED
    BY <1>1, KeptInvHolds, PTL

\* The job deletes no WAV it hasn't proven to be the stored audio, and takes
\* back no file but the FLACs it made (remove_leftovers, convert_one).
THEOREM OnlyProvenCopiesGo == Spec => OnlyCopiesGo
<1>1. TypeOK /\ KeptInv /\ [Next]_vars =>
        [meeting' = "kept" =>
            \A f \in Files : disk[f] \in {"odd", "other"} => disk'[f] = disk[f]]_vars
    <2> SUFFICES ASSUME TypeOK, KeptInv, [Next]_vars, meeting' = "kept",
                        NEW f \in Files, disk[f] \in {"odd", "other"}
                 PROVE  disk'[f] = disk[f]
        OBVIOUS
    <2> USE DEF stored, flags, others
    <2>1. meeting = "kept" /\ FilesInv /\ disk \in Folder /\ job \in JobType
        BY KeptStaysKept DEF KeptInv, TypeOK
    <2>2. \A r \in Roles : f # Flac(r)
        BY DEF KeptInv, FlacsAreOurs
    <2>3. CASE RemoveBadFlac \/ RemoveUnreadFlac \/ Rename
        <3>1. AtRole \/ Encoding
            BY <2>3 DEF RemoveBadFlac, RemoveUnreadFlac, Rename
        <3>2. RoleHasWav /\ disk[RoleWav] = "own"
            BY <2>3 DEF RemoveBadFlac, RemoveUnreadFlac, Rename, RoleConverts
        <3>3. FlacTwin(RoleWav) = Flac(Role) /\ Role \in Roles
            BY <2>1, <3>1, <3>2, OwnWav, TodoCases DEF FilesInv, RowIsWhole
        <3>4. QED
            BY <2>1, <2>2, <2>3, <3>3
            DEF RemoveBadFlac, RemoveUnreadFlac, RemoveTwin, Rename, Folder
    <2>4. CASE DeleteWav
        <3>1. \A g \in job.del : disk[g] = "own"
            BY <2>1, <2>4 DEF DeleteWav, FilesInv, PlanIsWhole, Committing
        <3>2. QED
            BY <2>1, <2>4, <3>1 DEF DeleteWav, Folder
    <2>5. CASE Undo
        <3>1. \E r \in Roles : f = Wav(r)
            BY <2>2, FilesByForm
        <3>2. f \notin job.made
            BY <2>1, <3>1, PathForms DEF FilesInv, MadeIsNew
        <3>3. QED
            BY <2>1, <2>5, <3>2 DEF Undo, Folder
    <2>6. CASE Job /\ ~(RemoveBadFlac \/ RemoveUnreadFlac \/ Rename \/ DeleteWav \/ Undo)
        <3>1. disk' = disk
            BY <2>6
            DEF Job, PlanPass, EmptyPass, ClearCancels, MachineFree, GiveUpWaiting,
                CheckBeforeLease, Announce, ReadRow, SkipRole, DropRole, ReuseFlac, OpenWav,
                EncodeTemp, FilesGone, FindLeftovers, Interrupted, StepFails, CommitCheck,
                WriteManifest, WriteRow, CommitFails, DeleteFails, Deleted, Release
        <3>2. QED
            BY <3>1
    <2>7. CASE Others \/ Arrivals
        BY <2>1, <2>7, OthersKeepFiles
    <2>8. CASE UNCHANGED vars
        BY <2>8 DEF vars
    <2>9. QED
        BY <2>3, <2>4, <2>5, <2>6, <2>7, <2>8 DEF Next
<1>2. QED
    BY <1>1, KeptInvHolds, StateKeepsShape, PTL DEF Spec, OnlyCopiesGo
=============================================================================
