--------------------------- MODULE LibraryProofs ---------------------------
(***************************************************************************)
(* What holds of the library for any number of notes, meetings, folders,   *)
(* changes and troubles: it keeps its shape, implements KeptRecordings,    *)
(* Keep local is not lost with the database, and a note comes back with a  *)
(* text that one of its folders had.                                       *)
(*                                                                         *)
(* Tidy says which folders, files and recordings there may be; it is all   *)
(* that the refinement and the heal need.  On top of it, OwedKept is about *)
(* what was kept local, Texts about what was written, Dates about which    *)
(* text a date stands for, and SaysLocalNow about the manifests of an open *)
(* library.                                                                *)
(***************************************************************************)
EXTENDS Library, TLAPS, FiniteSetTheorems

-----------------------------------------------------------------------------
(* The inductive invariant                                                 *)

\* The recordings under way: nothing but their folder is on disk.
Recorders == {m \in Meetings : m = rec \/ m \in stopping}
Fresh(m) == /\ m \in born /\ m \in dirs
            /\ manifest[m] = NoFile /\ mirror[m] = NoFile
            /\ ~Attached(db, m)
            /\ HasMeeting(db, m) => ~db.meeting[m].staged

RecordersAreFresh == (\A m \in Recorders : Fresh(m)) /\ rec \notin stopping

ClosedIsIdle == app = "closed" => /\ rec = NoRecording
                                  /\ stopping = {} /\ purging = {} /\ deleting = {}

FilesHaveFolders == /\ \A m \in dirs : m \in born
                    /\ \A m \in Meetings : manifest[m] # NoFile \/ mirror[m] # NoFile => m \in dirs

PurgesAreAsked == purging \subseteq asked

\* What this heal has still to look at, and what it has seen to or failed on.
HealGoesOn == app = "healing" =>
    /\ \A m \in todo : m \in dirs /\ manifest[m] # NoFile
    /\ \A m \in dirs : manifest[m] # NoFile /\ m \notin todo =>
            Attached(db, m) \/ <<m, "rows">> \in missed

Tidy == RecordersAreFresh /\ ClosedIsIdle /\ FilesHaveFolders /\ PurgesAreAsked /\ HealGoesOn

\* What was owed is kept local, or its folder can still say so.
OwedKept == \A m \in owed :
    /\ m \in born
    /\ EffLocal(db, m)
    /\ ~HasMeeting(db, m) /\ manifest[m] # NoFile => Recorded(manifest[m]) # "no"

\* A manifest that does not deny what keeps m local, as far as it can know.
Admits(d, m, file) ==
    /\ OwnLocal(d, m) => file.local # "no"
    /\ file.path = NoteFolder(d, NoteOf[m]) /\ FolderLocal(d, file.path) => file.flag # "no"

\* Manifests of an open library, of which no write is owed.
SaysLocalNow == app = "ready" => \A m \in Meetings :
    Attached(db, m) /\ manifest[m] # NoFile /\ <<m, "manifest">> \notin missed =>
        Admits(db, m, manifest[m])

\* A text on record: of a note in the database or its copy, or of a mirror.
InRows(d, n, v) == HasNote(d, n) /\ v = MirrorOf(d, n)
OnRecord(n, v) == \/ InRows(db, n, v)
                  \/ backup # NoBackup /\ InRows(backup, n, v)
                  \/ \E m \in Siblings(n) : mirror[m] # NoFile /\ v = mirror[m]

\* No text comes from the future, and a date stands for one text.
Dates == \A n \in Notes : \A v, w \in Mirror : OnRecord(n, v) =>
            /\ v.body <= v.at /\ v.at <= now
            /\ OnRecord(n, w) /\ v.at = w.at => v.body = w.body

\* Ids of notes are given out before there is a row with them.
NotesAreBorn ==
    /\ \A n \in Notes : HasNote(db, n) => n \in born
    /\ backup # NoBackup => \A n \in Notes : HasNote(backup, n) => n \in born
    /\ \A m \in Meetings : m \in born => NoteOf[m] \in born

\* A note that is gone, and was not deleted, is as its folders tell it.
TellsOf(n) == \A m \in Siblings(n) :
    /\ ~HasMeeting(db, m) /\ m \notin Recorders
    /\ m \in purging => n \in deleting
    /\ manifest[m] # NoFile => Text(m) \in told[n]

\* One of the texts told of, or one written since.
Tellable(n, body) == body \in told[n] \/ \A t \in told[n] : body > t

Texts == \A n \in Notes : told[n] # {} =>
    /\ n \in born
    /\ \A t \in told[n] : t <= now
    /\ IF HasNote(db, n) THEN Tellable(n, db.note[n].body) ELSE TellsOf(n)

-----------------------------------------------------------------------------
(* The shape of the state                                                  *)

\* Nothing is no row, no file and no copy.
LEMMA NothingIsThere ==
    /\ NoRow \notin NoteRow /\ NoRow \notin MeetingRow
    /\ NoFile \notin Manifest /\ NoFile \notin Mirror
    /\ NoBackup \notin Database
    /\ 0 \notin Meetings
<1>1. NoRow \notin NoteRow
    BY DEF NoRow, NoteRow
<1>2. NoRow \notin MeetingRow
    BY DEF NoRow, MeetingRow
<1>3. NoFile \notin Manifest
    BY DEF NoFile, Manifest
<1>4. NoFile \notin Mirror
    BY DEF NoFile, Mirror
<1>5. NoBackup \notin Database
    BY DEF NoBackup, Database
<1>6. Cardinality(Meetings) \in Nat
    BY LibraryAssumption, FS_CardinalityType
<1>7. 0 \notin Meetings
    BY <1>6, LibraryAssumption
<1>8. QED
    BY <1>1, <1>2, <1>3, <1>4, <1>5, <1>7

LEMMA StampsAreNumbers == /\ Stamps \subseteq Nat /\ 0 \in Stamps
                          /\ \A k \in Nat : k <= MaxNow => k \in Stamps
    BY LibraryBoundsAssumption DEF Stamps

LEMMA ManifestTyped ==
    ASSUME NEW d \in Database, NEW m \in Meetings
    PROVE  ManifestOf(d, m) \in Manifest
<1>1. NoteOf[m] \in Notes
    BY LibraryAssumption
<1>2. NoteFolder(d, NoteOf[m]) \in Folders \cup {Unfiled}
    BY <1>1 DEF NoteFolder, HasNote, Database, NoteRow
<1>3. QED
    BY <1>2 DEF ManifestOf, Manifest, Flag, Said

LEMMA BlindTyped == BlindManifest \in Manifest
    BY DEF BlindManifest, Manifest, Said

LEMMA MirrorTyped ==
    ASSUME NEW d \in Database, NEW n \in Notes, HasNote(d, n)
    PROVE  MirrorOf(d, n) \in Mirror
    BY DEF HasNote, Database, NoteRow, MirrorOf, Mirror

LEMMA MergedTyped ==
    ASSUME NEW file \in Said, NEW row \in Said, NEW same \in BOOLEAN
    PROVE  MergeFlags(file, row, same) \in Said
    BY DEF MergeFlags, Said, Flag

LEMMA BackfillTyped ==
    ASSUME NEW file \in Manifest \cup {NoFile}, NEW row \in Manifest
    PROVE  BackfillManifest(file, row) \in Manifest
<1>1. CASE file = NoFile
    BY <1>1 DEF BackfillManifest
<1>2. CASE file # NoFile
    <2> DEFINE path == IF file.path = Unfiled THEN row.path ELSE file.path
    <2>1. file \in Manifest
        BY <1>2
    <2> DEFINE local == MergeFlags(file.local, row.local, TRUE)
    <2> DEFINE flag == MergeFlags(file.flag, row.flag, path = row.path)
    <2>2. local \in Said /\ flag \in Said
        BY <2>1, MergedTyped DEF Manifest
    <2>3. path \in Folders \cup {Unfiled}
        BY <2>1 DEF Manifest
    <2>4. BackfillManifest(file, row) = [local |-> local, path |-> path, flag |-> flag]
        BY <1>2 DEF BackfillManifest
    <2> HIDE DEF path, local, flag
    <2>5. QED
        BY <2>2, <2>3, <2>4 DEF Manifest
<1>3. QED
    BY <1>1, <1>2

\* A round of writes costs a number of failures.
LEMMA WritesAreCounted ==
    ASSUME TypeOK, NEW kind \in Notices, NEW M \in SUBSET Meetings, NEW W \in SUBSET Meetings,
           Wrote(kind, M, W)
    PROVE  trouble' \in Nat /\ missed' \subseteq Meetings \X (Notices \cup {"rows"})
<1>1. IsFiniteSet(M \ W)
    BY LibraryAssumption, FS_Subset
<1>2. Cardinality(M \ W) \in Nat
    BY <1>1, FS_CardinalityType
<1>3. trouble \in Nat
    BY LibraryBoundsAssumption DEF TypeOK
<1>4. trouble' \in Nat
    BY <1>2, <1>3 DEF Wrote, Trouble
<1>5. missed' \subseteq Meetings \X (Notices \cup {"rows"})
    BY DEF Wrote, TypeOK, Notices
<1>6. QED
    BY <1>4, <1>5

-----------------------------------------------------------------------------
(* What self-heal builds                                                   *)

\* What heal_one may leave of the rows of d: folders and notes that were
\* there stay, and of the meetings only m changes.
Rebuilds(d, e, m) ==
    /\ e \in Database
    /\ \A f \in Folders : d.folder[f] # "absent" => e.folder[f] = d.folder[f]
    /\ \A n \in Notes : HasNote(d, n) \/ n # NoteOf[m] => e.note[n] = d.note[n]
    /\ HasNote(e, NoteOf[m]) /\ ~HasNote(d, NoteOf[m]) =>
        IF mirror[m] = NoFile THEN e.note[NoteOf[m]].body = 0 /\ e.note[NoteOf[m]].at = 0
        ELSE MirrorOf(e, NoteOf[m]) = mirror[m]
    /\ \A o \in Meetings : o # m => e.meeting[o] = d.meeting[o]
    /\ HasMeeting(d, m) => HasMeeting(e, m) /\ (OwnLocal(d, m) => OwnLocal(e, m))
    /\ Attached(d, m) => Attached(e, m)

LEMMA FolderRebuilt ==
    ASSUME NEW d \in Database, NEW m \in Meetings, NEW file \in Manifest
    PROVE  Rebuilds(d, WithFolder(d, file), m)
<1>1. CASE file.path = Unfiled \/ (file.path # Unfiled /\ d.folder[file.path] # "absent")
    BY <1>1 DEF WithFolder, Rebuilds
<1>2. CASE ~(file.path = Unfiled \/ (file.path # Unfiled /\ d.folder[file.path] # "absent"))
    <2> DEFINE flag == IF file.flag = "yes" THEN "local" ELSE "open"
    <2>1. file.path \in Folders
        BY <1>2 DEF Manifest
    <2>2. WithFolder(d, file) = [d EXCEPT !.folder[file.path] = flag]
        BY <1>2 DEF WithFolder
    <2>3. flag \in {"absent", "open", "local"}
        OBVIOUS
    <2> HIDE DEF flag
    <2>4. WithFolder(d, file) \in Database
        BY <2>1, <2>2, <2>3 DEF Database
    <2>5. /\ WithFolder(d, file).note = d.note
          /\ WithFolder(d, file).meeting = d.meeting
          /\ \A f \in Folders : f # file.path => WithFolder(d, file).folder[f] = d.folder[f]
        BY <2>1, <2>2 DEF Database
    <2>6. QED
        BY <1>2, <2>1, <2>4, <2>5 DEF Rebuilds, HasNote, HasMeeting, OwnLocal, Attached
<1>3. QED
    BY <1>1, <1>2

LEMMA NoteRebuilt ==
    ASSUME TypeOK, NEW d \in Database, NEW m \in Meetings, manifest[m] # NoFile
    PROVE  Rebuilds(d, WithNote(d, m), m) /\ HasNote(WithNote(d, m), NoteOf[m])
<1> DEFINE n == NoteOf[m]
<1> DEFINE row == IF mirror[m] = NoFile THEN [folder |-> manifest[m].path, body |-> 0, at |-> 0]
                  ELSE [folder |-> manifest[m].path, body |-> mirror[m].body,
                        at |-> mirror[m].at]
<1>0. n \in Notes
    BY LibraryAssumption
<1>1. CASE HasNote(d, n)
    BY <1>1 DEF WithNote, Rebuilds
<1>2. CASE ~HasNote(d, n)
    <2>1. WithNote(d, m) = [d EXCEPT !.note[n] = row]
        BY <1>2 DEF WithNote
    <2>2. row \in NoteRow
        BY StampsAreNumbers DEF TypeOK, Manifest, Mirror, NoteRow
    <2>3. /\ mirror[m] = NoFile => row.body = 0 /\ row.at = 0
          /\ mirror[m] # NoFile => row.body = mirror[m].body /\ row.at = mirror[m].at
                                   /\ [body |-> row.body, at |-> row.at] = mirror[m]
        BY DEF TypeOK, Mirror
    <2> HIDE DEF row
    <2>4. WithNote(d, m) \in Database
        BY <1>0, <2>1, <2>2 DEF Database
    <2>5. /\ WithNote(d, m).folder = d.folder
          /\ WithNote(d, m).meeting = d.meeting
          /\ WithNote(d, m).note[n] = row
          /\ \A o \in Notes : o # n => WithNote(d, m).note[o] = d.note[o]
        BY <1>0, <2>1 DEF Database
    <2>6. HasNote(WithNote(d, m), n)
        BY <2>2, <2>5, NothingIsThere DEF HasNote
    <2>7. QED
        BY <1>2, <2>3, <2>4, <2>5, <2>6 DEF Rebuilds, HasNote, HasMeeting, OwnLocal, Attached,
            MirrorOf
<1>3. QED
    BY <1>1, <1>2

\* A row of m's meeting that keeps what was there.
LEMMA RowRebuilt ==
    ASSUME NEW d \in Database, NEW m \in Meetings, NEW row \in MeetingRow,
           OwnLocal(d, m) => row.local, Attached(d, m) => row.attached
    PROVE  /\ Rebuilds(d, [d EXCEPT !.meeting[m] = row], m)
           /\ [d EXCEPT !.meeting[m] = row].meeting[m] = row
           /\ [d EXCEPT !.meeting[m] = row].note = d.note
           /\ [d EXCEPT !.meeting[m] = row].folder = d.folder
<1> DEFINE e == [d EXCEPT !.meeting[m] = row]
<1>1. e \in Database
    BY DEF Database
<1>2. /\ e.folder = d.folder /\ e.note = d.note /\ e.meeting[m] = row
      /\ \A o \in Meetings : o # m => e.meeting[o] = d.meeting[o]
    BY DEF Database
<1>3. row # NoRow
    BY NothingIsThere
<1> HIDE DEF e
<1>4. QED
    <2>1. Rebuilds(d, e, m)
        BY <1>1, <1>2, <1>3 DEF Rebuilds, HasNote, HasMeeting, OwnLocal, Attached
    <2>2. QED
        BY <1>2, <2>1 DEF e

LEMMA RebuildsOnward ==
    ASSUME NEW d \in Database, NEW e \in Database, NEW g, NEW m \in Meetings,
           Rebuilds(d, e, m), Rebuilds(e, g, m)
    PROVE  Rebuilds(d, g, m)
<1>1. NoteOf[m] \in Notes
    BY LibraryAssumption
<1>2. \A n \in Notes : HasNote(d, n) \/ n # NoteOf[m] => g.note[n] = d.note[n]
    BY DEF Rebuilds, HasNote
<1>3. \A f \in Folders : d.folder[f] # "absent" => g.folder[f] = d.folder[f]
    BY DEF Rebuilds
<1>4. ASSUME HasNote(g, NoteOf[m]), ~HasNote(d, NoteOf[m])
      PROVE  IF mirror[m] = NoFile THEN g.note[NoteOf[m]].body = 0 /\ g.note[NoteOf[m]].at = 0
             ELSE MirrorOf(g, NoteOf[m]) = mirror[m]
    BY <1>1, <1>4 DEF Rebuilds, HasNote, MirrorOf
<1>5. QED
    BY <1>2, <1>3, <1>4 DEF Rebuilds, HasMeeting

LEMMA MeetingRebuilt ==
    ASSUME TypeOK, NEW d \in Database, NEW m \in Meetings, ~HasMeeting(d, m)
    PROVE  /\ Rebuilds(d, WithMeeting(d, m), m)
           /\ Attached(WithMeeting(d, m), m)
           /\ WithMeeting(d, m).note = d.note
           /\ WithMeeting(d, m).folder = d.folder
<1> DEFINE row == [attached |-> TRUE, staged |-> FALSE, local |-> manifest[m].local # "no"]
<1>1. row \in MeetingRow /\ row.attached
    BY DEF MeetingRow
<1>2. ~OwnLocal(d, m)
    BY DEF OwnLocal
<1>3. WithMeeting(d, m) = [d EXCEPT !.meeting[m] = row]
    BY DEF WithMeeting
<1> HIDE DEF row
<1>4. row # NoRow
    BY <1>1, NothingIsThere
<1>5. QED
    BY <1>1, <1>2, <1>3, <1>4, RowRebuilt DEF Attached, HasMeeting

LEMMA AttachedRebuilt ==
    ASSUME NEW d \in Database, NEW m \in Meetings, HasMeeting(d, m)
    PROVE  /\ Rebuilds(d, AttachedRow(d, m), m)
           /\ Attached(AttachedRow(d, m), m)
<1> DEFINE row == [d.meeting[m] EXCEPT !.attached = TRUE]
<1>1. d.meeting[m] \in MeetingRow
    BY DEF HasMeeting, Database
<1>2. row \in MeetingRow /\ row.attached /\ row.local = d.meeting[m].local
    BY <1>1 DEF MeetingRow
<1>3. AttachedRow(d, m) = [d EXCEPT !.meeting[m] = row]
    BY <1>1 DEF AttachedRow, Database
<1> HIDE DEF row
<1>4. row # NoRow
    BY <1>2, NothingIsThere
<1>5. QED
    BY <1>2, <1>3, <1>4, RowRebuilt DEF Attached, HasMeeting, OwnLocal

\* [d EXCEPT !.meeting[m].local = TRUE]
LEMMA LocalRebuilt ==
    ASSUME NEW d \in Database, NEW m \in Meetings, HasMeeting(d, m),
           NEW e, e = [d EXCEPT !.meeting[m].local = TRUE]
    PROVE  /\ Rebuilds(d, e, m)
           /\ OwnLocal(e, m)
<1> DEFINE row == [d.meeting[m] EXCEPT !.local = TRUE]
<1>1. d.meeting[m] \in MeetingRow
    BY DEF HasMeeting, Database
<1>2. row \in MeetingRow /\ row.local /\ row.attached = d.meeting[m].attached
    BY <1>1 DEF MeetingRow
<1>3. e = [d EXCEPT !.meeting[m] = row]
    BY <1>1 DEF Database
<1> HIDE DEF row
<1>4. row # NoRow
    BY <1>2, NothingIsThere
<1>5. (Attached(d, m) => row.attached) /\ (OwnLocal(d, m) => row.local)
    BY <1>2 DEF Attached
<1>6. Rebuilds(d, e, m) /\ e.meeting[m] = row
    <2>1. row \in MeetingRow
        BY <1>2
    <2>2. /\ Rebuilds(d, [d EXCEPT !.meeting[m] = row], m)
          /\ [d EXCEPT !.meeting[m] = row].meeting[m] = row
        BY <1>5, <2>1, RowRebuilt
    <2>3. QED
        BY <1>3, <2>2
<1>7. QED
    BY <1>2, <1>4, <1>6 DEF HasMeeting, OwnLocal

LEMMA EnsuredRebuilt ==
    ASSUME NEW d \in Database, NEW m \in Meetings, HasMeeting(d, m)
    PROVE  Rebuilds(d, Ensured(d, m), m) /\ EffLocal(Ensured(d, m), m)
<1>1. CASE EffLocal(d, m)
    BY <1>1 DEF Ensured, Rebuilds
<1>2. CASE ~EffLocal(d, m)
    <2>1. Ensured(d, m) = [d EXCEPT !.meeting[m].local = TRUE]
        BY <1>2 DEF Ensured
    <2>2. QED
        BY <2>1, LocalRebuilt DEF EffLocal
<1>3. QED
    BY <1>1, <1>2

\* What self-heal leaves of a folder: the meeting whole, its note there, and
\* kept local unless the folder says it is not.
LEMMA HealedIsWhole ==
    ASSUME TypeOK, NEW m \in Meetings, manifest[m] # NoFile
    PROVE  /\ Rebuilds(db, Healed(m), m)
           /\ Attached(Healed(m), m)
           /\ ~HasMeeting(db, m) => HasNote(Healed(m), NoteOf[m])
           /\ ~HasMeeting(db, m) /\ Recorded(manifest[m]) # "no" => EffLocal(Healed(m), m)
<1>0. db \in Database /\ manifest[m] \in Manifest /\ NoteOf[m] \in Notes
    BY LibraryAssumption DEF TypeOK
<1>1. CASE HasMeeting(db, m)
    <2> DEFINE e == AttachedRow(db, m)
    <2>1. Rebuilds(db, e, m) /\ Attached(e, m)
        BY <1>0, <1>1, AttachedRebuilt
    <2>2. e \in Database /\ HasMeeting(e, m)
        BY <2>1 DEF Rebuilds, Attached
    <2>3. Healed(m) = IF Recorded(manifest[m]) = "yes" THEN Ensured(e, m) ELSE e
        BY <1>1 DEF Healed
    <2> HIDE DEF e
    <2>4. CASE Recorded(manifest[m]) = "yes"
        <3>1. Rebuilds(e, Ensured(e, m), m)
            BY <2>2, EnsuredRebuilt
        <3>2. Rebuilds(db, Ensured(e, m), m)
            BY <1>0, <2>1, <2>2, <3>1, RebuildsOnward
        <3>3. QED
            BY <1>1, <2>1, <2>3, <2>4, <3>1, <3>2 DEF Rebuilds
    <2>5. CASE Recorded(manifest[m]) # "yes"
        BY <1>1, <2>1, <2>3, <2>5
    <2>6. QED
        BY <2>4, <2>5
<1>2. CASE ~HasMeeting(db, m)
    <2> DEFINE f == WithFolder(db, manifest[m])
    <2> DEFINE n == WithNote(f, m)
    <2> DEFINE row == WithMeeting(n, m)
    <2> DEFINE kin == IF Inherited(row, m) THEN [row EXCEPT !.meeting[m].local = TRUE] ELSE row
    <2>1. Healed(m) = IF Recorded(manifest[m]) = "no" THEN kin ELSE Ensured(kin, m)
        BY <1>2 DEF Healed, WithKin, WithRows
    <2>2. Rebuilds(db, f, m) /\ f.meeting = db.meeting
        BY <1>0, FolderRebuilt DEF WithFolder, Database
    <2>3. Rebuilds(f, n, m) /\ HasNote(n, NoteOf[m]) /\ n.meeting = f.meeting
        BY <1>0, <2>2, NoteRebuilt DEF WithNote, Rebuilds, Database
    <2>4. f \in Database /\ n \in Database /\ ~HasMeeting(n, m)
        BY <1>2, <2>2, <2>3 DEF Rebuilds, HasMeeting
    <2>5. Rebuilds(n, row, m) /\ Attached(row, m) /\ row.note = n.note
        BY <2>4, MeetingRebuilt
    <2> HIDE DEF f, n, row
    <2>6. row \in Database /\ HasMeeting(row, m)
        BY <2>5 DEF Rebuilds, Attached
    <2>7. Rebuilds(row, kin, m)
        <3>1. CASE Inherited(row, m)
            BY <2>6, <3>1, LocalRebuilt
        <3>2. CASE ~Inherited(row, m)
            BY <2>6, <3>2 DEF Rebuilds
        <3>3. QED
            BY <3>1, <3>2
    <2> HIDE DEF kin
    <2>8. kin \in Database /\ HasMeeting(kin, m)
        BY <2>6, <2>7 DEF Rebuilds
    <2>9. Rebuilds(db, kin, m)
        BY <1>0, <2>2, <2>3, <2>4, <2>5, <2>6, <2>7, RebuildsOnward
    <2>10. Rebuilds(kin, Ensured(kin, m), m) /\ EffLocal(Ensured(kin, m), m)
        BY <2>8, EnsuredRebuilt
    <2>11. Rebuilds(db, Ensured(kin, m), m)
        BY <1>0, <2>8, <2>9, <2>10, RebuildsOnward
    <2>12. HasNote(kin, NoteOf[m]) /\ Attached(kin, m)
        BY <1>0, <2>3, <2>5, <2>7 DEF Rebuilds, HasNote
    <2>13. HasNote(Ensured(kin, m), NoteOf[m]) /\ Attached(Ensured(kin, m), m)
        BY <1>0, <2>10, <2>12 DEF Rebuilds, HasNote
    <2>14. QED
        BY <2>1, <2>9, <2>10, <2>11, <2>12, <2>13
<1>3. QED
    BY <1>1, <1>2

\* What a heal that dies leaves of a folder.
LEMMA HealPrefixRebuilds ==
    ASSUME TypeOK, NEW m \in Meetings, manifest[m] # NoFile, NEW e \in HealPrefixes(m)
    PROVE  Rebuilds(db, e, m)
<1>0. db \in Database /\ manifest[m] \in Manifest
    BY DEF TypeOK
<1>1. CASE e = db \/ e = Healed(m)
    <2>1. Rebuilds(db, db, m)
        BY <1>0 DEF Rebuilds
    <2>2. QED
        BY <1>1, <2>1, HealedIsWhole
<1>2. CASE HasMeeting(db, m) /\ e # db
    BY <1>0, <1>2, AttachedRebuilt DEF HealPrefixes
<1>3. CASE ~HasMeeting(db, m) /\ e # db /\ e # Healed(m)
    <2> DEFINE f == WithFolder(db, manifest[m])
    <2> DEFINE n == WithNote(f, m)
    <2> DEFINE row == WithRows(m)
    <2> DEFINE kin == WithKin(m)
    <2>1. e \in {f, n, row, kin}
        BY <1>3 DEF HealPrefixes
    <2>2. Rebuilds(db, f, m) /\ f.meeting = db.meeting
        BY <1>0, FolderRebuilt DEF WithFolder, Database
    <2>3. Rebuilds(f, n, m) /\ n.meeting = f.meeting
        BY <1>0, <2>2, NoteRebuilt DEF WithNote, Rebuilds, Database
    <2>4. f \in Database /\ n \in Database /\ ~HasMeeting(n, m)
        BY <1>3, <2>2, <2>3 DEF Rebuilds, HasMeeting
    <2>5. Rebuilds(n, row, m) /\ Attached(row, m)
        BY <2>4, MeetingRebuilt DEF WithRows
    <2>6. kin = IF Inherited(row, m) THEN [row EXCEPT !.meeting[m].local = TRUE] ELSE row
        BY DEF WithKin
    <2> HIDE DEF f, n, row, kin
    <2>7. row \in Database /\ HasMeeting(row, m)
        BY <2>5 DEF Rebuilds, Attached
    <2>8. Rebuilds(row, kin, m)
        <3>1. CASE Inherited(row, m)
            BY <2>6, <2>7, <3>1, LocalRebuilt
        <3>2. CASE ~Inherited(row, m)
            BY <2>6, <2>7, <3>2 DEF Rebuilds
        <3>3. QED
            BY <3>1, <3>2
    <2>9. Rebuilds(db, n, m)
        BY <1>0, <2>2, <2>3, <2>4, RebuildsOnward
    <2>10. Rebuilds(db, row, m)
        BY <1>0, <2>4, <2>5, <2>9, RebuildsOnward
    <2>11. Rebuilds(db, kin, m)
        BY <1>0, <2>7, <2>8, <2>10, RebuildsOnward
    <2>12. QED
        BY <2>1, <2>2, <2>9, <2>10, <2>11
<1>4. QED
    BY <1>1, <1>2, <1>3

-----------------------------------------------------------------------------
(* Type correctness                                                        *)

\* Reach and the prefixes stay within the meetings.
LEMMA RefreshTypes ==
    ASSUME TypeOK, NEW d \in Database, NEW M \in SUBSET Meetings, Refresh(d, M)
    PROVE  /\ manifest' \in [Meetings -> Manifest \cup {NoFile}]
           /\ trouble' \in Nat /\ missed' \subseteq Meetings \X (Notices \cup {"rows"})
<1>1. PICK W \in SUBSET Reach(d, M) : Wrote("manifest", Reach(d, M), W) /\ WriteManifests(d, W)
    BY DEF Refresh
<1>2. Reach(d, M) \subseteq Meetings /\ W \subseteq Meetings /\ "manifest" \in Notices
    BY DEF Reach, Notices
<1>3. trouble' \in Nat /\ missed' \subseteq Meetings \X (Notices \cup {"rows"})
    BY <1>1, <1>2, WritesAreCounted
<1>4. manifest' \in [Meetings -> Manifest \cup {NoFile}]
    BY <1>1, ManifestTyped DEF WriteManifests, TypeOK
<1>5. QED
    BY <1>3, <1>4

LEMMA RefreshInOrderIsRefresh ==
    ASSUME NEW d, NEW M \in SUBSET Meetings, RefreshInOrder(d, M)
    PROVE  Refresh(d, M)
    BY DEF RefreshInOrder, Refresh, Prefixes

LEMMA SyncTypes ==
    ASSUME TypeOK, NEW d \in Database, NEW n \in Notes, HasNote(d, n), SyncMirrors(d, n)
    PROVE  /\ mirror' \in [Meetings -> Mirror \cup {NoFile}]
           /\ trouble' \in Nat /\ missed' \subseteq Meetings \X (Notices \cup {"rows"})
<1>1. PICK W \in Prefixes(Reach(d, Siblings(n))) :
            Wrote("mirror", Reach(d, Siblings(n)), W) /\ WriteMirrors(d, n, W)
    BY DEF SyncMirrors
<1>2. /\ Reach(d, Siblings(n)) \subseteq Meetings /\ W \subseteq Meetings
      /\ "mirror" \in Notices
    BY DEF Reach, Prefixes, Siblings, Notices
<1>3. trouble' \in Nat /\ missed' \subseteq Meetings \X (Notices \cup {"rows"})
    BY <1>1, <1>2, WritesAreCounted
<1>4. mirror' \in [Meetings -> Mirror \cup {NoFile}]
    BY <1>1, MirrorTyped DEF WriteMirrors, TypeOK
<1>5. QED
    BY <1>3, <1>4

LEMMA NewRowsTypes ==
    ASSUME TypeOK, NEW m \in Meetings, NEW staged \in BOOLEAN, NewRows(m, staged)
    PROVE  /\ db' \in Database
           /\ dirs' \subseteq Meetings /\ born' \subseteq Meetings \cup Notes
<1> DEFINE n == NoteOf[m]
<1> DEFINE row == [attached |-> FALSE, local |-> Inherited(db, m), staged |-> staged]
<1> DEFINE note == IF HasNote(db, n) THEN db.note[n]
                   ELSE [folder |-> Unfiled, body |-> 0, at |-> 0]
<1>1. n \in Notes /\ db \in Database
    BY LibraryAssumption DEF TypeOK
<1>2. row \in MeetingRow
    BY DEF MeetingRow, Inherited
<1>3. note \in NoteRow
    BY <1>1, StampsAreNumbers DEF HasNote, Database, NoteRow
<1>4. db' = [db EXCEPT !.meeting[m] = row, !.note[n] = note]
    BY <1>1 DEF NewRows, Database
<1>5. born' = born \cup {m, n} /\ dirs' = dirs \cup {m}
    BY DEF NewRows
<1> HIDE DEF row, note
<1>6. db' \in Database
    BY <1>1, <1>2, <1>3, <1>4 DEF Database
<1>7. QED
    BY <1>1, <1>5, <1>6 DEF TypeOK

USE DEF process, disk, counts, history

LEMMA InBoundsIsTyped ==
    ASSUME TypeOK, InBounds, trouble' \in Nat
    PROVE  trouble' \in 0..MaxTrouble
    BY LibraryBoundsAssumption DEF InBounds

LEMMA FaultIsCounted ==
    ASSUME TypeOK, NEW ok \in BOOLEAN, Fault(ok)
    PROVE  trouble' \in Nat
    BY LibraryBoundsAssumption DEF TypeOK, Fault, Trouble

LEMMA RowsTyped ==
    ASSUME NEW d \in Database
    PROVE  /\ \A m \in Meetings, row \in MeetingRow \cup {NoRow} :
                [d EXCEPT !.meeting[m] = row] \in Database
           /\ \A n \in Notes, row \in NoteRow \cup {NoRow} :
                [d EXCEPT !.note[n] = row] \in Database
           /\ \A m \in Meetings : HasMeeting(d, m) =>
                [d EXCEPT !.meeting[m].attached = TRUE] \in Database
<1>1. \A m \in Meetings, row \in MeetingRow \cup {NoRow} :
                [d EXCEPT !.meeting[m] = row] \in Database
    BY DEF Database
<1>2. \A n \in Notes, row \in NoteRow \cup {NoRow} : [d EXCEPT !.note[n] = row] \in Database
    BY DEF Database
<1>3. ASSUME NEW m \in Meetings, HasMeeting(d, m)
      PROVE  [d EXCEPT !.meeting[m].attached = TRUE] \in Database
    BY <1>3, AttachedRebuilt DEF AttachedRow, Rebuilds
<1>4. QED
    BY <1>1, <1>2, <1>3

\* Recording and import
LEMMA RecordingTypes ==
    ASSUME TypeOK, InBounds, NEW m \in Meetings,
           \/ StartRecording(m) \/ StopFails(m) \/ AttachRecording(m) \/ ImportStage(m)
           \/ ImportJoin(m) \/ Purge(m) \/ TakeSession
    PROVE  TypeOK'
<1>0. NoteOf[m] \in Notes /\ db \in Database
    BY LibraryAssumption DEF TypeOK
<1>1. CASE StartRecording(m)
    <2>1. /\ db' \in Database /\ dirs' \subseteq Meetings
          /\ born' \subseteq Meetings \cup Notes
        BY <1>1, NewRowsTypes DEF StartRecording
    <2>2. trouble' \in 0..MaxTrouble /\ rec' \in Meetings \cup {NoRecording}
        BY <1>1, FaultIsCounted, InBoundsIsTyped DEF StartRecording, TypeOK
    <2>3. QED
        BY <1>1, <2>1, <2>2 DEF StartRecording, TypeOK
<1>2. CASE StopFails(m)
    <2>1. trouble' \in 0..MaxTrouble
        BY <1>2, FaultIsCounted, InBoundsIsTyped DEF StopFails
    <2>2. QED
        BY <1>2, <2>1 DEF StopFails, TypeOK
<1>3. CASE AttachRecording(m)
    <2>1. PICK copy, stash, write \in BOOLEAN :
            /\ Trouble((IF copy THEN 0 ELSE 1) + (IF stash THEN 0 ELSE 1)
                        + (IF write THEN 0 ELSE 1))
            /\ mirror' = IF copy /\ HasNote(db, NoteOf[m])
                         THEN [mirror EXCEPT ![m] = MirrorOf(db, NoteOf[m])] ELSE mirror
            /\ manifest' = IF ~stash THEN manifest
                           ELSE [manifest EXCEPT ![m] = IF HasNote(db, NoteOf[m])
                                                        THEN ManifestOf(db, m)
                                                        ELSE BlindManifest]
            /\ db' = IF write /\ HasMeeting(db, m)
                     THEN [db EXCEPT !.meeting[m].attached = TRUE] ELSE db
        BY <1>3 DEF AttachRecording
    <2>2. trouble' \in Nat
        BY <2>1, LibraryBoundsAssumption DEF Trouble, TypeOK
    <2>3. trouble' \in 0..MaxTrouble
        BY <2>2, InBoundsIsTyped
    <2>4. mirror' \in [Meetings -> Mirror \cup {NoFile}]
        BY <1>0, <2>1, MirrorTyped DEF TypeOK
    <2>5. manifest' \in [Meetings -> Manifest \cup {NoFile}]
        BY <1>0, <2>1, ManifestTyped, BlindTyped DEF TypeOK
    <2>6. db' \in Database
        BY <1>0, <2>1, RowsTyped
    <2>7. QED
        BY <1>3, <2>3, <2>4, <2>5, <2>6 DEF AttachRecording, TypeOK
<1>4. CASE ImportStage(m)
    <2>1. /\ db' \in Database /\ dirs' \subseteq Meetings
          /\ born' \subseteq Meetings \cup Notes
        BY <1>4, NewRowsTypes DEF ImportStage
    <2>2. QED
        BY <1>4, <2>1 DEF ImportStage, TypeOK
<1>5. CASE ImportJoin(m)
    <2>1. db' \in Database
        BY <1>0, <1>5, RowsTyped DEF ImportJoin
    <2>2. QED
        BY <1>5, <2>1 DEF ImportJoin, TypeOK, Notices
<1>6. CASE Purge(m)
    <2>1. db' \in Database
        BY <1>0, <1>6, RowsTyped DEF Purge
    <2>2. trouble' \in Nat
        BY <1>6, FaultIsCounted DEF Purge
    <2>3. trouble' \in 0..MaxTrouble
        BY <2>2, InBoundsIsTyped
    <2>4. /\ dirs' \subseteq Meetings
          /\ manifest' \in [Meetings -> Manifest \cup {NoFile}]
          /\ mirror' \in [Meetings -> Mirror \cup {NoFile}]
        BY <1>6 DEF Purge, TypeOK
    <2>5. QED
        BY <1>6, <2>1, <2>3, <2>4 DEF Purge, TypeOK
<1>7. CASE TakeSession
    BY <1>7 DEF TakeSession, TypeOK
<1>8. QED
    BY <1>1, <1>2, <1>3, <1>4, <1>5, <1>6, <1>7

\* What the user does to a note
LEMMA NoteTypes ==
    ASSUME TypeOK, InBounds, NEW n \in Notes, NEW f \in Folders \cup {Unfiled}, NEW b \in BOOLEAN,
           EditNote(n) \/ BeginDelete(n) \/ DeleteRow(n) \/ MoveNote(n, f) \/ SetNoteLocal(n, b)
    PROVE  TypeOK'
<1>0. db \in Database
    BY DEF TypeOK
<1>1. Tick => now' \in Stamps
    BY LibraryBoundsAssumption DEF Tick, TypeOK, Stamps
<1>2. HasNote(db, n) => db.note[n] \in NoteRow
    BY <1>0 DEF HasNote, Database
<1>3. CASE EditNote(n)
    <2> DEFINE row == [db.note[n] EXCEPT !.body = now', !.at = now']
    <2>1. row \in NoteRow
        BY <1>1, <1>2, <1>3 DEF EditNote, NoteRow
    <2>2. db' = [db EXCEPT !.note[n] = row]
        BY <1>0, <1>3 DEF EditNote, Database
    <2> HIDE DEF row
    <2>3. db' \in Database /\ HasNote(db', n)
        BY <1>0, <2>1, <2>2, NothingIsThere DEF Database, HasNote
    <2>4. SyncMirrors(db', n)
        BY <1>3 DEF EditNote
    <2>5. /\ mirror' \in [Meetings -> Mirror \cup {NoFile}]
          /\ trouble' \in Nat /\ missed' \subseteq Meetings \X (Notices \cup {"rows"})
        BY <2>3, <2>4, SyncTypes
    <2>6. trouble' \in 0..MaxTrouble
        BY <2>5, InBoundsIsTyped
    <2>7. QED
        BY <1>1, <1>3, <2>3, <2>5, <2>6 DEF EditNote, TypeOK, Notices
<1>4. CASE BeginDelete(n)
    BY <1>4 DEF BeginDelete, TypeOK, Siblings
<1>5. CASE DeleteRow(n)
    <2>1. db' \in Database
        BY <1>0, <1>5, RowsTyped DEF DeleteRow
    <2>2. owed' \subseteq Meetings /\ told' \in [Notes -> SUBSET Stamps]
        BY <1>5, StampsAreNumbers DEF DeleteRow, StillOwed, TypeOK
    <2>3. QED
        BY <1>5, <2>1, <2>2 DEF DeleteRow, TypeOK
<1>6. CASE MoveNote(n, f)
    <2> DEFINE row == [db.note[n] EXCEPT !.folder = f, !.at = now']
    <2>1. row \in NoteRow
        BY <1>1, <1>2, <1>6 DEF MoveNote, NoteRow
    <2>2. db' = [db EXCEPT !.note[n] = row]
        BY <1>0, <1>6 DEF MoveNote, Database
    <2> HIDE DEF row
    <2>3. db' \in Database
        BY <1>0, <2>1, <2>2 DEF Database
    <2>4. Refresh(db', Siblings(n)) /\ Siblings(n) \subseteq Meetings
        BY <1>6, RefreshInOrderIsRefresh DEF MoveNote, Siblings
    <2>5. /\ manifest' \in [Meetings -> Manifest \cup {NoFile}]
          /\ trouble' \in Nat /\ missed' \subseteq Meetings \X (Notices \cup {"rows"})
        BY <2>3, <2>4, RefreshTypes
    <2>6. trouble' \in 0..MaxTrouble
        BY <2>5, InBoundsIsTyped
    <2>7. owed' \subseteq Meetings
        BY <1>6 DEF MoveNote, StillOwed, TypeOK
    <2>8. QED
        BY <1>1, <1>6, <2>3, <2>5, <2>6, <2>7 DEF MoveNote, TypeOK, Notices
<1>7. CASE SetNoteLocal(n, b)
    <2> DEFINE rows == [m \in Meetings |->
                            IF NoteOf[m] = n /\ HasMeeting(db, m)
                            THEN [db.meeting[m] EXCEPT !.local = b] ELSE db.meeting[m]]
    <2>1. rows \in [Meetings -> MeetingRow \cup {NoRow}]
        BY <1>0 DEF HasMeeting, Database, MeetingRow
    <2>2. db' = [db EXCEPT !.meeting = rows]
        BY <1>7 DEF SetNoteLocal
    <2> HIDE DEF rows
    <2>3. db' \in Database
        BY <1>0, <2>1, <2>2 DEF Database
    <2>4. Refresh(db', Siblings(n)) /\ Siblings(n) \subseteq Meetings
        BY <1>7 DEF SetNoteLocal, Siblings
    <2>5. /\ manifest' \in [Meetings -> Manifest \cup {NoFile}]
          /\ trouble' \in Nat /\ missed' \subseteq Meetings \X (Notices \cup {"rows"})
        BY <2>3, <2>4, RefreshTypes
    <2>6. trouble' \in 0..MaxTrouble
        BY <2>5, InBoundsIsTyped
    <2>7. owed' \subseteq Meetings
        BY <1>7 DEF SetNoteLocal, StillOwed, TypeOK
    <2>8. QED
        BY <1>1, <1>7, <2>3, <2>5, <2>6, <2>7 DEF SetNoteLocal, TypeOK, Notices
<1>8. QED
    BY <1>3, <1>4, <1>5, <1>6, <1>7

LEMMA FolderTypes ==
    ASSUME TypeOK, InBounds, NEW f \in Folders, NEW to \in {"absent", "open", "local"},
           SetFolder(f, to)
    PROVE  TypeOK'
<1> DEFINE folder == [db.folder EXCEPT ![f] = to]
<1> DEFINE note == [n \in Notes |->
                        IF to = "absent" /\ HasNote(db, n) /\ NoteFolder(db, n) = f
                        THEN [db.note[n] EXCEPT !.folder = Unfiled] ELSE db.note[n]]
<1>0. db \in Database
    BY DEF TypeOK
<1>1. now' \in Stamps
    BY LibraryBoundsAssumption DEF SetFolder, Tick, TypeOK, Stamps
<1>2. folder \in [Folders -> {"absent", "open", "local"}]
    BY <1>0 DEF Database
<1>3. note \in [Notes -> NoteRow \cup {NoRow}]
    BY <1>0 DEF HasNote, Database, NoteRow
<1>4. db' = [db EXCEPT !.folder = folder, !.note = note]
    BY <1>0 DEF SetFolder, Database
<1> HIDE DEF folder, note
<1>5. db' \in Database
    BY <1>0, <1>2, <1>3, <1>4 DEF Database
<1>6. Refresh(db', Subtree(db, f)) /\ Subtree(db, f) \subseteq Meetings
    BY DEF SetFolder, Subtree
<1>7. /\ manifest' \in [Meetings -> Manifest \cup {NoFile}]
      /\ trouble' \in Nat /\ missed' \subseteq Meetings \X (Notices \cup {"rows"})
    BY <1>5, <1>6, RefreshTypes
<1>8. trouble' \in 0..MaxTrouble
    BY <1>7, InBoundsIsTyped
<1>9. owed' \subseteq Meetings
    BY DEF SetFolder, StillOwed, TypeOK
<1>10. QED
    BY <1>1, <1>5, <1>7, <1>8, <1>9 DEF SetFolder, TypeOK, Notices

\* What the backfill makes of one folder, and what it counts.
NewerMirror(m) == /\ HasNote(db, NoteOf[m]) /\ mirror[m] # NoFile
                  /\ mirror[m].at > db.note[NoteOf[m]].at
Filled(m) == BackfillManifest(manifest[m], ManifestOf(db, m))
Caught(m) == IF HasNote(db, NoteOf[m])
             THEN BackfillMirror(mirror[m], MirrorOf(db, NoteOf[m])) ELSE mirror[m]

LEMMA BackfillWrites ==
    ASSUME TypeOK, Backfill
    PROVE  \E W \in SUBSET Reach(db, Meetings) : \E V \in SUBSET W :
            /\ trouble' \in Nat
            /\ manifest' = [m \in Meetings |-> IF m \in W THEN Filled(m) ELSE manifest[m]]
            /\ mirror' = [m \in Meetings |-> IF m \in V THEN Caught(m) ELSE mirror[m]]
            /\ missed' = (missed \ ((W \X {"manifest"}) \cup (V \X {"mirror"})))
                \cup ((Reach(db, Meetings) \ W) \X {"manifest"})
                \cup (((Reach(db, Meetings) \ V)
                        \cup {m \in Reach(db, Meetings) : NewerMirror(m)}) \X {"mirror"})
<1> DEFINE M == Reach(db, Meetings)
<1> DEFINE newer == {m \in M : HasNote(db, NoteOf[m]) /\ mirror[m] # NoFile
                               /\ mirror[m].at > db.note[NoteOf[m]].at}
<1>1. PICK W \in SUBSET M : \E V \in SUBSET W :
            /\ Trouble(Cardinality(M \ V))
            /\ manifest' = [m \in Meetings |->
                    IF m \in W THEN BackfillManifest(manifest[m], ManifestOf(db, m))
                    ELSE manifest[m]]
            /\ mirror' = [m \in Meetings |->
                    IF m \in V THEN IF HasNote(db, NoteOf[m])
                        THEN BackfillMirror(mirror[m], MirrorOf(db, NoteOf[m])) ELSE mirror[m]
                    ELSE mirror[m]]
            /\ missed' = (missed \ ((W \X {"manifest"}) \cup (V \X {"mirror"})))
                            \cup ((M \ W) \X {"manifest"})
                            \cup (((M \ V) \cup newer) \X {"mirror"})
    BY Zenon DEF Backfill
<1>2. PICK V \in SUBSET W :
            /\ Trouble(Cardinality(M \ V))
            /\ manifest' = [m \in Meetings |-> IF m \in W THEN Filled(m) ELSE manifest[m]]
            /\ mirror' = [m \in Meetings |-> IF m \in V THEN Caught(m) ELSE mirror[m]]
            /\ missed' = (missed \ ((W \X {"manifest"}) \cup (V \X {"mirror"})))
                            \cup ((M \ W) \X {"manifest"})
                            \cup (((M \ V) \cup newer) \X {"mirror"})
    BY <1>1, Zenon DEF Filled, Caught
<1>3. newer = {m \in M : NewerMirror(m)}
    BY DEF NewerMirror
<1>4. IsFiniteSet(M \ V)
    BY LibraryAssumption, FS_Subset DEF Reach
<1>5. trouble' \in Nat
    BY <1>2, <1>4, FS_CardinalityType, LibraryBoundsAssumption DEF Trouble, TypeOK
<1> HIDE DEF newer
<1>6. QED
    BY <1>2, <1>3, <1>5

LEMMA FilledTyped ==
    ASSUME TypeOK, NEW m \in Meetings
    PROVE  Filled(m) \in Manifest /\ Caught(m) \in Mirror \cup {NoFile}
<1>1. Filled(m) \in Manifest
    BY ManifestTyped, BackfillTyped DEF Filled, TypeOK
<1>2. NoteOf[m] \in Notes
    BY LibraryAssumption
<1>3. HasNote(db, NoteOf[m]) => MirrorOf(db, NoteOf[m]) \in Mirror
    BY <1>2, MirrorTyped DEF TypeOK
<1>4. QED
    BY <1>1, <1>3 DEF Caught, BackfillMirror, TypeOK

\* What a heal leaves that ends between its statements.
LEMMA BreaksTyped ==
    ASSUME TypeOK, HealGoesOn, NEW m \in Meetings, HealBreaks(m)
    PROVE  /\ Rebuilds(db, db', m) /\ db' \in Database
           /\ owed' \subseteq Meetings
<1>1. manifest[m] # NoFile
    BY DEF HealBreaks, HealGoesOn
<1>2. Rebuilds(db, db', m)
    BY <1>1, HealPrefixRebuilds DEF HealBreaks
<1>3. owed' \subseteq Meetings
    BY DEF HealBreaks, TypeOK
<1>4. QED
    BY <1>2, <1>3 DEF Rebuilds

LEMMA LaunchTypes ==
    ASSUME TypeOK, HealGoesOn, InBounds,
           \/ (\E due \in BOOLEAN : Open(due)) \/ BeginHeal \/ Backfill
           \/ \E m \in Meetings : SkipWhole(m) \/ HealOne(m) \/ HealFails(m)
    PROVE  TypeOK'
<1>1. ASSUME NEW due \in BOOLEAN, Open(due)
      PROVE  TypeOK'
    BY <1>1 DEF Open, TypeOK
<1>2. CASE BeginHeal
    BY <1>2 DEF BeginHeal, TypeOK
<1>3. ASSUME NEW m \in Meetings, SkipWhole(m)
      PROVE  TypeOK'
    BY <1>3 DEF SkipWhole, TypeOK
<1>4. ASSUME NEW m \in Meetings, HealOne(m)
      PROVE  TypeOK'
    <2>1. manifest[m] # NoFile
        BY <1>4 DEF HealOne, HealGoesOn
    <2>2. /\ Rebuilds(db, Healed(m), m)
          /\ ~HasMeeting(db, m) => HasNote(Healed(m), NoteOf[m])
        BY <2>1, HealedIsWhole
    <2>3. db' = Healed(m) /\ db' \in Database /\ NoteOf[m] \in Notes
        BY <1>4, <2>2, LibraryAssumption DEF HealOne, Rebuilds
    <2>4. CASE HasMeeting(db, m)
        BY <1>4, <2>3, <2>4 DEF HealOne, TypeOK
    <2>5. CASE ~HasMeeting(db, m)
        <3>1. SyncMirrors(db', NoteOf[m]) /\ HasNote(db', NoteOf[m])
            BY <1>4, <2>2, <2>3, <2>5 DEF HealOne
        <3>2. /\ mirror' \in [Meetings -> Mirror \cup {NoFile}]
              /\ trouble' \in Nat /\ missed' \subseteq Meetings \X (Notices \cup {"rows"})
            BY <2>3, <3>1, SyncTypes
        <3>3. trouble' \in 0..MaxTrouble
            BY <3>2, InBoundsIsTyped
        <3>4. QED
            BY <1>4, <2>3, <3>2, <3>3 DEF HealOne, TypeOK, Notices
    <2>6. QED
        BY <2>4, <2>5
<1>5. CASE Backfill
    <2>1. PICK W \in SUBSET Reach(db, Meetings), V \in SUBSET Reach(db, Meetings) :
            /\ trouble' \in Nat
            /\ manifest' = [o \in Meetings |-> IF o \in W THEN Filled(o) ELSE manifest[o]]
            /\ mirror' = [o \in Meetings |-> IF o \in V THEN Caught(o) ELSE mirror[o]]
            /\ missed' = (missed \ ((W \X {"manifest"}) \cup (V \X {"mirror"})))
                \cup ((Reach(db, Meetings) \ W) \X {"manifest"})
                \cup (((Reach(db, Meetings) \ V)
                        \cup {o \in Reach(db, Meetings) : NewerMirror(o)}) \X {"mirror"})
        BY <1>5, BackfillWrites
    <2>2. missed' \subseteq Meetings \X (Notices \cup {"rows"})
        BY <2>1 DEF Reach, TypeOK, Notices
    <2>3. /\ manifest' \in [Meetings -> Manifest \cup {NoFile}]
          /\ mirror' \in [Meetings -> Mirror \cup {NoFile}]
        BY <2>1, FilledTyped DEF TypeOK
    <2>4. trouble' \in 0..MaxTrouble
        BY <2>1, InBoundsIsTyped
    <2>5. QED
        BY <1>5, <2>2, <2>3, <2>4 DEF Backfill, TypeOK, Notices
<1>6. ASSUME NEW m \in Meetings, HealFails(m)
      PROVE  TypeOK'
    <2>1. db' \in Database /\ owed' \subseteq Meetings
        BY <1>6, BreaksTyped DEF HealFails
    <2>2. trouble' \in 0..MaxTrouble
        BY <1>6, FaultIsCounted, InBoundsIsTyped DEF HealFails
    <2>3. QED
        BY <1>6, <2>1, <2>2 DEF HealFails, TypeOK
<1>7. QED
    BY <1>1, <1>2, <1>3, <1>4, <1>5, <1>6

LEMMA DisasterTypes ==
    ASSUME TypeOK, HealGoesOn, InBounds,
           Crash \/ (\E m \in Meetings : CrashInHeal(m)) \/ LoseDb \/ RestoreBackup
    PROVE  TypeOK'
<1>0. trouble' = trouble + 1
    BY DEF Crash, CrashInHeal, LoseDb, RestoreBackup, Stopped, Trouble
<1>1. trouble' \in 0..MaxTrouble
    BY <1>0, LibraryBoundsAssumption DEF TypeOK, InBounds
<1>2. CASE Crash
    BY <1>1, <1>2 DEF Crash, Stopped, TypeOK
<1>3. ASSUME NEW m \in Meetings, CrashInHeal(m)
      PROVE  TypeOK'
    <2>1. db' \in Database /\ owed' \subseteq Meetings
        BY <1>3, BreaksTyped DEF CrashInHeal
    <2>2. QED
        BY <1>1, <1>3, <2>1 DEF CrashInHeal, Stopped, TypeOK
<1>4. CASE LoseDb
    <2>1. EmptyDb \in Database
        BY DEF EmptyDb, Database
    <2>2. told' \in [Notes -> SUBSET Stamps]
        <3>1. \A n \in Notes : Tells(n) \subseteq Stamps
            BY StampsAreNumbers DEF Tells, Text, Siblings, TypeOK, Mirror
        <3>2. QED
            BY <1>4, <3>1, StampsAreNumbers DEF LoseDb, TypeOK
    <2>3. owed' \subseteq Meetings
        BY <1>4 DEF LoseDb
    <2>4. QED
        BY <1>1, <1>4, <2>1, <2>2, <2>3 DEF LoseDb, TypeOK
<1>5. CASE RestoreBackup
    <2>1. db' \in Database /\ told' \in [Notes -> SUBSET Stamps]
        BY <1>5, StampsAreNumbers DEF RestoreBackup, TypeOK
    <2>2. QED
        BY <1>1, <1>5, <2>1 DEF RestoreBackup, TypeOK
<1>6. QED
    BY <1>2, <1>3, <1>4, <1>5

-----------------------------------------------------------------------------
(* What a step leaves of rows, files and folders                           *)

MissedManifest(m) == <<m, "manifest">> \in missed
MissedMirror(m) == <<m, "mirror">> \in missed

LEMMA RefreshEffect ==
    ASSUME TypeOK, NEW d \in Database, NEW M \in SUBSET Meetings, Refresh(d, M),
           NEW o \in Meetings
    PROVE  /\ o \in Reach(d, M) =>
                \/ manifest'[o] = ManifestOf(d, o)
                \/ manifest'[o] = manifest[o] /\ MissedManifest(o)'
           /\ o \notin Reach(d, M) =>
                manifest'[o] = manifest[o] /\ (MissedManifest(o) => MissedManifest(o)')
           /\ MissedMirror(o) => MissedMirror(o)'
<1>1. PICK W \in SUBSET Reach(d, M) : Wrote("manifest", Reach(d, M), W) /\ WriteManifests(d, W)
    BY DEF Refresh
<1>2. manifest'[o] = IF o \in W THEN ManifestOf(d, o) ELSE manifest[o]
    BY <1>1 DEF WriteManifests
<1>3. missed' = (missed \ (W \X {"manifest"})) \cup ((Reach(d, M) \ W) \X {"manifest"})
    BY <1>1 DEF Wrote
<1>4. QED
    BY <1>1, <1>2, <1>3 DEF MissedManifest, MissedMirror

LEMMA SyncEffect ==
    ASSUME TypeOK, NEW d \in Database, NEW n \in Notes, SyncMirrors(d, n), NEW o \in Meetings
    PROVE  /\ o \in Reach(d, Siblings(n)) =>
                \/ mirror'[o] = MirrorOf(d, n)
                \/ mirror'[o] = mirror[o] /\ MissedMirror(o)'
           /\ o \notin Reach(d, Siblings(n)) =>
                mirror'[o] = mirror[o] /\ (MissedMirror(o) => MissedMirror(o)')
           /\ MissedManifest(o) => MissedManifest(o)'
           /\ <<o, "rows">> \in missed => <<o, "rows">> \in missed'
<1> DEFINE M == Reach(d, Siblings(n))
<1>1. PICK W \in Prefixes(M) : Wrote("mirror", M, W) /\ WriteMirrors(d, n, W)
    BY DEF SyncMirrors
<1>2. mirror'[o] = IF o \in W THEN MirrorOf(d, n) ELSE mirror[o]
    BY <1>1 DEF WriteMirrors
<1>3. missed' = (missed \ (W \X {"mirror"})) \cup ((M \ W) \X {"mirror"})
    BY <1>1 DEF Wrote
<1>4. W \subseteq M
    BY DEF Prefixes
<1> HIDE DEF M
<1>5. /\ o \in M => \/ mirror'[o] = MirrorOf(d, n)
                    \/ mirror'[o] = mirror[o] /\ MissedMirror(o)'
      /\ o \notin M => mirror'[o] = mirror[o] /\ (MissedMirror(o) => MissedMirror(o)')
      /\ MissedManifest(o) => MissedManifest(o)'
      /\ <<o, "rows">> \in missed => <<o, "rows">> \in missed'
    BY <1>2, <1>3, <1>4 DEF MissedManifest, MissedMirror
<1>6. QED
    BY <1>5 DEF M

LEMMA BackfillEffect ==
    ASSUME TypeOK, Backfill, NEW o \in Meetings
    PROVE  /\ manifest'[o] # manifest[o] => o \in Reach(db, Meetings) /\ manifest'[o] = Filled(o)
           /\ mirror'[o] # mirror[o] => o \in Reach(db, Meetings) /\ mirror'[o] = Caught(o)
           /\ o \in Reach(db, Meetings) /\ ~MissedManifest(o)' => manifest'[o] = Filled(o)
           /\ o \in Reach(db, Meetings) /\ ~MissedMirror(o)' =>
                mirror'[o] = Caught(o) /\ ~NewerMirror(o)
<1> DEFINE M == Reach(db, Meetings)
<1>1. PICK W \in SUBSET M : \E V \in SUBSET W :
            /\ trouble' \in Nat
            /\ manifest' = [m \in Meetings |-> IF m \in W THEN Filled(m) ELSE manifest[m]]
            /\ mirror' = [m \in Meetings |-> IF m \in V THEN Caught(m) ELSE mirror[m]]
            /\ missed' = (missed \ ((W \X {"manifest"}) \cup (V \X {"mirror"})))
                            \cup ((M \ W) \X {"manifest"})
                            \cup (((M \ V) \cup {m \in M : NewerMirror(m)}) \X {"mirror"})
    BY BackfillWrites
<1>2. PICK V \in SUBSET W :
            /\ manifest' = [m \in Meetings |-> IF m \in W THEN Filled(m) ELSE manifest[m]]
            /\ mirror' = [m \in Meetings |-> IF m \in V THEN Caught(m) ELSE mirror[m]]
            /\ missed' = (missed \ ((W \X {"manifest"}) \cup (V \X {"mirror"})))
                            \cup ((M \ W) \X {"manifest"})
                            \cup (((M \ V) \cup {m \in M : NewerMirror(m)}) \X {"mirror"})
    BY <1>1
<1>3. /\ manifest'[o] = IF o \in W THEN Filled(o) ELSE manifest[o]
      /\ mirror'[o] = IF o \in V THEN Caught(o) ELSE mirror[o]
    BY <1>2
<1>4. /\ MissedManifest(o)' <=> o \in M \ W \/ (MissedManifest(o) /\ o \notin W)
      /\ o \in M /\ (o \notin V \/ NewerMirror(o)) => MissedMirror(o)'
    BY <1>2 DEF MissedManifest, MissedMirror
<1> HIDE DEF M
<1>5. /\ manifest'[o] # manifest[o] => o \in M /\ manifest'[o] = Filled(o)
      /\ mirror'[o] # mirror[o] => o \in M /\ mirror'[o] = Caught(o)
      /\ o \in M /\ ~MissedManifest(o)' => manifest'[o] = Filled(o)
      /\ o \in M /\ ~MissedMirror(o)' => mirror'[o] = Caught(o) /\ ~NewerMirror(o)
    BY <1>3, <1>4
<1>6. QED
    BY <1>5 DEF M

\* Whether d and e agree on a meeting's recording, and on all of its row.
SameRecording(d, e, m) ==
    /\ HasMeeting(e, m) <=> HasMeeting(d, m)
    /\ Attached(e, m) <=> Attached(d, m)
    /\ HasMeeting(e, m) => e.meeting[m].staged = d.meeting[m].staged

\* The commands about notes and folders.
NoteStep ==
    \/ \E n \in Notes, f \in Folders \cup {Unfiled}, b \in BOOLEAN :
            EditNote(n) \/ BeginDelete(n) \/ DeleteRow(n) \/ MoveNote(n, f) \/ SetNoteLocal(n, b)
    \/ \E g \in Folders, to \in {"absent", "open", "local"} : SetFolder(g, to)

\* They leave every recording alone.
LEMMA NotesKeepRecordings ==
    ASSUME TypeOK, NoteStep,
           NEW o \in Meetings
    PROVE  SameRecording(db, db', o)
<1>0. db \in Database
    BY DEF TypeOK
<1>1. ASSUME NEW n \in Notes, NEW b \in BOOLEAN, SetNoteLocal(n, b)
      PROVE  SameRecording(db, db', o)
    <2>1. db'.meeting[o] = IF NoteOf[o] = n /\ HasMeeting(db, o)
                           THEN [db.meeting[o] EXCEPT !.local = b] ELSE db.meeting[o]
        BY <1>0, <1>1 DEF SetNoteLocal, Database
    <2>2. CASE NoteOf[o] = n /\ HasMeeting(db, o)
        <3>1. db.meeting[o] \in MeetingRow
            BY <1>0, <2>2 DEF HasMeeting, Database
        <3>2. /\ db'.meeting[o] \in MeetingRow
              /\ db'.meeting[o].attached = db.meeting[o].attached
              /\ db'.meeting[o].staged = db.meeting[o].staged
            BY <2>1, <2>2, <3>1 DEF MeetingRow
        <3>3. QED
            BY <2>2, <3>2, NothingIsThere DEF SameRecording, HasMeeting, Attached
    <2>3. CASE ~(NoteOf[o] = n /\ HasMeeting(db, o))
        BY <2>1, <2>3 DEF SameRecording, HasMeeting, Attached
    <2>4. QED
        BY <2>2, <2>3
<1>2. ASSUME NEW n \in Notes, EditNote(n)
      PROVE  SameRecording(db, db', o)
    BY <1>0, <1>2 DEF EditNote, SameRecording, HasMeeting, Attached, Database
<1>3. ASSUME NEW n \in Notes, BeginDelete(n)
      PROVE  SameRecording(db, db', o)
    BY <1>3 DEF BeginDelete, SameRecording
<1>4. ASSUME NEW n \in Notes, DeleteRow(n)
      PROVE  SameRecording(db, db', o)
    BY <1>0, <1>4 DEF DeleteRow, SameRecording, HasMeeting, Attached, Database
<1>5. ASSUME NEW n \in Notes, NEW f \in Folders \cup {Unfiled}, MoveNote(n, f)
      PROVE  SameRecording(db, db', o)
    BY <1>0, <1>5 DEF MoveNote, SameRecording, HasMeeting, Attached, Database
<1>6. ASSUME NEW g \in Folders, NEW to \in {"absent", "open", "local"}, SetFolder(g, to)
      PROVE  SameRecording(db, db', o)
    BY <1>0, <1>6 DEF SetFolder, SameRecording, HasMeeting, Attached, Database
<1>7. QED
    BY <1>1, <1>2, <1>3, <1>4, <1>5, <1>6 DEF NoteStep

\* A new row: its meeting's, and its note's if there was none.
LEMMA NewRowsEffect ==
    ASSUME TypeOK, NEW m \in Meetings, NEW staged \in BOOLEAN, NewRows(m, staged)
    PROVE  /\ \A o \in Meetings : o # m => db'.meeting[o] = db.meeting[o]
           /\ HasMeeting(db', m) /\ ~Attached(db', m) /\ (db'.meeting[m].staged <=> staged)
           /\ \A n \in Notes : HasNote(db, n) \/ n # NoteOf[m] => db'.note[n] = db.note[n]
           /\ HasNote(db', NoteOf[m])
           /\ ~HasNote(db, NoteOf[m]) =>
                /\ NoteOf[m] \notin born
                /\ db'.note[NoteOf[m]] = [folder |-> Unfiled, body |-> 0, at |-> 0]
           /\ db'.folder = db.folder
           /\ dirs' = dirs \cup {m}
           /\ \A o \in Meetings : o \in born' <=> o \in born \/ o = m
           /\ \A n \in Notes : n \in born' <=> n \in born \/ n = NoteOf[m]
<1> DEFINE n0 == NoteOf[m]
<1> DEFINE row == [attached |-> FALSE, local |-> Inherited(db, m), staged |-> staged]
<1> DEFINE note == IF HasNote(db, n0) THEN db.note[n0]
                   ELSE [folder |-> Unfiled, body |-> 0, at |-> 0]
<1>1. n0 \in Notes /\ db \in Database
    BY LibraryAssumption DEF TypeOK
<1>2. row \in MeetingRow /\ ~row.attached /\ (row.staged <=> staged)
    BY DEF MeetingRow, Inherited
<1>3. note \in NoteRow
    BY <1>1, StampsAreNumbers DEF HasNote, Database, NoteRow
<1>4. db' = [db EXCEPT !.meeting[m] = row, !.note[n0] = note]
    BY <1>1 DEF NewRows, Database
<1>5. born' = born \cup {m, n0} /\ dirs' = dirs \cup {m} /\ (HasNote(db, n0) \/ n0 \notin born)
    BY DEF NewRows
<1>6. /\ HasNote(db, n0) => note = db.note[n0]
      /\ ~HasNote(db, n0) => note = [folder |-> Unfiled, body |-> 0, at |-> 0]
    OBVIOUS
<1> HIDE DEF row, note
<1>7. /\ db'.meeting[m] = row /\ db'.note[n0] = note /\ db'.folder = db.folder
      /\ \A o \in Meetings : o # m => db'.meeting[o] = db.meeting[o]
      /\ \A n \in Notes : n # n0 => db'.note[n] = db.note[n]
    BY <1>1, <1>4 DEF Database
<1>8. row # NoRow /\ note # NoRow
    BY <1>2, <1>3, NothingIsThere
<1>9. /\ \A o \in Meetings : o \in born' <=> o \in born \/ o = m
      /\ \A n \in Notes : n \in born' <=> n \in born \/ n = n0
    BY <1>1, <1>5, LibraryAssumption
<1>10. QED
    BY <1>2, <1>5, <1>6, <1>7, <1>8, <1>9 DEF HasMeeting, HasNote, Attached

\* The row of m after it was attached or removed: the others stay.
LEMMA RowEffect ==
    ASSUME NEW d \in Database, NEW m \in Meetings
    PROVE  /\ LET e == [d EXCEPT !.meeting[m] = NoRow]
              IN  /\ ~HasMeeting(e, m) /\ e.note = d.note /\ e.folder = d.folder
                  /\ \A o \in Meetings : o # m => e.meeting[o] = d.meeting[o]
           /\ HasMeeting(d, m) =>
                LET e == [d EXCEPT !.meeting[m].attached = TRUE]
                IN  /\ Attached(e, m) /\ e.note = d.note /\ e.folder = d.folder
                    /\ e.meeting[m].staged = d.meeting[m].staged
                    /\ e.meeting[m].local = d.meeting[m].local
                    /\ \A o \in Meetings : o # m => e.meeting[o] = d.meeting[o]
<1>1. LET e == [d EXCEPT !.meeting[m] = NoRow]
      IN  /\ ~HasMeeting(e, m) /\ e.note = d.note /\ e.folder = d.folder
          /\ \A o \in Meetings : o # m => e.meeting[o] = d.meeting[o]
    BY DEF HasMeeting, Database
<1>2. ASSUME HasMeeting(d, m)
      PROVE  LET e == [d EXCEPT !.meeting[m].attached = TRUE]
             IN  /\ Attached(e, m) /\ e.note = d.note /\ e.folder = d.folder
                 /\ e.meeting[m].staged = d.meeting[m].staged
                 /\ e.meeting[m].local = d.meeting[m].local
                 /\ \A o \in Meetings : o # m => e.meeting[o] = d.meeting[o]
    <2> DEFINE row == [d.meeting[m] EXCEPT !.attached = TRUE]
    <2> DEFINE e == [d EXCEPT !.meeting[m].attached = TRUE]
    <2>1. d.meeting[m] \in MeetingRow
        BY <1>2 DEF HasMeeting, Database
    <2>2. /\ row \in MeetingRow /\ row.attached /\ row.staged = d.meeting[m].staged
          /\ row.local = d.meeting[m].local
        BY <2>1 DEF MeetingRow
    <2>3. e = [d EXCEPT !.meeting[m] = row]
        BY DEF Database
    <2> HIDE DEF row
    <2>4. /\ e.meeting[m] = row /\ e.note = d.note /\ e.folder = d.folder
          /\ \A o \in Meetings : o # m => e.meeting[o] = d.meeting[o]
        BY <2>3 DEF Database
    <2>5. QED
        BY <2>2, <2>4, NothingIsThere DEF HasMeeting, Attached
<1>3. QED
    BY <1>1, <1>2

-----------------------------------------------------------------------------
(* Tidy                                                                    *)

\* A recording starts, or an import: its folder is new.
LEMMA NewRowsAreTidy ==
    ASSUME TypeOK, Tidy, NEW m \in Meetings, StartRecording(m) \/ ImportStage(m)
    PROVE  Tidy'
<1>1. PICK staged \in BOOLEAN : NewRows(m, staged) /\ (StartRecording(m) => ~staged)
    BY DEF StartRecording, ImportStage
<1>2. /\ \A o \in Meetings : o # m => db'.meeting[o] = db.meeting[o]
      /\ HasMeeting(db', m) /\ ~Attached(db', m) /\ (db'.meeting[m].staged <=> staged)
      /\ dirs' = dirs \cup {m}
      /\ \A o \in Meetings : o \in born' <=> o \in born \/ o = m
    BY <1>1, NewRowsEffect
<1>3. m \notin born /\ m \notin dirs /\ manifest[m] = NoFile /\ mirror[m] = NoFile
    BY DEF StartRecording, ImportStage, NextId, Tidy, FilesHaveFolders
<1>4. /\ app' = app /\ manifest' = manifest /\ mirror' = mirror /\ stopping' = stopping
      /\ purging' = purging /\ deleting' = deleting /\ todo' = todo /\ asked' = asked
      /\ app # "healing" /\ app # "closed"
    BY DEF StartRecording, ImportStage, Up
<1>5. rec' = rec \/ (rec' = m /\ StartRecording(m) /\ rec = NoRecording)
    BY DEF StartRecording, ImportStage
<1>6. m \notin Recorders
    BY <1>3 DEF Tidy, RecordersAreFresh, Fresh
<1>7. \A o \in Recorders' : Fresh(o)'
    <2>1. ASSUME NEW o \in Recorders'
          PROVE  Fresh(o)'
        <3>1. CASE o # m
            <4>1. Fresh(o)
                BY <1>4, <1>5, <2>1, <3>1 DEF Recorders, Tidy, RecordersAreFresh
            <4>2. QED
                BY <1>2, <1>4, <2>1, <3>1, <4>1 DEF Fresh, Recorders, HasMeeting, Attached
        <3>2. CASE o = m
            <4>1. StartRecording(m)
                BY <1>4, <1>5, <1>6, <2>1, <3>2 DEF Recorders
            <4>2. QED
                BY <1>1, <1>2, <1>3, <1>4, <3>2, <4>1 DEF Fresh
        <3>3. QED
            BY <3>1, <3>2
    <2>2. QED
        BY <2>1
<1>8. rec' \notin stopping'
    BY <1>4, <1>5, <1>6 DEF Recorders, Tidy, RecordersAreFresh
<1>9. FilesHaveFolders'
    BY <1>2, <1>4 DEF FilesHaveFolders, Tidy, TypeOK
<1>10. QED
    BY <1>4, <1>7, <1>8, <1>9 DEF Tidy, RecordersAreFresh, ClosedIsIdle, PurgesAreAsked,
        HealGoesOn

LEMMA SessionsAreTidy ==
    ASSUME TypeOK, Tidy, TakeSession \/ \E m \in Meetings : StopFails(m)
    PROVE  Tidy'
<1>1. Recorders' \subseteq Recorders
    <2>1. CASE TakeSession
        <3>1. rec' = NoRecording /\ stopping' = stopping \cup {rec}
            BY <2>1 DEF TakeSession
        <3>2. QED
            BY <3>1, NothingIsThere DEF Recorders, NoRecording
    <2>2. ASSUME NEW m \in Meetings, StopFails(m)
          PROVE  Recorders' \subseteq Recorders
        <3>1. rec' = rec /\ stopping' = stopping \ {m}
            BY <2>2 DEF StopFails
        <3>2. QED
            BY <3>1 DEF Recorders
    <2>3. QED
        BY <2>1, <2>2
<1>2. /\ born' = born /\ dirs' = dirs /\ manifest' = manifest /\ mirror' = mirror /\ db' = db
      /\ app' = app /\ app # "closed" /\ todo' = todo /\ purging' = purging /\ asked' = asked
      /\ missed' = missed
    BY DEF TakeSession, StopFails, Up
<1>3. rec' \notin stopping'
    BY NothingIsThere DEF TakeSession, StopFails, Tidy, RecordersAreFresh, TypeOK, NoRecording
<1>4. QED
    BY <1>1, <1>2, <1>3 DEF Tidy, RecordersAreFresh, Fresh, ClosedIsIdle, FilesHaveFolders,
        PurgesAreAsked, HealGoesOn

LEMMA AttachIsTidy ==
    ASSUME TypeOK, Tidy, NEW m \in Meetings, AttachRecording(m) \/ ImportJoin(m)
    PROVE  Tidy'
<1>0. db \in Database
    BY DEF TypeOK
<1>1. \A o \in Meetings : o # m => /\ db'.meeting[o] = db.meeting[o]
                                   /\ manifest'[o] = manifest[o] /\ mirror'[o] = mirror[o]
    <2>1. db' = db \/ (HasMeeting(db, m) /\ db' = [db EXCEPT !.meeting[m].attached = TRUE])
        BY DEF AttachRecording, ImportJoin
    <2>2. \A o \in Meetings : o # m => db'.meeting[o] = db.meeting[o]
        <3>1. CASE db' = db
            BY <3>1
        <3>2. CASE HasMeeting(db, m) /\ db' = [db EXCEPT !.meeting[m].attached = TRUE]
            BY <1>0, <3>2, RowEffect
        <3>3. QED
            BY <2>1, <3>1, <3>2
    <2>3. \A o \in Meetings : o # m => manifest'[o] = manifest[o] /\ mirror'[o] = mirror[o]
        BY DEF AttachRecording, ImportJoin, TypeOK
    <2>4. QED
        BY <2>2, <2>3
<1>2. /\ born' = born /\ dirs' = dirs /\ rec' = rec /\ app' = app /\ purging' = purging
      /\ asked' = asked /\ todo' = todo /\ app # "healing" /\ app # "closed"
    BY DEF AttachRecording, ImportJoin, Up
<1>3. m \in dirs
    BY DEF AttachRecording, ImportJoin, Tidy, RecordersAreFresh, Recorders, Fresh
<1>4. Recorders' \subseteq Recorders \ {m} /\ stopping' \subseteq stopping
    <2>1. CASE AttachRecording(m)
        BY <2>1 DEF AttachRecording, Recorders, Tidy, RecordersAreFresh
    <2>2. CASE ImportJoin(m)
        BY <2>2 DEF ImportJoin, Recorders, Tidy, RecordersAreFresh, Fresh
    <2>3. QED
        BY <2>1, <2>2
<1>5. \A o \in Recorders' : Fresh(o)'
    BY <1>1, <1>2, <1>4 DEF Recorders, Tidy, RecordersAreFresh, Fresh, HasMeeting, Attached
<1>6. FilesHaveFolders'
    BY <1>1, <1>2, <1>3 DEF FilesHaveFolders, Tidy
<1>7. QED
    BY <1>2, <1>4, <1>5, <1>6 DEF Tidy, RecordersAreFresh, ClosedIsIdle, PurgesAreAsked,
        HealGoesOn

LEMMA PurgeIsTidy ==
    ASSUME TypeOK, Tidy, NEW m \in Meetings, Purge(m)
    PROVE  Tidy'
<1>0. db \in Database
    BY DEF TypeOK
<1>1. /\ ~HasMeeting(db', m)
      /\ \A o \in Meetings : o # m => db'.meeting[o] = db.meeting[o]
    BY <1>0, RowEffect DEF Purge
<1>2. /\ \A o \in Meetings : o # m => manifest'[o] = manifest[o] /\ mirror'[o] = mirror[o]
      /\ manifest'[m] \in {manifest[m], NoFile} /\ mirror'[m] \in {mirror[m], NoFile}
    BY DEF Purge, TypeOK
<1>3. /\ dirs' = dirs \/ (dirs' = dirs \ {m} /\ manifest'[m] = NoFile /\ mirror'[m] = NoFile)
      /\ m \in Recorders => dirs' = dirs
    BY DEF Purge, TypeOK, Tidy, RecordersAreFresh, Fresh, Notices
<1>4. /\ born' = born /\ rec' = rec /\ stopping' = stopping /\ app' = app /\ asked' = asked
      /\ todo' = todo /\ app # "healing" /\ app # "closed" /\ purging' \subseteq purging
      /\ deleting' = deleting
    BY DEF Purge, Up
<1>5. \A o \in Recorders' : Fresh(o)'
    <2>1. ASSUME NEW o \in Recorders'
          PROVE  Fresh(o)'
        <3>1. Fresh(o) /\ o \in Meetings /\ o \in Recorders
            BY <1>4, <2>1 DEF Recorders, Tidy, RecordersAreFresh
        <3>2. CASE o = m
            BY <1>1, <1>2, <1>3, <1>4, <3>1, <3>2 DEF Fresh, Attached
        <3>3. CASE o # m
            BY <1>1, <1>2, <1>3, <1>4, <3>1, <3>3 DEF Fresh, Attached, HasMeeting
        <3>4. QED
            BY <3>2, <3>3
    <2>2. QED
        BY <2>1
<1>6. FilesHaveFolders'
    BY <1>2, <1>3, <1>4 DEF FilesHaveFolders, Tidy
<1>7. QED
    BY <1>4, <1>5, <1>6 DEF Tidy, RecordersAreFresh, ClosedIsIdle, PurgesAreAsked, HealGoesOn

\* They write into the folders of attached recordings only.
LEMMA NotesReachFolders ==
    ASSUME TypeOK, TypeOK', NoteStep,
           NEW o \in Meetings, ~(o \in dirs /\ Attached(db, o))
    PROVE  manifest'[o] = manifest[o] /\ mirror'[o] = mirror[o]
<1>0. db \in Database /\ db' \in Database
    BY DEF TypeOK
<1>1. Attached(db', o) <=> Attached(db, o)
    BY NotesKeepRecordings DEF SameRecording
<1>2. ASSUME NEW n \in Notes, EditNote(n)
      PROVE  manifest'[o] = manifest[o] /\ mirror'[o] = mirror[o]
    <2>1. SyncMirrors(db', n) /\ manifest' = manifest
        BY <1>2 DEF EditNote
    <2>2. o \notin Reach(db', Siblings(n))
        BY <1>1 DEF Reach, EditNote
    <2>3. QED
        BY <1>0, <2>1, <2>2, SyncEffect
<1>3. ASSUME NEW n \in Notes, BeginDelete(n) \/ DeleteRow(n)
      PROVE  manifest'[o] = manifest[o] /\ mirror'[o] = mirror[o]
    BY <1>3 DEF BeginDelete, DeleteRow
<1>4. ASSUME NEW n \in Notes, NEW f \in Folders \cup {Unfiled}, NEW b \in BOOLEAN,
             MoveNote(n, f) \/ SetNoteLocal(n, b)
      PROVE  manifest'[o] = manifest[o] /\ mirror'[o] = mirror[o]
    <2>1. Refresh(db', Siblings(n)) /\ mirror' = mirror
        BY <1>4, RefreshInOrderIsRefresh DEF MoveNote, SetNoteLocal, Siblings
    <2>2. o \notin Reach(db', Siblings(n)) /\ Siblings(n) \subseteq Meetings
        BY <1>1 DEF Reach, Siblings
    <2>3. QED
        BY <1>0, <2>1, <2>2, RefreshEffect
<1>5. ASSUME NEW g \in Folders, NEW to \in {"absent", "open", "local"}, SetFolder(g, to)
      PROVE  manifest'[o] = manifest[o] /\ mirror'[o] = mirror[o]
    <2>1. Refresh(db', Subtree(db, g)) /\ mirror' = mirror
        BY <1>5 DEF SetFolder
    <2>2. o \notin Reach(db', Subtree(db, g)) /\ Subtree(db, g) \subseteq Meetings
        BY <1>1 DEF Reach, Subtree
    <2>3. QED
        BY <1>0, <2>1, <2>2, RefreshEffect
<1>6. QED
    BY <1>2, <1>3, <1>4, <1>5 DEF NoteStep

LEMMA NotesAreTidy ==
    ASSUME TypeOK, TypeOK', Tidy, NoteStep
    PROVE  Tidy'
<1>1. \A o \in Meetings : SameRecording(db, db', o)
    BY NotesKeepRecordings
<1>2. \A o \in Meetings : ~(o \in dirs /\ Attached(db, o)) =>
                            manifest'[o] = manifest[o] /\ mirror'[o] = mirror[o]
    BY NotesReachFolders
<1>3. /\ born' = born /\ dirs' = dirs /\ rec' = rec /\ stopping' = stopping /\ app' = app
      /\ todo' = todo /\ app # "healing" /\ app # "closed"
    BY DEF NoteStep, EditNote, BeginDelete, DeleteRow, MoveNote, SetNoteLocal, SetFolder, Up
<1>4. PurgesAreAsked'
    BY DEF NoteStep, EditNote, BeginDelete, DeleteRow, MoveNote, SetNoteLocal, SetFolder, Tidy,
           PurgesAreAsked
<1>5. \A o \in Recorders' : Fresh(o)'
    BY <1>1, <1>2, <1>3 DEF Recorders, Tidy, RecordersAreFresh, Fresh, SameRecording
<1>6. FilesHaveFolders'
    BY <1>2, <1>3 DEF FilesHaveFolders, Tidy
<1>7. QED
    BY <1>3, <1>4, <1>5, <1>6 DEF Tidy, RecordersAreFresh, ClosedIsIdle, HealGoesOn

\* Self-heal changes the rows of folders that carry a manifest.
LEMMA HealChanges ==
    ASSUME TypeOK, Tidy, NEW m \in Meetings, HealOne(m)
    PROVE  /\ manifest[m] # NoFile /\ m \in dirs
           /\ Rebuilds(db, db', m) /\ Attached(db', m)
           /\ db' \in Database
           /\ ~HasMeeting(db, m) => HasNote(db', NoteOf[m])
           /\ ~HasMeeting(db, m) /\ Recorded(manifest[m]) # "no" => EffLocal(db', m)
           /\ \A o \in Meetings : ~(o \in dirs /\ Attached(db', o)) => mirror'[o] = mirror[o]
<1>1. manifest[m] # NoFile /\ m \in dirs /\ db' = Healed(m)
    BY DEF HealOne, HealGoesOn, Tidy
<1>2. /\ Rebuilds(db, db', m) /\ Attached(db', m)
      /\ ~HasMeeting(db, m) => HasNote(db', NoteOf[m])
      /\ ~HasMeeting(db, m) /\ Recorded(manifest[m]) # "no" => EffLocal(db', m)
    BY <1>1, HealedIsWhole
<1>3. db' \in Database /\ NoteOf[m] \in Notes
    BY <1>2, LibraryAssumption DEF Rebuilds
<1>4. ASSUME NEW o \in Meetings, ~(o \in dirs /\ Attached(db', o))
      PROVE  mirror'[o] = mirror[o]
    <2>1. CASE HasMeeting(db, m)
        BY <2>1 DEF HealOne
    <2>2. CASE ~HasMeeting(db, m)
        <3>1. SyncMirrors(db', NoteOf[m]) /\ dirs' = dirs
            BY <2>2 DEF HealOne
        <3>2. o \notin Reach(db', Siblings(NoteOf[m]))
            BY <1>4 DEF Reach
        <3>3. QED
            BY <1>3, <3>1, <3>2, SyncEffect
    <2>3. QED
        BY <2>1, <2>2
<1>5. QED
    BY <1>1, <1>2, <1>3, <1>4

LEMMA HealIsTidy ==
    ASSUME TypeOK, Tidy,
           BeginHeal \/ \E m \in Meetings : SkipWhole(m) \/ HealOne(m) \/ HealFails(m)
    PROVE  Tidy'
<1>1. CASE BeginHeal
    BY <1>1 DEF BeginHeal, Tidy, RecordersAreFresh, Recorders, Fresh, ClosedIsIdle,
        FilesHaveFolders, PurgesAreAsked, HealGoesOn
<1>2. ASSUME NEW m \in Meetings, SkipWhole(m)
      PROVE  Tidy'
    BY <1>2 DEF SkipWhole, Tidy, RecordersAreFresh, Recorders, Fresh, ClosedIsIdle,
        FilesHaveFolders, PurgesAreAsked, HealGoesOn
<1>3. ASSUME NEW m \in Meetings, HealOne(m) \/ HealFails(m)
      PROVE  Tidy'
    <2>1. /\ manifest[m] # NoFile /\ m \in dirs
          /\ Rebuilds(db, db', m)
          /\ Attached(db', m) \/ <<m, "rows">> \in missed'
          /\ \A o \in Meetings : ~(o \in dirs /\ Attached(db', o)) => mirror'[o] = mirror[o]
        <3>1. CASE HealOne(m)
            BY <3>1, HealChanges
        <3>2. CASE HealFails(m)
            <4>1. manifest[m] # NoFile /\ m \in dirs /\ Rebuilds(db, db', m)
                BY <3>2, BreaksTyped DEF HealFails, HealBreaks, Tidy, HealGoesOn
            <4>2. <<m, "rows">> \in missed' /\ mirror' = mirror
                BY <3>2 DEF HealFails
            <4>3. QED
                BY <4>1, <4>2
        <3>3. QED
            BY <1>3, <3>1, <3>2
    <2>2. /\ \A o \in Meetings : o # m => db'.meeting[o] = db.meeting[o]
          /\ m \notin Recorders
        BY <2>1 DEF Rebuilds, Tidy, RecordersAreFresh, Fresh
    <2>3. /\ born' = born /\ dirs' = dirs /\ rec' = rec /\ stopping' = stopping /\ app' = app
          /\ manifest' = manifest /\ todo' = todo \ {m} /\ app = "healing"
          /\ purging' = purging /\ asked' = asked /\ deleting' = deleting
        BY <1>3 DEF HealOne, HealFails, HealBreaks
    <2>4. \A o \in Recorders' : Fresh(o)'
        <3>1. ASSUME NEW o \in Recorders'
              PROVE  Fresh(o)'
            <4>1. Fresh(o) /\ o \in Meetings /\ o # m
                BY <2>2, <2>3, <3>1 DEF Recorders, Tidy, RecordersAreFresh
            <4>2. db'.meeting[o] = db.meeting[o]
                BY <2>2, <4>1
            <4>3. ~Attached(db', o) /\ mirror'[o] = NoFile
                BY <2>1, <4>1, <4>2 DEF Fresh, Attached, HasMeeting
            <4>4. QED
                BY <2>3, <4>1, <4>2, <4>3 DEF Fresh, HasMeeting
        <3>2. QED
            BY <3>1
    <2>5. FilesHaveFolders'
        BY <2>1, <2>3 DEF FilesHaveFolders, Tidy
    <2>6. HealGoesOn'
        <3>1. \A o \in Meetings : Attached(db, o) => Attached(db', o)
            BY <2>1, <2>2 DEF Rebuilds, Attached, HasMeeting
        <3>2. \A o \in Meetings : <<o, "rows">> \in missed => <<o, "rows">> \in missed'
            <4>1. CASE HealFails(m) \/ (HealOne(m) /\ HasMeeting(db, m))
                BY <4>1 DEF HealFails, HealOne
            <4>2. CASE HealOne(m) /\ ~HasMeeting(db, m)
                <5>1. SyncMirrors(db', NoteOf[m]) /\ db' \in Database /\ NoteOf[m] \in Notes
                    BY <4>2, HealChanges, LibraryAssumption DEF HealOne
                <5>2. QED
                    BY <5>1, SyncEffect
            <4>3. QED
                BY <1>3, <4>1, <4>2
        <3>3. QED
            BY <2>1, <2>3, <3>1, <3>2 DEF HealGoesOn, Tidy, TypeOK
    <2>7. QED
        BY <2>3, <2>4, <2>5, <2>6 DEF Tidy, RecordersAreFresh, Recorders, ClosedIsIdle,
            PurgesAreAsked
<1>4. QED
    BY <1>1, <1>2, <1>3

LEMMA BackfillIsTidy ==
    ASSUME TypeOK, Tidy, Backfill
    PROVE  Tidy'
<1>1. \A o \in Meetings : ~(o \in dirs /\ Attached(db, o)) =>
                            manifest'[o] = manifest[o] /\ mirror'[o] = mirror[o]
    BY BackfillEffect DEF Reach
<1>2. /\ born' = born /\ dirs' = dirs /\ rec' = rec /\ stopping' = stopping /\ app' = "ready"
      /\ db' = db /\ purging' = purging /\ asked' = asked
    BY DEF Backfill
<1>3. \A o \in Recorders' : Fresh(o)'
    BY <1>1, <1>2 DEF Recorders, Tidy, RecordersAreFresh, Fresh
<1>4. QED
    BY <1>1, <1>2, <1>3 DEF Tidy, RecordersAreFresh, ClosedIsIdle, PurgesAreAsked, HealGoesOn,
        FilesHaveFolders

LEMMA OutsideIsTidy ==
    ASSUME TypeOK, Tidy,
           \/ \E due \in BOOLEAN : Open(due)
           \/ Crash \/ (\E m \in Meetings : CrashInHeal(m)) \/ LoseDb \/ RestoreBackup
    PROVE  Tidy'
<1>1. /\ rec' = NoRecording /\ stopping' = {} /\ purging' = {} /\ deleting' = {}
      /\ app' # "healing" /\ born' = born /\ dirs' = dirs /\ manifest' = manifest
      /\ mirror' = mirror
    BY DEF Open, Crash, CrashInHeal, LoseDb, RestoreBackup, Stopped, Tidy, ClosedIsIdle
<1>2. Recorders' = {}
    BY <1>1, NothingIsThere DEF Recorders, NoRecording
<1>3. QED
    BY <1>1, <1>2 DEF Tidy, RecordersAreFresh, ClosedIsIdle, PurgesAreAsked, HealGoesOn,
        FilesHaveFolders

-----------------------------------------------------------------------------
\* The kinds of step there are.
LEMMA StepsOfNext ==
    ASSUME Next
    PROVE  /\ InBounds
           /\ \/ \E m \in Meetings : \/ StartRecording(m) \/ StopFails(m) \/ AttachRecording(m)
                                     \/ ImportStage(m) \/ ImportJoin(m) \/ Purge(m)
              \/ TakeSession
              \/ NoteStep
              \/ \E due \in BOOLEAN : Open(due)
              \/ BeginHeal
              \/ \E m \in Meetings : SkipWhole(m) \/ HealOne(m) \/ HealFails(m)
              \/ Backfill
              \/ Crash \/ (\E m \in Meetings : CrashInHeal(m)) \/ LoseDb \/ RestoreBackup
<1>1. InBounds /\ (Command \/ Launch \/ Disaster)
    BY DEF Next
<1>2. CASE Command
    <2>1. TRUE \in BOOLEAN /\ Unfiled \in Folders \cup {Unfiled}
        OBVIOUS
    <2>2. QED
        BY <1>1, <1>2, <2>1, Zenon DEF Command, NoteStep
<1>3. CASE Launch
    BY <1>1, <1>3, Zenon DEF Launch
<1>4. CASE Disaster
    BY <1>1, <1>4, Zenon DEF Disaster
<1>5. QED
    BY <1>1, <1>2, <1>3, <1>4

LEMMA TypesStep ==
    ASSUME TypeOK, Tidy, Next
    PROVE  TypeOK'
<1>0. InBounds /\ HealGoesOn
    BY StepsOfNext DEF Tidy
<1>1. ASSUME NEW m \in Meetings,
             \/ StartRecording(m) \/ StopFails(m) \/ AttachRecording(m) \/ ImportStage(m)
             \/ ImportJoin(m) \/ Purge(m)
      PROVE  TypeOK'
    BY <1>0, <1>1, RecordingTypes
<1>2. CASE TakeSession
    BY <1>2 DEF TakeSession, TypeOK
<1>3. CASE NoteStep
    BY <1>0, <1>3, NoteTypes, FolderTypes DEF NoteStep
<1>4. CASE \/ (\E due \in BOOLEAN : Open(due)) \/ BeginHeal \/ Backfill
           \/ \E m \in Meetings : SkipWhole(m) \/ HealOne(m) \/ HealFails(m)
    BY <1>0, <1>4, LaunchTypes
<1>5. CASE Crash \/ (\E m \in Meetings : CrashInHeal(m)) \/ LoseDb \/ RestoreBackup
    BY <1>0, <1>5, DisasterTypes
<1>6. QED
    BY <1>1, <1>2, <1>3, <1>4, <1>5, StepsOfNext

LEMMA TidyStep ==
    ASSUME TypeOK, TypeOK', Tidy, Next
    PROVE  Tidy'
<1>1. ASSUME NEW m \in Meetings, StartRecording(m) \/ ImportStage(m)
      PROVE  Tidy'
    BY <1>1, NewRowsAreTidy
<1>2. CASE TakeSession \/ \E m \in Meetings : StopFails(m)
    BY <1>2, SessionsAreTidy
<1>3. ASSUME NEW m \in Meetings, AttachRecording(m) \/ ImportJoin(m)
      PROVE  Tidy'
    BY <1>3, AttachIsTidy
<1>4. ASSUME NEW m \in Meetings, Purge(m)
      PROVE  Tidy'
    BY <1>4, PurgeIsTidy
<1>5. CASE NoteStep
    BY <1>5, NotesAreTidy
<1>6. CASE BeginHeal \/ \E m \in Meetings : SkipWhole(m) \/ HealOne(m) \/ HealFails(m)
    BY <1>6, HealIsTidy
<1>7. CASE Backfill
    BY <1>7, BackfillIsTidy
<1>8. CASE \/ \E due \in BOOLEAN : Open(due)
           \/ Crash \/ (\E m \in Meetings : CrashInHeal(m)) \/ LoseDb \/ RestoreBackup
    BY <1>8, OutsideIsTidy
<1>9. QED
    BY <1>1, <1>2, <1>3, <1>4, <1>5, <1>6, <1>7, <1>8, StepsOfNext

LEMMA InitIsTidy ==
    ASSUME Init
    PROVE  TypeOK /\ Tidy
<1>1. PICK folder \in [Folders -> {"open", "local"}] :
        db = [EmptyDb EXCEPT !.folder = folder]
    BY DEF Init
<1>2. db \in Database
    BY <1>1 DEF EmptyDb, Database
<1>3. 0 \in Stamps /\ 0 \in 0..MaxTrouble
    BY StampsAreNumbers, LibraryBoundsAssumption
<1>4. TypeOK
    BY <1>2, <1>3 DEF Init, TypeOK, NoRecording
<1>5. Recorders = {}
    BY NothingIsThere DEF Init, Recorders, NoRecording
<1>6. Tidy
    BY <1>5 DEF Init, Tidy, RecordersAreFresh, ClosedIsIdle, FilesHaveFolders, PurgesAreAsked,
        HealGoesOn
<1>7. QED
    BY <1>4, <1>6

LEMMA TidyHolds == Spec => [](TypeOK /\ Tidy)
<1>1. Init => TypeOK /\ Tidy
    BY InitIsTidy
<1>2. TypeOK /\ Tidy /\ [Next]_vars => (TypeOK /\ Tidy)'
    <2> SUFFICES ASSUME TypeOK, Tidy, [Next]_vars
                 PROVE  (TypeOK /\ Tidy)'
        OBVIOUS
    <2>1. CASE Next
        <3>1. TypeOK'
            BY <2>1, TypesStep
        <3>2. QED
            BY <2>1, <3>1, TidyStep
    <2>2. CASE UNCHANGED vars
        BY <2>2 DEF vars, TypeOK, Tidy, RecordersAreFresh, Recorders, Fresh, ClosedIsIdle,
            FilesHaveFolders, PurgesAreAsked, HealGoesOn
    <2>3. QED
        BY <2>1, <2>2
<1>3. QED
    BY <1>1, <1>2, PTL DEF Spec

\* Whatever is recorded, edited, moved, deleted or lost, in any order, rows,
\* manifests, mirrors and the lists of the running process stay what the code
\* can read (fly-storage's rows, RecordingManifest, PortableNote).
THEOREM LibraryTypes == Spec => []TypeOK
    BY TidyHolds, PTL

\* When self-heal is over, every folder with a manifest is in the library,
\* but for those whose own heal failed: for any number of folders healed in
\* any order, whichever of them fail (self_heal_recordings).
THEOREM HealReachesAll == Spec => HealAttachesAll
<1>1. TypeOK /\ Tidy /\ [Next]_vars =>
        [app = "healing" /\ app' = "ready" =>
            \A m \in dirs : manifest[m] # NoFile /\ <<m, "rows">> \notin missed =>
                Attached(db', m)]_vars
    <2> SUFFICES ASSUME TypeOK, Tidy, Next, app = "healing", app' = "ready"
                 PROVE  \A m \in dirs : manifest[m] # NoFile /\ <<m, "rows">> \notin missed =>
                            Attached(db', m)
        OBVIOUS
    <2>1. Backfill
        <3>1. CASE NoteStep
            BY <3>1 DEF NoteStep, EditNote, BeginDelete, DeleteRow, MoveNote, SetNoteLocal,
                SetFolder, Up
        <3>2. ASSUME NEW m \in Meetings,
                     \/ StartRecording(m) \/ StopFails(m) \/ AttachRecording(m)
                     \/ ImportStage(m) \/ ImportJoin(m) \/ Purge(m)
              PROVE  FALSE
            BY <3>2 DEF StartRecording, StopFails, AttachRecording, ImportStage, ImportJoin,
                Purge, Up
        <3>3. QED
            BY <3>1, <3>2, StepsOfNext DEF TakeSession, Up, Open, BeginHeal, SkipWhole, HealOne,
                HealFails, Crash, CrashInHeal, LoseDb, RestoreBackup, Stopped
    <2>2. todo = {} /\ db' = db
        BY <2>1 DEF Backfill
    <2>3. QED
        BY <2>2 DEF Tidy, HealGoesOn
<1>2. QED
    BY <1>1, TidyHolds, PTL DEF Spec, HealAttachesAll

-----------------------------------------------------------------------------
(* The backfill only adds                                                  *)

\* A manifest the app writes leaves the folder's flag unsaid only without one.
LEMMA ManifestShape ==
    ASSUME NEW d \in Database, NEW m \in Meetings
    PROVE  LET row == ManifestOf(d, m)
           IN  /\ row \in Manifest
               /\ row.path = NoteFolder(d, NoteOf[m])
               /\ row.path # Unfiled => row.flag = Flag(FolderLocal(d, row.path))
               /\ row.path = Unfiled => row.flag = "unsaid"
               /\ HasMeeting(d, m) => row.local = Flag(OwnLocal(d, m))
               /\ ~HasMeeting(d, m) => row.local = "unsaid"
    BY ManifestTyped DEF ManifestOf

\* backfill_manifest never makes less of what a folder says.
LEMMA StillSaysYes ==
    ASSUME NEW file \in Manifest, NEW row \in Manifest, Recorded(file) = "yes",
           row.path # Unfiled => row.flag # "unsaid"
    PROVE  Recorded(BackfillManifest(file, row)) = "yes"
<1> DEFINE path == IF file.path = Unfiled THEN row.path ELSE file.path
<1> DEFINE local == MergeFlags(file.local, row.local, TRUE)
<1> DEFINE flag == MergeFlags(file.flag, row.flag, path = row.path)
<1> DEFINE next == [local |-> local, path |-> path, flag |-> flag]
<1>1. /\ file.local \in Said /\ file.flag \in Said /\ row.local \in Said /\ row.flag \in Said
      /\ file.path \in Folders \cup {Unfiled} /\ row.path \in Folders \cup {Unfiled}
    BY DEF Manifest
<1>2. BackfillManifest(file, row) = next
    BY NothingIsThere DEF BackfillManifest
<1>3. file.local # "unsaid" /\ (file.path # Unfiled => file.flag # "unsaid")
      /\ (file.local = "yes" \/ file.flag = "yes")
    BY DEF Recorded, Flag
<1>4. local # "unsaid" /\ (file.local = "yes" => local = "yes")
    BY <1>1, <1>3 DEF MergeFlags, Flag, Said
<1>5. /\ file.flag = "yes" => flag = "yes"
      /\ path # Unfiled => flag # "unsaid"
    <2>1. CASE path = row.path
        BY <1>1, <1>3, <2>1 DEF MergeFlags, Flag, Said
    <2>2. CASE path # row.path
        BY <1>1, <1>3, <2>2 DEF MergeFlags, Flag, Said
    <2>3. QED
        BY <2>1, <2>2
<1>6. next.local = local /\ next.path = path /\ next.flag = flag
    OBVIOUS
<1> HIDE DEF local, path, flag, next
<1>7. "yes" \in {local, flag}
    BY <1>3, <1>4, <1>5
<1>8. Recorded(next) = "yes"
    BY <1>4, <1>5, <1>6, <1>7 DEF Recorded, Flag
<1>9. QED
    BY <1>2, <1>8

LEMMA CaughtUp ==
    ASSUME TypeOK, NEW m \in Meetings, mirror[m] # NoFile
    PROVE  Caught(m) # NoFile /\ Caught(m).at >= mirror[m].at
<1>1. mirror[m] \in Mirror /\ NoteOf[m] \in Notes
    BY LibraryAssumption DEF TypeOK
<1>2. mirror[m].at \in Nat
    BY <1>1, StampsAreNumbers DEF Mirror
<1>3. CASE HasNote(db, NoteOf[m])
    <2> DEFINE row == MirrorOf(db, NoteOf[m])
    <2>1. row \in Mirror
        BY <1>1, <1>3, MirrorTyped DEF TypeOK
    <2>2. row.at \in Nat /\ row # NoFile
        BY <2>1, StampsAreNumbers, NothingIsThere DEF Mirror
    <2>3. Caught(m) = IF mirror[m].at < row.at THEN row ELSE mirror[m]
        BY <1>3 DEF Caught, BackfillMirror
    <2> HIDE DEF row
    <2>4. QED
        BY <1>2, <2>2, <2>3
<1>4. CASE ~HasNote(db, NoteOf[m])
    BY <1>2, <1>4 DEF Caught
<1>5. QED
    BY <1>3, <1>4

\* The backfill never takes back what a folder says, for any number of
\* folders: a manifest that says kept local says so after it, and a mirror
\* never goes back in time (backfill_manifest, backfill_note_mirror).
THEOREM BackfillAdds == Spec => BackfillOnlyAdds
<1>1. TypeOK /\ [Next]_vars => [Backfill => \A m \in Meetings :
        /\ manifest[m] # NoFile /\ Recorded(manifest[m]) = "yes" => Recorded(manifest'[m]) = "yes"
        /\ mirror[m] # NoFile => mirror'[m] # NoFile /\ mirror'[m].at >= mirror[m].at]_vars
    <2> SUFFICES ASSUME TypeOK, Backfill, NEW m \in Meetings
                 PROVE  /\ manifest[m] # NoFile /\ Recorded(manifest[m]) = "yes" =>
                                Recorded(manifest'[m]) = "yes"
                        /\ mirror[m] # NoFile =>
                                mirror'[m] # NoFile /\ mirror'[m].at >= mirror[m].at
        OBVIOUS
    <2>1. /\ manifest'[m] = manifest[m] \/ manifest'[m] = Filled(m)
          /\ mirror'[m] = mirror[m] \/ mirror'[m] = Caught(m)
        BY BackfillEffect
    <2>2. ASSUME manifest[m] # NoFile, Recorded(manifest[m]) = "yes"
          PROVE  Recorded(manifest'[m]) = "yes"
        <3> DEFINE row == ManifestOf(db, m)
        <3>1. manifest[m] \in Manifest /\ db \in Database
            BY <2>2 DEF TypeOK
        <3>2. row \in Manifest /\ (row.path # Unfiled => row.flag # "unsaid")
            BY <3>1, ManifestShape DEF Flag
        <3>3. Recorded(Filled(m)) = "yes"
            BY <2>2, <3>1, <3>2, StillSaysYes DEF Filled
        <3>4. QED
            BY <2>1, <2>2, <3>3
    <2>3. ASSUME mirror[m] # NoFile
          PROVE  mirror'[m] # NoFile /\ mirror'[m].at >= mirror[m].at
        <3>1. mirror[m].at \in Nat
            BY <2>3, StampsAreNumbers DEF TypeOK, Mirror
        <3>2. QED
            BY <2>1, <2>3, <3>1, CaughtUp
    <2>4. QED
        BY <2>2, <2>3
<1>2. QED
    BY <1>1, LibraryTypes, PTL DEF Spec, BackfillOnlyAdds

\* What the commands about notes and folders change of the rows.
LEMMA EditEffect ==
    ASSUME TypeOK, TypeOK', NEW n \in Notes, EditNote(n)
    PROVE  /\ HasNote(db, n) /\ HasNote(db', n)
           /\ db'.note[n].folder = db.note[n].folder
           /\ db'.note[n].body = now' /\ db'.note[n].at = now'
           /\ \A x \in Notes : x # n => db'.note[x] = db.note[x]
           /\ db'.meeting = db.meeting /\ db'.folder = db.folder
<1> DEFINE row == [db.note[n] EXCEPT !.body = now', !.at = now']
<1>1. db \in Database /\ HasNote(db, n) /\ now' \in Stamps
    BY DEF TypeOK, EditNote
<1>2. db.note[n] \in NoteRow
    BY <1>1 DEF HasNote, Database
<1>3. /\ row \in NoteRow /\ row.folder = db.note[n].folder
      /\ row.body = now' /\ row.at = now'
    BY <1>1, <1>2 DEF NoteRow
<1>4. db' = [db EXCEPT !.note[n] = row]
    BY <1>1 DEF EditNote, Database
<1> HIDE DEF row
<1>5. /\ db'.note[n] = row /\ db'.meeting = db.meeting /\ db'.folder = db.folder
      /\ \A x \in Notes : x # n => db'.note[x] = db.note[x]
    BY <1>1, <1>4 DEF Database
<1>6. QED
    BY <1>1, <1>3, <1>5, NothingIsThere DEF HasNote

LEMMA MoveEffect ==
    ASSUME TypeOK, TypeOK', NEW n \in Notes, NEW f \in Folders \cup {Unfiled}, MoveNote(n, f)
    PROVE  /\ HasNote(db, n) /\ HasNote(db', n)
           /\ db'.note[n].folder = f /\ db'.note[n].body = db.note[n].body
           /\ db'.note[n].at = now'
           /\ \A x \in Notes : x # n => db'.note[x] = db.note[x]
           /\ db'.meeting = db.meeting /\ db'.folder = db.folder
<1> DEFINE row == [db.note[n] EXCEPT !.folder = f, !.at = now']
<1>1. db \in Database /\ HasNote(db, n) /\ now' \in Stamps
    BY DEF TypeOK, MoveNote
<1>2. db.note[n] \in NoteRow
    BY <1>1 DEF HasNote, Database
<1>3. row \in NoteRow /\ row.folder = f /\ row.body = db.note[n].body /\ row.at = now'
    BY <1>1, <1>2 DEF NoteRow
<1>4. db' = [db EXCEPT !.note[n] = row]
    BY <1>1 DEF MoveNote, Database
<1> HIDE DEF row
<1>5. /\ db'.note[n] = row /\ db'.meeting = db.meeting /\ db'.folder = db.folder
      /\ \A x \in Notes : x # n => db'.note[x] = db.note[x]
    BY <1>1, <1>4 DEF Database
<1>6. QED
    BY <1>1, <1>3, <1>5, NothingIsThere DEF HasNote

LEMMA SetFolderEffect ==
    ASSUME TypeOK, TypeOK', NEW f \in Folders, NEW to \in {"absent", "open", "local"},
           SetFolder(f, to)
    PROVE  /\ \A x \in Notes : /\ HasNote(db', x) <=> HasNote(db, x)
                               /\ HasNote(db, x) => /\ db'.note[x].body = db.note[x].body
                                                    /\ db'.note[x].at = db.note[x].at
           /\ \A x \in Notes : NoteFolder(db, x) # f => NoteFolder(db', x) = NoteFolder(db, x)
           /\ db'.meeting = db.meeting
           /\ \A g \in Folders : g # f => db'.folder[g] = db.folder[g]
<1>1. db \in Database
    BY DEF TypeOK
<1>2. \A x \in Notes : db'.note[x] =
        IF to = "absent" /\ HasNote(db, x) /\ NoteFolder(db, x) = f
        THEN [db.note[x] EXCEPT !.folder = Unfiled] ELSE db.note[x]
    BY <1>1 DEF SetFolder, Database
<1>3. db'.meeting = db.meeting /\ \A g \in Folders : g # f => db'.folder[g] = db.folder[g]
    BY <1>1 DEF SetFolder, Database
<1>4. ASSUME NEW x \in Notes
      PROVE  /\ HasNote(db', x) <=> HasNote(db, x)
             /\ HasNote(db, x) => /\ db'.note[x].body = db.note[x].body
                                  /\ db'.note[x].at = db.note[x].at
             /\ NoteFolder(db, x) # f => NoteFolder(db', x) = NoteFolder(db, x)
    <2>1. CASE to = "absent" /\ HasNote(db, x) /\ NoteFolder(db, x) = f
        <3>1. db.note[x] \in NoteRow
            BY <1>1, <2>1 DEF HasNote, Database
        <3>2. db'.note[x] = [db.note[x] EXCEPT !.folder = Unfiled]
            BY <1>2, <2>1
        <3>3. /\ db'.note[x] \in NoteRow /\ db'.note[x].body = db.note[x].body
              /\ db'.note[x].at = db.note[x].at
            BY <3>1, <3>2 DEF NoteRow
        <3>4. QED
            BY <2>1, <3>3, NothingIsThere DEF HasNote
    <2>2. CASE ~(to = "absent" /\ HasNote(db, x) /\ NoteFolder(db, x) = f)
        BY <1>2, <2>2 DEF HasNote, NoteFolder
    <2>3. QED
        BY <2>1, <2>2
<1>5. QED
    BY <1>3, <1>4

LEMMA SetLocalEffect ==
    ASSUME TypeOK, NEW n \in Notes, NEW b \in BOOLEAN, SetNoteLocal(n, b)
    PROVE  /\ db'.note = db.note /\ db'.folder = db.folder
           /\ \A x \in Meetings : NoteOf[x] # n => db'.meeting[x] = db.meeting[x]
    BY DEF SetNoteLocal, TypeOK, Database

LEMMA DeleteRowEffect ==
    ASSUME TypeOK, NEW n \in Notes, DeleteRow(n)
    PROVE  /\ ~HasNote(db', n) /\ db'.meeting = db.meeting /\ db'.folder = db.folder
           /\ \A x \in Notes : x # n => db'.note[x] = db.note[x]
    BY DEF DeleteRow, HasNote, TypeOK, Database

-----------------------------------------------------------------------------
(* Keep local through losses                                               *)

\* A meeting whose row, note and folder stay is as local as before.
LEMMA StaysLocal ==
    ASSUME NEW d \in Database, NEW e \in Database, NEW o \in Meetings,
           HasMeeting(e, o) => HasMeeting(d, o) /\ (OwnLocal(d, o) => OwnLocal(e, o)),
           LET n == NoteOf[o] IN HasNote(d, n) => HasNote(e, n) /\ e.note[n].folder = d.note[n].folder,
           \A f \in Folders : d.folder[f] = "local" => e.folder[f] = "local",
           EffLocal(d, o)
    PROVE  EffLocal(e, o)
<1>1. Unfiled \notin Folders
    BY LibraryAssumption
<1>2. QED
    BY <1>1 DEF EffLocal, FolderLocal, NoteFolder

LEMMA RebuildsStayLocal ==
    ASSUME NEW d \in Database, NEW e, NEW m \in Meetings, Rebuilds(d, e, m), NEW o \in Meetings,
           HasMeeting(d, o) \/ ~HasMeeting(e, o), EffLocal(d, o)
    PROVE  EffLocal(e, o)
<1>1. e \in Database /\ NoteOf[o] \in Notes
    BY LibraryAssumption DEF Rebuilds
<1>2. HasMeeting(e, o) => HasMeeting(d, o) /\ (OwnLocal(d, o) => OwnLocal(e, o))
    BY DEF Rebuilds, HasMeeting, OwnLocal
<1>3. HasNote(d, NoteOf[o]) =>
        HasNote(e, NoteOf[o]) /\ e.note[NoteOf[o]].folder = d.note[NoteOf[o]].folder
    BY <1>1 DEF Rebuilds, HasNote
<1>4. \A f \in Folders : d.folder[f] = "local" => e.folder[f] = "local"
    BY DEF Rebuilds
<1>5. QED
    BY <1>1, <1>2, <1>3, <1>4, StaysLocal

\* A heal that breaks off leaves m's row attached, or the way it was.
LEMMA PrefixIsAllOrNothing ==
    ASSUME TypeOK, NEW m \in Meetings, manifest[m] # NoFile, NEW e \in HealPrefixes(m),
           ~Attached(e, m)
    PROVE  e = db \/ (~HasMeeting(e, m) /\ ~HasMeeting(db, m))
<1>0. db \in Database /\ manifest[m] \in Manifest /\ e # Healed(m)
    BY HealedIsWhole DEF TypeOK
<1>1. CASE HasMeeting(db, m)
    BY <1>0, <1>1, AttachedRebuilt DEF HealPrefixes
<1>2. CASE ~HasMeeting(db, m)
    <2> DEFINE f == WithFolder(db, manifest[m])
    <2> DEFINE n == WithNote(f, m)
    <2>1. e \in {db, f, n, WithRows(m), WithKin(m)}
        BY <1>0, <1>2 DEF HealPrefixes
    <2>2. Rebuilds(db, f, m) /\ f.meeting = db.meeting
        BY <1>0, FolderRebuilt DEF WithFolder, Database
    <2>3. Rebuilds(f, n, m) /\ n.meeting = f.meeting
        BY <1>0, <2>2, NoteRebuilt DEF WithNote, Rebuilds, Database
    <2>4. n \in Database /\ ~HasMeeting(n, m) /\ ~HasMeeting(f, m)
        BY <1>2, <2>2, <2>3 DEF Rebuilds, HasMeeting
    <2>5. WithRows(m) \in Database /\ Attached(WithRows(m), m)
        BY <2>4, MeetingRebuilt DEF WithRows, Rebuilds
    <2>6. Attached(WithKin(m), m)
        <3>1. CASE Inherited(WithRows(m), m)
            BY <2>5, <3>1, LocalRebuilt DEF WithKin, Rebuilds, Attached
        <3>2. CASE ~Inherited(WithRows(m), m)
            BY <2>5, <3>2 DEF WithKin
        <3>3. QED
            BY <3>1, <3>2
    <2> HIDE DEF f, n
    <2>7. QED
        BY <1>2, <2>1, <2>4, <2>5, <2>6
<1>3. QED
    BY <1>1, <1>2

\* The parts of OwedKept for one meeting.
OwedBy(m) == /\ m \in born
             /\ EffLocal(db, m)
             /\ ~HasMeeting(db, m) /\ manifest[m] # NoFile => Recorded(manifest[m]) # "no"

LEMMA RecordingsKeepOwed ==
    ASSUME TypeOK, TypeOK', Tidy, OwedKept, NEW m \in Meetings,
           \/ StartRecording(m) \/ StopFails(m) \/ AttachRecording(m) \/ ImportStage(m)
           \/ ImportJoin(m) \/ Purge(m) \/ TakeSession,
           NEW o \in owed'
    PROVE  OwedBy(o)'
<1>0. db \in Database /\ db' \in Database /\ o \in Meetings /\ NoteOf[o] \in Notes
    BY LibraryAssumption DEF TypeOK
<1>1. CASE StartRecording(m) \/ ImportStage(m)
    <2>1. PICK staged \in BOOLEAN : NewRows(m, staged)
        BY <1>1 DEF StartRecording, ImportStage
    <2>2. /\ \A x \in Meetings : x # m => db'.meeting[x] = db.meeting[x]
          /\ \A n \in Notes : HasNote(db, n) \/ n # NoteOf[m] => db'.note[n] = db.note[n]
          /\ db'.folder = db.folder
          /\ \A x \in Meetings : x \in born' <=> x \in born \/ x = m
        BY <2>1, NewRowsEffect
    <2>3. m \notin born /\ manifest' = manifest /\ owed' = owed
        BY <1>1 DEF StartRecording, ImportStage, NextId
    <2>4. OwedBy(o) /\ o # m /\ o \in born'
        BY <1>0, <2>2, <2>3 DEF OwedKept, OwedBy
    <2>5. EffLocal(db', o)
        BY <1>0, <2>2, <2>4, StaysLocal DEF OwedBy, HasMeeting, OwnLocal, HasNote
    <2>6. QED
        BY <1>0, <2>2, <2>3, <2>4, <2>5 DEF OwedBy, HasMeeting
<1>2. CASE StopFails(m) \/ TakeSession
    BY <1>2 DEF StopFails, TakeSession, OwedKept, OwedBy
<1>3. CASE AttachRecording(m) \/ ImportJoin(m)
    <2>1. db' = db \/ (HasMeeting(db, m) /\ db' = [db EXCEPT !.meeting[m].attached = TRUE])
        BY <1>3 DEF AttachRecording, ImportJoin
    <2>2. owed' = owed /\ born' = born
        BY <1>3 DEF AttachRecording, ImportJoin
    <2>3. OwedBy(o)
        BY <2>2 DEF OwedKept, OwedBy
    <2>4. /\ HasMeeting(db', o) <=> HasMeeting(db, o)
          /\ OwnLocal(db', o) <=> OwnLocal(db, o)
          /\ db'.note = db.note /\ db'.folder = db.folder
        <3>1. CASE db' = db
            BY <3>1
        <3>2. CASE HasMeeting(db, m) /\ db' = [db EXCEPT !.meeting[m].attached = TRUE]
            BY <1>0, <3>2, RowEffect DEF HasMeeting, OwnLocal, Attached
        <3>3. QED
            BY <2>1, <3>1, <3>2
    <2>5. EffLocal(db', o)
        BY <2>3, <2>4 DEF OwedBy, EffLocal, NoteFolder, HasNote, FolderLocal
    <2>6. ASSUME ~HasMeeting(db, o)
          PROVE  \/ manifest'[o] = manifest[o]
                 \/ manifest'[o].local = "unsaid"
        <3>1. CASE ImportJoin(m)
            BY <3>1 DEF ImportJoin
        <3>2. CASE AttachRecording(m)
            <4>1. manifest' = manifest \/
                  manifest' = [manifest EXCEPT ![m] = IF HasNote(db, NoteOf[m])
                                                      THEN ManifestOf(db, m) ELSE BlindManifest]
                BY <3>2 DEF AttachRecording
            <4>2. o = m => ManifestOf(db, m).local = "unsaid" /\ BlindManifest.local = "unsaid"
                BY <2>6 DEF ManifestOf, BlindManifest
            <4>3. QED
                BY <1>0, <4>1, <4>2 DEF TypeOK
        <3>3. QED
            BY <1>3, <3>1, <3>2
    <2>7. QED
        BY <2>2, <2>3, <2>4, <2>5, <2>6 DEF OwedBy, Recorded
<1>4. CASE Purge(m)
    <2>1. /\ owed' = owed \ {m} /\ born' = born
          /\ db' = [db EXCEPT !.meeting[m] = NoRow]
        BY <1>4 DEF Purge
    <2>2. o # m /\ OwedBy(o)
        BY <2>1 DEF OwedKept, OwedBy
    <2>3. db'.note = db.note /\ db'.folder = db.folder /\ db'.meeting[o] = db.meeting[o]
        BY <1>0, <2>1, <2>2, RowEffect
    <2>4. EffLocal(db', o)
        BY <2>2, <2>3 DEF OwedBy, EffLocal, NoteFolder, HasNote, FolderLocal, HasMeeting, OwnLocal
    <2>5. manifest'[o] = manifest[o]
        BY <1>0, <1>4, <2>2 DEF Purge, TypeOK
    <2>6. QED
        BY <2>1, <2>2, <2>3, <2>4, <2>5 DEF OwedBy, HasMeeting
<1>5. QED
    BY <1>1, <1>2, <1>3, <1>4

LEMMA NotesKeepOwed ==
    ASSUME TypeOK, TypeOK', Tidy, OwedKept, NoteStep, NEW o \in owed'
    PROVE  OwedBy(o)'
<1>0. db \in Database /\ db' \in Database /\ o \in Meetings /\ NoteOf[o] \in Notes
    BY LibraryAssumption DEF TypeOK
<1>1. SameRecording(db, db', o)
    BY <1>0, NotesKeepRecordings
<1>2. ~Attached(db, o) => manifest'[o] = manifest[o]
    BY <1>0, NotesReachFolders
<1>3. owed' \subseteq owed /\ born' = born
    BY DEF NoteStep, EditNote, BeginDelete, DeleteRow, MoveNote, SetNoteLocal, SetFolder,
        StillOwed
<1>4. OwedBy(o)
    BY <1>3 DEF OwedKept, OwedBy
<1>5. EffLocal(db', o)
    <2>1. ASSUME NEW n \in Notes, EditNote(n)
          PROVE  EffLocal(db', o)
        <3>1. HasNote(db, NoteOf[o]) =>
                HasNote(db', NoteOf[o]) /\ db'.note[NoteOf[o]].folder = db.note[NoteOf[o]].folder
            BY <1>0, <2>1, EditEffect DEF HasNote
        <3>2. db'.meeting = db.meeting /\ db'.folder = db.folder
            BY <2>1, EditEffect
        <3>3. QED
            BY <1>0, <1>4, <3>1, <3>2, StaysLocal DEF OwedBy, HasMeeting, OwnLocal
    <2>2. ASSUME NEW n \in Notes, BeginDelete(n)
          PROVE  EffLocal(db', o)
        BY <1>4, <2>2 DEF BeginDelete, OwedBy
    <2>3. ASSUME StillOwed
          PROVE  EffLocal(db', o)
        BY <2>3 DEF StillOwed
    <2>4. QED
        BY <2>1, <2>2, <2>3 DEF NoteStep, DeleteRow, MoveNote, SetNoteLocal, SetFolder
<1>6. QED
    BY <1>1, <1>2, <1>3, <1>4, <1>5 DEF OwedBy, SameRecording, Attached

LEMMA LaunchesKeepOwed ==
    ASSUME TypeOK, TypeOK', Tidy, OwedKept,
           \/ (\E due \in BOOLEAN : Open(due)) \/ BeginHeal \/ Backfill
           \/ \E m \in Meetings : SkipWhole(m) \/ HealOne(m),
           NEW o \in owed'
    PROVE  OwedBy(o)'
<1>0. db \in Database /\ db' \in Database /\ o \in Meetings
    BY DEF TypeOK
<1>1. owed' = owed /\ born' = born
    BY DEF Open, BeginHeal, SkipWhole, HealOne, Backfill
<1>2. OwedBy(o)
    BY <1>1 DEF OwedKept, OwedBy
<1>3. CASE (\E due \in BOOLEAN : Open(due)) \/ BeginHeal \/ \E m \in Meetings : SkipWhole(m)
    BY <1>1, <1>2, <1>3 DEF Open, BeginHeal, SkipWhole, OwedBy
<1>4. CASE Backfill
    <2>1. ~Attached(db, o) => manifest'[o] = manifest[o]
        BY <1>0, <1>4, BackfillEffect DEF Reach
    <2>2. db' = db
        BY <1>4 DEF Backfill
    <2>3. QED
        BY <1>1, <1>2, <2>1, <2>2 DEF OwedBy, Attached
<1>5. ASSUME NEW m \in Meetings, HealOne(m)
      PROVE  OwedBy(o)'
    <2>1. /\ manifest[m] # NoFile /\ Rebuilds(db, db', m) /\ Attached(db', m)
          /\ ~HasMeeting(db, m) /\ Recorded(manifest[m]) # "no" => EffLocal(db', m)
        BY <1>5, HealChanges
    <2>2. manifest' = manifest
        BY <1>5 DEF HealOne
    <2>3. CASE o = m /\ ~HasMeeting(db, m)
        BY <1>1, <1>2, <2>1, <2>3 DEF OwedBy, Attached
    <2>4. CASE o # m \/ HasMeeting(db, m)
        <3>1. HasMeeting(db', o) <=> HasMeeting(db, o)
            BY <1>0, <2>1, <2>4 DEF Rebuilds, HasMeeting
        <3>2. EffLocal(db', o)
            BY <1>0, <1>2, <2>1, <3>1, RebuildsStayLocal DEF OwedBy
        <3>3. QED
            BY <1>1, <1>2, <2>2, <3>1, <3>2 DEF OwedBy
    <2>5. QED
        BY <2>3, <2>4
<1>6. QED
    BY <1>3, <1>4, <1>5

\* A heal that breaks off: what it attached is whole, or no longer owed.
LEMMA BreaksKeepOwed ==
    ASSUME TypeOK, TypeOK', Tidy, OwedKept, NEW m \in Meetings, HealBreaks(m),
           UNCHANGED <<born, manifest>>, NEW o \in owed'
    PROVE  OwedBy(o)'
<1>0. db \in Database /\ db' \in Database /\ o \in Meetings
    BY DEF TypeOK
<1>1. /\ manifest[m] # NoFile /\ db' \in HealPrefixes(m)
      /\ owed' = IF Attached(db', m) /\ db' # Healed(m) THEN owed \ {m} ELSE owed
    BY DEF HealBreaks, Tidy, HealGoesOn
<1>2. Rebuilds(db, db', m)
    BY <1>1, HealPrefixRebuilds
<1>3. OwedBy(o)
    BY <1>1 DEF OwedKept, OwedBy
<1>4. CASE o = m /\ ~HasMeeting(db, m) /\ HasMeeting(db', m)
    <2>1. Attached(db', m)
        BY <1>1, <1>4, PrefixIsAllOrNothing
    <2>2. db' = Healed(m)
        BY <1>1, <1>4, <2>1
    <2>3. EffLocal(db', m)
        BY <1>1, <1>3, <1>4, <2>2, HealedIsWhole DEF OwedBy
    <2>4. QED
        BY <1>3, <1>4, <2>3 DEF OwedBy
<1>5. CASE ~(o = m /\ ~HasMeeting(db, m) /\ HasMeeting(db', m))
    <2>1. HasMeeting(db', o) <=> HasMeeting(db, o)
        BY <1>0, <1>2, <1>5 DEF Rebuilds, HasMeeting
    <2>2. EffLocal(db', o)
        BY <1>0, <1>2, <1>3, <2>1, RebuildsStayLocal DEF OwedBy
    <2>3. QED
        BY <1>3, <2>1, <2>2 DEF OwedBy
<1>6. QED
    BY <1>4, <1>5

LEMMA DisastersKeepOwed ==
    ASSUME TypeOK, TypeOK', Tidy, OwedKept,
           Crash \/ (\E m \in Meetings : CrashInHeal(m)) \/ LoseDb \/ RestoreBackup,
           NEW o \in owed'
    PROVE  OwedBy(o)'
<1>0. db \in Database /\ db' \in Database /\ o \in Meetings
    BY DEF TypeOK
<1>1. CASE Crash
    BY <1>1 DEF Crash, OwedKept, OwedBy
<1>2. CASE RestoreBackup
    BY <1>2 DEF RestoreBackup
<1>3. CASE LoseDb
    <2>1. /\ db' = EmptyDb /\ born' = born /\ manifest' = manifest
          /\ IF HasMeeting(db, o) THEN EffLocal(db, o) /\ SaysLocal(o) ELSE o \in owed
        BY <1>0, <1>3 DEF LoseDb
    <2>2. ~HasMeeting(db', o)
        BY <1>0, <2>1 DEF EmptyDb, HasMeeting
    <2>3. EffLocal(db', o)
        BY <2>2 DEF EffLocal
    <2>4. CASE HasMeeting(db, o)
        <3>1. manifest[o] # NoFile /\ Recorded(manifest[o]) # "no"
            BY <2>1, <2>4 DEF SaysLocal
        <3>2. o \in born
            BY <1>0, <3>1 DEF Tidy, FilesHaveFolders
        <3>3. QED
            BY <2>1, <2>3, <3>1, <3>2 DEF OwedBy
    <2>5. CASE ~HasMeeting(db, o)
        BY <2>1, <2>3, <2>5 DEF OwedKept, OwedBy
    <2>6. QED
        BY <2>4, <2>5
<1>4. ASSUME NEW m \in Meetings, CrashInHeal(m)
      PROVE  OwedBy(o)'
    BY <1>4, BreaksKeepOwed DEF CrashInHeal
<1>5. QED
    BY <1>1, <1>2, <1>3, <1>4

LEMMA OwedHolds == Spec => []OwedKept
<1>1. Init => OwedKept
    BY DEF Init, OwedKept
<1>2. TypeOK /\ Tidy /\ TypeOK' /\ OwedKept /\ [Next]_vars => OwedKept'
    <2> SUFFICES ASSUME TypeOK, TypeOK', Tidy, OwedKept, [Next]_vars
                 PROVE  OwedKept'
        OBVIOUS
    <2>1. CASE Next
        <3>1. CASE TakeSession
            BY <3>1 DEF TakeSession, OwedKept
        <3>2. CASE ~TakeSession
            <4>1. ASSUME NEW m \in Meetings, HealFails(m)
                  PROVE  \A o \in owed' : OwedBy(o)'
                BY <4>1, BreaksKeepOwed DEF HealFails
            <4>2. \A o \in owed' : OwedBy(o)'
                BY <2>1, <3>2, <4>1, StepsOfNext, RecordingsKeepOwed, NotesKeepOwed,
                    LaunchesKeepOwed, DisastersKeepOwed
            <4>3. QED
                BY <4>2 DEF OwedKept, OwedBy
        <3>3. QED
            BY <3>1, <3>2
    <2>2. CASE UNCHANGED vars
        BY <2>2 DEF vars, OwedKept
    <2>3. QED
        BY <2>1, <2>2
<1>3. QED
    BY <1>1, <1>2, TidyHolds, PTL DEF Spec

\* A meeting that was kept local and whose manifest said so is kept local
\* when self-heal has brought it back, for any number of folders, losses and
\* launches, until the user decides otherwise (heal_one,
\* ensure_meeting_kept_local, inherit_keep_local).
THEOREM KeptLocalSurvivesLoss == Spec => []LocalSurvivesLoss
<1>1. OwedKept => LocalSurvivesLoss
    BY DEF OwedKept, LocalSurvivesLoss
<1>2. QED
    BY <1>1, OwedHolds, PTL

-----------------------------------------------------------------------------
(* What the manifests of an open library say                               *)

LEMMA ManifestAdmits ==
    ASSUME NEW d \in Database, NEW m \in Meetings, HasMeeting(d, m)
    PROVE  Admits(d, m, ManifestOf(d, m))
<1>1. Unfiled \notin Folders
    BY LibraryAssumption
<1>2. QED
    BY <1>1 DEF Admits, ManifestOf, FolderLocal, Flag

LEMMA BlindAdmits ==
    ASSUME NEW d \in Database, NEW m \in Meetings
    PROVE  Admits(d, m, BlindManifest)
    BY DEF Admits, BlindManifest

LEMMA FilledAdmits ==
    ASSUME TypeOK, NEW m \in Meetings, HasMeeting(db, m)
    PROVE  Admits(db, m, Filled(m))
<1> DEFINE row == ManifestOf(db, m)
<1> DEFINE file == manifest[m]
<1>1. row \in Manifest /\ Admits(db, m, row) /\ db \in Database
      /\ row.path = NoteFolder(db, NoteOf[m])
    BY ManifestAdmits, ManifestShape DEF TypeOK
<1>2. /\ OwnLocal(db, m) => row.local = "yes"
      /\ FolderLocal(db, row.path) => row.flag = "yes"
    BY LibraryAssumption DEF ManifestOf, FolderLocal, Flag
<1>3. CASE file = NoFile
    BY <1>1, <1>3 DEF Filled, BackfillManifest
<1>4. CASE file # NoFile
    <2> DEFINE path == IF file.path = Unfiled THEN row.path ELSE file.path
    <2> DEFINE local == MergeFlags(file.local, row.local, TRUE)
    <2> DEFINE flag == MergeFlags(file.flag, row.flag, path = row.path)
    <2> DEFINE next == [local |-> local, path |-> path, flag |-> flag]
    <2>1. file \in Manifest
        BY <1>4 DEF TypeOK
    <2>2. file.local \in Said /\ file.flag \in Said
        BY <2>1 DEF Manifest
    <2>3. Filled(m) = next
        BY <1>4 DEF Filled, BackfillManifest
    <2>4. next.local = local /\ next.path = path /\ next.flag = flag
        OBVIOUS
    <2>5. row.local = "yes" => local # "no"
        BY <2>2 DEF MergeFlags, Flag, Said
    <2>6. path = row.path /\ row.flag = "yes" => flag # "no"
        BY <2>2 DEF MergeFlags, Flag, Said
    <2> HIDE DEF row, file, path, local, flag, next
    <2>7. Admits(db, m, next)
        BY <1>1, <1>2, <2>4, <2>5, <2>6 DEF Admits
    <2>8. QED
        BY <2>3, <2>7
<1>5. QED
    BY <1>3, <1>4

Says(m) == Attached(db, m) /\ manifest[m] # NoFile /\ ~MissedManifest(m) =>
                Admits(db, m, manifest[m])

LEMMA RecordingsSay ==
    ASSUME TypeOK, TypeOK', Tidy, NEW m \in Meetings,
           \/ StartRecording(m) \/ StopFails(m) \/ AttachRecording(m) \/ ImportStage(m)
           \/ ImportJoin(m) \/ Purge(m) \/ TakeSession,
           NEW o \in Meetings, Says(o)
    PROVE  Says(o)'
<1>0. db \in Database /\ db' \in Database /\ NoteOf[o] \in Notes
    BY LibraryAssumption DEF TypeOK
<1>1. CASE StartRecording(m) \/ ImportStage(m)
    <2>1. PICK staged \in BOOLEAN : NewRows(m, staged)
        BY <1>1 DEF StartRecording, ImportStage
    <2>2. /\ \A x \in Meetings : x # m => db'.meeting[x] = db.meeting[x]
          /\ ~Attached(db', m)
          /\ \A n \in Notes : HasNote(db, n) \/ n # NoteOf[m] => db'.note[n] = db.note[n]
          /\ HasNote(db', NoteOf[m])
          /\ ~HasNote(db, NoteOf[m]) =>
                db'.note[NoteOf[m]] = [folder |-> Unfiled, body |-> 0, at |-> 0]
          /\ db'.folder = db.folder
        BY <2>1, NewRowsEffect
    <2>3. manifest' = manifest /\ missed' = missed
        BY <1>1 DEF StartRecording, ImportStage
    <2>4. NoteFolder(db', NoteOf[o]) = NoteFolder(db, NoteOf[o])
        BY <1>0, <2>2 DEF NoteFolder, HasNote
    <2>5. QED
        BY <2>2, <2>3, <2>4 DEF Says, Admits, Attached, HasMeeting, OwnLocal, FolderLocal,
            MissedManifest
<1>2. CASE StopFails(m) \/ TakeSession
    BY <1>2 DEF StopFails, TakeSession, Says, MissedManifest
<1>3. CASE AttachRecording(m) \/ ImportJoin(m)
    <2>1. db' = db \/ (HasMeeting(db, m) /\ db' = [db EXCEPT !.meeting[m].attached = TRUE])
        BY <1>3 DEF AttachRecording, ImportJoin
    <2>2. /\ HasMeeting(db', o) <=> HasMeeting(db, o)
          /\ OwnLocal(db', o) <=> OwnLocal(db, o)
          /\ o # m => (Attached(db', o) <=> Attached(db, o))
          /\ db'.note = db.note /\ db'.folder = db.folder
        <3>1. CASE db' = db
            BY <3>1
        <3>2. CASE HasMeeting(db, m) /\ db' = [db EXCEPT !.meeting[m].attached = TRUE]
            BY <1>0, <3>2, RowEffect DEF HasMeeting, OwnLocal, Attached
        <3>3. QED
            BY <2>1, <3>1, <3>2
    <2>3. ASSUME NEW file, Admits(db, o, file)
          PROVE  Admits(db', o, file)
        BY <2>2, <2>3 DEF Admits, NoteFolder, HasNote, FolderLocal
    <2>4. CASE o # m
        <3>1. manifest'[o] = manifest[o] /\ (MissedManifest(o) => MissedManifest(o)')
            BY <1>3, <2>4 DEF AttachRecording, ImportJoin, TypeOK, MissedManifest
        <3>2. QED
            BY <2>2, <2>3, <2>4, <3>1 DEF Says
    <2>5. CASE o = m /\ ImportJoin(m)
        BY <2>5 DEF ImportJoin, Says, MissedManifest, Notices
    <2>6. CASE o = m /\ AttachRecording(m)
        <3>1. manifest[m] = NoFile
            BY <2>6 DEF AttachRecording, Tidy, RecordersAreFresh, Recorders, Fresh
        <3>2. manifest' = manifest \/
              manifest' = [manifest EXCEPT ![m] = IF HasNote(db, NoteOf[m])
                                                  THEN ManifestOf(db, m) ELSE BlindManifest]
            BY <2>6 DEF AttachRecording
        <3>3. manifest'[m] \in {NoFile, ManifestOf(db, m), BlindManifest}
            BY <3>1, <3>2 DEF TypeOK
        <3>4. HasMeeting(db, m) => \/ manifest'[m] = NoFile
                                   \/ Admits(db, m, manifest'[m])
            BY <1>0, <3>3, ManifestAdmits, BlindAdmits
        <3>5. QED
            BY <2>2, <2>3, <2>6, <3>4 DEF Says, Attached
    <2>7. QED
        BY <1>3, <2>4, <2>5, <2>6
<1>4. CASE Purge(m)
    <2>1. /\ ~HasMeeting(db', m) /\ db'.note = db.note /\ db'.folder = db.folder
          /\ o # m => db'.meeting[o] = db.meeting[o]
        BY <1>0, <1>4, RowEffect DEF Purge
    <2>2. CASE o = m
        BY <2>1, <2>2 DEF Says, Attached
    <2>3. CASE o # m
        <3>1. manifest'[o] = manifest[o] /\ missed' = missed
            BY <1>4, <2>3 DEF Purge, TypeOK
        <3>2. QED
            BY <2>1, <2>3, <3>1 DEF Says, Admits, Attached, HasMeeting, OwnLocal, NoteFolder,
                HasNote, FolderLocal, MissedManifest
    <2>4. QED
        BY <2>2, <2>3
<1>5. QED
    BY <1>1, <1>2, <1>3, <1>4

\* A refresh leaves a meeting's manifest right, or its write owed.
LEMMA RefreshSays ==
    ASSUME TypeOK, TypeOK', Tidy, NEW M \in SUBSET Meetings, Refresh(db', M), dirs' = dirs,
           NEW o \in M
    PROVE  Says(o)'
<1>1. db' \in Database
    BY DEF TypeOK
<1>2. CASE o \in Reach(db', M)
    <2>1. HasMeeting(db', o)
        BY <1>2 DEF Reach, Attached
    <2>2. manifest'[o] = ManifestOf(db', o) \/ MissedManifest(o)'
        BY <1>1, <1>2, RefreshEffect
    <2>3. QED
        BY <1>1, <2>1, <2>2, ManifestAdmits DEF Says
<1>3. CASE o \notin Reach(db', M)
    <2>1. manifest'[o] = manifest[o]
        BY <1>1, <1>3, RefreshEffect
    <2>2. Attached(db', o) => manifest[o] = NoFile
        BY <1>3 DEF Reach, Tidy, FilesHaveFolders
    <2>3. QED
        BY <2>1, <2>2 DEF Says
<1>4. QED
    BY <1>2, <1>3

LEMMA NotesSay ==
    ASSUME TypeOK, TypeOK', Tidy, NoteStep, NEW o \in Meetings, Says(o)
    PROVE  Says(o)'
<1>0. db \in Database /\ db' \in Database /\ NoteOf[o] \in Notes /\ Unfiled \notin Folders
    BY LibraryAssumption DEF TypeOK
<1>1. Attached(db', o) <=> Attached(db, o)
    BY NotesKeepRecordings DEF SameRecording
<1>2. ASSUME NEW n \in Notes, EditNote(n)
      PROVE  Says(o)'
    <2>1. NoteFolder(db', NoteOf[o]) = NoteFolder(db, NoteOf[o])
        BY <1>0, <1>2, EditEffect DEF NoteFolder, HasNote
    <2>2. db'.meeting = db.meeting /\ db'.folder = db.folder
        BY <1>2, EditEffect
    <2>3. MissedManifest(o) => MissedManifest(o)'
        BY <1>0, <1>2, SyncEffect DEF EditNote
    <2>4. manifest' = manifest
        BY <1>2 DEF EditNote
    <2>5. QED
        BY <1>1, <2>1, <2>2, <2>3, <2>4 DEF Says, Admits, OwnLocal, HasMeeting, FolderLocal
<1>3. ASSUME NEW n \in Notes, BeginDelete(n)
      PROVE  Says(o)'
    BY <1>3 DEF BeginDelete, Says, MissedManifest
<1>4. ASSUME NEW n \in Notes, DeleteRow(n)
      PROVE  Says(o)'
    <2>1. manifest' = manifest /\ missed' = missed
        BY <1>4 DEF DeleteRow
    <2>2. db'.meeting = db.meeting /\ db'.folder = db.folder
        BY <1>4, DeleteRowEffect
    <2>3. \/ NoteFolder(db', NoteOf[o]) = Unfiled
          \/ NoteFolder(db', NoteOf[o]) = NoteFolder(db, NoteOf[o])
        BY <1>0, <1>4, DeleteRowEffect DEF NoteFolder, HasNote
    <2>4. QED
        BY <1>0, <1>1, <2>1, <2>2, <2>3 DEF Says, Admits, OwnLocal, HasMeeting, FolderLocal,
            MissedManifest
<1>5. ASSUME NEW n \in Notes, NEW f \in Folders \cup {Unfiled}, NEW b \in BOOLEAN,
             MoveNote(n, f) \/ SetNoteLocal(n, b)
      PROVE  Says(o)'
    <2>1. Refresh(db', Siblings(n)) /\ Siblings(n) \in SUBSET Meetings /\ dirs' = dirs
        BY <1>5, RefreshInOrderIsRefresh DEF MoveNote, SetNoteLocal, Siblings
    <2>2. CASE o \in Siblings(n)
        BY <2>1, <2>2, RefreshSays
    <2>3. CASE o \notin Siblings(n)
        <3>1. NoteOf[o] # n
            BY <2>3 DEF Siblings
        <3>2. /\ db'.note[NoteOf[o]] = db.note[NoteOf[o]]
              /\ db'.meeting[o] = db.meeting[o] /\ db'.folder = db.folder
            BY <1>0, <1>5, <3>1, MoveEffect, SetLocalEffect
        <3>3. manifest'[o] = manifest[o] /\ (MissedManifest(o) => MissedManifest(o)')
            BY <1>0, <2>1, <2>3, RefreshEffect DEF Reach
        <3>4. QED
            BY <1>1, <3>2, <3>3 DEF Says, Admits, OwnLocal, HasMeeting, FolderLocal,
                NoteFolder, HasNote
    <2>4. QED
        BY <2>2, <2>3
<1>6. ASSUME NEW g \in Folders, NEW to \in {"absent", "open", "local"}, SetFolder(g, to)
      PROVE  Says(o)'
    <2>1. Refresh(db', Subtree(db, g)) /\ Subtree(db, g) \in SUBSET Meetings /\ dirs' = dirs
        BY <1>6 DEF SetFolder, Subtree
    <2>2. CASE o \in Subtree(db, g)
        BY <2>1, <2>2, RefreshSays
    <2>3. CASE o \notin Subtree(db, g)
        <3>1. NoteFolder(db, NoteOf[o]) # g
            BY <2>3 DEF Subtree
        <3>2. NoteFolder(db', NoteOf[o]) = NoteFolder(db, NoteOf[o]) /\ db'.meeting = db.meeting
              /\ \A f \in Folders : f # g => db'.folder[f] = db.folder[f]
            BY <1>0, <1>6, <3>1, SetFolderEffect
        <3>3. manifest'[o] = manifest[o] /\ (MissedManifest(o) => MissedManifest(o)')
            BY <1>0, <2>1, <2>3, RefreshEffect DEF Reach
        <3>4. QED
            BY <1>1, <3>1, <3>2, <3>3 DEF Says, Admits, OwnLocal, HasMeeting, FolderLocal
    <2>4. QED
        BY <2>2, <2>3
<1>7. QED
    BY <1>2, <1>3, <1>4, <1>5, <1>6 DEF NoteStep

LEMMA BackfillSays ==
    ASSUME TypeOK, Tidy, Backfill, NEW o \in Meetings
    PROVE  Says(o)'
<1>1. db' = db
    BY DEF Backfill
<1>2. CASE o \in Reach(db, Meetings)
    <2>1. HasMeeting(db, o)
        BY <1>2 DEF Reach, Attached
    <2>2. MissedManifest(o)' \/ manifest'[o] = Filled(o)
        BY <1>2, BackfillEffect
    <2>3. QED
        BY <1>1, <2>1, <2>2, FilledAdmits DEF Says
<1>3. CASE o \notin Reach(db, Meetings)
    <2>1. manifest'[o] = manifest[o]
        BY <1>3, BackfillEffect
    <2>2. Attached(db, o) => manifest[o] = NoFile
        BY <1>3 DEF Reach, Tidy, FilesHaveFolders
    <2>3. QED
        BY <1>1, <2>1, <2>2 DEF Says
<1>4. QED
    BY <1>2, <1>3

\* An open library stays one through its commands, or it is just open.
LEMMA ReadySteps ==
    ASSUME Next, app' = "ready"
    PROVE  \/ Backfill
           \/ /\ app = "ready"
              /\ \/ NoteStep \/ TakeSession
                 \/ \E m \in Meetings :
                        \/ StartRecording(m) \/ StopFails(m) \/ AttachRecording(m)
                        \/ ImportStage(m) \/ ImportJoin(m) \/ Purge(m)
<1>1. CASE NoteStep
    BY <1>1 DEF NoteStep, EditNote, BeginDelete, DeleteRow, MoveNote, SetNoteLocal, SetFolder
<1>2. ASSUME NEW m \in Meetings,
             \/ StartRecording(m) \/ StopFails(m) \/ AttachRecording(m)
             \/ ImportStage(m) \/ ImportJoin(m) \/ Purge(m)
      PROVE  app = "ready"
    BY <1>2 DEF StartRecording, StopFails, AttachRecording, ImportStage, ImportJoin, Purge
<1>3. QED
    BY <1>1, <1>2, StepsOfNext DEF TakeSession, Open, BeginHeal, SkipWhole, HealOne, HealFails,
        HealBreaks, Crash, CrashInHeal, LoseDb, RestoreBackup, Stopped

LEMMA SaysHolds == Spec => []SaysLocalNow
<1>1. Init => SaysLocalNow
    BY DEF Init, SaysLocalNow
<1>2. TypeOK /\ Tidy /\ TypeOK' /\ SaysLocalNow /\ [Next]_vars => SaysLocalNow'
    <2> SUFFICES ASSUME TypeOK, TypeOK', Tidy, SaysLocalNow, [Next]_vars
                 PROVE  SaysLocalNow'
        OBVIOUS
    <2>1. CASE Next /\ app' = "ready"
        <3>1. CASE Backfill
            BY <3>1, BackfillSays DEF SaysLocalNow, Says, MissedManifest
        <3>2. CASE ~Backfill
            <4>1. app = "ready"
                BY <2>1, <3>2, ReadySteps
            <4>2. \A o \in Meetings : Says(o)
                BY <4>1 DEF SaysLocalNow, Says, MissedManifest
            <4>3. CASE TakeSession
                BY <4>2, <4>3 DEF TakeSession, Says, SaysLocalNow, MissedManifest
            <4>4. CASE ~TakeSession
                <5>1. \A o \in Meetings : Says(o)'
                    BY <2>1, <3>2, <4>2, <4>4, ReadySteps, NotesSay, RecordingsSay
                <5>2. QED
                    BY <5>1 DEF SaysLocalNow, Says, MissedManifest
            <4>5. QED
                BY <4>3, <4>4
        <3>3. QED
            BY <3>1, <3>2
    <2>2. CASE app' # "ready"
        BY <2>2 DEF SaysLocalNow
    <2>3. CASE UNCHANGED vars
        BY <2>3 DEF vars, SaysLocalNow
    <2>4. QED
        BY <2>1, <2>2, <2>3
<1>3. QED
    BY <1>1, <1>2, TidyHolds, PTL DEF Spec

\* A meeting kept local has a manifest that says so, or leaves it unsaid, for
\* any number of notes, folders, meetings and failed writes, unless the write
\* of it is owed or it does not know of a move
\* (refresh_recording_manifest, backfill_manifest).
THEOREM ManifestsSayKeptLocal == Spec => []ManifestAtLeastAsLocal
<1>1. TypeOK /\ SaysLocalNow => ManifestAtLeastAsLocal
    <2> SUFFICES ASSUME TypeOK, SaysLocalNow, app = "ready", NEW m \in Meetings,
                        Attached(db, m), manifest[m] # NoFile, <<m, "manifest">> \notin missed,
                        manifest[m].path = NoteFolder(db, NoteOf[m]), EffLocal(db, m)
                 PROVE  Recorded(manifest[m]) # "no"
        BY DEF ManifestAtLeastAsLocal
    <2>1. Admits(db, m, manifest[m]) /\ HasMeeting(db, m) /\ manifest[m] \in Manifest
        BY DEF SaysLocalNow, Attached, TypeOK
    <2>2. manifest[m].local \in Said /\ manifest[m].flag \in Said
        BY <2>1 DEF Manifest
    <2>3. CASE OwnLocal(db, m)
        BY <2>1, <2>2, <2>3 DEF Admits, Recorded, Flag, Said
    <2>4. CASE FolderLocal(db, manifest[m].path)
        <3>1. manifest[m].path # Unfiled /\ manifest[m].flag # "no"
            BY <2>1, <2>4, LibraryAssumption DEF Admits, FolderLocal
        <3>2. QED
            BY <2>2, <3>1 DEF Recorded, Flag, Said
    <2>5. QED
        BY <2>1, <2>3, <2>4 DEF EffLocal
<1>2. QED
    BY <1>1, LibraryTypes, SaysHolds, PTL

-----------------------------------------------------------------------------
(* Where texts come from                                                   *)

\* What a mirror may be after a step: what it was, or the note's text.
LEMMA MirrorSource ==
    ASSUME TypeOK, TypeOK', Tidy, Next, NEW o \in Meetings, mirror'[o] # NoFile,
           mirror'[o] # mirror[o]
    PROVE  \/ HasNote(db, NoteOf[o]) /\ mirror'[o] = MirrorOf(db, NoteOf[o])
           \/ HasNote(db', NoteOf[o]) /\ mirror'[o] = MirrorOf(db', NoteOf[o])
<1>0. db \in Database /\ db' \in Database /\ NoteOf[o] \in Notes
    BY LibraryAssumption DEF TypeOK
<1>1. ASSUME NEW n \in Notes, SyncMirrors(db', n), HasNote(db', n)
      PROVE  HasNote(db', NoteOf[o]) /\ mirror'[o] = MirrorOf(db', NoteOf[o])
    <2>1. o \in Reach(db', Siblings(n)) /\ mirror'[o] = MirrorOf(db', n)
        BY <1>0, <1>1, SyncEffect
    <2>2. NoteOf[o] = n
        BY <2>1 DEF Reach, Siblings
    <2>3. QED
        BY <1>1, <2>1, <2>2
<1>2. CASE NoteStep
    <2>1. PICK n \in Notes : EditNote(n)
        BY <1>2 DEF NoteStep, BeginDelete, DeleteRow, MoveNote, SetNoteLocal, SetFolder
    <2>2. HasNote(db', n) /\ SyncMirrors(db', n)
        BY <2>1, EditEffect DEF EditNote
    <2>3. QED
        BY <1>1, <2>2
<1>3. ASSUME NEW m \in Meetings,
             \/ StartRecording(m) \/ StopFails(m) \/ AttachRecording(m)
             \/ ImportStage(m) \/ ImportJoin(m) \/ Purge(m)
      PROVE  HasNote(db, NoteOf[o]) /\ mirror'[o] = MirrorOf(db, NoteOf[o])
    <2>1. AttachRecording(m)
        <3>1. CASE Purge(m)
            <4>1. mirror' = mirror \/ mirror' = [mirror EXCEPT ![m] = NoFile]
                BY <3>1 DEF Purge
            <4>2. mirror \in [Meetings -> Mirror \cup {NoFile}]
                BY DEF TypeOK
            <4>3. mirror'[o] = mirror[o] \/ mirror'[o] = NoFile
                BY <4>1, <4>2
            <4>4. QED
                BY <4>3
        <3>2. CASE StartRecording(m) \/ StopFails(m) \/ ImportStage(m) \/ ImportJoin(m)
            <4>1. mirror' = mirror
                BY <3>2 DEF StartRecording, StopFails, ImportStage, ImportJoin
            <4>2. QED
                BY <4>1
        <3>3. QED
            BY <1>3, <3>1, <3>2
    <2>2. mirror' = mirror \/ (/\ HasNote(db, NoteOf[m])
                               /\ mirror' = [mirror EXCEPT ![m] = MirrorOf(db, NoteOf[m])])
        BY <2>1 DEF AttachRecording
    <2>3. QED
        BY <2>2 DEF TypeOK
<1>4. ASSUME NEW m \in Meetings, HealOne(m)
      PROVE  HasNote(db', NoteOf[o]) /\ mirror'[o] = MirrorOf(db', NoteOf[o])
    <2>1. ~HasMeeting(db, m) /\ SyncMirrors(db', NoteOf[m])
        BY <1>4 DEF HealOne
    <2>2. HasNote(db', NoteOf[m]) /\ NoteOf[m] \in Notes
        BY <1>4, <2>1, HealChanges, LibraryAssumption
    <2>3. QED
        BY <1>1, <2>1, <2>2
<1>5. CASE Backfill
    <2>1. mirror'[o] = Caught(o)
        BY <1>5, BackfillEffect
    <2>2. QED
        BY <2>1 DEF Caught, BackfillMirror
<1>6. QED
    BY <1>2, <1>3, <1>4, <1>5, StepsOfNext DEF TakeSession, Open, BeginHeal, SkipWhole,
        HealFails, Crash, CrashInHeal, LoseDb, RestoreBackup, Stopped

NoText == [body |-> 0, at |-> 0]

\* The text of this very step.
NewText(n, v) == /\ now' = now + 1 /\ HasNote(db', n) /\ v = MirrorOf(db', n)
                 /\ v.at = now' /\ v.body <= now'

LEMMA ClockTicks ==
    ASSUME TypeOK, Next
    PROVE  now' = now \/ now' = now + 1
<1>1. CASE NoteStep
    BY <1>1 DEF NoteStep, EditNote, BeginDelete, DeleteRow, MoveNote, SetNoteLocal, SetFolder,
        Tick
<1>2. ASSUME NEW m \in Meetings,
             \/ StartRecording(m) \/ StopFails(m) \/ AttachRecording(m)
             \/ ImportStage(m) \/ ImportJoin(m) \/ Purge(m)
      PROVE  now' = now
    BY <1>2 DEF StartRecording, StopFails, AttachRecording, ImportStage, ImportJoin, Purge
<1>3. QED
    BY <1>1, <1>2, StepsOfNext DEF TakeSession, Open, BeginHeal, SkipWhole, HealOne,
        HealFails, Backfill, Crash, CrashInHeal, LoseDb, RestoreBackup, Stopped

\* A row rebuilt from a folder has the text of its mirror, or none.
LEMMA RebuiltText ==
    ASSUME TypeOK, NEW m \in Meetings, Rebuilds(db, db', m), NEW n \in Notes, NEW v,
           InRows(db', n, v)
    PROVE  OnRecord(n, v) \/ v = NoText
<1>1. CASE HasNote(db, n) \/ n # NoteOf[m]
    BY <1>1 DEF Rebuilds, InRows, HasNote, MirrorOf, OnRecord
<1>2. CASE ~HasNote(db, n) /\ n = NoteOf[m]
    <2>1. IF mirror[m] = NoFile THEN db'.note[n].body = 0 /\ db'.note[n].at = 0
          ELSE MirrorOf(db', n) = mirror[m]
        BY <1>2 DEF Rebuilds, InRows
    <2>2. m \in Siblings(n)
        BY <1>2 DEF Siblings
    <2>3. QED
        BY <2>1, <2>2 DEF InRows, MirrorOf, OnRecord, NoText
<1>3. QED
    BY <1>1, <1>2

LEMMA RowSource ==
    ASSUME TypeOK, TypeOK', Tidy, Dates, Next, NEW n \in Notes, NEW v \in Mirror,
           InRows(db', n, v)
    PROVE  OnRecord(n, v) \/ v = NoText \/ NewText(n, v)
<1>0. db \in Database /\ db' \in Database /\ now \in Nat
    BY StampsAreNumbers DEF TypeOK
<1>1. ASSUME NEW k \in Notes, EditNote(k)
      PROVE  OnRecord(n, v) \/ NewText(n, v)
    <2>1. CASE n = k
        <3>1. db'.note[n].body = now' /\ db'.note[n].at = now' /\ now' = now + 1
            BY <1>1, <2>1, EditEffect DEF EditNote, Tick
        <3>2. QED
            BY <1>0, <3>1 DEF InRows, NewText, MirrorOf
    <2>2. CASE n # k
        BY <1>1, <2>2, EditEffect DEF InRows, HasNote, MirrorOf, OnRecord
    <2>3. QED
        BY <2>1, <2>2
<1>2. ASSUME NEW k \in Notes, NEW f \in Folders \cup {Unfiled}, MoveNote(k, f)
      PROVE  OnRecord(n, v) \/ NewText(n, v)
    <2>1. CASE n = k
        <3>1. /\ db'.note[n].body = db.note[n].body /\ db'.note[n].at = now' /\ now' = now + 1
              /\ HasNote(db, n)
            BY <1>2, <2>1, MoveEffect DEF MoveNote, Tick
        <3>2. MirrorOf(db, n) \in Mirror /\ OnRecord(n, MirrorOf(db, n))
            BY <1>0, <3>1, MirrorTyped DEF OnRecord, InRows
        <3>3. MirrorOf(db, n).body <= MirrorOf(db, n).at /\ MirrorOf(db, n).at <= now
            BY <3>2 DEF Dates
        <3>4. db.note[n].body <= db.note[n].at /\ db.note[n].at <= now
              /\ db.note[n].body \in Nat /\ db.note[n].at \in Nat
            BY <3>2, <3>3, StampsAreNumbers DEF MirrorOf, Mirror
        <3>5. db.note[n].body <= now'
            BY <1>0, <3>1, <3>4
        <3>6. QED
            BY <3>1, <3>5 DEF InRows, NewText, MirrorOf
    <2>2. CASE n # k
        BY <1>2, <2>2, MoveEffect DEF InRows, HasNote, MirrorOf, OnRecord
    <2>3. QED
        BY <2>1, <2>2
<1>3. ASSUME NEW f \in Folders, NEW to \in {"absent", "open", "local"}, SetFolder(f, to)
      PROVE  OnRecord(n, v)
    BY <1>3, SetFolderEffect DEF InRows, MirrorOf, OnRecord
<1>4. CASE NoteStep
    <2>1. ASSUME NEW k \in Notes, NEW b \in BOOLEAN,
                 BeginDelete(k) \/ DeleteRow(k) \/ SetNoteLocal(k, b)
          PROVE  OnRecord(n, v)
        <3>1. HasNote(db', n) => db'.note[n] = db.note[n]
            BY <2>1, DeleteRowEffect, SetLocalEffect DEF BeginDelete
        <3>2. QED
            BY <3>1 DEF InRows, HasNote, MirrorOf, OnRecord
    <2>2. QED
        BY <1>1, <1>2, <1>3, <1>4, <2>1 DEF NoteStep
<1>5. ASSUME NEW m \in Meetings, StartRecording(m) \/ ImportStage(m)
      PROVE  OnRecord(n, v) \/ v = NoText
    <2>1. PICK staged \in BOOLEAN : NewRows(m, staged)
        BY <1>5 DEF StartRecording, ImportStage
    <2>2. CASE HasNote(db, n) \/ n # NoteOf[m]
        BY <2>1, <2>2, NewRowsEffect DEF InRows, HasNote, MirrorOf, OnRecord
    <2>3. CASE ~HasNote(db, n) /\ n = NoteOf[m]
        <3>1. db'.note[n] = [folder |-> Unfiled, body |-> 0, at |-> 0]
            BY <2>1, <2>3, NewRowsEffect
        <3>2. QED
            BY <3>1 DEF InRows, MirrorOf, NoText
    <2>4. QED
        BY <2>2, <2>3
<1>6. ASSUME NEW m \in Meetings,
             StopFails(m) \/ AttachRecording(m) \/ ImportJoin(m) \/ Purge(m)
      PROVE  OnRecord(n, v)
    <2>1. \/ db' = db
          \/ HasMeeting(db, m) /\ db' = [db EXCEPT !.meeting[m].attached = TRUE]
          \/ db' = [db EXCEPT !.meeting[m] = NoRow]
        BY <1>6 DEF StopFails, AttachRecording, ImportJoin, Purge
    <2>2. db'.note = db.note
        <3>1. CASE HasMeeting(db, m) /\ db' = [db EXCEPT !.meeting[m].attached = TRUE]
            BY <1>0, <3>1, RowEffect
        <3>2. CASE db' = [db EXCEPT !.meeting[m] = NoRow]
            BY <1>0, <3>2, RowEffect
        <3>3. QED
            BY <2>1, <3>1, <3>2
    <2>3. QED
        BY <2>2 DEF InRows, HasNote, MirrorOf, OnRecord
<1>7. ASSUME NEW m \in Meetings, HealOne(m) \/ HealFails(m) \/ CrashInHeal(m)
      PROVE  OnRecord(n, v) \/ v = NoText
    <2>1. CASE HealOne(m)
        BY <2>1, HealChanges, RebuiltText
    <2>2. CASE HealFails(m) \/ CrashInHeal(m)
        BY <2>2, BreaksTyped, RebuiltText DEF HealFails, CrashInHeal, Tidy
    <2>3. QED
        BY <1>7, <2>1, <2>2
<1>8. CASE RestoreBackup
    BY <1>8 DEF RestoreBackup, OnRecord
<1>9. CASE LoseDb
    BY <1>9 DEF LoseDb, EmptyDb, InRows, HasNote
<1>10. CASE db' = db
    BY <1>10 DEF OnRecord
<1>11. QED
    BY <1>4, <1>5, <1>6, <1>7, <1>8, <1>9, <1>10, StepsOfNext DEF TakeSession, Open, BeginHeal,
        SkipWhole, Backfill, Crash

LEMMA BackupSource ==
    ASSUME Next
    PROVE  backup' = backup \/ backup' = db
<1>1. CASE NoteStep
    BY <1>1 DEF NoteStep, EditNote, BeginDelete, DeleteRow, MoveNote, SetNoteLocal, SetFolder
<1>2. ASSUME NEW m \in Meetings,
             \/ StartRecording(m) \/ StopFails(m) \/ AttachRecording(m)
             \/ ImportStage(m) \/ ImportJoin(m) \/ Purge(m)
      PROVE  backup' = backup
    BY <1>2 DEF StartRecording, StopFails, AttachRecording, ImportStage, ImportJoin, Purge
<1>3. QED
    BY <1>1, <1>2, StepsOfNext DEF TakeSession, Open, BeginHeal, SkipWhole, HealOne, HealFails,
        Backfill, Crash, CrashInHeal, LoseDb, RestoreBackup

\* A text on record after a step was on record before, is of this very step,
\* or is none.
LEMMA RecordsGrow ==
    ASSUME TypeOK, TypeOK', Tidy, Dates, Next, NEW n \in Notes, NEW v \in Mirror,
           OnRecord(n, v)'
    PROVE  OnRecord(n, v) \/ v = NoText \/ NewText(n, v)
<1>1. CASE InRows(db', n, v)
    BY <1>1, RowSource
<1>2. CASE backup' # NoBackup /\ InRows(backup', n, v)
    BY <1>2, BackupSource DEF OnRecord
<1>3. ASSUME NEW m \in Siblings(n), mirror'[m] # NoFile, v = mirror'[m]
      PROVE  OnRecord(n, v) \/ v = NoText \/ NewText(n, v)
    <2>1. m \in Meetings /\ NoteOf[m] = n
        BY DEF Siblings
    <2>2. CASE mirror'[m] = mirror[m]
        BY <1>3, <2>2 DEF OnRecord
    <2>3. CASE mirror'[m] # mirror[m]
        <3>1. \/ HasNote(db, n) /\ v = MirrorOf(db, n)
              \/ HasNote(db', n) /\ v = MirrorOf(db', n)
            BY <1>3, <2>1, <2>3, MirrorSource
        <3>2. QED
            BY <3>1, RowSource DEF InRows, OnRecord
    <2>4. QED
        BY <2>2, <2>3
<1>4. QED
    BY <1>1, <1>2, <1>3 DEF OnRecord, Siblings

LEMMA DatesStep ==
    ASSUME TypeOK, TypeOK', Tidy, Dates, Next
    PROVE  Dates'
<1>0. now \in Nat /\ (now' = now \/ now' = now + 1)
    BY ClockTicks, StampsAreNumbers DEF TypeOK
<1>1. SUFFICES ASSUME NEW n \in Notes, NEW v \in Mirror, NEW w \in Mirror, OnRecord(n, v)'
               PROVE  /\ v.body <= v.at /\ v.at <= now'
                      /\ OnRecord(n, w)' /\ v.at = w.at => v.body = w.body
    BY DEF Dates
<1>2. v.body \in Nat /\ v.at \in Nat /\ w.body \in Nat /\ w.at \in Nat
    BY StampsAreNumbers DEF Mirror
<1>3. ASSUME NEW x \in Mirror, OnRecord(n, x)'
      PROVE  /\ x.body <= x.at /\ x.at <= now'
             /\ \/ OnRecord(n, x) /\ x.at <= now
                \/ x.body = 0 /\ x.at = 0
                \/ x = MirrorOf(db', n) /\ x.at = now' /\ now' = now + 1
    <2>0. x.body \in Nat /\ x.at \in Nat
        BY StampsAreNumbers DEF Mirror
    <2>1. CASE OnRecord(n, x)
        <3>1. x.body <= x.at /\ x.at <= now
            BY <2>1 DEF Dates
        <3>2. QED
            BY <1>0, <2>0, <2>1, <3>1
    <2>2. CASE x = NoText
        BY <1>0, <2>2 DEF NoText
    <2>3. CASE NewText(n, x)
        BY <1>0, <2>0, <2>3 DEF NewText
    <2>4. QED
        BY <1>3, <2>1, <2>2, <2>3, RecordsGrow
<1>4. v.body <= v.at /\ v.at <= now'
    BY <1>1, <1>3
<1>5. ASSUME OnRecord(n, w)', v.at = w.at
      PROVE  v.body = w.body
    <2>1. CASE OnRecord(n, v) /\ OnRecord(n, w)
        BY <1>5, <2>1 DEF Dates
    <2>2. CASE v.at = 0
        <3>1. v.body <= v.at /\ w.body <= w.at
            BY <1>1, <1>3, <1>5
        <3>2. QED
            BY <1>2, <1>5, <2>2, <3>1
    <2>3. CASE v.at # 0 /\ ~(OnRecord(n, v) /\ OnRecord(n, w))
        <3>1. v = MirrorOf(db', n) /\ w = MirrorOf(db', n)
            BY <1>0, <1>1, <1>2, <1>3, <1>5, <2>3
        <3>2. QED
            BY <3>1
    <2>4. QED
        BY <2>1, <2>2, <2>3
<1>6. QED
    BY <1>4, <1>5

LEMMA DatesHold == Spec => []Dates
<1>1. Init => Dates
    BY DEF Init, EmptyDb, Dates, OnRecord, InRows, HasNote, Siblings
<1>2. TypeOK /\ Tidy /\ TypeOK' /\ Dates /\ [Next]_vars => Dates'
    <2>1. UNCHANGED vars /\ Dates => Dates'
        BY DEF vars, Dates, OnRecord, InRows
    <2>2. QED
        BY <2>1, DatesStep
<1>3. QED
    BY <1>1, <1>2, TidyHolds, PTL DEF Spec

-----------------------------------------------------------------------------
(* Mirrors                                                                 *)

\* A mirror holds no older text than its note, unless its write is owed.
UpToDate(m) == /\ Attached(db, m) /\ HasNote(db, NoteOf[m])
               /\ mirror[m] # NoFile /\ ~MissedMirror(m)
               => mirror[m].body >= db.note[NoteOf[m]].body

LEMMA BodiesAreNumbers ==
    ASSUME TypeOK, NEW n \in Notes, HasNote(db, n)
    PROVE  db.note[n].body \in Nat /\ db.note[n].at \in Nat
    BY StampsAreNumbers DEF TypeOK, Database, HasNote, NoteRow

LEMMA RecordingsKeepMirrors ==
    ASSUME TypeOK, TypeOK', Tidy, NEW m \in Meetings,
           \/ StartRecording(m) \/ StopFails(m) \/ AttachRecording(m)
           \/ ImportStage(m) \/ ImportJoin(m) \/ Purge(m),
           NEW o \in Meetings, UpToDate(o)
    PROVE  UpToDate(o)'
<1>0. db \in Database /\ db' \in Database /\ NoteOf[o] \in Notes
    BY LibraryAssumption DEF TypeOK
<1>1. CASE StartRecording(m) \/ ImportStage(m)
    <2>1. PICK staged \in BOOLEAN : NewRows(m, staged)
        BY <1>1 DEF StartRecording, ImportStage
    <2>2. mirror' = mirror /\ missed' = missed
        BY <1>1 DEF StartRecording, ImportStage
    <2>3. Attached(db', o) => Attached(db, o)
        BY <2>1, NewRowsEffect DEF Attached, HasMeeting
    <2>4. CASE HasNote(db, NoteOf[o]) \/ NoteOf[o] # NoteOf[m]
        <3>1. db'.note[NoteOf[o]] = db.note[NoteOf[o]]
            BY <1>0, <2>1, <2>4, NewRowsEffect
        <3>2. QED
            BY <2>2, <2>3, <3>1 DEF UpToDate, HasNote, MissedMirror
    <2>5. CASE ~HasNote(db, NoteOf[o]) /\ NoteOf[o] = NoteOf[m]
        <3>1. db'.note[NoteOf[o]].body = 0
            BY <2>1, <2>5, NewRowsEffect
        <3>2. mirror'[o] # NoFile => mirror'[o].body \in Nat
            BY <2>2, StampsAreNumbers DEF TypeOK, Mirror
        <3>3. QED
            BY <3>1, <3>2 DEF UpToDate
    <2>6. QED
        BY <2>4, <2>5
<1>2. CASE StopFails(m)
    BY <1>2 DEF StopFails, UpToDate, MissedMirror
<1>3. CASE AttachRecording(m) \/ ImportJoin(m)
    <2>1. db' = db \/ (HasMeeting(db, m) /\ db' = [db EXCEPT !.meeting[m].attached = TRUE])
        BY <1>3 DEF AttachRecording, ImportJoin
    <2>2. /\ o # m => (Attached(db', o) <=> Attached(db, o))
          /\ db'.note = db.note
        <3>1. CASE db' = db
            BY <3>1
        <3>2. CASE HasMeeting(db, m) /\ db' = [db EXCEPT !.meeting[m].attached = TRUE]
            BY <1>0, <3>2, RowEffect DEF HasMeeting, Attached
        <3>3. QED
            BY <2>1, <3>1, <3>2
    <2>3. CASE o # m
        <3>1. mirror'[o] = mirror[o] /\ (MissedMirror(o) => MissedMirror(o)')
            BY <1>3, <2>3 DEF AttachRecording, ImportJoin, TypeOK, MissedMirror
        <3>2. QED
            BY <2>2, <2>3, <3>1 DEF UpToDate, HasNote
    <2>4. CASE o = m /\ ImportJoin(m)
        BY <2>4 DEF ImportJoin, UpToDate, MissedMirror, Notices
    <2>5. CASE o = m /\ AttachRecording(m)
        <3>1. mirror[m] = NoFile
            BY <2>5 DEF AttachRecording, Tidy, RecordersAreFresh, Recorders, Fresh
        <3>2. mirror' = mirror \/
              (HasNote(db, NoteOf[m]) /\ mirror' = [mirror EXCEPT ![m] = MirrorOf(db, NoteOf[m])])
            BY <2>5 DEF AttachRecording
        <3>3. mirror'[m] # NoFile => mirror'[m] = MirrorOf(db, NoteOf[m])
            BY <3>1, <3>2 DEF TypeOK
        <3>4. mirror'[m] # NoFile /\ HasNote(db', NoteOf[m]) =>
                mirror'[m].body = db'.note[NoteOf[m]].body
            BY <2>2, <3>3 DEF MirrorOf
        <3>5. HasNote(db', NoteOf[m]) => db'.note[NoteOf[m]].body \in Nat
            BY <1>0, <2>5, <2>2, BodiesAreNumbers DEF HasNote
        <3>6. QED
            BY <2>5, <3>4, <3>5 DEF UpToDate
    <2>6. QED
        BY <1>3, <2>3, <2>4, <2>5
<1>4. CASE Purge(m)
    <2>1. /\ ~HasMeeting(db', m) /\ db'.note = db.note
          /\ o # m => db'.meeting[o] = db.meeting[o]
        BY <1>0, <1>4, RowEffect DEF Purge
    <2>2. CASE o = m
        BY <2>1, <2>2 DEF UpToDate, Attached
    <2>3. CASE o # m
        <3>1. mirror'[o] = mirror[o] /\ missed' = missed
            BY <1>4, <2>3 DEF Purge, TypeOK
        <3>2. QED
            BY <2>1, <2>3, <3>1 DEF UpToDate, Attached, HasMeeting, HasNote, MissedMirror
    <2>4. QED
        BY <2>2, <2>3
<1>5. QED
    BY <1>1, <1>2, <1>3, <1>4

LEMMA NotesKeepMirrors ==
    ASSUME TypeOK, TypeOK', Tidy, NoteStep, NEW o \in Meetings, UpToDate(o)
    PROVE  UpToDate(o)'
<1>0. db \in Database /\ db' \in Database /\ NoteOf[o] \in Notes
    BY LibraryAssumption DEF TypeOK
<1>1. Attached(db', o) <=> Attached(db, o)
    BY NotesKeepRecordings DEF SameRecording
<1>2. ASSUME mirror'[o] = mirror[o], MissedMirror(o) => MissedMirror(o)',
             HasNote(db', NoteOf[o]) => /\ HasNote(db, NoteOf[o])
                                        /\ db'.note[NoteOf[o]].body = db.note[NoteOf[o]].body
      PROVE  UpToDate(o)'
    BY <1>1, <1>2 DEF UpToDate
<1>3. ASSUME NEW n \in Notes, EditNote(n)
      PROVE  UpToDate(o)'
    <2>1. SyncMirrors(db', n)
        BY <1>3 DEF EditNote
    <2>2. CASE o \in Reach(db', Siblings(n))
        <3>1. NoteOf[o] = n
            BY <2>2 DEF Reach, Siblings
        <3>2. mirror'[o] = MirrorOf(db', n) \/ MissedMirror(o)'
            BY <1>0, <2>1, <2>2, SyncEffect
        <3>3. HasNote(db', n) /\ db'.note[n].body \in Nat
            BY <1>3, EditEffect, StampsAreNumbers DEF TypeOK
        <3>4. QED
            BY <3>1, <3>2, <3>3 DEF UpToDate, MirrorOf
    <2>3. CASE o \notin Reach(db', Siblings(n))
        <3>1. mirror'[o] = mirror[o] /\ (MissedMirror(o) => MissedMirror(o)')
            BY <1>0, <2>1, <2>3, SyncEffect
        <3>2. CASE NoteOf[o] = n
            <4>1. ~Attached(db', o) \/ mirror[o] = NoFile
                BY <1>3, <2>3, <3>2 DEF Reach, Siblings, EditNote, Tidy, FilesHaveFolders
            <4>2. QED
                BY <3>1, <4>1 DEF UpToDate
        <3>3. CASE NoteOf[o] # n
            BY <1>0, <1>2, <1>3, <3>1, <3>3, EditEffect DEF HasNote
        <3>4. QED
            BY <3>2, <3>3
    <2>4. QED
        BY <2>2, <2>3
<1>4. ASSUME NEW n \in Notes, BeginDelete(n)
      PROVE  UpToDate(o)'
    BY <1>2, <1>4 DEF BeginDelete, MissedMirror
<1>5. ASSUME NEW n \in Notes, DeleteRow(n)
      PROVE  UpToDate(o)'
    <2>1. mirror' = mirror /\ missed' = missed
        BY <1>5 DEF DeleteRow
    <2>2. HasNote(db', NoteOf[o]) => db'.note[NoteOf[o]] = db.note[NoteOf[o]]
        BY <1>0, <1>5, DeleteRowEffect
    <2>3. QED
        BY <1>2, <2>1, <2>2 DEF HasNote, MissedMirror
<1>6. ASSUME NEW n \in Notes, NEW f \in Folders \cup {Unfiled}, NEW b \in BOOLEAN,
             MoveNote(n, f) \/ SetNoteLocal(n, b)
      PROVE  UpToDate(o)'
    <2>1. Refresh(db', Siblings(n)) /\ mirror' = mirror /\ Siblings(n) \subseteq Meetings
        BY <1>6, RefreshInOrderIsRefresh DEF MoveNote, SetNoteLocal, Siblings
    <2>2. MissedMirror(o) => MissedMirror(o)'
        BY <1>0, <2>1, RefreshEffect
    <2>3. HasNote(db', NoteOf[o]) => /\ HasNote(db, NoteOf[o])
                                     /\ db'.note[NoteOf[o]].body = db.note[NoteOf[o]].body
        BY <1>0, <1>6, MoveEffect, SetLocalEffect DEF HasNote
    <2>4. QED
        BY <1>2, <2>1, <2>2, <2>3
<1>7. ASSUME NEW f \in Folders, NEW to \in {"absent", "open", "local"}, SetFolder(f, to)
      PROVE  UpToDate(o)'
    <2>1. Refresh(db', Subtree(db, f)) /\ mirror' = mirror /\ Subtree(db, f) \subseteq Meetings
        BY <1>7 DEF SetFolder, Subtree
    <2>2. MissedMirror(o) => MissedMirror(o)'
        BY <1>0, <2>1, RefreshEffect
    <2>3. QED
        BY <1>0, <1>2, <1>7, <2>1, <2>2, SetFolderEffect
<1>8. QED
    BY <1>3, <1>4, <1>5, <1>6, <1>7 DEF NoteStep

\* The backfill leaves only a mirror of the same date, and so of the same text.
LEMMA BackfillKeepsMirrors ==
    ASSUME TypeOK, Tidy, Dates, Backfill, NEW o \in Meetings
    PROVE  UpToDate(o)'
<1> DEFINE n == NoteOf[o]
<1>0. db' = db /\ db \in Database /\ n \in Notes
    BY LibraryAssumption DEF Backfill, TypeOK
<1>1. CASE o \notin Reach(db, Meetings)
    <2>1. mirror'[o] = mirror[o]
        BY <1>1, BackfillEffect
    <2>2. Attached(db, o) => mirror[o] = NoFile
        BY <1>1 DEF Reach, Tidy, FilesHaveFolders
    <2>3. QED
        BY <1>0, <2>1, <2>2 DEF UpToDate
<1>2. CASE o \in Reach(db, Meetings) /\ HasNote(db, n) /\ ~MissedMirror(o)'
    <2>1. mirror'[o] = BackfillMirror(mirror[o], MirrorOf(db, n)) /\ ~NewerMirror(o)
        BY <1>2, BackfillEffect DEF Caught
    <2>2. db.note[n].body \in Nat /\ db.note[n].at \in Nat
        BY <1>0, <1>2, BodiesAreNumbers
    <2>3. CASE mirror'[o] = MirrorOf(db, n)
        BY <1>0, <2>2, <2>3 DEF UpToDate, MirrorOf
    <2>4. CASE mirror'[o] # MirrorOf(db, n)
        <3>1. /\ mirror[o] # NoFile /\ mirror'[o] = mirror[o]
              /\ ~(mirror[o].at < db.note[n].at) /\ ~(mirror[o].at > db.note[n].at)
            BY <1>2, <2>1, <2>4 DEF BackfillMirror, MirrorOf, NewerMirror
        <3>2. mirror[o] \in Mirror /\ mirror[o].at \in Nat /\ mirror[o].body \in Nat
            BY <3>1, StampsAreNumbers DEF TypeOK, Mirror
        <3>3. mirror[o].at = MirrorOf(db, n).at /\ MirrorOf(db, n).body = db.note[n].body
            BY <2>2, <3>1, <3>2 DEF MirrorOf
        <3>4. OnRecord(n, mirror[o]) /\ OnRecord(n, MirrorOf(db, n))
            BY <1>2, <3>1 DEF OnRecord, InRows, Siblings
        <3>5. MirrorOf(db, n) \in Mirror
            BY <1>0, <1>2, MirrorTyped
        <3>6. mirror[o].body = db.note[n].body
            BY <1>0, <3>2, <3>3, <3>4, <3>5 DEF Dates
        <3>7. QED
            BY <1>0, <3>1, <3>2, <3>6 DEF UpToDate
    <2>5. QED
        BY <2>3, <2>4
<1>3. CASE ~HasNote(db, n) \/ MissedMirror(o)'
    BY <1>0, <1>3 DEF UpToDate
<1>4. QED
    BY <1>1, <1>2, <1>3

\* No mirror holds an older text than its note, for any number of notes,
\* meetings, changes and failed writes, unless its write is owed or the
\* backfill took it for the newer (sync_note_derived, backfill_note_mirror).
THEOREM MirrorsKeepUp == Spec => []MirrorsCurrent
<1>1. Init => MirrorsCurrent
    BY DEF Init, MirrorsCurrent
<1>2. TypeOK /\ Tidy /\ TypeOK' /\ Dates /\ MirrorsCurrent /\ [Next]_vars => MirrorsCurrent'
    <2> SUFFICES ASSUME TypeOK, TypeOK', Tidy, Dates, MirrorsCurrent, [Next]_vars
                 PROVE  MirrorsCurrent'
        OBVIOUS
    <2>1. CASE Next /\ app' = "ready"
        <3>1. CASE Backfill
            BY <3>1, BackfillKeepsMirrors DEF MirrorsCurrent, UpToDate, MissedMirror
        <3>2. CASE ~Backfill
            <4>1. app = "ready"
                BY <2>1, <3>2, ReadySteps
            <4>2. \A o \in Meetings : UpToDate(o)
                BY <4>1 DEF MirrorsCurrent, UpToDate, MissedMirror
            <4>3. CASE TakeSession
                BY <4>2, <4>3 DEF TakeSession, UpToDate, MirrorsCurrent, MissedMirror
            <4>4. CASE ~TakeSession
                <5>1. \A o \in Meetings : UpToDate(o)'
                    BY <2>1, <3>2, <4>2, <4>4, ReadySteps, NotesKeepMirrors,
                        RecordingsKeepMirrors
                <5>2. QED
                    BY <5>1 DEF MirrorsCurrent, UpToDate, MissedMirror
            <4>5. QED
                BY <4>3, <4>4
        <3>3. QED
            BY <3>1, <3>2
    <2>2. CASE app' # "ready"
        BY <2>2 DEF MirrorsCurrent
    <2>3. CASE UNCHANGED vars
        BY <2>3 DEF vars, MirrorsCurrent
    <2>4. QED
        BY <2>1, <2>2, <2>3
<1>3. QED
    BY <1>1, <1>2, TidyHolds, DatesHold, PTL DEF Spec

-----------------------------------------------------------------------------
(* The text of a note                                                      *)

\* Where the note of a row after a step comes from.
LEMMA NoteSource ==
    ASSUME TypeOK, TypeOK', Tidy, NotesAreBorn, Next, NEW n \in Notes, HasNote(db', n)
    PROVE  \/ HasNote(db, n) \/ n \in born'
           \/ backup # NoBackup /\ HasNote(backup, n)
<1>0. db \in Database /\ db' \in Database
    BY DEF TypeOK
<1>1. CASE NoteStep
    <2>1. ASSUME NEW f \in Folders, NEW to \in {"absent", "open", "local"}, SetFolder(f, to)
          PROVE  HasNote(db, n)
        BY <2>1, SetFolderEffect
    <2>2. ASSUME NEW k \in Notes, NEW f \in Folders \cup {Unfiled}, NEW b \in BOOLEAN,
                 \/ EditNote(k) \/ MoveNote(k, f) \/ SetNoteLocal(k, b)
          PROVE  HasNote(db, n)
        BY <2>2, EditEffect, MoveEffect, SetLocalEffect DEF HasNote
    <2>3. ASSUME NEW k \in Notes, BeginDelete(k) \/ DeleteRow(k)
          PROVE  HasNote(db, n)
        BY <2>3, DeleteRowEffect DEF HasNote, BeginDelete
    <2>4. QED
        BY <1>1, <2>1, <2>2, <2>3 DEF NoteStep
<1>2. ASSUME NEW m \in Meetings, StartRecording(m) \/ ImportStage(m)
      PROVE  HasNote(db, n) \/ n \in born'
    <2>1. PICK staged \in BOOLEAN : NewRows(m, staged)
        BY <1>2 DEF StartRecording, ImportStage
    <2>2. QED
        BY <2>1, NewRowsEffect DEF HasNote
<1>3. ASSUME NEW m \in Meetings,
             StopFails(m) \/ AttachRecording(m) \/ ImportJoin(m) \/ Purge(m)
      PROVE  HasNote(db, n)
    <2>1. \/ db' = db
          \/ HasMeeting(db, m) /\ db' = [db EXCEPT !.meeting[m].attached = TRUE]
          \/ db' = [db EXCEPT !.meeting[m] = NoRow]
        BY <1>3 DEF StopFails, AttachRecording, ImportJoin, Purge
    <2>2. CASE HasMeeting(db, m) /\ db' = [db EXCEPT !.meeting[m].attached = TRUE]
        BY <1>0, <2>2, RowEffect DEF HasNote
    <2>3. CASE db' = [db EXCEPT !.meeting[m] = NoRow]
        BY <1>0, <2>3, RowEffect DEF HasNote
    <2>4. QED
        BY <2>1, <2>2, <2>3
<1>4. ASSUME NEW m \in Meetings, HealOne(m) \/ HealFails(m) \/ CrashInHeal(m)
      PROVE  HasNote(db, n) \/ n \in born'
    <2>1. /\ manifest[m] # NoFile
          /\ Rebuilds(db, db', m)
          /\ born' = born
        <3>1. CASE HealOne(m)
            BY <3>1, HealChanges DEF HealOne
        <3>2. CASE HealFails(m) \/ CrashInHeal(m)
            BY <3>2, BreaksTyped DEF HealFails, CrashInHeal, HealBreaks, Tidy, HealGoesOn
        <3>3. QED
            BY <1>4, <3>1, <3>2
    <2>2. NoteOf[m] \in born
        BY <2>1 DEF Tidy, FilesHaveFolders, NotesAreBorn
    <2>3. QED
        BY <2>1, <2>2 DEF Rebuilds, HasNote
<1>5. CASE LoseDb
    BY <1>5 DEF LoseDb, EmptyDb, HasNote
<1>6. CASE RestoreBackup
    BY <1>6 DEF RestoreBackup
<1>7. CASE db' = db
    BY <1>7
<1>8. QED
    BY <1>1, <1>2, <1>3, <1>4, <1>5, <1>6, <1>7, StepsOfNext DEF TakeSession, Open, BeginHeal,
        SkipWhole, Backfill, Crash

\* Only a new recording gives out ids.
LEMMA IdsAreGivenOut ==
    ASSUME TypeOK, TypeOK', Next
    PROVE  \/ born' = born
           \/ \E m \in Meetings : /\ \A o \in Meetings : o \in born' <=> o \in born \/ o = m
                                  /\ \A n \in Notes : n \in born' <=> n \in born \/ n = NoteOf[m]
<1>1. ASSUME NEW m \in Meetings, StartRecording(m) \/ ImportStage(m)
      PROVE  /\ \A o \in Meetings : o \in born' <=> o \in born \/ o = m
             /\ \A n \in Notes : n \in born' <=> n \in born \/ n = NoteOf[m]
    <2>1. PICK staged \in BOOLEAN : NewRows(m, staged)
        BY <1>1 DEF StartRecording, ImportStage
    <2>2. QED
        BY <2>1, NewRowsEffect
<1>2. CASE NoteStep
    BY <1>2 DEF NoteStep, EditNote, BeginDelete, DeleteRow, MoveNote, SetNoteLocal, SetFolder
<1>3. ASSUME NEW m \in Meetings,
             StopFails(m) \/ AttachRecording(m) \/ ImportJoin(m) \/ Purge(m)
      PROVE  born' = born
    BY <1>3 DEF StopFails, AttachRecording, ImportJoin, Purge
<1>4. QED
    BY <1>1, <1>2, <1>3, StepsOfNext DEF TakeSession, Open, BeginHeal, SkipWhole, HealOne,
        HealFails, Backfill, Crash, CrashInHeal, LoseDb, RestoreBackup

LEMMA BornGrows ==
    ASSUME TypeOK, TypeOK', Next
    PROVE  \A n \in Notes : n \in born => n \in born'
    BY IdsAreGivenOut

LEMMA NotesAreBornStep ==
    ASSUME TypeOK, TypeOK', Tidy, NotesAreBorn, Next
    PROVE  NotesAreBorn'
<1>1. \A m \in Meetings : NoteOf[m] \in Notes
    BY LibraryAssumption
<1>2. \A n \in Notes : n \in born => n \in born'
    BY BornGrows
<1>3. ASSUME NEW n \in Notes, HasNote(db', n)
      PROVE  n \in born'
    BY <1>2, <1>3, NoteSource DEF NotesAreBorn
<1>4. ASSUME NEW n \in Notes, backup' # NoBackup, HasNote(backup', n)
      PROVE  n \in born'
    BY <1>2, <1>4, BackupSource DEF NotesAreBorn
<1>5. ASSUME NEW m \in Meetings, m \in born'
      PROVE  NoteOf[m] \in born'
    BY <1>1, <1>5, IdsAreGivenOut DEF NotesAreBorn
<1>6. QED
    BY <1>3, <1>4, <1>5 DEF NotesAreBorn

\* The parts of Texts for one note.
Told(n) == told[n] # {} =>
    /\ n \in born
    /\ \A t \in told[n] : t <= now
    /\ IF HasNote(db, n) THEN Tellable(n, db.note[n].body) ELSE TellsOf(n)

\* A step keeps what is told of n if it takes neither its row nor its text,
\* makes no row of it, and leaves the folders of a note that is gone alone.
LEMMA StaysTold ==
    ASSUME TypeOK, TypeOK', NEW n \in Notes, Told(n), told'[n] = told[n],
           n \in born => n \in born',
           now' = now \/ now' = now + 1,
           HasNote(db, n) => HasNote(db', n) /\ db'.note[n].body = db.note[n].body,
           told[n] # {} /\ ~HasNote(db, n) /\ TellsOf(n) =>
                /\ ~HasNote(db', n)
                /\ \A m \in Siblings(n) :
                    /\ ~HasMeeting(db', m)
                    /\ m \in Recorders' => m \in Recorders
                    /\ m \in purging' => m \in purging /\ (n \in deleting => n \in deleting')
                    /\ manifest'[m] = manifest[m] /\ mirror'[m] = mirror[m]
    PROVE  Told(n)'
<1>1. now \in Nat /\ \A t \in told[n] : t \in Nat
    BY StampsAreNumbers DEF TypeOK
<1>2. CASE told[n] = {}
    BY <1>2 DEF Told
<1>3. ASSUME told[n] # {}
      PROVE  n \in born' /\ \A t \in told'[n] : t <= now'
    BY <1>1, <1>3 DEF Told
<1>4. CASE told[n] # {} /\ HasNote(db, n)
    <2>1. Tellable(n, db.note[n].body)' /\ HasNote(db', n)
        BY <1>4 DEF Told, Tellable
    <2>2. QED
        BY <1>3, <1>4, <2>1 DEF Told
<1>5. CASE told[n] # {} /\ ~HasNote(db, n)
    <2>1. TellsOf(n)
        BY <1>5 DEF Told
    <2>2. TellsOf(n)' /\ ~HasNote(db', n)
        BY <1>5, <2>1 DEF TellsOf, Text
    <2>3. QED
        BY <1>3, <1>5, <2>2 DEF Told
<1>6. QED
    BY <1>2, <1>4, <1>5

LEMMA NotesKeepTexts ==
    ASSUME TypeOK, TypeOK', Tidy, Next, NoteStep, NEW n \in Notes, Told(n)
    PROVE  Told(n)'
<1>0. db \in Database /\ db' \in Database
    BY DEF TypeOK
<1>1. /\ n \in born => n \in born'
      /\ now' = now \/ now' = now + 1
    BY BornGrows, ClockTicks
<1>2. ASSUME TellsOf(n), NEW m \in Siblings(n)
      PROVE  /\ ~HasMeeting(db', m)
             /\ m \in Recorders' => m \in Recorders
             /\ manifest'[m] = manifest[m] /\ mirror'[m] = mirror[m]
    <2>1. m \in Meetings /\ ~HasMeeting(db, m)
        BY <1>2 DEF TellsOf, Siblings
    <2>2. SameRecording(db, db', m) /\ ~Attached(db, m)
        BY <2>1, NotesKeepRecordings DEF Attached
    <2>3. rec' = rec /\ stopping' = stopping
        BY DEF NoteStep, EditNote, BeginDelete, DeleteRow, MoveNote, SetNoteLocal, SetFolder
    <2>4. QED
        BY <2>1, <2>2, <2>3, NotesReachFolders DEF SameRecording, Recorders
<1>3. ASSUME purging' = purging, deleting' = deleting, told' = told,
             HasNote(db, n) => HasNote(db', n) /\ db'.note[n].body = db.note[n].body,
             HasNote(db', n) => HasNote(db, n)
      PROVE  Told(n)'
    BY <1>1, <1>2, <1>3, StaysTold
<1>4. ASSUME NEW k \in Notes, EditNote(k)
      PROVE  Told(n)'
    <2>1. purging' = purging /\ deleting' = deleting /\ told' = told /\ born' = born
        BY <1>4 DEF EditNote
    <2>2. CASE n = k
        <3>1. HasNote(db', n) /\ db'.note[n].body = now' /\ now' = now + 1
            BY <1>4, <2>2, EditEffect DEF EditNote, Tick
        <3>2. now \in Nat /\ \A t \in told[n] : t \in Nat
            BY StampsAreNumbers DEF TypeOK
        <3>3. told[n] # {} => \A t \in told[n] : now' > t /\ t <= now'
            BY <3>1, <3>2 DEF Told
        <3>4. QED
            BY <2>1, <3>1, <3>3 DEF Told, Tellable
    <2>3. CASE n # k
        <3>1. db'.note[n] = db.note[n]
            BY <1>4, <2>3, EditEffect
        <3>2. QED
            BY <1>3, <2>1, <3>1 DEF HasNote
    <2>4. QED
        BY <2>2, <2>3
<1>5. ASSUME NEW k \in Notes, BeginDelete(k)
      PROVE  Told(n)'
    <2>1. /\ db' = db /\ told' = told /\ HasNote(db, k)
          /\ deleting' = deleting \cup {k}
          /\ purging' = purging \cup {m \in Siblings(k) : HasMeeting(db, m)}
        BY <1>5 DEF BeginDelete
    <2>2. ASSUME ~HasNote(db, n), TellsOf(n), NEW m \in Siblings(n), m \in purging'
          PROVE  m \in purging /\ (n \in deleting => n \in deleting')
        BY <2>1, <2>2 DEF TellsOf
    <2>3. QED
        BY <1>1, <1>2, <2>1, <2>2, StaysTold
<1>6. ASSUME NEW k \in Notes, DeleteRow(k)
      PROVE  Told(n)'
    <2>1. CASE n = k
        <3>1. told' = [told EXCEPT ![n] = {}]
            BY <1>6, <2>1 DEF DeleteRow
        <3>2. told'[n] = {}
            BY <3>1 DEF TypeOK
        <3>3. QED
            BY <3>2 DEF Told
    <2>2. CASE n # k
        <3>1. /\ told'[n] = told[n] /\ purging' = purging
              /\ n \in deleting => n \in deleting'
            BY <1>6, <2>2 DEF DeleteRow, TypeOK
        <3>2. db'.note[n] = db.note[n]
            BY <1>6, <2>2, DeleteRowEffect
        <3>3. QED
            BY <1>1, <1>2, <3>1, <3>2, StaysTold DEF HasNote
    <2>3. QED
        BY <2>1, <2>2
<1>7. ASSUME NEW k \in Notes, NEW f \in Folders \cup {Unfiled}, NEW b \in BOOLEAN,
             MoveNote(k, f) \/ SetNoteLocal(k, b)
      PROVE  Told(n)'
    <2>1. purging' = purging /\ deleting' = deleting /\ told' = told
        BY <1>7 DEF MoveNote, SetNoteLocal
    <2>2. /\ HasNote(db', n) <=> HasNote(db, n)
          /\ HasNote(db, n) => db'.note[n].body = db.note[n].body
        BY <1>7, MoveEffect, SetLocalEffect DEF HasNote
    <2>3. QED
        BY <1>3, <2>1, <2>2
<1>8. ASSUME NEW f \in Folders, NEW to \in {"absent", "open", "local"}, SetFolder(f, to)
      PROVE  Told(n)'
    <2>1. purging' = purging /\ deleting' = deleting /\ told' = told
        BY <1>8 DEF SetFolder
    <2>2. /\ HasNote(db', n) <=> HasNote(db, n)
          /\ HasNote(db, n) => db'.note[n].body = db.note[n].body
        BY <1>8, SetFolderEffect
    <2>3. QED
        BY <1>3, <2>1, <2>2
<1>9. QED
    BY <1>4, <1>5, <1>6, <1>7, <1>8 DEF NoteStep

\* A recording's steps see to its own folder, which no note that is gone has.
LEMMA RecordingsKeepTexts ==
    ASSUME TypeOK, TypeOK', Tidy, Next, NEW m \in Meetings,
           \/ StartRecording(m) \/ StopFails(m) \/ AttachRecording(m) \/ ImportStage(m)
           \/ ImportJoin(m) \/ Purge(m) \/ TakeSession,
           NEW n \in Notes, Told(n)
    PROVE  Told(n)'
<1>0. db \in Database /\ db' \in Database
    BY DEF TypeOK
<1>1. /\ n \in born => n \in born'
      /\ now' = now \/ now' = now + 1
    BY BornGrows, ClockTicks
<1>2. told' = told /\ deleting' = deleting /\ \A o \in purging' : o \in purging
    BY DEF StartRecording, StopFails, AttachRecording, ImportStage, ImportJoin, Purge,
        TakeSession
<1>3. CASE StartRecording(m) \/ ImportStage(m)
    <2>1. PICK staged \in BOOLEAN : NewRows(m, staged)
        BY <1>3 DEF StartRecording, ImportStage
    <2>2. HasNote(db, n) \/ n # NoteOf[m] => db'.note[n] = db.note[n]
        BY <2>1, NewRowsEffect
    <2>3. manifest' = manifest /\ mirror' = mirror /\ \A o \in Recorders' : o \in Recorders \cup {m}
        BY <1>3 DEF StartRecording, ImportStage, Recorders
    <2>4. ASSUME told[n] # {}, ~HasNote(db, n), TellsOf(n)
          PROVE  n # NoteOf[m]
        BY <2>1, <2>4, NewRowsEffect DEF Told
    <2>5. ASSUME n # NoteOf[m], TellsOf(n), NEW o \in Siblings(n)
          PROVE  /\ ~HasMeeting(db', o)
                 /\ o \in Recorders' => o \in Recorders
                 /\ manifest'[o] = manifest[o] /\ mirror'[o] = mirror[o]
        <3>1. o \in Meetings /\ o # m /\ ~HasMeeting(db, o)
            BY <2>5 DEF Siblings, TellsOf
        <3>2. db'.meeting[o] = db.meeting[o]
            BY <2>1, <3>1, NewRowsEffect
        <3>3. QED
            BY <2>3, <3>1, <3>2 DEF HasMeeting
    <2>6. QED
        BY <1>1, <1>2, <2>2, <2>4, <2>5, StaysTold DEF HasNote
<1>4. CASE StopFails(m) \/ TakeSession
    <2>1. db' = db /\ manifest' = manifest /\ mirror' = mirror
        BY <1>4 DEF StopFails, TakeSession
    <2>2. \A o \in Recorders' : o \in Recorders
        BY <1>4, NothingIsThere DEF StopFails, TakeSession, Recorders, NoRecording
    <2>3. \A o \in Siblings(n) : TellsOf(n) => ~HasMeeting(db, o)
        BY DEF TellsOf
    <2>4. QED
        BY <1>1, <1>2, <2>1, <2>2, <2>3, StaysTold
<1>5. CASE AttachRecording(m) \/ ImportJoin(m) \/ Purge(m)
    <2>1. \/ db' = db
          \/ HasMeeting(db, m) /\ db' = [db EXCEPT !.meeting[m].attached = TRUE]
          \/ db' = [db EXCEPT !.meeting[m] = NoRow]
        BY <1>5 DEF AttachRecording, ImportJoin, Purge
    <2>2. /\ db'.note = db.note
          /\ \A o \in Meetings : o # m => db'.meeting[o] = db.meeting[o]
        <3>1. CASE HasMeeting(db, m) /\ db' = [db EXCEPT !.meeting[m].attached = TRUE]
            BY <1>0, <3>1, RowEffect
        <3>2. CASE db' = [db EXCEPT !.meeting[m] = NoRow]
            BY <1>0, <3>2, RowEffect
        <3>3. QED
            BY <2>1, <3>1, <3>2
    <2>3. \A o \in Meetings : o # m => manifest'[o] = manifest[o] /\ mirror'[o] = mirror[o]
        BY <1>5 DEF AttachRecording, ImportJoin, Purge, TypeOK
    <2>4. \A o \in Recorders' : o \in Recorders
        BY <1>5 DEF AttachRecording, ImportJoin, Purge, Recorders
    <2>5. \/ m \in Recorders \/ HasMeeting(db, m)
          \/ m \in purging /\ NoteOf[m] \notin deleting
        BY <1>5 DEF AttachRecording, ImportJoin, Purge, Recorders
    <2>6. ASSUME TellsOf(n)
          PROVE  \A o \in Siblings(n) : o \in Meetings /\ o # m /\ ~HasMeeting(db, o)
        BY <2>5, <2>6 DEF TellsOf, Siblings
    <2>7. ASSUME TellsOf(n), NEW o \in Siblings(n)
          PROVE  /\ ~HasMeeting(db', o)
                 /\ o \in Recorders' => o \in Recorders
                 /\ manifest'[o] = manifest[o] /\ mirror'[o] = mirror[o]
        BY <2>2, <2>3, <2>4, <2>6, <2>7 DEF HasMeeting
    <2>8. QED
        BY <1>1, <1>2, <2>2, <2>7, StaysTold DEF HasNote
<1>6. QED
    BY <1>3, <1>4, <1>5

\* A heal never breaks off with a meeting's row and without its note's.
LEMMA PrefixHasNote ==
    ASSUME TypeOK, NEW m \in Meetings, manifest[m] # NoFile, ~HasMeeting(db, m),
           NEW e \in HealPrefixes(m), ~HasNote(e, NoteOf[m])
    PROVE  ~HasMeeting(e, m)
<1> DEFINE f == WithFolder(db, manifest[m])
<1> DEFINE n == WithNote(f, m)
<1> DEFINE row == WithMeeting(n, m)
<1>0. db \in Database /\ manifest[m] \in Manifest
    BY DEF TypeOK
<1>1. e \in {db, f, n, row, WithKin(m)}
    BY HealedIsWhole DEF HealPrefixes, WithRows
<1>2. Rebuilds(db, f, m) /\ f.meeting = db.meeting
    BY <1>0, FolderRebuilt DEF WithFolder, Database
<1>3. n \in Database /\ n.meeting = f.meeting /\ HasNote(n, NoteOf[m])
    BY <1>0, <1>2, NoteRebuilt DEF WithNote, Rebuilds, Database
<1>4. ~HasMeeting(n, m) /\ ~HasMeeting(f, m)
    BY <1>2, <1>3 DEF HasMeeting
<1>5. row.note = n.note
    BY <1>3, <1>4, MeetingRebuilt
<1>6. WithKin(m) = row \/ WithKin(m) = [row EXCEPT !.meeting[m].local = TRUE]
    BY DEF WithKin, WithRows
<1>7. row \in Database
    BY <1>3, <1>4, MeetingRebuilt DEF Rebuilds
<1> HIDE DEF f, n, row
<1>8. WithKin(m).note = n.note
    BY <1>5, <1>6, <1>7 DEF Database
<1>9. QED
    BY <1>1, <1>3, <1>4, <1>5, <1>8 DEF HasNote

\* A note brought back has the text of one of its folders, or none like it.
LEMMA HealKeepsTexts ==
    ASSUME TypeOK, TypeOK', Tidy, Next, NEW m \in Meetings,
           HealOne(m) \/ HealFails(m) \/ CrashInHeal(m),
           NEW n \in Notes, Told(n)
    PROVE  Told(n)'
<1>0. db \in Database /\ db' \in Database /\ NoteOf[m] \in Notes
    BY LibraryAssumption DEF TypeOK
<1>1. /\ n \in born => n \in born'
      /\ now' = now
      /\ told' = told /\ manifest' = manifest
      /\ Recorders' \subseteq Recorders
      /\ \A o \in purging' : o \in purging /\ deleting' = deleting
    BY NothingIsThere, BornGrows DEF HealOne, HealFails, CrashInHeal, Stopped, Recorders,
        NoRecording
<1>2. /\ manifest[m] # NoFile /\ Rebuilds(db, db', m)
      /\ ~HasMeeting(db, m) /\ ~HasNote(db', NoteOf[m]) => ~HasMeeting(db', m)
      /\ \A o \in Meetings : ~Attached(db', o) => mirror'[o] = mirror[o]
    <2>1. CASE HealOne(m)
        BY <2>1, HealChanges
    <2>2. CASE HealFails(m) \/ CrashInHeal(m)
        <3>1. HealBreaks(m) /\ mirror' = mirror
            BY <2>2 DEF HealFails, CrashInHeal
        <3>2. manifest[m] # NoFile /\ db' \in HealPrefixes(m)
            BY <3>1 DEF HealBreaks, Tidy, HealGoesOn
        <3>3. QED
            BY <3>1, <3>2, HealPrefixRebuilds, PrefixHasNote
    <2>3. QED
        BY <2>1, <2>2
<1>3. CASE HasNote(db, n)
    <2>1. db'.note[n] = db.note[n]
        BY <1>2, <1>3 DEF Rebuilds
    <2>2. QED
        BY <1>1, <1>3, <2>1, StaysTold DEF HasNote
<1>4. CASE ~HasNote(db, n) /\ HasNote(db', n) /\ told[n] # {}
    <2>1. n = NoteOf[m]
        BY <1>2, <1>4 DEF Rebuilds, HasNote
    <2>2. Text(m) \in told[n]
        BY <1>2, <1>4, <2>1 DEF Told, TellsOf, Siblings
    <2>3. db'.note[n].body = Text(m)
        BY <1>2, <1>4, <2>1 DEF Rebuilds, Text, MirrorOf
    <2>4. QED
        BY <1>1, <1>4, <2>2, <2>3 DEF Told, Tellable
<1>5. CASE ~HasNote(db, n) /\ ~HasNote(db', n)
    <2>1. ASSUME TellsOf(n), NEW o \in Siblings(n)
          PROVE  ~HasMeeting(db', o) /\ mirror'[o] = mirror[o]
        <3>1. o \in Meetings /\ ~HasMeeting(db, o) /\ NoteOf[o] = n
            BY <2>1 DEF TellsOf, Siblings
        <3>2. CASE o = m
            BY <1>2, <1>5, <3>1, <3>2 DEF Attached
        <3>3. CASE o # m
            BY <1>2, <3>1, <3>3 DEF Rebuilds, HasMeeting, Attached
        <3>4. QED
            BY <3>2, <3>3
    <2>2. QED
        BY <1>1, <1>5, <2>1, StaysTold
<1>6. CASE told[n] = {}
    BY <1>1, <1>6 DEF Told
<1>7. QED
    BY <1>3, <1>4, <1>5, <1>6

\* What its folders tell of a note when it is lost.
LEMMA LossKeepsTexts ==
    ASSUME TypeOK, TypeOK', Tidy, Dates, NotesAreBorn, LoseDb, NEW n \in Notes, Told(n)
    PROVE  Told(n)'
<1>1. /\ born' = born /\ now' = now /\ manifest' = manifest /\ mirror' = mirror
      /\ Recorders' = Recorders /\ purging' = purging /\ deleting' = deleting
      /\ app = "closed"
    BY DEF LoseDb, Recorders
<1>2. ~HasNote(db', n) /\ \A m \in Meetings : ~HasMeeting(db', m)
    BY DEF LoseDb, EmptyDb, HasNote, HasMeeting
<1>3. told'[n] = IF HasNote(db, n) THEN Tells(n) ELSE told[n]
    BY DEF LoseDb
<1>4. CASE ~HasNote(db, n)
    <2>1. now' = now \/ now' = now + 1
        BY <1>1
    <2>2. \A m \in Siblings(n) : m \in Meetings
        BY DEF Siblings
    <2>3. QED
        BY <1>1, <1>2, <1>3, <1>4, <2>1, <2>2, StaysTold
<1>5. CASE HasNote(db, n)
    <2>1. \A m \in Meetings : m \notin Recorders /\ m \notin purging
        BY <1>1, NothingIsThere DEF Tidy, ClosedIsIdle, Recorders, NoRecording
    <2>2. \A m \in Siblings(n) : m \in Meetings /\ (manifest[m] # NoFile => Text(m) \in Tells(n))
        BY DEF Tells, Siblings
    <2>3. TellsOf(n)'
        BY <1>1, <1>2, <1>3, <1>5, <2>1, <2>2 DEF TellsOf, Text
    <2>4. ASSUME NEW m \in Siblings(n)
          PROVE  Text(m) <= now
        <3>1. m \in Meetings /\ now \in Nat
            BY StampsAreNumbers DEF Siblings, TypeOK
        <3>2. CASE mirror[m] = NoFile
            BY <3>1, <3>2 DEF Text
        <3>3. CASE mirror[m] # NoFile
            <4>1. mirror[m] \in Mirror /\ OnRecord(n, mirror[m])
                BY <3>1, <3>3 DEF TypeOK, OnRecord
            <4>2. mirror[m].body <= mirror[m].at /\ mirror[m].at <= now
                BY <4>1 DEF Dates
            <4>3. mirror[m].body \in Nat /\ mirror[m].at \in Nat
                BY <4>1, StampsAreNumbers DEF Mirror
            <4>4. QED
                BY <3>1, <3>3, <4>2, <4>3 DEF Text
        <3>4. QED
            BY <3>2, <3>3
    <2>5. \A t \in told'[n] : t <= now'
        BY <1>1, <1>3, <1>5, <2>4 DEF Tells
    <2>6. n \in born'
        BY <1>1, <1>5 DEF NotesAreBorn
    <2>7. QED
        BY <1>2, <2>3, <2>5, <2>6 DEF Told
<1>6. QED
    BY <1>4, <1>5

LEMMA LaunchesKeepTexts ==
    ASSUME TypeOK, TypeOK', Tidy,
           \/ (\E due \in BOOLEAN : Open(due)) \/ BeginHeal \/ Backfill
           \/ \E m \in Meetings : SkipWhole(m)
           \/ Crash,
           NEW n \in Notes, Told(n)
    PROVE  Told(n)'
<1>1. /\ db' = db /\ born' = born /\ now' = now /\ told' = told
      /\ Recorders' \subseteq Recorders
      /\ \A o \in purging' : o \in purging /\ deleting' = deleting
    BY NothingIsThere DEF Open, BeginHeal, Backfill, SkipWhole, Crash, Stopped, Recorders,
        NoRecording
<1>2. ASSUME TellsOf(n), NEW o \in Siblings(n)
      PROVE  ~HasMeeting(db, o) /\ manifest'[o] = manifest[o] /\ mirror'[o] = mirror[o]
    <2>1. ~HasMeeting(db, o) /\ o \in Meetings
        BY <1>2 DEF TellsOf, Siblings
    <2>2. CASE Backfill
        <3>1. o \notin Reach(db, Meetings)
            BY <2>1 DEF Reach, Attached
        <3>2. QED
            BY <2>1, <2>2, <3>1, BackfillEffect
    <2>3. CASE ~Backfill
        BY <2>1, <2>3 DEF Open, BeginHeal, SkipWhole, Crash
    <2>4. QED
        BY <2>2, <2>3
<1>3. QED
    BY <1>1, <1>2, StaysTold

LEMMA TextsHold == Spec => [](NotesAreBorn /\ Texts)
<1>1. Init => NotesAreBorn /\ Texts
    BY DEF Init, EmptyDb, NotesAreBorn, HasNote, Texts
<1>2. /\ TypeOK /\ Tidy /\ TypeOK' /\ Dates /\ NotesAreBorn /\ Texts /\ [Next]_vars
      => NotesAreBorn' /\ Texts'
    <2> SUFFICES ASSUME TypeOK, TypeOK', Tidy, Dates, NotesAreBorn, Texts, [Next]_vars
                 PROVE  NotesAreBorn' /\ Texts'
        OBVIOUS
    <2>1. CASE Next
        <3>1. \A n \in Notes : Told(n)
            BY DEF Texts, Told
        <3>2. CASE RestoreBackup
            <4>1. \A n \in Notes : told'[n] = {}
                BY <3>2 DEF RestoreBackup
            <4>2. QED
                BY <2>1, <4>1, NotesAreBornStep DEF Texts
        <3>3. CASE ~RestoreBackup
            <4>1. ASSUME NEW n \in Notes
                  PROVE  Told(n)'
                <5>1. Told(n)
                    BY <3>1
                <5>2. CASE TakeSession
                    <6>1. PICK m \in Meetings : m = rec
                        BY <5>2 DEF TakeSession, TypeOK
                    <6>2. QED
                        BY <2>1, <5>1, <5>2, RecordingsKeepTexts
                <5>3. CASE NoteStep
                    BY <2>1, <5>1, <5>3, NotesKeepTexts
                <5>4. CASE LoseDb
                    BY <5>1, <5>4, LossKeepsTexts
                <5>5. ASSUME NEW m \in Meetings, HealOne(m) \/ HealFails(m) \/ CrashInHeal(m)
                      PROVE  Told(n)'
                    BY <2>1, <5>1, <5>5, HealKeepsTexts
                <5>6. ASSUME NEW m \in Meetings,
                             \/ StartRecording(m) \/ StopFails(m) \/ AttachRecording(m)
                             \/ ImportStage(m) \/ ImportJoin(m) \/ Purge(m)
                      PROVE  Told(n)'
                    BY <2>1, <5>1, <5>6, RecordingsKeepTexts
                <5>7. CASE \/ (\E due \in BOOLEAN : Open(due)) \/ BeginHeal \/ Backfill
                           \/ \E m \in Meetings : SkipWhole(m)
                           \/ Crash
                    BY <5>1, <5>7, LaunchesKeepTexts
                <5>8. QED
                    BY <2>1, <3>3, <5>2, <5>3, <5>4, <5>5, <5>6, <5>7, StepsOfNext
            <4>2. QED
                BY <2>1, <4>1, NotesAreBornStep DEF Texts, Told
        <3>4. QED
            BY <3>2, <3>3
    <2>2. CASE UNCHANGED vars
        BY <2>2 DEF vars, NotesAreBorn, Texts, TellsOf, Tellable, Text, Recorders
    <2>3. QED
        BY <2>1, <2>2
<1>3. QED
    BY <1>1, <1>2, TidyHolds, DatesHold, PTL DEF Spec

\* A note lost with the database comes back with a text that one of its folders
\* had, or with one written since, for any number of notes, meetings, folders
\* and their order, failed heals, losses and launches (insert_recovered_note,
\* and the sync after it).
THEOREM TextsSurviveLoss == Spec => []TextSurvivesLoss
<1>1. Texts => TextSurvivesLoss
    <2> SUFFICES ASSUME Texts, NEW n \in Notes, HasNote(db, n)
                 PROVE  db.note[n].body \in told[n] \/ \A t \in told[n] : db.note[n].body > t
        BY DEF TextSurvivesLoss
    <2>1. QED
        BY DEF Texts, Tellable
<1>2. QED
    BY <1>1, TextsHold, PTL

-----------------------------------------------------------------------------
(* The lives of recordings                                                 *)

\* Life, case after case.
Fate(m) ==
    IF m \notin born THEN "none"
    ELSE IF m \notin dirs THEN "gone"
    ELSE IF manifest[m] # NoFile THEN "kept"
    ELSE IF Attached(db, m) THEN "held"
    ELSE IF m \in Recorders \/ (HasMeeting(db, m) /\ db.meeting[m].staged) THEN "recording"
    ELSE "stranded"

LEMMA LifeIsFate == FilesHaveFolders => \A m \in Meetings : Life(m) = Fate(m)
<1> SUFFICES ASSUME FilesHaveFolders, NEW m \in Meetings
             PROVE  Life(m) = Fate(m)
    OBVIOUS
<1>1. m \in dirs => m \in born
    BY DEF FilesHaveFolders
<1>2. m \in Recorders <=> m \in stopping \cup {rec}
    BY DEF Recorders
<1>3. CASE m \notin dirs
    BY <1>3 DEF Life, Fate
<1>4. CASE m \in dirs /\ manifest[m] # NoFile
    BY <1>1, <1>4 DEF Life, Fate
<1>5. CASE m \in dirs /\ manifest[m] = NoFile /\ Attached(db, m)
    BY <1>1, <1>5 DEF Life, Fate
<1>6. CASE m \in dirs /\ manifest[m] = NoFile /\ ~Attached(db, m)
    BY <1>1, <1>2, <1>6 DEF Life, Fate
<1>7. QED
    BY <1>3, <1>4, <1>5, <1>6

LEMMA NextLifeIsFate == FilesHaveFolders' => \A m \in Meetings : Life(m)' = Fate(m)'
<1>1. FilesHaveFolders' => (\A m \in Meetings : Life(m) = Fate(m))'
    BY LifeIsFate, PTL
<1>2. QED
    BY <1>1

\* How a life goes on, by itself.
Goes(o) == Life(o)' \in Kept!Onward[Life(o)] \cup {Life(o)}

\* A step that makes no folder and removes none, and takes no manifest away,
\* leads every life on, if who gets a manifest was being recorded or has a row.
LEMMA FoldersGoOn ==
    ASSUME FilesHaveFolders, FilesHaveFolders', born' = born, dirs' = dirs,
           NEW o \in Meetings,
           manifest[o] # NoFile => manifest'[o] # NoFile,
           manifest[o] = NoFile /\ manifest'[o] # NoFile => Attached(db, o) \/ o \in Recorders
    PROVE  Goes(o)
<1>1. Life(o) = Fate(o) /\ Life(o)' = Fate(o)'
    BY LifeIsFate, NextLifeIsFate
<1>2. CASE o \notin born \/ o \notin dirs \/ manifest[o] # NoFile
    BY <1>1, <1>2 DEF Goes, Fate
<1>3. CASE o \in born /\ o \in dirs /\ manifest[o] = NoFile
    <2>1. Fate(o)' \in {"kept", "held", "recording", "stranded"}
        BY <1>3 DEF Fate
    <2>2. CASE Attached(db, o)
        <3>1. Fate(o) = "held"
            BY <1>3, <2>2 DEF Fate
        <3>2. QED
            BY <1>1, <2>1, <3>1 DEF Goes, Kept!Onward
    <2>3. CASE ~Attached(db, o) /\ o \in Recorders
        <3>1. Fate(o) = "recording"
            BY <1>3, <2>3 DEF Fate
        <3>2. QED
            BY <1>1, <2>1, <3>1 DEF Goes, Kept!Onward
    <2>4. CASE ~Attached(db, o) /\ o \notin Recorders
        <3>1. Fate(o) \in {"recording", "stranded"}
            BY <1>3, <2>4 DEF Fate
        <3>2. Fate(o)' # "kept"
            BY <1>3, <2>4 DEF Fate
        <3>3. QED
            BY <1>1, <2>1, <3>1, <3>2 DEF Goes, Kept!Onward
    <2>5. QED
        BY <2>2, <2>3, <2>4
<1>4. QED
    BY <1>2, <1>3

\* A manifest is written over, not taken away, and no one writes the first of
\* a meeting that is not being recorded and has no recording.
LEMMA ManifestsStay ==
    ASSUME TypeOK, TypeOK', Tidy, Next, \A m \in Meetings : ~Purge(m), NEW o \in Meetings
    PROVE  /\ manifest[o] # NoFile => manifest'[o] # NoFile
           /\ manifest[o] = NoFile /\ manifest'[o] # NoFile => Attached(db, o) \/ o \in Recorders
<1>0. /\ db \in Database /\ db' \in Database
      /\ ManifestOf(db', o) \in Manifest /\ ManifestOf(db', o) # NoFile
      /\ ManifestOf(db, o) # NoFile /\ BlindManifest # NoFile
    BY ManifestTyped, BlindTyped, NothingIsThere DEF TypeOK
<1>1. CASE NoteStep
    <2>1. ASSUME NEW M \in SUBSET Meetings, Refresh(db', M)
          PROVE  manifest'[o] \in {manifest[o], ManifestOf(db', o)}
        BY <1>0, <2>1, RefreshEffect
    <2>2. ASSUME NEW k \in Notes, NEW f \in Folders \cup {Unfiled}, NEW b \in BOOLEAN,
                 MoveNote(k, f) \/ SetNoteLocal(k, b)
          PROVE  manifest'[o] \in {manifest[o], ManifestOf(db', o)}
        <3>1. Refresh(db', Siblings(k)) /\ Siblings(k) \subseteq Meetings
            BY <2>2, RefreshInOrderIsRefresh DEF MoveNote, SetNoteLocal, Siblings
        <3>2. QED
            BY <2>1, <3>1
    <2>3. ASSUME NEW f \in Folders, NEW to \in {"absent", "open", "local"}, SetFolder(f, to)
          PROVE  manifest'[o] \in {manifest[o], ManifestOf(db', o)}
        <3>1. Refresh(db', Subtree(db, f)) /\ Subtree(db, f) \subseteq Meetings
            BY <2>3 DEF SetFolder, Subtree
        <3>2. QED
            BY <2>1, <3>1
    <2>4. ASSUME NEW k \in Notes, EditNote(k) \/ BeginDelete(k) \/ DeleteRow(k)
          PROVE  manifest'[o] = manifest[o]
        BY <2>4 DEF EditNote, BeginDelete, DeleteRow
    <2>5. manifest'[o] \in {manifest[o], ManifestOf(db', o)}
        BY <1>1, <2>2, <2>3, <2>4 DEF NoteStep
    <2>6. ~Attached(db, o) => manifest'[o] = manifest[o]
        BY <1>1, NotesReachFolders
    <2>7. QED
        BY <1>0, <2>5, <2>6
<1>2. ASSUME NEW m \in Meetings, AttachRecording(m)
      PROVE  \/ manifest'[o] = manifest[o]
             \/ o = m /\ m \in Recorders /\ manifest'[o] # NoFile
    <2>1. m \in Recorders
        BY <1>2 DEF AttachRecording, Recorders
    <2>2. manifest' = manifest \/
          manifest' = [manifest EXCEPT ![m] = IF HasNote(db, NoteOf[m])
                                              THEN ManifestOf(db, m) ELSE BlindManifest]
        BY <1>2 DEF AttachRecording
    <2>3. QED
        BY <1>0, <2>1, <2>2 DEF TypeOK
<1>3. ASSUME NEW m \in Meetings,
             StartRecording(m) \/ StopFails(m) \/ ImportStage(m) \/ ImportJoin(m)
      PROVE  manifest' = manifest
    BY <1>3 DEF StartRecording, StopFails, ImportStage, ImportJoin
<1>4. CASE Backfill
    <2>1. manifest'[o] # manifest[o] => o \in Reach(db, Meetings) /\ manifest'[o] = Filled(o)
        BY <1>4, BackfillEffect
    <2>2. Filled(o) # NoFile
        BY FilledTyped, NothingIsThere
    <2>3. QED
        BY <2>1, <2>2 DEF Reach
<1>5. QED
    BY <1>1, <1>2, <1>3, <1>4, StepsOfNext DEF TakeSession, Open, BeginHeal, SkipWhole, HealOne,
        HealFails, Crash, CrashInHeal, LoseDb, RestoreBackup

\* Folders are made for new recordings, and removed by purges alone.
LEMMA FoldersStay ==
    ASSUME Next, \A m \in Meetings : ~(StartRecording(m) \/ ImportStage(m) \/ Purge(m))
    PROVE  born' = born /\ dirs' = dirs
<1>1. CASE NoteStep
    BY <1>1 DEF NoteStep, EditNote, BeginDelete, DeleteRow, MoveNote, SetNoteLocal, SetFolder
<1>2. ASSUME NEW m \in Meetings, StopFails(m) \/ AttachRecording(m) \/ ImportJoin(m)
      PROVE  born' = born /\ dirs' = dirs
    BY <1>2 DEF StopFails, AttachRecording, ImportJoin
<1>3. QED
    BY <1>1, <1>2, StepsOfNext DEF TakeSession, Open, BeginHeal, SkipWhole, HealOne, HealFails,
        Backfill, Crash, CrashInHeal, LoseDb, RestoreBackup

LEMMA NewRowsGoOn ==
    ASSUME TypeOK, TypeOK', Tidy, Tidy', NEW m \in Meetings, StartRecording(m) \/ ImportStage(m),
           NEW o \in Meetings
    PROVE  Goes(o)
<1>1. PICK staged \in BOOLEAN : NewRows(m, staged)
    BY DEF StartRecording, ImportStage
<1>2. /\ \A x \in Meetings : x # m => db'.meeting[x] = db.meeting[x]
      /\ ~Attached(db', m)
      /\ dirs' = dirs \cup {m}
      /\ \A x \in Meetings : x \in born' <=> x \in born \/ x = m
    BY <1>1, NewRowsEffect
<1>3. m \notin born /\ manifest[m] = NoFile /\ manifest' = manifest
    BY DEF StartRecording, ImportStage, NextId, Tidy, FilesHaveFolders
<1>4. Life(o) = Fate(o) /\ Life(o)' = Fate(o)'
    BY LifeIsFate, NextLifeIsFate DEF Tidy
<1>5. CASE o = m
    <2>1. Fate(o) = "none" /\ Fate(o)' \in {"recording", "stranded"}
        BY <1>2, <1>3, <1>5 DEF Fate
    <2>2. QED
        BY <1>4, <2>1 DEF Goes, Kept!Onward
<1>6. CASE o # m
    <2>1. o \in Recorders' <=> o \in Recorders
        BY <1>6, NothingIsThere DEF StartRecording, ImportStage, Recorders, NoRecording
    <2>2. Fate(o)' = Fate(o)
        BY <1>2, <1>3, <1>6, <2>1 DEF Fate, Attached, HasMeeting
    <2>3. QED
        BY <1>4, <2>2 DEF Goes
<1>7. QED
    BY <1>5, <1>6

\* A purge deletes what was asked for, or leaves it as it is.
LEMMA PurgeDeletes ==
    ASSUME TypeOK, TypeOK', Tidy, Tidy', NEW m \in Meetings, Purge(m)
    PROVE  /\ m \in asked
           /\ \A o \in Meetings : o # m => Life(o)' = Life(o)
           /\ \/ Life(m)' = Life(m)
              \/ /\ Life(m) \in {"recording", "held", "kept", "stranded"}
                 /\ Life(m)' \in {"gone", "stranded"}
<1>0. db \in Database /\ \A o \in Meetings : Life(o) = Fate(o) /\ Life(o)' = Fate(o)'
    BY LifeIsFate, NextLifeIsFate DEF Tidy, TypeOK
<1>1. m \in asked
    BY DEF Purge, Tidy, PurgesAreAsked
<1>2. /\ ~HasMeeting(db', m)
      /\ \A o \in Meetings : o # m => db'.meeting[o] = db.meeting[o]
    BY <1>0, RowEffect DEF Purge
<1>3. \A o \in Meetings : o # m => manifest'[o] = manifest[o] /\ (o \in dirs' <=> o \in dirs)
    BY DEF Purge, TypeOK
<1>4. born' = born /\ Recorders' = Recorders
    BY DEF Purge, Recorders
<1>5. \A o \in Meetings : o # m => Life(o)' = Life(o)
    BY <1>0, <1>2, <1>3, <1>4 DEF Fate, Attached, HasMeeting
<1> DEFINE named == m \in dirs /\ (Attached(db, m) \/ (HasMeeting(db, m) /\ db.meeting[m].staged))
<1>6. CASE ~named
    <2>1. dirs' = dirs /\ manifest' = manifest
        <3>1. PICK left \in {Notices \cup {"audio"}} :
                /\ dirs' = IF left = {} THEN dirs \ {m} ELSE dirs
                /\ manifest' = IF "manifest" \in left THEN manifest
                               ELSE [manifest EXCEPT ![m] = NoFile]
            BY <1>6 DEF Purge
        <3>2. "manifest" \in left
            BY <3>1 DEF Notices
        <3>3. QED
            BY <3>1, <3>2
    <2>2. Fate(m)' = Fate(m)
        BY <1>2, <1>4, <1>6, <2>1 DEF Fate, Attached
    <2>3. QED
        BY <1>0, <1>1, <1>5, <2>2
<1>7. CASE named
    <2>1. m \notin Recorders /\ m \in born
        BY <1>7 DEF Tidy, RecordersAreFresh, Fresh, FilesHaveFolders
    <2>2. Fate(m) \in {"recording", "held", "kept", "stranded"}
        BY <1>7, <2>1 DEF Fate
    <2>3. manifest'[m] = manifest[m] \/ manifest'[m] = NoFile
        BY DEF Purge, TypeOK
    <2>4. Fate(m)' = Fate(m) \/ Fate(m)' \in {"gone", "stranded"}
        BY <1>2, <1>4, <1>7, <2>1, <2>3 DEF Fate, Attached
    <2>5. QED
        BY <1>0, <1>1, <1>5, <2>2, <2>4
<1>8. QED
    BY <1>6, <1>7

\* A step as KeptRecordings sees it.
LEMMA StepsAreKept ==
    ASSUME TypeOK, TypeOK', Tidy, Tidy', Next
    PROVE  Kept!Next \/ UNCHANGED <<[m \in Meetings |-> Life(m)], asked>>
<1> DEFINE life == [m \in Meetings |-> Life(m)]
<1>1. \A m \in Meetings : Life(m) \in Kept!Lives /\ Life(m)' \in Kept!Lives
    BY LifeIsFate, NextLifeIsFate DEF Tidy, Fate, Kept!Lives
<1>2. life' = [m \in Meetings |-> Life(m)']
    OBVIOUS
<1>3. ASSUME \A o \in Meetings : Goes(o), asked' = asked
      PROVE  Kept!Turn
    BY <1>1, <1>2, <1>3 DEF Goes, Kept!Turn
<1>4. ASSUME NEW m \in Meetings, StartRecording(m) \/ ImportStage(m)
      PROVE  Kept!Next
    <2>1. \A o \in Meetings : Goes(o)
        BY <1>4, NewRowsGoOn
    <2>2. asked' = asked
        BY <1>4 DEF StartRecording, ImportStage
    <2>3. QED
        BY <1>3, <2>1, <2>2 DEF Kept!Next
<1>5. ASSUME NEW m \in Meetings, Purge(m)
      PROVE  Kept!Next \/ UNCHANGED <<life, asked>>
    <2>1. asked' = asked
        BY <1>5 DEF Purge
    <2>2. CASE Life(m)' = Life(m)
        <3>1. \A o \in Meetings : Life(o)' = Life(o)
            BY <1>5, <2>2, PurgeDeletes
        <3>2. QED
            BY <2>1, <3>1
    <2>3. CASE Life(m)' # Life(m)
        <3>1. /\ m \in asked /\ life[m] \in {"recording", "held", "kept", "stranded"}
              /\ Life(m)' \in {"gone", "stranded"}
              /\ \A o \in Meetings : o # m => Life(o)' = Life(o)
            BY <1>5, <2>3, PurgeDeletes
        <3>2. life' = [life EXCEPT ![m] = Life(m)']
            BY <1>2, <3>1
        <3>3. Kept!Delete
            BY <2>1, <3>1, <3>2 DEF Kept!Delete
        <3>4. QED
            BY <3>3 DEF Kept!Next
    <2>4. QED
        BY <2>2, <2>3
<1>6. ASSUME NEW n \in Notes, BeginDelete(n)
      PROVE  Kept!Next
    <2>1. /\ db' = db /\ born' = born /\ dirs' = dirs /\ manifest' = manifest
          /\ rec' = rec /\ stopping' = stopping
          /\ asked' = asked \cup {m \in Siblings(n) : HasMeeting(db, m)}
        BY <1>6 DEF BeginDelete
    <2>2. \A o \in Meetings : Fate(o)' = Fate(o)
        BY <2>1 DEF Fate, Recorders
    <2>3. \A o \in Meetings : Life(o)' = Life(o)
        BY <2>2, LifeIsFate, NextLifeIsFate DEF Tidy
    <2>4. life' = life
        BY <2>3
    <2>5. {m \in Siblings(n) : HasMeeting(db, m)} \in SUBSET Meetings
        BY DEF Siblings
    <2>6. Kept!AskDelete
        BY <2>1, <2>4, <2>5 DEF Kept!AskDelete
    <2>7. QED
        BY <2>6 DEF Kept!Next
<1>7. CASE /\ \A m \in Meetings : ~(StartRecording(m) \/ ImportStage(m) \/ Purge(m))
           /\ \A n \in Notes : ~BeginDelete(n)
    <2>1. born' = born /\ dirs' = dirs
        BY <1>7, FoldersStay
    <2>2. \A o \in Meetings : Goes(o)
        BY <1>7, <2>1, ManifestsStay, FoldersGoOn DEF Tidy
    <2>3. asked' = asked
        <3>1. CASE NoteStep
            BY <1>7, <3>1 DEF NoteStep, EditNote, DeleteRow, MoveNote, SetNoteLocal, SetFolder
        <3>2. ASSUME NEW m \in Meetings, StopFails(m) \/ AttachRecording(m) \/ ImportJoin(m)
              PROVE  asked' = asked
            BY <3>2 DEF StopFails, AttachRecording, ImportJoin
        <3>3. QED
            BY <1>7, <3>1, <3>2, StepsOfNext DEF TakeSession, Open, BeginHeal, SkipWhole, HealOne,
                HealFails, Backfill, Crash, CrashInHeal, LoseDb, RestoreBackup
    <2>4. QED
        BY <1>3, <2>2, <2>3 DEF Kept!Next
<1>8. QED
    BY <1>4, <1>5, <1>6, <1>7

\* The library implements its promise, for any number of meetings, notes,
\* crashes, losses and backups: once its folder has a manifest, a recording is
\* taken away by nothing but a delete the user asked for, and what was deleted
\* never comes back (recovery.rs, purge_meeting, create_meeting).
THEOREM LibraryKeepsRecordings == Spec => RefinesKept
<1>1. Init => Kept!Init
    <2> SUFFICES ASSUME Init
                 PROVE  Kept!Init
        OBVIOUS
    <2>1. \A m \in Meetings : Life(m) = "none"
        BY InitIsTidy, LifeIsFate DEF Tidy, Fate, Init
    <2>2. QED
        BY <2>1 DEF Init, Kept!Init
<1>2. TypeOK /\ Tidy /\ TypeOK' /\ Tidy' /\ [Next]_vars
      => [Kept!Next]_<<[m \in Meetings |-> Life(m)], asked>>
    <2>1. ASSUME UNCHANGED vars
          PROVE  UNCHANGED <<[m \in Meetings |-> Life(m)], asked>>
        <3>1. \A m \in Meetings : Life(m)' = Life(m)
            BY <2>1 DEF vars, Life, Attached, HasMeeting
        <3>2. QED
            BY <2>1, <3>1 DEF vars
    <2>2. QED
        BY <2>1, StepsAreKept
<1>3. QED
    BY <1>1, <1>2, TidyHolds, PTL DEF Spec, RefinesKept, Kept!Spec

=============================================================================
