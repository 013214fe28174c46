------------------------------ MODULE Library ------------------------------
(***************************************************************************)
(* The library on disk: the database, the meeting folders with their       *)
(* manifest and note mirror, and what keeps the two together.  Recording   *)
(* and import (recording.rs, import_commands.rs) write them, the note and  *)
(* Keep local commands (fly-storage notes.rs, folders.rs, privacy.rs)      *)
(* change them, purge_meeting removes them, and at the next launch         *)
(* self-heal and the backfill (recovery.rs) repair one from the other:     *)
(* after a crash, after the database was lost, or after an older backup    *)
(* (backup.rs) was put in its place.                                       *)
(*                                                                         *)
(* A step is one hold of the storage lock, except self-heal, which is one  *)
(* step per folder because the process may die between two of them.  What  *)
(* a command writes to several folders may reach only some of them.        *)
(***************************************************************************)
EXTENDS Naturals, FiniteSets

CONSTANTS
    Meetings,     \* 1..M: meeting ids, in the order they start
    Notes,
    NoteOf,       \* the note each meeting is recorded into
    Folders,      \* folder names; a folder's chain is abstracted to one folder
    Unfiled,
    MaxNow,       \* bound: edits, moves, changes of Keep local and of the folders
    MaxTrouble    \* bound: failed writes, ends of the process, and losses of the
                  \* database or an older one in its place, together

ASSUME LibraryAssumption ==
    /\ IsFiniteSet(Meetings) /\ Meetings = 1..Cardinality(Meetings)
    /\ Meetings \cap Notes = {}
    /\ NoteOf \in [Meetings -> Notes]
    /\ Unfiled \notin Folders
ASSUME LibraryBoundsAssumption ==
    /\ MaxNow \in Nat /\ MaxTrouble \in Nat

VARIABLES
    app,       \* "closed", "started", "healing", "ready"
    db,        \* the database
    backup,    \* the newest copy in backups/
    dirs,      \* the meetings whose recordings/ folder exists
    manifest,  \* recording.manifest.json
    mirror,    \* note.json
    rec,       \* state.recording
    stopping,  \* stop_recording has taken the session and finalises its files
    deleting,  \* delete_note has listed the note's meetings, and not yet deleted it
    purging,   \* the meetings it listed and has not yet purged
    todo,      \* the folders this heal has still to look at
    born,      \* ids that have been given out
    now,       \* a clock for updated_at: the changes made so far
    trouble,   \* what went wrong so far
    \* History: no action reads these.
    asked,     \* meetings whose delete the user asked for
    missed,    \* manifests and mirrors whose write failed, that no one wrote, or that
               \* the backfill left alone as newer than the database; rows that the
               \* last heal failed on
    owed,      \* lost from the database while kept local, and their manifests say so
    told       \* the texts a note's folders had for it when the database was lost

process == <<rec, stopping, deleting, purging, todo>>
disk == <<dirs, manifest, mirror>>
counts == <<now, trouble>>
history == <<asked, missed, owed, told>>
vars == <<app, db, backup, disk, process, born, counts, history>>

NoRow == [row |-> "none"]
NoFile == [file |-> "none"]
NoBackup == [backup |-> "none"]
NoRecording == 0

Notices == {"manifest", "mirror"}
Said == {"yes", "no", "unsaid"}
Flag(b) == IF b THEN "yes" ELSE "no"
Stamps == 0..MaxNow

NoteRow == [folder : Folders \cup {Unfiled}, body : Stamps, at : Stamps]
MeetingRow == [attached : BOOLEAN, local : BOOLEAN, staged : BOOLEAN]
Database == [folder  : [Folders -> {"absent", "open", "local"}],
             note    : [Notes -> NoteRow \cup {NoRow}],
             meeting : [Meetings -> MeetingRow \cup {NoRow}]]
Manifest == [local : Said, path : Folders \cup {Unfiled}, flag : Said]
Mirror == [body : Stamps, at : Stamps]

EmptyDb == [folder  |-> [f \in Folders |-> "absent"],
            note    |-> [n \in Notes |-> NoRow],
            meeting |-> [m \in Meetings |-> NoRow]]

TypeOK ==
    /\ app \in {"closed", "started", "healing", "ready"}
    /\ db \in Database
    /\ backup \in Database \cup {NoBackup}
    /\ dirs \subseteq Meetings
    /\ manifest \in [Meetings -> Manifest \cup {NoFile}]
    /\ mirror \in [Meetings -> Mirror \cup {NoFile}]
    /\ rec \in Meetings \cup {NoRecording}
    /\ stopping \subseteq Meetings /\ deleting \subseteq Notes
    /\ purging \subseteq Meetings /\ todo \subseteq Meetings
    /\ born \subseteq Meetings \cup Notes
    /\ now \in Stamps /\ trouble \in 0..MaxTrouble
    /\ asked \subseteq Meetings /\ missed \subseteq Meetings \X (Notices \cup {"rows"})
    /\ owed \subseteq Meetings /\ told \in [Notes -> SUBSET Stamps]

\* The user has folders already.
Init ==
    /\ \E folder \in [Folders -> {"open", "local"}] :
        db = [EmptyDb EXCEPT !.folder = folder]
    /\ app = "closed" /\ backup = NoBackup
    /\ dirs = {}
    /\ manifest = [m \in Meetings |-> NoFile] /\ mirror = [m \in Meetings |-> NoFile]
    /\ rec = NoRecording /\ stopping = {} /\ deleting = {} /\ purging = {} /\ todo = {}
    /\ born = {}
    /\ now = 0 /\ trouble = 0
    /\ asked = {} /\ missed = {} /\ owed = {} /\ told = [n \in Notes |-> {}]

-----------------------------------------------------------------------------
(* Reading the database *)

HasNote(d, n) == d.note[n] # NoRow
HasMeeting(d, m) == d.meeting[m] # NoRow
Attached(d, m) == HasMeeting(d, m) /\ d.meeting[m].attached
Used(d) == \/ \E n \in Notes : HasNote(d, n)
           \/ \E m \in Meetings : HasMeeting(d, m)
OwnLocal(d, m) == HasMeeting(d, m) /\ d.meeting[m].local
Siblings(n) == {m \in Meetings : NoteOf[m] = n}

NoteFolder(d, n) == IF HasNote(d, n) THEN d.note[n].folder ELSE Unfiled
FolderLocal(d, f) == f \in Folders /\ d.folder[f] = "local"

\* meeting_keep_local: an unknown meeting stays local.
EffLocal(d, m) == \/ ~HasMeeting(d, m)
                  \/ OwnLocal(d, m)
                  \/ FolderLocal(d, NoteFolder(d, NoteOf[m]))

\* inherit_keep_local
Inherited(d, m) == \E s \in Siblings(NoteOf[m]) \ {m} : OwnLocal(d, s)

\* recorded_keep_local
Recorded(f) == CASE f.local = "unsaid" -> "unsaid"
                 [] f.path # Unfiled /\ f.flag = "unsaid" -> "unsaid"
                 [] OTHER -> Flag("yes" \in {f.local, f.flag})

-----------------------------------------------------------------------------
(* Manifests and mirrors *)

\* build_portable_manifest, and a stash that can read the note.
ManifestOf(d, m) ==
    LET f == NoteFolder(d, NoteOf[m])
    IN  [local |-> IF HasMeeting(d, m) THEN Flag(OwnLocal(d, m)) ELSE "unsaid",
         path  |-> f,
         flag  |-> IF f = Unfiled THEN "unsaid" ELSE Flag(FolderLocal(d, f))]

BlindManifest == [local |-> "unsaid", path |-> Unfiled, flag |-> "unsaid"]

MirrorOf(d, n) == [body |-> d.note[n].body, at |-> d.note[n].at]

\* Those of M whose folder a refresh can write into.
Reach(d, M) == {m \in M : Attached(d, m) /\ m \in dirs}

Trouble(k) == trouble' = trouble + k

\* A round of writes of one kind of file into the folders of M reached W.
Wrote(kind, M, W) ==
    /\ missed' = (missed \ (W \X {kind})) \cup ((M \ W) \X {kind})
    /\ Trouble(Cardinality(M \ W))

WriteManifests(d, W) ==
    manifest' = [m \in Meetings |-> IF m \in W THEN ManifestOf(d, m) ELSE manifest[m]]

WriteMirrors(d, n, W) ==
    mirror' = [m \in Meetings |-> IF m \in W THEN MirrorOf(d, n) ELSE mirror[m]]

\* Best effort: each folder's write may fail on its own.
Refresh(d, M) == \E W \in SUBSET Reach(d, M) :
                    Wrote("manifest", Reach(d, M), W) /\ WriteManifests(d, W)

\* In order of start, given up at the first that fails.
Prefixes(M) == {W \in SUBSET M : \A a \in M, b \in W : a < b => a \in W}

RefreshInOrder(d, M) == \E W \in Prefixes(Reach(d, M)) :
                    Wrote("manifest", Reach(d, M), W) /\ WriteManifests(d, W)

SyncMirrors(d, n) == \E W \in Prefixes(Reach(d, Siblings(n))) :
                    Wrote("mirror", Reach(d, Siblings(n)), W) /\ WriteMirrors(d, n, W)

\* A merge that trusts the database (a mutant).
RowWins(file, row, samePath) == IF row = "unsaid" THEN file ELSE row

\* A merge that never looks at the row (a mutant).
FileWins(file, row, samePath) == IF file = "unsaid" THEN row ELSE file

\* backfill_manifest: what the file says wins, except that "kept local" wins.
MergeFlags(file, row, samePath) ==
    CASE ~samePath -> file
      [] file = "unsaid" -> row
      [] row = "unsaid" -> file
      [] OTHER -> Flag("yes" \in {file, row})

BackfillManifest(file, row) ==
    IF file = NoFile THEN row
    ELSE LET path == IF file.path = Unfiled THEN row.path ELSE file.path
         IN  [local |-> MergeFlags(file.local, row.local, TRUE),
              path  |-> path,
              flag  |-> MergeFlags(file.flag, row.flag, path = row.path)]

\* A backfill that only fills gaps (a mutant).
FillGap(file, row) == IF file = NoFile THEN row ELSE file

\* backfill_note_mirror: only a file that is provably older is replaced.
BackfillMirror(file, row) ==
    IF file = NoFile THEN row ELSE IF file.at < row.at THEN row ELSE file
-----------------------------------------------------------------------------
(* The commands: each is one hold of the storage lock, which self-heal     *)
(* keeps while it runs.                                                    *)

Up == app \in {"started", "ready"}
Fault(ok) == Trouble(IF ok THEN 0 ELSE 1)
Tick == now < MaxNow /\ now' = now + 1

\* A choice that makes a meeting less local: it is no longer owed.
StillOwed == owed' = {m \in owed : EffLocal(db', m)}

\* Ids numbered by the rows there are (a mutant).
NextFreeRow(m) == ~HasMeeting(db, m) /\ \A o \in Meetings : o < m => HasMeeting(db, o)

NextId(m) == m \notin born /\ \A o \in Meetings : o < m => o \in born

\* create_note, create_meeting, allocate_meeting_dir: a new note, or the
\* one the user is recording into.
NewRows(m, staged) ==
    LET n == NoteOf[m]
        row == [attached |-> FALSE, local |-> Inherited(db, m), staged |-> staged]
    IN  /\ HasNote(db, n) \/ n \notin born
        /\ db' = [db EXCEPT
                    !.meeting[m] = row,
                    !.note[n] = IF HasNote(db, n) THEN @
                                ELSE [folder |-> Unfiled, body |-> 0, at |-> 0]]
        /\ born' = born \cup {m, n}
        /\ dirs' = dirs \cup {m}

StartRecording(m) ==
    /\ Up /\ rec = NoRecording /\ NextId(m)
    /\ NewRows(m, FALSE)
    /\ \E ok \in BOOLEAN : Fault(ok) /\ rec' = IF ok THEN m ELSE rec
    /\ UNCHANGED <<app, backup, manifest, mirror, stopping, deleting, purging, todo, now,
                   history>>

\* stop_recording takes the session; its files are finalised outside any lock.
TakeSession ==
    /\ Up /\ rec # NoRecording
    /\ stopping' = stopping \cup {rec}
    /\ rec' = NoRecording
    /\ UNCHANGED <<app, db, backup, disk, deleting, purging, todo, born, counts, history>>

StopFails(m) ==
    /\ Up /\ m \in stopping
    /\ stopping' = stopping \ {m}
    /\ Fault(FALSE)
    /\ UNCHANGED <<app, db, backup, disk, rec, deleting, purging, todo, born, now, history>>

\* The mirror, the manifest, then the row: each write may fail on its own,
\* and the row may be gone.  A note that can't be read leaves Keep local unsaid.
AttachRecording(m) ==
    LET n == NoteOf[m]
        Failed(ok) == IF ok THEN 0 ELSE 1
    IN  /\ Up /\ m \in stopping
        /\ stopping' = stopping \ {m}
        /\ \E copy, stash, write \in BOOLEAN :
            /\ Trouble(Failed(copy) + Failed(stash) + Failed(write))
            /\ mirror' = IF copy /\ HasNote(db, n)
                         THEN [mirror EXCEPT ![m] = MirrorOf(db, n)] ELSE mirror
            /\ manifest' = IF ~stash THEN manifest
                           ELSE [manifest EXCEPT ![m] = IF HasNote(db, n) THEN ManifestOf(db, m)
                                                        ELSE BlindManifest]
            /\ db' = IF write /\ HasMeeting(db, m)
                     THEN [db EXCEPT !.meeting[m].attached = TRUE] ELSE db
        /\ UNCHANGED <<app, backup, dirs, rec, deleting, purging, todo, born, now, history>>

ImportStage(m) ==
    /\ Up /\ NextId(m) /\ NoteOf[m] \notin born
    /\ NewRows(m, TRUE)
    /\ UNCHANGED <<app, backup, manifest, mirror, process, counts, history>>

\* import_transcribe's end: the row only, no manifest.
ImportJoin(m) ==
    /\ Up /\ HasMeeting(db, m) /\ m \in dirs
    /\ db.meeting[m].staged /\ ~Attached(db, m)
    /\ db' = [db EXCEPT !.meeting[m].attached = TRUE]
    /\ missed' = missed \cup ({m} \X Notices)
    /\ UNCHANGED <<app, backup, disk, process, born, counts, asked, owed, told>>

\* An edit stamped ahead of the clock (a mutant).
EditStampedAhead(n) ==
    /\ Up /\ HasNote(db, n) /\ Tick
    /\ db' = [db EXCEPT !.note[n].body = now', !.note[n].at = now' + 1]
    /\ SyncMirrors(db', n)
    /\ UNCHANGED <<app, backup, dirs, manifest, process, born, asked, owed, told>>

EditNote(n) ==
    /\ Up /\ HasNote(db, n) /\ Tick
    /\ db' = [db EXCEPT !.note[n].body = now', !.note[n].at = now']
    /\ SyncMirrors(db', n)
    /\ UNCHANGED <<app, backup, dirs, manifest, process, born, asked, owed, told>>

MoveNote(n, f) ==
    /\ Up /\ HasNote(db, n) /\ Tick
    /\ f # NoteFolder(db, n) /\ (f \in Folders => db.folder[f] # "absent")
    /\ db' = [db EXCEPT !.note[n].folder = f, !.note[n].at = now']
    /\ RefreshInOrder(db', Siblings(n))
    /\ StillOwed
    /\ UNCHANGED <<app, backup, dirs, mirror, process, born, asked, told>>

SetNoteLocal(n, b) ==
    /\ Up /\ HasNote(db, n) /\ Tick
    /\ db' = [db EXCEPT !.meeting = [m \in Meetings |->
                IF NoteOf[m] = n /\ HasMeeting(db, m) THEN [db.meeting[m] EXCEPT !.local = b]
                ELSE db.meeting[m]]]
    /\ Refresh(db', Siblings(n))
    /\ StillOwed
    /\ UNCHANGED <<app, backup, dirs, mirror, process, born, asked, told>>

\* The recorded meetings filed in f.
Subtree(d, f) == {m \in Meetings : NoteFolder(d, NoteOf[m]) = f}

\* create_folder, set_folder_keep_local, delete_folder
SetFolder(f, to) ==
    /\ Up /\ Tick /\ to # db.folder[f]
    /\ to = "local" => db.folder[f] # "absent"
    /\ db' = [db EXCEPT
                !.folder[f] = to,
                !.note = [n \in Notes |->
                    IF to = "absent" /\ HasNote(db, n) /\ NoteFolder(db, n) = f
                    THEN [db.note[n] EXCEPT !.folder = Unfiled] ELSE db.note[n]]]
    /\ Refresh(db', Subtree(db, f))
    /\ StillOwed
    /\ UNCHANGED <<app, backup, dirs, mirror, process, born, asked, told>>

\* delete_note looks at the recording, and lists the note's meetings; the
\* note goes once what is busy with them has been told to stop.
BeginDelete(n) ==
    /\ Up /\ HasNote(db, n) /\ n \notin deleting
    /\ \A m \in purging : NoteOf[m] # n
    /\ rec # NoRecording => NoteOf[rec] # n
    /\ deleting' = deleting \cup {n}
    /\ purging' = purging \cup {m \in Siblings(n) : HasMeeting(db, m)}
    /\ asked' = asked \cup {m \in Siblings(n) : HasMeeting(db, m)}
    /\ UNCHANGED <<app, db, backup, disk, rec, stopping, todo, born, counts, missed, owed,
                   told>>

DeleteRow(n) ==
    /\ Up /\ n \in deleting
    /\ deleting' = deleting \ {n}
    /\ db' = [db EXCEPT !.note[n] = NoRow]
    /\ StillOwed
    /\ told' = [told EXCEPT ![n] = {}]
    /\ UNCHANGED <<app, backup, disk, rec, stopping, purging, todo, born, counts, asked,
                   missed>>

\* purge_staged_import, purge_meeting: only a folder that the row or the
\* staged list names is removed, and a locked file may leave any of it.
Purge(m) ==
    LET named == m \in dirs /\ (Attached(db, m) \/ (HasMeeting(db, m) /\ db.meeting[m].staged))
    IN  /\ Up /\ m \in purging /\ NoteOf[m] \notin deleting
        /\ purging' = purging \ {m}
        /\ db' = [db EXCEPT !.meeting[m] = NoRow]
        /\ \E left \in IF named THEN {{}} \cup {l \cup {"audio"} : l \in SUBSET Notices}
                      ELSE {Notices \cup {"audio"}} :
            /\ Fault(~named \/ left = {})
            /\ dirs' = IF left = {} THEN dirs \ {m} ELSE dirs
            /\ manifest' = IF "manifest" \in left THEN manifest
                           ELSE [manifest EXCEPT ![m] = NoFile]
            /\ mirror' = IF "mirror" \in left THEN mirror ELSE [mirror EXCEPT ![m] = NoFile]
        /\ owed' = owed \ {m}
        /\ UNCHANGED <<app, backup, rec, stopping, deleting, todo, born, now, asked, missed,
                       told>>

-----------------------------------------------------------------------------
(* Launch, self-heal, and what may happen to the database meanwhile        *)

\* An app-version change saves the library before it opens.  (Within the
\* bound, a copy that can no longer be put back is not worth a state.)
Open(due) ==
    /\ app = "closed" /\ app' = "started"
    /\ due => Used(db) /\ trouble + 2 <= MaxTrouble
    /\ backup' = IF due THEN db ELSE backup
    /\ UNCHANGED <<db, disk, process, born, counts, history>>

BeginHeal ==
    /\ app = "started" /\ app' = "healing"
    /\ todo' = {m \in dirs : manifest[m] # NoFile}
    /\ missed' = missed \ (Meetings \X {"rows"})
    /\ UNCHANGED <<db, backup, disk, rec, stopping, deleting, purging, born, counts, asked,
                   owed, told>>

\* ensure_folder_path: a folder this creates gets the manifest's flag.
WithFolder(d, file) ==
    IF file.path = Unfiled \/ (file.path # Unfiled /\ d.folder[file.path] # "absent") THEN d
    ELSE [d EXCEPT !.folder[file.path] = IF file.flag = "yes" THEN "local" ELSE "open"]

\* Always the stub (a mutant).
WithStub(d, m) ==
    IF HasNote(d, NoteOf[m]) THEN d
    ELSE [d EXCEPT !.note[NoteOf[m]] = [folder |-> manifest[m].path, body |-> 0, at |-> 0]]

\* insert_recovered_note: from the folder's mirror, or an empty stub.
WithNote(d, m) ==
    IF HasNote(d, NoteOf[m]) THEN d
    ELSE [d EXCEPT !.note[NoteOf[m]] =
            IF mirror[m] = NoFile THEN [folder |-> manifest[m].path, body |-> 0, at |-> 0]
            ELSE [folder |-> manifest[m].path, body |-> mirror[m].body, at |-> mirror[m].at]]

WithMeeting(d, m) ==
    [d EXCEPT !.meeting[m] = [attached |-> TRUE, staged |-> FALSE,
                              local |-> manifest[m].local # "no"]]

\* A row without its recording left as it is, one kept local in a folder that
\* is not left to the folder (mutants).
LeftRow(d, m) == d
LeftToFolder(d, m) == d

AttachedRow(d, m) == [d EXCEPT !.meeting[m].attached = TRUE]
Ensured(d, m) == IF EffLocal(d, m) THEN d ELSE [d EXCEPT !.meeting[m].local = TRUE]

WithRows(m) == WithMeeting(WithNote(WithFolder(db, manifest[m]), m), m)
WithKin(m) ==
    IF Inherited(WithRows(m), m) THEN [WithRows(m) EXCEPT !.meeting[m].local = TRUE]
    ELSE WithRows(m)

Healed(m) ==
    IF HasMeeting(db, m)
    THEN IF Recorded(manifest[m]) = "yes" THEN Ensured(AttachedRow(db, m), m)
         ELSE AttachedRow(db, m)
    ELSE IF Recorded(manifest[m]) = "no" THEN WithKin(m) ELSE Ensured(WithKin(m), m)

\* The rows after each statement of heal_one, a transaction of its own.
HealPrefixes(m) ==
    IF HasMeeting(db, m) THEN {db, AttachedRow(db, m)}
    ELSE {db, WithFolder(db, manifest[m]), WithNote(WithFolder(db, manifest[m]), m),
          WithRows(m), WithKin(m), Healed(m)}

\* heal_one ends before its sync.  A later heal skips a meeting that is attached.
HealBreaks(m) ==
    /\ app = "healing" /\ m \in todo /\ ~Attached(db, m)
    /\ db' \in HealPrefixes(m)
    /\ owed' = IF Attached(db', m) /\ db' # Healed(m) THEN owed \ {m} ELSE owed

\* heal_one
SkipWhole(m) ==
    /\ app = "healing" /\ m \in todo /\ Attached(db, m)
    /\ todo' = todo \ {m}
    /\ UNCHANGED <<app, db, backup, disk, rec, stopping, deleting, purging, born, counts,
                   history>>

HealOne(m) ==
    /\ app = "healing" /\ m \in todo /\ ~Attached(db, m)
    /\ todo' = todo \ {m}
    /\ db' = Healed(m)
    /\ IF HasMeeting(db, m) THEN UNCHANGED <<mirror, trouble, missed>>
       ELSE SyncMirrors(db', NoteOf[m])
    /\ UNCHANGED <<app, backup, dirs, manifest, rec, stopping, deleting, purging, born, now,
                   asked, owed, told>>

\* An error in one folder: self-heal goes on to the next.
HealFails(m) ==
    /\ HealBreaks(m)
    /\ todo' = todo \ {m} /\ Fault(FALSE)
    /\ missed' = missed \cup {<<m, "rows">>}
    /\ UNCHANGED <<app, backup, disk, rec, stopping, deleting, purging, born, now, asked, told>>

\* refresh_portable_artifacts, each folder's manifest and then its mirror, and
\* the heal is over.
Backfill ==
    LET M == Reach(db, Meetings)
        file(m) == BackfillManifest(manifest[m], ManifestOf(db, m))
        note(m) == IF HasNote(db, NoteOf[m])
                   THEN BackfillMirror(mirror[m], MirrorOf(db, NoteOf[m])) ELSE mirror[m]
        newer == {m \in M : HasNote(db, NoteOf[m]) /\ mirror[m] # NoFile
                            /\ mirror[m].at > db.note[NoteOf[m]].at}
    IN  /\ app = "healing" /\ todo = {}
        /\ app' = "ready"
        /\ \E W \in SUBSET M : \E V \in SUBSET W :
            /\ Trouble(Cardinality(M \ V))
            /\ manifest' = [m \in Meetings |-> IF m \in W THEN file(m) ELSE manifest[m]]
            /\ mirror' = [m \in Meetings |-> IF m \in V THEN note(m) ELSE mirror[m]]
            /\ missed' = (missed \ ((W \X {"manifest"}) \cup (V \X {"mirror"})))
                            \cup ((M \ W) \X {"manifest"})
                            \cup (((M \ V) \cup newer) \X {"mirror"})
        /\ UNCHANGED <<db, backup, dirs, process, born, now, asked, owed, told>>

Stopped == /\ app' = "closed" /\ Trouble(1)
           /\ rec' = NoRecording
           /\ stopping' = {} /\ deleting' = {} /\ purging' = {} /\ todo' = {}

Crash ==
    /\ app # "closed" /\ Stopped
    /\ UNCHANGED <<db, backup, disk, born, now, history>>

\* The process dies between two statements of heal_one.
CrashInHeal(m) ==
    /\ HealBreaks(m) /\ Stopped
    /\ UNCHANGED <<backup, disk, born, now, asked, missed, told>>

\* What the folders say when the database is lost.
SaysLocal(m) == manifest[m] # NoFile /\ Recorded(manifest[m]) # "no"
Text(m) == IF mirror[m] = NoFile THEN 0 ELSE mirror[m].body
Tells(n) == {Text(m) : m \in {o \in Siblings(n) : manifest[o] # NoFile}}

LoseDb ==
    /\ app = "closed" /\ Used(db)
    /\ db' = EmptyDb /\ Trouble(1)
    /\ owed' = {m \in Meetings : IF HasMeeting(db, m) THEN EffLocal(db, m) /\ SaysLocal(m)
                                 ELSE m \in owed}
    /\ told' = [n \in Notes |-> IF HasNote(db, n) THEN Tells(n) ELSE told[n]]
    /\ UNCHANGED <<app, backup, disk, process, born, now, asked, missed>>

\* The user puts the newest backup in its place.
RestoreBackup ==
    /\ app = "closed" /\ backup # NoBackup /\ db # backup
    /\ db' = backup /\ Trouble(1)
    /\ owed' = {} /\ told' = [n \in Notes |-> {}]
    /\ UNCHANGED <<app, backup, disk, process, born, now, asked, missed>>

-----------------------------------------------------------------------------
InBounds == trouble' <= MaxTrouble

Command ==
    \/ \E m \in Meetings : StartRecording(m) \/ StopFails(m) \/ AttachRecording(m)
                           \/ ImportStage(m) \/ ImportJoin(m) \/ Purge(m)
    \/ TakeSession
    \/ \E n \in Notes : EditNote(n) \/ BeginDelete(n) \/ DeleteRow(n)
    \/ \E n \in Notes, f \in Folders \cup {Unfiled} : MoveNote(n, f)
    \/ \E n \in Notes, b \in BOOLEAN : SetNoteLocal(n, b)
    \/ \E f \in Folders, to \in {"absent", "open", "local"} : SetFolder(f, to)

Launch ==
    \/ \E due \in BOOLEAN : Open(due)
    \/ BeginHeal
    \/ \E m \in Meetings : SkipWhole(m) \/ HealOne(m) \/ HealFails(m)
    \/ Backfill

Disaster == Crash \/ (\E m \in Meetings : CrashInHeal(m)) \/ LoseDb \/ RestoreBackup

Next == (Command \/ Launch \/ Disaster) /\ InBounds

Spec == Init /\ [][Next]_vars
-----------------------------------------------------------------------------
(* Properties *)

\* What has become of a recording, as its folder and its row tell it.
Life(m) ==
    CASE m \notin born -> "none"
      [] m \in born /\ m \notin dirs -> "gone"
      [] m \in dirs /\ manifest[m] # NoFile -> "kept"
      [] m \in dirs /\ manifest[m] = NoFile /\ Attached(db, m) -> "held"
      [] m \in dirs /\ manifest[m] = NoFile /\ ~Attached(db, m) /\
         (m \in stopping \cup {rec} \/ (HasMeeting(db, m) /\ db.meeting[m].staged)) -> "recording"
      [] OTHER -> "stranded"

\* The library implements its promise: once the folder carries a manifest,
\* only a delete the user asked for takes the recording away, through every
\* crash, loss of the database and older backup, and an id that was deleted is
\* never used again (recovery.rs, purge_meeting, create_meeting).
Kept == INSTANCE KeptRecordings WITH life <- [m \in Meetings |-> Life(m)]
RefinesKept == Kept!Spec

\* Whatever order edits, moves and launches come in, a meeting kept local has
\* a manifest that says so, or leaves it unsaid: it is what is left to go by
\* when the database is lost (refresh_recording_manifest, backfill_manifest).
\* Not while a write of it is owed, nor before it knows of a move.
ManifestAtLeastAsLocal ==
    app = "ready" => \A m \in Meetings :
        /\ Attached(db, m) /\ manifest[m] # NoFile
        /\ <<m, "manifest">> \notin missed
        /\ manifest[m].path = NoteFolder(db, NoteOf[m])
        => (EffLocal(db, m) => Recorded(manifest[m]) # "no")

\* A meeting that was kept local and whose manifest said so is kept local
\* when self-heal has brought it back, whatever the order of the folders and
\* however often the database is lost, until the user decides otherwise
\* (heal_one, ensure_meeting_kept_local, inherit_keep_local).
LocalSurvivesLoss ==
    app = "ready" => \A m \in owed : Attached(db, m) => EffLocal(db, m)

\* No mirror holds an older text than the note, unless its write failed or the
\* backfill took it for the newer: edits sync it, self-heal and the backfill
\* catch up what they find, and one of the same date is left for having the
\* same text (sync_note_derived, backfill_note_mirror).
MirrorsCurrent ==
    app = "ready" => \A m \in Meetings :
        /\ Attached(db, m) /\ HasNote(db, NoteOf[m])
        /\ mirror[m] # NoFile /\ <<m, "mirror">> \notin missed
        => mirror[m].body >= db.note[NoteOf[m]].body

\* A note lost with the database comes back with a text that one of its folders
\* had (nothing, where a folder has no mirror), or with one written since: no
\* order of its folders, failed heal or crash between them, and no second loss
\* makes it anything else (insert_recovered_note, and the sync after it).  Which
\* of the texts depends on the order: the folder healed first gives its own, be
\* it older, and the sync writes it over the newer mirrors of the others.
TextSurvivesLoss ==
    app = "ready" => \A n \in Notes : HasNote(db, n) =>
        db.note[n].body \in told[n] \/ \A t \in told[n] : db.note[n].body > t

\* When self-heal is over, every folder with a manifest is in the library, but
\* for those whose own heal failed: no folder undoes or stops another
\* (self_heal_recordings).
HealAttachesAll ==
    [][app = "healing" /\ app' = "ready" =>
        \A m \in dirs : manifest[m] # NoFile /\ <<m, "rows">> \notin missed =>
            Attached(db', m)]_vars

\* The backfill never takes back what a folder says: a manifest that says kept
\* local says so after it, and a mirror never goes back in time
\* (backfill_manifest, backfill_note_mirror).
BackfillOnlyAdds ==
    [][Backfill => \A m \in Meetings :
        /\ manifest[m] # NoFile /\ Recorded(manifest[m]) = "yes" => Recorded(manifest'[m]) = "yes"
        /\ mirror[m] # NoFile => mirror'[m] # NoFile /\ mirror'[m].at >= mirror[m].at]_vars
=============================================================================
