----------------------------- MODULE AudioStore -----------------------------
(***************************************************************************)
(* The "Compress recordings" job (src-tauri/src/audio_store.rs), for one   *)
(* meeting: it re-stores the meeting's WAVs as FLAC, drops the mixes that  *)
(* rebuild from the sources, and deletes the WAVs, while the meeting's     *)
(* audio is transcribed, re-diarized, played, aged out by retention,       *)
(* purged with its note or wiped, and while the process may die.           *)
(*                                                                         *)
(* A step is what one thread does under one hold of a lock, or one change  *)
(* of a file.  The job's steps that hold the storage lock between them are *)
(* StorageHeld; every other step that takes the lock waits for StorageFree.*)
(*                                                                         *)
(* A file is a role and an extension; what is known of its bytes is one of *)
(* Contents.  Encoding and verifying are the steps EncodeTemp and Rename.  *)
(***************************************************************************)
EXTENDS Naturals, Sequences

CONSTANTS
    Layouts,     \* the folders the job may find: files, row, mixes that rebuild
    Events,      \* bound: which things the user and the app do meanwhile
    MaxEvents,   \* bound: how many of them
    MaxFaults,   \* bound: I/O errors
    MaxCrashes   \* bound: the process ends

Sources == {"mic", "system"}
Derived == {"mixed", "playback"}
Roles == Sources \cup Derived
RoleOrder == <<"mic", "system", "mixed", "playback">>

Wav(r) == <<r, "wav">>
Flac(r) == <<r, "flac">>
Files == Roles \X {"wav", "flac"}
NoPath == <<"none", "none">>
IsWav(f) == f[2] = "wav"
FlacTwin(f) == Flac(f[1])

\* "own": the role's audio, in the layout capture writes (or a FLAC of it).
\* "odd": the role's audio in a layout that is never converted.
\* "other": a WAV that isn't the stored audio.  "bad": a damaged FLAC.
Contents == {"none", "own", "odd", "other", "bad"}
Audio == {"own", "odd"}

Recording == [Roles -> Files \cup {NoPath}]
Folder == [Files -> Contents]

\* Capture and import name a role's file for the role, and the job keeps the
\* name; only a mix may be a source's own file.
PathsAsWritten(rec) ==
    \A r \in Roles :
        \/ rec[r] \in {NoPath, Wav(r), Flac(r)}
        \/ r \in Derived /\ \E s \in Sources : rec[r] = rec[s]

IsStorageV2(rec) == \E s \in Sources : rec[s] # NoPath /\ ~IsWav(rec[s])

\* A row names audio; a damaged file is a FLAC, a foreign one a WAV; a mix that
\* isn't stored rebuilds in a compressed meeting only.
ASSUME LayoutsAssumption ==
    \A l \in Layouts :
        /\ l.row \in Recording /\ l.disk \in Folder /\ l.regen \subseteq Derived
        /\ \A r \in Roles : l.row[r] # NoPath => l.disk[l.row[r]] \in Audio
        /\ PathsAsWritten(l.row)
        /\ \A r \in Roles : l.disk[Flac(r)] \in {"none", "own", "bad"}
        /\ \A d \in l.regen : l.row[d] = NoPath => IsStorageV2(l.row)
ASSUME AudioBoundsAssumption ==
    /\ Events \subseteq {"machine", "transcribe", "rediarize", "play", "sweep",
                         "purge", "wipe", "edit"}
    /\ MaxEvents \in Nat /\ MaxFaults \in Nat /\ MaxCrashes \in Nat

VARIABLES
    layout,    \* the folder as the job first found it
    row,       \* meetings.recording_json
    manifest,  \* recording.manifest.json, its `recording`
    disk,      \* the recording files
    temps,     \* roles with a `.compressing` file
    meeting,   \* "kept"; "aging": retention was cut short; "swept": audio_deleted_at;
               \* "gone": purged or wiped, row and folder
    leased,    \* the folder's lease, announced as `current`
    cancel,    \* the meeting is in StoreState.cancel
    halted,    \* StoreState.halted
    unproven,  \* StoreState.unproven
    job,       \* the job's thread
    busyElsewhere, \* something else needs the machine
    reader,    \* a transcription or a re-diarize of the meeting
    player,    \* prepare_playback and the player; `recent`: within PLAYBACK_GRACE
    sweep,     \* a retention sweep
    purge,     \* delete_note, from stop_meeting on
    wipe,      \* "Delete all my data"
    left       \* what the bounds leave

stored == <<row, manifest, disk, temps, meeting>>
flags == <<leased, cancel, halted, unproven>>
others == <<busyElsewhere, reader, player, sweep, purge, wipe>>
vars == <<layout, stored, flags, job, others, left>>

NoRow == [r \in Roles |-> NoPath]
JobStart == [pc |-> "idle", todo |-> <<>>, planned |-> NoRow, next |-> NoRow,
             del |-> {}, made |-> {}, doubt |-> {}, result |-> "none"]
NoReader == [kind |-> "none", pc |-> "none", files |-> {}]
NoPlayer == [pc |-> "none", recent |-> FALSE, rec |-> NoRow, file |-> NoPath]

Left == [events |-> MaxEvents, faults |-> MaxFaults, crashes |-> MaxCrashes]
Spend(what) == left[what] > 0 /\ left' = [left EXCEPT ![what] = @ - 1]
Event(what) == what \in Events /\ Spend("events")

Init ==
    /\ layout \in Layouts
    /\ row = layout.row
    /\ manifest = layout.row
    /\ disk = layout.disk
    /\ temps = {}
    /\ meeting = "kept"
    /\ leased = FALSE /\ cancel = FALSE /\ halted = FALSE /\ unproven = {}
    /\ job = JobStart
    /\ busyElsewhere = FALSE
    /\ reader = NoReader
    /\ player = NoPlayer
    /\ sweep = "none"
    /\ purge = "none"
    /\ wipe = "none"
    /\ left = Left

-----------------------------------------------------------------------------
(* What the code reads of a recording and its folder.                      *)

StorageHeld == {"announce", "manifest", "row", "delete"}
StorageFree == job.pc \notin StorageHeld

MeetingExists == meeting # "gone"

OnDisk(rec, r) == rec[r] # NoPath /\ disk[rec[r]] # "none"

\* The rebuilt mix is the one capture wrote: the sources are all there.
Regenerates(rec, d) ==
    /\ d \in layout.regen /\ IsStorageV2(rec)
    /\ \A s \in Sources : layout.row[s] # NoPath => rec[s] # NoPath /\ disk[rec[s]] \in Audio

\* The WAV capture wrote for r, unreferenced, with something to prove it against.
LeftoverCandidate(rec, r) ==
    /\ disk[Wav(r)] # "none"
    /\ \A q \in Roles : rec[q] # Wav(r)
    /\ \/ rec[r] = Flac(r)
       \/ rec[r] = NoPath /\ r \in Derived /\ IsStorageV2(rec)

\* A slip a run must notice: any FLAC beside a leftover proves it.
ProvenByTwin(rec, r) ==
    IF rec[r] # NoPath THEN disk[rec[r]] = "own" ELSE Regenerates(rec, r)

Proven(rec, r) ==
    /\ disk[Wav(r)] = "own"
    /\ IF rec[r] # NoPath THEN disk[rec[r]] = "own" ELSE Regenerates(rec, r)

NeedsWork(rec) ==
    \E r \in Roles :
        \/ rec[r] # NoPath /\ IsWav(rec[r]) /\ disk[rec[r]] = "own"
        \/ (rec[r] = NoPath \/ ~IsWav(rec[r])) /\ LeftoverCandidate(rec, r) /\ r \notin unproven

\* pipeline_stage holds the meeting.
StageClaimed == reader.pc \in {"claimed", "reading"}

\* Its transcription is queued or running.
JobPending == reader.kind = "transcribe"

Cancelled == halted \/ cancel

\* background_yield_reason: any run's stage counts, this meeting's too.
MustYield == busyElsewhere \/ StageClaimed

AudioDeleted == meeting = "swept"

\* A slip a run must notice: the stage isn't asked for.
BlockedByRowsOnly ==
    Cancelled \/ player.recent \/ JobPending \/ AudioDeleted

\* A slip a run must notice: a play request isn't asked for.
BlockedByWorkOnly ==
    Cancelled \/ StageClaimed \/ JobPending \/ AudioDeleted

\* The check before the lease and at the commit, under the storage lock.
Blocked ==
    Cancelled \/ player.recent \/ StageClaimed \/ JobPending \/ AudioDeleted

-----------------------------------------------------------------------------
(* run_pass and compress_one_now: up to the lease.                         *)

Goto(pc) == job' = [job EXCEPT !.pc = pc]

\* The pass lists the meetings with stored audio and plans the ones with work.
PlanPass ==
    /\ job.pc = "idle" /\ ~halted
    /\ meeting \in {"kept", "aging"} /\ NeedsWork(row)
    /\ Goto("clear")
    /\ UNCHANGED <<layout, stored, flags, others, left>>

\* A pass with nothing to do still forgets what was cancelled.
EmptyPass ==
    /\ job.pc = "idle" /\ ~halted /\ cancel
    /\ meeting \notin {"kept", "aging"} \/ ~NeedsWork(row)
    /\ cancel' = FALSE
    /\ UNCHANGED <<layout, stored, leased, halted, unproven, job, others, left>>

\* A slip a run must notice: what was cancelled once stays cancelled.
KeepCancels ==
    /\ job.pc = "clear"
    /\ Goto("wait")
    /\ UNCHANGED <<layout, stored, flags, others, left>>

ClearCancels ==
    /\ job.pc = "clear"
    /\ cancel' = FALSE
    /\ Goto("wait")
    /\ UNCHANGED <<layout, stored, leased, halted, unproven, others, left>>

\* wait_until_idle: nothing else needs the machine.
MachineFree ==
    /\ job.pc = "wait" /\ ~Cancelled /\ ~MustYield
    /\ Goto("lease")
    /\ UNCHANGED <<layout, stored, flags, others, left>>

GiveUpWaiting ==
    /\ job.pc = "wait" /\ Cancelled
    /\ Goto("idle")
    /\ UNCHANGED <<layout, stored, flags, others, left>>

\* Gone, busy, or free to take; the storage lock stays held for the lease.
CheckBeforeLease ==
    /\ job.pc = "lease"
    /\ Goto(IF ~MeetingExists \/ Blocked THEN "idle" ELSE "announce")
    /\ UNCHANGED <<layout, stored, flags, others, left>>

Announce ==
    /\ job.pc = "announce"
    /\ leased' = TRUE
    /\ Goto("read")
    /\ UNCHANGED <<layout, stored, cancel, halted, unproven, others, left>>

-----------------------------------------------------------------------------
(* compress_meeting: one meeting's files.                                  *)

Finish(result) == job' = [job EXCEPT !.pc = "undo", !.result = result]

\* compress_meeting_inner reads the row and removes strays.
ReadRow ==
    /\ job.pc = "read"
    /\ IF MeetingExists
       THEN /\ job' = [JobStart EXCEPT !.pc = "roles", !.todo = RoleOrder,
                                       !.planned = row, !.next = row]
            /\ temps' = {}
       ELSE Finish("gone") /\ UNCHANGED temps
    /\ UNCHANGED <<layout, row, manifest, disk, meeting, flags, others, left>>

Role == Head(job.todo)
RoleWav == job.planned[Role]
AtRole == job.pc = "roles" /\ job.todo # <<>>

\* A WAV of the row, on disk, that hasn't followed a source to FLAC.
RoleHasWav ==
    /\ OnDisk(job.planned, Role) /\ IsWav(RoleWav)
    /\ Role \in Derived => job.next[Role] = RoleWav

RoleDrops == Role \in Derived /\ disk[RoleWav] = "own" /\ Regenerates(job.next, Role)
RoleConverts == RoleHasWav /\ ~RoleDrops /\ disk[RoleWav] = "own"

\* Nothing to do, or a WAV that stays one.
SkipRole ==
    /\ AtRole
    /\ RoleHasWav => ~RoleDrops /\ disk[RoleWav] # "own"
    /\ job' = [job EXCEPT !.todo = Tail(@)]
    /\ UNCHANGED <<layout, stored, flags, others, left>>

\* A slip a run must notice: a dropped mix is left with an empty path.
DropToEmptyPath ==
    /\ AtRole /\ RoleHasWav /\ RoleDrops
    /\ job' = [job EXCEPT !.todo = Tail(@), !.next[Role] = <<>>, !.del = @ \cup {RoleWav}]
    /\ UNCHANGED <<layout, stored, flags, others, left>>

\* A mix that rebuilds bit-identically isn't stored.
DropRole ==
    /\ AtRole /\ RoleHasWav /\ RoleDrops
    /\ job' = [job EXCEPT !.todo = Tail(@), !.next[Role] = NoPath, !.del = @ \cup {RoleWav}]
    /\ UNCHANGED <<layout, stored, flags, others, left>>

\* A mic-only capture's playback is the mic file: it follows its source.
Follows(r) ==
    \/ r = Role
    \/ Role \in Sources /\ r \in Derived /\ job.planned[r] = RoleWav

\* The FLAC is in place of the WAV.
Adopt ==
    LET flac == FlacTwin(RoleWav) IN
    job' = [job EXCEPT !.pc = "roles", !.todo = Tail(@),
                !.del = @ \cup {RoleWav}, !.made = @ \cup {flac},
                !.next = [r \in Roles |-> IF Follows(r) THEN flac ELSE job.next[r]]]

\* A slip a run must notice: an earlier run's FLAC is taken unverified.
ReuseUnverified ==
    /\ AtRole /\ RoleConverts
    /\ disk[FlacTwin(RoleWav)] # "none"
    /\ Adopt
    /\ UNCHANGED <<layout, stored, flags, others, left>>

\* convert_one finds a FLAC of an earlier run: it verifies ...
ReuseFlac ==
    /\ AtRole /\ RoleConverts
    /\ disk[FlacTwin(RoleWav)] = "own"
    /\ Adopt
    /\ UNCHANGED <<layout, stored, flags, others, left>>

RemoveTwin ==
    /\ disk' = [disk EXCEPT ![FlacTwin(RoleWav)] = "none"]
    /\ UNCHANGED <<layout, row, manifest, temps, meeting, flags, job, others>>

\* ... or it goes and is rebuilt, ...
RemoveBadFlac ==
    /\ AtRole /\ RoleConverts
    /\ disk[FlacTwin(RoleWav)] = "bad"
    /\ RemoveTwin /\ UNCHANGED left

\* ... as does one that couldn't be read.
RemoveUnreadFlac ==
    /\ AtRole /\ RoleConverts
    /\ disk[FlacTwin(RoleWav)] = "own" /\ Spend("faults")
    /\ RemoveTwin

\* The WAV is opened first ...
OpenWav ==
    /\ AtRole /\ RoleConverts
    /\ disk[FlacTwin(RoleWav)] = "none"
    /\ Goto("encode")
    /\ UNCHANGED <<layout, stored, flags, others, left>>

Encoding == job.pc = "encode" /\ job.todo # <<>>

\* ... and the temp file made next, whatever became of the WAV since, if the
\* folder is still there.
EncodeTemp ==
    /\ Encoding /\ MeetingExists /\ Role \notin temps
    /\ temps' = temps \cup {Role}
    /\ UNCHANGED <<layout, row, manifest, disk, meeting, flags, job, others, left>>

\* Verified against the WAV, dated like it, renamed into place.
Rename ==
    /\ Encoding /\ RoleConverts /\ Role \in temps
    /\ temps' = temps \ {Role}
    /\ disk' = [disk EXCEPT ![FlacTwin(RoleWav)] = "own"]
    /\ Adopt
    /\ UNCHANGED <<layout, row, manifest, meeting, flags, others, left>>

\* The WAV or the folder went meanwhile.
FilesGone ==
    /\ Encoding /\ ~RoleConverts
    /\ Finish("failed")
    /\ temps' = {}
    /\ UNCHANGED <<layout, row, manifest, disk, meeting, flags, others, left>>

\* WAVs an earlier commit left behind go too, each proven again; the others stay.
FindLeftovers ==
    /\ job.pc = "roles" /\ job.todo = <<>>
    /\ LET found == {r \in Roles : LeftoverCandidate(job.next, r) /\ Wav(r) \notin job.del
                                     /\ r \notin unproven}
            proven == {r \in found : Proven(job.next, r)}
       IN  job' = [job EXCEPT !.pc = "commit", !.del = @ \cup {Wav(r) : r \in proven},
                              !.doubt = found \ proven]
    /\ UNCHANGED <<layout, stored, flags, others, left>>

\* A checkpoint said stop: the step in flight is abandoned.
Interrupted ==
    /\ job.pc \in {"roles", "encode"} /\ (Cancelled \/ MustYield)
    /\ Finish("stopped")
    /\ temps' = {}
    /\ UNCHANGED <<layout, row, manifest, disk, meeting, flags, others, left>>

\* No room, an I/O error while encoding or removing a FLAC, or a database error.
StepFails ==
    /\ \/ job.pc \in {"read", "encode", "commit"}
       \/ AtRole /\ RoleConverts /\ disk[FlacTwin(RoleWav)] = "bad"
    /\ Spend("faults")
    /\ Finish("failed")
    /\ temps' = {} \/ (job.pc = "read" /\ UNCHANGED temps)
    /\ UNCHANGED <<layout, row, manifest, disk, meeting, flags, others>>

\* Under the storage lock from here to the last delete.
CommitCheck ==
    /\ job.pc = "commit"
    /\ IF ~MeetingExists \/ AudioDeleted THEN Finish("gone")
       ELSE IF Blocked \/ row # job.planned THEN Finish("busy")
       ELSE job' = [job EXCEPT !.made = {},
                        !.pc = IF job.next # job.planned THEN "manifest" ELSE "delete"]
    /\ UNCHANGED <<layout, stored, flags, others, left>>

\* replace_meeting_recording: the manifest, then the row.
WriteManifest ==
    /\ job.pc = "manifest"
    /\ manifest' = job.next
    /\ Goto("row")
    /\ UNCHANGED <<layout, row, disk, temps, meeting, flags, others, left>>

WriteRow ==
    /\ job.pc = "row"
    /\ row' = job.next
    /\ Goto("delete")
    /\ UNCHANGED <<layout, manifest, disk, temps, meeting, flags, others, left>>

CommitFails ==
    /\ job.pc \in {"manifest", "row"}
    /\ Spend("faults")
    /\ Finish("failed")
    /\ UNCHANGED <<layout, stored, flags, others>>

DeleteWav ==
    /\ job.pc = "delete"
    /\ \E f \in job.del :
        /\ disk' = [disk EXCEPT ![f] = "none"]
        /\ job' = [job EXCEPT !.del = @ \ {f}]
    /\ UNCHANGED <<layout, row, manifest, temps, meeting, flags, others, left>>

\* A WAV that can't be deleted yet is left to a later pass.
DeleteFails ==
    /\ job.pc = "delete"
    /\ Spend("faults")
    /\ \E f \in job.del : job' = [job EXCEPT !.del = @ \ {f}]
    /\ UNCHANGED <<layout, stored, flags, others>>

Deleted ==
    /\ job.pc = "delete" /\ job.del = {}
    /\ Finish("ok")
    /\ UNCHANGED <<layout, stored, flags, others, left>>

\* After a hard failure, or when the audio went, the FLACs made go too.
Undo ==
    /\ job.pc = "undo"
    /\ disk' = IF job.result \in {"failed", "gone"}
               THEN [f \in Files |-> IF f \in job.made THEN "none" ELSE disk[f]]
               ELSE disk
    /\ Goto("release")
    /\ UNCHANGED <<layout, row, manifest, temps, meeting, flags, others, left>>

\* Give the folder back; a job stopped for the machine's sake tries again.
Release ==
    /\ job.pc = "release"
    /\ leased' = FALSE
    /\ unproven' = IF job.result = "ok" THEN unproven \cup job.doubt ELSE unproven
    /\ job' = [JobStart EXCEPT
                 !.pc = IF job.result = "stopped" /\ ~Cancelled THEN "wait" ELSE "idle"]
    /\ UNCHANGED <<layout, stored, cancel, halted, others, left>>

Job ==
    \/ PlanPass \/ EmptyPass \/ ClearCancels \/ MachineFree \/ GiveUpWaiting
    \/ CheckBeforeLease \/ Announce \/ ReadRow \/ SkipRole \/ DropRole \/ ReuseFlac
    \/ RemoveBadFlac \/ RemoveUnreadFlac \/ OpenWav \/ EncodeTemp \/ Rename
    \/ FilesGone \/ FindLeftovers
    \/ Interrupted \/ StepFails \/ CommitCheck \/ WriteManifest \/ WriteRow \/ CommitFails
    \/ DeleteWav \/ DeleteFails \/ Deleted \/ Undo \/ Release

-----------------------------------------------------------------------------
(* Everyone else.                                                          *)

\* A recording, another meeting's stage or a foreground AI request.
MachineBusy ==
    /\ ~busyElsewhere /\ Event("machine")
    /\ busyElsewhere' = TRUE
    /\ UNCHANGED <<layout, stored, flags, job, reader, player, sweep, purge, wipe>>

MachineIdle ==
    /\ busyElsewhere
    /\ busyElsewhere' = FALSE
    /\ UNCHANGED <<layout, stored, flags, job, reader, player, sweep, purge, wipe, left>>

\* A job row is written under the storage lock; a re-diarize starts with its claim.
ReaderAsks ==
    /\ reader.pc = "none" /\ meeting = "kept"
    /\ \/ /\ StorageFree /\ Event("transcribe")
          /\ reader' = [NoReader EXCEPT !.kind = "transcribe", !.pc = "queued"]
       \/ /\ Event("rediarize")
          /\ reader' = [NoReader EXCEPT !.kind = "rediarize", !.pc = "claimed"]
    /\ UNCHANGED <<layout, stored, flags, job, busyElsewhere, player, sweep, purge, wipe>>

\* The worker claims the stage of a queued job.
ReaderClaims ==
    /\ reader.pc = "queued"
    /\ reader' = [reader EXCEPT !.pc = "claimed"]
    /\ UNCHANGED <<layout, stored, flags, job, busyElsewhere, player, sweep, purge, wipe, left>>

\* The row is read once, under the storage lock; its files are read after.
ReaderLoads ==
    /\ reader.pc = "claimed" /\ StorageFree
    /\ reader' = IF MeetingExists
                 THEN [reader EXCEPT !.pc = "reading",
                                     !.files = {row[r] : r \in {q \in Roles : OnDisk(row, q)}}]
                 ELSE NoReader
    /\ UNCHANGED <<layout, stored, flags, job, busyElsewhere, player, sweep, purge, wipe, left>>

ReaderDone ==
    /\ reader.pc = "reading"
    /\ reader' = NoReader
    /\ UNCHANGED <<layout, stored, flags, job, busyElsewhere, player, sweep, purge, wipe, left>>

\* prepare_playback: recent_playback first, then a running job is cancelled ...
PlayAsked ==
    /\ player.pc = "none" /\ Event("play")
    /\ player' = [NoPlayer EXCEPT !.pc = "asked", !.recent = TRUE]
    /\ UNCHANGED <<layout, stored, flags, job, busyElsewhere, reader, sweep, purge, wipe>>

PlayCancels ==
    /\ player.pc = "asked"
    /\ cancel' = (cancel \/ leased)
    /\ player' = [player EXCEPT !.pc = "load"]
    /\ UNCHANGED <<layout, stored, leased, halted, unproven, job, busyElsewhere, reader,
                   sweep, purge, wipe, left>>

\* ... then the row is read under the storage lock ...
PlayLoads ==
    /\ player.pc = "load" /\ StorageFree
    /\ player' = IF MeetingExists /\ ~AudioDeleted
                 THEN [player EXCEPT !.pc = "plan", !.rec = row]
                 ELSE [player EXCEPT !.pc = "playing"]
    /\ UNCHANGED <<layout, stored, flags, job, busyElsewhere, reader, sweep, purge, wipe, left>>

\* playback_plan: the stored WAV the player streams, if it streams one.
StoredPlayback(rec) ==
    LET choice == IF OnDisk(rec, "playback") THEN "playback"
                  ELSE IF OnDisk(rec, "mixed") THEN "mixed"
                  ELSE IF OnDisk(rec, "mic") THEN "mic" ELSE "system"
        rebuilt == /\ ~OnDisk(rec, "playback") /\ IsStorageV2(rec)
                   /\ OnDisk(rec, "mic") /\ OnDisk(rec, "system")
    IN  IF rebuilt \/ ~OnDisk(rec, choice) \/ ~IsWav(rec[choice]) THEN NoPath ELSE rec[choice]

\* ... and the file is picked after the lock is given back.
PlayPicks ==
    /\ player.pc = "plan"
    /\ player' = [player EXCEPT !.pc = "playing", !.rec = NoRow,
                                !.file = StoredPlayback(player.rec)]
    /\ UNCHANGED <<layout, stored, flags, job, busyElsewhere, reader, sweep, purge, wipe, left>>

\* PLAYBACK_GRACE is over: the job promises the player nothing more.
GraceEnds ==
    /\ player.pc = "playing"
    /\ player' = NoPlayer
    /\ UNCHANGED <<layout, stored, flags, job, busyElsewhere, reader, sweep, purge, wipe, left>>

\* sweep_now reads pipeline_stage and `current` first ...
SweepLooks ==
    /\ sweep = "none" /\ Event("sweep")
    /\ sweep' = IF StageClaimed \/ leased THEN "none" ELSE "looked"
    /\ UNCHANGED <<layout, stored, flags, job, busyElsewhere, reader, player, purge, wipe>>

NothingOnDisk == [f \in Files |-> "none"]

\* A slip a run must notice: a lease taken since isn't noticed.
SweepableUnlessQueued == meeting \in {"kept", "aging"} /\ ~JobPending

Sweepable == meeting \in {"kept", "aging"} /\ ~JobPending /\ ~leased

\* ... and deletes the meeting's audio under the storage lock.  One file may be held open.
SweepDeletes ==
    /\ sweep = "looked" /\ StorageFree
    /\ sweep' = "none"
    /\ IF Sweepable
       THEN \/ /\ disk' = NothingOnDisk /\ temps' = {} /\ meeting' = "swept"
               /\ UNCHANGED left
            \/ /\ Spend("faults") /\ meeting' = "aging" /\ temps' = {}
               /\ \E f \in {g \in Files : disk[g] # "none"} :
                    disk' = [NothingOnDisk EXCEPT ![f] = disk[f]]
       ELSE UNCHANGED <<disk, temps, meeting, left>>
    /\ UNCHANGED <<layout, row, manifest, flags, job, busyElsewhere, reader, player, purge, wipe>>

\* delete_note, with no stage running: a queued transcription is cancelled, then
\* stop_meeting raises its flag ...
PurgeAsked ==
    /\ purge = "none" /\ MeetingExists /\ ~StageClaimed /\ Event("purge")
    /\ reader.pc = "queued" => StorageFree
    /\ purge' = "barrier"
    /\ cancel' = TRUE
    /\ reader' = NoReader
    /\ UNCHANGED <<layout, stored, leased, halted, unproven, job, busyElsewhere, player,
                   sweep, wipe>>

\* ... passes through the storage lock ...
PurgeBarrier ==
    /\ purge = "barrier" /\ StorageFree
    /\ purge' = "waiting"
    /\ UNCHANGED <<layout, stored, flags, job, busyElsewhere, reader, player, sweep, wipe, left>>

PurgeMeeting ==
    /\ meeting' = "gone" /\ row' = NoRow /\ manifest' = NoRow
    /\ disk' = NothingOnDisk /\ temps' = {}

\* ... and waits 15 s for the job; the meeting is purged either way.
Purge ==
    /\ purge = "waiting" /\ StorageFree
    /\ purge' = "none"
    /\ PurgeMeeting
    /\ reader' = IF reader.pc = "queued" THEN NoReader ELSE reader
    /\ UNCHANGED <<layout, flags, job, busyElsewhere, player, sweep, wipe, left>>

\* "Delete all my data", refused (busy_reason) while a meeting is transcribed or
\* queued; an AI request elsewhere doesn't refuse it.  halt raises its flag ...
WipeHalts ==
    /\ wipe = "none" /\ reader.pc = "none" /\ Event("wipe")
    /\ wipe' = "barrier"
    /\ halted' = TRUE
    /\ UNCHANGED <<layout, stored, leased, cancel, unproven, job, busyElsewhere, reader,
                   player, sweep, purge>>

\* A slip a run must notice: the storage lock isn't passed through.
WipeRushes ==
    /\ wipe = "barrier"
    /\ wipe' = "waiting"
    /\ UNCHANGED <<layout, stored, flags, job, busyElsewhere, reader, player, sweep, purge, left>>

WipeBarrier ==
    /\ wipe = "barrier" /\ StorageFree
    /\ wipe' = "waiting"
    /\ UNCHANGED <<layout, stored, flags, job, busyElsewhere, reader, player, sweep, purge, left>>

\* ... and waits for the job to let go.
WipeProceeds ==
    /\ wipe = "waiting" /\ ~leased
    /\ wipe' = "erasing"
    /\ UNCHANGED <<layout, stored, flags, job, busyElsewhere, reader, player, sweep, purge, left>>

\* The job didn't stop in time, or the erase is refused: the job is resumed.
WipeGivesUp ==
    /\ wipe \in {"waiting", "erasing"}
    /\ wipe = "waiting" => leased
    /\ wipe' = "none"
    /\ halted' = FALSE
    /\ UNCHANGED <<layout, stored, leased, cancel, unproven, job, busyElsewhere, reader,
                   player, sweep, purge, left>>

\* Erased: the app waits for its restart, the job halted.
WipeErases ==
    /\ wipe = "erasing" /\ StorageFree
    /\ wipe' = "erased"
    /\ PurgeMeeting
    /\ reader' = IF reader.pc = "queued" THEN NoReader ELSE reader
    /\ UNCHANGED <<layout, flags, job, busyElsewhere, player, sweep, purge, left>>

\* A title or date edit: refresh_recording_manifest writes the row's paths.
Edit ==
    /\ MeetingExists /\ StorageFree /\ Event("edit")
    /\ manifest' = row
    /\ UNCHANGED <<layout, row, disk, temps, meeting, flags, job, others>>

\* The process dies and starts again; a queued or running transcription is queued.
Restart ==
    /\ Spend("crashes")
    /\ leased' = FALSE /\ cancel' = FALSE /\ halted' = FALSE /\ unproven' = {}
    /\ job' = JobStart
    /\ busyElsewhere' = FALSE
    /\ reader' = IF JobPending /\ MeetingExists
                 THEN [reader EXCEPT !.pc = "queued", !.files = {}] ELSE NoReader
    /\ player' = NoPlayer
    /\ sweep' = "none" /\ purge' = "none" /\ wipe' = "none"
    /\ UNCHANGED <<layout, stored>>

Others ==
    \/ MachineIdle \/ ReaderClaims \/ ReaderLoads \/ ReaderDone
    \/ PlayCancels \/ PlayLoads \/ PlayPicks \/ GraceEnds \/ SweepDeletes
    \/ PurgeBarrier \/ Purge \/ WipeBarrier \/ WipeProceeds \/ WipeGivesUp \/ WipeErases

Arrivals ==
    \/ MachineBusy \/ ReaderAsks \/ PlayAsked \/ SweepLooks \/ PurgeAsked \/ WipeHalts
    \/ Edit \/ Restart

Next == Job \/ Others \/ Arrivals

Spec == Init /\ [][Next]_vars

\* Every step the job takes of its own accord, without a fault or a stop.
JobGoesOn ==
    \/ PlanPass \/ EmptyPass \/ ClearCancels \/ MachineFree \/ GiveUpWaiting
    \/ CheckBeforeLease \/ Announce \/ ReadRow \/ SkipRole \/ DropRole \/ ReuseFlac
    \/ RemoveBadFlac \/ OpenWav \/ EncodeTemp \/ Rename \/ FilesGone \/ FindLeftovers
    \/ CommitCheck \/ WriteManifest \/ WriteRow \/ DeleteWav \/ Deleted \/ Undo \/ Release

\* The job's thread never dies, and whoever has started finishes.
FairSpec == Spec /\ WF_vars(JobGoesOn) /\ WF_vars(Others)

-----------------------------------------------------------------------------
(* Properties.                                                             *)

JobPcs == {"idle", "clear", "wait", "lease", "read", "roles", "encode", "commit", "undo",
           "release"}
             \cup StorageHeld

JobType == [pc : JobPcs, todo : Seq(Roles), planned : Recording, next : Recording,
            del : SUBSET Files, made : SUBSET Files, doubt : SUBSET Roles,
            result : {"none", "ok", "busy", "stopped", "failed", "gone"}]

ReaderType == [kind : {"none", "transcribe", "rediarize"},
               pc : {"none", "queued", "claimed", "reading"},
               files : SUBSET (Files \cup {NoPath})]

PlayerType == [pc : {"none", "asked", "load", "plan", "playing"}, recent : BOOLEAN,
               rec : Recording, file : Files \cup {NoPath}]

\* Every variable stays within its type (the records of audio_store.rs): a path
\* is a file of the folder or none, whatever a commit or a restart left.
TypeOK ==
    /\ layout \in Layouts
    /\ row \in Recording /\ manifest \in Recording
    /\ disk \in Folder /\ temps \subseteq Roles
    /\ meeting \in {"kept", "aging", "swept", "gone"}
    /\ leased \in BOOLEAN /\ cancel \in BOOLEAN /\ halted \in BOOLEAN
    /\ unproven \subseteq Roles
    /\ job \in JobType
    /\ busyElsewhere \in BOOLEAN
    /\ reader \in ReaderType
    /\ player \in PlayerType
    /\ sweep \in {"none", "looked"} /\ purge \in {"none", "barrier", "waiting"}
    /\ wipe \in {"none", "barrier", "waiting", "erasing", "erased"}
    /\ left \in [events : Nat, faults : Nat, crashes : Nat]

\* What the row says of a role is there, or rebuilds from what it says of the sources.
Readable(r) ==
    \/ row[r] # NoPath /\ disk[row[r]] \in Audio
    \/ row[r] = NoPath /\ Regenerates(row, r)

\* Nothing is lost: through stops, failures, torn commits and restarts, every
\* channel and mix that was recorded can still be read from the row, until
\* retention or the user deletes it (compress_meeting, replace_meeting_recording).
AudioKept ==
    meeting = "kept" => \A r \in Roles :
        layout.row[r] # NoPath \/ r \in layout.regen => Readable(r)

\* A run that has loaded the row never has a file deleted or replaced under it
\* by the job: it claims its stage before it reads the row, and the job asks
\* for stages under the lock it deletes under (`blocked`, pipeline.rs).
ReadersKeepFiles ==
    meeting = "kept" /\ reader.pc = "reading" => \A f \in reader.files : disk[f] \in Audio

\* The player keeps the WAV it was given for as long as PLAYBACK_GRACE says,
\* though prepare_playback picks it after giving the storage lock back.
PlayerKeepsFile ==
    meeting = "kept" /\ player.file # NoPath => disk[player.file] \in Audio

\* While "Delete all my data" erases, the job holds no folder (halt and
\* pass_lease_barrier: the lease is taken and announced in one hold).
HaltMeansIdle == wipe = "erasing" => ~leased

\* Audio that retention, a purge or a wipe deleted never comes back, nor does
\* a temp file of it, whatever the job was doing.
NothingComesBack ==
    meeting \in {"swept", "gone"} => disk = NothingOnDisk /\ temps = {}

\* The job deletes no WAV that isn't proven to be the stored audio: one in
\* another layout, or one that doesn't match, outlives every pass.
OnlyCopiesGo ==
    [][meeting' = "kept" =>
        \A f \in Files : disk[f] \in {"odd", "other"} => disk'[f] = disk[f]]_vars

\* Once nothing disturbs it any more, a kept meeting ends up stored: no WAV of
\* the row left to convert, no leftover left to look at.
EventuallyStored == <>[](meeting = "kept" => ~NeedsWork(row))

\* "Claimed ... before the recording is read, so background work (compression,
\* retention) sees the meeting as busy from here on" (pipeline.rs).
SweepSparesReaders ==
    reader.pc = "reading" /\ meeting # "gone" => \A f \in reader.files : disk[f] # "none"
=============================================================================
