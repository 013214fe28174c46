# Fly on the Wall: formal models

TLA+ models of the parts of Fly on the Wall in which several actors work on the same
state: the transcription worker, the AI-pass worker, the job that compresses recordings, the
user's commands, re-analysis, the player, retention, "Delete all my data", quits, crashes and
restarts; the library on disk with its self-heal after a crash or a lost database; and the
connectors, whose servers change their tools while the user and the model use them. Small
instances are checked with TLC; every safety property the passing runs check, the action
properties and both refinements among them, is also proved with TLAPS for every value of the
constants. Liveness is checked with TLC alone.

Paths below are relative to the repository (`src/` in `PROJECT.json`).

    tlc -workers 2 -config scheduler_safety.cfg Scheduler     # model-check a run
    tlapm AiPassesProofs.tla                                  # check the proofs of a module

`PROJECT.json` lists the runs, the mutated definition each property is known to catch, the
source lines each definition stands for, the hazards of the code and the theorems.

## 1. The system

The app is one process: a Tauri backend (`src-tauri`) over a SQLite library, with a React
front end that only calls commands. What makes it concurrent is in the backend: the main
thread runs the synchronous commands one after another, asynchronous commands run on the
tokio runtime, two workers and the compression thread loop for ever, and captures and exports use threads of their own.
They share `AppState` (one mutex per field) and the database (one mutex).

| Component | State it keeps | Operations | What is hard | What makes it correct |
|---|---|---|---|---|
| AI-pass queue `ai_queue.rs` | running, pending, held passes, halted | push, next, drop of the running pass, remove, cancel, halt, resume, snapshot | halt and resume around a pass that ends or is asked for again | one entry per meeting, no pass lost |
| Scheduler and pipeline `scheduler.rs`, `pipeline.rs`, `asr_commands.rs` | per-meeting guard `pipeline_stage`, `cancel_requests`, saved queue row `ai.pending_passes` | two worker loops, enqueue, cancel, retry, recover, re-analysis | look and claim under different locks, cancel against pickup, crash between any two steps | one pipeline per meeting, no stuck job or marker, bounded retries, saved row = queue |
| Job table `fly-storage/jobs.rs` | one row per meeting: status, attempts, updated_at | enqueue, next, mark, requeue, reset | rows deleted under a run | a job ends; attempts stay bounded |
| Library commands `commands.rs` | notes, meetings | delete, restore, move, cancel | deletion of what a worker is busy with | no orphan meeting |
| Privacy `privacy.rs` | wipe marker, retention settings | wipe, retention sweep, keep local | a wipe refused, failed or interrupted | all erased, or nothing and the queue goes on |
| Import `import_commands.rs` | staging directory, manifest | stage, convert, cancel, recover | a crash between copy and manifest | no file lost, none kept for ever |
| App shell `lib.rs`, `startup.rs`, `state.rs` | AppState, startup phase | start, exit handler | exit before the state exists | the queue saved on quit |
| Recording `recording.rs`, `live.rs` | the active capture, sinks, gap list | start, pause, stop, salvage | device loss, crash while writing | no sample recorded and lost silently |
| Recording storage `audio_store.rs`, `video_store.rs`, `fly-storage/recording_store.rs` | recordings in two formats, manifests | compress, verify, swap, delete | a crash between swap and delete | one complete copy at all times |
| Storage `fly-storage` | the library database and its files | CRUD, search, recovery, atomic writes | recovery after a damaged start | what was committed is read back |
| Backups `backups.rs`, `fly-storage/backup.rs` | backup directories | copy, verify, prune | an upgrade that fails | a verified copy before every upgrade |
| LLM features `llm_commands.rs`, `extraction.rs` | transcript variants, insights | enhance, ask, polish, extract | saved under a newer transcript | output belongs to the transcript shown |
| Consent and settings `commands.rs`, `llm_commands.rs` | consent per provider | record, revoke, build_provider | a revoke under a running request | nothing leaves without consent |
| Connectors `connectors.rs`, `fly-mcp-client` | approvals, pins, sessions | call, decide, pin | a late decision, a changed tool | only approved, unchanged tools run |
| Ask `fly-ask`, providers `fly-llm` | one turn's evidence | tool loop, citations | bounded loop, made-up citations | every citation resolves |
| Speech `fly-asr` | batch checkpoints | run, checkpoint, resume | resume after a cancel | no batch twice, none skipped |
| Core `fly-core` | none | align, collapse loops, stitch seams, re-map speakers | pure, boundary cases | agrees with a reference definition |
| Search `embeddings.rs`, `fly-storage/hybrid.rs` | index, dirty marks | index, re-index | an edit under the indexer | every passage ends indexed |
| Models, GPU, Ollama `models.rs`, `gpu.rs`, `ollama.rs` | artifacts, child process | download, verify, swap, spawn | partial downloads | only verified files are used |
| Audio, diarization, context, MCP server, calendars, screen capture, secrets, updater, front end, evals | see `PROJECT.json` | | device I/O, inference, read-only queries, network | not modelled, the reasons are in `PROJECT.json` |

How they interact. `enqueue` writes a job row; the transcription worker picks it up, stops
an AI pass of the same meeting, marks the job running, claims the meeting's guard, runs the
engines (which poll `cancel_requests`), saves the transcript, releases the guard and queues
an AI pass. The AI worker takes one pass at a time, marks the meeting "polishing", reads the
transcript, calls the model, saves the cleaned variant and extracts insights. A capture in
progress stops both from starting anything. Deleting a note cancels its transcription and
its pass and purges the meeting, unless somebody is busy with it: then that somebody must
purge it. The wipe halts the queue and the compression job, waits, erases, and resumes them
if it fails. The compression job takes one meeting at a time: it leases its folder, encodes
and verifies a FLAC of each WAV beside it, and under one hold of the storage lock checks that
nobody needs the meeting, writes the manifest and the row and deletes the WAVs. Whoever reads
a meeting's audio claims the guard first; the player leaves its mark in `recent_playback`; the
retention sweep and the purge delete the folder's files under the same lock.

A recording that stops leaves three things in this order: the note's mirror and the manifest in
its folder, and the row that names the folder. Later edits, moves and Keep local choices write
the rows first and then the files, as far as they can. At every launch, self-heal goes through
the folders and gives back to the database what it lost, and the backfill brings the files up to
the rows; which of the two is right is decided field by field.

A connector's tool is offered to an Ask turn when its pin allows it. A call of the model goes:
connect, list the tools again, reconcile the listing with the pin under the registry's lock,
judge, show a card unless the tool is on Always allow, check once more, send. Settings lists the
tools, too, and changes pins and configuration; its dialogs and those of the cards wait for each
other, and what they asked may have changed when they are answered.

## 2. Modules and how they stand for the code

| Module | Models |
|---|---|
| `AiQueue` | every method of `AiQueue`, as an operator from queue to queue (one mutex, so each is atomic) |
| `AiPasses` | the queue with its saved row, its worker, the threads that use it, recovery, the wipe, quit, crash and restart |
| `TranscriptionJobs` | every statement of `jobs.rs` on the table, as operators |
| `TranscriptionRequests` | what the app promises about a request to transcribe; `Scheduler` implements it |
| `Scheduler` | both workers, the guard, cancel requests, commands, re-analysis, captures and restart, over `AiQueue` and `TranscriptionJobs` |
| `AudioStore` | the compression job of `audio_store.rs` on one meeting's folder, against readers, the player, the sweep, a purge, the wipe and crashes |
| `KeptRecordings` | what the app promises about a finished recording; `Library` implements it |
| `Library` | notes, folders, meetings, their folders with manifest and mirror; recording, import, edits, moves, deletes, self-heal and backfill, crashes, a lost database, an older backup |
| `Connectors` | the connector hub with its registry, pins, cards and Settings commands, an Ask turn and a server that changes its tool |
| `MCAiPasses` | the symmetry set for TLC |
| `MCAudioStore` | the five folders the job is checked on |
| `MCLibrary`, `MCConnectors` | the meetings of a note; what the servers list |
| `AiQueueProofs`, `AiPassesProofs`, `CrashLoopProofs`, `SchedulerProofs`, `AudioStoreProofs`, `AudioKeptProofs`, `LibraryProofs`, `ConnectorsProofs` | theorems |

A step is what the code does under one lock. Where the code drops a lock and takes another
(look at the guard, then claim it; push, then save) there are two steps, and anyone may act
in between. In `Scheduler` each actor is a record with a program counter: `tw` the
transcription worker (`tick`, `handle_tick`, `run_inner`, and `recover` before the loop),
`aw` the AI worker (`run_next_ai_job`, `ai_pass`, `run_polish`), `ut` the main thread
(`enqueue`, `cancel`, `delete_note_with`), `rd` a re-analysis. `tw.attempts` is what the
worker read when it picked the job up, `aw.read` and `rd.read` what those read of the
transcript: "stale" once a run saved a newer one. `TranscriptionRequests` sees of all this one
request per meeting (its row's status), the tries behind it and whether there is a transcript.
In `AiPasses`, `boot`, `wipe`, `worker`
and `thread` play that role.

Abstractions of `AiPasses`
- What a pass does is left out: it runs and ends, or it is cancelled. The guard that may
  make `queue_ai_job` return early is in `Scheduler`; here a recovered job may be dropped at
  any time instead (`TakeJob`), and the ways a wipe is refused (`busy_reason`) come to one
  choice between erasing and resuming.
- A refused wipe resumes the queue twice in the code; the second does nothing and is left out.
- The two locks of `snapshot_for_quit` are one step. A quit may fail to save (the database
  stays busy); other database writes succeed.
- The initial state is a first launch: recovery found no saved queue. Later starts go
  through the whole of `recover_ai_passes`.

Abstractions of `Scheduler`
- A note has one meeting. The contents of extraction, the lists of passes skipped for missing
  consent or cut short (`consent_skipped`, `ai_incomplete`) with the re-run that empties
  them, and the undo of a re-analysis are left out.
- The saved row of the queue is `AiPasses`' subject. A restart brings back any subset of the
  unfinished passes.
- Synchronous commands are serialised, as the main thread does it. Storage writes succeed.
- An engine that fails or hangs is a fault (`MaxFaults`), reported as transient or permanent.
- Re-analysis writes back the transcript it read. A transcript is "none", "current" or "old":
  an older one written over a newer.

`AudioStore` in the code's terms
- `job` is the job's thread (`run_pass`, `compress_one_now`, `compress_meeting_inner`,
  `convert_one`); its `todo` are the roles still to do in the order of `ROLES`, `planned`,
  `next`, `del`, `made`, `doubt` are the locals `planned`, `next`, `to_delete` with `leftovers`,
  `uncommitted` and `out.unproven`. While `job.pc` is in `StorageHeld` the thread holds the
  storage lock; every action of another actor that takes the lock has the guard `StorageFree`.
- `leased` is the lease and `StoreState.current`, which change together under the lock;
  `cancel`, `halted`, `unproven` and `player.recent` are the fields of `StoreState`.
- `row` and `manifest` give each role its file or none; `disk` says what is known of a file's
  bytes: the role's audio in the layout that is converted ("own") or in one that is not
  ("odd"), something else ("other"), a damaged FLAC ("bad"). What the codec computes comes to
  these: a FLAC verifies if it is "own", a mix rebuilds if it is in `layout.regen` and the
  sources are all there.
- `reader` is a transcription or a re-analysis as far as it holds the guard and the files,
  `player` is `prepare_playback` up to the end of the thirty minutes (`PLAYBACK_GRACE`) the
  job keeps away, `sweep`, `purge` and `wipe` are the three ways audio is deleted.

Abstractions of `AudioStore`
- One meeting; other meetings are `busyElsewhere`. The video job, which shares the lease, and
  the renaming of folders are left out, so a lease is never refused.
- Verifying a FLAC, comparing a mix and looking at all leftovers are one step each. Their
  inputs are files only the job and whoever deletes the folder change. Encoding is two steps,
  the WAV opened and the temp file made, and the rename is one with the verification before it.
- The purge and the wipe remove the folder in one step; the sweep may leave one file behind.
- A manifest that cannot be written, a row that cannot be, a file that cannot be read, encoded
  or deleted, and a full disk are faults (`MaxFaults`).

`Library` in the code's terms
- `db` is what the rows say of folders, notes and meetings; `EffLocal` is `meeting_keep_local`.
  A meeting is `attached` when its row names a folder, `staged` while an import's copies wait.
- `dirs`, `manifest` and `mirror` are `recordings/<meeting>/`, its `recording.manifest.json` and
  `note.json`. A flag of a manifest may be "unsaid", as the `Option`s of the code are.
- `rec` is `state.recording`; `stopping` the sessions `stop_recording` has taken and is finalising
  outside any lock; `deleting` and `purging` the two stages of `delete_note`.
- `asked`, `missed`, `owed` and `told` are history the properties need; what the program does
  never depends on them. `missed` holds the manifests and mirrors that need not agree with the
  rows: their write failed, nobody made it, or the backfill found the mirror newer than the row
  and left it (`recovery.rs:496`). `owed` holds the meetings that were kept local, with a manifest
  that said so, when the database was lost; a purge ends the debt. `missed` holds the rows, too,
  that a heal gave up on with an error. `told` holds, for each note, the texts that its folders with
  a manifest had when the database was lost, whatever state their mirrors were in: no text, where a
  folder has no mirror.
- `KeptRecordings` knows a recording's life only: none, recording, held by the database, kept by
  its folder, stranded, gone. The refinement maps `life` to `Life(m)`.

Abstractions of `Library`
- A step is one hold of the storage lock. Self-heal holds it throughout, but takes one step per
  folder, because the process may die between two of them. Each statement of `heal_one` is a
  transaction of its own, and `HealPrefixes` are the rows after each: `CrashInHeal` is a death
  between two of them, `HealFails` an error, which self-heal logs and then goes on
  (`recovery.rs:226`). Its `?` before the first write (a manifest that cannot be read, ids that are
  not plain) is the one that leaves everything as it was; a failed write of a mirror is in the sync.
- `attach` and the flag after it are two statements, the INSERT and the note's link to the meeting,
  which nothing here reads, are one. A chain of folders is one folder. Paths, renames, the parking of files under `_unlinked`, the
  restored `transcript.json`, titles, attendees and dates are left out.
- The clock of `updated_at` does not go back. `backups/` is its newest copy; a copy that could
  not be put back within the bounds any more is not kept.
- What the workers do with a meeting that is deleted is in `AiPasses` and `Scheduler`.

`Connectors` in the code's terms
- `config`, `on`, `baseline` and `pin` are the registry's entry; a definition of the tool stands
  for its hash. A pin is `ToolPin`, with `pending` and `was` for the change that awaits a review.
- `turn` is a `ConnectorTurn` with the call it is working on, `sync` a listing made by Settings,
  both with the place (`to`) and the listing (`listed`) they hold between two awaits.
- `loosening`, `reviews`, `edits`, `switching` and `sending` are the native dialogs that wait;
  each remembers what the code captured before it waited. `dropping` is a command that has
  saved its change and has not yet dropped the connection.
- `reviewed`, `word`, `granted`, `ran` and `confirmed` are history: what the user said. `crossed`
  marks a call between whose reconcile and judgement another listing was applied.

Abstractions of `Connectors`
- One connector with one tool, one turn, one listing from Settings at a time. The turn is an Ask turn
  or, with `force_approval`, the one call of Settings › Try (`test_connector_tool`).
- What was granted is the definition pinned when Always allow is said yes to, as the code writes it.
  The dialog names the tool only, and may have been opened for another definition of it.
- Secrets and sign-in, definitions with problems, the validation of arguments, malformed
  listings, a registry that cannot be saved and the call log are left out.
- Commands that still have a connection to drop run one at a time.

The slips next to some definitions (`PushAgain`, `RetriesOnceMore`, ...) are not part of the
models: each is the mistake a property is known to catch.

## 3. Runs

| Run | Bounds | States | Shows |
|---|---|---|---|
| `ai_passes_restart` | 2 meetings, 1 thread, 2 calls, 3 crashes, 1 quit, 1 capture, MAX_PASS_ATTEMPTS 2 | 286 k | the saved row is the queue, a pass that kills the app stops coming back, every saved pass leaves the row |
| `ai_passes_wipe` | 2 meetings, 2 threads, 3 calls of two kinds, 1 wipe, 1 quit | 1.05 M | the queue keeps its shape and no pass is lost over a wipe that works, is refused or fails |
| `scheduler_safety` | 2 meetings, 2 commands of any kind, 2 faults, 1 capture | 1.6 M | no running job and no busy marker without an owner, bounded retries, requests to transcribe as `TranscriptionRequests` promises |
| `scheduler_ends` | 1 meeting, 2 commands, 1 fault, 1 capture, 1 restart | 280 k | queued jobs end; a note deleted under a run or a pass has its meeting purged |
| `audio_store` | 5 folders, 2 disturbances of 8 kinds, 1 fault, 1 crash | 720 k | no audio is lost, nobody loses a file in use, only proven copies go, nothing deleted comes back, the wipe never meets the job, and the folder ends up stored |
| `library` | 2 meetings of one note, 1 folder, 1 change, 3 troubles (failed writes and heals, ends of the process, losses) | 3.1 M | the library keeps what `KeptRecordings` promises; Keep local survives a lost database, and a note comes back with a text one of its folders had; self-heal attaches every folder it does not fail on and the backfill takes nothing back |
| `connectors` | 2 places, 3 definitions of the tool (2 reads, 1 write), 2 calls or a Try, 2 events | 920 k | no permission is wider than the user's word, only reviewed definitions run, cards and dialogs answer for their own call only, a turn that heard something or holds local notes sends nothing, calls end |
| `restart_loses_pass` | 2 meetings, 2 crashes | violation | finding 1 |
| `stale_cleanup` | 1 meeting, 2 requests to transcribe | violation | finding 2 |
| `overlapping_pipelines` | 1 meeting, a request and a re-analysis | violation | finding 3 |
| `orphaned_meeting` | 1 meeting, a delete and a re-analysis, 1 fault | violation | finding 4 |
| `sweep_under_reader` | the 5 folders, a re-analysis and a sweep | violation | finding 5 |

`audio_store` sets `CHECK_DEADLOCK FALSE`: when the bounds are used up and there is no work
left, the job sleeps until the next half hour and nothing else happens. The runs of
`Library` and `Connectors` set it, too: a user who has used up the changes and troubles need do nothing more.

Why the bounds are enough. Two meetings give the order of the queue, "the running pass is
another meeting's" and "one of two saved passes is lost"; no step looks at more than two
entries. Two threads and the worker give every pair of savers. MAX_ATTEMPTS is 3 and
MAX_PASS_ATTEMPTS is 2 in the code; the runs use 2, which still has a first try, a retry and
a give-up. Three crashes with two allowed attempts let a pass cross its limit. Two commands
are enough for every pair of commands to race each other and both workers; two faults
exhaust the retries of a job. Liveness is checked for one meeting where two would not fit;
the meetings meet only in the order of the queue and the busy worker. Re-analysis is left
out of `scheduler_ends`, because finding 4 is its liveness. The five folders of `audio_store`
are the layouts capture and import write, one cut short by a crash (a damaged FLAC, a WAV
never finalised, a mix that does not rebuild) and one an earlier commit left WAVs in, one of
them not the stored audio. Two disturbances give every pair of the actors around the job (a
reader and a sweep, a play request and a purge, a wipe and a re-analysis); a fault and a crash
together give a torn commit followed by a restart. Two meetings of one note are what the hazards
of `library` need: folders of one note overwrite each other's mirror and inherit each other's Keep
local. Three troubles give a failed write, a lost database and a failure or a crash of the heal that follows,
or a backup (counted as the restart and the restore) after one of them; an instance with two changes
and a folder that is absent at first was explored as well (3.8 M states). The
`connectors` run has what each of its races takes: a change of the server and a command, or two
of one kind, around a turn of two calls (a dialog left over from the first call and the card of
the second); `Served` starts from a connector listed before with other tools at the new place.
Events count what happens outside the calls: changes of the servers, commands, connections
that close, a local note read, listings after the first.

Fairness. Both workers are weakly fair: they are tokio tasks on a live runtime, every pass
is timed (`POLISH_TIMEOUT`, the batch limits of extraction), and a run that hangs is a
fault. A command, a re-analysis, a wipe or an exit, once begun, goes on to its end. Nothing
is assumed of the user: no command need be given and a capture may last for ever, so
liveness is stated for behaviours in which captures end (`CapturesEnd`). Crashes are never
required. The compression thread is weakly fair (`JobGoesOn`: it never ends, and it wakes at
least every half hour), as are those around it once they have begun (`Others`): a reader ends,
the player's grace expires, the machine is free again some time. In `Connectors` the steps of
a call are weakly fair (`TurnSteps`): the executor polls it, connecting, listing and calling have
timeouts, and a card nobody answers is declined after `DECISION_TIMEOUT`; no fairness is asked
of the user, the servers or Settings. `Library` states no liveness.

## 4. Proofs

Proved by `tlapm`, for every set of meetings and threads and every value of the bounds:

- `TypeCorrect`: `Spec => []TypeOK` of `AiPasses`.
- `QueueKeepsShape`: `Spec => []QueueShape`. The inductive part is that pending entries are
  of distinct meetings, that passes are held only under a halt and never beside pending
  ones, and that the places of the worker and the wipe agree with the queue's `running`
  and `halted`.
- `RowIsTheQueue`: `Spec => []RowMatchesQueue`. Outside a change and its save the saved row
  is the snapshot of the queue. Every step that changes the snapshot leaves its actor in
  `Saving`; the one change without a save is the halt, and `HaltKeepsSnapshot`
  (`AiQueueProofs`) shows that it does not change the snapshot: what a halt holds is what it
  took out, the running pass with its attempt given back.
- `NoPassIsLost`: `Spec => PassesLeaveOnlyWhenDone`. The lemmas `PushKeeps`, `StartKeeps`,
  `HaltKeeps`, ... of `AiQueueProofs` say of each method which meetings stay in the queue.
  That a meeting with several entries has a first one needs a least number (`LeastOne`): it is
  taken with `WFMin` over the naturals, which asks for no induction. `QueueShape` is needed where a
  pass starts: the place of the running pass must be free.
- `CrashLoopsEnd` (`CrashLoopProofs`): `Spec => []CrashLoopEnds`. The bound alone is not
  inductive. The strengthening, `CountsCoverDeaths`, says that wherever a pass of a meeting
  is kept (the queue, the row, recovery's hands) its attempts are at least the crashes
  counted against it, and one more than that, in the row too, while the pass runs and until
  a quit gives the start back.
  `PersistStart`, before the pass, is what makes the second part true, and the filter of
  recovery what turns it into the bound.

- `SchedulerTypes` (`SchedulerProofs`): `Spec => []TypeOK` of `Scheduler`.
- `RunningJobsAreOwned`, `TriesAreBounded`: `RunningHasOwner` and `RetriesBounded`, together with
  what makes them inductive (`JobInv`): the worker writes "running" and the attempts to a row it
  picked some steps ago, so what it picked is still queued or gone until then (`PickedWaits`) and
  what it counted leaves a try (`TriesLeft`); and `reset_running` puts back one row, so there is
  never a second one that runs (`OneRuns`).
- `MarkersAreOwned`: `MarkerHasOwner` is inductive as it stands. Its owner is a place of a worker,
  and each step either hands the marker on with the place or takes it down.
- `RequestsAreKept`: `Spec => RefinesRequests`. Each write of a row is one step of
  `TranscriptionRequests` (`RowTurnMaps`), and which one follows from `RequestInv`: while the
  worker is at work its row is open or gone (`AtWorkIsOpen`), its count is at least the row's
  (`ChargedEnough`, since anyone else can only start a row at 0), and the transcript a run saved is
  there until a purge takes it with the row; no row comes back to a purged meeting
  (`SavedIsThere`). `DoneHasTranscript` follows from the refinement: a job that is done has a
  transcript.

- `StateKeepsShape` (`AudioStoreProofs`): `Spec => []TypeOK` of `AudioStore`.
- `HaltLeavesJobIdle`: `Spec => []HaltMeansIdle`. It needs two facts more to be inductive
  (`HaltInv`): the flag is up from `WipeHalts` until the wipe gives up, and once the wipe has
  been through the storage lock the job is not between its check and its announcement. The
  lock gives the second, the check of `Blocked` keeps it.
- `DeletedStaysDeleted`: `Spec => []NothingComesBack`. The strengthening (`GoneInv`): inside a
  folder the job has announced its lease, and in a folder swept by retention it is not inside
  nor about to be. `EmptyStaysEmpty` then shows that no step of the job makes a file in an
  empty folder; after a purge the job may still be inside, but there is no folder.

- `NoAudioIsLost`, `ReadersAreSpared`, `PlayersAreSpared` (`AudioKeptProofs`): `AudioKept`,
  `ReadersKeepFiles`, `PlayerKeepsFile`. `KeptInv` says that the row is whole (`RowIsWhole`: what it
  names is audio, what it leaves out rebuilds from sources that are there); that so is the row the
  job means to write, which names none of the WAVs to be deleted, and that the row is the planned
  one until it is written and the next one after that (`PlanIsWhole`); that an undo would delete
  nothing the row names (`MadeIsNew`); and that sources are converted before the mixes that may be
  their file (`RolesInOrder`). A FLAC the job made stands for its own WAV. A reader's files are kept
  because it claims its stage before it loads the row and the job asks for stages under the lock it
  deletes under; the player's because it leaves its mark under the lock it loads the row under.
- `OnlyProvenCopiesGo`: `Spec => OnlyCopiesGo`, from the same invariant.

- `LibraryTypes` (`LibraryProofs`): `Spec => []TypeOK` of `Library`, with `Tidy`: a recording under
  way has a folder and no file yet, files are in folders, folders of meetings that were born, and
  what a heal does not look at any more is attached, or the heal failed on it.
- `LibraryKeepsRecordings`: `Spec => RefinesKept`. `Tidy` is all it needs: each action is a turn, an
  ask or a delete of `KeptRecordings`, and a lost database only moves "held" to "stranded".
- `HealReachesAll`, `BackfillAdds`: the action properties `HealAttachesAll`, `BackfillOnlyAdds`.
  For the first, the folders this heal failed on are known until the next begins.
- `KeptLocalSurvivesLoss`: `LocalSurvivesLoss`, from `OwedKept`: what is owed says kept local in
  the rows or, while it has none, does not deny it in the manifest; the heal of a folder can then
  only give it back. `ManifestsSayKeptLocal`: `ManifestAtLeastAsLocal`, from `SaysLocalNow`.
- `MirrorsKeepUp`: `MirrorsCurrent`. It needs `Dates`: a date of a note stands for one text, in the
  database, its backup and the mirrors alike, and texts are not younger than their dates.
- `TextsSurviveLoss`: `TextSurvivesLoss`, from `Texts`. While a note is lost, what any of its
  folders with a manifest would give it (`Text`) is one of the texts told; once it is back, its own
  text is one of those or newer than all. So it does not matter which folder is healed first, which
  heals fail and what the sync writes over what: nobody brings in a third text. It needs
  `NotesAreBorn`, so that no new note takes the id of a lost one. That the text is the newest of
  those told is not true (section 5).

- `ConnectorTypes`, `NothingWidensTrust`, `ReviewedBeforeUse`, `AutomaticNeedsGrant`,
  `OwnCardAnswered`, `SealedTurnIsSilent` (`ConnectorsProofs`): `TypeOK`, `NeverAboveWord`,
  `OnlyReviewedRuns`, `AutomaticAsGranted`, `UserCallsConfirmed` and `NoCallAfterResult` of
  `Connectors`, whatever the places, definitions, budget and number of events. The inductive
  invariant has a half about the registry and one about the turn. `RegistryInv` says what shape a pin has
  (a pending change blocks the tool and remembers its permission, nothing else does), that neither
  permission is above the user's word, and that a definition the user never accepted is marked
  unreviewed; the properties alone are not inductive, because a listing blocks a tool and a later
  one restores it. `TurnInv` says that until its card the call's listing is the one the pin tells
  of, unless it was crossed, and is a reviewed one from then on (`Seen`), that a call under way is
  numbered and its turn not sealed (`Counted`), and that a run on the user's word was answered for
  this call (`Answered`). The last four theorems then follow from the one step that sends.

The proofs rest on the assumptions named in the modules, which TLC evaluates, and on nothing else:
- bounds are natural numbers, MAX_ATTEMPTS and MAX_PASS_ATTEMPTS are positive, the kinds, commands
  and events asked for are such, reads are definitions and `Nothing` is none;
- there is a meeting (`SomeMeetingAssumption`: the places of the actors name one);
- a folder the compression job finds is as capture and import write it (`LayoutsAssumption`): the
  row names files that are there; each role names its own WAV or FLAC, or a mix that of its source,
  as in a capture of the microphone alone (`PathsAsWritten`, `cpal_backend.rs:565-588`); a FLAC
  at a role's place is that role's or damaged; a mix the row leaves out and that rebuilds was left
  out by a job before, so the recording is in storage v2;
- meetings are numbered, as their ids are given out in the order they start (`NextId`), and are
  finitely many, notes are not meetings, and no folder is the one of the unfiled (`LibraryAssumption`).

`AiQueueProofs` holds the lemmas on each operator: typing, distinctness, what it does to the
set of unfinished meetings, to who is in the queue and to the snapshot.

What the proofs found. `MirrorsCurrent` held on the instance and could not be proved: with one more
trouble than the run has, an older backup is put back, an old text moved (which dates it anew), the
write of its mirror fails and the database is lost; the heal takes the mirror with the newer date,
and the backfill leaves a second mirror of the note that is dated later still (`recovery.rs:496`). The
code says it leaves such a mirror on purpose, and so `missed` now has it. `owed` now ends with a purge.

Only model-checked: liveness (`SavedQueueDrains`, `QueuedJobsEnd`, `DeletedUnderPassIsPurged`,
`DeletedUnderRunIsPurged`, `EventuallyStored`, `CallsEnd`), which is out of the prover's reach because
it needs fairness and ENABLED, and the five properties of section 5, which the code violates.

## 5. Findings

Places where the code does other than its own comments say, each with the run that shows it.

1. `restart_loses_pass`: `ai_queue.rs:12-13` promises that "a quit or restart loses no pass".
   `recover_ai_passes` reads the row once and queues its passes one by one, and each
   `queue_ai_job` saves the queue over the row that still held the rest. An app that dies in
   the loop has lost those; so it is when another thread saves meanwhile.
2. `stale_cleanup`: `scheduler.rs:138-142` stops a pass "so nothing writes under the new run".
   `queue_ai_job` looks at the guard and pushes under another lock; a pass pushed after the
   new run looked for one saves its cleanup of the old transcript beside the new one.
3. `overlapping_pipelines`: `pipeline.rs:188` says "one pipeline per meeting at a time". The
   run checks the guard and claims it under two locks, and `tick` clears whatever marker
   stands before it; a re-analysis that claims it in between writes the old transcript back.
4. `orphaned_meeting`: `commands.rs:276-277` says meetings "must not survive as orphans". A
   note deleted during a re-analysis leaves the purge to it, and a re-analysis that fails
   purges nothing.
5. `sweep_under_reader`: `pipeline.rs:815-817` says re-analysis claims the guard before it reads
   the recording, so that retention "sees the meeting as busy from here on". `sweep_now` looks
   at the guard before it takes the storage lock and not again under it: a re-analysis claimed
   in between has its audio deleted while it reads it.

Met while modelling, and allowed for in the models rather than run on their own:

- `purge_meeting` commits the rows away before it removes the folder (`meetings.rs:150`). A crash
  or a locked file in between leaves a manifest that the next launch makes a meeting of again.
  In `KeptRecordings` such a recording is still "kept" or "stranded", and asked to be deleted.
- A note deleted while `stop_recording` finalises has its check of the recording behind it
  (`commands.rs:300`): the manifest is written afterwards, and the next launch brings it back.
- A newer text of a note may be lost though a folder has it. `recovery.rs:37-39` says of `note.json` that it
  is "written on every note write and restored by self-heal", and 123-126 that a note comes back
  "byte-identical". With two folders of a note the order decides: if the one healed first has no
  mirror, or an older one, `heal_one` inserts a stub or the older text; at the second folder it
  finds the note, leaves it (`recovery.rs:642`) and syncs it over that folder's newer `note.json`
  (684-686). TLC finds this on the instance of `library`, when it is asked for the newest text in
  `told` instead of any: a note is edited while its first recording stops, the copy of its mirror
  fails, the second recording's does not; the process ends, the database is lost, and the first
  folder is healed first. So `TextSurvivesLoss` promises one of the texts and not the newest; it
  speaks of mirrors in any state.
- `heal_one` is not a transaction (`recovery.rs:656`): a death after its INSERT leaves a whole
  row without the flag that was to follow, and later heals skip whole rows; an error there has
  the same end (`CrashInHeal` and `HealFails` release what was owed).
- After an older backup, moving a note gives its older text a newer date, and the backfill
  writes it over the newer mirror; `recovery.rs:252` says a mirror is replaced by a newer one only.
- An import writes no manifest before the next launch or edit (`ImportJoin`).
- A listing of Settings that is applied between a call's reconcile and its look at the registry
  (`hub.rs:1076`, two holds of the lock) decides that look. `OnlyReviewedRuns` and
  `AutomaticAsGranted` except such a call (`crossed`).
- Block, chosen while a change of the tool is pending, finds it blocked already and changes
  nothing (`pin.rs:378`); a server that goes back gives the tool its earlier permission.
- A connection made with an older configuration is cached under the connector's id, and may list
  the tools for the new one, also as its baseline (`hub.rs:757`).

## 6. Plan

Done so far: `AiQueue`, `AiPasses`, `TranscriptionJobs`, `Scheduler` with `TranscriptionRequests`,
`AudioStore`, `Library` with `KeptRecordings`, `Connectors`, and the proofs of all their safety
properties. In this order; each line is one module with its run, its properties and, where marked P,
its theorems.

1. The composition of `Scheduler` and `AiPasses`: a job marked done and its pass, two rows saved one
   after the other (P).
2. An abstract specification of the pass queue across restarts, with `AiPasses` shown to implement
   it (P).
3. What holds of the findings: which commands a meeting must be spared for them not to happen (P).
4. `Consent`: record, revoke, `build_provider`; sign-in and secrets of the connectors.
5. `Import`: conversion, the order of files; the wipe marker read at startup; retention of backups.
6. `Checkpoints` of `fly-asr` and the Ask loop as bounded algorithms; `fly-core`'s alignment
   and loop collapse against reference definitions.
7. `Recording`: lifecycle of a capture with the screen recorder; `Indexer`: dirty marks.

Not planned, and why: device callbacks, codecs and signal processing, diarization and speech
inference (external programs and floating point), the calendar and update plugins (network
I/O), read-only queries, the front end (it reaches this state only through the commands) and
the evaluation harness.
