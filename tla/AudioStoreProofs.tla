-------------------------- MODULE AudioStoreProofs --------------------------
(***************************************************************************)
(* What holds of the compression job for every folder and every bound: its *)
(* state keeps its shape, the job is at rest while everything is erased,   *)
(* and deleted audio never comes back.                                     *)
(***************************************************************************)
EXTENDS AudioStore, TLAPS

-----------------------------------------------------------------------------
(* The shape of the state.                                                 *)

LEMMA RolesAndFiles ==
    /\ \A r \in Roles : Wav(r) \in Files /\ Flac(r) \in Files
    /\ \A f \in Files : FlacTwin(f) \in Files
    /\ Derived \subseteq Roles
    /\ NoRow \in Recording
    /\ NothingOnDisk \in Folder
    /\ RoleOrder \in Seq(Roles)
<1>1. \A r \in Roles : Wav(r) \in Files /\ Flac(r) \in Files
    BY DEF Files, Wav, Flac
<1>2. \A f \in Files : FlacTwin(f) \in Files
    BY DEF Files, FlacTwin, Flac
<1>3. Derived \subseteq Roles
    BY DEF Roles
<1>4. NoRow \in Recording
    BY DEF NoRow, Recording
<1>5. NothingOnDisk \in Folder
    BY DEF NothingOnDisk, Folder, Contents
<1>6. RoleOrder \in Seq(Roles)
    BY DEF RoleOrder, Roles, Sources, Derived
<1>7. QED
    BY <1>1, <1>2, <1>3, <1>4, <1>5, <1>6

LEMMA JobStarts == JobStart \in JobType
    BY RolesAndFiles DEF JobStart, JobType, JobPcs

LEMMA Moving ==
    ASSUME job \in JobType, NEW pc \in JobPcs, Goto(pc)
    PROVE  job' \in JobType
    BY DEF Goto, JobType

LEMMA Finishing ==
    ASSUME job \in JobType, Finish("ok") \/ Finish("busy") \/ Finish("stopped")
                            \/ Finish("failed") \/ Finish("gone")
    PROVE  job' \in JobType
    BY DEF Finish, JobType, JobPcs

LEMMA Spending ==
    ASSUME left \in [events : Nat, faults : Nat, crashes : Nat],
           Spend("events") \/ Spend("faults") \/ Spend("crashes")
    PROVE  left' \in [events : Nat, faults : Nat, crashes : Nat]
    BY DEF Spend

\* The role a step works on, its WAV and the FLAC that takes its place.
LEMMA RoleTyped ==
    ASSUME job \in JobType, AtRole \/ Encoding
    PROVE  /\ Role \in Roles /\ Tail(job.todo) \in Seq(Roles)
           /\ RoleHasWav => RoleWav \in Files /\ FlacTwin(RoleWav) \in Files
<1>1. job.todo \in Seq(Roles) /\ job.todo # <<>> /\ job.planned \in Recording
    BY DEF JobType, AtRole, Encoding
<1>2. Role \in Roles /\ Tail(job.todo) \in Seq(Roles)
    BY <1>1 DEF Role
<1>3. ASSUME RoleHasWav PROVE RoleWav \in Files
    BY <1>1, <1>2, <1>3 DEF RoleHasWav, OnDisk, RoleWav, Recording
<1>4. QED
    BY <1>2, <1>3, RolesAndFiles

LEMMA Adopting ==
    ASSUME job \in JobType, AtRole \/ Encoding, RoleHasWav, Adopt
    PROVE  job' \in JobType
<1> DEFINE follow == [r \in Roles |-> IF Follows(r) THEN FlacTwin(RoleWav) ELSE job.next[r]]
<1>1. Tail(job.todo) \in Seq(Roles) /\ RoleWav \in Files /\ FlacTwin(RoleWav) \in Files
    BY RoleTyped
<1>2. follow \in Recording
    BY <1>1 DEF JobType, Recording
<1>3. job' = [job EXCEPT !.pc = "roles", !.todo = Tail(@), !.del = @ \cup {RoleWav},
                         !.made = @ \cup {FlacTwin(RoleWav)}, !.next = follow]
    BY DEF Adopt
<1> HIDE DEF follow
<1>4. QED
    BY <1>1, <1>2, <1>3 DEF JobType, JobPcs

LEMMA JobKeepsTypes == TypeOK /\ Job => TypeOK'
<1> SUFFICES ASSUME TypeOK, Job PROVE TypeOK'
    OBVIOUS
<1> USE DEF TypeOK, stored, flags, others
<1>1. CASE PlanPass \/ EmptyPass \/ ClearCancels \/ MachineFree \/ GiveUpWaiting
    <2>1. job' \in JobType
        BY <1>1, Moving DEF PlanPass, EmptyPass, ClearCancels, MachineFree, GiveUpWaiting, JobPcs
    <2>2. QED
        BY <1>1, <2>1 DEF PlanPass, EmptyPass, ClearCancels, MachineFree, GiveUpWaiting
<1>2. CASE CheckBeforeLease \/ Announce
    <2>1. job' \in JobType
        BY <1>2, Moving DEF CheckBeforeLease, Announce, JobPcs, StorageHeld
    <2>2. QED
        BY <1>2, <2>1 DEF CheckBeforeLease, Announce
<1>3. CASE ReadRow
    <2>1. CASE MeetingExists
        <3>1. job' = [JobStart EXCEPT !.pc = "roles", !.todo = RoleOrder,
                                      !.planned = row, !.next = row]
            BY <1>3, <2>1 DEF ReadRow
        <3>2. job' \in JobType
            BY <3>1, JobStarts, RolesAndFiles DEF JobType, JobPcs
        <3>3. QED
            BY <1>3, <2>1, <3>2 DEF ReadRow
    <2>2. CASE ~MeetingExists
        <3>1. job' \in JobType
            BY <1>3, <2>2, Finishing DEF ReadRow
        <3>2. QED
            BY <1>3, <2>2, <3>1 DEF ReadRow
    <2>3. QED
        BY <2>1, <2>2
<1>4. CASE SkipRole
    <2>1. job' \in JobType
        BY <1>4, RoleTyped DEF SkipRole, JobType
    <2>2. QED
        BY <1>4, <2>1 DEF SkipRole
<1>5. CASE DropRole
    <2>1. Role \in Roles /\ Tail(job.todo) \in Seq(Roles) /\ RoleWav \in Files
        BY <1>5, RoleTyped DEF DropRole
    <2>2. job' = [job EXCEPT !.todo = Tail(@), !.next[Role] = NoPath, !.del = @ \cup {RoleWav}]
        BY <1>5 DEF DropRole
    <2>3. [job.next EXCEPT ![Role] = NoPath] \in Recording
        BY <2>1 DEF JobType, Recording
    <2>4. job' \in JobType
        BY <2>1, <2>2, <2>3 DEF JobType
    <2>5. QED
        BY <1>5, <2>4 DEF DropRole
<1>6. CASE ReuseFlac
    <2>1. job' \in JobType
        BY <1>6, Adopting DEF ReuseFlac, RoleConverts
    <2>2. QED
        BY <1>6, <2>1 DEF ReuseFlac
<1>7. CASE RemoveBadFlac \/ RemoveUnreadFlac
    <2>1. disk' \in Folder
        BY <1>7 DEF RemoveBadFlac, RemoveUnreadFlac, RemoveTwin, Folder, Contents
    <2>2. left' \in [events : Nat, faults : Nat, crashes : Nat]
        BY <1>7, Spending DEF RemoveBadFlac, RemoveUnreadFlac
    <2>3. QED
        BY <1>7, <2>1, <2>2 DEF RemoveBadFlac, RemoveUnreadFlac, RemoveTwin
<1>8. CASE OpenWav \/ EncodeTemp
    <2>1. CASE OpenWav
        <3>1. job' \in JobType
            BY <2>1, Moving DEF OpenWav, JobPcs
        <3>2. QED
            BY <2>1, <3>1 DEF OpenWav
    <2>2. CASE EncodeTemp
        BY <2>2, RoleTyped DEF EncodeTemp
    <2>3. QED
        BY <1>8, <2>1, <2>2
<1>9. CASE Rename
    <2>1. job' \in JobType
        BY <1>9, Adopting DEF Rename, RoleConverts
    <2>2. disk' \in Folder
        BY <1>9 DEF Rename, Folder, Contents
    <2>3. QED
        BY <1>9, <2>1, <2>2 DEF Rename
<1>10. CASE FindLeftovers
    <2> DEFINE found == {r \in Roles : /\ LeftoverCandidate(job.next, r) /\ Wav(r) \notin job.del
                                       /\ r \notin unproven}
               proven == {r \in found : Proven(job.next, r)}
               wavs == {Wav(r) : r \in proven}
    <2>1. job' = [job EXCEPT !.pc = "commit", !.del = @ \cup wavs, !.doubt = found \ proven]
        BY <1>10 DEF FindLeftovers
    <2>2. wavs \subseteq Files /\ found \ proven \subseteq Roles
        BY RolesAndFiles
    <2> HIDE DEF found, proven, wavs
    <2>3. job' \in JobType
        BY <2>1, <2>2 DEF JobType, JobPcs
    <2>4. QED
        BY <1>10, <2>3 DEF FindLeftovers
<1>11. CASE Interrupted \/ FilesGone
    <2>1. job' \in JobType
        BY <1>11, Finishing DEF Interrupted, FilesGone
    <2>2. QED
        BY <1>11, <2>1 DEF Interrupted, FilesGone
<1>12. CASE StepFails
    <2>1. job' \in JobType
        BY <1>12, Finishing DEF StepFails
    <2>2. left' \in [events : Nat, faults : Nat, crashes : Nat]
        BY <1>12, Spending DEF StepFails
    <2>3. QED
        BY <1>12, <2>1, <2>2 DEF StepFails
<1>13. CASE CommitCheck
    <2>1. job' \in JobType
        <3>1. CASE Finish("gone") \/ Finish("busy")
            BY <3>1, Finishing
        <3>2. CASE job' = [job EXCEPT !.made = {},
                            !.pc = IF job.next # job.planned THEN "manifest" ELSE "delete"]
            BY <3>2 DEF JobType, JobPcs, StorageHeld
        <3>3. QED
            BY <1>13, <3>1, <3>2 DEF CommitCheck
    <2>2. QED
        BY <1>13, <2>1 DEF CommitCheck
<1>14. CASE WriteManifest \/ WriteRow
    <2>1. job' \in JobType
        BY <1>14, Moving DEF WriteManifest, WriteRow, JobPcs, StorageHeld
    <2>2. job.next \in Recording
        BY DEF JobType
    <2>3. QED
        BY <1>14, <2>1, <2>2 DEF WriteManifest, WriteRow
<1>15. CASE CommitFails
    <2>1. job' \in JobType /\ left' \in [events : Nat, faults : Nat, crashes : Nat]
        BY <1>15, Finishing, Spending DEF CommitFails
    <2>2. QED
        BY <1>15, <2>1 DEF CommitFails
<1>16. CASE DeleteWav \/ DeleteFails
    <2>1. job' \in JobType
        BY <1>16 DEF DeleteWav, DeleteFails, JobType
    <2>2. disk' \in Folder
        BY <1>16 DEF DeleteWav, DeleteFails, Folder, Contents
    <2>3. left' \in [events : Nat, faults : Nat, crashes : Nat]
        BY <1>16, Spending DEF DeleteWav, DeleteFails
    <2>4. QED
        BY <1>16, <2>1, <2>2, <2>3 DEF DeleteWav, DeleteFails
<1>17. CASE Deleted
    <2>1. job' \in JobType
        BY <1>17, Finishing DEF Deleted
    <2>2. QED
        BY <1>17, <2>1 DEF Deleted
<1>18. CASE Undo
    <2>1. job' \in JobType
        BY <1>18, Moving DEF Undo, JobPcs
    <2>2. disk' \in Folder
        BY <1>18 DEF Undo, Folder, Contents
    <2>3. QED
        BY <1>18, <2>1, <2>2 DEF Undo
<1>19. CASE Release
    <2>1. job' = [JobStart EXCEPT !.pc = "wait"] \/ job' = [JobStart EXCEPT !.pc = "idle"]
        BY <1>19 DEF Release
    <2>2. job' \in JobType
        BY <2>1, JobStarts DEF JobType, JobPcs
    <2>3. unproven' \subseteq Roles
        BY <1>19 DEF Release, JobType
    <2>4. QED
        BY <1>19, <2>2, <2>3 DEF Release
<1>20. QED
    BY <1>1, <1>2, <1>3, <1>4, <1>5, <1>6, <1>7, <1>8, <1>9, <1>10, <1>11, <1>12, <1>13,
       <1>14, <1>15, <1>16, <1>17, <1>18, <1>19 DEF Job

LEMMA EmptyReader == NoReader \in ReaderType
    BY DEF NoReader, ReaderType

LEMMA EmptyPlayer == NoPlayer \in PlayerType
    BY RolesAndFiles DEF NoPlayer, PlayerType

\* playback_plan picks a file of the row, or none.
LEMMA PlaybackTyped ==
    ASSUME NEW rec \in Recording
    PROVE  StoredPlayback(rec) \in Files \cup {NoPath}
<1>1. \A r \in Roles : rec[r] \in Files \cup {NoPath}
    BY DEF Recording
<1>2. QED
    BY <1>1 DEF StoredPlayback, Roles, Sources, Derived

LEMMA OthersKeepTypes == TypeOK /\ Others => TypeOK'
<1> SUFFICES ASSUME TypeOK, Others PROVE TypeOK'
    OBVIOUS
<1> USE DEF TypeOK, stored, flags, others
<1>1. CASE MachineIdle
    BY <1>1 DEF MachineIdle
<1>2. CASE ReaderClaims
    <2>1. reader' \in ReaderType
        BY <1>2 DEF ReaderClaims, ReaderType
    <2>2. QED
        BY <1>2, <2>1 DEF ReaderClaims
<1>3. CASE ReaderLoads \/ ReaderDone
    <2> DEFINE files == {row[r] : r \in {q \in Roles : OnDisk(row, q)}}
    <2>1. files \subseteq Files \cup {NoPath}
        BY DEF Recording
    <2>2. reader' = NoReader \/ reader' = [reader EXCEPT !.pc = "reading", !.files = files]
        BY <1>3 DEF ReaderLoads, ReaderDone
    <2> HIDE DEF files
    <2>3. CASE reader' = NoReader
        <3>1. reader' \in ReaderType
            BY <2>3, EmptyReader
        <3>2. QED
            BY <1>3, <3>1 DEF ReaderLoads, ReaderDone
    <2>4. CASE reader' = [reader EXCEPT !.pc = "reading", !.files = files]
        <3>1. reader' \in ReaderType
            BY <2>1, <2>4 DEF ReaderType
        <3>2. QED
            BY <1>3, <3>1 DEF ReaderLoads, ReaderDone
    <2>5. QED
        BY <2>2, <2>3, <2>4
<1>4. CASE PlayCancels \/ PlayLoads \/ PlayPicks \/ GraceEnds
    <2>1. player' \in PlayerType
        <3>1. CASE PlayCancels \/ PlayLoads
            BY <1>4, <3>1 DEF PlayCancels, PlayLoads, PlayerType
        <3>2. CASE PlayPicks
            <4>1. player.rec \in Recording
                BY DEF PlayerType
            <4>2. StoredPlayback(player.rec) \in Files \cup {NoPath}
                BY <4>1, PlaybackTyped
            <4>3. QED
                BY <3>2, <4>2, RolesAndFiles DEF PlayPicks, PlayerType
        <3>3. CASE GraceEnds
            BY <3>3, EmptyPlayer DEF GraceEnds
        <3>4. QED
            BY <1>4, <3>1, <3>2, <3>3
    <2>2. QED
        BY <1>4, <2>1 DEF PlayCancels, PlayLoads, PlayPicks, GraceEnds
<1>5. CASE SweepDeletes
    <2>1. disk' \in Folder
        BY <1>5, RolesAndFiles DEF SweepDeletes, Folder
    <2>2. left' \in [events : Nat, faults : Nat, crashes : Nat]
        BY <1>5, Spending DEF SweepDeletes
    <2>3. meeting' \in {"kept", "aging", "swept", "gone"} /\ temps' \subseteq Roles
        BY <1>5 DEF SweepDeletes
    <2>4. QED
        BY <1>5, <2>1, <2>2, <2>3 DEF SweepDeletes
<1>6. CASE PurgeBarrier \/ WipeBarrier \/ WipeProceeds \/ WipeGivesUp
    BY <1>6 DEF PurgeBarrier, WipeBarrier, WipeProceeds, WipeGivesUp
<1>7. CASE Purge \/ WipeErases
    <2>1. reader' \in ReaderType
        BY <1>7, EmptyReader DEF Purge, WipeErases
    <2>2. QED
        BY <1>7, <2>1, RolesAndFiles DEF Purge, WipeErases, PurgeMeeting
<1>8. QED
    BY <1>1, <1>2, <1>3, <1>4, <1>5, <1>6, <1>7 DEF Others

LEMMA ArrivalsKeepTypes == TypeOK /\ Arrivals => TypeOK'
<1> SUFFICES ASSUME TypeOK, Arrivals PROVE TypeOK'
    OBVIOUS
<1> USE DEF TypeOK, stored, flags, others
<1>1. left' \in [events : Nat, faults : Nat, crashes : Nat]
    BY Spending DEF Arrivals, MachineBusy, ReaderAsks, PlayAsked, SweepLooks, PurgeAsked,
                    WipeHalts, Edit, Restart, Event
<1>2. CASE MachineBusy \/ SweepLooks \/ PurgeAsked \/ WipeHalts \/ Edit
    <2>1. CASE MachineBusy
        BY <1>1, <2>1 DEF MachineBusy
    <2>2. CASE SweepLooks
        <3>1. sweep' \in {"none", "looked"}
            BY <2>2 DEF SweepLooks
        <3>2. QED
            BY <1>1, <2>2, <3>1 DEF SweepLooks
    <2>3. CASE PurgeAsked \/ WipeHalts
        BY <1>1, <2>3, EmptyReader DEF PurgeAsked, WipeHalts
    <2>4. CASE Edit
        BY <1>1, <2>4 DEF Edit
    <2>5. QED
        BY <1>2, <2>1, <2>2, <2>3, <2>4
<1>3. CASE ReaderAsks
    <2>1. reader' \in ReaderType
        BY <1>3, EmptyReader DEF ReaderAsks, ReaderType
    <2>2. QED
        BY <1>1, <1>3, <2>1 DEF ReaderAsks
<1>4. CASE PlayAsked
    <2>1. player' \in PlayerType
        BY <1>4, EmptyPlayer DEF PlayAsked, PlayerType
    <2>2. QED
        BY <1>1, <1>4, <2>1 DEF PlayAsked
<1>5. CASE Restart
    <2>1. reader' \in ReaderType /\ player' \in PlayerType
        BY <1>5, EmptyReader, EmptyPlayer DEF Restart, ReaderType
    <2>2. QED
        BY <1>1, <1>5, <2>1, JobStarts DEF Restart
<1>6. QED
    BY <1>2, <1>3, <1>4, <1>5 DEF Arrivals

\* Every variable keeps its shape: a path is a file of the folder or none.
THEOREM StateKeepsShape == Spec => []TypeOK
<1>1. Init => TypeOK
    <2> SUFFICES ASSUME Init PROVE TypeOK
        OBVIOUS
    <2>1. layout.row \in Recording /\ layout.disk \in Folder
        BY LayoutsAssumption DEF Init
    <2>2. left \in [events : Nat, faults : Nat, crashes : Nat]
        BY AudioBoundsAssumption DEF Init, Left
    <2>3. QED
        BY <2>1, <2>2, JobStarts, EmptyReader, EmptyPlayer DEF Init, TypeOK
<1>2. TypeOK /\ [Next]_vars => TypeOK'
    <2>1. ASSUME TypeOK, UNCHANGED vars PROVE TypeOK'
        BY <2>1 DEF TypeOK, vars, stored, flags, others
    <2>2. QED
        BY <2>1, JobKeepsTypes, OthersKeepTypes, ArrivalsKeepTypes DEF Next
<1>3. QED
    BY <1>1, <1>2, PTL DEF Spec

-----------------------------------------------------------------------------
(* Where the job goes.                                                     *)

LeasedPcs == {"read", "roles", "encode", "commit", "manifest", "row", "delete", "undo", "release"}

LEMMA Moved ==
    ASSUME job \in JobType, NEW pc, Goto(pc)
    PROVE  job'.pc = pc
    BY DEF Goto, JobType

LEMMA Finished ==
    ASSUME job \in JobType, NEW result, Finish(result)
    PROVE  job'.pc = "undo"
    BY DEF Finish, JobType

LEMMA Adopted ==
    ASSUME job \in JobType, Adopt
    PROVE  job'.pc = "roles"
    BY DEF Adopt, JobType

\* The job announces only what its check let through, and is inside a folder
\* only with the lease it announced.
LEMMA JobMoves ==
    ASSUME TypeOK, Job
    PROVE  /\ job'.pc = "announce" => CheckBeforeLease /\ MeetingExists /\ ~Blocked
           /\ job'.pc \in LeasedPcs => job.pc \in LeasedPcs \/ Announce
           /\ leased' # leased => Announce \/ Release
           /\ Release => job'.pc \notin LeasedPcs
           /\ UNCHANGED <<halted, meeting, wipe>>
<1> USE DEF LeasedPcs, stored, flags, others
<1>1. job \in JobType
    BY DEF TypeOK
<1>2. CASE PlanPass \/ EmptyPass \/ ClearCancels \/ MachineFree \/ GiveUpWaiting
    BY <1>1, <1>2, Moved
    DEF PlanPass, EmptyPass, ClearCancels, MachineFree, GiveUpWaiting, Release
<1>3. CASE CheckBeforeLease
    BY <1>1, <1>3, Moved DEF CheckBeforeLease, Release
<1>4. CASE Announce
    BY <1>1, <1>4, Moved DEF Announce, Release
<1>5. CASE ReadRow
    BY <1>1, <1>5, Finished DEF ReadRow, JobStart, Release
<1>6. CASE SkipRole \/ DropRole
    <2>1. job'.pc = job.pc /\ job.pc = "roles"
        BY <1>1, <1>6 DEF SkipRole, DropRole, AtRole, JobType
    <2>2. QED
        BY <1>6, <2>1 DEF SkipRole, DropRole, Release
<1>7. CASE ReuseFlac \/ Rename
    <2>1. job'.pc = "roles" /\ job.pc \in {"roles", "encode"}
        BY <1>1, <1>7, Adopted DEF ReuseFlac, Rename, AtRole, Encoding
    <2>2. QED
        BY <1>7, <2>1 DEF ReuseFlac, Rename, Release
<1>8. CASE RemoveBadFlac \/ RemoveUnreadFlac \/ OpenWav \/ EncodeTemp
    <2>1. CASE RemoveBadFlac \/ RemoveUnreadFlac
        BY <2>1 DEF RemoveBadFlac, RemoveUnreadFlac, RemoveTwin, AtRole, Release
    <2>2. CASE OpenWav
        BY <1>1, <2>2, Moved DEF OpenWav, AtRole, Release
    <2>3. CASE EncodeTemp
        BY <2>3 DEF EncodeTemp, Encoding, Release
    <2>4. QED
        BY <1>8, <2>1, <2>2, <2>3
<1>9. CASE FindLeftovers
    <2>1. job'.pc = "commit" /\ job.pc = "roles"
        BY <1>1, <1>9 DEF FindLeftovers, JobType
    <2>2. QED
        BY <1>9, <2>1 DEF FindLeftovers, Release
<1>10. CASE Interrupted \/ FilesGone \/ StepFails \/ CommitFails \/ Deleted
    <2>1. job'.pc = "undo" /\ job.pc \in LeasedPcs \ {"release"}
        BY <1>1, <1>10, Finished
        DEF Interrupted, FilesGone, StepFails, CommitFails, Deleted, AtRole, Encoding
    <2>2. QED
        BY <1>10, <2>1 DEF Interrupted, FilesGone, StepFails, CommitFails, Deleted, Release
<1>11. CASE CommitCheck
    <2>1. job.pc = "commit" /\ job'.pc \in {"undo", "manifest", "delete"}
        BY <1>1, <1>11, Finished DEF CommitCheck, JobType
    <2>2. QED
        BY <1>11, <2>1 DEF CommitCheck, Release
<1>12. CASE WriteManifest \/ WriteRow \/ Undo
    BY <1>1, <1>12, Moved DEF WriteManifest, WriteRow, Undo, Release
<1>13. CASE DeleteWav \/ DeleteFails
    <2>1. job'.pc = job.pc /\ job.pc = "delete"
        BY <1>1, <1>13 DEF DeleteWav, DeleteFails, JobType
    <2>2. QED
        BY <1>13, <2>1 DEF DeleteWav, DeleteFails, Release
<1>14. CASE Release
    BY <1>14 DEF Release, JobStart
<1>15. QED
    BY <1>2, <1>3, <1>4, <1>5, <1>6, <1>7, <1>8, <1>9, <1>10, <1>11, <1>12, <1>13, <1>14
    DEF Job

-----------------------------------------------------------------------------
(* halt: the flag is up from WipeHalts on; past the barrier the job isn't  *)
(* between its check and its announcement any more, and no later check     *)
(* passes.                                                                 *)

PastBarrier == {"waiting", "erasing", "erased"}

HaltInv ==
    /\ wipe \in PastBarrier \cup {"barrier"} => halted
    /\ wipe \in PastBarrier => job.pc # "announce"
    /\ HaltMeansIdle

\* "Delete all my data" erases nothing while the job holds a folder: the flag
\* and the one hold of the lock (pass_lease_barrier) leave the job no way to
\* take a lease that halt doesn't see.
THEOREM HaltLeavesJobIdle == Spec => []HaltMeansIdle
<1>1. Init => HaltInv
    BY DEF Init, HaltInv, HaltMeansIdle, PastBarrier
<1>2. TypeOK /\ HaltInv /\ [Next]_vars => HaltInv'
    <2> SUFFICES ASSUME TypeOK, HaltInv, [Next]_vars PROVE HaltInv'
        OBVIOUS
    <2> USE DEF HaltInv, HaltMeansIdle, PastBarrier, stored, flags, others
    <2>1. CASE Job
        <3>1. CASE Announce
            BY <2>1, <3>1, JobMoves DEF Announce
        <3>2. CASE ~Announce
            <4>1. leased' => leased
                BY <2>1, <3>2, JobMoves DEF Release
            <4>2. QED
                BY <2>1, <4>1, JobMoves DEF Blocked, Cancelled
        <3>3. QED
            BY <3>1, <3>2
    <2>2. CASE Others
        <3>1. CASE WipeBarrier \/ WipeProceeds \/ WipeGivesUp \/ WipeErases
            BY <3>1 DEF WipeBarrier, WipeProceeds, WipeGivesUp, WipeErases, StorageFree, StorageHeld
        <3>2. CASE ~(WipeBarrier \/ WipeProceeds \/ WipeGivesUp \/ WipeErases)
            <4>1. UNCHANGED <<wipe, halted, leased, job>>
                BY <2>2, <3>2
                DEF Others, MachineIdle, ReaderClaims, ReaderLoads, ReaderDone, PlayCancels,
                    PlayLoads, PlayPicks, GraceEnds, SweepDeletes, PurgeBarrier, Purge
            <4>2. QED
                BY <4>1
        <3>3. QED
            BY <3>1, <3>2
    <2>3. CASE Arrivals
        <3>1. CASE Restart \/ WipeHalts
            BY <3>1 DEF Restart, JobStart, WipeHalts
        <3>2. CASE ~(Restart \/ WipeHalts)
            <4>1. UNCHANGED <<wipe, halted, leased, job>>
                BY <2>3, <3>2
                DEF Arrivals, MachineBusy, ReaderAsks, PlayAsked, SweepLooks, PurgeAsked, Edit
            <4>2. QED
                BY <4>1
        <3>3. QED
            BY <3>1, <3>2
    <2>4. CASE UNCHANGED vars
        BY <2>4 DEF vars
    <2>5. QED
        BY <2>1, <2>2, <2>3, <2>4 DEF Next
<1>3. HaltInv => HaltMeansIdle
    BY DEF HaltInv
<1>4. QED
    BY <1>1, <1>2, <1>3, StateKeepsShape, PTL DEF Spec

-----------------------------------------------------------------------------
(* Deleted audio: retention only takes a folder nobody has leased, under   *)
(* the lock leases are taken under; after a purge there is no folder to    *)
(* write in.                                                               *)

GoneInv ==
    /\ NothingComesBack
    /\ job.pc \in LeasedPcs => leased
    /\ meeting = "swept" => job.pc \notin LeasedPcs \cup {"announce"}

\* In a folder that is empty the job makes and leaves nothing.
LEMMA EmptyStaysEmpty ==
    ASSUME TypeOK, GoneInv, Job, meeting \in {"swept", "gone"}
    PROVE  disk' = NothingOnDisk /\ temps' = {}
<1> USE DEF stored, flags, others
<1>1. disk = NothingOnDisk /\ temps = {} /\ job \in JobType
    BY DEF GoneInv, NothingComesBack, TypeOK
<1>2. ASSUME AtRole \/ Encoding PROVE ~RoleConverts
    <2>1. ASSUME RoleHasWav PROVE disk[RoleWav] = "none"
        BY <1>1, <1>2, <2>1, RoleTyped DEF NothingOnDisk
    <2>2. QED
        BY <2>1 DEF RoleConverts
<1>3. ~EncodeTemp /\ ~Rename /\ ~RemoveBadFlac /\ ~RemoveUnreadFlac /\ ~ReuseFlac
    BY <1>2 DEF EncodeTemp, Rename, RemoveBadFlac, RemoveUnreadFlac, ReuseFlac, Encoding,
                GoneInv, MeetingExists, LeasedPcs
<1>4. CASE DeleteWav
    BY <1>1, <1>4 DEF DeleteWav, NothingOnDisk
<1>5. CASE Undo
    BY <1>1, <1>5 DEF Undo, NothingOnDisk
<1>6. CASE ~DeleteWav /\ ~Undo
    <2>1. UNCHANGED disk /\ (temps' = temps \/ temps' = {})
        BY <1>3, <1>6
        DEF Job, PlanPass, EmptyPass, ClearCancels, MachineFree, GiveUpWaiting, CheckBeforeLease,
            Announce, ReadRow, SkipRole, DropRole, OpenWav, FilesGone, FindLeftovers, Interrupted,
            StepFails, CommitCheck, WriteManifest, WriteRow, CommitFails, DeleteFails, Deleted,
            Release
    <2>2. QED
        BY <1>1, <2>1
<1>7. QED
    BY <1>4, <1>5, <1>6

\* Whatever the job was doing, audio that was deleted doesn't come back.
THEOREM DeletedStaysDeleted == Spec => []NothingComesBack
<1>1. Init => GoneInv
    BY DEF Init, GoneInv, NothingComesBack, JobStart, LeasedPcs
<1>2. TypeOK /\ GoneInv /\ [Next]_vars => GoneInv'
    <2> SUFFICES ASSUME TypeOK, GoneInv, [Next]_vars PROVE GoneInv'
        OBVIOUS
    <2> USE DEF GoneInv, NothingComesBack, stored, flags, others
    <2>1. CASE Job
        <3>1. NothingComesBack'
            BY <2>1, EmptyStaysEmpty, JobMoves DEF NothingOnDisk
        <3>2. (job.pc \in LeasedPcs => leased)'
            <4>1. CASE Announce
                BY <4>1 DEF Announce
            <4>2. CASE ~Announce
                BY <2>1, <4>2, JobMoves DEF LeasedPcs
            <4>3. QED
                BY <4>1, <4>2
        <3>3. (meeting = "swept" => job.pc \notin LeasedPcs \cup {"announce"})'
            BY <2>1, JobMoves DEF Blocked, AudioDeleted, Announce
        <3>4. QED
            BY <3>1, <3>2, <3>3
    <2>2. CASE Others
        <3>1. CASE SweepDeletes
            BY <3>1 DEF SweepDeletes, Sweepable, StorageFree, StorageHeld, NothingOnDisk
        <3>2. CASE Purge \/ WipeErases
            BY <3>2 DEF Purge, WipeErases, PurgeMeeting, NothingOnDisk
        <3>3. CASE ~(SweepDeletes \/ Purge \/ WipeErases)
            <4>1. UNCHANGED <<meeting, disk, temps, leased, job>>
                BY <2>2, <3>3
                DEF Others, MachineIdle, ReaderClaims, ReaderLoads, ReaderDone, PlayCancels,
                    PlayLoads, PlayPicks, GraceEnds, PurgeBarrier, WipeBarrier, WipeProceeds,
                    WipeGivesUp
            <4>2. QED
                BY <4>1 DEF NothingOnDisk
        <3>4. QED
            BY <3>1, <3>2, <3>3
    <2>3. CASE Arrivals
        <3>1. CASE Restart
            BY <3>1 DEF Restart, JobStart, LeasedPcs, NothingOnDisk
        <3>2. CASE ~Restart
            <4>1. UNCHANGED <<meeting, disk, temps, leased, job>>
                BY <2>3, <3>2
                DEF Arrivals, MachineBusy, ReaderAsks, PlayAsked, SweepLooks, PurgeAsked,
                    WipeHalts, Edit
            <4>2. QED
                BY <4>1 DEF NothingOnDisk
        <3>3. QED
            BY <3>1, <3>2
    <2>4. CASE UNCHANGED vars
        BY <2>4 DEF vars, NothingOnDisk
    <2>5. QED
        BY <2>1, <2>2, <2>3, <2>4 DEF Next
<1>3. GoneInv => NothingComesBack
    BY DEF GoneInv
<1>4. QED
    BY <1>1, <1>2, <1>3, StateKeepsShape, PTL DEF Spec
=============================================================================
