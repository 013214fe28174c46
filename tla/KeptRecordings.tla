-------------------------- MODULE KeptRecordings --------------------------
(***************************************************************************)
(* What the app promises about a finished recording, whatever happens to   *)
(* the database: once its folder says whose it is ("kept"), nothing but a  *)
(* delete the user asked for ever takes it away, and what has been deleted *)
(* never comes back.  Library implements it.                               *)
(*                                                                         *)
(*   none       no such meeting yet                                        *)
(*   recording  its audio is being written                                 *)
(*   held       only the database ties it to its audio                     *)
(*   kept       the folder carries a manifest: no database is needed       *)
(*   stranded   audio in a folder nothing points at                        *)
(*   gone       the folder is deleted                                      *)
(***************************************************************************)
EXTENDS Naturals

CONSTANT Meetings

VARIABLES
    life,   \* what has become of each meeting's recording
    asked   \* the meetings the user deleted

Lives == {"none", "recording", "held", "kept", "stranded", "gone"}

TypeOK == /\ life \in [Meetings -> Lives]
          /\ asked \subseteq Meetings

Init == /\ life = [m \in Meetings |-> "none"]
        /\ asked = {}

\* How a recording's life may go on, without the user's asking.
Onward == [none      |-> {"recording", "stranded"},
           recording |-> {"kept", "held", "stranded"},
           held      |-> {"kept", "stranded", "recording"},
           kept      |-> {},
           stranded  |-> {"held", "recording"},
           gone      |-> {}]

\* A command, a crash, a lost database: each may move several recordings on.
Turn == /\ life' \in [Meetings -> Lives]
        /\ \A m \in Meetings : life'[m] \in Onward[life[m]] \cup {life[m]}
        /\ UNCHANGED asked

AskDelete == /\ \E M \in SUBSET Meetings : asked' = asked \cup M
             /\ UNCHANGED life

\* A folder whose removal is cut short keeps its audio without a manifest.
Delete == /\ \E m \in asked :
                /\ life[m] \in {"recording", "held", "kept", "stranded"}
                /\ \E l \in {"gone", "stranded"} : life' = [life EXCEPT ![m] = l]
          /\ UNCHANGED asked

Next == Turn \/ AskDelete \/ Delete

Spec == Init /\ [][Next]_<<life, asked>>
=============================================================================
