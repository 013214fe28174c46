----------------------------- MODULE MCLibrary -----------------------------
(***************************************************************************)
(* A small instance of Library: two meetings recorded into one note.       *)
(***************************************************************************)
EXTENDS Library

CONSTANTS n1, f1, unfiled

MCMeetings == 1..2
MCNoteOf == [m \in MCMeetings |-> n1]
=============================================================================
