---------------------------- MODULE MCConnectors ----------------------------
(***************************************************************************)
(* A small instance of Connectors: two places, two reads and a write.      *)
(***************************************************************************)
EXTENDS Connectors

CONSTANTS here, there, look, find, edit

Lists(h, t) == [p \in {here, there} |-> IF p = here THEN h ELSE t]
MCServed == {Lists(look, find), Lists(edit, look), Lists(Nothing, edit)}
=============================================================================
