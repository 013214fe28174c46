---------------------------- MODULE MCAiPasses -----------------------------
(***************************************************************************)
(* Model-checking instances of AiPasses.                                   *)
(***************************************************************************)
EXTENDS AiPasses

\* Meetings and threads are interchangeable in every safety property.
Interchangeable == Permutations(Meetings) \cup Permutations(Threads)
=============================================================================
