---------------------------- MODULE MCTaskPlanner -----------------------------
(***************************************************************************)
(* Small instances of TaskPlanner for TLC.                                 *)
(***************************************************************************)
EXTENDS TaskPlanner, TLC

CONSTANTS a, b, s1, s2

\* Each card has a section of its own.
MCSectionOf == [c \in Cards |-> IF c = a THEN s1 ELSE s2]

MCSymmetry == Permutations(Requests) \cup Permutations(Commands)

=============================================================================
