------------------------------ MODULE MCJobQueue ------------------------------
(***************************************************************************)
(* Small instances of JobQueue for TLC.                                    *)
(***************************************************************************)
EXTENDS JobQueue, TLC

\* The delays grow with the attempts, as those of the code do.
MCRetryDelay == [n \in 1..(MaxAttempts - 1) |-> n]

\* Neither words nor workers are told apart, and the properties checked with it
\* are invariants or speak of single steps.
MCSymmetry == Permutations(Keys) \cup Permutations(Workers)

=============================================================================
