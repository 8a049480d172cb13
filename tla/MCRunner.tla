------------------------------ MODULE MCRunner ------------------------------
(* Small instances of Runner for TLC. *)
EXTENDS Runner, TLC

CONSTANTS w1, w2, w3

\* Workers run the same code and are told apart by nothing else.
WorkerSymmetry == Permutations(Workers)
=============================================================================
