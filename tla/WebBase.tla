------------------------------- MODULE WebBase -------------------------------
(***************************************************************************)
(* What the models of the web pages (web/src) share.                       *)
(*                                                                         *)
(* A page runs on one thread: a click handler runs to its first await in   *)
(* one step, and so does what follows every answer. Between them anything  *)
(* the page still lets the user do may happen, and other answers arrive.   *)
(* A request in flight is a record in a set; its answer takes it out of    *)
(* the set, in any order. Two equal requests in flight are one record.     *)
(***************************************************************************)
EXTENDS Naturals

CONSTANTS
  Nodes,   (* managed nodes the user opens *)
  None,    (* JavaScript's null            *)
  MaxCalls (* bound: nothing more is clicked with so many requests in flight *)

ASSUME WebAssumption == None \notin Nodes /\ MaxCalls \in Nat
=============================================================================
