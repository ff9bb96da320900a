-------------------------- MODULE MCReconciliation --------------------------
(***************************************************************************)
(* Three transactions on two events: one event can be edited twice.        *)
(***************************************************************************)
EXTENDS Reconciliation, TLC

Symmetric == Permutations(Writers) \cup Permutations(Events)
=============================================================================
