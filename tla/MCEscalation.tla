---------------------------- MODULE MCEscalation ----------------------------
(***************************************************************************)
(* Two routes and two readers: enough for two readers of one route, for    *)
(* opposite orders over two routes and for a re-route between two lapses.  *)
(***************************************************************************)
EXTENDS Escalation, TLC

Symmetric == Permutations(Routes) \cup Permutations(Readers)
=============================================================================
