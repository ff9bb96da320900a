---------------------------- MODULE MCLifecycle -----------------------------
(***************************************************************************)
(* A payload that carries the key of "a", one with a name only.            *)
(***************************************************************************)
EXTENDS Lifecycle, Sequences

MCFrom == [p \in Payloads |-> CASE p = "keyed" -> "a"
                                [] p = "named" -> "name"
                                [] OTHER -> "nobody"]
MCFresh == SubSeq(<<"n1", "n2", "n3", "n4">>, 1, Last)
=============================================================================
