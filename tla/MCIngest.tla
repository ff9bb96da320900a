------------------------------ MODULE MCIngest ------------------------------
(***************************************************************************)
(* Three payloads of one event: pa and pb project to the same column       *)
(* value, pd to another.                                                   *)
(***************************************************************************)
EXTENDS Ingest, TLC

CONSTANTS pa, pb, pd, fa, fb

MCPayloads == {pa, pb, pd}
MCFields == {fa, fb}
MCFieldOf == pa :> fa @@ pb :> fa @@ pd :> fb

Symmetric == Permutations(Requests)
=============================================================================
