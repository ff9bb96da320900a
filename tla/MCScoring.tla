----------------------------- MODULE MCScoring ------------------------------
(***************************************************************************)
(* Every confidence that the column Numeric(3, 2) holds.                   *)
(***************************************************************************)
EXTENDS Scoring

MCConfidences == -999 .. 999
=============================================================================
