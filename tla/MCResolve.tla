----------------------------- MODULE MCResolve ------------------------------
(***************************************************************************)
(* Four requests on two events that may carry one key and one name.        *)
(***************************************************************************)
EXTENDS Resolve, TLC

\* A name resembles itself.
MCAlike == {<<n, n>> : n \in Names}
Symmetric == Permutations(Requests) \cup Permutations(Events)
=============================================================================
