------------------------- MODULE MCAttributionOrder -------------------------
(***************************************************************************)
(* Three events, two of them with the same received_at, and two copies.    *)
(***************************************************************************)
EXTENDS AttributionOrder, TLC

CONSTANTS e1, e2, e3, ca, cb

MCEvents == {e1, e2, e3}
MCTimes == {1, 2}
MCContents == {ca, cb}
MCOriginal == e1 :> [at |-> 1, content |-> ca]
           @@ e2 :> [at |-> 2, content |-> ca]
           @@ e3 :> [at |-> 2, content |-> cb]

=============================================================================
