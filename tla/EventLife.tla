----------------------------- MODULE EventLife ------------------------------
(***************************************************************************)
(* What the service promises about one accepted event, free of requests,   *)
(* sessions and retries.  The event gets an identity, by itself or through *)
(* a reviewer, and only then a lead; a failure puts it on the dead-letter  *)
(* worklist, and it leaves the worklist only with a lead.  Nothing that    *)
(* was reached is ever undone but the entry on the worklist.               *)
(***************************************************************************)
VARIABLES accepted,  \* the event is stored
          linked,    \* it has an identity
          review,    \* its manual review: none, pending or resolved
          listed,    \* it is on the dead-letter worklist
          lead       \* it has contributed to a lead

vars == <<accepted, linked, review, listed, lead>>

Init == /\ accepted = FALSE /\ linked = FALSE /\ review = "none"
        /\ listed = FALSE /\ lead = FALSE

Accept == /\ accepted' = TRUE
          /\ UNCHANGED <<linked, review, listed, lead>>

\* Resolution by a key, or by a name that resembles none.
Link == /\ accepted
        /\ linked' = TRUE
        /\ UNCHANGED <<accepted, review, listed, lead>>

Queue == /\ accepted /\ review = "none"
         /\ review' = "pending"
         /\ UNCHANGED <<accepted, linked, listed, lead>>

\* A review is decided once, and the identity comes with the decision.
Decide == /\ review = "pending"
          /\ review' = "resolved" /\ linked' = TRUE
          /\ UNCHANGED <<accepted, listed, lead>>

List == /\ accepted
        /\ listed' = TRUE
        /\ UNCHANGED <<accepted, linked, review, lead>>

Unlist == /\ lead
          /\ listed' = FALSE
          /\ UNCHANGED <<accepted, linked, review, lead>>

Produce == /\ linked
           /\ lead' = TRUE
           /\ UNCHANGED <<accepted, linked, review, listed>>

Next == Accept \/ Link \/ Queue \/ Decide \/ List \/ Unlist \/ Produce

Spec == Init /\ [][Next]_vars

-----------------------------------------------------------------------------
\* The stages come in order: a lead and a decided review have an identity, and
\* nothing happens to an event that is not accepted.
InOrder == /\ lead \/ review = "resolved" => linked
           /\ linked \/ review # "none" \/ listed => accepted

\* No stage is taken back; only a lead takes the event off the worklist.
NothingUndone ==
  [][/\ accepted => accepted'
     /\ linked => linked'
     /\ review # "none" => review' # "none"
     /\ review = "resolved" => review' = "resolved"
     /\ lead => lead'
     /\ listed => listed' \/ lead']_vars

\* Somebody who looks for the event finds it: under a lead, among the reviews
\* or on the worklist.
Settled == lead \/ review = "pending" \/ listed

Settles == accepted ~> Settled
=============================================================================
