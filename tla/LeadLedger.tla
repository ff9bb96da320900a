----------------------------- MODULE LeadLedger -----------------------------
(***************************************************************************)
(* What act() promises about one identity, free of transactions, sessions  *)
(* and locks: its lead, its route and its touch row appear in one step     *)
(* with the three creation receipts, and from then on every act updates    *)
(* them in one step with the three update receipts.                        *)
(*                                                                         *)
(* The promise is weaker than an atomic update in two places, because a    *)
(* session writes only the columns it believes to have changed: an update  *)
(* may leave the lead naming another event, and may keep the queue of a    *)
(* concurrent decision under its own deadline.  It is not weaker for the   *)
(* touch row, where no update is lost.                                     *)
(***************************************************************************)
EXTENDS Attribution

CONSTANT Queues

VARIABLES lead, route, touch, receipts

vars == <<lead, route, touch, receipts>>

CreationReceipts == {"lead_created", "routed", "attributed_created"}
UpdateReceipts == {"lead_updated", "route_updated", "attributed_updated"}

Init ==
  /\ lead = NoRow /\ route = NoRow /\ touch = NoRow
  /\ receipts = [t \in CreationReceipts \cup UpdateReceipts |-> 0]

Count(types) ==
  receipts' = [t \in CreationReceipts \cup UpdateReceipts |->
                 receipts[t] + IF t \in types THEN 1 ELSE 0]

Create(e, q) ==
  /\ lead = NoRow
  /\ lead' = e.id
  /\ route' = [queue |-> q, sla |-> q]
  /\ touch' = Upsert(NoRow, e)
  /\ Count(CreationReceipts)

Update(e, q) ==
  /\ lead # NoRow
  /\ lead' \in {lead, e.id}
  /\ route' \in {[queue |-> p, sla |-> q] : p \in {route.queue, q}}
  /\ touch' = Upsert(touch, e)
  /\ Count(UpdateReceipts)

Next == \E e \in Delivery, q \in Queues : Create(e, q) \/ Update(e, q)

Spec == Init /\ [][Next]_vars
=============================================================================
