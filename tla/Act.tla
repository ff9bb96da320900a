-------------------------------- MODULE Act --------------------------------
(***************************************************************************)
(* act(): the last stage of the pipeline, for the requests that reach it   *)
(* with one and the same identity.  (Requests of different identities      *)
(* touch disjoint rows.)  The identity's lead, route and attribution touch *)
(* are one row each, guarded by a unique key.                              *)
(*                                                                         *)
(* Every request runs in a database transaction of its own under READ      *)
(* COMMITTED: a SELECT sees what is committed at that moment, a write is   *)
(* seen by others once the transaction commits, and a row written (or a    *)
(* unique key inserted) by an open transaction is locked until it ends.    *)
(* One action is one statement of act(), or the flush of pending writes    *)
(* that the session performs before it.  What a transaction has written is *)
(* kept with the request until Commit installs it.                         *)
(***************************************************************************)
EXTENDS Attribution, FiniteSets

CONSTANTS Requests,  \* the requests that run act(), each once
          Queues     \* the queues of the routing rules

VARIABLES
  event,      \* events: the row of each event, or NoRow
  lead,       \* leads: source_event_id of the identity's lead, or NoRow
  route,      \* routes: the route of that lead, or NoRow
  touch,      \* attribution_touches: the identity's touch row, or NoRow
  receipts,   \* receipts: number of rows of each action_type
  acted,      \* history: the deliveries whose act() committed
  pc,         \* pc[r]: the statement request r executes next
  job,        \* job[r]: the event as r's session holds it, and the decision
  leadSeen, routeSeen, touchSeen  \* what r's SELECTs returned

tables == <<lead, route, touch, receipts, acted>>
session == <<job, leadSeen, routeSeen, touchSeen>>
vars == <<event, tables, pc, session>>

ActionTypes == {"lead_created", "lead_updated", "routed", "route_updated",
                "attributed_created", "attributed_updated"}

\* The sla_deadline of a route is kept as the queue whose hours it came from.
RouteRow == [queue : Queues, sla : Queues]
Job == [event : Delivery, queue : Queues]

ASSUME NoRowIsNoDatum == NoRow \notin Events \cup Delivery \cup Job
ASSUME NoRowIsNoRoute == NoRow \notin RouteRow

Running == {"lookup", "insert", "update", "route", "flush", "touch", "commit"}
Ended == {"done", "error", "cancelled"}

Init ==
  /\ event = [e \in Events |-> NoRow]
  /\ lead = NoRow /\ route = NoRow /\ touch = NoRow
  /\ receipts = [t \in ActionTypes |-> 0]
  /\ acted = {}
  /\ pc = [r \in Requests |-> "idle"]
  /\ job = [r \in Requests |-> NoRow]
  /\ leadSeen = [r \in Requests |-> NoRow]
  /\ routeSeen = [r \in Requests |-> NoRow]
  /\ touchSeen = [r \in Requests |-> NoRow]

Goto(r, label) == pc' = [pc EXCEPT ![r] = label]

-----------------------------------------------------------------------------
(* Row locks, read off the program counters.                               *)

\* Variants: a cancelled session keeps its lock; the route is written only when
\* it is new; creators do not wait for each other.
HoldsLeadForever(r) == /\ pc[r] \in {"route", "flush", "touch", "commit", "cancelled"}
                       /\ leadSeen[r] # job[r].event.id
HoldsNewRoute(r) == pc[r] \in {"touch", "commit"} /\ routeSeen[r] = NoRow
LeadNeverHeld == TRUE

\* Assigning a column its loaded value does not dirty the row: a lead that
\* already names this event is not written, hence not locked.
WritesLead(r) == leadSeen[r] # job[r].event.id

HoldsLead(r) == /\ pc[r] \in {"route", "flush", "touch", "commit"}
                /\ WritesLead(r)

\* sla_deadline is computed from the clock, so the route is always dirty.
HoldsRoute(r) == pc[r] \in {"touch", "commit"}

LeadFree == \A r \in Requests : ~HoldsLead(r)
RouteFree == \A r \in Requests : ~HoldsRoute(r)

-----------------------------------------------------------------------------
(* The events, as the ingestion endpoint commits them.                     *)

Submit(e, at, content) ==
  /\ event[e] = NoRow
  /\ event' = [event EXCEPT ![e] = [id |-> e, at |-> at, content |-> content,
                                    edited |-> FALSE]]
  /\ UNCHANGED <<tables, pc, session>>

\* The same external id with another payload: the row is rewritten in place.
Edit(e, at, content) ==
  /\ event[e] # NoRow
  /\ event' = [event EXCEPT ![e] = [id |-> e, at |-> at, content |-> content,
                                    edited |-> TRUE]]
  /\ UNCHANGED <<tables, pc, session>>

\* A request holds event e as committed now and has scored it; the pipeline
\* calls act().  Ingestion, an edit, a review and a replay all arrive here.
Begin(r, e, q) ==
  /\ pc[r] = "idle" /\ event[e] # NoRow
  /\ job' = [job EXCEPT ![r] = [event |-> event[e], queue |-> q]]
  /\ Goto(r, "lookup")
  /\ UNCHANGED <<event, tables, leadSeen, routeSeen, touchSeen>>

-----------------------------------------------------------------------------
(* create_or_update_lead                                                   *)

SelectLead(r) ==
  /\ pc[r] = "lookup"
  /\ leadSeen' = [leadSeen EXCEPT ![r] = lead]
  /\ Goto(r, IF lead = NoRow THEN "insert" ELSE "update")
  /\ UNCHANGED <<event, tables, job, routeSeen, touchSeen>>

\* The INSERT waits for an open transaction that holds the unique key.  If a
\* lead was committed meanwhile it fails; the handler rolls back, finds the
\* winner and then reads event.id, which the rollback expired: the request
\* dies there, before it updates the winner's row.
InsertLead(r) ==
  /\ pc[r] = "insert" /\ LeadFree
  /\ Goto(r, IF lead = NoRow THEN "route" ELSE "error")
  /\ UNCHANGED <<event, tables, session>>

UpdateLead(r) ==
  /\ pc[r] = "update"
  /\ WritesLead(r) => LeadFree
  /\ Goto(r, "route")
  /\ UNCHANGED <<event, tables, session>>

-----------------------------------------------------------------------------
(* route_lead and the attribution upsert                                   *)

SelectRoute(r) ==
  /\ pc[r] = "route"
  /\ routeSeen' = [routeSeen EXCEPT ![r] = route]
  /\ Goto(r, "flush")
  /\ UNCHANGED <<event, tables, job, leadSeen, touchSeen>>

\* Inserts the route, or updates the one found; either waits for the row.
\* Losing an insert race here ends like losing one on the lead.
FlushRoute(r) ==
  /\ pc[r] = "flush" /\ RouteFree
  /\ Goto(r, IF routeSeen[r] = NoRow /\ route # NoRow THEN "error" ELSE "touch")
  /\ UNCHANGED <<event, tables, session>>

SelectTouch(r) ==
  /\ pc[r] = "touch"
  /\ touchSeen' = [touchSeen EXCEPT ![r] = touch]
  /\ Goto(r, "commit")
  /\ UNCHANGED <<event, tables, job, leadSeen, routeSeen>>

-----------------------------------------------------------------------------
(* The single commit: lead, route, touch and three receipts                *)

\* Variants: the route has no deadline; an update sends the deadline only; the
\* route's receipt is always the one of a creation.
RouteWithoutSla(r) == [queue |-> job[r].queue]
RouteQueueKept(r) ==
  [queue |-> IF routeSeen[r] # NoRow THEN route.queue ELSE job[r].queue,
   sla   |-> job[r].queue]
WrittenRouted(r) ==
  {IF leadSeen[r] = NoRow THEN "lead_created" ELSE "lead_updated", "routed",
   IF leadSeen[r] = NoRow THEN "attributed_created" ELSE "attributed_updated"}

\* Only the columns that differ from the loaded row are written.
WrittenLead(r) == IF WritesLead(r) THEN job[r].event.id ELSE lead

WrittenRoute(r) ==
  [queue |-> IF routeSeen[r] # NoRow /\ routeSeen[r].queue = job[r].queue
             THEN route.queue ELSE job[r].queue,
   sla   |-> job[r].queue]

\* The attribution receipt follows the lead's operation, not the touch's.
Written(r) ==
  {IF leadSeen[r] = NoRow THEN "lead_created" ELSE "lead_updated",
   IF routeSeen[r] = NoRow THEN "routed" ELSE "route_updated",
   IF leadSeen[r] = NoRow THEN "attributed_created" ELSE "attributed_updated"}

LostTouchRace(r) == touchSeen[r] = NoRow /\ touch # NoRow

Install(r) ==
  /\ lead' = WrittenLead(r)
  /\ route' = WrittenRoute(r)
  /\ touch' = Upsert(touchSeen[r], job[r].event)
  /\ receipts' = [t \in ActionTypes |->
                    receipts[t] + IF t \in Written(r) THEN 1 ELSE 0]
  /\ acted' = acted \cup {job[r].event}

Commit(r) ==
  /\ pc[r] = "commit"
  /\ IF LostTouchRace(r)
     THEN Goto(r, "error") /\ UNCHANGED tables
     ELSE Goto(r, "done") /\ Install(r)
  /\ UNCHANGED <<event, session>>

\* The client disconnects, the worker dies or the connection is lost: the
\* transaction rolls back.
Cancel(r) ==
  /\ pc[r] \in Running
  /\ Goto(r, "cancelled")
  /\ UNCHANGED <<event, tables, session>>

-----------------------------------------------------------------------------
Step(r) == \/ SelectLead(r) \/ InsertLead(r) \/ UpdateLead(r)
           \/ SelectRoute(r) \/ FlushRoute(r) \/ SelectTouch(r) \/ Commit(r)

Next == \/ \E e \in Events, at \in Times, content \in Contents :
             Submit(e, at, content) \/ Edit(e, at, content)
        \/ \E r \in Requests :
             \/ \E e \in Events, q \in Queues : Begin(r, e, q)
             \/ Step(r)
             \/ Cancel(r)

Spec == Init /\ [][Next]_vars

\* A request in progress keeps executing statements; nothing obliges clients
\* to submit, edit, start or cancel anything.
FairSpec == Spec /\ \A r \in Requests : WF_vars(Step(r))

-----------------------------------------------------------------------------
(* Properties                                                              *)

\* The shape of every variable.
TypeOK ==
  /\ event \in [Events -> Delivery \cup {NoRow}]
  /\ lead \in Events \cup {NoRow}
  /\ route \in RouteRow \cup {NoRow}
  /\ touch \in TouchRow \cup {NoRow}
  /\ receipts \in [ActionTypes -> Nat]
  /\ acted \subseteq Delivery
  /\ pc \in [Requests -> {"idle"} \cup Running \cup Ended]
  /\ job \in [Requests -> Job \cup {NoRow}]
  /\ leadSeen \in [Requests -> Events \cup {NoRow}]
  /\ routeSeen \in [Requests -> RouteRow \cup {NoRow}]
  /\ touchSeen \in [Requests -> TouchRow \cup {NoRow}]

\* How many leads, and so routes and touches, the identity has.
Rows == IF lead = NoRow THEN 0 ELSE 1

\* The three rows of an identity come into being together (README: one commit
\* is one business action and its receipts), and the creation receipts count
\* them exactly: what the reconciliation of leads, routes and touches needs,
\* although the touch's receipt is chosen by what happened to the lead.
ReceiptsReconcile ==
  /\ lead = NoRow <=> route = NoRow
  /\ lead = NoRow <=> touch = NoRow
  /\ receipts["lead_created"] = Rows
  /\ receipts["routed"] = Rows
  /\ receipts["attributed_created"] = Rows
  /\ receipts["lead_updated"] = receipts["route_updated"]
  /\ receipts["route_updated"] = receipts["attributed_updated"]

\* Losing an insert race is possible on the lead only: the unique key of leads
\* serializes the creators, so the race branches of route_lead and of
\* upsert_attribution are never taken, and no transaction computes a touch
\* from a row that another one has replaced since.
OnlyLeadRaces ==
  \A r \in Requests :
    /\ pc[r] = "flush" /\ routeSeen[r] = NoRow => route = NoRow
    /\ pc[r] = "commit" => touchSeen[r] = touch

\* Queue and deadline of the route come from two decisions only after two
\* updates: one that had read the route before another one replaced it (the
\* columns that differ from the row that was read are sent).  The creator and
\* the first update leave a route of one decision, whoever races or is
\* cancelled.
MixedByTwoUpdatesOnly ==
  route # NoRow /\ route.queue # route.sla => receipts["route_updated"] >= 2

\* What concurrent acts of an identity can do to one another is confined to
\* these two: a creator that fails, and a route that two updates have mixed.
RacesConfined == OnlyLeadRaces /\ MixedByTwoUpdatesOnly

\* However the acts of an identity interleave, no committed delivery of an
\* event as submitted falls outside the span of its touch row: no update of
\* first or last touch is lost (attribution runs inside act's transaction).
NoTouchLost ==
  \A d \in acted : ~d.edited =>
    /\ touch.first.at <= d.at
    /\ d.at <= touch.last.at

\* The lead and both touches name events that did commit an act.
Traceable ==
  lead # NoRow =>
    /\ \E d \in acted : d.id = lead
    /\ \E d \in acted : d.id = touch.first.event /\ d.at = touch.first.at
    /\ \E d \in acted : d.id = touch.last.event /\ d.at = touch.last.at

\* Row locks are always waited for in the same order, lead before route, so
\* every request that enters act() leaves it.
EveryActEnds ==
  \A r \in Requests : pc[r] = "lookup" ~> pc[r] \in Ended

\* Seen from its tables, act() does one atomic create or update per commit
\* (LeadLedger says what each of them promises).
Ledger == INSTANCE LeadLedger
ImplementsLedger == Ledger!Spec
=============================================================================
