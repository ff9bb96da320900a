----------------------------- MODULE Escalation -----------------------------
(***************************************************************************)
(* SLA escalation, computed on read.  Readers (GET /leads, GET /leads/id   *)
(* and the two dashboard pages) walk over routes inside one transaction:   *)
(* a route read as lapsed and not escalated is flagged in the session with *)
(* an `escalated' receipt, and the flag is flushed, which locks the row,   *)
(* before the next SELECT.  act() re-routes concurrently.                  *)
(*                                                                         *)
(* The list queries have no ORDER BY, so two readers may walk over the     *)
(* same routes in different orders.                                        *)
(***************************************************************************)
EXTENDS Integers, Sequences, FiniteSets

CONSTANTS Routes, Readers,
          Hours,     \* the SLA lengths of the routing rules, in clock ticks
          MaxClock,  \* a bound on the clock
          NoRoute    \* nothing waits to be flushed

ASSUME HoursAssumption == Hours \subseteq Nat \ {0}
ASSUME MaxClockAssumption == MaxClock \in Nat
ASSUME NoRouteAssumption == NoRoute \notin Routes

VARIABLES
  clock,
  route,     \* route[x]: sla_deadline and escalated, as committed
  receipts,  \* receipts[x]: number of `escalated' receipts of x
  lapsed,    \* history: the routes some deadline of which has passed
  due,       \* history: the last tick at which x, as committed, had not lapsed
  overlap,   \* history: two requests have been open at a time
  reader     \* reader[r]: the request of r and its open transaction

vars == <<clock, route, receipts, lapsed, due, overlap, reader>>

RouteRow == [deadline : Nat, escalated : BOOLEAN]

\* asked: the routes the request walks over; todo: those still to be read;
\* dirty: the one flagged but not flushed; wrote: those flushed, hence locked;
\* opened: when the request arrived.
Reader == [state : {"idle", "open", "done", "failed"}, asked : SUBSET Routes,
           todo : Seq(Routes), dirty : Routes \cup {NoRoute},
           wrote : SUBSET Routes, opened : Nat]

Idle == [state |-> "idle", asked |-> {}, todo |-> <<>>, dirty |-> NoRoute,
         wrote |-> {}, opened |-> 0]

Init ==
  /\ clock = 0
  /\ route \in [Routes -> {[deadline |-> h, escalated |-> FALSE] : h \in Hours}]
  /\ receipts = [x \in Routes |-> 0]
  /\ lapsed = {}
  /\ due = [x \in Routes |-> route[x].deadline]
  /\ overlap = FALSE
  /\ reader = [r \in Readers |-> Idle]

\* Variant: a breach is noticed a tick late.
BreachedLate(x, now) == route[x].deadline + 1 < now

\* is_sla_breached: a route exactly on its deadline is not breached.
Breached(x, now) == route[x].deadline < now

Tick ==
  /\ clock < MaxClock
  /\ clock' = clock + 1
  /\ lapsed' = lapsed \cup {x \in Routes : route[x].deadline < clock'}
  /\ UNCHANGED <<route, receipts, due, overlap, reader>>

Locked(x) == \E r \in Readers : x \in reader[r].wrote

\* Variant: the deadline lies before the re-route.
ReroutedBack(row, at, h) == [row EXCEPT !.deadline = at - h]

\* route_lead on an existing route: a fresh deadline; escalated is not a
\* column it writes.
Rerouted(row, at, h) == [row EXCEPT !.deadline = at + h]

\* act() takes the time before it waits for the route's row and commits.  An
\* act() that outlasts its SLA commits a deadline that has passed.
Reroute(x, at, h) ==
  /\ ~Locked(x)
  /\ clock < MaxClock
  /\ route' = [route EXCEPT ![x] = Rerouted(@, at, h)]
  /\ lapsed' = lapsed \cup {y \in {x} : route'[y].deadline < clock}
  /\ due' = [due EXCEPT ![x] = IF route'[x].deadline < clock THEN clock
                               ELSE route'[x].deadline]
  /\ UNCHANGED <<clock, receipts, overlap, reader>>

-----------------------------------------------------------------------------
(* A reader                                                                *)

Orders == {s \in UNION {[1 .. n -> Routes] : n \in 1 .. Cardinality(Routes)} :
             \A i, j \in DOMAIN s : s[i] = s[j] => i = j}

Open(r, order) ==
  /\ reader[r].state = "idle"
  /\ reader' = [reader EXCEPT ![r] =
       [Idle EXCEPT !.state = "open", !.asked = {order[i] : i \in DOMAIN order},
                    !.todo = order, !.opened = clock]]
  /\ overlap' = (overlap \/ \E s \in Readers : reader[s].state = "open")
  /\ UNCHANGED <<clock, route, receipts, lapsed, due>>

\* Variant: the flag is not looked at.
FlagsAgain(x) == Breached(x, clock)

\* evaluate_escalation on the route as committed now.
Flags(x) == ~route[x].escalated /\ Breached(x, clock)

Evaluate(r) ==
  /\ reader[r].state = "open"
  /\ reader[r].dirty = NoRoute /\ reader[r].todo # <<>>
  /\ LET x == Head(reader[r].todo)
     IN reader' = [reader EXCEPT
          ![r].todo = Tail(@),
          ![r].dirty = IF Flags(x) THEN x ELSE NoRoute]
  /\ UNCHANGED <<clock, route, receipts, lapsed, due, overlap>>

\* The UPDATE that the next SELECT, or the commit, flushes.  It sets the flag
\* whatever the row holds by now, and waits for whoever has the row locked.
Flush(r) ==
  /\ reader[r].state = "open" /\ reader[r].dirty # NoRoute
  /\ ~Locked(reader[r].dirty)
  /\ reader' = [reader EXCEPT ![r].wrote = @ \cup {reader[r].dirty},
                              ![r].dirty = NoRoute]
  /\ UNCHANGED <<clock, route, receipts, lapsed, due, overlap>>

Escalate(x, r) == [route[x] EXCEPT !.escalated = @ \/ x \in reader[r].wrote]

Commit(r) ==
  /\ reader[r].state = "open"
  /\ reader[r].dirty = NoRoute /\ reader[r].todo = <<>>
  /\ route' = [x \in Routes |-> Escalate(x, r)]
  /\ receipts' = [x \in Routes |->
                    receipts[x] + IF x \in reader[r].wrote THEN 1 ELSE 0]
  /\ reader' = [reader EXCEPT ![r].state = "done", ![r].wrote = {}]
  /\ UNCHANGED <<clock, lapsed, due, overlap>>

\* Variant: the session is not closed, the rows stay locked.
RollbackHolding(r) ==
  /\ reader' = [reader EXCEPT ![r] =
       [Idle EXCEPT !.state = "failed", !.wrote = reader[r].wrote]]
  /\ UNCHANGED <<clock, route, receipts, lapsed, due, overlap>>

Rollback(r) ==
  /\ reader' = [reader EXCEPT ![r] = [Idle EXCEPT !.state = "failed"]]
  /\ UNCHANGED <<clock, route, receipts, lapsed, due, overlap>>

WaitsFor(r, s) == reader[r].dirty \in reader[s].wrote

\* The database breaks a cycle of waiting transactions by failing one of them.
Deadlocked(r) ==
  \E cycle \in SUBSET Readers :
    /\ r \in cycle
    /\ \A s \in cycle : \E t \in cycle \ {s} : WaitsFor(s, t)

DeadlockAbort(r) == Deadlocked(r) /\ Rollback(r)

Cancel(r) == reader[r].state = "open" /\ Rollback(r)

Step(r) == Evaluate(r) \/ Flush(r) \/ Commit(r) \/ DeadlockAbort(r)

Next ==
  \/ Tick
  \/ \E x \in Routes, at \in 0 .. clock, h \in Hours : Reroute(x, at, h)
  \/ \E r \in Readers :
       \/ \E order \in Orders : Open(r, order)
       \/ Step(r)
       \/ Cancel(r)

Spec == Init /\ [][Next]_vars

\* A request in progress keeps running and the database resolves deadlocks;
\* nothing obliges anyone to read.
FairSpec == Spec /\ \A r \in Readers : WF_vars(Step(r))

-----------------------------------------------------------------------------
(* Properties                                                              *)

\* The shape of every variable.
TypeOK ==
  /\ clock \in 0 .. MaxClock
  /\ route \in [Routes -> RouteRow]
  /\ receipts \in [Routes -> Nat]
  /\ lapsed \subseteq Routes
  /\ due \in [Routes -> Nat]
  /\ overlap \in BOOLEAN
  /\ reader \in [Readers -> Reader]

\* The flag and the receipts never disagree: a route is escalated exactly when
\* a receipt accounts for it (escalation.py:24-26), and only if some deadline
\* of it did pass, however reads, re-routes and rollbacks interleave.  Reads
\* that do not overlap write one receipt per route at most, whatever re-routes
\* set its deadline afresh in between (overlapping reads may both pass the
\* guard of evaluate_escalation).
EscalationAccounted ==
  \A x \in Routes :
    /\ route[x].escalated <=> receipts[x] > 0
    /\ route[x].escalated => x \in lapsed
    /\ receipts[x] <= 1 \/ overlap

\* A request that answered has left no route it walked over lapsed since before
\* it arrived and yet not escalated.  (A deadline that had passed when it was
\* committed counts from the commit on: nobody could see it earlier.)
AnsweredReadsEscalate ==
  \A r \in Readers : reader[r].state = "done" =>
    \A x \in reader[r].asked :
      due[x] < reader[r].opened => route[x].escalated

\* Every request that is opened ends, deadlocks between list requests included
\* (one of them then fails).
EveryReadEnds ==
  \A r \in Readers :
    reader[r].state = "open" ~> reader[r].state \in {"done", "failed"}
=============================================================================
