-------------------------- MODULE EscalationProofs --------------------------
(***************************************************************************)
(* Proofs about Escalation, for any routes, readers, SLA lengths and any   *)
(* bound on the clock.  The invariant says what a reader in progress has   *)
(* flagged (Flagged), what it still owes to the routes it was asked for    *)
(* (Covered), and that a reader who is alone flags only what nobody        *)
(* escalated before (Alone).                                               *)
(***************************************************************************)
EXTENDS Escalation, TLAPS

\* What r will escalate if it commits.
Marked(r) == {x \in Routes : x = reader[r].dirty \/ x \in reader[r].wrote}

\* What r has still to read.
Ahead(r) == {reader[r].todo[i] : i \in DOMAIN reader[r].todo}

\* Only a request in progress has changes, and of routes whose deadline did
\* pass; an answered one has read all it was asked for.
Flagged(r) ==
  /\ Marked(r) \subseteq lapsed
  /\ reader[r].state # "open" => Marked(r) = {}
  /\ reader[r].state = "done" => Ahead(r) = {}
  /\ reader[r].opened <= clock

\* A route that had visibly lapsed when r arrived is escalated, is going to be,
\* or is still to be read.
Covered(r) ==
  reader[r].state \in {"open", "done"} =>
    \A x \in reader[r].asked :
      \/ due[x] >= reader[r].opened
      \/ route[x].escalated
      \/ x \in Marked(r) \/ x \in Ahead(r)

\* One reader at a time, and its changes are the first to these routes.
Alone ==
  ~overlap =>
    \A r \in Readers : reader[r].state = "open" =>
      /\ \A s \in Readers : reader[s].state = "open" => s = r
      /\ \A x \in Marked(r) : ~route[x].escalated

\* Inductive: the flags of every reader are true of clocks and routes.
IInv ==
  /\ TypeOK
  /\ \A x \in Routes : route[x].deadline < clock => x \in lapsed
  /\ \A x \in Routes : route[x].deadline <= due[x]
  /\ \A r \in Readers : Flagged(r) /\ Covered(r)
  /\ Alone
  /\ EscalationAccounted

-----------------------------------------------------------------------------
\* A reader before its request is one.
LEMMA IdleType == Idle \in Reader
BY DEF Idle, Reader

\* Nothing has lapsed, and nobody reads, when the system starts.
LEMMA InitIInv == Init => IInv
<1> SUFFICES ASSUME Init PROVE IInv
  OBVIOUS
<1>1. TypeOK
  <2>1. route \in [Routes -> RouteRow]
    <3>1. \A h \in Hours : [deadline |-> h, escalated |-> FALSE] \in RouteRow
      BY HoursAssumption DEF RouteRow
    <3> QED
      BY <3>1 DEF Init
  <2>2. clock \in 0 .. MaxClock
    BY MaxClockAssumption DEF Init
  <2>3. reader \in [Readers -> Reader]
    BY IdleType DEF Init
  <2>4. receipts \in [Routes -> Nat] /\ lapsed \subseteq Routes
    BY DEF Init
  <2>5. overlap \in BOOLEAN
    BY DEF Init
  <2>6. due \in [Routes -> Nat]
    BY <2>1 DEF Init, RouteRow
  <2> QED
    BY <2>1, <2>2, <2>3, <2>4, <2>5, <2>6 DEF TypeOK
<1>2. \A x \in Routes : ~(route[x].deadline < clock)
  BY <1>1, HoursAssumption DEF Init
<1>7. \A x \in Routes : route[x].deadline <= due[x]
  BY <1>1 DEF Init, TypeOK, RouteRow
<1>3. \A r \in Readers : reader[r].state = "idle" /\ Marked(r) = {} /\ reader[r].opened = 0
  BY NoRouteAssumption DEF Init, Idle, Marked
<1>4. \A r \in Readers : Flagged(r) /\ Covered(r)
  BY <1>3 DEF Init, Flagged, Covered
<1>5. Alone
  BY <1>3 DEF Alone
<1>6. EscalationAccounted
  BY HoursAssumption DEF Init, EscalationAccounted
<1> QED
  BY <1>1, <1>2, <1>4, <1>5, <1>6, <1>7 DEF IInv

\* What lapses with the clock is remembered.
LEMMA TickStep ==
  ASSUME IInv, Tick
  PROVE  IInv'
<1>1. TypeOK'
  BY MaxClockAssumption DEF IInv, TypeOK, Tick
<1>2. \A r \in Readers : UNCHANGED <<Marked(r), Ahead(r)>>
  BY DEF Tick, Marked, Ahead
<1>3. \A r \in Readers : Flagged(r)' /\ Covered(r)'
  <2>1. \A r \in Readers : reader[r].opened \in Nat
    BY DEF IInv, TypeOK, Reader
  <2> QED
    BY <1>2, <2>1 DEF IInv, TypeOK, Flagged, Covered, Tick
<1>4. Alone' /\ EscalationAccounted'
  BY <1>2 DEF IInv, Alone, EscalationAccounted, Tick
<1>5. \A x \in Routes : route'[x].deadline < clock' => x \in lapsed'
  BY DEF Tick
<1>6. \A x \in Routes : route'[x].deadline <= due'[x]
  BY DEF Tick, IInv
<1> QED
  BY <1>1, <1>3, <1>4, <1>5, <1>6 DEF IInv

\* A route that is routed again is not due before the clock, even by an act()
\* that took its time long ago, so nobody is late for it.
LEMMA RerouteStep ==
  ASSUME IInv, NEW x \in Routes, NEW at \in 0 .. clock, NEW h \in Hours,
         Reroute(x, at, h)
  PROVE  IInv'
<1>1. /\ route \in [Routes -> RouteRow] /\ at + h \in Nat /\ clock \in Nat
      /\ due \in [Routes -> Nat]
      /\ route' = [route EXCEPT ![x] = Rerouted(route[x], at, h)]
      /\ UNCHANGED <<clock, receipts, overlap, reader>>
  BY HoursAssumption, MaxClockAssumption DEF IInv, TypeOK, Reroute
<1>2. /\ route' \in [Routes -> RouteRow]
      /\ \A y \in Routes : /\ route'[y].escalated = route[y].escalated
                           /\ y # x => route'[y].deadline = route[y].deadline
      /\ route'[x].deadline \in Nat
  BY <1>1 DEF RouteRow, Rerouted
<1>9. /\ lapsed \subseteq lapsed' /\ lapsed' \subseteq Routes
      /\ route'[x].deadline < clock => x \in lapsed'
  BY DEF IInv, TypeOK, Reroute
<1>10. /\ due' \in [Routes -> Nat]
       /\ \A y \in Routes : y # x => due'[y] = due[y]
       /\ due'[x] >= clock /\ due'[x] >= route'[x].deadline
  BY <1>1, <1>2 DEF Reroute
<1>3. TypeOK'
  BY <1>1, <1>2, <1>9, <1>10 DEF IInv, TypeOK
<1>4. \A r \in Readers : UNCHANGED <<Marked(r), Ahead(r)>>
  BY <1>1 DEF Marked, Ahead
<1>5. \A r \in Readers : Flagged(r)'
  BY <1>1, <1>4, <1>9 DEF IInv, Flagged
<1>6. \A r \in Readers : Covered(r)'
  BY <1>1, <1>2, <1>4, <1>10 DEF IInv, TypeOK, Reader, Flagged, Covered
<1>7. Alone' /\ EscalationAccounted'
  BY <1>1, <1>2, <1>4, <1>9 DEF IInv, TypeOK, Alone, EscalationAccounted, Marked
<1>8. \A y \in Routes : /\ route'[y].deadline < clock' => y \in lapsed'
                        /\ route'[y].deadline <= due'[y]
  BY <1>1, <1>2, <1>9, <1>10 DEF IInv
<1> QED
  BY <1>3, <1>5, <1>6, <1>7, <1>8 DEF IInv

-----------------------------------------------------------------------------
\* What is to be shown of a step of one reader that leaves the routes alone.
LEMMA QuietStep ==
  ASSUME IInv, NEW r \in Readers, UNCHANGED <<clock, route, receipts, lapsed, due>>,
         reader'[r] \in Reader, reader' = [reader EXCEPT ![r] = reader'[r]],
         overlap' \in BOOLEAN, overlap => overlap',
         Flagged(r)', Covered(r)',
         ~overlap' /\ reader'[r].state = "open" =>
           /\ \A s \in Readers : reader[s].state = "open" => s = r
           /\ \A x \in Marked(r)' : ~route[x].escalated
  PROVE  IInv'
<1>1. TypeOK'
  BY DEF IInv, TypeOK
<1>2. \A s \in Readers : s # r => reader'[s] = reader[s]
  BY DEF IInv, TypeOK
<1>3. ASSUME NEW s \in Readers, s # r
      PROVE  Flagged(s)' /\ Covered(s)'
  <2>1. UNCHANGED <<Marked(s), Ahead(s)>>
    BY <1>2, <1>3 DEF Marked, Ahead
  <2> QED
    BY <1>2, <1>3, <2>1 DEF IInv, Flagged, Covered
<1>4. Alone'
  <2>1. \A s \in Readers : s # r => UNCHANGED Marked(s)
    BY <1>2 DEF Marked
  <2> QED
    BY <1>2, <2>1 DEF IInv, Alone
<1>5. EscalationAccounted'
  BY DEF IInv, EscalationAccounted, TypeOK
<1> QED
  BY <1>1, <1>3, <1>4, <1>5 DEF IInv

\* What a reader was asked for is all ahead of it.
LEMMA OpenStep ==
  ASSUME IInv, NEW r \in Readers, NEW order \in Orders, Open(r, order)
  PROVE  IInv'
<1> DEFINE new == [Idle EXCEPT !.state = "open",
                     !.asked = {order[i] : i \in DOMAIN order},
                     !.todo = order, !.opened = clock]
<1>1. order \in Seq(Routes)
  BY DEF Orders
<1>2. {order[i] : i \in DOMAIN order} \subseteq Routes
  BY <1>1
<1>3. clock \in Nat
  BY MaxClockAssumption DEF IInv, TypeOK
<1>4. /\ new \in Reader /\ new.state = "open" /\ new.todo = order
      /\ new.asked = {order[i] : i \in DOMAIN order}
      /\ new.dirty = NoRoute /\ new.wrote = {} /\ new.opened = clock
  BY <1>1, <1>2, <1>3 DEF Idle, Reader
<1> HIDE DEF new
<1>5. /\ reader' = [reader EXCEPT ![r] = new]
      /\ overlap' = (overlap \/ \E s \in Readers : reader[s].state = "open")
      /\ reader[r].state = "idle"
      /\ UNCHANGED <<clock, route, receipts, lapsed, due>>
  BY DEF Open, new
<1>6. reader'[r] = new
  BY <1>5 DEF IInv, TypeOK
<1>7. Marked(r)' = {} /\ Ahead(r)' = new.asked
  BY <1>4, <1>6, NoRouteAssumption DEF Marked, Ahead
<1>8. Flagged(r)' /\ Covered(r)'
  BY <1>3, <1>4, <1>5, <1>6, <1>7 DEF Flagged, Covered
<1>9. overlap' \in BOOLEAN /\ (overlap => overlap')
  BY <1>5 DEF IInv, TypeOK
<1> QED
  BY <1>4, <1>5, <1>6, <1>7, <1>8, <1>9, QuietStep

\* What is read is either flagged or needs no flag.
LEMMA EvaluateStep ==
  ASSUME IInv, NEW r \in Readers, Evaluate(r), UNCHANGED overlap
  PROVE  IInv'
<1> DEFINE x == Head(reader[r].todo)
<1>1. /\ reader \in [Readers -> Reader] /\ reader[r] \in Reader
      /\ route \in [Routes -> RouteRow] /\ clock \in Nat
  BY MaxClockAssumption DEF IInv, TypeOK
<1>2. /\ reader[r].state = "open" /\ reader[r].dirty = NoRoute
      /\ reader[r].todo # <<>> /\ reader[r].todo \in Seq(Routes)
      /\ UNCHANGED <<clock, route, receipts, lapsed, due>>
  BY <1>1 DEF Evaluate, Reader
<1>3. x \in Routes /\ Tail(reader[r].todo) \in Seq(Routes)
  BY <1>2
<1>4. /\ reader' = [reader EXCEPT ![r] = reader'[r]]
      /\ reader'[r] \in Reader
      /\ reader'[r].state = "open" /\ reader'[r].todo = Tail(reader[r].todo)
      /\ reader'[r].dirty = IF Flags(x) THEN x ELSE NoRoute
      /\ reader'[r].wrote = reader[r].wrote /\ reader'[r].asked = reader[r].asked
      /\ reader'[r].opened = reader[r].opened
  BY <1>1, <1>2, <1>3 DEF Evaluate, Reader
<1>5. Ahead(r) \subseteq {x} \cup Ahead(r)'
  <2>1. \A i \in DOMAIN reader[r].todo :
          \/ i = 1
          \/ /\ i - 1 \in DOMAIN Tail(reader[r].todo)
             /\ reader[r].todo[i] = Tail(reader[r].todo)[i - 1]
    BY <1>2
  <2>2. reader[r].todo[1] = x
    BY <1>2
  <2> QED
    BY <1>4, <2>1, <2>2 DEF Ahead
<1>6. /\ Marked(r) \subseteq Marked(r)'
      /\ Flags(x) => Marked(r)' = Marked(r) \cup {x}
      /\ ~Flags(x) => Marked(r)' = Marked(r)
  BY <1>2, <1>3, <1>4, NoRouteAssumption DEF Marked
<1>7. Flagged(r)'
  BY <1>1, <1>2, <1>3, <1>4, <1>6 DEF IInv, Flagged, Flags, Breached
<1>8. Covered(r)'
  <2>1. ~Flags(x) => route[x].escalated \/ due[x] >= reader[r].opened
    BY <1>1, <1>3 DEF IInv, TypeOK, Flagged, Flags, Breached, RouteRow, Reader
  <2> QED
    BY <1>2, <1>4, <1>5, <1>6, <2>1 DEF IInv, Covered
<1>9. \A y \in Marked(r)' : ~route[y].escalated \/ overlap
  BY <1>2, <1>6 DEF IInv, Alone, Flags
<1> QED
  BY <1>2, <1>4, <1>7, <1>8, <1>9, QuietStep DEF IInv, TypeOK, Alone

\* A flush moves the route from the session to the transaction.
LEMMA FlushStep ==
  ASSUME IInv, NEW r \in Readers, Flush(r), UNCHANGED overlap
  PROVE  IInv'
<1>1. /\ reader \in [Readers -> Reader] /\ reader[r] \in Reader
      /\ reader[r].state = "open" /\ reader[r].dirty \in Routes
      /\ UNCHANGED <<clock, route, receipts, lapsed, due>>
  BY DEF IInv, TypeOK, Flush, Reader
<1>2. /\ reader' = [reader EXCEPT ![r] = reader'[r]]
      /\ reader'[r] \in Reader
      /\ reader'[r].state = "open" /\ reader'[r].todo = reader[r].todo
      /\ reader'[r].dirty = NoRoute
      /\ reader'[r].wrote = reader[r].wrote \cup {reader[r].dirty}
      /\ reader'[r].asked = reader[r].asked
      /\ reader'[r].opened = reader[r].opened
  BY <1>1 DEF Flush, Reader
<1>3. Marked(r)' = Marked(r) /\ Ahead(r)' = Ahead(r)
  BY <1>1, <1>2, NoRouteAssumption DEF Marked, Ahead
<1>4. Flagged(r)' /\ Covered(r)'
  BY <1>1, <1>2, <1>3 DEF IInv, Flagged, Covered
<1> QED
  BY <1>1, <1>2, <1>3, <1>4, QuietStep DEF IInv, TypeOK, Alone

\* A request that rolls back has nothing to flush, to read or to commit.
LEMMA RolledBack ==
  ASSUME TypeOK, NEW r \in Readers, Rollback(r)
  PROVE  /\ reader' = [reader EXCEPT ![r] = reader'[r]]
         /\ reader'[r] \in Reader /\ reader'[r].state = "failed"
         /\ reader'[r].dirty = NoRoute /\ reader'[r].wrote = {}
         /\ reader'[r].todo = <<>> /\ reader'[r].opened = 0
<1> DEFINE failed == [Idle EXCEPT !.state = "failed"]
<1>1. /\ failed \in Reader /\ failed.state = "failed"
      /\ failed.dirty = NoRoute /\ failed.wrote = {}
      /\ failed.todo = <<>> /\ failed.opened = 0
  <2>1. failed \in Reader
    BY IdleType DEF Reader
  <2> QED
    BY <2>1 DEF Idle
<1>2. reader' = [reader EXCEPT ![r] = failed]
  BY DEF Rollback
<1> HIDE DEF failed
<1>3. reader'[r] = failed
  BY <1>2 DEF TypeOK
<1> QED
  BY <1>1, <1>2, <1>3

\* A reader that rolls back escalates nothing.
LEMMA RollbackStep ==
  ASSUME IInv, NEW r \in Readers, Rollback(r)
  PROVE  IInv'
<1>1. /\ reader \in [Readers -> Reader] /\ clock \in Nat
      /\ UNCHANGED <<clock, route, receipts, lapsed, due, overlap>>
  BY MaxClockAssumption DEF IInv, TypeOK, Rollback
<1>2. /\ reader' = [reader EXCEPT ![r] = reader'[r]]
      /\ reader'[r] \in Reader /\ reader'[r].state = "failed"
      /\ reader'[r].dirty = NoRoute /\ reader'[r].wrote = {}
      /\ reader'[r].opened = 0
  BY RolledBack DEF IInv
<1>3. Marked(r)' = {}
  BY <1>2, NoRouteAssumption DEF Marked
<1>4. Flagged(r)' /\ Covered(r)'
  BY <1>1, <1>2, <1>3 DEF IInv, Flagged, Covered
<1> QED
  BY <1>1, <1>2, <1>4, QuietStep DEF IInv, TypeOK

\* A commit escalates what was marked, once.
LEMMA CommitStep ==
  ASSUME IInv, NEW r \in Readers, Commit(r), UNCHANGED overlap
  PROVE  IInv'
<1>1. /\ reader \in [Readers -> Reader] /\ reader[r] \in Reader
      /\ route \in [Routes -> RouteRow] /\ receipts \in [Routes -> Nat]
      /\ reader[r].state = "open" /\ reader[r].dirty = NoRoute
      /\ reader[r].todo = <<>> /\ UNCHANGED <<clock, lapsed, due, overlap>>
  BY DEF IInv, TypeOK, Commit
<1>2. /\ reader' = [reader EXCEPT ![r] = reader'[r]]
      /\ reader'[r] \in Reader /\ reader'[r].state = "done"
      /\ reader'[r].todo = <<>> /\ reader'[r].dirty = NoRoute
      /\ reader'[r].wrote = {} /\ reader'[r].asked = reader[r].asked
      /\ reader'[r].opened = reader[r].opened
  BY <1>1 DEF Commit, Reader
<1>3. Marked(r) = reader[r].wrote
  BY <1>1, NoRouteAssumption DEF Marked, Reader
<1>4. ASSUME NEW x \in Routes
      PROVE  /\ route'[x] \in RouteRow
             /\ route'[x].deadline = route[x].deadline
             /\ route'[x].escalated <=> route[x].escalated \/ x \in Marked(r)
             /\ receipts'[x] = IF x \in Marked(r) THEN receipts[x] + 1
                               ELSE receipts[x]
  <2>1. /\ route'[x] = [route[x] EXCEPT !.escalated = @ \/ x \in reader[r].wrote]
        /\ receipts'[x] = receipts[x] + IF x \in reader[r].wrote THEN 1 ELSE 0
    BY DEF Commit, Escalate
  <2>2. route[x] \in RouteRow /\ receipts[x] \in Nat
    BY <1>1
  <2>3. receipts'[x] = IF x \in Marked(r) THEN receipts[x] + 1 ELSE receipts[x]
    BY <1>3, <2>1, <2>2
  <2>4. route'[x] \in RouteRow /\ route'[x].deadline = route[x].deadline
    BY <2>1, <2>2 DEF RouteRow
  <2>5. route'[x].escalated <=> route[x].escalated \/ x \in Marked(r)
    BY <1>3, <2>1, <2>2 DEF RouteRow
  <2> QED
    BY <2>3, <2>4, <2>5
<1>5. TypeOK'
  <2>1. route' \in [Routes -> RouteRow]
    BY <1>4 DEF Commit
  <2>2. receipts' \in [Routes -> Nat]
    BY <1>1, <1>4 DEF Commit
  <2> QED
    BY <1>1, <1>2, <2>1, <2>2 DEF IInv, TypeOK
<1>6. \A s \in Readers : s # r => reader'[s] = reader[s]
  BY <1>1, <1>2
<1>7. \A s \in Readers : s # r => UNCHANGED <<Marked(s), Ahead(s)>>
  BY <1>6 DEF Marked, Ahead
<1>8. Marked(r)' = {} /\ Ahead(r) = {} /\ Ahead(r)' = {}
  BY <1>1, <1>2, NoRouteAssumption DEF Marked, Ahead
<1>9. \A s \in Readers : Flagged(s)'
  BY <1>1, <1>2, <1>6, <1>7, <1>8 DEF IInv, Flagged
<1>10. \A s \in Readers : Covered(s)'
  <2>1. \A s \in Readers : reader[s].asked \subseteq Routes
    BY <1>1 DEF Reader
  <2> QED
    BY <1>1, <1>2, <1>4, <1>6, <1>7, <1>8, <2>1 DEF IInv, Covered
<1>11. ~overlap => \A s \in Readers : reader'[s].state # "open"
  BY <1>1, <1>2, <1>6 DEF IInv, Alone
<1>12. EscalationAccounted'
  <2>1. ASSUME NEW x \in Routes
        PROVE  /\ route'[x].escalated <=> receipts'[x] > 0
               /\ route'[x].escalated => x \in lapsed
    BY <1>1, <1>4 DEF IInv, EscalationAccounted, Flagged
  <2>2. ASSUME NEW x \in Routes, ~overlap
        PROVE  receipts'[x] <= 1
    <3>1. x \in Marked(r) => ~route[x].escalated
      BY <1>1, <2>2 DEF IInv, Alone
    <3> QED
      BY <1>1, <1>4, <2>2, <3>1 DEF IInv, EscalationAccounted
  <2> QED
    BY <1>1, <2>1, <2>2 DEF EscalationAccounted
<1> QED
  BY <1>1, <1>4, <1>5, <1>9, <1>10, <1>11, <1>12 DEF IInv, Alone

\* Every step of the specification preserves the invariant.
LEMMA IInvStep == IInv /\ [Next]_vars => IInv'
<1> SUFFICES ASSUME IInv, [Next]_vars PROVE IInv'
  OBVIOUS
<1>1. ASSUME NEW r \in Readers, Step(r) \/ Cancel(r)
      PROVE  IInv'
  BY <1>1, EvaluateStep, FlushStep, CommitStep, RollbackStep
  DEF Step, Cancel, DeadlockAbort, Evaluate, Flush, Commit
<1>2. CASE UNCHANGED vars
  <2>1. \A r \in Readers : UNCHANGED <<Marked(r), Ahead(r)>>
    BY <1>2 DEF vars, Marked, Ahead
  <2>2. \A r \in Readers : Flagged(r)' /\ Covered(r)'
    BY <1>2, <2>1 DEF vars, IInv, Flagged, Covered
  <2>3. Alone'
    BY <1>2, <2>1 DEF vars, IInv, Alone
  <2> QED
    BY <1>2, <2>2, <2>3 DEF vars, IInv, TypeOK, EscalationAccounted
<1> QED
  BY <1>1, <1>2, TickStep, RerouteStep, OpenStep DEF Next

\* So it holds in every reachable state.
LEMMA Invariance == Spec => []IInv
BY InitIInv, IInvStep, PTL DEF Spec

-----------------------------------------------------------------------------
\* Every variable keeps its shape, whatever the interleaving.
THEOREM TypeInvariant == Spec => []TypeOK
<1>1. IInv => TypeOK
  BY DEF IInv
<1> QED
  BY <1>1, Invariance, PTL

\* Flag and receipts agree, only lapsed routes are escalated, and reads that do
\* not overlap write one receipt per route, however often it is re-routed.
THEOREM Accounted == Spec => []EscalationAccounted
<1>1. IInv => EscalationAccounted
  BY DEF IInv
<1> QED
  BY <1>1, Invariance, PTL

\* An answered request has left no route that had lapsed when it arrived
\* without escalation.
THEOREM AnsweredReads == Spec => []AnsweredReadsEscalate
<1>1. IInv => AnsweredReadsEscalate
  <2> SUFFICES ASSUME IInv, NEW r \in Readers, reader[r].state = "done",
                      NEW x \in reader[r].asked,
                      due[x] < reader[r].opened
               PROVE  route[x].escalated
    BY DEF AnsweredReadsEscalate
  <2>1. /\ x \in Routes /\ due[x] \in Nat
        /\ reader[r].opened \in Nat
    BY DEF IInv, TypeOK, Reader
  <2>2. ~(due[x] >= reader[r].opened)
    BY <2>1
  <2> QED
    BY <2>2 DEF IInv, Flagged, Covered
<1> QED
  BY <1>1, Invariance, PTL

-----------------------------------------------------------------------------
(* Waiting: the part of EveryReadEnds that fairness has nothing to do with. *)

\* A request reads every route once: what it has flagged or written is not
\* before it again.
Once(r) ==
  /\ reader[r].dirty \notin reader[r].wrote
  /\ Marked(r) \cap Ahead(r) = {}
  /\ \A i, j \in DOMAIN reader[r].todo :
       reader[r].todo[i] = reader[r].todo[j] => i = j

\* The next statement of r waits for another request.
Blocked(r) ==
  /\ reader[r].state = "open"
  /\ reader[r].dirty # NoRoute /\ Locked(reader[r].dirty)

\* While a request is open, one can go on, or the database has a deadlock to
\* break: nobody waits for its own row, or for one that nobody will release.
NobodyStuck ==
  \A r \in Readers : reader[r].state = "open" =>
    \/ \E s \in Readers : reader[s].state = "open" /\ ~Blocked(s)
    \/ Deadlocked(r)

LEMMA OnceStep ==
  ASSUME TypeOK, \A s \in Readers : Once(s), [Next]_vars
  PROVE  \A s \in Readers : Once(s)'
<1>1. ASSUME NEW r \in Readers, reader' = [reader EXCEPT ![r] = reader'[r]],
             Once(r)'
      PROVE  \A s \in Readers : Once(s)'
  BY <1>1 DEF TypeOK, Once, Marked, Ahead
<1>2. \A s \in Readers : reader[s] \in Reader
  BY DEF TypeOK
<1>3. ASSUME NEW r \in Readers, NEW order \in Orders, Open(r, order)
      PROVE  Once(r)' /\ reader' = [reader EXCEPT ![r] = reader'[r]]
  <2> DEFINE new == [Idle EXCEPT !.state = "open",
                       !.asked = {order[i] : i \in DOMAIN order},
                       !.todo = order, !.opened = clock]
  <2>1. reader' = [reader EXCEPT ![r] = new]
    BY <1>3 DEF Open
  <2>2. new.dirty = NoRoute /\ new.wrote = {} /\ new.todo = order
    BY DEF Idle
  <2> HIDE DEF new
  <2>3. reader'[r] = new
    BY <2>1 DEF TypeOK
  <2>4. \A i, j \in DOMAIN order : order[i] = order[j] => i = j
    BY DEF Orders
  <2>5. Marked(r)' = {}
    BY <2>2, <2>3, NoRouteAssumption DEF Marked
  <2> QED
    BY <2>1, <2>2, <2>3, <2>4, <2>5 DEF Once
<1>4. ASSUME NEW r \in Readers, Evaluate(r)
      PROVE  Once(r)' /\ reader' = [reader EXCEPT ![r] = reader'[r]]
  <2> DEFINE x == Head(reader[r].todo)
             todo == reader[r].todo
  <2>1. /\ todo \in Seq(Routes) /\ todo # <<>> /\ reader[r].dirty = NoRoute
    BY <1>2, <1>4 DEF Evaluate, Reader
  <2>2. /\ reader'[r].todo = Tail(todo) /\ reader'[r].wrote = reader[r].wrote
        /\ reader'[r].dirty \in {x, NoRoute}
        /\ reader' = [reader EXCEPT ![r] = reader'[r]]
    BY <1>2, <1>4 DEF Evaluate, Reader, TypeOK
  <2>3. x = todo[1] /\ 1 \in DOMAIN todo /\ x \in Ahead(r) /\ x \in Routes
    BY <2>1 DEF Ahead
  <2>4. /\ DOMAIN Tail(todo) = 1 .. Len(todo) - 1 /\ Len(todo) \in Nat
        /\ \A i \in DOMAIN Tail(todo) : /\ i \in Nat /\ i + 1 \in DOMAIN todo
                                        /\ Tail(todo)[i] = todo[i + 1]
    BY <2>1
  <2>5. /\ Ahead(r)' \subseteq Ahead(r)
        /\ x \notin Ahead(r)'
    <3>1. \A i \in DOMAIN Tail(todo) : i + 1 # 1
      BY <2>4
    <3>2. \A i \in DOMAIN Tail(todo) : Tail(todo)[i] # x
      BY <2>3, <2>4, <3>1 DEF Once
    <3> HIDE DEF x, todo
    <3>3. Ahead(r)' = {Tail(todo)[i] : i \in DOMAIN Tail(todo)}
      BY <2>2 DEF Ahead
    <3>4. Ahead(r) = {todo[i] : i \in DOMAIN todo}
      BY DEF Ahead, todo
    <3> QED
      BY <2>4, <3>2, <3>3, <3>4
  <2>6. \A i, j \in DOMAIN reader'[r].todo :
          reader'[r].todo[i] = reader'[r].todo[j] => i = j
    <3>1. \A i, j \in DOMAIN Tail(todo) : i + 1 = j + 1 => i = j
      BY <2>4
    <3> QED
      BY <2>2, <2>4, <3>1 DEF Once
  <2>7. x \notin reader[r].wrote /\ NoRoute \notin reader[r].wrote
    BY <1>2, <2>3, NoRouteAssumption DEF Once, Marked, Reader
  <2>8. Marked(r)' \subseteq Marked(r) \cup {x}
    BY <2>2, NoRouteAssumption DEF Marked
  <2> QED
    BY <2>2, <2>5, <2>6, <2>7, <2>8 DEF Once
<1>5. ASSUME NEW r \in Readers, Flush(r)
      PROVE  Once(r)' /\ reader' = [reader EXCEPT ![r] = reader'[r]]
  <2>1. /\ reader'[r].todo = reader[r].todo
        /\ reader'[r].wrote = reader[r].wrote \cup {reader[r].dirty}
        /\ reader'[r].dirty = NoRoute /\ reader[r].dirty \in Routes
        /\ reader' = [reader EXCEPT ![r] = reader'[r]]
    BY <1>2, <1>5 DEF Flush, Reader, TypeOK
  <2>2. Marked(r)' = Marked(r) /\ Ahead(r)' = Ahead(r)
    BY <2>1, NoRouteAssumption DEF Marked, Ahead
  <2>3. NoRoute \notin reader'[r].wrote
    BY <1>2, <2>1, NoRouteAssumption DEF Reader
  <2> QED
    BY <2>1, <2>2, <2>3 DEF Once
<1>6. ASSUME NEW r \in Readers, Commit(r)
      PROVE  Once(r)' /\ reader' = [reader EXCEPT ![r] = reader'[r]]
  <2>1. /\ reader'[r].todo \in {reader[r].todo, <<>>}
        /\ reader'[r].wrote = {} /\ reader'[r].dirty = NoRoute
        /\ reader' = [reader EXCEPT ![r] = reader'[r]]
    BY <1>2, <1>6 DEF Commit, Reader, TypeOK
  <2>2. Marked(r)' = {}
    BY <2>1, NoRouteAssumption DEF Marked
  <2> QED
    BY <2>1, <2>2 DEF Once
<1>7. ASSUME NEW r \in Readers, Rollback(r)
      PROVE  Once(r)' /\ reader' = [reader EXCEPT ![r] = reader'[r]]
  BY <1>7, RolledBack, NoRouteAssumption DEF Once, Marked
<1>8. CASE UNCHANGED reader
  BY <1>8 DEF Once, Marked, Ahead
<1> QED
  BY <1>1, <1>3, <1>4, <1>5, <1>6, <1>7, <1>8
  DEF Next, Step, Cancel, DeadlockAbort, Tick, Reroute, vars

\* However list requests interleave, no request is left waiting unless the
\* database has a deadlock to break.
THEOREM ReadsGoOn == Spec => []NobodyStuck
<1>1. Init => \A s \in Readers : Once(s)
  BY NoRouteAssumption DEF Init, Idle, Once, Marked, Ahead
<1>2. IInv => TypeOK
  BY DEF IInv
<1>3. TypeOK /\ (\A s \in Readers : Once(s)) /\ [Next]_vars
        => (\A s \in Readers : Once(s))'
  BY OnceStep
<1>4. IInv /\ (\A s \in Readers : Once(s)) => NobodyStuck
  <2> SUFFICES ASSUME IInv, \A s \in Readers : Once(s),
                      NEW r \in Readers, reader[r].state = "open",
                      \A s \in Readers : reader[s].state = "open" => Blocked(s)
               PROVE  Deadlocked(r)
    BY DEF NobodyStuck
  <2> DEFINE open == {s \in Readers : Blocked(s)}
  <2>1. ASSUME NEW s \in open
        PROVE  \E t \in open \ {s} : WaitsFor(s, t)
    <3>1. PICK t \in Readers : reader[s].dirty \in reader[t].wrote
      BY <2>1 DEF Blocked, Locked
    <3>2. t # s
      BY <2>1, <3>1 DEF Once
    <3>3. Blocked(t)
      <4>1. reader[s].dirty \in Marked(t)
        BY <2>1, <3>1 DEF IInv, TypeOK, Reader, Marked
      <4>2. reader[t].state = "open"
        BY <4>1 DEF IInv, Flagged
      <4> QED
        BY <4>2
    <3> QED
      BY <3>1, <3>2, <3>3 DEF WaitsFor
  <2>2. r \in open
    OBVIOUS
  <2>3. open \in SUBSET Readers
    OBVIOUS
  <2> QED
    BY <2>1, <2>2, <2>3 DEF Deadlocked
<1> QED
  BY <1>1, <1>2, <1>3, <1>4, Invariance, PTL DEF Spec
=============================================================================
