----------------------------- MODULE ActProofs -----------------------------
(***************************************************************************)
(* Proofs about Act, for any number of requests, events and received_at    *)
(* values.  Everything rests on one inductive invariant: what a session    *)
(* has read about the existence of the lead and the route is still true    *)
(* when it writes, because the lead's unique key admits one creator and    *)
(* every writer holds the route's row lock from before it reads the touch  *)
(* until it commits.                                                       *)
(***************************************************************************)
EXTENDS Act, TLAPS

\* The program counters at which create_or_update_lead has returned.
LeadDone == {"route", "flush", "touch", "commit"}

SessionOK(r) ==
  /\ pc[r] \in Running => job[r] \in Job
  /\ pc[r] = "insert" => leadSeen[r] = NoRow
  /\ pc[r] = "update" => leadSeen[r] # NoRow /\ lead # NoRow
  /\ pc[r] \in LeadDone => (leadSeen[r] = NoRow <=> lead = NoRow)
  /\ pc[r] \in {"flush", "touch", "commit"} =>
       (routeSeen[r] = NoRow <=> leadSeen[r] = NoRow)
  /\ pc[r] = "commit" => touchSeen[r] = touch

Exclusive ==
  \A r, s \in Requests :
    /\ HoldsLead(r) /\ HoldsLead(s) => r = s
    /\ HoldsRoute(r) /\ HoldsRoute(s) => r = s

IInv ==
  /\ TypeOK
  /\ \A r \in Requests : SessionOK(r)
  /\ Exclusive
  /\ ReceiptsReconcile
  /\ acted = {} <=> lead = NoRow

-----------------------------------------------------------------------------
(* What upsert_attribution returns, for every row and every delivery.      *)

\* upsert_attribution returns a touch row, whatever row it found.
LEMMA UpsertType ==
  ASSUME NEW row \in TouchRow \cup {NoRow}, NEW e \in Delivery
  PROVE  /\ Upsert(row, e) \in TouchRow
         /\ Upsert(row, e) # NoRow
<1>1. Point(e) \in TouchPoint
  BY DEF Point, Delivery, TouchPoint
<1>2. ASSUME NEW p \in TouchPoint
      PROVE  /\ Denormalize(p, e) \in TouchPoint
             /\ Earliest(p, e) \in TouchPoint
             /\ Latest(p, e) \in TouchPoint
  BY <1>1 DEF Denormalize, Earliest, Latest, TouchPoint, Delivery
<1>3. Upsert(row, e) \in TouchRow
  BY <1>1, <1>2 DEF Upsert, TouchRow
<1> QED
  BY <1>3, NoRowIsNoTouch

\* It never shrinks the span of an existing row, and the span it returns
\* contains the event unless the event is an edit of an existing row.
LEMMA UpsertSpan ==
  ASSUME NEW row \in TouchRow \cup {NoRow}, NEW e \in Delivery
  PROVE  /\ row # NoRow => /\ Upsert(row, e).first.at <= row.first.at
                           /\ row.last.at <= Upsert(row, e).last.at
         /\ row = NoRow \/ ~e.edited => /\ Upsert(row, e).first.at <= e.at
                                        /\ e.at <= Upsert(row, e).last.at
<1>1. Point(e).at = e.at /\ e.at \in Nat
  BY TimesAreNumbers DEF Point, Delivery
<1>2. CASE row = NoRow
  BY <1>1, <1>2 DEF Upsert
<1>3. CASE row # NoRow
  <2>1. row.first \in TouchPoint /\ row.last \in TouchPoint
    BY <1>3 DEF TouchRow
  <2>2. row.first.at \in Nat /\ row.last.at \in Nat
    BY <2>1, TimesAreNumbers DEF TouchPoint
  <2>3. Denormalize(row.first, e).at = row.first.at
    BY <2>1 DEF Denormalize, TouchPoint
  <2>4. Denormalize(row.last, e).at = row.last.at
    BY <2>1 DEF Denormalize, TouchPoint
  <2>5. CASE e.edited
    BY <1>3, <2>2, <2>3, <2>4, <2>5 DEF Upsert
  <2>6. CASE ~e.edited
    BY <1>1, <1>3, <2>2, <2>6 DEF Upsert, Earliest, Latest
  <2> QED
    BY <2>5, <2>6
<1> QED
  BY <1>2, <1>3

\* Each touch it returns is the old one or the delivered event's, up to the
\* denormalized content.
LEMMA UpsertOrigin ==
  ASSUME NEW row \in TouchRow \cup {NoRow}, NEW e \in Delivery
  PROVE  LET new == Upsert(row, e)
         IN /\ \/ new.first.event = e.id /\ new.first.at = e.at
               \/ /\ row # NoRow
                  /\ new.first.event = row.first.event
                  /\ new.first.at = row.first.at
            /\ \/ new.last.event = e.id /\ new.last.at = e.at
               \/ /\ row # NoRow
                  /\ new.last.event = row.last.event
                  /\ new.last.at = row.last.at
<1>1. Point(e).event = e.id /\ Point(e).at = e.at
  BY DEF Point
<1>2. CASE row = NoRow
  BY <1>1, <1>2 DEF Upsert
<1>3. CASE row # NoRow
  <2>1. ASSUME NEW p \in TouchPoint
        PROVE  Denormalize(p, e).event = p.event /\ Denormalize(p, e).at = p.at
    BY DEF Denormalize, TouchPoint
  <2>2. row.first \in TouchPoint /\ row.last \in TouchPoint
    BY <1>3 DEF TouchRow
  <2> QED
    BY <1>1, <1>3, <2>1, <2>2 DEF Upsert, Earliest, Latest
<1> QED
  BY <1>2, <1>3

-----------------------------------------------------------------------------
(* The inductive invariant                                                 *)

LEMMA InitIInv == Init => IInv
<1> SUFFICES ASSUME Init PROVE IInv
  OBVIOUS
<1>1. TypeOK
  BY DEF Init, TypeOK, ActionTypes, Running, Ended
<1>2. ReceiptsReconcile
  BY DEF Init, ReceiptsReconcile, Rows, ActionTypes
<1>3. \A r \in Requests : SessionOK(r)
  BY DEF Init, SessionOK, Running, LeadDone
<1>4. Exclusive
  BY DEF Init, Exclusive, HoldsLead, HoldsRoute
<1> QED
  BY <1>1, <1>2, <1>3, <1>4 DEF IInv, Init

\* Who commits alone has seen the current tables.
LEMMA CommitFacts ==
  ASSUME IInv, NEW r \in Requests, pc[r] = "commit"
  PROVE  /\ job[r] \in Job /\ job[r].event \in Delivery
         /\ touchSeen[r] = touch
         /\ ~LostTouchRace(r)
         /\ leadSeen[r] = NoRow <=> lead = NoRow
         /\ routeSeen[r] = NoRow <=> lead = NoRow
         /\ lead = NoRow <=> route = NoRow
         /\ lead = NoRow <=> touch = NoRow
         /\ job[r].event.id \in Events /\ job[r].event.id # NoRow
<1>1. SessionOK(r) /\ ReceiptsReconcile
  BY DEF IInv
<1>2. job[r] \in Job /\ job[r].event \in Delivery
  BY <1>1 DEF SessionOK, Running, Job
<1>3. job[r].event.id \in Events /\ job[r].event.id # NoRow
  BY <1>2, NoRowIsNoDatum DEF Delivery
<1> QED
  BY <1>1, <1>2, <1>3 DEF SessionOK, LeadDone, LostTouchRace, ReceiptsReconcile

\* What Commit installs is well typed.
LEMMA CommitType ==
  ASSUME IInv, NEW r \in Requests, Commit(r)
  PROVE  TypeOK'
<1>1. pc[r] = "commit" /\ TypeOK
  BY DEF Commit, IInv
<1> USE <1>1, CommitFacts
<1>2. Install(r) /\ Goto(r, "done") /\ UNCHANGED <<event, session>>
  BY DEF Commit
<1>3. lead' \in Events \cup {NoRow}
  BY <1>2 DEF Install, WrittenLead, TypeOK
<1>4. route' \in RouteRow \cup {NoRow}
  BY <1>2 DEF Install, WrittenRoute, TypeOK, RouteRow, Job
<1>5. touch' \in TouchRow \cup {NoRow}
  BY <1>2, UpsertType DEF Install, TypeOK
<1>6. receipts' \in [ActionTypes -> Nat]
  BY <1>2 DEF Install, TypeOK
<1>7. acted' \subseteq Delivery
  BY <1>2 DEF Install, TypeOK
<1>8. pc' \in [Requests -> {"idle"} \cup Running \cup Ended]
  BY <1>2 DEF Goto, TypeOK, Ended
<1> QED
  BY <1>2, <1>3, <1>4, <1>5, <1>6, <1>7, <1>8 DEF TypeOK, session

\* Its receipts are those of the operation it performed.
LEMMA CommitReceipts ==
  ASSUME IInv, NEW r \in Requests, Commit(r)
  PROVE  /\ ReceiptsReconcile'
         /\ lead' # NoRow
         /\ acted' # {}
<1>1. pc[r] = "commit" /\ TypeOK /\ ReceiptsReconcile
  BY DEF Commit, IInv
<1>2. Install(r)
  BY <1>1, CommitFacts DEF Commit
<1>3. lead' # NoRow
  BY <1>1, <1>2, CommitFacts DEF Install, WrittenLead, WritesLead
<1>4. route' # NoRow
  <2>1. WrittenRoute(r) \in RouteRow
    BY <1>1, CommitFacts DEF WrittenRoute, RouteRow, Job, TypeOK
  <2> QED
    BY <1>2, <2>1, NoRowIsNoRoute DEF Install
<1>5. touch' # NoRow
  BY <1>1, <1>2, CommitFacts, UpsertType DEF Install, TypeOK
<1>6. acted' # {}
  BY <1>2 DEF Install
<1>7. \A t \in ActionTypes :
        /\ receipts[t] \in Nat
        /\ receipts'[t] = receipts[t] + IF t \in Written(r) THEN 1 ELSE 0
  BY <1>1, <1>2 DEF Install, TypeOK
<1>8. /\ leadSeen[r] = NoRow <=> lead = NoRow
      /\ routeSeen[r] = NoRow <=> lead = NoRow
  BY <1>1, CommitFacts
<1>9. /\ receipts'["lead_created"] = 1
      /\ receipts'["routed"] = 1
      /\ receipts'["attributed_created"] = 1
      /\ receipts'["lead_updated"] = receipts'["route_updated"]
      /\ receipts'["route_updated"] = receipts'["attributed_updated"]
  <2>1. CASE lead = NoRow
    <3>1. Written(r) = {"lead_created", "routed", "attributed_created"}
      BY <1>8, <2>1 DEF Written
    <3>2. /\ receipts["lead_created"] = 0
          /\ receipts["routed"] = 0
          /\ receipts["attributed_created"] = 0
          /\ receipts["lead_updated"] = receipts["route_updated"]
          /\ receipts["route_updated"] = receipts["attributed_updated"]
      BY <1>1, <2>1 DEF ReceiptsReconcile, Rows
    <3> QED
      BY <1>7, <3>1, <3>2 DEF ActionTypes
  <2>2. CASE lead # NoRow
    <3>1. Written(r) = {"lead_updated", "route_updated", "attributed_updated"}
      BY <1>8, <2>2 DEF Written
    <3>2. /\ receipts["lead_created"] = 1
          /\ receipts["routed"] = 1
          /\ receipts["attributed_created"] = 1
          /\ receipts["lead_updated"] = receipts["route_updated"]
          /\ receipts["route_updated"] = receipts["attributed_updated"]
      BY <1>1, <2>2 DEF ReceiptsReconcile, Rows
    <3> QED
      BY <1>7, <3>1, <3>2 DEF ActionTypes
  <2> QED
    BY <2>1, <2>2
<1> QED
  BY <1>3, <1>4, <1>5, <1>6, <1>9 DEF ReceiptsReconcile, Rows

-----------------------------------------------------------------------------
\* Steps that leave the tables alone keep what is said of the tables alone.
LEMMA QuietStep ==
  ASSUME IInv, UNCHANGED tables, TypeOK', Exclusive',
         \A r \in Requests : SessionOK(r)'
  PROVE  IInv'
<1>1. ReceiptsReconcile' /\ (acted = {} <=> lead = NoRow)'
  BY DEF IInv, ReceiptsReconcile, Rows, tables
<1> QED
  BY <1>1 DEF IInv

\* The first commit of an identity invalidates what sessions read before it
\* only for those that are still waiting to insert the lead.
LEMMA CommitIInv ==
  ASSUME IInv, NEW r \in Requests, Commit(r)
  PROVE  IInv'
<1>1. /\ pc[r] = "commit" /\ TypeOK /\ Exclusive
      /\ \A s \in Requests : SessionOK(s)
  BY DEF Commit, IInv
<1>2. /\ pc' = [pc EXCEPT ![r] = "done"]
      /\ UNCHANGED <<event, session>>
  BY <1>1, CommitFacts DEF Commit, Goto
<1>3. TypeOK' /\ ReceiptsReconcile' /\ (acted = {} <=> lead = NoRow)'
  BY CommitType, CommitReceipts
<1>4. Exclusive'
  BY <1>1, <1>2
  DEF Exclusive, HoldsLead, HoldsRoute, WritesLead, TypeOK, session
<1>5. ASSUME NEW s \in Requests
      PROVE  SessionOK(s)'
  <2>1. CASE s = r
    BY <1>1, <1>2, <2>1 DEF SessionOK, TypeOK, Running, LeadDone
  <2>2. CASE s # r
    <3>1. /\ pc'[s] = pc[s] /\ job'[s] = job[s] /\ leadSeen'[s] = leadSeen[s]
          /\ routeSeen'[s] = routeSeen[s] /\ touchSeen'[s] = touchSeen[s]
      BY <1>1, <1>2, <2>2 DEF TypeOK, session
    <3>2. lead' # NoRow
      BY CommitReceipts
    <3>3. pc[s] # "commit"
      BY <1>1, <2>2 DEF Exclusive, HoldsRoute
    <3>4. ASSUME pc[s] \in LeadDone, leadSeen[s] = NoRow
          PROVE  FALSE
      <4>1. lead = NoRow /\ job[s] \in Job
        BY <1>1, <3>4 DEF SessionOK, LeadDone, Running
      <4>2. HoldsLead(s)
        BY <3>4, <4>1, NoRowIsNoDatum
        DEF HoldsLead, WritesLead, LeadDone, Job, Delivery
      <4>3. HoldsLead(r)
        BY <1>1, <4>1, CommitFacts DEF HoldsLead, WritesLead
      <4> QED
        BY <1>1, <2>2, <4>2, <4>3 DEF Exclusive
    <3> QED
      BY <1>1, <3>1, <3>2, <3>3, <3>4 DEF SessionOK, LeadDone
  <2> QED
    BY <2>1, <2>2
<1> QED
  BY <1>3, <1>4, <1>5 DEF IInv

LEMMA NextIInv == IInv /\ [Next]_vars => IInv'
<1> SUFFICES ASSUME IInv, [Next]_vars
             PROVE  IInv'
  OBVIOUS
<1>0. /\ TypeOK /\ Exclusive /\ ReceiptsReconcile
      /\ \A s \in Requests : SessionOK(s)
  BY DEF IInv
<1> USE <1>0
<1>1. ASSUME NEW e \in Events, NEW at \in Times, NEW content \in Contents,
             Submit(e, at, content) \/ Edit(e, at, content)
      PROVE  IInv'
  <2>1. UNCHANGED <<tables, pc, session>>
    BY <1>1 DEF Submit, Edit
  <2>2. TypeOK'
    <3>1. PICK d \in Delivery : event' = [event EXCEPT ![e] = d]
      <4>1. \A b \in BOOLEAN : [id |-> e, at |-> at, content |-> content,
                                edited |-> b] \in Delivery
        BY <1>1 DEF Delivery
      <4> QED
        BY <1>1, <4>1 DEF Submit, Edit
    <3>2. event' \in [Events -> Delivery \cup {NoRow}]
      BY <3>1 DEF TypeOK
    <3> QED
      BY <2>1, <3>2 DEF TypeOK, tables, session
  <2>3. Exclusive' /\ \A s \in Requests : SessionOK(s)'
    BY <2>1
    DEF Exclusive, HoldsLead, HoldsRoute, WritesLead, SessionOK, tables,
        session
  <2> QED
    BY <2>1, <2>2, <2>3, QuietStep
<1>2. ASSUME NEW r \in Requests, NEW e \in Events, NEW q \in Queues,
             Begin(r, e, q)
      PROVE  IInv'
  <2>1. /\ pc[r] = "idle" /\ pc' = [pc EXCEPT ![r] = "lookup"]
        /\ job' = [job EXCEPT ![r] = [event |-> event[e], queue |-> q]]
        /\ UNCHANGED <<event, tables, leadSeen, routeSeen, touchSeen>>
    BY <1>2 DEF Begin, Goto
  <2>2. [event |-> event[e], queue |-> q] \in Job
    BY <1>2 DEF Begin, TypeOK, Job
  <2>3. TypeOK'
    BY <2>1, <2>2 DEF TypeOK, tables, Running
  <2>4. Exclusive'
    BY <2>1 DEF Exclusive, HoldsLead, HoldsRoute, WritesLead, TypeOK
  <2>5. \A s \in Requests : SessionOK(s)'
    BY <2>1, <2>2 DEF SessionOK, TypeOK, tables, LeadDone, Running
  <2> QED
    BY <2>1, <2>3, <2>4, <2>5, QuietStep
<1>3. ASSUME NEW r \in Requests, SelectLead(r)
      PROVE  IInv'
  <2>1. /\ pc[r] = "lookup"
        /\ pc' = [pc EXCEPT ![r] = IF lead = NoRow THEN "insert" ELSE "update"]
        /\ leadSeen' = [leadSeen EXCEPT ![r] = lead]
        /\ UNCHANGED <<event, tables, job, routeSeen, touchSeen>>
    BY <1>3 DEF SelectLead, Goto
  <2>2. TypeOK'
    BY <2>1 DEF TypeOK, tables, Running
  <2>3. Exclusive'
    BY <2>1 DEF Exclusive, HoldsLead, HoldsRoute, WritesLead, TypeOK
  <2>4. \A s \in Requests : SessionOK(s)'
    BY <2>1 DEF SessionOK, TypeOK, tables, LeadDone, Running
  <2> QED
    BY <2>1, <2>2, <2>3, <2>4, QuietStep
<1>4. ASSUME NEW r \in Requests, InsertLead(r)
      PROVE  IInv'
  <2>1. /\ pc[r] = "insert" /\ LeadFree
        /\ pc' = [pc EXCEPT ![r] = IF lead = NoRow THEN "route" ELSE "error"]
        /\ UNCHANGED <<event, tables, session>>
    BY <1>4 DEF InsertLead, Goto
  <2>2. TypeOK'
    BY <2>1 DEF TypeOK, tables, session, Running, Ended
  <2>3. Exclusive'
    BY <2>1
    DEF Exclusive, HoldsLead, HoldsRoute, WritesLead, TypeOK, session, LeadFree
  <2>4. \A s \in Requests : SessionOK(s)'
    BY <2>1 DEF SessionOK, TypeOK, tables, session, LeadDone, Running
  <2> QED
    BY <2>1, <2>2, <2>3, <2>4, QuietStep
<1>5. ASSUME NEW r \in Requests, UpdateLead(r)
      PROVE  IInv'
  <2>1. /\ pc[r] = "update" /\ (WritesLead(r) => LeadFree)
        /\ pc' = [pc EXCEPT ![r] = "route"]
        /\ UNCHANGED <<event, tables, session>>
    BY <1>5 DEF UpdateLead, Goto
  <2>2. TypeOK'
    BY <2>1 DEF TypeOK, tables, session, Running
  <2>3. Exclusive'
    BY <2>1
    DEF Exclusive, HoldsLead, HoldsRoute, WritesLead, TypeOK, session, LeadFree
  <2>4. \A s \in Requests : SessionOK(s)'
    BY <2>1 DEF SessionOK, TypeOK, tables, session, LeadDone, Running
  <2> QED
    BY <2>1, <2>2, <2>3, <2>4, QuietStep
<1>6. ASSUME NEW r \in Requests, SelectRoute(r)
      PROVE  IInv'
  <2>1. /\ pc[r] = "route" /\ pc' = [pc EXCEPT ![r] = "flush"]
        /\ routeSeen' = [routeSeen EXCEPT ![r] = route]
        /\ UNCHANGED <<event, tables, job, leadSeen, touchSeen>>
    BY <1>6 DEF SelectRoute, Goto
  <2>2. TypeOK'
    BY <2>1 DEF TypeOK, tables, Running
  <2>3. Exclusive'
    BY <2>1 DEF Exclusive, HoldsLead, HoldsRoute, WritesLead, TypeOK
  <2>4. \A s \in Requests : SessionOK(s)'
    BY <2>1 DEF SessionOK, TypeOK, tables, LeadDone, Running, ReceiptsReconcile
  <2> QED
    BY <2>1, <2>2, <2>3, <2>4, QuietStep
<1>7. ASSUME NEW r \in Requests, FlushRoute(r)
      PROVE  IInv'
  <2>1. /\ pc[r] = "flush" /\ RouteFree
        /\ pc' = [pc EXCEPT ![r] = IF routeSeen[r] = NoRow /\ route # NoRow
                                   THEN "error" ELSE "touch"]
        /\ UNCHANGED <<event, tables, session>>
    BY <1>7 DEF FlushRoute, Goto
  <2>2. TypeOK'
    BY <2>1 DEF TypeOK, tables, session, Running, Ended
  <2>3. Exclusive'
    BY <2>1
    DEF Exclusive, HoldsLead, HoldsRoute, WritesLead, TypeOK, session,
        RouteFree
  <2>4. \A s \in Requests : SessionOK(s)'
    BY <2>1 DEF SessionOK, TypeOK, tables, session, LeadDone, Running
  <2> QED
    BY <2>1, <2>2, <2>3, <2>4, QuietStep
<1>8. ASSUME NEW r \in Requests, SelectTouch(r)
      PROVE  IInv'
  <2>1. /\ pc[r] = "touch" /\ pc' = [pc EXCEPT ![r] = "commit"]
        /\ touchSeen' = [touchSeen EXCEPT ![r] = touch]
        /\ UNCHANGED <<event, tables, job, leadSeen, routeSeen>>
    BY <1>8 DEF SelectTouch, Goto
  <2>2. TypeOK'
    BY <2>1 DEF TypeOK, tables, Running
  <2>3. Exclusive'
    BY <2>1 DEF Exclusive, HoldsLead, HoldsRoute, WritesLead, TypeOK
  <2>4. \A s \in Requests : SessionOK(s)'
    BY <2>1 DEF SessionOK, TypeOK, tables, LeadDone, Running
  <2> QED
    BY <2>1, <2>2, <2>3, <2>4, QuietStep
<1>9. ASSUME NEW r \in Requests, Cancel(r)
      PROVE  IInv'
  <2>1. /\ pc[r] \in Running /\ pc' = [pc EXCEPT ![r] = "cancelled"]
        /\ UNCHANGED <<event, tables, session>>
    BY <1>9 DEF Cancel, Goto
  <2>2. TypeOK'
    BY <2>1 DEF TypeOK, tables, session, Ended
  <2>3. Exclusive'
    BY <2>1 DEF Exclusive, HoldsLead, HoldsRoute, WritesLead, TypeOK, session
  <2>4. \A s \in Requests : SessionOK(s)'
    BY <2>1 DEF SessionOK, TypeOK, tables, session, LeadDone, Running
  <2> QED
    BY <2>1, <2>2, <2>3, <2>4, QuietStep
<1>10. CASE UNCHANGED vars
  <2>1. TypeOK'
    BY <1>10 DEF vars, tables, session, TypeOK
  <2>2. Exclusive' /\ \A s \in Requests : SessionOK(s)'
    BY <1>10
    DEF vars, tables, session, Exclusive, HoldsLead, HoldsRoute, WritesLead,
        SessionOK
  <2> QED
    BY <1>10, <2>1, <2>2, QuietStep DEF vars
<1> QED
  BY <1>1, <1>2, <1>3, <1>4, <1>5, <1>6, <1>7, <1>8, <1>9, <1>10, CommitIInv
  DEF Next, Step

LEMMA Invariance == Spec => []IInv
<1> QED
  BY InitIInv, NextIInv, PTL DEF Spec

-----------------------------------------------------------------------------
\* The tables and the sessions of act() always hold what their types say.
THEOREM TypeInvariant == Spec => []TypeOK
<1>1. IInv => TypeOK
  BY DEF IInv
<1> QED
  BY <1>1, Invariance, PTL

\* For any number of concurrent requests: one lead, one route, one touch row,
\* and creation receipts that count them.
THEOREM Reconciliation == Spec => []ReceiptsReconcile
<1>1. IInv => ReceiptsReconcile
  BY DEF IInv
<1> QED
  BY <1>1, Invariance, PTL

\* No update of the first or last touch is lost.
THEOREM TouchesKept == Spec => []NoTouchLost
<1>1. Init => NoTouchLost
  BY DEF Init, NoTouchLost
<1>2. IInv /\ NoTouchLost /\ [Next]_vars => NoTouchLost'
  <2> SUFFICES ASSUME IInv, NoTouchLost, [Next]_vars
               PROVE  NoTouchLost'
    OBVIOUS
  <2>1. CASE UNCHANGED tables
    BY <2>1 DEF NoTouchLost, tables
  <2>2. ASSUME NEW r \in Requests, Commit(r)
        PROVE  NoTouchLost'
    <3>1. /\ job[r].event \in Delivery /\ Install(r) /\ touchSeen[r] = touch
          /\ (lead = NoRow <=> touch = NoRow)
          /\ touch \in TouchRow \cup {NoRow} /\ acted \subseteq Delivery
      BY <2>2, CommitFacts DEF Commit, IInv, TypeOK
    <3>2. touch' = Upsert(touch, job[r].event) /\ touch' \in TouchRow
      BY <3>1, UpsertType DEF Install
    <3>3. /\ touch'.first.at \in Nat /\ touch'.last.at \in Nat
          /\ touch # NoRow => touch.first.at \in Nat /\ touch.last.at \in Nat
      BY <3>1, <3>2, TimesAreNumbers DEF TouchRow, TouchPoint
    <3>4. ASSUME NEW d \in acted, ~d.edited
          PROVE  touch'.first.at <= d.at /\ d.at <= touch'.last.at
      <4>1. touch # NoRow /\ d.at \in Nat
        BY <3>1, TimesAreNumbers DEF IInv, Delivery
      <4>2. touch.first.at <= d.at /\ d.at <= touch.last.at
        BY <3>4 DEF NoTouchLost
      <4>3. touch'.first.at <= touch.first.at /\ touch.last.at <= touch'.last.at
        BY <3>1, <3>2, <4>1, UpsertSpan
      <4> QED
        BY <3>3, <4>1, <4>2, <4>3
    <3>5. ~job[r].event.edited =>
            /\ touch'.first.at <= job[r].event.at
            /\ job[r].event.at <= touch'.last.at
      BY <3>1, <3>2, UpsertSpan
    <3> QED
      BY <3>1, <3>4, <3>5 DEF NoTouchLost, Install
  <2> QED
    BY <2>1, <2>2
    DEF Next, Step, Submit, Edit, Begin, SelectLead, InsertLead, UpdateLead,
        SelectRoute, FlushRoute, SelectTouch, Cancel, vars
<1> QED
  BY <1>1, <1>2, Invariance, PTL DEF Spec

\* The lead and both touches name events whose act committed.
THEOREM Traceability == Spec => []Traceable
<1>1. Init => Traceable
  BY DEF Init, Traceable
<1>2. IInv /\ Traceable /\ [Next]_vars => Traceable'
  <2> SUFFICES ASSUME IInv, Traceable, [Next]_vars
               PROVE  Traceable'
    OBVIOUS
  <2>1. CASE UNCHANGED tables
    BY <2>1 DEF Traceable, tables
  <2>2. ASSUME NEW r \in Requests, Commit(r)
        PROVE  Traceable'
    <3>1. /\ job[r].event \in Delivery /\ Install(r) /\ touchSeen[r] = touch
          /\ (lead = NoRow <=> touch = NoRow)
          /\ (leadSeen[r] = NoRow <=> lead = NoRow)
          /\ job[r].event.id # NoRow
          /\ touch \in TouchRow \cup {NoRow}
      BY <2>2, CommitFacts DEF Commit, IInv, TypeOK
    <3>2. /\ touch' = Upsert(touch, job[r].event)
          /\ job[r].event \in acted' /\ acted \subseteq acted'
      BY <3>1 DEF Install
    <3>3. lead' = job[r].event.id \/ (lead # NoRow /\ lead' = lead)
      BY <3>1 DEF Install, WrittenLead, WritesLead
    <3>4. /\ \/ /\ touch'.first.event = job[r].event.id
                /\ touch'.first.at = job[r].event.at
             \/ /\ touch # NoRow
                /\ touch'.first.event = touch.first.event
                /\ touch'.first.at = touch.first.at
          /\ \/ /\ touch'.last.event = job[r].event.id
                /\ touch'.last.at = job[r].event.at
             \/ /\ touch # NoRow
                /\ touch'.last.event = touch.last.event
                /\ touch'.last.at = touch.last.at
      BY <3>1, <3>2, UpsertOrigin
    <3>5. \E d \in acted' : d.id = lead'
      BY <3>2, <3>3 DEF Traceable
    <3>6. \E d \in acted' : d.id = touch'.first.event /\ d.at = touch'.first.at
      BY <3>1, <3>2, <3>4 DEF Traceable
    <3>7. \E d \in acted' : d.id = touch'.last.event /\ d.at = touch'.last.at
      BY <3>1, <3>2, <3>4 DEF Traceable
    <3> QED
      BY <3>5, <3>6, <3>7 DEF Traceable
  <2> QED
    BY <2>1, <2>2
    DEF Next, Step, Submit, Edit, Begin, SelectLead, InsertLead, UpdateLead,
        SelectRoute, FlushRoute, SelectTouch, Cancel, vars
<1> QED
  BY <1>1, <1>2, Invariance, PTL DEF Spec

-----------------------------------------------------------------------------
\* The module's operators under the names of the instance.
LEMMA LedgerOperators ==
  /\ Ledger!Delivery = Delivery
  /\ \A row, e : Ledger!Upsert(row, e) = Upsert(row, e)
<1>1. Ledger!Delivery = Delivery
  BY DEF Ledger!Delivery, Delivery
<1>2. ASSUME NEW row, NEW e
      PROVE  Ledger!Upsert(row, e) = Upsert(row, e)
  BY DEF Ledger!Upsert, Ledger!Point, Ledger!Denormalize, Ledger!Earliest,
         Ledger!Latest, Upsert, Point, Denormalize, Earliest, Latest
<1> QED
  BY <1>1, <1>2

\* A commit is a create or an update of the ledger.
LEMMA CommitIsLedgerStep ==
  ASSUME IInv, NEW r \in Requests, Commit(r)
  PROVE  Ledger!Next
<1> DEFINE e == job[r].event
           q == job[r].queue
<1>1. /\ pc[r] = "commit" /\ TypeOK /\ ReceiptsReconcile
  BY DEF Commit, IInv
<1>2. /\ Install(r) /\ e \in Delivery /\ q \in Queues
      /\ touchSeen[r] = touch
      /\ (leadSeen[r] = NoRow <=> lead = NoRow)
      /\ (routeSeen[r] = NoRow <=> lead = NoRow)
      /\ (lead = NoRow <=> touch = NoRow)
      /\ e.id # NoRow
  BY <1>1, CommitFacts DEF Commit, Job
<1>3. touch' = Ledger!Upsert(touch, e)
  BY <1>2, LedgerOperators DEF Install
<1>4. ActionTypes = Ledger!CreationReceipts \cup Ledger!UpdateReceipts
  BY DEF ActionTypes, Ledger!CreationReceipts, Ledger!UpdateReceipts
<1>5. CASE lead = NoRow
  <2>1. Written(r) = Ledger!CreationReceipts
    BY <1>2, <1>5 DEF Written, Ledger!CreationReceipts
  <2>2. Ledger!Count(Ledger!CreationReceipts)
    BY <1>2, <1>4, <2>1 DEF Install, Ledger!Count
  <2>3. lead' = e.id /\ route' = [queue |-> q, sla |-> q]
    BY <1>2, <1>5 DEF Install, WrittenLead, WritesLead, WrittenRoute
  <2>4. Ledger!Create(e, q)
    BY <1>2, <1>3, <1>5, <2>2, <2>3 DEF Ledger!Create
  <2> QED
    BY <1>2, <2>4, LedgerOperators DEF Ledger!Next
<1>6. CASE lead # NoRow
  <2>1. Written(r) = Ledger!UpdateReceipts
    BY <1>2, <1>6 DEF Written, Ledger!UpdateReceipts
  <2>2. Ledger!Count(Ledger!UpdateReceipts)
    BY <1>2, <1>4, <2>1 DEF Install, Ledger!Count
  <2>3. lead' \in {lead, e.id}
    BY <1>2 DEF Install, WrittenLead
  <2>4. route' \in {[queue |-> p, sla |-> q] : p \in {route.queue, q}}
    BY <1>2 DEF Install, WrittenRoute
  <2>5. Ledger!Update(e, q)
    BY <1>3, <1>6, <2>2, <2>3, <2>4 DEF Ledger!Update
  <2> QED
    BY <1>2, <2>5, LedgerOperators DEF Ledger!Next
<1> QED
  BY <1>5, <1>6

\* act() under concurrency implements the ledger.
THEOREM Refinement == Spec => ImplementsLedger
<1>1. Init => Ledger!Init
  BY DEF Init, Ledger!Init, ActionTypes, Ledger!CreationReceipts,
         Ledger!UpdateReceipts
<1>2. IInv /\ [Next]_vars => [Ledger!Next]_(Ledger!vars)
  <2> SUFFICES ASSUME IInv, [Next]_vars
               PROVE  [Ledger!Next]_(Ledger!vars)
    OBVIOUS
  <2>1. CASE UNCHANGED tables
    BY <2>1 DEF tables, Ledger!vars
  <2>2. ASSUME NEW r \in Requests, Commit(r)
        PROVE  [Ledger!Next]_(Ledger!vars)
    BY <2>2, CommitIsLedgerStep
  <2> QED
    BY <2>1, <2>2
    DEF Next, Step, Submit, Edit, Begin, SelectLead, InsertLead, UpdateLead,
        SelectRoute, FlushRoute, SelectTouch, Cancel, vars
<1> QED
  BY <1>1, <1>2, Invariance, PTL DEF Spec, ImplementsLedger, Ledger!Spec

-----------------------------------------------------------------------------
(* Waiting: the part of EveryActEnds that fairness has nothing to do with. *)

\* The statements of act() in the order in which a request executes them.
Place == [idle |-> 0, lookup |-> 1, insert |-> 2, update |-> 2, route |-> 3,
          flush |-> 4, touch |-> 5, commit |-> 6,
          done |-> 7, error |-> 7, cancelled |-> 7]

\* Whose end the next statement of r waits for.
Blockers(r) ==
  {s \in Requests : \/ pc[r] = "insert" /\ HoldsLead(s)
                    \/ pc[r] = "update" /\ WritesLead(r) /\ HoldsLead(s)
                    \/ pc[r] = "flush" /\ HoldsRoute(s)}

\* Nobody waits for a request that is not further than itself, so there is no
\* circle of waits, and while a request is in progress one is that waits for
\* nobody.
NobodyStuck ==
  /\ \A r \in Requests : \A s \in Blockers(r) : Place[pc[s]] > Place[pc[r]]
  /\ \A r \in Requests : pc[r] \in Running =>
       \E s \in Requests : pc[s] \in Running /\ Blockers(s) = {}

\* What a request does next is further on, so it takes seven steps at most.
OnlyForward ==
  [][\A r \in Requests : pc'[r] # pc[r] => Place[pc'[r]] > Place[pc[r]]]_vars

\* Row locks are taken in one order, lead before route, by all requests.
THEOREM LocksInOrder == Spec => []NobodyStuck
<1>1. IInv => NobodyStuck
  <2> SUFFICES ASSUME IInv PROVE NobodyStuck
    OBVIOUS
  <2>1. \A s \in Requests : /\ HoldsLead(s) => pc[s] \in LeadDone
                            /\ HoldsRoute(s) => pc[s] \in {"touch", "commit"}
    BY DEF HoldsLead, HoldsRoute, LeadDone
  <2>2. ASSUME NEW r \in Requests, NEW s \in Blockers(r)
        PROVE  Place[pc[s]] > Place[pc[r]]
    <3>1. \/ pc[r] \in {"insert", "update"} /\ pc[s] \in LeadDone
          \/ pc[r] = "flush" /\ pc[s] \in {"touch", "commit"}
      BY <2>1, <2>2 DEF Blockers
    <3> QED
      BY <3>1 DEF Place, LeadDone
  <2>3. ASSUME NEW r \in Requests, pc[r] \in Running
        PROVE  \E s \in Requests : pc[s] \in Running /\ Blockers(s) = {}
    <3>1. ASSUME NEW s \in Requests, HoldsRoute(s)
          PROVE  pc[s] \in Running /\ Blockers(s) = {}
      BY <2>1, <3>1 DEF Blockers, Running
    <3>2. ASSUME RouteFree, NEW s \in Requests, HoldsLead(s)
          PROVE  pc[s] \in Running /\ Blockers(s) = {}
      BY <2>1, <3>2 DEF Blockers, Running, RouteFree, LeadDone
    <3>3. ASSUME RouteFree, LeadFree
          PROVE  Blockers(r) = {}
      BY <3>3 DEF Blockers, RouteFree, LeadFree
    <3> QED
      BY <2>3, <3>1, <3>2, <3>3 DEF RouteFree, LeadFree
  <2> QED
    BY <2>2, <2>3 DEF NobodyStuck
<1> QED
  BY <1>1, Invariance, PTL

\* No statement of act() sends a request back.
THEOREM ActGoesForward == Spec => OnlyForward
<1> DEFINE Forward == \A r \in Requests :
                        pc'[r] # pc[r] => Place[pc'[r]] > Place[pc[r]]
<1>1. IInv /\ [Next]_vars => [Forward]_vars
  <2> SUFFICES ASSUME IInv, Next
               PROVE  Forward
    OBVIOUS
  <2>1. pc \in [Requests -> {"idle"} \cup Running \cup Ended]
    BY DEF IInv, TypeOK
  <2>2. ASSUME NEW e \in Events, NEW at \in Times, NEW content \in Contents,
               Submit(e, at, content) \/ Edit(e, at, content)
        PROVE  Forward
    BY <2>2 DEF Submit, Edit
  <2>3. ASSUME NEW r \in Requests, NEW to \in DOMAIN Place, Goto(r, to),
               Place[to] > Place[pc[r]]
        PROVE  Forward
    BY <2>1, <2>3 DEF Goto
  <2>4. ASSUME NEW r \in Requests, NEW e \in Events, NEW q \in Queues,
               Begin(r, e, q)
        PROVE  Forward
    <3>1. Goto(r, "lookup") /\ pc[r] = "idle"
      BY <2>4 DEF Begin
    <3> QED
      BY <2>3, <3>1 DEF Place
  <2>5. ASSUME NEW r \in Requests, Step(r) \/ Cancel(r)
        PROVE  Forward
    <3>1. \E to \in DOMAIN Place : Goto(r, to) /\ Place[to] > Place[pc[r]]
      BY <2>5
      DEF Step, SelectLead, InsertLead, UpdateLead, SelectRoute, FlushRoute,
          SelectTouch, Commit, Cancel, Running, Place
    <3> QED
      BY <2>3, <3>1
  <2> QED
    BY <2>2, <2>4, <2>5 DEF Next
<1> QED
  BY <1>1, Invariance, PTL DEF Spec, OnlyForward
-----------------------------------------------------------------------------
(* The route as one decision                                               *)

\* Before the first update, every route that was read is the one that was
\* created, and that one is of one decision; the first update keeps it so.
Unmixed ==
  /\ \A r \in Requests : routeSeen[r] # NoRow => route # NoRow
  /\ receipts["route_updated"] = 0 =>
       \A r \in Requests : routeSeen[r] # NoRow => routeSeen[r] = route
  /\ MixedByTwoUpdatesOnly

LEMMA UnmixedStep == IInv /\ Unmixed /\ [Next]_vars => Unmixed'
<1> SUFFICES ASSUME IInv, Unmixed, [Next]_vars
             PROVE  Unmixed'
  OBVIOUS
<1>1. /\ route \in RouteRow \cup {NoRow}
      /\ receipts \in [ActionTypes -> Nat]
      /\ receipts["route_updated"] \in Nat
      /\ routeSeen \in [Requests -> RouteRow \cup {NoRow}]
      /\ lead = NoRow <=> route = NoRow
  BY DEF IInv, TypeOK, ReceiptsReconcile, ActionTypes
<1>2. CASE UNCHANGED <<route, receipts, routeSeen>>
  BY <1>2 DEF Unmixed, MixedByTwoUpdatesOnly
<1>3. ASSUME NEW r \in Requests, SelectRoute(r)
      PROVE  Unmixed'
  BY <1>1, <1>3 DEF SelectRoute, tables, Unmixed, MixedByTwoUpdatesOnly
<1>4. ASSUME NEW r \in Requests, Commit(r), Install(r)
      PROVE  Unmixed'
  <2> DEFINE n == receipts["route_updated"]
  <2>1. /\ route' = WrittenRoute(r) /\ UNCHANGED routeSeen
        /\ receipts' = [t \in ActionTypes |->
                          receipts[t] + IF t \in Written(r) THEN 1 ELSE 0]
    BY <1>4 DEF Commit, Install, session
  <2>2. /\ job[r] \in Job
        /\ routeSeen[r] = NoRow <=> route = NoRow
    BY <1>1, <1>4 DEF Commit, IInv, SessionOK, LeadDone, Running
  <2>3. route' \in RouteRow /\ route' # NoRow /\ route'.sla = job[r].queue
    BY <1>1, <2>1, <2>2, NoRowIsNoRoute DEF WrittenRoute, RouteRow, Job
  <2>4. CASE routeSeen[r] = NoRow
    <3>1. n' = n
      BY <1>1, <2>1, <2>4 DEF Written, ActionTypes
    <3>2. \A s \in Requests : routeSeen[s] = NoRow
      BY <2>2, <2>4 DEF Unmixed
    <3>3. route'.queue = job[r].queue
      BY <2>1, <2>4 DEF WrittenRoute
    <3> QED
      BY <2>1, <2>3, <3>1, <3>2, <3>3 DEF Unmixed, MixedByTwoUpdatesOnly
  <2>5. CASE routeSeen[r] # NoRow
    <3>1. n' = n + 1
      BY <1>1, <2>1, <2>5 DEF Written, ActionTypes
    <3>2. n = 0 => route'.queue = job[r].queue
      BY <2>1, <2>5 DEF Unmixed, WrittenRoute
    <3>3. n # 0 => n' >= 2
      BY <1>1, <3>1
    <3>4. n' # 0
      BY <1>1, <3>1
    <3> QED
      BY <2>1, <2>3, <3>2, <3>3, <3>4 DEF Unmixed, MixedByTwoUpdatesOnly
  <2> QED
    BY <2>4, <2>5
<1>5. CASE UNCHANGED vars
  BY <1>2, <1>5 DEF vars, tables, session
<1> QED
  BY <1>2, <1>3, <1>4, <1>5
  DEF Next, Step, Submit, Edit, Begin, SelectLead, InsertLead, UpdateLead,
      FlushRoute, SelectTouch, Commit, Cancel, tables, session

\* However many acts of an identity interleave: the race branches of route_lead
\* and upsert_attribution are dead code, a touch row is always computed from the
\* committed one, and a route that was updated at most once is of one decision.
THEOREM Races == Spec => []RacesConfined
<1>1. Init => Unmixed
  BY DEF Init, Unmixed, MixedByTwoUpdatesOnly
<1>2. IInv => OnlyLeadRaces
  BY DEF IInv, OnlyLeadRaces, SessionOK, ReceiptsReconcile, LeadDone
<1>3. Unmixed /\ OnlyLeadRaces => RacesConfined
  BY DEF Unmixed, RacesConfined
<1> QED
  BY <1>1, <1>2, <1>3, UnmixedStep, Invariance, PTL DEF Spec
=============================================================================
