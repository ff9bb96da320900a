--------------------------- MODULE Reconciliation ---------------------------
(***************************************************************************)
(* The dashboard counts while transactions keep committing a row together  *)
(* with its receipt.  The reconciliation report counts each metric once in *)
(* its table and once in receipts, the summary counts events by kind, and  *)
(* the page /dashboard shows both; every count is a statement of its own.  *)
(*                                                                         *)
(* Four metrics stand for the eight pairs: `created' and `rejected' for    *)
(* the tables whose created_at the database fills in (also identities,     *)
(* leads, touches and dead letters), `edited' for the one pair whose       *)
(* receipts are counted by distinct event, and `routes' for the one table  *)
(* whose timestamp the application fills in.  Of the summary the counts    *)
(* that have a partner are kept: events in total, valid and invalid.       *)
(***************************************************************************)
EXTENDS Integers, Sequences, FiniteSets

CONSTANTS Writers, Events,
          MaxClock,  \* a bound on the clock
          None

ASSUME MaxClockAssumption == MaxClock \in Nat

VARIABLES
  clock,
  event,     \* valid events: created_at and is_edit, or None
  rejected,  \* invalid events: created_at of every row
  routes,    \* the assigned_at of every routes row
  receipts,  \* the receipts rows
  writer,    \* writer[w]: its transaction
  report     \* the answer that is being compiled

tables == <<event, rejected, routes, receipts>>
vars == <<clock, tables, writer, report>>

Time == 0 .. MaxClock
Actions == {"event_created", "event_edited", "event_rejected", "routed"}
EventRow == [at : Time, edited : BOOLEAN]
ASSUME NoneAssumption == None \notin Events \cup Actions \cup EventRow
\* event: None for a row that is not among Events.
ReceiptRow == [action : Actions, event : Events \cup {None}, at : Time,
               by : Writers]
RejectedRow == [at : Time, by : Writers]
RouteRow == [at : Time, by : Writers]

\* start: now() of the transaction; app: the clock of the application when
\* the route was built.
Writer == [state : {"idle", "open", "stamped", "committed"},
           action : Actions \cup {None}, event : Events \cup {None},
           start : Time, app : Time]
NoWriter == [state |-> "idle", action |-> None, event |-> None,
             start |-> 0, app |-> 0]

\* Variant: the total is counted after its parts.
SummaryTotalLast == << <<"created", "rows">>, <<"rejected", "rows">>,
                       <<"total", "rows">> >>

\* The queries of each answer, in the order in which they run.
Summary == << <<"total", "rows">>, <<"created", "rows">>,
              <<"rejected", "rows">> >>
Pairs == << <<"created", "rows">>, <<"created", "receipts">>,
            <<"edited", "rows">>, <<"edited", "receipts">>,
            <<"rejected", "rows">>, <<"rejected", "receipts">>,
            <<"routes", "rows">>, <<"routes", "receipts">> >>
Queries == [summary |-> Summary, report |-> Pairs, page |-> Summary \o Pairs]

\* quiet: no commit fell between the queries (history).
Report == [kind : DOMAIN Queries, state : {"idle", "running", "done"},
           since : Time, until : Time, counts : Seq(Nat), quiet : BOOLEAN]
NoReport == [kind |-> "report", state |-> "idle", since |-> 0, until |-> 0,
             counts |-> <<>>, quiet |-> TRUE]

Init ==
  /\ clock = 0
  /\ event = [e \in Events |-> None]
  /\ rejected = {} /\ routes = {} /\ receipts = {}
  /\ writer = [w \in Writers |-> NoWriter]
  /\ report = NoReport

Tick == /\ clock < MaxClock
        /\ clock' = clock + 1
        /\ UNCHANGED <<tables, writer, report>>

-----------------------------------------------------------------------------
(* Transactions                                                            *)

\* An event is created by one transaction and edited by later ones; a body
\* that is rejected gets a row of its own each time.
Begin(w, action, e) ==
  /\ writer[w].state = "idle"
  /\ action = "event_rejected" <=> e = None
  /\ e # None => (action = "event_created" <=> event[e] = None)
  /\ action = "event_created" => \A v \in Writers : writer[v].event # e
  /\ writer' = [writer EXCEPT ![w] = [NoWriter EXCEPT
       !.state = "open", !.action = action, !.event = e, !.start = clock]]
  /\ UNCHANGED <<clock, tables, report>>

\* datetime.now() in route_lead, some statements into the transaction.
Stamp(w) ==
  /\ writer[w].state = "open" /\ writer[w].action = "routed"
  /\ writer' = [writer EXCEPT ![w].state = "stamped", ![w].app = clock]
  /\ UNCHANGED <<clock, tables, report>>

\* Variants: the receipt has no time; it has the time of the commit.
ReceiptUntimed(w) == [action |-> writer[w].action, event |-> writer[w].event,
                      by |-> w]
ReceiptLate(w) == [action |-> writer[w].action, event |-> writer[w].event,
                   at |-> clock, by |-> w]

WrittenReceipt(w) == [action |-> writer[w].action, event |-> writer[w].event,
                      at |-> writer[w].start, by |-> w]

WrittenEvent(w) ==
  LET e == writer[w].event
  IN CASE writer[w].action = "event_created" ->
            [event EXCEPT ![e] = [at |-> writer[w].start, edited |-> FALSE]]
       [] writer[w].action = "event_edited" -> [event EXCEPT ![e].edited = TRUE]
       [] OTHER -> event

WrittenRejected(w) == IF writer[w].action = "event_rejected"
                      THEN rejected \cup {[at |-> writer[w].start, by |-> w]}
                      ELSE rejected

WrittenRoutes(w) == IF writer[w].action = "routed"
                    THEN routes \cup {[at |-> writer[w].app, by |-> w]}
                    ELSE routes

\* The row and its receipt, in one commit.
Commit(w) ==
  /\ writer[w].state = IF writer[w].action = "routed" THEN "stamped" ELSE "open"
  /\ event' = WrittenEvent(w)
  /\ rejected' = WrittenRejected(w)
  /\ routes' = WrittenRoutes(w)
  /\ receipts' = receipts \cup {WrittenReceipt(w)}
  /\ writer' = [writer EXCEPT ![w].state = "committed"]
  /\ report' = [report EXCEPT !.quiet = @ /\ report.state # "running"]
  /\ UNCHANGED clock

-----------------------------------------------------------------------------
(* The counts                                                              *)

Within(at) == report.since <= at /\ at <= report.until

Valid == {e \in Events : event[e] # None /\ Within(event[e].at)}
Invalid == {x \in rejected : Within(x.at)}

CountRows(metric) ==
  CASE metric = "total" -> Cardinality(Valid) + Cardinality(Invalid)
    [] metric = "created" -> Cardinality(Valid)
    [] metric = "rejected" -> Cardinality(Invalid)
    [] metric = "edited" -> Cardinality({e \in Valid : event[e].edited})
    [] metric = "routes" -> Cardinality({x \in routes : Within(x.at)})

Receipted(action) == {x \in receipts : x.action = action /\ Within(x.at)}

\* is_edit is set once and stays: its receipts are counted by event.
CountReceipts(metric) ==
  CASE metric = "created" -> Cardinality(Receipted("event_created"))
    [] metric = "edited" -> Cardinality({x.event : x \in Receipted("event_edited")})
    [] metric = "rejected" -> Cardinality(Receipted("event_rejected"))
    [] metric = "routes" -> Cardinality(Receipted("routed"))

Count(query) == IF query[2] = "rows" THEN CountRows(query[1])
                ELSE CountReceipts(query[1])

\* Without bounds the window is all time, as it always is for the page.
Ask(kind, since, until) ==
  /\ report.state = "idle"
  /\ kind = "page" => since = 0 /\ until = MaxClock
  /\ report' = [NoReport EXCEPT !.kind = kind, !.state = "running",
                                !.since = since, !.until = until]
  /\ UNCHANGED <<clock, tables, writer>>

Query ==
  /\ report.state = "running"
  /\ Len(report.counts) < Len(Queries[report.kind])
  /\ report' = [report EXCEPT
       !.counts = Append(@, Count(Queries[report.kind][Len(@) + 1]))]
  /\ UNCHANGED <<clock, tables, writer>>

Answer ==
  /\ report.state = "running"
  /\ Len(report.counts) = Len(Queries[report.kind])
  /\ report' = [report EXCEPT !.state = "done"]
  /\ UNCHANGED <<clock, tables, writer>>

Next ==
  \/ Tick
  \/ \E w \in Writers :
       \/ \E action \in Actions, e \in Events \cup {None} : Begin(w, action, e)
       \/ Stamp(w) \/ Commit(w)
  \/ \E kind \in DOMAIN Queries, since, until \in Time : Ask(kind, since, until)
  \/ Query \/ Answer

Spec == Init /\ [][Next]_vars

-----------------------------------------------------------------------------
(* Properties                                                              *)

\* The shape of every variable.
TypeOK ==
  /\ clock \in Time
  /\ event \in [Events -> EventRow \cup {None}]
  /\ rejected \subseteq RejectedRow
  /\ routes \subseteq RouteRow /\ receipts \subseteq ReceiptRow
  /\ writer \in [Writers -> Writer]
  /\ report \in Report

Answered(kind) == report.state = "done" /\ report.kind \in {kind, "page"}
AllTime == report.since = 0 /\ report.until = MaxClock

\* Two figures of an answer by their names; on the page the report follows the
\* summary.
Position(queries, query) == CHOOSE i \in DOMAIN queries : queries[i] = query
Summarized(metric) == report.counts[Position(Summary, <<metric, "rows">>)]
Reported(metric, side) ==
  report.counts[Position(Pairs, <<metric, side>>)
                  + IF report.kind = "page" THEN Len(Summary) ELSE 0]

Agree(metric) == Reported(metric, "rows") = Reported(metric, "receipts")
NoVariance == \A metric \in {"created", "edited", "rejected", "routes"} :
                Agree(metric)

\* A report over all time that nothing was committed during shows no variance,
\* however often events were edited and whatever is still open (FR-10).
QuietReportPasses == Answered("report") /\ report.quiet /\ AllTime => NoVariance

\* A window never splits a row of a table stamped by the database from its
\* receipt: both carry now() of one transaction, whenever it commits.
WindowKeepsCreatedPairs ==
  Answered("report") /\ report.quiet => Agree("created") /\ Agree("rejected")

\* A report without commits in between is right.
QuietReportsAgree == QuietReportPasses /\ WindowKeepsCreatedPairs

\* Whatever commits while a summary is compiled, its parts never miss an event
\* that its total has, and the badge on the page never misses an event that
\* the summary above it has; when nothing commits they are equal.
PartsCoverTotal ==
  LET parts == Summarized("created") + Summarized("rejected")
  IN /\ Answered("summary") =>
          /\ Summarized("total") <= parts
          /\ report.quiet => Summarized("total") = parts
     /\ Answered("summary") /\ report.kind = "page" =>
          \A metric \in {"created", "rejected"} :
            /\ Summarized(metric) <= Reported(metric, "rows")
            /\ report.quiet => Summarized(metric) = Reported(metric, "receipts")
=============================================================================
