------------------------ MODULE ReconciliationProofs ------------------------
(***************************************************************************)
(* Proofs about Reconciliation, for any number of transactions and events  *)
(* and any bound on the clock.  The tables are what the transactions that  *)
(* have committed wrote (Written), so a row and its receipt are counted by *)
(* one and the same set of transactions; and the counts of an answer in    *)
(* progress are those of the tables as long as nothing commits, and at     *)
(* most those of the tables where rows only come in (Counted).             *)
(***************************************************************************)
EXTENDS Reconciliation, FiniteSetTheorems, SequenceTheorems, TLAPS

\* The transactions that have committed, and those of one kind.
Done == {w \in Writers : writer[w].state = "committed"}
DoneAs(action) == {w \in Done : writer[w].action = action}

\* A transaction creates an event that nobody else creates, or works for one
\* that is there.
Transaction(w) ==
  LET e == writer[w].event
  IN /\ writer[w].state = "idle" => writer[w].action = None /\ e = None
     /\ writer[w].state # "idle" =>
          /\ writer[w].action \in Actions
          /\ writer[w].action = "event_rejected" <=> e = None
     /\ writer[w].state = "stamped" => writer[w].action = "routed"
     /\ writer[w].action = "event_created" /\ writer[w].state # "committed" =>
          event[e] = None
     /\ writer[w].action \in {"event_edited", "routed"} => event[e] # None
     /\ writer[w].action = "event_created" =>
          \A v \in Writers : /\ writer[v].action = "event_created"
                             /\ writer[v].event = e
                             => v = w

\* The tables, from the transactions that have committed.
Written ==
  /\ IsFiniteSet(Done)
  /\ receipts = {WrittenReceipt(w) : w \in Done}
  /\ rejected = {[at |-> writer[w].start, by |-> w] :
                   w \in DoneAs("event_rejected")}
  /\ routes = {[at |-> writer[w].app, by |-> w] : w \in DoneAs("routed")}
  /\ \A w \in DoneAs("event_created") :
       /\ event[writer[w].event] # None
       /\ event[writer[w].event].at = writer[w].start
  /\ \A e \in Events : event[e] # None =>
       /\ \E w \in DoneAs("event_created") : writer[w].event = e
       /\ event[e].edited
            <=> \E w \in DoneAs("event_edited") : writer[w].event = e

\* The first three counts are those of the summary, the fourth and the eighth
\* those of the badge: each holds what is counted before it, and for what is
\* not counted yet stand the events there are.
Covered(counts, valid, invalid) ==
  /\ Len(counts) = 1 => counts[1] <= valid + invalid
  /\ Len(counts) = 2 => counts[1] <= counts[2] + invalid
  /\ Len(counts) >= 3 => counts[1] <= counts[2] + counts[3]
  /\ Len(counts) >= 2 => counts[2] <= valid
  /\ Len(counts) >= 3 => counts[3] <= invalid
  /\ Len(counts) >= 4 => counts[2] <= counts[4]
  /\ Len(counts) >= 8 => counts[3] <= counts[8]

\* What has been counted so far, and what is left to count of it.
Counted ==
  LET counts == report.counts
      valid == Cardinality(Valid)
      invalid == Cardinality(Invalid)
  IN report.state = "running" =>
       /\ Len(counts) <= Len(Queries[report.kind])
       /\ report.quiet =>
            \A i \in 1 .. Len(counts) :
              counts[i] = Count(Queries[report.kind][i])
       /\ report.kind \in {"summary", "page"} =>
            Covered(counts, valid, invalid)

\* Inductive: tables, transactions and the answer in progress agree.
IInv ==
  /\ TypeOK
  /\ \A w \in Writers : Transaction(w)
  /\ Written
  /\ Counted
  /\ QuietReportsAgree
  /\ PartsCoverTotal

-----------------------------------------------------------------------------
(* Counting                                                                *)

\* A set is as large as another that a map pairs it with.
LEMMA Paired ==
  ASSUME NEW S, NEW T, IsFiniteSet(S), NEW f \in [S -> T],
         \A x, y \in S : f[x] = f[y] => x = y,
         \A y \in T : \E x \in S : f[x] = y
  PROVE  /\ IsFiniteSet(T) /\ Cardinality(T) = Cardinality(S)
         /\ Cardinality(T) \in Nat
<1>1. f \in Bijection(S, T)
  BY DEF Bijection, Injection, Surjection, IsInjective
<1>2. ExistsBijection(S, T)
  BY <1>1 DEF ExistsBijection
<1> QED
  BY <1>2, FS_Bijection, FS_CardinalityType

\* The committed transactions of one kind that lie in the window.
InWindow(action) == {w \in DoneAs(action) : Within(writer[w].start)}

\* What a window can count is finite, as what has committed is.
LEMMA WindowFinite ==
  ASSUME Written, NEW action
  PROVE  /\ IsFiniteSet(DoneAs(action)) /\ IsFiniteSet(InWindow(action))
         /\ Cardinality(InWindow(action)) \in Nat
<1>1. DoneAs(action) \in SUBSET Done /\ InWindow(action) \in SUBSET Done
  BY DEF DoneAs, InWindow
<1> QED
  BY <1>1, FS_Subset, FS_CardinalityType DEF Written

\* Every transaction in the window has its receipt there.
LEMMA ReceiptsCount ==
  ASSUME TypeOK, Written, NEW action \in Actions
  PROVE  /\ IsFiniteSet(Receipted(action))
         /\ Cardinality(Receipted(action)) = Cardinality(InWindow(action))
<1> DEFINE f == [w \in InWindow(action) |-> WrittenReceipt(w)]
<1>1. Receipted(action) = {WrittenReceipt(w) : w \in InWindow(action)}
  BY DEF Written, Receipted, InWindow, DoneAs, WrittenReceipt, Within
<1>2. f \in [InWindow(action) -> Receipted(action)]
  BY <1>1
<1>3. \A v, w \in InWindow(action) : f[v] = f[w] => v = w
  BY DEF WrittenReceipt
<1>4. \A x \in Receipted(action) : \E w \in InWindow(action) : f[w] = x
  BY <1>1
<1> HIDE DEF f
<1> QED
  BY <1>2, <1>3, <1>4, WindowFinite, Paired

\* So has every valid event: the transaction that created it.
LEMMA ValidCount ==
  ASSUME TypeOK, \A w \in Writers : Transaction(w), Written
  PROVE  /\ IsFiniteSet(Valid) /\ Cardinality(Valid) \in Nat
         /\ Cardinality(Valid) = Cardinality(InWindow("event_created"))
         /\ IsFiniteSet({e \in Events : event[e] # None})
<1>1. \A w \in DoneAs("event_created") :
        /\ w \in Writers /\ writer[w].event \in Events
        /\ writer[w].action = "event_created"
  <2> SUFFICES ASSUME NEW w \in DoneAs("event_created")
               PROVE  writer[w].event \in Events
    BY DEF DoneAs, Done
  <2>1. /\ w \in Writers /\ writer[w] \in Writer /\ Transaction(w)
        /\ writer[w].state = "committed" /\ writer[w].action = "event_created"
    BY DEF DoneAs, Done, TypeOK
  <2> QED
    BY <2>1 DEF Transaction, Writer
<1>2. \A v, w \in DoneAs("event_created") :
        writer[v].event = writer[w].event => v = w
  BY <1>1 DEF Transaction
<1>3. /\ \A w \in DoneAs("event_created") :
           /\ event[writer[w].event] # None
           /\ event[writer[w].event].at = writer[w].start
      /\ \A e \in Events : event[e] # None =>
           \E w \in DoneAs("event_created") : writer[w].event = e
  BY DEF Written
<1>4. /\ IsFiniteSet(Valid) /\ Cardinality(Valid) \in Nat
      /\ Cardinality(Valid) = Cardinality(InWindow("event_created"))
  <2> DEFINE f == [w \in InWindow("event_created") |-> writer[w].event]
  <2>1. f \in [InWindow("event_created") -> Valid]
    BY <1>1, <1>3 DEF InWindow, Valid
  <2>2. \A v, w \in InWindow("event_created") : f[v] = f[w] => v = w
    BY <1>2 DEF InWindow
  <2>3. \A e \in Valid : \E w \in InWindow("event_created") : f[w] = e
    BY <1>3 DEF InWindow, Valid
  <2> HIDE DEF f
  <2> QED
    BY <2>1, <2>2, <2>3, WindowFinite, Paired
<1>5. IsFiniteSet({e \in Events : event[e] # None})
  <2> DEFINE f == [w \in DoneAs("event_created") |-> writer[w].event]
             made == {e \in Events : event[e] # None}
  <2>1. f \in [DoneAs("event_created") -> made]
    BY <1>1, <1>3
  <2>2. \A v, w \in DoneAs("event_created") : f[v] = f[w] => v = w
    BY <1>2
  <2>3. \A e \in made : \E w \in DoneAs("event_created") : f[w] = e
    BY <1>3
  <2> HIDE DEF f, made
  <2>4. IsFiniteSet(made)
    BY <2>1, <2>2, <2>3, WindowFinite, Paired
  <2> QED
    BY <2>4 DEF made
<1> QED
  BY <1>4, <1>5

\* A rejected body and its receipt lie in the same windows.
LEMMA InvalidCount ==
  ASSUME TypeOK, Written
  PROVE  /\ IsFiniteSet(Invalid) /\ Cardinality(Invalid) \in Nat
         /\ Cardinality(Invalid) = Cardinality(InWindow("event_rejected"))
<1> DEFINE row(w) == [at |-> writer[w].start, by |-> w]
           f == [w \in InWindow("event_rejected") |-> row(w)]
<1>1. Invalid = {row(w) : w \in InWindow("event_rejected")}
  BY DEF Written, Invalid, InWindow
<1>2. f \in [InWindow("event_rejected") -> Invalid]
  BY <1>1
<1>3. \A v, w \in InWindow("event_rejected") : f[v] = f[w] => v = w
  OBVIOUS
<1>4. \A x \in Invalid : \E w \in InWindow("event_rejected") : f[w] = x
  BY <1>1
<1> HIDE DEF f
<1> QED
  BY <1>2, <1>3, <1>4, WindowFinite, Paired

\* A route is paired with its receipt, whatever the two times, when both are
\* in the window.
LEMMA RoutesCount ==
  ASSUME TypeOK, Written
  PROVE  LET counted == {x \in routes : Within(x.at)}
         IN /\ IsFiniteSet(counted) /\ Cardinality(counted) \in Nat
            /\ AllTime =>
                 Cardinality(counted) = Cardinality(InWindow("routed"))
<1> DEFINE row(w) == [at |-> writer[w].app, by |-> w]
           f == [w \in DoneAs("routed") |-> row(w)]
           counted == {x \in routes : Within(x.at)}
<1>1. routes = {row(w) : w \in DoneAs("routed")}
  BY DEF Written
<1>2. f \in [DoneAs("routed") -> routes]
  BY <1>1
<1>3. \A v, w \in DoneAs("routed") : f[v] = f[w] => v = w
  OBVIOUS
<1>4. \A x \in routes : \E w \in DoneAs("routed") : f[w] = x
  BY <1>1
<1> HIDE DEF f
<1>5. /\ IsFiniteSet(routes)
      /\ Cardinality(routes) = Cardinality(DoneAs("routed"))
  BY <1>2, <1>3, <1>4, WindowFinite, Paired
<1>6. counted \in SUBSET routes
  OBVIOUS
<1>7. IsFiniteSet(counted) /\ Cardinality(counted) \in Nat
  BY <1>5, <1>6, FS_Subset, FS_CardinalityType
<1>8. ASSUME AllTime
      PROVE  counted = routes /\ InWindow("routed") = DoneAs("routed")
  <2>1. \A t \in Time : Within(t)
    BY <1>8 DEF AllTime, Within, Time
  <2>2. \A x \in routes : x.at \in Time
    BY DEF TypeOK, RouteRow
  <2>3. \A w \in Writers : writer[w].start \in Time
    BY DEF TypeOK, Writer
  <2> QED
    BY <2>1, <2>2, <2>3 DEF InWindow, DoneAs, Done
<1> QED
  BY <1>5, <1>7, <1>8

\* An edited event counts once, however many edits it has a receipt of.
LEMMA EditedCount ==
  ASSUME TypeOK, \A w \in Writers : Transaction(w), Written
  PROVE  LET rows == {e \in Valid : event[e].edited}
             edits == {x.event : x \in Receipted("event_edited")}
         IN /\ Cardinality(rows) \in Nat /\ Cardinality(edits) \in Nat
            /\ AllTime => rows = edits
<1> DEFINE rows == {e \in Valid : event[e].edited}
           edits == {x.event : x \in Receipted("event_edited")}
           made == {e \in Events : event[e] # None}
<1>1. \A w \in DoneAs("event_edited") :
        /\ writer[w].event \in made /\ writer[w].start \in Time
        /\ writer[w].action = "event_edited" /\ w \in Done
  <2> SUFFICES ASSUME NEW w \in DoneAs("event_edited")
               PROVE  writer[w].event \in made /\ writer[w].start \in Time
    BY DEF DoneAs
  <2>1. /\ writer[w] \in Writer /\ Transaction(w)
        /\ writer[w].state = "committed" /\ writer[w].action = "event_edited"
    BY DEF DoneAs, Done, TypeOK
  <2>2. /\ writer[w].event # None /\ event[writer[w].event] # None
        /\ writer[w].event \in Events \cup {None} /\ writer[w].start \in Time
    BY <2>1 DEF Transaction, Writer
  <2> QED
    BY <2>2
<1>2. edits = {writer[w].event : w \in InWindow("event_edited")}
  <2>1. Receipted("event_edited")
          = {WrittenReceipt(w) : w \in InWindow("event_edited")}
    BY DEF Written, Receipted, InWindow, DoneAs, WrittenReceipt, Within
  <2>2. \A w : WrittenReceipt(w).event = writer[w].event
    BY DEF WrittenReceipt
  <2> QED
    BY <2>1, <2>2
<1>3. rows \in SUBSET made /\ edits \in SUBSET made
  BY <1>1, <1>2 DEF Valid, InWindow
<1>4. IsFiniteSet(made)
  BY ValidCount
<1>5. Cardinality(rows) \in Nat /\ Cardinality(edits) \in Nat
  <2> HIDE DEF rows, edits, made
  <2> QED
    BY <1>3, <1>4, FS_Subset, FS_CardinalityType
<1>6. ASSUME AllTime
      PROVE  rows = edits
  <2>1. \A t \in Time : Within(t)
    BY <1>6 DEF AllTime, Within, Time
  <2>2. InWindow("event_edited") = DoneAs("event_edited")
    BY <1>1, <2>1 DEF InWindow
  <2>3. Valid = made
    <3>1. \A e \in made : event[e].at \in Time
      BY DEF TypeOK, EventRow
    <3> QED
      BY <2>1, <3>1 DEF Valid
  <2>4. \A e \in made :
          event[e].edited
            <=> \E w \in DoneAs("event_edited") : writer[w].event = e
    BY DEF Written
  <2> QED
    BY <1>1, <1>2, <2>2, <2>3, <2>4
<1> QED
  BY <1>5, <1>6

\* What a pair counts at one moment.
LEMMA CountsAgree ==
  ASSUME TypeOK, \A w \in Writers : Transaction(w), Written
  PROVE  /\ CountRows("created") = CountReceipts("created")
         /\ CountRows("rejected") = CountReceipts("rejected")
         /\ AllTime => /\ CountRows("edited") = CountReceipts("edited")
                       /\ CountRows("routes") = CountReceipts("routes")
         /\ CountRows("total") = CountRows("created") + CountRows("rejected")
         /\ CountRows("created") = Cardinality(Valid)
         /\ CountRows("rejected") = Cardinality(Invalid)
         /\ \A metric \in {"total", "created", "rejected", "edited", "routes"} :
              CountRows(metric) \in Nat
         /\ \A metric \in {"created", "rejected", "edited", "routes"} :
              CountReceipts(metric) \in Nat
<1>1. /\ CountRows("total") = Cardinality(Valid) + Cardinality(Invalid)
      /\ CountRows("created") = Cardinality(Valid)
      /\ CountRows("rejected") = Cardinality(Invalid)
      /\ CountRows("edited") = Cardinality({e \in Valid : event[e].edited})
      /\ CountRows("routes") = Cardinality({x \in routes : Within(x.at)})
  BY DEF CountRows
<1>2. /\ CountReceipts("created") = Cardinality(InWindow("event_created"))
      /\ CountReceipts("rejected") = Cardinality(InWindow("event_rejected"))
      /\ CountReceipts("routes") = Cardinality(InWindow("routed"))
      /\ CountReceipts("edited")
           = Cardinality({x.event : x \in Receipted("event_edited")})
  BY ReceiptsCount DEF CountReceipts, Actions
<1>3. \A action : Cardinality(InWindow(action)) \in Nat
  BY WindowFinite
<1>4. /\ Cardinality({e \in Valid : event[e].edited}) \in Nat
      /\ Cardinality({x.event : x \in Receipted("event_edited")}) \in Nat
      /\ AllTime => {e \in Valid : event[e].edited}
                      = {x.event : x \in Receipted("event_edited")}
  BY EditedCount
<1>5. /\ Cardinality({x \in routes : Within(x.at)}) \in Nat
      /\ AllTime => Cardinality({x \in routes : Within(x.at)})
                      = Cardinality(InWindow("routed"))
  BY RoutesCount
<1>6. /\ Cardinality(Valid) \in Nat
      /\ Cardinality(Valid) = Cardinality(InWindow("event_created"))
  BY ValidCount
<1>7. /\ Cardinality(Invalid) \in Nat
      /\ Cardinality(Invalid) = Cardinality(InWindow("event_rejected"))
  BY InvalidCount
<1>8. \A metric \in {"total", "created", "rejected", "edited", "routes"} :
        CountRows(metric) \in Nat
  BY <1>1, <1>4, <1>5, <1>6, <1>7
<1>9. \A metric \in {"created", "rejected", "edited", "routes"} :
        CountReceipts(metric) \in Nat
  BY <1>2, <1>3, <1>4
<1>10. AllTime => /\ CountRows("edited") = CountReceipts("edited")
                  /\ CountRows("routes") = CountReceipts("routes")
  BY <1>1, <1>2, <1>4, <1>5
<1> QED
  BY <1>1, <1>2, <1>6, <1>7, <1>8, <1>9, <1>10

\* What the tables and the transactions must be for that.
Explained == TypeOK /\ (\A w \in Writers : Transaction(w)) /\ Written

\* The counts are numbers, now and after any step.
LEMMA CountsFinite ==
  Explained => /\ IsFiniteSet(Valid) /\ IsFiniteSet(Invalid)
               /\ Cardinality(Valid) \in Nat /\ Cardinality(Invalid) \in Nat
BY ValidCount, InvalidCount DEF Explained

-----------------------------------------------------------------------------
(* The queries of an answer                                                *)

\* Where each query is.
LEMMA Places ==
  /\ Len(Queries["summary"]) = 3 /\ Len(Queries["report"]) = 8
  /\ Len(Queries["page"]) = 11
  /\ \A kind \in {"summary", "page"} :
       /\ Queries[kind][1] = <<"total", "rows">>
       /\ Queries[kind][2] = <<"created", "rows">>
       /\ Queries[kind][3] = <<"rejected", "rows">>
  /\ Queries["report"] = Pairs
  /\ \A i \in 1 .. 8 : Queries["page"][i + 3] = Pairs[i]
  /\ DOMAIN Queries = {"summary", "report", "page"}
<1> DEFINE Query2 == {"total", "created", "edited", "rejected", "routes"}
                       \X {"rows", "receipts"}
<1>1. /\ Queries["summary"] = Summary /\ Queries["report"] = Pairs
      /\ Queries["page"] = Summary \o Pairs
      /\ DOMAIN Queries = {"summary", "report", "page"}
  BY DEF Queries
<1>2. /\ Summary \in Seq(Query2) /\ Pairs \in Seq(Query2)
      /\ Len(Summary) = 3 /\ Len(Pairs) = 8
      /\ Summary[1] = <<"total", "rows">> /\ Summary[2] = <<"created", "rows">>
      /\ Summary[3] = <<"rejected", "rows">>
  <2>1. Summary \in Seq(Query2) /\ Len(Summary) = 3
    BY DEF Summary
  <2>2. Pairs \in Seq(Query2)
    BY DEF Pairs
  <2>3. Len(Pairs) = 8
    BY DEF Pairs
  <2>4. /\ Summary[1] = <<"total", "rows">> /\ Summary[2] = <<"created", "rows">>
        /\ Summary[3] = <<"rejected", "rows">>
    BY DEF Summary
  <2> QED
    BY <2>1, <2>2, <2>3, <2>4
<1>3. /\ Len(Summary \o Pairs) = 11
      /\ \A i \in 1 .. 11 :
           (Summary \o Pairs)[i] = IF i <= 3 THEN Summary[i] ELSE Pairs[i - 3]
  <2> HIDE DEF Query2
  <2>1. /\ Len(Summary \o Pairs) = Len(Summary) + Len(Pairs)
        /\ \A i \in 1 .. Len(Summary) + Len(Pairs) :
             (Summary \o Pairs)[i] = IF i <= Len(Summary) THEN Summary[i]
                                     ELSE Pairs[i - Len(Summary)]
    BY <1>2, ConcatProperties
  <2>2. Len(Summary) = 3 /\ Len(Pairs) = 8 /\ Len(Summary) + Len(Pairs) = 11
    BY <1>2
  <2> QED
    BY <2>1, <2>2
<1>4. \A i \in 1 .. 8 : (Summary \o Pairs)[i + 3] = Pairs[i]
  <2> SUFFICES ASSUME NEW i \in 1 .. 8
               PROVE  (Summary \o Pairs)[i + 3] = Pairs[i]
    OBVIOUS
  <2>1. i + 3 \in 1 .. 11 /\ ~(i + 3 <= 3) /\ (i + 3) - 3 = i
    OBVIOUS
  <2> QED
    BY <1>3, <2>1
<1>5. /\ (Summary \o Pairs)[1] = Summary[1] /\ (Summary \o Pairs)[2] = Summary[2]
      /\ (Summary \o Pairs)[3] = Summary[3]
  BY <1>3
<1> QED
  BY <1>1, <1>2, <1>3, <1>4, <1>5

\* The place at which an answer shows each figure.
LEMMA Positions ==
  /\ Position(Summary, <<"total", "rows">>) = 1
  /\ Position(Summary, <<"created", "rows">>) = 2
  /\ Position(Summary, <<"rejected", "rows">>) = 3
  /\ Position(Pairs, <<"created", "rows">>) = 1
  /\ Position(Pairs, <<"created", "receipts">>) = 2
  /\ Position(Pairs, <<"edited", "rows">>) = 3
  /\ Position(Pairs, <<"edited", "receipts">>) = 4
  /\ Position(Pairs, <<"rejected", "rows">>) = 5
  /\ Position(Pairs, <<"rejected", "receipts">>) = 6
  /\ Position(Pairs, <<"routes", "rows">>) = 7
  /\ Position(Pairs, <<"routes", "receipts">>) = 8
<1>1. /\ \A i \in DOMAIN Summary : \A j \in DOMAIN Summary :
           Summary[i] = Summary[j] => i = j
      /\ DOMAIN Summary = 1 .. 3
  BY DEF Summary
<1>2. \A i \in DOMAIN Summary : Position(Summary, Summary[i]) = i
  BY <1>1 DEF Position
<1>3. DOMAIN Pairs = 1 .. 8
  BY DEF Pairs
<1>4. \A i \in DOMAIN Pairs : \A j \in DOMAIN Pairs :
        Pairs[i] = Pairs[j] => i = j
  BY DEF Pairs
<1>5. \A i \in DOMAIN Pairs : Position(Pairs, Pairs[i]) = i
  BY <1>4 DEF Position
<1>6. /\ Summary[1] = <<"total", "rows">> /\ Summary[2] = <<"created", "rows">>
      /\ Summary[3] = <<"rejected", "rows">>
  BY DEF Summary
<1>7. /\ Pairs[1] = <<"created", "rows">> /\ Pairs[2] = <<"created", "receipts">>
      /\ Pairs[3] = <<"edited", "rows">> /\ Pairs[4] = <<"edited", "receipts">>
      /\ Pairs[5] = <<"rejected", "rows">> /\ Pairs[6] = <<"rejected", "receipts">>
      /\ Pairs[7] = <<"routes", "rows">> /\ Pairs[8] = <<"routes", "receipts">>
  BY DEF Pairs
<1>8. 1 \in DOMAIN Summary /\ 2 \in DOMAIN Summary /\ 3 \in DOMAIN Summary
  BY <1>1
<1>9. \A i \in 1 .. 8 : Position(Pairs, Pairs[i]) = i
  BY <1>3, <1>5
<1> QED
  BY <1>2, <1>6, <1>7, <1>8, <1>9

\* What each query of an answer counts.
LEMMA QueryCounts ==
  ASSUME TypeOK, \A w \in Writers : Transaction(w), Written
  PROVE  /\ \A kind \in {"summary", "page"} :
              /\ Count(Queries[kind][1])
                   = Cardinality(Valid) + Cardinality(Invalid)
              /\ Count(Queries[kind][2]) = Cardinality(Valid)
              /\ Count(Queries[kind][3]) = Cardinality(Invalid)
         /\ Count(Pairs[1]) = Cardinality(Valid)
         /\ Count(Pairs[5]) = Cardinality(Invalid)
         /\ Count(Pairs[1]) = Count(Pairs[2])
         /\ Count(Pairs[5]) = Count(Pairs[6])
         /\ AllTime => /\ Count(Pairs[3]) = Count(Pairs[4])
                       /\ Count(Pairs[7]) = Count(Pairs[8])
         /\ \A i \in 1 .. 8 : Count(Pairs[i]) \in Nat
<1>1. /\ Pairs[1] = <<"created", "rows">> /\ Pairs[2] = <<"created", "receipts">>
      /\ Pairs[3] = <<"edited", "rows">> /\ Pairs[4] = <<"edited", "receipts">>
      /\ Pairs[5] = <<"rejected", "rows">> /\ Pairs[6] = <<"rejected", "receipts">>
      /\ Pairs[7] = <<"routes", "rows">> /\ Pairs[8] = <<"routes", "receipts">>
  BY DEF Pairs
<1>2. \A m : /\ Count(<<m, "rows">>) = CountRows(m)
             /\ Count(<<m, "receipts">>) = CountReceipts(m)
  BY DEF Count
<1>3. /\ Count(Pairs[1]) = CountRows("created")
      /\ Count(Pairs[2]) = CountReceipts("created")
      /\ Count(Pairs[3]) = CountRows("edited")
      /\ Count(Pairs[4]) = CountReceipts("edited")
      /\ Count(Pairs[5]) = CountRows("rejected")
      /\ Count(Pairs[6]) = CountReceipts("rejected")
      /\ Count(Pairs[7]) = CountRows("routes")
      /\ Count(Pairs[8]) = CountReceipts("routes")
  BY <1>1, <1>2
<1>4. \A kind \in {"summary", "page"} :
        /\ Count(Queries[kind][1]) = CountRows("total")
        /\ Count(Queries[kind][2]) = CountRows("created")
        /\ Count(Queries[kind][3]) = CountRows("rejected")
  BY <1>2, Places
<1>5. \A i \in 1 .. 8 : Count(Pairs[i]) \in Nat
  <2> SUFFICES ASSUME NEW i \in 1 .. 8
               PROVE  Count(Pairs[i]) \in Nat
    OBVIOUS
  <2>1. \/ i = 1 \/ i = 2 \/ i = 3 \/ i = 4 \/ i = 5 \/ i = 6 \/ i = 7 \/ i = 8
    OBVIOUS
  <2> QED
    BY <1>3, <2>1, CountsAgree
<1> QED
  BY <1>3, <1>4, <1>5, CountsAgree

\* Every count is a number.
LEMMA QueryNat ==
  ASSUME TypeOK, \A w \in Writers : Transaction(w), Written,
         NEW kind \in DOMAIN Queries, NEW i \in 1 .. Len(Queries[kind])
  PROVE  Count(Queries[kind][i]) \in Nat
<1>1. Cardinality(Valid) \in Nat /\ Cardinality(Invalid) \in Nat
  BY ValidCount, InvalidCount
<1>2. CASE kind \in {"summary", "page"} /\ i <= 3
  <2>1. i = 1 \/ i = 2 \/ i = 3
    BY <1>2, Places
  <2>2. /\ Count(Queries[kind][1]) = Cardinality(Valid) + Cardinality(Invalid)
        /\ Count(Queries[kind][2]) = Cardinality(Valid)
        /\ Count(Queries[kind][3]) = Cardinality(Invalid)
    BY <1>2, QueryCounts
  <2>3. /\ Count(Queries[kind][1]) \in Nat /\ Count(Queries[kind][2]) \in Nat
        /\ Count(Queries[kind][3]) \in Nat
    BY <1>1, <2>2
  <2> QED
    BY <2>1, <2>3
<1>3. CASE kind = "report"
  BY <1>3, Places, QueryCounts
<1>4. CASE kind = "page" /\ ~(i <= 3)
  <2>1. i - 3 \in 1 .. 8 /\ (i - 3) + 3 = i
    BY <1>4, Places
  <2> QED
    BY <1>4, <2>1, Places, QueryCounts
<1> QED
  BY <1>2, <1>3, <1>4, Places

\* Counts stay covered when rows come in ...
LEMMA CoveredGrows ==
  ASSUME NEW counts \in Seq(Nat), NEW v \in Nat, NEW i \in Nat, NEW v2 \in Nat,
         NEW i2 \in Nat, v <= v2, i <= i2, Covered(counts, v, i)
  PROVE  Covered(counts, v2, i2)
<1>1. /\ Len(counts) \in Nat
      /\ \A x \in 1 .. Len(counts) : counts[x] \in Nat
  OBVIOUS
<1>2. /\ Len(counts) = 1 => counts[1] \in Nat
      /\ Len(counts) >= 2 => counts[1] \in Nat /\ counts[2] \in Nat
      /\ Len(counts) >= 3 => counts[3] \in Nat
  BY <1>1
<1> QED
  BY <1>1, <1>2 DEF Covered

\* ... and when one more is counted.
LEMMA CoveredExtends ==
  ASSUME NEW counts \in Seq(Nat), NEW c \in Nat, NEW v \in Nat, NEW i \in Nat,
         Covered(counts, v, i),
         Len(counts) = 0 => c = v + i,
         Len(counts) \in {1, 3} => c = v,
         Len(counts) \in {2, 7} => c = i
  PROVE  Covered(Append(counts, c), v, i)
<1> DEFINE n == Append(counts, c)
<1>1. /\ Len(n) = Len(counts) + 1 /\ n[Len(counts) + 1] = c
      /\ \A x \in 1 .. Len(counts) : n[x] = counts[x]
      /\ \A x \in 1 .. Len(counts) : counts[x] \in Nat
      /\ Len(counts) \in Nat /\ Len(n) \in Nat
  BY AppendProperties
<1> SUFFICES Covered(n, v, i)
  OBVIOUS
<1> HIDE DEF n
<1> DEFINE l == Len(counts)
<1>a. /\ l = 0 \/ l = 1 \/ l = 2 \/ l >= 3
      /\ l >= 3 => l = 3 \/ l >= 4
      /\ l + 1 >= 8 => l = 7 \/ l >= 8
  <2>1. l \in Nat
    BY <1>1
  <2> HIDE DEF l
  <2> QED
    BY <2>1
<1>2. CASE Len(counts) = 0
  BY <1>1, <1>2 DEF Covered
<1>3. CASE Len(counts) = 1
  <2>1. n[1] = counts[1] /\ n[2] = c /\ Len(n) = 2 /\ counts[1] \in Nat
    BY <1>1, <1>3
  <2> QED
    BY <1>3, <2>1 DEF Covered
<1>4. CASE Len(counts) = 2
  <2>1. /\ n[1] = counts[1] /\ n[2] = counts[2] /\ n[3] = c /\ Len(n) = 3
        /\ counts[1] \in Nat /\ counts[2] \in Nat
    BY <1>1, <1>4
  <2> QED
    BY <1>4, <2>1 DEF Covered
<1>5. CASE Len(counts) >= 3
  <2>1. /\ n[1] = counts[1] /\ n[2] = counts[2] /\ n[3] = counts[3]
        /\ Len(n) >= 4 /\ counts[2] \in Nat /\ counts[3] \in Nat
    BY <1>1, <1>5
  <2>2. /\ Len(counts) = 3 => n[4] = c
        /\ Len(counts) >= 4 => n[4] = counts[4]
        /\ Len(counts) = 7 => n[8] = c
        /\ Len(counts) >= 8 => n[8] = counts[8]
    <3>1. Len(counts) = 3 => n[4] = c
      BY <1>1
    <3>2. Len(counts) = 7 => n[8] = c
      BY <1>1
    <3>3. Len(counts) >= 4 => n[4] = counts[4]
      BY <1>1
    <3>4. Len(counts) >= 8 => n[8] = counts[8]
      BY <1>1
    <3> QED
      BY <3>1, <3>2, <3>3, <3>4
  <2>3. /\ counts[1] <= counts[2] + counts[3] /\ counts[2] <= v
        /\ counts[3] <= i
        /\ Len(counts) >= 4 => counts[2] <= counts[4]
        /\ Len(counts) >= 8 => counts[3] <= counts[8]
    BY <1>1, <1>5 DEF Covered
  <2>4. n[2] <= n[4]
    <3>1. CASE Len(counts) = 3
      BY <2>1, <2>2, <2>3, <3>1
    <3>2. CASE Len(counts) >= 4
      BY <2>1, <2>2, <2>3, <3>2
    <3> QED
      BY <1>a, <1>5, <3>1, <3>2
  <2>5. Len(n) >= 8 => n[3] <= n[8]
    <3>1. CASE Len(counts) = 7
      BY <2>1, <2>2, <2>3, <3>1
    <3>2. CASE Len(counts) >= 8
      BY <2>1, <2>2, <2>3, <3>2
    <3> QED
      BY <1>1, <1>a, <3>1, <3>2
  <2> QED
    BY <1>1, <1>5, <2>1, <2>3, <2>4, <2>5 DEF Covered
<1> QED
  BY <1>a, <1>2, <1>3, <1>4, <1>5

-----------------------------------------------------------------------------
(* Frames                                                                  *)

\* The counts depend on the tables and the window alone.
LEMMA CountsFrame ==
  ASSUME UNCHANGED tables,
         report'.since = report.since, report'.until = report.until
  PROVE  /\ Valid' = Valid /\ Invalid' = Invalid
         /\ \A query : Count(query)' = Count(query)
<1>1. \A at : Within(at)' = Within(at)
  BY DEF Within
<1>2. /\ event' = event /\ rejected' = rejected /\ routes' = routes
      /\ receipts' = receipts
  BY DEF tables
<1>3. Valid' = Valid /\ Invalid' = Invalid
  BY <1>1, <1>2 DEF Valid, Invalid
<1>4. \A action : Receipted(action)' = Receipted(action)
  BY <1>1, <1>2 DEF Receipted
<1>5. {x \in routes : Within(x.at)}' = {x \in routes : Within(x.at)}
  BY <1>1, <1>2
<1>6. {e \in Valid : event[e].edited}' = {e \in Valid : event[e].edited}
  BY <1>2, <1>3
<1>7. \A metric : CountRows(metric)' = CountRows(metric)
  BY <1>3, <1>5, <1>6 DEF CountRows
<1>8. \A metric : CountReceipts(metric)' = CountReceipts(metric)
  BY <1>4 DEF CountReceipts
<1> QED
  BY <1>3, <1>7, <1>8 DEF Count

\* An answer that nothing touches stays what it was.
LEMMA ReportFrame ==
  ASSUME UNCHANGED <<tables, report>>, Counted, QuietReportsAgree,
         PartsCoverTotal
  PROVE  Counted' /\ QuietReportsAgree' /\ PartsCoverTotal'
<1>1. report' = report
  OBVIOUS
<1>2. /\ Valid' = Valid /\ Invalid' = Invalid
      /\ \A query : Count(query)' = Count(query)
  BY CountsFrame
<1>3. Counted'
  BY <1>1, <1>2 DEF Counted
<1>4. QuietReportsAgree' /\ PartsCoverTotal'
  BY <1>1
  DEF QuietReportsAgree, QuietReportPasses, WindowKeepsCreatedPairs,
      PartsCoverTotal, Answered, AllTime, NoVariance, Agree, Reported,
      Summarized
<1> QED
  BY <1>3, <1>4

\* Nothing is promised of an answer that is not complete.
LEMMA Unanswered ==
  ASSUME report'.state # "done"
  PROVE  QuietReportsAgree' /\ PartsCoverTotal'
BY DEF QuietReportsAgree, QuietReportPasses, WindowKeepsCreatedPairs,
       PartsCoverTotal, Answered

\* The tables are explained as before while no transaction commits.
LEMMA WrittenFrame ==
  ASSUME Written, UNCHANGED tables, Done' = Done,
         \A w \in Done : writer'[w] = writer[w]
  PROVE  Written'
<1>1. \A action : DoneAs(action)' = DoneAs(action)
  BY DEF DoneAs
<1>2. \A w \in Done : WrittenReceipt(w)' = WrittenReceipt(w)
  BY DEF WrittenReceipt
<1>3. \A action : DoneAs(action) \subseteq Done
  BY DEF DoneAs
<1>4. /\ event' = event /\ rejected' = rejected /\ routes' = routes
      /\ receipts' = receipts
  BY DEF tables
<1>5. IsFiniteSet(Done)' /\ receipts' = {WrittenReceipt(w) : w \in Done}'
  BY <1>2, <1>4 DEF Written
<1>6. /\ rejected' = {[at |-> writer'[w].start, by |-> w] :
                        w \in DoneAs("event_rejected")'}
      /\ routes' = {[at |-> writer'[w].app, by |-> w] :
                      w \in DoneAs("routed")'}
  BY <1>1, <1>3, <1>4 DEF Written
<1>7. \A w \in DoneAs("event_created")' :
        /\ event'[writer'[w].event] # None
        /\ event'[writer'[w].event].at = writer'[w].start
  BY <1>1, <1>3, <1>4 DEF Written
<1>8. \A e \in Events : event'[e] # None =>
        /\ \E w \in DoneAs("event_created")' : writer'[w].event = e
        /\ event'[e].edited
             <=> \E w \in DoneAs("event_edited")' : writer'[w].event = e
  BY <1>1, <1>3, <1>4 DEF Written
<1> QED
  BY <1>5, <1>6, <1>7, <1>8 DEF Written

-----------------------------------------------------------------------------
(* The steps                                                               *)

\* Nothing has committed and nothing has been counted at the start.
LEMMA InitIInv == Init => IInv
<1> SUFFICES ASSUME Init
             PROVE  IInv
  OBVIOUS
<1>1. 0 \in Time
  BY MaxClockAssumption DEF Time
<1>2. NoWriter \in Writer
  BY <1>1 DEF NoWriter, Writer
<1>3. NoReport \in Report
  BY <1>1, Places DEF NoReport, Report
<1>4. TypeOK
  BY <1>1, <1>2, <1>3 DEF Init, TypeOK
<1>5. \A w \in Writers : writer[w] = NoWriter
  BY DEF Init
<1>6. \A w \in Writers : Transaction(w)
  BY <1>5, NoneAssumption DEF Transaction, NoWriter, Actions
<1>7. Done = {} /\ \A action : DoneAs(action) = {}
  BY <1>5 DEF Done, DoneAs, NoWriter
<1>8. Written
  BY <1>7, FS_EmptySet DEF Written, Init
<1>9. report.state = "idle"
  BY DEF Init, NoReport
<1>10. Counted /\ QuietReportsAgree /\ PartsCoverTotal
  BY <1>9
  DEF Counted, QuietReportsAgree, QuietReportPasses, WindowKeepsCreatedPairs,
      PartsCoverTotal, Answered
<1> QED
  BY <1>4, <1>6, <1>8, <1>10 DEF IInv

\* A transaction begins or goes on: the tables keep, its own promises hold.
LEMMA WriterStep ==
  ASSUME IInv, UNCHANGED <<clock, tables, report>>, NEW w \in Writers,
         NEW new \in Writer, writer' = [writer EXCEPT ![w] = new],
         writer[w].state # "committed", new.state # "committed",
         \A v \in Writers : Transaction(v)'
  PROVE  IInv'
<1>1. TypeOK'
  BY DEF IInv, TypeOK, tables
<1>2. /\ writer \in [Writers -> Writer]
      /\ Written /\ Counted /\ QuietReportsAgree /\ PartsCoverTotal
  BY DEF IInv, TypeOK
<1>3. \A v \in Writers : writer'[v] = IF v = w THEN new ELSE writer[v]
  BY <1>2
<1>4. Done' = Done /\ \A v \in Done : writer'[v] = writer[v]
  BY <1>3 DEF Done
<1>5. Written'
  BY <1>2, <1>4, WrittenFrame
<1>6. Counted' /\ QuietReportsAgree' /\ PartsCoverTotal'
  BY <1>2, ReportFrame
<1> QED
  BY <1>1, <1>5, <1>6 DEF IInv

\* A transaction begins for an event that it creates alone or that is there.
LEMMA BeginStep ==
  ASSUME IInv, NEW w \in Writers, NEW action \in Actions,
         NEW e \in Events \cup {None}, Begin(w, action, e)
  PROVE  IInv'
<1> DEFINE new == [NoWriter EXCEPT !.state = "open", !.action = action,
                                   !.event = e, !.start = clock]
<1>1. /\ writer \in [Writers -> Writer] /\ clock \in Time
      /\ \A v \in Writers : Transaction(v)
  BY DEF IInv, TypeOK
<1>2. /\ new \in Writer /\ new.state = "open" /\ new.action = action
      /\ new.event = e
  <2>1. 0 \in Time
    BY MaxClockAssumption DEF Time
  <2> QED
    BY <1>1, <2>1 DEF NoWriter, Writer
<1>3. /\ writer' = [writer EXCEPT ![w] = new] /\ writer[w].state = "idle"
      /\ UNCHANGED <<clock, tables, report>> /\ event' = event
      /\ action = "event_rejected" <=> e = None
      /\ e # None => (action = "event_created" <=> event[e] = None)
      /\ action = "event_created" => \A v \in Writers : writer[v].event # e
  BY DEF Begin, tables
<1> HIDE DEF new
<1>4. \A v \in Writers : writer'[v] = IF v = w THEN new ELSE writer[v]
  BY <1>1, <1>3
<1>5. ASSUME NEW v \in Writers
      PROVE  Transaction(v)'
  <2>1. CASE v = w
    <3>1. writer'[v] = new
      BY <1>4, <2>1
    <3>2. action = "event_created" =>
            \A u \in Writers : writer'[u].event = e => u = w
      BY <1>3, <1>4
    <3> QED
      BY <1>2, <1>3, <2>1, <3>1, <3>2 DEF Transaction, Actions
  <2>2. CASE v # w
    <3>1. writer'[v] = writer[v] /\ Transaction(v)
      BY <1>1, <1>4, <2>2
    <3>2. writer[v].action = "event_created" =>
            \A u \in Writers : /\ writer'[u].action = "event_created"
                               /\ writer'[u].event = writer[v].event
                               => u = v
      BY <1>2, <1>3, <1>4, <3>1 DEF Transaction
    <3> QED
      BY <1>3, <3>1, <3>2 DEF Transaction
  <2> QED
    BY <2>1, <2>2
<1> QED
  BY <1>2, <1>3, <1>5, WriterStep

\* route_lead takes the time.
LEMMA StampStep ==
  ASSUME IInv, NEW w \in Writers, Stamp(w)
  PROVE  IInv'
<1> DEFINE new == [writer[w] EXCEPT !.state = "stamped", !.app = clock]
<1>1. /\ writer \in [Writers -> Writer] /\ clock \in Time
      /\ \A v \in Writers : Transaction(v)
  BY DEF IInv, TypeOK
<1>2. /\ writer[w].state = "open" /\ writer[w].action = "routed"
      /\ UNCHANGED <<clock, tables, report>> /\ event' = event
  BY DEF Stamp, tables
<1>3. writer' = [writer EXCEPT ![w] = new]
  BY <1>1 DEF Stamp
<1>4. /\ new \in Writer /\ new.state = "stamped"
      /\ new.action = writer[w].action /\ new.event = writer[w].event
  BY <1>1 DEF Writer
<1> HIDE DEF new
<1>5. \A v \in Writers : /\ writer'[v].action = writer[v].action
                         /\ writer'[v].event = writer[v].event
                         /\ v # w => writer'[v] = writer[v]
                         /\ v = w => writer'[v].state = "stamped"
  BY <1>1, <1>3, <1>4
<1>6. ASSUME NEW v \in Writers
      PROVE  Transaction(v)'
  <2>1. \A u \in Writers : /\ writer'[u].action = writer[u].action
                           /\ writer'[u].event = writer[u].event
    BY <1>5
  <2>2. CASE v = w
    BY <1>1, <1>2, <1>5, <2>1, <2>2 DEF Transaction
  <2>3. CASE v # w
    BY <1>1, <1>2, <1>5, <2>1, <2>3 DEF Transaction
  <2> QED
    BY <2>2, <2>3
<1> QED
  BY <1>2, <1>3, <1>4, <1>6, WriterStep

\* A commit: the row and its receipt come in together.
LEMMA CommitStep ==
  ASSUME IInv, NEW w \in Writers, Commit(w)
  PROVE  IInv'
<1> DEFINE e == writer[w].event
           act == writer[w].action
           new == [writer[w] EXCEPT !.state = "committed"]
<1>1. /\ writer \in [Writers -> Writer]
      /\ event \in [Events -> EventRow \cup {None}]
      /\ report \in Report /\ rejected \subseteq RejectedRow
      /\ routes \subseteq RouteRow /\ receipts \subseteq ReceiptRow
      /\ clock \in Time
  BY DEF IInv, TypeOK
<1>2. (\A v \in Writers : Transaction(v)) /\ Written /\ Counted
  BY DEF IInv
<1>3. /\ writer[w].state = IF act = "routed" THEN "stamped" ELSE "open"
      /\ event' = WrittenEvent(w) /\ rejected' = WrittenRejected(w)
      /\ routes' = WrittenRoutes(w)
      /\ receipts' = receipts \cup {WrittenReceipt(w)}
      /\ clock' = clock
  BY DEF Commit
<1>4. /\ new \in Writer /\ new.state = "committed" /\ new.action = act
      /\ new.event = e /\ new.start = writer[w].start
      /\ new.app = writer[w].app /\ writer' = [writer EXCEPT ![w] = new]
  BY <1>1 DEF Writer, Commit
<1>5. /\ act \in Actions /\ (act = "event_rejected" <=> e = None)
      /\ act = "event_created" => event[e] = None
      /\ act \in {"event_edited", "routed"} => event[e] # None
      /\ e \in Events \cup {None} /\ writer[w].state # "committed"
      /\ writer[w].start \in Time /\ writer[w].app \in Time
  <2>1. Transaction(w) /\ writer[w] \in Writer
    BY <1>1, <1>2
  <2>2. writer[w].state \in {"open", "stamped"}
    BY <1>3
  <2> QED
    BY <2>1, <2>2 DEF Transaction, Writer
<1> HIDE DEF new
<1>6. \A v \in Writers : /\ writer'[v].action = writer[v].action
                         /\ writer'[v].event = writer[v].event
                         /\ writer'[v].start = writer[v].start
                         /\ writer'[v].app = writer[v].app
                         /\ v # w => writer'[v] = writer[v]
                         /\ v = w => writer'[v].state = "committed"
  BY <1>1, <1>4
<1>7. /\ Done' = Done \cup {w} /\ w \notin Done
      /\ \A action : DoneAs(action)' = DoneAs(action)
                       \cup (IF action = act THEN {w} ELSE {})
      /\ \A action : \A v \in DoneAs(action) : v \in Writers /\ v # w
  BY <1>5, <1>6 DEF Done, DoneAs
<1>8. /\ \A x \in Events : x # e => event'[x] = event[x]
      /\ act = "event_created" => /\ event'[e] # None
                                  /\ event'[e].at = writer[w].start
                                  /\ event'[e].edited = FALSE
                                  /\ event'[e] \in EventRow
      /\ act = "event_edited" => /\ event'[e] # None
                                 /\ event'[e].at = event[e].at
                                 /\ event'[e].edited = TRUE
                                 /\ event'[e] \in EventRow
      /\ act \in {"event_rejected", "routed"} => event' = event
      /\ event' \in [Events -> EventRow \cup {None}]
      /\ act \in {"event_created", "event_edited"} => e \in Events
  <2>1. CASE act = "event_created"
    <3>1. event' = [event EXCEPT ![e] = [at |-> writer[w].start,
                                         edited |-> FALSE]]
      BY <1>3, <2>1 DEF WrittenEvent
    <3>2. e \in Events
      BY <1>5, <2>1
    <3>3. [at |-> writer[w].start, edited |-> FALSE] \in EventRow
      BY <1>5 DEF EventRow
    <3> QED
      BY <1>1, <2>1, <3>1, <3>2, <3>3, NoneAssumption
  <2>2. CASE act = "event_edited"
    <3>1. event' = [event EXCEPT ![e].edited = TRUE]
      BY <1>3, <2>2 DEF WrittenEvent
    <3>2. e \in Events /\ event[e] \in EventRow
      BY <1>1, <1>5, <2>2
    <3>3. [event[e] EXCEPT !.edited = TRUE] \in EventRow
      BY <3>2 DEF EventRow
    <3>4. /\ [event[e] EXCEPT !.edited = TRUE].at = event[e].at
          /\ [event[e] EXCEPT !.edited = TRUE].edited = TRUE
      BY <3>2 DEF EventRow
    <3>5. /\ event'[e] = [event[e] EXCEPT !.edited = TRUE]
          /\ event' \in [Events -> EventRow \cup {None}]
          /\ \A x \in Events : x # e => event'[x] = event[x]
      BY <1>1, <3>1, <3>2, <3>3
    <3> QED
      BY <2>2, <3>2, <3>3, <3>4, <3>5, NoneAssumption
  <2>3. CASE act \in {"event_rejected", "routed"}
    <3>1. event' = event
      BY <1>3, <2>3 DEF WrittenEvent
    <3> QED
      BY <1>1, <2>3, <3>1
  <2> QED
    BY <1>5, <2>1, <2>2, <2>3 DEF Actions
<1>9. TypeOK'
  <2>1. WrittenReceipt(w) \in ReceiptRow
    BY <1>5 DEF WrittenReceipt, ReceiptRow
  <2>2. rejected' \subseteq RejectedRow
    BY <1>1, <1>3, <1>5 DEF WrittenRejected, RejectedRow
  <2>3. routes' \subseteq RouteRow
    BY <1>1, <1>3, <1>5 DEF WrittenRoutes, RouteRow
  <2>4. report' \in Report
    BY <1>1 DEF Commit, Report
  <2>5. writer' \in [Writers -> Writer]
    BY <1>1, <1>4
  <2> QED
    BY <1>1, <1>3, <1>8, <2>1, <2>2, <2>3, <2>4, <2>5 DEF TypeOK
<1>10. ASSUME NEW v \in Writers
       PROVE  Transaction(v)'
  <2>1. /\ Transaction(v) /\ Transaction(w)
        /\ v # w => writer'[v] = writer[v]
        /\ writer[v].event \in Events \cup {None}
    BY <1>1, <1>2, <1>6 DEF Writer
  <2>2. writer[v].action \in {"event_edited", "routed"} =>
          event'[writer[v].event] # None
    <3> SUFFICES ASSUME writer[v].action \in {"event_edited", "routed"}
                 PROVE  event'[writer[v].event] # None
      OBVIOUS
    <3>1. event[writer[v].event] # None
      BY <2>1 DEF Transaction
    <3>2. writer[v].event \in Events
      BY <2>1, NoneAssumption DEF Transaction, Actions
    <3> QED
      BY <1>5, <1>8, <3>1, <3>2 DEF Actions
  <2>3. v # w /\ writer[v].action = "event_created"
          /\ writer[v].state # "committed" => event'[writer[v].event] = None
    <3> SUFFICES ASSUME v # w, writer[v].action = "event_created",
                        writer[v].state # "committed"
                 PROVE  event'[writer[v].event] = None
      OBVIOUS
    <3>1. /\ event[writer[v].event] = None /\ writer[v].event \in Events
          /\ \A u \in Writers : /\ writer[u].action = "event_created"
                                /\ writer[u].event = writer[v].event
                                => u = v
      BY <2>1, NoneAssumption DEF Transaction, Actions
    <3>2. act \in {"event_created", "event_edited"} => writer[v].event # e
      BY <1>5, <3>1
    <3> QED
      BY <1>5, <1>8, <3>1, <3>2 DEF Actions
  <2>4. writer[v].action = "event_created" =>
          \A u \in Writers : /\ writer'[u].action = "event_created"
                             /\ writer'[u].event = writer[v].event
                             => u = v
    BY <1>6, <2>1 DEF Transaction
  <2>5. CASE v # w
    <3>1. writer'[v] = writer[v]
      BY <1>6, <2>5
    <3> QED
      BY <2>1, <2>2, <2>3, <2>4, <2>5, <3>1 DEF Transaction
  <2>6. CASE v = w
    <3>1. /\ writer'[v].state = "committed" /\ writer'[v].action = act
          /\ writer'[v].event = e
      BY <1>6, <2>6
    <3> QED
      BY <1>5, <2>2, <2>4, <2>6, <3>1 DEF Transaction
  <2> QED
    BY <2>5, <2>6
<1>11. Written'
  <2>1. IsFiniteSet(Done')
    BY <1>2, <1>7, FS_AddElement DEF Written
  <2>2. \A v \in Writers : WrittenReceipt(v)' = WrittenReceipt(v)
    BY <1>6 DEF WrittenReceipt
  <2>3. receipts' = {WrittenReceipt(v) : v \in Done}'
    <3>1. Done \subseteq Writers
      BY DEF Done
    <3>2. receipts' = {WrittenReceipt(v) : v \in Done} \cup {WrittenReceipt(w)}
      BY <1>2, <1>3 DEF Written
    <3>3. receipts' = {WrittenReceipt(v) : v \in Done \cup {w}}
      BY <3>2
    <3> QED
      BY <1>7, <2>2, <3>1, <3>3
  <2>4. rejected' = {[at |-> writer'[v].start, by |-> v] :
                       v \in DoneAs("event_rejected")'}
    <3>1. rejected = {[at |-> writer[v].start, by |-> v] :
                        v \in DoneAs("event_rejected")}
      BY <1>2 DEF Written
    <3> QED
      BY <1>3, <1>6, <1>7, <3>1 DEF WrittenRejected
  <2>5. routes' = {[at |-> writer'[v].app, by |-> v] : v \in DoneAs("routed")'}
    <3>1. routes = {[at |-> writer[v].app, by |-> v] : v \in DoneAs("routed")}
      BY <1>2 DEF Written
    <3> QED
      BY <1>3, <1>6, <1>7, <3>1 DEF WrittenRoutes
  <2>6. ASSUME NEW v \in DoneAs("event_created")'
        PROVE  /\ event'[writer'[v].event] # None
               /\ event'[writer'[v].event].at = writer'[v].start
    <3>1. CASE v = w
      <4>1. act = "event_created"
        BY <1>6, <3>1 DEF DoneAs
      <4> QED
        BY <1>6, <1>8, <3>1, <4>1
    <3>2. CASE v # w
      <4>1. v \in DoneAs("event_created") /\ v \in Writers
        BY <1>7, <3>2
      <4>2. /\ event[writer[v].event] # None
            /\ event[writer[v].event].at = writer[v].start
            /\ writer[v].action = "event_created"
        BY <1>2, <4>1 DEF Written, DoneAs
      <4>3. writer[v].event \in Events
        BY <1>1, <1>2, <4>1, <4>2 DEF Transaction, Writer, DoneAs, Done
      <4>4. act = "event_created" => writer[v].event # e
        BY <1>2, <1>5, <4>2
      <4> QED
        BY <1>5, <1>6, <1>8, <4>1, <4>2, <4>3, <4>4 DEF Actions
    <3> QED
      BY <3>1, <3>2
  <2>7. ASSUME NEW x \in Events, event'[x] # None
        PROVE  /\ \E v \in DoneAs("event_created")' : writer'[v].event = x
               /\ event'[x].edited
                    <=> \E v \in DoneAs("event_edited")' : writer'[v].event = x
    <3>1. event[x] # None =>
            /\ \E v \in DoneAs("event_created") : writer[v].event = x
            /\ event[x].edited
                 <=> \E v \in DoneAs("event_edited") : writer[v].event = x
      BY <1>2 DEF Written
    <3>2. CASE act = "event_created" /\ x = e
      <4>1. event[x] = None
        BY <1>5, <3>2
      <4>2. \A v \in DoneAs("event_edited") : writer[v].event # x
        BY <1>2, <1>7, <4>1 DEF Transaction, DoneAs
      <4>3. DoneAs("event_edited")' = DoneAs("event_edited")
        BY <1>7, <3>2
      <4>4. w \in DoneAs("event_created")' /\ writer'[w].event = x
        BY <1>6, <1>7, <3>2
      <4>5. ~ event'[x].edited
        BY <1>8, <3>2
      <4> QED
        BY <1>6, <1>7, <4>2, <4>3, <4>4, <4>5
    <3>3. CASE act = "event_edited" /\ x = e
      <4>1. event[x] # None
        BY <1>5, <3>3
      <4>2. w \in DoneAs("event_edited")' /\ writer'[w].event = x
        BY <1>6, <1>7, <3>3
      <4>3. \E v \in DoneAs("event_created")' : writer'[v].event = x
        BY <1>6, <1>7, <3>1, <4>1
      <4>4. event'[x].edited
        BY <1>8, <3>3
      <4> QED
        BY <4>2, <4>3, <4>4
    <3>4. CASE ~ (act \in {"event_created", "event_edited"} /\ x = e)
      <4>1. event'[x] = event[x]
        BY <1>5, <1>8, <3>4 DEF Actions
      <4>2. \E v \in DoneAs("event_created")' : writer'[v].event = x
        BY <1>6, <1>7, <3>1, <4>1, <2>7
      <4>3. (\E v \in DoneAs("event_edited")' : writer'[v].event = x)
              <=> \E v \in DoneAs("event_edited") : writer[v].event = x
        BY <1>6, <1>7, <3>4
      <4> QED
        BY <2>7, <3>1, <4>1, <4>2, <4>3
    <3> QED
      BY <3>2, <3>3, <3>4
  <2> QED
    BY <2>1, <2>3, <2>4, <2>5, <2>6, <2>7 DEF Written
<1>12. /\ report'.state = report.state /\ report'.kind = report.kind
       /\ report'.counts = report.counts /\ report'.since = report.since
       /\ report'.until = report.until
  BY <1>1 DEF Commit, Report
<1>13. CASE report.state # "running"
  <2>1. report'.quiet = report.quiet
    BY <1>1, <1>13 DEF Commit, Report
  <2>2. Counted'
    BY <1>12, <1>13 DEF Counted
  <2>3. QuietReportsAgree' /\ PartsCoverTotal'
    <3>1. QuietReportsAgree /\ PartsCoverTotal
      BY DEF IInv
    <3> QED
      BY <1>12, <2>1, <3>1
      DEF QuietReportsAgree, QuietReportPasses, WindowKeepsCreatedPairs,
          PartsCoverTotal, Answered, AllTime, NoVariance, Agree, Reported,
          Summarized
  <2> QED
    BY <1>9, <1>10, <1>11, <2>2, <2>3 DEF IInv
<1>14. CASE report.state = "running"
  <2>1. report'.quiet = FALSE
    BY <1>1, <1>14 DEF Commit, Report
  <2>2. Explained /\ Explained'
    BY <1>9, <1>10, <1>11 DEF Explained, IInv
  <2>3. /\ Cardinality(Valid) \in Nat /\ Cardinality(Invalid) \in Nat
        /\ (/\ IsFiniteSet(Valid) /\ IsFiniteSet(Invalid)
            /\ Cardinality(Valid) \in Nat /\ Cardinality(Invalid) \in Nat)'
    BY <2>2, CountsFinite, PTL
  <2>4. Valid \in SUBSET (Valid') /\ Invalid \in SUBSET (Invalid')
    <3>1. \A at : Within(at)' = Within(at)
      BY <1>12 DEF Within
    <3>2. rejected \subseteq rejected'
      BY <1>3 DEF WrittenRejected
    <3>3. \A x \in Events : event[x] # None =>
            event'[x] # None /\ event'[x].at = event[x].at
      BY <1>5, <1>8 DEF Actions
    <3>4. Valid' = {x \in Events : /\ event'[x] # None
                                   /\ report.since <= event'[x].at
                                   /\ event'[x].at <= report.until}
      BY <1>12 DEF Valid, Within
    <3>5. Valid = {x \in Events : /\ event[x] # None
                                  /\ report.since <= event[x].at
                                  /\ event[x].at <= report.until}
      BY DEF Valid, Within
    <3>6. Valid \in SUBSET (Valid')
      BY <3>3, <3>4, <3>5
    <3>7. Invalid \in SUBSET (Invalid')
      BY <3>1, <3>2 DEF Invalid
    <3> QED
      BY <3>6, <3>7
  <2>5. /\ Cardinality(Valid) <= Cardinality(Valid')
        /\ Cardinality(Invalid) <= Cardinality(Invalid')
    BY <2>3, <2>4, FS_Subset
  <2>6. Counted'
    <3> DEFINE k == report.counts
    <3>1. /\ k \in Seq(Nat) /\ report'.counts = k
          /\ Len(k) <= Len(Queries[report.kind])
          /\ report.kind \in {"summary", "page"} =>
               Covered(k, Cardinality(Valid), Cardinality(Invalid))
      BY <1>1, <1>2, <1>12, <1>14 DEF Counted, Report
    <3> HIDE DEF k
    <3>2. report.kind \in {"summary", "page"} =>
            Covered(k, Cardinality(Valid'), Cardinality(Invalid'))
      BY <2>3, <2>5, <3>1, CoveredGrows
    <3> QED
      BY <1>12, <2>1, <3>1, <3>2 DEF Counted
  <2>7. QuietReportsAgree' /\ PartsCoverTotal'
    BY <1>12, <1>14, Unanswered
  <2> QED
    BY <1>9, <1>10, <1>11, <2>6, <2>7 DEF IInv
<1> QED
  BY <1>13, <1>14

\* A step of the answer alone leaves tables and transactions as they are.
LEMMA AnswerStepFrame ==
  ASSUME IInv, UNCHANGED <<clock, tables, writer>>, report' \in Report
  PROVE  TypeOK' /\ (\A w \in Writers : Transaction(w)') /\ Written'
<1>1. TypeOK'
  BY DEF IInv, TypeOK, tables
<1>2. writer' = writer /\ event' = event
  BY DEF tables
<1>3. \A w \in Writers : Transaction(w)'
  BY <1>2 DEF IInv, Transaction
<1>4. Written'
  <2>1. Done' = Done
    BY <1>2 DEF Done
  <2> QED
    BY <1>2, <2>1, WrittenFrame DEF IInv
<1> QED
  BY <1>1, <1>3, <1>4

\* A request for an answer counts nothing yet.
LEMMA AskStep ==
  ASSUME IInv, NEW kind \in DOMAIN Queries, NEW since \in Time,
         NEW until \in Time, Ask(kind, since, until)
  PROVE  IInv'
<1>1. /\ report' = [kind |-> kind, state |-> "running", since |-> since,
                    until |-> until, counts |-> <<>>, quiet |-> TRUE]
      /\ UNCHANGED <<clock, tables, writer>>
  BY DEF Ask, NoReport
<1>2. report' \in Report
  BY <1>1 DEF Report
<1>3. Counted'
  <2>1. /\ report'.counts = <<>> /\ Len(report'.counts) = 0
        /\ report'.kind = kind
    BY <1>1
  <2>2. Len(Queries[kind]) \in Nat
    BY Places
  <2>3. Covered(<<>>, Cardinality(Valid'), Cardinality(Invalid'))
    BY DEF Covered
  <2>4. \A i \in 1 .. Len(report'.counts) : FALSE
    BY <2>1
  <2> QED
    BY <2>1, <2>2, <2>3, <2>4 DEF Counted
<1>4. QuietReportsAgree' /\ PartsCoverTotal'
  BY <1>1, Unanswered
<1> QED
  BY <1>1, <1>2, <1>3, <1>4, AnswerStepFrame DEF IInv

\* One more query: it counts the tables as they are now.
LEMMA QueryStep ==
  ASSUME IInv, Query
  PROVE  IInv'
<1> DEFINE k == report.counts
           kind == report.kind
           c == Count(Queries[kind][Len(k) + 1])
           valid == Cardinality(Valid)
           invalid == Cardinality(Invalid)
<1>1. /\ report \in Report /\ report.state = "running"
      /\ Len(k) < Len(Queries[kind])
      /\ report' = [report EXCEPT !.counts = Append(k, c)]
      /\ UNCHANGED <<clock, tables, writer>>
  BY DEF IInv, TypeOK, Query
<1>2. TypeOK /\ (\A w \in Writers : Transaction(w)) /\ Written /\ Counted
  BY DEF IInv
<1>3. /\ kind \in DOMAIN Queries /\ k \in Seq(Nat) /\ Len(k) \in Nat
      /\ \A i \in 1 .. Len(k) : k[i] \in Nat
  BY <1>1 DEF Report
<1>4. Len(Queries[kind]) \in {3, 8, 11}
  BY <1>3, Places
<1>5. c \in Nat
  <2>1. Len(k) + 1 \in 1 .. Len(Queries[kind])
    BY <1>1, <1>3, <1>4
  <2> QED
    BY <1>2, <1>3, <2>1, QueryNat
<1>6. valid \in Nat /\ invalid \in Nat
  BY <1>2, ValidCount, InvalidCount
<1>7. ASSUME kind \in {"summary", "page"}
      PROVE  /\ Len(k) = 0 => c = valid + invalid
             /\ Len(k) \in {1, 3} => c = valid
             /\ Len(k) \in {2, 7} => c = invalid
  <2>1. \A l \in Nat : /\ l = 0 => l + 1 = 1
                       /\ l = 1 => l + 1 = 2
                       /\ l = 2 => l + 1 = 3
                       /\ l = 3 => l + 1 = 4 /\ l >= 3
                       /\ l = 7 => l + 1 = 8 /\ l >= 3
    OBVIOUS
  <2>2. Len(k) >= 3 => kind = "page"
    <3>1. Len(k) < Len(Queries[kind]) /\ Len(Queries["summary"]) = 3
      BY <1>1, Places
    <3>2. \A l \in Nat : l < 3 => ~(l >= 3)
      OBVIOUS
    <3>3. Len(k) \in Nat /\ kind \in {"summary", "page"}
      BY <1>3, <1>7
    <3> HIDE DEF c, k, kind
    <3> QED
      BY <3>1, <3>2, <3>3
  <2>3. Queries["page"][4] = Pairs[1] /\ Queries["page"][8] = Pairs[5]
    <3>1. 1 \in 1 .. 8 /\ 5 \in 1 .. 8 /\ 1 + 3 = 4 /\ 5 + 3 = 8
      OBVIOUS
    <3>2. Queries["page"][1 + 3] = Pairs[1] /\ Queries["page"][5 + 3] = Pairs[5]
      BY <3>1, Places
    <3> QED
      BY <3>1, <3>2
  <2>4. /\ Count(Queries[kind][1]) = valid + invalid
        /\ Count(Queries[kind][2]) = valid /\ Count(Queries[kind][3]) = invalid
        /\ Count(Pairs[1]) = valid /\ Count(Pairs[5]) = invalid
    BY <1>2, <1>7, QueryCounts
  <2>5. c = Count(Queries[kind][Len(k) + 1])
    OBVIOUS
  <2> HIDE DEF c, k, kind, valid, invalid
  <2>6. Len(k) = 0 => c = valid + invalid
    <3>1. Len(k) = 0 => Len(k) + 1 = 1
      BY <1>3, <2>1
    <3> QED
      BY <2>4, <2>5, <3>1
  <2>7. Len(k) \in {1, 3} => c = valid
    <3>1. /\ Len(k) = 1 => Len(k) + 1 = 2
          /\ Len(k) = 3 => Len(k) + 1 = 4 /\ Len(k) >= 3
      BY <1>3, <2>1
    <3> QED
      BY <2>2, <2>3, <2>4, <2>5, <3>1
  <2>8. Len(k) \in {2, 7} => c = invalid
    <3>1. /\ Len(k) = 2 => Len(k) + 1 = 3
          /\ Len(k) = 7 => Len(k) + 1 = 8 /\ Len(k) >= 3
      BY <1>3, <2>1
    <3> QED
      BY <2>2, <2>3, <2>4, <2>5, <3>1
  <2> QED
    BY <2>6, <2>7, <2>8
<1>8. /\ Append(k, c) \in Seq(Nat) /\ Len(Append(k, c)) = Len(k) + 1
      /\ \A i \in 1 .. Len(k) : Append(k, c)[i] = k[i]
      /\ Append(k, c)[Len(k) + 1] = c
  <2> HIDE DEF c, k
  <2> QED
    BY <1>3, <1>5, AppendProperties
<1>9. /\ report'.counts = Append(k, c) /\ report'.kind = kind
      /\ report'.state = "running" /\ report'.since = report.since
      /\ report'.until = report.until /\ report'.quiet = report.quiet
      /\ report' \in Report
  <2> HIDE DEF c
  <2> QED
    BY <1>1, <1>8 DEF Report
<1>10. /\ Valid' = Valid /\ Invalid' = Invalid
       /\ \A query : Count(query)' = Count(query)
  BY <1>1, <1>9, CountsFrame
<1>11. report.quiet => \A i \in 1 .. Len(k) + 1 :
                         Append(k, c)[i] = Count(Queries[kind][i])
  <2> SUFFICES ASSUME report.quiet, NEW i \in 1 .. Len(k) + 1
               PROVE  Append(k, c)[i] = Count(Queries[kind][i])
    OBVIOUS
  <2>1. CASE i \in 1 .. Len(k)
    BY <1>1, <1>2, <1>8, <2>1 DEF Counted
  <2>2. CASE i = Len(k) + 1
    BY <1>8, <2>2
  <2> QED
    BY <1>3, <2>1, <2>2
<1> DEFINE n == Append(k, c)
<1>12. kind \in {"summary", "page"} => Covered(n, valid, invalid)
  <2>1. kind \in {"summary", "page"} => Covered(k, valid, invalid)
    BY <1>1, <1>2 DEF Counted
  <2> HIDE DEF c, k, kind, valid, invalid
  <2> QED
    BY <1>3, <1>5, <1>6, <1>7, <2>1, CoveredExtends
<1>13. Counted'
  <2>1. Len(n) <= Len(Queries[kind])
    BY <1>1, <1>3, <1>4, <1>8
  <2>2. report'.quiet => \A i \in 1 .. Len(n) : n[i] = Count(Queries[kind][i])'
    BY <1>8, <1>9, <1>10, <1>11
  <2> HIDE DEF n
  <2>3. report'.counts = n
    BY <1>9 DEF n
  <2> QED
    BY <1>9, <1>10, <1>12, <2>1, <2>2, <2>3 DEF Counted
<1>14. QuietReportsAgree' /\ PartsCoverTotal'
  BY <1>9, Unanswered
<1> QED
  BY <1>1, <1>9, <1>13, <1>14, AnswerStepFrame DEF IInv

\* An answer is complete: what it says follows from what was counted.
LEMMA AnswerStep ==
  ASSUME IInv, Answer
  PROVE  IInv'
<1> DEFINE k == report.counts
           kind == report.kind
           shift == IF kind = "page" THEN 3 ELSE 0
<1>1. /\ report \in Report /\ report.state = "running"
      /\ Len(k) = Len(Queries[kind])
      /\ report' = [report EXCEPT !.state = "done"]
      /\ UNCHANGED <<clock, tables, writer>>
  BY DEF IInv, TypeOK, Answer
<1>2. TypeOK /\ (\A w \in Writers : Transaction(w)) /\ Written /\ Counted
  BY DEF IInv
<1>3. /\ kind \in DOMAIN Queries /\ k \in Seq(Nat) /\ report.quiet \in BOOLEAN
  BY <1>1 DEF Report
<1>4. /\ report'.state = "done" /\ report'.kind = kind /\ report'.counts = k
      /\ report'.since = report.since /\ report'.until = report.until
      /\ report'.quiet = report.quiet /\ report' \in Report
  BY <1>1 DEF Report
<1>5. /\ kind \in {"summary", "page"} =>
           Covered(k, Cardinality(Valid), Cardinality(Invalid))
      /\ report.quiet =>
           \A i \in 1 .. Len(k) : k[i] = Count(Queries[kind][i])
  BY <1>1, <1>2 DEF Counted
<1>6. Counted'
  BY <1>4 DEF Counted
<1>7. ASSUME kind \in {"report", "page"}, report.quiet
      PROVE  \A i \in 1 .. 8 : k[i + shift] = Count(Pairs[i])
  <2> SUFFICES ASSUME NEW i \in 1 .. 8
               PROVE  k[i + shift] = Count(Pairs[i])
    OBVIOUS
  <2>1. Queries[kind][i + shift] = Pairs[i]
    <3>1. CASE kind = "page"
      BY <3>1, Places
    <3>2. CASE kind = "report"
      <4>1. shift = 0 /\ i + 0 = i
        BY <3>2
      <4> QED
        BY <3>2, <4>1, Places
    <3> QED
      BY <1>7, <3>1, <3>2
  <2>2. i + shift \in 1 .. Len(k)
    <3>1. CASE kind = "page"
      <4>1. Len(k) = 11 /\ shift = 3
        BY <1>1, <3>1, Places
      <4> QED
        BY <4>1
    <3>2. CASE kind = "report"
      <4>1. Len(k) = 8 /\ shift = 0
        BY <1>1, <3>2, Places
      <4> QED
        BY <4>1
    <3> QED
      BY <1>7, <3>1, <3>2
  <2> QED
    BY <1>5, <1>7, <2>1, <2>2
<1>8. \A metric, side :
        Reported(metric, side)' = k[Position(Pairs, <<metric, side>>) + shift]
  BY <1>4, Places DEF Reported, Queries
<1>9. ASSUME kind \in {"report", "page"}, report.quiet
      PROVE  /\ Reported("created", "rows")' = Count(Pairs[1])
             /\ Reported("created", "receipts")' = Count(Pairs[2])
             /\ Reported("edited", "rows")' = Count(Pairs[3])
             /\ Reported("edited", "receipts")' = Count(Pairs[4])
             /\ Reported("rejected", "rows")' = Count(Pairs[5])
             /\ Reported("rejected", "receipts")' = Count(Pairs[6])
             /\ Reported("routes", "rows")' = Count(Pairs[7])
             /\ Reported("routes", "receipts")' = Count(Pairs[8])
  <2>1. \A i \in 1 .. 8 : k[i + shift] = Count(Pairs[i])
    BY <1>7, <1>9
  <2> HIDE DEF k, shift
  <2> QED
    BY <1>8, <2>1, Positions
<1>10. QuietReportsAgree'
  <2> SUFFICES ASSUME kind \in {"report", "page"}, report.quiet
               PROVE  /\ AllTime => NoVariance'
                      /\ Agree("created")' /\ Agree("rejected")'
    <3>1. AllTime' <=> AllTime
      BY <1>4 DEF AllTime
    <3> QED
      BY <1>4, <3>1
      DEF QuietReportsAgree, QuietReportPasses, Answered,
          WindowKeepsCreatedPairs
  <2>1. Agree("created")' /\ Agree("rejected")'
    BY <1>2, <1>9, QueryCounts DEF Agree
  <2>2. AllTime => Agree("edited")' /\ Agree("routes")'
    BY <1>2, <1>9, QueryCounts DEF Agree
  <2> QED
    BY <2>1, <2>2 DEF NoVariance
<1>11. kind \in {"summary", "page"} => Len(k) \in {3, 11}
  BY <1>1, Places
<1>12. /\ Summarized("total")' = k[1] /\ Summarized("created")' = k[2]
       /\ Summarized("rejected")' = k[3]
  BY <1>4, Positions DEF Summarized
<1>13. ASSUME kind \in {"summary", "page"}
       PROVE  /\ k[1] <= k[2] + k[3]
              /\ report.quiet => k[1] = k[2] + k[3]
  <2>1. Len(k) = 3 \/ Len(k) = 11
    BY <1>11, <1>13
  <2>2. k[1] <= k[2] + k[3]
    <3>1. Covered(k, Cardinality(Valid), Cardinality(Invalid))
      BY <1>5, <1>13
    <3> HIDE DEF k
    <3> QED
      BY <2>1, <3>1 DEF Covered
  <2>3. ASSUME report.quiet
        PROVE  k[1] = k[2] + k[3]
    <3>1. /\ k[1] = Count(Queries[kind][1]) /\ k[2] = Count(Queries[kind][2])
          /\ k[3] = Count(Queries[kind][3])
      <4>1. 1 \in 1 .. Len(k) /\ 2 \in 1 .. Len(k) /\ 3 \in 1 .. Len(k)
        <5>1. \A l : l = 3 \/ l = 11 =>
                       1 \in 1 .. l /\ 2 \in 1 .. l /\ 3 \in 1 .. l
          OBVIOUS
        <5> QED
          BY <2>1, <5>1
      <4> QED
        BY <1>5, <2>3, <4>1
    <3> HIDE DEF k
    <3> QED
      BY <1>2, <1>13, <3>1, QueryCounts
  <2> QED
    BY <2>2, <2>3
<1>14. ASSUME kind = "page"
       PROVE  /\ k[2] <= k[4] /\ k[3] <= k[8]
              /\ Reported("created", "rows")' = k[4]
              /\ Reported("rejected", "rows")' = k[8]
              /\ report.quiet => /\ k[2] = Reported("created", "receipts")'
                                 /\ k[3] = Reported("rejected", "receipts")'
  <2>1. Len(k) = 11 /\ shift = 3
    BY <1>1, <1>14, Places
  <2>2. k[2] <= k[4] /\ k[3] <= k[8]
    <3>1. Covered(k, Cardinality(Valid), Cardinality(Invalid))
      BY <1>5, <1>14
    <3> HIDE DEF k
    <3> QED
      BY <2>1, <3>1 DEF Covered
  <2>3. /\ Reported("created", "rows")' = k[4]
        /\ Reported("rejected", "rows")' = k[8]
    <3>1. /\ Reported("created", "rows")' = k[1 + 3]
          /\ Reported("rejected", "rows")' = k[5 + 3]
      BY <1>8, <2>1, Positions
    <3>2. 1 + 3 = 4 /\ 5 + 3 = 8
      OBVIOUS
    <3> QED
      BY <3>1, <3>2
  <2>4. ASSUME report.quiet
        PROVE  /\ k[2] = Reported("created", "receipts")'
               /\ k[3] = Reported("rejected", "receipts")'
    <3>1. k[2] = Count(Queries[kind][2]) /\ k[3] = Count(Queries[kind][3])
      <4>1. 2 \in 1 .. Len(k) /\ 3 \in 1 .. Len(k)
        BY <2>1
      <4> QED
        BY <1>5, <2>4, <4>1
    <3>2. k[2] = Count(Pairs[1]) /\ k[3] = Count(Pairs[5])
      BY <1>2, <1>14, <3>1, QueryCounts
    <3> QED
      BY <1>2, <1>9, <1>14, <2>4, <3>2, QueryCounts
  <2> QED
    BY <2>2, <2>3, <2>4
<1>15. PartsCoverTotal'
  BY <1>4, <1>12, <1>13, <1>14 DEF PartsCoverTotal, Answered
<1> QED
  BY <1>1, <1>4, <1>6, <1>10, <1>15, AnswerStepFrame DEF IInv

\* Time passes; no count depends on the clock.
LEMMA TickStep ==
  ASSUME IInv, Tick
  PROVE  IInv'
<1>1. UNCHANGED <<tables, writer, report>> /\ clock' \in Time
  <2>1. clock \in Time /\ clock < MaxClock /\ clock' = clock + 1
    BY DEF IInv, TypeOK, Tick
  <2> QED
    BY <2>1, MaxClockAssumption DEF Time, Tick
<1>2. TypeOK'
  BY <1>1 DEF IInv, TypeOK, tables
<1>3. \A w \in Writers : Transaction(w)'
  BY <1>1 DEF IInv, Transaction, tables
<1>4. Written'
  <2>1. Done' = Done
    BY <1>1 DEF Done
  <2> QED
    BY <1>1, <2>1, WrittenFrame DEF IInv
<1>5. Counted' /\ QuietReportsAgree' /\ PartsCoverTotal'
  BY <1>1, ReportFrame DEF IInv
<1> QED
  BY <1>2, <1>3, <1>4, <1>5 DEF IInv

\* Every step keeps the invariant.
LEMMA IInvStep == IInv /\ [Next]_vars => IInv'
<1> SUFFICES ASSUME IInv, [Next]_vars
             PROVE  IInv'
  OBVIOUS
<1>1. CASE Tick
  BY <1>1, TickStep
<1>2. ASSUME NEW w \in Writers, NEW action \in Actions,
             NEW e \in Events \cup {None}, Begin(w, action, e)
      PROVE  IInv'
  BY <1>2, BeginStep
<1>3. ASSUME NEW w \in Writers, Stamp(w)
      PROVE  IInv'
  BY <1>3, StampStep
<1>4. ASSUME NEW w \in Writers, Commit(w)
      PROVE  IInv'
  BY <1>4, CommitStep
<1>5. ASSUME NEW kind \in DOMAIN Queries, NEW since \in Time,
             NEW until \in Time, Ask(kind, since, until)
      PROVE  IInv'
  BY <1>5, AskStep
<1>6. CASE Query
  BY <1>6, QueryStep
<1>7. CASE Answer
  BY <1>7, AnswerStep
<1>8. CASE UNCHANGED vars
  <2>1. /\ clock' = clock /\ writer' = writer /\ report' = report
        /\ UNCHANGED tables
    BY <1>8 DEF vars
  <2>2. TypeOK'
    BY <2>1 DEF IInv, TypeOK, tables
  <2>3. \A w \in Writers : Transaction(w)'
    BY <2>1 DEF IInv, Transaction, tables
  <2>4. Done' = Done
    BY <2>1 DEF Done
  <2>5. Written'
    BY <2>1, <2>4, WrittenFrame DEF IInv
  <2>6. Counted' /\ QuietReportsAgree' /\ PartsCoverTotal'
    BY <2>1, ReportFrame DEF IInv
  <2> QED
    BY <2>2, <2>3, <2>5, <2>6 DEF IInv
<1> QED
  BY <1>1, <1>2, <1>3, <1>4, <1>5, <1>6, <1>7, <1>8 DEF Next

-----------------------------------------------------------------------------
(* Theorems                                                                *)

\* So it always holds.
LEMMA Invariance == Spec => []IInv
<1> QED
  BY InitIInv, IInvStep, PTL DEF Spec

\* Every variable keeps its shape in every behaviour.
THEOREM TypeInvariant == Spec => []TypeOK
<1>1. IInv => TypeOK
  BY DEF IInv
<1> QED
  BY <1>1, Invariance, PTL

\* A report that nothing was committed during shows no variance over all time,
\* and none between created_at and the receipts whatever the window: however
\* many transactions there are, however often events were edited, whenever the
\* transactions began and committed.
THEOREM QuietReports == Spec => []QuietReportsAgree
<1>1. IInv => QuietReportsAgree
  BY DEF IInv
<1> QED
  BY <1>1, Invariance, PTL

\* Whatever commits between the statements of a summary, its parts cover its
\* total, and the badge on the page covers the summary above it.
THEOREM Covers == Spec => []PartsCoverTotal
<1>1. IInv => PartsCoverTotal
  BY DEF IInv
<1> QED
  BY <1>1, Invariance, PTL
=============================================================================
