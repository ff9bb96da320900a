---------------------------- MODULE IngestProofs ----------------------------
(***************************************************************************)
(* Proofs about Ingest, for any number of submissions and any payloads.    *)
(* The invariant says what the place of a request tells of its session and *)
(* of the accepted row (Placed), that one transaction at most holds the    *)
(* key (KeyHeldOnce), and what the row has to do with the answers given    *)
(* (Table); the answers are counted, so it also says that they are         *)
(* finitely many.                                                          *)
(***************************************************************************)
EXTENDS Ingest, FiniteSetTheorems, TLAPS

\* Where a request is before its submission is answered.
Unanswered == {"idle", "lookup", "insert", "keyed", "edit"}

\* Somebody has sent another payload than r.
Disputed(r) ==
  sent[r] # Invalid /\ \E s \in Requests : sent[s] \notin {Invalid, sent[r]}

\* Where r is tells what it has read, and whether the row is there.
Placed(r) ==
  /\ pc[r] = "idle" => sent[r] = Invalid
  /\ pc[r] \in Unanswered => answer[r] = "none"
  /\ pc[r] \in {"insert", "keyed", "edit"} => sent[r] # Invalid
  /\ pc[r] = "keyed" => row = NoRow
  /\ pc[r] \in {"edit", "refresh", "pipeline"} => row # NoRow
  /\ pc[r] \in {"edit", "pipeline"} => seen[r] # NoRow
  /\ answer[r] = "created" => sent[r] # Invalid
  /\ answer[r] = "duplicate" => row # NoRow
  /\ pc[r] = "edit" \/ answer[r] = "edit" => Disputed(r)

\* The unique index lets one transaction insert.
KeyHeldOnce ==
  \A r, s \in Requests : pc[r] = "keyed" /\ pc[s] = "keyed" => r = s

\* Before the first edit the row is whole, and who is about to edit knows it.
Unedited ==
  receipts["event_edited"] = 0 =>
    /\ row # NoRow => row.fields = FieldOf[row.raw]
    /\ \A r \in Requests : pc[r] = "edit" => seen[r] = row

\* Without overlap the row is always whole, and who is about to edit knows it.
Alone ==
  ~overlap =>
    /\ \A r, s \in Busy : r = s
    /\ row # NoRow => row.fields = FieldOf[row.raw]
    /\ \A r \in Requests : pc[r] = "edit" => seen[r] = row

\* The answers that a receipt accounts for.
Counted == {"created", "edit", "invalid"}

\* The row is somebody's submission, and one was told it was created.
Table ==
  /\ \A status \in Counted : IsFiniteSet(Answered(status))
  /\ row = NoRow => receipts["event_edited"] = 0
  /\ row # NoRow => /\ \E s \in Requests : sent[s] = row.raw
                    /\ \E s \in Requests : answer[s] = "created"

\* Inductive: sessions, the row and the answers given agree.
IInv ==
  /\ TypeOK
  /\ \A r \in Requests : Placed(r)
  /\ KeyHeldOnce
  /\ Unedited
  /\ Alone
  /\ Table
  /\ ReceiptsReconcile
  /\ TornByOverlapOnly

-----------------------------------------------------------------------------
\* No row and no answer when the system starts.
LEMMA InitIInv == Init => IInv
<1> SUFFICES ASSUME Init PROVE IInv
  OBVIOUS
<1>1. TypeOK
  BY DEF Init, TypeOK, Answers, ActionTypes
<1>2. \A r \in Requests : Placed(r)
  BY DEF Init, Placed
<1>3. KeyHeldOnce /\ Unedited /\ Alone
  BY DEF Init, KeyHeldOnce, Unedited, Alone, Busy, Running
<1>4. \A status \in Counted : Answered(status) = {}
  BY DEF Init, Answered, Counted
<1>5. \A status \in Counted :
        IsFiniteSet(Answered(status)) /\ Cardinality(Answered(status)) = 0
  BY <1>4, FS_EmptySet
<1>6. Table /\ ReceiptsReconcile /\ TornByOverlapOnly
  BY <1>5
  DEF Init, Table, ReceiptsReconcile, TornByOverlapOnly, ActionTypes, Counted
<1> QED
  BY <1>1, <1>2, <1>3, <1>6 DEF IInv

\* An answer is counted where it belongs, and nowhere else.
LEMMA AnswerCounted ==
  ASSUME TypeOK, Table, NEW r \in Requests, NEW status \in Answers \ {"none"},
         answer[r] = "none", Answer(r, status)
  PROVE  /\ \A t \in Counted \ {status} : Answered(t)' = Answered(t)
         /\ status \in Counted =>
              /\ Answered(status)' = Answered(status) \cup {r}
              /\ IsFiniteSet(Answered(status)')
              /\ Cardinality(Answered(status)') = Cardinality(Answered(status)) + 1
         /\ \A t \in Counted : IsFiniteSet(Answered(t)')
         /\ \A t \in Counted : Cardinality(Answered(t)) \in Nat
<1>1. answer' = [answer EXCEPT ![r] = status] /\ answer \in [Requests -> Answers]
  BY DEF Answer, TypeOK
<1>2. \A t \in Counted \ {status} : Answered(t)' = Answered(t)
  BY <1>1 DEF Answered, Counted
<1>3. Answered(status)' = Answered(status) \cup {r} /\ r \notin Answered(status)
  BY <1>1 DEF Answered, Answers
<1>4. status \in Counted =>
        /\ IsFiniteSet(Answered(status)')
        /\ Cardinality(Answered(status)') = Cardinality(Answered(status)) + 1
  BY <1>3, FS_AddElement DEF Table
<1>5. \A t \in Counted : Cardinality(Answered(t)) \in Nat
  BY FS_CardinalityType DEF Table
<1> QED
  BY <1>2, <1>3, <1>4, <1>5 DEF Table

\* The sessions of other requests are not touched.
OthersRest(r) == \A s \in Requests : s # r =>
  /\ pc'[s] = pc[s] /\ seen'[s] = seen[s] /\ answer'[s] = answer[s]
  /\ sent'[s] = sent[s]

\* A step of r leaves it alone if it was.
LEMMA StaysAlone ==
  ASSUME TypeOK, Alone, NEW r \in Requests, pc[r] \in {"idle"} \cup Running,
         \E to : Goto(r, to)
  PROVE  /\ overlap' \in BOOLEAN
         /\ ~overlap' => /\ ~overlap
                         /\ \A s, t \in Busy' : s = t
                         /\ \A s \in Requests \ {r} : pc'[s] \notin Running
<1>1. PICK to : Goto(r, to)
  OBVIOUS
<1>2. /\ pc' = [pc EXCEPT ![r] = to] /\ overlap \in BOOLEAN
      /\ overlap' = (overlap \/ (pc[r] = "idle" /\ Busy # {}))
  BY <1>1 DEF Goto, TypeOK
<1>3. overlap' \in BOOLEAN
  BY <1>2
<1>4. ASSUME ~overlap'
      PROVE  ~overlap /\ \A s \in Requests \ {r} : pc[s] \notin Running
  <2>1. ~overlap /\ (pc[r] # "idle" \/ Busy = {})
    BY <1>2, <1>4
  <2> QED
    BY <2>1 DEF Alone, Busy
<1>5. \A s \in Requests \ {r} : pc'[s] = pc[s]
  BY <1>2 DEF TypeOK
<1> QED
  BY <1>3, <1>4, <1>5 DEF Busy

-----------------------------------------------------------------------------
\* Steps that write no row and count no answer.
LEMMA QuietStep ==
  ASSUME IInv, NEW r \in Requests, UNCHANGED <<row, rejected, receipts>>,
         pc[r] \in {"idle"} \cup Running, \E to : Goto(r, to),
         TypeOK', OthersRest(r),
         answer[r] # "none" => answer'[r] = answer[r],
         answer'[r] \in {answer[r], "duplicate"},
         sent[r] # Invalid => sent'[r] = sent[r],
         Placed(r)', KeyHeldOnce', pc'[r] = "edit" => seen'[r] = row
  PROVE  IInv'
<1>1. TypeOK
  BY DEF IInv
<1>2. ASSUME NEW s \in Requests, s # r
      PROVE  Placed(s)'
  <2>1. /\ pc'[s] = pc[s] /\ seen'[s] = seen[s] /\ answer'[s] = answer[s]
        /\ sent'[s] = sent[s]
    BY <1>2 DEF OthersRest
  <2>2. Disputed(s) => Disputed(s)'
    BY <2>1 DEF Disputed, OthersRest
  <2> QED
    BY <2>1, <2>2 DEF IInv, Placed
<1>3. Unedited'
  BY DEF IInv, Unedited, OthersRest
<1>4. \A t \in Counted : Answered(t)' = Answered(t)
  BY DEF OthersRest, Answered, Counted
<1>5. ReceiptsReconcile' /\ TornByOverlapOnly'
  <2>1. overlap => overlap'
    BY StaysAlone DEF IInv
  <2> QED
    BY <1>4, <2>1 DEF IInv, ReceiptsReconcile, TornByOverlapOnly, Counted
<1>6. Table'
  <2>1. row # NoRow => \E s \in Requests : sent'[s] = row.raw
    <3>1. row # NoRow => row.raw # Invalid
      BY <1>1, PayloadAssumption DEF TypeOK, EventRow
    <3> QED
      BY <3>1 DEF IInv, Table, OthersRest
  <2>2. \A s \in Requests : answer[s] = "created" => answer'[s] = "created"
    BY DEF OthersRest
  <2> QED
    BY <1>4, <2>1, <2>2 DEF IInv, Table
<1>7. Alone'
  <2>1. ASSUME ~overlap'
        PROVE  /\ ~overlap /\ \A s, t \in Busy' : s = t
               /\ \A s \in Requests : pc'[s] = "edit" => seen'[s] = row
    <3>1. /\ ~overlap /\ \A s, t \in Busy' : s = t
          /\ \A s \in Requests \ {r} : pc'[s] \notin Running
      BY <1>1, <2>1, StaysAlone DEF IInv
    <3> QED
      BY <3>1 DEF Running
  <2> QED
    BY <2>1 DEF IInv, Alone
<1> QED
  BY <1>2, <1>3, <1>5, <1>6, <1>7 DEF IInv

\* A submission that arrives disturbs nothing.
LEMMA PostStep ==
  ASSUME IInv, NEW r \in Requests, NEW body \in Payloads \cup {Invalid},
         Post(r, body)
  PROVE  IInv'
<1>1. /\ TypeOK /\ Placed(r) /\ pc[r] = "idle" /\ sent' = [sent EXCEPT ![r] = body]
      /\ pc' = [pc EXCEPT ![r] = "lookup"] /\ UNCHANGED <<tables, seen, answer>>
      /\ Goto(r, "lookup") /\ overlap' \in BOOLEAN
  BY StaysAlone DEF IInv, Post, Goto
<1>2. TypeOK'
  BY <1>1 DEF TypeOK, tables, Running
<1>3. sent[r] = Invalid /\ answer[r] = "none"
  BY <1>1 DEF Placed, Unanswered
<1>4. Placed(r)'
  BY <1>1, <1>3 DEF Placed, TypeOK, tables
<1>5. KeyHeldOnce'
  BY <1>1 DEF IInv, KeyHeldOnce, TypeOK
<1>6. OthersRest(r)
  BY <1>1 DEF OthersRest, TypeOK
<1>7. pc'[r] = "lookup"
  BY <1>1 DEF TypeOK
<1> QED
  BY <1>1, <1>2, <1>3, <1>4, <1>5, <1>6, <1>7, QuietStep DEF tables

\* An invalid body is answered and counted, and takes no key.
LEMMA RejectStep ==
  ASSUME IInv, NEW r \in Requests, Reject(r)
  PROVE  IInv'
<1>1. /\ TypeOK /\ Table /\ Placed(r) /\ pc[r] = "lookup" /\ sent[r] = Invalid
      /\ rejected' = rejected + 1 /\ Receipt("event_rejected")
      /\ Answer(r, "invalid") /\ pc' = [pc EXCEPT ![r] = "done"]
      /\ UNCHANGED <<row, handled, sent, seen>>
      /\ Goto(r, "done") /\ overlap' \in BOOLEAN
  BY StaysAlone DEF IInv, Reject, Goto, Running
<1>2. answer[r] = "none"
  BY <1>1 DEF Placed, Unanswered
<1>3. /\ receipts' = [receipts EXCEPT !["event_rejected"] = @ + 1]
      /\ answer' = [answer EXCEPT ![r] = "invalid"]
  BY <1>1 DEF Receipt, Answer
<1>4. TypeOK'
  BY <1>1, <1>3 DEF TypeOK, Ended, Answers, ActionTypes
<1>5. \A s \in Requests : Placed(s)'
  BY <1>1, <1>3 DEF IInv, TypeOK, Placed, Unanswered, Disputed
<1>6. /\ receipts'["event_edited"] = receipts["event_edited"]
      /\ receipts'["event_created"] = receipts["event_created"]
      /\ receipts'["event_rejected"] = receipts["event_rejected"] + 1
  BY <1>1, <1>3 DEF TypeOK, ActionTypes
<1>7. KeyHeldOnce' /\ Unedited' /\ Alone'
  <2>1. ASSUME ~overlap'
        PROVE  /\ ~overlap /\ \A s, t \in Busy' : s = t
               /\ \A s \in Requests : pc'[s] # "edit"
    <3>1. /\ ~overlap /\ \A s, t \in Busy' : s = t
          /\ \A s \in Requests \ {r} : pc'[s] \notin Running
      BY <1>1, <2>1, StaysAlone DEF IInv, Running
    <3> QED
      BY <1>1, <3>1 DEF Running, TypeOK
  <2>2. Alone'
    BY <1>1, <2>1 DEF IInv, Alone
  <2> QED
    BY <1>1, <1>6, <2>2 DEF IInv, KeyHeldOnce, Unedited, TypeOK
<1>8. /\ \A t \in {"created", "edit"} : Answered(t)' = Answered(t)
      /\ Cardinality(Answered("invalid")') = Cardinality(Answered("invalid")) + 1
      /\ \A t \in Counted : IsFiniteSet(Answered(t)')
  BY <1>1, <1>2, AnswerCounted DEF Counted, Answers
<1>9. ReceiptsReconcile' /\ TornByOverlapOnly'
  <2>1. overlap => overlap'
    BY <1>1, StaysAlone DEF IInv, Running
  <2> QED
    BY <1>1, <1>6, <1>8, <2>1 DEF IInv, ReceiptsReconcile, TornByOverlapOnly
<1>10. Table'
  BY <1>1, <1>2, <1>3, <1>6, <1>8 DEF IInv, Table, TypeOK
<1> QED
  BY <1>4, <1>5, <1>7, <1>9, <1>10 DEF IInv

\* What the lookup finds is the row, and that another payload was sent.
LEMMA LookupStep ==
  ASSUME IInv, NEW r \in Requests, Lookup(r)
  PROVE  IInv'
<1>1. /\ TypeOK /\ Table /\ Placed(r) /\ pc[r] = "lookup" /\ sent[r] # Invalid
      /\ seen' = [seen EXCEPT ![r] = row] /\ UNCHANGED <<tables, sent>>
      /\ (\E to : Goto(r, to)) /\ overlap' \in BOOLEAN
      /\ pc[r] \in {"idle"} \cup Running
  BY StaysAlone DEF IInv, Lookup, Running
<1>2. answer[r] = "none"
  BY <1>1 DEF Placed, Unanswered
<1>3. \/ row = NoRow /\ pc' = [pc EXCEPT ![r] = "insert"] /\ UNCHANGED answer
      \/ /\ row # NoRow /\ pc' = [pc EXCEPT ![r] = "done"]
         /\ answer' = [answer EXCEPT ![r] = "duplicate"]
      \/ /\ row # NoRow /\ row.raw # sent[r]
         /\ pc' = [pc EXCEPT ![r] = "edit"] /\ UNCHANGED answer
  BY DEF Lookup, Goto, Answer
<1>4. TypeOK'
  BY <1>1, <1>3 DEF TypeOK, tables, Running, Ended, Answers
<1>5. /\ row # NoRow /\ row.raw # sent[r] => Disputed(r)'
      /\ Disputed(r)' = Disputed(r)
  <2>1. row # NoRow => row.raw # Invalid
    BY <1>1, PayloadAssumption DEF TypeOK, EventRow
  <2> QED
    BY <1>1, <2>1 DEF Table, Disputed
<1>6. Placed(r)'
  BY <1>1, <1>2, <1>3, <1>5 DEF TypeOK, Placed, tables, Unanswered
<1>7. KeyHeldOnce'
  BY <1>1, <1>3 DEF IInv, KeyHeldOnce, TypeOK
<1>8. OthersRest(r) /\ seen'[r] = row /\ answer'[r] \in {"none", "duplicate"}
  BY <1>1, <1>2, <1>3 DEF TypeOK, OthersRest
<1> QED
  BY <1>1, <1>2, <1>4, <1>6, <1>7, <1>8, QuietStep DEF tables

\* Steps that only move the request on.
LEMMA OtherSteps ==
  ASSUME IInv, NEW r \in Requests,
         Insert(r) \/ LoseInsert(r) \/ Refresh(r) \/ Pipeline(r) \/ Crash(r)
  PROVE  IInv'
<1>1. /\ TypeOK /\ Placed(r) /\ UNCHANGED <<row, rejected, receipts, sent>>
      /\ pc \in [Requests -> {"idle"} \cup Running \cup Ended]
      /\ seen \in [Requests -> EventRow \cup {NoRow}]
      /\ answer \in [Requests -> Answers] /\ row \in EventRow \cup {NoRow}
      /\ pc[r] \in {"idle"} \cup Running /\ \E to : Goto(r, to)
  BY DEF IInv, TypeOK, Insert, LoseInsert, Refresh, Pipeline, Crash, tables,
         Running
<1>2. overlap' \in BOOLEAN
  BY <1>1, StaysAlone DEF IInv
<1>3. CASE Insert(r)
  <2>1. /\ pc[r] = "insert" /\ KeyFree /\ row = NoRow
        /\ pc' = [pc EXCEPT ![r] = "keyed"]
        /\ UNCHANGED <<tables, sent, seen, answer>>
    BY <1>3 DEF Insert, Goto, KeyTaken
  <2>2. TypeOK' /\ Placed(r)'
    BY <1>1, <1>2, <2>1 DEF TypeOK, tables, Running, Placed, Unanswered
  <2>3. KeyHeldOnce'
    BY <1>1, <2>1 DEF KeyHeldOnce, KeyFree
  <2>4. /\ OthersRest(r) /\ pc'[r] # "edit"
        /\ answer[r] # "none" => answer'[r] = answer[r]
        /\ answer'[r] \in {answer[r], "duplicate"}
    BY <1>1, <2>1, <2>2 DEF OthersRest, tables
  <2> QED
    BY <1>1, <2>1, <2>2, <2>3, <2>4, QuietStep
<1>4. CASE LoseInsert(r)
  <2>1. /\ pc[r] = "insert" /\ row # NoRow /\ seen' = [seen EXCEPT ![r] = row]
        /\ pc' = [pc EXCEPT ![r] = "done"]
        /\ answer' = [answer EXCEPT ![r] = "duplicate"]
        /\ UNCHANGED <<tables, sent>>
    BY <1>4 DEF LoseInsert, Goto, Answer, KeyTaken
  <2>2. answer[r] = "none"
    BY <1>1, <2>1 DEF Placed, Unanswered
  <2>3. TypeOK' /\ Placed(r)'
    BY <1>1, <1>2, <2>1 DEF TypeOK, tables, Ended, Answers, Placed, Unanswered
  <2>4. KeyHeldOnce'
    BY <1>1, <2>1 DEF IInv, KeyHeldOnce
  <2>5. /\ OthersRest(r) /\ pc'[r] # "edit"
        /\ answer[r] # "none" => answer'[r] = answer[r]
        /\ answer'[r] \in {answer[r], "duplicate"}
    BY <1>1, <2>1, <2>2 DEF OthersRest, tables
  <2> QED
    BY <1>1, <2>1, <2>2, <2>3, <2>4, <2>5, QuietStep
<1>5. CASE Refresh(r)
  <2>1. /\ pc[r] = "refresh" /\ seen' = [seen EXCEPT ![r] = row]
        /\ pc' = [pc EXCEPT ![r] = "pipeline"] /\ UNCHANGED <<tables, sent, answer>>
    BY <1>5 DEF Refresh, Refreshed, Goto
  <2>2. TypeOK' /\ Placed(r)'
    BY <1>1, <1>2, <2>1 DEF TypeOK, tables, Running, Placed, Unanswered, Disputed
  <2>3. KeyHeldOnce'
    BY <1>1, <2>1 DEF IInv, KeyHeldOnce
  <2>4. /\ OthersRest(r) /\ pc'[r] # "edit"
        /\ answer[r] # "none" => answer'[r] = answer[r]
        /\ answer'[r] \in {answer[r], "duplicate"}
    BY <1>1, <2>1 DEF OthersRest, tables
  <2> QED
    BY <1>1, <2>1, <2>2, <2>3, <2>4, QuietStep
<1>6. CASE Pipeline(r)
  <2>1. /\ pc[r] = "pipeline" /\ handled' = handled \cup {seen[r].raw}
        /\ pc' = [pc EXCEPT ![r] = "done"]
        /\ UNCHANGED <<row, rejected, receipts, sent, seen, answer>>
    BY <1>6 DEF Pipeline, Goto
  <2>2. seen[r].raw \in Payloads
    BY <1>1, <2>1 DEF Placed, EventRow
  <2>3. TypeOK' /\ Placed(r)'
    BY <1>1, <1>2, <2>1, <2>2 DEF TypeOK, Ended, Placed, Unanswered, Disputed
  <2>4. KeyHeldOnce'
    BY <1>1, <2>1 DEF IInv, KeyHeldOnce
  <2>5. /\ OthersRest(r) /\ pc'[r] # "edit"
        /\ answer[r] # "none" => answer'[r] = answer[r]
        /\ answer'[r] \in {answer[r], "duplicate"}
    BY <1>1, <2>1 DEF OthersRest, tables
  <2> QED
    BY <1>1, <2>1, <2>3, <2>4, <2>5, QuietStep
<1>7. CASE Crash(r)
  <2>1. /\ pc[r] \in Running /\ pc' = [pc EXCEPT ![r] = "failed"]
        /\ UNCHANGED <<tables, sent, seen, answer>>
    BY <1>7 DEF Crash, Goto
  <2>2. TypeOK' /\ Placed(r)'
    BY <1>1, <1>2, <2>1
    DEF TypeOK, tables, Ended, Placed, Unanswered, Disputed, Running
  <2>3. KeyHeldOnce'
    BY <1>1, <2>1 DEF IInv, KeyHeldOnce
  <2>4. /\ OthersRest(r) /\ pc'[r] # "edit"
        /\ answer[r] # "none" => answer'[r] = answer[r]
        /\ answer'[r] \in {answer[r], "duplicate"}
    BY <1>1, <2>1 DEF OthersRest, tables
  <2> QED
    BY <1>1, <2>1, <2>2, <2>3, <2>4, QuietStep
<1> QED
  BY <1>3, <1>4, <1>5, <1>6, <1>7

-----------------------------------------------------------------------------
\* The row that an insert writes, and the one that an edit does.
LEMMA WrittenRow ==
  ASSUME NEW p \in Payloads
  PROVE  /\ Projected(p) \in EventRow /\ Projected(p) # NoRow
         /\ Projected(p).raw = p /\ Projected(p).fields = FieldOf[p]
         /\ Projected(p).edited = FALSE
<1>1. Projected(p) \in EventRow
  BY PayloadAssumption DEF Projected, EventRow
<1>2. Projected(p).raw = p /\ Projected(p).fields = FieldOf[p]
  BY DEF Projected
<1>3. Projected(p).edited = FALSE
  BY DEF Projected
<1> QED
  BY <1>1, <1>2, <1>3, NoRowAssumption

\* An edit that knows the row as it is leaves it whole.
LEMMA RewrittenRow ==
  ASSUME NEW r \in Requests, row \in EventRow, sent[r] \in Payloads
  PROVE  /\ Overwritten(r) \in EventRow /\ Overwritten(r) # NoRow
         /\ Overwritten(r).raw = sent[r] /\ Overwritten(r).edited = TRUE
         /\ seen[r] = row => Overwritten(r).fields = FieldOf[sent[r]]
<1>1. Overwritten(r) \in EventRow
  BY PayloadAssumption DEF Overwritten, EventRow
<1>2. /\ Overwritten(r).raw = sent[r]
      /\ seen[r] = row => Overwritten(r).fields = FieldOf[sent[r]]
  BY DEF Overwritten
<1>3. Overwritten(r).edited = TRUE
  BY DEF Overwritten
<1> QED
  BY <1>1, <1>2, <1>3, NoRowAssumption

\* The holder of the key makes the one row.
LEMMA CommitInsertStep ==
  ASSUME IInv, NEW r \in Requests, CommitInsert(r)
  PROVE  IInv'
<1>1. /\ TypeOK /\ Table /\ Placed(r) /\ pc[r] = "keyed" /\ row' = Projected(sent[r])
      /\ pc' = [pc EXCEPT ![r] = "refresh"]
      /\ Receipt("event_created") /\ Answer(r, "created")
      /\ UNCHANGED <<rejected, handled, sent, seen>>
      /\ Goto(r, "refresh") /\ overlap' \in BOOLEAN
  BY StaysAlone DEF IInv, CommitInsert, Goto, Running
<1>2. /\ row = NoRow /\ answer[r] = "none" /\ sent[r] \in Payloads
      /\ receipts["event_edited"] = 0
  BY <1>1 DEF Placed, Unanswered, TypeOK, Table
<1>3. /\ row' \in EventRow /\ row' # NoRow /\ row'.raw = sent[r]
      /\ row'.fields = FieldOf[row'.raw] /\ row'.edited = FALSE
  BY <1>1, <1>2, WrittenRow
<1>4. /\ receipts' = [receipts EXCEPT !["event_created"] = @ + 1]
      /\ answer' = [answer EXCEPT ![r] = "created"]
  BY <1>1 DEF Receipt, Answer
<1>5. TypeOK'
  BY <1>1, <1>3, <1>4 DEF TypeOK, Running, Answers, ActionTypes
<1>6. /\ receipts'["event_edited"] = 0
      /\ receipts'["event_created"] = receipts["event_created"] + 1
      /\ receipts'["event_rejected"] = receipts["event_rejected"]
  BY <1>1, <1>2, <1>4 DEF TypeOK, ActionTypes
<1>7. \A s \in Requests : s # r => pc[s] \notin {"keyed", "edit"}
  BY <1>1, <1>2 DEF IInv, Placed, KeyHeldOnce
<1>8. \A s \in Requests : Placed(s)'
  <2>1. Placed(r)'
    BY <1>1, <1>2, <1>3, <1>4, PayloadAssumption DEF TypeOK, Placed, Unanswered
  <2>2. ASSUME NEW s \in Requests, s # r
        PROVE  Placed(s)'
    <3>1. /\ pc'[s] = pc[s] /\ answer'[s] = answer[s]
          /\ seen'[s] = seen[s] /\ sent'[s] = sent[s] /\ Disputed(s)' = Disputed(s)
      BY <1>1, <1>4, <2>2 DEF TypeOK, Disputed
    <3>2. Placed(s) /\ pc[s] # "keyed"
      BY <1>7, <2>2 DEF IInv
    <3> QED
      BY <1>3, <3>1, <3>2 DEF Placed
  <2> QED
    BY <2>1, <2>2
<1>9. KeyHeldOnce' /\ Unedited' /\ Alone'
  <2>1. \A s \in Requests : pc'[s] \notin {"keyed", "edit"}
    BY <1>1, <1>7 DEF TypeOK
  <2>2. Alone'
    BY <1>1, <1>3, <2>1, StaysAlone DEF IInv, Alone, Running
  <2> QED
    BY <1>3, <2>1, <2>2 DEF KeyHeldOnce, Unedited
<1>10. /\ \A t \in {"invalid", "edit"} : Answered(t)' = Answered(t)
       /\ Cardinality(Answered("created")') = Cardinality(Answered("created")) + 1
       /\ \A t \in Counted : IsFiniteSet(Answered(t)')
  BY <1>1, <1>2, AnswerCounted DEF Counted, Answers
<1>11. ReceiptsReconcile' /\ TornByOverlapOnly'
  <2>1. row'.edited <=> receipts'["event_edited"] > 0
    BY <1>3, <1>6
  <2>2. /\ receipts["event_created"] = 0
        /\ receipts["event_rejected"] = rejected
        /\ Cardinality(Answered("created")) = 0
        /\ Cardinality(Answered("edit")) = receipts["event_edited"]
        /\ Cardinality(Answered("invalid")) = rejected
    BY <1>2 DEF IInv, ReceiptsReconcile
  <2> QED
    BY <1>1, <1>2, <1>3, <1>6, <1>10, <2>1, <2>2
    DEF ReceiptsReconcile, TornByOverlapOnly
<1>12. Table'
  BY <1>1, <1>3, <1>4, <1>6, <1>10 DEF Table, TypeOK
<1> QED
  BY <1>5, <1>8, <1>9, <1>11, <1>12 DEF IInv

\* An edit keeps the row accepted; the first one keeps it whole.
LEMMA CommitEditStep ==
  ASSUME IInv, NEW r \in Requests, CommitEdit(r)
  PROVE  IInv'
<1>1. /\ TypeOK /\ Table /\ Placed(r) /\ pc[r] = "edit" /\ row' = Overwritten(r)
      /\ pc' = [pc EXCEPT ![r] = "refresh"]
      /\ Receipt("event_edited") /\ Answer(r, "edit")
      /\ UNCHANGED <<rejected, handled, sent, seen>>
      /\ Goto(r, "refresh") /\ overlap' \in BOOLEAN
  BY StaysAlone DEF IInv, CommitEdit, Goto, Running
<1>2. /\ row \in EventRow /\ answer[r] = "none" /\ sent[r] \in Payloads
      /\ seen[r] \in EventRow /\ row # NoRow /\ Disputed(r)
  BY <1>1 DEF Placed, Unanswered, TypeOK
<1>3. /\ row' \in EventRow /\ row' # NoRow /\ row'.raw = sent[r]
      /\ row'.edited = TRUE
      /\ seen[r] = row => row'.fields = FieldOf[row'.raw]
  BY <1>1, <1>2, RewrittenRow
<1>4. /\ receipts' = [receipts EXCEPT !["event_edited"] = @ + 1]
      /\ answer' = [answer EXCEPT ![r] = "edit"]
  BY <1>1 DEF Receipt, Answer
<1>5. TypeOK'
  BY <1>1, <1>3, <1>4 DEF TypeOK, Running, Answers, ActionTypes
<1>6. /\ receipts["event_edited"] \in Nat
      /\ receipts'["event_edited"] = receipts["event_edited"] + 1
      /\ receipts'["event_created"] = receipts["event_created"]
      /\ receipts'["event_rejected"] = receipts["event_rejected"]
  BY <1>1, <1>4 DEF TypeOK, ActionTypes
<1>7. \A s \in Requests : Placed(s)'
  <2>1. \A s \in Requests : Disputed(s)' = Disputed(s)
    BY <1>1 DEF Disputed
  <2>2. Placed(r)'
    BY <1>1, <1>2, <1>3, <1>4, <2>1 DEF TypeOK, Placed, Unanswered
  <2>3. ASSUME NEW s \in Requests, s # r
        PROVE  Placed(s)'
    <3>1. /\ pc'[s] = pc[s] /\ answer'[s] = answer[s]
          /\ seen'[s] = seen[s] /\ sent'[s] = sent[s] /\ Placed(s)
      BY <1>1, <1>4, <2>3 DEF TypeOK, IInv
    <3> QED
      BY <1>2, <1>3, <2>1, <3>1 DEF Placed
  <2> QED
    BY <2>2, <2>3
<1>8. KeyHeldOnce' /\ Unedited' /\ Alone'
  <2>1. KeyHeldOnce' /\ Unedited'
    BY <1>1, <1>6 DEF IInv, KeyHeldOnce, Unedited, TypeOK
  <2>2. ASSUME ~overlap'
        PROVE  /\ ~overlap /\ seen[r] = row
               /\ \A s, t \in Busy' : s = t
               /\ \A s \in Requests : pc'[s] # "edit"
    <3>1. /\ ~overlap /\ \A s, t \in Busy' : s = t
          /\ \A s \in Requests \ {r} : pc'[s] \notin Running
      BY <1>1, <2>2, StaysAlone DEF IInv, Running
    <3> QED
      BY <1>1, <3>1 DEF IInv, Alone, Running, TypeOK
  <2> QED
    BY <1>3, <2>1, <2>2 DEF Alone
<1>9. /\ \A t \in {"invalid", "created"} : Answered(t)' = Answered(t)
      /\ Cardinality(Answered("edit")') = Cardinality(Answered("edit")) + 1
      /\ \A t \in Counted : IsFiniteSet(Answered(t)')
  BY <1>1, <1>2, AnswerCounted DEF Counted, Answers
<1>10. ReceiptsReconcile'
  <2>1. row'.edited <=> receipts'["event_edited"] > 0
    BY <1>3, <1>6
  <2>2. /\ receipts["event_created"] = 1
        /\ receipts["event_rejected"] = rejected
        /\ Cardinality(Answered("created")) = 1
        /\ Cardinality(Answered("edit")) = receipts["event_edited"]
        /\ Cardinality(Answered("invalid")) = rejected
    BY <1>2 DEF IInv, ReceiptsReconcile
  <2> QED
    BY <1>1, <1>3, <1>6, <1>9, <2>1, <2>2 DEF ReceiptsReconcile
<1>11. TornByOverlapOnly'
  <2>1. receipts["event_edited"] = Cardinality(Answered("edit"))
    BY DEF IInv, ReceiptsReconcile
  <2>2. row'.fields # FieldOf[row'.raw] => overlap'
    BY <1>1, <1>3, <1>8 DEF Alone
  <2>3. CASE receipts["event_edited"] = 0
    BY <1>1, <1>3, <2>3 DEF IInv, Unedited, TornByOverlapOnly
  <2>4. CASE receipts["event_edited"] # 0
    BY <1>6, <1>9, <2>1, <2>2, <2>4 DEF TornByOverlapOnly
  <2> QED
    BY <2>3, <2>4
<1>12. Table'
  <2>1. \E s \in Requests : answer'[s] = "created"
    BY <1>1, <1>2, <1>4 DEF TypeOK, Table
  <2> QED
    BY <1>1, <1>3, <1>9, <2>1 DEF Table
<1> QED
  BY <1>5, <1>7, <1>8, <1>10, <1>11, <1>12 DEF IInv

\* Every step of the specification preserves the invariant.
LEMMA IInvStep == IInv /\ [Next]_vars => IInv'
<1> SUFFICES ASSUME IInv, [Next]_vars PROVE IInv'
  OBVIOUS
<1>1. CASE UNCHANGED vars
  <2>1. TypeOK' /\ (\A r \in Requests : Placed(r)') /\ KeyHeldOnce' /\ Alone'
    BY <1>1
    DEF vars, tables, IInv, TypeOK, Placed, Disputed, KeyHeldOnce, Alone, Busy
  <2>2. \A t : Answered(t)' = Answered(t)
    BY <1>1 DEF vars, Answered
  <2> QED
    BY <1>1, <2>1, <2>2
    DEF vars, tables, IInv, Unedited, Table, ReceiptsReconcile,
        TornByOverlapOnly
<1> QED
  BY <1>1, PostStep, RejectStep, LookupStep, OtherSteps, CommitInsertStep,
     CommitEditStep
  DEF Next, Step

\* So it holds in every reachable state.
LEMMA Invariance == Spec => []IInv
BY InitIInv, IInvStep, PTL DEF Spec

-----------------------------------------------------------------------------
\* Every variable keeps its shape.
THEOREM TypeInvariant == Spec => []TypeOK
<1>1. IInv => TypeOK
  BY DEF IInv
<1> QED
  BY <1>1, Invariance, PTL

\* The receipts count the rows, the edits and the answers, whatever dies.
THEOREM Reconciles == Spec => []ReceiptsReconcile
<1>1. IInv => ReceiptsReconcile
  BY DEF IInv
<1> QED
  BY <1>1, Invariance, PTL

\* Columns of two payloads meet in a row only after two edits of requests that
\* overlapped.
THEOREM TornLate == Spec => []TornByOverlapOnly
<1>1. IInv => TornByOverlapOnly
  BY DEF IInv
<1> QED
  BY <1>1, Invariance, PTL

\* A dedupe key stands for one accepted event: a rejected body never takes it,
\* and one event submitted any number of times is created once, never edited.
THEOREM OneEventPerKey == Spec => []KeyIdentifies
<1>1. IInv => KeyIdentifies
  <2> SUFFICES ASSUME IInv PROVE KeyIdentifies
    OBVIOUS
  <2>1. RejectedNeverBlocks
    <3> SUFFICES ASSUME NEW r \in Answered("duplicate")
                 PROVE  \E s \in Requests \ {r} :
                          sent[s] # Invalid /\ answer[s] = "created"
      BY DEF RejectedNeverBlocks
    <3>1. r \in Requests /\ answer[r] = "duplicate" /\ row # NoRow
      BY DEF Answered, IInv, Placed
    <3>2. PICK s \in Requests : answer[s] = "created"
      BY <3>1 DEF IInv, Table
    <3>3. sent[s] # Invalid
      BY <3>2 DEF IInv, Placed
    <3> QED
      BY <3>1, <3>2, <3>3
  <2>2. SameEventOnce
    <3> SUFFICES ASSUME \A r, s \in Requests :
                          sent[r] = sent[s] \/ Invalid \in {sent[r], sent[s]}
                 PROVE  /\ Cardinality(Answered("created")) <= 1
                        /\ Answered("edit") = {}
      BY DEF SameEventOnce
    <3>1. \A r \in Requests : ~Disputed(r)
      BY DEF Disputed
    <3>2. Answered("edit") = {}
      BY <3>1 DEF Answered, IInv, Placed
    <3> QED
      BY <3>2 DEF IInv, ReceiptsReconcile
  <2> QED
    BY <2>1, <2>2 DEF KeyIdentifies
<1> QED
  BY <1>1, Invariance, PTL

-----------------------------------------------------------------------------
(* The run of what the row holds                                           *)

\* r wrote what the row holds and has yet to take it through the pipeline, or
\* died before it did.
Owes(r) ==
  /\ row # NoRow /\ sent[r] = row.raw /\ answer[r] \in {"created", "edit"}
  /\ \/ pc[r] \in {"refresh", "failed"}
     \/ pc[r] = "pipeline" /\ seen[r].raw = row.raw

\* What the row holds went through the pipeline, or its writer owes it the run:
\* the part of AcceptedIsHandled that fairness has nothing to do with.  Neither
\* the loser of an insert race nor an edit in between takes the run away.
RunOwed ==
  row # NoRow => row.raw \in handled \/ \E r \in Requests : Owes(r)

\* Who owes a run goes on owing it until it has done so, or the row is
\* replaced by somebody who owes the next one.
LEMMA OwedStep == IInv /\ RunOwed /\ [Next]_vars => RunOwed'
<1> SUFFICES ASSUME IInv, RunOwed, [Next]_vars PROVE RunOwed'
  OBVIOUS
<1>1. /\ pc \in [Requests -> {"idle"} \cup Running \cup Ended]
      /\ sent \in [Requests -> Payloads \cup {Invalid}]
      /\ seen \in [Requests -> EventRow \cup {NoRow}]
      /\ answer \in [Requests -> Answers] /\ row \in EventRow \cup {NoRow}
      /\ \A r \in Requests : Placed(r)
  BY DEF IInv, TypeOK
<1>2. ASSUME UNCHANGED row, handled \subseteq handled',
             \A s \in Requests : Owes(s) => Owes(s)' \/ row.raw \in handled'
      PROVE  RunOwed'
  BY <1>2 DEF RunOwed
<1>3. ASSUME NEW r \in Requests, NEW s \in Requests, s # r, UNCHANGED row,
             Owes(s), pc'[s] = pc[s], sent'[s] = sent[s], seen'[s] = seen[s],
             answer'[s] = answer[s]
      PROVE  Owes(s)'
  BY <1>3 DEF Owes
<1>4. ASSUME NEW r \in Requests,
             \/ \E body \in Payloads \cup {Invalid} : Post(r, body)
             \/ Reject(r) \/ Lookup(r) \/ Insert(r) \/ LoseInsert(r)
      PROVE  RunOwed'
  <2>1. ~Owes(r)
    BY <1>1, <1>4 DEF Post, Reject, Lookup, Insert, LoseInsert, Owes
  <2>2. UNCHANGED <<row, handled>>
    BY <1>4 DEF Post, Reject, Lookup, Insert, LoseInsert, tables
  <2>3. \A s \in Requests \ {r} : /\ pc'[s] = pc[s] /\ sent'[s] = sent[s]
                                  /\ seen'[s] = seen[s] /\ answer'[s] = answer[s]
    BY <1>1, <1>4 DEF Post, Reject, Lookup, Insert, LoseInsert, Goto, Answer
  <2> QED
    BY <1>2, <1>3, <2>1, <2>2, <2>3
<1>5. ASSUME NEW r \in Requests, CommitInsert(r) \/ CommitEdit(r)
      PROVE  RunOwed'
  <2>1. row'.raw = sent[r] /\ row' # NoRow
    <3>1. sent[r] \in Payloads
      BY <1>1, <1>5 DEF CommitInsert, CommitEdit, Placed
    <3>2. CASE CommitInsert(r)
      BY <3>1, <3>2, WrittenRow DEF CommitInsert, Projected
    <3>3. CASE CommitEdit(r)
      BY <1>1, <3>1, <3>3, NoRowAssumption, RewrittenRow
      DEF CommitEdit, Overwritten, Placed
    <3> QED
      BY <1>5, <3>2, <3>3
  <2>2. /\ pc'[r] = "refresh" /\ sent'[r] = sent[r]
        /\ answer'[r] \in {"created", "edit"}
    BY <1>1, <1>5 DEF CommitInsert, CommitEdit, Goto, Answer
  <2> QED
    BY <2>1, <2>2 DEF RunOwed, Owes
<1>6. ASSUME NEW r \in Requests, Refresh(r) \/ Pipeline(r) \/ Crash(r)
      PROVE  RunOwed'
  <2>1. UNCHANGED <<row, sent>> /\ handled \subseteq handled'
    BY <1>6 DEF Refresh, Pipeline, Crash, tables
  <2>2. \A s \in Requests \ {r} : /\ pc'[s] = pc[s] /\ seen'[s] = seen[s]
                                  /\ answer'[s] = answer[s]
    BY <1>1, <1>6 DEF Refresh, Pipeline, Crash, Goto
  <2>3. ASSUME Owes(r)
        PROVE  Owes(r)' \/ row.raw \in handled'
    <3>1. CASE Refresh(r)
      BY <1>1, <2>1, <2>3, <3>1 DEF Refresh, Refreshed, Goto, Owes
    <3>2. CASE Pipeline(r)
      BY <2>3, <3>2 DEF Pipeline, Owes
    <3>3. CASE Crash(r)
      BY <1>1, <2>3, <3>3 DEF Crash, Goto, Owes, tables
    <3> QED
      BY <1>6, <3>1, <3>2, <3>3
  <2> QED
    BY <1>2, <1>3, <2>1, <2>2, <2>3
<1>7. CASE UNCHANGED vars
  BY <1>7 DEF vars, tables, RunOwed, Owes
<1> QED
  BY <1>4, <1>5, <1>6, <1>7 DEF Next, Step

\* As long as its writer lives, no accepted content is left without a run.
THEOREM RunIsOwed == Spec => []RunOwed
<1>1. Init => RunOwed
  BY DEF Init, RunOwed
<1> QED
  BY <1>1, OwedStep, Invariance, PTL DEF Spec
=============================================================================
