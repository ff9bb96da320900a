------------------------------- MODULE Ingest -------------------------------
(***************************************************************************)
(* POST /events for the submissions that share one dedupe_key: what        *)
(* create_event decides (created, duplicate, edit), what it writes, and    *)
(* the pipeline run that follows in the same request.                      *)
(*                                                                         *)
(* A payload stands for its canonical hash.  The event row keeps raw (the  *)
(* columns payload_hash and raw_payload, which change together) apart from *)
(* fields, which stands for the columns projected from the payload one by  *)
(* one (campaign_id, consent, received_at, ...): an UPDATE carries only    *)
(* the columns that differ from the row the session loaded.                *)
(***************************************************************************)
EXTENDS Integers, FiniteSets

CONSTANTS Requests,
          Payloads,   \* schema-valid bodies with this dedupe_key
          Fields,     \* values of a projected column
          FieldOf,    \* the value each payload projects to
          Invalid,    \* a body that fails schema validation
          NoRow

ASSUME PayloadAssumption ==
  /\ FieldOf \in [Payloads -> Fields]
  /\ Invalid \notin Payloads

VARIABLES
  row,       \* the accepted event (is_valid) with this key, or NoRow
  rejected,  \* number of rows persisted with is_valid = false
  receipts,  \* number of receipts of each action_type
  handled,   \* history: the payloads that a pipeline run went through
  overlap,   \* history: two requests have been in progress at a time
  pc, sent,  \* each request: next statement, and the body it carries
  seen,      \* the event as the request's session holds it, or NoRow
  answer     \* what create_event returned to the request

tables == <<row, rejected, receipts, handled>>
vars == <<tables, overlap, pc, sent, seen, answer>>

EventRow == [raw : Payloads, fields : Fields, edited : BOOLEAN]
ASSUME NoRowAssumption == NoRow \notin EventRow \cup Payloads

ActionTypes == {"event_created", "event_edited", "event_rejected"}
Running == {"lookup", "insert", "keyed", "edit", "refresh", "pipeline"}
Ended == {"done", "failed"}
Answers == {"none", "created", "edit", "duplicate", "invalid"}

Init ==
  /\ row = NoRow /\ rejected = 0
  /\ receipts = [t \in ActionTypes |-> 0]
  /\ handled = {}
  /\ overlap = FALSE
  /\ pc = [r \in Requests |-> "idle"]
  /\ sent = [r \in Requests |-> Invalid]
  /\ seen = [r \in Requests |-> NoRow]
  /\ answer = [r \in Requests |-> "none"]

Busy == {r \in Requests : pc[r] \in Running}
Goto(r, label) == /\ pc' = [pc EXCEPT ![r] = label]
                  /\ overlap' = (overlap \/ (pc[r] = "idle" /\ Busy # {}))
Answer(r, status) == answer' = [answer EXCEPT ![r] = status]
Receipt(t) == receipts' = [receipts EXCEPT ![t] = @ + 1]

Post(r, body) ==
  /\ pc[r] = "idle"
  /\ sent' = [sent EXCEPT ![r] = body]
  /\ Goto(r, "lookup")
  /\ UNCHANGED <<tables, seen, answer>>

\* persist_invalid_event: a row of its own and its receipt, in one commit.
Reject(r) ==
  /\ pc[r] = "lookup" /\ sent[r] = Invalid
  /\ rejected' = rejected + 1
  /\ Receipt("event_rejected")
  /\ Answer(r, "invalid")
  /\ Goto(r, "done")
  /\ UNCHANGED <<row, handled, sent, seen>>

Lookup(r) ==
  /\ pc[r] = "lookup" /\ sent[r] # Invalid
  /\ seen' = [seen EXCEPT ![r] = row]
  /\ \/ /\ row = NoRow
        /\ Goto(r, "insert") /\ UNCHANGED answer
     \/ /\ row # NoRow /\ row.raw = sent[r]
        /\ Goto(r, "done") /\ Answer(r, "duplicate")
     \/ /\ row # NoRow /\ row.raw # sent[r]
        /\ Goto(r, "edit") /\ UNCHANGED answer
  /\ UNCHANGED <<tables, sent>>

KeyFree == \A r \in Requests : pc[r] # "keyed"

\* Variant: the index covers rejected rows too.
KeyTakenByAny == row # NoRow \/ rejected > 0

\* The index on dedupe_key is partial: it covers valid rows only.
KeyTaken == row # NoRow

\* The INSERT waits for an open transaction that inserted the same key.
Insert(r) ==
  /\ pc[r] = "insert" /\ KeyFree /\ ~KeyTaken
  /\ Goto(r, "keyed")
  /\ UNCHANGED <<tables, sent, seen, answer>>

\* The key was committed meanwhile: roll back, find the winner, return it as a
\* duplicate whatever its payload.
LoseInsert(r) ==
  /\ pc[r] = "insert" /\ KeyFree /\ KeyTaken
  /\ seen' = [seen EXCEPT ![r] = row]
  /\ Answer(r, "duplicate")
  /\ Goto(r, "done")
  /\ UNCHANGED <<tables, sent>>

\* Variant: is_edit has no default.
ProjectedBare(p) == [raw |-> p, fields |-> FieldOf[p]]

Projected(p) == [raw |-> p, fields |-> FieldOf[p], edited |-> FALSE]

CommitInsert(r) ==
  /\ pc[r] = "keyed"
  /\ row' = Projected(sent[r])
  /\ Receipt("event_created")
  /\ Answer(r, "created")
  /\ Goto(r, "refresh")
  /\ UNCHANGED <<rejected, handled, sent, seen>>

\* Variant: the edit is not marked as one.
OverwrittenUnmarked(r) == [raw |-> sent[r], fields |-> FieldOf[sent[r]],
                           edited |-> FALSE]

\* Variant: a projected column is forgotten in the edit.
OverwrittenPartly(r) == [raw |-> sent[r], fields |-> row.fields, edited |-> TRUE]

\* Only the columns that differ from the loaded row are sent.
Overwritten(r) ==
  [raw    |-> sent[r],
   fields |-> IF seen[r].fields = FieldOf[sent[r]] THEN row.fields
              ELSE FieldOf[sent[r]],
   edited |-> TRUE]

CommitEdit(r) ==
  /\ pc[r] = "edit"
  /\ row' = Overwritten(r)
  /\ Receipt("event_edited")
  /\ Answer(r, "edit")
  /\ Goto(r, "refresh")
  /\ UNCHANGED <<rejected, handled, sent, seen>>

\* Variant: the session keeps the event it loaded before the edit.
RefreshedStale(r) == IF seen[r] = NoRow THEN row ELSE seen[r]

Refreshed(r) == row

\* db.refresh after the commit: another request may have edited in between.
Refresh(r) ==
  /\ pc[r] = "refresh"
  /\ seen' = [seen EXCEPT ![r] = Refreshed(r)]
  /\ Goto(r, "pipeline")
  /\ UNCHANGED <<tables, sent, answer>>

\* Resolve, interpret, score and act on the event the session holds, whatever
\* the row contains by the time the last of them writes.
Pipeline(r) ==
  /\ pc[r] = "pipeline"
  /\ handled' = handled \cup {seen[r].raw}
  /\ Goto(r, "done")
  /\ UNCHANGED <<row, rejected, receipts, sent, seen, answer>>

\* The worker dies, the client goes away, or a statement fails (a rejected body
\* may hold a value that its column cannot): what is not committed is undone.
Crash(r) ==
  /\ pc[r] \in Running
  /\ Goto(r, "failed")
  /\ UNCHANGED <<tables, sent, seen, answer>>

Step(r) == \/ Reject(r) \/ Lookup(r) \/ Insert(r) \/ LoseInsert(r)
           \/ CommitInsert(r) \/ CommitEdit(r) \/ Refresh(r) \/ Pipeline(r)

Next ==
  \E r \in Requests :
    \/ \E body \in Payloads \cup {Invalid} : Post(r, body)
    \/ Step(r)
    \/ Crash(r)

Spec == Init /\ [][Next]_vars
FairSpec == Spec /\ \A r \in Requests : WF_vars(Step(r))

-----------------------------------------------------------------------------
(* Properties                                                              *)

\* The shape of every variable.
TypeOK ==
  /\ row \in EventRow \cup {NoRow}
  /\ rejected \in Nat
  /\ receipts \in [ActionTypes -> Nat]
  /\ handled \subseteq Payloads
  /\ overlap \in BOOLEAN
  /\ pc \in [Requests -> {"idle"} \cup Running \cup Ended]
  /\ sent \in [Requests -> Payloads \cup {Invalid}]
  /\ seen \in [Requests -> EventRow \cup {NoRow}]
  /\ answer \in [Requests -> Answers]

Answered(status) == {r \in Requests : answer[r] = status}

\* The receipts count the rows and the edits exactly, at every moment and
\* whatever dies: one accepted row at most, one receipt for each request that
\* was told "edit", and none for a duplicate (PRD Flow 2, FR-9).
ReceiptsReconcile ==
  /\ receipts["event_created"] = (IF row = NoRow THEN 0 ELSE 1)
  /\ receipts["event_rejected"] = rejected
  /\ row # NoRow => (row.edited <=> receipts["event_edited"] > 0)
  /\ receipts["event_created"] = Cardinality(Answered("created"))
  /\ receipts["event_edited"] = Cardinality(Answered("edit"))
  /\ receipts["event_rejected"] = Cardinality(Answered("invalid"))

\* A rejected body never takes the key: while no valid body has been posted
\* there is no accepted row, and a valid one is never answered as a duplicate
\* of a rejected one (migration 0011, find_event_by_dedupe_key).
RejectedNeverBlocks ==
  \A r \in Answered("duplicate") :
    \E s \in Requests \ {r} : sent[s] # Invalid /\ answer[s] = "created"

\* PRD acceptance criterion on duplicates: submitting one event any number of
\* times, concurrently or after failures, leaves one row, one creation receipt
\* and no edit.
SameEventOnce ==
  (\A r, s \in Requests : sent[r] = sent[s] \/ Invalid \in {sent[r], sent[s]})
    => Cardinality(Answered("created")) <= 1 /\ Answered("edit") = {}

\* The dedupe key stands for one accepted event, in both directions.
KeyIdentifies == RejectedNeverBlocks /\ SameEventOnce

\* A request that loses the insert race, or edits, or is overtaken by an edit
\* never takes the run of another payload with it: as long as nothing dies,
\* every payload that the row has held is replaced or gets its pipeline run.
AcceptedIsHandled ==
  [](\A r \in Requests : pc[r] # "failed") =>
    \A p \in Payloads :
      (row # NoRow /\ row.raw = p)
        ~> (p \in handled \/ (row # NoRow /\ row.raw # p))

\* The projected columns belong to another payload than raw only after two
\* edits, and only if requests have overlapped: edits one after the other, with
\* deaths and resubmissions in between, never tear the row (each sends what
\* differs from the row it loaded, which is then the row as committed).
TornByOverlapOnly ==
  row # NoRow /\ row.fields # FieldOf[row.raw]
    => overlap /\ Cardinality(Answered("edit")) > 1

\* PRD FR-2: a duplicate has a matching payload_hash; edits are never silently
\* dropped.
DuplicateMeansSame ==
  \A r \in Answered("duplicate") : seen[r].raw = sent[r]
=============================================================================
