# Verification of the demand-signal workflow

TLA+ models of the backend under `src/app`: a FastAPI service that ingests
demand signals, deduplicates them, resolves who sent them, classifies and scores
them, and turns each contact into one lead with a route and an attribution. All
state lives in PostgreSQL; every request runs in a session of its own, and what
makes the system hard is what concurrent requests, rollbacks and dying requests
do to each other's rows.

Contents: 1 the system, 2 the modules, 3 modelling conventions, 4 the runs,
5 where code and text disagree, 6 the proofs, 7 bounds and fairness, 8 not
modelled, 9 plan.

## 1. The system

| component | state | operations | called by / calls |
|---|---|---|---|
| ingestion (`services/ingest.py`, `routers/events.py`) | `events`, receipts `event_*` | `persist_invalid_event`, `create_event` (created, duplicate, edit) | `POST /events`; then resolution and the pipeline in the same request |
| identity resolution and manual review (`services/resolve.py`, `routers/manual_review.py`, `routers/pages.py`) | `identities`, `identity_links`, `manual_review_queue` | `resolve_identity`, `_queue_review`, `resolve_review` | ingestion; reviewers; a resolved review resumes the pipeline |
| pipeline (`services/pipeline.py`, `services/interpret.py`, `services/score.py`) | `interpretations`, `scores`, `dead_letter_queue` | interpret with bounded retries, score, act; dead-lettering | ingestion, review, replay; the LLM provider |
| act (`services/act.py`) | `leads`, `routes` | create or update lead and route, attribution, three receipts, one commit | last stage of the pipeline |
| attribution (`services/attribute.py`) | `attribution_touches` | `upsert_attribution` | act |
| SLA escalation (`services/escalation.py`) | `routes.escalated` | `evaluate_escalation` | four GET handlers that list or show leads |
| admin (`routers/admin.py`) | `dead_letter_queue.resolved` | replay, simulate a failure | pipeline |
| receipts, reconciliation, summary (`services/receipts.py`, `routers/dashboard.py`, `services/summarize.py`) | `receipts` | `write_receipt`, the report, the summary, the page with both | every mutation; read by the dashboard |
| policies (`policies/*.json`) | none | label scores, thresholds, routing rules | score, act |

Components share state only through the database. What the modules take from it:
READ COMMITTED isolation; row locks held to the end of a transaction; an INSERT
that waits for an open transaction holding the same unique key and fails if that
commits; partial unique indexes (valid events by dedupe key, unresolved dead
letters by event). What they take from the session: an UPDATE carries only the
columns that differ from the row the session loaded, a rollback expires every
loaded object, and reading an expired attribute outside an await raises.

What must hold, per component:

- *ingestion*: one accepted row per key, a receipt for every row and edit, a
  rejected body never in the way of a valid one, no submission without effect;
- *resolution*: one identity per email or phone, no merge by resemblance, one
  winner per review, no event that is neither linked nor queued;
- *pipeline and dead letters*: bounded retries, at most one open row per event,
  rows closed only behind a successful `act()`, no failure off the worklist;
- *act and attribution*: rows and receipts together, no touch lost, touch times
  independent of the order of delivery;
- *escalation*: flag and receipts agree, no flag without a lapse, nothing lapsed
  left unflagged by an answered read;
- *reconciliation and summary*: no variance where nothing is wrong, and counts
  that fit each other;
- *the whole*: an accepted event ends with a lead, before a reviewer or on the
  worklist, and a lead never comes from a resemblance.

The hazards behind these, each at its line, are listed in `PROJECT.json`. Some
are of behaviour that the code does have (section 5): the properties listed there
then say what bounds it, and the note says what they except; where nothing
bounds it, the note stands alone.

## 2. The modules

| module | models | state and actions |
|---|---|---|
| `Attribution` | `upsert_attribution` on one touch row | operator `Upsert`, from `Earliest`, `Latest`, `Denormalize` |
| `AttributionOrder` | deliveries, redeliveries and edits of events to copies of one row | `row`, `seen`; `Deliver`, `DeliverEdit` |
| `Act` | `act()` for the requests of one identity | tables `lead`, `route`, `touch`, `receipts`; per request `pc`, `job` and what its SELECTs returned; one action per statement, `Commit` installs what the transaction wrote |
| `LeadLedger` | what `act()` promises: atomic `Create` and `Update` | `lead`, `route`, `touch`, `receipts` |
| `Escalation` | the readers of leads, the clock, re-routing | `route`, `receipts`, `reader`; `Evaluate`, `Flush`, `Commit`, `DeadlockAbort` |
| `Ingest` | the submissions of one dedupe key | `row`, `rejected`, `receipts`, per request `pc`, `sent`, `seen`, `answer` |
| `Pipeline` | runs of one event: interpret, score, act, dead letter, replay, simulation | `dlq`, `interp`, `score`, `lead`, `receipts`, per request `pc`, `run` |
| `Resolve` | `resolve_identity` and `resolve_review` over several events | `identity`, `link`, `review`, `receipts`, per request `pc`, `run` |
| `EventLife` | what the service promises about one event: accepted, linked or in review, listed, lead | `accepted`, `linked`, `review`, `listed`, `lead`; `Accept`, `Link`, `Queue`, `Decide`, `List`, `Unlist`, `Produce` |
| `Lifecycle` | one event through ingestion, resolution, review, pipeline, dead letters, replay and simulated failures | tables `row`, `link`, `review`, `rows`, `open`, `leads`; per request `pc`, `job`; one action per transaction, `Die` for whatever ends a request without an answer |
| `Scoring` | policy v1 and routing rules v1 | the input of a score; `Value`, `Decision`, `Routing` |
| `Reconciliation` | report, summary and dashboard page beside committing transactions | `event`, `rejected`, `routes`, `receipts`, `writer`, `report` |

`Act` and `AttributionOrder` extend `Attribution`; `Act` instantiates
`LeadLedger` and implements it (the identity mapping on the shared tables).
`Lifecycle` composes the components: where `Ingest`, `Resolve`, `Pipeline` and
`Act` have statements it has transactions, and it keeps what a request carries
from one to the next (the sender as loaded, the identity, the dead-letter row).
It instantiates `EventLife` and implements it, with `accepted` mapped to an
event row, `linked` to a link, `listed` to an open dead-letter row and `lead` to
a lead of any identity. `Resolve` implements it once per event, statement by
statement, for the part that has to do with identities (`listed` and `lead` stay
FALSE); `PipelineProofs` shows the other part of `Pipeline`, for an event that
has been ingested and linked.
Eight modules hold the proofs: `<module>Proofs` of `Act`, `Escalation`,
`Ingest`, `Pipeline`, `Resolve`, `Reconciliation` and `Lifecycle`, each an
extension of the module it is about, and `EvidenceProofs` of `AttributionOrder`
and `Scoring` (section 6).
`MC<module>` holds the values of the constants for TLC. Definitions introduced
as *Variant* are plausible bugs of the operator that follows them; nothing else
uses them, they document what each property would catch.

`PROJECT.json` maps every definition to the lines it models.

## 3. Conventions

- One action is one statement of a session, or the flush of pending writes that
  precedes it; `pc[r]` names the next one. A write whose own commit follows
  immediately is one action with it. Writes stay with the request until its
  commit, so a dying request (`Cancel`, `Crash`, `Kill`) only has to move its
  `pc`; locks are read off the program counters.
- Data is what the properties tell apart: a payload is its hash plus one
  projected column (`Ingest`), an event is its version (`Pipeline`), its key and
  name (`Resolve`) or its time and content (`Act`).
- Variables marked *history* in their comment are not in the program; they
  remember what happened so that a property can speak about it.
- `overlap` is such a history: whether two requests were ever in progress at a
  time. `AloneIsCoherent`, `AloneIsUnique`, `OneLeadUnlessMoved`,
  `TornByOverlapOnly` and the last conjunct of `EscalationAccounted` say what
  the code guarantees to requests that do not overlap, whatever their order and
  wherever they die; section 5 says what becomes of it when they do.
- A property with several aspects is a conjunction of named parts where a part
  is worth a name: `AnswersHold` of `Resolve`, `KeyIdentifies`,
  `OutcomeFollowsPolicy`, `QuietReportsAgree`, `TimesFollowSeen`.
- A module abstracts the neighbours it calls to one step (`act()` in `Pipeline`,
  the pipeline in `Ingest`); the neighbour's own module has its statements.
- `Pipeline` keeps an interpretation as two columns, each with the version it
  was computed from: an update sends only the columns that differ.
- Requests of `Lifecycle` are numbered in the order of their arrival. They are
  alike until they arrive, so this only removes renamings; and each has an
  identity of its own (`Fresh`) that it would create.

## 4. Runs that pass

| run | shows |
|---|---|
| `MCAttributionOrder` | two copies of a touch row that were given the same three events (two with the same time) in any order, with redeliveries and edits, agree on first and last time; those are the events' own |
| `Act` | three requests, two events, edits and cancellations: lead, route and touch appear together and the receipts count them; the only race that can be lost is the one for the lead, and only a second update can mix the route; no touch is lost; lead and touches name events that acted; the interleaved statements implement the atomic ledger |
| `ActLive` | a request that enters `act()` leaves it |
| `Escalation` | two readers, two routes, re-routes and rollbacks: the flag is set exactly when a receipt accounts for it and only after a lapse; an answered read leaves no route it walked over unflagged that had visibly lapsed when it arrived; reads that do not overlap write one receipt per route; every read ends, deadlocks between list requests included |
| `Ingest` | three submissions: receipts equal rows and answers at every moment; a duplicate is a duplicate of an accepted row; one event submitted any number of times is created once and never edited; columns of two payloads mix only after two edits of requests that overlap; without crashes accepted content is replaced or gets a run |
| `Pipeline` | three concurrent submissions, resumes, replays and simulations of one event: at most one open dead-letter row, each with its receipt; a row is closed only after a later `act()`; runs that do not overlap never fail on a key, mix two classifications or score content with another one's, and current content that failed stays on the worklist until it is handled; every run ends |
| `Resolve` | four requests, two events, one key, one name: one identity per key, three receipt pairs, no merge by resemblance, one winner per review, nothing forgotten, two identities of alike names only from overlapping requests or a reviewer; each event lives its part of `EventLife` |
| `Scoring` | all labels, sources and flags and every confidence that the column holds, -9.99 to 9.99 (nothing checks what the provider sends): no number without a label that has one, boundaries upward, a rule for every decision, more evidence never lowers score, decision or urgency |
| `Reconciliation` | a report during which nothing commits shows no variance over all time; a window never splits a pair that the database stamped; the parts of a summary, counted after the total, and the badge, counted after both, never miss an event |
| `Lifecycle` | four requests, two at a time, on one event, with deaths at every step: what a request was answered stays true; once all is quiet only a death has stranded an event; a lead comes from a submitted key, a name's own identity or a reviewer, however stale the identity a run holds; requests one after the other make one lead unless a review outlives an edit; the requests implement the life of an event; without deaths every accepted event reaches a lead, a reviewer or the worklist |

`CHECK_DEADLOCK FALSE` is set where clients may simply stop (each request runs
once, so every behaviour ends); `Scoring` always has a next step.

## 5. Where code and text disagree

Two runs each check one sentence of the documents or docstrings and end in a
counterexample; `PROJECT.json` quotes the sentences. The second needs requests
that overlap: for the others `AloneIsCoherent` says, and section 6 proves, that
current content that failed stays listed.

| run | what the counterexample does |
|---|---|
| `IngestLostEdit` | a different payload loses the insert race: answered as a duplicate |
| `PipelineUnlisted` | replaying old content closes the row that also stood for new content's failure |

The modules contain more behaviour that a sentence of the repository excludes.
The formulas below are false in the modules; paths are under `src/`.

| sentence | formula | behaviour of the code |
|---|---|---|
| ties "make the result deterministic regardless of delivery order" (`app/services/attribute.py:6`) | `seen[c] = seen[d] => row[c].last.event = row[d].last.event` | on equal times the event that arrived first stays |
| the loser "must re-read and update the winner's row" (`app/db/models.py:234`) | `pc[r] # "error"` in `Act` | it rolls back, reads the expired event and fails |
| a route is "UPDATED in place with the freshly computed queue/rule_matched/sla_deadline" (`app/services/act.py:109`) | `route.queue = route.sla` | overlapping re-routes: the queue of one, the deadline of the other |
| "last-touch is always the most recent" event (`docs/PRD_Demand_Signal_Workflow_v1_2.md:125`) | `d.at <= touch.last.at` for each `d` in `acted` that kept its time | an event edited before its first `act()` never competes for the last touch |
| "concurrent reads converge on one flip and at most one receipt" (`app/services/escalation.py:21`) | `receipts[x] <= 1` | two readers load the flag before either commits: one flip, two receipts |
| "escalated is computed-on-read for v1 (sla_deadline < now())" (`app/db/models.py:264`) | `route[x].escalated => route[x].deadline < clock` | a re-route sets a fresh deadline and leaves the flag |
| an edit updates the row (`README.md:149`) | `row.fields = FieldOf[row.raw]` | overlapping edits leave columns of two payloads |
| an edit re-runs the pipeline "so downstream state reflects the corrected content" (PRD:92) | the last `Pipeline(r)` had `seen[r].raw = row.raw` | the run of the older payload may finish last |
| "including duplicates, retries, and mid-pipeline failures" one lead per contact (PRD:29) | `AcceptedIsHandled` without its premise | death between event commit and pipeline: the retry is only a duplicate |
| "409 if the event is not currently dead-lettered" (`app/routers/admin.py:62`) | as many `dead_letter_resolved` receipts as resolved rows | two replays that found one open row both resolve and receipt it |
| a failed replay "already wrote a NEW dead_letter_queue row" (`app/routers/admin.py:107`) | `Len(dlq') > Len(dlq)` | its own row is still open and suppresses the new one |
| a score keeps "the inputs that produced it" (PRD:122) | `score.interp = OfVersion(score.event)` | a run scores its event with the interpretation of a concurrent run |
| "running this twice for the same event" updates in place (`app/services/pipeline.py:46`) | `pc[r] # "error"` in `Pipeline` | two first runs insert an interpretation: the loser fails |
| an edit "retains its already adjudicated canonical identity" (`app/services/resolve.py:314`) | `link[e] # 0 => link'[e] = link[e]` | an edit links a parked event, the pending review overwrites the link |
| "so the link already exists" (`app/routers/admin.py:86`) | `open # 0 => link # "none"` in `Lifecycle` | a failure simulated for a parked event: its replay is refused until somebody links the event |
| a run "updates in place instead of double-writing" (`app/services/pipeline.py:48`) | `Cardinality(leads) <= 1` | the review that outlives an edit, or a run that overlaps it, gives the event's contribution to a second lead; the first stays |
| "LLM failures are handled explicitly — never silently dropped" (`README.md:57`) | `StrandedOnlyByDeath` without its premise | a confidence of ten or more does not fit its column: the request fails outside the retries, with neither a dead letter nor a lead |
| "there is never an email/phone to promote here" (`app/services/resolve.py:534`) | `run[r].fields.key = None` for a review at `commit` | a parked event got a key by an edit; `create_new` drops it |
| the id is "safe to hold across a rollback" (`app/services/resolve.py:245`) | `pc[r] # "lost"` | the loser of a race for an email links, then the endpoint reads the expired event |
| "policy: 85*0.86 + bonuses → `warm`" (`README.md:145`) | `Decision = "warm"` for that input | the score is 78: hot |
| "the window cannot split a pair" (`app/routers/dashboard.py:102`) | `Agree(5)` in a quiet report | a bound between `now()` and the application's clock splits a route from its receipt |
| "any nonzero value is a defect, not a warning" (`app/routers/dashboard.py:11`) | `NoVariance` in every report over all time | a commit between two counts shows as a variance |

Several may be acceptable behaviour with a sentence that promises too much; the
models do not decide that.

## 6. Proofs

TLAPS checks these for every value of the constants, so for any number of
requests, events, payloads, keys, routes and any bound in a guard. Every
invariant and every action property of a passing run is one of them, and so are
the refinements; what stays with TLC is at the end of this section.

| theorem | statement |
|---|---|
| `ActProofs!TypeInvariant` | `Spec => []TypeOK` |
| `ActProofs!Reconciliation` | `Spec => []ReceiptsReconcile` |
| `ActProofs!Races` | `Spec => []RacesConfined`: only the lead is raced for, and queue and deadline of two decisions meet only after two updates |
| `ActProofs!TouchesKept` | `Spec => []NoTouchLost` |
| `ActProofs!Traceability` | `Spec => []Traceable` |
| `ActProofs!Refinement` | `Spec => ImplementsLedger` |
| `ActProofs!LocksInOrder` | `Spec => []NobodyStuck`: who waits for a row lock waits for a request further on, and one waits for nobody |
| `ActProofs!ActGoesForward` | `Spec => OnlyForward`: no statement sends a request back |
| `EvidenceProofs!OrderIndependence` | `Spec => []TimesFollowSeen` |
| `EvidenceProofs!OutcomeInvariant` | `Signals => []OutcomeFollowsPolicy` |
| `EvidenceProofs!MoreNeverHurtsHolds` | `Signals => []MoreNeverHurts` |
| `EscalationProofs!TypeInvariant` | `Spec => []TypeOK` |
| `EscalationProofs!Accounted` | `Spec => []EscalationAccounted` |
| `EscalationProofs!AnsweredReads` | `Spec => []AnsweredReadsEscalate` |
| `EscalationProofs!ReadsGoOn` | `Spec => []NobodyStuck`: while a reader is open one can go on, or there is a deadlock to break |
| `IngestProofs!TypeInvariant` | `Spec => []TypeOK` |
| `IngestProofs!Reconciles` | `Spec => []ReceiptsReconcile` |
| `IngestProofs!TornLate` | `Spec => []TornByOverlapOnly` |
| `IngestProofs!OneEventPerKey` | `Spec => []KeyIdentifies` |
| `IngestProofs!RunIsOwed` | `Spec => []RunOwed`: the row's content was handled, or its writer owes it the run or died |
| `PipelineProofs!TypeInvariant` | `Spec => []TypeOK` |
| `PipelineProofs!Reconciles` | `Spec => []QueueReconciles` |
| `PipelineProofs!ResolvedLast` | `Spec => []ResolvedAfterAct` |
| `PipelineProofs!CoherentAlone` | `Spec => []AloneIsCoherent` |
| `PipelineProofs!HistoryKept` | `Spec => RowsKept`: no dead-letter row is removed, reopened or dated anew |
| `PipelineProofs!RetriesSuffice` | `Spec => []AttemptLeft`: who calls the provider may |
| `PipelineProofs!LifeFollowed` | `Spec => FollowsLife`: from ingestion on, each step is one of `EventLife` or a stutter |
| `ResolveProofs!TypeInvariant` | `Spec => []TypeOK` |
| `ResolveProofs!Reconciles` | `Spec => []TablesReconcile` |
| `ResolveProofs!MergedForAReason` | `Spec => []NeverAutoMerged` |
| `ResolveProofs!Answers` | `Spec => []AnswersHold` |
| `ResolveProofs!UniqueAlone` | `Spec => []AloneIsUnique` |
| `ResolveProofs!Refinement` | `Spec => ImplementsLife` |
| `ResolveProofs!IdentityIsKept` | `Spec => IdentityKept`: without overlap only a review moves a linked event |
| `ReconciliationProofs!TypeInvariant` | `Spec => []TypeOK` |
| `ReconciliationProofs!QuietReports` | `Spec => []QuietReportsAgree` |
| `ReconciliationProofs!Covers` | `Spec => []PartsCoverTotal` |
| `LifecycleProofs!TypeInvariant` | `Spec => []TypeOK` |
| `LifecycleProofs!Answers` | `Spec => []AnswersHold` |
| `LifecycleProofs!NothingDropped` | `Spec => []StrandedOnlyByDeath` |
| `LifecycleProofs!NoLeadByResemblance` | `Spec => []LeadsEarned` |
| `LifecycleProofs!OneLead` | `Spec => []OneLeadUnlessMoved` |
| `LifecycleProofs!Refinement` | `Spec => ImplementsLife` |
| `LifecycleProofs!StagesInOrder` | `Spec => []Life!InOrder`: no lead or decided review without an identity, nothing without an accepted event |
| `LifecycleProofs!StagesKept` | `Spec => Life!NothingUndone`: no stage is taken back, only a lead unlists |

Few of the properties that matter are inductive: each says what the tables look
like, and whether a step keeps that depends on what a request read several
statements earlier. The invariant `IInv` of each module adds what the place of a
request in its run says of its session and of the tables. Each was checked by
TLC on the module's run before it was proved.

*Act.* `SessionOK` says what a request knows at each statement: from the moment
it holds the lead it created, nobody else has committed one; one that found a
lead will find a route and a touch, because the three are only ever installed
together; and from the flush of the route to the commit no other request is
there, so the touch it read is still the committed one. `QuietStep` handles
every action that leaves the tables alone, `CommitIInv` the one that does not;
`UpsertType`, `UpsertSpan` and `UpsertOrigin` state what `upsert_attribution`
returns (a row, which never narrows a span and contains the event; each touch is
the old one or the event's). The refinement shows that every step but `Commit`
stutters on the ledger and that `Commit` is a `Create` or an `Update`. `Unmixed`:
before the first update every route that was read is the one that was created, so
only a second update can send too few columns. `Place`
numbers the statements: a request holds the lead only behind the statement at
which others wait for it, and the route likewise, so a wait leads forward, a
circle of waits is impossible, and whoever is furthest on waits for nobody.

*Evidence.* `RowsSpanSeen` with the types is inductive for `AttributionOrder`;
two rows that span the same events have the same ends. `Scoring` has no history:
the proof is arithmetic. A rounded product is within half a point of the product,
a hundredth more of confidence is worth at least 40 hundredths of a point, the
smallest base score, and two products that differ by less than rounding can hide
are never rounded against their order, whatever happens to ties; the bonuses, the
clamp to 0..100, the thresholds and the SLA of the decision keep the order.

*Escalation.* `Flagged`: what a reader is about to flag did lapse, and nobody
but a reader in progress has anything to flag. `Covered`: a route that had
visibly lapsed when the reader arrived is escalated, about to be, or still to be
read. `act()` takes the time of the deadline before it waits for the row and
commits, so an `act()` that outlasts its SLA commits a deadline that has passed
already, under readers that may have read the row before it; no reader can be
held to that, and the history `due` dates such a lapse from the commit. That a
re-route never brings `due` below a reader's arrival is what keeps `Covered` when
the row changes under the reader. `Alone` adds, for readers that
do not overlap, that the routes to be flagged are not yet escalated: hence one
receipt per route. `Once`: a reader meets each route once, so it never waits for
a lock of its own; whoever waits, waits for a reader that is open, and if all of
those wait there is a circle for the database to break.

*Ingest.* `Placed` says what a request at each statement has sent and seen,
`KeyHeldOnce` that one transaction holds the key, `Unedited` that before the
first edit, and `Alone` that without overlap, the row is whole and known to
whoever is about to edit it: only the second edit can tear it, and only after an
overlap. The receipts are equal to cardinalities of sets of
requests, so `Table` also says that these sets are finite, and `AnswerCounted`
that an answer adds one. `RunOwed` holds step by step on top of it: who wrote the
current content is on its way to the pipeline or has ended there, and an edit by
somebody else makes that one owe the run.

*Pipeline.* `RowOK`: a replay works for a row that exists, and when it resolves
it an `act()` later than the row has run; `Queue`: at most one row is open, the
receipts count the rows, a resolved row is older than some `act()`. `Coherent`
says what a run that overlaps with none has in hand: the interpretation stored
is the one its session holds, of one version, so its columns cannot mix. `Listed`
says that without overlap content that failed has an open row unless it was
handled, and `Worked` ties that to the request in progress: only the run of the
current content closes the row. `RowsKept` follows from what a step does to the
queue (`QueueGrows`, `QueueMoves`). `Began` (a run is of an ingested event, a row
is closed with a lead there) gives the guards of `EventLife`, and needs no
premise about overlap: rows may be closed by the wrong run, but never without a
lead.

*Resolve.* `Session` and `Placed` tie a request to its event and to the identity
it is about to link (made for the key it carries; nobody else has it).
`Exclusive` is what the unique key and the claimed review row give: one inserter
per key, one reviewer per entry, which together with `Winners` makes the number
of `resolved` answers one. A link that was loaded with the identity it is to have
is not sent, so the commit leaves it as another request may have rewritten it;
what holds of the link then comes from the invariant of the table, not from the
session. `Alone` says that what a request has read is still so
(`Fresh`). The commit is the step that changes every table at once; a lemma of
its own for each part of the invariant says what it installs. The refinement
reads off `Placed` that whoever links or parks does so for an accepted event that
is in that state (`CommitLives`, `QueueReviewLives`, `IngestLives`; everything
else stutters). `IdentityKept` needs `Alone`: a request that links an ingested
event found it without a link.

*Reconciliation.* The rows and the receipts are both what the committed
transactions wrote (`Written`), so the two counts of a pair are cardinalities of
one set of transactions under two bijections (`Paired`); edits are the exception,
where the receipts of one event collapse to it (`EditedCount`). `Transaction` is
what makes the first bijection one: an event has one transaction that creates
it. `Counted` says of an answer in progress that its counts are those of the
tables as long as nothing commits, and otherwise that each is covered by a later
one, or by the table for what is not counted yet: rows only come in, so the
table can only grow past it (`CoveredGrows`).

*Lifecycle.* `Core`: where a request can be, given the tables, and that the
dead-letter rows are at most as many as the answers that listed one. `Sources`:
every identity that a row, a link, a session or a lead names was told of by a
request; that includes sessions with a stale identity, which is why no lead
comes from a resemblance. `Carried`: an accepted event has a lead, an open row or
a pending review, or a request is underway that gives it one; when nothing is
underway any more this is `StrandedOnlyByDeath`. `Alone`: without overlap no
session holds a stale link, and the one lead is that of the link unless a
reviewer moved it. The answers themselves (`AnswersHold`) complete the
invariant. The refinement maps each transaction to a step of `EventLife` or to a
stutter (`MovesAreLife`); `Carried` and `Core` are what its guards need. What
holds of `EventLife` by itself (`LifeInOrder`, `LifeNothingUndone`) then holds of
the requests without looking at them again.

The proofs assume only the named assumptions of the modules. They say what the
placeholders are (`NoRow` is no row, `None` no key, name, event or status,
`NoRoute` no route, "none" no identity, `Unscored` no score), that times are
natural numbers and SLA lengths positive, that a payload projects to a field
(`Ingest`) and tells of a sender (`Lifecycle`), that the holder of a key, a
stranger and an identity made for a name are different ones, that resemblance is
between names, that at least one attempt is made, and that the bounds
`MaxClock`, `MaxAttempts`, `MaxVersion`, `Last` and `AtOnce` are numbers. TLC
evaluates each of them on the runs.

Only model-checked:

- liveness (`EveryActEnds`, `EveryReadEnds`, `AcceptedIsHandled`,
  `EveryRunEnds`, `SettlesUnlessDeath`): the prover knows neither fairness nor
  ENABLED. What they owe to the code rather than to fairness is proved:
  `NobodyStuck` and `OnlyForward` for `EveryActEnds`, `NobodyStuck` for
  `EveryReadEnds`, `RunOwed` for `AcceptedIsHandled`, `AttemptLeft` for
  `EveryRunEnds`, `StrandedOnlyByDeath` for `SettlesUnlessDeath`;
- the two runs of section 5, which are counterexamples.

## 7. Bounds and fairness

Requests run once, so their number bounds a behaviour. Two suffice for each race
between two statements of a transaction; the third lets one race run against a
row that an earlier request has left behind (a rollback, an edit, a parked
event). `Act` has two events, two times and two queues, enough for every
comparison of first and last and for re-routes that mix; `ActLive` has two
requests and one queue, which is enough for waiting in a circle. `Escalation`
has a clock of three ticks and SLA lengths of one and two, so that a route
lapses, is re-routed and lapses again, and so that a re-route can commit a
deadline that has passed. `Ingest` has three payloads, two of which share a
column value. `Resolve` has four requests, so that two reviews of one event can
race with an edit of it and with a resolution of the other. `Pipeline` has two
versions, one of them too short to classify, and two attempts (the configured
budget is three; the third is like the second). `Lifecycle` has four requests,
of which two are in progress at a time (`AtOnce`): enough for an event that is
parked, edited, reviewed and replayed, for any two of these at once, and for a
retry after a death; a payload has a key or only a name, as one with neither is
parked like a name that resembles another. Races of three requests are in the
modules of the components. `Reconciliation` has three transactions and a clock
of three ticks: two edits of one event, and a bound between the two times of one
transaction. `MaxVersion`, `MaxClock`, `MaxAttempts`, `Last` and `AtOnce` are
the only bounds in guards. `Scoring` has no bound: its run has every confidence
that the column `Numeric(3, 2)` can hold. Symmetry is used only for constants
that no definition orders, and in no run that checks liveness;
`ImplementsLedger` of `Act` and `ImplementsLife` of `Resolve` are safety
properties, and the latter treats all events alike.

Fairness is `WF(Step(r))` for each request, in the modules with a liveness
property (`Act`, `Escalation`, `Ingest`, `Pipeline`, `Lifecycle`): the event
loop goes on running a request that can run, the provider's client has a
timeout, and the database grants a lock that is free and aborts a deadlock.
Nothing obliges clients, reviewers or administrators to start, edit or cancel
anything, and nothing obliges a request to die. `AcceptedIsHandled` has the
premise that no request dies, since no code recovers from that, and so has
`SettlesUnlessDeath`.

## 8. Not modelled

- rendering: templates, the lists of reviews and dead letters, and the counts
  of the summary that have no partner (sources, decisions, statuses, open work):
  single read-only queries;
- request schemas, error envelopes, logging, configuration, the admin key;
- running the migrations; the schema they leave is what the models use. What
  they do to rows of older schemas happens once, with the service stopped;
- the LLM provider, beyond the three ways a call can end; the prompt and the
  parsing of its answer, beyond that an answer that is not JSON is retried;
- column types: a rejected body or a classification whose values do not fit
  their column fails its statement; in the models the request dies there
  (`Crash` in `Ingest`, `Kill` in `Pipeline`, `Die` in `Lifecycle`);
- the connection pool: a request that finds it exhausted dies likewise;
- similarity of names and companies, beyond "resembles or not"; two identities
  of one name created by simultaneous requests are in `Resolve`, and nothing
  promises that they cannot be (`AloneIsUnique` has the premise).

## 9. Plan

Done, in this order: `Attribution`, `Act` with its ledger and proofs,
`Escalation`, `Ingest`, `Pipeline`, `Resolve`, `Scoring`, `Reconciliation`,
`EventLife` and `Lifecycle`.

The proofs came in the order `Act`, `AttributionOrder`, `Lifecycle`,
`Escalation`, `Pipeline`, `Ingest`, `Resolve`, `Reconciliation`, `Scoring`; then
the refinements of `Resolve` and `Pipeline`, and the safety that the liveness
properties rest on.

Of the behaviour in section 5 these need overlap, by theorems with that premise:
an event that changes its identity without a review (`IdentityKept`), a score
with another content's interpretation, a failed insert and an unlisted failure of
current content (`AloneIsCoherent`), a second receipt of a route
(`EscalationAccounted`), columns of two payloads in an event
(`TornByOverlapOnly`, which also needs two edits). A mixed route needs two
updates (`MixedByTwoUpdatesOnly`). What is left is the overlap itself for those
and for late runs, and a module that composes `Act` with `Escalation` on one
route row.
