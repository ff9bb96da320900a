----------------------------- MODULE Lifecycle ------------------------------
(***************************************************************************)
(* One event from its first submission to a lead, through the parts that   *)
(* the other modules treat one by one: ingestion and dedupe, resolution,   *)
(* manual review, interpretation, act, the dead-letter queue, replay and   *)
(* simulated failures.                                                     *)
(*                                                                         *)
(* Here one action is one transaction (the statements and their races are  *)
(* in Ingest, Resolve, Pipeline and Act), up to the few reads that a       *)
(* request carries from one transaction to the next.  A race that ends in  *)
(* an uncaught error is a death of the request, as is a crash.             *)
(***************************************************************************)
EXTENDS Integers, FiniteSets

CONSTANTS Last,       \* requests are 1 .. Last, in the order of arrival
          AtOnce,     \* a bound on the requests in progress at a time
          Payloads,   \* what may be submitted under the event's dedupe key
          Holders,    \* identities that an email or phone points to
          Strangers,  \* identities that a name may at most resemble
          From,       \* what each payload tells of its sender
          Fresh       \* the identity that each request would create by a name

\* A sender is the holder of a key, a name, or nobody.
Senders == Holders \cup {"name", "nobody"}

Requests == 1 .. Last
Identities == Holders \cup Strangers \cup {Fresh[r] : r \in Requests}

ASSUME LastAssumption == Last \in Nat /\ AtOnce \in Nat
ASSUME SendersAssumption == From \in [Payloads -> Senders]
ASSUME IdentitiesAssumption ==
  /\ "none" \notin Identities
  /\ Holders \cap (Strangers \cup {"name", "nobody"}) = {}
  /\ \A r \in Requests : Fresh[r] \notin Holders \cup Strangers

VARIABLES
  row,      \* events: payload and sender of the accepted row, {} or one record
  link,     \* identity_links: the identity of the event, or "none"
  review,   \* manual_review_queue: the status of the event's entry, or "none"
  rows,     \* dead_letter_queue: how many rows the event has had
  open,     \* dead_letter_queue: the unresolved one of them, or 0
  leads,    \* the identities whose lead the event has contributed to
  overlap,  \* history: two requests have been in progress at a time
  pc,       \* each request: its next transaction, or how it ended
  job       \* job[r]: what r's session holds

tables == <<row, link, review, rows, open, leads>>
vars == <<tables, overlap, pc, job>>

Row == [sent : Payloads, from : Senders]
Running == {"insert", "edit", "resolve", "link", "park", "interpret", "fail",
            "act", "close"}

\* done: ran to the end; failed: 202 or 503; conflict: 409; dead: no answer.
Ended == {"duplicate", "parked", "done", "failed", "simulated", "conflict",
          "dead"}

\* from: the sender on the row as the session loaded it; row: the dead-letter
\* row that a replay found.
Job == [kind : {"none", "submit", "review", "replay", "simulate"},
        payload : Payloads \cup {"none"}, from : Senders \cup {"none"},
        identity : Identities \cup {"none"}, row : 0 .. Last]
NoJob == [kind |-> "none", payload |-> "none", from |-> "none",
          identity |-> "none", row |-> 0]

Init ==
  /\ row = {} /\ link = "none" /\ review = "none"
  /\ rows = 0 /\ open = 0 /\ leads = {}
  /\ overlap = FALSE
  /\ pc = [r \in Requests |-> "idle"]
  /\ job = [r \in Requests |-> NoJob]

Busy == {r \in Requests : pc[r] \in Running}

\* The next request arrives, and has got as far as label.
Arrive(r, what, label) ==
  /\ pc[r] = "idle" /\ \A s \in 1 .. r - 1 : pc[s] # "idle"
  /\ Cardinality(Busy) < AtOnce
  /\ pc' = [pc EXCEPT ![r] = label]
  /\ job' = [job EXCEPT ![r] = what]
  /\ overlap' = (overlap \/ Busy # {})

\* A request in progress goes from one place to another.
Goto(r, from, to) ==
  /\ pc[r] = from
  /\ pc' = [pc EXCEPT ![r] = to]
  /\ UNCHANGED overlap

-----------------------------------------------------------------------------
(* Ingestion                                                               *)

\* The lookup tells a new event, a duplicate and an edit apart.
Submit(r, p) ==
  LET what == [NoJob EXCEPT !.kind = "submit", !.payload = p]
  IN /\ \/ row = {} /\ Arrive(r, what, "insert")
        \/ \E seen \in row : /\ seen.sent = p
                             /\ Arrive(r, what, "duplicate")
        \/ \E seen \in row : /\ seen.sent # p
                             /\ Arrive(r, [what EXCEPT !.from = seen.from], "edit")
     /\ UNCHANGED tables

\* Whoever loses the insert race is answered as a duplicate.
Insert(r) ==
  /\ \/ /\ row = {} /\ Goto(r, "insert", "resolve")
        /\ row' = {[sent |-> job[r].payload, from |-> From[job[r].payload]]}
     \/ row # {} /\ Goto(r, "insert", "duplicate") /\ UNCHANGED row
  /\ UNCHANGED <<link, review, rows, open, leads, job>>

\* Variant: the sender is not written at all.
RewrittenBare(r, old) == [sent |-> job[r].payload]

\* The session sends the column only if it differs from what it loaded.
Rewritten(r, old) ==
  [sent |-> job[r].payload,
   from |-> IF From[job[r].payload] = job[r].from THEN old.from
            ELSE From[job[r].payload]]

Edit(r) ==
  /\ Goto(r, "edit", "resolve")
  /\ row' = {Rewritten(r, old) : old \in row}
  /\ UNCHANGED <<link, review, rows, open, leads, job>>

-----------------------------------------------------------------------------
(* Resolution and manual review                                            *)

\* Variant: an edit is resolved afresh, whatever the event is linked to.
Unlinked(l) == TRUE

NotLinked(l) == l = "none"

\* Variant: a name is linked to an identity that it resembles.
ByNameMerging(r) == Strangers

\* The identity that a name without key leads to, if it resembles no other.
ByName(r) == {Fresh[r]}

\* The refreshed row and its link decide.  Whether a name resembles one of
\* the identities of other events is open here.
Resolve(r) ==
  /\ \E now \in row :
       \/ /\ ~NotLinked(link) /\ Goto(r, "resolve", "interpret")
          /\ job' = [job EXCEPT ![r].from = now.from, ![r].identity = link]
       \/ /\ NotLinked(link) /\ now.from # "nobody"
          /\ Goto(r, "resolve", "link")
          /\ \E i \in IF now.from \in Holders THEN {now.from} ELSE ByName(r) :
               job' = [job EXCEPT ![r].from = now.from, ![r].identity = i]
       \/ /\ NotLinked(link) /\ now.from \notin Holders
          /\ Goto(r, "resolve", "park")
          /\ job' = [job EXCEPT ![r].from = now.from]
  /\ UNCHANGED tables

\* A link that appeared since is overwritten.
Link(r) ==
  /\ Goto(r, "link", "interpret")
  /\ link' = job[r].identity
  /\ UNCHANGED <<row, review, rows, open, leads, job>>

\* Variant: the pipeline does not halt.
AfterParkingOn == "act"

AfterParking == "parked"

\* One entry per event; a later edit only refreshes it.
Park(r) ==
  /\ Goto(r, "park", AfterParking)
  /\ review' = IF review = "none" THEN "pending" ELSE review
  /\ UNCHANGED <<row, link, rows, open, leads, job>>

\* Variant: the event is linked and then left alone.
AfterReviewDone == "done"

\* The request that decides a review resumes the pipeline.
AfterReview == "interpret"

\* merge_into an identity that exists, or create_new: then the target is fresh.
Review(r, target) ==
  LET what == [NoJob EXCEPT !.kind = "review", !.identity = target]
  IN \/ /\ review = "pending"
        /\ review' = "resolved" /\ link' = target
        /\ Arrive(r, what, AfterReview)
        /\ UNCHANGED <<row, rows, open, leads>>
     \/ /\ review = "resolved"
        /\ Arrive(r, [what EXCEPT !.identity = "none"], "conflict")
        /\ UNCHANGED tables

-----------------------------------------------------------------------------
(* The pipeline and the dead-letter queue                                  *)

\* The provider answers, or fails for the last time.
Interpret(r) ==
  /\ \E next \in {"act", "fail"} : Goto(r, "interpret", next)
  /\ UNCHANGED <<tables, job>>

\* Variant: the failure of an ingestion is only answered.
AddRowUnlessSubmitted(r) ==
  IF open = 0 /\ job[r].kind # "submit"
  THEN rows' = rows + 1 /\ open' = rows' ELSE UNCHANGED <<rows, open>>

\* An open row stands for later failures too.
AddRow(r) ==
  IF open = 0 THEN rows' = rows + 1 /\ open' = rows'
  ELSE UNCHANGED <<rows, open>>

Fail(r) ==
  /\ Goto(r, "fail", "failed")
  /\ AddRow(r)
  /\ UNCHANGED <<row, link, review, leads, job>>

\* Lead, route and attribution in one commit, for the identity held.
Act(r) ==
  /\ Goto(r, "act", IF job[r].kind = "replay" THEN "close" ELSE "done")
  /\ leads' = leads \cup {job[r].identity}
  /\ UNCHANGED <<row, link, review, rows, open, job>>

\* Variant: the row is resolved as soon as it is found.
FoundClosing(r) == open' = 0

\* Finding the open row does not touch it.
Found(r) == UNCHANGED open

\* An open row and a link are needed, and remembered for the whole run.
Replay(r) ==
  /\ row # {}
  /\ \/ /\ open # 0 /\ link # "none"
        /\ Arrive(r, [NoJob EXCEPT !.kind = "replay", !.identity = link,
                                   !.row = open], "interpret")
        /\ Found(r)
     \/ /\ open = 0 \/ link = "none"
        /\ Arrive(r, [NoJob EXCEPT !.kind = "replay"], "conflict")
        /\ UNCHANGED open
  /\ UNCHANGED <<row, link, review, rows, leads>>

Close(r) ==
  /\ Goto(r, "close", "done")
  /\ open' = IF open = job[r].row THEN 0 ELSE open
  /\ UNCHANGED <<row, link, review, rows, leads, job>>

\* The administrator need not wait for the event to have an identity.
Simulate(r) ==
  /\ row # {}
  /\ LET what == [NoJob EXCEPT !.kind = "simulate"]
     IN \/ open = 0 /\ Arrive(r, what, "simulated") /\ AddRow(r)
        \/ open # 0 /\ Arrive(r, what, "conflict") /\ UNCHANGED <<rows, open>>
  /\ UNCHANGED <<row, link, review, leads>>

\* The worker dies, the client goes away, no connection is free in the pool, a
\* value of the classification does not fit its column, or a lost race ends in
\* an error: the open transaction is rolled back.
Die(r) ==
  /\ \E from \in Running : Goto(r, from, "dead")
  /\ UNCHANGED <<tables, job>>

-----------------------------------------------------------------------------
Step(r) == \/ Insert(r) \/ Edit(r) \/ Resolve(r) \/ Link(r) \/ Park(r)
           \/ Interpret(r) \/ Fail(r) \/ Act(r) \/ Close(r)

Next == \E r \in Requests :
  \/ \E p \in Payloads : Submit(r, p)
  \/ \E target \in Holders \cup Strangers \cup {Fresh[r]} : Review(r, target)
  \/ Replay(r) \/ Simulate(r)
  \/ Step(r)
  \/ Die(r)

Spec == Init /\ [][Next]_vars

\* A request in progress goes on: the event loop runs it, the provider's
\* client has a timeout.  Nobody has to submit, review or replay.
FairSpec == Spec /\ \A r \in Requests : WF_vars(Step(r))

-----------------------------------------------------------------------------
(* Properties                                                              *)

\* The shape of every variable.
TypeOK ==
  /\ \/ row = {}
     \/ \E one \in Row : row = {one}
  /\ link \in Identities \cup {"none"}
  /\ review \in {"none", "pending", "resolved"}
  /\ rows \in Nat /\ open \in 0 .. rows
  /\ leads \subseteq Identities
  /\ overlap \in BOOLEAN
  /\ pc \in [Requests -> {"idle"} \cup Running \cup Ended]
  /\ job \in [Requests -> Job]

\* What a request was answered stays true, whatever other requests do and
\* whoever dies: a lead for the identity it acted for; a failure that is on
\* the worklist of an event that a replay will find linked (the comment in
\* replay_event), or that a lead has overtaken; an entry for a reviewer.
AnswersHold ==
  \A r \in Requests :
    /\ pc[r] = "done" => job[r].identity \in leads
    /\ pc[r] = "failed" => link # "none"
    /\ pc[r] \in {"failed", "simulated"} => open # 0 \/ leads # {}
    /\ pc[r] = "parked" => review # "none"
    /\ pc[r] = "duplicate" => row # {}

\* Once all is quiet, an accepted event has a lead, waits for a reviewer or is
\* on the worklist, unless a request died: every endpoint that takes an event
\* out of one stage carries it into the next (Flows 1 and 3, FR-11).
StrandedOnlyByDeath ==
  (row # {} /\ Busy = {} /\ \A r \in Requests : pc[r] # "dead")
    => leads # {} \/ review = "pending" \/ open # 0

\* A lead comes to an identity only by a key that was submitted, by a name
\* that made the identity, or by a reviewer; however stale the identity that a
\* run or a replay holds, a resemblance never produced one (FR-3, Flow 3).
LeadsEarned ==
  \A i \in leads : \E r \in Requests :
    \/ job[r].kind = "submit" /\ From[job[r].payload] = i
    \/ job[r].kind = "submit" /\ Fresh[r] = i
    \/ job[r].kind = "review" /\ job[r].identity = i

\* Submitted, edited, failed and replayed one after the other, an event
\* contributes to one lead.  Only overlapping requests and the review that
\* outlives an edit move it to another identity (resolve_identity keeps the
\* identity of a linked event).
OneLeadUnlessMoved == Cardinality(leads) <= 1 \/ overlap \/ review = "resolved"

Life == INSTANCE EventLife WITH
          accepted <- row # {}, linked <- link # "none",
          listed <- open # 0, lead <- leads # {}

\* The requests together implement the life of an event: no lead without an
\* identity, no way off the worklist but with a lead, one decision per review.
ImplementsLife == Life!Spec

\* Unless a request dies, an accepted event reaches a lead, a reviewer or the
\* worklist (FR-11: nothing is silently dropped).
SettlesUnlessDeath == [](\A r \in Requests : pc[r] # "dead") => Life!Settles
=============================================================================
