------------------------------ MODULE Resolve -------------------------------
(***************************************************************************)
(* Who an event comes from: resolve_identity, called by the ingestion      *)
(* endpoint for every created or edited event, and resolve_review, called  *)
(* by a reviewer for the events that the former parked.                    *)
(*                                                                         *)
(* The identity fields of an event are a key, the normalized email or      *)
(* phone that links exactly, and a name, which stands for the pair of name *)
(* and company and is only ever compared for similarity.  The candidate    *)
(* and the reason shown to a reviewer are left out.  One action is one     *)
(* statement of a session; a write and the commit that follows are one.    *)
(***************************************************************************)
EXTENDS Integers, Sequences, FiniteSets

CONSTANTS Requests, Events, Keys, Names,
          Alike,  \* the pairs of names whose similarity is above 0
          None    \* an absent field

ASSUME FieldsAssumption == None \notin Keys \cup Names
ASSUME AlikeAssumption == Alike \subseteq Names \X Names
ASSUME StatusAssumption == None \notin {"pending", "resolved"}

VARIABLES
  event,     \* events: the identity fields of each event, or None
  identity,  \* identities in order of creation; their ids are the positions
  link,      \* identity_links: the identity of each event, or 0
  review,    \* manual_review_queue: the status of the event's entry, or None
  receipts,  \* receipts: number of rows of each action_type
  keysEver,  \* history: the keys an event has ever carried
  overlap,   \* history: two requests have been in progress at a time
  pc,        \* each request: its next statement, or how it ended
  run        \* run[r]: what r's session holds

tables == <<identity, link, review, receipts>>
vars == <<event, tables, keysEver, overlap, pc, run>>

FieldSet == [key : Keys \cup {None}, name : Names \cup {None}]
ASSUME NoEventAssumption == None \notin FieldSet

\* by: the event whose identity_created receipt the identity has.
Identity == [key : Keys \cup {None}, name : Names \cup {None}, by : Events]
ActionTypes == {"identity_created", "review_queued", "review_resolved"}

\* linked: resolve_identity returned a link, and the pipeline goes on; lost:
\* it did, but the request dies before the pipeline; queued: parked.
Running == {"lookup", "find", "create", "candidates", "relink", "commit",
            "park", "queue", "claim", "reread"}
Ended == {"linked", "lost", "queued", "resolved", "conflict", "error", "killed"}

\* identity: the one to link to, 0 if the request creates it; beaten: the
\* request lost the race for a key and rolled back.
Run == [kind : {"none", "ingest", "review"}, event : Events \cup {None},
        fields : FieldSet, identity : Nat, beaten : BOOLEAN, link : Nat,
        review : {None, "pending", "resolved"}]
NoFields == [key |-> None, name |-> None]
NoRun == [kind |-> "none", event |-> None, fields |-> NoFields, identity |-> 0,
          beaten |-> FALSE, link |-> 0, review |-> None]

Init ==
  /\ event = [e \in Events |-> None]
  /\ identity = <<>>
  /\ link = [e \in Events |-> 0]
  /\ review = [e \in Events |-> None]
  /\ receipts = [t \in ActionTypes |-> 0]
  /\ keysEver = [e \in Events |-> {}]
  /\ overlap = FALSE
  /\ pc = [r \in Requests |-> "idle"]
  /\ run = [r \in Requests |-> NoRun]

Busy == {r \in Requests : pc[r] \in Running}
Goto(r, label) == /\ pc' = [pc EXCEPT ![r] = label]
                  /\ overlap' = (overlap \/ (pc[r] = "idle" /\ Busy # {}))
\* Only the control moves.
Move(r, label) == UNCHANGED <<event, tables, keysEver>> /\ Goto(r, label)
WithKey(k) == {i \in DOMAIN identity : identity[i].key = k}

-----------------------------------------------------------------------------
(* resolve_identity                                                        *)

\* The ingestion endpoint has committed the event, or an edit of it.
Ingest(r, e, fields) ==
  /\ pc[r] = "idle"
  /\ event' = [event EXCEPT ![e] = fields]
  /\ keysEver' = [keysEver EXCEPT ![e] = @ \cup ({fields.key} \ {None})]
  /\ run' = [run EXCEPT ![r] = [NoRun EXCEPT !.kind = "ingest", !.event = e,
                                             !.fields = fields]]
  /\ Goto(r, "lookup")
  /\ UNCHANGED tables

\* What is known of the sender decides which rule is tried.
Rule(fields) == CASE fields.key # None -> "find"
                  [] fields.key = None /\ fields.name # None -> "candidates"
                  [] OTHER -> "park"

\* An event that is linked keeps its identity.
LookupLink(r) ==
  /\ pc[r] = "lookup"
  /\ Move(r, IF link[run[r].event] # 0 THEN "linked" ELSE Rule(run[r].fields))
  /\ UNCHANGED run

FindKey(r) ==
  /\ pc[r] = "find"
  /\ LET found == WithKey(run[r].fields.key)
     IN \/ /\ found = {}
           /\ Move(r, "create") /\ UNCHANGED run
        \/ \E i \in found :
             /\ run' = [run EXCEPT ![r].identity = i]
             /\ Move(r, "relink")

\* The open transactions that inserted an identity with key k.
Holding(k) == {r \in Requests : /\ pc[r] \in {"relink", "commit"}
                                /\ run[r].kind = "ingest"
                                /\ run[r].identity = 0
                                /\ run[r].fields.key = k}

\* The INSERT waits for another one of the same key; if that was committed,
\* it fails, and the request rolls back and takes the winner's identity.
CreateWithKey(r) ==
  /\ pc[r] = "create" /\ Holding(run[r].fields.key) = {}
  /\ LET found == WithKey(run[r].fields.key)
     IN \/ /\ found = {}
           /\ UNCHANGED run
        \/ \E i \in found :
             run' = [run EXCEPT ![r].identity = i, ![r].beaten = TRUE]
  /\ Move(r, "relink")

\* Variant: only identities without a key can be meant by a name.
CandidatesWithoutKey(r) ==
  {i \in DOMAIN identity : /\ identity[i].key = None
                          /\ <<run[r].fields.name, identity[i].name>> \in Alike}

\* A name that resembles that of an identity is for a reviewer to judge.
Candidates(r) ==
  {i \in DOMAIN identity : <<run[r].fields.name, identity[i].name>> \in Alike}

\* Variant: the event is merged into a candidate.
FindCandidateMerging(r) ==
  /\ pc[r] = "candidates"
  /\ \/ Candidates(r) = {} /\ UNCHANGED run
     \/ \E i \in Candidates(r) : run' = [run EXCEPT ![r].identity = i]
  /\ Move(r, "relink")

FindCandidate(r) ==
  /\ pc[r] = "candidates"
  /\ Move(r, IF Candidates(r) = {} THEN "relink" ELSE "park")
  /\ UNCHANGED run

-----------------------------------------------------------------------------
(* _queue_review: one entry per event, refreshed by later edits            *)

SelectReview(r) ==
  /\ pc[r] = "park"
  /\ run' = [run EXCEPT ![r].review = review[run[r].event]]
  /\ Move(r, "queue")

\* Variant: the edit that refreshes an entry also reopens it.
QueueReviewReopening(r) ==
  /\ pc[r] = "queue"
  /\ LET e == run[r].event
     IN /\ review' = [review EXCEPT ![e] = "pending"]
        /\ receipts' = [receipts EXCEPT !["review_queued"] =
                          @ + IF review[e] = None THEN 1 ELSE 0]
  /\ Goto(r, "queued")
  /\ UNCHANGED <<event, identity, link, keysEver, run>>

QueueReview(r) ==
  /\ pc[r] = "queue"
  /\ LET e == run[r].event
     IN \/ /\ run[r].review # None
           /\ Goto(r, "queued") /\ UNCHANGED <<review, receipts>>
        \/ /\ run[r].review = None /\ review[e] # None
           /\ Goto(r, "error") /\ UNCHANGED <<review, receipts>>
        \/ /\ run[r].review = None /\ review[e] = None
           /\ review' = [review EXCEPT ![e] = "pending"]
           /\ receipts' = [receipts EXCEPT !["review_queued"] = @ + 1]
           /\ Goto(r, "queued")
  /\ UNCHANGED <<event, identity, link, keysEver, run>>

-----------------------------------------------------------------------------
(* resolve_review                                                          *)

\* target 0 is create_new, any other target merge_into that identity.
OpenReview(r, e, target) ==
  /\ pc[r] = "idle" /\ review[e] # None
  /\ run' = [run EXCEPT ![r] = [NoRun EXCEPT !.kind = "review", !.event = e,
                                             !.identity = target]]
  /\ Move(r, IF review[e] = "pending" THEN "claim" ELSE "conflict")

\* The transactions that hold the entry of e updated and uncommitted.
Claiming(e) == {r \in Requests : /\ pc[r] \in {"reread", "relink", "commit"}
                                 /\ run[r].kind = "review"
                                 /\ run[r].event = e}

\* Variant: the status was checked before the claim only.
ClaimableTwice(e) == review[e] # None

\* What UPDATE ... WHERE status = 'pending' finds, once it has the row.
Claimable(e) == review[e] = "pending"

Claim(r) ==
  /\ pc[r] = "claim" /\ Claiming(run[r].event) = {}
  /\ Move(r, IF ~Claimable(run[r].event) THEN "conflict"
               ELSE IF run[r].identity = 0 THEN "reread" ELSE "relink")
  /\ UNCHANGED run

\* create_new reads the event for its name.
RereadEvent(r) ==
  /\ pc[r] = "reread"
  /\ run' = [run EXCEPT ![r].fields = event[run[r].event]]
  /\ Move(r, "relink")

-----------------------------------------------------------------------------
(* _upsert_identity_link and the commit, the same for both                 *)

SelectLink(r) ==
  /\ pc[r] = "relink"
  /\ run' = [run EXCEPT ![r].link = link[run[r].event]]
  /\ Move(r, "commit")

\* Variant: the new identity is not traced to its event.
CreatedUntraced(r) == [key |-> run[r].fields.key, name |-> run[r].fields.name]

\* A reviewer never promotes a key to the new identity.
Created(r) ==
  [key |-> IF run[r].kind = "review" THEN None ELSE run[r].fields.key,
   name |-> run[r].fields.name, by |-> run[r].event]

\* Variant: create_new writes the review's receipt only.
DueOnce(r) == IF run[r].kind = "review" THEN {"review_resolved"}
              ELSE IF run[r].identity = 0 THEN {"identity_created"} ELSE {}

\* The receipts that are due besides: every identity owes one.
Due(r) == (IF run[r].identity = 0 THEN {"identity_created"} ELSE {})
          \cup (IF run[r].kind = "review" THEN {"review_resolved"} ELSE {})

\* How the request ends.  A rollback expires the event that the session
\* holds; the endpoint reads its id next, and that raises.
Outcome(r) == IF run[r].kind = "review" THEN "resolved"
              ELSE IF run[r].beaten THEN "lost" ELSE "linked"

\* Another request has inserted the event's link meanwhile.
LostLinkRace(r) == run[r].link = 0 /\ link[run[r].event] # 0

\* The id that goes into the link.
Target(r) == IF run[r].identity = 0 THEN Len(identity) + 1 ELSE run[r].identity

\* A link that was loaded with this identity is not sent: if another request
\* has rewritten it since, it stays as that one left it.
Install(r) ==
  LET e == run[r].event
  IN /\ identity' = IF run[r].identity = 0 THEN Append(identity, Created(r))
                    ELSE identity
     /\ link' = IF run[r].link = Target(r) THEN link
                ELSE [link EXCEPT ![e] = Target(r)]
     /\ review' = IF run[r].kind = "review"
                  THEN [review EXCEPT ![e] = "resolved"] ELSE review
     /\ receipts' = [t \in ActionTypes |->
                       receipts[t] + IF t \in Due(r) THEN 1 ELSE 0]

Commit(r) ==
  /\ pc[r] = "commit"
  /\ IF LostLinkRace(r) THEN Goto(r, "error") /\ UNCHANGED tables
     ELSE Goto(r, Outcome(r)) /\ Install(r)
  /\ UNCHANGED <<event, keysEver, run>>

\* The worker dies or the client goes away: the transaction is rolled back.
Kill(r) ==
  /\ pc[r] \in Running
  /\ Move(r, "killed")
  /\ UNCHANGED run

-----------------------------------------------------------------------------
Step(r) ==
  \/ LookupLink(r) \/ FindKey(r) \/ CreateWithKey(r) \/ FindCandidate(r)
  \/ SelectReview(r) \/ QueueReview(r) \/ Claim(r) \/ RereadEvent(r)
  \/ SelectLink(r) \/ Commit(r)

Next == \E r \in Requests :
  \/ \E e \in Events, fields \in FieldSet : Ingest(r, e, fields)
  \/ \E e \in Events, target \in {0} \cup DOMAIN identity :
       OpenReview(r, e, target)
  \/ Step(r)
  \/ Kill(r)

Spec == Init /\ [][Next]_vars

-----------------------------------------------------------------------------
(* Properties                                                              *)

\* The shape of every variable.
TypeOK ==
  /\ event \in [Events -> FieldSet \cup {None}]
  /\ identity \in Seq(Identity)
  /\ link \in [Events -> Nat]
  /\ review \in [Events -> {None, "pending", "resolved"}]
  /\ receipts \in [ActionTypes -> Nat]
  /\ keysEver \in [Events -> SUBSET Keys]
  /\ overlap \in BOOLEAN
  /\ pc \in [Requests -> {"idle"} \cup Running \cup Ended]
  /\ run \in [Requests -> Run]

InReview(status) == {e \in Events : review[e] = status}

\* One identity per key whoever races for it, and the three pairs that
\* reconciliation compares, whatever fails half-way (FR-3, FR-9, FR-10).
TablesReconcile ==
  /\ \A i, j \in DOMAIN identity :
       identity[i].key = identity[j].key /\ identity[i].key # None => i = j
  /\ receipts["identity_created"] = Len(identity)
  /\ receipts["review_queued"]
       = Cardinality(InReview("pending") \cup InReview("resolved"))
  /\ receipts["review_resolved"] = Cardinality(InReview("resolved"))

\* An event is never merged by a resemblance: it is linked to an identity made
\* for it, to the holder of a key it has carried, or by a reviewer (FR-3,
\* Flow 3: ambiguous matches are never auto-merged).
NeverAutoMerged ==
  \A e \in Events : link[e] # 0 =>
    \/ identity[link[e]].by = e
    \/ identity[link[e]].key \in keysEver[e]
    \/ review[e] = "resolved"

\* Of the requests that resolve one review exactly one wins, and the link is
\* there from then on (docstring of resolve_review).
OneWinner ==
  \A e \in Events :
    /\ Cardinality({r \in Requests : pc[r] = "resolved" /\ run[r].event = e})
         = (IF review[e] = "resolved" THEN 1 ELSE 0)
    /\ review[e] = "resolved" => link[e] # 0

\* No event falls between the two: a request that was told its event is parked
\* leaves an entry for a reviewer, one that went on leaves a link.
NoneForgotten ==
  \A r \in Requests :
    /\ pc[r] = "queued" => review[run[r].event] # None
    /\ pc[r] \in {"linked", "lost", "resolved"} => link[run[r].event] # 0

\* Of requests that do not overlap none fails, and none makes an identity by
\* name while an identity with a name like it exists: only a reviewer, or two
\* requests at once, can split a person in two (there is no unique key on
\* names; the search for a candidate is all there is).
AloneIsUnique ==
  ~overlap =>
    /\ \A r \in Requests : pc[r] \notin {"error", "lost"}
    /\ \A i, j \in DOMAIN identity :
         (i < j /\ identity[j].key = None /\ review[identity[j].by] = None)
           => <<identity[j].name, identity[i].name>> \notin Alike

\* What a request was answered stays true.
AnswersHold == OneWinner /\ NoneForgotten

\* The status of the review of e, as EventLife names it.
Reviewed(e) == IF review[e] = None THEN "none" ELSE review[e]

Life(e) == INSTANCE EventLife WITH
             accepted <- event[e] # None, linked <- link[e] # 0,
             review <- Reviewed(e), listed <- FALSE, lead <- FALSE

\* Statement by statement, with all races for keys, links and entries, every
\* event lives the life of EventLife as far as its identity goes: it is linked
\* or parked once it is accepted, never unlinked, and its review is decided
\* once, together with the link.
ImplementsLife ==
  /\ \A e \in Events : Life(e)!Init
  /\ [][\A e \in Events : [Life(e)!Next]_(Life(e)!vars)]_vars

\* Without overlap an event that is linked keeps its identity, whatever an
\* edit says of the sender: only the decision of its review moves it
\* (resolve_identity returns the link it finds).
IdentityKept ==
  [][~overlap' => \A e \in Events : link[e] # 0 /\ link'[e] # link[e] =>
       review[e] = "pending" /\ review'[e] = "resolved"]_vars
=============================================================================
