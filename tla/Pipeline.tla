------------------------------ MODULE Pipeline ------------------------------
(***************************************************************************)
(* run_downstream for one event whose identity is resolved: interpret,     *)
(* score, act, each in a transaction of its own, and the dead-letter queue *)
(* behind interpret.  Runs are started by an ingestion or edit, by the     *)
(* resolution of a manual review and by an admin replay; the admin may     *)
(* also simulate a failure.                                                *)
(*                                                                         *)
(* The content of the event is its version: the ingestion writes 1, every  *)
(* edit the next one, and a run works on the version its session loaded.   *)
(* A write and the commit that follows it are one step: an INSERT that     *)
(* meets a key held by an open transaction waits for its end.  act() is    *)
(* one step too (module Act has its statements).  An interpretation is two *)
(* columns, each with the version it was computed from; the columns of     *)
(* different versions have different values.                               *)
(***************************************************************************)
EXTENDS Integers, Sequences, FiniteSets

CONSTANTS Requests,
          MaxAttempts,  \* retry_max_attempts
          MaxVersion,   \* a bound on the number of edits
          Short         \* the versions with too little text to classify

ASSUME BoundsAssumption == /\ MaxAttempts \in Nat \ {0}
                           /\ MaxVersion \in Nat \ {0}
                           /\ Short \subseteq 1 .. MaxVersion

VARIABLES
  version,   \* events: the version the row contains, 0 before ingestion
  dlq,       \* dead_letter_queue: its rows in order of creation
  interp,    \* interpretations: the version each column is of, 0 for none
  score,     \* scores: the versions of event and interpretation used
  lead,      \* the version that the last act() worked on, or 0
  receipts,  \* receipts: number of rows of each action_type
  acts,      \* history: the number of act() commits
  failed, handled,  \* history: versions that were dead-lettered, acted on
  overlap,   \* history: two requests have been in progress at a time
  pc,        \* each request: its next step, or how it ended
  run        \* run[r]: what r's session holds

results == <<interp, score, lead, acts, handled>>
vars == <<version, dlq, results, receipts, failed, overlap, pc, run>>

ActionTypes == {"interpreted", "scored", "dead_lettered",
                "dead_letter_resolved"}
Versions == 0 .. MaxVersion
Columns == {"label", "confidence"}
Interp == [Columns -> Versions]
OfVersion(v) == [c \in Columns |-> v]

\* Besides the columns a row remembers how many acts had committed before it.
Row == [resolved : BOOLEAN, since : Nat]

Kinds == {"none", "submit", "resume", "replay", "simulate"}
Running == {"find", "classify", "lookup", "store", "reread", "score", "act",
            "resolve", "check", "insert", "deadletter"}
\* dead_letter: 202 or 503 after the last attempt; conflict: 409; error: an
\* uncaught IntegrityError; killed: the request died.
Ended == {"done", "dead_letter", "conflict", "error", "killed"}

\* row: position of the dead-letter row the replay found; calls: calls of the
\* provider so far; interp: what the last SELECT on interpretations returned.
Run == [kind : Kinds, version : Versions, row : Nat, calls : 0 .. MaxAttempts,
        interp : Interp]
NoRun == [kind |-> "none", version |-> 0, row |-> 0, calls |-> 0,
          interp |-> OfVersion(0)]

Init ==
  /\ version = 0 /\ dlq = <<>> /\ interp = OfVersion(0) /\ lead = 0
  /\ score = [event |-> 0, interp |-> OfVersion(0)]
  /\ receipts = [t \in ActionTypes |-> 0]
  /\ acts = 0 /\ failed = {} /\ handled = {} /\ overlap = FALSE
  /\ pc = [r \in Requests |-> "idle"]
  /\ run = [r \in Requests |-> NoRun]

Goto(r, label) == pc' = [pc EXCEPT ![r] = label]
Receipt(t) == receipts' = [receipts EXCEPT ![t] = @ + 1]

OpenRows == {i \in DOMAIN dlq : ~dlq[i].resolved}

\* Variant: no unique index.
AddAnyRow ==
  /\ dlq' = Append(dlq, [resolved |-> FALSE, since |-> acts])
  /\ Receipt("dead_lettered")

\* A row may be added while no open one exists (partial unique index).
AddRow ==
  /\ OpenRows = {}
  /\ dlq' = Append(dlq, [resolved |-> FALSE, since |-> acts])
  /\ Receipt("dead_lettered")

-----------------------------------------------------------------------------
(* How runs start                                                          *)

Start(r, kind, held, label) ==
  /\ pc[r] = "idle"
  /\ run' = [run EXCEPT ![r] = [NoRun EXCEPT !.kind = kind, !.version = held]]
  /\ Goto(r, label)
  /\ overlap' = (overlap \/ \E s \in Requests : pc[s] \in Running)
  /\ UNCHANGED <<dlq, results, receipts, failed>>

Submit(r) ==
  /\ version < MaxVersion
  /\ version' = version + 1
  /\ Start(r, "submit", version', "classify")

\* A review of the event is resolved at most once.
Resume(r) ==
  /\ version > 0 /\ \A s \in Requests : run[s].kind # "resume"
  /\ Start(r, "resume", version, "classify")
  /\ UNCHANGED version

Replay(r) ==
  /\ version > 0
  /\ Start(r, "replay", version, "find")
  /\ UNCHANGED version

\* Variant: the replay resolves the row first, so that no other one finds it.
FindRowEagerly(r) ==
  /\ pc[r] = "find"
  /\ \/ OpenRows = {} /\ Goto(r, "conflict") /\ UNCHANGED <<dlq, run>>
     \/ \E i \in OpenRows :
          /\ dlq' = [dlq EXCEPT ![i].resolved = TRUE]
          /\ run' = [run EXCEPT ![r].row = i]
          /\ Goto(r, "classify")
  /\ UNCHANGED <<version, results, receipts, failed>>

FindRow(r) ==
  /\ pc[r] = "find"
  /\ IF OpenRows = {}
     THEN Goto(r, "conflict") /\ UNCHANGED run
     ELSE /\ run' = [run EXCEPT ![r].row = CHOOSE i \in OpenRows : TRUE]
          /\ Goto(r, "classify")
  /\ UNCHANGED <<version, dlq, results, receipts, failed>>

Simulate(r) ==
  /\ version > 0
  /\ Start(r, "simulate", version, "check")
  /\ UNCHANGED version

CheckOpen(r) ==
  /\ pc[r] = "check"
  /\ Goto(r, IF OpenRows = {} THEN "insert" ELSE "conflict")
  /\ UNCHANGED <<version, dlq, results, receipts, failed, run>>

\* The loser of two simultaneous simulations is told so by the index.
InsertSimulated(r) ==
  /\ pc[r] = "insert"
  /\ \/ AddRow /\ Goto(r, "done")
     \/ OpenRows # {} /\ Goto(r, "conflict") /\ UNCHANGED <<dlq, receipts>>
  /\ UNCHANGED <<version, results, failed, run>>

-----------------------------------------------------------------------------
(* interpret                                                               *)

TooShort(r) == run[r].version \in Short

Skip(r) ==
  /\ pc[r] = "classify" /\ TooShort(r)
  /\ Goto(r, "lookup")
  /\ UNCHANGED <<version, dlq, results, receipts, failed, run>>

\* Variant: a retryable failure is always retried.
AfterAnyFailure(calls, retryable) ==
  IF retryable THEN "classify" ELSE "deadletter"

\* After a call that failed: try again, or give up.
AfterFailure(calls, retryable) ==
  IF retryable /\ calls < MaxAttempts THEN "classify" ELSE "deadletter"

\* How a call of the provider ends: with a classification, with a failure
\* worth another try (a lost connection, overload, an answer that is not JSON)
\* or with one that is not (a refused key).
Outcomes == {"classified", "transient", "permanent"}

Call(r) ==
  /\ pc[r] = "classify" /\ ~TooShort(r)
  /\ run[r].calls < MaxAttempts
  /\ run' = [run EXCEPT ![r].calls = @ + 1]
  /\ \E outcome \in Outcomes :
       Goto(r, IF outcome = "classified" THEN "lookup"
               ELSE AfterFailure(run'[r].calls, outcome = "transient"))
  /\ UNCHANGED <<version, dlq, results, receipts, failed>>

\* Row and receipt in one commit, unless an open row already stands for the
\* event's failure.
DeadLetter(r) ==
  /\ pc[r] = "deadletter"
  /\ \/ AddRow
     \/ OpenRows # {} /\ UNCHANGED <<dlq, receipts>>
  /\ failed' = failed \cup {run[r].version}
  /\ Goto(r, "dead_letter")
  /\ UNCHANGED <<version, results, run>>

LookupInterp(r) ==
  /\ pc[r] = "lookup"
  /\ run' = [run EXCEPT ![r].interp = interp]
  /\ Goto(r, "store")
  /\ UNCHANGED <<version, dlq, results, receipts, failed>>

\* The new value of the row.  Columns in which a new result for the same
\* version equals the loaded row are not sent.
StoredColumns(r) ==
  {[c \in Columns |-> IF c \in same THEN interp[c] ELSE run[r].version] :
     same \in SUBSET {c \in Columns : run[r].interp[c] = run[r].version}}

\* Losing the insert race is not handled here: 500.
StoreInterp(r) ==
  /\ pc[r] = "store"
  /\ IF run[r].interp = OfVersion(0) /\ interp # OfVersion(0)
     THEN Goto(r, "error") /\ UNCHANGED <<interp, receipts>>
     ELSE /\ interp' \in StoredColumns(r)
          /\ Receipt("interpreted")
          /\ Goto(r, "reread")
  /\ UNCHANGED <<version, dlq, score, lead, acts, failed, handled, run>>

-----------------------------------------------------------------------------
(* score, act, and the end of a replay                                     *)

\* Variant: the run goes on with the row it looked up.
RereadInterpNever(r) ==
  /\ pc[r] = "reread"
  /\ Goto(r, "score")
  /\ UNCHANGED <<version, dlq, results, receipts, failed, run>>

\* The row as committed now, whichever run wrote it: nobody holds the object
\* that the session stored any more, so it is loaded afresh.
RereadInterp(r) ==
  /\ pc[r] = "reread"
  /\ run' = [run EXCEPT ![r].interp = interp]
  /\ Goto(r, "score")
  /\ UNCHANGED <<version, dlq, results, receipts, failed>>

\* Variant: the score does not record its interpretation.
ScoredUntraced(r) == [event |-> run[r].version]

Scored(r) == [event |-> run[r].version, interp |-> run[r].interp]

Score(r) ==
  /\ pc[r] = "score"
  /\ score' = Scored(r)
  /\ Receipt("scored")
  /\ Goto(r, "act")
  /\ UNCHANGED <<version, dlq, interp, lead, acts, failed, handled, run>>

\* Where a run goes after act: only a replay has a row to resolve.
AfterAct(r) == IF run[r].kind = "replay" THEN "resolve" ELSE "done"

Act(r) ==
  /\ pc[r] = "act"
  /\ lead' = run[r].version
  /\ acts' = acts + 1
  /\ handled' = handled \cup {run[r].version}
  /\ Goto(r, AfterAct(r))
  /\ UNCHANGED <<version, dlq, interp, score, receipts, failed, run>>

\* Nothing looks whether the row is still open.
ResolveRow(r) ==
  /\ pc[r] = "resolve"
  /\ dlq' = [dlq EXCEPT ![run[r].row].resolved = TRUE]
  /\ Receipt("dead_letter_resolved")
  /\ Goto(r, "done")
  /\ UNCHANGED <<version, results, failed, run>>

\* The worker dies, the client goes away, the connection is lost or act()
\* raises: what is committed stays.
Kill(r) ==
  /\ pc[r] \in Running
  /\ Goto(r, "killed")
  /\ UNCHANGED <<version, dlq, results, receipts, failed, overlap, run>>

-----------------------------------------------------------------------------
Step(r) ==
  /\ \/ FindRow(r) \/ CheckOpen(r) \/ InsertSimulated(r)
     \/ Skip(r) \/ Call(r) \/ DeadLetter(r) \/ LookupInterp(r) \/ StoreInterp(r)
     \/ RereadInterp(r) \/ Score(r) \/ Act(r) \/ ResolveRow(r)
  /\ UNCHANGED overlap

Next == \E r \in Requests :
  \/ Submit(r) \/ Resume(r) \/ Replay(r) \/ Simulate(r)
  \/ Step(r) \/ Kill(r)

Spec == Init /\ [][Next]_vars

\* A request in progress goes on; the provider's calls end, well or badly
\* (the client has a timeout).  Nobody has to start anything.
FairSpec == Spec /\ \A r \in Requests : WF_vars(Step(r))

-----------------------------------------------------------------------------
(* Properties                                                              *)

\* The shape of every variable.
TypeOK ==
  /\ version \in Versions /\ interp \in Interp /\ lead \in Versions
  /\ dlq \in Seq(Row)
  /\ score \in [event : Versions, interp : Interp]
  /\ receipts \in [ActionTypes -> Nat]
  /\ acts \in Nat /\ overlap \in BOOLEAN
  /\ failed \subseteq Versions /\ handled \subseteq Versions
  /\ pc \in [Requests -> {"idle"} \cup Running \cup Ended]
  /\ run \in [Requests -> Run]

\* The pair that reconciliation compares, and the partial unique index: the
\* rows of the queue are the dead_lettered receipts, and at most one is open,
\* however failures, simulations and replays interleave (FR-9, FR-11).
QueueReconciles ==
  /\ Len(dlq) = receipts["dead_lettered"]
  /\ Cardinality(OpenRows) <= 1

\* A dead-letter row is closed only after some run got through act() later
\* than the row was written (replay_event resolves last).
ResolvedAfterAct ==
  \A i \in DOMAIN dlq : dlq[i].resolved => acts > dlq[i].since

\* Every run ends: the retries around the provider are bounded, and no step
\* waits for another request.
EveryRunEnds ==
  \A r \in Requests :
    pc[r] \in {"find", "check", "classify"} ~> pc[r] \in Ended

\* Of requests that do not overlap, whatever they are and wherever they die,
\* none fails on the key of interpretations, the columns of an interpretation
\* are of one classification, a score is computed from the interpretation of
\* the very content it is for (run_downstream re-reads what it stored), and
\* current content that failed and was not handled since is on the worklist.
AloneIsCoherent ==
  ~overlap =>
    /\ \A r \in Requests : pc[r] # "error"
    /\ interp["label"] = interp["confidence"]
    /\ score.interp = OfVersion(score.event)
    /\ version \in failed /\ version \notin handled => OpenRows # {}

\* README: LLM failures are never silently dropped.  Content that is current,
\* failed and was not handled since is on the worklist once all is quiet.
FailureStaysListed ==
  (/\ \A r \in Requests : pc[r] \in {"idle", "done", "dead_letter", "conflict"}
   /\ version \in failed /\ version \notin handled)
    => OpenRows # {}
=============================================================================
