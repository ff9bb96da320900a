--------------------------- MODULE PipelineProofs ---------------------------
(***************************************************************************)
(* Proofs about Pipeline, for any number of requests, attempts and edits.  *)
(* The invariant says which dead-letter row a replay works for (RowOK),    *)
(* what the queue and its receipts have in common (Queue), that a run      *)
(* which overlaps with no other one knows the stored interpretation as it  *)
(* is (Coherent), and that it works on the current content, so that it     *)
(* closes no row that another content's failure needs (Listed).            *)
(***************************************************************************)
EXTENDS Pipeline, FiniteSetTheorems, SequenceTheorems, TLAPS

\* Where a run is between finding its row and having acted.
Underway == {"classify", "lookup", "store", "reread", "score", "act",
             "deadletter"}

\* A replay works for a row of the queue, and resolves it only after an act
\* that is later than the row.
RowOK(r) ==
  /\ pc[r] \in Underway /\ run[r].kind = "replay" => run[r].row \in DOMAIN dlq
  /\ pc[r] = "resolve" => /\ run[r].row \in DOMAIN dlq
                          /\ dlq[run[r].row].since < acts

\* The queue has a row for each receipt, one of them open at most, and a
\* resolved one is older than some act.
Queue ==
  /\ Len(dlq) = receipts["dead_lettered"]
  /\ \A i, j \in OpenRows : i = j
  /\ \A i \in DOMAIN dlq : /\ dlq[i].since <= acts
                           /\ dlq[i].resolved => dlq[i].since < acts

\* What r's session remembers is what the table holds.
Current(r) ==
  /\ pc[r] \in {"store", "score"} => run[r].interp = interp
  /\ pc[r] \in {"reread", "score"} => interp = OfVersion(run[r].version)

\* Who runs alone finds the rows as it left them, of one version each.
Coherent ==
  ~overlap =>
    /\ \A r, s \in Requests : pc[r] \in Running /\ pc[s] \in Running => r = s
    /\ \A r \in Requests : Current(r) /\ pc[r] # "error"
    /\ \E v \in Versions : interp = OfVersion(v)
    /\ score.interp = OfVersion(score.event)

\* A run works on a content the event has or had, and resolves last.
Worked(r) ==
  /\ run[r].version <= version
  /\ pc[r] = "resolve" => run[r].version \in handled

\* Who runs alone works on the current content, which is on the worklist if it
\* failed and nothing handled it since.
Listed ==
  /\ \A r \in Requests : Worked(r)
  /\ \A v \in failed : v <= version
  /\ ~overlap =>
       /\ \A r \in Requests : pc[r] \in Running => run[r].version = version
       /\ version \in failed /\ version \notin handled => OpenRows # {}

\* Inductive: what a run relies on is in the queue and in the tables.
IInv ==
  /\ TypeOK
  /\ \A r \in Requests : RowOK(r)
  /\ Queue
  /\ Coherent
  /\ Listed

\* What request r can do next.
Moves(r) ==
  \/ Submit(r) \/ Resume(r) \/ Replay(r) \/ Simulate(r)
  \/ Step(r) \/ Kill(r)

-----------------------------------------------------------------------------
\* A column-wise version is an interpretation.
LEMMA OfVersionType ==
  ASSUME NEW v \in Versions
  PROVE  OfVersion(v) \in Interp
BY DEF OfVersion, Interp

\* An empty session is one.
LEMMA NoRunType == NoRun \in Run
<1>1. 0 \in Versions /\ 0 \in 0 .. MaxAttempts
  BY BoundsAssumption DEF Versions
<1> QED
  BY <1>1, OfVersionType DEF NoRun, Run, Kinds

\* The queue is empty, and nothing runs, when the system starts.
LEMMA InitIInv == Init => IInv
<1> SUFFICES ASSUME Init PROVE IInv
  OBVIOUS
<1>1. 0 \in Versions
  BY BoundsAssumption DEF Versions
<1>2. TypeOK
  <2>1. interp \in Interp /\ score \in [event : Versions, interp : Interp]
    BY <1>1, OfVersionType DEF Init
  <2>2. receipts \in [ActionTypes -> Nat] /\ dlq \in Seq(Row)
    BY DEF Init
  <2>3. run \in [Requests -> Run]
    BY NoRunType DEF Init
  <2>4. pc \in [Requests -> {"idle"} \cup Running \cup Ended]
    BY DEF Init
  <2>5. overlap \in BOOLEAN
    BY DEF Init
  <2> QED
    BY <1>1, <2>1, <2>2, <2>3, <2>4, <2>5 DEF Init, TypeOK
<1>3. \A r \in Requests : pc[r] = "idle"
  BY DEF Init
<1>4. (\A r \in Requests : RowOK(r)) /\ Queue
  <2>1. OpenRows = {} /\ DOMAIN dlq = {} /\ Len(dlq) = 0
    BY DEF Init, OpenRows
  <2> QED
    BY <1>3, <2>1 DEF Init, RowOK, Queue, Underway, ActionTypes
<1>5. Coherent
  BY <1>1, <1>3 DEF Init, Coherent, Current, Running
<1>6. Listed
  <2>1. \A r \in Requests : run[r].version = 0
    BY DEF Init, NoRun
  <2>2. version = 0 /\ failed = {}
    BY DEF Init
  <2> QED
    BY <1>3, <2>1, <2>2 DEF Listed, Worked, Running
<1> QED
  BY <1>2, <1>4, <1>5, <1>6 DEF IInv

-----------------------------------------------------------------------------
(* How a move changes the state                                            *)

\* A run starts with an empty session.
LEMMA Started ==
  ASSUME TypeOK, NEW r \in Requests, NEW kind \in Kinds, NEW held \in Versions,
         NEW label \in Running, Start(r, kind, held, label)
  PROVE  /\ pc[r] = "idle" /\ pc' = [pc EXCEPT ![r] = label]
         /\ run' = [run EXCEPT ![r] = run'[r]] /\ run'[r] \in Run
         /\ run'[r].kind = kind /\ run'[r].version = held
         /\ overlap' = (overlap \/ \E s \in Requests : pc[s] \in Running)
         /\ UNCHANGED <<dlq, results, receipts, failed>>
<1> DEFINE new == [NoRun EXCEPT !.kind = kind, !.version = held]
<1>1. new \in Run /\ new.kind = kind /\ new.version = held
  BY NoRunType DEF Run
<1> HIDE DEF new
<1>2. run' = [run EXCEPT ![r] = new]
  BY DEF Start, new
<1> QED
  BY <1>1, <1>2 DEF Start, Goto, TypeOK

\* The four ways to start one.
LEMMA Starts ==
  ASSUME TypeOK, NEW r \in Requests,
         Submit(r) \/ Resume(r) \/ Replay(r) \/ Simulate(r)
  PROVE  /\ pc[r] = "idle" /\ pc' = [pc EXCEPT ![r] = pc'[r]]
         /\ run' = [run EXCEPT ![r] = run'[r]] /\ run'[r] \in Run
         /\ pc'[r] \in {"classify", "find", "check"}
         /\ pc'[r] = "classify" => run'[r].kind # "replay"
         /\ version' \in Versions
         /\ overlap' = (overlap \/ \E s \in Requests : pc[s] \in Running)
         /\ UNCHANGED <<dlq, results, receipts, failed>>
<1>1. /\ pc \in [Requests -> {"idle"} \cup Running \cup Ended]
      /\ version \in Versions
  BY DEF TypeOK
<1>2. {"submit", "resume", "replay", "simulate"} \subseteq Kinds
      /\ {"classify", "find", "check"} \subseteq Running
  BY DEF Kinds, Running
<1>3. CASE Submit(r)
  <2>1. version' \in Versions /\ Start(r, "submit", version', "classify")
    BY <1>1, <1>3, BoundsAssumption DEF Submit, Versions
  <2> QED
    BY <1>1, <1>2, <2>1, Started
<1>4. CASE Resume(r)
  BY <1>1, <1>2, <1>4, Started DEF Resume
<1>5. CASE Replay(r)
  BY <1>1, <1>2, <1>5, Started DEF Replay
<1>6. CASE Simulate(r)
  BY <1>1, <1>2, <1>6, Started DEF Simulate
<1> QED
  BY <1>3, <1>4, <1>5, <1>6

\* The rows of the queue.
LEMMA Rows ==
  ASSUME TypeOK
  PROVE  /\ dlq \in Seq(Row) /\ Len(dlq) \in Nat /\ DOMAIN dlq = 1 .. Len(dlq)
         /\ \A i \in DOMAIN dlq : dlq[i] \in Row /\ dlq[i].since \in Nat
<1>1. dlq \in Seq(Row)
  BY DEF TypeOK
<1>2. Len(dlq) \in Nat /\ DOMAIN dlq = 1 .. Len(dlq)
  BY <1>1
<1>3. \A i \in DOMAIN dlq : dlq[i] \in Row
  BY <1>1, <1>2
<1> QED
  BY <1>1, <1>2, <1>3 DEF Row

\* What is appended to the queue.
LEMMA RowAdded ==
  ASSUME TypeOK, AddRow
  PROVE  /\ OpenRows = {}
         /\ dlq' \in Seq(Row) /\ Len(dlq') = Len(dlq) + 1
         /\ \A i \in 1 .. Len(dlq) : dlq'[i] = dlq[i]
         /\ dlq'[Len(dlq) + 1].since = acts
         /\ ~dlq'[Len(dlq) + 1].resolved
         /\ receipts' \in [ActionTypes -> Nat]
         /\ receipts'["dead_lettered"] = receipts["dead_lettered"] + 1
<1> DEFINE new == [resolved |-> FALSE, since |-> acts]
<1>1. new \in Row /\ dlq \in Seq(Row) /\ receipts \in [ActionTypes -> Nat]
  BY DEF TypeOK, Row
<1>2. dlq' = Append(dlq, new) /\ OpenRows = {}
      /\ receipts' = [receipts EXCEPT !["dead_lettered"] = @ + 1]
  BY DEF AddRow, Receipt
<1>3. new.since = acts /\ ~new.resolved
  OBVIOUS
<1> HIDE DEF new
<1> QED
  BY <1>1, <1>2, <1>3 DEF ActionTypes

\* What becomes of the queue.
LEMMA QueueMoves ==
  ASSUME TypeOK, NEW r \in Requests, RowOK(r), Moves(r)
  PROVE  \/ UNCHANGED dlq /\ receipts'["dead_lettered"] = receipts["dead_lettered"]
         \/ AddRow
         \/ /\ pc[r] = "resolve" /\ run[r].row \in DOMAIN dlq
            /\ dlq[run[r].row].since < acts
            /\ dlq' \in Seq(Row) /\ Len(dlq') = Len(dlq)
            /\ \A i \in DOMAIN dlq :
                 /\ dlq'[i].since = dlq[i].since
                 /\ i # run[r].row => dlq'[i] = dlq[i]
            /\ dlq'[run[r].row].resolved
            /\ receipts'["dead_lettered"] = receipts["dead_lettered"]
<1>1. dlq \in Seq(Row) /\ receipts \in [ActionTypes -> Nat]
  BY DEF TypeOK
<1>2. CASE ResolveRow(r)
  <2>1. /\ pc[r] = "resolve"
        /\ dlq' = [dlq EXCEPT ![run[r].row].resolved = TRUE]
        /\ receipts' = [receipts EXCEPT !["dead_letter_resolved"] = @ + 1]
    BY <1>2 DEF ResolveRow, Receipt
  <2>2. run[r].row \in DOMAIN dlq /\ dlq[run[r].row].since < acts
    BY <2>1 DEF RowOK
  <2> DEFINE new == [dlq[run[r].row] EXCEPT !.resolved = TRUE]
  <2>3. /\ new \in Row /\ new.resolved
        /\ new.since = dlq[run[r].row].since
    <3>1. dlq[run[r].row] \in Row
      BY <2>2, Rows
    <3> QED
      BY <3>1 DEF Row
  <2> HIDE DEF new
  <2>4. dlq' = [dlq EXCEPT ![run[r].row] = new]
    BY <2>1 DEF new
  <2>5. /\ dlq' \in Seq(Row) /\ Len(dlq') = Len(dlq)
        /\ dlq'[run[r].row] = new
        /\ \A i \in DOMAIN dlq : i # run[r].row => dlq'[i] = dlq[i]
    <3>1. run[r].row \in 1 .. Len(dlq) /\ DOMAIN dlq = 1 .. Len(dlq)
      BY <1>1, <2>2
    <3> QED
      BY <1>1, <2>3, <2>4, <3>1, ExceptSeq
  <2>6. \A i \in DOMAIN dlq : dlq'[i].since = dlq[i].since
    BY <2>3, <2>5
  <2>7. receipts'["dead_lettered"] = receipts["dead_lettered"]
    BY <1>1, <2>1 DEF ActionTypes
  <2> QED
    BY <2>1, <2>2, <2>3, <2>5, <2>6, <2>7
<1>3. CASE ~ResolveRow(r)
  BY <1>1, <1>3, Starts
  DEF Moves, Step, FindRow, CheckOpen, InsertSimulated, Skip, Call, DeadLetter,
      LookupInterp, StoreInterp, RereadInterp, Score, Act, Kill, Receipt,
      ActionTypes
<1> QED
  BY <1>2, <1>3

\* A move changes the session and the place of one request.
LEMMA OneMoves ==
  ASSUME TypeOK, NEW r \in Requests, Moves(r)
  PROVE  /\ pc' = [pc EXCEPT ![r] = pc'[r]]
         /\ run' = [run EXCEPT ![r] = run'[r]] /\ run'[r] \in Run
         /\ pc[r] \in {"idle"} \cup Running
         /\ pc'[r] \in Running \cup Ended
<1>1. /\ pc \in [Requests -> {"idle"} \cup Running \cup Ended]
      /\ run \in [Requests -> Run] /\ run[r] \in Run
  BY DEF TypeOK
<1>2. CASE Submit(r) \/ Resume(r) \/ Replay(r) \/ Simulate(r)
  BY <1>2, Starts DEF Running
<1>3. CASE FindRow(r)
  <2>1. \A i \in OpenRows : i \in Nat
    BY DEF TypeOK, OpenRows
  <2>2. run' = run \/ \E i \in OpenRows : run' = [run EXCEPT ![r].row = i]
    BY <1>3 DEF FindRow
  <2>3. run' = [run EXCEPT ![r] = run'[r]] /\ run'[r] \in Run
    BY <1>1, <2>1, <2>2 DEF Run
  <2> QED
    BY <1>1, <1>3, <2>3 DEF FindRow, Goto, Running, Ended
<1>4. CASE Call(r)
  <2>1. run[r].calls + 1 \in 0 .. MaxAttempts
    BY <1>1, <1>4, BoundsAssumption DEF Call, Run
  <2>2. run' = [run EXCEPT ![r] = run'[r]] /\ run'[r] \in Run
    BY <1>1, <1>4, <2>1 DEF Call, Run
  <2> QED
    BY <1>1, <1>4, <2>2 DEF Call, Goto, AfterFailure, Running, Ended
<1>5. CASE LookupInterp(r) \/ RereadInterp(r)
  <2>1. interp \in Interp /\ run' = [run EXCEPT ![r].interp = interp]
    BY <1>5 DEF LookupInterp, RereadInterp, TypeOK
  <2>2. run' = [run EXCEPT ![r] = run'[r]] /\ run'[r] \in Run
    BY <1>1, <2>1 DEF Run
  <2> QED
    BY <1>1, <1>5, <2>2 DEF LookupInterp, RereadInterp, Goto, Running
<1>6. CASE CheckOpen(r) \/ InsertSimulated(r) \/ Skip(r) \/ DeadLetter(r)
           \/ StoreInterp(r) \/ Score(r) \/ Act(r) \/ ResolveRow(r) \/ Kill(r)
  <2>1. run' = run
    BY <1>6
    DEF CheckOpen, InsertSimulated, Skip, DeadLetter, StoreInterp, Score, Act,
        ResolveRow, Kill
  <2>2. pc[r] \in Running /\ \E to \in Running \cup Ended : Goto(r, to)
    BY <1>6
    DEF CheckOpen, InsertSimulated, Skip, DeadLetter, StoreInterp, Score, Act,
        AfterAct, ResolveRow, Kill, Running, Ended
  <2> QED
    BY <1>1, <2>1, <2>2 DEF Goto
<1> QED
  BY <1>2, <1>3, <1>4, <1>5, <1>6 DEF Moves, Step

\* The rows of the queue stay where they are, and acts are only added.
LEMMA QueueGrows ==
  ASSUME TypeOK, NEW r \in Requests, RowOK(r), Moves(r)
  PROVE  /\ \A i \in DOMAIN dlq : i \in DOMAIN dlq' /\ dlq'[i].since = dlq[i].since
         /\ dlq' \in Seq(Row) /\ acts' \in Nat /\ acts <= acts'
<1>1. dlq \in Seq(Row) /\ acts \in Nat
  BY DEF TypeOK
<1>2. acts' \in {acts, acts + 1}
  BY Starts
  DEF Moves, Step, FindRow, CheckOpen, InsertSimulated, Skip, Call, DeadLetter,
      LookupInterp, StoreInterp, RereadInterp, Score, Act, ResolveRow, Kill,
      results
<1>3. /\ \A i \in DOMAIN dlq : i \in DOMAIN dlq' /\ dlq'[i].since = dlq[i].since
      /\ dlq' \in Seq(Row)
  BY <1>1, QueueMoves, RowAdded
<1> QED
  BY <1>1, <1>2, <1>3

\* No move takes a variable out of its shape.
LEMMA TypeStep ==
  ASSUME TypeOK, NEW r \in Requests, RowOK(r), Moves(r)
  PROVE  TypeOK'
<1>1. /\ pc' \in [Requests -> {"idle"} \cup Running \cup Ended]
      /\ run' \in [Requests -> Run]
  BY OneMoves DEF TypeOK
<1>2. dlq' \in Seq(Row) /\ acts' \in Nat
  BY QueueGrows
<1>3. receipts' \in [ActionTypes -> Nat]
  <2>1. receipts' = receipts \/ \E t \in ActionTypes : Receipt(t)
    BY Starts
    DEF Moves, Step, FindRow, CheckOpen, InsertSimulated, Skip, Call,
        DeadLetter, LookupInterp, StoreInterp, RereadInterp, Score, Act,
        ResolveRow, Kill, AddRow, ActionTypes
  <2> QED
    BY <2>1 DEF TypeOK, Receipt
<1>4. interp' \in Interp
  <2>1. CASE StoreInterp(r)
    <3>1. run[r].version \in Versions /\ interp \in Interp
      BY DEF TypeOK, Run
    <3>2. StoredColumns(r) \subseteq Interp
      BY <3>1 DEF StoredColumns, Interp
    <3> QED
      BY <2>1, <3>1, <3>2 DEF StoreInterp
  <2>2. CASE ~StoreInterp(r)
    BY <2>2, Starts
    DEF TypeOK, Moves, Step, FindRow, CheckOpen, InsertSimulated, Skip, Call,
        DeadLetter, LookupInterp, RereadInterp, Score, Act, ResolveRow, Kill,
        results
  <2> QED
    BY <2>1, <2>2
<1>5. /\ version' \in Versions /\ lead' \in Versions
      /\ score' \in [event : Versions, interp : Interp]
      /\ failed' \subseteq Versions /\ handled' \subseteq Versions
  <2>1. run[r].version \in Versions /\ run[r].interp \in Interp
    BY DEF TypeOK, Run
  <2>2. Scored(r) \in [event : Versions, interp : Interp]
    BY <2>1 DEF Scored
  <2> QED
    BY <2>1, <2>2, Starts
    DEF TypeOK, Moves, Step, FindRow, CheckOpen, InsertSimulated, Skip, Call,
        DeadLetter, LookupInterp, StoreInterp, RereadInterp, Score, Act,
        ResolveRow, Kill, results
<1>6. overlap' \in BOOLEAN
  BY Starts DEF TypeOK, Moves, Step, Kill
<1> QED
  BY <1>1, <1>2, <1>3, <1>4, <1>5, <1>6 DEF TypeOK

\* A replay that acts has made its row one that may be resolved.
LEMMA RowStep ==
  ASSUME TypeOK, Queue, \A r \in Requests : RowOK(r),
         NEW r \in Requests, Moves(r)
  PROVE  \A s \in Requests : RowOK(s)'
<1>1. ASSUME NEW s \in Requests, s # r
      PROVE  RowOK(s)'
  <2>1. pc'[s] = pc[s] /\ run'[s] = run[s]
    BY <1>1, OneMoves DEF TypeOK
  <2>2. RowOK(s) /\ acts \in Nat
    BY DEF TypeOK
  <2>3. \A i \in DOMAIN dlq : dlq[i].since \in Nat
    BY Rows
  <2> QED
    BY <2>1, <2>2, <2>3, QueueGrows DEF RowOK
<1>2. RowOK(r)'
  <2> USE DEF RowOK, Underway
  <2>1. /\ pc \in [Requests -> {"idle"} \cup Running \cup Ended]
        /\ run \in [Requests -> Run]
        /\ acts \in Nat /\ \A i \in DOMAIN dlq : dlq[i].since \in Nat
    BY Rows DEF TypeOK
  <2>2. CASE Submit(r) \/ Resume(r) \/ Replay(r) \/ Simulate(r)
    BY <2>2, Starts
  <2>3. CASE FindRow(r)
    <3>1. CASE OpenRows = {}
      BY <2>1, <2>3, <3>1 DEF FindRow, Goto
    <3>2. CASE OpenRows # {}
      <4>1. run' = [run EXCEPT ![r].row = CHOOSE i \in OpenRows : TRUE]
        BY <2>3, <3>2 DEF FindRow
      <4>2. run'[r].row \in OpenRows
        BY <2>1, <3>2, <4>1 DEF Run
      <4>3. pc'[r] = "classify" /\ dlq' = dlq
        BY <2>1, <2>3, <3>2 DEF FindRow, Goto
      <4> QED
        BY <4>2, <4>3 DEF OpenRows
    <3> QED
      BY <3>1, <3>2
  <2>4. CASE Call(r) \/ LookupInterp(r) \/ RereadInterp(r)
    <3>1. run'[r].kind = run[r].kind /\ run'[r].row = run[r].row
      BY <2>1, <2>4 DEF Call, LookupInterp, RereadInterp, Run
    <3>2. /\ pc[r] \in {"classify", "lookup", "reread"}
          /\ pc'[r] \in Underway \ {"resolve"} /\ dlq' = dlq
      BY <2>1, <2>4 DEF Call, LookupInterp, RereadInterp, Goto, AfterFailure
    <3> QED
      BY <3>1, <3>2
  <2>5. CASE Act(r)
    <3>1. /\ pc[r] = "act" /\ run' = run /\ dlq' = dlq /\ acts' = acts + 1
          /\ pc'[r] \in {"resolve", "done"}
          /\ pc'[r] = "resolve" => run[r].kind = "replay"
      BY <2>1, <2>5 DEF Act, AfterAct, Goto
    <3>2. pc'[r] = "resolve" => run[r].row \in DOMAIN dlq
      BY <3>1
    <3>3. pc'[r] = "resolve" => dlq[run[r].row].since < acts'
      BY <2>1, <3>1, <3>2 DEF Queue
    <3> QED
      BY <3>1, <3>2, <3>3
  <2>6. CASE CheckOpen(r) \/ InsertSimulated(r) \/ DeadLetter(r) \/ ResolveRow(r)
             \/ Kill(r)
    BY <2>1, <2>6
    DEF CheckOpen, InsertSimulated, DeadLetter, ResolveRow, Kill, Goto
  <2>7. CASE Skip(r) \/ StoreInterp(r) \/ Score(r)
    <3>1. /\ run' = run /\ dlq' = dlq /\ pc[r] \in {"classify", "store", "score"}
          /\ pc'[r] \in {"lookup", "reread", "error", "act"}
      BY <2>1, <2>7 DEF Skip, StoreInterp, Score, Goto
    <3> QED
      BY <3>1
  <2> QED
    BY <2>2, <2>3, <2>4, <2>5, <2>6, <2>7 DEF Moves, Step
<1> QED
  BY <1>1, <1>2

\* The queue and its receipts grow together, and only an empty worklist grows.
LEMMA QueueStep ==
  ASSUME TypeOK, Queue, NEW r \in Requests, RowOK(r), Moves(r)
  PROVE  Queue'
<1>1. /\ dlq \in Seq(Row) /\ acts \in Nat /\ DOMAIN dlq = 1 .. Len(dlq)
      /\ receipts \in [ActionTypes -> Nat]
      /\ \A i \in DOMAIN dlq : dlq[i].since \in Nat
  BY Rows DEF TypeOK
<1>2. acts' \in Nat /\ acts <= acts'
  BY QueueGrows
<1>3. CASE UNCHANGED dlq /\ receipts'["dead_lettered"] = receipts["dead_lettered"]
  <2>1. OpenRows' = OpenRows
    BY <1>3 DEF OpenRows
  <2> QED
    BY <1>1, <1>2, <1>3, <2>1 DEF Queue
<1>4. CASE AddRow
  <2>1. DOMAIN dlq' = 1 .. Len(dlq) + 1 /\ OpenRows = {}
    BY <1>1, <1>4, RowAdded
  <2>2. OpenRows' \subseteq {Len(dlq) + 1}
    BY <1>1, <1>4, <2>1, RowAdded DEF OpenRows
  <2>3. \A i \in DOMAIN dlq' : /\ dlq'[i].since <= acts'
                               /\ dlq'[i].resolved => dlq'[i].since < acts'
    <3>1. ASSUME NEW i \in DOMAIN dlq', i # Len(dlq) + 1
          PROVE  i \in DOMAIN dlq /\ dlq'[i] = dlq[i]
      BY <1>1, <1>4, <2>1, <3>1, RowAdded
    <3>2. \A i \in DOMAIN dlq : /\ dlq[i].since <= acts'
                                /\ dlq[i].resolved => dlq[i].since < acts'
      BY <1>1, <1>2 DEF Queue
    <3>3. /\ dlq'[Len(dlq) + 1].since <= acts'
          /\ ~dlq'[Len(dlq) + 1].resolved
      BY <1>2, <1>4, RowAdded
    <3> QED
      BY <3>1, <3>2, <3>3
  <2>4. Len(dlq') = receipts'["dead_lettered"]
    BY <1>4, RowAdded DEF Queue
  <2> QED
    BY <2>2, <2>3, <2>4 DEF Queue
<1>5. CASE /\ pc[r] = "resolve" /\ run[r].row \in DOMAIN dlq
           /\ dlq[run[r].row].since < acts
           /\ dlq' \in Seq(Row) /\ Len(dlq') = Len(dlq)
           /\ \A i \in DOMAIN dlq :
                /\ dlq'[i].since = dlq[i].since
                /\ i # run[r].row => dlq'[i] = dlq[i]
           /\ dlq'[run[r].row].resolved
           /\ receipts'["dead_lettered"] = receipts["dead_lettered"]
  <2>1. DOMAIN dlq' = DOMAIN dlq
    BY <1>1, <1>5
  <2>2. OpenRows' \subseteq OpenRows
    BY <1>5, <2>1 DEF OpenRows
  <2> QED
    BY <1>1, <1>2, <1>5, <2>1, <2>2 DEF Queue
<1> QED
  BY <1>3, <1>4, <1>5, QueueMoves

-----------------------------------------------------------------------------
(* Requests one after the other                                            *)

\* Who moves while nothing overlaps is the only one in progress.
LEMMA OthersRest ==
  ASSUME TypeOK, Coherent, NEW r \in Requests, Moves(r), ~overlap'
  PROVE  /\ ~overlap
         /\ \A s \in Requests \ {r} : pc[s] \notin Running /\ pc'[s] = pc[s]
<1>1. /\ \A s \in Requests \ {r} : pc'[s] = pc[s]
      /\ pc[r] \in {"idle"} \cup Running
  BY OneMoves DEF TypeOK
<1>2. CASE Submit(r) \/ Resume(r) \/ Replay(r) \/ Simulate(r)
  BY <1>1, <1>2, Starts
<1>3. CASE Step(r) \/ Kill(r)
  <2>1. overlap' = overlap /\ pc[r] \in Running
    BY <1>3
    DEF Step, FindRow, CheckOpen, InsertSimulated, Skip, Call, DeadLetter,
        LookupInterp, StoreInterp, RereadInterp, Score, Act, ResolveRow, Kill,
        Running
  <2> QED
    BY <1>1, <2>1 DEF Coherent
<1> QED
  BY <1>2, <1>3 DEF Moves

\* Columns of a row that is of one version already, or of the run's.
LEMMA StoredWhole ==
  ASSUME NEW r \in Requests, NEW v \in Versions, interp = OfVersion(v),
         run[r].interp = interp
  PROVE  StoredColumns(r) \subseteq {OfVersion(run[r].version)}
<1> SUFFICES ASSUME NEW same \in SUBSET {c \in Columns : run[r].interp[c] = run[r].version}
             PROVE  [c \in Columns |-> IF c \in same THEN interp[c] ELSE run[r].version]
                      = OfVersion(run[r].version)
  BY DEF StoredColumns
<1>1. \A c \in Columns : c \in same => interp[c] = run[r].version
  OBVIOUS
<1> QED
  BY <1>1 DEF OfVersion

\* Alone, a run finds in the table what it knows and stores what it computed.
LEMMA CoherentStep ==
  ASSUME TypeOK, Coherent, NEW r \in Requests, Moves(r)
  PROVE  Coherent'
<1> SUFFICES ASSUME ~overlap'
             PROVE  Coherent'
  BY DEF Coherent
<1>1. /\ ~overlap
      /\ \A s \in Requests \ {r} : /\ pc'[s] \notin Running /\ pc'[s] = pc[s]
                                   /\ run'[s] = run[s]
  BY OthersRest, OneMoves DEF TypeOK
<1>2. /\ pc \in [Requests -> {"idle"} \cup Running \cup Ended]
      /\ run \in [Requests -> Run] /\ run[r].version \in Versions
  BY DEF TypeOK, Run
<1>3. /\ Current(r) /\ \A s \in Requests : pc[s] # "error"
      /\ score.interp = OfVersion(score.event)
  BY <1>1 DEF Coherent
<1>4. PICK v \in Versions : interp = OfVersion(v)
  BY <1>1 DEF Coherent
<1>5. \A s \in Requests \ {r} : Current(s)'
  BY <1>1 DEF Current, Running
<1>6. /\ Current(r)' /\ pc'[r] # "error"
      /\ \E w \in Versions : interp' = OfVersion(w)
      /\ score'.interp = OfVersion(score'.event)
  <2> USE DEF Current
  <2>1. CASE Submit(r) \/ Resume(r) \/ Replay(r) \/ Simulate(r)
    <3>1. UNCHANGED <<interp, score>> /\ pc'[r] \in {"classify", "find", "check"}
      BY <2>1, Starts DEF results
    <3> QED
      BY <1>3, <1>4, <3>1
  <2>2. CASE LookupInterp(r)
    <3>1. /\ UNCHANGED <<interp, score>> /\ pc'[r] = "store"
          /\ run'[r].interp = interp
      BY <1>2, <2>2 DEF LookupInterp, Goto, results, Run
    <3> QED
      BY <1>3, <1>4, <3>1
  <2>3. CASE StoreInterp(r)
    <3>1. pc[r] = "store" /\ run[r].interp = interp
      BY <1>3, <2>3 DEF StoreInterp
    <3>2. /\ interp' \in StoredColumns(r) /\ pc'[r] = "reread"
          /\ UNCHANGED <<score, run>>
      BY <1>2, <2>3, <3>1 DEF StoreInterp, Goto
    <3>3. interp' = OfVersion(run[r].version)
      BY <1>4, <3>1, <3>2, StoredWhole
    <3> QED
      BY <1>2, <1>3, <3>2, <3>3
  <2>4. CASE RereadInterp(r)
    <3>1. /\ UNCHANGED <<interp, score>> /\ pc[r] = "reread" /\ pc'[r] = "score"
          /\ run'[r].interp = interp /\ run'[r].version = run[r].version
      BY <1>2, <2>4 DEF RereadInterp, Goto, results, Run
    <3> QED
      BY <1>3, <1>4, <3>1
  <2>5. CASE Score(r)
    <3>1. /\ UNCHANGED interp /\ pc[r] = "score" /\ pc'[r] = "act"
          /\ score' = Scored(r)
      BY <1>2, <2>5 DEF Score, Goto
    <3>2. score'.interp = OfVersion(score'.event)
      BY <1>3, <3>1 DEF Scored
    <3> QED
      BY <1>4, <3>1, <3>2
  <2>6. CASE FindRow(r) \/ CheckOpen(r) \/ InsertSimulated(r) \/ Skip(r) \/ Call(r)
             \/ DeadLetter(r) \/ Act(r) \/ ResolveRow(r) \/ Kill(r)
    <3>1. UNCHANGED <<interp, score>>
      BY <2>6
      DEF FindRow, CheckOpen, InsertSimulated, Skip, Call, DeadLetter, Act,
          ResolveRow, Kill, results
    <3>2. pc'[r] \notin {"store", "reread", "score", "error"}
      BY <1>2, <2>6
      DEF FindRow, CheckOpen, InsertSimulated, Skip, Call, DeadLetter, Act,
          AfterAct, AfterFailure, ResolveRow, Kill, Goto
    <3> QED
      BY <1>3, <1>4, <3>1, <3>2
  <2> QED
    BY <2>1, <2>2, <2>3, <2>4, <2>5, <2>6 DEF Moves, Step
<1> QED
  BY <1>1, <1>3, <1>5, <1>6 DEF Coherent

\* Alone, a run closes a row only behind an act on the current content, and a
\* failure of that content leaves an open one.
LEMMA ListedStep ==
  ASSUME TypeOK, Coherent, Listed, NEW r \in Requests, Moves(r)
  PROVE  Listed'
<1>1. /\ version \in Nat /\ MaxVersion \in Nat /\ failed \subseteq Nat
      /\ run[r].version \in Nat
      /\ pc \in [Requests -> {"idle"} \cup Running \cup Ended]
      /\ run \in [Requests -> Run]
  BY BoundsAssumption DEF TypeOK, Versions, Run
<1>2. \A s \in Requests \ {r} : pc'[s] = pc[s] /\ run'[s] = run[s]
  BY OneMoves DEF TypeOK
<1>3. \A s \in Requests : run[s].version \in Nat /\ Worked(s)
  BY DEF TypeOK, Run, Versions, Listed
<1>4. \A v \in failed : v <= version
  BY DEF Listed
<1>5. ~overlap' =>
        /\ ~overlap
        /\ \A s \in Requests \ {r} : pc'[s] \notin Running
        /\ pc[r] \in Running => run[r].version = version
        /\ version \in failed /\ version \notin handled => OpenRows # {}
  BY <1>2, OthersRest DEF Listed
<1>6. CASE Submit(r)
  <2>1. version' = version + 1 /\ Start(r, "submit", version', "classify")
    BY <1>6 DEF Submit
  <2>2. run'[r].version = version' /\ pc'[r] = "classify"
    BY <1>1, <2>1 DEF Start, Goto, NoRun, Run
  <2>3. UNCHANGED <<dlq, failed, handled>>
    BY <2>1 DEF Start, results
  <2>4. /\ \A v \in failed' : v <= version'
        /\ version' \notin failed'
    BY <1>1, <1>4, <2>1, <2>3
  <2>5. \A s \in Requests : run'[s].version <= version'
    BY <1>1, <1>2, <1>3, <2>1, <2>2 DEF Worked
  <2>6. \A s \in Requests : pc'[s] = "resolve" => run'[s].version \in handled'
    BY <1>2, <1>3, <2>2, <2>3 DEF Worked
  <2> QED
    BY <1>5, <2>2, <2>4, <2>5, <2>6 DEF Listed, Worked
<1>7. CASE Resume(r) \/ Replay(r) \/ Simulate(r)
  <2>1. PICK kind \in Kinds, label \in {"classify", "find", "check"} :
          Start(r, kind, version, label)
    BY <1>7 DEF Resume, Replay, Simulate, Kinds
  <2>2. run'[r].version = version /\ pc'[r] \in {"classify", "find", "check"}
    BY <1>1, <2>1 DEF Start, Goto, NoRun, Run
  <2>3. UNCHANGED <<version, dlq, failed, handled>>
    BY <1>7, <2>1 DEF Start, results, Resume, Replay, Simulate
  <2>4. OpenRows' = OpenRows
    BY <2>3 DEF OpenRows
  <2> QED
    BY <1>1, <1>2, <1>3, <1>4, <1>5, <2>2, <2>3, <2>4 DEF Listed, Worked
<1>8. CASE Step(r) \/ Kill(r)
  <2>1. /\ version' = version /\ pc[r] \in Running
        /\ run'[r].version = run[r].version
    BY <1>1, <1>8
    DEF Step, FindRow, CheckOpen, InsertSimulated, Skip, Call, DeadLetter,
        LookupInterp, StoreInterp, RereadInterp, Score, Act, ResolveRow, Kill,
        Running, Run
  <2>2. /\ handled' = handled \/ handled' = handled \cup {run[r].version}
        /\ pc'[r] = "resolve" => run[r].version \in handled'
    BY <1>1, <1>8
    DEF Step, FindRow, CheckOpen, InsertSimulated, Skip, Call, DeadLetter,
        LookupInterp, StoreInterp, RereadInterp, Score, Act, AfterFailure,
        ResolveRow, Kill, Goto, results
  <2>3. failed' = failed \/ failed' = failed \cup {run[r].version}
    BY <1>8
    DEF Step, FindRow, CheckOpen, InsertSimulated, Skip, Call, DeadLetter,
        LookupInterp, StoreInterp, RereadInterp, Score, Act, ResolveRow, Kill
  <2>4. \A s \in Requests : Worked(s)'
    BY <1>2, <1>3, <2>1, <2>2 DEF Worked
  <2>5. \A v \in failed' : v <= version'
    BY <1>3, <1>4, <2>1, <2>3 DEF Worked
  <2>6. ASSUME ~overlap', version' \in failed', version' \notin handled'
        PROVE  OpenRows' # {}
    <3>1. CASE DeadLetter(r)
      <4>1. CASE AddRow
        <5>1. Len(dlq') = Len(dlq) + 1 /\ ~dlq'[Len(dlq) + 1].resolved
          BY <4>1, RowAdded
        <5>2. Len(dlq) + 1 \in DOMAIN dlq'
          BY <4>1, <5>1, RowAdded, Rows
        <5> QED
          BY <5>1, <5>2 DEF OpenRows
      <4>2. CASE UNCHANGED dlq /\ OpenRows # {}
        BY <4>2 DEF OpenRows
      <4> QED
        BY <3>1, <4>1, <4>2 DEF DeadLetter
    <3>2. CASE ~DeadLetter(r)
      <4>1. failed' = failed /\ version \in failed /\ version \notin handled
        BY <1>8, <2>1, <2>2, <2>6, <3>2
        DEF Step, FindRow, CheckOpen, InsertSimulated, Skip, Call,
            LookupInterp, StoreInterp, RereadInterp, Score, Act, ResolveRow,
            Kill
      <4>2. OpenRows # {} /\ run[r].version = version
        BY <1>5, <2>1, <2>6, <4>1
      <4>3. ~ResolveRow(r)
        BY <1>3, <4>1, <4>2 DEF ResolveRow, Worked
      <4>4. CASE AddRow
        BY <4>2, <4>4 DEF AddRow
      <4>5. CASE dlq' = dlq
        BY <4>2, <4>5 DEF OpenRows
      <4>6. dlq' = dlq \/ AddRow
        BY <1>8, <3>2, <4>3
        DEF Step, FindRow, CheckOpen, InsertSimulated, Skip, Call,
            LookupInterp, StoreInterp, RereadInterp, Score, Act, Kill
      <4> QED
        BY <4>4, <4>5, <4>6
    <3> QED
      BY <3>1, <3>2
  <2> QED
    BY <1>2, <1>5, <2>1, <2>4, <2>5, <2>6 DEF Listed
<1> QED
  BY <1>6, <1>7, <1>8 DEF Moves

-----------------------------------------------------------------------------
\* Every step of the specification preserves the invariant.
LEMMA IInvStep == IInv /\ [Next]_vars => IInv'
<1> SUFFICES ASSUME IInv, [Next]_vars PROVE IInv'
  OBVIOUS
<1>1. ASSUME NEW r \in Requests, Moves(r)
      PROVE  IInv'
  BY <1>1, TypeStep, RowStep, QueueStep, CoherentStep, ListedStep DEF IInv
<1>2. CASE UNCHANGED vars
  <2>1. TypeOK' /\ OpenRows' = OpenRows
    BY <1>2 DEF vars, results, IInv, TypeOK, OpenRows
  <2>2. (\A r \in Requests : RowOK(r)') /\ Queue'
    BY <1>2, <2>1 DEF vars, results, IInv, RowOK, Queue
  <2>3. Coherent'
    BY <1>2 DEF vars, results, IInv, Coherent, Current
  <2>4. Listed'
    BY <1>2, <2>1 DEF vars, results, IInv, Listed, Worked
  <2> QED
    BY <2>1, <2>2, <2>3, <2>4 DEF IInv
<1> QED
  BY <1>1, <1>2 DEF Next, Moves

\* So it holds in every reachable state.
LEMMA Invariance == Spec => []IInv
BY InitIInv, IInvStep, PTL DEF Spec

\* Every variable keeps its shape; in particular no run calls the provider more
\* often than it may.
THEOREM TypeInvariant == Spec => []TypeOK
<1>1. IInv => TypeOK
  BY DEF IInv
<1> QED
  BY <1>1, Invariance, PTL

\* The queue and its receipts reconcile, and at most one row is open, however
\* failures, simulations and replays interleave.
THEOREM Reconciles == Spec => []QueueReconciles
<1>1. IInv => QueueReconciles
  <2> SUFFICES ASSUME Queue
               PROVE  Cardinality(OpenRows) <= 1
    BY DEF IInv, Queue, QueueReconciles
  <2>1. CASE OpenRows = {}
    BY <2>1, FS_EmptySet
  <2>2. ASSUME NEW i \in OpenRows
        PROVE  Cardinality(OpenRows) <= 1
    <3>1. OpenRows = {i}
      BY <2>2 DEF Queue
    <3> QED
      BY <3>1, FS_Singleton
  <2> QED
    BY <2>1, <2>2
<1> QED
  BY <1>1, Invariance, PTL

\* A row is closed only after an act that is later than the row.
THEOREM ResolvedLast == Spec => []ResolvedAfterAct
<1>1. IInv => ResolvedAfterAct
  <2> SUFFICES ASSUME IInv, NEW i \in DOMAIN dlq, dlq[i].resolved
               PROVE  acts > dlq[i].since
    BY DEF ResolvedAfterAct
  <2>1. dlq[i].since \in Nat /\ acts \in Nat
    BY Rows DEF IInv, TypeOK
  <2>2. dlq[i].since < acts
    BY DEF IInv, Queue
  <2> QED
    BY <2>1, <2>2
<1> QED
  BY <1>1, Invariance, PTL

\* Requests that do not overlap never fail on the key of interpretations, the
\* score is of the content and the interpretation it names, and no failure of
\* the current content is dropped from the worklist.
THEOREM CoherentAlone == Spec => []AloneIsCoherent
<1>1. IInv => AloneIsCoherent
  <2> SUFFICES ASSUME IInv, ~overlap
               PROVE  /\ \A r \in Requests : pc[r] # "error"
                      /\ interp["label"] = interp["confidence"]
                      /\ score.interp = OfVersion(score.event)
                      /\ version \in failed /\ version \notin handled
                           => OpenRows # {}
    BY DEF AloneIsCoherent
  <2>1. PICK v \in Versions : interp = OfVersion(v)
    BY DEF IInv, Coherent
  <2>2. interp["label"] = interp["confidence"]
    BY <2>1 DEF OfVersion, Columns
  <2>3. version \in failed /\ version \notin handled => OpenRows # {}
    BY DEF IInv, Listed
  <2> QED
    BY <2>2, <2>3 DEF IInv, Coherent
<1> QED
  BY <1>1, Invariance, PTL

-----------------------------------------------------------------------------
(* The queue and the retries, from one step to the next                    *)

\* No row of the queue is ever removed, reopened or dated anew.
RowsKept ==
  [][\A i \in DOMAIN dlq :
       /\ i \in DOMAIN dlq' /\ dlq'[i].since = dlq[i].since
       /\ dlq[i].resolved => dlq'[i].resolved]_vars

\* Whoever is about to call the provider has an attempt left: a run neither
\* calls it more often than it may nor waits for a call that it may not make.
AttemptLeft ==
  \A r \in Requests :
    pc[r] \in {"find", "classify"} => run[r].calls < MaxAttempts

\* Failures, simulations and replays only add rows and resolve them.
THEOREM HistoryKept == Spec => RowsKept
<1> DEFINE Kept == \A i \in DOMAIN dlq :
                     /\ i \in DOMAIN dlq' /\ dlq'[i].since = dlq[i].since
                     /\ dlq[i].resolved => dlq'[i].resolved
<1>1. IInv /\ [Next]_vars => [Kept]_vars
  <2> SUFFICES ASSUME IInv, Next, NEW i \in DOMAIN dlq
               PROVE  /\ i \in DOMAIN dlq' /\ dlq'[i].since = dlq[i].since
                      /\ dlq[i].resolved => dlq'[i].resolved
    OBVIOUS
  <2>1. PICK r \in Requests : Moves(r)
    BY DEF Next, Moves
  <2>2. TypeOK /\ RowOK(r) /\ i \in 1 .. Len(dlq)
    BY Rows DEF IInv
  <2>3. i \in DOMAIN dlq' /\ dlq'[i].since = dlq[i].since
    BY <2>1, <2>2, QueueGrows
  <2>4. dlq[i].resolved => dlq'[i].resolved
    BY <2>1, <2>2, QueueMoves, RowAdded
  <2> QED
    BY <2>3, <2>4
<1> QED
  BY <1>1, Invariance, PTL DEF Spec, RowsKept

\* The retries around the provider end before they run out of attempts.
THEOREM RetriesSuffice == Spec => []AttemptLeft
<1>1. Init => AttemptLeft
  BY DEF Init, AttemptLeft
<1>2. IInv /\ AttemptLeft /\ [Next]_vars => AttemptLeft'
  <2> SUFFICES ASSUME IInv, AttemptLeft, [Next]_vars
               PROVE  AttemptLeft'
    OBVIOUS
  <2>1. CASE UNCHANGED vars
    BY <2>1 DEF vars, AttemptLeft
  <2>2. ASSUME NEW r \in Requests, Moves(r)
        PROVE  AttemptLeft'
    <3>1. /\ TypeOK /\ MaxAttempts \in Nat /\ 0 < MaxAttempts
          /\ run[r].calls \in Nat /\ run[r].calls <= MaxAttempts
          /\ run \in [Requests -> Run]
          /\ pc \in [Requests -> {"idle"} \cup Running \cup Ended]
      BY BoundsAssumption DEF IInv, TypeOK, Run
    <3>2. \A s \in Requests \ {r} : pc'[s] = pc[s] /\ run'[s] = run[s]
      BY <2>2, <3>1, OneMoves
    <3>3. pc'[r] \in {"find", "classify"} => run'[r].calls < MaxAttempts
      <4>1. CASE Submit(r) \/ Resume(r) \/ Replay(r) \/ Simulate(r)
        <5>1. \E kind, held : run' = [run EXCEPT ![r] =
                                [NoRun EXCEPT !.kind = kind, !.version = held]]
          BY <4>1 DEF Submit, Resume, Replay, Simulate, Start
        <5>2. run'[r].calls = 0
          BY <3>1, <5>1 DEF NoRun
        <5> QED
          BY <3>1, <5>2
      <4>2. CASE Call(r)
        <5>1. /\ run'[r].calls = run[r].calls + 1
              /\ pc'[r] = "classify" => run'[r].calls < MaxAttempts
              /\ pc'[r] # "find"
          BY <3>1, <4>2 DEF Call, Goto, AfterFailure, Outcomes, Run
        <5> QED
          BY <5>1
      <4>3. CASE FindRow(r)
        <5>1. pc[r] = "find" /\ run'[r].calls = run[r].calls
          BY <3>1, <4>3 DEF FindRow, Run
        <5> QED
          BY <5>1 DEF AttemptLeft
      <4>4. CASE \/ CheckOpen(r) \/ InsertSimulated(r) \/ Skip(r)
                 \/ DeadLetter(r) \/ LookupInterp(r) \/ StoreInterp(r)
                 \/ RereadInterp(r) \/ Score(r) \/ Act(r) \/ ResolveRow(r)
                 \/ Kill(r)
        BY <3>1, <4>4
        DEF CheckOpen, InsertSimulated, Skip, DeadLetter, LookupInterp,
            StoreInterp, RereadInterp, Score, Act, AfterAct, ResolveRow, Kill,
            Goto
      <4> QED
        BY <2>2, <4>1, <4>2, <4>3, <4>4 DEF Moves, Step
    <3> QED
      BY <3>2, <3>3 DEF AttemptLeft
  <2> QED
    BY <2>1, <2>2 DEF Next, Moves
<1> QED
  BY <1>1, <1>2, Invariance, PTL DEF Spec

-----------------------------------------------------------------------------
(* The life of the event, as far as its lead and the worklist go           *)

Life == INSTANCE EventLife WITH
          accepted <- version > 0, linked <- version > 0, review <- "none",
          listed <- OpenRows # {}, lead <- lead # 0

\* Statement by statement, with all races for the dead-letter row, an event
\* that was ingested lives the life of EventLife: a run lists it or gives it a
\* lead, and it leaves the worklist only with a lead.
FollowsLife == [][version > 0 => [Life!Next]_(Life!vars)]_vars

\* A run is for some content of the event, and resolves after it has acted.
Began(r) ==
  /\ pc[r] \in Running => run[r].version > 0
  /\ pc[r] = "resolve" => lead # 0

LEMMA BeganStep ==
  ASSUME TypeOK, \A s \in Requests : Began(s), NEW r \in Requests, Moves(r)
  PROVE  \A s \in Requests : Began(s)'
<1>1. /\ pc \in [Requests -> {"idle"} \cup Running \cup Ended]
      /\ run \in [Requests -> Run] /\ version \in Nat
      /\ run[r].version \in Nat /\ Began(r)
  BY DEF TypeOK, Run, Versions
<1>2. lead' = lead \/ Act(r)
  BY Starts
  DEF Moves, Step, FindRow, CheckOpen, InsertSimulated, Skip, Call, DeadLetter,
      LookupInterp, StoreInterp, RereadInterp, Score, ResolveRow, Kill, results
<1>3. Act(r) => lead' = run[r].version /\ run[r].version > 0
  BY <1>1 DEF Act, Began, Running
<1>4. lead # 0 => lead' # 0
  BY <1>1, <1>2, <1>3
<1>5. ASSUME NEW s \in Requests, s # r
      PROVE  Began(s)'
  <2>1. pc'[s] = pc[s] /\ run'[s] = run[s]
    BY <1>1, <1>5, OneMoves
  <2> QED
    BY <1>4, <2>1 DEF Began
<1>6. CASE Submit(r) \/ Resume(r) \/ Replay(r) \/ Simulate(r)
  <2>1. PICK kind \in Kinds, held \in Nat, label \in {"classify", "find", "check"} :
          held > 0 /\ Start(r, kind, held, label)
    BY <1>1, <1>6 DEF Submit, Resume, Replay, Simulate, Kinds
  <2>2. run'[r].version = held /\ pc'[r] = label
    BY <1>1, <2>1 DEF Start, Goto, NoRun
  <2>3. Began(r)'
    BY <2>1, <2>2 DEF Began
  <2> QED
    BY <1>5, <2>3
<1>7. CASE Step(r) \/ Kill(r)
  <2>1. pc[r] \in Running /\ run'[r].version = run[r].version
    BY <1>1, <1>7
    DEF Step, FindRow, CheckOpen, InsertSimulated, Skip, Call, DeadLetter,
        LookupInterp, StoreInterp, RereadInterp, Score, Act, ResolveRow, Kill,
        Running, Run
  <2>2. pc'[r] = "resolve" => Act(r)
    BY <1>1, <1>7
    DEF Step, FindRow, CheckOpen, InsertSimulated, Skip, Call, AfterFailure,
        DeadLetter, LookupInterp, StoreInterp, RereadInterp, Score, ResolveRow,
        Kill, Goto
  <2>3. Began(r)'
    BY <1>1, <1>3, <2>1, <2>2 DEF Began
  <2> QED
    BY <1>5, <2>3
<1> QED
  BY <1>6, <1>7 DEF Moves

\* What a move means to the event.
LEMMA MovesAreLife ==
  ASSUME TypeOK, \A s \in Requests : Began(s), NEW r \in Requests, Moves(r),
         RowOK(r), version > 0
  PROVE  [Life!Next]_(Life!vars)
<1>1. version \in Nat /\ (version' > 0) = TRUE
  BY DEF TypeOK, Versions, Moves, Submit, Resume, Replay, Simulate, Step, Kill,
         FindRow, CheckOpen, InsertSimulated, Skip, Call, DeadLetter,
         LookupInterp, StoreInterp, RereadInterp, Score, Act, ResolveRow
<1>2. (version > 0) = TRUE
  OBVIOUS
<1>3. CASE Act(r)
  <2>1. (lead' # 0) = TRUE
    BY <1>3 DEF Act, Began, TypeOK, Run, Versions, Running
  <2>2. OpenRows' = OpenRows
    BY <1>3 DEF Act, OpenRows
  <2>3. Life!Produce
    BY <1>1, <1>2, <2>1, <2>2 DEF Life!Produce
  <2> QED
    BY <2>3 DEF Life!Next
<1>4. CASE ~Act(r)
  <2>1. lead' = lead
    BY <1>4, Starts
    DEF Moves, Step, FindRow, CheckOpen, InsertSimulated, Skip, Call,
        DeadLetter, LookupInterp, StoreInterp, RereadInterp, Score, ResolveRow,
        Kill, results
  <2>2. CASE (OpenRows' # {}) = (OpenRows # {})
    BY <1>1, <1>2, <2>1, <2>2 DEF Life!vars
  <2>3. CASE OpenRows = {} /\ OpenRows' # {}
    <3>1. Life!List
      BY <1>1, <1>2, <2>1, <2>3 DEF Life!List
    <3> QED
      BY <3>1 DEF Life!Next
  <2>4. CASE OpenRows # {} /\ OpenRows' = {}
    <3>1. pc[r] = "resolve"
      <4>1. ~AddRow /\ ~UNCHANGED dlq
        BY <2>4 DEF AddRow, OpenRows
      <4> QED
        BY <4>1, QueueMoves
    <3>2. lead # 0
      BY <3>1 DEF Began
    <3>3. Life!Unlist
      BY <1>1, <1>2, <2>1, <2>4, <3>2 DEF Life!Unlist
    <3> QED
      BY <3>3 DEF Life!Next
  <2> QED
    BY <2>2, <2>3, <2>4
<1> QED
  BY <1>3, <1>4

\* The requests follow the life of the event from its ingestion on.
THEOREM LifeFollowed == Spec => FollowsLife
<1> DEFINE AllBegan == \A r \in Requests : Began(r)
<1>1. Init => AllBegan
  BY DEF Init, Began, Running
<1>2. IInv /\ AllBegan /\ [Next]_vars => AllBegan'
  <2> SUFFICES ASSUME IInv, AllBegan, [Next]_vars PROVE AllBegan'
    OBVIOUS
  <2>1. CASE UNCHANGED vars
    BY <2>1 DEF vars, results, Began
  <2> QED
    BY <2>1, BeganStep DEF IInv, Next, Moves
<1>3. IInv /\ AllBegan /\ [Next]_vars
        => [version > 0 => [Life!Next]_(Life!vars)]_vars
  BY MovesAreLife DEF IInv, Next, Moves
<1> QED
  BY <1>1, <1>2, <1>3, Invariance, PTL DEF Spec, FollowsLife
=============================================================================
