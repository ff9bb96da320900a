---------------------------- MODULE ResolveProofs ---------------------------
(***************************************************************************)
(* Proofs about Resolve, for any number of requests, events, keys and      *)
(* names.  The invariant says what the place of a request tells of its     *)
(* session and of the tables (Placed), that a key and an entry under       *)
(* review have one holder each (Exclusive), what the rows of an event have *)
(* to do with one another (Table) and what a request can rely on while it  *)
(* has the tables to itself (Alone).                                       *)
(***************************************************************************)
EXTENDS Resolve, FiniteSetTheorems, SequenceTheorems, TLAPS

\* Requests whose transaction is about to write a link: for an event just
\* ingested, and for one under review, whose entry it holds.
Linking(r) == pc[r] \in {"relink", "commit"} /\ run[r].kind = "ingest"
Reviewing(r) == /\ pc[r] \in {"reread", "relink", "commit"}
                /\ run[r].kind = "review"
Inserting(r) == Linking(r) /\ run[r].identity = 0

\* Where resolve_identity is before it has settled on an identity.
Searching == {"lookup", "find", "create", "candidates"}

\* Who made the request, for which event, and what it carries.
Session(r) ==
  /\ pc[r] # "idle" => run[r].event \in Events
  /\ pc[r] \in Searching \cup {"park", "queue"} => run[r].kind = "ingest"
  /\ pc[r] \in {"claim", "reread"} => run[r].kind = "review"
  /\ pc[r] \in {"relink", "commit"} => run[r].kind \in {"ingest", "review"}
  /\ pc[r] \in Searching => run[r].identity = 0
  /\ pc[r] \in {"find", "create"} => run[r].fields.key # None
  /\ pc[r] = "candidates" => run[r].fields.key = None
  /\ pc[r] \in Searching \/ Linking(r) =>
       run[r].fields.key \in keysEver[run[r].event] \cup {None}

\* What the tables hold for it.
Placed(r) ==
  /\ Session(r)
  /\ run[r].identity \in 0 .. Len(identity)
  /\ Linking(r) /\ run[r].identity # 0 =>
       /\ identity[run[r].identity].key = run[r].fields.key
       /\ run[r].fields.key # None
  /\ Inserting(r) /\ run[r].fields.key # None =>
       WithKey(run[r].fields.key) = {}
  /\ Reviewing(r) => review[run[r].event] = "pending"
  /\ pc[r] \in Running /\ run[r].kind = "ingest" =>
       event[run[r].event] \in FieldSet
  /\ pc[r] = "queue" /\ run[r].review # None => review[run[r].event] # None
  /\ pc[r] = "queued" => review[run[r].event] # None
  /\ pc[r] \in {"linked", "lost", "resolved"} => link[run[r].event] # 0
  /\ pc[r] = "commit" /\ run[r].link # 0 =>
       run[r].link <= Len(identity) /\ link[run[r].event] # 0

\* The unique key and the row lock of an entry admit one holder.
Exclusive ==
  /\ \A r, s \in Requests :
       /\ Inserting(r) /\ Inserting(s)
       /\ run[r].fields.key = run[s].fields.key /\ run[r].fields.key # None
       => r = s
  /\ \A r, s \in Requests :
       Reviewing(r) /\ Reviewing(s) /\ run[r].event = run[s].event => r = s

\* The requests that were told they resolved the review of e.
Winners(e) == {r \in Requests : pc[r] = "resolved" /\ run[r].event = e}

\* The rows of an event; and what is counted is finite.
Table ==
  /\ \A e \in Events : link[e] \in 0 .. Len(identity)
  /\ \A e \in Events : review[e] # None => event[e] \in FieldSet
  /\ IsFiniteSet(InReview("pending") \cup InReview("resolved"))
  /\ IsFiniteSet(InReview("resolved"))
  /\ \A e \in Events : IsFiniteSet(Winners(e))

\* What a request has read is still so.
Fresh(r) ==
  /\ pc[r] \notin {"error", "lost"}
  /\ pc[r] \in Running => run[r].beaten = FALSE
  /\ pc[r] = "create" => WithKey(run[r].fields.key) = {}
  /\ pc[r] = "commit" => run[r].link = link[run[r].event]
  /\ pc[r] = "queue" => run[r].review = review[run[r].event]
  /\ Inserting(r) /\ run[r].fields.key = None => Candidates(r) = {}

\* One request at a time, and what it knows is up to date.
Alone ==
  ~overlap => /\ \A r, s \in Busy : r = s
              /\ \A r \in Requests : Fresh(r)

\* Inductive: sessions and tables agree, whoever races.
IInv ==
  /\ TypeOK
  /\ \A r \in Requests : Placed(r)
  /\ Exclusive
  /\ Table
  /\ Alone
  /\ TablesReconcile
  /\ NeverAutoMerged
  /\ OneWinner
  /\ AloneIsUnique

-----------------------------------------------------------------------------
\* Identities are rows.
LEMMA Rows ==
  ASSUME TypeOK, NEW i \in DOMAIN identity
  PROVE  identity[i] \in Identity /\ identity[i].by \in Events
<1>1. identity \in Seq(Identity) /\ i \in 1 .. Len(identity)
  BY LenProperties DEF TypeOK
<1>2. identity[i] \in Identity
  BY <1>1, ElementOfSeq
<1> QED
  BY <1>2 DEF Identity

\* An empty session is one.
LEMMA NoRunType == /\ NoRun \in Run /\ NoRun.identity = 0
                   /\ NoRun.beaten = FALSE /\ NoFields \in FieldSet
BY DEF NoRun, NoFields, Run, FieldSet

\* Empty tables, and nothing running, when the system starts.
LEMMA InitIInv == Init => IInv
<1> SUFFICES ASSUME Init PROVE IInv
  OBVIOUS
<1>1. TypeOK
  <2>1. run \in [Requests -> Run] /\ overlap \in BOOLEAN
    BY NoRunType DEF Init
  <2>2. receipts \in [ActionTypes -> Nat] /\ link \in [Events -> Nat]
    BY DEF Init
  <2>3. identity \in Seq(Identity)
    BY DEF Init
  <2> QED
    BY <2>1, <2>2, <2>3 DEF Init, TypeOK
<1>2. \A r \in Requests : run[r].identity = 0 /\ pc[r] = "idle"
  BY NoRunType DEF Init
<1>3. Len(identity) = 0
  BY DEF Init
<1>4. \A r \in Requests : Placed(r)
  BY <1>2, <1>3
  DEF Placed, Session, Linking, Inserting, Reviewing, Searching, Running
<1>5. Exclusive
  BY <1>2 DEF Exclusive, Inserting, Linking, Reviewing
<1>6. /\ InReview("pending") = {} /\ InReview("resolved") = {}
      /\ \A e \in Events : Winners(e) = {}
  BY <1>2, StatusAssumption DEF Init, InReview, Winners
<1>7. InReview("pending") \cup InReview("resolved") = {}
  BY <1>6
<1>8. Table
  <2>1. \A e \in Events : link[e] \in 0 .. Len(identity) /\ review[e] = None
    BY <1>3 DEF Init
  <2> QED
    BY <2>1, <1>6, <1>7, FS_EmptySet DEF Table
<1>9. Alone
  BY <1>2 DEF Alone, Busy, Fresh, Inserting, Linking, Running
<1>10. TablesReconcile
  <2>1. /\ Cardinality(InReview("resolved")) = 0
        /\ Cardinality(InReview("pending") \cup InReview("resolved")) = 0
    BY <1>6, <1>7, FS_EmptySet
  <2>2. \A t \in ActionTypes : receipts[t] = 0
    BY DEF Init
  <2>3. DOMAIN identity = {}
    BY DEF Init
  <2> QED
    BY <1>3, <2>1, <2>2, <2>3 DEF TablesReconcile, ActionTypes
<1>11. NeverAutoMerged /\ AloneIsUnique
  BY <1>2, <1>3 DEF Init, NeverAutoMerged, AloneIsUnique
<1>12. OneWinner
  <2>1. \A e \in Events : Cardinality(Winners(e)) = 0
    BY <1>6, FS_EmptySet
  <2> QED
    BY <2>1, StatusAssumption DEF Init, OneWinner, Winners
<1> QED
  BY <1>1, <1>4, <1>5, <1>8, <1>9, <1>10, <1>11, <1>12 DEF IInv

\* The sessions of other requests are not touched.
OthersRest(r) == \A s \in Requests : s # r => pc'[s] = pc[s] /\ run'[s] = run[s]

\* A session that is not touched keeps its place while the tables grow.
LEMMA PlacedRests ==
  ASSUME NEW r \in Requests, Placed(r), pc'[r] = pc[r], run'[r] = run[r],
         TypeOK,
         Len(identity) \in Nat /\ Len(identity') \in Nat,
         Len(identity) <= Len(identity'),
         \A i \in 1 .. Len(identity) : identity'[i] = identity[i],
         \A e \in Events :
           /\ keysEver[e] \subseteq keysEver'[e]
           /\ event[e] \in FieldSet => event'[e] \in FieldSet
           /\ review[e] # None => review'[e] # None
           /\ link[e] # 0 => link'[e] # 0,
         Inserting(r) /\ run[r].fields.key # None =>
           WithKey(run[r].fields.key)' = {},
         Reviewing(r) => review'[run[r].event] = "pending"
  PROVE  Placed(r)'
<1>1. /\ Inserting(r)' = Inserting(r) /\ Linking(r)' = Linking(r)
      /\ Reviewing(r)' = Reviewing(r)
  BY DEF Inserting, Linking, Reviewing
<1>2. pc[r] # "idle" => run[r].event \in Events
  BY DEF Placed, Session
<1>3. Session(r)'
  BY <1>1, <1>2 DEF Placed, Session, Searching, Linking
<1>4. /\ run'[r].identity \in 0 .. Len(identity')
      /\ Linking(r)' /\ run'[r].identity # 0 =>
           /\ identity'[run'[r].identity].key = run'[r].fields.key
           /\ run'[r].fields.key # None
  BY <1>1 DEF Placed
<1>5. pc[r] = "commit" /\ run[r].link # 0 =>
        run[r].link <= Len(identity') /\ link'[run[r].event] # 0
  <2>1. run[r].link \in Nat
    BY DEF TypeOK, Run
  <2> QED
    BY <1>2, <2>1 DEF Placed
<1>6. /\ pc[r] = "queue" /\ run[r].review # None => review'[run[r].event] # None
      /\ pc[r] = "queued" => review'[run[r].event] # None
      /\ pc[r] \in {"linked", "lost", "resolved"} => link'[run[r].event] # 0
  BY <1>2 DEF Placed
<1>7. pc[r] \in Running /\ run[r].kind = "ingest" =>
        event'[run[r].event] \in FieldSet
  BY <1>2 DEF Placed, Running
<1> QED
  BY <1>1, <1>3, <1>4, <1>5, <1>6, <1>7 DEF Placed

-----------------------------------------------------------------------------
\* Nobody else comes to hold what r does.
Acquires(r) ==
  /\ Inserting(r)' =>
       \/ Inserting(r) /\ run'[r].fields = run[r].fields
       \/ run'[r].fields.key = None
       \/ Holding(run'[r].fields.key) = {}
  /\ Reviewing(r)' =>
       \/ Reviewing(r) /\ run'[r].event = run[r].event
       \/ Claiming(run'[r].event) = {}

\* What has one holder has one after a step of r.
LEMMA ExclusiveStep ==
  ASSUME Exclusive, NEW r \in Requests, OthersRest(r), Acquires(r)
  PROVE  Exclusive'
<1>1. \A s \in Requests : s # r =>
        /\ Inserting(s)' = Inserting(s) /\ Reviewing(s)' = Reviewing(s)
        /\ run'[s] = run[s]
  BY DEF OthersRest, Inserting, Linking, Reviewing
<1>2. \A s \in Requests :
        Inserting(s) => s \in Holding(run[s].fields.key)
  BY DEF Inserting, Linking, Holding
<1>3. \A s \in Requests : Reviewing(s) => s \in Claiming(run[s].event)
  BY DEF Reviewing, Claiming
<1>4. ASSUME NEW s \in Requests, s # r, Inserting(r)', Inserting(s)',
             run'[r].fields.key = run'[s].fields.key, run'[r].fields.key # None
      PROVE  FALSE
  BY <1>1, <1>2, <1>4 DEF Exclusive, Acquires
<1>5. ASSUME NEW s \in Requests, s # r, Reviewing(r)', Reviewing(s)',
             run'[r].event = run'[s].event
      PROVE  FALSE
  BY <1>1, <1>3, <1>5 DEF Exclusive, Acquires
<1>6. ASSUME NEW s \in Requests, NEW t \in Requests,
             Inserting(s)', Inserting(t)',
             run'[s].fields.key = run'[t].fields.key, run'[s].fields.key # None
      PROVE  s = t
  BY <1>1, <1>4, <1>6 DEF Exclusive
<1>7. ASSUME NEW s \in Requests, NEW t \in Requests,
             Reviewing(s)', Reviewing(t)', run'[s].event = run'[t].event
      PROVE  s = t
  BY <1>1, <1>5, <1>7 DEF Exclusive
<1> QED
  BY <1>6, <1>7 DEF Exclusive

\* A request that starts while another runs ends the quiet.
Overlaps(r) == /\ pc[r] \in {"idle"} \cup Running
               /\ overlap' = (overlap \/ (pc[r] = "idle" /\ Busy # {}))

\* A request alone relies on what it has read itself.
LEMMA AloneStep ==
  ASSUME Alone, NEW r \in Requests, OthersRest(r), Overlaps(r),
         overlap \in BOOLEAN, overlap' = FALSE => Fresh(r)'
  PROVE  Alone'
<1> SUFFICES ASSUME overlap' = FALSE
             PROVE  /\ \A s, t \in Busy' : s = t
                    /\ \A s \in Requests : Fresh(s)'
  BY DEF Alone, Overlaps
<1>1. /\ overlap = FALSE /\ \A s, t \in Busy : s = t
      /\ \A s \in Requests : Fresh(s)
  BY DEF Alone, Overlaps
<1>2. Busy \subseteq {r}
  BY <1>1 DEF Overlaps, Busy
<1>3. ASSUME NEW s \in Requests, s # r
      PROVE  pc'[s] = pc[s] /\ pc[s] \notin Running /\ Fresh(s)
  BY <1>1, <1>2, <1>3 DEF Busy, OthersRest
<1>4. ASSUME NEW s \in Requests, s # r
      PROVE  Fresh(s)'
  BY <1>3, <1>4 DEF Fresh, Inserting, Linking, Running
<1>5. Busy' \subseteq {r}
  BY <1>3 DEF Busy
<1> QED
  BY <1>4, <1>5

\* Steps that write no row of the four tables.
LEMMA QuietStep ==
  ASSUME IInv, NEW r \in Requests, UNCHANGED tables,
         TypeOK', OthersRest(r), Overlaps(r), Acquires(r), Placed(r)',
         \A e \in Events :
           /\ keysEver[e] \subseteq keysEver'[e]
           /\ event[e] \in FieldSet => event'[e] \in FieldSet,
         pc'[r] # "resolved", overlap' = FALSE => Fresh(r)'
  PROVE  IInv'
<1>1. /\ TypeOK /\ Exclusive /\ Table /\ Alone /\ TablesReconcile
      /\ NeverAutoMerged /\ OneWinner /\ AloneIsUnique
      /\ identity' = identity /\ link' = link /\ review' = review
      /\ receipts' = receipts
  BY DEF IInv, tables
<1>2. /\ \A k : WithKey(k)' = WithKey(k)
      /\ \A status : InReview(status)' = InReview(status)
  BY <1>1 DEF WithKey, InReview
<1>3. Len(identity) \in Nat
  BY <1>1, LenProperties DEF TypeOK
<1>4. ASSUME NEW s \in Requests, s # r
      PROVE  Placed(s)'
  <2>1. Placed(s) /\ pc'[s] = pc[s] /\ run'[s] = run[s]
    BY <1>4 DEF IInv, OthersRest
  <2>2. /\ Inserting(s) /\ run[s].fields.key # None =>
             WithKey(run[s].fields.key)' = {}
        /\ Reviewing(s) => review'[run[s].event] = "pending"
    BY <1>1, <1>2, <2>1 DEF Placed
  <2> QED
    BY <1>1, <1>3, <2>1, <2>2, PlacedRests
<1>5. \A e \in Events : Winners(e)' = Winners(e)
  <2>1. pc[r] # "resolved"
    BY DEF Overlaps, Running
  <2> QED
    BY <2>1 DEF Winners, OthersRest
<1>6. Table'
  BY <1>1, <1>2, <1>5 DEF Table
<1>7. TablesReconcile'
  BY <1>1, <1>2 DEF TablesReconcile
<1>8. NeverAutoMerged'
  BY <1>1 DEF NeverAutoMerged
<1>9. OneWinner'
  BY <1>1, <1>5 DEF OneWinner, Winners
<1>10. Exclusive'
  BY <1>1, ExclusiveStep
<1>11. overlap \in BOOLEAN
  BY <1>1 DEF TypeOK
<1>12. Alone'
  BY <1>1, <1>11, AloneStep
<1>13. AloneIsUnique'
  <2> SUFFICES ASSUME overlap' = FALSE PROVE AloneIsUnique'
    BY <1>11 DEF AloneIsUnique, Overlaps
  <2>1. overlap = FALSE
    BY <1>11 DEF Overlaps
  <2>2. \A s \in Requests : pc'[s] \notin {"error", "lost"}
    BY <1>12 DEF Alone, Fresh
  <2> QED
    BY <1>1, <2>1, <2>2 DEF AloneIsUnique
<1> QED
  BY <1>4, <1>6, <1>7, <1>8, <1>9, <1>10, <1>12, <1>13 DEF IInv

-----------------------------------------------------------------------------
\* The keys of the event are recorded as it is ingested.
LEMMA IngestStep ==
  ASSUME IInv, NEW r \in Requests, NEW e \in Events, NEW fields \in FieldSet,
         Ingest(r, e, fields)
  PROVE  IInv'
<1> DEFINE new == [NoRun EXCEPT !.kind = "ingest", !.event = e, !.fields = fields]
<1>1. /\ TypeOK /\ pc[r] = "idle" /\ run' = [run EXCEPT ![r] = new]
      /\ pc' = [pc EXCEPT ![r] = "lookup"] /\ UNCHANGED tables
      /\ event' = [event EXCEPT ![e] = fields]
      /\ keysEver' = [keysEver EXCEPT ![e] = @ \cup ({fields.key} \ {None})]
      /\ Overlaps(r)
  BY DEF IInv, Ingest, Goto, Overlaps
<1>2. /\ new \in Run /\ new.kind = "ingest" /\ new.event = e
      /\ new.fields = fields /\ new.identity = 0
  BY NoRunType DEF Run
<1>3. new.beaten = FALSE
  BY DEF NoRun
<1> HIDE DEF new
<1>4. fields.key \in Keys \cup {None}
  BY DEF FieldSet
<1>5. TypeOK'
  <2>1. /\ event' \in [Events -> FieldSet \cup {None}]
        /\ keysEver' \in [Events -> SUBSET Keys]
    BY <1>1, <1>4 DEF TypeOK
  <2>2. overlap' \in BOOLEAN
    BY <1>1 DEF TypeOK, Overlaps
  <2> QED
    BY <1>1, <1>2, <2>1, <2>2 DEF TypeOK, tables, Running
<1>6. /\ pc'[r] = "lookup" /\ run'[r] = new /\ event'[e] = fields
      /\ keysEver'[e] = keysEver[e] \cup ({fields.key} \ {None})
  BY <1>1 DEF TypeOK
<1>7. OthersRest(r)
  BY <1>1 DEF OthersRest, TypeOK
<1>8. ~Inserting(r)' /\ ~Reviewing(r)' /\ ~Linking(r)'
  BY <1>6 DEF Inserting, Linking, Reviewing
<1>9. Placed(r)'
  <2>1. Len(identity) \in Nat /\ identity' = identity
    BY <1>1, LenProperties DEF TypeOK, tables
  <2>2. Session(r)'
    BY <1>2, <1>4, <1>6, <1>8 DEF Session, Searching
  <2> QED
    BY <1>2, <1>6, <1>8, <2>1, <2>2 DEF Placed
<1>10. \A f \in Events : /\ keysEver[f] \subseteq keysEver'[f]
                         /\ event[f] \in FieldSet => event'[f] \in FieldSet
  BY <1>1 DEF TypeOK
<1>11. Fresh(r)'
  BY <1>2, <1>3, <1>6, <1>8 DEF Fresh, Running
<1> QED
  BY <1>1, <1>5, <1>6, <1>7, <1>8, <1>9, <1>10, <1>11, QuietStep DEF Acquires

\* A review starts from an entry and an identity that exist.
LEMMA OpenReviewStep ==
  ASSUME IInv, NEW r \in Requests, NEW e \in Events,
         NEW target \in {0} \cup DOMAIN identity, OpenReview(r, e, target)
  PROVE  IInv'
<1> DEFINE new == [NoRun EXCEPT !.kind = "review", !.event = e,
                                !.identity = target]
           place == IF review[e] = "pending" THEN "claim" ELSE "conflict"
<1>1. /\ TypeOK /\ pc[r] = "idle" /\ run' = [run EXCEPT ![r] = new]
      /\ pc' = [pc EXCEPT ![r] = place] /\ UNCHANGED <<event, tables, keysEver>>
      /\ Overlaps(r)
  BY DEF IInv, OpenReview, Move, Goto, Overlaps
<1>2. Len(identity) \in Nat /\ target \in 0 .. Len(identity)
  BY <1>1, LenProperties DEF TypeOK
<1>3. /\ new \in Run /\ new.kind = "review" /\ new.event = e
      /\ new.identity = target
  <2>1. target \in Nat
    BY <1>2
  <2> QED
    BY <2>1, NoRunType DEF Run
<1>4. new.beaten = FALSE
  BY DEF NoRun
<1>5. place \in {"claim", "conflict"}
  OBVIOUS
<1> HIDE DEF new, place
<1>6. TypeOK'
  <2>1. overlap' \in BOOLEAN
    BY <1>1 DEF TypeOK, Overlaps
  <2> QED
    BY <1>1, <1>3, <1>5, <2>1 DEF TypeOK, tables, Running, Ended
<1>7. pc'[r] = place /\ run'[r] = new
  BY <1>1 DEF TypeOK
<1>8. OthersRest(r)
  BY <1>1 DEF OthersRest, TypeOK
<1>9. ~Inserting(r)' /\ ~Reviewing(r)' /\ ~Linking(r)'
  BY <1>5, <1>7 DEF Inserting, Linking, Reviewing
<1>10. Placed(r)'
  <2>1. Session(r)'
    BY <1>3, <1>5, <1>7, <1>9 DEF Session, Searching
  <2> QED
    BY <1>1, <1>2, <1>3, <1>5, <1>7, <1>9, <2>1 DEF Placed, tables
<1>11. Fresh(r)'
  BY <1>4, <1>5, <1>7, <1>9 DEF Fresh
<1>12. pc'[r] # "resolved"
  BY <1>5, <1>7
<1> QED
  BY <1>1, <1>6, <1>8, <1>9, <1>10, <1>11, <1>12, QuietStep DEF Acquires

-----------------------------------------------------------------------------
\* A step of a running request that moves it on and changes its session only.
LEMMA MoveStep ==
  ASSUME IInv, NEW r \in Requests, pc[r] \in Running,
         NEW label \in (Running \cup Ended) \ {"resolved"}, NEW new \in Run,
         Move(r, label), run' = [run EXCEPT ![r] = new],
         Acquires(r), Placed(r)', overlap = FALSE => Fresh(r)'
  PROVE  IInv'
<1>1. /\ TypeOK /\ UNCHANGED <<event, tables, keysEver>>
      /\ pc' = [pc EXCEPT ![r] = label] /\ Overlaps(r)
  BY DEF IInv, Move, Goto, Overlaps
<1>2. overlap' \in BOOLEAN /\ (overlap' = FALSE => overlap = FALSE)
  BY <1>1 DEF TypeOK, Overlaps
<1>3. TypeOK'
  BY <1>1, <1>2 DEF TypeOK, tables
<1>4. OthersRest(r) /\ pc'[r] # "resolved"
  BY <1>1 DEF OthersRest, TypeOK
<1> QED
  BY <1>1, <1>2, <1>3, <1>4, QuietStep

\* What such a step leaves as it was.
LEMMA Moved ==
  ASSUME IInv, NEW r \in Requests, NEW label, NEW new, Move(r, label),
         run' = [run EXCEPT ![r] = new]
  PROVE  /\ pc'[r] = label /\ run'[r] = new /\ run[r] \in Run
         /\ event' = event /\ identity' = identity /\ link' = link
         /\ review' = review /\ keysEver' = keysEver
         /\ \A k : WithKey(k)' = WithKey(k)
         /\ Placed(r) /\ Session(r) /\ Len(identity) \in Nat
<1>1. TypeOK
  BY DEF IInv
<1>2. pc'[r] = label /\ run'[r] = new /\ run[r] \in Run
  BY <1>1 DEF Move, Goto, TypeOK
<1>3. /\ event' = event /\ identity' = identity /\ link' = link
      /\ review' = review /\ keysEver' = keysEver
  BY DEF Move, tables
<1> QED
  BY <1>1, <1>2, <1>3, LenProperties DEF IInv, Placed, WithKey, TypeOK

\* run' = run, in the form that MoveStep asks for.
LEMMA SameRun ==
  ASSUME TypeOK, NEW r \in Requests, UNCHANGED run
  PROVE  run' = [run EXCEPT ![r] = run[r]] /\ run[r] \in Run
BY DEF TypeOK

\* The rule is chosen by what the event carries.
LEMMA LookupLinkStep ==
  ASSUME IInv, NEW r \in Requests, LookupLink(r)
  PROVE  IInv'
<1> DEFINE label == IF link[run[r].event] # 0 THEN "linked" ELSE Rule(run[r].fields)
<1>1. TypeOK /\ pc[r] = "lookup" /\ Move(r, label) /\ UNCHANGED run
  BY DEF IInv, LookupLink
<1>2. run' = [run EXCEPT ![r] = run[r]] /\ run[r] \in Run
  BY <1>1, SameRun
<1>3. /\ label \in {"linked", "find", "candidates", "park"}
      /\ label = "linked" => link[run[r].event] # 0
      /\ label = "find" => run[r].fields.key # None
      /\ label = "candidates" => run[r].fields.key = None
  BY DEF Rule
<1> HIDE DEF label
<1>4. /\ pc'[r] = label /\ run'[r] = run[r]
      /\ event' = event /\ identity' = identity /\ link' = link
      /\ review' = review /\ keysEver' = keysEver
      /\ Placed(r) /\ Session(r)
  BY <1>1, <1>2, Moved
<1>5. /\ ~Inserting(r)' /\ ~Reviewing(r)' /\ ~Linking(r)'
  BY <1>3, <1>4 DEF Inserting, Linking, Reviewing
<1>6. Session(r)'
  BY <1>1, <1>3, <1>4, <1>5 DEF Session, Searching
<1>7. Placed(r)'
  BY <1>1, <1>3, <1>4, <1>5, <1>6 DEF Placed, Session, Running, Searching
<1>8. overlap = FALSE => Fresh(r)'
  BY <1>1, <1>3, <1>4, <1>5 DEF IInv, Alone, Fresh, Running
<1>9. label \in (Running \cup Ended) \ {"resolved"} /\ pc[r] \in Running
  BY <1>1, <1>3 DEF Running, Ended
<1> QED
  BY <1>1, <1>2, <1>5, <1>7, <1>8, <1>9, MoveStep DEF Acquires

\* The identity that is found holds the key of the event.
LEMMA FindKeyStep ==
  ASSUME IInv, NEW r \in Requests, FindKey(r)
  PROVE  IInv'
<1>1. /\ TypeOK /\ pc[r] = "find" /\ pc[r] \in Running
      /\ \A label : label \in {"create", "relink"} =>
           label \in (Running \cup Ended) \ {"resolved"}
  BY DEF IInv, FindKey, Running, Ended
<1>2. CASE /\ WithKey(run[r].fields.key) = {} /\ Move(r, "create")
           /\ UNCHANGED run
  <2>1. run' = [run EXCEPT ![r] = run[r]] /\ run[r] \in Run
    BY <1>1, <1>2, SameRun
  <2>2. /\ pc'[r] = "create" /\ run'[r] = run[r]
        /\ event' = event /\ identity' = identity /\ link' = link
        /\ review' = review /\ keysEver' = keysEver
        /\ \A k : WithKey(k)' = WithKey(k)
        /\ Placed(r) /\ Session(r)
    BY <1>2, <2>1, Moved
  <2>3. /\ ~Inserting(r)' /\ ~Reviewing(r)' /\ ~Linking(r)'
    BY <2>2 DEF Inserting, Linking, Reviewing
  <2>4. Placed(r)'
    BY <1>1, <2>2, <2>3 DEF Placed, Session, Running, Searching
  <2>5. overlap = FALSE => Fresh(r)'
    BY <1>1, <1>2, <2>2, <2>3 DEF IInv, Alone, Fresh, Running
  <2> QED
    BY <1>1, <1>2, <2>1, <2>3, <2>4, <2>5, MoveStep DEF Acquires
<1>3. ASSUME NEW i \in WithKey(run[r].fields.key), Move(r, "relink"),
             run' = [run EXCEPT ![r].identity = i]
      PROVE  IInv'
  <2> DEFINE new == [run[r] EXCEPT !.identity = i]
  <2>1. run' = [run EXCEPT ![r] = new] /\ run[r] \in Run
    BY <1>1, <1>3 DEF TypeOK
  <2>2. i \in 1 .. Len(identity) /\ identity[i].key = run[r].fields.key
    BY <1>1, <1>3, LenProperties DEF WithKey, TypeOK
  <2>3. Len(identity) \in Nat
    BY <1>1, LenProperties DEF TypeOK
  <2>4. /\ new \in Run /\ new.identity = i /\ new.kind = run[r].kind
        /\ new.event = run[r].event /\ new.fields = run[r].fields
    BY <2>1, <2>2, <2>3 DEF Run
  <2>5. new.beaten = run[r].beaten
    BY <2>1 DEF Run
  <2> HIDE DEF new
  <2>6. /\ pc'[r] = "relink" /\ run'[r] = new
        /\ event' = event /\ identity' = identity /\ link' = link
        /\ review' = review /\ keysEver' = keysEver
        /\ Placed(r) /\ Session(r)
    BY <1>3, <2>1, Moved
  <2>7. ~Inserting(r)' /\ ~Reviewing(r)'
    BY <1>1, <2>2, <2>3, <2>4, <2>6
    DEF Inserting, Linking, Reviewing, Session, Searching
  <2>8. Session(r)'
    BY <1>1, <2>4, <2>6 DEF Session, Searching
  <2>9. Placed(r)'
    BY <1>1, <2>2, <2>3, <2>4, <2>6, <2>7, <2>8
    DEF Placed, Session, Running, Searching
  <2>10. overlap = FALSE => Fresh(r)'
    BY <1>1, <2>5, <2>6, <2>7 DEF IInv, Alone, Fresh, Running
  <2> QED
    BY <1>1, <1>3, <2>1, <2>4, <2>7, <2>9, <2>10, MoveStep DEF Acquires
<1> QED
  BY <1>2, <1>3 DEF FindKey

\* Whoever inserts finds the key free and nobody else inserting it.
LEMMA CreateWithKeyStep ==
  ASSUME IInv, NEW r \in Requests, CreateWithKey(r)
  PROVE  IInv'
<1>1. /\ TypeOK /\ pc[r] = "create" /\ pc[r] \in Running
      /\ "relink" \in (Running \cup Ended) \ {"resolved"}
      /\ Holding(run[r].fields.key) = {} /\ Move(r, "relink")
  BY DEF IInv, CreateWithKey, Running, Ended
<1>2. CASE WithKey(run[r].fields.key) = {} /\ UNCHANGED run
  <2>1. run' = [run EXCEPT ![r] = run[r]] /\ run[r] \in Run
    BY <1>1, <1>2, SameRun
  <2>2. /\ pc'[r] = "relink" /\ run'[r] = run[r]
        /\ event' = event /\ identity' = identity /\ link' = link
        /\ review' = review /\ keysEver' = keysEver
        /\ \A k : WithKey(k)' = WithKey(k)
        /\ Placed(r) /\ Session(r)
    BY <1>1, <2>1, Moved
  <2>3. ~Reviewing(r)'
    BY <1>1, <2>2 DEF Reviewing, Session, Searching
  <2>4. Placed(r)'
    BY <1>1, <1>2, <2>2, <2>3 DEF Placed, Session, Running, Searching
  <2>5. overlap = FALSE => Fresh(r)'
    BY <1>1, <2>2 DEF IInv, Alone, Fresh, Running, Session, Searching
  <2> QED
    BY <1>1, <1>2, <2>1, <2>2, <2>3, <2>4, <2>5, MoveStep DEF Acquires
<1>3. ASSUME NEW i \in WithKey(run[r].fields.key),
             run' = [run EXCEPT ![r].identity = i, ![r].beaten = TRUE]
      PROVE  IInv'
  <2> DEFINE new == [run[r] EXCEPT !.identity = i, !.beaten = TRUE]
  <2>1. run' = [run EXCEPT ![r] = new] /\ run[r] \in Run
    BY <1>1, <1>3 DEF TypeOK
  <2>2. i \in 1 .. Len(identity) /\ identity[i].key = run[r].fields.key
    BY <1>1, <1>3, LenProperties DEF WithKey, TypeOK
  <2>3. Len(identity) \in Nat
    BY <1>1, LenProperties DEF TypeOK
  <2>4. /\ new \in Run /\ new.identity = i /\ new.kind = run[r].kind
        /\ new.event = run[r].event /\ new.fields = run[r].fields
    <3>1. i \in Nat
      BY <2>2, <2>3
    <3>2. new \in Run
      BY <2>1, <3>1 DEF Run
    <3> QED
      BY <2>1, <3>2 DEF Run
  <2> HIDE DEF new
  <2>5. /\ pc'[r] = "relink" /\ run'[r] = new
        /\ event' = event /\ identity' = identity /\ link' = link
        /\ review' = review /\ keysEver' = keysEver
        /\ Placed(r) /\ Session(r)
    BY <1>1, <2>1, Moved
  <2>6. ~Inserting(r)' /\ ~Reviewing(r)'
    BY <1>1, <2>2, <2>3, <2>4, <2>5
    DEF Inserting, Linking, Reviewing, Session, Searching
  <2>7. Session(r)'
    BY <1>1, <2>4, <2>5 DEF Session, Searching
  <2>8. Placed(r)'
    BY <1>1, <2>2, <2>3, <2>4, <2>5, <2>6, <2>7
    DEF Placed, Session, Running, Searching
  <2>9. overlap # FALSE
    BY <1>1, <1>3 DEF IInv, Alone, Fresh
  <2> QED
    BY <1>1, <2>1, <2>4, <2>6, <2>8, <2>9, MoveStep DEF Acquires
<1> QED
  BY <1>2, <1>3 DEF CreateWithKey

\* Only an event that nothing resembles goes on to an identity of its own.
LEMMA FindCandidateStep ==
  ASSUME IInv, NEW r \in Requests, FindCandidate(r)
  PROVE  IInv'
<1> DEFINE label == IF Candidates(r) = {} THEN "relink" ELSE "park"
<1>1. /\ TypeOK /\ pc[r] = "candidates" /\ pc[r] \in Running
      /\ Move(r, label) /\ UNCHANGED run
  BY DEF IInv, FindCandidate, Running
<1>2. label \in {"relink", "park"} /\ (label = "relink" => Candidates(r) = {})
  OBVIOUS
<1> HIDE DEF label
<1>3. label \in (Running \cup Ended) \ {"resolved"}
  BY <1>2 DEF Running
<1>4. run' = [run EXCEPT ![r] = run[r]] /\ run[r] \in Run
  BY <1>1, SameRun
<1>5. /\ pc'[r] = label /\ run'[r] = run[r]
      /\ event' = event /\ identity' = identity /\ link' = link
      /\ review' = review /\ keysEver' = keysEver
      /\ Placed(r) /\ Session(r)
  BY <1>1, <1>4, Moved
<1>6. ~Reviewing(r)' /\ run[r].fields.key = None
  BY <1>1, <1>2, <1>5 DEF Reviewing, Session, Searching
<1>7. Placed(r)'
  BY <1>1, <1>2, <1>5, <1>6 DEF Placed, Session, Running, Searching, Linking
<1>8. overlap = FALSE => Fresh(r)'
  <2>1. Candidates(r)' = Candidates(r)
    BY <1>5 DEF Candidates
  <2>2. Inserting(r)' => Candidates(r) = {}
    BY <1>2, <1>5 DEF Inserting, Linking
  <2> QED
    BY <1>1, <1>2, <1>5, <2>1, <2>2 DEF IInv, Alone, Fresh
<1> QED
  BY <1>1, <1>3, <1>4, <1>5, <1>6, <1>7, <1>8, MoveStep DEF Acquires

\* The session remembers whether there is an entry.
LEMMA SelectReviewStep ==
  ASSUME IInv, NEW r \in Requests, SelectReview(r)
  PROVE  IInv'
<1> DEFINE new == [run[r] EXCEPT !.review = review[run[r].event]]
<1>1. /\ TypeOK /\ pc[r] = "park" /\ pc[r] \in Running
      /\ "queue" \in (Running \cup Ended) \ {"resolved"}
      /\ Move(r, "queue") /\ run' = [run EXCEPT ![r] = new] /\ run[r] \in Run
  BY DEF IInv, SelectReview, Running, TypeOK
<1>2. /\ pc'[r] = "queue" /\ run'[r] = new
      /\ event' = event /\ identity' = identity /\ link' = link
      /\ review' = review /\ keysEver' = keysEver
      /\ Placed(r) /\ Session(r)
  BY <1>1, Moved
<1>3. /\ new \in Run /\ new.identity = run[r].identity
      /\ new.kind = run[r].kind /\ new.event = run[r].event
      /\ new.fields = run[r].fields /\ new.review = review[run[r].event]
  BY <1>1, <1>2 DEF Run, Session, TypeOK
<1>4. new.beaten = run[r].beaten
  BY <1>1 DEF Run
<1> HIDE DEF new
<1>5. ~Inserting(r)' /\ ~Reviewing(r)' /\ ~Linking(r)'
  BY <1>2 DEF Inserting, Linking, Reviewing
<1>6. Placed(r)'
  BY <1>1, <1>2, <1>3, <1>5 DEF Placed, Session, Running, Searching
<1>7. overlap = FALSE => Fresh(r)'
  BY <1>1, <1>2, <1>3, <1>4, <1>5 DEF IInv, Alone, Fresh
<1> QED
  BY <1>1, <1>3, <1>5, <1>6, <1>7, MoveStep DEF Acquires

\* Who claims a pending entry holds it alone.
LEMMA ClaimStep ==
  ASSUME IInv, NEW r \in Requests, Claim(r)
  PROVE  IInv'
<1> DEFINE label == IF ~Claimable(run[r].event) THEN "conflict"
                    ELSE IF run[r].identity = 0 THEN "reread" ELSE "relink"
<1>1. /\ TypeOK /\ pc[r] = "claim" /\ pc[r] \in Running
      /\ Claiming(run[r].event) = {} /\ Move(r, label) /\ UNCHANGED run
  BY DEF IInv, Claim, Running
<1>2. /\ label \in {"conflict", "reread", "relink"}
      /\ label # "conflict" => review[run[r].event] = "pending"
  BY DEF Claimable
<1> HIDE DEF label
<1>3. label \in (Running \cup Ended) \ {"resolved"}
  BY <1>2 DEF Running, Ended
<1>4. run' = [run EXCEPT ![r] = run[r]] /\ run[r] \in Run
  BY <1>1, SameRun
<1>5. /\ pc'[r] = label /\ run'[r] = run[r]
      /\ event' = event /\ identity' = identity /\ link' = link
      /\ review' = review /\ keysEver' = keysEver
      /\ Placed(r) /\ Session(r)
  BY <1>1, <1>4, Moved
<1>6. run[r].kind = "review" /\ ~Inserting(r)' /\ ~Linking(r)'
  BY <1>1, <1>5 DEF Session, Inserting, Linking
<1>7. Placed(r)'
  BY <1>1, <1>2, <1>5, <1>6 DEF Placed, Session, Running, Searching, Reviewing
<1>8. overlap = FALSE => Fresh(r)'
  BY <1>1, <1>2, <1>5, <1>6 DEF IInv, Alone, Fresh
<1> QED
  BY <1>1, <1>3, <1>4, <1>5, <1>6, <1>7, <1>8, MoveStep DEF Acquires

\* An event under review has been ingested, so there are fields to read.
LEMMA RereadEventStep ==
  ASSUME IInv, NEW r \in Requests, RereadEvent(r)
  PROVE  IInv'
<1> DEFINE new == [run[r] EXCEPT !.fields = event[run[r].event]]
<1>1. /\ TypeOK /\ pc[r] = "reread" /\ pc[r] \in Running
      /\ "relink" \in (Running \cup Ended) \ {"resolved"}
      /\ Move(r, "relink") /\ run' = [run EXCEPT ![r] = new] /\ run[r] \in Run
  BY DEF IInv, RereadEvent, Running, TypeOK
<1>2. /\ pc'[r] = "relink" /\ run'[r] = new
      /\ event' = event /\ identity' = identity /\ link' = link
      /\ review' = review /\ keysEver' = keysEver
      /\ Placed(r) /\ Session(r)
  BY <1>1, Moved
<1>3. /\ run[r].kind = "review" /\ run[r].event \in Events
      /\ Reviewing(r) /\ review[run[r].event] = "pending"
  BY <1>1, <1>2 DEF Session, Reviewing, Placed
<1>4. event[run[r].event] \in FieldSet
  BY <1>3, StatusAssumption DEF IInv, Table
<1>5. /\ new \in Run /\ new.identity = run[r].identity
      /\ new.kind = run[r].kind /\ new.event = run[r].event
  BY <1>1, <1>4 DEF Run
<1>6. new.beaten = run[r].beaten
  BY <1>1 DEF Run
<1> HIDE DEF new
<1>7. ~Inserting(r)' /\ ~Linking(r)'
  BY <1>2, <1>3, <1>5 DEF Inserting, Linking
<1>8. Placed(r)'
  BY <1>1, <1>2, <1>3, <1>5, <1>7
  DEF Placed, Session, Running, Searching, Reviewing
<1>9. overlap = FALSE => Fresh(r)'
  BY <1>1, <1>2, <1>5, <1>6, <1>7 DEF IInv, Alone, Fresh
<1> QED
  BY <1>1, <1>2, <1>3, <1>5, <1>7, <1>8, <1>9, MoveStep DEF Acquires

\* The session remembers whether there is a link.
LEMMA SelectLinkStep ==
  ASSUME IInv, NEW r \in Requests, SelectLink(r)
  PROVE  IInv'
<1> DEFINE new == [run[r] EXCEPT !.link = link[run[r].event]]
<1>1. /\ TypeOK /\ pc[r] = "relink" /\ pc[r] \in Running
      /\ "commit" \in (Running \cup Ended) \ {"resolved"}
      /\ Move(r, "commit") /\ run' = [run EXCEPT ![r] = new] /\ run[r] \in Run
  BY DEF IInv, SelectLink, Running, TypeOK
<1>2. /\ pc'[r] = "commit" /\ run'[r] = new
      /\ event' = event /\ identity' = identity /\ link' = link
      /\ review' = review /\ keysEver' = keysEver
      /\ \A k : WithKey(k)' = WithKey(k)
      /\ Placed(r) /\ Session(r)
  BY <1>1, Moved
<1>3. link[run[r].event] \in Nat
  BY <1>1, <1>2 DEF TypeOK, Session
<1>4. /\ new \in Run /\ new.identity = run[r].identity
      /\ new.kind = run[r].kind /\ new.event = run[r].event
      /\ new.fields = run[r].fields /\ new.link = link[run[r].event]
  BY <1>1, <1>3 DEF Run
<1>5. new.beaten = run[r].beaten
  BY <1>1 DEF Run
<1> HIDE DEF new
<1>6. /\ Inserting(r)' = Inserting(r) /\ Linking(r)' = Linking(r)
      /\ Reviewing(r)' = Reviewing(r)
  BY <1>1, <1>2, <1>4 DEF Inserting, Linking, Reviewing
<1>7. Session(r)'
  BY <1>1, <1>2, <1>4, <1>6 DEF Session, Searching
<1>8. Placed(r)'
  <2>1. run[r].event \in Events /\ Table /\ Len(identity) \in Nat
    BY <1>1, <1>2, Moved DEF IInv, Session
  <2>2. link[run[r].event] <= Len(identity)
    BY <2>1 DEF Table
  <2> QED
    BY <1>1, <1>2, <1>4, <1>6, <1>7, <2>2 DEF Placed, Running
<1>9. overlap = FALSE => Fresh(r)'
  <2>1. Candidates(r)' = Candidates(r)
    BY <1>2, <1>4 DEF Candidates
  <2> QED
    BY <1>1, <1>2, <1>4, <1>5, <1>6, <2>1 DEF IInv, Alone, Fresh
<1> QED
  BY <1>1, <1>2, <1>4, <1>6, <1>8, <1>9, MoveStep DEF Acquires

\* A request that dies lets go of what it held.
LEMMA KillStep ==
  ASSUME IInv, NEW r \in Requests, Kill(r)
  PROVE  IInv'
<1>1. /\ TypeOK /\ pc[r] \in Running /\ Move(r, "killed") /\ UNCHANGED run
      /\ "killed" \in (Running \cup Ended) \ {"resolved"}
  BY DEF IInv, Kill, Ended
<1>2. run' = [run EXCEPT ![r] = run[r]] /\ run[r] \in Run
  BY <1>1, SameRun
<1>3. /\ pc'[r] = "killed" /\ run'[r] = run[r]
      /\ event' = event /\ identity' = identity /\ link' = link
      /\ review' = review /\ keysEver' = keysEver
      /\ Placed(r) /\ Session(r)
  BY <1>1, <1>2, Moved
<1>4. ~Inserting(r)' /\ ~Reviewing(r)' /\ ~Linking(r)'
  BY <1>3 DEF Inserting, Linking, Reviewing
<1>5. Placed(r)'
  BY <1>1, <1>3, <1>4 DEF Placed, Session, Running, Searching
<1>6. Fresh(r)'
  BY <1>3, <1>4 DEF Fresh, Running
<1> QED
  BY <1>1, <1>2, <1>4, <1>5, <1>6, MoveStep DEF Acquires

-----------------------------------------------------------------------------
\* What is left to show of a step that writes, besides what it installs.
LEMMA WriteStep ==
  ASSUME IInv, NEW r \in Requests, OthersRest(r), Overlaps(r), Acquires(r),
         pc[r] \in Running, TypeOK', Placed(r)', UNCHANGED <<event, keysEver>>,
         Len(identity') \in Nat, Len(identity) <= Len(identity'),
         \A i \in 1 .. Len(identity) : identity'[i] = identity[i],
         \A e \in Events : /\ review[e] # None => review'[e] # None
                           /\ link[e] # 0 => link'[e] # 0,
         \A s \in Requests \ {r} :
           /\ Inserting(s) /\ run[s].fields.key # None =>
                WithKey(run[s].fields.key)' = {}
           /\ Reviewing(s) => review'[run[s].event] = "pending",
         overlap' = FALSE => Fresh(r)',
         Table', TablesReconcile', NeverAutoMerged', OneWinner',
         overlap' = FALSE =>
           \A i, j \in DOMAIN identity' :
             (i < j /\ identity'[j].key = None /\ review'[identity'[j].by] = None)
               => <<identity'[j].name, identity'[i].name>> \notin Alike
  PROVE  IInv'
<1>1. TypeOK /\ Len(identity) \in Nat /\ overlap \in BOOLEAN
  BY LenProperties DEF IInv, TypeOK
<1>2. ASSUME NEW s \in Requests, s # r
      PROVE  Placed(s)'
  <2>1. Placed(s) /\ pc'[s] = pc[s] /\ run'[s] = run[s]
    BY <1>2 DEF IInv, OthersRest
  <2> QED
    BY <1>1, <1>2, <2>1, PlacedRests
<1>3. Exclusive'
  BY ExclusiveStep DEF IInv
<1>4. Alone'
  BY <1>1, AloneStep DEF IInv
<1>5. AloneIsUnique'
  BY <1>1, <1>4 DEF AloneIsUnique, Alone, Fresh, Overlaps
<1> QED
  BY <1>2, <1>3, <1>4, <1>5 DEF IInv

\* An entry is there for every event that was told to be parked.
LEMMA QueueReviewStep ==
  ASSUME IInv, NEW r \in Requests, QueueReview(r)
  PROVE  IInv'
<1> DEFINE e == run[r].event
<1>1. /\ TypeOK /\ Table /\ Placed(r) /\ Session(r) /\ pc[r] = "queue"
      /\ pc[r] \in Running /\ e \in Events
      /\ UNCHANGED <<event, identity, link, keysEver, run>>
      /\ TablesReconcile /\ NeverAutoMerged /\ OneWinner /\ Exclusive
  BY DEF IInv, QueueReview, Running, Placed, Session
<1>2. run' = [run EXCEPT ![r] = run[r]] /\ run[r] \in Run
  BY <1>1, SameRun
<1>3. ASSUME NEW label \in {"queued", "error"}, Goto(r, label),
             UNCHANGED <<review, receipts>>,
             label = "queued" => run[r].review # None,
             label = "error" => run[r].review # review[e]
      PROVE  IInv'
  <2>1. Move(r, label) /\ label \in (Running \cup Ended) \ {"resolved"}
    BY <1>1, <1>3 DEF Move, tables, Ended
  <2>2. /\ pc'[r] = label /\ run'[r] = run[r]
        /\ event' = event /\ identity' = identity /\ link' = link
        /\ review' = review /\ keysEver' = keysEver
        /\ Placed(r) /\ Session(r)
    BY <1>2, <2>1, Moved
  <2>3. ~Inserting(r)' /\ ~Reviewing(r)' /\ ~Linking(r)'
    BY <2>2 DEF Inserting, Linking, Reviewing
  <2>4. Placed(r)'
    BY <1>1, <1>3, <2>2, <2>3 DEF Placed, Session, Running, Searching
  <2>5. overlap = FALSE => Fresh(r)'
    BY <1>1, <1>3, <2>2, <2>3 DEF IInv, Alone, Fresh, Running
  <2> QED
    BY <1>1, <1>2, <2>1, <2>3, <2>4, <2>5, MoveStep DEF Acquires
<1>4. CASE /\ run[r].review = None /\ review[e] = None
           /\ review' = [review EXCEPT ![e] = "pending"]
           /\ receipts' = [receipts EXCEPT !["review_queued"] = @ + 1]
           /\ Goto(r, "queued")
  <2>1. /\ pc' = [pc EXCEPT ![r] = "queued"] /\ Overlaps(r)
        /\ pc'[r] = "queued" /\ run' = run
    BY <1>1, <1>4 DEF Goto, Overlaps, TypeOK
  <2>2. /\ review'[e] = "pending"
        /\ \A f \in Events : f # e => review'[f] = review[f]
        /\ receipts'["review_queued"] = receipts["review_queued"] + 1
        /\ receipts'["review_resolved"] = receipts["review_resolved"]
        /\ receipts'["identity_created"] = receipts["identity_created"]
    BY <1>1, <1>4 DEF TypeOK, ActionTypes
  <2>3. TypeOK'
    <3>1. receipts' \in [ActionTypes -> Nat]
      BY <1>1, <1>4 DEF TypeOK, ActionTypes
    <3>2. /\ pc' \in [Requests -> {"idle"} \cup Running \cup Ended]
          /\ overlap' \in BOOLEAN
      BY <1>1, <2>1 DEF TypeOK, Overlaps, Ended
    <3> QED
      BY <1>1, <1>4, <3>1, <3>2 DEF TypeOK
  <2>4. OthersRest(r)
    BY <1>1, <2>1 DEF OthersRest, TypeOK
  <2>5. /\ ~Inserting(r)' /\ ~Reviewing(r)' /\ ~Linking(r)'
    BY <2>1 DEF Inserting, Linking, Reviewing
  <2>6. Placed(r)'
    BY <1>1, <2>1, <2>2, <2>5, StatusAssumption
    DEF Placed, Session, Running, Searching
  <2>7. \A k : WithKey(k)' = WithKey(k)
    BY <1>1 DEF WithKey
  <2>8. \A s \in Requests \ {r} :
          /\ Inserting(s) /\ run[s].fields.key # None =>
               WithKey(run[s].fields.key)' = {}
          /\ Reviewing(s) => review'[run[s].event] = "pending"
    <3> SUFFICES ASSUME NEW s \in Requests \ {r}
                 PROVE  /\ Inserting(s) /\ run[s].fields.key # None =>
                             WithKey(run[s].fields.key)' = {}
                        /\ Reviewing(s) => review'[run[s].event] = "pending"
      OBVIOUS
    <3>1. Placed(s)
      BY DEF IInv
    <3>2. Reviewing(s) => run[s].event \in Events
      BY <3>1 DEF Placed, Session, Reviewing
    <3>3. Inserting(s) /\ run[s].fields.key # None =>
            WithKey(run[s].fields.key)' = {}
      BY <2>1, <2>7, <3>1 DEF Placed
    <3>4. Reviewing(s) => review[run[s].event] = "pending"
      BY <3>1 DEF Placed
    <3>5. \A f \in Events : review[f] = "pending" => review'[f] = "pending"
      BY <2>2
    <3> QED
      BY <3>2, <3>3, <3>4, <3>5
  <2>9. overlap' = FALSE => Fresh(r)'
    BY <2>1, <2>5 DEF Fresh, Running
  <2>10. /\ InReview("resolved")' = InReview("resolved")
         /\ InReview("pending")' \cup InReview("resolved")'
              = (InReview("pending") \cup InReview("resolved")) \cup {e}
         /\ e \notin InReview("pending") \cup InReview("resolved")
    BY <1>1, <1>4, <2>2, StatusAssumption DEF InReview
  <2>11. \A f \in Events : Winners(f)' = Winners(f)
    BY <1>1, <2>1 DEF Winners, TypeOK
  <2>12. Table'
    <3>1. event[e] \in FieldSet
      BY <1>1 DEF Placed, Session
    <3>2. \A f \in Events : review'[f] # None => event'[f] \in FieldSet
      BY <1>1, <2>2, <3>1 DEF Table
    <3>3. IsFiniteSet(InReview("pending")' \cup InReview("resolved")')
      BY <1>1, <2>10, FS_AddElement DEF Table
    <3> QED
      BY <1>1, <2>10, <2>11, <3>2, <3>3 DEF Table
  <2>13. TablesReconcile'
    <3>1. Cardinality(InReview("pending")' \cup InReview("resolved")')
            = Cardinality(InReview("pending") \cup InReview("resolved")) + 1
      BY <1>1, <2>10, FS_AddElement DEF Table
    <3> QED
      BY <1>1, <2>2, <2>10, <3>1 DEF TablesReconcile
  <2>14. NeverAutoMerged'
    BY <1>1, <1>4, <2>2, StatusAssumption DEF NeverAutoMerged
  <2>15. OneWinner'
    BY <1>1, <1>4, <2>2, <2>11, StatusAssumption DEF OneWinner, Winners
  <2>16. Len(identity') \in Nat /\ identity' = identity
    BY <1>1, LenProperties DEF TypeOK
  <2>17. \A f \in Events : review[f] # None => review'[f] # None
    BY <2>2, StatusAssumption
  <2>18. overlap' = FALSE =>
           \A i, j \in DOMAIN identity' :
             (i < j /\ identity'[j].key = None /\ review'[identity'[j].by] = None)
               => <<identity'[j].name, identity'[i].name>> \notin Alike
    <3>1. \A j \in DOMAIN identity : identity[j].by \in Events
      BY <1>1, Rows
    <3>2. overlap' = FALSE => overlap = FALSE
      BY <1>1, <2>1 DEF Overlaps, TypeOK
    <3> QED
      BY <2>16, <2>17, <3>1, <3>2 DEF IInv, AloneIsUnique
  <2>19. /\ UNCHANGED <<event, keysEver>> /\ Acquires(r)
         /\ Len(identity) <= Len(identity')
         /\ \A i \in 1 .. Len(identity) : identity'[i] = identity[i]
         /\ \A f \in Events : /\ review[f] # None => review'[f] # None
                              /\ link[f] # 0 => link'[f] # 0
    BY <1>1, <2>5, <2>16, <2>17 DEF Acquires
  <2> QED
    BY <1>1, <2>1, <2>3, <2>4, <2>6, <2>8, <2>9, <2>12, <2>13, <2>14, <2>15,
       <2>16, <2>18, <2>19, WriteStep
<1> QED
  BY <1>3, <1>4 DEF QueueReview

-----------------------------------------------------------------------------
\* The commit of a request that lost no race for the link.
Installing(r) ==
  /\ pc[r] = "commit" /\ Goto(r, Outcome(r)) /\ Install(r)
  /\ UNCHANGED <<event, keysEver, run>>

\* The row an installing request works for, and where its session stands.
LEMMA Installer ==
  ASSUME IInv, NEW r \in Requests, Installing(r)
  PROVE  /\ TypeOK /\ Placed(r) /\ Session(r) /\ pc[r] \in Running
         /\ run[r] \in Run /\ run[r].event \in Events
         /\ run[r].identity \in 0 .. Len(identity) /\ Len(identity) \in Nat
         /\ \/ run[r].kind = "review" /\ Reviewing(r) /\ ~Linking(r)
               /\ review[run[r].event] = "pending"
            \/ run[r].kind = "ingest" /\ Linking(r)
<1>1. TypeOK /\ Placed(r) /\ pc[r] = "commit"
  BY DEF IInv, Installing
<1>2. Session(r) /\ run[r].identity \in 0 .. Len(identity)
  BY <1>1 DEF Placed
<1>3. run[r] \in Run /\ Len(identity) \in Nat /\ pc[r] \in Running
  BY <1>1, LenProperties DEF TypeOK, Running
<1>4. run[r].event \in Events /\ run[r].kind \in {"ingest", "review"}
  BY <1>1, <1>2 DEF Session
<1>5. CASE run[r].kind = "review"
  <2>1. Reviewing(r) /\ ~Linking(r)
    BY <1>1, <1>5 DEF Reviewing, Linking
  <2> QED
    BY <1>1, <1>2, <1>3, <1>4, <1>5, <2>1 DEF Placed
<1>6. CASE run[r].kind = "ingest"
  BY <1>1, <1>2, <1>3, <1>4, <1>6 DEF Linking
<1> QED
  BY <1>4, <1>5, <1>6

\* The identity that is installed, at the end of those that were there.
LEMMA InstalledIdentity ==
  ASSUME IInv, NEW r \in Requests, Installing(r)
  PROVE  /\ identity' \in Seq(Identity) /\ Len(identity') \in Nat
         /\ Len(identity) <= Len(identity')
         /\ \A i \in 1 .. Len(identity) : identity'[i] = identity[i]
         /\ run[r].identity # 0 => identity' = identity
         /\ run[r].identity = 0 =>
              /\ Len(identity') = Len(identity) + 1
              /\ identity'[Len(identity) + 1] = Created(r)
<1>1. /\ TypeOK /\ run[r] \in Run /\ run[r].event \in Events
      /\ Len(identity) \in Nat
  BY Installer
<1>2. identity \in Seq(Identity)
  BY <1>1 DEF TypeOK
<1>3. CASE run[r].identity # 0
  BY <1>1, <1>2, <1>3 DEF Installing, Install
<1>4. CASE run[r].identity = 0
  <2>1. identity' = Append(identity, Created(r))
    BY <1>4 DEF Installing, Install
  <2>2. Created(r) \in Identity
    BY <1>1 DEF Created, Identity, Run, FieldSet
  <2> QED
    BY <1>1, <1>2, <1>4, <2>1, <2>2, AppendProperties
<1> QED
  BY <1>3, <1>4

\* A new identity comes after those that were there.
LEMMA InsertedLast ==
  ASSUME IInv, NEW r \in Requests, Installing(r), run[r].identity = 0
  PROVE  /\ DOMAIN identity' = DOMAIN identity \cup {Len(identity) + 1}
         /\ \A i \in DOMAIN identity :
              i \in 1 .. Len(identity) /\ identity'[i] = identity[i]
         /\ identity'[Len(identity) + 1] = Created(r)
<1>1. /\ identity' \in Seq(Identity) /\ Len(identity) \in Nat
      /\ Len(identity') = Len(identity) + 1
      /\ identity'[Len(identity) + 1] = Created(r)
      /\ \A i \in 1 .. Len(identity) : identity'[i] = identity[i]
  BY Installer, InstalledIdentity
<1>2. /\ DOMAIN identity = 1 .. Len(identity)
      /\ DOMAIN identity' = 1 .. Len(identity')
  BY <1>1, Installer, LenProperties DEF TypeOK
<1>3. 1 .. Len(identity) + 1 = 1 .. Len(identity) \cup {Len(identity) + 1}
  BY <1>1
<1> QED
  BY <1>1, <1>2, <1>3

\* The link, the entry and the receipts after the commit.
LEMMA InstalledRows ==
  ASSUME IInv, NEW r \in Requests, Installing(r), NEW e, e = run[r].event
  PROVE  /\ link' \in [Events -> Nat] /\ link'[e] \in 1 .. Len(identity')
         /\ run[r].identity = 0 => link'[e] = Len(identity) + 1
         /\ run[r].identity # 0 => link'[e] \in {run[r].identity, link[e]}
         /\ \A f \in Events : f # e => link'[f] = link[f]
         /\ review' \in [Events -> {None, "pending", "resolved"}]
         /\ \A f \in Events : f # e => review'[f] = review[f]
         /\ run[r].kind = "review" => review'[e] = "resolved"
         /\ run[r].kind # "review" => review' = review
         /\ receipts' \in [ActionTypes -> Nat]
         /\ receipts'["review_queued"] = receipts["review_queued"]
         /\ receipts'["identity_created"] = receipts["identity_created"]
              + IF run[r].identity = 0 THEN 1 ELSE 0
         /\ receipts'["review_resolved"] = receipts["review_resolved"]
              + IF run[r].kind = "review" THEN 1 ELSE 0
<1>1. /\ TypeOK /\ e \in Events /\ Len(identity) \in Nat
      /\ run[r].identity \in 0 .. Len(identity)
  BY Installer
<1>2. /\ Len(identity') \in Nat /\ Len(identity) <= Len(identity')
      /\ run[r].identity = 0 => Len(identity') = Len(identity) + 1
  BY InstalledIdentity
<1>3. link' = IF run[r].link = Target(r) THEN link
              ELSE [link EXCEPT ![e] = Target(r)]
  BY DEF Installing, Install
<1>4. /\ link' \in [Events -> Nat] /\ link'[e] \in 1 .. Len(identity')
      /\ run[r].identity = 0 => link'[e] = Len(identity) + 1
      /\ run[r].identity # 0 => link'[e] \in {run[r].identity, link[e]}
      /\ \A f \in Events : f # e => link'[f] = link[f]
  <2>1. Target(r) \in 1 .. Len(identity')
    BY <1>1, <1>2 DEF Target
  <2>2. run[r].link = Target(r) =>
          /\ link[e] \in 1 .. Len(identity')
          /\ run[r].identity # 0
    BY <1>1, <1>2, <2>1, Installer DEF IInv, Table, Placed, Target, Installing
  <2>3. CASE run[r].link = Target(r)
    BY <1>1, <1>3, <2>2, <2>3 DEF TypeOK
  <2>4. CASE run[r].link # Target(r)
    <3>1. link' = [link EXCEPT ![e] = Target(r)] /\ link'[e] = Target(r)
      BY <1>1, <1>3, <2>4 DEF TypeOK
    <3> QED
      BY <1>1, <1>2, <2>1, <3>1 DEF TypeOK, Target
  <2> QED
    BY <2>3, <2>4
<1>5. review' = IF run[r].kind = "review"
                THEN [review EXCEPT ![e] = "resolved"] ELSE review
  BY DEF Installing, Install
<1>6. /\ review' \in [Events -> {None, "pending", "resolved"}]
      /\ \A f \in Events : f # e => review'[f] = review[f]
      /\ run[r].kind = "review" => review'[e] = "resolved"
      /\ run[r].kind # "review" => review' = review
  BY <1>1, <1>5 DEF TypeOK
<1>7. receipts' = [t \in ActionTypes |->
                     receipts[t] + IF t \in Due(r) THEN 1 ELSE 0]
  BY DEF Installing, Install
<1>8. /\ receipts' \in [ActionTypes -> Nat]
      /\ receipts'["review_queued"] = receipts["review_queued"]
      /\ receipts'["identity_created"] = receipts["identity_created"]
           + IF run[r].identity = 0 THEN 1 ELSE 0
      /\ receipts'["review_resolved"] = receipts["review_resolved"]
           + IF run[r].kind = "review" THEN 1 ELSE 0
  <2>1. /\ "review_queued" \notin Due(r)
        /\ "identity_created" \in Due(r) <=> run[r].identity = 0
        /\ "review_resolved" \in Due(r) <=> run[r].kind = "review"
    BY DEF Due
  <2> QED
    BY <1>1, <1>7, <2>1 DEF TypeOK, ActionTypes
<1> QED
  BY <1>4, <1>6, <1>8

\* A key that an identity is inserted with was free, and only r holds it.
LEMMA KeyWasFree ==
  ASSUME IInv, NEW r \in Requests, Installing(r), run[r].identity = 0,
         Created(r).key # None
  PROVE  /\ Inserting(r) /\ Created(r).key = run[r].fields.key
         /\ WithKey(run[r].fields.key) = {}
<1>1. /\ Created(r).key = IF run[r].kind = "review" THEN None
                          ELSE run[r].fields.key
  BY DEF Created
<1>2. run[r].kind # "review" /\ Linking(r) /\ Placed(r)
  BY <1>1, Installer DEF Reviewing
<1>3. Inserting(r)
  BY <1>2 DEF Inserting
<1> QED
  BY <1>1, <1>2, <1>3 DEF Placed

\* Other transactions keep what they hold.
LEMMA OthersHold ==
  ASSUME IInv, NEW r \in Requests, Installing(r), NEW s \in Requests \ {r}
  PROVE  /\ Inserting(s) /\ run[s].fields.key # None =>
              WithKey(run[s].fields.key)' = {}
         /\ Reviewing(s) => review'[run[s].event] = "pending"
<1>1. /\ TypeOK /\ Placed(s) /\ Session(s) /\ run' = run /\ Exclusive
  BY DEF IInv, Placed, Installing
<1>2. ASSUME Inserting(s), run[s].fields.key # None
      PROVE  WithKey(run[s].fields.key)' = {}
  <2> DEFINE k == run[s].fields.key
  <2>1. WithKey(k) = {} /\ k' = k
    BY <1>1, <1>2 DEF Placed
  <2>2. \A i \in DOMAIN identity : identity[i].key # k
    BY <2>1 DEF WithKey
  <2>3. \A i \in DOMAIN identity' : identity'[i].key # k
    <3>1. CASE run[r].identity # 0
      BY <2>2, <3>1, InstalledIdentity
    <3>2. CASE run[r].identity = 0
      <4>1. Created(r).key # k
        BY <1>1, <1>2, <3>2, KeyWasFree DEF Exclusive
      <4> QED
        BY <2>2, <3>2, <4>1, InsertedLast
    <3> QED
      BY <3>1, <3>2
  <2> QED
    BY <2>1, <2>3 DEF WithKey
<1>3. ASSUME Reviewing(s)
      PROVE  review'[run[s].event] = "pending"
  <2>1. review[run[s].event] = "pending" /\ run[s].event \in Events
    BY <1>1, <1>3 DEF Placed, Session, Reviewing
  <2>2. CASE run[r].kind # "review"
    BY <2>1, <2>2, InstalledRows
  <2>3. CASE run[r].kind = "review"
    <3>1. Reviewing(r)
      BY <2>3, Installer
    <3>2. run[s].event # run[r].event
      BY <1>1, <1>3, <3>1 DEF Exclusive
    <3> QED
      BY <2>1, <3>2, InstalledRows
  <2> QED
    BY <2>2, <2>3
<1> QED
  BY <1>2, <1>3

\* One identity per key and the receipts' counts.
LEMMA InstalledReconciles ==
  ASSUME IInv, NEW r \in Requests, Installing(r)
  PROVE  /\ TablesReconcile'
         /\ IsFiniteSet(InReview("pending")' \cup InReview("resolved")')
         /\ IsFiniteSet(InReview("resolved")')
<1> DEFINE e == run[r].event
<1>1. /\ TypeOK /\ e \in Events /\ Len(identity) \in Nat /\ Table
      /\ TablesReconcile
  BY Installer DEF IInv
<1>2. \A i, j \in DOMAIN identity' :
        identity'[i].key = identity'[j].key /\ identity'[i].key # None => i = j
  <2>1. CASE run[r].identity # 0
    BY <1>1, <2>1, InstalledIdentity DEF TablesReconcile
  <2>2. CASE run[r].identity = 0
    <3> DEFINE k == Created(r).key
    <3>1. k # None => \A i \in DOMAIN identity : identity[i].key # k
      BY <2>2, KeyWasFree DEF WithKey
    <3>2. /\ \A i \in DOMAIN identity : identity'[i] = identity[i]
          /\ DOMAIN identity' = DOMAIN identity \cup {Len(identity) + 1}
          /\ identity'[Len(identity) + 1].key = k
      BY <2>2, InsertedLast
    <3> HIDE DEF k
    <3> QED
      BY <1>1, <3>1, <3>2 DEF TablesReconcile
  <2> QED
    BY <2>1, <2>2
<1>3. receipts'["identity_created"] = Len(identity')
  BY <1>1, InstalledIdentity, InstalledRows DEF TablesReconcile
<1>4. CASE run[r].kind # "review"
  <2>1. \A status : InReview(status)' = InReview(status)
    BY <1>4, InstalledRows DEF InReview
  <2>2. /\ receipts'["review_queued"] = receipts["review_queued"]
        /\ receipts'["review_resolved"] = receipts["review_resolved"]
    BY <1>1, <1>4, InstalledRows DEF TypeOK, ActionTypes
  <2> QED
    BY <1>1, <1>2, <1>3, <2>1, <2>2 DEF TablesReconcile, Table
<1>5. CASE run[r].kind = "review"
  <2>1. /\ review[e] = "pending" /\ review'[e] = "resolved"
        /\ \A f \in Events : f # e => review'[f] = review[f]
    BY <1>5, Installer, InstalledRows
  <2>2. /\ InReview("resolved")' = InReview("resolved") \cup {e}
        /\ e \notin InReview("resolved")
        /\ InReview("pending")' \cup InReview("resolved")'
             = InReview("pending") \cup InReview("resolved")
    BY <1>1, <2>1 DEF InReview
  <2>3. /\ IsFiniteSet(InReview("resolved")')
        /\ Cardinality(InReview("resolved")')
             = Cardinality(InReview("resolved")) + 1
    BY <1>1, <2>2, FS_AddElement DEF Table
  <2>4. /\ receipts'["review_queued"] = receipts["review_queued"]
        /\ receipts'["review_resolved"] = receipts["review_resolved"] + 1
    BY <1>1, <1>5, InstalledRows DEF TypeOK, ActionTypes
  <2> QED
    BY <1>1, <1>2, <1>3, <2>2, <2>3, <2>4 DEF TablesReconcile, Table
<1> QED
  BY <1>4, <1>5

\* A review is won once, by the one that held its entry.
LEMMA InstalledWinner ==
  ASSUME IInv, NEW r \in Requests, Installing(r)
  PROVE  /\ OneWinner'
         /\ \A e \in Events : IsFiniteSet(Winners(e)')
<1> DEFINE e == run[r].event
<1>1. /\ TypeOK /\ e \in Events /\ Table /\ OneWinner /\ pc[r] = "commit"
      /\ pc' = [pc EXCEPT ![r] = Outcome(r)] /\ run' = run
  BY Installer DEF IInv, Installing, Goto
<1>2. \A f \in Events : link'[f] # 0 \/ link'[f] = link[f]
  <2>1. link'[e] # 0 /\ \A f \in Events : f # e => link'[f] = link[f]
    BY InstalledRows, InstalledIdentity
  <2> QED
    BY <2>1
<1>3. \A f \in Events :
        Cardinality(Winners(f)) = (IF review[f] = "resolved" THEN 1 ELSE 0)
  BY <1>1 DEF OneWinner, Winners
<1>4. SUFFICES ASSUME NEW f \in Events
               PROVE  /\ Cardinality(Winners(f)')
                           = (IF review'[f] = "resolved" THEN 1 ELSE 0)
                      /\ review'[f] = "resolved" => link'[f] # 0
                      /\ IsFiniteSet(Winners(f)')
  BY DEF OneWinner, Winners
<1>5. CASE run[r].kind = "review" /\ f = e
  <2>1. review[e] = "pending" /\ review'[e] = "resolved"
    BY <1>5, Installer, InstalledRows
  <2>2. Winners(e)' = Winners(e) \cup {r} /\ r \notin Winners(e)
    BY <1>1, <1>5 DEF Winners, Outcome, TypeOK
  <2>3. Cardinality(Winners(e)) = 0 /\ IsFiniteSet(Winners(e))
    BY <1>1, <1>3, <2>1 DEF Table
  <2>4. IsFiniteSet(Winners(e)') /\ Cardinality(Winners(e)') = 1
    BY <2>2, <2>3, FS_AddElement
  <2>5. link'[e] # 0
    BY InstalledRows, InstalledIdentity
  <2> QED
    BY <1>1, <1>5, <2>1, <2>4, <2>5
<1>6. CASE ~(run[r].kind = "review" /\ f = e)
  <2>1. review'[f] = review[f]
    BY <1>6, InstalledRows
  <2>2. Winners(f)' = Winners(f)
    BY <1>1, <1>6 DEF Winners, Outcome, TypeOK
  <2> QED
    BY <1>1, <1>2, <1>3, <2>1, <2>2 DEF OneWinner, Table
<1> QED
  BY <1>5, <1>6

\* An event is linked to what was made for it, to the holder of a key it has
\* carried, or as a reviewer said.
LEMMA InstalledMerge ==
  ASSUME IInv, NEW r \in Requests, Installing(r)
  PROVE  NeverAutoMerged'
<1> DEFINE e == run[r].event
<1>1. /\ TypeOK /\ Placed(r) /\ Session(r) /\ e \in Events /\ Table
      /\ NeverAutoMerged /\ Len(identity) \in Nat /\ keysEver' = keysEver
  BY Installer DEF IInv, Installing
<1>2. SUFFICES ASSUME NEW f \in Events, link'[f] # 0
               PROVE  \/ identity'[link'[f]].by = f
                      \/ identity'[link'[f]].key \in keysEver'[f]
                      \/ review'[f] = "resolved"
  BY DEF NeverAutoMerged
<1>3. CASE f # e
  <2>1. link'[f] = link[f] /\ review'[f] = review[f]
    BY <1>3, InstalledRows
  <2>2. link[f] \in 1 .. Len(identity)
    BY <1>1, <1>2, <2>1 DEF Table
  <2> QED
    BY <1>1, <1>2, <2>1, <2>2, InstalledIdentity DEF NeverAutoMerged
<1>4. CASE f = e /\ run[r].kind = "review"
  BY <1>4, InstalledRows
<1>5. CASE f = e /\ run[r].kind # "review" /\ run[r].identity = 0
  <2>1. link'[e] = Len(identity) + 1
    BY <1>5, InstalledRows
  <2>2. identity'[link'[e]].by = e
    <3>1. Created(r).by = e
      BY DEF Created
    <3> QED
      BY <1>5, <2>1, <3>1, InsertedLast
  <2> QED
    BY <1>5, <2>2
<1>6. CASE f = e /\ run[r].kind # "review" /\ run[r].identity # 0
  <2>1. identity' = identity /\ review' = review
    BY <1>6, InstalledRows, InstalledIdentity
  <2>2. Linking(r)
    BY <1>6, Installer
  <2>3. /\ identity[run[r].identity].key = run[r].fields.key
        /\ run[r].fields.key # None
        /\ run[r].fields.key \in keysEver[e] \cup {None}
    BY <1>1, <1>6, <2>2 DEF Placed, Session
  <2>4. link'[e] \in {run[r].identity, link[e]}
    BY <1>6, InstalledRows
  <2>5. CASE link'[e] = run[r].identity
    BY <1>1, <1>6, <2>1, <2>3, <2>5
  <2>6. CASE link'[e] = link[e]
    BY <1>1, <1>2, <1>6, <2>1, <2>6 DEF NeverAutoMerged
  <2> QED
    BY <2>4, <2>5, <2>6
<1> QED
  BY <1>3, <1>4, <1>5, <1>6

\* By itself, an event with a name only gives rise to an identity that nothing
\* before resembles.
LEMMA InstalledUnique ==
  ASSUME IInv, NEW r \in Requests, Installing(r), overlap' = FALSE
  PROVE  /\ Fresh(r)'
         /\ \A i, j \in DOMAIN identity' :
              (i < j /\ identity'[j].key = None /\ review'[identity'[j].by] = None)
                => <<identity'[j].name, identity'[i].name>> \notin Alike
<1>1. /\ TypeOK /\ Placed(r) /\ pc[r] \in Running /\ Len(identity) \in Nat
      /\ run[r].event \in Events /\ run[r] \in Run
      /\ pc' = [pc EXCEPT ![r] = Outcome(r)] /\ run' = run
      /\ overlap' = (overlap \/ (pc[r] = "idle" /\ Busy # {}))
  BY Installer DEF Installing, Goto
<1>2. overlap = FALSE /\ Fresh(r) /\ AloneIsUnique
  <2>1. overlap = FALSE
    BY <1>1 DEF TypeOK
  <2> QED
    BY <2>1 DEF IInv, Alone
<1>3. Outcome(r) \in {"resolved", "linked"}
  BY <1>1, <1>2 DEF Outcome, Fresh
<1>4. Fresh(r)'
  <2>1. pc'[r] \in {"resolved", "linked"}
    BY <1>1, <1>3 DEF TypeOK
  <2> QED
    BY <2>1 DEF Fresh, Running, Inserting, Linking
<1>5. \A f \in Events : review'[f] = None => review[f] = None
  BY InstalledRows, StatusAssumption
<1>6. \A i, j \in DOMAIN identity :
        (i < j /\ identity[j].key = None /\ review'[identity[j].by] = None)
          => <<identity[j].name, identity[i].name>> \notin Alike
  BY <1>1, <1>2, <1>5, Rows DEF AloneIsUnique
<1>7. CASE run[r].identity # 0
  BY <1>4, <1>6, <1>7, InstalledIdentity
<1>8. CASE run[r].identity = 0
  <2> DEFINE new == Created(r)
  <2>1. new.key = None /\ review'[new.by] = None =>
          \A i \in DOMAIN identity : <<new.name, identity[i].name>> \notin Alike
    <3> SUFFICES ASSUME new.key = None, review'[new.by] = None
                 PROVE  Candidates(r) = {} /\ new.name = run[r].fields.name
      BY DEF Candidates
    <3>1. new.by = run[r].event /\ new.name = run[r].fields.name
      BY DEF Created
    <3>2. run[r].kind # "review"
      BY <3>1, InstalledRows, StatusAssumption
    <3>3. Inserting(r) /\ run[r].fields.key = None
      BY <1>8, <3>2, Installer DEF Inserting, Created
    <3> QED
      BY <1>2, <3>1, <3>3 DEF Fresh
  <2>2. /\ DOMAIN identity' = DOMAIN identity \cup {Len(identity) + 1}
        /\ \A i \in DOMAIN identity :
             i \in 1 .. Len(identity) /\ identity'[i] = identity[i]
        /\ identity'[Len(identity) + 1] = new
    BY <1>8, InsertedLast
  <2> HIDE DEF new
  <2>3. ASSUME NEW i \in DOMAIN identity', NEW j \in DOMAIN identity', i < j,
               identity'[j].key = None, review'[identity'[j].by] = None
        PROVE  <<identity'[j].name, identity'[i].name>> \notin Alike
    <3>1. i \in DOMAIN identity
      BY <1>1, <2>2, <2>3
    <3>2. CASE j \in DOMAIN identity
      BY <1>6, <2>2, <2>3, <3>1, <3>2
    <3>3. CASE j = Len(identity) + 1
      BY <2>1, <2>2, <2>3, <3>1, <3>3
    <3> QED
      BY <2>2, <3>2, <3>3
  <2> QED
    BY <1>4, <2>3
<1> QED
  BY <1>7, <1>8

\* The commit: lost to another link, or everything at once.
LEMMA CommitStep ==
  ASSUME IInv, NEW r \in Requests, Commit(r)
  PROVE  IInv'
<1>1. /\ TypeOK /\ pc[r] = "commit" /\ pc[r] \in Running
      /\ UNCHANGED <<event, keysEver, run>>
  BY DEF IInv, Commit, Running
<1>2. CASE LostLinkRace(r)
  <2>1. /\ Move(r, "error") /\ "error" \in (Running \cup Ended) \ {"resolved"}
    BY <1>1, <1>2 DEF Commit, Move, Ended
  <2>2. run' = [run EXCEPT ![r] = run[r]] /\ run[r] \in Run
    BY <1>1, SameRun
  <2>3. /\ pc'[r] = "error" /\ run'[r] = run[r]
        /\ event' = event /\ identity' = identity /\ link' = link
        /\ review' = review /\ keysEver' = keysEver
        /\ Placed(r) /\ Session(r)
    BY <2>1, <2>2, Moved
  <2>4. ~Inserting(r)' /\ ~Reviewing(r)' /\ ~Linking(r)'
    BY <2>3 DEF Inserting, Linking, Reviewing
  <2>5. Placed(r)'
    BY <1>1, <2>3, <2>4 DEF Placed, Session, Running, Searching
  <2>6. overlap # FALSE
    BY <1>1, <1>2 DEF IInv, Alone, Fresh, LostLinkRace
  <2> QED
    BY <1>1, <2>1, <2>2, <2>4, <2>5, <2>6, MoveStep DEF Acquires
<1>3. CASE ~LostLinkRace(r)
  <2> DEFINE e == run[r].event
  <2>1. Installing(r)
    BY <1>3 DEF Commit, Installing
  <2>2. /\ Placed(r) /\ Session(r) /\ e \in Events /\ Len(identity) \in Nat
        /\ Table
    BY <2>1, Installer DEF IInv
  <2>3. /\ pc' = [pc EXCEPT ![r] = Outcome(r)] /\ Overlaps(r)
        /\ pc'[r] = Outcome(r) /\ Outcome(r) \in {"resolved", "lost", "linked"}
    BY <1>1, <2>1 DEF Installing, Goto, Overlaps, TypeOK, Outcome
  <2>4. OthersRest(r)
    BY <1>1, <2>3 DEF OthersRest, TypeOK
  <2>5. ~Inserting(r)' /\ ~Reviewing(r)' /\ ~Linking(r)'
    BY <2>3 DEF Inserting, Linking, Reviewing
  <2>6. /\ identity' \in Seq(Identity) /\ Len(identity') \in Nat
        /\ Len(identity) <= Len(identity')
        /\ \A i \in 1 .. Len(identity) : identity'[i] = identity[i]
    BY <2>1, InstalledIdentity
  <2>7. /\ link' \in [Events -> Nat] /\ link'[e] \in 1 .. Len(identity')
        /\ \A f \in Events : f # e => link'[f] = link[f]
        /\ review' \in [Events -> {None, "pending", "resolved"}]
        /\ \A f \in Events : f # e => review'[f] = review[f]
        /\ review'[e] \in {review[e], "resolved"}
        /\ receipts' \in [ActionTypes -> Nat]
    BY <2>1, InstalledRows
  <2>8. TypeOK'
    <3>1. /\ pc' \in [Requests -> {"idle"} \cup Running \cup Ended]
          /\ overlap' \in BOOLEAN
      BY <1>1, <2>3 DEF TypeOK, Overlaps, Ended
    <3> QED
      BY <1>1, <2>6, <2>7, <3>1 DEF TypeOK
  <2>9. Placed(r)'
    <3>1. link'[e] # 0 /\ run[r].identity \in 0 .. Len(identity')
      BY <2>1, <2>6, <2>7, Installer
    <3>2. Session(r)'
      BY <1>1, <2>2, <2>3, <2>5 DEF Session, Searching
    <3> QED
      BY <1>1, <2>3, <2>5, <3>1, <3>2 DEF Placed, Running
  <2>10. Acquires(r)
    BY <2>5 DEF Acquires
  <2>11. \A f \in Events : /\ review[f] # None => review'[f] # None
                           /\ link[f] # 0 => link'[f] # 0
    <3>1. link'[e] # 0 /\ (review[e] # None => review'[e] # None)
      BY <2>6, <2>7, StatusAssumption
    <3> QED
      BY <2>7, <3>1
  <2>12. \A s \in Requests \ {r} :
           /\ Inserting(s) /\ run[s].fields.key # None =>
                WithKey(run[s].fields.key)' = {}
           /\ Reviewing(s) => review'[run[s].event] = "pending"
    BY <2>1, OthersHold
  <2>13. Table'
    <3>1. \A f \in Events : link'[f] \in 0 .. Len(identity')
      BY <2>2, <2>6, <2>7 DEF Table
    <3>2. \A f \in Events : review'[f] # None => event'[f] \in FieldSet
      <4>1. event[e] \in FieldSet
        <5>1. CASE run[r].kind = "review"
          BY <2>1, <2>2, <5>1, Installer, StatusAssumption DEF Table
        <5>2. CASE run[r].kind = "ingest"
          BY <1>1, <2>2, <5>2 DEF Placed
        <5> QED
          BY <2>1, <5>1, <5>2, Installer
      <4> QED
        BY <1>1, <2>2, <2>7, <4>1 DEF Table
    <3> QED
      BY <2>1, <3>1, <3>2, InstalledReconciles, InstalledWinner DEF Table
  <2> QED
    BY <1>1, <2>1, <2>3, <2>4, <2>6, <2>8, <2>9, <2>10, <2>11, <2>12, <2>13,
       InstalledReconciles, InstalledWinner, InstalledMerge, InstalledUnique,
       WriteStep
<1> QED
  BY <1>2, <1>3

-----------------------------------------------------------------------------
\* Every step of the specification preserves the invariant.
LEMMA IInvStep == IInv /\ [Next]_vars => IInv'
<1> SUFFICES ASSUME IInv, [Next]_vars PROVE IInv'
  OBVIOUS
<1>1. CASE UNCHANGED vars
  <2>1. UNCHANGED <<event, identity, link, review, receipts, keysEver, overlap,
                    pc, run>>
    BY <1>1 DEF vars, tables
  <2>2. TypeOK' /\ TablesReconcile' /\ NeverAutoMerged' /\ OneWinner'
    BY <2>1
    DEF IInv, TypeOK, TablesReconcile, InReview, NeverAutoMerged, OneWinner
  <2>3. Table' /\ AloneIsUnique'
    BY <2>1 DEF IInv, Table, InReview, Winners, AloneIsUnique
  <2>4. Exclusive' /\ \A r \in Requests : Placed(r)'
    BY <2>1
    DEF IInv, Exclusive, Placed, Session, Inserting, Linking, Reviewing,
        WithKey
  <2>5. Alone'
    BY <2>1
    DEF IInv, Alone, Busy, Fresh, Inserting, Linking, WithKey, Candidates
  <2> QED
    BY <2>2, <2>3, <2>4, <2>5 DEF IInv
<1> QED
  BY <1>1, IngestStep, OpenReviewStep, LookupLinkStep, FindKeyStep,
     CreateWithKeyStep, FindCandidateStep, SelectReviewStep, QueueReviewStep,
     ClaimStep, RereadEventStep, SelectLinkStep, CommitStep, KillStep
  DEF Next, Step

\* So it holds in every reachable state.
LEMMA Invariance == Spec => []IInv
BY InitIInv, IInvStep, PTL DEF Spec

-----------------------------------------------------------------------------
\* Every variable keeps its shape.
THEOREM TypeInvariant == Spec => []TypeOK
<1>1. IInv => TypeOK
  BY DEF IInv
<1> QED
  BY <1>1, Invariance, PTL

\* One identity per key, and the receipts count the identities made, the
\* events parked and the reviews resolved, whoever races or dies.
THEOREM Reconciles == Spec => []TablesReconcile
<1>1. IInv => TablesReconcile
  BY DEF IInv
<1> QED
  BY <1>1, Invariance, PTL

\* No event is merged into an identity because of a resemblance.
THEOREM MergedForAReason == Spec => []NeverAutoMerged
<1>1. IInv => NeverAutoMerged
  BY DEF IInv
<1> QED
  BY <1>1, Invariance, PTL

\* A review has one winner and no answer is ever belied by the tables.
THEOREM Answers == Spec => []AnswersHold
<1>1. IInv => AnswersHold
  BY DEF IInv, Placed, AnswersHold, NoneForgotten
<1> QED
  BY <1>1, Invariance, PTL

\* A request that overlaps no other neither fails nor splits a person in two.
THEOREM UniqueAlone == Spec => []AloneIsUnique
<1>1. IInv => AloneIsUnique
  BY DEF IInv
<1> QED
  BY <1>1, Invariance, PTL

-----------------------------------------------------------------------------
(* The life of an event                                                    *)

\* A step that leaves the rows of an event alone, or only rewrites the event.
LEMMA LifeRests ==
  ASSUME NEW e \in Events, link'[e] = link[e], review'[e] = review[e],
         event[e] # None <=> event'[e] # None
  PROVE  UNCHANGED Life(e)!vars
BY DEF Life!vars, Reviewed

\* The ingestion of an event is its acceptance, an edit is invisible.
LEMMA IngestLives ==
  ASSUME IInv, NEW r \in Requests, NEW f \in Events, NEW fields \in FieldSet,
         Ingest(r, f, fields), NEW e \in Events
  PROVE  [Life(e)!Next]_(Life(e)!vars)
<1>1. /\ link' = link /\ review' = review
      /\ event' = [event EXCEPT ![f] = fields] /\ TypeOK
  BY DEF Ingest, tables, IInv
<1>2. event'[e] = IF e = f THEN fields ELSE event[e]
  BY <1>1 DEF TypeOK
<1>3. CASE e # f
  BY <1>1, <1>2, <1>3, LifeRests
<1>4. CASE e = f
  <2>1. event'[e] # None
    BY <1>2, <1>4, NoEventAssumption
  <2>2. Life(e)!Accept
    BY <1>1, <2>1 DEF Life!Accept, Reviewed
  <2> QED
    BY <2>2 DEF Life!Next
<1> QED
  BY <1>3, <1>4

\* An entry for a reviewer is made for an accepted event that has none.
LEMMA QueueReviewLives ==
  ASSUME IInv, NEW r \in Requests, QueueReview(r), NEW e \in Events
  PROVE  [Life(e)!Next]_(Life(e)!vars)
<1> DEFINE f == run[r].event
<1>1. /\ TypeOK /\ Placed(r) /\ Session(r) /\ pc[r] = "queue"
      /\ pc[r] \in Running /\ f \in Events /\ run[r].kind = "ingest"
      /\ link' = link /\ event' = event
  BY DEF IInv, QueueReview, Running, Placed, Session
<1>2. CASE UNCHANGED review
  BY <1>1, <1>2, LifeRests
<1>3. CASE review[f] = None /\ review' = [review EXCEPT ![f] = "pending"]
  <2>1. event[f] # None
    BY <1>1, NoEventAssumption DEF Placed
  <2>2. review'[e] = IF e = f THEN "pending" ELSE review[e]
    BY <1>1, <1>3 DEF TypeOK
  <2>3. CASE e # f
    BY <1>1, <2>2, <2>3, LifeRests
  <2>4. CASE e = f
    <3>1. Reviewed(e) = "none" /\ Reviewed(e)' = "pending"
      BY <1>3, <2>2, <2>4, StatusAssumption DEF Reviewed
    <3>2. Life(e)!Queue
      BY <1>1, <2>1, <2>4, <3>1 DEF Life!Queue
    <3> QED
      BY <3>2 DEF Life!Next
  <2> QED
    BY <2>3, <2>4
<1> QED
  BY <1>2, <1>3 DEF QueueReview

\* The commit links an accepted event, or decides its review and links it.
LEMMA CommitLives ==
  ASSUME IInv, NEW r \in Requests, Commit(r), NEW e \in Events
  PROVE  [Life(e)!Next]_(Life(e)!vars)
<1> DEFINE f == run[r].event
<1>1. event' = event
  BY DEF Commit
<1>2. CASE LostLinkRace(r)
  BY <1>1, <1>2, LifeRests DEF Commit, tables
<1>3. CASE ~LostLinkRace(r)
  <2>1. Installing(r)
    BY <1>3 DEF Commit, Installing
  <2>2. /\ TypeOK /\ Placed(r) /\ Session(r) /\ f \in Events
        /\ run[r].kind \in {"ingest", "review"} /\ pc[r] \in Running
        /\ pc[r] = "commit" /\ Table
        /\ Len(identity') \in Nat
    BY <2>1, Installer, InstalledIdentity DEF Installing, Session, IInv
  <2>3. /\ link'[f] # 0
        /\ \A x \in Events : x # f => link'[x] = link[x] /\ review'[x] = review[x]
        /\ run[r].kind = "review" => review'[f] = "resolved"
        /\ run[r].kind # "review" => review' = review
    BY <2>1, <2>2, InstalledRows
  <2>4. CASE e # f
    BY <1>1, <2>3, <2>4, LifeRests
  <2>5. CASE e = f /\ run[r].kind = "ingest"
    <3>1. event[e] # None /\ review'[e] = review[e]
      BY <2>2, <2>3, <2>5, NoEventAssumption DEF Placed
    <3>2. Life(e)!Link
      BY <1>1, <2>3, <2>5, <3>1 DEF Life!Link, Reviewed
    <3> QED
      BY <3>2 DEF Life!Next
  <2>6. CASE e = f /\ run[r].kind = "review"
    <3>1. review[e] = "pending" /\ review'[e] = "resolved"
      BY <2>2, <2>3, <2>6 DEF Placed, Reviewing
    <3>2. Life(e)!Decide
      BY <1>1, <2>3, <2>6, <3>1, StatusAssumption DEF Life!Decide, Reviewed
    <3> QED
      BY <3>2 DEF Life!Next
  <2> QED
    BY <2>2, <2>4, <2>5, <2>6
<1> QED
  BY <1>2, <1>3

\* Every step of a request is a step of the life of each event, or invisible.
LEMMA StepsAreLife ==
  IInv /\ [Next]_vars =>
    [\A e \in Events : [Life(e)!Next]_(Life(e)!vars)]_vars
<1> SUFFICES ASSUME IInv, Next, NEW e \in Events
             PROVE  [Life(e)!Next]_(Life(e)!vars)
  OBVIOUS
<1>1. CASE UNCHANGED <<event, tables>>
  BY <1>1, LifeRests DEF tables
<1>2. ASSUME NEW r \in Requests,
             LookupLink(r) \/ FindKey(r) \/ CreateWithKey(r)
               \/ FindCandidate(r) \/ SelectReview(r) \/ Claim(r)
               \/ RereadEvent(r) \/ SelectLink(r) \/ Kill(r)
      PROVE  UNCHANGED <<event, tables>>
  BY <1>2
  DEF LookupLink, FindKey, CreateWithKey, FindCandidate, SelectReview, Claim,
      RereadEvent, SelectLink, Kill, Move
<1>3. ASSUME NEW r \in Requests, NEW f \in Events,
             NEW target \in {0} \cup DOMAIN identity, OpenReview(r, f, target)
      PROVE  UNCHANGED <<event, tables>>
  BY <1>3 DEF OpenReview, Move
<1> QED
  BY <1>1, <1>2, <1>3, IngestLives, QueueReviewLives, CommitLives
  DEF Next, Step

\* Statement by statement, whoever races or dies, each event lives the life
\* that EventLife promises as far as its identity and its review go.
THEOREM Refinement == Spec => ImplementsLife
<1>1. Init => \A e \in Events : Life(e)!Init
  BY DEF Init, Life!Init, Reviewed
<1> QED
  BY <1>1, StepsAreLife, Invariance, PTL DEF Spec, ImplementsLife

-----------------------------------------------------------------------------
(* What an edit cannot do to the identity of an event                      *)

\* Whatever r does next.
Moves(r) ==
  \/ \E e \in Events, fields \in FieldSet : Ingest(r, e, fields)
  \/ \E e \in Events, target \in {0} \cup DOMAIN identity :
       OpenReview(r, e, target)
  \/ Step(r)
  \/ Kill(r)

\* A request that has found no link and is about to write one for an ingestion.
Unlinked ==
  ~overlap => \A r \in Requests :
    /\ pc[r] \in {"find", "create", "candidates", "relink", "commit"}
    /\ run[r].kind = "ingest"
    => link[run[r].event] = 0

\* A move is that of one request.
LEMMA Actor ==
  ASSUME IInv, NEW r \in Requests, Moves(r)
  PROVE  OthersRest(r) /\ Overlaps(r)
<1>1. TypeOK
  BY DEF IInv
<1>2. ASSUME NEW label, Goto(r, label), pc[r] \in {"idle"} \cup Running
      PROVE  Overlaps(r) /\ \A s \in Requests : s # r => pc'[s] = pc[s]
  BY <1>1, <1>2 DEF Goto, Overlaps, TypeOK
<1>3. ASSUME UNCHANGED run \/ \E new : run' = [run EXCEPT ![r] = new]
      PROVE  \A s \in Requests : s # r => run'[s] = run[s]
  BY <1>1, <1>3 DEF TypeOK
<1>4. /\ \E label : Goto(r, label)
      /\ pc[r] \in {"idle"} \cup Running
  BY DEF Moves, Ingest, OpenReview, Step, Kill, LookupLink, FindKey,
         CreateWithKey, FindCandidate, SelectReview, QueueReview, Claim,
         RereadEvent, SelectLink, Commit, Move, Running
<1>5. UNCHANGED run \/ \E new : run' = [run EXCEPT ![r] = new]
  <2>1. ASSUME NEW e \in Events, NEW fields \in FieldSet, Ingest(r, e, fields)
        PROVE  \E new : run' = [run EXCEPT ![r] = new]
    BY <2>1 DEF Ingest
  <2>2. ASSUME NEW e \in Events, NEW target, OpenReview(r, e, target)
        PROVE  \E new : run' = [run EXCEPT ![r] = new]
    BY <2>2 DEF OpenReview
  <2>3. CASE FindKey(r)
    BY <2>3 DEF FindKey
  <2>4. CASE CreateWithKey(r)
    BY <2>4 DEF CreateWithKey
  <2>5. CASE SelectReview(r) \/ RereadEvent(r) \/ SelectLink(r)
    BY <2>5 DEF SelectReview, RereadEvent, SelectLink
  <2>6. CASE \/ LookupLink(r) \/ FindCandidate(r) \/ QueueReview(r)
             \/ Claim(r) \/ Commit(r) \/ Kill(r)
    BY <2>6 DEF LookupLink, FindCandidate, QueueReview, Claim, Commit, Kill
  <2> QED
    BY <2>1, <2>2, <2>3, <2>4, <2>5, <2>6 DEF Moves, Step
<1> QED
  BY <1>2, <1>3, <1>4, <1>5 DEF OthersRest

\* What the session of r says afterwards, when r is still on its way to a link.
LEMMA StaysUnlinked ==
  ASSUME IInv, Unlinked, ~overlap, NEW r \in Requests, Moves(r),
         pc'[r] \in {"find", "create", "candidates", "relink", "commit"},
         run'[r].kind = "ingest"
  PROVE  link'[run'[r].event] = 0
<1>1. TypeOK /\ Session(r) /\ run[r] \in Run
  BY DEF IInv, Placed, TypeOK
<1>2. ASSUME NEW new \in Run, run' = [run EXCEPT ![r] = new]
      PROVE  run'[r] = new
  BY <1>1, <1>2 DEF TypeOK
<1>3. ASSUME NEW label, Goto(r, label)
      PROVE  pc'[r] = label
  BY <1>1, <1>3 DEF Goto, TypeOK
<1>4. ASSUME NEW e \in Events, NEW fields \in FieldSet, Ingest(r, e, fields)
      PROVE  FALSE
  BY <1>3, <1>4 DEF Ingest
<1>5. ASSUME NEW e \in Events, NEW target \in {0} \cup DOMAIN identity,
             OpenReview(r, e, target)
      PROVE  FALSE
  <2>1. target \in Nat
    BY <1>1, LenProperties DEF TypeOK
  <2> DEFINE new == [NoRun EXCEPT !.kind = "review", !.event = e,
                                  !.identity = target]
  <2>2. new \in Run /\ new.kind = "review"
    BY <2>1, NoRunType DEF Run, NoRun
  <2>3. run' = [run EXCEPT ![r] = new]
    BY <1>5 DEF OpenReview
  <2> HIDE DEF new
  <2> QED
    BY <1>2, <2>2, <2>3
<1>6. CASE LookupLink(r)
  <2>1. run' = run /\ link' = link
    BY <1>6 DEF LookupLink, Move, tables
  <2>2. pc'[r] = IF link[run[r].event] # 0 THEN "linked" ELSE Rule(run[r].fields)
    BY <1>3, <1>6 DEF LookupLink, Move
  <2> QED
    BY <2>1, <2>2
<1>7. ASSUME link' = link, run'[r].kind = run[r].kind,
             run'[r].event = run[r].event,
             pc[r] \in {"find", "create", "candidates", "relink"}
      PROVE  link'[run'[r].event] = 0
  BY <1>7 DEF Unlinked
<1>8. ASSUME NEW i, run' = [run EXCEPT ![r].identity = i]
                 \/ run' = [run EXCEPT ![r].identity = i, ![r].beaten = TRUE]
                 \/ run' = [run EXCEPT ![r].link = i]
                 \/ run' = run
      PROVE  run'[r].kind = run[r].kind /\ run'[r].event = run[r].event
  BY <1>1, <1>8 DEF TypeOK, Run
<1>9. CASE FindKey(r)
  BY <1>7, <1>8, <1>9 DEF FindKey, Move, tables
<1>10. CASE CreateWithKey(r)
  BY <1>7, <1>8, <1>10 DEF CreateWithKey, Move, tables
<1>11. CASE FindCandidate(r)
  BY <1>7, <1>11 DEF FindCandidate, Move, tables
<1>12. CASE SelectLink(r)
  BY <1>7, <1>8, <1>12 DEF SelectLink, Move, tables
<1>13. CASE SelectReview(r) \/ QueueReview(r) \/ Commit(r) \/ Kill(r)
  BY <1>3, <1>13 DEF SelectReview, QueueReview, Commit, Kill, Move, Outcome
<1>14. CASE Claim(r)
  BY <1>1, <1>14 DEF Claim, Session
<1>15. CASE RereadEvent(r)
  <2>1. run'[r].kind = run[r].kind
    BY <1>1, <1>15 DEF RereadEvent, TypeOK, Run
  <2> QED
    BY <1>1, <1>15, <2>1 DEF RereadEvent, Session
<1> QED
  BY <1>4, <1>5, <1>6, <1>9, <1>10, <1>11, <1>12, <1>13, <1>14, <1>15
  DEF Moves, Step

\* Nobody links the event of a request that runs alone.
LEMMA UnlinkedStep == IInv /\ Unlinked /\ [Next]_vars => Unlinked'
<1> SUFFICES ASSUME IInv, Unlinked, [Next]_vars PROVE Unlinked'
  OBVIOUS
<1>1. CASE UNCHANGED vars
  BY <1>1 DEF vars, tables, Unlinked
<1>2. ASSUME NEW r \in Requests, Moves(r)
      PROVE  Unlinked'
  <2>1. OthersRest(r) /\ Overlaps(r) /\ Alone /\ overlap \in BOOLEAN
    BY <1>2, Actor DEF IInv, TypeOK
  <2> SUFFICES ASSUME ~overlap', NEW s \in Requests,
                      pc'[s] \in {"find", "create", "candidates", "relink",
                                  "commit"},
                      run'[s].kind = "ingest"
               PROVE  link'[run'[s].event] = 0
    BY DEF Unlinked
  <2>2. ~overlap
    BY <2>1 DEF Overlaps
  <2>3. CASE s = r
    BY <1>2, <2>2, <2>3, StaysUnlinked
  <2>4. CASE s # r
    <3>1. s \in Busy
      BY <2>1, <2>4 DEF OthersRest, Busy, Running
    <3>2. r \in Busy
      BY <2>1, <3>1 DEF Overlaps, Busy
    <3> QED
      BY <2>1, <2>2, <2>4, <3>1, <3>2 DEF Alone
  <2> QED
    BY <2>3, <2>4
<1> QED
  BY <1>1, <1>2 DEF Next, Moves

\* Without overlap an edit never moves a linked event to another identity.
THEOREM IdentityIsKept == Spec => IdentityKept
<1> DEFINE Kept == ~overlap' => \A e \in Events :
                     link[e] # 0 /\ link'[e] # link[e] =>
                       review[e] = "pending" /\ review'[e] = "resolved"
<1>1. Init => Unlinked
  BY DEF Init, Unlinked
<1>2. IInv /\ Unlinked /\ [Next]_vars => [Kept]_vars
  <2> SUFFICES ASSUME IInv, Unlinked, Next, ~overlap', NEW e \in Events,
                      link[e] # 0, link'[e] # link[e]
               PROVE  review[e] = "pending" /\ review'[e] = "resolved"
    OBVIOUS
  <2>1. PICK r \in Requests : Moves(r)
    BY DEF Next, Moves
  <2>2. ~overlap
    BY <2>1, Actor DEF Overlaps, IInv, TypeOK
  <2>3. Commit(r)
    BY <2>1
    DEF Moves, Ingest, OpenReview, Step, Kill, LookupLink, FindKey,
        CreateWithKey, FindCandidate, SelectReview, QueueReview, Claim,
        RereadEvent, SelectLink, Move, tables
  <2>4. Installing(r)
    BY <2>3 DEF Commit, Installing, tables
  <2> DEFINE f == run[r].event
  <2>5. /\ TypeOK /\ Placed(r) /\ Session(r) /\ f \in Events
        /\ run[r].kind \in {"ingest", "review"} /\ pc[r] = "commit"
    BY <2>4, Installer DEF Installing, Session
  <2>6. /\ \A x \in Events : x # f => link'[x] = link[x]
        /\ run[r].kind = "review" => review'[f] = "resolved"
    BY <2>4, <2>5, InstalledRows
  <2>7. e = f
    BY <2>6
  <2>8. run[r].kind = "review"
    BY <2>2, <2>5, <2>7 DEF Unlinked
  <2> QED
    BY <2>5, <2>6, <2>7, <2>8 DEF Placed, Reviewing
<1> QED
  BY <1>1, <1>2, UnlinkedStep, Invariance, PTL DEF Spec, IdentityKept
=============================================================================
