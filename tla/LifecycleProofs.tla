-------------------------- MODULE LifecycleProofs ---------------------------
(***************************************************************************)
(* Proofs about Lifecycle, for any number of requests, payloads and        *)
(* identities.  One inductive invariant carries all of them.  It says      *)
(* where a request can be, given the tables (Core); who told of each       *)
(* identity that a row, a link, a session or a lead names (Sources); what  *)
(* still takes an accepted event further (Carried); what a session may     *)
(* rely on while no two requests overlap (Alone); and that the answers     *)
(* given so far hold (AnswersHold).                                        *)
(***************************************************************************)
EXTENDS Lifecycle, FiniteSetTheorems, TLAPS

\* Where a request is beyond the row's insertion, and beyond its link.
Accepting == {"edit", "resolve", "link", "park"}
Resolved == {"interpret", "fail", "act", "close"}

\* What the place of a request in its run says of its session and the tables.
JobOK(r) ==
  /\ pc[r] = "idle" => job[r] = NoJob
  /\ pc[r] \in Accepting \cup {"insert"} =>
       job[r].kind = "submit" /\ job[r].payload \in Payloads
  /\ pc[r] \in Accepting \cup Resolved => row # {}
  /\ pc[r] \in Resolved \cup {"link"} => job[r].identity # "none"
  /\ pc[r] \in Resolved => link # "none"
  /\ pc[r] = "close" => job[r].identity \in leads

\* Who was answered that the event is on the worklist.
Listed == {r \in Requests : pc[r] \in {"failed", "simulated"}}

\* A dead-letter row is counted by the answer that reported it, so that their
\* number is bounded by that of the requests.
Core ==
  /\ TypeOK
  /\ \A r \in Requests : JobOK(r)
  /\ review # "none" => row # {}
  /\ rows <= Cardinality(Listed)

\* Some request has told who i is, or has made it.
Earned(i) == \E r \in Requests :
  \/ job[r].kind = "submit" /\ From[job[r].payload] = i
  \/ job[r].kind = "submit" /\ Fresh[r] = i
  \/ job[r].kind = "review" /\ job[r].identity = i

\* Whoever a row, a link, a session or a lead names was told of by a request.
Sources ==
  /\ \A one \in row : \E r \in Requests :
       job[r].kind = "submit" /\ From[job[r].payload] = one.from
  /\ link # "none" => Earned(link)
  /\ \A r \in Requests : job[r].identity # "none" => Earned(job[r].identity)
  /\ \A i \in leads : Earned(i)

\* Where an event that has an identity can be.
Advanced ==
  \/ leads # {} \/ open # 0
  \/ \E r \in Requests : pc[r] \in {"interpret", "fail", "act", "dead"}

\* An accepted event has an identity, waits for a reviewer, or some request is
\* about to find it one; a decided review has given it one.
Carried ==
  /\ row # {} => \/ Advanced \/ review = "pending"
                \/ \E r \in Requests : pc[r] \in {"resolve", "link", "park"}
  /\ review = "resolved" => Advanced

\* The session knows the link as it is.
Faithful(r) ==
  /\ pc[r] = "link" => link = "none"
  /\ pc[r] \in Resolved => job[r].identity = link

\* While requests do not overlap, no session holds a stale link, and before a
\* reviewer moves the event its one lead is that of its link.
Alone ==
  ~overlap =>
    /\ \A r, s \in Busy : r = s
    /\ review # "resolved" =>
         leads \subseteq {link} /\ \A r \in Requests : Faithful(r)

-----------------------------------------------------------------------------
\* The empty session is one.
LEMMA NoJobType == NoJob \in Job
BY LastAssumption DEF NoJob, Job

LEMMA InitCore == Init => Core
<1> SUFFICES ASSUME Init PROVE Core
  OBVIOUS
<1>1. TypeOK
  <2>2. pc \in [Requests -> {"idle"} \cup Running \cup Ended]
    BY DEF Init
  <2>3. job \in [Requests -> Job]
    BY NoJobType DEF Init
  <2>4. rows \in Nat /\ open \in 0 .. rows
    BY DEF Init
  <2>5. overlap \in BOOLEAN
    BY DEF Init
  <2> QED
    BY <2>2, <2>3, <2>4, <2>5 DEF Init, TypeOK
<1>2. \A r \in Requests : JobOK(r)
  BY DEF Init, JobOK, Accepting, Resolved
<1>3. rows <= Cardinality(Listed)
  <2>1. Listed = {}
    BY DEF Init, Listed
  <2> QED
    BY <2>1, FS_EmptySet DEF Init
<1> QED
  BY <1>1, <1>2, <1>3 DEF Core, Init

\* What a request does.
Moves(r) ==
  \/ \E p \in Payloads : Submit(r, p)
  \/ \E target \in Holders \cup Strangers \cup {Fresh[r]} : Review(r, target)
  \/ Replay(r) \/ Simulate(r) \/ Step(r) \/ Die(r)

\* A step of the system is a move of one request.
LEMMA NextIsMoves == Next <=> \E r \in Requests : Moves(r)
BY DEF Next, Moves

\* A step of one request leaves the others where they are.
LEMMA OneMoves ==
  ASSUME TypeOK, NEW r \in Requests, Moves(r)
  PROVE  /\ pc' = [pc EXCEPT ![r] = pc'[r]]
         /\ job' = [job EXCEPT ![r] = job'[r]]
         /\ pc[r] \in {"idle"} \cup Running
         /\ pc'[r] \in Running \cup Ended
BY DEF Moves, Submit, Review, Replay, Simulate, Step, Die, Insert, Edit,
       Resolve, Link, Park, Interpret, Fail, Act, Close, Arrive, Goto, TypeOK,
       Running, Ended, AfterParking, AfterReview

\* Requests are finitely many, so the answers can be counted.
LEMMA ListedIsBounded ==
  /\ IsFiniteSet(Listed)
  /\ Cardinality(Listed) \in 0 .. Last
<1>1. IsFiniteSet(1 .. Last) /\ Cardinality(1 .. Last) = Last
  BY FS_Interval, LastAssumption
<1>2. Listed \in SUBSET (1 .. Last)
  BY DEF Listed, Requests
<1>3. IsFiniteSet(Listed) /\ Cardinality(Listed) <= Last
  BY <1>1, <1>2, FS_Subset
<1> QED
  BY <1>3, FS_CardinalityType, LastAssumption

\* Every row of the worklist belongs to a request that was answered so.
LEMMA RowsCounted ==
  ASSUME Core, NEW r \in Requests, Moves(r)
  PROVE  rows' <= Cardinality(Listed)'
<1>1. TypeOK /\ rows <= Cardinality(Listed)
  BY DEF Core
<1>2. /\ pc' = [pc EXCEPT ![r] = pc'[r]]
      /\ pc[r] \in {"idle"} \cup Running
  BY <1>1, OneMoves
<1>3. r \notin Listed
  BY <1>2 DEF Listed, Running
<1>4. \/ rows' = rows
      \/ rows' = rows + 1 /\ pc'[r] \in {"failed", "simulated"}
  BY <1>1
  DEF Moves, Submit, Review, Replay, Simulate, Step, Die, Insert, Edit,
      Resolve, Link, Park, Interpret, Fail, Act, Close, Arrive, Goto, TypeOK,
      AddRow, tables
<1>5. Cardinality(Listed) \in Nat /\ rows \in Nat
  BY <1>1, ListedIsBounded DEF TypeOK
<1>6. CASE pc'[r] \in {"failed", "simulated"}
  <2>1. Listed' = Listed \cup {r}
    BY <1>1, <1>2, <1>6 DEF Listed, TypeOK
  <2>2. Cardinality(Listed)' = Cardinality(Listed) + 1
    BY <1>3, <2>1, ListedIsBounded, FS_AddElement
  <2> QED
    BY <1>1, <1>4, <1>5, <2>2
<1>7. CASE pc'[r] \notin {"failed", "simulated"}
  <2>1. Listed' = Listed
    BY <1>1, <1>2, <1>3, <1>7 DEF Listed, TypeOK
  <2> QED
    BY <1>1, <1>4, <1>7, <2>1
<1> QED
  BY <1>6, <1>7

\* Every move keeps the shape of the variables.
LEMMA TypeStep ==
  ASSUME Core, NEW r \in Requests, Moves(r)
  PROVE  TypeOK'
<1>1. TypeOK /\ JobOK(r) /\ rows <= Cardinality(Listed)
  BY DEF Core
<1>2. /\ pc' = [pc EXCEPT ![r] = pc'[r]]
      /\ job' = [job EXCEPT ![r] = job'[r]]
      /\ pc'[r] \in Running \cup Ended
  BY <1>1, OneMoves
<1>3. pc' \in [Requests -> {"idle"} \cup Running \cup Ended]
  BY <1>1, <1>2 DEF TypeOK
<1>4. open \in 0 .. Last
  BY <1>1, ListedIsBounded, LastAssumption DEF TypeOK
<1>5. job'[r] \in Job
  <2>1. /\ job \in [Requests -> Job] /\ job[r] \in Job
        /\ link \in Identities \cup {"none"}
    BY <1>1 DEF TypeOK
  <2>2. ASSUME NEW what \in Job, NEW label, Arrive(r, what, label)
        PROVE  job'[r] \in Job
    BY <2>1, <2>2 DEF Arrive
  <2>3. ASSUME NEW p \in Payloads, Submit(r, p)
        PROVE  job'[r] \in Job
    <3> DEFINE what == [NoJob EXCEPT !.kind = "submit", !.payload = p]
    <3>1. what \in Job
      BY NoJobType DEF Job
    <3>2. \A s \in Senders : [what EXCEPT !.from = s] \in Job
      BY <3>1 DEF Job
    <3>3. \A seen \in row : seen.from \in Senders
      BY <1>1 DEF TypeOK, Row
    <3> HIDE DEF what
    <3>4. \/ \E label : Arrive(r, what, label)
          \/ \E seen \in row : \E label : Arrive(r, [what EXCEPT !.from = seen.from], label)
      BY <2>3 DEF Submit, what
    <3> QED
      BY <2>2, <3>1, <3>2, <3>3, <3>4
  <2>4. ASSUME NEW target \in Holders \cup Strangers \cup {Fresh[r]},
               Review(r, target)
        PROVE  job'[r] \in Job
    <3> DEFINE what == [NoJob EXCEPT !.kind = "review", !.identity = target]
    <3>1. what \in Job
      BY NoJobType DEF Job, Identities
    <3>3. [what EXCEPT !.identity = "none"] \in Job
      BY <3>1 DEF Job
    <3> HIDE DEF what
    <3>2. \/ \E label : Arrive(r, what, label)
          \/ \E label : Arrive(r, [what EXCEPT !.identity = "none"], label)
      BY <2>4 DEF Review, what
    <3> QED
      BY <2>2, <3>1, <3>2, <3>3
  <2>5. CASE Replay(r) \/ Simulate(r)
    <3>1. /\ [NoJob EXCEPT !.kind = "replay"] \in Job
          /\ [NoJob EXCEPT !.kind = "simulate"] \in Job
          /\ [NoJob EXCEPT !.kind = "replay", !.identity = link, !.row = open] \in Job
      BY <1>4, <2>1, NoJobType DEF Job
    <3> QED
      BY <2>2, <2>5, <3>1 DEF Replay, Simulate
  <2>6. CASE Resolve(r)
    <3>1. \A one \in row : one.from \in Senders
      BY <1>1 DEF TypeOK, Row
    <3>3. Fresh[r] \in Identities /\ Holders \subseteq Identities
      BY DEF Identities
    <3>4. ASSUME NEW now \in row, job' = [job EXCEPT ![r].from = now.from]
          PROVE  job'[r] \in Job
      BY <2>1, <3>1, <3>4 DEF Job
    <3>5. ASSUME NEW now \in row, NEW i \in Identities \cup {"none"},
                 job' = [job EXCEPT ![r].from = now.from, ![r].identity = i]
          PROVE  job'[r] \in Job
      BY <2>1, <3>1, <3>5 DEF Job
    <3> QED
      BY <2>1, <2>6, <3>3, <3>4, <3>5 DEF Resolve, ByName
  <2>7. CASE UNCHANGED job
    BY <2>1, <2>7
  <2> QED
    BY <2>2, <2>3, <2>4, <2>5, <2>6, <2>7
    DEF Moves, Step, Insert, Edit, Link, Park, Interpret, Fail, Act, Close, Die
<1>6. job' \in [Requests -> Job]
  BY <1>1, <1>2, <1>5 DEF TypeOK
<1>7. \/ row' = {}
      \/ \E one \in Row : row' = {one}
  <2>1. CASE UNCHANGED row
    BY <1>1, <2>1 DEF TypeOK
  <2>2. CASE Insert(r)
    BY <1>1, <2>2, SendersAssumption
    DEF Insert, Goto, TypeOK, JobOK, Accepting, Job, Row
  <2>3. CASE Edit(r)
    <3>1. job[r].payload \in Payloads
      BY <1>1, <2>3 DEF Edit, Goto, TypeOK, JobOK, Accepting, Job
    <3>2. ASSUME NEW old \in row
          PROVE  Rewritten(r, old) \in Row
      BY <1>1, <3>1, SendersAssumption DEF Rewritten, TypeOK, Row
    <3> QED
      BY <1>1, <2>3, <3>2 DEF Edit, TypeOK
  <2> QED
    BY <2>1, <2>2, <2>3
    DEF Moves, Submit, Review, Replay, Simulate, Step, Die, Resolve, Link,
        Park, Interpret, Fail, Act, Close, tables
<1>8. /\ link' \in Identities \cup {"none"}
      /\ leads' \subseteq Identities
  <2>1. CASE UNCHANGED <<link, leads>>
    BY <1>1, <2>1 DEF TypeOK
  <2>2. ASSUME NEW target \in Holders \cup Strangers \cup {Fresh[r]},
               Review(r, target)
        PROVE  link' \in Identities \cup {"none"} /\ leads' \subseteq Identities
    BY <1>1, <2>2 DEF Review, TypeOK, Identities, tables
  <2>3. CASE Link(r)
    BY <1>1, <2>3 DEF Link, Goto, TypeOK, Job
  <2>4. CASE Act(r)
    BY <1>1, <2>4 DEF Act, Goto, TypeOK, Job, JobOK, Resolved
  <2> QED
    BY <2>1, <2>2, <2>3, <2>4
    DEF Moves, Submit, Replay, Simulate, Step, Die, Insert, Edit, Resolve,
        Park, Interpret, Fail, Close, tables
<1>9. rows' \in Nat /\ open' \in 0 .. rows'
  <2>1. \/ rows' = rows /\ open' \in {open, 0}
        \/ rows' = rows + 1 /\ open' = rows'
    BY <1>1
    DEF Moves, Submit, Review, Replay, Simulate, Step, Die, Insert, Edit,
        Resolve, Link, Park, Interpret, Fail, Act, Close, Arrive, Goto, TypeOK,
        AddRow, Found, tables
  <2> QED
    BY <1>1, <2>1 DEF TypeOK
<1>10. review' \in {"none", "pending", "resolved"}
  BY <1>1
  DEF Moves, Submit, Review, Replay, Simulate, Step, Die, Insert, Edit,
      Resolve, Link, Park, Interpret, Fail, Act, Close, TypeOK, tables
<1>11. overlap' \in BOOLEAN
  BY <1>1
  DEF Moves, Submit, Review, Replay, Simulate, Step, Die, Insert, Edit,
      Resolve, Link, Park, Interpret, Fail, Act, Close, Arrive, Goto, TypeOK,
      AddRow, Found, tables
<1> QED
  BY <1>3, <1>6, <1>7, <1>8, <1>9, <1>10, <1>11 DEF TypeOK

-----------------------------------------------------------------------------
\* What was reached is not undone.
LEMMA Monotone ==
  ASSUME Core, NEW r \in Requests, Moves(r)
  PROVE  /\ row # {} => row' # {}
         /\ link # "none" => link' # "none"
         /\ leads \subseteq leads'
         /\ review # "none" => review' # "none"
         /\ review = "resolved" => review' = "resolved"
<1>1. JobOK(r)
  BY DEF Core
<1>2. row # {} => row' # {}
  <2>1. CASE Edit(r)
    BY <2>1 DEF Edit
  <2> QED
    BY <2>1
    DEF Moves, Submit, Review, Replay, Simulate, Step, Die, Insert, Resolve,
        Link, Park, Interpret, Fail, Act, Close, tables
<1>3. link # "none" => link' # "none"
  <2>1. CASE Link(r)
    BY <1>1, <2>1 DEF Link, Goto, JobOK
  <2>2. ASSUME NEW target \in Holders \cup Strangers \cup {Fresh[r]},
               Review(r, target)
        PROVE  link # "none" => link' # "none"
    <3>1. target # "none"
      BY IdentitiesAssumption DEF Identities
    <3> QED
      BY <2>2, <3>1 DEF Review, tables
  <2> QED
    BY <2>1, <2>2
    DEF Moves, Submit, Replay, Simulate, Step, Die, Insert, Edit, Resolve,
        Park, Interpret, Fail, Act, Close, tables
<1>4. leads \subseteq leads'
  BY DEF Moves, Submit, Review, Replay, Simulate, Step, Die, Insert, Edit,
         Resolve, Link, Park, Interpret, Fail, Act, Close, tables
<1>5. /\ review # "none" => review' # "none"
      /\ review = "resolved" => review' = "resolved"
  BY DEF Moves, Submit, Review, Replay, Simulate, Step, Die, Insert, Edit,
         Resolve, Link, Park, Interpret, Fail, Act, Close, tables
<1> QED
  BY <1>2, <1>3, <1>4, <1>5

-----------------------------------------------------------------------------
(* What the actions that write a session's job leave in it                 *)

LEMMA ArriveEffect ==
  ASSUME TypeOK, NEW r \in Requests, NEW what, NEW label,
         Arrive(r, what, label)
  PROVE  pc[r] = "idle" /\ pc'[r] = label /\ job'[r] = what
BY DEF Arrive, TypeOK

LEMMA SubmitEffect ==
  ASSUME TypeOK, NEW r \in Requests, NEW p \in Payloads, Submit(r, p)
  PROVE  /\ pc[r] = "idle" /\ UNCHANGED tables
         /\ job'[r].kind = "submit" /\ job'[r].payload = p
         /\ job'[r].identity = "none"
         /\ pc'[r] \in {"insert", "duplicate", "edit"}
         /\ pc'[r] # "insert" => row # {}
<1> DEFINE what == [NoJob EXCEPT !.kind = "submit", !.payload = p]
           edit(s) == [what EXCEPT !.from = s]
<1>1. what.kind = "submit" /\ what.payload = p /\ what.identity = "none"
  BY NoJobType DEF Job, NoJob
<1>2. what \in Job
  BY NoJobType DEF Job
<1>3. \A s : /\ edit(s).kind = what.kind /\ edit(s).payload = what.payload
             /\ edit(s).identity = what.identity
  BY <1>2 DEF Job
<1> HIDE DEF what, edit
<1>4. \/ Arrive(r, what, "insert")
      \/ row # {} /\ Arrive(r, what, "duplicate")
      \/ \E s : row # {} /\ Arrive(r, edit(s), "edit")
  BY DEF Submit, what, edit
<1>5. UNCHANGED tables
  BY DEF Submit
<1> QED
  BY <1>1, <1>3, <1>4, <1>5, ArriveEffect

LEMMA ReviewEffect ==
  ASSUME TypeOK, NEW r \in Requests,
         NEW target \in Holders \cup Strangers \cup {Fresh[r]},
         Review(r, target)
  PROVE  /\ pc[r] = "idle" /\ target # "none"
         /\ job'[r].kind = "review"
         /\ \/ /\ review = "pending" /\ review' = "resolved" /\ link' = target
               /\ pc'[r] = "interpret" /\ job'[r].identity = target
               /\ UNCHANGED <<row, rows, open, leads>>
            \/ /\ pc'[r] = "conflict" /\ job'[r].identity = "none"
               /\ UNCHANGED tables
<1> DEFINE what == [NoJob EXCEPT !.kind = "review", !.identity = target]
           refused == [what EXCEPT !.identity = "none"]
<1>1. what.kind = "review" /\ what.identity = target
  BY NoJobType DEF Job
<1>2. what \in Job
  BY NoJobType DEF Job, Identities
<1>3. refused.kind = "review" /\ refused.identity = "none"
  BY <1>1, <1>2 DEF Job
<1>4. target # "none"
  BY IdentitiesAssumption DEF Identities
<1> HIDE DEF what, refused
<1>5. \/ /\ review = "pending" /\ review' = "resolved" /\ link' = target
         /\ Arrive(r, what, "interpret")
         /\ UNCHANGED <<row, rows, open, leads>>
      \/ /\ Arrive(r, refused, "conflict")
         /\ UNCHANGED tables
  BY DEF Review, AfterReview, what, refused
<1> QED
  BY <1>1, <1>3, <1>4, <1>5, ArriveEffect

LEMMA ReplayEffect ==
  ASSUME TypeOK, NEW r \in Requests, Replay(r)
  PROVE  /\ pc[r] = "idle" /\ row # {} /\ UNCHANGED tables
         /\ job'[r].kind = "replay"
         /\ \/ /\ open # 0 /\ link # "none" /\ pc'[r] = "interpret"
               /\ job'[r].identity = link
            \/ pc'[r] = "conflict" /\ job'[r].identity = "none"
<1> DEFINE what == [NoJob EXCEPT !.kind = "replay", !.identity = link, !.row = open]
           refused == [NoJob EXCEPT !.kind = "replay"]
<1>1. what.kind = "replay" /\ what.identity = link
  BY NoJobType DEF Job
<1>2. refused.kind = "replay" /\ refused.identity = "none"
  BY DEF NoJob
<1> HIDE DEF what, refused
<1>3. /\ row # {} /\ UNCHANGED tables
      /\ \/ open # 0 /\ link # "none" /\ Arrive(r, what, "interpret")
         \/ Arrive(r, refused, "conflict")
  BY DEF Replay, Found, tables, what, refused
<1> QED
  BY <1>1, <1>2, <1>3, ArriveEffect

LEMMA SimulateEffect ==
  ASSUME TypeOK, NEW r \in Requests, Simulate(r)
  PROVE  /\ pc[r] = "idle" /\ row # {} /\ UNCHANGED <<row, link, review, leads>>
         /\ job'[r].kind = "simulate" /\ job'[r].identity = "none"
         /\ \/ open = 0 /\ rows' = rows + 1 /\ open' = rows' /\ pc'[r] = "simulated"
            \/ open # 0 /\ UNCHANGED <<rows, open>> /\ pc'[r] = "conflict"
<1> DEFINE what == [NoJob EXCEPT !.kind = "simulate"]
<1>1. what.kind = "simulate" /\ what.identity = "none"
  BY DEF NoJob
<1> HIDE DEF what
<1>2. /\ row # {} /\ UNCHANGED <<row, link, review, leads>>
      /\ \/ open = 0 /\ Arrive(r, what, "simulated") /\ rows' = rows + 1 /\ open' = rows'
         \/ open # 0 /\ Arrive(r, what, "conflict") /\ UNCHANGED <<rows, open>>
  BY DEF Simulate, AddRow, what
<1> QED
  BY <1>1, <1>2, ArriveEffect

LEMMA ResolveEffect ==
  ASSUME TypeOK, NEW r \in Requests, Resolve(r)
  PROVE  /\ pc[r] = "resolve" /\ UNCHANGED tables
         /\ job'[r].kind = job[r].kind /\ job'[r].payload = job[r].payload
         /\ \/ /\ pc'[r] = "interpret" /\ link # "none"
               /\ job'[r].identity = link
            \/ /\ pc'[r] = "link" /\ link = "none" /\ job'[r].identity # "none"
               /\ \/ job'[r].identity = Fresh[r]
                  \/ \E now \in row : job'[r].identity = now.from
            \/ /\ pc'[r] = "park" /\ link = "none"
               /\ job'[r].identity = job[r].identity
<1>1. job \in [Requests -> Job] /\ pc \in [Requests -> {"idle"} \cup Running \cup Ended]
  BY DEF TypeOK
<1>2. pc[r] = "resolve" /\ UNCHANGED tables
  BY DEF Resolve, Goto
<1>3. ASSUME NEW now \in row, job' = [job EXCEPT ![r].from = now.from]
      PROVE  /\ job'[r].kind = job[r].kind /\ job'[r].payload = job[r].payload
             /\ job'[r].identity = job[r].identity
  BY <1>1, <1>3 DEF Job
<1>4. ASSUME NEW now \in row, NEW i,
             job' = [job EXCEPT ![r].from = now.from, ![r].identity = i]
      PROVE  /\ job'[r].kind = job[r].kind /\ job'[r].payload = job[r].payload
             /\ job'[r].identity = i
  BY <1>1, <1>4 DEF Job
<1>5. \A i \in Holders \cup {Fresh[r]} : i # "none"
  BY IdentitiesAssumption DEF Identities
<1>6. CASE link # "none"
  BY <1>1, <1>2, <1>4, <1>6 DEF Resolve, Goto, NotLinked
<1>7. CASE link = "none"
  BY <1>1, <1>2, <1>3, <1>4, <1>5, <1>7 DEF Resolve, Goto, NotLinked, ByName
<1> QED
  BY <1>6, <1>7

\* Every move keeps what places say of sessions.
LEMMA JobStep ==
  ASSUME Core, NEW r \in Requests, Moves(r)
  PROVE  /\ \A s \in Requests : JobOK(s)'
         /\ review' # "none" => row' # {}
<1>1. /\ TypeOK /\ \A s \in Requests : JobOK(s)
      /\ review # "none" => row # {}
  BY DEF Core
<1>2. /\ pc' = [pc EXCEPT ![r] = pc'[r]]
      /\ job' = [job EXCEPT ![r] = job'[r]]
      /\ pc'[r] \in Running \cup Ended
  BY <1>1, OneMoves
<1>3. ASSUME NEW s \in Requests, s # r
      PROVE  JobOK(s)'
  <2>1. pc'[s] = pc[s] /\ job'[s] = job[s]
    BY <1>1, <1>2, <1>3 DEF TypeOK
  <2> QED
    BY <1>1, <2>1, Monotone DEF JobOK
<1>4. pc \in [Requests -> {"idle"} \cup Running \cup Ended] /\ job \in [Requests -> Job]
  BY <1>1 DEF TypeOK
<1>5. JobOK(r)'
  <2> USE DEF JobOK, Accepting, Resolved
  <2>1. ASSUME NEW p \in Payloads, Submit(r, p)
        PROVE  JobOK(r)'
    BY <1>1, <2>1, SubmitEffect DEF tables
  <2>2. ASSUME NEW target \in Holders \cup Strangers \cup {Fresh[r]},
               Review(r, target)
        PROVE  JobOK(r)'
    BY <1>1, <2>2, ReviewEffect, Monotone
  <2>3. CASE Replay(r)
    BY <1>1, <2>3, ReplayEffect DEF tables
  <2>4. CASE Simulate(r)
    BY <1>1, <2>4, SimulateEffect
  <2>5. CASE Insert(r)
    BY <1>1, <1>4, <2>5 DEF Insert, Goto
  <2>6. CASE Edit(r)
    BY <1>1, <1>4, <2>6 DEF Edit, Goto
  <2>7. CASE Resolve(r)
    BY <1>1, <2>7, ResolveEffect DEF tables
  <2>8. CASE Link(r)
    BY <1>1, <1>4, <2>8 DEF Link, Goto
  <2>9. CASE Park(r)
    BY <1>1, <1>4, <2>9 DEF Park, Goto, AfterParking
  <2>10. CASE Interpret(r)
    BY <1>1, <1>4, <2>10 DEF Interpret, Goto, tables
  <2>11. CASE Fail(r)
    BY <1>1, <1>4, <2>11 DEF Fail, Goto
  <2>12. CASE Act(r)
    BY <1>1, <1>4, <2>12 DEF Act, Goto
  <2>13. CASE Close(r)
    BY <1>1, <1>4, <2>13 DEF Close, Goto
  <2>14. CASE Die(r)
    BY <1>1, <1>4, <2>14 DEF Die, Goto
  <2> QED
    BY <2>1, <2>2, <2>3, <2>4, <2>5, <2>6, <2>7, <2>8, <2>9, <2>10, <2>11,
       <2>12, <2>13, <2>14
    DEF Moves, Step
<1>6. review' # "none" => row' # {}
  <2>1. CASE Park(r)
    BY <1>1, <2>1, Monotone DEF Park, Goto, JobOK, Accepting
  <2> QED
    BY <1>1, <2>1, Monotone
    DEF Moves, Submit, Review, Replay, Simulate, Step, Die, Insert, Edit,
        Resolve, Link, Interpret, Fail, Act, Close, tables
<1> QED
  BY <1>3, <1>5, <1>6

LEMMA CoreStep ==
  ASSUME Core, NEW r \in Requests, Moves(r)
  PROVE  Core'
BY TypeStep, JobStep, RowsCounted DEF Core

-----------------------------------------------------------------------------
(* Where identities come from                                              *)

\* Who has told something goes on having told it.
LEMMA EarnedStays ==
  ASSUME Core, NEW r \in Requests, Moves(r)
  PROVE  /\ \A s \in Requests : job[s].kind = "submit" =>
              job'[s].kind = "submit" /\ job'[s].payload = job[s].payload
         /\ \A i : Earned(i) => Earned(i)'
<1>1. TypeOK /\ JobOK(r)
  BY DEF Core
<1>2. /\ \A s \in Requests \ {r} : job'[s] = job[s]
      /\ pc[r] \in {"idle"} \cup Running
  BY <1>1, OneMoves DEF TypeOK
<1>3. \/ job'[r] = job[r]
      \/ job[r].kind = "none"
      \/ /\ job[r].kind = "submit" /\ job'[r].kind = "submit"
         /\ job'[r].payload = job[r].payload
  <2>1. CASE Resolve(r)
    BY <1>1, <2>1, ResolveEffect DEF JobOK, Accepting
  <2>2. CASE pc[r] = "idle"
    BY <1>1, <2>2 DEF JobOK, NoJob
  <2> QED
    BY <1>1, <2>1, <2>2, SubmitEffect, ReviewEffect, ReplayEffect,
       SimulateEffect
    DEF Moves, Step, Insert, Edit, Link, Park, Interpret, Fail, Act, Close, Die
<1>4. \A s \in Requests : job[s].kind = "submit" =>
        job'[s].kind = "submit" /\ job'[s].payload = job[s].payload
  BY <1>2, <1>3
<1>5. \A s \in Requests : job[s].kind = "review" => job'[s] = job[s]
  BY <1>2, <1>3
<1> QED
  BY <1>4, <1>5 DEF Earned

\* No identity comes from nowhere.
LEMMA SourcesStep ==
  ASSUME Core, Sources, NEW r \in Requests, Moves(r)
  PROVE  Sources'
<1>1. TypeOK /\ JobOK(r)
  BY DEF Core
<1>2. \A s \in Requests \ {r} : job'[s] = job[s]
  BY <1>1, OneMoves DEF TypeOK
<1> DEFINE Told(one) == \E s \in Requests :
      job[s].kind = "submit" /\ From[job[s].payload] = one.from
<1>3. \A one \in row' : Told(one)'
  <2>1. \A one : Told(one) => Told(one)'
    BY EarnedStays
  <2>2. CASE UNCHANGED row
    BY <2>1, <2>2 DEF Sources
  <2>3. CASE Insert(r)
    <3>1. \A one \in row' \ row : Told(one)
      BY <1>1, <2>3 DEF Insert, Goto, JobOK, Accepting
    <3> QED
      BY <2>1, <3>1 DEF Sources
  <2>4. CASE Edit(r)
    <3>1. job[r].kind = "submit"
      BY <1>1, <2>4 DEF Edit, Goto, JobOK, Accepting
    <3>2. \A old \in row : Told(Rewritten(r, old))
      BY <3>1 DEF Rewritten, Sources
    <3> QED
      BY <2>1, <2>4, <3>2 DEF Edit
  <2> QED
    BY <2>2, <2>3, <2>4
    DEF Moves, Submit, Review, Replay, Simulate, Step, Die, Resolve, Link,
        Park, Interpret, Fail, Act, Close, tables
<1>4. \A i : i = link' /\ i # "none" => Earned(i)'
  <2>1. CASE UNCHANGED link
    BY <2>1, EarnedStays DEF Sources
  <2>2. CASE Link(r)
    BY <1>1, <2>2, EarnedStays DEF Link, Goto, JobOK, Sources
  <2>3. ASSUME NEW target \in Holders \cup Strangers \cup {Fresh[r]},
               Review(r, target)
        PROVE  \A i : i = link' /\ i # "none" => Earned(i)'
    <3>1. CASE UNCHANGED tables
      BY <3>1, EarnedStays DEF Sources, tables
    <3>2. CASE link' = target /\ job'[r].kind = "review" /\ job'[r].identity = target
      BY <3>2 DEF Earned
    <3> QED
      BY <1>1, <2>3, <3>1, <3>2, ReviewEffect
  <2> QED
    BY <2>1, <2>2, <2>3
    DEF Moves, Submit, Replay, Simulate, Step, Die, Insert, Edit, Resolve,
        Park, Interpret, Fail, Act, Close, tables
<1>5. \A i : i = job'[r].identity /\ i # "none" => Earned(i)'
  <2>1. CASE UNCHANGED job
    BY <2>1, EarnedStays DEF Sources
  <2>2. ASSUME NEW p \in Payloads, Submit(r, p)
        PROVE  job'[r].identity = "none"
    BY <1>1, <2>2, SubmitEffect
  <2>3. ASSUME NEW target \in Holders \cup Strangers \cup {Fresh[r]},
               Review(r, target)
        PROVE  \A i : i = job'[r].identity /\ i # "none" => Earned(i)'
    BY <1>1, <2>3, ReviewEffect DEF Earned
  <2>4. CASE Replay(r)
    BY <1>1, <2>4, ReplayEffect, EarnedStays DEF Sources
  <2>5. CASE Simulate(r)
    BY <1>1, <2>5, SimulateEffect
  <2>6. CASE Resolve(r)
    <3>1. job[r].kind = "submit"
      BY <1>1, <2>6, ResolveEffect DEF JobOK, Accepting
    <3>2. Earned(Fresh[r])
      BY <3>1 DEF Earned
    <3>3. \A one \in row : Earned(one.from)
      BY DEF Sources, Earned
    <3> QED
      BY <1>1, <2>6, <3>2, <3>3, ResolveEffect, EarnedStays DEF Sources
  <2> QED
    BY <2>1, <2>2, <2>3, <2>4, <2>5, <2>6
    DEF Moves, Step, Insert, Edit, Link, Park, Interpret, Fail, Act, Close, Die
<1>6. \A s \in Requests : \A i : i = job'[s].identity /\ i # "none" => Earned(i)'
  BY <1>2, <1>5, EarnedStays DEF Sources
<1>7. \A i \in leads' : Earned(i)'
  <2>1. CASE Act(r)
    BY <1>1, <2>1, EarnedStays DEF Act, Goto, JobOK, Resolved, Sources
  <2> QED
    BY <2>1, EarnedStays
    DEF Sources, Moves, Submit, Review, Replay, Simulate, Step, Die, Insert,
        Edit, Resolve, Link, Park, Interpret, Fail, Close, tables
<1> QED
  BY <1>3, <1>4, <1>6, <1>7 DEF Sources

-----------------------------------------------------------------------------
(* Nothing is dropped                                                      *)

\* An event that has an identity is not lost again: a failure leaves a row, and
\* a row goes only when there is a lead.
LEMMA AdvancedStays ==
  ASSUME Core, NEW r \in Requests, Moves(r), Advanced
  PROVE  Advanced'
<1>1. TypeOK /\ JobOK(r)
  BY DEF Core
<1>2. /\ \A s \in Requests \ {r} : pc'[s] = pc[s]
      /\ pc[r] \in {"idle"} \cup Running
  BY <1>1, OneMoves DEF TypeOK
<1>3. CASE leads # {}
  BY <1>3, Monotone DEF Advanced
<1>4. CASE open # 0
  <2>1. CASE Close(r)
    BY <1>1, <2>1, Monotone DEF Close, Goto, JobOK, Advanced
  <2>2. CASE ~Close(r)
    <3>1. open' = open
      BY <1>4, <2>2
      DEF Moves, Submit, Review, Replay, Simulate, Step, Die, Insert, Edit,
          Resolve, Link, Park, Interpret, Fail, Act, AddRow, Found, tables
    <3> QED
      BY <1>4, <3>1 DEF Advanced
  <2> QED
    BY <2>1, <2>2
<1>5. ASSUME NEW s \in Requests, pc[s] \in {"interpret", "fail", "act", "dead"}
      PROVE  Advanced'
  <2>1. CASE s # r
    BY <1>2, <1>5, <2>1 DEF Advanced
  <2>2. CASE s = r
    <3>1. pc[r] \in {"interpret", "fail", "act"}
      BY <1>2, <1>5, <2>2 DEF Running
    <3>2. Interpret(r) \/ Fail(r) \/ Act(r) \/ Die(r)
      BY <1>1, <3>1, SubmitEffect, ReviewEffect, ReplayEffect, SimulateEffect,
         ResolveEffect
      DEF Moves, Step, Insert, Edit, Link, Park, Close, Goto
    <3>3. CASE Interpret(r) \/ Die(r)
      <4>1. pc'[r] \in {"act", "fail", "dead"}
        BY <1>1, <3>3 DEF Interpret, Die, Goto, TypeOK
      <4> QED
        BY <4>1 DEF Advanced
    <3>4. CASE Fail(r)
      BY <1>1, <3>4 DEF Fail, AddRow, Advanced, TypeOK
    <3>5. CASE Act(r)
      BY <3>5 DEF Act, Advanced
    <3> QED
      BY <3>2, <3>3, <3>4, <3>5
  <2> QED
    BY <2>1, <2>2
<1> QED
  BY <1>3, <1>4, <1>5 DEF Advanced

\* Whoever stops carrying an event has handed it on, or has died.
LEMMA CarriedStep ==
  ASSUME Core, Carried, NEW r \in Requests, Moves(r)
  PROVE  Carried'
<1>1. TypeOK /\ JobOK(r) /\ (review # "none" => row # {})
  BY DEF Core
<1>2. /\ \A s \in Requests \ {r} : pc'[s] = pc[s]
      /\ pc[r] \in {"idle"} \cup Running
  BY <1>1, OneMoves DEF TypeOK
<1> DEFINE Settling == \/ Advanced \/ review = "pending"
                       \/ \E s \in Requests : pc[s] \in {"resolve", "link", "park"}
<1>3. CASE row = {}
  <2>1. row' # {} => Insert(r)
    BY <1>3
    DEF Moves, Submit, Review, Replay, Simulate, Step, Die, Edit, Resolve,
        Link, Park, Interpret, Fail, Act, Close, tables
  <2>2. Insert(r) => row' = {} \/ pc'[r] = "resolve"
    BY <1>1, <1>3 DEF Insert, Goto, TypeOK
  <2>3. review' # "resolved"
    BY <1>1, <1>3, ReviewEffect
    DEF Moves, Submit, Replay, Simulate, Step, Die, Insert, Edit, Resolve,
        Link, Park, Interpret, Fail, Act, Close, tables
  <2> QED
    BY <2>1, <2>2, <2>3 DEF Carried
<1>4. CASE Advanced
  BY <1>4, AdvancedStays DEF Carried
<1>5. CASE row # {} /\ ~Advanced
  <2>1. Settling /\ review # "resolved"
    BY <1>5 DEF Carried
  <2>2. ASSUME NEW target \in Holders \cup Strangers \cup {Fresh[r]},
               Review(r, target)
        PROVE  Advanced' \/ (Settling' /\ review' = review)
    <3>1. CASE pc'[r] = "interpret"
      BY <3>1 DEF Advanced
    <3>2. CASE UNCHANGED tables /\ pc[r] = "idle"
      BY <1>2, <1>5, <2>1, <3>2 DEF tables
    <3> QED
      BY <1>1, <2>2, <3>1, <3>2, ReviewEffect
  <2>3. CASE Park(r)
    <3>1. review' = "pending"
      BY <1>1, <2>1, <2>3 DEF Park, TypeOK
    <3> QED
      BY <3>1 DEF Carried
  <2>4. CASE ~Park(r) /\ UNCHANGED review
    <3>1. CASE review = "pending"
      BY <2>4, <3>1 DEF Carried
    <3>2. ASSUME NEW s \in Requests, pc[s] \in {"resolve", "link", "park"}
          PROVE  Settling'
      <4>1. CASE s # r
        BY <1>2, <3>2, <4>1
      <4>2. CASE s = r
        <5>1. Resolve(r) \/ Link(r) \/ Die(r)
          BY <1>1, <2>4, <3>2, <4>2, SubmitEffect, ReviewEffect, ReplayEffect,
             SimulateEffect
          DEF Moves, Step, Insert, Edit, Interpret, Fail, Act, Close, Goto
        <5>2. pc'[r] \in {"interpret", "link", "park", "dead"}
          BY <1>1, <5>1, ResolveEffect DEF Link, Die, Goto, TypeOK
        <5> QED
          BY <5>2 DEF Advanced
      <4> QED
        BY <4>1, <4>2
    <3> QED
      BY <1>5, <2>1, <2>4, <3>1, <3>2 DEF Carried
  <2>5. UNCHANGED review \/ Park(r)
          \/ \E target \in Holders \cup Strangers \cup {Fresh[r]} : Review(r, target)
    BY DEF Moves, Submit, Replay, Simulate, Step, Die, Insert, Edit, Resolve,
           Link, Interpret, Fail, Act, Close, tables
  <2> QED
    BY <2>1, <2>2, <2>3, <2>4, <2>5 DEF Carried
<1> QED
  BY <1>3, <1>4, <1>5

-----------------------------------------------------------------------------
(* Requests one after the other                                            *)

\* Who moves while nothing overlaps is the only one in progress.
LEMMA OthersRest ==
  ASSUME Core, Alone, NEW r \in Requests, Moves(r), ~overlap'
  PROVE  /\ ~overlap
         /\ \A s \in Requests \ {r} : pc[s] \notin Running /\ pc'[s] = pc[s]
<1>1. TypeOK /\ overlap \in BOOLEAN
  BY DEF Core, TypeOK
<1>2. /\ \A s \in Requests \ {r} : pc'[s] = pc[s]
      /\ pc[r] \in {"idle"} \cup Running
  BY <1>1, OneMoves DEF TypeOK
<1>3. CASE pc[r] = "idle"
  <2>1. \/ \E p \in Payloads : Submit(r, p)
        \/ \E target \in Holders \cup Strangers \cup {Fresh[r]} : Review(r, target)
        \/ Replay(r) \/ Simulate(r)
    BY <1>3
    DEF Moves, Step, Die, Insert, Edit, Resolve, Link, Park, Interpret, Fail,
        Act, Close, Goto, Running
  <2>2. ~overlap /\ Busy = {}
    BY <1>1, <2>1 DEF Submit, Review, Replay, Simulate, Arrive
  <2> QED
    BY <1>2, <2>2 DEF Busy
<1>4. CASE pc[r] \in Running
  <2>1. overlap' = overlap
    BY <1>4
    DEF Moves, Submit, Review, Replay, Simulate, Step, Die, Insert, Edit,
        Resolve, Link, Park, Interpret, Fail, Act, Close, Goto, Arrive, Running
  <2>2. \A s \in Busy : s = r
    BY <1>4, <2>1 DEF Alone, Busy
  <2> QED
    BY <1>2, <2>1, <2>2 DEF Busy
<1> QED
  BY <1>2, <1>3, <1>4

\* What is read is still true when it is used, if nobody else moves.
LEMMA AloneStep ==
  ASSUME Core, Alone, NEW r \in Requests, Moves(r)
  PROVE  Alone'
<1> SUFFICES ASSUME ~overlap'
             PROVE  Alone'
  BY DEF Alone
<1>1. TypeOK /\ JobOK(r)
  BY DEF Core
<1>2. /\ ~overlap
      /\ \A s \in Requests \ {r} : pc'[s] \notin Running
  BY OthersRest
<1>3. \A s, u \in Busy' : s = u
  BY <1>2 DEF Busy
<1>4. ASSUME review' # "resolved"
      PROVE  leads' \subseteq {link'} /\ Faithful(r)'
  <2>1. review # "resolved" /\ leads \subseteq {link} /\ Faithful(r)
    BY <1>2, <1>4, Monotone DEF Alone
  <2> USE DEF Faithful, Resolved
  <2>2. ASSUME NEW p \in Payloads, Submit(r, p)
        PROVE  leads' \subseteq {link'} /\ Faithful(r)'
    BY <1>1, <2>1, <2>2, SubmitEffect DEF tables
  <2>3. ASSUME NEW target \in Holders \cup Strangers \cup {Fresh[r]},
               Review(r, target)
        PROVE  leads' \subseteq {link'} /\ Faithful(r)'
    BY <1>1, <1>4, <2>1, <2>3, ReviewEffect DEF tables
  <2>4. CASE Replay(r)
    BY <1>1, <2>1, <2>4, ReplayEffect DEF tables
  <2>5. CASE Simulate(r)
    BY <1>1, <2>1, <2>5, SimulateEffect
  <2>6. CASE Resolve(r)
    BY <1>1, <2>1, <2>6, ResolveEffect DEF tables
  <2>7. CASE Link(r)
    <3>1. link = "none" /\ link' = job[r].identity /\ leads' = leads
      BY <2>1, <2>7 DEF Link, Goto
    <3>2. leads = {}
      BY <1>1, <2>1, <3>1, IdentitiesAssumption DEF TypeOK
    <3> QED
      BY <1>1, <2>7, <3>1, <3>2 DEF Link, Goto, TypeOK
  <2>8. CASE Insert(r) \/ Edit(r) \/ Park(r) \/ Interpret(r) \/ Fail(r) \/ Act(r)
               \/ Close(r) \/ Die(r)
    <3>1. /\ link' = link /\ job' = job
          /\ pc'[r] # "link"
          /\ pc'[r] \in Resolved => pc[r] \in Resolved
          /\ leads' \in {leads, leads \cup {job[r].identity}}
          /\ leads' # leads => pc[r] = "act"
      BY <1>1, <2>8
      DEF Insert, Edit, Park, Interpret, Fail, Act, Close, Die, Goto, TypeOK,
          AfterParking, tables
    <3> QED
      BY <2>1, <3>1
  <2> QED
    BY <2>2, <2>3, <2>4, <2>5, <2>6, <2>7, <2>8 DEF Moves, Step
<1>5. \A s \in Requests : pc'[s] \notin Running => Faithful(s)'
  BY DEF Faithful, Resolved, Running
<1> QED
  BY <1>2, <1>3, <1>4, <1>5 DEF Alone

-----------------------------------------------------------------------------
(* Answers                                                                 *)

\* A listed event stays listed until it has a lead.
LEMMA OpenStays ==
  ASSUME Core, NEW r \in Requests, Moves(r), open # 0
  PROVE  open' # 0 \/ leads' # {}
<1>1. CASE Close(r)
  BY <1>1, Monotone DEF Core, Close, Goto, JobOK
<1>2. CASE ~Close(r)
  BY <1>2
  DEF Moves, Submit, Review, Replay, Simulate, Step, Die, Insert, Edit,
      Resolve, Link, Park, Interpret, Fail, Act, AddRow, Found, tables
<1> QED
  BY <1>1, <1>2

\* An answer is true when given, and nothing that follows falsifies it.
LEMMA AnswersStep ==
  ASSUME Core, AnswersHold, NEW r \in Requests, Moves(r)
  PROVE  AnswersHold'
<1> DEFINE Kept(s) == /\ pc[s] = "done" => job[s].identity \in leads
                      /\ pc[s] = "failed" => link # "none"
                      /\ pc[s] \in {"failed", "simulated"} => open # 0 \/ leads # {}
                      /\ pc[s] = "parked" => review # "none"
                      /\ pc[s] = "duplicate" => row # {}
<1>1. TypeOK /\ JobOK(r) /\ \A s \in Requests : Kept(s)
  BY DEF Core, AnswersHold
<1>2. /\ \A s \in Requests \ {r} : pc'[s] = pc[s] /\ job'[s] = job[s]
      /\ pc'[r] \in Running \cup Ended
  BY <1>1, OneMoves DEF TypeOK
<1>3. ASSUME NEW s \in Requests, s # r
      PROVE  Kept(s)'
  BY <1>1, <1>2, <1>3, Monotone, OpenStays
<1>4. Kept(r)'
  <2>1. ASSUME NEW p \in Payloads, Submit(r, p)
        PROVE  Kept(r)'
    BY <1>1, <2>1, SubmitEffect DEF tables
  <2>2. ASSUME NEW target \in Holders \cup Strangers \cup {Fresh[r]},
               Review(r, target)
        PROVE  Kept(r)'
    BY <1>1, <2>2, ReviewEffect
  <2>3. CASE Replay(r)
    BY <1>1, <2>3, ReplayEffect
  <2>4. CASE Simulate(r)
    BY <1>1, <2>4, SimulateEffect DEF TypeOK
  <2>5. CASE Resolve(r)
    BY <1>1, <2>5, ResolveEffect
  <2>6. CASE Insert(r) \/ Edit(r) \/ Link(r) \/ Interpret(r) \/ Die(r)
    <3>1. /\ pc'[r] \in {"resolve", "duplicate", "interpret", "act", "fail", "dead"}
          /\ pc'[r] = "duplicate" => row' # {}
      BY <1>1, <2>6 DEF Insert, Edit, Link, Interpret, Die, Goto, TypeOK
    <3> QED
      BY <3>1
  <2>7. CASE Park(r)
    BY <1>1, <2>7 DEF Park, Goto, AfterParking, TypeOK
  <2>8. CASE Fail(r)
    BY <1>1, <2>8 DEF Fail, Goto, AddRow, TypeOK, JobOK, Resolved
  <2>9. CASE Act(r)
    BY <1>1, <2>9 DEF Act, Goto, TypeOK
  <2>10. CASE Close(r)
    BY <1>1, <2>10 DEF Close, Goto, TypeOK, JobOK
  <2> QED
    BY <2>1, <2>2, <2>3, <2>4, <2>5, <2>6, <2>7, <2>8, <2>9, <2>10
    DEF Moves, Step
<1> QED
  BY <1>3, <1>4 DEF AnswersHold

-----------------------------------------------------------------------------
(* The theorems                                                            *)

\* The inductive invariant.
IInv == Core /\ Sources /\ Carried /\ Alone /\ AnswersHold

LEMMA InitIInv == Init => IInv
<1> SUFFICES ASSUME Init PROVE IInv
  OBVIOUS
<1>1. Sources
  BY DEF Init, Sources, NoJob
<1>2. Carried /\ AnswersHold
  BY DEF Init, Carried, AnswersHold
<1>3. Alone
  BY DEF Init, Alone, Busy, Running, Faithful, Resolved
<1> QED
  BY <1>1, <1>2, <1>3, InitCore DEF IInv

LEMMA IInvStep == IInv /\ [Next]_vars => IInv'
<1> SUFFICES ASSUME IInv, [Next]_vars PROVE IInv'
  OBVIOUS
<1>1. ASSUME NEW r \in Requests, Moves(r)
      PROVE  IInv'
  BY <1>1, CoreStep, SourcesStep, CarriedStep, AloneStep, AnswersStep DEF IInv
<1>2. CASE UNCHANGED vars
  BY <1>2
  DEF vars, tables, IInv, Core, TypeOK, JobOK, Listed, Sources, Earned,
      Carried, Advanced, Alone, Busy, Faithful, AnswersHold
<1> QED
  BY <1>1, <1>2, NextIsMoves

LEMMA Invariance == Spec => []IInv
BY InitIInv, IInvStep, PTL DEF Spec

-----------------------------------------------------------------------------
\* Every variable keeps its shape; in particular the event has at most one row,
\* and as many dead-letter rows as are numbered.
THEOREM TypeInvariant == Spec => []TypeOK
<1>1. IInv => TypeOK
  BY DEF IInv, Core
<1> QED
  BY <1>1, Invariance, PTL

\* Whatever other requests do and whoever dies, what a request was answered (a
\* lead, a failure on the worklist, an entry for a reviewer, a duplicate) stays
\* true.
THEOREM Answers == Spec => []AnswersHold
<1>1. IInv => AnswersHold
  BY DEF IInv
<1> QED
  BY <1>1, Invariance, PTL

\* Once nothing is in progress, an accepted event has a lead, waits for a
\* reviewer or is on the worklist, unless a request died.
THEOREM NothingDropped == Spec => []StrandedOnlyByDeath
<1>1. IInv => StrandedOnlyByDeath
  <2> SUFFICES ASSUME Carried, row # {}, Busy = {},
                      \A r \in Requests : pc[r] # "dead"
               PROVE  leads # {} \/ review = "pending" \/ open # 0
    BY DEF IInv, StrandedOnlyByDeath
  <2>1. \A r \in Requests : pc[r] \notin Running
    BY DEF Busy
  <2> QED
    BY <2>1 DEF Carried, Advanced, Running
<1> QED
  BY <1>1, Invariance, PTL

\* A lead comes to an identity only by a submitted key, by a name that made the
\* identity, or by a reviewer; never by a resemblance.
THEOREM NoLeadByResemblance == Spec => []LeadsEarned
<1>1. IInv => LeadsEarned
  BY DEF IInv, Sources, Earned, LeadsEarned
<1> QED
  BY <1>1, Invariance, PTL

\* Without overlap and without a review, an event contributes to one lead.
THEOREM OneLead == Spec => []OneLeadUnlessMoved
<1>1. IInv => OneLeadUnlessMoved
  <2> SUFFICES ASSUME leads \in SUBSET {link}
               PROVE  Cardinality(leads) <= 1
    BY DEF IInv, Alone, OneLeadUnlessMoved
  <2>1. IsFiniteSet({link}) /\ Cardinality({link}) = 1
    BY FS_Singleton
  <2> QED
    BY <2>1, FS_Subset
<1> QED
  BY <1>1, Invariance, PTL

-----------------------------------------------------------------------------
(* The life of an event                                                    *)

\* Every move is a step of the life of the event, or invisible to it.
LEMMA MovesAreLife ==
  ASSUME IInv, NEW r \in Requests, Moves(r)
  PROVE  [Life!Next]_(Life!vars)
<1>1. TypeOK /\ JobOK(r) /\ (review # "none" => row # {})
  BY DEF IInv, Core
<1> USE DEF Life!vars
<1>2. ASSUME UNCHANGED tables
      PROVE  UNCHANGED Life!vars
  BY <1>2 DEF tables
<1>3. ASSUME NEW target \in Holders \cup Strangers \cup {Fresh[r]},
             Review(r, target)
      PROVE  Life!Decide \/ UNCHANGED Life!vars
  BY <1>1, <1>2, <1>3, ReviewEffect DEF Life!Decide
<1>4. CASE Simulate(r)
  <2>1. Life!List \/ UNCHANGED Life!vars
    BY <1>1, <1>4, SimulateEffect DEF Life!List, TypeOK
  <2> QED
    BY <2>1 DEF Life!Next
<1>5. CASE Insert(r)
  <2>1. Life!Accept \/ UNCHANGED Life!vars
    BY <1>5 DEF Insert, Life!Accept
  <2> QED
    BY <2>1 DEF Life!Next
<1>6. CASE Edit(r)
  BY <1>6 DEF Edit
<1>7. CASE Link(r)
  <2>1. Life!Link
    BY <1>1, <1>7 DEF Link, Goto, JobOK, Accepting, Life!Link
  <2> QED
    BY <2>1 DEF Life!Next
<1>8. CASE Park(r)
  <2>1. Life!Queue \/ UNCHANGED Life!vars
    BY <1>1, <1>8 DEF Park, Goto, JobOK, Accepting, Life!Queue
  <2> QED
    BY <2>1 DEF Life!Next
<1>9. CASE Fail(r)
  <2>1. Life!List \/ UNCHANGED Life!vars
    BY <1>1, <1>9 DEF Fail, AddRow, Goto, JobOK, Resolved, TypeOK, Life!List
  <2> QED
    BY <2>1 DEF Life!Next
<1>10. CASE Act(r)
  <2>1. Life!Produce
    BY <1>1, <1>10 DEF Act, Goto, JobOK, Resolved, Life!Produce
  <2> QED
    BY <2>1 DEF Life!Next
<1>11. CASE Close(r)
  <2>1. Life!Unlist \/ UNCHANGED Life!vars
    BY <1>1, <1>11 DEF Close, Goto, JobOK, Life!Unlist
  <2> QED
    BY <2>1 DEF Life!Next
<1>12. CASE UNCHANGED tables
  BY <1>2, <1>12
<1> QED
  BY <1>1, <1>3, <1>4, <1>5, <1>6, <1>7, <1>8, <1>9, <1>10, <1>11, <1>12,
     ReplayEffect, ResolveEffect
  DEF Moves, Step, Submit, Interpret, Die, Life!Next

\* The requests together, with all their interleavings and deaths, implement
\* the life of an event.
THEOREM Refinement == Spec => ImplementsLife
<1>1. Init => Life!Init
  BY DEF Init, Life!Init
<1>2. IInv /\ [Next]_vars => [Life!Next]_(Life!vars)
  <2> SUFFICES ASSUME IInv, [Next]_vars
               PROVE  [Life!Next]_(Life!vars)
    OBVIOUS
  <2>1. CASE UNCHANGED vars
    BY <2>1 DEF vars, tables, Life!vars
  <2> QED
    BY <2>1, NextIsMoves, MovesAreLife
<1> QED
  BY <1>1, <1>2, Invariance, PTL DEF Spec, ImplementsLife, Life!Spec

\* What the life of an event promises, by itself.
LEMMA LifeInOrder == Life!Spec => []Life!InOrder
<1>1. Life!Init => Life!InOrder
  BY DEF Life!Init, Life!InOrder
<1>2. Life!InOrder /\ [Life!Next]_(Life!vars) => Life!InOrder'
  BY DEF Life!InOrder, Life!Next, Life!vars, Life!Accept, Life!Link,
         Life!Queue, Life!Decide, Life!List, Life!Unlist, Life!Produce
<1> QED
  BY <1>1, <1>2, PTL DEF Life!Spec

\* No step of that life takes a stage back.
LEMMA LifeNothingUndone == Life!Spec => Life!NothingUndone
<1> DEFINE Kept == /\ row # {} => (row # {})'
                   /\ link # "none" => (link # "none")'
                   /\ review # "none" => review' # "none"
                   /\ review = "resolved" => review' = "resolved"
                   /\ leads # {} => (leads # {})'
                   /\ open # 0 => (open # 0)' \/ (leads # {})'
<1>1. [Life!Next]_(Life!vars) => [Kept]_(Life!vars)
  BY DEF Life!Next, Life!vars, Life!Accept, Life!Link, Life!Queue, Life!Decide,
         Life!List, Life!Unlist, Life!Produce
<1> QED
  BY <1>1, PTL DEF Life!Spec, Life!NothingUndone

\* So the requests keep these promises: no lead and no decision without an
\* identity, nothing without an accepted event.
THEOREM StagesInOrder == Spec => []Life!InOrder
BY Refinement, LifeInOrder, PTL DEF ImplementsLife

\* No transaction takes back a stage that the event has reached.
THEOREM StagesKept == Spec => Life!NothingUndone
BY Refinement, LifeNothingUndone, PTL DEF ImplementsLife
=============================================================================
