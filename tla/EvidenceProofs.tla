--------------------------- MODULE EvidenceProofs ---------------------------
(***************************************************************************)
(* The two parts that turn what is known of an event into a result and     *)
(* keep no process of their own.                                           *)
(*                                                                         *)
(* Attribution: the touch times do not depend on the order of delivery.    *)
(* Each copy's row spans exactly the received_at values of the events it   *)
(* was given, so copies that were given the same events have the same      *)
(* span.                                                                   *)
(*                                                                         *)
(* Scoring: the outcome follows the policies, and more evidence never      *)
(* hurts.  Rounding hides at most half a point, and a hundredth more of    *)
(* confidence moves the product by the base score, which is at least 40    *)
(* hundredths: the rounded scores keep the order whatever the ties do.     *)
(***************************************************************************)
EXTENDS AttributionOrder, Scoring, TLAPS

-----------------------------------------------------------------------------
(* Attribution                                                             *)

\* The inductive invariant of the two copies.
IInv == TypeOK /\ RowsSpanSeen

\* What one delivery does to the times of a row: the first one sets both, a
\* later one moves them outwards, an edit of an event moves neither.
LEMMA UpsertTimes ==
  ASSUME NEW old \in TouchRow \cup {NoRow}, NEW e \in Delivery
  PROVE  LET new == Upsert(old, e)
         IN /\ new \in TouchRow /\ new # NoRow
            /\ old = NoRow => new.first.at = e.at /\ new.last.at = e.at
            /\ old # NoRow /\ e.edited => /\ new.first.at = old.first.at
                                          /\ new.last.at = old.last.at
            /\ old # NoRow /\ ~e.edited =>
                 /\ new.first.at = IF e.at < old.first.at THEN e.at
                                   ELSE old.first.at
                 /\ new.last.at = IF e.at > old.last.at THEN e.at
                                  ELSE old.last.at
<1>1. Point(e) \in TouchPoint /\ Point(e).at = e.at
  BY DEF Point, Delivery, TouchPoint
<1>2. ASSUME NEW p \in TouchPoint
      PROVE  /\ Denormalize(p, e) \in TouchPoint /\ Denormalize(p, e).at = p.at
             /\ Earliest(p, e) \in TouchPoint /\ Latest(p, e) \in TouchPoint
             /\ Earliest(p, e).at = IF e.at < p.at THEN e.at ELSE p.at
             /\ Latest(p, e).at = IF e.at > p.at THEN e.at ELSE p.at
  BY <1>1 DEF Denormalize, Earliest, Latest, TouchPoint, Delivery
<1>3. Upsert(old, e) \in TouchRow
  BY <1>1, <1>2 DEF Upsert, TouchRow
<1>4. CASE old = NoRow
  BY <1>1, <1>3, <1>4, NoRowIsNoTouch DEF Upsert
<1>5. CASE old # NoRow
  <2>1. old.first \in TouchPoint /\ old.last \in TouchPoint
    BY <1>5 DEF TouchRow
  <2> QED
    BY <1>2, <1>3, <1>5, <2>1, NoRowIsNoTouch DEF Upsert
<1> QED
  BY <1>4, <1>5

\* The delivery that Deliver gives is one.
Submitted(id) == [id |-> id, at |-> Original[id].at,
                  content |-> Original[id].content, edited |-> FALSE]

LEMMA SubmittedType ==
  ASSUME NEW id \in Events
  PROVE  /\ Submitted(id) \in Delivery
         /\ Original[id].at \in Nat
<1>1. Original[id] \in [at : Times, content : Contents]
  BY OriginalAssumption
<1> QED
  BY <1>1, TimesAreNumbers DEF Submitted, Delivery

\* Only the copy that receives the delivery changes.
LEMMA OthersKeep ==
  ASSUME IInv, NEW c \in Copies, NEW d \in Copies, d # c,
         row'[d] = row[d], seen'[d] = seen[d]
  PROVE  Spans(d)'
BY DEF IInv, RowsSpanSeen, Spans

LEMMA DeliverKeeps ==
  ASSUME IInv, NEW c \in Copies, NEW id \in Events, Deliver(c, id)
  PROVE  IInv'
<1> DEFINE e == Submitted(id)
           new == Upsert(row[c], e)
<1>1. /\ row' = [row EXCEPT ![c] = new]
      /\ seen' = [seen EXCEPT ![c] = @ \cup {id}]
  BY DEF Deliver, Give, Submitted
<1>2. TypeOK /\ row[c] \in TouchRow \cup {NoRow} /\ e \in Delivery
  BY SubmittedType DEF IInv, TypeOK
<1>3. /\ new \in TouchRow /\ new # NoRow
      /\ row[c] = NoRow => new.first.at = e.at /\ new.last.at = e.at
      /\ row[c] # NoRow =>
           /\ new.first.at = IF e.at < row[c].first.at THEN e.at
                             ELSE row[c].first.at
           /\ new.last.at = IF e.at > row[c].last.at THEN e.at
                            ELSE row[c].last.at
  BY <1>2, UpsertTimes DEF Submitted
<1>4. TypeOK'
  BY <1>1, <1>2, <1>3 DEF TypeOK
<1>5. row'[c] = new /\ seen'[c] = seen[c] \cup {id}
  BY <1>1, <1>2 DEF TypeOK
<1>6. /\ e.at = Original[id].at /\ ~e.edited /\ e.at \in Nat
      /\ \A x \in seen'[c] : Original[x].at \in Nat
      /\ new.first.at \in Nat /\ new.last.at \in Nat
      /\ row[c] # NoRow => row[c].first.at \in Nat /\ row[c].last.at \in Nat
  <2>1. \A x \in seen'[c] : x \in Events
    BY <1>2, <1>5 DEF TypeOK
  <2> QED
    BY <1>2, <1>3, <2>1, SubmittedType, TimesAreNumbers
    DEF Submitted, TouchRow, TouchPoint
<1>7. \A x \in seen[c] : /\ row[c] # NoRow
                         /\ row[c].first.at <= Original[x].at
                         /\ Original[x].at <= row[c].last.at
  BY DEF IInv, RowsSpanSeen, Spans
<1>8. /\ new.first.at <= e.at /\ e.at <= new.last.at
      /\ row[c] # NoRow => /\ new.first.at <= row[c].first.at
                           /\ row[c].last.at <= new.last.at
  <2> HIDE DEF new, e
  <2>1. CASE row[c] = NoRow
    BY <1>3, <1>6, <2>1
  <2>2. CASE row[c] # NoRow
    BY <1>3, <1>6, <2>2
  <2> QED
    BY <2>1, <2>2
<1>9. \A x \in seen'[c] : new.first.at <= Original[x].at
  BY <1>5, <1>6, <1>7, <1>8
<1>10. \A x \in seen'[c] : Original[x].at <= new.last.at
  BY <1>5, <1>6, <1>7, <1>8
<1>11. /\ \E x \in seen'[c] : new.first.at = Original[x].at
       /\ \E x \in seen'[c] : new.last.at = Original[x].at
  <2>1. /\ new.first.at = e.at \/ (row[c] # NoRow /\ new.first.at = row[c].first.at)
        /\ new.last.at = e.at \/ (row[c] # NoRow /\ new.last.at = row[c].last.at)
    BY <1>3
  <2>2. row[c] # NoRow => /\ \E x \in seen[c] : row[c].first.at = Original[x].at
                          /\ \E x \in seen[c] : row[c].last.at = Original[x].at
    BY DEF IInv, RowsSpanSeen, Spans
  <2> QED
    BY <1>5, <1>6, <2>1, <2>2
<1>12. Spans(c)'
  BY <1>3, <1>5, <1>9, <1>10, <1>11 DEF Spans
<1>13. ASSUME NEW d \in Copies, d # c
       PROVE  Spans(d)'
  BY <1>1, <1>2, <1>13, OthersKeep DEF TypeOK
<1> QED
  BY <1>4, <1>12, <1>13 DEF IInv, RowsSpanSeen

LEMMA EditKeeps ==
  ASSUME IInv, NEW c \in Copies, NEW id \in Events, NEW at \in Times,
         NEW content \in Contents, DeliverEdit(c, id, at, content)
  PROVE  IInv'
<1> DEFINE e == [id |-> id, at |-> at, content |-> content, edited |-> TRUE]
           new == Upsert(row[c], e)
<1>1. /\ row' = [row EXCEPT ![c] = new] /\ seen' = seen /\ id \in seen[c]
  BY DEF DeliverEdit, Give
<1>2. TypeOK /\ row[c] \in TouchRow \cup {NoRow} /\ e \in Delivery
  BY DEF IInv, TypeOK, Delivery
<1>3. row[c] # NoRow /\ Spans(c)
  BY <1>1 DEF IInv, RowsSpanSeen, Spans
<1>4. /\ new \in TouchRow /\ new # NoRow
      /\ new.first.at = row[c].first.at /\ new.last.at = row[c].last.at
  BY <1>2, <1>3, UpsertTimes
<1>5. TypeOK'
  BY <1>1, <1>2, <1>4 DEF TypeOK
<1>6. row'[c] = new
  BY <1>1, <1>2 DEF TypeOK
<1>7. Spans(c)'
  BY <1>1, <1>3, <1>4, <1>6 DEF Spans
<1>8. ASSUME NEW d \in Copies, d # c
      PROVE  Spans(d)'
  BY <1>1, <1>2, <1>8, OthersKeep DEF TypeOK
<1> QED
  BY <1>5, <1>7, <1>8 DEF IInv, RowsSpanSeen

LEMMA Invariance == Spec => []IInv
<1>1. Init => IInv
  BY DEF Init, IInv, TypeOK, RowsSpanSeen, Spans
<1>2. IInv /\ [Next]_vars => IInv'
  <2> SUFFICES ASSUME IInv, [Next]_vars
               PROVE  IInv'
    OBVIOUS
  <2>1. CASE UNCHANGED vars
    BY <2>1 DEF IInv, TypeOK, RowsSpanSeen, Spans, vars
  <2> QED
    BY <2>1, DeliverKeeps, EditKeeps DEF Next
<1> QED
  BY <1>1, <1>2, PTL DEF Spec

\* The row of every copy spans the times of what it was given, so that the
\* same events give the same touch times whatever the order of delivery.
THEOREM OrderIndependence == Spec => []TimesFollowSeen
<1>1. IInv => TimesOrderFree
  <2> SUFFICES ASSUME IInv, NEW c \in Copies, NEW d \in Copies,
                      seen[c] = seen[d], seen[c] # {}
               PROVE  /\ row[c].first.at = row[d].first.at
                      /\ row[c].last.at = row[d].last.at
    BY DEF TimesOrderFree
  <2>1. Spans(c) /\ Spans(d) /\ row[c] \in TouchRow /\ row[d] \in TouchRow
    BY DEF IInv, RowsSpanSeen, TypeOK, Spans
  <2>2. /\ row[c].first.at \in Nat /\ row[d].first.at \in Nat
        /\ row[c].last.at \in Nat /\ row[d].last.at \in Nat
    BY <2>1, TimesAreNumbers DEF TouchRow, TouchPoint
  <2>3. row[c].first.at <= row[d].first.at /\ row[d].first.at <= row[c].first.at
    BY <2>1 DEF Spans
  <2>4. row[c].last.at <= row[d].last.at /\ row[d].last.at <= row[c].last.at
    BY <2>1 DEF Spans
  <2> QED
    BY <2>2, <2>3, <2>4
<1>2. IInv => RowsSpanSeen
  BY DEF IInv
<1>3. IInv => TimesFollowSeen
  BY <1>1, <1>2 DEF TimesFollowSeen
<1> QED
  BY <1>3, Invariance, PTL

-----------------------------------------------------------------------------
(* Scoring                                                                 *)

\* What is known of a signal, by type.
SignalOK == /\ label \in Labels /\ confidence \in Confidences
            /\ source \in DOMAIN SourceBonus
            /\ consent \in BOOLEAN /\ campaign \in BOOLEAN

\* The base scores of the policy.
Bases == {85, 60, 55, 75, 70, 65, 40}

\* Rounding moves a product by half a point at most, ties included.
LEMMA RoundedNearest ==
  ASSUME NEW base \in Bases, NEW c \in Int
  PROVE  /\ Rounded(base, c) \in Int
         /\ 100 * Rounded(base, c) <= base * c + 50
         /\ base * c <= 100 * Rounded(base, c) + 50
<1> DEFINE p == base * c
           whole == p \div 100
           rest == p % 100
           tie == CASE <<base, c>> \in TiesUp -> 1
                    [] <<base, c>> \in TiesDown -> 0
                    [] OTHER -> whole % 2
<1>1. p \in Int
  BY DEF Bases
<1>2. /\ whole \in Int /\ rest \in 0 .. 99 /\ p = 100 * whole + rest
  <2> HIDE DEF p
  <2> QED
    BY <1>1
<1>3. tie \in {0, 1}
  <2>1. whole % 2 \in {0, 1}
    <3> HIDE DEF whole
    <3> QED
      BY <1>2
  <2> HIDE DEF whole
  <2> QED
    BY <2>1
<1>4. Rounded(base, c) = whole + (IF rest > 50 THEN 1
                                ELSE IF rest = 50 THEN tie ELSE 0)
  BY DEF Rounded
<1> HIDE DEF p, whole, rest, tie
<1>5. /\ Rounded(base, c) \in Int
      /\ 100 * Rounded(base, c) <= p + 50
      /\ p <= 100 * Rounded(base, c) + 50
  BY <1>1, <1>2, <1>3, <1>4
<1> QED
  BY <1>5 DEF p

\* A higher confidence never rounds to a lower score: the products of two
\* confidences differ by 40 hundredths at least, and the two roundings close a
\* gap of one whole point at most, less those 40.
LEMMA RoundedMonotone ==
  ASSUME NEW base \in Bases, NEW c \in Int, NEW d \in Int, c <= d
  PROVE  Rounded(base, c) <= Rounded(base, d)
<1>1. CASE c = d
  BY <1>1, RoundedNearest
<1>2. CASE c < d
  <2>1. /\ base * c \in Int /\ base * d \in Int
        /\ base * c + 40 <= base * d
    BY <1>2 DEF Bases
  <2> DEFINE p == base * c
             q == base * d
             r == Rounded(base, c)
             s == Rounded(base, d)
  <2>2. /\ r \in Int /\ s \in Int /\ p \in Int /\ q \in Int
        /\ 100 * r <= p + 50 /\ q <= 100 * s + 50 /\ p + 40 <= q
    BY <2>1, RoundedNearest
  <2> HIDE DEF p, q, r, s
  <2>3. r <= s
    BY <2>2
  <2> QED
    BY <2>3 DEF r, s
<1> QED
  BY <1>1, <1>2

\* The score of the policy is held between 0 and 100 and keeps the order.
LEMMA ClampBounds ==
  ASSUME NEW m \in Int, NEW n \in Int, m <= n
  PROVE  /\ Clamp(m) \in 0 .. 100 /\ Clamp(n) \in 0 .. 100
         /\ Clamp(m) <= Clamp(n)
BY DEF Clamp

\* The first threshold that is met, spelled out.
LEMMA DecideCases ==
  ASSUME NEW n \in Int
  PROVE  /\ n >= 70 => Decide(n) = "hot"
         /\ n >= 45 /\ n < 70 => Decide(n) = "warm"
         /\ n < 45 => Decide(n) = "cold"
<1> DEFINE met == {i \in DOMAIN Thresholds : n >= Thresholds[i].min}
           lowest == CHOOSE i \in met : \A j \in met : i <= j
<1>1. /\ DOMAIN Thresholds = {1, 2, 3} /\ Len(Thresholds) = 3
      /\ Thresholds[1] = [min |-> 70, decision |-> "hot"]
      /\ Thresholds[2] = [min |-> 45, decision |-> "warm"]
      /\ Thresholds[3] = [min |-> 20, decision |-> "cold"]
  BY DEF Thresholds
<1>2. Decide(n) = Thresholds[IF met = {} THEN 3 ELSE lowest].decision
  BY <1>1 DEF Decide
<1>3. /\ n >= 70 => n >= 45
      /\ n < 70 => ~(n >= 70)
      /\ n < 45 => ~(n >= 45) /\ ~(n >= 70)
  OBVIOUS
<1>4. /\ 1 \in met <=> n >= 70
      /\ 2 \in met <=> n >= 45
      /\ 3 \in met <=> n >= 20
      /\ met \subseteq {1, 2, 3}
  BY <1>1
<1> HIDE DEF met
<1>5. ASSUME NEW k \in met, \A j \in met : k <= j
      PROVE  lowest = k
  <2>1. lowest \in met /\ \A j \in met : lowest <= j
    BY <1>5
  <2> HIDE DEF lowest
  <2>2. lowest <= k /\ k <= lowest
    BY <1>5, <2>1
  <2>3. lowest \in {1, 2, 3} /\ k \in {1, 2, 3}
    BY <1>4, <1>5, <2>1
  <2> QED
    BY <2>2, <2>3
<1>6. CASE n >= 70
  <2>1. 1 \in met /\ \A j \in met : 1 <= j
    BY <1>4, <1>6
  <2> HIDE DEF lowest
  <2> QED
    BY <1>1, <1>2, <1>5, <1>6, <2>1
<1>7. CASE n >= 45 /\ n < 70
  <2>1. 2 \in met /\ \A j \in met : 2 <= j
    BY <1>4, <1>7
  <2> HIDE DEF lowest
  <2> QED
    BY <1>1, <1>2, <1>5, <1>7, <2>1
<1>8. CASE n < 45
  <2>0. 1 \notin met /\ 2 \notin met /\ met \subseteq {1, 2, 3}
    BY <1>3, <1>4, <1>8
  <2>1. met = {} \/ met = {3}
    BY <2>0, Zenon
  <2> HIDE DEF lowest
  <2>2. met = {3} => lowest = 3
    BY <1>5
  <2> QED
    BY <1>1, <1>2, <1>8, <2>1, <2>2
<1> QED
  BY <1>6, <1>7, <1>8

\* The rule that routes each decision, spelled out.
LEMMA ApplyCases ==
  ASSUME NEW lab \in Labels
  PROVE  /\ Apply("hot", lab) = [queue |-> "sales_urgent", hours |-> 2]
         /\ Apply("warm", lab) =
              IF lab = "pricing_inquiry"
              THEN [queue |-> "sales_priority", hours |-> 8]
              ELSE [queue |-> "sales_default", hours |-> 24]
         /\ Apply("needs_review", lab) =
              [queue |-> "manual_queue", hours |-> 48]
         /\ Apply("cold", lab) = [queue |-> "nurture", hours |-> 72]
<1> DEFINE matching(d) == {i \in DOMAIN Rules : Matches(Rules[i], d, lab)}
           first(d) == CHOOSE i \in matching(d) : \A j \in matching(d) : i <= j
           Routed(d, k) == /\ matching(d) # {}
                           /\ first(d) = k
<1>1. /\ DOMAIN Rules = {1, 2, 3, 4, 5}
      /\ Rules[1] = [decision |-> "hot", label |-> Anything,
                     queue |-> "sales_urgent", hours |-> 2]
      /\ Rules[2] = [decision |-> "warm", label |-> "pricing_inquiry",
                     queue |-> "sales_priority", hours |-> 8]
      /\ Rules[3] = [decision |-> "warm", label |-> Anything,
                     queue |-> "sales_default", hours |-> 24]
      /\ Rules[4] = [decision |-> "needs_review", label |-> Anything,
                     queue |-> "manual_queue", hours |-> 48]
      /\ Rules[5] = [decision |-> "cold", label |-> Anything,
                     queue |-> "nurture", hours |-> 72]
  BY DEF Rules
<1>2. /\ matching("hot") = {1}
      /\ lab = "pricing_inquiry" => matching("warm") = {2, 3}
      /\ lab # "pricing_inquiry" => matching("warm") = {3}
      /\ matching("needs_review") = {4}
      /\ matching("cold") = {5}
  BY <1>1 DEF Matches, Anything, Labels, LabelScores
<1>3. ASSUME NEW d, matching(d) # {}
      PROVE  Apply(d, lab) = [queue |-> Rules[first(d)].queue,
                              hours |-> Rules[first(d)].hours]
  BY <1>3 DEF Apply
<1> HIDE DEF matching
<1>4. /\ first("hot") = 1 /\ first("needs_review") = 4 /\ first("cold") = 5
      /\ lab # "pricing_inquiry" => first("warm") = 3
  BY <1>2
<1>5. ASSUME lab = "pricing_inquiry" PROVE first("warm") = 2
  <2>1. 2 \in matching("warm") /\ \A j \in matching("warm") : 2 <= j
    BY <1>2, <1>5
  <2>2. /\ first("warm") \in matching("warm")
        /\ \A j \in matching("warm") : first("warm") <= j
    BY <2>1
  <2> HIDE DEF first
  <2>3. first("warm") <= 2 /\ first("warm") \in {2, 3}
    BY <1>2, <1>5, <2>1, <2>2
  <2> QED
    BY <2>3
<1> HIDE DEF first
<1> QED
  BY <1>1, <1>2, <1>3, <1>4, <1>5

\* What is known of the signal has its type in every state.
LEMMA SignalInvariance == Signals => []SignalOK
<1>1. AnySignal => SignalOK
  BY DEF AnySignal, SignalOK
<1>2. SignalOK /\ [Change]_signal => SignalOK'
  BY DEF SignalOK, Change, Reclassify, EditConsent, EditCampaign, signal
<1> QED
  BY <1>1, <1>2, PTL DEF Signals

\* The bonuses are numbers, and what is known of a signal only adds to them.
LEMMA BonusType ==
  SignalOK => Bonus \in Int
<1> SUFFICES ASSUME SignalOK PROVE Bonus \in Int
  OBVIOUS
<1>1. SourceBonus[source] \in {5, 3, 4}
  BY DEF SignalOK, SourceBonus
<1> HIDE DEF SourceBonus
<1> QED
  BY <1>1 DEF Bonus, ConsentBonus, CampaignBonus

\* The labels of the policy have a base score, the two others have none.
LEMMA LabelCases ==
  /\ \A lab \in DOMAIN LabelScores : LabelScores[lab] \in Bases
  /\ \A lab \in Labels : lab \notin DOMAIN LabelScores
                          <=> lab \in {"unknown", "unlisted"}
BY DEF Labels, LabelScores, Bases

\* A score is a number between 0 and 100, or the null of a label without one.
LEMMA ScoreCases ==
  SignalOK =>
    \/ /\ label \in DOMAIN LabelScores
       /\ label \notin {"unknown", "unlisted"}
       /\ Value \in 0 .. 100 /\ Value # Unscored
    \/ /\ label \in {"unknown", "unlisted"}
       /\ Value = Unscored
<1> SUFFICES ASSUME SignalOK
             PROVE  \/ /\ label \in DOMAIN LabelScores
                       /\ label \notin {"unknown", "unlisted"}
                       /\ Value \in 0 .. 100 /\ Value # Unscored
                    \/ /\ label \in {"unknown", "unlisted"}
                       /\ Value = Unscored
  OBVIOUS
<1>1. label \in Labels /\ confidence \in Int
  BY ConfidencesAssumption DEF SignalOK
<1>2. CASE label \in DOMAIN LabelScores
  <2> DEFINE m == Rounded(LabelScores[label], confidence) + Bonus
  <2>1. m \in Int
    BY <1>1, <1>2, LabelCases, RoundedNearest, BonusType
  <2>2. Value = Clamp(m)
    BY <1>2 DEF Value
  <2> HIDE DEF m
  <2>3. Value \in 0 .. 100
    BY <2>1, <2>2, ClampBounds
  <2> QED
    BY <1>1, <1>2, <2>3, LabelCases, UnscoredIsNoScore
<1>3. CASE label \notin DOMAIN LabelScores
  BY <1>1, <1>3, LabelCases DEF Value
<1> QED
  BY <1>2, <1>3

\* The decision of a score, and that of the null.
Decided ==
  /\ Value = Unscored => Decision = "needs_review"
  /\ Value # Unscored =>
       /\ Value \in 0 .. 100
       /\ Value >= 70 => Decision = "hot"
       /\ Value >= 45 /\ Value < 70 => Decision = "warm"
       /\ Value < 45 => Decision = "cold"

\* Every signal is decided that way.
LEMMA DecisionCases == SignalOK => Decided
<1> SUFFICES ASSUME SignalOK, Value # Unscored
             PROVE  /\ Value \in 0 .. 100
                    /\ Value >= 70 => Decision = "hot"
                    /\ Value >= 45 /\ Value < 70 => Decision = "warm"
                    /\ Value < 45 => Decision = "cold"
  BY DEF Decision, Decided
<1>1. Value \in 0 .. 100 /\ Decision = Decide(Value)
  BY ScoreCases DEF Decision
<1> QED
  BY <1>1, DecideCases

\* Insufficient data and nothing else is sent to review and never given a
\* number, the highest threshold reached decides, every decision has a rule.
THEOREM OutcomeInvariant == Signals => []OutcomeFollowsPolicy
<1>1. SignalOK => OutcomeFollowsPolicy
  <2> SUFFICES ASSUME SignalOK PROVE OutcomeFollowsPolicy
    OBVIOUS
  <2> DEFINE v == Value
             d == Decision
  <2>1. /\ v = Unscored => d = "needs_review"
        /\ v # Unscored =>
             /\ v \in 0 .. 100
             /\ v >= 70 => d = "hot"
             /\ v >= 45 /\ v < 70 => d = "warm"
             /\ v < 45 => d = "cold"
    BY DecisionCases DEF Decided
  <2>2. v = Unscored <=> label \in {"unknown", "unlisted"}
    BY ScoreCases
  <2>3. label \in Labels
    BY DEF SignalOK
  <2>4. Routing = Apply(d, label)
    BY DEF Routing
  <2> HIDE DEF v, d
  <2>5. v # Unscored => \/ v \in 70 .. 100 /\ d = "hot"
                        \/ v \in 45 .. 69 /\ d = "warm"
                        \/ v \in 0 .. 44 /\ d = "cold"
    <3>1. ASSUME v # Unscored, v \in 70 .. 100 PROVE d = "hot"
      <4>1. v >= 70
        BY <3>1
      <4> QED
        BY <2>1, <3>1, <4>1
    <3>2. ASSUME v # Unscored, v \in 45 .. 69 PROVE d = "warm"
      <4>1. v >= 45 /\ v < 70
        BY <3>2
      <4> QED
        BY <2>1, <3>2, <4>1
    <3>3. ASSUME v # Unscored, v \in 0 .. 44 PROVE d = "cold"
      <4>1. v < 45
        BY <3>3
      <4> QED
        BY <2>1, <3>3, <4>1
    <3>4. v \in 0 .. 100 => v \in 70 .. 100 \/ v \in 45 .. 69 \/ v \in 0 .. 44
      OBVIOUS
    <3>5. v # Unscored => v \in 0 .. 100
      BY <2>1
    <3> QED
      BY <3>1, <3>2, <3>3, <3>4, <3>5
  <2>6. v = Unscored <=> d = "needs_review"
    BY <2>1, <2>5
  <2>7. NeverFabricated
    BY <2>1, <2>2, <2>6 DEF NeverFabricated, v, d
  <2>8. HighestThresholdWins
    <3>1. v # Unscored => /\ d = "hot" <=> v >= 70
                          /\ d = "warm" <=> v \in 45 .. 69
                          /\ d = "cold" <=> v < 45
      BY <2>5
    <3> QED
      BY <3>1 DEF HighestThresholdWins, v, d
  <2>9. RulesCoverDecisions
    <3>1. d \in {"hot", "warm", "cold", "needs_review"}
      BY <2>1, <2>5
    <3>2. /\ Routing # Fallback
          /\ d = "warm" => (Routing.hours = 8 <=> label = "pricing_inquiry")
      BY <2>3, <2>4, <3>1, ApplyCases DEF Fallback
    <3> QED
      BY <3>2 DEF RulesCoverDecisions, d
  <2> QED
    BY <2>7, <2>8, <2>9 DEF OutcomeFollowsPolicy
<1> QED
  BY <1>1, SignalInvariance, PTL

\* More confidence, consent or a campaign never lowers the score.
LEMMA MoreScoresMore ==
  ASSUME SignalOK, SignalOK', label' = label, Value # Unscored,
         confidence' >= confidence, consent => consent', campaign => campaign',
         source' = source
  PROVE  Value' # Unscored /\ Value' >= Value
<1>1. /\ label \in DOMAIN LabelScores /\ LabelScores[label] \in Bases
      /\ confidence \in Int /\ confidence' \in Int
  BY ScoreCases, LabelCases, ConfidencesAssumption DEF SignalOK
<1>2. SourceBonus[source] \in Int
  BY DEF SignalOK, SourceBonus
<1> DEFINE r == Rounded(LabelScores[label], confidence)
           s == Rounded(LabelScores[label], confidence')
<1>3. r \in Int /\ s \in Int /\ r <= s
  BY <1>1, RoundedNearest, RoundedMonotone
<1>4. Bonus \in Int /\ Bonus' \in Int /\ Bonus <= Bonus'
  <2> DEFINE b == SourceBonus[source]
  <2>1. /\ Bonus = b + (IF consent THEN 5 ELSE 0) + (IF campaign THEN 3 ELSE 0)
        /\ Bonus' = b + (IF consent' THEN 5 ELSE 0)
                       + (IF campaign' THEN 3 ELSE 0)
    BY DEF Bonus, ConsentBonus, CampaignBonus
  <2> HIDE DEF b
  <2>2. b \in Int
    BY <1>2 DEF b
  <2> QED
    BY <2>1, <2>2
<1>5. Value = Clamp(r + Bonus) /\ Value' = Clamp(s + Bonus')
  BY <1>1 DEF Value
<1> HIDE DEF r, s
<1>6. Value \in 0 .. 100 /\ Value' \in 0 .. 100 /\ Value <= Value'
  <2> DEFINE b == Bonus
             c == Bonus'
  <2>0. b \in Int /\ c \in Int /\ b <= c
    BY <1>4
  <2> HIDE DEF b, c
  <2>1. r + b \in Int /\ s + c \in Int /\ r + b <= s + c
    BY <1>3, <2>0
  <2>2. Value = Clamp(r + b) /\ Value' = Clamp(s + c)
    BY <1>5 DEF b, c
  <2> QED
    BY <2>1, <2>2, ClampBounds
<1> QED
  BY <1>6, UnscoredIsNoScore

\* More evidence never lowers the score or the decision and never lengthens
\* the SLA, the rounding, the ties and the clamp included.
THEOREM MoreNeverHurtsHolds == Signals => MoreNeverHurts
<1> DEFINE More == /\ label' = label /\ Value # Unscored
                   /\ confidence' >= confidence
                   /\ (consent => consent') /\ (campaign => campaign')
           Better == /\ Value' >= Value
                     /\ Rank[Decision'] >= Rank[Decision]
                     /\ Routing'.hours <= Routing.hours
<1>1. ASSUME SignalOK, SignalOK', More, source' = source
      PROVE  Better
  <2> DEFINE v == Value
             w == Value'
             d == Decision
             e == Decision'
  <2>1. w # Unscored /\ w >= v
    BY <1>1, MoreScoresMore
  <2>2. /\ v \in 0 .. 100
        /\ v >= 70 => d = "hot"
        /\ v >= 45 /\ v < 70 => d = "warm"
        /\ v < 45 => d = "cold"
    BY <1>1, DecisionCases DEF Decided
  <2>3. Decided'
    <3>1. SignalOK' => Decided'
      BY DecisionCases, PTL
    <3> QED
      BY <1>1, <3>1
  <2>4. /\ w \in 0 .. 100
        /\ w >= 70 => e = "hot"
        /\ w >= 45 /\ w < 70 => e = "warm"
        /\ w < 45 => e = "cold"
    BY <2>1, <2>3 DEF Decided
  <2>5. /\ Routing = Apply(d, label) /\ Routing' = Apply(e, label)
        /\ label \in Labels
    BY <1>1 DEF Routing, SignalOK
  <2> HIDE DEF v, w, d, e
  <2>6. \/ d = "cold" /\ e \in {"cold", "warm", "hot"}
        \/ d = "warm" /\ e \in {"warm", "hot"}
        \/ d = "hot" /\ e = "hot"
    BY <2>1, <2>2, <2>4
  <2>7. Rank[e] >= Rank[d]
    BY <2>6 DEF Rank
  <2>8. Apply(e, label).hours <= Apply(d, label).hours
    BY <2>5, <2>6, ApplyCases
  <2> QED
    BY <2>1, <2>5, <2>7, <2>8 DEF v, w, d, e
<1>2. ASSUME SignalOK, SignalOK', [Change]_signal
      PROVE  [More => Better]_signal
  <2>1. CASE UNCHANGED signal
    BY <2>1
  <2>2. CASE Change
    <3>1. source' = source
      BY <2>2 DEF Change, Reclassify, EditConsent, EditCampaign
    <3> QED
      BY <1>1, <1>2, <3>1
  <2> QED
    BY <1>2, <2>1, <2>2
<1> QED
  BY <1>2, SignalInvariance, PTL DEF Signals, MoreNeverHurts
=============================================================================
