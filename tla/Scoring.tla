------------------------------ MODULE Scoring -------------------------------
(***************************************************************************)
(* From a classification to a queue: compute_score under scoring policy    *)
(* v1, _decide, and apply_routing_rule under routing rules v1.  The state  *)
(* is the input; every step changes one thing that is known of the signal, *)
(* as an edit or another classification of it does.                        *)
(***************************************************************************)
EXTENDS Integers, Sequences, FiniteSets

CONSTANTS Confidences,  \* confidences, in hundredths
          Unscored      \* the null score

\* Nothing keeps a classifier from answering less than 0 or more than 1; what
\* the column Numeric(3, 2) cannot hold never reaches the scorer.
ASSUME ConfidencesAssumption == Confidences \subseteq -999 .. 999

\* None is no score.
ASSUME UnscoredIsNoScore == Unscored \notin 0 .. 100

VARIABLES label, confidence, source, consent, campaign
signal == <<label, confidence, source, consent, campaign>>

-----------------------------------------------------------------------------
(* The policies                                                            *)

LabelScores ==
  [pricing_inquiry |-> 85, product_question |-> 60, competitor_mention |-> 55,
   onboarding |-> 75, integration |-> 70, feature_request |-> 65, other |-> 40]

\* The classifier may answer a label that the policy does not name; the policy
\* maps `unknown' to null.  Neither has a score.
Labels == DOMAIN LabelScores \cup {"unknown", "unlisted"}

SourceBonus == [web_form |-> 5, social_mention |-> 3, email_engagement |-> 4]
ConsentBonus == 5
CampaignBonus == 3

Thresholds == << [min |-> 70, decision |-> "hot"],
                 [min |-> 45, decision |-> "warm"],
                 [min |-> 20, decision |-> "cold"] >>

Anything == "*"  \* the condition of the rule does not mention the label
Rules ==
  << [decision |-> "hot", label |-> Anything, queue |-> "sales_urgent", hours |-> 2],
     [decision |-> "warm", label |-> "pricing_inquiry",
      queue |-> "sales_priority", hours |-> 8],
     [decision |-> "warm", label |-> Anything, queue |-> "sales_default", hours |-> 24],
     [decision |-> "needs_review", label |-> Anything,
      queue |-> "manual_queue", hours |-> 48],
     [decision |-> "cold", label |-> Anything, queue |-> "nurture", hours |-> 72] >>
Fallback == [queue |-> "unassigned", hours |-> 72]

-----------------------------------------------------------------------------
(* compute_score and _decide                                               *)

\* round(base * float(confidence)): half to even, except on the ties whose
\* product in binary floating point falls beside the half (those beyond the
\* reach of Clamp are left out).
TiesUp == {<<75, 14>>, <<55, 110>>}
TiesDown == {<<85, 70>>, <<75, 82>>, <<75, 114>>, <<75, -14>>}

Rounded(base, c) ==
  LET whole == (base * c) \div 100
      rest == (base * c) % 100
      tie == CASE <<base, c>> \in TiesUp -> 1
               [] <<base, c>> \in TiesDown -> 0
               [] OTHER -> whole % 2
  IN whole + (IF rest > 50 THEN 1 ELSE IF rest = 50 THEN tie ELSE 0)

Clamp(n) == CASE n < 0 -> 0 [] n > 100 -> 100 [] OTHER -> n

\* Variant: consent costs.
BonusWithoutConsent == SourceBonus[source] + (IF consent THEN 0 ELSE ConsentBonus)
                       + (IF campaign THEN CampaignBonus ELSE 0)

Bonus == SourceBonus[source] + (IF consent THEN ConsentBonus ELSE 0)
                             + (IF campaign THEN CampaignBonus ELSE 0)

Value == IF label \in DOMAIN LabelScores
         THEN Clamp(Rounded(LabelScores[label], confidence) + Bonus)
         ELSE Unscored

\* Variant: a score on a threshold misses it.
DecideStrictly(n) ==
  CASE n > 70 -> "hot" [] n > 45 /\ n <= 70 -> "warm" [] OTHER -> "cold"

\* The first threshold in the order of the file; the last one if none is met.
Decide(n) ==
  LET met == {i \in DOMAIN Thresholds : n >= Thresholds[i].min}
      first == IF met = {} THEN Len(Thresholds)
               ELSE CHOOSE i \in met : \A j \in met : i <= j
  IN Thresholds[first].decision

Decision == IF Value = Unscored THEN "needs_review" ELSE Decide(Value)

-----------------------------------------------------------------------------
(* apply_routing_rule: the first rule that matches, or the fallback        *)

Matches(rule, decision, lab) ==
  rule.decision = decision /\ rule.label \in {Anything, lab}

Apply(decision, lab) ==
  LET matching == {i \in DOMAIN Rules : Matches(Rules[i], decision, lab)}
  IN IF matching = {} THEN Fallback
     ELSE LET rule == Rules[CHOOSE i \in matching : \A j \in matching : i <= j]
          IN [queue |-> rule.queue, hours |-> rule.hours]

Routing == Apply(Decision, label)

-----------------------------------------------------------------------------
AnySignal == /\ label \in Labels /\ confidence \in Confidences
             /\ source \in DOMAIN SourceBonus
             /\ consent \in BOOLEAN /\ campaign \in BOOLEAN

Reclassify ==
  \/ /\ label' \in Labels
     /\ UNCHANGED <<confidence, source, consent, campaign>>
  \/ /\ confidence' \in {confidence - 1, confidence + 1} \cap Confidences
     /\ UNCHANGED <<label, source, consent, campaign>>

EditConsent == consent' = ~consent /\ UNCHANGED <<label, confidence, source, campaign>>
EditCampaign == campaign' = ~campaign /\ UNCHANGED <<label, confidence, source, consent>>

Change == Reclassify \/ EditConsent \/ EditCampaign

Signals == AnySignal /\ [][Change]_signal

-----------------------------------------------------------------------------
(* Properties                                                              *)

Rank == [cold |-> 1, warm |-> 2, hot |-> 3]

\* FR-5: insufficient data resolves to needs_review and never to a number, and
\* nothing else does.  A number is in 0..100, whatever confidence was stored.
NeverFabricated ==
  /\ Value = Unscored <=> label \in {"unknown", "unlisted"}
  /\ Value = Unscored <=> Decision = "needs_review"
  /\ Value # Unscored => Value \in 0 .. 100

\* The decision is the highest one whose threshold the score reaches, which is
\* what the tie-break rule of the policy asks; below all of them it is cold.
HighestThresholdWins ==
  Value # Unscored =>
    /\ Decision = "hot" <=> Value >= 70
    /\ Decision = "warm" <=> Value \in 45 .. 69
    /\ Decision = "cold" <=> Value < 45

\* Every decision the scorer can make has a rule of its own: the fallback
\* queue stays empty, and pricing is answered before other warm leads.
RulesCoverDecisions ==
  /\ Routing # Fallback
  /\ Decision = "warm" =>
       (Routing.hours = 8 <=> label = "pricing_inquiry")

\* What the two policies promise of any one outcome.
OutcomeFollowsPolicy ==
  NeverFabricated /\ HighestThresholdWins /\ RulesCoverDecisions

\* More confidence, consent or a campaign never lowers the score, never lowers
\* the decision and never lengthens the SLA, the rounding included.
MoreNeverHurts ==
  [][(label' = label /\ Value # Unscored /\ confidence' >= confidence
      /\ (consent => consent') /\ (campaign => campaign'))
     => /\ Value' >= Value
        /\ Rank[Decision'] >= Rank[Decision]
        /\ Routing'.hours <= Routing.hours]_signal
=============================================================================
