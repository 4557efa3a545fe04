----------------------------- MODULE ReviewPolicy -----------------------------
(***************************************************************************)
(* How reviews become a decision: review/policy.py.                        *)
(*                                                                         *)
(* A review ranks the candidates, with a confidence, and brings evidence   *)
(* and issues.  The policy scores the candidates, measures how much the    *)
(* reviews disagree, and finalises, escalates or asks a human.             *)
(*                                                                         *)
(* Scores, weights and confidences are in ten-thousandths.  What the code  *)
(* parses back from the prose of a review is what the review holds, so the *)
(* prose matters only where a review has no evidence.  The candidates are  *)
(* numbered in the order of their ids.                                     *)
(***************************************************************************)
EXTENDS Enumerations, SequencesExt, FiniteSetsExt

One == 10000
Times(a, b) == (a * b) \div One
Within(low, high, x) == Max({low, Min({high, x})})

Nobody == 0   \* no candidate

SeverityWeight == [minor |-> 5000, major |-> 12000, critical |-> 26000]
EvidenceWeight == [minor |-> 2000, major |-> 4500, critical |-> 8000]
\* The multiplier of a scenario, in per cent.
RiskOf(scenario) ==
    CASE scenario \in {"transcript_escalation", "translation_human_review", "translation_escalation"} -> 175
      [] scenario = "translation_high_risk" -> 120
      [] OTHER -> 100
HardDimensions == {"meaning", "entity", "number_date_unit", "coverage"}
Material == {"major", "critical"}

\* What is said of a span of a candidate; the value is <<>> where there is none.
Evidence(span, candidate, dimension, polarity, value, severity) ==
    [span |-> span, candidate |-> candidate, dimension |-> dimension,
     polarity |-> polarity, value |-> value, severity |-> severity]

----------------------------------------------------------------------------
(* Reading a review.                                                       *)

FirstChoice(review) == review.preferences[1]

\* The prose of a review without evidence quotes nothing, in favour of its winner.
EvidenceIn(review) ==
    IF review.evidence # {} THEN review.evidence
    ELSE {Evidence(<<>>, FirstChoice(review), "meaning", "supports", <<>>, "minor")}

AllEvidence(reviews) == UNION {EvidenceIn(reviews[r]) : r \in DOMAIN reviews}

----------------------------------------------------------------------------
(* The preferred candidate.                                                *)

Position(review, c) == CHOOSE k \in DOMAIN review.preferences : review.preferences[k] = c
RankPoints(review, c) ==
    Times(Max({0, 15000 - 5000 * (Position(review, c) - 1)}), review.confidence)
EvidencePoints(review, c) ==
    SumFunction([e \in {x \in EvidenceIn(review) : x.candidate = c} |->
        IF e.polarity = "supports" THEN EvidenceWeight[e.severity] ELSE -EvidenceWeight[e.severity]])
IssuePoints(review, c) ==
    SumFunction([i \in {x \in review.issues : x.candidate = c} |-> Times(SeverityWeight[i.severity], 1500)])

\* Plausible bug: the boost of the history is taken as it is.
PointsUnbounded(reviews, priors, c) ==
    4 * priors[c]
    + SumFunction([r \in DOMAIN reviews |->
        RankPoints(reviews[r], c) + EvidencePoints(reviews[r], c) - IssuePoints(reviews[r], c)])

\* What history says of a candidate counts a little, and never against it.
Points(reviews, priors, c) ==
    Within(0, 3500, priors[c])
    + SumFunction([r \in DOMAIN reviews |->
        RankPoints(reviews[r], c) + EvidencePoints(reviews[r], c) - IssuePoints(reviews[r], c)])

Preferred(reviews, priors) ==
    LET points == [c \in DOMAIN priors |-> Points(reviews, priors, c)]
    IN  IF points = <<>> THEN Nobody
        ELSE CHOOSE c \in DOMAIN points : \A d \in DOMAIN points \ {c} :
                points[c] > points[d] \/ (points[c] = points[d] /\ c < d)

----------------------------------------------------------------------------
(* Disagreement.                                                           *)

Groups(said) == {{e \in said : e.span = f.span /\ e.dimension = f.dimension} : f \in said}
Severities(group) == {e.severity : e \in group}
DimensionOf(group) == (CHOOSE e \in group : TRUE).dimension

\* Several candidates, of which not the same is said.  The quotes of a dimension
\* never differ where the values do not.
Contradicts(group) ==
    /\ Cardinality({e.candidate : e \in group}) > 1
    /\ \/ Cardinality({e.polarity : e \in group}) > 1
       \/ Cardinality({e.value : e \in group} \ {<<>>}) > 1
       \/ DimensionOf(group) \in {"style", "formatting"} /\ Severities(group) \subseteq Material

Contradictions(said) == {g \in Groups(said) : Contradicts(g)}
Counted(contradictions) ==
    {g \in contradictions : DimensionOf(g) \in {"style", "formatting"} => Severities(g) # {"minor"}}
Blocking(contradictions) ==
    {g \in contradictions : DimensionOf(g) \in HardDimensions /\ Severities(g) \cap Material # {}}

Refutations(said) == {e \in said : e.polarity = "refutes" /\ e.severity \in Material}
MaterialRefutes(said) == {<<e.span, e.candidate, e.dimension>> : e \in Refutations(said)}
HighestSeverity(reviews) ==
    LET found == {i.severity : i \in UNION {reviews[r].issues : r \in DOMAIN reviews}}
                 \cup Severities(Refutations(AllEvidence(reviews)))
    IN  IF "critical" \in found THEN "critical" ELSE IF "major" \in found THEN "major" ELSE "minor"

\* Plausible bug: a finding must weigh more before anybody looks at it again.
ModeLenient(preferred, blocking, score) ==
    IF preferred = Nobody THEN "human_review"
    ELSE IF blocking > 0 THEN IF score >= 45000 THEN "stronger_adjudicator" ELSE "conflict_investigation"
    ELSE IF score >= 52000 THEN "stronger_adjudicator"
    ELSE IF score >= 34000 THEN "conflict_investigation"
    ELSE "automatic_finalize"

ModeOf(preferred, blocking, score) ==
    IF preferred = Nobody THEN "human_review"
    ELSE IF blocking > 0 THEN IF score >= 45000 THEN "stronger_adjudicator" ELSE "conflict_investigation"
    ELSE IF score >= 52000 THEN "stronger_adjudicator"
    ELSE IF score >= 30000 THEN "conflict_investigation"
    ELSE "automatic_finalize"

AssessReviewDisagreement(reviews, priors, risk) ==
    LET preferred == Preferred(reviews, priors)
        confidences == {reviews[r].confidence : r \in DOMAIN reviews}
        spread == IF reviews = <<>> THEN 0 ELSE Max(confidences) - Min(confidences)
        said == AllEvidence(reviews)
        contradictions == Contradictions(said)
        blocking == Cardinality(Blocking(contradictions))
        mismatch == Cardinality({FirstChoice(reviews[r]) : r \in DOMAIN reviews}) > 1
        signals == Cardinality({r \in DOMAIN reviews : reviews[r].signal})
        score == (risk *
                    ((IF mismatch THEN 24000 ELSE 0) + 2 * spread + 13000 * Cardinality(Counted(contradictions))
                    + 12000 * Cardinality(MaterialRefutes(said)) + SeverityWeight[HighestSeverity(reviews)]
                    + (IF signals > 0 THEN 8000 ELSE 0))) \div 100
    IN  [preferred |-> preferred, mismatch |-> mismatch, signals |-> signals, score |-> score,
         contradictions |-> Cardinality(Counted(contradictions)), blocking |-> blocking,
         severity |-> HighestSeverity(reviews), mode |-> ModeOf(preferred, blocking, score),
         confidence |-> IF reviews = <<>> THEN 0
                        ELSE SumFunction([r \in DOMAIN reviews |-> reviews[r].confidence]) \div Len(reviews)]

----------------------------------------------------------------------------
(* The decision.                                                           *)

\* What remains unresolved after the escalation.
Unsettled(a, stage) ==
    /\ a.severity = "critical" /\ a.signals > 0
    /\ \/ stage = "transcript" /\ a.score >= 80000
       \/ a.mismatch /\ (a.blocking > 0 \/ a.score >= 100000)

\* A sole transcript is checked whatever the disagreement.
Escalation(a, stage, count) ==
    LET sole == count = 1 /\ stage = "transcript" IN
    IF a.mode = "automatic_finalize" /\ ~sole THEN "none"
    ELSE IF a.preferred = Nobody THEN "unresolved"
    ELSE IF sole THEN "checked"
    ELSE IF Unsettled(a, stage) THEN "unresolved" ELSE "resolved"

BucketOf(a, mode) ==
    CASE mode = "human_review" -> "unresolved"
      [] mode # "human_review" /\ (a.score >= 52000 \/ a.blocking > 0) -> "high"
      [] mode # "human_review" /\ a.score < 52000 /\ a.blocking = 0 ->
            IF a.score >= 30000 \/ a.contradictions > 0 THEN "medium" ELSE "low"

ConfidenceOf(a, mode, escalation, count) ==
    LET adjustment == CASE escalation = "checked" -> -1200 [] escalation = "resolved" -> -500
                        [] OTHER -> 0
        base == a.confidence - (IF count <= 1 THEN 700 ELSE 0)
                - Min({400 * a.contradictions, 1800}) - Min({1000 * a.blocking, 2500})
    IN  IF mode = "human_review" THEN 0 ELSE Within(0, 9900, base + adjustment)

DecisionFrom(a, stage, count) ==
    LET escalation == Escalation(a, stage, count)
        mode == IF escalation = "unresolved" THEN "human_review" ELSE a.mode
    IN  [mode |-> mode, human |-> mode = "human_review", preferred |-> a.preferred,
         winner |-> IF mode = "human_review" THEN Nobody ELSE a.preferred,
         escalated |-> escalation # "none", bucket |-> BucketOf(a, mode),
         confidence |-> ConfidenceOf(a, mode, escalation, count)]

AdjudicateReviews(reviews, stage, priors, risk) ==
    DecisionFrom(AssessReviewDisagreement(reviews, priors, risk), stage, Cardinality(DOMAIN priors))
=============================================================================
