----------------------------- MODULE Adjudication -----------------------------
(***************************************************************************)
(* A stage of review and its decision: nodes/review.py, nodes/adjudicate.py.*)
(*                                                                         *)
(* The reviewers of a stage share nothing but the limiter's tokens, which  *)
(* ConcurrencyLimiter is about, and their reviews are gathered in their    *)
(* order, so a stage of review is one step that succeeds or raises.        *)
(***************************************************************************)
EXTENDS Reviewers

VARIABLES
    stage,    \* review, adjudicate, decided, failed
    reviews,  \* the reviews in the order of the roles
    decision

adjudicationVars == <<round, stage, reviews, decision>>

Undecided == [mode |-> "none", winner |-> Nobody, human |-> FALSE, failed |-> FALSE]

AdjudicationInit ==
    /\ round \in ReviewRounds
    /\ stage = "review" /\ reviews = <<>> /\ decision = Undecided

----------------------------------------------------------------------------
(* What history says of the candidates.                                    *)

\* A provider whose transcripts were approved; what speaks against it removes
\* the boost.
ProviderPrior(stats) ==
    LET boost == Min({100 * stats.recent, 500}) + Min({100 * stats.approved, 500})
                 + Min({(1200 * stats.rate) \div One, 1500}) + Min({200 * stats.hard, 800}) + Min({300 * stats.soft, 600})
    IN  Max({0, Min({2500, boost}) - Min({300 * stats.negative, 1200})})

\* A model with a prompt whose translations won, were approved, or failed.
FeedbackPrior(stats) ==
    LET pairwise == Within(-1800, 1800, 500 * (stats.won - stats.lost))
        approval == Min({200 * stats.good, 800}) + Min({100 * stats.acceptable, 400})
        failure == Min({300 * stats.rejected, 1200}) + Min({100 * stats.failures, 800})
    IN  Within(-2500, 2500, pairwise + approval - failure)

ProceduralPrior(memory) == 300 * memory.strong + 150 * memory.soft - 200 * memory.negative - 50 * memory.antiPatterns

TranslationPrior(history) == Within(-2500, 2500, FeedbackPrior(history.stats) + ProceduralPrior(history.memory))

Priors ==
    [c \in Candidate |->
        IF round.stage = "transcript" THEN ProviderPrior(round.candidates[c].history)
        ELSE TranslationPrior(round.candidates[c].history)]

----------------------------------------------------------------------------
(* The steps.                                                              *)

HasCandidates == round.candidates # <<>>

ReviewCandidates ==
    /\ stage = "review"
    /\ HasCandidates
    /\ reviews' = [r \in 1..2 |-> ReviewOf(Roles(round.stage)[r])]
    /\ stage' = "adjudicate"
    /\ UNCHANGED <<round, decision>>

\* Without translations there is nothing to review; without transcripts, an error.
SkipReview ==
    /\ stage = "review"
    /\ ~HasCandidates
    /\ stage' = IF round.stage = "transcript" THEN "failed" ELSE "adjudicate"
    /\ UNCHANGED <<round, reviews, decision>>

ReviewFails ==
    /\ stage = "review"
    /\ HasCandidates
    /\ stage' = "failed"
    /\ UNCHANGED <<round, reviews, decision>>

Outcome == AdjudicateReviews(reviews, round.stage, Priors, RiskOf(round.scenario))

\* The conflict investigation of one scenario times out.
TimesOut(outcome) ==
    round.scenario = "translation_conflict_timeout" /\ outcome.mode = "conflict_investigation"

\* What the decision records of an outcome.
TranslationDecision(outcome) ==
    IF TimesOut(outcome)
    THEN [mode |-> "human_review", winner |-> Nobody, human |-> TRUE, failed |-> FALSE,
          bucket |-> "unresolved", confidence |-> 0, escalated |-> TRUE]
    ELSE [mode |-> outcome.mode, winner |-> outcome.winner, human |-> outcome.human, failed |-> FALSE,
          bucket |-> outcome.bucket, confidence |-> outcome.confidence, escalated |-> outcome.escalated]

\* Without a translation the run fails, and nobody is asked to choose.
NoTranslation ==
    [mode |-> "human_review", winner |-> Nobody, human |-> TRUE, failed |-> TRUE,
     bucket |-> "unresolved", confidence |-> 0, escalated |-> TRUE]

AdjudicateTranslation ==
    /\ stage = "adjudicate" /\ round.stage = "translation"
    /\ decision' = IF HasCandidates THEN TranslationDecision(Outcome) ELSE NoTranslation
    /\ stage' = "decided"
    /\ UNCHANGED <<round, reviews>>

\* A transcript is always chosen: the translations of all of them decide.
TranscriptDecision(outcome) ==
    [mode |-> outcome.mode, human |-> FALSE, failed |-> FALSE,
     winner |-> IF outcome.winner # Nobody THEN outcome.winner ELSE outcome.preferred,
     bucket |-> outcome.bucket, confidence |-> outcome.confidence, escalated |-> outcome.escalated]

AdjudicateTranscript ==
    /\ stage = "adjudicate" /\ round.stage = "transcript"
    /\ decision' = TranscriptDecision(Outcome)
    /\ stage' = "decided"
    /\ UNCHANGED <<round, reviews>>

AdjudicationOver ==
    /\ stage \in {"decided", "failed"}
    /\ UNCHANGED adjudicationVars

AdjudicationNext ==
    \/ ReviewCandidates \/ SkipReview \/ ReviewFails
    \/ AdjudicateTranslation \/ AdjudicateTranscript
    \/ AdjudicationOver

AdjudicationSpec == AdjudicationInit /\ [][AdjudicationNext]_adjudicationVars

----------------------------------------------------------------------------
(* Properties.                                                             *)

Refuted(c) == \E e \in Refutations(AllEvidence(reviews)) : e.candidate = c
Compared == stage = "decided" /\ round.stage = "translation" /\ HasCandidates /\ round.scenario \notin Scenarios

\* Of two translations, one that a reviewer refutes wins over one that nobody
\* refutes only where a reviewer ranks it before the other, as a cap on scores, or
\* a wordiness short of a refutation, makes one do: neither its history nor the
\* rest of the evidence makes up for a refutation (review/policy.py
\* _preferred_candidate_id, review/prompts.py _build_translation_review).
RefutedWinsOnlyRanked ==
    Compared => \A c \in Candidate :
        (decision.winner # Nobody /\ Refuted(decision.winner) /\ ~Refuted(c))
            => \E r \in DOMAIN reviews : Position(reviews[r], decision.winner) < Position(reviews[r], c)

\* A decision that nobody looks at again, and whose low disagreement lets a
\* prompt proposal activate itself, has no candidate that a reviewer refutes,
\* whether it won or not (review/policy.py assess_review_disagreement).
AutomaticIsUndisputed ==
    stage = "decided" =>
        /\ decision.mode = "automatic_finalize" \/ decision.bucket = "low"
             => \A c \in Candidate : ~Refuted(c)
        /\ decision.human <=> decision.winner = Nobody
=============================================================================
