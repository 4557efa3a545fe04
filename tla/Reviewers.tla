------------------------------ MODULE Reviewers ------------------------------
(***************************************************************************)
(* The reviewers of a stage: review/prompts.py, whose structured reviews   *)
(* nodes/review.py turns into bundles.                                     *)
(*                                                                         *)
(* A text is a sequence of words.  A word may be an entity (an acronym, a  *)
(* mixed-case word, a word with digits) or a number, and "." is no word.   *)
(* Every segment has a duration and, once normalised, the id of a span.    *)
(* The prose of a review, its suggested fixes and its rationales are left  *)
(* out.                                                                    *)
(***************************************************************************)
EXTENDS ReviewPolicy, Functions

CONSTANTS
    EntityWords, NumberWords,
    Glossary,     \* the recalled pairs of a term and its translation, two at most
    Bucket,       \* what a time is rounded to in the id of a span (250 ms)
    ReviewRounds  \* bound: the candidates that are reviewed

VARIABLE round    \* stage, scenario, candidates; source and clean of a translation

\* A segment, and what history has counted.
PieceType == [span : Seq(Nat), start : Int, end : Int, text : Seq(STRING), speaker : STRING]
ProviderHistory == [recent : Nat, approved : Nat, rate : Nat, hard : Nat, soft : Nat, negative : Nat]
PromptHistory ==
    [stats : [won : Nat, lost : Nat, good : Nat, acceptable : Nat, rejected : Nat, failures : Nat],
     memory : [strong : Nat, soft : Nat, negative : Nat, antiPatterns : Nat]]
CandidateSeq(history) == Seq([variant : STRING, history : history, segments : Seq(PieceType)])

\* The source of a translation has a segment for a span, and one only: it is kept
\* by the id of the span.
IsRound(r) ==
    \/ r.stage = "transcript" /\ r.candidates \in CandidateSeq(ProviderHistory)
    \/ /\ r.stage = "translation" /\ r.candidates \in CandidateSeq(PromptHistory)
       /\ r.source \in Seq(PieceType) /\ r.clean \in Nat
       /\ \A i, j \in DOMAIN r.source : r.source[i].span = r.source[j].span => i = j

ASSUME ReviewAssumption ==
    /\ Glossary \in Seq(STRING \X STRING)
    /\ \A r \in ReviewRounds : IsRound(r)

Candidate == DOMAIN round.candidates
SegmentsOf(c) == round.candidates[c].segments
NoSegment == [span |-> <<>>, start |-> 0, end |-> 0, text |-> <<>>, speaker |-> ""]

Mean(numbers, none) ==
    IF DOMAIN numbers = {} THEN none ELSE SumFunction(numbers) \div Cardinality(DOMAIN numbers)

\* The share of the time of two segments that they share.
Overlap(s, t) ==
    LET shared == Max({0, Min({s.end, t.end}) - Max({s.start, t.start})})
    IN  (One * shared) \div (Max({s.end, t.end}) - Min({s.start, t.start}))

\* Where a text has words, and which.
Tokens(text) == {k \in DOMAIN text : text[k] # "."}
Vocabulary(text) == ToSet(text) \ {"."}
Entities(text) == ToSet(text) \cap EntityWords
Numbers(text) == ToSet(text) \cap NumberWords
ValueOf(words) == SetToSeq(words)

\* The ranking of the reviewers, by score and then by id.
RankedBy(score) ==
    LET Ahead == {p \in (DOMAIN score) \X (DOMAIN score) :
                    score[p[1]] > score[p[2]] \/ (score[p[1]] = score[p[2]] /\ p[1] < p[2])}
    IN  Enumeration(DOMAIN score, Ahead)

\* What concerns a role; the others look at the form.
Concerns(role) ==
    IF role \in {"accuracy_reviewer", "faithfulness_reviewer"}
    THEN {"meaning", "entity", "number_date_unit", "terminology", "coverage"}
    ELSE {"coverage", "formatting", "style", "meaning"}
Roles(stage) ==
    IF stage = "transcript" THEN <<"accuracy_reviewer", "coherence_reviewer">>
    ELSE <<"faithfulness_reviewer", "style_reviewer">>

Refute(span, c, dimension, value, severity) ==
    {Evidence(span, c, dimension, "refutes", value, severity)}
Support(span, c, dimension, value) ==
    {Evidence(span, c, dimension, "supports", value, "minor")}
IssueOf(e) == [candidate |-> e.candidate, dimension |-> e.dimension, severity |-> e.severity, span |-> e.span]

\* A review of a role: it signals what any role has found, and brings its own.
Draft(role, score, found, issues) ==
    LET ranked == RankedBy(score)
        mine == {e \in found : e.dimension \in Concerns(role)}
        best == Within(3500, 9800, score[ranked[1]])
    IN  [preferences |-> ranked, score |-> score,
         confidence |-> ((best + 50) \div 100) * 100,
         evidence |-> mine, issues |-> {i \in issues : i.dimension \in Concerns(role)},
         signal |-> \E e \in Refutations(found) : e.dimension \in HardDimensions \cup {"terminology"}]

----------------------------------------------------------------------------
(* Translations.                                                           *)

Spans == DOMAIN round.source

\* The span a translated segment belongs to: its own, or else the first of those
\* it shares most time with, and at least half.
SpanFor(s) ==
    LET shared == [i \in Spans |-> Overlap(s, round.source[i])]
    IN  IF \E i \in Spans : round.source[i].span = s.span
        THEN Max({i \in Spans : round.source[i].span = s.span})
        ELSE IF \E i \in Spans : 2 * shared[i] >= One
        THEN Min({i \in Spans : \A j \in Spans : shared[j] <= shared[i]})
        ELSE 0

\* The last segment for a span is the one that counts.
Translated(c, i) ==
    LET own == {k \in DOMAIN SegmentsOf(c) : SpanFor(SegmentsOf(c)[k]) = i}
    IN  IF own = {} THEN <<>> ELSE SegmentsOf(c)[Max(own)].text

PeerLengths(i, text) ==
    LET Peer(s) == s.span = round.source[i].span /\ s.text # <<>> /\ s.text # text
        peers == {p \in UNION {{c} \X (DOMAIN SegmentsOf(c)) : c \in Candidate} : Peer(SegmentsOf(p[1])[p[2]])}
    IN  [p \in peers |-> Cardinality(Tokens(SegmentsOf(p[1])[p[2]].text))]

Preserved(wanted, given) ==
    IF wanted = {} THEN One ELSE (One * Cardinality(wanted \cap given)) \div Cardinality(wanted)

Applying(source) == {k \in DOMAIN Glossary : Glossary[k][1] \in ToSet(source)}
GlossaryScore(source, target) ==
    LET kept == {k \in Applying(source) : Glossary[k][2] \in ToSet(target)}
    IN  IF Applying(source) = {} THEN One ELSE (One * Cardinality(kept)) \div Cardinality(Applying(source))

\* More words than the source or than the other translations of the span.
AdditionPenalty(source, target, peers) ==
    LET long == Cardinality(Tokens(target))
        usual == Mean([k \in DOMAIN peers |-> One * peers[k]], One * long)
        OverSource == IF Tokens(source) = {} THEN 0
                      ELSE Within(0, One, (One * long) \div Cardinality(Tokens(source)) - 18000)
        OverPeers == IF usual = 0 THEN 0 ELSE Within(0, One, (One * One * long) \div usual - 15000)
        OverShortest == IF DOMAIN peers = {} THEN 0
                        ELSE Within(0, One, (One * (long - Min(Range(peers)) - 2)) \div 4)
    IN  Max({OverSource, OverPeers, OverShortest})

Fluency(target) ==
    IF Tokens(target) = {} THEN 0
    ELSE 7500 + (IF Last(target) = "." THEN 500 ELSE 0)
         - (IF Cardinality(Vocabulary(target)) = Cardinality(Tokens(target)) THEN 0 ELSE 1000)

\* What is found in the translation of a span, given its addition penalty.
TranslationFindings(c, i, target, added) ==
    LET span == round.source[i].span
        source == round.source[i].text
        entities == ValueOf(Entities(target))
        Entity == IF Entities(source) = {} THEN {}
                  ELSE IF Entities(source) \subseteq Entities(target) THEN Support(span, c, "entity", entities)
                  ELSE Refute(span, c, "entity", entities, "major")
        Number == IF Numbers(source) \subseteq Numbers(target) THEN {}
                  ELSE Refute(span, c, "number_date_unit", ValueOf(Numbers(target)), "critical")
        Term == IF GlossaryScore(source, target) = One THEN {}
                ELSE Refute(span, c, "terminology", <<Glossary[Min(Applying(source))][2]>>, "major")
        Added == IF added < 2000 THEN {}
                 ELSE Refute(span, c, "meaning", <<"added_content">>, "major")
    IN  IF target = <<>> THEN Refute(span, c, "coverage", <<"omitted">>, "major")
        ELSE Support(span, c, "coverage", <<"preserved">>) \cup Entity \cup Number \cup Term \cup Added

\* Besides the spans of the source, round.clean spans are translated by every
\* candidate without a finding and with the same words.
TranslationScore(role, targets, penalties) ==
    LET done == {i \in Spans : targets[i] # <<>>}
        Average(numbers, same, none) ==
            IF done = {} /\ round.clean = 0 THEN none
            ELSE (SumFunction(numbers) + same * round.clean) \div (Cardinality(done) + round.clean)
        Source(i) == round.source[i].text
        coverage == IF Spans = {} /\ round.clean = 0 THEN 0
                    ELSE (One * (Cardinality(done) + round.clean)) \div (Len(round.source) + round.clean)
        entity == Average([i \in done |-> Preserved(Entities(Source(i)), Entities(targets[i]))], One, One)
        number == Average([i \in done |-> Preserved(Numbers(Source(i)), Numbers(targets[i]))], One, One)
        term == Average([i \in done |-> GlossaryScore(Source(i), targets[i])], One, One)
        added == Average([i \in done |-> penalties[i]], 0, 0)
        fluency == Average([i \in done |-> Fluency(targets[i])], 7500, 5000)
        faithful == Within(0, One, (45 * coverage + 20 * entity + 20 * number + 15 * term - 20 * added) \div 100)
        bonus == IF role = "style_reviewer" THEN fluency \div 10 ELSE 0
    IN  Within(0, 9900, faithful + bonus - (One - coverage) \div 20)

TranslationReview(role) ==
    LET targets == [c \in Candidate |-> [i \in Spans |-> Translated(c, i)]]
        Penalty(i, target) == AdditionPenalty(round.source[i].text, target, PeerLengths(i, target))
        penalties == [c \in Candidate |-> [i \in Spans |-> Penalty(i, targets[c][i])]]
        found == UNION {TranslationFindings(c, i, targets[c][i], penalties[c][i]) : c \in Candidate, i \in Spans}
    IN  Draft(role, [c \in Candidate |-> TranslationScore(role, targets[c], penalties[c])], found,
              {IssueOf(e) : e \in {f \in found : f.dimension = "coverage" /\ f.polarity = "refutes"}})

----------------------------------------------------------------------------
(* Fixed reviews of the scenarios of the fake runtime.                     *)

Fixture(order, confidence, evidence, issues, signal) ==
    [preferences |-> order, score |-> <<>>, confidence |-> confidence,
     evidence |-> evidence, issues |-> issues, signal |-> signal]

\* The candidate of the first variant, and of the second.
VariantA == IF \E c \in Candidate : round.candidates[c].variant = "variant-a"
            THEN Max({c \in Candidate : round.candidates[c].variant = "variant-a"}) ELSE 1
VariantB == IF \E c \in Candidate : round.candidates[c].variant = "variant-b"
            THEN Max({c \in Candidate : round.candidates[c].variant = "variant-b"}) ELSE Max(Candidate)

ConflictReview(role, span) ==
    LET a == VariantA
        b == VariantB
    IN  IF role = "faithfulness_reviewer"
        THEN Fixture(<<a, b>>, 8600, Support(span, a, "coverage", <<"preserved">>)
                     \cup Support(span, b, "coverage", <<"preserved">>), {}, TRUE)
        ELSE Fixture(<<b, a>>, 4600, Support(span, b, "style", <<"fluent">>)
                     \cup Support(span, a, "style", <<"literal">>), {}, TRUE)

EscalationReview(role, span) ==
    LET a == VariantA
        b == VariantB
        added == Refute(span, b, "meaning", <<"added_content">>, "major")
        stiff == Refute(span, a, "style", <<"stiff">>, "major")
    IN  IF role = "faithfulness_reviewer"
        THEN Fixture(<<a, b>>, 8800, Support(span, a, "coverage", <<"preserved">>) \cup added,
                     {IssueOf(e) : e \in added}, TRUE)
        ELSE Fixture(<<b, a>>, 8200, Support(span, b, "style", <<"fluent">>) \cup stiff,
                     {IssueOf(e) : e \in stiff}, TRUE)

TimeoutReview(span) ==
    Fixture(<<VariantA, VariantB>>, 8200, Refute(span, VariantB, "meaning", <<"added_content">>, "major"), {}, TRUE)

UnsafeReview(span) ==
    LET unsafe == UNION {Refute(span, c, "meaning", <<"conflict">>, "critical") : c \in {VariantA, VariantB}}
        none == [candidate |-> Nobody, dimension |-> "meaning", severity |-> "critical", span |-> span]
    IN  Fixture(<<VariantA, VariantB>>, 5500, unsafe, {none}, TRUE)

ScenarioReview(role) ==
    LET span == IF SegmentsOf(VariantA) = <<>> THEN <<0, 1250>> ELSE SegmentsOf(VariantA)[1].span IN
    IF Len(round.candidates) = 1
    THEN Fixture(<<1>>, 8200, Support(span, 1, "coverage", <<"single_candidate">>), {}, FALSE)
    ELSE CASE round.scenario \in {"translation_conflict", "translation_high_risk"} -> ConflictReview(role, span)
           [] round.scenario = "translation_escalation" -> EscalationReview(role, span)
           [] round.scenario = "translation_conflict_timeout" -> TimeoutReview(span)
           [] round.scenario = "translation_human_review" -> UnsafeReview(span)

----------------------------------------------------------------------------
(* Transcripts.                                                            *)

\* The id of a span is made of its rounded times.
SpanIdOf(s) ==
    LET Rounded(t) == Bucket * ((2 * t + Bucket) \div (2 * Bucket)) IN <<Rounded(s.start), Rounded(s.end)>>

\* A segment joins the first group one of whose segments it shares half its time
\* with, or opens one; a group opened with the id of another takes its place.
Grouped(groups, own) ==
    LET near == {g \in DOMAIN groups : \E k \in DOMAIN groups[g].entries :
                    2 * Overlap(own.segment, groups[g].entries[k].segment) >= One}
        id == SpanIdOf(own.segment)
        same == {g \in DOMAIN groups : groups[g].span = id}
        opened == [span |-> id, entries |-> <<own>>]
    IN  IF near # {} THEN [groups EXCEPT ![Min(near)].entries = Append(@, own)]
        ELSE IF same # {} THEN [groups EXCEPT ![Min(same)] = opened]
        ELSE Append(groups, opened)

TranscriptSpans ==
    LET All(c) == [k \in DOMAIN SegmentsOf(c) |-> [owner |-> c, segment |-> SegmentsOf(c)[k]]]
        all == FlattenSeq([c \in Candidate |-> All(c)])
    IN  FoldLeft(Grouped, <<>>, all)

Length(s) == s.end - s.start

\* What a candidate says in a group: its first segment there, or the one that
\* covers most, and at least half, of the longest.
Said(c, group) ==
    LET own == {k \in DOMAIN group.entries : group.entries[k].owner = c}
        longest == group.entries[CHOOSE k \in DOMAIN group.entries :
                       \A m \in DOMAIN group.entries :
                          LET d == Length(group.entries[k].segment) - Length(group.entries[m].segment)
                          IN  d > 0 \/ (d = 0 /\ k <= m)].segment
        Covered(k) == Max({0, Min({SegmentsOf(c)[k].end, longest.end}) - Max({SegmentsOf(c)[k].start, longest.start})})
        best == {k \in DOMAIN SegmentsOf(c) : 2 * Covered(k) >= Length(longest) /\
                    \A m \in DOMAIN SegmentsOf(c) : Covered(m) <= Covered(k)}
    IN  IF own # {} THEN group.entries[Min(own)].segment
        ELSE IF best # {} THEN SegmentsOf(c)[Min(best)]
        ELSE NoSegment

\* The most common of some values, the first of those that are as common.
MostCommon(values, none) ==
    LET Count(x) == Cardinality({k \in DOMAIN values : values[k] = x})
    IN  IF DOMAIN values = {} THEN none
        ELSE values[CHOOSE k \in DOMAIN values : \A m \in DOMAIN values :
                Count(values[k]) > Count(values[m]) \/ (Count(values[k]) = Count(values[m]) /\ k <= m)]

SpokenText(group) ==
    LET spoken == {k \in DOMAIN group.entries : group.entries[k].segment.text # <<>>}
    IN  MostCommon([k \in spoken |-> group.entries[k].segment.text], <<>>)
Speaker(group) ==
    LET named == {k \in DOMAIN group.entries : group.entries[k].segment.speaker # ""}
    IN  MostCommon([k \in named |-> group.entries[k].segment.speaker], "")

MeaningScore(text, consensus) ==
    LET l == Vocabulary(text)
        r == Vocabulary(consensus)
    IN  IF l \cup r = {} \/ (l # {} /\ r # {} /\ r \subseteq l) THEN One
        ELSE (One * Cardinality(l \cap r)) \div Cardinality(l \cup r)

\* What a candidate says in a group, and what most of them say.
Comparison(c, group) ==
    [span |-> group.span, said |-> Said(c, group), consensus |-> SpokenText(group), speaker |-> Speaker(group)]

TranscriptFindings(c, compared) ==
    LET said == compared.said
        consensus == compared.consensus
        span == compared.span
        Meaning == IF MeaningScore(said.text, consensus) < 5500
                   THEN Refute(span, c, "meaning", <<said.text>>, "critical")
                   ELSE Support(span, c, "coverage", <<"preserved">>)
        Entity == IF Entities(said.text) = Entities(consensus) THEN {}
                  ELSE Refute(span, c, "entity", ValueOf(Entities(said.text)), "major")
        Number == IF Numbers(said.text) = Numbers(consensus) THEN {}
                  ELSE Refute(span, c, "number_date_unit", ValueOf(Numbers(said.text)), "major")
        Form == IF "" \in {compared.speaker, said.speaker} \/ said.speaker = compared.speaker THEN {}
                ELSE Refute(span, c, "formatting", <<said.speaker>>, "minor")
    IN  IF said = NoSegment THEN Refute(span, c, "coverage", <<"omitted">>, "major")
        ELSE Meaning \cup Entity \cup Number \cup Form

TranscriptScore(compared) ==
    LET heard == {k \in DOMAIN compared : compared[k].said # NoSegment}
        coverage == IF compared = <<>> THEN 0 ELSE (One * Cardinality(heard)) \div Len(compared)
        meaning == Mean([k \in heard |-> MeaningScore(compared[k].said.text, compared[k].consensus)], 0)
        speakers == Mean([k \in heard |->
            IF compared[k].speaker \in {"", compared[k].said.speaker} THEN One ELSE 0], One)
    IN  (40 * coverage + 35 * meaning + 15 * One + 10 * speakers) \div 100

TranscriptReview(role) ==
    LET groups == TranscriptSpans
        compared == [c \in Candidate |-> [g \in DOMAIN groups |-> Comparison(c, groups[g])]]
        found == UNION {TranscriptFindings(c, compared[c][g]) : c \in Candidate, g \in DOMAIN groups}
        Reported(e) == e.severity = "critical" \/ e.value = <<"omitted">>
    IN  Draft(role, [c \in Candidate |-> TranscriptScore(compared[c])], found,
              {IssueOf(e) : e \in {f \in found : Reported(f)}})

----------------------------------------------------------------------------

Scenarios == {"translation_conflict", "translation_conflict_timeout", "translation_high_risk",
              "translation_escalation", "translation_human_review"}

ReviewOf(role) ==
    IF round.stage = "transcript" THEN TranscriptReview(role)
    ELSE IF round.scenario \in Scenarios THEN ScenarioReview(role)
    ELSE TranslationReview(role)
=============================================================================
