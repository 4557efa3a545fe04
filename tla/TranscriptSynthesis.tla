------------------------- MODULE TranscriptSynthesis -------------------------
(***************************************************************************)
(* One transcript out of several: transcript_synthesis.py and the five      *)
(* nodes of nodes/transcript_synthesis.py that call it.                     *)
(*                                                                         *)
(* The segments of the candidates are cut into spans.  A selector takes    *)
(* one candidate as the base, a reviewer audits what it covers, a global   *)
(* adjudicator fills what it leaves uncovered, and the transcript is       *)
(* assembled from the three.  With live reasoning a model answers for each *)
(* of them: its answers are any of LiveAnswers, or nothing.                *)
(*                                                                         *)
(* A text is a sequence of words; Noise is text without a word, such as a  *)
(* note or dots.  Speakers, ids of segments and rationales are left out.   *)
(***************************************************************************)
EXTENDS Enumerations, SequencesExt, FiniteSetsExt

CONSTANTS
    Gap,          \* the longest pause inside a span (320 ms)
    Syntheses,    \* bound: the candidates of the runs and whether they reason live
    LiveAnswers   \* bound: what a model can answer for a span

Noise == "noise"
None == [kind |-> "none"]
Unresolved == [kind |-> "unresolved"]
Resolved(from, text, start, end, origin) ==
    [kind |-> "resolved", from |-> from, text |-> text, start |-> start, end |-> end, origin |-> origin]

\* A segment of a candidate, and an answer that resolves a span.
SegmentType == [start : Int, end : Int, text : Seq(STRING)]
IsResolved(d) ==
    /\ d = Resolved(d.from, d.text, d.start, d.end, d.origin)
    /\ d.text \in Seq(STRING) /\ d.start \in Int /\ d.end \in Int

ASSUME SynthesisAssumption ==
    /\ Gap \in Nat
    /\ \A s \in Syntheses : s.candidates \in Seq([segments : Seq(SegmentType), rank : Int])
    /\ \A d \in LiveAnswers : d = Unresolved \/ IsResolved(d)

VARIABLES
    source,     \* the candidates in the order of their ids, and live
    node,       \* the next node
    spans,      \* the spans in the order of time
    base,       \* the candidate taken as the base, 0 for none
    kept,       \* what the base says for each span
    review,     \* the spans the reviewer calls unresolved, and its corrections
    fill,       \* what the global adjudicator says for each span
    transcript  \* the segments, one at most for each span, and the status

synthesisVars == <<source, node, spans, base, kept, review, fill, transcript>>

NoReview == [unresolved |-> {}, corrected |-> <<>>]
NoTranscript == [segments |-> <<>>, missing |-> {}, status |-> "none"]

SynthesisInit ==
    /\ source \in Syntheses
    /\ node = "spans"
    /\ spans = <<>> /\ base = 0 /\ kept = <<>> /\ fill = <<>>
    /\ review = NoReview /\ transcript = NoTranscript

----------------------------------------------------------------------------
(* Spans and evidence.                                                     *)

Candidates == DOMAIN source.candidates
Segments(c) == source.candidates[c].segments
Segment(start, end, text) == [start |-> start, end |-> end, text |-> text]

\* The segments that are spoken: an empty one, or one without duration, opens
\* no span.
Spoken == UNION {{Segments(c)[k] : k \in {x \in DOMAIN Segments(c) :
                     Segments(c)[x].text # <<>> /\ Segments(c)[x].end > Segments(c)[x].start}} : c \in Candidates}

\* Plausible bug: what counts is the end of the last segment, not the latest end.
OpensAfterLast ==
    {s.start : s \in {u \in Spoken : \A v \in Spoken :
        (v.start < u.start /\ \A w \in Spoken : w.start < u.start => w.start <= v.start)
            => v.end + Gap < u.start}}

\* A span opens where everything said before has ended more than Gap earlier.
Opens == {s.start : s \in {u \in Spoken : \A v \in Spoken : v.start < u.start => v.end + Gap < u.start}}

\* The spans of the candidates; it ends with what starts in it.
SpanTable ==
    LET starts == InOrder(Opens)
        In(i) == {s \in Spoken : s.start >= starts[i] /\ (i < Len(starts) => s.start < starts[i + 1])}
    IN  [i \in DOMAIN starts |-> [start |-> starts[i], end |-> Max({s.end : s \in In(i)})]]

Shared(a, b) == Max({0, Min({a.end, b.end}) - Max({a.start, b.start})})

\* What a candidate says in a span: all its segments that share time with it.
Overlapping(c, span) == {k \in DOMAIN Segments(c) : Shared(span, Segments(c)[k]) > 0}
SharedTime(c, span) == SumFunction([k \in Overlapping(c, span) |-> Shared(span, Segments(c)[k])])
TextOf(c, span) ==
    LET said == InOrder(Overlapping(c, span))
    IN  FlattenSeq([k \in DOMAIN said |-> Segments(c)[said[k]].text])
Supports(c, span) == TextOf(c, span) # <<>>
Extent(c, span) ==
    LET said == {Segments(c)[k] : k \in Overlapping(c, span)}
    IN  Segment(Min({s.start : s \in said}), Max({s.end : s \in said}), TextOf(c, span))

\* The time shared with a span is a share of it: a candidate that overlaps
\* itself there is refused, and with it the whole table.
Refused(table) ==
    \E i \in DOMAIN table : \E c \in Candidates :
        Supports(c, table[i]) /\ SharedTime(c, table[i]) > table[i].end - table[i].start

Supporters(i) == {c \in Candidates : Supports(c, spans[i])}

\* The words of a text, and how alike two texts are.
Words(text) == ToSet(text) \ {Noise}
WordCount(text) == Cardinality({k \in DOMAIN text : text[k] # Noise})
Equivalent(left, right) ==
    LET l == Words(left)
        r == Words(right)
    IN  l # {} /\ r # {} /\ 100 * Cardinality(l \cap r) >= 82 * Cardinality(l \cup r)
Grounded(text, from, i) ==
    /\ Words(text) # {}
    /\ Words(text) \subseteq UNION {Words(TextOf(c, spans[i])) : c \in from \cap Supporters(i)}

----------------------------------------------------------------------------
(* The selector.                                                           *)

\* The order of tuples.
Precedes(a, b) == \E k \in DOMAIN a : a[k] < b[k] /\ \A m \in 1..(k - 1) : a[m] = b[m]

CoveredBy(c) == {i \in DOMAIN spans : c \in Supporters(i)}
CoveredTime(c) == SumFunction([i \in CoveredBy(c) |-> Shared(spans[i], Extent(c, spans[i]))])

\* The spans a candidate covers one after the other, the span it covers before.
Followers(c) == {i \in CoveredBy(c) : \E x \in CoveredBy(c) : x < i}
Before(c, i) == Max({x \in CoveredBy(c) : x < i})
Stable(c) == {i \in Followers(c) : Extent(c, spans[i]).start >= Extent(c, spans[Before(c, i)]).end}

\* What the first candidate to speak in a span says there.
NeighborText(i) ==
    IF i \notin DOMAIN spans THEN <<>>
    ELSE LET own(c) == {s \in Spoken \cap ToSet(Segments(c)) : Shared(spans[i], s) > 0}
             said == UNION {{<<s.start, s.end, c>> : s \in own(c)} : c \in Candidates}
             first == CHOOSE x \in said : \A y \in said \ {x} : Precedes(x, y)
         IN  TextOf(first[3], spans[i])

Continuous(c) ==
    {i \in Followers(c) :
        \/ Equivalent(NeighborText(Before(c, i) + 1), TextOf(c, spans[i]))
        \/ Equivalent(NeighborText(i - 1), TextOf(c, spans[Before(c, i)]))}

RankOf(c) == source.candidates[c].rank
Score(c) ==
    Cardinality(CoveredBy(c)) * 1000000 + CoveredTime(c) * 10
    + Cardinality(Stable(c)) * 1000 + Cardinality(Continuous(c)) * 100
    - Cardinality(Followers(c) \ Stable(c)) * 10000 - RankOf(c)

Ranked == {c \in Candidates : CoveredBy(c) # {}}

\* Candidates with one score are told apart by what they cover, then by rank.
Ranks(c) == <<-Score(c), -Cardinality(CoveredBy(c)), -CoveredTime(c), RankOf(c), c>>
Top == CHOOSE c \in Ranked : \A d \in Ranked \ {c} : Precedes(Ranks(c), Ranks(d))

\* A model may choose any of the ranked candidates; another answer is not taken.
Bases == IF Ranked = {} THEN {0} ELSE IF source.live THEN Ranked ELSE {Top}

\* A span as a candidate says it, cut to the span.
Clip(i, decision) ==
    [decision EXCEPT !.start = Max({spans[i].start, @}), !.end = Min({spans[i].end, @})]
Select(i, c, origin) ==
    LET e == Extent(c, spans[i]) IN Clip(i, Resolved({c}, e.text, e.start, e.end, origin))
BaseDecision(i, c) == IF c \in Supporters(i) THEN Select(i, c, "base") ELSE None

----------------------------------------------------------------------------
(* The reviewer.                                                           *)

\* The spans the audit cannot accept: those without a decision, and those whose
\* text has no word.  A cut decision needs no correction.
Rejected ==
    {i \in DOMAIN spans : kept[i] = None \/ ~Grounded(kept[i].text, kept[i].from, i)}
NoCorrections == [i \in DOMAIN spans |-> None]
Audit == [unresolved |-> Rejected, corrected |-> NoCorrections]

\* A model's review is taken as it is; one that cannot be read says nothing.
Reviews ==
    IF source.live
    THEN {[unresolved |-> u, corrected |-> c] :
             u \in SUBSET DOMAIN spans, c \in [DOMAIN spans -> LiveAnswers \cup {None}]}
    ELSE {Audit}

----------------------------------------------------------------------------
(* The global adjudicator.                                                 *)

\* The evidence for a span, the longest first, then the wordiest.
Strength(i, c) == <<-SharedTime(c, spans[i]), -WordCount(TextOf(c, spans[i])), RankOf(c), c>>
Strongest(i, from) == CHOOSE c \in from : \A d \in from \ {c} : Precedes(Strength(i, c), Strength(i, d))

\* Evidence that is better by a sixth of the span or by a fifth of the words, and
\* not worse in the other.
Dominates(i, c, d) ==
    LET time == SharedTime(c, spans[i]) - SharedTime(d, spans[i])
        cWords == WordCount(TextOf(c, spans[i]))
        dWords == WordCount(TextOf(d, spans[i]))
    IN  \/ 100 * time >= 15 * (spans[i].end - spans[i].start) /\ cWords >= dWords
        \/ 10 * cWords >= 12 * dWords /\ time >= 0

Contained(part, whole) ==
    \E k \in 0..(Len(whole) - Len(part)) : SubSeq(whole, k + 1, k + Len(part)) = part

\* Two fragments that share a word or differ in time are put one after the
\* other, unless the second one adds no word.
MergeInOrder(i, from, first, second) ==
    LET complementary == \/ Words(first.text) \cap Words(second.text) # {}
                         \/ first.start # second.start \/ first.end # second.end
    IN  IF ~complementary \/ Contained(second.text, first.text)
           \/ Words(first.text) = {} \/ Words(second.text) = {}
        THEN Unresolved
        ELSE Clip(i, Resolved(from, first.text \o second.text, Min({first.start, second.start}),
                              Max({first.end, second.end}), "fill"))

\* The one that starts first, or has more of the span, comes first.
Merge(i, c, d) ==
    LET Of(x) == Extent(x, spans[i])
        first == IF Precedes(<<Of(c).start, -SharedTime(c, spans[i]), c>>, <<Of(d).start, -SharedTime(d, spans[i]), d>>)
                 THEN c ELSE d
    IN  MergeInOrder(i, {c, d}, Of(first), Of(IF first = c THEN d ELSE c))

FillDecision(i) ==
    LET others == Supporters(i) \ {base}
        best == Strongest(i, others)
        next == Strongest(i, others \ {best})
    IN  IF others = {} THEN Unresolved
        ELSE IF others = {best} THEN Select(i, best, "fill")
        ELSE IF Dominates(i, best, next) \/ Equivalent(TextOf(best, spans[i]), TextOf(next, spans[i]))
        THEN Select(i, best, "fill")
        ELSE Merge(i, best, next)

\* What the base covers is not repaired: it is given up.
Adjudicated(i) ==
    IF i \notin review.unresolved THEN None
    ELSE IF kept[i] # None THEN Unresolved
    ELSE FillDecision(i)

Answers(i, own) ==
    IF i \in review.unresolved /\ source.live THEN LiveAnswers \cup {own} ELSE {own}
Fills ==
    LET answers == [i \in DOMAIN spans |-> Answers(i, Adjudicated(i))]
    IN  {f \in [DOMAIN spans -> UNION Range(answers)] : \A i \in DOMAIN spans : f[i] \in answers[i]}

----------------------------------------------------------------------------
(* The assembly.                                                           *)

\* Plausible bug: what the adjudicator says goes before the base.
ChosenFillFirst(i) ==
    IF fill[i] # None THEN fill[i]
    ELSE IF review.corrected[i] # None THEN review.corrected[i] ELSE kept[i]

\* The base, corrected, stands, unless the adjudicator gives the span up.
Chosen(i) ==
    LET own == IF review.corrected[i] # None THEN review.corrected[i] ELSE kept[i]
    IN  IF own = None \/ fill[i] = Unresolved THEN fill[i] ELSE own

Emitted(i) ==
    /\ Chosen(i).kind = "resolved"
    /\ LET cut == Clip(i, Chosen(i)) IN cut.start < cut.end

\* The spans that are emitted, and those that are missed.
EmittedSpans == {i \in DOMAIN spans : Emitted(i)}
MissingSpans == {i \in DOMAIN spans \ EmittedSpans : Chosen(i).kind = "resolved" \/ Supporters(i) # {}}

SegmentOf(i) ==
    LET cut == Clip(i, Chosen(i))
    IN  [span |-> i, from |-> cut.from, text |-> cut.text, start |-> cut.start, end |-> cut.end, origin |-> cut.origin]

\* Plausible bug: the transcript is ready when it is in order.
StatusInOrder(segments, missing) ==
    IF \A k \in DOMAIN segments \ {1} : segments[k].start >= segments[k - 1].end
    THEN "ready" ELSE "blocked"

\* A transcript is blocked by a span that is missing, listed or not, and by
\* segments that overlap, go back or have no duration.
Blockers(segments, missing) ==
    {k \in DOMAIN segments \ {1} :
        segments[k].start < segments[k - 1].end \/ segments[k].end < segments[k - 1].end}
    \cup {k \in DOMAIN segments : segments[k].end <= segments[k].start}
    \cup {i \in DOMAIN spans : Supporters(i) # {} /\ \A k \in DOMAIN segments : segments[k].span # i}
    \cup missing
StatusOf(segments, missing) == IF Blockers(segments, missing) = {} THEN "ready" ELSE "blocked"

Assembled ==
    LET order == InOrder(EmittedSpans)
        segments == [k \in DOMAIN order |-> SegmentOf(order[k])]
    IN  [segments |-> segments, missing |-> MissingSpans, status |-> StatusOf(segments, MissingSpans)]

----------------------------------------------------------------------------
(* The nodes.                                                              *)

Enter(from, to) == node = from /\ node' = to

BuildCanonicalTranscriptSpans ==
    /\ IF Refused(SpanTable)
       THEN Enter("spans", "failed") /\ UNCHANGED spans
       ELSE Enter("spans", "select") /\ spans' = SpanTable
    /\ UNCHANGED <<source, base, kept, review, fill, transcript>>

SelectTranscriptSpans ==
    /\ Enter("select", "review")
    /\ \E c \in Bases :
          /\ base' = c
          /\ kept' = [i \in DOMAIN spans |-> BaseDecision(i, c)]
    /\ UNCHANGED <<source, spans, review, fill, transcript>>

ReviewTranscriptSpans ==
    /\ Enter("review", "adjudicate")
    /\ \E answer \in Reviews : review' = answer
    /\ UNCHANGED <<source, spans, base, kept, fill, transcript>>

\* The issues of a live review are read last, and an unreadable one raises.
ReviewRaises ==
    /\ source.live
    /\ Enter("review", "failed")
    /\ UNCHANGED <<source, spans, base, kept, review, fill, transcript>>

AdjudicateTranscriptSpans ==
    /\ Enter("adjudicate", "materialize")
    /\ fill' \in Fills
    /\ UNCHANGED <<source, spans, base, kept, review, transcript>>

MaterializeSynthesizedTranscript ==
    /\ Enter("materialize", "done")
    /\ transcript' = Assembled
    /\ UNCHANGED <<source, spans, base, kept, review, fill>>

SynthesisOver ==
    /\ node \in {"done", "failed"}
    /\ UNCHANGED synthesisVars

SynthesisNext ==
    \/ BuildCanonicalTranscriptSpans \/ SelectTranscriptSpans
    \/ ReviewTranscriptSpans \/ ReviewRaises
    \/ AdjudicateTranscriptSpans \/ MaterializeSynthesizedTranscript
    \/ SynthesisOver

SynthesisSpec == SynthesisInit /\ [][SynthesisNext]_synthesisVars

----------------------------------------------------------------------------
(* Properties.                                                             *)

TextAt(k) == transcript.segments[k].text

\* Whatever a model answers, the segments of a transcript are in order and do
\* not overlap, and a ready transcript has a segment for everything that any
\* candidate has said: everything spoken shares time with a span of a segment
\* (transcript_synthesis.py materialize_synthesized_transcript).
OrderedAndWhole ==
    node = "done" =>
        LET said == transcript.segments
        IN  /\ \A k, m \in DOMAIN said : k < m => said[k].end <= said[m].start
            /\ transcript.status = "ready" =>
                 \A s \in Spoken : \E k \in DOMAIN said : Shared(spans[said[k].span], s) > 0

\* The base's words stand wherever it has words, unless the reviewer corrects
\* the span; without live reasoning every other segment consists of words that
\* candidates have said in its span, or of the noise of one that fills a span the
\* base leaves open, which nothing audits; and a span is missing only where the
\* base made noise, or said nothing and several others differ
\* (transcript_synthesis.py run_global_adjudicator: "Resolve only base-uncovered
\* spans or record defensive failures").
BaseStands ==
    node = "done" =>
        /\ \A k \in DOMAIN transcript.segments :
             LET i == transcript.segments[k].span
             IN  /\ (base \in Supporters(i) /\ review.corrected[i] = None) => TextAt(k) = TextOf(base, spans[i])
                 /\ ~source.live =>
                      \/ Grounded(TextAt(k), Supporters(i), i)
                      \/ /\ base \notin Supporters(i) /\ Words(TextAt(k)) = {}
                         /\ \E c \in Supporters(i) : TextAt(k) = TextOf(c, spans[i])
        /\ ~source.live => \A i \in transcript.missing :
             \/ base \in Supporters(i) /\ Words(TextOf(base, spans[i])) = {}
             \/ base \notin Supporters(i) /\ Cardinality(Supporters(i)) > 1

============================================================================
