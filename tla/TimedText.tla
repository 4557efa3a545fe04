------------------------------ MODULE TimedText ------------------------------
(***************************************************************************)
(* Long segments cut into timed parts: the cues of a translation, as they   *)
(* are published (subtitles.py), and the segments of a provider's transcript*)
(* (normalization.py, which has a copy of the same functions: Style says    *)
(* where the two differ).                                                  *)
(*                                                                         *)
(* A text is a sequence of characters of five kinds.                       *)
(***************************************************************************)
EXTENDS Enumerations, SequencesExt, FiniteSetsExt

CONSTANTS
    LineChars,         \* LineChars[compact]: MAX_COMPACT_ and MAX_DEFAULT_CHARS_PER_LINE
    CueGap,            \* SUBTITLE_GAP_MS
    LongestCue,        \* MAX_SUBTITLE_DURATION_MS
    LongestSegment     \* MAX_TRANSCRIPT_SEGMENT_DURATION_MS

\* Letter, ideograph, blank, stop, full-width stop.
Characters == {"a", "k", " ", ".", "o"}

\* Compact scripts have no blanks between words; only normalization leaves the
\* blanks there out of its counts and knows the punctuation of both scripts.
CueStyle(compact) ==
    [compact |-> compact, stops |-> IF compact THEN {"o"} ELSE {"."}, countsBlanks |-> TRUE,
     gap |-> CueGap, longest |-> LongestCue]
SegmentStyle(compact) ==
    [compact |-> compact, stops |-> {".", "o"}, countsBlanks |-> ~compact,
     gap |-> 0, longest |-> LongestSegment]

\* Where a text has characters that are not blank, and those characters.
IsInk(c) == c # " "
InkIn(text) == {k \in DOMAIN text : IsInk(text[k])}
Ink(text) == SelectSeq(text, IsInk)
HasIdeographs(text) == "k" \in ToSet(text)

Strip(text) == IF InkIn(text) = {} THEN <<>> ELSE SubSeq(text, Min(InkIn(text)), Max(InkIn(text)))

\* The length of a text.
Units(text, style) == IF style.countsBlanks THEN Len(text) ELSE Cardinality(InkIn(text))

----------------------------------------------------------------------------
(* Cutting text.                                                           *)

\* Words, or for a compact script what ends in a stop.
Pieces(text, style) ==
    LET Opens(k) == IF style.compact THEN k = 1 \/ text[k - 1] \in style.stops
                    ELSE IsInk(text[k]) /\ (k = 1 \/ ~IsInk(text[k - 1]))
        starts == {k \in DOMAIN text : Opens(k)}
        Piece(k) == Strip(SubSeq(text, k, Min({m \in starts : m > k} \cup {Len(text) + 1}) - 1))
        order == InOrder({k \in starts : Piece(k) # <<>>})
    IN  [i \in DOMAIN order |-> Piece(order[i])]

\* Parts have no blanks at their ends.
Join(left, right, style) ==
    IF left = <<>> \/ right = <<>> THEN left \o right
    ELSE left \o (IF style.compact THEN <<>> ELSE <<" ">>) \o right

\* How much of a text may come before a cut: up to a stop, or to a blank; half of
\* it, if there is neither.
Cuts(text, style) ==
    LET inner == 1..(Len(text) - 1)
        cuts == {k \in inner : text[k] \in style.stops}
                \cup {k - 1 : k \in {x \in inner : ~style.compact /\ text[x] = " "}}
    IN  IF cuts = {} THEN {Len(text) \div 2} ELSE cuts

Distance(x, y) == IF x < y THEN y - x ELSE x - y

\* The cut nearest to a number of units, given doubled; the first of two.
NearestCut(cuts, text, doubled, style) ==
    LET Off(k) == Distance(2 * Units(SubSeq(text, 1, k), style), doubled)
    IN  CHOOSE k \in cuts : \A m \in cuts : Off(k) < Off(m) \/ (Off(k) = Off(m) /\ k <= m)

\* Plausible bug: the second half starts after the character at the cut.
HalvesAfterCut(text, style) ==
    LET cut == NearestCut(Cuts(text, style), text, 2 * Max({Units(text, style) \div 2, 1}), style)
    IN  IF Units(text, style) <= 1 THEN <<text>>
        ELSE <<Strip(SubSeq(text, 1, cut)), Strip(SubSeq(text, cut + 2, Len(text)))>>

Halves(text, style) ==
    LET cut == NearestCut(Cuts(text, style), text, 2 * Max({Units(text, style) \div 2, 1}), style)
    IN  IF Units(text, style) <= 1 THEN <<text>>
        ELSE <<Strip(SubSeq(text, 1, cut)), Strip(SubSeq(text, cut + 1, Len(text)))>>

\* A text above the limit is halved, and so are its halves, as long as they can be.
Bounded(text, limit, style) ==
    LET Bisected(t) == IF Units(t, style) <= limit THEN <<t>> ELSE Halves(t, style)
        rounds[n \in 0..Len(text)] ==
            IF n = 0 THEN <<text>>
            ELSE LET last == rounds[n - 1] IN FlattenSeq([i \in DOMAIN last |-> Bisected(last[i])])
    IN  rounds[Len(text)]

\* Words up to a stop are a clause.
Resumed(clauses, piece, style) ==
    LET IsClosed(clause) == clause # <<>> /\ Last(clause) \in style.stops
    IN  IF clauses = <<>> \/ IsClosed(Last(clauses)) THEN Append(clauses, piece)
        ELSE [clauses EXCEPT ![Len(clauses)] = Join(@, piece, style)]

\* A clause above the limit is halved.
Clauses(text, limit, style) ==
    LET pieces == Pieces(text, style)
        clauses[i \in 0..Len(pieces)] == IF i = 0 THEN <<>> ELSE Resumed(clauses[i - 1], pieces[i], style)
        all == IF pieces = <<>> THEN <<text>> ELSE clauses[Len(pieces)]
    IN  FlattenSeq([i \in DOMAIN all |-> Bounded(all[i], limit, style)])

\* Clauses share a part as long as they fit.
Filled(parts, clause, limit, style) ==
    IF parts # <<>> /\ Units(Join(Last(parts), clause, style), style) <= limit
    THEN [parts EXCEPT ![Len(parts)] = Join(@, clause, style)]
    ELSE Append(parts, clause)

Parts(text, limit, style) ==
    LET clauses == Clauses(text, limit, style)
        parts[i \in 0..Len(clauses)] == IF i = 0 THEN <<>> ELSE Filled(parts[i - 1], clauses[i], limit, style)
    IN  IF clauses = <<>> THEN <<text>> ELSE parts[Len(clauses)]

----------------------------------------------------------------------------
(* Sharing time.                                                           *)

\* round() of a quotient of integers: half to even.
Rounded(x, y) ==
    LET q == x \div y
        twice == 2 * (x % y)
    IN  IF twice < y \/ (twice = y /\ q % 2 = 0) THEN q ELSE q + 1

\* Where each part ends in a time that is shared out by length.
Boundaries(parts, shared, style) ==
    LET n == Len(parts)
        through[k \in 0..n] == IF k = 0 THEN 0 ELSE through[k - 1] + Max({Units(parts[k], style), 1})
    IN  [k \in 0..n |-> IF k = n THEN shared ELSE Rounded(shared * through[k], through[n])]

\* Plausible bug: a part does not leave time for the ones after it.
PartEndUnclamped(from, length, latest, end) ==
    LET to == from + length IN IF to > from THEN to ELSE Min({from + 1, end})

PartEnd(from, length, latest, end) ==
    LET to == Min({from + length, latest}) IN IF to > from THEN to ELSE Min({from + 1, end})

\* The time of a segment shared out by length, with gaps as far as they fit.
\* The last part ends with the segment.
Timed(start, end, parts, style) ==
    LET n == Len(parts)
        total == Max({end - start, 1})
        gaps == Min({style.gap * (n - 1), Max({total - n, 0})})
        bounds == Boundaries(parts, Max({total - gaps, n}), style)
        From(i, last) == IF i = 1 THEN start ELSE Min({last + style.gap, end})
        To(i, from) ==
            LET left == IF i = 1 THEN total ELSE Max({end - from, 0})
                length == Min({Max({bounds[i] - bounds[i - 1], 1}), Max({left - (n - i), 1})})
            IN  PartEnd(from, length, end - (n - i) - (IF i < n THEN style.gap ELSE 0), end)
        ends[i \in 0..n] == IF i = 0 THEN start ELSE To(i, From(i, ends[i - 1]))
    IN  [i \in 1..n |-> [start |-> From(i, ends[i - 1]), end |-> IF i = n THEN end ELSE ends[i], text |-> parts[i]]]

TooLong(timed, style) == {i \in DOMAIN timed : timed[i].end - timed[i].start > style.longest}
PutFor(i, halves, parts) == SubSeq(parts, 1, i - 1) \o halves \o SubSeq(parts, i + 1, Len(parts))

\* The first part that lasts too long is halved, until none does or it cannot be.
Halved(timed, parts, style) ==
    LET first == Min(TooLong(timed, style))
        halves == Halves(parts[first], style)
    IN  IF TooLong(timed, style) = {} THEN [timed |-> timed, stuck |-> FALSE, over |-> TRUE, next |-> parts]
        ELSE IF Len(halves) = 1 THEN [timed |-> timed, stuck |-> TRUE, over |-> TRUE, next |-> parts]
        ELSE [timed |-> timed, stuck |-> FALSE, over |-> FALSE, next |-> PutFor(first, halves, parts)]

Refit(start, end, parts, style) == Halved(Timed(start, end, parts, style), parts, style)

Fitted(start, end, parts, style) ==
    LET tries[n \in 0..Len(FlattenSeq(parts))] ==
            IF n = 0 THEN Refit(start, end, parts, style)
            ELSE LET last == tries[n - 1] IN IF last.over THEN last ELSE Refit(start, end, last.next, style)
    IN  tries[Len(FlattenSeq(parts))]

----------------------------------------------------------------------------
(* The cues of a translation.                                              *)

UsesCompactScript(translation) ==
    \/ translation.compactLanguage
    \/ \E i \in DOMAIN translation.segments : HasIdeographs(translation.segments[i].text)

\* Where a line is broken: the cut nearest to the middle that leaves two lines
\* within the limit, or else at the limit, counted without blanks.
LineBreak(text, style) ==
    LET limit == LineChars[style.compact]
        cuts == {k \in Cuts(text, style) :
                    Units(SubSeq(text, 1, k), style) <= limit
                    /\ Units(SubSeq(text, k + 1, Len(text)), style) <= limit}
        full == {k \in DOMAIN text : Len(Ink(SubSeq(text, 1, k))) >= limit}
    IN  IF cuts # {} THEN NearestCut(cuts, text, Units(text, style), style)
        ELSE IF full # {} THEN Min(full) ELSE Len(text) \div 2

Lines(text, style) ==
    LET break == LineBreak(text, style)
    IN  IF Units(text, style) <= LineChars[style.compact] \/ break \notin 1..(Len(text) - 1) THEN <<text>>
        ELSE <<Strip(SubSeq(text, 1, break)), Strip(SubSeq(text, break + 1, Len(text)))>>

CueOf(part, style) == [start |-> part.start, end |-> part.end, lines |-> Lines(part.text, style)]

\* A blank segment has no cue.
CuesOf(segment, compact) ==
    LET style == CueStyle(compact)
        text == Strip(segment.text)
        timed == Fitted(segment.start, segment.end, Parts(text, 2 * LineChars[compact], style), style).timed
    IN  IF text = <<>> THEN <<>>
        ELSE [i \in DOMAIN timed |-> CueOf(timed[i], style)]

CuesBySegment(translation) ==
    [i \in DOMAIN translation.segments |-> CuesOf(translation.segments[i], UsesCompactScript(translation))]

\* What makes the publication of a translation fail.
SubtitleErrors(segments, cues) ==
    {"blank_target_cues" : i \in {k \in DOMAIN segments : Strip(segments[k].text) = <<>>}}
    \cup {"subtitle_overlaps" : i \in {k \in DOMAIN cues \ {1} : cues[k].start < cues[k - 1].end}}

----------------------------------------------------------------------------
(* The segments of a transcript.                                           *)

\* Blanks are collapsed.
NormalizedText(text) ==
    LET kept == InOrder({k \in DOMAIN text : k = 1 \/ IsInk(text[k]) \/ IsInk(text[k - 1])})
    IN  Strip([i \in DOMAIN kept |-> text[kept[i]]])

Ceiling(x, y) == (x + y - 1) \div y

\* A segment that lasts too long is cut in as many parts as it takes, and is
\* left as it is when one of its parts can be cut no more.
SplitSegment(segment) ==
    LET style == SegmentStyle(HasIdeographs(segment.text))
        count == Max({Ceiling(segment.end - segment.start, LongestSegment), 2})
        limit == Max({Ceiling(Units(segment.text, style), count), 1})
        parts == Parts(segment.text, limit, style)
        fitted == Fitted(segment.start, segment.end, parts, style)
    IN  IF segment.end - segment.start <= LongestSegment \/ Len(segment.text) < 2
           \/ Len(parts) = 1 \/ fitted.stuck
        THEN <<segment>>
        ELSE fitted.timed

\* In the order of time; the ids of segments of one time are in the order they came.
Sorted(segments) ==
    LET Earlier == {p \in (DOMAIN segments) \X (DOMAIN segments) :
                      \/ segments[p[1]].start < segments[p[2]].start
                      \/ /\ segments[p[1]].start = segments[p[2]].start
                         /\ \/ segments[p[1]].end < segments[p[2]].end
                            \/ segments[p[1]].end = segments[p[2]].end /\ p[1] < p[2]}
        order == Enumeration(DOMAIN segments, Earlier)
    IN  [k \in DOMAIN order |-> segments[order[k]]]

\* Each of them cut.
NormalizedSegments(segments) ==
    [i \in DOMAIN segments |-> SplitSegment([Sorted(segments)[i] EXCEPT !.text = NormalizedText(@)])]
=============================================================================
