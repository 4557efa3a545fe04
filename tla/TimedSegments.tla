---------------------------- MODULE TimedSegments ----------------------------
(***************************************************************************)
(* Some segments timed: as the cues of a translation that is published, or *)
(* as the segments of a transcript that a provider has sent.               *)
(***************************************************************************)
EXTENDS TimedText

CONSTANT Writings   \* bound: what is timed, see written

\* A segment does not end before it starts.
WrittenSegment == {s \in [start : Nat, end : Nat, text : Seq(Characters)] : s.start <= s.end}

ASSUME TimingAssumption ==
    /\ LineChars \in [BOOLEAN -> Nat \ {0}]
    /\ CueGap \in Nat /\ LongestCue \in Nat \ {0} /\ LongestSegment \in Nat \ {0}
    /\ \A w \in Writings : w.kind \in {"cues", "transcript"} /\ w.segments \in Seq(WrittenSegment)

VARIABLES
    written,     \* segments, of a translation or of a transcript
    timedParts   \* the parts of each of them, in order, empty before

timingVars == <<written, timedParts>>

TimingInit == written \in Writings /\ timedParts = <<>>

Time ==
    /\ timedParts = <<>>
    /\ timedParts' = IF written.kind = "cues" THEN CuesBySegment(written) ELSE NormalizedSegments(written.segments)
    /\ UNCHANGED written

TimingSpec == TimingInit /\ [][Time]_timingVars

----------------------------------------------------------------------------

Source(i) == IF written.kind = "cues" THEN written.segments[i] ELSE Sorted(written.segments)[i]
InkOf(p) == IF written.kind = "cues" THEN Ink(FlattenSeq(p.lines)) ELSE Ink(p.text)

\* The segments that are not blank, and pairs of them with none in between.
Voiced == {i \in DOMAIN written.segments : InkIn(written.segments[i].text) # {}}
Neighbours == {p \in Voiced \X Voiced : p[1] < p[2] /\ \A i \in Voiced : i <= p[1] \/ i >= p[2]}

\* The parts of a segment begin and end with it, in order and without overlap,
\* those of a transcript without a gap.  So a translation cannot be published
\* exactly when a segment is blank or begins before the one before it has ended:
\* its cues add no overlap of their own (subtitles.py _timed_chunks,
\* subtitle_validation_errors; normalization.py _split_transcript_segment).
PartsInTime ==
    timedParts # <<>> =>
        /\ \A i \in DOMAIN timedParts :
             LET parts == timedParts[i]
             IN  parts # <<>> =>
                 /\ parts[1].start = Source(i).start /\ parts[Len(parts)].end = Source(i).end
                 /\ \A k \in DOMAIN parts : parts[k].start <= parts[k].end
                 /\ \A k \in DOMAIN parts \ {1} :
                      /\ parts[k].start >= parts[k - 1].end
                      /\ written.kind = "transcript" => parts[k].start = parts[k - 1].end
        /\ written.kind = "cues" =>
             LET errors == SubtitleErrors(written.segments, FlattenSeq(timedParts))
             IN  /\ "blank_target_cues" \in errors <=> Voiced # DOMAIN written.segments
                 /\ "subtitle_overlaps" \in errors
                      <=> \E p \in Neighbours : written.segments[p[2]].start < written.segments[p[1]].end

\* Together they say everything it says, once and in order; those of a transcript
\* take time; a part lasts longer than it may only where the segment has not a
\* character for each such time, and no line is too long (subtitles.py
\* _segment_to_subtitle_events, normalization.py _split_transcript_segment).
PartsOfText ==
    timedParts # <<>> =>
        \A i \in DOMAIN timedParts :
            LET s == Source(i)
                parts == timedParts[i]
                longest == IF written.kind = "cues" THEN LongestCue ELSE LongestSegment
            IN  parts # <<>> =>
                /\ FlattenSeq([k \in DOMAIN parts |-> InkOf(parts[k])]) = Ink(s.text)
                /\ written.kind = "transcript" => \A k \in DOMAIN parts \ {1} : parts[k].end > parts[k].start
                /\ (\E k \in DOMAIN parts : parts[k].end - parts[k].start > longest)
                       => longest * Len(Ink(s.text)) < s.end - s.start \/ Len(Ink(s.text)) < 2
                /\ written.kind = "cues" =>
                     \A k \in DOMAIN parts :
                        Len(parts[k].lines) <= 2
                        /\ \A l \in DOMAIN parts[k].lines :
                             Len(Ink(parts[k].lines[l])) <= LineChars[UsesCompactScript(written)]

\* A segment and its parts have the same time and say the same (subtitles.py
\* _segment_to_subtitle_events; normalization.py _split_transcript_segment).
PartsOfSegment == PartsInTime /\ PartsOfText
=============================================================================
