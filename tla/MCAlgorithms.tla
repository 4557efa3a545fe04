---------------------------- MODULE MCAlgorithms ----------------------------
(***************************************************************************)
(* Small instances for TLC of the algorithms of a stage: the cutting of a  *)
(* transcript into chunks, the synthesis of one transcript out of several, *)
(* the adjudication of candidates, and the timing of cues and segments.    *)
(* They share no state, so that each of them runs while the others rest.   *)
(***************************************************************************)
EXTENDS TranscriptCut, TranscriptSynthesis, Adjudication, TimedSegments, FiniteSets

CONSTANT
    MaxTextLength      \* bound: longest text to time

VARIABLE part   \* the algorithm that runs

----------------------------------------------------------------------------
(* Chunking rests while the others run.                                     *)

ChunkingRests == transcriptLength = 0 /\ maxSegments = 1 /\ tooLarge = {} /\ chunks = <<>>

----------------------------------------------------------------------------
(* Synthesis: candidates that pause at different places, are noise, say    *)
(* nothing, end in no time or say two things at once; two candidates and a *)
(* model that answers anything.                                            *)

S(start, end, text) == Segment(start, end, text)
MCTexts ==
    {<<S(0, 4, <<"red", "fox">>), S(10, 14, <<"blue", "sky">>)>>,
     <<S(0, 10, <<"red", "fox", "runs">>)>>,
     <<S(1, 2, <<"fox">>), S(5, 6, <<"red">>), S(11, 15, <<"blue", "sea", "sky">>)>>,
     <<S(0, 3, <<Noise>>), S(20, 23, <<"gone", "now">>), S(30, 33, <<Noise>>)>>,
     <<S(0, 1, <<"cold">>), S(3, 11, <<>>), S(13, 14, <<"moon">>)>>,
     <<S(0, 2, <<"old">>), S(16, 16, <<"dog">>), S(21, 24, <<"now", "then">>)>>,
     <<S(0, 4, <<"hey">>), S(1, 4, <<"you">>)>>}
MCLiveTexts ==
    {<<S(0, 4, <<"red", "fox">>), S(10, 14, <<"blue", "sky">>)>>,
     <<S(0, 4, <<"old", "dog">>)>>,
     <<S(5, 8, <<"cold", "moon">>), S(20, 22, <<"sky">>)>>,
     <<S(0, 3, <<Noise>>)>>}
Ranking(segments, rank) == [segments |-> segments, rank |-> rank]
MCSyntheses ==
    {[live |-> FALSE, candidates |-> <<Ranking(x, 2), Ranking(y, 1), Ranking(z, 1)>>] :
        x, y, z \in MCTexts}
    \cup {[live |-> TRUE, candidates |-> <<Ranking(x, 1), Ranking(y, 2)>>] : x, y \in MCLiveTexts}
MCLiveAnswers ==
    {Unresolved, Resolved({1}, <<"lion">>, 0, 30, "base"), Resolved({2}, <<"sky">>, 3, 5, "fill")}

SomeSynthesis == CHOOSE s \in Syntheses : TRUE
SynthesisRests == source = SomeSynthesis /\ SynthesisInit

----------------------------------------------------------------------------
(* Adjudication: translations that lose, add or replace a word, a number   *)
(* or a name, with histories that favour either; none, one, and the fixed  *)
(* reviews; transcripts that differ in words, speakers and cuts.           *)

Piece(id, start, end, text, speaker) == [span |-> id, start |-> start, end |-> end, text |-> text, speaker |-> speaker]
MCGlossary == <<<<"crane", "grue">>>>
MCSource == <<Piece(<<1>>, 0, 10, <<"ACME", "sold", "42", "crane">>, ""), Piece(<<2>>, 10, 20, <<"it", "rained">>, "")>>
MCFirst ==
    {<<"ACME", "vend", "42", "grue", ".">>, <<"ACME", "vend", "42", "grue", "grue">>, <<"ACME", "vend", "24", "grue", ".">>,
     <<"vend", "42", "grue", ".">>, <<"ACME", "vend", "42", "cigogne", ".">>,
     <<"ACME", "vend", "42", "et", "une", "grue", "fort", "belle">>, <<>>}
MCSecond == {Piece(<<2>>, 10, 20, t, "") : t \in {<<"il", "pleut">>, <<"il", "pleut", ".">>, <<>>}}
            \cup {Piece(<<9>>, 12, 20, <<"il", "pleut", "comme", "hier", "soir">>, "")}
MCHistory(wins, strong) ==
    [stats |-> [won |-> wins, lost |-> 4 - wins, good |-> wins, acceptable |-> 0, rejected |-> 4 - wins, failures |-> 4 - wins],
     memory |-> [strong |-> strong, soft |-> 0, negative |-> 0, antiPatterns |-> 1]]
MCPast == {<<2, 2>>, <<0, 4>>, <<4, 0>>}
Rendition(first, second, wins, variant) ==
    [variant |-> variant, history |-> MCHistory(wins, 1),
     segments |-> <<Piece(<<1>>, 0, 10, first, ""), second>>]
TranslationsRound(candidates, clean, scenario) ==
    [stage |-> "translation", scenario |-> scenario, source |-> MCSource, clean |-> clean, candidates |-> candidates]
MCTranslations ==
    {TranslationsRound(<<Rendition(f1, s1, past[1], "variant-a"), Rendition(f2, s2, past[2], "variant-b")>>, clean, "happy") :
        f1, f2 \in MCFirst, s1, s2 \in MCSecond, past \in MCPast, clean \in {0, 2, 18}}
    \cup {TranslationsRound(<<Rendition(f, s, 2, "variant-a")>>, 0, "happy") : f \in MCFirst, s \in MCSecond}
    \cup {TranslationsRound(<<>>, 0, "happy")}
\* A terse translation that misses a glossary term and one that is as wordy as it
\* may be without being refuted.
MCSentence(i, words) == Piece(<<i>>, 10 * i, 10 * i + 10, words, "")
MCWordy ==
    [stage |-> "translation", scenario |-> "happy", clean |-> 0,
     source |-> [i \in 1..5 |-> MCSentence(i, IF i = 1 THEN <<"ACME", "it", "rained", "crane">>
                                              ELSE <<"it", "rained", "so", "hard">>)],
     candidates |-> <<
        [variant |-> "variant-a", history |-> MCHistory(2, 1),
         segments |-> [i \in 1..5 |-> MCSentence(i, IF i = 1 THEN <<"ACME", "il", "pleut">>
                                                   ELSE <<"il", "pleut", "fort">>)]],
        [variant |-> "variant-b", history |-> MCHistory(2, 1),
         segments |-> [i \in 1..5 |-> MCSentence(i, IF i = 1 THEN <<"ACME", "il", "pleut", "tant", "grue">>
                                                   ELSE <<"il", "pleut", "tant", "et", "plus">>)]]>>]
MCScenarios ==
    {TranslationsRound(c, 0, scenario) : scenario \in Scenarios, c \in
        {<<Rendition(<<"grue">>, Piece(<<2>>, 10, 20, <<>>, ""), 2, "variant-a")>>,
         <<Rendition(<<"grue">>, Piece(<<2>>, 10, 20, <<>>, ""), 2, "variant-a"),
           Rendition(<<"ACME">>, Piece(<<2>>, 10, 20, <<>>, ""), 4, "variant-b")>>}}
MCProvider(good) ==
    [recent |-> good, approved |-> good, rate |-> 1000 * good, hard |-> good, soft |-> good, negative |-> 5 - good]
MCTranscripts ==
    {<<Piece(<<>>, 0, 9, <<"ACME", "sold", "42">>, "anna"), Piece(<<>>, 12, 21, <<"it", "rained">>, "bob")>>,
     <<Piece(<<>>, 0, 9, <<"ACME", "sold", "24">>, "anna"), Piece(<<>>, 12, 15, <<"it", "rained">>, "")>>,
     <<Piece(<<>>, 0, 21, <<"ACME", "sold", "42", "it", "rained">>, "bob")>>,
     <<Piece(<<>>, 0, 9, <<"acne", "holds">>, "carl")>>,
     <<Piece(<<>>, 0, 1, <<"ACME">>, "anna"), Piece(<<>>, 1, 2, <<"sold">>, "anna"), Piece(<<>>, 12, 21, <<>>, "")>>}
Transcription(segments, good) == [variant |-> "", history |-> MCProvider(good), segments |-> segments]
MCTranscriptRounds ==
    {[stage |-> "transcript", scenario |-> scenario, candidates |-> c] :
        scenario \in {"happy", "transcript_escalation"},
        c \in {<<>>} \cup {<<Transcription(x, 3)>> : x \in MCTranscripts}
              \cup {<<Transcription(x, 3), Transcription(y, good), Transcription(z, 0)>> :
                        x, y, z \in MCTranscripts, good \in {0, 5}}}
MCRounds == MCTranslations \cup {MCWordy} \cup MCScenarios \cup MCTranscriptRounds

SomeRound == CHOOSE r \in ReviewRounds : TRUE
AdjudicationRests == round = SomeRound /\ AdjudicationInit

----------------------------------------------------------------------------
(* Timing: every short text of either script at lengths around the limits, *)
(* and pairs of segments that follow each other, touch, overlap or go back.*)

MCLineChars == [compact \in BOOLEAN |-> 2]
Texts(letters) == UNION {[1..k -> letters] : k \in 0..MaxTextLength}
Span(start, length, text) == [start |-> start, end |-> start + length, text |-> text]
Lengths == {0, 1, 90, 400, 7001, 22000, 45001}
MCWritten ==
    {[kind |-> kind, compactLanguage |-> FALSE, segments |-> <<Span(10, length, text)>>] :
        kind \in {"cues", "transcript"}, length \in Lengths,
        text \in Texts({"a", " ", "."}) \cup Texts({"k", " ", "o"})}
    \cup
    {[kind |-> kind, compactLanguage |-> compact, segments |-> <<Span(10, 400, t), Span(start, length, u)>>] :
        kind \in {"cues", "transcript"}, compact \in BOOLEAN, start \in {0, 409, 410, 500}, length \in {3, 16000},
        t, u \in {<<>>, <<" ">>, <<"a", ".", "a">>, <<"a", " ", "a", "o", "k", ".">>}}

NothingWritten == [kind |-> "cues", compactLanguage |-> FALSE, segments |-> <<>>]
TimingRests == written = NothingWritten /\ timedParts = <<>>

----------------------------------------------------------------------------

Init ==
    \/ part = "chunking" /\ SynthesisRests /\ AdjudicationRests /\ TimingRests /\ ChunkingInit
    \/ part = "synthesis" /\ ChunkingRests /\ AdjudicationRests /\ TimingRests /\ SynthesisInit
    \/ part = "adjudication" /\ ChunkingRests /\ SynthesisRests /\ TimingRests /\ AdjudicationInit
    \/ part = "timing" /\ ChunkingRests /\ SynthesisRests /\ AdjudicationRests /\ TimingInit

Next ==
    \/ part = "chunking" /\ CutTranscript /\ UNCHANGED <<synthesisVars, adjudicationVars, timingVars, part>>
    \/ part = "synthesis" /\ SynthesisNext /\ UNCHANGED <<chunkingVars, adjudicationVars, timingVars, part>>
    \/ part = "adjudication" /\ AdjudicationNext /\ UNCHANGED <<chunkingVars, synthesisVars, timingVars, part>>
    \/ part = "timing" /\ Time /\ UNCHANGED <<chunkingVars, synthesisVars, adjudicationVars, part>>

Spec == Init /\ [][Next]_<<chunkingVars, synthesisVars, adjudicationVars, timingVars, part>>

============================================================================
