---------------------------- MODULE TranscriptCut ----------------------------
(***************************************************************************)
(* One transcript cut into chunks, for every length, limit and prompt-size *)
(* predicate: what TranslationChunking promises to the stage that uses it. *)
(***************************************************************************)
EXTENDS TranslationChunking

CONSTANT MaxSegmentCount   \* bound: longest transcript to cut

ASSUME MaxSegmentCountAssumption == MaxSegmentCount \in Nat

VARIABLES
    transcriptLength, maxSegments, tooLarge,   \* what is cut
    chunks                                     \* the chunks, empty before the cut

chunkingVars == <<transcriptLength, maxSegments, tooLarge, chunks>>

Intervals(k) == {i \in (1..k) \X (1..k) : i[1] < i[2]}

ChunkingInit ==
    /\ transcriptLength \in 0..MaxSegmentCount
    /\ maxSegments \in 1..MaxSegmentCount
    /\ tooLarge \in SUBSET Intervals(transcriptLength)
    /\ chunks = <<>>

CutTranscript ==
    /\ chunks = <<>>
    /\ chunks' = ChunkTranscript(transcriptLength, maxSegments, tooLarge)
    /\ UNCHANGED <<transcriptLength, maxSegments, tooLarge>>

ChunkingSpec == ChunkingInit /\ [][CutTranscript]_chunkingVars

\* Every segment is in exactly one chunk, in the order of the transcript, before
\* and after every chunk that can be split is split; a chunk exceeds no limit
\* unless it is a single segment, and none could have taken the first segment of
\* the next one (openai_translation.py _chunk_transcript, _split_chunk).
Chunked ==
    chunks # <<>> =>
        LET halves == FlattenSeq([i \in DOMAIN chunks |->
                        IF CanSplit(chunks[i]) THEN Split(chunks[i]) ELSE <<chunks[i]>>])
            all == [k \in 1..transcriptLength |-> k]
        IN  /\ FlattenSeq([i \in DOMAIN chunks |-> Covered(chunks[i])]) = all
            /\ FlattenSeq([i \in DOMAIN halves |-> Covered(halves[i])]) = all
            /\ transcriptLength > 0 => \A i \in DOMAIN halves : Size(halves[i]) > 0
            /\ \A i \in DOMAIN chunks :
                 /\ Size(chunks[i]) <= maxSegments
                 /\ <<chunks[i].lo, chunks[i].hi>> \notin tooLarge
            /\ \A i \in 1..(Len(chunks) - 1) :
                 \/ Size(chunks[i]) = maxSegments
                 \/ <<chunks[i].lo, chunks[i].hi + 1>> \in tooLarge
=============================================================================
