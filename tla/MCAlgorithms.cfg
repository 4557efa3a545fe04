SPECIFICATION Spec
CONSTANTS
    MaxSegmentCount = 5
    Gap = 1
    Syntheses <- MCSyntheses
    LiveAnswers <- MCLiveAnswers
    EntityWords = {"ACME", "42", "24"}
    NumberWords = {"42", "24"}
    Glossary <- MCGlossary
    Bucket = 3
    ReviewRounds <- MCRounds
    MaxTextLength = 6
    Writings <- MCWritten
    LineChars <- MCLineChars
    CueGap = 84
    LongestCue = 7000
    LongestSegment = 15000
INVARIANTS
    Chunked
    OrderedAndWhole
    BaseStands
    RefutedWinsOnlyRanked
    AutomaticIsUndisputed
    PartsOfSegment
\* A transcript is cut, and a segment timed, once; then there is nothing left to do.
CHECK_DEADLOCK FALSE
