SPECIFICATION LearningSpec
CONSTANTS
    atlas = atlas
    borealis = borealis
    film = film
    talk = talk
    Runs <- MCRuns
    Jobs <- MCJobs
    ProjectOf <- MCProjectOf
    MediumOf <- MCMediumOf
    Workloads <- MCWorkloads
    MemoryWorkloads <- MCMemoryWorkloads
    Requesters <- MCRequesters
    AssetRequests <- MCAssetRequests
    MinPatternRuns = 1
    MinCanaryRuns = 1
    MinPairRuns = 2
    MinReviews = 2
    MinFailures = 1
    MinSupport = 2
    MinArm = 1
    MinProjects = 2
INVARIANTS
    ActivationEarned
    PairScopeEarned
    OneActivePerMedium
    ConsolidatedIsStored
    Settled
    OneMediumPerIdentifier
    SeriesRelated
PROPERTIES
    RetiredStaysRetired
