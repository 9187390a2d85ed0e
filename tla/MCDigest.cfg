CONSTANTS
    Signals = {g1, g2, g3}
    Schedulers = {s1, s2}
    BatchLimit = 2
    Interval = 1
    MaxLag = 1
    MaxMatches = 2
    Updated = {g1}
    MaxCrashes = 1
    Fold <- MCFold
    Trim <- MCTrim
    Recency <- MCRecency
    DefaultPage = 1
    PageCap = 2
    PoolFloor = 3
    PoolCap = 6
    DefaultPool = 4
    CandidateCap = 6
    DefaultHours = 3
    LeafTags <- MCLeafTags
    Vocabulary <- MCVocabulary
    Countries <- MCCountries
    Languages <- MCLanguages
SPECIFICATION FairDigestSpec
CONSTRAINT MCMishaps
INVARIANTS  NotTwice
 
