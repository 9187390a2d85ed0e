CONSTANTS
    MaxJobs = 6
    Workers = {w1, w2}
    Queues <- MCQueues
    SingletonQueues = {}
    NextQueue <- MCNextQueue
    RetryLimit <- MCRetryLimit
    RetryDelay <- MCRetryDelay
    RetryBackoff <- MCRetryBackoff
    Keys = {}
    NoKey = NoKey
    MaxInserts = 0
    Timeout = 1
    MaxRun = 1
    RetryFrom = {"failed"}
    MaxPokes = 1
    MaxLosses = 1
    Subs = {"hook", "push", "poll"}
    Channel <- MCThree
    NoSub = NoSub
    NoUrl = {"hook"}
    BadUrl = {"hook"}
    Deletable = {}
    MaxMatches = 2
    MaxFaults = 1
    ApiCalls = {"retry", "test"}
    MaxCalls = 1
SPECIFICATION DeliverySpec
SYMMETRY MCSymmetry
CONSTRAINT MCBounds
INVARIANTS PendingQueued OneSendJob OnceUnlessMishap FailedByFault SentMeansReceived
PROPERTIES SentIsFinal
