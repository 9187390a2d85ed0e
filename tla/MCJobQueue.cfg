CONSTANTS
    MaxJobs = 3
    Workers = {w1, w2}
    Queues = {"fetch", "send"}
    SingletonQueues = {"fetch"}
    NextQueue <- MCNextQueue
    RetryLimit <- MCRetryLimit
    RetryDelay <- MCRetryDelay
    RetryBackoff <- MCRetryBackoff
    Keys = {k1}
    NoKey = NoKey
    MaxInserts = 2
    Timeout = 2
    MaxRun = 2
    RetryFrom = {"failed"}
    MaxPokes = 1
    MaxLosses = 1
SPECIFICATION Spec
INVARIANTS ClaimsDistinct SingletonBounded RetryBudget
PROPERTIES ImplementsLifecycle
