CONSTANTS
    MaxJobs = 3
    Workers = {w1, w2}
    Queues <- MCQueues
    SingletonQueues = {}
    NextQueue <- MCNextQueue
    RetryLimit <- MCRetryLimit
    RetryDelay <- MCRetryDelay
    RetryBackoff <- MCRetryBackoff
    Keys = {}
    NoKey = NoKey
    MaxInserts = 0
    Timeout = 1
    MaxRun = 1
    RetryFrom = {}
    MaxPokes = 0
    MaxLosses = 1
    Subs = {d1}
    Channel <- MCWebhook
    NoSub = NoSub
    NoUrl = {}
    BadUrl = {}
    Deletable = {d1}
    MaxMatches = 1
    MaxFaults = 0
    ApiCalls = {"retry"}
    MaxCalls = 1
SPECIFICATION FairDeliverySpec
PROPERTIES QueuedSettles EveryJobSettles
