CONSTANTS
    Sources = {"a", "b"}
    Hosts = {"open", "news"}
    HostOf <- MCHostOf
    Procs = {p1}
    Workers = {w1}
    ProcOf <- MCProcOf
    Operators = {o1}
    Spacing <- MCSpacing
    MaxWait = 1
    Interval = 2
    Threshold = 1
    Cooldown = 3
    TickLimit = 1
    Priorities = {1,5}
    Feeds <- MCFeeds
    MaxRun = 1
    MaxEvents = 1
SPECIFICATION FairSourceSpec
PROPERTY EveryDueFetched
