CONSTANTS
    Sources = {"a", "b"}
    Hosts = {"open", "news"}
    HostOf <- MCHostOf
    Procs = {p1}
    Workers = {w1, w2}
    ProcOf <- MCProcOf
    Operators = {o1, o2}
    Spacing <- MCSpacing
    MaxWait = 1
    Interval = 2
    Threshold = 2
    Cooldown = 3
    TickLimit = 1
    Priorities = {1,5}
    Feeds <- MCFeeds
    MaxRun = 1
    MaxEvents = 3
SPECIFICATION SourceSpec
SYMMETRY MCSymmetry
CONSTRAINT MCBounds
INVARIANTS VerdictLogged CooldownEarned 
PROPERTY Polite
