CONSTANTS
    Events = {e1, e2, e3}
    Streamers = {c1}
    Pollers = {p1}
    Batch = 2
    MaxOpen = 2
    HubChoices = {TRUE}
    Ticker = TRUE
    MaxTests = 0
    MaxDrops = 2
    MaxLost = 1
SPECIFICATION FeedSpec
SYMMETRY MCSymmetry
INVARIANTS NoGap
