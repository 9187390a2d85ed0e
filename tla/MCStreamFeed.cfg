CONSTANTS
    Events = {e1, e2}
    Streamers = {c1}
    Pollers = {p1}
    Batch = 1
    MaxOpen = 2
    HubChoices = {TRUE, FALSE}
    Ticker = TRUE
    MaxTests = 1
    MaxDrops = 1
    MaxLost = 1
SPECIFICATION FairFeedSpec
INVARIANTS NoGapInOrder NoLostWakeup
PROPERTIES ImplementsLog AllDelivered
