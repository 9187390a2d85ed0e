CONSTANTS
    a = a
    b = b
    c = c
    d = d
    e = e
    f = f
    Items = {b, c}
    Same <- MCSame
    Alike <- MCAlike
    Ascii <- MCAscii
    Nothing = Nothing
    Minor <- MCMinor
    HashCap = 3
    Lower <- MCLower
    DefaultPort <- MCDefaultPort
    TrackingParams = {"utm_source"}
    Workers = {w1, w2}
    MaxSignals = 2
    MaxFetches = 1
    MaxLosses = 1
    MaxFaults = 1
SPECIFICATION FairIngestSpec
PROPERTY EveryItemArrives
