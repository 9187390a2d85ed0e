CONSTANTS
    a = a
    b = b
    c = c
    d = d
    e = e
    f = f
    Items = {a, b, c, d, e, f}
    Same <- MCSame
    Alike <- MCAlike
    Ascii <- MCAscii
    Nothing = Nothing
    Minor <- MCMinor
    HashCap = 3
    Lower <- MCLower
    DefaultPort <- MCDefaultPort
    TrackingParams = {"utm_source"}
    Workers = {w1, w2}
    MaxSignals = 3
    MaxFetches = 2
    MaxLosses = 1
    MaxFaults = 0
SPECIFICATION IngestSpec
SYMMETRY MCSymmetry
CONSTRAINT MCContents
INVARIANTS OneProcessJob PendingHasJob AnnouncedOrComing CopiesBounded 
PROPERTIES ImplementsFlow
