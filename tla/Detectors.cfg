\* Port scan: one source, a window of two seconds, four ports against a threshold
\* of two.  Volume spike: two sources, the real smoothing factor and spike
\* factor, a floor of 6.
SPECIFICATION DetectorsSpec
CONSTANTS
    Src = {src}
    Port = {p1, p2, p3, p4}
    Window = 2
    Threshold = 2
    MaxTime = 7
    None = None
    Sender = {a, b}
    Volumes = {0, 1, 6, 31}
    AlphaNum = 3
    AlphaDen = 10
    Factor = 5
    Floor = 6
    MaxFlows = 4
    NoAverage = NoAverage
INVARIANTS AlertsAreTruthful BigBurstsAreFlagged SpikesAreReal NewLevelIsReportedOnce
PROPERTIES AlertRateBounded BigSpikesAreFlagged
