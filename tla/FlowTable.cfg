\* Two CPUs and the drain: stale pointers, replaced entries, reused elements, and
\* two flows that compete for room for one.
SPECIFICATION FairSpec
CONSTANTS
    Key = {k1, k2}
    Cpu = {c1, c2}
    Slot = {e1, e2, e3}
    MaxEntries = 1
    MaxPackets = 4
    None = None
INVARIANTS TypeOK PacketsAccountedFor CountersBounded
PROPERTIES UnreadEntriesSurvive PacketsGetReported
