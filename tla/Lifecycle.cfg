\* Both modes and both backends, a channel of two places.
SPECIFICATION FairSpec
CONSTANTS
    Capacity = 2
    Samples = 4
INVARIANTS OrderlyEndIsFlushed RunsUntilAsked
PROPERTIES ShutdownEndsProcess BackendEndEndsProcess FoldedGetsFlushed
