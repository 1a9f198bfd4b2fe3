\* Two CPUs, two hosts, a ring of two records and a channel of one.
SPECIFICATION FairSpec
CONSTANTS
    m1 = m1
    m2 = m2
    zero = zero
    ZeroMac = zero
    Mac = {m1, m2}
    Cpu = {c1, c2}
    None = None
    Frames <- MCFrames
    SeenCap = 1
    RingCap = 2
    ChanCap = 1
    MaxFrames = 3
    MaxErrors = 2
INVARIANTS NoLostWakeup EventsAccountedFor AnnouncedOnce IntroducedFirst
PROPERTIES EventsGetThrough HostsGetKnown
\* When no more frames arrive the whole path waits.
CHECK_DEADLOCK FALSE
