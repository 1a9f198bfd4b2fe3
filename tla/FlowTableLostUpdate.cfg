\* Two CPUs on one entry: is every increment kept?
SPECIFICATION Spec
CONSTANTS
    Key = {k1}
    Cpu = {c1, c2}
    Slot = {e1, e2, e3}
    MaxEntries = 2
    MaxPackets = 3
    None = None
INVARIANTS NoLostUpdate
