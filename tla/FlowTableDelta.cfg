\* One CPU, room for all: do the drained snapshots and the live entries add up?
SPECIFICATION Spec
CONSTANTS
    Key = {k1, k2, k3}
    Cpu = {c1}
    Slot = {e1, e2, e3}
    MaxEntries = 2
    MaxPackets = 6
    None = None
SYMMETRY Symmetry
INVARIANTS SnapshotsAddUp
