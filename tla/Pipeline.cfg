\* Two devices sharing an address, a 2-bit "u64", a clock that jumps back and forth,
\* a crash and a failed write; frames and snapshots never stop coming.
SPECIFICATION FairSpec
CONSTANTS
    m1 = m1
    m2 = m2
    ip1 = ip1
    text = text
    s1 = s1
    s2 = s2
    typeA = typeA
    typeB = typeB
    Mac = {m1, m2}
    ZeroMac = zero
    Ip = {ip1}
    Attr = {vendor}
    VendorField = vendor
    Vendor <- MCVendor
    Text = {text}
    Service = {s1, s2}
    DeviceType = {typeA, typeB}
    Time = {1, 2}
    None = None
    MaxServices = 1
    MaxI64 = 1
    Frames <- MCFrames
    Snapshots <- MCSnapshots
    MaxCrashes = 1
    MaxFails = 1
    Classify <- MCClassify
INVARIANTS TypeOK StoreBehindRegistry AnnouncedOnce FewDevicesSilent StopIsDurable
PROPERTIES StoreIsInventory TrafficGetsStored
