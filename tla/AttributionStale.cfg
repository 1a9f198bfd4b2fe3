\* An address handed from one device to another: whom does its traffic go to?
SPECIFICATION Spec
CONSTANTS
    ip1 = ip1
    ip2 = ip2
    Mac <- MCMac
    ZeroMac <- zero
    Ip = {ip1, ip2}
    Attr = {"vendor", "hostname", "dhcp_fingerprint", "dhcp_vendor_class"}
    VendorField = "vendor"
    Vendor <- Lookup
    Text <- MCText
    Service <- MCService
    DeviceType <- MCDeviceType
    Time = {1}
    None = None
    MaxServices = 2
    MaxI64 = 1
    Classify <- DeviceTypeOf
    Has <- MCHas
    CopyLen = 256
    Underscored = {"_tcp", "_udp", "_hap", "_ipp", "_x"}
    Unprintable = {"B?ro"}
    Events <- MCEvents
    Decode <- DecodeEvent
    FlowPackets = {1, 2}
    MaxSteps = 5
PROPERTIES CreditGoesToCurrentHolder
