----------------------------- MODULE Discovery -----------------------------
(***************************************************************************)
(* The way from a frame to a device type: the registry of Attribution fed  *)
(* by the decoders (Decoders) and read by the fingerprint rules (Rules).   *)
(***************************************************************************)
EXTENDS Attribution, Decoders, Rules

\* The registry is fed by the decoders and classifies by the rule table.
ASSUME DiscoveryAssumption ==
    /\ "hostname" \in Attr \ {VendorField}
    /\ \A ev \in Events : Decode(ev) = DecodeEvent(ev)
    /\ \A texts \in Texts : \A services \in SUBSET Service :
          Classify(texts, services) = DeviceTypeOf(texts, services)

\* What the payloads of DHCP, mDNS and SSDP frames are made of.
ASSUME FrameAssumption ==
    \A ev \in Events :
        /\ ev.kind = "Dhcp" =>
              ev.payload.options \in
                 Seq([code : 0 .. 255, len : 0 .. 255, text : Seq(STRING) \cup {None}])
        /\ ev.kind = "Mdns" =>
              ev.payload \in Seq([labels : Seq(STRING), ended : {"root", "pointer", "cut"}])
        /\ ev.kind = "Ssdp" =>
              ev.payload \in Seq([key : STRING, value : Seq(STRING) \cup {None}])

-----------------------------------------------------------------------------
\* The rules that are surer than every fallback on the vendor: all strong ones
\* but those for "_smb", "_homekit" and "_hap".
Surer ==
    {i \in 1 .. Len(StrongRules) :
        \A w \in ToSet(WeakRules) : RULES[i].confidence > w.confidence}

\* rules.rs: "a service match is strong evidence, an OUI match is weak".  Once a
\* device has a service that one of these rules knows, nothing that follows,
\* however many names, services and DHCP fields, makes the agent fall back on
\* the vendor or call the device what it is less sure of.  Of the other three
\* services it is not true: "_smb" (60) loses to the vendor "raspberry pi" (70),
\* "_homekit" and "_hap" (70) to it and to "espressif" (70), further down.
StrongServiceSticks ==
    [][\A m \in Devices :
         \A i \in Matching(UNION {Has(s) : s \in registry[m].services}) \cap Surer :
             LET d == registry'[m] IN
             \E j \in Matching(Haystack(d.texts, d.services)) \cap (1 .. Len(StrongRules)) :
                 /\ RULES[j].device_type = d.type
                 /\ RULES[j].confidence >= RULES[i].confidence]_vars

\* mdns.rs tells "a `_service._tcp.local` name" and "a bare `host.local`" apart by
\* their form: of a service type it takes that it names its protocol, so that a
\* label with an underscore has the protocol's label at or behind it.
WellNamed(n) ==
    \A i \in DOMAIN n.labels : n.labels[i] \in Underscored =>
        \E j \in i .. Len(n.labels) : n.labels[j] \in {"_tcp", "_udp"}

\* Where a frame has h as the name of a host: in DHCP option 12 before the end
\* marker, or as what comes before "local" at the end of a name.  It does not
\* begin with an underscore, and holds no other one either unless the name is
\* one that has underscores outside of service types ("den._x.local").
NamesHost(ev, h) ==
    \/ /\ ev.kind = "Dhcp"
       /\ \E k \in DOMAIN ev.payload.options :
             /\ ev.payload.options[k].code = OPT_HOSTNAME
             /\ ev.payload.options[k].text = h
             /\ \A j \in 1 .. k : ev.payload.options[j].code # OPT_END
    \/ /\ ev.kind = "Mdns"
       /\ \E n \in ToSet(ev.payload) :
             /\ Append(h, "local") \in Suffixes(n.labels)
             /\ h[1] \notin Underscored
             /\ WellNamed(n) => \A i \in DOMAIN h : h[i] \notin Underscored

\* The scan for names reads every suffix of every name, so service types come
\* by as if they were names of their own: none of them ends as a hostname.  A
\* device is called only by what a frame it has sent before has as the name of
\* a host.  That may be another host than itself: the scan does not tell the
\* question section from the answers, and who asks for "printer.local" is called
\* "printer".
HostnamesAreHosts ==
    \A m \in Devices :
        LET h == registry[m].texts["hostname"]
        IN  h # None => \E ev \in heard : ev.src_mac = m /\ NamesHost(ev, h)

\* lanscope-common/src/event.rs, of the payload an event carries: "Sized to
\* comfortably hold a DHCP options block".  Of a DHCP frame every option before
\* the end marker that has a field in the record becomes an observation.
DhcpOptionsArrive ==
    [][\A ev \in Events, t \in Time :
         ReceiveEvent(ev, t) /\ ev.kind = "Dhcp" =>
             LET options == ev.payload.options IN
             \A k \in DOMAIN options :
                 /\ options[k].code \in DOMAIN FieldOf /\ options[k].text # None
                 /\ \A j \in 1 .. k : options[j].code # OPT_END
                 => \E i \in DOMAIN frame' :
                       frame'[i].signal = TextSignal(FieldOf[options[k].code], options[k].text)]_vars
=============================================================================
