--------------------------- MODULE MCAttribution ---------------------------
(* Small instances of Discovery for TLC. *)
EXTENDS Discovery

CONSTANTS ip1, ip2

echo == <<\h44, \h65, \h0d, 0, 0, 1>>
hue  == <<\h00, \h17, \h88, 0, 0, 1>>
zero == <<0, 0, 0, 0, 0, 0>>

\* The needles of the rules in the words that occur.
NeedlesIn ==
    "Amazon Technologies" :> {"amazon"}
      @@ "Philips Hue (Signify)" :> {"philips hue", "philips"}
      @@ "Linux UPnP/1.0 AmazonEcho/1.0" :> {"amazonecho", "amazon"}
      @@ "_hap" :> {"_hap"}
      @@ "_ipp" :> {"_ipp"}
MCHas(text) == UNION {NeedlesIn[w] : w \in ToSet(text) \cap DOMAIN NeedlesIn}

Option(code, len, text) == [code |-> code, len |-> len, text |-> text]
Name(labels, ended)     == [labels |-> labels, ended |-> ended]
Event(kind, mac, ip, payload) ==
    [kind |-> kind, src_mac |-> mac, src_ip |-> ip, payload |-> payload]

\* Message type and client identifier, as they lead a DHCP request; then the
\* hostname, the parameter request list and the vendor class.
ShortRequest ==
    << Option(53, 1, None), Option(OPT_PAD, 0, None), Option(OPT_HOSTNAME, 2, <<"tv">>),
       Option(OPT_END, 0, None), Option(OPT_HOSTNAME, 3, <<"old">>) >>
LongRequest ==
    << Option(53, 1, None), Option(OPT_HOSTNAME, 2, <<"tv">>),
       Option(OPT_PARAM_REQUEST_LIST, 6, <<"1,3,6,15,119,252">>),
       Option(OPT_VENDOR_CLASS, 15, <<"android-dhcp-13">>), Option(OPT_END, 0, None) >>

\* An announcement with a service instance and a host; a query with a compressed
\* service type, names the scan cannot read, the host asked for and a name with
\* an underscore that no service type has; and an SSDP banner.
Announcement ==
    << Name(<<"den", "_hap", "_tcp", "local">>, "root"), Name(<<"den", "local">>, "root") >>
Query ==
    << Name(<<"_ipp", "_tcp">>, "pointer"), Name(<<"den">>, "pointer"),
       Name(<<"B?ro", "local">>, "root"), Name(<<"den", "local">>, "cut"),
       Name(<<"printer", "local">>, "root"), Name(<<"den", "_x", "local">>, "root") >>
Banner ==
    << [key |-> "NOTIFY * HTTP/1.1", value |-> None],
       [key |-> "SERVER", value |-> <<"Linux UPnP/1.0 AmazonEcho/1.0">>],
       [key |-> "CACHE-CONTROL", value |-> <<"max-age=100">>] >>

MCEvents ==
    { Event("Arp", zero, None, << >>),
      Event("Dhcp", echo, None, [fixed |-> 236, options |-> ShortRequest]),
      Event("Mdns", echo, ip1, Announcement),
      Event("Ssdp", echo, ip2, Banner),
      Event("Arp", hue, None, << >>),
      Event("NewHost", hue, ip1, << >>),
      Event("NewHost", hue, ip2, << >>),
      Event("Mdns", hue, ip2, Query) }

RequestEvents ==
    MCEvents \cup {Event("Dhcp", echo, None, [fixed |-> 236, options |-> LongRequest])}

Signals == UNION {ToSet(SignalsOf(ev)) : ev \in RequestEvents}

MCMac        == {echo, hue}
MCText       == {s.text : s \in {r \in Signals : r.kind = "text"}} \cup {Lookup(m) : m \in MCMac}
MCService    == {s.service : s \in {r \in Signals : r.kind = "service"}}
MCDeviceType == {RULES[i].device_type : i \in DOMAIN RULES}
=============================================================================
