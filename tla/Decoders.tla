------------------------------ MODULE Decoders ------------------------------
(***************************************************************************)
(* From a discovery frame to observations: the copy the XDP program makes  *)
(* of a frame's payload (emit in lanscope-ebpf/src/main.rs) and the        *)
(* decoders that read it (lanscope/src/decode).                            *)
(*                                                                         *)
(* A text is a sequence of words, a name the sequence of its labels.  Of   *)
(* bytes only the numbers matter: those before the DHCP cookie, and those  *)
(* of each DHCP option.  The scan for names also starts inside labels: a   *)
(* letter there has the top bits of a compression pointer and yields       *)
(* nothing, any other printable byte is the length of a label of 32 bytes  *)
(* (a space) to 63, which runs into a byte that is not printable, or past  *)
(* the copy, unless a label that long follows it.  Such texts are left out:*)
(* only the beginnings of labels are kept.                                 *)
(***************************************************************************)
EXTENDS Registry, SequencesExt, FiniteSetsExt

CONSTANTS
    CopyLen,      \* COPY_LEN, the most bytes of a payload the kernel copies (256)
    Underscored,  \* labels that begin with "_"
    Unprintable   \* labels with a byte that is not printable ASCII

TextSignal(field, text) == [kind |-> "text", attr |-> field, text |-> text]
ServiceSignal(text)     == [kind |-> "service", service |-> text]
Seen                    == [kind |-> "seen"]

\* The elements of a sequence at the places in I, in their order.
Kept(s, I) ==
    LET kept[k \in 0 .. Len(s)] ==
            IF k = 0 THEN << >>
            ELSE IF k \in I THEN Append(kept[k - 1], s[k]) ELSE kept[k - 1]
    IN  kept[Len(s)]

-----------------------------------------------------------------------------
(* dhcp.rs.  A payload: the bytes before the cookie, and the options behind*)
(* it, each with the number of its data bytes and its text; the text is    *)
(* None if nothing is left of it, or it is not UTF-8.                      *)

OPT_PAD                == 0
OPT_HOSTNAME           == 12
OPT_PARAM_REQUEST_LIST == 55
OPT_VENDOR_CLASS       == 60
OPT_END                == 255

FieldOf ==
    [code \in {OPT_HOSTNAME, OPT_PARAM_REQUEST_LIST, OPT_VENDOR_CLASS} |->
        CASE code = OPT_HOSTNAME           -> "hostname"
          [] code = OPT_PARAM_REQUEST_LIST -> "dhcp_fingerprint"
          [] code = OPT_VENDOR_CLASS       -> "dhcp_vendor_class"]

\* An option is its code, a length and the data; the two markers are one byte.
Size(o) == IF o.code \in {OPT_PAD, OPT_END} THEN 1 ELSE 2 + o.len

\* Bytes up to and including the k-th option.
UpTo(options, k) == MapThenSumSet(LAMBDA i : Size(options[i]), 1 .. k)

\* What the kernel's copy leaves of the options, once the fixed part of BOOTP
\* and the four bytes of the cookie are taken off.
Room(p) == CopyLen - p.fixed - 4

\* The options the loop gets to: none the copy cuts off, none behind the end
\* marker.
Reached(p) ==
    {k \in DOMAIN p.options :
        /\ UpTo(p.options, k) <= Room(p)
        /\ \A j \in 1 .. k : p.options[j].code # OPT_END}

DhcpDecode(p) ==
    LET told == Kept(p.options,
            {k \in Reached(p) : /\ p.options[k].code \in DOMAIN FieldOf
                                /\ p.options[k].text # None})
    IN  [i \in DOMAIN told |-> TextSignal(FieldOf[told[i].code], told[i].text)]

-----------------------------------------------------------------------------
(* dns.rs and mdns.rs.  A payload: the names in it, each ended by the root *)
(* ("root"), by a compression pointer ("pointer"), or by the copy ("cut"). *)

\* read_name at the beginning of a name's i-th label, or None.
ReadName(name, i) ==
    LET labels == SubSeq(name.labels, i, Len(name.labels))
    IN  IF name.ended = "cut" \/ \E l \in ToSet(labels) : l \in Unprintable
        THEN None ELSE labels

IsService(n) == \E i \in 2 .. Len(n) : n[i] \in {"_tcp", "_udp"}

IsInteresting(n) == Len(n) > 1 /\ (Last(n) = "local" \/ IsService(n))

\* extract_names goes on by one byte only: behind each name its suffixes
\* are read, and none is taken up twice.
Candidates(names) ==
    FlattenSeq([k \in DOMAIN names |->
        [i \in DOMAIN names[k].labels |-> ReadName(names[k], i)]])

ExtractNames(names) ==
    LET all == Candidates(names)
    IN  Kept(all, {k \in DOMAIN all : /\ all[k] # None /\ IsInteresting(all[k])
                                     /\ \A j \in 1 .. k - 1 : all[j] # all[k]})

\* A service type is a service, anything else under .local is a host, unless
\* its name begins with an underscore.  Mutant: whatever it begins with.
IsAnyHost(n) == TRUE
IsHost(n) == n[1] \notin Underscored

MdnsDecode(names) ==
    LET found == ExtractNames(names)
        told  == Kept(found, {k \in DOMAIN found : IsService(found[k]) \/ IsHost(found[k])})
    IN  [i \in DOMAIN told |-> IF IsService(told[i]) THEN ServiceSignal(told[i])
                              ELSE TextSignal("hostname", Front(told[i]))]

-----------------------------------------------------------------------------
(* ssdp.rs.  A payload: its lines, each with the key before the colon in   *)
(* upper case; the value is None if there is no colon or nothing behind it.*)

SsdpDecode(lines) ==
    LET told == Kept(lines,
            {k \in DOMAIN lines : /\ lines[k].value # None
                                  /\ lines[k].key \in {"SERVER", "NT", "ST"}})
    IN  [i \in DOMAIN told |->
            ServiceSignal(IF told[i].key = "SERVER"
                          THEN <<"server=">> \o told[i].value ELSE told[i].value)]

-----------------------------------------------------------------------------
\* decode_event: the observations of an event, all of one device and address.
SignalsOf(ev) ==
    CASE ev.kind = "Dhcp" -> DhcpDecode(ev.payload)
      [] ev.kind = "Mdns" -> MdnsDecode(ev.payload)
      [] ev.kind = "Ssdp" -> SsdpDecode(ev.payload)
      [] OTHER            -> <<Seen>>

DecodeEvent(ev) ==
    [i \in DOMAIN SignalsOf(ev) |->
        [mac |-> ev.src_mac, ip |-> ev.src_ip, signal |-> SignalsOf(ev)[i]]]
=============================================================================
