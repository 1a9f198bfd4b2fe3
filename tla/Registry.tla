------------------------------ MODULE Registry ------------------------------
(***************************************************************************)
(* The device record and the pure transitions of lanscope's in-memory      *)
(* registry (lanscope/src/registry/mod.rs), together with the conversion a *)
(* record goes through on its way to the SQLite store and back             *)
(* (lanscope/src/storage/sqlite.rs).                                       *)
(*                                                                         *)
(* The module has no variables: Attribution and Pipeline give the registry *)
(* its state.  Texts are members of a set; "bytes" has the control of      *)
(* "packets" and is left out.                                              *)
(***************************************************************************)
EXTENDS Integers, Sequences, FiniteSets

CONSTANTS
    Mac,           \* hardware addresses of devices
    ZeroMac,       \* 00:00:00:00:00:00, which handle_event skips
    Ip,            \* IPv4 addresses
    Attr,          \* fields of one text: vendor, hostname, DHCP fingerprint, vendor class
    VendorField,   \* the one of them no signal sets
    Vendor(_),     \* what the OUI table says of a hardware address, or None
    Text,          \* values such a field may hold
    Service,       \* advertised service strings
    DeviceType,    \* device types of the fingerprint rules
    Time,          \* wall-clock readings, unix seconds
    None,          \* Option::None
    MaxServices,   \* cap on stored service strings (32)
    MaxI64,        \* largest i64: u64 counters range over 0 .. 2 * MaxI64 + 1
    Classify(_, _) \* device type of (text fields, services), or None

Counter == 0 .. 2 * MaxI64 + 1          \* u64
Signed  == -MaxI64 - 1 .. MaxI64        \* i64

Texts == [Attr -> Text \cup {None}]

ASSUME RegistryAssumption ==
    /\ MaxServices \in Nat
    /\ MaxI64 \in Nat
    /\ Time \subseteq Int
    /\ IsFiniteSet(Service)
    /\ None \notin Ip \cup Text \cup DeviceType
    /\ ZeroMac \notin Mac
    /\ \A m \in Mac : Vendor(m) \in Text \cup {None}
    /\ \A t \in Texts : \A s \in SUBSET Service :
          Classify(t, s) \in DeviceType \cup {None}

Device ==
    [ips      : Seq(Ip),
     texts    : Texts,
     services : SUBSET Service,
     type     : DeviceType \cup {None},
     first    : Time,
     last     : Time,
     packets  : Counter]

\* A row of the devices table: the same record with an i64 packet counter.
Row ==
    [ips      : Seq(Ip),
     texts    : Texts,
     services : SUBSET Service,
     type     : DeviceType \cup {None},
     first    : Time,
     last     : Time,
     packets  : Signed]

ASSUME NoneIsNoRecord == None \notin Device \cup Row

Signal ==
    [kind : {"text"}, attr : Attr \ {VendorField}, text : Text]
      \cup [kind : {"service"}, service : Service]
      \cup [kind : {"seen"}]

Observation == [mac : Mac \cup {ZeroMac}, ip : Ip \cup {None}, signal : Signal]

-----------------------------------------------------------------------------
(* Device::new, push_ip, apply_signal, observe, set_device_type            *)

NewDevice(m, now) ==
    [ips      |-> << >>,
     texts    |-> [a \in Attr |-> IF a = VendorField THEN Vendor(m) ELSE None],
     services |-> {},
     type     |-> None,
     first    |-> now,
     last     |-> now,
     packets  |-> 0]

IpSet(d) == {d.ips[i] : i \in 1 .. Len(d.ips)}

\* A known address moves to the end of the list, a new one is appended.  A
\* list holds no address twice (Attribution, IpsMostRecentLast), so position()
\* has one answer.
\* Mutant: a known address keeps its place.
PushIpNoMove(ips, ip) == IF \E i \in 1 .. Len(ips) : ips[i] = ip THEN ips ELSE Append(ips, ip)
PushIp(ips, ip) ==
    IF \E i \in 1 .. Len(ips) : ips[i] = ip
    THEN LET pos == CHOOSE i \in 1 .. Len(ips) : ips[i] = ip
         IN  SubSeq(ips, 1, pos - 1) \o SubSeq(ips, pos + 1, Len(ips)) \o <<ip>>
    ELSE Append(ips, ip)

AddService(services, s) ==
    IF Cardinality(services) < MaxServices THEN services \cup {s} ELSE services

ApplySignal(d, sig) ==
    CASE sig.kind = "text"    -> [d EXCEPT !.texts[sig.attr] = sig.text]
      [] sig.kind = "service" -> [d EXCEPT !.services = AddService(@, sig.service)]
      [] OTHER                -> d

\* One observation folded into the record it belongs to; ip is None when the
\* frame carried no IPv4 source.  Mutant: first_seen is touched as well.
TouchResetsFirst(d, ip, sig, now) ==
    LET seen == [d EXCEPT !.first = now, !.last = now]
        at   == IF ip = None THEN seen ELSE [seen EXCEPT !.ips = PushIp(@, ip)]
    IN  ApplySignal(at, sig)

Touch(d, ip, sig, now) ==
    LET seen == [d EXCEPT !.last = now]
        at   == IF ip = None THEN seen ELSE [seen EXCEPT !.ips = PushIp(@, ip)]
    IN  ApplySignal(at, sig)

\* observe: the entry is created by the first observation of its MAC.  Mutant:
\* it is created anew by every one.
ObserveKeepsNothing(old, m, ip, sig, now) == Touch(NewDevice(m, now), ip, sig, now)
Observe(old, m, ip, sig, now) ==
    Touch(IF old = None THEN NewDevice(m, now) ELSE old, ip, sig, now)

\* handle_event re-runs the fingerprint rules after every observation.
Classified(d) == [d EXCEPT !.type = Classify(d.texts, d.services)]

-----------------------------------------------------------------------------
(* apply_flow                                                              *)

\* Mutant: the sum is not kept below the limit of u64.
PlainAdd(c, n) == c + n
SaturatingAdd(c, n) ==
    IF c + n > 2 * MaxI64 + 1 THEN 2 * MaxI64 + 1 ELSE c + n

Credit(d, packets, now) ==
    [d EXCEPT !.packets = SaturatingAdd(@, packets), !.last = now]

\* values_mut().find(..): the records that list a source address.  The hash
\* map's iteration order picks the one that is credited.
Owners(reg, src) == {m \in DOMAIN reg : reg[m] # None /\ src \in IpSet(reg[m])}

\* Mutant: the search does not stop at the first record.
CreditAllOwners(reg, m, src, n, now) ==
    [o \in DOMAIN reg |-> IF o \in Owners(reg, src) THEN Credit(reg[o], n, now) ELSE reg[o]]
CreditOwner(reg, m, src, n, now) == [reg EXCEPT ![m] = Credit(@, n, now)]

-----------------------------------------------------------------------------
(* upsert_device and load_devices: "packets as i64" and "i64 as u64"       *)

\* Mutant: the column is taken for a u64.
ToI64Plain(c)  == c
ToI64(c)   == IF c > MaxI64 THEN c - (2 * MaxI64 + 2) ELSE c
FromI64(n) == IF n < 0 THEN n + 2 * MaxI64 + 2 ELSE n

ToRow(d)     == [d EXCEPT !.packets = ToI64(@)]
FromRow(row) == [row EXCEPT !.packets = FromI64(@)]

\* INSERT ... ON CONFLICT(mac) DO UPDATE: every column except first_seen.
\* Mutant: ON CONFLICT DO NOTHING.
UpsertInsertOnly(old, d) == IF old = None THEN ToRow(d) ELSE old
Upsert(old, d) ==
    IF old = None THEN ToRow(d) ELSE [ToRow(d) EXCEPT !.first = old.first]
=============================================================================
