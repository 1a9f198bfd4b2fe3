---------------------------- MODULE Attribution ----------------------------
(***************************************************************************)
(* The registry as the join point of two streams: discovery events, whose  *)
(* observations say who uses which address and what kind of device it is,  *)
(* and flow snapshots, which carry traffic keyed by source address only    *)
(* (lanscope/src/registry/mod.rs, and handle_event in lanscope/src/app.rs).*)
(* Persistence and alerts are left to Pipeline.                            *)
(***************************************************************************)
EXTENDS Registry

CONSTANTS
    Events,       \* discovery events
    Decode(_),    \* decode_event: their observations
    FlowPackets,  \* packet counts a flow of a snapshot may carry
    MaxSteps      \* bound on observations and flows folded in

ASSUME AttributionAssumption ==
    /\ None \notin Mac /\ None \notin Time
    /\ \A ev \in Events : Decode(ev) \in Seq(Observation)
    /\ FlowPackets \subseteq Nat
    /\ MaxSteps \in Nat

VARIABLES
    registry,   \* DeviceRegistry::devices, None where there is no entry
    frame,      \* observations of the current event still to be folded in
    now,        \* the handler's reading of the clock
    heard,      \* history: events received so far
    sighted,    \* history: step at which a MAC was last seen with an address, 0 if never
    known,      \* history: packets of the flows whose source address was known
    steps       \* steps taken

vars == <<registry, frame, now, heard, sighted, known, steps>>

Devices == {m \in Mac : registry[m] # None}

TypeOK ==
    /\ registry \in [Mac -> Device \cup {None}]
    /\ frame \in Seq(Observation)
    /\ now \in Time \cup {None}
    /\ frame # << >> => now \in Time
    /\ heard \subseteq Events
    /\ sighted \in [Mac -> [Ip -> 0 .. MaxSteps]]
    /\ known \in Nat
    /\ steps \in 0 .. MaxSteps

Init ==
    /\ registry = [m \in Mac |-> None]
    /\ frame = << >>
    /\ now = None
    /\ heard = {}
    /\ sighted = [m \in Mac |-> [i \in Ip |-> 0]]
    /\ known = 0
    /\ steps = 0

-----------------------------------------------------------------------------
\* CaptureEvent::Discovery: the rest of an event's observations is taken up
\* under one reading of the clock.
Resume(rest, t) ==
    /\ frame' = rest
    /\ now' = IF rest = << >> THEN None ELSE t

ReceiveEvent(ev, t) ==
    /\ frame = << >>
    /\ steps + Len(Decode(ev)) <= MaxSteps
    /\ Resume(Decode(ev), t)
    /\ heard' = heard \cup {ev}
    /\ UNCHANGED <<registry, sighted, known, steps>>

SkipZeroMac ==
    /\ frame # << >>
    /\ Head(frame).mac = ZeroMac
    /\ Resume(Tail(frame), now)
    /\ steps' = steps + 1
    /\ UNCHANGED <<registry, heard, sighted, known>>

\* observe, followed by the classification handle_event always makes.
Sight ==
    /\ frame # << >>
    /\ Head(frame).mac # ZeroMac
    /\ LET o == Head(frame)
           m == o.mac
       IN  /\ registry' =
                  [registry EXCEPT ![m] = Classified(Observe(@, m, o.ip, o.signal, now))]
           /\ sighted' = IF o.ip = None THEN sighted
                         ELSE [sighted EXCEPT ![m][o.ip] = steps + 1]
    /\ Resume(Tail(frame), now)
    /\ steps' = steps + 1
    /\ UNCHANGED <<heard, known>>

\* CaptureEvent::Flows: apply_flow, for one flow of a snapshot.
FlowOf(src, n, t) ==
    /\ frame = << >>
    /\ steps < MaxSteps
    /\ \/ \E m \in Owners(registry, src) :
             registry' = CreditOwner(registry, m, src, n, t)
       \/ Owners(registry, src) = {} /\ UNCHANGED registry
    /\ known' = known + (IF \E m \in Devices : src \in IpSet(registry[m]) THEN n ELSE 0)
    /\ steps' = steps + 1
    /\ UNCHANGED <<frame, now, heard, sighted>>

\* The bound is spent; the program would go on.
BudgetSpent ==
    /\ frame = << >>
    /\ steps = MaxSteps
    /\ UNCHANGED vars

Next ==
    \/ \E ev \in Events, t \in Time : ReceiveEvent(ev, t)
    \/ SkipZeroMac
    \/ Sight
    \/ \E src \in Ip, n \in FlowPackets, t \in Time : FlowOf(src, n, t)
    \/ BudgetSpent

Spec == Init /\ [][Next]_vars

-----------------------------------------------------------------------------
\* A record lists exactly the addresses its MAC was seen with, each once, in
\* the order of their latest sighting: "most recent last" of Device::ips,
\* which push_ip has to re-establish on every repeat.
IpsMostRecentLast ==
    \A m \in Devices :
        LET ips == registry[m].ips IN
        /\ IpSet(registry[m]) = {i \in Ip : sighted[m][i] > 0}
        /\ \A i, j \in 1 .. Len(ips) : i < j => sighted[m][ips[i]] < sighted[m][ips[j]]

Packets(m) == registry[m].packets
Saturated == \E m \in Devices : Packets(m) = 2 * MaxI64 + 1

\* The packets on the records, each as a record and a number in its count.
Counted == UNION {{m} \X (1 .. Packets(m)) : m \in Devices}

\* Conservation of traffic: every packet of a flow with a known source is on
\* exactly one record, however many records list the address, and a counter
\* at the u64 limit loses packets instead of wrapping round (apply_flow).
TrafficConserved ==
    LET total == Cardinality(Counted) IN
    IF Saturated THEN total <= known ELSE total = known

\* Evidence about a device only accumulates: no observation and no flow drops
\* an address, a service, a text field or counted traffic, or moves first_seen.
EvidenceOnlyGrows ==
    [][\A m \in Devices :
         LET old == registry[m]
             new == registry'[m]
         IN  /\ new # None
             /\ IpSet(old) \subseteq IpSet(new)
             /\ old.services \subseteq new.services
             /\ \A a \in Attr : old.texts[a] # None => new.texts[a] # None
             /\ old.first = new.first
             /\ old.packets <= new.packets]_vars

\* The device type shown for a record is the one its own signals give, and
\* the services it is computed from never exceed MAX_SERVICES.
TypeFollowsEvidence ==
    \A m \in Devices :
        LET d == registry[m] IN
        /\ d.type = Classify(d.texts, d.services)
        /\ Cardinality(d.services) <= MaxServices

\* apply_flow: "Attribute a flow snapshot's traffic to its source device".
\* A record is credited only for an address no other MAC was seen with since.
CreditGoesToCurrentHolder ==
    [][\A m \in Devices :
         registry'[m].packets # registry[m].packets =>
             \E ip \in IpSet(registry[m]) :
                 \A o \in Mac : sighted[o][ip] <= sighted[m][ip]]_vars
=============================================================================
