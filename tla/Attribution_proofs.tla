------------------------- MODULE Attribution_proofs -------------------------
(***************************************************************************)
(* What Attribution and Discovery keep true for any events, any decoding   *)
(* of them, any set of devices and addresses, any counter width and any    *)
(* reading of texts: types, the order of a record's addresses, the         *)
(* classification, that evidence only grows, that traffic is conserved,    *)
(* that strong evidence of a device's type is heeded, what the decoders    *)
(* tell of a frame, and which names become hostnames.                      *)
(***************************************************************************)
EXTENDS Discovery, Registry_proofs

-----------------------------------------------------------------------------
(* Types.  What is taken up of an event is always within the budget.       *)

Budget == steps + Len(frame) <= MaxSteps

LEMMA TypeInit == Init => TypeOK /\ Budget
<1>. SUFFICES ASSUME Init PROVE TypeOK /\ Budget
  OBVIOUS
<1>1. << >> \in Seq(Observation) /\ Len(<< >>) = 0
  BY EmptySeq
<1>. QED  BY <1>1, AttributionAssumption DEF Init, TypeOK, Budget

\* The observation at the head of the frame and what remains of the frame.
LEMMA HeadOfFrame ==
    ASSUME TypeOK, Budget, frame # << >>
    PROVE  LET o == Head(frame) IN
           /\ o \in Observation /\ o.mac \in Mac \cup {ZeroMac}
           /\ o.ip \in Ip \cup {None} /\ o.signal \in Signal
           /\ Tail(frame) \in Seq(Observation)
           /\ Len(Tail(frame)) = Len(frame) - 1
           /\ Len(frame) \in Nat /\ Len(frame) > 0
           /\ steps + 1 + Len(Tail(frame)) <= MaxSteps
           /\ steps + 1 \in 1 .. MaxSteps
           /\ now \in Time
<1>1. /\ Head(frame) \in Observation /\ Tail(frame) \in Seq(Observation)
      /\ Len(Tail(frame)) = Len(frame) - 1
      /\ Len(frame) \in Nat /\ Len(frame) > 0
  BY HeadTailProperties, LenProperties, EmptySeq DEF TypeOK
<1>2. steps + 1 + Len(Tail(frame)) <= MaxSteps /\ steps + 1 \in 1 .. MaxSteps
  BY <1>1, AttributionAssumption DEF TypeOK, Budget
<1>. QED  BY <1>1, <1>2 DEF TypeOK, Observation

\* What a sighting does to the record it is about.
LEMMA SightEffect ==
    ASSUME TypeOK, Budget, Sight
    PROVE  LET o   == Head(frame)
               m   == o.mac
               new == registry'[m]
           IN  /\ m \in Mac
               /\ registry' = [registry EXCEPT ![m] = new]
               /\ new \in Device /\ new # None
               /\ new.type = Classify(new.texts, new.services)
               /\ registry[m] # None =>
                     /\ new.first = registry[m].first
                     /\ new.packets = registry[m].packets
                     /\ registry[m].services \subseteq new.services
                     /\ \A a \in Attr : registry[m].texts[a] # None => new.texts[a] # None
               /\ LET before == IF registry[m] = None THEN << >> ELSE registry[m].ips
                  IN  new.ips = IF o.ip = None THEN before ELSE PushIp(before, o.ip)
               /\ registry[m] = None \/ Cardinality(registry[m].services) <= MaxServices
                     => Cardinality(new.services) <= MaxServices
<1>. DEFINE o == Head(frame)
            d == Classified(Observe(registry[o.mac], o.mac, o.ip, o.signal, now))
<1>1. /\ o.mac \in Mac /\ o.ip \in Ip \cup {None} /\ o.signal \in Signal /\ now \in Time
      /\ registry[o.mac] \in Device \cup {None}
  BY HeadOfFrame DEF Sight, TypeOK
<1>2. registry' = [registry EXCEPT ![o.mac] = d]
  BY DEF Sight
<1>3. registry'[o.mac] = d
  BY <1>1, <1>2 DEF TypeOK
<1>4. /\ d \in Device
      /\ d.type = Classify(d.texts, d.services)
      /\ registry[o.mac] # None =>
            /\ d.first = registry[o.mac].first
            /\ d.packets = registry[o.mac].packets
            /\ registry[o.mac].services \subseteq d.services
            /\ \A a \in Attr : registry[o.mac].texts[a] # None => d.texts[a] # None
      /\ LET before == IF registry[o.mac] = None THEN << >> ELSE registry[o.mac].ips
         IN  d.ips = IF o.ip = None THEN before ELSE PushIp(before, o.ip)
      /\ registry[o.mac] = None \/ Cardinality(registry[o.mac].services) <= MaxServices
            => Cardinality(d.services) <= MaxServices
  <2>. DEFINE old == registry[o.mac]
              mac == o.mac
              ip  == o.ip
              sig == o.signal
  <2>1. /\ old \in Device \cup {None} /\ mac \in Mac /\ ip \in Ip \cup {None}
        /\ sig \in Signal /\ now \in Time
    BY <1>1
  <2>2. d = Classified(Observe(old, mac, ip, sig, now))
    OBVIOUS
  <2>. HIDE DEF old, mac, ip, sig, d
  <2>3. d \in Device /\ d.type = Classify(d.texts, d.services)
    BY <2>1, <2>2, ObserveGrows
  <2>6. ASSUME old # None
        PROVE  /\ d.first = old.first
               /\ d.packets = old.packets
               /\ old.services \subseteq d.services
    BY <2>1, <2>2, <2>6, ObserveGrows
  <2>7. ASSUME old # None, NEW a \in Attr, old.texts[a] # None
        PROVE  d.texts[a] # None
    BY <2>1, <2>2, <2>7, ObserveGrows
  <2>4. d.ips = LET before == IF old = None THEN << >> ELSE old.ips
                IN  IF ip = None THEN before ELSE PushIp(before, ip)
    BY <2>1, <2>2, ObserveEffect, ZenonT(60)
  <2>5. old = None \/ Cardinality(old.services) <= MaxServices
            => Cardinality(d.services) <= MaxServices
    BY <2>1, <2>2, ObserveEffect
  <2>. QED  BY <2>3, <2>4, <2>5, <2>6, <2>7 DEF old, ip
<1>. HIDE DEF d
<1>. QED  BY <1>1, <1>2, <1>3, <1>4, NoneIsNoRecord

\* What a flow does: nothing, or one record is credited.
LEMMA FlowEffect ==
    ASSUME TypeOK, NEW src \in Ip, NEW n \in FlowPackets, NEW t \in Time, FlowOf(src, n, t)
    PROVE  \/ UNCHANGED registry
           \/ \E m \in Mac :
                 LET new == registry'[m] IN
                 /\ registry[m] # None
                 /\ registry' = [registry EXCEPT ![m] = new]
                 /\ new \in Device /\ new # None
                 /\ new.ips = registry[m].ips /\ new.first = registry[m].first
                 /\ new.texts = registry[m].texts /\ new.services = registry[m].services
                 /\ new.type = registry[m].type
                 /\ registry[m].packets <= new.packets
<1>1. ASSUME NEW m \in Owners(registry, src), registry' = CreditOwner(registry, m, src, n, t)
      PROVE  \E o \in Mac :
                 LET new == registry'[o] IN
                 /\ registry[o] # None
                 /\ registry' = [registry EXCEPT ![o] = new]
                 /\ new \in Device /\ new # None
                 /\ new.ips = registry[o].ips /\ new.first = registry[o].first
                 /\ new.texts = registry[o].texts /\ new.services = registry[o].services
                 /\ new.type = registry[o].type
                 /\ registry[o].packets <= new.packets
  <2>. DEFINE d == Credit(registry[m], n, t)
  <2>1. m \in Mac /\ registry[m] # None /\ registry[m] \in Device
    BY <1>1 DEF Owners, TypeOK
  <2>2. /\ d \in Device
        /\ d.ips = registry[m].ips /\ d.first = registry[m].first
        /\ d.texts = registry[m].texts
        /\ d.services = registry[m].services /\ d.type = registry[m].type
        /\ registry[m].packets <= d.packets
    BY <2>1, CreditEffect, AttributionAssumption
  <2>3. registry' = [registry EXCEPT ![m] = d] /\ registry'[m] = d
    BY <1>1, <2>1 DEF CreditOwner, TypeOK
  <2>. HIDE DEF d
  <2>. QED  BY <2>1, <2>2, <2>3, NoneIsNoRecord
<1>. QED  BY <1>1 DEF FlowOf

LEMMA TypeNext == TypeOK /\ Budget /\ [Next]_vars => (TypeOK /\ Budget)'
<1>. SUFFICES ASSUME TypeOK, Budget, [Next]_vars PROVE (TypeOK /\ Budget)'
  OBVIOUS
<1>1. ASSUME NEW ev \in Events, NEW t \in Time, ReceiveEvent(ev, t) PROVE (TypeOK /\ Budget)'
  BY <1>1, AttributionAssumption DEF ReceiveEvent, Resume, TypeOK, Budget
<1>2. CASE SkipZeroMac
  <2>1. /\ frame' = Tail(frame) /\ steps' = steps + 1
        /\ now' = IF frame' = << >> THEN None ELSE now
        /\ UNCHANGED <<registry, heard, sighted, known>>
    BY <1>2 DEF SkipZeroMac, Resume
  <2>2. frame' \in Seq(Observation) /\ now \in Time /\ steps' \in 0 .. MaxSteps /\ Budget'
    BY <1>2, <2>1, HeadOfFrame, AttributionAssumption DEF SkipZeroMac, Budget
  <2>. QED  BY <2>1, <2>2 DEF TypeOK
<1>3. CASE Sight
  <2>1. /\ frame' = Tail(frame) /\ steps' = steps + 1 /\ UNCHANGED <<heard, known>>
        /\ now' = IF frame' = << >> THEN None ELSE now
        /\ sighted' = IF Head(frame).ip = None THEN sighted
                      ELSE [sighted EXCEPT ![Head(frame).mac][Head(frame).ip] = steps + 1]
    BY <1>3 DEF Sight, Resume
  <2>2. frame' \in Seq(Observation) /\ now \in Time /\ steps' \in 0 .. MaxSteps /\ Budget'
    BY <1>3, <2>1, HeadOfFrame, AttributionAssumption DEF Sight, Budget
  <2>3. registry' \in [Mac -> Device \cup {None}]
    BY <1>3, SightEffect DEF TypeOK
  <2>4. sighted' \in [Mac -> [Ip -> 0 .. MaxSteps]]
    <3>1. /\ Head(frame).ip \in Ip \cup {None} /\ steps + 1 \in 0 .. MaxSteps
      BY <1>3, HeadOfFrame, AttributionAssumption DEF Sight
    <3>. QED  BY <2>1, <3>1 DEF TypeOK
  <2>. QED  BY <2>1, <2>2, <2>3, <2>4 DEF TypeOK
<1>4. ASSUME NEW src \in Ip, NEW n \in FlowPackets, NEW t \in Time, FlowOf(src, n, t)
      PROVE  (TypeOK /\ Budget)'
  <2>1. registry' \in [Mac -> Device \cup {None}]
    BY <1>4, FlowEffect DEF TypeOK
  <2>2. /\ frame = << >> /\ steps < MaxSteps /\ steps' = steps + 1
        /\ UNCHANGED <<frame, now, heard, sighted>>
        /\ known' = known + (IF \E m \in Devices : src \in IpSet(registry[m]) THEN n ELSE 0)
    BY <1>4 DEF FlowOf
  <2>3. Len(frame) = 0 /\ n \in Nat
    BY <2>2, EmptySeq, AttributionAssumption
  <2>4. known' \in Nat /\ steps' \in 0 .. MaxSteps /\ Budget'
    BY <2>2, <2>3, AttributionAssumption DEF TypeOK, Budget
  <2>. QED  BY <2>1, <2>2, <2>4 DEF TypeOK
<1>5. CASE UNCHANGED vars
  BY <1>5 DEF vars, TypeOK, Budget
<1>. QED  BY <1>1, <1>2, <1>3, <1>4, <1>5 DEF Next, BudgetSpent

\* Type correctness: every decoded frame is folded into well-formed records.
THEOREM AttributionTypeCorrect == Spec => []TypeOK
  BY TypeInit, TypeNext, PTL DEF Spec

-----------------------------------------------------------------------------
(* What each step does to the registry                                     *)

LEMMA StepKinds ==
    ASSUME [Next]_vars
    PROVE  \/ UNCHANGED <<registry, sighted>> /\ (steps' = steps \/ steps' = steps + 1)
           \/ Sight
           \/ \E src \in Ip, n \in FlowPackets, t \in Time : FlowOf(src, n, t)
  BY DEF Next, ReceiveEvent, SkipZeroMac, BudgetSpent, vars

-----------------------------------------------------------------------------
(* Classification                                                          *)

LEMMA EvidenceInit == Init => TypeFollowsEvidence
  BY DEF Init, TypeFollowsEvidence, Devices

LEMMA EvidenceNext ==
    TypeOK /\ Budget /\ TypeFollowsEvidence /\ [Next]_vars => TypeFollowsEvidence'
<1>. SUFFICES ASSUME TypeOK, Budget, TypeFollowsEvidence, [Next]_vars,
                     NEW m \in Mac, registry'[m] # None
              PROVE  /\ registry'[m].type = Classify(registry'[m].texts, registry'[m].services)
                     /\ Cardinality(registry'[m].services) <= MaxServices
  BY DEF TypeFollowsEvidence, Devices
<1>1. registry[m] # None =>
         /\ registry[m].type = Classify(registry[m].texts, registry[m].services)
         /\ Cardinality(registry[m].services) <= MaxServices
  BY DEF TypeFollowsEvidence, Devices
<1>2. CASE Sight
  BY <1>1, <1>2, SightEffect DEF TypeOK
<1>3. ASSUME NEW src \in Ip, NEW n \in FlowPackets, NEW t \in Time, FlowOf(src, n, t)
      PROVE  /\ registry'[m].type = Classify(registry'[m].texts, registry'[m].services)
             /\ Cardinality(registry'[m].services) <= MaxServices
  BY <1>1, <1>3, FlowEffect DEF TypeOK
<1>4. CASE UNCHANGED registry
  BY <1>1, <1>4
<1>. QED  BY <1>2, <1>3, <1>4, StepKinds

\* The device type of every record is the one its own signals give, and the
\* services kept as evidence stay within MAX_SERVICES.
THEOREM TypesFollowEvidence == Spec => []TypeFollowsEvidence
  BY EvidenceInit, EvidenceNext, TypeInit, TypeNext, PTL DEF Spec

-----------------------------------------------------------------------------
(* Addresses                                                               *)

\* A record's addresses are those its MAC was seen with, and a sighting is at
\* most as late as the latest step, so a new one is later than all before it.
SightingInv ==
    /\ IpsMostRecentLast
    /\ \A m \in Mac : \A i \in Ip :
          sighted[m][i] <= steps /\ (registry[m] = None => sighted[m][i] = 0)

LEMMA SightingInit == Init => SightingInv
  BY DEF Init, SightingInv, IpsMostRecentLast, Devices

\* A list of addresses in the order of their sightings, each in it once.
InOrder(ips, at) ==
    /\ \A i \in Ip : (\E k \in 1 .. Len(ips) : ips[k] = i) <=> at[i] > 0
    /\ \A k, l \in 1 .. Len(ips) : k < l => at[ips[k]] < at[ips[l]]

LEMMA InOrderMeaning ==
    ASSUME NEW d \in Device, NEW at \in [Ip -> Nat]
    PROVE  InOrder(d.ips, at)
              <=> /\ IpSet(d) = {i \in Ip : at[i] > 0}
                  /\ \A k, l \in 1 .. Len(d.ips) : k < l => at[d.ips[k]] < at[d.ips[l]]
<1>1. \A k \in 1 .. Len(d.ips) : d.ips[k] \in Ip
  BY ElementOfSeq DEF Device
<1>2. IpSet(d) = {i \in Ip : at[i] > 0}
         <=> \A i \in Ip : (\E k \in 1 .. Len(d.ips) : d.ips[k] = i) <=> at[i] > 0
  BY <1>1 DEF IpSet
<1>. QED  BY <1>2 DEF InOrder

\* push_ip keeps a list in order when its address is sighted at step t.
LEMMA PushIpInOrder ==
    ASSUME NEW ips \in Seq(Ip), NEW ip \in Ip, NEW at \in [Ip -> Nat], NEW t \in Nat,
           InOrder(ips, at), \A i \in Ip : at[i] < t
    PROVE  InOrder(PushIp(ips, ip), [at EXCEPT ![ip] = t])
<1>. DEFINE new == PushIp(ips, ip)
            n   == Len(new)
            new_at == [at EXCEPT ![ip] = t]
<1>0. /\ Len(ips) \in Nat /\ \A k \in 1 .. Len(ips) : ips[k] \in Ip
      /\ \A k, l \in 1 .. Len(ips) : k # l => ips[k] # ips[l]
  <2>1. Len(ips) \in Nat /\ \A k \in 1 .. Len(ips) : ips[k] \in Ip
    BY LenProperties, ElementOfSeq
  <2>2. ASSUME NEW k \in 1 .. Len(ips), NEW l \in 1 .. Len(ips), k < l
        PROVE  ips[k] # ips[l]
    BY <2>1, <2>2 DEF InOrder
  <2>. QED  BY <2>1, <2>2
<1>1. /\ new \in Seq(Ip) /\ n > 0 /\ new[n] = ip
      /\ \A i \in 1 .. Len(ips) : \E j \in 1 .. n : new[j] = ips[i]
      /\ \A j \in 1 .. n : new[j] = ip \/ \E i \in 1 .. Len(ips) : new[j] = ips[i]
      /\ \A i, j \in 1 .. n - 1 : i < j =>
            \E k, l \in 1 .. Len(ips) : k < l /\ new[i] = ips[k] /\ new[j] = ips[l]
      /\ \A i \in 1 .. n - 1 : new[i] # ip
  <2>1. new \in Seq(Ip) /\ n > 0 /\ new[n] = ip
    BY PushIpEffect
  <2>2. \A i \in 1 .. Len(ips) : \E j \in 1 .. n : new[j] = ips[i]
    BY PushIpEffect, ZenonT(60)
  <2>3. \A j \in 1 .. n : new[j] = ip \/ \E i \in 1 .. Len(ips) : new[j] = ips[i]
    BY PushIpEffect, ZenonT(60)
  <2>4. \A i, j \in 1 .. n - 1 : i < j =>
            \E k, l \in 1 .. Len(ips) : k < l /\ new[i] = ips[k] /\ new[j] = ips[l]
    BY PushIpEffect, ZenonT(60)
  <2>5. (\A k, l \in 1 .. Len(ips) : k # l => ips[k] # ips[l])
           => \A i \in 1 .. n - 1 : new[i] # ip
    BY PushIpEffect, ZenonT(60)
  <2>. HIDE DEF new, n
  <2>. QED  BY <1>0, <2>1, <2>2, <2>3, <2>4, <2>5
<1>2. n \in Nat /\ \A j \in 1 .. n : new[j] \in Ip
  BY <1>1, LenProperties, ElementOfSeq
<1>3. /\ new_at[ip] = t /\ t > 0
      /\ \A i \in Ip : i # ip => new_at[i] = at[i]
  OBVIOUS
<1>. HIDE DEF new, n, new_at
<1>4. ASSUME NEW i \in Ip
      PROVE  (\E k \in 1 .. n : new[k] = i) <=> new_at[i] > 0
  <2>1. CASE i = ip
    <3>1. n \in 1 .. n
      BY <1>1, <1>2
    <3>. QED  BY <1>1, <1>3, <2>1, <3>1
  <2>2. CASE i # ip
    <3>1. ASSUME NEW k \in 1 .. n, new[k] = i
          PROVE  \E x \in 1 .. Len(ips) : ips[x] = i
      <4>1. new[k] = ip \/ \E x \in 1 .. Len(ips) : new[k] = ips[x]
        BY <1>1
      <4>. QED  BY <2>2, <3>1, <4>1
    <3>2. ASSUME NEW x \in 1 .. Len(ips), ips[x] = i
          PROVE  \E k \in 1 .. n : new[k] = i
      <4>1. \E k \in 1 .. n : new[k] = ips[x]
        BY <1>1
      <4>. QED  BY <3>2, <4>1
    <3>3. (\E x \in 1 .. Len(ips) : ips[x] = i) <=> at[i] > 0
      BY DEF InOrder
    <3>. QED  BY <1>3, <2>2, <3>1, <3>2, <3>3
  <2>. QED  BY <2>1, <2>2
<1>5. ASSUME NEW k \in 1 .. n, NEW l \in 1 .. n, k < l
      PROVE  new_at[new[k]] < new_at[new[l]]
  <2>0. k \in 1 .. n - 1 /\ new[k] # ip /\ new_at[new[k]] = at[new[k]] /\ new[k] \in Ip
    <3>1. k \in 1 .. n - 1
      BY <1>2, <1>5
    <3>2. new[k] # ip /\ new[k] \in Ip
      BY <1>1, <1>2, <3>1
    <3>. QED  BY <1>3, <3>1, <3>2
  <2>1. CASE l = n
    <3>1. new[l] = ip /\ at[new[k]] < t
      BY <1>1, <2>0, <2>1
    <3>. QED  BY <1>3, <2>0, <3>1
  <2>2. CASE l # n
    <3>1. l \in 1 .. n - 1 /\ new[l] # ip /\ new_at[new[l]] = at[new[l]]
      <4>1. l \in 1 .. n - 1
        BY <1>2, <2>2
      <4>2. new[l] # ip /\ new[l] \in Ip
        BY <1>1, <1>2, <4>1
      <4>. QED  BY <1>3, <4>1, <4>2
    <3>2. PICK x \in 1 .. Len(ips), y \in 1 .. Len(ips) :
             x < y /\ new[k] = ips[x] /\ new[l] = ips[y]
      BY <1>1, <1>5, <2>0, <3>1
    <3>. QED  BY <2>0, <3>1, <3>2 DEF InOrder
  <2>. QED  BY <2>1, <2>2
<1>. QED  BY <1>4, <1>5 DEF InOrder, new, n, new_at

LEMMA SightingNext ==
    TypeOK /\ Budget /\ SightingInv /\ [Next]_vars => SightingInv'
<1>. SUFFICES ASSUME TypeOK, Budget, SightingInv, [Next]_vars PROVE SightingInv'
  OBVIOUS
<1>0. TypeOK'
  BY TypeNext
<1>. DEFINE Fine(m) ==
           /\ registry'[m] # None => InOrder(registry'[m].ips, sighted'[m])
           /\ \A i \in Ip :
                 sighted'[m][i] <= steps' /\ (registry'[m] = None => sighted'[m][i] = 0)
<1>. SUFFICES ASSUME NEW m \in Mac PROVE Fine(m)
  <2>1. ASSUME NEW m \in Mac, registry'[m] # None
        PROVE  registry'[m] \in Device /\ sighted'[m] \in [Ip -> Nat]
    BY <1>0, <2>1, AttributionAssumption DEF TypeOK
  <2>2. ASSUME NEW m \in Mac, registry'[m] # None, Fine(m)
        PROVE  /\ IpSet(registry'[m]) = {i \in Ip : sighted'[m][i] > 0}
               /\ \A k, l \in 1 .. Len(registry'[m].ips) :
                     k < l => sighted'[m][registry'[m].ips[k]] < sighted'[m][registry'[m].ips[l]]
    BY <2>1, <2>2, InOrderMeaning
  <2>3. (\A m \in Mac : Fine(m)) => \A m \in Mac : \A i \in Ip :
            sighted'[m][i] <= steps' /\ (registry'[m] = None => sighted'[m][i] = 0)
    OBVIOUS
  <2>. HIDE DEF Fine
  <2>4. (\A m \in Mac : Fine(m)) => IpsMostRecentLast'
    BY <2>2 DEF IpsMostRecentLast, Devices
  <2>. QED  BY <2>3, <2>4 DEF SightingInv
<1>2. sighted[m] \in [Ip -> Nat] /\ steps \in Nat /\ steps + 1 \in Nat
  BY AttributionAssumption DEF TypeOK
<1>1. /\ registry[m] # None => InOrder(registry[m].ips, sighted[m])
      /\ \A i \in Ip : sighted[m][i] <= steps /\ (registry[m] = None => sighted[m][i] = 0)
  <2>1. registry[m] # None => registry[m] \in Device
    BY DEF TypeOK
  <2>. QED  BY <1>2, <2>1, InOrderMeaning DEF SightingInv, IpsMostRecentLast, Devices
<1>3. CASE Sight
  <2>. DEFINE o == Head(frame)
  <2>1. o.mac \in Mac /\ o.ip \in Ip \cup {None} /\ steps' = steps + 1
    BY <1>3, HeadOfFrame DEF Sight
  <2>2. CASE m # o.mac
    <3>1. registry'[m] = registry[m] /\ sighted'[m] = sighted[m]
      BY <1>3, <2>1, <2>2 DEF Sight, TypeOK
    <3>. QED  BY <1>1, <1>2, <2>1, <3>1
  <2>3. CASE m = o.mac
    <3>. DEFINE before == IF registry[m] = None THEN << >> ELSE registry[m].ips
    <3>1. registry'[m] # None /\ registry'[m].ips = IF o.ip = None THEN before ELSE PushIp(before, o.ip)
      BY <1>3, <2>3, SightEffect
    <3>2. before \in Seq(Ip)
      BY EmptySeq DEF TypeOK, Device
    <3>3. InOrder(before, sighted[m])
      <4>1. CASE registry[m] = None
        <5>1. before = << >> /\ \A i \in Ip : ~(sighted[m][i] > 0)
          BY <1>1, <4>1
        <5>2. Len(before) = 0
          BY <5>1
        <5>3. 1 .. Len(before) = {}
          BY <5>2
        <5>. HIDE DEF before
        <5>. QED  BY <5>1, <5>3 DEF InOrder
      <4>2. CASE registry[m] # None
        BY <1>1, <4>2
      <4>. QED  BY <4>1, <4>2
    <3>4. CASE o.ip = None
      <4>1. sighted' = sighted
        BY <1>3, <3>4 DEF Sight
      <4>. QED  BY <1>1, <1>2, <2>1, <3>1, <3>3, <3>4, <4>1
    <3>5. CASE o.ip # None
      <4>1. o.ip \in Ip /\ sighted'[m] = [sighted[m] EXCEPT ![o.ip] = steps + 1]
        BY <1>3, <2>1, <2>3, <3>5 DEF Sight, TypeOK
      <4>2. \A i \in Ip : sighted[m][i] < steps + 1
        BY <1>1, <1>2
      <4>. HIDE DEF o, before
      <4>3. InOrder(PushIp(before, o.ip), [sighted[m] EXCEPT ![o.ip] = steps + 1])
        <5>. DEFINE at == sighted[m]
                    t  == steps + 1
        <5>1. at \in [Ip -> Nat] /\ t \in Nat /\ InOrder(before, at) /\ \A i \in Ip : at[i] < t
          BY <1>2, <3>3, <4>2
        <5>. HIDE DEF at, t
        <5>2. InOrder(PushIp(before, o.ip), [at EXCEPT ![o.ip] = t])
          BY <3>2, <4>1, <5>1, PushIpInOrder
        <5>. QED  BY <5>2 DEF at, t
      <4>4. \A i \in Ip : sighted'[m][i] <= steps'
        BY <1>2, <2>1, <4>1, <4>2
      <4>. QED  BY <3>1, <3>5, <4>1, <4>3, <4>4
    <3>. QED  BY <3>4, <3>5
  <2>. QED  BY <2>2, <2>3
<1>4. ASSUME NEW src \in Ip, NEW n \in FlowPackets, NEW t \in Time, FlowOf(src, n, t)
      PROVE  Fine(m)
  <2>1. sighted' = sighted /\ steps' = steps + 1
    BY <1>4 DEF FlowOf
  <2>2. /\ registry'[m] # None <=> registry[m] # None
        /\ registry[m] # None => registry'[m].ips = registry[m].ips
    BY <1>4, FlowEffect DEF TypeOK
  <2>. QED  BY <1>1, <1>2, <2>1, <2>2
<1>5. CASE UNCHANGED <<registry, sighted>> /\ (steps' = steps \/ steps' = steps + 1)
  BY <1>1, <1>2, <1>5
<1>. QED  BY <1>3, <1>4, <1>5, StepKinds

\* Whatever the order and number of sightings, a record lists exactly the
\* addresses of its MAC, each once, the latest last.
THEOREM LatestAddressIsLast == Spec => []IpsMostRecentLast
<1>1. SightingInv => IpsMostRecentLast
  BY DEF SightingInv
<1>. QED  BY <1>1, SightingInit, SightingNext, TypeInit, TypeNext, PTL DEF Spec

-----------------------------------------------------------------------------
(* Evidence                                                                *)

LEMMA RecordGrows ==
    ASSUME TypeOK, Budget, [Next]_vars, NEW m \in Mac, registry[m] # None
    PROVE  /\ registry'[m] # None
           /\ IpSet(registry[m]) \subseteq IpSet(registry'[m])
           /\ registry[m].services \subseteq registry'[m].services
           /\ \A a \in Attr : registry[m].texts[a] # None => registry'[m].texts[a] # None
           /\ registry[m].first = registry'[m].first
           /\ registry[m].packets <= registry'[m].packets
<1>0. registry[m] \in Device /\ registry[m].packets <= registry[m].packets
  BY RegistryAssumption DEF TypeOK, Device, Counter
<1>1. CASE Sight /\ m = Head(frame).mac
  <2>. DEFINE old == registry[m]
              new == registry'[m]
              ip  == Head(frame).ip
  <2>1. /\ new # None /\ new.first = old.first /\ new.packets = old.packets
        /\ old.services \subseteq new.services
        /\ \A a \in Attr : old.texts[a] # None => new.texts[a] # None
        /\ new.ips = IF ip = None THEN old.ips ELSE PushIp(old.ips, ip)
    BY <1>1, SightEffect
  <2>2. old.ips \in Seq(Ip) /\ ip \in Ip \cup {None}
    BY <1>0, <1>1, HeadOfFrame DEF Device, Sight
  <2>. HIDE DEF new, old, ip
  <2>3. IpSet(old) \subseteq IpSet(new)
    <3>1. CASE ip = None
      BY <2>1, <3>1 DEF IpSet
    <3>2. CASE ip # None
      <4>1. \A i \in 1 .. Len(old.ips) : \E j \in 1 .. Len(new.ips) : new.ips[j] = old.ips[i]
        <5>1. old.ips \in Seq(Ip) /\ ip \in Ip /\ new.ips = PushIp(old.ips, ip)
          BY <2>1, <2>2, <3>2
        <5>2. LET list == PushIp(old.ips, ip)
              IN  \A i \in 1 .. Len(old.ips) : \E j \in 1 .. Len(list) : list[j] = old.ips[i]
          BY <5>1, PushIpEffect, ZenonT(60)
        <5>. QED  BY <5>1, <5>2
      <4>. QED  BY <4>1 DEF IpSet
    <3>. QED  BY <3>1, <3>2
  <2>. QED  BY <1>0, <2>1, <2>3 DEF new, old
<1>2. CASE Sight /\ m # Head(frame).mac
  BY <1>0, <1>2, SightEffect DEF TypeOK
<1>3. ASSUME NEW src \in Ip, NEW n \in FlowPackets, NEW t \in Time, FlowOf(src, n, t)
      PROVE  /\ registry'[m] # None
             /\ registry'[m].ips = registry[m].ips
             /\ registry'[m].services = registry[m].services
             /\ registry'[m].texts = registry[m].texts
             /\ registry'[m].first = registry[m].first
             /\ registry[m].packets <= registry'[m].packets
  <2>1. CASE UNCHANGED registry
    BY <1>0, <2>1
  <2>2. ASSUME NEW o \in Mac,
               registry' = [registry EXCEPT ![o] = registry'[o]],
               registry'[o] # None,
               registry'[o].ips = registry[o].ips, registry'[o].first = registry[o].first,
               registry'[o].texts = registry[o].texts,
               registry'[o].services = registry[o].services,
               registry[o].packets <= registry'[o].packets
        PROVE  /\ registry'[m] # None
               /\ registry'[m].ips = registry[m].ips
               /\ registry'[m].services = registry[m].services
               /\ registry'[m].texts = registry[m].texts
               /\ registry'[m].first = registry[m].first
               /\ registry[m].packets <= registry'[m].packets
    <3>1. m # o => registry'[m] = registry[m]
      BY <2>2 DEF TypeOK
    <3>. QED  BY <1>0, <2>2, <3>1
  <2>. QED  BY <1>3, <2>1, <2>2, FlowEffect
<1>4. CASE UNCHANGED registry
  BY <1>0, <1>4
<1>. QED  BY <1>1, <1>2, <1>3, <1>4, StepKinds DEF IpSet

\* No observation and no flow ever takes an address, a service, a text field,
\* a counted packet or the first sighting from a record.
THEOREM EvidenceIsNeverLost == Spec => EvidenceOnlyGrows
<1>1. TypeOK /\ Budget /\ [Next]_vars
        => [\A m \in Devices :
              LET old == registry[m]
                  new == registry'[m]
              IN  /\ new # None
                  /\ IpSet(old) \subseteq IpSet(new)
                  /\ old.services \subseteq new.services
                  /\ \A a \in Attr : old.texts[a] # None => new.texts[a] # None
                  /\ old.first = new.first
                  /\ old.packets <= new.packets]_vars
  BY RecordGrows DEF Devices
<1>. QED  BY <1>1, TypeInit, TypeNext, PTL DEF Spec, EvidenceOnlyGrows

-----------------------------------------------------------------------------
(* Traffic.  A record's packets are counted as pairs of the record and a   *)
(* number, so that the total is the cardinality of a set, and crediting a  *)
(* record adds a block of new pairs to it.                                 *)

LEMMA BlockOfPairs ==
    ASSUME NEW m, NEW a \in Nat, NEW b \in Nat, a <= b
    PROVE  /\ IsFiniteSet({m} \X (a + 1 .. b))
           /\ Cardinality({m} \X (a + 1 .. b)) = b - a
<1>1. IsFiniteSet(a + 1 .. b) /\ Cardinality(a + 1 .. b) = b - a
  <2>1. a + 1 \in Int /\ b \in Int
    OBVIOUS
  <2>2. /\ IsFiniteSet(a + 1 .. b)
        /\ Cardinality(a + 1 .. b) = IF a + 1 > b THEN 0 ELSE b - (a + 1) + 1
    BY <2>1, FS_Interval
  <2>. QED  BY <2>2
<1>2. IsFiniteSet({m}) /\ Cardinality({m}) = 1
  BY FS_Singleton
<1>3. LET S == {m}
          T == a + 1 .. b
      IN  IsFiniteSet(S \X T) /\ Cardinality(S \X T) = Cardinality(S) * Cardinality(T)
  <2>. DEFINE S == {m}
              T == a + 1 .. b
  <2>1. IsFiniteSet(S) /\ IsFiniteSet(T)
    BY <1>1, <1>2
  <2>. HIDE DEF S, T
  <2>2. IsFiniteSet(S \X T) /\ Cardinality(S \X T) = Cardinality(S) * Cardinality(T)
    BY <2>1, FS_Product
  <2>. QED  BY <2>2 DEF S, T
<1>4. 1 * (b - a) = b - a
  OBVIOUS
<1>. QED  BY <1>1, <1>2, <1>3, <1>4

\* What Counted and Saturated are of a registry.
Registries == [Mac -> Device \cup {None}]
Limit == 2 * MaxI64 + 1

PacketsIn(reg, m) == IF reg[m] = None THEN 0 ELSE reg[m].packets
CountedIn(reg) == UNION {{m} \X (1 .. reg[m].packets) : m \in {o \in Mac : reg[o] # None}}
SaturatedIn(reg) == \E m \in Mac : PacketsIn(reg, m) = Limit

LEMMA PacketsType ==
    ASSUME NEW reg \in Registries, NEW m \in Mac
    PROVE  PacketsIn(reg, m) \in 0 .. Limit
<1>1. reg[m] # None => reg[m].packets \in Counter
  BY DEF Registries, Device
<1>. QED  BY <1>1, RegistryAssumption DEF PacketsIn, Counter, Limit

LEMMA CountedPairs ==
    ASSUME NEW reg \in Registries
    PROVE  \A q : q \in CountedIn(reg)
                    <=> \E m \in Mac : \E k \in 1 .. PacketsIn(reg, m) : q = <<m, k>>
<1>1. ASSUME NEW q, q \in CountedIn(reg)
      PROVE  \E m \in Mac : \E k \in 1 .. PacketsIn(reg, m) : q = <<m, k>>
  <2>1. PICK m \in Mac : reg[m] # None /\ q \in {m} \X (1 .. reg[m].packets)
    BY <1>1 DEF CountedIn
  <2>2. q[2] \in 1 .. PacketsIn(reg, m) /\ q = <<m, q[2]>>
    BY <2>1 DEF PacketsIn
  <2>. QED  BY <2>2
<1>2. ASSUME NEW m \in Mac, NEW k \in 1 .. PacketsIn(reg, m)
      PROVE  <<m, k>> \in CountedIn(reg)
  <2>1. reg[m] # None /\ k \in 1 .. reg[m].packets
    <3>1. 1 .. 0 = {}
      OBVIOUS
    <3>. QED  BY <3>1 DEF PacketsIn
  <2>2. <<m, k>> \in {m} \X (1 .. reg[m].packets) /\ m \in {o \in Mac : reg[o] # None}
    BY <2>1
  <2>. QED  BY <2>2, Zenon DEF CountedIn
<1>. QED  BY <1>1, <1>2

\* Two registries that differ in one record, whose count has not gone down.
LEMMA OneRecordCounts ==
    ASSUME NEW old \in Registries, NEW new \in Registries, NEW m \in Mac,
           IsFiniteSet(CountedIn(old)),
           PacketsIn(old, m) <= PacketsIn(new, m),
           \A o \in Mac \ {m} : new[o] = old[o]
    PROVE  /\ IsFiniteSet(CountedIn(new))
           /\ Cardinality(CountedIn(new)) =
                 Cardinality(CountedIn(old)) + (PacketsIn(new, m) - PacketsIn(old, m))
<1>. DEFINE a == PacketsIn(old, m)
            b == PacketsIn(new, m)
            N == {m} \X (a + 1 .. b)
            D == CountedIn(old) \cup N
<1>1. a \in Nat /\ b \in Nat /\ a <= b
  BY PacketsType, RegistryAssumption DEF Limit
<1>2. \A o \in Mac \ {m} : PacketsIn(new, o) = PacketsIn(old, o)
  BY DEF PacketsIn
<1>3. \A q : q \in CountedIn(old) <=> \E o \in Mac : \E k \in 1 .. PacketsIn(old, o) : q = <<o, k>>
  BY CountedPairs
<1>4. \A q : q \in CountedIn(new) <=> \E o \in Mac : \E k \in 1 .. PacketsIn(new, o) : q = <<o, k>>
  BY CountedPairs
<1>5. \A k \in a + 1 .. b : <<m, k>> \notin CountedIn(old)
  BY <1>1, <1>3
<1>6. \A q : q \in N <=> \E k \in a + 1 .. b : q = <<m, k>>
  <2>1. ASSUME NEW q \in N PROVE q[2] \in a + 1 .. b /\ q = <<m, q[2]>>
    OBVIOUS
  <2>2. \A k \in a + 1 .. b : <<m, k>> \in N
    OBVIOUS
  <2>. HIDE DEF N
  <2>. QED  BY <2>1, <2>2
<1>. HIDE DEF N
<1>7. CountedIn(new) = D
  <2>1. ASSUME NEW q \in CountedIn(new) PROVE q \in D
    <3>0. PICK o \in Mac : \E k \in 1 .. PacketsIn(new, o) : q = <<o, k>>
      BY <1>4, <2>1
    <3>1. PICK k \in 1 .. PacketsIn(new, o) : q = <<o, k>>
      BY <3>0
    <3>2. CASE o # m
      BY <1>2, <1>3, <3>1, <3>2
    <3>3. CASE o = m
      <4>1. k \in 1 .. a \/ k \in a + 1 .. b
        BY <1>1, <3>1, <3>3
      <4>. HIDE DEF b
      <4>. QED  BY <1>3, <1>6, <3>1, <3>3, <4>1
    <3>. QED  BY <3>2, <3>3
  <2>2. ASSUME NEW q \in CountedIn(old) PROVE q \in CountedIn(new)
    <3>0. PICK o \in Mac : \E k \in 1 .. PacketsIn(old, o) : q = <<o, k>>
      BY <1>3, <2>2
    <3>1. PICK k \in 1 .. PacketsIn(old, o) : q = <<o, k>>
      BY <3>0
    <3>2. k \in 1 .. PacketsIn(new, o)
      BY <1>1, <1>2, <3>1
    <3>. QED  BY <1>4, <3>1, <3>2
  <2>3. ASSUME NEW q \in N PROVE q \in CountedIn(new)
    <3>1. PICK k \in a + 1 .. b : q = <<m, k>>
      BY <1>6, <2>3
    <3>2. k \in 1 .. b
      BY <1>1, <3>1
    <3>. QED  BY <1>4, <3>1, <3>2
  <2>. QED  BY <2>1, <2>2, <2>3
<1>. HIDE DEF a, b
<1>8. CountedIn(old) \cap N = {}
  BY <1>5, <1>6
<1>9. IsFiniteSet(N) /\ Cardinality(N) = b - a
  BY <1>1, BlockOfPairs DEF N
<1>10. /\ Cardinality(CountedIn(old)) \in Nat /\ Cardinality(CountedIn(old) \cap N) = 0
       /\ IsFiniteSet(CountedIn(old) \cup N)
       /\ Cardinality(CountedIn(old) \cup N) =
             Cardinality(CountedIn(old)) + Cardinality(N) - Cardinality(CountedIn(old) \cap N)
  <2>1. Cardinality(CountedIn(old)) \in Nat
    BY FS_CardinalityType
  <2>2. Cardinality(CountedIn(old) \cap N) = 0
    BY <1>8, FS_EmptySet
  <2>. QED  BY <1>9, <2>1, <2>2, FS_Union
<1>. QED  BY <1>1, <1>7, <1>9, <1>10 DEF a, b

\* The traffic property with the finiteness of what it counts.
ConservationInv == TrafficConserved /\ IsFiniteSet(Counted)

LEMMA ConservationMeans ==
    ConservationInv
       <=> LET total == Cardinality(CountedIn(registry)) IN
           /\ IsFiniteSet(CountedIn(registry))
           /\ IF SaturatedIn(registry) THEN total <= known ELSE total = known
<1>1. Counted = CountedIn(registry)
  BY Zenon DEF Counted, CountedIn, Devices, Packets
<1>2. 2 * MaxI64 + 1 # 0
  BY RegistryAssumption
<1>3. Saturated <=> SaturatedIn(registry)
  BY <1>2 DEF Saturated, SaturatedIn, Devices, Packets, PacketsIn, Limit
<1>. QED  BY <1>1, <1>3 DEF ConservationInv, TrafficConserved

LEMMA ConservationInit == Init => ConservationInv
<1>. SUFFICES ASSUME Init PROVE ConservationInv
  OBVIOUS
<1>1. Counted = {} /\ ~ Saturated /\ known = 0
  BY DEF Init, Counted, Devices, Saturated
<1>. QED  BY <1>1, FS_EmptySet DEF ConservationInv, TrafficConserved

LEMMA SightCountsNothing ==
    ASSUME TypeOK, Budget, Sight
    PROVE  \E m \in Mac : /\ PacketsIn(registry', m) = PacketsIn(registry, m)
                          /\ \A o \in Mac \ {m} : registry'[o] = registry[o]
<1>. DEFINE o == Head(frame)
            m == o.mac
            d == Classified(Observe(registry[m], m, o.ip, o.signal, now))
<1>1. /\ m \in Mac /\ o.ip \in Ip \cup {None} /\ o.signal \in Signal /\ now \in Time
      /\ registry[m] \in Device \cup {None}
  BY HeadOfFrame DEF Sight, TypeOK
<1>2. registry'[m] = d /\ \A x \in Mac \ {m} : registry'[x] = registry[x]
  BY <1>1 DEF Sight, TypeOK
<1>3. d \in Device /\ d.packets = IF registry[m] = None THEN 0 ELSE registry[m].packets
  <2>. DEFINE old == registry[m]
              ip  == o.ip
              sig == o.signal
  <2>1. old \in Device \cup {None} /\ ip \in Ip \cup {None} /\ sig \in Signal
    BY <1>1
  <2>2. d = Classified(Observe(old, m, ip, sig, now))
    OBVIOUS
  <2>. HIDE DEF d, old, ip, sig, m
  <2>3. d \in Device /\ d.packets = IF old = None THEN 0 ELSE old.packets
    BY <1>1, <2>1, <2>2, ObserveGrows, ObservePackets
  <2>. QED  BY <2>3 DEF old
<1>. HIDE DEF d
<1>4. PacketsIn(registry', m) = PacketsIn(registry, m)
  BY <1>2, <1>3, NoneIsNoRecord DEF PacketsIn
<1>. QED  BY <1>1, <1>2, <1>4

LEMMA ConservationNext ==
    TypeOK /\ Budget /\ ConservationInv /\ [Next]_vars => ConservationInv'
<1>. SUFFICES ASSUME TypeOK, Budget, ConservationInv, [Next]_vars PROVE ConservationInv'
  OBVIOUS
<1>. DEFINE total == Cardinality(CountedIn(registry))
            total_new == Cardinality(CountedIn(registry'))
<1>0. /\ registry \in Registries /\ registry' \in Registries /\ known \in Nat
      /\ Limit \in Nat
  BY TypeNext, RegistryAssumption DEF TypeOK, Registries, Limit
<1>1. /\ IsFiniteSet(CountedIn(registry)) /\ total \in Nat /\ total <= known
      /\ ~ SaturatedIn(registry) => total = known
  <2>1. /\ IsFiniteSet(CountedIn(registry))
        /\ IF SaturatedIn(registry) THEN total <= known ELSE total = known
    BY ConservationMeans
  <2>2. total \in Nat
    BY <2>1, FS_CardinalityType
  <2>. HIDE DEF total
  <2>. QED  BY <1>0, <2>1, <2>2
<1>2. ASSUME /\ IsFiniteSet(CountedIn(registry')) /\ total_new <= known'
             /\ ~ SaturatedIn(registry') => total_new = known'
      PROVE  ConservationInv'
  <2>1. Counted' = CountedIn(registry')
    BY Zenon DEF Counted, CountedIn, Devices, Packets
  <2>2. 2 * MaxI64 + 1 # 0
    BY RegistryAssumption
  <2>3. Saturated' <=> SaturatedIn(registry')
    BY <2>2 DEF Saturated, SaturatedIn, Devices, Packets, PacketsIn, Limit
  <2>. QED  BY <1>2, <2>1, <2>3 DEF ConservationInv, TrafficConserved
<1>. HIDE DEF total, total_new
<1>3. CASE Sight
  <2>1. PICK m \in Mac : /\ PacketsIn(registry', m) = PacketsIn(registry, m)
                         /\ \A o \in Mac \ {m} : registry'[o] = registry[o]
    BY <1>3, SightCountsNothing
  <2>2. \A o \in Mac : PacketsIn(registry', o) = PacketsIn(registry, o)
    BY <2>1 DEF PacketsIn
  <2>3. PacketsIn(registry, m) \in Nat
    BY <1>0, PacketsType
  <2>4. IsFiniteSet(CountedIn(registry')) /\ total_new = total
    <3>1. PacketsIn(registry, m) <= PacketsIn(registry', m)
      BY <2>1, <2>3
    <3>2. /\ IsFiniteSet(CountedIn(registry'))
          /\ total_new = total + (PacketsIn(registry', m) - PacketsIn(registry, m))
      BY <1>0, <1>1, <2>1, <3>1, OneRecordCounts DEF total, total_new
    <3>. QED  BY <1>1, <2>1, <2>3, <3>2
  <2>5. SaturatedIn(registry') <=> SaturatedIn(registry)
    BY <2>2 DEF SaturatedIn
  <2>6. known' = known
    BY <1>3 DEF Sight
  <2>. QED  BY <1>1, <1>2, <2>4, <2>5, <2>6
<1>4. ASSUME NEW src \in Ip, NEW n \in FlowPackets, NEW t \in Time, FlowOf(src, n, t),
             NEW m \in Owners(registry, src), registry' = CreditOwner(registry, m, src, n, t)
      PROVE  ConservationInv'
  <2>. DEFINE p == PacketsIn(registry, m)
              q == PacketsIn(registry', m)
  <2>1. m \in Mac /\ registry[m] # None /\ registry[m] \in Device /\ src \in IpSet(registry[m])
    BY <1>4 DEF Owners, TypeOK
  <2>2. n \in Nat /\ known' = known + n
    BY <1>4, <2>1, AttributionAssumption DEF FlowOf, Devices
  <2>3. /\ registry'[m] = Credit(registry[m], n, t)
        /\ \A o \in Mac \ {m} : registry'[o] = registry[o]
    BY <1>4, <2>1 DEF CreditOwner, TypeOK
  <2>4. registry'[m] # None /\ registry'[m].packets = SaturatingAdd(registry[m].packets, n)
    <3>1. Credit(registry[m], n, t) \in Device
      BY <2>1, <2>2, CreditEffect
    <3>. QED  BY <2>1, <2>3, <3>1, NoneIsNoRecord DEF Credit, Device
  <2>5. p \in 0 .. Limit /\ q = IF p + n > Limit THEN Limit ELSE p + n
    BY <1>0, <2>1, <2>4, PacketsType DEF PacketsIn, SaturatingAdd, Limit
  <2>6. \A o \in Mac \ {m} : PacketsIn(registry', o) = PacketsIn(registry, o)
    BY <2>3 DEF PacketsIn
  <2>7. p <= q
    <3>. HIDE DEF p, q
    <3>. QED  BY <1>0, <2>2, <2>5
  <2>8. IsFiniteSet(CountedIn(registry')) /\ total_new = total + (q - p)
    BY <1>0, <1>1, <2>1, <2>3, <2>7, OneRecordCounts DEF total, total_new
  <2>9. SaturatedIn(registry) => p = Limit \/ SaturatedIn(registry')
    BY <2>1, <2>6 DEF SaturatedIn
  <2>10. q = Limit => SaturatedIn(registry')
    BY <2>1 DEF SaturatedIn
  <2>. HIDE DEF p, q
  <2>11. total_new <= known'
    BY <1>0, <1>1, <2>2, <2>5, <2>8
  <2>12. ASSUME ~ SaturatedIn(registry') PROVE total_new = known'
    <3>1. q # Limit /\ q = p + n
      BY <2>5, <2>10, <2>12
    <3>2. p # Limit
      BY <1>0, <2>2, <2>5, <3>1
    <3>. QED  BY <1>0, <1>1, <2>2, <2>5, <2>8, <2>9, <2>12, <3>1, <3>2
  <2>. QED  BY <1>2, <2>8, <2>11, <2>12
<1>5. ASSUME NEW src \in Ip, NEW n \in FlowPackets, NEW t \in Time, FlowOf(src, n, t),
             Owners(registry, src) = {}
      PROVE  ConservationInv'
  <2>1. ~ \E m \in Devices : src \in IpSet(registry[m])
    BY <1>5 DEF Owners, Devices, TypeOK
  <2>2. registry' = registry /\ known' = known
    BY <1>0, <1>5, <2>1 DEF FlowOf
  <2>. QED  BY <2>2 DEF ConservationInv, TrafficConserved, Counted, Saturated, Devices, Packets
<1>6. CASE UNCHANGED <<registry, known>>
  BY <1>6 DEF ConservationInv, TrafficConserved, Counted, Saturated, Devices, Packets
<1>7. \/ Sight \/ UNCHANGED <<registry, known>>
      \/ \E src \in Ip, n \in FlowPackets, t \in Time : FlowOf(src, n, t)
  BY DEF Next, ReceiveEvent, SkipZeroMac, BudgetSpent, vars
<1>8. ASSUME NEW src \in Ip, NEW n \in FlowPackets, NEW t \in Time, FlowOf(src, n, t)
      PROVE  ConservationInv'
  <2>1. \/ \E m \in Owners(registry, src) : registry' = CreditOwner(registry, m, src, n, t)
        \/ Owners(registry, src) = {}
    BY <1>8 DEF FlowOf
  <2>. QED  BY <1>4, <1>5, <1>8, <2>1
<1>. QED  BY <1>3, <1>6, <1>7, <1>8

\* Whatever devices share an address and whichever of them the hash map yields
\* first, every packet of a known source is on one record, until a counter is
\* at its limit; from then on packets are missing, and none is made up.
THEOREM TrafficIsConserved == Spec => []TrafficConserved
<1>1. ConservationInv => TrafficConserved
  BY DEF ConservationInv
<1>. QED
  BY <1>1, ConservationInit, ConservationNext, TypeInit, TypeNext, PTL DEF Spec

-----------------------------------------------------------------------------
(* The fingerprint rules                                                   *)

LEMMA SequenceOf ==
    ASSUME NEW n \in Nat, NEW s, s = [i \in 1 .. n |-> s[i]]
    PROVE  s \in Seq({s[i] : i \in 1 .. n}) /\ Len(s) = n
  OBVIOUS

LEMMA StrongConfidence ==
    /\ Len(StrongRules) = 21
    /\ StrongRules = [i \in 1 .. 21 |-> StrongRules[i]]
    /\ \A i \in 1 .. 21 : StrongRules[i].confidence \in 0 .. 100
<1>. DEFINE sure(i) == StrongRules[i].confidence
<1>1. /\ sure(1) = 95 /\ sure(2) = 92 /\ sure(3) = 90 /\ sure(4) = 92 /\ sure(5) = 90
      /\ sure(6) = 85 /\ sure(7) = 85 /\ sure(8) = 80 /\ sure(9) = 92 /\ sure(10) = 90
      /\ sure(11) = 90 /\ sure(12) = 90 /\ sure(13) = 90 /\ sure(14) = 90 /\ sure(15) = 90
      /\ sure(16) = 60 /\ sure(17) = 85 /\ sure(18) = 70 /\ sure(19) = 70 /\ sure(20) = 85
      /\ sure(21) = 80
  BY DEF StrongRules, Rule
<1>2. Len(StrongRules) = 21 /\ StrongRules = [i \in 1 .. 21 |-> StrongRules[i]]
  BY DEF StrongRules
<1>. HIDE DEF sure
<1>3. \A i \in 1 .. 21 : sure(i) \in 0 .. 100
  BY <1>1
<1>. QED  BY <1>2, <1>3 DEF sure

LEMMA WeakConfidence ==
    /\ Len(WeakRules) = 9
    /\ WeakRules = [i \in 1 .. 9 |-> WeakRules[i]]
    /\ \A i \in 1 .. 9 : WeakRules[i].confidence \in 0 .. 100
<1>. DEFINE sure(i) == WeakRules[i].confidence
<1>1. /\ sure(1) = 70 /\ sure(2) = 70 /\ sure(3) = 60 /\ sure(4) = 65 /\ sure(5) = 55
      /\ sure(6) = 55 /\ sure(7) = 50 /\ sure(8) = 50 /\ sure(9) = 50
  BY DEF WeakRules, Rule
<1>2. Len(WeakRules) = 9 /\ WeakRules = [i \in 1 .. 9 |-> WeakRules[i]]
  BY DEF WeakRules
<1>. HIDE DEF sure
<1>3. \A i \in 1 .. 9 : sure(i) \in 0 .. 100
  BY <1>1
<1>. QED  BY <1>2, <1>3 DEF sure

LEMMA RulesConfidence ==
    /\ DOMAIN RULES = 1 .. 30
    /\ \A i \in DOMAIN RULES : RULES[i].confidence \in 0 .. 100
    /\ \A i \in 22 .. 30 : RULES[i] \in ToSet(WeakRules)
<1>. DEFINE S == {StrongRules[i] : i \in 1 .. 21}
            W == {WeakRules[i] : i \in 1 .. 9}
<1>1. StrongRules \in Seq(S) /\ WeakRules \in Seq(W)
  BY StrongConfidence, WeakConfidence, SequenceOf
<1>2. \A r \in S \cup W : r.confidence \in 0 .. 100
  BY StrongConfidence, WeakConfidence
<1>. HIDE DEF S, W
<1>3. StrongRules \in Seq(S \cup W) /\ WeakRules \in Seq(S \cup W)
  BY <1>1
<1>4. RULES \in Seq(S \cup W) /\ Len(RULES) = 30
  BY <1>3, ConcatProperties, StrongConfidence, WeakConfidence DEF RULES
<1>5. DOMAIN RULES = 1 .. 30
  BY <1>4, LenProperties
<1>6. \A i \in 1 .. 30 : RULES[i] \in S \cup W
  BY <1>4, ElementOfSeq
<1>7. ASSUME NEW i \in 22 .. 30 PROVE RULES[i] \in ToSet(WeakRules)
  <2>1. Len(StrongRules) = 21 /\ Len(WeakRules) = 9
    BY StrongConfidence, WeakConfidence
  <2>2. i \in 1 .. 21 + 9 /\ ~(i <= 21) /\ i - 21 \in 1 .. 9
    OBVIOUS
  <2>3. RULES[i] = WeakRules[i - 21]
    <3>1. \A k \in 1 .. Len(StrongRules) + Len(WeakRules) :
             RULES[k] = IF k <= Len(StrongRules) THEN StrongRules[k]
                        ELSE WeakRules[k - Len(StrongRules)]
      BY <1>3, ConcatProperties DEF RULES
    <3>. QED  BY <2>1, <2>2, <3>1
  <2>4. DOMAIN WeakRules = 1 .. 9
    BY <1>1, <2>1, LenProperties
  <2>. QED  BY <2>2, <2>3, <2>4 DEF ToSet
<1>. QED  BY <1>2, <1>5, <1>6, <1>7

\* Of any rules some are the ones the agent is surest of, and one of these is
\* the last: what max_by returns always exists.
LEMMA BestIsBest ==
    ASSUME NEW I \in SUBSET DOMAIN RULES, I # {}
    PROVE  /\ BestOf(I) \in I
           /\ \A j \in I : RULES[j].confidence <= RULES[BestOf(I)].confidence
<1>. DEFINE sure(i) == RULES[i].confidence
<1>1. \A i \in I : i \in 1 .. 30 /\ sure(i) \in 0 .. 100
  BY RulesConfidence
<1>. HIDE DEF sure
<1>2. PICK i \in I : \A j \in I : sure(j) <= sure(i)
  <2>. DEFINE T == {100 - sure(k) : k \in I}
  <2>1. T \in SUBSET Nat /\ T # {}
    BY <1>1
  <2>2. PICK n \in T : \A k \in T : n <= k
    <3>. HIDE DEF T
    <3>. QED  BY <2>1, LeastNatural
  <2>3. PICK i \in I : n = 100 - sure(i)
    BY <2>2
  <2>4. ASSUME NEW j \in I PROVE sure(j) <= sure(i)
    <3>1. 100 - sure(i) <= 100 - sure(j)
      BY <2>2, <2>3
    <3>. QED  BY <1>1, <3>1
  <2>. QED  BY <2>4
<1>3. PICK k \in I : sure(k) = sure(i) /\ \A j \in I : sure(j) = sure(i) => j <= k
  <2>. DEFINE J == {j \in I : sure(j) = sure(i)}
              T == {30 - j : j \in J}
  <2>1. T \in SUBSET Nat /\ T # {}
    BY <1>1
  <2>2. PICK n \in T : \A l \in T : n <= l
    <3>. HIDE DEF T
    <3>. QED  BY <2>1, LeastNatural
  <2>3. PICK k \in J : n = 30 - k
    BY <2>2
  <2>4. ASSUME NEW j \in J PROVE j <= k
    <3>1. 30 - k <= 30 - j
      BY <2>2, <2>3
    <3>. QED  BY <1>1, <3>1
  <2>. QED  BY <2>4
<1>4. \A j \in I : sure(j) < sure(k) \/ (sure(j) = sure(k) /\ j <= k)
  <2>. SUFFICES ASSUME NEW j \in I
                PROVE  sure(j) < sure(k) \/ (sure(j) = sure(k) /\ j <= k)
    OBVIOUS
  <2>1. sure(j) <= sure(i) /\ sure(j) \in Int /\ sure(i) \in Int
    BY <1>1, <1>2
  <2>. QED  BY <1>3, <2>1
<1>5. \E b \in I : \A j \in I : sure(j) < sure(b) \/ (sure(j) = sure(b) /\ j <= b)
  BY <1>4
<1>6. /\ BestOf(I) \in I
      /\ \A j \in I : \/ sure(j) < sure(BestOf(I))
                      \/ sure(j) = sure(BestOf(I)) /\ j <= BestOf(I)
  BY <1>5, Zenon DEF BestOf, sure
<1>7. \A j \in I : sure(j) <= sure(BestOf(I))
  BY <1>1, <1>6
<1>. QED  BY <1>6, <1>7 DEF sure

\* What the services of a record match, all its texts together match as well,
\* so the record is called what a rule at least as sure of itself says; and that
\* is none of the weak rules if the services match a rule surer than all these.
LEMMA ServicesAreHeeded ==
    ASSUME NEW texts \in Texts, NEW services \in SUBSET Service,
           NEW i \in Matching(UNION {Has(s) : s \in services}) \cap Surer
    PROVE  \E j \in Matching(Haystack(texts, services)) \cap (1 .. Len(StrongRules)) :
              /\ RULES[j].device_type = DeviceTypeOf(texts, services)
              /\ RULES[j].confidence >= RULES[i].confidence
<1>. DEFINE I == Matching(Haystack(texts, services))
            b == BestOf(I)
<1>1. UNION {Has(s) : s \in services} \subseteq Haystack(texts, services)
  BY DEF Haystack
<1>2. i \in I /\ I \in SUBSET DOMAIN RULES
  BY <1>1 DEF Matching
<1>3. DeviceTypeOf(texts, services) = RULES[b].device_type
  BY <1>2 DEF DeviceTypeOf
<1>. HIDE DEF I
<1>4. b \in I /\ RULES[i].confidence <= RULES[b].confidence
  BY <1>2, BestIsBest
<1>5. b \in 1 .. 30 /\ i \in 1 .. 30
  BY <1>2, <1>4, RulesConfidence
<1>. HIDE DEF b
<1>6. /\ RULES[b].confidence >= RULES[i].confidence
      /\ RULES[b].confidence \in Int /\ RULES[i].confidence \in Int
  BY <1>4, <1>5, RulesConfidence
<1>7. b \notin 22 .. 30
  <2>. SUFFICES ASSUME b \in 22 .. 30 PROVE FALSE
    OBVIOUS
  <2>1. RULES[b] \in ToSet(WeakRules)
    BY RulesConfidence
  <2>2. RULES[i].confidence > RULES[b].confidence
    BY <2>1 DEF Surer
  <2>. QED  BY <1>6, <2>2
<1>8. b \in 1 .. Len(StrongRules)
  BY <1>5, <1>7, StrongConfidence
<1>. QED  BY <1>3, <1>4, <1>6, <1>8 DEF I

\* Once a device has advertised what a rule surer than the OUI fallbacks knows,
\* no frame that follows makes the agent fall back on one of these, or call the
\* device something it is less sure of: for any signals and any order.
THEOREM StrongServicesStick == Spec => StrongServiceSticks
<1>1. TypeOK /\ Budget /\ TypeFollowsEvidence /\ [Next]_vars
        => [\A m \in Devices :
              \A i \in Matching(UNION {Has(s) : s \in registry[m].services}) \cap Surer :
                LET d == registry'[m] IN
                \E j \in Matching(Haystack(d.texts, d.services)) \cap (1 .. Len(StrongRules)) :
                   /\ RULES[j].device_type = d.type
                   /\ RULES[j].confidence >= RULES[i].confidence]_vars
  <2>. SUFFICES ASSUME TypeOK, Budget, TypeFollowsEvidence, [Next]_vars,
                       NEW m \in Mac, registry[m] # None,
                       NEW i \in Matching(UNION {Has(s) : s \in registry[m].services}) \cap Surer
                PROVE  LET d == registry'[m] IN
                       \E j \in Matching(Haystack(d.texts, d.services))
                                  \cap (1 .. Len(StrongRules)) :
                          /\ RULES[j].device_type = d.type
                          /\ RULES[j].confidence >= RULES[i].confidence
    BY DEF Devices
  <2>. DEFINE new == registry'[m]
  <2>1. new # None /\ registry[m].services \subseteq new.services
    BY RecordGrows
  <2>2. new \in Device
    BY <2>1, TypeNext DEF TypeOK
  <2>3. new.type = Classify(new.texts, new.services)
    BY <2>1, EvidenceNext DEF TypeFollowsEvidence, Devices
  <2>4. new.texts \in Texts /\ new.services \in SUBSET Service
    BY <2>2 DEF Device
  <2>5. new.type = DeviceTypeOf(new.texts, new.services)
    BY <2>3, <2>4, DiscoveryAssumption
  <2>6. i \in Matching(UNION {Has(s) : s \in new.services}) \cap Surer
    BY <2>1 DEF Matching
  <2>. HIDE DEF new
  <2>7. \E j \in Matching(Haystack(new.texts, new.services)) \cap (1 .. Len(StrongRules)) :
           /\ RULES[j].device_type = DeviceTypeOf(new.texts, new.services)
           /\ RULES[j].confidence >= RULES[i].confidence
    BY <2>4, <2>6, ServicesAreHeeded
  <2>. QED  BY <2>5, <2>7 DEF new
<1>. QED
  BY <1>1, EvidenceInit, EvidenceNext, TypeInit, TypeNext, PTL DEF Spec, StrongServiceSticks

-----------------------------------------------------------------------------
(* Sequences that are made step by step: what the decoders' loops keep of  *)
(* a payload is made of what is in it, and misses nothing.                 *)

\* A set that holds a sequence of values' first and, with each, the next holds all.
LEMMA PrefixInduction ==
    ASSUME NEW N \in Nat, NEW f, NEW X, f[0] \in X,
           \A k \in 1 .. N : f[k - 1] \in X => f[k] \in X
    PROVE  \A k \in 0 .. N : f[k] \in X
<1>. DEFINE Bad == {k \in 0 .. N : f[k] \notin X}
<1>. SUFFICES ASSUME Bad # {} PROVE FALSE
  OBVIOUS
<1>1. PICK n \in Bad : \A k \in Bad : n <= k
  <2>1. Bad \in SUBSET Nat
    OBVIOUS
  <2>. HIDE DEF Bad
  <2>. QED  BY <2>1, LeastNatural
<1>2. n \in 1 .. N /\ n - 1 \in 0 .. N /\ ~ (n <= n - 1)
  OBVIOUS
<1>3. f[n - 1] \in X
  BY <1>1, <1>2
<1>. QED  BY <1>1, <1>2, <1>3

\* Values in X of which the first is b and each follows from the one before it.
Follows(f, N, X, b, step) ==
    /\ f \in [0 .. N -> X]
    /\ f[0] = b
    /\ \A k \in 1 .. N : f[k] = step[k][f[k - 1]]

\* Values that follow one from another exist.
LEMMA PrefixRecursion ==
    ASSUME NEW N \in Nat, NEW X, NEW b \in X, NEW step \in [1 .. N -> [X -> X]]
    PROVE  \E f : Follows(f, N, X, b, step)
<1>. DEFINE Fits(f, n) == f[0] = b /\ \A k \in 1 .. n : f[k] = step[k][f[k - 1]]
            Bad == {n \in 0 .. N : ~ \E f \in [0 .. n -> X] : Fits(f, n)}
<1>. SUFFICES ASSUME Bad # {} PROVE FALSE
  BY DEF Follows
<1>1. PICK n \in Bad : \A k \in Bad : n <= k
  <2>1. Bad \in SUBSET Nat
    OBVIOUS
  <2>. HIDE DEF Bad
  <2>. QED  BY <2>1, LeastNatural
<1>2. n # 0
  <2>1. ASSUME n = 0 PROVE FALSE
    <3>. DEFINE f == [k \in 0 .. 0 |-> b]
    <3>1. f \in [0 .. 0 -> X] /\ Fits(f, 0)
      OBVIOUS
    <3>. QED  BY <2>1, <3>1
  <2>. QED  BY <2>1
<1>3. n \in 1 .. N /\ n - 1 \in 0 .. N /\ ~ (n <= n - 1)
  BY <1>2
<1>4. PICK f \in [0 .. n - 1 -> X] : Fits(f, n - 1)
  <2>1. n - 1 \notin Bad
    BY <1>1, <1>3
  <2>. QED  BY <1>3, <2>1
<1>. DEFINE g == [k \in 0 .. n |-> IF k = n THEN step[n][f[n - 1]] ELSE f[k]]
<1>5. step[n][f[n - 1]] \in X
  BY <1>3, <1>4
<1>6. g \in [0 .. n -> X]
  BY <1>3, <1>4, <1>5
<1>7. Fits(g, n)
  <2>1. g[0] = b
    BY <1>3, <1>4
  <2>2. ASSUME NEW k \in 1 .. n PROVE g[k] = step[k][g[k - 1]]
    <3>1. g[k - 1] = f[k - 1]
      BY <1>3
    <3>2. k # n => g[k] = f[k] /\ f[k] = step[k][f[k - 1]]
      BY <1>3, <1>4
    <3>3. k = n => g[k] = step[k][f[k - 1]]
      OBVIOUS
    <3>. HIDE DEF g
    <3>. QED  BY <3>1, <3>2, <3>3
  <2>. QED  BY <2>1, <2>2
<1>. HIDE DEF g, Fits
<1>8. g \in [0 .. n -> X] /\ Fits(g, n)
  BY <1>6, <1>7
<1>9. ~ \E h \in [0 .. n -> X] : Fits(h, n)
  BY <1>1
<1>. QED  BY <1>8, <1>9

\* The sequences Kept goes through: the element at a place in I is put at the end
\* of the one before, another is passed over.
Steps(g, s, I, S) ==
    /\ g[0] = << >>
    /\ \A k \in 1 .. Len(s) : g[k] = IF k \in I THEN Append(g[k - 1], s[k]) ELSE g[k - 1]
    /\ \A k \in 0 .. Len(s) : g[k] \in Seq(S)

LEMMA KeptSteps ==
    ASSUME NEW T, NEW s \in Seq(T), NEW I, NEW S,
           \A k \in DOMAIN s : k \in I => s[k] \in S
    PROVE  \E g : Steps(g, s, I, S) /\ Kept(s, I) = g[Len(s)]
<1>. DEFINE N == Len(s)
            F(f, k) == IF k = 0 THEN << >>
                       ELSE IF k \in I THEN Append(f[k - 1], s[k]) ELSE f[k - 1]
            Solves(f) == f = [k \in 0 .. N |-> F(f, k)]
            X == Seq(S)
<1>1. N \in Nat /\ DOMAIN s = 1 .. N
  BY LenProperties
<1>2. << >> \in X
  BY EmptySeq
<1>3. \A t \in X : \A k \in 1 .. N : k \in I => Append(t, s[k]) \in X
  BY <1>1, AppendProperties
<1>4. \E f : Solves(f)
  <2>. DEFINE step == [k \in 1 .. N |-> [t \in X |-> IF k \in I THEN Append(t, s[k]) ELSE t]]
  <2>1. step \in [1 .. N -> [X -> X]]
    BY <1>3
  <2>2. \E f \in [0 .. N -> X] : f[0] = << >> /\ \A k \in 1 .. N : f[k] = step[k][f[k - 1]]
    <3>. DEFINE b == << >>
    <3>1. N \in Nat /\ b \in X
      BY <1>1, <1>2
    <3>2. \E f : Follows(f, N, X, b, step)
      <4>. HIDE DEF step, X, N, b
      <4>. QED  BY <2>1, <3>1, PrefixRecursion
    <3>. QED  BY <3>2 DEF Follows
  <2>3. PICK f \in [0 .. N -> X] : f[0] = << >> /\ \A k \in 1 .. N : f[k] = step[k][f[k - 1]]
    BY <2>2
  <2>4. ASSUME NEW k \in 0 .. N PROVE f[k] = F(f, k)
    <3>1. CASE k = 0
      BY <2>3, <3>1
    <3>2. CASE k # 0
      <4>1. k \in 1 .. N /\ k - 1 \in 0 .. N
        BY <1>1, <3>2
      <4>2. f[k - 1] \in X /\ f[k] = step[k][f[k - 1]]
        BY <2>3, <4>1
      <4>. QED  BY <3>2, <4>1, <4>2
    <3>. QED  BY <3>1, <3>2
  <2>5. f = [k \in 0 .. N |-> F(f, k)]
    <3>. HIDE DEF F, X
    <3>. QED  BY <2>4
  <2>. QED  BY <2>5
<1>. DEFINE g == CHOOSE f : Solves(f)
<1>5. Kept(s, I) = g[N]
  BY DEF Kept
<1>6. Solves(g)
  <2>. HIDE DEF Solves
  <2>. QED  BY <1>4
<1>. HIDE DEF g
<1>7. g[0] = << >> /\ \A k \in 1 .. N : g[k] = F(g, k)
  <2>. HIDE DEF F
  <2>1. \A k \in 0 .. N : g[k] = F(g, k)
    BY <1>6
  <2>2. 0 \in 0 .. N /\ \A k \in 1 .. N : k \in 0 .. N
    BY <1>1
  <2>3. F(g, 0) = << >>
    BY DEF F
  <2>. QED  BY <2>1, <2>2, <2>3
<1>8. \A k \in 1 .. N : g[k - 1] \in X => g[k] \in X
  <2>. SUFFICES ASSUME NEW k \in 1 .. N, g[k - 1] \in X PROVE g[k] \in X
    OBVIOUS
  <2>1. g[k] = IF k \in I THEN Append(g[k - 1], s[k]) ELSE g[k - 1]
    BY <1>1, <1>7
  <2>. HIDE DEF X
  <2>. QED  BY <1>3, <2>1
<1>9. N \in 0 .. N /\ \A k \in 0 .. N : g[k] \in X
  <2>1. N \in Nat /\ N \in 0 .. N /\ g[0] \in X
    BY <1>1, <1>2, <1>7
  <2>. HIDE DEF X, N
  <2>. QED  BY <1>8, <2>1, PrefixInduction
<1>. QED  BY <1>5, <1>7, <1>9 DEF Steps

\* Of a sequence Kept keeps only elements at places in I.
LEMMA KeptType ==
    ASSUME NEW T, NEW s \in Seq(T), NEW I, NEW S,
           \A k \in DOMAIN s : k \in I => s[k] \in S
    PROVE  Kept(s, I) \in Seq(S)
<1>1. PICK g : Steps(g, s, I, S) /\ Kept(s, I) = g[Len(s)]
  BY KeptSteps
<1>2. Len(s) \in 0 .. Len(s)
  BY LenProperties
<1>. QED  BY <1>1, <1>2 DEF Steps

\* And it keeps every one of them.
LEMMA KeptAll ==
    ASSUME NEW T, NEW s \in Seq(T), NEW I, NEW k \in DOMAIN s, k \in I
    PROVE  \E i \in DOMAIN Kept(s, I) : Kept(s, I)[i] = s[k]
<1>. DEFINE N == Len(s)
            Holds(q) == \E i \in DOMAIN q : q[i] = s[k]
<1>1. N \in Nat /\ DOMAIN s = 1 .. N /\ \A j \in 1 .. N : s[j] \in T
  BY LenProperties, ElementOfSeq
<1>2. PICK g : Steps(g, s, I, T) /\ Kept(s, I) = g[N]
  BY <1>1, KeptSteps
<1>3. ASSUME NEW j \in 1 .. N PROVE g[j - 1] \in Seq(T) /\ g[j] \in Seq(T)
  BY <1>1, <1>2 DEF Steps
<1>4. Holds(g[k])
  <2>1. g[k] = Append(g[k - 1], s[k]) /\ g[k - 1] \in Seq(T)
    BY <1>1, <1>2, <1>3 DEF Steps
  <2>2. /\ Len(g[k - 1]) + 1 \in DOMAIN Append(g[k - 1], s[k])
        /\ Append(g[k - 1], s[k])[Len(g[k - 1]) + 1] = s[k]
    BY <1>1, <2>1, AppendProperties, LenProperties
  <2>. QED  BY <2>1, <2>2
<1>5. ASSUME NEW j \in 1 .. N, Holds(g[j - 1]) PROVE Holds(g[j])
  <2>1. g[j] = IF j \in I THEN Append(g[j - 1], s[j]) ELSE g[j - 1]
    BY <1>2 DEF Steps
  <2>2. PICK i \in DOMAIN g[j - 1] : g[j - 1][i] = s[k]
    BY <1>5
  <2>3. g[j - 1] \in Seq(T) /\ s[j] \in T
    BY <1>1, <1>3
  <2>4. i \in DOMAIN Append(g[j - 1], s[j]) /\ Append(g[j - 1], s[j])[i] = s[k]
    BY <2>2, <2>3, AppendProperties, LenProperties
  <2>. QED  BY <2>1, <2>2, <2>4
<1>. DEFINE M    == N - k
            f    == [n \in 0 .. M |-> Holds(g[k + n])]
            Yes  == {TRUE}
<1>6. M \in Nat /\ k \in 1 .. N
  BY <1>1
<1>7. f[0] \in Yes
  BY <1>4, <1>6
<1>8. \A n \in 1 .. M : f[n - 1] \in Yes => f[n] \in Yes
  <2>. SUFFICES ASSUME NEW n \in 1 .. M, f[n - 1] PROVE f[n]
    BY <1>6
  <2>1. k + n \in 1 .. N /\ (k + n) - 1 = k + (n - 1) /\ n - 1 \in 0 .. M /\ n \in 0 .. M
    BY <1>6
  <2>2. Holds(g[(k + n) - 1])
    BY <2>1
  <2>. HIDE DEF Holds
  <2>3. Holds(g[k + n])
    BY <1>5, <2>1, <2>2
  <2>. QED  BY <2>1, <2>3
<1>9. f[M] \in Yes
  <2>1. M \in 0 .. M
    BY <1>6
  <2>. HIDE DEF f, M, Yes
  <2>. QED  BY <1>6, <1>7, <1>8, <2>1, PrefixInduction
<1>10. k + M = N /\ M \in 0 .. M
  BY <1>6
<1>. HIDE DEF Holds, M
<1>11. Holds(g[N])
  BY <1>9, <1>10
<1>. QED  BY <1>2, <1>11 DEF Holds

\* The sequences FlattenSeq goes through, each the one before with the next part
\* behind it.
Joins(g, seqs, S) ==
    /\ g[1] = seqs[1]
    /\ \A k \in 2 .. Len(seqs) : g[k] = g[k - 1] \o seqs[k]
    /\ \A k \in 1 .. Len(seqs) : g[k] \in Seq(S)

LEMMA FlattenSteps ==
    ASSUME NEW S, NEW seqs \in Seq(Seq(S)), Len(seqs) # 0
    PROVE  \E g : Joins(g, seqs, S) /\ FlattenSeq(seqs) = g[Len(seqs)]
<1>. DEFINE N == Len(seqs)
            F(f, k) == IF k = 1 THEN seqs[k] ELSE f[k - 1] \o seqs[k]
            Solves(f) == f = [k \in 1 .. N |-> F(f, k)]
            X == Seq(S)
<1>0. N \in Nat /\ N # 0 /\ DOMAIN seqs = 1 .. N /\ \A k \in 1 .. N : seqs[k] \in X
  BY LenProperties, ElementOfSeq
<1>1. \A t \in X : \A k \in 1 .. N : t \o seqs[k] \in X
  BY <1>0, ConcatProperties
<1>2. \E f : Solves(f)
  <2>. DEFINE M == N - 1
              step == [k \in 1 .. M |-> [t \in X |-> t \o seqs[k + 1]]]
  <2>0. M \in Nat /\ \A k \in 1 .. M : k + 1 \in 1 .. N
    BY <1>0
  <2>1. step \in [1 .. M -> [X -> X]] /\ seqs[1] \in X
    BY <1>0, <1>1, <2>0
  <2>2. \E f \in [0 .. M -> X] : f[0] = seqs[1] /\ \A k \in 1 .. M : f[k] = step[k][f[k - 1]]
    <3>. DEFINE b == seqs[1]
    <3>1. b \in X /\ step \in [1 .. M -> [X -> X]] /\ M \in Nat
      BY <2>0, <2>1
    <3>2. \E f : Follows(f, M, X, b, step)
      <4>. HIDE DEF step, X, M, b
      <4>. QED  BY <3>1, PrefixRecursion
    <3>. QED  BY <3>2 DEF Follows
  <2>3. PICK f \in [0 .. M -> X] :
           f[0] = seqs[1] /\ \A k \in 1 .. M : f[k] = step[k][f[k - 1]]
    BY <2>2
  <2>. DEFINE h == [k \in 1 .. N |-> f[k - 1]]
  <2>4. ASSUME NEW k \in 1 .. N PROVE h[k] = F(h, k)
    <3>1. CASE k = 1
      BY <2>3, <3>1
    <3>2. CASE k # 1
      <4>1. k - 1 \in 1 .. M /\ (k - 1) - 1 \in 0 .. M /\ k - 1 \in 1 .. N /\ (k - 1) + 1 = k
        BY <1>0, <3>2
      <4>2. f[(k - 1) - 1] \in X /\ f[k - 1] = step[k - 1][f[(k - 1) - 1]]
        BY <2>3, <4>1
      <4>3. f[k - 1] = f[(k - 1) - 1] \o seqs[k]
        BY <4>1, <4>2
      <4>4. h[k] = f[k - 1] /\ h[k - 1] = f[(k - 1) - 1]
        BY <4>1
      <4>. HIDE DEF h
      <4>. QED  BY <3>2, <4>3, <4>4
    <3>. QED  BY <3>1, <3>2
  <2>5. h = [k \in 1 .. N |-> F(h, k)]
    <3>. HIDE DEF F
    <3>. QED  BY <2>4
  <2>. HIDE DEF h
  <2>. QED  BY <2>5
<1>. DEFINE g == CHOOSE f : Solves(f)
<1>3. FlattenSeq(seqs) = g[N]
  BY <1>0 DEF FlattenSeq
<1>4. Solves(g)
  <2>. HIDE DEF Solves
  <2>. QED  BY <1>2
<1>. HIDE DEF g
<1>5. \A k \in 1 .. N : g[k] = F(g, k)
  <2>. HIDE DEF F
  <2>. QED  BY <1>4
<1>. DEFINE e == [k \in 0 .. N - 1 |-> g[k + 1]]
<1>6. e[0] \in X
  BY <1>0, <1>5
<1>7. \A k \in 1 .. N - 1 : e[k - 1] \in X => e[k] \in X
  <2>. SUFFICES ASSUME NEW k \in 1 .. N - 1, e[k - 1] \in X PROVE e[k] \in X
    OBVIOUS
  <2>1. k + 1 \in 1 .. N /\ k + 1 # 1 /\ (k + 1) - 1 = k /\ (k - 1) + 1 = k
    BY <1>0
  <2>2. e[k] = g[k + 1] /\ e[k - 1] = g[k]
    BY <1>0, <2>1
  <2>3. g[k + 1] = g[k] \o seqs[k + 1]
    BY <1>5, <2>1
  <2>. HIDE DEF X, e
  <2>. QED  BY <1>1, <2>1, <2>2, <2>3
<1>8. \A k \in 0 .. N - 1 : e[k] \in X
  <2>1. N - 1 \in Nat
    BY <1>0
  <2>. DEFINE M == N - 1
  <2>2. M \in Nat /\ e[0] \in X /\ \A k \in 1 .. M : e[k - 1] \in X => e[k] \in X
    BY <1>6, <1>7, <2>1
  <2>. HIDE DEF X, e, M
  <2>3. \A k \in 0 .. M : e[k] \in X
    BY <2>2, PrefixInduction
  <2>. QED  BY <2>3 DEF M
<1>9. \A k \in 1 .. N : g[k] \in X
  <2>. SUFFICES ASSUME NEW k \in 1 .. N PROVE g[k] \in X
    OBVIOUS
  <2>1. k - 1 \in 0 .. N - 1 /\ e[k - 1] = g[k]
    BY <1>0
  <2>. HIDE DEF X, e
  <2>. QED  BY <1>8, <2>1
<1>10. g[1] = seqs[1] /\ \A k \in 2 .. N : g[k] = g[k - 1] \o seqs[k]
  <2>1. 1 \in 1 .. N /\ \A k \in 2 .. N : k \in 1 .. N /\ k # 1
    BY <1>0
  <2>2. \A k \in 1 .. N : g[k] = IF k = 1 THEN seqs[k] ELSE g[k - 1] \o seqs[k]
    BY <1>5
  <2>. QED  BY <2>1, <2>2
<1>. QED  BY <1>3, <1>9, <1>10 DEF Joins

\* Put one behind the other, sequences of elements of S give one.
LEMMA FlattenType ==
    ASSUME NEW S, NEW seqs \in Seq(Seq(S))
    PROVE  FlattenSeq(seqs) \in Seq(S)
<1>1. CASE Len(seqs) = 0
  <2>1. seqs = << >>
    BY <1>1, EmptySeq
  <2>. QED  BY <1>1, <2>1, EmptySeq DEF FlattenSeq
<1>2. CASE Len(seqs) # 0
  <2>1. PICK g : Joins(g, seqs, S) /\ FlattenSeq(seqs) = g[Len(seqs)]
    BY <1>2, FlattenSteps
  <2>2. Len(seqs) \in 1 .. Len(seqs)
    BY <1>2, LenProperties
  <2>. QED  BY <2>1, <2>2 DEF Joins
<1>. QED  BY <1>1, <1>2

\* And nothing of them is missing in it.
LEMMA FlattenAll ==
    ASSUME NEW S, NEW seqs \in Seq(Seq(S)), NEW k \in DOMAIN seqs, NEW i \in DOMAIN seqs[k]
    PROVE  \E j \in DOMAIN FlattenSeq(seqs) : FlattenSeq(seqs)[j] = seqs[k][i]
<1>. DEFINE N == Len(seqs)
            x == seqs[k][i]
            Holds(q) == \E j \in DOMAIN q : q[j] = x
<1>1. N \in Nat /\ DOMAIN seqs = 1 .. N /\ N # 0 /\ k \in 1 .. N
  BY LenProperties
<1>2. PICK g : Joins(g, seqs, S) /\ FlattenSeq(seqs) = g[N]
  BY <1>1, FlattenSteps
<1>3. \A j \in 1 .. N : g[j] \in Seq(S) /\ seqs[j] \in Seq(S)
  BY <1>1, <1>2, ElementOfSeq DEF Joins
<1>4. \A p, q \in Seq(S) :
         /\ Holds(p) => Holds(p \o q)
         /\ Holds(q) => Holds(p \o q)
  <2>. SUFFICES ASSUME NEW p \in Seq(S), NEW q \in Seq(S)
                PROVE  /\ Holds(p) => Holds(p \o q)
                       /\ Holds(q) => Holds(p \o q)
    OBVIOUS
  <2>. HIDE DEF x
  <2>1. /\ p \o q \in Seq(S) /\ Len(p) \in Nat /\ Len(q) \in Nat
        /\ Len(p \o q) = Len(p) + Len(q)
        /\ DOMAIN p = 1 .. Len(p) /\ DOMAIN q = 1 .. Len(q)
        /\ DOMAIN (p \o q) = 1 .. Len(p) + Len(q)
        /\ \A j \in 1 .. Len(p) + Len(q) :
              (p \o q)[j] = IF j <= Len(p) THEN p[j] ELSE q[j - Len(p)]
    BY ConcatProperties, LenProperties
  <2>. DEFINE r == p \o q
  <2>. HIDE DEF r
  <2>2. ASSUME NEW j \in DOMAIN p, p[j] = x PROVE Holds(r)
    <3>1. j \in DOMAIN r /\ r[j] = p[j]
      BY <2>1 DEF r
    <3>. QED  BY <2>2, <3>1
  <2>3. ASSUME NEW j \in DOMAIN q, q[j] = x PROVE Holds(r)
    <3>1. Len(p) + j \in DOMAIN r /\ r[Len(p) + j] = q[j]
      BY <2>1 DEF r
    <3>. QED  BY <2>3, <3>1
  <2>. QED  BY <2>2, <2>3 DEF r
<1>5. Holds(g[k])
  <2>1. Holds(seqs[k])
    OBVIOUS
  <2>2. CASE k = 1
    BY <1>2, <2>1, <2>2 DEF Joins
  <2>3. CASE k # 1
    <3>1. k \in 2 .. N /\ k - 1 \in 1 .. N
      BY <1>1, <2>3
    <3>2. g[k] = g[k - 1] \o seqs[k]
      BY <1>2, <3>1 DEF Joins
    <3>. HIDE DEF Holds
    <3>. QED  BY <1>1, <1>3, <1>4, <2>1, <3>1, <3>2
  <2>. QED  BY <2>2, <2>3
<1>6. ASSUME NEW j \in 2 .. N, Holds(g[j - 1]) PROVE Holds(g[j])
  <2>1. g[j] = g[j - 1] \o seqs[j]
    BY <1>2 DEF Joins
  <2>2. j \in 1 .. N /\ j - 1 \in 1 .. N
    BY <1>1
  <2>. HIDE DEF Holds
  <2>. QED  BY <1>3, <1>4, <1>6, <2>1, <2>2
<1>. DEFINE M == N - k
<1>7. /\ M \in Nat /\ 0 \in 0 .. M /\ k + 0 = k
      /\ \A n \in 1 .. M : /\ k + n \in 2 .. N /\ (k + n) - 1 = k + (n - 1)
                            /\ n - 1 \in 0 .. M /\ n \in 0 .. M
  <2>1. M \in Nat /\ 0 \in 0 .. M /\ k + 0 = k
    BY <1>1
  <2>2. ASSUME NEW n \in 1 .. M
        PROVE  /\ k + n \in 2 .. N /\ (k + n) - 1 = k + (n - 1)
               /\ n - 1 \in 0 .. M /\ n \in 0 .. M
    <3>1. k \in Int /\ N \in Int /\ n \in Int /\ 1 <= k /\ 1 <= n /\ n <= N - k
      BY <1>1
    <3>2. k + n \in 2 .. N
      BY <3>1
    <3>3. (k + n) - 1 = k + (n - 1)
      BY <3>1
    <3>4. n - 1 \in 0 .. M /\ n \in 0 .. M
      BY <3>1
    <3>. QED  BY <3>2, <3>3, <3>4
  <2>. QED  BY <2>1, <2>2
<1>. DEFINE f   == [n \in 0 .. M |-> Holds(g[k + n])]
            Yes == {TRUE}
<1>8. f[0] \in Yes
  <2>. HIDE DEF Holds, M
  <2>. QED  BY <1>5, <1>7
<1>9. \A n \in 1 .. M : f[n - 1] \in Yes => f[n] \in Yes
  <2>. HIDE DEF Holds, M
  <2>. SUFFICES ASSUME NEW n \in 1 .. M, f[n - 1] PROVE f[n]
    BY <1>7
  <2>1. k + n \in 2 .. N /\ (k + n) - 1 = k + (n - 1) /\ n - 1 \in 0 .. M /\ n \in 0 .. M
    BY <1>7
  <2>2. Holds(g[(k + n) - 1])
    BY <2>1
  <2>3. Holds(g[k + n])
    BY <1>6, <2>1, <2>2
  <2>. QED  BY <2>1, <2>3
<1>10. f[M] \in Yes
  <2>1. M \in 0 .. M
    BY <1>7
  <2>. HIDE DEF f, M, Yes
  <2>. QED  BY <1>7, <1>8, <1>9, <2>1, PrefixInduction
<1>11. k + M = N /\ M \in 0 .. M
  BY <1>1, <1>7
<1>. HIDE DEF Holds, M
<1>12. Holds(g[N])
  BY <1>10, <1>11
<1>. QED  BY <1>2, <1>12 DEF Holds

-----------------------------------------------------------------------------
(* Decoders: what they tell, as a set                                      *)

Option == [code : 0 .. 255, len : 0 .. 255, text : Seq(STRING) \cup {None}]
Name   == [labels : Seq(STRING), ended : {"root", "pointer", "cut"}]
Line   == [key : STRING, value : Seq(STRING) \cup {None}]

\* What the options say that the loop gets to.
DhcpSays(p) ==
    {TextSignal(FieldOf[p.options[k].code], p.options[k].text) :
        k \in {j \in Reached(p) : /\ p.options[j].code \in DOMAIN FieldOf
                                  /\ p.options[j].text # None}}

\* What the scan reads of the names of a payload, and what of it says something.
Readings(names) ==
    UNION {{ReadName(names[k], i) : i \in DOMAIN names[k].labels} : k \in DOMAIN names}
Telling(names) ==
    {n \in Readings(names) : n # None /\ IsInteresting(n) /\ (IsService(n) \/ IsHost(n))}
MdnsSays(names) ==
    {IF IsService(n) THEN ServiceSignal(n) ELSE TextSignal("hostname", Front(n)) :
        n \in Telling(names)}

\* What the lines of a banner say.
SsdpSays(lines) ==
    {ServiceSignal(IF lines[k].key = "SERVER" THEN <<"server=">> \o lines[k].value
                   ELSE lines[k].value) :
        k \in {j \in DOMAIN lines : /\ lines[j].value # None
                                    /\ lines[j].key \in {"SERVER", "NT", "ST"}}}

\* What an event says, whatever the order.
Says(ev) ==
    IF ev.kind = "Dhcp" THEN DhcpSays(ev.payload)
    ELSE IF ev.kind = "Mdns" THEN MdnsSays(ev.payload)
    ELSE IF ev.kind = "Ssdp" THEN SsdpSays(ev.payload)
    ELSE {Seen}

\* Kept keeps the elements at places in I, and no others.
LEMMA KeptSet ==
    ASSUME NEW T, NEW s \in Seq(T), NEW I \in SUBSET DOMAIN s
    PROVE  /\ DOMAIN Kept(s, I) = 1 .. Len(Kept(s, I))
           /\ ToSet(Kept(s, I)) = {s[k] : k \in I}
<1>. DEFINE S == {s[k] : k \in I}
            q == Kept(s, I)
<1>1. q \in Seq(S)
  <2>1. \A k \in DOMAIN s : k \in I => s[k] \in S
    OBVIOUS
  <2>. HIDE DEF S
  <2>. QED  BY <2>1, KeptType
<1>2. ASSUME NEW k \in I PROVE s[k] \in ToSet(q)
  <2>1. \E i \in DOMAIN Kept(s, I) : Kept(s, I)[i] = s[k]
    BY KeptAll
  <2>. QED  BY <2>1 DEF ToSet
<1>. HIDE DEF S, q
<1>3. DOMAIN q = 1 .. Len(q) /\ \A i \in DOMAIN q : q[i] \in S
  BY <1>1, LenProperties, ElementOfSeq
<1>4. ToSet(q) \subseteq S
  BY <1>3 DEF ToSet
<1>. QED  BY <1>2, <1>3, <1>4 DEF S, q

\* The first occurrence of an element of a sequence.
LEMMA FirstOccurrence ==
    ASSUME NEW T, NEW s \in Seq(T), NEW n \in ToSet(s)
    PROVE  \E k \in DOMAIN s : s[k] = n /\ \A j \in 1 .. k - 1 : s[j] # n
<1>. DEFINE At == {k \in DOMAIN s : s[k] = n}
<1>1. DOMAIN s = 1 .. Len(s) /\ Len(s) \in Nat
  BY LenProperties
<1>2. At \in SUBSET Nat /\ At # {}
  BY <1>1 DEF ToSet
<1>3. PICK k \in At : \A j \in At : k <= j
  <2>. HIDE DEF At
  <2>. QED  BY <1>2, LeastNatural
<1>4. ASSUME NEW j \in 1 .. k - 1, s[j] = n PROVE FALSE
  <2>1. j \in At /\ ~ (k <= j)
    BY <1>1, <1>4
  <2>. QED  BY <1>3, <2>1
<1>. QED  BY <1>3, <1>4

\* dhcp.rs: of what the copy has before the end marker every option with a field
\* becomes a signal, and nothing else does.
LEMMA DhcpTells ==
    ASSUME NEW p, p.options \in Seq(Option)
    PROVE  ToSet(DhcpDecode(p)) = DhcpSays(p)
<1>. DEFINE I == {j \in Reached(p) : /\ p.options[j].code \in DOMAIN FieldOf
                                     /\ p.options[j].text # None}
            told == Kept(p.options, I)
            Sig(o) == TextSignal(FieldOf[o.code], o.text)
<1>1. DhcpDecode(p) = [i \in DOMAIN told |-> Sig(told[i])]
  BY DEF DhcpDecode
<1>2. ToSet(told) = {p.options[k] : k \in I}
  <2>1. I \in SUBSET DOMAIN p.options
    BY DEF Reached
  <2>. DEFINE q == p.options
  <2>2. q \in Seq(Option) /\ I \in SUBSET DOMAIN q
    BY <2>1
  <2>3. ToSet(Kept(q, I)) = {q[k] : k \in I}
    <3>. HIDE DEF q, I
    <3>. QED  BY <2>2, KeptSet
  <2>. QED  BY <2>3
<1>3. DhcpSays(p) = {Sig(p.options[k]) : k \in I}
  BY DEF DhcpSays
<1>. HIDE DEF told, I, Sig
<1>4. ToSet(DhcpDecode(p)) = {Sig(o) : o \in ToSet(told)}
  BY <1>1 DEF ToSet
<1>. QED  BY <1>2, <1>3, <1>4

\* dns.rs and mdns.rs: every name that can be read, says something and is a
\* service type or a host becomes a signal, and nothing else does.
LEMMA MdnsTells ==
    ASSUME NEW names \in Seq(Name)
    PROVE  ToSet(MdnsDecode(names)) = MdnsSays(names)
<1>. DEFINE S1 == Readings(names)
            all == Candidates(names)
<1>1. all \in Seq(S1) /\ ToSet(all) = S1
  <2>. DEFINE Read(j) == [i \in DOMAIN names[j].labels |-> ReadName(names[j], i)]
              read == [j \in DOMAIN names |-> Read(j)]
  <2>1. ASSUME NEW j \in DOMAIN names
        PROVE  Read(j) \in Seq(S1) /\ DOMAIN Read(j) = DOMAIN names[j].labels
    <3>1. names[j] \in Name
      BY ElementOfSeq, LenProperties
    <3>2. names[j].labels \in Seq(STRING)
      BY <3>1 DEF Name
    <3>3. DOMAIN names[j].labels = 1 .. Len(names[j].labels) /\ Len(names[j].labels) \in Nat
      BY <3>2, LenProperties
    <3>4. \A i \in 1 .. Len(names[j].labels) : ReadName(names[j], i) \in S1
      BY <3>3 DEF Readings
    <3>. HIDE DEF S1
    <3>5. [i \in 1 .. Len(names[j].labels) |-> ReadName(names[j], i)] \in Seq(S1)
      BY <3>3, <3>4, IsASeq
    <3>. QED  BY <3>3, <3>5
  <2>2. DOMAIN names = 1 .. Len(names) /\ Len(names) \in Nat
    BY LenProperties
  <2>3. read \in Seq(Seq(S1)) /\ DOMAIN read = DOMAIN names
    <3>. HIDE DEF S1
    <3>1. \A j \in 1 .. Len(names) : Read(j) \in Seq(S1)
      BY <2>1, <2>2
    <3>. HIDE DEF Read
    <3>2. [j \in 1 .. Len(names) |-> Read(j)] \in Seq(Seq(S1))
      BY <2>2, <3>1, IsASeq
    <3>. QED  BY <2>2, <3>2
  <2>4. all = FlattenSeq(read)
    BY DEF Candidates
  <2>5. \A j \in DOMAIN names : read[j] = Read(j)
    OBVIOUS
  <2>6. \A j \in DOMAIN names : \A i \in DOMAIN names[j].labels :
           Read(j)[i] = ReadName(names[j], i)
    OBVIOUS
  <2>. HIDE DEF read, S1, all, Read
  <2>7. all \in Seq(S1)
    BY <2>3, <2>4, FlattenType
  <2>8. ToSet(all) \subseteq S1
    BY <2>7, ElementOfSeq, LenProperties DEF ToSet
  <2>9. ASSUME NEW n \in S1 PROVE n \in ToSet(all)
    <3>1. PICK j \in DOMAIN names :
             n \in {ReadName(names[j], i) : i \in DOMAIN names[j].labels}
      BY DEF S1, Readings
    <3>2. PICK i \in DOMAIN names[j].labels : n = ReadName(names[j], i)
      BY <3>1
    <3>3. j \in DOMAIN read /\ i \in DOMAIN read[j] /\ read[j][i] = n
      BY <2>1, <2>3, <2>5, <2>6, <3>2
    <3>4. \E l \in DOMAIN FlattenSeq(read) : FlattenSeq(read)[l] = read[j][i]
      BY <2>3, <3>3, FlattenAll
    <3>. QED  BY <2>4, <3>3, <3>4 DEF ToSet
  <2>. QED  BY <2>7, <2>8, <2>9
<1>. DEFINE Good(n) == n # None /\ IsInteresting(n)
            I == {k \in DOMAIN all : /\ all[k] # None /\ IsInteresting(all[k])
                                     /\ \A i \in 1 .. k - 1 : all[i] # all[k]}
            found == ExtractNames(names)
            S2 == {n \in S1 : Good(n)}
<1>2. found = Kept(all, I)
  BY DEF ExtractNames
<1>3. ToSet(found) = S2 /\ found \in Seq(S2)
  <2>1. I \in SUBSET DOMAIN all
    OBVIOUS
  <2>2. \A k \in I : all[k] \in S2
    <3>1. \A k \in DOMAIN all : all[k] \in S1
      <4>. HIDE DEF all, S1
      <4>. QED  BY <1>1, ElementOfSeq, LenProperties
    <3>. HIDE DEF all, S1
    <3>. QED  BY <3>1
  <2>3. ASSUME NEW n \in S2 PROVE \E k \in I : all[k] = n
    <3>1. n \in ToSet(all) /\ Good(n)
      BY <1>1
    <3>2. PICK k \in DOMAIN all : all[k] = n /\ \A j \in 1 .. k - 1 : all[j] # n
      <4>. HIDE DEF all, S1
      <4>. QED  BY <1>1, <3>1, FirstOccurrence
    <3>. HIDE DEF all
    <3>. QED  BY <3>1, <3>2
  <2>4. \A k \in DOMAIN all : k \in I => all[k] \in S2
    BY <2>2
  <2>. HIDE DEF all, I, S1, S2, found
  <2>5. ToSet(found) = {all[k] : k \in I}
    BY <1>1, <1>2, <2>1, KeptSet
  <2>6. found \in Seq(S2)
    BY <1>1, <1>2, <2>4, KeptType
  <2>. QED  BY <2>2, <2>3, <2>5, <2>6
<1>. DEFINE J == {j \in DOMAIN found : IsService(found[j]) \/ IsHost(found[j])}
            told == Kept(found, J)
            Sig(n) == IF IsService(n) THEN ServiceSignal(n)
                      ELSE TextSignal("hostname", Front(n))
<1>4. ToSet(told) = Telling(names)
  <2>1. J \in SUBSET DOMAIN found
    OBVIOUS
  <2>2. Telling(names) = {n \in S2 : IsService(n) \/ IsHost(n)}
    BY DEF Telling
  <2>. HIDE DEF S2, found
  <2>3. {found[j] : j \in J} = {n \in ToSet(found) : IsService(n) \/ IsHost(n)}
    BY DEF ToSet
  <2>. HIDE DEF J
  <2>4. ToSet(told) = {found[j] : j \in J}
    BY <1>3, <2>1, KeptSet
  <2>. QED  BY <1>3, <2>2, <2>3, <2>4
<1>5. MdnsDecode(names) = [i \in DOMAIN told |-> Sig(told[i])]
  BY DEF MdnsDecode
<1>6. MdnsSays(names) = {Sig(n) : n \in Telling(names)}
  BY DEF MdnsSays
<1>. HIDE DEF told, Sig
<1>7. ToSet(MdnsDecode(names)) = {Sig(n) : n \in ToSet(told)}
  BY <1>5 DEF ToSet
<1>. QED  BY <1>4, <1>6, <1>7

\* ssdp.rs: the values of three headers, and no others.
LEMMA SsdpTells ==
    ASSUME NEW lines \in Seq(Line)
    PROVE  ToSet(SsdpDecode(lines)) = SsdpSays(lines)
<1>. DEFINE I == {j \in DOMAIN lines : /\ lines[j].value # None
                                       /\ lines[j].key \in {"SERVER", "NT", "ST"}}
            told == Kept(lines, I)
            Sig(l) == ServiceSignal(IF l.key = "SERVER" THEN <<"server=">> \o l.value
                                    ELSE l.value)
<1>1. SsdpDecode(lines) = [i \in DOMAIN told |-> Sig(told[i])]
  BY DEF SsdpDecode
<1>2. ToSet(told) = {lines[k] : k \in I}
  <2>1. I \in SUBSET DOMAIN lines
    OBVIOUS
  <2>. HIDE DEF I
  <2>. QED  BY <2>1, KeptSet
<1>3. SsdpSays(lines) = {Sig(lines[k]) : k \in I}
  BY DEF SsdpSays
<1>. HIDE DEF told, I, Sig
<1>4. ToSet(SsdpDecode(lines)) = {Sig(l) : l \in ToSet(told)}
  BY <1>1 DEF ToSet
<1>. QED  BY <1>2, <1>3, <1>4

\* The decoders tell what the event says.
LEMMA SignalsAreSaid ==
    ASSUME NEW ev \in Events
    PROVE  ToSet(SignalsOf(ev)) = Says(ev)
<1>1. CASE ev.kind = "Dhcp"
  <2>. DEFINE p == ev.payload
  <2>1. SignalsOf(ev) = DhcpDecode(p) /\ Says(ev) = DhcpSays(p)
    BY <1>1 DEF SignalsOf, Says
  <2>2. p.options \in Seq(Option)
    BY <1>1, FrameAssumption DEF Option
  <2>. HIDE DEF p
  <2>. QED  BY <2>1, <2>2, DhcpTells
<1>2. CASE ev.kind = "Mdns"
  <2>. DEFINE names == ev.payload
  <2>1. SignalsOf(ev) = MdnsDecode(names) /\ Says(ev) = MdnsSays(names)
    BY <1>2 DEF SignalsOf, Says
  <2>2. names \in Seq(Name)
    BY <1>2, FrameAssumption DEF Name
  <2>. HIDE DEF names
  <2>. QED  BY <2>1, <2>2, MdnsTells
<1>3. CASE ev.kind = "Ssdp"
  <2>. DEFINE lines == ev.payload
  <2>1. SignalsOf(ev) = SsdpDecode(lines) /\ Says(ev) = SsdpSays(lines)
    BY <1>3 DEF SignalsOf, Says
  <2>2. lines \in Seq(Line)
    BY <1>3, FrameAssumption DEF Line
  <2>. HIDE DEF lines
  <2>. QED  BY <2>1, <2>2, SsdpTells
<1>4. CASE ev.kind \notin {"Dhcp", "Mdns", "Ssdp"}
  <2>1. SignalsOf(ev) = <<Seen>> /\ Says(ev) = {Seen}
    BY <1>4 DEF SignalsOf, Says
  <2>2. DOMAIN <<Seen>> = {1} /\ <<Seen>>[1] = Seen
    OBVIOUS
  <2>. QED  BY <2>1, <2>2 DEF ToSet
<1>. QED  BY <1>1, <1>2, <1>3, <1>4

SaidBy(ev, seq) ==
    /\ {seq[i].signal : i \in DOMAIN seq} = Says(ev)
    /\ \A i \in DOMAIN seq : seq[i].mac = ev.src_mac /\ seq[i].ip = ev.src_ip

LEMMA ReceivedIsSaid ==
    \A ev \in Events, t \in Time : ReceiveEvent(ev, t) => SaidBy(ev, frame')
<1>1. ASSUME NEW ev \in Events PROVE SaidBy(ev, Decode(ev))
  <2>1. Decode(ev) = [i \in DOMAIN SignalsOf(ev) |->
            [mac |-> ev.src_mac, ip |-> ev.src_ip, signal |-> SignalsOf(ev)[i]]]
    BY DiscoveryAssumption DEF DecodeEvent
  <2>2. {Decode(ev)[i].signal : i \in DOMAIN Decode(ev)} = ToSet(SignalsOf(ev))
    BY <2>1 DEF ToSet
  <2>. QED  BY <2>1, <2>2, SignalsAreSaid DEF SaidBy
<1>2. ASSUME NEW ev \in Events, NEW t \in Time, ReceiveEvent(ev, t) PROVE SaidBy(ev, frame')
  <2>1. frame' = Decode(ev)
    BY <1>2 DEF ReceiveEvent, Resume
  <2>. QED  BY <1>1, <2>1 DEF SaidBy
<1>. QED  BY <1>2

\* What is taken up with an event is everything it says, of each option before the
\* kernel's cut and the end marker, each readable suffix of a name, each header,
\* as its sender's, and nothing it does not say.
THEOREM FramesAreTakenUpWhole ==
    Spec => [][\A ev \in Events, t \in Time : ReceiveEvent(ev, t) => SaidBy(ev, frame')]_vars
  BY ReceivedIsSaid, PTL

\* What DhcpOptionsArrive finds violated holds of frames whose options fit into
\* the kernel's copy: only the cut loses options.
THEOREM FittingOptionsArrive ==
    ASSUME \A ev \in Events : ev.kind = "Dhcp" =>
               \A k \in DOMAIN ev.payload.options :
                   UpTo(ev.payload.options, k) <= Room(ev.payload)
    PROVE  Spec => DhcpOptionsArrive
<1>1. ASSUME NEW ev \in Events, NEW t \in Time, ReceiveEvent(ev, t), ev.kind = "Dhcp",
             NEW k \in DOMAIN ev.payload.options,
             ev.payload.options[k].code \in DOMAIN FieldOf,
             ev.payload.options[k].text # None,
             \A j \in 1 .. k : ev.payload.options[j].code # OPT_END
      PROVE  \E i \in DOMAIN frame' :
                frame'[i].signal = TextSignal(FieldOf[ev.payload.options[k].code],
                                              ev.payload.options[k].text)
  <2>. DEFINE sig == TextSignal(FieldOf[ev.payload.options[k].code], ev.payload.options[k].text)
  <2>1. k \in Reached(ev.payload)
    BY <1>1 DEF Reached
  <2>2. sig \in DhcpSays(ev.payload)
    BY <1>1, <2>1 DEF DhcpSays
  <2>. HIDE DEF sig
  <2>3. sig \in Says(ev)
    BY <1>1, <2>2 DEF Says
  <2>4. {frame'[i].signal : i \in DOMAIN frame'} = Says(ev)
    BY <1>1, ReceivedIsSaid DEF SaidBy
  <2>5. \E i \in DOMAIN frame' : frame'[i].signal = sig
    BY <2>3, <2>4
  <2>. QED  BY <2>5 DEF sig
<1>2. \A ev \in Events, t \in Time :
         ReceiveEvent(ev, t) /\ ev.kind = "Dhcp" =>
             LET options == ev.payload.options IN
             \A k \in DOMAIN options :
                 /\ options[k].code \in DOMAIN FieldOf /\ options[k].text # None
                 /\ \A j \in 1 .. k : options[j].code # OPT_END
                 => \E i \in DOMAIN frame' :
                       frame'[i].signal = TextSignal(FieldOf[options[k].code], options[k].text)
  BY <1>1
<1>. QED  BY <1>2, PTL DEF DhcpOptionsArrive

-----------------------------------------------------------------------------
(* Hostnames                                                               *)

\* A name read under .local that is no service type and begins like a host has
\* no label with an underscore, if the name it was read from has such labels in
\* service types only.
LEMMA HostNames ==
    ASSUME NEW ev \in Events, ev.kind = "Mdns", NEW n \in Readings(ev.payload),
           n # None, IsInteresting(n), ~ IsService(n), IsHost(n)
    PROVE  NamesHost(ev, Front(n))
<1>. DEFINE names == ev.payload
<1>1. names \in Seq(Name)
  BY FrameAssumption DEF Name
<1>2. PICK k \in DOMAIN names : n \in {ReadName(names[k], i) : i \in DOMAIN names[k].labels}
  BY DEF Readings
<1>3. PICK i \in DOMAIN names[k].labels : n = ReadName(names[k], i)
  BY <1>2
<1>. DEFINE ls == names[k].labels
            L == Len(ls)
<1>4. names[k] \in ToSet(names) /\ names[k] \in Name
  BY <1>1, ElementOfSeq, LenProperties DEF ToSet
<1>5. ls \in Seq(STRING) /\ L \in Nat /\ DOMAIN ls = 1 .. L
  BY <1>4, LenProperties DEF Name
<1>6. n = SubSeq(ls, i, L)
  BY <1>3 DEF ReadName
<1>7. i \in 1 .. L
  BY <1>5
<1>8. WellNamed(names[k]) => \A j \in 1 .. L : ls[j] \in Underscored =>
                                \E l \in j .. L : ls[l] \in {"_tcp", "_udp"}
  BY <1>5 DEF WellNamed
<1>. HIDE DEF names, ls, L
<1>9. /\ n \in Seq(STRING) /\ Len(n) = L - i + 1
      /\ \A j \in 1 .. Len(n) : n[j] = ls[i + j - 1]
  BY <1>5, <1>6, <1>7, SubSeqProperties
<1>. DEFINE h == Front(n)
<1>10. Len(n) \in Nat /\ Len(n) > 1 /\ n[Len(n)] = "local"
  BY <1>5, <1>7, <1>9 DEF IsInteresting, Last
<1>11. /\ h \in Seq(STRING) /\ Len(h) = Len(n) - 1
       /\ \A j \in 1 .. Len(h) : h[j] = n[j]
  <2>1. h = SubSeq(n, 1, Len(n) - 1)
    BY DEF Front
  <2>2. 1 \in 1 .. Len(n) + 1 /\ Len(n) - 1 \in 0 .. Len(n)
    BY <1>10
  <2>. HIDE DEF h
  <2>. QED  BY <1>9, <1>10, <2>1, <2>2, SubSeqProperties
<1>. HIDE DEF h
<1>12. Append(h, "local") = n
  <2>0. "local" \in STRING
    <3>1. n[Len(n)] \in STRING
      BY <1>9, <1>10, ElementOfSeq
    <3>. QED  BY <1>10, <3>1
  <2>1. /\ Append(h, "local") \in Seq(STRING) /\ Len(Append(h, "local")) = Len(h) + 1
        /\ \A j \in 1 .. Len(h) : Append(h, "local")[j] = h[j]
        /\ Append(h, "local")[Len(h) + 1] = "local"
    BY <1>11, <2>0, AppendProperties
  <2>2. Len(h) + 1 = Len(n)
    BY <1>10, <1>11
  <2>3. \A j \in 1 .. Len(n) : Append(h, "local")[j] = n[j]
    BY <1>10, <1>11, <2>1, <2>2
  <2>. DEFINE g == Append(h, "local")
  <2>4. g \in Seq(STRING) /\ Len(g) = Len(n) /\ \A j \in 1 .. Len(g) : g[j] = n[j]
    BY <2>1, <2>2, <2>3
  <2>. HIDE DEF g
  <2>5. g = n
    BY <1>9, <2>4, SeqEqual
  <2>. QED  BY <2>5 DEF g
<1>13. n \in Suffixes(ls)
  BY <1>6, <1>7 DEF Suffixes, L
<1>14. ASSUME WellNamed(names[k]), NEW j \in DOMAIN h, h[j] \in Underscored PROVE FALSE
  <2>1. j \in 1 .. Len(h) /\ j \in 1 .. Len(n) /\ n[j] \in Underscored
    BY <1>10, <1>11, <1>14, LenProperties
  <2>2. j # 1
    BY <2>1 DEF IsHost
  <2>3. i + j - 1 \in 1 .. L /\ ls[i + j - 1] \in Underscored
    BY <1>5, <1>7, <1>9, <2>1
  <2>4. PICK l \in (i + j - 1) .. L : ls[l] \in {"_tcp", "_udp"}
    BY <1>8, <1>14, <2>3
  <2>. DEFINE p == l - i + 1
  <2>5. p \in 2 .. Len(n) /\ p \in 1 .. Len(n) /\ i + p - 1 = l
    BY <1>5, <1>7, <1>9, <2>1, <2>2, <2>4
  <2>6. n[p] \in {"_tcp", "_udp"}
    BY <1>9, <2>4, <2>5
  <2>. QED  BY <2>5, <2>6 DEF IsService
<1>15. Append(h, "local") \in Suffixes(names[k].labels)
  BY <1>12, <1>13 DEF ls
<1>16. h[1] \notin Underscored
  <2>1. 1 \in 1 .. Len(h) /\ h[1] = n[1]
    BY <1>10, <1>11
  <2>. QED  BY <2>1 DEF IsHost
<1>. QED  BY <1>4, <1>14, <1>15, <1>16 DEF NamesHost, h, names

\* One of the events of H has h as the name of a host and comes from m.
HeardFrom(H, m, h) == \E ev \in H : ev.src_mac = m /\ NamesHost(ev, h)

\* DHCP: a hostname is the text of an option 12 before the end marker.
LEMMA HostOptions ==
    ASSUME NEW ev \in Events, ev.kind = "Dhcp", NEW s \in DhcpSays(ev.payload),
           s.attr = "hostname"
    PROVE  NamesHost(ev, s.text)
<1>. DEFINE p == ev.payload
            I == {j \in Reached(p) : /\ p.options[j].code \in DOMAIN FieldOf
                                     /\ p.options[j].text # None}
<1>1. PICK j \in I : s = TextSignal(FieldOf[p.options[j].code], p.options[j].text)
  BY DEF DhcpSays
<1>2. /\ j \in DOMAIN p.options /\ p.options[j].code \in DOMAIN FieldOf
      /\ \A l \in 1 .. j : p.options[l].code # OPT_END
  BY DEF Reached
<1>3. s.text = p.options[j].text /\ FieldOf[p.options[j].code] = "hostname"
  BY <1>1 DEF TextSignal
<1>4. \A c \in DOMAIN FieldOf : FieldOf[c] = "hostname" => c = OPT_HOSTNAME
  BY DEF FieldOf, OPT_HOSTNAME, OPT_PARAM_REQUEST_LIST, OPT_VENDOR_CLASS
<1>5. p.options[j].code = OPT_HOSTNAME
  BY <1>2, <1>3, <1>4
<1>. QED  BY <1>2, <1>3, <1>5 DEF NamesHost

\* Every hostname an event says is one it has as the name of a host.
LEMMA HostnamesSaid ==
    ASSUME NEW ev \in Events, NEW s \in Says(ev), s.kind = "text", s.attr = "hostname"
    PROVE  NamesHost(ev, s.text)
<1>1. CASE ev.kind = "Dhcp"
  <2>1. s \in DhcpSays(ev.payload)
    BY <1>1 DEF Says
  <2>. QED  BY <1>1, <2>1, HostOptions
<1>2. CASE ev.kind = "Mdns"
  <2>1. s \in MdnsSays(ev.payload)
    BY <1>2 DEF Says
  <2>2. PICK n \in Telling(ev.payload) :
           s = IF IsService(n) THEN ServiceSignal(n) ELSE TextSignal("hostname", Front(n))
    BY <2>1 DEF MdnsSays
  <2>3. ~ IsService(n)
    <3>1. IsService(n) => s.kind = "service"
      BY <2>2 DEF ServiceSignal
    <3>. QED  BY <3>1
  <2>4. /\ n \in Readings(ev.payload) /\ n # None /\ IsInteresting(n)
        /\ IsHost(n) /\ s = TextSignal("hostname", Front(n))
    BY <2>2, <2>3 DEF Telling
  <2>5. NamesHost(ev, Front(n))
    BY <1>2, <2>3, <2>4, HostNames
  <2>. QED  BY <2>4, <2>5 DEF TextSignal
<1>3. CASE ev.kind = "Ssdp"
  <2>1. s \in SsdpSays(ev.payload)
    BY <1>3 DEF Says
  <2>2. s.kind = "service"
    BY <2>1 DEF SsdpSays, ServiceSignal
  <2>. QED  BY <2>2
<1>4. CASE ev.kind \notin {"Dhcp", "Mdns", "Ssdp"}
  BY <1>4 DEF Says, Seen
<1>. QED  BY <1>1, <1>2, <1>3, <1>4

\* So is every one that is decoded.
LEMMA HostnamesTold ==
    ASSUME NEW ev \in Events, NEW k \in DOMAIN Decode(ev), NEW o, o = Decode(ev)[k],
           o.signal.kind = "text", o.signal.attr = "hostname"
    PROVE  HeardFrom({ev}, o.mac, o.signal.text)
<1>. DEFINE sig == o.signal
<1>1. k \in DOMAIN SignalsOf(ev) /\ o.mac = ev.src_mac /\ sig = SignalsOf(ev)[k]
  <2>1. Decode(ev) = DecodeEvent(ev)
    BY DiscoveryAssumption
  <2>. QED  BY <2>1 DEF DecodeEvent
<1>2. sig \in Says(ev)
  BY <1>1, SignalsAreSaid DEF ToSet
<1>3. NamesHost(ev, sig.text)
  BY <1>2, HostnamesSaid
<1>. QED  BY <1>1, <1>3 DEF HeardFrom

\* So is what is still to be folded in.
FrameWasHeard ==
    \A i \in DOMAIN frame :
        frame[i].signal.kind = "text" /\ frame[i].signal.attr = "hostname" =>
            HeardFrom(heard, frame[i].mac, frame[i].signal.text)

HostInv == HostnamesAreHosts /\ FrameWasHeard

LEMMA HostInit == Init => HostInv
<1>. SUFFICES ASSUME Init PROVE HostInv
  OBVIOUS
<1>1. Devices = {} /\ frame = << >>
  BY DEF Init, Devices
<1>. QED  BY <1>1 DEF HostInv, HostnamesAreHosts, FrameWasHeard

LEMMA HostNext == TypeOK /\ Budget /\ HostInv /\ [Next]_vars => HostInv'
<1>. SUFFICES ASSUME TypeOK, Budget, HostInv, [Next]_vars PROVE HostInv'
  OBVIOUS
<1>. DEFINE Records(reg) ==
               \A m \in Mac : reg[m] # None /\ reg[m].texts["hostname"] # None =>
                                 HeardFrom(heard', m, reg[m].texts["hostname"])
<1>0. heard \subseteq heard'
  BY DEF Next, ReceiveEvent, SkipZeroMac, Sight, FlowOf, BudgetSpent, vars
<1>6. \A m, h : HeardFrom(heard, m, h) => HeardFrom(heard', m, h)
  BY <1>0 DEF HeardFrom
<1>1. Records(registry)
  <2>1. \A m \in Mac : registry[m] # None /\ registry[m].texts["hostname"] # None =>
                           HeardFrom(heard, m, registry[m].texts["hostname"])
    BY DEF HostInv, HostnamesAreHosts, Devices, HeardFrom
  <2>. QED  BY <1>6, <2>1
<1>2. "hostname" \in Attr \ {VendorField}
  BY DiscoveryAssumption
<1>3. frame # << >> /\ frame' = Tail(frame) => FrameWasHeard'
  <2>. SUFFICES ASSUME frame # << >>, frame' = Tail(frame), NEW i \in DOMAIN frame',
                       frame'[i].signal.kind = "text", frame'[i].signal.attr = "hostname"
                PROVE  HeardFrom(heard', frame'[i].mac, frame'[i].signal.text)
    BY DEF FrameWasHeard
  <2>1. /\ DOMAIN frame = 1 .. Len(frame) /\ DOMAIN frame' = 1 .. Len(frame) - 1
        /\ Len(frame) \in Nat
        /\ \A j \in 1 .. Len(frame) - 1 : Tail(frame)[j] = frame[j + 1]
    BY HeadTailProperties, LenProperties, EmptySeq DEF TypeOK
  <2>2. i + 1 \in DOMAIN frame /\ frame'[i] = frame[i + 1]
    BY <2>1
  <2>. QED  BY <1>6, <2>2 DEF HostInv, FrameWasHeard
<1>4. Records(registry') /\ FrameWasHeard'
  <2>1. ASSUME NEW ev \in Events, NEW t \in Time, ReceiveEvent(ev, t)
        PROVE  Records(registry') /\ FrameWasHeard'
    <3>1. registry' = registry /\ frame' = Decode(ev) /\ ev \in heard'
      BY <2>1 DEF ReceiveEvent, Resume
    <3>3. \A m, h : HeardFrom({ev}, m, h) => HeardFrom(heard', m, h)
      BY <3>1 DEF HeardFrom
    <3>2. FrameWasHeard'
      BY <3>1, <3>3, HostnamesTold DEF FrameWasHeard
    <3>. QED  BY <1>1, <3>1, <3>2
  <2>2. CASE SkipZeroMac
    BY <1>1, <1>3, <2>2 DEF SkipZeroMac, Resume
  <2>3. CASE Sight
    <3>. DEFINE o == Head(frame)
                m == o.mac
                d == Classified(Observe(registry[m], m, o.ip, o.signal, now))
    <3>1. /\ m \in Mac /\ o.ip \in Ip \cup {None} /\ o.signal \in Signal /\ now \in Time
          /\ registry[m] \in Device \cup {None}
      BY <2>3, HeadOfFrame DEF Sight, TypeOK
    <3>2. registry'[m] = d /\ \A x \in Mac \ {m} : registry'[x] = registry[x]
      BY <2>3, <3>1 DEF Sight, TypeOK
    <3>3. d.texts["hostname"] =
             IF o.signal.kind = "text" /\ o.signal.attr = "hostname" THEN o.signal.text
             ELSE IF registry[m] = None THEN None ELSE registry[m].texts["hostname"]
      <4>. DEFINE old == registry[m]
                  ip  == o.ip
                  sig == o.signal
      <4>1. old \in Device \cup {None} /\ ip \in Ip \cup {None} /\ sig \in Signal
        BY <3>1
      <4>2. d = Classified(Observe(old, m, ip, sig, now))
        OBVIOUS
      <4>. DEFINE a == "hostname"
      <4>3. a \in Attr \ {VendorField}
        BY <1>2
      <4>. HIDE DEF d, old, ip, sig, m, a
      <4>4. d.texts[a] = IF sig.kind = "text" /\ sig.attr = a THEN sig.text
                         ELSE IF old = None THEN None ELSE old.texts[a]
        BY <3>1, <4>1, <4>2, <4>3, ObserveTexts
      <4>. QED  BY <4>4 DEF old, sig, a
    <3>4. o.signal.kind = "text" /\ o.signal.attr = "hostname" =>
             HeardFrom(heard', m, o.signal.text)
      <4>1. 1 \in DOMAIN frame /\ frame[1] = o
        BY <2>3, HeadTailProperties, LenProperties, EmptySeq DEF Sight, TypeOK
      <4>. QED  BY <1>6, <4>1 DEF HostInv, FrameWasHeard
    <3>5. FrameWasHeard'
      BY <1>3, <2>3 DEF Sight, Resume
    <3>6. ASSUME NEW x \in Mac, registry'[x] # None, registry'[x].texts["hostname"] # None
          PROVE  HeardFrom(heard', x, registry'[x].texts["hostname"])
      <4>1. CASE x = m
        <5>. HIDE DEF d
        <5>. QED  BY <1>1, <3>1, <3>2, <3>3, <3>4, <3>6, <4>1
      <4>2. CASE x # m
        BY <1>1, <3>2, <3>6, <4>2
      <4>. QED  BY <4>1, <4>2
    <3>. QED  BY <3>5, <3>6
  <2>4. ASSUME NEW src \in Ip, NEW n \in FlowPackets, NEW t \in Time, FlowOf(src, n, t)
        PROVE  Records(registry') /\ FrameWasHeard'
    <3>1. frame = << >> /\ frame' = frame
      BY <2>4 DEF FlowOf
    <3>2. FrameWasHeard'
      BY <3>1 DEF FrameWasHeard
    <3>3. UNCHANGED registry
            \/ \E m \in Mac : /\ registry[m] # None
                              /\ registry' = [registry EXCEPT ![m] = registry'[m]]
                              /\ registry'[m].texts = registry[m].texts
      BY <2>4, FlowEffect
    <3>4. Records(registry')
      BY <1>1, <3>3 DEF TypeOK
    <3>. QED  BY <3>2, <3>4
  <2>5. CASE UNCHANGED vars
    <3>1. registry' = registry /\ frame' = frame
      BY <2>5 DEF vars
    <3>. QED  BY <1>1, <1>6, <3>1 DEF HostInv, FrameWasHeard
  <2>. QED  BY <2>1, <2>2, <2>3, <2>4, <2>5 DEF Next, BudgetSpent
<1>. HIDE DEF Records
<1>5. Records(registry') => HostnamesAreHosts'
  BY DEF Records, HostnamesAreHosts, Devices, HeardFrom
<1>. QED  BY <1>4, <1>5 DEF HostInv

\* Whatever frames arrive in whatever order, a device is only called by what a
\* frame received from it has as the name of a host, in any section of it; never
\* by a service type in passing.
THEOREM HostnamesWereHeard == Spec => []HostnamesAreHosts
<1>1. HostInv => HostnamesAreHosts
  BY DEF HostInv
<1>. QED  BY <1>1, HostInit, HostNext, TypeInit, TypeNext, PTL DEF Spec
=============================================================================
