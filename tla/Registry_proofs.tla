-------------------------- MODULE Registry_proofs --------------------------
(***************************************************************************)
(* What the operators of Registry return and preserve, for every value of  *)
(* its constants.  Pipeline_proofs cites these facts by name.              *)
(***************************************************************************)
EXTENDS Registry, SequenceTheorems, FiniteSetTheorems, TLAPS

\* "packets as i64" on the way into SQLite and "i64 as u64" on the way out
\* lose nothing, whatever the width of the counter.
LEMMA CounterRoundTrip ==
    /\ \A c \in Counter : ToI64(c) \in Signed /\ FromI64(ToI64(c)) = c
    /\ \A n \in Signed : FromI64(n) \in Counter
  BY RegistryAssumption DEF Counter, Signed, ToI64, FromI64

\* upsert_device followed by load_devices gives back the record.
THEOREM RowRoundTrip ==
    /\ \A d \in Device : ToRow(d) \in Row /\ FromRow(ToRow(d)) = d
    /\ \A row \in Row : FromRow(row) \in Device
  BY CounterRoundTrip DEF Device, Row, ToRow, FromRow

\* saturating_add stays within the counter's width and never goes down.
LEMMA SaturatingAddGrows ==
    \A c \in Counter, n \in Nat :
        SaturatingAdd(c, n) \in Counter /\ c <= SaturatingAdd(c, n)
  BY RegistryAssumption DEF Counter, SaturatingAdd

-----------------------------------------------------------------------------
\* A set of naturals with anything in it has a least element.
LEMMA LeastNatural ==
    ASSUME NEW T \in SUBSET Nat, T # {}
    PROVE  \E n \in T : \A k \in T : n <= k
<1>0. \A k \in T : k \in Nat
  OBVIOUS
<1>1. PICK R : IsWellFoundedOn(R, Nat) /\ \A x, y \in Nat : x < y => <<x, y>> \in R
  <2>1. IsWellFoundedOn(OpToRel(<, Nat), Nat)
    BY NatLessThanWellFounded
  <2>2. \A x, y \in Nat : x < y => <<x, y>> \in OpToRel(<, Nat)
    BY Zenon DEF OpToRel
  <2>. QED  BY <2>1, <2>2, Zenon
<1>2. PICK n \in T : \A k \in T : ~ (<<k, n>> \in R)
  <2>1. T \subseteq Nat
    OBVIOUS
  <2>2. IsWellFoundedOn(R, Nat)
    BY <1>1
  <2>. QED  BY <2>1, <2>2, WFMin
<1>3. ASSUME NEW k \in T PROVE n <= k
  <2>1. n \in Nat /\ k \in Nat
    BY <1>0
  <2>2. ~ (k < n)
    BY <1>1, <1>2, <2>1, Zenon
  <2>. QED  BY <2>1, <2>2
<1>. QED  BY <1>3

-----------------------------------------------------------------------------
\* push_ip yields a list that holds the old addresses and the new one, with
\* the new one at its end, there only, and the others in their old order.
LEMMA PushIpEffect ==
    ASSUME NEW ips \in Seq(Ip), NEW ip \in Ip
    PROVE  LET new == PushIp(ips, ip) IN
           /\ new \in Seq(Ip)
           /\ Len(new) > 0
           /\ new[Len(new)] = ip
           /\ \A i \in 1 .. Len(ips) : \E j \in 1 .. Len(new) : new[j] = ips[i]
           /\ \A j \in 1 .. Len(new) : new[j] = ip \/ \E i \in 1 .. Len(ips) : new[j] = ips[i]
           /\ \A i, j \in 1 .. Len(new) - 1 : i < j =>
                 \E k, l \in 1 .. Len(ips) : k < l /\ new[i] = ips[k] /\ new[j] = ips[l]
           /\ (\A k, l \in 1 .. Len(ips) : k # l => ips[k] # ips[l])
                 => \A i \in 1 .. Len(new) - 1 : new[i] # ip
<1>. DEFINE n   == Len(ips)
            new == PushIp(ips, ip)
<1>0. n \in Nat /\ \A i \in 1 .. n : ips[i] \in Ip
  BY LenProperties, ElementOfSeq
<1>1. CASE ~ \E i \in 1 .. n : ips[i] = ip
  <2>1. new = Append(ips, ip)
    BY <1>1 DEF PushIp
  <2>2. /\ new \in Seq(Ip)
        /\ Len(new) = n + 1
        /\ \A i \in 1 .. n : new[i] = ips[i]
        /\ new[n + 1] = ip
    BY <2>1, AppendProperties
  <2>. HIDE DEF n, new
  <2>3. \A i, j \in 1 .. Len(new) - 1 : i < j =>
           \E k, l \in 1 .. n : k < l /\ new[i] = ips[k] /\ new[j] = ips[l]
    <3>1. Len(new) - 1 = n
      BY <1>0, <2>2
    <3>. QED  BY <2>2, <3>1
  <2>4. \A i \in 1 .. Len(new) - 1 : new[i] # ip
    <3>1. Len(new) - 1 = n
      BY <1>0, <2>2
    <3>. QED  BY <1>1, <2>2, <3>1
  <2>5. Len(new) > 0 /\ new[Len(new)] = ip
    BY <1>0, <2>2
  <2>6. /\ \A i \in 1 .. n : \E j \in 1 .. Len(new) : new[j] = ips[i]
        /\ \A j \in 1 .. Len(new) : new[j] = ip \/ \E i \in 1 .. n : new[j] = ips[i]
    BY <1>0, <2>2
  <2>. QED  BY <2>2, <2>3, <2>4, <2>5, <2>6 DEF n, new
<1>2. CASE \E i \in 1 .. n : ips[i] = ip
  <2>. DEFINE pos  == CHOOSE i \in 1 .. n : ips[i] = ip
              pre  == SubSeq(ips, 1, pos - 1)
              post == SubSeq(ips, pos + 1, n)
  <2>2. pos \in 1 .. n /\ ips[pos] = ip
    BY <1>2
  <2>3. new = pre \o post \o <<ip>>
    BY <1>2 DEF PushIp
  <2>. HIDE DEF pos
  <2>4. /\ pre \in Seq(Ip)
        /\ Len(pre) = pos - 1
        /\ \A i \in 1 .. pos - 1 : pre[i] = ips[i]
    <3>1. /\ 1 \in Int /\ pos - 1 \in Int
          /\ \A i \in 1 .. pos - 1 : ips[i] \in Ip
      BY <1>0, <2>2
    <3>2. /\ pre \in Seq(Ip)
          /\ Len(pre) = IF 1 <= pos - 1 THEN (pos - 1) - 1 + 1 ELSE 0
          /\ \A i \in 1 .. (pos - 1) - 1 + 1 : pre[i] = ips[1 + i - 1]
      BY <3>1, SubSeqProperties
    <3>. HIDE DEF pre
    <3>. QED  BY <1>0, <2>2, <3>2
  <2>5. /\ post \in Seq(Ip)
        /\ Len(post) = n - pos
        /\ \A i \in 1 .. n - pos : post[i] = ips[pos + i]
    <3>1. /\ pos + 1 \in Int /\ n \in Int
          /\ \A i \in pos + 1 .. n : ips[i] \in Ip
      BY <1>0, <2>2
    <3>2. /\ post \in Seq(Ip)
          /\ Len(post) = IF pos + 1 <= n THEN n - (pos + 1) + 1 ELSE 0
          /\ \A i \in 1 .. n - (pos + 1) + 1 : post[i] = ips[(pos + 1) + i - 1]
      BY <3>1, SubSeqProperties
    <3>. HIDE DEF post
    <3>. QED  BY <1>0, <2>2, <3>2
  <2>. HIDE DEF pre, post, new
  <2>6. /\ pre \o post \in Seq(Ip)
        /\ Len(pre \o post) = n - 1
        /\ \A i \in 1 .. n - 1 :
              (pre \o post)[i] = IF i <= pos - 1 THEN ips[i] ELSE ips[i + 1]
    <3>. DEFINE both == pre \o post
    <3>1. /\ both \in Seq(Ip)
          /\ Len(both) = Len(pre) + Len(post)
          /\ \A i \in 1 .. Len(pre) + Len(post) :
                both[i] = IF i <= Len(pre) THEN pre[i] ELSE post[i - Len(pre)]
      BY <2>4, <2>5, ConcatProperties
    <3>. HIDE DEF both
    <3>2. Len(both) = n - 1
      BY <1>0, <2>2, <2>4, <2>5, <3>1
    <3>3. ASSUME NEW i \in 1 .. n - 1
          PROVE  both[i] = IF i <= pos - 1 THEN ips[i] ELSE ips[i + 1]
      <4>0. i \in 1 .. Len(pre) + Len(post)
        BY <1>0, <2>2, <2>4, <2>5
      <4>1. CASE i <= pos - 1
        <5>1. i <= Len(pre) /\ i \in 1 .. pos - 1
          BY <1>0, <2>2, <2>4, <4>1
        <5>2. both[i] = pre[i]
          BY <3>1, <4>0, <5>1
        <5>. QED  BY <2>4, <4>1, <5>1, <5>2
      <4>2. CASE ~ (i <= pos - 1)
        <5>0. ~ (i <= Len(pre)) /\ Len(pre) = pos - 1
          BY <2>4, <4>2
        <5>1. both[i] = post[i - (pos - 1)]
          BY <3>1, <4>0, <5>0
        <5>2. i - (pos - 1) \in 1 .. n - pos /\ pos + (i - (pos - 1)) = i + 1
          BY <1>0, <2>2, <4>2
        <5>3. post[i - (pos - 1)] = ips[pos + (i - (pos - 1))]
          BY <2>5, <5>2
        <5>. QED  BY <4>2, <5>1, <5>2, <5>3
      <4>. QED  BY <4>1, <4>2
    <3>. QED  BY <3>1, <3>2, <3>3 DEF both
  <2>7. /\ new \in Seq(Ip)
        /\ Len(new) = n
        /\ \A i \in 1 .. n - 1 : new[i] = IF i <= pos - 1 THEN ips[i] ELSE ips[i + 1]
        /\ new[n] = ip
    <3>. DEFINE both == pre \o post
    <3>1. <<ip>> \in Seq(Ip) /\ Len(<<ip>>) = 1 /\ <<ip>>[1] = ip
      OBVIOUS
    <3>2. new = both \o <<ip>>
      BY <2>3
    <3>. HIDE DEF both
    <3>3. /\ new \in Seq(Ip)
          /\ Len(new) = Len(both) + 1
          /\ \A i \in 1 .. Len(both) + 1 :
                new[i] = IF i <= Len(both) THEN both[i] ELSE <<ip>>[i - Len(both)]
      BY <2>6, <3>1, <3>2, ConcatProperties DEF both
    <3>4. /\ Len(both) = n - 1
          /\ \A i \in 1 .. n - 1 : both[i] = IF i <= pos - 1 THEN ips[i] ELSE ips[i + 1]
      BY <2>6 DEF both
    <3>5. new[n] = ip
      BY <1>0, <2>2, <3>1, <3>3, <3>4
    <3>6. ASSUME NEW i \in 1 .. n - 1
          PROVE  new[i] = both[i]
      <4>1. i \in 1 .. Len(both) + 1 /\ i <= Len(both)
        BY <1>0, <3>4
      <4>. QED  BY <3>3, <4>1
    <3>. QED  BY <1>0, <3>3, <3>4, <3>5, <3>6
  <2>8. \A i \in 1 .. n : \E j \in 1 .. n : new[j] = ips[i]
    <3>. TAKE i \in 1 .. n
    <3>1. CASE i < pos
      BY <1>0, <2>2, <2>7, <3>1
    <3>2. CASE i = pos
      BY <1>0, <2>2, <2>7, <3>2
    <3>3. CASE i > pos
      <4>1. i - 1 \in 1 .. n - 1 /\ ~ (i - 1 <= pos - 1)
        BY <1>0, <2>2, <3>3
      <4>2. new[i - 1] = ips[(i - 1) + 1]
        BY <2>7, <4>1
      <4>. QED  BY <1>0, <4>1, <4>2
    <3>. QED  BY <1>0, <2>2, <3>1, <3>2, <3>3
  <2>9. \A j \in 1 .. n : new[j] = ip \/ \E i \in 1 .. n : new[j] = ips[i]
    <3>. TAKE j \in 1 .. n
    <3>1. CASE j = n
      BY <2>7, <3>1
    <3>2. CASE j < n
      <4>1. j \in 1 .. n - 1 /\ j + 1 \in 1 .. n
        BY <1>0, <3>2
      <4>. QED  BY <2>7, <4>1
    <3>. QED  BY <1>0, <3>1, <3>2
  <2>10. Len(new) = n /\ n > 0 /\ new \in Seq(Ip) /\ new[n] = ip
    BY <1>0, <2>2, <2>7
  <2>11. ASSUME NEW i \in 1 .. n - 1, NEW j \in 1 .. n - 1, i < j
         PROVE  \E k, l \in 1 .. n : k < l /\ new[i] = ips[k] /\ new[j] = ips[l]
    <3>. DEFINE at(x) == IF x <= pos - 1 THEN x ELSE x + 1
    <3>1. at(i) \in 1 .. n /\ at(j) \in 1 .. n /\ at(i) < at(j)
      BY <1>0, <2>2, <2>11
    <3>2. new[i] = ips[at(i)] /\ new[j] = ips[at(j)]
      BY <2>7
    <3>. QED  BY <3>1, <3>2
  <2>12. ASSUME \A k, l \in 1 .. n : k # l => ips[k] # ips[l], NEW i \in 1 .. n - 1
         PROVE  new[i] # ip
    <3>. DEFINE k == IF i <= pos - 1 THEN i ELSE i + 1
    <3>1. k \in 1 .. n /\ k # pos
      BY <1>0, <2>2
    <3>2. new[i] = ips[k]
      BY <2>7
    <3>. QED  BY <2>2, <2>12, <3>1, <3>2
  <2>. QED  BY <2>8, <2>9, <2>10, <2>11, <2>12 DEF new
<1>. QED  BY <1>1, <1>2

-----------------------------------------------------------------------------
LEMMA NewDeviceType ==
    \A m \in Mac, t \in Time : NewDevice(m, t) \in Device
  BY RegistryAssumption DEF NewDevice, Device, Texts, Counter

\* apply_signal adds to a record and takes nothing away.
LEMMA ApplySignalEffect ==
    ASSUME NEW d \in Device, NEW sig \in Signal
    PROVE  LET e == ApplySignal(d, sig) IN
           /\ e \in Device
           /\ e.ips = d.ips /\ e.first = d.first /\ e.last = d.last
           /\ e.packets = d.packets
           /\ d.services \subseteq e.services
           /\ Cardinality(d.services) <= MaxServices => Cardinality(e.services) <= MaxServices
           /\ \A a \in Attr : d.texts[a] # None => e.texts[a] # None
<1>1. CASE sig.kind = "text"
  <2>1. sig.attr \in Attr /\ sig.text \in Text
    BY <1>1 DEF Signal
  <2>2. ApplySignal(d, sig) = [d EXCEPT !.texts[sig.attr] = sig.text]
    BY <1>1 DEF ApplySignal
  <2>3. [d.texts EXCEPT ![sig.attr] = sig.text] \in Texts /\ sig.text # None
    BY <2>1, RegistryAssumption DEF Device, Texts
  <2>. QED  BY <2>1, <2>2, <2>3 DEF Device, Texts
<1>2. CASE sig.kind = "service"
  <2>1. sig.service \in Service
    BY <1>2 DEF Signal
  <2>2. ApplySignal(d, sig) = [d EXCEPT !.services = AddService(d.services, sig.service)]
    BY <1>2 DEF ApplySignal
  <2>. DEFINE services == AddService(d.services, sig.service)
  <2>3. /\ services \subseteq Service /\ d.services \subseteq services
        /\ Cardinality(d.services) <= MaxServices => Cardinality(services) <= MaxServices
    <3>1. IsFiniteSet(d.services) /\ Cardinality(d.services) \in Nat
      BY RegistryAssumption, FS_Subset, FS_CardinalityType DEF Device
    <3>2. Cardinality(d.services \cup {sig.service}) \in
              {Cardinality(d.services), Cardinality(d.services) + 1}
      BY <3>1, FS_AddElement
    <3>. QED  BY <2>1, <3>1, <3>2, RegistryAssumption DEF AddService, Device
  <2>. HIDE DEF services
  <2>. QED  BY <2>2, <2>3 DEF Device, services
<1>3. CASE sig.kind \notin {"text", "service"}
  BY <1>3 DEF ApplySignal
<1>. QED  BY <1>1, <1>2, <1>3

\* observe and the classification after it: a record of the right type that
\* carries its own device type and everything the old record carried.
LEMMA ObserveEffect ==
    ASSUME NEW old \in Device \cup {None}, NEW m \in Mac, NEW ip \in Ip \cup {None},
           NEW sig \in Signal, NEW t \in Time
    PROVE  LET new == Classified(Observe(old, m, ip, sig, t)) IN
           /\ new \in Device
           /\ new.type = Classify(new.texts, new.services)
           /\ old # None =>
                 /\ new.first = old.first
                 /\ new.packets = old.packets
                 /\ old.services \subseteq new.services
                 /\ \A a \in Attr : old.texts[a] # None => new.texts[a] # None
           /\ LET before == IF old = None THEN << >> ELSE old.ips
              IN  new.ips = IF ip = None THEN before ELSE PushIp(before, ip)
           /\ old = None \/ Cardinality(old.services) <= MaxServices
                 => Cardinality(new.services) <= MaxServices
<1>. DEFINE base == IF old = None THEN NewDevice(m, t) ELSE old
            seen == [base EXCEPT !.last = t]
            at   == IF ip = None THEN seen ELSE [seen EXCEPT !.ips = PushIp(seen.ips, ip)]
            e    == ApplySignal(at, sig)
<1>1. base \in Device
  BY NewDeviceType
<1>2. /\ seen \in Device /\ seen.ips = base.ips
      /\ seen.first = base.first /\ seen.packets = base.packets
      /\ seen.services = base.services /\ seen.texts = base.texts
  BY <1>1 DEF Device
<1>. HIDE DEF seen
<1>3. /\ at \in Device
      /\ at.ips = IF ip = None THEN base.ips ELSE PushIp(base.ips, ip)
      /\ at.first = base.first /\ at.packets = base.packets
      /\ at.services = base.services /\ at.texts = base.texts
  <2>1. seen.ips \in Seq(Ip)
    BY <1>2 DEF Device
  <2>2. ip # None => PushIp(seen.ips, ip) \in Seq(Ip)
    BY <2>1, PushIpEffect
  <2>. QED  BY <1>2, <2>2 DEF Device
<1>. HIDE DEF at
<1>4. /\ e \in Device /\ e.ips = at.ips
      /\ Cardinality(base.services) <= MaxServices => Cardinality(e.services) <= MaxServices
      /\ e.first = base.first /\ e.packets = base.packets
      /\ base.services \subseteq e.services
      /\ \A a \in Attr : base.texts[a] # None => e.texts[a] # None
  BY <1>3, ApplySignalEffect
<1>5. Classified(Observe(old, m, ip, sig, t)) = [e EXCEPT !.type = Classify(e.texts, e.services)]
  BY DEF Classified, Observe, Touch, at, seen
<1>. HIDE DEF e
<1>6. Classify(e.texts, e.services) \in DeviceType \cup {None}
  BY <1>4, RegistryAssumption DEF Device
<1>. DEFINE new == [e EXCEPT !.type = Classify(e.texts, e.services)]
<1>7. /\ new \in Device /\ new.type = Classify(new.texts, new.services)
      /\ new.ips = e.ips /\ new.first = e.first /\ new.packets = e.packets
      /\ new.services = e.services /\ new.texts = e.texts
  BY <1>4, <1>6 DEF Device
<1>8. /\ base.ips = IF old = None THEN << >> ELSE old.ips
      /\ old = None => Cardinality(base.services) <= MaxServices
  BY FS_EmptySet, RegistryAssumption DEF NewDevice
<1>. HIDE DEF new
<1>. QED  BY <1>3, <1>4, <1>5, <1>7, <1>8 DEF new

\* What the rest of the program needs of it.
LEMMA ObserveGrows ==
    ASSUME NEW old \in Device \cup {None}, NEW m \in Mac, NEW ip \in Ip \cup {None},
           NEW sig \in Signal, NEW t \in Time,
           NEW d, d = Classified(Observe(old, m, ip, sig, t))
    PROVE  /\ d \in Device
           /\ d.type = Classify(d.texts, d.services)
           /\ old # None =>
                 /\ d.first = old.first
                 /\ d.packets = old.packets
                 /\ old.services \subseteq d.services
                 /\ \A a \in Attr : old.texts[a] # None => d.texts[a] # None
<1>1. d \in Device
  BY ObserveEffect
<1>2. d.type = Classify(d.texts, d.services)
  BY ObserveEffect, ZenonT(60)
<1>3. ASSUME old # None
      PROVE  /\ d.first = old.first
             /\ d.packets = old.packets
             /\ old.services \subseteq d.services
  BY <1>3, ObserveEffect
<1>4. ASSUME old # None, NEW a \in Attr, old.texts[a] # None
      PROVE  d.texts[a] # None
  BY <1>4, ObserveEffect
<1>. QED  BY <1>1, <1>2, <1>3, <1>4

\* An observation counts no packets.
LEMMA ObservePackets ==
    ASSUME NEW old \in Device \cup {None}, NEW m \in Mac, NEW ip \in Ip \cup {None},
           NEW sig \in Signal, NEW t \in Time,
           NEW d, d = Classified(Observe(old, m, ip, sig, t))
    PROVE  d.packets = IF old = None THEN 0 ELSE old.packets
<1>. DEFINE base == IF old = None THEN NewDevice(m, t) ELSE old
            seen == [base EXCEPT !.last = t]
            at   == IF ip = None THEN seen ELSE [seen EXCEPT !.ips = PushIp(seen.ips, ip)]
            e    == ApplySignal(at, sig)
<1>1. base \in Device /\ base.packets = IF old = None THEN 0 ELSE old.packets
  BY NewDeviceType DEF NewDevice
<1>2. d = Classified(e)
  BY DEF Observe, Touch
<1>. HIDE DEF base
<1>3. seen \in Device /\ seen.packets = base.packets
  BY <1>1 DEF Device
<1>. HIDE DEF seen
<1>4. at \in Device /\ at.packets = base.packets
  BY <1>3, PushIpEffect DEF Device
<1>. HIDE DEF at
<1>5. e \in Device /\ e.packets = base.packets
  BY <1>4, ApplySignalEffect
<1>. HIDE DEF e
<1>6. d.packets = e.packets
  BY <1>2, <1>5 DEF Classified, Device
<1>. QED  BY <1>1, <1>5, <1>6

\* A field that a signal sets has the signal's text, or what it had before.
LEMMA ObserveTexts ==
    ASSUME NEW old \in Device \cup {None}, NEW m \in Mac, NEW ip \in Ip \cup {None},
           NEW sig \in Signal, NEW t \in Time,
           NEW d, d = Classified(Observe(old, m, ip, sig, t)),
           NEW a \in Attr \ {VendorField}
    PROVE  d.texts[a] = IF sig.kind = "text" /\ sig.attr = a THEN sig.text
                        ELSE IF old = None THEN None ELSE old.texts[a]
<1>. DEFINE base == IF old = None THEN NewDevice(m, t) ELSE old
            seen == [base EXCEPT !.last = t]
            at   == IF ip = None THEN seen ELSE [seen EXCEPT !.ips = PushIp(seen.ips, ip)]
            e    == ApplySignal(at, sig)
<1>1. base \in Device /\ base.texts[a] = IF old = None THEN None ELSE old.texts[a]
  BY NewDeviceType DEF NewDevice
<1>2. d = Classified(e)
  BY DEF Observe, Touch
<1>. HIDE DEF base
<1>3. seen \in Device /\ seen.texts = base.texts
  BY <1>1 DEF Device
<1>. HIDE DEF seen
<1>4. at \in Device /\ at.texts = base.texts
  BY <1>3, PushIpEffect DEF Device
<1>. HIDE DEF at
<1>5. e \in Device /\ e.texts[a] = IF sig.kind = "text" /\ sig.attr = a THEN sig.text
                                   ELSE at.texts[a]
  <2>1. CASE sig.kind = "text"
    <3>1. e = [at EXCEPT !.texts[sig.attr] = sig.text] /\ sig.attr \in Attr
      BY <2>1 DEF ApplySignal, Signal
    <3>2. e.texts = [at.texts EXCEPT ![sig.attr] = sig.text] /\ at.texts \in Texts
      BY <1>4, <3>1 DEF Device
    <3>. HIDE DEF e
    <3>3. e.texts[a] = IF sig.attr = a THEN sig.text ELSE at.texts[a]
      BY <3>1, <3>2 DEF Texts
    <3>. QED  BY <1>4, <2>1, <3>3, ApplySignalEffect DEF e
  <2>2. CASE sig.kind = "service"
    <3>1. e = [at EXCEPT !.services = AddService(at.services, sig.service)]
      BY <2>2 DEF ApplySignal
    <3>2. e.texts = at.texts
      BY <1>4, <3>1 DEF Device
    <3>. HIDE DEF e
    <3>. QED  BY <1>4, <2>2, <3>2, ApplySignalEffect DEF e
  <2>3. CASE sig.kind \notin {"text", "service"}
    BY <1>4, <2>3 DEF ApplySignal
  <2>. QED  BY <2>1, <2>2, <2>3
<1>. HIDE DEF e
<1>6. d.texts = e.texts
  BY <1>2, <1>5 DEF Classified, Device
<1>. QED  BY <1>1, <1>4, <1>5, <1>6

LEMMA ObserveKeepsTexts ==
    ASSUME NEW old \in Device, NEW m \in Mac, NEW ip \in Ip \cup {None},
           NEW sig \in Signal, NEW t \in Time,
           NEW a \in Attr, old # None, old.texts[a] # None
    PROVE  Classified(Observe(old, m, ip, sig, t)).texts[a] # None
<1>. DEFINE d == Classified(Observe(old, m, ip, sig, t))
<1>1. d = Classified(Observe(old, m, ip, sig, t))
  OBVIOUS
<1>. HIDE DEF d
<1>2. d.texts[a] # None
  BY <1>1, ObserveGrows
<1>. QED  BY <1>1, <1>2

\* apply_flow's effect on the record it credits.
LEMMA CreditEffect ==
    ASSUME NEW d \in Device, NEW n \in Nat, NEW t \in Time
    PROVE  LET e == Credit(d, n, t) IN
           /\ e \in Device
           /\ e.ips = d.ips /\ e.first = d.first /\ e.texts = d.texts
           /\ e.services = d.services /\ e.type = d.type
           /\ d.packets <= e.packets
<1>1. d.packets \in Counter
  BY DEF Device
<1>2. SaturatingAdd(d.packets, n) \in Counter /\ d.packets <= SaturatingAdd(d.packets, n)
  BY <1>1, SaturatingAddGrows
<1>. QED  BY <1>2 DEF Credit, Device

\* An upsert stores the record it is given, but keeps first_seen.
LEMMA UpsertEffect ==
    ASSUME NEW old \in Row \cup {None}, NEW d \in Device
    PROVE  LET new == Upsert(old, d) IN
           /\ new \in Row
           /\ new.first = IF old = None THEN d.first ELSE old.first
           /\ FromI64(new.packets) = d.packets
           /\ new.texts = d.texts /\ new.services = d.services /\ new.type = d.type
<1>1. ToI64(d.packets) \in Signed /\ FromI64(ToI64(d.packets)) = d.packets
  BY CounterRoundTrip DEF Device
<1>2. /\ ToRow(d) \in Row
      /\ ToRow(d).first = d.first /\ ToRow(d).packets = ToI64(d.packets)
      /\ ToRow(d).texts = d.texts /\ ToRow(d).services = d.services
      /\ ToRow(d).type = d.type
  BY <1>1 DEF ToRow, Device, Row
<1>. QED  BY <1>1, <1>2 DEF Upsert, Row
=============================================================================
