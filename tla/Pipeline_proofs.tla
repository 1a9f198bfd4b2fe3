-------------------------- MODULE Pipeline_proofs --------------------------
(***************************************************************************)
(* Type correctness and safety of Pipeline, for any set of devices, any    *)
(* frames and snapshots, any counter width, and any number of crashes and  *)
(* failed writes.  The inductive invariant is PipelineInv; the proof that  *)
(* a step preserves it goes conjunct by conjunct, action by action.        *)
(***************************************************************************)
EXTENDS Pipeline, Registry_proofs

USE DEF Handling, Places

\* A folded-in observation leaves the registry a registry.
LEMMA ObservedRegistry ==
    ASSUME TypeOK, pc = "observe", Head(frame).mac # ZeroMac
    PROVE  LET o == Head(frame)
               d == Classified(Observe(registry[o.mac], o.mac, o.ip, o.signal, now))
           IN  /\ o.mac \in Mac
               /\ Tail(frame) \in Seq(Observation)
               /\ d \in Device
               /\ d.type = Classify(d.texts, d.services)
               /\ registry[o.mac] # None =>
                     /\ d.first = registry[o.mac].first
                     /\ d.packets = registry[o.mac].packets
                     /\ registry[o.mac].services \subseteq d.services
                     /\ \A a \in Attr : registry[o.mac].texts[a] # None => d.texts[a] # None
<1>1. Head(frame) \in Observation /\ Tail(frame) \in Seq(Observation) /\ now \in Time
  BY HeadTailProperties DEF TypeOK
<1>2. /\ Head(frame).mac \in Mac
      /\ Head(frame).ip \in Ip \cup {None}
      /\ Head(frame).signal \in Signal
  BY <1>1 DEF Observation
<1>3. registry[Head(frame).mac] \in Device \cup {None}
  BY <1>2 DEF TypeOK
<1>. DEFINE o   == Head(frame)
            old == registry[o.mac]
            mac == o.mac
            ip  == o.ip
            sig == o.signal
            d   == Classified(Observe(old, mac, ip, sig, now))
<1>4. /\ d \in Device
      /\ d.type = Classify(d.texts, d.services)
      /\ old # None =>
            /\ d.first = old.first
            /\ d.packets = old.packets
            /\ old.services \subseteq d.services
            /\ \A a \in Attr : old.texts[a] # None => d.texts[a] # None
  <2>1. /\ old \in Device \cup {None} /\ mac \in Mac /\ now \in Time
        /\ ip \in Ip \cup {None} /\ sig \in Signal
    BY <1>1, <1>2, <1>3
  <2>2. d = Classified(Observe(old, mac, ip, sig, now))
    OBVIOUS
  <2>. HIDE DEF old, mac, ip, sig, d
  <2>3. d \in Device
    BY <2>1, <2>2, ObserveGrows
  <2>4. d.type = Classify(d.texts, d.services)
    BY <2>1, <2>2, ObserveGrows
  <2>5. ASSUME old # None
        PROVE  /\ d.first = old.first
               /\ d.packets = old.packets
               /\ old.services \subseteq d.services
    BY <2>1, <2>2, <2>5, ObserveGrows
  <2>6. ASSUME old # None, NEW a \in Attr, old.texts[a] # None
        PROVE  d.texts[a] # None
    BY <2>1, <2>2, <2>6, ObserveKeepsTexts
  <2>. QED  BY <2>3, <2>4, <2>5, <2>6
<1>. HIDE DEF d
<1>5. o.mac \in Mac /\ Tail(frame) \in Seq(Observation)
  BY <1>1, <1>2
<1>. QED  BY <1>4, <1>5 DEF d

\* So does a credited flow.
LEMMA CreditedRegistry ==
    ASSUME TypeOK, pc = "flows", NEW m \in Owners(registry, Head(snapshot).src)
    PROVE  LET f == Head(snapshot)
               d == Credit(registry[m], f.packets, now)
           IN  /\ m \in Mac /\ registry[m] # None /\ registry[m] \in Device
               /\ CreditOwner(registry, m, f.src, f.packets, now) = [registry EXCEPT ![m] = d]
               /\ d \in Device
               /\ d.first = registry[m].first /\ d.texts = registry[m].texts
               /\ d.services = registry[m].services /\ d.type = registry[m].type
               /\ registry[m].packets <= d.packets
<1>1. Head(snapshot) \in Flow /\ now \in Time
  BY HeadTailProperties DEF TypeOK
<1>2. Head(snapshot).packets \in Nat
  BY <1>1 DEF Flow
<1>3. m \in Mac /\ registry[m] # None /\ registry[m] \in Device
  BY DEF Owners, TypeOK
<1>. QED  BY <1>1, <1>2, <1>3, CreditEffect DEF CreditOwner

\* A successful write puts a row of the right type, which says what the
\* registry says, where it belongs.
LEMMA WrittenRow ==
    ASSUME TypeOK, NEW m \in Mac, registry[m] # None
    PROVE  LET row == Upsert(db[m], registry[m]) IN
           /\ row \in Row
           /\ row.first = IF db[m] = None THEN registry[m].first ELSE db[m].first
           /\ FromI64(row.packets) = registry[m].packets
           /\ row.texts = registry[m].texts
           /\ row.services = registry[m].services
           /\ row.type = registry[m].type
<1>1. registry[m] \in Device /\ db[m] \in Row \cup {None}
  BY DEF TypeOK
<1>. QED  BY <1>1, UpsertEffect

\* What the store holds can be loaded.
LEMMA LoadedRow ==
    ASSUME NEW row \in Row
    PROVE  /\ FromRow(row) \in Device
           /\ FromRow(row).first = row.first /\ FromRow(row).texts = row.texts
           /\ FromRow(row).services = row.services /\ FromRow(row).type = row.type
           /\ FromRow(row).packets = FromI64(row.packets)
<1>1. FromRow(row) \in Device
  BY RowRoundTrip
<1>. QED  BY <1>1 DEF FromRow, Row

-----------------------------------------------------------------------------
(* Type correctness                                                        *)

LEMMA TypeInit == Init => TypeOK
<1>. SUFFICES ASSUME Init PROVE TypeOK
  OBVIOUS
<1>1. << >> \in Seq(Observation) /\ << >> \in Seq(Flow)
  BY EmptySeq
<1>2. alerts \in [Mac -> Nat]
  BY DEF Init
<1>. QED  BY <1>1, <1>2 DEF Init, TypeOK, NoDevices

LEMMA TypeNext == TypeOK /\ [Next]_vars => TypeOK'
<1>. SUFFICES ASSUME TypeOK, [Next]_vars PROVE TypeOK'
  OBVIOUS
<1>1. CASE Start
  <2>1. Seeded(db) \in [Mac -> Device \cup {None}]
    BY LoadedRow DEF TypeOK, Seeded
  <2>. QED  BY <1>1, <2>1 DEF Start, TypeOK, durable, history
<1>2. ASSUME NEW f \in Frames, NEW t \in Time, ReceiveFrame(f, t) PROVE TypeOK'
  BY <1>2, PipelineAssumption DEF ReceiveFrame, Resume, TypeOK, durable, history
<1>3. ASSUME NEW s \in Snapshots, NEW t \in Time, ReceiveFlows(s, t) PROVE TypeOK'
  BY <1>3, PipelineAssumption DEF ReceiveFlows, TypeOK, durable, history
<1>4. CASE FlushTick
  BY <1>4 DEF FlushTick, FlushSet, TypeOK, durable, history
<1>5. CASE Stop
  BY <1>5 DEF Stop, StopFlush, FlushSet, TypeOK, durable, history
<1>6. CASE SkipZeroMac
  <2>1. Tail(frame) \in Seq(Observation)
    BY <1>6, HeadTailProperties DEF SkipZeroMac, TypeOK
  <2>. QED  BY <1>6, <2>1 DEF SkipZeroMac, Resume, TypeOK, durable, history
<1>7. CASE ObserveDevice
  <2>. DEFINE o == Head(frame)
              d == Classified(Observe(registry[o.mac], o.mac, o.ip, o.signal, now))
  <2>1. /\ o.mac \in Mac /\ Tail(frame) \in Seq(Observation) /\ d \in Device
    BY <1>7, ObservedRegistry DEF ObserveDevice
  <2>2. registry' = [registry EXCEPT ![o.mac] = d]
    BY <1>7 DEF ObserveDevice
  <2>. HIDE DEF d
  <2>3. /\ registry' \in [Mac -> Device \cup {None}]
        /\ registry'[o.mac] # None
        /\ \A m \in Mac : registry[m] # None => registry'[m] # None
    BY <2>1, <2>2, NoneIsNoRecord DEF TypeOK
  <2>4. unflushed' \subseteq {m \in Mac : registry'[m] # None}
    BY <1>7, <2>3 DEF ObserveDevice, TypeOK
  <2>. QED  BY <1>7, <2>1, <2>3, <2>4 DEF ObserveDevice, Resume, TypeOK, durable, history
<1>8. CASE PersistNew
  <2>1. cur \in Mac /\ registry[cur] # None
    BY <1>8 DEF PersistNew, TypeOK
  <2>2. Upsert(db[cur], registry[cur]) \in Row
    BY <2>1, WrittenRow
  <2>. QED  BY <1>8, <2>1, <2>2 DEF PersistNew, PersistStep, WriteRow, WriteFails, TypeOK, memory
<1>9. CASE AnnounceNew
  <2>1. cur \in Mac /\ now \in Time
    BY <1>9 DEF AnnounceNew, TypeOK
  <2>2. alerts' \in [Mac -> Nat] /\ fails' \in Nat
    <3>1. CASE AddAlert(cur)
      BY <2>1, <3>1 DEF AddAlert, TypeOK
    <3>2. CASE AlertFails
      BY <3>2 DEF AlertFails, TypeOK
    <3>. QED  BY <1>9, <3>1, <3>2 DEF AnnounceNew
  <2>3. db' = db /\ missed' = missed
    BY <1>9 DEF AnnounceNew, AddAlert, AlertFails
  <2>. QED  BY <1>9, <2>1, <2>2, <2>3 DEF AnnounceNew, Resume, TypeOK
<1>10. CASE ApplyFlow
  <2>1. /\ Head(snapshot) \in Flow /\ Tail(snapshot) \in Seq(Flow) /\ now \in Time
    BY <1>10, HeadTailProperties DEF ApplyFlow, TypeOK
  <2>2. /\ registry' \in [Mac -> Device \cup {None}]
        /\ \A m \in Mac : registry[m] # None => registry'[m] # None
    <3>. DEFINE f == Head(snapshot)
                d(m) == Credit(registry[m], f.packets, now)
    <3>1. ASSUME NEW m \in Owners(registry, f.src),
                 registry' = CreditOwner(registry, m, f.src, f.packets, now)
          PROVE  <2>2!1 /\ <2>2!2
      <4>1. m \in Mac /\ d(m) \in Device /\ registry' = [registry EXCEPT ![m] = d(m)]
        BY <1>10, <3>1, CreditedRegistry DEF ApplyFlow
      <4>. QED  BY <4>1, NoneIsNoRecord DEF TypeOK
    <3>2. CASE UNCHANGED registry
      BY <3>2 DEF TypeOK
    <3>. QED  BY <1>10, <3>1, <3>2 DEF ApplyFlow
  <2>3. unflushed' \subseteq {m \in Mac : registry'[m] # None}
    BY <1>10, <2>2 DEF ApplyFlow, TypeOK
  <2>. QED  BY <1>10, <2>1, <2>2, <2>3 DEF ApplyFlow, TypeOK, durable, history
<1>11. ASSUME NEW m \in Mac, FlushRow(m) PROVE TypeOK'
  <2>1. registry[m] # None
    BY <1>11 DEF FlushRow, TypeOK
  <2>2. Upsert(db[m], registry[m]) \in Row
    BY <2>1, WrittenRow
  <2>. QED  BY <1>11, <2>2 DEF FlushRow, WriteRow, WriteFails, TypeOK
<1>12. CASE FlushDone
  BY <1>12 DEF FlushDone, TypeOK, memory, durable, history
<1>13. CASE Exit
  BY <1>13, EmptySeq DEF Exit, Forgotten, NoDevices, TypeOK, durable
<1>14. CASE Crash
  <2>1. << >> \in Seq(Observation) /\ << >> \in Seq(Flow)
    BY EmptySeq
  <2>2. crashes' \in Nat
    BY <1>14 DEF Crash, TypeOK
  <2>. QED  BY <1>14, <2>1, <2>2 DEF Crash, Forgotten, NoDevices, TypeOK, durable
<1>15. CASE UNCHANGED vars
  BY <1>15 DEF vars, memory, durable, history, TypeOK
<1>. QED
  BY <1>1, <1>2, <1>3, <1>4, <1>5, <1>6, <1>7, <1>8, <1>9, <1>10, <1>11, <1>12,
     <1>13, <1>14, <1>15 DEF Next, HandlerStep

\* Every reachable state is well typed; in particular a handler at work has
\* its observation, its clock reading and its device at hand.
THEOREM TypeCorrect == Spec => []TypeOK
  BY TypeInit, TypeNext, PTL DEF Spec

-----------------------------------------------------------------------------
(* What each step does to the registry and to the store                    *)

\* Steps that move between handlers and touch neither records nor rows.
Quiet ==
    \/ \E f \in Frames, t \in Time : ReceiveFrame(f, t)
    \/ \E s \in Snapshots, t \in Time : ReceiveFlows(s, t)
    \/ FlushTick
    \/ Stop
    \/ SkipZeroMac
    \/ FlushDone
    \/ UNCHANGED vars

LEMMA QuietEffect ==
    ASSUME Quiet
    PROVE  UNCHANGED <<registry, db, alerts, fails, missed>> /\ (pc # "down" <=> pc' # "down")
  BY DEF Quiet, ReceiveFrame, ReceiveFlows, FlushTick, Stop, SkipZeroMac, FlushDone, Resume,
         StopFlush, vars, memory, durable, history

LEMMA StepKinds ==
    ASSUME [Next]_vars
    PROVE  \/ Quiet \/ Start \/ ObserveDevice \/ PersistNew \/ AnnounceNew \/ ApplyFlow
           \/ \E m \in Mac : FlushRow(m)
           \/ Exit \/ Crash
  BY DEF Next, HandlerStep, Quiet

\* The registry after an observation or a flow: one record replaced by one that
\* carries at least as much, or created.
Grown(old, new) ==
    /\ new \in Device
    /\ old # None =>
          /\ new.first = old.first
          /\ old.packets <= new.packets
          /\ old.services \subseteq new.services
          /\ \A a \in Attr : old.texts[a] # None => new.texts[a] # None

LEMMA RegistryGrows ==
    ASSUME TypeOK, ObserveDevice \/ ApplyFlow
    PROVE  /\ UNCHANGED <<db, alerts, fails, missed>>
           /\ pc # "down" /\ pc' # "down"
           /\ \/ UNCHANGED registry
              \/ \E m \in Mac, d \in Device :
                    /\ registry' = [registry EXCEPT ![m] = d]
                    /\ Grown(registry[m], d)
                    /\ \/ d.type = Classify(d.texts, d.services)
                       \/ /\ registry[m] # None
                          /\ d.texts = registry[m].texts /\ d.services = registry[m].services
                          /\ d.type = registry[m].type
<1>1. CASE ObserveDevice
  <2>. DEFINE o == Head(frame)
              d == Classified(Observe(registry[o.mac], o.mac, o.ip, o.signal, now))
  <2>1. registry' = [registry EXCEPT ![o.mac] = d]
    BY <1>1 DEF ObserveDevice
  <2>2. /\ o.mac \in Mac /\ d \in Device /\ d.type = Classify(d.texts, d.services)
        /\ registry[o.mac] # None =>
              /\ d.first = registry[o.mac].first
              /\ d.packets = registry[o.mac].packets
              /\ registry[o.mac].services \subseteq d.services
              /\ \A a \in Attr : registry[o.mac].texts[a] # None => d.texts[a] # None
    BY <1>1, ObservedRegistry DEF ObserveDevice
  <2>. HIDE DEF d
  <2>3. d.packets <= d.packets
    BY <2>2, RegistryAssumption DEF Device, Counter
  <2>4. Grown(registry[o.mac], d)
    BY <2>2, <2>3 DEF Grown
  <2>5. UNCHANGED <<db, alerts, fails, missed>> /\ pc # "down" /\ pc' # "down"
    BY <1>1 DEF ObserveDevice, Resume, durable, history
  <2>. QED  BY <2>1, <2>2, <2>4, <2>5
<1>2. CASE ApplyFlow
  <2>1. UNCHANGED <<db, alerts, fails, missed>> /\ pc # "down" /\ pc' # "down"
    BY <1>2 DEF ApplyFlow, durable, history
  <2>2. ASSUME NEW m \in Owners(registry, Head(snapshot).src),
               registry' = CreditOwner(registry, m, Head(snapshot).src,
                                       Head(snapshot).packets, now)
        PROVE  \E d \in Device :
                    /\ m \in Mac
                    /\ registry' = [registry EXCEPT ![m] = d]
                    /\ Grown(registry[m], d)
                    /\ registry[m] # None
                    /\ d.texts = registry[m].texts /\ d.services = registry[m].services
                    /\ d.type = registry[m].type
    <3>. DEFINE d == Credit(registry[m], Head(snapshot).packets, now)
    <3>1. /\ m \in Mac /\ registry[m] # None /\ registry[m] \in Device
          /\ registry' = [registry EXCEPT ![m] = d]
          /\ d \in Device
          /\ d.first = registry[m].first /\ d.texts = registry[m].texts
          /\ d.services = registry[m].services /\ d.type = registry[m].type
          /\ registry[m].packets <= d.packets
      BY <1>2, <2>2, CreditedRegistry DEF ApplyFlow
    <3>. HIDE DEF d
    <3>2. Grown(registry[m], d)
      BY <3>1 DEF Grown
    <3>. QED  BY <3>1, <3>2
  <2>3. CASE UNCHANGED registry
    BY <2>1, <2>3
  <2>. QED  BY <1>2, <2>1, <2>2, <2>3 DEF ApplyFlow
<1>. QED  BY <1>1, <1>2

\* A write attempt: a row made of its record, or nothing but a failure.
LEMMA WriteAttempt ==
    ASSUME PersistNew \/ \E m \in Mac : FlushRow(m), TypeOK
    PROVE  /\ UNCHANGED <<registry, alerts>>
           /\ pc # "down" /\ pc' # "down"
           /\ \E m \in Mac :
                 /\ registry[m] # None
                 /\ WriteRow(m) \/ WriteFails(m)
                 /\ PersistNew => m = cur
<1>1. CASE PersistNew
  BY <1>1 DEF PersistNew, PersistStep, WriteRow, WriteFails, TypeOK, memory
<1>2. ASSUME NEW m \in Mac, FlushRow(m) PROVE ~PersistNew
  BY <1>2 DEF FlushRow, PersistNew
<1>3. ASSUME NEW m \in Mac, FlushRow(m)
      PROVE  UNCHANGED <<registry, alerts>> /\ pc # "down" /\ pc' # "down" /\ registry[m] # None
             /\ (WriteRow(m) \/ WriteFails(m))
  BY <1>3 DEF FlushRow, WriteRow, WriteFails, TypeOK
<1>. QED  BY <1>1, <1>2, <1>3

-----------------------------------------------------------------------------
(* The registry is never behind the store                                  *)

LEMMA StoreInit == Init => StoreBehindRegistry
  BY DEF Init, StoreBehindRegistry

LEMMA StoreNext == TypeOK /\ StoreBehindRegistry /\ [Next]_vars => StoreBehindRegistry'
<1>. SUFFICES ASSUME TypeOK, StoreBehindRegistry, [Next]_vars PROVE StoreBehindRegistry'
  OBVIOUS
<1>1. CASE Quiet
  BY <1>1, QuietEffect DEF StoreBehindRegistry, Behind
<1>2. CASE Start
  <2>1. db' = db /\ registry' = Seeded(db)
    BY <1>2 DEF Start, durable
  <2>2. ASSUME NEW m \in Mac, db[m] # None
        PROVE  registry'[m] # None /\ Behind(db[m], registry'[m])
    <3>1. db[m] \in Row /\ registry'[m] = FromRow(db[m])
      BY <2>1, <2>2 DEF Seeded, TypeOK
    <3>2. registry'[m] \in Device
      BY <3>1, LoadedRow
    <3>3. FromI64(db[m].packets) <= registry'[m].packets
      BY <3>1, <3>2, LoadedRow, RegistryAssumption DEF Device, Counter
    <3>. QED  BY <3>1, <3>2, <3>3, LoadedRow, NoneIsNoRecord DEF Behind
  <2>. QED  BY <2>1, <2>2 DEF StoreBehindRegistry
<1>3. CASE ObserveDevice \/ ApplyFlow
  <2>1. db' = db /\ pc # "down"
    BY <1>3, RegistryGrows
  <2>2. CASE UNCHANGED registry
    BY <2>1, <2>2 DEF StoreBehindRegistry, Behind
  <2>3. ASSUME NEW n \in Mac, NEW d \in Device,
               registry' = [registry EXCEPT ![n] = d], Grown(registry[n], d),
               NEW m \in Mac, db[m] # None
        PROVE  registry'[m] # None /\ Behind(db[m], registry'[m])
    <3>1. registry[m] # None /\ Behind(db[m], registry[m]) /\ registry[m] \in Device
      BY <2>1, <2>3 DEF StoreBehindRegistry, TypeOK
    <3>2. CASE m # n
      BY <2>3, <3>1, <3>2 DEF TypeOK
    <3>3. CASE m = n
      <4>1. registry'[m] = d /\ d # None
        BY <2>3, <3>3, NoneIsNoRecord DEF TypeOK
      <4>2. /\ d.first = registry[m].first /\ registry[m].packets <= d.packets
            /\ registry[m].services \subseteq d.services
            /\ \A a \in Attr : registry[m].texts[a] # None => d.texts[a] # None
        BY <2>3, <3>1, <3>3 DEF Grown
      <4>3. FromI64(db[m].packets) <= d.packets
        <5>1. db[m].packets \in Signed
          BY <2>3 DEF TypeOK, Row
        <5>2. FromI64(db[m].packets) \in Counter
          BY <5>1, CounterRoundTrip
        <5>3. registry[m].packets \in Counter /\ d.packets \in Counter
          BY <3>1 DEF Device
        <5>. QED  BY <3>1, <4>2, <5>2, <5>3, RegistryAssumption DEF Behind, Counter
      <4>. QED  BY <3>1, <4>1, <4>2, <4>3 DEF Behind
    <3>. QED  BY <3>2, <3>3
  <2>. QED  BY <1>3, <2>1, <2>2, <2>3, RegistryGrows DEF StoreBehindRegistry
<1>4. CASE PersistNew \/ \E m \in Mac : FlushRow(m)
  <2>1. PICK m \in Mac : registry[m] # None /\ (WriteRow(m) \/ WriteFails(m))
    BY <1>4, WriteAttempt
  <2>2. registry' = registry /\ pc # "down"
    BY <1>4, WriteAttempt
  <2>3. CASE WriteFails(m)
    BY <2>2, <2>3 DEF WriteFails, StoreBehindRegistry, Behind
  <2>4. CASE WriteRow(m)
    <3>1. db' = [db EXCEPT ![m] = Upsert(db[m], registry[m])]
      BY <2>4 DEF WriteRow
    <3>2. Behind(db'[m], registry[m])
      <4>. DEFINE row == Upsert(db[m], registry[m])
      <4>1. db'[m] = row
        BY <3>1 DEF TypeOK
      <4>2. /\ row.first = IF db[m] = None THEN registry[m].first ELSE db[m].first
            /\ FromI64(row.packets) = registry[m].packets
            /\ row.texts = registry[m].texts /\ row.services = registry[m].services
        BY <2>1, WrittenRow
      <4>3. db[m] # None => db[m].first = registry[m].first
        BY <2>2 DEF StoreBehindRegistry, Behind
      <4>4. registry[m].packets \in Counter
        BY <2>1 DEF TypeOK, Device
      <4>. HIDE DEF row
      <4>. QED  BY <4>1, <4>2, <4>3, <4>4, RegistryAssumption DEF Behind, Counter
    <3>3. \A n \in Mac \ {m} : db'[n] = db[n]
      BY <3>1 DEF TypeOK
    <3>. QED  BY <2>1, <2>2, <3>2, <3>3 DEF StoreBehindRegistry, Behind
  <2>. QED  BY <2>1, <2>3, <2>4
<1>5. CASE AnnounceNew
  BY <1>5 DEF AnnounceNew, AddAlert, AlertFails, StoreBehindRegistry, Behind
<1>6. CASE Exit \/ Crash
  BY <1>6 DEF Exit, Crash, StoreBehindRegistry
<1>. QED  BY <1>1, <1>2, <1>3, <1>4, <1>5, <1>6, StepKinds

\* seed_registry and the upserts keep the registry ahead of the devices table
\* through every crash, restart and failed write, so a flush never replaces a
\* row by one that says less.
THEOREM StoreNeverAhead == Spec => []StoreBehindRegistry
  BY StoreInit, StoreNext, TypeCorrect, PTL DEF Spec

-----------------------------------------------------------------------------
(* Classification                                                          *)

ClassInv == RegistryIsClassified /\ RowsAreClassified

LEMMA ClassInit == Init => ClassInv
  BY DEF Init, ClassInv, RegistryIsClassified, RowsAreClassified, NoDevices

LEMMA ClassNext == TypeOK /\ ClassInv /\ [Next]_vars => ClassInv'
<1>. SUFFICES ASSUME TypeOK, ClassInv, [Next]_vars PROVE ClassInv'
  OBVIOUS
<1>. USE DEF ClassInv
<1>1. CASE Quiet
  BY <1>1, QuietEffect DEF RegistryIsClassified, RowsAreClassified
<1>2. CASE Start
  <2>1. db' = db /\ registry' = Seeded(db)
    BY <1>2 DEF Start, durable
  <2>2. ASSUME NEW m \in Mac, registry'[m] # None
        PROVE  registry'[m].type = Classify(registry'[m].texts, registry'[m].services)
    <3>1. db[m] # None /\ db[m] \in Row /\ registry'[m] = FromRow(db[m])
      BY <2>1, <2>2 DEF Seeded, TypeOK
    <3>. QED  BY <3>1, LoadedRow DEF RowsAreClassified
  <2>. QED  BY <2>1, <2>2 DEF RegistryIsClassified, RowsAreClassified
<1>3. CASE ObserveDevice \/ ApplyFlow
  <2>1. db' = db
    BY <1>3, RegistryGrows
  <2>2. CASE UNCHANGED registry
    BY <2>1, <2>2 DEF RegistryIsClassified, RowsAreClassified
  <2>3. ASSUME NEW m \in Mac, NEW d \in Device, registry' = [registry EXCEPT ![m] = d],
               \/ d.type = Classify(d.texts, d.services)
               \/ /\ registry[m] # None
                  /\ d.texts = registry[m].texts /\ d.services = registry[m].services
                  /\ d.type = registry[m].type
        PROVE  RegistryIsClassified'
    <3>1. d.type = Classify(d.texts, d.services)
      BY <2>3 DEF RegistryIsClassified
    <3>. QED  BY <2>3, <3>1 DEF RegistryIsClassified, TypeOK
  <2>. QED  BY <1>3, <2>1, <2>2, <2>3, RegistryGrows DEF RowsAreClassified
<1>4. CASE PersistNew \/ \E m \in Mac : FlushRow(m)
  <2>1. PICK m \in Mac : registry[m] # None /\ (WriteRow(m) \/ WriteFails(m))
    BY <1>4, WriteAttempt
  <2>2. registry' = registry
    BY <1>4, WriteAttempt
  <2>3. CASE WriteFails(m)
    BY <2>2, <2>3 DEF WriteFails, RegistryIsClassified, RowsAreClassified
  <2>4. CASE WriteRow(m)
    <3>. DEFINE row == Upsert(db[m], registry[m])
    <3>1. db' = [db EXCEPT ![m] = row]
      BY <2>4 DEF WriteRow
    <3>2. row.type = Classify(row.texts, row.services)
      BY <2>1, WrittenRow DEF RegistryIsClassified
    <3>. HIDE DEF row
    <3>. QED  BY <2>2, <3>1, <3>2 DEF RegistryIsClassified, RowsAreClassified, TypeOK
  <2>. QED  BY <2>1, <2>3, <2>4
<1>5. CASE AnnounceNew
  BY <1>5 DEF AnnounceNew, AddAlert, AlertFails, RegistryIsClassified, RowsAreClassified
<1>6. CASE Exit \/ Crash
  BY <1>6 DEF Exit, Crash, Forgotten, NoDevices, durable, RegistryIsClassified,
              RowsAreClassified
<1>. QED  BY <1>1, <1>2, <1>3, <1>4, <1>5, <1>6, StepKinds

\* No crash and no interleaving of flushes with handlers puts a record on disk
\* whose device type is not the one its own signals give.
THEOREM StoredTypesAreCurrent == Spec => []RowsAreClassified
<1>1. ClassInv => RowsAreClassified
  BY DEF ClassInv
<1>. QED  BY <1>1, ClassInit, ClassNext, TypeCorrect, PTL DEF Spec

-----------------------------------------------------------------------------
(* Announcements                                                           *)

LEMMA AlertInit == Init => AlertBudget
  BY DEF Init, AlertBudget

LEMMA AlertNext == TypeOK /\ StoreBehindRegistry /\ AlertBudget /\ [Next]_vars => AlertBudget'
<1>. SUFFICES ASSUME TypeOK, StoreBehindRegistry, AlertBudget, [Next]_vars PROVE AlertBudget'
  OBVIOUS
<1>0. fails \in Nat /\ \A m \in Mac : alerts[m] \in Nat
  BY DEF TypeOK
<1>1. CASE Quiet
  <2>1. pc' \notin {"persist", "announce"} \/ (pc' = pc /\ cur' = cur)
    BY <1>1 DEF Quiet, ReceiveFrame, ReceiveFlows, FlushTick, Stop, StopFlush, SkipZeroMac,
                FlushDone, Resume, vars, memory
  <2>. QED  BY <1>1, <2>1, QuietEffect DEF AlertBudget
<1>2. CASE Start
  BY <1>2 DEF Start, durable, history, AlertBudget
<1>3. CASE ObserveDevice
  <2>1. UNCHANGED <<db, alerts, fails>>
    BY <1>3 DEF ObserveDevice, durable, history
  <2>2. pc' # "announce" /\ (pc' = "persist" => registry[cur'] = None)
    BY <1>3 DEF ObserveDevice, IsNew, Resume
  <2>3. \A m \in Mac : pc' = "persist" /\ cur' = m => db[m] = None
    BY <1>3, <2>2 DEF ObserveDevice, StoreBehindRegistry
  <2>. QED  BY <2>1, <2>2, <2>3 DEF AlertBudget
<1>4. CASE ApplyFlow
  BY <1>4 DEF ApplyFlow, durable, history, AlertBudget
<1>5. CASE PersistNew
  <2>1. pc = "persist" /\ pc' = "announce" /\ cur' = cur /\ cur \in Mac /\ registry[cur] # None
    BY <1>5 DEF PersistNew, memory, TypeOK
  <2>2. CASE WriteRow(cur)
    <3>1. db'[cur] \in Row
      BY <2>1, <2>2, WrittenRow DEF WriteRow, TypeOK
    <3>2. /\ db'[cur] # None
          /\ \A m \in Mac \ {cur} : db'[m] = db[m]
          /\ alerts' = alerts /\ fails' = fails
      BY <2>2, <3>1, NoneIsNoRecord DEF WriteRow, TypeOK
    <3>3. alerts[cur] <= fails
      BY <2>1 DEF AlertBudget
    <3>. QED  BY <2>1, <3>2, <3>3 DEF AlertBudget
  <2>3. CASE WriteFails(cur)
    <3>1. db' = db /\ alerts' = alerts /\ fails' = fails + 1
      BY <2>3 DEF WriteFails
    <3>2. alerts[cur] <= fails
      BY <2>1 DEF AlertBudget
    <3>. QED  BY <1>0, <2>1, <3>1, <3>2 DEF AlertBudget
  <2>. QED  BY <1>5, <2>2, <2>3 DEF PersistNew, PersistStep
<1>6. CASE AnnounceNew
  <2>1. /\ pc = "announce" /\ pc' \notin {"persist", "announce"} /\ cur \in Mac
        /\ db' = db
    BY <1>6 DEF AnnounceNew, Resume, AddAlert, AlertFails, TypeOK
  <2>2. CASE AddAlert(cur)
    <3>1. /\ fails' = fails /\ alerts'[cur] = alerts[cur] + 1
          /\ \A m \in Mac \ {cur} : alerts'[m] = alerts[m]
      BY <2>1, <2>2 DEF AddAlert, TypeOK
    <3>2. alerts[cur] <= fails /\ (db[cur] = None => alerts[cur] < fails)
      BY <2>1 DEF AlertBudget
    <3>. QED  BY <1>0, <2>1, <3>1, <3>2 DEF AlertBudget
  <2>3. CASE AlertFails
    BY <1>0, <2>1, <2>3 DEF AlertFails, AlertBudget
  <2>. QED  BY <1>6, <2>2, <2>3 DEF AnnounceNew
<1>7. ASSUME NEW n \in Mac, FlushRow(n) PROVE AlertBudget'
  <2>1. pc = "flush" /\ pc' = "flush" /\ registry[n] # None
    BY <1>7 DEF FlushRow, TypeOK
  <2>2. CASE WriteRow(n)
    <3>1. db'[n] \in Row
      BY <2>1, <2>2, WrittenRow DEF WriteRow, TypeOK
    <3>2. /\ db'[n] # None
          /\ \A m \in Mac \ {n} : db'[m] = db[m]
          /\ alerts' = alerts /\ fails' = fails
      BY <2>2, <3>1, NoneIsNoRecord DEF WriteRow, TypeOK
    <3>. QED  BY <2>1, <3>2 DEF AlertBudget
  <2>3. CASE WriteFails(n)
    BY <1>0, <2>1, <2>3 DEF WriteFails, AlertBudget
  <2>. QED  BY <1>7, <2>2, <2>3 DEF FlushRow
<1>8. CASE Exit \/ Crash
  BY <1>8 DEF Exit, Crash, durable, AlertBudget
<1>. QED  BY <1>1, <1>2, <1>3, <1>4, <1>5, <1>6, <1>7, <1>8, StepKinds

\* NewDeviceDetector announces a device once; every repetition, however many
\* restarts lie between, is paid for by a failed write.
THEOREM AnnouncedOncePerFailure == Spec => []AnnouncedOnce
<1>1. AlertBudget => AnnouncedOnce
  BY DEF AlertBudget, AnnouncedOnce
<1>. QED  BY <1>1, AlertInit, AlertNext, TypeCorrect, StoreNeverAhead, PTL DEF Spec

\* As long as no write has failed, a device that has been announced is on disk:
\* what the immediate upsert before the alert is there for.
THEOREM AnnouncedDevicesAreStored == Spec => []PersistedBeforeAnnounced
<1>1. TypeOK /\ AlertBudget => PersistedBeforeAnnounced
  BY DEF TypeOK, AlertBudget, PersistedBeforeAnnounced
<1>. QED  BY <1>1, AlertInit, AlertNext, TypeCorrect, StoreNeverAhead, PTL DEF Spec

-----------------------------------------------------------------------------
(* Devices that are stored and were never announced                        *)

LEMMA FaultSums ==
    ASSUME NEW a \in Nat, NEW b \in Nat, NEW c \in Nat, NEW d \in Nat, NEW n \in Nat
    PROVE  /\ a = c /\ d >= b => c + d >= a + b
           /\ n <= a + b /\ c + d >= a + b => n <= c + d
           /\ n <= a + b + 1 /\ c + d >= a + b + 1 => n <= c + d
  OBVIOUS

LEMMA SilenceInit == Init => SilenceIsPaidFor
<1>. SUFFICES ASSUME Init PROVE SilenceIsPaidFor
  OBVIOUS
<1>1. Unannounced = {}
  BY DEF Init, Unannounced, NoDevices
<1>2. crashes + fails = 0
  BY DEF Init
<1>. QED  BY <1>1, <1>2, FS_EmptySet DEF SilenceIsPaidFor

\* A step adds no device to the unannounced ones, or one, and then a crash or a
\* failed write is counted.
LEMMA SilenceStep ==
    ASSUME TypeOK, [Next]_vars
    PROVE  \/ Unannounced' \subseteq Unannounced /\ crashes' + fails' >= crashes + fails
           \/ /\ Unannounced' \subseteq Unannounced \cup {cur}
              /\ crashes' + fails' >= crashes + fails + 1
<1>0. /\ crashes \in Nat /\ fails \in Nat /\ crashes' \in Nat /\ fails' \in Nat
      /\ \A m \in Mac : alerts[m] \in Nat
  BY TypeNext DEF TypeOK
<1>1. CASE Quiet
  <2>1. UNCHANGED <<registry, db, alerts, crashes, fails>>
    BY <1>1 DEF Quiet, ReceiveFrame, ReceiveFlows, FlushTick, Stop, SkipZeroMac, FlushDone,
                Resume, StopFlush, vars, memory, durable, history
  <2>2. pc \notin {"persist", "announce"} \/ (pc' = pc /\ cur' = cur)
    BY <1>1 DEF Quiet, ReceiveFrame, ReceiveFlows, FlushTick, Stop, SkipZeroMac, FlushDone,
                vars, memory
  <2>. QED  BY <1>0, <2>1, <2>2 DEF Unannounced
<1>2. CASE Start
  <2>1. \A m \in Mac : registry'[m] # None => db[m] # None
    BY <1>2 DEF Start, Seeded
  <2>2. UNCHANGED <<db, alerts, crashes, fails>> /\ pc = "down"
    BY <1>2 DEF Start, durable, history
  <2>. QED  BY <1>0, <2>1, <2>2 DEF Unannounced
<1>3. CASE ObserveDevice
  <2>. DEFINE m == Head(frame).mac
  <2>1. UNCHANGED <<db, alerts, crashes, fails>> /\ pc = "observe"
    BY <1>3 DEF ObserveDevice, durable, history
  <2>2. \A n \in Mac : n # m => registry'[n] = registry[n]
    BY <1>3 DEF ObserveDevice, TypeOK
  <2>3. registry[m] = None => pc' = "persist" /\ cur' = m
    BY <1>3 DEF ObserveDevice, IsNew
  <2>. QED  BY <1>0, <2>1, <2>2, <2>3 DEF Unannounced
<1>4. CASE PersistNew
  <2>1. /\ pc = "persist" /\ pc' = "announce" /\ cur' = cur
        /\ UNCHANGED <<registry, alerts, crashes>>
        /\ \A n \in Mac : n # cur => db'[n] = db[n]
        /\ fails' >= fails
    BY <1>0, <1>4 DEF PersistNew, PersistStep, WriteRow, WriteFails, memory, TypeOK
  <2>2. Unannounced' \subseteq Unannounced
    BY <2>1 DEF Unannounced
  <2>. QED  BY <1>0, <2>1, <2>2, FaultSums
<1>5. CASE AnnounceNew
  <2>1. UNCHANGED <<registry, db, crashes>> /\ pc = "announce" /\ cur \in Mac
    BY <1>5 DEF AnnounceNew, AddAlert, AlertFails, TypeOK
  <2>2. CASE AddAlert(cur)
    <3>1. fails' = fails /\ alerts'[cur] # 0 /\ \A n \in Mac : n # cur => alerts'[n] = alerts[n]
      BY <1>0, <2>1, <2>2 DEF AddAlert, TypeOK
    <3>. QED  BY <1>0, <2>1, <3>1 DEF Unannounced
  <2>3. CASE AlertFails
    <3>1. fails' = fails + 1 /\ UNCHANGED alerts
      BY <2>3 DEF AlertFails
    <3>. QED  BY <1>0, <2>1, <3>1 DEF Unannounced
  <2>. QED  BY <1>5, <2>2, <2>3 DEF AnnounceNew
<1>6. CASE ApplyFlow
  <2>1. /\ UNCHANGED <<db, alerts, crashes, fails>>
        /\ pc = "flows" /\ pc' \notin {"persist", "announce"}
    BY <1>6 DEF ApplyFlow, durable, history
  <2>2. \A n \in Mac : registry'[n] # None => registry[n] # None
    <3>1. ASSUME NEW m \in Owners(registry, Head(snapshot).src),
                 registry' = CreditOwner(registry, m, Head(snapshot).src,
                                         Head(snapshot).packets, now)
          PROVE  \A n \in Mac : registry'[n] # None => registry[n] # None
      BY <1>6, <3>1, CreditedRegistry, ZenonT(60) DEF ApplyFlow, TypeOK
    <3>. QED  BY <1>6, <3>1 DEF ApplyFlow
  <2>. QED  BY <1>0, <2>1, <2>2 DEF Unannounced
<1>7. ASSUME NEW m \in Mac, FlushRow(m)
      PROVE  Unannounced' \subseteq Unannounced /\ crashes' + fails' >= crashes + fails
  <2>1. /\ pc = "flush" /\ pc' = pc /\ registry[m] # None
        /\ UNCHANGED <<registry, alerts, crashes>>
        /\ \A n \in Mac : n # m => db'[n] = db[n]
        /\ fails' >= fails
    BY <1>0, <1>7 DEF FlushRow, WriteRow, WriteFails, TypeOK
  <2>2. Unannounced' \subseteq Unannounced
    BY <2>1 DEF Unannounced
  <2>. QED  BY <1>0, <2>1, <2>2, FaultSums
<1>8. CASE Exit
  BY <1>0, <1>8 DEF Exit, Forgotten, NoDevices, Unannounced, durable
<1>9. CASE Crash
  BY <1>0, <1>9 DEF Crash, Forgotten, NoDevices, Unannounced, durable
<1>. QED  BY <1>1, <1>2, <1>3, <1>4, <1>5, <1>6, <1>7, <1>8, <1>9, StepKinds

LEMMA SilenceNext == TypeOK /\ SilenceIsPaidFor /\ [Next]_vars => SilenceIsPaidFor'
<1>. SUFFICES ASSUME TypeOK, SilenceIsPaidFor, [Next]_vars PROVE SilenceIsPaidFor'
  OBVIOUS
<1>. DEFINE old == Unannounced
            new == Unannounced'
<1>0. /\ crashes \in Nat /\ fails \in Nat /\ crashes' \in Nat /\ fails' \in Nat
      /\ IsFiniteSet(old) /\ Cardinality(old) \in Nat
      /\ Cardinality(old) <= crashes + fails
  BY TypeNext, FS_CardinalityType DEF TypeOK, SilenceIsPaidFor
<1>. HIDE DEF old, new
<1>1. ASSUME NEW S, IsFiniteSet(S), Cardinality(S) <= crashes' + fails', new \subseteq S
      PROVE  IsFiniteSet(new) /\ Cardinality(new) <= crashes' + fails'
  <2>1. IsFiniteSet(new) /\ Cardinality(new) <= Cardinality(S)
    BY <1>1, FS_Subset
  <2>2. Cardinality(new) \in Nat /\ Cardinality(S) \in Nat
    BY <1>1, <2>1, FS_CardinalityType
  <2>. QED  BY <1>0, <1>1, <2>1, <2>2
<1>2. CASE new \subseteq old /\ crashes' + fails' >= crashes + fails
  <2>1. Cardinality(old) <= crashes' + fails'
    BY <1>0, <1>2, FaultSums
  <2>. QED  BY <1>0, <1>1, <1>2, <2>1 DEF new, SilenceIsPaidFor
<1>3. CASE new \subseteq old \cup {cur} /\ crashes' + fails' >= crashes + fails + 1
  <2>1. /\ IsFiniteSet(old \cup {cur})
        /\ Cardinality(old \cup {cur}) \in {Cardinality(old), Cardinality(old) + 1}
    BY <1>0, FS_AddElement
  <2>2. Cardinality(old \cup {cur}) <= crashes' + fails'
    <3>1. /\ Cardinality(old \cup {cur}) \in Nat
          /\ Cardinality(old \cup {cur}) <= crashes + fails + 1
      BY <1>0, <2>1
    <3>. DEFINE n == Cardinality(old \cup {cur})
    <3>2. n \in Nat /\ n <= crashes + fails + 1 /\ crashes' + fails' >= crashes + fails + 1
      BY <1>3, <3>1
    <3>. HIDE DEF n
    <3>3. n <= crashes' + fails'
      BY <1>0, <3>2, FaultSums
    <3>. QED  BY <3>3 DEF n
  <2>. QED  BY <1>1, <1>3, <2>1, <2>2 DEF new, SilenceIsPaidFor
<1>. QED  BY <1>2, <1>3, SilenceStep DEF old, new

\* A crash or a failed write silences one device at most: all others that are on
\* disk have been announced.
THEOREM SilenceCostsAFault == Spec => []FewDevicesSilent
<1>1. TypeOK /\ AlertBudget /\ SilenceIsPaidFor => FewDevicesSilent
  <2>. SUFFICES ASSUME TypeOK, AlertBudget, SilenceIsPaidFor PROVE FewDevicesSilent
    OBVIOUS
  <2>1. SilentDevices \subseteq Unannounced
    BY DEF SilentDevices, Unannounced, AlertBudget
  <2>2. /\ Cardinality(SilentDevices) <= Cardinality(Unannounced)
        /\ Cardinality(SilentDevices) \in Nat /\ Cardinality(Unannounced) \in Nat
    BY <2>1, FS_Subset, FS_CardinalityType DEF SilenceIsPaidFor
  <2>3. Cardinality(Unannounced) <= crashes + fails /\ crashes \in Nat /\ fails \in Nat
    BY DEF SilenceIsPaidFor, TypeOK
  <2>. QED  BY <2>2, <2>3 DEF FewDevicesSilent
<1>. QED  BY <1>1, SilenceInit, SilenceNext, AlertInit, AlertNext, TypeCorrect,
            StoreNeverAhead, PTL DEF Spec

-----------------------------------------------------------------------------
(* The last flush                                                          *)

\* With the registry ahead of the store, an upsert's refusal to touch
\* first_seen makes no difference: the row becomes the record.
LEMMA UpsertIsReplace ==
    ASSUME TypeOK, StoreBehindRegistry, pc # "down", NEW m \in Mac, registry[m] # None
    PROVE  Upsert(db[m], registry[m]) = ToRow(registry[m])
<1>1. CASE db[m] = None
  BY <1>1 DEF Upsert
<1>2. CASE db[m] # None
  <2>1. ToRow(registry[m]) \in Row
    BY RowRoundTrip DEF TypeOK
  <2>2. ToRow(registry[m]).first = registry[m].first
    BY DEF ToRow, TypeOK, Device
  <2>3. db[m].first = registry[m].first
    BY <1>2 DEF StoreBehindRegistry, Behind
  <2>4. Upsert(db[m], registry[m]) = [ToRow(registry[m]) EXCEPT !.first = db[m].first]
    BY <1>2 DEF Upsert
  <2>. QED  BY <2>1, <2>2, <2>3, <2>4 DEF Row
<1>. QED  BY <1>1, <1>2

LEMMA FlushInit == Init => FlushedRowsAgree
  BY DEF Init, FlushedRowsAgree

LEMMA FlushNext ==
    TypeOK /\ StoreBehindRegistry /\ FlushedRowsAgree /\ [Next]_vars => FlushedRowsAgree'
<1>. SUFFICES ASSUME TypeOK, StoreBehindRegistry, FlushedRowsAgree, [Next]_vars
              PROVE  FlushedRowsAgree'
  OBVIOUS
<1>1. CASE FlushTick \/ Stop
  <2>1. unflushed' = {m \in Mac : registry'[m] # None}
    BY <1>1 DEF FlushTick, Stop, StopFlush, FlushSet
  <2>. QED  BY <2>1 DEF FlushedRowsAgree
<1>2. CASE FlushDone \/ UNCHANGED vars
  BY <1>2 DEF FlushDone, vars, memory, durable, history, FlushedRowsAgree
<1>3. ASSUME NEW n \in Mac, FlushRow(n) PROVE FlushedRowsAgree'
  <2>1. /\ pc = "flush" /\ registry' = registry /\ registry[n] # None
        /\ unflushed' = unflushed \ {n}
    BY <1>3 DEF FlushRow, TypeOK
  <2>2. CASE WriteRow(n)
    <3>1. db'[n] = ToRow(registry[n])
      BY <2>1, <2>2, UpsertIsReplace DEF WriteRow, TypeOK
    <3>2. missed' = missed \ {n} /\ \A m \in Mac \ {n} : db'[m] = db[m]
      BY <2>2 DEF WriteRow, TypeOK
    <3>. QED  BY <2>1, <3>1, <3>2 DEF FlushedRowsAgree
  <2>3. CASE WriteFails(n)
    BY <2>1, <2>3 DEF WriteFails, FlushedRowsAgree
  <2>. QED  BY <1>3, <2>2, <2>3 DEF FlushRow
<1>4. CASE pc' \notin {"flush", "stopped"}
  BY <1>4 DEF FlushedRowsAgree
<1>5. \/ FlushTick \/ Stop \/ FlushDone \/ UNCHANGED vars
      \/ \E m \in Mac : FlushRow(m)
      \/ pc' \notin {"flush", "stopped"}
  BY DEF Next, HandlerStep, Start, ReceiveFrame, ReceiveFlows, SkipZeroMac, ObserveDevice,
         PersistNew, AnnounceNew, ApplyFlow, Exit, Crash, Resume
<1>. QED  BY <1>1, <1>2, <1>3, <1>4, <1>5

\* After an orderly end every record whose last write succeeded is on disk as
\* it was in memory.
THEOREM OrderlyEndIsDurable == Spec => []StopIsDurable
<1>1. TypeOK /\ FlushedRowsAgree => StopIsDurable
  BY DEF TypeOK, FlushedRowsAgree, StopIsDurable
<1>. QED  BY <1>1, FlushInit, FlushNext, TypeCorrect, StoreNeverAhead, PTL DEF Spec

-----------------------------------------------------------------------------
(* Rows only grow                                                          *)

LEMMA RowGrows ==
    ASSUME TypeOK, StoreBehindRegistry, [Next]_vars, NEW n \in Mac, db[n] # None
    PROVE  /\ db'[n] # None
           /\ db'[n].first = db[n].first
           /\ FromI64(db[n].packets) <= FromI64(db'[n].packets)
           /\ db[n].services \subseteq db'[n].services
<1>0. FromI64(db[n].packets) <= FromI64(db[n].packets)
  <2>1. db[n].packets \in Signed
    BY DEF TypeOK, Row
  <2>. QED  BY <2>1, CounterRoundTrip, RegistryAssumption DEF Counter
<1>1. CASE PersistNew \/ \E m \in Mac : FlushRow(m)
  <2>1. PICK m \in Mac : registry[m] # None /\ (WriteRow(m) \/ WriteFails(m))
    BY <1>1, WriteAttempt
  <2>2. CASE WriteFails(m) \/ m # n
    BY <1>0, <2>1, <2>2 DEF WriteFails, WriteRow, TypeOK
  <2>3. CASE WriteRow(m) /\ m = n
    <3>. DEFINE row == Upsert(db[n], registry[n])
    <3>1. db'[n] = row
      BY <2>3 DEF WriteRow, TypeOK
    <3>2. /\ row \in Row /\ row.first = db[n].first
          /\ FromI64(row.packets) = registry[n].packets
          /\ row.services = registry[n].services
      BY <2>1, <2>3, WrittenRow
    <3>3. Behind(db[n], registry[n])
      BY <1>1, WriteAttempt DEF StoreBehindRegistry
    <3>. HIDE DEF row
    <3>. QED  BY <3>1, <3>2, <3>3, NoneIsNoRecord DEF Behind
  <2>. QED  BY <2>1, <2>2, <2>3
<1>2. CASE db' = db
  BY <1>0, <1>2
<1>3. \/ PersistNew \/ \E m \in Mac : FlushRow(m)
      \/ db' = db
  <2>1. Quiet => db' = db
    BY QuietEffect
  <2>2. ObserveDevice \/ ApplyFlow => db' = db
    BY DEF ObserveDevice, ApplyFlow, durable
  <2>3. Start \/ AnnounceNew \/ Exit \/ Crash => db' = db
    BY DEF Start, AnnounceNew, AddAlert, AlertFails, Exit, Crash, durable
  <2>. QED  BY <2>1, <2>2, <2>3, StepKinds
<1>. QED  BY <1>1, <1>2, <1>3

\* No step of the program, no crash and no restart takes a device, its first
\* sighting, a service or a counted packet from the devices table.
THEOREM DurableEvidenceNeverShrinks == Spec => DurableEvidenceGrows
<1>1. TypeOK /\ StoreBehindRegistry /\ [Next]_vars
        => [\A m \in Mac : db[m] # None =>
              /\ db'[m] # None
              /\ db'[m].first = db[m].first
              /\ FromI64(db[m].packets) <= FromI64(db'[m].packets)
              /\ db[m].services \subseteq db'[m].services]_vars
  BY RowGrows
<1>. QED  BY <1>1, TypeCorrect, StoreNeverAhead, PTL DEF Spec, DurableEvidenceGrows

-----------------------------------------------------------------------------
(* The store implements the inventory                                      *)

\* What one step may do to the store: nothing, a row, an alert, or a failure.
StoreQuiet == UNCHANGED <<db, alerts, fails>>
StoreWrites(m) ==
    /\ pc # "down" /\ registry[m] # None
    /\ db' = [db EXCEPT ![m] = Upsert(@, registry[m])]
    /\ UNCHANGED <<alerts, fails>>
StoreAnnounces == pc = "announce" /\ AddAlert(cur)
StoreFails == fails' = fails + 1 /\ UNCHANGED <<db, alerts>>

LEMMA StoreSteps ==
    ASSUME TypeOK, [Next]_vars
    PROVE  StoreQuiet \/ (\E m \in Mac : StoreWrites(m)) \/ StoreAnnounces \/ StoreFails
<1>1. CASE PersistNew \/ \E m \in Mac : FlushRow(m)
  <2>1. PICK m \in Mac : registry[m] # None /\ (WriteRow(m) \/ WriteFails(m))
    BY <1>1, WriteAttempt
  <2>2. pc # "down"
    BY <1>1, WriteAttempt
  <2>3. CASE WriteRow(m)
    BY <2>1, <2>2, <2>3 DEF WriteRow, StoreWrites
  <2>4. CASE WriteFails(m)
    BY <2>4 DEF WriteFails, StoreFails
  <2>. QED  BY <2>1, <2>3, <2>4
<1>2. CASE AnnounceNew
  BY <1>2 DEF AnnounceNew, AlertFails, StoreAnnounces, StoreFails
<1>3. CASE Quiet
  BY <1>3, QuietEffect DEF StoreQuiet
<1>4. CASE Start \/ ObserveDevice \/ ApplyFlow \/ Exit \/ Crash
  BY <1>4 DEF Start, ObserveDevice, ApplyFlow, Exit, Crash, durable, history, StoreQuiet
<1>. QED  BY <1>1, <1>2, <1>3, <1>4, StepKinds

\* A row that is written is read back as a record that continues the old one.
LEMMA WriteContinues ==
    ASSUME TypeOK, StoreBehindRegistry, RegistryIsClassified, NEW m \in Mac, StoreWrites(m)
    PROVE  Listing!List(m)
<1>. DEFINE row == Upsert(db[m], registry[m])
            d   == registry[m]
<1>1. /\ row \in Row
      /\ row.first = IF db[m] = None THEN d.first ELSE db[m].first
      /\ FromI64(row.packets) = d.packets
      /\ row.texts = d.texts /\ row.services = d.services /\ row.type = d.type
  BY WrittenRow DEF StoreWrites
<1>2. /\ FromRow(row) \in Device
      /\ FromRow(row).first = row.first /\ FromRow(row).texts = d.texts
      /\ FromRow(row).services = d.services /\ FromRow(row).type = d.type
      /\ FromRow(row).packets = d.packets
  BY <1>1, LoadedRow
<1>3. db' = [db EXCEPT ![m] = row]
  BY DEF StoreWrites
<1>4. d.type = Classify(d.texts, d.services)
  BY DEF RegistryIsClassified, StoreWrites
<1>5. ASSUME db[m] # None
      PROVE  Listing!Continues(FromRow(row), FromRow(db[m]))
  <2>1. db[m] \in Row
    BY <1>5 DEF TypeOK
  <2>2. Behind(db[m], d)
    BY <1>5 DEF StoreBehindRegistry, StoreWrites
  <2>3. row.first = db[m].first
    BY <1>1, <1>5
  <2>. HIDE DEF row, d
  <2>. QED  BY <1>2, <2>1, <2>2, <2>3, LoadedRow DEF Listing!Continues, Behind
<1>6. row # None
  BY <1>1, NoneIsNoRecord
<1>. HIDE DEF row
<1>7. /\ StoredRecords' = [StoredRecords EXCEPT ![m] = FromRow(row)]
      /\ StoredRecords'[m] = FromRow(row)
      /\ StoredRecords[m] = IF db[m] = None THEN None ELSE FromRow(db[m])
  BY <1>3, <1>6 DEF StoredRecords, TypeOK
<1>8. StoredRecords[m] # None => db[m] # None
  BY <1>7
<1>. DEFINE new == FromRow(row)
<1>9. /\ new \in Device
      /\ new.type = Classify(new.texts, new.services)
      /\ StoredRecords[m] # None => Listing!Continues(new, StoredRecords[m])
  BY <1>2, <1>4, <1>5, <1>7, <1>8
<1>10. UNCHANGED <<alerts, fails>>
  BY DEF StoreWrites
<1>11. Listing!Device = Device
  BY DEF Device, Texts, Counter, Listing!Device, Listing!Texts, Listing!Counter
<1>12. StoredRecords' = [StoredRecords EXCEPT ![m] = new] /\ StoredRecords'[m] = new
  BY <1>7
<1>. HIDE DEF new, d
<1>13. StoredRecords' = [StoredRecords EXCEPT ![m] = StoredRecords'[m]]
  BY <1>12
<1>14. StoredRecords'[m] \in Listing!Device
  BY <1>9, <1>11, <1>12
<1>15. StoredRecords'[m].type = Classify(StoredRecords'[m].texts, StoredRecords'[m].services)
  BY <1>9, <1>12
<1>16. StoredRecords[m] # None => Listing!Continues(StoredRecords'[m], StoredRecords[m])
  BY <1>9, <1>12
<1>. QED  BY <1>10, <1>13, <1>14, <1>15, <1>16 DEF Listing!List

LEMMA InventoryInit == Init => Listing!Init
  BY DEF Init, Listing!Init, StoredRecords, NoDevices

LEMMA InventoryStep ==
    TypeOK /\ StoreBehindRegistry /\ ClassInv /\ AlertBudget /\ [Next]_vars
        => [Listing!Next]_(Listing!vars)
<1>. SUFFICES ASSUME TypeOK, StoreBehindRegistry, ClassInv, AlertBudget, [Next]_vars
              PROVE  [Listing!Next]_(Listing!vars)
  OBVIOUS
<1>1. CASE StoreQuiet
  BY <1>1 DEF StoreQuiet, StoredRecords, Listing!vars
<1>2. ASSUME NEW m \in Mac, StoreWrites(m) PROVE Listing!Next
  BY <1>2, WriteContinues DEF ClassInv, Listing!Next
<1>3. CASE StoreAnnounces
  <2>1. cur \in Mac /\ alerts[cur] <= fails /\ (db[cur] = None => alerts[cur] < fails)
    BY <1>3 DEF StoreAnnounces, TypeOK, AlertBudget
  <2>2. fails > 0 \/ db[cur] # None
    BY <2>1 DEF TypeOK
  <2>3. db[cur] # None => StoredRecords[cur] # None
    BY <2>1, LoadedRow, NoneIsNoRecord DEF StoredRecords, TypeOK
  <2>4. StoredRecords' = StoredRecords
    BY <1>3 DEF StoreAnnounces, AddAlert, StoredRecords
  <2>5. Listing!Announce(cur)
    BY <1>3, <2>1, <2>2, <2>3, <2>4 DEF StoreAnnounces, AddAlert, Listing!Announce
  <2>. QED  BY <2>1, <2>5 DEF Listing!Next
<1>4. CASE StoreFails
  <2>1. StoredRecords' = StoredRecords
    BY <1>4 DEF StoreFails, StoredRecords
  <2>. QED  BY <1>4, <2>1 DEF StoreFails, Listing!Next, Listing!Fail
<1>. QED  BY <1>1, <1>2, <1>3, <1>4, StoreSteps

\* Refinement: whatever the program does, crashes and failed writes included,
\* the two tables behave as the abstract inventory.
THEOREM StoreImplementsInventory == Spec => StoreIsInventory
  BY InventoryInit, InventoryStep, TypeCorrect, StoreNeverAhead, ClassInit, ClassNext,
     AlertInit, AlertNext, PTL DEF Spec, StoreIsInventory, Listing!Spec
=============================================================================
