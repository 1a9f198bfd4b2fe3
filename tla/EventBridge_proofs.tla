------------------------- MODULE EventBridge_proofs -------------------------
(***************************************************************************)
(* Theorems about EventBridge for any number of CPUs, hosts and frames and *)
(* any capacities: no wake-up of the reader is lost, every event is        *)
(* accounted for, and a host is announced once, and again only when SEEN   *)
(* forgot it or failed to take it in or two CPUs handle frames of its at   *)
(* once.                                                                   *)
(***************************************************************************)
EXTENDS EventBridge, SequenceTheorems, FiniteSetTheorems, TLAPS

\* The task finds the ring ready whenever it has a record to read: stated where
\* it waits, and where it is about to clear the readiness.
WakeInv ==
    /\ phase = "select" /\ HeadVisible => ready \/ woken
    /\ phase = "clear" /\ HeadVisible => fresh \/ woken

\* A host that two CPUs never worked on at once is handled by one CPU at a
\* time, is looked up before it is in SEEN, and is announced once more for each
\* time it dropped out of SEEN or did not get there.
OnceInv ==
    \A m \in Mac \ together :
        /\ \A c, d \in AtWork(m) : c = d
        /\ \A c \in AtWork(m) : cpu[c].at = "insert" => m \notin seen
        /\ m \notin seen => intros[m] <= forgotten[m] + unkept[m]
        /\ intros[m] <= 1 + forgotten[m] + unkept[m]

-----------------------------------------------------------------------------
(* Operators                                                               *)

\* The codes of event kinds fit the u8 they are stored in.
LEMMA KindCodeType == KindCode \in [Kind -> 0 .. 255]
  BY DEF KindCode, Kind

\* from_u8 gives a kind, or Unknown.
LEMMA FromU8Type == ASSUME NEW code PROVE FromU8(code) \in Kind \cup {"unknown"}
  BY DEF FromU8

\* A frame gives rise to a sequence of event kinds.
LEMMA DiscoveryType == ASSUME NEW f PROVE DiscoveryEvents(f) \in Seq(Kind)
<1>1. << >> \in Seq(Kind) /\ \A k \in Kind : <<k>> \in Seq(Kind)
  OBVIOUS
<1>2. {"arp", "dhcp", "mdns", "ssdp"} \subseteq Kind
  BY DEF Kind
<1>3. UdpDiscoveryKind(f.ports) \in Seq(Kind)
  BY <1>1, <1>2 DEF UdpDiscoveryKind
<1> QED
  BY <1>1, <1>2, <1>3 DEF DiscoveryEvents

LEMMA EventsOfType == ASSUME NEW f PROVE EventsOf(f) \in Seq(Kind)
<1>1. "new_host" \in Kind
  BY DEF Kind
<1>2. (IF Unseen(f.src) THEN <<"new_host">> ELSE << >>) \in Seq(Kind)
  BY <1>1
<1> QED
  BY <1>2, DiscoveryType, ConcatProperties DEF EventsOf

\* What is left of a CPU's list is a state of the CPU.
LEMMA RestType ==
    ASSUME TypeOK, NEW c \in Cpu, cpu[c] # Idle
    PROVE  Rest(c) \in CpuState /\ (Rest(c) # Idle => Rest(c).todo # << >>)
<1>1. cpu[c] \in [at : {"insert", "reserve", "submit"}, mac : Mac, says : BOOLEAN, todo : Seq(Kind)]
  BY DEF TypeOK, CpuState
<1>2. cpu[c].todo \in Seq(Kind) /\ cpu[c].todo # << >>
  BY <1>1 DEF TypeOK
<1>3. CASE Len(cpu[c].todo) = 1
  BY <1>3 DEF Rest, CpuState, Idle
<1>4. CASE Len(cpu[c].todo) # 1
  <2>1. Tail(cpu[c].todo) \in Seq(Kind) /\ Len(Tail(cpu[c].todo)) = Len(cpu[c].todo) - 1
    BY <1>2, HeadTailProperties
  <2>2. Tail(cpu[c].todo) # << >>
    <3>1. Len(cpu[c].todo) \in Nat \ {0} /\ Len(<< >>) = 0
      BY <1>2, EmptySeq
    <3>2. Len(Tail(cpu[c].todo)) # 0
      BY <1>4, <2>1, <3>1
    <3> QED
      BY <3>1, <3>2
  <2>3. Rest(c) = [cpu[c] EXCEPT !.at = "reserve", !.todo = Tail(@)]
    BY <1>4 DEF Rest
  <2> QED
    BY <1>1, <2>1, <2>2, <2>3 DEF CpuState
<1> QED
  BY <1>3, <1>4

\* The ring's record a CPU submits: marking it visible keeps the ring a ring.
LEMMA SubmitType ==
    ASSUME TypeOK, NEW c \in Cpu
    PROVE  /\ [ring EXCEPT ![Mine(c)].owner = None] \in Seq(Record)
           /\ Len([ring EXCEPT ![Mine(c)].owner = None]) = Len(ring)
           /\ Mine(c) # 1 /\ ring # << >> =>
                 [ring EXCEPT ![Mine(c)].owner = None][1] = ring[1]
           /\ [ring EXCEPT ![Mine(c)].owner = None] # << >> => ring # << >>
<1> DEFINE i == Mine(c)
           r == [ring EXCEPT ![i].owner = None]
<1>1. ring \in Seq(Record)
  BY DEF TypeOK
<1>2. CASE i \in 1 .. Len(ring)
  <2>1. ring[i] \in Record
    BY <1>1, <1>2, ElementOfSeq
  <2>2. [ring[i] EXCEPT !.owner = None] \in Record
    BY <2>1 DEF Record
  <2>3. r = [ring EXCEPT ![i] = [ring[i] EXCEPT !.owner = None]]
    OBVIOUS
  <2> HIDE DEF i
  <2> HIDE DEF r
  <2>4. /\ r \in Seq(Record) /\ Len(r) = Len(ring)
        /\ \A j \in 1 .. Len(ring) : j # i => r[j] = ring[j]
    BY <1>1, <1>2, <2>2, <2>3, ExceptSeq
  <2>5. Len(ring) \in Nat \ {0} /\ 1 \in 1 .. Len(ring)
    BY <1>1, <1>2, LenProperties
  <2>6. ring # << >>
    BY <2>5, EmptySeq
  <2>7. i # 1 => r[1] = ring[1]
    BY <2>4, <2>5
  <2> QED
    BY <2>4, <2>6, <2>7 DEF i, r
<1>3. CASE i \notin 1 .. Len(ring)
  <2>1. ring \in [1 .. Len(ring) -> Record]
    BY <1>1, LenProperties
  <2>2. r = ring
    BY <1>3, <2>1
  <2> HIDE DEF i, r
  <2> QED
    BY <1>1, <2>2 DEF i, r
<1> QED
  BY <1>2, <1>3

-----------------------------------------------------------------------------
(* Type correctness                                                        *)

LEMMA InitTypeOK == Init => TypeOK
<1> SUFFICES ASSUME Init PROVE TypeOK
  OBVIOUS
<1>1. Cardinality({}) = 0
  BY FS_EmptySet
<1>2. << >> \in Seq(Record) /\ Len(<< >>) = 0
  BY EmptySeq
<1>3. cpu \in [Cpu -> CpuState] /\ \A c \in Cpu : cpu[c] = Idle
  BY DEF Init, CpuState
<1>4. /\ first \in [Mac -> Kind \cup {"unknown", None}]
      /\ intros \in [Mac -> Nat] /\ forgotten \in [Mac -> Nat] /\ unkept \in [Mac -> Nat]
  BY DEF Init
<1>5. seen \subseteq Mac /\ Cardinality(seen) <= SeenCap
  BY <1>1, EventBridgeAssumption DEF Init
<1>6. /\ ring \in Seq(Record) /\ Len(ring) <= RingCap
      /\ channel \in Seq(Record) /\ Len(channel) <= ChanCap
  BY <1>2, EventBridgeAssumption DEF Init
<1>7. /\ phase = "start" /\ woken = FALSE /\ ready = FALSE /\ fresh = FALSE
      /\ known = {} /\ together = {} /\ unheard = {}
      /\ frames = 0 /\ tried = 0 /\ dropped = 0 /\ received = 0
  BY DEF Init
<1>8. frames \in 0 .. MaxFrames
  BY <1>7, EventBridgeAssumption
<1> QED
  BY <1>3, <1>4, <1>5, <1>6, <1>7, <1>8 DEF TypeOK

LEMMA StepTypeOK == TypeOK /\ [Next]_vars => TypeOK'
<1> SUFFICES ASSUME TypeOK, [Next]_vars PROVE TypeOK'
  OBVIOUS
<1> USE EventBridgeAssumption
<1>1. ASSUME NEW c \in Cpu, NEW f \in Frames, Arrive(c, f) PROVE TypeOK'
  <2>1. f \in Frame /\ f.src \in Mac /\ f.says \in BOOLEAN
    BY DEF Frame
  <2>2. EventsOf(f) \in Seq(Kind)
    BY EventsOfType
  <2>3. frames' \in 0 .. MaxFrames
    BY <1>1 DEF Arrive, TypeOK
  <2>4. together' \subseteq Mac
    BY <1>1, <2>1 DEF Arrive, TypeOK
  <2>5. cpu' \in [Cpu -> CpuState] /\ \A d \in Cpu : cpu'[d] # Idle => cpu'[d].todo # << >>
    <3>1. CASE f.ether = "runt" \/ EventsOf(f) = << >>
      BY <1>1, <3>1 DEF Arrive, TypeOK
    <3>2. CASE ~(f.ether = "runt" \/ EventsOf(f) = << >>)
      <4> DEFINE s == [at |-> IF Unseen(f.src) THEN "insert" ELSE "reserve",
                       mac |-> f.src, says |-> f.says, todo |-> EventsOf(f)]
      <4>1. s \in CpuState /\ s.todo # << >>
        BY <2>1, <2>2, <3>2 DEF CpuState
      <4>2. cpu' = [cpu EXCEPT ![c] = s]
        BY <1>1, <3>2 DEF Arrive
      <4> QED
        BY <4>1, <4>2 DEF TypeOK
    <3> QED
      BY <3>1, <3>2
  <2> QED
    BY <1>1, <2>3, <2>4, <2>5
    DEF Arrive, TypeOK, wakeup, loop, losses, arrivals
<1>2. ASSUME NEW c \in Cpu, CpuStep(c) PROVE TypeOK'
  <2>1. cpu[c] # Idle /\ cpu[c].mac \in Mac /\ cpu[c].todo \in Seq(Kind) /\ cpu[c].todo # << >>
        /\ cpu[c] \in [at : {"insert", "reserve", "submit"}, mac : Mac, says : BOOLEAN,
                       todo : Seq(Kind)]
    BY <1>2
    DEF CpuStep, Insert, InsertFails, Reserve, ReserveFails, Submit, TypeOK, CpuState, Idle
  <2>2. Rest(c) \in CpuState /\ (Rest(c) # Idle => Rest(c).todo # << >>)
    BY <2>1, RestType
  <2>3. CASE Insert(c)
    <3>1. PICK gone \in SUBSET seen :
             /\ forgotten' = [o \in Mac |-> forgotten[o] + (IF o \in gone THEN 1 ELSE 0)]
             /\ seen' = (seen \ gone) \cup {cpu[c].mac}
      BY <2>3 DEF Insert, Evict
    <3>2. seen' \subseteq Mac /\ Cardinality(seen') <= SeenCap
      BY <2>1, <2>3, <3>1 DEF Insert, TypeOK
    <3>3. intros' \in [Mac -> Nat] /\ forgotten' \in [Mac -> Nat] /\ unkept' \in [Mac -> Nat]
      <4>1. /\ intros' = [intros EXCEPT ![cpu[c].mac] = @ + 1]
            /\ unkept' = unkept
        BY <2>3 DEF Insert
      <4>6. /\ intros \in [Mac -> Nat] /\ forgotten \in [Mac -> Nat] /\ unkept \in [Mac -> Nat]
            /\ cpu[c].mac \in Mac
        BY <2>1 DEF TypeOK
      <4>2. intros' \in [Mac -> Nat]
        BY <4>1, <4>6
      <4>3. unkept' \in [Mac -> Nat]
        BY <4>1, <4>6
      <4>4. ASSUME NEW o \in Mac PROVE forgotten[o] + (IF o \in gone THEN 1 ELSE 0) \in Nat
        BY <4>6
      <4>5. forgotten' \in [Mac -> Nat]
        BY <3>1, <4>4
      <4> QED
        BY <4>2, <4>3, <4>5
    <3>4. cpu' = [cpu EXCEPT ![c] = [cpu[c] EXCEPT !.at = "reserve"]]
      BY <2>3 DEF Insert
    <3>5. [cpu[c] EXCEPT !.at = "reserve"] \in CpuState
          /\ [cpu[c] EXCEPT !.at = "reserve"].todo # << >>
      BY <2>1 DEF CpuState
    <3>6. cpu' \in [Cpu -> CpuState] /\ \A d \in Cpu : cpu'[d] # Idle => cpu'[d].todo # << >>
      BY <3>4, <3>5 DEF TypeOK
    <3> QED
      <4>1. UNCHANGED <<ring, phase, wakeup, loop, losses, arrivals, frames, together, tried>>
        BY <2>3 DEF Insert
      <4> QED
        BY <3>2, <3>3, <3>6, <4>1 DEF TypeOK, wakeup, loop, losses, arrivals
  <2>7. CASE InsertFails(c)
    <3>1. PICK gone \in SUBSET seen :
             /\ forgotten' = [o \in Mac |-> forgotten[o] + (IF o \in gone THEN 1 ELSE 0)]
             /\ seen' = seen \ gone
      BY <2>7 DEF InsertFails, Evict
    <3>2. seen' \subseteq Mac /\ Cardinality(seen') <= SeenCap
      <4>1. seen \subseteq Mac /\ IsFiniteSet(seen) /\ seen' \subseteq seen
        BY <3>1, FS_Subset DEF TypeOK
      <4>2. Cardinality(seen') <= Cardinality(seen) /\ IsFiniteSet(seen')
        BY <4>1, FS_Subset
      <4>3. Cardinality(seen') \in Nat /\ Cardinality(seen) \in Nat
        BY <4>1, <4>2, FS_CardinalityType
      <4> QED
        BY <4>1, <4>2, <4>3 DEF TypeOK
    <3>3. intros' \in [Mac -> Nat] /\ forgotten' \in [Mac -> Nat] /\ unkept' \in [Mac -> Nat]
      <4>1. /\ intros' = [intros EXCEPT ![cpu[c].mac] = @ + 1]
            /\ unkept' = [unkept EXCEPT ![cpu[c].mac] = @ + 1]
        BY <2>7 DEF InsertFails
      <4>6. /\ intros \in [Mac -> Nat] /\ forgotten \in [Mac -> Nat] /\ unkept \in [Mac -> Nat]
            /\ cpu[c].mac \in Mac
        BY <2>1 DEF TypeOK
      <4>2. intros' \in [Mac -> Nat]
        BY <4>1, <4>6
      <4>3. unkept' \in [Mac -> Nat]
        BY <4>1, <4>6
      <4>4. ASSUME NEW o \in Mac PROVE forgotten[o] + (IF o \in gone THEN 1 ELSE 0) \in Nat
        BY <4>6
      <4>5. forgotten' \in [Mac -> Nat]
        BY <3>1, <4>4
      <4> QED
        BY <4>2, <4>3, <4>5
    <3>4. cpu' = [cpu EXCEPT ![c] = [cpu[c] EXCEPT !.at = "reserve"]]
      BY <2>7 DEF InsertFails
    <3>5. [cpu[c] EXCEPT !.at = "reserve"] \in CpuState
          /\ [cpu[c] EXCEPT !.at = "reserve"].todo # << >>
      BY <2>1 DEF CpuState
    <3>6. cpu' \in [Cpu -> CpuState] /\ \A d \in Cpu : cpu'[d] # Idle => cpu'[d].todo # << >>
      BY <3>4, <3>5 DEF TypeOK
    <3> QED
      <4>1. UNCHANGED <<ring, phase, wakeup, loop, losses, arrivals, frames, together, tried>>
        BY <2>7 DEF InsertFails
      <4> QED
        BY <3>2, <3>3, <3>6, <4>1 DEF TypeOK, wakeup, loop, losses, arrivals
  <2>4. CASE Reserve(c)
    <3> DEFINE r == [mac |-> cpu[c].mac, code |-> KindCode[Head(cpu[c].todo)],
                     says |-> cpu[c].says, owner |-> c]
    <3>1. Head(cpu[c].todo) \in Kind
      BY <2>1, HeadTailProperties
    <3>2. r \in Record
      BY <2>1, <3>1, KindCodeType DEF Record
    <3>3. ring' = Append(ring, r) /\ Len(ring) < RingCap
      BY <2>4 DEF Reserve
    <3>4. ring' \in Seq(Record) /\ Len(ring') = Len(ring) + 1
      BY <3>2, <3>3, AppendProperties DEF TypeOK
    <3>5. Len(ring') <= RingCap
      BY <3>3, <3>4, LenProperties DEF TypeOK
    <3>9. ring' # << >>
      BY <3>4, EmptySeq, LenProperties DEF TypeOK
    <3>6. cpu' = [cpu EXCEPT ![c] = [cpu[c] EXCEPT !.at = "submit"]]
      BY <2>4 DEF Reserve
    <3>7. [cpu[c] EXCEPT !.at = "submit"] \in CpuState
          /\ [cpu[c] EXCEPT !.at = "submit"].todo # << >>
      BY <2>1 DEF CpuState
    <3>8. cpu' \in [Cpu -> CpuState] /\ \A d \in Cpu : cpu'[d] # Idle => cpu'[d].todo # << >>
      BY <3>6, <3>7 DEF TypeOK
    <3>10. /\ UNCHANGED <<seen, phase, wakeup, loop, losses, arrivals>>
           /\ UNCHANGED <<frames, together, intros, forgotten, unkept>>
           /\ tried' \in Nat
      BY <2>4 DEF Reserve, TypeOK
    <3> QED
      BY <3>4, <3>5, <3>8, <3>9, <3>10 DEF TypeOK, wakeup, loop, losses, arrivals
  <2>5. CASE ReserveFails(c)
    <3>1. cpu' \in [Cpu -> CpuState] /\ \A d \in Cpu : cpu'[d] # Idle => cpu'[d].todo # << >>
      BY <2>2, <2>5 DEF ReserveFails, TypeOK
    <3> QED
      BY <2>1, <2>5, <3>1 DEF ReserveFails, TypeOK, wakeup, loop, arrivals
  <2>6. CASE Submit(c)
    <3>1. cpu' \in [Cpu -> CpuState] /\ \A d \in Cpu : cpu'[d] # Idle => cpu'[d].todo # << >>
      BY <2>2, <2>6 DEF Submit, TypeOK
    <3>2. ring' \in Seq(Record) /\ Len(ring') <= RingCap
      BY <2>6, SubmitType DEF Submit, TypeOK
    <3>4. phase' = "send" => ring' # << >>
      <4>1. Len(ring') = Len(ring) /\ Len(<< >>) = 0
        BY <2>6, SubmitType, EmptySeq DEF Submit
      <4>2. ring # << >> => Len(ring) # 0
        BY EmptySeq DEF TypeOK
      <4> QED
        BY <2>6, <4>1, <4>2 DEF Submit, TypeOK
    <3>3. woken' \in BOOLEAN
      BY <2>6 DEF Submit
    <3> QED
      BY <2>6, <3>1, <3>2, <3>3, <3>4
      DEF Submit, TypeOK, loop, history, counts, losses, arrivals
  <2> QED
    BY <1>2, <2>3, <2>4, <2>5, <2>6, <2>7 DEF CpuStep
<1>3. CASE Register \/ Poll \/ Readable \/ NoItem \/ ClearReady
  BY <1>3
  DEF Register, Poll, Readable, NoItem, ClearReady, ReadyAfterClear, TypeOK, program, wakeup,
      loop, history, counts, losses, arrivals
<1>4. CASE NextItem
  <2>1. ring # << >> /\ Tail(ring) \in Seq(Record) /\ Len(Tail(ring)) = Len(ring) - 1
    BY <1>4, HeadTailProperties DEF NextItem, HeadVisible, TypeOK
  <2>2. Len(ring) \in Nat
    BY LenProperties DEF TypeOK
  <2> QED
    BY <1>4, <2>1, <2>2
    DEF NextItem, LongEnough, EventLen, TypeOK, program, wakeup, loop, history, counts, losses,
        arrivals
<1>5. CASE SendEvent
  <2>1. ring # << >> /\ Head(ring) \in Record
        /\ Tail(ring) \in Seq(Record) /\ Len(Tail(ring)) = Len(ring) - 1
    BY <1>5, HeadTailProperties DEF SendEvent, TypeOK
  <2>2. Len(ring) \in Nat /\ Len(channel) \in Nat
    BY LenProperties DEF TypeOK
  <2>3. Append(channel, Head(ring)) \in Seq(Record)
        /\ Len(Append(channel, Head(ring))) = Len(channel) + 1
    BY <2>1, AppendProperties DEF TypeOK
  <2> QED
    <3>1. /\ ring' = Tail(ring) /\ channel' = Append(channel, Head(ring)) /\ phase' = "drain"
          /\ Len(channel) < ChanCap /\ UNCHANGED <<program, wakeup, known, history>>
      BY <1>5 DEF SendEvent, AfterSend
    <3> QED
      BY <2>1, <2>2, <2>3, <3>1
      DEF TypeOK, program, wakeup, history, counts, losses, arrivals
<1>6. CASE Process
  <2>1. channel # << >> /\ Head(channel) \in Record /\ Tail(channel) \in Seq(Record)
        /\ Len(Tail(channel)) = Len(channel) - 1
    BY <1>6, HeadTailProperties DEF Process, TypeOK
  <2>2. Len(channel) \in Nat
    BY LenProperties DEF TypeOK
  <2>3. Head(channel).mac \in Mac /\ FromU8(Head(channel).code) \in Kind \cup {"unknown", None}
    BY <2>1, FromU8Type DEF Record
  <2>4. known' \subseteq Mac /\ first' \in [Mac -> Kind \cup {"unknown", None}]
    BY <1>6, <2>3 DEF Process, TypeOK
  <2> QED
    <3>1. /\ channel' = Tail(channel) /\ received' = received + 1
          /\ UNCHANGED <<program, ring, phase, wakeup, counts, losses>>
      BY <1>6 DEF Process
    <3> QED
      BY <2>1, <2>2, <2>4, <3>1 DEF TypeOK, program, wakeup, counts, losses
<1>7. CASE UNCHANGED vars
  BY <1>7 DEF vars, TypeOK, program, wakeup, loop, history, counts, losses, arrivals
<1> QED
  BY <1>1, <1>2, <1>3, <1>4, <1>5, <1>6, <1>7 DEF Next, ReaderStep

-----------------------------------------------------------------------------
(* Wake-ups                                                                *)

LEMMA WakeStep == TypeOK /\ WakeInv /\ [Next]_vars => WakeInv'
<1> SUFFICES ASSUME TypeOK, WakeInv, [Next]_vars PROVE WakeInv'
  OBVIOUS
<1> USE DEF WakeInv
<1>1. CASE \E c \in Cpu, f \in Frames : Arrive(c, f)
  BY <1>1 DEF Arrive, wakeup, HeadVisible
<1>2. ASSUME NEW c \in Cpu, Insert(c) \/ InsertFails(c) PROVE WakeInv'
  BY <1>2 DEF Insert, InsertFails, wakeup, HeadVisible
<1>3. ASSUME NEW c \in Cpu, Reserve(c) PROVE WakeInv'
  \* A reserved record is not visible, and it is not the head of a ring that
  \* has one.
  <2> DEFINE r == [mac |-> cpu[c].mac, code |-> KindCode[Head(cpu[c].todo)],
                   says |-> cpu[c].says, owner |-> c]
  <2>1. ring' = Append(ring, r) /\ UNCHANGED <<phase, woken, ready, fresh>>
    BY <1>3 DEF Reserve, wakeup
  <2>2. r.owner # None
    BY EventBridgeAssumption
  <2> HIDE DEF r
  <2>3. HeadVisible' => HeadVisible
    <3>1. CASE ring = << >>
      <4>1. ring' = <<r>>
        BY <2>1, <3>1
      <4> QED
        BY <2>2, <4>1 DEF HeadVisible
    <3>2. CASE ring # << >>
      <4>1. Head(ring') = Head(ring)
        BY <2>1, <3>2, AppendProperties, EmptySeq, LenProperties DEF TypeOK
      <4> QED
        BY <3>2, <4>1 DEF HeadVisible
    <3> QED
      BY <3>1, <3>2
  <2> QED
    BY <2>1, <2>3
<1>4. ASSUME NEW c \in Cpu, ReserveFails(c) PROVE WakeInv'
  BY <1>4 DEF ReserveFails, wakeup, HeadVisible
<1>5. ASSUME NEW c \in Cpu, Submit(c) PROVE WakeInv'
  <2>1. CASE Mine(c) = 1
    BY <1>5, <2>1 DEF Submit
  <2>2. CASE Mine(c) # 1
    <3>1. ring' # << >> => ring # << >> /\ ring'[1] = ring[1]
      BY <1>5, <2>2, SubmitType DEF Submit
    <3>2. HeadVisible' => HeadVisible
      BY <3>1 DEF HeadVisible
    <3> QED
      BY <1>5, <3>2 DEF Submit
  <2> QED
    BY <2>1, <2>2
<1>6. CASE Register \/ Poll \/ Readable
  BY <1>6 DEF Register, Poll, Readable, HeadVisible
<1>7. CASE NextItem
  BY <1>7 DEF NextItem
<1>8. CASE NoItem
  BY <1>8 DEF NoItem, HeadVisible
<1>9. CASE SendEvent
  BY <1>9 DEF SendEvent, AfterSend
<1>10. CASE ClearReady
  BY <1>10 DEF ClearReady, ReadyAfterClear, HeadVisible
<1>11. CASE Process
  BY <1>11 DEF Process, wakeup, HeadVisible
<1>12. CASE UNCHANGED vars
  BY <1>12 DEF vars, wakeup, HeadVisible
<1> QED
  BY <1>1, <1>2, <1>3, <1>4, <1>5, <1>6, <1>7, <1>8, <1>9, <1>10, <1>11, <1>12
  DEF Next, CpuStep, ReaderStep

-----------------------------------------------------------------------------
(* Accounting                                                              *)

LEMMA AccountStep == TypeOK /\ EventsAccountedFor /\ [Next]_vars => EventsAccountedFor'
<1> SUFFICES ASSUME TypeOK, EventsAccountedFor, [Next]_vars PROVE EventsAccountedFor'
  OBVIOUS
<1> USE DEF EventsAccountedFor
<1>0. /\ Len(ring) \in Nat /\ Len(channel) \in Nat
      /\ tried \in Nat /\ received \in Nat /\ dropped \in Nat
  BY LenProperties DEF TypeOK
<1>1. CASE \E c \in Cpu, f \in Frames : Arrive(c, f)
  BY <1>1 DEF Arrive, loop, losses, arrivals
<1>2. ASSUME NEW c \in Cpu, Insert(c) \/ InsertFails(c) PROVE EventsAccountedFor'
  BY <1>2 DEF Insert, InsertFails, loop, losses, arrivals
<1>3. ASSUME NEW c \in Cpu, Reserve(c) PROVE EventsAccountedFor'
  <2>1. Len(ring') = Len(ring) + 1
    BY <1>3 DEF Reserve, TypeOK
  <2> QED
    BY <1>0, <1>3, <2>1 DEF Reserve, loop, losses, arrivals
<1>4. ASSUME NEW c \in Cpu, ReserveFails(c) PROVE EventsAccountedFor'
  BY <1>0, <1>4 DEF ReserveFails, loop, arrivals
<1>5. ASSUME NEW c \in Cpu, Submit(c) PROVE EventsAccountedFor'
  <2>1. Len(ring') = Len(ring)
    BY <1>5, SubmitType DEF Submit
  <2> QED
    BY <1>5, <2>1 DEF Submit, loop, history, counts, losses, arrivals
<1>6. CASE Register \/ Poll \/ Readable \/ NoItem \/ ClearReady
  BY <1>6 DEF Register, Poll, Readable, NoItem, ClearReady, loop, history, counts, losses, arrivals
<1>7. CASE NextItem
  BY <1>7 DEF NextItem, LongEnough, EventLen, loop, history, counts, losses, arrivals
<1>8. CASE SendEvent
  <2>1. Len(ring') = Len(ring) - 1 /\ Len(channel') = Len(channel) + 1
    BY <1>8, HeadTailProperties DEF SendEvent, TypeOK
  <2>2. tried' = tried /\ received' = received /\ dropped' = dropped
    BY <1>8 DEF SendEvent, history, counts, losses, arrivals
  <2> QED
    BY <1>0, <2>1, <2>2
<1>9. CASE Process
  <2>1. Len(channel') = Len(channel) - 1
    BY <1>9, HeadTailProperties DEF Process, TypeOK
  <2> QED
    BY <1>0, <1>9, <2>1 DEF Process, counts, losses
<1>10. CASE UNCHANGED vars
  BY <1>10 DEF vars, loop, history, counts, losses, arrivals
<1> QED
  BY <1>1, <1>2, <1>3, <1>4, <1>5, <1>6, <1>7, <1>8, <1>9, <1>10 DEF Next, CpuStep, ReaderStep

-----------------------------------------------------------------------------
(* Announcements                                                           *)

LEMMA OnceStep == TypeOK /\ OnceInv /\ [Next]_vars => OnceInv'
<1> SUFFICES ASSUME TypeOK, OnceInv, [Next]_vars, NEW m \in Mac, m \notin together'
             PROVE  /\ \A c, d \in AtWork(m)' : c = d
                    /\ \A c \in AtWork(m)' : cpu'[c].at = "insert" => m \notin seen'
                    /\ m \notin seen' => intros'[m] <= forgotten'[m] + unkept'[m]
                    /\ intros'[m] <= 1 + forgotten'[m] + unkept'[m]
  BY DEF OnceInv
<1> DEFINE Goal == /\ \A c, d \in AtWork(m)' : c = d
                   /\ \A c \in AtWork(m)' : cpu'[c].at = "insert" => m \notin seen'
                   /\ m \notin seen' => intros'[m] <= forgotten'[m] + unkept'[m]
                   /\ intros'[m] <= 1 + forgotten'[m] + unkept'[m]
<1>0. /\ m \notin together =>
            /\ \A c, d \in AtWork(m) : c = d
            /\ \A c \in AtWork(m) : cpu[c].at = "insert" => m \notin seen
            /\ m \notin seen => intros[m] <= forgotten[m] + unkept[m]
            /\ intros[m] <= 1 + forgotten[m] + unkept[m]
  BY DEF OnceInv
<1>1. ASSUME NEW c \in Cpu, NEW f \in Frames, Arrive(c, f) PROVE Goal
  <2>1. /\ m \notin together /\ seen' = seen /\ intros' = intros
        /\ forgotten' = forgotten /\ unkept' = unkept
    BY <1>1 DEF Arrive
  <2>2. CASE f.ether = "runt" \/ EventsOf(f) = << >>
    BY <1>0, <1>1, <2>1, <2>2 DEF Arrive, AtWork, Busy
  <2>3. CASE ~(f.ether = "runt" \/ EventsOf(f) = << >>)
    <3> DEFINE s == [at |-> IF Unseen(f.src) THEN "insert" ELSE "reserve",
                     mac |-> f.src, says |-> f.says, todo |-> EventsOf(f)]
    <3>1. cpu' = [cpu EXCEPT ![c] = s] /\ (f.src = m => AtWork(m) = {})
      BY <1>1, <2>3 DEF Arrive
    <3>2. cpu[c] = Idle /\ \A d \in Cpu : d # c => cpu'[d] = cpu[d]
      BY <1>1, <3>1 DEF Arrive, Busy, TypeOK
    <3>3. cpu'[c] = s /\ s.mac = f.src /\ (s.at = "insert" => f.src \notin seen)
      BY <3>1 DEF TypeOK, Unseen
    <3>4. AtWork(m)' \subseteq AtWork(m) \cup {c} /\ (c \in AtWork(m)' => f.src = m)
      BY <3>2, <3>3 DEF AtWork, Busy
    <3> QED
      BY <1>0, <2>1, <3>1, <3>2, <3>3, <3>4
  <2> QED
    BY <2>2, <2>3
<1>2. ASSUME NEW c \in Cpu, Insert(c) \/ InsertFails(c) PROVE Goal
  <2> DEFINE n == cpu[c].mac
  <2>1. PICK gone \in SUBSET seen :
           /\ forgotten' = [o \in Mac |-> forgotten[o] + (IF o \in gone THEN 1 ELSE 0)]
           /\ Insert(c) => seen' = (seen \ gone) \cup {n} /\ unkept' = unkept
           /\ InsertFails(c) => seen' = seen \ gone /\ unkept' = [unkept EXCEPT ![n] = @ + 1]
    BY <1>2 DEF Insert, InsertFails, Evict
  <2>2. /\ m \notin together /\ cpu[c].at = "insert" /\ cpu[c] # Idle
        /\ cpu' = [cpu EXCEPT ![c] = [cpu[c] EXCEPT !.at = "reserve"]]
        /\ intros' = [intros EXCEPT ![n] = @ + 1]
    BY <1>2 DEF Insert, InsertFails, Idle
  <2>3. cpu[c].mac \in Mac
        /\ cpu[c] \in [at : {"insert", "reserve", "submit"}, mac : Mac, says : BOOLEAN,
                       todo : Seq(Kind)]
    BY <2>2 DEF TypeOK, CpuState, Idle
  <2>4. cpu'[c].at = "reserve" /\ cpu'[c].mac = n /\ \A d \in Cpu : d # c => cpu'[d] = cpu[d]
    BY <2>2, <2>3 DEF TypeOK
  <2>5. AtWork(m)' \subseteq AtWork(m)
    BY <2>2, <2>4 DEF AtWork, Busy
  <2>8. intros[m] \in Nat /\ forgotten[m] \in Nat /\ unkept[m] \in Nat
    BY DEF TypeOK
  <2>9. /\ forgotten'[m] = forgotten[m] + (IF m \in gone THEN 1 ELSE 0)
        /\ intros'[m] = IF m = n THEN intros[m] + 1 ELSE intros[m]
        /\ unkept'[m] = IF m = n /\ ~Insert(c) THEN unkept[m] + 1 ELSE unkept[m]
    <3>1. CASE Insert(c)
      BY <2>1, <2>2, <3>1 DEF TypeOK
    <3>2. CASE ~Insert(c)
      BY <1>2, <2>1, <2>2, <3>2 DEF TypeOK
    <3> QED
      BY <3>1, <3>2
  <2>6. CASE m = n
    <3>1. c \in AtWork(m)
      BY <2>2, <2>6 DEF AtWork, Busy
    <3>2. /\ m \notin seen /\ m \notin gone /\ intros[m] <= forgotten[m] + unkept[m]
          /\ \A d \in AtWork(m) : d = c
      BY <1>0, <2>1, <2>2, <3>1
    <3>3. CASE Insert(c)
      <4>1. m \in seen' /\ intros'[m] = intros[m] + 1
            /\ forgotten'[m] = forgotten[m] /\ unkept'[m] = unkept[m]
        BY <2>1, <2>6, <2>8, <2>9, <3>2, <3>3
      <4> QED
        BY <2>4, <2>5, <2>8, <3>2, <4>1
    <3>4. CASE ~Insert(c)
      <4>1. m \notin seen' /\ intros'[m] = intros[m] + 1
            /\ forgotten'[m] = forgotten[m] /\ unkept'[m] = unkept[m] + 1
        BY <1>2, <2>1, <2>6, <2>8, <2>9, <3>2, <3>4
      <4> QED
        BY <2>4, <2>5, <2>8, <3>2, <4>1
    <3> QED
      BY <3>3, <3>4
  <2>7. CASE m # n
    <3>1. m \in seen' <=> m \in seen \ gone
      BY <1>2, <2>1, <2>7
    <3>2. intros'[m] = intros[m] /\ unkept'[m] = unkept[m]
      BY <2>7, <2>9
    <3>3. c \notin AtWork(m)
      BY <2>7 DEF AtWork
    <3>4. \A d \in AtWork(m)' : d # c /\ cpu'[d] = cpu[d]
      BY <2>4, <2>5, <3>3 DEF AtWork
    <3>5. /\ m \notin seen' => intros'[m] <= forgotten'[m] + unkept'[m]
          /\ intros'[m] <= 1 + forgotten'[m] + unkept'[m]
      BY <1>0, <2>2, <2>8, <2>9, <3>1, <3>2
    <3> QED
      BY <1>0, <2>2, <2>5, <3>1, <3>4, <3>5
  <2> QED
    BY <2>6, <2>7
<1>3. ASSUME NEW c \in Cpu, cpu[c].at \in {"reserve", "submit"},
             \/ cpu' = [cpu EXCEPT ![c].at = "submit"]
             \/ cpu' = [cpu EXCEPT ![c] = Rest(c)],
             UNCHANGED <<seen, together, intros, forgotten, unkept>>
      PROVE  Goal
  <2>1. cpu[c] # Idle
        /\ cpu[c] \in [at : {"insert", "reserve", "submit"}, mac : Mac, says : BOOLEAN,
                       todo : Seq(Kind)]
    BY <1>3 DEF TypeOK, CpuState, Idle
  <2>2. Rest(c) = Idle \/ (Rest(c).at = "reserve" /\ Rest(c).mac = cpu[c].mac)
    BY <2>1 DEF Rest
  <2>3. cpu'[c] = Idle \/ (cpu'[c].at # "insert" /\ cpu'[c].mac = cpu[c].mac)
    BY <1>3, <2>1, <2>2 DEF TypeOK
  <2>4. \A d \in Cpu : d # c => cpu'[d] = cpu[d]
    BY <1>3 DEF TypeOK
  <2>5. AtWork(m)' \subseteq AtWork(m)
    BY <2>1, <2>3, <2>4 DEF AtWork, Busy
  <2>6. \A d \in AtWork(m)' : cpu'[d].at = "insert" => cpu[d].at = "insert"
    BY <2>3, <2>4 DEF AtWork, Busy
  <2> QED
    BY <1>0, <1>3, <2>5, <2>6
<1>4. ASSUME NEW c \in Cpu, Reserve(c) \/ ReserveFails(c) \/ Submit(c) PROVE Goal
  BY <1>3, <1>4 DEF Reserve, ReserveFails, Submit, history, counts
<1>5. CASE UNCHANGED <<cpu, seen, together, intros, forgotten, unkept>>
  BY <1>0, <1>5 DEF AtWork, Busy
<1>6. CASE Register \/ Poll \/ Readable \/ ReaderStep \/ Process \/ UNCHANGED vars
  BY <1>5, <1>6
  DEF Register, Poll, Readable, ReaderStep, NextItem, NoItem, SendEvent, ClearReady, Process,
      vars, program, history, counts
<1> QED
  BY <1>1, <1>2, <1>4, <1>6 DEF Next, CpuStep

-----------------------------------------------------------------------------
(* Introductions                                                           *)

\* The records on their way, oldest first: those that were sent on are ahead of
\* those in the ring.
Path == channel \o ring

NewHost(i, m) == Path[i].mac = m /\ Path[i].code = KindCode["new_host"]
Introduced(m) == first[m] # None \/ \E i \in 1 .. Len(Path) : NewHost(i, m)

\* What was processed first is the introduction; as long as nothing was, every
\* record of the host comes after one that introduces it.
InOrder(m) ==
    /\ first[m] \in {None, "new_host"}
    /\ first[m] = None =>
          \A i \in 1 .. Len(Path) : Path[i].mac = m => \E j \in 1 .. i : NewHost(j, m)

\* A CPU turns to the frame's own event only when the host's introduction is on
\* its way; SEEN holds the host only if it is, or if a CPU is about to send it.
ToSay(c) == Head(cpu[c].todo)
Speaking(c, m) ==
    IF ToSay(c) = "new_host" THEN cpu[c].at = "submit" => Introduced(m)
    ELSE cpu[c].at # "insert" /\ Introduced(m)
Introducing(m) ==
    \E c \in AtWork(m) : cpu[c].at = "reserve" /\ ToSay(c) = "new_host"

IntroInv ==
    \A m \in Mac \ (together \cup unheard) :
        /\ InOrder(m)
        /\ \A c \in AtWork(m) : Speaking(c, m)
        /\ m \in seen => Introduced(m) \/ Introducing(m)

LEMMA PathType ==
    ASSUME TypeOK
    PROVE  /\ Path \in Seq(Record) /\ Len(Path) \in Nat
           /\ Len(Path) = Len(channel) + Len(ring)
           /\ \A i \in 1 .. Len(Path) :
                 Path[i] = IF i <= Len(channel) THEN channel[i] ELSE ring[i - Len(channel)]
<1>1. channel \in Seq(Record) /\ ring \in Seq(Record)
  BY DEF TypeOK
<1>2. /\ Path \in Seq(Record) /\ Len(Path) = Len(channel) + Len(ring)
      /\ \A i \in 1 .. Len(channel) + Len(ring) :
            Path[i] = IF i <= Len(channel) THEN channel[i] ELSE ring[i - Len(channel)]
  BY <1>1, ConcatProperties DEF Path
<1>3. Len(Path) \in Nat
  BY <1>2, LenProperties
<1> QED
  BY <1>2, <1>3

\* A record that is reserved goes to the end of the path.
LEMMA PathReserve ==
    ASSUME TypeOK, NEW r \in Record, ring' = Append(ring, r), channel' = channel
    PROVE  /\ Len(Path') = Len(Path) + 1 /\ Path'[Len(Path) + 1] = r
           /\ \A i \in 1 .. Len(Path) : Path'[i] = Path[i]
<1>1. /\ ring' \in Seq(Record) /\ Len(ring') = Len(ring) + 1 /\ ring'[Len(ring) + 1] = r
      /\ \A i \in 1 .. Len(ring) : ring'[i] = ring[i]
  BY AppendProperties DEF TypeOK
<1>2. channel \in Seq(Record) /\ Len(channel) \in Nat /\ Len(ring) \in Nat
  BY LenProperties DEF TypeOK
<1>3. Path' = channel \o ring'
  BY DEF Path
<1>4. /\ Len(Path') = Len(channel) + Len(ring')
      /\ \A i \in 1 .. Len(channel) + Len(ring') :
            Path'[i] = IF i <= Len(channel) THEN channel[i] ELSE ring'[i - Len(channel)]
  BY <1>1, <1>2, <1>3, ConcatProperties
<1>5. /\ Len(Path) = Len(channel) + Len(ring)
      /\ \A i \in 1 .. Len(Path) :
            Path[i] = IF i <= Len(channel) THEN channel[i] ELSE ring[i - Len(channel)]
  BY PathType
<1>6. Len(Path') = Len(Path) + 1
  BY <1>1, <1>2, <1>4, <1>5
<1>7. Path'[Len(Path) + 1] = r
  BY <1>1, <1>2, <1>4, <1>5
<1>8. ASSUME NEW i \in 1 .. Len(Path) PROVE Path'[i] = Path[i]
  <2>1. i \in 1 .. Len(channel) + Len(ring) /\ i \in 1 .. Len(channel) + Len(ring')
    BY <1>1, <1>2, <1>5
  <2>2. CASE i <= Len(channel)
    BY <1>4, <1>5, <2>1, <2>2
  <2>3. CASE i > Len(channel)
    <3>1. i - Len(channel) \in 1 .. Len(ring)
      BY <1>2, <2>1, <2>3
    <3>2. Path'[i] = ring'[i - Len(channel)] /\ Path[i] = ring[i - Len(channel)]
      BY <1>2, <1>4, <1>5, <2>1, <2>3
    <3> QED
      BY <1>1, <3>1, <3>2
  <2> QED
    BY <1>2, <2>1, <2>2, <2>3
<1> QED
  BY <1>6, <1>7, <1>8

\* Sending a record on leaves the path as it is.
LEMMA PathSend ==
    ASSUME TypeOK, ring # << >>, channel' = Append(channel, Head(ring)), ring' = Tail(ring)
    PROVE  Path' = Path
<1>1. /\ Head(ring) \in Record /\ Head(ring) = ring[1]
      /\ ring' \in Seq(Record) /\ Len(ring') = Len(ring) - 1
      /\ \A i \in 1 .. Len(ring') : ring'[i] = ring[i + 1]
  BY HeadTailProperties DEF TypeOK
<1>2. /\ channel' \in Seq(Record) /\ Len(channel') = Len(channel) + 1
      /\ channel'[Len(channel) + 1] = ring[1]
      /\ \A i \in 1 .. Len(channel) : channel'[i] = channel[i]
  BY <1>1, AppendProperties DEF TypeOK
<1>3. Len(channel) \in Nat /\ Len(ring) \in Nat \ {0}
  BY LenProperties, EmptySeq DEF TypeOK
<1>4. /\ Path' \in Seq(Record) /\ Len(Path') = Len(channel') + Len(ring')
      /\ \A i \in 1 .. Len(channel') + Len(ring') :
            Path'[i] = IF i <= Len(channel') THEN channel'[i] ELSE ring'[i - Len(channel')]
  BY <1>1, <1>2, ConcatProperties DEF Path
<1>5. /\ Path \in Seq(Record) /\ Len(Path) = Len(channel) + Len(ring)
      /\ \A i \in 1 .. Len(Path) :
            Path[i] = IF i <= Len(channel) THEN channel[i] ELSE ring[i - Len(channel)]
  BY PathType
<1>6. Len(Path') = Len(Path)
  BY <1>1, <1>2, <1>3, <1>4, <1>5
<1>7. ASSUME NEW i \in 1 .. Len(Path) PROVE Path'[i] = Path[i]
  <2>1. i \in Nat \ {0} /\ i <= Len(channel) + Len(ring)
    BY <1>3, <1>5
  <2>0. i \in 1 .. Len(channel') + Len(ring')
    BY <1>1, <1>2, <1>3, <2>1
  <2>2. CASE i <= Len(channel)
    <3>1. Path'[i] = channel'[i] /\ Path[i] = channel[i] /\ i \in 1 .. Len(channel)
      BY <1>2, <1>3, <1>4, <1>5, <2>0, <2>1, <2>2
    <3> QED
      BY <1>2, <3>1
  <2>3. CASE i = Len(channel) + 1
    <3>1. Path'[i] = channel'[i]
      BY <1>2, <1>3, <1>4, <2>0, <2>3
    <3>2. Path[i] = ring[i - Len(channel)] /\ i - Len(channel) = 1
      BY <1>3, <1>5, <2>3
    <3> QED
      BY <1>2, <2>3, <3>1, <3>2
  <2>4. CASE i > Len(channel) + 1
    <3>1. i - Len(channel') \in 1 .. Len(ring') /\ (i - Len(channel')) + 1 = i - Len(channel)
      BY <1>1, <1>2, <1>3, <2>1, <2>4
    <3>2. Path'[i] = ring'[i - Len(channel')]
      <4>1. ~(i <= Len(channel'))
        BY <1>2, <1>3, <2>1, <2>4
      <4> QED
        BY <1>4, <2>0, <4>1
    <3>3. Path[i] = ring[i - Len(channel)]
      BY <1>3, <1>5, <2>4
    <3> QED
      BY <1>1, <3>1, <3>2, <3>3
  <2> QED
    BY <1>3, <2>1, <2>2, <2>3, <2>4
<1> QED
  BY <1>4, <1>5, <1>6, <1>7, SeqEqual

\* Processing a record takes it off the front of the path.
LEMMA PathProcess ==
    ASSUME TypeOK, channel # << >>, channel' = Tail(channel), ring' = ring
    PROVE  /\ Len(Path) \in Nat \ {0} /\ Len(Path') = Len(Path) - 1
           /\ Head(channel) = Path[1] /\ Path[1] \in Record
           /\ \A i \in 1 .. Len(Path) - 1 : Path'[i] = Path[i + 1]
<1>1. /\ Head(channel) \in Record /\ Head(channel) = channel[1]
      /\ channel' \in Seq(Record) /\ Len(channel') = Len(channel) - 1
      /\ \A i \in 1 .. Len(channel') : channel'[i] = channel[i + 1]
  BY HeadTailProperties DEF TypeOK
<1>2. Len(channel) \in Nat \ {0} /\ Len(ring) \in Nat /\ ring \in Seq(Record)
  BY LenProperties, EmptySeq DEF TypeOK
<1>3. /\ Len(Path') = Len(channel') + Len(ring)
      /\ \A i \in 1 .. Len(channel') + Len(ring) :
            Path'[i] = IF i <= Len(channel') THEN channel'[i] ELSE ring[i - Len(channel')]
  <2>1. Path' = channel' \o ring
    BY DEF Path
  <2> QED
    BY <1>1, <1>2, <2>1, ConcatProperties
<1>4. /\ Len(Path) = Len(channel) + Len(ring)
      /\ \A i \in 1 .. Len(Path) :
            Path[i] = IF i <= Len(channel) THEN channel[i] ELSE ring[i - Len(channel)]
  BY PathType
<1>5. Len(Path) \in Nat \ {0} /\ Len(Path') = Len(Path) - 1
  BY <1>1, <1>2, <1>3, <1>4
<1>6. Head(channel) = Path[1] /\ Path[1] \in Record
  BY <1>1, <1>2, <1>4
<1>7. ASSUME NEW i \in 1 .. Len(Path) - 1 PROVE Path'[i] = Path[i + 1]
  <2>1. i \in 1 .. Len(channel') + Len(ring) /\ i + 1 \in 1 .. Len(Path)
    BY <1>1, <1>2, <1>4
  <2>2. CASE i <= Len(channel')
    BY <1>1, <1>2, <1>3, <1>4, <2>1, <2>2
  <2>3. CASE i > Len(channel')
    <3>1. Path'[i] = ring[i - Len(channel')] /\ i - Len(channel') = (i + 1) - Len(channel)
      BY <1>1, <1>2, <1>3, <2>1, <2>3
    <3>2. Path[i + 1] = ring[(i + 1) - Len(channel)]
      BY <1>1, <1>2, <1>4, <2>1, <2>3
    <3> QED
      BY <3>1, <3>2
  <2> QED
    BY <1>1, <1>2, <2>1, <2>2, <2>3
<1> QED
  BY <1>5, <1>6, <1>7

\* Submitting a record changes neither its host nor its kind.
LEMMA PathSubmit ==
    ASSUME TypeOK, NEW c \in Cpu, ring' = [ring EXCEPT ![Mine(c)].owner = None],
           channel' = channel
    PROVE  /\ Len(Path') = Len(Path)
           /\ \A i \in 1 .. Len(Path) : Path'[i].mac = Path[i].mac /\ Path'[i].code = Path[i].code
<1>1. ring' \in Seq(Record) /\ Len(ring') = Len(ring)
  BY SubmitType
<1>2. \A i \in 1 .. Len(ring) : ring'[i].mac = ring[i].mac /\ ring'[i].code = ring[i].code
  <2>1. \A i \in 1 .. Len(ring) :
           ring'[i] = IF i = Mine(c) THEN [ring[i] EXCEPT !.owner = None] ELSE ring[i]
    BY LenProperties DEF TypeOK
  <2>2. \A i \in 1 .. Len(ring) : ring[i] \in Record
    BY ElementOfSeq DEF TypeOK
  <2> QED
    BY <2>1, <2>2 DEF Record
<1>3. channel \in Seq(Record) /\ Len(channel) \in Nat /\ Len(ring) \in Nat
  BY LenProperties DEF TypeOK
<1>4. /\ Len(Path') = Len(channel) + Len(ring')
      /\ \A i \in 1 .. Len(channel) + Len(ring') :
            Path'[i] = IF i <= Len(channel) THEN channel[i] ELSE ring'[i - Len(channel)]
  <2>1. Path' = channel \o ring'
    BY DEF Path
  <2> QED
    BY <1>1, <1>3, <2>1, ConcatProperties
<1>5. /\ Len(Path) = Len(channel) + Len(ring)
      /\ \A i \in 1 .. Len(Path) :
            Path[i] = IF i <= Len(channel) THEN channel[i] ELSE ring[i - Len(channel)]
  BY PathType
<1>6. Len(Path') = Len(Path)
  BY <1>1, <1>4, <1>5
<1>7. ASSUME NEW i \in 1 .. Len(Path)
      PROVE  Path'[i].mac = Path[i].mac /\ Path'[i].code = Path[i].code
  <2>1. CASE i <= Len(channel)
    BY <1>1, <1>3, <1>4, <1>5, <2>1
  <2>2. CASE i > Len(channel)
    <3>1. i - Len(channel) \in 1 .. Len(ring)
      BY <1>3, <1>5, <2>2
    <3>2. Path'[i] = ring'[i - Len(channel)] /\ Path[i] = ring[i - Len(channel)]
      BY <1>1, <1>3, <1>4, <1>5, <2>2
    <3> QED
      BY <1>2, <3>1, <3>2
  <2> QED
    BY <1>3, <1>5, <2>1, <2>2
<1> QED
  BY <1>6, <1>7

\* The code of a new_host record is decoded as such, and no code as nothing.
LEMMA NewHostCode == FromU8(KindCode["new_host"]) = "new_host"
  BY DEF FromU8, KindCode, Kind

\* As long as the records on their way are the same, and nothing is processed,
\* hosts are introduced as before.
LEMMA SamePath ==
    ASSUME NEW m \in Mac, first' = first, Len(Path') = Len(Path),
           \A i \in 1 .. Len(Path) : Path'[i].mac = Path[i].mac /\ Path'[i].code = Path[i].code,
           InOrder(m), Len(Path) \in Nat
    PROVE  InOrder(m)' /\ (Introduced(m) => Introduced(m)')
<1>1. \A i \in 1 .. Len(Path) : NewHost(i, m) <=> NewHost(i, m)'
  BY DEF NewHost
<1>2. Introduced(m) => Introduced(m)'
  BY <1>1 DEF Introduced
<1>3. ASSUME first'[m] = None, NEW i \in 1 .. Len(Path'), Path'[i].mac = m
      PROVE  \E j \in 1 .. i : NewHost(j, m)'
  <2>1. PICK j \in 1 .. i : NewHost(j, m)
    BY <1>3 DEF InOrder
  <2>2. j \in 1 .. Len(Path)
    BY <2>1
  <2> QED
    BY <1>1, <2>1, <2>2
<1> QED
  BY <1>2, <1>3 DEF InOrder

\* A CPU that goes on with its list disturbs no host, provided its own is
\* introduced.
LEMMA GoesOn ==
    ASSUME TypeOK, NEW m \in Mac, NEW c \in Cpu, cpu[c] # Idle,
           \A d \in Cpu : d # c => cpu'[d] = cpu[d],
           cpu'[c] = Idle \/ (cpu'[c].mac = cpu[c].mac /\ cpu'[c].at # "insert"),
           seen' = seen,
           Introduced(m) => Introduced(m)',
           cpu[c].mac = m => Introduced(m)',
           \A d \in AtWork(m) : Speaking(d, m),
           m \in seen => Introduced(m) \/ Introducing(m)
    PROVE  /\ \A d \in AtWork(m)' : Speaking(d, m)'
           /\ m \in seen' => Introduced(m)' \/ Introducing(m)'
<1>1. AtWork(m)' \subseteq AtWork(m)
  BY DEF AtWork, Busy
<1>2. ASSUME NEW d \in AtWork(m)' PROVE Speaking(d, m)'
  <2>1. CASE d = c
    <3>1. cpu'[c].at # "insert" /\ cpu[c].mac = m
      BY <1>1, <1>2, <2>1 DEF AtWork, Busy
    <3> QED
      BY <2>1, <3>1 DEF Speaking
  <2>2. CASE d # c
    <3>1. cpu'[d] = cpu[d] /\ Speaking(d, m)
      BY <1>1, <1>2, <2>2 DEF AtWork
    <3> QED
      BY <3>1 DEF Speaking, ToSay
  <2> QED
    BY <2>1, <2>2
<1>3. ASSUME m \in seen' PROVE Introduced(m)' \/ Introducing(m)'
  <2>1. CASE Introducing(m) /\ cpu[c].mac # m
    <3>1. PICK d \in AtWork(m) : cpu[d].at = "reserve" /\ ToSay(d) = "new_host"
      BY <2>1 DEF Introducing
    <3>2. d \in Cpu /\ cpu'[d] = cpu[d] /\ d \in AtWork(m)'
      BY <2>1, <3>1 DEF AtWork, Busy
    <3> QED
      BY <3>1, <3>2 DEF Introducing, ToSay
  <2> QED
    BY <1>3, <2>1
<1> QED
  BY <1>2, <1>3

LEMMA IntroStep == TypeOK /\ IntroInv /\ [Next]_vars => IntroInv'
<1> SUFFICES ASSUME TypeOK, IntroInv, [Next]_vars,
                    NEW m \in Mac, m \notin together' \cup unheard'
             PROVE  /\ InOrder(m)'
                    /\ \A c \in AtWork(m)' : Speaking(c, m)'
                    /\ m \in seen' => Introduced(m)' \/ Introducing(m)'
  BY DEF IntroInv
<1> DEFINE Before == /\ InOrder(m)
                     /\ \A c \in AtWork(m) : Speaking(c, m)
                     /\ m \in seen => Introduced(m) \/ Introducing(m)
           Goal   == /\ InOrder(m)'
                     /\ \A c \in AtWork(m)' : Speaking(c, m)'
                     /\ m \in seen' => Introduced(m)' \/ Introducing(m)'
<1>0. m \notin together \cup unheard => Before
  BY DEF IntroInv
<1> HIDE DEF Before
<1>1. Len(Path) \in Nat
  BY PathType
<1>2. ASSUME NEW c \in Cpu, NEW f \in Frames, Arrive(c, f) PROVE Goal
  <2>1. UNCHANGED <<seen, channel, ring, first, unheard>> /\ m \notin together \cup unheard
    BY <1>2 DEF Arrive, loop, losses, arrivals
  <2>2. Path' = Path /\ Before
    BY <1>0, <2>1 DEF Path
  <2>3. InOrder(m)' /\ (Introduced(m) => Introduced(m)')
    BY <1>1, <2>1, <2>2, SamePath DEF Before
  <2>4. CASE f.ether = "runt" \/ EventsOf(f) = << >>
    <3>1. cpu' = cpu
      BY <1>2, <2>4 DEF Arrive
    <3> QED
      BY <2>1, <2>2, <2>3, <3>1 DEF Before, AtWork, Busy, Speaking, ToSay, Introducing
  <2>5. CASE ~(f.ether = "runt" \/ EventsOf(f) = << >>)
    <3> DEFINE s == [at |-> IF Unseen(f.src) THEN "insert" ELSE "reserve",
                     mac |-> f.src, says |-> f.says, todo |-> EventsOf(f)]
    <3>1. cpu' = [cpu EXCEPT ![c] = s] /\ (f.src = m => AtWork(m) = {}) /\ cpu[c] = Idle
      BY <1>2, <2>5 DEF Arrive, Busy
    <3>2. cpu'[c] = s /\ \A d \in Cpu : d # c => cpu'[d] = cpu[d]
      BY <3>1 DEF TypeOK
    <3>3. CASE f.src = m
      <4>1. AtWork(m)' \subseteq {c} /\ (m \in seen => Introduced(m))
        BY <2>2, <3>1, <3>2, <3>3 DEF Before, AtWork, Busy, Introducing
      <4>2. Speaking(c, m)'
        <5>1. CASE m \in seen
          <6>1. cpu'[c].at = "reserve" /\ Introduced(m)'
            BY <2>3, <3>2, <3>3, <4>1, <5>1 DEF Unseen
          <6> QED
            BY <6>1 DEF Speaking
        <5>2. CASE m \notin seen
          <6>1. s.at = "insert" /\ s.todo = <<"new_host">> \o DiscoveryEvents(f)
            BY <3>3, <5>2 DEF Unseen, EventsOf
          <6>2. <<"new_host">> \in Seq(Kind) /\ Len(<<"new_host">>) = 1
            BY DEF Kind
          <6>3. DiscoveryEvents(f) \in Seq(Kind)
            BY DiscoveryType
          <6>4. s.todo[1] = "new_host" /\ Len(s.todo) # 0
            BY <6>1, <6>2, <6>3, ConcatProperties, LenProperties
          <6>5. Head(s.todo) = "new_host"
            BY <6>4
          <6> QED
            BY <3>2, <6>1, <6>5 DEF Speaking, ToSay
        <5> QED
          BY <5>1, <5>2
      <4> QED
        BY <2>1, <2>3, <4>1, <4>2
    <3>4. CASE f.src # m
      <4>1. AtWork(m)' = AtWork(m) /\ \A d \in AtWork(m) : cpu'[d] = cpu[d]
        BY <3>1, <3>2, <3>4 DEF AtWork, Busy
      <4> QED
        BY <2>1, <2>2, <2>3, <4>1 DEF Before, Speaking, ToSay, Introducing
    <3> QED
      BY <3>3, <3>4
  <2> QED
    BY <2>4, <2>5
<1>3. ASSUME NEW c \in Cpu, Insert(c) \/ InsertFails(c) PROVE Goal
  <2>1. /\ UNCHANGED <<channel, ring, first, unheard>> /\ Before /\ cpu[c].at = "insert"
        /\ cpu' = [cpu EXCEPT ![c] = [cpu[c] EXCEPT !.at = "reserve"]]
        /\ seen' \subseteq seen \cup {cpu[c].mac}
    BY <1>0, <1>3 DEF Insert, InsertFails, loop, losses, arrivals
  <2>2. cpu[c] # Idle
        /\ cpu[c] \in [at : {"insert", "reserve", "submit"}, mac : Mac, says : BOOLEAN,
                       todo : Seq(Kind)]
    BY <2>1 DEF TypeOK, CpuState, Idle
  <2>3. /\ cpu'[c].at = "reserve" /\ cpu'[c].mac = cpu[c].mac /\ cpu'[c].todo = cpu[c].todo
        /\ \A d \in Cpu : d # c => cpu'[d] = cpu[d]
    BY <2>1, <2>2 DEF TypeOK
  <2>4. Path' = Path
    BY <2>1 DEF Path
  <2>5. InOrder(m)' /\ (Introduced(m) => Introduced(m)')
    BY <1>1, <2>1, <2>4, SamePath DEF Before
  <2>6. cpu'[c] # Idle
    BY <2>3 DEF Idle
  <2>7. AtWork(m)' = AtWork(m)
    BY <2>2, <2>3, <2>6 DEF AtWork, Busy
  <2>8. ASSUME NEW d \in AtWork(m) PROVE Speaking(d, m)'
    <3>1. Speaking(d, m) /\ d \in Cpu
      BY <2>1, <2>8 DEF Before, AtWork
    <3>2. CASE d = c
      BY <2>1, <2>3, <3>1, <3>2 DEF Speaking, ToSay
    <3>3. CASE d # c
      BY <2>3, <2>5, <3>1, <3>3 DEF Speaking, ToSay
    <3> QED
      BY <3>2, <3>3
  <2>9. m \in seen' => Introduced(m)' \/ Introducing(m)'
    <3>1. CASE cpu[c].mac = m
      <4>1. c \in AtWork(m)
        BY <2>2, <3>1 DEF AtWork, Busy
      <4>2. ToSay(c) = "new_host"
        BY <2>1, <4>1 DEF Before, Speaking
      <4> QED
        BY <2>3, <2>7, <4>1, <4>2 DEF Introducing, ToSay
    <3>2. CASE cpu[c].mac # m
      <4>1. m \in seen' => Introduced(m) \/ Introducing(m)
        BY <2>1, <3>2 DEF Before
      <4>2. \A d \in AtWork(m) : cpu'[d] = cpu[d]
        BY <2>3, <3>2 DEF AtWork
      <4> QED
        BY <2>5, <2>7, <4>1, <4>2 DEF Introducing, ToSay
    <3> QED
      BY <3>1, <3>2
  <2> QED
    BY <2>5, <2>7, <2>8, <2>9
<1>4. ASSUME NEW c \in Cpu, Reserve(c) PROVE Goal
  <2> DEFINE r == [mac |-> cpu[c].mac, code |-> KindCode[ToSay(c)], says |-> cpu[c].says, owner |-> c]
  <2>1. /\ ring' = Append(ring, r) /\ UNCHANGED <<channel, first, seen, unheard>> /\ Before
        /\ cpu[c].at = "reserve" /\ cpu' = [cpu EXCEPT ![c] = [cpu[c] EXCEPT !.at = "submit"]]
    BY <1>0, <1>4 DEF Reserve, ToSay, loop, losses, arrivals
  <2>2. cpu[c] # Idle
        /\ cpu[c] \in [at : {"insert", "reserve", "submit"}, mac : Mac, says : BOOLEAN,
                       todo : Seq(Kind)]
        /\ cpu[c].todo # << >>
    BY <2>1 DEF TypeOK, CpuState, Idle
  <2>3. /\ cpu'[c].mac = cpu[c].mac /\ cpu'[c].at # "insert"
        /\ \A d \in Cpu : d # c => cpu'[d] = cpu[d]
    BY <2>1, <2>2 DEF TypeOK
  <2>4. r \in Record
    <3>1. ToSay(c) \in Kind
      BY <2>2, HeadTailProperties DEF ToSay
    <3> QED
      BY <2>2, <3>1, KindCodeType DEF Record
  <2> HIDE DEF r
  <2>5. /\ Len(Path') = Len(Path) + 1 /\ Path'[Len(Path) + 1] = r
        /\ \A i \in 1 .. Len(Path) : Path'[i] = Path[i]
    BY <2>1, <2>4, PathReserve
  <2>6. \A i \in 1 .. Len(Path) : NewHost(i, m)' <=> NewHost(i, m)
    BY <2>5 DEF NewHost
  <2>7. Introduced(m) => Introduced(m)'
    BY <1>1, <2>1, <2>5, <2>6 DEF Introduced
  <2>8. cpu[c].mac = m /\ ToSay(c) = "new_host" =>
           \E i \in 1 .. Len(Path') : NewHost(i, m)'
    <3>1. Len(Path) + 1 \in 1 .. Len(Path')
      BY <1>1, <2>5
    <3>2. ASSUME cpu[c].mac = m, ToSay(c) = "new_host", NEW i \in 1 .. Len(Path'),
                 i = Len(Path) + 1
          PROVE  NewHost(i, m)'
      BY <2>5, <3>2 DEF NewHost, r
    <3> QED
      BY <3>1, <3>2
  <2>9. cpu[c].mac = m => Introduced(m)'
    <3> SUFFICES ASSUME cpu[c].mac = m PROVE Introduced(m)'
      OBVIOUS
    <3>1. CASE ToSay(c) = "new_host"
      BY <2>8, <3>1 DEF Introduced
    <3>2. CASE ToSay(c) # "new_host"
      <4>1. c \in AtWork(m)
        BY <2>2 DEF AtWork, Busy
      <4>2. Introduced(m)
        BY <2>1, <3>2, <4>1 DEF Before, Speaking
      <4> QED
        BY <2>7, <4>2
    <3> QED
      BY <3>1, <3>2
  <2>10. InOrder(m)'
    <3>1. ASSUME first'[m] = None, NEW i \in 1 .. Len(Path'), Path'[i].mac = m
          PROVE  \E j \in 1 .. i : NewHost(j, m)'
      <4>1. CASE i \in 1 .. Len(Path)
        <5>1. PICK j \in 1 .. i : NewHost(j, m)
          BY <2>1, <2>5, <3>1, <4>1 DEF Before, InOrder
        <5>2. j \in 1 .. Len(Path)
          BY <1>1, <4>1, <5>1
        <5> QED
          BY <2>6, <5>1, <5>2
      <4>2. CASE i = Len(Path) + 1
        <5>1. cpu[c].mac = m
          BY <2>5, <3>1, <4>2 DEF r
        <5>2. PICK j \in 1 .. Len(Path') : NewHost(j, m)'
          BY <2>9, <3>1, <5>1 DEF Introduced
        <5>3. j \in 1 .. i
          BY <1>1, <2>5, <4>2, <5>2
        <5> QED
          BY <5>2, <5>3
      <4> QED
        BY <1>1, <2>5, <4>1, <4>2
    <3>2. first'[m] \in {None, "new_host"}
      BY <2>1 DEF Before, InOrder
    <3> QED
      BY <3>1, <3>2 DEF InOrder
  <2> HIDE DEF r
  <2>11. /\ \A d \in AtWork(m)' : Speaking(d, m)'
         /\ m \in seen' => Introduced(m)' \/ Introducing(m)'
    BY <2>1, <2>2, <2>3, <2>7, <2>9, GoesOn DEF Before
  <2> QED
    BY <2>10, <2>11
<1>5. ASSUME NEW c \in Cpu, ReserveFails(c) \/ Submit(c) PROVE Goal
  <2>1. /\ UNCHANGED <<channel, first, seen>> /\ m \notin together \cup unheard /\ Before
        /\ cpu[c].at \in {"reserve", "submit"} /\ cpu' = [cpu EXCEPT ![c] = Rest(c)]
        /\ cpu[c].at = "reserve" /\ cpu[c].mac = m => ToSay(c) # "new_host"
    BY <1>0, <1>5 DEF ReserveFails, Submit, ToSay, loop, history, counts, losses, arrivals
  <2>2. cpu[c] # Idle
        /\ cpu[c] \in [at : {"insert", "reserve", "submit"}, mac : Mac, says : BOOLEAN,
                       todo : Seq(Kind)]
    BY <2>1 DEF TypeOK, CpuState, Idle
  <2>3. Rest(c) = Idle \/ (Rest(c).mac = cpu[c].mac /\ Rest(c).at # "insert")
    BY <2>2 DEF Rest
  <2>4. /\ cpu'[c] = Idle \/ (cpu'[c].mac = cpu[c].mac /\ cpu'[c].at # "insert")
        /\ \A d \in Cpu : d # c => cpu'[d] = cpu[d]
    BY <2>1, <2>3 DEF TypeOK
  <2>5. /\ Len(Path') = Len(Path)
        /\ \A i \in 1 .. Len(Path) : Path'[i].mac = Path[i].mac /\ Path'[i].code = Path[i].code
    <3>1. CASE ReserveFails(c)
      BY <2>1, <3>1 DEF ReserveFails, Path
    <3>2. CASE Submit(c)
      BY <2>1, <3>2, PathSubmit DEF Submit
    <3> QED
      BY <1>5, <3>1, <3>2
  <2>6. InOrder(m)' /\ (Introduced(m) => Introduced(m)')
    BY <1>1, <2>1, <2>5, SamePath DEF Before
  <2>7. cpu[c].mac = m => Introduced(m)
    <3> SUFFICES ASSUME cpu[c].mac = m PROVE Introduced(m)
      OBVIOUS
    <3>1. c \in AtWork(m)
      BY <2>2 DEF AtWork, Busy
    <3> QED
      BY <2>1, <3>1 DEF Before, Speaking
  <2>8. /\ \A d \in AtWork(m)' : Speaking(d, m)'
        /\ m \in seen' => Introduced(m)' \/ Introducing(m)'
    BY <2>1, <2>2, <2>4, <2>6, <2>7, GoesOn DEF Before
  <2> QED
    BY <2>6, <2>8
\* What neither a CPU nor the processing loop does leaves the path alone.
<1>6. ASSUME UNCHANGED <<cpu, seen, first, unheard, together>>, Path' = Path PROVE Goal
  <2>1. Before
    BY <1>0, <1>6
  <2>2. InOrder(m)' /\ (Introduced(m) => Introduced(m)')
    BY <1>1, <1>6, <2>1, SamePath DEF Before
  <2> QED
    BY <1>6, <2>1, <2>2 DEF Before, AtWork, Busy, Speaking, ToSay, Introducing
<1>7. CASE Register \/ Poll \/ Readable \/ NextItem \/ NoItem \/ ClearReady \/ UNCHANGED vars
  <2>1. UNCHANGED <<cpu, seen, first, unheard, together>> /\ UNCHANGED <<channel, ring>>
    BY <1>7
    DEF Register, Poll, Readable, NextItem, LongEnough, EventLen, NoItem, ClearReady, vars,
        program, loop, history, counts, losses, arrivals
  <2>2. Path' = Path
    BY <2>1 DEF Path
  <2> QED
    BY <1>6, <2>1, <2>2
<1>8. CASE SendEvent
  <2>1. UNCHANGED <<cpu, seen, first, unheard, together>>
        /\ ring # << >> /\ channel' = Append(channel, Head(ring)) /\ ring' = Tail(ring)
    BY <1>8 DEF SendEvent, TypeOK, program, history, counts, losses, arrivals
  <2>2. Path' = Path
    BY <2>1, PathSend
  <2> QED
    BY <1>6, <2>1, <2>2
<1>9. CASE Process
  <2> DEFINE r == Head(channel)
  <2>1. /\ UNCHANGED <<cpu, seen, ring, together, unheard>> /\ Before
        /\ channel # << >> /\ channel' = Tail(channel)
        /\ first' = IF first[r.mac] = None THEN [first EXCEPT ![r.mac] = FromU8(r.code)] ELSE first
    BY <1>0, <1>9 DEF Process, program, counts, losses
  <2>2. /\ Len(Path) \in Nat \ {0} /\ Len(Path') = Len(Path) - 1
        /\ r = Path[1] /\ r \in Record
        /\ \A i \in 1 .. Len(Path) - 1 : Path'[i] = Path[i + 1]
    BY <2>1, PathProcess
  <2>3. \A i \in 1 .. Len(Path) - 1 : NewHost(i, m)' <=> NewHost(i + 1, m)
    BY <2>2 DEF NewHost
  <2>4. first[m] = None /\ r.mac = m => FromU8(r.code) = "new_host"
    BY <2>1, <2>2, NewHostCode DEF Before, InOrder, NewHost
  <2>5. first'[m] = IF first[m] = None /\ r.mac = m THEN "new_host" ELSE first[m]
    BY <2>1, <2>4 DEF TypeOK
  <2>6. None # "new_host"
    BY EventBridgeAssumption DEF Kind
  <2> HIDE DEF r
  <2>9. Introduced(m) => Introduced(m)'
    <3>1. first[m] # None \/ r.mac = m => first'[m] # None
      BY <2>5, <2>6
    <3>2. ASSUME NEW i \in 1 .. Len(Path), NewHost(i, m), r.mac # m
          PROVE  \E j \in 1 .. Len(Path') : NewHost(j, m)'
      <4>1. i # 1 /\ i - 1 \in 1 .. Len(Path) - 1
        BY <2>2, <3>2 DEF NewHost
      <4> QED
        BY <2>2, <2>3, <3>2, <4>1
    <3> QED
      BY <3>1, <3>2 DEF Introduced
  <2>7. ASSUME first'[m] = None, NEW i \in 1 .. Len(Path'), Path'[i].mac = m
        PROVE  \E j \in 1 .. i : NewHost(j, m)'
    <3>1. first[m] = None /\ r.mac # m
      BY <2>5, <2>6, <2>7
    <3>2. i + 1 \in 1 .. Len(Path) /\ Path[i + 1].mac = m
      BY <2>2, <2>7
    <3>3. PICK j \in 1 .. i + 1 : NewHost(j, m)
      BY <2>1, <3>1, <3>2 DEF Before, InOrder
    <3>4. j # 1
      BY <2>2, <3>1, <3>3 DEF NewHost
    <3>5. j - 1 \in 1 .. i /\ j - 1 \in 1 .. Len(Path) - 1
      BY <2>2, <3>2, <3>3, <3>4
    <3>6. NewHost((j - 1) + 1, m)
      BY <3>3
    <3> QED
      BY <2>3, <3>5, <3>6
  <2>8. InOrder(m)'
    BY <2>1, <2>5, <2>7 DEF Before, InOrder
  <2> QED
    BY <2>1, <2>8, <2>9 DEF Before, AtWork, Busy, Speaking, ToSay, Introducing
<1> QED
  BY <1>2, <1>3, <1>4, <1>5, <1>7, <1>8, <1>9 DEF Next, CpuStep, ReaderStep

-----------------------------------------------------------------------------
(* Theorems                                                                *)

BridgeInv == TypeOK /\ WakeInv /\ EventsAccountedFor /\ OnceInv /\ IntroInv

LEMMA BridgeInvariant == Spec => []BridgeInv
<1>1. Init => BridgeInv
  <2>1. Init => WakeInv
    BY DEF Init, WakeInv
  <2>2. Init => EventsAccountedFor
    BY DEF Init, EventsAccountedFor
  <2>3. Init => OnceInv
    BY DEF Init, OnceInv, AtWork, Busy
  <2>4. Init => IntroInv
    <3> SUFFICES ASSUME Init PROVE IntroInv
      OBVIOUS
    <3>1. Len(Path) = Len(channel) + Len(ring) /\ Len(channel) = 0 /\ Len(ring) = 0
      BY InitTypeOK, PathType, EmptySeq DEF Init
    <3>2. \A m \in Mac : first[m] = None /\ AtWork(m) = {} /\ m \notin seen
      BY DEF Init, AtWork, Busy
    <3> QED
      BY <3>1, <3>2 DEF IntroInv, InOrder
  <2> QED
    BY <2>1, <2>2, <2>3, <2>4, InitTypeOK DEF BridgeInv
<1>2. BridgeInv /\ [Next]_vars => BridgeInv'
  BY StepTypeOK, WakeStep, AccountStep, OnceStep, IntroStep DEF BridgeInv
<1> QED
  BY <1>1, <1>2, PTL DEF Spec

\* Every variable keeps its type: the ring, the channel and SEEN stay within
\* their capacities, and the task never sends from an empty ring.
THEOREM TypeCorrect == Spec => []TypeOK
  BY BridgeInvariant, PTL DEF BridgeInv

\* A record that waits at the head of the ring has woken the task or will, with
\* any number of CPUs submitting at any point of drain_events and clear_ready.
THEOREM WakeupsAreNotLost == Spec => []NoLostWakeup
<1>1. BridgeInv => NoLostWakeup
  BY DEF BridgeInv, WakeInv, NoLostWakeup
<1> QED
  BY <1>1, BridgeInvariant, PTL

\* Events are neither duplicated nor lost on their way, but for a full ring.
THEOREM EventsAreAccountedFor == Spec => []EventsAccountedFor
  BY BridgeInvariant, PTL DEF BridgeInv

\* A host that no two CPUs handle at once is announced once, and once more for
\* each time SEEN forgot it or failed to take it in: with any number of CPUs,
\* any capacity of SEEN and any choice of what it forgets.
THEOREM HostsAreAnnouncedOnce == Spec => []AnnouncedOnce
<1>1. BridgeInv => AnnouncedOnce
  BY DEF BridgeInv, OnceInv, AnnouncedOnce
<1> QED
  BY <1>1, BridgeInvariant, PTL

\* A host no two CPUs handle at once is heard only after its introduction, unless
\* the ring had no room for it: with any number of CPUs interleaving their
\* reservations, and while SEEN forgets and takes in hosts.
THEOREM HostsAreIntroducedFirst == Spec => []IntroducedFirst
<1>1. BridgeInv => IntroducedFirst
  BY DEF BridgeInv, IntroInv, InOrder, IntroducedFirst
<1> QED
  BY <1>1, BridgeInvariant, PTL
=============================================================================
