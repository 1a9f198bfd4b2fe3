-------------------------- MODULE FlowTable_proofs --------------------------
(***************************************************************************)
(* Proofs of FlowTable's safety properties: what holds of the counters for *)
(* any number of CPUs, and the accounting of every packet while no two of  *)
(* them are in update_flow at once.                                        *)
(***************************************************************************)
EXTENDS FlowTable, FiniteSetTheorems, TLAPS

\* The entries are as many as the finite set of keys allows, and adding an
\* entry for one key raises their number by at most one.
LEMMA EntriesGrow ==
  ASSUME TypeOK, NEW k \in Key, NEW s \in Slot
  PROVE  LET entries == {j \in Key : [table EXCEPT ![k] = s][j] # None}
         IN  /\ Cardinality(Entries) \in Nat
             /\ Cardinality(entries) \in Nat
             /\ table[k] # None => Cardinality(entries) = Cardinality(Entries)
             /\ table[k] = None => Cardinality(entries) = Cardinality(Entries) + 1
<1> DEFINE entries == {j \in Key : [table EXCEPT ![k] = s][j] # None}
<1> USE FlowTableAssumption
<1>1. entries = Entries \cup {k}
  BY DEF TypeOK, Entries
<1>2. k \in Entries <=> table[k] # None
  BY DEF Entries
<1>3. IsFiniteSet(Entries) /\ IsFiniteSet(entries)
  BY FS_Subset, entries \subseteq Key, Entries \subseteq Key DEF Entries
<1>4. Cardinality(Entries) \in Nat /\ Cardinality(entries) \in Nat
  BY <1>3, FS_CardinalityType
<1>5. Cardinality(entries) = IF k \in Entries THEN Cardinality(Entries) ELSE Cardinality(Entries) + 1
  BY <1>1, <1>3, FS_AddElement
<1> QED
  BY <1>2, <1>4, <1>5

\* Removing an entry does not raise their number.
LEMMA EntriesShrink ==
  ASSUME TypeOK, NEW k \in Key
  PROVE  LET entries == {j \in Key : [table EXCEPT ![k] = None][j] # None}
         IN  Cardinality(entries) <= MaxEntries
<1> DEFINE entries == {j \in Key : [table EXCEPT ![k] = None][j] # None}
<1> USE FlowTableAssumption
<1>1. entries \subseteq Entries /\ Entries \subseteq Key
  BY DEF TypeOK, Entries
<1>2. IsFiniteSet(Entries) /\ IsFiniteSet(entries)
  BY <1>1, FS_Subset
<1>3. Cardinality(entries) \in Nat /\ Cardinality(Entries) \in Nat
  BY <1>2, FS_CardinalityType
<1>4. Cardinality(entries) <= Cardinality(Entries)
  BY <1>1, <1>2, FS_Subset
<1> QED
  BY <1>3, <1>4 DEF TypeOK

\* A CPU at work has the fields its place calls for.
LEMMA CpuFields ==
  ASSUME TypeOK, NEW c \in Cpu
  PROVE  /\ cpu[c].at \in {"idle", "missed", "found", "loaded"}
         /\ cpu[c].at = "idle" => cpu[c] = Idle
         /\ cpu[c].at # "idle" => cpu[c].key \in Key
         /\ cpu[c].at \in {"found", "loaded"} => cpu[c].slot \in Slot
         /\ cpu[c].at = "loaded" => cpu[c].value \in Nat
  BY DEF TypeOK, CpuState, Idle

-----------------------------------------------------------------------------
\* No step of a CPU or of the drain breaks the types: in particular the map
\* never exceeds its capacity and no element serves two entries.
LEMMA TypeStep == ASSUME TypeOK, [Next]_vars PROVE TypeOK'
<1> USE FlowTableAssumption
<1>1. ASSUME NEW c \in Cpu, NEW k \in Key, Lookup(c, k) PROVE TypeOK'
  <2>1. cpu' \in [Cpu -> CpuState]
    BY <1>1 DEF Lookup, TypeOK, CpuState
  <2>2. Entries' = Entries
    BY <1>1 DEF Lookup, Entries
  <2> QED
    BY <1>1, <2>1, <2>2 DEF Lookup, TypeOK, drainer
<1>2. ASSUME NEW c \in Cpu, Load(c) PROVE TypeOK'
  <2>1. cpu' \in [Cpu -> CpuState]
    BY <1>2, CpuFields DEF Load, TypeOK, CpuState
  <2>2. Entries' = Entries
    BY <1>2 DEF Load, Entries
  <2> QED
    BY <1>2, <2>1, <2>2 DEF Load, TypeOK, drainer, history
<1>3. ASSUME NEW c \in Cpu, Store(c) PROVE TypeOK'
  <2>1. cpu[c].key \in Key /\ cpu[c].slot \in Slot /\ cpu[c].value \in Nat
    BY <1>3, CpuFields DEF Store
  <2>2. cpu' \in [Cpu -> CpuState] /\ stats' \in [Slot -> Nat]
    BY <1>3, <2>1 DEF Store, TypeOK, CpuState, Increment
  <2>3. Entries' = Entries
    BY <1>3 DEF Store, Entries
  <2>4. windowed' \in [Key -> Nat]
    BY <1>3, <2>1 DEF Store, TypeOK
  <2> QED
    BY <1>3, <2>2, <2>3, <2>4 DEF Store, TypeOK, drainer
<1>4. ASSUME NEW c \in Cpu, Insert(c) PROVE TypeOK'
  <2> DEFINE k == cpu[c].key
  <2>1. k \in Key
    BY <1>4, CpuFields DEF Insert
  <2>2. cpu' \in [Cpu -> CpuState]
    BY <1>4 DEF Insert, TypeOK, CpuState
  <2>3. CASE /\ Room(k)
             /\ \E s \in FreeSlots : table' = [table EXCEPT ![k] = s] /\ stats' = [stats EXCEPT ![s] = FreshCount]
             /\ replaced' = [replaced EXCEPT ![k] = @ + Live(k)]
             /\ UNCHANGED rejected
    <3>1. PICK s \in Slot : /\ s \notin Used
                            /\ table' = [table EXCEPT ![k] = s]
                            /\ stats' = [stats EXCEPT ![s] = FreshCount]
      BY <2>3 DEF FreeSlots
    <3>2. Entries' = {j \in Key : [table EXCEPT ![k] = s][j] # None}
      BY <3>1 DEF Entries
    <3>3. Cardinality(Entries') <= MaxEntries
      <4>1. /\ Cardinality(Entries) \in Nat /\ Cardinality(Entries') \in Nat
            /\ table[k] # None => Cardinality(Entries') = Cardinality(Entries)
            /\ table[k] = None => Cardinality(Entries') = Cardinality(Entries) + 1
        BY <2>1, <3>2, EntriesGrow
      <4>2. table[k] # None \/ Cardinality(Entries) < MaxEntries
        BY <2>3 DEF Room
      <4>3. Cardinality(Entries) <= MaxEntries
        BY DEF TypeOK
      <4> QED
        BY <4>1, <4>2, <4>3
    <3>4. table' \in [Key -> Slot \cup {None}] /\ stats' \in [Slot -> Nat]
      BY <2>1, <3>1 DEF TypeOK, FreshCount
    <3>6. replaced' \in [Key -> Nat]
      BY <2>1, <2>3 DEF TypeOK, Live
    <3>5. \A i, j \in Entries' : i # j => table'[i] # table'[j]
      BY <2>1, <3>1 DEF TypeOK, Entries, Used
    <3> QED
      BY <1>4, <2>2, <2>3, <3>3, <3>4, <3>5, <3>6 DEF Insert, TypeOK, drainer
  <2>4. CASE /\ ~Room(k)
             /\ rejected' = [rejected EXCEPT ![k] = @ + 1]
             /\ UNCHANGED <<table, stats, replaced>>
    <3>1. Entries' = Entries
      BY <2>4 DEF Entries
    <3> QED
      BY <1>4, <2>1, <2>2, <2>4, <3>1 DEF Insert, TypeOK, drainer
  <2> QED
    BY <1>4, <2>3, <2>4 DEF Insert
<1>5. CASE DrainTick
  <2>1. Entries' = Entries /\ Entries \subseteq Key
    BY <1>5 DEF DrainTick, program, Entries
  <2> QED
    BY <1>5, <2>1 DEF DrainTick, TypeOK, program, history
<1>6. ASSUME NEW k \in Key, ReadEntry(k) PROVE TypeOK'
  <2>1. Entries' = Entries
    BY <1>6 DEF ReadEntry, program, Entries
  <2>2. out' \in [Key -> Nat \cup {None}]
    BY <1>6 DEF ReadEntry, TypeOK
  <2>3. out'[k] # None
    BY <1>6 DEF ReadEntry, TypeOK
  <2>4. toRemove' \subseteq {j \in Key : out'[j] # None}
    BY <1>6, <2>3 DEF ReadEntry, TypeOK
  <2> QED
    BY <1>6, <2>1, <2>2, <2>4 DEF ReadEntry, TypeOK, program, history
<1>7. ASSUME NEW k \in Key, RemoveEntry(k) PROVE TypeOK'
  <2>1. Entries' = {j \in Key : [table EXCEPT ![k] = None][j] # None}
    BY <1>7 DEF RemoveEntry, Due, Entries
  <2>2. Cardinality(Entries') <= MaxEntries
    BY <2>1, EntriesShrink
  <2>3. \A i, j \in Entries' : i # j => table'[i] # table'[j]
    BY <1>7 DEF RemoveEntry, Due, TypeOK, Entries
  <2> QED
    BY <1>7, <2>2, <2>3 DEF RemoveEntry, Due, TypeOK, history
<1>8. CASE ReadDone \/ RemoveDone
  <2>1. Entries' = Entries
    BY <1>8 DEF ReadDone, RemoveDone, program, Entries
  <2> QED
    BY <1>8, <2>1 DEF ReadDone, RemoveDone, TypeOK, program, history
<1>9. CASE Send
  <2>1. Entries' = Entries
    BY <1>9 DEF Send, program, Entries
  <2>2. delivered' \in [Key -> Nat] /\ out' \in [Key -> Nat \cup {None}]
    BY <1>9 DEF Send, TypeOK
  <2> QED
    BY <1>9, <2>1, <2>2 DEF Send, TypeOK, program, history
<1>10. CASE UNCHANGED vars
  <2>1. Entries' = Entries
    BY <1>10 DEF vars, program, Entries
  <2> QED
    BY <1>10, <2>1 DEF vars, program, drainer, history, TypeOK
<1> QED
  BY <1>1, <1>2, <1>3, <1>4, <1>5, <1>6, <1>7, <1>8, <1>9, <1>10 DEF Next, CpuStep, DrainStep

\* The flow table is well formed whatever the CPUs and the drain do: it never
\* exceeds its capacity, and two flows never share an element of the map.
THEOREM TypeCorrect == Spec => []TypeOK
<1>1. Init => TypeOK
  <2> SUFFICES ASSUME Init PROVE TypeOK
    OBVIOUS
  <2>1. Entries = {}
    BY DEF Init, Entries
  <2>2. Cardinality(Entries) <= MaxEntries
    BY <2>1, FS_EmptySet, FlowTableAssumption
  <2> QED
    BY <2>1, <2>2, FlowTableAssumption DEF Init, TypeOK, CpuState
<1> QED
  BY <1>1, TypeStep, PTL DEF Spec
-----------------------------------------------------------------------------
\* A CPU that takes up a packet raises the number of busy CPUs by one, one that
\* is done lowers it by one.
LEMMA BusyGrows ==
  ASSUME TypeOK, NEW c \in Cpu, ~Working(c), cpu'[c].at # "idle",
         \A d \in Cpu \ {c} : cpu'[d] = cpu[d]
  PROVE  Cardinality(Busy) \in Nat /\ Cardinality(Busy') = Cardinality(Busy) + 1
<1>1. IsFiniteSet(Busy)
  BY FlowTableAssumption, FS_Subset, Busy \subseteq Cpu DEF Busy
<1>2. Busy' = Busy \cup {c} /\ c \notin Busy
  BY DEF Busy, Working
<1> QED
  BY <1>1, <1>2, FS_AddElement, FS_CardinalityType

LEMMA BusyShrinks ==
  ASSUME TypeOK, NEW c \in Cpu, Working(c), cpu' = [cpu EXCEPT ![c] = Idle]
  PROVE  /\ Cardinality(Busy) \in Nat \ {0} /\ Cardinality(Busy') = Cardinality(Busy) - 1
         /\ Busy' = Busy \ {c}
<1>1. IsFiniteSet(Busy)
  BY FlowTableAssumption, FS_Subset, Busy \subseteq Cpu DEF Busy
<1>2. Busy' = Busy \ {c} /\ c \in Busy
  BY DEF Busy, Working, Idle, TypeOK
<1>3. Cardinality(Busy) # 0
  BY <1>1, <1>2, FS_EmptySet
<1> QED
  BY <1>1, <1>2, <1>3, FS_RemoveElement, FS_CardinalityType

\* What the counters and the loaded values may show never shrinks.
LEMMA CounterStep == ASSUME TypeOK, CounterInv, [Next]_vars PROVE CounterInv'
<1> DEFINE room == packets - Cardinality(Busy)
<1>0. Cardinality(Busy) \in Nat /\ packets \in Nat
  BY FlowTableAssumption, FS_Subset, FS_CardinalityType, Busy \subseteq Cpu DEF Busy, TypeOK
<1>1. ASSUME NEW c \in Cpu, NEW k \in Key, Lookup(c, k) PROVE CounterInv'
  <2>1. /\ cpu'[c].at \in {"missed", "found"} /\ cpu'[c].key = k
        /\ \A d \in Cpu \ {c} : cpu'[d] = cpu[d]
    BY <1>1 DEF Lookup, TypeOK
  <2>2. Cardinality(Busy') = Cardinality(Busy) + 1 /\ packets' = packets + 1
    BY <1>1, <2>1, BusyGrows DEF Lookup
  <2>3. arrived'[k] > 0 /\ \A j \in Key : arrived[j] > 0 => arrived'[j] > 0
    BY <1>1 DEF Lookup, TypeOK
  <2>4. \A d \in Busy' : arrived'[cpu'[d].key] > 0
    <3>1. ASSUME NEW d \in Cpu \ {c}, cpu'[d].at # "idle" PROVE arrived'[cpu'[d].key] > 0
      BY <2>1, <2>3, <3>1, CpuFields DEF CounterInv, Busy, Working
    <3> QED
      BY <2>1, <2>3, <3>1 DEF Busy, Working
  <2>5. packets' - Cardinality(Busy') = room /\ packets' >= Cardinality(Busy')
    BY <1>0, <2>2 DEF CounterInv
  <2>6. \A d \in Cpu : cpu'[d].at = "loaded" => cpu'[d].value <= packets' - Cardinality(Busy')
    BY <2>1, <2>5 DEF CounterInv
  <2>7. \A j \in Key : table[j] # None \/ out[j] # None \/ delivered[j] > 0 => arrived'[j] > 0
    BY <2>3 DEF CounterInv
  <2> QED
    BY <1>1, <2>4, <2>5, <2>6, <2>7 DEF CounterInv, Lookup, drainer
<1>2. ASSUME NEW c \in Cpu, Load(c) PROVE CounterInv'
  <2>1. /\ cpu'[c] = [at |-> "loaded", key |-> cpu[c].key, slot |-> cpu[c].slot,
                      value |-> stats[cpu[c].slot]]
        /\ \A d \in Cpu \ {c} : cpu'[d] = cpu[d]
    BY <1>2 DEF Load, TypeOK
  <2>2. Busy' = Busy
    BY <1>2, <2>1 DEF Load, Busy, Working
  <2>3. stats[cpu[c].slot] <= room
    BY <1>2, CpuFields DEF CounterInv, Load
  <2>4. \A d \in Busy' : arrived[cpu'[d].key] > 0
    BY <1>2, <2>1, <2>2 DEF CounterInv, Load, Busy, Working
  <2>5. \A d \in Cpu : cpu'[d].at = "loaded" => cpu'[d].value <= room
    BY <2>1, <2>3 DEF CounterInv
  <2> QED
    BY <1>2, <2>2, <2>4, <2>5 DEF CounterInv, Load, drainer, history
<1>3. ASSUME NEW c \in Cpu, Store(c) PROVE CounterInv'
  <2>1. Working(c) /\ cpu' = [cpu EXCEPT ![c] = Idle]
    BY <1>3 DEF Store, Working
  <2>2. /\ Cardinality(Busy') = Cardinality(Busy) - 1 /\ Busy' = Busy \ {c}
        /\ UNCHANGED packets
    BY <1>3, <2>1, BusyShrinks DEF Store
  <2>3. packets' - Cardinality(Busy') = room + 1 /\ packets' >= Cardinality(Busy')
    BY <1>0, <2>2 DEF CounterInv
  <2>4. /\ cpu[c].value \in Nat /\ cpu[c].value <= room
        /\ stats' = [stats EXCEPT ![cpu[c].slot] = cpu[c].value + 1]
    BY <1>3, CpuFields DEF Store, CounterInv, Increment
  <2>5. \A s \in Slot : stats'[s] <= room + 1
    BY <1>0, <2>4 DEF CounterInv, TypeOK
  <2>6. \A d \in Cpu : cpu'[d].at = "loaded" => cpu'[d].value <= room + 1
    BY <1>0, <2>1, CpuFields DEF CounterInv, TypeOK, Idle
  <2>7. \A d \in Busy' : arrived[cpu'[d].key] > 0
    BY <2>1, <2>2 DEF CounterInv, TypeOK, Busy
  <2> QED
    BY <1>3, <2>3, <2>5, <2>6, <2>7 DEF CounterInv, Store, drainer
<1>4. ASSUME NEW c \in Cpu, Insert(c) PROVE CounterInv'
  <2> DEFINE k == cpu[c].key
  <2>1. Working(c) /\ cpu' = [cpu EXCEPT ![c] = Idle] /\ k \in Key
    BY <1>4, CpuFields DEF Insert, Working
  <2>2. /\ Cardinality(Busy') = Cardinality(Busy) - 1 /\ Busy' = Busy \ {c}
        /\ UNCHANGED <<packets, arrived>>
    BY <1>4, <2>1, BusyShrinks DEF Insert
  <2>3. packets' - Cardinality(Busy') = room + 1 /\ packets' >= Cardinality(Busy') /\ room >= 0
    BY <1>0, <2>2 DEF CounterInv
  <2>4. \A s \in Slot : stats'[s] <= room + 1
    BY <1>0, <1>4, <2>3 DEF CounterInv, TypeOK, Insert, FreshCount, FreeSlots
  <2>5. \A d \in Cpu : cpu'[d].at = "loaded" => cpu'[d].value <= room + 1
    BY <1>0, <2>1, CpuFields DEF CounterInv, TypeOK, Idle
  <2>6. \A d \in Busy' : arrived'[cpu'[d].key] > 0
    BY <2>1, <2>2 DEF CounterInv, TypeOK, Busy
  <2>7. arrived[k] > 0
    BY <2>1 DEF CounterInv, Busy
  <2>8. \A j \in Key : table'[j] # None => table[j] # None \/ j = k
    BY <1>4, <2>1 DEF Insert, TypeOK
  <2>9. \A j \in Key : table'[j] # None \/ out'[j] # None \/ delivered'[j] > 0 => arrived'[j] > 0
    BY <1>4, <2>2, <2>7, <2>8 DEF CounterInv, Insert, drainer
  <2> QED
    BY <2>3, <2>4, <2>5, <2>6, <2>9 DEF CounterInv
<1>5. CASE DrainTick
  BY <1>5 DEF DrainTick, CounterInv, Busy, Working, program, history
<1>6. ASSUME NEW k \in Key, ReadEntry(k) PROVE CounterInv'
  BY <1>6 DEF ReadEntry, CounterInv, Busy, Working, program, history, TypeOK
<1>7. ASSUME NEW k \in Key, RemoveEntry(k) PROVE CounterInv'
  BY <1>7 DEF RemoveEntry, Due, CounterInv, Busy, Working, history, TypeOK
<1>8. CASE ReadDone \/ RemoveDone
  BY <1>8 DEF ReadDone, RemoveDone, CounterInv, Busy, Working, program, history
<1>9. CASE Send
  <2>1. \A j \in Key : delivered'[j] > 0 => delivered[j] > 0 \/ out[j] # None
    BY <1>9 DEF Send, TypeOK
  <2> QED
    BY <1>9, <2>1 DEF Send, CounterInv, Busy, Working, program, history
<1>10. CASE UNCHANGED vars
  BY <1>10 DEF CounterInv, Busy, Working, vars, program, drainer, history
<1> QED
  BY <1>1, <1>2, <1>3, <1>4, <1>5, <1>6, <1>7, <1>8, <1>9, <1>10 DEF Next, CpuStep, DrainStep

\* For any number of CPUs: however their loads and stores interleave with each
\* other and with the drain, and however often an element is handed out again
\* under a pointer into it, a counter never shows more packets than were dealt
\* with, and no flow is reported that had no packet.
THEOREM CountersBoundedHolds == Spec => []CountersBounded
<1>1. Init => CounterInv
  <2> SUFFICES ASSUME Init PROVE CounterInv
    OBVIOUS
  <2>1. Busy = {}
    BY DEF Init, Busy, Working, Idle
  <2> QED
    BY <2>1, FS_EmptySet DEF Init, CounterInv, Idle
<1>2. TypeOK /\ CounterInv => CountersBounded
  BY DEF CounterInv, CountersBounded, TypeOK, Taken, Live
<1> QED
  BY <1>1, <1>2, TypeCorrect, CounterStep, PTL DEF Spec
-----------------------------------------------------------------------------
\* The share of a flow's packets that is in the live entry and not yet read.
Unread(k) == IF k \in toRemove THEN 0 ELSE Live(k)
\* The packet under way, if it is the only one.
UnderWay(k) == IF \E c \in Cpu : Working(c) /\ cpu[c].key = k THEN 1 ELSE 0

Alone == \A c, d \in Cpu : Working(c) /\ Working(d) => c = d

\* While at most one CPU is at work, a flow has one packet under way or none.
LEMMA PendingAlone ==
  ASSUME Alone, NEW k
  PROVE  Pending(k) = UnderWay(k)
<1>1. CASE \E c \in Cpu : Working(c) /\ cpu[c].key = k
  <2>1. PICK c \in Cpu : Working(c) /\ cpu[c].key = k
    BY <1>1
  <2>2. {d \in Cpu : Working(d) /\ cpu[d].key = k} = {c}
    BY <2>1 DEF Alone
  <2> QED
    BY <1>1, <2>2, FS_Singleton DEF Pending, UnderWay
<1>2. CASE ~\E c \in Cpu : Working(c) /\ cpu[c].key = k
  <2>1. {d \in Cpu : Working(d) /\ cpu[d].key = k} = {}
    BY <1>2
  <2> QED
    BY <1>2, <2>1, FS_EmptySet DEF Pending, UnderWay
<1> QED
  BY <1>1, <1>2

\* PacketsAccountedFor with the packets under way counted without a cardinality,
\* and what makes it inductive: a CPU's pointer belongs to no other flow, what
\* it missed is still missing, what it has loaded is still there, and an entry
\* that was read stays until the drain removes it.
PointerInv(c) ==
    /\ cpu[c].at = "missed" => table[cpu[c].key] = None
    /\ cpu[c].at \in {"found", "loaded"} =>
          \A j \in Key : table[j] = cpu[c].slot => j = cpu[c].key
    /\ cpu[c].at = "loaded" => stats[cpu[c].slot] = cpu[c].value

AccountInv ==
    /\ Alone
    /\ \A k \in Key :
          arrived[k] = delivered[k] + Taken(k) + Unread(k) + UnderWay(k) + rejected[k] + windowed[k]
    /\ \A k \in toRemove : table[k] # None
    /\ \A c \in Cpu : PointerInv(c)

\* A step of the only CPU at work leaves it alone, and what is under way with it.
LEMMA CpuAlone ==
  ASSUME NEW c \in Cpu, \A d \in Cpu \ {c} : ~Working(d) /\ cpu'[d] = cpu[d]
  PROVE  /\ Alone /\ Alone'
         /\ \A d \in Cpu \ {c} : PointerInv(d)'
         /\ \A k : UnderWay(k) = IF Working(c) /\ cpu[c].key = k THEN 1 ELSE 0
         /\ \A k : UnderWay(k)' = IF Working(c)' /\ cpu'[c].key = k THEN 1 ELSE 0
<1>1. \A d \in Cpu \ {c} : ~Working(d)'
  BY DEF Working
<1>2. \A d \in Cpu \ {c} : PointerInv(d)'
  BY <1>1 DEF PointerInv, Working
<1>3. Alone /\ Alone'
  BY <1>1 DEF Alone
<1>4. \A k : UnderWay(k) = IF Working(c) /\ cpu[c].key = k THEN 1 ELSE 0
  BY DEF UnderWay
<1>5. \A k : UnderWay(k)' = IF Working(c)' /\ cpu'[c].key = k THEN 1 ELSE 0
  BY <1>1 DEF UnderWay
<1> QED
  BY <1>2, <1>3, <1>4, <1>5

\* The CPUs are as they were across a step of the drain.
LEMMA CpusRest ==
  ASSUME UNCHANGED cpu
  PROVE  (Alone => Alone') /\ \A k : UnderWay(k)' = UnderWay(k)
BY DEF Alone, UnderWay, Working

\* Every summand of the account is a natural number.
LEMMA AccountTypes ==
  ASSUME TypeOK, NEW k \in Key
  PROVE  /\ arrived[k] \in Nat /\ delivered[k] \in Nat
         /\ rejected[k] \in Nat /\ windowed[k] \in Nat
         /\ Taken(k) \in Nat /\ Unread(k) \in Nat
  BY DEF TypeOK, Taken, Unread, Live

\* The account balances across every step of a CPU that is alone and of the drain.
LEMMA AccountStep ==
  ASSUME TypeOK, AccountInv, ~raced', [Next]_vars
  PROVE  AccountInv'
<1> USE FlowTableAssumption
<1>0. Alone
  BY DEF AccountInv
<1>1. ASSUME NEW c \in Cpu, NEW k \in Key, Lookup(c, k) PROVE AccountInv'
  <2>1. /\ ~Working(c) /\ Working(c)' /\ cpu'[c].key = k
        /\ cpu'[c].at \in {"missed", "found"}
        /\ \A d \in Cpu \ {c} : ~Working(d) /\ cpu'[d] = cpu[d]
    BY <1>1 DEF Lookup, TypeOK, Working
  <2>2. \A j \in Key : /\ Taken(j)' = Taken(j) /\ Unread(j)' = Unread(j)
                       /\ UnderWay(j) = 0 /\ UnderWay(j)' = IF j = k THEN 1 ELSE 0
                       /\ arrived'[j] = IF j = k THEN arrived[j] + 1 ELSE arrived[j]
    BY <1>1, <2>1, CpuAlone DEF Lookup, drainer, Taken, Unread, Live, TypeOK
  <2>3. \A j \in Key :
          arrived'[j] = delivered'[j] + Taken(j)' + Unread(j)' + UnderWay(j)' + rejected'[j] + windowed'[j]
    BY <1>1, <2>2, AccountTypes DEF AccountInv, Lookup, drainer
  <2>4. /\ cpu'[c].at = "missed" => table'[cpu'[c].key] = None
        /\ cpu'[c].at \in {"found", "loaded"} =>
              \A j \in Key : table'[j] = cpu'[c].slot => j = cpu'[c].key
    <3>1. cpu'[c] = IF table[k] = None THEN [at |-> "missed", key |-> k]
                    ELSE [at |-> "found", key |-> k, slot |-> table[k]]
      BY <1>0, <1>1 DEF Lookup, TypeOK
    <3>2. table' = table
      BY <1>1 DEF Lookup
    <3>3. CASE table[k] = None
      BY <3>1, <3>2, <3>3
    <3>4. CASE table[k] # None
      BY <3>1, <3>2, <3>4 DEF TypeOK, Entries
    <3> QED
      BY <3>3, <3>4
  <2> QED
    BY <1>1, <2>1, <2>3, <2>4, CpuAlone DEF AccountInv, PointerInv, Lookup, drainer
<1>2. ASSUME NEW c \in Cpu, Load(c) PROVE AccountInv'
  <2>1. /\ cpu'[c] = [at |-> "loaded", key |-> cpu[c].key, slot |-> cpu[c].slot,
                      value |-> stats[cpu[c].slot]]
        /\ Working(c) /\ Working(c)' /\ cpu'[c].key = cpu[c].key
        /\ \A d \in Cpu \ {c} : ~Working(d) /\ cpu'[d] = cpu[d]
    BY <1>0, <1>2 DEF Load, TypeOK, Working, Alone
  <2>2. \A j \in Key : /\ Taken(j)' = Taken(j) /\ Unread(j)' = Unread(j)
                       /\ UnderWay(j)' = UnderWay(j)
    BY <1>2, <2>1, CpuAlone DEF Load, drainer, Taken, Unread, Live
  <2>3. PointerInv(c)'
    BY <1>2, <2>1 DEF AccountInv, PointerInv, Load
  <2> QED
    BY <1>2, <2>1, <2>2, <2>3, CpuAlone DEF AccountInv, Load, drainer, history
<1>3. ASSUME NEW c \in Cpu, Store(c) PROVE AccountInv'
  <2> DEFINE k == cpu[c].key
             s == cpu[c].slot
  <2>1. k \in Key /\ s \in Slot /\ stats[s] \in Nat /\ stats' = [stats EXCEPT ![s] = stats[s] + 1]
    BY <1>0, <1>3, CpuFields DEF Store, AccountInv, PointerInv, Increment, TypeOK
  <2>2. /\ Working(c) /\ ~Working(c)' /\ cpu'[c].at = "idle"
        /\ \A d \in Cpu \ {c} : ~Working(d) /\ cpu'[d] = cpu[d]
    BY <1>0, <1>3 DEF Store, TypeOK, Working, Idle, Alone
  <2>3. \A j \in Key : Taken(j)' = Taken(j) /\ UnderWay(j)' = 0
                       /\ UnderWay(j) = IF j = k THEN 1 ELSE 0
    BY <1>3, <2>2, CpuAlone DEF Store, drainer, Taken
  <2>4. \A j \in Key : Unread(j)' = IF j = k /\ j \notin toRemove /\ table[j] = s
                                    THEN Unread(j) + 1 ELSE Unread(j)
    BY <1>3, <2>1 DEF Store, drainer, Unread, Live, AccountInv, PointerInv, TypeOK
  <2>5. \A j \in Key : windowed'[j] = IF j = k /\ (j \in toRemove \/ table[j] # s)
                                      THEN windowed[j] + 1 ELSE windowed[j]
    BY <1>3, <2>1 DEF Store, TypeOK
  <2>6. \A j \in Key :
          arrived'[j] = delivered'[j] + Taken(j)' + Unread(j)' + UnderWay(j)' + rejected'[j] + windowed'[j]
    BY <1>3, <2>3, <2>4, <2>5, AccountTypes DEF AccountInv, Store, drainer
  <2> QED
    BY <1>3, <2>2, <2>6, CpuAlone DEF AccountInv, PointerInv, Store, drainer
<1>4. ASSUME NEW c \in Cpu, Insert(c) PROVE AccountInv'
  <2> DEFINE k == cpu[c].key
  <2>1. k \in Key /\ table[k] = None /\ k \notin toRemove
    BY <1>0, <1>4, CpuFields DEF Insert, AccountInv, PointerInv
  <2>2. /\ Working(c) /\ ~Working(c)' /\ cpu'[c].at = "idle"
        /\ \A d \in Cpu \ {c} : ~Working(d) /\ cpu'[d] = cpu[d]
    BY <1>0, <1>4 DEF Insert, TypeOK, Working, Idle, Alone
  <2>3. \A j \in Key : Taken(j)' = Taken(j) /\ UnderWay(j)' = 0
                       /\ UnderWay(j) = IF j = k THEN 1 ELSE 0
    BY <1>4, <2>2, CpuAlone DEF Insert, drainer, Taken
  <2>4. CASE /\ \E s \in FreeSlots : table' = [table EXCEPT ![k] = s] /\ stats' = [stats EXCEPT ![s] = FreshCount]
             /\ UNCHANGED rejected
    <3>1. PICK s \in Slot : /\ s \notin Used
                            /\ table' = [table EXCEPT ![k] = s]
                            /\ stats' = [stats EXCEPT ![s] = 1]
      BY <2>4 DEF FreeSlots, FreshCount
    <3>2. \A j \in Key : Unread(j)' = IF j = k THEN 1 ELSE Unread(j)
      BY <1>4, <2>1, <3>1 DEF Insert, drainer, Unread, Live, Used, Entries, TypeOK
    <3>3. Unread(k) = 0
      BY <2>1 DEF Unread, Live
    <3>4. \A j \in Key :
            arrived'[j] = delivered'[j] + Taken(j)' + Unread(j)' + UnderWay(j)' + rejected'[j] + windowed'[j]
      BY <1>4, <2>3, <2>4, <3>2, <3>3, AccountTypes DEF AccountInv, Insert, drainer
    <3>5. \A j \in toRemove' : table'[j] # None
      BY <1>4, <2>1, <3>1 DEF AccountInv, Insert, drainer, TypeOK
    <3> QED
      BY <2>2, <3>4, <3>5, CpuAlone DEF AccountInv, PointerInv
  <2>5. CASE rejected' = [rejected EXCEPT ![k] = @ + 1] /\ UNCHANGED <<table, stats>>
    <3>1. \A j \in Key : /\ Unread(j)' = Unread(j)
                         /\ rejected'[j] = IF j = k THEN rejected[j] + 1 ELSE rejected[j]
      BY <1>4, <2>1, <2>5 DEF Insert, drainer, Unread, Live, TypeOK
    <3>2. \A j \in Key :
            arrived'[j] = delivered'[j] + Taken(j)' + Unread(j)' + UnderWay(j)' + rejected'[j] + windowed'[j]
      BY <1>4, <2>3, <2>5, <3>1, AccountTypes DEF AccountInv, Insert, drainer
    <3> QED
      BY <1>4, <2>2, <2>5, <3>2, CpuAlone DEF AccountInv, PointerInv, Insert, drainer
  <2> QED
    BY <1>4, <2>4, <2>5 DEF Insert
<1>5. CASE DrainTick
  BY <1>5, CpusRest DEF DrainTick, AccountInv, PointerInv, Taken, Unread, Live, program, history
<1>6. ASSUME NEW k \in Key, ReadEntry(k) PROVE AccountInv'
  <2>1. k \notin toRemove /\ table[k] # None /\ out[k] = None /\ stats[table[k]] \in Nat
    BY <1>6 DEF ReadEntry, TypeOK
  <2>2. \A j \in Key : /\ Taken(j)' = IF j = k THEN Unread(j) ELSE Taken(j)
                       /\ Unread(j)' = IF j = k THEN 0 ELSE Unread(j)
                       /\ UnderWay(j)' = UnderWay(j)
    BY <1>6, <2>1, CpusRest DEF ReadEntry, program, Taken, Unread, Live, TypeOK
  <2>3. Taken(k) = 0
    BY <2>1 DEF Taken
  <2>4. \A j \in Key :
          arrived'[j] = delivered'[j] + Taken(j)' + Unread(j)' + UnderWay(j)' + rejected'[j] + windowed'[j]
    BY <1>6, <2>2, <2>3, AccountTypes DEF AccountInv, ReadEntry, program, history, UnderWay
  <2> QED
    BY <1>6, <2>1, <2>4, CpusRest DEF AccountInv, PointerInv, ReadEntry, program
<1>7. ASSUME NEW k \in Key, RemoveEntry(k) PROVE AccountInv'
  <2>1. \A j \in Key : /\ Taken(j)' = Taken(j) /\ Unread(j)' = Unread(j)
                       /\ UnderWay(j)' = UnderWay(j)
    BY <1>7, CpusRest DEF RemoveEntry, Due, Taken, Unread, Live, TypeOK
  <2>2. \A j \in Key : table'[j] # None => table'[j] = table[j]
    BY <1>7 DEF RemoveEntry, Due, TypeOK
  <2>3. \A c \in Cpu :
          /\ cpu'[c].at = "missed" => table'[cpu'[c].key] = None
          /\ cpu'[c].at \in {"found", "loaded"} =>
                \A j \in Key : table'[j] = cpu'[c].slot => j = cpu'[c].key
    BY <1>7, <2>2, CpuFields DEF RemoveEntry, Due, AccountInv, PointerInv, TypeOK
  <2>4. \A j \in toRemove' : table'[j] # None
    BY <1>7 DEF RemoveEntry, Due, AccountInv, TypeOK
  <2> QED
    BY <1>7, <2>1, <2>3, <2>4, CpusRest DEF AccountInv, PointerInv, RemoveEntry, Due, history
<1>8. CASE ReadDone \/ RemoveDone
  BY <1>8, CpusRest DEF ReadDone, RemoveDone, AccountInv, PointerInv, Taken, Unread, Live, program, history
<1>9. CASE Send
  <2>1. \A j \in Key : /\ Taken(j)' = 0 /\ delivered'[j] = delivered[j] + Taken(j)
                       /\ Unread(j)' = Unread(j) /\ UnderWay(j)' = UnderWay(j)
    BY <1>9, CpusRest DEF Send, program, Taken, Unread, Live, TypeOK
  <2>2. \A j \in Key :
          arrived'[j] = delivered'[j] + Taken(j)' + Unread(j)' + UnderWay(j)' + rejected'[j] + windowed'[j]
    BY <1>9, <2>1, AccountTypes DEF AccountInv, Send, history, UnderWay
  <2> QED
    BY <1>9, <2>2, CpusRest DEF AccountInv, PointerInv, Send, program
<1>10. CASE UNCHANGED vars
  BY <1>10, CpusRest DEF AccountInv, PointerInv, Taken, Unread, Live, vars, program, drainer, history
<1> QED
  BY <1>0, <1>1, <1>2, <1>3, <1>4, <1>5, <1>6, <1>7, <1>8, <1>9, <1>10 DEF Next, CpuStep, DrainStep

\* As long as no two CPUs have been in update_flow at once, every packet of every
\* flow is accounted for, whatever the capacity of the map and wherever the
\* drain's two passes fall: it is counted once, or it found the map full, or it
\* fell between the reading and the removal of its entry.
THEOREM PacketsAccountedForHolds == Spec => []PacketsAccountedFor
<1> DEFINE Inv == ~raced => AccountInv
<1>1. Init => Inv
  BY DEF Init, AccountInv, PointerInv, Alone, Taken, Unread, Live, UnderWay, Working, Idle
<1>2. TypeOK /\ Inv /\ [Next]_vars => Inv'
  <2>1. [Next]_vars => (raced => raced')
    BY DEF Next, vars, history, CpuStep, DrainStep, Lookup, Load, Store, Insert, DrainTick,
           ReadEntry, ReadDone, RemoveEntry, RemoveDone, Send
  <2> QED
    BY <2>1, AccountStep
<1>3. Inv => PacketsAccountedFor
  BY PendingAlone DEF AccountInv, PacketsAccountedFor, Unread
<1> QED
  BY <1>1, <1>2, <1>3, TypeCorrect, PTL DEF Spec
-----------------------------------------------------------------------------
\* A drain removes only what it has read: an entry that appears between its two
\* passes, or that its iteration has not reached, is there for the next drain.
THEOREM UnreadSurvive == Spec => UnreadEntriesSurvive
<1> DEFINE OnlyReadAreRemoved ==
      \A k \in Entries : table'[k] = None => out[k] # None /\ k \in toRemove
<1>1. ASSUME TypeOK, [Next]_vars PROVE OnlyReadAreRemoved
  <2>1. ASSUME NEW c \in Cpu, Insert(c) PROVE OnlyReadAreRemoved
    <3>1. UNCHANGED table \/ \E s \in Slot : table' = [table EXCEPT ![cpu[c].key] = s]
      BY <2>1 DEF Insert, FreeSlots
    <3>2. table \in [Key -> Slot \cup {None}] /\ \A s \in Slot : s # None
      BY <1>1, FlowTableAssumption DEF TypeOK
    <3> QED
      BY <3>1, <3>2 DEF Entries
  <2>2. ASSUME NEW k \in Key, RemoveEntry(k) PROVE OnlyReadAreRemoved
    BY <1>1, <2>2 DEF RemoveEntry, Due, TypeOK, Entries
  <2>3. ASSUME UNCHANGED table PROVE OnlyReadAreRemoved
    BY <2>3 DEF Entries
  <2> QED
    BY <1>1, <2>1, <2>2, <2>3
       DEF Next, CpuStep, DrainStep, Lookup, Load, Store, DrainTick, ReadEntry, ReadDone, RemoveDone,
           Send, program, vars
<1> QED
  BY <1>1, TypeCorrect, PTL DEF Spec, UnreadEntriesSurvive
=============================================================================
