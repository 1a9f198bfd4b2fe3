----------------------------- MODULE FlowTable -----------------------------
(***************************************************************************)
(* The kernel flow table FLOWS, written by the XDP program on every CPU    *)
(* (update_flow in lanscope-ebpf/src/main.rs) and drained by the eBPF      *)
(* backend's task (drain_flows in lanscope/src/capture/ebpf.rs).           *)
(*                                                                         *)
(* The map is one plain BPF hash map, not a per-CPU one.  A lookup gives a *)
(* pointer into a preallocated element, "packets += 1" is a load and a     *)
(* store through it, and an element whose entry is removed or replaced may *)
(* be handed out again at once.  Elements are slots here; of the statistics*)
(* only "packets" is kept, "bytes" and the flag counters go the same way.  *)
(***************************************************************************)
EXTENDS Integers, FiniteSets

CONSTANTS
    Key,         \* flow 5-tuples
    Cpu,         \* CPUs that run the XDP program
    Slot,        \* elements of the map: its capacity and the spare ones
    MaxEntries,  \* capacity of the map (10 240)
    MaxPackets,  \* bound on packets that arrive
    None

ASSUME FlowTableAssumption ==
    /\ None \notin Slot \cup Nat
    /\ IsFiniteSet(Key) /\ IsFiniteSet(Cpu) /\ IsFiniteSet(Slot)
    /\ MaxEntries \in Nat \ {0} /\ MaxPackets \in Nat
    /\ MaxEntries < Cardinality(Slot)

VARIABLES
    table,      \* element of each key, None if the key has no entry
    stats,      \* packets counter in each element
    cpu,        \* progress of each CPU through update_flow
    phase,      \* progress of drain_flows
    unread,     \* keys the iteration has still to reach
    out,        \* the values read so far, None where there is none
    toRemove,   \* keys read and still to be removed
    delivered,  \* packets sent on to the pipeline, by key
    packets,    \* packets the program was run for
    arrived,    \* history: the same by key
    rejected,   \* history: packets whose entry did not fit
    windowed,   \* history: packets counted in an entry the drain had read, or that was gone
    replaced,   \* history: packets in entries that a second insert replaced
    raced       \* history: two CPUs have been in update_flow at once

program == <<table, stats, cpu>>
drainer == <<phase, unread, out, toRemove, delivered>>
history == <<packets, arrived, rejected, windowed, replaced, raced>>
vars    == <<program, drainer, history>>

Entries == {k \in Key : table[k] # None}
Used    == {table[k] : k \in Entries}

Live(k) == IF table[k] = None THEN 0 ELSE stats[table[k]]

Working(c) == cpu[c].at # "idle"
Idle == [at |-> "idle"]
CpuState ==
    {Idle}
      \cup [at : {"missed"}, key : Key]
      \cup [at : {"found"}, key : Key, slot : Slot]
      \cup [at : {"loaded"}, key : Key, slot : Slot, value : Nat]

TypeOK ==
    /\ table \in [Key -> Slot \cup {None}]
    /\ \A j, k \in Entries : j # k => table[j] # table[k]
    /\ Cardinality(Entries) <= MaxEntries
    /\ stats \in [Slot -> Nat]
    /\ cpu \in [Cpu -> CpuState]
    /\ phase \in {"idle", "read", "remove", "send"}
    /\ unread \subseteq Key
    /\ out \in [Key -> Nat \cup {None}]
    /\ toRemove \subseteq {k \in Key : out[k] # None}
    /\ phase \in {"idle", "send"} => toRemove = {}
    /\ delivered \in [Key -> Nat]
    /\ packets \in Nat
    /\ arrived \in [Key -> Nat]
    /\ rejected \in [Key -> Nat]
    /\ windowed \in [Key -> Nat]
    /\ replaced \in [Key -> Nat]
    /\ raced \in BOOLEAN

Init ==
    /\ table = [k \in Key |-> None]
    /\ stats = [s \in Slot |-> 0]
    /\ cpu = [c \in Cpu |-> Idle]
    /\ phase = "idle"
    /\ unread = {}
    /\ out = [k \in Key |-> None]
    /\ toRemove = {}
    /\ delivered = [k \in Key |-> 0]
    /\ packets = 0
    /\ arrived = [k \in Key |-> 0]
    /\ rejected = [k \in Key |-> 0]
    /\ windowed = [k \in Key |-> 0]
    /\ replaced = [k \in Key |-> 0]
    /\ raced = FALSE

-----------------------------------------------------------------------------
(* update_flow, on one CPU                                                 *)

\* get_ptr_mut
Lookup(c, k) ==
    /\ ~Working(c)
    /\ packets < MaxPackets
    /\ packets' = packets + 1
    /\ cpu' = [cpu EXCEPT ![c] =
                  IF table[k] = None THEN [at |-> "missed", key |-> k]
                  ELSE [at |-> "found", key |-> k, slot |-> table[k]]]
    /\ arrived' = [arrived EXCEPT ![k] = @ + 1]
    /\ raced' = (raced \/ \E d \in Cpu : Working(d))
    /\ UNCHANGED <<table, stats, drainer, rejected, windowed, replaced>>

\* (*stats).packets += 1: the load ...
Load(c) ==
    /\ cpu[c].at = "found"
    /\ cpu' = [cpu EXCEPT ![c] =
                  [at |-> "loaded", key |-> cpu[c].key, slot |-> cpu[c].slot,
                   value |-> stats[cpu[c].slot]]]
    /\ UNCHANGED <<table, stats, drainer, history>>

\* ... and the store, through the pointer the lookup gave.
\* Mutant: both branches of update_flow count.
IncrementTwice(v) == v + 2
Increment(v) == v + 1

Store(c) ==
    /\ cpu[c].at = "loaded"
    /\ stats' = [stats EXCEPT ![cpu[c].slot] = Increment(cpu[c].value)]
    /\ cpu' = [cpu EXCEPT ![c] = Idle]
    /\ LET k == cpu[c].key IN
       windowed' = IF k \in toRemove \/ table[k] # cpu[c].slot
                   THEN [windowed EXCEPT ![k] = @ + 1] ELSE windowed
    /\ UNCHANGED <<table, drainer, packets, arrived, rejected, replaced, raced>>

\* FLOWS.insert(.., BPF_ANY) of a fresh record with one packet: an entry another
\* CPU has made meanwhile is replaced; a new one needs room; an error is ignored.
\* Mutants: the first packet is not counted, a full map takes one more entry.
FreshCountZero == 0
RoomForAll(k) == TRUE
FreshCount == 1
Room(k) == table[k] # None \/ Cardinality(Entries) < MaxEntries
FreeSlots == Slot \ Used

Insert(c) ==
    /\ cpu[c].at = "missed"
    /\ cpu' = [cpu EXCEPT ![c] = Idle]
    /\ LET k == cpu[c].key IN
       \/ /\ Room(k)
          /\ \E s \in FreeSlots :
                /\ table' = [table EXCEPT ![k] = s]
                /\ stats' = [stats EXCEPT ![s] = FreshCount]
          /\ replaced' = [replaced EXCEPT ![k] = @ + Live(k)]
          /\ UNCHANGED rejected
       \/ /\ ~Room(k)
          /\ rejected' = [rejected EXCEPT ![k] = @ + 1]
          /\ UNCHANGED <<table, stats, replaced>>
    /\ UNCHANGED <<drainer, packets, arrived, windowed, raced>>

-----------------------------------------------------------------------------
(* drain_flows, in user space                                              *)

\* The drain interval elapses.
DrainTick ==
    /\ phase = "idle"
    /\ phase' = "read"
    /\ unread' = Entries
    /\ UNCHANGED <<program, out, toRemove, delivered, history>>

\* flows.iter(): every entry that was there is reached once; one inserted
\* meanwhile may be.
ReadEntry(k) ==
    /\ phase = "read"
    /\ table[k] # None
    /\ out[k] = None
    /\ out' = [out EXCEPT ![k] = stats[table[k]]]
    /\ unread' = unread \ {k}
    /\ toRemove' = toRemove \cup {k}
    /\ UNCHANGED <<program, phase, delivered, history>>

ReadDone ==
    /\ phase = "read"
    /\ unread = {}
    /\ phase' = IF toRemove = {} THEN "idle" ELSE "remove"
    /\ UNCHANGED <<program, unread, out, toRemove, delivered, history>>

\* The second pass: for (key, _) in &out { flows.remove(key) }
\* Mutant: it goes over the map again.
DueInMap == toRemove \cup Entries
Due == toRemove

RemoveEntry(k) ==
    /\ phase = "remove"
    /\ k \in Due
    /\ toRemove' = toRemove \ {k}
    /\ table' = [table EXCEPT ![k] = None]
    /\ UNCHANGED <<stats, cpu, phase, unread, out, delivered, history>>

RemoveDone ==
    /\ phase = "remove"
    /\ toRemove = {}
    /\ phase' = "send"
    /\ UNCHANGED <<program, unread, out, toRemove, delivered, history>>

\* tx.send(CaptureEvent::Flows(flows))
Send ==
    /\ phase = "send"
    /\ phase' = "idle"
    /\ delivered' = [k \in Key |-> delivered[k] + (IF out[k] = None THEN 0 ELSE out[k])]
    /\ out' = [k \in Key |-> None]
    /\ UNCHANGED <<program, unread, toRemove, history>>

CpuStep(c) == Load(c) \/ Store(c) \/ Insert(c)

DrainStep ==
    \/ \E k \in Key : ReadEntry(k) \/ RemoveEntry(k)
    \/ ReadDone \/ RemoveDone \/ Send

Next ==
    \/ \E c \in Cpu, k \in Key : Lookup(c, k)
    \/ \E c \in Cpu : CpuStep(c)
    \/ DrainTick
    \/ DrainStep

Spec == Init /\ [][Next]_vars

\* The XDP program runs to its end once it has begun; so does a drain, and the
\* interval's branch of the backend's select! comes up again and again.
Fairness ==
    /\ \A c \in Cpu : WF_vars(CpuStep(c))
    /\ WF_vars(DrainTick)
    /\ WF_vars(DrainStep)

FairSpec == Spec /\ Fairness

-----------------------------------------------------------------------------
Taken(k)   == IF out[k] = None THEN 0 ELSE out[k]
Pending(k) == Cardinality({c \in Cpu : Working(c) /\ cpu[c].key = k})
Quiet      == phase = "idle" /\ \A c \in Cpu : ~Working(c)

\* As long as no two CPUs have been in update_flow at once, every packet is
\* accounted for: it was delivered, or read, or stands in a live entry, or is
\* under way, or found the table full, or was counted between the drain's read
\* of its entry and the removal of it.  There is no other loss, and no packet is
\* counted twice.
PacketsAccountedFor ==
    ~raced =>
        \A k \in Key :
            arrived[k] = delivered[k] + Taken(k) + (IF k \in toRemove THEN 0 ELSE Live(k))
                           + Pending(k) + rejected[k] + windowed[k]

\* The two passes of a drain lose nothing of what they did not read: an entry
\* that appears between them survives until the next drain.
UnreadEntriesSurvive ==
    [][\A k \in Entries : table'[k] = None => out[k] # None /\ k \in toRemove]_vars

\* However many CPUs race on an entry, and however often its element is handed
\* out again under them, no counter ever shows more packets than were dealt
\* with in all, and no flow is delivered that had no packet.
Busy == {c \in Cpu : Working(c)}
CountersBounded ==
    /\ \A s \in Slot : stats[s] <= packets - Cardinality(Busy)
    /\ \A k \in Key : delivered[k] + Taken(k) + Live(k) > 0 => arrived[k] > 0

\* Its strengthening: a CPU that has loaded a counter holds no more than the
\* counters may show, and a key has an entry, a reading or a CPU at work on it
\* only if a packet of its has arrived.
CounterInv ==
    /\ packets >= Cardinality(Busy)
    /\ \A s \in Slot : stats[s] <= packets - Cardinality(Busy)
    /\ \A c \in Cpu : cpu[c].at = "loaded" => cpu[c].value <= packets - Cardinality(Busy)
    /\ \A c \in Busy : arrived[cpu[c].key] > 0
    /\ \A k \in Key : table[k] # None \/ out[k] # None \/ delivered[k] > 0 => arrived[k] > 0

\* lanscope-common/src/flow.rs: "no read-modify-write hazards beyond per-CPU
\* aggregation, which the map type handles".  Before a drain has taken anything,
\* a flow that found room has each of its packets in its counter, but for those
\* of an entry that a second first packet replaced: "packets += 1" itself loses none.
NoLostUpdate ==
    (Quiet /\ \A k \in Key : delivered[k] = 0)
        => \A k \in Key :
              rejected[k] = 0 => Live(k) + replaced[k] + windowed[k] = arrived[k]

\* drain_flows: "Read every flow entry, then remove it, so each snapshot is the
\* delta since the previous drain": the snapshots and the live entries add up.
SnapshotsAddUp ==
    Quiet => \A k \in Key : rejected[k] = 0 => delivered[k] + Live(k) = arrived[k]

\* Without a race no packet stays in the kernel for ever: each is delivered in a
\* snapshot, or is one of the losses PacketsAccountedFor names.
PacketsGetReported ==
    \A k \in Key : \A n \in 1 .. MaxPackets :
        arrived[k] >= n ~> (raced \/ delivered[k] + rejected[k] + windowed[k] >= n)
=============================================================================
