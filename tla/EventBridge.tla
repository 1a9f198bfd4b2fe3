---------------------------- MODULE EventBridge ----------------------------
(***************************************************************************)
(* The discovery path of the eBPF backend: the XDP program on every CPU    *)
(* (lanscope-ebpf/src/main.rs), its two shared maps SEEN and EVENTS, and   *)
(* the user-space task that waits for the ring buffer to become readable   *)
(* and forwards its records (lanscope/src/capture/ebpf.rs).  The flow      *)
(* counters the same program keeps and their drain are in FlowTable, and   *)
(* how the task and the processing loop end is in Lifecycle: here they run *)
(* on.                                                                     *)
(*                                                                         *)
(* The ring buffer, the LRU map, epoll and tokio's AsyncFd are libraries:  *)
(* a record is reserved first and visible only when it is submitted, a     *)
(* submission wakes the reader only if the reader has caught up with that  *)
(* very record, and clear_ready leaves alone a readiness that came after   *)
(* the guard was made.                                                     *)
(***************************************************************************)
EXTENDS Integers, Sequences, FiniteSets

CONSTANTS
    Mac,        \* hardware addresses
    Cpu,        \* CPUs that run the XDP program
    Frames,     \* frames that may arrive
    SeenCap,    \* capacity of SEEN (4096)
    RingCap,    \* records that fit the ring buffer (256 KiB)
    ChanCap,    \* capacity of the capture channel (1024)
    MaxFrames,  \* bound on frames that arrive
    MaxErrors,  \* bound on failed insertions into SEEN
    ZeroMac,    \* the all-zero address
    None

Kind == {"new_host", "arp", "dhcp", "mdns", "ssdp", "tls_hello"}

\* Ports are those the program reads: both are 0 when the UDP header is cut
\* short.  "says" tells whether the payload decodes to any signal.
Frame ==
    [src : Mac, ether : {"runt", "arp", "ipv4", "other"}, ihl : Nat,
     proto : {"tcp", "udp", "other"}, ports : SUBSET Nat, says : BOOLEAN]

ASSUME EventBridgeAssumption ==
    /\ Frames \subseteq Frame
    /\ None \notin Kind \cup Cpu
    /\ IsFiniteSet(Mac) /\ IsFiniteSet(Cpu)
    /\ SeenCap \in Nat \ {0} /\ RingCap \in Nat \ {0} /\ ChanCap \in Nat \ {0}
    /\ MaxFrames \in Nat /\ MaxErrors \in Nat

VARIABLES
    cpu,        \* progress of each CPU through try_lanscope
    seen,       \* the keys of SEEN
    ring,       \* EVENTS, oldest record first
    phase,      \* progress of the reader task
    woken,      \* epoll: a wake-up the driver has not looked at yet
    ready,      \* AsyncFd: the readiness flag
    fresh,      \* AsyncFd: it was set again since the guard was made
    channel,    \* discovery events on their way to the processing loop
    known,      \* devices the processing loop has an observation of
    frames,     \* history: frames that arrived
    together,   \* history: hosts that two CPUs have worked on at once
    intros,     \* history: times a host was announced
    forgotten,  \* history: times SEEN forgot it
    unkept,     \* history: times SEEN did not take it in
    tried,      \* history: events the program set out to emit
    dropped,    \* history: those the ring had no room for
    unheard,    \* history: hosts that lost a new_host event
    received,   \* history: events that reached the processing loop
    first       \* history: kind of a host's first event received

program  == <<cpu, seen>>
wakeup   == <<woken, ready, fresh>>
loop     == <<channel, known>>
counts   == <<frames, together, intros, forgotten, unkept, tried>>
losses   == <<dropped, unheard>>
arrivals == <<received, first>>
history  == <<counts, losses, arrivals>>
vars     == <<program, ring, phase, wakeup, loop, history>>

Idle == [at |-> "idle"]

Record == [mac : Mac, code : 0 .. 255, says : BOOLEAN, owner : Cpu \cup {None}]
CpuState ==
    {Idle}
      \cup [at : {"insert", "reserve", "submit"}, mac : Mac, says : BOOLEAN, todo : Seq(Kind)]

TypeOK ==
    /\ cpu \in [Cpu -> CpuState]
    /\ \A c \in Cpu : cpu[c] # Idle => cpu[c].todo # << >>
    /\ seen \subseteq Mac /\ Cardinality(seen) <= SeenCap
    /\ ring \in Seq(Record) /\ Len(ring) <= RingCap
    /\ phase \in {"start", "select", "drain", "send", "clear"}
    /\ phase = "send" => ring # << >>
    /\ woken \in BOOLEAN /\ ready \in BOOLEAN /\ fresh \in BOOLEAN
    /\ channel \in Seq(Record) /\ Len(channel) <= ChanCap
    /\ known \subseteq Mac
    /\ frames \in 0 .. MaxFrames
    /\ intros \in [Mac -> Nat] /\ forgotten \in [Mac -> Nat] /\ unkept \in [Mac -> Nat]
    /\ tried \in Nat /\ dropped \in Nat /\ received \in Nat
    /\ together \subseteq Mac /\ unheard \subseteq Mac
    /\ first \in [Mac -> Kind \cup {"unknown", None}]

Init ==
    /\ cpu = [c \in Cpu |-> Idle]
    /\ seen = {}
    /\ ring = << >>
    /\ phase = "start"
    /\ woken = FALSE /\ ready = FALSE /\ fresh = FALSE
    /\ channel = << >> /\ known = {}
    /\ together = {} /\ unheard = {}
    /\ frames = 0
    /\ intros = [m \in Mac |-> 0]
    /\ forgotten = [m \in Mac |-> 0] /\ unkept = [m \in Mac |-> 0]
    /\ tried = 0 /\ dropped = 0 /\ received = 0
    /\ first = [m \in Mac |-> None]

-----------------------------------------------------------------------------
(* The XDP program, on one CPU                                             *)

\* "kind as u8" in the program, EventKind::from_u8 in the processing loop.
KindCode ==
    [k \in Kind |->
        CASE k = "new_host" -> 0 [] k = "arp" -> 1 [] k = "dhcp" -> 2
          [] k = "mdns" -> 3 [] k = "ssdp" -> 4 [] k = "tls_hello" -> 5]
FromU8(code) ==
    IF \E k \in Kind : KindCode[k] = code
    THEN CHOOSE k \in Kind : KindCode[k] = code
    ELSE "unknown"

\* udp_discovery_kind: DHCP before mDNS before SSDP, on either port.
UdpDiscoveryKind(ports) ==
    CASE ports \cap {67, 68} # {} -> <<"dhcp">>
      [] ports \cap {67, 68} = {} /\ 5353 \in ports -> <<"mdns">>
      [] ports \cap {67, 68, 5353} = {} /\ 1900 \in ports -> <<"ssdp">>
      [] OTHER -> << >>

\* The event, if any, of the frame itself; an IPv4 header whose length field is
\* under 20 ends the program.
DiscoveryEvents(f) ==
    CASE f.ether = "arp" -> <<"arp">>
      [] f.ether = "ipv4" /\ f.ihl >= 20 /\ f.proto = "udp" -> UdpDiscoveryKind(f.ports)
      [] OTHER -> << >>

\* SEEN.get(&mac).is_none().  Mutant: nothing is looked up.
UnseenAlways(m) == TRUE
Unseen(m) == m \notin seen

\* The events one frame gives rise to, in their order.  Mutant: the frame's own
\* event comes first.
EventsSwapped(f) == DiscoveryEvents(f) \o (IF Unseen(f.src) THEN <<"new_host">> ELSE << >>)
EventsOf(f) == (IF Unseen(f.src) THEN <<"new_host">> ELSE << >>) \o DiscoveryEvents(f)

Busy(c)   == cpu[c] # Idle
AtWork(m) == {c \in Cpu : Busy(c) /\ cpu[c].mac = m}

\* try_lanscope up to and with the look-up; without an Ethernet header it ends.
Arrive(c, f) ==
    /\ ~Busy(c)
    /\ frames < MaxFrames
    /\ frames' = frames + 1
    /\ IF f.ether = "runt" \/ EventsOf(f) = << >>
       THEN UNCHANGED <<cpu, together>>
       ELSE /\ cpu' = [cpu EXCEPT ![c] =
                          [at |-> IF Unseen(f.src) THEN "insert" ELSE "reserve",
                           mac |-> f.src, says |-> f.says, todo |-> EventsOf(f)]]
            /\ together' = IF AtWork(f.src) = {} THEN together ELSE together \cup {f.src}
    /\ UNCHANGED <<seen, ring, phase, wakeup, loop, losses, arrivals>>
    /\ UNCHANGED <<intros, forgotten, unkept, tried>>

\* SEEN.insert(&mac, &1, 0): a full map forgets some other host, and its
\* per-CPU free lists may make it forget one a little earlier.
Evict(m, gone) ==
    /\ gone \in {{}} \cup {{o} : o \in seen \ {m}}
    /\ forgotten' = [o \in Mac |-> forgotten[o] + (IF o \in gone THEN 1 ELSE 0)]

Insert(c) ==
    /\ cpu[c].at = "insert"
    /\ cpu' = [cpu EXCEPT ![c].at = "reserve"]
    /\ LET m == cpu[c].mac
       IN  /\ \E gone \in SUBSET seen :
                 /\ Evict(m, gone)
                 /\ seen' = (seen \ gone) \cup {m}
           /\ Cardinality(seen') <= SeenCap
           /\ intros' = [intros EXCEPT ![m] = @ + 1]
    /\ UNCHANGED <<ring, phase, wakeup, loop, losses, arrivals>>
    /\ UNCHANGED <<frames, together, unkept, tried>>

\* "let _ =": the map had no element to spare, or its bucket was locked; one may
\* have been evicted in vain.  The event is emitted all the same.
Errors == UNION {{m} \X (1 .. unkept[m]) : m \in Mac}

InsertFails(c) ==
    /\ cpu[c].at = "insert"
    /\ Cardinality(Errors) < MaxErrors
    /\ cpu' = [cpu EXCEPT ![c].at = "reserve"]
    /\ LET m == cpu[c].mac
       IN  /\ \E gone \in SUBSET seen : Evict(m, gone) /\ seen' = seen \ gone
           /\ intros' = [intros EXCEPT ![m] = @ + 1]
           /\ unkept' = [unkept EXCEPT ![m] = @ + 1]
    /\ UNCHANGED <<ring, phase, wakeup, loop, losses, arrivals>>
    /\ UNCHANGED <<frames, together, tried>>

\* What the CPU turns to when it is done with the first event of its list.
Rest(c) ==
    IF Len(cpu[c].todo) = 1 THEN Idle
    ELSE [cpu[c] EXCEPT !.at = "reserve", !.todo = Tail(@)]

\* emit: EVENTS.reserve, and on failure a silent return.
Reserve(c) ==
    /\ cpu[c].at = "reserve"
    /\ Len(ring) < RingCap
    /\ LET e == Head(cpu[c].todo)
       IN  ring' = Append(ring, [mac |-> cpu[c].mac, code |-> KindCode[e],
                                 says |-> cpu[c].says,
                                 owner |-> c])
    /\ tried' = tried + 1
    /\ cpu' = [cpu EXCEPT ![c].at = "submit"]
    /\ UNCHANGED <<seen, phase, wakeup, loop, losses, arrivals>>
    /\ UNCHANGED <<frames, together, intros, forgotten, unkept>>

ReserveFails(c) ==
    /\ cpu[c].at = "reserve"
    /\ Len(ring) = RingCap
    /\ tried' = tried + 1
    /\ dropped' = dropped + 1
    /\ unheard' = IF Head(cpu[c].todo) = "new_host" THEN unheard \cup {cpu[c].mac} ELSE unheard
    /\ cpu' = [cpu EXCEPT ![c] = Rest(c)]
    /\ UNCHANGED <<seen, ring, phase, wakeup, loop, arrivals>>
    /\ UNCHANGED <<frames, together, intros, forgotten, unkept>>

\* entry.submit(0): the record becomes visible; the reader is woken if it has
\* consumed everything before it.
Mine(c) == CHOOSE i \in 1 .. Len(ring) : ring[i].owner = c

Submit(c) ==
    /\ cpu[c].at = "submit"
    /\ ring' = [ring EXCEPT ![Mine(c)].owner = None]
    /\ woken' = (woken \/ Mine(c) = 1)
    /\ cpu' = [cpu EXCEPT ![c] = Rest(c)]
    /\ UNCHANGED <<seen, phase, ready, fresh, loop, history>>

CpuStep(c) == Insert(c) \/ InsertFails(c) \/ Reserve(c) \/ ReserveFails(c) \/ Submit(c)

-----------------------------------------------------------------------------
(* The reader task                                                         *)

\* AsyncFd::new: registering with epoll looks at the ring once.  Events may be
\* there already, for the program was attached when the backend was made.
Register ==
    /\ phase = "start"
    /\ phase' = "select"
    /\ woken' = (woken \/ ring # << >>)
    /\ UNCHANGED <<program, ring, ready, fresh, loop, history>>

\* The I/O driver asks epoll, which reports the ring if there is something in it.
Poll ==
    /\ phase # "start" /\ woken
    /\ woken' = FALSE
    /\ ready' = (ready \/ ring # << >>)
    /\ fresh' = (fresh \/ ring # << >>)
    /\ UNCHANGED <<program, ring, phase, loop, history>>

\* async_fd.readable_mut() gives a guard.
Readable ==
    /\ phase = "select" /\ ready
    /\ phase' = "drain"
    /\ fresh' = FALSE
    /\ UNCHANGED <<program, ring, woken, ready, loop, history>>

HeadVisible == ring # << >> /\ Head(ring).owner = None

\* drain_events: while let Some(item) = ring.next(), which stops at a record
\* that is still being filled; one that is too short for an Event is skipped.
\* Mutant: one that is just as long as an Event is, too.
EventLen == 528
LongerThanEvent(len) == len > EventLen
LongEnough(len) == len >= EventLen

NextItem ==
    /\ phase = "drain" /\ HeadVisible
    /\ IF LongEnough(EventLen)
       THEN phase' = "send" /\ UNCHANGED ring
       ELSE ring' = Tail(ring) /\ UNCHANGED phase
    /\ UNCHANGED <<program, wakeup, loop, history>>

NoItem ==
    /\ phase = "drain" /\ ~HeadVisible
    /\ phase' = "clear"
    /\ UNCHANGED <<program, ring, wakeup, loop, history>>

\* tx.send(..).await; the item gives its room in the ring back when it is done
\* with.  Mutant: one record for each readiness.
AfterSendOne == "clear"
AfterSend == "drain"

SendEvent ==
    /\ phase = "send"
    /\ Len(channel) < ChanCap
    /\ channel' = Append(channel, Head(ring))
    /\ ring' = Tail(ring)
    /\ phase' = AfterSend
    /\ UNCHANGED <<program, wakeup, known, history>>

\* guard.clear_ready().  Mutant: whatever came since the guard was made.
ReadyAfterClearNever == FALSE
ReadyAfterClear == fresh

ClearReady ==
    /\ phase = "clear"
    /\ phase' = "select"
    /\ ready' = ReadyAfterClear
    /\ UNCHANGED <<program, ring, woken, fresh, loop, history>>

-----------------------------------------------------------------------------
(* The processing loop, as far as discovery events go                      *)

\* decode_event: presence is an observation for every kind of event but those
\* whose payload is decoded, which may say nothing.  Mutant: for ARP only.
ObservedForArp(kind, says) == kind = "arp" \/ says
Observed(kind, says) == kind \notin {"dhcp", "mdns", "ssdp"} \/ says

\* handle_event on a discovery event; the all-zero address, which frames on the
\* loopback interface have, is no device.
Process ==
    /\ channel # << >>
    /\ channel' = Tail(channel)
    /\ LET r == Head(channel)
       IN  /\ known' = IF Observed(FromU8(r.code), r.says) /\ r.mac # ZeroMac
                       THEN known \cup {r.mac} ELSE known
           /\ first' = IF first[r.mac] = None
                       THEN [first EXCEPT ![r.mac] = FromU8(r.code)] ELSE first
    /\ received' = received + 1
    /\ UNCHANGED <<program, ring, phase, wakeup, counts, losses>>

ReaderStep == NextItem \/ NoItem \/ SendEvent \/ ClearReady

Next ==
    \/ \E c \in Cpu, f \in Frames : Arrive(c, f)
    \/ \E c \in Cpu : CpuStep(c)
    \/ Register \/ Poll \/ Readable
    \/ ReaderStep
    \/ Process

Spec == Init /\ [][Next]_vars

\* The XDP program runs to its end, the task, the I/O driver and the processing
\* loop are scheduled again and again.
Fairness ==
    /\ \A c \in Cpu : WF_vars(CpuStep(c))
    /\ WF_vars(Register) /\ WF_vars(Poll)
    /\ WF_vars(Readable) /\ WF_vars(ReaderStep)
    /\ WF_vars(Process)

FairSpec == Spec /\ Fairness

-----------------------------------------------------------------------------
(* Safety                                                                  *)

\* No wake-up is lost: when the task waits, a visible record at the head of the
\* ring has made the file descriptor ready, or is about to.  Whatever comes
\* between the last ring.next() and clear_ready() is not missed.
NoLostWakeup ==
    phase = "select" /\ HeadVisible => ready \/ woken

\* Every event the program set out to emit is in the ring, in the channel or
\* processed, exactly once, unless the ring was full.
EventsAccountedFor ==
    tried = Len(ring) + Len(channel) + received + dropped

\* main.rs: SEEN is there "so `NewHost` fires once each".  A host is announced
\* once, and once more for each time SEEN has forgotten it or failed to take it
\* in, or else two CPUs handled frames of its at once.
AnnouncedOnce ==
    \A m \in Mac : m \notin together => intros[m] <= 1 + forgotten[m] + unkept[m]

\* A host is introduced before it is heard: the first event of its that is
\* processed is new_host, unless that one was lost or two CPUs were at it.
IntroducedFirst ==
    \A m \in Mac :
        first[m] # None /\ m \notin together \cup unheard => first[m] = "new_host"

-----------------------------------------------------------------------------
(* Liveness                                                                *)

\* Nothing stays behind in the kernel: when frames pause, every event has
\* reached the processing loop or found the ring full.
EventsGetThrough == []<>(tried = received + dropped)

\* A host that sends anything becomes known, whatever it sends, unless its
\* new_host event found the ring full: then nothing announces it again.
HostsGetKnown ==
    \A m \in Mac \ {ZeroMac} : AtWork(m) # {} ~> m \in known \cup unheard
=============================================================================
