------------------------------ MODULE Pipeline ------------------------------
(***************************************************************************)
(* The processing loop of "lanscope run" (capture_loop, handle_event,      *)
(* flush_all and seed_registry in lanscope/src/app.rs) between its three   *)
(* stores: the in-memory registry, the devices table and the alerts table  *)
(* (lanscope/src/storage/sqlite.rs).                                       *)
(*                                                                         *)
(* The loop is one task and its handlers never await, so they are only     *)
(* interrupted by the death of the process.  A handler is therefore cut    *)
(* exactly where it commits something durable: each SQLite statement is a  *)
(* transaction of its own and is one step here, and the process may die    *)
(* between any two.  Any write may fail; the code goes on.                 *)
(***************************************************************************)
EXTENDS Registry

CONSTANTS
    Frames,      \* what decode_event may return: sequences of observations
    Snapshots,   \* flow snapshots: sequences of (source address, packets)
    MaxCrashes,  \* bound on deaths of the process
    MaxFails     \* bound on failed writes

Flow == [src : Ip, packets : Nat]

ASSUME PipelineAssumption ==
    /\ None \notin Mac
    /\ None \notin Time
    /\ Frames \subseteq Seq(Observation)
    /\ Snapshots \subseteq Seq(Flow)
    /\ MaxCrashes \in Nat
    /\ MaxFails \in Nat

VARIABLES
    pc,         \* where the loop stands
    registry,   \* DeviceRegistry::devices, None where there is no entry
    frame,      \* observations of the current frame still to be folded in
    snapshot,   \* flows of the current snapshot still to be applied
    now,        \* the handler's reading of the clock
    cur,        \* the new device being persisted and announced
    unflushed,  \* rows flush_all has still to write
    stopping,   \* the loop has been left, this is the last flush
    db,         \* the devices table, None where there is no row
    alerts,     \* number of new_device rows in the alerts table, by device
    crashes,    \* history: deaths of the process
    fails,      \* history: failed writes
    missed      \* history: devices of this run whose latest write failed

memory  == <<registry, frame, snapshot, now, cur, unflushed, stopping>>
durable == <<db, alerts>>
history == <<crashes, fails, missed>>
vars    == <<pc, memory, durable, history>>

Handling == {"observe", "persist", "announce", "flows", "flush"}
Places   == {"down", "select", "stopped"} \cup Handling

TypeOK ==
    /\ pc \in Places
    /\ registry \in [Mac -> Device \cup {None}]
    /\ frame \in Seq(Observation)
    /\ snapshot \in Seq(Flow)
    /\ now \in Time \cup {None}
    /\ cur \in Mac \cup {None}
    /\ unflushed \subseteq {m \in Mac : registry[m] # None}
    /\ stopping \in BOOLEAN
    /\ db \in [Mac -> Row \cup {None}]
    /\ alerts \in [Mac -> Nat]
    /\ crashes \in Nat
    /\ fails \in Nat
    /\ missed \subseteq Mac
    /\ pc # "flush" => unflushed = {}
    /\ pc = "observe" => frame # << >> /\ now \in Time
    /\ pc = "flows" => snapshot # << >> /\ now \in Time
    /\ pc \in {"persist", "announce"} =>
          cur \in Mac /\ registry[cur] # None /\ now \in Time

NoDevices == [m \in Mac |-> None]

Forgotten ==
    /\ registry' = NoDevices
    /\ frame' = << >>
    /\ snapshot' = << >>
    /\ now' = None
    /\ cur' = None
    /\ unflushed' = {}
    /\ stopping' = FALSE
    /\ missed' = {}

Init ==
    /\ pc = "down"
    /\ registry = NoDevices
    /\ frame = << >>
    /\ snapshot = << >>
    /\ now = None
    /\ cur = None
    /\ unflushed = {}
    /\ stopping = FALSE
    /\ db = NoDevices
    /\ alerts = [m \in Mac |-> 0]
    /\ crashes = 0
    /\ fails = 0
    /\ missed = {}

-----------------------------------------------------------------------------
(* run: open the store and seed the registry from it                       *)

\* Mutant: the registry starts empty.
SeedNothing(rows) == NoDevices
Seeded(rows) == [m \in Mac |-> IF rows[m] = None THEN None ELSE FromRow(rows[m])]

Start ==
    /\ pc = "down"
    /\ pc' = "select"
    /\ registry' = Seeded(db)
    /\ UNCHANGED <<frame, snapshot, now, cur, unflushed, stopping, durable, history>>

-----------------------------------------------------------------------------
(* Writes: what an upsert or an alert does to the store, or its failure    *)

WriteRow(m) ==
    /\ db' = [db EXCEPT ![m] = Upsert(@, registry[m])]
    /\ missed' = missed \ {m}
    /\ UNCHANGED <<alerts, fails>>

WriteFails(m) ==
    /\ fails < MaxFails
    /\ fails' = fails + 1
    /\ missed' = missed \cup {m}
    /\ UNCHANGED <<db, alerts>>

AddAlert(m) ==
    /\ alerts' = [alerts EXCEPT ![m] = @ + 1]
    /\ UNCHANGED <<db, fails, missed>>

AlertFails ==
    /\ fails < MaxFails
    /\ fails' = fails + 1
    /\ UNCHANGED <<db, alerts, missed>>

-----------------------------------------------------------------------------
(* handle_event, CaptureEvent::Discovery                                   *)

\* The rest of a frame is taken up, or the loop returns to its select!.
Resume(rest, t) ==
    /\ frame' = rest
    /\ pc' = IF rest = << >> THEN "select" ELSE "observe"
    /\ now' = IF rest = << >> THEN None ELSE t

ReceiveFrame(f, t) ==
    /\ pc = "select"
    /\ Resume(f, t)
    /\ UNCHANGED <<registry, snapshot, cur, unflushed, stopping, durable, history>>

SkipZeroMac ==
    /\ pc = "observe"
    /\ Head(frame).mac = ZeroMac
    /\ Resume(Tail(frame), now)
    /\ UNCHANGED <<registry, snapshot, cur, unflushed, stopping, durable, history>>

\* The observation is folded in and the device classified; a device that was
\* not in the registry goes on to be persisted and announced.
\* Mutants: every observation announces its device; only a device with a row is
\* announced.
IsNewAlways(m) == TRUE
IsNewIfStored(m) == registry[m] = None /\ db[m] # None
IsNew(m) == registry[m] = None

ObserveDevice ==
    /\ pc = "observe"
    /\ Head(frame).mac # ZeroMac
    /\ LET o == Head(frame)
           m == o.mac
       IN  /\ registry' = [registry EXCEPT ![m] = Classified(Observe(@, m, o.ip, o.signal, now))]
           /\ IF IsNew(m)
              THEN /\ pc' = "persist"
                   /\ cur' = m
                   /\ frame' = Tail(frame)
                   /\ now' = now
              ELSE /\ Resume(Tail(frame), now)
                   /\ cur' = cur
    /\ UNCHANGED <<snapshot, unflushed, stopping, durable, history>>

\* let _ = store.upsert_device(dev): the result is ignored.
PersistStep(m) == WriteRow(m) \/ WriteFails(m)

PersistNew ==
    /\ pc = "persist"
    /\ pc' = "announce"
    /\ PersistStep(cur)
    /\ UNCHANGED <<memory, crashes>>

\* NewDeviceDetector and emit_alerts: a failed insert is only logged.
AnnounceNew ==
    /\ pc = "announce"
    /\ AddAlert(cur) \/ AlertFails
    /\ Resume(frame, now)
    /\ cur' = None
    /\ UNCHANGED <<registry, snapshot, unflushed, stopping, crashes>>

-----------------------------------------------------------------------------
(* handle_event, CaptureEvent::Flows                                       *)

ReceiveFlows(s, t) ==
    /\ pc = "select"
    /\ snapshot' = s
    /\ pc' = IF s = << >> THEN "select" ELSE "flows"
    /\ now' = IF s = << >> THEN None ELSE t
    /\ UNCHANGED <<registry, frame, cur, unflushed, stopping, durable, history>>

\* The port-scan and volume detectors see the flow too; the alerts table rows
\* they add are of other kinds and are not counted.
ApplyFlow ==
    /\ pc = "flows"
    /\ LET f    == Head(snapshot)
           rest == Tail(snapshot)
       IN  /\ \/ \E m \in Owners(registry, f.src) :
                    registry' = CreditOwner(registry, m, f.src, f.packets, now)
              \/ Owners(registry, f.src) = {} /\ UNCHANGED registry
           /\ snapshot' = rest
           /\ pc' = IF rest = << >> THEN "select" ELSE "flows"
           /\ now' = IF rest = << >> THEN None ELSE now
    /\ UNCHANGED <<frame, cur, unflushed, stopping, durable, history>>

-----------------------------------------------------------------------------
(* flush_all, on the 5-second tick and once more after the loop            *)

FlushSet == {m \in Mac : registry[m] # None}

FlushTick ==
    /\ pc = "select"
    /\ pc' = "flush"
    /\ unflushed' = FlushSet
    /\ UNCHANGED <<registry, frame, snapshot, now, cur, stopping, durable, history>>

\* shutdown_rx.changed() saw true, or every sender of capture events is gone.
\* Mutant: no flush follows the loop.
StopSkipsFlush == /\ unflushed' = {}
                  /\ stopping' = TRUE
                  /\ pc' = "flush"
StopFlush == /\ unflushed' = FlushSet
             /\ stopping' = TRUE
             /\ pc' = "flush"

Stop ==
    /\ pc = "select"
    /\ StopFlush
    /\ UNCHANGED <<registry, frame, snapshot, now, cur, durable, history>>

FlushRow(m) ==
    /\ pc = "flush"
    /\ m \in unflushed
    /\ unflushed' = unflushed \ {m}
    /\ WriteRow(m) \/ WriteFails(m)
    /\ UNCHANGED <<pc, registry, frame, snapshot, now, cur, stopping, crashes>>

FlushDone ==
    /\ pc = "flush"
    /\ unflushed = {}
    /\ pc' = IF stopping THEN "stopped" ELSE "select"
    /\ UNCHANGED <<memory, durable, history>>

-----------------------------------------------------------------------------
(* The end of the process: orderly, or at any point                        *)

Exit ==
    /\ pc = "stopped"
    /\ pc' = "down"
    /\ Forgotten
    /\ UNCHANGED <<durable, crashes, fails>>

Crash ==
    /\ pc \in Handling \cup {"select"}
    /\ crashes < MaxCrashes
    /\ crashes' = crashes + 1
    /\ pc' = "down"
    /\ Forgotten
    /\ UNCHANGED <<durable, fails>>

HandlerStep ==
    \/ SkipZeroMac \/ ObserveDevice \/ PersistNew \/ AnnounceNew
    \/ ApplyFlow
    \/ \E m \in Mac : FlushRow(m)
    \/ FlushDone

Next ==
    \/ Start
    \/ \E f \in Frames, t \in Time : ReceiveFrame(f, t)
    \/ \E s \in Snapshots, t \in Time : ReceiveFlows(s, t)
    \/ FlushTick
    \/ Stop
    \/ HandlerStep
    \/ Exit
    \/ Crash

Spec == Init /\ [][Next]_vars

\* A handler that has begun runs on, and select! picks among its ready
\* branches at random, so a tick that keeps being due is not put off for ever
\* by a stream of capture events.
Fairness == WF_vars(HandlerStep) /\ SF_vars(FlushTick)

FairSpec == Spec /\ Fairness

-----------------------------------------------------------------------------
(* Safety                                                                  *)

\* What a stored row says of a device is behind what the registry says: the
\* same first sighting, no evidence and no traffic the registry lacks.
Behind(row, d) ==
    /\ row.first = d.first
    /\ FromI64(row.packets) <= d.packets
    /\ row.services \subseteq d.services
    /\ \A a \in Attr : row.texts[a] # None => d.texts[a] # None

\* While the program runs, the registry knows every stored device and is never
\* behind the store, so no flush can overwrite a row with less than it holds.
\* This is what seed_registry is for.
StoreBehindRegistry ==
    pc # "down" =>
        \A m \in Mac : db[m] # None => registry[m] # None /\ Behind(db[m], registry[m])

\* A stored device is for ever: across flushes, crashes and restarts its row
\* keeps its first_seen and loses no service and no counted packet.
DurableEvidenceGrows ==
    [][\A m \in Mac : db[m] # None =>
          /\ db'[m] # None
          /\ db'[m].first = db[m].first
          /\ FromI64(db[m].packets) <= FromI64(db'[m].packets)
          /\ db[m].services \subseteq db'[m].services]_vars

\* A row is never written between an observation and the classification that
\* follows it: its device type is the one its own signals give.
RowsAreClassified ==
    \A m \in Mac : db[m] # None => db[m].type = Classify(db[m].texts, db[m].services)

\* NewDeviceDetector: "Emits an alert the first time a device is seen".  Every
\* repetition of a new_device alert, in this run or after any number of
\* restarts, costs a failed write.
AnnouncedOnce ==
    \A m \in Mac : alerts[m] <= 1 + fails

\* handle_event: "Persist immediately so a crash before flush still records
\* it".  An announced device is on disk unless a write failed.
PersistedBeforeAnnounced ==
    fails = 0 => \A m \in Mac : alerts[m] > 0 => db[m] # None

\* A device that is on disk without ever having been announced was cut off
\* between the two writes, or its alert failed: one crash or one failed write
\* silences one device at most.
SilentDevices ==
    {m \in Mac : db[m] # None /\ alerts[m] = 0
                    /\ ~(pc = "announce" /\ cur = m)}
FewDevicesSilent == Cardinality(SilentDevices) <= crashes + fails

\* After an orderly end nothing of what the loop folded in is lost: every row
\* whose last write succeeded is the registry's record.
StopIsDurable ==
    pc = "stopped" =>
        \A m \in Mac : registry[m] # None /\ m \notin missed => db[m] = ToRow(registry[m])

-----------------------------------------------------------------------------
(* What the writes amount to for a reader of the database                  *)

\* load_devices: the records as they are read back.
StoredRecords == [m \in Mac |-> IF db[m] = None THEN None ELSE FromRow(db[m])]

Listing == INSTANCE Inventory
    WITH stored <- StoredRecords, announced <- alerts, failures <- fails

\* The two tables, as the read-only commands and the next run see them, only
\* ever go through steps of the abstract inventory, across all the crashes,
\* restarts and failed writes.
StoreIsInventory == Listing!Spec

-----------------------------------------------------------------------------
(* Strengthenings that make the safety properties inductive                *)

\* Memory never holds an unclassified record between two steps.
RegistryIsClassified ==
    \A m \in Mac : registry[m] # None =>
        registry[m].type = Classify(registry[m].texts, registry[m].services)

\* A device without a row has had at most one alert for each failed write; the
\* device that is about to be announced has one alert less to its account.
AlertBudget ==
    \A m \in Mac :
        /\ db[m] = None => alerts[m] <= fails
        /\ alerts[m] <= 1 + fails
        /\ pc = "persist" /\ cur = m => db[m] = None
        /\ pc = "announce" /\ cur = m =>
              alerts[m] <= fails /\ (db[m] = None => alerts[m] < fails)

\* A flush leaves behind it rows that equal the records they were made from.
FlushedRowsAgree ==
    pc \in {"flush", "stopped"} =>
        \A m \in Mac : registry[m] # None /\ m \notin unflushed \cup missed =>
            db[m] = ToRow(registry[m])

\* The devices a crash or a failure has already silenced, or may still have: they
\* are known or on disk, and nothing is on its way to announce them.
Unannounced ==
    {m \in Mac : /\ registry[m] # None \/ db[m] # None
                 /\ alerts[m] = 0
                 /\ ~(pc \in {"persist", "announce"} /\ cur = m)}
SilenceIsPaidFor ==
    IsFiniteSet(Unannounced) /\ Cardinality(Unannounced) <= crashes + fails

PipelineInv ==
    /\ TypeOK
    /\ StoreBehindRegistry
    /\ RegistryIsClassified
    /\ RowsAreClassified
    /\ AlertBudget
    /\ FlushedRowsAgree
    /\ SilenceIsPaidFor

-----------------------------------------------------------------------------
(* Liveness                                                                *)

Running == pc \notin {"down", "stopped"}

\* The periodic flush retries what the immediate write failed to do: a device
\* that is in the registry is on disk eventually, or the loop has ended.  And
\* whatever count a record has, its row reaches it or passes it.
TrafficGetsStored ==
    \A m \in Mac : \A c \in Counter :
        (Running /\ registry[m] # None /\ registry[m].packets = c)
            ~> (~Running \/ (db[m] # None /\ FromI64(db[m].packets) >= c))
=============================================================================
