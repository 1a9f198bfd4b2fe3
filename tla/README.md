# A TLA+ verification of lanscope

lanscope watches a local network: an XDP program counts flows and copies
discovery frames in the kernel, a user-space agent folds both into one record
per device, stores the records in SQLite, raises alerts and shows a dashboard.
This directory holds TLA+ modules translated from its Rust source, TLC
configurations that check them on small instances, and proofs checked by TLAPS.
Paths below are relative to the repository's root; `map` in `PROJECT.json` gives
the source lines of every definition.

    tlc -config Pipeline.cfg MCPipeline.tla     # every other run likewise
    tlapm Pipeline_proofs.tla                   # and the other *_proofs modules

## The system

    XDP program (every CPU)                 lanscope-ebpf/src/main.rs
      | FLOWS (hash map)   | EVENTS (ring)
      v                    v
    capture backend (one task)              lanscope/src/capture/{ebpf,mock}.rs
      | mpsc channel of CaptureEvent, 1024 places
      v
    capture_loop (one task)                 lanscope/src/app.rs
      |-- decode_event                      lanscope/src/decode/
      |-- DeviceRegistry                    lanscope/src/registry/mod.rs
      |-- RuleFingerprinter                 lanscope/src/fingerprint/
      |-- anomaly::Engine                   lanscope/src/anomaly/
      |-- SqliteStore                       lanscope/src/storage/sqlite.rs
      | Mutex<Dashboard>        ^ watch channel: the shutdown flag
      v                         |
    screen (a blocking thread)              lanscope/src/tui/mod.rs

| Component | State | Operations | What is hard | What makes it correct |
|---|---|---|---|---|
| kernel flow table | map from 5-tuple to counters | `update_flow` on each CPU; `drain_flows` | CPUs race on one entry; the drain reads in one pass and removes in another; the map fills; elements are reused under stale pointers | every packet is reported or is a loss of a known kind, never twice |
| kernel discovery | `SEEN` (LRU), `EVENTS` ring | `announce_new_host`, `emit`; `drain_events` | `SEEN` is set before the event is known to fit; eviction; edge-triggered readiness of a ring whose records become visible out of order | an event gets through once or found the ring full; a device on the segment becomes known |
| capture backend | interval, ring, sender | `spawn`: a `select!` of ring, tick, shutdown | it waits for room in the channel inside a branch | it stops when asked, and only then |
| decoders | none | `decode_event` and the four protocols | a copy cut short by the kernel, overlapping names | what a frame says arrives, what it does not say is not made up |
| registry | record per MAC | `observe`, `apply_flow`, `set_device_type`, `load` | two streams joined by an address that moves between devices | nothing is lost or counted twice; evidence only grows |
| rules | none | `classify`, `lookup` | many rules match one record | a strong match is not forgotten for a weaker one |
| processing loop | registry, detectors, flush tick | `handle_event`, `flush_all`, `seed_registry` | each SQLite statement commits alone, any may fail, the process may die between two | memory, rows and alerts agree as far as the crashes and failures allow |
| storage | devices and alerts tables | `upsert_device`, `load_devices`, `record_alert` | `u64` counters in `i64` columns, `first_seen` kept on conflict | a record survives the round trip |
| detectors | window per source, average per source | `on_flow`, `on_device` | windows, boundaries, the order of flows | alerts are true, bounded in number, and big events are not missed |
| lifecycle | channel, flag, tasks, mutex | `run`, its joins, the signal handler, `run_blocking` | who waits for whom; errors on the way out | it ends when asked, not before, with the last state stored |
| dashboard, selection | lists, index | `set_devices`, `push_alert`, `move_selection`, `render` | an index into a list that is replaced by another thread between a key and its effect | what fits a pane gets into it, no row leaves it but for another, the highlight does not jump |
| exporter, CLI, configuration, read-only commands, ONNX, build helpers | - | - | - | not modelled, see below |

`PROJECT.json` lists the hazards one by one, at their lines.

## The modules

    EventBridge     FlowTable        Decoders  Rules      PortScan  VolumeSpike
    (kernel -> user space)                \     |   \
                                           \    |    Registry --- Inventory
                                           Discovery /   |   \      ^ refines
                                               |        /     \     |
                                           Attribution         Pipeline
    Lifecycle (tasks, channel, shutdown)       Screen (loop and renderer)

**`Registry`** (operators). `Device` is the record, `Row` its form in the
table. `Observe`, `Touch`, `ApplySignal`, `PushIp`, `AddService`, `CreditOwner`
follow `observe`, `push_ip`, `apply_signal` and `apply_flow`; `ToRow`, `FromRow`,
`Upsert` follow the SQL. Three abstractions: texts are members of a set; vendor,
hostname, DHCP fingerprint and vendor class are one function `texts`, whose vendor
field no signal sets; `bytes` goes exactly like `packets` and is left out. `u64` and
`i64` are ranges of width `MaxI64`, and `as i64`, `as u64` and `saturating_add` do what
they do in Rust. The fingerprint rules and the OUI table are the constant operators
`Classify` and `Vendor`: the theorems hold for all of them, the run `Attribution`
takes the real ones from `Rules`. `services` is a set: the code keeps the order of
arrival, which nothing reads.

**`Attribution`** (variable `registry`, with history). `ReceiveEvent` takes up what
`decode_event` returns (a constant operator), `SkipZeroMac` and `Sight` fold one
observation in (`observe` and the classification that always follows it), `FlowOf`
is `apply_flow`. The hash map's iteration order, which picks the record credited
when several list an address, is a nondeterministic choice. `Counted` has a pair for
every packet on every record, so that the total over all of them is the size of a
set.

**`Decoders`**, **`Rules`** (operators), **`Discovery`** (their composition with
`Attribution`). A DHCP payload is the number of bytes before the cookie and a
sequence of options with their lengths; what the kernel's copy cuts off is
computed from them. An mDNS payload is its names, each a sequence of labels with
the way it ends; `Candidates` reads every suffix, as the byte-by-byte scan does. The
rule table and the OUI table are those of the code, row by row; a text is known by
the needles it contains. `Kept` is what all the decoders' loops do: pass over the
elements of a sequence in order and push some. `DiscoveryAssumption` says that the
registry is fed by these decoders and classifies by these rules, `FrameAssumption`
what payloads are made of. `WellNamed` says
what `mdns.rs` takes of a sender: a label with an underscore belongs to a service type
that names its protocol; the run also has `den._x.local`, which is not so named and
passes for a host. `heard` is history: the events a device has sent. Names are looked
for in the whole packet, as `extract_names` does: the questions are not told from the
answers, so a device that only asks for `printer.local` is called `printer`, and the
service types it asks for become services of its record.

**`Pipeline`** (composes the registry, the store and the loop). The loop is one
task whose handlers do not await, so only the death of the process interrupts
them: the model cuts a handler exactly where it commits something durable. `pc` is
the place in `capture_loop`/`handle_event`; `ReceiveFrame`, `SkipZeroMac`,
`ObserveDevice`, `PersistNew`, `AnnounceNew` are the discovery branch,
`ReceiveFlows`, `ApplyFlow` the flows, `FlushTick`, `FlushRow`, `FlushDone` the flush,
`Stop`, `Exit` the end, `Crash` and `Start` death and restart. `frame` holds what
`decode_event` returned. A write either takes effect or fails and is ignored, as
in the code. `alerts` counts `new_device` rows; alerts of the two flow detectors
are rows of the same table that nothing here depends on.

**`Inventory`** (abstract specification). What a reader of the database may rely on:
a device is listed for ever, keeps its first sighting, gains evidence only, bears the
type its own signals give; it is announced once it is listed, and again only after a
failed write. Three actions (`List`, `Announce`, `Fail`), no loop, no crash, no memory.
`Pipeline` implements it under `stored <- StoredRecords` (the rows as `load_devices`
reads them), `announced <- alerts`, `failures <- fails`.

**`FlowTable`** (kernel and drain). One step per access to shared memory:
`Lookup` (`get_ptr_mut`), `Load` and `Store` (`packets += 1`), `Insert` (`BPF_ANY`);
the drain's `ReadEntry` and `RemoveEntry` for each key, then `Send`. `Slot` is the set
of the map's preallocated elements: a removed or replaced entry's element is free
at once, while a CPU may still hold a pointer to it. A lookup of an entry and an
insert are atomic, as the kernel makes them. Three histories name losses: `rejected`
(the map was full), `windowed` (counted in an entry the drain had read, or that was
gone), `replaced` (in an entry that a second insert, `BPF_ANY`, put another one in the
place of).

**`EventBridge`** (kernel and reader). `Arrive` is the program up to the look-up in
`SEEN`, `Insert` the insertion, which may evict another host, `InsertFails` the one
whose error `let _ =` ignores, so that the host is announced again with its next
frame, `Reserve`/`ReserveFails`/`Submit` the three outcomes of
`emit`, each on any CPU. A record is in the ring from its reservation on and visible
from its submission on; a submission wakes the reader only if everything before the
record is consumed. The reader: `Register` (`AsyncFd::new`), `Poll` (the I/O driver),
`Readable`, `NextItem`/`SendEvent`/`NoItem` (`drain_events`), `ClearReady`, which leaves a
readiness alone that came after the guard was made. `Process` is the loop's part, the
skipping of the all-zero address included.
`history` variables count what was tried, dropped and received, what `SEEN` forgot
(`forgotten`) and did not take in (`unkept`).

**`Lifecycle`** (`run` and everything it spawns). One place variable per task:
`main`, `loop`, `backend`, `tui`, and the signal handler. `chan` is the number of
queued events, `shutdown` the watch channel's value, `dirty` whether the registry
differs from the last flush, `poisoned` the dashboard's mutex. Both backends, with and
without the screen, are initial states of the same model.

**`Screen`** (capture loop and renderer around the dashboard's mutex). One step is
what a thread does under the lock or between two locks: `PushAlert`,
`PublishDevices`, `Draw`, `PressArrow` (reads the list's length), `MoveSelection` (uses
it). `drawn` is the frame on the screen. ratatui's table keeps its selection among its
rows when it is drawn (`Clamped`), and selects nothing in an empty list: that undoes
`select(Some(0))` of `run_blocking` whenever the first frame comes before the first
publication, and the first Down then goes to the second row. A frame has the rows that
fit the panes (`Pane`): the table is scrolled as little as brings its selection into
`TableRows` (`Scrolled`, ratatui's `get_row_bounds`), the feed shows its first
`AlertRows`. The terminal keeps its size, and its panes hold one row at least.

**`PortScan`**, **`VolumeSpike`** (one detector each). The state is the detector's
own; what the properties speak of (who contacted what when, what was sent before)
is history. In `VolumeSpike` the average is an exact fraction, kept as numerator and
denominator; the code uses `f64`.

The `MC*` modules give the constants values (frames, snapshots, a classification,
symmetry sets); `MCDetectors` runs the two detectors side by side. The `*_proofs`
modules extend the component they are about. Operators marked "Mutant" are not part
of any specification: each is a plausible mistake in the definition below it, and
shows that a property depends on the code's being right there.

## What is checked

| Run | Instance | Question |
|---|---|---|
| `Attribution` | 2 devices, 2 addresses, 8 events of all protocols, the real rules, 2-bit counters, 6 steps; 61 554 states | `IpsMostRecentLast`: the list of addresses is exactly the addresses seen, by latest sighting. `TrafficConserved`: each packet is on exactly one record, or lost to saturation. `EvidenceOnlyGrows`. `HostnamesAreHosts`: no service type ends as a hostname, though the scan reads every suffix, and a device bears only names that frames of its own had as a host's. `StrongServiceSticks`: a match surer than every OUI row is never given up for a vendor or for anything less sure. |
| `Pipeline` | 2 devices on one address, clock in {1, 2}, 2-bit counters, 1 crash, 1 failed write, fairness; 233 779 states | `StoreIsInventory`: the refinement. `StoreBehindRegistry`: no flush can replace a row by less. `AnnouncedOnce`: repeats cost failed writes. `FewDevicesSilent`: a crash or failure silences one device at most. `StopIsDurable`: the last flush covers what the loop knew. `TrafficGetsStored`: every record, and every count it had, gets to disk under an endless stream of events. |
| `FlowTable` | 2 CPUs, 2 flows, room for 1, 3 elements, 4 packets, fairness; 136 988 states | `PacketsAccountedFor`: an exact balance with two named losses (`rejected`, `windowed`) while the CPUs have not raced. `CountersBounded`: whatever races, no counter shows packets nobody sent. `UnreadEntriesSurvive`. `PacketsGetReported`. |
| `EventBridge` | 2 CPUs, 2 hosts, 3 frames of four kinds, a ring of 2, a channel of 1, `SEEN` of 1, 2 failed insertions, fairness; 460 602 states | `NoLostWakeup`: a waiting reader with something to read is woken. `EventsAccountedFor`: an exact balance with one named loss, the full ring. `AnnouncedOnce`, `IntroducedFirst`: what `NewHost` promises, and the ways it does not hold. `EventsGetThrough`, `HostsGetKnown`. |
| `Lifecycle` | both backends, both modes, a channel of 2, 4 samples, fairness | `OrderlyEndIsFlushed`, `RunsUntilAsked`, `ShutdownEndsProcess`, `BackendEndEndsProcess`, `FoldedGetsFlushed` |
| `Screen` | 2 devices, seeded or not, a table of 1 row; a feed of 2 of 3 alerts in a pane of 1; fairness; 123 682 states | `FeedIsNewest`. `RowsYieldToRows`: a device leaves the screen only for others that fill the pane, and the device in the detail pane is among its rows. `HighlightMovesByKeysOnly`: between two frames the highlight moves by the key that was pressed, modulo the length of some list between the two. `DevicesGetShown`: but for a device that is again and again not among the `TableRows` seen last, or a table the user has scrolled. `AlertsGetShown`: but for alerts that newer ones push out of the pane before the next frame. |
| `Detectors` | 1 source, 4 ports, window 2, threshold 2, time to 7; 2 sources, 4 flows each, volumes around the floor and the factor; 380 198 states | `AlertsAreTruthful`, `AlertRateBounded`, `BigBurstsAreFlagged`: bursts of 2 * threshold - 1 are never missed. `SpikesAreReal`, `NewLevelIsReportedOnce`, `BigSpikesAreFlagged` |

Five runs state what a comment of the repository says and find it violated:

| Run | The comment | What happens |
|---|---|---|
| `AttributionStale` | registry/mod.rs:136, "Attribute a flow snapshot's traffic to its source device" | a record never forgets an address; when it moves, the former holder may be credited |
| `DhcpCut` | lanscope-common/src/event.rs:12, "Sized to comfortably hold a DHCP options block" | the kernel copies 256 bytes of a frame whose options begin at byte 240: behind message type, hostname and parameter request list, 15 bytes in all, the vendor class is lost |
| `FlowTableLostUpdate` | lanscope-common/src/flow.rs:59-61, no hazards "beyond per-CPU aggregation, which the map type handles" | the map is a plain shared one: two CPUs load the same count and both store it one higher (what a replaced entry loses is not held against the comment) |
| `FlowTableDelta` | capture/ebpf.rs:148-149, "each snapshot is the delta since the previous drain" | a packet counted between the read and the remove is in no snapshot |
| `LifecycleDrain` | app.rs:124, "the loop drains after the UI exits" | the loop stops at the flag and drops what is queued |

Smaller observations that are not runs. `VolumeSpikeDetector`'s comment speaks of
"per-snapshot byte volume" (heuristics.rs:94), the code averages and compares
single flows. `PortScanDetector`'s window tumbles, so a burst of fewer than
2 * threshold - 1 ports may fall across a boundary unseen; `BigBurstsAreFlagged`
states what does hold. rules.rs:3-5 lists the DHCP fingerprint among the signals of
the haystack, `build_haystack` leaves it out; `lookup` (oui.rs:39) announces the same
treatment for multicast addresses as for locally administered ones and does not ask
for their bit. main.rs:31 of the XDP program has `NewHost` fire "once each": it fires
again after an eviction, with every frame while `SEEN` does not take the host in, and
for two CPUs at once; `AnnouncedOnce` says that these are all the ways. decode/mod.rs:20
calls a service "advertised" and registry/mod.rs:29 likewise, and services and hostnames
are taken from questions too (dns.rs:4 even looks for names in "the mDNS question
section"). rules.rs:7-9 has a service match strong and an OUI match weak, "and
confidences encode that": `_smb` (0.60) loses to the vendor "raspberry pi" (0.70),
`_homekit` and `_hap` (0.70) tie with "raspberry pi" and "espressif" (0.70), which
stand further down and win `max_by`; and the OUI texts "LIFX" and "Philips Hue (Signify)"
match rules of the strong section. `StrongServiceSticks` is about the other services
(`Surer`).

### Bounds

* Counters of 2 bits reach the largest `i64`, negative columns and saturation within
  three packets; the proofs cover every width.
* Two devices on one address are enough for every question of ownership: a third
  owner adds a choice, not a kind of choice. A crash and a failed write let a
  restart meet a store left half-written; the safety theorems cover any number.
* A flow table with room for one against two flows fills up; two spare elements are
  enough for an element to be handed out again under a stale pointer of either CPU.
  `MaxPackets` bounds arrivals: all interleavings of one increment, a drain, a
  replacement and a reuse need three or four. `FlowTableLostUpdate` has one flow, so
  that no element can be handed to another, and the three packets its race takes.
* A ring of two records and a channel of one fill, and a `SEEN` of one host forgets
  with the second; two insertions may fail (`MaxErrors`), for one host or for both;
  three frames give up to six events. A record that is reserved
  ahead of one that is submitted, on another CPU, is the case the reader's readiness
  is about.
* A channel of two places with four samples fills, drains, and is dropped with one
  and with two events queued.
* The feed holds two alerts of three; a batch holds up to two, as both flow
  detectors may fire. Two devices in a table of one row put one of them out of sight
  and make the selection scroll; a pane of one alert makes the newest hide the others.
* Time to 7 with a window of 2 holds three windows, one more than any property
  relates. Threshold 2 with 4 ports leaves one port to spare beyond 2 * 2 - 1.
* In `VolumeSpike` 6 is at the floor and five times 1 lies between 1 and 6; 31 is
  beyond both the floor and five times 6.

Deadlock is checked except in `EventBridge`, where the whole path waits when no more
frames arrive, and in `Screen`, where the program may end. Elsewhere, where a behaviour
ends, the model says so: the process has ended (`Ended`), or the instance's bound is
spent (`BudgetSpent`).

### Fairness

* `Pipeline`: handlers run to their end (weak). `FlushTick` is strongly fair: the
  tick stays due while events are handled, and `select!` picks among ready
  branches at random. `Screen`'s `Tick` is strongly fair for the same reason; both its
  threads step if they can, for no handler awaits and `poll` returns after 250 ms.
* `FlowTable`: an XDP program that has begun ends; so does a drain; the backend's
  interval comes round again (weak). Nothing is assumed of arrivals.
* `EventBridge`: the XDP program runs to its end, the reader, the I/O driver and the
  loop are scheduled again and again (weak). Nothing is assumed of arrivals.
* `Lifecycle`: each task steps if it can. The shutdown branches of the loop and the
  eBPF backend and the loop's flush are strongly fair for the reason above. No
  fairness is assumed of the user, the signal, records or errors. In particular
  nothing obliges `drain_events` ever to find the ring empty: the process ends all the
  same, because the loop drops its receiver and the next send is refused.

## What is proved

The theorems hold for every value of the constants that satisfies the named
assumptions: any number of devices, addresses, ports and CPUs, any capacity, any
width of the counters, any decoder, any classification, any frames and snapshots, any
clock readings. The assumptions say that the sets are what the comments call them,
that the finite ones are finite, and that `None` is no member of the others.

* **Registry_proofs.** `RowRoundTrip`: a record goes to its row and back
  unchanged. The lemmas say what `PushIp`, `ApplySignal`, `Observe`, `Credit` and
  `Upsert` preserve, and in which order `PushIp` leaves the addresses; the proofs about
  `Pipeline` and `Attribution` cite only these.
* **Pipeline_proofs.** Every step is a quiet one, one that changes a record, or one
  that writes a row (`StepKinds`). `TypeCorrect` comes first. `StoreNeverAhead` is
  then inductive: a write makes the row equal to the record, `RegistryGrows` says a
  record never says less than before, a restart reads the rows back by
  `RowRoundTrip`. `DurableEvidenceNeverShrinks` follows from it step by step: a row is
  only replaced by a record it is behind. `RowsAreClassified` needs
  `RegistryIsClassified`. `AnnouncedOnce` is not inductive: a device that is about to
  be announced must still have an alert to its account. `AlertBudget` says so for each
  place of the loop, and gives `PersistedBeforeAnnounced` too. `StopIsDurable` needs
  `FlushedRowsAgree`, which holds from the start of a flush on. `FewDevicesSilent` is a
  matter of counting: `SilenceIsPaidFor` counts the devices that are known or stored and
  not on their way to be announced; a step adds one device at most, and only a
  crash or a failed write adds any. `StoreImplementsInventory` is the refinement: each
  step of `Pipeline` is a `List`, an `Announce`, a `Fail` or a stutter of `Inventory`, by the
  invariants above.
* **Attribution_proofs.** `AttributionTypeCorrect`, `TypesFollowEvidence` and
  `EvidenceIsNeverLost` step by step. `LatestAddressIsLast` rests on `SightingInv`: the
  steps at which addresses were sighted are in the past, so the one that moves to the
  end is later than all the others. `TrafficIsConserved` needs `ConservationInv`, which
  adds that what is counted is finite: a step changes one record's block of `Counted`
  (`OneRecordCounts`), a sighting by nothing (`SightCountsNothing`), a flow by as much as
  it has, unless the counter is at its limit, and a counter never leaves its limit.
  `StrongServicesStick`: services only accumulate and the haystack with them, a best rule
  exists among those that match (`BestIsBest`), so what it says is at least as sure as
  anything the services match (`ServicesAreHeeded`), and for a service of `Surer` it is no
  row of the OUI section; the confidences come from the rule table itself. `FramesAreTakenUpWhole` is about the decoders: `Says` is what a
  payload says as a set, without loops or order, and what is taken up of an event is
  exactly that. `PrefixRecursion` shows that the recursive functions behind `Kept` and
  `FlattenSeq` exist; `KeptSet`, `FlattenType` and `FlattenAll` that they make nothing up and
  miss nothing; `FirstOccurrence` that a name dropped as a repetition was taken up before.
  `FittingOptionsArrive` draws the line for the run `DhcpCut`: what it finds violated holds
  of all frames whose options fit into the kernel's copy. `HostnamesWereHeard` needs in addition that no part of
  a service type is in a name that passes for a host (`HostNames`), and `HostInv`, which
  carries that, and the frame the name came with, through the observations still to be
  folded in.
* **FlowTable_proofs.** `TypeCorrect` includes that no element serves two entries and
  that the capacity is kept. `CounterInv` strengthens `CountersBounded` by what a CPU
  holds in a register. `PacketsAccountedForHolds` is about any number of CPUs as long as
  no two have been in `update_flow` at once: `AccountInv` says where the packet under way
  stands and that a stale pointer can then belong to no other flow's entry.
  `UnreadSurvive` is an action property: of all steps only `RemoveEntry` and a replacement
  take an entry away, and the first only what the same drain has read.
* **EventBridge_proofs.** `WakeupsAreNotLost`: `WakeInv` says for each place of the reader
  which of the wake-up, the flag and the flag's freshness covers a record at the head of
  the ring. `EventsAreAccountedFor` and `HostsAreAnnouncedOnce` with `OnceInv`: a CPU that
  has found a host unseen works on it alone, or the host is among those two CPUs met at;
  and a host that was announced as often as it may be without another loss is in `SEEN`.
  `HostsAreIntroducedFirst` is about the order of records: `IntroInv` puts the channel and
  the ring behind it on one `Path` and says of each host, unless two CPUs met at it or its
  `NewHost` found the ring full, that on the path nothing of it precedes its `NewHost`,
  that a CPU turns to the frame's own event only behind it, and that a host in `SEEN`
  is introduced or about to be.
* **Lifecycle_proofs.** `TypeCorrect`, `RunsUntilAskedHolds` (inductive as it is) and
  `OrderlyEndIsFlushedHolds`, by `OrderlyInv`: only a panicked screen takes the loop
  past its last flush, and then `run` returns an error.
* **Detectors_proofs.** `WindowInv` ties the port-scan window to the history: each port
  in it was contacted since its start, and an alert was raised in it if and only if
  it says so. `AlertsAreTruthfulHolds` and `AlertRateIsBounded` follow.
  `BigBurstsAreReported` needs `BurstInv`: what a source contacted since its window began
  is in the window, and what it contacted in the window's length before that is fewer
  ports than the threshold, or an alert was raised then. Two such parts make twice
  the threshold, less two.
  The three theorems about `VolumeSpike` (of its own specification `SpikeSpec`) rest on
  `SpikeInv`: the average lies between two volumes of the source's past flows, and holds at
  least alpha's share of the last one. So an alert's factor is one over a real flow, a flow
  above the factor times all flows is above the factor times their average, and a flow
  no larger than the last is never above it, if the factor times alpha is at least one:
  `VolumeSpikeAssumption`; in the code, 5 * 0.3 (heuristics.rs). The arithmetic of
  fractions is in lemmas about products of naturals.
* **Screen_proofs.** `ListInv`: the list shows devices of the registry, each once, so a
  publication never makes it shorter, and the table is not scrolled beyond its last row.
  `FeedIsNewestHolds` by `PushedFeed`. `FrameInv` says how the selection stands to the frame
  on the screen while a key is being handled and the list grows; with what `PaneRows` and
  `ScrolledToSelection` say of the rows in a pane (`FrameDrawn`), `RowsYieldToRowsHolds` and
  `HighlightMovesByKeysOnlyHolds` follow, for only `Draw` changes the frame.

The type invariants of `EventBridge`, `Lifecycle`, `PortScan` and `Screen`, and `RowsAreClassified`,
`PersistedBeforeAnnounced`, `DurableEvidenceGrows` (which `StoreIsInventory` implies) and
`TypeFollowsEvidence` are not among the runs' properties: the theorems say more.

Every invariant and action property of the passing runs is thus stated by a theorem.
Only model-checked is what the prover cannot do: liveness under fairness
(`TrafficGetsStored`, `PacketsGetReported`, `EventsGetThrough`, `HostsGetKnown`,
`ShutdownEndsProcess`, `BackendEndEndsProcess`, `FoldedGetsFlushed`, `DevicesGetShown`,
`AlertsGetShown`), and that the five comments above do not hold.

## What is not modelled

* Loading and attaching the XDP program: a sequence of calls into the kernel that
  fails as a whole and falls back to the portable backend, which `Lifecycle` has as an
  initial state. `first_seen_ns`, flags and lengths of a flow: they are written beside
  `packets` and only the ONNX features read them.
* Bytes: UTF-8, trimming, case, the formatting of addresses (`netfmt`) and times, the
  layout of the screen. The decoders' models begin where labels, options and lines
  have been recognised; DNS labels that begin inside another label are taken not to be
  readable. A letter there is no length; a space, an apostrophe, a parenthesis (32 to
  41), any other punctuation or a digit (up to 63) would need a printable label that
  long behind it, which texts of that length may have and the model's do not.
* The exporter's traffic counters and its listener, logging, `list`, `device`, `alerts`,
  `export`, the command line and the configuration: they read, print or configure.
* The ONNX detector and `ml/`: floating-point scores of an external runtime.
* Two agents on one database: their rows would overwrite each other's totals; no
  code and no document foresees it. The growth of the detectors' maps, which is
  memory only.
* Death by SIGTERM or power loss: `Pipeline`'s `Crash`; `Lifecycle` models SIGINT, the
  one signal the program handles. SQLite commits each statement atomically.
* The port-scan window under a clock that is set back; the rounding of `f64`.
* The flow drain while the ring never empties: `EventBridge` and `FlowTable` are
  composed only through the task they share, and `drain_events` does keep the tick
  waiting until the ring was empty once.
