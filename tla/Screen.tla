------------------------------- MODULE Screen -------------------------------
(***************************************************************************)
(* The dashboard of "lanscope run" (lanscope/src/tui/mod.rs): the capture  *)
(* loop publishes its devices and alerts into it (publish_devices and      *)
(* emit_alerts in app.rs), the TUI's blocking thread draws it and moves a  *)
(* selection over it.  The two threads share its mutex: one step here is   *)
(* what one of them does under the lock, or between two locks.             *)
(*                                                                         *)
(* A device is its address and an alert its number; the capture loop sets  *)
(* the exporter's metrics on the way (exporter.rs).  A pane of the terminal*)
(* shows as many rows as fit it, and the terminal keeps its size.  The     *)
(* mutex's poisoning and the end of the process are in Lifecycle.          *)
(***************************************************************************)
EXTENDS Integers, Sequences, FiniteSets, SequencesExt

CONSTANTS
    Mac,         \* devices
    Time,        \* wall-clock readings
    None,        \* Option::None
    MAX_ALERTS,  \* length of the live feed (200)
    TableRows,   \* devices that fit the table's pane
    AlertRows,   \* alerts that fit theirs
    MaxCounted   \* bound on the alerts of a run

ASSUME ScreenAssumption ==
    /\ IsFiniteSet(Mac)
    /\ Time \subseteq Int
    /\ None \notin Time \cup Int
    /\ MAX_ALERTS \in Nat \ {0}
    /\ TableRows \in Nat \ {0} /\ AlertRows \in Nat \ {0}
    /\ MaxCounted \in Nat

VARIABLES
    loop,      \* where capture_loop stands
    lastSeen,  \* DeviceRegistry: last_seen of a device, None where there is none
    pending,   \* alerts of the handler's batch still to be emitted
    counted,   \* lanscope_alerts_total; the latest alert's number
    gauge,     \* lanscope_devices_total
    devices,   \* Dashboard::devices
    alerts,    \* Dashboard::alerts
    tui,       \* where run_blocking stands
    selected,  \* TableState::selected
    offset,    \* TableState::offset, the rows above the pane's first
    len, delta,\* the key being handled: the list's length, the direction
    drawn,     \* the frame on the screen
    shutdown   \* value of the watch channel

pipeline  == <<loop, lastSeen, pending, counted, gauge>>
dashboard == <<devices, alerts>>
ui        == <<tui, selected, offset, len, delta, drawn>>
vars      == <<pipeline, dashboard, ui, shutdown>>

Listed == {m \in Mac : lastSeen[m] # None}

TypeOK ==
    /\ loop \in {"select", "emit", "push", "publish", "gauge", "stopped"}
    /\ lastSeen \in [Mac -> Time \cup {None}]
    /\ pending \in 0 .. 2
    /\ counted \in 0 .. MaxCounted
    /\ gauge \in 0 .. Cardinality(Mac)
    /\ devices \in Seq(Mac)
    /\ IsInjective(devices)
    /\ alerts \in Seq(1 .. counted)
    /\ Len(alerts) <= MAX_ALERTS
    /\ tui \in {"draw", "check", "poll", "move", "ended"}
    /\ selected = None \/ selected \in 0 .. Len(devices)
    /\ offset \in Nat
    /\ len \in 0 .. Len(devices)
    /\ delta \in {-1, 0, 1}
    /\ shutdown \in BOOLEAN

\* Dashboard::new, and the first row selected.
Init ==
    /\ loop = "select"
    /\ lastSeen \in [Mac -> {None} \cup Time]
    /\ pending = 0
    /\ counted = 0
    /\ gauge = 0
    /\ devices = << >>
    /\ alerts = << >>
    /\ tui = "draw"
    /\ selected = 0
    /\ offset = 0
    /\ len = 0
    /\ delta = 0
    /\ drawn = None
    /\ shutdown = FALSE

-----------------------------------------------------------------------------
(* The capture loop                                                        *)

\* The handler's detectors return a batch of n alerts.
Emits(n) ==
    /\ counted + n <= MaxCounted
    /\ pending' = n
    /\ loop' = IF n = 0 THEN "select" ELSE "emit"

\* An observation: only a new device raises an alert.
HandleDiscovery(m, t) ==
    /\ loop = "select"
    /\ lastSeen' = [lastSeen EXCEPT ![m] = t]
    /\ Emits(IF lastSeen[m] = None THEN 1 ELSE 0)
    /\ UNCHANGED <<counted, gauge, dashboard, ui, shutdown>>

\* A flow: the device that is credited with it, if any, has been seen now; the
\* port scan and the volume detector may both raise an alert.  Each flow of a
\* snapshot, like each observation of a frame, is an event of its own here.
HandleFlow(n, t) ==
    /\ loop = "select"
    /\ \/ UNCHANGED lastSeen
       \/ \E m \in Listed : lastSeen' = [lastSeen EXCEPT ![m] = t]
    /\ Emits(n)
    /\ UNCHANGED <<counted, gauge, dashboard, ui, shutdown>>

\* emit_alerts, exporter::record_alert.
CountAlert ==
    /\ loop = "emit"
    /\ loop' = "push"
    /\ pending' = pending - 1
    /\ counted' = counted + 1
    /\ UNCHANGED <<lastSeen, gauge, dashboard, ui, shutdown>>

\* Dashboard::push_alert.  Mutant: the oldest are kept.
PushKeepOldest(a) == IF Len(alerts) < MAX_ALERTS THEN <<a>> \o alerts ELSE alerts
Pushed(a) ==
    LET feed == <<a>> \o alerts
    IN  SubSeq(feed, 1, IF Len(feed) > MAX_ALERTS THEN MAX_ALERTS ELSE Len(feed))

PushAlert ==
    /\ loop = "push"
    /\ alerts' = Pushed(counted)
    /\ loop' = IF pending = 0 THEN "select" ELSE "emit"
    /\ UNCHANGED <<lastSeen, pending, counted, gauge, devices, ui, shutdown>>

Tick ==
    /\ loop = "select"
    /\ loop' = "publish"
    /\ UNCHANGED <<lastSeen, pending, counted, gauge, dashboard, ui, shutdown>>

\* Dashboard::set_devices of the hash map's values in any order: those that were
\* seen at the same time stay in that order.  Mutants: only the devices that were
\* seen last are kept; the sort is the other way round.
LatestOnly ==
    SetToSeqs({m \in Listed : \A o \in Listed : lastSeen[o] <= lastSeen[m]})
LeastRecentFirst ==
    {s \in SetToSeqs(Listed) :
        \A i, j \in DOMAIN s : i < j => lastSeen[s[i]] <= lastSeen[s[j]]}
MostRecentFirst ==
    {s \in SetToSeqs(Listed) :
        \A i, j \in DOMAIN s : i < j => lastSeen[s[i]] >= lastSeen[s[j]]}

PublishDevices ==
    /\ loop = "publish"
    /\ devices' \in MostRecentFirst
    /\ loop' = "gauge"
    /\ UNCHANGED <<lastSeen, pending, counted, gauge, alerts, ui, shutdown>>

SetDeviceCount ==
    /\ loop = "gauge"
    /\ gauge' = Cardinality(Listed)
    /\ loop' = "select"
    /\ UNCHANGED <<lastSeen, pending, counted, dashboard, ui, shutdown>>

LoopShutdown ==
    /\ loop = "select"
    /\ shutdown
    /\ loop' = "stopped"
    /\ UNCHANGED <<lastSeen, pending, counted, gauge, dashboard, ui, shutdown>>

-----------------------------------------------------------------------------
(* run_blocking                                                            *)

\* render_stateful_widget: the table keeps its selection among its rows.
Clamped(sel) ==
    IF devices = << >> \/ sel = None THEN None
    ELSE IF sel >= Len(devices) THEN Len(devices) - 1 ELSE sel

\* ... and scrolls as little as brings it into the pane; without a selection it is
\* not scrolled.
Scrolled(sel) ==
    IF sel = None THEN 0
    ELSE IF sel < offset THEN sel
    ELSE IF sel >= offset + TableRows THEN sel - TableRows + 1 ELSE offset

\* The rows of a list that a pane shows from the given one on.
Pane(list, from, rows) ==
    SubSeq(list, from + 1, IF from + rows < Len(list) THEN from + rows ELSE Len(list))

\* render_detail, after the table: the device of the selected row.
Detail(sel) == IF sel = None THEN None ELSE devices[sel + 1]

\* A frame: the rows in the panes, and the number of devices in their title.
Render(sel, from) ==
    [listed |-> Len(devices), rows |-> Pane(devices, from, TableRows),
     highlight |-> sel, detail |-> Detail(sel), feed |-> Pane(alerts, 0, AlertRows)]

Draw ==
    /\ tui = "draw"
    /\ selected' = Clamped(selected)
    /\ offset' = Scrolled(selected')
    /\ drawn' = Render(selected', offset')
    /\ delta' = 0
    /\ tui' = "check"
    /\ UNCHANGED <<pipeline, dashboard, len, shutdown>>

CheckShutdown ==
    /\ tui = "check"
    /\ tui' = IF shutdown THEN "ended" ELSE "poll"
    /\ UNCHANGED <<pipeline, dashboard, selected, offset, len, delta, drawn, shutdown>>

\* poll's 250 ms pass, or the key is another one, or a release.
PollNothing ==
    /\ tui = "poll"
    /\ tui' = "draw"
    /\ UNCHANGED <<pipeline, dashboard, selected, offset, len, delta, drawn, shutdown>>

\* A key is read, then the list's length, under the lock.
PressArrow(d) ==
    /\ tui = "poll"
    /\ len' = Len(devices)
    /\ delta' = d
    /\ tui' = "move"
    /\ UNCHANGED <<pipeline, dashboard, selected, offset, drawn, shutdown>>

\* UiState::move_selection, without the lock.  Mutant: it wraps one too late.
MovedPastEnd(cur, d, n) == (cur + d) % (n + 1)
Moved(cur, d, n) == (cur + d) % n

MoveSelection ==
    /\ tui = "move"
    /\ selected' = IF len = 0 THEN None
                   ELSE Moved(IF selected = None THEN 0 ELSE selected, delta, len)
    /\ offset' = IF len = 0 THEN 0 ELSE offset
    /\ len' = 0
    /\ tui' = "draw"
    /\ UNCHANGED <<pipeline, dashboard, delta, drawn, shutdown>>

PressQuit ==
    /\ tui = "poll"
    /\ tui' = "ended"
    /\ shutdown' = TRUE
    /\ UNCHANGED <<pipeline, dashboard, selected, offset, len, delta, drawn>>

\* SIGINT, handled by the signal handler's task.
Interrupt ==
    /\ ~shutdown
    /\ shutdown' = TRUE
    /\ UNCHANGED <<pipeline, dashboard, ui>>

-----------------------------------------------------------------------------
LoopStep == CountAlert \/ PushAlert \/ PublishDevices \/ SetDeviceCount

TuiStep ==
    \/ Draw \/ CheckShutdown
    \/ PollNothing \/ PressArrow(1) \/ PressArrow(-1) \/ PressQuit
    \/ MoveSelection

Next ==
    \/ \E m \in Mac, t \in Time : HandleDiscovery(m, t)
    \/ \E n \in 0 .. 2, t \in Time : HandleFlow(n, t)
    \/ Tick
    \/ LoopStep
    \/ LoopShutdown
    \/ TuiStep
    \/ Interrupt

Spec == Init /\ [][Next]_vars

\* Neither thread stands still in a handler, poll returns after 250 ms, and
\* select! picks among its ready branches at random: the tick is not put off
\* for ever.
FairSpec == Spec /\ WF_vars(LoopStep) /\ WF_vars(TuiStep) /\ SF_vars(Tick)

-----------------------------------------------------------------------------
(* Safety                                                                  *)

\* MAX_ALERTS is "Maximum alerts retained for the live feed": between any two
\* steps the feed is the newest alerts the metric has counted, newest first;
\* only the one that is being handed over may be missing.
FeedIsNewest ==
    LET n == IF loop = "push" THEN counted - 1 ELSE counted
    IN  alerts = [i \in 1 .. (IF n > MAX_ALERTS THEN MAX_ALERTS ELSE n) |-> n - i + 1]

\* A device that is on the screen leaves it only for others that fill the pane,
\* as long as the list is longer than it, and no device leaves the list; wherever
\* the list is scrolled to, the device in the detail pane is among its rows.
RowsYieldToRows ==
    [][drawn # None =>
          /\ drawn.listed <= drawn'.listed
          /\ \/ ToSet(drawn.rows) \subseteq ToSet(drawn'.rows)
             \/ Len(drawn'.rows) = TableRows /\ drawn'.listed > TableRows
          /\ drawn'.detail # None => drawn'.detail \in ToSet(drawn'.rows)]_drawn

\* The selection is an index into a list that is re-sorted and grows behind the
\* user's back, and the length a key press wraps at is read after the frame the
\* user saw and before the one that follows.  Still the highlight never moves
\* by itself, and a key moves it by one row of some list between the two.
HighlightMovesByKeysOnly ==
    [][drawn # None /\ drawn.highlight # None =>
          drawn'.highlight \in
              IF delta = 0 THEN {drawn.highlight}
              ELSE {(drawn.highlight + delta) % n : n \in drawn.listed .. drawn'.listed}
      ]_drawn

-----------------------------------------------------------------------------
(* Liveness                                                                *)

\* Every device of the registry, the seeded ones included, gets onto the screen:
\* the only one that may not is one that is, again and again, not among the
\* TableRows that were seen last, or below a table the user has scrolled.
SeenSince(m) == {o \in Listed \ {m} : m \in Listed /\ lastSeen[o] >= lastSeen[m]}

DevicesGetShown ==
    \A m \in Mac : lastSeen[m] # None ~>
        \/ tui = "ended"
        \/ drawn # None /\ m \in ToSet(drawn.rows)
        \/ offset > 0 \/ Cardinality(SeenSince(m)) >= TableRows

\* Every alert gets onto the screen, unless newer ones that fill its pane or the
\* feed come before the next frame.
AlertsGetShown ==
    \A a \in 1 .. MaxCounted : counted >= a ~>
        \/ tui = "ended"
        \/ drawn # None /\ a \in ToSet(drawn.feed)
        \/ counted >= a + Min({AlertRows, MAX_ALERTS})
=============================================================================
