--------------------------- MODULE Screen_proofs ---------------------------
(***************************************************************************)
(* Safety of Screen, for any number of devices, any length of the feed and *)
(* any number of alerts.  ListInv is about the two lists of the dashboard, *)
(* FrameInv relates the frame on the screen to the rows that have come     *)
(* since, and to the key that is being handled.                            *)
(***************************************************************************)
EXTENDS Screen, FiniteSetTheorems, SequenceTheorems, TLAPS

-----------------------------------------------------------------------------
(* Lists without repetitions                                               *)

\* What set_devices may be given: each device of the set once.
LEMMA ListOfSet ==
    ASSUME NEW S, IsFiniteSet(S), NEW s \in SetToSeqs(S)
    PROVE  /\ s \in Seq(S)
           /\ Len(s) = Cardinality(S)
           /\ IsInjective(s)
           /\ ToSet(s) = S
<1>. DEFINE n == Cardinality(S)
<1>1. n \in Nat
  BY FS_CardinalityType
<1>. HIDE DEF n
<1>2. s \in [1 .. n -> S] /\ \A i, j \in 1 .. n : i # j => s[i] # s[j]
  BY DEF SetToSeqs, n
<1>3. s \in Seq(S) /\ Len(s) = n /\ DOMAIN s = 1 .. n
  BY <1>1, <1>2
<1>4. IsInjective(s)
  BY <1>2, <1>3 DEF IsInjective
<1>5. IsFiniteSet(1 .. n) /\ Cardinality(1 .. n) = n
  BY <1>1, FS_Interval
<1>6. s \in Injection(1 .. n, S)
  BY <1>2, <1>4 DEF Injection
<1>7. s \in Surjection(1 .. n, S)
  BY <1>5, <1>6, FS_Injection DEF n
<1>8. ToSet(s) = S
  BY <1>2, <1>3, <1>7 DEF ToSet, Surjection
<1>. QED  BY <1>3, <1>4, <1>8 DEF n

LEMMA SubsetOfMac ==
    ASSUME NEW S \in SUBSET Mac, NEW T \in SUBSET S
    PROVE  /\ IsFiniteSet(S) /\ IsFiniteSet(T)
           /\ Cardinality(S) \in Nat /\ Cardinality(T) \in Nat
           /\ Cardinality(T) <= Cardinality(S)
<1>1. IsFiniteSet(S)
  BY FS_Subset, ScreenAssumption
<1>. QED  BY <1>1, FS_Subset, FS_CardinalityType

-----------------------------------------------------------------------------
(* The lists                                                               *)

\* The dashboard lists devices of the registry, each once; the table has no gap
\* below its last row; a batch of alerts fits what is left of the run.
ListInv ==
    /\ TypeOK
    /\ offset = 0 \/ offset + TableRows <= Len(devices)
    /\ ToSet(devices) \subseteq Listed
    /\ Len(devices) = Cardinality(ToSet(devices))
    /\ counted + pending <= MaxCounted
    /\ loop = "emit" => pending > 0
    /\ loop = "push" => counted > 0

LEMMA ListInit == Init => ListInv
<1>. SUFFICES ASSUME Init PROVE ListInv
  OBVIOUS
<1>1. Cardinality({}) = 0 /\ Cardinality(Mac) \in Nat
  BY FS_EmptySet, FS_CardinalityType, ScreenAssumption
<1>2. ToSet(devices) = {} /\ IsInjective(devices)
  BY DEF Init, ToSet, IsInjective
<1>3. devices \in Seq(Mac) /\ Len(devices) = 0 /\ alerts \in Seq(1 .. counted) /\ Len(alerts) = 0
  BY DEF Init
<1>4. lastSeen \in [Mac -> Time \cup {None}]
  BY DEF Init
<1>5. TypeOK
  BY <1>1, <1>2, <1>3, <1>4, ScreenAssumption DEF Init, TypeOK
<1>6. counted + pending <= MaxCounted /\ loop = "select" /\ offset = 0
  BY ScreenAssumption DEF Init
<1>. QED  BY <1>1, <1>2, <1>3, <1>5, <1>6 DEF ListInv

\* publish_devices: the list only ever gains devices.
LEMMA PublishGrows ==
    ASSUME ListInv, PublishDevices
    PROVE  /\ devices' \in Seq(Mac)
           /\ IsInjective(devices')
           /\ ToSet(devices') = Listed
           /\ Len(devices') = Cardinality(ToSet(devices'))
           /\ ToSet(devices) \subseteq ToSet(devices')
           /\ Len(devices) \in Nat /\ Len(devices') \in Nat
           /\ Len(devices) <= Len(devices')
<1>1. Listed \subseteq Mac
  BY DEF Listed
<1>2. devices' \in SetToSeqs(Listed)
  BY DEF PublishDevices, MostRecentFirst
<1>3. IsFiniteSet(Listed)
  BY <1>1, SubsetOfMac
<1>4. /\ devices' \in Seq(Listed) /\ Len(devices') = Cardinality(Listed)
      /\ IsInjective(devices') /\ ToSet(devices') = Listed
  BY <1>2, <1>3, ListOfSet
<1>5. devices' \in Seq(Mac)
  BY <1>1, <1>4
<1>6. ToSet(devices) \subseteq Listed /\ Len(devices) = Cardinality(ToSet(devices))
  BY DEF ListInv
<1>7. /\ Cardinality(ToSet(devices)) <= Cardinality(Listed)
      /\ Cardinality(ToSet(devices)) \in Nat /\ Cardinality(Listed) \in Nat
  BY <1>1, <1>6, SubsetOfMac
<1>. QED  BY <1>4, <1>5, <1>6, <1>7

\* A step by which the registry hears of a device.
LEMMA ListedGrows ==
    ASSUME ListInv, NEW m \in Mac, NEW t \in Time,
           lastSeen' = [lastSeen EXCEPT ![m] = t]
    PROVE  /\ lastSeen' \in [Mac -> Time \cup {None}]
           /\ Listed \subseteq Listed'
BY ScreenAssumption DEF ListInv, TypeOK, Listed

\* The table keeps its selection among its rows.
LEMMA ClampedInRows ==
    ASSUME TypeOK
    PROVE  /\ Clamped(selected) # None =>
                 /\ Clamped(selected) \in 0 .. Len(devices) - 1
                 /\ selected # None
           /\ selected \in 0 .. Len(devices) - 1 => Clamped(selected) = selected
<1>1. Len(devices) \in Nat /\ (devices = << >> <=> Len(devices) = 0)
  BY DEF TypeOK
<1>2. CASE devices = << >> \/ selected = None
  <2>1. Clamped(selected) = None
    BY <1>2 DEF Clamped
  <2>2. selected \notin 0 .. Len(devices) - 1
    BY <1>1, <1>2, ScreenAssumption
  <2>. QED  BY <2>1, <2>2
<1>3. CASE devices # << >> /\ selected # None
  <2>1. selected \in Nat /\ Len(devices) > 0
    BY <1>1, <1>3 DEF TypeOK
  <2>2. Clamped(selected) = IF selected >= Len(devices) THEN Len(devices) - 1 ELSE selected
    BY <1>3 DEF Clamped
  <2>. QED  BY <1>1, <1>3, <2>1, <2>2
<1>. QED  BY <1>2, <1>3

\* What a pane shows: with no gap below its last row, as many rows of the list as
\* fit it, all of them if they do.
LEMMA PaneRows ==
    ASSUME NEW S, NEW list \in Seq(S), NEW from \in Nat, NEW rows \in Nat \ {0},
           from = 0 \/ from + rows <= Len(list)
    PROVE  /\ Len(list) <= rows => Pane(list, from, rows) = list
           /\ Len(list) > rows => Len(Pane(list, from, rows)) = rows
           /\ ToSet(Pane(list, from, rows)) \subseteq ToSet(list)
           /\ \A i \in 1 .. Len(list) : i > from /\ i <= from + rows
                 => list[i] \in ToSet(Pane(list, from, rows))
<1>. DEFINE last == IF from + rows < Len(list) THEN from + rows ELSE Len(list)
            pane == SubSeq(list, from + 1, last)
<1>1. Len(list) \in Nat /\ DOMAIN list = 1 .. Len(list)
  OBVIOUS
<1>2. last \in Nat /\ last <= Len(list) /\ last <= from + rows /\ from <= last
  BY <1>1
<1>3. Len(list) > rows => last = from + rows
  BY <1>1
<1>4. Len(list) <= rows => from = 0 /\ last = Len(list)
  <2>1. ASSUME Len(list) <= rows PROVE from = 0
    BY <1>1, <2>1
  <2>2. ASSUME Len(list) <= rows PROVE last = Len(list)
    <3>1. ~(from + rows < Len(list))
      BY <1>1, <2>1, <2>2
    <3>. QED  BY <3>1
  <2>. QED  BY <2>1, <2>2
<1>5. \A i \in 1 .. Len(list) : i <= from + rows => i <= last
  BY <1>1
<1>6. Pane(list, from, rows) = pane
  BY DEF Pane
<1>. HIDE DEF last
<1>7. pane = [i \in 1 .. last - from |-> list[from + i]]
  BY <1>1, <1>2
<1>8. Len(pane) = last - from /\ DOMAIN pane = 1 .. last - from
  BY <1>1, <1>2, <1>7
<1>. HIDE DEF pane
<1>9. Len(list) <= rows => pane = list
  BY <1>1, <1>4, <1>7
<1>10. ToSet(pane) \subseteq ToSet(list)
  <2>1. ASSUME NEW i \in 1 .. last - from
        PROVE  from + i \in DOMAIN list /\ pane[i] = list[from + i]
    BY <1>1, <1>2, <1>7
  <2>. QED  BY <1>8, <2>1 DEF ToSet
<1>11. ASSUME NEW i \in 1 .. Len(list), i > from, i <= from + rows
       PROVE  list[i] \in ToSet(pane)
  <2>1. i - from \in DOMAIN pane /\ pane[i - from] = list[i]
    BY <1>1, <1>2, <1>5, <1>7, <1>8, <1>11
  <2>. QED  BY <2>1 DEF ToSet
<1>. QED  BY <1>3, <1>6, <1>8, <1>9, <1>10, <1>11

\* The table scrolls to no gap below its last row, and to where its selection is.
LEMMA ScrolledToSelection ==
    ASSUME TypeOK, offset = 0 \/ offset + TableRows <= Len(devices),
           NEW sel, sel = None \/ sel \in 0 .. Len(devices) - 1
    PROVE  /\ Scrolled(sel) \in Nat
           /\ Scrolled(sel) = 0 \/ Scrolled(sel) + TableRows <= Len(devices)
           /\ sel # None => Scrolled(sel) <= sel /\ sel < Scrolled(sel) + TableRows
<1>1. offset \in Nat /\ Len(devices) \in Nat /\ TableRows \in Nat \ {0}
  BY ScreenAssumption DEF TypeOK
<1>2. CASE sel = None
  BY <1>2 DEF Scrolled
<1>3. CASE sel # None
  <2>1. sel \in 0 .. Len(devices) - 1
    BY <1>3
  <2>2. Scrolled(sel) = IF sel < offset THEN sel
                        ELSE IF sel >= offset + TableRows THEN sel - TableRows + 1 ELSE offset
    BY <1>3 DEF Scrolled
  <2>. QED  BY <1>1, <1>3, <2>1, <2>2
<1>. QED  BY <1>2, <1>3

LEMMA ListStep == ListInv /\ [Next]_vars => ListInv'
<1>. SUFFICES ASSUME ListInv, [Next]_vars PROVE ListInv'
  OBVIOUS
<1>. USE ScreenAssumption
<1>1. ASSUME NEW m \in Mac, NEW t \in Time, HandleDiscovery(m, t) PROVE ListInv'
  <2>1. lastSeen' \in [Mac -> Time \cup {None}] /\ Listed \subseteq Listed'
    BY <1>1, ListedGrows DEF HandleDiscovery
  <2>. QED  BY <1>1, <2>1 DEF HandleDiscovery, Emits, dashboard, ui, ListInv, TypeOK
<1>2. ASSUME NEW n \in 0 .. 2, NEW t \in Time, HandleFlow(n, t) PROVE ListInv'
  <2>1. lastSeen' \in [Mac -> Time \cup {None}] /\ Listed \subseteq Listed'
    BY <1>2, ListedGrows DEF HandleFlow, Listed, ListInv, TypeOK
  <2>. QED  BY <1>2, <2>1 DEF HandleFlow, Emits, dashboard, ui, ListInv, TypeOK
<1>3. CASE Tick
  BY <1>3 DEF Tick, dashboard, ui, ListInv, TypeOK, Listed
<1>4. CASE CountAlert
  BY <1>4 DEF CountAlert, dashboard, ui, ListInv, TypeOK, Listed
<1>5. CASE PushAlert
  <2>1. alerts' \in Seq(1 .. counted) /\ Len(alerts') <= MAX_ALERTS
    BY <1>5, SMTT(60) DEF PushAlert, Pushed, ListInv, TypeOK
  <2>2. TypeOK'
    BY <1>5, <2>1 DEF PushAlert, ui, ListInv, TypeOK
  <2>. QED  BY <1>5, <2>2 DEF PushAlert, ui, ListInv, TypeOK, Listed
<1>6. CASE PublishDevices
  <2>1. Listed' = Listed
    BY <1>6 DEF PublishDevices, Listed
  <2>2. offset' = 0 \/ offset' + TableRows <= Len(devices')
    <3>1. Len(devices) \in Nat /\ Len(devices') \in Nat /\ Len(devices) <= Len(devices')
      BY <1>6, PublishGrows
    <3>. QED  BY <1>6, <3>1 DEF PublishDevices, ui, ListInv, TypeOK
  <2>. QED  BY <1>6, <2>1, <2>2, PublishGrows DEF PublishDevices, ui, ListInv, TypeOK
<1>7. CASE SetDeviceCount
  <2>1. Cardinality(Listed) \in 0 .. Cardinality(Mac)
    BY SubsetOfMac DEF Listed
  <2>. QED  BY <1>7, <2>1 DEF SetDeviceCount, dashboard, ui, ListInv, TypeOK, Listed
<1>8. CASE LoopShutdown
  BY <1>8 DEF LoopShutdown, dashboard, ui, ListInv, TypeOK, Listed
<1>9. CASE Draw
  <2>1. selected' = None \/ selected' \in 0 .. Len(devices)
    <3>1. selected' = Clamped(selected) /\ Len(devices) \in Nat
      BY <1>9 DEF Draw, ListInv, TypeOK
    <3>. QED  BY <3>1, ClampedInRows DEF ListInv
  <2>2. offset' \in Nat /\ (offset' = 0 \/ offset' + TableRows <= Len(devices))
    <3>1. selected' = None \/ selected' \in 0 .. Len(devices) - 1
      BY <1>9, ClampedInRows DEF Draw, ListInv
    <3>2. offset' = Scrolled(selected')
      BY <1>9 DEF Draw
    <3>. QED  BY <3>1, <3>2, ScrolledToSelection DEF ListInv
  <2>3. TypeOK'
    BY <1>9, <2>1, <2>2 DEF Draw, pipeline, dashboard, ListInv, TypeOK
  <2>. QED  BY <1>9, <2>2, <2>3 DEF Draw, pipeline, dashboard, ListInv, Listed
<1>10. CASE CheckShutdown \/ PollNothing \/ PressQuit
  BY <1>10 DEF CheckShutdown, PollNothing, PressQuit, pipeline, dashboard, ListInv, TypeOK, Listed
<1>11. ASSUME NEW d \in {-1, 1}, PressArrow(d) PROVE ListInv'
  BY <1>11 DEF PressArrow, pipeline, dashboard, ListInv, TypeOK, Listed
<1>12. CASE MoveSelection
  <2>1. selected' = None \/ selected' \in 0 .. Len(devices)
    BY <1>12 DEF MoveSelection, Moved, ListInv, TypeOK
  <2>2. offset' = 0 \/ offset' = offset
    BY <1>12 DEF MoveSelection
  <2>. QED  BY <1>12, <2>1, <2>2 DEF MoveSelection, pipeline, dashboard, ListInv, TypeOK, Listed
<1>13. CASE Interrupt
  BY <1>13 DEF Interrupt, pipeline, dashboard, ui, ListInv, TypeOK, Listed
<1>14. CASE UNCHANGED vars
  BY <1>14 DEF vars, pipeline, dashboard, ui, ListInv, TypeOK, Listed
<1>. QED
  BY <1>1, <1>2, <1>3, <1>4, <1>5, <1>6, <1>7, <1>8, <1>9, <1>10, <1>11, <1>12, <1>13, <1>14
     DEF Next, LoopStep, TuiStep

LEMMA ListInvariant == Spec => []ListInv
BY ListInit, ListStep, PTL DEF Spec

\* Type correctness of the two threads, the selection's range included.
THEOREM ScreenTypeCorrect == Spec => []TypeOK
<1>1. ListInv => TypeOK
  BY DEF ListInv
<1>. QED  BY <1>1, ListInvariant, PTL

-----------------------------------------------------------------------------
(* The feed                                                                *)

\* The newest of n alerts, newest first.
Feed(n) == [i \in 1 .. (IF n > MAX_ALERTS THEN MAX_ALERTS ELSE n) |-> n - i + 1]

\* push_alert turns the feed of n - 1 alerts into that of n.
LEMMA PushedFeed ==
    ASSUME NEW n \in Nat, n > 0, alerts = Feed(n - 1)
    PROVE  Pushed(n) = Feed(n)
<1>. USE ScreenAssumption
<1>. DEFINE feed == <<n>> \o alerts
            k    == IF n - 1 > MAX_ALERTS THEN MAX_ALERTS ELSE n - 1
            top  == IF Len(feed) > MAX_ALERTS THEN MAX_ALERTS ELSE Len(feed)
<1>1. alerts \in Seq(Nat) /\ Len(alerts) = k /\ k \in Nat
  BY DEF Feed
<1>2. \A i \in 1 .. k : alerts[i] = n - i
  BY DEF Feed
<1>. HIDE DEF k
<1>3. feed \in Seq(Nat) /\ Len(feed) = k + 1 /\ feed[1] = n
  BY <1>1
<1>4. \A i \in 2 .. k + 1 : feed[i] = n - i + 1
  BY <1>1, <1>2
<1>5. top \in 1 .. k + 1 /\ top = IF n > MAX_ALERTS THEN MAX_ALERTS ELSE n
  BY <1>1, <1>3 DEF k
<1>. HIDE DEF feed, top
<1>6. SubSeq(feed, 1, top) = [i \in 1 .. top |-> feed[i]]
  BY <1>3, <1>5
<1>7. \A i \in 1 .. top : feed[i] = n - i + 1
  BY <1>1, <1>3, <1>4, <1>5, SMTT(60)
<1>8. SubSeq(feed, 1, top) = Feed(n)
  BY <1>5, <1>6, <1>7 DEF Feed
<1>. QED  BY <1>8 DEF Pushed, feed, top

\* The live feed is the newest MAX_ALERTS alerts, newest first, whatever the
\* loop and the screen do in between.
THEOREM FeedIsNewestHolds == Spec => []FeedIsNewest
<1>1. Init => FeedIsNewest
  BY ScreenAssumption DEF Init, FeedIsNewest
<1>2. ListInv /\ FeedIsNewest /\ [Next]_vars => FeedIsNewest'
  <2>. SUFFICES ASSUME ListInv, FeedIsNewest, [Next]_vars PROVE FeedIsNewest'
    OBVIOUS
  <2>1. alerts = Feed(IF loop = "push" THEN counted - 1 ELSE counted)
    BY DEF FeedIsNewest, Feed
  <2>2. counted \in Nat /\ (loop = "push" => counted > 0)
    BY ScreenAssumption DEF ListInv, TypeOK
  <2>3. CASE PushAlert
    <3>1. alerts' = Feed(counted)
      BY <2>1, <2>2, <2>3, PushedFeed DEF PushAlert
    <3>. QED  BY <2>3, <3>1 DEF PushAlert, FeedIsNewest, Feed
  <2>4. CASE CountAlert
    <3>1. counted' - 1 = counted /\ loop' = "push" /\ alerts' = Feed(counted)
      BY <2>1, <2>2, <2>4 DEF CountAlert, dashboard
    <3>. QED  BY <3>1 DEF FeedIsNewest, Feed
  <2>5. CASE UNCHANGED <<alerts, counted>> /\ (loop' = "push" <=> loop = "push")
    BY <2>5 DEF FeedIsNewest
  <2>6. ASSUME NEW m \in Mac, NEW t \in Time, HandleDiscovery(m, t)
        PROVE  UNCHANGED <<alerts, counted>> /\ loop' # "push" /\ loop # "push"
    BY <2>6 DEF HandleDiscovery, Emits, dashboard
  <2>7. ASSUME NEW n \in 0 .. 2, NEW t \in Time, HandleFlow(n, t)
        PROVE  UNCHANGED <<alerts, counted>> /\ loop' # "push" /\ loop # "push"
    BY <2>7 DEF HandleFlow, Emits, dashboard
  <2>8. CASE Tick \/ PublishDevices \/ SetDeviceCount \/ LoopShutdown
    BY <2>5, <2>8 DEF Tick, PublishDevices, SetDeviceCount, LoopShutdown, dashboard
  <2>9. CASE TuiStep \/ Interrupt \/ UNCHANGED vars
    BY <2>5, <2>9 DEF TuiStep, Draw, CheckShutdown, PollNothing, PressArrow, PressQuit,
       MoveSelection, Interrupt, vars, pipeline, dashboard
  <2>. QED
    BY <2>3, <2>4, <2>5, <2>6, <2>7, <2>8, <2>9 DEF Next, LoopStep
<1>. QED  BY <1>1, <1>2, ListInvariant, PTL DEF Spec

-----------------------------------------------------------------------------
(* The frame on the screen                                                 *)

\* The devices on the screen are still in the list, which has not become shorter.
\* Until a key has been handled the selection is where the highlight is; while
\* it is handled, the length it wraps at is that of a list between the two
\* frames; then it is one row of that list away.
FrameInv ==
    /\ tui \in {"check", "poll"} => delta = 0
    /\ tui = "move" => delta # 0
    /\ drawn # None =>
          /\ drawn.listed \in Nat /\ drawn.listed <= Len(devices)
          /\ ToSet(drawn.rows) \subseteq ToSet(devices)
    /\ drawn # None /\ drawn.highlight # None =>
          /\ drawn.highlight \in 0 .. drawn.listed - 1
          /\ tui \in {"check", "poll", "move"} \/ (tui = "draw" /\ delta = 0)
                => selected = drawn.highlight
          /\ tui = "move" => drawn.listed <= len
          /\ tui = "draw" /\ delta # 0 =>
                \E n \in drawn.listed .. Len(devices) :
                    selected = (drawn.highlight + delta) % n

\* What Draw puts on the screen.
LEMMA FrameDrawn ==
    ASSUME ListInv, Draw
    PROVE  /\ drawn'.listed = Len(devices) /\ drawn'.highlight = Clamped(selected)
           /\ drawn'.highlight = selected'
           /\ ToSet(drawn'.rows) \subseteq ToSet(devices)
           /\ Len(devices) <= TableRows => drawn'.rows = devices
           /\ Len(devices) > TableRows => Len(drawn'.rows) = TableRows
           /\ drawn'.detail # None => drawn'.detail \in ToSet(drawn'.rows)
<1>. DEFINE sel  == Clamped(selected)
            from == Scrolled(sel)
<1>1. drawn' = Render(sel, from) /\ selected' = sel
  BY DEF Draw
<1>2. /\ drawn'.listed = Len(devices) /\ drawn'.rows = Pane(devices, from, TableRows)
      /\ drawn'.highlight = sel /\ drawn'.detail = Detail(sel)
  BY <1>1 DEF Render
<1>3. sel = None \/ sel \in 0 .. Len(devices) - 1
  BY ClampedInRows DEF ListInv
<1>4. /\ from \in Nat /\ (from = 0 \/ from + TableRows <= Len(devices))
      /\ sel # None => from <= sel /\ sel < from + TableRows
  BY <1>3, ScrolledToSelection DEF ListInv
<1>. HIDE DEF sel, from
<1>5. devices \in Seq(Mac) /\ Len(devices) \in Nat /\ TableRows \in Nat \ {0}
  BY ScreenAssumption DEF ListInv, TypeOK
<1>6. /\ Len(devices) <= TableRows => drawn'.rows = devices
      /\ Len(devices) > TableRows => Len(drawn'.rows) = TableRows
      /\ ToSet(drawn'.rows) \subseteq ToSet(devices)
      /\ \A i \in 1 .. Len(devices) : i > from /\ i <= from + TableRows
            => devices[i] \in ToSet(drawn'.rows)
  BY <1>2, <1>4, <1>5, PaneRows
<1>7. drawn'.detail # None => drawn'.detail \in ToSet(drawn'.rows)
  <2>. SUFFICES ASSUME sel # None PROVE devices[sel + 1] \in ToSet(drawn'.rows)
    BY <1>2 DEF Detail
  <2>1. sel + 1 \in 1 .. Len(devices) /\ sel + 1 > from /\ sel + 1 <= from + TableRows
    BY <1>3, <1>4, <1>5
  <2>. QED  BY <1>6, <2>1
<1>. QED  BY <1>1, <1>2, <1>6, <1>7 DEF sel

LEMMA FrameStep == ListInv /\ FrameInv /\ [Next]_vars => FrameInv'
<1>. SUFFICES ASSUME ListInv, FrameInv, [Next]_vars PROVE FrameInv'
  OBVIOUS
<1>. USE ScreenAssumption
<1>0. /\ TypeOK /\ Len(devices) \in Nat
      /\ drawn # None => drawn.listed \in Nat
  BY DEF ListInv, TypeOK, FrameInv
<1>1. CASE UNCHANGED <<devices, ui>>
  BY <1>1 DEF FrameInv, ui
<1>2. ASSUME NEW m \in Mac, NEW t \in Time, HandleDiscovery(m, t)
      PROVE  UNCHANGED <<devices, ui>>
  BY <1>2 DEF HandleDiscovery, dashboard
<1>3. ASSUME NEW n \in 0 .. 2, NEW t \in Time, HandleFlow(n, t)
      PROVE  UNCHANGED <<devices, ui>>
  BY <1>3 DEF HandleFlow, dashboard
<1>4. CASE Tick \/ CountAlert \/ PushAlert \/ SetDeviceCount \/ LoopShutdown \/ Interrupt
           \/ UNCHANGED vars
  BY <1>1, <1>4 DEF Tick, CountAlert, PushAlert, SetDeviceCount, LoopShutdown, Interrupt,
     vars, dashboard
<1>5. CASE PublishDevices
  <2>1. UNCHANGED ui /\ ToSet(devices) \subseteq ToSet(devices')
        /\ Len(devices') \in Nat /\ Len(devices) <= Len(devices')
    BY <1>5, PublishGrows DEF PublishDevices
  <2>2. \A k \in Nat : k .. Len(devices) \subseteq k .. Len(devices')
    BY <1>0, <2>1
  <2>. QED  BY <1>0, <2>1, <2>2 DEF FrameInv, ui
<1>6. CASE Draw
  <2>1. /\ selected' = Clamped(selected) /\ delta' = 0 /\ tui' = "check"
        /\ devices' = devices
    BY <1>6 DEF Draw, dashboard
  <2>2. /\ drawn'.listed = Len(devices) /\ drawn'.highlight = selected'
        /\ ToSet(drawn'.rows) \subseteq ToSet(devices)
    BY <1>6, FrameDrawn
  <2>. QED  BY <1>0, <2>1, <2>2, ClampedInRows DEF FrameInv, TypeOK
<1>7. CASE CheckShutdown \/ PollNothing \/ PressQuit
  BY <1>7 DEF CheckShutdown, PollNothing, PressQuit, dashboard, FrameInv
<1>8. ASSUME NEW d \in {-1, 1}, PressArrow(d) PROVE FrameInv'
  BY <1>0, <1>8 DEF PressArrow, dashboard, FrameInv
<1>9. CASE MoveSelection
  <2>1. /\ tui = "move" /\ tui' = "draw" /\ UNCHANGED <<devices, delta, drawn>>
        /\ len \in 0 .. Len(devices)
    BY <1>0, <1>9 DEF MoveSelection, dashboard, TypeOK
  <2>2. ASSUME drawn # None, drawn.highlight # None
        PROVE  /\ len \in drawn.listed .. Len(devices)
               /\ selected' = (drawn.highlight + delta) % len
    <3>1. /\ selected = drawn.highlight /\ drawn.listed <= len
          /\ drawn.highlight \in 0 .. drawn.listed - 1
      BY <2>1, <2>2 DEF FrameInv
    <3>2. len # 0 /\ selected # None
      BY <1>0, <2>1, <2>2, <3>1
    <3>3. selected' = Moved(selected, delta, len)
      BY <1>9, <3>2 DEF MoveSelection
    <3>. QED  BY <1>0, <2>1, <2>2, <3>1, <3>3 DEF Moved
  <2>. QED  BY <2>1, <2>2 DEF FrameInv
<1>. QED
  BY <1>2, <1>3, <1>1, <1>4, <1>5, <1>6, <1>7, <1>8, <1>9 DEF Next, LoopStep, TuiStep

LEMMA FrameInvariant == Spec => [](ListInv /\ FrameInv)
<1>1. Init => FrameInv
  BY DEF Init, FrameInv
<1>. QED  BY <1>1, FrameStep, ListInvariant, PTL DEF Spec

\* Only Draw changes the frame.
LEMMA OnlyDrawDraws ==
    ASSUME [Next]_vars, drawn' # drawn
    PROVE  Draw
BY DEF Next, LoopStep, TuiStep, HandleDiscovery, HandleFlow, Tick, CountAlert, PushAlert,
   PublishDevices, SetDeviceCount, LoopShutdown, CheckShutdown, PollNothing, PressArrow,
   PressQuit, MoveSelection, Interrupt, vars, ui

\* A device leaves the screen only for others that fill the pane, and the device
\* in the detail pane is always on it, for any size of the panes.
THEOREM RowsYieldToRowsHolds == Spec => RowsYieldToRows
<1>1. ASSUME ListInv, FrameInv, [Next]_vars, drawn' # drawn, drawn # None
      PROVE  /\ drawn.listed <= drawn'.listed
             /\ \/ ToSet(drawn.rows) \subseteq ToSet(drawn'.rows)
                \/ Len(drawn'.rows) = TableRows /\ drawn'.listed > TableRows
             /\ drawn'.detail # None => drawn'.detail \in ToSet(drawn'.rows)
  <2>1. Draw
    BY <1>1, OnlyDrawDraws
  <2>2. Len(devices) <= TableRows \/ Len(devices) > TableRows
    BY <1>1, ScreenAssumption DEF ListInv, TypeOK
  <2>. QED  BY <1>1, <2>1, <2>2, FrameDrawn DEF FrameInv
<1>2. ListInv /\ FrameInv /\ [Next]_vars =>
          [drawn # None =>
              /\ drawn.listed <= drawn'.listed
              /\ \/ ToSet(drawn.rows) \subseteq ToSet(drawn'.rows)
                 \/ Len(drawn'.rows) = TableRows /\ drawn'.listed > TableRows
              /\ drawn'.detail # None => drawn'.detail \in ToSet(drawn'.rows)]_drawn
  BY <1>1
<1>. QED  BY <1>2, FrameInvariant, PTL DEF Spec, RowsYieldToRows

\* The highlight moves by keys only, one row at a time.
THEOREM HighlightMovesByKeysOnlyHolds == Spec => HighlightMovesByKeysOnly
<1>1. ListInv /\ FrameInv /\ [Next]_vars =>
          [drawn # None /\ drawn.highlight # None =>
              drawn'.highlight \in
                  IF delta = 0 THEN {drawn.highlight}
                  ELSE {(drawn.highlight + delta) % n : n \in drawn.listed .. drawn'.listed}
          ]_drawn
  <2>. SUFFICES ASSUME ListInv, FrameInv, [Next]_vars, drawn' # drawn,
                       drawn # None, drawn.highlight # None
                PROVE  drawn'.highlight \in
                         IF delta = 0 THEN {drawn.highlight}
                         ELSE {(drawn.highlight + delta) % n :
                                  n \in drawn.listed .. drawn'.listed}
    OBVIOUS
  <2>1. Draw
    BY OnlyDrawDraws
  <2>2. drawn'.listed = Len(devices) /\ drawn'.highlight = Clamped(selected) /\ tui = "draw"
    BY <2>1, FrameDrawn DEF Draw
  <2>3. /\ drawn.highlight \in 0 .. drawn.listed - 1
        /\ drawn.listed \in Nat /\ Len(devices) \in Nat /\ drawn.listed <= Len(devices)
        /\ delta \in {-1, 0, 1}
    BY DEF FrameInv, ListInv, TypeOK
  <2>4. CASE delta = 0
    <3>1. selected = drawn.highlight
      BY <2>2, <2>4 DEF FrameInv
    <3>2. selected \in 0 .. Len(devices) - 1
      BY <2>3, <3>1
    <3>. QED  BY <2>2, <2>4, <3>1, <3>2, ClampedInRows DEF ListInv
  <2>5. CASE delta # 0
    <3>1. PICK n \in drawn.listed .. Len(devices) : selected = (drawn.highlight + delta) % n
      BY <2>2, <2>5 DEF FrameInv
    <3>2. n \in Nat /\ n > 0 /\ n <= Len(devices) /\ drawn.highlight + delta \in Int
      BY <2>3
    <3>3. selected \in 0 .. n - 1
      BY <3>1, <3>2
    <3>4. selected \in 0 .. Len(devices) - 1
      BY <2>3, <3>2, <3>3
    <3>. QED  BY <2>2, <2>5, <3>1, <3>4, ClampedInRows DEF ListInv
  <2>. QED  BY <2>4, <2>5
<1>. QED  BY <1>1, FrameInvariant, PTL DEF Spec, HighlightMovesByKeysOnly
=============================================================================
