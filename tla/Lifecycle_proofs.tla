-------------------------- MODULE Lifecycle_proofs --------------------------
(***************************************************************************)
(* Proofs of Lifecycle's safety properties for every capacity of the event *)
(* channel and every number of replayed samples.                           *)
(***************************************************************************)
EXTENDS Lifecycle, TLAPS

\* The flags are Booleans.
FlagsOK == Flags \subseteq BOOLEAN

\* Everything else of TypeOK.
PlacesOK ==
    /\ main \in {"tui", "capture", "backend", "done", "failed"}
    /\ loop \in {"select", "final", "ended"}
    /\ backend \in {"replay", "idle", "select", "drain", "push", "send", "ended"}
    /\ left \in 0 .. Samples
    /\ backend = "replay" => left > 0
    /\ tui \in {"none", "setup", "draw", "check", "poll", "restore", "ended"}
    /\ signal \in {"none", "received", "handled"}
    /\ chan \in 0 .. Capacity

\* No step makes a flag anything but TRUE or FALSE.
LEMMA FlagsStep == ASSUME FlagsOK, [Next]_vars PROVE FlagsOK'
<1> USE DEF FlagsOK, Flags, params, looper, source, screen
<1>1. CASE LoopStep
  BY <1>1, Zenon DEF LoopStep, Receive, FlushTick, LoopClosed, LoopShutdown, LoopEnd,
                ReceiverDropped, FlushAll
<1>2. CASE BackendStep
  BY <1>2, Zenon DEF BackendStep, Replay, IdleUntilShutdown, BackendWork, NextRecord, PushRecord,
                SendFlows, BackendShutdown, BackendError
<1>3. CASE TuiStep
  BY <1>3, Zenon DEF TuiStep, TuiSetup, TuiDraw, TuiCheck, TuiPoll, TuiRestore, SendShutdown
<1>4. CASE Interrupt \/ HandleSignal
  BY <1>4, Zenon DEF Interrupt, HandleSignal, SendShutdown
<1>5. CASE MainStep
  BY <1>5, Zenon DEF MainStep, TuiJoined, CaptureJoined, BackendJoined, SendShutdown
<1>6. CASE Ended \/ UNCHANGED vars
  BY <1>6, Zenon DEF Ended, vars
<1> QED
  BY <1>1, <1>2, <1>3, <1>4, <1>5, <1>6 DEF Next

\* Lifecycle's variables have the values of their types: the channel never
\* holds more than its capacity, and the portable backend never replays past
\* its last sample.
THEOREM TypeCorrect == Spec => []TypeOK
<1>1. Init => FlagsOK
  BY Zenon DEF Init, FlagsOK, Flags
<1>2. Init => PlacesOK
  BY LifecycleAssumption DEF Init, PlacesOK
<1>3. PlacesOK /\ [Next]_vars => PlacesOK'
  <2> SUFFICES ASSUME PlacesOK, [Next]_vars PROVE PlacesOK'
    OBVIOUS
  <2> USE LifecycleAssumption DEF PlacesOK, params, looper, source, screen
  <2>1. CASE LoopStep
    BY <2>1 DEF LoopStep, Receive, FlushTick, LoopClosed, LoopShutdown, LoopEnd,
                ReceiverDropped
  <2>2. CASE BackendStep
    BY <2>2 DEF BackendStep, Replay, IdleUntilShutdown, BackendWork, NextRecord, PushRecord,
                SendFlows, BackendShutdown, BackendError, Sends, Refused
  <2>3. CASE TuiStep
    BY <2>3 DEF TuiStep, TuiSetup, TuiDraw, TuiCheck, TuiPoll, TuiRestore
  <2>4. CASE Interrupt \/ HandleSignal
    BY <2>4 DEF Interrupt, HandleSignal
  <2>5. CASE MainStep
    BY <2>5 DEF MainStep, TuiJoined, CaptureJoined, BackendJoined
  <2>6. CASE Ended \/ UNCHANGED vars
    BY <2>6 DEF Ended, vars
  <2> QED
    BY <2>1, <2>2, <2>3, <2>4, <2>5, <2>6 DEF Next
<1>4. FlagsOK /\ PlacesOK <=> TypeOK
  BY DEF FlagsOK, PlacesOK, TypeOK
<1> QED
  BY <1>1, <1>2, <1>3, <1>4, FlagsStep, PTL DEF Spec

\* The loop and the backend run until somebody asks them to stop, the backend
\* fails or the screen dies: neither ends the other by accident, however the
\* channel fills up.
THEOREM RunsUntilAskedHolds == Spec => []RunsUntilAsked
<1>1. Init => RunsUntilAsked
  BY DEF Init, RunsUntilAsked
<1>2. RunsUntilAsked /\ [Next]_vars => RunsUntilAsked'
  <2> SUFFICES ASSUME RunsUntilAsked, [Next]_vars PROVE RunsUntilAsked'
    OBVIOUS
  <2> USE DEF RunsUntilAsked, params, looper, source, screen
  <2>1. CASE LoopStep
    BY <2>1 DEF LoopStep, Receive, FlushTick, LoopClosed, LoopShutdown, LoopEnd,
                QueueClosed, ReceiverDropped
  <2>2. CASE BackendStep
    BY <2>2 DEF BackendStep, Replay, IdleUntilShutdown, BackendWork, NextRecord, PushRecord,
                SendFlows, BackendShutdown, BackendError, Sends, Refused
  <2>3. CASE TuiStep
    BY <2>3 DEF TuiStep, TuiSetup, TuiDraw, TuiCheck, TuiPoll, TuiRestore, SendShutdown
  <2>4. CASE Interrupt \/ HandleSignal
    BY <2>4 DEF Interrupt, HandleSignal, SendShutdown
  <2>5. CASE MainStep
    BY <2>5 DEF MainStep, TuiJoined, CaptureJoined, BackendJoined, SendShutdown
  <2>6. CASE Ended \/ UNCHANGED vars
    BY <2>6 DEF Ended, vars
  <2> QED
    BY <2>1, <2>2, <2>3, <2>4, <2>5, <2>6 DEF Next
<1> QED
  BY <1>1, <1>2, PTL DEF Spec

\* When run returns in order, nothing that was folded into the registry is
\* missing from the store.  OrderlyInv says why: the loop ends through its last
\* flush unless the screen's thread panicked, and after any error of the screen
\* run does not return in order.
THEOREM OrderlyEndIsFlushedHolds == Spec => []OrderlyEndIsFlushed
<1>1. Init => OrderlyInv
  BY DEF Init, OrderlyInv
<1>2. OrderlyInv /\ [Next]_vars => OrderlyInv'
  <2> SUFFICES ASSUME OrderlyInv, [Next]_vars PROVE OrderlyInv'
    OBVIOUS
  <2> USE DEF OrderlyInv, Up, params, looper, source, screen
  <2>1. CASE LoopStep
    BY <2>1 DEF LoopStep, Receive, FlushTick, LoopClosed, LoopShutdown, LoopEnd,
                ReceiverDropped, FlushAll
  <2>2. CASE BackendStep
    BY <2>2 DEF BackendStep, Replay, IdleUntilShutdown, BackendWork, NextRecord, PushRecord,
                SendFlows, BackendShutdown, BackendError
  <2>3. CASE TuiStep
    BY <2>3 DEF TuiStep, TuiSetup, TuiDraw, TuiCheck, TuiPoll, TuiRestore
  <2>4. CASE Interrupt \/ HandleSignal
    BY <2>4 DEF Interrupt, HandleSignal
  <2>5. CASE MainStep
    BY <2>5 DEF MainStep, TuiJoined, CaptureJoined, BackendJoined, AwaitsTheLoop
  <2>6. CASE Ended \/ UNCHANGED vars
    BY <2>6 DEF Ended, vars
  <2> QED
    BY <2>1, <2>2, <2>3, <2>4, <2>5, <2>6 DEF Next
<1>3. OrderlyInv => OrderlyEndIsFlushed
  BY DEF OrderlyInv, OrderlyEndIsFlushed
<1> QED
  BY <1>1, <1>2, <1>3, PTL DEF Spec
=============================================================================
