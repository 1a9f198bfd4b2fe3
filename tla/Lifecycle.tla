----------------------------- MODULE Lifecycle -----------------------------
(***************************************************************************)
(* How "lanscope run" starts, stops and dies: run and capture_loop in      *)
(* lanscope/src/app.rs, the capture backend's task (capture/ebpf.rs or     *)
(* capture/mock.rs), the TUI's blocking thread (tui/mod.rs) and the signal *)
(* handler, joined by a bounded mpsc channel of capture events, a watch    *)
(* channel for the shutdown flag and the dashboard's mutex.                *)
(*                                                                         *)
(* What a handler computes is Pipeline's business: here an event is one    *)
(* unit of the channel and the registry is clean or dirty, that is, equal  *)
(* to what the last flush wrote or not.  Writes do not fail here.          *)
(***************************************************************************)
EXTENDS Integers

CONSTANTS
    Capacity,   \* of the mpsc channel (1024)
    Samples     \* events the portable backend replays, its flow snapshot included

ASSUME LifecycleAssumption ==
    Capacity \in Nat \ {0} /\ Samples \in Nat \ {0}

VARIABLES
    headless,   \* --headless
    portable,   \* the backend select_backend returned: portable or eBPF
    main,       \* what run awaits: the TUI, the loop, the backend; or how it ended
    loop,       \* capture_loop
    backend,    \* the backend's task
    left,       \* events the portable backend has still to replay
    tui,        \* run_blocking
    tuiErr,     \* run_blocking returns an error, or its thread panicked
    poisoned,   \* the thread panicked with the dashboard's mutex locked
    signal,     \* SIGINT: not yet, received, handled
    shutdown,   \* value of the watch channel
    chan,       \* events in the mpsc channel
    dirty,      \* the registry has something the store lacks
    broken,     \* history: the backend's task ended with an I/O error
    lost        \* history: events were queued when the receiver was dropped

params  == <<headless, portable>>
looper  == <<loop, dirty, lost>>
source  == <<backend, left, broken>>
screen  == <<tui, tuiErr, poisoned>>
vars    == <<params, main, looper, source, screen, signal, shutdown, chan>>

\* The process is alive: main has not returned or called process::exit.
Up == main \in {"tui", "capture", "backend"}

Flags == {headless, portable, tuiErr, poisoned, shutdown, dirty, broken, lost}

TypeOK ==
    /\ main \in {"tui", "capture", "backend", "done", "failed"}
    /\ loop \in {"select", "final", "ended"}
    /\ backend \in {"replay", "idle", "select", "drain", "push", "send", "ended"}
    /\ left \in 0 .. Samples
    /\ backend = "replay" => left > 0
    /\ tui \in {"none", "setup", "draw", "check", "poll", "restore", "ended"}
    /\ signal \in {"none", "received", "handled"}
    /\ chan \in 0 .. Capacity
    /\ Flags \subseteq BOOLEAN

\* The store is open, the registry seeded, the tasks are spawned.
Init ==
    /\ headless \in BOOLEAN
    /\ portable \in BOOLEAN
    /\ main = IF headless THEN "capture" ELSE "tui"
    /\ loop = "select"
    /\ backend = IF portable THEN "replay" ELSE "select"
    /\ left = Samples
    /\ tui = IF headless THEN "none" ELSE "setup"
    /\ tuiErr = FALSE
    /\ poisoned = FALSE
    /\ signal = "none"
    /\ shutdown = FALSE
    /\ chan = 0
    /\ dirty = FALSE
    /\ broken = FALSE
    /\ lost = FALSE

-----------------------------------------------------------------------------
(* The two channels                                                        *)

\* tx.send(..).await: waits for room, fails once the receiver is gone.
\* Mutant: a receiver that outlives its loop.
NeverRefused == FALSE
Sends   == loop # "ended" /\ chan < Capacity /\ chan' = chan + 1
Refused == loop = "ended" /\ UNCHANGED chan

\* The loop's task is over and its receivers go, with whatever is still queued.
ReceiverDropped(queued) ==
    /\ loop' = "ended"
    /\ chan' = 0
    /\ lost' = (lost \/ queued > 0)

\* Both watch receivers are gone.
IsClosed == loop = "ended" /\ backend = "ended"

\* watch::Sender::send(true): with no receiver left the value stays as it is.
SendShutdown == shutdown' = (shutdown \/ ~IsClosed)

-----------------------------------------------------------------------------
(* capture_loop                                                            *)

\* flush_all.  Mutant: it reaches the store for no record.
FlushesNothing == UNCHANGED dirty
FlushAll == dirty' = FALSE

\* handle_event.  An alert goes to the dashboard too, and lock().unwrap() on a
\* poisoned mutex ends the task at once.
Receive ==
    /\ Up /\ loop = "select"
    /\ chan > 0
    /\ dirty' = TRUE
    /\ \/ chan' = chan - 1 /\ UNCHANGED <<loop, lost>>
       \/ poisoned /\ ReceiverDropped(chan - 1)
    /\ UNCHANGED <<params, main, source, screen, signal, shutdown>>

\* flush.tick(): flush_all, then publish_devices, which locks the dashboard.
FlushTick ==
    /\ Up /\ loop = "select"
    /\ FlushAll
    /\ IF poisoned THEN ReceiverDropped(chan) ELSE UNCHANGED <<loop, chan, lost>>
    /\ UNCHANGED <<params, main, source, screen, signal, shutdown>>

\* recv() gives None: the sender is gone and the queue is empty.
\* Mutant: an empty queue is taken for a closed one.
QueueEmpty  == chan = 0
QueueClosed == backend = "ended" /\ chan = 0

LoopClosed ==
    /\ Up /\ loop = "select"
    /\ QueueClosed
    /\ loop' = "final"
    /\ UNCHANGED <<params, main, dirty, lost, source, screen, signal, shutdown, chan>>

\* shutdown_rx.changed(), and the value is true.
LoopShutdown ==
    /\ Up /\ loop = "select"
    /\ shutdown
    /\ loop' = "final"
    /\ UNCHANGED <<params, main, dirty, lost, source, screen, signal, shutdown, chan>>

\* The last flush_all, and the end of the task.
LoopEnd ==
    /\ Up /\ loop = "final"
    /\ FlushAll
    /\ ReceiverDropped(chan)
    /\ UNCHANGED <<params, main, source, screen, signal, shutdown>>

-----------------------------------------------------------------------------
(* PortableBackend::spawn                                                  *)

\* A refused sample ends the task; a refused snapshot, the last one, does not.
Replay ==
    /\ Up /\ backend = "replay"
    /\ left' = left - 1
    /\ \/ Sends /\ backend' = IF left = 1 THEN "idle" ELSE "replay"
       \/ Refused /\ backend' = IF left = 1 THEN "idle" ELSE "ended"
    /\ UNCHANGED <<params, main, looper, broken, screen, signal, shutdown>>

IdleUntilShutdown ==
    /\ Up /\ backend = "idle"
    /\ shutdown
    /\ backend' = "ended"
    /\ UNCHANGED <<params, main, looper, left, broken, screen, signal, shutdown, chan>>

-----------------------------------------------------------------------------
(* EbpfBackend::spawn                                                      *)

\* readable: drain_events; or the drain interval: drain_flows found entries.
BackendWork ==
    /\ Up /\ backend = "select"
    /\ backend' \in {"drain", "send"}
    /\ UNCHANGED <<params, main, looper, left, broken, screen, signal, shutdown, chan>>

\* drain_events looks for a record in the ring buffer, and records may keep
\* coming; it returns when there is none.
NextRecord ==
    /\ Up /\ backend = "drain"
    /\ backend' \in {"push", "select"}
    /\ UNCHANGED <<params, main, looper, left, broken, screen, signal, shutdown, chan>>

\* It sends the record; a refusal ends drain_events, but not the select! loop.
PushRecord ==
    /\ Up /\ backend = "push"
    /\ \/ Sends /\ backend' = "drain"
       \/ Refused /\ backend' = "select"
    /\ UNCHANGED <<params, main, looper, left, broken, screen, signal, shutdown>>

SendFlows ==
    /\ Up /\ backend = "send"
    /\ \/ Sends /\ backend' = "select"
       \/ Refused /\ backend' = "ended"
    /\ UNCHANGED <<params, main, looper, left, broken, screen, signal, shutdown>>

\* shutdown.changed(), and the value is true.
BackendShutdown ==
    /\ Up /\ backend = "select"
    /\ shutdown
    /\ backend' = "ended"
    /\ UNCHANGED <<params, main, looper, left, broken, screen, signal, shutdown, chan>>

\* A map is missing, or the ring buffer's descriptor reports an error.
BackendError ==
    /\ Up /\ backend = "select"
    /\ backend' = "ended"
    /\ broken' = TRUE
    /\ UNCHANGED <<params, main, looper, left, screen, signal, shutdown, chan>>

-----------------------------------------------------------------------------
(* run_blocking                                                            *)

TuiSetup ==
    /\ Up /\ tui = "setup"
    /\ \/ tui' = "draw" /\ UNCHANGED tuiErr
       \/ tui' = "ended" /\ tuiErr' = TRUE
    /\ UNCHANGED <<params, main, looper, source, poisoned, signal, shutdown, chan>>

\* The frame is drawn under the dashboard's lock: that succeeds, or fails, or
\* the thread panics.
TuiDraw ==
    /\ Up /\ tui = "draw"
    /\ \/ tui' = "check" /\ UNCHANGED <<tuiErr, poisoned>>
       \/ tui' = "restore" /\ tuiErr' = TRUE /\ UNCHANGED poisoned
       \/ tui' = "ended" /\ tuiErr' = TRUE /\ poisoned' = TRUE
    /\ UNCHANGED <<params, main, looper, source, signal, shutdown, chan>>

\* Mutant: is_closed() is not asked.
TuiLooksAtFlagOnly == shutdown
TuiMustStop == IsClosed \/ shutdown

TuiCheck ==
    /\ Up /\ tui = "check"
    /\ tui' = IF TuiMustStop THEN "restore" ELSE "poll"
    /\ UNCHANGED <<params, main, looper, source, tuiErr, poisoned, signal, shutdown, chan>>

\* No key or another one, q or Esc, an error.
TuiPoll ==
    /\ Up /\ tui = "poll"
    /\ \/ tui' \in {"draw", "restore"} /\ UNCHANGED tuiErr
       \/ tui' = "restore" /\ tuiErr' = TRUE
    /\ UNCHANGED <<params, main, looper, source, poisoned, signal, shutdown, chan>>

\* restore_terminal()? returns before the flag is set.
TuiRestore ==
    /\ Up /\ tui = "restore"
    /\ tui' = "ended"
    /\ \/ SendShutdown /\ UNCHANGED tuiErr
       \/ tuiErr' = TRUE /\ UNCHANGED shutdown
    /\ UNCHANGED <<params, main, looper, source, poisoned, signal, chan>>

-----------------------------------------------------------------------------
(* The signal handler and run                                              *)

Interrupt ==
    /\ Up /\ signal = "none"
    /\ signal' = "received"
    /\ UNCHANGED <<params, main, looper, source, screen, shutdown, chan>>

HandleSignal ==
    /\ Up /\ signal = "received"
    /\ signal' = "handled"
    /\ SendShutdown
    /\ UNCHANGED <<params, main, looper, source, screen, chan>>

\* An error of the TUI is returned at once; main ends the process, whatever
\* the other tasks are doing.
TuiJoined ==
    /\ main = "tui" /\ tui = "ended"
    /\ IF tuiErr THEN main' = "failed" /\ UNCHANGED shutdown
                 ELSE main' = "capture" /\ SendShutdown
    /\ UNCHANGED <<params, looper, source, screen, signal, chan>>

\* Mutant: capture.await is left out.
AwaitsNothing == TRUE
AwaitsTheLoop == loop = "ended"
CaptureJoined ==
    /\ main = "capture" /\ AwaitsTheLoop
    /\ main' = "backend"
    /\ UNCHANGED <<params, looper, source, screen, signal, shutdown, chan>>

BackendJoined ==
    /\ main = "backend" /\ backend = "ended"
    /\ main' = "done"
    /\ UNCHANGED <<params, looper, source, screen, signal, shutdown, chan>>

Ended == ~Up /\ UNCHANGED vars

LoopStep == Receive \/ FlushTick \/ LoopClosed \/ LoopShutdown \/ LoopEnd
BackendStep ==
    \/ Replay \/ IdleUntilShutdown
    \/ BackendWork \/ NextRecord \/ PushRecord \/ SendFlows
    \/ BackendShutdown \/ BackendError
TuiStep  == TuiSetup \/ TuiDraw \/ TuiCheck \/ TuiPoll \/ TuiRestore
MainStep == TuiJoined \/ CaptureJoined \/ BackendJoined

Next ==
    \/ LoopStep
    \/ BackendStep
    \/ TuiStep
    \/ Interrupt \/ HandleSignal
    \/ MainStep
    \/ Ended

Spec == Init /\ [][Next]_vars

\* Every task that can take a step takes one: tokio's scheduler and the kernel's
\* see to it.  select! picks among its ready branches at random, so a branch
\* that is ready again and again is taken: the shutdown branch of the loop and
\* of the backend, and the flush.  Nothing obliges a user, a signal, a record
\* or an error to come.
Fairness ==
    /\ WF_vars(LoopStep) /\ SF_vars(LoopShutdown) /\ SF_vars(FlushTick)
    /\ WF_vars(Replay \/ IdleUntilShutdown \/ NextRecord \/ PushRecord \/ SendFlows)
    /\ SF_vars(BackendShutdown)
    /\ WF_vars(TuiStep)
    /\ WF_vars(HandleSignal)
    /\ WF_vars(MainStep)

FairSpec == Spec /\ Fairness

-----------------------------------------------------------------------------
\* When run returns in order, the final flush has been made and nothing was
\* folded in after it: whichever task asked for the end, and in whichever order
\* the tasks noticed, the registry's last state is in the store.
OrderlyEndIsFlushed == main = "done" => ~dirty

\* Its strengthening: only a panic of the screen's thread takes the loop past
\* its last flush, and then run does not return in order.
OrderlyInv ==
    /\ loop = "ended" /\ ~poisoned => ~dirty
    /\ poisoned => tuiErr
    /\ tui \notin {"none", "ended"} => main = "tui"
    /\ main \in {"capture", "backend", "done"} => ~tuiErr
    /\ main \in {"backend", "done"} => loop = "ended"

\* The two tasks hold each other up while the program is in use: the loop does
\* not stop receiving and the backend does not stop capturing unless somebody
\* asked for the end, the backend failed (capture/mod.rs: it "returns once
\* shutdown observes true (or on unrecoverable error)") or the screen died.
\* In particular no refused send ever ends a backend that nobody stopped.
RunsUntilAsked ==
    (loop # "select" \/ backend = "ended" \/ lost) => shutdown \/ broken \/ poisoned

\* Shutdown completes: once the flag is up, from the user or from a signal, the
\* process ends, even when the backend waits for room in a full channel that
\* the loop no longer empties.
ShutdownEndsProcess == (shutdown \/ signal = "received") ~> ~Up

\* The process does not outlive its capture: when the backend is gone, the loop
\* works off the queue and ends, the screen notices that both are gone, and
\* run returns, with nobody asking.
BackendEndEndsProcess == backend = "ended" ~> ~Up

\* Nothing that was folded into the registry stays unwritten while the process
\* lives.
FoldedGetsFlushed == dirty ~> (~dirty \/ ~Up)

\* app.rs: "TUI: the loop drains after the UI exits".  An exit through the
\* screen leaves no event behind in the channel.
LoopDrainsAfterUi == (main = "done" /\ ~headless) => ~lost
=============================================================================
