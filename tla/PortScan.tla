------------------------------ MODULE PortScan ------------------------------
(***************************************************************************)
(* PortScanDetector (lanscope/src/anomaly/heuristics.rs): on_flow is called*)
(* for every flow of every snapshot, with the loop's reading of the clock. *)
(* A source's window begins with the first flow that finds none, or finds  *)
(* the old one over, so windows follow each other without overlapping.     *)
(*                                                                         *)
(* The clock only goes forward here; a wall clock that is set back would   *)
(* stretch the current window by as much.                                  *)
(***************************************************************************)
EXTENDS Integers, FiniteSets

CONSTANTS
    Src,        \* source addresses
    Port,       \* destination ports
    Window,     \* window_secs (10)
    Threshold,  \* threshold (20)
    MaxTime,    \* bound on the clock
    None        \* no entry

ASSUME PortScanAssumption ==
    /\ IsFiniteSet(Port)
    /\ Window \in Nat /\ Threshold \in Nat \ {0} /\ MaxTime \in Nat
    /\ None \notin Src

Never == -1

ScanState == [start : 0 .. MaxTime, ports : SUBSET Port, alerted : BOOLEAN]

ASSUME NoneIsNoScanState == None \notin ScanState

VARIABLES
    seen,     \* ScanState of each source, or None
    now,      \* the clock
    raised,   \* the source the last flow raised an alert for, or None
    contact,  \* history: when a source last contacted a port
    alertAt,  \* history: when the last alert for a source was raised
    before    \* history: when the one before that was raised

vars == <<seen, now, raised, contact, alertAt, before>>

TypeOK ==
    /\ seen \in [Src -> ScanState \cup {None}]
    /\ now \in 0 .. MaxTime
    /\ raised \in Src \cup {None}
    /\ contact \in [Src -> [Port -> 0 .. MaxTime \cup {Never}]]
    /\ alertAt \in [Src -> 0 .. MaxTime \cup {Never}]
    /\ before \in [Src -> 0 .. MaxTime \cup {Never}]

Init ==
    /\ seen = [s \in Src |-> None]
    /\ now = 0
    /\ raised = None
    /\ contact = [s \in Src |-> [p \in Port |-> Never]]
    /\ alertAt = [s \in Src |-> Never]
    /\ before = [s \in Src |-> Never]

-----------------------------------------------------------------------------
(* on_flow                                                                 *)

Fresh == [start |-> now, ports |-> {}, alerted |-> FALSE]

\* "Roll the window forward if it has elapsed."  Mutant: the ports of the old
\* window are kept.
RollKeepsPorts(st) ==
    IF now - st.start > Window THEN [Fresh EXCEPT !.ports = st.ports] ELSE st
Roll(st) == IF now - st.start > Window THEN Fresh ELSE st

Contacted(st, p) == [st EXCEPT !.ports = @ \cup {p}]

\* Mutants: the alert waits for one port more; it is raised again and again.
SuspiciousBeyond(st) == Cardinality(st.ports) > Threshold /\ ~st.alerted
SuspiciousAgain(st)  == Cardinality(st.ports) >= Threshold
Suspicious(st)       == Cardinality(st.ports) >= Threshold /\ ~st.alerted

OnFlow(s, p) ==
    LET st == Contacted(Roll(IF seen[s] = None THEN Fresh ELSE seen[s]), p)
    IN  /\ IF Suspicious(st)
           THEN /\ seen' = [seen EXCEPT ![s] = [st EXCEPT !.alerted = TRUE]]
                /\ raised' = s
                /\ alertAt' = [alertAt EXCEPT ![s] = now]
                /\ before' = [before EXCEPT ![s] = alertAt[s]]
           ELSE /\ seen' = [seen EXCEPT ![s] = st]
                /\ raised' = None
                /\ UNCHANGED <<alertAt, before>>
        /\ contact' = [contact EXCEPT ![s][p] = now]
        /\ UNCHANGED now

-----------------------------------------------------------------------------
ClockTicks ==
    /\ now < MaxTime
    /\ now' \in now + 1 .. MaxTime
    /\ raised' = None
    /\ UNCHANGED <<seen, contact, alertAt, before>>

Next ==
    \/ \E s \in Src, p \in Port : OnFlow(s, p)
    \/ ClockTicks

Spec == Init /\ [][Next]_vars

-----------------------------------------------------------------------------
\* Ports a source has contacted in the last Window seconds.
Recent(s) == {p \in Port : contact[s][p] # Never /\ contact[s][p] >= now - Window}

\* The alert says "{} distinct ports in {}s", and so it was: no alert counts
\* ports of a window that is over.
AlertsAreTruthful ==
    raised # None => Cardinality(Recent(raised)) >= Threshold

\* "should alert exactly once per window": whatever a source does, of three
\* alerts in a row the first and the last are more than a window apart.
AlertRateBounded ==
    [][\A s \in Src : raised' = s /\ before[s] # Never => now - before[s] > Window]_vars

\* Windows that do not overlap cut a burst in two at most: a source that reaches
\* twice the threshold, less one, within window_secs has been reported, at most
\* two windows ago.
BigBurstsAreFlagged ==
    \A s \in Src :
        Cardinality(Recent(s)) >= 2 * Threshold - 1 =>
            alertAt[s] # Never /\ alertAt[s] >= now - 2 * Window
=============================================================================
