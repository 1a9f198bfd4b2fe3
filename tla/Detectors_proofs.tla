------------------------- MODULE Detectors_proofs --------------------------
(***************************************************************************)
(* Proofs about the two flow detectors: the port-scan detector for every   *)
(* window, threshold, set of ports and course of the clock, the volume     *)
(* detector for every smoothing factor, spike factor, floor and sequence   *)
(* of volumes.                                                             *)
(***************************************************************************)
EXTENDS PortScan, VolumeSpike, FiniteSetTheorems, SequenceTheorems, TLAPS

\* What a window remembers: its ports were contacted since it began; the last
\* alert was raised in it if and only if it is marked, and else before it; the
\* alert before that one belongs to a window that was over when this one, or the
\* one the last alert was raised in, began.
WindowOK(st, s) ==
    /\ st.start <= now
    /\ \A p \in st.ports : contact[s][p] >= st.start
    /\ alertAt[s] <= st.start + Window
    /\ st.alerted => before[s] < st.start
    /\ ~st.alerted => alertAt[s] < st.start /\ (before[s] # Never => before[s] + Window < st.start)

WindowInv ==
    \A s \in Src :
        /\ seen[s] # None => WindowOK(seen[s], s)
        /\ seen[s] = None => alertAt[s] = Never /\ before[s] = Never

-----------------------------------------------------------------------------
\* The window on_flow works on: a scan state, begun no later than now and not
\* over, in which nothing has been said yet of a window that has just begun.
LEMMA RolledWindow ==
  ASSUME TypeOK, WindowInv, NEW s \in Src
  PROVE  LET st == Roll(IF seen[s] = None THEN Fresh ELSE seen[s])
         IN  st \in ScanState /\ now - st.start <= Window /\ WindowOK(st, s)
<1> USE PortScanAssumption, NoneIsNoScanState
<1>1. Fresh \in ScanState
  BY DEF Fresh, ScanState, TypeOK
<1>2. /\ alertAt[s] \in 0 .. MaxTime \cup {Never} /\ before[s] \in 0 .. MaxTime \cup {Never}
      /\ now \in 0 .. MaxTime
  BY DEF TypeOK
<1>3. CASE seen[s] = None
  <2>1. Roll(Fresh) = Fresh
    BY <1>2 DEF Roll, Fresh
  <2>2. WindowOK(Fresh, s)
    BY <1>2, <1>3 DEF WindowOK, Fresh, WindowInv, Never
  <2> QED
    BY <1>1, <1>2, <1>3, <2>1, <2>2 DEF Fresh
<1>4. CASE seen[s] # None /\ now - seen[s].start > Window
  <2>1. seen[s] \in ScanState /\ WindowOK(seen[s], s)
    BY <1>4 DEF TypeOK, WindowInv
  <2>2. seen[s].start \in 0 .. MaxTime /\ seen[s].alerted \in BOOLEAN
    BY <2>1 DEF ScanState
  <2>3. alertAt[s] < now /\ (before[s] # Never => before[s] + Window < now)
    BY <1>2, <1>4, <2>1, <2>2 DEF WindowOK, Never
  <2>4. WindowOK(Fresh, s)
    BY <1>2, <2>3 DEF WindowOK, Fresh, Never
  <2> QED
    BY <1>1, <1>2, <1>4, <2>4 DEF Roll, Fresh
<1>5. CASE seen[s] # None /\ ~(now - seen[s].start > Window)
  <2>1. seen[s] \in ScanState /\ WindowOK(seen[s], s)
    BY <1>5 DEF TypeOK, WindowInv
  <2>2. seen[s].start \in 0 .. MaxTime
    BY <2>1 DEF ScanState
  <2> QED
    BY <1>2, <1>5, <2>1, <2>2 DEF Roll
<1> QED
  BY <1>3, <1>4, <1>5

\* Types, and what the windows remember, survive every step.
LEMMA WindowStep == ASSUME TypeOK, WindowInv, [Next]_vars PROVE TypeOK' /\ WindowInv'
<1> USE PortScanAssumption, NoneIsNoScanState
<1>1. ASSUME NEW s \in Src, NEW p \in Port, OnFlow(s, p) PROVE TypeOK' /\ WindowInv'
  <2> DEFINE rolled == Roll(IF seen[s] = None THEN Fresh ELSE seen[s])
             st     == Contacted(rolled, p)
  <2>1. rolled \in ScanState /\ now - rolled.start <= Window /\ WindowOK(rolled, s)
    BY RolledWindow
  <2>2. /\ st \in ScanState /\ [st EXCEPT !.alerted = TRUE] \in ScanState
        /\ st.start = rolled.start /\ st.ports = rolled.ports \cup {p} /\ st.alerted = rolled.alerted
    BY <2>1 DEF Contacted, ScanState
  <2>3. /\ now \in 0 .. MaxTime /\ alertAt[s] \in 0 .. MaxTime \cup {Never}
        /\ before[s] \in 0 .. MaxTime \cup {Never} /\ st.start \in 0 .. MaxTime
    BY <2>2 DEF TypeOK, ScanState
  <2>4. /\ contact' = [contact EXCEPT ![s][p] = now] /\ now' = now
        /\ contact' \in [Src -> [Port -> 0 .. MaxTime \cup {Never}]]
    BY <1>1, <2>3 DEF OnFlow, TypeOK
  <2>5. \A q \in st.ports : contact'[s][q] >= st.start
    BY <2>1, <2>2, <2>3, <2>4 DEF WindowOK, TypeOK, ScanState
  <2>6. \A r \in Src \ {s} : contact'[r] = contact[r]
    BY <2>4 DEF TypeOK
  <2>7. CASE Suspicious(st)
    <3>1. /\ seen' = [seen EXCEPT ![s] = [st EXCEPT !.alerted = TRUE]]
          /\ raised' = s
          /\ alertAt' = [alertAt EXCEPT ![s] = now]
          /\ before' = [before EXCEPT ![s] = alertAt[s]]
      BY <1>1, <2>7 DEF OnFlow
    <3>2. TypeOK'
      BY <2>2, <2>3, <2>4, <3>1 DEF TypeOK
    <3>3. ~st.alerted
      BY <2>7 DEF Suspicious
    <3>4. seen'[s] = [st EXCEPT !.alerted = TRUE] /\ alertAt'[s] = now /\ before'[s] = alertAt[s]
      BY <3>1 DEF TypeOK
    <3>5. alertAt[s] < st.start /\ st.start <= now /\ now <= st.start + Window
      BY <2>1, <2>2, <2>3, <3>3 DEF WindowOK
    <3>6. WindowOK(seen[s], s)'
      BY <2>2, <2>4, <2>5, <3>4, <3>5 DEF WindowOK, ScanState
    <3>7. \A r \in Src \ {s} : /\ seen'[r] = seen[r] /\ alertAt'[r] = alertAt[r]
                               /\ before'[r] = before[r]
      BY <3>1 DEF TypeOK
    <3>8. ASSUME NEW r \in Src \ {s}
          PROVE  (seen[r] # None => WindowOK(seen[r], r)') /\ (seen[r] = None => alertAt'[r] = Never /\ before'[r] = Never)
      BY <2>4, <2>6, <3>7 DEF WindowInv, WindowOK
    <3>9. seen'[s] # None
      BY <2>2, <3>4
    <3> QED
      BY <3>2, <3>6, <3>7, <3>8, <3>9 DEF WindowInv
  <2>8. CASE ~Suspicious(st)
    <3>1. seen' = [seen EXCEPT ![s] = st] /\ raised' = None /\ UNCHANGED <<alertAt, before>>
      BY <1>1, <2>8 DEF OnFlow
    <3>2. TypeOK'
      BY <2>2, <2>3, <2>4, <3>1 DEF TypeOK
    <3>3. seen'[s] = st
      BY <3>1 DEF TypeOK
    <3>4. WindowOK(seen[s], s)'
      BY <2>1, <2>2, <2>4, <2>5, <3>1, <3>3 DEF WindowOK
    <3>5. \A r \in Src \ {s} : seen'[r] = seen[r]
      BY <3>1 DEF TypeOK
    <3>6. ASSUME NEW r \in Src \ {s}
          PROVE  (seen[r] # None => WindowOK(seen[r], r)') /\ (seen[r] = None => alertAt'[r] = Never /\ before'[r] = Never)
      BY <2>4, <2>6, <3>1, <3>5 DEF WindowInv, WindowOK
    <3>7. seen'[s] # None
      BY <2>2, <3>3
    <3> QED
      BY <3>2, <3>4, <3>5, <3>6, <3>7 DEF WindowInv
  <2> QED
    BY <2>7, <2>8
<1>2. CASE ClockTicks
  <2>1. now' \in 0 .. MaxTime /\ now' > now /\ UNCHANGED <<seen, contact, alertAt, before>> /\ raised' = None
    BY <1>2 DEF ClockTicks, TypeOK
  <2>2. TypeOK'
    BY <2>1 DEF TypeOK
  <2>3. ASSUME NEW s \in Src, seen[s] # None PROVE seen[s].start <= now'
    BY <2>1, <2>3 DEF WindowInv, WindowOK, TypeOK, ScanState
  <2> QED
    BY <2>1, <2>2, <2>3 DEF WindowInv, WindowOK
<1>3. CASE UNCHANGED vars
  BY <1>3 DEF vars, TypeOK, WindowInv, WindowOK
<1> QED
  BY <1>1, <1>2, <1>3 DEF Next

LEMMA WindowInvariant == Spec => [](TypeOK /\ WindowInv)
<1>1. Init => TypeOK /\ WindowInv
  BY PortScanAssumption, NoneIsNoScanState DEF Init, TypeOK, WindowInv, Never
<1> QED
  BY <1>1, WindowStep, PTL DEF Spec

\* Type correctness, whatever the ports, the window and the threshold.
THEOREM ScanTypeCorrect == Spec => []TypeOK
  BY WindowInvariant, PTL

-----------------------------------------------------------------------------
\* An alert never counts a port that was contacted before the last window_secs:
\* whatever the traffic, the ports the alert names were contacted in that time.
THEOREM AlertsAreTruthfulHolds == Spec => []AlertsAreTruthful
<1>1. Init => AlertsAreTruthful
  BY DEF Init, AlertsAreTruthful
<1>2. TypeOK /\ TypeOK' /\ WindowInv /\ AlertsAreTruthful /\ [Next]_vars => AlertsAreTruthful'
  <2> SUFFICES ASSUME TypeOK, TypeOK', WindowInv, AlertsAreTruthful, [Next]_vars
               PROVE  AlertsAreTruthful'
    OBVIOUS
  <2> USE PortScanAssumption
  <2>1. ASSUME NEW s \in Src, NEW p \in Port, OnFlow(s, p), raised' = s PROVE AlertsAreTruthful'
    <3> DEFINE rolled == Roll(IF seen[s] = None THEN Fresh ELSE seen[s])
               st     == Contacted(rolled, p)
    <3>1. rolled \in ScanState /\ now - rolled.start <= Window /\ WindowOK(rolled, s)
      BY RolledWindow
    <3>2. st.start = rolled.start /\ st.ports = rolled.ports \cup {p} /\ st.ports \subseteq Port
          /\ st.start \in 0 .. MaxTime
      BY <3>1 DEF Contacted, ScanState
    <3>3. Cardinality(st.ports) >= Threshold
      BY <2>1 DEF OnFlow, Suspicious
    <3>4. contact' = [contact EXCEPT ![s][p] = now] /\ now' = now /\ now \in 0 .. MaxTime
      BY <2>1 DEF OnFlow, TypeOK
    <3>5. ASSUME NEW q \in st.ports PROVE q \in Recent(s)'
      <4>1. contact'[s][q] >= st.start
        BY <3>1, <3>2, <3>4, <3>5 DEF WindowOK, TypeOK
      <4>2. contact'[s][q] \in 0 .. MaxTime \cup {Never}
        BY <3>2, <3>5 DEF TypeOK
      <4>3. contact'[s][q] # Never /\ contact'[s][q] >= now' - Window
        BY <3>1, <3>2, <3>4, <4>1, <4>2 DEF Never
      <4> QED
        BY <3>2, <3>5, <4>3 DEF Recent
    <3>6. IsFiniteSet(Recent(s)')
      BY FS_Subset, Recent(s)' \subseteq Port DEF Recent
    <3>7. Cardinality(st.ports) <= Cardinality(Recent(s)')
      BY <3>5, <3>6, FS_Subset
    <3>8. Cardinality(st.ports) \in Nat /\ Cardinality(Recent(s)') \in Nat
      BY <3>2, <3>6, FS_Subset, FS_CardinalityType
    <3>9. Cardinality(Recent(s)') >= Threshold
      BY <3>3, <3>7, <3>8
    <3> QED
      BY <2>1, <3>9 DEF AlertsAreTruthful, Recent
  <2>2. ASSUME NEW s \in Src, NEW p \in Port, OnFlow(s, p), raised' # s PROVE AlertsAreTruthful'
    BY <2>2 DEF OnFlow, AlertsAreTruthful
  <2>3. CASE ClockTicks
    BY <2>3 DEF ClockTicks, AlertsAreTruthful
  <2>4. CASE UNCHANGED vars
    BY <2>4 DEF vars, AlertsAreTruthful, Recent
  <2> QED
    BY <2>1, <2>2, <2>3, <2>4 DEF Next
<1> QED
  BY <1>1, <1>2, WindowInvariant, PTL DEF Spec

\* Of three alerts in a row for one source, the first and the last are more than
\* a window apart.
THEOREM AlertRateIsBounded == Spec => AlertRateBounded
<1>1. TypeOK /\ WindowInv /\ [Next]_vars =>
        [\A s \in Src : raised' = s /\ before[s] # Never => now - before[s] > Window]_vars
  <2> USE PortScanAssumption
  <2> SUFFICES ASSUME TypeOK, WindowInv, [Next]_vars, NEW s \in Src,
                      raised' = s, before[s] # Never, vars' # vars
               PROVE  now - before[s] > Window
    BY DEF vars
  <2>1. PICK r \in Src, p \in Port : OnFlow(r, p)
    BY DEF Next, ClockTicks
  <2>2. r = s
    BY <2>1 DEF OnFlow
  <2> DEFINE rolled == Roll(IF seen[s] = None THEN Fresh ELSE seen[s])
             st     == Contacted(rolled, p)
  <2>3. rolled \in ScanState /\ WindowOK(rolled, s)
    BY RolledWindow
  <2>4. Suspicious(st) /\ st.alerted = rolled.alerted
    BY <2>1, <2>2, <2>3 DEF OnFlow, Contacted, ScanState
  <2>5. before[s] + Window < rolled.start /\ rolled.start <= now
    BY <2>3, <2>4 DEF Suspicious, WindowOK
  <2>6. before[s] \in Int /\ now \in Int /\ rolled.start \in Int
    BY <2>3 DEF TypeOK, ScanState, Never
  <2> QED
    BY <2>5, <2>6
<1> QED
  BY <1>1, WindowInvariant, PTL DEF Spec, AlertRateBounded
-----------------------------------------------------------------------------
(* Bursts                                                                  *)

\* Ports a source has contacted within a window's length before this window
\* began, and not since.
Previous(st, s) ==
    {p \in Port : /\ contact[s][p] # Never
                  /\ st.start - Window <= contact[s][p] /\ contact[s][p] < st.start}

\* A window that has not been reported is short of the threshold, and so is what
\* the window before it left behind, unless that was reported at most a window's
\* length before those contacts.
BurstOK(st, s) ==
    /\ \A p \in Port : contact[s][p] >= st.start =>
                          p \in st.ports /\ contact[s][p] <= st.start + Window
    /\ st.alerted => alertAt[s] >= st.start
    /\ ~st.alerted => Cardinality(st.ports) < Threshold
    /\ \/ Cardinality(Previous(st, s)) < Threshold
       \/ /\ alertAt[s] # Never
          /\ \A p \in Previous(st, s) : alertAt[s] >= contact[s][p] - Window

BurstInv ==
    \A s \in Src :
        /\ seen[s] # None => BurstOK(seen[s], s)
        /\ seen[s] = None => \A p \in Port : contact[s][p] = Never

\* Sets of ports are finite, and a smaller one has no more members.
LEMMA PortSets ==
  ASSUME NEW S \in SUBSET Port, NEW T \in SUBSET Port
  PROVE  /\ IsFiniteSet(S) /\ Cardinality(S) \in Nat
         /\ S \subseteq T => Cardinality(S) <= Cardinality(T)
<1>1. IsFiniteSet(S) /\ IsFiniteSet(T)
  BY FS_Subset, PortScanAssumption
<1> QED
  BY <1>1, FS_Subset, FS_CardinalityType

\* When a window begins, what the source did in the one before it is no more than
\* that window remembers.
LEMMA RolledBurst ==
  ASSUME TypeOK, WindowInv, BurstInv, NEW s \in Src
  PROVE  BurstOK(Roll(IF seen[s] = None THEN Fresh ELSE seen[s]), s)
<1> USE PortScanAssumption, NoneIsNoScanState
<1>1. /\ contact[s] \in [Port -> 0 .. MaxTime \cup {Never}] /\ now \in 0 .. MaxTime
      /\ alertAt[s] \in 0 .. MaxTime \cup {Never}
  BY DEF TypeOK
<1>2. Fresh.start = now /\ Fresh.ports = {} /\ Fresh.alerted = FALSE
  BY DEF Fresh
<1>3. Cardinality({}) < Threshold
  BY FS_EmptySet
<1>0. ASSUME \A p \in Port : contact[s][p] < now,
             \/ Cardinality(Previous(Fresh, s)) < Threshold
             \/ /\ alertAt[s] # Never
                /\ \A p \in Previous(Fresh, s) : alertAt[s] >= contact[s][p] - Window
      PROVE  BurstOK(Fresh, s)
  <2>1. \A p \in Port : ~(contact[s][p] >= Fresh.start)
    BY <1>0, <1>1, <1>2 DEF Never
  <2>2. Cardinality(Fresh.ports) < Threshold
    BY <1>2, <1>3
  <2> QED
    BY <1>0, <1>2, <2>1, <2>2 DEF BurstOK
<1>4. CASE seen[s] = None
  <2>1. Roll(Fresh) = Fresh
    BY <1>1, <1>2 DEF Roll
  <2>2. \A p \in Port : contact[s][p] = Never /\ contact[s][p] < now
    BY <1>1, <1>4 DEF BurstInv, Never
  <2>3. Previous(Fresh, s) = {}
    BY <2>2 DEF Previous
  <2>4. Cardinality(Previous(Fresh, s)) < Threshold
    BY <1>3, <2>3
  <2> QED
    BY <1>0, <1>4, <2>1, <2>2, <2>4
<1>5. CASE seen[s] # None /\ now - seen[s].start > Window
  <2> DEFINE old == seen[s]
  <2>1. old \in ScanState /\ BurstOK(old, s)
    BY <1>5 DEF TypeOK, BurstInv
  <2>2. old.start \in 0 .. MaxTime /\ old.ports \subseteq Port /\ old.alerted \in BOOLEAN
    BY <2>1 DEF ScanState
  <2>3. Roll(old) = Fresh
    BY <1>5 DEF Roll
  <2>4. \A p \in Port : contact[s][p] < now
    BY <1>1, <1>5, <2>1, <2>2 DEF BurstOK, Never
  <2>5. ASSUME NEW p \in Previous(Fresh, s)
        PROVE  p \in old.ports /\ contact[s][p] <= old.start + Window
    <3>1. p \in Port /\ now - Window <= contact[s][p]
      BY <1>2 DEF Previous
    <3>2. contact[s][p] >= old.start
      BY <1>1, <1>5, <2>2, <3>1 DEF Never
    <3> QED
      BY <2>1, <3>1, <3>2 DEF BurstOK
  <2>6. CASE ~old.alerted
    <3>1. Cardinality(old.ports) < Threshold
      BY <2>1, <2>6 DEF BurstOK
    <3>2. Previous(Fresh, s) \subseteq old.ports /\ Previous(Fresh, s) \subseteq Port
      BY <2>5 DEF Previous
    <3>3. /\ Cardinality(Previous(Fresh, s)) <= Cardinality(old.ports)
          /\ Cardinality(Previous(Fresh, s)) \in Nat /\ Cardinality(old.ports) \in Nat
      BY <2>2, <3>2, PortSets
    <3>4. Cardinality(Previous(Fresh, s)) < Threshold
      BY <3>1, <3>3
    <3> QED
      BY <1>0, <1>5, <2>3, <2>4, <3>4
  <2>7. CASE old.alerted
    <3>1. alertAt[s] >= old.start
      BY <2>1, <2>7 DEF BurstOK
    <3>2. alertAt[s] # Never
      BY <1>1, <2>2, <3>1 DEF Never
    <3>3. ASSUME NEW p \in Previous(Fresh, s) PROVE alertAt[s] >= contact[s][p] - Window
      <4>1. contact[s][p] <= old.start + Window /\ contact[s][p] \in 0 .. MaxTime \cup {Never}
        BY <1>1, <2>5 DEF Previous
      <4> QED
        BY <1>1, <2>2, <3>1, <4>1 DEF Never
    <3> QED
      BY <1>0, <1>5, <2>3, <2>4, <3>2, <3>3
  <2> QED
    BY <2>6, <2>7
<1>6. CASE seen[s] # None /\ ~(now - seen[s].start > Window)
  BY <1>6 DEF Roll, BurstInv
<1> QED
  BY <1>4, <1>5, <1>6

LEMMA BurstStep == TypeOK /\ WindowInv /\ BurstInv /\ [Next]_vars => BurstInv'
<1> SUFFICES ASSUME TypeOK, WindowInv, BurstInv, [Next]_vars PROVE BurstInv'
  OBVIOUS
<1> USE PortScanAssumption, NoneIsNoScanState
<1>1. ASSUME NEW s \in Src, NEW p \in Port, OnFlow(s, p) PROVE BurstInv'
  <2> DEFINE rolled == Roll(IF seen[s] = None THEN Fresh ELSE seen[s])
             st     == Contacted(rolled, p)
             new    == seen'[s]
  <2>1. rolled \in ScanState /\ now - rolled.start <= Window /\ WindowOK(rolled, s)
    BY RolledWindow
  <2>2. BurstOK(rolled, s)
    BY RolledBurst
  <2>3. /\ st \in ScanState /\ st.start = rolled.start /\ st.ports = rolled.ports \cup {p}
        /\ st.alerted = rolled.alerted /\ rolled.start \in 0 .. MaxTime
    BY <2>1 DEF Contacted, ScanState
  <2>4. /\ seen' = [seen EXCEPT ![s] = IF Suspicious(st) THEN [st EXCEPT !.alerted = TRUE] ELSE st]
        /\ alertAt' = IF Suspicious(st) THEN [alertAt EXCEPT ![s] = now] ELSE alertAt
        /\ contact' = [contact EXCEPT ![s][p] = now]
    BY <1>1 DEF OnFlow
  <2>5. /\ new \in ScanState /\ new.start = st.start /\ new.ports = st.ports
        /\ new.alerted = (Suspicious(st) \/ st.alerted)
    BY <2>3, <2>4 DEF TypeOK, ScanState
  <2>6. /\ now \in 0 .. MaxTime /\ alertAt[s] \in 0 .. MaxTime \cup {Never}
        /\ contact[s] \in [Port -> 0 .. MaxTime \cup {Never}]
        /\ alertAt'[s] = IF Suspicious(st) THEN now ELSE alertAt[s]
        /\ contact'[s] = [contact[s] EXCEPT ![p] = now]
        /\ \A r \in Src \ {s} : /\ seen'[r] = seen[r] /\ alertAt'[r] = alertAt[r]
                                /\ contact'[r] = contact[r]
    BY <2>4 DEF TypeOK
  <2> HIDE DEF rolled, st, new
  <2>7. rolled.start <= now /\ now <= rolled.start + Window
    BY <2>1, <2>3, <2>6 DEF WindowOK
  <2>8. ASSUME NEW q \in Port, contact'[s][q] >= new.start
        PROVE  q \in new.ports /\ contact'[s][q] <= new.start + Window
    BY <2>2, <2>3, <2>5, <2>6, <2>7, <2>8 DEF BurstOK
  <2>9. new.alerted => alertAt'[s] >= new.start
    BY <2>2, <2>3, <2>5, <2>6, <2>7 DEF BurstOK
  <2>10. ~new.alerted => Cardinality(new.ports) < Threshold
    <3>1. Cardinality(st.ports) \in Nat
      BY <2>3, PortSets DEF ScanState
    <3>2. ~new.alerted => ~(Cardinality(st.ports) >= Threshold)
      BY <2>5 DEF Suspicious
    <3> QED
      BY <2>5, <3>1, <3>2
  <2>11. /\ Previous(seen[s], s)' \subseteq Previous(rolled, s)
         /\ \A q \in Previous(seen[s], s)' : contact'[s][q] = contact[s][q]
    <3>1. ASSUME NEW q \in Port, contact'[s][q] # Never, seen'[s].start - Window <= contact'[s][q],
                 contact'[s][q] < seen'[s].start
          PROVE  q \in Previous(rolled, s) /\ contact'[s][q] = contact[s][q]
      <4>1. seen'[s].start = rolled.start
        BY <2>3, <2>5 DEF new
      <4>2. q # p
        <5>1. q = p => contact'[s][q] = now
          BY <2>6
        <5> QED
          BY <2>3, <2>6, <2>7, <3>1, <4>1, <5>1
      <4>3. contact'[s][q] = contact[s][q]
        BY <2>6, <4>2
      <4> QED
        BY <3>1, <4>1, <4>3 DEF Previous
    <3> QED
      BY <3>1 DEF Previous
  <2>12. \/ Cardinality(Previous(seen[s], s)') < Threshold
         \/ /\ alertAt'[s] # Never
            /\ \A q \in Previous(seen[s], s)' : alertAt'[s] >= contact'[s][q] - Window
    <3>1. CASE Cardinality(Previous(rolled, s)) < Threshold
      <4>1. Previous(rolled, s) \subseteq Port /\ Previous(seen[s], s)' \subseteq Port
        BY DEF Previous
      <4>2. /\ Cardinality(Previous(seen[s], s)') <= Cardinality(Previous(rolled, s))
            /\ Cardinality(Previous(rolled, s)) \in Nat /\ Cardinality(Previous(seen[s], s)') \in Nat
        BY <2>11, <4>1, PortSets
      <4> QED
        BY <3>1, <4>2
    <3>2. CASE Suspicious(st)
      <4>1. alertAt'[s] = now /\ now # Never
        BY <2>6, <3>2 DEF Never
      <4>2. ASSUME NEW q \in Previous(seen[s], s)' PROVE now >= contact'[s][q] - Window
        <5>1. q \in Port /\ contact[s][q] < rolled.start /\ contact'[s][q] = contact[s][q]
          BY <2>11 DEF Previous
        <5> QED
          BY <2>3, <2>6, <2>7, <5>1 DEF Never
      <4> QED
        BY <4>1, <4>2
    <3>3. CASE ~(Cardinality(Previous(rolled, s)) < Threshold) /\ ~Suspicious(st)
      BY <2>2, <2>6, <2>11, <3>3 DEF BurstOK
    <3> QED
      BY <3>1, <3>2, <3>3
  <2>13. BurstOK(seen[s], s)'
    BY <2>8, <2>9, <2>10, <2>12 DEF BurstOK, new
  <2>14. seen'[s] # None
    BY <2>5 DEF new
  <2>15. ASSUME NEW r \in Src \ {s}
         PROVE  /\ seen'[r] # None => BurstOK(seen[r], r)'
                /\ seen'[r] = None => \A q \in Port : contact'[r][q] = Never
    <3>1. seen'[r] = seen[r] /\ alertAt'[r] = alertAt[r] /\ contact'[r] = contact[r]
      BY <2>6
    <3>2. Previous(seen[r], r)' = Previous(seen[r], r)
      BY <3>1 DEF Previous
    <3>3. seen[r] # None => BurstOK(seen[r], r)
      BY DEF BurstInv
    <3>4. seen'[r] # None => BurstOK(seen[r], r)'
      BY <3>1, <3>2, <3>3 DEF BurstOK
    <3> QED
      BY <3>1, <3>4 DEF BurstInv
  <2> QED
    BY <2>13, <2>14, <2>15 DEF BurstInv
<1>2. CASE ClockTicks \/ UNCHANGED vars
  BY <1>2 DEF ClockTicks, vars, BurstInv, BurstOK, Previous
<1> QED
  BY <1>1, <1>2 DEF Next

\* A window and what the one before it left behind hold everything recent.
LEMMA BurstsSuffice ==
  TypeOK /\ WindowInv /\ BurstInv => BigBurstsAreFlagged
<1> SUFFICES ASSUME TypeOK, WindowInv, BurstInv, NEW s \in Src,
                    Cardinality(Recent(s)) >= 2 * Threshold - 1
             PROVE  alertAt[s] # Never /\ alertAt[s] >= now - 2 * Window
  BY DEF BigBurstsAreFlagged
<1> USE PortScanAssumption
<1> DEFINE st == seen[s]
<1>1. /\ contact[s] \in [Port -> 0 .. MaxTime \cup {Never}] /\ now \in 0 .. MaxTime
      /\ alertAt[s] \in 0 .. MaxTime \cup {Never}
  BY DEF TypeOK
<1>2. Recent(s) \subseteq Port
  BY DEF Recent
<1>3. Recent(s) # {}
  BY FS_EmptySet
<1>4. st # None /\ st \in ScanState /\ WindowOK(st, s) /\ BurstOK(st, s)
  <2>1. PICK p \in Port : contact[s][p] # Never
    BY <1>3 DEF Recent
  <2> QED
    BY <2>1 DEF TypeOK, WindowInv, BurstInv
<1>5. st.start \in 0 .. MaxTime /\ st.ports \subseteq Port /\ st.start <= now
  BY <1>4 DEF ScanState, WindowOK
<1> HIDE DEF st
<1>6. Recent(s) \subseteq st.ports \cup Previous(st, s)
  BY <1>1, <1>4, <1>5 DEF Recent, Previous, BurstOK, Never
<1>7. CASE Cardinality(st.ports) >= Threshold
  <2>1. Cardinality(st.ports) \in Nat
    BY <1>5, PortSets
  <2>2. alertAt[s] >= st.start
    BY <1>4, <1>7, <2>1 DEF BurstOK
  <2>3. PICK p \in Port : contact[s][p] # Never /\ contact[s][p] >= now - Window
    BY <1>3 DEF Recent
  <2>4. contact[s][p] <= st.start + Window
    BY <1>1, <1>4, <1>5, <2>3 DEF BurstOK, Never
  <2> QED
    BY <1>1, <1>5, <2>2, <2>3, <2>4 DEF Never
<1>8. CASE ~(Cardinality(st.ports) >= Threshold)
  <2> DEFINE R == Recent(s)
             P == Previous(st, s)
  <2>1. /\ R \cap st.ports \subseteq Port /\ R \cap P \subseteq Port /\ P \subseteq Port
        /\ R = (R \cap st.ports) \cup (R \cap P)
    BY <1>2, <1>5, <1>6 DEF Previous
  <2> HIDE DEF R, P
  <2>2. /\ IsFiniteSet(R \cap st.ports) /\ IsFiniteSet(R \cap P)
        /\ Cardinality(R \cap st.ports) \in Nat /\ Cardinality(R \cap P) \in Nat
        /\ Cardinality(st.ports) \in Nat /\ Cardinality(P) \in Nat
    BY <1>5, <2>1, PortSets
  <2>3. Cardinality(R \cap st.ports) <= Cardinality(st.ports)
    BY <1>5, <2>1, PortSets
  <2>4. Cardinality(R \cap P) <= Cardinality(P)
    BY <2>1, PortSets
  <2>5. Cardinality((R \cap st.ports) \cap (R \cap P)) \in Nat
    <3>1. (R \cap st.ports) \cap (R \cap P) \subseteq Port
      BY <2>1
    <3> QED
      BY <3>1, PortSets
  <2>6. Cardinality(R) = Cardinality(R \cap st.ports) + Cardinality(R \cap P)
                           - Cardinality((R \cap st.ports) \cap (R \cap P))
    BY <2>1, <2>2, FS_Union
  <2>7. Cardinality(R) >= 2 * Threshold - 1
    BY DEF R
  <2>8. Cardinality(R \cap P) >= Threshold
    BY <1>8, <2>2, <2>3, <2>5, <2>6, <2>7
  <2>9. alertAt[s] # Never /\ \A p \in P : alertAt[s] >= contact[s][p] - Window
    BY <1>4, <2>2, <2>4, <2>8 DEF BurstOK, P
  <2>10. R \cap P # {}
    BY <2>8, FS_EmptySet
  <2>11. PICK p \in Port : p \in P /\ contact[s][p] # Never /\ contact[s][p] >= now - Window
    BY <2>10 DEF R, Recent
  <2> QED
    BY <1>1, <2>9, <2>11 DEF Never
<1> QED
  BY <1>7, <1>8

\* A source that contacts twice the threshold of ports, less one, within
\* window_secs has been reported, wherever the boundary between two windows falls.
THEOREM BigBurstsAreReported == Spec => []BigBurstsAreFlagged
<1>1. Init => BurstInv
  BY DEF Init, BurstInv
<1>2. Spec => []BurstInv
  BY <1>1, BurstStep, WindowInvariant, PTL DEF Spec
<1> QED
  BY <1>2, BurstsSuffice, WindowInvariant, PTL
-----------------------------------------------------------------------------
(* Volume spikes: arithmetic                                               *)

\* A product keeps the order of its factors.
LEMMA Scaling ==
  ASSUME NEW x \in Int, NEW y \in Int, NEW c \in Nat, x <= y
  PROVE  c * x <= c * y
<1>1. (y - x) \in Nat
  OBVIOUS
<1>2. c * (y - x) \in Nat
  BY <1>1
<1>3. c * (y - x) = c * y - c * x
  OBVIOUS
<1>4. c * x \in Int /\ c * y \in Int
  OBVIOUS
<1> QED
  BY <1>2, <1>3, <1>4

LEMMA StrictScaling ==
  ASSUME NEW x \in Int, NEW y \in Int, NEW c \in Nat \ {0}, c * x < c * y
  PROVE  x < y
<1>1. CASE y <= x
  <2>1. c * y <= c * x
    BY <1>1, Scaling
  <2>2. c * x \in Int /\ c * y \in Int
    OBVIOUS
  <2> QED
    BY <2>1, <2>2
<1> QED
  BY <1>1

\* What lies below two values lies below their weighted mean, and dually.
LEMMA WeightedMean ==
  ASSUME NEW x \in Int, NEW y \in Int, NEW z \in Int
  PROVE  /\ z <= x /\ z <= y => AlphaDen * z <= AlphaNum * x + (AlphaDen - AlphaNum) * y
         /\ x <= z /\ y <= z => AlphaNum * x + (AlphaDen - AlphaNum) * y <= AlphaDen * z
<1> DEFINE B == AlphaDen - AlphaNum
<1>1. AlphaNum \in Nat /\ AlphaDen \in Nat /\ B \in Nat /\ AlphaDen = AlphaNum + B
  BY VolumeSpikeAssumption
<1> HIDE DEF B
<1>2. AlphaDen * z = AlphaNum * z + B * z
  BY <1>1
<1>3. /\ AlphaNum * x \in Int /\ AlphaNum * z \in Int /\ B * y \in Int /\ B * z \in Int
  BY <1>1
<1>4. ASSUME z <= x, z <= y PROVE AlphaDen * z <= AlphaNum * x + B * y
  <2>1. AlphaNum * z <= AlphaNum * x /\ B * z <= B * y
    BY <1>1, <1>4, Scaling
  <2> QED
    BY <1>2, <1>3, <2>1
<1>5. ASSUME x <= z, y <= z PROVE AlphaNum * x + B * y <= AlphaDen * z
  <2>1. AlphaNum * x <= AlphaNum * z /\ B * y <= B * z
    BY <1>1, <1>5, Scaling
  <2> QED
    BY <1>2, <1>3, <2>1
<1> QED
  BY <1>4, <1>5 DEF B

-----------------------------------------------------------------------------
(* Volume spikes: what the average says of the volumes                     *)

\* The average of a non-empty sequence of volumes lies between two of them, is
\* positive if one of them is, and holds at least the last one's share.
AverageOf(avg, q) ==
    IF q = << >> THEN avg = NoAverage
    ELSE /\ avg \in Average
         /\ \E i \in 1 .. Len(q) : avg.den * q[i] <= avg.num
         /\ \E i \in 1 .. Len(q) : avg.num <= avg.den * q[i]
         /\ \A i \in 1 .. Len(q) : q[i] > 0 => avg.num > 0
         /\ AlphaNum * (avg.den * q[Len(q)]) <= AlphaDen * avg.num

SpikeInv ==
    /\ past \in [Sender -> Seq(Volumes)]
    /\ ewma \in [Sender -> Average \cup {NoAverage}]
    /\ spiked \in Sender \cup {NoAverage}
    /\ \A s \in Sender : AverageOf(ewma[s], past[s])
    /\ SpikesAreReal
    /\ NewLevelIsReportedOnce

\* A volume that is appended leaves those before it where they are.
LEMMA AppendVolume ==
  ASSUME NEW q \in Seq(Volumes), NEW b \in Volumes
  PROVE  /\ Len(q) \in Nat /\ Append(q, b) \in Seq(Volumes) /\ Append(q, b) # << >>
         /\ Len(Append(q, b)) = Len(q) + 1
         /\ Append(q, b)[Len(q) + 1] = b
         /\ \A i \in 1 .. Len(q) : Append(q, b)[i] = q[i] /\ q[i] \in Nat
         /\ b \in Nat
<1>1. Len(q) \in Nat /\ \A i \in 1 .. Len(q) : q[i] \in Volumes
  BY LenProperties, ElementOfSeq
<1>2. Volumes \subseteq Nat
  BY VolumeSpikeAssumption
<1>3. /\ Append(q, b) \in Seq(Volumes) /\ Append(q, b) # << >>
      /\ Len(Append(q, b)) = Len(q) + 1
      /\ Append(q, b)[Len(q) + 1] = b
      /\ \A i \in 1 .. Len(q) : Append(q, b)[i] = q[i]
  BY AppendProperties
<1> QED
  BY <1>1, <1>2, <1>3

\* One flow moves the average as the smoothing says.
LEMMA SmoothedIsAverage ==
  ASSUME NEW q \in Seq(Volumes), NEW b \in Volumes, NEW avg, AverageOf(avg, q)
  PROVE  AverageOf(Smoothed(avg, b), Append(q, b))
<1> DEFINE r == Append(q, b)
           L == Len(q)
           new == Smoothed(avg, b)
<1>1. /\ L \in Nat /\ r \in Seq(Volumes) /\ r # << >> /\ Len(r) = L + 1 /\ r[L + 1] = b
      /\ \A i \in 1 .. L : r[i] = q[i] /\ q[i] \in Nat
      /\ b \in Nat
  BY AppendVolume
<1>2. AlphaNum \in Nat \ {0} /\ AlphaDen \in Nat \ {0} /\ AlphaNum <= AlphaDen
  BY VolumeSpikeAssumption
<1>3. L + 1 \in 1 .. Len(r) /\ \A i \in 1 .. L : i \in 1 .. Len(r)
  BY <1>1
<1> HIDE DEF r
<1>4. CASE q = << >>
  <2>1. L = 0
    BY <1>4, EmptySeq
  <2>2. avg = NoAverage
    BY <1>4 DEF AverageOf
  <2>3. new = [num |-> b, den |-> 1]
    BY <2>2 DEF Smoothed, Seed
  <2>4. new \in Average /\ new.num = b /\ new.den = 1
    BY <1>1, <2>3 DEF Average
  <2> HIDE DEF new
  <2>5. Len(r) = 1 /\ r[1] = b
    BY <1>1, <2>1
  <2>6. AlphaNum * (1 * b) <= AlphaDen * b
    <3>1. b * AlphaNum <= b * AlphaDen
      BY <1>1, <1>2, Scaling
    <3>2. b * AlphaNum = AlphaNum * (1 * b) /\ b * AlphaDen = AlphaDen * b
      BY <1>1, <1>2
    <3> QED
      BY <3>1, <3>2
  <2>7. 1 * b = b /\ 1 \in 1 .. Len(r) /\ \A i \in 1 .. Len(r) : i = 1
    BY <1>1, <2>5
  <2> QED
    BY <1>1, <2>4, <2>5, <2>6, <2>7 DEF AverageOf, r, new
<1>5. CASE q # << >>
  <2> DEFINE n == avg.num
             d == avg.den
  <2>1. n \in Nat /\ d \in Nat \ {0} /\ avg \in Average /\ avg # NoAverage
    BY <1>5, NoAverageIsNone DEF AverageOf, Average
  <2>2. new = [num |-> AlphaNum * b * d + (AlphaDen - AlphaNum) * n, den |-> AlphaDen * d]
    BY <2>1 DEF Smoothed
  <2>3. /\ new.num = AlphaNum * b * d + (AlphaDen - AlphaNum) * n /\ new.den = AlphaDen * d
        /\ new = [num |-> new.num, den |-> new.den]
    BY <2>2
  <2> HIDE DEF new, n, d
  <2>4. AlphaNum * b * d = AlphaNum * (d * b) /\ d * b \in Nat
    BY <1>1, <1>2, <2>1
  <2>5. \A v \in Nat : new.den * v = AlphaDen * (d * v) /\ d * v \in Nat
    BY <1>2, <2>1, <2>3
  <2>6. new.num \in Nat /\ new.den \in Nat \ {0}
    <3>1. AlphaNum * (d * b) \in Nat /\ AlphaDen - AlphaNum \in Nat
      BY <1>2, <2>4
    <3>2. (AlphaDen - AlphaNum) * n \in Nat
      BY <2>1, <3>1
    <3>3. AlphaDen * d \in Nat \ {0}
      BY <1>2, <2>1
    <3> QED
      BY <2>3, <2>4, <3>1, <3>2, <3>3
  <2>7. new \in Average
    BY <2>3, <2>6 DEF Average
  <2>8. ASSUME NEW v \in Nat
        PROVE  /\ v <= b /\ d * v <= n => new.den * v <= new.num
               /\ b <= v /\ n <= d * v => new.num <= new.den * v
    <3>1. v <= b => d * v <= d * b
      BY <1>1, <2>1, Scaling
    <3>2. b <= v => d * b <= d * v
      BY <1>1, <2>1, Scaling
    <3>3. /\ d * v <= d * b /\ d * v <= n =>
               AlphaDen * (d * v) <= AlphaNum * (d * b) + (AlphaDen - AlphaNum) * n
          /\ d * b <= d * v /\ n <= d * v =>
               AlphaNum * (d * b) + (AlphaDen - AlphaNum) * n <= AlphaDen * (d * v)
      <4> DEFINE x == d * b
                 z == d * v
      <4>1. x \in Int /\ z \in Int /\ n \in Int
        BY <2>1, <2>4, <2>5
      <4> HIDE DEF x, z
      <4>2. /\ z <= x /\ z <= n => AlphaDen * z <= AlphaNum * x + (AlphaDen - AlphaNum) * n
            /\ x <= z /\ n <= z => AlphaNum * x + (AlphaDen - AlphaNum) * n <= AlphaDen * z
        BY <4>1, WeightedMean
      <4> QED
        BY <4>2 DEF x, z
    <3> QED
      BY <2>3, <2>4, <2>5, <3>1, <3>2, <3>3
  <2>13. ASSUME NEW u \in Nat, NEW v \in Nat, u <= v
         PROVE  (d * v <= n => d * u <= n) /\ (n <= d * u => n <= d * v)
    <3> DEFINE x == d * u
               z == d * v
    <3>1. x \in Int /\ z \in Int /\ n \in Int
      BY <2>1, <2>5
    <3>2. x <= z
      BY <2>1, <2>13, Scaling
    <3> HIDE DEF x, z
    <3>3. (z <= n => x <= n) /\ (n <= x => n <= z)
      BY <3>1, <3>2
    <3> QED
      BY <3>3 DEF x, z
  <2>9. \E i \in 1 .. Len(r) : new.den * r[i] <= new.num
    <3>1. PICK i \in 1 .. L : d * q[i] <= n
      BY <1>5 DEF AverageOf, n, d
    <3>2. q[i] \in Nat /\ r[i] = q[i]
      BY <1>1
    <3>3. CASE q[i] <= b
      BY <1>3, <2>8, <3>1, <3>2, <3>3
    <3>4. CASE b <= q[i]
      <4>2. d * b <= n
        BY <1>1, <2>13, <3>1, <3>2, <3>4
      <4>3. new.den * b <= new.num
        BY <1>1, <2>8, <4>2
      <4> QED
        BY <1>1, <1>3, <4>3
    <3> QED
      BY <1>1, <3>2, <3>3, <3>4
  <2>10. \E i \in 1 .. Len(r) : new.num <= new.den * r[i]
    <3>1. PICK i \in 1 .. L : n <= d * q[i]
      BY <1>5 DEF AverageOf, n, d
    <3>2. q[i] \in Nat /\ r[i] = q[i]
      BY <1>1
    <3>3. CASE b <= q[i]
      BY <1>3, <2>8, <3>1, <3>2, <3>3
    <3>4. CASE q[i] <= b
      <4>2. n <= d * b
        BY <1>1, <2>13, <3>1, <3>2, <3>4
      <4>3. new.num <= new.den * b
        BY <1>1, <2>8, <4>2
      <4> QED
        BY <1>1, <1>3, <4>3
    <3> QED
      BY <1>1, <3>2, <3>3, <3>4
  <2>11. ASSUME NEW i \in 1 .. Len(r), r[i] > 0 PROVE new.num > 0
    <3>1. AlphaNum * (d * b) \in Nat /\ (AlphaDen - AlphaNum) * n \in Nat
      <4>1. AlphaDen - AlphaNum \in Nat
        BY <1>2
      <4> QED
        BY <1>2, <2>1, <2>4, <4>1
    <3>2. CASE i \in 1 .. L
      <4>1. n > 0
        BY <1>1, <1>5, <2>11, <3>2 DEF AverageOf, n
      <4>2. AlphaDen - AlphaNum \in Nat \ {0}
        BY VolumeSpikeAssumption
      <4>3. (AlphaDen - AlphaNum) * n > 0
        BY <2>1, <4>1, <4>2
      <4> QED
        BY <2>3, <2>4, <3>1, <4>3
    <3>3. CASE i = L + 1
      <4>1. b > 0
        BY <1>1, <2>11, <3>3
      <4>2. d * b > 0
        BY <1>1, <2>1, <4>1
      <4>3. AlphaNum * (d * b) > 0
        BY <1>2, <2>4, <4>2
      <4> QED
        BY <2>3, <2>4, <3>1, <4>3
    <3> QED
      BY <1>1, <3>2, <3>3
  <2>12. AlphaNum * (new.den * b) <= AlphaDen * new.num
    <3>1. AlphaNum * (d * b) <= new.num
      <4>1. AlphaDen - AlphaNum \in Nat
        BY <1>2
      <4> DEFINE x == AlphaNum * (d * b)
                 y == (AlphaDen - AlphaNum) * n
      <4>2. new.num = x + y
        BY <2>3, <2>4
      <4>3. x \in Nat
        BY <1>2, <2>4
      <4>4. y \in Nat
        <5> HIDE DEF x
        <5> QED
          BY <2>1, <4>1
      <4> HIDE DEF x, y
      <4>5. x <= new.num
        BY <4>2, <4>3, <4>4
      <4> QED
        BY <4>5 DEF x
    <3>2. AlphaDen * (AlphaNum * (d * b)) <= AlphaDen * new.num
      <4> DEFINE x == AlphaNum * (d * b)
      <4>1. x \in Nat
        BY <1>2, <2>4
      <4>2. x <= new.num /\ new.num \in Nat /\ AlphaDen \in Nat
        BY <1>2, <2>6, <3>1
      <4> HIDE DEF x
      <4>3. AlphaDen * x <= AlphaDen * new.num
        BY <4>1, <4>2, Scaling
      <4> QED
        BY <4>3 DEF x
    <3>3. AlphaNum * (new.den * b) = AlphaDen * (AlphaNum * (d * b))
      <4> DEFINE x == d * b
      <4>1. new.den * b = AlphaDen * x /\ x \in Int
        BY <1>1, <2>4, <2>5
      <4> HIDE DEF x
      <4>2. AlphaNum * (AlphaDen * x) = AlphaDen * (AlphaNum * x)
        BY <1>2, <4>1
      <4> QED
        BY <4>1, <4>2 DEF x
    <3> QED
      BY <3>2, <3>3
  <2> QED
    BY <1>1, <2>7, <2>9, <2>10, <2>11, <2>12 DEF AverageOf, r, new
<1> QED
  BY <1>4, <1>5

\* A flow that is reported exceeds the factor times some volume before it, and
\* the last one; one that exceeds the factor times all of them is reported.
LEMMA SpikeMeans ==
  ASSUME NEW q \in Seq(Volumes), NEW b \in Volumes, NEW avg, AverageOf(avg, q)
  PROVE  /\ Spike(avg, b) => /\ q # << >> /\ b > Floor /\ b > q[Len(q)]
                             /\ \E i \in 1 .. Len(q) : b > Factor * q[i]
         /\ /\ b > Floor
            /\ \A i \in 1 .. Len(q) : b > Factor * q[i]
            /\ \E i \in 1 .. Len(q) : q[i] > 0
            => Spike(avg, b)
<1> DEFINE n == avg.num
           d == avg.den
<1>1. Len(q) \in Nat /\ b \in Nat /\ \A i \in 1 .. Len(q) : q[i] \in Nat
  BY AppendVolume
<1>2. /\ AlphaNum \in Nat \ {0} /\ AlphaDen \in Nat \ {0} /\ Factor \in Nat /\ Floor \in Nat
      /\ Factor * AlphaNum >= AlphaDen
  BY VolumeSpikeAssumption
<1>3. CASE q = << >>
  <2>1. avg = NoAverage /\ Len(q) = 0
    BY <1>3, EmptySeq DEF AverageOf
  <2> QED
    BY <2>1 DEF Spike
<1>4. CASE q # << >>
  <2>1. /\ n \in Nat /\ d \in Nat \ {0} /\ avg # NoAverage
        /\ AlphaNum * (d * q[Len(q)]) <= AlphaDen * n
        /\ \A i \in 1 .. Len(q) : q[i] > 0 => n > 0
    BY <1>4, NoAverageIsNone DEF AverageOf, Average
  <2>2. /\ \E i \in 1 .. Len(q) : d * q[i] <= n
        /\ \E i \in 1 .. Len(q) : n <= d * q[i]
    BY <1>4 DEF AverageOf
  <2>3. Spike(avg, b) <=> b > Floor /\ n > 0 /\ b * d > Factor * n
    BY <2>1 DEF Spike
  <2>4. Len(q) \in 1 .. Len(q)
    BY <1>1, <1>4, EmptySeq
  <2> HIDE DEF n, d
  <2>5. b * d = d * b /\ d * b \in Nat /\ Factor * n \in Nat
    BY <1>1, <1>2, <2>1
  <2>6. \A v \in Nat : Factor * (d * v) = d * (Factor * v) /\ d * v \in Nat /\ Factor * v \in Nat
    BY <1>2, <2>1
  <2>7. ASSUME NEW v \in Nat, d * v <= n, b * d > Factor * n PROVE b > Factor * v
    <3>1. Factor * (d * v) <= Factor * n
      BY <1>2, <2>1, <2>6, <2>7, Scaling
    <3>2. d * (Factor * v) <= Factor * n
      BY <2>6, <3>1
    <3>3. d * (Factor * v) \in Nat
      BY <2>1, <2>6
    <3>4. d * (Factor * v) < d * b
      BY <2>5, <2>7, <3>2, <3>3
    <3> DEFINE w == Factor * v
    <3>5. w \in Nat /\ d * w < d * b
      BY <2>6, <3>4
    <3> HIDE DEF w
    <3>6. w < b
      BY <1>1, <2>1, <3>5, StrictScaling
    <3> QED
      BY <1>1, <3>5, <3>6 DEF w
  <2>8. ASSUME NEW v \in Nat, n <= d * v, b > Factor * v PROVE b * d > Factor * n
    <3> DEFINE w == Factor * v
               x == d * v
    <3>1. w \in Nat /\ w + 1 <= b /\ x \in Nat /\ n <= x /\ Factor * x = d * w
      BY <1>1, <2>6, <2>8
    <3> HIDE DEF w, x
    <3>2. Factor * n <= Factor * x
      BY <1>2, <2>1, <3>1, Scaling
    <3>3. d * (w + 1) <= d * b
      BY <1>1, <2>1, <3>1, Scaling
    <3>4. d * (w + 1) = d * w + d /\ d * w \in Nat
      BY <2>1, <3>1
    <3> QED
      BY <2>1, <2>5, <3>1, <3>2, <3>3, <3>4
  <2>9. ASSUME NEW v \in Nat, AlphaNum * (d * v) <= AlphaDen * n, b * d > Factor * n PROVE b > v
    <3> DEFINE x == d * v
               y == d * b
               z == Factor * n
    <3>1. x \in Nat /\ y \in Nat /\ z \in Nat /\ y > z /\ AlphaNum * x <= AlphaDen * n
      BY <2>5, <2>6, <2>9
    <3>2. AlphaDen * n <= (Factor * AlphaNum) * n
      <4>1. Factor * AlphaNum \in Nat /\ AlphaDen <= Factor * AlphaNum
        BY <1>2
      <4>2. n * AlphaDen <= n * (Factor * AlphaNum)
        BY <1>2, <2>1, <4>1, Scaling
      <4> QED
        BY <1>2, <2>1, <4>1, <4>2
    <3>3. (Factor * AlphaNum) * n = AlphaNum * z
      BY <1>2, <2>1
    <3>4. AlphaNum * x <= AlphaNum * z
      <4>1. AlphaDen * n \in Nat /\ AlphaNum * z \in Nat
        BY <1>2, <2>1, <2>5
      <4> HIDE DEF x, z
      <4>2. AlphaNum * x \in Nat
        BY <1>2, <3>1
      <4> QED
        BY <3>1, <3>2, <3>3, <4>1, <4>2
    <3>5. AlphaNum * z < AlphaNum * y
      <4> HIDE DEF y, z
      <4>1. AlphaNum * (z + 1) <= AlphaNum * y
        BY <1>2, <3>1, Scaling
      <4>2. AlphaNum * (z + 1) = AlphaNum * z + AlphaNum /\ AlphaNum * z \in Nat /\ AlphaNum * y \in Nat
        BY <1>2, <3>1
      <4> QED
        BY <1>2, <4>1, <4>2
    <3>6. AlphaNum * x < AlphaNum * y
      <4> HIDE DEF x, y, z
      <4>1. AlphaNum * x \in Nat /\ AlphaNum * y \in Nat /\ AlphaNum * z \in Nat
        BY <1>2, <3>1
      <4> QED
        BY <3>4, <3>5, <4>1
    <3>7. d * v < d * b
      <4> HIDE DEF x, y
      <4>1. x < y
        BY <1>2, <3>1, <3>6, StrictScaling
      <4> QED
        BY <4>1 DEF x, y
    <3> QED
      BY <1>1, <2>1, <3>7, StrictScaling
  <2>10. ASSUME Spike(avg, b)
         PROVE  /\ b > Floor /\ b > q[Len(q)]
                /\ \E i \in 1 .. Len(q) : b > Factor * q[i]
    <3>1. b > Floor /\ b * d > Factor * n
      BY <2>3, <2>10
    <3>2. b > q[Len(q)]
      <4>1. q[Len(q)] \in Nat
        BY <1>1, <2>4
      <4> QED
        BY <2>1, <2>9, <3>1, <4>1
    <3>3. PICK i \in 1 .. Len(q) : d * q[i] <= n
      BY <2>2
    <3>4. q[i] \in Nat
      BY <1>1
    <3>5. b > Factor * q[i]
      BY <2>7, <3>1, <3>3, <3>4
    <3> QED
      BY <3>1, <3>2, <3>5
  <2>11. ASSUME b > Floor,
                \A i \in 1 .. Len(q) : b > Factor * q[i],
                \E i \in 1 .. Len(q) : q[i] > 0
         PROVE  Spike(avg, b)
    <3>1. n > 0
      BY <2>1, <2>11
    <3>2. PICK i \in 1 .. Len(q) : n <= d * q[i]
      BY <2>2
    <3>3. q[i] \in Nat /\ b > Factor * q[i]
      BY <1>1, <2>11
    <3>4. b * d > Factor * n
      BY <2>8, <3>2, <3>3
    <3> QED
      BY <2>3, <2>11, <3>1, <3>4
  <2> QED
    BY <1>4, <2>10, <2>11
<1> QED
  BY <1>3, <1>4

-----------------------------------------------------------------------------
(* Volume spikes: theorems                                                 *)

LEMMA SpikeInitially == SpikeInit => SpikeInv
<1> SUFFICES ASSUME SpikeInit PROVE SpikeInv
  OBVIOUS
<1>1. << >> \in Seq(Volumes)
  BY EmptySeq
<1> QED
  BY <1>1 DEF SpikeInit, SpikeInv, AverageOf, SpikesAreReal, NewLevelIsReportedOnce

\* A flow decides on the average of the flows before it.
LEMMA SpikeFlow ==
  ASSUME SpikeInv, NEW s \in Sender, NEW b \in Volumes, SpikeOnFlow(s, b)
  PROVE  /\ past'[s] = Append(past[s], b) /\ ewma'[s] = Smoothed(ewma[s], b)
         /\ \A r \in Sender \ {s} : past'[r] = past[r] /\ ewma'[r] = ewma[r]
         /\ spiked' = IF Spike(ewma[s], b) THEN s ELSE NoAverage
         /\ past[s] \in Seq(Volumes) /\ AverageOf(ewma[s], past[s])
  BY DEF SpikeInv, SpikeOnFlow

LEMMA SpikeStep == SpikeInv /\ [SpikeNext]_spikeVars => SpikeInv'
<1> SUFFICES ASSUME SpikeInv, [SpikeNext]_spikeVars PROVE SpikeInv'
  OBVIOUS
<1>1. ASSUME NEW s \in Sender, NEW b \in Volumes, SpikeOnFlow(s, b) PROVE SpikeInv'
  <2> DEFINE q == past[s]
             r == Append(q, b)
  <2>1. /\ past'[s] = r /\ ewma'[s] = Smoothed(ewma[s], b)
        /\ \A t \in Sender \ {s} : past'[t] = past[t] /\ ewma'[t] = ewma[t]
        /\ spiked' = IF Spike(ewma[s], b) THEN s ELSE NoAverage
        /\ q \in Seq(Volumes) /\ AverageOf(ewma[s], q)
    BY <1>1, SpikeFlow
  <2>2. /\ Len(q) \in Nat /\ r \in Seq(Volumes) /\ Len(r) = Len(q) + 1 /\ r[Len(q) + 1] = b
        /\ \A i \in 1 .. Len(q) : r[i] = q[i]
    BY <2>1, AppendVolume
  <2>3. AverageOf(ewma'[s], past'[s])
    BY <2>1, SmoothedIsAverage
  <2>4. past' \in [Sender -> Seq(Volumes)]
    BY <1>1, <2>2 DEF SpikeInv, SpikeOnFlow
  <2>5. ewma' \in [Sender -> Average \cup {NoAverage}]
    <3>1. ewma'[s] \in Average \cup {NoAverage}
      BY <2>3 DEF AverageOf
    <3> QED
      BY <1>1, <2>1, <3>1 DEF SpikeInv, SpikeOnFlow
  <2>6. spiked' \in Sender \cup {NoAverage}
    BY <2>1
  <2>7. \A t \in Sender : AverageOf(ewma'[t], past'[t])
    BY <2>1, <2>3 DEF SpikeInv
  <2>8. ASSUME spiked' # NoAverage
        PROVE  /\ Last(s)' > Floor /\ Last(s)' > past'[s][Len(past'[s]) - 1]
               /\ \E i \in Earlier(s)' : Last(s)' > Factor * past'[s][i]
    <3>1. Spike(ewma[s], b)
      BY <2>1, <2>8
    <3>2. q # << >> /\ b > Floor /\ b > q[Len(q)] /\ \E i \in 1 .. Len(q) : b > Factor * q[i]
      BY <2>1, <3>1, SpikeMeans
    <3>3. Last(s)' = b /\ Earlier(s)' = 1 .. Len(q)
      BY <2>1, <2>2 DEF Last, Earlier
    <3>4. Len(q) \in 1 .. Len(q)
      BY <2>1, <2>2, <3>2, EmptySeq
    <3>5. Len(past'[s]) - 1 = Len(q) /\ past'[s][Len(q)] = q[Len(q)]
      BY <2>1, <2>2, <3>4
    <3> QED
      BY <2>1, <2>2, <3>2, <3>3, <3>5
  <2>9. spiked' # NoAverage => spiked' = s
    BY <2>1
  <2>10. SpikesAreReal'
    BY <2>8, <2>9 DEF SpikesAreReal, Last, Earlier
  <2>11. NewLevelIsReportedOnce'
    BY <2>8, <2>9 DEF NewLevelIsReportedOnce, Last
  <2> QED
    BY <2>4, <2>5, <2>6, <2>7, <2>10, <2>11 DEF SpikeInv
<1>2. CASE UNCHANGED spikeVars
  BY <1>2 DEF spikeVars, SpikeInv, SpikesAreReal, NewLevelIsReportedOnce, Last, Earlier
<1> QED
  BY <1>1, <1>2 DEF SpikeNext, BudgetSpent

LEMMA SpikeInvariant == SpikeSpec => []SpikeInv
  BY SpikeInitially, SpikeStep, PTL DEF SpikeSpec

\* Whatever the volumes and their order, an alert names a flow above the floor
\* that exceeds the factor times some earlier flow of its source.
THEOREM SpikesAreRealHolds == SpikeSpec => []SpikesAreReal
<1>1. SpikeInv => SpikesAreReal
  BY DEF SpikeInv
<1> QED
  BY <1>1, SpikeInvariant, PTL

\* The factor times alpha is at least one, so that a flow no larger than the one
\* before it is never reported.
THEOREM NewLevelsAreReportedOnce == SpikeSpec => []NewLevelIsReportedOnce
<1>1. SpikeInv => NewLevelIsReportedOnce
  BY DEF SpikeInv
<1> QED
  BY <1>1, SpikeInvariant, PTL

\* A flow above the floor and above the factor times everything its source has
\* sent before is reported, whatever the average has become.
THEOREM BigSpikesAreReported == SpikeSpec => BigSpikesAreFlagged
<1> DEFINE Flagged ==
      \A s \in Sender :
         LET b == past'[s][Len(past'[s])] IN
         (/\ past'[s] # past[s]
          /\ b > Floor
          /\ \A i \in 1 .. Len(past[s]) : b > Factor * past[s][i]
          /\ \E i \in 1 .. Len(past[s]) : past[s][i] > 0)
            => spiked' = s
<1>1. ASSUME SpikeInv, [SpikeNext]_spikeVars PROVE Flagged
  <2> SUFFICES ASSUME NEW s \in Sender, past'[s] # past[s],
                      past'[s][Len(past'[s])] > Floor,
                      \A i \in 1 .. Len(past[s]) : past'[s][Len(past'[s])] > Factor * past[s][i],
                      \E i \in 1 .. Len(past[s]) : past[s][i] > 0
               PROVE  spiked' = s
    OBVIOUS
  <2>1. PICK r \in Sender, b \in Volumes : SpikeOnFlow(r, b)
    BY <1>1 DEF SpikeNext, BudgetSpent, spikeVars
  <2>2. /\ past'[r] = Append(past[r], b)
        /\ \A t \in Sender \ {r} : past'[t] = past[t]
        /\ spiked' = IF Spike(ewma[r], b) THEN r ELSE NoAverage
        /\ past[r] \in Seq(Volumes) /\ AverageOf(ewma[r], past[r])
    BY <1>1, <2>1, SpikeFlow
  <2>3. r = s
    BY <2>2
  <2>4. past'[s][Len(past'[s])] = b
    BY <2>2, <2>3, AppendVolume
  <2>5. Spike(ewma[s], b)
    BY <2>2, <2>3, <2>4, SpikeMeans
  <2> QED
    BY <2>2, <2>3, <2>5
<1>2. SpikeInv /\ [SpikeNext]_spikeVars => [Flagged]_spikeVars
  BY <1>1
<1> QED
  BY <1>2, SpikeInvariant, PTL DEF SpikeSpec, BigSpikesAreFlagged
=============================================================================
