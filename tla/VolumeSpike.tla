---------------------------- MODULE VolumeSpike ----------------------------
(***************************************************************************)
(* VolumeSpikeDetector (lanscope/src/anomaly/heuristics.rs): on_flow is    *)
(* called for every flow of every snapshot, in the order in which the flow *)
(* table was read, and keeps a moving average for each source address:     *)
(* where a snapshot begins and ends makes no difference to it.             *)
(*                                                                         *)
(* The average is an exact fraction: the rounding of f64 is left out.      *)
(***************************************************************************)
EXTENDS Integers, Sequences

CONSTANTS
    Sender,     \* source addresses
    Volumes,    \* byte counts a flow may have
    AlphaNum,   \* alpha = AlphaNum / AlphaDen (0.3)
    AlphaDen,
    Factor,     \* spike_factor (5)
    Floor,      \* floor_bytes (1 MB)
    MaxFlows,   \* bound on the flows of a source
    NoAverage   \* no entry, or no alert

ASSUME VolumeSpikeAssumption ==
    /\ Volumes \subseteq Nat
    /\ AlphaNum \in Nat \ {0} /\ AlphaDen \in Nat /\ AlphaNum < AlphaDen
    /\ Factor \in Nat /\ Floor \in Nat /\ MaxFlows \in Nat
    /\ Factor * AlphaNum >= AlphaDen
    /\ NoAverage \notin Sender

Average == [num : Nat, den : Nat \ {0}]

ASSUME NoAverageIsNone == NoAverage \notin Average

VARIABLES
    ewma,    \* the average of each source, or NoAverage
    spiked,  \* the source the last flow raised an alert for, or NoAverage
    past     \* history: the volumes of a source's flows

spikeVars == <<ewma, spiked, past>>

SpikeInit ==
    /\ ewma = [s \in Sender |-> NoAverage]
    /\ spiked = NoAverage
    /\ past = [s \in Sender |-> << >>]

-----------------------------------------------------------------------------
(* on_flow                                                                 *)

Seed(b) == [num |-> b, den |-> 1]

\* Mutants: the result is not divided by AlphaDen; alpha is 1 / AlphaDen.
Undivided(avg, b) ==
    IF avg = NoAverage THEN Seed(b)
    ELSE [avg EXCEPT !.num = AlphaNum * b * avg.den + (AlphaDen - AlphaNum) * avg.num]
SlowlySmoothed(avg, b) ==
    IF avg = NoAverage THEN Seed(b)
    ELSE [num |-> b * avg.den + (AlphaDen - 1) * avg.num, den |-> AlphaDen * avg.den]
Smoothed(avg, b) ==
    IF avg = NoAverage THEN Seed(b)
    ELSE [num |-> AlphaNum * b * avg.den + (AlphaDen - AlphaNum) * avg.num,
          den |-> AlphaDen * avg.den]

\* "Update the EWMA before deciding": the decision is made on the average as it
\* was.  Mutant: the floor is not asked for.
SpikeWithoutFloor(avg, b) ==
    avg # NoAverage /\ avg.num > 0 /\ b * avg.den > Factor * avg.num
Spike(avg, b) ==
    avg # NoAverage /\ b > Floor /\ avg.num > 0 /\ b * avg.den > Factor * avg.num

SpikeOnFlow(s, b) ==
    /\ Len(past[s]) < MaxFlows
    /\ ewma' = [ewma EXCEPT ![s] = Smoothed(@, b)]
    /\ spiked' = IF Spike(ewma[s], b) THEN s ELSE NoAverage
    /\ past' = [past EXCEPT ![s] = Append(@, b)]

\* The bound is spent; the program would go on.
BudgetSpent ==
    /\ \A s \in Sender : Len(past[s]) = MaxFlows
    /\ UNCHANGED spikeVars

SpikeNext ==
    \/ \E s \in Sender, b \in Volumes : SpikeOnFlow(s, b)
    \/ BudgetSpent

SpikeSpec == SpikeInit /\ [][SpikeNext]_spikeVars

-----------------------------------------------------------------------------
Earlier(s) == 1 .. Len(past[s]) - 1
Last(s)    == past[s][Len(past[s])]

\* An alert is never raised out of thin air: the flow exceeds the floor, and it
\* exceeds spike_factor times some earlier flow of the same source.
SpikesAreReal ==
    spiked # NoAverage =>
        /\ Last(spiked) > Floor
        /\ \E i \in Earlier(spiked) : Last(spiked) > Factor * past[spiked][i]

\* The average adapts at once (0.3 * 5 >= 1): a flow no larger than the one
\* before it is not reported, so a source that stays on a new level is reported
\* once.
NewLevelIsReportedOnce ==
    spiked # NoAverage => Last(spiked) > past[spiked][Len(past[spiked]) - 1]

\* No order of the flows hides a real spike: one above the floor and above
\* spike_factor times everything the source has sent before is reported.
BigSpikesAreFlagged ==
    [][\A s \in Sender :
         LET b == past'[s][Len(past'[s])] IN
         (/\ past'[s] # past[s]
          /\ b > Floor
          /\ \A i \in 1 .. Len(past[s]) : b > Factor * past[s][i]
          /\ \E i \in 1 .. Len(past[s]) : past[s][i] > 0)
            => spiked' = s]_spikeVars
=============================================================================
