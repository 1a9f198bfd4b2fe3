---------------------------- MODULE MCDetectors ----------------------------
(***************************************************************************)
(* Small instances of the two flow detectors for TLC.  Engine::on_flow     *)
(* hands every flow to both, but they share no state: each is explored     *)
(* while the other has seen nothing, which spares TLC the product of the   *)
(* two.                                                                    *)
(***************************************************************************)
EXTENDS PortScan, VolumeSpike

ScanAtRest  == now = 0 /\ \A s \in Src : seen[s] = None
SpikeAtRest == \A s \in Sender : past[s] = << >>

DetectorsInit == Init /\ SpikeInit

DetectorsNext ==
    \/ SpikeAtRest /\ Next /\ UNCHANGED spikeVars
    \/ ScanAtRest /\ SpikeNext /\ UNCHANGED vars

DetectorsSpec == DetectorsInit /\ [][DetectorsNext]_<<vars, spikeVars>>
=============================================================================
