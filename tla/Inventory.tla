----------------------------- MODULE Inventory -----------------------------
(***************************************************************************)
(* What a reader of the database may rely on, whoever writes it and however*)
(* often it dies on the way: a device that is listed once is listed for    *)
(* ever, since the same moment and with no less evidence, under the device *)
(* type its own signals give; and it is announced when it is listed, again *)
(* only after a write that failed.  Pipeline implements this.              *)
(***************************************************************************)
EXTENDS Registry

VARIABLES
    stored,     \* the record a reader finds, None where there is none
    announced,  \* number of new_device alerts a reader finds, by device
    failures    \* writes that failed

vars == <<stored, announced, failures>>

Init ==
    /\ stored = [m \in Mac |-> None]
    /\ announced = [m \in Mac |-> 0]
    /\ failures = 0

\* A record takes the place of one it continues.
Continues(new, old) ==
    /\ new.first = old.first
    /\ old.packets <= new.packets
    /\ old.services \subseteq new.services
    /\ \A a \in Attr : old.texts[a] # None => new.texts[a] # None

List(m) ==
    /\ stored' = [stored EXCEPT ![m] = stored'[m]]
    /\ stored'[m] \in Device
    /\ stored'[m].type = Classify(stored'[m].texts, stored'[m].services)
    /\ stored[m] # None => Continues(stored'[m], stored[m])
    /\ UNCHANGED <<announced, failures>>

Announce(m) ==
    /\ announced[m] <= failures
    /\ stored[m] # None \/ failures > 0
    /\ announced' = [announced EXCEPT ![m] = @ + 1]
    /\ UNCHANGED <<stored, failures>>

Fail ==
    /\ failures' = failures + 1
    /\ UNCHANGED <<stored, announced>>

Next ==
    \/ \E m \in Mac : List(m) \/ Announce(m)
    \/ Fail

Spec == Init /\ [][Next]_vars
=============================================================================
