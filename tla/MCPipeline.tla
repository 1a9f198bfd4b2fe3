----------------------------- MODULE MCPipeline -----------------------------
(* Small instances of Pipeline for TLC. *)
EXTENDS Pipeline, TLC

CONSTANTS m1, m2, ip1, text, s1, s2, typeA, typeB

\* A service settles the type; a text field alone suggests another one.
MCClassify(t, s) ==
    IF s1 \in s THEN typeA
    ELSE IF \E a \in Attr : t[a] # None THEN typeB ELSE None

\* The second device's address block is in the OUI table.
MCVendor(m) == IF m = m2 THEN text ELSE None

Obs(m, ip, sig) == [mac |-> m, ip |-> ip, signal |-> sig]
Seen       == [kind |-> "seen"]
Adverts(s) == [kind |-> "service", service |-> s]

\* The loopback's ARP frame, a frame of which nothing is decoded, an mDNS
\* answer with one service more than a record holds, and a frame of the other
\* device: the one address is used by both devices.
MCFrames ==
    { << >>,
      <<Obs(ZeroMac, None, Seen)>>,
      <<Obs(m1, ip1, Adverts(s1)), Obs(m1, ip1, Adverts(s2))>>,
      <<Obs(m2, ip1, Seen)>> }

\* No flow, and two flows either of which takes a 2-bit counter past the
\* largest i64 at once.
BigFlow == [src |-> ip1, packets |-> 2 * MaxI64 + 1]
MCSnapshots == { << >>, <<BigFlow, BigFlow>> }
=============================================================================
