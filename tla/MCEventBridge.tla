--------------------------- MODULE MCEventBridge ---------------------------
(* Small instances of EventBridge for TLC. *)
EXTENDS EventBridge

CONSTANTS m1, m2, zero

Ip(m, proto, ihl, ports, says) ==
    [src |-> m, ether |-> "ipv4", ihl |-> ihl, proto |-> proto, ports |-> ports, says |-> says]

\* Of the first host's frames no more is kept than that they came, the second
\* sends frames that give rise to an event of their own.
MCFrames ==
    { Ip(m1, "tcp", 20, {80}, FALSE),
      Ip(m1, "udp", 16, {1900}, FALSE),
      Ip(m2, "udp", 20, {68, 5353}, TRUE) }
=============================================================================
