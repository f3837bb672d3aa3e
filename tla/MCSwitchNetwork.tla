-------------------------- MODULE MCSwitchNetwork --------------------------
(* Three nodes for TLC: a ring, in which a and b have dialed each other     *)
(* (ab, ba) in the larger network.                                          *)
EXTENDS SwitchNetwork, TLC

CONSTANTS a, b, c, ab, ba, bc, ca, m1, m2, m3

DialedBy == (ab :> a) @@ (ba :> b) @@ (bc :> b) @@ (ca :> c)
AcceptedBy == (ab :> b) @@ (ba :> a) @@ (bc :> c) @@ (ca :> a)
OriginOf == (m1 :> a) @@ (m2 :> b) @@ (m3 :> c)

Ring == {ab, bc, ca}
Line == {ab, bc}

Network(links, msgs, ttl, forgets, num) ==
  [links |-> links, msgs |-> msgs, ttl |-> ttl, forgets |-> forgets,
   faults |-> num]

(* Loops and parallel connections; rings whose nodes forget too early, so   *)
(* that only the TTL is left; rings with a fault, and with two messages; a  *)
(* line with a fault between two messages; a message that is not private.   *)
SomeNetworks ==
  {Network(Links, {m}, 13, FALSE, 0) : m \in Private}
  \cup {Network(Ring, {m}, 5, TRUE, 0) : m \in Private}
  \cup {Network(Ring, {m}, 10, FALSE, 1) : m \in Msgs}
  \cup {Network(Ring, Private, 10, FALSE, 0),
        Network(Line, Private, 7, FALSE, 1)}
=============================================================================
