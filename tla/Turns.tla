------------------------------- MODULE Turns -------------------------------
(***************************************************************************)
(* What one turn of a writer over connections does to the TTL of a         *)
(* message.  SwitchForwarding, where a turn is many steps of the writer    *)
(* and the senders, states that it comes to nothing else; SwitchNetwork    *)
(* takes a turn as one step.                                               *)
(***************************************************************************)
EXTENDS Naturals, FiniteSets

CONSTANT TTLMod  \* 2^32: DiscoveryTtl is a uint32

(* Mutant: the TTL stays as it is. *)
KeepsTTL(ttl, k) == ttl

(* The TTL after k decrements of the uint32. *)
Lowered(ttl, k) == (ttl + TTLMod - (k % TTLMod)) % TTLMod

(* The order in which a turn visits its targets (Go's map order), and how   *)
(* many of its decrements have been made when each copy is marshalled.      *)
Orders(out) ==
  {pos \in [out -> 1..Cardinality(out)] :
     \A k, l \in out : pos[k] = pos[l] => k = l}
Delays(out, pos) ==
  {late \in [out -> 1..Cardinality(out)] : \A l \in out : late[l] >= pos[l]}
=============================================================================
