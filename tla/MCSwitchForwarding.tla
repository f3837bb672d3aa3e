------------------------- MODULE MCSwitchForwarding -------------------------
(* Instances of SwitchForwarding for TLC.  Connections are only compared    *)
(* for equality.                                                            *)
EXTENDS SwitchForwarding, TLC

ConnSymmetry == Permutations(Conns)

(* From a message that has used up its TTL, and wraps around here, to one   *)
(* that passes every connection but its source.                             *)
SomeTTLs == {0, 1, 3}
=============================================================================
