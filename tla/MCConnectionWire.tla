------------------------- MODULE MCConnectionWire -------------------------
(* Instances of ConnectionWire for TLC, which need no definitions of their  *)
(* own.                                                                     *)
EXTENDS ConnectionWire
=============================================================================
