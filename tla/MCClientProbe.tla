---------------------------- MODULE MCClientProbe ----------------------------
(* Instances of ClientProbe for TLC, which need no definitions of their own. *)
EXTENDS ClientProbe
=============================================================================
