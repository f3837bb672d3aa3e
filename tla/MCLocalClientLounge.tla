------------------------ MODULE MCLocalClientLounge ------------------------
(* Instances of LocalClientLounge for TLC, which need no definitions of     *)
(* their own.                                                               *)
EXTENDS LocalClientLounge
=============================================================================
