--------------------------- MODULE MCSwitchLounge ---------------------------
(* Instances of SwitchLounge for TLC, which need no definitions of their    *)
(* own.                                                                     *)
EXTENDS SwitchLounge
=============================================================================
