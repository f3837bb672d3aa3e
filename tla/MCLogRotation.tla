--------------------------- MODULE MCLogRotation ---------------------------
(* Instances of LogRotation for TLC, which need no definitions of their own.*)
EXTENDS LogRotation
=============================================================================
