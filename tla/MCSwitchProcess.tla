-------------------------- MODULE MCSwitchProcess --------------------------
(* Options for TLC: a node that dials a peer that is up, nodes that accept  *)
(* and dial one that is down, without limit or with a limit of zero, and    *)
(* each way to spoil one option.                                            *)
EXTENDS SwitchProcess

Good ==
  [workDir |-> TRUE, logSize |-> Unset, history |-> 0, logFile |-> TRUE,
   autostart |-> "", retries |-> 1, broadcast |-> 1, alive |-> 60,
   interface |-> TRUE, join |-> TRUE, serv |-> "none", peer |-> "up"]

SomeOptions ==
  {Good,
   [Good EXCEPT !.serv = "free", !.peer = "down", !.retries = -1],
   [Good EXCEPT !.peer = "down", !.retries = Junk],
   [Good EXCEPT !.serv = "busy", !.peer = "invalid"],
   [Good EXCEPT !.serv = "invalid", !.peer = "none", !.join = FALSE],
   [Good EXCEPT !.broadcast = 0, !.peer = "none"],
   [Good EXCEPT !.alive = Junk, !.peer = "none"],
   [Good EXCEPT !.workDir = FALSE],
   [Good EXCEPT !.logSize = 0],
   [Good EXCEPT !.history = Junk],
   [Good EXCEPT !.logFile = FALSE],
   [Good EXCEPT !.autostart = "enable"],
   [Good EXCEPT !.interface = FALSE]}
=============================================================================
