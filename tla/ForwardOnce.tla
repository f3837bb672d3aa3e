---------------------------- MODULE ForwardOnce ----------------------------
(***************************************************************************)
(* What the exchange buffer of a switch node promises to the code around   *)
(* it, without saying how: a bounded FIFO of discovery messages that never *)
(* takes in a message it still remembers and takes in nothing after it is  *)
(* shut.  How long it remembers is left open here (it may forget at any    *)
(* time); SwitchLounge, which implements this module, says when it does.   *)
(*                                                                         *)
(* The message waiting in the buffer is represented by its discovery id,   *)
(* the only part of it that the buffer looks at.                           *)
(***************************************************************************)
EXTENDS Naturals, Sequences

CONSTANTS
  Ids,       \* the discovery ids, SwitchId_DiscoverySeq in the code
  Capacity   \* messages the buffer can hold

VARIABLES
  remembered,  \* ids that would be recognised as duplicates
  buffer,      \* messages waiting to be forwarded, oldest first
  shut         \* no message is taken in any more

vars == <<remembered, buffer, shut>>

Init ==
  /\ remembered = {}
  /\ buffer = <<>>
  /\ shut = FALSE

(* Take a message in, remember it, and perhaps forget others to make room. *)
Admit(id) ==
  /\ ~shut
  /\ id \notin remembered
  /\ Len(buffer) < Capacity
  /\ buffer' = Append(buffer, id)
  /\ \E kept \in SUBSET remembered : remembered' = kept \cup {id}
  /\ UNCHANGED shut

(* Forget some ids. *)
Forget ==
  /\ remembered' \in SUBSET remembered
  /\ UNCHANGED <<buffer, shut>>

(* Hand the oldest waiting message to the forwarder. *)
Take ==
  /\ buffer # <<>>
  /\ buffer' = Tail(buffer)
  /\ UNCHANGED <<remembered, shut>>

(* Stop taking messages in; what waits can still be handed out. *)
Shut ==
  /\ shut' = TRUE
  /\ UNCHANGED <<remembered, buffer>>

Next ==
  \/ \E id \in Ids : Admit(id)
  \/ Forget
  \/ Take
  \/ Shut

Spec == Init /\ [][Next]_vars
=============================================================================
