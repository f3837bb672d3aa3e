--------------------------- MODULE MCConnectionHub ---------------------------
(* Instances of ConnectionHub for TLC: connections d1 and d2 are dialed, to  *)
(* the same peer; i1 and i2 are accepted, and share a remote address, so     *)
(* that i2 is i1's client coming back from the same port.                    *)
EXTENDS ConnectionHub, TLC

CONSTANTS d1, d2, i1, i2, peerAddr, clientAddr

Address ==
  (d1 :> peerAddr) @@ (d2 :> peerAddr) 
  @@ (i1 :> clientAddr) @@ (i2 :> clientAddr)

(* A .cfg has no negative numbers. *)
Unlimited == -1

AddressOf(S) == [c \in S |-> Address[c]]
AddrOfAll == AddressOf(Conns)
=============================================================================
