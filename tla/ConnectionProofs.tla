---------------------------- MODULE ConnectionProofs --------------------------
(***************************************************************************)
(* Proofs about ConnectionHub, for any number of connections, addresses    *)
(* and writers and every size of the channels, and about ConnectionWire,   *)
(* what passes over one of them, for any number of messages, keys and      *)
(* every size of the buffers.  The two have no state in common.            *)
(***************************************************************************)
EXTENDS ConnectionHub, ConnectionWire, FiniteSetTheorems, TLAPS

(***************************************************************************)
(* The hub.                                                                *)
(***************************************************************************)

(***************************************************************************)
(* The inductive invariant.  While the process runs, hub, channels and     *)
(* receivers agree; a connection that its receiver still has to clean up   *)
(* loses its sender or its socket only on the signal; and, without the     *)
(* signal, the dial loop has left no connection behind when it dials.      *)
(***************************************************************************)
HubInv ==
  /\ \A a \in Addrs : hub[a] # NoConn => AddrOf[hub[a]] = a
  /\ \A c \in Conns : Live(c) <=> hub[AddrOf[c]] = c
  /\ \A c \in Conns : chanOpen[c] <=> Live(c)

SocketInv ==
  /\ \A c \in Conns : net[c] = "unused" => recv[c] = "none"
  /\ \A c \in Conns : Live(c) /\ (send[c] = "done" \/ net[c] = "closed") => sig

DialInv ==
  ~sig =>
    /\ peer \in {"dialing", "sleeping", "reporting"} =>
         \A d \in Dialed : ~Live(d)
    /\ peer = "handling" => \A d \in Dialed \ {dial} : ~Live(d)

RunInv == HubInv /\ SocketInv /\ DialInv

Inv ==
  /\ TypeOK
  /\ crash = "no" => RunInv
  /\ NoDoubleClose

LEMMA InitInv == Init => Inv
<1>. SUFFICES ASSUME Init PROVE Inv
  OBVIOUS
<1>1. TypeOK
  <2>1. /\ net \in [Conns -> {"unused", "up", "broken", "closed"}]
        /\ recv \in [Conns -> {"none", "reading", "delivering", "leaving", "done"}]
        /\ send \in [Conns -> {"none", "select", "done"}]
        /\ chanOpen \in [Conns -> BOOLEAN]
        /\ hub \in [Addrs -> Conns \cup {NoConn}]
    BY DEF Init
  <2>2. /\ chan \in [Conns -> 0..SendChanSize]
        /\ inbox \in 0..InboxSize
        /\ retries \in 0..RetryBound
    BY HubAssumption DEF Init
  <2>3. /\ writer \in [Writers -> {"idle", "sending", "done"}]
        /\ todo \in [Writers -> SUBSET Conns]
        /\ at \in [Writers -> Conns \cup {NoConn}]
    BY DEF Init
  <2>. QED BY <2>1, <2>2, <2>3 DEF Init, TypeOK
<1>2. HubInv
  BY HubAssumption DEF Init, HubInv, Live
<1>3. SocketInv /\ DialInv
  BY HubAssumption DEF Init, SocketInv, DialInv, Live
<1>. QED BY <1>1, <1>2, <1>3 DEF Init, Inv, RunInv, NoDoubleClose

-----------------------------------------------------------------------------
(***************************************************************************)
(* Type correctness, one step per action.                                  *)
(***************************************************************************)
LEMMA StartTypes ==
  ASSUME TypeOK, NEW c \in Conns, StartConnection(c)
  PROVE  /\ net' \in [Conns -> {"unused", "up", "broken", "closed"}]
         /\ recv' \in [Conns -> {"none", "reading", "delivering", "leaving", "done"}]
         /\ send' \in [Conns -> {"none", "select", "done"}]
         /\ chan' \in [Conns -> 0..SendChanSize]
         /\ chanOpen' \in [Conns -> BOOLEAN]
         /\ hub' \in [Addrs -> Conns \cup {NoConn}]
<1>1. hub' \in [Addrs -> Conns \cup {NoConn}]
  BY HubAssumption DEF StartConnection, TypeOK
<1>2. chanOpen' \in [Conns -> BOOLEAN] /\ chan' \in [Conns -> 0..SendChanSize]
  BY DEF StartConnection, TypeOK
<1>3. net' \in [Conns -> {"unused", "up", "broken", "closed"}]
  BY DEF StartConnection, TypeOK
<1>4. /\ recv' \in [Conns -> {"none", "reading", "delivering", "leaving", "done"}]
      /\ send' \in [Conns -> {"none", "select", "done"}]
  BY DEF StartConnection, TypeOK
<1>. QED BY <1>1, <1>2, <1>3, <1>4

LEMMA NextTypeOK == TypeOK /\ Next => TypeOK'
<1>. SUFFICES ASSUME TypeOK, Next PROVE TypeOK'
  OBVIOUS
<1>. USE HubAssumption DEF connVars, writerVars, peerVars, loopVars
<1>1. ASSUME NEW c \in Conns, Accept(c) PROVE TypeOK'
  <2>1. CASE CanAdd(c)
    BY <1>1, <2>1, StartTypes DEF Accept, TypeOK
  <2>2. CASE ~CanAdd(c)
    BY <1>1, <2>2 DEF Accept, RefuseConnection, TypeOK
  <2>. QED BY <2>1, <2>2
<1>2. ASSUME NEW c \in Conns, DialOk(c) PROVE TypeOK'
  <2>1. CASE CanAdd(c)
    BY <1>2, <2>1, StartTypes DEF DialOk, TypeOK
  <2>2. CASE ~CanAdd(c)
    BY <1>2, <2>2 DEF DialOk, RefuseConnection, TypeOK
  <2>. QED BY <2>1, <2>2
<1>3. ASSUME NEW c \in Conns, Break(c) \/ WatchSignal(c) PROVE TypeOK'
  BY <1>3 DEF Break, WatchSignal, TypeOK
<1>4. ASSUME NEW c \in Conns, RecvFrame(c) \/ RecvFail(c) PROVE TypeOK'
  BY <1>4 DEF RecvFrame, RecvFail, TypeOK
<1>5. ASSUME NEW c \in Conns, RecvDeliver(c) PROVE TypeOK'
  BY <1>5 DEF RecvDeliver, TypeOK
<1>6. ASSUME NEW c \in Conns, RecvCleanup(c) PROVE TypeOK'
  BY <1>6 DEF RecvCleanup, RemoveConnection, TypeOK
<1>7. ASSUME NEW c \in Conns, SendMessage(c) PROVE TypeOK'
  BY <1>7 DEF SendMessage, AfterWrite, TypeOK
<1>8. ASSUME NEW c \in Conns, SendHeartbeat(c) \/ SendExit(c) PROVE TypeOK'
  BY <1>8 DEF SendHeartbeat, SendExit, AfterWrite, TypeOK
<1>9. ASSUME NEW w \in Writers, Snapshot(w) PROVE TypeOK'
  BY <1>9 DEF Snapshot, Registered, TypeOK
<1>10. ASSUME NEW w \in Writers, NEW c \in Conns, PickConn(w, c) PROVE TypeOK'
  BY <1>10 DEF PickConn, TypeOK
<1>11. ASSUME NEW w \in Writers, SendTo(w) PROVE TypeOK'
  BY <1>11 DEF SendTo, TypeOK
<1>12. ASSUME NEW w \in Writers, EndRound(w) \/ WriterExit(w) PROVE TypeOK'
  BY <1>12 DEF EndRound, WriterExit, TypeOK
<1>13. CASE DialFail
  BY <1>13 DEF DialFail, Retry, TypeOK
<1>14. CASE PeerReturn
  <2>1. net' \in [Conns -> {"unused", "up", "broken", "closed"}]
    BY <1>14 DEF PeerReturn, TypeOK
  <2>2. /\ peer' \in {"dialing", "handling", "sleeping", "reporting", "stopped"}
        /\ dial' \in Dialed \cup {NoConn}
        /\ retries' \in 0..RetryBound
    <3>1. CASE sig
      BY <1>14, <3>1 DEF PeerReturn, TypeOK
    <3>2. CASE ~sig
      BY <1>14, <3>2 DEF PeerReturn, Retry, TypeOK
    <3>. QED BY <3>1, <3>2
  <2>. QED BY <1>14, <2>1, <2>2 DEF PeerReturn, TypeOK
<1>15. CASE PeerWake \/ PeerFatal
  BY <1>15 DEF PeerWake, PeerFatal, TypeOK
<1>16. CASE CoreTake
  BY <1>16 DEF CoreTake, TypeOK
<1>17. CASE CoreExit
  BY <1>17 DEF CoreExit, TypeOK
<1>18. CASE AcceptorExit
  BY <1>18 DEF AcceptorExit, TypeOK
<1>19. CASE Interrupt
  BY <1>19 DEF Interrupt, TypeOK
<1>. QED
  BY <1>1, <1>2, <1>3, <1>4, <1>5, <1>6, <1>7, <1>8, <1>9, <1>10, <1>11,
     <1>12, <1>13, <1>14, <1>15, <1>16,
     <1>17, <1>18, <1>19 DEF Next

-----------------------------------------------------------------------------
(***************************************************************************)
(* The three parts of RunInv, one step per action.  First the two actions  *)
(* that change the hub.                                                    *)
(***************************************************************************)
LEMMA StartRunInv ==
  ASSUME TypeOK, RunInv, NEW c \in Conns,
         net[c] = "unused", CanAdd(c), StartConnection(c)
  PROVE  HubInv' /\ (sig' = sig => SocketInv')
<1>. USE HubAssumption
<1>1. ~Live(c)
  BY DEF RunInv, SocketInv, Live
<1>2. \A e \in Conns : Live(e)' <=> (e = c \/ Live(e))
  BY DEF StartConnection, Live, TypeOK
<1>3. HubInv'
  <2>1. hub' = [hub EXCEPT ![AddrOf[c]] = c] /\ hub[AddrOf[c]] = NoConn
    BY DEF StartConnection, CanAdd
  <2>2. \A a \in Addrs : hub'[a] # NoConn => AddrOf[hub'[a]] = a
    BY <2>1 DEF RunInv, HubInv, TypeOK
  <2>3. \A e \in Conns : Live(e)' <=> hub'[AddrOf[e]] = e
    BY <1>2, <2>1 DEF RunInv, HubInv, TypeOK
  <2>4. \A e \in Conns : chanOpen'[e] <=> Live(e)'
    BY <1>2 DEF StartConnection, RunInv, HubInv, TypeOK
  <2>. QED BY <2>2, <2>3, <2>4 DEF HubInv, Live
<1>4. sig' = sig => SocketInv'
  BY <1>2 DEF StartConnection, RunInv, SocketInv, Live, TypeOK
<1>. QED BY <1>3, <1>4

LEMMA CleanupRunInv ==
  ASSUME TypeOK, RunInv, NEW c \in Conns, RecvCleanup(c)
  PROVE  RunInv' /\ crash' = crash
<1>. USE HubAssumption
<1>1. Live(c) /\ hub[AddrOf[c]] = c /\ chanOpen[c] /\ c # NoConn
  BY DEF RecvCleanup, RunInv, HubInv, Live
<1>2. /\ hub' = [hub EXCEPT ![AddrOf[c]] = NoConn]
      /\ net' = [e \in Conns |-> IF e = c THEN "closed" ELSE net[e]]
      /\ chanOpen' = [e \in Conns |-> chanOpen[e] /\ e # c]
      /\ crash' = crash
  BY <1>1 DEF RecvCleanup, RemoveConnection
<1>3. \A e \in Conns : Live(e)' <=> (Live(e) /\ e # c)
  BY DEF RecvCleanup, Live, TypeOK
<1>4. HubInv'
  <2>1. \A a \in Addrs : hub'[a] # NoConn => AddrOf[hub'[a]] = a
    BY <1>2 DEF RunInv, HubInv, TypeOK
  <2>2. \A e \in Conns : Live(e)' <=> hub'[AddrOf[e]] = e
    BY <1>1, <1>2, <1>3 DEF RunInv, HubInv, TypeOK
  <2>3. \A e \in Conns : chanOpen'[e] <=> Live(e)'
    BY <1>2, <1>3 DEF RunInv, HubInv, TypeOK
  <2>. QED BY <2>1, <2>2, <2>3 DEF HubInv, Live
<1>5. SocketInv'
  <2>1. \A e \in Conns : net'[e] = "unused" => recv'[e] = "none"
    BY <1>2 DEF RecvCleanup, RunInv, SocketInv, TypeOK
  <2>2. \A e \in Conns :
          Live(e)' /\ (send'[e] = "done" \/ net'[e] = "closed") => sig'
    BY <1>2, <1>3 DEF RecvCleanup, RunInv, SocketInv
  <2>. QED BY <2>1, <2>2 DEF SocketInv, Live
<1>6. DialInv'
  BY <1>3 DEF RecvCleanup, RunInv, DialInv, peerVars, Live
<1>. QED BY <1>2, <1>4, <1>5, <1>6 DEF RunInv

(* An action that leaves the hub alone and moves receivers only from one    *)
(* live place to another.                                                   *)
LEMMA SameHub ==
  ASSUME RunInv, hub' = hub, chanOpen' = chanOpen,
         \A c \in Conns : Live(c)' <=> Live(c)
  PROVE  HubInv'
BY DEF RunInv, HubInv, Live

LEMMA SameDial ==
  ASSUME RunInv, UNCHANGED peerVars, sig => sig',
         \A c \in Conns : Live(c)' <=> Live(c)
  PROVE  DialInv'
BY HubAssumption DEF RunInv, DialInv, peerVars, Live

LEMMA NextRunInv ==
  ASSUME TypeOK, RunInv, Next, crash' = "no" PROVE RunInv'
<1>. USE HubAssumption DEF connVars, writerVars, loopVars
<1>1. ASSUME NEW c \in Conns, Accept(c) PROVE RunInv'
  <2>1. CASE CanAdd(c)
    <3>1. HubInv' /\ SocketInv'
      BY <1>1, <2>1, StartRunInv DEF Accept
    <3>2. \A d \in Dialed : Live(d)' <=> Live(d)
      BY <1>1, <2>1 DEF Accept, StartConnection, Live, TypeOK
    <3>3. DialInv'
      BY <1>1, <3>2 DEF Accept, peerVars, RunInv, DialInv, Live
    <3>. QED BY <3>1, <3>3 DEF RunInv
  <2>2. CASE ~CanAdd(c)
    BY <1>1, <2>2, SameHub, SameDial
       DEF Accept, RefuseConnection, RunInv, SocketInv, Live, TypeOK
  <2>. QED BY <2>1, <2>2
<1>2. ASSUME NEW c \in Conns, DialOk(c) PROVE RunInv'
  <2>1. CASE CanAdd(c)
    <3>1. HubInv' /\ SocketInv'
      BY <1>2, <2>1, StartRunInv DEF DialOk
    <3>2. \A d \in Dialed \ {c} : Live(d)' <=> Live(d)
      BY <1>2, <2>1 DEF DialOk, StartConnection, Live, TypeOK
    <3>3. DialInv'
      BY <1>2, <2>1, <3>2 DEF DialOk, RunInv, DialInv, Live
    <3>. QED BY <3>1, <3>3 DEF RunInv
  <2>2. CASE ~CanAdd(c)
    <3>1. HubInv'
      BY <1>2, <2>2, SameHub DEF DialOk, RefuseConnection, Live
    <3>2. SocketInv' /\ DialInv'
      BY <1>2, <2>2
         DEF DialOk, RefuseConnection, RunInv, SocketInv, DialInv, Live, TypeOK
    <3>. QED BY <3>1, <3>2 DEF RunInv
  <2>. QED BY <2>1, <2>2
<1>3. ASSUME NEW c \in Conns, Break(c) \/ WatchSignal(c) PROVE RunInv'
  <2>1. HubInv' /\ DialInv'
    BY <1>3, SameHub, SameDial DEF Break, WatchSignal, Live
  <2>2. SocketInv'
    BY <1>3 DEF Break, WatchSignal, RunInv, SocketInv, Live, TypeOK
  <2>. QED BY <2>1, <2>2 DEF RunInv
<1>4. ASSUME NEW c \in Conns,
             RecvFrame(c) \/ RecvDeliver(c) \/ RecvFail(c)
      PROVE  RunInv'
  <2>1. \A e \in Conns : Live(e)' <=> Live(e)
    BY <1>4 DEF RecvFrame, RecvDeliver, RecvFail, Live, TypeOK
  <2>2. HubInv' /\ DialInv'
    BY <1>4, <2>1, SameHub, SameDial DEF RecvFrame, RecvDeliver, RecvFail
  <2>3. net' = net /\ send' = send /\ sig' = sig /\ net[c] # "unused"
    BY <1>4 DEF RecvFrame, RecvDeliver, RecvFail, RunInv, SocketInv
  <2>4. \A e \in Conns : e # c => recv'[e] = recv[e]
    BY <1>4 DEF RecvFrame, RecvDeliver, RecvFail, TypeOK
  <2>5. SocketInv'
    BY <2>1, <2>3, <2>4 DEF RunInv, SocketInv, Live
  <2>. QED BY <2>2, <2>5 DEF RunInv
<1>5. ASSUME NEW c \in Conns, RecvCleanup(c) PROVE RunInv'
  BY <1>5, CleanupRunInv
<1>6. ASSUME NEW c \in Conns,
             SendMessage(c) \/ SendHeartbeat(c) \/ SendExit(c)
      PROVE  RunInv'
  <2>1. HubInv' /\ DialInv'
    BY <1>6, SameHub, SameDial DEF SendMessage, SendHeartbeat, SendExit, Live
  <2>2. net' = net /\ recv' = recv /\ sig' = sig
    BY <1>6 DEF SendMessage, SendHeartbeat, SendExit
  <2>3. \A e \in Conns : e # c => send'[e] = send[e]
    BY <1>6 DEF SendMessage, SendHeartbeat, SendExit, TypeOK
  <2>4. send'[c] = "done" => net[c] = "closed" \/ sig \/ ~Live(c)
    <3>1. CASE SendMessage(c) \/ SendHeartbeat(c)
      BY <3>1 DEF SendMessage, SendHeartbeat, AfterWrite, TypeOK
    <3>2. CASE SendExit(c)
      BY <3>2 DEF SendExit, RunInv, HubInv
    <3>. QED BY <1>6, <3>1, <3>2
  <2>5. SocketInv'
    BY <2>2, <2>3, <2>4 DEF RunInv, SocketInv, Live
  <2>. QED BY <2>1, <2>5 DEF RunInv
<1>7. CASE UNCHANGED <<net, recv, send, chanOpen, hub, peerVars, sig>>
  BY <1>7, SameHub, SameDial DEF RunInv, SocketInv, Live
<1>8. ASSUME NEW w \in Writers,
             \/ Snapshot(w) \/ \E c \in Conns : PickConn(w, c)
             \/ SendTo(w) \/ EndRound(w) \/ WriterExit(w)
      PROVE  RunInv'
  BY <1>7, <1>8 DEF Snapshot, PickConn, SendTo, EndRound, WriterExit
<1>9. CASE DialFail
  <2>1. HubInv' /\ SocketInv'
    BY <1>9, SameHub DEF DialFail, RunInv, SocketInv, Live
  <2>2. DialInv'
    BY <1>9 DEF DialFail, Retry, RunInv, DialInv, Live
  <2>. QED BY <2>1, <2>2 DEF RunInv
<1>10. CASE PeerReturn
  <2>1. HubInv'
    BY <1>10, SameHub DEF PeerReturn, Live
  <2>2. ~sig => \A d \in Dialed : ~Live(d)
    BY <1>10 DEF PeerReturn, RunInv, SocketInv, DialInv
  <2>3. SocketInv'
    <3>1. \A e \in Conns : e # dial => net'[e] = net[e]
      BY <1>10 DEF PeerReturn, TypeOK
    <3>2. \A e \in Conns : e = dial => send[e] = "done" /\ net'[e] = "closed"
      BY <1>10 DEF PeerReturn, TypeOK
    <3>. QED BY <1>10, <3>1, <3>2 DEF PeerReturn, RunInv, SocketInv, Live
  <2>4. DialInv'
    BY <1>10, <2>2 DEF PeerReturn, DialInv, Live
  <2>. QED BY <2>1, <2>3, <2>4 DEF RunInv
<1>11. CASE PeerWake
  <2>1. HubInv' /\ SocketInv'
    BY <1>11, SameHub DEF PeerWake, RunInv, SocketInv, Live
  <2>2. DialInv'
    BY <1>11 DEF PeerWake, RunInv, DialInv, Live
  <2>. QED BY <2>1, <2>2 DEF RunInv
<1>12. CASE PeerFatal
  BY <1>12 DEF PeerFatal
<1>13. CASE CoreTake \/ AcceptorExit
  BY <1>7, <1>13 DEF CoreTake, AcceptorExit
<1>14. CASE CoreExit
  <2>1. HubInv' /\ DialInv'
    BY <1>14, SameHub, SameDial DEF CoreExit, Live
  <2>2. SocketInv'
    BY <1>14 DEF CoreExit, RunInv, SocketInv, Live
  <2>. QED BY <2>1, <2>2 DEF RunInv
<1>15. CASE Interrupt
  <2>1. HubInv' /\ DialInv'
    BY <1>15, SameHub, SameDial DEF Interrupt, Live
  <2>2. SocketInv'
    BY <1>15 DEF Interrupt, RunInv, SocketInv, Live
  <2>. QED BY <2>1, <2>2 DEF RunInv
<1>. QED
  BY <1>1, <1>2, <1>3, <1>4, <1>5, <1>6, <1>8, <1>9, <1>10, <1>11, <1>12,
     <1>13, <1>14, <1>15 DEF Next

LEMMA NextInv == Inv /\ [Next]_vars => Inv'
<1>1. ASSUME Inv, Next PROVE Inv'
  <2>1. TypeOK'
    BY <1>1, NextTypeOK DEF Inv
  <2>2. crash = "no" /\ RunInv
    BY <1>1 DEF Inv, Next
  <2>3. crash' = "no" => RunInv'
    BY <1>1, <2>2, NextRunInv DEF Inv
  <2>4. crash' # "closeOfClosed"
    <3>1. ASSUME NEW c \in Conns, RecvCleanup(c) PROVE crash' # "closeOfClosed"
      BY <1>1, <2>2, <3>1, CleanupRunInv DEF Inv
    <3>. QED
      BY <1>1, <2>2, <3>1
         DEF Next, Accept, DialOk, Break, RecvFrame, RecvDeliver, RecvFail,
             WatchSignal, SendMessage, SendHeartbeat, SendExit, Snapshot,
             PickConn, SendTo, EndRound, WriterExit, DialFail, PeerReturn,
             PeerWake, PeerFatal, CoreTake, CoreExit, AcceptorExit, Interrupt
  <2>. QED BY <2>1, <2>3, <2>4 DEF Inv, NoDoubleClose
<1>2. ASSUME Inv, UNCHANGED vars PROVE Inv'
  BY <1>2 DEF Inv, TypeOK, RunInv, HubInv, SocketInv, DialInv, NoDoubleClose,
     Live, vars, connVars, writerVars, peerVars, loopVars
<1>. QED BY <1>1, <1>2

-----------------------------------------------------------------------------
(***************************************************************************)
(* The theorems.                                                           *)
(***************************************************************************)
(* Every reachable state of the connections satisfies the inductive        *)
(* invariant: AddConnection, the two goroutines of a connection, their     *)
(* cleanup and the dial loop keep it (tcp_core.go, tcp_connection_hub.go). *)
THEOREM HubInvariant == Spec => []Inv
BY InitInv, NextInv, PTL DEF Spec

(* Type correctness: among others, no send channel ever holds more than    *)
(* TCPSocketSendChanSize messages, nor switchDataChan more than its size.  *)
THEOREM HubTypeCorrect == Spec => []TypeOK
<1>1. Inv => TypeOK
  BY DEF Inv
<1>. QED BY <1>1, HubInvariant, PTL

(* The hub holds exactly the connections whose receiver has yet to clean   *)
(* up, under their own addresses and with open channels; so RemoveConnection*)
(* never removes a connection that came later under the same address.      *)
THEOREM HubAlwaysMatches == Spec => []HubMatchesReceivers
<1>1. Inv => HubMatchesReceivers
  BY DEF Inv, RunInv, HubInv, HubMatchesReceivers
<1>. QED BY <1>1, HubInvariant, PTL

(* RemoveConnection never closes a send channel a second time.             *)
THEOREM NeverClosedTwice == Spec => []NoDoubleClose
<1>1. Inv => NoDoubleClose
  BY DEF Inv
<1>. QED BY <1>1, HubInvariant, PTL

(* A registered connection has a goroutine that drains its channel until   *)
(* the interrupt signal comes.                                             *)
THEOREM RegisteredAlwaysDrained == Spec => []RegisteredIsDrained
<1>1. ASSUME Inv PROVE RegisteredIsDrained
  <2>. SUFFICES ASSUME NEW c \in Registered, send[c] = "done", crash = "no"
                PROVE  sig
    BY <1>1 DEF Inv, TypeOK, RegisteredIsDrained
  <2>1. c \in Conns /\ c # NoConn
    BY HubAssumption DEF Registered
  <2>2. PICK a \in Addrs : hub[a] = c
    BY DEF Registered
  <2>3. Live(c)
    BY <1>1, <2>1, <2>2 DEF Inv, RunInv, HubInv
  <2>. QED BY <1>1, <2>1, <2>3 DEF Inv, RunInv, SocketInv
<1>. QED BY <1>1, HubInvariant, PTL

(* connectPeer ends its loop only on the signal or because the hub is full: *)
(* what it lost is off the hub before it dials again, and no connection it *)
(* did not dial is registered under the address of the peer.               *)
THEOREM PeerAlwaysKeepsTrying == Spec => PeerKeepsTrying
<1>1. Inv /\ [Next]_vars => [GivesUpOnlyWhenFull]_vars
  <2>. SUFFICES ASSUME Inv, Next, peer # "stopped", peer' = "stopped", ~sig
                PROVE  Cardinality(Registered) >= MaxConns
    BY DEF GivesUpOnlyWhenFull, Inv, TypeOK
  <2>1. TypeOK /\ RunInv
    BY DEF Inv, Next
  <2>2. PICK c \in Conns : DialOk(c)
    <3>1. \/ \E c \in Conns : DialOk(c)
          \/ peer' = peer \/ DialFail \/ PeerReturn \/ PeerWake
      BY DEF Next, Accept, Break, RecvFrame, RecvDeliver, RecvFail,
             RecvCleanup, WatchSignal, SendMessage, SendHeartbeat, SendExit,
             Snapshot, PickConn, SendTo, EndRound, WriterExit, PeerFatal,
             CoreTake, CoreExit, AcceptorExit, Interrupt, peerVars
    <3>2. ~DialFail /\ ~PeerReturn /\ ~PeerWake
      BY DEF DialFail, PeerReturn, PeerWake, Retry
    <3>. QED BY <3>1, <3>2
  <2>3. ~CanAdd(c) /\ peer = "dialing" /\ c \in Dialed
    BY <2>2 DEF DialOk
  <2>4. hub[AddrOf[c]] = NoConn
    <3>. SUFFICES ASSUME hub[AddrOf[c]] # NoConn PROVE FALSE
      OBVIOUS
    <3>. DEFINE d == hub[AddrOf[c]]
    <3>1. d \in Conns /\ AddrOf[d] = AddrOf[c]
      BY <2>1, HubAssumption DEF TypeOK, RunInv, HubInv
    <3>2. d \in Dialed /\ Live(d)
      BY <2>1, <2>3, <3>1, PeerAddressAssumption DEF RunInv, HubInv
    <3>. QED BY <2>1, <2>3, <3>2 DEF RunInv, DialInv
  <2>5. ~(Cardinality(Registered) < MaxConns)
    BY <2>3, <2>4 DEF CanAdd
  <2>6. Cardinality(Registered) \in Nat
    <3>1. Registered \subseteq Conns
      BY DEF Registered
    <3>2. IsFiniteSet(Registered)
      BY <3>1, HubAssumption, FS_Subset
    <3>. QED BY <3>2, FS_CardinalityType
  <2>. QED BY <2>5, <2>6, HubAssumption
<1>. QED BY <1>1, HubInvariant, PTL DEF Spec, PeerKeepsTrying

-----------------------------------------------------------------------------
(***************************************************************************)
(* The wire: the inductive invariant.  With one key at both ends, the two  *)
(* are in step up to the point where a frame was cut: the pieces under way *)
(* are what the receiver expects, and their bodies the messages written    *)
(* whole that have not reached it.  Behind that point it expects the rest  *)
(* of a frame and meets something else.                                    *)
(***************************************************************************)
(* What the receiver expects to read next, and what the sender writes next. *)
Reading == IF reader = "delivering" THEN "type" ELSE reader
Writing == IF sender \in {"length", "body"} THEN sender ELSE "type"
(* What a reader that has read p expects, and whether p is what it expects.  *)
After(p) ==
  CASE p.what = "type" -> "length"
    [] p.what = "length" -> "body"
    [] OTHER -> "type"
Fits(phase, p) ==
  /\ ~p.cut
  /\ p.what = phase \/ (phase = "type" /\ p.what = "beat")

(* What the receiver will expect after the first i pieces; the first b all   *)
(* are what it will expect.                                                  *)
PhaseAt(i) == IF i = 0 THEN Reading ELSE After(bytes[i])
Framed(b) == \A i \in 1..b : Fits(PhaseAt(i - 1), bytes[i])

(* The bodies among the first b pieces, and the messages that reached the    *)
(* receiver: handed over, or about to be.                                    *)
Bodies(b) == {i \in 1..b : bytes[i].what = "body"}
Done == Len(delivered) + IF reader = "delivering" THEN 1 ELSE 0

(* The bodies among the first b pieces are the messages written whole that   *)
(* have not reached the receiver, in the order they were written.            *)
Carries(b) ==
  /\ \A i, j \in Bodies(b) : i < j => bytes[i].msg < bytes[j].msg
  /\ \A i \in Bodies(b) : \E k \in (Done + 1)..Len(whole) : bytes[i].msg = whole[k]
  /\ \A k \in (Done + 1)..Len(whole) : \E i \in Bodies(b) : bytes[i].msg = whole[k]

(* Behind the first b pieces: nothing, and the sender goes on where they     *)
(* end; or, when a frame has been cut, something the receiver, in the middle *)
(* of a frame, does not expect, if not now then when the sender goes on.     *)
Breaks(b) ==
  IF torn
  THEN /\ PhaseAt(b) \in {"length", "body"}
       /\ IF b = Len(bytes) THEN sender \in {"select", "beat", "type"}
          ELSE ~Fits(PhaseAt(b), bytes[b + 1])
  ELSE b = Len(bytes) /\ PhaseAt(b) = Writing

(* A receiver that is not astray meets what it expects up to some point, and *)
(* what it will hand over until there is what was written whole.             *)
InStep ==
  reader \in {"type", "length", "body", "delivering"} =>
    \E b \in 0..Len(bytes) : Framed(b) /\ Carries(b) /\ Breaks(b)

(* Messages are numbered in the order in which they are taken, and the one   *)
(* that is being written is not yet among those written whole.               *)
Ascending ==
  /\ \A k, l \in 1..Len(whole) : k < l => whole[k] < whole[l]
  /\ \A k \in 1..Len(whole) :
       whole[k] <= taken /\ (sender \in {"type", "length", "body"} => whole[k] < taken)

(* What has reached the receiver is the beginning of what was written whole. *)
DeliveredWhole ==
  /\ Done <= Len(whole)
  /\ \A i \in 1..Len(delivered) : delivered[i] = whole[i]
  /\ reader = "delivering" => arrived = whole[Done]

(* Both ends with one key; without any, as long as no frame has been cut.    *)
SameKey == sendKey = recvKey /\ (recvKey # NoKey \/ ~torn)
SameKeyInv ==
  SameKey =>
    /\ Ascending /\ InStep /\ DeliveredWhole
    /\ reader = "astray" => torn

(* A receiver with a key gets nothing from a sender with another or none.    *)
OtherKeyInv ==
  recvKey # NoKey /\ sendKey # recvKey => reader # "delivering" /\ delivered = <<>>

(* Types, and which values go with which step of a goroutine.                *)
TypesInv ==
  /\ WireTypeOK
  /\ \A i \in 1..Len(bytes) : bytes[i].what # "beat" => bytes[i].msg \in 1..MaxMsgs
  /\ sender \in {"type", "length", "body"} => taken \in 1..MaxMsgs
  /\ reader = "delivering" => arrived \in 1..MaxMsgs \cup {Garbage}
  /\ torn => failed

(* The longest time until the sender has written the last piece of a frame,  *)
(* if its writes meet their deadline.                                        *)
Slack ==
  IF sender = "select" THEN (IF ticked THEN 0 ELSE beatLeft) + WriteTimeout
  ELSE writeLeft
EndsFrame(p) == p.what \in {"beat", "body"}
(* Whether the first k pieces end a frame. *)
FrameIn(k) == \E i \in 1..k : EndsFrame(bytes[i])

(* The end of a frame has arrived; or it is under way and arrives in time;   *)
(* or it will be written, and arrive, in time.                               *)
OnTime ==
  \/ FrameIn(landed)
  \/ FrameIn(Len(bytes)) /\ readLeft + stall > MaxStall
  \/ readLeft > Slack + MaxStall

(* While no write fails and the network is well, a waiting receiver has time *)
(* left.                                                                     *)
Well == sendKey = recvKey /\ ~failed /\ ~late /\ ~broken
Timely ==
  Well => reader # "gone" /\ (Waiting => readLeft > 0 /\ OnTime)

WireInv == TypesInv /\ SameKeyInv /\ OtherKeyInv /\ Timely

(* The first state. *)
LEMMA InitWire ==
  ASSUME WireInit
  PROVE  WireInv
<1>. USE WireAssumption DEF WireInit
<1>1. TypesInv
  <2>1. WireTypeOK
    <3>1. bytes \in Seq(Pieces) /\ delivered \in Seq(1..MaxMsgs \cup {Garbage})
          /\ whole \in Seq(1..MaxMsgs)
      OBVIOUS
    <3>2. /\ sendKey \in SendKeys \cup {NoKey} /\ recvKey \in RecvKeys \cup {NoKey}
          /\ taken \in 0..MaxMsgs /\ beatLeft \in 1..BeatInterval
          /\ writeLeft \in 0..WriteTimeout /\ readLeft \in 0..ReadTimeout
          /\ backlog \in 0..ReceiveChanSize /\ arrived \in 0..MaxMsgs \cup {Garbage}
      OBVIOUS
    <3>3. NetworkTypeOK
      <4>1. Len(bytes) = 0 /\ MaxStall \in Nat
        OBVIOUS
      <4>2. landed \in 0..Len(bytes) /\ stall \in 0..MaxStall
        BY <4>1
      <4>. QED BY <4>2 DEF NetworkTypeOK
    <3>. QED BY <3>1, <3>2, <3>3 DEF WireTypeOK
  <2>2. Len(bytes) = 0
    OBVIOUS
  <2>. QED BY <2>1, <2>2 DEF TypesInv
<1>2. Ascending /\ DeliveredWhole /\ Done = 0
  BY DEF Ascending, DeliveredWhole, Done
<1>3. InStep
  <2>1. Framed(0) /\ Carries(0)
    BY <1>2 DEF Framed, Carries, Bodies
  <2>2. Breaks(0)
    BY DEF Breaks, PhaseAt, Reading, Writing
  <2>. QED BY <2>1, <2>2 DEF InStep
<1>4. Timely
  <2>1. readLeft > 0 /\ readLeft > Slack + MaxStall
    BY DEF Slack
  <2>. QED BY <2>1 DEF Timely, OnTime
<1>. QED BY <1>1, <1>2, <1>3, <1>4 DEF WireInv, SameKeyInv, OtherKeyInv

-----------------------------------------------------------------------------
(***************************************************************************)
(* The wire: types, one lemma per action; what a write, a failed write and *)
(* a read do to the pieces under way.                                      *)
(***************************************************************************)
LEMMA NetworkTypes ==
  ASSUME TypesInv, [WireNext]_wireVars
  PROVE  NetworkTypeOK'
<1>1. /\ bytes \in Seq(Pieces) /\ landed \in 0..Len(bytes) /\ Len(bytes) \in Nat
      /\ stall \in 0..MaxStall /\ late \in BOOLEAN /\ broken \in BOOLEAN
      /\ MaxStall \in Nat
  BY WireAssumption DEF TypesInv, WireTypeOK, NetworkTypeOK
<1>2. ASSUME UNCHANGED networkVars, bytes' = bytes
      PROVE  NetworkTypeOK'
  BY <1>1, <1>2 DEF networkVars, NetworkTypeOK
<1>3. ASSUME UNCHANGED networkVars, NEW p, bytes' = Append(bytes, p)
      PROVE  NetworkTypeOK'
  <2>1. Len(bytes') = Len(bytes) + 1
    BY <1>1, <1>3
  <2>. QED BY <1>1, <1>3, <2>1 DEF networkVars, NetworkTypeOK
<1>4. CASE BeginMessage \/ BeginBeat \/ ReadTimesOut \/ Deliver \/ TakeDelivered
           \/ UNCHANGED wireVars
  BY <1>2, <1>4 DEF BeginMessage, BeginBeat, Begin, ReadTimesOut, Deliver,
                    TakeDelivered, wireVars
<1>5. CASE WritePiece
  BY <1>3, <1>5 DEF WritePiece
<1>6. CASE GiveUp
  BY <1>2, <1>3, <1>6 DEF GiveUp
<1>7. CASE Travel
  <2>1. landed' \in 0..Len(bytes) /\ bytes' = bytes
    BY <1>1, <1>7 DEF Travel, Behind
  <2>2. stall' \in 0..MaxStall /\ late' = late /\ broken' = broken
    BY <1>1, <1>7 DEF Travel
  <2>. QED BY <1>1, <2>1, <2>2 DEF NetworkTypeOK
<1>8. CASE ReadPiece
  <2>1. landed > 0 /\ landed' = landed - 1 /\ bytes' = Tail(bytes)
        /\ UNCHANGED <<stall, late, broken>>
    BY <1>8 DEF ReadPiece
  <2>2. Len(bytes') = Len(bytes) - 1
    BY <1>1, <2>1
  <2>. QED BY <1>1, <2>1, <2>2 DEF NetworkTypeOK
<1>9. CASE ReadFails
  BY <1>1, <1>9 DEF ReadFails, NetworkTypeOK
<1>10. CASE Elapse
  <2>1. stall' \in 0..MaxStall
    BY <1>1, <1>10 DEF Elapse
  <2>2. late' \in BOOLEAN /\ UNCHANGED <<landed, bytes, broken>>
    BY <1>1, <1>10 DEF Elapse
  <2>. QED BY <1>1, <2>1, <2>2 DEF NetworkTypeOK
<1>. QED BY <1>4, <1>5, <1>6, <1>7, <1>8, <1>9, <1>10 DEF WireNext

LEMMA BeginTypes ==
  ASSUME TypesInv, NetworkTypeOK', BeginMessage \/ BeginBeat
  PROVE  TypesInv'
<1>1. /\ taken' \in 0..MaxMsgs /\ ticked' \in BOOLEAN
      /\ sender' \in {"type", "beat"}
      /\ sender' = "type" => taken' \in 1..MaxMsgs
      /\ writeLeft' = WriteTimeout
      /\ UNCHANGED <<keyVars, beatLeft, bytes, readerVars, inboxVars, whole,
                    failed, torn>>
  <2>1. CASE BeginMessage
    BY <2>1, WireAssumption DEF BeginMessage, Begin, TypesInv, WireTypeOK
  <2>2. CASE BeginBeat
    BY <2>2, WireAssumption DEF BeginBeat, Begin, TypesInv, WireTypeOK
  <2>. QED BY <2>1, <2>2
<1>. QED BY <1>1, WireAssumption DEF TypesInv, WireTypeOK, keyVars, readerVars,
   inboxVars

LEMMA WriteFacts ==
  ASSUME TypesInv, WritePiece
  PROVE  \E p \in Pieces :
           /\ p = Piece(sender, IF sender = "beat" THEN 0 ELSE taken, FALSE)
           /\ p.what = sender /\ ~p.cut
           /\ sender # "beat" => p.msg = taken /\ taken \in 1..MaxMsgs
           /\ bytes' = Append(bytes, p)
<1>. DEFINE p == Piece(sender, IF sender = "beat" THEN 0 ELSE taken, FALSE)
<1>1. sender \in {"beat", "type", "length", "body"}
  BY DEF WritePiece, TypesInv, WireTypeOK
<1>2. sender # "beat" => taken \in 1..MaxMsgs
  BY <1>1 DEF TypesInv
<1>3. p \in Pieces
  BY <1>1, <1>2, WireAssumption DEF Piece, Pieces
<1>4. p.what = sender /\ ~p.cut /\ (sender # "beat" => p.msg = taken)
  BY DEF Piece
<1>. QED BY <1>2, <1>3, <1>4 DEF WritePiece

LEMMA WriteTypes ==
  ASSUME TypesInv, NetworkTypeOK', WritePiece
  PROVE  TypesInv'
<1>1. PICK p \in Pieces :
        /\ p.what = sender
        /\ sender # "beat" => p.msg = taken /\ taken \in 1..MaxMsgs
        /\ bytes' = Append(bytes, p)
  BY WriteFacts
<1>2. bytes \in Seq(Pieces) /\ bytes' \in Seq(Pieces)
  BY <1>1 DEF TypesInv, WireTypeOK
<1>3. \A i \in 1..Len(bytes') : bytes'[i].what # "beat" => bytes'[i].msg \in 1..MaxMsgs
  <2>. SUFFICES ASSUME NEW i \in 1..Len(bytes'), bytes'[i].what # "beat"
                PROVE  bytes'[i].msg \in 1..MaxMsgs
    OBVIOUS
  <2>1. bytes'[i] = p \/ (i \in 1..Len(bytes) /\ bytes'[i] = bytes[i])
    BY <1>1, <1>2
  <2>. QED BY <1>1, <2>1 DEF TypesInv
<1>4. /\ sender' \in {"select", "length", "body"}
      /\ writeLeft' \in 0..WriteTimeout
      /\ sender' \in {"length", "body"} => sender # "beat"
  <2>1. writeLeft \in 0..WriteTimeout /\ AfterPiece
        /\ sender \in {"beat", "type", "length", "body"}
    BY DEF WritePiece, TypesInv, WireTypeOK
  <2>2. CASE sender \in {"type", "length"}
    BY <2>1, <2>2 DEF AfterPiece
  <2>3. CASE sender \in {"beat", "body"}
    BY <2>1, <2>3, WireAssumption DEF AfterPiece, Idle
  <2>. QED BY <2>1, <2>2, <2>3
<1>5. whole' \in Seq(1..MaxMsgs)
  <2>1. whole \in Seq(1..MaxMsgs)
    BY DEF TypesInv, WireTypeOK
  <2>2. whole' = whole \/ (sender = "body" /\ whole' = Append(whole, taken))
    BY DEF WritePiece
  <2>3. CASE sender = "body" /\ whole' = Append(whole, taken)
    <3>1. taken \in 1..MaxMsgs
      BY <1>1, <2>3
    <3>. QED BY <2>1, <2>3, <3>1
  <2>. QED BY <2>1, <2>2, <2>3
<1>6. UNCHANGED <<keyVars, taken, tickerVars, readerVars, inboxVars,
                  failed, torn>>
  BY DEF WritePiece
<1>. QED BY <1>1, <1>2, <1>3, <1>4, <1>5, <1>6
         DEF TypesInv, WireTypeOK, keyVars, tickerVars, readerVars,
         inboxVars

LEMMA GiveUpFacts ==
  ASSUME TypesInv, GiveUp
  PROVE  \/ bytes' = bytes
         \/ \E p \in Pieces :
              /\ p.cut /\ p.msg = taken
              /\ sender \in {"length", "body"}
              /\ bytes' = Append(bytes, p)
<1>. SUFFICES ASSUME bytes' # bytes
              PROVE  \E p \in Pieces :
                       /\ p.cut /\ p.msg = taken
                       /\ sender \in {"length", "body"}
                       /\ bytes' = Append(bytes, p)
  OBVIOUS
<1>1. /\ sender \in {"length", "body"}
      /\ bytes' = Append(bytes, Piece(sender, taken, TRUE))
  BY DEF GiveUp
<1>2. Piece(sender, taken, TRUE) \in Pieces
  BY <1>1 DEF Piece, Pieces, TypesInv, WireTypeOK
<1>. QED BY <1>1, <1>2 DEF Piece

LEMMA GiveUpTypes ==
  ASSUME TypesInv, NetworkTypeOK', GiveUp
  PROVE  TypesInv'
<1>1. /\ bytes' \in Seq(Pieces)
      /\ \A i \in 1..Len(bytes') : bytes'[i].what # "beat" => bytes'[i].msg \in 1..MaxMsgs
  <2>1. CASE bytes' = bytes
    BY <2>1 DEF TypesInv, WireTypeOK
  <2>2. CASE bytes' # bytes
    <3>1. PICK p \in Pieces : p.msg = taken /\ sender \in {"length", "body"}
                              /\ bytes' = Append(bytes, p)
      BY <2>2, GiveUpFacts
    <3>. QED BY <3>1 DEF TypesInv, WireTypeOK
  <2>. QED BY <2>1, <2>2
<1>2. /\ sender' = "select" /\ writeLeft' = 0 /\ failed' = TRUE /\ torn' \in BOOLEAN
      /\ UNCHANGED <<keyVars, taken, tickerVars, readerVars, inboxVars,
                     whole>>
  BY DEF GiveUp, Idle, TypesInv, WireTypeOK
<1>. QED BY <1>1, <1>2, WireAssumption
         DEF TypesInv, WireTypeOK, keyVars, tickerVars, readerVars,
         inboxVars

(* The head of the bytes is read. *)
LEMMA ReadFacts ==
  ASSUME TypesInv, ReadPiece
  PROVE  /\ bytes \in Seq(Pieces) /\ Len(bytes) \in Nat /\ Len(bytes) > 0
         /\ Head(bytes) = bytes[1] /\ bytes[1] \in Pieces
         /\ bytes' \in Seq(Pieces) /\ Len(bytes') = Len(bytes) - 1
         /\ \A i \in 1..Len(bytes') : i + 1 \in 1..Len(bytes) /\ bytes'[i] = bytes[i + 1]
         /\ bytes[1].what = "body" => bytes[1].msg \in 1..MaxMsgs
<1>1. bytes \in Seq(Pieces) /\ bytes # <<>> /\ bytes' = Tail(bytes)
  <2>1. bytes \in Seq(Pieces) /\ landed \in 0..Len(bytes) /\ landed > 0
    BY DEF ReadPiece, TypesInv, WireTypeOK, NetworkTypeOK
  <2>. QED BY <2>1 DEF ReadPiece
<1>2. Len(bytes) > 0 /\ 1 \in 1..Len(bytes)
  BY <1>1
<1>. QED BY <1>1, <1>2 DEF TypesInv

LEMMA ReadTypes ==
  ASSUME TypesInv, NetworkTypeOK', ReadPiece
  PROVE  TypesInv'
<1>. DEFINE p == bytes[1]
<1>1. /\ p = Head(bytes) /\ p \in Pieces
      /\ p.what = "body" => p.msg \in 1..MaxMsgs
      /\ bytes' \in Seq(Pieces)
      /\ \A i \in 1..Len(bytes') : i + 1 \in 1..Len(bytes) /\ bytes'[i] = bytes[i + 1]
  BY ReadFacts
<1>2. \A i \in 1..Len(bytes') : bytes'[i].what # "beat" => bytes'[i].msg \in 1..MaxMsgs
  BY <1>1 DEF TypesInv
<1>3. ReadType(p) \/ ReadLength(p) \/ ReadBody(p) \/ ReadAstray(p)
  BY <1>1 DEF ReadPiece
<1>4. /\ reader \in {"type", "length", "body", "astray"}
      /\ readLeft \in 0..ReadTimeout /\ arrived \in 0..MaxMsgs \cup {Garbage}
  BY DEF ReadPiece, Waiting, TypesInv, WireTypeOK
<1>5. /\ reader' \in {"type", "length", "body", "astray", "delivering", "gone"}
      /\ readLeft' \in 0..ReadTimeout
      /\ arrived' \in 0..MaxMsgs \cup {Garbage}
      /\ reader' = "delivering" => arrived' \in 1..MaxMsgs \cup {Garbage}
  <2>. HIDE DEF p
  <2>1. CASE ReadType(p)
    BY <1>4, <2>1, WireAssumption DEF ReadType, NextFrame
  <2>2. CASE ReadLength(p)
    BY <1>4, <2>2 DEF ReadLength
  <2>3. CASE ReadBody(p)
    BY <1>1, <1>4, <2>3, WireAssumption DEF ReadBody, Leave, HandOver
  <2>4. CASE ReadAstray(p)
    BY <1>4, <2>4, WireAssumption DEF ReadAstray, WaitForMore, Leave,
       HandOver
  <2>. QED BY <1>3, <2>1, <2>2, <2>3, <2>4
<1>6. UNCHANGED <<keyVars, senderVars, tickerVars, inboxVars>>
  BY DEF ReadPiece
<1>. QED BY <1>1, <1>2, <1>5, <1>6
         DEF TypesInv, WireTypeOK, keyVars, senderVars, tickerVars,
         inboxVars

LEMMA DeliverTypes ==
  ASSUME TypesInv, NetworkTypeOK', Deliver
  PROVE  TypesInv'
<1>1. delivered' \in Seq(1..MaxMsgs \cup {Garbage})
  BY DEF Deliver, Recorded, TypesInv, WireTypeOK
<1>2. /\ reader' \in {"type", "astray"} /\ readLeft' \in 0..ReadTimeout
      /\ arrived' \in 0..MaxMsgs
      /\ backlog' \in 0..ReceiveChanSize
  <2>1. /\ reader' \in {"type", "astray"} /\ readLeft' = ReadTimeout /\ arrived' = 0
        /\ backlog < ReceiveChanSize /\ backlog' = backlog + 1
    BY DEF Deliver, NextFrame
  <2>2. backlog \in 0..ReceiveChanSize
    BY DEF TypesInv, WireTypeOK
  <2>. QED BY <2>1, <2>2, WireAssumption
<1>3. UNCHANGED <<keyVars, senderVars, tickerVars, bytes>>
  BY DEF Deliver
<1>. QED BY <1>1, <1>2, <1>3
         DEF TypesInv, WireTypeOK, keyVars, senderVars, tickerVars

LEMMA OtherTypes ==
  ASSUME TypesInv, NetworkTypeOK',
         ReadTimesOut \/ ReadFails \/ Travel \/ TakeDelivered \/ Elapse
         \/ UNCHANGED wireVars
  PROVE  TypesInv'
<1>1. CASE ReadTimesOut
  BY <1>1, WireAssumption DEF TypesInv, WireTypeOK, ReadTimesOut, Leave,
     keyVars, senderVars, tickerVars, inboxVars
<1>6. CASE ReadFails
  BY <1>6, WireAssumption DEF TypesInv, WireTypeOK, ReadFails, Leave,
     keyVars, senderVars, tickerVars, inboxVars
<1>5. CASE Travel
  BY <1>5 DEF TypesInv, WireTypeOK, Travel, keyVars, senderVars, tickerVars,
     readerVars, inboxVars
<1>2. CASE TakeDelivered
  BY <1>2, WireAssumption DEF TypesInv, WireTypeOK, TakeDelivered, keyVars,
     senderVars, tickerVars, readerVars
<1>3. CASE Elapse
  <2>1. beatLeft \in 1..BeatInterval /\ writeLeft \in 0..WriteTimeout
        /\ readLeft \in 0..ReadTimeout
    BY DEF TypesInv, WireTypeOK
  <2>2. /\ beatLeft' \in 1..BeatInterval /\ writeLeft' \in 0..WriteTimeout
        /\ readLeft' \in 0..ReadTimeout
    BY <1>3, <2>1, WireAssumption DEF Elapse, LessOne
  <2>3. ticked' \in BOOLEAN
    BY <1>3 DEF Elapse
  <2>4. UNCHANGED <<keyVars, sender, taken, whole, failed, torn, bytes, reader, arrived,
                    inboxVars>>
    BY <1>3 DEF Elapse
  <2>5. NetworkTypeOK'
    <3>1. UNCHANGED <<landed, bytes, broken>>
      BY <1>3 DEF Elapse
    <3>2. stall' \in 0..MaxStall
      BY <1>3, WireAssumption DEF Elapse, TypesInv, WireTypeOK, NetworkTypeOK
    <3>3. late' \in BOOLEAN
      BY <1>3 DEF Elapse
    <3>. QED
      BY <3>1, <3>2, <3>3 DEF TypesInv, WireTypeOK, NetworkTypeOK
  <2>6. WireTypeOK'
    BY <2>2, <2>3, <2>4, <2>5 DEF TypesInv, WireTypeOK, keyVars, inboxVars
  <2>. QED BY <2>4, <2>6 DEF TypesInv
<1>4. CASE UNCHANGED wireVars
  BY <1>4 DEF TypesInv, WireTypeOK, wireVars, keyVars, senderVars,
     tickerVars, readerVars, inboxVars
<1>. QED BY <1>1, <1>2, <1>3, <1>4, <1>5, <1>6

LEMMA NextWireTypes ==
  ASSUME TypesInv, [WireNext]_wireVars
  PROVE  TypesInv'
BY NetworkTypes, BeginTypes, WriteTypes, GiveUpTypes, ReadTypes, DeliverTypes,
   OtherTypes DEF WireNext

-----------------------------------------------------------------------------
(***************************************************************************)
(* The wire: what the pieces mean to the receiver depends on them, on what *)
(* it expects and on what has reached it, and on nothing else.             *)
(***************************************************************************)
LEMMA BytesType ==
  ASSUME TypesInv
  PROVE  bytes \in Seq(Pieces) /\ Len(bytes) \in Nat
         /\ whole \in Seq(1..MaxMsgs) /\ Len(whole) \in Nat
         /\ delivered \in Seq(1..MaxMsgs \cup {Garbage}) /\ Len(delivered) \in Nat
BY DEF TypesInv, WireTypeOK

LEMMA WholeNumbers ==
  ASSUME TypesInv
  PROVE  taken \in Nat /\ \A k \in 1..Len(whole) : whole[k] \in Nat
<1>1. MaxMsgs \in Nat
  BY WireAssumption
<1>2. taken \in 0..MaxMsgs /\ whole \in Seq(1..MaxMsgs)
  BY DEF TypesInv, WireTypeOK
<1>3. \A k \in 1..Len(whole) : whole[k] \in Nat
  BY <1>1, <1>2
<1>. QED BY <1>1, <1>2, <1>3

(* More pieces change nothing of those that are under way. *)
LEMMA SamePieces ==
  ASSUME TypesInv, NEW b \in 0..Len(bytes),
         Len(bytes') \in Nat, Len(bytes) <= Len(bytes'),
         \A i \in 1..Len(bytes) : bytes'[i] = bytes[i],
         Reading' = Reading
  PROVE  /\ b \in 0..Len(bytes')
         /\ PhaseAt(b)' = PhaseAt(b)
         /\ Framed(b)' <=> Framed(b)
         /\ Bodies(b)' = Bodies(b)
<1>1. b \in Nat /\ b <= Len(bytes) /\ b \in 0..Len(bytes')
  BY BytesType
<1>2. \A i \in 1..b : i \in 1..Len(bytes) /\ bytes'[i] = bytes[i] /\ i - 1 \in 0..b
  BY <1>1, BytesType
<1>3. \A i \in 0..b : PhaseAt(i)' = PhaseAt(i)
  <2>1. \A i \in 0..b : i = 0 \/ i \in 1..b
    BY <1>1
  <2>. QED BY <1>2, <2>1 DEF PhaseAt, After
<1>4. Framed(b)' <=> Framed(b)
  BY <1>2, <1>3 DEF Framed, Fits
<1>5. Bodies(b)' = Bodies(b)
  BY <1>2 DEF Bodies
<1>. QED BY <1>1, <1>3, <1>4, <1>5

LEMMA SameCarries ==
  ASSUME TypesInv, NEW b \in 0..Len(bytes),
         \A i \in 1..Len(bytes) : bytes'[i] = bytes[i],
         Bodies(b)' = Bodies(b), whole' = whole, Done' = Done, Carries(b)
  PROVE  Carries(b)'
<1>1. \A i \in Bodies(b) : bytes'[i] = bytes[i]
  BY BytesType DEF Bodies
<1>2. \A i, j \in Bodies(b) : i < j => bytes'[i].msg < bytes'[j].msg
  BY <1>1 DEF Carries
<1>3. \A i \in Bodies(b) :
        \E k \in (Done + 1)..Len(whole) : bytes'[i].msg = whole[k]
  BY <1>1 DEF Carries
<1>4. \A k \in (Done + 1)..Len(whole) :
        \E i \in Bodies(b) : bytes'[i].msg = whole[k]
  BY <1>1 DEF Carries
<1>. QED BY <1>2, <1>3, <1>4 DEF Carries

(* An action that adds no piece, or one that was cut, and nothing to what is *)
(* written whole or delivered.                                               *)
LEMMA SamePrefix ==
  ASSUME TypesInv, NEW b \in 0..Len(bytes), Framed(b), Carries(b),
         Len(bytes') \in Nat, Len(bytes) <= Len(bytes'),
         \A i \in 1..Len(bytes) : bytes'[i] = bytes[i],
         Reading' = Reading, whole' = whole, Done' = Done
  PROVE  /\ b \in 0..Len(bytes') /\ Framed(b)' /\ Carries(b)'
         /\ PhaseAt(b)' = PhaseAt(b)
BY SamePieces, SameCarries

(* An action that leaves the pieces alone. *)
LEMMA SameInStep ==
  ASSUME TypesInv, InStep,
         bytes' = bytes, Reading' = Reading, whole' = whole, Done' = Done,
         torn' = torn, Writing' = Writing,
         reader' \in {"type", "length", "body", "delivering"} =>
           reader \in {"type", "length", "body", "delivering"},
         torn => sender \in {"length", "body"} \/ sender' \in {"select", "beat", "type"}
  PROVE  InStep'
<1>. SUFFICES ASSUME reader' \in {"type", "length", "body", "delivering"}
              PROVE  \E b \in 0..Len(bytes') : Framed(b)' /\ Carries(b)' /\ Breaks(b)'
  BY DEF InStep
<1>1. PICK b \in 0..Len(bytes) : Framed(b) /\ Carries(b) /\ Breaks(b)
  BY DEF InStep
<1>2. /\ b \in 0..Len(bytes') /\ Framed(b)' /\ Carries(b)'
      /\ PhaseAt(b)' = PhaseAt(b)
  BY <1>1, BytesType, SamePrefix
<1>3. Breaks(b)'
  BY <1>1, <1>2 DEF Breaks, Fits
<1>. QED BY <1>2, <1>3

-----------------------------------------------------------------------------
(***************************************************************************)
(* The wire: the two ends stay in step.  One lemma per action.             *)
(***************************************************************************)
LEMMA SameKeyBefore ==
  ASSUME SameKey', UNCHANGED keyVars, torn => torn'
  PROVE  SameKey
BY DEF SameKey, keyVars

(* A frame begins. *)
LEMMA BeginSame ==
  ASSUME TypesInv, SameKeyInv, BeginMessage \/ BeginBeat
  PROVE  SameKeyInv'
<1>. SUFFICES ASSUME SameKey'
              PROVE  (Ascending /\ InStep /\ DeliveredWhole /\ (reader = "astray" => torn))'
  BY DEF SameKeyInv
<1>1. /\ UNCHANGED <<keyVars, bytes, reader, arrived, delivered, whole, torn>>
      /\ sender = "select"
      /\ \/ sender' = "type" /\ taken' = taken + 1
         \/ sender' = "beat" /\ taken' = taken
  BY DEF BeginMessage, BeginBeat, Begin, readerVars, inboxVars
<1>2. Ascending /\ InStep /\ DeliveredWhole /\ (reader = "astray" => torn)
  BY <1>1, SameKeyBefore DEF SameKeyInv
<1>3. Ascending'
  BY <1>1, <1>2, WholeNumbers DEF Ascending
<1>4. Reading' = Reading /\ Done' = Done /\ Writing' = Writing
  BY <1>1 DEF Reading, Done, Writing
<1>5. InStep'
  BY <1>1, <1>2, <1>4, SameInStep
<1>6. DeliveredWhole'
  BY <1>1, <1>2, <1>4 DEF DeliveredWhole
<1>. QED BY <1>1, <1>2, <1>3, <1>5, <1>6

(* A write fails: part of a frame may be out, and none of what follows it   *)
(* is what the receiver expects.                                             *)
LEMMA GiveUpSame ==
  ASSUME TypesInv, SameKeyInv, GiveUp
  PROVE  SameKeyInv'
<1>. SUFFICES ASSUME SameKey'
              PROVE  (Ascending /\ InStep /\ DeliveredWhole /\ (reader = "astray" => torn))'
  BY DEF SameKeyInv
<1>1. /\ UNCHANGED <<keyVars, taken, reader, arrived, delivered, whole>>
      /\ sender # "select" /\ sender' = "select"
      /\ torn' = (torn \/ sender \in {"length", "body"})
  BY DEF GiveUp, Idle, readerVars, inboxVars
<1>2. Ascending /\ InStep /\ DeliveredWhole /\ (reader = "astray" => torn)
  BY <1>1, SameKeyBefore DEF SameKeyInv
<1>3. Ascending'
  BY <1>1, <1>2 DEF Ascending
<1>4. Reading' = Reading /\ Done' = Done
  BY <1>1 DEF Reading, Done
<1>5. InStep'
  <2>. SUFFICES ASSUME reader \in {"type", "length", "body", "delivering"}
                PROVE  \E b \in 0..Len(bytes') : Framed(b)' /\ Carries(b)' /\ Breaks(b)'
    BY <1>1 DEF InStep
  <2>1. PICK b \in 0..Len(bytes) : Framed(b) /\ Carries(b) /\ Breaks(b)
    BY <1>2 DEF InStep
  <2>2. sender \in {"beat", "type", "length", "body"}
    BY <1>1 DEF TypesInv, WireTypeOK
  <2>3. CASE bytes' = bytes
    <3>1. /\ b \in 0..Len(bytes') /\ Framed(b)' /\ Carries(b)'
          /\ PhaseAt(b)' = PhaseAt(b)
      BY <1>1, <1>4, <2>1, <2>3, BytesType, SamePrefix
    <3>2. Breaks(b)'
      BY <1>1, <2>1, <2>2, <2>3, <3>1 DEF Breaks, Writing, Fits
    <3>. QED BY <3>1, <3>2
  <2>4. CASE bytes' # bytes
    <3>1. PICK p \in Pieces : /\ p.cut /\ sender \in {"length", "body"}
                              /\ bytes' = Append(bytes, p)
      BY <2>4, GiveUpFacts
    <3>2. /\ Len(bytes') = Len(bytes) + 1 /\ bytes'[Len(bytes) + 1] = p
          /\ \A i \in 1..Len(bytes) : bytes'[i] = bytes[i]
      BY <3>1, BytesType
    <3>3. /\ b \in 0..Len(bytes') /\ Framed(b)' /\ Carries(b)'
          /\ PhaseAt(b)' = PhaseAt(b)
      BY <1>1, <1>4, <2>1, <3>2, BytesType, SamePrefix
    <3>4. PhaseAt(b) \in {"length", "body"}
      BY <2>1, <3>1 DEF Breaks, Writing
    <3>5. b # Len(bytes') /\ ~Fits(PhaseAt(b), bytes'[b + 1])
      <4>1. CASE b = Len(bytes)
        BY <3>1, <3>2, <4>1, BytesType DEF Fits
      <4>2. CASE b # Len(bytes)
        <5>1. b + 1 \in 1..Len(bytes) /\ b # Len(bytes')
          BY <3>2, <4>2, BytesType
        <5>. QED BY <2>1, <3>2, <4>2, <5>1 DEF Breaks
      <4>. QED BY <4>1, <4>2
    <3>6. Breaks(b)'
      BY <1>1, <3>1, <3>3, <3>4, <3>5 DEF Breaks, Fits
    <3>. QED BY <3>3, <3>6
  <2>. QED BY <2>3, <2>4
<1>6. DeliveredWhole'
  BY <1>1, <1>2, <1>4 DEF DeliveredWhole
<1>. QED BY <1>1, <1>2, <1>3, <1>5, <1>6

(* A piece is written: the next one the receiver expects, or one behind a    *)
(* frame that was cut.                                                       *)
LEMMA WriteSame ==
  ASSUME TypesInv, SameKeyInv, WritePiece
  PROVE  SameKeyInv'
<1>. SUFFICES ASSUME SameKey'
              PROVE  (Ascending /\ InStep /\ DeliveredWhole /\ (reader = "astray" => torn))'
  BY DEF SameKeyInv
<1>0. PICK n \in Nat : n = Len(bytes) + 1
  BY BytesType
<1>1. /\ UNCHANGED <<keyVars, taken, reader, arrived, delivered, torn>>
      /\ AfterPiece
      /\ whole' = IF sender = "body" /\ ~torn THEN Append(whole, taken) ELSE whole
      /\ sender \in {"beat", "type", "length", "body"}
  BY DEF WritePiece, readerVars, inboxVars, TypesInv, WireTypeOK
<1>2. Ascending /\ InStep /\ DeliveredWhole /\ (reader = "astray" => torn)
  BY <1>1, SameKeyBefore DEF SameKeyInv
<1>3. PICK p \in Pieces :
        /\ p.what = sender /\ ~p.cut
        /\ sender # "beat" => p.msg = taken /\ taken \in 1..MaxMsgs
        /\ bytes' = Append(bytes, p)
  BY WriteFacts
<1>4. /\ n \in Nat /\ n > 0 /\ Len(bytes) = n - 1 /\ Len(bytes') = n /\ bytes'[n] = p
      /\ \A i \in 1..Len(bytes) : bytes'[i] = bytes[i]
  BY <1>0, <1>3, BytesType
<1>5. /\ sender = "type" => sender' = "length"
      /\ sender = "length" => sender' = "body"
      /\ sender \in {"beat", "body"} => sender' = "select"
  BY <1>1 DEF AfterPiece, Idle
<1>6. /\ Len(whole') \in Nat /\ Len(whole) <= Len(whole')
      /\ \A k \in 1..Len(whole) : whole'[k] = whole[k]
      /\ \A k \in 1..Len(whole') :
           k \in 1..Len(whole) \/ (sender = "body" /\ ~torn /\ k = Len(whole) + 1
                                   /\ whole'[k] = taken)
      /\ sender = "body" /\ ~torn => Len(whole') = Len(whole) + 1
      /\ ~(sender = "body" /\ ~torn) => whole' = whole
  <2>1. CASE sender = "body" /\ ~torn
    <3>1. taken \in 1..MaxMsgs /\ whole' = Append(whole, taken)
      BY <1>1, <1>3, <2>1
    <3>. QED BY <2>1, <3>1, BytesType, WireAssumption
  <2>2. CASE ~(sender = "body" /\ ~torn)
    BY <1>1, <2>2, BytesType
  <2>. QED BY <2>1, <2>2
<1>7. taken \in Nat /\ \A k \in 1..Len(whole) : whole[k] \in Nat
  BY WholeNumbers
<1>8. Ascending'
  <2>1. \A k, l \in 1..Len(whole') : k < l => whole'[k] < whole'[l]
    BY <1>1, <1>2, <1>6, <1>7, BytesType DEF Ascending
  <2>2. \A k \in 1..Len(whole') :
          whole'[k] <= taken /\ (sender' \in {"type", "length", "body"} => whole'[k] < taken)
    BY <1>1, <1>2, <1>5, <1>6, <1>7 DEF Ascending
  <2>. QED BY <1>1, <2>1, <2>2 DEF Ascending
<1>9. Reading' = Reading /\ Done' = Done /\ Done \in Nat
  BY <1>1, BytesType DEF Reading, Done
<1>10. DeliveredWhole'
  <2>1. Done \in 0..Len(whole) /\ \A i \in 1..Len(delivered) : i \in 1..Len(whole)
    BY <1>2, <1>9, BytesType DEF DeliveredWhole, Done
  <2>2. Done' <= Len(whole')
    BY <1>6, <1>9, <2>1, BytesType
  <2>3. \A i \in 1..Len(delivered) : delivered[i] = whole'[i]
    BY <1>2, <1>6, <2>1 DEF DeliveredWhole
  <2>4. reader = "delivering" => Done \in 1..Len(whole)
    BY <2>1, BytesType DEF Done
  <2>5. reader = "delivering" => arrived = whole'[Done]
    BY <1>2, <1>6, <2>4 DEF DeliveredWhole
  <2>. QED BY <1>1, <1>9, <2>2, <2>3, <2>5 DEF DeliveredWhole
<1>11. InStep'
  <2>. SUFFICES ASSUME reader \in {"type", "length", "body", "delivering"}
                PROVE  \E b \in 0..Len(bytes') : Framed(b)' /\ Carries(b)' /\ Breaks(b)'
    BY <1>1 DEF InStep
  <2>1. PICK b \in 0..Len(bytes) : Framed(b) /\ Carries(b) /\ Breaks(b)
    BY <1>2 DEF InStep
  <2>2. /\ b \in 0..Len(bytes') /\ (Framed(b)' <=> Framed(b))
        /\ PhaseAt(b)' = PhaseAt(b) /\ Bodies(b)' = Bodies(b)
    BY <1>4, <1>9, BytesType, SamePieces
  <2>3. CASE torn
    <3>1. whole' = whole
      BY <1>6, <2>3
    <3>2. Carries(b)'
      BY <1>4, <1>9, <2>1, <2>2, <3>1, SameCarries
    <3>3. PhaseAt(b) \in {"length", "body"}
      BY <2>1, <2>3 DEF Breaks
    <3>4. b # Len(bytes') /\ ~Fits(PhaseAt(b), bytes'[b + 1])
      <4>1. CASE b = Len(bytes)
        <5>1. sender \in {"beat", "type"}
          BY <1>1, <2>1, <2>3, <4>1 DEF Breaks
        <5>. QED BY <1>3, <1>4, <3>3, <4>1, <5>1, BytesType DEF Fits
      <4>2. CASE b # Len(bytes)
        <5>1. b + 1 \in 1..Len(bytes) /\ b # Len(bytes')
          BY <1>4, <4>2, BytesType
        <5>. QED BY <1>4, <2>1, <2>3, <4>2, <5>1 DEF Breaks
      <4>. QED BY <4>1, <4>2
    <3>5. Breaks(b)'
      BY <1>1, <2>2, <2>3, <3>3, <3>4 DEF Breaks, Fits
    <3>. QED BY <2>1, <2>2, <3>2, <3>5
  <2>4. CASE ~torn
    <3>1. b = n - 1 /\ PhaseAt(b) = Writing
      BY <1>4, <2>1, <2>4 DEF Breaks
    <3>2. PhaseAt(n)' = After(p) /\ After(p) = Writing'
      <4>1. PhaseAt(n)' = After(p)
        BY <1>4 DEF PhaseAt, After
      <4>2. After(p) = Writing'
        BY <1>1, <1>3, <1>5 DEF After, Writing
      <4>. QED BY <4>1, <4>2
    <3>3. Breaks(n)'
      BY <1>1, <1>4, <2>4, <3>2 DEF Breaks
    <3>4. Fits(PhaseAt(n - 1)', p)
      BY <1>1, <1>3, <2>2, <3>1 DEF Fits, Writing
    <3>5. Framed(n)'
      <4>1. \A i \in 1..n : i = n \/ i \in 1..b
        BY <1>4, <3>1
      <4>2. \A i \in 1..b : Fits(PhaseAt(i - 1)', bytes'[i])
        BY <2>1, <2>2 DEF Framed, Fits
      <4>3. \A i \in 1..n : Fits(PhaseAt(i - 1)', bytes'[i])
        BY <1>4, <3>4, <4>1, <4>2
      <4>. QED BY <4>3 DEF Framed, Fits
    <3>6. Bodies(n)' = Bodies(b) \cup (IF sender = "body" THEN {n} ELSE {})
      BY <1>3, <1>4, <3>1 DEF Bodies
    <3>7. \A i \in Bodies(b) : i \in Nat /\ i < n /\ bytes'[i] = bytes[i]
      BY <1>4, <3>1 DEF Bodies
    <3>8. Carries(n)'
      <4>1. CASE sender # "body"
        <5>1. Bodies(n)' = Bodies(b) /\ whole' = whole
          BY <1>6, <3>6, <4>1
        <5>2. \A i, j \in Bodies(b) : i < j => bytes'[i].msg < bytes'[j].msg
          BY <2>1, <3>7 DEF Carries
        <5>3. \A i \in Bodies(b) :
                \E k \in (Done + 1)..Len(whole) : bytes'[i].msg = whole[k]
          BY <2>1, <3>7 DEF Carries
        <5>4. \A k \in (Done + 1)..Len(whole) :
                \E i \in Bodies(b) : bytes'[i].msg = whole[k]
          BY <2>1, <3>7 DEF Carries
        <5>. QED BY <1>9, <5>1, <5>2, <5>3, <5>4 DEF Carries
      <4>2. CASE sender = "body"
        <5>1. /\ Len(whole') = Len(whole) + 1 /\ whole'[Len(whole) + 1] = taken
              /\ p.msg = taken
          BY <1>3, <1>6, <2>4, <4>2, BytesType
        <5>2. \A k \in (Done + 1)..Len(whole) : k \in 1..Len(whole) /\ whole'[k] = whole[k]
          BY <1>6, <1>9, BytesType
        <5>3. \A i \in Bodies(b) :
                \E k \in (Done + 1)..Len(whole) : bytes'[i].msg = whole'[k]
          <6>. SUFFICES ASSUME NEW i \in Bodies(b)
                        PROVE  \E k \in (Done + 1)..Len(whole) : bytes'[i].msg = whole'[k]
            OBVIOUS
          <6>1. PICK k \in (Done + 1)..Len(whole) : bytes[i].msg = whole[k]
            BY <2>1 DEF Carries
          <6>. QED BY <3>7, <5>2, <6>1
        <5>4. \A i \in Bodies(b) : bytes'[i].msg < taken
          BY <1>2, <4>2, <5>2, <5>3 DEF Ascending
        <5>5. \A i, j \in Bodies(n)' : i < j => bytes'[i].msg < bytes'[j].msg
          <6>. SUFFICES ASSUME NEW i \in Bodies(n)', NEW j \in Bodies(n)', i < j
                        PROVE  bytes'[i].msg < bytes'[j].msg
            OBVIOUS
          <6>1. i \in Bodies(b)
            <7>1. i \in Bodies(b) \cup {n} /\ j \in Bodies(b) \cup {n}
              BY <3>6, <4>2
            <7>2. i # n
              BY <1>0, <3>7, <7>1
            <7>. QED BY <7>1, <7>2
          <6>2. CASE j \in Bodies(b)
            BY <2>1, <3>7, <6>1, <6>2 DEF Carries
          <6>3. CASE j = n
            BY <1>4, <5>1, <5>4, <6>1, <6>3
          <6>. QED BY <3>6, <4>2, <6>2, <6>3
        <5>6. \A i \in Bodies(n)' :
                \E k \in (Done + 1)..Len(whole') : bytes'[i].msg = whole'[k]
          <6>. SUFFICES ASSUME NEW i \in Bodies(n)'
                        PROVE  \E k \in (Done + 1)..Len(whole') : bytes'[i].msg = whole'[k]
            OBVIOUS
          <6>1. CASE i = n
            <7>1. Len(whole) + 1 \in (Done + 1)..Len(whole')
              BY <1>2, <1>9, <5>1, BytesType DEF DeliveredWhole
            <7>. QED BY <1>4, <5>1, <6>1, <7>1
          <6>2. CASE i \in Bodies(b)
            <7>1. \A k \in (Done + 1)..Len(whole) : k \in (Done + 1)..Len(whole')
              BY <1>9, <5>1, BytesType
            <7>. QED BY <5>3, <6>2, <7>1
          <6>. QED BY <3>6, <4>2, <6>1, <6>2
        <5>7. \A k \in (Done + 1)..Len(whole') :
                \E i \in Bodies(n)' : bytes'[i].msg = whole'[k]
          <6>. SUFFICES ASSUME NEW k \in (Done + 1)..Len(whole')
                        PROVE  \E i \in Bodies(n)' : bytes'[i].msg = whole'[k]
            OBVIOUS
          <6>1. CASE k = Len(whole) + 1
            BY <1>4, <3>6, <4>2, <5>1, <6>1
          <6>2. CASE k \in (Done + 1)..Len(whole)
            <7>1. PICK i \in Bodies(b) : bytes[i].msg = whole[k]
              BY <2>1, <6>2 DEF Carries
            <7>. QED BY <3>6, <3>7, <5>2, <6>2, <7>1
          <6>3. k = Len(whole) + 1 \/ k \in (Done + 1)..Len(whole)
            BY <1>9, <5>1, BytesType
          <6>. QED BY <6>1, <6>2, <6>3
        <5>. QED BY <1>9, <5>5, <5>6, <5>7 DEF Carries
      <4>. QED BY <4>1, <4>2
    <3>9. n \in 0..Len(bytes')
      BY <1>4
    <3>. QED BY <3>3, <3>5, <3>8, <3>9
  <2>. QED BY <2>3, <2>4
<1>. QED BY <1>1, <1>2, <1>8, <1>10, <1>11

(* The first piece is read.  If it is a body, it is that of the first        *)
(* message that was written whole and has not reached the receiver.          *)
LEMMA ReadCarries ==
  ASSUME TypesInv, ReadPiece,
         NEW b \in 1..Len(bytes), Framed(b), Carries(b),
         whole' = whole, Ascending,
         Done \in Nat, Done <= Len(whole),
         Done' = Done + IF bytes[1].what = "body" THEN 1 ELSE 0
  PROVE  /\ Carries(b - 1)'
         /\ bytes[1].what = "body" =>
              Done + 1 \in 1..Len(whole) /\ bytes[1].msg = whole[Done + 1]
<1>1. /\ \A i \in 1..Len(bytes') : i + 1 \in 1..Len(bytes) /\ bytes'[i] = bytes[i + 1]
      /\ Len(bytes') = Len(bytes) - 1 /\ Len(bytes) \in Nat
  BY ReadFacts
<1>0. PICK c \in Nat : c = b - 1
  BY <1>1
<1>2. b \in Nat /\ b = c + 1 /\ c \in Nat /\ 1 \in 1..b
  BY <1>0, <1>1
<1>3. \A i \in Bodies(c)' : /\ i \in Nat /\ i > 0
                            /\ i + 1 \in Bodies(b)
                            /\ bytes'[i] = bytes[i + 1]
  BY <1>1, <1>2 DEF Bodies
<1>4. \A i \in Bodies(b) : i # 1 => /\ i - 1 \in Bodies(c)'
                                    /\ bytes'[i - 1] = bytes[i]
  <2>. SUFFICES ASSUME NEW i \in Bodies(b), i # 1
                PROVE  i - 1 \in Bodies(c)' /\ bytes'[i - 1] = bytes[i]
    OBVIOUS
  <2>1. i \in 1..b /\ bytes[i].what = "body" /\ i - 1 \in 1..c
    BY <1>2 DEF Bodies
  <2>2. i - 1 \in 1..Len(bytes') /\ (i - 1) + 1 = i
    BY <1>1, <1>2, <2>1
  <2>. QED BY <1>1, <2>1, <2>2 DEF Bodies
<1>5. \A i, j \in Bodies(c)' : i < j => bytes'[i].msg < bytes'[j].msg
  <2>. SUFFICES ASSUME NEW i \in Bodies(c)', NEW j \in Bodies(c)', i < j
                PROVE  bytes'[i].msg < bytes'[j].msg
    OBVIOUS
  <2>1. i + 1 \in Bodies(b) /\ j + 1 \in Bodies(b) /\ i + 1 < j + 1
    BY <1>3
  <2>. QED BY <1>3, <2>1 DEF Carries
<1>6. Len(whole) \in Nat /\ \A k \in 1..Len(whole) : whole[k] \in Nat
  BY BytesType, WholeNumbers
<1>7. CASE bytes[1].what # "body"
  <2>1. Done' = Done /\ 1 \notin Bodies(b)
    BY <1>7 DEF Bodies
  <2>2. \A i \in Bodies(c)' :
          \E k \in (Done + 1)..Len(whole) : bytes'[i].msg = whole[k]
    <3>. SUFFICES ASSUME NEW i \in Bodies(c)'
                  PROVE  \E k \in (Done + 1)..Len(whole) : bytes'[i].msg = whole[k]
      OBVIOUS
    <3>1. i + 1 \in Bodies(b) /\ bytes'[i] = bytes[i + 1]
      BY <1>3
    <3>. QED BY <3>1 DEF Carries
  <2>3. \A k \in (Done + 1)..Len(whole) :
          \E i \in Bodies(c)' : bytes'[i].msg = whole[k]
    <3>. SUFFICES ASSUME NEW k \in (Done + 1)..Len(whole)
                  PROVE  \E i \in Bodies(c)' : bytes'[i].msg = whole[k]
      OBVIOUS
    <3>1. PICK i \in Bodies(b) : bytes[i].msg = whole[k]
      BY DEF Carries
    <3>. QED BY <1>4, <2>1, <3>1
  <2>4. Carries(c)'
    BY <1>5, <2>1, <2>2, <2>3 DEF Carries
  <2>. QED BY <1>0, <1>7, <2>4
<1>8. CASE bytes[1].what = "body"
  <2>1. 1 \in Bodies(b) /\ Done' = Done + 1 /\ \A i \in Bodies(b) : i \in Nat /\ i >= 1
    BY <1>2, <1>8 DEF Bodies
  <2>2. PICK k \in (Done + 1)..Len(whole) : bytes[1].msg = whole[k]
    BY <2>1 DEF Carries
  <2>3. k = Done + 1
    <3>. SUFFICES ASSUME k # Done + 1 PROVE FALSE
      OBVIOUS
    <3>1. Done + 1 \in (Done + 1)..Len(whole) /\ Done + 1 < k
          /\ Done + 1 \in 1..Len(whole) /\ k \in 1..Len(whole)
      BY <1>6, <2>2
    <3>2. PICK i \in Bodies(b) : bytes[i].msg = whole[Done + 1]
      BY <3>1 DEF Carries
    <3>3. whole[Done + 1] < whole[k] /\ whole[Done + 1] \in Nat /\ whole[k] \in Nat
      BY <1>6, <3>1 DEF Ascending
    <3>4. i # 1 /\ 1 < i
      BY <2>1, <2>2, <3>2, <3>3
    <3>5. bytes[1].msg < bytes[i].msg
      BY <2>1, <3>4 DEF Carries
    <3>. QED BY <2>2, <3>2, <3>3, <3>5
  <2>4. \A i \in Bodies(c)' :
          \E l \in (Done + 2)..Len(whole) : bytes'[i].msg = whole[l]
    <3>. SUFFICES ASSUME NEW i \in Bodies(c)'
                  PROVE  \E l \in (Done + 2)..Len(whole) : bytes'[i].msg = whole[l]
      OBVIOUS
    <3>1. i + 1 \in Bodies(b) /\ bytes'[i] = bytes[i + 1] /\ 1 < i + 1
      BY <1>3
    <3>2. PICK l \in (Done + 1)..Len(whole) : bytes[i + 1].msg = whole[l]
      BY <3>1 DEF Carries
    <3>3. bytes[1].msg < bytes[i + 1].msg
      BY <2>1, <3>1 DEF Carries
    <3>4. l # Done + 1
      <4>1. whole[Done + 1] \in Nat /\ bytes[1].msg = whole[Done + 1]
        BY <1>6, <2>2, <2>3
      <4>. QED BY <3>2, <3>3, <4>1
    <3>5. l \in (Done + 2)..Len(whole)
      BY <1>6, <3>4
    <3>. QED BY <3>1, <3>2, <3>5
  <2>5. \A l \in (Done + 2)..Len(whole) :
          \E i \in Bodies(c)' : bytes'[i].msg = whole[l]
    <3>. SUFFICES ASSUME NEW l \in (Done + 2)..Len(whole)
                  PROVE  \E i \in Bodies(c)' : bytes'[i].msg = whole[l]
      OBVIOUS
    <3>1. /\ l \in (Done + 1)..Len(whole) /\ Done + 1 < l
          /\ Done + 1 \in 1..Len(whole) /\ l \in 1..Len(whole)
      BY <1>6
    <3>2. PICK i \in Bodies(b) : bytes[i].msg = whole[l]
      BY <3>1 DEF Carries
    <3>3. whole[Done + 1] < whole[l] /\ whole[l] \in Nat
      BY <1>6, <3>1 DEF Ascending
    <3>4. i # 1
      BY <1>6, <2>2, <2>3, <3>1, <3>2, <3>3
    <3>. QED BY <1>4, <3>2, <3>4
  <2>6. (Done + 1) + 1 = Done + 2 /\ Done + 1 \in 1..Len(whole)
    BY <1>6, <2>2, <2>3
  <2>7. Carries(c)'
    <3>1. Done' + 1 = Done + 2
      BY <2>1
    <3>. QED BY <1>5, <2>4, <2>5, <3>1 DEF Carries
  <2>. QED BY <1>0, <2>2, <2>3, <2>6, <2>7
<1>. QED BY <1>0, <1>7, <1>8

(* The rest is what the receiver expects from then on. *)
LEMMA ReadFramed ==
  ASSUME TypesInv, ReadPiece,
         NEW b \in 1..Len(bytes), Framed(b), Breaks(b),
         Reading' = After(bytes[1]), UNCHANGED <<torn, sender>>
  PROVE  b - 1 \in 0..Len(bytes') /\ Framed(b - 1)' /\ Breaks(b - 1)'
<1>1. /\ \A i \in 1..Len(bytes') : i + 1 \in 1..Len(bytes) /\ bytes'[i] = bytes[i + 1]
      /\ Len(bytes') = Len(bytes) - 1 /\ Len(bytes) \in Nat
  BY ReadFacts
<1>2. b \in Nat /\ b - 1 \in 0..Len(bytes') /\ b - 1 \in Nat
  BY <1>1
<1>3. \A i \in 0..(b - 1) : PhaseAt(i)' = PhaseAt(i + 1)
  <2>. SUFFICES ASSUME NEW i \in 0..(b - 1) PROVE PhaseAt(i)' = PhaseAt(i + 1)
    OBVIOUS
  <2>1. CASE i = 0
    BY <2>1 DEF PhaseAt
  <2>2. CASE i # 0
    <3>1. i \in 1..Len(bytes') /\ i + 1 # 0
      BY <1>1, <1>2, <2>2
    <3>. QED BY <1>1, <2>2, <3>1 DEF PhaseAt, After
  <2>. QED BY <2>1, <2>2
<1>4. Framed(b - 1)'
  <2>. SUFFICES ASSUME NEW i \in 1..(b - 1)
                PROVE  Fits(PhaseAt(i - 1)', bytes'[i])
    BY DEF Framed, Fits
  <2>1. /\ i - 1 \in 0..(b - 1) /\ (i - 1) + 1 = i /\ i + 1 \in 1..b /\ (i + 1) - 1 = i
        /\ i \in 1..Len(bytes')
    BY <1>1, <1>2
  <2>2. Fits(PhaseAt(i), bytes[i + 1])
    BY <2>1 DEF Framed
  <2>. QED BY <1>1, <1>3, <2>1, <2>2
<1>5. PhaseAt(b - 1)' = PhaseAt(b)
  BY <1>2, <1>3
<1>6. Breaks(b - 1)'
  <2>1. CASE ~torn
    BY <1>1, <1>5, <2>1 DEF Breaks, Writing
  <2>2. CASE torn /\ b = Len(bytes)
    BY <1>1, <1>5, <2>2 DEF Breaks
  <2>3. CASE torn /\ b # Len(bytes)
    <3>1. /\ b \in 1..Len(bytes') /\ b - 1 # Len(bytes') /\ (b - 1) + 1 = b
          /\ bytes'[b] = bytes[b + 1]
      BY <1>1, <1>2, <2>3
    <3>. QED BY <1>1, <1>5, <2>3, <3>1 DEF Breaks, Fits
  <2>. QED BY <2>1, <2>2, <2>3
<1>. QED BY <1>2, <1>4, <1>6

(* In step, the reader meets what it expects until a frame is cut. *)
LEMMA ReadExpected ==
  ASSUME TypesInv, InStep, ReadPiece, reader # "astray"
  PROVE  \/ /\ torn /\ ~Expected(bytes[1])
         \/ \E b \in 1..Len(bytes) :
              /\ Framed(b) /\ Carries(b) /\ Breaks(b)
              /\ Expected(bytes[1]) /\ Fits(reader, bytes[1])
<1>1. /\ bytes \in Seq(Pieces) /\ Len(bytes) \in Nat /\ Len(bytes) > 0
      /\ reader \in {"type", "length", "body"}
  BY ReadFacts DEF ReadPiece, Waiting
<1>2. PICK b \in 0..Len(bytes) : Framed(b) /\ Carries(b) /\ Breaks(b)
  BY <1>1 DEF InStep
<1>3. PhaseAt(0) = reader
  BY <1>1 DEF PhaseAt, Reading
<1>4. CASE b = 0
  <2>1. torn /\ reader \in {"length", "body"} /\ ~Fits(reader, bytes[1])
    BY <1>1, <1>2, <1>3, <1>4 DEF Breaks
  <2>. QED BY <2>1 DEF Expected, Fits
<1>5. CASE b # 0
  <2>1. b \in 1..Len(bytes) /\ 1 \in 1..b
    BY <1>1, <1>5
  <2>2. Fits(reader, bytes[1])
    BY <1>2, <1>3, <2>1 DEF Framed
  <2>3. Expected(bytes[1])
    BY <1>1, <2>2 DEF Expected, Fits
  <2>. QED BY <1>2, <2>1, <2>2, <2>3
<1>. QED BY <1>4, <1>5

(* A piece is read. *)
LEMMA ReadSame ==
  ASSUME TypesInv, SameKeyInv, ReadPiece
  PROVE  SameKeyInv'
<1>. SUFFICES ASSUME SameKey'
              PROVE  (Ascending /\ InStep /\ DeliveredWhole /\ (reader = "astray" => torn))'
  BY DEF SameKeyInv
<1>. DEFINE p == bytes[1]
<1>1. /\ UNCHANGED <<keyVars, sender, taken, delivered, whole, torn>>
      /\ reader \in {"type", "length", "body", "astray"}
      /\ ReadType(p) \/ ReadLength(p) \/ ReadBody(p) \/ ReadAstray(p)
  BY ReadFacts DEF ReadPiece, senderVars, inboxVars, Waiting
<1>2. Ascending /\ InStep /\ DeliveredWhole /\ (reader = "astray" => torn)
      /\ SameKey /\ sendKey = recvKey
  BY <1>1, SameKeyBefore DEF SameKeyInv, SameKey
<1>3. Ascending'
  BY <1>1, <1>2 DEF Ascending
<1>4. Done = Len(delivered) /\ Done \in Nat /\ Done <= Len(whole)
  BY <1>1, <1>2, BytesType DEF Done, DeliveredWhole
<1>5. CASE ~Expected(p) /\ torn
  <2>1. ReadAstray(p)
    BY <1>1, <1>5 DEF Expected, ReadType, ReadLength, ReadBody
  <2>2. ~Passes(p)
    BY <1>2, <1>5 DEF SameKey, Passes
  <2>3. reader' \in {"astray", "gone"}
    BY <2>1, <2>2 DEF ReadAstray, WaitForMore, Leave
  <2>4. DeliveredWhole'
    BY <1>1, <1>2, <1>4, <2>3 DEF DeliveredWhole, Done
  <2>5. InStep'
    BY <2>3 DEF InStep
  <2>. QED BY <1>1, <1>3, <1>5, <2>4, <2>5
<1>6. ASSUME NEW b \in 1..Len(bytes), Framed(b), Carries(b), Breaks(b),
             Expected(p), Fits(reader, p)
      PROVE  (Ascending /\ InStep /\ DeliveredWhole /\ (reader = "astray" => torn))'
  <2>1. ReadType(p) \/ ReadLength(p) \/ ReadBody(p)
    BY <1>1, <1>6 DEF ReadAstray
  <2>2. \/ p.what \in {"beat", "type", "length"} /\ reader' = After(p)
        \/ p.what = "body" /\ reader' = "delivering" /\ arrived' = p.msg
    BY <1>2, <2>1 DEF ReadType, ReadLength, ReadBody, NextFrame,
       HandOver, After
  <2>3. Reading' = After(p)
    BY <2>2 DEF Reading, After
  <2>4. Done' = Done + IF p.what = "body" THEN 1 ELSE 0
    BY <1>1, <1>4, <2>2 DEF Done, After
  <2>5. /\ Carries(b - 1)'
        /\ p.what = "body" => Done + 1 \in 1..Len(whole) /\ p.msg = whole[Done + 1]
    BY <1>1, <1>2, <1>4, <1>6, <2>4, ReadCarries
  <2>6. b - 1 \in 0..Len(bytes') /\ Framed(b - 1)' /\ Breaks(b - 1)'
    BY <1>1, <1>6, <2>3, ReadFramed
  <2>7. InStep'
    BY <2>5, <2>6 DEF InStep
  <2>8. DeliveredWhole'
    <3>1. Done' <= Len(whole) /\ (reader' = "delivering" => arrived' = whole[Done'])
      BY <1>4, <2>2, <2>4, <2>5 DEF After
    <3>. QED BY <1>1, <1>2, <3>1 DEF DeliveredWhole
  <2>9. reader' # "astray"
    BY <2>2 DEF After
  <2>. QED BY <1>3, <2>7, <2>8, <2>9
<1>7. CASE reader = "astray"
  BY <1>2, <1>5, <1>7 DEF Expected
<1>8. CASE reader # "astray"
  BY <1>2, <1>5, <1>6, <1>8, ReadExpected
<1>. QED BY <1>7, <1>8

(* What the receiver has read goes to the main loop. *)
LEMMA DeliverSame ==
  ASSUME TypesInv, SameKeyInv, Deliver
  PROVE  SameKeyInv'
<1>. SUFFICES ASSUME SameKey'
              PROVE  (Ascending /\ InStep /\ DeliveredWhole /\ (reader = "astray" => torn))'
  BY DEF SameKeyInv
<1>1. /\ UNCHANGED <<keyVars, sender, taken, bytes, whole, torn>>
      /\ reader = "delivering" /\ delivered' = Recorded(arrived)
      /\ reader' = "type" \/ (arrived = Garbage /\ torn /\ reader' = "astray")
  BY DEF Deliver, NextFrame, senderVars
<1>2. Ascending /\ InStep /\ DeliveredWhole
  BY <1>1, SameKeyBefore DEF SameKeyInv
<1>3. Ascending'
  BY <1>1, <1>2 DEF Ascending
<1>4. Done = Len(delivered) + 1 /\ Done \in 1..Len(whole) /\ arrived = whole[Done]
  BY <1>1, <1>2, BytesType DEF Done, DeliveredWhole
<1>5. arrived \in 1..MaxMsgs /\ arrived # Garbage
  BY <1>4, BytesType, WireAssumption
<1>6. delivered' = Append(delivered, arrived) /\ reader' = "type"
  BY <1>1, <1>5 DEF Recorded
<1>7. /\ Len(delivered') = Len(delivered) + 1
      /\ \A i \in 1..Len(delivered') :
           \/ i \in 1..Len(delivered) /\ delivered'[i] = delivered[i]
           \/ i = Done /\ delivered'[i] = arrived
  BY <1>4, <1>6, BytesType
<1>8. Done' = Done /\ Reading' = Reading /\ Writing' = Writing
  <2>1. Done' = Len(delivered') + 0
    BY <1>6 DEF Done
  <2>2. Reading = "type" /\ Reading' = "type"
    BY <1>1, <1>6 DEF Reading
  <2>3. Writing' = Writing
    BY <1>1 DEF Writing
  <2>. QED BY <1>4, <1>7, <2>1, <2>2, <2>3, BytesType
<1>9. DeliveredWhole'
  <2>1. \A i \in 1..Len(delivered') : delivered'[i] = whole[i]
    BY <1>2, <1>4, <1>7 DEF DeliveredWhole
  <2>2. Done' <= Len(whole)
    BY <1>4, <1>8, BytesType
  <2>. QED BY <1>1, <1>6, <2>1, <2>2 DEF DeliveredWhole
<1>10. sender \in {"select", "beat", "type", "length", "body"}
  BY DEF TypesInv, WireTypeOK
<1>11. InStep'
  BY <1>1, <1>2, <1>6, <1>8, <1>10, SameInStep
<1>. QED BY <1>3, <1>6, <1>9, <1>11

LEMMA OtherSame ==
  ASSUME TypesInv, SameKeyInv,
         ReadTimesOut \/ ReadFails \/ Travel \/ TakeDelivered \/ Elapse
         \/ UNCHANGED wireVars
  PROVE  SameKeyInv'
<1>. SUFFICES ASSUME SameKey'
              PROVE  (Ascending /\ InStep /\ DeliveredWhole /\ (reader = "astray" => torn))'
  BY DEF SameKeyInv
<1>1. UNCHANGED <<keyVars, sender, taken, bytes, delivered, arrived, whole, torn>>
  <2>1. CASE ReadTimesOut \/ ReadFails
    BY <2>1 DEF ReadTimesOut, ReadFails, Leave, senderVars, inboxVars
  <2>5. CASE Travel
    BY <2>5 DEF Travel, senderVars, readerVars, inboxVars
  <2>2. CASE TakeDelivered
    BY <2>2 DEF TakeDelivered, senderVars, readerVars
  <2>3. CASE Elapse
    BY <2>3 DEF Elapse, inboxVars
  <2>4. CASE UNCHANGED wireVars
    BY <2>4 DEF wireVars, keyVars, senderVars, tickerVars,
       readerVars, inboxVars
  <2>. QED BY <2>1, <2>2, <2>3, <2>4, <2>5
<1>2. reader' = reader \/ (reader' = "gone" /\ reader # "delivering")
  BY DEF ReadTimesOut, ReadFails, Travel, Waiting, Leave, TakeDelivered, Elapse,
     wireVars, readerVars
<1>3. Ascending /\ InStep /\ DeliveredWhole /\ (reader = "astray" => torn)
  BY <1>1, SameKeyBefore DEF SameKeyInv
<1>4. Ascending'
  BY <1>1, <1>3 DEF Ascending
<1>5. Done' = Done /\ Writing' = Writing
  BY <1>1, <1>2 DEF Done, Writing
<1>6. DeliveredWhole'
  BY <1>1, <1>2, <1>3, <1>5 DEF DeliveredWhole
<1>7. InStep'
  <2>1. CASE reader' = "gone"
    BY <2>1 DEF InStep
  <2>2. CASE reader' = reader
    <3>1. Reading' = Reading
      BY <2>2 DEF Reading
    <3>2. sender \in {"select", "beat", "type", "length", "body"}
      BY DEF TypesInv, WireTypeOK
    <3>. QED BY <1>1, <1>3, <1>5, <2>2, <3>1, <3>2, SameInStep
  <2>. QED BY <1>2, <2>1, <2>2
<1>. QED BY <1>1, <1>2, <1>3, <1>4, <1>6, <1>7

LEMMA NextSameKey ==
  ASSUME TypesInv, SameKeyInv, [WireNext]_wireVars
  PROVE  SameKeyInv'
BY BeginSame, WriteSame, GiveUpSame, ReadSame, DeliverSame, OtherSame DEF WireNext

-----------------------------------------------------------------------------
(***************************************************************************)
(* The wire: two ends with different keys.                                 *)
(***************************************************************************)
LEMMA NextOtherKey ==
  ASSUME TypesInv, OtherKeyInv, [WireNext]_wireVars
  PROVE  OtherKeyInv'
<1>. SUFFICES ASSUME recvKey' # NoKey, sendKey' # recvKey'
              PROVE  (reader # "delivering" /\ delivered = <<>>)'
  BY DEF OtherKeyInv
<1>1. UNCHANGED keyVars
  BY DEF WireNext, BeginMessage, BeginBeat, Begin, WritePiece,
     GiveUp, ReadPiece,
     ReadTimesOut, ReadFails, Travel, Deliver, TakeDelivered, Elapse, wireVars
<1>2. recvKey # NoKey /\ sendKey # recvKey /\ reader # "delivering" /\ delivered = <<>>
  BY <1>1 DEF OtherKeyInv, keyVars
<1>3. CASE BeginMessage \/ BeginBeat \/ WritePiece \/ GiveUp \/ Travel
           \/ TakeDelivered \/ Elapse
           \/ UNCHANGED wireVars
  BY <1>2, <1>3 DEF BeginMessage, BeginBeat, Begin, WritePiece,
     GiveUp, Travel, TakeDelivered, Elapse,
     wireVars, readerVars, inboxVars
<1>4. CASE ReadPiece
  <2>. DEFINE p == Head(bytes)
  <2>1. /\ \/ ReadType(p) \/ ReadLength(p)
           \/ ReadBody(p) \/ ReadAstray(p)
        /\ delivered' = delivered
    BY <1>4 DEF ReadPiece, inboxVars
  <2>2. ~Passes(p)
    BY <1>2 DEF Passes
  <2>3. reader' # "delivering"
    BY <1>2, <2>1, <2>2 DEF ReadType, ReadLength, ReadBody,
       ReadAstray, NextFrame, Leave,
       WaitForMore
  <2>. QED BY <1>2, <2>1, <2>3
<1>5. CASE ReadTimesOut \/ ReadFails
  BY <1>2, <1>5 DEF ReadTimesOut, ReadFails, Leave, inboxVars
<1>6. CASE Deliver
  BY <1>2, <1>6 DEF Deliver
<1>. QED BY <1>3, <1>4, <1>5, <1>6 DEF WireNext

-----------------------------------------------------------------------------
(***************************************************************************)
(* The wire: time.  A heartbeat is due within BeatInterval, written within *)
(* WriteTimeout and there within MaxStall, and together these are less     *)
(* than ReadTimeout.                                                       *)
(***************************************************************************)
LEMMA TimesTypes ==
  ASSUME TypesInv
  PROVE  /\ readLeft \in Nat
         /\ beatLeft \in Nat /\ beatLeft > 0 /\ beatLeft <= BeatInterval
         /\ writeLeft \in Nat /\ writeLeft <= WriteTimeout
         /\ stall \in Nat /\ stall <= MaxStall /\ landed \in Nat
         /\ landed <= Len(bytes)
         /\ BeatInterval \in Nat /\ WriteTimeout \in Nat /\ ReadTimeout \in Nat
         /\ MaxStall \in Nat
         /\ BeatInterval + WriteTimeout + MaxStall < ReadTimeout
<1>1. /\ readLeft \in 0..ReadTimeout /\ beatLeft \in 1..BeatInterval
      /\ writeLeft \in 0..WriteTimeout
  BY DEF TypesInv, WireTypeOK
<1>2. stall \in 0..MaxStall /\ landed \in 0..Len(bytes) /\ Len(bytes) \in Nat
  BY BytesType DEF TypesInv, WireTypeOK, NetworkTypeOK
<1>. QED BY <1>1, <1>2, WireAssumption

LEMMA SlackBound ==
  ASSUME TypesInv
  PROVE  /\ Slack \in Nat /\ Slack + MaxStall < ReadTimeout
BY TimesTypes DEF Slack

(* The deadline is as good as new. *)
LEMMA Renewed ==
  ASSUME TypesInv, MaxStall' = MaxStall, readLeft' = ReadTimeout, Slack' = Slack
  PROVE  readLeft' > 0 /\ OnTime'
BY TimesTypes, SlackBound DEF OnTime

(* A frame that is among the first k pieces stays there when more come.      *)
LEMMA FrameStays ==
  ASSUME TypesInv, NEW k \in 0..Len(bytes), NEW l \in Nat, k <= l, FrameIn(k),
         \A i \in 1..Len(bytes) : bytes'[i] = bytes[i]
  PROVE  \E i \in 1..l : EndsFrame(bytes'[i])
<1>1. PICK i \in 1..k : EndsFrame(bytes[i])
  BY DEF FrameIn
<1>2. i \in 1..l /\ i \in 1..Len(bytes) /\ bytes'[i] = bytes[i]
  BY BytesType
<1>. QED BY <1>1, <1>2

LEMMA TimelyWrite ==
  ASSUME TypesInv, Timely,
         BeginMessage \/ BeginBeat \/ WritePiece \/ GiveUp
  PROVE  Timely'
<1>. SUFFICES ASSUME Well'
              PROVE  (reader # "gone" /\ (Waiting => readLeft > 0 /\ OnTime))'
  BY DEF Timely
<1>1. ~GiveUp
  BY DEF GiveUp, Well
<1>2. UNCHANGED <<keyVars, reader, readLeft, failed, networkVars>>
  BY <1>1 DEF BeginMessage, BeginBeat, Begin, WritePiece,
     readerVars
<1>3. reader # "gone" /\ Waiting' = Waiting /\ (Waiting => readLeft > 0 /\ OnTime)
  BY <1>2 DEF Timely, Well, keyVars, networkVars, Waiting
<1>. SUFFICES ASSUME Waiting, OnTime
              PROVE  OnTime'
  BY <1>2, <1>3
<1>4. /\ readLeft \in Nat /\ Slack \in Nat /\ MaxStall \in Nat /\ stall \in Nat
      /\ landed \in 0..Len(bytes) /\ landed \in Nat /\ Len(bytes) \in Nat
  BY TimesTypes, SlackBound, BytesType
<1>5. landed' = landed /\ stall' = stall
  BY <1>2 DEF networkVars
<1>6. CASE BeginMessage \/ BeginBeat
  <2>1. /\ bytes' = bytes /\ Slack' = WriteTimeout
        /\ Slack = (IF ticked THEN 0 ELSE beatLeft) + WriteTimeout
    BY <1>6 DEF BeginMessage, BeginBeat, Begin, Slack
  <2>2. Slack' \in Nat /\ Slack' <= Slack
    BY <2>1, TimesTypes
  <2>3. FrameIn(landed)' = FrameIn(landed) /\ FrameIn(Len(bytes))' = FrameIn(Len(bytes))
    BY <1>5, <2>1 DEF FrameIn, EndsFrame
  <2>4. readLeft > Slack + MaxStall => readLeft' > Slack' + MaxStall
    <3>1. readLeft' = readLeft
      BY <1>2
    <3>2. \A r, s, t, m \in Nat : t <= s /\ r > s + m => r > t + m
      OBVIOUS
    <3>3. readLeft > Slack + MaxStall => readLeft > Slack' + MaxStall
      BY ONLY <1>4, <2>2, <3>2
    <3>. QED BY <3>1, <3>3
  <2>. QED BY <1>2, <1>5, <2>3, <2>4 DEF OnTime
<1>7. CASE WritePiece
  <2>1. PICK p \in Pieces : p.what = sender /\ bytes' = Append(bytes, p)
    BY <1>7, WriteFacts
  <2>2. /\ Len(bytes') = Len(bytes) + 1 /\ bytes'[Len(bytes')] = p
        /\ Len(bytes') \in Nat /\ Len(bytes') \in 1..Len(bytes')
        /\ \A i \in 1..Len(bytes) : bytes'[i] = bytes[i]
    BY <2>1, BytesType
  <2>3. FrameIn(landed) => FrameIn(landed)'
    <3>1. FrameIn(landed) => \E i \in 1..landed : EndsFrame(bytes'[i])
      BY <1>4, <2>2, FrameStays
    <3>. QED BY <1>5, <3>1 DEF FrameIn, EndsFrame
  <2>4. FrameIn(Len(bytes)) => FrameIn(Len(bytes))'
    <3>1. Len(bytes) \in 0..Len(bytes) /\ Len(bytes) <= Len(bytes')
      BY <1>4, <2>2
    <3>2. FrameIn(Len(bytes)) => \E i \in 1..Len(bytes') : EndsFrame(bytes'[i])
      BY <2>2, <3>1, FrameStays
    <3>. QED BY <3>2 DEF FrameIn, EndsFrame
  <2>5. CASE sender \in {"beat", "body"}
    <3>1. FrameIn(Len(bytes))'
      BY <2>1, <2>2, <2>5 DEF FrameIn, EndsFrame
    <3>2. readLeft > Slack + MaxStall => readLeft' + stall' > MaxStall
      BY <1>2, <1>4, <1>5
    <3>. QED BY <1>2, <1>5, <2>3, <3>1, <3>2 DEF OnTime
  <2>6. CASE sender \in {"type", "length"}
    <3>1. Slack' = Slack
      BY <1>7, <2>6 DEF WritePiece, AfterPiece, Slack
    <3>. QED BY <1>2, <1>5, <2>3, <2>4, <3>1 DEF OnTime
  <2>7. sender \in {"beat", "body", "type", "length"}
    BY <1>7 DEF WritePiece, TypesInv, WireTypeOK
  <2>. QED BY <2>5, <2>6, <2>7
<1>. QED BY <1>1, <1>6, <1>7

(* A frame behind the first piece, when that has been read. *)
LEMMA FrameMovesUp ==
  ASSUME TypesInv, ReadPiece, NEW k \in 1..Len(bytes), FrameIn(k),
         ~EndsFrame(bytes[1])
  PROVE  \E i \in 1..(k - 1) : EndsFrame(bytes'[i])
<1>1. PICK i \in 1..k : EndsFrame(bytes[i])
  BY DEF FrameIn
<1>2. i # 1 /\ Len(bytes) \in Nat
  BY <1>1, BytesType
<1>3. i - 1 \in 1..(k - 1) /\ i - 1 \in 1..(Len(bytes) - 1) /\ (i - 1) + 1 = i
  BY <1>2
<1>4. bytes'[i - 1] = bytes[i]
  BY <1>3, ReadFacts
<1>. QED BY <1>1, <1>3, <1>4

LEMMA TimelyRead ==
  ASSUME TypesInv, SameKeyInv, Timely, ReadPiece
  PROVE  Timely'
<1>. SUFFICES ASSUME Well'
              PROVE  (reader # "gone" /\ (Waiting => readLeft > 0 /\ OnTime))'
  BY DEF Timely
<1>1. /\ UNCHANGED <<keyVars, senderVars, tickerVars, stall, late, broken>>
      /\ landed > 0 /\ landed' = landed - 1
  BY DEF ReadPiece
<1>2. Well /\ ~torn /\ SameKey
  BY <1>1 DEF Well, keyVars, senderVars, TypesInv, SameKey
<1>3. InStep /\ reader # "astray" /\ Waiting /\ reader \in {"type", "length", "body"}
  BY <1>2 DEF SameKeyInv, ReadPiece, Waiting
<1>4. Expected(bytes[1]) /\ Fits(reader, bytes[1])
  BY <1>2, <1>3, ReadExpected
<1>5. ReadType(bytes[1]) \/ ReadLength(bytes[1]) \/ ReadBody(bytes[1])
  BY <1>4, ReadFacts DEF ReadPiece, ReadAstray
<1>6. Slack' = Slack
  BY <1>1 DEF Slack, senderVars, tickerVars
<1>7. \/ reader' = "type" /\ readLeft' = ReadTimeout
      \/ reader' = "delivering"
      \/ /\ reader' \in {"length", "body"} /\ readLeft' = readLeft
         /\ ~EndsFrame(bytes[1])
  BY <1>2, <1>5 DEF Well, ReadType, ReadLength, ReadBody, NextFrame,
     HandOver, EndsFrame
<1>8. CASE reader' = "type" /\ readLeft' = ReadTimeout
  BY <1>6, <1>8, Renewed
<1>9. CASE reader' = "delivering"
  BY <1>9 DEF Waiting
<1>10. CASE reader' \in {"length", "body"} /\ readLeft' = readLeft /\ ~EndsFrame(bytes[1])
  <2>1. readLeft > 0 /\ OnTime
    BY <1>2, <1>3 DEF Timely
  <2>2. landed \in 1..Len(bytes) /\ Len(bytes) \in 1..Len(bytes)
        /\ Len(bytes') = Len(bytes) - 1
    BY <1>1, TimesTypes, ReadFacts
  <2>3. FrameIn(landed) => FrameIn(landed)'
    <3>1. FrameIn(landed) => \E i \in 1..(landed - 1) : EndsFrame(bytes'[i])
      BY <1>10, <2>2, FrameMovesUp
    <3>. QED BY <1>1, <3>1 DEF FrameIn, EndsFrame
  <2>4. FrameIn(Len(bytes)) => FrameIn(Len(bytes))'
    <3>1. FrameIn(Len(bytes)) => \E i \in 1..(Len(bytes) - 1) : EndsFrame(bytes'[i])
      BY <1>10, <2>2, FrameMovesUp
    <3>. QED BY <2>2, <3>1 DEF FrameIn, EndsFrame
  <2>. QED BY <1>1, <1>6, <1>10, <2>1, <2>3, <2>4 DEF OnTime
<1>. QED BY <1>7, <1>8, <1>9, <1>10

LEMMA TimelyOther ==
  ASSUME TypesInv, SameKeyInv, Timely,
         ReadTimesOut \/ ReadFails \/ Travel \/ Deliver \/ TakeDelivered
         \/ UNCHANGED wireVars
  PROVE  Timely'
<1>. SUFFICES ASSUME Well'
              PROVE  (reader # "gone" /\ (Waiting => readLeft > 0 /\ OnTime))'
  BY DEF Timely
<1>0. ~ReadFails
  BY DEF ReadFails, Well
<1>1. UNCHANGED <<keyVars, senderVars, tickerVars, bytes, late, broken>>
  BY <1>0 DEF ReadTimesOut, Travel, Deliver, TakeDelivered, wireVars, networkVars
<1>2. Well /\ ~torn /\ Slack' = Slack
  BY <1>1 DEF Well, keyVars, senderVars, tickerVars, TypesInv, Slack
<1>3. reader # "gone" /\ (Waiting => readLeft > 0 /\ OnTime)
  BY <1>2 DEF Timely
<1>4. CASE ReadTimesOut
  BY <1>3, <1>4 DEF ReadTimesOut
<1>5. CASE Deliver
  <2>1. reader' = "type" /\ readLeft' = ReadTimeout
    BY <1>2, <1>5 DEF Deliver, NextFrame
  <2>. QED BY <1>2, <2>1, Renewed
<1>6. CASE Travel
  <2>1. /\ UNCHANGED <<reader, readLeft>> /\ Waiting' = Waiting /\ landed' = landed + 1
        /\ stall' = IF landed' = Len(bytes) THEN 0 ELSE stall
    BY <1>6 DEF Travel, readerVars, Waiting
  <2>. SUFFICES ASSUME Waiting PROVE OnTime'
    BY <1>3, <2>1
  <2>2. landed \in 0..Len(bytes) /\ landed + 1 \in Nat
    BY TimesTypes, BytesType
  <2>3. FrameIn(landed) => FrameIn(landed)'
    <3>1. landed <= landed + 1
      BY <2>2, BytesType
    <3>2. FrameIn(landed) => \E i \in 1..(landed + 1) : EndsFrame(bytes'[i])
      BY <1>1, <2>2, <3>1, FrameStays
    <3>. QED BY <2>1, <3>2 DEF FrameIn, EndsFrame
  <2>4. FrameIn(Len(bytes)) => FrameIn(Len(bytes))'
    BY <1>1 DEF FrameIn, EndsFrame
  <2>5. FrameIn(Len(bytes)) /\ landed' = Len(bytes) => FrameIn(landed)'
    BY <1>1 DEF FrameIn, EndsFrame
  <2>. QED BY <1>2, <1>3, <2>1, <2>3, <2>4, <2>5 DEF OnTime
<1>7. CASE TakeDelivered \/ UNCHANGED wireVars
  <2>1. UNCHANGED <<bytes, reader, readLeft, landed, stall>> /\ Waiting' = Waiting
    BY <1>7 DEF TakeDelivered, wireVars, readerVars, networkVars, Waiting
  <2>. QED BY <1>2, <1>3, <2>1 DEF OnTime, FrameIn, EndsFrame
<1>. QED BY <1>0, <1>4, <1>5, <1>6, <1>7

(* The sender's time runs down with the receiver's. *)
LEMMA SlackElapses ==
  ASSUME TypesInv, Elapse
  PROVE  Slack' \in Nat /\ Slack' + 1 = Slack
<1>1. sender' = sender /\ ~Due
  BY DEF Elapse
<1>2. /\ beatLeft \in Nat \ {0} /\ writeLeft \in Nat
      /\ BeatInterval \in Nat /\ WriteTimeout \in Nat
  BY TimesTypes
<1>3. CASE sender = "select"
  <2>1. ~ticked
    BY <1>1, <1>3 DEF Due
  <2>2. Slack = beatLeft + WriteTimeout
    BY <1>3, <2>1 DEF Slack
  <2>3. Slack' = (IF ticked' THEN 0 ELSE beatLeft') + WriteTimeout
    BY <1>1, <1>3 DEF Slack
  <2>4. (IF ticked' THEN 0 ELSE beatLeft') + 1 = beatLeft
    <3>1. CASE beatLeft = 1
      <4>1. ticked'
        BY <3>1 DEF Elapse
      <4>. QED BY <3>1, <4>1
    <3>2. CASE beatLeft # 1
      <4>1. ~ticked' /\ beatLeft' = beatLeft - 1
        BY <2>1, <3>2 DEF Elapse
      <4>. QED BY <1>2, <4>1
    <3>. QED BY <3>1, <3>2
  <2>5. (IF ticked' THEN 0 ELSE beatLeft') \in Nat
    BY <1>2, <2>1 DEF Elapse
  <2>. QED BY <1>2, <2>2, <2>3, <2>4, <2>5
<1>4. CASE sender # "select"
  BY <1>1, <1>2, <1>4 DEF Due, Elapse, LessOne, Slack
<1>. QED BY <1>3, <1>4

(* A second passes only when nothing has arrived. *)
LEMMA TimelyElapse ==
  ASSUME TypesInv, Timely, Elapse
  PROVE  Timely'
<1>. SUFFICES ASSUME Well'
              PROVE  (reader # "gone" /\ (Waiting => readLeft > 0 /\ OnTime))'
  BY DEF Timely
<1>1. UNCHANGED <<keyVars, failed, bytes, reader, landed, broken>> /\ ~Due
  BY DEF Elapse
<1>2. Well /\ Waiting' = Waiting
  <2>1. late => late'
    BY DEF Elapse
  <2>. QED BY <1>1, <2>1 DEF Well, keyVars, Waiting
<1>3. reader # "gone" /\ (Waiting => readLeft > 0 /\ OnTime)
  BY <1>2 DEF Timely
<1>. SUFFICES ASSUME Waiting PROVE readLeft' > 0 /\ OnTime'
  BY <1>1, <1>2, <1>3
<1>4. readLeft \in Nat /\ stall \in Nat /\ stall <= MaxStall /\ MaxStall \in Nat
      /\ landed \in Nat
  BY TimesTypes
<1>5. landed = 0 /\ readLeft > 0 /\ readLeft' = readLeft - 1
  BY <1>1, <1>4 DEF Due, Elapse, LessOne
<1>6. ~FrameIn(landed)
  BY <1>5 DEF FrameIn
<1>7. CASE FrameIn(Len(bytes)) /\ readLeft + stall > MaxStall
  <2>1. Behind
    <3>1. Len(bytes) # 0 /\ Len(bytes) \in Nat
      BY <1>7, BytesType DEF FrameIn
    <3>. QED BY <1>5, <3>1 DEF Behind
  <2>2. stall' = stall + 1 /\ stall < MaxStall
    <3>1. stall # MaxStall
      BY <2>1 DEF Elapse, Well
    <3>. QED BY <1>4, <2>1, <3>1 DEF Elapse
  <2>3. readLeft' > 0 /\ readLeft' + stall' > MaxStall
    BY <1>4, <1>5, <1>7, <2>2
  <2>4. FrameIn(Len(bytes))'
    BY <1>1, <1>7 DEF FrameIn, EndsFrame
  <2>. QED BY <2>3, <2>4 DEF OnTime
<1>8. CASE readLeft > Slack + MaxStall
  <2>1. Slack' \in Nat /\ Slack' + 1 = Slack
    BY SlackElapses
  <2>2. readLeft' > Slack' + MaxStall /\ readLeft' > 0
    <3>1. \A r, s, t, m \in Nat :
            r > s + m /\ t + 1 = s => r - 1 > t + m /\ r - 1 > 0
      OBVIOUS
    <3>2. Slack \in Nat
      BY SlackBound
    <3>. QED BY <1>4, <1>5, <1>8, <2>1, <3>1, <3>2
  <2>. QED BY <2>2 DEF OnTime
<1>. QED BY <1>3, <1>6, <1>7, <1>8 DEF OnTime

LEMMA NextTimely ==
  ASSUME TypesInv, SameKeyInv, Timely, [WireNext]_wireVars
  PROVE  Timely'
BY TimelyWrite, TimelyRead, TimelyOther, TimelyElapse DEF WireNext

-----------------------------------------------------------------------------
(***************************************************************************)
(* The wire: theorems, for all timeouts that satisfy WireAssumption, any   *)
(* number of messages, keys and sizes of the buffers.                      *)
(***************************************************************************)
(* The invariant holds of the connection's wire (services/tcp_core.go).      *)
THEOREM WireInvariant == WireSpec => []WireInv
<1>1. WireInv /\ [WireNext]_wireVars => WireInv'
  BY NextWireTypes, NextSameKey, NextOtherKey, NextTimely DEF WireInv
<1>2. WireInit => WireInv
  BY InitWire
<1>. QED BY <1>1, <1>2, PTL DEF WireSpec

(* Type correctness: the deadlines, the channel to the main loop and the     *)
(* pieces under way stay within their ranges.                                *)
THEOREM WireTypeCorrect == WireSpec => []WireTypeOK
<1>1. WireInv => WireTypeOK
  BY DEF WireInv, TypesInv
<1>. QED BY WireInvariant, <1>1, PTL

(* The main loop gets what was written whole, in that order, and nothing     *)
(* after a frame that was cut; a receiver with a key gets nothing from a     *)
(* sender that has another or none (handleTCPConnection, README.md:161).     *)
THEOREM AlwaysInOrder == WireSpec => []InOrder
<1>1. WireInv => InOrder
  <2>. SUFFICES ASSUME WireInv, recvKey # NoKey \/ (sendKey = NoKey /\ ~torn)
                PROVE  /\ Len(delivered) <= Len(whole)
                       /\ \A i \in 1..Len(delivered) : delivered[i] = whole[i]
    BY DEF InOrder
  <2>1. Len(delivered) \in Nat /\ Len(whole) \in Nat
    BY BytesType DEF WireInv
  <2>2. CASE sendKey = recvKey
    <3>1. DeliveredWhole
      BY <2>2 DEF WireInv, SameKeyInv, SameKey
    <3>. QED BY <2>1, <3>1 DEF DeliveredWhole, Done
  <2>3. CASE sendKey # recvKey
    <3>1. delivered = <<>>
      BY <2>3 DEF WireInv, OtherKeyInv
    <3>. QED BY <2>1, <3>1
  <2>. QED BY <2>2, <2>3
<1>. QED BY WireInvariant, <1>1, PTL

(* A connection is not given up while its writes succeed, the network is     *)
(* never behind for more than MaxStall and there is no reset, for any values *)
(* of the timeouts for which heartbeat interval, write timeout and MaxStall  *)
(* together are less than the read timeout.                                  *)
THEOREM HealthyUntilStalled == WireSpec => []HealthyStaysUp
<1>1. WireInv => HealthyStaysUp
  BY DEF WireInv, Timely, Well, HealthyStaysUp
<1>. QED BY WireInvariant, <1>1, PTL
=============================================================================
