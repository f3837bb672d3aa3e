--------------------------- MODULE ConnectionHub ---------------------------
(***************************************************************************)
(* The life of a node's TCP connections: the hub that registers them       *)
(* (services/tcp_connection_hub.go), the two goroutines of each connection,*)
(* the server that accepts and the loop that dials the peer                *)
(* (services/tcp_core.go), and the goroutines that use them: the writers,  *)
(* which send to every connection of a snapshot of the hub, and the core,  *)
(* which drains what the connections receive (services/switch_core.go).    *)
(*                                                                         *)
(* Messages are only counted.  A constant name stands for one TCP          *)
(* connection; a reconnection is another name with the same address.       *)
(***************************************************************************)
EXTENDS Integers, FiniteSets

CONSTANTS
  Conns,         \* all TCP connections that come to be
  Dialed,        \* those dialed by connectPeer; the others are accepted
  Addrs,         \* remote addresses, the keys of the hub
  AddrOf,        \* the remote address of each connection
  NoConn,        \* "no connection"
  Writers,       \* goroutines that send to all connections
  MaxConns,      \* configs.MaxTCPConnections
  SendChanSize,  \* configs.TCPSocketSendChanSize
  InboxSize,     \* configs.SwitchDataReceiveChanSize
  MaxRetries,    \* --switch-peer-connect-max-retries; negative for no limit
  RetryBound,    \* bound: retries are not counted beyond it
  MayInterrupt   \* whether the interrupt signal can come in this instance

ASSUME HubAssumption ==
  /\ IsFiniteSet(Conns)
  /\ Dialed \subseteq Conns
  /\ AddrOf \in [Conns -> Addrs]
  /\ NoConn \notin Conns
  /\ MaxConns \in Nat \ {0}
  /\ SendChanSize \in Nat \ {0}
  /\ InboxSize \in Nat \ {0}
  /\ MaxRetries \in Int
  /\ RetryBound \in Nat /\ RetryBound > MaxRetries
  /\ MayInterrupt \in BOOLEAN

(* All dials go to the same address and port, on which the peer listens, so *)
(* no connection that it opens itself comes from there.                     *)
ASSUME PeerAddressAssumption ==
  \A d \in Dialed, c \in Conns : AddrOf[c] = AddrOf[d] <=> c \in Dialed

VARIABLES
  net,       \* the state of the socket of each connection
  recv,      \* where its receiving goroutine is
  send,      \* where its sending goroutine is
  chan,      \* messages in its send channel
  chanOpen,  \* whether the channel exists and has not been closed
  hub,       \* the connection registered under each address
  writer,    \* where each writer is
  todo,      \* the connections of its snapshot it has yet to send to
  at,        \* the connection it is sending to
  inbox,     \* messages in switchDataChan
  core,      \* the main loop of SetUpSwitchCore
  acceptor,  \* the accept loop
  peer,      \* the connectPeer loop
  dial,      \* the connection it handles
  retries,   \* retryCount
  sig,       \* the interrupt signal has been received
  crash      \* how the process ended, "no" while it runs

connVars == <<net, recv, send, chan, chanOpen, hub>>
writerVars == <<writer, todo, at>>
peerVars == <<peer, dial, retries>>
loopVars == <<inbox, core, acceptor>>
vars == <<connVars, writerVars, peerVars, loopVars, sig, crash>>

TypeOK ==
  /\ net \in [Conns -> {"unused", "up", "broken", "closed"}]
  /\ recv \in [Conns -> {"none", "reading", "delivering", "leaving", "done"}]
  /\ send \in [Conns -> {"none", "select", "done"}]
  /\ chan \in [Conns -> 0..SendChanSize]
  /\ chanOpen \in [Conns -> BOOLEAN]
  /\ hub \in [Addrs -> Conns \cup {NoConn}]
  /\ writer \in [Writers -> {"idle", "sending", "done"}]
  /\ todo \in [Writers -> SUBSET Conns]
  /\ at \in [Writers -> Conns \cup {NoConn}]
  /\ inbox \in 0..InboxSize
  /\ core \in {"running", "done"}
  /\ acceptor \in {"listening", "done"}
  /\ peer \in {"dialing", "handling", "sleeping", "reporting", "stopped"}
  /\ dial \in Dialed \cup {NoConn}
  /\ retries \in 0..RetryBound
  /\ sig \in BOOLEAN
  /\ crash \in {"no", "sendOnClosed", "closeOfClosed", "fatal"}

Init ==
  /\ net = [c \in Conns |-> "unused"]
  /\ recv = [c \in Conns |-> "none"]
  /\ send = [c \in Conns |-> "none"]
  /\ chan = [c \in Conns |-> 0]
  /\ chanOpen = [c \in Conns |-> FALSE]
  /\ hub = [a \in Addrs |-> NoConn]
  /\ writer = [w \in Writers |-> "idle"]
  /\ todo = [w \in Writers |-> {}]
  /\ at = [w \in Writers |-> NoConn]
  /\ inbox = 0
  /\ core = "running"
  /\ acceptor = "listening"
  /\ peer = "dialing"
  /\ dial = NoConn
  /\ retries = 0
  /\ sig = FALSE
  /\ crash = "no"
-----------------------------------------------------------------------------
(***************************************************************************)
(* The hub.                                                                *)
(***************************************************************************)
Registered == {c \in Conns : \E a \in Addrs : hub[a] = c}

(* AddConnection succeeds. *)
CanAdd(c) ==
  /\ hub[AddrOf[c]] = NoConn
  /\ Cardinality(Registered) < MaxConns

(* AddConnection, and handleTCPConnection starting the two goroutines. *)
StartConnection(c) ==
  /\ hub' = [hub EXCEPT ![AddrOf[c]] = c]
  /\ chanOpen' = [chanOpen EXCEPT ![c] = TRUE]
  /\ net' = [net EXCEPT ![c] = "up"]
  /\ recv' = [recv EXCEPT ![c] = "reading"]
  /\ send' = [send EXCEPT ![c] = "select"]
  /\ UNCHANGED chan

RefuseConnection(c) ==
  /\ net' = [net EXCEPT ![c] = "closed"]
  /\ UNCHANGED <<recv, send, chan, chanOpen, hub>>

(* Mutants: the entry is not deleted; the channel is not closed. *)
RemoveKeepingEntry(c) ==
  LET d == hub[AddrOf[c]] IN
  /\ net' = [e \in Conns |-> IF e \in {c, d} THEN "closed" ELSE net[e]]
  /\ chanOpen' = [e \in Conns |-> chanOpen[e] /\ e # d]
  /\ crash' = IF d # NoConn /\ ~chanOpen[d] THEN "closeOfClosed" ELSE crash
  /\ UNCHANGED hub
RemoveKeepingChannel(c) ==
  LET d == hub[AddrOf[c]] IN
  /\ hub' = [hub EXCEPT ![AddrOf[c]] = NoConn]
  /\ net' = [e \in Conns |-> IF e \in {c, d} THEN "closed" ELSE net[e]]
  /\ UNCHANGED <<chanOpen, crash>>

(* RemoveConnection works on whatever is registered under the address of c; *)
(* the caller then closes c itself.                                         *)
RemoveConnection(c) ==
  LET d == hub[AddrOf[c]] IN
  /\ hub' = [hub EXCEPT ![AddrOf[c]] = NoConn]
  /\ net' = [e \in Conns |-> IF e \in {c, d} THEN "closed" ELSE net[e]]
  /\ chanOpen' = [e \in Conns |-> chanOpen[e] /\ e # d]
  /\ crash' = IF d # NoConn /\ ~chanOpen[d] THEN "closeOfClosed" ELSE crash
-----------------------------------------------------------------------------
(***************************************************************************)
(* How connections come and break.                                         *)
(***************************************************************************)
(* The kernel accepts no second connection from a live remote port. *)
PortFree(c) == \A d \in Conns \ Dialed : AddrOf[d] = AddrOf[c] => net[d] # "up"

Accept(c) ==
  /\ acceptor = "listening"
  /\ c \notin Dialed
  /\ net[c] = "unused"
  /\ PortFree(c)
  /\ IF CanAdd(c) THEN StartConnection(c) ELSE RefuseConnection(c)
  /\ UNCHANGED <<writerVars, peerVars, loopVars, sig, crash>>

AcceptorExit ==
  /\ acceptor = "listening"
  /\ sig
  /\ acceptor' = "done"
  /\ UNCHANGED <<connVars, writerVars, peerVars, inbox, core, sig, crash>>

(* The remote end or the network gives up. *)
Break(c) ==
  /\ net[c] = "up"
  /\ net' = [net EXCEPT ![c] = "broken"]
  /\ UNCHANGED <<recv, send, chan, chanOpen, hub, writerVars, peerVars,
                 loopVars, sig, crash>>
-----------------------------------------------------------------------------
(***************************************************************************)
(* connectPeer.  A failed AddConnection ends the loop for good.            *)
(***************************************************************************)
DialOk(c) ==
  /\ peer = "dialing"
  /\ c \in Dialed
  /\ net[c] = "unused"
  /\ retries' = 0
  /\ IF CanAdd(c)
     THEN /\ StartConnection(c)
          /\ peer' = "handling"
          /\ dial' = c
     ELSE /\ RefuseConnection(c)
          /\ peer' = "stopped"
          /\ UNCHANGED dial
  /\ UNCHANGED <<writerVars, loopVars, sig, crash>>

(* retryCount++ and the comparison with the limit. *)
Retry ==
  LET n == retries + 1 IN
  /\ retries' = IF n > RetryBound THEN RetryBound ELSE n
  /\ peer' = IF MaxRetries >= 0 /\ n > MaxRetries THEN "reporting" ELSE "sleeping"
  /\ dial' = NoConn

DialFail ==
  /\ peer = "dialing"
  /\ Retry
  /\ UNCHANGED <<connVars, writerVars, loopVars, sig, crash>>

(* handleTCPConnection returns when the sending goroutine does. *)
PeerReturn ==
  /\ peer = "handling"
  /\ send[dial] = "done"
  /\ net' = [net EXCEPT ![dial] = "closed"]
  /\ IF sig
     THEN peer' = "stopped" /\ dial' = NoConn /\ UNCHANGED retries
     ELSE Retry
  /\ UNCHANGED <<recv, send, chan, chanOpen, hub, writerVars, loopVars, sig,
                 crash>>

(* The sleep does not look at the signal. *)
PeerWake ==
  /\ peer = "sleeping"
  /\ peer' = "dialing"
  /\ UNCHANGED <<connVars, writerVars, dial, retries, loopVars, sig, crash>>

(* main panics on what comes through errChan while it listens.  After the   *)
(* signal its select may still prefer the error.                            *)
PeerFatal ==
  /\ peer = "reporting"
  /\ crash' = "fatal"
  /\ UNCHANGED <<connVars, writerVars, peerVars, loopVars, sig>>
-----------------------------------------------------------------------------
(***************************************************************************)
(* The receiving goroutine of a connection.                                *)
(***************************************************************************)
RecvFrame(c) ==
  /\ recv[c] = "reading"
  /\ net[c] = "up"
  /\ recv' = [recv EXCEPT ![c] = "delivering"]
  /\ UNCHANGED <<net, send, chan, chanOpen, hub, writerVars, peerVars,
                 loopVars, sig, crash>>

(* The send to switchDataChan blocks and looks at nothing else. *)
RecvDeliver(c) ==
  /\ recv[c] = "delivering"
  /\ inbox < InboxSize
  /\ inbox' = inbox + 1
  /\ recv' = [recv EXCEPT ![c] = "reading"]
  /\ UNCHANGED <<net, send, chan, chanOpen, hub, writerVars, peerVars, core,
                 acceptor, sig, crash>>

(* A read error, the read deadline, or a frame that makes no sense. *)
RecvFail(c) ==
  /\ recv[c] = "reading"
  /\ recv' = [recv EXCEPT ![c] = "leaving"]
  /\ UNCHANGED <<net, send, chan, chanOpen, hub, writerVars, peerVars,
                 loopVars, sig, crash>>

(* A socket that is not up gives the reader no other choice. *)
RecvFailDown(c) == net[c] # "up" /\ RecvFail(c)

RecvCleanup(c) ==
  /\ recv[c] = "leaving"
  /\ RemoveConnection(c)
  /\ recv' = [recv EXCEPT ![c] = "done"]
  /\ UNCHANGED <<send, chan, writerVars, peerVars, loopVars, sig>>

(* The goroutine that closes the socket on the interrupt signal. *)
WatchSignal(c) ==
  /\ sig
  /\ recv[c] \in {"reading", "delivering"}
  /\ net[c] # "closed"
  /\ net' = [net EXCEPT ![c] = "closed"]
  /\ UNCHANGED <<recv, send, chan, chanOpen, hub, writerVars, peerVars,
                 loopVars, sig, crash>>
-----------------------------------------------------------------------------
(***************************************************************************)
(* The sending goroutine of a connection.                                  *)
(***************************************************************************)
(* Mutant: any error ends it. *)
AfterAnyError(c) == IF net[c] # "up" THEN "done" ELSE "select"

(* Only net.ErrClosed ends it: after any other error it goes on. *)
AfterWrite(c) == IF net[c] = "closed" THEN "done" ELSE "select"

SendMessage(c) ==
  /\ send[c] = "select"
  /\ chan[c] > 0
  /\ chan' = [chan EXCEPT ![c] = @ - 1]
  /\ send' = [send EXCEPT ![c] = AfterWrite(c)]
  /\ UNCHANGED <<net, recv, chanOpen, hub, writerVars, peerVars, loopVars, sig,
                 crash>>

SendHeartbeat(c) ==
  /\ send[c] = "select"
  /\ send' = [send EXCEPT ![c] = AfterWrite(c)]
  /\ UNCHANGED <<net, recv, chan, chanOpen, hub, writerVars, peerVars,
                 loopVars, sig, crash>>

(* The channel is closed and drained, or the signal has come. *)
SendExit(c) ==
  /\ send[c] = "select"
  /\ sig \/ (~chanOpen[c] /\ chan[c] = 0)
  /\ send' = [send EXCEPT ![c] = "done"]
  /\ UNCHANGED <<net, recv, chan, chanOpen, hub, writerVars, peerVars,
                 loopVars, sig, crash>>
-----------------------------------------------------------------------------
(***************************************************************************)
(* The writers: the passive forwarder and the proactive broadcaster.       *)
(***************************************************************************)
(* GetConnectionsExcept: a copy of the hub, without the message's source. *)
Snapshot(w) ==
  /\ writer[w] = "idle"
  /\ \E source \in Conns \cup {NoConn} :
       todo' = [todo EXCEPT ![w] = Registered \ {source}]
  /\ writer' = [writer EXCEPT ![w] = "sending"]
  /\ UNCHANGED <<connVars, at, peerVars, loopVars, sig, crash>>

PickConn(w, c) ==
  /\ at[w] = NoConn
  /\ c \in todo[w]
  /\ at' = [at EXCEPT ![w] = c]
  /\ todo' = [todo EXCEPT ![w] = @ \ {c}]
  /\ UNCHANGED <<connVars, writer, peerVars, loopVars, sig, crash>>

(* A send blocks on a full channel and panics on a closed one. *)
SendTo(w) ==
  LET c == at[w] IN
  /\ c # NoConn
  /\ IF chanOpen[c]
     THEN /\ chan[c] < SendChanSize
          /\ chan' = [chan EXCEPT ![c] = @ + 1]
          /\ at' = [at EXCEPT ![w] = NoConn]
          /\ UNCHANGED crash
     ELSE /\ crash' = "sendOnClosed"
          /\ UNCHANGED <<chan, at>>
  /\ UNCHANGED <<net, recv, send, chanOpen, hub, writer, todo, peerVars,
                 loopVars, sig>>

EndRound(w) ==
  /\ writer[w] = "sending"
  /\ at[w] = NoConn /\ todo[w] = {}
  /\ writer' = [writer EXCEPT ![w] = "idle"]
  /\ UNCHANGED <<connVars, todo, at, peerVars, loopVars, sig, crash>>

WriterExit(w) ==
  /\ writer[w] = "idle"
  /\ sig
  /\ writer' = [writer EXCEPT ![w] = "done"]
  /\ UNCHANGED <<connVars, todo, at, peerVars, loopVars, sig, crash>>
-----------------------------------------------------------------------------
(***************************************************************************)
(* The core and the signal.                                                *)
(***************************************************************************)
CoreTake ==
  /\ core = "running"
  /\ inbox > 0
  /\ inbox' = inbox - 1
  /\ UNCHANGED <<connVars, writerVars, peerVars, core, acceptor, sig, crash>>

(* Its deferred hub.Close closes every registered socket. *)
CoreExit ==
  /\ core = "running"
  /\ sig
  /\ core' = "done"
  /\ net' = [c \in Conns |-> IF c \in Registered THEN "closed" ELSE net[c]]
  /\ UNCHANGED <<recv, send, chan, chanOpen, hub, writerVars, peerVars, inbox,
                 acceptor, sig, crash>>

Interrupt ==
  /\ MayInterrupt
  /\ ~sig
  /\ sig' = TRUE
  /\ UNCHANGED <<connVars, writerVars, peerVars, loopVars, crash>>

Next ==
  /\ crash = "no"
  /\ \/ \E c \in Conns :
          \/ Accept(c) \/ DialOk(c) \/ Break(c)
          \/ RecvFrame(c) \/ RecvDeliver(c) \/ RecvFail(c) \/ RecvCleanup(c)
          \/ WatchSignal(c)
          \/ SendMessage(c) \/ SendHeartbeat(c) \/ SendExit(c)
     \/ \E w \in Writers :
          \/ Snapshot(w)
          \/ \E c \in Conns : PickConn(w, c)
          \/ SendTo(w) \/ EndRound(w) \/ WriterExit(w)
     \/ DialFail \/ PeerReturn \/ PeerWake \/ PeerFatal
     \/ CoreTake \/ CoreExit \/ AcceptorExit
     \/ Interrupt

Spec == Init /\ [][Next]_vars

(***************************************************************************)
(* Goroutines run.  Sockets that are not up give their reader an error.    *)
(* Heartbeats keep coming, so a closed socket is noticed by its sender.    *)
(* Nothing obliges connections to come or break, dials to succeed, or the  *)
(* signal to be sent.  A writer that is idle when the signal has come has  *)
(* several ready cases in its select, which Go chooses from at random, and *)
(* goroutines blocked on one channel are served first come, first served:  *)
(* hence strong fairness for these.                                        *)
(***************************************************************************)
Running(A) == crash = "no" /\ A

Fairness ==
  /\ \A c \in Conns :
       /\ SF_vars(Running(RecvDeliver(c)))
       /\ WF_vars(Running(RecvFailDown(c)))
       /\ WF_vars(Running(RecvCleanup(c)))
       /\ WF_vars(Running(WatchSignal(c)))
       /\ WF_vars(Running(SendMessage(c)))
       /\ WF_vars(Running(SendHeartbeat(c)))
       /\ WF_vars(Running(SendExit(c)))
  /\ \A w \in Writers :
       /\ WF_vars(Running(\E c \in Conns : PickConn(w, c)))
       /\ SF_vars(Running(SendTo(w)))
       /\ WF_vars(Running(EndRound(w)))
       /\ SF_vars(Running(WriterExit(w)))
  /\ WF_vars(Running(PeerReturn))
  /\ WF_vars(Running(PeerWake))
  /\ WF_vars(Running(CoreTake))
  /\ WF_vars(Running(CoreExit))
  /\ WF_vars(Running(AcceptorExit))

FairSpec == Spec /\ Fairness
-----------------------------------------------------------------------------
(***************************************************************************)
(* Safety                                                                  *)
(***************************************************************************)
Live(c) == recv[c] \in {"reading", "delivering", "leaving"}

(* The hub holds exactly the connections whose receiver has yet to clean    *)
(* up, each under its own address with its channel open: so a receiver's    *)
(* RemoveConnection never removes another connection, a reconnection under  *)
(* the same address for instance, and no channel is closed twice.           *)
HubMatchesReceivers ==
  crash = "no" =>
    \A c \in Conns :
      /\ Live(c) <=> hub[AddrOf[c]] = c
      /\ chanOpen[c] <=> Live(c)

NoDoubleClose == crash # "closeOfClosed"

(* While a connection is registered, and writers may block on its channel,  *)
(* a sender drains that channel; only the interrupt signal changes this.    *)
RegisteredIsDrained ==
  \A c \in Registered : send[c] = "done" => sig \/ crash # "no"

(* connectPeer gives up only on the signal or when the hub is full: never   *)
(* because the connection it lost is still registered.                      *)
GivesUpOnlyWhenFull ==
  peer # "stopped" /\ peer' = "stopped" => sig \/ Cardinality(Registered) >= MaxConns

PeerKeepsTrying == [][GivesUpOnlyWhenFull]_vars

(* tcp_core.go:287: after an unexpected disconnection the node carries on   *)
(* and retries; README.md:242: it can run all the time without worries.     *)
SurvivesDisconnect == crash # "sendOnClosed"
-----------------------------------------------------------------------------
(***************************************************************************)
(* Liveness                                                                *)
(***************************************************************************)
(* A connection that breaks leaves the hub and both its goroutines end.     *)
BrokenIsReaped ==
  \A c \in Conns :
    (net[c] = "broken") ~>
      (recv[c] = "done" /\ send[c] = "done" /\ c \notin Registered)
      \/ sig \/ crash # "no"

(* A writer does not wait for ever on one connection, dead or alive.        *)
WritersProgress ==
  \A w \in Writers :
    writer[w] = "sending" ~> writer[w] # "sending" \/ sig \/ crash # "no"

(* main.go:283: every goroutine can exit once the signal has come.          *)
ConnectionsExit ==
  sig ~> (\A c \in Conns : ~Live(c) /\ send[c] # "select") \/ crash # "no"
=============================================================================
