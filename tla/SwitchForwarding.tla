-------------------------- MODULE SwitchForwarding --------------------------
(***************************************************************************)
(* How a node puts discovery messages on its connections: the passive      *)
(* forwarder (what the lounge hands out), the proactive broadcaster (the   *)
(* local clients), and one sender per connection                           *)
(* (services/switch_core.go, handleTCPConnectionSend in tcp_core.go).      *)
(*                                                                         *)
(* What goes into a send channel is a POINTER: all connections share one   *)
(* DiscoveryTtl field, which the writer goes on decrementing while senders *)
(* marshal the message.  The access is not synchronised; a sender reads    *)
(* whatever value the field has when it marshals.                          *)
(*                                                                         *)
(* The set of connections is fixed here; ConnectionHub is about its        *)
(* changes.                                                                *)
(***************************************************************************)
EXTENDS Turns, Sequences

CONSTANTS
  Conns,         \* the connections in the hub
  NoConn,        \* "no connection"
  Relayed,       \* messages the lounge hands to the forwarder
  Adverts,       \* messages the broadcaster makes of local clients
  NoMsg,         \* "no message"
  SendChanSize,  \* configs.TCPSocketSendChanSize
  MaxTTL,        \* configs.MaxDiscoveryMessageTTL
  ArrivingTTLs   \* the TTLs with which relayed messages may arrive

ASSUME ForwardingAssumption ==
  /\ IsFiniteSet(Conns)
  /\ NoConn \notin Conns
  /\ NoMsg \notin Relayed \cup Adverts
  /\ Relayed \cap Adverts = {}
  /\ SendChanSize \in Nat \ {0}
  /\ TTLMod \in Nat \ {0}
  /\ MaxTTL \in 0..(TTLMod - 1)
  /\ ArrivingTTLs \subseteq 0..(TTLMod - 1)
  /\ Cardinality(Conns) < TTLMod

Msgs == Relayed \cup Adverts
Writers == {"forwarder", "broadcaster"}
Work(w) == IF w = "forwarder" THEN Relayed ELSE Adverts

VARIABLES
  origin,    \* how each message came: its source, TTL and kind of address
  ttl,       \* the shared DiscoveryTtl field of each message
  waiting,   \* messages no writer has taken yet
  at,        \* the message each writer is working on
  todo,      \* the connections its loop has yet to visit
  picked,    \* the connection it is about to send to
  sendChan,  \* the send channel of each connection
  holding,   \* the message each sender has received and not yet marshalled
  wire,      \* what was written to each connection
  skipped    \* connections that the writer passed over because of the TTL

vars == <<origin, ttl, waiting, at, todo, picked, sendChan, holding, wire,
          skipped>>

Origins == [source : Conns \cup {NoConn}, ttl : 0..(TTLMod - 1), private : BOOLEAN]
Frames == [msg : Msgs, ttl : 0..(TTLMod - 1)]

TypeOK ==
  /\ origin \in [Msgs -> Origins]
  /\ ttl \in [Msgs -> 0..(TTLMod - 1)]
  /\ waiting \in SUBSET Msgs
  /\ at \in [Writers -> Msgs \cup {NoMsg}]
  /\ todo \in [Writers -> SUBSET Conns]
  /\ picked \in [Writers -> Conns \cup {NoConn}]
  /\ sendChan \in [Conns -> Seq(Msgs)]
  /\ holding \in [Conns -> Msgs \cup {NoMsg}]
  /\ wire \in [Conns -> Seq(Frames)]
  /\ skipped \in [Msgs -> SUBSET Conns]

(* A multicast message has a source that is not a connection; a message of  *)
(* the broadcaster has none and starts with the maximal TTL.                *)
Init ==
  /\ origin \in [Msgs -> Origins]
  /\ \A m \in Relayed : origin[m].ttl \in ArrivingTTLs
  /\ \A m \in Adverts :
       origin[m] = [source |-> NoConn, ttl |-> MaxTTL, private |-> TRUE]
  /\ ttl = [m \in Msgs |-> origin[m].ttl]
  /\ waiting = Msgs
  /\ at = [w \in Writers |-> NoMsg]
  /\ todo = [w \in Writers |-> {}]
  /\ picked = [w \in Writers |-> NoConn]
  /\ sendChan = [c \in Conns |-> <<>>]
  /\ holding = [c \in Conns |-> NoMsg]
  /\ wire = [c \in Conns |-> <<>>]
  /\ skipped = [m \in Msgs |-> {}]
-----------------------------------------------------------------------------
(***************************************************************************)
(* The writers.                                                            *)
(***************************************************************************)
(* Mutant: the source connection is not left out. *)
AllConns(m) == Conns

Targets(m) == Conns \ {origin[m].source}

(* The forwarder's check of the original address. *)
Acceptable(m) == origin[m].private

Take(w, m) ==
  /\ at[w] = NoMsg
  /\ m \in waiting \cap Work(w)
  /\ waiting' = waiting \ {m}
  /\ IF Acceptable(m)
     THEN /\ at' = [at EXCEPT ![w] = m]
          /\ todo' = [todo EXCEPT ![w] = Targets(m)]
     ELSE UNCHANGED <<at, todo>>
  /\ UNCHANGED <<origin, ttl, picked, sendChan, holding, wire, skipped>>

(* Mutant: it stops at zero. *)
DecrementToZero(t) == IF t = 0 THEN 0 ELSE t - 1

(* The uint32 decrement. *)
Decrement(t) == (t + TTLMod - 1) % TTLMod

(* Mutant: off by one. *)
PassesOverEarly(w, t) == w = "forwarder" /\ t <= 1

(* Only the forwarder looks at the result. *)
PassesOver(w, t) == w = "forwarder" /\ t <= 0

(* The field is decremented once for every connection the loop visits. *)
Visit(w, c) ==
  LET m == at[w]
      t == Decrement(ttl[m])
  IN
  /\ m # NoMsg
  /\ picked[w] = NoConn
  /\ c \in todo[w]
  /\ todo' = [todo EXCEPT ![w] = @ \ {c}]
  /\ ttl' = [ttl EXCEPT ![m] = t]
  /\ IF PassesOver(w, t)
     THEN /\ skipped' = [skipped EXCEPT ![m] = @ \cup {c}]
          /\ UNCHANGED picked
     ELSE /\ picked' = [picked EXCEPT ![w] = c]
          /\ UNCHANGED skipped
  /\ UNCHANGED <<origin, waiting, at, sendChan, holding, wire>>

(* The send blocks while the channel is full. *)
Enqueue(w) ==
  LET c == picked[w] IN
  /\ c # NoConn
  /\ Len(sendChan[c]) < SendChanSize
  /\ sendChan' = [sendChan EXCEPT ![c] = Append(@, at[w])]
  /\ picked' = [picked EXCEPT ![w] = NoConn]
  /\ UNCHANGED <<origin, ttl, waiting, at, todo, holding, wire, skipped>>

Finish(w) ==
  /\ at[w] # NoMsg
  /\ picked[w] = NoConn
  /\ todo[w] = {}
  /\ at' = [at EXCEPT ![w] = NoMsg]
  /\ UNCHANGED <<origin, ttl, waiting, todo, picked, sendChan, holding, wire,
                 skipped>>
-----------------------------------------------------------------------------
(***************************************************************************)
(* The sender of a connection.                                             *)
(***************************************************************************)
(* Mutant: the sender needs a lock that writers hold while they work. *)
ReceiveUnderLock(c) ==
  /\ \A w \in Writers : at[w] = NoMsg
  /\ holding[c] = NoMsg
  /\ sendChan[c] # <<>>
  /\ holding' = [holding EXCEPT ![c] = Head(sendChan[c])]
  /\ sendChan' = [sendChan EXCEPT ![c] = Tail(@)]
  /\ UNCHANGED <<origin, ttl, waiting, at, todo, picked, wire, skipped>>

Receive(c) ==
  /\ holding[c] = NoMsg
  /\ sendChan[c] # <<>>
  /\ holding' = [holding EXCEPT ![c] = Head(sendChan[c])]
  /\ sendChan' = [sendChan EXCEPT ![c] = Tail(@)]
  /\ UNCHANGED <<origin, ttl, waiting, at, todo, picked, wire, skipped>>

(* Marshalling reads the shared field; the write succeeds or times out, and *)
(* then the message is given up.                                            *)
Transmit(c) ==
  /\ holding[c] # NoMsg
  /\ \/ wire' = [wire EXCEPT ![c] =
                   Append(@, [msg |-> holding[c], ttl |-> ttl[holding[c]]])]
     \/ UNCHANGED wire
  /\ holding' = [holding EXCEPT ![c] = NoMsg]
  /\ UNCHANGED <<origin, ttl, waiting, at, todo, picked, sendChan, skipped>>

Next ==
  \/ \E w \in Writers :
       \/ \E m \in Msgs : Take(w, m)
       \/ \E c \in Conns : Visit(w, c)
       \/ Enqueue(w)
       \/ Finish(w)
  \/ \E c \in Conns : Receive(c) \/ Transmit(c)

Spec == Init /\ [][Next]_vars

(***************************************************************************)
(* Every goroutine keeps running, and a write ends within its deadline     *)
(* (TCPSocketWriteTimeout), so senders always come back to their channel.  *)
(***************************************************************************)
Fairness ==
  /\ \A w \in Writers :
       /\ WF_vars(\E m \in Msgs : Take(w, m))
       /\ WF_vars(\E c \in Conns : Visit(w, c))
       /\ WF_vars(Enqueue(w))
       /\ WF_vars(Finish(w))
  /\ \A c \in Conns : WF_vars(Receive(c)) /\ WF_vars(Transmit(c))

FairSpec == Spec /\ Fairness
-----------------------------------------------------------------------------
Served(m) == m \notin waiting /\ \A w \in Writers : at[w] # m

InChan(c, m) == {i \in 1..Len(sendChan[c]) : sendChan[c][i] = m}
OnWire(c, m) == {i \in 1..Len(wire[c]) : wire[c][i].msg = m}

(* One hop: a message is on a connection at most once, on its way or        *)
(* written, never on the one it came from, and never when its address is    *)
(* not acceptable.                                                          *)
OncePerConnection ==
  \A c \in Conns, m \in Msgs :
    LET copies == Cardinality(InChan(c, m)) + Cardinality(OnWire(c, m))
                  + (IF holding[c] = m THEN 1 ELSE 0)
    IN  copies <= (IF origin[m].private /\ origin[m].source # c THEN 1 ELSE 0)

(* What one hop does to the TTL, in whatever order senders and writers run: *)
(* it goes down by at least one and by at most the number of connections,   *)
(* as long as it is larger than that number.                                *)
WireTTLWindow ==
  \A c \in Conns : \A i \in 1..Len(wire[c]) :
    LET in == origin[wire[c][i].msg].ttl
        n == Cardinality(Targets(wire[c][i].msg))
    IN  in > n => in - n <= wire[c][i].ttl /\ wire[c][i].ttl < in

(* How far the code is from ExpiredNotForwarded, below: the forwarder       *)
(* passes over a connection because of the TTL exactly when the field       *)
(* reaches zero during the loop, and then over one only, since the          *)
(* decrement for the next connection wraps around.                          *)
OneSkippedIffExhausted ==
  \A m \in Msgs : Served(m) =>
    Cardinality(skipped[m]) =
      IF m \in Relayed /\ Acceptable(m)
         /\ origin[m].ttl \in 1..Cardinality(Targets(m))
      THEN 1 ELSE 0

(* What was done with m comes to no more than a turn over the connections   *)
(* out in the order pos, in which each copy is marshalled as late says.     *)
TurnOver(m, out, pos, late) ==
  /\ skipped[m] =
       {c \in out : m \in Relayed /\ Lowered(origin[m].ttl, pos[c]) = 0}
  /\ \A c \in Conns : \A i \in OnWire(c, m) :
       /\ c \in out \ skipped[m]
       /\ wire[c][i].ttl = Lowered(origin[m].ttl, late[c])

(* However writers and senders interleave, a hop is one of the turns that   *)
(* SwitchNetwork takes in one step: an order of the targets and delays of   *)
(* the copies account for what was passed over and for every TTL written.   *)
HopIsTurn ==
  \A m \in Msgs : Acceptable(m) /\ Served(m) =>
    \E pos \in Orders(Targets(m)) :
      \E late \in Delays(Targets(m), pos) : TurnOver(m, Targets(m), pos, late)

(* Nothing blocks the writers for good, and what they enqueue is sent or    *)
(* given up.                                                                *)
AllServed ==
  \A m \in Msgs :
    <>[](Served(m) /\ \A c \in Conns : InChan(c, m) = {} /\ holding[c] # m)

(* README.md:151: the TTL is decremented by 1 at each node. *)
TTLDecrementedByOne ==
  \A c \in Conns : \A i \in 1..Len(wire[c]) :
    origin[wire[c][i].msg].ttl > 1 =>
      wire[c][i].ttl = origin[wire[c][i].msg].ttl - 1

(* README.md:151 and switch_core.go:70: when the TTL reaches 0 the message  *)
(* is not forwarded any more.  One that arrives with a TTL of 1 is used up  *)
(* here, whatever the number of connections.                                *)
ExpiredNotForwarded ==
  \A c \in Conns, m \in Relayed : origin[m].ttl = 1 => OnWire(c, m) = {}
=============================================================================
