--------------------------- MODULE SwitchNetwork ---------------------------
(***************************************************************************)
(* Switch nodes that flood the announcements of LocalSend clients over     *)
(* their TCP connections, in networks with loops and parallel connections. *)
(*                                                                         *)
(* A node is what the other modules promise of its parts: its lounge takes *)
(* a message in unless it remembers it or is full (ForwardOnce), and one   *)
(* turn of its forwarder or broadcaster sends at most one copy over each   *)
(* connection, with a TTL from the window that SwitchForwarding checks, so *)
(* that a turn is one step here.  A copy whose write misses its deadline   *)
(* is given up without the connection going down, connections are FIFO and *)
(* may be lost and made again, nodes may be restarted.                     *)
(***************************************************************************)
EXTENDS Turns, Sequences

CONSTANTS
  Nodes,      \* switch nodes, each with LocalSend clients of its own
  Links,      \* TCP connections that can exist between them
  NoLink,     \* the source of a message that did not come over a connection
  Dialer,     \* the node that dials each link
  Acceptor,   \* the node that accepts it
  Msgs,       \* announcements, each with an id of its own
  Origin,     \* the node whose client is announced
  Periodic,   \* those that the proactive broadcaster sends; the others come
              \* in by multicast
  Private,    \* those whose original address is a private one
  LoungeSize, \* configs.SwitchLoungeSize
  CountBound, \* bound: told and crossed are not counted beyond it
  Instances   \* the networks to look at: the links they have, the messages
              \* made in them, the initial TTL (MaxDiscoveryMessageTTL in
              \* configs/net.go), whether an id can expire while copies of
              \* its message travel, and how many faults there may be

ASSUME NetworkAssumption ==
  /\ IsFiniteSet(Links) /\ NoLink \notin Links
  /\ Dialer \in [Links -> Nodes]
  /\ Acceptor \in [Links -> Nodes]
  /\ \A l \in Links : Dialer[l] # Acceptor[l]
  /\ Origin \in [Msgs -> Nodes]
  /\ Periodic \subseteq Msgs
  /\ Private \subseteq Msgs
  /\ LoungeSize \in Nat \ {0}
  /\ TTLMod \in Nat \ {0}
  /\ CountBound \in Nat /\ CountBound > 2
  /\ Instances \subseteq
       [links : SUBSET Links, msgs : SUBSET Msgs, ttl : 1..(TTLMod - 1),
        forgets : BOOLEAN, faults : Nat]

VARIABLES
  net,        \* the network of this behaviour, which stays as it is
  announced,  \* messages that have been made
  up,         \* links that are connected
  wire,       \* copies on a link, by the node they travel to
  seen,       \* the ids each node remembers
  queue,      \* the messages that wait in its lounge, with their source
  told,       \* how often it has told its clients of a message
  crossed,    \* copies of each message sent over a link, by direction
  faults,     \* faults so far
  clean       \* messages announced when all links were up, of which no copy
              \* was given up, and no other fault since

nodeVars == <<seen, queue, told>>
linkVars == <<up, wire, crossed>>
vars == <<net, announced, linkVars, nodeVars, faults, clean>>

Copy == [msg : Msgs, ttl : 0..(TTLMod - 1)]
Entry == [msg : Msgs, ttl : 0..(TTLMod - 1), from : Links \cup {NoLink}]

TypeOK ==
  /\ net \in Instances
  /\ announced \in SUBSET Msgs
  /\ up \in SUBSET Links
  /\ wire \in [Links -> [Nodes -> Seq(Copy)]]
  /\ seen \in [Nodes -> SUBSET Msgs]
  /\ queue \in [Nodes -> Seq(Entry)]
  /\ told \in [Nodes -> [Msgs -> 0..CountBound]]
  /\ crossed \in [Links -> [Nodes -> [Msgs -> 0..CountBound]]]
  /\ faults \in Nat
  /\ clean \in SUBSET Msgs

Init ==
  /\ net \in Instances
  /\ announced = {}
  /\ up = net.links
  /\ wire = [l \in Links |-> [n \in Nodes |-> <<>>]]
  /\ seen = [n \in Nodes |-> {}]
  /\ queue = [n \in Nodes |-> <<>>]
  /\ told = [n \in Nodes |-> [m \in Msgs |-> 0]]
  /\ crossed = [l \in Links |-> [n \in Nodes |-> [m \in Msgs |-> 0]]]
  /\ faults = 0
  /\ clean = {}
-----------------------------------------------------------------------------
Ends(l) == {Dialer[l], Acceptor[l]}
Other(l, n) == IF n = Dialer[l] THEN Acceptor[l] ELSE Dialer[l]

(* Mutant: only the connections it has dialed itself. *)
DialedOnly(n, from) == {l \in up : Dialer[l] = n} \ {from}

(* The connections of the node but the one the message came over. *)
Targets(n, from) == {l \in up : n \in Ends(l)} \ {from}

OneMore(k) == IF k < CountBound THEN k + 1 ELSE k

(* The node sends m over the given links, with the TTL that each gets. *)
SendOver(n, m, sent, ttl) ==
  /\ wire' = [l \in Links |-> [x \in Nodes |->
       IF l \in sent /\ x = Other(l, n)
       THEN Append(wire[l][x], [msg |-> m, ttl |-> ttl[l]])
       ELSE wire[l][x]]]
  /\ crossed' = [l \in Links |-> [x \in Nodes |->
       IF l \in sent /\ x = Other(l, n)
       THEN [crossed[l][x] EXCEPT ![m] = OneMore(@)]
       ELSE crossed[l][x]]]

(* handleTCPConnectionSend: the writes of some copies miss their deadline,  *)
(* and the senders go on with the next message.  All that a turn loses in   *)
(* this way is one fault.                                                   *)
GiveUp(copies) ==
  IF copies = {} THEN UNCHANGED faults
  ELSE faults < net.faults /\ faults' = faults + 1

(* One turn over the connections.  The forwarder passes over a connection   *)
(* if the decrement for it makes the TTL zero; the broadcaster does not.    *)
SendToAll(n, m, out, ttl, checked) ==
  \E givenUp \in SUBSET out :
    /\ GiveUp(givenUp)
    /\ \E pos \in Orders(out) :
         \E late \in Delays(out, pos) :
           SendOver(n, m,
                    {l \in out \ givenUp :
                       checked => Lowered(ttl, pos[l]) # 0},
                    [l \in out |-> Lowered(ttl, late[l])])

(* Mutant: nothing is recognised. *)
NeverSeen(n, m) == FALSE
AlreadySeen(n, m) == m \in seen[n]

(* lounge.Write: what the node remembers or has no room for is dropped. *)
Admit(n, m, ttl, from) ==
  IF AlreadySeen(n, m) \/ Len(queue[n]) >= LoungeSize
  THEN UNCHANGED <<seen, queue>>
  ELSE /\ seen' = [seen EXCEPT ![n] = @ \cup {m}]
       /\ queue' = [queue EXCEPT ![n] =
                      Append(@, [msg |-> m, ttl |-> ttl, from |-> from])]
-----------------------------------------------------------------------------
Born(m) ==
  /\ m \in net.msgs \ announced
  /\ announced' = announced \cup {m}
  /\ clean' = IF up = net.links /\ UNCHANGED faults THEN clean \cup {m}
              ELSE clean

(* A local client announces itself by multicast: the main loop puts the     *)
(* message into the lounge.                                                 *)
Announce(m) ==
  /\ m \notin Periodic
  /\ UNCHANGED <<net, linkVars, told, faults>>
  /\ Born(m)
  /\ Admit(Origin[m], m, net.ttl, NoLink)

(* The proactive broadcaster sends a message of its own straight to the     *)
(* connections; the lounge does not get to see it.                          *)
Broadcast(m) ==
  /\ m \in Periodic
  /\ SendToAll(Origin[m], m, Targets(Origin[m], NoLink), net.ttl, FALSE)
  /\ Born(m)
  /\ UNCHANGED <<net, up, nodeVars>>

(* A node receives a copy: its main loop puts it into the lounge.  Nothing  *)
(* looks at whose message it is.                                            *)
Deliver(l, n) ==
  /\ wire[l][n] # <<>>
  /\ Admit(n, Head(wire[l][n]).msg, Head(wire[l][n]).ttl, l)
  /\ wire' = [wire EXCEPT ![l][n] = Tail(@)]
  /\ UNCHANGED <<net, announced, up, crossed, told, faults, clean>>

(* The forwarder sends the message on and, unless it comes from this host,  *)
(* makes the local clients known to the one that is announced.              *)
Pass(n, e) ==
  /\ SendToAll(n, e.msg, Targets(n, e.from), e.ttl, TRUE)
  /\ told' = IF Origin[e.msg] = n THEN told
             ELSE [told EXCEPT ![n][e.msg] = OneMore(@)]
  /\ clean' = IF UNCHANGED faults THEN clean ELSE clean \ {e.msg}

(* Only private addresses are passed on and acted upon. *)
Forward(n) ==
  LET e == Head(queue[n]) IN
  /\ queue[n] # <<>>
  /\ queue' = [queue EXCEPT ![n] = Tail(@)]
  /\ IF e.msg \in Private THEN Pass(n, e)
     ELSE UNCHANGED <<wire, crossed, told, faults, clean>>
  /\ UNCHANGED <<net, announced, up, seen>>

(* The id expires, or is evicted. *)
Forget(n, m) ==
  /\ net.forgets
  /\ m \in seen[n]
  /\ seen' = [seen EXCEPT ![n] = @ \ {m}]
  /\ UNCHANGED <<net, announced, linkVars, queue, told, faults, clean>>
-----------------------------------------------------------------------------
(***************************************************************************)
(* Faults.  A link that is made again has another port on the dialing side,*)
(* so the acceptor no longer knows it as the source of what waits.         *)
(***************************************************************************)
Fault ==
  /\ faults < net.faults
  /\ faults' = faults + 1
  /\ clean' = {}

WithoutSource(entries, lost) ==
  [i \in 1..Len(entries) |->
     IF entries[i].from \in lost THEN [entries[i] EXCEPT !.from = NoLink]
     ELSE entries[i]]

Lose(lost) ==
  /\ up' = up \ lost
  /\ wire' = [l \in Links |-> IF l \in lost THEN [n \in Nodes |-> <<>>]
                              ELSE wire[l]]

Break(l) ==
  /\ l \in up
  /\ Fault
  /\ Lose({l})
  /\ queue' = [queue EXCEPT ![Acceptor[l]] = WithoutSource(@, {l})]
  /\ UNCHANGED <<net, announced, seen, told, crossed>>

(* connectPeer succeeds. *)
Reconnect(l) ==
  /\ l \in net.links \ up
  /\ up' = up \cup {l}
  /\ UNCHANGED <<net, announced, wire, crossed, nodeVars, faults, clean>>

(* The process of a node ends and is started again, with an empty memory.   *)
(* The counts are those of the new process.                                 *)
Restart(n) ==
  LET lost == {l \in up : n \in Ends(l)} IN
  /\ Fault
  /\ Lose(lost)
  /\ seen' = [seen EXCEPT ![n] = {}]
  /\ queue' = [x \in Nodes |->
       IF x = n THEN <<>>
       ELSE WithoutSource(queue[x], {l \in lost : Acceptor[l] = x})]
  /\ told' = [told EXCEPT ![n] = [m \in Msgs |-> 0]]
  /\ crossed' = [l \in Links |-> [x \in Nodes |->
       IF n \in Ends(l) /\ x # n THEN [m \in Msgs |-> 0] ELSE crossed[l][x]]]
  /\ UNCHANGED <<net, announced>>

Next ==
  \/ \E m \in Msgs : Announce(m) \/ Broadcast(m)
  \/ \E n \in Nodes :
       \/ \E l \in Links : Deliver(l, n)
       \/ Forward(n)
       \/ \E m \in Msgs : Forget(n, m)
       \/ Restart(n)
  \/ \E l \in Links : Break(l) \/ Reconnect(l)

Spec == Init /\ [][Next]_vars

(***************************************************************************)
(* The goroutines of a node get on (SwitchForwarding, ConnectionHub).      *)
(* Nothing obliges clients to announce themselves, ids to expire, or       *)
(* connections to be made or lost.                                         *)
(***************************************************************************)
Fairness ==
  \A n \in Nodes :
    /\ WF_vars(Forward(n))
    /\ \A l \in Links : WF_vars(Deliver(l, n))

FairSpec == Spec /\ Fairness
-----------------------------------------------------------------------------
(***************************************************************************)
(* Safety                                                                  *)
(***************************************************************************)
(* As long as nodes remember ids, a message crosses a connection at most    *)
(* once in each direction, whatever loops and parallel connections there    *)
(* are and whatever is lost and made again.  Only the node that broadcasts  *)
(* a message itself may send it twice: its own lounge has not seen it, and  *)
(* takes it in when it comes back around a loop.                            *)
CrossesOnce ==
  ~net.forgets =>
    \A l \in Links, n \in Nodes, m \in Msgs :
      crossed[l][n][m] <=
        IF m \in Periodic /\ Other(l, n) = Origin[m] THEN 2 ELSE 1

(* As long as nodes remember ids, a client's announcement is acted upon     *)
(* once by every other node, and never on the client's own host.            *)
ToldOnce ==
  \A n \in Nodes, m \in Msgs :
    /\ ~net.forgets => told[n][m] <= 1
    /\ told[n][m] > 0 => n # Origin[m] /\ m \in announced

Quiet ==
  /\ \A l \in Links, n \in Nodes : wire[l][n] = <<>>
  /\ \A n \in Nodes : queue[n] = <<>>

(* No part of the network is on its own.                                    *)
Connected ==
  \A part \in (SUBSET Nodes) \ {{}} :
    (\A l \in net.links : Ends(l) \cap part # {} => Ends(l) \subseteq part)
      => part = Nodes

(* Nothing cuts the flooding short: ids are remembered, no lounge can be    *)
(* full, and the TTL lasts although it is lowered for every connection      *)
(* (once at each end, and once more for the connections of a broadcaster).  *)
Ample ==
  /\ ~net.forgets
  /\ IsFiniteSet(net.msgs) /\ Cardinality(net.msgs) <= LoungeSize
  /\ net.ttl > 3 * Cardinality(net.links)

(* What has to reach every node: an announcement with a private address, in *)
(* a network that is whole and suffices, unless a copy was given up or a    *)
(* connection or a node failed since.                                       *)
Owed(m) == m \in clean \cap Private /\ Ample /\ Connected

(* README.md:53: the exchange converges.  When nothing travels any more, no *)
(* node has missed what it is owed: no interleaving, no loop and no shared  *)
(* TTL makes the flooding leave a node out.                                 *)
NobodyMissed ==
  Quiet => \A m \in Msgs, n \in Nodes :
             Owed(m) /\ n # Origin[m] => told[n][m] > 0
-----------------------------------------------------------------------------
(***************************************************************************)
(* Liveness                                                                *)
(***************************************************************************)
(* README.md:146: messages do not circulate for ever.  The memory of ids    *)
(* stops them, and where ids expire too early, the TTL, unless it wraps     *)
(* around, which takes a node with three connections (SwitchForwarding).    *)
Quiesces == <>[]Quiet

(* README.md:53: the exchange converges.  What is announced while the       *)
(* network is whole reaches every node; so does, after a fault, the next    *)
(* announcement once the connections are back.  A later fault, be it one    *)
(* copy that is given up, ends the debt: nothing is sent twice.             *)
Converges ==
  \A m \in Msgs :
    Owed(m) ~> \/ \A n \in Nodes \ {Origin[m]} : told[n][m] > 0
               \/ m \notin clean
=============================================================================
