------------------------ MODULE SwitchNetworkProofs ------------------------
(***************************************************************************)
(* Proofs about SwitchNetwork: whatever the graph of connections, however  *)
(* many messages, and whichever connections and nodes fail, as long as     *)
(* nodes remember ids a message crosses no connection twice and is acted   *)
(* upon once; and if lounges and TTL suffice and no copy was given up, an  *)
(* announcement with a private address misses no node of a whole network.  *)
(***************************************************************************)
EXTENDS SwitchNetwork, FiniteSetTheorems, SequenceTheorems, TLAPS

-----------------------------------------------------------------------------
(***************************************************************************)
(* The inductive invariant.  Whatever waits or travels has been announced; *)
(* a node remembers what waits in its lounge, and each message waits once. *)
(* It has told its clients of a message, and sent it on, only if it        *)
(* remembers it and it waits no longer; the broadcaster's own sending of a *)
(* message comes on top of that.                                           *)
(***************************************************************************)
Waits(n, m) == \E i \in 1..Len(queue[n]) : queue[n][i].msg = m
Passed(n, m) == m \in seen[n] /\ ~Waits(n, m)
Sent(n, m) == m \in Periodic /\ n = Origin[m] /\ m \in announced

Ones(p, q) == (IF p THEN 1 ELSE 0) + (IF q THEN 1 ELSE 0)

QueueAnnounced ==
  \A n \in Nodes : \A i \in 1..Len(queue[n]) : queue[n][i].msg \in announced
WireAnnounced ==
  \A l \in Links, n \in Nodes : \A i \in 1..Len(wire[l][n]) :
    wire[l][n][i].msg \in announced
ToldElsewhere ==
  \A n \in Nodes, m \in Msgs :
    told[n][m] > 0 => n # Origin[m] /\ m \in announced

QueueRemembered ==
  \A n \in Nodes : \A i \in 1..Len(queue[n]) : queue[n][i].msg \in seen[n]
QueueOnce ==
  \A n \in Nodes : \A i, j \in 1..Len(queue[n]) :
    queue[n][i].msg = queue[n][j].msg => i = j
ToldPassed ==
  \A n \in Nodes, m \in Msgs : told[n][m] <= Ones(Passed(n, m), FALSE)
CrossedPassed ==
  \A l \in Links, x \in Nodes, m \in Msgs :
    crossed[l][x][m] <= Ones(Passed(Other(l, x), m), Sent(Other(l, x), m))

Announced == QueueAnnounced /\ WireAnnounced /\ ToldElsewhere
Memory == QueueRemembered /\ QueueOnce
Counts == ToldPassed /\ CrossedPassed

NetInv ==
  /\ TypeOK
  /\ Announced
  /\ ~net.forgets => Memory /\ Counts

-----------------------------------------------------------------------------
(***************************************************************************)
(* The graph.                                                              *)
(***************************************************************************)
LEMMA OtherNode ==
  ASSUME NEW l \in Links, NEW n \in Nodes
  PROVE  /\ Other(l, n) \in Nodes
         /\ Ends(l) \subseteq Nodes
         /\ Other(l, n) # n
         /\ n \in Ends(l) => Other(l, Other(l, n)) = n
         /\ \A x \in Nodes : Other(l, x) = n => n \in Ends(l) /\ x # n
BY NetworkAssumption DEF Other, Ends

LEMMA LoweredType ==
  ASSUME NEW t \in 0..(TTLMod - 1), NEW k \in Nat
  PROVE  Lowered(t, k) \in 0..(TTLMod - 1)
<1>1. TTLMod \in Nat \ {0}
  BY NetworkAssumption
<1>2. k % TTLMod \in 0..(TTLMod - 1)
  BY <1>1
<1>3. t + TTLMod - (k % TTLMod) \in Nat
  BY <1>1, <1>2
<1>4. (t + TTLMod - (k % TTLMod)) % TTLMod \in 0..(TTLMod - 1)
  BY <1>1, <1>3
<1>. QED BY <1>4 DEF Lowered

LEMMA OneMoreType ==
  ASSUME NEW k \in 0..CountBound
  PROVE  OneMore(k) \in 0..CountBound /\ OneMore(k) <= k + 1 /\ OneMore(k) > 0
BY NetworkAssumption DEF OneMore

LEMMA NetType ==
  ASSUME net \in Instances
  PROVE  /\ net.links \in SUBSET Links
         /\ net.msgs \in SUBSET Msgs
         /\ net.ttl \in 0..(TTLMod - 1)
         /\ net.forgets \in BOOLEAN
         /\ net.faults \in Nat
BY NetworkAssumption

-----------------------------------------------------------------------------
(***************************************************************************)
(* What a turn over the connections does.                                  *)
(***************************************************************************)
LEMMA SendToAllStep ==
  ASSUME TypeOK,
         NEW n \in Nodes, NEW m \in Msgs,
         NEW out \in SUBSET {l \in Links : n \in Ends(l)},
         NEW ttl \in 0..(TTLMod - 1), NEW checked \in BOOLEAN,
         SendToAll(n, m, out, ttl, checked)
  PROVE  /\ faults' \in Nat
         /\ wire' \in [Links -> [Nodes -> Seq(Copy)]]
         /\ crossed' \in [Links -> [Nodes -> [Msgs -> 0..CountBound]]]
         /\ \A l \in Links, x \in Nodes : \A i \in 1..Len(wire'[l][x]) :
              \/ wire'[l][x][i].msg = m
              \/ i \in 1..Len(wire[l][x]) /\ wire'[l][x][i] = wire[l][x][i]
         /\ \A l \in Links, x \in Nodes, y \in Msgs :
              IF y = m /\ Other(l, x) = n
              THEN crossed'[l][x][y] <= crossed[l][x][y] + 1
              ELSE crossed'[l][x][y] = crossed[l][x][y]
<1>b. PICK givenUp \in SUBSET out :
        /\ GiveUp(givenUp)
        /\ \E pos \in Orders(out) : \E late \in Delays(out, pos) :
             SendOver(n, m, {l \in out \ givenUp :
                               checked => Lowered(ttl, pos[l]) # 0},
                      [l \in out |-> Lowered(ttl, late[l])])
  BY DEF SendToAll
<1>a. PICK pos \in Orders(out) : \E late \in Delays(out, pos) :
        SendOver(n, m, {l \in out \ givenUp :
                          checked => Lowered(ttl, pos[l]) # 0},
                 [l \in out |-> Lowered(ttl, late[l])])
  BY <1>b
<1>1. PICK late \in Delays(out, pos) :
        SendOver(n, m, {l \in out \ givenUp :
                          checked => Lowered(ttl, pos[l]) # 0},
                 [l \in out |-> Lowered(ttl, late[l])])
  BY <1>a
<1>c. faults' \in Nat
  BY <1>b DEF GiveUp, TypeOK
<1>. DEFINE sent == {l \in out \ givenUp :
                       checked => Lowered(ttl, pos[l]) # 0}
            low == [l \in out |-> Lowered(ttl, late[l])]
            copy(l) == [msg |-> m, ttl |-> low[l]]
<1>2. \A l \in out : late[l] \in Nat
  <2>1. \A l \in out : late[l] \in 1..Cardinality(out)
    BY DEF Delays
  <2>2. IsFiniteSet(out)
    BY FS_Subset, NetworkAssumption
  <2>. QED BY <2>1, <2>2, FS_CardinalityType
<1>3. \A l \in sent : copy(l) \in Copy
  <2>. SUFFICES ASSUME NEW l \in sent PROVE copy(l) \in Copy
    OBVIOUS
  <2>1. low[l] = Lowered(ttl, late[l]) /\ l \in out
    OBVIOUS
  <2>2. low[l] \in 0..(TTLMod - 1)
    BY <2>1, <1>2, LoweredType
  <2>. QED BY <2>2 DEF Copy
<1>. HIDE DEF low
<1>4. /\ wire' = [l \in Links |-> [x \in Nodes |->
            IF l \in sent /\ x = Other(l, n) THEN Append(wire[l][x], copy(l))
            ELSE wire[l][x]]]
      /\ crossed' = [l \in Links |-> [x \in Nodes |->
            IF l \in sent /\ x = Other(l, n)
            THEN [crossed[l][x] EXCEPT ![m] = OneMore(@)]
            ELSE crossed[l][x]]]
  BY <1>1 DEF SendOver, low
<1>. HIDE DEF sent
<1>5. \A l \in sent : l \in Links /\ n \in Ends(l)
  BY DEF sent
<1>6. ASSUME NEW l \in Links, NEW x \in Nodes
      PROVE  /\ wire'[l][x] \in Seq(Copy)
             /\ \A i \in 1..Len(wire'[l][x]) :
                  \/ wire'[l][x][i].msg = m
                  \/ i \in 1..Len(wire[l][x]) /\ wire'[l][x][i] = wire[l][x][i]
  <2>1. wire[l][x] \in Seq(Copy)
    BY DEF TypeOK
  <2>2. CASE l \in sent /\ x = Other(l, n)
    <3>1. wire'[l][x] = Append(wire[l][x], copy(l)) /\ copy(l) \in Copy
      BY <1>3, <1>4, <2>2
    <3>2. copy(l).msg = m
      OBVIOUS
    <3>. HIDE DEF copy
    <3>3. /\ Len(wire'[l][x]) = Len(wire[l][x]) + 1
          /\ wire'[l][x] \in Seq(Copy)
          /\ wire'[l][x][Len(wire[l][x]) + 1] = copy(l)
          /\ \A i \in 1..Len(wire[l][x]) : wire'[l][x][i] = wire[l][x][i]
      BY <2>1, <3>1
    <3>. QED BY <2>1, <3>2, <3>3
  <2>3. CASE ~(l \in sent /\ x = Other(l, n))
    BY <1>4, <2>1, <2>3
  <2>. QED BY <2>2, <2>3
<1>7. ASSUME NEW l \in Links, NEW x \in Nodes
      PROVE  /\ crossed'[l][x] \in [Msgs -> 0..CountBound]
             /\ \A y \in Msgs :
                  IF y = m /\ Other(l, x) = n
                  THEN crossed'[l][x][y] <= crossed[l][x][y] + 1
                  ELSE crossed'[l][x][y] = crossed[l][x][y]
  <2>1. crossed[l][x] \in [Msgs -> 0..CountBound]
    BY DEF TypeOK
  <2>2. CASE l \in sent /\ x = Other(l, n)
    <3>1. crossed'[l][x] = [crossed[l][x] EXCEPT ![m] = OneMore(@)]
      BY <1>4, <2>2
    <3>2. Other(l, x) = n
      BY <1>5, <2>2, OtherNode
    <3>. QED BY <2>1, <3>1, <3>2, OneMoreType
  <2>3. CASE ~(l \in sent /\ x = Other(l, n))
    <3>1. crossed'[l][x] = crossed[l][x]
      BY <1>4, <2>3
    <3>. QED BY <2>1, <3>1, NetworkAssumption
  <2>. QED BY <2>2, <2>3
<1>8. DOMAIN wire' = Links /\ \A l \in Links : wire'[l] \in [Nodes -> Seq(Copy)]
  BY <1>4, <1>6
<1>9. /\ wire' \in [Links -> [Nodes -> Seq(Copy)]]
  BY <1>4, <1>8
<1>10. crossed' \in [Links -> [Nodes -> [Msgs -> 0..CountBound]]]
  <2>1. \A l \in Links : crossed'[l] \in [Nodes -> [Msgs -> 0..CountBound]]
    BY <1>4, <1>7
  <2>. QED BY <1>4, <2>1
<1>. QED BY <1>6, <1>7, <1>9, <1>10, <1>c

(* What the forwarder sends to are connections of its node. *)
LEMMA TargetsType ==
  ASSUME TypeOK, NEW n \in Nodes, NEW from
  PROVE  Targets(n, from) \in SUBSET {l \in Links : n \in Ends(l)}
BY DEF Targets, TypeOK

-----------------------------------------------------------------------------
(***************************************************************************)
(* What an admission does.                                                 *)
(***************************************************************************)
LEMMA AdmitStep ==
  ASSUME TypeOK,
         NEW n \in Nodes, NEW m \in Msgs, NEW ttl \in 0..(TTLMod - 1),
         NEW from \in Links \cup {NoLink},
         Admit(n, m, ttl, from)
  PROVE  /\ seen' \in [Nodes -> SUBSET Msgs]
         /\ queue' \in [Nodes -> Seq(Entry)]
         /\ \A x \in Nodes : \A i \in 1..Len(queue'[x]) :
              \/ x = n /\ queue'[x][i].msg = m
              \/ i \in 1..Len(queue[x]) /\ queue'[x][i] = queue[x][i]
         /\ Memory => Memory'
         /\ Memory => \A x \in Nodes, y \in Msgs : Passed(x, y) => Passed(x, y)'
<1>1. CASE UNCHANGED <<seen, queue>>
  BY <1>1 DEF TypeOK, Memory, QueueRemembered, QueueOnce, Passed, Waits
<1>2. CASE ~UNCHANGED <<seen, queue>>
  <2>. DEFINE e == [msg |-> m, ttl |-> ttl, from |-> from]
  <2>1. /\ m \notin seen[n]
        /\ seen' = [seen EXCEPT ![n] = @ \cup {m}]
        /\ queue' = [queue EXCEPT ![n] = Append(@, e)]
    BY <1>2 DEF Admit, AlreadySeen
  <2>2. e \in Entry /\ e.msg = m
    BY DEF Entry
  <2>. HIDE DEF e
  <2>3. queue[n] \in Seq(Entry) /\ queue'[n] = Append(queue[n], e)
    BY <2>1 DEF TypeOK
  <2>4. /\ queue'[n] \in Seq(Entry)
        /\ Len(queue'[n]) = Len(queue[n]) + 1
        /\ queue'[n][Len(queue[n]) + 1] = e
        /\ \A i \in 1..Len(queue[n]) : queue'[n][i] = queue[n][i]
        /\ Len(queue[n]) \in Nat
    BY <2>2, <2>3
  <2>5. \A x \in Nodes \ {n} : queue'[x] = queue[x] /\ seen'[x] = seen[x]
    BY <2>1 DEF TypeOK
  <2>6. seen'[n] = seen[n] \cup {m}
    BY <2>1 DEF TypeOK
  <2>7. queue' \in [Nodes -> Seq(Entry)] /\ seen' \in [Nodes -> SUBSET Msgs]
    BY <2>1, <2>4 DEF TypeOK
  <2>8. \A x \in Nodes : \A i \in 1..Len(queue'[x]) :
          \/ x = n /\ i = Len(queue[n]) + 1 /\ queue'[x][i].msg = m
          \/ i \in 1..Len(queue[x]) /\ queue'[x][i] = queue[x][i]
    <3>. SUFFICES ASSUME NEW x \in Nodes, NEW i \in 1..Len(queue'[x])
                  PROVE  \/ x = n /\ i = Len(queue[n]) + 1 /\ queue'[x][i].msg = m
                         \/ i \in 1..Len(queue[x]) /\ queue'[x][i] = queue[x][i]
      OBVIOUS
    <3>1. CASE x = n
      BY <2>2, <2>4, <3>1
    <3>2. CASE x # n
      BY <2>5, <3>2
    <3>. QED BY <3>1, <3>2
  <2>9. ASSUME Memory PROVE Memory'
    <3>1. QueueRemembered'
      BY <2>5, <2>6, <2>8, <2>9 DEF Memory, QueueRemembered
    <3>2. QueueOnce'
      <4>. SUFFICES ASSUME NEW x \in Nodes, NEW i \in 1..Len(queue'[x]),
                           NEW j \in 1..Len(queue'[x]),
                           queue'[x][i].msg = queue'[x][j].msg
                    PROVE  i = j
        BY DEF QueueOnce
      <4>1. \A k \in 1..Len(queue[n]) : queue[n][k].msg # m
        BY <2>1, <2>9 DEF Memory, QueueRemembered
      <4>2. \A k, l \in 1..Len(queue[x]) :
              queue[x][k].msg = queue[x][l].msg => k = l
        BY <2>9 DEF Memory, QueueOnce
      <4>3. /\ \/ x = n /\ i = Len(queue[n]) + 1 /\ queue'[x][i].msg = m
               \/ i \in 1..Len(queue[x]) /\ queue'[x][i] = queue[x][i]
            /\ \/ x = n /\ j = Len(queue[n]) + 1 /\ queue'[x][j].msg = m
               \/ j \in 1..Len(queue[x]) /\ queue'[x][j] = queue[x][j]
        BY <2>8
      <4>. QED BY <4>1, <4>2, <4>3
    <3>. QED BY <3>1, <3>2 DEF Memory
  <2>10. ASSUME Memory, NEW x \in Nodes, NEW y \in Msgs, Passed(x, y)
         PROVE  Passed(x, y)'
    <3>1. y \in seen[x] /\ ~Waits(x, y)
      BY <2>10 DEF Passed
    <3>2. y \in seen'[x]
      BY <2>5, <2>6, <3>1
    <3>3. ~(x = n /\ y = m)
      BY <2>1, <3>1
    <3>4. \A i \in 1..Len(queue'[x]) : queue'[x][i].msg # y
      BY <2>8, <3>1, <3>3 DEF Waits
    <3>. QED BY <3>2, <3>4 DEF Passed, Waits
  <2>. QED BY <2>7, <2>8, <2>9, <2>10
<1>. QED BY <1>1, <1>2

-----------------------------------------------------------------------------
(***************************************************************************)
(* The invariant holds, one step per action.                               *)
(***************************************************************************)
LEMMA InitNetInv == Init => NetInv
<1>. SUFFICES ASSUME Init PROVE NetInv
  OBVIOUS
<1>1. TypeOK
  <2>1. net \in Instances /\ up \in SUBSET Links
    BY NetType DEF Init
  <2>2. /\ wire \in [Links -> [Nodes -> Seq(Copy)]]
        /\ queue \in [Nodes -> Seq(Entry)]
        /\ seen \in [Nodes -> SUBSET Msgs]
    BY DEF Init
  <2>3. /\ told \in [Nodes -> [Msgs -> 0..CountBound]]
        /\ crossed \in [Links -> [Nodes -> [Msgs -> 0..CountBound]]]
    BY NetworkAssumption DEF Init
  <2>. QED BY <2>1, <2>2, <2>3 DEF Init, TypeOK
<1>2. \A n \in Nodes : Len(queue[n]) = 0
  BY DEF Init
<1>3. \A l \in Links, n \in Nodes : Len(wire[l][n]) = 0
  BY DEF Init
<1>4. Announced
  BY <1>2, <1>3 DEF Init, Announced, QueueAnnounced, WireAnnounced, ToldElsewhere
<1>5. Memory
  BY <1>2 DEF Memory, QueueRemembered, QueueOnce
<1>6. Counts
  BY OtherNode DEF Init, Counts, ToldPassed, CrossedPassed, Ones
<1>. QED BY <1>1, <1>4, <1>5, <1>6 DEF NetInv

(* Nothing unannounced turns up where messages are only moved. *)
LEMMA AnnouncedStep ==
  ASSUME Announced, announced \subseteq announced', UNCHANGED told,
         \A x \in Nodes : \A i \in 1..Len(queue'[x]) :
           \/ queue'[x][i].msg \in announced'
           \/ \E j \in 1..Len(queue[x]) : queue'[x][i].msg = queue[x][j].msg,
         \A k \in Links, x \in Nodes : \A i \in 1..Len(wire'[k][x]) :
           \/ wire'[k][x][i].msg \in announced'
           \/ \E j \in 1..Len(wire[k][x]) : wire'[k][x][i].msg = wire[k][x][j].msg
  PROVE  Announced'
<1>1. QueueAnnounced'
  <2>. SUFFICES ASSUME NEW x \in Nodes, NEW i \in 1..Len(queue'[x])
                PROVE  queue'[x][i].msg \in announced'
    BY DEF QueueAnnounced
  <2>1. \A j \in 1..Len(queue[x]) : queue[x][j].msg \in announced
    BY DEF Announced, QueueAnnounced
  <2>. QED BY <2>1
<1>2. WireAnnounced'
  <2>. SUFFICES ASSUME NEW k \in Links, NEW x \in Nodes,
                       NEW i \in 1..Len(wire'[k][x])
                PROVE  wire'[k][x][i].msg \in announced'
    BY DEF WireAnnounced
  <2>1. \A j \in 1..Len(wire[k][x]) : wire[k][x][j].msg \in announced
    BY DEF Announced, WireAnnounced
  <2>. QED BY <2>1
<1>3. ToldElsewhere'
  BY DEF Announced, ToldElsewhere
<1>. QED BY <1>1, <1>2, <1>3 DEF Announced

(* The counts stay right if they stay the same and nothing that has passed  *)
(* is forgotten.                                                            *)
LEMMA CountsStep ==
  ASSUME TypeOK, Counts, UNCHANGED <<told, crossed>>,
         announced \subseteq announced',
         \A x \in Nodes, y \in Msgs : Passed(x, y) => Passed(x, y)'
  PROVE  Counts'
<1>1. ToldPassed'
  <2>. SUFFICES ASSUME NEW x \in Nodes, NEW y \in Msgs
                PROVE  told[x][y] <= Ones(Passed(x, y), FALSE)'
    BY DEF ToldPassed
  <2>1. told[x][y] <= Ones(Passed(x, y), FALSE)
    BY DEF Counts, ToldPassed
  <2>2. told[x][y] \in 0..CountBound
    BY DEF TypeOK
  <2>. QED BY <2>1, <2>2, NetworkAssumption DEF Ones
<1>2. CrossedPassed'
  <2>. SUFFICES ASSUME NEW l \in Links, NEW x \in Nodes, NEW y \in Msgs
                PROVE  crossed[l][x][y] <=
                         Ones(Passed(Other(l, x), y), Sent(Other(l, x), y))'
    BY DEF CrossedPassed
  <2>1. /\ crossed[l][x][y] <=
             Ones(Passed(Other(l, x), y), Sent(Other(l, x), y))
        /\ crossed[l][x][y] \in Nat
    BY NetworkAssumption DEF Counts, CrossedPassed, TypeOK
  <2>2. Passed(Other(l, x), y) => Passed(Other(l, x), y)'
    BY OtherNode
  <2>3. Sent(Other(l, x), y) => Sent(Other(l, x), y)'
    BY DEF Sent
  <2>. QED BY <2>1, <2>2, <2>3 DEF Ones
<1>. QED BY <1>1, <1>2 DEF Counts

(* A message that comes from outside. *)
LEMMA BornType ==
  ASSUME TypeOK, NEW m \in Msgs, Born(m)
  PROVE  /\ announced' \in SUBSET Msgs
         /\ clean' \in SUBSET Msgs
         /\ announced' = announced \cup {m}
         /\ m \notin announced
BY DEF TypeOK, Born

LEMMA AnnounceInv ==
  ASSUME NetInv, NEW m \in Msgs, Announce(m)
  PROVE  NetInv'
<1>. USE DEF NetInv
<1>1. Origin[m] \in Nodes /\ net.ttl \in 0..(TTLMod - 1)
  BY NetType, NetworkAssumption DEF TypeOK
<1>2. /\ Born(m) /\ Admit(Origin[m], m, net.ttl, NoLink) /\ m \notin Periodic
      /\ UNCHANGED <<net, up, wire, crossed, told, faults>>
  BY DEF Announce, linkVars
<1>3. /\ seen' \in [Nodes -> SUBSET Msgs]
      /\ queue' \in [Nodes -> Seq(Entry)]
      /\ \A x \in Nodes : \A i \in 1..Len(queue'[x]) :
           \/ x = Origin[m] /\ queue'[x][i].msg = m
           \/ i \in 1..Len(queue[x]) /\ queue'[x][i] = queue[x][i]
      /\ Memory => Memory'
      /\ Memory => \A x \in Nodes, y \in Msgs : Passed(x, y) => Passed(x, y)'
  BY <1>1, <1>2, AdmitStep
<1>4. TypeOK'
  BY <1>2, <1>3, BornType DEF TypeOK
<1>5. Announced'
  <2>1. announced' = announced \cup {m}
    BY <1>2, BornType
  <2>2. \A x \in Nodes : \A i \in 1..Len(queue'[x]) :
          \/ queue'[x][i].msg \in announced'
          \/ \E j \in 1..Len(queue[x]) : queue'[x][i].msg = queue[x][j].msg
    BY <1>2, <1>3, <2>1
  <2>3. \A k \in Links, x \in Nodes : \A i \in 1..Len(wire'[k][x]) :
          \/ wire'[k][x][i].msg \in announced'
          \/ \E j \in 1..Len(wire[k][x]) : wire'[k][x][i].msg = wire[k][x][j].msg
    BY <1>2, <1>3, <2>1
  <2>. QED BY <1>2, <2>1, <2>2, <2>3, AnnouncedStep
<1>6. ASSUME ~net.forgets PROVE Memory' /\ Counts'
  <2>1. Memory /\ Counts /\ announced \subseteq announced'
    BY <1>2, <1>6, BornType
  <2>. QED BY <1>2, <1>3, <2>1, CountsStep
<1>. QED BY <1>2, <1>4, <1>5, <1>6

LEMMA BroadcastInv ==
  ASSUME NetInv, NEW m \in Msgs, Broadcast(m)
  PROVE  NetInv'
<1>. USE DEF NetInv
<1>. DEFINE n == Origin[m]
<1>1. n \in Nodes /\ net.ttl \in 0..(TTLMod - 1)
  BY NetType, NetworkAssumption DEF TypeOK
<1>2. /\ m \in Periodic /\ Born(m)
      /\ SendToAll(n, m, Targets(n, NoLink), net.ttl, FALSE)
      /\ UNCHANGED <<net, up, seen, queue, told>>
  BY DEF Broadcast, nodeVars
<1>3. /\ faults' \in Nat
      /\ wire' \in [Links -> [Nodes -> Seq(Copy)]]
      /\ crossed' \in [Links -> [Nodes -> [Msgs -> 0..CountBound]]]
      /\ \A l \in Links, x \in Nodes : \A i \in 1..Len(wire'[l][x]) :
           \/ wire'[l][x][i].msg = m
           \/ i \in 1..Len(wire[l][x]) /\ wire'[l][x][i] = wire[l][x][i]
      /\ \A l \in Links, x \in Nodes, y \in Msgs :
           IF y = m /\ Other(l, x) = n
           THEN crossed'[l][x][y] <= crossed[l][x][y] + 1
           ELSE crossed'[l][x][y] = crossed[l][x][y]
  BY <1>1, <1>2, TargetsType, SendToAllStep
<1>4. TypeOK'
  BY <1>2, <1>3, BornType DEF TypeOK
<1>5. Announced'
  <2>1. announced' = announced \cup {m}
    BY <1>2, BornType
  <2>2. \A x \in Nodes : \A i \in 1..Len(queue'[x]) :
          \/ queue'[x][i].msg \in announced'
          \/ \E j \in 1..Len(queue[x]) : queue'[x][i].msg = queue[x][j].msg
    BY <1>2, <1>3, <2>1
  <2>3. \A k \in Links, x \in Nodes : \A i \in 1..Len(wire'[k][x]) :
          \/ wire'[k][x][i].msg \in announced'
          \/ \E j \in 1..Len(wire[k][x]) : wire'[k][x][i].msg = wire[k][x][j].msg
    BY <1>2, <1>3, <2>1
  <2>. QED BY <1>2, <2>1, <2>2, <2>3, AnnouncedStep
<1>6. ASSUME ~net.forgets PROVE Memory' /\ Counts'
  <2>1. Memory /\ Counts
    BY <1>6
  <2>2. Memory' /\ \A x \in Nodes, y \in Msgs : Passed(x, y)' = Passed(x, y)
    BY <1>2, <2>1 DEF Memory, QueueRemembered, QueueOnce, Passed, Waits
  <2>3. ToldPassed'
    BY <1>2, <2>1, <2>2 DEF Counts, ToldPassed, Ones
  <2>4. CrossedPassed'
    <3>. SUFFICES ASSUME NEW l \in Links, NEW x \in Nodes, NEW y \in Msgs
                  PROVE  crossed'[l][x][y] <=
                           Ones(Passed(Other(l, x), y), Sent(Other(l, x), y))'
      BY DEF CrossedPassed
    <3>1. crossed[l][x][y] <= Ones(Passed(Other(l, x), y), Sent(Other(l, x), y))
      BY <2>1 DEF Counts, CrossedPassed
    <3>2. crossed[l][x][y] \in Nat /\ crossed'[l][x][y] \in Nat
      BY <1>3, NetworkAssumption DEF TypeOK
    <3>3. Passed(Other(l, x), y)' = Passed(Other(l, x), y)
      BY <2>2, OtherNode
    <3>4. CASE y = m /\ Other(l, x) = n
      <4>1. ~Sent(n, m) /\ Sent(n, m)'
        BY <1>2, BornType DEF Sent
      <4>. QED BY <1>3, <3>1, <3>2, <3>3, <3>4, <4>1 DEF Ones
    <3>5. CASE ~(y = m /\ Other(l, x) = n)
      <4>1. Sent(Other(l, x), y)' = Sent(Other(l, x), y)
        BY <1>2, <3>5, BornType DEF Sent
      <4>. QED BY <1>3, <3>1, <3>2, <3>3, <3>5, <4>1 DEF Ones
    <3>. QED BY <3>4, <3>5
  <2>. QED BY <2>2, <2>3, <2>4 DEF Counts
<1>. QED BY <1>2, <1>4, <1>5, <1>6

LEMMA DeliverInv ==
  ASSUME NetInv, NEW l \in Links, NEW n \in Nodes, Deliver(l, n)
  PROVE  NetInv'
<1>. USE DEF NetInv
<1>. DEFINE m == Head(wire[l][n]).msg
<1>a. wire[l][n] \in Seq(Copy) /\ wire[l][n] # <<>>
  BY DEF Deliver, TypeOK
<1>1. m \in announced /\ m \in Msgs /\ Head(wire[l][n]).ttl \in 0..(TTLMod - 1)
  <2>1. Head(wire[l][n]) = wire[l][n][1] /\ 1 \in 1..Len(wire[l][n])
    BY <1>a
  <2>2. Head(wire[l][n]) \in Copy
    BY <1>a
  <2>. QED BY <2>1, <2>2 DEF Copy, Announced, WireAnnounced
<1>. HIDE DEF m
<1>2. /\ Admit(n, m, Head(wire[l][n]).ttl, l)
      /\ wire' = [wire EXCEPT ![l][n] = Tail(@)]
      /\ UNCHANGED <<net, announced, up, crossed, told, faults, clean>>
  BY DEF Deliver, m
<1>3. /\ seen' \in [Nodes -> SUBSET Msgs]
      /\ queue' \in [Nodes -> Seq(Entry)]
      /\ \A x \in Nodes : \A i \in 1..Len(queue'[x]) :
           \/ x = n /\ queue'[x][i].msg = m
           \/ i \in 1..Len(queue[x]) /\ queue'[x][i] = queue[x][i]
      /\ Memory => Memory'
      /\ Memory => \A x \in Nodes, y \in Msgs : Passed(x, y) => Passed(x, y)'
  BY <1>1, <1>2, AdmitStep
<1>4. /\ wire' \in [Links -> [Nodes -> Seq(Copy)]]
      /\ \A k \in Links, x \in Nodes : \A i \in 1..Len(wire'[k][x]) :
           \E j \in 1..Len(wire[k][x]) : wire'[k][x][i] = wire[k][x][j]
  <2>1. /\ Tail(wire[l][n]) \in Seq(Copy)
        /\ \A i \in 1..Len(Tail(wire[l][n])) :
             i + 1 \in 1..Len(wire[l][n]) /\ Tail(wire[l][n])[i] = wire[l][n][i + 1]
    BY <1>a
  <2>2. \A k \in Links, x \in Nodes :
          wire'[k][x] = IF k = l /\ x = n THEN Tail(wire[l][n]) ELSE wire[k][x]
    BY <1>2 DEF TypeOK
  <2>3. wire' \in [Links -> [Nodes -> Seq(Copy)]]
    BY <1>2, <2>1 DEF TypeOK
  <2>4. \A k \in Links, x \in Nodes : \A i \in 1..Len(wire'[k][x]) :
          \E j \in 1..Len(wire[k][x]) : wire'[k][x][i] = wire[k][x][j]
    BY <2>1, <2>2
  <2>. QED BY <2>3, <2>4
<1>5. TypeOK'
  BY <1>2, <1>3, <1>4 DEF TypeOK
<1>6. Announced'
  <2>1. \A x \in Nodes : \A i \in 1..Len(queue'[x]) :
          \/ queue'[x][i].msg \in announced'
          \/ \E j \in 1..Len(queue[x]) : queue'[x][i].msg = queue[x][j].msg
    BY <1>1, <1>2, <1>3
  <2>2. \A k \in Links, x \in Nodes : \A i \in 1..Len(wire'[k][x]) :
          \/ wire'[k][x][i].msg \in announced'
          \/ \E j \in 1..Len(wire[k][x]) : wire'[k][x][i].msg = wire[k][x][j].msg
    <3>. SUFFICES ASSUME NEW k \in Links, NEW x \in Nodes,
                         NEW i \in 1..Len(wire'[k][x])
                  PROVE  \E j \in 1..Len(wire[k][x]) :
                           wire'[k][x][i].msg = wire[k][x][j].msg
      OBVIOUS
    <3>1. PICK j \in 1..Len(wire[k][x]) : wire'[k][x][i] = wire[k][x][j]
      BY <1>4
    <3>. QED BY <3>1
  <2>. QED BY <1>2, <2>1, <2>2, AnnouncedStep
<1>7. ASSUME ~net.forgets PROVE Memory' /\ Counts'
  BY <1>2, <1>3, <1>7, CountsStep
<1>. QED BY <1>2, <1>5, <1>6, <1>7

LEMMA ForwardInv ==
  ASSUME NetInv, NEW n \in Nodes, Forward(n)
  PROVE  NetInv'
<1>. USE DEF NetInv
<1>a. queue[n] \in Seq(Entry) /\ queue[n] # <<>>
  BY DEF Forward, TypeOK
<1>b. PICK e \in Entry : e = Head(queue[n])
  BY <1>a
<1>1. /\ e = queue[n][1] /\ 1 \in 1..Len(queue[n]) /\ e \in Entry
      /\ e.msg \in Msgs /\ e.ttl \in 0..(TTLMod - 1)
      /\ e.msg \in announced
  <2>1. e = queue[n][1] /\ 1 \in 1..Len(queue[n]) /\ e \in Entry
    BY <1>a, <1>b
  <2>2. e.msg \in announced
    BY <2>1 DEF Announced, QueueAnnounced
  <2>. QED BY <2>1, <2>2 DEF Entry
<1>2. /\ queue' = [queue EXCEPT ![n] = Tail(@)]
      /\ \/ Pass(n, e)
         \/ UNCHANGED <<wire, crossed, told, faults, clean>>
      /\ UNCHANGED <<net, announced, up, seen>>
  BY <1>b DEF Forward
<1>3. /\ faults' \in Nat /\ clean' \in SUBSET Msgs
      /\ wire' \in [Links -> [Nodes -> Seq(Copy)]]
      /\ crossed' \in [Links -> [Nodes -> [Msgs -> 0..CountBound]]]
      /\ \A l \in Links, x \in Nodes : \A i \in 1..Len(wire'[l][x]) :
           \/ wire'[l][x][i].msg = e.msg
           \/ i \in 1..Len(wire[l][x]) /\ wire'[l][x][i] = wire[l][x][i]
      /\ \A l \in Links, x \in Nodes, y \in Msgs :
           IF y = e.msg /\ Other(l, x) = n
           THEN crossed'[l][x][y] <= crossed[l][x][y] + 1
           ELSE crossed'[l][x][y] = crossed[l][x][y]
  <2>1. CASE Pass(n, e)
    <3>1. SendToAll(n, e.msg, Targets(n, e.from), e.ttl, TRUE)
      BY <2>1 DEF Pass
    <3>2. clean' \in SUBSET Msgs
      BY <2>1 DEF Pass, TypeOK
    <3>. QED BY <1>1, <3>1, <3>2, TargetsType, SendToAllStep
  <2>2. CASE UNCHANGED <<wire, crossed, told, faults, clean>>
    <3>1. \A l \in Links, x \in Nodes, y \in Msgs : crossed[l][x][y] \in Nat
      BY NetworkAssumption DEF TypeOK
    <3>. QED BY <2>2, <3>1 DEF TypeOK
  <2>. QED BY <1>2, <2>1, <2>2
<1>4. /\ queue'[n] \in Seq(Entry) /\ Len(queue'[n]) = Len(queue[n]) - 1
      /\ \A i \in 1..Len(queue'[n]) :
           i + 1 \in 1..Len(queue[n]) /\ queue'[n][i] = queue[n][i + 1]
      /\ \A x \in Nodes \ {n} : queue'[x] = queue[x]
      /\ queue' \in [Nodes -> Seq(Entry)]
  <2>1. queue'[n] = Tail(queue[n])
    BY <1>2 DEF TypeOK
  <2>2. queue'[n] \in Seq(Entry) /\ Len(queue'[n]) = Len(queue[n]) - 1
    BY <1>a, <2>1
  <2>3. \A i \in 1..Len(queue'[n]) :
          i + 1 \in 1..Len(queue[n]) /\ queue'[n][i] = queue[n][i + 1]
    BY <1>a, <2>1
  <2>4. \A x \in Nodes \ {n} : queue'[x] = queue[x]
    BY <1>2 DEF TypeOK
  <2>. QED BY <1>2, <2>2, <2>3, <2>4 DEF TypeOK
<1>5. /\ told' \in [Nodes -> [Msgs -> 0..CountBound]]
      /\ \A x \in Nodes, y \in Msgs :
           IF x = n /\ y = e.msg /\ Origin[y] # n
           THEN told'[x][y] <= told[x][y] + 1
           ELSE told'[x][y] = told[x][y]
  <2>1. told[n][e.msg] \in 0..CountBound
    BY <1>1 DEF TypeOK
  <2>2. CASE UNCHANGED told
    <3>1. \A x \in Nodes, y \in Msgs : told[x][y] \in Nat
      BY NetworkAssumption DEF TypeOK
    <3>. QED BY <2>2, <3>1 DEF TypeOK
  <2>3. CASE ~UNCHANGED told
    <3>1. /\ told' = [told EXCEPT ![n][e.msg] = OneMore(@)]
          /\ Origin[e.msg] # n
      BY <1>2, <2>3 DEF Pass
    <3>2. OneMore(told[n][e.msg]) \in 0..CountBound
          /\ OneMore(told[n][e.msg]) <= told[n][e.msg] + 1
      BY <2>1, OneMoreType
    <3>3. \A x \in Nodes, y \in Msgs :
            told'[x][y] = IF x = n /\ y = e.msg THEN OneMore(told[n][e.msg])
                          ELSE told[x][y]
      BY <1>1, <3>1 DEF TypeOK
    <3>4. told' \in [Nodes -> [Msgs -> 0..CountBound]]
      BY <1>1, <3>1, <3>2 DEF TypeOK
    <3>. QED BY <3>1, <3>2, <3>3, <3>4
  <2>. QED BY <2>2, <2>3
<1>6. TypeOK'
  BY <1>2, <1>3, <1>4, <1>5 DEF TypeOK
<1>7. Announced'
  <2>1. QueueAnnounced'
    BY <1>2, <1>4 DEF Announced, QueueAnnounced
  <2>2. WireAnnounced'
    <3>. SUFFICES ASSUME NEW l \in Links, NEW x \in Nodes,
                         NEW i \in 1..Len(wire'[l][x])
                  PROVE  wire'[l][x][i].msg \in announced
      BY <1>2 DEF WireAnnounced
    <3>1. CASE wire'[l][x][i].msg = e.msg
      BY <1>1, <3>1
    <3>2. CASE wire'[l][x][i].msg # e.msg
      <4>1. i \in 1..Len(wire[l][x]) /\ wire'[l][x][i] = wire[l][x][i]
        BY <1>3, <3>2
      <4>. QED BY <4>1 DEF Announced, WireAnnounced
    <3>. QED BY <3>1, <3>2
  <2>3. ToldElsewhere'
    <3>. SUFFICES ASSUME NEW x \in Nodes, NEW y \in Msgs, told'[x][y] > 0
                  PROVE  x # Origin[y] /\ y \in announced
      BY <1>2 DEF ToldElsewhere
    <3>. QED BY <1>1, <1>5 DEF Announced, ToldElsewhere
  <2>. QED BY <2>1, <2>2, <2>3 DEF Announced
<1>8. ASSUME ~net.forgets PROVE Memory' /\ Counts'
  <2>1. Memory /\ Counts
    BY <1>8
  <2>2. Memory'
    <3>1. QueueRemembered'
      BY <1>2, <1>4, <2>1 DEF Memory, QueueRemembered
    <3>2. QueueOnce'
      <4>. SUFFICES ASSUME NEW x \in Nodes, NEW i \in 1..Len(queue'[x]),
                           NEW j \in 1..Len(queue'[x]),
                           queue'[x][i].msg = queue'[x][j].msg
                    PROVE  i = j
        BY DEF QueueOnce
      <4>1. \A k, l \in 1..Len(queue[x]) :
              queue[x][k].msg = queue[x][l].msg => k = l
        BY <2>1 DEF Memory, QueueOnce
      <4>2. CASE x = n
        <5>1. /\ i + 1 \in 1..Len(queue[x]) /\ queue'[x][i] = queue[x][i + 1]
              /\ j + 1 \in 1..Len(queue[x]) /\ queue'[x][j] = queue[x][j + 1]
          BY <1>4, <4>2
        <5>. QED BY <4>1, <5>1
      <4>3. CASE x # n
        BY <1>4, <4>1, <4>3
      <4>. QED BY <4>2, <4>3
    <3>. QED BY <3>1, <3>2 DEF Memory
  <2>3. ~Passed(n, e.msg) /\ Passed(n, e.msg)'
    <3>1. e.msg \in seen[n] /\ Waits(n, e.msg)
      BY <1>1, <2>1 DEF Memory, QueueRemembered, Waits
    <3>2. \A i \in 1..Len(queue'[n]) : queue'[n][i].msg # e.msg
      <4>. SUFFICES ASSUME NEW i \in 1..Len(queue'[n]),
                           queue'[n][i].msg = e.msg
                    PROVE  FALSE
        OBVIOUS
      <4>1. i + 1 \in 1..Len(queue[n]) /\ queue[n][i + 1].msg = queue[n][1].msg
        BY <1>1, <1>4
      <4>2. i + 1 = 1
        BY <1>1, <2>1, <4>1 DEF Memory, QueueOnce
      <4>. QED BY <4>2
    <3>3. ~Passed(n, e.msg)
      BY <3>1 DEF Passed
    <3>4. ~Waits(n, e.msg)'
      BY <1>2, <3>2 DEF Waits
    <3>5. Passed(n, e.msg)'
      BY <1>2, <3>1, <3>4 DEF Passed
    <3>. QED BY <3>3, <3>5
  <2>4. \A x \in Nodes, y \in Msgs : Passed(x, y) => Passed(x, y)'
    <3>. SUFFICES ASSUME NEW x \in Nodes, NEW y \in Msgs, Passed(x, y)
                  PROVE  Passed(x, y)'
      OBVIOUS
    <3>1. y \in seen'[x] /\ ~Waits(x, y)
      BY <1>2 DEF Passed
    <3>2. \A i \in 1..Len(queue'[x]) : queue'[x][i].msg # y
      BY <1>4, <3>1 DEF Waits
    <3>. QED BY <3>1, <3>2 DEF Passed, Waits
  <2>5. ToldPassed'
    <3>. SUFFICES ASSUME NEW x \in Nodes, NEW y \in Msgs
                  PROVE  told'[x][y] <= Ones(Passed(x, y), FALSE)'
      BY DEF ToldPassed
    <3>1. told[x][y] <= Ones(Passed(x, y), FALSE)
      BY <2>1 DEF Counts, ToldPassed
    <3>2. told[x][y] \in Nat /\ told'[x][y] \in Nat
      <4>1. told[x][y] \in 0..CountBound
        BY DEF TypeOK
      <4>2. told'[x][y] \in 0..CountBound
        BY <1>5
      <4>. QED BY <4>1, <4>2, NetworkAssumption
    <3>3. CASE x = n /\ y = e.msg
      <4>1. ~Passed(x, y) /\ Passed(x, y)'
        BY <1>2, <2>3, <3>3
      <4>2. told'[x][y] <= told[x][y] + 1
        BY <1>5, <3>2
      <4>. QED BY <3>1, <3>2, <4>1, <4>2 DEF Ones
    <3>4. CASE ~(x = n /\ y = e.msg)
      <4>1. told'[x][y] = told[x][y]
        BY <1>5, <3>4
      <4>. QED BY <2>4, <3>1, <3>2, <4>1 DEF Ones
    <3>. QED BY <3>3, <3>4
  <2>6. CrossedPassed'
    <3>. SUFFICES ASSUME NEW l \in Links, NEW x \in Nodes, NEW y \in Msgs
                  PROVE  crossed'[l][x][y] <=
                           Ones(Passed(Other(l, x), y), Sent(Other(l, x), y))'
      BY DEF CrossedPassed
    <3>1. /\ crossed[l][x][y] <=
               Ones(Passed(Other(l, x), y), Sent(Other(l, x), y))
          /\ crossed[l][x][y] \in Nat /\ crossed'[l][x][y] \in Nat
      BY <1>3, <2>1, NetworkAssumption DEF Counts, CrossedPassed, TypeOK
    <3>2. Sent(Other(l, x), y)' = Sent(Other(l, x), y)
      BY <1>2 DEF Sent
    <3>3. Passed(Other(l, x), y) => Passed(Other(l, x), y)'
      BY <2>4, OtherNode
    <3>4. CASE y = e.msg /\ Other(l, x) = n
      <4>1. ~Passed(Other(l, x), y) /\ Passed(Other(l, x), y)'
        BY <2>3, <3>4
      <4>2. crossed'[l][x][y] <= crossed[l][x][y] + 1
        BY <1>3, <3>4
      <4>. QED BY <3>1, <3>2, <4>1, <4>2 DEF Ones
    <3>5. CASE ~(y = e.msg /\ Other(l, x) = n)
      <4>1. crossed'[l][x][y] = crossed[l][x][y]
        BY <1>3, <3>5
      <4>. QED BY <3>1, <3>2, <3>3, <4>1 DEF Ones
    <3>. QED BY <3>4, <3>5
  <2>. QED BY <2>2, <2>5, <2>6 DEF Counts
<1>. QED BY <1>2, <1>6, <1>7, <1>8

LEMMA ForgetInv ==
  ASSUME NetInv, NEW n \in Nodes, NEW m \in Msgs, Forget(n, m)
  PROVE  NetInv'
<1>. USE DEF NetInv
<1>1. /\ seen' = [seen EXCEPT ![n] = @ \ {m}] /\ net.forgets
      /\ UNCHANGED <<net, announced, up, wire, crossed, queue, told, faults,
                     clean>>
  BY DEF Forget, linkVars
<1>2. TypeOK'
  BY <1>1 DEF TypeOK
<1>3. Announced'
  BY <1>1 DEF Announced, QueueAnnounced, WireAnnounced, ToldElsewhere
<1>. QED BY <1>1, <1>2, <1>3
-----------------------------------------------------------------------------
(***************************************************************************)
(* Faults.                                                                 *)
(***************************************************************************)
LEMMA WithoutSourceStep ==
  ASSUME NEW s \in Seq(Entry), NEW lost
  PROVE  /\ WithoutSource(s, lost) \in Seq(Entry)
         /\ Len(WithoutSource(s, lost)) = Len(s)
         /\ \A i \in 1..Len(s) : WithoutSource(s, lost)[i].msg = s[i].msg
<1>. DEFINE new(i) == IF s[i].from \in lost THEN [s[i] EXCEPT !.from = NoLink]
                      ELSE s[i]
<1>1. \A i \in 1..Len(s) : s[i] \in Entry
  OBVIOUS
<1>2. \A i \in 1..Len(s) : new(i) \in Entry /\ new(i).msg = s[i].msg
  BY <1>1 DEF Entry
<1>3. WithoutSource(s, lost) = [i \in 1..Len(s) |-> new(i)]
  BY DEF WithoutSource
<1>. HIDE DEF new
<1>4. Len(s) \in Nat
  OBVIOUS
<1>5. [i \in 1..Len(s) |-> new(i)] \in Seq(Entry)
  BY <1>2, <1>4
<1>6. Len([i \in 1..Len(s) |-> new(i)]) = Len(s)
  BY <1>4, <1>5
<1>. QED BY <1>2, <1>3, <1>5, <1>6

(* Renaming sources changes neither what waits nor what has passed. *)
LEMMA SameMessages ==
  ASSUME UNCHANGED seen,
         \A x \in Nodes :
           /\ Len(queue'[x]) = Len(queue[x])
           /\ \A i \in 1..Len(queue[x]) : queue'[x][i].msg = queue[x][i].msg
  PROVE  /\ Memory => Memory'
         /\ \A x \in Nodes, y \in Msgs : Passed(x, y) => Passed(x, y)'
<1>1. ASSUME Memory PROVE Memory'
  BY <1>1 DEF Memory, QueueRemembered, QueueOnce
<1>2. ASSUME NEW x \in Nodes, NEW y \in Msgs, Passed(x, y) PROVE Passed(x, y)'
  <2>1. y \in seen'[x] /\ \A i \in 1..Len(queue[x]) : queue[x][i].msg # y
    BY <1>2 DEF Passed, Waits
  <2>2. ~Waits(x, y)'
    BY <2>1 DEF Waits
  <2>. QED BY <2>1, <2>2 DEF Passed
<1>. QED BY <1>1, <1>2

LEMMA LoseStep ==
  ASSUME TypeOK, NEW lost \in SUBSET Links, Lose(lost)
  PROVE  /\ up' \in SUBSET Links
         /\ wire' \in [Links -> [Nodes -> Seq(Copy)]]
         /\ \A l \in Links, x \in Nodes : \A i \in 1..Len(wire'[l][x]) :
              i \in 1..Len(wire[l][x]) /\ wire'[l][x][i] = wire[l][x][i]
<1>1. ASSUME NEW l \in Links, NEW x \in Nodes
      PROVE  \/ wire'[l][x] = <<>>
             \/ wire'[l][x] = wire[l][x]
  BY DEF Lose
<1>2. wire' \in [Links -> [Nodes -> Seq(Copy)]]
  BY DEF Lose, TypeOK
<1>. QED BY <1>1, <1>2 DEF Lose, TypeOK

LEMMA BreakInv ==
  ASSUME NetInv, NEW l \in Links, Break(l)
  PROVE  NetInv'
<1>. USE DEF NetInv
<1>. DEFINE n == Acceptor[l]
<1>1. /\ n \in Nodes /\ Lose({l})
      /\ queue' = [queue EXCEPT ![n] = WithoutSource(@, {l})]
      /\ faults' = faults + 1 /\ clean' = {}
      /\ UNCHANGED <<net, announced, seen, told, crossed>>
  BY NetworkAssumption DEF Break, Fault
<1>2. queue[n] \in Seq(Entry) /\ queue'[n] = WithoutSource(queue[n], {l})
  BY <1>1 DEF TypeOK
<1>3. \A x \in Nodes :
        /\ queue'[x] \in Seq(Entry)
        /\ Len(queue'[x]) = Len(queue[x])
        /\ \A i \in 1..Len(queue[x]) : queue'[x][i].msg = queue[x][i].msg
  <2>. SUFFICES ASSUME NEW x \in Nodes
                PROVE  /\ queue'[x] \in Seq(Entry)
                       /\ Len(queue'[x]) = Len(queue[x])
                       /\ \A i \in 1..Len(queue[x]) :
                            queue'[x][i].msg = queue[x][i].msg
    OBVIOUS
  <2>1. CASE x = n
    BY <1>2, <2>1, WithoutSourceStep
  <2>2. CASE x # n
    BY <1>1, <2>2 DEF TypeOK
  <2>. QED BY <2>1, <2>2
<1>4. TypeOK'
  <2>1. queue' \in [Nodes -> Seq(Entry)]
    BY <1>1, <1>3 DEF TypeOK
  <2>. QED BY <1>1, <2>1, LoseStep DEF TypeOK
<1>5. Announced'
  <2>1. \A x \in Nodes : \A i \in 1..Len(queue'[x]) :
          \E j \in 1..Len(queue[x]) : queue'[x][i].msg = queue[x][j].msg
    BY <1>3
  <2>2. \A k \in Links, x \in Nodes : \A i \in 1..Len(wire'[k][x]) :
          \E j \in 1..Len(wire[k][x]) : wire'[k][x][i].msg = wire[k][x][j].msg
    BY <1>1, LoseStep
  <2>. QED BY <1>1, <2>1, <2>2, AnnouncedStep
<1>6. ASSUME ~net.forgets PROVE Memory' /\ Counts'
  <2>1. Memory /\ Counts
    BY <1>6
  <2>2. Memory' /\ \A x \in Nodes, y \in Msgs : Passed(x, y) => Passed(x, y)'
    BY <1>1, <1>3, <2>1, SameMessages
  <2>. QED BY <1>1, <2>1, <2>2, CountsStep
<1>. QED BY <1>1, <1>4, <1>5, <1>6

LEMMA ReconnectInv ==
  ASSUME NetInv, NEW l \in Links, Reconnect(l)
  PROVE  NetInv'
<1>. USE DEF NetInv
<1>1. /\ up' = up \cup {l}
      /\ UNCHANGED <<net, announced, wire, crossed, seen, queue, told, faults,
                     clean>>
  BY DEF Reconnect, nodeVars
<1>2. TypeOK'
  BY <1>1 DEF TypeOK
<1>3. Announced'
  BY <1>1 DEF Announced, QueueAnnounced, WireAnnounced, ToldElsewhere
<1>4. ASSUME ~net.forgets PROVE Memory' /\ Counts'
  <2>1. Memory' /\ \A x \in Nodes, y \in Msgs : Passed(x, y) => Passed(x, y)'
    BY <1>1, <1>4, SameMessages
  <2>. QED BY <1>1, <1>4, <2>1, CountsStep
<1>. QED BY <1>1, <1>2, <1>3, <1>4

(* What the new process has not counted yet, the old one may have done. *)
LEMMA RestartInv ==
  ASSUME NetInv, NEW n \in Nodes, Restart(n)
  PROVE  NetInv'
<1>. USE DEF NetInv
<1>b. PICK lost \in SUBSET Links : lost = {l \in up : n \in Ends(l)}
  BY DEF TypeOK
<1>1. /\ Lose(lost)
      /\ seen' = [seen EXCEPT ![n] = {}]
      /\ queue' = [x \in Nodes |->
           IF x = n THEN <<>>
           ELSE WithoutSource(queue[x], {l \in lost : Acceptor[l] = x})]
      /\ told' = [told EXCEPT ![n] = [m \in Msgs |-> 0]]
      /\ crossed' = [l \in Links |-> [x \in Nodes |->
           IF n \in Ends(l) /\ x # n THEN [m \in Msgs |-> 0] ELSE crossed[l][x]]]
      /\ faults' = faults + 1 /\ clean' = {}
      /\ UNCHANGED <<net, announced>>
  BY <1>b DEF Restart, Fault
<1>2. /\ queue'[n] = <<>> /\ seen'[n] = {}
      /\ \A m \in Msgs : told'[n][m] = 0
  BY <1>1 DEF TypeOK
<1>3. \A x \in Nodes \ {n} :
        /\ queue'[x] \in Seq(Entry)
        /\ Len(queue'[x]) = Len(queue[x])
        /\ \A i \in 1..Len(queue[x]) : queue'[x][i].msg = queue[x][i].msg
        /\ seen'[x] = seen[x] /\ told'[x] = told[x]
  <2>. SUFFICES ASSUME NEW x \in Nodes, x # n
                PROVE  /\ queue'[x] \in Seq(Entry)
                       /\ Len(queue'[x]) = Len(queue[x])
                       /\ \A i \in 1..Len(queue[x]) :
                            queue'[x][i].msg = queue[x][i].msg
                       /\ seen'[x] = seen[x] /\ told'[x] = told[x]
    OBVIOUS
  <2>1. /\ queue'[x] = WithoutSource(queue[x], {l \in lost : Acceptor[l] = x})
        /\ queue[x] \in Seq(Entry)
    BY <1>1 DEF TypeOK
  <2>2. seen'[x] = seen[x] /\ told'[x] = told[x]
    BY <1>1 DEF TypeOK
  <2>. QED BY <2>1, <2>2, WithoutSourceStep
<1>4. TypeOK'
  <2>a. queue'[n] \in Seq(Entry)
    BY <1>2
  <2>b. \A x \in Nodes : queue'[x] \in Seq(Entry)
    BY <1>3, <2>a
  <2>1. queue' \in [Nodes -> Seq(Entry)]
    BY <1>1, <2>b
  <2>2. seen' \in [Nodes -> SUBSET Msgs]
    BY <1>1 DEF TypeOK
  <2>3. [m \in Msgs |-> 0] \in [Msgs -> 0..CountBound]
    BY NetworkAssumption
  <2>4. told' \in [Nodes -> [Msgs -> 0..CountBound]]
    BY <1>1, <2>3 DEF TypeOK
  <2>5. crossed' \in [Links -> [Nodes -> [Msgs -> 0..CountBound]]]
    BY <1>1, <2>3 DEF TypeOK
  <2>. QED BY <1>1, <2>1, <2>2, <2>4, <2>5, LoseStep DEF TypeOK
<1>5. Announced'
  <2>1. QueueAnnounced'
    <3>. SUFFICES ASSUME NEW x \in Nodes, NEW i \in 1..Len(queue'[x])
                  PROVE  queue'[x][i].msg \in announced
      BY <1>1 DEF QueueAnnounced
    <3>1. x # n
      BY <1>2
    <3>. QED BY <1>3, <3>1 DEF Announced, QueueAnnounced
  <2>2. WireAnnounced'
    <3>. SUFFICES ASSUME NEW l \in Links, NEW x \in Nodes,
                         NEW i \in 1..Len(wire'[l][x])
                  PROVE  wire'[l][x][i].msg \in announced
      BY <1>1 DEF WireAnnounced
    <3>1. i \in 1..Len(wire[l][x]) /\ wire'[l][x][i] = wire[l][x][i]
      BY <1>1, LoseStep
    <3>. QED BY <3>1 DEF Announced, WireAnnounced
  <2>3. ToldElsewhere'
    <3>. SUFFICES ASSUME NEW x \in Nodes, NEW y \in Msgs, told'[x][y] > 0
                  PROVE  x # Origin[y] /\ y \in announced
      BY <1>1 DEF ToldElsewhere
    <3>1. x # n
      BY <1>2
    <3>. QED BY <1>3, <3>1 DEF Announced, ToldElsewhere
  <2>. QED BY <2>1, <2>2, <2>3 DEF Announced
<1>6. ASSUME ~net.forgets PROVE Memory' /\ Counts'
  <2>1. Memory /\ Counts
    BY <1>6
  <2>2. QueueRemembered'
    <3>. SUFFICES ASSUME NEW x \in Nodes, NEW i \in 1..Len(queue'[x])
                  PROVE  queue'[x][i].msg \in seen'[x]
      BY DEF QueueRemembered
    <3>1. x # n
      BY <1>2
    <3>. QED BY <1>3, <2>1, <3>1 DEF Memory, QueueRemembered
  <2>3. QueueOnce'
    <3>. SUFFICES ASSUME NEW x \in Nodes, NEW i \in 1..Len(queue'[x]),
                         NEW j \in 1..Len(queue'[x]),
                         queue'[x][i].msg = queue'[x][j].msg
                  PROVE  i = j
      BY DEF QueueOnce
    <3>1. x # n
      BY <1>2
    <3>. QED BY <1>3, <2>1, <3>1 DEF Memory, QueueOnce
  <2>4. ASSUME NEW x \in Nodes \ {n}, NEW y \in Msgs, Passed(x, y)
        PROVE  Passed(x, y)'
    <3>1. y \in seen'[x] /\ \A i \in 1..Len(queue[x]) : queue[x][i].msg # y
      BY <1>3, <2>4 DEF Passed, Waits
    <3>2. ~Waits(x, y)'
      BY <1>3, <3>1 DEF Waits
    <3>. QED BY <3>1, <3>2 DEF Passed
  <2>5. ToldPassed'
    <3>. SUFFICES ASSUME NEW x \in Nodes, NEW y \in Msgs
                  PROVE  told'[x][y] <= Ones(Passed(x, y), FALSE)'
      BY DEF ToldPassed
    <3>1. CASE x = n
      BY <1>2, <3>1 DEF Ones
    <3>2. CASE x # n
      <4>1. told[x][y] <= Ones(Passed(x, y), FALSE)
        BY <2>1 DEF Counts, ToldPassed
      <4>2. told'[x][y] = told[x][y] /\ told[x][y] \in Nat
        BY <1>3, <3>2, NetworkAssumption DEF TypeOK
      <4>3. Passed(x, y) => Passed(x, y)'
        BY <2>4, <3>2
      <4>. QED BY <4>1, <4>2, <4>3 DEF Ones
    <3>. QED BY <3>1, <3>2
  <2>6. CrossedPassed'
    <3>. SUFFICES ASSUME NEW l \in Links, NEW x \in Nodes, NEW y \in Msgs
                  PROVE  crossed'[l][x][y] <=
                           Ones(Passed(Other(l, x), y), Sent(Other(l, x), y))'
      BY DEF CrossedPassed
    <3>1. CASE n \in Ends(l) /\ x # n
      <4>1. crossed'[l][x][y] = 0
        BY <1>1, <3>1
      <4>. QED BY <4>1 DEF Ones
    <3>2. CASE ~(n \in Ends(l) /\ x # n)
      <4>1. crossed'[l][x] = crossed[l][x]
        BY <1>1, <3>2
      <4>2. Other(l, x) \in Nodes \ {n}
        BY <3>2, OtherNode
      <4>3. Passed(Other(l, x), y) => Passed(Other(l, x), y)'
        BY <2>4, <4>2
      <4>4. Sent(Other(l, x), y)' = Sent(Other(l, x), y)
        BY <1>1 DEF Sent
      <4>5. crossed[l][x][y] <=
              Ones(Passed(Other(l, x), y), Sent(Other(l, x), y))
        BY <2>1 DEF Counts, CrossedPassed
      <4>6. crossed[l][x][y] \in Nat
        BY NetworkAssumption DEF TypeOK
      <4>. QED BY <4>1, <4>3, <4>4, <4>5, <4>6 DEF Ones
    <3>. QED BY <3>1, <3>2
  <2>. QED BY <2>2, <2>3, <2>5, <2>6 DEF Memory, Counts
<1>. QED BY <1>1, <1>4, <1>5, <1>6

-----------------------------------------------------------------------------
(***************************************************************************)
(* The theorems.                                                           *)
(***************************************************************************)
LEMMA NextNetInv == NetInv /\ [Next]_vars => NetInv'
<1>. SUFFICES ASSUME NetInv, [Next]_vars PROVE NetInv'
  OBVIOUS
<1>1. CASE Next
  <2>1. ASSUME NEW m \in Msgs, Announce(m) \/ Broadcast(m) PROVE NetInv'
    BY <2>1, AnnounceInv, BroadcastInv
  <2>2. ASSUME NEW n \in Nodes, NEW l \in Links, Deliver(l, n) PROVE NetInv'
    BY <2>2, DeliverInv
  <2>3. ASSUME NEW n \in Nodes, Forward(n) \/ Restart(n) PROVE NetInv'
    BY <2>3, ForwardInv, RestartInv
  <2>4. ASSUME NEW n \in Nodes, NEW m \in Msgs, Forget(n, m) PROVE NetInv'
    BY <2>4, ForgetInv
  <2>5. ASSUME NEW l \in Links, Break(l) \/ Reconnect(l) PROVE NetInv'
    BY <2>5, BreakInv, ReconnectInv
  <2>. QED BY <1>1, <2>1, <2>2, <2>3, <2>4, <2>5 DEF Next
<1>2. CASE UNCHANGED vars
  <2>1. UNCHANGED <<net, announced, up, wire, crossed, seen, queue, told, faults,
                    clean>>
    BY <1>2 DEF vars, nodeVars, linkVars
  <2>2. TypeOK'
    BY <2>1 DEF NetInv, TypeOK
  <2>3. Announced'
    BY <2>1 DEF NetInv, Announced, QueueAnnounced, WireAnnounced, ToldElsewhere
  <2>4. ASSUME ~net.forgets PROVE Memory' /\ Counts'
    <3>1. Memory' /\ \A x \in Nodes, y \in Msgs : Passed(x, y) => Passed(x, y)'
      BY <2>1, <2>4, SameMessages DEF NetInv
    <3>. QED BY <2>1, <2>4, <3>1, CountsStep DEF NetInv
  <2>. QED BY <2>1, <2>2, <2>3, <2>4 DEF NetInv
<1>. QED BY <1>1, <1>2

(* The invariant of the network: what waits or travels was announced, and   *)
(* while ids are remembered, what a node has told or sent on it remembers   *)
(* and has taken from its lounge.                                           *)
THEOREM NetworkInvariant == Spec => []NetInv
<1>1. Init => NetInv
  BY InitNetInv
<1>2. NetInv /\ [Next]_vars => NetInv'
  BY NextNetInv
<1>. QED BY <1>1, <1>2, PTL DEF Spec

(* Every variable of the network keeps to its type. *)
THEOREM NetworkTypeCorrect == Spec => []TypeOK
<1>1. NetInv => TypeOK
  BY DEF NetInv
<1>. QED BY <1>1, NetworkInvariant, PTL

(* README.md:146: as long as nodes remember ids, a message crosses each     *)
(* connection at most once in each direction, twice if the broadcaster sent *)
(* it, in every network and through every fault.                            *)
THEOREM AlwaysCrossesOnce == Spec => []CrossesOnce
<1>1. NetInv => CrossesOnce
  <2>. SUFFICES ASSUME NetInv, ~net.forgets,
                       NEW l \in Links, NEW n \in Nodes, NEW m \in Msgs
                PROVE  crossed[l][n][m] <=
                         IF m \in Periodic /\ Other(l, n) = Origin[m]
                         THEN 2 ELSE 1
    BY DEF CrossesOnce
  <2>1. crossed[l][n][m] <= Ones(Passed(Other(l, n), m), Sent(Other(l, n), m))
    BY DEF NetInv, Counts, CrossedPassed
  <2>2. crossed[l][n][m] \in Nat
    BY NetworkAssumption DEF NetInv, TypeOK
  <2>. QED BY <2>1, <2>2 DEF Ones, Sent
<1>. QED BY <1>1, NetworkInvariant, PTL

(* As long as nodes remember ids, no node acts twice upon an announcement;  *)
(* none ever acts upon one of its own host.                                 *)
THEOREM AlwaysToldOnce == Spec => []ToldOnce
<1>1. NetInv => ToldOnce
  <2>. SUFFICES ASSUME NetInv, NEW n \in Nodes, NEW m \in Msgs
                PROVE  /\ ~net.forgets => told[n][m] <= 1
                       /\ told[n][m] > 0 => n # Origin[m] /\ m \in announced
    BY DEF ToldOnce
  <2>1. told[n][m] \in Nat
    BY NetworkAssumption DEF NetInv, TypeOK
  <2>2. ASSUME ~net.forgets PROVE told[n][m] <= 1
    <3>1. told[n][m] <= Ones(Passed(n, m), FALSE)
      BY <2>2 DEF NetInv, Counts, ToldPassed
    <3>. QED BY <2>1, <3>1 DEF Ones
  <2>. QED BY <2>2 DEF NetInv, Announced, ToldElsewhere
<1>. QED BY <1>1, NetworkInvariant, PTL
-----------------------------------------------------------------------------
(***************************************************************************)
(* Nobody is missed.  A node that knows a message sends it, or has sent    *)
(* it, over all its connections, and at the other end of each it is known  *)
(* too or still under way: when nothing travels, whoever knows it has      *)
(* neighbours that know it.  What could end the flooding is the TTL; each  *)
(* time it is lowered a connection has been used at one of its ends, which *)
(* happens once per end, and once more for the broadcaster's own sending.  *)
(***************************************************************************)
Knows(n, m) == m \in seen[n] \/ Sent(n, m)
HasSent(n, m) == Passed(n, m) \/ Sent(n, m)
OnLink(l, x, m) == \E i \in 1..Len(wire[l][x]) : wire[l][x][i].msg = m

Uses == net.links \X (1..3)
UsedBy(m, use) ==
  \/ use[2] = 1 /\ Passed(Dialer[use[1]], m)
  \/ use[2] = 2 /\ Passed(Acceptor[use[1]], m)
  \/ use[2] = 3 /\ Origin[m] \in Ends(use[1]) /\ Sent(Origin[m], m)
Used(m) == {use \in Uses : UsedBy(m, use)}
Enough(m, ttl) == ttl + Cardinality(Used(m)) >= net.ttl

CopyGood(l, x, copy) == Knows(Other(l, x), copy.msg) /\ Enough(copy.msg, copy.ttl)
EntryGood(n, e) ==
  /\ Enough(e.msg, e.ttl)
  /\ e.from # NoLink => Knows(Other(e.from, n), e.msg)
LinkGood(l, n, m) ==
  HasSent(n, m) => Knows(Other(l, n), m) \/ OnLink(l, Other(l, n), m)

Spreads(m) ==
  /\ \A l \in Links, x \in Nodes : \A i \in 1..Len(wire[l][x]) :
       wire[l][x][i].msg = m => CopyGood(l, x, wire[l][x][i])
  /\ \A n \in Nodes : \A i \in 1..Len(queue[n]) :
       queue[n][i].msg = m => EntryGood(n, queue[n][i])
  /\ \A l \in net.links : \A n \in Ends(l) : LinkGood(l, n, m)

FromOutside ==
  /\ announced \subseteq net.msgs
  /\ clean \subseteq announced
  /\ \A n \in Nodes : seen[n] \subseteq announced
PassedTold ==
  \A n \in Nodes, m \in Private :
    Passed(n, m) /\ n # Origin[m] => told[n][m] > 0
Spreading ==
  \A m \in clean \cap Private : Knows(Origin[m], m) /\ Spreads(m)

FloodInv ==
  /\ NetInv
  /\ FromOutside
  /\ clean # {} => up = net.links
  /\ ~net.forgets => PassedTold
  /\ Ample => Spreading

-----------------------------------------------------------------------------
(***************************************************************************)
(* How long the TTL lasts.                                                 *)
(***************************************************************************)
LEMMA LoweredLess ==
  ASSUME NEW t \in 0..(TTLMod - 1), NEW k \in 0..t
  PROVE  Lowered(t, k) = t - k
<1>1. TTLMod \in Nat \ {0} /\ k \in 0..(TTLMod - 1)
  BY NetworkAssumption
<1>2. k % TTLMod = k
  BY <1>1
<1>3. t + TTLMod - k = (t - k) + TTLMod /\ t - k \in 0..(TTLMod - 1)
  BY <1>1
<1>4. ((t - k) + TTLMod) % TTLMod = t - k
  BY <1>1, <1>3
<1>. QED BY <1>2, <1>3, <1>4 DEF Lowered

(* Three uses of each connection at most; a turn adds one for each of those *)
(* it sends over.                                                           *)
LEMMA CountUses ==
  ASSUME NEW links, IsFiniteSet(links), NEW U \in SUBSET (links \X (1..3))
  PROVE  /\ IsFiniteSet(U) /\ Cardinality(U) \in Nat /\ Cardinality(links) \in Nat
         /\ Cardinality(U) <= 3 * Cardinality(links)
<1>1. IsFiniteSet(1..3) /\ Cardinality(1..3) = 3
  <2>1. /\ IsFiniteSet(1..3)
        /\ Cardinality(1..3) = IF 1 > 3 THEN 0 ELSE 3 - 1 + 1
    BY FS_Interval, 1 \in Int, 3 \in Int, Zenon
  <2>. QED BY <2>1
<1>2. /\ IsFiniteSet(links \X (1..3))
      /\ Cardinality(links \X (1..3)) = Cardinality(links) * 3
  BY <1>1, FS_Product
<1>3. IsFiniteSet(U) /\ Cardinality(U) <= Cardinality(links \X (1..3))
  BY <1>2, FS_Subset
<1>4. Cardinality(U) \in Nat /\ Cardinality(links) \in Nat
  BY <1>3, FS_CardinalityType
<1>. QED BY <1>2, <1>3, <1>4

LEMMA CountMoreUses ==
  ASSUME NEW links, IsFiniteSet(links),
         NEW U \in SUBSET (links \X (1..3)), NEW V \in SUBSET (links \X (1..3)),
         U \subseteq V,
         NEW out \in SUBSET links, NEW side \in [out -> 1..3],
         \A l \in out : <<l, side[l]>> \in V \ U
  PROVE  /\ Cardinality(out) \in Nat
         /\ Cardinality(U) + Cardinality(out) <= Cardinality(V)
<1>1. /\ IsFiniteSet(U) /\ Cardinality(U) \in Nat
      /\ IsFiniteSet(V) /\ Cardinality(V) \in Nat
  BY CountUses
<1>2. IsFiniteSet(V \ U) /\ Cardinality(V \ U) = Cardinality(V) - Cardinality(U)
  <2>1. V \cap U = U
    OBVIOUS
  <2>. QED BY <1>1, <2>1, FS_Difference
<1>3. PICK f : f = [l \in out |-> <<l, side[l]>>]
  OBVIOUS
<1>4. f \in Injection(out, V \ U)
  <2>1. f \in [out -> V \ U]
    BY <1>3
  <2>2. \A k, l \in out : f[k] = f[l] => k = l
    BY <1>3
  <2>. QED BY <2>1, <2>2 DEF Injection, IsInjective
<1>5. IsFiniteSet(out) /\ Cardinality(out) <= Cardinality(V \ U)
  BY <1>2, <1>4, FS_Injection
<1>6. Cardinality(out) \in Nat
  BY <1>5, FS_CardinalityType
<1>. QED BY <1>1, <1>2, <1>5, <1>6

(* Every use counted is one of three uses of a connection of the network.   *)
LEMMA UsedType ==
  ASSUME TypeOK, NEW m
  PROVE  /\ IsFiniteSet(net.links)
         /\ Used(m) \in SUBSET (net.links \X (1..3))
         /\ Cardinality(Used(m)) \in Nat
         /\ Cardinality(net.links) \in Nat
         /\ Cardinality(Used(m)) <= 3 * Cardinality(net.links)
<1>1. IsFiniteSet(net.links)
  <2>1. net.links \in SUBSET Links /\ IsFiniteSet(Links)
    BY NetType, NetworkAssumption DEF TypeOK
  <2>. QED BY <2>1, FS_Subset
<1>2. Used(m) \in SUBSET (net.links \X (1..3))
  BY DEF Used, Uses
<1>. QED BY <1>1, <1>2, CountUses

(* The types that the proofs below keep needing. *)
LEMMA EndsAreNodes ==
  ASSUME NetInv, NEW l \in net.links, NEW x \in Ends(l)
  PROVE  l \in Links /\ x \in Nodes
<1>1. l \in Links
  BY NetType DEF NetInv, TypeOK
<1>. QED BY <1>1, OtherNode, NetworkAssumption DEF Ends

LEMMA UsedNumber ==
  ASSUME TypeOK', NEW m
  PROVE  Cardinality(Used(m)') \in Nat
<1>1. IsFiniteSet(net'.links)
  <2>1. net'.links \in SUBSET Links /\ IsFiniteSet(Links)
    BY NetworkAssumption DEF TypeOK
  <2>. QED BY <2>1, FS_Subset
<1>2. Used(m)' \in SUBSET (net'.links \X (1..3))
  BY DEF Used, Uses
<1>. QED BY <1>1, <1>2, CountUses

(* Nobody forgets, so what has been used stays used and the TTLs suffice.   *)
LEMMA UsedKept ==
  ASSUME TypeOK, UNCHANGED net, NEW m \in Msgs,
         \A x \in Nodes : Passed(x, m) => Passed(x, m)',
         announced \subseteq announced'
  PROVE  /\ Used(m) \subseteq Used(m)'
         /\ Used(m)' \in SUBSET (net.links \X (1..3))
         /\ \A t \in Nat : Enough(m, t) => Enough(m, t)'
         /\ \A x : Sent(x, m) => Sent(x, m)'
<1>1. Used(m)' \in SUBSET (net.links \X (1..3))
  BY DEF Used, Uses
<1>2. \A x : Sent(x, m) => Sent(x, m)'
  BY DEF Sent
<1>3. Used(m) \subseteq Used(m)'
  <2>. SUFFICES ASSUME NEW use \in Uses, UsedBy(m, use) PROVE UsedBy(m, use)'
    BY DEF Used, Uses
  <2>1. use[1] \in Links
    BY NetType DEF TypeOK, Uses
  <2>2. Dialer[use[1]] \in Nodes /\ Acceptor[use[1]] \in Nodes
    BY <2>1, NetworkAssumption
  <2>. QED BY <1>2, <2>2 DEF UsedBy
<1>4. /\ IsFiniteSet(Used(m)') /\ Cardinality(Used(m)') \in Nat
      /\ Cardinality(Used(m)) \in Nat
  BY <1>1, UsedType, CountUses
<1>5. Cardinality(Used(m)) <= Cardinality(Used(m)')
  BY <1>3, <1>4, FS_Subset
<1>6. net'.ttl = net.ttl /\ net.ttl \in Nat
  BY NetType, NetworkAssumption DEF TypeOK
<1>7. ASSUME NEW t \in Nat, Enough(m, t) PROVE Enough(m, t)'
  BY <1>4, <1>5, <1>6, <1>7 DEF Enough
<1>. QED BY <1>1, <1>2, <1>3, <1>7
-----------------------------------------------------------------------------
(***************************************************************************)
(* A turn with enough TTL, and an admission with enough room.              *)
(***************************************************************************)
LEMMA SendsToAll ==
  ASSUME TypeOK,
         NEW n \in Nodes, NEW m \in Msgs,
         NEW out \in SUBSET {l \in Links : n \in Ends(l)},
         NEW ttl \in 0..(TTLMod - 1), NEW checked \in BOOLEAN,
         SendToAll(n, m, out, ttl, checked), UNCHANGED faults,
         Cardinality(out) \in Nat, Cardinality(out) < ttl
  PROVE  \A l \in Links, x \in Nodes :
           IF l \in out /\ x = Other(l, n)
           THEN \E copy \in Copy :
                  /\ wire'[l][x] = Append(wire[l][x], copy)
                  /\ copy.msg = m
                  /\ ttl <= copy.ttl + Cardinality(out)
           ELSE wire'[l][x] = wire[l][x]
<1>b. PICK givenUp \in SUBSET out :
        /\ GiveUp(givenUp)
        /\ \E pos \in Orders(out) : \E late \in Delays(out, pos) :
             SendOver(n, m, {l \in out \ givenUp :
                               checked => Lowered(ttl, pos[l]) # 0},
                      [l \in out |-> Lowered(ttl, late[l])])
  BY DEF SendToAll
<1>c. givenUp = {}
  BY <1>b DEF GiveUp, TypeOK
<1>a. PICK pos \in Orders(out) : \E late \in Delays(out, pos) :
        SendOver(n, m, {l \in out : checked => Lowered(ttl, pos[l]) # 0},
                 [l \in out |-> Lowered(ttl, late[l])])
  <2>1. out \ givenUp = out
    BY <1>c
  <2>. QED BY <1>b, <2>1
<1>1. PICK late \in Delays(out, pos) :
        SendOver(n, m, {l \in out : checked => Lowered(ttl, pos[l]) # 0},
                 [l \in out |-> Lowered(ttl, late[l])])
  BY <1>a
<1>2. \A l \in out : /\ pos[l] \in 1..Cardinality(out)
                     /\ late[l] \in 1..Cardinality(out)
  BY <1>a, <1>1 DEF Orders, Delays
<1>3. \A k \in 1..Cardinality(out) : Lowered(ttl, k) = ttl - k
  BY LoweredLess, NetworkAssumption
<1>4. PICK low : low = [l \in out |-> Lowered(ttl, late[l])]
  OBVIOUS
<1>5. {l \in out : checked => Lowered(ttl, pos[l]) # 0} = out
  BY <1>2, <1>3, NetworkAssumption
<1>6. wire' = [l \in Links |-> [x \in Nodes |->
        IF l \in out /\ x = Other(l, n)
        THEN Append(wire[l][x], [msg |-> m, ttl |-> low[l]])
        ELSE wire[l][x]]]
  BY <1>1, <1>4, <1>5 DEF SendOver
<1>7. ASSUME NEW l \in Links, NEW x \in Nodes, l \in out, x = Other(l, n)
      PROVE  \E copy \in Copy :
               /\ wire'[l][x] = Append(wire[l][x], copy)
               /\ copy.msg = m
               /\ ttl <= copy.ttl + Cardinality(out)
  <2>1. wire'[l][x] = Append(wire[l][x], [msg |-> m, ttl |-> low[l]])
    BY <1>6, <1>7
  <2>2. low[l] = ttl - late[l] /\ late[l] \in 1..Cardinality(out)
    BY <1>2, <1>3, <1>4, <1>7
  <2>3. low[l] \in 0..(TTLMod - 1) /\ ttl <= low[l] + Cardinality(out)
    BY <2>2, NetworkAssumption
  <2>4. [msg |-> m, ttl |-> low[l]] \in Copy
    BY <2>3 DEF Copy
  <2>. QED BY <2>1, <2>3, <2>4
<1>8. ASSUME NEW l \in Links, NEW x \in Nodes, ~(l \in out /\ x = Other(l, n))
      PROVE  wire'[l][x] = wire[l][x]
  BY <1>6, <1>8
<1>. QED BY <1>7, <1>8

(* Whatever the TTL, what is on a connection stays there.                   *)
LEMMA SendKeeps ==
  ASSUME TypeOK,
         NEW n \in Nodes, NEW m \in Msgs,
         NEW out \in SUBSET {l \in Links : n \in Ends(l)},
         NEW ttl \in 0..(TTLMod - 1), NEW checked \in BOOLEAN,
         SendToAll(n, m, out, ttl, checked)
  PROVE  \A l \in Links, x \in Nodes, y \in Msgs :
           OnLink(l, x, y) => OnLink(l, x, y)'
<1>. SUFFICES ASSUME NEW l \in Links, NEW x \in Nodes, NEW y \in Msgs,
                     OnLink(l, x, y)
              PROVE  OnLink(l, x, y)'
  OBVIOUS
<1>1. PICK i \in 1..Len(wire[l][x]) : wire[l][x][i].msg = y
  BY DEF OnLink
<1>2. \/ wire'[l][x] = wire[l][x]
      \/ \E copy : wire'[l][x] = Append(wire[l][x], copy)
  BY DEF SendToAll, SendOver
<1>3. wire[l][x] \in Seq(Copy)
  BY DEF TypeOK
<1>4. i \in 1..Len(wire'[l][x]) /\ wire'[l][x][i] = wire[l][x][i]
  BY <1>1, <1>2, <1>3
<1>. QED BY <1>1, <1>4 DEF OnLink

(* A turn with one message leaves the copies of the others as they are.     *)
LEMMA OthersKept ==
  ASSUME TypeOK,
         NEW n \in Nodes, NEW m \in Msgs, NEW y \in Msgs, y # m,
         NEW out \in SUBSET {l \in Links : n \in Ends(l)},
         NEW ttl \in 0..(TTLMod - 1), NEW checked \in BOOLEAN,
         SendToAll(n, m, out, ttl, checked)
  PROVE  /\ \A l \in Links, x \in Nodes : \A i \in 1..Len(wire'[l][x]) :
              wire'[l][x][i].msg = y =>
                \E j \in 1..Len(wire[l][x]) : wire'[l][x][i] = wire[l][x][j]
         /\ \A l \in Links, x \in Nodes : OnLink(l, x, y) => OnLink(l, x, y)'
<1>1. \A l \in Links, x \in Nodes : \A i \in 1..Len(wire'[l][x]) :
        \/ wire'[l][x][i].msg = m
        \/ i \in 1..Len(wire[l][x]) /\ wire'[l][x][i] = wire[l][x][i]
  <2>1. CASE checked = TRUE
    <3>1. SendToAll(n, m, out, ttl, TRUE)
      BY <2>1
    <3>. QED BY <3>1, SendToAllStep
  <2>2. CASE checked = FALSE
    <3>1. SendToAll(n, m, out, ttl, FALSE)
      BY <2>2
    <3>. QED BY <3>1, SendToAllStep
  <2>. QED BY <2>1, <2>2
<1>2. \A l \in Links, x \in Nodes : OnLink(l, x, y) => OnLink(l, x, y)'
  BY SendKeeps
<1>3. \A l \in Links, x \in Nodes : \A i \in 1..Len(wire'[l][x]) :
        wire'[l][x][i].msg = y =>
          i \in 1..Len(wire[l][x]) /\ wire'[l][x][i] = wire[l][x][i]
  BY <1>1
<1>. QED BY <1>2, <1>3

(* What waits in a lounge waits once; so there is room for one more.        *)
LEMMA RoomLeft ==
  ASSUME NetInv, FromOutside, Ample, NEW n \in Nodes, NEW m \in net.msgs,
         m \notin seen[n]
  PROVE  Len(queue[n]) < LoungeSize
<1>1. queue[n] \in Seq(Entry) /\ Len(queue[n]) \in Nat
  BY DEF NetInv, TypeOK
<1>2. \A i \in 1..Len(queue[n]) : queue[n][i].msg \in net.msgs \ {m}
  BY DEF NetInv, Ample, Memory, QueueRemembered, FromOutside
<1>3. PICK f : f = [i \in 1..Len(queue[n]) |-> queue[n][i].msg]
  OBVIOUS
<1>4. f \in Injection(1..Len(queue[n]), net.msgs \ {m})
  <2>1. f \in [1..Len(queue[n]) -> net.msgs \ {m}]
    BY <1>2, <1>3
  <2>2. \A i, j \in 1..Len(queue[n]) : f[i] = f[j] => i = j
    BY <1>3 DEF NetInv, Ample, Memory, QueueOnce
  <2>. QED BY <2>1, <2>2 DEF Injection, IsInjective
<1>5. /\ IsFiniteSet(net.msgs \ {m})
      /\ Cardinality(net.msgs \ {m}) = Cardinality(net.msgs) - 1
      /\ Cardinality(net.msgs) \in Nat /\ Cardinality(net.msgs) <= LoungeSize
  BY FS_RemoveElement, FS_CardinalityType DEF Ample
<1>6. Cardinality(1..Len(queue[n])) = Len(queue[n])
  <2>1. Cardinality(1..Len(queue[n])) =
          IF 1 > Len(queue[n]) THEN 0 ELSE Len(queue[n]) - 1 + 1
    <3>1. 1 \in Int /\ Len(queue[n]) \in Int
      BY <1>1
    <3>. QED BY <3>1, FS_Interval, Zenon
  <2>. QED BY <1>1, <2>1
<1>7. Cardinality(1..Len(queue[n])) <= Cardinality(net.msgs \ {m})
  BY <1>4, <1>5, FS_Injection
<1>. QED BY <1>1, <1>5, <1>6, <1>7, NetworkAssumption

(* An admission adds one entry at most, and nothing passes by it.           *)
LEMMA AdmitKeeps ==
  ASSUME TypeOK,
         NEW n \in Nodes, NEW m \in Msgs, NEW ttl \in 0..(TTLMod - 1),
         NEW from \in Links \cup {NoLink},
         Admit(n, m, ttl, from)
  PROVE  /\ \A x \in Nodes :
              /\ seen[x] \subseteq seen'[x]
              /\ seen'[x] \subseteq (IF x = n THEN seen[x] \cup {m} ELSE seen[x])
         /\ Len(queue[n]) < LoungeSize => m \in seen'[n]
         /\ m \in seen[n] => m \in seen'[n]
         /\ \A x \in Nodes : \A i \in 1..Len(queue'[x]) :
              \/ x = n /\ queue'[x][i] = [msg |-> m, ttl |-> ttl, from |-> from]
              \/ i \in 1..Len(queue[x]) /\ queue'[x][i] = queue[x][i]
         /\ \A x \in Nodes, y \in Msgs : Passed(x, y)' => Passed(x, y)
<1>1. CASE UNCHANGED <<seen, queue>>
  <2>1. /\ \A x \in Nodes, y \in Msgs : Passed(x, y)' => Passed(x, y)
    BY <1>1 DEF Passed, Waits
  <2>2. Len(queue[n]) < LoungeSize => m \in seen'[n]
    <3>1. Len(queue[n]) \in Nat /\ LoungeSize \in Nat
      BY NetworkAssumption DEF TypeOK
    <3>2. (m \in seen[n] \/ Len(queue[n]) >= LoungeSize)
           \/ seen' = [seen EXCEPT ![n] = @ \cup {m}]
      BY DEF Admit, AlreadySeen
    <3>. QED BY <1>1, <3>1, <3>2 DEF TypeOK
  <2>. QED BY <1>1, <2>1, <2>2
<1>2. CASE ~UNCHANGED <<seen, queue>>
  <2>. DEFINE e == [msg |-> m, ttl |-> ttl, from |-> from]
  <2>1. /\ m \notin seen[n]
        /\ seen' = [seen EXCEPT ![n] = @ \cup {m}]
        /\ queue' = [queue EXCEPT ![n] = Append(@, e)]
    BY <1>2 DEF Admit, AlreadySeen
  <2>2. e \in Entry /\ e.msg = m
    BY DEF Entry
  <2>. HIDE DEF e
  <2>3. queue[n] \in Seq(Entry) /\ queue'[n] = Append(queue[n], e)
    BY <2>1 DEF TypeOK
  <2>4. /\ Len(queue'[n]) = Len(queue[n]) + 1
        /\ queue'[n][Len(queue[n]) + 1] = e
        /\ \A i \in 1..Len(queue[n]) : queue'[n][i] = queue[n][i]
        /\ Len(queue[n]) \in Nat
    BY <2>2, <2>3
  <2>5. \A x \in Nodes \ {n} : queue'[x] = queue[x] /\ seen'[x] = seen[x]
    BY <2>1 DEF TypeOK
  <2>6. seen'[n] = seen[n] \cup {m}
    BY <2>1 DEF TypeOK
  <2>7. \A x \in Nodes : \A i \in 1..Len(queue'[x]) :
          \/ x = n /\ queue'[x][i] = e
          \/ i \in 1..Len(queue[x]) /\ queue'[x][i] = queue[x][i]
    <3>. SUFFICES ASSUME NEW x \in Nodes, NEW i \in 1..Len(queue'[x])
                  PROVE  \/ x = n /\ queue'[x][i] = e
                         \/ i \in 1..Len(queue[x]) /\ queue'[x][i] = queue[x][i]
      OBVIOUS
    <3>1. CASE x = n
      BY <2>4, <3>1
    <3>2. CASE x # n
      BY <2>5, <3>2
    <3>. QED BY <3>1, <3>2
  <2>8. \A x \in Nodes, y \in Msgs : Waits(x, y) => Waits(x, y)'
    <3>. SUFFICES ASSUME NEW x \in Nodes, NEW y \in Msgs, Waits(x, y)
                  PROVE  Waits(x, y)'
      OBVIOUS
    <3>1. PICK i \in 1..Len(queue[x]) : queue[x][i].msg = y
      BY DEF Waits
    <3>2. i \in 1..Len(queue'[x]) /\ queue'[x][i].msg = y
      BY <2>4, <2>5, <3>1
    <3>. QED BY <3>2 DEF Waits
  <2>9. Waits(n, m)'
    BY <2>2, <2>4 DEF Waits
  <2>10. \A x \in Nodes, y \in Msgs : Passed(x, y)' => Passed(x, y)
    BY <2>5, <2>6, <2>8, <2>9 DEF Passed
  <2>. QED BY <2>5, <2>6, <2>7, <2>10 DEF e
<1>. QED BY <1>1, <1>2
-----------------------------------------------------------------------------
(***************************************************************************)
(* How a message goes on spreading in a step without a fault.              *)
(***************************************************************************)
LEMMA SpreadsStep ==
  ASSUME NetInv, TypeOK', UNCHANGED net, NEW m \in Msgs, Spreads(m),
         announced \subseteq announced',
         \A x \in Nodes : seen[x] \subseteq seen'[x],
         \A x \in Nodes : Passed(x, m) => Passed(x, m)',
         \A l \in Links, x \in Nodes : \A i \in 1..Len(wire'[l][x]) :
           wire'[l][x][i].msg = m =>
             \/ \E j \in 1..Len(wire[l][x]) : wire'[l][x][i] = wire[l][x][j]
             \/ CopyGood(l, x, wire[l][x][i])',
         \A x \in Nodes : \A i \in 1..Len(queue'[x]) :
           queue'[x][i].msg = m =>
             \/ \E j \in 1..Len(queue[x]) : queue'[x][i] = queue[x][j]
             \/ EntryGood(x, queue[x][i])',
         \A l \in Links, x \in Nodes :
           OnLink(l, x, m) => OnLink(l, x, m)' \/ Knows(x, m)',
         \A l \in net.links : \A x \in Ends(l) :
           HasSent(x, m)' => HasSent(x, m) \/ LinkGood(l, x, m)'
  PROVE  Spreads(m)'
<1>1. /\ \A t \in Nat : Enough(m, t) => Enough(m, t)'
      /\ \A x : Sent(x, m) => Sent(x, m)'
  BY UsedKept DEF NetInv
<1>2. \A x \in Nodes : Knows(x, m) => Knows(x, m)'
  BY <1>1 DEF Knows
<1>3. TypeOK
  BY DEF NetInv
<1>4. ASSUME NEW l \in Links, NEW x \in Nodes, NEW i \in 1..Len(wire'[l][x]),
             wire'[l][x][i].msg = m
      PROVE  CopyGood(l, x, wire[l][x][i])'
  <2>1. CASE \E j \in 1..Len(wire[l][x]) : wire'[l][x][i] = wire[l][x][j]
    <3>1. PICK j \in 1..Len(wire[l][x]) : wire'[l][x][i] = wire[l][x][j]
      BY <2>1
    <3>2. CopyGood(l, x, wire[l][x][j])
      BY <1>4, <3>1 DEF Spreads
    <3>3. wire[l][x][j].ttl \in Nat
      <4>1. wire[l][x] \in Seq(Copy)
        BY <1>3 DEF TypeOK
      <4>2. wire[l][x][j] \in Copy
        BY <3>1, <4>1
      <4>. QED BY <4>2, NetworkAssumption DEF Copy
    <3>4. Other(l, x) \in Nodes
      BY OtherNode
    <3>. QED BY <1>1, <1>2, <1>4, <3>1, <3>2, <3>3, <3>4 DEF CopyGood
  <2>. QED BY <1>4, <2>1
<1>5. ASSUME NEW x \in Nodes, NEW i \in 1..Len(queue'[x]),
             queue'[x][i].msg = m
      PROVE  EntryGood(x, queue[x][i])'
  <2>1. CASE \E j \in 1..Len(queue[x]) : queue'[x][i] = queue[x][j]
    <3>1. PICK j \in 1..Len(queue[x]) : queue'[x][i] = queue[x][j]
      BY <2>1
    <3>2. EntryGood(x, queue[x][j])
      BY <1>5, <3>1 DEF Spreads
    <3>3. queue[x][j].ttl \in Nat /\ queue[x][j].from \in Links \cup {NoLink}
      <4>1. queue[x] \in Seq(Entry)
        BY <1>3 DEF TypeOK
      <4>2. queue[x][j] \in Entry
        BY <3>1, <4>1
      <4>. QED BY <4>2, NetworkAssumption DEF Entry
    <3>4. \A l \in Links : Other(l, x) \in Nodes
      BY OtherNode
    <3>. QED BY <1>1, <1>2, <1>5, <3>1, <3>2, <3>3, <3>4 DEF EntryGood
  <2>. QED BY <1>5, <2>1
<1>6. ASSUME NEW l \in net.links, NEW x \in Ends(l)
      PROVE  LinkGood(l, x, m)'
  <2>1. l \in Links
    BY <1>3, NetType DEF TypeOK
  <2>2. x \in Nodes /\ Other(l, x) \in Nodes
    BY <2>1, OtherNode, NetworkAssumption DEF Ends
  <2>3. LinkGood(l, x, m)
    BY DEF Spreads
  <2>. QED BY <1>2, <2>1, <2>2, <2>3 DEF LinkGood
<1>. QED BY <1>4, <1>5, <1>6 DEF Spreads

(* What has not been announced is nowhere yet. *)
LEMMA Unheard ==
  ASSUME NetInv, FromOutside, NEW m \in Msgs, m \notin announced
  PROVE  /\ Spreads(m)
         /\ Used(m) = {}
         /\ \A x \in Nodes : m \notin seen[x] /\ ~HasSent(x, m)
<1>1. \A l \in Links, x \in Nodes : \A i \in 1..Len(wire[l][x]) :
        wire[l][x][i].msg # m
  BY DEF NetInv, Announced, WireAnnounced
<1>2. \A x \in Nodes : \A i \in 1..Len(queue[x]) : queue[x][i].msg # m
  BY DEF NetInv, Announced, QueueAnnounced
<1>3. \A x \in Nodes : m \notin seen[x] /\ ~HasSent(x, m)
  BY DEF FromOutside, HasSent, Passed, Sent
<1>4. \A l \in net.links : Dialer[l] \in Nodes /\ Acceptor[l] \in Nodes
  BY NetType, NetworkAssumption DEF NetInv, TypeOK
<1>5. \A l \in net.links : \A x \in Ends(l) : LinkGood(l, x, m)
  BY <1>3, <1>4 DEF Ends, LinkGood
<1>6. Used(m) = {}
  <2>. SUFFICES ASSUME NEW use \in Uses, UsedBy(m, use) PROVE FALSE
    BY DEF Used
  <2>1. use[1] \in net.links
    BY DEF Uses
  <2>. QED BY <1>3, <1>4, <2>1 DEF UsedBy, HasSent, Sent
<1>. QED BY <1>1, <1>2, <1>3, <1>5, <1>6 DEF Spreads

(* A turn over the connections of a node that uses them for the first time. *)
LEMMA TurnSpreads ==
  ASSUME NetInv, Ample, UNCHANGED net,
         NEW n \in Nodes, NEW m \in Msgs,
         NEW out \in SUBSET {l \in Links : n \in Ends(l)},
         out \subseteq net.links,
         NEW ttl \in 0..(TTLMod - 1), NEW checked \in BOOLEAN,
         SendToAll(n, m, out, ttl, checked), UNCHANGED faults,
         Enough(m, ttl), Used(m) \subseteq Used(m)',
         NEW side \in [out -> 1..3],
         \A l \in out : <<l, side[l]>> \in Used(m)' \ Used(m),
         Knows(n, m)'
  PROVE  /\ \A l \in Links, x \in Nodes : \A i \in 1..Len(wire'[l][x]) :
              \/ i \in 1..Len(wire[l][x]) /\ wire'[l][x][i] = wire[l][x][i]
              \/ wire'[l][x][i].msg = m /\ CopyGood(l, x, wire[l][x][i])'
         /\ \A l \in out : OnLink(l, Other(l, n), m)'
         /\ \A l \in Links, x \in Nodes, y \in Msgs :
              OnLink(l, x, y) => OnLink(l, x, y)'
<1>1. /\ IsFiniteSet(net.links)
      /\ Used(m) \in SUBSET (net.links \X (1..3))
      /\ Cardinality(Used(m)) \in Nat /\ Cardinality(net.links) \in Nat
  BY UsedType DEF NetInv
<1>2. Used(m)' \in SUBSET (net.links \X (1..3))
  BY DEF Used, Uses
<1>3. /\ Cardinality(Used(m)') \in Nat
      /\ Cardinality(Used(m)') <= 3 * Cardinality(net.links)
  BY <1>1, <1>2, CountUses
<1>4. /\ Cardinality(out) \in Nat
      /\ Cardinality(Used(m)) + Cardinality(out) <= Cardinality(Used(m)')
  BY <1>1, <1>2, CountMoreUses
<1>5. net.ttl \in Nat /\ ttl \in Nat
  BY NetType, NetworkAssumption DEF NetInv, TypeOK
<1>6. Cardinality(out) < ttl
  BY <1>1, <1>3, <1>4, <1>5 DEF Enough, Ample
<1>7. \A l \in Links, x \in Nodes :
        IF l \in out /\ x = Other(l, n)
        THEN \E copy \in Copy :
               /\ wire'[l][x] = Append(wire[l][x], copy)
               /\ copy.msg = m
               /\ ttl <= copy.ttl + Cardinality(out)
        ELSE wire'[l][x] = wire[l][x]
  BY <1>4, <1>6, SendsToAll DEF NetInv
<1>8. ASSUME NEW l \in Links, NEW x \in Nodes
      PROVE  /\ \A i \in 1..Len(wire'[l][x]) :
                  \/ i \in 1..Len(wire[l][x]) /\ wire'[l][x][i] = wire[l][x][i]
                  \/ wire'[l][x][i].msg = m /\ CopyGood(l, x, wire[l][x][i])'
             /\ l \in out /\ x = Other(l, n) => OnLink(l, x, m)'
             /\ \A y \in Msgs : OnLink(l, x, y) => OnLink(l, x, y)'
  <2>1. CASE l \in out /\ x = Other(l, n)
    <3>1. PICK copy \in Copy : /\ wire'[l][x] = Append(wire[l][x], copy)
                               /\ copy.msg = m
                               /\ ttl <= copy.ttl + Cardinality(out)
      BY <1>7, <2>1
    <3>2. wire[l][x] \in Seq(Copy)
      BY DEF NetInv, TypeOK
    <3>3. /\ Len(wire'[l][x]) = Len(wire[l][x]) + 1 /\ Len(wire[l][x]) \in Nat
          /\ wire'[l][x][Len(wire[l][x]) + 1] = copy
          /\ \A i \in 1..Len(wire[l][x]) : wire'[l][x][i] = wire[l][x][i]
      BY <3>1, <3>2
    <3>4. Other(l, x) = n
      BY <2>1, OtherNode
    <3>5. copy.ttl \in Nat
      BY NetworkAssumption DEF Copy
    <3>6. copy.ttl + Cardinality(Used(m)') >= net.ttl
      BY <1>1, <1>3, <1>4, <1>5, <3>1, <3>5 DEF Enough
    <3>7. Knows(Other(l, x), m)' /\ Enough(m, copy.ttl)'
      BY <3>4, <3>6 DEF Enough
    <3>8. \A i \in 1..Len(wire'[l][x]) :
            \/ i \in 1..Len(wire[l][x]) /\ wire'[l][x][i] = wire[l][x][i]
            \/ wire'[l][x][i].msg = m /\ CopyGood(l, x, wire[l][x][i])'
      <4>. SUFFICES ASSUME NEW i \in 1..Len(wire'[l][x]),
                           i \notin 1..Len(wire[l][x])
                    PROVE  wire'[l][x][i].msg = m /\ CopyGood(l, x, wire[l][x][i])'
        BY <3>3
      <4>1. wire'[l][x][i] = copy
        BY <3>3
      <4>. QED BY <3>1, <3>7, <4>1 DEF CopyGood
    <3>9. OnLink(l, x, m)' /\ \A y \in Msgs : OnLink(l, x, y) => OnLink(l, x, y)'
      BY <3>1, <3>3 DEF OnLink
    <3>. QED BY <3>8, <3>9
  <2>2. CASE ~(l \in out /\ x = Other(l, n))
    <3>1. wire'[l][x] = wire[l][x]
      BY <1>7, <2>2
    <3>. QED BY <2>2, <3>1 DEF OnLink
  <2>. QED BY <2>1, <2>2
<1>9. \A l \in out : l \in Links /\ Other(l, n) \in Nodes
  BY OtherNode
<1>. QED BY <1>8, <1>9
-----------------------------------------------------------------------------
(***************************************************************************)
(* One step per action.                                                    *)
(***************************************************************************)
LEMMA AnnounceFlood ==
  ASSUME FloodInv, NEW m \in Msgs, Announce(m)
  PROVE  FloodInv'
<1>. USE DEF FloodInv
<1>. DEFINE n == Origin[m]
<1>1. n \in Nodes /\ net.ttl \in 0..(TTLMod - 1) /\ net.ttl \in Nat
  BY NetType, NetworkAssumption DEF NetInv, TypeOK
<1>2. /\ m \notin Periodic /\ m \in net.msgs \ announced
      /\ announced' = announced \cup {m}
      /\ \/ clean' = clean
         \/ clean' = clean \cup {m} /\ up = net.links
      /\ Admit(n, m, net.ttl, NoLink)
      /\ UNCHANGED <<net, up, wire, crossed, told, faults>>
  BY DEF Announce, Born, linkVars
<1>3. NetInv'
  BY AnnounceInv
<1>4. /\ \A x \in Nodes :
           /\ seen[x] \subseteq seen'[x]
           /\ seen'[x] \subseteq (IF x = n THEN seen[x] \cup {m} ELSE seen[x])
      /\ Len(queue[n]) < LoungeSize => m \in seen'[n]
      /\ \A x \in Nodes : \A i \in 1..Len(queue'[x]) :
           \/ queue'[x][i] = [msg |-> m, ttl |-> net.ttl, from |-> NoLink]
           \/ i \in 1..Len(queue[x]) /\ queue'[x][i] = queue[x][i]
      /\ \A x \in Nodes, y \in Msgs : Passed(x, y)' => Passed(x, y)
  BY <1>1, <1>2, AdmitKeeps DEF NetInv
<1>5. FromOutside'
  BY <1>2, <1>4 DEF FromOutside
<1>6. clean' # {} => up' = net'.links
  BY <1>2
<1>7. ASSUME ~net'.forgets PROVE PassedTold'
  BY <1>2, <1>4, <1>7, NetworkAssumption DEF PassedTold
<1>8. ASSUME Ample' PROVE Spreading'
  <2>1. Ample /\ ~net.forgets /\ Memory
    BY <1>2, <1>8 DEF Ample, NetInv
  <2>2. \A x \in Nodes, y \in Msgs : Passed(x, y) => Passed(x, y)'
    BY <1>1, <1>2, <2>1, AdmitStep DEF NetInv
  <2>3. /\ Spreads(m)
        /\ \A x \in Nodes : m \notin seen[x] /\ ~HasSent(x, m)
    BY <1>2, Unheard
  <2>4. m \in seen'[n]
    BY <1>1, <1>2, <1>4, <2>1, <2>3, RoomLeft
  <2>5. \A t \in Nat : t >= net.ttl => Enough(m, t)'
    <3>1. Cardinality(Used(m)') \in Nat
      <4>1. TypeOK'
        BY <1>3 DEF NetInv
      <4>. QED BY <4>1, UsedNumber
    <3>. QED BY <1>1, <1>2, <3>1 DEF Enough
  <2>6. ASSUME NEW y \in clean' \cap Private
        PROVE  Knows(Origin[y], y)' /\ Spreads(y)'
    <3>1. y = m \/ y \in clean
      BY <1>2
    <3>2. y \in Msgs /\ Origin[y] \in Nodes
      BY <3>1, NetworkAssumption DEF NetInv, TypeOK
    <3>3. Spreads(y)
      BY <2>1, <2>3, <3>1 DEF Spreading
    <3>4. Knows(Origin[y], y)'
      <4>1. CASE y = m
        BY <2>4, <4>1 DEF Knows
      <4>2. CASE y \in clean
        BY <1>2, <1>4, <2>1, <3>2, <4>2 DEF Spreading, Knows, Sent
      <4>. QED BY <3>1, <4>1, <4>2
    <3>5. \A l \in Links, x \in Nodes : \A i \in 1..Len(wire'[l][x]) :
            \E j \in 1..Len(wire[l][x]) : wire'[l][x][i] = wire[l][x][j]
      BY <1>2
    <3>6. \A x \in Nodes : \A i \in 1..Len(queue'[x]) :
            queue'[x][i].msg = y =>
              \/ \E j \in 1..Len(queue[x]) : queue'[x][i] = queue[x][j]
              \/ EntryGood(x, queue[x][i])'
      <4>. SUFFICES ASSUME NEW x \in Nodes, NEW i \in 1..Len(queue'[x]),
                           queue'[x][i] =
                             [msg |-> m, ttl |-> net.ttl, from |-> NoLink]
                    PROVE  EntryGood(x, queue[x][i])'
        BY <1>4
      <4>. QED BY <1>1, <2>5 DEF EntryGood
    <3>7. \A l \in Links, x \in Nodes : OnLink(l, x, y) => OnLink(l, x, y)'
      BY <1>2 DEF OnLink
    <3>8. \A l \in net.links : \A x \in Ends(l) : HasSent(x, y)' => HasSent(x, y)
      <4>. SUFFICES ASSUME NEW l \in net.links, NEW x \in Ends(l),
                           HasSent(x, y)'
                    PROVE  HasSent(x, y)
        OBVIOUS
      <4>1. x \in Nodes
        BY EndsAreNodes
      <4>. QED BY <1>2, <1>4, <3>2, <4>1 DEF HasSent, Sent
    <3>9. TypeOK'
      BY <1>3 DEF NetInv
    <3>10. Spreads(y)'
      BY <1>2, <1>4, <2>2, <3>2, <3>3, <3>5, <3>6, <3>7, <3>8, <3>9,
         SpreadsStep
    <3>. QED BY <3>4, <3>10
  <2>. QED BY <2>6 DEF Spreading
<1>. QED BY <1>3, <1>5, <1>6, <1>7, <1>8

LEMMA DeliverFlood ==
  ASSUME FloodInv, NEW l \in Links, NEW n \in Nodes, Deliver(l, n)
  PROVE  FloodInv'
<1>. USE DEF FloodInv
<1>a. wire[l][n] \in Seq(Copy) /\ wire[l][n] # <<>>
  BY DEF Deliver, NetInv, TypeOK
<1>b. PICK c \in Copy : c = Head(wire[l][n])
  BY <1>a
<1>1. /\ c = wire[l][n][1] /\ 1 \in 1..Len(wire[l][n])
      /\ c.msg \in Msgs /\ c.ttl \in 0..(TTLMod - 1)
      /\ c.msg \in announced
  <2>1. c = wire[l][n][1] /\ 1 \in 1..Len(wire[l][n])
    BY <1>a, <1>b
  <2>2. c.msg \in announced
    BY <2>1 DEF NetInv, Announced, WireAnnounced
  <2>. QED BY <2>1, <2>2, <1>b DEF Copy
<1>2. /\ Admit(n, c.msg, c.ttl, l)
      /\ wire' = [wire EXCEPT ![l][n] = Tail(@)]
      /\ UNCHANGED <<net, announced, up, crossed, told, faults, clean>>
  BY <1>b DEF Deliver
<1>3. NetInv'
  BY DeliverInv
<1>4. /\ \A x \in Nodes :
           /\ seen[x] \subseteq seen'[x]
           /\ seen'[x] \subseteq (IF x = n THEN seen[x] \cup {c.msg} ELSE seen[x])
      /\ Len(queue[n]) < LoungeSize => c.msg \in seen'[n]
      /\ c.msg \in seen[n] => c.msg \in seen'[n]
      /\ \A x \in Nodes : \A i \in 1..Len(queue'[x]) :
           \/ x = n /\ queue'[x][i] = [msg |-> c.msg, ttl |-> c.ttl, from |-> l]
           \/ i \in 1..Len(queue[x]) /\ queue'[x][i] = queue[x][i]
      /\ \A x \in Nodes, y \in Msgs : Passed(x, y)' => Passed(x, y)
  BY <1>1, <1>2, AdmitKeeps DEF NetInv
<1>5. FromOutside'
  BY <1>1, <1>2, <1>4 DEF FromOutside
<1>6. clean' # {} => up' = net'.links
  BY <1>2
<1>7. ASSUME ~net'.forgets PROVE PassedTold'
  BY <1>2, <1>4, <1>7, NetworkAssumption DEF PassedTold
<1>8. ASSUME Ample' PROVE Spreading'
  <2>1. Ample /\ ~net.forgets /\ Memory
    BY <1>2, <1>8 DEF Ample, NetInv
  <2>2. \A x \in Nodes, y \in Msgs : Passed(x, y) => Passed(x, y)'
    BY <1>1, <1>2, <2>1, AdmitStep DEF NetInv
  <2>3. c.msg \in seen'[n]
    <3>1. c.msg \in net.msgs
      BY <1>1 DEF FromOutside
    <3>. QED BY <1>4, <2>1, <3>1, RoomLeft
  <2>4. \A k \in Links, x \in Nodes :
          wire'[k][x] = IF k = l /\ x = n THEN Tail(wire[l][n]) ELSE wire[k][x]
    BY <1>2 DEF NetInv, TypeOK
  <2>5. /\ \A i \in 1..Len(Tail(wire[l][n])) :
             i + 1 \in 1..Len(wire[l][n]) /\ Tail(wire[l][n])[i] = wire[l][n][i + 1]
        /\ \A i \in 1..Len(wire[l][n]) :
             i = 1 \/ (i - 1 \in 1..Len(Tail(wire[l][n]))
                       /\ Tail(wire[l][n])[i - 1] = wire[l][n][i])
    BY <1>a
  <2>6. ASSUME NEW y \in clean' \cap Private
        PROVE  Knows(Origin[y], y)' /\ Spreads(y)'
    <3>1. y \in clean /\ y \in Msgs /\ Origin[y] \in Nodes
      BY <1>2, NetworkAssumption DEF NetInv, TypeOK
    <3>3. Spreads(y) /\ Knows(Origin[y], y)
      BY <2>1, <3>1 DEF Spreading
    <3>4. Knows(Origin[y], y)'
      BY <1>2, <1>4, <3>1, <3>3 DEF Knows, Sent
    <3>5. \A k \in Links, x \in Nodes : \A i \in 1..Len(wire'[k][x]) :
            \E j \in 1..Len(wire[k][x]) : wire'[k][x][i] = wire[k][x][j]
      <4>. SUFFICES ASSUME NEW k \in Links, NEW x \in Nodes,
                           NEW i \in 1..Len(wire'[k][x])
                    PROVE  \E j \in 1..Len(wire[k][x]) :
                             wire'[k][x][i] = wire[k][x][j]
        OBVIOUS
      <4>1. CASE k = l /\ x = n
        <5>1. wire'[k][x] = Tail(wire[l][n])
          BY <2>4, <4>1
        <5>. QED BY <2>5, <4>1, <5>1
      <4>2. CASE ~(k = l /\ x = n)
        BY <2>4, <4>2
      <4>. QED BY <4>1, <4>2
    <3>6. \A x \in Nodes : \A i \in 1..Len(queue'[x]) :
            queue'[x][i].msg = y =>
              \/ \E j \in 1..Len(queue[x]) : queue'[x][i] = queue[x][j]
              \/ EntryGood(x, queue[x][i])'
      <4>. SUFFICES ASSUME NEW x \in Nodes, NEW i \in 1..Len(queue'[x]),
                           queue'[x][i].msg = y, x = n,
                           queue'[x][i] =
                             [msg |-> c.msg, ttl |-> c.ttl, from |-> l]
                    PROVE  EntryGood(x, queue[x][i])'
        BY <1>4
      <4>1. CopyGood(l, n, c)
        BY <1>1, <3>3 DEF Spreads
      <4>2. /\ Knows(Other(l, n), y) => Knows(Other(l, n), y)'
            /\ Enough(y, c.ttl) => Enough(y, c.ttl)'
        <5>1. c.ttl \in Nat /\ Other(l, n) \in Nodes
          BY <1>1, OtherNode, NetworkAssumption
        <5>. QED BY <1>2, <1>4, <2>2, <3>1, <5>1, UsedKept DEF NetInv, Knows
      <4>. QED BY <4>1, <4>2 DEF CopyGood, EntryGood
    <3>7. \A k \in Links, x \in Nodes :
            OnLink(k, x, y) => OnLink(k, x, y)' \/ Knows(x, y)'
      <4>. SUFFICES ASSUME NEW k \in Links, NEW x \in Nodes, OnLink(k, x, y)
                    PROVE  OnLink(k, x, y)' \/ Knows(x, y)'
        OBVIOUS
      <4>1. PICK i \in 1..Len(wire[k][x]) : wire[k][x][i].msg = y
        BY DEF OnLink
      <4>2. CASE ~(k = l /\ x = n)
        BY <2>4, <4>1, <4>2 DEF OnLink
      <4>3. CASE k = l /\ x = n /\ i = 1
        BY <1>1, <2>3, <4>1, <4>3 DEF Knows
      <4>4. CASE k = l /\ x = n /\ i # 1
        <5>1. i - 1 \in 1..Len(wire'[k][x]) /\ wire'[k][x][i - 1].msg = y
          BY <2>4, <2>5, <4>1, <4>4
        <5>. QED BY <5>1 DEF OnLink
      <4>. QED BY <4>2, <4>3, <4>4
    <3>8. \A k \in net.links : \A x \in Ends(k) : HasSent(x, y)' => HasSent(x, y)
      <4>. SUFFICES ASSUME NEW k \in net.links, NEW x \in Ends(k),
                           HasSent(x, y)'
                    PROVE  HasSent(x, y)
        OBVIOUS
      <4>1. x \in Nodes
        BY EndsAreNodes
      <4>. QED BY <1>2, <1>4, <3>1, <4>1 DEF HasSent, Sent
    <3>9. TypeOK'
      BY <1>3 DEF NetInv
    <3>10. Spreads(y)'
      BY <1>2, <1>4, <2>2, <3>1, <3>3, <3>5, <3>6, <3>7, <3>8, <3>9,
         SpreadsStep
    <3>. QED BY <3>4, <3>10
  <2>. QED BY <2>6 DEF Spreading
<1>. QED BY <1>3, <1>5, <1>6, <1>7, <1>8

LEMMA BroadcastFlood ==
  ASSUME FloodInv, NEW m \in Msgs, Broadcast(m)
  PROVE  FloodInv'
<1>. USE DEF FloodInv
<1>. DEFINE n == Origin[m]
<1>1. n \in Nodes /\ net.ttl \in 0..(TTLMod - 1) /\ net.ttl \in Nat
  BY NetType, NetworkAssumption DEF NetInv, TypeOK
<1>2. /\ m \in Periodic /\ m \in net.msgs \ announced
      /\ announced' = announced \cup {m}
      /\ \/ clean' = clean
         \/ clean' = clean \cup {m} /\ up = net.links /\ UNCHANGED faults
      /\ SendToAll(n, m, Targets(n, NoLink), net.ttl, FALSE)
      /\ UNCHANGED <<net, up, seen, queue, told>>
  BY DEF Broadcast, Born, nodeVars
<1>3. NetInv'
  BY BroadcastInv
<1>4. \A x \in Nodes, y \in Msgs : Passed(x, y)' = Passed(x, y)
  BY <1>2 DEF Passed, Waits
<1>5. FromOutside'
  BY <1>2 DEF FromOutside
<1>6. clean' # {} => up' = net'.links
  BY <1>2
<1>7. ASSUME ~net'.forgets PROVE PassedTold'
  BY <1>2, <1>4, <1>7, NetworkAssumption DEF PassedTold
<1>8. ASSUME Ample' PROVE Spreading'
  <2>1. Ample
    BY <1>2, <1>8 DEF Ample
  <2>2. PICK out \in SUBSET {l \in Links : n \in Ends(l)} :
          out = Targets(n, NoLink)
    BY <1>1, TargetsType DEF NetInv
  <2>3. SendToAll(n, m, out, net.ttl, FALSE)
    BY <1>2, <2>2
  <2>4. /\ Spreads(m) /\ Used(m) = {}
        /\ \A x \in Nodes : m \notin seen[x] /\ ~HasSent(x, m)
    BY <1>2, Unheard
  <2>5. Sent(n, m)'
    BY <1>2 DEF Sent
  <2>. SUFFICES ASSUME NEW y \in clean' \cap Private
                PROVE  Knows(Origin[y], y)' /\ Spreads(y)'
    BY DEF Spreading
  <2>6. y \in Msgs /\ Origin[y] \in Nodes /\ (y = m \/ y \in clean)
    BY <1>2, NetworkAssumption DEF NetInv, TypeOK
  <2>7. Spreads(y)
    BY <2>1, <2>4, <2>6 DEF Spreading
  <2>8. Knows(Origin[y], y)'
    <3>1. CASE y = m
      BY <2>5, <3>1 DEF Knows
    <3>2. CASE y \in clean
      BY <1>2, <2>1, <3>2 DEF Spreading, Knows, Sent
    <3>. QED BY <2>6, <3>1, <3>2
  <2>9. \A x \in Nodes : \A i \in 1..Len(queue'[x]) :
          \E j \in 1..Len(queue[x]) : queue'[x][i] = queue[x][j]
    BY <1>2
  <2>10. TypeOK' /\ announced \subseteq announced'
         /\ \A x \in Nodes : seen[x] \subseteq seen'[x]
    BY <1>2, <1>3 DEF NetInv
  <2>11. CASE y # m
    <3>1. /\ \A l \in Links, x \in Nodes : \A i \in 1..Len(wire'[l][x]) :
               wire'[l][x][i].msg = y =>
                 \E j \in 1..Len(wire[l][x]) : wire'[l][x][i] = wire[l][x][j]
          /\ \A l \in Links, x \in Nodes : OnLink(l, x, y) => OnLink(l, x, y)'
      BY <1>1, <2>3, <2>6, <2>11, OthersKept DEF NetInv
    <3>2. \A l \in net.links : \A x \in Ends(l) : HasSent(x, y)' => HasSent(x, y)
      <4>. SUFFICES ASSUME NEW l \in net.links, NEW x \in Ends(l),
                           HasSent(x, y)'
                    PROVE  HasSent(x, y)
        OBVIOUS
      <4>1. x \in Nodes
        BY EndsAreNodes
      <4>. QED BY <1>2, <1>4, <2>6, <2>11, <4>1 DEF HasSent, Sent
    <3>3. Spreads(y)'
      BY <1>2, <1>4, <2>6, <2>7, <2>9, <2>10, <3>1, <3>2, SpreadsStep
    <3>. QED BY <2>8, <3>3
  <2>12. CASE y = m
    <3>1. up = net.links /\ UNCHANGED faults
      BY <1>2, <2>12 DEF FromOutside
    <3>2. out \subseteq net.links
          /\ \A l \in net.links : n \in Ends(l) => l \in out
      BY <2>2, <3>1, NetType, NetworkAssumption DEF Targets, NetInv, TypeOK
    <3>3. \A l \in out : <<l, 3>> \in Used(m)'
      <4>. SUFFICES ASSUME NEW l \in out PROVE <<l, 3>> \in Used(m)'
        OBVIOUS
      <4>1. <<l, 3>> \in net'.links \X (1..3) /\ n \in Ends(l)
        BY <1>2, <3>2
      <4>. QED BY <2>5, <4>1 DEF Used, Uses, UsedBy
    <3>4. Enough(m, net.ttl)
      BY <1>1, UsedType DEF Enough, NetInv
    <3>5. /\ \A l \in Links, x \in Nodes : \A i \in 1..Len(wire'[l][x]) :
               \/ i \in 1..Len(wire[l][x]) /\ wire'[l][x][i] = wire[l][x][i]
               \/ wire'[l][x][i].msg = m /\ CopyGood(l, x, wire[l][x][i])'
          /\ \A l \in out : OnLink(l, Other(l, n), m)'
          /\ \A l \in Links, x \in Nodes, z \in Msgs :
               OnLink(l, x, z) => OnLink(l, x, z)'
      <4>1. PICK side : side = [l \in out |-> 3]
        OBVIOUS
      <4>2. /\ side \in [out -> 1..3]
            /\ \A l \in out : <<l, side[l]>> \in Used(m)' \ Used(m)
        BY <2>4, <3>3, <4>1
      <4>3. Used(m) \subseteq Used(m)' /\ Knows(n, m)'
        BY <2>4, <2>5 DEF Knows
      <4>. QED BY <1>1, <1>2, <2>1, <2>3, <3>1, <3>2, <3>4, <4>2, <4>3,
                  TurnSpreads
    <3>6. \A l \in Links, x \in Nodes : \A i \in 1..Len(wire'[l][x]) :
            \/ \E j \in 1..Len(wire[l][x]) : wire'[l][x][i] = wire[l][x][j]
            \/ CopyGood(l, x, wire[l][x][i])'
      BY <2>12, <3>5
    <3>7. \A l \in net.links : \A x \in Ends(l) :
            HasSent(x, y)' => HasSent(x, y) \/ LinkGood(l, x, y)'
      <4>. SUFFICES ASSUME NEW l \in net.links, NEW x \in Ends(l),
                           HasSent(x, y)', ~HasSent(x, y)
                    PROVE  LinkGood(l, x, y)'
        OBVIOUS
      <4>1. x \in Nodes
        BY EndsAreNodes
      <4>2. x = n
        BY <1>2, <1>4, <2>6, <2>12, <4>1 DEF HasSent, Sent
      <4>3. OnLink(l, Other(l, x), y)'
        BY <2>12, <3>2, <3>5, <4>2
      <4>. QED BY <4>3 DEF LinkGood
    <3>8. Spreads(y)'
      BY <1>2, <1>4, <2>6, <2>7, <2>9, <2>10, <3>5, <3>6, <3>7, SpreadsStep
    <3>. QED BY <2>8, <3>8
  <2>. QED BY <2>11, <2>12
<1>. QED BY <1>3, <1>5, <1>6, <1>7, <1>8

(* A message passes a node when it is taken from its lounge.                *)
LEMMA ForwardPasses ==
  ASSUME NetInv, Memory, NEW n \in Nodes, queue[n] # <<>>,
         NEW m, m = Head(queue[n]).msg,
         queue' = [queue EXCEPT ![n] = Tail(@)], UNCHANGED seen
  PROVE  /\ m \in seen[n]
         /\ ~Passed(n, m) /\ Passed(n, m)'
         /\ \A x \in Nodes, y \in Msgs :
              /\ Passed(x, y) => Passed(x, y)'
              /\ Passed(x, y)' => Passed(x, y) \/ (x = n /\ y = m)
         /\ \A x \in Nodes : \A i \in 1..Len(queue'[x]) :
              \E j \in 1..Len(queue[x]) : queue'[x][i] = queue[x][j]
<1>1. queue[n] \in Seq(Entry) /\ queue' \in [Nodes -> Seq(Entry)]
  BY DEF NetInv, TypeOK
<1>2. m = queue[n][1].msg /\ 1 \in 1..Len(queue[n])
  BY <1>1
<1>3. /\ queue'[n] = Tail(queue[n])
      /\ \A x \in Nodes \ {n} : queue'[x] = queue[x]
  BY DEF NetInv, TypeOK
<1>4. /\ \A i \in 1..Len(queue'[n]) :
           i + 1 \in 1..Len(queue[n]) /\ queue'[n][i] = queue[n][i + 1]
      /\ \A i \in 1..Len(queue[n]) :
           i = 1 \/ (i - 1 \in 1..Len(queue'[n])
                     /\ queue'[n][i - 1] = queue[n][i])
  BY <1>1, <1>3
<1>5. m \in seen[n] /\ ~Passed(n, m)
  BY <1>2 DEF Memory, QueueRemembered, Passed, Waits
<1>6. Passed(n, m)'
  <2>1. ASSUME NEW i \in 1..Len(queue'[n]), queue'[n][i].msg = m PROVE FALSE
    <3>1. i + 1 \in 1..Len(queue[n]) /\ queue[n][i + 1].msg = queue[n][1].msg
      BY <1>2, <1>4, <2>1
    <3>2. i + 1 = 1
      BY <1>2, <3>1 DEF Memory, QueueOnce
    <3>. QED BY <3>2
  <2>. QED BY <1>5, <2>1 DEF Passed, Waits
<1>7. \A x \in Nodes : \A i \in 1..Len(queue'[x]) :
        \E j \in 1..Len(queue[x]) : queue'[x][i] = queue[x][j]
  <2>. SUFFICES ASSUME NEW x \in Nodes, NEW i \in 1..Len(queue'[x])
                PROVE  \E j \in 1..Len(queue[x]) : queue'[x][i] = queue[x][j]
    OBVIOUS
  <2>1. CASE x = n
    BY <1>4, <2>1
  <2>2. CASE x # n
    BY <1>3, <2>2
  <2>. QED BY <2>1, <2>2
<1>8. ASSUME NEW x \in Nodes, NEW y \in Msgs, Passed(x, y) PROVE Passed(x, y)'
  <2>1. \A i \in 1..Len(queue'[x]) : queue'[x][i].msg # y
    BY <1>7, <1>8 DEF Passed, Waits
  <2>. QED BY <1>8, <2>1 DEF Passed, Waits
<1>9. ASSUME NEW x \in Nodes, NEW y \in Msgs, Passed(x, y)',
             ~(x = n /\ y = m)
      PROVE  Passed(x, y)
  <2>1. ASSUME NEW i \in 1..Len(queue[x]), queue[x][i].msg = y PROVE FALSE
    <3>1. \E j \in 1..Len(queue'[x]) : queue'[x][j].msg = y
      <4>1. CASE x # n
        BY <1>3, <2>1, <4>1
      <4>2. CASE x = n
        <5>1. i # 1
          BY <1>2, <1>9, <2>1, <4>2
        <5>2. i - 1 \in 1..Len(queue'[n]) /\ queue'[n][i - 1] = queue[n][i]
          BY <1>4, <2>1, <4>2, <5>1
        <5>. QED BY <2>1, <4>2, <5>2
      <4>. QED BY <4>1, <4>2
    <3>. QED BY <1>9, <3>1 DEF Passed, Waits
  <2>2. ~Waits(x, y)
    BY <2>1 DEF Waits
  <2>3. y \in seen[x]
    BY <1>9 DEF Passed
  <2>. QED BY <2>2, <2>3 DEF Passed
<1>. QED BY <1>5, <1>6, <1>7, <1>8, <1>9

LEMMA ForwardFlood ==
  ASSUME FloodInv, NEW n \in Nodes, Forward(n)
  PROVE  FloodInv'
<1>. USE DEF FloodInv
<1>a. queue[n] \in Seq(Entry) /\ queue[n] # <<>>
  BY DEF Forward, NetInv, TypeOK
<1>b. PICK e \in Entry : e = Head(queue[n])
  BY <1>a
<1>1. /\ e = queue[n][1] /\ 1 \in 1..Len(queue[n])
      /\ e.msg \in Msgs /\ e.ttl \in 0..(TTLMod - 1) /\ e.ttl \in Nat
      /\ e.from \in Links \cup {NoLink}
  <2>1. e = queue[n][1] /\ 1 \in 1..Len(queue[n])
    BY <1>a, <1>b
  <2>. QED BY <1>b, <2>1, NetworkAssumption DEF Entry
<1>2. /\ queue' = [queue EXCEPT ![n] = Tail(@)]
      /\ IF e.msg \in Private THEN Pass(n, e)
         ELSE UNCHANGED <<wire, crossed, told, faults, clean>>
      /\ UNCHANGED <<net, announced, up, seen>>
      /\ clean' \subseteq clean
  BY <1>b DEF Forward, Pass
<1>3. NetInv'
  BY ForwardInv
<1>4. FromOutside' /\ (clean' # {} => up' = net'.links)
  BY <1>2 DEF FromOutside
<1>5. ASSUME ~net.forgets
      PROVE  /\ e.msg \in seen[n]
             /\ ~Passed(n, e.msg) /\ Passed(n, e.msg)'
             /\ \A x \in Nodes, y \in Msgs :
                  /\ Passed(x, y) => Passed(x, y)'
                  /\ Passed(x, y)' => Passed(x, y) \/ (x = n /\ y = e.msg)
             /\ \A x \in Nodes : \A i \in 1..Len(queue'[x]) :
                  \E j \in 1..Len(queue[x]) : queue'[x][i] = queue[x][j]
  <2>1. Memory
    BY <1>5 DEF NetInv
  <2>2. /\ e.msg = Head(queue[n]).msg /\ queue[n] # <<>>
        /\ queue' = [queue EXCEPT ![n] = Tail(@)] /\ UNCHANGED seen
    BY <1>a, <1>b, <1>2
  <2>. QED BY ONLY NetInv, n \in Nodes, <2>1, <2>2, ForwardPasses
<1>6. ASSUME ~net'.forgets PROVE PassedTold'
  <2>1. ~net.forgets /\ PassedTold
    BY <1>2, <1>6
  <2>2. told \in [Nodes -> [Msgs -> 0..CountBound]]
    BY DEF NetInv, TypeOK
  <2>3. OneMore(told[n][e.msg]) > 0
    BY <1>1, <2>2, OneMoreType
  <2>4. e.msg \in Private /\ Origin[e.msg] # n => told'[n][e.msg] > 0
    BY <1>1, <1>2, <2>2, <2>3 DEF Pass
  <2>5. \A x \in Nodes, y \in Msgs :
          ~(x = n /\ y = e.msg) => told'[x][y] = told[x][y]
    <3>1. UNCHANGED told \/ told' = [told EXCEPT ![n][e.msg] = OneMore(@)]
      BY <1>2 DEF Pass
    <3>. QED BY <1>1, <2>2, <3>1
  <2>. SUFFICES ASSUME NEW x \in Nodes, NEW y \in Private,
                       Passed(x, y)', x # Origin[y]
                PROVE  told'[x][y] > 0
    BY DEF PassedTold
  <2>6. CASE x = n /\ y = e.msg
    BY <2>4, <2>6
  <2>7. CASE ~(x = n /\ y = e.msg)
    BY <1>5, <2>1, <2>5, <2>7, NetworkAssumption DEF PassedTold
  <2>. QED BY <2>6, <2>7
<1>7. ASSUME Ample' PROVE Spreading'
  <2>1. Ample /\ ~net.forgets
    BY <1>2, <1>7 DEF Ample
  <2>2. PICK out \in SUBSET {l \in Links : n \in Ends(l)} :
          out = Targets(n, e.from)
    BY TargetsType DEF NetInv
  <2>. SUFFICES ASSUME NEW y \in clean' \cap Private
                PROVE  Knows(Origin[y], y)' /\ Spreads(y)'
    BY DEF Spreading
  <2>3. /\ y \in clean /\ y \in Msgs /\ Origin[y] \in Nodes
        /\ up = net.links
    BY <1>2, NetworkAssumption DEF NetInv, TypeOK
  <2>4. Spreads(y) /\ Knows(Origin[y], y)
    BY <2>1, <2>3 DEF Spreading
  <2>5. Knows(Origin[y], y)'
    BY <1>2, <2>4 DEF Knows, Sent
  <2>6. TypeOK'
    BY <1>3 DEF NetInv
  <2>7. CASE y # e.msg
    <3>1. /\ \A l \in Links, x \in Nodes : \A i \in 1..Len(wire'[l][x]) :
               wire'[l][x][i].msg = y =>
                 \E j \in 1..Len(wire[l][x]) : wire'[l][x][i] = wire[l][x][j]
          /\ \A l \in Links, x \in Nodes : OnLink(l, x, y) => OnLink(l, x, y)'
      <4>1. CASE e.msg \in Private
        <5>1. SendToAll(n, e.msg, out, e.ttl, TRUE) /\ TypeOK
          BY <1>2, <2>2, <4>1 DEF NetInv, Pass
        <5>. QED BY <1>1, <2>3, <2>7, <5>1, OthersKept
      <4>2. CASE e.msg \notin Private
        BY <1>2, <4>2 DEF OnLink
      <4>. QED BY <4>1, <4>2
    <3>3. \A l \in net.links : \A x \in Ends(l) : HasSent(x, y)' => HasSent(x, y)
      <4>. SUFFICES ASSUME NEW l \in net.links, NEW x \in Ends(l),
                           HasSent(x, y)'
                    PROVE  HasSent(x, y)
        OBVIOUS
      <4>1. x \in Nodes
        BY EndsAreNodes
      <4>. QED BY <1>2, <1>5, <2>1, <2>3, <2>7, <4>1 DEF HasSent, Sent
    <3>4. Spreads(y)'
      BY <1>2, <1>5, <2>1, <2>3, <2>4, <2>6, <3>1, <3>3, SpreadsStep
    <3>. QED BY <2>5, <3>4
  <2>8. CASE y = e.msg
    <3>b. Pass(n, e) /\ UNCHANGED faults
      BY <1>2, <2>8 DEF Pass
    <3>1. EntryGood(n, e)
      BY <1>1, <2>4, <2>8 DEF Spreads
    <3>2. out \subseteq net.links
          /\ \A l \in net.links : n \in Ends(l) => l \in out \/ l = e.from
      BY <2>2, <2>3 DEF Targets
    <3>3. Used(y) \subseteq Used(y)'
      BY <1>2, <1>5, <2>1, <2>3, UsedKept DEF NetInv
    <3>4. PICK side : side = [l \in out |-> IF n = Dialer[l] THEN 1 ELSE 2]
      OBVIOUS
    <3>a. side \in [out -> 1..3]
      BY <3>4
    <3>5. \A l \in out : <<l, side[l]>> \in Used(y)' \ Used(y)
      <4>. SUFFICES ASSUME NEW l \in out
                    PROVE  <<l, side[l]>> \in Used(y)' \ Used(y)
        OBVIOUS
      <4>1. <<l, side[l]>> \in net.links \X (1..3) /\ UNCHANGED net
        <5>1. l \in net.links /\ side[l] \in 1..3
          BY <3>2, <3>a
        <5>. QED BY <1>2, <5>1
      <4>2. n = Dialer[l] \/ n = Acceptor[l]
        BY DEF Ends
      <4>3. ~UsedBy(y, <<l, side[l]>>) /\ UsedBy(y, <<l, side[l]>>)'
        BY <1>5, <2>1, <2>8, <3>4, <4>2 DEF UsedBy
      <4>. QED BY <4>1, <4>3 DEF Used, Uses
    <3>6. Knows(n, y)'
      BY <1>2, <1>5, <2>1, <2>8 DEF Knows
    <3>7. /\ \A l \in Links, x \in Nodes : \A i \in 1..Len(wire'[l][x]) :
               \/ i \in 1..Len(wire[l][x]) /\ wire'[l][x][i] = wire[l][x][i]
               \/ wire'[l][x][i].msg = y /\ CopyGood(l, x, wire[l][x][i])'
          /\ \A l \in out : OnLink(l, Other(l, n), y)'
          /\ \A l \in Links, x \in Nodes, z \in Msgs :
               OnLink(l, x, z) => OnLink(l, x, z)'
      <4>1. SendToAll(n, y, out, e.ttl, TRUE) /\ Enough(y, e.ttl)
        BY <2>2, <2>8, <3>1, <3>b DEF EntryGood, Pass
      <4>. QED BY <1>1, <1>2, <2>1, <2>3, <3>2, <3>3, <3>a, <3>b, <3>5, <3>6,
                  <4>1, TurnSpreads
    <3>8. \A l \in net.links : \A x \in Ends(l) :
            HasSent(x, y)' => HasSent(x, y) \/ LinkGood(l, x, y)'
      <4>. SUFFICES ASSUME NEW l \in net.links, NEW x \in Ends(l),
                           HasSent(x, y)', ~HasSent(x, y)
                    PROVE  LinkGood(l, x, y)'
        OBVIOUS
      <4>1. l \in Links /\ x \in Nodes
        BY EndsAreNodes
      <4>2. x = n
        BY <1>2, <1>5, <2>1, <2>3, <4>1 DEF HasSent, Sent
      <4>3. CASE l \in out
        BY <3>7, <4>2, <4>3 DEF LinkGood
      <4>4. CASE l = e.from
        <5>1. Knows(Other(l, n), y)
          BY <2>8, <3>1, <4>1, <4>4, NetworkAssumption DEF EntryGood
        <5>2. Knows(Other(l, n), y)'
          BY <1>2, <5>1 DEF Knows, Sent
        <5>. QED BY <4>2, <5>2 DEF LinkGood
      <4>. QED BY <3>2, <4>2, <4>3, <4>4
    <3>9. \A l \in Links, x \in Nodes : \A i \in 1..Len(wire'[l][x]) :
            \/ \E j \in 1..Len(wire[l][x]) : wire'[l][x][i] = wire[l][x][j]
            \/ CopyGood(l, x, wire[l][x][i])'
      BY <3>7
    <3>10. Spreads(y)'
      BY <1>2, <1>5, <2>1, <2>3, <2>4, <2>6, <3>7, <3>8, <3>9, SpreadsStep
    <3>. QED BY <2>5, <3>10
  <2>. QED BY <2>7, <2>8
<1>. QED BY <1>3, <1>4, <1>6, <1>7

(* A fault ends what is said of the messages under way.                     *)
LEMMA FaultFlood ==
  ASSUME FloodInv, NetInv', UNCHANGED <<net, announced>>, clean' = {},
         \A x \in Nodes : seen'[x] \subseteq seen[x],
         \A x \in Nodes, y \in Msgs :
           Passed(x, y)' => Passed(x, y) /\ told'[x][y] = told[x][y]
  PROVE  FloodInv'
<1>1. FromOutside'
  BY DEF FloodInv, FromOutside
<1>2. ~net'.forgets => PassedTold'
  BY NetworkAssumption DEF FloodInv, PassedTold
<1>3. Spreading'
  BY DEF Spreading
<1>. QED BY <1>1, <1>2, <1>3 DEF FloodInv

LEMMA BreakFlood ==
  ASSUME FloodInv, NEW l \in Links, Break(l)
  PROVE  FloodInv'
<1>. DEFINE n == Acceptor[l]
<1>1. NetInv /\ NetInv'
  BY BreakInv DEF FloodInv
<1>2. /\ n \in Nodes
      /\ queue' = [queue EXCEPT ![n] = WithoutSource(@, {l})]
      /\ clean' = {} /\ UNCHANGED <<net, announced, seen, told>>
  BY NetworkAssumption DEF Break, Fault
<1>3. \A x \in Nodes :
        /\ Len(queue'[x]) = Len(queue[x])
        /\ \A i \in 1..Len(queue[x]) : queue'[x][i].msg = queue[x][i].msg
  <2>. SUFFICES ASSUME NEW x \in Nodes
                PROVE  /\ Len(queue'[x]) = Len(queue[x])
                       /\ \A i \in 1..Len(queue[x]) :
                            queue'[x][i].msg = queue[x][i].msg
    OBVIOUS
  <2>1. queue[x] \in Seq(Entry)
    BY <1>1 DEF NetInv, TypeOK
  <2>2. queue'[x] = IF x = n THEN WithoutSource(queue[x], {l}) ELSE queue[x]
    BY <1>1, <1>2 DEF NetInv, TypeOK
  <2>. QED BY <2>1, <2>2, WithoutSourceStep
<1>4. \A x \in Nodes, y \in Msgs : Passed(x, y)' => Passed(x, y)
  <2>1. \A x \in Nodes, y \in Msgs : Waits(x, y) => Waits(x, y)'
    BY <1>3 DEF Waits
  <2>. QED BY <1>2, <2>1 DEF Passed
<1>. QED BY <1>1, <1>2, <1>4, FaultFlood

LEMMA RestartFlood ==
  ASSUME FloodInv, NEW n \in Nodes, Restart(n)
  PROVE  FloodInv'
<1>1. NetInv /\ NetInv'
  BY RestartInv DEF FloodInv
<1>2. PICK lost \in SUBSET Links : lost = {l \in up : n \in Ends(l)}
  BY <1>1 DEF NetInv, TypeOK
<1>3. /\ seen' = [seen EXCEPT ![n] = {}]
      /\ queue' = [x \in Nodes |->
           IF x = n THEN <<>>
           ELSE WithoutSource(queue[x], {l \in lost : Acceptor[l] = x})]
      /\ told' = [told EXCEPT ![n] = [m \in Msgs |-> 0]]
      /\ clean' = {} /\ UNCHANGED <<net, announced>>
  BY <1>2 DEF Restart, Fault
<1>4. seen'[n] = {}
      /\ \A x \in Nodes \ {n} : seen'[x] = seen[x] /\ told'[x] = told[x]
  BY <1>1, <1>3 DEF NetInv, TypeOK
<1>5. ASSUME NEW x \in Nodes, NEW y \in Msgs, Passed(x, y)'
      PROVE  Passed(x, y) /\ told'[x][y] = told[x][y]
  <2>1. x # n
    BY <1>4, <1>5 DEF Passed
  <2>2. queue[x] \in Seq(Entry)
    BY <1>1 DEF NetInv, TypeOK
  <2>3. queue'[x] = WithoutSource(queue[x], {l \in lost : Acceptor[l] = x})
    BY <1>3, <2>1
  <2>4. /\ Len(queue'[x]) = Len(queue[x])
        /\ \A i \in 1..Len(queue[x]) : queue'[x][i].msg = queue[x][i].msg
    BY <2>2, <2>3, WithoutSourceStep
  <2>5. Waits(x, y) => Waits(x, y)'
    BY <2>4 DEF Waits
  <2>. QED BY <1>4, <1>5, <2>1, <2>5 DEF Passed
<1>. QED BY <1>1, <1>3, <1>4, <1>5, FaultFlood

(* Where ids expire, or a connection is still missing, nothing is claimed.  *)
LEMMA ForgetFlood ==
  ASSUME FloodInv, NEW n \in Nodes, NEW m \in Msgs, Forget(n, m)
  PROVE  FloodInv'
<1>1. NetInv' /\ TypeOK
  BY ForgetInv DEF FloodInv, NetInv
<1>2. /\ seen' = [seen EXCEPT ![n] = @ \ {m}] /\ net.forgets
      /\ UNCHANGED <<net, announced, up, clean>>
  BY DEF Forget, linkVars
<1>3. \A x \in Nodes : seen'[x] \subseteq seen[x]
  BY <1>1, <1>2 DEF TypeOK
<1>4. FromOutside'
  BY <1>2, <1>3 DEF FloodInv, FromOutside
<1>5. ~Ample'
  BY <1>2 DEF Ample
<1>. QED BY <1>1, <1>2, <1>4, <1>5 DEF FloodInv

LEMMA ReconnectFlood ==
  ASSUME FloodInv, NEW l \in Links, Reconnect(l)
  PROVE  FloodInv'
<1>1. NetInv'
  BY ReconnectInv DEF FloodInv
<1>2. /\ l \in net.links \ up
      /\ UNCHANGED <<net, announced, seen, queue, told, clean>>
  BY DEF Reconnect, nodeVars
<1>3. clean = {}
  BY <1>2 DEF FloodInv
<1>4. \A x \in Nodes, y \in Msgs : Passed(x, y)' => Passed(x, y)
  BY <1>2 DEF Passed, Waits
<1>. QED BY <1>1, <1>2, <1>3, <1>4, FaultFlood

LEMMA StutterFlood ==
  ASSUME FloodInv, UNCHANGED vars
  PROVE  FloodInv'
<1>1. UNCHANGED <<net, announced, up, wire, crossed, seen, queue, told, faults,
                  clean>>
  BY DEF vars, nodeVars, linkVars
<1>2. NetInv'
  BY NextNetInv DEF FloodInv
<1>3. FromOutside' /\ (clean' # {} => up' = net'.links)
  BY <1>1 DEF FloodInv, FromOutside
<1>4. ~net'.forgets => PassedTold'
  BY <1>1 DEF FloodInv, PassedTold, Passed, Waits
<1>5. ASSUME Ample' PROVE Spreading'
  <2>1. Spreading
    BY <1>1, <1>5 DEF FloodInv, Ample
  <2>2. \A x, m : /\ (m \in seen[x])' <=> m \in seen[x]
                  /\ Waits(x, m)' <=> Waits(x, m)
                  /\ Sent(x, m)' <=> Sent(x, m)
    BY <1>1 DEF Waits, Sent
  <2>3. \A x, m : /\ Knows(x, m)' <=> Knows(x, m)
                  /\ HasSent(x, m)' <=> HasSent(x, m)
                  /\ Passed(x, m)' <=> Passed(x, m)
    BY <2>2 DEF Knows, HasSent, Passed
  <2>4. \A m : Used(m)' = Used(m)
    BY <1>1, <2>2, <2>3 DEF Used, Uses, UsedBy
  <2>5. \A m, t : Enough(m, t)' <=> Enough(m, t)
    BY <1>1, <2>4 DEF Enough
  <2>6. \A l, x, m : OnLink(l, x, m)' <=> OnLink(l, x, m)
    BY <1>1 DEF OnLink
  <2>7. \A m : Spreads(m) => Spreads(m)'
    BY <1>1, <2>3, <2>5, <2>6 DEF Spreads, CopyGood, EntryGood, LinkGood
  <2>. QED BY <1>1, <2>1, <2>3, <2>7 DEF Spreading
<1>. QED BY <1>2, <1>3, <1>4, <1>5 DEF FloodInv

LEMMA InitFlood == Init => FloodInv
<1>. SUFFICES ASSUME Init PROVE FloodInv
  OBVIOUS
<1>1. NetInv
  BY InitNetInv
<1>2. FromOutside /\ clean = {}
  BY DEF Init, FromOutside
<1>3. PassedTold
  BY DEF Init, PassedTold, Passed
<1>4. Spreading
  BY <1>2 DEF Spreading
<1>. QED BY <1>1, <1>2, <1>3, <1>4 DEF FloodInv

LEMMA NextFlood == FloodInv /\ [Next]_vars => FloodInv'
<1>. SUFFICES ASSUME FloodInv, [Next]_vars PROVE FloodInv'
  OBVIOUS
<1>1. CASE Next
  <2>1. ASSUME NEW m \in Msgs, Announce(m) \/ Broadcast(m) PROVE FloodInv'
    BY <2>1, AnnounceFlood, BroadcastFlood
  <2>2. ASSUME NEW n \in Nodes, NEW l \in Links, Deliver(l, n) PROVE FloodInv'
    BY <2>2, DeliverFlood
  <2>3. ASSUME NEW n \in Nodes, Forward(n) \/ Restart(n) PROVE FloodInv'
    BY <2>3, ForwardFlood, RestartFlood
  <2>4. ASSUME NEW n \in Nodes, NEW m \in Msgs, Forget(n, m) PROVE FloodInv'
    BY <2>4, ForgetFlood
  <2>5. ASSUME NEW l \in Links, Break(l) \/ Reconnect(l) PROVE FloodInv'
    BY <2>5, BreakFlood, ReconnectFlood
  <2>. QED BY <1>1, <2>1, <2>2, <2>3, <2>4, <2>5 DEF Next
<1>2. CASE UNCHANGED vars
  BY <1>2, StutterFlood
<1>. QED BY <1>1, <1>2

(* README.md:53: in every connected network in which ids are remembered, no *)
(* lounge can be full and the TTL cannot be used up, an announcement with a *)
(* private address, made when all connections were up, has been acted upon  *)
(* by every other node once nothing travels any more, unless since then a   *)
(* connection or a node failed or a copy of it was given up after a write   *)
(* that missed its deadline.                                                *)
THEOREM NobodyOwedMissed == Spec => []NobodyMissed
<1>1. FloodInv => NobodyMissed
  <2>. SUFFICES ASSUME FloodInv, Quiet, Ample, Connected,
                       NEW m \in clean \cap Private,
                       NEW n \in Nodes, n # Origin[m]
                PROVE  told[n][m] > 0
    BY DEF NobodyMissed, Owed
  <2>1. /\ TypeOK /\ m \in Msgs /\ Origin[m] \in Nodes
        /\ Knows(Origin[m], m) /\ Spreads(m)
    BY NetworkAssumption DEF FloodInv, NetInv, TypeOK, Spreading
  <2>2. \A x \in Nodes : Knows(x, m) => HasSent(x, m)
    <3>1. \A x \in Nodes : ~Waits(x, m)
      BY DEF Quiet, Waits
    <3>. QED BY <3>1 DEF Knows, HasSent, Passed
  <2>3. \A l \in net.links : \A x \in Ends(l) :
          Knows(x, m) => Knows(Other(l, x), m)
    <3>. SUFFICES ASSUME NEW l \in net.links, NEW x \in Ends(l), Knows(x, m)
                  PROVE  Knows(Other(l, x), m)
      OBVIOUS
    <3>1. l \in Links /\ x \in Nodes
      BY EndsAreNodes DEF FloodInv
    <3>2. wire[l][Other(l, x)] = <<>>
      BY <3>1, OtherNode DEF Quiet
    <3>3. ~OnLink(l, Other(l, x), m)
      BY <3>2 DEF OnLink
    <3>. QED BY <2>1, <2>2, <3>1, <3>3 DEF Spreads, LinkGood
  <2>4. PICK part \in SUBSET Nodes : part = {x \in Nodes : Knows(x, m)}
    OBVIOUS
  <2>5. \A l \in net.links : Ends(l) \cap part # {} => Ends(l) \subseteq part
    <3>. SUFFICES ASSUME NEW l \in net.links, NEW x \in Ends(l) \cap part
                  PROVE  Ends(l) \subseteq part
      OBVIOUS
    <3>1. Knows(x, m) /\ Knows(Other(l, x), m)
      BY <2>3, <2>4
    <3>2. \A y \in Ends(l) : y = x \/ y = Other(l, x)
      BY DEF Ends, Other
    <3>3. \A y \in Ends(l) : y \in Nodes
      BY EndsAreNodes DEF FloodInv
    <3>. QED BY <2>4, <3>1, <3>2, <3>3
  <2>6. part = Nodes
    <3>1. Origin[m] \in part
      BY <2>1, <2>4
    <3>. QED BY <2>5, <3>1 DEF Connected
  <2>7. Passed(n, m)
    BY <2>2, <2>4, <2>6 DEF HasSent, Sent
  <2>. QED BY <2>1, <2>7 DEF FloodInv, PassedTold, Ample
<1>. QED BY <1>1, InitFlood, NextFlood, PTL DEF Spec
=============================================================================
