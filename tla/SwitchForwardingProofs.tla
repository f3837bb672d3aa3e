----------------------- MODULE SwitchForwardingProofs -----------------------
(***************************************************************************)
(* Proofs about SwitchForwarding, for any number of connections and        *)
(* messages, every channel size and every width of the TTL field.          *)
(***************************************************************************)
EXTENDS SwitchForwarding, FiniteSetTheorems, SequenceTheorems, TLAPS

(* The decrement of a field that is not zero does not wrap. *)
LEMMA DecrementPositive ==
  ASSUME NEW t \in 0..(TTLMod - 1), t > 0
  PROVE  Decrement(t) = t - 1
<1>1. TTLMod \in Nat \ {0}
  BY ForwardingAssumption
<1>2. ASSUME NEW k \in Nat, NEW M \in Nat \ {0}, k < M PROVE (k + M) % M = k
  BY <1>2
<1>3. t - 1 \in Nat /\ t - 1 < TTLMod /\ t + TTLMod - 1 = (t - 1) + TTLMod
  BY <1>1
<1>. QED BY <1>1, <1>2, <1>3 DEF Decrement

LEMMA DecrementType ==
  ASSUME NEW t \in 0..(TTLMod - 1)
  PROVE  Decrement(t) \in 0..(TTLMod - 1)
BY ForwardingAssumption DEF Decrement

-----------------------------------------------------------------------------
(***************************************************************************)
(* The inductive invariant.  A writer works on a message of its own that   *)
(* waits no longer.  While the TTL is larger than the number of targets,   *)
(* it has gone down by one for each connection visited so far, and a       *)
(* message in the hands of a writer about to send, of a channel or of a    *)
(* sender has been decremented at least once.                              *)
(***************************************************************************)
Handed(m) ==
  \/ \E w \in Writers : at[w] = m /\ picked[w] # NoConn
  \/ \E c \in Conns : \E i \in 1..Len(sendChan[c]) : sendChan[c][i] = m
  \/ \E c \in Conns : holding[c] = m

WorkInv ==
  \A w \in Writers :
    /\ at[w] = NoMsg => picked[w] = NoConn
    /\ at[w] # NoMsg => /\ at[w] \in Work(w) \ waiting
                        /\ todo[w] \subseteq Targets(at[w])

TTLOf(m) ==
  LET in == origin[m].ttl
      n == Cardinality(Targets(m))
  IN  in > n =>
        /\ in - n <= ttl[m] /\ ttl[m] <= in
        /\ m \in waiting => ttl[m] = in
        /\ \A w \in Writers :
             at[w] = m => ttl[m] = in - Cardinality(Targets(m) \ todo[w])
        /\ Handed(m) => ttl[m] < in

TTLInv == \A m \in Msgs : TTLOf(m)

FwdInv == TypeOK /\ WorkInv /\ TTLInv /\ WireTTLWindow

LEMMA TargetsFinite ==
  ASSUME NEW m \in Msgs
  PROVE  /\ IsFiniteSet(Targets(m))
         /\ Cardinality(Targets(m)) \in Nat
         /\ Targets(m) \in SUBSET Conns
<1>1. Targets(m) \in SUBSET Conns
  BY DEF Targets
<1>2. IsFiniteSet(Targets(m))
  BY <1>1, ForwardingAssumption, FS_Subset
<1>. QED BY <1>1, <1>2, FS_CardinalityType

(* One more connection visited is one more connection counted. *)
LEMMA VisitCounts ==
  ASSUME NEW m \in Msgs, NEW T \in SUBSET Targets(m), NEW c \in T
  PROVE  /\ Cardinality(Targets(m) \ T) \in Nat
         /\ Cardinality(Targets(m) \ (T \ {c})) = Cardinality(Targets(m) \ T) + 1
         /\ Cardinality(Targets(m) \ (T \ {c})) <= Cardinality(Targets(m))
<1>1. IsFiniteSet(Targets(m)) /\ IsFiniteSet(Targets(m) \ T)
  BY TargetsFinite, FS_Subset
<1>2. Targets(m) \ (T \ {c}) = (Targets(m) \ T) \cup {c}
  OBVIOUS
<1>3. c \notin Targets(m) \ T
  OBVIOUS
<1>4. Cardinality((Targets(m) \ T) \cup {c}) = Cardinality(Targets(m) \ T) + 1
  BY <1>1, <1>3, FS_AddElement
<1>5. Cardinality(Targets(m) \ (T \ {c})) <= Cardinality(Targets(m))
  BY <1>1, FS_Subset
<1>6. Cardinality(Targets(m) \ T) \in Nat
  BY <1>1, FS_CardinalityType
<1>. QED BY <1>2, <1>4, <1>5, <1>6

LEMMA InitFwdInv == Init => FwdInv
<1>. SUFFICES ASSUME Init PROVE FwdInv
  OBVIOUS
<1>1. TypeOK
  <2>1. \A m \in Msgs : origin[m].ttl \in 0..(TTLMod - 1)
    BY DEF Init, Origins
  <2>2. /\ ttl \in [Msgs -> 0..(TTLMod - 1)]
        /\ skipped \in [Msgs -> SUBSET Conns]
        /\ waiting \in SUBSET Msgs
    BY <2>1 DEF Init
  <2>3. /\ at \in [Writers -> Msgs \cup {NoMsg}]
        /\ todo \in [Writers -> SUBSET Conns]
        /\ picked \in [Writers -> Conns \cup {NoConn}]
    BY DEF Init
  <2>4. /\ sendChan \in [Conns -> Seq(Msgs)]
        /\ holding \in [Conns -> Msgs \cup {NoMsg}]
        /\ wire \in [Conns -> Seq(Frames)]
    BY DEF Init
  <2>. QED BY <2>2, <2>3, <2>4 DEF Init, TypeOK
<1>2. WorkInv
  BY DEF Init, WorkInv
<1>3. TTLInv
  <2>. SUFFICES ASSUME NEW m \in Msgs PROVE TTLOf(m)
    BY DEF TTLInv
  <2>1. ~Handed(m)
    BY ForwardingAssumption DEF Init, Handed, Msgs
  <2>2. ttl[m] = origin[m].ttl /\ origin[m].ttl \in Nat
    BY DEF Init, Origins
  <2>3. \A w \in Writers : at[w] # m
    BY ForwardingAssumption DEF Init, Msgs
  <2>. QED BY <2>1, <2>2, <2>3, TargetsFinite DEF TTLOf
<1>4. WireTTLWindow
  BY DEF Init, WireTTLWindow
<1>. QED BY <1>1, <1>2, <1>3, <1>4 DEF FwdInv

-----------------------------------------------------------------------------
(***************************************************************************)
(* Type correctness, one step per action.                                  *)
(***************************************************************************)
LEMMA NextTypeOK == TypeOK /\ WorkInv /\ Next => TypeOK'
<1>. SUFFICES ASSUME TypeOK, WorkInv, Next PROVE TypeOK'
  OBVIOUS
<1>. USE ForwardingAssumption
<1>1. ASSUME NEW w \in Writers, NEW m \in Msgs, Take(w, m) PROVE TypeOK'
  <2>1. Targets(m) \in SUBSET Conns
    BY TargetsFinite
  <2>2. waiting' \in SUBSET Msgs
    BY <1>1 DEF Take, TypeOK
  <2>3. /\ at' \in [Writers -> Msgs \cup {NoMsg}]
        /\ todo' \in [Writers -> SUBSET Conns]
    <3>1. CASE Acceptable(m)
      <4>1. at' = [at EXCEPT ![w] = m] /\ todo' = [todo EXCEPT ![w] = Targets(m)]
        BY <1>1, <3>1 DEF Take
      <4>2. at' \in [Writers -> Msgs \cup {NoMsg}]
        BY <4>1 DEF TypeOK
      <4>3. todo' \in [Writers -> SUBSET Conns]
        BY <2>1, <4>1 DEF TypeOK
      <4>. QED BY <4>2, <4>3
    <3>2. CASE ~Acceptable(m)
      BY <1>1, <3>2 DEF Take, TypeOK
    <3>. QED BY <3>1, <3>2
  <2>. QED BY <1>1, <2>2, <2>3 DEF Take, TypeOK
<1>2. ASSUME NEW w \in Writers, NEW c \in Conns, Visit(w, c) PROVE TypeOK'
  <2>1. at[w] \in Msgs /\ Decrement(ttl[at[w]]) \in 0..(TTLMod - 1)
    BY <1>2, DecrementType DEF Visit, TypeOK
  <2>2. ttl' \in [Msgs -> 0..(TTLMod - 1)]
    BY <1>2, <2>1 DEF Visit, TypeOK
  <2>3. todo' \in [Writers -> SUBSET Conns]
    BY <1>2 DEF Visit, TypeOK
  <2>4. /\ picked' \in [Writers -> Conns \cup {NoConn}]
        /\ skipped' \in [Msgs -> SUBSET Conns]
    <3>1. CASE PassesOver(w, Decrement(ttl[at[w]]))
      <4>1. picked' = picked
        BY <1>2, <3>1 DEF Visit
      <4>2. skipped' = [skipped EXCEPT ![at[w]] = @ \cup {c}]
        BY <1>2, <3>1 DEF Visit
      <4>. QED BY <2>1, <4>1, <4>2 DEF TypeOK
    <3>2. CASE ~PassesOver(w, Decrement(ttl[at[w]]))
      BY <1>2, <3>2 DEF Visit, TypeOK
    <3>. QED BY <3>1, <3>2
  <2>. QED BY <1>2, <2>2, <2>3, <2>4 DEF Visit, TypeOK
<1>3. ASSUME NEW w \in Writers, Enqueue(w) PROVE TypeOK'
  <2>1. picked[w] \in Conns /\ at[w] \in Msgs
    BY <1>3 DEF Enqueue, WorkInv, TypeOK
  <2>2. sendChan' \in [Conns -> Seq(Msgs)]
    BY <1>3, <2>1 DEF Enqueue, TypeOK
  <2>3. picked' \in [Writers -> Conns \cup {NoConn}]
    BY <1>3 DEF Enqueue, TypeOK
  <2>. QED BY <1>3, <2>2, <2>3 DEF Enqueue, TypeOK
<1>4. ASSUME NEW w \in Writers, Finish(w) PROVE TypeOK'
  BY <1>4 DEF Finish, TypeOK
<1>5. ASSUME NEW c \in Conns, Receive(c) PROVE TypeOK'
  <2>1. sendChan[c] \in Seq(Msgs) /\ sendChan[c] # <<>>
    BY <1>5 DEF Receive, TypeOK
  <2>2. Head(sendChan[c]) \in Msgs /\ Tail(sendChan[c]) \in Seq(Msgs)
    BY <2>1
  <2>3. /\ sendChan' \in [Conns -> Seq(Msgs)]
        /\ holding' \in [Conns -> Msgs \cup {NoMsg}]
    BY <1>5, <2>2 DEF Receive, TypeOK
  <2>. QED BY <1>5, <2>3 DEF Receive, TypeOK
<1>6. ASSUME NEW c \in Conns, Transmit(c) PROVE TypeOK'
  <2>1. [msg |-> holding[c], ttl |-> ttl[holding[c]]] \in Frames
    BY <1>6 DEF Transmit, TypeOK, Frames
  <2>2. wire' \in [Conns -> Seq(Frames)]
    <3>. DEFINE f == [msg |-> holding[c], ttl |-> ttl[holding[c]]]
    <3>1. wire' = [wire EXCEPT ![c] = Append(@, f)] \/ wire' = wire
      BY <1>6 DEF Transmit
    <3>2. Append(wire[c], f) \in Seq(Frames)
      BY <2>1 DEF TypeOK
    <3>. HIDE DEF f
    <3>. QED BY <3>1, <3>2 DEF TypeOK
  <2>3. holding' \in [Conns -> Msgs \cup {NoMsg}]
    BY <1>6 DEF Transmit, TypeOK
  <2>. QED BY <1>6, <2>2, <2>3 DEF Transmit, TypeOK
<1>. QED BY <1>1, <1>2, <1>3, <1>4, <1>5, <1>6 DEF Next

LEMMA NextWorkInv == TypeOK /\ WorkInv /\ Next => WorkInv'
<1>. SUFFICES ASSUME TypeOK, WorkInv, Next PROVE WorkInv'
  OBVIOUS
<1>. USE ForwardingAssumption
<1>1. ASSUME NEW w \in Writers, NEW m \in Msgs, Take(w, m) PROVE WorkInv'
  BY <1>1 DEF Take, WorkInv, Targets, TypeOK
<1>2. ASSUME NEW w \in Writers, NEW c \in Conns, Visit(w, c) PROVE WorkInv'
  BY <1>2 DEF Visit, WorkInv, Targets, TypeOK
<1>3. ASSUME NEW w \in Writers, Enqueue(w) PROVE WorkInv'
  BY <1>3 DEF Enqueue, WorkInv, Targets, TypeOK
<1>4. ASSUME NEW w \in Writers, Finish(w) PROVE WorkInv'
  BY <1>4 DEF Finish, WorkInv, Targets, TypeOK
<1>5. ASSUME NEW c \in Conns, Receive(c) \/ Transmit(c) PROVE WorkInv'
  BY <1>5 DEF Receive, Transmit, WorkInv, Targets
<1>. QED BY <1>1, <1>2, <1>3, <1>4, <1>5 DEF Next

-----------------------------------------------------------------------------
(***************************************************************************)
(* The TTL, one message at a time.                                         *)
(***************************************************************************)
(* An action that leaves the TTL fields and the loops alone and puts no     *)
(* message into new hands.                                                  *)
LEMMA SameTTL ==
  ASSUME TTLInv, UNCHANGED <<origin, ttl, at, todo>>, waiting' \subseteq waiting,
         \A m \in Msgs : Handed(m)' => Handed(m)
  PROVE  TTLInv'
<1>. SUFFICES ASSUME NEW m \in Msgs PROVE TTLOf(m)'
  BY DEF TTLInv
<1>1. Targets(m)' = Targets(m)
  BY DEF Targets
<1>2. TTLOf(m) /\ (Handed(m)' => Handed(m))
  BY DEF TTLInv
<1>. QED BY <1>1, <1>2 DEF TTLOf

LEMMA TakeTTL ==
  ASSUME FwdInv, NEW w \in Writers, NEW n \in Msgs, Take(w, n)
  PROVE  TTLInv'
<1>. SUFFICES ASSUME NEW m \in Msgs PROVE TTLOf(m)'
  BY DEF TTLInv
<1>0. TTLOf(m) /\ TypeOK /\ WorkInv
  BY DEF FwdInv, TTLInv
<1>1. Targets(m)' = Targets(m) /\ ttl' = ttl /\ origin' = origin
  BY DEF Take, Targets
<1>2. Handed(m)' => Handed(m)
  BY <1>0 DEF Take, Handed, WorkInv, TypeOK
<1>3. \A v \in Writers : v # w => at'[v] = at[v] /\ todo'[v] = todo[v]
  BY <1>0 DEF Take, TypeOK
<1>4. at'[w] = m => m \in waiting /\ todo'[w] = Targets(m)
  BY <1>0, ForwardingAssumption DEF Take, TypeOK, Msgs
<1>5. Targets(m) \ Targets(m) = {} /\ Cardinality({}) = 0
  BY FS_EmptySet
<1>6. origin[m].ttl \in Nat
  BY <1>0 DEF TypeOK, Origins
<1>7. waiting' \subseteq waiting
  BY DEF Take
<1>8. origin[m].ttl > Cardinality(Targets(m)) =>
        \A v \in Writers :
          at'[v] = m => ttl[m] = origin[m].ttl - Cardinality(Targets(m) \ todo'[v])
  <2>. SUFFICES ASSUME origin[m].ttl > Cardinality(Targets(m)),
                       NEW v \in Writers, at'[v] = m
                PROVE  ttl[m] = origin[m].ttl - Cardinality(Targets(m) \ todo'[v])
    OBVIOUS
  <2>1. CASE v = w
    BY <1>0, <1>4, <1>5, <1>6, <2>1 DEF TTLOf
  <2>2. CASE v # w
    BY <1>0, <1>3, <2>2 DEF TTLOf
  <2>. QED BY <2>1, <2>2
<1>. QED BY <1>0, <1>1, <1>2, <1>7, <1>8 DEF TTLOf

LEMMA VisitTTL ==
  ASSUME FwdInv, NEW w \in Writers, NEW c \in Conns, Visit(w, c)
  PROVE  TTLInv'
<1>. SUFFICES ASSUME NEW m \in Msgs PROVE TTLOf(m)'
  BY DEF TTLInv
<1>0. TTLOf(m) /\ TypeOK /\ WorkInv
  BY DEF FwdInv, TTLInv
<1>1. Targets(m)' = Targets(m) /\ origin' = origin /\ at' = at
      /\ waiting' = waiting /\ sendChan' = sendChan /\ holding' = holding
  BY DEF Visit, Targets
<1>2. \A v \in Writers : v # w => todo'[v] = todo[v] /\ picked'[v] = picked[v]
  BY <1>0 DEF Visit, TypeOK
<1>5. ttl'[m] \in Nat /\ origin[m].ttl \in Nat
  <2>1. ttl'[m] \in {ttl[m], Decrement(ttl[m])}
    BY <1>0 DEF Visit, TypeOK
  <2>. QED BY <1>0, <2>1, DecrementType DEF TypeOK, Origins
<1>3. CASE at[w] # m
  <2>1. ttl'[m] = ttl[m]
    BY <1>0, <1>3 DEF Visit, TypeOK
  <2>2. Handed(m)' => Handed(m)
    BY <1>1, <1>2, <1>3 DEF Handed
  <2>3. \A v \in Writers : at[v] = m => todo'[v] = todo[v]
    BY <1>2, <1>3
  <2>. QED BY <1>0, <1>1, <2>1, <2>2, <2>3 DEF TTLOf
<1>4. CASE at[w] = m
  <2>. DEFINE in == origin[m].ttl
              n == Cardinality(Targets(m))
  <2>. SUFFICES ASSUME in > n
                PROVE  /\ in - n <= ttl'[m] /\ ttl'[m] < in
                       /\ m \notin waiting
                       /\ \A v \in Writers : at[v] = m =>
                            ttl'[m] = in - Cardinality(Targets(m) \ todo'[v])
    BY <1>0, <1>1, <1>5 DEF TTLOf
  <2>1. /\ m \notin waiting
        /\ todo[w] \in SUBSET Targets(m) /\ c \in todo[w]
    BY <1>0, <1>4, ForwardingAssumption DEF WorkInv, Visit, Msgs
  <2>2. \A v \in Writers : at[v] = m => v = w
    BY <1>0, <1>4, ForwardingAssumption DEF WorkInv, Work, Writers, Msgs
  <2>3. todo'[w] = todo[w] \ {c}
    BY <1>0 DEF Visit, TypeOK
  <2>. DEFINE k == Cardinality(Targets(m) \ todo[w])
  <2>4. /\ k \in Nat /\ n \in Nat /\ k + 1 <= n
        /\ Cardinality(Targets(m) \ todo'[w]) = k + 1
    <3>1. /\ k \in Nat
          /\ Cardinality(Targets(m) \ (todo[w] \ {c})) = k + 1
          /\ Cardinality(Targets(m) \ (todo[w] \ {c})) <= n
      BY <2>1, VisitCounts
    <3>. QED BY <2>3, <3>1, TargetsFinite
  <2>5. in \in Nat /\ ttl[m] = in - k /\ ttl[m] \in 0..(TTLMod - 1)
    BY <1>0, <1>4 DEF TTLOf, TypeOK, Origins
  <2>6. ttl'[m] = ttl[m] - 1
    <3>1. ttl'[m] = Decrement(ttl[m])
      BY <1>0, <1>4 DEF Visit, TypeOK
    <3>2. ttl[m] > 0
      <4>. HIDE DEF in, n, k
      <4>. QED BY <2>4, <2>5
    <3>. QED BY <2>5, <3>1, <3>2, DecrementPositive
  <2>. HIDE DEF in, n, k
  <2>7. in - n <= ttl'[m] /\ ttl'[m] < in /\ ttl'[m] = in - (k + 1)
    BY <2>4, <2>5, <2>6
  <2>. QED BY <2>1, <2>2, <2>4, <2>7
<1>. QED BY <1>3, <1>4

LEMMA NextTTLInv == FwdInv /\ Next => TTLInv'
<1>. SUFFICES ASSUME FwdInv, Next PROVE TTLInv'
  OBVIOUS
<1>. USE DEF FwdInv
<1>1. ASSUME NEW w \in Writers, NEW m \in Msgs, Take(w, m) PROVE TTLInv'
  BY <1>1, TakeTTL
<1>2. ASSUME NEW w \in Writers, NEW c \in Conns, Visit(w, c) PROVE TTLInv'
  BY <1>2, VisitTTL
<1>3. ASSUME NEW w \in Writers, Enqueue(w) PROVE TTLInv'
  <2>. SUFFICES ASSUME NEW m \in Msgs, Handed(m)' PROVE Handed(m)
    BY <1>3, SameTTL DEF Enqueue
  <2>1. picked[w] \in Conns /\ picked[w] # NoConn
    BY <1>3 DEF Enqueue, TypeOK
  <2>2. /\ sendChan' = [sendChan EXCEPT ![picked[w]] = Append(@, at[w])]
        /\ picked' = [picked EXCEPT ![w] = NoConn]
        /\ at' = at /\ holding' = holding
    BY <1>3 DEF Enqueue
  <2>3. CASE \E v \in Writers : at'[v] = m /\ picked'[v] # NoConn
    BY <2>2, <2>3 DEF Handed, TypeOK
  <2>4. ASSUME NEW d \in Conns, NEW i \in 1..Len(sendChan'[d]), sendChan'[d][i] = m
        PROVE  Handed(m)
    <3>1. CASE d = picked[w]
      <4>1. sendChan[d] \in Seq(Msgs) /\ sendChan'[d] = Append(sendChan[d], at[w])
        BY <2>2, <3>1 DEF TypeOK
      <4>2. \/ i \in 1..Len(sendChan[d]) /\ sendChan[d][i] = m
            \/ at[w] = m
        BY <2>4, <4>1
      <4>. QED BY <2>1, <4>2 DEF Handed
    <3>2. CASE d # picked[w]
      <4>1. sendChan'[d] = sendChan[d]
        BY <2>1, <2>2, <3>2 DEF TypeOK
      <4>. QED BY <2>4, <4>1 DEF Handed
    <3>. QED BY <3>1, <3>2
  <2>5. CASE \E d \in Conns : holding'[d] = m
    BY <2>2, <2>5 DEF Handed
  <2>. QED BY <2>3, <2>4, <2>5 DEF Handed
<1>4. ASSUME NEW w \in Writers, Finish(w) PROVE TTLInv'
  <2>. SUFFICES ASSUME NEW m \in Msgs PROVE TTLOf(m)'
    BY DEF TTLInv
  <2>1. TTLOf(m) /\ Targets(m)' = Targets(m)
    BY <1>4 DEF TTLInv, Finish, Targets
  <2>2. at' = [at EXCEPT ![w] = NoMsg]
        /\ UNCHANGED <<origin, ttl, waiting, todo, picked, sendChan, holding>>
    BY <1>4 DEF Finish
  <2>3. \A v \in Writers : at'[v] = m => at[v] = m
    BY <2>2, ForwardingAssumption DEF TypeOK, Msgs
  <2>4. Handed(m)' => Handed(m)
    BY <2>2, <2>3 DEF Handed
  <2>. QED BY <2>1, <2>2, <2>3, <2>4 DEF TTLOf
<1>5. ASSUME NEW c \in Conns, Receive(c) PROVE TTLInv'
  <2>. SUFFICES ASSUME NEW m \in Msgs, Handed(m)' PROVE Handed(m)
    BY <1>5, SameTTL DEF Receive
  <2>1. /\ sendChan' = [sendChan EXCEPT ![c] = Tail(@)]
        /\ holding' = [holding EXCEPT ![c] = Head(sendChan[c])]
        /\ at' = at /\ picked' = picked
        /\ sendChan[c] \in Seq(Msgs) /\ sendChan[c] # <<>>
    BY <1>5 DEF Receive, TypeOK
  <2>2. CASE \E v \in Writers : at'[v] = m /\ picked'[v] # NoConn
    BY <2>1, <2>2 DEF Handed
  <2>3. ASSUME NEW d \in Conns, NEW i \in 1..Len(sendChan'[d]), sendChan'[d][i] = m
        PROVE  Handed(m)
    <3>1. CASE d = c
      <4>1. sendChan'[c] = Tail(sendChan[c])
        BY <2>1 DEF TypeOK
      <4>2. i + 1 \in 1..Len(sendChan[c]) /\ sendChan[c][i + 1] = m
        <5>1. ASSUME NEW s \in Seq(Msgs), s # <<>>, NEW j \in 1..Len(Tail(s))
              PROVE  j + 1 \in 1..Len(s) /\ s[j + 1] = Tail(s)[j]
          BY <5>1
        <5>. QED BY <2>1, <2>3, <3>1, <4>1, <5>1
      <4>. QED BY <4>2 DEF Handed
    <3>2. CASE d # c
      <4>1. sendChan'[d] = sendChan[d]
        BY <2>1, <3>2 DEF TypeOK
      <4>. QED BY <2>3, <4>1 DEF Handed
    <3>. QED BY <3>1, <3>2
  <2>4. ASSUME NEW d \in Conns, holding'[d] = m PROVE Handed(m)
    <3>1. CASE d = c
      <4>1. sendChan[c][1] = m /\ 1 \in 1..Len(sendChan[c])
        BY <2>1, <2>4, <3>1 DEF TypeOK
      <4>. QED BY <4>1 DEF Handed
    <3>2. CASE d # c
      BY <2>1, <2>4, <3>2 DEF Handed, TypeOK
    <3>. QED BY <3>1, <3>2
  <2>. QED BY <2>2, <2>3, <2>4 DEF Handed
<1>6. ASSUME NEW c \in Conns, Transmit(c) PROVE TTLInv'
  <2>. SUFFICES ASSUME NEW m \in Msgs, Handed(m)' PROVE Handed(m)
    BY <1>6, SameTTL DEF Transmit
  <2>1. /\ holding' = [holding EXCEPT ![c] = NoMsg]
        /\ UNCHANGED <<at, picked, sendChan>>
    BY <1>6 DEF Transmit
  <2>2. \A d \in Conns : holding'[d] = m => holding[d] = m
    BY <2>1, ForwardingAssumption DEF TypeOK, Msgs
  <2>. QED BY <2>1, <2>2 DEF Handed
<1>. QED BY <1>1, <1>2, <1>3, <1>4, <1>5, <1>6 DEF Next

-----------------------------------------------------------------------------
(***************************************************************************)
(* What is written.                                                        *)
(***************************************************************************)
InWindow(f) ==
  LET in == origin[f.msg].ttl
      n == Cardinality(Targets(f.msg))
  IN  in > n => in - n <= f.ttl /\ f.ttl < in

LEMMA NextWireWindow == FwdInv /\ Next => WireTTLWindow'
<1>. SUFFICES ASSUME FwdInv, Next PROVE WireTTLWindow'
  OBVIOUS
<1>1. origin' = origin
  BY DEF Next, Take, Visit, Enqueue, Finish, Receive, Transmit
<1>2. SUFFICES ASSUME NEW d \in Conns, NEW i \in 1..Len(wire'[d])
               PROVE  InWindow(wire'[d][i])
  BY <1>1 DEF WireTTLWindow, InWindow, Targets
<1>3. \A j \in 1..Len(wire[d]) : InWindow(wire[d][j])
  BY DEF FwdInv, WireTTLWindow, InWindow
<1>4. CASE wire' = wire
  BY <1>3, <1>4
<1>5. ASSUME NEW c \in Conns, Transmit(c), wire' # wire
      PROVE  InWindow(wire'[d][i])
  <2>. DEFINE f == [msg |-> holding[c], ttl |-> ttl[holding[c]]]
  <2>1. holding[c] \in Msgs /\ Handed(holding[c])
    BY <1>5 DEF Transmit, FwdInv, TypeOK, Handed
  <2>2. InWindow(f)
    BY <2>1 DEF FwdInv, TTLInv, TTLOf, InWindow
  <2>3. wire' = [wire EXCEPT ![c] = Append(@, f)]
    BY <1>5 DEF Transmit
  <2>. HIDE DEF f
  <2>4. CASE d = c
    <3>1. wire[d] \in Seq(Frames) /\ wire'[d] = Append(wire[d], f)
      BY <2>3, <2>4 DEF FwdInv, TypeOK
    <3>2. \/ i \in 1..Len(wire[d]) /\ wire'[d][i] = wire[d][i]
          \/ wire'[d][i] = f
      BY <3>1
    <3>. QED BY <1>3, <2>2, <3>2
  <2>5. CASE d # c
    <3>1. wire'[d] = wire[d]
      BY <2>3, <2>5 DEF FwdInv, TypeOK
    <3>. QED BY <1>3, <3>1
  <2>. QED BY <2>4, <2>5
<1>6. (\E c \in Conns : Transmit(c)) \/ wire' = wire
  BY DEF Next, Take, Visit, Enqueue, Finish, Receive
<1>. QED BY <1>4, <1>5, <1>6

LEMMA NextFwdInv == FwdInv /\ [Next]_vars => FwdInv'
<1>1. ASSUME FwdInv, Next PROVE FwdInv'
  BY <1>1, NextTypeOK, NextWorkInv, NextTTLInv, NextWireWindow DEF FwdInv
<1>2. ASSUME FwdInv, UNCHANGED vars PROVE FwdInv'
  <2>. USE <1>2 DEF FwdInv, vars
  <2>1. TypeOK' /\ WorkInv'
    BY DEF TypeOK, WorkInv, Targets
  <2>2. TTLInv'
    BY SameTTL DEF Handed
  <2>3. WireTTLWindow'
    BY DEF WireTTLWindow, Targets
  <2>. QED BY <2>1, <2>2, <2>3
<1>. QED BY <1>1, <1>2
-----------------------------------------------------------------------------
(***************************************************************************)
(* The connection that is passed over.  After k connections the field has  *)
(* gone down by k, around zero if need be; it has been zero once if the    *)
(* TTL was in 1..k, and the forwarder has then passed over one connection. *)
(***************************************************************************)
SkippedAfter(m, k) ==
  IF m \in Relayed /\ Acceptable(m) /\ origin[m].ttl \in 1..k
  THEN \E c \in Conns : skipped[m] = {c}
  ELSE skipped[m] = {}

TTLAfter(m, k) ==
  ttl[m] = IF k <= origin[m].ttl THEN origin[m].ttl - k
           ELSE origin[m].ttl + TTLMod - k

Visited(w, m) == Cardinality(Targets(m) \ todo[w])

SkipOf(m) ==
  /\ m \in waiting => TTLAfter(m, 0) /\ skipped[m] = {}
  /\ \A w \in Writers :
       at[w] = m => /\ Acceptable(m)
                    /\ TTLAfter(m, Visited(w, m))
                    /\ SkippedAfter(m, Visited(w, m))
  /\ Served(m) => SkippedAfter(m, Cardinality(Targets(m)))

SkipInv == \A m \in Msgs : SkipOf(m)

LEMMA InitSkipInv == Init => SkipInv
<1>. SUFFICES ASSUME Init, NEW m \in Msgs PROVE SkipOf(m)
  BY DEF SkipInv
<1>1. ttl[m] = origin[m].ttl /\ origin[m].ttl \in Nat /\ skipped[m] = {}
  BY DEF Init, Origins
<1>2. m \in waiting /\ \A w \in Writers : at[w] # m
  BY ForwardingAssumption DEF Init, Msgs
<1>. QED BY <1>1, <1>2 DEF SkipOf, TTLAfter, Served

(* The field after one connection more. *)
LEMMA OneMoreVisited ==
  ASSUME NEW in \in 0..(TTLMod - 1), NEW k \in Nat, k + 1 < TTLMod,
         NEW t, t = IF k <= in THEN in - k ELSE in + TTLMod - k
  PROVE  /\ Decrement(t) = IF k + 1 <= in THEN in - (k + 1)
                           ELSE in + TTLMod - (k + 1)
         /\ Decrement(t) <= 0 <=> in = k + 1
<1>1. TTLMod \in Nat \ {0}
  BY ForwardingAssumption
<1>2. CASE k < in
  <2>1. t = in - k /\ t \in 0..(TTLMod - 1) /\ t > 0
    BY <1>1, <1>2
  <2>2. Decrement(t) = t - 1
    BY <2>1, DecrementPositive
  <2>. QED BY <1>1, <1>2, <2>1, <2>2
<1>3. CASE k > in
  <2>1. t = in + TTLMod - k /\ t \in 0..(TTLMod - 1) /\ t > 0
    BY <1>1, <1>3
  <2>2. Decrement(t) = t - 1
    BY <2>1, DecrementPositive
  <2>. QED BY <1>1, <1>3, <2>1, <2>2
<1>4. CASE k = in
  <2>1. t = 0
    BY <1>1, <1>4
  <2>2. Decrement(t) = (TTLMod - 1) % TTLMod
    BY <1>1, <2>1 DEF Decrement
  <2>3. ASSUME NEW M \in Nat \ {0} PROVE (M - 1) % M = M - 1
    OBVIOUS
  <2>4. Decrement(t) = TTLMod - 1
    BY <1>1, <2>2, <2>3
  <2>. QED BY <1>1, <1>4, <2>4
<1>. QED BY <1>1, <1>2, <1>3, <1>4

(* An action that leaves the TTLs, the loops and the skipped alone. *)
LEMMA SameSkip ==
  ASSUME SkipInv,
         UNCHANGED <<origin, ttl, waiting, at, todo, skipped>>
  PROVE  SkipInv'
<1>. SUFFICES ASSUME NEW m \in Msgs PROVE SkipOf(m)'
  BY DEF SkipInv
<1>1. SkipOf(m) /\ Targets(m)' = Targets(m) /\ Acceptable(m)' = Acceptable(m)
  BY DEF SkipInv, Targets, Acceptable
<1>2. \A k : /\ SkippedAfter(m, k)' <=> SkippedAfter(m, k)
             /\ TTLAfter(m, k)' <=> TTLAfter(m, k)
  BY <1>1 DEF SkippedAfter, TTLAfter
<1>3. \A w : Visited(w, m)' = Visited(w, m)
  BY <1>1 DEF Visited
<1>4. Served(m)' <=> Served(m)
  BY DEF Served
<1>. QED BY <1>1, <1>2, <1>3, <1>4 DEF SkipOf

LEMMA TakeSkip ==
  ASSUME FwdInv, SkipInv, NEW w \in Writers, NEW n \in Msgs, Take(w, n)
  PROVE  SkipInv'
<1>. SUFFICES ASSUME NEW m \in Msgs PROVE SkipOf(m)'
  BY DEF SkipInv
<1>0. SkipOf(m) /\ TypeOK /\ WorkInv
  BY DEF FwdInv, SkipInv
<1>1. /\ UNCHANGED <<origin, ttl, skipped>>
      /\ Targets(m)' = Targets(m) /\ Acceptable(m)' = Acceptable(m)
      /\ waiting' = waiting \ {n} /\ n \in waiting
  BY DEF Take, Targets, Acceptable
<1>2. \A v \in Writers : v # w => at'[v] = at[v] /\ todo'[v] = todo[v]
  BY <1>0 DEF Take, TypeOK
<1>3. \A k : /\ SkippedAfter(m, k)' <=> SkippedAfter(m, k)
             /\ TTLAfter(m, k)' <=> TTLAfter(m, k)
  BY <1>1 DEF SkippedAfter, TTLAfter
<1>4. origin[m].ttl \in Nat
  BY <1>0 DEF TypeOK, Origins
<1>5. CASE m = n /\ Acceptable(m)
  <2>1. at'[w] = m /\ todo'[w] = Targets(m)
    BY <1>0, <1>5 DEF Take, TypeOK
  <2>2. \A v \in Writers : v # w => at'[v] # m
    BY <1>0, <1>1, <1>2, <1>5, ForwardingAssumption DEF WorkInv, Msgs
  <2>3. Visited(w, m)' = 0
    BY <1>1, <2>1, FS_EmptySet DEF Visited
  <2>4. TTLAfter(m, 0) /\ skipped[m] = {}
    BY <1>0, <1>1, <1>5 DEF SkipOf
  <2>5. SkippedAfter(m, 0)
    BY <1>4, <2>4 DEF SkippedAfter
  <2>6. m \notin waiting' /\ ~Served(m)'
    BY <1>1, <1>5, <2>1 DEF Served
  <2>. QED BY <1>1, <1>3, <1>5, <2>1, <2>2, <2>3, <2>4, <2>5, <2>6 DEF SkipOf
<1>6. CASE m = n /\ ~Acceptable(m)
  <2>1. at' = at /\ todo' = todo
    BY <1>6 DEF Take
  <2>2. \A v \in Writers : at[v] # m
    BY <1>0, <1>6 DEF SkipOf
  <2>3. skipped[m] = {}
    BY <1>0, <1>1, <1>6 DEF SkipOf
  <2>4. \A k : SkippedAfter(m, k)
    BY <1>6, <2>3 DEF SkippedAfter
  <2>. QED BY <1>1, <1>3, <1>6, <2>1, <2>2, <2>4 DEF SkipOf
<1>7. CASE m # n
  <2>1. \A v \in Writers : /\ at'[v] = m <=> at[v] = m
                           /\ at[v] = m => Visited(v, m)' = Visited(v, m)
    <3>1. at[w] = NoMsg /\ at'[w] \in {n, NoMsg} /\ m # NoMsg
      BY <1>0, ForwardingAssumption DEF Take, TypeOK, Msgs
    <3>. QED BY <1>1, <1>2, <1>7, <3>1 DEF Visited
  <2>2. (m \in waiting' <=> m \in waiting) /\ (Served(m)' <=> Served(m))
    BY <1>1, <1>7, <2>1 DEF Served
  <2>. QED BY <1>0, <1>1, <1>3, <2>1, <2>2 DEF SkipOf
<1>. QED BY <1>5, <1>6, <1>7

LEMMA VisitSkip ==
  ASSUME FwdInv, SkipInv, NEW w \in Writers, NEW c \in Conns, Visit(w, c)
  PROVE  SkipInv'
<1>. SUFFICES ASSUME NEW m \in Msgs PROVE SkipOf(m)'
  BY DEF SkipInv
<1>0. SkipOf(m) /\ TypeOK /\ WorkInv
  BY DEF FwdInv, SkipInv
<1>1. /\ UNCHANGED <<origin, waiting, at>>
      /\ Targets(m)' = Targets(m) /\ Acceptable(m)' = Acceptable(m)
      /\ Served(m)' = Served(m)
  BY DEF Visit, Targets, Acceptable, Served
<1>2. \A v \in Writers : v # w => todo'[v] = todo[v]
  BY <1>0 DEF Visit, TypeOK
<1>3. CASE at[w] # m
  <2>1. ttl'[m] = ttl[m] /\ skipped'[m] = skipped[m]
    BY <1>0, <1>3 DEF Visit, TypeOK
  <2>2. \A k : /\ SkippedAfter(m, k)' <=> SkippedAfter(m, k)
               /\ TTLAfter(m, k)' <=> TTLAfter(m, k)
    BY <1>1, <2>1 DEF SkippedAfter, TTLAfter
  <2>3. \A v \in Writers : at[v] = m => Visited(v, m)' = Visited(v, m)
    BY <1>1, <1>2, <1>3 DEF Visited
  <2>. QED BY <1>0, <1>1, <2>1, <2>2, <2>3 DEF SkipOf
<1>4. CASE at[w] = m
  <2>. DEFINE in == origin[m].ttl
              t == Decrement(ttl[m])
  <2>1. /\ m \notin waiting /\ ~Served(m) /\ Acceptable(m)
        /\ todo[w] \in SUBSET Targets(m) /\ c \in todo[w]
    BY <1>0, <1>4, ForwardingAssumption
       DEF WorkInv, Visit, Msgs, Served, SkipOf
  <2>2. \A v \in Writers : at[v] = m => v = w
    BY <1>0, <1>4, ForwardingAssumption DEF WorkInv, Work, Writers, Msgs
  <2>3. todo'[w] = todo[w] \ {c}
    BY <1>0 DEF Visit, TypeOK
  <2>4. PICK k \in Nat : k = Visited(w, m)
    BY <2>1, VisitCounts DEF Visited
  <2>5. k + 1 < TTLMod /\ Visited(w, m)' = k + 1
    <3>1. /\ Cardinality(Targets(m) \ (todo[w] \ {c})) = k + 1
          /\ k + 1 <= Cardinality(Targets(m))
      BY <2>1, <2>4, VisitCounts DEF Visited
    <3>2. Cardinality(Targets(m)) <= Cardinality(Conns)
      BY ForwardingAssumption, TargetsFinite, FS_Subset
    <3>3. Cardinality(Conns) \in Nat /\ Cardinality(Conns) < TTLMod
      BY ForwardingAssumption, FS_CardinalityType
    <3>4. TTLMod \in Nat /\ Cardinality(Targets(m)) \in Nat
      BY ForwardingAssumption, TargetsFinite
    <3>5. Visited(w, m)' = k + 1
      BY <1>1, <2>3, <3>1 DEF Visited
    <3>. QED BY <3>1, <3>2, <3>3, <3>4, <3>5
  <2>6. in \in 0..(TTLMod - 1) /\ TTLAfter(m, k) /\ SkippedAfter(m, k)
    BY <1>0, <1>4, <2>4 DEF SkipOf, TypeOK, Origins
  <2>7. /\ t = IF k + 1 <= in THEN in - (k + 1) ELSE in + TTLMod - (k + 1)
        /\ t <= 0 <=> in = k + 1
    <3>1. ttl[m] = IF k <= in THEN in - k ELSE in + TTLMod - k
      BY <2>6 DEF TTLAfter
    <3>. HIDE DEF in
    <3>. QED BY <2>5, <2>6, <3>1, OneMoreVisited
  <2>8. ttl'[m] = t
    BY <1>0, <1>4 DEF Visit, TypeOK
  <2>9. TTLAfter(m, k + 1)'
    BY <1>1, <2>7, <2>8 DEF TTLAfter
  <2>10. SkippedAfter(m, k + 1)'
    <3>1. PassesOver(w, t) <=> m \in Relayed /\ in = k + 1
      BY <1>0, <1>4, <2>7, ForwardingAssumption
         DEF PassesOver, WorkInv, Work, Writers, Msgs
    <3>2. skipped'[m] = IF PassesOver(w, t) THEN skipped[m] \cup {c} ELSE skipped[m]
      BY <1>0, <1>4 DEF Visit, TypeOK
    <3>3. in \in 1..(k + 1) <=> in \in 1..k \/ in = k + 1
      BY <2>5, <2>6
    <3>4. ~(in \in 1..k /\ in = k + 1)
      BY <2>5, <2>6
    <3>. HIDE DEF in, t
    <3>5. IF m \in Relayed /\ in \in 1..k THEN \E d \in Conns : skipped[m] = {d}
          ELSE skipped[m] = {}
      BY <2>1, <2>6 DEF SkippedAfter, in
    <3>6. IF m \in Relayed /\ in \in 1..(k + 1)
          THEN \E d \in Conns : skipped'[m] = {d} ELSE skipped'[m] = {}
      BY <3>1, <3>2, <3>3, <3>4, <3>5
    <3>. QED BY <1>1, <2>1, <3>6 DEF SkippedAfter, in
  <2>. HIDE DEF in, t
  <2>. QED BY <1>1, <2>1, <2>2, <2>5, <2>9, <2>10 DEF SkipOf
<1>. QED BY <1>3, <1>4

LEMMA FinishSkip ==
  ASSUME FwdInv, SkipInv, NEW w \in Writers, Finish(w)
  PROVE  SkipInv'
<1>. SUFFICES ASSUME NEW m \in Msgs PROVE SkipOf(m)'
  BY DEF SkipInv
<1>0. SkipOf(m) /\ TypeOK /\ WorkInv
  BY DEF FwdInv, SkipInv
<1>1. /\ UNCHANGED <<origin, ttl, waiting, todo, skipped>>
      /\ Targets(m)' = Targets(m) /\ Acceptable(m)' = Acceptable(m)
      /\ at' = [at EXCEPT ![w] = NoMsg] /\ todo[w] = {}
  BY DEF Finish, Targets, Acceptable
<1>2. \A k : /\ SkippedAfter(m, k)' <=> SkippedAfter(m, k)
             /\ TTLAfter(m, k)' <=> TTLAfter(m, k)
  BY <1>1 DEF SkippedAfter, TTLAfter
<1>3. \A v \in Writers : /\ at'[v] = m => at[v] = m
                         /\ Visited(v, m)' = Visited(v, m)
  BY <1>0, <1>1, ForwardingAssumption DEF TypeOK, Msgs, Visited
<1>4. Served(m)' => SkippedAfter(m, Cardinality(Targets(m)))
  <2>1. CASE at[w] = m
    <3>1. Visited(w, m) = Cardinality(Targets(m))
      <4>1. Targets(m) \ {} = Targets(m)
        OBVIOUS
      <4>. QED BY <1>1, <4>1 DEF Visited
    <3>. QED BY <1>0, <2>1, <3>1 DEF SkipOf
  <2>2. CASE at[w] # m
    <3>1. Served(m)' => Served(m)
      BY <1>0, <1>1, <2>2 DEF Served, TypeOK
    <3>. QED BY <1>0, <3>1 DEF SkipOf
  <2>. QED BY <2>1, <2>2
<1>. QED BY <1>0, <1>1, <1>2, <1>3, <1>4 DEF SkipOf

LEMMA NextSkipInv == FwdInv /\ SkipInv /\ [Next]_vars => SkipInv'
<1>. SUFFICES ASSUME FwdInv, SkipInv, [Next]_vars PROVE SkipInv'
  OBVIOUS
<1>1. ASSUME NEW w \in Writers, NEW m \in Msgs, Take(w, m) PROVE SkipInv'
  BY <1>1, TakeSkip
<1>2. ASSUME NEW w \in Writers, NEW c \in Conns, Visit(w, c) PROVE SkipInv'
  BY <1>2, VisitSkip
<1>3. ASSUME NEW w \in Writers, Enqueue(w) PROVE SkipInv'
  BY <1>3, SameSkip DEF Enqueue
<1>4. ASSUME NEW w \in Writers, Finish(w) PROVE SkipInv'
  BY <1>4, FinishSkip
<1>5. ASSUME NEW c \in Conns, Receive(c) \/ Transmit(c) PROVE SkipInv'
  BY <1>5, SameSkip DEF Receive, Transmit
<1>6. CASE UNCHANGED vars
  BY <1>6, SameSkip DEF vars
<1>. QED BY <1>1, <1>2, <1>3, <1>4, <1>5, <1>6 DEF Next
-----------------------------------------------------------------------------
(***************************************************************************)
(* One copy per connection.  A message that is in a channel, with a sender *)
(* or written is there once, and no writer will send it there again: the   *)
(* connection is no longer to do nor picked.                               *)
(***************************************************************************)
Occurs(s, m) == \E i \in 1..Len(s) : s[i] = m
Single(s, m) == \A i, j \in 1..Len(s) : s[i] = m /\ s[j] = m => i = j

Written(c, m) == \E i \in 1..Len(wire[c]) : wire[c][i].msg = m
WrittenOnce(c, m) ==
  \A i, j \in 1..Len(wire[c]) :
    wire[c][i].msg = m /\ wire[c][j].msg = m => i = j

Reached(c, m) ==
  /\ m \notin waiting
  /\ origin[m].private
  /\ c \in Targets(m)
  /\ \A w \in Writers : at[w] = m => c \notin todo[w] /\ picked[w] # c

OnceOn(c, m) ==
  /\ Single(sendChan[c], m) /\ WrittenOnce(c, m)
  /\ ~(Occurs(sendChan[c], m) /\ holding[c] = m)
  /\ ~(Occurs(sendChan[c], m) /\ Written(c, m))
  /\ ~(holding[c] = m /\ Written(c, m))
  /\ Occurs(sendChan[c], m) \/ holding[c] = m \/ Written(c, m) => Reached(c, m)

PickInv ==
  \A w \in Writers :
    picked[w] # NoConn => picked[w] \in Targets(at[w]) \ todo[w]

OnceInv == PickInv /\ \A c \in Conns, m \in Msgs : OnceOn(c, m)

LEMMA AppendOnce ==
  ASSUME NEW S, NEW s \in Seq(S), NEW e \in S, NEW m
  PROVE  /\ Occurs(Append(s, e), m) <=> Occurs(s, m) \/ e = m
         /\ Single(s, m) /\ ~(Occurs(s, m) /\ e = m) => Single(Append(s, e), m)
<1>1. /\ Len(Append(s, e)) = Len(s) + 1 /\ Len(s) \in Nat
      /\ Append(s, e)[Len(s) + 1] = e
      /\ \A i \in 1..Len(s) : Append(s, e)[i] = s[i]
  OBVIOUS
<1>2. \A i \in 1..(Len(s) + 1) : i \in 1..Len(s) \/ i = Len(s) + 1
  BY <1>1
<1>3. /\ Len(s) + 1 \in 1..(Len(s) + 1)
      /\ \A i \in 1..Len(s) : i \in 1..(Len(s) + 1)
  BY <1>1
<1>. QED BY <1>1, <1>2, <1>3 DEF Occurs, Single

LEMMA TailOnce ==
  ASSUME NEW S, NEW s \in Seq(S), s # <<>>, NEW m, Single(s, m)
  PROVE  /\ Occurs(Tail(s), m) => Occurs(s, m) /\ Head(s) # m
         /\ Head(s) = m => Occurs(s, m)
         /\ Single(Tail(s), m)
<1>1. /\ Len(s) \in Nat \ {0} /\ Len(Tail(s)) = Len(s) - 1 /\ Head(s) = s[1]
      /\ \A i \in 1..Len(Tail(s)) : Tail(s)[i] = s[i + 1]
  OBVIOUS
<1>2. \A i \in 1..Len(Tail(s)) : i + 1 \in 1..Len(s) /\ i + 1 # 1
  BY <1>1
<1>3. 1 \in 1..Len(s)
  BY <1>1
<1>4. \A i, j \in 1..Len(Tail(s)) : i + 1 = j + 1 => i = j
  BY <1>1
<1>. QED BY <1>1, <1>2, <1>3, <1>4 DEF Occurs, Single

LEMMA InitOnceInv == Init => OnceInv
<1>. SUFFICES ASSUME Init PROVE OnceInv
  OBVIOUS
<1>1. PickInv
  BY DEF Init, PickInv
<1>2. ASSUME NEW c \in Conns, NEW m \in Msgs PROVE OnceOn(c, m)
  <2>1. sendChan[c] = <<>> /\ wire[c] = <<>> /\ holding[c] # m
    BY ForwardingAssumption DEF Init, Msgs
  <2>. QED BY <2>1
           DEF OnceOn, Occurs, Single, Written, WrittenOnce
<1>. QED BY <1>1, <1>2 DEF OnceInv

(* An action of a writer that leaves the channels alone. *)
LEMMA SameCopies ==
  ASSUME OnceInv, UNCHANGED <<sendChan, holding, wire>>,
         \A c \in Conns, m \in Msgs : Reached(c, m) => Reached(c, m)'
  PROVE  \A c \in Conns, m \in Msgs : OnceOn(c, m)'
BY DEF OnceInv, OnceOn, Occurs, Single, Written, WrittenOnce

LEMMA EnqueueOnce ==
  ASSUME FwdInv, SkipInv, OnceInv, NEW w \in Writers, Enqueue(w)
  PROVE  OnceInv'
<1>0. TypeOK /\ WorkInv
  BY DEF FwdInv
<1>1. /\ picked' = [picked EXCEPT ![w] = NoConn]
      /\ sendChan' = [sendChan EXCEPT ![picked[w]] = Append(@, at[w])]
      /\ UNCHANGED <<origin, waiting, at, todo, holding, wire>>
  BY DEF Enqueue
<1>2. /\ picked[w] \in Conns /\ at[w] \in Msgs \ waiting
      /\ picked[w] \in Targets(at[w]) \ todo[w]
  BY <1>0 DEF Enqueue, OnceInv, PickInv, TypeOK, WorkInv
<1>3. Acceptable(at[w])
  BY <1>2 DEF SkipInv, SkipOf
<1>4. \A v \in Writers : at[v] = at[w] => v = w
  BY <1>0, <1>2, ForwardingAssumption DEF WorkInv, Work, Writers, Msgs
<1>5. \A m \in Msgs : Targets(m)' = Targets(m)
  BY <1>1 DEF Targets
<1>6. PickInv'
  <2>. SUFFICES ASSUME NEW v \in Writers, picked'[v] # NoConn
                PROVE  (picked[v] \in Targets(at[v]) \ todo[v])'
    BY DEF PickInv
  <2>1. v # w /\ picked'[v] = picked[v]
    BY <1>0, <1>1 DEF TypeOK
  <2>2. picked[v] \in Targets(at[v]) \ todo[v]
    BY <2>1 DEF OnceInv, PickInv
  <2>. QED BY <1>1, <2>1, <2>2 DEF Targets
<1>7. ASSUME NEW c \in Conns, NEW m \in Msgs PROVE OnceOn(c, m)'
  <2>0. OnceOn(c, m)
    BY DEF OnceInv
  <2>1. /\ Written(c, m)' <=> Written(c, m)
        /\ WrittenOnce(c, m)' <=> WrittenOnce(c, m)
        /\ holding' = holding
    BY <1>1 DEF Written, WrittenOnce
  <2>2. Reached(c, m) => Reached(c, m)'
    <3>1. \A v \in Writers : picked'[v] = c => picked[v] = c
      BY <1>0, <1>1, ForwardingAssumption DEF TypeOK
    <3>. QED BY <1>1, <1>5, <3>1 DEF Reached
  <2>3. CASE c = picked[w]
    <3>1. sendChan[c] \in Seq(Msgs) /\ sendChan'[c] = Append(sendChan[c], at[w])
      BY <1>0, <1>1, <2>3 DEF TypeOK
    <3>2. /\ Occurs(sendChan'[c], m) <=> Occurs(sendChan[c], m) \/ at[w] = m
          /\ Single(sendChan[c], m) /\ ~(Occurs(sendChan[c], m) /\ at[w] = m)
               => Single(sendChan'[c], m)
      BY <1>2, <3>1, AppendOnce
    <3>3. CASE at[w] = m
      <4>1. ~Reached(c, m)
        BY <2>3, <3>3 DEF Reached
      <4>2. /\ ~Occurs(sendChan[c], m) /\ holding[c] # m /\ ~Written(c, m)
            /\ Single(sendChan[c], m) /\ WrittenOnce(c, m)
        BY <2>0, <4>1 DEF OnceOn
      <4>3. Reached(c, m)'
        <5>1. \A v \in Writers : at'[v] = m =>
                c \notin todo'[v] /\ picked'[v] # c
          BY <1>0, <1>1, <1>2, <1>4, <2>3, <3>3, ForwardingAssumption
             DEF TypeOK
        <5>. QED BY <1>1, <1>2, <1>3, <1>5, <2>3, <3>3, <5>1
                 DEF Reached, Acceptable
      <4>. QED BY <2>1, <3>2, <4>2, <4>3 DEF OnceOn
    <3>4. CASE at[w] # m
      BY <2>0, <2>1, <2>2, <3>2, <3>4 DEF OnceOn
    <3>. QED BY <3>3, <3>4
  <2>4. CASE c # picked[w]
    <3>1. sendChan'[c] = sendChan[c]
      BY <1>0, <1>1, <1>2, <2>4 DEF TypeOK
    <3>. QED BY <2>0, <2>1, <2>2, <3>1 DEF OnceOn
  <2>. QED BY <2>3, <2>4
<1>. QED BY <1>6, <1>7 DEF OnceInv

LEMMA ReceiveOnce ==
  ASSUME FwdInv, OnceInv, NEW d \in Conns, Receive(d)
  PROVE  OnceInv'
<1>0. TypeOK
  BY DEF FwdInv
<1>1. /\ sendChan' = [sendChan EXCEPT ![d] = Tail(@)]
      /\ holding' = [holding EXCEPT ![d] = Head(sendChan[d])]
      /\ holding[d] = NoMsg /\ sendChan[d] # <<>>
      /\ UNCHANGED <<origin, waiting, at, todo, picked, wire>>
  BY DEF Receive
<1>2. PickInv'
  BY <1>1 DEF OnceInv, PickInv, Targets
<1>3. ASSUME NEW c \in Conns, NEW m \in Msgs PROVE OnceOn(c, m)'
  <2>0. OnceOn(c, m)
    BY DEF OnceInv
  <2>1. /\ Written(c, m)' <=> Written(c, m)
        /\ WrittenOnce(c, m)' <=> WrittenOnce(c, m)
        /\ Reached(c, m)' <=> Reached(c, m)
    BY <1>1 DEF Written, WrittenOnce, Reached, Targets
  <2>2. CASE c = d
    <3>1. /\ sendChan[c] \in Seq(Msgs) /\ sendChan[c] # <<>>
          /\ sendChan'[c] = Tail(sendChan[c])
          /\ holding'[c] = Head(sendChan[c])
      BY <1>0, <1>1, <2>2 DEF TypeOK
    <3>2. Single(sendChan[c], m)
      BY <2>0 DEF OnceOn
    <3>3. /\ Occurs(sendChan'[c], m) =>
               Occurs(sendChan[c], m) /\ holding'[c] # m
          /\ holding'[c] = m => Occurs(sendChan[c], m)
          /\ Single(sendChan'[c], m)
      BY <3>1, <3>2, TailOnce
    <3>. QED BY <2>0, <2>1, <3>3 DEF OnceOn
  <2>3. CASE c # d
    <3>1. sendChan'[c] = sendChan[c] /\ holding'[c] = holding[c]
      BY <1>0, <1>1, <2>3 DEF TypeOK
    <3>. QED BY <2>0, <2>1, <3>1 DEF OnceOn
  <2>. QED BY <2>2, <2>3
<1>. QED BY <1>2, <1>3 DEF OnceInv

LEMMA TransmitOnce ==
  ASSUME FwdInv, OnceInv, NEW d \in Conns, Transmit(d)
  PROVE  OnceInv'
<1>0. TypeOK
  BY DEF FwdInv
<1>1. /\ holding' = [holding EXCEPT ![d] = NoMsg] /\ holding[d] \in Msgs
      /\ UNCHANGED <<origin, waiting, at, todo, picked, sendChan>>
  BY <1>0 DEF Transmit, TypeOK
<1>2. PickInv'
  BY <1>1 DEF OnceInv, PickInv, Targets
<1>3. ASSUME NEW c \in Conns, NEW m \in Msgs PROVE OnceOn(c, m)'
  <2>0. OnceOn(c, m)
    BY DEF OnceInv
  <2>1. /\ sendChan'[c] = sendChan[c]
        /\ Reached(c, m)' <=> Reached(c, m)
    BY <1>1 DEF Reached, Targets
  <2>2. c = d => holding'[c] # m
    BY <1>0, <1>1, ForwardingAssumption DEF TypeOK, Msgs
  <2>3. c # d => holding'[c] = holding[c]
    BY <1>0, <1>1 DEF TypeOK
  <2>4. CASE wire'[c] = wire[c]
    <3>1. /\ Written(c, m)' <=> Written(c, m)
          /\ WrittenOnce(c, m)' <=> WrittenOnce(c, m)
      BY <2>4 DEF Written, WrittenOnce
    <3>. QED BY <2>0, <2>1, <2>2, <2>3, <3>1 DEF OnceOn
  <2>5. CASE wire'[c] # wire[c]
    <3>. DEFINE f == [msg |-> holding[c], ttl |-> ttl[holding[c]]]
    <3>1. /\ c = d /\ wire'[c] = Append(wire[c], f)
          /\ wire[c] \in Seq(Frames) /\ f.msg = holding[c]
      BY <1>0, <2>5 DEF Transmit, TypeOK
    <3>. HIDE DEF f
    <3>2. /\ Len(wire'[c]) = Len(wire[c]) + 1 /\ Len(wire[c]) \in Nat
          /\ wire'[c][Len(wire[c]) + 1] = f
          /\ \A i \in 1..Len(wire[c]) : wire'[c][i] = wire[c][i]
      BY <3>1
    <3>3. \A i \in 1..(Len(wire[c]) + 1) :
            i \in 1..Len(wire[c]) \/ i = Len(wire[c]) + 1
      BY <3>2
    <3>4. /\ Written(c, m)' => Written(c, m) \/ holding[c] = m
          /\ WrittenOnce(c, m) /\ ~(Written(c, m) /\ holding[c] = m)
               => WrittenOnce(c, m)'
      BY <3>1, <3>2, <3>3 DEF Written, WrittenOnce
    <3>. QED BY <2>0, <2>1, <2>2, <3>1, <3>4 DEF OnceOn
  <2>. QED BY <2>4, <2>5
<1>. QED BY <1>2, <1>3 DEF OnceInv

LEMMA NextOnceInv == FwdInv /\ SkipInv /\ OnceInv /\ [Next]_vars => OnceInv'
<1>. SUFFICES ASSUME FwdInv, SkipInv, OnceInv, [Next]_vars PROVE OnceInv'
  OBVIOUS
<1>0. TypeOK /\ WorkInv
  BY DEF FwdInv
<1>1. ASSUME NEW w \in Writers, NEW n \in Msgs, Take(w, n) PROVE OnceInv'
  <2>1. /\ UNCHANGED <<origin, picked, sendChan, holding, wire>>
        /\ waiting' \subseteq waiting /\ n \in waiting
        /\ picked[w] = NoConn /\ at'[w] \in {n, NoMsg}
    BY <1>0, <1>1 DEF Take, WorkInv, TypeOK
  <2>2. \A v \in Writers : v # w => at'[v] = at[v] /\ todo'[v] = todo[v]
    BY <1>0, <1>1 DEF Take, TypeOK
  <2>3. PickInv'
    BY <2>1, <2>2 DEF OnceInv, PickInv, Targets
  <2>4. ASSUME NEW c \in Conns, NEW m \in Msgs, Reached(c, m)
        PROVE  Reached(c, m)'
    <3>1. at'[w] # m
      BY <2>1, <2>4, ForwardingAssumption DEF Reached, Msgs
    <3>. QED BY <2>1, <2>2, <2>4, <3>1 DEF Reached, Targets
  <2>. QED BY <2>1, <2>3, <2>4, SameCopies DEF OnceInv
<1>2. ASSUME NEW w \in Writers, NEW d \in Conns, Visit(w, d) PROVE OnceInv'
  <2>1. /\ UNCHANGED <<origin, waiting, at, sendChan, holding, wire>>
        /\ todo' = [todo EXCEPT ![w] = @ \ {d}]
        /\ d \in todo[w] /\ at[w] # NoMsg /\ picked[w] = NoConn
        /\ picked' = picked \/ picked' = [picked EXCEPT ![w] = d]
    BY <1>2 DEF Visit
  <2>2. /\ \A v \in Writers : v # w => picked'[v] = picked[v] /\ todo'[v] = todo[v]
        /\ picked'[w] \in {NoConn, d} /\ todo'[w] = todo[w] \ {d}
    BY <1>0, <2>1 DEF TypeOK
  <2>3. d \in Targets(at[w])
    BY <1>0, <2>1 DEF WorkInv
  <2>4. PickInv'
    BY <2>1, <2>2, <2>3 DEF OnceInv, PickInv, Targets
  <2>5. ASSUME NEW c \in Conns, NEW m \in Msgs, Reached(c, m)
        PROVE  Reached(c, m)'
    BY <2>1, <2>2, <2>5, ForwardingAssumption DEF Reached, Targets
  <2>. QED BY <2>1, <2>4, <2>5, SameCopies DEF OnceInv
<1>3. ASSUME NEW w \in Writers, Enqueue(w) PROVE OnceInv'
  BY <1>3, EnqueueOnce
<1>4. ASSUME NEW w \in Writers, Finish(w) PROVE OnceInv'
  <2>1. /\ UNCHANGED <<origin, waiting, todo, picked, sendChan, holding, wire>>
        /\ at' = [at EXCEPT ![w] = NoMsg] /\ picked[w] = NoConn
    BY <1>4 DEF Finish
  <2>2. at'[w] = NoMsg /\ \A v \in Writers : v # w => at'[v] = at[v]
    BY <1>0, <2>1 DEF TypeOK
  <2>3. PickInv'
    BY <2>1, <2>2 DEF OnceInv, PickInv, Targets
  <2>4. ASSUME NEW c \in Conns, NEW m \in Msgs, Reached(c, m)
        PROVE  Reached(c, m)'
    BY <2>1, <2>2, <2>4, ForwardingAssumption DEF Reached, Targets, Msgs
  <2>. QED BY <2>1, <2>3, <2>4, SameCopies DEF OnceInv
<1>5. ASSUME NEW c \in Conns, Receive(c) PROVE OnceInv'
  BY <1>5, ReceiveOnce
<1>6. ASSUME NEW c \in Conns, Transmit(c) PROVE OnceInv'
  BY <1>6, TransmitOnce
<1>7. CASE UNCHANGED vars
  <2>1. PickInv'
    BY <1>7 DEF vars, OnceInv, PickInv, Targets
  <2>2. \A c \in Conns, m \in Msgs : Reached(c, m) => Reached(c, m)'
    BY <1>7 DEF vars, Reached, Targets
  <2>. QED BY <1>7, <2>1, <2>2, SameCopies DEF vars, OnceInv
<1>. QED BY <1>1, <1>2, <1>3, <1>4, <1>5, <1>6, <1>7 DEF Next
-----------------------------------------------------------------------------
(***************************************************************************)
(* One hop is one turn.  At any time what was done with a message is a     *)
(* turn over the connections visited so far, and the field has gone down   *)
(* once for each of them.  The next connection comes last in the order; a  *)
(* copy is as late as there are connections visited when it is marshalled. *)
(***************************************************************************)
Passed(m) ==
  IF m \in waiting \/ ~Acceptable(m) THEN {}
  ELSE {c \in Targets(m) : \A w \in Writers : at[w] = m => c \notin todo[w]}

OnItsWay(c, m) ==
  \/ \E w \in Writers : at[w] = m /\ picked[w] = c
  \/ Occurs(sendChan[c], m)
  \/ holding[c] = m

IsTurn(m, out) ==
  \E pos \in Orders(out) :
    \E late \in Delays(out, pos) : TurnOver(m, out, pos, late)

TurnOf(m) ==
  /\ ttl[m] = Lowered(origin[m].ttl, Cardinality(Passed(m)))
  /\ \A c \in Conns : OnItsWay(c, m) => c \in Passed(m) \ skipped[m]
  /\ IsTurn(m, Passed(m))

TurnInv == \A m \in Msgs : TurnOf(m)

LEMMA LoweredIs ==
  ASSUME NEW in \in 0..(TTLMod - 1), NEW k \in Nat, k < TTLMod
  PROVE  Lowered(in, k) = IF k <= in THEN in - k ELSE in + TTLMod - k
<1>1. TTLMod \in Nat \ {0}
  BY ForwardingAssumption
<1>2. ASSUME NEW i \in Nat, NEW M \in Nat \ {0}, i < M
      PROVE  i % M = i /\ (i + M) % M = i
  BY <1>2
<1>3. k % TTLMod = k
  BY <1>1, <1>2
<1>4. CASE k <= in
  <2>1. in - k \in Nat /\ in - k < TTLMod /\ in + TTLMod - k = (in - k) + TTLMod
    BY <1>1, <1>4
  <2>. QED BY <1>1, <1>2, <1>3, <1>4, <2>1 DEF Lowered
<1>5. CASE k > in
  <2>1. in + TTLMod - k \in Nat /\ in + TTLMod - k < TTLMod
    BY <1>1, <1>5
  <2>. QED BY <1>1, <1>2, <1>3, <1>5, <2>1 DEF Lowered
<1>. QED BY <1>1, <1>4, <1>5

LEMMA LoweredOnceMore ==
  ASSUME NEW in \in 0..(TTLMod - 1), NEW k \in Nat, k + 1 < TTLMod
  PROVE  Decrement(Lowered(in, k)) = Lowered(in, k + 1)
<1>1. TTLMod \in Nat
  BY ForwardingAssumption
<1>2. Lowered(in, k) = IF k <= in THEN in - k ELSE in + TTLMod - k
  BY <1>1, LoweredIs
<1>3. Lowered(in, k + 1) = IF k + 1 <= in THEN in - (k + 1)
                           ELSE in + TTLMod - (k + 1)
  BY <1>1, LoweredIs
<1>. QED BY <1>2, <1>3, OneMoreVisited

LEMMA PassedCounts ==
  ASSUME NEW m \in Msgs
  PROVE  /\ Passed(m) \in SUBSET Targets(m) /\ IsFiniteSet(Passed(m))
         /\ Cardinality(Passed(m)) \in Nat
         /\ \A S \in SUBSET Targets(m) : Cardinality(S) < TTLMod
<1>1. IsFiniteSet(Conns) /\ Targets(m) \in SUBSET Conns /\ Cardinality(Conns) < TTLMod
  BY ForwardingAssumption, TargetsFinite
<1>2. Passed(m) \in SUBSET Targets(m)
  BY DEF Passed
<1>3. IsFiniteSet(Passed(m))
  BY <1>1, <1>2, FS_Subset
<1>4. ASSUME NEW S \in SUBSET Targets(m) PROVE Cardinality(S) < TTLMod
  <2>1. IsFiniteSet(S) /\ Cardinality(S) <= Cardinality(Conns)
    BY <1>1, FS_Subset
  <2>2. Cardinality(S) \in Nat /\ Cardinality(Conns) \in Nat /\ TTLMod \in Nat
    BY <1>1, <2>1, FS_CardinalityType, ForwardingAssumption
  <2>. QED BY <1>1, <2>1, <2>2
<1>. QED BY <1>2, <1>3, <1>4, FS_CardinalityType

(* The turn that visits one connection more.  It comes last, and its copy   *)
(* is as late as can be.                                                    *)
GoesOn(S, c, pos, late) ==
  \E pos2 \in Orders(S \cup {c}) :
    \E late2 \in Delays(S \cup {c}, pos2) :
      /\ pos2[c] = Cardinality(S) + 1
      /\ \A x \in S : pos2[x] = pos[x] /\ late2[x] = late[x]

LEMMA OneMoreInTurn ==
  ASSUME NEW S, IsFiniteSet(S), NEW c, c \notin S,
         NEW pos \in Orders(S), NEW late \in Delays(S, pos)
  PROVE  GoesOn(S, c, pos, late)
<1>. DEFINE k == Cardinality(S)
            pos2 == [x \in S \cup {c} |-> IF x = c THEN k + 1 ELSE pos[x]]
            late2 == [x \in S \cup {c} |-> IF x = c THEN k + 1 ELSE late[x]]
<1>1. k \in Nat /\ Cardinality(S \cup {c}) = k + 1
  BY FS_CardinalityType, FS_AddElement
<1>2. /\ \A x \in S : pos[x] \in 1..k /\ late[x] \in 1..k /\ late[x] >= pos[x]
      /\ \A x, y \in S : pos[x] = pos[y] => x = y
  BY DEF Orders, Delays
<1>3. \A x \in S \cup {c} :
        /\ pos2[x] = IF x = c THEN k + 1 ELSE pos[x]
        /\ late2[x] = IF x = c THEN k + 1 ELSE late[x]
  OBVIOUS
<1>4. \A x \in S \cup {c} :
        pos2[x] \in 1..(k + 1) /\ late2[x] \in 1..(k + 1) /\ late2[x] >= pos2[x]
  BY <1>1, <1>2, <1>3
<1>5. /\ pos2 \in [S \cup {c} -> 1..(k + 1)]
      /\ late2 \in [S \cup {c} -> 1..(k + 1)]
  BY <1>4
<1>6. ASSUME NEW x \in S \cup {c}, NEW y \in S \cup {c}, pos2[x] = pos2[y]
      PROVE  x = y
  <2>1. \A z \in S : pos[z] # k + 1
    BY <1>1, <1>2
  <2>. QED BY <1>2, <1>3, <1>6, <2>1
<1>. HIDE DEF pos2, late2
<1>7. pos2 \in Orders(S \cup {c}) /\ late2 \in Delays(S \cup {c}, pos2)
  BY <1>1, <1>4, <1>5, <1>6 DEF Orders, Delays
<1>8. pos2[c] = k + 1 /\ \A x \in S : pos2[x] = pos[x] /\ late2[x] = late[x]
  BY <1>3
<1>. QED BY <1>7, <1>8 DEF GoesOn

(* Nothing has changed that the turn accounts for. *)
LEMMA SameTurn ==
  ASSUME NEW m \in Msgs, TurnOf(m), UNCHANGED <<origin, wire>>,
         ttl'[m] = ttl[m], skipped'[m] = skipped[m], Passed(m)' = Passed(m),
         \A c \in Conns : OnItsWay(c, m)' => OnItsWay(c, m)
  PROVE  TurnOf(m)'
<1>1. ASSUME NEW out, NEW pos, NEW late, TurnOver(m, out, pos, late)
      PROVE  TurnOver(m, out, pos, late)'
  BY <1>1 DEF TurnOver, OnWire
<1>2. IsTurn(m, Passed(m))'
  BY <1>1 DEF TurnOf, IsTurn
<1>. QED BY <1>2 DEF TurnOf

LEMMA InitTurnInv == Init => TurnInv
<1>. SUFFICES ASSUME Init, NEW m \in Msgs PROVE TurnOf(m)
  BY DEF TurnInv
<1>1. Passed(m) = {} /\ Cardinality({}) = 0
  BY FS_EmptySet DEF Init, Passed
<1>2. ttl[m] = Lowered(origin[m].ttl, 0)
  <2>1. origin[m].ttl \in 0..(TTLMod - 1) /\ TTLMod \in Nat \ {0}
    BY ForwardingAssumption DEF Init, Origins
  <2>2. Lowered(origin[m].ttl, 0) = origin[m].ttl
    BY <2>1, LoweredIs
  <2>. QED BY <2>2 DEF Init
<1>3. \A c \in Conns : ~OnItsWay(c, m)
  BY ForwardingAssumption DEF Init, OnItsWay, Occurs, Msgs
<1>4. IsTurn(m, {})
  <2>. DEFINE none == [c \in {} |-> 0]
  <2>1. none \in Orders({}) /\ none \in Delays({}, none)
    BY DEF Orders, Delays
  <2>2. TurnOver(m, {}, none, none)
    BY DEF Init, TurnOver, OnWire
  <2>. QED BY <2>1, <2>2 DEF IsTurn
<1>. QED BY <1>1, <1>2, <1>3, <1>4 DEF TurnOf

LEMMA TakeTurn ==
  ASSUME FwdInv, TurnInv, NEW w \in Writers, NEW n \in Msgs, Take(w, n)
  PROVE  TurnInv'
<1>. SUFFICES ASSUME NEW m \in Msgs PROVE TurnOf(m)'
  BY DEF TurnInv
<1>0. TurnOf(m) /\ TypeOK /\ WorkInv
  BY DEF FwdInv, TurnInv
<1>1. /\ UNCHANGED <<origin, ttl, picked, sendChan, holding, wire, skipped>>
      /\ Targets(m)' = Targets(m) /\ Acceptable(m)' = Acceptable(m)
      /\ waiting' = waiting \ {n} /\ n \in waiting /\ at[w] = NoMsg
  BY DEF Take, Targets, Acceptable
<1>2. /\ \A v \in Writers : v # w => at'[v] = at[v] /\ todo'[v] = todo[v]
      /\ \/ at'[w] = at[w] /\ ~Acceptable(n)
         \/ at'[w] = n /\ todo'[w] = Targets(n)
  BY <1>0 DEF Take, TypeOK
<1>3. Passed(m)' = Passed(m)
  <2>1. CASE m = n
    BY <1>1, <1>2, <2>1 DEF Passed
  <2>2. CASE m # n
    <3>1. \A v \in Writers : (at'[v] = m <=> at[v] = m)
                             /\ (at[v] = m => todo'[v] = todo[v])
      BY <1>1, <1>2, <2>2, ForwardingAssumption DEF Msgs
    <3>. QED BY <1>1, <2>2, <3>1 DEF Passed
  <2>. QED BY <2>1, <2>2
<1>4. ASSUME NEW c \in Conns, OnItsWay(c, m)' PROVE OnItsWay(c, m)
  <2>1. picked[w] = NoConn
    BY <1>0, <1>1 DEF WorkInv
  <2>. QED BY <1>1, <1>2, <1>4, <2>1, ForwardingAssumption DEF OnItsWay, Occurs
<1>. QED BY <1>0, <1>1, <1>3, <1>4, SameTurn

LEMMA VisitTurn ==
  ASSUME FwdInv, SkipInv, TurnInv, NEW w \in Writers, NEW c \in Conns, Visit(w, c)
  PROVE  TurnInv'
<1>. SUFFICES ASSUME NEW m \in Msgs PROVE TurnOf(m)'
  BY DEF TurnInv
<1>0. TurnOf(m) /\ SkipOf(m) /\ TypeOK /\ WorkInv
  BY DEF FwdInv, SkipInv, TurnInv
<1>1. /\ UNCHANGED <<origin, waiting, at, sendChan, holding, wire>>
      /\ Targets(m)' = Targets(m) /\ Acceptable(m)' = Acceptable(m)
      /\ at[w] # NoMsg /\ picked[w] = NoConn /\ c \in todo[w]
  BY DEF Visit, Targets, Acceptable
<1>2. /\ \A v \in Writers : v # w => picked'[v] = picked[v] /\ todo'[v] = todo[v]
      /\ todo'[w] = todo[w] \ {c}
  BY <1>0 DEF Visit, TypeOK
<1>3. CASE at[w] # m
  <2>1. ttl'[m] = ttl[m] /\ skipped'[m] = skipped[m]
    BY <1>0, <1>3 DEF Visit, TypeOK
  <2>2. Passed(m)' = Passed(m)
    BY <1>1, <1>2, <1>3 DEF Passed
  <2>3. \A d \in Conns : OnItsWay(d, m)' => OnItsWay(d, m)
    BY <1>1, <1>2, <1>3 DEF OnItsWay, Occurs
  <2>. QED BY <1>0, <1>1, <2>1, <2>2, <2>3, SameTurn
<1>4. CASE at[w] = m
  <2>0. PICK out : out = Passed(m)
    OBVIOUS
  <2>. DEFINE in == origin[m].ttl
              k == Cardinality(out)
              t == Decrement(ttl[m])
              over == m \in Relayed /\ Lowered(in, k + 1) = 0
  <2>1. \A v \in Writers : at[v] = m => v = w
    BY <1>0, <1>4, ForwardingAssumption DEF WorkInv, Work, Writers, Msgs
  <2>2. m \notin waiting /\ Acceptable(m) /\ c \in Targets(m)
    BY <1>0, <1>1, <1>4 DEF WorkInv, SkipOf
  <2>3. /\ out = Targets(m) \ todo[w] /\ c \notin out
        /\ Passed(m)' = out \cup {c}
    <3>1. out = Targets(m) \ todo[w]
      BY <1>4, <2>0, <2>1, <2>2 DEF Passed
    <3>2. Passed(m)' = Targets(m) \ todo'[w]
      BY <1>1, <1>4, <2>1, <2>2 DEF Passed
    <3>. QED BY <1>1, <1>2, <2>2, <3>1, <3>2
  <2>4. /\ IsFiniteSet(out) /\ k \in Nat /\ k + 1 < TTLMod
        /\ Cardinality(out \cup {c}) = k + 1
    <3>1. IsFiniteSet(out) /\ k \in Nat
      BY <2>0, PassedCounts
    <3>2. Cardinality(out \cup {c}) = k + 1
      BY <2>3, <3>1, FS_AddElement
    <3>3. out \cup {c} \in SUBSET Targets(m)
      BY <2>0, <2>2, PassedCounts
    <3>4. Cardinality(out \cup {c}) < TTLMod
      BY <3>3, PassedCounts
    <3>. QED BY <3>1, <3>2, <3>4
  <2>5. t = Lowered(in, k + 1) /\ t \in Nat
    <3>1. in \in 0..(TTLMod - 1) /\ ttl[m] \in 0..(TTLMod - 1)
      BY <1>0 DEF TypeOK, Origins
    <3>2. ttl[m] = Lowered(in, k)
      BY <1>0, <2>0 DEF TurnOf
    <3>. QED BY <2>4, <3>1, <3>2, LoweredOnceMore, DecrementType
  <2>6. /\ ttl'[m] = t
        /\ skipped'[m] = IF over THEN skipped[m] \cup {c} ELSE skipped[m]
        /\ picked'[w] = IF over THEN NoConn ELSE c
    <3>1. PassesOver(w, t) <=> over
      BY <1>0, <1>4, <2>5, ForwardingAssumption
         DEF PassesOver, WorkInv, Work, Writers, Msgs
    <3>. QED BY <1>0, <1>1, <1>4, <3>1 DEF Visit, TypeOK
  <2>7. ASSUME NEW d \in Conns, OnItsWay(d, m)'
        PROVE  d \in (out \cup {c}) \ skipped'[m]
    <3>1. CASE OnItsWay(d, m)
      <4>1. d \in out \ skipped[m]
        BY <1>0, <2>0, <3>1 DEF TurnOf
      <4>. QED BY <2>3, <2>6, <4>1
    <3>2. CASE ~OnItsWay(d, m)
      <4>1. picked'[w] = d /\ d # NoConn
        BY <1>1, <1>2, <2>7, <3>2, ForwardingAssumption DEF OnItsWay, Occurs
      <4>2. d = c /\ ~over
        BY <2>6, <4>1
      <4>3. skipped[m] \subseteq out
        BY <1>0, <2>0 DEF TurnOf, IsTurn, TurnOver
      <4>. QED BY <2>3, <2>6, <4>2, <4>3
    <3>. QED BY <3>1, <3>2
  <2>8. IsTurn(m, out \cup {c})'
    <3>1. PICK pos \in Orders(out) :
            \E late \in Delays(out, pos) : TurnOver(m, out, pos, late)
      BY <1>0, <2>0 DEF TurnOf, IsTurn
    <3>2. PICK late \in Delays(out, pos) : TurnOver(m, out, pos, late)
      BY <3>1
    <3>3. PICK pos2 \in Orders(out \cup {c}) :
            \E late2 \in Delays(out \cup {c}, pos2) :
              /\ pos2[c] = k + 1
              /\ \A x \in out : pos2[x] = pos[x] /\ late2[x] = late[x]
      <4>1. IsFiniteSet(out) /\ c \notin out
        BY <2>3, <2>4
      <4>2. GoesOn(out, c, pos, late)
        BY <3>1, <3>2, <4>1, OneMoreInTurn
      <4>. QED BY <4>2 DEF GoesOn
    <3>4. PICK late2 \in Delays(out \cup {c}, pos2) :
            /\ pos2[c] = k + 1
            /\ \A x \in out : pos2[x] = pos[x] /\ late2[x] = late[x]
      BY <3>3
    <3>5. skipped'[m] =
            {x \in out \cup {c} : m \in Relayed /\ Lowered(in, pos2[x]) = 0}
      <4>1. skipped[m] = {x \in out : m \in Relayed /\ Lowered(in, pos[x]) = 0}
        BY <3>2 DEF TurnOver
      <4>2. over <=> m \in Relayed /\ Lowered(in, pos2[c]) = 0
        BY <3>4
      <4>. HIDE DEF over, in
      <4>. QED BY <2>6, <3>4, <4>1, <4>2
    <3>6. ASSUME NEW d \in Conns, NEW i \in OnWire(d, m)
          PROVE  /\ d \in (out \cup {c}) \ skipped'[m]
                 /\ wire[d][i].ttl = Lowered(in, late2[d])
      <4>1. d \in out \ skipped[m] /\ wire[d][i].ttl = Lowered(in, late[d])
        BY <3>2 DEF TurnOver
      <4>. QED BY <2>3, <2>6, <3>4, <4>1
    <3>7. TurnOver(m, out \cup {c}, pos2, late2)'
      BY <1>1, <3>5, <3>6 DEF TurnOver, OnWire
    <3>. QED BY <3>7 DEF IsTurn
  <2>9. ttl'[m] = Lowered(in, Cardinality(out \cup {c}))
    BY <2>4, <2>5, <2>6
  <2>. QED BY <1>1, <2>3, <2>7, <2>8, <2>9 DEF TurnOf
<1>. QED BY <1>3, <1>4

LEMMA TransmitTurn ==
  ASSUME FwdInv, OnceInv, TurnInv, NEW d \in Conns, Transmit(d)
  PROVE  TurnInv'
<1>. SUFFICES ASSUME NEW m \in Msgs PROVE TurnOf(m)'
  BY DEF TurnInv
<1>0. TurnOf(m) /\ TypeOK
  BY DEF FwdInv, TurnInv
<1>1. /\ holding' = [holding EXCEPT ![d] = NoMsg] /\ holding[d] \in Msgs
      /\ UNCHANGED <<origin, ttl, waiting, at, todo, picked, sendChan, skipped>>
  BY <1>0 DEF Transmit, TypeOK
<1>2. Passed(m)' = Passed(m)
  BY <1>1 DEF Passed, Targets, Acceptable
<1>3. \A c \in Conns : OnItsWay(c, m)' => OnItsWay(c, m)
  BY <1>0, <1>1, ForwardingAssumption DEF OnItsWay, Occurs, TypeOK, Msgs
<1>4. CASE wire' = wire
  BY <1>0, <1>1, <1>2, <1>3, <1>4, SameTurn
<1>5. CASE wire' # wire
  <2>0. PICK out : out = Passed(m)
    OBVIOUS
  <2>. DEFINE f == [msg |-> holding[d], ttl |-> ttl[holding[d]]]
              in == origin[m].ttl
              k == Cardinality(out)
  <2>1. wire' = [wire EXCEPT ![d] = Append(@, f)]
    BY <1>5 DEF Transmit
  <2>2. /\ \A c \in Conns : c # d => wire'[c] = wire[c]
        /\ wire'[d] = Append(wire[d], f) /\ wire[d] \in Seq(Frames)
    BY <1>0, <2>1 DEF TypeOK
  <2>3. f.msg = holding[d] /\ f.ttl = ttl[holding[d]]
    OBVIOUS
  <2>. HIDE DEF f
  <2>4. PICK pos \in Orders(out) :
          \E late \in Delays(out, pos) : TurnOver(m, out, pos, late)
    BY <1>0, <2>0 DEF TurnOf, IsTurn
  <2>5. PICK late \in Delays(out, pos) : TurnOver(m, out, pos, late)
    BY <2>4
  <2>6. /\ Len(wire'[d]) = Len(wire[d]) + 1 /\ Len(wire[d]) \in Nat
        /\ wire'[d][Len(wire[d]) + 1] = f
        /\ \A i \in 1..Len(wire[d]) : wire'[d][i] = wire[d][i]
    BY <2>2
  <2>7. CASE holding[d] # m
    <3>1. ASSUME NEW c \in Conns, NEW i \in OnWire(c, m)'
          PROVE  i \in OnWire(c, m) /\ wire'[c][i] = wire[c][i]
      BY <2>2, <2>3, <2>6, <2>7, <3>1 DEF OnWire
    <3>2. TurnOver(m, out, pos, late)'
      BY <1>1, <2>5, <3>1 DEF TurnOver
    <3>. QED BY <1>0, <1>1, <1>2, <1>3, <2>0, <2>4, <3>2 DEF TurnOf, IsTurn
  <2>8. CASE holding[d] = m
    <3>1. d \in out \ skipped[m] /\ ~Written(d, m)
      BY <1>0, <2>0, <2>8 DEF TurnOf, OnItsWay, OnceInv, OnceOn
    <3>. DEFINE late2 == [late EXCEPT ![d] = k]
    <3>2. late2 \in Delays(out, pos)
      <4>1. /\ late \in [out -> 1..k] /\ pos \in [out -> 1..k]
            /\ \A x \in out : late[x] >= pos[x]
        BY DEF Orders, Delays
      <4>2. k \in 1..k /\ pos[d] \in 1..k /\ d \in out
        BY <2>0, <3>1, <4>1, PassedCounts
      <4>3. late2 \in [out -> 1..k]
        BY <4>1, <4>2
      <4>4. \A x \in out : late2[x] = IF x = d THEN k ELSE late[x]
        BY <4>1
      <4>5. \A x \in out : late2[x] >= pos[x]
        BY <4>1, <4>2, <4>4
      <4>. QED BY <4>3, <4>5 DEF Delays
    <3>3. late2[d] = k /\ \A x \in out : x # d => late2[x] = late[x]
      BY <3>1 DEF Delays
    <3>. HIDE DEF late2
    <3>4. ASSUME NEW c \in Conns, NEW i \in OnWire(c, m)'
          PROVE  /\ c \in out \ skipped[m]
                 /\ wire'[c][i].ttl = Lowered(in, late2[c])
      <4>1. CASE c = d
        <5>1. wire'[c][i] = f
          BY <2>6, <3>1, <3>4, <4>1 DEF OnWire, Written
        <5>2. ttl[m] = Lowered(in, k)
          BY <1>0, <2>0 DEF TurnOf
        <5>. QED BY <2>3, <2>8, <3>1, <3>3, <4>1, <5>1, <5>2
      <4>2. CASE c # d
        <5>1. i \in OnWire(c, m) /\ wire'[c][i] = wire[c][i]
          BY <2>2, <3>4, <4>2 DEF OnWire
        <5>2. c \in out \ skipped[m] /\ wire[c][i].ttl = Lowered(in, late[c])
          BY <2>5, <5>1 DEF TurnOver
        <5>. QED BY <3>3, <4>2, <5>1, <5>2
      <4>. QED BY <4>1, <4>2
    <3>5. TurnOver(m, out, pos, late2)'
      BY <1>1, <2>5, <3>4 DEF TurnOver
    <3>. QED BY <1>0, <1>1, <1>2, <1>3, <2>0, <2>4, <3>2, <3>5 DEF TurnOf, IsTurn
  <2>. QED BY <2>7, <2>8
<1>. QED BY <1>4, <1>5

LEMMA NextTurnInv ==
  FwdInv /\ SkipInv /\ OnceInv /\ TurnInv /\ [Next]_vars => TurnInv'
<1>. SUFFICES ASSUME FwdInv, SkipInv, OnceInv, TurnInv, [Next]_vars,
                     NEW m \in Msgs
              PROVE  TurnOf(m)'
  BY DEF TurnInv
<1>0. TurnOf(m) /\ TypeOK /\ WorkInv
  BY DEF FwdInv, TurnInv
<1>1. ASSUME NEW w \in Writers, NEW n \in Msgs, Take(w, n) PROVE TurnOf(m)'
  BY <1>1, TakeTurn DEF TurnInv
<1>2. ASSUME NEW w \in Writers, NEW c \in Conns, Visit(w, c) PROVE TurnOf(m)'
  BY <1>2, VisitTurn DEF TurnInv
<1>3. ASSUME NEW w \in Writers, Enqueue(w) PROVE TurnOf(m)'
  <2>1. /\ UNCHANGED <<origin, ttl, waiting, at, todo, holding, wire, skipped>>
        /\ picked' = [picked EXCEPT ![w] = NoConn] /\ picked[w] # NoConn
        /\ sendChan' = [sendChan EXCEPT ![picked[w]] = Append(@, at[w])]
    BY <1>3 DEF Enqueue
  <2>2. picked[w] \in Conns /\ at[w] \in Msgs
    BY <1>0, <2>1 DEF WorkInv, TypeOK
  <2>3. ASSUME NEW c \in Conns, OnItsWay(c, m)' PROVE OnItsWay(c, m)
    <3>1. \A v \in Writers : picked'[v] = c => picked[v] = c
      BY <1>0, <2>1, ForwardingAssumption DEF TypeOK
    <3>2. Occurs(sendChan'[c], m) =>
            Occurs(sendChan[c], m) \/ (at[w] = m /\ picked[w] = c)
      <4>1. sendChan[c] \in Seq(Msgs)
        BY <1>0 DEF TypeOK
      <4>2. sendChan'[c] = IF c = picked[w] THEN Append(sendChan[c], at[w])
                           ELSE sendChan[c]
        BY <1>0, <2>1, <2>2 DEF TypeOK
      <4>. QED BY <2>2, <4>1, <4>2, AppendOnce
    <3>. QED BY <2>1, <2>3, <3>1, <3>2 DEF OnItsWay
  <2>4. Passed(m)' = Passed(m)
    BY <2>1 DEF Passed, Targets, Acceptable
  <2>. QED BY <1>0, <2>1, <2>3, <2>4, SameTurn
<1>4. ASSUME NEW w \in Writers, Finish(w) PROVE TurnOf(m)'
  <2>1. /\ UNCHANGED <<origin, ttl, waiting, todo, picked, sendChan, holding,
                       wire, skipped>>
        /\ todo[w] = {} /\ picked[w] = NoConn
    BY <1>4 DEF Finish
  <2>2. at'[w] = NoMsg /\ \A v \in Writers : v # w => at'[v] = at[v]
    BY <1>0, <1>4 DEF Finish, TypeOK
  <2>3. Passed(m)' = Passed(m)
    BY <2>1, <2>2, ForwardingAssumption DEF Passed, Targets, Acceptable, Msgs
  <2>4. \A c \in Conns : OnItsWay(c, m)' => OnItsWay(c, m)
    BY <2>1, <2>2, ForwardingAssumption DEF OnItsWay, Occurs
  <2>. QED BY <1>0, <2>1, <2>3, <2>4, SameTurn
<1>5. ASSUME NEW d \in Conns, Receive(d) PROVE TurnOf(m)'
  <2>1. /\ UNCHANGED <<origin, ttl, waiting, at, todo, picked, wire, skipped>>
        /\ sendChan' = [sendChan EXCEPT ![d] = Tail(@)]
        /\ holding' = [holding EXCEPT ![d] = Head(sendChan[d])]
        /\ sendChan[d] # <<>>
    BY <1>5 DEF Receive
  <2>2. ASSUME NEW c \in Conns, OnItsWay(c, m)' PROVE OnItsWay(c, m)
    <3>1. CASE c = d
      <4>1. /\ sendChan[c] \in Seq(Msgs) /\ sendChan'[c] = Tail(sendChan[c])
            /\ holding'[c] = Head(sendChan[c])
        BY <1>0, <2>1, <3>1 DEF TypeOK
      <4>2. Single(sendChan[c], m)
        BY DEF OnceInv, OnceOn
      <4>3. Occurs(sendChan'[c], m) \/ holding'[c] = m => Occurs(sendChan[c], m)
        BY <2>1, <3>1, <4>1, <4>2, TailOnce
      <4>. QED BY <2>1, <2>2, <4>3 DEF OnItsWay
    <3>2. CASE c # d
      <4>1. sendChan'[c] = sendChan[c] /\ holding'[c] = holding[c]
        BY <1>0, <2>1, <3>2 DEF TypeOK
      <4>. QED BY <2>1, <2>2, <4>1 DEF OnItsWay
    <3>. QED BY <3>1, <3>2
  <2>3. Passed(m)' = Passed(m)
    BY <2>1 DEF Passed, Targets, Acceptable
  <2>. QED BY <1>0, <2>1, <2>2, <2>3, SameTurn
<1>6. ASSUME NEW c \in Conns, Transmit(c) PROVE TurnOf(m)'
  BY <1>6, TransmitTurn DEF TurnInv
<1>7. CASE UNCHANGED vars
  <2>1. Passed(m)' = Passed(m)
    BY <1>7 DEF vars, Passed, Targets, Acceptable
  <2>2. \A c \in Conns : OnItsWay(c, m)' => OnItsWay(c, m)
    BY <1>7 DEF vars, OnItsWay, Occurs
  <2>. QED BY <1>0, <1>7, <2>1, <2>2, SameTurn DEF vars
<1>. QED BY <1>1, <1>2, <1>3, <1>4, <1>5, <1>6, <1>7 DEF Next
-----------------------------------------------------------------------------
(* Every reachable state of the writers and senders of one hop satisfies   *)
(* the inductive invariant, whatever the interleaving of decrements and    *)
(* marshalling (services/switch_core.go, tcp_core.go).                     *)
THEOREM ForwardingInvariant == Spec => []FwdInv
BY InitFwdInv, NextFwdInv, PTL DEF Spec

(* Type correctness; in particular the shared TTL stays within its width.  *)
THEOREM ForwardingTypeCorrect == Spec => []TypeOK
<1>1. FwdInv => TypeOK
  BY DEF FwdInv
<1>. QED BY <1>1, ForwardingInvariant, PTL

(* A TTL larger than the number of target connections goes down, on every  *)
(* connection, by at least one and at most that number: it is never         *)
(* forwarded unchanged, although senders read the shared field unlocked.   *)
THEOREM TTLWindowHolds == Spec => []WireTTLWindow
<1>1. FwdInv => WireTTLWindow
  BY DEF FwdInv
<1>. QED BY <1>1, ForwardingInvariant, PTL

(* The forwarder passes over one connection because of the TTL if this was *)
(* no larger than the number of targets, and else none: the uint32 wraps    *)
(* around after it (services/switch_core.go:71).                           *)
THEOREM OneSkippedWhenExhausted == Spec => []OneSkippedIffExhausted
<1>1. SkipInv => OneSkippedIffExhausted
  <2>. SUFFICES ASSUME SkipInv, NEW m \in Msgs, Served(m)
                PROVE  Cardinality(skipped[m]) =
                         IF m \in Relayed /\ Acceptable(m)
                            /\ origin[m].ttl \in 1..Cardinality(Targets(m))
                         THEN 1 ELSE 0
    BY DEF OneSkippedIffExhausted
  <2>1. SkippedAfter(m, Cardinality(Targets(m)))
    BY DEF SkipInv, SkipOf
  <2>2. Cardinality({}) = 0 /\ \A c \in Conns : Cardinality({c}) = 1
    BY FS_EmptySet, FS_Singleton
  <2>. QED BY <2>1, <2>2 DEF SkippedAfter
<1>. QED BY <1>1, InitSkipInv, NextSkipInv, ForwardingInvariant, PTL DEF Spec

(* However writers and senders interleave, a message is sent at most once   *)
(* over each connection, never back over the one it came from, and never   *)
(* if its address is not acceptable (services/switch_core.go:49-77).       *)
THEOREM AlwaysOncePerConnection == Spec => []OncePerConnection
<1>1. OnceInv => OncePerConnection
  <2>. SUFFICES ASSUME OnceInv, NEW c \in Conns, NEW m \in Msgs
                PROVE  Cardinality(InChan(c, m)) + Cardinality(OnWire(c, m))
                       + (IF holding[c] = m THEN 1 ELSE 0)
                       <= (IF origin[m].private /\ origin[m].source # c
                           THEN 1 ELSE 0)
    BY DEF OncePerConnection
  <2>1. OnceOn(c, m)
    BY DEF OnceInv
  <2>2. Cardinality(InChan(c, m)) = IF Occurs(sendChan[c], m) THEN 1 ELSE 0
    <3>1. CASE Occurs(sendChan[c], m)
      <4>1. PICK i \in 1..Len(sendChan[c]) : sendChan[c][i] = m
        BY <3>1 DEF Occurs
      <4>2. InChan(c, m) = {i}
        BY <2>1, <4>1 DEF OnceOn, Single, InChan
      <4>. QED BY <3>1, <4>2, FS_Singleton
    <3>2. CASE ~Occurs(sendChan[c], m)
      <4>1. InChan(c, m) = {}
        BY <3>2 DEF Occurs, InChan
      <4>. QED BY <3>2, <4>1, FS_EmptySet
    <3>. QED BY <3>1, <3>2
  <2>3. Cardinality(OnWire(c, m)) = IF Written(c, m) THEN 1 ELSE 0
    <3>1. CASE Written(c, m)
      <4>1. PICK i \in 1..Len(wire[c]) : wire[c][i].msg = m
        BY <3>1 DEF Written
      <4>2. OnWire(c, m) = {i}
        BY <2>1, <4>1 DEF OnceOn, WrittenOnce, OnWire
      <4>. QED BY <3>1, <4>2, FS_Singleton
    <3>2. CASE ~Written(c, m)
      <4>1. OnWire(c, m) = {}
        BY <3>2 DEF Written, OnWire
      <4>. QED BY <3>2, <4>1, FS_EmptySet
    <3>. QED BY <3>1, <3>2
  <2>4. Reached(c, m) => origin[m].private /\ origin[m].source # c
    BY DEF Reached, Targets
  <2>. QED BY <2>1, <2>2, <2>3, <2>4 DEF OnceOn
<1>. QED BY <1>1, InitSkipInv, NextSkipInv, InitOnceInv, NextOnceInv,
            ForwardingInvariant, PTL DEF Spec

(* However writers and senders interleave around the shared field, one hop  *)
(* is a turn that SwitchNetwork takes in one step: an order of the targets  *)
(* and a delay of each copy explain what was passed over and every TTL      *)
(* written, wrapped around zero or not (services/switch_core.go:60-77).     *)
THEOREM EveryHopIsTurn == Spec => []HopIsTurn
<1>1. TurnInv => HopIsTurn
  <2>. SUFFICES ASSUME TurnInv, NEW m \in Msgs, Acceptable(m), Served(m)
                PROVE  IsTurn(m, Targets(m))
    BY DEF HopIsTurn, IsTurn
  <2>1. Passed(m) = Targets(m)
    BY DEF Passed, Served
  <2>. QED BY <2>1 DEF TurnInv, TurnOf
<1>. QED BY <1>1, InitTurnInv, NextTurnInv, InitSkipInv, NextSkipInv,
            InitOnceInv, NextOnceInv, ForwardingInvariant, PTL DEF Spec
=============================================================================
