------------------------- MODULE SwitchLoungeProofs -------------------------
(***************************************************************************)
(* Proofs about SwitchLounge, for every value of its constants.            *)
(***************************************************************************)
EXTENDS SwitchLounge, FiniteSetTheorems, SequenceTheorems, TLAPS

(***************************************************************************)
(* The inductive invariant behind the safety theorems: the properties of   *)
(* the cache, and that the cleaner's time is one that has passed.          *)
(***************************************************************************)
CacheInv ==
  /\ TypeOK
  /\ IndexAgrees
  /\ IsFiniteSet(forwardedIds)
  /\ CacheBounded
  /\ NeverInconsistent
  /\ sweepTime <= clock

(* Items taken out of the heap take exactly their own ids out of the map,   *)
(* because no two items share an id.                                        *)
LEMMA RemovalKeepsIndex ==
  ASSUME IndexAgrees, NEW gone \in SUBSET ttlHeap
  PROVE  /\ forwardedIds \ IdsOf(gone) = IdsOf(ttlHeap \ gone)
         /\ \A i, j \in ttlHeap \ gone : i.id = j.id => i = j
BY DEF IndexAgrees, IdsOf

(* A full cache has a heap to evict from: the inconsistency that Write      *)
(* checks for cannot be met.                                                *)
LEMMA FullCacheHasHeap ==
  ASSUME IndexAgrees, CacheFull
  PROVE  ttlHeap # {}
<1>1. Cardinality(forwardedIds) # 0
  <2>1. MaxEntries \in Nat \ {0}
    BY LoungeAssumption
  <2>2. ~(0 >= MaxEntries)
    BY <2>1
  <2>. QED BY <2>2 DEF CacheFull
<1>2. forwardedIds # {}
  BY <1>1, FS_EmptySet
<1>. QED BY <1>2 DEF IndexAgrees, IdsOf

(* Popping at most one item, for Write, leaves room when the cache was full. *)
LEMMA EvictionMakesRoom ==
  ASSUME CacheInv, NEW gone \in Victims
  PROVE  /\ gone \in SUBSET ttlHeap
         /\ IsFiniteSet(forwardedIds \ IdsOf(gone))
         /\ Cardinality(forwardedIds \ IdsOf(gone)) < MaxEntries
         /\ Cardinality(forwardedIds \ IdsOf(gone)) \in Nat
<1>0. /\ MaxEntries \in Nat \ {0}
      /\ Cardinality(forwardedIds) \in Nat
      /\ Cardinality(forwardedIds) <= MaxEntries
  BY LoungeAssumption, FS_CardinalityType DEF CacheInv, CacheBounded
<1>1. CASE CacheFull
  <2>1. PICK item \in Oldest(ttlHeap) : gone = {item}
    BY <1>1 DEF Victims
  <2>2. item \in ttlHeap
    BY DEF Oldest
  <2>3. item.id \in forwardedIds
    BY <2>2 DEF CacheInv, IndexAgrees, IdsOf
  <2>4. IdsOf(gone) = {item.id}
    BY <2>1 DEF IdsOf
  <2>5. /\ IsFiniteSet(forwardedIds \ {item.id})
        /\ Cardinality(forwardedIds \ {item.id}) = Cardinality(forwardedIds) - 1
    BY <2>3, FS_RemoveElement DEF CacheInv
  <2>6. Cardinality(forwardedIds) = MaxEntries
    BY <1>0, <1>1 DEF CacheFull
  <2>. QED BY <1>0, <2>1, <2>2, <2>4, <2>5, <2>6
<1>2. CASE ~CacheFull
  <2>1. gone = {}
    BY <1>2 DEF Victims
  <2>2. forwardedIds \ IdsOf(gone) = forwardedIds
    BY <2>1 DEF IdsOf
  <2>3. Cardinality(forwardedIds) < MaxEntries
    BY <1>0, <1>2 DEF CacheFull
  <2>. QED BY <1>0, <2>1, <2>2, <2>3 DEF CacheInv
<1>. QED BY <1>1, <1>2

LEMMA InitCacheInv == Init => CacheInv
<1>. SUFFICES ASSUME Init PROVE CacheInv
  OBVIOUS
<1>1. TypeOK
  <2>1. <<>> \in Seq(Ids)
    OBVIOUS
  <2>. QED BY <2>1 DEF Init, TypeOK, Errors
<1>2. IndexAgrees
  BY DEF Init, IndexAgrees, IdsOf
<1>3. IsFiniteSet(forwardedIds) /\ Cardinality(forwardedIds) = 0
  BY FS_EmptySet DEF Init
<1>4. CacheBounded
  BY <1>3, LoungeAssumption DEF CacheBounded
<1>. QED BY <1>1, <1>2, <1>3, <1>4 DEF CacheInv, Init, NeverInconsistent

(* The step that does the work: a fresh message, in its three outcomes. *)
LEMMA WriteFreshCacheInv ==
  ASSUME CacheInv, NEW id \in Ids, WriteFresh(id)
  PROVE  CacheInv'
<1>. USE LoungeAssumption
<1>1. ~(CacheFull /\ ttlHeap = {})
  BY FullCacheHasHeap DEF CacheInv
<1>2. PICK gone \in Victims :
        \/ /\ Len(lounge) < LoungeSize
           /\ clock + ClockStep <= MaxClock
           /\ lounge' = Append(lounge, id)
           /\ forwardedIds' = (forwardedIds \ IdsOf(gone)) \cup {id}
           /\ ttlHeap' = (ttlHeap \ gone) \cup {Item(id, clock + CacheLifetime)}
           /\ err' = "nil"
           /\ clock' = clock + ClockStep
        \/ /\ Len(lounge) >= LoungeSize
           /\ forwardedIds' = forwardedIds \ IdsOf(gone)
           /\ ttlHeap' = ttlHeap \ gone
           /\ err' = "full"
           /\ UNCHANGED <<lounge, clock>>
  BY <1>1 DEF WriteFresh
<1>3. /\ gone \in SUBSET ttlHeap
      /\ IsFiniteSet(forwardedIds \ IdsOf(gone))
      /\ Cardinality(forwardedIds \ IdsOf(gone)) < MaxEntries
      /\ Cardinality(forwardedIds \ IdsOf(gone)) \in Nat
  BY EvictionMakesRoom
<1>4. /\ forwardedIds \ IdsOf(gone) = IdsOf(ttlHeap \ gone)
      /\ \A i, j \in ttlHeap \ gone : i.id = j.id => i = j
  BY <1>3, RemovalKeepsIndex DEF CacheInv
<1>5. UNCHANGED <<closed, cleaner, sweepTime, reader, sig>> /\ id \notin forwardedIds
  BY DEF WriteFresh, AlreadyForwarded
<1>6. CASE /\ lounge' = Append(lounge, id)
           /\ forwardedIds' = (forwardedIds \ IdsOf(gone)) \cup {id}
           /\ ttlHeap' = (ttlHeap \ gone) \cup {Item(id, clock + CacheLifetime)}
           /\ err' = "nil"
           /\ clock' = clock + ClockStep
  <2>1. TypeOK'
    <3>1. Item(id, clock + CacheLifetime) \in Items
      BY DEF Item, Items, CacheInv, TypeOK
    <3>2. lounge' \in Seq(Ids)
      BY <1>6, AppendProperties DEF CacheInv, TypeOK
    <3>. QED BY <1>3, <1>5, <1>6, <3>1, <3>2 DEF CacheInv, TypeOK, Errors
  <2>2. IndexAgrees'
    <3>1. Item(id, clock + CacheLifetime).id = id
      BY DEF Item
    <3>2. forwardedIds' = IdsOf(ttlHeap')
      BY <1>4, <1>6, <3>1 DEF IdsOf
    <3>3. \A i \in ttlHeap \ gone : i.id # id
      BY <1>4, <1>5 DEF IdsOf
    <3>. QED BY <1>4, <1>6, <3>1, <3>2, <3>3 DEF IndexAgrees
  <2>3. IsFiniteSet(forwardedIds') /\ CacheBounded'
    <3>0. /\ IsFiniteSet((forwardedIds \ IdsOf(gone)) \cup {id})
          /\ Cardinality((forwardedIds \ IdsOf(gone)) \cup {id}) =
               IF id \in forwardedIds \ IdsOf(gone)
               THEN Cardinality(forwardedIds \ IdsOf(gone))
               ELSE Cardinality(forwardedIds \ IdsOf(gone)) + 1
      BY <1>3, FS_AddElement
    <3>1. /\ IsFiniteSet(forwardedIds')
          /\ Cardinality(forwardedIds') <= Cardinality(forwardedIds \ IdsOf(gone)) + 1
      BY <1>3, <1>6, <3>0
    <3>2. Cardinality(forwardedIds') \in Nat
      BY <3>1, FS_CardinalityType
    <3>. QED BY <1>3, <3>1, <3>2 DEF CacheBounded
  <2>4. NeverInconsistent' /\ (sweepTime <= clock)'
    BY <1>5, <1>6 DEF NeverInconsistent, CacheInv, TypeOK
  <2>. QED BY <2>1, <2>2, <2>3, <2>4 DEF CacheInv
<1>7. CASE /\ forwardedIds' = forwardedIds \ IdsOf(gone)
           /\ ttlHeap' = ttlHeap \ gone
           /\ err' = "full"
           /\ UNCHANGED <<lounge, clock>>
  <2>1. TypeOK'
    BY <1>5, <1>7 DEF CacheInv, TypeOK, Errors
  <2>2. IndexAgrees'
    BY <1>4, <1>7 DEF IndexAgrees
  <2>3. IsFiniteSet(forwardedIds') /\ CacheBounded'
    BY <1>3, <1>7 DEF CacheBounded
  <2>4. NeverInconsistent' /\ (sweepTime <= clock)'
    BY <1>5, <1>7 DEF NeverInconsistent, CacheInv
  <2>. QED BY <2>1, <2>2, <2>3, <2>4 DEF CacheInv
<1>. QED BY <1>2, <1>6, <1>7

LEMMA CleanerSweepCacheInv ==
  ASSUME CacheInv, CleanerSweep
  PROVE  CacheInv'
<1>. DEFINE gone == ExpiredAt(ttlHeap, sweepTime)
<1>1. gone \in SUBSET ttlHeap
  BY DEF ExpiredAt
<1>2. /\ forwardedIds' = forwardedIds \ IdsOf(gone)
      /\ ttlHeap' = ttlHeap \ gone
      /\ sweepTime' = 0
      /\ cleaner' = "waiting"
      /\ UNCHANGED <<lounge, closed, err, reader, sig, clock>>
  BY DEF CleanerSweep
<1>. HIDE DEF gone
<1>3. /\ forwardedIds' = IdsOf(ttlHeap')
      /\ \A i, j \in ttlHeap' : i.id = j.id => i = j
  BY <1>1, <1>2, RemovalKeepsIndex DEF CacheInv
<1>4. /\ IsFiniteSet(forwardedIds')
      /\ Cardinality(forwardedIds') <= Cardinality(forwardedIds)
  BY <1>2, FS_Subset DEF CacheInv
<1>5. CacheBounded'
  <2>1. Cardinality(forwardedIds) \in Nat /\ Cardinality(forwardedIds') \in Nat
    BY <1>4, FS_CardinalityType DEF CacheInv
  <2>. QED BY <1>4, <2>1, LoungeAssumption DEF CacheInv, CacheBounded
<1>6. TypeOK'
  BY <1>2 DEF CacheInv, TypeOK
<1>7. (sweepTime <= clock)'
  BY <1>2 DEF CacheInv, TypeOK
<1>. QED BY <1>2, <1>3, <1>4, <1>5, <1>6, <1>7
     DEF CacheInv, IndexAgrees, NeverInconsistent

LEMMA NextCacheInv == CacheInv /\ [Next]_vars => CacheInv'
<1>. SUFFICES ASSUME CacheInv, [Next]_vars PROVE CacheInv'
  OBVIOUS
<1>0. ASSUME UNCHANGED <<forwardedIds, ttlHeap>>, TypeOK',
             NeverInconsistent', (sweepTime <= clock)'
      PROVE  CacheInv'
  BY <1>0 DEF CacheInv, IndexAgrees, CacheBounded
<1>1. ASSUME NEW id \in Ids, Write(id) PROVE CacheInv'
  <2>1. CASE WriteClosed
    BY <1>0, <2>1 DEF WriteClosed, CacheInv, TypeOK, NeverInconsistent, Errors
  <2>2. CASE WriteDuplicate(id)
    BY <1>0, <2>2 DEF WriteDuplicate, CacheInv, TypeOK, NeverInconsistent, Errors
  <2>3. CASE WriteFresh(id)
    BY <2>3, WriteFreshCacheInv
  <2>. QED BY <1>1, <2>1, <2>2, <2>3 DEF Write
<1>2. CASE Read
  <2>1. lounge' \in Seq(Ids)
    BY <1>2, HeadTailProperties DEF Read, CacheInv, TypeOK
  <2>. QED BY <1>0, <1>2, <2>1 DEF Read, CacheInv, TypeOK, NeverInconsistent
<1>3. CASE TurnEnds \/ ReaderExit \/ Interrupt
  BY <1>0, <1>3 DEF TurnEnds, ReaderExit, Interrupt, CacheInv, TypeOK,
                   NeverInconsistent
<1>4. CASE Close
  BY <1>0, <1>4 DEF Close, CacheInv, TypeOK, NeverInconsistent
<1>5. CASE CleanerTick
  BY <1>0, <1>5 DEF CleanerTick, CacheInv, TypeOK, NeverInconsistent
<1>6. CASE CleanerSweep
  BY <1>6, CleanerSweepCacheInv
<1>7. CASE CleanerExit
  BY <1>0, <1>7 DEF CleanerExit, CacheInv, TypeOK, NeverInconsistent
<1>8. CASE Tick
  BY <1>0, <1>8, LoungeAssumption DEF Tick, CacheInv, TypeOK, NeverInconsistent
<1>9. CASE UNCHANGED vars
  BY <1>0, <1>9 DEF vars, CacheInv, TypeOK, NeverInconsistent
<1>. QED BY <1>1, <1>2, <1>3, <1>4, <1>5, <1>6, <1>7, <1>8, <1>9 DEF Next

(***************************************************************************)
(* Every reachable state satisfies CacheInv.                               *)
(***************************************************************************)
THEOREM CacheInvariant == Spec => []CacheInv
<1>. QED BY InitCacheInv, NextCacheInv, PTL DEF Spec

(* Type correctness of the lounge. *)
THEOREM TypeCorrect == Spec => []TypeOK
<1>1. CacheInv => TypeOK
  BY DEF CacheInv
<1>. QED BY <1>1, CacheInvariant, PTL

(* The id map and the heap always agree, and stay within                    *)
(* SwitchIDCacheMaxEntries, whatever is written, evicted, rejected or swept,*)
(* in whatever order.                                                       *)
THEOREM CacheAlwaysConsistent == Spec => []CacheConsistent
<1>1. CacheInv => CacheConsistent
  BY DEF CacheInv, CacheConsistent
<1>. QED BY <1>1, CacheInvariant, PTL

(* The situation that switch_lounge.go:131 says should not occur does not. *)
THEOREM InconsistencyUnreachable == Spec => []NeverInconsistent
<1>1. CacheInv => NeverInconsistent
  BY DEF CacheInv
<1>. QED BY <1>1, CacheInvariant, PTL
-----------------------------------------------------------------------------
(***************************************************************************)
(* What a fresh message does to the cache, in the form the step theorems   *)
(* below need: the items popped were the oldest of a full cache.           *)
(***************************************************************************)
LEMMA WriteFreshCases ==
  ASSUME CacheInv, NEW id \in Ids, WriteFresh(id)
  PROVE  \E gone \in SUBSET ttlHeap :
           /\ gone # {} => CacheFull /\ gone \subseteq Oldest(ttlHeap)
           /\ \/ /\ Len(lounge) < LoungeSize
                 /\ lounge' = Append(lounge, id)
                 /\ forwardedIds' = (forwardedIds \ IdsOf(gone)) \cup {id}
                 /\ ttlHeap' = (ttlHeap \ gone) \cup {Item(id, clock + CacheLifetime)}
              \/ /\ lounge' = lounge
                 /\ forwardedIds' = forwardedIds \ IdsOf(gone)
                 /\ ttlHeap' = ttlHeap \ gone
<1>1. ~(CacheFull /\ ttlHeap = {})
  BY FullCacheHasHeap DEF CacheInv
<1>2. PICK gone \in Victims :
        \/ /\ Len(lounge) < LoungeSize
           /\ lounge' = Append(lounge, id)
           /\ forwardedIds' = (forwardedIds \ IdsOf(gone)) \cup {id}
           /\ ttlHeap' = (ttlHeap \ gone) \cup {Item(id, clock + CacheLifetime)}
        \/ /\ lounge' = lounge
           /\ forwardedIds' = forwardedIds \ IdsOf(gone)
           /\ ttlHeap' = ttlHeap \ gone
  BY <1>1 DEF WriteFresh
<1>3. gone \in SUBSET ttlHeap
  BY EvictionMakesRoom
<1>4. gone # {} => CacheFull /\ gone \subseteq Oldest(ttlHeap)
  BY DEF Victims
<1>. QED BY <1>2, <1>3, <1>4

(* A sweep removes only items whose time had passed when it began, and the  *)
(* clock has not gone back since.                                           *)
LEMMA SweepRemovesExpired ==
  ASSUME CacheInv, CleanerSweep
  PROVE  /\ \A item \in ttlHeap \ ttlHeap' : item.expireAt <= clock
         /\ forwardedIds' \in SUBSET forwardedIds
         /\ ttlHeap' \in SUBSET ttlHeap
         /\ UNCHANGED <<lounge, closed>>
<1>1. \A item \in ttlHeap \ ttlHeap' : item.expireAt <= sweepTime
  <2>. SUFFICES ASSUME NEW item \in ttlHeap \ ttlHeap'
                PROVE  item.expireAt <= sweepTime
    OBVIOUS
  <2>1. ~(item.expireAt > sweepTime)
    BY DEF CleanerSweep, ExpiredAt
  <2>2. item.expireAt \in Nat /\ sweepTime \in Nat
    BY DEF CacheInv, TypeOK, Items
  <2>. QED BY <2>1, <2>2
<1>2. \A item \in ttlHeap \ ttlHeap' : item.expireAt <= clock
  BY <1>1 DEF CacheInv, TypeOK, Items
<1>. QED BY <1>2 DEF CleanerSweep

(* No step forgets a younger id before an older one, except by expiry. *)
THEOREM ForgettingAlwaysOrdered == Spec => ForgettingIsOrdered
<1>1. CacheInv /\ [Next]_vars => [ForgetsOldestOrExpired]_vars
  <2>. SUFFICES ASSUME CacheInv, [Next]_vars
                PROVE  [ForgetsOldestOrExpired]_vars
    OBVIOUS
  <2>0. ASSUME UNCHANGED ttlHeap PROVE ForgetsOldestOrExpired
    BY <2>0 DEF ForgetsOldestOrExpired
  <2>1. ASSUME NEW id \in Ids, Write(id) PROVE ForgetsOldestOrExpired
    <3>1. CASE WriteClosed \/ WriteDuplicate(id)
      BY <2>0, <3>1 DEF WriteClosed, WriteDuplicate
    <3>2. CASE WriteFresh(id)
      <4>1. PICK gone \in SUBSET ttlHeap :
              /\ gone # {} => CacheFull /\ gone \subseteq Oldest(ttlHeap)
              /\ ttlHeap \ gone \subseteq ttlHeap'
        BY <3>2, WriteFreshCases
      <4>. QED BY <4>1 DEF ForgetsOldestOrExpired, Oldest
    <3>. QED BY <2>1, <3>1, <3>2 DEF Write
  <2>2. CASE CleanerSweep
    BY <2>2, SweepRemovesExpired DEF ForgetsOldestOrExpired
  <2>3. CASE \/ Read \/ TurnEnds \/ ReaderExit \/ Interrupt \/ Close
             \/ CleanerTick \/ CleanerExit \/ Tick
    BY <2>0, <2>3 DEF Read, TurnEnds, ReaderExit, Interrupt, Close,
                      CleanerTick, CleanerExit, Tick
  <2>. QED BY <2>1, <2>2, <2>3 DEF Next
<1>. QED BY <1>1, CacheInvariant, PTL DEF Spec, ForgettingIsOrdered

(***************************************************************************)
(* The lounge implements ForwardOnce: a fresh message that is accepted is  *)
(* an Admit, one that is turned away and a sweep are a Forget, Read is a   *)
(* Take, Close is a Shut, and everything else is invisible.                *)
(***************************************************************************)
THEOREM LoungeForwardsOnce == Spec => ForwardsOnce
<1>1. Init => Promise!Init
  BY DEF Init, Promise!Init
<1>2. CacheInv /\ [Next]_vars => [Promise!Next]_(Promise!vars)
  <2>. SUFFICES ASSUME CacheInv, [Next]_vars
                PROVE  [Promise!Next]_(Promise!vars)
    OBVIOUS
  <2>0. ASSUME UNCHANGED <<forwardedIds, lounge, closed>>
        PROVE  [Promise!Next]_(Promise!vars)
    BY <2>0 DEF Promise!vars
  <2>1. ASSUME NEW id \in Ids, Write(id)
        PROVE  [Promise!Next]_(Promise!vars)
    <3>1. CASE WriteClosed \/ WriteDuplicate(id)
      BY <2>0, <3>1 DEF WriteClosed, WriteDuplicate
    <3>2. CASE WriteFresh(id)
      <4>1. ~closed /\ id \notin forwardedIds /\ UNCHANGED closed
        BY <3>2 DEF WriteFresh, AlreadyForwarded
      <4>2. PICK gone \in SUBSET ttlHeap :
              \/ /\ Len(lounge) < LoungeSize
                 /\ lounge' = Append(lounge, id)
                 /\ forwardedIds' = (forwardedIds \ IdsOf(gone)) \cup {id}
              \/ /\ lounge' = lounge
                 /\ forwardedIds' = forwardedIds \ IdsOf(gone)
        BY <3>2, WriteFreshCases
      <4>3. CASE lounge' = lounge
        <5>1. Promise!Forget \/ UNCHANGED <<forwardedIds, lounge, closed>>
          BY <4>1, <4>2, <4>3 DEF Promise!Forget
        <5>. QED BY <2>0, <5>1 DEF Promise!Next
      <4>4. CASE /\ Len(lounge) < LoungeSize
                 /\ lounge' = Append(lounge, id)
                 /\ forwardedIds' = (forwardedIds \ IdsOf(gone)) \cup {id}
        <5>1. Promise!Admit(id)
          BY <4>1, <4>4 DEF Promise!Admit
        <5>. QED BY <5>1 DEF Promise!Next
      <4>. QED BY <4>2, <4>3, <4>4
    <3>. QED BY <2>1, <3>1, <3>2 DEF Write
  <2>2. CASE Read
    BY <2>2 DEF Read, Promise!Take, Promise!Next
  <2>3. CASE Close
    BY <2>3 DEF Close, Promise!Shut, Promise!Next
  <2>4. CASE CleanerSweep
    BY <2>4, SweepRemovesExpired DEF Promise!Forget, Promise!Next
  <2>5. CASE \/ TurnEnds \/ ReaderExit \/ Interrupt
             \/ CleanerTick \/ CleanerExit \/ Tick
    BY <2>0, <2>5 DEF TurnEnds, ReaderExit, Interrupt, CleanerTick,
                      CleanerExit, Tick
  <2>6. CASE UNCHANGED vars
    BY <2>0, <2>6 DEF vars
  <2>. QED BY <2>1, <2>2, <2>3, <2>4, <2>5, <2>6 DEF Next
<1>. QED BY <1>1, <1>2, CacheInvariant, PTL DEF Spec, ForwardsOnce, Promise!Spec
-----------------------------------------------------------------------------
(***************************************************************************)
(* No message waits twice.  The invariant: waiting messages are remembered *)
(* and distinct, and the items that expire no earlier than the one of a    *)
(* waiting message belong to messages waiting behind it.  So if the oldest *)
(* item belonged to a waiting message, every remembered id would wait.     *)
(***************************************************************************)
PendingInv ==
  /\ Len(lounge) <= LoungeSize
  /\ NoDoublePending
  /\ Pending \subseteq forwardedIds
  /\ \A item \in ttlHeap : item.expireAt < clock + CacheLifetime
  /\ \A x, y \in ttlHeap, k \in 1..Len(lounge) :
       x.id = lounge[k] /\ y.expireAt >= x.expireAt
         => \E m \in k..Len(lounge) : y.id = lounge[m]

LEMMA PendingCardinality ==
  ASSUME TypeOK, IsFiniteSet(Pending), NEW S \in SUBSET Pending
  PROVE  Cardinality(S) <= Len(lounge) /\ IsFiniteSet(S)
<1>1. Len(lounge) \in Nat /\ lounge \in [1..Len(lounge) -> Ids]
  BY DEF TypeOK
<1>2. lounge \in Surjection(1..Len(lounge), Pending)
  BY <1>1 DEF Surjection, Pending
<1>3. Cardinality(Pending) <= Len(lounge)
  BY <1>1, <1>2, FS_SurjCardinalityBound DEF ExistsSurjection
<1>4. /\ IsFiniteSet(S)
      /\ Cardinality(S) <= Cardinality(Pending)
      /\ Cardinality(S) \in Nat /\ Cardinality(Pending) \in Nat
  BY FS_Subset, FS_CardinalityType
<1>. QED BY <1>1, <1>3, <1>4

(* The victim of an eviction is not waiting. *)
LEMMA OldestIsNotPending ==
  ASSUME LoungeSize < MaxEntries,
         CacheInv, PendingInv, CacheFull, NEW victim \in Oldest(ttlHeap)
  PROVE  victim.id \notin Pending
<1>. SUFFICES ASSUME NEW k \in 1..Len(lounge), victim.id = lounge[k]
              PROVE  FALSE
  BY DEF Pending
<1>1. victim \in ttlHeap /\ \A y \in ttlHeap : y.expireAt >= victim.expireAt
  BY DEF Oldest, CacheInv, TypeOK, Items
<1>2. \A y \in ttlHeap : \E m \in k..Len(lounge) : y.id = lounge[m]
  BY <1>1 DEF PendingInv
<1>3. forwardedIds \subseteq Pending
  <2>1. Len(lounge) \in Nat
    BY DEF CacheInv, TypeOK
  <2>2. \A m \in k..Len(lounge) : m \in 1..Len(lounge)
    BY <2>1
  <2>. QED BY <1>2, <2>2 DEF Pending, CacheInv, IndexAgrees, IdsOf
<1>4. IsFiniteSet(Pending)
  BY FS_Subset DEF PendingInv, CacheInv
<1>5. Cardinality(forwardedIds) <= Len(lounge)
  BY <1>3, <1>4, PendingCardinality DEF CacheInv
<1>6. Cardinality(forwardedIds) \in Nat /\ Len(lounge) \in Nat
  BY FS_CardinalityType DEF CacheInv, TypeOK
<1>. QED BY <1>5, <1>6, LoungeAssumption DEF CacheFull, PendingInv

(* Forgetting ids that are not waiting, and letting time pass, is harmless. *)
LEMMA ForgettingKeepsPendingInv ==
  ASSUME CacheInv, PendingInv, clock' \in Nat, clock' >= clock,
         UNCHANGED lounge,
         ttlHeap' \in SUBSET ttlHeap,
         Pending \subseteq forwardedIds'
  PROVE  PendingInv'
<1>1. Pending' = Pending
  BY DEF Pending
<1>2. \A item \in ttlHeap' : item.expireAt < clock' + CacheLifetime
  BY LoungeAssumption DEF PendingInv, CacheInv, TypeOK, Items
<1>3. NoDoublePending'
  BY DEF PendingInv, NoDoublePending
<1>. QED BY <1>1, <1>2, <1>3 DEF PendingInv

(* Taking the oldest waiting message moves the others up by one. *)
LEMMA ReadPendingInv ==
  ASSUME CacheInv, PendingInv, Read
  PROVE  PendingInv'
<1>1. /\ lounge \in Seq(Ids) /\ lounge # <<>> /\ lounge' = Tail(lounge)
      /\ UNCHANGED <<forwardedIds, ttlHeap, clock>>
  BY DEF Read, CacheInv, TypeOK
<1>2. /\ Len(lounge) \in Nat
      /\ Len(lounge') = Len(lounge) - 1
      /\ Len(lounge') \in Nat
      /\ \A i \in 1..Len(lounge') : lounge'[i] = lounge[i+1]
  BY <1>1, HeadTailProperties
<1>3. \A i \in 1..Len(lounge') : i + 1 \in 1..Len(lounge)
  BY <1>2
<1>4. Pending' \subseteq Pending
  BY <1>2, <1>3 DEF Pending
<1>5. NoDoublePending'
  <2>. SUFFICES ASSUME NEW i \in 1..Len(lounge'), NEW j \in 1..Len(lounge'),
                       lounge'[i] = lounge'[j]
                PROVE  i = j
    BY DEF NoDoublePending
  <2>1. i + 1 = j + 1
    BY <1>2, <1>3 DEF PendingInv, NoDoublePending
  <2>. QED BY <2>1
<1>6. ASSUME NEW x \in ttlHeap', NEW y \in ttlHeap', NEW k \in 1..Len(lounge'),
             x.id = lounge'[k], y.expireAt >= x.expireAt
      PROVE  \E m \in k..Len(lounge') : y.id = lounge'[m]
  <2>1. PICK m \in (k+1)..Len(lounge) : y.id = lounge[m]
    BY <1>1, <1>2, <1>3, <1>6 DEF PendingInv
  <2>2. m - 1 \in k..Len(lounge') /\ m - 1 \in 1..Len(lounge')
    BY <1>2, <2>1
  <2>3. lounge'[m - 1] = lounge[(m - 1) + 1] /\ (m - 1) + 1 = m
    BY <1>2, <2>2
  <2>. QED BY <2>1, <2>2, <2>3
<1>7. Len(lounge') <= LoungeSize
  BY <1>2, LoungeAssumption DEF PendingInv
<1>. QED BY <1>1, <1>4, <1>5, <1>6, <1>7 DEF PendingInv

(* The new message waits last, and its item expires after all the others. *)
LEMMA AdmitPendingInv ==
  ASSUME CacheInv, PendingInv, ClockStep >= 1,
         NEW id \in Ids, id \notin forwardedIds,
         NEW gone \in SUBSET ttlHeap,
         Pending \cap IdsOf(gone) = {},
         Len(lounge) < LoungeSize,
         lounge' = Append(lounge, id),
         forwardedIds' = (forwardedIds \ IdsOf(gone)) \cup {id},
         ttlHeap' = (ttlHeap \ gone) \cup {Item(id, clock + CacheLifetime)},
         clock' = clock + ClockStep
  PROVE  PendingInv'
<1>. DEFINE new == Item(id, clock + CacheLifetime)
            n == Len(lounge)
<1>0. /\ MaxEntries \in Nat /\ LoungeSize \in Nat
      /\ CacheLifetime \in Nat /\ ClockStep \in Nat
  BY LoungeAssumption
<1>1. /\ n \in Nat /\ Len(lounge') = n + 1
      /\ \A i \in 1..n : lounge'[i] = lounge[i]
      /\ lounge'[n + 1] = id
  BY AppendProperties DEF CacheInv, TypeOK
<1>2. new.id = id /\ new.expireAt = clock + CacheLifetime
  BY DEF Item
<1>3. \A i \in 1..n : lounge[i] # id
  BY DEF PendingInv, Pending
<1>4. \A i \in 1..(n + 1) : i \in 1..n \/ i = n + 1
  BY <1>1
<1>5. /\ clock \in Nat
      /\ \A item \in ttlHeap : item.expireAt \in Nat
      /\ \A item \in ttlHeap : item.expireAt < clock + CacheLifetime
  BY DEF CacheInv, TypeOK, Items, PendingInv
<1>. HIDE DEF new, n
<1>6. Len(lounge') <= LoungeSize
  BY <1>0, <1>1 DEF n
<1>7. NoDoublePending'
  <2>1. \A i, j \in 1..n : lounge[i] = lounge[j] => i = j
    BY DEF PendingInv, NoDoublePending, n
  <2>2. \A i, j \in 1..(n + 1) : lounge'[i] = lounge'[j] => i = j
    BY <1>1, <1>3, <1>4, <2>1
  <2>. QED BY <1>1, <2>2 DEF NoDoublePending
<1>8. (Pending \subseteq forwardedIds)'
  <2>1. Pending' = Pending \cup {id}
    <3>1. Pending' = {lounge'[i] : i \in 1..(n + 1)}
      BY <1>1 DEF Pending
    <3>2. Pending = {lounge[i] : i \in 1..n}
      BY DEF Pending, n
    <3>3. \A i \in 1..n : i \in 1..(n + 1)
      BY <1>1
    <3>4. n + 1 \in 1..(n + 1)
      BY <1>1
    <3>. QED BY <1>1, <1>4, <3>1, <3>2, <3>3, <3>4
  <2>. QED BY <2>1 DEF PendingInv
<1>9. (\A item \in ttlHeap : item.expireAt < clock + CacheLifetime)'
  <2>. SUFFICES ASSUME NEW item \in ttlHeap'
                PROVE  item.expireAt < clock' + CacheLifetime
    OBVIOUS
  <2>1. CASE item = new
    BY <1>0, <1>2, <1>5, <2>1
  <2>2. CASE item \in ttlHeap
    BY <1>0, <1>5, <2>2
  <2>. QED BY <2>1, <2>2 DEF new
<1>10. ASSUME NEW x \in ttlHeap', NEW y \in ttlHeap', NEW k \in 1..(n + 1),
              x.id = lounge'[k], y.expireAt >= x.expireAt
       PROVE  \E m \in k..(n + 1) : y.id = lounge'[m]
  <2>1. n + 1 \in k..(n + 1)
    BY <1>1
  <2>2. CASE y = new
    BY <1>1, <1>2, <2>1, <2>2
  <2>3. CASE y \in ttlHeap /\ x \in ttlHeap /\ k \in 1..n
    <3>1. x.id = lounge[k]
      BY <1>1, <1>10, <2>3
    <3>2. PICK m \in k..n : y.id = lounge[m]
      BY <1>10, <2>3, <3>1 DEF PendingInv, n
    <3>3. m \in 1..n /\ m \in k..(n + 1)
      BY <1>1, <2>3, <3>2
    <3>. QED BY <1>1, <3>2, <3>3
  <2>4. CASE y \in ttlHeap /\ x = new
    BY <1>0, <1>2, <1>5, <1>10, <2>4
  <2>5. CASE x \in ttlHeap /\ k = n + 1
    <3>1. x.id = id
      BY <1>1, <1>10, <2>5
    <3>. QED BY <2>5, <3>1 DEF CacheInv, IndexAgrees, IdsOf
  <2>6. x \in ttlHeap \/ x = new
    BY DEF new
  <2>7. y \in ttlHeap \/ y = new
    BY DEF new
  <2>. QED BY <1>4, <2>2, <2>3, <2>4, <2>5, <2>6, <2>7
<1>. QED BY <1>1, <1>6, <1>7, <1>8, <1>9, <1>10 DEF PendingInv

LEMMA NextPendingInv ==
  ASSUME LoungeSize < MaxEntries, ClockStep >= 1,
         CacheInv, PendingInv, ReaderKeepsUp, [Next]_vars
  PROVE  PendingInv'
<1>0. clock \in Nat /\ ClockStep \in Nat
  BY LoungeAssumption DEF CacheInv, TypeOK
<1>1. ASSUME UNCHANGED <<forwardedIds, ttlHeap, lounge>>,
             clock' \in Nat, clock' >= clock
      PROVE  PendingInv'
  BY <1>1, ForgettingKeepsPendingInv DEF PendingInv
<1>2. ASSUME NEW id \in Ids, WriteFresh(id)
      PROVE  PendingInv'
  <2>1. ~(CacheFull /\ ttlHeap = {})
    BY FullCacheHasHeap DEF CacheInv
  <2>2. PICK gone \in Victims :
          \/ /\ Len(lounge) < LoungeSize
             /\ lounge' = Append(lounge, id)
             /\ forwardedIds' = (forwardedIds \ IdsOf(gone)) \cup {id}
             /\ ttlHeap' = (ttlHeap \ gone) \cup {Item(id, clock + CacheLifetime)}
             /\ clock' = clock + ClockStep
          \/ /\ forwardedIds' = forwardedIds \ IdsOf(gone)
             /\ ttlHeap' = ttlHeap \ gone
             /\ UNCHANGED <<lounge, clock>>
    BY <1>2, <2>1 DEF WriteFresh
  <2>3. gone \in SUBSET ttlHeap
    BY EvictionMakesRoom
  <2>4. Pending \cap IdsOf(gone) = {}
    BY OldestIsNotPending DEF Victims, IdsOf
  <2>5. id \notin forwardedIds
    BY <1>2 DEF WriteFresh, AlreadyForwarded
  <2>6. CASE /\ Len(lounge) < LoungeSize
             /\ lounge' = Append(lounge, id)
             /\ forwardedIds' = (forwardedIds \ IdsOf(gone)) \cup {id}
             /\ ttlHeap' = (ttlHeap \ gone) \cup {Item(id, clock + CacheLifetime)}
             /\ clock' = clock + ClockStep
    BY <2>3, <2>4, <2>5, <2>6, AdmitPendingInv
  <2>7. CASE /\ forwardedIds' = forwardedIds \ IdsOf(gone)
             /\ ttlHeap' = ttlHeap \ gone
             /\ UNCHANGED <<lounge, clock>>
    <3>1. Pending \subseteq forwardedIds'
      BY <2>4, <2>7 DEF PendingInv
    <3>. QED BY <1>0, <2>7, <3>1, ForgettingKeepsPendingInv
  <2>. QED BY <2>2, <2>6, <2>7
<1>3. CASE CleanerSweep
  <2>1. /\ \A item \in ttlHeap \ ttlHeap' : item.expireAt <= clock
        /\ ttlHeap' \in SUBSET ttlHeap
        /\ UNCHANGED <<lounge, clock>>
    BY <1>3, SweepRemovesExpired DEF CleanerSweep
  <2>2. forwardedIds' = IdsOf(ttlHeap')
    BY <1>3, CleanerSweepCacheInv DEF CacheInv, IndexAgrees
  <2>3. Pending \subseteq forwardedIds'
    <3>. SUFFICES ASSUME NEW id \in Pending PROVE id \in forwardedIds'
      OBVIOUS
    <3>1. PICK item \in ttlHeap : item.id = id
      BY DEF PendingInv, CacheInv, IndexAgrees, IdsOf
    <3>2. item.expireAt > clock /\ item.expireAt \in Nat
      BY <3>1 DEF ReaderKeepsUp, CacheInv, TypeOK, Items
    <3>3. item \in ttlHeap'
      BY <1>0, <2>1, <3>2
    <3>. QED BY <2>2, <3>1, <3>3 DEF IdsOf
  <2>. QED BY <1>0, <2>1, <2>3, ForgettingKeepsPendingInv
<1>4. ASSUME NEW id \in Ids, WriteClosed \/ WriteDuplicate(id)
      PROVE  PendingInv'
  BY <1>0, <1>1, <1>4 DEF WriteClosed, WriteDuplicate
<1>5. CASE Read
  BY <1>5, ReadPendingInv
<1>6. CASE \/ TurnEnds \/ ReaderExit \/ Interrupt \/ Close
           \/ CleanerTick \/ CleanerExit
  BY <1>0, <1>1, <1>6 DEF TurnEnds, ReaderExit, Interrupt, Close, CleanerTick,
                          CleanerExit
<1>7. CASE Tick
  BY <1>0, <1>1, <1>7 DEF Tick
<1>8. CASE UNCHANGED vars
  BY <1>0, <1>1, <1>8 DEF vars
<1>. QED BY <1>2, <1>3, <1>4, <1>5, <1>6, <1>7, <1>8 DEF Next, Write

(***************************************************************************)
(* While the reader keeps up, no message waits twice, if the channel is    *)
(* smaller than the cache (configs/switch.go: 65025 below 65536) and the   *)
(* clock tells admissions apart.                                           *)
(***************************************************************************)
THEOREM PendingDistinct ==
  ASSUME LoungeSize < MaxEntries, ClockStep >= 1
  PROVE  Spec => PendingOnce
<1>1. Init => PendingInv
  BY LoungeAssumption DEF Init, PendingInv, NoDoublePending, Pending
<1>2. CacheInv /\ PendingInv /\ ReaderKeepsUp /\ [Next]_vars => PendingInv'
  BY NextPendingInv
<1>3. PendingInv => NoDoublePending
  BY DEF PendingInv
<1>. QED BY <1>1, <1>2, <1>3, CacheInvariant, PTL DEF Spec, PendingOnce
=============================================================================
