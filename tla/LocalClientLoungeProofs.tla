---------------------- MODULE LocalClientLoungeProofs ----------------------
(***************************************************************************)
(* Proofs about LocalClientLounge, for any number of clients, readers and  *)
(* adders.  The mutex belongs to the one giver that is at work; that keeps *)
(* the clients as they are while it hands them out.                        *)
(***************************************************************************)
EXTENDS LocalClientLounge, TLAPS

(* The mutex is held by the giver at work, of which there is one at most.   *)
OneGiver == \A r \in Readers : giver[r] = "giving" <=> mutex = r

(* A reader starts a round only when the giver of the last one has ended.   *)
IdleWithoutGiver == \A r \in Readers : reader[r] = "idle" => giver[r] = "none"

LoungeInv ==
  /\ TypeOK
  /\ OneGiver
  /\ IdleWithoutGiver
  /\ RoundIsSnapshot
  /\ NothingAfterClose
  /\ FreshIsKnown

LEMMA InitLoungeInv == Init => LoungeInv
<1>. SUFFICES ASSUME Init PROVE LoungeInv
  OBVIOUS
<1>1. TypeOK
  <2>1. /\ expireAt \in [Ports -> 0..(MaxClock + Lifetime)]
        /\ sends \in [Readers -> 0..MaxSends]
        /\ backlog \in [Readers -> 0..ChanSize]
        /\ clock \in 0..MaxClock
    BY LocalClientAssumption DEF Init
  <2>2. /\ giver \in [Readers -> {"none", "locking", "giving"}]
        /\ left \in [Readers -> SUBSET Ports]
        /\ given \in [Readers -> SUBSET Ports]
        /\ reader \in [Readers -> {"idle", "receiving", "working", "done"}]
        /\ drained \in [Readers -> BOOLEAN]
    BY DEF Init
  <2>3. adder \in [Adders -> {"idle", "adding", "closing", "done"}]
    BY DEF Init
  <2>. QED BY <2>1, <2>2, <2>3 DEF Init, TypeOK
<1>2. OneGiver /\ IdleWithoutGiver
  BY LocalClientAssumption DEF Init, OneGiver, IdleWithoutGiver
<1>3. RoundIsSnapshot /\ NothingAfterClose
  BY DEF Init, RoundIsSnapshot, NothingAfterClose
<1>4. FreshIsKnown
  BY DEF Init, FreshIsKnown
<1>. QED BY <1>1, <1>2, <1>3, <1>4 DEF LoungeInv
-----------------------------------------------------------------------------
(***************************************************************************)
(* Types.                                                                  *)
(***************************************************************************)
LEMMA NextTypeOK ==
  ASSUME TypeOK, [Next]_vars
  PROVE  TypeOK'
<1>. USE LocalClientAssumption DEF TypeOK, loungeVars, giverVars, readerVars
<1>1. ASSUME NEW a \in Adders, WantAdd(a) PROVE TypeOK'
  BY <1>1 DEF WantAdd
<1>2. ASSUME NEW a \in Adders, NEW p \in Ports, Add(a, p) PROVE TypeOK'
  BY <1>2 DEF Add
<1>3. ASSUME NEW a \in Adders, AdderExit(a) PROVE TypeOK'
  BY <1>3 DEF AdderExit
<1>4. CASE Close
  BY <1>4 DEF Close
<1>5. ASSUME NEW r \in Readers, StartRound(r) PROVE TypeOK'
  BY <1>5 DEF StartRound
<1>6. ASSUME NEW r \in Readers, GiverLocks(r) PROVE TypeOK'
  BY <1>6 DEF GiverLocks
<1>7. ASSUME NEW r \in Readers, NEW p \in Ports, HandOver(r, p) PROVE TypeOK'
  BY <1>7 DEF HandOver
<1>8. ASSUME NEW r \in Readers, ReaderSends(r) PROVE TypeOK'
  BY <1>8 DEF ReaderSends
<1>9. ASSUME NEW r \in Readers, ReaderReturns(r) \/ ReaderQuits(r)
      PROVE  TypeOK'
  BY <1>9 DEF ReaderReturns, ReaderQuits
<1>10. ASSUME NEW r \in Readers, GiverEnds(r) PROVE TypeOK'
  BY <1>10 DEF GiverEnds
<1>11. ASSUME NEW r \in Readers, RoundEnds(r) \/ ReaderExits(r) PROVE TypeOK'
  BY <1>11 DEF RoundEnds, ReaderExits
<1>12. ASSUME NEW r \in Readers, Drain(r) \/ DrainEnds(r) PROVE TypeOK'
  <2>1. CASE Drain(r)
    <3>1. backlog' \in [Readers -> 0..ChanSize]
      BY <2>1 DEF Drain
    <3>. QED BY <2>1, <3>1 DEF Drain
  <2>2. CASE DrainEnds(r)
    BY <2>2 DEF DrainEnds
  <2>. QED BY <1>12, <2>1, <2>2
<1>13. CASE CleanerTick \/ CleanerSweep \/ CleanerExit
  BY <1>13 DEF CleanerTick, CleanerSweep, CleanerExit
<1>14. CASE Tick \/ Interrupt
  <2>1. CASE Tick
    BY <2>1 DEF Tick
  <2>2. CASE Interrupt
    BY <2>2 DEF Interrupt
  <2>. QED BY <1>14, <2>1, <2>2
<1>15. CASE UNCHANGED vars
  BY <1>15 DEF vars
<1>. QED
  BY <1>1, <1>2, <1>3, <1>4, <1>5, <1>6, <1>7, <1>8, <1>9, <1>10, <1>11,
     <1>12, <1>13, <1>14, <1>15 DEF Next
-----------------------------------------------------------------------------
(***************************************************************************)
(* The lounge.                                                             *)
(***************************************************************************)
(* What neither the lounge nor a giver takes part in. *)
LEMMA ElsewhereKeepsInv ==
  ASSUME LoungeInv, TypeOK', UNCHANGED <<loungeVars, giverVars, clock>>,
         IdleWithoutGiver'
  PROVE  LoungeInv'
BY DEF LoungeInv, OneGiver, RoundIsSnapshot, NothingAfterClose, FreshIsKnown,
       loungeVars, giverVars

(* Add, Close and the sweep have the mutex, so that no giver is at work. *)
LEMMA MutexKeepsInv ==
  ASSUME LoungeInv, TypeOK', mutex = Nobody, UNCHANGED <<giverVars, reader, clock>>,
         FreshIsKnown'
  PROVE  LoungeInv'
<1>1. \A r \in Readers : giver[r] # "giving"
  BY LocalClientAssumption DEF LoungeInv, OneGiver
<1>. QED
  BY <1>1 DEF LoungeInv, OneGiver, IdleWithoutGiver, RoundIsSnapshot,
              NothingAfterClose, giverVars

LEMMA NextLoungeInv ==
  ASSUME LoungeInv, [Next]_vars
  PROVE  LoungeInv'
<1>1. TypeOK /\ TypeOK'
  BY NextTypeOK DEF LoungeInv
<1>2. ASSUME NEW a \in Adders, WantAdd(a) \/ AdderExit(a) PROVE LoungeInv'
  <2>1. IdleWithoutGiver'
    BY <1>2 DEF WantAdd, AdderExit, LoungeInv, IdleWithoutGiver, readerVars,
                giverVars
  <2>. QED BY <1>1, <1>2, <2>1, ElsewhereKeepsInv DEF WantAdd, AdderExit
<1>3. ASSUME NEW a \in Adders, NEW p \in Ports, Add(a, p) PROVE LoungeInv'
  <2>1. FreshIsKnown'
    BY <1>1, <1>3 DEF Add, LoungeInv, FreshIsKnown, TypeOK
  <2>. QED BY <1>1, <1>3, <2>1, MutexKeepsInv DEF Add, readerVars
<1>4. CASE Close
  <2>1. FreshIsKnown'
    BY <1>4 DEF Close, LoungeInv, FreshIsKnown
  <2>. QED BY <1>1, <1>4, <2>1, MutexKeepsInv DEF Close, readerVars
<1>5. ASSUME NEW r \in Readers, StartRound(r) PROVE LoungeInv'
  <2>1. giver[r] = "none"
    BY <1>5 DEF StartRound, LoungeInv, IdleWithoutGiver
  <2>2. \A x \in Readers : giver'[x] = "giving" <=> giver[x] = "giving"
    BY <1>1, <1>5, <2>1 DEF StartRound, TypeOK
  <2>3. IdleWithoutGiver'
    BY <1>1, <1>5 DEF StartRound, LoungeInv, IdleWithoutGiver, TypeOK
  <2>. QED
    BY <1>1, <1>5, <2>2, <2>3
       DEF StartRound, LoungeInv, OneGiver, RoundIsSnapshot,
           NothingAfterClose, FreshIsKnown, loungeVars
<1>6. ASSUME NEW r \in Readers, GiverLocks(r) PROVE LoungeInv'
  <2>1. \A x \in Readers : giver'[x] = "giving" <=> x = r
    BY <1>1, <1>6, LocalClientAssumption
       DEF GiverLocks, LoungeInv, OneGiver, TypeOK
  <2>2. left'[r] = (IF closed THEN {} ELSE clients) /\ given'[r] = {}
    BY <1>1, <1>6 DEF GiverLocks, TypeOK
  <2>3. IdleWithoutGiver'
    BY <1>1, <1>6
       DEF GiverLocks, LoungeInv, IdleWithoutGiver, TypeOK, readerVars
  <2>. QED
    BY <1>1, <1>6, <2>1, <2>2, <2>3
       DEF GiverLocks, LoungeInv, OneGiver, RoundIsSnapshot,
           NothingAfterClose, FreshIsKnown, loungeVars
<1>7. ASSUME NEW r \in Readers, NEW p \in Ports, HandOver(r, p)
      PROVE  LoungeInv'
  <2>1. /\ left'[r] = left[r] \ {p} /\ given'[r] = given[r] \cup {p}
        /\ \A x \in Readers \ {r} : left'[x] = left[x] /\ given'[x] = given[x]
    BY <1>1, <1>7 DEF HandOver, TypeOK
  <2>2. p \in left[r]
    BY <1>7 DEF HandOver
  <2>3. RoundIsSnapshot'
    BY <1>7, <2>1, <2>2 DEF HandOver, LoungeInv, RoundIsSnapshot, loungeVars
  <2>4. NothingAfterClose'
    BY <1>7, <2>1 DEF HandOver, LoungeInv, NothingAfterClose, loungeVars
  <2>5. IdleWithoutGiver'
    BY <1>1, <1>7 DEF HandOver, LoungeInv, IdleWithoutGiver, TypeOK
  <2>. QED
    BY <1>1, <1>7, <2>3, <2>4, <2>5
       DEF HandOver, LoungeInv, OneGiver, FreshIsKnown, loungeVars
<1>8. ASSUME NEW r \in Readers,
             \/ ReaderSends(r) \/ ReaderReturns(r) \/ ReaderQuits(r)
             \/ RoundEnds(r) \/ ReaderExits(r) \/ Drain(r) \/ DrainEnds(r)
      PROVE  LoungeInv'
  <2>1. IdleWithoutGiver'
    BY <1>1, <1>8
       DEF ReaderSends, ReaderReturns, ReaderQuits, RoundEnds, ReaderExits,
           Drain, DrainEnds, LoungeInv, IdleWithoutGiver, TypeOK, giverVars
  <2>. QED
    BY <1>1, <1>8, <2>1, ElsewhereKeepsInv
       DEF ReaderSends, ReaderReturns, ReaderQuits, RoundEnds, ReaderExits,
           Drain, DrainEnds
<1>9. ASSUME NEW r \in Readers, GiverEnds(r) PROVE LoungeInv'
  <2>1. \A x \in Readers : giver'[x] # "giving"
    BY <1>1, <1>9 DEF GiverEnds, LoungeInv, OneGiver, TypeOK
  <2>2. IdleWithoutGiver'
    BY <1>1, <1>9
       DEF GiverEnds, LoungeInv, IdleWithoutGiver, TypeOK, readerVars
  <2>. QED
    BY <1>1, <1>9, <2>1, <2>2, LocalClientAssumption
       DEF GiverEnds, LoungeInv, OneGiver, RoundIsSnapshot,
           NothingAfterClose, FreshIsKnown, loungeVars
<1>10. CASE CleanerSweep
  <2>1. FreshIsKnown'
    BY <1>1, <1>10
       DEF CleanerSweep, Expired, LoungeInv, FreshIsKnown, TypeOK
  <2>. QED BY <1>1, <1>10, <2>1, MutexKeepsInv DEF CleanerSweep, readerVars
<1>11. CASE CleanerTick \/ CleanerExit \/ Interrupt
  <2>1. IdleWithoutGiver'
    BY <1>11 DEF CleanerTick, CleanerExit, Interrupt, LoungeInv,
                 IdleWithoutGiver, readerVars, giverVars
  <2>. QED
    BY <1>1, <1>11, <2>1, ElsewhereKeepsInv
       DEF CleanerTick, CleanerExit, Interrupt
<1>12. CASE Tick
  BY <1>1, <1>12
     DEF Tick, LoungeInv, TypeOK, OneGiver, IdleWithoutGiver,
         RoundIsSnapshot, NothingAfterClose, FreshIsKnown, loungeVars,
         giverVars, readerVars
<1>13. CASE UNCHANGED vars
  <2>1. IdleWithoutGiver'
    BY <1>13
       DEF vars, LoungeInv, IdleWithoutGiver, readerVars, giverVars
  <2>. QED BY <1>1, <1>13, <2>1, ElsewhereKeepsInv DEF vars
<1>. QED
  BY <1>2, <1>3, <1>4, <1>5, <1>6, <1>7, <1>8, <1>9, <1>10, <1>11, <1>12,
     <1>13 DEF Next
-----------------------------------------------------------------------------
(***************************************************************************)
(* Theorems.                                                               *)
(***************************************************************************)
(* The inductive invariant: types, who holds the mutex, and what that means *)
(* for rounds and lifetimes.                                                *)
THEOREM LocalClientInvariant == Spec => []LoungeInv
BY InitLoungeInv, NextLoungeInv, PTL DEF Spec

(* Type correctness, the limits of the channels behind the readers included.*)
THEOREM LocalClientTypeCorrect == Spec => []TypeOK
<1>1. LoungeInv => TypeOK
  BY DEF LoungeInv
<1>. QED BY <1>1, LocalClientInvariant, PTL

(* A round hands out exactly the clients of the lounge, each once.          *)
THEOREM RoundAlwaysSnapshot == Spec => []RoundIsSnapshot
<1>1. LoungeInv => RoundIsSnapshot
  BY DEF LoungeInv
<1>. QED BY <1>1, LocalClientInvariant, PTL

(* Nothing is handed out of a closed lounge.                                *)
THEOREM NothingEverAfterClose == Spec => []NothingAfterClose
<1>1. LoungeInv => NothingAfterClose
  BY DEF LoungeInv
<1>. QED BY <1>1, LocalClientInvariant, PTL

(* No client is dropped before its lifetime has passed.                     *)
THEOREM FreshAlwaysKnown == Spec => []FreshIsKnown
<1>1. LoungeInv => FreshIsKnown
  BY DEF LoungeInv
<1>. QED BY <1>1, LocalClientInvariant, PTL
=============================================================================
