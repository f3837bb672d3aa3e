---------------------------- MODULE SwitchLounge ----------------------------
(***************************************************************************)
(* The exchange buffer of a switch node (services/switch_lounge.go): the   *)
(* bounded channel of messages waiting to be forwarded, the cache of the   *)
(* ids already let through with the heap of their expiry times, and the    *)
(* goroutine that cleans the cache.                                        *)
(*                                                                         *)
(* Every method body runs under sl.mutex, so each is one action.  The      *)
(* cleaner reads the time BEFORE it takes the mutex and is therefore two.  *)
(* A message is represented by its discovery id.                           *)
(***************************************************************************)
EXTENDS Naturals, Sequences, FiniteSets

CONSTANTS
  Ids,            \* the discovery ids that reach this node
  MaxEntries,     \* configs.SwitchIDCacheMaxEntries
  LoungeSize,     \* configs.SwitchLoungeSize
  CacheLifetime,  \* configs.SwitchIDCacheLifetime
  ClockStep,      \* least time between two admissions as time.Now() sees it;
                  \* 0 when the clock may be too coarse to tell them apart
  MaxClock        \* bound: the time at which a behaviour stops advancing

ASSUME LoungeAssumption ==
  /\ MaxEntries \in Nat \ {0}
  /\ LoungeSize \in Nat \ {0}
  /\ CacheLifetime \in Nat \ {0}
  /\ ClockStep \in Nat
  /\ MaxClock \in Nat

VARIABLES
  forwardedIds,  \* ids that Write recognises as duplicates
  ttlHeap,       \* the heap, as the set of its items [id, expireAt]
  lounge,        \* the channel of waiting messages, head first
  closed,        \* set by Close, together with the two closed channels
  err,           \* what the last Write returned
  cleaner,       \* where the cleaning goroutine is
  sweepTime,     \* the time it read before asking for the mutex
  reader,        \* the forwarder, the only caller of Read
  sig,           \* the interrupt signal has come
  clock          \* the monotonic clock behind time.Now()

vars == <<forwardedIds, ttlHeap, lounge, closed, err, cleaner, sweepTime,
          reader, sig, clock>>

Item(id, t) == [id |-> id, expireAt |-> t]
Items == [id : Ids, expireAt : Nat]
IdsOf(items) == {item.id : item \in items}

Errors == {"nil", "closed", "inconsistent", "full"}

TypeOK ==
  /\ forwardedIds \in SUBSET Ids
  /\ ttlHeap \in SUBSET Items
  /\ lounge \in Seq(Ids)
  /\ closed \in BOOLEAN
  /\ err \in Errors
  /\ cleaner \in {"waiting", "locking", "done"}
  /\ sweepTime \in Nat
  /\ reader \in {"reading", "forwarding", "done"}
  /\ sig \in BOOLEAN
  /\ clock \in Nat

Init ==
  /\ forwardedIds = {}
  /\ ttlHeap = {}
  /\ lounge = <<>>
  /\ closed = FALSE
  /\ err = "nil"
  /\ cleaner = "waiting"
  /\ sweepTime = 0
  /\ reader = "reading"
  /\ sig = FALSE
  /\ clock = 0
-----------------------------------------------------------------------------
(* Mutant: Less the wrong way round. *)
Newest(heap) == {item \in heap : \A other \in heap : item.expireAt >= other.expireAt}

(***************************************************************************)
(* The heap: Less compares expiry times, so heap.Pop removes an item that  *)
(* no other item precedes; among equal times it may be any of them.        *)
(***************************************************************************)
Oldest(heap) == {item \in heap : \A other \in heap : item.expireAt <= other.expireAt}

(* Mutant: the look-up left out. *)
NeverForwarded(id) == FALSE
AlreadyForwarded(id) == id \in forwardedIds

(* Mutant: off by one. *)
CacheOverfull == Cardinality(forwardedIds) > MaxEntries

CacheFull == Cardinality(forwardedIds) >= MaxEntries

(* The items Write pops before it tries the channel: one when full, else none. *)
Victims == IF CacheFull THEN {{item} : item \in Oldest(ttlHeap)} ELSE {{}}

WriteClosed ==
  /\ closed
  /\ err' = "closed"
  /\ UNCHANGED <<forwardedIds, ttlHeap, lounge, closed, cleaner, sweepTime,
                 reader, sig, clock>>

WriteDuplicate(id) ==
  /\ ~closed
  /\ AlreadyForwarded(id)
  /\ err' = "nil"
  /\ UNCHANGED <<forwardedIds, ttlHeap, lounge, closed, cleaner, sweepTime,
                 reader, sig, clock>>

(* Note the order: the victim is gone whether or not the channel has room. *)
WriteFresh(id) ==
  /\ ~closed
  /\ ~AlreadyForwarded(id)
  /\ IF CacheFull /\ ttlHeap = {}
     THEN /\ err' = "inconsistent"
          /\ UNCHANGED <<forwardedIds, ttlHeap, lounge, clock>>
     ELSE \E gone \in Victims :
       \/ /\ Len(lounge) < LoungeSize
          /\ clock + ClockStep <= MaxClock
          /\ lounge' = Append(lounge, id)
          /\ forwardedIds' = (forwardedIds \ IdsOf(gone)) \cup {id}
          /\ ttlHeap' = (ttlHeap \ gone) \cup {Item(id, clock + CacheLifetime)}
          /\ err' = "nil"
          /\ clock' = clock + ClockStep
       \/ /\ Len(lounge) >= LoungeSize
          /\ forwardedIds' = forwardedIds \ IdsOf(gone)
          /\ ttlHeap' = ttlHeap \ gone
          /\ err' = "full"
          /\ UNCHANGED <<lounge, clock>>
  /\ UNCHANGED <<closed, cleaner, sweepTime, reader, sig>>

Write(id) == WriteClosed \/ WriteDuplicate(id) \/ WriteFresh(id)

(***************************************************************************)
(* The forwarder.  A message that it has received is its turn              *)
(* (SwitchForwarding), in which it may be blocked, after the signal for    *)
(* ever: nobody may drain what it sends to.                                *)
(***************************************************************************)
Read ==
  /\ reader = "reading"
  /\ lounge # <<>>
  /\ lounge' = Tail(lounge)
  /\ reader' = "forwarding"
  /\ UNCHANGED <<forwardedIds, ttlHeap, closed, err, cleaner, sweepTime, sig,
                 clock>>

(* The turn ends, or the signal ends the forwarder in the middle of it. *)
TurnEnds ==
  /\ reader = "forwarding"
  /\ \/ reader' = "reading"
     \/ sig /\ reader' = "done"
  /\ UNCHANGED <<forwardedIds, ttlHeap, lounge, closed, err, cleaner,
                 sweepTime, sig, clock>>

(* At its select it returns on the signal, with messages waiting or not, or *)
(* when the closed channel has been drained.                                *)
ReaderExit ==
  /\ reader = "reading"
  /\ sig \/ (closed /\ lounge = <<>>)
  /\ reader' = "done"
  /\ UNCHANGED <<forwardedIds, ttlHeap, lounge, closed, err, cleaner,
                 sweepTime, sig, clock>>

Interrupt ==
  /\ ~sig
  /\ sig' = TRUE
  /\ UNCHANGED <<forwardedIds, ttlHeap, lounge, closed, err, cleaner,
                 sweepTime, reader, clock>>

(* Called when the core ends, which is after the signal if at all. *)
Close ==
  /\ sig
  /\ closed' = TRUE
  /\ UNCHANGED <<forwardedIds, ttlHeap, lounge, err, cleaner, sweepTime,
                 reader, sig, clock>>
-----------------------------------------------------------------------------
(***************************************************************************)
(* The cleaning goroutine.                                                 *)
(***************************************************************************)
CleanerTick ==
  /\ cleaner = "waiting"
  /\ cleaner' = "locking"
  /\ sweepTime' = clock
  /\ UNCHANGED <<forwardedIds, ttlHeap, lounge, closed, err, reader, sig, clock>>

(* Popping while the top is not after t removes exactly these items. *)
ExpiredAt(heap, t) == {item \in heap : ~(item.expireAt > t)}

(* Mutant: items popped, their ids left in the map. *)
CleanerSweepHeapOnly ==
  /\ cleaner = "locking"
  /\ cleaner' = "waiting"
  /\ sweepTime' = 0
  /\ ttlHeap' = ttlHeap \ ExpiredAt(ttlHeap, sweepTime)
  /\ UNCHANGED <<forwardedIds, lounge, closed, err, reader, sig, clock>>

CleanerSweep ==
  LET gone == ExpiredAt(ttlHeap, sweepTime) IN
  /\ cleaner = "locking"
  /\ cleaner' = "waiting"
  /\ sweepTime' = 0
  /\ ttlHeap' = ttlHeap \ gone
  /\ forwardedIds' = forwardedIds \ IdsOf(gone)
  /\ UNCHANGED <<lounge, closed, err, reader, sig, clock>>

(* Mutant: Close does not close closeSig. *)
CloseUnsignalled == FALSE

CloseSignalled == closed

CleanerExit ==
  /\ cleaner = "waiting"
  /\ CloseSignalled
  /\ cleaner' = "done"
  /\ UNCHANGED <<forwardedIds, ttlHeap, lounge, closed, err, sweepTime,
                 reader, sig, clock>>

Tick ==
  /\ clock < MaxClock
  /\ clock' = clock + 1
  /\ UNCHANGED <<forwardedIds, ttlHeap, lounge, closed, err, cleaner,
                 sweepTime, reader, sig>>

Next ==
  \/ \E id \in Ids : Write(id)
  \/ Read \/ TurnEnds \/ ReaderExit
  \/ Interrupt \/ Close
  \/ CleanerTick \/ CleanerSweep \/ CleanerExit
  \/ Tick

Spec == Init /\ [][Next]_vars

(***************************************************************************)
(* The cleaner's select loop runs as long as the process does.  Both of    *)
(* its cases are served: the runtime picks at random among the ready ones, *)
(* hence strong fairness for the close signal, which competes with ticks.  *)
(* None for the forwarder, which may be blocked in a turn.                 *)
(***************************************************************************)
Fairness ==
  /\ WF_vars(CleanerTick)
  /\ WF_vars(CleanerSweep)
  /\ SF_vars(CleanerExit)

FairSpec == Spec /\ Fairness
-----------------------------------------------------------------------------
(***************************************************************************)
(* Safety                                                                  *)
(***************************************************************************)
(* The id map and the expiry heap describe the same ids, each id once, so  *)
(* that what the cleaner and the eviction pop is what Write looks up.      *)
IndexAgrees ==
  /\ forwardedIds = IdsOf(ttlHeap)
  /\ \A i, j \in ttlHeap : i.id = j.id => i = j

(* The cache never outgrows its configured limit. *)
CacheBounded == Cardinality(forwardedIds) <= MaxEntries

(* No order of writes, evictions and sweeps takes map, heap and limit apart. *)
CacheConsistent == IndexAgrees /\ CacheBounded

(* Write never returns the error of switch_lounge.go:132, which its comment *)
(* calls a situation that should not occur.                                 *)
NeverInconsistent == err # "inconsistent"

Pending == {lounge[i] : i \in 1..Len(lounge)}

NoDoublePending ==
  \A i, j \in 1..Len(lounge) : lounge[i] = lounge[j] => i = j

ReaderKeepsUp ==
  \A item \in ttlHeap : item.id \in Pending => item.expireAt > clock

AdmissionsDiffer ==
  \A i, j \in ttlHeap : i.expireAt = j.expireAt => i = j

(* No message waits in the channel twice.  The configured limits (65025     *)
(* below 65536) are what makes it so: an eviction needs MaxEntries          *)
(* remembered ids, more than can be waiting, so the oldest of them has left *)
(* the channel.  It takes a clock that separates admissions and a reader    *)
(* that keeps up: an id must not expire while its message waits.            *)
PendingOnce == [](ReaderKeepsUp /\ AdmissionsDiffer) => []NoDoublePending

(* An id is forgotten only when its lifetime has passed, or as the oldest   *)
(* of a full cache: never a younger id before an older one.                 *)
ForgetsOldestOrExpired ==
  \A item \in ttlHeap \ ttlHeap' :
    \/ item.expireAt <= clock
    \/ CacheFull /\ \A other \in ttlHeap : item.expireAt <= other.expireAt

ForgettingIsOrdered == [][ForgetsOldestOrExpired]_vars
-----------------------------------------------------------------------------
(***************************************************************************)
(* Liveness                                                                *)
(***************************************************************************)
Expired(id) == \E item \in ttlHeap : item.id = id /\ item.expireAt <= clock

(* Every id whose lifetime has passed is eventually accepted again. *)
ExpiredIdsAreDropped ==
  \A id \in Ids : Expired(id) ~> (id \notin forwardedIds \/ closed)

(* Once Close is called the cleaner ends, whatever the forwarder does: it   *)
(* competes with ticks and sweeps, and the two channels that Close closes   *)
(* end different goroutines.  That the forwarder ends is not promised.      *)
CloseEndsCleaner == closed ~> cleaner = "done"
-----------------------------------------------------------------------------
(***************************************************************************)
(* The lounge is an implementation of ForwardOnce.                         *)
(***************************************************************************)
Promise == INSTANCE ForwardOnce WITH
  Capacity <- LoungeSize,
  remembered <- forwardedIds,
  buffer <- lounge,
  shut <- closed

ForwardsOnce == Promise!Spec
=============================================================================
