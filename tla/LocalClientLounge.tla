------------------------- MODULE LocalClientLounge -------------------------
(***************************************************************************)
(* What a node knows of the LocalSend clients on its own machine           *)
(* (services/local_client_lounge.go), with the goroutines around it: the   *)
(* main loop and the alive checker add clients, a cleaner drops expired    *)
(* ones, and the forwarder and the broadcaster read them all.              *)
(*                                                                         *)
(* Add, Close and a sweep run under lcl.mutex without blocking and are one *)
(* action each.  SyncGet starts a goroutine, the giver, that keeps the     *)
(* mutex while it hands out the clients one by one over an unbuffered      *)
(* channel, so while its reader works on what it got; and that work can    *)
(* block on a full channel (services/switch_core.go).                      *)
(***************************************************************************)
EXTENDS Naturals, FiniteSets

CONSTANTS
  Ports,         \* ports of local clients, the keys of the lounge
  Readers,       \* the loops that call SyncGet
  Quitters,      \* those that give up a blocked send on the signal
  Adders,        \* the loops that call Add
  Nobody,        \* "the mutex is free"
  Lifetime,      \* configs.GetLocalClientInfoCacheLifetime
  ChanSize,      \* what the channel behind a reader holds
  MaxSends,      \* most messages a reader makes of one client
  MaxClock,      \* bound: the time at which a behaviour stops advancing
  MayInterrupt   \* whether the interrupt signal can come in this instance

ASSUME LocalClientAssumption ==
  /\ IsFiniteSet(Ports)
  /\ Quitters \subseteq Readers
  /\ Readers \cap Adders = {}
  /\ "main" \in Adders
  /\ Nobody \notin Readers
  /\ Lifetime \in Nat \ {0}
  /\ ChanSize \in Nat \ {0}
  /\ MaxSends \in Nat
  /\ MaxClock \in Nat
  /\ MayInterrupt \in BOOLEAN

VARIABLES
  clients,   \* the ports in clientInfos
  expireAt,  \* when each of them expires
  closed,    \* the lounge is closed, and closeSignal with it
  mutex,     \* the reader whose giver holds the mutex, or Nobody
  giver,     \* where the giver of each reader is
  left,      \* the clients it has yet to hand out
  given,     \* those it has handed out in this round
  reader,    \* where each reader is
  sends,     \* messages a reader has yet to send for the client it got
  backlog,   \* messages in the channel behind each reader
  drained,   \* whether that channel still has a consumer
  adder,     \* where each adder is
  cleaner,   \* the cleaning goroutine
  clock,     \* time.Now()
  sig        \* the interrupt signal has come

loungeVars == <<clients, expireAt, closed>>
giverVars == <<mutex, giver, left, given>>
readerVars == <<reader, sends, backlog, drained>>
vars == <<loungeVars, giverVars, readerVars, adder, cleaner, clock, sig>>

TypeOK ==
  /\ clients \in SUBSET Ports
  /\ expireAt \in [Ports -> 0..(MaxClock + Lifetime)]
  /\ closed \in BOOLEAN
  /\ mutex \in Readers \cup {Nobody}
  /\ giver \in [Readers -> {"none", "locking", "giving"}]
  /\ left \in [Readers -> SUBSET Ports]
  /\ given \in [Readers -> SUBSET Ports]
  /\ reader \in [Readers -> {"idle", "receiving", "working", "done"}]
  /\ sends \in [Readers -> 0..MaxSends]
  /\ backlog \in [Readers -> 0..ChanSize]
  /\ drained \in [Readers -> BOOLEAN]
  /\ adder \in [Adders -> {"idle", "adding", "closing", "done"}]
  /\ cleaner \in {"waiting", "sweeping", "done"}
  /\ clock \in 0..MaxClock
  /\ sig \in BOOLEAN

Init ==
  /\ clients = {}
  /\ expireAt = [p \in Ports |-> 0]
  /\ closed = FALSE
  /\ mutex = Nobody
  /\ giver = [r \in Readers |-> "none"]
  /\ left = [r \in Readers |-> {}]
  /\ given = [r \in Readers |-> {}]
  /\ reader = [r \in Readers |-> "idle"]
  /\ sends = [r \in Readers |-> 0]
  /\ backlog = [r \in Readers |-> 0]
  /\ drained = [r \in Readers |-> TRUE]
  /\ adder = [a \in Adders |-> "idle"]
  /\ cleaner = "waiting"
  /\ clock = 0
  /\ sig = FALSE
-----------------------------------------------------------------------------
(***************************************************************************)
(* Add and Close.                                                          *)
(***************************************************************************)
(* A multicast message or a probe's answer has come. *)
WantAdd(a) ==
  /\ adder[a] = "idle"
  /\ adder' = [adder EXCEPT ![a] = "adding"]
  /\ UNCHANGED <<loungeVars, giverVars, readerVars, cleaner, clock, sig>>

Add(a, p) ==
  /\ adder[a] = "adding"
  /\ mutex = Nobody
  /\ adder' = [adder EXCEPT ![a] = "idle"]
  /\ IF closed
     THEN UNCHANGED <<clients, expireAt>>
     ELSE /\ clients' = clients \cup {p}
          /\ expireAt' = [expireAt EXCEPT ![p] = clock + Lifetime]
  /\ UNCHANGED <<closed, giverVars, readerVars, cleaner, clock, sig>>

(* The main loop goes on to its deferred clean-up, whose first step is      *)
(* Close; the checker just ends.                                            *)
AdderExit(a) ==
  /\ adder[a] = "idle"
  /\ sig
  /\ adder' = [adder EXCEPT ![a] = IF a = "main" THEN "closing" ELSE "done"]
  /\ UNCHANGED <<loungeVars, giverVars, readerVars, cleaner, clock, sig>>

(* Mutant: Close without the mutex. *)
CloseUnlocked ==
  /\ adder["main"] = "closing"
  /\ adder' = [adder EXCEPT !["main"] = "done"]
  /\ closed' = TRUE
  /\ UNCHANGED <<clients, expireAt, giverVars, readerVars, cleaner, clock, sig>>

Close ==
  /\ adder["main"] = "closing"
  /\ mutex = Nobody
  /\ adder' = [adder EXCEPT !["main"] = "done"]
  /\ closed' = TRUE
  /\ UNCHANGED <<clients, expireAt, giverVars, readerVars, cleaner, clock, sig>>
-----------------------------------------------------------------------------
(***************************************************************************)
(* SyncGet and its readers.                                                *)
(***************************************************************************)
(* The forwarder has a message from elsewhere, or the broadcaster's ticker  *)
(* has fired: SyncGet starts a giver.                                       *)
StartRound(r) ==
  /\ reader[r] = "idle"
  /\ reader' = [reader EXCEPT ![r] = "receiving"]
  /\ giver' = [giver EXCEPT ![r] = "locking"]
  /\ UNCHANGED <<loungeVars, mutex, left, given, sends, backlog, drained,
                 adder, cleaner, clock, sig>>

GiverLocks(r) ==
  /\ giver[r] = "locking"
  /\ mutex = Nobody
  /\ mutex' = r
  /\ giver' = [giver EXCEPT ![r] = "giving"]
  /\ left' = [left EXCEPT ![r] = IF closed THEN {} ELSE clients]
  /\ given' = [given EXCEPT ![r] = {}]
  /\ UNCHANGED <<loungeVars, readerVars, adder, cleaner, clock, sig>>

(* The unbuffered channel: giver and reader meet. *)
HandOver(r, p) ==
  /\ giver[r] = "giving"
  /\ reader[r] = "receiving"
  /\ p \in left[r]
  /\ left' = [left EXCEPT ![r] = @ \ {p}]
  /\ given' = [given EXCEPT ![r] = @ \cup {p}]
  /\ reader' = [reader EXCEPT ![r] = "working"]
  /\ \E n \in 0..MaxSends : sends' = [sends EXCEPT ![r] = n]
  /\ UNCHANGED <<loungeVars, mutex, giver, backlog, drained, adder, cleaner,
                 clock, sig>>

(* The send blocks while the channel is full. *)
ReaderSends(r) ==
  /\ reader[r] = "working"
  /\ sends[r] > 0
  /\ backlog[r] < ChanSize
  /\ sends' = [sends EXCEPT ![r] = @ - 1]
  /\ backlog' = [backlog EXCEPT ![r] = @ + 1]
  /\ UNCHANGED <<loungeVars, giverVars, reader, drained, adder, cleaner, clock,
                 sig>>

ReaderReturns(r) ==
  /\ reader[r] = "working"
  /\ sends[r] = 0
  /\ reader' = [reader EXCEPT ![r] = "receiving"]
  /\ UNCHANGED <<loungeVars, giverVars, sends, backlog, drained, adder,
                 cleaner, clock, sig>>

(* The forwarder returns in the middle of its round. *)
ReaderQuits(r) ==
  /\ r \in Quitters
  /\ sig
  /\ reader[r] = "working"
  /\ sends[r] > 0
  /\ reader' = [reader EXCEPT ![r] = "done"]
  /\ UNCHANGED <<loungeVars, giverVars, sends, backlog, drained, adder,
                 cleaner, clock, sig>>

(* Mutant: no Unlock. *)
GiverEndsLocked(r) ==
  /\ giver[r] = "giving"
  /\ left[r] = {}
  /\ giver' = [giver EXCEPT ![r] = "none"]
  /\ UNCHANGED <<loungeVars, mutex, left, given, readerVars, adder, cleaner,
                 clock, sig>>

(* The deferred Unlock, then the deferred close of the channel, which ends  *)
(* the reader's range loop.                                                 *)
GiverEnds(r) ==
  /\ giver[r] = "giving"
  /\ left[r] = {}
  /\ mutex' = Nobody
  /\ giver' = [giver EXCEPT ![r] = "none"]
  /\ UNCHANGED <<loungeVars, left, given, readerVars, adder, cleaner, clock,
                 sig>>

RoundEnds(r) ==
  /\ reader[r] = "receiving"
  /\ giver[r] = "none"
  /\ reader' = [reader EXCEPT ![r] = "idle"]
  /\ UNCHANGED <<loungeVars, giverVars, sends, backlog, drained, adder,
                 cleaner, clock, sig>>

ReaderExits(r) ==
  /\ reader[r] = "idle"
  /\ sig
  /\ reader' = [reader EXCEPT ![r] = "done"]
  /\ UNCHANGED <<loungeVars, giverVars, sends, backlog, drained, adder,
                 cleaner, clock, sig>>

(* The HTTP workers behind the forwarder and the senders behind the         *)
(* broadcaster take messages, until they end on the signal.                 *)
Drain(r) ==
  /\ drained[r]
  /\ backlog[r] > 0
  /\ backlog' = [backlog EXCEPT ![r] = @ - 1]
  /\ UNCHANGED <<loungeVars, giverVars, reader, sends, drained, adder, cleaner,
                 clock, sig>>

DrainEnds(r) ==
  /\ drained[r]
  /\ sig
  /\ drained' = [drained EXCEPT ![r] = FALSE]
  /\ UNCHANGED <<loungeVars, giverVars, reader, sends, backlog, adder, cleaner,
                 clock, sig>>
-----------------------------------------------------------------------------
(***************************************************************************)
(* The cleaner, time and the signal.                                       *)
(***************************************************************************)
(* Mutant: the last moment of the lifetime is taken for past. *)
ExpiredEarly(p) == p \in clients /\ expireAt[p] <= clock

Expired(p) == p \in clients /\ expireAt[p] < clock

CleanerTick ==
  /\ cleaner = "waiting"
  /\ cleaner' = "sweeping"
  /\ UNCHANGED <<loungeVars, giverVars, readerVars, adder, clock, sig>>

(* Mutant: the sweep does not take the mutex. *)
CleanerSweepUnlocked ==
  /\ cleaner = "sweeping"
  /\ clients' = {p \in clients : ~Expired(p)}
  /\ cleaner' = "waiting"
  /\ UNCHANGED <<expireAt, closed, giverVars, readerVars, adder, clock, sig>>

(* Mutant: the goroutine returns after its first sweep. *)
CleanerSweepOnce ==
  /\ cleaner = "sweeping"
  /\ mutex = Nobody
  /\ clients' = {p \in clients : ~Expired(p)}
  /\ cleaner' = "done"
  /\ UNCHANGED <<expireAt, closed, giverVars, readerVars, adder, clock, sig>>

CleanerSweep ==
  /\ cleaner = "sweeping"
  /\ mutex = Nobody
  /\ clients' = {p \in clients : ~Expired(p)}
  /\ cleaner' = "waiting"
  /\ UNCHANGED <<expireAt, closed, giverVars, readerVars, adder, clock, sig>>

CleanerExit ==
  /\ cleaner = "waiting"
  /\ closed
  /\ cleaner' = "done"
  /\ UNCHANGED <<loungeVars, giverVars, readerVars, adder, clock, sig>>

Tick ==
  /\ clock < MaxClock
  /\ clock' = clock + 1
  /\ UNCHANGED <<loungeVars, giverVars, readerVars, adder, cleaner, sig>>

Interrupt ==
  /\ MayInterrupt
  /\ ~sig
  /\ sig' = TRUE
  /\ UNCHANGED <<loungeVars, giverVars, readerVars, adder, cleaner, clock>>

Next ==
  \/ \E a \in Adders :
       WantAdd(a) \/ (\E p \in Ports : Add(a, p)) \/ AdderExit(a)
  \/ Close
  \/ \E r \in Readers :
       \/ StartRound(r) \/ GiverLocks(r)
       \/ \E p \in Ports : HandOver(r, p)
       \/ ReaderSends(r) \/ ReaderReturns(r) \/ ReaderQuits(r)
       \/ GiverEnds(r) \/ RoundEnds(r) \/ ReaderExits(r)
       \/ Drain(r) \/ DrainEnds(r)
  \/ CleanerTick \/ CleanerSweep \/ CleanerExit
  \/ Tick \/ Interrupt

Spec == Init /\ [][Next]_vars

(***************************************************************************)
(* Goroutines run and tickers tick.  sync.Mutex hands itself to a waiter   *)
(* that has starved, hence strong fairness for what waits on it.  No       *)
(* fairness for arrivals, rounds, the signal, or giving up.                *)
(***************************************************************************)
Fairness ==
  /\ \A a \in Adders : SF_vars(\E p \in Ports : Add(a, p))
  /\ \A r \in Readers :
       /\ SF_vars(GiverLocks(r))
       /\ WF_vars(\E p \in Ports : HandOver(r, p))
       /\ WF_vars(ReaderSends(r))
       /\ WF_vars(ReaderReturns(r))
       /\ WF_vars(GiverEnds(r))
       /\ WF_vars(RoundEnds(r))
       /\ WF_vars(Drain(r))
  /\ WF_vars(CleanerTick)
  /\ SF_vars(CleanerSweep)

FairSpec == Spec /\ Fairness

(* After the signal: select chooses at random among what is ready, so a    *)
(* loop that looks at the signal again and again sees it.                  *)
ExitFairness ==
  /\ \A a \in Adders : SF_vars(AdderExit(a))
  /\ SF_vars(Close)
  /\ \A r \in Readers : WF_vars(ReaderQuits(r)) /\ SF_vars(ReaderExits(r))
  /\ SF_vars(CleanerExit)

ExitSpec == FairSpec /\ ExitFairness
-----------------------------------------------------------------------------
(***************************************************************************)
(* Safety                                                                  *)
(***************************************************************************)
(* While a giver has the mutex, what it has handed out and what it still    *)
(* has to hand out are together exactly the clients of the lounge, each     *)
(* once, although adders and the cleaner are at work and the reader blocks. *)
RoundIsSnapshot ==
  \A r \in Readers :
    giver[r] = "giving" /\ ~closed =>
      /\ given[r] \cup left[r] = clients
      /\ given[r] \cap left[r] = {}

(* Nothing is handed out of a closed lounge: Close waits for the giver.     *)
NothingAfterClose ==
  \A r \in Readers : giver[r] = "giving" /\ closed => left[r] = {}

(* A client is known for its whole lifetime after it was last added.        *)
FreshIsKnown ==
  \A p \in Ports : expireAt[p] > 0 /\ expireAt[p] >= clock => p \in clients
-----------------------------------------------------------------------------
(***************************************************************************)
(* Liveness                                                                *)
(***************************************************************************)
(* An add gets through, although a giver may hold the mutex while its       *)
(* reader waits for room in a channel: the main loop, which adds what comes *)
(* by multicast, is delayed but not stopped.                                *)
AddsGetThrough ==
  \A a \in Adders : adder[a] = "adding" ~> adder[a] # "adding" \/ sig

(* A round of the forwarder or the broadcaster ends.                        *)
RoundsComplete ==
  \A r \in Readers : reader[r] # "idle" ~> reader[r] = "idle" \/ sig

(* An expired client is dropped or added again.                             *)
ExpiredIsDropped == \A p \in Ports : Expired(p) ~> ~Expired(p) \/ sig

(* main.go:283: every goroutine can exit once the signal has come; the main *)
(* loop must first get through its deferred clean-up, Close.                *)
CleanupEnds == sig ~> adder["main"] = "done"
=============================================================================
