----------------------------- MODULE ClientProbe -----------------------------
(***************************************************************************)
(* How a node finds out about the LocalSend client of its machine: the     *)
(* alive checker asks it over http and over https, through the HTTP workers*)
(* that the forwarder uses too (setUpClientAliveChecker in                 *)
(* services/switch_core.go, services/http_sender.go).                      *)
(*                                                                         *)
(* Each check makes fresh response channels, of one slot each.  They are   *)
(* the variable resp, which a check empties: NoLeftovers shows that no     *)
(* request of an earlier check is around any more to answer into it.       *)
(*                                                                         *)
(* A check ends with Add, which waits for the mutex of the client lounge.  *)
(* Who has the mutex is in LocalClientLounge; here it is locked or not.    *)
(***************************************************************************)
EXTENDS Naturals, Sequences

CONSTANTS
  Workers,      \* the HTTP workers
  QueueSize,    \* what httpRequestChan holds
  MayInterrupt  \* whether the interrupt signal can come in this instance

ASSUME ProbeAssumption ==
  /\ QueueSize \in Nat \ {0}
  /\ MayInterrupt \in BOOLEAN

Protocols == {"http", "https"}
Requests == Protocols \cup {"register"}

VARIABLES
  serves,     \* the protocol the local client speaks, or "nothing"
  queue,      \* httpRequestChan
  worker,     \* the request each worker is at, "idle" or "done"
  resp,       \* the slot of each response channel
  got,        \* respHttp and respHttps
  checker,    \* where the checker is
  known,      \* the protocol of the client last added to the lounge
  forwarder,  \* where the forwarder is
  locked,     \* somebody holds localClientLounge.mutex
  sig,        \* the interrupt signal has come
  lost        \* history: the body of an answer to a probe could not be read

vars == <<serves, queue, worker, resp, got, checker, known, forwarder, locked,
          sig, lost>>

Answers == {"nil", "junk", "info"}

TypeOK ==
  /\ serves \in Protocols \cup {"nothing"}
  /\ queue \in Seq(Requests) /\ Len(queue) <= QueueSize
  /\ worker \in [Workers -> Requests \cup {"idle", "done"}]
  /\ resp \in [Protocols -> Answers \cup {"empty"}]
  /\ got \in [Protocols -> Answers \cup {"none"}]
  /\ checker \in {"ticking", "askHttp", "askHttps", "awaitHttp", "awaitHttps",
                  "deciding", "adding", "done"}
  /\ known \in Protocols \cup {"nothing"}
  /\ forwarder \in {"idle", "busy", "sending", "done"}
  /\ locked \in BOOLEAN
  /\ sig \in BOOLEAN
  /\ lost \in BOOLEAN

(* respHttp and respHttps are variables of one check. *)
Nothing == [p \in Protocols |-> "none"]

Init ==
  /\ serves \in Protocols \cup {"nothing"}
  /\ queue = <<>>
  /\ worker = [w \in Workers |-> "idle"]
  /\ resp = [p \in Protocols |-> "empty"]
  /\ got = Nothing
  /\ checker = "ticking"
  /\ known = "nothing"
  /\ forwarder = "idle"
  /\ locked = FALSE
  /\ sig = FALSE
  /\ lost = FALSE
-----------------------------------------------------------------------------
(***************************************************************************)
(* The checker.                                                            *)
(***************************************************************************)
StartCheck ==
  /\ checker = "ticking"
  /\ checker' = "askHttp"
  /\ resp' = [p \in Protocols |-> "empty"]
  /\ UNCHANGED <<serves, queue, worker, got, known, forwarder, locked, sig,
                 lost>>

(* The same for both requests; each waits while the channel is full. *)
Ask(p, from, to) ==
  /\ checker = from
  /\ Len(queue) < QueueSize
  /\ queue' = Append(queue, p)
  /\ checker' = to
  /\ UNCHANGED <<serves, worker, resp, got, known, forwarder, locked, sig,
                 lost>>

AskHttp == Ask("http", "askHttp", "askHttps")
AskHttps == Ask("https", "askHttps", "awaitHttp")

Await(p, from, to) ==
  /\ checker = from
  /\ resp[p] # "empty"
  /\ got' = [got EXCEPT ![p] = resp[p]]
  /\ resp' = [resp EXCEPT ![p] = "empty"]
  /\ checker' = to
  /\ UNCHANGED <<serves, queue, worker, known, forwarder, locked, sig, lost>>

(* Mutant: a good answer over http is enough. *)
AwaitHttpOnly ==
  Await("http", "awaitHttp",
        IF resp["http"] = "info" THEN "deciding" ELSE "awaitHttps")

AwaitHttp == Await("http", "awaitHttp", "awaitHttps")
AwaitHttps == Await("https", "awaitHttps", "deciding")

(* Mutant: http goes first. *)
ChosenHttpFirst == IF got["http"] # "nil" THEN "http" ELSE "https"

(* Any answer over https decides for https. *)
Chosen == IF got["https"] # "nil" THEN "https" ELSE "http"

(* No answer, or one that does not parse, changes nothing. *)
Decide ==
  /\ checker = "deciding"
  /\ IF got[Chosen] = "info"
     THEN checker' = "adding" /\ UNCHANGED got
     ELSE checker' = "ticking" /\ got' = Nothing
  /\ UNCHANGED <<serves, queue, worker, resp, known, forwarder, locked, sig,
                 lost>>

(* Add waits for the mutex, and does not look at the signal. *)
AddClient ==
  /\ checker = "adding"
  /\ ~locked
  /\ known' = Chosen
  /\ checker' = "ticking"
  /\ got' = Nothing
  /\ UNCHANGED <<serves, queue, worker, resp, forwarder, locked, sig, lost>>

(* Mutant: only the outer select looks at the signal. *)
CheckerExitAtTicker ==
  /\ checker = "ticking"
  /\ sig
  /\ checker' = "done"
  /\ got' = Nothing
  /\ UNCHANGED <<serves, queue, worker, resp, known, forwarder, locked, sig,
                 lost>>

(* Every wait of the checker but that for the mutex looks at the signal. *)
CheckerExit ==
  /\ checker \notin {"deciding", "adding", "done"}
  /\ sig
  /\ checker' = "done"
  /\ got' = Nothing
  /\ UNCHANGED <<serves, queue, worker, resp, known, forwarder, locked, sig,
                 lost>>
-----------------------------------------------------------------------------
(***************************************************************************)
(* The workers.                                                            *)
(***************************************************************************)
Take(w) ==
  /\ worker[w] = "idle"
  /\ queue # <<>>
  /\ worker' = [worker EXCEPT ![w] = Head(queue)]
  /\ queue' = Tail(queue)
  /\ UNCHANGED <<serves, resp, got, checker, known, forwarder, locked, sig,
                 lost>>

(* What a probe brings.  A client that speaks https answers a request in    *)
(* plain http with an error, which is an answer too.                        *)
Outcomes(p) ==
  {"nil"} \cup (IF p = serves THEN {"info"} ELSE {})
          \cup (IF p = "http" /\ serves = "https" THEN {"junk"} ELSE {})

(* Mutant: nothing is sent when the request fails. *)
AnswerUnlessFailed(w) ==
  LET p == worker[w] IN
  /\ p \in Protocols
  /\ resp[p] = "empty"
  /\ \E o \in Outcomes(p) :
       resp' = [resp EXCEPT ![p] = IF o = "nil" THEN "empty" ELSE o]
  /\ worker' = [worker EXCEPT ![w] = "idle"]
  /\ UNCHANGED <<serves, queue, got, checker, known, forwarder, locked, sig,
                 lost>>

(* Mutant: the response channels have no slot. *)
AnswerHandedOver(w) ==
  LET p == worker[w] IN
  /\ p \in Protocols
  /\ checker = IF p = "http" THEN "awaitHttp" ELSE "awaitHttps"
  /\ resp[p] = "empty"
  /\ \E o \in Outcomes(p) : resp' = [resp EXCEPT ![p] = o]
  /\ worker' = [worker EXCEPT ![w] = "idle"]
  /\ UNCHANGED <<serves, queue, got, checker, known, forwarder, locked, sig,
                 lost>>

(* The response channel has one slot; a worker would wait for it. *)
Answer(w) ==
  LET p == worker[w] IN
  /\ p \in Protocols
  /\ resp[p] = "empty"
  /\ \E o \in Outcomes(p) : resp' = [resp EXCEPT ![p] = o]
  /\ worker' = [worker EXCEPT ![w] = "idle"]
  /\ UNCHANGED <<serves, queue, got, checker, known, forwarder, locked, sig,
                 lost>>

(* io.ReadAll fails: the worker goes on to the next request. *)
BodyFails(w) ==
  /\ worker[w] \in Protocols
  /\ Outcomes(worker[w]) # {"nil"}
  /\ worker' = [worker EXCEPT ![w] = "idle"]
  /\ lost' = TRUE
  /\ UNCHANGED <<serves, queue, resp, got, checker, known, forwarder, locked,
                 sig>>

Registered(w) ==
  /\ worker[w] = "register"
  /\ worker' = [worker EXCEPT ![w] = "idle"]
  /\ UNCHANGED <<serves, queue, resp, got, checker, known, forwarder, locked,
                 sig, lost>>

(* At its select; or while it delivers an answer, but not if the request    *)
(* has failed.                                                              *)
WorkerExit(w) ==
  /\ sig
  /\ \/ worker[w] = "idle"
     \/ worker[w] \in Protocols /\ Outcomes(worker[w]) # {"nil"}
  /\ worker' = [worker EXCEPT ![w] = "done"]
  /\ UNCHANGED <<serves, queue, resp, got, checker, known, forwarder, locked,
                 sig, lost>>
-----------------------------------------------------------------------------
(***************************************************************************)
(* The forwarder, who else uses the mutex, the client and the signal.      *)
(***************************************************************************)
(* It takes a message, sends it on, and asks the client lounge for clients: *)
(* all this time it does not look at the signal.                            *)
TakeMessage ==
  /\ forwarder = "idle"
  /\ forwarder' = "busy"
  /\ UNCHANGED <<serves, queue, worker, resp, got, checker, known, locked,
                 sig, lost>>

(* With a client in hand it has a registration to send; or it is done.      *)
GoOn ==
  /\ forwarder = "busy"
  /\ forwarder' \in {"idle", "sending"}
  /\ UNCHANGED <<serves, queue, worker, resp, got, checker, known, locked,
                 sig, lost>>

SendRegister ==
  /\ forwarder = "sending"
  /\ Len(queue) < QueueSize
  /\ queue' = Append(queue, "register")
  /\ forwarder' = "busy"
  /\ UNCHANGED <<serves, worker, resp, got, checker, known, locked, sig,
                 lost>>

ForwarderExit ==
  /\ forwarder \in {"idle", "sending"}
  /\ sig
  /\ forwarder' = "done"
  /\ UNCHANGED <<serves, queue, worker, resp, got, checker, known, locked,
                 sig, lost>>

(* The rounds of the forwarder and of the broadcaster, which last for many  *)
(* sends, the cleaner and the main loop.                                    *)
Lock ==
  /\ ~locked
  /\ locked' = TRUE
  /\ UNCHANGED <<serves, queue, worker, resp, got, checker, known, forwarder,
                 sig, lost>>

Unlock ==
  /\ locked
  /\ locked' = FALSE
  /\ UNCHANGED <<serves, queue, worker, resp, got, checker, known, forwarder,
                 sig, lost>>

ClientChanges ==
  /\ serves' \in (Protocols \cup {"nothing"}) \ {serves}
  /\ UNCHANGED <<queue, worker, resp, got, checker, known, forwarder, locked,
                 sig, lost>>

Interrupt ==
  /\ MayInterrupt
  /\ ~sig
  /\ sig' = TRUE
  /\ UNCHANGED <<serves, queue, worker, resp, got, checker, known, forwarder,
                 locked, lost>>

CheckerStep ==
  StartCheck \/ AskHttp \/ AskHttps \/ AwaitHttp \/ AwaitHttps \/ Decide
  \/ AddClient

Next ==
  \/ CheckerStep \/ CheckerExit
  \/ \E w \in Workers :
       Take(w) \/ Answer(w) \/ BodyFails(w) \/ Registered(w) \/ WorkerExit(w)
  \/ TakeMessage \/ GoOn \/ SendRegister \/ ForwarderExit
  \/ Lock \/ Unlock \/ ClientChanges \/ Interrupt

Spec == Init /\ [][Next]_vars

(***************************************************************************)
(* Goroutines run, and a request ends within its timeout.  The checker and *)
(* the forwarder compete for room in the channel, which serves blocked     *)
(* senders in turn, select chooses at random, and a mutex serves those who *)
(* have waited long: strong fairness there.  Until the signal whoever has  *)
(* the mutex gives it back (RoundsComplete of LocalClientLounge); after it *)
(* nothing is assumed of them, and of the forwarder nothing at any time.   *)
(***************************************************************************)
Fairness ==
  /\ SF_vars(CheckerStep) /\ SF_vars(CheckerExit)
  /\ WF_vars(~sig /\ Unlock)
  /\ WF_vars(\E w \in Workers : Take(w))
  /\ \A w \in Workers :
       WF_vars(Answer(w) \/ BodyFails(w) \/ Registered(w))
  /\ SF_vars(\E w \in Workers : WorkerExit(w))

FairSpec == Spec /\ Fairness

(* The local client may time out now and then, but not each time.           *)
AnswerInTime(w) == worker[w] = serves /\ Answer(w) /\ resp'[serves] = "info"
Responsive == SF_vars(\E w \in Workers : AnswerInTime(w))

FollowSpec == FairSpec /\ Responsive
-----------------------------------------------------------------------------
(***************************************************************************)
(* Safety                                                                  *)
(***************************************************************************)
QueueHas(p) == \E i \in 1..Len(queue) : queue[i] = p

(* Between two checks no probe is queued or at a worker and no answer is    *)
(* left: an answer can only reach the check that asked for it.              *)
NoLeftovers ==
  checker = "ticking" =>
    \A p \in Protocols :
      ~QueueHas(p) /\ resp[p] = "empty" /\ \A w \in Workers : worker[w] # p

(* A worker never waits for room in a response channel, so a slow checker   *)
(* costs no worker; the failure answer is sent without looking at the       *)
(* signal and relies on it.                                                 *)
WorkersNotHeldUp ==
  \A w \in Workers : worker[w] \in Protocols => resp[worker[w]] = "empty"

AnswerComing(p) ==
  QueueHas(p) \/ resp[p] # "empty" \/ \E w \in Workers : worker[w] = p

AwaitedIn(state) == IF state = "awaitHttp" THEN "http" ELSE "https"
Awaiting == checker \in {"awaitHttp", "awaitHttps"} /\ ~sig

(* http_sender.go:20: a request that fails is answered with nil.  So while  *)
(* the checker waits for an answer, the answer can still come.              *)
AnswerUnderWay == Awaiting => AnswerComing(AwaitedIn(checker))

(* Only a body that cannot be read, http_sender.go:84, ever breaks this:    *)
(* timeouts and refused requests never leave the checker without an answer. *)
OnlyBodiesGetLost == Awaiting /\ ~lost => AnswerComing(AwaitedIn(checker))
-----------------------------------------------------------------------------
(***************************************************************************)
(* Liveness                                                                *)
(***************************************************************************)
(* When the client settles on a protocol, the lounge learns this protocol   *)
(* and keeps it, although https is preferred, requests time out, the other  *)
(* probe may get an answer too, and the forwarder fills the same channel.   *)
FollowsClient ==
  \A p \in Protocols :
    <>[](serves = p) => <>[](known = p) \/ <>(sig \/ lost)

(* The signal ends the workers, although an answer of nil is sent without a *)
(* look at it (http_sender.go:69) and the checker may be gone by then.      *)
WorkersExit == sig ~> \A w \in Workers : worker[w] = "done"

(* The signal ends the checker, whatever answers are missing, unless Add    *)
(* never gets the mutex (switch_core.go:233).  Of the forwarder not even    *)
(* this can be said (switch_core.go:76 and 90).                             *)
CheckerExits ==
  sig ~> (checker = "done" \/ [](checker = "adding" /\ locked))
=============================================================================
