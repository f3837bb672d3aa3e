------------------------- MODULE ClientProbeProofs -------------------------
(***************************************************************************)
(* Proofs about ClientProbe, for any number of workers and any queue.      *)
(*                                                                         *)
(* A probe that is out, asked for and not yet answered to the checker, is  *)
(* in one place: in the queue, at a worker, or as an answer in its slot.   *)
(* A probe that is not out is nowhere, until the checker has ended.        *)
(***************************************************************************)
EXTENDS ClientProbe, TLAPS

Out(p) ==
  \/ p = "http" /\ checker \in {"askHttps", "awaitHttp"}
  \/ p = "https" /\ checker \in {"awaitHttp", "awaitHttps"}

OneInQueue ==
  \A i, j \in 1..Len(queue) :
    queue[i] \in Protocols /\ queue[i] = queue[j] => i = j

OneWorker ==
  \A w, v \in Workers :
    worker[w] \in Protocols /\ worker[w] = worker[v] => w = v

OnePlace ==
  \A p \in Protocols :
    /\ QueueHas(p) => resp[p] = "empty" /\ \A w \in Workers : worker[w] # p
    /\ \A w \in Workers : worker[w] = p => resp[p] = "empty"

NowhereUnlessOut ==
  checker # "done" => \A p \in Protocols : AnswerComing(p) => Out(p)

SomewhereIfOut ==
  ~sig => /\ checker # "done"
          /\ ~lost => \A p \in Protocols : Out(p) => AnswerComing(p)

PlaceInv == OneInQueue /\ OneWorker /\ OnePlace
OutInv == NowhereUnlessOut /\ SomewhereIfOut
ProbeInv == TypeOK /\ PlaceInv /\ OutInv

LEMMA InitProbeInv == Init => ProbeInv
<1>. SUFFICES ASSUME Init PROVE ProbeInv
  OBVIOUS
<1>1. TypeOK
  <2>1. queue \in Seq(Requests) /\ Len(queue) <= QueueSize
    BY ProbeAssumption DEF Init
  <2>. QED BY <2>1 DEF Init, Nothing, TypeOK, Protocols, Requests, Answers
<1>2. \A p \in Protocols : ~QueueHas(p) /\ resp[p] = "empty"
  BY DEF Init, QueueHas
<1>3. \A w \in Workers : worker[w] = "idle"
  BY DEF Init
<1>4. PlaceInv
  BY <1>2, <1>3
     DEF Init, PlaceInv, OneInQueue, OneWorker, OnePlace, Protocols
<1>5. \A p \in Protocols : ~AnswerComing(p) /\ ~Out(p)
  BY <1>2, <1>3 DEF AnswerComing, Out, Init, Protocols
<1>6. OutInv
  BY <1>5 DEF OutInv, NowhereUnlessOut, SomewhereIfOut, Init
<1>. QED BY <1>1, <1>4, <1>6 DEF ProbeInv
-----------------------------------------------------------------------------
(***************************************************************************)
(* The queue: what a send adds to it, and what a worker leaves in it.      *)
(***************************************************************************)
LEMMA AppendQueue ==
  ASSUME TypeOK, NEW q \in Requests, queue' = Append(queue, q)
  PROVE  /\ queue' \in Seq(Requests) /\ Len(queue') = Len(queue) + 1
         /\ \A p \in Protocols : QueueHas(p)' <=> QueueHas(p) \/ p = q
         /\ OneInQueue /\ (q \in Protocols => ~QueueHas(q)) => OneInQueue'
<1>1. /\ queue \in Seq(Requests) /\ Len(queue) \in Nat
      /\ Len(queue') = Len(queue) + 1
      /\ \A i \in 1..Len(queue) : queue'[i] = queue[i]
      /\ queue'[Len(queue) + 1] = q
  BY DEF TypeOK
<1>2. ASSUME NEW p \in Protocols
      PROVE  QueueHas(p)' <=> QueueHas(p) \/ p = q
  BY <1>1 DEF QueueHas
<1>3. OneInQueue /\ (q \in Protocols => ~QueueHas(q)) => OneInQueue'
  BY <1>1 DEF OneInQueue, QueueHas
<1>4. queue' \in Seq(Requests)
  BY DEF TypeOK
<1>. QED BY <1>1, <1>2, <1>3, <1>4

LEMMA TailQueue ==
  ASSUME TypeOK, queue # <<>>, queue' = Tail(queue)
  PROVE  /\ queue' \in Seq(Requests) /\ Len(queue') = Len(queue) - 1
         /\ Head(queue) \in Requests
         /\ \A p \in Protocols :
              QueueHas(p) <=> QueueHas(p)' \/ p = Head(queue)
         /\ OneInQueue =>
              OneInQueue' /\ \A p \in Protocols : p = Head(queue) => ~QueueHas(p)'
<1>1. /\ queue \in Seq(Requests) /\ Len(queue) \in Nat \ {0}
      /\ Len(queue') = Len(queue) - 1
      /\ \A i \in 1..Len(queue') : queue'[i] = queue[i + 1]
      /\ Head(queue) = queue[1] /\ queue[1] \in Requests
  BY DEF TypeOK
<1>2. ASSUME NEW p \in Protocols
      PROVE  QueueHas(p) <=> QueueHas(p)' \/ p = Head(queue)
  <2>1. ASSUME NEW i \in 1..Len(queue), queue[i] = p, i # 1
        PROVE  i - 1 \in 1..Len(queue') /\ queue'[i - 1] = p
    BY <1>1, <2>1
  <2>2. ASSUME NEW i \in 1..Len(queue'), queue'[i] = p
        PROVE  i + 1 \in 1..Len(queue) /\ queue[i + 1] = p
    BY <1>1, <2>2
  <2>. QED BY <1>1, <2>1, <2>2 DEF QueueHas
<1>3. ASSUME OneInQueue PROVE OneInQueue'
  <2>. SUFFICES ASSUME NEW i \in 1..Len(queue'), NEW j \in 1..Len(queue'),
                       queue'[i] \in Protocols, queue'[i] = queue'[j]
                PROVE  i = j
    BY DEF OneInQueue
  <2>1. i + 1 \in 1..Len(queue) /\ j + 1 \in 1..Len(queue)
    BY <1>1
  <2>2. i + 1 = j + 1
    BY <1>1, <1>3, <2>1 DEF OneInQueue
  <2>. QED BY <2>2
<1>4. ASSUME OneInQueue, NEW p \in Protocols, p = Head(queue)
      PROVE  ~QueueHas(p)'
  <2>. SUFFICES ASSUME NEW i \in 1..Len(queue'), queue'[i] = p PROVE FALSE
    BY DEF QueueHas
  <2>1. i + 1 \in 1..Len(queue) /\ 1 \in 1..Len(queue)
    BY <1>1
  <2>2. i + 1 = 1
    BY <1>1, <1>4, <2>1 DEF OneInQueue
  <2>. QED BY <2>2
<1>5. queue' \in Seq(Requests)
  BY DEF TypeOK
<1>. QED BY <1>1, <1>2, <1>3, <1>4, <1>5
-----------------------------------------------------------------------------
(***************************************************************************)
(* Types.                                                                  *)
(***************************************************************************)
LEMMA NextTypeOK ==
  ASSUME TypeOK, [Next]_vars
  PROVE  TypeOK'
<1>1. CASE StartCheck \/ Decide \/ AddClient \/ CheckerExit \/ AwaitHttp
             \/ AwaitHttps
  <2>1. Nothing \in [Protocols -> Answers \cup {"none"}]
    BY DEF Nothing
  <2>2. CASE StartCheck \/ AwaitHttp \/ AwaitHttps
    BY <2>2 DEF StartCheck, AwaitHttp, AwaitHttps, Await, TypeOK, Protocols,
                Answers
  <2>3. CASE Decide \/ AddClient \/ CheckerExit
    BY <2>1, <2>3 DEF Decide, AddClient, CheckerExit, Chosen, TypeOK, Protocols
  <2>. QED BY <1>1, <2>2, <2>3
<1>2. CASE AskHttp \/ AskHttps
  <2>1. PICK q \in Requests : queue' = Append(queue, q)
    BY <1>2 DEF AskHttp, AskHttps, Ask, Requests, Protocols
  <2>2. queue' \in Seq(Requests) /\ Len(queue') = Len(queue) + 1
    BY <2>1, AppendQueue
  <2>. QED
    BY <1>2, <2>2, ProbeAssumption DEF AskHttp, AskHttps, Ask, TypeOK
<1>3. ASSUME NEW w \in Workers, Take(w) PROVE TypeOK'
  <2>1. /\ queue' \in Seq(Requests) /\ Len(queue') = Len(queue) - 1
        /\ Head(queue) \in Requests
    BY <1>3, TailQueue DEF Take
  <2>. QED BY <1>3, <2>1, ProbeAssumption DEF Take, TypeOK
<1>4. ASSUME NEW w \in Workers, Answer(w) PROVE TypeOK'
  BY <1>4 DEF Answer, Outcomes, TypeOK, Answers, Protocols
<1>5. ASSUME NEW w \in Workers, BodyFails(w) \/ Registered(w) \/ WorkerExit(w)
      PROVE  TypeOK'
  BY <1>5 DEF BodyFails, Registered, WorkerExit, TypeOK
<1>6. CASE SendRegister
  <2>1. queue' \in Seq(Requests) /\ Len(queue') = Len(queue) + 1
    BY <1>6, AppendQueue DEF SendRegister, Requests
  <2>. QED BY <1>6, <2>1, ProbeAssumption DEF SendRegister, TypeOK
<1>7. CASE TakeMessage \/ GoOn \/ ForwarderExit \/ Lock \/ Unlock
             \/ ClientChanges \/ Interrupt
  <2>1. CASE TakeMessage \/ GoOn \/ ForwarderExit
    BY <2>1 DEF TakeMessage, GoOn, ForwarderExit, TypeOK
  <2>2. CASE Lock \/ Unlock
    BY <2>2 DEF Lock, Unlock, TypeOK
  <2>3. CASE ClientChanges \/ Interrupt
    BY <2>3 DEF ClientChanges, Interrupt, TypeOK
  <2>. QED BY <1>7, <2>1, <2>2, <2>3
<1>8. CASE UNCHANGED vars
  BY <1>8 DEF vars, TypeOK
<1>. QED
  BY <1>1, <1>2, <1>3, <1>4, <1>5, <1>6, <1>7, <1>8 DEF Next, CheckerStep
-----------------------------------------------------------------------------
(***************************************************************************)
(* Places.                                                                 *)
(***************************************************************************)
LEMMA PlacesUnchanged ==
  ASSUME PlaceInv, UNCHANGED <<queue, worker, resp>>
  PROVE  PlaceInv' /\ \A p \in Protocols : AnswerComing(p)' <=> AnswerComing(p)
BY DEF PlaceInv, OneInQueue, OneWorker, OnePlace, QueueHas, AnswerComing

(* A probe is asked for that is nowhere yet, or a registration. *)
LEMMA AppendPlaces ==
  ASSUME TypeOK, PlaceInv, NEW q \in Requests, queue' = Append(queue, q),
         UNCHANGED <<worker, resp>>, q \in Protocols => ~AnswerComing(q)
  PROVE  /\ PlaceInv'
         /\ \A p \in Protocols : AnswerComing(p)' <=> AnswerComing(p) \/ p = q
<1>1. /\ \A p \in Protocols : QueueHas(p)' <=> QueueHas(p) \/ p = q
      /\ OneInQueue'
  BY AppendQueue DEF PlaceInv, AnswerComing
<1>. QED BY <1>1 DEF PlaceInv, OneWorker, OnePlace, AnswerComing

LEMMA TakePlaces ==
  ASSUME TypeOK, PlaceInv, NEW w \in Workers, Take(w)
  PROVE  PlaceInv' /\ \A p \in Protocols : AnswerComing(p)' <=> AnswerComing(p)
<1>1. /\ \A p \in Protocols : QueueHas(p) <=> QueueHas(p)' \/ p = Head(queue)
      /\ OneInQueue' /\ \A p \in Protocols : p = Head(queue) => ~QueueHas(p)'
  BY TailQueue DEF Take, PlaceInv
<1>2. /\ worker[w] = "idle" /\ worker'[w] = Head(queue) /\ resp' = resp
      /\ \A v \in Workers \ {w} : worker'[v] = worker[v]
  BY DEF Take, TypeOK
<1>3. OneWorker'
  BY <1>1, <1>2 DEF PlaceInv, OneWorker, OnePlace
<1>4. OnePlace'
  BY <1>1, <1>2 DEF PlaceInv, OnePlace
<1>5. ASSUME NEW p \in Protocols PROVE AnswerComing(p)' <=> AnswerComing(p)
  <2>1. p # "idle"
    BY DEF Protocols
  <2>. QED BY <1>1, <1>2, <2>1 DEF AnswerComing
<1>. QED BY <1>1, <1>3, <1>4, <1>5 DEF PlaceInv

(* A worker is done with a request: an answer takes its place, or nothing.  *)
LEMMA LeavePlaces ==
  ASSUME TypeOK, PlaceInv, NEW w \in Workers, NEW gone \in {"idle", "done"},
         worker' = [worker EXCEPT ![w] = gone], UNCHANGED <<queue, resp>>
  PROVE  /\ PlaceInv'
         /\ \A p \in Protocols : AnswerComing(p)' => AnswerComing(p)
         /\ \A p \in Protocols \ {worker[w]} :
              AnswerComing(p) => AnswerComing(p)'
<1>1. worker'[w] = gone /\ \A v \in Workers \ {w} : worker'[v] = worker[v]
  BY DEF TypeOK
<1>2. "idle" \notin Protocols /\ "done" \notin Protocols
  BY DEF Protocols
<1>3. OneInQueue' /\ \A p \in Protocols : QueueHas(p)' <=> QueueHas(p)
  BY DEF PlaceInv, OneInQueue, QueueHas
<1>4. OneWorker' /\ OnePlace'
  BY <1>1, <1>2, <1>3 DEF PlaceInv, OneWorker, OnePlace
<1>. QED BY <1>1, <1>2, <1>3, <1>4 DEF PlaceInv, AnswerComing

LEMMA AnswerPlaces ==
  ASSUME TypeOK, PlaceInv, NEW w \in Workers, Answer(w)
  PROVE  PlaceInv' /\ \A p \in Protocols : AnswerComing(p)' <=> AnswerComing(p)
<1>1. /\ worker'[w] = "idle" /\ worker[w] \in Protocols
      /\ \A v \in Workers \ {w} : worker'[v] = worker[v]
  BY DEF Answer, TypeOK
<1>2. /\ resp'[worker[w]] # "empty"
      /\ \A p \in Protocols \ {worker[w]} : resp'[p] = resp[p]
  BY <1>1 DEF Answer, Outcomes, TypeOK
<1>3. OneInQueue' /\ \A p \in Protocols : QueueHas(p)' <=> QueueHas(p)
  BY DEF Answer, PlaceInv, OneInQueue, QueueHas
<1>4. "idle" \notin Protocols
  BY DEF Protocols
<1>5. OneWorker' /\ OnePlace'
  BY <1>1, <1>2, <1>3, <1>4 DEF PlaceInv, OneWorker, OnePlace
<1>. QED BY <1>1, <1>2, <1>3, <1>4, <1>5 DEF PlaceInv, AnswerComing

(* The checker takes an answer: its probe is nowhere any more. *)
LEMMA AwaitPlaces ==
  ASSUME TypeOK, PlaceInv, NEW q \in Protocols, NEW from, NEW to,
         Await(q, from, to)
  PROVE  /\ PlaceInv'
         /\ \A p \in Protocols : AnswerComing(p)' <=> AnswerComing(p) /\ p # q
<1>1. /\ resp[q] # "empty" /\ resp'[q] = "empty"
      /\ \A p \in Protocols \ {q} : resp'[p] = resp[p]
  BY DEF Await, TypeOK
<1>2. worker' = worker
  BY DEF Await
<1>3. OneInQueue' /\ \A p \in Protocols : QueueHas(p)' <=> QueueHas(p)
  BY DEF Await, PlaceInv, OneInQueue, QueueHas
<1>4. OneWorker' /\ OnePlace'
  BY <1>1, <1>2, <1>3 DEF PlaceInv, OneWorker, OnePlace
<1>. QED BY <1>1, <1>2, <1>3, <1>4 DEF PlaceInv, OnePlace, AnswerComing
-----------------------------------------------------------------------------
LEMMA NextProbeInv ==
  ASSUME ProbeInv, [Next]_vars
  PROVE  ProbeInv'
<1>. USE DEF ProbeInv
<1>1. TypeOK'
  BY NextTypeOK
<1>2. CASE StartCheck
  <2>1. \A p \in Protocols : ~AnswerComing(p) /\ ~Out(p) /\ ~Out(p)'
    BY <1>2 DEF StartCheck, OutInv, NowhereUnlessOut, Out, Protocols
  <2>2. resp' = resp
    BY <1>2, <2>1 DEF StartCheck, AnswerComing, TypeOK
  <2>3. PlaceInv' /\ \A p \in Protocols : AnswerComing(p)' <=> AnswerComing(p)
    BY <1>2, <2>2, PlacesUnchanged DEF StartCheck
  <2>4. OutInv'
    BY <1>2, <2>1, <2>3
       DEF StartCheck, OutInv, NowhereUnlessOut, SomewhereIfOut
  <2>. QED BY <1>1, <2>3, <2>4
<1>3. ASSUME NEW q \in Protocols, NEW from, NEW to, Ask(q, from, to),
             from # "done", ~Out(q), to # "done",
             \A p \in Protocols : Out(p)' <=> Out(p) \/ p = q
      PROVE  ProbeInv'
  <2>1. ~AnswerComing(q)
    BY <1>3 DEF Ask, OutInv, NowhereUnlessOut
  <2>2. /\ PlaceInv'
        /\ \A p \in Protocols : AnswerComing(p)' <=> AnswerComing(p) \/ p = q
    BY <1>3, <2>1, AppendPlaces DEF Ask, Requests
  <2>3. OutInv'
    BY <1>3, <2>2 DEF Ask, OutInv, NowhereUnlessOut, SomewhereIfOut
  <2>. QED BY <1>1, <2>2, <2>3
<1>4. CASE AskHttp
  <2>1. ~Out("http") /\ \A p \in Protocols : Out(p)' <=> Out(p) \/ p = "http"
    BY <1>4 DEF AskHttp, Ask, Out, Protocols
  <2>. QED BY <1>3, <1>4, <2>1 DEF AskHttp, Protocols
<1>5. CASE AskHttps
  <2>1. ~Out("https") /\ \A p \in Protocols : Out(p)' <=> Out(p) \/ p = "https"
    BY <1>5 DEF AskHttps, Ask, Out, Protocols
  <2>. QED BY <1>3, <1>5, <2>1 DEF AskHttps, Protocols
<1>6. ASSUME NEW q \in Protocols, NEW from, NEW to, Await(q, from, to),
             from # "done", to # "done",
             \A p \in Protocols : Out(p)' <=> Out(p) /\ p # q
      PROVE  ProbeInv'
  <2>1. /\ PlaceInv'
        /\ \A p \in Protocols : AnswerComing(p)' <=> AnswerComing(p) /\ p # q
    BY <1>6, AwaitPlaces
  <2>2. OutInv'
    BY <1>6, <2>1 DEF Await, OutInv, NowhereUnlessOut, SomewhereIfOut
  <2>. QED BY <1>1, <2>1, <2>2
<1>7. CASE AwaitHttp
  <2>1. \A p \in Protocols : Out(p)' <=> Out(p) /\ p # "http"
    BY <1>7 DEF AwaitHttp, Await, Out, Protocols
  <2>. QED BY <1>6, <1>7, <2>1 DEF AwaitHttp, Protocols
<1>8. CASE AwaitHttps
  <2>1. \A p \in Protocols : Out(p)' <=> Out(p) /\ p # "https"
    BY <1>8 DEF AwaitHttps, Await, Out, Protocols
  <2>. QED BY <1>6, <1>8, <2>1 DEF AwaitHttps, Protocols
<1>9. CASE Decide \/ AddClient
  <2>1. PlaceInv' /\ \A p \in Protocols : AnswerComing(p)' <=> AnswerComing(p)
    BY <1>9, PlacesUnchanged DEF Decide, AddClient
  <2>2. \A p \in Protocols : ~Out(p) /\ ~Out(p)'
    BY <1>9 DEF Decide, AddClient, Out
  <2>3. OutInv'
    BY <1>9, <2>1, <2>2
       DEF Decide, AddClient, OutInv, NowhereUnlessOut, SomewhereIfOut
  <2>. QED BY <1>1, <2>1, <2>3
<1>10. CASE CheckerExit
  <2>1. PlaceInv'
    BY <1>10, PlacesUnchanged DEF CheckerExit
  <2>2. OutInv'
    BY <1>10 DEF CheckerExit, OutInv, NowhereUnlessOut, SomewhereIfOut
  <2>. QED BY <1>1, <2>1, <2>2
<1>11. ASSUME UNCHANGED <<checker, sig, lost>>, PlaceInv',
              \A p \in Protocols : AnswerComing(p)' <=> AnswerComing(p)
       PROVE  ProbeInv'
  <2>1. OutInv'
    BY <1>11 DEF OutInv, NowhereUnlessOut, SomewhereIfOut, Out
  <2>. QED BY <1>1, <1>11, <2>1
<1>12. ASSUME NEW w \in Workers, Take(w) PROVE ProbeInv'
  BY <1>11, <1>12, TakePlaces DEF Take
<1>13. ASSUME NEW w \in Workers, Answer(w) PROVE ProbeInv'
  BY <1>11, <1>13, AnswerPlaces DEF Answer
<1>14. ASSUME NEW w \in Workers, BodyFails(w) \/ WorkerExit(w) PROVE ProbeInv'
  <2>1. PICK gone \in {"idle", "done"} : worker' = [worker EXCEPT ![w] = gone]
    BY <1>14 DEF BodyFails, WorkerExit
  <2>2. UNCHANGED <<queue, resp, checker, sig>> /\ (lost' \/ sig)
    BY <1>14 DEF BodyFails, WorkerExit
  <2>3. PlaceInv' /\ \A p \in Protocols : AnswerComing(p)' => AnswerComing(p)
    BY <2>1, <2>2, LeavePlaces
  <2>4. OutInv'
    BY <2>2, <2>3 DEF OutInv, NowhereUnlessOut, SomewhereIfOut, Out
  <2>. QED BY <1>1, <2>3, <2>4
<1>15. ASSUME NEW w \in Workers, Registered(w) PROVE ProbeInv'
  <2>1. worker[w] \notin Protocols
    BY <1>15 DEF Registered, Protocols
  <2>2. /\ PlaceInv'
        /\ \A p \in Protocols : AnswerComing(p)' <=> AnswerComing(p)
    BY <1>15, <2>1, LeavePlaces DEF Registered
  <2>. QED BY <1>11, <1>15, <2>2 DEF Registered
<1>16. CASE SendRegister
  <2>1. "register" \in Requests /\ "register" \notin Protocols
    BY DEF Requests, Protocols
  <2>2. /\ PlaceInv'
        /\ \A p \in Protocols : AnswerComing(p)' <=> AnswerComing(p)
    BY <1>16, <2>1, AppendPlaces DEF SendRegister
  <2>. QED BY <1>11, <1>16, <2>2 DEF SendRegister
<1>17. CASE \/ TakeMessage \/ GoOn \/ ForwarderExit \/ Lock \/ Unlock
             \/ ClientChanges \/ UNCHANGED vars
  BY <1>11, <1>17, PlacesUnchanged
     DEF TakeMessage, GoOn, ForwarderExit, Lock, Unlock, ClientChanges, vars
<1>18. CASE Interrupt
  <2>1. PlaceInv' /\ \A p \in Protocols : AnswerComing(p)' <=> AnswerComing(p)
    BY <1>18, PlacesUnchanged DEF Interrupt
  <2>2. OutInv'
    BY <1>18, <2>1
       DEF Interrupt, OutInv, NowhereUnlessOut, SomewhereIfOut, Out
  <2>. QED BY <1>1, <2>1, <2>2
<1>. QED
  BY <1>2, <1>4, <1>5, <1>7, <1>8, <1>9, <1>10, <1>12, <1>13, <1>14, <1>15,
     <1>16, <1>17, <1>18 DEF Next, CheckerStep
-----------------------------------------------------------------------------
(***************************************************************************)
(* Theorems.                                                               *)
(***************************************************************************)
(* The inductive invariant: a probe that is out is in one place, unless a   *)
(* body got lost or the signal came; one that is not out is nowhere.        *)
THEOREM ProbeInvariant == Spec => []ProbeInv
BY InitProbeInv, NextProbeInv, PTL DEF Spec

(* Type correctness, the limit of the request channel included.             *)
THEOREM ProbeTypeCorrect == Spec => []TypeOK
<1>1. ProbeInv => TypeOK
  BY DEF ProbeInv
<1>. QED BY <1>1, ProbeInvariant, PTL

(* No answer ever reaches a check that did not ask for it.                  *)
THEOREM NeverLeftovers == Spec => []NoLeftovers
<1>1. ProbeInv => NoLeftovers
  BY DEF ProbeInv, OutInv, NowhereUnlessOut, Out, AnswerComing, NoLeftovers
<1>. QED BY <1>1, ProbeInvariant, PTL

(* No worker ever waits for room in a response channel.                     *)
THEOREM WorkersNeverHeldUp == Spec => []WorkersNotHeldUp
<1>1. ProbeInv => WorkersNotHeldUp
  BY DEF ProbeInv, PlaceInv, OnePlace, WorkersNotHeldUp
<1>. QED BY <1>1, ProbeInvariant, PTL

(* Only a body that cannot be read leaves the checker without an answer.    *)
THEOREM OnlyBodiesEverLost == Spec => []OnlyBodiesGetLost
<1>1. ProbeInv => OnlyBodiesGetLost
  BY DEF ProbeInv, OutInv, SomewhereIfOut, Out, Awaiting, AwaitedIn,
         OnlyBodiesGetLost, Protocols
<1>. QED BY <1>1, ProbeInvariant, PTL
=============================================================================
