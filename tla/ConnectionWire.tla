--------------------------- MODULE ConnectionWire ---------------------------
(***************************************************************************)
(* What passes over one direction of a TCP connection, and when: the       *)
(* sending goroutine with its frames, heartbeats and write deadline, the   *)
(* bytes in between, and the receiving goroutine with its read deadline    *)
(* (services/tcp_core.go), decryption included (utils/cipher.go).          *)
(*                                                                         *)
(* A frame is a type byte or, for a message, three separate writes: type,  *)
(* length, body.  A write that misses its deadline leaves a cut frame      *)
(* behind, and the sender goes on with the next one.  The bytes are pieces *)
(* here, one per write; a reader that meets another piece than it expects  *)
(* is astray, and what it makes of the bytes is left open.                 *)
(*                                                                         *)
(* A write succeeds when the kernel has taken the piece.  The network      *)
(* brings the pieces over in order, at once or after any time, or never:   *)
(* the connection may also be reset.  Two history variables record this.   *)
(*                                                                         *)
(* Time passes in steps, and only when no goroutine can run.               *)
(*                                                                         *)
(* The names are distinct from those of ConnectionHub, so that one module  *)
(* can hold the proofs about both.                                         *)
(***************************************************************************)
EXTENDS Naturals, Sequences

CONSTANTS
  MaxMsgs,        \* messages sent in a behaviour, numbered from 1
  Garbage,        \* what a body decodes to that is none of them
  SendKeys,       \* keys the sender may be configured with
  RecvKeys,       \* keys the receiver may be configured with
  NoKey,          \* no secret configured: no encryption
  BufferSize,     \* pieces that fit into the sockets' buffers
  ReceiveChanSize, \* configs.SwitchDataReceiveChanSize
  ReadTimeout,    \* configs.TCPConnHeartbeatInterval
  BeatInterval,   \* configs.TCPConnHeartbeatSendInterval
  WriteTimeout,   \* configs.TCPSocketWriteTimeout
  MaxStall        \* how long a network that is well may hold pieces back

ASSUME WireAssumption ==
  /\ MaxMsgs \in Nat
  /\ Garbage \notin Nat
  /\ BufferSize \in Nat \ {0}
  /\ ReceiveChanSize \in Nat \ {0}
  /\ ReadTimeout \in Nat /\ BeatInterval \in Nat \ {0} /\ WriteTimeout \in Nat
  /\ MaxStall \in Nat
  /\ BeatInterval + WriteTimeout + MaxStall < ReadTimeout

VARIABLES
  sendKey, recvKey,  \* the configured secrets
  sender,     \* "select", or the piece it is writing
  taken,      \* messages it has taken from its channel
  ticked,     \* the heartbeat ticker has fired
  beatLeft,   \* time until it fires again
  writeLeft,  \* time until the write deadline
  bytes,      \* pieces in the sockets' buffers and in the network
  landed,     \* how many of them, the first ones, the receiver's socket has
  stall,      \* how long the network has been behind with the others
  reader,     \* what the receiver expects, or what it does
  readLeft,   \* time until the read deadline
  arrived,    \* the message it hands to the main loop
  delivered,  \* messages handed over
  backlog,    \* messages in switchDataChan
  whole,      \* messages written whole before any frame was cut
  failed,     \* a write has failed
  torn,       \* a frame has been cut
  late,       \* history: the network was behind for more than MaxStall
  broken      \* history: the connection was reset

keyVars == <<sendKey, recvKey>>
senderVars == <<sender, taken, writeLeft, whole, failed, torn>>
tickerVars == <<ticked, beatLeft>>
readerVars == <<reader, readLeft, arrived>>
inboxVars == <<delivered, backlog>>
networkVars == <<landed, stall, late, broken>>
wireVars == <<keyVars, senderVars, tickerVars, bytes, readerVars, inboxVars,
              networkVars>>

Piece(what, msg, cut) == [what |-> what, msg |-> msg, cut |-> cut]
Pieces ==
  [what : {"beat", "type", "length", "body"}, msg : 0..MaxMsgs, cut : BOOLEAN]

NetworkTypeOK ==
  /\ landed \in 0..Len(bytes)
  /\ stall \in 0..MaxStall
  /\ late \in BOOLEAN
  /\ broken \in BOOLEAN

WireTypeOK ==
  /\ sendKey \in SendKeys \cup {NoKey}
  /\ recvKey \in RecvKeys \cup {NoKey}
  /\ sender \in {"select", "beat", "type", "length", "body"}
  /\ taken \in 0..MaxMsgs
  /\ ticked \in BOOLEAN
  /\ beatLeft \in 1..BeatInterval
  /\ writeLeft \in 0..WriteTimeout
  /\ bytes \in Seq(Pieces)
  /\ reader \in {"type", "length", "body", "astray", "delivering", "gone"}
  /\ readLeft \in 0..ReadTimeout
  /\ arrived \in 0..MaxMsgs \cup {Garbage}
  /\ delivered \in Seq(1..MaxMsgs \cup {Garbage})
  /\ backlog \in 0..ReceiveChanSize
  /\ whole \in Seq(1..MaxMsgs)
  /\ failed \in BOOLEAN
  /\ torn \in BOOLEAN
  /\ NetworkTypeOK

WireInit ==
  /\ sendKey \in SendKeys \cup {NoKey}
  /\ recvKey \in RecvKeys \cup {NoKey}
  /\ sender = "select"
  /\ taken = 0
  /\ ticked = FALSE
  /\ beatLeft = BeatInterval
  /\ writeLeft = 0
  /\ bytes = <<>>
  /\ reader = "type"
  /\ readLeft = ReadTimeout
  /\ arrived = 0
  /\ delivered = <<>>
  /\ backlog = 0
  /\ whole = <<>>
  /\ failed = FALSE
  /\ torn = FALSE
  /\ landed = 0
  /\ stall = 0
  /\ late = FALSE
  /\ broken = FALSE
-----------------------------------------------------------------------------
(***************************************************************************)
(* The sender.  Its write deadline is set once for the writes of a frame.  *)
(***************************************************************************)
Begin(what) ==
  /\ sender = "select"
  /\ sender' = what
  /\ writeLeft' = WriteTimeout
  /\ UNCHANGED <<keyVars, beatLeft, bytes, readerVars, inboxVars, whole,
                 failed, torn, networkVars>>

BeginMessage ==
  /\ taken < MaxMsgs
  /\ taken' = taken + 1
  /\ Begin("type")
  /\ UNCHANGED ticked

BeginBeat ==
  /\ ticked
  /\ ticked' = FALSE
  /\ Begin("beat")
  /\ UNCHANGED taken

Idle == sender' = "select" /\ writeLeft' = 0

AfterPiece ==
  CASE sender = "type" -> sender' = "length" /\ UNCHANGED writeLeft
    [] sender = "length" -> sender' = "body" /\ UNCHANGED writeLeft
    [] OTHER -> Idle

(* The sender's socket takes the piece. *)
WritePiece ==
  /\ sender # "select"
  /\ Len(bytes) < BufferSize
  /\ bytes' = Append(bytes, Piece(sender, IF sender = "beat" THEN 0 ELSE taken, FALSE))
  /\ AfterPiece
  /\ whole' = IF sender = "body" /\ ~torn THEN Append(whole, taken) ELSE whole
  /\ UNCHANGED <<keyVars, taken, tickerVars, readerVars, inboxVars, failed,
                 torn, networkVars>>

(* The deadline passes during a write: part of the piece may be out.  The   *)
(* sender drops the message and continues.                                  *)
GiveUp ==
  /\ sender # "select"
  /\ writeLeft = 0
  /\ Idle
  /\ failed' = TRUE
  /\ torn' = (torn \/ sender \in {"length", "body"})
  /\ \/ UNCHANGED bytes
     \/ /\ sender \in {"length", "body"}
        /\ Len(bytes) < BufferSize
        /\ bytes' = Append(bytes, Piece(sender, taken, TRUE))
  /\ UNCHANGED <<keyVars, taken, tickerVars, readerVars, inboxVars, whole,
                 networkVars>>
-----------------------------------------------------------------------------
(***************************************************************************)
(* The network.                                                            *)
(***************************************************************************)
Behind == landed < Len(bytes)

(* The next piece reaches the receiver's socket. *)
Travel ==
  /\ Behind
  /\ landed' = landed + 1
  /\ stall' = IF landed' = Len(bytes) THEN 0 ELSE stall
  /\ UNCHANGED <<keyVars, senderVars, tickerVars, bytes, readerVars, inboxVars,
                 late, broken>>
-----------------------------------------------------------------------------
(***************************************************************************)
(* The receiver.                                                           *)
(***************************************************************************)
Waiting == reader \in {"type", "length", "body", "astray"}

(* Mutant: only a message renews the deadline. *)
NextFrameSameDeadline == reader' = "type" /\ UNCHANGED readLeft

(* The top of the loop: the deadline is renewed once per frame. *)
NextFrame == reader' = "type" /\ readLeft' = ReadTimeout

Leave == reader' = "gone" /\ readLeft' = 0 /\ UNCHANGED arrived

HandOver(body) ==
  /\ reader' = "delivering"
  /\ readLeft' = 0
  /\ arrived' = body

(* Mutant: a body that fails authentication is used all the same. *)
PassesUnchecked(body) == TRUE

(* What a body that was not written like this by a holder of the key may    *)
(* pass for: anything if there is no key, nothing otherwise (AES-GCM).      *)
Passes(body) == recvKey = NoKey

ReadType(p) ==
  /\ reader = "type"
  /\ UNCHANGED arrived
  /\ \/ p.what = "beat" /\ NextFrame
     \/ p.what = "type" /\ reader' = "length" /\ UNCHANGED readLeft

ReadLength(p) ==
  /\ reader = "length"
  /\ p.what = "length" /\ ~p.cut
  /\ reader' = "body"
  /\ UNCHANGED <<readLeft, arrived>>

ReadBody(p) ==
  /\ reader = "body"
  /\ p.what = "body" /\ ~p.cut
  /\ IF sendKey = recvKey THEN HandOver(p.msg)
     ELSE Leave \/ (Passes(p) /\ HandOver(Garbage))

Expected(p) ==
  \/ reader = "type" /\ p.what \in {"beat", "type"}
  \/ reader \in {"length", "body"} /\ p.what = reader /\ ~p.cut

(* Mutant: every read renews the deadline. *)
WaitRenewed == reader' = "astray" /\ readLeft' = ReadTimeout /\ UNCHANGED arrived

(* Too few bytes yet for the length or the body it believes to read. *)
WaitForMore == reader' = "astray" /\ UNCHANGED <<readLeft, arrived>>

(* The pieces do not fit: the length may be too large, the type unknown,    *)
(* the body may not decode; or it takes more bytes to find out.             *)
ReadAstray(p) ==
  /\ ~Expected(p)
  /\ \/ WaitForMore
     \/ Leave
     \/ Passes(p) /\ HandOver(Garbage)

ReadPiece ==
  /\ Waiting
  /\ readLeft > 0
  /\ landed > 0
  /\ LET p == Head(bytes) IN
       ReadType(p) \/ ReadLength(p) \/ ReadBody(p) \/ ReadAstray(p)
  /\ bytes' = Tail(bytes)
  /\ landed' = landed - 1
  /\ UNCHANGED <<keyVars, senderVars, tickerVars, inboxVars, stall, late,
                 broken>>

ReadTimesOut ==
  /\ Waiting
  /\ readLeft = 0
  /\ Leave
  /\ UNCHANGED <<keyVars, senderVars, tickerVars, bytes, inboxVars, networkVars>>

(* A reset: what was under way, or has arrived unread, is lost. *)
ReadFails ==
  /\ Waiting
  /\ Leave
  /\ broken' = TRUE
  /\ UNCHANGED <<keyVars, senderVars, tickerVars, bytes, inboxVars, landed,
                 stall, late>>

(* Bound: of what is garbage only the first is recorded. *)
Recorded(body) ==
  IF body = Garbage /\ \E i \in 1..Len(delivered) : delivered[i] = Garbage
  THEN delivered
  ELSE Append(delivered, body)

(* Mutant: a message that finds the inbox full is dropped. *)
DeliverOrDrop ==
  /\ reader = "delivering"
  /\ IF backlog < ReceiveChanSize
     THEN backlog' = backlog + 1 /\ delivered' = Recorded(arrived)
     ELSE UNCHANGED <<backlog, delivered>>
  /\ arrived' = 0
  /\ NextFrame
  /\ UNCHANGED <<keyVars, senderVars, tickerVars, bytes, networkVars>>

(* The send to switchDataChan blocks while that is full.  After garbage the *)
(* next type byte may be read from the middle of a frame.                   *)
Deliver ==
  /\ reader = "delivering"
  /\ backlog < ReceiveChanSize
  /\ backlog' = backlog + 1
  /\ delivered' = Recorded(arrived)
  /\ arrived' = 0
  /\ \/ NextFrame
     \/ arrived = Garbage /\ torn /\ reader' = "astray" /\ readLeft' = ReadTimeout
  /\ UNCHANGED <<keyVars, senderVars, tickerVars, bytes, networkVars>>

(* The main loop takes a message. *)
TakeDelivered ==
  /\ backlog > 0
  /\ backlog' = backlog - 1
  /\ UNCHANGED <<keyVars, senderVars, tickerVars, bytes, readerVars, delivered,
                 networkVars>>
-----------------------------------------------------------------------------
(***************************************************************************)
(* Time passes, unless a goroutine has something to do at once.  A         *)
(* write and pieces under way may be held up by the network, the main loop *)
(* by its other work.                                                      *)
(***************************************************************************)
Due ==
  \/ Waiting /\ (landed > 0 \/ readLeft = 0)
  \/ sender = "select" /\ ticked
  \/ sender # "select" /\ writeLeft = 0

LessOne(k) == IF k > 0 THEN k - 1 ELSE 0

Elapse ==
  /\ ~Due
  /\ beatLeft' = IF beatLeft = 1 THEN BeatInterval ELSE beatLeft - 1
  /\ ticked' = (ticked \/ beatLeft = 1)
  /\ writeLeft' = LessOne(writeLeft)
  /\ readLeft' = LessOne(readLeft)
  /\ stall' = IF Behind /\ stall < MaxStall THEN stall + 1 ELSE stall
  /\ late' = (late \/ (Behind /\ stall = MaxStall))
  /\ UNCHANGED <<keyVars, sender, taken, whole, failed, torn, bytes, landed,
                 reader, arrived, inboxVars, broken>>

(* When the receiver has gone it closes the connection: see ConnectionHub. *)
WireNext ==
  /\ reader # "gone"
  /\ \/ BeginMessage \/ BeginBeat \/ WritePiece \/ GiveUp
     \/ Travel
     \/ ReadPiece \/ ReadTimesOut \/ ReadFails \/ Deliver
     \/ TakeDelivered
     \/ Elapse

WireSpec == WireInit /\ [][WireNext]_wireVars

(***************************************************************************)
(* Goroutines run and time passes.  No fairness for new messages, none for *)
(* WritePiece, as a write may be held up until its deadline, and none for  *)
(* the network.                                                            *)
(***************************************************************************)
WireFairness ==
  /\ WF_wireVars(WireNext /\ (BeginBeat \/ GiveUp \/ ReadPiece \/ ReadTimesOut))
  /\ WF_wireVars(WireNext /\ Deliver)
  /\ WF_wireVars(WireNext /\ TakeDelivered)
  /\ WF_wireVars(WireNext /\ Elapse)

WireFairSpec == WireSpec /\ WireFairness
-----------------------------------------------------------------------------
(***************************************************************************)
(* Safety                                                                  *)
(***************************************************************************)
(* The main loop gets what was written whole, in that order, and nothing    *)
(* after a frame that was cut, although the sender carries on with the next *)
(* one.  Without a key this holds until a frame is cut, and README.md:161:  *)
(* with a key nothing of a sender that has another or none is processed.    *)
InOrder ==
  recvKey # NoKey \/ (sendKey = NoKey /\ ~torn) =>
    /\ Len(delivered) <= Len(whole)
    /\ \A i \in 1..Len(delivered) : delivered[i] = whole[i]

(* A connection is not given up while its writes succeed, the network is    *)
(* never behind for more than MaxStall and there is no reset, however       *)
(* messages and heartbeats fall.  A write that succeeded is not enough: the *)
(* timeouts of configs/net.go, 15 s against 8 + 3 s, leave the network less *)
(* than 4 s to bring over what the kernel has taken.                        *)
HealthyStaysUp ==
  sendKey = recvKey /\ ~failed /\ ~late /\ ~broken => reader # "gone"
-----------------------------------------------------------------------------
(***************************************************************************)
(* Liveness                                                                *)
(***************************************************************************)
(* A frame that was cut is the end of the connection if there is a key: the *)
(* heartbeats that follow do not keep the reader waiting for ever.          *)
TornEnds == torn /\ recvKey # NoKey ~> reader = "gone"

(* A message that was written whole before any write failed arrives, also   *)
(* when a later write fails and cuts a frame behind it; it is only lost     *)
(* with a reset or in a network that is behind for more than MaxStall.      *)
WholeArrives ==
  \A k \in 1..MaxMsgs :
    sendKey = recvKey /\ ~failed /\ Len(whole) >= k
      ~> Len(delivered) >= k \/ late \/ broken
=============================================================================
