--------------------------- MODULE SwitchProcess ---------------------------
(***************************************************************************)
(* The process: its options and start-up, the goroutines it starts, how    *)
(* their errors end it, and its shutdown (main.go), with the multicast     *)
(* listener (services/multicast_listener.go) in detail.  What the other    *)
(* goroutines do while they run is in the other modules; here they start,  *)
(* report errors, pause before they try again, and stop.                   *)
(*                                                                         *)
(* The listener's socket delivers the packets of LocalSend clients on this *)
(* host and on others; only those from the address that the host had when  *)
(* the listener started pass.                                              *)
(***************************************************************************)
EXTENDS Integers, Sequences

CONSTANTS
  Options,     \* configurations and surroundings to start the process in
  Unset,       \* an option that is not given
  Junk,        \* an option that is no number
  Addrs,       \* addresses of this host
  NoAddr,      \* the host has no network
  Foreign,     \* the address of another host
  ChanSize,    \* configs.MulticastChanSize
  SocketSize,  \* packets that the socket's buffer holds
  MaxFaults    \* bound: errors of the listener's socket and of its making,
               \* and new addresses

ASSUME ProcessAssumption ==
  /\ Options \subseteq
       [workDir : BOOLEAN,            \* it exists
        logSize : Int \cup {Unset, Junk},
        history : Int \cup {Unset, Junk},
        logFile : BOOLEAN,            \* it can be opened
        autostart : {"", "enable", "disable", "other"},
        retries : Int \cup {Unset, Junk},
        broadcast : Int \cup {Unset, Junk},
        alive : Int \cup {Unset, Junk},
        interface : BOOLEAN,          \* the multicast address parses, and the
                                      \* interface of the own one is found
        join : BOOLEAN,               \* there is a group to be joined
        serv : {"none", "invalid", "busy", "free"},      \* own port
        peer : {"none", "invalid", "down", "up"}]        \* the peer
  /\ Unset \notin Int /\ Junk \notin Int /\ Unset # Junk
  /\ Foreign \notin Addrs \cup {NoAddr} /\ NoAddr \notin Addrs
  /\ Addrs # {}
  /\ ChanSize \in Nat \ {0} /\ SocketSize \in Nat \ {0} /\ MaxFaults \in Nat

(* Those that can report errors or end, and those of which only the start   *)
(* matters here.                                                            *)
Goroutines == {"listener", "core", "server", "dialer"}
Workers == {"forwarder", "broadcaster", "checker"}

VARIABLES
  opts,      \* the options; they stay as they are
  settings,  \* what configs/switch.go and configs/net.go keep of them
  main,      \* where main is, or how the process ended
  sig,       \* sigCtx is done
  pc,        \* where each goroutine is
  begun,     \* the workers that have begun
  addr,      \* the host's address now
  selfIp,    \* the address as the listener has read it
  socket,    \* the listener's socket is open
  packets,   \* sources of the packets in its buffer
  chan,      \* multicastChan: sources of the messages in it
  retry,     \* connectPeer's retryCount
  faults     \* faults so far

processVars == <<opts, settings, main, sig>>
listenVars == <<selfIp, socket, packets, chan>>
hostVars == <<addr, faults>>
vars == <<processVars, pc, begun, listenVars, retry, hostVars>>

TypeOK ==
  /\ opts \in Options
  /\ settings \in [retries : Int, broadcast : Int, alive : Int, lifetime : Int]
  /\ main \in {"starting", "running", "closing",
               "returned", "refused", "fatal", "panicked"}
  /\ sig \in BOOLEAN
  /\ pc \in [Goroutines -> {"off", "start", "running", "handing", "connected",
                            "pausing", "error", "gone"}]
  /\ begun \subseteq Workers
  /\ addr \in Addrs \cup {NoAddr}
  /\ selfIp \in Addrs \cup {NoAddr}
  /\ socket \in BOOLEAN
  /\ packets \in Seq(Addrs \cup {Foreign})
  /\ chan \in Seq(Addrs)
  /\ retry \in Nat
  /\ faults \in 0..MaxFaults

(* configs/net.go and configs/switch.go. *)
Defaults == [retries |-> 10, broadcast |-> 15, alive |-> 10, lifetime |-> 60]

Init ==
  /\ opts \in Options
  /\ settings = Defaults
  /\ main = "starting"
  /\ sig = FALSE
  /\ pc = [g \in Goroutines |-> "off"]
  /\ begun = {}
  /\ addr \in Addrs \cup {NoAddr}
  /\ selfIp = NoAddr
  /\ socket = FALSE
  /\ packets = <<>>
  /\ chan = <<>>
  /\ retry = 0
  /\ faults = 0
-----------------------------------------------------------------------------
(***************************************************************************)
(* Start-up.  A log option that is no good, a directory or file that       *)
(* cannot be used and every value of the autostart option end it at once.  *)
(***************************************************************************)
Serves(o) ==
  /\ o.workDir /\ o.logFile /\ o.interface
  /\ o.logSize = Unset \/ (o.logSize # Junk /\ o.logSize > 0)
  /\ o.history = Unset \/ (o.history # Junk /\ o.history >= 0)
  /\ o.autostart = ""

(* The other numbers are only complained about: one that does not parse is  *)
(* taken for 0, one that is not positive for what it is.                    *)
Setting(value, default) ==
  CASE value = Unset -> default
    [] value = Junk -> 0
    [] OTHER -> value

Larger(i, j) == IF i > j THEN i ELSE j

Settings(o) ==
  LET alive == Setting(o.alive, Defaults.alive) IN
  [retries |-> Setting(o.retries, Defaults.retries),
   broadcast |-> Setting(o.broadcast, Defaults.broadcast),
   alive |-> alive,
   lifetime |-> IF o.alive = Unset THEN Defaults.lifetime
                ELSE Larger(Defaults.lifetime, alive + 10)]

Start ==
  /\ main = "starting"
  /\ IF ~Serves(opts)
     THEN main' = "refused" /\ UNCHANGED <<settings, pc>>
     ELSE IF addr = NoAddr
     THEN main' = "fatal" /\ UNCHANGED <<settings, pc>>
     ELSE /\ main' = "running"
          /\ settings' = Settings(opts)
          /\ pc' = [g \in Goroutines |->
                      IF g = "core" THEN "running" ELSE "start"]
  /\ UNCHANGED <<opts, sig, begun, listenVars, retry, hostVars>>

(* Ctrl-C or SIGTERM, at any time. *)
Signal ==
  /\ main \in {"starting", "running"}
  /\ ~sig
  /\ sig' = TRUE
  /\ UNCHANGED <<opts, settings, main, pc, begun, listenVars, retry,
                 hostVars>>

(* The first error from errChan ends the process. *)
ReceiveError ==
  /\ main = "running"
  /\ \E g \in Goroutines : pc[g] = "error"
  /\ main' = "panicked"
  /\ UNCHANGED <<opts, settings, sig, pc, begun, listenVars, retry, hostVars>>

ReceiveSignal ==
  /\ main = "running"
  /\ sig
  /\ main' = "closing"
  /\ UNCHANGED <<opts, settings, sig, pc, begun, listenVars, retry, hostVars>>

(* Mutant: main waits for the goroutines. *)
ReturnWhenQuiet ==
  /\ main = "closing"
  /\ \A g \in Goroutines : pc[g] \in {"off", "gone"}
  /\ main' = "returned"
  /\ UNCHANGED <<opts, settings, sig, pc, begun, listenVars, retry, hostVars>>

(* main sleeps for two seconds, whatever the goroutines do meanwhile. *)
Return ==
  /\ main = "closing"
  /\ main' = "returned"
  /\ UNCHANGED <<opts, settings, sig, pc, begun, listenVars, retry, hostVars>>
-----------------------------------------------------------------------------
Alive == main \in {"running", "closing"}

Goto(g, there) == pc' = [pc EXCEPT ![g] = there]

(***************************************************************************)
(* The multicast listener.                                                 *)
(***************************************************************************)
(* GetOutboundIP ends the process itself if there is no network. *)
ListenerStart ==
  /\ Alive
  /\ pc["listener"] = "start"
  /\ IF addr = NoAddr
     THEN main' = "fatal" /\ UNCHANGED <<pc, selfIp>>
     ELSE main' = main /\ selfIp' = addr /\ Goto("listener", "pausing")
  /\ UNCHANGED <<opts, settings, sig, begun, socket, packets, chan, retry,
                 hostVars>>

JoinFails ==
  IF opts.join THEN faults < MaxFaults /\ faults' = faults + 1
  ELSE UNCHANGED faults

(* The socket is made, at first and after each pause.  If it cannot be bound *)
(* or cannot join the group, the listener gives up at once.                  *)
Join ==
  /\ Alive
  /\ pc["listener"] = "pausing"
  /\ \/ opts.join /\ socket' = TRUE /\ Goto("listener", "running")
        /\ UNCHANGED faults
     \/ JoinFails /\ Goto("listener", "error") /\ UNCHANGED socket
  /\ UNCHANGED <<processVars, begun, selfIp, packets, chan, retry, addr>>

(* A packet that does not parse is dropped, like one from elsewhere. *)
ReadPacket ==
  /\ Alive
  /\ pc["listener"] = "running"
  /\ socket /\ packets # <<>>
  /\ \/ Head(packets) = selfIp /\ Goto("listener", "handing")
     \/ Head(packets) # selfIp /\ UNCHANGED pc
  /\ packets' = Tail(packets)
  /\ UNCHANGED <<processVars, begun, selfIp, socket, chan, retry, hostVars>>

(* The send to the channel blocks while it is full. *)
HandOver ==
  /\ Alive
  /\ pc["listener"] = "handing"
  /\ Len(chan) < ChanSize
  /\ chan' = Append(chan, selfIp)
  /\ Goto("listener", "running")
  /\ UNCHANGED <<processVars, begun, selfIp, socket, packets, retry,
                 hostVars>>

(* Mutant: every error of the socket is the end of the listener. *)
AfterFailureEnd == "gone"

(* A read that fails ends the listener after the signal; otherwise it makes *)
(* a new socket in three seconds, signal or not.                            *)
AfterFailure == IF sig THEN "gone" ELSE "pausing"

(* The socket fails: by itself, or because the watcher has closed it, at    *)
(* the read or, where the signal is not looked at, when the deadline is set.*)
SocketFails ==
  /\ Alive
  /\ pc["listener"] = "running"
  /\ IF socket THEN faults < MaxFaults /\ faults' = faults + 1
     ELSE UNCHANGED faults
  /\ Goto("listener", AfterFailure) \/ Goto("listener", "pausing")
  /\ socket' = FALSE
  /\ packets' = <<>>
  /\ UNCHANGED <<processVars, begun, selfIp, chan, retry, addr>>

(* The watcher closes the socket at the signal, also one made after it. *)
Watch ==
  /\ Alive
  /\ sig /\ socket
  /\ socket' = FALSE
  /\ packets' = <<>>
  /\ UNCHANGED <<processVars, pc, begun, selfIp, chan, retry, hostVars>>
-----------------------------------------------------------------------------
(***************************************************************************)
(* The dial loop and the accept loop.                                      *)
(***************************************************************************)
DialerStart ==
  /\ Alive
  /\ pc["dialer"] = "start"
  /\ Goto("dialer", CASE opts.peer = "none" -> "gone"
                      [] opts.peer = "invalid" -> "error"
                      [] OTHER -> "running")
  /\ UNCHANGED <<processVars, begun, listenVars, retry, hostVars>>

(* Mutant: a connection does not reset the count. *)
ConnectedKeepsCount == Goto("dialer", "connected") /\ UNCHANGED retry

Connected == Goto("dialer", "connected") /\ retry' = 0

(* A lost or failed connection: the count says whether to go on.  With a    *)
(* negative limit it need not be counted here.                              *)
Lost ==
  IF settings.retries < 0 THEN Goto("dialer", "pausing") /\ UNCHANGED retry
  ELSE /\ retry' = retry + 1
       /\ Goto("dialer",
               IF retry + 1 > settings.retries THEN "error" ELSE "pausing")

Dial ==
  /\ Alive
  /\ pc["dialer"] = "running"
  /\ IF opts.peer = "up" THEN Connected ELSE Lost
  /\ UNCHANGED <<processVars, begun, listenVars, hostVars>>

(* The connection ends (see ConnectionHub), or the hub does not take it. *)
Disconnect ==
  /\ Alive
  /\ pc["dialer"] = "connected"
  /\ \/ IF sig THEN Goto("dialer", "gone") /\ UNCHANGED retry ELSE Lost
     \/ Goto("dialer", "gone") /\ UNCHANGED retry
  /\ UNCHANGED <<processVars, begun, listenVars, hostVars>>

(* Nothing looks at the signal here. *)
DialAgain ==
  /\ Alive
  /\ pc["dialer"] = "pausing"
  /\ Goto("dialer", "running")
  /\ UNCHANGED <<processVars, begun, listenVars, retry, hostVars>>

ServerStart ==
  /\ Alive
  /\ pc["server"] = "start"
  /\ Goto("server", CASE opts.serv = "none" -> "gone"
                      [] opts.serv = "free" -> "running"
                      [] OTHER -> "error")
  /\ UNCHANGED <<processVars, begun, listenVars, retry, hostVars>>
-----------------------------------------------------------------------------
(***************************************************************************)
(* The core and the goroutines that it starts.                             *)
(***************************************************************************)
Interval(w) == IF w = "broadcaster" THEN settings.broadcast ELSE settings.alive

(* The forwarder and the broadcaster ask for the address; time.NewTicker    *)
(* panics unless the interval is positive.                                  *)
Begin(w) ==
  /\ Alive
  /\ w \notin begun
  /\ begun' = begun \cup {w}
  /\ main' = IF w # "checker" /\ addr = NoAddr THEN "fatal"
             ELSE IF w # "forwarder" /\ Interval(w) <= 0 THEN "panicked"
             ELSE main
  /\ UNCHANGED <<opts, settings, sig, pc, listenVars, retry, hostVars>>

(* The signal ends a goroutine that looks at it, at once or when it is done *)
(* with what it is in the middle of.                                        *)
Stop(g) ==
  /\ Alive
  /\ sig
  /\ pc[g] = "running"
  /\ Goto(g, "gone")
  /\ UNCHANGED <<processVars, begun, listenVars, retry, hostVars>>

(* The main loop of the core takes a message from the listener. *)
CoreTake ==
  /\ Alive
  /\ pc["core"] = "running"
  /\ chan # <<>>
  /\ chan' = Tail(chan)
  /\ UNCHANGED <<processVars, pc, begun, selfIp, socket, packets, retry,
                 hostVars>>
-----------------------------------------------------------------------------
(***************************************************************************)
(* The surroundings: packets on the network, and another address.          *)
(***************************************************************************)
Packet(from) ==
  /\ Alive
  /\ socket
  /\ Len(packets) < SocketSize
  /\ packets' = Append(packets, from)
  /\ UNCHANGED <<processVars, pc, begun, selfIp, socket, chan, retry,
                 hostVars>>

LocalAnnounce == addr # NoAddr /\ Packet(addr)

NewAddress ==
  /\ Alive \/ main = "starting"
  /\ faults < MaxFaults
  /\ faults' = faults + 1
  /\ addr' \in (Addrs \cup {NoAddr}) \ {addr}
  /\ UNCHANGED <<processVars, pc, begun, listenVars, retry>>

MainStep == Start \/ ReceiveError \/ ReceiveSignal \/ Return
ListenerStep == ListenerStart \/ Join \/ ReadPacket \/ HandOver
DialerStep == DialerStart \/ Dial \/ DialAgain

Next ==
  \/ MainStep \/ Signal
  \/ ListenerStep \/ SocketFails \/ Watch
  \/ DialerStep \/ Disconnect
  \/ ServerStart
  \/ \E w \in Workers : Begin(w)
  \/ Stop("core") \/ Stop("server")
  \/ CoreTake
  \/ LocalAnnounce \/ Packet(Foreign) \/ NewAddress

Spec == Init /\ [][Next]_vars

(***************************************************************************)
(* Goroutines run.  The clients on this host announce themselves again and *)
(* again, and not each of their packets is lost for want of room.  Nothing *)
(* obliges sockets and connections to fail or addresses to change.         *)
(***************************************************************************)
Fairness ==
  /\ WF_vars(MainStep)
  /\ WF_vars(ListenerStep)
  /\ WF_vars(Watch) /\ WF_vars(SocketFails /\ ~socket)
  /\ WF_vars(DialerStep)
  /\ WF_vars(ServerStart)
  /\ \A w \in Workers : WF_vars(Begin(w))
  /\ WF_vars(Stop("core")) /\ WF_vars(Stop("server"))
  /\ WF_vars(CoreTake)
  /\ SF_vars(LocalAnnounce)

FairSpec == Spec /\ Fairness
-----------------------------------------------------------------------------
(***************************************************************************)
(* Properties                                                              *)
(***************************************************************************)
(* Options and surroundings in which the process can do its work. *)
WellConfigured ==
  /\ Serves(opts)
  /\ opts.join
  /\ opts.serv \in {"none", "free"}
  /\ \/ opts.peer = "none"
     \/ opts.peer = "up" /\ opts.retries \notin {0, Junk}
     \/ opts.peer = "down" /\ opts.retries \in Int /\ opts.retries < 0
  /\ opts.broadcast = Unset \/ (opts.broadcast \in Int /\ opts.broadcast > 0)
  /\ opts.alive = Unset \/ (opts.alive \in Int /\ opts.alive > 0)

(* main.go:268: errChan is for grave errors.  Where the process is well    *)
(* configured, lost connections and failures of the listener's socket, how- *)
(* ever many, do not add up to one: the dial loop and the server report     *)
(* nothing, and the listener only that a socket could not be made again.    *)
(* Of panics that do not come through errChan this says nothing.            *)
ErrorsAreGrave ==
  WellConfigured =>
    /\ pc["dialer"] # "error" /\ pc["server"] # "error"
    /\ pc["listener"] = "error" => faults > 0

Ended == main \in {"returned", "refused", "fatal", "panicked"}

(* The signal ends the process, although the dial loop may go on for ever,  *)
(* a goroutine may be blocked on a channel that nobody reads any more, and  *)
(* the listener may open its socket once more.                              *)
SignalEnds == sig ~> Ended

(* As long as the host keeps the address of the start, the clients on it    *)
(* are heard again and again, whenever the listener's socket fails, provided*)
(* that it can be made again.                                               *)
Undisturbed ==
  /\ ~sig /\ addr # NoAddr /\ selfIp \in {NoAddr, addr}
  /\ pc["listener"] # "error"

HearsClients ==
  WellConfigured /\ []Undisturbed => []<><<HandOver>>_vars
=============================================================================
