------------------------ MODULE SwitchProcessProofs ------------------------
(***************************************************************************)
(* Proofs about SwitchProcess, for all options, addresses and channel      *)
(* sizes, and for any number of failures.                                  *)
(***************************************************************************)
EXTENDS SwitchProcess, SequenceTheorems, TLAPS

-----------------------------------------------------------------------------
(***************************************************************************)
(* The inductive invariant.  The listener hands on only what comes from an *)
(* address.  While the process is up its settings are those of its         *)
(* options.  If these are good, neither the server nor the dial loop       *)
(* reports an error: the dial loop has room in its count whenever it holds *)
(* a connection, as each one starts the count anew.                        *)
(***************************************************************************)
HandsOnAddress == pc["listener"] = "handing" => selfIp \in Addrs

SettingsApply == Alive => settings = Settings(opts)

DialsPeer ==
  pc["dialer"] \in {"running", "pausing", "connected"} =>
    opts.peer \in {"up", "down"}

Unharmed ==
  /\ pc["dialer"] # "error" /\ pc["server"] # "error"
  /\ pc["listener"] = "error" => faults > 0
  /\ pc["dialer"] = "connected" => retry = 0

ProcInv ==
  /\ TypeOK
  /\ HandsOnAddress
  /\ SettingsApply
  /\ DialsPeer
  /\ WellConfigured => Unharmed

LEMMA ConstantTypes ==
  /\ Unset \notin Int /\ Junk \notin Int /\ Unset # Junk
  /\ MaxFaults \in Nat
BY ProcessAssumption

LEMMA OptionTypes ==
  ASSUME opts \in Options
  PROVE  /\ opts.retries \in Int \cup {Unset, Junk}
         /\ opts.broadcast \in Int \cup {Unset, Junk}
         /\ opts.alive \in Int \cup {Unset, Junk}
         /\ opts.serv \in {"none", "invalid", "busy", "free"}
         /\ opts.peer \in {"none", "invalid", "down", "up"}
         /\ opts.join \in BOOLEAN
         /\ opts.autostart \in {"", "enable", "disable", "other"}
BY ProcessAssumption

LEMMA SettingType ==
  ASSUME NEW value \in Int \cup {Unset, Junk}, NEW default \in Int
  PROVE  /\ value = Unset => Setting(value, default) = default
         /\ value = Junk => Setting(value, default) = 0
         /\ value \in Int => Setting(value, default) = value
         /\ Setting(value, default) \in Int
<1>1. ASSUME value = Unset PROVE Setting(value, default) = default
  BY <1>1, ConstantTypes DEF Setting
<1>2. ASSUME value = Junk PROVE Setting(value, default) = 0
  BY <1>2, ConstantTypes DEF Setting
<1>3. ASSUME value \in Int PROVE Setting(value, default) = value
  BY <1>3, ConstantTypes DEF Setting
<1>. QED BY <1>1, <1>2, <1>3, ConstantTypes

LEMMA SettingsType ==
  ASSUME opts \in Options
  PROVE  Settings(opts) \in [retries : Int, broadcast : Int, alive : Int,
                             lifetime : Int]
<1>1. /\ Defaults.retries \in Int /\ Defaults.broadcast \in Int
      /\ Defaults.alive \in Int /\ Defaults.lifetime \in Int
  BY DEF Defaults
<1>2. /\ Setting(opts.retries, Defaults.retries) \in Int
      /\ Setting(opts.broadcast, Defaults.broadcast) \in Int
      /\ Setting(opts.alive, Defaults.alive) \in Int
  BY <1>1, OptionTypes, SettingType
<1>3. Larger(Defaults.lifetime, Setting(opts.alive, Defaults.alive) + 10) \in Int
  BY <1>1, <1>2 DEF Larger
<1>. QED BY <1>1, <1>2, <1>3 DEF Settings

(* Good options make good settings. *)
LEMMA GoodSettings ==
  ASSUME opts \in Options, WellConfigured
  PROVE  /\ opts.peer = "up" => Settings(opts).retries # 0
         /\ opts.peer = "down" => Settings(opts).retries < 0
         /\ opts.peer # "invalid"
         /\ opts.join
         /\ opts.serv \in {"none", "free"}
<1>1. Settings(opts).retries = Setting(opts.retries, 10)
  BY DEF Settings, Defaults
<1>2. opts.peer = "up" => Setting(opts.retries, 10) # 0
  <2>. SUFFICES ASSUME opts.peer = "up" PROVE Setting(opts.retries, 10) # 0
    OBVIOUS
  <2>1. opts.retries \in Int \cup {Unset} /\ opts.retries # 0
    BY OptionTypes DEF WellConfigured
  <2>2. CASE opts.retries = Unset
    <3>1. Unset \in Int \cup {Unset, Junk} /\ 10 \in Int
      OBVIOUS
    <3>2. Setting(Unset, 10) = 10
      BY <3>1, SettingType
    <3>. QED BY <2>2, <3>2
  <2>3. CASE opts.retries \in Int
    BY <2>1, <2>3, SettingType
  <2>. QED BY <2>1, <2>2, <2>3
<1>3. opts.peer = "down" => Setting(opts.retries, 10) < 0
  <2>. SUFFICES ASSUME opts.peer = "down" PROVE Setting(opts.retries, 10) < 0
    OBVIOUS
  <2>1. opts.retries \in Int /\ opts.retries < 0
    BY DEF WellConfigured
  <2>. QED BY <2>1, SettingType
<1>. QED BY <1>1, <1>2, <1>3, OptionTypes
         DEF WellConfigured

LEMMA InitProcInv == Init => ProcInv
<1>. SUFFICES ASSUME Init PROVE ProcInv
  OBVIOUS
<1>1. TypeOK
  <2>1. settings \in [retries : Int, broadcast : Int, alive : Int, lifetime : Int]
    BY DEF Init, Defaults
  <2>2. pc \in [Goroutines -> {"off"}]
    BY DEF Init
  <2>3. pc \in [Goroutines -> {"off", "start", "running", "handing",
                               "connected", "pausing", "error", "gone"}]
    BY <2>2
  <2>4. faults \in 0..MaxFaults
    BY ConstantTypes DEF Init
  <2>5. packets \in Seq(Addrs \cup {Foreign}) /\ chan \in Seq(Addrs)
    BY DEF Init
  <2>6. /\ opts \in Options /\ main = "starting" /\ sig = FALSE
        /\ begun \subseteq Workers /\ addr \in Addrs \cup {NoAddr}
        /\ selfIp = NoAddr /\ socket = FALSE /\ retry = 0
    BY DEF Init
  <2>. QED BY <2>1, <2>3, <2>4, <2>5, <2>6 DEF TypeOK
<1>2. HandsOnAddress /\ SettingsApply /\ DialsPeer /\ Unharmed
  BY DEF Init, HandsOnAddress, SettingsApply, Alive, DialsPeer, Unharmed,
     Goroutines
<1>. QED BY <1>1, <1>2 DEF ProcInv

-----------------------------------------------------------------------------
(***************************************************************************)
(* Steps that leave the goroutines' places alone.                          *)
(***************************************************************************)
LEMMA QuietStep ==
  ASSUME ProcInv, TypeOK', UNCHANGED <<opts, pc, selfIp, retry>>,
         Alive' => Alive /\ UNCHANGED settings,
         faults' \in {faults, faults + 1}
  PROVE  ProcInv'
<1>1. HandsOnAddress'
  BY DEF ProcInv, HandsOnAddress
<1>2. SettingsApply'
  BY DEF ProcInv, SettingsApply, Settings, Setting
<1>3. DialsPeer'
  BY DEF ProcInv, DialsPeer
<1>4. WellConfigured' => Unharmed'
  <2>1. faults > 0 => faults' > 0
    BY ConstantTypes DEF ProcInv, TypeOK
  <2>. QED BY <2>1 DEF ProcInv, Unharmed, WellConfigured, Serves
<1>. QED BY <1>1, <1>2, <1>3, <1>4 DEF ProcInv

(* Steps that move one goroutine somewhere; if all is well, into an error   *)
(* only the listener, and after a fault.                                    *)
LEMMA MoveStep ==
  ASSUME ProcInv, TypeOK', NEW g \in Goroutines, NEW there, Goto(g, there),
         UNCHANGED <<opts, settings, main>>,
         HandsOnAddress',
         faults' \in {faults, faults + 1},
         WellConfigured /\ there = "error" => g = "listener" /\ faults' > 0,
         \/ /\ g = "dialer"
            /\ there = "connected" => retry' = 0
            /\ there \in {"running", "pausing", "connected"} =>
                 opts.peer \in {"up", "down"}
         \/ g # "dialer" /\ UNCHANGED retry
  PROVE  ProcInv'
<1>1. \A h \in Goroutines : pc'[h] = IF h = g THEN there ELSE pc[h]
  BY DEF Goto, ProcInv, TypeOK
<1>2. SettingsApply'
  BY DEF ProcInv, SettingsApply, Settings, Setting, Alive
<1>3. WellConfigured' => Unharmed'
  <2>. SUFFICES ASSUME WellConfigured PROVE Unharmed'
    BY DEF WellConfigured, Serves
  <2>a. faults > 0 => faults' > 0
    BY ConstantTypes DEF ProcInv, TypeOK
  <2>1. /\ pc'["dialer"] # "error" /\ pc'["server"] # "error"
        /\ pc'["listener"] = "error" => faults' > 0
    BY <1>1, <2>a DEF ProcInv, Unharmed, Goroutines
  <2>2. pc'["dialer"] = "connected" => retry' = 0
    BY <1>1 DEF ProcInv, Unharmed, Goroutines
  <2>. QED BY <2>1, <2>2 DEF Unharmed
<1>4. DialsPeer'
  BY <1>1 DEF ProcInv, DialsPeer, Goroutines
<1>. QED BY <1>2, <1>3, <1>4 DEF ProcInv

-----------------------------------------------------------------------------
(***************************************************************************)
(* The process itself.                                                     *)
(***************************************************************************)
LEMMA StartInv == ASSUME ProcInv, Start PROVE ProcInv'
<1>. USE DEF ProcInv
<1>1. /\ main = "starting" /\ main' \in {"refused", "fatal", "running"}
      /\ UNCHANGED <<opts, sig, begun, listenVars, retry, hostVars>>
  BY DEF Start
<1>2. CASE main' # "running"
  <2>1. UNCHANGED <<settings, pc>>
    BY <1>2 DEF Start
  <2>2. TypeOK'
    BY <1>1, <2>1 DEF TypeOK, listenVars, hostVars
  <2>. QED BY <1>1, <1>2, <2>1, <2>2, QuietStep
           DEF listenVars, hostVars, Alive
<1>3. CASE main' = "running"
  <2>1. /\ settings' = Settings(opts)
        /\ pc' = [g \in Goroutines |-> IF g = "core" THEN "running" ELSE "start"]
    BY <1>3 DEF Start
  <2>2. pc' \in [Goroutines -> {"running", "start"}]
    BY <2>1
  <2>3. TypeOK'
    BY <1>1, <1>3, <2>1, <2>2, SettingsType DEF TypeOK, listenVars, hostVars
  <2>4. HandsOnAddress' /\ DialsPeer' /\ Unharmed'
    BY <1>3, <2>1, <2>2 DEF HandsOnAddress, DialsPeer, Unharmed, Goroutines
  <2>5. SettingsApply'
    BY <1>1, <2>1 DEF SettingsApply, Settings, Setting
  <2>. QED BY <2>3, <2>4, <2>5
<1>. QED BY <1>2, <1>3

LEMMA MainInv ==
  ASSUME ProcInv, Signal \/ ReceiveError \/ ReceiveSignal \/ Return
  PROVE  ProcInv'
<1>1. TypeOK'
  BY DEF ProcInv, TypeOK, Signal, ReceiveError, ReceiveSignal, Return,
     listenVars, hostVars
<1>2. UNCHANGED <<opts, pc, selfIp, retry, settings, faults>>
  BY DEF Signal, ReceiveError, ReceiveSignal, Return, listenVars, hostVars
<1>3. Alive' => Alive
  BY DEF Signal, ReceiveError, ReceiveSignal, Return, Alive
<1>. QED BY <1>1, <1>2, <1>3, QuietStep

LEMMA BeginInv ==
  ASSUME ProcInv, NEW w \in Workers, Begin(w)
  PROVE  ProcInv'
<1>1. /\ main' \in {main, "fatal", "panicked"} /\ begun' = begun \cup {w}
      /\ UNCHANGED <<opts, settings, sig, pc, listenVars, retry, hostVars>>
  BY DEF Begin
<1>2. TypeOK'
  BY <1>1 DEF ProcInv, TypeOK, listenVars, hostVars
<1>. QED BY <1>1, <1>2, QuietStep DEF listenVars, hostVars, Alive, Begin

-----------------------------------------------------------------------------
(***************************************************************************)
(* The listener.                                                           *)
(***************************************************************************)
LEMMA ListenerStartInv == ASSUME ProcInv, ListenerStart PROVE ProcInv'
<1>. USE DEF ProcInv
<1>1. CASE addr = NoAddr
  <2>1. /\ main' = "fatal"
        /\ UNCHANGED <<pc, selfIp, opts, settings, sig, begun, socket, packets,
                       chan, retry, hostVars>>
    BY <1>1 DEF ListenerStart
  <2>2. TypeOK'
    BY <2>1 DEF TypeOK, hostVars
  <2>. QED BY <2>1, <2>2, QuietStep DEF Alive, hostVars
<1>2. CASE addr # NoAddr
  <2>1. /\ main' = main /\ selfIp' = addr /\ Goto("listener", "pausing")
        /\ UNCHANGED <<opts, settings, sig, begun, socket, packets, chan, retry,
                       hostVars>>
    BY <1>2 DEF ListenerStart
  <2>2. TypeOK'
    BY <2>1 DEF TypeOK, Goto, Goroutines, hostVars
  <2>3. HandsOnAddress'
    BY <2>1 DEF HandsOnAddress, Goto, TypeOK, Goroutines
  <2>. QED BY <2>1, <2>2, <2>3, MoveStep DEF Goroutines, hostVars
<1>. QED BY <1>1, <1>2

LEMMA JoinInv == ASSUME ProcInv, Join PROVE ProcInv'
<1>. USE DEF ProcInv
<1>1. UNCHANGED <<processVars, begun, selfIp, packets, chan, retry, addr>>
  BY DEF Join
<1>2. /\ faults \in Nat /\ faults' \in 0..MaxFaults
      /\ faults' \in {faults, faults + 1}
  BY ConstantTypes DEF Join, JoinFails, TypeOK
<1>3. PICK there \in {"running", "error"} :
        /\ Goto("listener", there)
        /\ there = "error" => ~opts.join \/ faults' = faults + 1
  BY DEF Join, JoinFails
<1>4. socket' \in BOOLEAN
  BY DEF Join, TypeOK
<1>5. TypeOK'
  BY <1>1, <1>2, <1>3, <1>4 DEF TypeOK, Goto, Goroutines, processVars
<1>6. HandsOnAddress'
  BY <1>3 DEF HandsOnAddress, Goto, TypeOK, Goroutines
<1>7. WellConfigured /\ there = "error" => faults' > 0
  BY <1>2, <1>3 DEF WellConfigured
<1>. QED BY <1>1, <1>2, <1>3, <1>5, <1>6, <1>7, MoveStep
         DEF Goroutines, processVars

LEMMA ReadPacketInv == ASSUME ProcInv, ReadPacket PROVE ProcInv'
<1>. USE DEF ProcInv
<1>1. /\ UNCHANGED <<processVars, begun, selfIp, socket, chan, retry, hostVars>>
      /\ packets # <<>> /\ packets' = Tail(packets)
  BY DEF ReadPacket
<1>2. /\ packets' \in Seq(Addrs \cup {Foreign})
      /\ Head(packets) \in Addrs \cup {Foreign}
  BY <1>1 DEF TypeOK
<1>3. CASE Head(packets) = selfIp /\ Goto("listener", "handing")
  <2>1. TypeOK'
    BY <1>1, <1>2, <1>3 DEF TypeOK, Goto, Goroutines, hostVars, processVars
  <2>2. selfIp \in Addrs
    BY <1>2, <1>3, ProcessAssumption DEF TypeOK
  <2>3. HandsOnAddress'
    BY <1>1, <2>2 DEF HandsOnAddress
  <2>. QED BY <1>1, <1>3, <2>1, <2>3, MoveStep
           DEF Goroutines, processVars, hostVars
<1>4. CASE UNCHANGED pc
  <2>1. TypeOK'
    BY <1>1, <1>2, <1>4 DEF TypeOK, hostVars, processVars
  <2>. QED BY <1>1, <1>4, <2>1, QuietStep DEF processVars, hostVars, Alive
<1>. QED BY <1>3, <1>4 DEF ReadPacket

LEMMA HandOverInv == ASSUME ProcInv, HandOver PROVE ProcInv'
<1>. USE DEF ProcInv
<1>1. /\ pc["listener"] = "handing" /\ chan' = Append(chan, selfIp)
      /\ Goto("listener", "running")
      /\ UNCHANGED <<processVars, begun, selfIp, socket, packets, retry,
                     hostVars>>
  BY DEF HandOver
<1>2. chan' \in Seq(Addrs)
  BY <1>1 DEF TypeOK, HandsOnAddress
<1>3. TypeOK'
  BY <1>1, <1>2 DEF TypeOK, Goto, Goroutines, hostVars, processVars
<1>4. HandsOnAddress'
  BY <1>1 DEF HandsOnAddress, Goto, TypeOK, Goroutines
<1>. QED BY <1>1, <1>3, <1>4, MoveStep DEF Goroutines, processVars, hostVars

LEMMA SocketFailsInv == ASSUME ProcInv, SocketFails PROVE ProcInv'
<1>. USE DEF ProcInv
<1>1. /\ socket' = FALSE /\ packets' = <<>>
      /\ UNCHANGED <<processVars, begun, selfIp, chan, retry, addr>>
  BY DEF SocketFails
<1>2. faults' \in 0..MaxFaults /\ faults' \in {faults, faults + 1}
  <2>1. faults \in 0..MaxFaults /\ MaxFaults \in Nat
    BY ProcessAssumption DEF TypeOK
  <2>2. faults' = faults \/ (faults < MaxFaults /\ faults' = faults + 1)
    BY DEF SocketFails
  <2>. QED BY <2>1, <2>2
<1>3. PICK there \in {"gone", "pausing"} : Goto("listener", there)
  BY DEF SocketFails, AfterFailure
<1>4. TypeOK'
  <2>1. packets' \in Seq(Addrs \cup {Foreign})
    BY <1>1
  <2>2. pc' \in [Goroutines -> {"off", "start", "running", "handing",
                                "connected", "pausing", "error", "gone"}]
    BY <1>3 DEF TypeOK, Goto
  <2>. QED BY <1>1, <1>2, <2>1, <2>2 DEF TypeOK, processVars
<1>5. HandsOnAddress'
  BY <1>3 DEF HandsOnAddress, Goto, TypeOK, Goroutines
<1>. QED BY <1>1, <1>2, <1>3, <1>4, <1>5, MoveStep DEF Goroutines, processVars

(* The watcher, the core's loop, packets and addresses. *)
LEMMA OtherInv ==
  ASSUME ProcInv,
         \/ Watch \/ CoreTake \/ LocalAnnounce \/ Packet(Foreign) \/ NewAddress
  PROVE  ProcInv'
<1>. USE DEF ProcInv
<1>1. UNCHANGED <<processVars, pc, begun, selfIp, retry>>
  BY DEF Watch, CoreTake, LocalAnnounce, Packet, NewAddress, listenVars,
     hostVars
<1>2. socket' \in BOOLEAN
  BY DEF TypeOK, Watch, CoreTake, LocalAnnounce, Packet, NewAddress, listenVars
<1>3. packets' \in Seq(Addrs \cup {Foreign})
  <2>1. packets \in Seq(Addrs \cup {Foreign}) /\ addr \in Addrs \cup {NoAddr}
    BY DEF TypeOK
  <2>2. CASE LocalAnnounce
    BY <2>1, <2>2 DEF LocalAnnounce, Packet
  <2>3. CASE Packet(Foreign)
    BY <2>1, <2>3 DEF Packet
  <2>4. CASE Watch
    <3>1. packets' = <<>>
      BY <2>4 DEF Watch
    <3>. QED BY <3>1
  <2>5. CASE CoreTake \/ NewAddress
    BY <2>1, <2>5 DEF CoreTake, NewAddress, listenVars
  <2>. QED BY <2>2, <2>3, <2>4, <2>5
<1>4. chan' \in Seq(Addrs)
  <2>1. CASE CoreTake
    BY <2>1 DEF TypeOK, CoreTake
  <2>2. CASE ~CoreTake
    BY <2>2 DEF TypeOK, Watch, LocalAnnounce, Packet, NewAddress, listenVars
  <2>. QED BY <2>1, <2>2
<1>5. /\ addr' \in Addrs \cup {NoAddr}
      /\ faults' \in 0..MaxFaults /\ faults' \in {faults, faults + 1}
  <2>1. /\ addr \in Addrs \cup {NoAddr} /\ faults \in 0..MaxFaults
        /\ MaxFaults \in Nat
    BY ProcessAssumption DEF TypeOK
  <2>2. CASE NewAddress
    BY <2>1, <2>2 DEF NewAddress
  <2>3. CASE ~NewAddress
    BY <2>1, <2>3 DEF Watch, CoreTake, LocalAnnounce, Packet, hostVars
  <2>. QED BY <2>2, <2>3
<1>6. TypeOK'
  BY <1>1, <1>2, <1>3, <1>4, <1>5 DEF TypeOK, processVars
<1>. QED BY <1>1, <1>5, <1>6, QuietStep DEF processVars, Alive

-----------------------------------------------------------------------------
(***************************************************************************)
(* The dial loop and the goroutines of which only the end matters.         *)
(***************************************************************************)
(* If all is well, a count that is zero does not end the dial loop, and     *)
(* with a peer that never answers there is no limit.                        *)
LEMMA LostStep ==
  ASSUME ProcInv, Lost, retry = 0 \/ opts.peer = "down",
         opts.peer \in {"up", "down"}, Alive
  PROVE  /\ retry' \in Nat
         /\ \E there \in {"pausing", "error"} :
              Goto("dialer", there) /\ (WellConfigured => there # "error")
<1>1. settings = Settings(opts) /\ settings.retries \in Int /\ retry \in Nat
  BY DEF ProcInv, SettingsApply, TypeOK
<1>2. ASSUME WellConfigured
      PROVE  settings.retries < 0 \/ (retry = 0 /\ settings.retries >= 1)
  BY <1>1, <1>2, GoodSettings DEF ProcInv, TypeOK
<1>. QED BY <1>1, <1>2 DEF Lost

LEMMA DialerMoveInv ==
  ASSUME ProcInv, NEW there, Goto("dialer", there),
         there \in {"gone", "error", "running", "pausing", "connected"},
         retry' \in Nat,
         UNCHANGED <<processVars, begun, listenVars, hostVars>>,
         WellConfigured => there # "error",
         there = "connected" => retry' = 0,
         opts.peer \in {"up", "down"} \/ there \in {"gone", "error"}
  PROVE  ProcInv'
<1>1. TypeOK'
  BY DEF ProcInv, TypeOK, Goto, Goroutines, processVars, listenVars, hostVars
<1>2. HandsOnAddress'
  BY DEF ProcInv, HandsOnAddress, Goto, TypeOK, Goroutines, listenVars
<1>. QED BY <1>1, <1>2, MoveStep DEF Goroutines, processVars, hostVars

LEMMA DialerInv ==
  ASSUME ProcInv, DialerStart \/ Dial \/ DialAgain \/ Disconnect
  PROVE  ProcInv'
<1>1. UNCHANGED <<processVars, begun, listenVars, hostVars>> /\ Alive
  BY DEF DialerStart, Dial, DialAgain, Disconnect
<1>2. retry \in Nat /\ opts \in Options
  BY DEF ProcInv, TypeOK
<1>3. CASE DialerStart
  BY <1>1, <1>2, <1>3, OptionTypes, DialerMoveInv, GoodSettings DEF DialerStart
<1>4. CASE Dial
  <2>1. opts.peer \in {"up", "down"}
    BY <1>4 DEF Dial, ProcInv, DialsPeer
  <2>2. CASE opts.peer = "up"
    BY <1>1, <1>4, <2>1, <2>2, DialerMoveInv DEF Dial, Connected
  <2>3. CASE opts.peer # "up"
    BY <1>1, <1>4, <2>1, <2>3, LostStep, DialerMoveInv DEF Dial
  <2>. QED BY <2>2, <2>3
<1>5. CASE DialAgain
  <2>1. opts.peer \in {"up", "down"}
    BY <1>5 DEF DialAgain, ProcInv, DialsPeer
  <2>. QED BY <1>1, <1>2, <1>5, <2>1, DialerMoveInv DEF DialAgain
<1>6. CASE Disconnect
  <2>1. opts.peer \in {"up", "down"} /\ pc["dialer"] = "connected"
    BY <1>6 DEF Disconnect, ProcInv, DialsPeer
  <2>2. CASE Goto("dialer", "gone") /\ UNCHANGED retry
    BY <1>1, <1>2, <2>2, DialerMoveInv
  <2>3. CASE Lost
    <3>1. retry' \in Nat
      BY <1>2, <2>3 DEF Lost
    <3>2. PICK there \in {"pausing", "error"} : Goto("dialer", there)
      BY <2>3 DEF Lost
    <3>3. ASSUME WellConfigured PROVE Goto("dialer", "pausing")
      <4>1. retry = 0
        BY <2>1, <3>3 DEF ProcInv, Unharmed
      <4>. QED BY <1>1, <2>1, <2>3, <3>3, <4>1, LostStep
    <3>4. CASE Goto("dialer", "pausing")
      BY <1>1, <2>1, <3>1, <3>4, DialerMoveInv
    <3>5. CASE ~WellConfigured
      BY <1>1, <2>1, <3>1, <3>2, <3>5, DialerMoveInv
    <3>. QED BY <3>3, <3>4, <3>5
  <2>. QED BY <1>6, <2>2, <2>3 DEF Disconnect
<1>. QED BY <1>3, <1>4, <1>5, <1>6

LEMMA ServerInv ==
  ASSUME ProcInv, ServerStart \/ Stop("core") \/ Stop("server")
  PROVE  ProcInv'
<1>1. UNCHANGED <<processVars, begun, listenVars, retry, hostVars>>
  BY DEF ServerStart, Stop
<1>2. PICK g \in {"core", "server"}, there \in {"gone", "running", "error"} :
        Goto(g, there) /\ (WellConfigured => there # "error")
  <2>1. CASE ServerStart
    BY <2>1, GoodSettings DEF ServerStart, ProcInv, TypeOK
  <2>2. CASE Stop("core") \/ Stop("server")
    BY <2>2 DEF Stop
  <2>. QED BY <2>1, <2>2
<1>3. TypeOK'
  BY <1>1, <1>2
  DEF ProcInv, TypeOK, Goto, Goroutines, processVars, listenVars, hostVars
<1>4. HandsOnAddress'
  BY <1>1, <1>2 DEF ProcInv, HandsOnAddress, Goto, TypeOK, Goroutines, listenVars
<1>. QED BY <1>1, <1>2, <1>3, <1>4, MoveStep
         DEF Goroutines, processVars, hostVars

-----------------------------------------------------------------------------
(***************************************************************************)
(* The theorems.                                                           *)
(***************************************************************************)
LEMMA NextProcInv == ProcInv /\ [Next]_vars => ProcInv'
<1>. SUFFICES ASSUME ProcInv, [Next]_vars PROVE ProcInv'
  OBVIOUS
<1>1. CASE MainStep \/ Signal
  BY <1>1, StartInv, MainInv DEF MainStep
<1>2. CASE ListenerStep \/ SocketFails \/ Watch
  BY <1>2, ListenerStartInv, JoinInv, ReadPacketInv, HandOverInv,
     SocketFailsInv, OtherInv DEF ListenerStep
<1>3. CASE DialerStep \/ Disconnect
  BY <1>3, DialerInv DEF DialerStep
<1>4. CASE ServerStart \/ Stop("core") \/ Stop("server")
  BY <1>4, ServerInv
<1>5. CASE \E w \in Workers : Begin(w)
  BY <1>5, BeginInv
<1>6. CASE CoreTake \/ LocalAnnounce \/ Packet(Foreign) \/ NewAddress
  BY <1>6, OtherInv
<1>7. CASE UNCHANGED vars
  <2>1. UNCHANGED <<opts, settings, main, sig, pc, begun, selfIp, socket,
                    packets, chan, retry, addr, faults>>
    BY <1>7 DEF vars, processVars, listenVars, hostVars
  <2>2. TypeOK'
    BY <2>1 DEF ProcInv, TypeOK
  <2>. QED BY <2>1, <2>2, QuietStep DEF Alive
<1>. QED BY <1>1, <1>2, <1>3, <1>4, <1>5, <1>6, <1>7 DEF Next

(* The invariant of the process: good options keep the dial loop and the    *)
(* server out of the errors, and the listener as long as nothing fails.     *)
THEOREM ProcessInvariant == Spec => []ProcInv
<1>1. Init => ProcInv
  BY InitProcInv
<1>2. ProcInv /\ [Next]_vars => ProcInv'
  BY NextProcInv
<1>. QED BY <1>1, <1>2, PTL DEF Spec

(* Every variable of the process keeps to its type. *)
THEOREM ProcessTypeCorrect == Spec => []TypeOK
<1>1. ProcInv => TypeOK
  BY DEF ProcInv
<1>. QED BY <1>1, ProcessInvariant, PTL

(* main.go:268: where the process is well configured, only a socket of the  *)
(* listener that cannot be made again is reported as a grave error; lost    *)
(* connections, however many, are not, whenever the signal comes.           *)
THEOREM OnlyGraveErrors == Spec => []ErrorsAreGrave
<1>1. ProcInv => ErrorsAreGrave
  BY DEF ProcInv, Unharmed, ErrorsAreGrave
<1>. QED BY <1>1, ProcessInvariant, PTL
=============================================================================
