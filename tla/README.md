# TLA+ specifications of LocalSend Switch

LocalSend Switch runs beside a LocalSend client and exchanges, over TCP, the
announcements that LocalSend's multicast cannot carry into other networks.
This directory holds TLA+ models of one node, from its options to the pieces
that pass over a connection, and of a network of nodes; TLC configurations
that check them on small instances; and TLAPS proofs for all instances.

Run a check with `tlc -config lounge.cfg MCSwitchLounge`, a proof with
`tlapm SwitchLoungeProofs.tla`.  `PROJECT.json` lists runs, mutants, findings,
hazards, theorems, and for every definition the source lines it stands for.

## Inventory

| Part | Source | State it keeps | Operations | Talks to |
|---|---|---|---|---|
| Exchange buffer `SwitchLounge` | services/switch_lounge.go | ids already let through, heap of their expiry times, bounded channel, closed flag | Write, Read, Close, cleaner goroutine every 10 s | written by the main loop, read by the forwarder |
| Forwarding | services/switch_core.go 26-150 | position in the loop over a snapshot of the connections; the message's shared TTL field | passive forwarder, proactive broadcaster | reads the lounge, the hub and the client lounge; writes send channels and HTTP requests |
| Connections | services/tcp_connection_hub.go, tcp_core.go | map address -> (socket, send channel); per connection a receiver, a sender and a signal watcher | AddConnection, RemoveConnection, snapshots, Close; accept loop, dial loop with retries | delivers to the main loop through `switchDataChan` |
| What a connection carries | services/tcp_core.go 39-273, utils/cipher.go | a frame being written or read, read and write deadlines, the heartbeat ticker | frames, heartbeats, encryption with a shared secret | the two ends of a connection |
| Network of nodes | all of the above, on several hosts | copies under way, remembered ids | flooding, reconnection, restart | other nodes over TCP |
| Main loop `SetUpSwitchCore` | services/switch_core.go 249-309 | none of its own | takes from multicast and TCP, writes the lounge and the client lounge, cleans up | all of the above |
| Local client lounge | services/local_client_lounge.go | clients by port with expiry | Add, SyncGet (a goroutine that holds the mutex while it hands out clients), Close, cleaner | main loop, alive checker, both forwarding loops |
| Alive checker, HTTP sender | services/switch_core.go 160-237, http_sender.go | outstanding probe, its response channels | probe over http and https, wait for both answers | 8 workers on one request channel |
| Multicast listener | services/multicast_listener.go | own address, socket | receive, filter, number, pass on; restart | main loop |
| Log writer | utils/log.go | current file, historical files | Write, rotate, Close | every goroutine through slog |
| Start-up and shutdown | main.go, configs/ | options | parse, start, wait for an error or the signal | starts everything |
| Encoding, autostart, paths, interfaces | generated/, utils/ | none | pure functions, system calls | |

The process is a set of goroutines; they meet in four mutexes (lounge, hub,
client lounge, slog) and in bounded channels whose sends block.  What is hard:

* **snapshots**: the hub's list of connections is used after its mutex was
  released, while connections come and go;
* **sharing**: one message object is in the send channels of all connections
  while the loop goes on changing its TTL;
* **blocking**: sends to connections, to the inbox and to the HTTP workers do
  not look at the interrupt signal, and some happen under a mutex;
* **limits**: the id cache, the channels, the number of connections, a uint32
  TTL, retry counts;
* **time**: id expiry, read deadline against heartbeat interval and write
  timeout, reconnection after a fixed sleep;
* **partial failure**: a frame written halfway, a rotation that stops halfway, a
  probe that gets no answer, a socket that fails under the listener;
* **loops**: networks in which a message comes back to where it has been, along
  several ways and after its id was forgotten.

What makes each part correct:

* lounge: an id enters at most once while it is remembered; map and heap agree;
  the limit holds; ids are forgotten oldest first; Close ends the cleaner;
* forwarding: one copy per connection, none to the source, TTL goes down and
  stops the message, nothing blocks for good;
* connections: the hub lists exactly the live connections; each channel is
  closed once and never sent to afterwards; broken connections disappear; the
  dial loop keeps trying;
* wire: what arrives is what was sent, in order, whatever was cut; a connection stays up
  while its writes succeed and the network brings them over soon, and a spoilt one ends;
* network: an announcement reaches every node once, unless a copy of it is lost, and stops
  circulating;
* process: only grave errors are reported to main, it ends on the signal, and its listener
  survives a failing socket;
* client lounge, checker, log: live clients are known, dead ones
  forgotten, until the signal no step waits for ever, no log line is lost by a rotation.

## Modules

`SwitchLounge` models switch_lounge.go.  Each method body runs under
`sl.mutex`, so each is one action: `Write(id)` with its outcomes `WriteClosed`,
`WriteDuplicate` and `WriteFresh` (which covers the eviction, the `select` on the
channel, and the error returns), `Close`.  Of the forwarder there is where it takes messages
(`Read`), that its turn may end or not (`TurnEnds`), and its returns on the signal and on the
closed channel (`ReaderExit`).  The cleaner reads the time before it takes the mutex:
`CleanerTick`, then `CleanerSweep`.  The heap is the set of
its items; popping removes an item no other precedes.  `ForwardOnce` is the
abstract promise (a bounded FIFO that never takes in an id it remembers);
`SwitchLounge!ForwardsOnce` states that the lounge implements it.

`SwitchForwarding` models the two writers (passive forwarder, proactive
broadcaster) and the senders on a fixed set of connections.  A send channel holds
message names, because the code puts pointers there; `ttl[m]` is the shared field.
`Visit` is one turn of the loop (decrement, then pass over or get ready to
send), `Enqueue` the blocking send, `Receive` and `Transmit` the sender.  A message that is
received while its TTL changes is marshalled with whatever value the field then has.

`ConnectionHub` models the connections' life: `Accept`, `DialOk`, `DialFail` and
the retry loop, `Break`, the receiver (`RecvFrame`, `RecvDeliver`, `RecvFail`,
`RecvCleanup`), its signal watcher, the sender, writers with their snapshots
(`Snapshot`, `PickConn`, `SendTo`), the main loop, and the interrupt signal.  Messages are counted,
not named.  A panic is the value of `crash`; nothing runs after it.

`ConnectionWire` models one direction of one connection, with its timeouts.  A message is three
writes (type, length, body), a heartbeat one, and each write is a piece in `bytes`.
`WritePiece` hands one to the kernel, which is all that a successful write says; `Travel` brings
one over, at once, after any time, or never, and `ReadFails` is a reset.  `stall` measures how
long the network has been behind, and the history variables `late` and `broken` remember that it
was behind for more than `MaxStall` and that there was a reset.  When the write deadline of the
frame has passed, `GiveUp` drops the rest and may leave a cut piece behind, and the sender goes
on with its next frame, as the code does.  The receiver reads piece by piece (`ReadPiece`);
where it meets another piece than it expects it is `astray`, and what it makes of the bytes is
left open: it may wait for more, fail, or take something for a message.  With a key only what
was written whole with the same key decrypts (AES-GCM); without one, garbage may decode.
`Elapse` is a unit of time, which passes only when no goroutine is `Due`; pieces under way do
not stop it.  What happens when the receiver leaves is in `ConnectionHub`.

`LocalClientLounge` models local_client_lounge.go with the goroutines that use
it: two adders (main loop, alive checker), two readers (forwarder, broadcaster),
the cleaner.  `Add`, `Close` and `CleanerSweep` hold the mutex for one step.
`SyncGet` is a goroutine, the giver: `GiverLocks`, one `HandOver` per client, `GiverEnds`;
it owns `mutex` all the while.  What a reader does with a client is reduced to a
number of sends into a bounded channel (`ReaderSends`): the HTTP workers' for the
forwarder, a connection's for the broadcaster.  The forwarder alone gives up a
blocked send on the signal (`ReaderQuits`).

`ClientProbe` models the alive checker and the HTTP workers: `Ask` and `Await` for both
protocols, `Decide`, `AddClient`, and every way a request ends (`Answer` with a good answer, a
useless one or nil, `BodyFails`, `WorkerExit`).  `AddClient` waits for the client lounge's mutex
without a look at the signal; who else has it is `Lock` and `Unlock`, and after the signal it
may stay locked (see Findings, clients_cleanup).  The forwarder competes for the same channel;
while it is "busy" it may be blocked in its sends to connections or in its round, where nothing
looks at the signal.  `lost` is a history variable: it remembers that `BodyFails` has happened.

`SwitchNetwork` composes nodes.  A node is what the modules above promise of its parts: its
lounge is `ForwardOnce` (`Admit`), and one turn of its forwarder or broadcaster is one step
(`SendToAll`) that sends at most one copy over each connection: its senders may give copies up
when a write misses its deadline (`GiveUp`, which counts as one fault of the turn), and the
connection stays.  Messages whose original address is not `Private` are dropped by the
forwarder.  What a turn does to the TTL is in `Turns`, which both modules use: `Orders` are the
orders in which a turn can visit the connections, `Delays` how many decrements can have been
made when a sender marshals its copy.  `SwitchForwarding`, where a turn is many steps of a
writer and the senders, states by `HopIsTurn` that when these are over no more has come of them
than one such turn, less what the senders gave up.  Faults are `Break`, `Reconnect` and
`Restart`; a connection made again comes from another port, so that the acceptor no longer
recognises it as the source of what waits.  `Forget` lets an id expire or be evicted.

`SwitchProcess` models main.go with configs/: `Serves` says which options let the
process start, `Settings` what it keeps of them, and `pc` where the goroutines are.
The multicast listener is there in full (`Join`, `ReadPacket` with the filter,
`HandOver`, `SocketFails`, `Watch`); of the dial and accept loops and of the core there is what
can report an error or end.  `Join` may fail whenever a socket is made (`JoinFails`), which ends the
listener with an error.  Of the workers only the start, where an interval that is not
positive panics.  The other parts of a component are in its own module.

`LogRotation` models utils/log.go one file-system call at a time: `Write`, `CloseOld`,
`Scan`, `DeleteOne`, `ShiftOne`, `MoveLatest`, `Reopen`, `Append`; `Fail` at any of the calls,
`Crash` anywhere, `Restart`, and main's unsynchronised `CloseFile`, `SetClosed`.  A file
is the set of its entries and its size.

The `MC*` modules add only what TLC needs: symmetry sets and constant values.  The
`*Proofs` modules hold the theorems of the module they are named after, `ConnectionProofs` those
of `ConnectionHub` and `ConnectionWire`.

### Definitions that merge code

`Write` of the lounge and `Add`, `Close`, the sweeps of both lounges, and
`StartConnection` and `RemoveConnection` of the hub are single steps because the code
runs them under one mutex and they do not block inside; the hub's snapshots likewise.
Where the code reads something before it takes a mutex (the lounge's sweep time) or
keeps using something after it released one (snapshots of the hub, clients handed out), the
model has separate steps.

## Runs

| Run | Asks | Instance |
|---|---|---|
| lounge | are map, heap and limit consistent under every order of writes, evictions, sweeps with an old time, and Close; are ids forgotten in order; can a message wait twice; are expired ids dropped, does Close end the cleaner even if the forwarder is stuck, is `ForwardOnce` implemented | 4 ids, cache of 3, channel of 2, lifetime 1, clock to 3, timestamps may coincide |
| forward | copies per connection; does a hop come to one turn of the network; do full channels ever stop the writers | 3 connections, one relayed and one own message, TTLs 0, 1, 3 and 5, modulus 16 |
| hub_safety | hub against live connections, drained channels, reasons to give up | 2 dialed connections to one peer, 1 client, room for 2, 1 writer, signal |
| hub_liveness | are broken connections reaped and their successors left alone, do writers get on | 1 dialed, 2 accepted with one address, unlimited retries, no signal |
| hub_disconnect | tcp_core.go:287 and README.md:242 (violated) | as hub_safety |
| wire | does what is written arrive, and nothing else after a cut frame; do connections stay up whose writes succeed and whose network is never behind for long; do spoilt ones end | 2 messages, buffer of 2 pieces, inbox of 1, read timeout 6, heartbeat 3, write timeout 1, stall 1, the key at both ends, at one or at none |
| clients | is a round a snapshot, is nothing handed out after Close, is nobody dropped early; do adds, rounds and sweeps complete although givers keep the mutex | 1 client, both readers, main loop, lifetime 1, clock to 2, signal |
| clients_cleanup | main.go:283 (violated) | 2 clients, forwarder and main loop |
| probe | can an answer reach a later check, when does an answer go missing, does the lounge follow the client; does the signal end the workers, and the checker unless `Add` waits for ever | 2 workers, channel of 1 |
| log | what can a rotation lose or confuse | files up to 2 units, entries up to 3, leftovers with ids 1 and 2 of two logs, limits 0 to 3, 4 new entries, 2 faults |
| network | how often does a message cross a connection and reach a node, does it stop, does everybody get what they are owed, and have they got it when nothing travels | 3 nodes: a ring with parallel connections, rings that forget, rings and lines with a fault or a copy given up, two messages, one without a private address |
| process | which options and failures lead to a grave error, does the signal end the process, are local clients heard | 13 sets of options, 2 addresses, channels of 1, 2 faults |

### Bounds

The limits of the code (65536 ids, 65025 waiting messages, 16, 32 or 128 channel
slots, 8 workers, 2550 connections, 2^32) are constants here, and the runs take the
smallest values at which full, empty, at the limit and past the limit all happen: a
cache that is smaller than the number of ids, channels of one slot so that the second
send blocks, a hub with less room than connections, TTLs below, at and above the
number of connections, more leftover logs than the limit.  Nothing in the code depends on
the numbers themselves but their order (channel smaller than cache), which the runs keep.
The timeouts of `wire` are those of the code (15, 8 and 3 s) in units of about 2.5 s; it is their
relation that counts, which `WireAssumption` names and the proofs use.

`MaxClock` bounds time; `RetryBound` caps the retry counter above the limit it is compared
with; `MaxWritten` ends a log run; `MaxFaults` is needed because every interrupted
rotation can raise the ids once more; `MayInterrupt` leaves out the signal where a
property must not rely on it; `CountBound` caps the network's counters above the
limits that the properties state; of what is garbage `ConnectionWire` records only the first.
`clients` has one client, because with two the temporal check is out of reach; that a
round hands out the right clients for any number of them is proved.
`network` has the smallest graphs in which a message can come back: a ring, and
two connections between the same nodes, which arise when both dial each other.
Its initial TTLs are those at which the TTL cannot wrap around (see Findings), and, where ids
are remembered, those that `Ample` asks for; that ids are remembered or not is a parameter of each
instance.  The lounges of two have room for both messages, and the failing links and nodes see to
it that `NobodyMissed` is also asked after a fault.

Deadlock is not checked where messages or entries are used up (forwarding, wire, log,
network), and in the runs with the signal or a crash, after which the process stops.

### Fairness

* lounge: the cleaner's ticks and sweeps are weakly fair, because the goroutine runs as long as
  the process; its exit is strongly fair, because `select` chooses at random among ready cases.
  None for the forwarder, whose turn may block for ever after the signal.
* forwarding: every loop gets on, and a write ends within its deadline of 3 s, with success or
  not.
* connections: the same, and a socket that is not up gives its reader an error. Delivery to the
  inbox and sends to a channel are strongly fair, because Go serves the goroutines blocked on a
  channel in the order they came.  No fairness for arrivals, breaks, dials or the signal.
* local clients: what waits for the mutex is strongly fair, because `sync.Mutex` hands itself to
  a waiter that has starved for 1 ms.
* probing: a request ends within its timeout of 2 s; for `FollowsClient` the local client, as
  long as it serves, answers in time again and again (`Responsive`).  The checker's steps are
  strongly fair (`sync.Mutex`, channels and `select`, as above).  The mutex is given back until
  the signal, which `RoundsComplete` of `LocalClientLounge` shows; nothing is assumed of it
  after the signal, and nothing of the forwarder at any time.
* wire: goroutines run and time passes.  No fairness for new messages, none for `WritePiece`,
  because the network may hold a write up to its deadline, and none for `Travel`.
* network: every node takes what arrives and forwards what waits.  None for announcements,
  faults, forgotten ids and reconnections: `Converges` says of a message that is announced while
  all connections are up that it reaches every node, unless a copy is given up or something
  fails first.
* process: goroutines run, and a socket that is closed fails its reader.  `LocalAnnounce` is
  strongly fair, because LocalSend clients announce themselves again and again.  None for
  failures, of sockets or of making them.

## Findings

Each listed run refutes a statement of the repository:

* **hub_disconnect**: a connection that is removed while a writer has it in its
  snapshot, or is blocked sending to it, makes the send panic: the node goes down with
  the connection.
* **clients_cleanup**: on the signal the forwarder may leave its round over the local
  clients; the giver keeps the mutex, and the main loop's deferred clean-up
  stops at its first step.

The models refute six more statements.  Each has a configuration of its own, named here, to be
run by hand; the runs that pass are stated so that they hold of the code as it is, and do not
certify these:

* `forward_expired.cfg`, `ExpiredNotForwarded` (README.md:151): after the decrement that reaches
  0 the next connection's decrement wraps to 2^32 - 1, so the message is forwarded after all,
  with a TTL that stops nothing.  The theorem `OneSkippedWhenExhausted` says for how many
  connections the check works: for one, whenever the TTL is used up in the loop.  In a network
  whose nodes forget ids too early such a message would circulate on; the instances of `network`
  that forget are rings without parallel connections, where a forwarder has one target and
  nothing wraps.
* `forward_ttl_by_one.cfg`, `TTLDecrementedByOne` (README.md:151, "decremented by `1` each time
  the message passes through a Switch node"): the TTL is decremented once per connection, and
  since all connections share the field, what each gets depends on the schedule.  What does hold
  is proved: `WireTTLWindow`, and more exactly `HopIsTurn`.
* `hub_exit.cfg`, `ConnectionsExit` (main.go:283): after the signal a receiver can stay blocked
  on `switchDataChan`, which the main loop no longer drains.
* `probe_body.cfg`, `AnswerUnderWay` (http_sender.go:20, a failed request is answered with nil):
  when the body cannot be read no answer is sent, and the checker never checks again.
  `OnlyBodiesGetLost` says that nothing else does this.
* `log_no_history.cfg`, `NeverPanics` (main.go:115, "should be a non-negative integer"): with a
  limit of 0 the first rotation panics.
* `log_close.cfg`, `ClosedMeansClosed` (log.go:155): a Close between the size check and the
  rotation succeeds, and the rotation opens the file again.

What the models show besides:

* An interval that is not a positive number is reported, and used all the same
  (main.go:189-204); the process then panics in `time.NewTicker` (`Begin`).  Like the other
  panics found here (a closed channel, a limit of 0) this does not come through `errChan`, and
  `ErrorsAreGrave` says nothing of it.
* A message whose first write misses its deadline is dropped while its connection stays up
  (tcp_core.go:158-166), and nothing repeats it: the network then owes it to nobody (`Owed`),
  and the next announcement has to make up for it.
* A write that succeeds has reached the kernel only.  With heartbeats every 8 s and writes of up
  to 3 s the read timeout of 15 s leaves the network less than 4 s to bring it over
  (`MaxStall`).
* After a failure of its socket the listener makes a new one, but if that cannot be bound or
  cannot join the group it gives up at once (multicast_listener.go:53-74), and the process ends:
  a short loss of the network may do.
* The listener reads its own address once.  When the host's address changes it hears its own
  clients no longer, hence `Undisturbed` in `HearsClients`.
* A broadcaster's own message that comes back around a loop is taken in by its lounge and sent
  once more: `CrossesOnce` allows two crossings there.

## Proofs

Each theorem rests on an inductive invariant; the invariants of the runs are parts of it or
follow from it.

`SwitchLoungeProofs`, for all ids, limits and lifetimes:

* `CacheInvariant`: the inductive invariant `CacheInv`, from which `CacheConsistent` follows.
  That the cache is bounded is not inductive alone: an eviction makes room only because the
  popped item's id is in the map (`IndexAgrees`) and no other item has the same id.  The error
  "inconsistent" cannot be met because a full map means a non-empty heap (`FullCacheHasHeap`).
* `ForgettingAlwaysOrdered`, an action property; the cleaner needs `sweepTime <= clock`.
* `LoungeForwardsOnce`: every step is a step of `ForwardOnce` or invisible to it.
* `PendingDistinct`: if the channel is smaller than the cache, admissions get distinct times and
  the reader keeps up, no message waits twice.  `PendingInv` says that items expiring no earlier
  than that of a waiting message belong to messages waiting behind it; so if the victim of an
  eviction were waiting, all remembered ids would be, which is more than fit.

`ConnectionProofs`, about the hub for any number of connections, writers and addresses, any
limits, and with reuse of addresses: `HubInvariant` with `HubInv` (hub, channels and receivers
agree while the process runs), `SocketInv` (a connection that is still to be cleaned up loses its
sender or its socket only after the signal) and `DialInv` (when the dial loop dials, none of its
connections is live).  An address is never registered twice, which `AddConnection` checks; that
the dial loop is never refused for its own old connection needs `DialInv`, and this the
assumption that nobody else connects from the address it dials.

About the wire the same module proves, for any number of messages, any buffer and inbox, and any
timeouts in which a heartbeat's interval, a write's deadline and `MaxStall` together are shorter
than the receiver's (`WireAssumption`):

* `AlwaysInOrder`: a receiver that is not astray finds whole frames, each where it expects it,
  up to some point of the pieces under way (`Framed`); up to there they hold just the messages
  that were written whole and have not been handed over, in their order (`Carries`); and behind
  it either nothing comes yet and the sender goes on where they end, or a frame has been cut and
  the receiver meets something it does not expect (`Breaks`).
* `HealthyUntilStalled`: while no write fails and the network is never behind for more than
  `MaxStall`, a receiver that waits has more time left than the sender can take to end its
  frame, or to begin and end the next heartbeat, and the network to bring it over (`Slack`),
  unless the end of a frame is under way; then it has more time left than the network may still
  be behind (`Timely`).  Nothing is assumed of when the pieces arrive, of resets only that there
  was none.

`SwitchForwardingProofs`, for any number of connections and messages and every
interleaving of writers and senders:

* `ForwardingInvariant`: `WorkInv` (a writer works on a message of its own kind that waits no
  longer), `TTLInv` (if the arriving TTL exceeds the number of targets, the field is the
  arriving TTL less one per connection visited), and `Handed` (what is in a channel or with a
  sender has been decremented at least once).  From it `TTLWindowHolds`.
* `AlwaysOncePerConnection` and `OneSkippedWhenExhausted`: `OnceInv` says that a connection has
  a copy in one place at most, and none while it is still to be visited; `SkipInv` counts the
  connections passed over against the connections visited, modulo the width of the field.
* `EveryHopIsTurn`, by which a hop of `SwitchNetwork` is what the goroutines do: `TurnInv` says
  that at any time what was done so far is a turn over the connections visited so far.  A visit
  puts one more connection at the end of the order (`OneMoreInTurn`), and a copy that is
  marshalled is as late as there are connections visited by then (`PassedCounts`).

`LocalClientLoungeProofs`, for any number of clients, readers and adders: whoever gives owns the
mutex, there is one such goroutine, and the map stays as it is until its round ends.  From it
`RoundAlwaysSnapshot`, `NothingEverAfterClose`, `FreshAlwaysKnown`.

`ClientProbeProofs`, for any number of workers and any channel: a probe that is out is in
exactly one place (channel, worker, response slot), and one that is not out in none.  From it
`NeverLeftovers`, `OnlyBodiesEverLost`, and that a worker never waits for room in a response
channel.

`LogRotationProofs`, for all leftovers, limits, failures and kills: `CutDone` (while
files are deleted those to stay are one less than the limit and none of them is older) and
`KeepsClear` (the renumbered files keep clear of those still to come, because the code begins
with the highest number).  From it the order of the numbers, the bound of the history, and
`OnlyOldestEverLost`: no rename overwrites anything.

`SwitchNetworkProofs`, for any network, with losses and restarts: whatever is under way has been
announced; while ids are remembered, a node remembers what waits in its lounge, each message waits
once, and a node has told and sent what it remembers and no longer holds, and nothing else, its own
broadcasts apart.  From it `AlwaysCrossesOnce` and `AlwaysToldOnce`.

`NobodyOwedMissed` is what the flooding achieves by the time nothing travels, hence the part of
`Converges` that needs no fairness.  It speaks of announcements with a private address, in
networks that are `Connected` and `Ample`, while nothing has failed and no copy of the
announcement has been given up since it was made (`clean`).  Without these the code does leave
nodes out: a network in parts, ids that expire, a full lounge, which drops messages
(switch_lounge.go), a TTL that is used up.  `FloodInv` says of each announcement in `clean` that
its origin knows it, that of two connected nodes of which one has sent it the other knows it or
a copy is under way to it (`LinkGood`), and that whoever a copy comes from knows it, so that
leaving out the source leaves nobody out.  For this no copy may be passed over for its TTL:
`Enough` says that any TTL still around and the connections' ends used so far add up to the
initial TTL at least, and since a node sends a message on once, no end is used twice but by the
broadcaster's own sending (`CountMoreUses`).  A lounge has room because what waits in it waits
once (`RoomLeft`).

`SwitchProcessProofs`, for all options: the settings are those of the options, and with good
ones dial loop and server reach no error, since every connection starts the retry count anew,
and the listener none before something has failed.  From it `OnlyGraveErrors`, which is about
what main gets through `errChan`, not about panics elsewhere (see Findings).

Each of them also proves type correctness.  Assumptions: the named ASSUMEs of the modules
(limits are positive naturals, the peer's address is its own), and those of the theorem.

Only model-checked are the liveness properties, which are outside the reach of the proof system.
All invariants and action properties of the runs are proved.

## Plan

The modules were written from the core of the exchange outwards: lounge, forwarding, connections,
local clients, probing, log, then wire, network and process.  What is left
is smaller: an abstract specification of the announcement as the nodes see it, with `SwitchNetwork`
shown to implement it; so far `ToldOnce` and `NobodyMissed` say the same of its states.

## Not modelled

Protobuf decoding and AES themselves (a body decodes, or not, by who wrote it), log entries of
which a part is written, the wording of logs, autostart, path and interface helpers: no state, or
only system calls.
