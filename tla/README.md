# chat-go in TLA+

chat-go is a chat server in Go: TCP and WebSocket transports that share a
gateway, a hub with clients, commands and event subscribers, and an optional
Redis Stream bus that links several servers.  This directory holds TLA+ models
of its concurrent parts, TLC runs that check them on small instances, and
TLAPS proofs of the main results for every value of the constants.

## The system

| Part | State | Operations | Meets |
| --- | --- | --- | --- |
| TCP transport (`internal/transport/tcp.go`, `session.go`) | connection, two `sync.Once` closers, `closeChan`, `lastActive`, three goroutines per connection | `Start`, `handleConnection`, `readLoop`, `lifecycleWatcher`, `heartbeatWatcher`, `SendEnvelope`, `Close` | gateway |
| WebSocket transport (`ws.go`) | connection, read deadline, `closeChan`, three goroutines per connection | `Start`, `handleConnection`, `setupHeartbeat`, `readLoop`, `handleLegacyTextMessage`, `SendEnvelope`, `Close` | gateway |
| Gateway, dispatcher, session manager | `sync.Map` of sessions, a counter beside it, an unlocked handler map, `initOnce` | `OnSessionOpen`, `OnEnvelope`, `OnSessionClose`, `Register`, `Dispatch`, `AddContext`, `Remove` | both transports |
| Hub and clients (`internal/chat`) | `sync.Map` of clients, the online gauge, handlers per event type, ban list, a bounded buffer per client | `RegisterClient`, `UnregisterClient`, `KickByName`, `Emit`, `SendToAll`, `SendToUser`, `BanFor`, `IsBanned`, `Subscribe` | commands, subscribers, bus |
| Commands (`internal/command`) | map of names and aliases, list of commands | `Register`, `Get`, `Execute`, the built-in commands | hub |
| Subscribers (`internal/subscriber`) | none | one handler per event type | hub |
| Bus (`internal/bus/redisstream`, `cmd/server/main.go`) | a Redis stream and a consumer group | `EnsureGroup`, `Publish`, `Consume` | hub of every server |
| Protocol (`internal/protocol`, `frame.go`) | none | JSON and protobuf codecs, length-prefixed frames, message factory | transports, clients |
| The rest | | configuration, metrics, logging, command-line clients | |


What is hard in each part, and what should hold:

* **TCP transport.** Three goroutines of one connection may all close it; the
  gateway's handler map has no lock; `OnSessionClose` runs twice per session.
  Closing must happen once, a removed session must be closed and stay removed,
  and after a close, a shutdown, silence or a blocked write all three
  goroutines must end.
* **WebSocket transport.** One goroutine reads, answers and closes; a pinger
  ignores all errors; the deadline moves only with pongs.  Prompt peers must
  stay, silent ones go, the pinger must not outlive its session.
* **Hub and clients.** Kicks, quits and lost connections unregister the same
  client at once while broadcasts walk a `sync.Map`.  The gauge must be exact,
  broadcasts complete, and panics contained.  `IsBanned` reads, decides and
  cleans up under three separate locks.
* **Bus.** Servers crash, replies get lost, and Redis remembers what it
  delivered.  Entries must not be handled twice and must not disappear.
* **Frames and codecs.** TCP cuts a stream anywhere, writers compete, buffers
  are reused, limits cut envelopes.  What comes out must be what went in, or
  an error.
* **Commands.** Registration of names and aliases can fail half-way.  A word
  must keep its meaning, what is listed must be what can be typed, and an
  administrators' command must run for administrators only.
* **Event handlers.** `cancel` filters a slice in place that `Emit` may be
  about to walk.  An `Emit` must start exactly the handlers that are there,
  once each, and wait for none of them.
* **Durations.** Timeouts and bans are products of 64-bit integers.

## Modules

| Module | Models | State and actions |
| --- | --- | --- |
| `SessionLifecycle` | what any transport promises | the sets of live, closed and removed sessions; `Register`, `Close`, `Unregister` |
| `TcpSession` | `tcp.go`, `session.go`, `gateway*.go`, `session_manager.go` | `pc[s][g]` is the place of goroutine `g` of session `s`; one action per step that other goroutines can interleave with (`Accept`, `AddContext`, `AddCount`, `ReadFrame`, `Heartbeat`, `SessionClose`, ...) |
| `WsSession` | `ws.go` with the same gateway | as `TcpSession`; `ttl` counts ping intervals to the read deadline |
| `Hub` | `chat/hub.go`, `chat/client.go`, `command/builtin.go`, `subscriber.go`, the gauge of `observe` | a goroutine per connection that registers, runs commands and unregisters; a goroutine per event handler that ranges over the clients |
| `BanList` | `/ban`, `BanFor` and `IsBanned` of `chat/hub.go` | the map, a clock, durations that wrap around, and callers between `IsBanned`'s lock sections |
| `EventBus` | what subscriptions promise | one list of subscriptions, and for each `Emit` the handlers it has still to start |
| `Subscriptions` | `SubscribeCancelable`, its cancel function and `Emit` of `chat/hub.go` | slices as Go has them, a length and a backing array with its capacity; `Subscribe`, `Cancel`, and the steps of `Emit` between its locks |
| `Registry` | `command/registry.go` and `/auth` | the map of words, the list, the clients' levels, and each `Execute` between look-up, check and handler |
| `Commands` | `Registry` and `Subscriptions` together | the goroutine that executes a command is the one that emits its event |
| `ReadDeadline` | the read timeout in `config.go`, `cmd/server/main.go`, `tcp.go`, `ws.go` | the setting, the options of the transports, the deadlines they set, all in exact 64-bit arithmetic |
| `Bus` | `redisstream/bus.go` and its use in `cmd/server/main.go` | Redis' stream, group and pending entries; per server its place in the start-up and in `Consume`, and the goroutines about to publish |
| `FrameStream` | `frame.go`, and `readFrame` of `cmd/client/main.go` | writers with the lock, the bytes in between, and a reader: the transport's, with its buffer and the pool, or the example client's |
| `Codec` | `protocol/*.go` | one envelope that is encoded, cut at a limit and decoded |

`TcpSession` and `WsSession` are shown to implement `SessionLifecycle` by the
mapping live = sessions in the manager, closed = connections the server has
closed, gone = sessions `Remove` was called for.  `Subscriptions` is shown to
implement `EventBus` by reading the elements out of the slices.  `MC*` modules only give
constants their values; `MCFrameStream` defines the big-endian headers, and
`MCCommands` also compares `Kept` with a filter.  Definitions marked "Faulty variant" are not part of
the specifications: each is what a plausible slip would make of the definition
that follows, kept to show that the properties notice it.

### How code becomes actions

A step of an action is what runs under one lock, in one `sync.Map` or atomic
operation, or between two blocking calls.  Calls that change nothing shared
are folded into the step around them.  Messages are reduced to their kinds.

* `sync.Once` is idle, held by the caller that runs its function, or done;
  other callers wait, as in Go.
* `sync.Map.Range` visits each client it finds at the start of the walk, in any order; it
  may also visit ones that were stored meanwhile.
* A send on a closed channel panics; inside `Emit` the panic ends the handler,
  elsewhere the process.
* Writes without a deadline wait while the peer leaves the socket buffer full.
* `net.Conn.Read` returns any positive number of the bytes that have arrived.
* `append` writes in place while the backing array has room, and otherwise
  into a new array of twice the size; a backing array that no slice refers to
  is garbage and is given out again.
* A word of a command, or a line that is typed, is the slashes it begins with,
  its letters up to the first blank inside it, what follows that blank, and
  whether `ToLower` and `TrimSpace` would change it.
* A read deadline that expires makes `readLoop` return and close the connection:
  in `FrameStream` this end closes and its read then fails.
* Redis delivers an entry to one consumer of a group, remembers it as pending
  until it is acknowledged, and creates a group at the end of the stream.
  `Consume` only asks for new entries, so pending ones stay where they are.

## Runs

Passing runs:

| Run | Instance | Shows |
| --- | --- | --- |
| `tcp_shared` | 2 connections, symmetric | types; the handler map is ready before any dispatch; removed sessions are closed |
| `tcp_session` | 1 connection, heartbeat of 2 intervals, read deadline | closing is safe; everything unwinds after close, silence, blocked write or shutdown; `SessionLifecycle` is implemented, liveness included |
| `ws_session` | 1 connection, deadline of 2 ping intervals | prompt peers stay, silent ones are reaped, the pinger stops, the session count is exact, `SessionLifecycle` is implemented |
| `hub` | 2 clients, 1 handler at a time, buffer of 1 | the gauge is exact; registered clients are open and gone ones closed; a broadcast reaches everybody, or met a client that was closed under it; a handler's panic stays in the handler; handlers end |
| `ban_list` | 2 callers, 1 name, minutes that fit in a duration and minutes that wrap, 4 time units | the answers and the clean-up of `IsBanned`; a `/ban` holds as long as it says |
| `commands` | 1 client, 3 commands with aliases that clash, are empty, begin with a slash or have a blank inside, 3 subscriptions | words keep their meaning, the list and the map agree, what is executed was registered, levels are respected; an `Emit` is complete, and `EventBus` is implemented, liveness included |
| `bus` | 2 servers, 2 entries, reads of up to 2, one fault of any kind | at most one handling per entry; nothing disappears; nothing published is skipped unless creating the group failed; everything is handled unless the fault was a missing group, a lost reply or a crash |
| `frame_stream` | 2 writers, 2 frames, bits for bytes, 2-byte prefix | frames arrive whole and in order; both ends agree on the limit; every `WriteFrame` returns |

Runs that show a disagreement between the code and what its documentation,
comments or tests say:

| Run | What TLC finds |
| --- | --- |
| `tcp_deadline` | a read timeout of 30 seconds becomes a deadline in the past, and the default of 60 one that is 147 years ahead: `opt.ReadTimeout` is multiplied by a second twice |
| `tcp_count` | `Count`, "the number of current sessions", is -1 after one TCP connection has come and gone: `Remove` is called twice and decrements each time |
| `codec_sender` | a text message loses its sender in `ProtobufCodec`, which the round trip test expects back |
| `bus_echo` | a direct message that is consumed is published again |

### Limits of what holds

Some of the passing properties carry a condition because the code does less
than one might expect of it.  Each condition is a fact about the code:

* `CountDrift`, proved of `TcpSession`, says how far `SessionManager.Count` is
  from the number of registered sessions: `OnSessionClose` runs from
  `lifecycleWatcher` and from `readLoop`, and `Remove` decrements each time
  (`session_manager.go:32`), so the count is too low by at most one per removed
  session, and never too high.  `WsSession` calls it once, and there
  `CountExact` holds, which `tcp_count` refutes for TCP.
* `BroadcastComplete` allows a broadcast to be cut short by a client that is
  closed between `Range` and `Send`: the handler panics, `Emit` recovers, and the
  clients after it miss the message (`hub.go:179`).
* `HandlerPanicContained` leaves one way for the process to die: a command's
  answer to its own client (`client.go:36`) when somebody, or the command itself,
  has unregistered and closed that client.  Nothing recovers that panic.
* `BanHolds` requires minutes whose product with `time.Minute` does not wrap:
  others become a permanent ban, or a shorter one (`builtin.go:117`).  It also
  requires that no `IsBanned` of the name was under way past its read.
* `ListedCanBeTyped` wants two more slashes before an alias that begins with
  slashes, as `Execute` and `Get` each take one off (`registry.go:83`), and says
  that a word with a blank inside, which `Register` accepts and `/help` lists, is
  never found: `Execute` looks up the first field of the line
  (`registry.go:103`).
* `TypedIsListed` and `ExecutedIsRegistered` except commands whose `Register`
  failed at an alias: their words before it stay in the map and execute it.
* `EmitComplete` allows a handler to be started that was cancelled after the
  `Emit` was called.
* `FramesIntact` excepts an example client whose one `Read` for the prefix
  returned a part of it (`cmd/client/main.go:39`).
* `CleansExpired` requires that nobody bans the name during the call:
  `IsBanned` deletes whatever the map holds when it gets there (`hub.go:148`),
  also a permanent ban stored since it read the expired one.
* `SilentReaped` of `WsSession` excepts a read loop that is in a write:
  `WriteTimeout` is never applied, so a write to a peer that does not read has
  no end.  Neither does `http.Server.Shutdown` end upgraded connections, so
  nothing is claimed about WebSocket sessions after a shutdown.
* `PromptStays` requires a read timeout longer than the ping interval of 30
  seconds (`ws.go:154`).
* `EventuallyHandled` excepts a failed group creation, which nothing repairs
  (`bus.go:32`), and entries that were delivered and not handled, which nothing
  claims again.  It says that an entry is handled by *some* server: all servers
  are consumers of one group, so an entry reaches one of them, possibly the one
  that published it.
* `ProtobufKeeps` is about type, encoding, id and data: `ProtobufCodec` neither
  writes nor reads the sender.  `CreatedArrives` excepts limits that are too
  small: to `ProtobufCodec` a limit of zero is one (`protobuf_codec.go:43`), to
  `JSONCodec` it is none.
* `JsonFaithful` is about fields that are valid UTF-8, as the contents of a field
  are not modelled: `encoding/json` writes other bytes of a string as U+FFFD.

### Bounds

`MaxIn` and `SockBuf` (frames under way in each direction of a connection) are
1 or 2: a blocked write needs a full buffer, and a frame behind another needs
two.  Two connections, clients, callers, servers or writers are enough for each
property, all of which relate at most two of them; the proofs remove this bound
for everything but liveness.  `Task` = 1 handler in `hub` still interleaves
with both connections.  `MaxTime` lets a ban be set, expire, and be set and
expire again.  `MaxEntries` and `MaxFaults` let a server crash inside a batch
and another, or the same, go on.  Three subscriptions fill an array, grow it
past its length and leave room in it, which is when slices share an array.  One
client suffices for `commands` as nothing but its own goroutine touches its
level; others show only as changes to the registry and the handlers, which may
happen at any time, and the proofs allow any number.  `Half` = 4 lets minutes
fit, wrap below zero and wrap past zero.  Bytes are bits and the
prefix has two: that covers lengths zero, below, at and above the limit, and a
cut inside the prefix.  Symmetry is used only where no liveness is checked.

Where a cfg says `CHECK_DEADLOCK FALSE` the system may stop: all servers wait
for entries, nobody writes another frame, the one envelope is decoded.

### Fairness

Weak fairness of every goroutine's steps is what the Go scheduler provides,
and it is all that is assumed of the servers.  Time passes (`Tick`).  Nothing
is assumed of peers: they may stop reading, sending and closing.  A mutex is
strongly fair in `FrameStream` because `sync.Mutex` hands itself to a waiter
that has starved.  `Bus` assumes that Redis answers, apart from the one
fault a run allows.  Event handlers in `Commands` are promised nothing: one may
hang for ever.

## Proofs

Each proof module EXTENDS its component and holds for every value of the
constants: any number of connections, clients, callers, servers, writers,
emitters and commands, any contents, limits and capacities.  The bounds of the
runs (`MaxIn`, `MaxEntries`, `MaxTime`, ...) are constants of the theorems too.
The proofs assume what the component's ASSUMEs say and no more, all of which TLC
evaluates on the instances:

* `TcpAssumption`, `WsAssumption`, `BufferAssumption`, `BanAssumption`,
  `BusAssumption` and `SubscriptionAssumption`: sizes,
  timeouts and bounds are numbers of the right sign, the marks for "nobody" and
  "nothing" are not members of the sets, and `Emitter` is finite.
* `ClientAssumption` and `NameAssumption`: finitely many clients at a time, each
  with a name that is neither empty nor the `*` of a broadcast.
* `RegistryAssumption` and `CommandsAssumption`: every command has a name,
  aliases and a level, and a word may have no letters; `/auth` emits no event.
* `FrameAssumption` and `BinaryAssumption`: a header for every length up to
  `MaxFrameSize`, from which `Uint32` reads that length again, which is what
  `encoding/binary` promises.  `MCFrameStream` gives the definitions for which
  TLC evaluates this.

Every invariant and every step property of the passing runs is proved.  None of the
invariants is inductive as it stands; what each proof adds is this.

* `TcpSessionProofs`: types (`TypeCorrect`), `CloseOnce`, `DispatcherSafe`,
  `ManagerSound`, `ClosedBeforeRemoved`, `CountBounded` and `RefinesLifecycle`,
  the safety part of the refinement.  `Inv` adds, for every session, who holds
  each `sync.Once` and what is already closed when it is done (`OnceOK`), which
  goroutine is still going to remove a registered session (`OwnerOK`), and that
  nobody is past `initOnce.Do` before the handler is registered (`InitOK`).  The
  count has an invariant of its own, `CountOK`: a session is counted in once, by
  `AddContext`, and counted out once by each of the two callers of
  `OnSessionClose`, so the sets of sessions that each caller has passed bound
  the count from both sides.  The refinement follows from `Inv` action by action.
* `WsSessionProofs`: `TypeCorrect`, `CountNeverDrifts`, `PromptNeverReaped` and
  `RefinesLifecycle`.  The request goroutine and the read loop run one after the
  other, so their places say whether the connection is open, the session
  registered, and the counter moved (`PhaseOK`, `CountOK`).  While a peer is
  prompt, the deadline has lost at most one interval since the last pong, and if
  it has, a ping or its answer is under way (`PromptOK`).
* `HubProofs`: `TypeCorrect`, `GaugeExact`, `RegistrationSound`,
  `LeavingComplete`, `BroadcastReaches`, `PanicsContained`.  `Inv` adds, per
  connection, whether its client may be registered and is closed (`ConnOK`), and,
  per handler, that everybody it owes the message and who is still registered
  has been sent it, is being sent it or has still to be visited (`TaskOK`).
  `BroadcastReaches` and `PanicsContained` are about steps, and follow from `Inv`
  action by action: a broadcast ends when nobody is left to visit, or in the
  panic of a send to a client that is closed, which `crashed` does not see.  The
  gauge needs the cardinalities of sets that change by one element, which is
  where the clients have to be finite.
* `BanListProofs`: `TypeCorrect`, `AnswersRight`, `CleanUpSafe`, `BansHold`.
  `Inv` says of a call between its locks that an entry that holds now held when
  it was read, that an expired one stays expired, and that while nobody bans the
  name the map holds what was read, or nothing (`CallOK`); and of a name whose
  last ban met no obstacle that the entry is the one asked for, or is gone
  because that one has expired, which every call that may still delete it has
  seen (`BanOK`).
* `CommandsProofs`, about the slices of handlers: `SlicesApart`, `EmitsComplete`
  and `ImplementsEvents`, the safety part of `EventBus`.  `SubsInv` says that the
  array an `Emit` walks is not the one of the list of handlers (`SliceOK`), so
  that neither a cancel, which filters in place, nor an append reaches it; and
  that what the `Emit` has to start covers what was subscribed all the time and
  is covered by what was subscribed at some time (`WalkOK`).  The refinement
  reads the list and what is left to start out of the arrays.
* `CommandsProofs`, about the registry: `TypeCorrect`, `MeaningKept`,
  `AdminsOnlyAlways`, `TypedAreListed`, `ListedAreTyped`, `ExecutedAreRegistered`.
  `MeaningKept` needs no invariant: `Register` stops at the first word that is in
  the map.  `AdminsOnlyAlways` needs that a level is one that `/auth` can set, and
  that a client's level changes only in a handler of its own, which ends with
  that step (`Inv`).  The last three need that a listed command has all the words
  it was entered under (`ListInv`), as a second `Register` of it then fails at its
  name, and what slashes, blanks and capitals a line loses on its way to the map.
* `BusProofs`: `TypeCorrect`, `OnceOnly`, `NothingLost`, `GroupSeesAll`.  `Inv`
  says where an entry can be: beyond the group's last delivery, in one place of
  one server's batch, or in one place of one server's history, and in the last
  two at once only between its handler and its acknowledgement (`PlacesOK`);
  that what is about to be acknowledged has been handled or has no handler
  (`AckOK`); and that a server past an `EnsureGroup` that did not fail has a
  group (`GroupThere`).
* `FrameStreamProofs`: `TypeCorrect`, `FramesWhole`, `RefusesRight`.  The bytes
  that are written, under way or about to be written by the holder of the lock
  are one stream (`Stream`).  `StreamOK` says that there are places in it at
  which the frames sent begin, one after the other, the one that is being read
  at minus the number of its bytes already read; `PartOK` says that those bytes
  are in the reader's header or buffer, whatever else the buffer holds.  Reading
  n bytes moves every place down by n, and a header leads to the next place.
* `CodecProofs`: `JsonRoundTrip`, `ProtobufRoundTrip`, `CreatedPasses`.  A
  sequence of cells tells an envelope if each cell belongs to a field and has
  that field's value (`Tells`).  Encoding yields one that tells the envelope,
  reading keeps it, a cut loses the JSON's end, and whatever tells of every
  field of an envelope decodes to it.

`RegisteredHasOwner`, `CountDrift`, `JsonFaithful`, `ProtobufKeeps`,
`CreatedArrives` and the types of `Hub`, `BanList`, `WsSession`, `Bus`, `Commands`
and `FrameStream` rest on these proofs alone; no run repeats them.

Only model-checked: the liveness properties (`ClosedUnwinds`, `SilentReaped`,
`WriteUnblocks`, `ShutdownDrains`, `PingerStops`, `HandlersEnd`,
`EventuallyHandled`, `WritersReturn`) and the liveness parts of
`ImplementsLifecycle` and `ImplementsEventBus`, as the prover handles neither
fairness nor ENABLED; and that `Kept`, which removes the entry of a
subscription, is the filter of the code, which `MCCommands` assumes for TLC to
evaluate (`KeptIsFilter`), as `SelectSeq` is recursive.  The proved modules take
what they need from `Functions` and not from the larger `SequencesExt`, which
only `MC*` modules use.

## Not modelled

Settings other than the read timeout, logging, the metrics other than the online
gauge, the HTTP page, `cmd/peek` and the generated protobuf code have no state
of interest.  Neither has the one frame that the example client writes.  The
bytes inside a field, the JSON and protobuf syntax and the formatting of chat
messages are left out.  So are ping control frames that a WebSocket peer sends,
which the library answers on its own.  A connection's goroutine around a
`Client` is not in the repository; `Hub` lets it run any command and leave at
any time.

## Plan

1. Cluster: `Bus` composed with the hub's clients, direct messages end to end.
2. Liveness on more than one connection: the unwinding of sessions is checked
   on one.
