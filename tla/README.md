# stream-relay: a TLA+ verification project

stream-relay is a Go library that fans messages out to the subscribers of rooms
(channels), keeps the messages of a room in a Redis stream, and lets clients that
come back recover what they missed. This directory models its concurrent core,
checks the model with TLC on small instances and proves the safety properties of its
passing runs, all but one (`NoDeadlock`), with TLAPS for every value of the constants.

Paths below are relative to the repository, e.g. `engine/room.go` is
`src/engine/room.go` in `PROJECT.json`.

## 1. Inventory

| Component | State | Operations | Hard part |
|---|---|---|---|
| Room (`engine/room.go`) | subscriber and presence maps (one connection per user), members, `stopChan`, `running`; all under `r.mu` | Subscribe, Unsubscribe, AddMember, RemoveMember, Broadcast, Start, Stop, Close | one goroutine per delivery, three attempts, panics, a ten second timeout; `Close` of a connection called with `r.mu` held |
| Stream listener (`room.go` `listenLoop`) | `lastID`, the batch in hand | blocking XREAD, broadcast, retry, restart after a panic | the meaning of `"$"`, replacement of `stopChan`, restarts |
| Relay (`engine/relay.go`) | map of rooms under `Relay.mu`, context, offsets in Redis | CreateRoom, GetOrCreateRoom, DeleteRoom, Publish, RecoverMessages, RecoverAndDeliver, Close | check-then-act on the map, XADD whose reply is lost, offsets saved concurrently |
| Client handler (`engine/handler.go`) | table of subscriptions, `closed`, ping timer | connect, subscribe with recovery, unsubscribe, publish, presence, history, Close | the reader and the ping timer run in different goroutines; Close calls back into the relay |
| In-memory relay (`engine/memory_relay.go`) | ring buffer per room, message counter | as Relay, without Redis | order of IDs against order in the buffer, eviction of a client's offset |
| Broker, cluster relay (`engine/broker.go`) | deduplication cache, Pub/Sub connection, message channel | Publish, subscription loop, Close | the same message arrives by Pub/Sub and by the stream; channel closed while it is sent on |
| History (`engine/history.go`) | the stream | load, inject, trim | two loads inject twice, a failed one leaves a part |
| Redis pool (`redis/client.go`) | idle connections, count of created ones | Get, Put, Close, Do | count and idle connections drift apart; Close against Get and Put; broken connections are put back |
| Redis streams (`redis/stream.go`), RESP (`redis/resp.go`) | none | encode and decode commands | none of their own |
| Permissions, namespaces (`engine/permissions.go`, `engine/namespace.go`) | rules, roles, per-user permissions, namespaces | change, lookup, pattern match | overlapping rules and prefixes; the handler keeps an answer while the rules change |
| Protocol, options, re-exports (`engine/protocol.go`, `engine/options.go`, `streamrelay.go`) | none | JSON types, constructors | none |

How they interact: the application's transport calls `ClientHandler.HandleMessage`
in a reader goroutine. A subscribe command looks the room up in the relay, enters
it in the room and then reads the stream. `Publish` (from a handler or from the
application) writes the stream and then hands the message to a copy of the
subscriber map. The listener of each room reads the same stream and broadcasts
too, which is one way a message from another node arrives; the other is Redis
Pub/Sub, on which a cluster relay announces what it has published. Handlers ask the
permission checker and the namespaces before they call the relay, and rooms call handlers back (`Receive`, `Close`), some of them with locks held.

What makes each part correct:

* Room: every connection that leaves the map is closed; a publish accounts for
  every subscriber and member and returns; a client that subscribes and recovers
  has no gap; what is delivered is in the stream.
* Listener: no entry skipped or repeated, one goroutine per room, it ends when it
  is stopped (unless it is started again before it looks) and catches up while it is not.
* Sessions: locks released, no cause of a deadlock but the calls of Close with a lock held,
  a closed handler has left every room, Close returns.
* Pool: one user per connection, every counted connection is somewhere, a waiting
  Get is served, a closed pool keeps nothing open.
* In-memory relay: the ring is the last n messages of the log, a recovery from it
  leaves no gap, the results name every member once.
* Cluster: a node relays a message from another node once, what clients see is
  stored, what has been read from Pub/Sub is broadcast or was dropped for a full channel,
  Close ends the goroutine that consumes the channel.
* Offsets and history: the stored offset passes nothing that was not delivered and
  repeated recoveries catch up; external history enters the stream once and whole.
* Access: what a handler accepts is what the checker allows; the first rule whose
  pattern describes a channel is the one that is used.

## 2. Modules

| Module | Models | State and actions |
|---|---|---|
| `Room` | one room, `Publish` and `handleSubscribe` | Each critical section of `r.mu` is one action. `pub[p]` is the program counter of the Publish call `p` (found, persisted, waiting, returned, ...), `tasks` the delivery goroutines, `reapers` the pending `go r.Unsubscribe(user)`, `sess[c]` the program counter and locals of a subscribe command. A message is identified with its Publish call, its ID with its position in `stream`. |
| `StreamListener` | `Start`, `Stop`, `listenLoop`, `Relay.Close` | `loop[l]` holds the program counter and locals of goroutine `l`. `stopChan` is the number of the channel in the field, so that "the select reads the field" is visible. `Start` looks at `running` only: after a Stop it makes a channel and a goroutine whether the last one has ended or not. Redis resolves `"$"` in `XRead`. |
| `ClientSession` | handlers, rooms and the relay at the level of lock operations | A goroutine (reader, ping timer, application) is a stack of frames; an action goes from one lock operation to the next. Calls made with a lock held push a frame. `userID[h]` changes with a second connect command (`Connect`), and Close uses the name the handler has when it calls `Relay.Unsubscribe`. |
| `ConnPool` | `Pool.Get`, `Put`, `Close`, `Client.Do`, `ReadPubSubMessage` | `pc[g]` is where caller `g` is between the pool's separate steps (first select, limit, second select, dial, command, Put's check and its send), `conns` the buffered channel, `closer` the progress of `Close`. `lost` counts the units of `created` that a failed dial or a ReadPubSubMessage never gives back. |
| `RingBuffer` | the circular buffer of `engine/memory_relay.go` | Operators on a buffer value; each is a critical section of the buffer's lock. |
| `BoundedLog` | what the buffer promises | Append to the last `Size` messages: the abstract specification. |
| `MemoryRelay` | one room of the in-memory relay | Publish, delivery goroutines, the subscriber map, and `rec[c]`, a client that subscribes and calls RecoverAndDeliver. Uses `RingBuffer`, refines `BoundedLog` under `log <- GetAll(history)`. |
| `DedupeCache` | the deduplication cache of `engine/broker.go` | Operators on a cache value. Keys are appended when they get their time, so the expired ones are the first of the list and `old` counts them. |
| `Cluster` | `RedisBroker`, `ClusterRelay`, and the rooms' listeners on every node | `pub[p]` is the Publish call `p` (stored, shown, done, ...), `sub[n]` the program counter of the subscription loop with the pool of its client, `inbox[n][c]` what Redis has pushed on connection `c`, `closing[n]` the progress of Close, `casts` how often each node has broadcast each message by which route, `fate` what became of a message in the loop. The loop's pool is the one of `ConnPool` with a single caller, so Get is one step here. |
| `Recovery` | `RecoverMessages`, `RecoverAndDeliver`, offsets, `engine/history.go` | One step per Redis command. `log` has every entry ever added, `entries` the IDs still in the stream, `call[c]` a slot in which recoveries of one user follow each other, `load[l]` a load of external history. |
| `Pattern` | `matchPattern` | The one-pass matcher: `Turn` is one turn of its loop, `Scan` the loop as a recursive function of the two indices. `Glob` is what a wildcard pattern means: each wildcard stands for some letters of the channel, each other letter for itself. |
| `Access` | `DefaultPermissionChecker`, `NamespaceManager`, the checks of the command handlers | An action for each method that changes the checker or the manager; connect, the two halves of subscribe, unsubscribe; the `...Accepts` operators say when publish, presence and history are let through. `GetByChannel` returns every namespace the search of the map may find. |
| `MCRoom`, `MCStreamListener`, `MCClientSession`, `MCConnPool`, `MCMemoryRelay`, `MCCluster`, `MCRecovery`, `MCAccess` | | Instances for TLC. |
| `RoomProofs`, `StreamListenerProofs`, `ClientSessionProofs`, `ConnPoolProofs`, `MemoryRelayProofs`, `ClusterProofs`, `RecoveryProofs`, `AccessProofs` | | Theorems about the module of the same name and their proofs. |

`Room` treats a connection as a `Subscriber` whose `Close` returns at once, which the
interface (`engine/types.go`) does not promise: it is the assumption of that module.
`ClientSession` is the one that looks at what `ClientHandler.Close` really does while the
locks are held. `Cluster` takes from
`StreamListener` what it shows of a listener (entries in order, `"$"` until the first)
and from `Room` that a broadcast reaches the subscribers, and composes them with the
broker; `Access` is the part of the handlers that `Room` and `ClientSession` leave out.

Abstractions common to the modules. Statistics, `lastActive` and log data are left out, and
so are event handlers. These are called with `r.mu` held (`room.go:74-81`, `98-105`), so one that
calls back into its room waits for a lock that its own goroutine holds: what the modules say of
deadlocks is for event handlers that do not. `RoomConfig.Members` is a slice (`memory_relay.go:531`
goes through it as it is); `MemoryRelay` takes it for a set, that is, for a list without a name
twice, and with a name twice `Broadcast` reports an offline member twice. `MemoryRelay` assigns the ID
and stores the message in one step, because IDs are compared for equality only. `Recovery` takes the IDs of the stream to grow
for ever, which Redis promises while the stream exists; that they go on growing after the `DEL` of
`ClearRedisHistory` is an assumption about its clock. The subscribe command of `Room` starts after the
permission and namespace checks, which have no effect on the state. Join and leave
pushes are not messages of the room (they are written to the transports without
being stored) and take only read locks. The broadcasts of the listener are recorded
in `StreamListener`, not in `Room`; they only add deliveries, so the properties of
`Room`, which say what a connection has received at least, or that it is in the
stream, do not depend on them.

History variables: `sess[c].seen` in `Room` (the length of the stream when the
connection entered the room), `toStop` and `overtaken` in `StreamListener` (the goroutines that Stop was meant
for; a Start came before one of them had ended),
`stray` and `crowded` in `ClientSession` (a subscribe command overlapped the handler's
Close, or the handler took another name when it was in a room; two handlers were past the count of a room's subscribers together), `lost` and `abandoned` in `ConnPool`, `stored`, `rec[c].whole` and the connection in
an element of `results` in `MemoryRelay`, `casts`, `forgot` and `fate` in `Cluster`,
`delivered`, `skipped`, `injected`, `peers`, `removed` and `calm` in `Recovery`, `outdated` in
`Access`.

## 3. Runs

| Run | Checks | Shows |
|---|---|---|
| `room_recovery` | `TypeOK`, `NoGap`, `DeliveredIsDurable` | A user subscribes twice, on one or two connections, with any offset or none, while two messages are published; one fault (XADD that fails before or after it is executed, a failed or panicking Receive, a failed XRANGE or reply), room deletion at any time. |
| `room_faults` | `ReplacedAreClosed`, `ReturnedAccounts`, `PublishReturns` | An ephemeral message with echo, three connections of two users, one membership or unsubscribe call, three faults: enough for a delivery to use up its three attempts, or for two panics and a reconnect. |
| `listener` | `TypeOK`, `NoSkip`, `OneListener`, `CatchesUp`, `StopStops` | Three goroutines, three entries in batches of at most two, one failed XREAD, one panic with restart, three calls of Start, Stop and Relay.Close: Stop and Start again while the goroutine is in its XREAD is among them. |
| `session` | `TypeOK`, `LocksAreScoped`, `OnlyCloseDeadlocks`, `ClosedLeavesRooms` | Two handlers of one user, three commands among them repeated subscribes and second connects under another name, timeouts, DeleteRoom or Relay.Close. Executions that deadlock are included: the invariants hold in them too, and `OnlyCloseDeadlocks` says what every deadlock has in it: a Close of a handler called by a method of Room with the room's lock held. |
| `session_free` | `NoDeadlock`, `NotOverfull`, `CloseReturns` | Two users with a connection each, a channel limited to one subscriber, four commands. Under these conditions (no second connection of a user, no repeated subscribe, no DeleteRoom, no Relay.Close, one channel) the locks are safe. |
| `session_reconnect` | `NoDeadlock`, violated | Two connections of one user: Room.Subscribe waits for the lock it holds. |
| `pool` | `TypeOK`, `Exclusive`, `Accounting`, `ClosedIsEmpty`, `Served` | Two callers of Do and one of ReadPubSubMessage on a pool of two, one failed dial, one broken connection, one cancelled context, Pool.Close at any moment. |
| `memory` | `TypeOK`, `NoGap`, `MembersReported`, `RingIsBoundedLog` | Two publishers, one external message, a ring of two, a user on two connections who recovers from any message he has seen or from none, one failed or panicking delivery or Unsubscribe, room deletion. |
| `cluster` | `TypeOK`, `OncePerKey`, `SeenIsStored`, `HeardIsShown`, `CloseEndsConsumer` | Two nodes, one stored and one ephemeral message published on the first, which has no subscription; two events among faults (of XADD, PUBLISH, PSUBSCRIBE, reads and dials) and expiries of a deduplication entry; Close on the second node at any moment, and a second Close. |
| `cluster_twice` | `AtMostOnce`, violated | Publish and the listener of the same node both broadcast a stored message. |
| `recovery` | `TypeOK`, `OffsetCovered`, `InjectedOnce`, `SerialLoads`, `OffsetForward`, `CatchesUp` | Two slots of recoveries of one user, or two loads of external history; three entries, pages of two, one recovery from an ID the client names, one failed command or delivery, publishing, trimming and clearing at any time. |
| `access` | `AccessIsCurrent`, `RuleApplies` | One handler, two user names (one anonymous), two channels, two rules out of seven patterns of which most overlap, in either order, two changes of permissions, roles or namespaces. |

Conditions in the properties name what the code does not give. `NoGap` of `Room` is
about recoveries that reached the position of the subscription (`hi >= seen`).
`ClosedLeavesRooms` excludes two kinds of handlers (`stray`). One with a subscribe command
that overlapped Close enters the room after Close has copied the
table, and the room keeps the closed handler until its next failed delivery or
replacement. One that took another name by a second connect command while it was in a room, or closed, leaves
the room under the new name and stays there under the old one. `NotOverfull` excepts rooms for which two handlers were counted side by side.
`OneListener` excludes behaviours in which a Start came before a stopped goroutine had looked at its channel
(`overtaken`), and `StopStops` is about the goroutine that Stop was called for as long as no Start
comes in between: after one, it reads the new channel and the next Stop is meant for it as well.
`CatchesUp` of `StreamListener` speaks of listeners that already have an
ID. `HeardIsShown` is about messages that the subscription loop has read; it excepts those for which the channel
was full, nodes that are closed or have gone down, and an ephemeral message of which the key `""` was
marked by another one (the run has one ephemeral message, so this case is not reached). `Served` speaks of a pool with capacity
left (`Out < PoolSize`): failed dials and ReadPubSubMessage calls take capacity for
good, and after `PoolSize` of them a Get waits for its context. The `NoGap` of
`MemoryRelay` assumes that the buffer still has the message named by FromID, or, without
FromID, everything ever stored (`whole`): after an eviction GetSince returns nothing, and
the client is not told. `OncePerKey` is about keys the cache still has. `InjectedOnce`
excepts loads that overlap, `SerialLoads` is about loads one after the other that do not fail
half-way. `AccessIsCurrent` excepts table entries older than the last change.

### Known departures from the comments

What the models show the code to do where a comment says otherwise. The deadlock of a
reconnect and the double delivery have runs; the others are behaviours of the models that the conditions above exclude.

* A reconnecting user's Subscribe deadlocks on the room's lock (`session_reconnect`). So do a repeated subscribe,
  DeleteRoom and Relay.Close with a handler in the room, for the same reason: the room calls Close of the handler
  with its lock held (`room.go:58`, `92`, `469`), and `handler.go:196-206` leaves every room of the table.
* Two handlers deadlock on each other. `x` and `y` are in the channels A and B; `x` unsubscribes from A and `y` from
  B. Room.Unsubscribe of A holds the lock of A and calls Close of `x`, which waits for the lock of B; the other one
  the reverse (`room.go:87-93`). No run has this case: TLC finds it with two channels and six commands in a few
  minutes (`MCClientSession` with different users, no shutdowns and no repeated subscribes).
* A stored message is delivered twice on the node that publishes it (`cluster_twice`);
  `broker.go:447` says "Deduplication prevents double delivery".
* `room.go:308` "Remove the problematic subscriber": `go r.Unsubscribe(userID)` removes
  the connection the user has by then. Receive panics on a first connection, the user
  reconnects, `Reap` closes the second one.
* `protocol.go:194` "Recovered indicates if recovery was successful": with more entries
  missed than the limit, the reply says so and the entries between the last one in it and
  the subscription are in neither.
* A client's unsubscribe command closes its whole connection. `Room.Unsubscribe` closes the subscriber it
  removes (`room.go:92`), the subscriber is the handler, and `ClientHandler.Close` leaves the other channels and closes
  the transport; the reply goes to a closed transport.
* A handler whose client connects a second time under another name while it is in a room stays in that room under
  the old name when it is closed (`handler.go:262` and `204`).
* `broker.go:564` "other nodes will still get the message from Redis Stream": not a node
  whose listener has received nothing and is between two XREADs from `"$"`.
* Of all the ephemeral messages a node gets within the TTL of the cache it relays one: they have no ID, so their
  envelopes share the key `""` (`broker.go:294`), and the others are taken for copies of it.
* `room.go:349` "Stop stops listening": after Stop and Start while the goroutine is
  blocked in XREAD it selects on the new channel and goes on beside the new one.
* `broker.go:431`: Close can close the channel or the pool under the subscription loop,
  whose panic ends the process (`crashed`). A second Close of a broker closes the channel again and panics as well. After one message per subscribed connection the
  loop hears nothing more, because ReadPubSubMessage keeps each connection it reads from.
* `permissions.go:53`: an empty token becomes the user "anonymous", so neither
  `RequireAuth` ever refuses a client of the handler. A pattern with a wildcard before
  its end is matched greedily: `a*b` does not match `abb`. `permissions.go:288` makes the literal after a wildcard
  byte by byte with `string(pattern[pi])`, which encodes a byte above 127 as two: `Pattern` is about ASCII names.
* A second connect command under another name keeps the subscriptions of the first, and
  the permissions with them.
* A load of external history whose injection failed half-way leaves its first part in the
  stream, and the next load takes that for the whole.

Bounds. All are constants named `Max...`. Two messages and two subscribes are the
least with which one message can be on each side of a subscription; a limit of
one entry lets a recovery be cut. Three entries with batches of two give a full
batch, a partial one and a remainder. Three goroutines of `listenLoop` are what a restart after a panic and
a Start after a Stop need beside the first. Two handlers and two goroutines each give every pair
of lock holders; a second Room object is needed for a channel that is deleted and
created again. Three callers on a pool of two make one wait, and three connections
allow a replacement. A third message, the external one, evicts from a ring of two
and moves its head round; publishers and connections are interchangeable and
declared symmetric in `memory`. In `cluster`, three connections and two faults let a
PUBLISH be repeated and both copies be read, the second on a new subscription; the second
message fills a channel and a cache of one. In `session_free` four commands let both
handlers enter and leave, once each: an unsubscribe closes the handler, so none comes again. There is one channel, because with two `NoDeadlock` and
`CloseReturns` fail (see above). In `memory` a limit of one cuts a recovery of two messages
and leaves one of one message whole. `recovery` checks recoveries and loads in separate
initial states, since they share nothing but the stream; three entries are a full page and
a remainder. In `access` two rules are the least of which one is the first that matches; the seven patterns have a wildcard
at the end, before and between letters, a channel is described by up to five of them, and `a*b` is one
that the greedy match gets wrong. Deadlock checking is off in all runs because the bounded systems
come to rest when the bounds are used up; deadlock on locks is the invariant
`NoDeadlock`.

Fairness. `Room`: weak fairness for the steps of a Publish call that has begun,
its timeout included (`time.After`), none for Receive. `StreamListener`: weak
fairness for the steps of each goroutine and for Redis's answer to a blocking
XREAD, none for errors and panics, of which a behaviour has finitely many: that
reads succeed again some time is an assumption (the pool keeps broken connections).
`ClientSession`: weak fairness for each goroutine whose next lock is free. `ConnPool`:
weak fairness for the steps of a call of Do that has begun (Redis answers or the
connection fails, a dial succeeds or fails) and for the steps of Close; none for
ReadPubSubMessage, which may wait for ever, nor for the end of a context. `Cluster`: weak
fairness for a listener with an entry to read, for the goroutine that consumes the
channel, for the steps of Close and for the loop with a message in its hand (`Send`, a select with a default arm); none for Publish
calls, and none for the subscription loop before it, which may wait for a message or a connection for ever. `Recovery`: weak fairness for a call that has begun, and
for calling again: a call fetches one page, and the application has to ask for the next.

## 4. Proofs

The theorems are about `Spec` and hold for arbitrary sets of users, connections,
publishers, nodes and goroutines (those of the pool are finite) and arbitrary bounds. They
rest on the assumptions `RoomAssumption`, `ListenerAssumption`, `SessionAssumption`, `PoolAssumption`,
`MemoryAssumption`, `ClusterAssumption`, `RecoveryAssumption` and `AccessAssumption`. These give
the constants their types, keep the values that stand for nothing (`NoConn`, `Nobody`, `Nil`, ...) apart from
the others, and ask for sizes that are not zero where the code has a default or divides
by them. That a rule's permissions are permissions, and that channels and patterns are
sequences of letters, is part of `AccessAssumption`.

Every proof has the same outline: the initial states satisfy an invariant, each action keeps
it (one step per action, with lemmas where several actions do the same), and it implies the property.
What follows is the invariant and why the property alone is not enough.

**Room** (`RoomProofs`)

* `TypeCorrect`: `TypeOK` is inductive as it stands. So it is in `StreamListener` and in `ClientSession`
  almost so (`Stacks`, below).
* `RecoveryLeavesNoGap`: `NoGap`, from `GapInv == TypeOK /\ Published /\ Followed /\ Answered`. `Published`:
  an entry of the stream belongs to a call that is past its XADD. `Followed`: every
  entry added after a connection entered the room is still to be broadcast, is being
  delivered, was delivered or was reported failed; this is where the order "stream
  first, then the copy of the map" is used. `Answered`: after the reply the client
  has every entry from its offset to `hi`. The two ranges overlap when
  `hi >= seen`.
* `OnlyStoredIsDelivered`: `DeliveredIsDurable`, from `DurableInv`. `Stored` says it of the calls past
  their XADD and of the delivery goroutines, where a message is before a connection has it.
* `NoConnectionLeaks`: `ReplacedAreClosed`, inductive together with `TypeOK`.
* `PublishAccounts`: `ReturnedAccounts`, from `ReturnInv`. `Outcomes`: from the copy of the map on, each connection in
  it has a goroutine, has the message, or is reported failed. `Running`: goroutines exist
  only while the call waits or after its timeout, so that none is left when it returns normally.

**Stream listener** (`StreamListenerProofs`)

* `NeverSkips`: `NoSkip`, from `Cursor`, which relates `lastID`, the position Redis was asked for and the rest of
  the batch to what has been broadcast.
* `SingleListener`: `OneListener`, from an invariant about behaviours without an overtaking Start (`Sole`). That two goroutines are never alive together is not enough
  for the second part, that no entry is broadcast by two of them: `Later` adds that what the live one
  will broadcast comes after what the ended ones have. It holds because `"$"` is resolved to the end
  of the stream.

**Sessions** (`ClientSessionProofs`)

* `TypeCorrect`: frames get the room and the channels they need only on the way, so `Stacks` adds which
  are set at which place, and that the functions a goroutine begins with are at the bottom of its stack.
* `LocksReleased`: `LocksAreScoped`, from `LockInv`. The property asks for some frame that will release the lock;
  to keep it when a function returns, the frame has to be unique. `Locked`: a room's lock is free, or
  held by one frame of one goroutine. `Relaying`: the goroutine in DeleteRoom or Relay.Close past
  its Lock is the holder of `Relay.mu`, and the rooms it has yet to close are in the map.
* `LimitKept`: `NotOverfull`, from `CrowdInv`. The count and the entry are two critical sections. `Occupancy`: as long
  as two handlers were not between them together, one at most is, and there is room for it. `Entry`: a subscribe
  command calls into other functions only while it holds the lock of the room.
* `DeadlocksInClose`: `OnlyCloseDeadlocks`, from `LockInv` and `Calls`, the call graph: which function may be above which on a
  stack, and at which place the caller is. A goroutine without a Close above its first frame holds at most `Relay.mu` and
  one room's lock, taken in this order, so a group that waits for itself has one with such a Close. This holds for any number
  of users, connections, channels and shutdowns: the calls of Close are the one thing to change.
* `ClosedLeaves`: `ClosedLeavesRooms`, from `LeaveInv`, which justifies each entry of a handler in the map of a room: its reader
  is in Subscribe; or the channel is in the handler's table and Close has not copied it; or the loop of Close still has the channel in
  its copy; or a call of Unsubscribe for it, with the handler's name and the room the channel has, is on some stack; or the handler is `stray`
(`Justified`, `Explained`). `OwnName` says that a handler that is not `stray` is in rooms under the name it has, which is what
makes the names of Close and of the room's map agree; `Unexplained` draws the conclusion when Close has returned. Beside that it says that one goroutine at
  most is in the body of Close of a handler, and that a Room object belongs to one channel.

**Connection pool** (`ConnPoolProofs`)

* `OneUserPerConnection`, `CapacityAccounted`, `ClosedPoolIsEmpty`: `Exclusive`, `Accounting` and `ClosedIsEmpty`, from one invariant `PoolInv`.
  `Holding`: which places of a call have a connection. `Units`: `Accounting` is an equation only until
  Close; afterwards `created` is at least the sum. `Apart`: a connection in anybody's hands, or that
  ReadPubSubMessage kept, is not dialled again nor put into the channel. `Traced`: no open connection is
  out of sight. The proofs are mostly about cardinalities and about the channel as a sequence.

**In-memory relay** (`MemoryRelayProofs`)

* `RingImplementsLog`: `RingIsBoundedLog`, the refinement of `BoundedLog` under `log <- GetAll(history)`. `Ring`: the last
  `count` slots before the head have messages. The lemmas compute `GetAll` after `Add` for a ring that is not
  full and for one that is, with the index arithmetic modulo `Size`; then every step of the
  relay is an `Append` of the abstract log or leaves it.
* `RecoveryLeavesNoGap`: `NoGap`, from `GapInv`. `Tracks`: the ring has the end of what was stored. `Once`: a message is
  stored once, by a call past AddToHistory, so the position of an offset is unique. `Follows`: between reading the ring and the last
  delivery, what is missing is in the hands of the recovery.
* `EveryMemberReported`: `MembersReported`, from `ReportInv`: each member has one delivery goroutine or one result of
  the call, never both, which is what makes the count exactly one.

**Cluster** (`ClusterProofs`)

* `TypeCorrect`: `TypeOK` with `Fits`, what the program counter of the subscription loop says of its locals.
* `OnlyStoredIsSeen`: `SeenIsStored`, from `StoredInv`, which follows a message through every place it passes: the call after its XADD,
  what Redis has pushed on a connection, the loop's hand, the channel, the broadcasts.
* `RelayedOnce`: `OncePerKey`, from `RelayInv`. `Known`: whatever the loop let through is marked in the cache, or was marked and has left it.
  `Single`: for a key still marked there is one copy, in one place between the reader and the subscribers. The key is
  marked when the message is read, not when it is broadcast, and the argument needs that.

**Offsets and history** (`RecoveryProofs`)

* `OffsetNeverAhead`: `OffsetCovered`, which is
  about stored offsets only, and a call takes several steps to make one, so the
  invariant is `OffsetInv == Positions /\ OffsetCovered /\ Backed(c)` for every call.
  `Positions`: nothing a call has read lies past the end of the stream, so a new entry
  is later than all of it. `Backed`: the ID a call reads from, and the one it is going
  to save, are covered by what the user got; below an entry it has in hand everything
  is delivered, skipped or also in hand. The last part rests on `FirstDown`: `XRANGE`
  with a `COUNT` returns a page with no hole in it.
* `TypeCorrect`: `TypeOK` bounds what calls and loads have in hand by their limits; `TypeInv` adds to `OffsetInv` what
  loads have read and which message they inject next.
* `OffsetGoesForward`: the action property `OffsetForward`, from `ForwardInv`: what a call saves lies behind the ID at which it started.
* `FallbackInjectedOnce`: `InjectedOnce`, from `FillInv`, which is about the loads that have injected or are about to: the decision
  is taken when the stream is read and carried out later.
* `SerialLoadsAgree`: `SerialLoads`, from `Calm`: while loads follow each other the stream is a beginning of the fallback, and
  the one load that injects goes on where it ends.

**Access** (`AccessProofs`)

* `TypeCorrect`: `TypeOK` is inductive as it stands; it is proved only, and the run does not check it.
* `AcceptedIsAllowed`: `AccessIsCurrent`, from `AccessInv`. An entry of the table is decided in one step and made in a later one;
  `Decided` says of the command between the two what `Entered` says of the entry.
* `FirstRuleApplies`: `RuleApplies`, from `TypeOK` and two lemmas about `matchPattern`, for patterns and channels of any length.
  `MatchSound`: what it matches, the pattern describes (`Glob`). `MatchComplete`: what a pattern with its wildcard at the end
  describes, it matches. Both are inductions from the end of the pattern, which `Downward` states for a set of positions instead of a
  predicate (the least position that is not in the set would have all the later ones in it). `ScanIs` shows the recursive function to be
  defined, with the same lemma.

Only model-checked: the liveness properties `PublishReturns`, `CatchesUp` (of `StreamListener` and of `Recovery`), `StopStops`, `CloseReturns`, `Served`,
`HeardIsShown` and `CloseEndsConsumer`, because liveness under fairness is outside the prover's reach, and `NoDeadlock`. The
last holds only under conditions the code does not enforce: users with one connection each, one channel, no repeated
subscribe, no shutdown. `session_free` has them and `session_reconnect` shows what happens without the first; `OnlyCloseDeadlocks`, which
is proved without conditions, is what there is to know about deadlocks in general.

## 5. Plan

Done: all modules of section 2 with their runs, and the theorems of section 4: every invariant of a passing run but `NoDeadlock`, and every action property
and refinement, has one. To come:

1. `PublishDirect` and the join and leave pushes of the handlers.
2. `RemoveMember` (`room.go:194`), which calls Close of a connection with the lock held like the three calls in
   `ClientSession`, is an action of `Room` only; in `ClientSession` it would be a fourth caller of Close.

## 6. Not modelled

RESP and JSON encoding (`redis/resp.go`, `engine/protocol.go`), options
and re-exports (`engine/options.go`, `streamrelay.go`), which have no shared state and no
control of their own; consumer groups, XDEL and XINFO of `redis/stream.go`, which the relay
does not use; the presets of `engine/namespace.go`, which are data, and the namespace and rule
options that no code reads (`Protected`, `Anonymous`, `ForceRecovery`, `MaxPublishRate` and
others). Data races on the maps of the permission checker and the namespace manager, which
have no lock, are not modelled: each method is one step.
