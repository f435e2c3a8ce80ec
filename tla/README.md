# Grass: a verification project

Grass is the websocket server of a coding competition. Clients connect,
identify themselves, create and join games, the host of a game starts it, and
the members send programs that a sandbox runs against the tests of a task.
Several servers ("shards") share one redis.

This directory holds TLA+ models of that server, the TLC configurations that
check them, and proofs that TLAPS checks. Paths below are relative to the
repository; `request.rs` is
`src/service/websocket/client/game/models/request.rs`, `game.rs` and
`client.rs` are the ones under `src/service/websocket/`.

## Inventory

| Component | State | Operations | Interacts through |
|---|---|---|---|
| Lobby (`request.rs`, `game.rs`, `partial_client.rs`, `redis_game.rs`) | per client an `Option<Game>` and a nickname; in a host's `Game` the `connected_clients`, `is_started`, `public`, `tasks`; `GAME:<id>` keys in redis | Identify, Create, Join, Leave, Start, Task, Exists, Ping; `Drop for Game` | the map `sockets` of the shard, redis, events queued on the channels of other clients |
| Connection (`websocket.rs`, `client.rs`, `message_handler.rs`) | the entry in `sockets`, the channel of 200 messages, `SOCKET:USER:<id>` in redis, `performed_safe_shutdown` | accept, on_open, register, read and dispatch, write, on_close, unregister, remove; timeout after 50 s; `Drop for SocketClient` | spawned reader and writer, `sockets`, redis |
| Judge (`request.rs` Compile, `game.rs` 164-413) | `task_progress` | prepare, run in the sandbox, look the host up again, validate (with a second sandbox run), report | the host's entry, the sandbox (gRPC) |
| Guards and pool (DashMap, r2d2) | read and write locks of the map's shards; ten redis connections | get, get_mut, insert, remove; pool.get | every handler; a guard blocks the worker thread it is awaited on |
| Service (`service.rs`, `extended_select.rs`, `main.rs`) | the listener, a blocking subscriber, a oneshot for critical errors | run, select | spawns connections |
| Middleware (`middleware.rs`) | none: commented out | | |
| Task loader, pool adapter, wire models, errors | none at run time | parsing, adapting | |

What is hard, and where:

* Every handler runs concurrently with those of other connections; a Join
  locks three entries one after the other and acts on what it read before
  (`request.rs` 59-292).
* Two sources of truth, a host's roster and the member's own `Game`, are
  changed under different guards; a third, the redis key, under none.
* `Drop for Game` does redis and event work in the middle of Leave, Start and
  on_close, with a guard held, and panics when redis fails (`game.rs` 625-626).
* A slow sandbox keeps the host's guard locked and makes the handler time out;
  the timeout clones a client, and dropping the clone runs `Drop for Game`.
  The timeout strikes just as well at a send to a channel that is full.
* A registration that fails removes the entry, and drops its `Game`, under the
  running reader (`websocket.rs` 160-174).

What makes each component correct:

* Lobby: rosters are real, events agree with rosters, a client is in at most one
  game, nobody is admitted after the start, keys do not outlive their games
  unless redis failed, requests end; an eviction leaves nobody on a
  roster but a client whose connection is at an end.
* Connection: an entry lives as long as its connection, no message is sent to a
  writer that is over, the reader finds its client, a connection whose peer is
  gone ends.
* Judge: a task is finished only by a program that passes all its tests, those of
  the task it was run with, in a game that stays until the verdict; nobody in
  that game is told of a finished task that is not; a Compile ends whatever the
  sandbox does.
* Guards: handlers that hold one lock, connection or thread and wait for another
  do not wait for each other for good, with the exceptions that are named.
* Service: the end of either task is noticed whenever it happens, whoever blocks
  threads meanwhile; peers should be served beside the subscription, and the
  process end with the service, which the code does not always see to.

The full list of hazards, each at its line and with the properties that cover
it, is in `PROJECT.json`.

## Modules

| Module | What it is |
|---|---|
| `Lobby` | the request handlers, `Drop for Game` and the end of a connection |
| `Sessions` | what the lobby promises, as a specification of its own |
| `MCLobby` | instances for TLC: the shards of the clients, symmetry sets |
| `LobbyProofs` | the inductive invariant; type correctness, real rosters |
| `LobbyGames` | `Lobby` implements `Sessions`, and what follows from that; memberships form no cycle |
| `LobbyKeys` | half started games, and the keys of redis |
| `LobbyEvents` | events agree with rosters |
| `Compile` | Compile and the 50 s timeout, on top of `Lobby` |
| `Judge` | the verdict on what the sandbox returned, as a pure function |
| `MCCompile` | instances for TLC |
| `CompileProofs` | types, the judge's promises, and what of `Lobby` survives timeouts |
| `Guards` | what handlers hold while they wait: locks, pool connections, threads |
| `MCGuards` | instances for TLC |
| `GuardsProofs` | types, which deadlocks there are, that somebody moves, who has an entry to itself, and that the pool stays whole |
| `Service` | listener, subscriber, `Select` and the end of `main` |
| `ServiceProofs` | types and safety of the service |
| `Connection` | one connection: `accept_connection`, its reader and writer, `SocketClient` and its Drop |
| `MCConnection` | instances for TLC |
| `ConnectionProofs` | types and safety of a connection |

### Lobby

One action is what a handler does between two points where another connection
can get in: a redis command, or the acquisition of an entry guard. One
connection runs one handler at a time, because its reader awaits `on_message`,
so `pc[c]` says where connection `c` is and `job[c]` holds the locals that the
handler carries on (`game_id`, the host named by the key).

| Variable | In the code |
|---|---|
| `pc` | the reader between and inside handlers; the tail of `accept_connection` |
| `named` | `SocketClient.nickname` is Some |
| `game` | `SocketClient.game`; `members` and `dealt` are the keys of `connected_clients` and the clients whose `task_progress` is Some; `tasks` is the length of the Vec |
| `redis` | the value of `GAME:<id>`: `None` (no key), `Unclaimed` (""), or the host in the `RedisGame` |
| `minted` | ids that nanoid has drawn |
| `job` | locals of a handler between its steps |
| `entry`, `orphan` | whether `accept_connection` has removed the entry of a client whose registration failed, and the `Game` in it, as long as its Drop goes on |
| `known` | no variable of the code: the ids a client has been told of and not yet been told to forget, folded over the events queued for it (ConnectedClient, DisconnectedClient, Shutdown, the Leave and Shutdown responses) |

A Join is five steps: `JoinFetch` (checks and GET), then either `JoinClaim`
(SET) and `JoinHost` (own entry), or `JoinRegister` (host's entry) and
`JoinInstall` (own entry); `JoinRefused`, `JoinTurnedAway`, `JoinHostLeft` and
`JoinElsewhere` are its ways to fail. `DropHost` and `DropDelete` are
`Drop for Game` of a host: shutdown with the first DEL, then the second DEL.
The host's entry stays locked between them, and so `Unlocked(h)` guards
whatever other handlers do to that entry. `DropMember` is the same Drop for a
member, part of `Leave`, `StartRefused` and `OnClose`.

A registration that fails (`websocket.rs` 160-174) removes the entry while the
reader runs, maybe in the middle of a request: `Evict`, and the Drop of the Game
that was in it, `OrphanLeaves`, or `OrphanEnds` and `OrphanDelete`. From then on
the entry cannot be found (`Listed`): a Join that was about to install its Game,
and any answer, panics at an `unwrap`, and `on_close` has no entry to take. When
registration has failed is decided late in the model: as its outcome shows nowhere
else, `Evict` may come at any time before `on_close`, which comes after it.

A redis command that returns an error may have been executed all the same
(`Executes`): by then, or not at all; one that is executed after its error has been
seen is left out.

Other abstractions: message contents, nicknames and task texts are left out; nanoid
never draws an id twice (`minted`); a Uuid connects once; requests that fail
without having changed anything are one action per request. Waiting for a
second guard while holding one is not a state of its own: that is the subject of
`Guards`. Sends are one step with the change of state around them here; the 50 s
timeout that can cut them short is the subject of `Compile`. Redis keys do not
expire and redis does not lose them.

### Sessions

Six transitions on two variables, the phase of the game a client hosts and its
roster: Open, Admit, Withdraw, Begin, End. A client that opens a session or is
admitted must be idle: no host and on no roster. There are no keys, handlers or
guards in it, and `Lobby` implements it with `phase` and `members` read off
`game`. `OneGameEach` and `NoLateEntry` say what follows for whatever implements it.

### Connection

One connection is three tasks: `accept`, `reader` and `writer` say where each is.
What they share is the entry in `sockets` (`entry`, whether it has a `game`, its
`safe` flag and its `guard`), the channel (`queued` messages, and whoever holds a sender of it:
`Senders`) and the key `SOCKET:USER:<id>` (`registered`). `elsewhere` counts the
senders that the `PartialClient`s in other clients' games hold. The peer and
other clients' handlers (`OtherLock`, `OtherSend`, ...) are the environment.

A step ends where its task waits: for a guard, for room in the channel, for the
peer. So `Reply` is the moment at which an answer finds room, with the guard
held since `Lock`; `Timeout` strikes before or between, and `CloneClient`,
`Notify`, `DropClone` are what on_message does then. Where a guard is taken and
released without anything being awaited, both are one step.

Shared guards exclude each other in the model, which makes tasks wait more than
they do in the code. What a request does to games is left to `Lobby`; here it
joins or leaves, is answered, fails, panics or times out. `GameStep`s are the
four places where a Drop for Game runs: in a Leave, in on_close, when a clone made
for a timeout is dropped, and when an entry is evicted because its registration
failed. A SET or DEL that returns an error may
have been executed (`AfterSet`, `AfterDel`), so that a key can be left without an entry; what
`RegisteredWithEntry` says of failures is no more than that allows. In the eviction a second failure of redis panics accept_connection while
the reader runs, which is why `WriterOutlives` allows for it.

The order in which the peer gets its messages follows from the order of the
sends: as the reader is spawned before `on_open` takes the guard, a first request
can be answered before Hello is queued.

### Compile and Judge

`Compile` EXTENDS `Lobby`: its next-state relation is that of the lobby, with
each step guarded by what the handler of a Compile may have locked, and the
steps of Compile. `Elsewhere`, `Enters`, `Starts` and `Evictions` wrap the lobby's actions
(by the guard they need: none, the own entry's, the host's); so a host whose
entry is locked for a private run can neither leave nor start nor close, and
nobody can join it, until the run is over or has timed out.

| Variable | In the code |
|---|---|
| `stage` | the await, or lock, at which the handler of a Compile is |
| `work` | its locals: `host_id`, `task_index`, the task whose stdin was gathered, the answer that passed last, `is_done` |
| `clone` | the `Game` in the `SocketClient` that a timeout cloned (`client.rs` 138) |
| `picked`, `progress` | `Game.tasks` and `partial_host.task_progress` of each host |
| `news` | no variable of the code: the finished tasks a client was told of, by the TaskFinished event or the answer to its own Compile |

One request is `CompileBegin` (own entry), `Prepare` (host's entry, then released),
`RunEnds` (the public run, no guard held), `Validate` (host's entry, locked until
the end), one of `JudgePasses`, `JudgeFails`, `JudgePanics` (the private run comes
back) and `Report` or `Refuse`. `Timeout` strikes while a run is awaited, and so it does while a send waits for
room in the channel of a client that does not read: `AnswerStalls` (the answer to any
request, its work done), `RegisterStalls` (`game.rs` 433-469: some have been told of
the newcomer, or it of some, and it is not inserted) and `JudgeStalls` (`game.rs`
374-381: the task is set as finished, and some have not been told). Which channels
are full is left open, so any send may stall; a stalled send and the timer are one
step. Sends inside a `Drop for Game` are in `block_on`, where no timer strikes. Then follow
`CloneClient`, and `DropMemberClone` or `DropHostClone` and `UndoKey`, which are
`Drop for Game` run on the copy.

Of an output only this is kept: whether it is the expected output of the test at
the same place. `Judge!Verdict` is the loop with its length check and the count
that follows; its meaning (`AllMatch`) is proved for answers of every length. The
progress that an answer lists test by test is left out.

### Guards

A handler is the sequence of its operations: `read` and `write` a map entry,
`release` the guard taken last, `take` a pool connection (`try`: one that the
handler can do without, as in `Drop for Game`), `give` it back, `run` the sandbox.
The sequences are written down from the code, one definition per request and way
to end (`JoinHere`, `StartRefused`, `Task`, `Compile`, `Close`, `Notice`, ...);
what a Join does depends on what it reads and is decided on the way (`Fetch`,
`Register`). `prog` holds what is left of one.

The rest is what the libraries do, in the versions of `Cargo.lock`: a guard of
DashMap is a lock of a shard of the map (parking_lot); a writer first claims the
lock and then waits for its readers, and no reader gets in past a claim;
`pool.get` blocks for 30 s and then fails; waiting for either blocks the worker
thread (`polled`), and only the sandbox is awaited. When a handler fails, panics or
times out, everything it holds is dropped (`Unwind`).

`HeldUpBy(c)` is who keeps `c` from the guard it wants. A set of handlers is dead
when each of them waits for one in the set, or for a thread when the set has them
all. `SomebodyMoves` says that, short of that, one of the handlers that have begun
waits neither for a guard nor for a thread: no guard is left behind by a handler that
is over. Which deadlocks there are is `OnlyThreeDeadlocks`: in each there is a handler that
waits for a lock it has itself, one whose thread is gone, or two that *collide*, one keeping the
other from an entry that it neither guards nor wants, because the map has hashed two
entries into one shard. `PoolWhole` says that no connection of the pool is lost, or lent
twice, however handlers end. `WorksAlone` is what `Lobby`, `Compile` and `Connection` rest on
when they make one step of what a handler does under a guard: a client sets its Game, registers
another one, or judges a program in the entry of its host, only with a write guard there and
with nobody else looking, also while the sandbox is awaited. Who is in which game is kept (`game`), started or not is not: a handler may
take any of its ways. The key that a Join reads names a client that hosts at that
moment (`Fetch`): a host that has set the key and has yet to install its Game
(`request.rs` 133-138), whose joiner finds no Game, is left out.

### Service

The main thread spawns listener and subscriber and polls a `Select` over them. A
poll is three steps, one per future, because the tasks run meanwhile on other
threads; `wakers` says which future has main's waker, `woken` whether it was used.
The subscription blocks the worker thread it runs on, and a handler may block
its own, for as long as it likes (`Blocking`, `Block`); the listener does not. `Workers` is
the number of cores, one included. `Exit` is the drop of the runtime, which waits for blocked threads. The
sender of critical errors is never used, so the third future never ends.

## Runs

All runs take the constants from their `.cfg`.

| Run | Instance | Checks |
|---|---|---|
| `lobby` | 3 clients, 1 of them on another shard, 2 ids, redis answers | `RosterIsReal`, `RosterAgrees`, `NoMembershipCycle` |
| `lobby_failing` | 3 clients on one shard, 1 id, any redis call may fail, evictions | `TypeOK`, `RosterIsReal`, `KeyNamesHost`, `HalfStartedIsClosing`, `ImplementsSessions` |
| `compile` | 2 clients, 2 ids, 2 tasks, answers of up to 2 outputs, indices up to 2, any redis call may fail | `CTypeOK`, `JudgedGameStays`, `JudgedAgainstItsRun`, `DoneMeansAllMatch`, `NewsIsTrue`, `RosterIsReal`, `KeyNamesHost`, `ImplementsSessions` |
| `compile_live` | 2 clients, 1 id, 2 tasks, one output, fair | `CompileEnds`, `RequestsEnd`, `ClosingEnds` |
| `connection` | a channel of 2, 2 senders elsewhere, any redis call may fail, fair | `TypeOK`, `WriterOutlives`, `RegisteredWithEntry`, `ReaderFindsEntry`, `ConnectionEnds`, `WriterTerminates` |
| `guards` | 3 clients in 2 shards of the map, 2 worker threads, a pool of 2 | `GTypeOK`, `OnlyThreeDeadlocks`, `SomebodyMoves`, `PoolWhole`, `WorksAlone` |
| `service` | 3 peers, 3 worker threads, fair | `STypeOK`, `FuturesThere`, `NoWakeLost`, `EndIsNoticed` |
| `two_hosts` | 2 clients, 1 id | `OneHostPerGame` is violated |
| `exists_elsewhere` | 2 clients on 2 shards, 1 id | `ExistsSparesLiveGames` is violated |
| `judged_elsewhere` | 2 clients, 2 ids, 2 tasks | `JudgedInOwnGame` is violated |
| `timed_out_game` | as before | `DroppedGameIsOver` is violated |
| `deadlock_in_game` | as `guards`, every entry in a shard of its own | `NoDeadlock` is violated |

Three clients are a host, a member and one that comes or goes meanwhile, or two
hosts and one client between them; two ids are a game and the host's next one. `lobby_failing` has one id, as evictions
multiply its states: what an eviction leaves behind does not depend on a second
game, and the proofs have any number.
`AvailableTasks` and `MaxTaskCount` are such that a Start can be filled, or cannot.
Larger instances are what the proofs are for. Permuting clients, ids or tasks
changes nothing where no CONSTANT tells them apart, hence the symmetry sets; the
runs with liveness properties have none. `lobby_failing` has `pc = "leaked"`, the
connection whose `on_close` panicked, as a final state.

In `compile` a task has one public and one private test, so that answers of up to
two outputs are too short, right, wrong and too long; two tasks and two indices are
a game and its next one with other tasks, and an index out of range. Two
clients are a host and a member, each of which may send the program. A third one
meets them in the lobby runs, and in the proofs. What clients know of each other
(`known`) is only written in this run, so that states that differ in it alone are
taken for one (`ButKnown`); no property of the run reads more than its type.

A channel of one or two messages is full in most states, where one of 200
hardly ever is; every capacity, and a redis that always answers, is covered by
the proofs of the safety properties.

In `guards` two threads and a pool of two are few enough for three handlers to use
them up. Two of the three entries are in the same shard of the map, which has about
four shards per core: so a member's Leave blocks itself when its entry and that of its host
are those two, as it locks the one and then the other, and handlers of clients that
have nothing to do with each other can collide. `deadlock_in_game` has every entry in a shard of its
own, to show that no collision is needed.

`service` has three threads, so that the subscription and two handlers, or three
handlers, can have them all.

Deadlock is checked in all runs but `compile_live`, `guards`, `deadlock_in_game`
and `service`: `Quiescent` lets a system stop only when every connection is over. The
first has the handler that never ends as its subject, the next two look for
deadlocks by their own properties, and a service of which nobody wants anything
stands still with its subscription blocked.

### What the violations show

* `two_hosts`: both clients GET "", both SET, both install a Game. The key names
  the second; the first hosts a game nobody can find, until it leaves and its
  Drop deletes the key of the other.
* `exists_elsewhere`: Exists looks for the host in the local `sockets` only, and
  deletes the key of a running game on another shard.
* `judged_elsewhere`: a member's Game outlives its place on the roster, when its host
  ended the game and opened the next one, or when a timeout dropped the clone
  of the member, which unregistered it. Compile asks the host named by that Game,
  and the lookup on the roster (`game.rs` 207) is made only when the game found is
  not a host's, where no task would have been found. So the program is judged,
  and marked as solved, in a game its client is not in.
* `timed_out_game`: `SocketClient` derives Clone, its Game included, and the timeout
  drops a clone. For a host that is a shutdown as seen by the members and by redis;
  the entry still holds the Game, started, roster and all, and the host can go on
  in it.
* `deadlock_in_game`: a host's Task holds a read guard of its own entry and takes
  another one of the same entry as that of "the host". If a member that leaves, or a
  client that joins, asks for the write guard in between, the writer waits for the
  first guard to go and the second read waits for the writer.

Found in the models without a run of their own: a timeout that strikes while the
TaskFinished event waits for room in a channel (`JudgeStalls`) leaves those after it
uninformed of a task that is set as finished, although `game.rs` 374 says "Send global
event, client has succeeded with task"; `register` cut short in the same way (`RegisterStalls`)
leaves members with a fellow who never enters. Listener and subscription are tasks of one runtime,
where `service.rs` 135 and 173 speak of separate threads: on one core the
subscription has the only worker thread, and nobody who connects is served (as
when handlers block all threads). When the listener fails, `run` returns, and the drop of the runtime waits for the thread of the
subscription, which never ends by itself: the process stays, and listens no more.

And where no text in the repository says otherwise: `register` does not compare game ids, so that a client may end up in
the next game of the host it asked for; a Join that finds the host in no game may
delete a key that was claimed meanwhile (`request.rs` 215-216, 224-225); the DEL of
`request.rs` 275 lacks the prefix of the key; a first request may be answered before
Hello is queued (`websocket.rs` 85, 154); after a timeout the reader reads on
(`client.rs` 137-147), although the trace there says "disconnecting client"; the
clone of the client that `accept_connection` keeps is never marked as safely closed, so that
a ForcedDisconnection follows every orderly close (`client.rs` 226); the oneshot
for critical errors has no sender in use, and a service whose listener panicked
returns as from a "Normal service shutdown" (`service.rs` 248).

### Fairness

`CFairSpec` asks for strong fairness of what each connection does inside a
handler or at its end (`Continue(c)` of the lobby, `Proceed(c)` of a Compile), and of
nothing a client has to send. Tokio polls a ready task again, and redis commands
return. Steps that wait for an entry can be enabled and disabled again, when its
guard is taken by the next Compile, or when the host leaves and comes back to another
game; a weak condition would let them starve, but parking_lot's locks, which
DashMap uses, hand over to waiters eventually, hence strong fairness. The sandbox
owes nothing (`Sandbox(c)` has no fairness); the timer does, which is in
`Proceed(c)`: that a Compile ends rests on it alone. That a stalled send is cut short by the timer is not among the fair steps; it need
not happen. The sends a `Drop for Game` does in `block_on`, and the one of the notice after a
timeout, which nothing cuts short, are taken to find room: that is an assumption on the clients,
as `OthersGiveWay` is below. With all threads of tokio blocked no timer strikes either; that is
left to `Guards`. The check has redis answering:
with failures `ClosingEnds` is false by design of `Drop for Game` (a panic
leaves the entry in the map).

`FairSpec` of Connection asks for strong fairness of the steps of
`accept_connection` and of the reader, which wait for guards and for room in the
channel (tokio hands out permits in order), and weak fairness of the writer.
Neither the peer nor other clients owe anything. A write is only sure to return
when the peer is gone, hence `ConnectionEnds` and `WriterTerminates` speak of a
peer that is gone. A Drop for Game sends to other clients' channels, and so may a
handler that holds this client's entry; if one of those clients neither reads nor
leaves, they never end. `ConnectionEnds` says so: it holds for the behaviours in
which others give way again and again (`OthersGiveWay`), and it fails without.
A system that waits with a blocked thread, when all workers of tokio are blocked at once,
is outside of this fairness, and so is a deadlock of locks: `SomebodyMoves` of
`Guards` says that short of the three deadlocks that
`OnlyThreeDeadlocks` names some handler waits for no other.

`SFairSpec` asks for weak fairness of main, of the steps that bind, subscribe, accept
and serve, and of no failure and no peer; nor of a handler that blocks a thread.

## Proofs

Everything is proved for any sets of clients and ids, any assignment of clients
to shards, and any numbers of tasks; `LobbyConstants` only asks that the
constants have their types and that `None` and `Unclaimed` are no clients.

| Theorem | States |
|---|---|
| `TypeCorrect` | `Spec => []TypeOK` |
| `RosterAlwaysReal` | `Spec => []RosterIsReal` |
| `LobbyImplementsSessions` | `Spec => ImplementsSessions` |
| `OneGameAlways` | `Spec => []S!OneGameEach` |
| `NeverALateEntry` | `Spec => S!NoLateEntry`, an action property |
| `HalfStartedAlwaysClosing` | `Spec => []HalfStartedIsClosing` |
| `KeyAlwaysNamesHost` | `Spec => []KeyNamesHost` |
| `RosterAlwaysAgrees` | `~RedisMayFail => (Spec => []RosterAgrees)` |
| `ConnectionProofs!TypeCorrect` | `Spec => []TypeOK` of Connection |
| `WriterAlwaysOutlives` | `Spec => []WriterOutlives` |
| `AlwaysRegisteredWithEntry` | `Spec => []RegisteredWithEntry` |
| `ReaderAlwaysFindsEntry` | `Spec => []ReaderFindsEntry` |
| `NeverACycle` | `Spec => []NoMembershipCycle` |
| `PassedMeansAllMatch` | `Verdict(out, n) = "passed"` exactly when `AllMatch(out, n)` |
| `CTypeCorrect` | `CSpec => []CTypeOK` |
| `JudgedGameAlwaysStays` | `CSpec => []JudgedGameStays` |
| `AlwaysJudgedAgainstItsRun` | `CSpec => []JudgedAgainstItsRun` |
| `DoneAlwaysMeansAllMatch` | `CSpec => []DoneMeansAllMatch` |
| `NewsAlwaysTrue` | `CSpec => []NewsIsTrue` |
| `RosterRealWithTimeouts` | `CSpec => []RosterIsReal` |
| `CompileImplementsSessions` | `CSpec => ImplementsSessions` |
| `OneGameWithTimeouts` | `CSpec => []S!OneGameEach` |
| `NeverALateEntryWithTimeouts` | `CSpec => S!NoLateEntry` |
| `HalfStartedClosesWithTimeouts` | `CSpec => []HalfStartedIsClosing` |
| `KeyNamesHostWithTimeouts` | `CSpec => []KeyNamesHost` |
| `NeverACycleWithTimeouts` | `CSpec => []NoMembershipCycle` |
| `GuardsProofs!TypeCorrect` | `GSpec => []GTypeOK` |
| `SomebodyAlwaysMoves` | `GSpec => []SomebodyMoves` |
| `OnlyThreeDeadlocksEver` | `GSpec => []OnlyThreeDeadlocks` |
| `OnlyTwoDeadlocksEver` | `OneEach => (GSpec => []OnlyTwoDeadlocks)` |
| `AlwaysWorksAlone` | `GSpec => []WorksAlone` |
| `PoolAlwaysWhole` | `GSpec => []PoolWhole` |
| `STypeCorrect` | `SSpec => []STypeOK` |
| `FuturesAlwaysThere` | `SSpec => []FuturesThere` |
| `NeverAWakeLost` | `SSpec => []NoWakeLost` |

`RosterIsReal` is not inductive: to see that a Drop removes the client from every
roster one has to know that its host can be found, so that host and member are
on one shard (`Shaped`), that a host's entry is there (`Vacant`: a client that is
not connected, in the first half of a Join, past on_close, or evicted has no Game), where
the Game is that went with an entry (`Evicted`),
and that a handler in the middle has its locals (`Typed`). `IInv` is the
conjunction of these and `RosterIsReal`, and `LobbyProofs` shows that every
action keeps it: `GamesKept` for the actions that leave the games alone, and a
lemma each for those that do not. With redis failing `RosterIsReal` claims what is left of it: an
evicted client may be on a roster while the Drop of its Game is under way, and one evicted between
register and install stays there, its connection at an end (`Belongs`).

The refinement follows from `IInv` alone: `RosterIsReal` is what makes a
newcomer idle. What `Sessions` is there for follows from its own six actions
(`SessionsStep`), and so, by the refinement, for `Lobby` and for `Compile`.
`KeyNamesHost` needs a stronger form for closing connections
(`KeyHeld`), and `RosterAgrees` one that speaks about a client's only roster
(`Informed`, with `OneRoster`); as redis answers there, nobody is evicted (`AllListed`). `HalfStartedIsClosing` is inductive relative to
`IInv`, because registration is closed exactly when the game is started.

For Connection the constants are any positive capacity, any bound on the senders
elsewhere, and redis failing or not. `WriterOutlives` is about a state in which no
sender is left; that none comes back needs `GuardHeld` (who holds a guard has an entry) and
`TasksRun` (past the select the reader is over).
`EntryKept` and `KeyKept` read entry and key off the place where
`accept_connection` is, and `RegisteredWithEntry` and `ReaderFindsEntry` follow. What the former says
with redis failing is one-sided: an entry that is served is known to redis; a key may be there
without an entry.

That memberships form no cycle is inductive with `IInv`: a client becomes a member
of a host while that hosts, so the new membership ends at a client that looks up
nobody but itself, and a client whose membership ends looks up nobody
(`SettlingKeeps` in `LobbyGames`).

For Compile the constants are any tasks, any numbers of tests, any bound on outputs
and indices. `CInv` is the inductive invariant: `IInv` of the lobby, which the steps
of the lobby keep by the lemmas of `LobbyProofs`, and those of Compile because they
change no Game but that a clone's Drop takes a member off a roster; the types; `Books`,
that there are no tasks and no progress without a game, and no progress before the start; `Placed`, where a client with a Compile under way is in the lobby; and
`Sound`, what the locals of a Compile mean at each stage. `Sound` holds
because `Free` keeps others away from a host in whose game a program is judged, and because a
client that is still on the roster is in the game it was in when its run began,
whose tasks were chosen before. A client is told of a task by an event of its game or
by its own answer, whose task is set as finished by then (`NewsInv`): either way in the game it is
in (`OriginTells`), and it forgets what it was told when it enters another.
`ImplementsSessions` follows again: a clone's Drop is a Withdraw, or a stutter.

Half started games, keys and memberships carry over from `LobbyKeys` and `LobbyGames`: a step of
the lobby is one there as well (`LobbyStepIsOne`), and what a step of Compile can do to the
variables of the lobby is little (`CompileStepEffect`): take a client off a roster, delete a key, or end
the handler that timed out. A key that a clone's Drop deletes names nobody any more, so `KeyNamesHost`
needs no exception for timeouts. `RosterAgrees` is not among these: it is false under `CSpec`,
because the clone of a host tells its members of a shutdown that does not happen (`timed_out_game`), and
because a register that a timeout cuts short has told some of a newcomer who does not enter.

The service is proved for any peers and any number of threads, without fairness.
`NoWakeLost` is the part of `EndIsNoticed` that needs none: a task that ends behind main's
back has woken it. It is inductive because a poll leaves the waker with each future it passes (`STypeOK`),
and passes none that is over.

For Guards the constants are any finite set of clients, any assignment of entries to
the shards of the map, any number of threads and any pool. Only `OnlyTwoDeadlocksEver`,
a corollary, has a hypothesis more, `OneEach`: every entry is in a shard of its own, so
that nothing collides. What is left of a handler is a sequence, of which
there are some twenty, and no induction over sequences is to be had; so the inductive
invariant `GIInv` says at every position of `prog[c]` which entries are guarded there:

* `Ordered`: there is an acyclic relation `L` of whom each client follows, such
  that the rest of every handler fits what the handler holds (`Follows`, `Fits`,
  `Walk`): at most two guards, the second taken inside that of the own entry and on
  an entry in `L[c]`; all of them released in the end; a client that is about to
  follow somebody (`Joins`) follows nobody before. A
  client follows the host of its Game, and during a Join the one it has found. That
  `L` stays acyclic when a client starts to follow a host, which follows only itself, is
  `FollowingKeepsAcyclic`: `NeverACycle` of the lobby once more, where it is needed.
* `Claimed`: whoever has the writer bit of a lock has its guard or is about to take
  it, so that no handler that is over keeps others out.
* `OnThread`: a handler gives its thread back for the sandbox only.

There is one lemma per handler (`...Handles`, or `...Fits` for the parts of a Join: its
sequence starts from no guards and leads back to none) and one per action (`...Keeps`). `SomebodyAlwaysMoves` follows: whoever holds a guard, a
claim or a thread has a handler that is not over, so that the busy
handlers would otherwise be a deadlock. For `OnlyThreeDeadlocksEver` take, of the entries that
a dead set waits for, one that follows no other of them (`Acyclic`): a handler that
holds a guard of it and is held up holds that of its own entry alone, and wants an
entry it follows, so that it wants the very entry it has locked: it waits for itself. A
handler that holds none of them, and keeps another from one all the same, collides.
`AlwaysWorksAlone` has two parts more, which TLC checked first, and which with `GIInv` make
an inductive invariant (`GAInv`). `SoleWriters`: a write guard is the only guard of its lock, and its
holder has the writer bit. `AtHand`: a client whose next operation sets, registers or judges has the write
guard of that very entry. The latter is kept because no such operation follows anything but the `write` that
takes that guard (`Backed`, part of `Walk`), and because whoever judges still has the
Game whose host it locked.
`PoolAlwaysWhole` needs to know how many connections every handler has at every position of
what is left of it: `Solvent` is the existence of such an account (`Books`) that begins with what the
handler holds, never goes past two, is at one where a connection is given back, and ends with
none, unless the handler ends in a failure, which gives everything back, or in what a Join goes on
from. The only two are those of a Join across shards, which fails. With `LentOnce`, that no
two handlers hold the same connection, and `GIInv` it is inductive (`GPInv`).

That `Ordered` is an invariant was first checked by TLC, with the relation and the
positions computed from the state, with a shard for every entry and with one for
all of them.

Only model-checked: liveness under fairness (`CompileEnds`, `RequestsEnd`,
`ClosingEnds`, `ConnectionEnds`, `WriterTerminates`, `EndIsNoticed`), which is out of
the prover's reach; and the violations.

## Plan

What is left, in this order:

1. The guards that `on_open` and `register` of a new connection take, in `Guards`.
2. Two channels in `Connection` that wait for each other's room.

## Not modelled

The middleware is commented out, and with it every message between shards. The pool
adapter and the task loader have no state and no alternatives; their failures are the
environment of the models. The wire models and errors are data: what is told to whom
is modelled, how it is written is not. `Service::new`, the configuration and the
logging are start-up code.

`Guards` leaves out `on_open` and `register` of a new connection, which hold one guard
at a time, and takes every send to have room in its channel; `Connection` has the
channels, for one connection. Redis keys do not expire. The sandbox is a
service outside the repository.
