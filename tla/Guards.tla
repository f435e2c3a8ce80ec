------------------------------- MODULE Guards -------------------------------
(***************************************************************************)
(* What the handlers of a shard wait for: the guards of the map `sockets`,  *)
(* connections of the redis pool, and the worker threads of tokio.          *)
(*                                                                         *)
(* A handler is the sequence of what it acquires and releases, in the order *)
(* of request.rs, client.rs, websocket.rs and Drop for Game (game.rs).      *)
(* Guards are locks of the shards of the DashMap, so two entries may share  *)
(* one; waiting for a guard, or for the pool, blocks the worker thread.     *)
(* Only the sandbox is awaited, which gives the thread back: an answer that *)
(* waits for room in a channel is in Connection.                            *)
(***************************************************************************)
EXTENDS Integers, FiniteSets, Sequences

CONSTANTS
  Client,     \* connections, all of one server and registered there
  ShardIn,    \* the shard of the map in which the entry of a client is
  Workers,    \* the worker threads of tokio
  Connection, \* the connections of the redis pool
  None        \* Option::None

VARIABLES
  life,      \* open, its reader over (closing), or gone
  game,      \* the host that a client's Game names
  prog,      \* what is left of the handler of a client
  guards,    \* the guards a handler holds, oldest first
  writer,    \* who has the writer bit of a lock: it holds the lock, or waits
             \* for its readers to leave and lets no new one in
  conns,     \* the connections of the pool that a handler holds
  polled     \* the clients whose handler has a worker thread

gvars == <<life, game, prog, guards, writer, conns, polled>>

MapShard == {ShardIn[e] : e \in Client}

ASSUME GuardsConstants ==
  /\ IsFiniteSet(Client)
  /\ Workers \in Nat
  /\ None \notin Client

(***************************************************************************)
(* The operations of a handler.                                            *)
(***************************************************************************)
Kind ==
  {"read", "write", "release",       \* get, get_mut, the guard dropped
   "take", "try", "give",            \* a connection; try can do without
   "run", "judge",                   \* a sandbox run; the second may not come
   "fetch", "register", "set",       \* what Join reads, asks and stores
   "fail"}                           \* an Err is returned, or a panic

Op == Kind \X (Client \cup {None})

R(e) == <<"read", e>>
W(e) == <<"write", e>>
Release == <<"release", None>>
Take == <<"take", None>>
Try == <<"try", None>>
Give == <<"give", None>>
Set(h) == <<"set", h>>
Fail == <<"fail", None>>

GTypeOK ==
  /\ life \in [Client -> {"open", "closing", "gone"}]
  /\ game \in [Client -> Client \cup {None}]
  /\ prog \in [Client -> Seq(Op)]
  /\ guards \in [Client -> Seq({"read", "write"} \X Client)]
  /\ writer \in [MapShard -> Client \cup {None}]
  /\ conns \in [Client -> SUBSET Connection]
  /\ polled \in SUBSET Client
  /\ Cardinality(polled) <= Workers

GInit ==
  /\ life = [c \in Client |-> "open"]
  /\ game = [c \in Client |-> None]
  /\ prog = [c \in Client |-> <<>>]
  /\ guards = [c \in Client |-> <<>>]
  /\ writer = [s \in MapShard |-> None]
  /\ conns = [c \in Client |-> {}]
  /\ polled = {}

(***************************************************************************)
(* The handlers.                                                           *)
(***************************************************************************)
\* Drop for Game: a member locks the entry of its host; a host sends through
\* the write_channel of its PartialClients and needs connections only.
\* (ThroughSockets looks the members up instead; HoldsBoth takes the second
\* connection with the first still held.)
MembersOf(c) == {x \in Client : x # c /\ game[x] = c}
ThroughSockets(c) ==
  IF game[c] # c THEN <<W(game[c]), Release>>
  ELSE IF MembersOf(c) = {} THEN <<Try, Give, Take, Give>>
  ELSE LET m == CHOOSE x \in MembersOf(c) : TRUE
       IN <<R(m), Release, Try, Give, Take, Give>>
HoldsBoth(c) ==
  IF game[c] = c THEN <<Try, Take, Give, Give>> ELSE <<W(game[c]), Release>>
DropGame(c) ==
  IF game[c] = c THEN <<Try, Give, Take, Give>> ELSE <<W(game[c]), Release>>

\* Identify, and a Start by the host.
Alone(c) == <<W(c), Release>>

Ping(c) == <<R(c), Release>>

Create(c) == <<Take, R(c), Release, Give>>

\* The host the key names is looked up.
Exists(c, h) == <<Take, R(h), Release, R(c), Release, Give>>

\* A Join up to the GET, and the ways it goes on from there.
Join(c) == <<R(c), Take, <<"fetch", None>>>>
JoinAsHost(c) == <<Release, W(c), Set(c), Release, Give>>
JoinHere(c, h) ==
  <<Release, W(h), <<"register", h>>, Release, W(c), Set(h), Release, Give>>
JoinElsewhere(c) == <<Release, Take, R(c), Fail>>

Leave(c) == <<W(c), Set(None)>> \o DropGame(c) \o <<Release>>

\* A Start by somebody who is not the host.
StartRefused(c) == <<W(c), Set(None)>> \o DropGame(c) \o <<Fail>>

\* The guard of the host is taken while the own one is held.
Task(c) == <<R(c), R(game[c]), Release, Release>>
TaskRefused(c) == <<R(c), R(game[c]), Fail>>

\* The second sandbox run is awaited with the guard of the host held (not
\* so if the program is judged by a copy of the Game: JudgedByCopy).
JudgedByCopy(c) ==
  <<R(c), Release, W(game[c]), Release, <<"run", None>>,
    W(game[c]), Release, <<"judge", None>>, R(c), Release>>
Compile(c) ==
  <<R(c), Release, W(game[c]), Release, <<"run", None>>,
    W(game[c]), <<"judge", None>>, Release, R(c), Release>>
CompileRefused(c) ==
  <<R(c), Release, W(game[c]), Release, R(c), Fail>>

\* Leave, Start, Task and Compile of a client in no game.
NotInGame(c) == {<<W(c), Fail>>, <<R(c), Fail>>}

\* on_close, unregister and remove.
Close(c) ==
  <<W(c)>> \o (IF game[c] = None THEN <<>> ELSE <<Set(None)>> \o DropGame(c))
    \o <<Release, R(c), Try, Give, Release, W(c), Release>>

\* After a timeout: the client is cloned, and the Game in the clone dropped.
Notice(c) == <<R(c), Release>> \o DropGame(c)

Requests(c) ==
  {Alone(c), Ping(c), Create(c)}
  \cup {Exists(c, h) : h \in {x \in Client : game[x] = x}}
  \cup IF game[c] = None THEN {Join(c)} \cup NotInGame(c)
       ELSE {Leave(c), StartRefused(c), Task(c), TaskRefused(c),
             Compile(c), CompileRefused(c)}

(***************************************************************************)
(* Locks.                                                                  *)
(***************************************************************************)
Waiting(c, k) == c \in polled /\ prog[c] # <<>> /\ Head(prog[c])[1] = k

\* The entry, or host, that the next operation of c names.
Named(c) == Head(prog[c])[2]

Guarded(c, k, s) ==
  \E i \in DOMAIN guards[c] :
    guards[c][i][1] = k /\ ShardIn[guards[c][i][2]] = s

Readers(s) == {c \in Client : Guarded(c, "read", s)}

\* Who keeps c from the guard it is about to take: a reader stays outside as
\* long as there is a writer, even one that waits itself; a writer first
\* waits for other writers, and then for the readers.
HeldUpBy(c) ==
  LET s == ShardIn[Named(c)]
  IN IF Waiting(c, "read") THEN {writer[s]} \ {None}
     ELSE IF Waiting(c, "write")
       THEN IF writer[s] = c /\ ~Guarded(c, "write", s) THEN Readers(s)
            ELSE {writer[s]} \ {None}
     ELSE {}

\* A handler whose operations are done gives its thread back; a connection
\* whose closing is done is gone.
Continue(c, rest) ==
  /\ prog' = [prog EXCEPT ![c] = rest]
  /\ polled' = IF rest = <<>> THEN polled \ {c} ELSE polled
  /\ life' = [life EXCEPT ![c] = IF rest = <<>> /\ @ = "closing" THEN "gone" ELSE @]
Advance(c) == Continue(c, Tail(prog[c]))

\* Everything the handler holds is dropped when it returns early or panics;
\* the reader ends, or what was left of accept_connection.  (With StayLocked
\* the handler is left alone with its write guards instead.)
StayLocked(c) == UNCHANGED writer
FreeWriters(c) ==
  writer' = [s \in MapShard |-> IF writer[s] = c THEN None ELSE writer[s]]
Unwind(c, rest) ==
  /\ guards' = [guards EXCEPT ![c] = <<>>]
  /\ FreeWriters(c)
  /\ conns' = [conns EXCEPT ![c] = {}]
  /\ prog' = [prog EXCEPT ![c] = rest]
Panic(c) ==
  /\ Unwind(c, <<>>)
  /\ polled' = polled \ {c}
  /\ life' = [life EXCEPT ![c] = IF @ = "open" THEN "closing" ELSE "gone"]
  /\ UNCHANGED game

ReadLock(c) ==
  /\ Waiting(c, "read") /\ HeldUpBy(c) = {}
  /\ guards' = [guards EXCEPT ![c] = Append(@, <<"read", Named(c)>>)]
  /\ Advance(c)
  /\ UNCHANGED <<game, writer, conns>>

\* The writer bit is set first, with readers inside or not ...
WriteClaim(c) ==
  LET s == ShardIn[Named(c)]
  IN /\ Waiting(c, "write") /\ writer[s] = None
     /\ writer' = [writer EXCEPT ![s] = c]
     /\ UNCHANGED <<life, game, prog, guards, conns, polled>>

\* ... and the lock is held once they have left.
WriteLock(c) ==
  LET s == ShardIn[Named(c)]
  IN /\ Waiting(c, "write") /\ writer[s] = c /\ HeldUpBy(c) = {}
     /\ guards' = [guards EXCEPT ![c] = Append(@, <<"write", Named(c)>>)]
     /\ Advance(c)
     /\ UNCHANGED <<game, writer, conns>>

\* The guard that was taken last is dropped first.
Unlock(c) ==
  LET n == Len(guards[c])
      s == ShardIn[guards[c][n][2]]
  IN /\ Waiting(c, "release")
     /\ guards' = [guards EXCEPT ![c] = SubSeq(@, 1, n - 1)]
     /\ writer' = IF guards[c][n][1] = "write"
                    THEN [writer EXCEPT ![s] = None] ELSE writer
     /\ Advance(c)
     /\ UNCHANGED <<game, conns>>

(***************************************************************************)
(* The pool.                                                               *)
(***************************************************************************)
Free == Connection \ UNION {conns[c] : c \in Client}

Connect(c) ==
  /\ Waiting(c, "take") \/ Waiting(c, "try")
  /\ \E k \in Free : conns' = [conns EXCEPT ![c] = @ \cup {k}]
  /\ Advance(c)
  /\ UNCHANGED <<game, guards, writer>>

\* A handler that gives one back holds no other.
Return(c) ==
  /\ Waiting(c, "give")
  /\ conns' = [conns EXCEPT ![c] = {}]
  /\ Advance(c)
  /\ UNCHANGED <<game, guards, writer>>

\* r2d2 gives up after 30 s.  The handler fails, or goes on without what it
\* wanted a connection for.
NoConnection(c) ==
  /\ Free = {}
  /\ \/ Waiting(c, "take") /\ Panic(c)
     \/ /\ Waiting(c, "try")
        /\ Continue(c, Tail(Tail(prog[c])))
        /\ UNCHANGED <<game, guards, writer, conns>>

(***************************************************************************)
(* What else a handler does.                                               *)
(***************************************************************************)
\* The key is not there, has no host yet, or names a host here or elsewhere
\* (a host of now: not one that has set the key and has yet to install its
\* Game, whose joiner finds no Game, as in Register).
Fetch(c) ==
  /\ Waiting(c, "fetch")
  /\ \/ Panic(c)
     \/ /\ \/ Continue(c, JoinAsHost(c)) \/ Continue(c, JoinElsewhere(c))
           \/ \E h \in Client : game[h] = h /\ Continue(c, JoinHere(c, h))
        /\ UNCHANGED <<game, guards, writer, conns>>

\* Game::register at the host: the client is registered, or turned away if
\* the game has started or is not the host's; an Err if there is no game.
Register(c) ==
  LET h == Named(c)
  IN /\ Waiting(c, "register")
     /\ \/ game[h] = None /\ Panic(c)
        \/ /\ \/ game[h] = h /\ Advance(c)
              \/ game[h] # None /\ Continue(c, <<Release, W(c), Release, Give>>)
           /\ UNCHANGED <<game, guards, writer, conns>>

SetGame(c) ==
  /\ Waiting(c, "set")
  /\ game' = [game EXCEPT ![c] = Named(c)]
  /\ Advance(c)
  /\ UNCHANGED <<guards, writer, conns>>

Fails(c) == Waiting(c, "fail") /\ Panic(c)

(***************************************************************************)
(* The sandbox, and the 50 s after which the handler is dropped.           *)
(***************************************************************************)
Await(c) ==
  /\ Waiting(c, "run") \/ Waiting(c, "judge")
  /\ polled' = polled \ {c}
  /\ UNCHANGED <<life, game, prog, guards, writer, conns>>

\* A program that fails the public tests is not run again.
NoSecondRun(c) ==
  /\ Waiting(c, "judge")
  /\ Advance(c)
  /\ UNCHANGED <<game, guards, writer, conns>>

\* Without a worker thread that is free nobody sees the answer, or the timer
\* (Awaiting asks for none).
Awaiting(c) == c \notin polled /\ prog[c] # <<>>
Ready(c) == Awaiting(c) /\ Cardinality(polled) < Workers

SandboxAnswers(c) ==
  /\ Ready(c)
  /\ prog' = [prog EXCEPT ![c] = Tail(@)]
  /\ polled' = polled \cup {c}
  /\ UNCHANGED <<life, game, guards, writer, conns>>

TimesOut(c) ==
  /\ Ready(c)
  /\ Unwind(c, Notice(c))
  /\ polled' = polled \cup {c}
  /\ UNCHANGED <<life, game>>

(***************************************************************************)
(* The specification.                                                      *)
(***************************************************************************)
Begin(c) ==
  /\ prog[c] = <<>>
  /\ Cardinality(polled) < Workers
  /\ \/ life[c] = "open" /\ \E p \in Requests(c) : prog' = [prog EXCEPT ![c] = p]
     \/ life[c] = "closing" /\ prog' = [prog EXCEPT ![c] = Close(c)]
  /\ polled' = polled \cup {c}
  /\ UNCHANGED <<life, game, guards, writer, conns>>

Disconnect(c) ==
  /\ prog[c] = <<>> /\ life[c] = "open"
  /\ life' = [life EXCEPT ![c] = "closing"]
  /\ UNCHANGED <<game, prog, guards, writer, conns, polled>>

GoesOn(c) ==
  \/ ReadLock(c) \/ WriteClaim(c) \/ WriteLock(c) \/ Unlock(c)
  \/ Connect(c) \/ Return(c) \/ NoConnection(c)
  \/ Fetch(c) \/ Register(c) \/ SetGame(c) \/ Fails(c)
  \/ Await(c) \/ NoSecondRun(c) \/ TimesOut(c)

GNext == \E c \in Client : Begin(c) \/ Disconnect(c) \/ GoesOn(c) \/ SandboxAnswers(c)

GSpec == GInit /\ [][GNext]_gvars

(***************************************************************************)
(* Properties.                                                             *)
(***************************************************************************)
\* The clients with a handler that is not over.
Busy == {c \in Client : prog[c] # <<>>}

\* The sandbox has answered, but all the worker threads are blocked.
Starved(c) == Awaiting(c) /\ Cardinality(polled) = Workers

\* Handlers that wait for each other for good: each for a guard that one of
\* them holds, or for a thread when they have them all.
Dead(D) ==
  \A c \in D :
    \/ HeldUpBy(c) \cap D # {}
    \/ Starved(c) /\ polled \subseteq D

Deadlocks == {D \in SUBSET Client : D # {} /\ Dead(D)}

\* c waits for a lock that it holds itself.
WaitsForItself(c) ==
  HeldUpBy(c) # {} /\ \E k \in {"read", "write"} : Guarded(c, k, ShardIn[Named(c)])

\* The entries that c's next operation reads and changes: its own, where its
\* Game is set, or the host's, where it is registered or its program judged.
WorksOn(c) ==
  LET op == Head(prog[c])
  IN CASE op[1] = "set" -> {c}
       [] op[1] = "register" -> {op[2]}
       [] op[1] = "judge" -> {game[c]}
       [] OTHER -> {}

\* Whoever does so has it to itself: it has a write guard there, also while the
\* sandbox is awaited, and nobody else has a guard.  That such an operation is
\* one step in Lobby, Compile and Connection rests on this.
WorksAlone ==
  \A c \in Busy : \A e \in WorksOn(c) :
    /\ Guarded(c, "write", ShardIn[e])
    /\ \A d \in Client : \A k \in {"read", "write"} :
         Guarded(d, k, ShardIn[e]) => d = c

\* d keeps c from an entry that d itself neither guards nor asks for: the guard
\* of d is that of another entry in the same shard.
Collides(c, d) ==
  /\ d \in HeldUpBy(c)
  /\ Named(d) # Named(c)
  /\ \A i \in DOMAIN guards[d] : guards[d][i][2] # Named(c)

\* Handlers can block each other for good in three ways only: one of them locks
\* again what it has locked, be it the same entry or one in the same shard; one
\* has a guard over an await and no thread to go on; or the hashes of two
\* entries collide.  That own and host's guards are taken one inside the other,
\* by members and by hosts, closes no circle by itself, and neither does the pool.
OnlyThreeDeadlocks ==
  \A D \in Deadlocks : \E c \in D :
    WaitsForItself(c) \/ Starved(c) \/ \E d \in D : Collides(c, d)

\* With every entry in a shard of its own there are only the first two.
OnlyTwoDeadlocks ==
  \A D \in Deadlocks : \E c \in D : WaitsForItself(c) \/ Starved(c)

\* The handlers that neither wait for a guard nor starve.
Unhindered == {c \in Busy : HeldUpBy(c) = {} /\ ~Starved(c)}

\* Short of a deadlock one of the handlers that have begun waits neither for a
\* guard nor for a thread: no guard is left behind by a handler that is over,
\* whether it was answered, failed, panicked or timed out.
SomebodyMoves ==
  Deadlocks = {} /\ Busy # {} => Unhindered # {}

\* A connection is lent to one handler at a time; a handler that is over has
\* given back whatever it took, be it answered, failed, panicked or timed out;
\* and one that gives a connection back holds that one and no other.
PoolWhole ==
  \A c \in Client :
    /\ c \notin Busy => conns[c] = {}
    /\ Waiting(c, "give") => Cardinality(conns[c]) = 1
    /\ \A d \in Client \ {c} : conns[c] \cap conns[d] = {}

(***************************************************************************)
(* What the comments say and the code does not do.                         *)
(***************************************************************************)
\* "prevents deadlocking within games": the handlers of the clients in a game
\* never block each other for good.
NoDeadlock == Deadlocks = {}
=============================================================================
