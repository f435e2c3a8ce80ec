------------------------------- MODULE Lobby -------------------------------
(***************************************************************************)
(* The request handlers of a shard that create, join, start, leave and end *)
(* games: src/service/websocket/client/game/models/request.rs, the Game    *)
(* struct of game.rs with its Drop, and what accept_connection             *)
(* (websocket.rs) does to the entry of a client whose registration failed, *)
(* and at the end of a connection.                                         *)
(*                                                                         *)
(* One connection runs one handler at a time (its reader task awaits       *)
(* on_message), the connections interleave.  A step below is what a        *)
(* handler does between two points where another connection can get in:    *)
(* a redis command, or the acquisition of a guard of the map `sockets`.    *)
(* Redis commands are atomic, and a guard excludes every other access to   *)
(* that entry while it is held.  A command whose reply is an error has been *)
(* executed by then or never will be.                                      *)
(***************************************************************************)
EXTENDS Naturals, FiniteSets

CONSTANTS
  Client,          \* connections; each is a fresh Uuid, so it connects once
  GameId,          \* the ids nanoid can mint
  ShardOf,         \* the shard (server process) a client is connected to
  AvailableTasks,  \* Len(available_tasks), the tasks of tasks.toml
  MaxTaskCount,    \* bound on the task_count a StartRequest asks for
  RedisMayFail,    \* whether a redis command or the pool may fail
  None,            \* Option::None; as a redis value, no such key
  Unclaimed        \* the "" that Create stores: a game without a host

VARIABLES
  pc,      \* where the tasks of each connection are
  named,   \* the clients that have a nickname
  game,    \* SocketClient.game, an Option<Game>
  redis,   \* GAME:<id> -> no key, "", or the RedisGame naming a host
  minted,  \* the ids Create has drawn so far
  job,     \* the locals a handler carries from one step to the next
  known,   \* who a client knows is in its game, from the events sent to it
  entry,   \* what became of a client's entry when its registration failed
  orphan   \* the Game that was in the entry then, as long as its Drop goes on

eviction == <<entry, orphan>>
vars == <<pc, named, game, redis, minted, job, known, eviction>>

(***************************************************************************)
(* Types.                                                                  *)
(***************************************************************************)
Location ==
  {"away", "idle",                            \* before, and between messages
   "claim", "host", "register", "install",    \* inside a Join
   "exists",                                  \* inside an Exists
   "leaving",                                 \* inside the Drop of a Leave
   "closing", "ending", "closed", "gone",     \* accept_connection's end
   "leaked"}                                  \* accept_connection panicked

\* `members` and `dealt` are the keys of connected_clients, and the clients
\* whose task_progress is Some; the length of `tasks` stands for the tasks.
Game == [isHost : BOOLEAN, id : GameId, host : Client,
         members : SUBSET Client, public : BOOLEAN, started : BOOLEAN,
         tasks : Nat, dealt : SUBSET Client]

Job == [id : GameId, host : Client]

Entry ==
  {"kept",                \* registered, or not yet: the entry stays
   "removed", "ending",   \* removed, before and inside the Drop of its Game
   "lost"}                \* removed, the Drop over

ASSUME LobbyConstants ==
  /\ AvailableTasks \in Nat
  /\ MaxTaskCount \in Nat
  /\ RedisMayFail \in BOOLEAN
  /\ None \notin Client \cup Game \cup Job
  /\ Unclaimed \notin Client \cup {None}

TypeOK ==
  /\ pc \in [Client -> Location]
  /\ named \subseteq Client
  /\ game \in [Client -> Game \cup {None}]
  /\ redis \in [GameId -> Client \cup {None, Unclaimed}]
  /\ minted \subseteq GameId
  /\ job \in [Client -> Job \cup {None}]
  /\ known \in [Client -> SUBSET Client]
  /\ entry \in [Client -> Entry]
  /\ orphan \in [Client -> Game \cup {None}]

Init ==
  /\ pc = [c \in Client |-> "away"]
  /\ named = {}
  /\ game = [c \in Client |-> None]
  /\ redis = [g \in GameId |-> None]
  /\ minted = {}
  /\ job = [c \in Client |-> None]
  /\ known = [c \in Client |-> {}]
  /\ entry = [c \in Client |-> "kept"]
  /\ orphan = [c \in Client |-> None]

(***************************************************************************)
(* Helpers.                                                                *)
(***************************************************************************)
\* The outcomes of a redis command: TRUE is Ok.
RedisResult == IF RedisMayFail THEN BOOLEAN ELSE {TRUE}

\* A command that leaves the keys as `after`: when it fails it may have been
\* executed all the same, its reply lost.
Executes(after, ok) == redis' = after \/ (~ok /\ UNCHANGED redis)

\* c can be found in the map: its entry has not been evicted.
Listed(c) == entry[c] = "kept"

\* sockets.get(&h) finds an entry when a handler of c looks: every shard has
\* a map of its own connections only.
Sees(c, h) ==
  ShardOf[c] = ShardOf[h] /\ pc[h] \notin {"away", "gone"} /\ Listed(h)

\* No handler keeps the entry of c locked across a step: only that of a host
\* stays so, from the first DEL of its Game's Drop to the second.
Unlocked(c) == pc[c] \notin {"leaving", "ending"}

Hosting(h) == game[h] # None /\ game[h].isHost

\* The clients in h's connected_clients; only a host has that map.
Roster(h) == IF Hosting(h) THEN game[h].members ELSE {}

\* The tests at the top of a Join (FromAnyGame forgets AlreadyInGame).
FromAnyGame(c) == c \in named
MayJoin(c) == game[c] = None /\ c \in named

\* The test at the top of Game::register; without its second half a game
\* could be joined after its start.
AdmitsAnyTime(h) == game[h].isHost
Admits(h) == game[h].isHost /\ game[h].public

\* Whom send_global reaches in the game of h: the members, then the host
\* (MembersOnly forgets the host).
MembersOnly(h) == game[h].members
Audience(h) == game[h].members \cup {game[h].host}

\* Whom the ShutdownGameEvent of a Game reaches.
HearEnd(g) == g.members

\* What clients know after a shutdown of the Game g of c: the ShutdownResponse
\* is skipped when the DEL before it fails.
HearShutdown(c, g, ok) ==
  [x \in Client |->
     IF x \in HearEnd(g) \/ (x = c /\ ok) THEN {} ELSE known[x]]

\* The game of h without c in its connected_clients (StillIn forgets to
\* remove the client).
StillIn(h, c) == [game[h] EXCEPT !.dealt = @ \ {c}]
Without(h, c) ==
  [game[h] EXCEPT !.members = @ \ {c}, !.dealt = @ \ {c}]

\* The Drop of a Game of c that names h as its host finds h with a game that
\* c is in.
OnRoster(c, h) == Sees(c, h) /\ h # c /\ c \in Roster(h)

\* The games after its unregister, and what clients know after that and the
\* LeaveResponse.
Unregister(c, h) ==
  IF OnRoster(c, h) THEN [game EXCEPT ![h] = Without(h, c)] ELSE game
HearLeave(c, h) ==
  [x \in Client |->
     IF x = c THEN {}
     ELSE IF OnRoster(c, h) /\ x \in Audience(h) THEN known[x] \ {c}
     ELSE known[x]]

\* The keys after DEL GAME:<g>; a DEL of <g> without the prefix, the one of
\* a Join across shards, misses (Missed).
Missed(g) == redis
Deleted(g) == [redis EXCEPT ![g] = None]

\* How many tasks choose_multiple finds when n are asked for (Missing is what
\* is left of them).
Missing(n) == AvailableTasks - n
Chosen(n) == IF n < AvailableTasks THEN n ELSE AvailableTasks

\* Game::new
NewGame(isHost, g, h) ==
  [isHost |-> isHost, id |-> g, host |-> h, members |-> {}, public |-> TRUE,
   started |-> FALSE, tasks |-> 0, dealt |-> {}]

Goto(c, l) == pc' = [pc EXCEPT ![c] = l]

\* The handler is over.  After an Err on_message says should_close, and the
\* reader returns.  An answer is sent through the client's own entry; when
\* that is gone unwrap panics, and with it the reader.
Done(c, l) == Goto(c, l) /\ job' = [job EXCEPT ![c] = None]
Answered(c) == Done(c, IF Listed(c) THEN "idle" ELSE "closing")
Kept(c) == Done(c, "idle")    \* the error does not close the connection
Failed(c) == Done(c, "closing")

\* Where a connection goes on when its hosted game was dropped, by a Leave
\* or by on_close (KeepsReading takes every drop for a Leave).
KeepsReading(c) == "idle"
AfterDrop(c) == IF pc[c] = "leaving" THEN "idle" ELSE "closed"

\* The two ways a Join finds its host gone, the `else` and the `None` branch
\* (OnlyInMap has only the first).
OnlyInMap(c, h) == Sees(c, h) /\ Unlocked(h) /\ game[h] = None
HostLeft(c, h) == Sees(c, h) => Unlocked(h) /\ game[h] = None

(***************************************************************************)
(* Connections and the requests that stay clear of other clients.          *)
(***************************************************************************)
\* accept_connection up to the spawned reader, the client inserted in
\* `sockets`.
Connect(c) ==
  /\ pc[c] = "away"
  /\ Goto(c, "idle")
  /\ UNCHANGED <<named, game, redis, minted, job, known, eviction>>

\* A second Identify is answered with success = false and changes nothing.
Identify(c) ==
  /\ pc[c] = "idle" /\ Listed(c)
  /\ named' = named \cup {c}
  /\ UNCHANGED <<pc, game, redis, minted, job, known, eviction>>

\* nanoid draws ten digits: the model never draws the same id twice.
Create(c, g) ==
  /\ pc[c] = "idle"
  /\ g \notin minted
  /\ minted' = minted \cup {g}
  /\ \/ /\ redis' = [redis EXCEPT ![g] = Unclaimed]
        /\ Answered(c)
     \/ /\ RedisMayFail
        /\ Executes([redis EXCEPT ![g] = Unclaimed], FALSE)
        /\ Failed(c)
  /\ UNCHANGED <<named, game, known, eviction>>

(***************************************************************************)
(* Join.  The key is read first; what was read decides the rest.           *)
(***************************************************************************)
JoinFetch(c, g) ==
  /\ pc[c] = "idle" /\ Listed(c)
  /\ MayJoin(c)
  /\ redis[g] # None
  /\ IF redis[g] = Unclaimed
       THEN /\ Goto(c, "claim")
            /\ job' = [job EXCEPT ![c] = [id |-> g, host |-> c]]
       ELSE /\ Goto(c, "register")
            /\ job' = [job EXCEPT ![c] = [id |-> g, host |-> redis[g]]]
  /\ UNCHANGED <<named, game, redis, minted, known, eviction>>

\* AlreadyInGame, ClientNotIdentified, NoGameWasFound or a redis error.
JoinRefused(c, g) ==
  /\ pc[c] = "idle"
  /\ ~MayJoin(c) \/ redis[g] = None \/ RedisMayFail
  /\ Failed(c)
  /\ UNCHANGED <<named, game, redis, minted, known, eviction>>

\* "Register as host": SET, whatever the key holds by now.
JoinClaim(c) ==
  /\ pc[c] = "claim"
  /\ \/ /\ redis' = [redis EXCEPT ![job[c].id] = c]
        /\ Goto(c, "host")
        /\ UNCHANGED job
     \/ /\ RedisMayFail
        /\ Executes([redis EXCEPT ![job[c].id] = c], FALSE)
        /\ Failed(c)
  /\ UNCHANGED <<named, game, minted, known, eviction>>

\* client.game = Some(g), if there still is an entry to put it in.
Install(c, g) ==
  IF Listed(c) THEN game' = [game EXCEPT ![c] = g] ELSE UNCHANGED game

JoinHost(c) ==
  /\ pc[c] = "host"
  /\ Install(c, NewGame(TRUE, job[c].id, c))
  /\ Answered(c)
  /\ UNCHANGED <<named, redis, minted, known, eviction>>

\* Game::register with the guard of the host held: the newcomer is sent the
\* members and the host, these are sent the newcomer, then it is inserted.
JoinRegister(c) ==
  LET h == job[c].host
  IN /\ pc[c] = "register"
     /\ Sees(c, h) /\ Unlocked(h)
     /\ game[h] # None /\ Admits(h)
     /\ known' = [x \in Client |->
                    known[x] \cup (IF x = c THEN Audience(h) ELSE {})
                             \cup (IF x \in Audience(h) THEN {c} ELSE {})]
     /\ game' = [game EXCEPT ![h].members = @ \cup {c},
                             ![h].dealt = @ \ {c}]
     /\ Goto(c, "install")
     /\ UNCHANGED <<named, redis, minted, job, eviction>>

\* register returned Err: the answer says success = false.
JoinTurnedAway(c) ==
  LET h == job[c].host
  IN /\ pc[c] = "register"
     /\ Sees(c, h) /\ Unlocked(h)
     /\ game[h] # None /\ ~Admits(h)
     /\ Answered(c)
     /\ UNCHANGED <<named, game, redis, minted, known, eviction>>

\* The host's entry is gone or is in no game: the key is deleted (the result
\* of DEL is ignored) and the joiner gets an error.
JoinHostLeft(c) ==
  LET h == job[c].host
  IN /\ pc[c] = "register"
     /\ ShardOf[c] = ShardOf[h]
     /\ HostLeft(c, h)
     /\ \E ok \in RedisResult : Executes(Deleted(job[c].id), ok)
     /\ Failed(c)
     /\ UNCHANGED <<named, game, minted, known, eviction>>

\* The game lives on another shard.  The DEL has no "GAME:" prefix and hits
\* no key of a game.
JoinElsewhere(c) ==
  /\ pc[c] = "register"
  /\ ShardOf[c] # ShardOf[job[c].host]
  /\ Failed(c)
  /\ UNCHANGED <<named, game, redis, minted, known, eviction>>

\* "Register the game for the client", after the host's guard was released.
JoinInstall(c) ==
  /\ pc[c] = "install"
  /\ Install(c, NewGame(FALSE, job[c].id, job[c].host))
  /\ Answered(c)
  /\ UNCHANGED <<named, redis, minted, known, eviction>>

(***************************************************************************)
(* Drop for Game.                                                          *)
(***************************************************************************)
\* The member's branch, the guard of c held: unregister at the host if the
\* host has a game and c is in it, then the LeaveResponse.
DropMember(c) ==
  LET h == game[c].host
  IN /\ Sees(c, h) => Unlocked(h)
     /\ game' = [Unregister(c, h) EXCEPT ![c] = None]
     /\ known' = HearLeave(c, h)

\* The host's branch up to the first DEL (Game::shutdown).  The guard stays
\* locked.
DropHost(c, l) ==
  /\ \E ok \in RedisResult :
       /\ Executes(Deleted(game[c].id), ok)
       /\ known' = HearShutdown(c, game[c], ok)
  /\ game' = [game EXCEPT ![c] = None]
  /\ job' = [job EXCEPT ![c] = [id |-> game[c].id, host |-> c]]
  /\ Goto(c, l)

\* The second DEL of the Drop, unwrapped: an error panics the task.  In the
\* reader that ends the connection; in accept_connection itself nothing is
\* left to remove the entry.
DropDelete(c) ==
  /\ pc[c] \in {"leaving", "ending"}
  /\ \E ok \in RedisResult :
       /\ Executes(Deleted(job[c].id), ok)
       /\ Done(c, IF ok THEN AfterDrop(c)
                  ELSE IF pc[c] = "leaving" THEN "closing" ELSE "leaked")
  /\ UNCHANGED <<named, game, minted, known, eviction>>

(***************************************************************************)
(* Leave, Start, Task, Exists.                                             *)
(***************************************************************************)
Leave(c) ==
  /\ pc[c] = "idle"
  /\ \/ /\ game[c] = None
        /\ Failed(c)
        /\ UNCHANGED <<game, redis, known>>
     \/ /\ game[c] # None /\ ~game[c].isHost
        /\ DropMember(c)
        /\ UNCHANGED <<pc, redis, job>>
     \/ /\ Hosting(c)
        /\ DropHost(c, "leaving")
  /\ UNCHANGED <<named, minted, eviction>>

\* Game::start asked for n tasks.  The flags are set and the tasks chosen
\* before their number is compared with n.
Start(c, n) ==
  LET chosen == Chosen(n)
  IN /\ pc[c] = "idle"
     /\ Hosting(c) /\ ~game[c].started
     /\ game' = [game EXCEPT ![c].public = FALSE,
                             ![c].started = TRUE,
                             ![c].tasks = chosen,
                             ![c].dealt = IF chosen = n
                                            THEN game[c].members \cup {c}
                                            ELSE @]
     /\ IF chosen = n THEN Answered(c) ELSE Failed(c)
     /\ UNCHANGED <<named, redis, minted, known, eviction>>

\* NotInGame, GameAlreadyStarted, or NotGameHost: the latter drops the
\* member's game before the connection is closed.
StartRefused(c) ==
  /\ pc[c] = "idle"
  /\ \/ /\ game[c] = None \/ (Hosting(c) /\ game[c].started)
        /\ UNCHANGED <<game, known>>
     \/ /\ game[c] # None /\ ~game[c].isHost
        /\ DropMember(c)
  /\ Failed(c)
  /\ UNCHANGED <<named, redis, minted, eviction>>

\* NotInGame, host gone or in no game, GameNotStarted or OutOfRangeTask.  An
\* answered Task changes nothing and is no step.
TaskRefused(c) ==
  /\ pc[c] = "idle"
  /\ game[c] # None => Unlocked(game[c].host)
  /\ Failed(c)
  /\ UNCHANGED <<named, game, redis, minted, known, eviction>>

\* GET; only a RedisGame has to be verified, everything else is answered.
\* Without a connection from the pool the request fails.
ExistsFetch(c, g) ==
  /\ pc[c] = "idle"
  /\ \/ /\ redis[g] \in Client
        /\ Goto(c, "exists")
        /\ job' = [job EXCEPT ![c] = [id |-> g, host |-> redis[g]]]
     \/ RedisMayFail /\ Failed(c)
  /\ UNCHANGED <<named, game, redis, minted, known, eviction>>

\* "Remove the game if the host has left but the service failed to remove
\* the game": the host is looked up in the sockets of this shard.
ExistsVerify(c) ==
  LET h == job[c].host
  IN /\ pc[c] = "exists"
     /\ Sees(c, h) => Unlocked(h)
     /\ \/ Sees(c, h) /\ UNCHANGED redis
        \/ /\ ~Sees(c, h)
           /\ \E ok \in RedisResult : Executes(Deleted(job[c].id), ok)
     /\ Answered(c)
     /\ UNCHANGED <<named, game, minted, known, eviction>>

(***************************************************************************)
(* The end of a connection.                                                *)
(***************************************************************************)
\* The client closes its socket and the reader's stream ends, or it sends
\* what cannot be parsed and on_message says should_close.
Disconnect(c) ==
  /\ pc[c] = "idle"
  /\ Failed(c)
  /\ UNCHANGED <<named, game, redis, minted, known, eviction>>

\* on_close with the guard of c held: the game, if any, is dropped.  Without
\* an entry its expect panics, and the connection is over.
OnClose(c) ==
  /\ pc[c] = "closing"
  /\ \/ /\ Listed(c) /\ game[c] = None
        /\ Done(c, "closed")
        /\ UNCHANGED <<game, redis, known>>
     \/ /\ entry[c] = "lost"
        /\ Done(c, "gone")
        /\ UNCHANGED <<game, redis, known>>
     \/ /\ game[c] # None /\ ~game[c].isHost
        /\ DropMember(c)
        /\ Done(c, "closed")
        /\ UNCHANGED <<redis>>
     \/ /\ Hosting(c)
        /\ DropHost(c, "ending")
  /\ UNCHANGED <<named, minted, eviction>>

\* sockets.remove
Remove(c) ==
  /\ pc[c] = "closed"
  /\ Goto(c, "gone")
  /\ UNCHANGED <<named, game, redis, minted, job, known, eviction>>

(***************************************************************************)
(* A registration that fails.  Its outcome shows nowhere else, so that it  *)
(* is open until the entry is removed, or until on_close, which comes      *)
(* after it.  The reader runs all the while.                               *)
(***************************************************************************)
\* register returned Err, and the entry is removed, its Game with it.
Evict(c) ==
  /\ RedisMayFail
  /\ Listed(c)
  /\ pc[c] \in {"idle", "claim", "host", "register", "install", "exists",
                "closing"}
  /\ entry' = [entry EXCEPT ![c] = IF game[c] = None THEN "lost"
                                                    ELSE "removed"]
  /\ orphan' = [orphan EXCEPT ![c] = game[c]]
  /\ game' = [game EXCEPT ![c] = None]
  /\ UNCHANGED <<pc, named, redis, minted, job, known>>

Buried(c) ==
  /\ entry' = [entry EXCEPT ![c] = "lost"]
  /\ orphan' = [orphan EXCEPT ![c] = None]

\* The Drop of that Game in accept_connection: of a member's,
OrphanLeaves(c) ==
  LET h == orphan[c].host
  IN /\ entry[c] = "removed" /\ ~orphan[c].isHost
     /\ Sees(c, h) => Unlocked(h)
     /\ game' = Unregister(c, h)
     /\ known' = HearLeave(c, h)
     /\ Buried(c)
     /\ UNCHANGED <<pc, named, redis, minted, job>>

\* of a host's up to the first DEL,
OrphanEnds(c) ==
  /\ entry[c] = "removed" /\ orphan[c].isHost
  /\ \E ok \in RedisResult :
       /\ Executes(Deleted(orphan[c].id), ok)
       /\ known' = HearShutdown(c, orphan[c], ok)
  /\ entry' = [entry EXCEPT ![c] = "ending"]
  /\ UNCHANGED <<pc, named, game, minted, job, orphan>>

\* and the second one, which ends accept_connection if it fails.
OrphanDelete(c) ==
  /\ entry[c] = "ending"
  /\ \E ok \in RedisResult : Executes(Deleted(orphan[c].id), ok)
  /\ Buried(c)
  /\ UNCHANGED <<pc, named, game, minted, job, known>>

(***************************************************************************)
(* The specification.                                                      *)
(***************************************************************************)
\* What a handler that has begun does next.
Continue(c) ==
  \/ JoinClaim(c) \/ JoinHost(c)
  \/ JoinRegister(c) \/ JoinTurnedAway(c) \/ JoinHostLeft(c)
  \/ JoinElsewhere(c) \/ JoinInstall(c)
  \/ ExistsVerify(c)
  \/ DropDelete(c) \/ OnClose(c) \/ Remove(c)

\* What a client may ask for next.
Request(c) ==
  \/ Connect(c) \/ Identify(c)
  \/ \E g \in GameId : Create(c, g) \/ JoinFetch(c, g) \/ JoinRefused(c, g)
                       \/ ExistsFetch(c, g)
  \/ Leave(c)
  \/ \E n \in 0..MaxTaskCount : Start(c, n)
  \/ StartRefused(c) \/ TaskRefused(c)
  \/ Disconnect(c)

\* Every connection is over; the listener keeps waiting.
Quiescent ==
  /\ \A c \in Client : pc[c] \in {"gone", "leaked"}
  /\ UNCHANGED vars

\* What accept_connection does meanwhile.
Registration(c) ==
  Evict(c) \/ OrphanLeaves(c) \/ OrphanEnds(c) \/ OrphanDelete(c)

Next ==
  \/ \E c \in Client : Request(c) \/ Continue(c) \/ Registration(c)
  \/ Quiescent

Spec == Init /\ [][Next]_vars

\* The runtime polls every ready task again, redis answers, and parking_lot
\* hands a lock over to a waiter eventually even when others keep taking it
\* (hence strong fairness).  Nothing obliges a client to send a request.
FairSpec == Spec /\ \A c \in Client : SF_vars(Continue(c))

(***************************************************************************)
(* Properties.                                                             *)
(***************************************************************************)
\* c is in the game of h: as its own Game says, the one its Join is about to
\* install, or the one whose Drop is under way since its entry was removed.  A
\* client evicted before it could install its Game is in none, and its
\* connection at an end.
Belongs(c, h) ==
  \/ pc[c] = "install" /\ job[c].host = h
  \/ game[c] # None /\ ~game[c].isHost /\ game[c].host = h
  \/ entry[c] = "removed" /\ ~orphan[c].isHost /\ orphan[c].host = h
  \/ entry[c] = "lost" /\ pc[c] \in {"closing", "gone"}

\* Every client in a host's connected_clients is a client that is in that
\* host's game.  The map entry of the member (its own Game) and the host's
\* roster are changed under two different guards, by Join, Leave, Start and
\* on_close, and by an eviction in between.
RosterIsReal == \A h \in Client : \A c \in Roster(h) : Belongs(c, h)

\* Who else is in the game that c hosts, or on the roster that c is on.
Fellows(c) ==
  UNION {(Roster(h) \cup {h}) \ {c} :
           h \in {x \in Client : c \in Roster(x) \/ (x = c /\ Hosting(c))}}

\* A client that applies the ConnectedClient, DisconnectedClient, Shutdown,
\* Leave and Shutdown-response messages in the order they were queued for it
\* knows exactly who else is in its game, and nobody when it is in none: in
\* particular a member whose game ended without it was told.
RosterAgrees == \A c \in Client : known[c] = Fellows(c)

\* A key names a client that hosts that very game, is about to, or, because a
\* redis call failed, was evicted or has its connection ending or over.  So
\* the clean-up in Join and Exists ("if the host has left but the service
\* failed to remove the game") is needed only after such a failure.
KeyNamesHost ==
  \A g \in GameId : redis[g] \in Client =>
    LET h == redis[g]
    IN \/ Hosting(h) /\ game[h].id = g
       \/ pc[h] = "host" /\ job[h].id = g
       \/ /\ RedisMayFail
          /\ \/ pc[h] \in {"leaving", "ending"} /\ job[h].id = g
             \/ pc[h] \in {"closing", "closed", "gone", "leaked"}
             \/ ~Listed(h)

\* In a started game everybody on the roster, and the host, has a task
\* progress to record results in, except in a game whose Start failed half
\* way; and that one's connection is on its way out.
HalfStartedIsClosing ==
  \A h \in Client :
    Hosting(h) /\ game[h].started
      => game[h].members \cup {h} \subseteq game[h].dealt \/ pc[h] = "closing"

\* Whose entry a handler of c may lock while it holds that of c: the host that
\* its Game names, or the Game that its Join is about to install.
LooksUp(c) ==
  IF pc[c] = "install" THEN {job[c].host}
  ELSE IF game[c] # None THEN {game[c].host} ELSE {}

\* Memberships outlive the games they belong to, and the client that hosted
\* one may be a member elsewhere by now; yet they never form a cycle: of any
\* clients, one has nobody else among them as its host.  So handlers that lock
\* the own entry and then that of the host cannot wait for one another in a
\* circle.
NoMembershipCycle ==
  \A S \in SUBSET Client : S # {} =>
    \E c \in S : LooksUp(c) \cap S \subseteq {c}

\* The lobby implements Sessions.
Phase(h) ==
  IF ~Hosting(h) THEN "none" ELSE IF game[h].public THEN "open" ELSE "started"

S == INSTANCE Sessions WITH
       phase <- [h \in Client |-> Phase(h)],
       members <- [h \in Client |-> Roster(h)]

ImplementsSessions == S!Spec

\* A Join or Exists that has begun is answered or fails, whatever the other
\* clients do to the host's entry meanwhile.
RequestsEnd ==
  \A c \in Client :
    pc[c] \in {"claim", "host", "register", "install", "exists", "leaving"}
      ~> pc[c] \in {"idle", "closing"}

\* A connection that is closing leaves the map of sockets, as long as redis
\* answers.
ClosingEnds == \A c \in Client : pc[c] = "closing" ~> pc[c] = "gone"

(***************************************************************************)
(* What the comments say and the code does not do.                         *)
(***************************************************************************)
\* "Check if the game has been initialized.  If it's not, set self as host":
\* two clients never host the same game.
OneHostPerGame ==
  \A h, k \in Client :
    Hosting(h) /\ Hosting(k) /\ game[h].id = game[k].id => h = k

\* "Remove the game if the host has left": Exists never removes the key of a
\* game whose host is in it.
ExistsSparesLiveGames ==
  [][\A c \in Client : \A g \in GameId :
       pc[c] = "exists" /\ pc'[c] = "idle"
       /\ redis[g] \in Client /\ redis'[g] = None
         => ~(Hosting(redis[g]) /\ game[redis[g]].id = g)]_vars
=============================================================================
