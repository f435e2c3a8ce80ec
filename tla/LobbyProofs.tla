---------------------------- MODULE LobbyProofs ----------------------------
(***************************************************************************)
(* Proofs about Lobby, for any set of clients, games, shards and tasks, and *)
(* whether or not redis fails.                                             *)
(***************************************************************************)
EXTENDS Lobby, TLAPS

(***************************************************************************)
(* The inductive invariant.                                                *)
(***************************************************************************)
\* Where a handler carries its locals.
Busy == {"claim", "host", "register", "install", "exists", "leaving", "ending"}

\* Where a client is certainly in no game.
Gameless ==
  {"away", "claim", "host", "register", "install", "leaving", "ending",
   "closed", "gone", "leaked"}

Typed == TypeOK /\ \A c \in Client : pc[c] \in Busy => job[c] \in Job

Vacant ==
  \A c \in Client : pc[c] \in Gameless \/ ~Listed(c) => game[c] = None

\* Where the reader of a client can be whose Game went with its entry.
Between == {"idle", "exists", "closing"}

\* An entry is removed only after a redis call failed; the Game in it, until
\* its Drop is over, is a member's on the shard of its host, or a host's.
Evicted ==
  \A c \in Client :
    /\ ~Listed(c) => RedisMayFail
    /\ entry[c] \in {"removed", "ending"} =>
         orphan[c] # None /\ pc[c] \in Between
    /\ entry[c] = "removed" /\ ~orphan[c].isHost =>
         ShardOf[orphan[c].host] = ShardOf[c]

\* What holds of a Game at rest, and of one about to be installed.
Shaped ==
  \A c \in Client :
    /\ game[c] # None =>
         /\ game[c].isHost => game[c].host = c
         /\ ~game[c].isHost => game[c].members = {}
         /\ game[c].public = ~game[c].started
         /\ ShardOf[game[c].host] = ShardOf[c]
    /\ pc[c] = "install" => ShardOf[job[c].host] = ShardOf[c]

IInv == Typed /\ Vacant /\ Evicted /\ Shaped /\ RosterIsReal

USE DEF Location, Busy, Gameless, Between, Entry, eviction

(***************************************************************************)
(* Lemmas about the helpers.                                               *)
(***************************************************************************)
\* A client that hosts has a Game, whose fields have their types.
LEMMA GameFields ==
  ASSUME TypeOK, NEW c \in Client, game[c] # None
  PROVE  /\ game[c] \in Game
         /\ game[c].isHost \in BOOLEAN
         /\ game[c].id \in GameId
         /\ game[c].host \in Client
         /\ game[c].members \in SUBSET Client
         /\ game[c].dealt \in SUBSET Client
<1>1. game[c] \in Game
  BY DEF TypeOK
<1> QED
  BY <1>1 DEF Game

\* Rosters hold clients.
LEMMA RosterTyped ==
  ASSUME TypeOK, NEW h \in Client
  PROVE  Roster(h) \subseteq Client
BY GameFields DEF Roster, Hosting

\* Game::new makes a Game.
LEMMA NewGameType ==
  ASSUME NEW b \in BOOLEAN, NEW g \in GameId, NEW h \in Client
  PROVE  NewGame(b, g, h) \in Game
BY DEF NewGame, Game

\* A game without c is a Game with its other fields.
LEMMA WithoutGame ==
  ASSUME TypeOK, NEW h \in Client, game[h] # None, NEW c \in Client
  PROVE  /\ Without(h, c) \in Game
         /\ Without(h, c).isHost = game[h].isHost
         /\ Without(h, c).id = game[h].id
         /\ Without(h, c).host = game[h].host
         /\ Without(h, c).public = game[h].public
         /\ Without(h, c).started = game[h].started
         /\ Without(h, c).members = game[h].members \ {c}
         /\ Without(h, c).dealt = game[h].dealt \ {c}
<1>1. game[h] \in Game
  BY GameFields
<1>2. /\ game[h].members \ {c} \in SUBSET Client
      /\ game[h].dealt \ {c} \in SUBSET Client
  BY <1>1 DEF Game
<1> QED
  BY <1>1, <1>2 DEF Without, Game

(***************************************************************************)
(* The steps of Next, by what they do to the games.                        *)
(***************************************************************************)
\* What a step does to the location and the locals of its own client only.
Moves(c, l, j) == Goto(c, l) /\ job' = [job EXCEPT ![c] = j]

\* The variables that Typed alone is about.
OthersTyped ==
  /\ named' \subseteq Client
  /\ redis' \in [GameId -> Client \cup {None, Unclaimed}]
  /\ minted' \subseteq GameId
  /\ known' \in [Client -> SUBSET Client]
  /\ entry' \in [Client -> Entry]
  /\ orphan' \in [Client -> Game \cup {None}]

\* A step that moves one client is typed when the target and the games are.
LEMMA MovesTyped ==
  ASSUME Typed, NEW c \in Client, NEW l \in Location, NEW j \in Job \cup {None},
         Moves(c, l, j), l \in Busy => j \in Job, OthersTyped,
         game' \in [Client -> Game \cup {None}]
  PROVE  /\ Typed'
         /\ pc'[c] = l /\ job'[c] = j
         /\ \A x \in Client \ {c} : pc'[x] = pc[x] /\ job'[x] = job[x]
BY DEF Typed, TypeOK, Moves, Goto, OthersTyped

\* Where a client may go while the games stay as they are: its game and its
\* entry decide.
MayGo(c, l) ==
  /\ l \in Gameless => game[c] = None
  /\ pc[c] = "install" => l = "closing" /\ entry[c] = "lost"
  /\ ~Listed(c) /\ l \notin Between => entry[c] = "lost"
  /\ entry[c] = "lost" /\ pc[c] \in {"closing", "gone"} => l \in {"closing", "gone"}

\* A step that leaves the games alone, and moves no client into the second
\* half of a Join, keeps the invariant.
LEMMA GamesKept ==
  ASSUME IInv, NEW c \in Client, NEW l \in Location \ {"install"},
         NEW j \in Job \cup {None},
         Moves(c, l, j), l \in Busy => j \in Job, OthersTyped,
         UNCHANGED <<game, eviction>>, MayGo(c, l)
  PROVE  IInv'
<1>1. /\ Typed'
      /\ pc'[c] = l
      /\ \A x \in Client \ {c} : pc'[x] = pc[x] /\ job'[x] = job[x]
  BY MovesTyped DEF IInv, Typed, TypeOK
<1>2. Vacant'
  BY <1>1 DEF IInv, Vacant, MayGo, Listed
<1>2a. Evicted'
  BY <1>1 DEF IInv, Evicted, MayGo, Listed
<1>3. Shaped'
  BY <1>1 DEF IInv, Shaped
<1>4. RosterIsReal'
  <2> SUFFICES ASSUME NEW h \in Client, NEW x \in Roster(h)'
               PROVE  Belongs(x, h)'
    BY DEF RosterIsReal
  <2>1. x \in Roster(h)
    BY DEF Roster, Hosting
  <2>2. x \in Client
    BY <2>1, RosterTyped DEF IInv, Typed
  <2>3. Belongs(x, h)
    BY <2>1 DEF IInv, RosterIsReal
  <2> QED
    BY <1>1, <2>2, <2>3 DEF Belongs, MayGo
<1> QED
  BY <1>1, <1>2, <1>2a, <1>3, <1>4 DEF IInv

\* A host's entry is there to be found by the clients of its shard.
LEMMA HostIsFound ==
  ASSUME IInv, NEW h \in Client, NEW c \in Client,
         Hosting(h), ShardOf[h] = ShardOf[c]
  PROVE  Sees(c, h)
BY DEF IInv, Vacant, Hosting, Sees

\* A client on a roster whose Join is over and whose entry is kept is in the
\* game of that host, on the same shard.
LEMMA Registered ==
  ASSUME IInv, NEW h \in Client, NEW c \in Client,
         c \in Roster(h), pc[c] # "install", Listed(c)
  PROVE  /\ game[c] # None /\ ~game[c].isHost /\ game[c].host = h
         /\ Hosting(h) /\ h # c
         /\ Sees(c, h)
<1>1. game[c] # None /\ ~game[c].isHost /\ game[c].host = h
  BY DEF IInv, RosterIsReal, Belongs, Listed
<1>2. Hosting(h)
  BY DEF Roster
<1>3. ShardOf[h] = ShardOf[c]
  BY <1>1 DEF IInv, Shaped
<1> QED
  BY <1>1, <1>2, <1>3, HostIsFound DEF Hosting

\* A client that joins, up to its register, is on no roster.
LEMMA NewcomerOnNone ==
  ASSUME IInv, NEW c \in Client, pc[c] \in {"claim", "host", "register"},
         NEW h \in Client
  PROVE  c \notin Roster(h)
<1>1. game[c] = None
  BY DEF IInv, Vacant
<1>2. entry[c] # "removed"
  BY DEF IInv, Evicted
<1> QED
  BY <1>1, <1>2 DEF IInv, RosterIsReal, Belongs

\* Unregistering a client from the only roster it is on takes it off that
\* roster, and does nothing else to the games.
LEMMA UnregisterEffect ==
  ASSUME IInv, NEW c \in Client, NEW h \in Client,
         \A x \in Client : c \in Roster(x) => x = h /\ OnRoster(c, h)
  PROVE  /\ Unregister(c, h) \in [Client -> Game \cup {None}]
         /\ Unregister(c, h)[c] = game[c]
         /\ \A x \in Client :
              \/ Unregister(c, h)[x] = game[x] /\ c \notin Roster(x)
              \/ /\ game[x] # None
                 /\ Unregister(c, h)[x] = Without(x, c)
<1>0. TypeOK
  BY DEF IInv, Typed
<1>1. CASE OnRoster(c, h)
  <2>1. game[h] # None /\ h # c
    BY <1>1 DEF OnRoster, Roster, Hosting
  <2>2. Without(h, c) \in Game
    BY <1>0, <2>1, WithoutGame
  <2>3. Unregister(c, h) = [game EXCEPT ![h] = Without(h, c)]
    BY <1>1 DEF Unregister
  <2>4. /\ Unregister(c, h) \in [Client -> Game \cup {None}]
        /\ Unregister(c, h)[h] = Without(h, c)
        /\ \A x \in Client \ {h} : Unregister(c, h)[x] = game[x]
    BY <1>0, <2>2, <2>3 DEF TypeOK
  <2> QED
    BY <2>1, <2>4
<1>2. CASE ~OnRoster(c, h)
  <2>1. Unregister(c, h) = game
    BY <1>2 DEF Unregister
  <2> QED
    BY <1>0, <1>2, <2>1 DEF TypeOK
<1> QED
  BY <1>1, <1>2

\* The member's Drop takes the client out of its game and off every roster,
\* and does nothing else to the games.
LEMMA DropMemberEffect ==
  ASSUME IInv, NEW c \in Client, DropMember(c),
         game[c] # None, ~game[c].isHost, pc[c] # "install"
  PROVE  /\ game' \in [Client -> Game \cup {None}]
         /\ game'[c] = None
         /\ \A x \in Client \ {c} :
              \/ game'[x] = game[x] /\ c \notin Roster(x)
              \/ game[x] # None /\ game'[x] = Without(x, c)
<1>0. TypeOK
  BY DEF IInv, Typed
<1>1. PICK h \in Client : h = game[c].host
  BY <1>0, GameFields
<1>2. \A x \in Client : c \in Roster(x) => x = h /\ OnRoster(c, h)
  <2>1. Listed(c)
    BY DEF IInv, Vacant
  <2> QED
    BY <1>1, <2>1, Registered DEF OnRoster
<1> DEFINE U == Unregister(c, h)
<1>3. /\ U \in [Client -> Game \cup {None}]
      /\ \A x \in Client :
           \/ U[x] = game[x] /\ c \notin Roster(x)
           \/ game[x] # None /\ U[x] = Without(x, c)
  BY <1>2, UnregisterEffect
<1>4. game' = [U EXCEPT ![c] = None]
  BY <1>1 DEF DropMember
<1> HIDE DEF U
<1> QED
  BY <1>3, <1>4

\* What taking c off the rosters leaves of the games of the others.
LEMMA OthersWithout ==
  ASSUME TypeOK, NEW c \in Client, NEW x \in Client,
         \/ game'[x] = game[x] /\ c \notin Roster(x)
         \/ game[x] # None /\ game'[x] = Without(x, c)
  PROVE  /\ game'[x] # None <=> game[x] # None
         /\ game[x] # None =>
              /\ game'[x].isHost = game[x].isHost
              /\ game'[x].host = game[x].host
              /\ game'[x].public = game[x].public
              /\ game'[x].started = game[x].started
              /\ game'[x].members \subseteq game[x].members
         /\ Roster(x)' = Roster(x) \ {c}
<1>1. CASE game'[x] = game[x] /\ c \notin Roster(x)
  BY <1>1 DEF Roster, Hosting
<1>2. CASE game[x] # None /\ game'[x] = Without(x, c)
  <2>1. /\ Without(x, c) \in Game
        /\ Without(x, c).isHost = game[x].isHost
        /\ Without(x, c).host = game[x].host
        /\ Without(x, c).public = game[x].public
        /\ Without(x, c).started = game[x].started
        /\ Without(x, c).members = game[x].members \ {c}
    BY <1>2, WithoutGame
  <2> QED
    BY <1>2, <2>1, LobbyConstants DEF Roster, Hosting
<1> QED
  BY <1>1, <1>2

\* The member's Drop, in whatever handler, keeps the invariant.
LEMMA DropMemberKeeps ==
  ASSUME IInv, NEW c \in Client, NEW l \in {"idle", "closing", "closed"},
         NEW j \in Job \cup {None}, Moves(c, l, j), OthersTyped,
         DropMember(c), game[c] # None, ~game[c].isHost, pc[c] # "install",
         UNCHANGED eviction
  PROVE  IInv'
<1>0. TypeOK
  BY DEF IInv, Typed
<1>1. /\ game' \in [Client -> Game \cup {None}]
      /\ game'[c] = None
      /\ \A x \in Client \ {c} :
           \/ game'[x] = game[x] /\ c \notin Roster(x)
           \/ game[x] # None /\ game'[x] = Without(x, c)
  BY DropMemberEffect
<1>2. /\ Typed'
      /\ pc'[c] = l
      /\ \A x \in Client \ {c} : pc'[x] = pc[x] /\ job'[x] = job[x]
  BY <1>1, MovesTyped DEF IInv
<1>3. \A x \in Client \ {c} :
        /\ game'[x] # None <=> game[x] # None
        /\ game[x] # None =>
             /\ game'[x].isHost = game[x].isHost
             /\ game'[x].host = game[x].host
             /\ game'[x].public = game[x].public
             /\ game'[x].started = game[x].started
             /\ game'[x].members \subseteq game[x].members
        /\ Roster(x)' = Roster(x) \ {c}
  BY <1>0, <1>1, OthersWithout
<1>l. Listed(c)
  BY DEF IInv, Vacant
<1>4. Roster(c)' = {}
  BY <1>1 DEF Roster, Hosting
<1>5. Vacant' /\ Evicted'
  BY <1>1, <1>2, <1>3, <1>l DEF IInv, Vacant, Evicted, Listed
<1>6. Shaped'
  <2> SUFFICES ASSUME NEW x \in Client
               PROVE  /\ game'[x] # None =>
                           /\ game'[x].isHost => game'[x].host = x
                           /\ ~game'[x].isHost => game'[x].members = {}
                           /\ game'[x].public = ~game'[x].started
                           /\ ShardOf[game'[x].host] = ShardOf[x]
                      /\ pc'[x] = "install" => ShardOf[job'[x].host] = ShardOf[x]
    BY DEF Shaped
  <2>1. CASE x = c
    BY <1>1, <1>2, <2>1
  <2>2. CASE x # c
    BY <1>2, <1>3, <2>2 DEF IInv, Shaped
  <2> QED
    BY <2>1, <2>2
<1>7. RosterIsReal'
  <2> SUFFICES ASSUME NEW h \in Client, NEW x \in Roster(h)'
               PROVE  Belongs(x, h)'
    BY DEF RosterIsReal
  <2>1. h # c /\ x \in Roster(h) \ {c}
    BY <1>3, <1>4
  <2>2. x \in Client
    BY <1>0, <2>1, RosterTyped
  <2>3. Belongs(x, h)
    BY <2>1 DEF IInv, RosterIsReal
  <2> QED
    BY <1>2, <1>3, <2>1, <2>2, <2>3 DEF Belongs
<1> QED
  BY <1>2, <1>5, <1>6, <1>7 DEF IInv

\* The host's Drop takes the host out of its game, with the whole roster, and
\* keeps the invariant.
LEMMA DropHostKeeps ==
  ASSUME IInv, NEW c \in Client, NEW l \in {"leaving", "ending"},
         DropHost(c, l), Hosting(c), pc[c] \in {"idle", "closing"},
         UNCHANGED <<named, minted, eviction>>
  PROVE  IInv'
<1>0. TypeOK
  BY DEF IInv, Typed
<1>1. game' = [game EXCEPT ![c] = None]
  BY DEF DropHost
<1>2. /\ game' \in [Client -> Game \cup {None}]
      /\ game'[c] = None
      /\ \A x \in Client \ {c} : game'[x] = game[x]
  BY <1>0, <1>1 DEF TypeOK
<1> DEFINE j == [id |-> game[c].id, host |-> c]
<1>3. j \in Job
  BY <1>0, GameFields DEF Job, Hosting
<1>4. OthersTyped
  <2>1. redis' \in [GameId -> Client \cup {None, Unclaimed}]
    BY <1>0, GameFields DEF TypeOK, DropHost, Executes, Deleted, Hosting
  <2>2. known' \in [Client -> SUBSET Client]
    BY <1>0 DEF TypeOK, DropHost, HearShutdown
  <2> QED
    BY <1>0, <2>1, <2>2 DEF TypeOK, OthersTyped
<1>5. /\ Typed'
      /\ pc'[c] = l
      /\ \A x \in Client \ {c} : pc'[x] = pc[x] /\ job'[x] = job[x]
  <2>1. Moves(c, l, j)
    BY DEF DropHost, Moves
  <2> HIDE DEF j
  <2> QED
    BY <1>2, <1>3, <1>4, <2>1, MovesTyped DEF IInv
<1>6. /\ Roster(c)' = {}
      /\ \A x \in Client \ {c} : Roster(x)' = Roster(x)
  BY <1>2 DEF Roster, Hosting
<1>l. Listed(c)
  BY DEF IInv, Vacant, Hosting
<1>7. Vacant' /\ Evicted'
  BY <1>2, <1>5, <1>l DEF IInv, Vacant, Evicted, Listed
<1>8. Shaped'
  BY <1>2, <1>5 DEF IInv, Shaped
<1>9. RosterIsReal'
  <2> SUFFICES ASSUME NEW h \in Client, NEW x \in Roster(h)'
               PROVE  Belongs(x, h)'
    BY DEF RosterIsReal
  <2>1. h # c /\ x \in Roster(h) /\ x \in Client
    BY <1>0, <1>6, RosterTyped
  <2>2. Belongs(x, h)
    BY <2>1 DEF IInv, RosterIsReal
  <2>3. x # c
    BY <1>l, <2>2 DEF Hosting, Listed, Belongs
  <2> QED
    BY <1>2, <1>5, <2>1, <2>2, <2>3 DEF Belongs
<1> QED
  BY <1>5, <1>7, <1>8, <1>9 DEF IInv

\* A client that gets a Game of its own at the end of a Join: as host it is
\* on no roster yet, as member on that of its host only.
LEMMA InstallKeeps ==
  ASSUME IInv, NEW c \in Client, NEW b \in BOOLEAN,
         pc[c] = IF b THEN "host" ELSE "install",
         Moves(c, "idle", None), OthersTyped, Listed(c), UNCHANGED eviction,
         NEW h \in Client, h = IF b THEN c ELSE job[c].host,
         game' = [game EXCEPT ![c] = NewGame(b, job[c].id, h)]
  PROVE  IInv'
<1>0. TypeOK /\ job[c] \in Job
  BY DEF IInv, Typed
<1> DEFINE G == NewGame(b, job[c].id, h)
<1>1. G \in Game
  BY <1>0, NewGameType DEF Job
<1>2. /\ G.isHost = b /\ G.host = h /\ G.members = {}
      /\ G.public = ~G.started
  BY DEF NewGame
<1>3. /\ game' \in [Client -> Game \cup {None}]
      /\ game'[c] = G /\ G # None
      /\ \A x \in Client \ {c} : game'[x] = game[x]
  BY <1>0, <1>1, LobbyConstants DEF TypeOK
<1> HIDE DEF G
<1>3a. ShardOf[h] = ShardOf[c]
  BY DEF IInv, Shaped
<1>4. /\ Typed'
      /\ pc'[c] = "idle"
      /\ \A x \in Client \ {c} : pc'[x] = pc[x] /\ job'[x] = job[x]
  BY <1>3, MovesTyped DEF IInv
<1>5. /\ Roster(c)' = {}
      /\ \A x \in Client \ {c} : Roster(x)' = Roster(x)
  BY <1>2, <1>3 DEF Roster, Hosting
<1>6. Vacant' /\ Evicted'
  BY <1>3, <1>4 DEF IInv, Vacant, Evicted, Listed
<1>7. Shaped'
  BY <1>2, <1>3, <1>3a, <1>4 DEF IInv, Shaped
<1>8. RosterIsReal'
  <2> SUFFICES ASSUME NEW k \in Client, NEW x \in Roster(k)'
               PROVE  Belongs(x, k)'
    BY DEF RosterIsReal
  <2>1. k # c /\ x \in Roster(k) /\ x \in Client
    BY <1>0, <1>5, RosterTyped
  <2>2. Belongs(x, k)
    BY <2>1 DEF IInv, RosterIsReal
  <2>3. CASE x = c
    <3>1. game[c] = None
      BY DEF IInv, Vacant
    <3>2. ~b /\ job[c].host = k
      BY <2>2, <2>3, <3>1 DEF Listed, Belongs
    <3> QED
      BY <1>2, <1>3, <2>3, <3>2 DEF Belongs
  <2>4. CASE x # c
    BY <1>3, <1>4, <2>1, <2>2, <2>4 DEF Belongs
  <2> QED
    BY <2>3, <2>4
<1> QED
  BY <1>4, <1>6, <1>7, <1>8 DEF IInv

\* Game::register: the newcomer, in no game yet, joins one roster, that of an
\* open game on its own shard.
LEMMA RegisterEffect ==
  ASSUME IInv, NEW c \in Client, JoinRegister(c)
  PROVE  /\ job[c].host \in Client /\ job[c].host # c
         /\ game' \in [Client -> Game \cup {None}]
         /\ Hosting(job[c].host) /\ game[job[c].host].public
         /\ game'[job[c].host] # None
         /\ game'[job[c].host].isHost
         /\ game'[job[c].host].host = game[job[c].host].host
         /\ game'[job[c].host].id = game[job[c].host].id
         /\ game'[job[c].host].public = game[job[c].host].public
         /\ game'[job[c].host].started = game[job[c].host].started
         /\ game'[job[c].host].members = game[job[c].host].members \cup {c}
         /\ \A x \in Client \ {job[c].host} : game'[x] = game[x]
<1> DEFINE h == job[c].host
<1>1. TypeOK /\ job[c] \in Job
  BY DEF IInv, Typed, JoinRegister
<1>2. h \in Client
  BY <1>1 DEF Job
<1>3. game[h] # None /\ game[h].isHost /\ game[h].public
  BY DEF JoinRegister, Admits
<1>4. h # c
  BY <1>3 DEF IInv, Vacant, JoinRegister
<1>5. game[h] \in Game
  BY <1>1, <1>2, <1>3, GameFields
<1> DEFINE H == [game[h] EXCEPT !.members = @ \cup {c}, !.dealt = @ \ {c}]
<1>6. /\ H \in Game
      /\ H.isHost = game[h].isHost /\ H.id = game[h].id
      /\ H.host = game[h].host /\ H.public = game[h].public
      /\ H.started = game[h].started /\ H.members = game[h].members \cup {c}
  BY <1>5 DEF Game
<1>7. game' = [game EXCEPT ![h] = H]
  BY <1>1, <1>2 DEF JoinRegister, TypeOK
<1> HIDE DEF H
<1>8. /\ game' \in [Client -> Game \cup {None}]
      /\ game'[h] = H
      /\ \A x \in Client \ {h} : game'[x] = game[x]
  BY <1>1, <1>2, <1>6, <1>7 DEF TypeOK
<1> QED
  BY <1>2, <1>3, <1>4, <1>6, <1>8, LobbyConstants DEF Hosting

LEMMA RegisterKeeps ==
  ASSUME IInv, NEW c \in Client, JoinRegister(c)
  PROVE  IInv'
<1>0. TypeOK /\ job[c] \in Job /\ pc[c] = "register"
  BY DEF IInv, Typed, JoinRegister
<1>h. PICK h \in Client : h = job[c].host
  BY RegisterEffect
<1>1. /\ h # c
      /\ game' \in [Client -> Game \cup {None}]
      /\ Hosting(h)
      /\ game'[h] # None /\ game'[h].isHost
      /\ game'[h].host = game[h].host
      /\ game'[h].public = game[h].public
      /\ game'[h].started = game[h].started
      /\ game'[h].members = game[h].members \cup {c}
      /\ \A x \in Client \ {h} : game'[x] = game[x]
  BY <1>h, RegisterEffect
<1>2. ShardOf[h] = ShardOf[c]
  BY <1>h DEF JoinRegister, Sees
<1>3. OthersTyped
  <2>1. known' \in [Client -> SUBSET Client]
    <3>1. Audience(h) \subseteq Client
      BY <1>0, <1>1, GameFields DEF Audience, Hosting
    <3> QED
      BY <1>0, <1>h, <3>1 DEF JoinRegister, TypeOK
  <2> QED
    BY <1>0, <2>1 DEF JoinRegister, TypeOK, OthersTyped
<1>4. job' = job /\ pc' = [pc EXCEPT ![c] = "install"]
  BY DEF JoinRegister, Goto
<1>5. /\ pc'[c] = "install"
      /\ \A x \in Client \ {c} : pc'[x] = pc[x]
  BY <1>0, <1>4 DEF TypeOK
<1>6. Typed'
  BY <1>0, <1>1, <1>3, <1>4 DEF IInv, Typed, TypeOK, OthersTyped, JoinRegister
<1>7. /\ Roster(h)' = Roster(h) \cup {c}
      /\ \A x \in Client \ {h} : Roster(x)' = Roster(x)
  BY <1>1 DEF Roster, Hosting
<1>8. game[c] = None
  BY <1>0 DEF IInv, Vacant
<1>8a. UNCHANGED eviction
  BY DEF JoinRegister
<1>9. Vacant' /\ Evicted'
  BY <1>0, <1>1, <1>5, <1>8, <1>8a DEF IInv, Vacant, Evicted, Hosting, Listed
<1>10. Shaped'
  <2> SUFFICES ASSUME NEW x \in Client
               PROVE  /\ game'[x] # None =>
                           /\ game'[x].isHost => game'[x].host = x
                           /\ ~game'[x].isHost => game'[x].members = {}
                           /\ game'[x].public = ~game'[x].started
                           /\ ShardOf[game'[x].host] = ShardOf[x]
                      /\ pc'[x] = "install" => ShardOf[job'[x].host] = ShardOf[x]
    BY DEF Shaped
  <2>1. CASE x = h
    BY <1>1, <1>4, <1>5, <2>1 DEF IInv, Shaped, Hosting
  <2>2. CASE x # h
    BY <1>h, <1>1, <1>2, <1>4, <1>5, <2>2 DEF IInv, Shaped
  <2> QED
    BY <2>1, <2>2
<1>11. RosterIsReal'
  <2> SUFFICES ASSUME NEW k \in Client, NEW x \in Roster(k)'
               PROVE  Belongs(x, k)'
    BY DEF RosterIsReal
  <2>1. CASE x \in Roster(k)
    <3>1. x \in Client
      BY <1>0, <2>1, RosterTyped
    <3>2. Belongs(x, k)
      BY <2>1 DEF IInv, RosterIsReal
    <3>3. x # c
      BY <1>0, <2>1, NewcomerOnNone
    <3> QED
      BY <1>1, <1>4, <1>5, <1>8a, <3>1, <3>2, <3>3 DEF Hosting, Belongs
  <2>2. CASE x \notin Roster(k)
    BY <1>h, <1>4, <1>5, <1>7, <2>2 DEF Belongs
  <2> QED
    BY <2>1, <2>2
<1> QED
  BY <1>6, <1>9, <1>10, <1>11 DEF IInv

\* Game::start changes no roster.
LEMMA StartEffect ==
  ASSUME IInv, NEW c \in Client, NEW n \in 0..MaxTaskCount, Start(c, n)
  PROVE  /\ game' \in [Client -> Game \cup {None}]
         /\ Hosting(c) /\ game[c].public
         /\ game'[c] # None /\ game'[c].isHost
         /\ game'[c].host = game[c].host
         /\ game'[c].id = game[c].id
         /\ game'[c].members = game[c].members
         /\ game'[c].public = FALSE /\ game'[c].started = TRUE
         /\ game'[c].dealt = IF Chosen(n) = n THEN game[c].members \cup {c}
                                              ELSE game[c].dealt
         /\ \A x \in Client \ {c} : game'[x] = game[x]
<1>1. TypeOK
  BY DEF IInv, Typed
<1>2. Hosting(c) /\ ~game[c].started
  BY DEF Start
<1>3. game[c] \in Game
  BY <1>1, <1>2, GameFields DEF Hosting
<1>4. Chosen(n) \in Nat
  BY LobbyConstants DEF Chosen
<1>5. game[c].public
  BY <1>2, <1>3 DEF IInv, Shaped, Hosting, Game
<1> DEFINE D == IF Chosen(n) = n THEN game[c].members \cup {c}
                                 ELSE game[c].dealt
<1> DEFINE H == [game[c] EXCEPT !.public = FALSE, !.started = TRUE,
                                !.tasks = Chosen(n), !.dealt = D]
<1>6. D \in SUBSET Client
  BY <1>3 DEF Game
<1>7. game' = [game EXCEPT ![c] = H]
  BY <1>1, <1>3 DEF Start, TypeOK, Game
<1> HIDE DEF D
<1>8. /\ H \in Game
      /\ H.isHost = game[c].isHost /\ H.id = game[c].id
      /\ H.host = game[c].host /\ H.members = game[c].members
      /\ H.public = FALSE /\ H.started = TRUE /\ H.dealt = D
  BY <1>3, <1>4, <1>6 DEF Game
<1> HIDE DEF H
<1>9. /\ game' \in [Client -> Game \cup {None}]
      /\ game'[c] = H
      /\ \A x \in Client \ {c} : game'[x] = game[x]
  BY <1>1, <1>7, <1>8 DEF TypeOK
<1> QED
  BY <1>2, <1>5, <1>8, <1>9, LobbyConstants DEF Hosting, D

LEMMA StartKeeps ==
  ASSUME IInv, NEW c \in Client, NEW n \in 0..MaxTaskCount, Start(c, n)
  PROVE  IInv'
<1>0. TypeOK /\ pc[c] = "idle"
  BY DEF IInv, Typed, Start
<1>1. /\ game' \in [Client -> Game \cup {None}]
      /\ Hosting(c)
      /\ game'[c] # None /\ game'[c].isHost
      /\ game'[c].host = game[c].host
      /\ game'[c].members = game[c].members
      /\ game'[c].public = FALSE /\ game'[c].started = TRUE
      /\ \A x \in Client \ {c} : game'[x] = game[x]
  BY StartEffect
<1>2. PICK l \in {"idle", "closing"} : Moves(c, l, None)
  BY DEF Start, Answered, Failed, Done, Moves
<1>3. OthersTyped /\ UNCHANGED eviction
  BY <1>0 DEF TypeOK, OthersTyped, Start
<1>l. Listed(c)
  BY <1>1 DEF IInv, Vacant, Hosting
<1>4. /\ Typed'
      /\ pc'[c] = l
      /\ \A x \in Client \ {c} : pc'[x] = pc[x] /\ job'[x] = job[x]
  BY <1>1, <1>2, <1>3, MovesTyped DEF IInv
<1>5. \A x \in Client : Roster(x)' = Roster(x)
  BY <1>1 DEF Roster, Hosting
<1>6. Vacant' /\ Evicted'
  BY <1>1, <1>2, <1>3, <1>4, <1>l DEF IInv, Vacant, Evicted, Listed
<1>7. Shaped'
  <2> SUFFICES ASSUME NEW x \in Client
               PROVE  /\ game'[x] # None =>
                           /\ game'[x].isHost => game'[x].host = x
                           /\ ~game'[x].isHost => game'[x].members = {}
                           /\ game'[x].public = ~game'[x].started
                           /\ ShardOf[game'[x].host] = ShardOf[x]
                      /\ pc'[x] = "install" => ShardOf[job'[x].host] = ShardOf[x]
    BY DEF Shaped
  <2>1. CASE x = c
    BY <1>1, <1>2, <1>4, <2>1 DEF IInv, Shaped, Hosting
  <2>2. CASE x # c
    BY <1>1, <1>4, <2>2 DEF IInv, Shaped
  <2> QED
    BY <2>1, <2>2
<1>8. RosterIsReal'
  <2> SUFFICES ASSUME NEW h \in Client, NEW x \in Roster(h)'
               PROVE  Belongs(x, h)'
    BY DEF RosterIsReal
  <2>1. x \in Roster(h) /\ x \in Client
    BY <1>0, <1>5, RosterTyped
  <2>2. Belongs(x, h)
    BY <2>1 DEF IInv, RosterIsReal
  <2>3. x # c
    BY <1>0, <1>1, <1>l, <2>2 DEF Hosting, Listed, Belongs
  <2> QED
    BY <1>1, <1>3, <1>4, <2>1, <2>2, <2>3 DEF Belongs
<1> QED
  BY <1>4, <1>6, <1>7, <1>8 DEF IInv

(***************************************************************************)
(* The invariant holds initially and after every step.                     *)
(***************************************************************************)
LEMMA InitKeeps == Init => IInv
<1> SUFFICES ASSUME Init PROVE IInv
  OBVIOUS
<1>1. Typed
  BY DEF Init, Typed, TypeOK
<1>2. Vacant /\ Evicted /\ Shaped
  BY DEF Init, Vacant, Evicted, Shaped, Listed
<1>3. RosterIsReal
  BY DEF Init, RosterIsReal, Roster, Hosting
<1> QED
  BY <1>1, <1>2, <1>3 DEF IInv

\* The Drop of a member, in a Leave, a Start or on_close.
LEMMA MemberLeaves ==
  ASSUME IInv, NEW c \in Client, NEW l \in {"idle", "closing", "closed"},
         DropMember(c), game[c] # None, ~game[c].isHost,
         pc[c] \in {"idle", "closing"},
         \/ Done(c, l)
         \/ l = pc[c] /\ UNCHANGED <<pc, job>>,
         UNCHANGED <<named, redis, minted, eviction>>
  PROVE  IInv'
<1>1. TypeOK
  BY DEF IInv, Typed
<1>2. PICK j \in Job \cup {None} : Moves(c, l, j)
  BY <1>1 DEF TypeOK, Moves, Goto, Done
<1>3. OthersTyped
  <2>1. known' \in [Client -> SUBSET Client]
    BY <1>1 DEF TypeOK, DropMember, HearLeave
  <2> QED
    BY <1>1, <2>1 DEF TypeOK, OthersTyped
<1> QED
  BY <1>2, <1>3, DropMemberKeeps

LEMMA RequestKeeps ==
  ASSUME IInv, NEW c \in Client, Request(c)
  PROVE  IInv'
<1>0. TypeOK
  BY DEF IInv, Typed
<1>1. CASE Connect(c)
  <2>1. Moves(c, "idle", job[c]) /\ OthersTyped
    BY <1>0, <1>1 DEF Connect, Moves, TypeOK, OthersTyped
  <2> QED
    BY <1>0, <1>1, <2>1, GamesKept DEF MayGo, Listed, Connect, TypeOK
<1>2. CASE Identify(c)
  <2>1. Moves(c, "idle", job[c]) /\ OthersTyped
    BY <1>0, <1>2 DEF Identify, Moves, Goto, TypeOK, OthersTyped
  <2> QED
    BY <1>0, <1>2, <2>1, GamesKept DEF MayGo, Listed, Identify, TypeOK
<1>3. ASSUME NEW g \in GameId, Create(c, g)
      PROVE  IInv'
  <2>1. PICK l \in {"idle", "closing"} : Moves(c, l, None)
    BY <1>3 DEF Create, Answered, Failed, Done, Moves
  <2>2. OthersTyped
    BY <1>0, <1>3 DEF Create, Executes, TypeOK, OthersTyped
  <2> QED
    BY <1>3, <2>1, <2>2, GamesKept DEF MayGo, Listed, Create
<1>4. ASSUME NEW g \in GameId, JoinFetch(c, g)
      PROVE  IInv'
  <2>1. PICK l \in {"claim", "register"}, j \in Job : Moves(c, l, j)
    BY <1>0, <1>4 DEF JoinFetch, MayJoin, Moves, Job, TypeOK
  <2>2. OthersTyped
    BY <1>0, <1>4 DEF JoinFetch, TypeOK, OthersTyped
  <2> QED
    BY <1>4, <2>1, <2>2, GamesKept DEF MayGo, Listed, JoinFetch, MayJoin
<1>5. ASSUME NEW g \in GameId, JoinRefused(c, g)
      PROVE  IInv'
  <2>1. Moves(c, "closing", None) /\ OthersTyped
    BY <1>0, <1>5 DEF JoinRefused, Failed, Done, Moves, TypeOK, OthersTyped
  <2> QED
    BY <1>5, <2>1, GamesKept DEF MayGo, Listed, JoinRefused
<1>6. ASSUME NEW g \in GameId, ExistsFetch(c, g)
      PROVE  IInv'
  <2>1. OthersTyped
    BY <1>0, <1>6 DEF ExistsFetch, TypeOK, OthersTyped
  <2>2. CASE redis[g] \in Client
             /\ Moves(c, "exists", [id |-> g, host |-> redis[g]])
    BY <1>6, <2>1, <2>2, GamesKept DEF MayGo, Listed, ExistsFetch, Job
  <2>3. CASE Moves(c, "closing", None)
    BY <1>6, <2>1, <2>3, GamesKept DEF MayGo, Listed, ExistsFetch
  <2> QED
    BY <1>6, <2>2, <2>3 DEF ExistsFetch, Failed, Done, Moves
<1>7. CASE Leave(c)
  <2>1. CASE game[c] = None
    <3>1. Moves(c, "closing", None) /\ OthersTyped /\ UNCHANGED game
      BY <1>0, <1>7, <2>1
      DEF Leave, Hosting, Failed, Done, Moves, TypeOK, OthersTyped
    <3> QED
      BY <1>7, <2>1, <3>1, GamesKept DEF MayGo, Listed, Leave
  <2>2. CASE game[c] # None /\ ~game[c].isHost
    <3>1. /\ DropMember(c) /\ pc[c] = "idle"
          /\ UNCHANGED <<pc, job, named, redis, minted, eviction>>
      BY <1>7, <2>2 DEF Leave, Hosting
    <3> QED
      BY <2>2, <3>1, MemberLeaves
  <2>3. CASE Hosting(c)
    <3>1. /\ DropHost(c, "leaving") /\ pc[c] = "idle"
          /\ UNCHANGED <<named, minted, eviction>>
      BY <1>7, <2>3 DEF Leave, Hosting
    <3> QED
      BY <2>3, <3>1, DropHostKeeps
  <2> QED
    BY <2>1, <2>2, <2>3 DEF Hosting
<1>8. ASSUME NEW n \in 0..MaxTaskCount, Start(c, n)
      PROVE  IInv'
  BY <1>8, StartKeeps
<1>9. CASE StartRefused(c)
  <2>1. CASE UNCHANGED <<game, known>>
    <3>1. Moves(c, "closing", None) /\ OthersTyped
      BY <1>0, <1>9, <2>1
      DEF StartRefused, Failed, Done, Moves, TypeOK, OthersTyped
    <3> QED
      BY <1>9, <2>1, <3>1, GamesKept DEF MayGo, Listed, StartRefused
  <2>2. CASE game[c] # None /\ ~game[c].isHost /\ DropMember(c)
    <3>1. /\ Done(c, "closing") /\ pc[c] = "idle"
          /\ UNCHANGED <<named, redis, minted, eviction>>
      BY <1>9 DEF StartRefused, Failed
    <3> QED
      BY <2>2, <3>1, MemberLeaves
  <2> QED
    BY <1>9, <2>1, <2>2 DEF StartRefused
<1>10. CASE TaskRefused(c)
  <2>1. Moves(c, "closing", None) /\ OthersTyped
    BY <1>0, <1>10 DEF TaskRefused, Failed, Done, Moves, TypeOK, OthersTyped
  <2> QED
    BY <1>10, <2>1, GamesKept DEF MayGo, Listed, TaskRefused
<1>11. CASE Disconnect(c)
  <2>1. Moves(c, "closing", None) /\ OthersTyped
    BY <1>0, <1>11 DEF Disconnect, Failed, Done, Moves, TypeOK, OthersTyped
  <2> QED
    BY <1>11, <2>1, GamesKept DEF MayGo, Listed, Disconnect
<1> QED
  BY <1>1, <1>2, <1>3, <1>4, <1>5, <1>6, <1>7, <1>8, <1>9, <1>10, <1>11
  DEF Request

LEMMA ContinueKeeps ==
  ASSUME IInv, NEW c \in Client, Continue(c)
  PROVE  IInv'
<1>0. TypeOK /\ (pc[c] \in Busy => job[c] \in Job)
  BY DEF IInv, Typed
<1>1. CASE JoinClaim(c)
  <2>1. PICK l \in {"host", "closing"}, j \in Job \cup {None} :
          Moves(c, l, j) /\ (l = "host" => j \in Job)
    BY <1>0, <1>1 DEF JoinClaim, Failed, Done, Moves, Goto, TypeOK
  <2>r. redis' \in [GameId -> Client \cup {None, Unclaimed}]
    <3>1. redis' \in {redis, [redis EXCEPT ![job[c].id] = c]}
      BY <1>1 DEF JoinClaim, Executes
    <3> QED
      BY <1>0, <3>1 DEF TypeOK
  <2>u. pc[c] = "claim" /\ UNCHANGED <<named, game, minted, known, eviction>>
    BY <1>1 DEF JoinClaim
  <2>2. OthersTyped /\ pc[c] = "claim" /\ UNCHANGED game
    BY <1>0, <2>r, <2>u DEF TypeOK, OthersTyped
  <2>3. game[c] = None /\ MayGo(c, "host")
    BY <1>0, <2>2 DEF IInv, Vacant, Evicted, MayGo, Listed, TypeOK
  <2> QED
    BY <2>1, <2>2, <2>3, <2>u, GamesKept DEF MayGo
<1>2. CASE JoinHost(c)
  <2>1. OthersTyped /\ UNCHANGED eviction /\ pc[c] = "host"
    BY <1>0, <1>2 DEF JoinHost, TypeOK, OthersTyped
  <2>2. CASE Listed(c)
    <3>1. /\ Moves(c, "idle", None)
          /\ game' = [game EXCEPT ![c] = NewGame(TRUE, job[c].id, c)]
      BY <1>2, <2>2 DEF JoinHost, Install, Answered, Done, Moves
    <3> QED
      BY <2>1, <2>2, <3>1, InstallKeeps
  <2>3. CASE ~Listed(c)
    <3>1. Moves(c, "closing", None) /\ UNCHANGED game
      BY <1>2, <2>3 DEF JoinHost, Install, Answered, Done, Moves
    <3> QED
      BY <2>1, <2>3, <3>1, GamesKept DEF MayGo
  <2> QED
    BY <2>2, <2>3
<1>3. CASE JoinRegister(c)
  BY <1>3, RegisterKeeps
<1>4. CASE JoinTurnedAway(c)
  <2>1. PICK l \in {"idle", "closing"} : Moves(c, l, None) /\ OthersTyped
    BY <1>0, <1>4 DEF JoinTurnedAway, Answered, Done, Moves, TypeOK, OthersTyped
  <2> QED
    BY <1>4, <2>1, GamesKept DEF MayGo, Listed, JoinTurnedAway
<1>5. CASE JoinHostLeft(c)
  <2>1. Moves(c, "closing", None)
    BY <1>5 DEF JoinHostLeft, Failed, Done, Moves
  <2>2. OthersTyped
    BY <1>0, <1>5 DEF JoinHostLeft, Executes, Deleted, TypeOK, OthersTyped
  <2> QED
    BY <1>5, <2>1, <2>2, GamesKept DEF MayGo, Listed, JoinHostLeft
<1>6. CASE JoinElsewhere(c)
  <2>1. Moves(c, "closing", None) /\ OthersTyped
    BY <1>0, <1>6 DEF JoinElsewhere, Failed, Done, Moves, TypeOK, OthersTyped
  <2> QED
    BY <1>6, <2>1, GamesKept DEF MayGo, Listed, JoinElsewhere
<1>7. CASE JoinInstall(c)
  <2>1. /\ OthersTyped /\ UNCHANGED eviction /\ pc[c] = "install"
        /\ job[c].host \in Client
    BY <1>0, <1>7 DEF JoinInstall, TypeOK, OthersTyped, Job
  <2>2. CASE Listed(c)
    <3>1. /\ Moves(c, "idle", None)
          /\ game' = [game EXCEPT ![c] =
                        NewGame(FALSE, job[c].id, job[c].host)]
      BY <1>7, <2>2 DEF JoinInstall, Install, Answered, Done, Moves
    <3> QED
      BY <2>1, <2>2, <3>1, InstallKeeps
  <2>3. CASE ~Listed(c)
    <3>1. Moves(c, "closing", None) /\ UNCHANGED game
      BY <1>7, <2>3 DEF JoinInstall, Install, Answered, Done, Moves
    <3>2. entry[c] = "lost"
      BY <1>0, <2>1, <2>3 DEF IInv, Evicted, Listed, TypeOK
    <3> QED
      BY <2>1, <2>3, <3>1, <3>2, GamesKept DEF MayGo
  <2> QED
    BY <2>2, <2>3
<1>8. CASE ExistsVerify(c)
  <2>1. PICK l \in {"idle", "closing"} : Moves(c, l, None)
    BY <1>8 DEF ExistsVerify, Answered, Done, Moves
  <2>2. OthersTyped
    BY <1>0, <1>8 DEF ExistsVerify, Executes, Deleted, TypeOK, OthersTyped
  <2> QED
    BY <1>8, <2>1, <2>2, GamesKept DEF MayGo, Listed, ExistsVerify
<1>9. CASE DropDelete(c)
  <2>1. PICK l \in {"idle", "closing", "closed", "leaked"} : Moves(c, l, None)
    BY <1>9 DEF DropDelete, AfterDrop, Done, Moves
  <2>2. OthersTyped
    BY <1>0, <1>9 DEF DropDelete, Executes, Deleted, TypeOK, OthersTyped
  <2>3. game[c] = None /\ (~Listed(c) => entry[c] = "lost")
    BY <1>0, <1>9 DEF IInv, Vacant, Evicted, Listed, DropDelete, TypeOK
  <2> QED
    BY <1>9, <2>1, <2>2, <2>3, GamesKept DEF MayGo, DropDelete
<1>10. CASE OnClose(c)
  <2>1. CASE game[c] = None
    <3>1. /\ pc[c] = "closing" /\ OthersTyped /\ UNCHANGED <<game, eviction>>
          /\ \/ Listed(c) /\ Moves(c, "closed", None)
             \/ entry[c] = "lost" /\ Moves(c, "gone", None)
      BY <1>0, <1>10, <2>1
      DEF OnClose, Hosting, Done, Moves, TypeOK, OthersTyped
    <3> QED
      BY <2>1, <3>1, GamesKept DEF MayGo, Listed
  <2>2. CASE game[c] # None /\ ~game[c].isHost
    <3>1. Listed(c)
      BY <2>2 DEF IInv, Vacant
    <3>2. /\ DropMember(c) /\ pc[c] = "closing" /\ Done(c, "closed")
          /\ UNCHANGED <<named, redis, minted, eviction>>
      BY <1>10, <2>2, <3>1 DEF OnClose, Hosting, Listed
    <3> QED
      BY <2>2, <3>2, MemberLeaves
  <2>3. CASE Hosting(c)
    <3>1. Listed(c)
      BY <2>3 DEF IInv, Vacant, Hosting
    <3>2. /\ DropHost(c, "ending") /\ pc[c] = "closing"
          /\ UNCHANGED <<named, minted, eviction>>
      BY <1>10, <2>3, <3>1 DEF OnClose, Hosting, Listed
    <3> QED
      BY <2>3, <3>2, DropHostKeeps
  <2> QED
    BY <2>1, <2>2, <2>3 DEF Hosting
<1>11. CASE Remove(c)
  <2>1. Moves(c, "gone", job[c]) /\ OthersTyped
    BY <1>0, <1>11 DEF Remove, Moves, TypeOK, OthersTyped
  <2>2. game[c] = None /\ (~Listed(c) => entry[c] = "lost")
    BY <1>0, <1>11 DEF IInv, Vacant, Evicted, Listed, Remove, TypeOK
  <2> QED
    BY <1>0, <1>11, <2>1, <2>2, GamesKept DEF MayGo, Remove, TypeOK
<1> QED
  BY <1>1, <1>2, <1>3, <1>4, <1>5, <1>6, <1>7, <1>8, <1>9, <1>10, <1>11
  DEF Continue

\* The Drop of a member's Game that went with its entry takes the client off
\* every roster, and does nothing else to the games.
LEMMA OrphanLeavesEffect ==
  ASSUME IInv, NEW c \in Client, OrphanLeaves(c)
  PROVE  /\ game' \in [Client -> Game \cup {None}]
         /\ game[c] = None /\ game'[c] = None
         /\ pc[c] \in Between /\ RedisMayFail
         /\ \A x \in Client :
              \/ game'[x] = game[x] /\ c \notin Roster(x)
              \/ game[x] # None /\ game'[x] = Without(x, c)
         /\ \E h \in Client : \A x \in Client : c \in Roster(x) => x = h
<1>0. TypeOK
  BY DEF IInv, Typed
<1>1. orphan[c] \in Game
  BY <1>0 DEF OrphanLeaves, IInv, Evicted, TypeOK
<1>2. PICK h \in Client : h = orphan[c].host
  BY <1>1 DEF Game
<1>3. /\ entry[c] = "removed" /\ ~orphan[c].isHost
      /\ game' = Unregister(c, h)
  BY <1>2 DEF OrphanLeaves
<1>4. /\ pc[c] \in Between /\ RedisMayFail /\ ShardOf[h] = ShardOf[c]
      /\ game[c] = None
  BY <1>2, <1>3 DEF IInv, Evicted, Vacant, Listed
<1>5. \A x \in Client : c \in Roster(x) => x = h /\ OnRoster(c, h)
  <2> SUFFICES ASSUME NEW x \in Client, c \in Roster(x)
               PROVE  x = h /\ OnRoster(c, h)
    OBVIOUS
  <2>1. x = h
    BY <1>2, <1>3, <1>4 DEF IInv, RosterIsReal, Belongs
  <2>2. Hosting(h)
    BY <2>1 DEF Roster
  <2> QED
    BY <1>4, <2>1, <2>2, HostIsFound DEF OnRoster, Hosting
<1>6. /\ game' \in [Client -> Game \cup {None}]
      /\ game'[c] = game[c]
      /\ \A x \in Client :
           \/ game'[x] = game[x] /\ c \notin Roster(x)
           \/ game[x] # None /\ game'[x] = Without(x, c)
  BY <1>3, <1>5, UnregisterEffect
<1> QED
  BY <1>4, <1>5, <1>6

\* What accept_connection does to the entry of a client whose registration
\* failed, and to the Game in it, keeps the invariant.
LEMMA RegistrationKeeps ==
  ASSUME IInv, NEW c \in Client, Registration(c)
  PROVE  IInv'
<1>0. TypeOK
  BY DEF IInv, Typed
<1>1. CASE Evict(c)
  <2>1. /\ game' = [game EXCEPT ![c] = None]
        /\ entry' = [entry EXCEPT ![c] = IF game[c] = None THEN "lost"
                                                          ELSE "removed"]
        /\ orphan' = [orphan EXCEPT ![c] = game[c]]
        /\ UNCHANGED <<pc, named, redis, minted, job, known>>
        /\ RedisMayFail /\ Listed(c)
    BY <1>1 DEF Evict
  <2>2. /\ game'[c] = None /\ orphan'[c] = game[c]
        /\ entry'[c] = IF game[c] = None THEN "lost" ELSE "removed"
        /\ \A x \in Client \ {c} :
             game'[x] = game[x] /\ entry'[x] = entry[x] /\ orphan'[x] = orphan[x]
    BY <1>0, <2>1 DEF TypeOK
  <2>3. Typed'
    BY <1>0, <2>1 DEF IInv, Typed, TypeOK
  <2>4. game[c] # None => pc[c] \in Between
    BY <1>1 DEF Evict, IInv, Vacant
  <2>5. Vacant' /\ Shaped'
    BY <2>1, <2>2 DEF IInv, Vacant, Shaped, Listed
  <2>6. Evicted'
    BY <2>1, <2>2, <2>4 DEF IInv, Evicted, Shaped, Listed
  <2>7. RosterIsReal'
    <3> SUFFICES ASSUME NEW h \in Client, NEW x \in Roster(h)'
                 PROVE  Belongs(x, h)'
      BY DEF RosterIsReal
    <3>1. h # c /\ x \in Roster(h)
      BY <2>2 DEF Roster, Hosting
    <3>2. x \in Client /\ Belongs(x, h)
      BY <1>0, <3>1, RosterTyped DEF IInv, RosterIsReal
    <3> QED
      BY <2>1, <2>2, <3>2 DEF Belongs, Listed
  <2> QED
    BY <2>3, <2>5, <2>6, <2>7 DEF IInv
<1>2. CASE OrphanLeaves(c)
  <2>2. /\ entry[c] = "removed" /\ ~orphan[c].isHost
        /\ known' = HearLeave(c, orphan[c].host)
        /\ entry' = [entry EXCEPT ![c] = "lost"]
        /\ orphan' = [orphan EXCEPT ![c] = None]
        /\ UNCHANGED <<pc, named, redis, minted, job>>
    BY <1>2 DEF OrphanLeaves, Buried
  <2>3. /\ game' \in [Client -> Game \cup {None}]
        /\ game'[c] = None
        /\ pc[c] \in Between /\ RedisMayFail
        /\ \A x \in Client :
             \/ game'[x] = game[x] /\ c \notin Roster(x)
             \/ game[x] # None /\ game'[x] = Without(x, c)
    BY <1>2, OrphanLeavesEffect
  <2>6. \A x \in Client :
          /\ game'[x] # None <=> game[x] # None
          /\ game[x] # None =>
               /\ game'[x].isHost = game[x].isHost
               /\ game'[x].host = game[x].host
               /\ game'[x].public = game[x].public
               /\ game'[x].started = game[x].started
               /\ game'[x].members \subseteq game[x].members
          /\ Roster(x)' = Roster(x) \ {c}
    BY <1>0, <2>3, OthersWithout
  <2>7. /\ entry'[c] = "lost" /\ orphan'[c] = None
        /\ \A x \in Client \ {c} :
             entry'[x] = entry[x] /\ orphan'[x] = orphan[x]
    BY <1>0, <2>2 DEF TypeOK
  <2>8. Typed'
    <3>1. known' \in [Client -> SUBSET Client]
      BY <1>0, <2>2 DEF TypeOK, HearLeave
    <3> QED
      BY <1>0, <2>2, <2>3, <3>1 DEF IInv, Typed, TypeOK
  <2>9. Vacant' /\ Evicted'
    BY <2>2, <2>3, <2>6, <2>7 DEF IInv, Vacant, Evicted, Listed
  <2>10. Shaped'
    BY <2>2, <2>6 DEF IInv, Shaped
  <2>11. RosterIsReal'
    <3> SUFFICES ASSUME NEW k \in Client, NEW x \in Roster(k)'
                 PROVE  Belongs(x, k)'
      BY DEF RosterIsReal
    <3>1. x \in Roster(k) /\ x \in Client \ {c}
      BY <1>0, <2>6, RosterTyped
    <3>2. Belongs(x, k)
      BY <3>1 DEF IInv, RosterIsReal
    <3> QED
      BY <2>2, <2>6, <2>7, <3>1, <3>2 DEF Belongs
  <2> QED
    BY <2>8, <2>9, <2>10, <2>11 DEF IInv
<1>3. CASE OrphanEnds(c) \/ OrphanDelete(c)
  <2>1. /\ \/ entry[c] = "removed" /\ orphan[c].isHost
           \/ entry[c] = "ending"
        /\ UNCHANGED <<pc, named, game, minted, job>>
        /\ \/ entry' = [entry EXCEPT ![c] = "ending"] /\ orphan' = orphan
           \/ /\ entry' = [entry EXCEPT ![c] = "lost"]
              /\ orphan' = [orphan EXCEPT ![c] = None]
    BY <1>3 DEF OrphanEnds, OrphanDelete, Buried
  <2>2. orphan[c] \in Game /\ orphan[c].id \in GameId
    <3>1. orphan[c] \in Game
      BY <1>0, <2>1 DEF IInv, Evicted, TypeOK
    <3> QED
      BY <3>1 DEF Game
  <2>3. redis' \in [GameId -> Client \cup {None, Unclaimed}]
    BY <1>0, <1>3, <2>2
    DEF OrphanEnds, OrphanDelete, Executes, Deleted, TypeOK
  <2>4. known' \in [Client -> SUBSET Client]
    BY <1>0, <1>3 DEF OrphanEnds, OrphanDelete, HearShutdown, TypeOK
  <2>5. Typed'
    BY <1>0, <2>1, <2>3, <2>4 DEF IInv, Typed, TypeOK
  <2>6. /\ entry'[c] \in {"ending", "lost"}
        /\ entry'[c] = "ending" => orphan' = orphan
        /\ \A x \in Client \ {c} :
             entry'[x] = entry[x] /\ orphan'[x] = orphan[x]
    BY <1>0, <2>1 DEF TypeOK
  <2>7. Vacant' /\ Evicted' /\ Shaped'
    BY <2>1, <2>6 DEF IInv, Vacant, Evicted, Shaped, Listed
  <2>8. RosterIsReal'
    <3> SUFFICES ASSUME NEW h \in Client, NEW x \in Roster(h)'
                 PROVE  Belongs(x, h)'
      BY DEF RosterIsReal
    <3>1. x \in Roster(h)
      BY <2>1 DEF Roster, Hosting
    <3>2. x \in Client /\ Belongs(x, h)
      BY <1>0, <3>1, RosterTyped DEF IInv, RosterIsReal
    <3> QED
      BY <2>1, <2>6, <3>2 DEF Belongs
  <2> QED
    BY <2>5, <2>7, <2>8 DEF IInv
<1> QED
  BY <1>1, <1>2, <1>3 DEF Registration

LEMMA NextKeeps == IInv /\ [Next]_vars => IInv'
<1> SUFFICES ASSUME IInv, [Next]_vars PROVE IInv'
  OBVIOUS
<1>1. CASE UNCHANGED vars
  BY <1>1 DEF vars, IInv, Typed, TypeOK, Vacant, Evicted, Shaped, Listed,
              RosterIsReal, Belongs, Roster, Hosting
<1>2. CASE Quiescent
  BY <1>1, <1>2 DEF Quiescent
<1>3. ASSUME NEW c \in Client, Request(c) \/ Continue(c) \/ Registration(c)
      PROVE  IInv'
  BY <1>3, RequestKeeps, ContinueKeeps, RegistrationKeeps
<1> QED
  BY <1>1, <1>2, <1>3 DEF Next

\* The inductive invariant is an invariant of the lobby.
THEOREM Invariance == Spec => []IInv
BY InitKeeps, NextKeeps, PTL DEF Spec

\* Type correctness: the variables of the lobby keep their types.
THEOREM TypeCorrect == Spec => []TypeOK
<1>1. IInv => TypeOK
  BY DEF IInv, Typed
<1> QED
  BY <1>1, Invariance, PTL

\* However the handlers interleave, whichever redis calls fail and whoever is
\* evicted then, a host's connected_clients holds only clients that are in its
\* game, whose Join is about to put them there, whose Game is being dropped,
\* or that were evicted inside their Join, whose connection is at an end.
THEOREM RosterAlwaysReal == Spec => []RosterIsReal
<1>1. IInv => RosterIsReal
  BY DEF IInv
<1> QED
  BY <1>1, Invariance, PTL

=============================================================================
