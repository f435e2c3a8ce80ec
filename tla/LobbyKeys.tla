----------------------------- MODULE LobbyKeys -----------------------------
(***************************************************************************)
(* Two more invariants of Lobby, proved on top of IInv: what a half        *)
(* started game can lead to, and what the keys of redis say of the games.  *)
(***************************************************************************)
EXTENDS LobbyProofs

USE DEF Location, Busy, Gameless, Between, Entry, eviction

\* The handlers leave every entry in the map.
LEMMA EntriesAlone ==
  ASSUME NEW c \in Client, Request(c) \/ Continue(c)
  PROVE  UNCHANGED eviction
BY DEF Request, Continue, Connect, Identify, Create, JoinFetch, JoinRefused,
  ExistsFetch, Leave, Start, StartRefused, TaskRefused, Disconnect, JoinClaim,
  JoinHost, JoinRegister, JoinTurnedAway, JoinHostLeft, JoinElsewhere,
  JoinInstall, ExistsVerify, DropDelete, OnClose, Remove

\* A step moves its own client only, and accept_connection none.
LEMMA OneMoves ==
  ASSUME IInv, NEW c \in Client, Request(c) \/ Continue(c) \/ Registration(c)
  PROVE  \A x \in Client \ {c} :
           pc'[x] = pc[x] /\ job'[x] = job[x] /\ entry'[x] = entry[x]
<1>1. TypeOK
  BY DEF IInv, Typed
<1>2. CASE Request(c)
  BY <1>1, <1>2, EntriesAlone DEF Request, Connect, Identify, Create, JoinFetch,
    JoinRefused, ExistsFetch, Leave, Start, StartRefused, TaskRefused, Disconnect,
    DropHost, Answered, Failed, Done, Goto, TypeOK
<1>3. CASE Continue(c)
  BY <1>1, <1>3, EntriesAlone DEF Continue, JoinClaim, JoinHost, JoinRegister,
    JoinTurnedAway, JoinHostLeft, JoinElsewhere, JoinInstall, ExistsVerify,
    DropDelete, OnClose, Remove, DropHost, Answered, Failed, Done, Goto, TypeOK
<1>4. CASE Registration(c)
  BY <1>1, <1>4 DEF Registration, Evict, OrphanLeaves, OrphanEnds, OrphanDelete,
    Buried, TypeOK
<1> QED
  BY <1>2, <1>3, <1>4

\* The Game of a client whose entry is removed, or was, is none of its own; so
\* only a member's Drop shows in the games of others.
LEMMA RegistrationEffect ==
  ASSUME IInv, NEW c \in Client, Registration(c)
  PROVE  /\ RedisMayFail /\ entry'[c] # "kept" /\ game'[c] = None
         /\ \A x \in Client \ {c} :
              \/ game'[x] = game[x]
              \/ game[x] # None /\ game'[x] = Without(x, c)
<1>1. TypeOK
  BY DEF IInv, Typed
<1>2. CASE Evict(c)
  BY <1>1, <1>2 DEF Evict, TypeOK
<1>3. CASE OrphanLeaves(c)
  <2>1. entry'[c] = "lost"
    BY <1>1, <1>3 DEF OrphanLeaves, Buried, TypeOK
  <2> QED
    BY <1>3, <2>1, OrphanLeavesEffect
<1>4. CASE OrphanEnds(c) \/ OrphanDelete(c)
  <2>1. ~Listed(c) /\ UNCHANGED game /\ entry'[c] \in {"ending", "lost"}
    BY <1>1, <1>4 DEF OrphanEnds, OrphanDelete, Buried, TypeOK, Listed
  <2> QED
    BY <2>1 DEF IInv, Vacant, Evicted
<1> QED
  BY <1>2, <1>3, <1>4 DEF Registration

\* The steps other than these leave the games alone.
LEMMA GamesAlone ==
  ASSUME NEW c \in Client, Request(c) \/ Continue(c),
         ~JoinHost(c), ~JoinRegister(c), ~JoinInstall(c),
         ~Leave(c), ~OnClose(c), ~StartRefused(c),
         \A n \in 0..MaxTaskCount : ~Start(c, n)
  PROVE  UNCHANGED game /\ pc[c] # "closing"
BY DEF Request, Continue, Connect, Identify, Create, JoinFetch, JoinRefused,
  ExistsFetch, TaskRefused, Disconnect, JoinClaim, JoinTurnedAway, JoinHostLeft,
  JoinElsewhere, ExistsVerify, DropDelete, Remove

(***************************************************************************)
(* A half started game.                                                    *)
(***************************************************************************)
\* A game that is started after a step was so before, give or take a member
\* that leaves, or was started by that step.
LEMMA StartedGame ==
  ASSUME IInv, NEW c \in Client, Request(c) \/ Continue(c) \/ Registration(c),
         NEW h \in Client, Hosting(h)', game'[h].started
  PROVE  \/ game'[h] = game[h] /\ (pc[h] = "closing" => pc'[h] = "closing")
         \/ c # h /\ game[h] # None /\ game'[h] = Without(h, c)
         \/ c = h /\ \E n \in 0..MaxTaskCount : Start(h, n)
<1>0. TypeOK
  BY DEF IInv, Typed
<1>1. \A x \in Client \ {c} : pc'[x] = pc[x]
  BY OneMoves
<1>2. game'[h] # None /\ game'[h].isHost
  BY DEF Hosting
<1>3. CASE JoinHost(c)
  <2>1. h # c
    BY <1>0, <1>2, <1>3 DEF JoinHost, Install, NewGame, TypeOK, IInv, Vacant
  <2> QED
    BY <1>0, <1>1, <1>3, <2>1 DEF JoinHost, Install, TypeOK
<1>4. CASE JoinRegister(c)
  <2>1. PICK k \in Client : k = job[c].host
    BY <1>4, RegisterEffect
  <2>2. /\ Hosting(k) /\ game[k].public /\ game'[k].started = game[k].started
        /\ \A x \in Client \ {k} : game'[x] = game[x]
    BY <1>4, <2>1, RegisterEffect
  <2>3. h # k
    <3>1. game[k].public = ~game[k].started
      BY <2>2 DEF IInv, Shaped, Hosting
    <3> QED
      BY <2>2, <3>1
  <2>4. pc[c] = "register"
    BY <1>4 DEF JoinRegister
  <2> QED
    BY <1>1, <2>2, <2>3, <2>4
<1>5. CASE JoinInstall(c)
  <2>1. h # c
    BY <1>0, <1>2, <1>5 DEF JoinInstall, Install, NewGame, TypeOK, IInv, Vacant
  <2> QED
    BY <1>0, <1>1, <1>5, <2>1 DEF JoinInstall, Install, TypeOK
<1>6. CASE Leave(c) \/ OnClose(c) \/ StartRefused(c)
  <2>1. CASE UNCHANGED game
    <3>1. h = c => pc[h] # "closing"
      <4> SUFFICES ASSUME h = c, pc[h] = "closing" PROVE FALSE
        OBVIOUS
      <4>1. OnClose(c) /\ Hosting(c) /\ Listed(c)
        BY <1>2, <1>6, <2>1
        DEF Leave, OnClose, StartRefused, Hosting, IInv, Vacant
      <4>2. game'[c] = None
        BY <1>0, <4>1 DEF OnClose, DropHost, Hosting, Listed, TypeOK
      <4> QED
        BY <1>2, <4>2
    <3> QED
      BY <1>1, <2>1, <3>1
  <2>2. CASE DropMember(c) /\ game[c] # None /\ ~game[c].isHost
    <3>1. pc[c] # "install"
      BY <1>6 DEF Leave, OnClose, StartRefused
    <3>2. /\ game'[c] = None
          /\ \A x \in Client \ {c} :
               \/ game'[x] = game[x]
               \/ game[x] # None /\ game'[x] = Without(x, c)
      BY <2>2, <3>1, DropMemberEffect
    <3> QED
      BY <1>1, <1>2, <3>2
  <2>3. CASE game' = [game EXCEPT ![c] = None]
    BY <1>0, <1>1, <1>2, <2>3 DEF TypeOK
  <2> QED
    BY <1>6, <2>1, <2>2, <2>3 DEF Leave, OnClose, StartRefused, DropHost
<1>7. CASE \E n \in 0..MaxTaskCount : Start(c, n)
  <2>1. PICK n \in 0..MaxTaskCount : Start(c, n)
    BY <1>7
  <2>2. \A x \in Client \ {c} : game'[x] = game[x]
    BY <2>1, StartEffect
  <2> QED
    BY <1>1, <2>1, <2>2
<1>8. CASE Registration(c)
  <2>1. UNCHANGED pc
    BY <1>8 DEF Registration, Evict, OrphanLeaves, OrphanEnds, OrphanDelete
  <2> QED
    BY <1>2, <1>8, <2>1, RegistrationEffect
<1> QED
  BY <1>1, <1>3, <1>4, <1>5, <1>6, <1>7, <1>8, GamesAlone

LEMMA HalfStartedKept ==
  ASSUME IInv, HalfStartedIsClosing, NEW c \in Client,
         Request(c) \/ Continue(c) \/ Registration(c)
  PROVE  HalfStartedIsClosing'
<1> SUFFICES ASSUME NEW h \in Client, Hosting(h)', game'[h].started
             PROVE  \/ game'[h].members \cup {h} \subseteq game'[h].dealt
                    \/ pc'[h] = "closing"
  BY DEF HalfStartedIsClosing
<1>0. TypeOK
  BY DEF IInv, Typed
<1>1. CASE game'[h] = game[h] /\ (pc[h] = "closing" => pc'[h] = "closing")
  BY <1>1 DEF HalfStartedIsClosing, Hosting
<1>2. CASE c # h /\ game[h] # None /\ game'[h] = Without(h, c)
  <2>1. /\ game'[h].isHost = game[h].isHost
        /\ game'[h].started = game[h].started
        /\ game'[h].members = game[h].members \ {c}
        /\ game'[h].dealt = game[h].dealt \ {c}
    <3>1. /\ Without(h, c).isHost = game[h].isHost
          /\ Without(h, c).started = game[h].started
          /\ Without(h, c).members = game[h].members \ {c}
          /\ Without(h, c).dealt = game[h].dealt \ {c}
      BY <1>0, <1>2, WithoutGame
    <3> QED
      BY <1>2, <3>1
  <2>2. pc'[h] = pc[h]
    BY <1>2, OneMoves
  <2> QED
    BY <1>2, <2>1, <2>2 DEF HalfStartedIsClosing, Hosting
<1>3. CASE c = h /\ \E n \in 0..MaxTaskCount : Start(h, n)
  <2>1. PICK n \in 0..MaxTaskCount : Start(h, n)
    BY <1>3
  <2>2. /\ game'[h].members = game[h].members
        /\ game'[h].dealt = IF Chosen(n) = n THEN game[h].members \cup {h}
                                             ELSE game[h].dealt
    BY <2>1, StartEffect
  <2>3. Chosen(n) # n => pc'[h] = "closing"
    BY <1>0, <2>1 DEF Start, Failed, Done, Goto, TypeOK
  <2> QED
    BY <2>2, <2>3
<1> QED
  BY <1>1, <1>2, <1>3, StartedGame

\* Everybody in a started game has a task progress, or the connection of the
\* host is about to end the game: its Start failed half way.
THEOREM HalfStartedAlwaysClosing == Spec => []HalfStartedIsClosing
<1>1. Init => HalfStartedIsClosing
  BY DEF Init, HalfStartedIsClosing, Hosting
<1>2. IInv /\ HalfStartedIsClosing /\ [Next]_vars => HalfStartedIsClosing'
  <2>1. UNCHANGED vars /\ HalfStartedIsClosing => HalfStartedIsClosing'
    BY DEF vars, HalfStartedIsClosing, Hosting
  <2> QED
    BY <2>1, HalfStartedKept DEF Next, Quiescent
<1> QED
  BY <1>1, <1>2, Invariance, PTL DEF Spec

(***************************************************************************)
(* The keys.                                                               *)
(***************************************************************************)
\* KeyNamesHost made inductive: while a connection closes, its key is either
\* the one of its game, or it is in no game any more.
KeyHeld(g, h) ==
  \/ Hosting(h) /\ game[h].id = g
  \/ pc[h] = "host" /\ job[h].id = g
  \/ /\ RedisMayFail
     /\ \/ pc[h] \in {"leaving", "ending"} /\ job[h].id = g
        \/ pc[h] = "closing" /\ game[h] = None
        \/ pc[h] \in {"closed", "gone", "leaked"}
        \/ ~Listed(h)

KeysHeld == \A g \in GameId : redis[g] \in Client => KeyHeld(g, redis[g])

\* Only the SET of a Join writes a host into a key, its own client, and its
\* connection closes when the reply is lost.
LEMMA KeyWritten ==
  ASSUME IInv, NEW c \in Client, Request(c) \/ Continue(c) \/ Registration(c),
         NEW g \in GameId, redis'[g] \in Client
  PROVE  \/ redis'[g] = redis[g]
         \/ /\ redis'[g] = c
            /\ \/ pc'[c] = "host" /\ job' = job /\ job[c].id = g
               \/ RedisMayFail /\ pc'[c] = "closing" /\ game'[c] = None
<1>0. TypeOK /\ (pc[c] \in Busy => job[c] \in Job)
  BY DEF IInv, Typed
<1>1. CASE UNCHANGED redis
  BY <1>1
<1>2. CASE JoinClaim(c)
  <2>1. UNCHANGED redis \/ redis' = [redis EXCEPT ![job[c].id] = c]
    BY <1>2 DEF JoinClaim, Executes
  <2>2. redis'[g] = redis[g] \/ (redis'[g] = c /\ job[c].id = g)
    BY <1>0, <2>1 DEF TypeOK
  <2>3. game'[c] = None
    BY <1>2 DEF JoinClaim, IInv, Vacant
  <2>4. \/ pc'[c] = "host" /\ job' = job
        \/ RedisMayFail /\ pc'[c] = "closing"
    BY <1>0, <1>2 DEF JoinClaim, Failed, Done, Goto, TypeOK
  <2> QED
    BY <2>2, <2>3, <2>4
<1>3. CASE \E k \in GameId : Create(c, k)
  <2>1. PICK k \in GameId :
          UNCHANGED redis \/ redis' = [redis EXCEPT ![k] = Unclaimed]
    BY <1>3 DEF Create, Executes
  <2> QED
    BY <1>0, <2>1, LobbyConstants DEF TypeOK
<1>4. CASE \E k \in GameId : redis' = Deleted(k)
  BY <1>0, <1>4, LobbyConstants DEF Deleted, TypeOK
<1>5. CASE Request(c)
  <2>1. CASE Leave(c)
    <3>1. CASE Hosting(c)
      <4>1. game[c].id \in GameId
        BY <1>0, <3>1, GameFields DEF Hosting
      <4> QED
        BY <1>1, <1>4, <2>1, <3>1, <4>1 DEF Leave, DropHost, Executes, Hosting
    <3>2. CASE ~Hosting(c)
      BY <1>1, <2>1, <3>2 DEF Leave
    <3> QED
      BY <3>1, <3>2
  <2>2. CASE ~Leave(c) /\ ~\E k \in GameId : Create(c, k)
    BY <1>1, <1>5, <2>2 DEF Request, Connect, Identify, JoinFetch, JoinRefused,
      ExistsFetch, Start, StartRefused, TaskRefused, Disconnect
  <2> QED
    BY <1>3, <2>1, <2>2
<1>6. CASE Continue(c)
  <2>1. CASE OnClose(c)
    <3>1. CASE Hosting(c)
      <4>1. game[c].id \in GameId
        BY <1>0, <3>1, GameFields DEF Hosting
      <4> QED
        BY <1>1, <1>4, <2>1, <3>1, <4>1 DEF OnClose, DropHost, Executes, Hosting
    <3>2. CASE ~Hosting(c)
      BY <1>1, <2>1, <3>2 DEF OnClose
    <3> QED
      BY <3>1, <3>2
  <2>2. CASE JoinHostLeft(c) \/ ExistsVerify(c) \/ DropDelete(c)
    <3>1. job[c].id \in GameId
      BY <1>0, <2>2 DEF JoinHostLeft, ExistsVerify, DropDelete, Job
    <3> QED
      BY <1>1, <1>4, <2>2, <3>1 DEF JoinHostLeft, ExistsVerify, DropDelete, Executes
  <2>3. CASE \/ JoinHost(c) \/ JoinRegister(c) \/ JoinTurnedAway(c)
             \/ JoinElsewhere(c) \/ JoinInstall(c) \/ Remove(c)
    BY <1>1, <2>3 DEF JoinHost, JoinRegister, JoinTurnedAway, JoinElsewhere,
      JoinInstall, Remove
  <2> QED
    BY <1>2, <1>6, <2>1, <2>2, <2>3 DEF Continue
<1>7. CASE Registration(c)
  <2>1. CASE Evict(c) \/ OrphanLeaves(c)
    BY <1>1, <2>1 DEF Evict, OrphanLeaves
  <2>2. CASE OrphanEnds(c) \/ OrphanDelete(c)
    <3>1. orphan[c] \in Game
      BY <1>0, <2>2 DEF OrphanEnds, OrphanDelete, IInv, Evicted, TypeOK
    <3>2. orphan[c].id \in GameId
      BY <3>1 DEF Game
    <3> QED
      BY <1>1, <1>4, <2>2, <3>2 DEF OrphanEnds, OrphanDelete, Executes
  <2> QED
    BY <1>7, <2>1, <2>2 DEF Registration
<1> QED
  BY <1>5, <1>6, <1>7

\* Nobody else ends or renames the game that a client hosts.
LEMMA HostKept ==
  ASSUME IInv, NEW c \in Client, Request(c) \/ Continue(c) \/ Registration(c),
         NEW h \in Client \ {c}
  PROVE  /\ Hosting(h) => Hosting(h)' /\ game'[h].id = game[h].id
         /\ game[h] = None => game'[h] = None
<1>0. TypeOK
  BY DEF IInv, Typed
<1>1. CASE game'[h] = game[h]
  BY <1>1 DEF Hosting
<1>2. CASE JoinRegister(c)
  <2>1. PICK k \in Client : k = job[c].host
    BY <1>2, RegisterEffect
  <2>2. /\ Hosting(k)
        /\ game'[k] # None /\ game'[k].isHost /\ game'[k].id = game[k].id
        /\ \A x \in Client \ {k} : game'[x] = game[x]
    BY <1>2, <2>1, RegisterEffect
  <2>3. CASE h = k
    BY <2>2, <2>3 DEF Hosting
  <2> QED
    BY <1>1, <2>2, <2>3
<1>3. CASE JoinHost(c) \/ JoinInstall(c)
  BY <1>0, <1>1, <1>3 DEF JoinHost, JoinInstall, Install, TypeOK
<1>w. CASE game[h] # None /\ game'[h] = Without(h, c)
  <2>1. /\ game'[h] \in Game
        /\ game'[h].isHost = game[h].isHost
        /\ game'[h].id = game[h].id
    BY <1>0, <1>w, WithoutGame
  <2> QED
    BY <1>w, <2>1, LobbyConstants DEF Hosting
<1>4. CASE Leave(c) \/ OnClose(c) \/ StartRefused(c)
  <2>1. CASE DropMember(c) /\ game[c] # None /\ ~game[c].isHost
    <3>1. pc[c] # "install"
      BY <1>4 DEF Leave, OnClose, StartRefused
    <3>2. \/ game'[h] = game[h]
          \/ game[h] # None /\ game'[h] = Without(h, c)
      BY <2>1, <3>1, DropMemberEffect
    <3> QED
      BY <1>1, <1>w, <3>2
  <2>2. CASE game' = [game EXCEPT ![c] = None] \/ UNCHANGED game
    BY <1>0, <1>1, <2>2 DEF TypeOK
  <2> QED
    BY <1>4, <2>1, <2>2 DEF Leave, OnClose, StartRefused, DropHost
<1>5. CASE \E n \in 0..MaxTaskCount : Start(c, n)
  BY <1>1, <1>5, StartEffect
<1>6. CASE Registration(c)
  BY <1>1, <1>w, <1>6, RegistrationEffect
<1> QED
  BY <1>1, <1>2, <1>3, <1>4, <1>5, <1>6, GamesAlone

\* The host's Drop lets go of the key, unless redis fails.
LEMMA DropHostKey ==
  ASSUME IInv, NEW c \in Client, NEW l \in {"leaving", "ending"},
         DropHost(c, l), Hosting(c), NEW g \in GameId,
         redis[g] = c, redis'[g] = c, KeyHeld(g, c), pc[c] \in {"idle", "closing"}
  PROVE  KeyHeld(g, c)'
<1>0. TypeOK
  BY DEF IInv, Typed
<1>1. game[c].id = g
  BY DEF KeyHeld, Hosting, IInv, Vacant
<1>2. PICK ok \in RedisResult :
        redis' = Deleted(game[c].id) \/ ~ok
  BY DEF DropHost, Executes
<1>3. Deleted(g)[g] # c
  BY <1>0, LobbyConstants DEF Deleted, TypeOK
<1>4. RedisMayFail
  BY <1>1, <1>2, <1>3 DEF RedisResult
<1>5. pc'[c] = l /\ job'[c].id = g
  BY <1>0, <1>1 DEF DropHost, Goto, TypeOK
<1> QED
  BY <1>4, <1>5 DEF KeyHeld

\* What the client named by a key does itself.
LEMMA KeyKept ==
  ASSUME IInv, NEW c \in Client, Request(c) \/ Continue(c),
         NEW g \in GameId, redis[g] = c, redis'[g] = c, KeyHeld(g, c)
  PROVE  KeyHeld(g, c)'
<1>0. /\ TypeOK /\ (pc[c] \in Gameless => game[c] = None)
      /\ ~Listed(c) => RedisMayFail
  BY DEF IInv, Typed, Vacant, Evicted
<1>1. CASE Hosting(c) /\ game[c].id = g
  <2>1. pc[c] \in {"idle", "exists", "closing"}
    BY <1>0, <1>1 DEF Hosting, TypeOK
  <2>2. CASE UNCHANGED game
    BY <1>1, <2>2 DEF KeyHeld, Hosting
  <2>3. CASE Leave(c)
    <3>1. DropHost(c, "leaving") /\ pc[c] = "idle"
      BY <1>1, <2>3 DEF Leave, Hosting
    <3> QED
      BY <1>1, <3>1, DropHostKey
  <2>4. CASE OnClose(c)
    <3>1. Listed(c)
      BY <1>1 DEF IInv, Vacant, Hosting
    <3>2. DropHost(c, "ending") /\ pc[c] = "closing"
      BY <1>1, <2>4, <3>1 DEF OnClose, Hosting, Listed
    <3> QED
      BY <1>1, <3>2, DropHostKey
  <2>5. CASE \E n \in 0..MaxTaskCount : Start(c, n)
    <3>1. game'[c] # None /\ game'[c].isHost /\ game'[c].id = g
      BY <1>1, <2>5, StartEffect
    <3> QED
      BY <3>1 DEF KeyHeld, Hosting
  <2>6. CASE StartRefused(c)
    BY <1>1, <2>2, <2>6 DEF StartRefused, Hosting
  <2>7. ~JoinHost(c) /\ ~JoinRegister(c) /\ ~JoinInstall(c)
    BY <2>1 DEF JoinHost, JoinRegister, JoinInstall
  <2> QED
    BY <2>2, <2>3, <2>4, <2>5, <2>6, <2>7, GamesAlone
<1>2. CASE pc[c] = "host" /\ job[c].id = g
  <2>1. JoinHost(c)
    BY <1>2 DEF Request, Continue, Connect, Identify, Create, JoinFetch,
      JoinRefused, ExistsFetch, Leave, Start, StartRefused, TaskRefused,
      Disconnect, JoinClaim, JoinRegister, JoinTurnedAway, JoinHostLeft,
      JoinElsewhere, JoinInstall, ExistsVerify, DropDelete, OnClose, Remove
  <2>2. CASE Listed(c)
    <3>1. game'[c] = NewGame(TRUE, g, c)
      BY <1>0, <1>2, <2>1, <2>2 DEF JoinHost, Install, TypeOK
    <3>2. NewGame(TRUE, g, c) # None
      BY NewGameType, LobbyConstants
    <3> QED
      BY <3>1, <3>2 DEF NewGame, KeyHeld, Hosting
  <2>3. CASE ~Listed(c)
    BY <1>0, <2>3, EntriesAlone DEF KeyHeld, Listed
  <2> QED
    BY <2>2, <2>3
<1>3. CASE RedisMayFail /\ pc[c] \in {"leaving", "ending"} /\ job[c].id = g
  <2>1. DropDelete(c)
    BY <1>3 DEF Request, Continue, Connect, Identify, Create, JoinFetch,
      JoinRefused, ExistsFetch, Leave, Start, StartRefused, TaskRefused,
      Disconnect, JoinClaim, JoinHost, JoinRegister, JoinTurnedAway,
      JoinHostLeft, JoinElsewhere, JoinInstall, ExistsVerify, OnClose, Remove
  <2>2. Deleted(g)[g] # c
    BY <1>0, LobbyConstants DEF Deleted, TypeOK
  <2>3. pc'[c] \in {"closing", "leaked"} /\ UNCHANGED game
    <3>1. PICK ok \in RedisResult :
            /\ redis' = Deleted(g) \/ ~ok
            /\ Done(c, IF ok THEN AfterDrop(c)
                       ELSE IF pc[c] = "leaving" THEN "closing" ELSE "leaked")
      BY <1>3, <2>1 DEF DropDelete, Executes
    <3>2. ~ok
      BY <2>2, <3>1
    <3> QED
      BY <1>0, <2>1, <3>1, <3>2 DEF DropDelete, Done, Goto, TypeOK
  <2> QED
    BY <1>0, <1>3, <2>3 DEF KeyHeld
<1>4. CASE RedisMayFail /\ pc[c] = "closing" /\ game[c] = None
  <2>1. OnClose(c)
    BY <1>4 DEF Request, Continue, Connect, Identify, Create, JoinFetch,
      JoinRefused, ExistsFetch, Leave, Start, StartRefused, TaskRefused,
      Disconnect, JoinClaim, JoinHost, JoinRegister, JoinTurnedAway,
      JoinHostLeft, JoinElsewhere, JoinInstall, ExistsVerify, DropDelete, Remove
  <2>2. pc'[c] \in {"closed", "gone"}
    BY <1>0, <1>4, <2>1 DEF OnClose, Hosting, Done, Goto, TypeOK
  <2> QED
    BY <1>4, <2>2 DEF KeyHeld
<1>5. CASE RedisMayFail /\ pc[c] \in {"closed", "gone", "leaked"}
  <2>1. Remove(c)
    BY <1>5 DEF Request, Continue, Connect, Identify, Create, JoinFetch,
      JoinRefused, ExistsFetch, Leave, Start, StartRefused, TaskRefused,
      Disconnect, JoinClaim, JoinHost, JoinRegister, JoinTurnedAway,
      JoinHostLeft, JoinElsewhere, JoinInstall, ExistsVerify, DropDelete, OnClose
  <2>2. pc'[c] = "gone"
    BY <1>0, <2>1 DEF Remove, Goto, TypeOK
  <2> QED
    BY <1>5, <2>2 DEF KeyHeld
<1>6. CASE RedisMayFail /\ ~Listed(c)
  BY <1>6, EntriesAlone DEF KeyHeld, Listed
<1> QED
  BY <1>1, <1>2, <1>3, <1>4, <1>5, <1>6 DEF KeyHeld

LEMMA KeysHeldKept ==
  ASSUME IInv, KeysHeld, NEW c \in Client,
         Request(c) \/ Continue(c) \/ Registration(c)
  PROVE  KeysHeld'
<1> SUFFICES ASSUME NEW g \in GameId, NEW h \in Client, redis'[g] = h
             PROVE  KeyHeld(g, h)'
  BY DEF KeysHeld
<1>1. CASE redis[g] # h
  <2>1. /\ h = c
        /\ \/ pc'[c] = "host" /\ job' = job /\ job[c].id = g
           \/ RedisMayFail /\ pc'[c] = "closing" /\ game'[c] = None
    BY <1>1, KeyWritten
  <2> QED
    BY <2>1 DEF KeyHeld
<1>2. CASE redis[g] = h /\ h = c
  <2>1. CASE Request(c) \/ Continue(c)
    BY <1>2, <2>1, KeyKept DEF KeysHeld
  <2>2. CASE Registration(c)
    BY <1>2, <2>2, RegistrationEffect DEF KeyHeld, Listed
  <2> QED
    BY <2>1, <2>2
<1>3. CASE redis[g] = h /\ h # c
  <2>1. KeyHeld(g, h)
    BY <1>3 DEF KeysHeld
  <2>2. pc'[h] = pc[h] /\ job'[h] = job[h] /\ entry'[h] = entry[h]
    BY <1>3, OneMoves
  <2>3. /\ Hosting(h) => Hosting(h)' /\ game'[h].id = game[h].id
        /\ game[h] = None => game'[h] = None
    BY <1>3, HostKept
  <2> QED
    BY <2>1, <2>2, <2>3 DEF KeyHeld, Listed
<1> QED
  BY <1>1, <1>2, <1>3

\* A key that names a client names the host of that game, one that is about
\* to host it, or, after a failure of redis, one that ended or is ending, or
\* that was evicted because its registration failed.
THEOREM KeyAlwaysNamesHost == Spec => []KeyNamesHost
<1>1. Init => KeysHeld
  BY LobbyConstants DEF Init, KeysHeld
<1>2. IInv /\ KeysHeld /\ [Next]_vars => KeysHeld'
  <2>1. UNCHANGED vars /\ KeysHeld => KeysHeld'
    BY DEF vars, KeysHeld, KeyHeld, Hosting, Listed
  <2> QED
    BY <2>1, KeysHeldKept DEF Next, Quiescent
<1>3. KeysHeld => KeyNamesHost
  BY DEF KeysHeld, KeyHeld, KeyNamesHost
<1> QED
  BY <1>1, <1>2, <1>3, Invariance, PTL DEF Spec
=============================================================================
