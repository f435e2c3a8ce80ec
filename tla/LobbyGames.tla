----------------------------- MODULE LobbyGames -----------------------------
(***************************************************************************)
(* Proofs about what the Games of different clients are to each other, for *)
(* any set of clients, games, shards and tasks, and whether or not redis   *)
(* fails: Lobby implements Sessions, and memberships never form a cycle.   *)
(***************************************************************************)
EXTENDS LobbyProofs

USE DEF Location, Busy, Gameless, Between, Entry, eviction

(***************************************************************************)
(* Lobby implements Sessions.                                              *)
(***************************************************************************)
\* What Sessions sees of the lobby.
LEMMA ViewKept ==
  ASSUME \A x \in Client : Phase(x)' = Phase(x) /\ Roster(x)' = Roster(x)
  PROVE  UNCHANGED S!svars
BY DEF S!svars

LEMMA GamesKeptView ==
  ASSUME UNCHANGED game
  PROVE  UNCHANGED S!svars
<1>1. \A x \in Client : Phase(x)' = Phase(x) /\ Roster(x)' = Roster(x)
  BY DEF Phase, Roster, Hosting
<1> QED
  BY <1>1, ViewKept

\* A client whose Join is not yet about to install a Game is idle.
LEMMA NewcomerIdle ==
  ASSUME IInv, NEW c \in Client, pc[c] \in {"host", "register"}
  PROVE  S!Idle(c)
<1>1. Phase(c) = "none"
  BY DEF Phase, Hosting, IInv, Vacant
<1>2. \A h \in Client : c \notin Roster(h)
  BY NewcomerOnNone
<1> QED
  BY <1>1, <1>2 DEF S!Idle

\* Taking a client off the one roster it may be on is a Withdraw, or nothing.
LEMMA WithdrawStep ==
  ASSUME NEW c \in Client, NEW h \in Client,
         \A x \in Client : c \in Roster(x) => x = h,
         \A x \in Client : Phase(x)' = Phase(x) /\ Roster(x)' = Roster(x) \ {c}
  PROVE  [S!Next]_(S!svars)
<1>1. CASE c \in Roster(h)
  <2>0. \A x \in Client \ {h} : Roster(x)' = Roster(x)
    OBVIOUS
  <2>1. S!Withdraw(h, c)
    BY <1>1, <2>0 DEF S!Withdraw
  <2> QED
    BY <2>1 DEF S!Next
<1>2. CASE c \notin Roster(h)
  BY <1>2, ViewKept
<1> QED
  BY <1>1, <1>2

\* What taking c off the rosters leaves of what Sessions sees of a client.
LEMMA ViewWithout ==
  ASSUME TypeOK, NEW c \in Client, NEW x \in Client,
         \/ game'[x] = game[x] /\ c \notin Roster(x)
         \/ game[x] # None /\ game'[x] = Without(x, c)
  PROVE  Phase(x)' = Phase(x) /\ Roster(x)' = Roster(x) \ {c}
BY OthersWithout DEF Phase, Hosting

\* The member's Drop is a Withdraw, or nothing when the host had gone.
LEMMA DropMemberStep ==
  ASSUME IInv, NEW c \in Client, DropMember(c),
         game[c] # None, ~game[c].isHost, pc[c] # "install"
  PROVE  [S!Next]_(S!svars)
<1>0. TypeOK /\ Listed(c)
  BY DEF IInv, Typed, Vacant
<1>1. /\ game'[c] = None
      /\ \A x \in Client \ {c} :
           \/ game'[x] = game[x] /\ c \notin Roster(x)
           \/ game[x] # None /\ game'[x] = Without(x, c)
  BY DropMemberEffect
<1>2. \A x \in Client : Phase(x)' = Phase(x) /\ Roster(x)' = Roster(x) \ {c}
  <2> SUFFICES ASSUME NEW x \in Client
               PROVE  Phase(x)' = Phase(x) /\ Roster(x)' = Roster(x) \ {c}
    OBVIOUS
  <2>1. CASE x = c
    BY <1>1, <2>1 DEF Phase, Roster, Hosting
  <2>2. CASE x # c
    BY <1>0, <1>1, <2>2, ViewWithout
  <2> QED
    BY <2>1, <2>2
<1>3. game[c].host \in Client
  BY <1>0, GameFields
<1>4. \A x \in Client : c \in Roster(x) => x = game[c].host
  BY <1>0, Registered
<1> QED
  BY <1>2, <1>3, <1>4, WithdrawStep

\* So is the Drop of a member's Game that went with its entry.
LEMMA OrphanStep ==
  ASSUME IInv, NEW c \in Client, OrphanLeaves(c)
  PROVE  [S!Next]_(S!svars)
<1>1. TypeOK
  BY DEF IInv, Typed
<1>2. \A x \in Client :
        \/ game'[x] = game[x] /\ c \notin Roster(x)
        \/ game[x] # None /\ game'[x] = Without(x, c)
  BY OrphanLeavesEffect
<1>3. PICK h \in Client : \A x \in Client : c \in Roster(x) => x = h
  BY OrphanLeavesEffect
<1>4. \A x \in Client : Phase(x)' = Phase(x) /\ Roster(x)' = Roster(x) \ {c}
  BY <1>1, <1>2, ViewWithout
<1> QED
  BY <1>3, <1>4, WithdrawStep

\* The host's Drop ends its session.
LEMMA DropHostStep ==
  ASSUME IInv, NEW c \in Client, Hosting(c), game' = [game EXCEPT ![c] = None]
  PROVE  S!End(c)
<1>1. TypeOK
  BY DEF IInv, Typed
<1>2. game'[c] = None /\ \A x \in Client \ {c} : game'[x] = game[x]
  BY <1>1 DEF TypeOK
<1>3. Phase(c) # "none" /\ Phase(c)' = "none" /\ Roster(c)' = {}
  BY <1>2 DEF Phase, Roster, Hosting
<1>4. \A x \in Client \ {c} : Phase(x)' = Phase(x) /\ Roster(x)' = Roster(x)
  BY <1>2 DEF Phase, Roster, Hosting
<1> QED
  BY <1>3, <1>4 DEF S!End

\* The second half of a Join as host opens a session.
LEMMA HostStep ==
  ASSUME IInv, NEW c \in Client, JoinHost(c), Listed(c)
  PROVE  S!Open(c)
<1>1. TypeOK /\ job[c] \in Job /\ pc[c] = "host"
  BY DEF IInv, Typed, JoinHost
<1>2. game[c] = None
  BY <1>1 DEF IInv, Vacant
<1> DEFINE G == NewGame(TRUE, job[c].id, c)
<1>3. G # None /\ G.isHost /\ G.public /\ G.members = {}
  <2>1. G \in Game
    BY <1>1, NewGameType DEF Job
  <2>2. G.isHost /\ G.public /\ G.members = {}
    BY DEF NewGame
  <2> QED
    BY <2>1, <2>2, LobbyConstants
<1> HIDE DEF G
<1>4. game'[c] = G /\ \A x \in Client \ {c} : game'[x] = game[x]
  BY <1>1 DEF JoinHost, Install, TypeOK, G
<1>5. Phase(c)' = "open" /\ Roster(c)' = {} /\ Roster(c) = {}
  BY <1>2, <1>3, <1>4 DEF Phase, Roster, Hosting
<1>6. \A x \in Client \ {c} : Phase(x)' = Phase(x) /\ Roster(x)' = Roster(x)
  BY <1>4 DEF Phase, Roster, Hosting
<1>7. S!Idle(c)
  BY <1>1, NewcomerIdle
<1> QED
  BY <1>5, <1>6, <1>7 DEF S!Open

\* The second half of a Join as member shows nothing: the roster has it.
LEMMA InstallStep ==
  ASSUME IInv, NEW c \in Client, JoinInstall(c), Listed(c)
  PROVE  UNCHANGED S!svars
<1>1. TypeOK /\ job[c] \in Job /\ pc[c] = "install"
  BY DEF IInv, Typed, JoinInstall
<1>2. game[c] = None
  BY <1>1 DEF IInv, Vacant
<1> DEFINE G == NewGame(FALSE, job[c].id, job[c].host)
<1>3. ~G.isHost
  BY DEF NewGame
<1> HIDE DEF G
<1>4. game'[c] = G /\ \A x \in Client \ {c} : game'[x] = game[x]
  BY <1>1 DEF JoinInstall, Install, TypeOK, G
<1>5. \A x \in Client : Phase(x)' = Phase(x) /\ Roster(x)' = Roster(x)
  BY <1>2, <1>3, <1>4 DEF Phase, Roster, Hosting
<1> QED
  BY <1>5, ViewKept

\* Game::register admits an idle client to an open session.
LEMMA RegisterStep ==
  ASSUME IInv, NEW c \in Client, JoinRegister(c)
  PROVE  [S!Next]_(S!svars)
<1>1. PICK h \in Client : h = job[c].host
  BY RegisterEffect
<1>2. /\ h # c
      /\ Hosting(h) /\ game[h].public
      /\ game'[h] # None /\ game'[h].isHost
      /\ game'[h].public = game[h].public
      /\ game'[h].members = game[h].members \cup {c}
      /\ \A x \in Client \ {h} : game'[x] = game[x]
  BY <1>1, RegisterEffect
<1>3. /\ Phase(h) = "open" /\ Phase(h)' = "open"
      /\ Roster(h)' = Roster(h) \cup {c}
  BY <1>2 DEF Phase, Roster, Hosting
<1>4. \A x \in Client \ {h} : Phase(x)' = Phase(x) /\ Roster(x)' = Roster(x)
  BY <1>2 DEF Phase, Roster, Hosting
<1>5. S!Idle(c)
  BY NewcomerIdle DEF JoinRegister
<1>6. S!Admit(h, c)
  BY <1>3, <1>4, <1>5 DEF S!Admit
<1> QED
  BY <1>6 DEF S!Next

\* Game::start begins an open session, also when it fails half way.
LEMMA StartStep ==
  ASSUME IInv, NEW c \in Client, NEW n \in 0..MaxTaskCount, Start(c, n)
  PROVE  S!Begin(c)
<1>1. /\ Hosting(c) /\ game[c].public
      /\ game'[c] # None /\ game'[c].isHost /\ game'[c].public = FALSE
      /\ game'[c].members = game[c].members
      /\ \A x \in Client \ {c} : game'[x] = game[x]
  BY StartEffect
<1>2. Phase(c) = "open" /\ Phase(c)' = "started" /\ Roster(c)' = Roster(c)
  BY <1>1 DEF Phase, Roster, Hosting
<1>3. \A x \in Client \ {c} : Phase(x)' = Phase(x) /\ Roster(x)' = Roster(x)
  BY <1>1 DEF Phase, Roster, Hosting
<1> QED
  BY <1>2, <1>3 DEF S!Begin

LEMMA InitRefines == Init => S!Init
BY DEF Init, S!Init, Phase, Roster, Hosting

LEMMA StepRefines == IInv /\ [Next]_vars => [S!Next]_(S!svars)
<1> SUFFICES ASSUME IInv, [Next]_vars PROVE [S!Next]_(S!svars)
  OBVIOUS
<1>1. CASE UNCHANGED game
  BY <1>1, GamesKeptView
<1>2. ASSUME NEW c \in Client, Request(c) \/ Continue(c)
      PROVE  [S!Next]_(S!svars)
  <2>1. CASE JoinHost(c)
    BY <1>1, <2>1, HostStep DEF S!Next, JoinHost, Install
  <2>2. CASE JoinRegister(c)
    BY <2>2, RegisterStep
  <2>3. CASE JoinInstall(c)
    BY <1>1, <2>3, InstallStep DEF JoinInstall, Install
  <2>4. CASE Leave(c) \/ OnClose(c)
    <3>1. CASE game[c] # None /\ ~game[c].isHost
      BY <1>1, <2>4, <3>1, DropMemberStep DEF Leave, OnClose, Hosting
    <3>2. CASE Hosting(c)
      <4>1. UNCHANGED game \/ game' = [game EXCEPT ![c] = None]
        BY <2>4, <3>2 DEF Leave, OnClose, DropHost, Hosting
      <4> QED
        BY <1>1, <3>2, <4>1, DropHostStep DEF S!Next
    <3>3. CASE game[c] = None
      BY <1>1, <2>4, <3>3 DEF Leave, OnClose, Hosting
    <3> QED
      BY <3>1, <3>2, <3>3 DEF Hosting
  <2>5. ASSUME NEW n \in 0..MaxTaskCount, Start(c, n)
        PROVE  [S!Next]_(S!svars)
    BY <2>5, StartStep DEF S!Next
  <2>6. CASE StartRefused(c)
    BY <1>1, <2>6, DropMemberStep DEF StartRefused
  <2>7. CASE \/ Connect(c) \/ Identify(c) \/ TaskRefused(c) \/ Disconnect(c)
             \/ \E g \in GameId : \/ Create(c, g) \/ JoinFetch(c, g)
                                  \/ JoinRefused(c, g) \/ ExistsFetch(c, g)
    BY <1>1, <2>7 DEF Connect, Identify, TaskRefused, Disconnect, Create,
                      JoinFetch, JoinRefused, ExistsFetch
  <2>8. CASE \/ JoinClaim(c) \/ JoinTurnedAway(c) \/ JoinHostLeft(c)
             \/ JoinElsewhere(c) \/ ExistsVerify(c) \/ DropDelete(c)
             \/ Remove(c)
    BY <1>1, <2>8 DEF JoinClaim, JoinTurnedAway, JoinHostLeft, JoinElsewhere,
                      ExistsVerify, DropDelete, Remove
  <2> QED
    BY <1>2, <2>1, <2>2, <2>3, <2>4, <2>5, <2>6, <2>7, <2>8
    DEF Request, Continue
<1>3. ASSUME NEW c \in Client, Registration(c)
      PROVE  [S!Next]_(S!svars)
  <2>1. CASE Evict(c)
    <3>1. game' = [game EXCEPT ![c] = None]
      BY <2>1 DEF Evict
    <3>2. CASE Hosting(c)
      BY <3>1, <3>2, DropHostStep DEF S!Next
    <3>3. CASE ~Hosting(c)
      <4>1. game'[c] = None /\ \A x \in Client \ {c} : game'[x] = game[x]
        BY <3>1 DEF IInv, Typed, TypeOK
      <4>2. \A x \in Client : Phase(x)' = Phase(x) /\ Roster(x)' = Roster(x)
        BY <3>3, <4>1 DEF Phase, Roster, Hosting
      <4> QED
        BY <4>2, ViewKept
    <3> QED
      BY <3>2, <3>3
  <2>2. CASE OrphanLeaves(c)
    BY <2>2, OrphanStep
  <2>3. CASE OrphanEnds(c) \/ OrphanDelete(c)
    BY <1>1, <2>3 DEF OrphanEnds, OrphanDelete
  <2> QED
    BY <1>3, <2>1, <2>2, <2>3 DEF Registration
<1>4. CASE Quiescent \/ UNCHANGED vars
  BY <1>1, <1>4 DEF Quiescent, vars
<1> QED
  BY <1>2, <1>3, <1>4 DEF Next

\* Whatever the keys say and however the handlers interleave, each client
\* hosts or attends at most one game, is admitted only before the game
\* starts, and a game ends with its roster.
THEOREM LobbyImplementsSessions == Spec => ImplementsSessions
BY InitRefines, StepRefines, Invariance, PTL DEF Spec, ImplementsSessions, S!Spec

\* A step of Sessions, client by client.
LEMMA SessionsStep ==
  ASSUME [S!Next]_(S!svars)
  PROVE  \/ \A x \in Client : Phase(x)' = Phase(x) /\ Roster(x)' = Roster(x)
         \/ \E h \in Client :
              /\ \/ Phase(h) = "none" /\ Phase(h)' = "open" /\ Roster(h)' = Roster(h)
                    /\ \A k \in Client : h \notin Roster(k)
                 \/ Phase(h) = "open" /\ Phase(h)' = "started" /\ Roster(h)' = Roster(h)
                 \/ Phase(h)' = "none" /\ Roster(h)' = {}
                 \/ /\ Phase(h) = "open" /\ Phase(h)' = Phase(h)
                    /\ \E c \in Client : /\ Phase(c) = "none"
                                         /\ \A k \in Client : c \notin Roster(k)
                                         /\ Roster(h)' = Roster(h) \cup {c}
                 \/ /\ Phase(h)' = Phase(h)
                    /\ \E c \in Client : Roster(h)' = Roster(h) \ {c}
              /\ \A x \in Client \ {h} : Phase(x)' = Phase(x) /\ Roster(x)' = Roster(x)
<1> DEFINE phase == [x \in Client |-> Phase(x)]
           members == [x \in Client |-> Roster(x)]
<1>1. \A x \in Client : /\ phase[x] = Phase(x) /\ phase'[x] = Phase(x)'
                        /\ members[x] = Roster(x) /\ members'[x] = Roster(x)'
  OBVIOUS
<1>2. DOMAIN phase = Client /\ DOMAIN members = Client
  OBVIOUS
<1>3. CASE UNCHANGED <<phase, members>>
  BY <1>1, <1>3
<1>4. ASSUME NEW h \in Client, S!Open(h) \/ S!Begin(h) \/ S!End(h)
      PROVE  /\ \/ Phase(h) = "none" /\ Phase(h)' = "open" /\ Roster(h)' = Roster(h)
                   /\ \A k \in Client : h \notin Roster(k)
                \/ Phase(h) = "open" /\ Phase(h)' = "started" /\ Roster(h)' = Roster(h)
                \/ Phase(h)' = "none" /\ Roster(h)' = {}
             /\ \A x \in Client \ {h} : Phase(x)' = Phase(x) /\ Roster(x)' = Roster(x)
  <2>1. \/ /\ phase[h] = "none" /\ \A k \in Client : h \notin members[k]
           /\ phase' = [phase EXCEPT ![h] = "open"] /\ members' = members
        \/ /\ phase[h] = "open"
           /\ phase' = [phase EXCEPT ![h] = "started"] /\ members' = members
        \/ /\ phase' = [phase EXCEPT ![h] = "none"]
           /\ members' = [members EXCEPT ![h] = {}]
    BY <1>4 DEF S!Open, S!Begin, S!End, S!Idle
  <2> HIDE DEF phase, members
  <2> QED
    BY <1>1, <1>2, <2>1
<1>5. ASSUME NEW h \in Client, NEW c \in Client, S!Admit(h, c) \/ S!Withdraw(h, c)
      PROVE  /\ \/ /\ Phase(h) = "open" /\ Phase(h)' = Phase(h)
                   /\ Phase(c) = "none" /\ \A k \in Client : c \notin Roster(k)
                   /\ Roster(h)' = Roster(h) \cup {c}
                \/ Phase(h)' = Phase(h) /\ Roster(h)' = Roster(h) \ {c}
             /\ \A x \in Client \ {h} : Phase(x)' = Phase(x) /\ Roster(x)' = Roster(x)
  <2>1. \/ /\ phase[h] = "open" /\ phase' = phase
           /\ phase[c] = "none" /\ \A k \in Client : c \notin members[k]
           /\ members' = [members EXCEPT ![h] = members[h] \cup {c}]
        \/ phase' = phase /\ members' = [members EXCEPT ![h] = members[h] \ {c}]
    BY <1>5 DEF S!Admit, S!Withdraw, S!Idle
  <2> HIDE DEF phase, members
  <2> QED
    BY <1>1, <1>2, <2>1
<1>6. CASE \E h \in Client : S!Open(h) \/ S!Begin(h) \/ S!End(h)
  <2>1. PICK h \in Client : S!Open(h) \/ S!Begin(h) \/ S!End(h)
    BY <1>6
  <2> QED
    BY <1>4, <2>1
<1>7. CASE \E h, c \in Client : S!Admit(h, c) \/ S!Withdraw(h, c)
  <2>1. PICK h \in Client, c \in Client : S!Admit(h, c) \/ S!Withdraw(h, c)
    BY <1>7
  <2> QED
    BY <1>5, <2>1
<1> QED
  BY <1>3, <1>6, <1>7 DEF S!Next, S!svars

\* In Sessions only the idle open a game or are admitted to one.
LEMMA SessionsOneGame == ImplementsSessions => []S!OneGameEach
<1>0. S!OneGameEach <=>
        /\ \A c, h \in Client : c \in Roster(h) => Phase(h) # "none" /\ Phase(c) = "none"
        /\ \A c, h, k \in Client : c \in Roster(h) \cap Roster(k) => h = k
  BY DEF S!OneGameEach
<1>1. S!Init => S!OneGameEach
  BY DEF S!Init, S!OneGameEach
<1>2. S!OneGameEach /\ [S!Next]_(S!svars) => S!OneGameEach'
  <2> SUFFICES ASSUME S!OneGameEach, [S!Next]_(S!svars) PROVE S!OneGameEach'
    OBVIOUS
  <2>1. /\ \A c, h \in Client :
             c \in Roster(h)' => Phase(h)' # "none" /\ Phase(c)' = "none"
        /\ \A c, h, k \in Client : c \in Roster(h)' \cap Roster(k)' => h = k
    BY <1>0, SessionsStep
  <2> QED
    BY <2>1 DEF S!OneGameEach
<1> QED
  BY <1>1, <1>2, PTL DEF ImplementsSessions, S!Spec

LEMMA SessionsNoLateEntry == ImplementsSessions => S!NoLateEntry
<1>1. [S!Next]_(S!svars) => [S!EntryBeforeStart]_(S!svars)
  <2> SUFFICES ASSUME [S!Next]_(S!svars), NEW h \in Client, Phase(h) = "started"
               PROVE  /\ Phase(h)' \in {"started", "none"}
                      /\ Roster(h)' \subseteq Roster(h)
    BY DEF S!EntryBeforeStart
  <2> QED
    BY SessionsStep
<1> QED
  BY <1>1, PTL DEF ImplementsSessions, S!Spec, S!NoLateEntry

\* No client is in two games, neither as host nor as member, however its
\* requests and those of others interleave.
THEOREM OneGameAlways == Spec => []S!OneGameEach
BY LobbyImplementsSessions, SessionsOneGame, PTL

\* A Join that has begun before the Start does not get its client into the
\* game after it.
THEOREM NeverALateEntry == Spec => S!NoLateEntry
BY LobbyImplementsSessions, SessionsNoLateEntry, PTL

(***************************************************************************)
(* Memberships never form a cycle (NoMembershipCycle of Lobby).  A client  *)
(* becomes a member of a host while that host hosts, so a new membership   *)
(* ends at a client that looks up nobody but itself; and a client whose    *)
(* membership ends looks up nobody.                                        *)
(***************************************************************************)
\* What a step of c may do to whom it looks up.
Settles(c) ==
  \/ LooksUp(c)' \subseteq LooksUp(c) \cup {c}
  \/ \E h \in Client : LooksUp(c)' \subseteq {h} /\ LooksUp(h)' \subseteq {h}

\* A step that changes the lookups of c alone, and in such a way, closes no
\* cycle.
LEMMA SettlingKeeps ==
  ASSUME NoMembershipCycle, NEW c \in Client, Settles(c),
         \A x \in Client \ {c} : LooksUp(x)' = LooksUp(x)
  PROVE  NoMembershipCycle'
<1> SUFFICES ASSUME NEW Q \in SUBSET Client, Q # {}
             PROVE  \E x \in Q : LooksUp(x)' \cap Q \subseteq {x}
  BY DEF NoMembershipCycle
<1>1. PICK x \in Q : LooksUp(x) \cap Q \subseteq {x}
  BY DEF NoMembershipCycle
<1>2. CASE LooksUp(c)' \subseteq LooksUp(c) \cup {c}
  BY <1>1, <1>2
<1>3. ASSUME NEW h \in Client, LooksUp(c)' \subseteq {h}, LooksUp(h)' \subseteq {h}
      PROVE  \E y \in Q : LooksUp(y)' \cap Q \subseteq {y}
  <2>1. CASE h \in Q
    BY <1>3, <2>1
  <2>2. CASE h \notin Q /\ x # c
    BY <1>1, <2>2
  <2>3. CASE h \notin Q /\ x = c
    BY <1>1, <1>3, <2>3
  <2> QED
    BY <2>1, <2>2, <2>3
<1> QED
  BY <1>2, <1>3 DEF Settles

\* A host looks up nobody but itself.
LEMMA HostLooksUpItself ==
  ASSUME IInv, NEW h \in Client, Hosting(h)
  PROVE  LooksUp(h) = {h}
<1>1. pc[h] # "install"
  BY DEF IInv, Vacant, Hosting
<1> QED
  BY <1>1 DEF IInv, Shaped, LooksUp, Hosting

\* A step outside the second half of a Join that leaves the games alone.
LEMMA SameLookups ==
  ASSUME IInv, NEW c \in Client, UNCHANGED game, pc[c] # "install",
         NEW l \in Location \ {"install"}, NEW j, Moves(c, l, j)
  PROVE  \A x \in Client : LooksUp(x)' = LooksUp(x)
BY DEF IInv, Typed, TypeOK, Moves, Goto, LooksUp

\* The Drop of a member.
LEMMA MemberSettles ==
  ASSUME IInv, NEW c \in Client, DropMember(c), game[c] # None,
         ~game[c].isHost, pc[c] # "install",
         NEW l \in Location \ {"install"}, pc' = [pc EXCEPT ![c] = l],
         UNCHANGED job \/ job' = [job EXCEPT ![c] = None]
  PROVE  Settles(c) /\ \A x \in Client \ {c} : LooksUp(x)' = LooksUp(x)
<1>0. TypeOK
  BY DEF IInv, Typed
<1>1. /\ game'[c] = None
      /\ \A x \in Client \ {c} :
           game'[x] = game[x] \/ (game[x] # None /\ game'[x] = Without(x, c))
  BY DropMemberEffect
<1>2. /\ pc'[c] = l
      /\ \A x \in Client \ {c} : pc'[x] = pc[x] /\ job'[x] = job[x]
  BY <1>0 DEF TypeOK
<1>3. \A x \in Client \ {c} : LooksUp(x)' = LooksUp(x)
  <2> SUFFICES ASSUME NEW x \in Client \ {c}
               PROVE  LooksUp(x)' = LooksUp(x)
    OBVIOUS
  <2>1. CASE game'[x] = game[x]
    BY <1>2, <2>1 DEF LooksUp
  <2>2. CASE game[x] # None /\ game'[x] = Without(x, c)
    <3>1. game'[x] # None /\ game'[x].host = game[x].host
      BY <1>0, <2>2, WithoutGame, LobbyConstants
    <3> QED
      BY <1>2, <2>2, <3>1 DEF LooksUp
  <2> QED
    BY <1>1, <2>1, <2>2
<1>4. LooksUp(c)' = {}
  BY <1>1, <1>2 DEF LooksUp
<1> QED
  BY <1>3, <1>4 DEF Settles

\* The Drop of a host.
LEMMA HostSettles ==
  ASSUME IInv, NEW c \in Client, NEW l \in {"leaving", "ending"},
         DropHost(c, l)
  PROVE  Settles(c) /\ \A x \in Client \ {c} : LooksUp(x)' = LooksUp(x)
<1>0. TypeOK
  BY DEF IInv, Typed
<1>1. game'[c] = None /\ pc'[c] = l
  BY <1>0 DEF TypeOK, DropHost, Goto
<1>2. \A x \in Client \ {c} :
        game'[x] = game[x] /\ pc'[x] = pc[x] /\ job'[x] = job[x]
  BY <1>0 DEF TypeOK, DropHost, Goto
<1> QED
  BY <1>1, <1>2 DEF LooksUp, Settles

\* Requests: only the Drops and a Start touch a Game.
LEMMA RequestSettles ==
  ASSUME IInv, NEW c \in Client, Request(c)
  PROVE  Settles(c) /\ \A x \in Client \ {c} : LooksUp(x)' = LooksUp(x)
<1>0. TypeOK
  BY DEF IInv, Typed
<1>1. CASE UNCHANGED game
  <2>1. PICK l \in Location \ {"install"}, j \in Job \cup {None} : Moves(c, l, j)
    <3>1. CASE Connect(c) \/ Identify(c) \/ Leave(c) \/ StartRefused(c)
      BY <1>0, <1>1, <3>1
      DEF Connect, Identify, Leave, StartRefused, DropHost, DropMember, Moves, Goto,
          Failed, Done, TypeOK, Hosting
    <3>2. ASSUME NEW g \in GameId, Create(c, g)
          PROVE  \E l \in Location \ {"install"}, j \in Job \cup {None} :
                   Moves(c, l, j)
      BY <3>2 DEF Create, Answered, Failed, Done, Moves
    <3>3. ASSUME NEW g \in GameId, JoinFetch(c, g)
          PROVE  \E l \in Location \ {"install"}, j \in Job \cup {None} :
                   Moves(c, l, j)
      BY <1>0, <3>3 DEF JoinFetch, Moves, Job, TypeOK
    <3>4. ASSUME NEW g \in GameId, JoinRefused(c, g) \/ ExistsFetch(c, g)
          PROVE  \E l \in Location \ {"install"}, j \in Job \cup {None} :
                   Moves(c, l, j)
      BY <3>4 DEF JoinRefused, ExistsFetch, Failed, Done, Moves, Job
    <3>5. ASSUME NEW n \in 0..MaxTaskCount, Start(c, n)
          PROVE  \E l \in Location \ {"install"}, j \in Job \cup {None} :
                   Moves(c, l, j)
      BY <3>5 DEF Start, Answered, Failed, Done, Moves
    <3>6. CASE TaskRefused(c) \/ Disconnect(c)
      BY <3>6 DEF TaskRefused, Disconnect, Failed, Done, Moves
    <3> QED
      BY <3>1, <3>2, <3>3, <3>4, <3>5, <3>6 DEF Request
  <2>2. pc[c] # "install"
    BY DEF Request, Connect, Identify, Create, JoinFetch, JoinRefused,
           ExistsFetch, Leave, Start, StartRefused, TaskRefused, Disconnect
  <2> QED
    BY <1>1, <2>1, <2>2, SameLookups DEF Settles
<1>2. ASSUME NEW n \in 0..MaxTaskCount, Start(c, n)
      PROVE  \A x \in Client : LooksUp(x)' = LooksUp(x)
  <2>1. /\ Hosting(c) /\ game'[c] # None /\ game'[c].host = game[c].host
        /\ \A x \in Client \ {c} : game'[x] = game[x]
    BY <1>0, <1>2, StartEffect
  <2>2. /\ pc[c] = "idle" /\ pc'[c] \in {"idle", "closing"}
        /\ \A x \in Client \ {c} : pc'[x] = pc[x] /\ job'[x] = job[x]
    BY <1>0, <1>2 DEF Start, Answered, Failed, Done, Goto, TypeOK
  <2> QED
    BY <2>1, <2>2 DEF LooksUp, Hosting
<1>3. CASE Leave(c) /\ ~UNCHANGED game
  <2>1. CASE Hosting(c) /\ DropHost(c, "leaving")
    BY <2>1, HostSettles
  <2>2. CASE game[c] # None /\ ~game[c].isHost /\ DropMember(c)
    <3>1. UNCHANGED <<pc, job>> /\ pc[c] = "idle" /\ pc' = [pc EXCEPT ![c] = "idle"]
      BY <1>0, <1>3, <2>2 DEF Leave, Hosting, TypeOK
    <3> QED
      BY <2>2, <3>1, MemberSettles
  <2> QED
    BY <1>3, <2>1, <2>2 DEF Leave
<1>4. CASE StartRefused(c) /\ ~UNCHANGED game
  <2>1. /\ game[c] # None /\ ~game[c].isHost /\ DropMember(c)
        /\ pc[c] = "idle" /\ pc' = [pc EXCEPT ![c] = "closing"]
        /\ job' = [job EXCEPT ![c] = None]
    BY <1>4 DEF StartRefused, Failed, Done, Goto
  <2> QED
    BY <2>1, MemberSettles
<1>5. Request(c) /\ ~UNCHANGED game =>
        Leave(c) \/ StartRefused(c) \/ \E n \in 0..MaxTaskCount : Start(c, n)
  BY DEF Request, Connect, Identify, Create, JoinFetch, JoinRefused,
         ExistsFetch, TaskRefused, Disconnect
<1> QED
  BY <1>1, <1>2, <1>3, <1>4, <1>5 DEF Settles

\* What handlers go on to do: a Join makes a client a host, or the member of
\* a host.
LEMMA ContinueSettles ==
  ASSUME IInv, IInv', NEW c \in Client, Continue(c)
  PROVE  Settles(c) /\ \A x \in Client \ {c} : LooksUp(x)' = LooksUp(x)
<1>0. TypeOK /\ (pc[c] \in Busy => job[c] \in Job)
  BY DEF IInv, Typed
<1>1. CASE JoinHost(c)
  <2>1. \/ game' = [game EXCEPT ![c] = NewGame(TRUE, job[c].id, c)]
        \/ UNCHANGED game
    BY <1>1 DEF JoinHost, Install
  <2>2. /\ pc[c] = "host" /\ game[c] = None /\ pc'[c] \in {"idle", "closing"}
        /\ \A x \in Client \ {c} : pc'[x] = pc[x] /\ job'[x] = job[x]
    BY <1>0, <1>1 DEF JoinHost, Answered, Done, Goto, TypeOK, IInv, Vacant
  <2>3. /\ game'[c] = None \/ game'[c].host = c
        /\ \A x \in Client \ {c} : game'[x] = game[x]
    BY <1>0, <2>1, <2>2 DEF NewGame, TypeOK
  <2> QED
    BY <2>2, <2>3 DEF LooksUp, Settles
<1>2. CASE JoinInstall(c)
  <2>1. \/ game' = [game EXCEPT ![c] = NewGame(FALSE, job[c].id, job[c].host)]
        \/ UNCHANGED game
    BY <1>2 DEF JoinInstall, Install
  <2>2. /\ pc[c] = "install" /\ game[c] = None /\ pc'[c] \in {"idle", "closing"}
        /\ \A x \in Client \ {c} : pc'[x] = pc[x] /\ job'[x] = job[x]
    BY <1>0, <1>2 DEF JoinInstall, Answered, Done, Goto, TypeOK, IInv, Vacant
  <2>3. /\ game'[c] = None \/ game'[c].host = job[c].host
        /\ \A x \in Client \ {c} : game'[x] = game[x]
    BY <1>0, <2>1, <2>2 DEF NewGame, TypeOK
  <2> QED
    BY <2>2, <2>3 DEF LooksUp, Settles
<1>3. CASE JoinRegister(c)
  <2>1. PICK h \in Client : /\ h = job[c].host /\ Hosting(h)
                             /\ pc[c] = "register" /\ game[c] = None
    BY <1>0, <1>3 DEF JoinRegister, Job, Hosting, Admits, IInv, Vacant
  <2>2. h # c
    BY <2>1 DEF Hosting
  <2>3. game' = [game EXCEPT ![h].members = @ \cup {c}, ![h].dealt = @ \ {c}]
    BY <1>3, <2>1 DEF JoinRegister
  <2>4. /\ game'[h].host = game[h].host
        /\ \A x \in Client \ {h} : game'[x] = game[x]
    <3>1. game[h] \in Game
      BY <1>0, <2>1, GameFields DEF Hosting
    <3> QED
      BY <1>0, <2>1, <2>3, <3>1 DEF TypeOK, Game
  <2>5. /\ pc'[c] = "install" /\ job'[c] = job[c]
        /\ \A x \in Client \ {c} : pc'[x] = pc[x] /\ job'[x] = job[x]
    BY <1>0, <1>3 DEF JoinRegister, Goto, TypeOK
  <2>6. c \in Roster(h)' /\ Hosting(h)'
    <3>1. game[h] \in Game /\ game[h].isHost
      BY <1>0, <2>1, GameFields DEF Hosting
    <3>2. /\ game'[h] \in Game /\ game'[h].isHost
          /\ game'[h].members = game[h].members \cup {c}
      BY <1>0, <2>1, <2>3, <3>1 DEF TypeOK, Game
    <3> QED
      BY <3>2, LobbyConstants DEF Roster, Hosting
  <2>7. LooksUp(h)' = {h}
    BY <2>1, <2>4, <2>5, <2>6, <2>2, HostLooksUpItself DEF LooksUp, Hosting
  <2>8. LooksUp(c)' = {h}
    BY <2>1, <2>5 DEF LooksUp
  <2>9. \A x \in Client \ {c} : LooksUp(x)' = LooksUp(x)
    BY <2>1, <2>4, <2>5, <2>7, HostLooksUpItself DEF LooksUp
  <2> QED
    BY <2>1, <2>7, <2>8, <2>9 DEF Settles
<1>4. CASE OnClose(c) /\ ~UNCHANGED game
  <2>1. CASE Hosting(c) /\ DropHost(c, "ending")
    BY <2>1, HostSettles
  <2>2. CASE game[c] # None /\ ~game[c].isHost /\ DropMember(c)
    <3>1. /\ pc[c] = "closing" /\ pc' = [pc EXCEPT ![c] = "closed"]
          /\ job' = [job EXCEPT ![c] = None]
      BY <1>4, <2>2 DEF OnClose, Hosting, Done, Goto
    <3> QED
      BY <2>2, <3>1, MemberSettles
  <2> QED
    BY <1>4, <2>1, <2>2 DEF OnClose
<1>5. CASE UNCHANGED game /\ ~JoinRegister(c) /\ ~JoinInstall(c) /\ ~JoinHost(c)
  <2>1. PICK l \in Location \ {"install"}, j \in Job \cup {None} : Moves(c, l, j)
    <3>1. CASE JoinClaim(c)
      <4>1. (Goto(c, "host") /\ UNCHANGED job) \/ Failed(c)
        BY <3>1 DEF JoinClaim
      <4> QED
        BY <1>0, <4>1 DEF Failed, Done, Moves, Goto, TypeOK
    <3>2. CASE JoinTurnedAway(c) \/ JoinHostLeft(c) \/ JoinElsewhere(c)
               \/ ExistsVerify(c)
      BY <3>2 DEF JoinTurnedAway, JoinHostLeft, JoinElsewhere, ExistsVerify,
                  Answered, Failed, Done, Moves
    <3>3. CASE DropDelete(c)
      BY <3>3 DEF DropDelete, AfterDrop, Done, Moves
    <3>4. CASE OnClose(c)
      BY <1>0, <1>5, <3>4 DEF OnClose, Done, DropHost, Moves, Goto, Hosting, TypeOK
    <3>5. CASE Remove(c)
      BY <1>0, <3>5 DEF Remove, Moves, Goto, TypeOK
    <3> QED
      BY <1>5, <3>1, <3>2, <3>3, <3>4, <3>5 DEF Continue
  <2>2. pc[c] # "install"
    BY <1>5 DEF Continue, JoinClaim, JoinTurnedAway, JoinHostLeft, JoinElsewhere,
                ExistsVerify, DropDelete, OnClose, Remove
  <2> QED
    BY <1>5, <2>1, <2>2, SameLookups DEF Settles
<1>6. ~UNCHANGED game =>
        JoinHost(c) \/ JoinInstall(c) \/ JoinRegister(c) \/ OnClose(c)
  BY DEF Continue, JoinClaim, JoinTurnedAway, JoinHostLeft, JoinElsewhere,
         ExistsVerify, DropDelete, Remove
<1> QED
  BY <1>1, <1>2, <1>3, <1>4, <1>5, <1>6

\* An eviction takes a lookup away at most.
LEMMA RegistrationSettles ==
  ASSUME IInv, NEW c \in Client, Registration(c)
  PROVE  Settles(c) /\ \A x \in Client \ {c} : LooksUp(x)' = LooksUp(x)
<1>0. TypeOK
  BY DEF IInv, Typed
<1>1. CASE Evict(c)
  <2>1. /\ UNCHANGED <<pc, job>> /\ game'[c] = None
        /\ \A x \in Client \ {c} : game'[x] = game[x]
    BY <1>0, <1>1 DEF Evict, TypeOK
  <2> QED
    BY <2>1 DEF LooksUp, Settles
<1>2. CASE OrphanLeaves(c)
  <2>1. \A x \in Client :
          /\ game'[x] # None <=> game[x] # None
          /\ game[x] # None => game'[x].host = game[x].host
    BY <1>0, <1>2, OrphanLeavesEffect, OthersWithout
  <2>2. UNCHANGED <<pc, job>>
    BY <1>2 DEF OrphanLeaves
  <2> QED
    BY <2>1, <2>2 DEF LooksUp, Settles
<1>3. CASE OrphanEnds(c) \/ OrphanDelete(c)
  BY <1>3 DEF OrphanEnds, OrphanDelete, LooksUp, Settles
<1> QED
  BY <1>1, <1>2, <1>3 DEF Registration

LEMMA OrderKeeps ==
  ASSUME IInv, IInv', NoMembershipCycle, NEW c \in Client,
         Request(c) \/ Continue(c) \/ Registration(c)
  PROVE  NoMembershipCycle'
BY RequestSettles, ContinueSettles, RegistrationSettles, SettlingKeeps

\* However requests interleave, and even if redis fails, memberships form no
\* cycle: nested acquisitions of entries, the own one and then the host's,
\* cannot wait for each other in a circle.
THEOREM NeverACycle == Spec => []NoMembershipCycle
<1>1. Init => NoMembershipCycle
  BY DEF Init, NoMembershipCycle, LooksUp
<1>2. IInv /\ IInv' /\ NoMembershipCycle /\ [Next]_vars => NoMembershipCycle'
  <2> SUFFICES ASSUME IInv, IInv', NoMembershipCycle, [Next]_vars
               PROVE  NoMembershipCycle'
    OBVIOUS
  <2>1. CASE UNCHANGED vars
    BY <2>1 DEF vars, NoMembershipCycle, LooksUp
  <2>2. ASSUME NEW c \in Client, Request(c) \/ Continue(c) \/ Registration(c)
        PROVE  NoMembershipCycle'
    BY <2>2, OrderKeeps
  <2> QED
    BY <2>1, <2>2 DEF Next, Quiescent
<1> QED
  BY <1>1, <1>2, Invariance, PTL DEF Spec
=============================================================================
