---------------------------- MODULE LobbyEvents ----------------------------
(***************************************************************************)
(* Proof that the events a client is sent tell it who is in its game, as   *)
(* long as redis answers (a DEL that fails skips the ShutdownResponse, and *)
(* a client that is evicted is told nothing any more).                     *)
(***************************************************************************)
EXTENDS LobbyProofs

USE DEF Location, Busy, Gameless, Between, Entry, eviction

\* What clients know on a roster, hosting, and in no game.
Informed ==
  \A c \in Client :
    /\ \A h \in Client :
         c \in Roster(h) => known[c] = (Roster(h) \cup {h}) \ {c}
    /\ Hosting(c) => known[c] = Roster(c)
    /\ ~Hosting(c) /\ (\A h \in Client : c \notin Roster(h)) => known[c] = {}

\* Nobody is evicted as long as redis answers.
LEMMA AllListed ==
  ASSUME IInv, ~RedisMayFail, NEW c \in Client
  PROVE  Listed(c)
BY DEF IInv, Evicted

\* A client on a roster hosts nothing and is on no other one.
LEMMA OneRoster ==
  ASSUME IInv, ~RedisMayFail, NEW h \in Client, NEW c \in Client, c \in Roster(h)
  PROVE  /\ Hosting(h) /\ ~Hosting(c) /\ h # c
         /\ \A k \in Client : c \in Roster(k) => k = h
<1>1. Hosting(h)
  BY DEF Roster
<1>2. CASE pc[c] = "install"
  <2>1. game[c] = None
    BY <1>2 DEF IInv, Vacant
  <2>2. \A k \in Client : c \in Roster(k) => job[c].host = k
    BY <2>1, AllListed DEF IInv, RosterIsReal, Belongs, Listed
  <2> QED
    BY <1>1, <2>1, <2>2 DEF Hosting
<1>3. CASE pc[c] # "install"
  <2>1. \A k \in Client : c \in Roster(k) => game[c].host = k /\ ~Hosting(c)
    <3> TAKE k \in Client
    <3> QED
      BY <1>3, AllListed, Registered DEF Hosting
  <2> QED
    BY <1>1, <2>1
<1> QED
  BY <1>2, <1>3

\* A client in no game, its Join not about to install one, is told of nobody.
LEMMA NewcomerTold ==
  ASSUME IInv, ~RedisMayFail, Informed, NEW c \in Client, game[c] = None, pc[c] # "install"
  PROVE  known[c] = {} /\ \A h \in Client : c \notin Roster(h)
<1>1. \A h \in Client : c \notin Roster(h)
  BY AllListed, Registered
<1> QED
  BY <1>1 DEF Informed, Hosting

\* The audience of send_global is the roster and the host.
LEMMA AudienceIs ==
  ASSUME IInv, ~RedisMayFail, NEW h \in Client, Hosting(h)
  PROVE  Audience(h) = Roster(h) \cup {h} /\ Audience(h) \subseteq Client
<1>1. TypeOK
  BY DEF IInv, Typed
<1>2. game[h].host = h
  BY DEF IInv, Shaped, Hosting
<1> QED
  BY <1>1, <1>2, RosterTyped DEF Audience, Roster

\* A step that changes no roster and tells nobody anything.
LEMMA NothingTold ==
  ASSUME Informed, UNCHANGED known,
         \A x \in Client : Roster(x)' = Roster(x),
         \A x \in Client : Hosting(x)' => Hosting(x) \/ known[x] = {},
         \A x \in Client : Hosting(x)' /\ ~Hosting(x) => Roster(x) = {},
         \A x \in Client : Hosting(x) => Hosting(x)'
  PROVE  Informed'
<1> SUFFICES ASSUME NEW c \in Client
             PROVE  /\ \A h \in Client : c \in Roster(h)'
                         => known'[c] = (Roster(h)' \cup {h}) \ {c}
                    /\ Hosting(c)' => known'[c] = Roster(c)'
                    /\ ~Hosting(c)' /\ (\A h \in Client : c \notin Roster(h)')
                         => known'[c] = {}
  BY DEF Informed
<1>1. \A h \in Client : c \in Roster(h)' => known'[c] = (Roster(h)' \cup {h}) \ {c}
  BY DEF Informed
<1>2. Hosting(c)' => known'[c] = Roster(c)'
  BY DEF Informed
<1>3. ~Hosting(c)' /\ (\A h \in Client : c \notin Roster(h)') => known'[c] = {}
  BY DEF Informed
<1> QED
  BY <1>1, <1>2, <1>3

\* register: the newcomer is told of the audience, the audience of it.
LEMMA RegisterTells ==
  ASSUME IInv, ~RedisMayFail, Informed, NEW c \in Client, JoinRegister(c)
  PROVE  Informed'
<1>1. PICK h \in Client : h = job[c].host
  BY RegisterEffect
<1>2. /\ h # c /\ Hosting(h)
      /\ game'[h] # None /\ game'[h].isHost
      /\ game'[h].members = game[h].members \cup {c}
      /\ \A x \in Client \ {h} : game'[x] = game[x]
  BY <1>1, RegisterEffect
<1>3. /\ Roster(h)' = Roster(h) \cup {c}
      /\ \A x \in Client \ {h} : Roster(x)' = Roster(x)
      /\ \A x \in Client : Hosting(x)' <=> Hosting(x)
  BY <1>2 DEF Roster, Hosting
<1>4. game[c] = None /\ pc[c] = "register"
  BY DEF JoinRegister, IInv, Vacant
<1>5. known[c] = {} /\ \A x \in Client : c \notin Roster(x)
  BY <1>4, NewcomerTold
<1>6. Audience(h) = Roster(h) \cup {h}
  BY <1>2, AudienceIs
<1>7. /\ known'[c] = Roster(h) \cup {h}
      /\ \A x \in Client \ {c} :
           known'[x] = known[x] \cup (IF x \in Roster(h) \cup {h} THEN {c} ELSE {})
  <2>1. known' = [x \in Client |->
                    known[x] \cup (IF x = c THEN Audience(h) ELSE {})
                             \cup (IF x \in Audience(h) THEN {c} ELSE {})]
    BY <1>1 DEF JoinRegister
  <2> QED
    BY <1>2, <1>5, <1>6, <2>1
<1> SUFFICES ASSUME NEW x \in Client
             PROVE  /\ \A k \in Client : x \in Roster(k)'
                         => known'[x] = (Roster(k)' \cup {k}) \ {x}
                    /\ Hosting(x)' => known'[x] = Roster(x)'
                    /\ ~Hosting(x)' /\ (\A k \in Client : x \notin Roster(k)')
                         => known'[x] = {}
  BY DEF Informed
<1>8. CASE x = c
  <2>1. ~Hosting(c)
    BY <1>4 DEF Hosting
  <2>2. \A k \in Client : c \in Roster(k)' => k = h
    BY <1>3, <1>5
  <2> QED
    BY <1>2, <1>3, <1>5, <1>7, <1>8, <2>1, <2>2
<1>9. CASE x = h
  <2>1. \A k \in Client : h \notin Roster(k)
    BY <1>2, OneRoster
  <2>2. \A k \in Client : h \notin Roster(k)'
    BY <1>2, <1>3, <2>1
  <2>3. known[h] = Roster(h)
    BY <1>2 DEF Informed
  <2>4. known'[h] = known[h] \cup {c}
    BY <1>2, <1>7
  <2> QED
    BY <1>2, <1>3, <1>9, <2>2, <2>3, <2>4
<1>10. CASE x # c /\ x \in Roster(h)
  <2>1. known[x] = (Roster(h) \cup {h}) \ {x}
    BY <1>10 DEF Informed
  <2>2. x # h /\ ~Hosting(x) /\ \A k \in Client : x \in Roster(k) => k = h
    BY <1>10, OneRoster
  <2>3. known'[x] = (Roster(h)' \cup {h}) \ {x}
    <3>1. known'[x] = known[x] \cup {c}
      BY <1>7, <1>10
    <3> QED
      BY <1>3, <1>10, <2>1, <3>1
  <2> QED
    BY <1>3, <1>10, <2>2, <2>3
<1>11. CASE x # c /\ x # h /\ x \notin Roster(h)
  <2>1. known'[x] = known[x]
    BY <1>7, <1>11
  <2>2. \A k \in Client : x \in Roster(k)' => x \in Roster(k) /\ Roster(k)' = Roster(k)
    BY <1>3, <1>11
  <2>3. \A k \in Client : x \in Roster(k) => x \in Roster(k)'
    BY <1>3
  <2> QED
    BY <1>3, <1>11, <2>1, <2>2, <2>3 DEF Informed
<1> QED
  BY <1>8, <1>9, <1>10, <1>11

\* unregister and the LeaveResponse: the audience forgets the member, and the
\* member forgets the audience.
LEMMA DropMemberTells ==
  ASSUME IInv, ~RedisMayFail, Informed, NEW c \in Client, DropMember(c),
         game[c] # None, ~game[c].isHost, pc[c] # "install"
  PROVE  Informed'
<1>0. TypeOK
  BY DEF IInv, Typed
<1>1. /\ game'[c] = None
      /\ \A x \in Client \ {c} :
           \/ game'[x] = game[x] /\ c \notin Roster(x)
           \/ game[x] # None /\ game'[x] = Without(x, c)
  BY DropMemberEffect
<1>2. \A x \in Client : /\ Roster(x)' = Roster(x) \ {c}
                        /\ Hosting(x)' <=> Hosting(x)
  <2> SUFFICES ASSUME NEW x \in Client
               PROVE  Roster(x)' = Roster(x) \ {c} /\ (Hosting(x)' <=> Hosting(x))
    OBVIOUS
  <2>1. CASE x = c
    BY <1>1, <2>1 DEF Roster, Hosting
  <2>2. CASE game'[x] = game[x] /\ c \notin Roster(x)
    BY <2>2 DEF Roster, Hosting
  <2>3. CASE game[x] # None /\ game'[x] = Without(x, c)
    <3>1. /\ Without(x, c) \in Game
          /\ Without(x, c).isHost = game[x].isHost
          /\ Without(x, c).members = game[x].members \ {c}
      BY <1>0, <2>3, WithoutGame
    <3> QED
      BY <2>3, <3>1, LobbyConstants DEF Roster, Hosting
  <2> QED
    BY <1>1, <2>1, <2>2, <2>3
<1>3. /\ known'[c] = {}
      /\ \A x \in Client \ {c} :
           IF \E h \in Client : c \in Roster(h) /\ x \in Roster(h) \cup {h}
             THEN known'[x] = known[x] \ {c}
             ELSE known'[x] = known[x]
  <2> DEFINE h == game[c].host
  <2>1. h \in Client
    BY <1>0, GameFields
  <2>2. \A k \in Client : c \in Roster(k) => k = h /\ OnRoster(c, h)
    BY AllListed, Registered DEF OnRoster
  <2>3. CASE c \in Roster(h)
    <3>1. known' = [x \in Client |->
                      IF x = c THEN {}
                      ELSE IF x \in Audience(h) THEN known[x] \ {c}
                      ELSE known[x]]
      BY <2>1, <2>2, <2>3 DEF DropMember, HearLeave
    <3>2. Audience(h) = Roster(h) \cup {h}
      BY <2>1, <2>3, OneRoster, AudienceIs
    <3> HIDE DEF h
    <3> QED
      BY <2>1, <2>2, <2>3, <3>1, <3>2
  <2>4. CASE c \notin Roster(h)
    <3>1. known' = [known EXCEPT ![c] = {}]
      BY <1>0, <2>4 DEF DropMember, HearLeave, OnRoster, TypeOK
    <3>2. \A k \in Client : c \notin Roster(k)
      BY <2>2, <2>4
    <3> QED
      BY <1>0, <3>1, <3>2 DEF TypeOK
  <2> QED
    BY <2>3, <2>4
<1> SUFFICES ASSUME NEW x \in Client
             PROVE  /\ \A k \in Client : x \in Roster(k)'
                         => known'[x] = (Roster(k)' \cup {k}) \ {x}
                    /\ Hosting(x)' => known'[x] = Roster(x)'
                    /\ ~Hosting(x)' /\ (\A k \in Client : x \notin Roster(k)')
                         => known'[x] = {}
  BY DEF Informed
<1>4. CASE x = c
  BY <1>1, <1>2, <1>3, <1>4 DEF Hosting
<1>5. ASSUME x # c, NEW k \in Client, x \in Roster(k)'
      PROVE  known'[x] = (Roster(k)' \cup {k}) \ {x}
  <2>1. x \in Roster(k) /\ Roster(k)' = Roster(k) \ {c}
    BY <1>2, <1>5
  <2>2. /\ known[x] = (Roster(k) \cup {k}) \ {x}
        /\ \A h \in Client : x \in Roster(h) \cup {h} /\ Hosting(h) => h = k
    BY <2>1, OneRoster DEF Informed
  <2>3. CASE c \in Roster(k)
    <3>1. known'[x] = known[x] \ {c}
      BY <1>3, <1>5, <2>1, <2>3
    <3>2. c # k
      BY <2>3, OneRoster
    <3> QED
      BY <2>1, <2>2, <3>1, <3>2
  <2>4. CASE c \notin Roster(k)
    <3>1. c # k
      <4>1. Hosting(k)
        BY <2>1 DEF Roster
      <4> QED
        BY <4>1 DEF Hosting
    <3>2. known'[x] = known[x]
      <4>1. \A h \in Client : c \in Roster(h) => Hosting(h)
        BY DEF Roster
      <4> QED
        BY <1>3, <1>5, <2>2, <2>4, <4>1
    <3> QED
      BY <2>1, <2>2, <2>4, <3>1, <3>2
  <2> QED
    BY <2>3, <2>4
<1>6. ASSUME x # c, Hosting(x)'
      PROVE  known'[x] = Roster(x)'
  <2>1. Hosting(x) /\ known[x] = Roster(x) /\ Roster(x)' = Roster(x) \ {c}
    BY <1>2, <1>6 DEF Informed
  <2>2. \A h \in Client : x \notin Roster(h)
    BY <2>1, OneRoster
  <2>3. CASE c \in Roster(x)
    BY <1>3, <1>6, <2>1, <2>3
  <2>4. CASE c \notin Roster(x)
    BY <1>3, <1>6, <2>1, <2>2, <2>4
  <2> QED
    BY <2>3, <2>4
<1>7. ASSUME x # c, ~Hosting(x)', \A k \in Client : x \notin Roster(k)'
      PROVE  known'[x] = {}
  <2>1. ~Hosting(x) /\ \A k \in Client : x \notin Roster(k)
    BY <1>2, <1>7
  <2>2. known[x] = {}
    BY <2>1 DEF Informed
  <2> QED
    BY <1>3, <1>7, <2>2
<1> QED
  BY <1>4, <1>5, <1>6, <1>7

\* shutdown: the members are sent Shutdown and the host its response, the
\* latter because redis answers.
LEMMA DropHostTells ==
  ASSUME IInv, ~RedisMayFail, Informed, NEW c \in Client,
         NEW l \in {"leaving", "ending"}, DropHost(c, l), Hosting(c)
  PROVE  Informed'
<1>0. TypeOK
  BY DEF IInv, Typed
<1>1. game'[c] = None /\ \A x \in Client \ {c} : game'[x] = game[x]
  BY <1>0 DEF DropHost, TypeOK
<1>2. /\ Roster(c)' = {} /\ ~Hosting(c)'
      /\ \A x \in Client \ {c} : /\ Roster(x)' = Roster(x)
                                 /\ Hosting(x)' <=> Hosting(x)
  BY <1>1 DEF Roster, Hosting
<1>3. \A x \in Client :
        known'[x] = IF x \in Roster(c) \cup {c} THEN {} ELSE known[x]
  BY DEF DropHost, HearShutdown, RedisResult, Roster, HearEnd
<1> SUFFICES ASSUME NEW x \in Client
             PROVE  /\ \A k \in Client : x \in Roster(k)'
                         => known'[x] = (Roster(k)' \cup {k}) \ {x}
                    /\ Hosting(x)' => known'[x] = Roster(x)'
                    /\ ~Hosting(x)' /\ (\A k \in Client : x \notin Roster(k)')
                         => known'[x] = {}
  BY DEF Informed
<1>4. CASE x = c
  <2>1. \A k \in Client : c \notin Roster(k)
    BY OneRoster
  <2> QED
    BY <1>2, <1>3, <1>4, <2>1
<1>5. CASE x \in Roster(c)
  <2>1. ~Hosting(x) /\ x # c /\ \A k \in Client : x \in Roster(k) => k = c
    BY <1>5, OneRoster
  <2> QED
    BY <1>2, <1>3, <1>5, <2>1
<1>6. CASE x # c /\ x \notin Roster(c)
  <2>1. known'[x] = known[x]
    BY <1>3, <1>6
  <2>2. \A k \in Client : x \in Roster(k)' => x \in Roster(k) /\ Roster(k)' = Roster(k)
    BY <1>2
  <2>3. \A k \in Client : x \in Roster(k) => x \in Roster(k)'
    BY <1>2, <1>6
  <2> QED
    BY <1>2, <1>6, <2>1, <2>2, <2>3 DEF Informed
<1> QED
  BY <1>4, <1>5, <1>6

\* The second half of a Join tells nobody, and nobody has to be told.
LEMMA InstallTells ==
  ASSUME IInv, ~RedisMayFail, Informed, NEW c \in Client, JoinHost(c) \/ JoinInstall(c)
  PROVE  Informed'
<1>0. TypeOK /\ game[c] = None
  BY DEF IInv, Typed, Vacant, JoinHost, JoinInstall
<1>1. PICK b \in BOOLEAN : \E g, h :
        /\ game' = [game EXCEPT ![c] = NewGame(b, g, h)]
        /\ b => pc[c] = "host"
  BY AllListed DEF JoinHost, JoinInstall, Install
<1>2. PICK g, h : game' = [game EXCEPT ![c] = NewGame(b, g, h)]
  BY <1>1
<1>2a. NewGame(b, g, h).isHost = b /\ NewGame(b, g, h).members = {}
  BY DEF NewGame
<1>3. \A x \in Client \ {c} : game'[x] = game[x]
  BY <1>0, <1>2 DEF TypeOK
<1>4. game'[c] = NewGame(b, g, h)
  BY <1>0, <1>2 DEF TypeOK
<1>5. \A x \in Client : Roster(x)' = Roster(x)
  BY <1>0, <1>2a, <1>3, <1>4 DEF Roster, Hosting
<1>6. \A x \in Client \ {c} : Hosting(x)' <=> Hosting(x)
  BY <1>3 DEF Hosting
<1>7. ~Hosting(c) /\ Roster(c) = {}
  BY <1>0 DEF Hosting, Roster
<1>8. Hosting(c)' => known[c] = {}
  <2>1. Hosting(c)' => b
    BY <1>2a, <1>4 DEF Hosting
  <2> QED
    BY <1>0, <1>1, <2>1, NewcomerTold
<1>9. UNCHANGED known
  BY DEF JoinHost, JoinInstall
<1> QED
  BY <1>5, <1>6, <1>7, <1>8, <1>9, NothingTold

\* Steps that leave games and knowledge alone.
LEMMA GamesKeptTells ==
  ASSUME Informed, UNCHANGED <<game, known>>
  PROVE  Informed'
BY DEF Informed, Roster, Hosting

LEMMA InformedStep ==
  ASSUME IInv, ~RedisMayFail, Informed, [Next]_vars
  PROVE  Informed'
<1>1. CASE UNCHANGED <<game, known>>
  BY <1>1, GamesKeptTells
<1>2. ASSUME NEW c \in Client, Request(c) \/ Continue(c)
      PROVE  Informed'
  <2>1. CASE JoinHost(c) \/ JoinInstall(c)
    BY <2>1, InstallTells
  <2>2. CASE JoinRegister(c)
    BY <2>2, RegisterTells
  <2>3. CASE Leave(c) \/ OnClose(c)
    <3>1. CASE game[c] # None /\ ~game[c].isHost
      <4>1. DropMember(c) /\ pc[c] # "install"
        BY <2>3, <3>1, AllListed DEF Leave, OnClose, Hosting, Listed
      <4> QED
        BY <3>1, <4>1, DropMemberTells
    <3>2. CASE Hosting(c)
      <4>1. DropHost(c, "leaving") \/ DropHost(c, "ending")
        BY <2>3, <3>2, AllListed DEF Leave, OnClose, Hosting, Listed
      <4> QED
        BY <3>2, <4>1, DropHostTells
    <3>3. CASE game[c] = None
      BY <1>1, <2>3, <3>3 DEF Leave, OnClose, Hosting
    <3> QED
      BY <3>1, <3>2, <3>3 DEF Hosting
  <2>4. ASSUME NEW n \in 0..MaxTaskCount, Start(c, n)
        PROVE  Informed'
    <3>1. /\ Hosting(c) /\ game'[c] # None /\ game'[c].isHost
          /\ game'[c].members = game[c].members
          /\ \A x \in Client \ {c} : game'[x] = game[x]
      BY <2>4, StartEffect
    <3>2. \A x \in Client : Roster(x)' = Roster(x) /\ (Hosting(x)' <=> Hosting(x))
      BY <3>1 DEF Roster, Hosting
    <3>3. UNCHANGED known
      BY <2>4 DEF Start
    <3> QED
      BY <3>2, <3>3, NothingTold
  <2>5. CASE StartRefused(c)
    <3>1. CASE DropMember(c) /\ game[c] # None /\ ~game[c].isHost
      BY <2>5, <3>1, DropMemberTells DEF StartRefused
    <3> QED
      BY <1>1, <2>5, <3>1 DEF StartRefused
  <2>6. CASE \/ Connect(c) \/ Identify(c) \/ TaskRefused(c) \/ Disconnect(c)
             \/ \E g \in GameId : \/ Create(c, g) \/ JoinFetch(c, g)
                                  \/ JoinRefused(c, g) \/ ExistsFetch(c, g)
    BY <1>1, <2>6 DEF Connect, Identify, TaskRefused, Disconnect, Create,
                      JoinFetch, JoinRefused, ExistsFetch
  <2>7. CASE \/ JoinClaim(c) \/ JoinTurnedAway(c) \/ JoinHostLeft(c)
             \/ JoinElsewhere(c) \/ ExistsVerify(c) \/ DropDelete(c)
             \/ Remove(c)
    BY <1>1, <2>7 DEF JoinClaim, JoinTurnedAway, JoinHostLeft, JoinElsewhere,
                      ExistsVerify, DropDelete, Remove
  <2> QED
    BY <1>2, <2>1, <2>2, <2>3, <2>4, <2>5, <2>6, <2>7 DEF Request, Continue
<1>3. ASSUME NEW c \in Client, Registration(c)
      PROVE  FALSE
  BY <1>3, AllListed
  DEF Registration, Evict, OrphanLeaves, OrphanEnds, OrphanDelete, Listed
<1>4. CASE Quiescent \/ UNCHANGED vars
  BY <1>1, <1>4 DEF Quiescent, vars
<1> QED
  BY <1>2, <1>3, <1>4 DEF Next

LEMMA InformedMeans ==
  ASSUME IInv, ~RedisMayFail, Informed, NEW c \in Client
  PROVE  known[c] = Fellows(c)
<1> DEFINE mine == {x \in Client : c \in Roster(x) \/ (x = c /\ Hosting(c))}
<1>1. CASE Hosting(c)
  <2>1. \A x \in Client : c \notin Roster(x)
    BY <1>1, OneRoster
  <2>2. mine = {c} /\ c \notin Roster(c)
    BY <1>1, <2>1
  <2>3. Fellows(c) = Roster(c)
    BY <2>2 DEF Fellows
  <2> QED
    BY <1>1, <2>3 DEF Informed
<1>2. ASSUME NEW h \in Client, c \in Roster(h)
      PROVE  known[c] = Fellows(c)
  <2>1. mine = {h}
    BY <1>2, OneRoster
  <2>2. Fellows(c) = (Roster(h) \cup {h}) \ {c}
    BY <2>1 DEF Fellows
  <2> QED
    BY <1>2, <2>2 DEF Informed
<1>3. CASE ~Hosting(c) /\ \A h \in Client : c \notin Roster(h)
  <2>1. mine = {}
    BY <1>3
  <2>2. Fellows(c) = {}
    BY <2>1 DEF Fellows
  <2>3. known[c] = {}
    BY <1>3 DEF Informed
  <2> QED
    BY <2>2, <2>3
<1> QED
  BY <1>1, <1>2, <1>3

\* As long as redis answers, a client that has applied the events queued for
\* it knows exactly who else is in its game.
THEOREM RosterAlwaysAgrees == ~RedisMayFail => (Spec => []RosterAgrees)
<1> SUFFICES ASSUME ~RedisMayFail PROVE Spec => []RosterAgrees
  OBVIOUS
<1>1. Init => Informed
  BY DEF Init, Informed, Roster, Hosting
<1>2. IInv /\ Informed /\ [Next]_vars => Informed'
  BY InformedStep
<1>3. IInv /\ Informed => RosterAgrees
  BY InformedMeans DEF RosterAgrees
<1> QED
  BY <1>1, <1>2, <1>3, Invariance, PTL DEF Spec
=============================================================================
