--------------------------- MODULE CompileProofs ---------------------------
(***************************************************************************)
(* Proofs about Compile and Judge, for any set of clients, games, shards   *)
(* and tasks, any numbers of tests, any answers of the sandbox, and whether *)
(* or not redis fails.                                                     *)
(*                                                                         *)
(* A step of one client is looked at in two ways: for what it leaves of    *)
(* the Games and tasks that the programs of other clients are judged by,   *)
(* and for the stage its own program is at.                                *)
(***************************************************************************)
EXTENDS Compile, LobbyGames, LobbyKeys, FiniteSetTheorems

USE DEF Location, Busy, Gameless, Between, Entry, eviction

(***************************************************************************)
(* The verdict.                                                            *)
(***************************************************************************)
\* "passed" means that every test has an output, there is no other, and all
\* are as expected: counting the finished tests is enough, because an answer
\* longer than the tests was turned down before.  (validate_code_test)
THEOREM PassedMeansAllMatch ==
  ASSUME NEW n \in Nat, NEW out \in Seq(BOOLEAN)
  PROVE  Verdict(out, n) = "passed" <=> AllMatch(out, n)
<1> DEFINE L == Len(out)
           F == Finished(out)
<1>1. L \in Nat /\ IsFiniteSet(1..L) /\ Cardinality(1..L) = L
  <2>1. L \in Nat
    OBVIOUS
  <2> QED
    BY <2>1, FS_Interval
<1>2. F \subseteq 1..L /\ (\A i \in 1..L : i \in F <=> out[i])
  BY Zenon DEF Finished
<1>3. /\ Cardinality(F) \in Nat /\ Cardinality(F) <= L
      /\ Cardinality(F) = L => F = 1..L
  <2> HIDE DEF L, F
  <2>1. IsFiniteSet(F) /\ Cardinality(F) <= Cardinality(1..L)
        /\ (Cardinality(1..L) = Cardinality(F) => 1..L = F)
    BY <1>1, <1>2, FS_Subset
  <2> QED
    BY <1>1, <2>1, FS_CardinalityType
<1>4. Verdict(out, n) = "passed" <=> L = n /\ F = 1..L
  BY <1>1, <1>3 DEF Verdict
<1>5. L = n => (F = 1..L <=> \A i \in 1..n : out[i])
  BY <1>2, Zenon
<1> QED
  BY <1>4, <1>5 DEF AllMatch

LEMMA AnswersAreSequences ==
  ASSUME NEW m \in Nat, NEW out \in Answers(m)
  PROVE  out \in Seq(BOOLEAN)
BY DEF Answers

(***************************************************************************)
(* The inductive invariant.                                                *)
(***************************************************************************)
\* c takes part in the game its work names.
TakesPart(c) == c \in Players(work[c].host)

\* From the public run to the answer.
Running(c) ==
  \/ stage[c] \in {"run", "validate", "judge"}
  \/ At(c, "report") /\ work[c].done

\* The stages at which c carries work.
Working == {"prepare", "run", "validate", "judge", "report", "refused"}

\* Its work names the host that its Game names, be the Game in the entry or in
\* a Drop because the entry was removed.
Origin(c) ==
  /\ Listed(c) => game[c] # None
  /\ game[c] # None => game[c].host = work[c].host
  /\ entry[c] = "removed" => orphan[c].host = work[c].host

\* What c carries at its stage.
Placed(c) ==
  /\ stage[c] # "none" => pc[c] = "idle"
  /\ stage[c] \in Working => work[c] \in Work /\ Origin(c)
  /\ stage[c] \in {"prepare", "run", "validate", "judge"} => ~work[c].done
  /\ stage[c] \in {"notice", "undo"} => clone[c] # None

\* What is known of the task its program is judged by.
Sound(c) ==
  /\ At(c, "judge")
       => HasTask(c) /\ AllMatch(work[c].out, PublicTests[TaskOf(c)])
  /\ Running(c) /\ TakesPart(c) => HasTask(c) /\ work[c].ran = TaskOf(c)
  /\ At(c, "report") /\ work[c].done /\ TakesPart(c)
       => AllMatch(work[c].out, PrivateTests[TaskOf(c)])

\* Tasks and progress are those of a game, the latter of a started one.
Books ==
  \A h \in Client :
    /\ ~Hosting(h) => picked[h] = <<>> /\ progress[h] = {}
    /\ Hosting(h) /\ ~game[h].started => progress[h] = {}

CInv ==
  /\ IInv /\ CTypeOK /\ Books
  /\ \A c \in Client : Placed(c) /\ Sound(c)

USE DEF Working

(***************************************************************************)
(* What the steps of the lobby leave of the Games.                         *)
(***************************************************************************)
\* The Game of y stays what it is, but for clients that leave its roster.
Shrinks(y) ==
  \/ game'[y] = game[y]
  \/ /\ game[y] # None /\ game'[y] # None
     /\ game'[y].isHost = game[y].isHost
     /\ game'[y].host = game[y].host
     /\ game'[y].public = game[y].public
     /\ game'[y].started = game[y].started
     /\ game'[y].members \subseteq game[y].members

\* A step moves its own client only, and touches no entry but its own.
LEMMA OthersStay ==
  ASSUME IInv, NEW x \in Client, Request(x) \/ Continue(x) \/ Registration(x)
  PROVE  \A y \in Client \ {x} :
           pc'[y] = pc[y] /\ entry'[y] = entry[y] /\ orphan'[y] = orphan[y]
<1>1. \A y \in Client \ {x} : pc'[y] = pc[y] /\ entry'[y] = entry[y]
  BY OneMoves
<1>2. \A y \in Client \ {x} : orphan'[y] = orphan[y]
  <2>1. CASE Request(x) \/ Continue(x)
    BY <2>1, EntriesAlone
  <2>2. CASE Registration(x)
    BY <2>2 DEF Registration, Evict, OrphanLeaves, OrphanEnds, OrphanDelete,
                Buried, IInv, Typed, TypeOK
  <2> QED
    BY <2>1, <2>2
<1> QED
  BY <1>1, <1>2

\* A game that x may have left shrinks.
LEMMA WithoutShrinks ==
  ASSUME TypeOK, NEW x \in Client, NEW y \in Client,
         game'[y] = game[y] \/ (game[y] # None /\ game'[y] = Without(y, x))
  PROVE  Shrinks(y)
<1>1. CASE game'[y] = game[y]
  BY <1>1 DEF Shrinks
<1>2. CASE game[y] # None /\ game'[y] = Without(y, x)
  BY <1>2, WithoutGame, LobbyConstants DEF Shrinks
<1> QED
  BY <1>1, <1>2

LEMMA MemberDropShrinks ==
  ASSUME IInv, NEW x \in Client, DropMember(x),
         game[x] # None, ~game[x].isHost, pc[x] # "install"
  PROVE  game'[x] = None /\ \A y \in Client \ {x} : Shrinks(y)
<1>1. /\ game'[x] = None
      /\ \A y \in Client \ {x} :
           game'[y] = game[y] \/ (game[y] # None /\ game'[y] = Without(y, x))
  BY DropMemberEffect
<1> QED
  BY <1>1, WithoutShrinks DEF IInv, Typed

\* Of the requests handled while programs are judged, one that changes the
\* Game in an entry has that entry's guard, and leaves no host there.
LEMMA ElsewhereEffect ==
  ASSUME IInv, NEW x \in Client, Elsewhere(x)
  PROVE  /\ Request(x) \/ Continue(x)
         /\ \A y \in Client \ {x} : Shrinks(y)
         /\ game'[x] = game[x] \/ (Free(x) /\ ~Hosting(x)')
<1>0. TypeOK
  BY DEF IInv, Typed
<1>1. Request(x) \/ Continue(x)
  BY DEF Elsewhere, NeedsNoGuard, NeedsOwnGuard, NeedsHostGuard, Request, Continue
<1>2. \/ UNCHANGED game
      \/ Free(x) /\ (JoinInstall(x) \/ Leave(x) \/ StartRefused(x) \/ OnClose(x))
  <2>1. CASE NeedsNoGuard(x)
    BY <2>1 DEF NeedsNoGuard, Connect, Disconnect, JoinClaim, ExistsFetch
  <2>2. CASE NeedsOwnGuard(x)
    BY <2>2 DEF NeedsOwnGuard, Identify, JoinElsewhere, DropDelete, Remove,
                Create, JoinFetch, JoinRefused
  <2>3. CASE NeedsHostGuard(x)
    BY <2>3 DEF NeedsHostGuard, JoinTurnedAway, JoinHostLeft, TaskRefused,
                ExistsVerify
  <2> QED
    BY <2>1, <2>2, <2>3 DEF Elsewhere
<1>3. CASE UNCHANGED game
  BY <1>1, <1>3 DEF Shrinks
<1>4. CASE JoinInstall(x) /\ Free(x) /\ ~UNCHANGED game
  <2>1. game' = [game EXCEPT ![x] = NewGame(FALSE, job[x].id, job[x].host)]
    BY <1>4 DEF JoinInstall, Install
  <2> QED
    BY <1>0, <1>1, <1>4, <2>1 DEF TypeOK, NewGame, Hosting, Shrinks
<1>5. ASSUME game[x] # None, ~game[x].isHost, DropMember(x), pc[x] # "install",
             Free(x)
      PROVE  /\ \A y \in Client \ {x} : Shrinks(y)
             /\ Free(x) /\ ~Hosting(x)'
  BY <1>5, MemberDropShrinks DEF Hosting
<1>6. ASSUME NEW l, DropHost(x, l), Free(x)
      PROVE  /\ \A y \in Client \ {x} : Shrinks(y)
             /\ Free(x) /\ ~Hosting(x)'
  BY <1>0, <1>6 DEF DropHost, TypeOK, Shrinks, Hosting
<1>7. CASE /\ Leave(x) \/ StartRefused(x) \/ OnClose(x)
           /\ Free(x) /\ ~UNCHANGED game
  <2>1. \/ game[x] # None /\ ~game[x].isHost /\ DropMember(x)
        \/ DropHost(x, "leaving") \/ DropHost(x, "ending")
    BY <1>7 DEF Leave, StartRefused, OnClose
  <2>2. pc[x] # "install"
    BY <1>7 DEF Leave, StartRefused, OnClose
  <2> QED
    BY <1>1, <1>5, <1>6, <1>7, <2>1, <2>2
<1> QED
  BY <1>2, <1>3, <1>4, <1>7

\* So has an eviction, and what its Drop leaves of a roster.
LEMMA EvictionsEffect ==
  ASSUME IInv, NEW x \in Client, Evictions(x)
  PROVE  /\ Registration(x) /\ UNCHANGED pc
         /\ \A y \in Client \ {x} : Shrinks(y)
         /\ game'[x] = game[x] \/ (Free(x) /\ ~Hosting(x)')
<1>0. TypeOK
  BY DEF IInv, Typed
<1>1. /\ Registration(x) /\ UNCHANGED pc
      /\ (Evict(x) /\ Free(x)) \/ OrphanLeaves(x) \/ UNCHANGED game
  BY DEF Evictions, Registration, Evict, OrphanLeaves, OrphanEnds, OrphanDelete
<1>2. \A y \in Client \ {x} : Shrinks(y)
  BY <1>0, <1>1, RegistrationEffect, WithoutShrinks
<1>3. game'[x] = None
  BY <1>1, RegistrationEffect
<1>4. OrphanLeaves(x) => game'[x] = game[x]
  BY OrphanLeavesEffect
<1> QED
  BY <1>1, <1>2, <1>3, <1>4 DEF Hosting

\* A client that enters a game was in none.  It becomes the host of an empty
\* one, or joins the roster of one that has not started.
LEMMA EntersEffect ==
  ASSUME IInv, NEW x \in Client, Enters(x)
  PROVE  /\ Request(x) \/ Continue(x)
         /\ game[x] = None /\ pc[x] \in {"host", "register"}
         /\ UNCHANGED eviction
         /\ \/ UNCHANGED game
            \/ /\ Roster(x)' = {} /\ Hosting(x)' /\ ~game'[x].started
               /\ \A y \in Client \ {x} : game'[y] = game[y]
            \/ \E h \in Client \ {x} :
                 /\ Hosting(h) /\ ~game[h].started
                 /\ Hosting(h)' /\ ~game'[h].started
                 /\ game'[h].host = game[h].host
                 /\ Roster(h)' = Roster(h) \cup {x}
                 /\ \A y \in Client \ {h} : game'[y] = game[y]
<1>0. TypeOK
  BY DEF IInv, Typed
<1>1. /\ game[x] = None /\ pc[x] \in {"host", "register"}
      /\ Request(x) \/ Continue(x)
      /\ UNCHANGED eviction
  BY DEF Enters, JoinHost, JoinRegister, IInv, Vacant, Continue
<1>2. CASE JoinHost(x) /\ ~UNCHANGED game
  <2>1. game' = [game EXCEPT ![x] = NewGame(TRUE, job[x].id, x)]
    BY <1>2 DEF JoinHost, Install
  <2>2. /\ game'[x] = NewGame(TRUE, job[x].id, x)
        /\ \A y \in Client \ {x} : game'[y] = game[y]
    BY <1>0, <2>1 DEF TypeOK
  <2>3. game'[x] # None
    <3>1. job[x].id \in GameId
      BY <1>2 DEF IInv, Typed, JoinHost, Job
    <3>2. NewGame(TRUE, job[x].id, x) \in Game
      BY <3>1, NewGameType
    <3> QED
      BY <2>2, <3>2, LobbyConstants DEF LobbyConstants
  <2> QED
    BY <1>1, <2>2, <2>3 DEF NewGame, Hosting, Roster
<1>3. CASE JoinRegister(x)
  <2>1. PICK h \in Client :
          /\ h = job[x].host /\ h # x /\ Hosting(h) /\ game[h].public
          /\ game'[h] # None /\ game'[h].isHost
          /\ game'[h].host = game[h].host
          /\ game'[h].started = game[h].started
          /\ game'[h].members = game[h].members \cup {x}
          /\ \A y \in Client \ {h} : game'[y] = game[y]
    BY <1>3, RegisterEffect
  <2>2. Hosting(h)' /\ Roster(h)' = Roster(h) \cup {x}
    BY <2>1 DEF Hosting, Roster
  <2>3. ~game[h].started
    <3>1. game[h].public = ~game[h].started /\ game[h] \in Game
      BY <1>0, <2>1, GameFields DEF IInv, Shaped, Hosting
    <3>2. game[h].started \in BOOLEAN
      BY <3>1 DEF Game
    <3> QED
      BY <2>1, <3>1, <3>2, Zenon
  <2> QED
    BY <1>1, <2>1, <2>2, <2>3
<1> QED
  BY <1>1, <1>2, <1>3 DEF Enters

\* A Start has the guard of its own entry, and a game not yet started.
LEMMA StartsEffect ==
  ASSUME IInv, NEW x \in Client, NEW n \in TaskCounts, Starts(x, n)
  PROVE  /\ Request(x) /\ Free(x)
         /\ Hosting(x) /\ ~game[x].started /\ Hosting(x)'
         /\ game'[x].host = game[x].host
         /\ Roster(x)' = Roster(x)
         /\ \A y \in Client \ {x} : game'[y] = game[y]
<1>1. n \in 0..MaxTaskCount /\ Start(x, n)
  BY CompileConstants DEF CompileConstants, Starts
<1>2. Request(x)
  BY <1>1 DEF Request
<1> QED
  BY <1>1, <1>2, StartEffect DEF Starts, Start, Hosting, Roster

(***************************************************************************)
(* What a step of x leaves of the work of c.                               *)
(***************************************************************************)
\* What c carries.
CarryKept(c) ==
  /\ pc'[c] = pc[c] /\ stage'[c] = stage[c]
  /\ work'[c] = work[c] /\ clone'[c] = clone[c]
  /\ stage[c] \in Working => Origin(c)'

\* The task that c's program is judged by, as long as it is judged there or
\* c takes part.
TaskKept(c, h) ==
  /\ c \in Players(h)' => c \in Players(h)
  /\ HasTask(c) /\ (At(c, "judge") \/ c \in Players(h)')
       => Hosting(h)' /\ game'[h].started /\ picked'[h] = picked[h]

\* The Game of y still names its host, and its entry is untouched.
SamePlace(y) ==
  /\ game'[y] = None <=> game[y] = None
  /\ game[y] # None => game'[y].host = game[y].host
  /\ entry'[y] = entry[y] /\ orphan'[y] = orphan[y]

LEMMA OriginKept ==
  ASSUME NEW y \in Client, SamePlace(y), work'[y] = work[y], Origin(y)
  PROVE  Origin(y)'
BY DEF SamePlace, Origin, Listed

LEMMA WorkKept ==
  ASSUME CInv, IInv', NEW c \in Client, CarryKept(c),
         \A h \in Client : h = work[c].host => TaskKept(c, h)
  PROVE  Placed(c)' /\ Sound(c)'
<1>0. Placed(c) /\ Sound(c)
  BY DEF CInv
<1>1. Placed(c)'
  BY <1>0 DEF Placed, CarryKept
<1>2. Sound(c)'
  <2>1. CASE ~(At(c, "judge") \/ Running(c))
    BY <2>1 DEF Sound, CarryKept, At, Running
  <2>2. CASE At(c, "judge") \/ Running(c)
    <3>1. PICK h \in Client : h = work[c].host
      BY <1>0, <2>2 DEF Placed, Running, At, Work
    <3>2. /\ TaskKept(c, h) /\ (TakesPart(c)' => TakesPart(c))
          /\ TakesPart(c)' => c \in Players(h)'
      BY <3>1 DEF CarryKept, TakesPart, TaskKept
    <3>3. HasTask(c) /\ (At(c, "judge") \/ TakesPart(c)')
            => HasTask(c)' /\ TaskOf(c)' = TaskOf(c)
      <4> SUFFICES ASSUME HasTask(c), At(c, "judge") \/ TakesPart(c)'
                   PROVE  HasTask(c)' /\ TaskOf(c)' = TaskOf(c)
        OBVIOUS
      <4>1. Hosting(h)' /\ game'[h].started /\ picked'[h] = picked[h]
        BY <3>2 DEF TaskKept
      <4>2. Sees(c, h)'
        <5>1. pc'[h] \notin {"away", "gone"} /\ Listed(h)'
          BY <4>1 DEF IInv, Vacant, Hosting
        <5> QED
          BY <3>1, <5>1 DEF HasTask, Sees
      <4> QED
        BY <3>1, <4>1, <4>2 DEF HasTask, TaskOf, CarryKept
    <3> QED
      BY <1>0, <3>2, <3>3 DEF Sound, CarryKept, At, Running
  <2> QED
    BY <2>1, <2>2
<1> QED
  BY <1>1, <1>2

\* Games that only shrink, with the tasks as they were, keep all of it.
LEMMA ShrinkingKeepsWork ==
  ASSUME CInv, IInv', NEW c \in Client, CarryKept(c),
         \A y \in Client : Shrinks(y) /\ picked'[y] = picked[y]
  PROVE  Placed(c)' /\ Sound(c)'
<1>1. \A h \in Client : h = work[c].host => TaskKept(c, h)
  BY DEF TaskKept, HasTask, Shrinks, Hosting, Roster, Players
<1> QED
  BY <1>1, WorkKept

\* A client that is not compiling has nothing to keep.
LEMMA RestingIsSound ==
  ASSUME NEW c, stage[c] = "none"
  PROVE  Placed(c) /\ Sound(c)
BY DEF Placed, Sound, Running, At

(***************************************************************************)
(* The steps of the lobby keep the invariant.                              *)
(***************************************************************************)
\* An eviction takes along what the work of its client names.
LEMMA EvictionKeepsOrigin ==
  ASSUME CInv, NEW x \in Client, Evictions(x), stage[x] \in Working
  PROVE  Origin(x)'
<1>0. /\ TypeOK /\ Origin(x) /\ UNCHANGED work
      /\ game'[x] = None /\ entry'[x] # "kept"
  BY EvictionsEffect, RegistrationEffect
  DEF CInv, IInv, Typed, Placed, Evictions
<1>1. CASE Evict(x)
  <2>1. orphan'[x] = game[x] /\ game[x] # None
    BY <1>0, <1>1 DEF Evict, TypeOK, Origin
  <2> QED
    BY <1>0, <2>1 DEF Origin, Listed
<1>2. CASE OrphanLeaves(x) \/ OrphanEnds(x) \/ OrphanDelete(x)
  <2>1. entry'[x] # "removed"
    BY <1>0, <1>2 DEF OrphanLeaves, OrphanEnds, OrphanDelete, Buried, TypeOK
  <2> QED
    BY <1>0, <2>1 DEF Origin, Listed
<1> QED
  BY <1>1, <1>2 DEF Evictions

LEMMA QuietKeeps ==
  ASSUME CInv, NEW x \in Client, Elsewhere(x) \/ Evictions(x)
  PROVE  CInv'
<1>1. /\ Request(x) \/ Continue(x) \/ Registration(x)
      /\ \A y \in Client \ {x} : Shrinks(y)
      /\ game'[x] = game[x] \/ (Free(x) /\ ~Hosting(x)')
  BY ElsewhereEffect, EvictionsEffect DEF CInv
<1>1a. /\ IInv'
       /\ \A y \in Client \ {x} :
            pc'[y] = pc[y] /\ entry'[y] = entry[y] /\ orphan'[y] = orphan[y]
  BY <1>1, OthersStay, RequestKeeps, ContinueKeeps, RegistrationKeeps DEF CInv
<1>2. UNCHANGED <<stage, work, clone, news>>
  BY DEF Elsewhere, Evictions
<1>3. /\ picked' = [h \in Client |-> IF Hosting(h)' THEN picked[h] ELSE <<>>]
      /\ progress' = [h \in Client |-> IF Hosting(h)' THEN progress[h] ELSE {}]
  BY DEF Elsewhere, Evictions, TasksFollowGames
<1>4. CTypeOK'
  <2>1. picked' \in [Client -> Seq(Task)] /\ progress' \in [Client -> SUBSET Nat]
    <3>1. <<>> \in Seq(Task)
      OBVIOUS
    <3> QED
      BY <1>3, <3>1, Zenon DEF CInv, CTypeOK
  <2> QED
    BY <1>1a, <1>2, <2>1 DEF CInv, CTypeOK, IInv, Typed
<1>5. \A h \in Client : Hosting(h)' => /\ Hosting(h)
                                      /\ game'[h].started = game[h].started
                                      /\ Roster(h)' \subseteq Roster(h)
  BY <1>1 DEF Shrinks, Hosting, Roster
<1>6. Books'
  BY <1>3, <1>5 DEF CInv, Books
<1>7. ASSUME NEW c \in Client PROVE Placed(c)' /\ Sound(c)'
  <2>1. CASE c = x /\ Elsewhere(x)
    BY <1>2, <2>1, RestingIsSound DEF Placed, Sound, Running, At, Elsewhere
  <2>2. CASE c # x \/ Evictions(x)
    <3>1. CarryKept(c)
      <4>1. pc'[c] = pc[c]
        BY <1>1a, <2>2, EvictionsEffect DEF CInv
      <4>2. ASSUME stage[c] \in Working PROVE Origin(c)'
        <5>1. CASE c = x
          BY <2>2, <4>2, <5>1, EvictionKeepsOrigin
        <5>2. CASE c # x
          <6>1. SamePlace(c)
            BY <1>1, <1>1a, <5>2 DEF SamePlace, Shrinks
          <6> QED
            BY <1>2, <4>2, <6>1, OriginKept DEF CInv, Placed
        <5> QED
          BY <5>1, <5>2
      <4> QED
        BY <1>2, <4>1, <4>2 DEF CarryKept
    <3>2. ASSUME NEW h \in Client, h = work[c].host
          PROVE  TaskKept(c, h)
      <4>1. c \in Players(h)' => c \in Players(h)
        BY <1>5 DEF Players
      <4>2. ASSUME HasTask(c), At(c, "judge") \/ c \in Players(h)'
            PROVE  Hosting(h)'
        <5>1. Hosting(h)
          BY <3>2, <4>2 DEF HasTask
        <5>2. CASE h # x
          BY <1>1, <5>1, <5>2 DEF Shrinks, Hosting
        <5>3. CASE h = x /\ At(c, "judge")
          BY <1>1, <3>2, <5>1, <5>3 DEF Free, At, Hosting
        <5>4. CASE c \in Players(h)'
          BY <5>4 DEF Players
        <5> QED
          BY <4>2, <5>2, <5>3, <5>4
      <4> QED
        BY <1>3, <1>5, <3>2, <4>1, <4>2 DEF TaskKept, HasTask
    <3> QED
      BY <1>1a, <3>1, <3>2, WorkKept
  <2> QED
    BY <2>1, <2>2
<1> QED
  BY <1>1a, <1>4, <1>6, <1>7 DEF CInv

\* What entering a game does to the others and to their games.
LEMMA EntersGames ==
  ASSUME CInv, NEW x \in Client, Enters(x)
  PROVE  /\ x \notin UNION {Roster(h) : h \in Client} /\ progress[x] = {}
         /\ \A y \in Client \ {x} : SamePlace(y)
         /\ \A h \in Client :
              /\ Hosting(h) => /\ Hosting(h)'
                               /\ game'[h].started = game[h].started
              /\ Hosting(h)' /\ ~Hosting(h) => ~game'[h].started
              /\ Roster(h)' \subseteq Roster(h) \cup {x}
              /\ Players(h)' \subseteq Players(h) \cup {x}
<1>1. game[x] = None /\ pc[x] \in {"host", "register"} /\ UNCHANGED eviction
  BY EntersEffect DEF CInv
<1>2. \A h \in Client : x \notin Roster(h)
  BY <1>1, NewcomerOnNone DEF CInv
<1>3. progress[x] = {} /\ ~Hosting(x)
  BY <1>1 DEF CInv, Books, Hosting
<1>4. CASE UNCHANGED game
  BY <1>1, <1>2, <1>3, <1>4 DEF Hosting, Roster, Players, SamePlace
<1>5. CASE /\ Roster(x)' = {} /\ Hosting(x)' /\ ~game'[x].started
           /\ \A y \in Client \ {x} : game'[y] = game[y]
  BY <1>1, <1>2, <1>3, <1>5 DEF Hosting, Roster, Players, SamePlace
<1>6. ASSUME NEW k \in Client \ {x},
             Hosting(k), ~game[k].started, Hosting(k)', ~game'[k].started,
             game'[k].host = game[k].host,
             Roster(k)' = Roster(k) \cup {x},
             \A y \in Client \ {k} : game'[y] = game[y]
      PROVE  /\ \A y \in Client \ {x} : SamePlace(y)
             /\ \A h \in Client :
                  /\ Hosting(h) => /\ Hosting(h)'
                                   /\ game'[h].started = game[h].started
                  /\ Hosting(h)' /\ ~Hosting(h) => ~game'[h].started
                  /\ Roster(h)' \subseteq Roster(h) \cup {x}
                  /\ Players(h)' \subseteq Players(h) \cup {x}
  <2>1. game'[k].started = game[k].started
    <3>1. IInv'
      BY EntersEffect, RequestKeeps, ContinueKeeps DEF CInv
    <3>2. game[k] \in Game /\ game'[k] \in Game
      BY <1>6, <3>1 DEF CInv, IInv, Typed, TypeOK, Hosting
    <3> QED
      BY <1>6, <3>2 DEF Game
  <2>2. \A h \in Client \ {k} : /\ Hosting(h)' = Hosting(h)
                                /\ Roster(h)' = Roster(h)
    BY <1>6 DEF Hosting, Roster
  <2>3. \A h \in Client : Players(h)' \subseteq Players(h) \cup {x}
    BY <1>6, <2>2 DEF Players
  <2>4. \A y \in Client \ {x} : SamePlace(y)
    BY <1>1, <1>6 DEF SamePlace, Hosting
  <2> QED
    BY <1>6, <2>1, <2>2, <2>3, <2>4
<1> QED
  BY <1>2, <1>3, <1>4, <1>5, <1>6, EntersEffect DEF CInv

LEMMA EntersKeeps ==
  ASSUME CInv, NEW x \in Client, Enters(x)
  PROVE  CInv'
<1>1. /\ \A y \in Client \ {x} : pc'[y] = pc[y]
      /\ IInv'
  BY EntersEffect, OthersStay, RequestKeeps, ContinueKeeps DEF CInv
<1>2. /\ stage[x] = "none"
      /\ UNCHANGED <<stage, work, clone, picked, progress>>
      /\ news' = [news EXCEPT ![x] = {}]
  BY DEF Enters, At
<1>3. /\ x \notin UNION {Roster(h) : h \in Client} /\ progress[x] = {}
      /\ \A y \in Client \ {x} : SamePlace(y)
      /\ \A h \in Client :
           /\ Hosting(h) => /\ Hosting(h)'
                            /\ game'[h].started = game[h].started
           /\ Hosting(h)' /\ ~Hosting(h) => ~game'[h].started
           /\ Players(h)' \subseteq Players(h) \cup {x}
  BY EntersGames
<1>4. CTypeOK'
  BY <1>1, <1>2 DEF CInv, CTypeOK, IInv, Typed
<1>5. Books'
  BY <1>2, <1>3 DEF CInv, Books
<1>6. ASSUME NEW c \in Client PROVE Placed(c)' /\ Sound(c)'
  <2>1. CASE c = x
    BY <1>2, <2>1, RestingIsSound DEF Placed, Sound, Running, At
  <2>2. CASE c # x
    <3>1. CarryKept(c)
      BY <1>1, <1>2, <1>3, <2>2, OriginKept DEF CarryKept, CInv, Placed
    <3>2. \A h \in Client : h = work[c].host => TaskKept(c, h)
      BY <1>2, <1>3, <2>2 DEF TaskKept, HasTask
    <3> QED
      BY <1>1, <3>1, <3>2, WorkKept
  <2> QED
    BY <2>1, <2>2
<1> QED
  BY <1>1, <1>4, <1>5, <1>6 DEF CInv

LEMMA StartsKeeps ==
  ASSUME CInv, NEW x \in Client, NEW n \in TaskCounts, Starts(x, n)
  PROVE  CInv'
<1>1. /\ \A y \in Client \ {x} :
           pc'[y] = pc[y] /\ entry'[y] = entry[y] /\ orphan'[y] = orphan[y]
      /\ IInv' /\ Free(x)
      /\ Hosting(x) /\ ~game[x].started /\ Hosting(x)'
      /\ Roster(x)' = Roster(x)
      /\ \A y \in Client \ {x} : game'[y] = game[y]
  BY StartsEffect, OthersStay, RequestKeeps DEF CInv
<1>2. stage[x] = "none" /\ UNCHANGED <<stage, work, clone, news>>
  BY DEF Starts, At
<1>3. PICK s \in Seq(Task) : picked' = [picked EXCEPT ![x] = s]
  <2>1. Chosen(n) \in Nat
    BY LobbyConstants, CompileConstants
    DEF LobbyConstants, CompileConstants, Chosen
  <2>2. PICK s \in Choices(Chosen(n)) : picked' = [picked EXCEPT ![x] = s]
    BY DEF Starts
  <2>3. s \in Seq(Task)
    BY <2>1, <2>2 DEF Choices
  <2> QED
    BY <2>2, <2>3
<1>4. /\ progress' = [progress EXCEPT ![x] = {}]
      /\ progress'[x] = {}
      /\ \A y \in Client \ {x} : /\ progress'[y] = progress[y]
                                 /\ picked'[y] = picked[y]
  BY <1>3 DEF Starts, CInv, CTypeOK
<1>5. \A h \in Client : /\ Hosting(h)' = Hosting(h)
                        /\ Roster(h)' = Roster(h)
                        /\ Players(h)' = Players(h)
                        /\ h # x => game'[h] = game[h]
  BY <1>1 DEF Hosting, Roster, Players
<1>6. CTypeOK'
  <2>1. progress' \in [Client -> SUBSET Nat]
    BY <1>4 DEF CInv, CTypeOK
  <2> QED
    BY <1>1, <1>2, <1>3, <2>1 DEF CInv, CTypeOK, IInv, Typed
<1>7. Books'
  BY <1>1, <1>4, <1>5 DEF CInv, Books
<1>8. ASSUME NEW c \in Client PROVE Placed(c)' /\ Sound(c)'
  <2>1. CASE c = x
    BY <1>2, <2>1, RestingIsSound DEF Placed, Sound, Running, At
  <2>2. CASE c # x
    <3>1. CarryKept(c)
      <4>1. SamePlace(c)
        BY <1>1, <2>2 DEF SamePlace
      <4> QED
        BY <1>1, <1>2, <2>2, <4>1, OriginKept DEF CarryKept, CInv, Placed
    <3>2. ASSUME NEW h \in Client, h = work[c].host, HasTask(c)
          PROVE  h # x
      BY <1>1, <3>2 DEF HasTask
    <3>3. \A h \in Client : h = work[c].host => TaskKept(c, h)
      BY <1>4, <1>5, <3>2 DEF TaskKept, HasTask
    <3> QED
      BY <1>1, <3>1, <3>3, WorkKept
  <2> QED
    BY <2>1, <2>2
<1> QED
  BY <1>1, <1>6, <1>7, <1>8 DEF CInv

LEMMA LobbyStepKeeps ==
  ASSUME CInv, NEW x \in Client, LobbyStep(x)
  PROVE  CInv'
BY QuietKeeps, EntersKeeps, StartsKeeps DEF LobbyStep

(***************************************************************************)
(* The steps of a Compile: what they do to the lobby.                      *)
(***************************************************************************)
\* To the lobby a step of a Compile is nothing, a connection that begins to
\* close, a request cut short, or a clone that is dropped.
LEMMA CompileStepCases ==
  ASSUME NEW x \in Client, CompileStep(x)
  PROVE  \/ UNCHANGED vars
         \/ Failed(x) /\ UNCHANGED <<named, game, redis, minted, known, eviction>>
         \/ AnswerStalls(x) \/ RegisterStalls(x)
         \/ DropMemberClone(x) \/ DropHostClone(x) \/ UndoKey(x)
<1>1. CASE \/ \E i \in 1..MaxIndex : CompileBegin(x, i)
           \/ CompileRefused(x) \/ Sandbox(x) \/ Stalls(x)
  BY <1>1 DEF CompileBegin, CompileRefused, Sandbox, RunEnds, JudgeFails,
              JudgePasses, JudgePanics, Stalls, JudgeStalls
<1>2. CASE Proceed(x)
  BY <1>2 DEF Proceed, Prepare, Validate, Report, Refuse, Timeout, CloneClient
<1> QED
  BY <1>1, <1>2 DEF CompileStep

\* A Compile is handled between two messages of its client; what else a
\* timeout can cut short is a Join at its host.
LEMMA CompileIdle ==
  ASSUME CInv, NEW x \in Client, CompileStep(x)
  PROVE  /\ pc[x] \in {"idle", "register"}
         /\ pc[x] = "register" => AnswerStalls(x) \/ RegisterStalls(x)
<1>1. CASE CompileRefused(x) \/ \E i \in 1..MaxIndex : CompileBegin(x, i)
  BY <1>1 DEF CompileRefused, CompileBegin
<1>2. CASE AnswerStalls(x) \/ RegisterStalls(x)
  BY <1>2 DEF AnswerStalls, Answering, RegisterStalls, At, CInv, Placed
<1>3. CASE Proceed(x) \/ Sandbox(x) \/ JudgeStalls(x)
  <2>1. stage[x] # "none"
    BY <1>3 DEF Proceed, Prepare, Validate, Report, Refuse, Timeout, Awaits,
                CloneClient, DropMemberClone, DropHostClone, UndoKey, Sandbox,
                RunEnds, JudgeFails, JudgePasses, JudgePanics, JudgeStalls, At
  <2> QED
    BY <2>1 DEF CInv, Placed
<1> QED
  BY <1>1, <1>2, <1>3 DEF CompileStep, Stalls

\* Steps between two messages that let rosters shrink.
LEMMA ShrinkingKeepsLobby ==
  ASSUME IInv, NEW x \in Client, pc[x] = "idle",
         UNCHANGED <<pc, job, eviction>>,
         OthersTyped, game' \in [Client -> Game \cup {None}],
         \A y \in Client : Shrinks(y)
  PROVE  IInv'
<1>1. Typed'
  BY DEF IInv, Typed, TypeOK, OthersTyped
<1>2. Vacant' /\ Evicted'
  BY DEF IInv, Vacant, Evicted, Shrinks, Listed
<1>3. Shaped'
  <2> SUFFICES ASSUME NEW y \in Client
               PROVE  /\ game'[y] # None =>
                           /\ game'[y].isHost => game'[y].host = y
                           /\ ~game'[y].isHost => game'[y].members = {}
                           /\ game'[y].public = ~game'[y].started
                           /\ ShardOf[game'[y].host] = ShardOf[y]
                      /\ pc'[y] = "install" => ShardOf[job'[y].host] = ShardOf[y]
    BY DEF Shaped
  <2>1. pc'[y] = "install" => ShardOf[job'[y].host] = ShardOf[y]
    BY DEF IInv, Shaped
  <2>2. CASE game'[y] = game[y]
    BY <2>1, <2>2 DEF IInv, Shaped
  <2>3. CASE game'[y] # game[y]
    BY <2>1, <2>3 DEF IInv, Shaped, Shrinks
  <2> QED
    BY <2>2, <2>3
<1>4. RosterIsReal'
  <2> SUFFICES ASSUME NEW h \in Client, NEW y \in Roster(h)'
               PROVE  Belongs(y, h)'
    BY DEF RosterIsReal
  <2>1. y \in Roster(h)
    BY DEF Shrinks, Roster, Hosting
  <2>2. y \in Client
    BY <2>1, RosterTyped DEF IInv, Typed
  <2>3. Belongs(y, h)
    BY <2>1 DEF IInv, RosterIsReal
  <2>4. game[y] # None => /\ game'[y] # None
                          /\ game'[y].isHost = game[y].isHost
                          /\ game'[y].host = game[y].host
    BY <2>2 DEF Shrinks
  <2> QED
    BY <2>2, <2>3, <2>4 DEF Belongs
<1> QED
  BY <1>1, <1>2, <1>3, <1>4 DEF IInv

\* The Drop of the clone of a member takes it off the roster it is on.
LEMMA DropMemberCloneEffect ==
  ASSUME CInv, NEW x \in Client, DropMemberClone(x)
  PROVE  /\ pc[x] = "idle" /\ UNCHANGED <<pc, named, redis, minted, job, eviction>>
         /\ game' \in [Client -> Game \cup {None}]
         /\ \E h \in Client : \A y \in Client \ {h} : game'[y] = game[y]
         /\ \A y \in Client :
              \/ game'[y] = game[y]
              \/ /\ y # x /\ Hosting(y) /\ x \in Roster(y)
                 /\ game'[y] = Without(y, x)
         /\ \A y \in Client : Shrinks(y)
         /\ known' \in [Client -> SUBSET Client]
<1>0. TypeOK
  BY DEF CInv, IInv, Typed
<1>1. PICK h \in Client : h = clone[x].host
  BY DEF CInv, CTypeOK, Placed, DropMemberClone, At, Game
<1>2. /\ game' \in [Client -> Game \cup {None}]
      /\ \A y \in Client \ {h} : game'[y] = game[y]
      /\ \A y \in Client :
           \/ game'[y] = game[y]
           \/ /\ y # x /\ Hosting(y) /\ x \in Roster(y)
              /\ game'[y] = Without(y, x)
  <2>1. CASE ~OnRoster(x, h)
    BY <1>0, <1>1, <2>1 DEF DropMemberClone, Unregister, TypeOK
  <2>2. CASE OnRoster(x, h)
    <3>1. /\ h # x /\ Hosting(h) /\ x \in Roster(h)
          /\ game' = [game EXCEPT ![h] = Without(h, x)]
      BY <1>1, <2>2 DEF DropMemberClone, Unregister, OnRoster, Roster
    <3>2. Without(h, x) \in Game
      BY <1>0, <3>1, WithoutGame DEF Hosting
    <3> QED
      BY <1>0, <3>1, <3>2 DEF TypeOK
  <2> QED
    BY <2>1, <2>2
<1>3. \A y \in Client : Shrinks(y)
  BY <1>0, <1>2, WithoutShrinks DEF Hosting
<1>4. known' \in [Client -> SUBSET Client]
  <2>1. known' = HearLeave(x, h)
    BY <1>1 DEF DropMemberClone
  <2> QED
    BY <1>0, <2>1 DEF HearLeave, TypeOK
<1>5. pc[x] = "idle"
  BY DEF DropMemberClone, At, CInv, Placed
<1> QED
  BY <1>2, <1>3, <1>4, <1>5 DEF DropMemberClone

\* A step of a Compile, or a timeout, leaves a sound lobby; games only shrink,
\* tasks stay, and the work of others is as it was.
LEMMA CompileStepLobby ==
  ASSUME CInv, NEW x \in Client, CompileStep(x)
  PROVE  /\ IInv' /\ UNCHANGED <<picked, eviction>>
         /\ \A y \in Client : Shrinks(y)
         /\ \A y \in Client \ {x} : CarryKept(y)
<1>0. TypeOK /\ job[x] \in Job \cup {None} /\ pc[x] \in {"idle", "register"}
  BY CompileIdle DEF CInv, IInv, Typed, TypeOK
<1>1. /\ UNCHANGED picked
      /\ \A y \in Client \ {x} : /\ stage'[y] = stage[y] /\ work'[y] = work[y]
                                 /\ clone'[y] = clone[y]
  <2> USE DEF CInv, CTypeOK, Enter, Over
  <2>1. CASE \/ \E i \in 1..MaxIndex : CompileBegin(x, i)
             \/ CompileRefused(x) \/ Prepare(x) \/ Validate(x) \/ Report(x)
             \/ Refuse(x)
    BY <2>1 DEF CompileBegin, CompileRefused, Prepare, Validate, Report, Refuse
  <2>2. CASE \/ Timeout(x) \/ CloneClient(x) \/ DropMemberClone(x)
             \/ DropHostClone(x) \/ UndoKey(x)
    BY <2>2 DEF Timeout, CloneClient, DropMemberClone, DropHostClone, UndoKey
  <2>3. CASE Sandbox(x)
    BY <2>3 DEF Sandbox, RunEnds, JudgeFails, JudgePasses, JudgePanics
  <2>4. CASE Stalls(x)
    BY <2>4 DEF Stalls, AnswerStalls, RegisterStalls, JudgeStalls
  <2> QED
    BY <2>1, <2>2, <2>3, <2>4 DEF CompileStep, Proceed
<1>2. ASSUME IInv', UNCHANGED eviction, \A y \in Client : Shrinks(y),
             \A y \in Client \ {x} : pc'[y] = pc[y]
      PROVE  /\ IInv' /\ UNCHANGED <<picked, eviction>>
             /\ \A y \in Client : Shrinks(y)
             /\ \A y \in Client \ {x} : CarryKept(y)
  <2>1. ASSUME NEW y \in Client \ {x} PROVE CarryKept(y)
    <3>1. SamePlace(y)
      BY <1>2 DEF SamePlace, Shrinks
    <3>2. stage[y] \in Working => Origin(y)'
      BY <1>1, <3>1, OriginKept DEF CInv, Placed
    <3> QED
      BY <1>1, <1>2, <3>2 DEF CarryKept
  <2> QED
    BY <1>1, <1>2, <2>1
<1>3. CASE UNCHANGED vars
  <2>1. IInv'
    BY <1>3 DEF CInv, vars, IInv, Typed, TypeOK, Vacant, Evicted, Shaped, Listed,
                RosterIsReal, Belongs, Roster, Hosting
  <2> QED
    BY <1>2, <1>3, <2>1 DEF vars, Shrinks
<1>4. ASSUME NEW l \in {"idle", "closing"}, Moves(x, l, None),
             UNCHANGED <<named, game, redis, minted, eviction>>,
             known' \in [Client -> SUBSET Client]
      PROVE  /\ IInv' /\ UNCHANGED <<picked, eviction>>
             /\ \A y \in Client : Shrinks(y)
             /\ \A y \in Client \ {x} : CarryKept(y)
  <2>1. OthersTyped /\ MayGo(x, l)
    BY <1>0, <1>4 DEF TypeOK, OthersTyped, MayGo
  <2>2. IInv'
    BY <1>4, <2>1, GamesKept DEF CInv
  <2> QED
    BY <1>0, <1>2, <1>4, <2>2 DEF Shrinks, Moves, Goto, TypeOK
<1>5. CASE Failed(x) /\ UNCHANGED <<named, game, redis, minted, known, eviction>>
  BY <1>0, <1>4, <1>5 DEF Failed, Done, Moves, TypeOK
<1>6. CASE AnswerStalls(x)
  BY <1>0, <1>4, <1>6 DEF AnswerStalls, Kept, Done, Moves, TypeOK
<1>7. CASE RegisterStalls(x)
  <2>1. known' \in [Client -> SUBSET Client]
    <3>1. job[x] \in Job
      BY <1>7 DEF CInv, IInv, Typed, RegisterStalls
    <3> DEFINE h == job[x].host
    <3>2. h \in Client
      BY <3>1 DEF Job
    <3>3. game[h] # None
      BY <1>7 DEF RegisterStalls
    <3>4. game[h].members \subseteq Client /\ Audience(h) \subseteq Client
      <4> HIDE DEF h
      <4> QED
        BY <1>0, <3>2, <3>3, GameFields DEF Audience
    <3>5. PICK heard \in SUBSET Audience(h), told \in SUBSET game[h].members :
            known' = [y \in Client |->
                        known[y] \cup (IF y = x THEN heard ELSE {})
                                 \cup (IF y \in told THEN {x} ELSE {})]
      BY <1>7, Zenon DEF RegisterStalls
    <3> HIDE DEF h
    <3>6. \A y \in Client : /\ known[y] \subseteq Client
                          /\ (IF y = x THEN heard ELSE {}) \subseteq Client
                          /\ (IF y \in told THEN {x} ELSE {}) \subseteq Client
      BY <1>0, <3>4 DEF TypeOK
    <3> QED
      BY <3>5, <3>6
  <2> QED
    BY <1>4, <1>7, <2>1 DEF RegisterStalls, NotYetIn, Kept, Done, Moves
<1>8. CASE DropMemberClone(x)
  <2>1. /\ pc[x] = "idle" /\ OthersTyped
        /\ UNCHANGED <<pc, job, eviction>>
        /\ game' \in [Client -> Game \cup {None}] /\ \A y \in Client : Shrinks(y)
    BY <1>0, <1>8, DropMemberCloneEffect DEF TypeOK, OthersTyped
  <2>2. IInv'
    BY <2>1, ShrinkingKeepsLobby DEF CInv
  <2> QED
    BY <1>2, <2>1, <2>2
<1>9. CASE DropHostClone(x) \/ UndoKey(x)
  <2>1. clone[x] \in Game /\ clone[x].id \in GameId /\ pc[x] = "idle"
    BY <1>9 DEF CInv, CTypeOK, Placed, DropHostClone, UndoKey, At, Game
  <2>2. redis' \in [GameId -> Client \cup {None, Unclaimed}]
    <3>1. Deleted(clone[x].id) \in [GameId -> Client \cup {None, Unclaimed}]
      BY <1>0, <2>1 DEF TypeOK, Deleted
    <3>2. redis' = Deleted(clone[x].id) \/ redis' = redis
      BY <1>9 DEF DropHostClone, UndoKey, Executes
    <3> QED
      BY <1>0, <3>1, <3>2 DEF TypeOK
  <2>3. known' \in [Client -> SUBSET Client]
    BY <1>0, <1>9 DEF TypeOK, DropHostClone, UndoKey, HearShutdown
  <2>4. /\ OthersTyped /\ game' \in [Client -> Game \cup {None}]
        /\ UNCHANGED <<game, eviction>>
        /\ \A y \in Client : Shrinks(y)
    BY <1>0, <1>9, <2>2, <2>3
    DEF TypeOK, OthersTyped, DropHostClone, UndoKey, Shrinks
  <2>5. CASE UNCHANGED <<pc, job>>
    BY <1>2, <2>1, <2>4, <2>5, ShrinkingKeepsLobby DEF CInv
  <2>6. CASE Failed(x)
    <3>1. Moves(x, "closing", None) /\ MayGo(x, "closing")
      BY <2>1, <2>6 DEF Failed, Done, Moves, MayGo
    <3>2. IInv'
      BY <2>4, <3>1, GamesKept DEF CInv
    <3> QED
      BY <1>0, <1>2, <2>4, <3>1, <3>2 DEF Moves, Goto, TypeOK
  <2> QED
    BY <1>9, <2>5, <2>6 DEF DropHostClone, UndoKey
<1> QED
  BY <1>3, <1>5, <1>6, <1>7, <1>8, <1>9, CompileStepCases

(***************************************************************************)
(* The steps of a Compile: what they do to its own work.                   *)
(***************************************************************************)
\* Stages at which nothing is claimed of the task.
LEMMA NothingClaimed ==
  ASSUME NEW c, \/ stage[c] \in {"prepare", "refused", "timedout", "notice", "undo"}
                \/ stage[c] = "report" /\ ~work[c].done
  PROVE  Sound(c)
BY DEF Sound, Running, At

\* The task that a program is judged by, when the lobby does nothing.
LEMMA SameTask ==
  ASSUME UNCHANGED <<vars, picked>>, NEW c \in Client,
         work'[c].host = work[c].host, work'[c].index = work[c].index
  PROVE  /\ HasTask(c)' <=> HasTask(c)
         /\ TaskOf(c)' = TaskOf(c)
         /\ TakesPart(c)' <=> TakesPart(c)
BY DEF vars, HasTask, TaskOf, TakesPart, Players, Sees, Listed, Hosting, Roster

\* There is a task where HasTask says so.
LEMMA TaskTyped ==
  ASSUME CTypeOK, NEW c \in Client, work[c] \in Work, HasTask(c)
  PROVE  TaskOf(c) \in Task
<1>1. /\ picked[work[c].host] \in Seq(Task)
      /\ work[c].index \in 1..Len(picked[work[c].host])
  BY DEF CTypeOK, HasTask, Work
<1> QED
  BY <1>1 DEF TaskOf

\* Its work keeps its origin, when the lobby does nothing.
LEMMA OriginUnmoved ==
  ASSUME UNCHANGED vars, NEW c \in Client, work'[c].host = work[c].host, Origin(c)
  PROVE  Origin(c)'
BY DEF vars, Origin, Listed

\* What a Compile carries stays typed, and what is claimed of it true.
OwnKept(c) ==
  /\ stage' \in [Client -> Stage]
  /\ work' \in [Client -> Work \cup {None}]
  /\ clone' \in [Client -> Game \cup {None}]
  /\ Placed(c)' /\ Sound(c)'

LEMMA BeginKeeps ==
  ASSUME CInv, NEW x \in Client, NEW i \in 1..MaxIndex, CompileBegin(x, i)
  PROVE  OwnKept(x)
<1>1. /\ stage' = [stage EXCEPT ![x] = "prepare"]
      /\ stage' \in [Client -> Stage] /\ stage'[x] = "prepare"
  BY DEF CompileBegin, Enter, CInv, CTypeOK, Stage
<1>2. game[x].host \in Client /\ i \in Nat
  <2>1. TypeOK
    BY DEF CInv, IInv, Typed
  <2> QED
    BY <2>1, GameFields, CompileConstants DEF CompileBegin, CompileConstants
<1>3. [host |-> game[x].host, index |-> i, ran |-> None, out |-> <<>>,
       done |-> FALSE] \in Work
  <2>1. <<>> \in Seq(BOOLEAN)
    OBVIOUS
  <2> QED
    BY <1>2, <2>1 DEF Work
<1>4. /\ work' \in [Client -> Work \cup {None}]
      /\ work'[x] \in Work /\ ~work'[x].done
  BY <1>3 DEF CompileBegin, CInv, CTypeOK
<1>5. Placed(x)'
  <2>1. Listed(x)
    BY DEF CompileBegin, CInv, IInv, Vacant
  <2>2. work'[x].host = game[x].host
    BY DEF CompileBegin, CInv, CTypeOK
  <2>3. Origin(x)'
    BY <2>1, <2>2 DEF CompileBegin, vars, Origin, Listed
  <2> QED
    BY <1>1, <1>4, <2>3 DEF CompileBegin, vars, Placed
<1>6. Sound(x)'
  BY <1>1, NothingClaimed DEF Sound, Running, At
<1> QED
  BY <1>1, <1>4, <1>5, <1>6 DEF OwnKept, CompileBegin, CInv, CTypeOK

\* A Compile that goes on to the next run, or to an answer without a verdict.
LEMMA AdvanceKeeps ==
  ASSUME CInv, NEW x \in Client, UNCHANGED <<vars, work, clone, picked>>,
         NEW s \in {"validate", "report", "refused"}, Enter(x, s),
         stage[x] \in {"prepare", "run", "validate", "judge"},
         s = "validate" => stage[x] = "run"
  PROVE  OwnKept(x)
<1>1. /\ stage' \in [Client -> Stage] /\ stage'[x] = s
      /\ pc[x] = "idle" /\ work[x] \in Work /\ ~work[x].done /\ Origin(x)
  BY DEF Enter, CInv, CTypeOK, Stage, Placed
<1>2. Placed(x)'
  <2>1. Origin(x)'
    BY <1>1, OriginUnmoved
  <2> QED
    BY <1>1, <2>1 DEF Placed, vars
<1>3. Sound(x)'
  <2>1. CASE s \in {"report", "refused"}
    BY <1>1, <2>1 DEF Sound, Running, At
  <2>2. CASE s = "validate"
    <3>1. Running(x) /\ Sound(x)
      BY <2>2 DEF Running, CInv
    <3> QED
      BY <1>1, <2>2, <3>1, SameTask DEF Sound, At
  <2> QED
    BY <2>1, <2>2
<1> QED
  BY <1>1, <1>2, <1>3 DEF OwnKept, CInv, CTypeOK

LEMMA PrepareKeeps ==
  ASSUME CInv, NEW x \in Client, Prepare(x)
  PROVE  OwnKept(x)
<1>0. /\ UNCHANGED <<vars, clone, picked>>
      /\ clone \in [Client -> Game \cup {None}]
      /\ pc[x] = "idle" /\ Origin(x) /\ work[x] \in Work /\ ~work[x].done
  BY DEF Prepare, CInv, CTypeOK, Placed, At
<1>1. CASE HasTask(x) /\ Enter(x, "run") /\ work' = [work EXCEPT ![x].ran = Gathered(x)]
  <2>1. stage' \in [Client -> Stage] /\ stage'[x] = "run"
    BY <1>1 DEF Enter, CInv, CTypeOK, Stage
  <2>2. /\ TaskOf(x) \in Task
        /\ work' = [work EXCEPT ![x] = [work[x] EXCEPT !.ran = TaskOf(x)]]
    BY <1>0, <1>1, TaskTyped DEF CInv, Gathered
  <2>3. [work[x] EXCEPT !.ran = TaskOf(x)] \in Work
    BY <1>0, <2>2 DEF Work
  <2>4. /\ work' \in [Client -> Work \cup {None}] /\ work'[x] \in Work
        /\ work'[x].host = work[x].host /\ work'[x].index = work[x].index
        /\ work'[x].ran = TaskOf(x) /\ work'[x].done = work[x].done
    BY <1>0, <2>2, <2>3 DEF CInv, CTypeOK, Work
  <2>5. HasTask(x)' /\ TaskOf(x)' = TaskOf(x)
    BY <1>0, <1>1, <2>4, SameTask
  <2>6. Origin(x)'
    BY <1>0, <2>4, OriginUnmoved
  <2> QED
    BY <1>0, <2>1, <2>4, <2>5, <2>6 DEF OwnKept, Placed, Sound, Running, At, vars
<1>2. CASE Enter(x, "refused") /\ UNCHANGED work
  BY <1>0, <1>2, AdvanceKeeps DEF Prepare, At
<1> QED
  BY <1>1, <1>2 DEF Prepare

\* The public run: what passed is what AllMatch says, and the task is still
\* that of the run for a client that takes part.
LEMMA ValidateKeeps ==
  ASSUME CInv, NEW x \in Client, Validate(x)
  PROVE  OwnKept(x)
<1>0. /\ UNCHANGED <<vars, clone, picked>> /\ stage[x] = "validate"
      /\ clone \in [Client -> Game \cup {None}]
      /\ pc[x] = "idle" /\ Origin(x) /\ work[x] \in Work /\ ~work[x].done
  BY DEF Validate, CInv, CTypeOK, Placed, At
<1>1. CASE (Enter(x, "report") \/ Enter(x, "refused")) /\ UNCHANGED work
  BY <1>0, <1>1, AdvanceKeeps
<1>2. ASSUME HasTask(x), NEW out \in Answers(MaxOutputs),
             Verdict(out, PublicTests[TaskOf(x)]) = "passed",
             Enter(x, "judge"), work' = [work EXCEPT ![x].out = out]
      PROVE  OwnKept(x)
  <2>1. stage' \in [Client -> Stage] /\ stage'[x] = "judge"
    BY <1>2 DEF Enter, CInv, CTypeOK, Stage
  <2>2. out \in Seq(BOOLEAN)
    BY AnswersAreSequences, CompileConstants DEF CompileConstants
  <2>3. work' = [work EXCEPT ![x] = [work[x] EXCEPT !.out = out]]
    BY <1>2
  <2>4. [work[x] EXCEPT !.out = out] \in Work
    BY <1>0, <2>2 DEF Work
  <2>5. /\ work' \in [Client -> Work \cup {None}] /\ work'[x] \in Work
        /\ work'[x].host = work[x].host /\ work'[x].index = work[x].index
        /\ work'[x].ran = work[x].ran /\ work'[x].done = work[x].done
        /\ work'[x].out = out
    BY <1>0, <2>3, <2>4 DEF CInv, CTypeOK, Work
  <2>6. /\ HasTask(x)' /\ TaskOf(x)' = TaskOf(x)
        /\ TakesPart(x)' <=> TakesPart(x)
    BY <1>0, <1>2, <2>5, SameTask
  <2>7. AllMatch(out, PublicTests[TaskOf(x)])
    <3>1. PublicTests[TaskOf(x)] \in Nat
      BY <1>0, <1>2, TaskTyped, CompileConstants DEF CInv, CompileConstants
    <3> QED
      BY <1>2, <2>2, <3>1, PassedMeansAllMatch
  <2>8. Running(x) /\ Sound(x)
    BY <1>0 DEF Running, CInv
  <2>9. Sound(x)'
    BY <2>1, <2>5, <2>6, <2>7, <2>8 DEF Sound, At
  <2>10. Origin(x)'
    BY <1>0, <2>5, OriginUnmoved
  <2> QED
    BY <1>0, <2>1, <2>5, <2>9, <2>10 DEF OwnKept, Placed, vars
<1> QED
  BY <1>1, <1>2 DEF Validate

\* The private run, and the verdict.
LEMMA JudgePassesKeeps ==
  ASSUME CInv, NEW x \in Client, JudgePasses(x)
  PROVE  OwnKept(x)
<1>0. /\ UNCHANGED <<vars, clone, picked>> /\ stage[x] = "judge"
      /\ clone \in [Client -> Game \cup {None}]
      /\ pc[x] = "idle" /\ Origin(x) /\ work[x] \in Work
      /\ HasTask(x) /\ Sound(x)
  BY DEF JudgePasses, CInv, CTypeOK, Placed, Sound, At
<1>1. stage' \in [Client -> Stage] /\ stage'[x] = "report"
  BY DEF JudgePasses, Enter, CInv, CTypeOK, Stage
<1>2. PICK out \in Answers(MaxOutputs) :
        /\ Verdict(out, PrivateTests[TaskOf(x)]) = "passed"
        /\ work' = [work EXCEPT ![x].out = out, ![x].done = TRUE]
  BY DEF JudgePasses
<1>3. out \in Seq(BOOLEAN)
  BY AnswersAreSequences, CompileConstants DEF CompileConstants
<1>4. /\ work' = [work EXCEPT ![x] = [work[x] EXCEPT !.out = out, !.done = TRUE]]
      /\ [work[x] EXCEPT !.out = out, !.done = TRUE] \in Work
  BY <1>0, <1>2, <1>3 DEF Work, CInv, CTypeOK
<1>5. /\ work' \in [Client -> Work \cup {None}] /\ work'[x] \in Work
      /\ work'[x].host = work[x].host /\ work'[x].index = work[x].index
      /\ work'[x].ran = work[x].ran /\ work'[x].out = out
  BY <1>0, <1>4 DEF CInv, CTypeOK, Work
<1>6. /\ HasTask(x)' /\ TaskOf(x)' = TaskOf(x)
      /\ TakesPart(x)' <=> TakesPart(x)
  BY <1>0, <1>5, SameTask
<1>7. AllMatch(out, PrivateTests[TaskOf(x)])
  <2>1. PrivateTests[TaskOf(x)] \in Nat
    BY <1>0, TaskTyped, CompileConstants DEF CInv, CompileConstants
  <2> QED
    BY <1>2, <1>3, <2>1, PassedMeansAllMatch
<1>8. Running(x)
  BY <1>0 DEF Running
<1>9. Sound(x)'
  BY <1>0, <1>1, <1>5, <1>6, <1>7, <1>8 DEF Sound, At
<1>10. Origin(x)'
  BY <1>0, <1>5, OriginUnmoved
<1> QED
  BY <1>0, <1>1, <1>5, <1>9, <1>10 DEF OwnKept, Placed, vars

\* A Compile that is over.
LEMMA OverKeeps ==
  ASSUME CInv, NEW x \in Client, stage' = [stage EXCEPT ![x] = "none"],
         work' \in [Client -> Work \cup {None}],
         clone' \in [Client -> Game \cup {None}]
  PROVE  OwnKept(x)
<1>1. stage' \in [Client -> Stage] /\ stage'[x] = "none"
  BY DEF CInv, CTypeOK, Stage
<1> QED
  BY <1>1 DEF OwnKept, Placed, Sound, Running, At

\* A handler that a timeout has dropped.
LEMMA TimedOutKeeps ==
  ASSUME CInv, NEW x \in Client, stage' = [stage EXCEPT ![x] = "timedout"],
         work' \in [Client -> Work \cup {None}], UNCHANGED clone,
         pc'[x] = "idle"
  PROVE  OwnKept(x)
<1>1. stage' \in [Client -> Stage] /\ stage'[x] = "timedout"
  BY DEF CInv, CTypeOK, Stage
<1> QED
  BY <1>1 DEF OwnKept, Placed, Sound, Running, At, CInv, CTypeOK

\* The use of the clone.
LEMMA CloneKeeps ==
  ASSUME CInv, NEW x \in Client, CloneClient(x) \/ DropHostClone(x)
  PROVE  OwnKept(x)
<1>0. /\ pc[x] = "idle" /\ TypeOK
      /\ work \in [Client -> Work \cup {None}]
      /\ clone \in [Client -> Game \cup {None}]
  BY DEF CInv, CTypeOK, Placed, CloneClient, DropHostClone, At
<1>1. /\ work' \in [Client -> Work \cup {None}]
      /\ clone' \in [Client -> Game \cup {None}]
  BY <1>0 DEF CloneClient, DropHostClone, TypeOK
<1>2. CASE stage' = [stage EXCEPT ![x] = "none"]
  BY <1>1, <1>2, OverKeeps
<1>3. ASSUME NEW s \in {"notice", "undo"}, Enter(x, s),
             UNCHANGED pc, clone'[x] # None
      PROVE  OwnKept(x)
  <2>1. stage' \in [Client -> Stage] /\ stage'[x] = s
    BY <1>3 DEF Enter, CInv, CTypeOK, Stage
  <2> QED
    BY <1>0, <1>1, <1>3, <2>1 DEF OwnKept, Placed, Sound, Running, At
<1>4. CASE CloneClient(x)
  <2>1. clone'[x] = game[x]
    BY <1>0, <1>4 DEF CloneClient
  <2> QED
    BY <1>2, <1>3, <1>4, <2>1 DEF CloneClient, Enter, vars
<1>5. CASE DropHostClone(x)
  <2>1. clone[x] # None
    BY <1>5 DEF DropHostClone, At, CInv, Placed
  <2> QED
    BY <1>3, <1>5, <2>1 DEF DropHostClone
<1> QED
  BY <1>4, <1>5

LEMMA CompileStepOwn ==
  ASSUME CInv, NEW x \in Client, CompileStep(x)
  PROVE  OwnKept(x)
<1>0. /\ work \in [Client -> Work \cup {None}]
      /\ clone \in [Client -> Game \cup {None}]
      /\ [work EXCEPT ![x] = None] \in [Client -> Work \cup {None}]
      /\ [clone EXCEPT ![x] = None] \in [Client -> Game \cup {None}]
  BY DEF CInv, CTypeOK
<1>1. CASE CompileRefused(x)
  <2>1. stage' = [stage EXCEPT ![x] = "none"]
    BY <1>1 DEF CompileRefused, At, CInv, CTypeOK
  <2> QED
    BY <1>0, <1>1, <2>1, OverKeeps DEF CompileRefused
<1>2. CASE Report(x) \/ Refuse(x) \/ JudgePanics(x)
  BY <1>0, <1>2, OverKeeps DEF Report, Refuse, JudgePanics, Over, Enter, vars
<1>3. CASE DropMemberClone(x) \/ UndoKey(x)
  BY <1>0, <1>3, OverKeeps DEF DropMemberClone, UndoKey, Enter
<1>4. CASE RunEnds(x)
  <2>1. CASE Enter(x, "validate") /\ UNCHANGED <<vars, work>>
    BY <1>4, <2>1, AdvanceKeeps DEF RunEnds, At
  <2>2. CASE Over(x)
    BY <1>0, <1>4, <2>2, OverKeeps DEF RunEnds, Over, Enter
  <2> QED
    BY <1>4, <2>1, <2>2 DEF RunEnds
<1>5. CASE JudgeFails(x)
  <2>1. UNCHANGED work
    <3>1. ~work[x].done /\ work[x] \in Work
      BY <1>5 DEF JudgeFails, CInv, Placed, At
    <3>2. [work EXCEPT ![x].done = FALSE] = work
      BY <1>0, <3>1 DEF Work
    <3> QED
      BY <1>5, <3>2 DEF JudgeFails, IsDone
  <2> QED
    BY <1>5, <2>1, AdvanceKeeps DEF JudgeFails, At
<1>6. CASE Timeout(x) \/ JudgeStalls(x)
  <2>1. pc'[x] = "idle"
    BY <1>6 DEF Timeout, Awaits, JudgeStalls, At, CInv, Placed, vars
  <2> QED
    BY <1>0, <1>6, <2>1, TimedOutKeeps DEF Timeout, JudgeStalls, Enter
<1>7. CASE AnswerStalls(x) \/ RegisterStalls(x)
  <2>1. pc'[x] = "idle"
    BY <1>7 DEF AnswerStalls, RegisterStalls, Kept, Done, Goto, CInv, CTypeOK, TypeOK
  <2> QED
    BY <1>0, <1>7, <2>1, TimedOutKeeps DEF AnswerStalls, RegisterStalls, Enter
<1> QED
  BY <1>1, <1>2, <1>3, <1>4, <1>5, <1>6, <1>7, BeginKeeps, PrepareKeeps,
     ValidateKeeps, JudgePassesKeeps, CloneKeeps
  DEF CompileStep, Proceed, Sandbox, Stalls

(***************************************************************************)
(* The steps of a Compile: progress and news.                              *)
(***************************************************************************)
\* Some of those that an event of x concerns are told of i.
Tells(x, i) ==
  \E told \in SUBSET Told(x) :
    news' = [y \in Client |-> news[y] \cup (IF y \in told THEN {i} ELSE {})]

\* A task is set as finished in a started game only, the lobby at rest.
LEMMA Recorded ==
  ASSUME CInv, NEW x \in Client, JudgePasses(x) \/ JudgeStalls(x)
  PROVE  \E h \in Client, i \in Nat :
           /\ h = work[x].host /\ i = work[x].index
           /\ Hosting(h) /\ game[h].started
           /\ UNCHANGED <<vars, picked>>
           /\ progress' = [progress EXCEPT ![h] = @ \cup {i}]
           /\ Tells(x, i)
<1>1. work[x] \in Work /\ HasTask(x) /\ UNCHANGED <<vars, picked>>
  BY DEF JudgePasses, JudgeStalls, CInv, Placed, Sound, At
<1>2. Tells(x, work[x].index)
  <2>1. CASE JudgePasses(x)
    BY <2>1, Zenon DEF JudgePasses, Tells
  <2>2. CASE JudgeStalls(x)
    <3>1. SUBSET (Told(x) \ {work[x].host}) \subseteq SUBSET Told(x)
      OBVIOUS
    <3> QED
      BY <2>2, <3>1, Zenon DEF JudgeStalls, Tells
  <2> QED
    BY <2>1, <2>2
<1>3. progress' = [progress EXCEPT ![work[x].host] = @ \cup {work[x].index}]
  BY DEF JudgePasses, JudgeStalls
<1> QED
  BY <1>1, <1>2, <1>3 DEF HasTask, Work

\* The other steps find no task finished, and only Report tells of one.
LEMMA NothingRecorded ==
  ASSUME CInv, NEW x \in Client, CompileStep(x),
         ~JudgePasses(x), ~JudgeStalls(x)
  PROVE  /\ UNCHANGED progress
         /\ \/ UNCHANGED news
            \/ /\ At(x, "report") /\ UNCHANGED vars
               /\ news' = [news EXCEPT ![x] =
                    @ \cup (IF work[x].done THEN {work[x].index} ELSE {})]
BY DEF CompileStep, Proceed, Sandbox, Stalls, CompileBegin, CompileRefused,
       Prepare, Validate, Report, Refuse, Timeout, CloneClient, DropMemberClone,
       DropHostClone, UndoKey, RunEnds, JudgeFails, JudgePanics, AnswerStalls,
       RegisterStalls

LEMMA BooksKept ==
  ASSUME CInv, NEW x \in Client, CompileStep(x)
  PROVE  /\ Books'
         /\ progress' \in [Client -> SUBSET Nat]
         /\ news' \in [Client -> SUBSET Nat]
<1>0. /\ progress \in [Client -> SUBSET Nat] /\ news \in [Client -> SUBSET Nat]
      /\ UNCHANGED picked /\ \A y \in Client : Shrinks(y)
  BY CompileStepLobby DEF CInv, CTypeOK
<1>1. CASE JudgePasses(x) \/ JudgeStalls(x)
  <2>1. PICK h \in Client, i \in Nat :
          /\ Hosting(h) /\ game[h].started /\ UNCHANGED <<vars, picked>>
          /\ progress' = [progress EXCEPT ![h] = @ \cup {i}]
          /\ Tells(x, i)
    BY <1>1, Recorded
  <2>2. progress' \in [Client -> SUBSET Nat] /\ news' \in [Client -> SUBSET Nat]
    <3>1. \A told : \A y \in Client :
            /\ news[y] \subseteq Nat
            /\ (IF y \in told THEN {i} ELSE {}) \subseteq Nat
      BY <1>0
    <3> QED
      BY <1>0, <2>1, <3>1 DEF Tells
  <2>3. Books'
    BY <1>0, <2>1 DEF CInv, Books, vars, Hosting
  <2> QED
    BY <2>2, <2>3
<1>2. CASE ~JudgePasses(x) /\ ~JudgeStalls(x)
  <2>1. UNCHANGED progress
    BY <1>2, NothingRecorded
  <2>2. Books'
    BY <1>0, <2>1 DEF CInv, Books, Shrinks, Hosting
  <2>3. ASSUME At(x, "report") PROVE work[x].index \in Nat
    BY <2>3 DEF CInv, Placed, At, Work
  <2>4. news' \in [Client -> SUBSET Nat]
    BY <1>0, <1>2, <2>3, NothingRecorded
  <2> QED
    BY <1>0, <2>1, <2>2, <2>4
<1> QED
  BY <1>1, <1>2

LEMMA CompileStepKeeps ==
  ASSUME CInv, NEW x \in Client, CompileStep(x)
  PROVE  CInv'
<1>1. /\ IInv' /\ OwnKept(x) /\ UNCHANGED picked
      /\ \A y \in Client : Shrinks(y)
      /\ \A y \in Client \ {x} : CarryKept(y)
  BY CompileStepLobby, CompileStepOwn
<1>2. /\ Books'
      /\ progress' \in [Client -> SUBSET Nat]
      /\ news' \in [Client -> SUBSET Nat]
  BY BooksKept
<1>3. CTypeOK'
  BY <1>1, <1>2 DEF CInv, CTypeOK, OwnKept, IInv, Typed
<1>4. \A c \in Client : Placed(c)' /\ Sound(c)'
  BY <1>1, ShrinkingKeepsWork DEF OwnKept
<1> QED
  BY <1>1, <1>2, <1>3, <1>4 DEF CInv

(***************************************************************************)
(* Theorems.                                                               *)
(***************************************************************************)
LEMMA CInitKeeps == CInit => CInv
<1> SUFFICES ASSUME CInit PROVE CInv
  OBVIOUS
<1>1. IInv
  BY InitKeeps DEF CInit
<1>2. CTypeOK
  <2>1. <<>> \in Seq(Task)
    OBVIOUS
  <2> QED
    BY <1>1, <2>1 DEF CInit, CTypeOK, Stage, IInv, Typed
<1>3. Books
  BY DEF CInit, Books
<1>4. \A c \in Client : Placed(c) /\ Sound(c)
  BY RestingIsSound DEF CInit
<1> QED
  BY <1>1, <1>2, <1>3, <1>4 DEF CInv

LEMMA IdleKeeps == CInv /\ UNCHANGED cvars => CInv'
<1> SUFFICES ASSUME CInv, UNCHANGED cvars PROVE CInv'
  OBVIOUS
<1>1. UNCHANGED <<vars, stage, work, clone, picked, progress, news>>
  BY DEF cvars
<1>2. IInv'
  BY <1>1 DEF CInv, vars, IInv, Typed, TypeOK, Vacant, Evicted, Shaped, Listed,
              RosterIsReal, Belongs, Roster, Hosting
<1>3. CTypeOK' /\ Books'
  BY <1>1 DEF CInv, vars, CTypeOK, TypeOK, Books, Hosting
<1>4. \A c \in Client : Placed(c)' /\ Sound(c)'
  <2>1. \A c \in Client : SamePlace(c) /\ Shrinks(c)
    BY <1>1 DEF vars, SamePlace, Shrinks
  <2>2. \A c \in Client : CarryKept(c)
    BY <1>1, <2>1, OriginKept DEF vars, CarryKept, CInv, Placed
  <2> QED
    BY <1>1, <1>2, <2>1, <2>2, ShrinkingKeepsWork
<1> QED
  BY <1>2, <1>3, <1>4 DEF CInv

LEMMA CNextKeeps == CInv /\ [CNext]_cvars => CInv'
BY LobbyStepKeeps, CompileStepKeeps, IdleKeeps DEF CNext

THEOREM CInvariance == CSpec => []CInv
BY CInitKeeps, CNextKeeps, PTL DEF CSpec

\* The variables of the lobby and of the Compiles keep their types.
THEOREM CTypeCorrect == CSpec => []CTypeOK
<1>1. CInv => CTypeOK
  BY DEF CInv
<1> QED
  BY <1>1, CInvariance, PTL

\* While the sandbox runs the private tests the game keeps its host and its
\* tasks, because the guard of the host's entry is held.
THEOREM JudgedGameAlwaysStays == CSpec => []JudgedGameStays
<1>1. CInv => JudgedGameStays
  BY DEF CInv, Sound, JudgedGameStays
<1> QED
  BY <1>1, CInvariance, PTL

\* Although the host is looked up again after the public run, a client that
\* takes part is judged by the task its program was run with.
THEOREM AlwaysJudgedAgainstItsRun == CSpec => []JudgedAgainstItsRun
<1>1. CInv => JudgedAgainstItsRun
  <2> SUFFICES ASSUME CInv, NEW c \in Client,
                      stage[c] \in {"run", "validate", "judge"}, TakesPart(c)
               PROVE  HasTask(c) /\ work[c].ran = TaskOf(c)
    BY DEF JudgedAgainstItsRun, TakesPart
  <2> QED
    BY DEF CInv, Sound, Running
<1> QED
  BY <1>1, CInvariance, PTL

\* A task counts as finished only after a program whose outputs are those of
\* all its tests.
THEOREM DoneAlwaysMeansAllMatch == CSpec => []DoneMeansAllMatch
<1>1. CInv => DoneMeansAllMatch
  BY DEF CInv, Sound, DoneMeansAllMatch, TakesPart
<1> QED
  BY <1>1, CInvariance, PTL

\* The clones that timeouts make, and drop, and the registrations they cut
\* short leave no phantom on a roster.
THEOREM RosterRealWithTimeouts == CSpec => []RosterIsReal
<1>1. CInv => RosterIsReal
  BY DEF CInv, IInv
<1> QED
  BY <1>1, CInvariance, PTL

\* To Sessions the Drop of a member's clone is a withdrawal.
LEMMA DropMemberCloneStep ==
  ASSUME CInv, NEW x \in Client, DropMemberClone(x)
  PROVE  [S!Next]_(S!svars)
<1>0. TypeOK
  BY DEF CInv, IInv, Typed
<1>1. PICK h \in Client : \A y \in Client \ {h} : game'[y] = game[y]
  BY DropMemberCloneEffect
<1>2. CASE game'[h] = game[h]
  <2>1. \A y \in Client : Phase(y)' = Phase(y) /\ Roster(y)' = Roster(y)
    BY <1>1, <1>2 DEF Phase, Roster, Hosting
  <2> QED
    BY <2>1, ViewKept
<1>3. CASE game'[h] # game[h]
  <2>1. Hosting(h) /\ x \in Roster(h) /\ game'[h] = Without(h, x)
    BY <1>3, DropMemberCloneEffect
  <2>2. Phase(h)' = Phase(h) /\ Roster(h)' = Roster(h) \ {x}
    BY <1>0, <2>1, ViewWithout DEF Hosting
  <2>3. \A y \in Client \ {h} : Phase(y)' = Phase(y) /\ Roster(y)' = Roster(y)
    BY <1>1 DEF Phase, Roster, Hosting
  <2>4. S!Withdraw(h, x)
    BY <2>1, <2>2, <2>3 DEF S!Withdraw
  <2> QED
    BY <2>4 DEF S!Next
<1> QED
  BY <1>2, <1>3

\* Steps of the lobby are steps of Lobby.
LEMMA LobbyStepIsOne ==
  ASSUME CInv, NEW x \in Client, LobbyStep(x)
  PROVE  Request(x) \/ Continue(x) \/ Registration(x)
BY ElsewhereEffect, EntersEffect, EvictionsEffect, StartsEffect
DEF CInv, LobbyStep

LEMMA CStepRefines == CInv /\ [CNext]_cvars => [S!Next]_(S!svars)
<1> SUFFICES ASSUME CInv, [CNext]_cvars PROVE [S!Next]_(S!svars)
  OBVIOUS
<1>1. ASSUME NEW x \in Client, LobbyStep(x) PROVE [S!Next]_(S!svars)
  BY <1>1, LobbyStepIsOne, StepRefines DEF CInv, Next
<1>2. ASSUME NEW x \in Client, CompileStep(x) PROVE [S!Next]_(S!svars)
  <2>1. UNCHANGED game \/ DropMemberClone(x)
    BY <1>2, CompileStepCases
    DEF AnswerStalls, RegisterStalls, NotYetIn, DropHostClone, UndoKey, vars
  <2> QED
    BY <2>1, GamesKeptView, DropMemberCloneStep
<1>3. CASE UNCHANGED cvars
  BY <1>3, GamesKeptView DEF cvars, vars
<1>4. CASE Quiescent /\ UNCHANGED cvars
  BY <1>3, <1>4
<1> QED
  BY <1>1, <1>2, <1>3, <1>4 DEF CNext

\* Compile, its timeouts and their clones included, keeps what the lobby
\* promises about games.
THEOREM CompileImplementsSessions == CSpec => ImplementsSessions
BY CInitKeeps, CInvariance, CStepRefines, InitRefines, PTL
DEF CSpec, CInit, ImplementsSessions, S!Spec

\* A member whose place a timeout gave up keeps its Game, and is in no second
\* game for all that.
THEOREM OneGameWithTimeouts == CSpec => []S!OneGameEach
BY CompileImplementsSessions, SessionsOneGame, PTL

\* No timeout lets anybody into a game that has started.
THEOREM NeverALateEntryWithTimeouts == CSpec => S!NoLateEntry
BY CompileImplementsSessions, SessionsNoLateEntry, PTL

(***************************************************************************)
(* What those in a game were told of its tasks.                            *)
(***************************************************************************)
\* What a client was told is so, and what it is about to be told.
NewsInv ==
  /\ NewsIsTrue
  /\ \A c \in Client :
       At(c, "report") /\ work[c].done /\ TakesPart(c)
         => work[c].index \in progress[work[c].host]

\* A client that takes part in a game while it compiles, does so in the one
\* that its work names.
LEMMA OriginTells ==
  ASSUME CInv, NEW c \in Client, stage[c] \in Working,
         NEW h \in Client, c \in Players(h)
  PROVE  work[c].host = h
<1>1. Origin(c) /\ pc[c] = "idle"
  BY DEF CInv, Placed
<1>2. CASE c = h /\ Hosting(h)
  BY <1>1, <1>2 DEF Origin, Hosting, CInv, IInv, Shaped
<1>3. CASE c \in Roster(h)
  <2>1. Belongs(c, h)
    BY <1>3 DEF CInv, IInv, RosterIsReal
  <2> QED
    BY <1>1, <2>1 DEF Belongs, Origin
<1> QED
  BY <1>2, <1>3 DEF Players

\* A step that tells nobody anything keeps what was told, as long as nobody
\* enters a game and the tasks of those that go on stay finished.
LEMMA SilenceKeepsNews ==
  ASSUME CInv, NewsInv, UNCHANGED <<stage, work, news>>,
         \A h \in Client : /\ Players(h)' \subseteq Players(h)
                           /\ Hosting(h)' => progress'[h] = progress[h]
  PROVE  NewsInv'
<1>1. \A h \in Client : Players(h)' # {} => progress'[h] = progress[h]
  BY DEF Players
<1>2. NewsIsTrue'
  BY <1>1 DEF NewsInv, NewsIsTrue
<1>3. ASSUME NEW c \in Client, At(c, "report")', work'[c].done, TakesPart(c)'
      PROVE  work'[c].index \in progress'[work'[c].host]
  <2>1. PICK h \in Client : h = work[c].host
    BY <1>3 DEF CInv, Placed, At, Work
  <2> QED
    BY <1>1, <1>3, <2>1 DEF TakesPart, At, NewsInv
<1> QED
  BY <1>2, <1>3 DEF NewsInv

LEMMA LobbyStepNews ==
  ASSUME CInv, NewsInv, NEW x \in Client, LobbyStep(x)
  PROVE  NewsInv'
<1>1. CASE Elsewhere(x) \/ Evictions(x)
  <2>1. /\ \A y \in Client \ {x} : Shrinks(y)
        /\ game'[x] = game[x] \/ (Free(x) /\ ~Hosting(x)')
    BY <1>1, ElsewhereEffect, EvictionsEffect DEF CInv
  <2>2. \A h \in Client : Hosting(h)' => Hosting(h) /\ Roster(h)' \subseteq Roster(h)
    BY <2>1 DEF Shrinks, Hosting, Roster
  <2>3. \A h \in Client : Players(h)' \subseteq Players(h)
    BY <2>2 DEF Players
  <2>4. /\ UNCHANGED <<stage, work, news>>
        /\ \A h \in Client : Hosting(h)' => progress'[h] = progress[h]
    BY <1>1 DEF Elsewhere, Evictions, TasksFollowGames
  <2> QED
    BY <2>3, <2>4, SilenceKeepsNews
<1>2. CASE Enters(x)
  <2>1. /\ UNCHANGED <<stage, work, progress>> /\ stage[x] = "none"
        /\ news'[x] = {}
        /\ \A y \in Client \ {x} : news'[y] = news[y]
    BY <1>2 DEF Enters, At, CInv, CTypeOK
  <2>2. \A h \in Client : Players(h)' \subseteq Players(h) \cup {x}
    BY <1>2, EntersGames
  <2>3. NewsIsTrue'
    <3> SUFFICES ASSUME NEW h \in Client, NEW y \in Players(h)'
                 PROVE  news'[y] \subseteq progress'[h]
      BY DEF NewsIsTrue
    <3>1. CASE y = x
      BY <2>1, <3>1
    <3>2. CASE y # x
      <4>1. y \in Players(h) /\ y \in Client
        BY <2>2, <3>2, RosterTyped DEF Players, CInv, IInv, Typed
      <4> QED
        BY <2>1, <3>2, <4>1 DEF NewsInv, NewsIsTrue
    <3> QED
      BY <3>1, <3>2
  <2>4. ASSUME NEW c \in Client, At(c, "report")', work'[c].done, TakesPart(c)'
        PROVE  work'[c].index \in progress'[work'[c].host]
    <3>1. c # x /\ At(c, "report")
      BY <2>1, <2>4 DEF At
    <3>2. PICK h \in Client : h = work[c].host
      BY <3>1 DEF CInv, Placed, At, Work
    <3> QED
      BY <2>1, <2>2, <2>4, <3>1, <3>2 DEF TakesPart, NewsInv
  <2> QED
    BY <2>3, <2>4 DEF NewsInv
<1>3. ASSUME NEW n \in TaskCounts, Starts(x, n) PROVE NewsInv'
  <2>1. /\ Hosting(x) /\ ~game[x].started /\ Hosting(x)'
        /\ Roster(x)' = Roster(x)
        /\ \A y \in Client \ {x} : game'[y] = game[y]
    BY <1>3, StartsEffect DEF CInv
  <2>2. \A h \in Client : Players(h)' = Players(h)
    BY <2>1 DEF Players, Hosting, Roster
  <2>3. progress[x] = {}
    BY <2>1 DEF CInv, Books
  <2>4. UNCHANGED <<stage, work, news>> /\ progress' = [progress EXCEPT ![x] = {}]
    BY <1>3 DEF Starts
  <2>5. \A h \in Client : progress'[h] = progress[h]
    BY <2>3, <2>4 DEF CInv, CTypeOK
  <2> QED
    BY <2>2, <2>4, <2>5, SilenceKeepsNews
<1> QED
  BY <1>1, <1>2, <1>3 DEF LobbyStep

\* A program that has been found to solve its task was recorded.
LEMMA DoneIsRecorded ==
  ASSUME CInv, NEW x \in Client, CompileStep(x), At(x, "report")', work'[x].done
  PROVE  JudgePasses(x)
<1>0. /\ stage \in [Client -> Stage] /\ work \in [Client -> Work \cup {None}]
      /\ stage[x] \in {"prepare", "run", "validate", "judge"} =>
           work[x] \in Work /\ ~work[x].done
  BY DEF CInv, CTypeOK, Placed
<1>1. CASE \/ \E i \in 1..MaxIndex : CompileBegin(x, i)
           \/ CompileRefused(x) \/ Prepare(x) \/ Report(x) \/ Refuse(x)
           \/ Timeout(x) \/ CloneClient(x) \/ DropMemberClone(x)
           \/ DropHostClone(x) \/ UndoKey(x) \/ RunEnds(x) \/ JudgePanics(x)
           \/ Stalls(x)
  BY <1>0, <1>1 DEF CompileBegin, CompileRefused, Prepare, Report, Refuse,
       Timeout, CloneClient, DropMemberClone, DropHostClone, UndoKey, RunEnds,
       JudgePanics, Stalls, AnswerStalls, RegisterStalls, JudgeStalls, Over,
       Enter, At
<1>2. CASE Validate(x)
  <2>1. UNCHANGED work
    BY <1>0, <1>2 DEF Validate, Enter, At
  <2> QED
    BY <1>0, <1>2, <2>1 DEF Validate, At
<1>3. CASE JudgeFails(x)
  <2>1. work' = work \/ work' = [work EXCEPT ![x].done = FALSE]
    BY <1>3 DEF JudgeFails, IsDone
  <2>2. work[x] \in Work /\ ~work[x].done
    BY <1>0, <1>3 DEF JudgeFails, At
  <2> QED
    BY <1>0, <2>1, <2>2 DEF Work
<1> QED
  BY <1>1, <1>2, <1>3 DEF CompileStep, Proceed, Sandbox

\* Those who are told of a finished task are in that game, and in no other.
LEMMA ToldAreInOne ==
  ASSUME CInv, S!OneGameEach, NEW h \in Client, Hosting(h),
         NEW k \in Client, NEW y \in Audience(h), y \in Players(k)
  PROVE  k = h
<1>0. /\ \A c, l \in Client : c \in Roster(l) => Phase(l) # "none" /\ Phase(c) = "none"
      /\ \A c, l, m \in Client : c \in Roster(l) \cap Roster(m) => l = m
  BY DEF S!OneGameEach
<1>1. y = h \/ y \in Roster(h)
  BY DEF Audience, Roster, Hosting, CInv, IInv, Shaped
<1>2. y \in Client
  BY <1>1, RosterTyped DEF CInv, IInv, Typed
<1>3. \A l \in Client : Hosting(l) => Phase(l) # "none"
  BY DEF Phase
<1>4. Hosting(k) /\ (y = k \/ y \in Roster(k))
  BY DEF Players
<1> QED
  BY <1>0, <1>1, <1>2, <1>3, <1>4

LEMMA CompileStepNews ==
  ASSUME CInv, NewsInv, S!OneGameEach, NEW x \in Client, CompileStep(x)
  PROVE  NewsInv'
<1>0. /\ \A y \in Client : Shrinks(y)
      /\ \A y \in Client \ {x} : stage'[y] = stage[y] /\ work'[y] = work[y]
      /\ progress \in [Client -> SUBSET Nat] /\ news \in [Client -> SUBSET Nat]
  BY CompileStepLobby DEF CarryKept, CInv, CTypeOK
<1>1. \A h \in Client : Players(h)' \subseteq Players(h)
  BY <1>0 DEF Players, Shrinks, Roster, Hosting
<1>2. \A h \in Client : Players(h) \subseteq Client
  BY RosterTyped DEF Players, CInv, IInv, Typed
<1>3. ASSUME \A h \in Client : progress[h] \subseteq progress'[h],
             NEW c \in Client \ {x},
             At(c, "report")', work'[c].done, TakesPart(c)'
      PROVE  work'[c].index \in progress'[work'[c].host]
  <2>1. At(c, "report") /\ work[c].done
    BY <1>0, <1>3 DEF At
  <2>2. PICK h \in Client : h = work[c].host
    BY <2>1 DEF CInv, Placed, At, Work
  <2>3. TakesPart(c)
    BY <1>0, <1>1, <1>3, <2>2 DEF TakesPart
  <2> QED
    BY <1>0, <1>3, <2>1, <2>2, <2>3 DEF NewsInv
<1>4. CASE JudgePasses(x) \/ JudgeStalls(x)
  <2>1. PICK h \in Client, i \in Nat :
          /\ h = work[x].host /\ i = work[x].index
          /\ Hosting(h)
          /\ progress' = [progress EXCEPT ![h] = @ \cup {i}]
          /\ Tells(x, i)
    BY <1>4, Recorded
  <2>2. /\ i \in progress'[h]
        /\ \A k \in Client : progress[k] \subseteq progress'[k]
    BY <1>0, <2>1
  <2>3. PICK told \in SUBSET Audience(h) :
          news' = [y \in Client |-> news[y] \cup (IF y \in told THEN {i} ELSE {})]
    <3>1. Told(x) \subseteq Audience(h)
      BY <2>1 DEF Told
    <3> QED
      BY <2>1, <3>1 DEF Tells
  <2>4. NewsIsTrue'
    <3> SUFFICES ASSUME NEW k \in Client, NEW y \in Players(k)'
                 PROVE  news'[y] \subseteq progress'[k]
      BY DEF NewsIsTrue
    <3>1. y \in Players(k) /\ y \in Client /\ news[y] \subseteq progress[k]
      BY <1>1, <1>2 DEF NewsInv, NewsIsTrue
    <3>2. y \in told => k = h
      BY <2>1, <3>1, ToldAreInOne
    <3> QED
      BY <2>2, <2>3, <3>1, <3>2
  <2>5. At(x, "report")' /\ work'[x].done
          => work'[x].index \in progress'[work'[x].host]
    <3> SUFFICES ASSUME At(x, "report")', work'[x].done
                 PROVE  work'[x].index = i /\ work'[x].host = h
      BY <2>2
    <3>1. JudgePasses(x)
      BY DoneIsRecorded
    <3>2. work[x] \in Work /\ work \in [Client -> Work \cup {None}]
      BY <3>1 DEF JudgePasses, At, CInv, CTypeOK, Placed
    <3>3. PICK out : work' = [work EXCEPT ![x].out = out, ![x].done = TRUE]
      BY <3>1 DEF JudgePasses
    <3> QED
      BY <2>1, <3>2, <3>3 DEF Work
  <2> QED
    BY <1>3, <2>2, <2>4, <2>5 DEF NewsInv
<1>5. CASE ~JudgePasses(x) /\ ~JudgeStalls(x)
  <2>1. /\ UNCHANGED progress
        /\ \/ UNCHANGED news
           \/ /\ At(x, "report") /\ UNCHANGED vars
              /\ news' = [news EXCEPT ![x] =
                   @ \cup (IF work[x].done THEN {work[x].index} ELSE {})]
    BY <1>5, NothingRecorded
  <2>2. NewsIsTrue'
    <3> SUFFICES ASSUME NEW k \in Client, NEW y \in Players(k)'
                 PROVE  news'[y] \subseteq progress[k]
      BY <2>1 DEF NewsIsTrue
    <3>1. y \in Players(k) /\ y \in Client /\ news[y] \subseteq progress[k]
      BY <1>1, <1>2 DEF NewsInv, NewsIsTrue
    <3>2. CASE news'[y] = news[y]
      BY <3>1, <3>2
    <3>3. CASE news'[y] # news[y]
      <4>1. /\ y = x /\ At(x, "report") /\ work[x].done
            /\ news'[x] = news[x] \cup {work[x].index}
        BY <1>0, <2>1, <3>1, <3>3
      <4>2. work[x].host = k
        BY <3>1, <4>1, OriginTells DEF At
      <4>3. work[x].index \in progress[k]
        BY <3>1, <4>1, <4>2 DEF NewsInv, TakesPart
      <4> QED
        BY <3>1, <4>1, <4>3
    <3> QED
      BY <3>2, <3>3
  <2>3. ~(At(x, "report")' /\ work'[x].done)
    BY <1>5, DoneIsRecorded
  <2> QED
    BY <1>3, <2>1, <2>2, <2>3 DEF NewsInv
<1> QED
  BY <1>4, <1>5

\* Wherever a timeout cuts the events of a finished task short, what those in
\* a game were told is so there.
THEOREM NewsAlwaysTrue == CSpec => []NewsIsTrue
<1>1. CInit => NewsInv
  BY DEF CInit, NewsInv, NewsIsTrue, At, Players, Hosting, Init
<1>2. CInv /\ S!OneGameEach /\ NewsInv /\ [CNext]_cvars => NewsInv'
  <2>1. ASSUME CInv, NewsInv, UNCHANGED cvars PROVE NewsInv'
    <3>1. UNCHANGED <<stage, work, news, progress, game>>
      BY <2>1 DEF cvars, vars
    <3>2. \A h \in Client : Players(h)' = Players(h)
      BY <3>1 DEF Players, Hosting, Roster
    <3> QED
      BY <2>1, <3>1, <3>2, SilenceKeepsNews
  <2> QED
    BY <2>1, LobbyStepNews, CompileStepNews DEF CNext
<1>3. NewsInv => NewsIsTrue
  BY DEF NewsInv
<1> QED
  BY <1>1, <1>2, <1>3, CInvariance, OneGameWithTimeouts, PTL DEF CSpec

(***************************************************************************)
(* What else of the lobby survives Compile and its timeouts.               *)
(***************************************************************************)
\* Its client goes from one message to the next, or closes; of the games at
\* most one changes, that loses this client as a member; and of the keys at
\* most one, that is deleted.
LEMMA CompileStepEffect ==
  ASSUME CInv, NEW x \in Client, CompileStep(x)
  PROVE  /\ pc[x] \in {"idle", "register"} /\ pc'[x] \in {"idle", "closing"}
         /\ \A y \in Client \ {x} : pc'[y] = pc[y] /\ job'[y] = job[y]
         /\ game'[x] = game[x] /\ UNCHANGED eviction
         /\ \A y \in Client \ {x} :
              game'[y] = game[y] \/ (game[y] # None /\ game'[y] = Without(y, x))
         /\ \A g \in GameId : redis'[g] \in Client => redis'[g] = redis[g]
<1>0. TypeOK /\ pc[x] \in {"idle", "register"} /\ UNCHANGED eviction
  BY CompileIdle, CompileStepLobby DEF CInv, IInv, Typed
<1>1. CASE UNCHANGED vars
  <2>1. pc[x] = "idle"
    BY <1>0, <1>1, CompileIdle
    DEF AnswerStalls, RegisterStalls, Kept, Done, Goto, vars, TypeOK
  <2> QED
    BY <1>0, <1>1, <2>1 DEF vars
<1>2. CASE \/ Failed(x) /\ UNCHANGED <<game, redis>>
           \/ Kept(x) /\ UNCHANGED <<game, redis>>
  BY <1>0, <1>2 DEF Failed, Kept, Done, Goto, TypeOK
<1>3. CASE DropMemberClone(x)
  BY <1>0, <1>3, DropMemberCloneEffect DEF Hosting
<1>4. CASE DropHostClone(x) \/ UndoKey(x)
  <2>1. clone[x].id \in GameId /\ pc[x] = "idle"
    BY <1>4 DEF CInv, CTypeOK, Placed, DropHostClone, UndoKey, At, Game
  <2>2. \A g \in GameId : redis'[g] = redis[g] \/ redis'[g] = None
    <3>1. redis' = Deleted(clone[x].id) \/ redis' = redis
      BY <1>4 DEF DropHostClone, UndoKey, Executes
    <3> QED
      BY <1>0, <2>1, <3>1 DEF Deleted, TypeOK
  <2>3. \A g \in GameId : redis'[g] \in Client => redis'[g] = redis[g]
    BY <2>2, LobbyConstants
  <2>4. /\ UNCHANGED game
        /\ UNCHANGED <<pc, job>> \/ Failed(x)
    BY <1>4 DEF DropHostClone, UndoKey
  <2> QED
    BY <1>0, <2>1, <2>3, <2>4 DEF Failed, Done, Goto, TypeOK
<1> QED
  BY <1>1, <1>2, <1>3, <1>4, CompileStepCases
  DEF AnswerStalls, RegisterStalls, NotYetIn

LEMMA CompileKeepsHalfStarted ==
  ASSUME CInv, HalfStartedIsClosing, NEW x \in Client, CompileStep(x)
  PROVE  HalfStartedIsClosing'
<1> SUFFICES ASSUME NEW h \in Client, Hosting(h)', game'[h].started
             PROVE  \/ game'[h].members \cup {h} \subseteq game'[h].dealt
                    \/ pc'[h] = "closing"
  BY DEF HalfStartedIsClosing
<1>1. pc[h] = "closing" => pc'[h] = "closing"
  BY CompileStepEffect
<1>2. CASE game'[h] = game[h]
  BY <1>1, <1>2 DEF HalfStartedIsClosing, Hosting
<1>3. CASE h # x /\ game[h] # None /\ game'[h] = Without(h, x)
  <2>1. /\ Without(h, x).isHost = game[h].isHost
        /\ Without(h, x).started = game[h].started
        /\ Without(h, x).members = game[h].members \ {x}
        /\ Without(h, x).dealt = game[h].dealt \ {x}
    BY <1>3, WithoutGame DEF CInv, IInv, Typed
  <2>2. game[h].members \cup {h} \subseteq game[h].dealt \/ pc[h] = "closing"
    BY <1>3, <2>1 DEF HalfStartedIsClosing, Hosting
  <2> QED
    BY <1>1, <1>3, <2>1, <2>2
<1> QED
  BY <1>2, <1>3, CompileStepEffect

\* Although a task progress is unwrapped with the guard of the host held, and
\* clones are dropped, it is missing only where a Start failed half way, in a
\* game that is about to end with the connection of its host.
THEOREM HalfStartedClosesWithTimeouts == CSpec => []HalfStartedIsClosing
<1>1. CInit => HalfStartedIsClosing
  BY DEF CInit, Init, HalfStartedIsClosing, Hosting
<1>2. CInv /\ HalfStartedIsClosing /\ [CNext]_cvars => HalfStartedIsClosing'
  <2>1. UNCHANGED cvars /\ HalfStartedIsClosing => HalfStartedIsClosing'
    BY DEF cvars, vars, HalfStartedIsClosing, Hosting
  <2>2. ASSUME CInv, HalfStartedIsClosing, NEW x \in Client, LobbyStep(x)
        PROVE  HalfStartedIsClosing'
    BY <2>2, LobbyStepIsOne, HalfStartedKept DEF CInv
  <2> QED
    BY <2>1, <2>2, CompileKeepsHalfStarted DEF CNext
<1> QED
  BY <1>1, <1>2, CInvariance, PTL DEF CSpec

LEMMA CompileKeepsKeys ==
  ASSUME CInv, KeysHeld, NEW x \in Client, CompileStep(x)
  PROVE  KeysHeld'
<1> SUFFICES ASSUME NEW g \in GameId, NEW h \in Client, redis'[g] = h
             PROVE  KeyHeld(g, h)'
  BY DEF KeysHeld
<1>1. KeyHeld(g, h)
  BY CompileStepEffect DEF KeysHeld
<1>2. CASE h = x
  BY <1>1, <1>2, CompileStepEffect DEF KeyHeld, Hosting, Listed
<1>3. CASE h # x
  <2>1. /\ Hosting(h) => Hosting(h)' /\ game'[h].id = game[h].id
        /\ game[h] = None => game'[h] = None
    <3>1. CASE game'[h] = game[h]
      BY <3>1 DEF Hosting
    <3>2. CASE game[h] # None /\ game'[h] = Without(h, x)
      <4>1. /\ game'[h] \in Game
            /\ game'[h].isHost = game[h].isHost
            /\ game'[h].id = game[h].id
        BY <3>2, WithoutGame DEF CInv, IInv, Typed
      <4> QED
        BY <3>2, <4>1, LobbyConstants DEF Hosting
    <3> QED
      BY <1>3, <3>1, <3>2, CompileStepEffect
  <2>2. pc'[h] = pc[h] /\ job'[h] = job[h] /\ entry'[h] = entry[h]
    BY <1>3, CompileStepEffect
  <2> QED
    BY <1>1, <2>1, <2>2 DEF KeyHeld, Listed
<1> QED
  BY <1>2, <1>3

\* A timeout deletes the key of a game that goes on, but leaves none behind
\* that names a client which does not host that game.
THEOREM KeyNamesHostWithTimeouts == CSpec => []KeyNamesHost
<1>1. CInit => KeysHeld
  BY LobbyConstants DEF CInit, Init, KeysHeld
<1>2. CInv /\ KeysHeld /\ [CNext]_cvars => KeysHeld'
  <2>1. UNCHANGED cvars /\ KeysHeld => KeysHeld'
    BY DEF cvars, vars, KeysHeld, KeyHeld, Listed, Hosting
  <2>2. ASSUME CInv, KeysHeld, NEW x \in Client, LobbyStep(x)
        PROVE  KeysHeld'
    BY <2>2, LobbyStepIsOne, KeysHeldKept DEF CInv
  <2> QED
    BY <2>1, <2>2, CompileKeepsKeys DEF CNext
<1>3. KeysHeld => KeyNamesHost
  BY DEF KeysHeld, KeyHeld, KeyNamesHost
<1> QED
  BY <1>1, <1>2, <1>3, CInvariance, PTL DEF CSpec

LEMMA CompileKeepsOrder ==
  ASSUME CInv, NoMembershipCycle, NEW x \in Client, CompileStep(x)
  PROVE  NoMembershipCycle'
<1>1. \A y \in Client : LooksUp(y)' = LooksUp(y)
  <2> SUFFICES ASSUME NEW y \in Client PROVE LooksUp(y)' = LooksUp(y)
    OBVIOUS
  <2>1. /\ pc'[y] = "install" <=> pc[y] = "install"
        /\ pc[y] = "install" => job'[y] = job[y]
    BY CompileStepEffect
  <2>2. Shrinks(y)
    BY CompileStepLobby
  <2> QED
    BY <2>1, <2>2 DEF LooksUp, Shrinks
<1> QED
  BY <1>1 DEF NoMembershipCycle

\* The memberships that a timeout leaves without a place on a roster close no
\* cycle either.
THEOREM NeverACycleWithTimeouts == CSpec => []NoMembershipCycle
<1>1. CInit => NoMembershipCycle
  BY DEF CInit, Init, NoMembershipCycle, LooksUp
<1>2. CInv /\ CInv' /\ NoMembershipCycle /\ [CNext]_cvars => NoMembershipCycle'
  <2>1. UNCHANGED cvars /\ NoMembershipCycle => NoMembershipCycle'
    BY DEF cvars, vars, NoMembershipCycle, LooksUp
  <2>2. ASSUME CInv, CInv', NoMembershipCycle, NEW x \in Client, LobbyStep(x)
        PROVE  NoMembershipCycle'
    BY <2>2, LobbyStepIsOne, OrderKeeps DEF CInv
  <2> QED
    BY <2>1, <2>2, CompileKeepsOrder DEF CNext
<1> QED
  BY <1>1, <1>2, CInvariance, PTL DEF CSpec
=============================================================================
