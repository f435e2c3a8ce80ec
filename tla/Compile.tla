------------------------------ MODULE Compile ------------------------------
(***************************************************************************)
(* The request Compile on top of the lobby: request.rs with                *)
(* prepare_code_test, run_code_test and validate_code_test of game.rs, and *)
(* the timeout of on_message (client.rs), which strikes while the sandbox  *)
(* is awaited or a send to a client whose channel is full.                 *)
(*                                                                         *)
(* A program is run against the public tests while no guard is held; then  *)
(* the host is looked up again, and the program is judged, and run against *)
(* the private tests, with the guard of the host's entry locked.  The      *)
(* other handlers are those of Lobby; they wait for that guard too.        *)
(***************************************************************************)
EXTENDS Lobby, Judge

CONSTANTS
  Task,           \* the tasks of tasks.toml
  TaskCounts,     \* the task_count a StartRequest may ask for
  PublicTests,    \* how many public_test_cases a task has
  PrivateTests,   \* how many private_test_cases a task has
  MaxOutputs,     \* bound on the outputs the sandbox returns
  MaxIndex        \* bound on the task_index a CompileRequest names

VARIABLES
  stage,     \* where a Compile of each client is
  work,      \* the locals it carries from one step to the next
  clone,     \* the Game in the SocketClient that a timeout has cloned
  picked,    \* Game.tasks of the game each client hosts
  progress,  \* the indices that are true in partial_host.task_progress there
  news       \* the indices a client was told are finished, in its game

judging == <<stage, work, clone>>
cvars == <<vars, stage, work, clone, picked, progress, news>>

(***************************************************************************)
(* Types.                                                                  *)
(***************************************************************************)
Stage ==
  {"none",                  \* no Compile is being handled
   "prepare", "run",        \* before and during the public run
   "validate", "judge",     \* before and during the private run
   "report", "refused",     \* the answer, or an error, is to be sent
   "timedout", "notice",    \* the client to be cloned, the clone in use
   "undo"}                  \* in the Drop of the clone's Game

\* `ran` is the task whose tests gave the stdin of the public run, `out` the
\* answer that passed last.  Indices count from 1 here.
Work == [host : Client, index : Nat, ran : Task \cup {None},
         out : Seq(BOOLEAN), done : BOOLEAN]

ASSUME CompileConstants ==
  /\ TaskCounts \subseteq 0..MaxTaskCount
  /\ PublicTests \in [Task -> Nat]
  /\ PrivateTests \in [Task -> Nat]
  /\ MaxOutputs \in Nat
  /\ MaxIndex \in Nat
  /\ None \notin Work \cup Task

CTypeOK ==
  /\ TypeOK
  /\ stage \in [Client -> Stage]
  /\ work \in [Client -> Work \cup {None}]
  /\ clone \in [Client -> Game \cup {None}]
  /\ picked \in [Client -> Seq(Task)]
  /\ progress \in [Client -> SUBSET Nat]
  /\ news \in [Client -> SUBSET Nat]

CInit ==
  /\ Init
  /\ stage = [c \in Client |-> "none"]
  /\ work = [c \in Client |-> None]
  /\ clone = [c \in Client |-> None]
  /\ picked = [c \in Client |-> <<>>]
  /\ progress = [c \in Client |-> {}]
  /\ news = [c \in Client |-> {}]

(***************************************************************************)
(* Helpers.                                                                *)
(***************************************************************************)
\* Nobody judges a program with the guard of h held (NoGuardHeld is what
\* validating without that guard would allow).
NoGuardHeld(h) == TRUE
Free(h) == \A c \in Client : stage[c] = "judge" => work[c].host # h

\* The entry of h can be locked by a handler of c, or is not there.
CanLock(c, h) == Free(h) /\ (Sees(c, h) => Unlocked(h))

\* The host whose entry the next step of c may look up.
HostOf(c) ==
  IF job[c] # None THEN job[c].host
  ELSE IF game[c] # None THEN game[c].host ELSE c

At(c, s) == stage[c] = s
Enter(c, s) == stage' = [stage EXCEPT ![c] = s]

\* The request is answered or ends in an Err; on_message returns.
Over(c) == Enter(c, "none") /\ work' = [work EXCEPT ![c] = None]

\* The sequences of k distinct tasks that choose_multiple can return.
Choices(k) ==
  {s \in [1..k -> Task] : \A i, j \in 1..k : i # j => s[i] # s[j]}

\* What get_task_indexed finds at the host named in c's work.
HasTask(c) ==
  LET h == work[c].host
  IN /\ Sees(c, h) /\ Hosting(h) /\ game[h].started
     /\ work[c].index \in 1..Len(picked[h])

TaskOf(c) == picked[work[c].host][work[c].index]

\* The task whose tests give the stdin (FirstOfGame forgets task_index).
FirstOfGame(c) == picked[work[c].host][1]
Gathered(c) == TaskOf(c)

\* A Game takes its tasks and its task_progress along when it is dropped.
TasksFollowGames ==
  /\ picked' = [h \in Client |-> IF Hosting(h)' THEN picked[h] ELSE <<>>]
  /\ progress' = [h \in Client |-> IF Hosting(h)' THEN progress[h] ELSE {}]

(***************************************************************************)
(* The requests of Lobby.                                                  *)
(***************************************************************************)
\* Steps that lock no entry of the map, or insert a new one.
NeedsNoGuard(c) ==
  \/ Connect(c) \/ Disconnect(c) \/ JoinClaim(c)
  \/ \E g \in GameId : ExistsFetch(c, g)

\* Steps that lock the client's own entry.
NeedsOwnGuard(c) ==
  /\ Free(c)
  /\ \/ Identify(c) \/ JoinElsewhere(c) \/ JoinInstall(c)
     \/ DropDelete(c) \/ Remove(c)
     \/ \E g \in GameId : Create(c, g) \/ JoinFetch(c, g) \/ JoinRefused(c, g)

\* Steps that lock the host's entry, some with the own one locked already.
NeedsHostGuard(c) ==
  /\ Free(c) /\ Free(HostOf(c))
  /\ \/ JoinTurnedAway(c) \/ JoinHostLeft(c)
     \/ Leave(c) \/ StartRefused(c) \/ TaskRefused(c)
     \/ ExistsVerify(c) \/ OnClose(c)

Elsewhere(c) ==
  /\ At(c, "none")
  /\ NeedsNoGuard(c) \/ NeedsOwnGuard(c) \/ NeedsHostGuard(c)
  /\ TasksFollowGames
  /\ UNCHANGED <<stage, work, clone, news>>

\* accept_connection removes an entry, and drops its Game.
Evictions(c) ==
  /\ \/ Evict(c) /\ Free(c)
     \/ OrphanLeaves(c) /\ Free(orphan[c].host)
     \/ OrphanEnds(c) \/ OrphanDelete(c)
  /\ TasksFollowGames
  /\ UNCHANGED <<stage, work, clone, news>>

\* A client that enters a game has not been told of finished tasks there.
Enters(c) ==
  /\ At(c, "none")
  /\ Free(c) /\ Free(HostOf(c))
  /\ JoinHost(c) \/ JoinRegister(c)
  /\ news' = [news EXCEPT ![c] = {}]
  /\ UNCHANGED <<stage, work, clone, picked, progress>>

\* Game::start chooses the tasks, and sets all of them to false.
Starts(c, n) ==
  /\ At(c, "none")
  /\ Free(c)
  /\ Start(c, n)
  /\ \E s \in Choices(Chosen(n)) : picked' = [picked EXCEPT ![c] = s]
  /\ progress' = [progress EXCEPT ![c] = {}]
  /\ UNCHANGED <<stage, work, clone, news>>

(***************************************************************************)
(* Compile.                                                                *)
(***************************************************************************)
\* "Check if client is in game and if so, return game host id"
CompileBegin(c, i) ==
  /\ At(c, "none") /\ pc[c] = "idle"
  /\ Free(c)
  /\ game[c] # None
  /\ Enter(c, "prepare")
  /\ work' = [work EXCEPT ![c] =
                [host |-> game[c].host, index |-> i, ran |-> None,
                 out |-> <<>>, done |-> FALSE]]
  /\ UNCHANGED <<vars, clone, picked, progress, news>>

\* NotInGame, or data that does not parse.
CompileRefused(c) ==
  /\ At(c, "none") /\ pc[c] = "idle"
  /\ Free(c)
  /\ Failed(c)
  /\ UNCHANGED <<named, game, redis, minted, known, eviction>>
  /\ UNCHANGED <<stage, work, clone, picked, progress, news>>

\* prepare_code_test: the stdin of the public tests, or an error.
Prepare(c) ==
  /\ At(c, "prepare")
  /\ CanLock(c, work[c].host)
  /\ \/ /\ HasTask(c)
        /\ Enter(c, "run")
        /\ work' = [work EXCEPT ![c].ran = Gathered(c)]
     \/ /\ ~HasTask(c)
        /\ Enter(c, "refused")
        /\ UNCHANGED work
  /\ UNCHANGED <<vars, clone, picked, progress, news>>

\* run_code_test returns; an Err ends the request without an answer.
RunEnds(c) ==
  /\ At(c, "run")
  /\ \/ /\ Enter(c, "validate")
        /\ UNCHANGED <<vars, work>>
     \/ /\ Over(c) /\ Failed(c)
        /\ UNCHANGED <<named, game, redis, minted, known, eviction>>
  /\ UNCHANGED <<clone, picked, progress, news>>

\* "Fetch the host again", and validate_code_test up to the second run.  The
\* public tests are those of the task that the host has at this index now.
Validate(c) ==
  /\ At(c, "validate")
  /\ CanLock(c, work[c].host)
  /\ \/ /\ ~HasTask(c)
        /\ Enter(c, "refused")
        /\ UNCHANGED work
     \/ /\ HasTask(c)
        /\ Enter(c, "report")            \* the program did not run
        /\ UNCHANGED work
     \/ /\ HasTask(c)
        /\ \E out \in Answers(MaxOutputs) :
             \/ /\ Verdict(out, PublicTests[TaskOf(c)]) = "mismatch"
                /\ Enter(c, "refused")
                /\ UNCHANGED work
             \/ /\ Verdict(out, PublicTests[TaskOf(c)]) = "failed"
                /\ Enter(c, "report")
                /\ UNCHANGED work
             \/ /\ Verdict(out, PublicTests[TaskOf(c)]) = "passed"
                /\ Enter(c, "judge")
                /\ work' = [work EXCEPT ![c].out = out]
  /\ UNCHANGED <<vars, clone, picked, progress, news>>

\* is_done of the answer to a program that failed private tests (CountsPublic
\* would set it once the public ones are done).
CountsPublic(c) == TRUE
IsDone(c) == FALSE

\* The private run comes back, the guard of the host still held: an error,
\* or a program that failed some of the tests.
JudgeFails(c) ==
  /\ At(c, "judge")
  /\ \/ /\ Enter(c, "refused")           \* the sandbox cannot be reached
        /\ UNCHANGED work
     \/ /\ Enter(c, "report")            \* the program did not run
        /\ UNCHANGED work
     \/ \E out \in Answers(MaxOutputs) :
          \/ /\ Verdict(out, PrivateTests[TaskOf(c)]) = "mismatch"
             /\ Enter(c, "refused")
             /\ UNCHANGED work
          \/ /\ Verdict(out, PrivateTests[TaskOf(c)]) = "failed"
             /\ Enter(c, "report")
             /\ work' = [work EXCEPT ![c].done = IsDone(c)]
  /\ UNCHANGED <<vars, clone, picked, progress, news>>

\* Whose task_progress is set: as the test of is_host is inverted, it is that
\* of partial_host, which is there if the Start went through.
Recorder(c) == work[c].host

\* Whom the TaskFinished event of c reaches: send_global without the client
\* itself.
Told(c) == Audience(work[c].host) \ {c}

\* The program passed: the task is set as finished and everybody else told.
JudgePasses(c) ==
  LET h == work[c].host
      i == work[c].index
  IN /\ At(c, "judge")
     /\ Recorder(c) \in game[h].dealt
     /\ \E out \in Answers(MaxOutputs) :
          /\ Verdict(out, PrivateTests[TaskOf(c)]) = "passed"
          /\ work' = [work EXCEPT ![c].out = out, ![c].done = TRUE]
     /\ progress' = [progress EXCEPT ![h] = @ \cup {i}]
     /\ news' = [x \in Client |->
                   news[x] \cup (IF x \in Told(c) THEN {i} ELSE {})]
     /\ Enter(c, "report")
     /\ UNCHANGED <<vars, clone, picked>>

\* The same in a game whose Start failed half way: unwrap panics, and with
\* it the reader.
JudgePanics(c) ==
  /\ At(c, "judge")
  /\ Recorder(c) \notin game[work[c].host].dealt
  /\ \E out \in Answers(MaxOutputs) :
       Verdict(out, PrivateTests[TaskOf(c)]) = "passed"
  /\ Over(c) /\ Failed(c)
  /\ UNCHANGED <<named, game, redis, minted, known, eviction>>
  /\ UNCHANGED <<clone, picked, progress, news>>

\* The CompilationResponse, sent through the client's entry if it is there.
Report(c) ==
  /\ At(c, "report")
  /\ Free(c)
  /\ \/ /\ Listed(c)
        /\ news' = [news EXCEPT ![c] =
                      @ \cup (IF work[c].done THEN {work[c].index} ELSE {})]
        /\ UNCHANGED vars
     \/ /\ ~Listed(c)
        /\ Failed(c)
        /\ UNCHANGED <<named, game, redis, minted, known, eviction, news>>
  /\ Over(c)
  /\ UNCHANGED <<clone, picked, progress>>

\* The error, and the Err that closes the connection.
Refuse(c) ==
  /\ At(c, "refused")
  /\ Free(c)
  /\ Over(c) /\ Failed(c)
  /\ UNCHANGED <<named, game, redis, minted, known, eviction>>
  /\ UNCHANGED <<clone, picked, progress, news>>

(***************************************************************************)
(* The timeout.                                                            *)
(***************************************************************************)
\* After 50 s the handler is dropped, with the guard it may hold.  While it
\* waits for a guard its thread is blocked and no timer can strike (with
\* UntilValidated none strikes either once the guard of the host is held).
UntilValidated(c) == At(c, "run")
Awaits(c) == stage[c] \in {"run", "judge"}

Timeout(c) ==
  /\ Awaits(c)
  /\ Enter(c, "timedout")
  /\ work' = [work EXCEPT ![c] = None]
  /\ UNCHANGED <<vars, clone, picked, progress, news>>

\* A send waits for a channel that is full, with a guard locked, until the
\* timer strikes: the answer to any request, what the request did done;
Answering(c) ==
  /\ Listed(c) /\ Free(c)
  /\ \/ At(c, "none") /\ pc[c] = "idle"
     \/ /\ At(c, "none") /\ pc[c] = "register"
        /\ ShardOf[c] # ShardOf[job[c].host]
     \/ stage[c] \in {"report", "refused"}

AnswerStalls(c) ==
  /\ Answering(c)
  /\ Enter(c, "timedout")
  /\ work' = [work EXCEPT ![c] = None]
  /\ Kept(c)
  /\ UNCHANGED <<named, game, redis, minted, known, eviction>>
  /\ UNCHANGED <<clone, picked, progress, news>>

\* a send of register: the newcomer hears of the members, then of the host,
\* and only then the members hear of it, before the host does.  It has not
\* been inserted (InsertedFirst would do so before the sends);
InsertedFirst(h, c) ==
  [game EXCEPT ![h].members = @ \cup {c}, ![h].dealt = @ \ {c}]
NotYetIn(h, c) == game

RegisterStalls(c) ==
  LET h == job[c].host
  IN /\ At(c, "none") /\ pc[c] = "register"
     /\ Free(c) /\ Free(h)
     /\ Sees(c, h) /\ Unlocked(h)
     /\ game[h] # None /\ Admits(h)
     /\ \E heard \in SUBSET Audience(h), told \in SUBSET game[h].members :
          /\ h \in heard => heard = Audience(h)
          /\ told # {} => h \in heard
          /\ known' = [x \in Client |->
                         known[x] \cup (IF x = c THEN heard ELSE {})
                                  \cup (IF x \in told THEN {c} ELSE {})]
     /\ game' = NotYetIn(h, c)
     /\ Kept(c)
     /\ Enter(c, "timedout")
     /\ UNCHANGED <<named, redis, minted, eviction>>
     /\ UNCHANGED <<work, clone, picked, progress, news>>

\* a send of the TaskFinished event, to the members and then the host.  The
\* task has been set as finished.
JudgeStalls(c) ==
  LET h == work[c].host
      i == work[c].index
  IN /\ At(c, "judge")
     /\ Recorder(c) \in game[h].dealt
     /\ \E out \in Answers(MaxOutputs) :
          Verdict(out, PrivateTests[TaskOf(c)]) = "passed"
     /\ \E told \in SUBSET (Told(c) \ {h}) :
          /\ told # Told(c)
          /\ news' = [x \in Client |->
                        news[x] \cup (IF x \in told THEN {i} ELSE {})]
     /\ progress' = [progress EXCEPT ![h] = @ \cup {i}]
     /\ Enter(c, "timedout")
     /\ work' = [work EXCEPT ![c] = None]
     /\ UNCHANGED <<vars, clone, picked>>

\* sockets.get(&client_id).unwrap().clone(): SocketClient derives Clone, its
\* Game with it.
CloneClient(c) ==
  /\ At(c, "timedout")
  /\ Free(c)
  /\ \/ /\ Listed(c)
        /\ Enter(c, IF game[c] = None THEN "none" ELSE "notice")
        /\ UNCHANGED vars
     \/ /\ ~Listed(c)
        /\ Enter(c, "none") /\ Failed(c)
        /\ UNCHANGED <<named, game, redis, minted, known, eviction>>
  /\ clone' = [clone EXCEPT ![c] = game[c]]
  /\ UNCHANGED <<work, picked, progress, news>>

\* The TimeoutResponse is queued and the clone dropped, and its Game with it:
\* that of a member unregisters the client from the roster of its host.
DropMemberClone(c) ==
  LET h == clone[c].host
  IN /\ At(c, "notice") /\ ~clone[c].isHost
     /\ CanLock(c, h)
     /\ game' = Unregister(c, h)
     /\ known' = HearLeave(c, h)
     /\ clone' = [clone EXCEPT ![c] = None]
     /\ Enter(c, "none")
     /\ UNCHANGED <<pc, named, redis, minted, job, eviction>>
     /\ UNCHANGED <<work, picked, progress, news>>

\* That of a host announces a shutdown to everybody on the roster it was
\* cloned with, and deletes the key.  The entry keeps its Game.
DropHostClone(c) ==
  /\ At(c, "notice") /\ clone[c].isHost
  /\ \E ok \in RedisResult :
       /\ Executes(Deleted(clone[c].id), ok)
       /\ known' = HearShutdown(c, clone[c], ok)
  /\ Enter(c, "undo")
  /\ UNCHANGED <<pc, named, game, minted, job, eviction>>
  /\ UNCHANGED <<work, clone, picked, progress, news>>

\* The second DEL of its Drop, in the reader.
UndoKey(c) ==
  /\ At(c, "undo")
  /\ \/ /\ redis' = Deleted(clone[c].id)
        /\ UNCHANGED <<pc, job>>
     \/ /\ RedisMayFail
        /\ Executes(Deleted(clone[c].id), FALSE)
        /\ Failed(c)
  /\ clone' = [clone EXCEPT ![c] = None]
  /\ Enter(c, "none")
  /\ UNCHANGED <<named, game, minted, known, eviction>>
  /\ UNCHANGED <<work, picked, progress, news>>

(***************************************************************************)
(* The specification.                                                      *)
(***************************************************************************)
\* What a Compile, or the end of a timeout, does next on its own; the sandbox
\* need not answer, and no send need wait so long.
Proceed(c) ==
  \/ Prepare(c) \/ Validate(c) \/ Report(c) \/ Refuse(c)
  \/ Timeout(c) \/ CloneClient(c)
  \/ DropMemberClone(c) \/ DropHostClone(c) \/ UndoKey(c)

Sandbox(c) == RunEnds(c) \/ JudgeFails(c) \/ JudgePasses(c) \/ JudgePanics(c)

Stalls(c) == AnswerStalls(c) \/ RegisterStalls(c) \/ JudgeStalls(c)

LobbyStep(c) ==
  \/ Elsewhere(c) \/ Enters(c) \/ Evictions(c)
  \/ \E n \in TaskCounts : Starts(c, n)

CompileStep(c) ==
  \/ \E i \in 1..MaxIndex : CompileBegin(c, i)
  \/ CompileRefused(c)
  \/ Proceed(c) \/ Sandbox(c) \/ Stalls(c)

CNext ==
  \/ \E c \in Client : LobbyStep(c) \/ CompileStep(c)
  \/ Quiescent /\ UNCHANGED cvars

CSpec == CInit /\ [][CNext]_cvars

\* As in Lobby: a handler that has begun goes on, and the timer strikes.  The
\* sandbox may never answer.
CFairSpec ==
  CSpec /\ \A c \in Client :
             /\ SF_cvars(Proceed(c))
             /\ SF_cvars(LobbyStep(c) /\ Continue(c))

(***************************************************************************)
(* Properties.                                                             *)
(***************************************************************************)
\* While a program is judged, the game it is judged in neither ends nor
\* changes hands, although the sandbox is awaited: its task stays there, and
\* its host cannot leave, start or close before the verdict.
JudgedGameStays ==
  \A c \in Client : At(c, "judge") => HasTask(c)

\* Who takes part in the game that h hosts, if it does.
Players(h) == IF Hosting(h) THEN Roster(h) \cup {h} ELSE {}

\* A client that takes part in the game its program is judged in, as the host
\* or on the roster, is judged by the tests of the very task its program was
\* run with, although the host was looked up again in between.
JudgedAgainstItsRun ==
  \A c \in Client :
    LET h == work[c].host
    IN stage[c] \in {"run", "validate", "judge"} /\ c \in Players(h)
         => HasTask(c) /\ work[c].ran = TaskOf(c)

\* A task is set as finished only by a program whose outputs are those of all
\* the public and all the private tests of that task.
DoneMeansAllMatch ==
  \A c \in Client :
    /\ At(c, "judge") => AllMatch(work[c].out, PublicTests[TaskOf(c)])
    /\ At(c, "report") /\ work[c].done /\ c \in Players(work[c].host)
         => AllMatch(work[c].out, PrivateTests[TaskOf(c)])

\* What those in a game were told of finished tasks, by an event or by the
\* answer to a Compile of their own, is so in that game, however many games
\* they were in before and wherever a timeout cut the events short.
NewsIsTrue ==
  \A h \in Client : \A x \in Players(h) : news[x] \subseteq progress[h]

\* A Compile ends, whether the sandbox answers or not: in particular the
\* guard of the host does not stay locked.
CompileEnds == \A c \in Client : stage[c] # "none" ~> stage[c] = "none"

(***************************************************************************)
(* What the comments say and the code does not do.                         *)
(***************************************************************************)
\* "Client does not exist in the game": a program is judged only in a game
\* whose host or member its client is.
JudgedInOwnGame ==
  \A c \in Client :
    At(c, "judge") => c \in Players(work[c].host)

\* "Dropping the game object will leave the game cleanly, or shut it down if
\* the client was host": the game that a host's Drop has shut down, in the
\* end of a timeout as elsewhere, is over.
DroppedGameIsOver ==
  \A c \in Client : At(c, "undo") => ~(Hosting(c) /\ game[c].id = clone[c].id)
=============================================================================
