---------------------------- MODULE GuardsProofs ----------------------------
(***************************************************************************)
(* Proofs about Guards: its type, that handlers block each other for good   *)
(* in three ways only, in two when every entry has a shard of its own, and  *)
(* that short of that some handler that has begun can go on; who has an     *)
(* entry to itself; and that the pool loses no connection.                  *)
(*                                                                         *)
(* What is left of a handler is a sequence that no induction can be made    *)
(* over, so the invariant says of it, position by position, which entries   *)
(* are guarded there: a handler holds at most two guards, the second one    *)
(* inside that of its own entry, and on an entry it looks up.               *)
(***************************************************************************)
EXTENDS Guards, FiniteSetTheorems, SequenceTheorems, TLAPS

Lock == {"read", "write"}

\* A Join that has still to find out, or to store, whom the client follows.
Joins(op) == op[1] = "fetch" \/ (op[1] = "set" /\ op[2] # None)

\* A sandbox run, which only a client with a Game asks for.
Runs(op) == op[1] \in {"run", "judge"}

\* An operation that needs a write guard follows the one that takes it.
Backed(c, E, p, i) ==
  i < Len(p) =>
    /\ p[i + 1][1] = "set" => p[i] = W(c)
    /\ p[i + 1][1] = "register" => p[i] = W(p[i + 1][2])
    /\ p[i + 1][1] = "judge" => p[i][1] = "write" /\ E = {p[i][2]}

\* op, made by c, which nests guards on entries of E only, takes it from holding
\* o, and n inside, to holding o2, and n2 inside.
Nests(c, E, op, o, n, o2, n2) ==
  /\ op[1] \in Lock =>
       /\ op[2] \in Client /\ n = None
       /\ \/ o = None /\ o2 = op[2] /\ n2 = None
          \/ o = c /\ o2 = c /\ op[2] \in E /\ n2 = op[2]
  /\ op[1] = "release" =>
       o # None /\ n2 = None /\ o2 = IF n = None THEN None ELSE o
  /\ op[1] \notin Lock \cup {"release"} => o2 = o /\ n2 = n

\* Operation i of p may stand where it does, with these guards held.
Legal(c, E, p, i, o, n, o2, n2) ==
  /\ Backed(c, E, p, i)
  /\ Nests(c, E, p[i], o, n, o2, n2)
  /\ p[i][1] = "fetch" => i = Len(p) /\ o = c /\ n = None
  /\ p[i][1] = "register" => o # None /\ n = None
  /\ p[i][1] = "try" => i < Len(p) /\ p[i + 1][1] = "give"
  /\ p[i][1] = "fail" => i = Len(p)
  /\ Runs(p[i]) => i < Len(p)
  /\ p[i][1] = "set" => \A j \in (i + 1)..Len(p) : ~Runs(p[j])
  /\ p[i][1] = "set" /\ p[i][2] # None =>
       E = {p[i][2]} /\ \A j \in (i + 1)..Len(p) : ~Joins(p[j])

\* The guards that c holds before each operation of p, and in the end.
Walk(c, E, p, out, inn) ==
  /\ out \in [1..(Len(p) + 1) -> Client \cup {None}]
  /\ inn \in [1..(Len(p) + 1) -> Client \cup {None}]
  /\ \A i \in 1..Len(p) :
       Legal(c, E, p, i, out[i], inn[i], out[i + 1], inn[i + 1])
  /\ (Len(p) > 0 => p[Len(p)][1] \notin {"fail", "fetch"}) =>
       out[Len(p) + 1] = None /\ inn[Len(p) + 1] = None

\* p can be run by c from holding o, and n inside.
Fits(c, E, p, o, n) ==
  \E out, inn \in [1..(Len(p) + 1) -> Client \cup {None}] :
    Walk(c, E, p, out, inn) /\ out[1] = o /\ inn[1] = n

Holds(c, o, n) ==
  /\ Len(guards[c]) = IF o = None THEN 0 ELSE IF n = None THEN 1 ELSE 2
  /\ o # None => guards[c][1][2] = o
  /\ n # None => guards[c][2][2] = n
  /\ o = None => n = None

\* What c follows, E, agrees with its Game, and with what its handler does.
Follows(c, E) ==
  /\ game[c] # None => E = {game[c]}
  /\ (\E i \in DOMAIN prog[c] : Joins(prog[c][i])) => game[c] = None
  /\ (\E i \in DOMAIN prog[c] : Runs(prog[c][i])) => game[c] # None
  /\ \E o, n \in Client \cup {None} :
       Fits(c, E, prog[c], o, n) /\ Holds(c, o, n)

Acyclic(L) ==
  \A Q \in SUBSET Client : Q # {} => \E x \in Q : L[x] \cap Q \subseteq {x}

\* Whoever has the writer bit has the guard, or is about to take it.
Claimed ==
  \A s \in MapShard : \A d \in Client :
    writer[s] = d =>
      Guarded(d, "write", s) \/ (Waiting(d, "write") /\ ShardIn[Named(d)] = s)

\* A handler gives its thread back for the sandbox only.
OnThread ==
  \A c \in Client :
    /\ c \in polled => prog[c] # <<>>
    /\ c \notin polled /\ prog[c] # <<>> => prog[c][1][1] \in {"run", "judge"}

Ordered ==
  \E L \in [Client -> SUBSET Client] :
    Acyclic(L) /\ \A c \in Client : Follows(c, L[c])

GIInv == GTypeOK /\ Claimed /\ OnThread /\ Ordered

(***************************************************************************)
(* Sequences put together.                                                 *)
(***************************************************************************)
Parts(s, t, u) ==
  /\ Len(u) = Len(s) + Len(t)
  /\ \A i \in 1..Len(u) : u[i] = IF i <= Len(s) THEN s[i] ELSE t[i - Len(s)]

ThreeParts(s, t, r, u) ==
  /\ Len(u) = Len(s) + Len(t) + Len(r)
  /\ \A i \in 1..Len(u) :
       u[i] = IF i <= Len(s) THEN s[i]
              ELSE IF i <= Len(s) + Len(t) THEN t[i - Len(s)]
              ELSE r[i - (Len(s) + Len(t))]

LEMMA ConcatIs ==
  ASSUME NEW S, NEW s \in Seq(S), NEW t \in Seq(S), NEW u \in Seq(S),
         Parts(s, t, u)
  PROVE  s \o t = u
<1>1. s \o t \in Seq(S) /\ Len(s \o t) = Len(u)
  BY ConcatProperties DEF Parts
<1>2. \A i \in 1..Len(u) : (s \o t)[i] = u[i]
  BY ConcatProperties DEF Parts
<1> QED
  BY <1>1, <1>2, SeqEqual

LEMMA ConcatsAre ==
  ASSUME NEW S, NEW s \in Seq(S), NEW t \in Seq(S), NEW r \in Seq(S),
         NEW u \in Seq(S), ThreeParts(s, t, r, u)
  PROVE  s \o t \o r = u
<1>1. s \o t \in Seq(S) /\ Parts(s, t, s \o t)
  BY ConcatProperties DEF Parts
<1>2. \A v \in Seq(S) : Parts(s, t, v) => v \o r = u
  <2> SUFFICES ASSUME NEW v \in Seq(S), Parts(s, t, v)
               PROVE  v \o r = u
    OBVIOUS
  <2>1. Len(v) = Len(s) + Len(t) /\ Len(u) = Len(v) + Len(r)
    BY DEF Parts, ThreeParts
  <2>2. ASSUME NEW i \in 1..Len(u)
        PROVE  u[i] = IF i <= Len(v) THEN v[i] ELSE r[i - Len(v)]
    <3>1. CASE i <= Len(s)
      <4>1. i \in 1..Len(v) /\ i <= Len(v)
        BY <2>1, <3>1
      <4>2. v[i] = s[i]
        BY <3>1, <4>1 DEF Parts
      <4>3. u[i] = s[i]
        BY <2>1, <3>1 DEF ThreeParts
      <4> QED
        BY <4>1, <4>2, <4>3
    <3>2. CASE ~(i <= Len(s)) /\ i <= Len(v)
      <4>1. i \in 1..Len(v)
        BY <3>2
      <4>2. v[i] = t[i - Len(s)]
        BY <3>2, <4>1 DEF Parts
      <4>3. u[i] = t[i - Len(s)]
        BY <2>1, <3>2 DEF ThreeParts
      <4> QED
        BY <3>2, <4>2, <4>3
    <3>3. CASE ~(i <= Len(v))
      BY <2>1, <3>3 DEF ThreeParts
    <3> QED
      BY <3>1, <3>2, <3>3, <2>1
  <2> QED
    BY <2>1, <2>2, ConcatIs DEF Parts
<1> QED
  BY <1>1, <1>2

(***************************************************************************)
(* The handlers.                                                           *)
(***************************************************************************)
\* A handler that leaves it to others to make the client follow somebody.
Handles(c, E, p) ==
  /\ p \in Seq(Op) /\ p # <<>> /\ p[1][1] \in {"read", "write", "take"}
  /\ Fits(c, E, p, None, None)
  /\ \A i \in 1..Len(p) : ~Joins(p[i]) /\ (Runs(p[i]) => game[c] # None)

\* A handler in which the client neither joins nor runs anything.
LEMMA StepsHandle ==
  ASSUME NEW c \in Client, NEW E \in SUBSET Client, NEW u \in Seq(Op), u # <<>>,
         u[1][1] \in {"read", "write", "take"},
         NEW out \in [1..(Len(u) + 1) -> Client \cup {None}],
         NEW inn \in [1..(Len(u) + 1) -> Client \cup {None}],
         out[1] = None, inn[1] = None,
         u[Len(u)][1] # "fail" => out[Len(u) + 1] = None /\ inn[Len(u) + 1] = None,
         \A i \in 1..Len(u) :
           /\ ~Joins(u[i]) /\ ~Runs(u[i]) /\ u[i][1] \notin {"fetch", "register"}
           /\ u[i][1] = "try" => i < Len(u) /\ u[i + 1][1] = "give"
           /\ u[i][1] = "fail" => i = Len(u)
           /\ u[i][1] = "set" => u[i][2] = None,
         \A i \in 1..Len(u) : Backed(c, E, u, i),
         \A i \in 1..Len(u) : Nests(c, E, u[i], out[i], inn[i], out[i + 1], inn[i + 1])
  PROVE  Handles(c, E, u)
<1>1. ASSUME NEW i \in 1..Len(u)
      PROVE  Legal(c, E, u, i, out[i], inn[i], out[i + 1], inn[i + 1])
  <2>1. \A j \in (i + 1)..Len(u) : ~Runs(u[j])
    OBVIOUS
  <2> QED
    BY <2>1, Zenon DEF Legal
<1>2. Len(u) > 0 /\ Len(u) \in 1..Len(u)
  OBVIOUS
<1>3. Walk(c, E, u, out, inn)
  BY <1>1, <1>2 DEF Walk
<1> QED
  BY <1>3 DEF Handles, Fits

LEMMA AloneHandles ==
  ASSUME NEW c \in Client, NEW E \in SUBSET Client
  PROVE  Handles(c, E, Alone(c))
<1> DEFINE out == <<None, c, None>>
           inn == <<None, None, None>>
<1>1. Walk(c, E, Alone(c), out, inn)
  BY GuardsConstants DEF Walk, Legal, Nests, Backed, Lock, Joins, Runs, W, Release, Alone
<1>2. Alone(c) \in Seq(Op)
  BY DEF Op, Kind, W, Release, Alone
<1>3. /\ Alone(c) # <<>> /\ Alone(c)[1][1] \in {"read", "write", "take"}
      /\ \A i \in 1..Len(Alone(c)) :
           /\ ~Joins(Alone(c)[i])
           /\ Runs(Alone(c)[i]) => game[c] # None
  BY GuardsConstants DEF Joins, Runs, W, Release, Alone
<1> QED
  BY <1>1, <1>2, <1>3 DEF Handles, Fits, Walk

LEMMA PingHandles ==
  ASSUME NEW c \in Client, NEW E \in SUBSET Client
  PROVE  Handles(c, E, Ping(c))
<1> DEFINE out == <<None, c, None>>
           inn == <<None, None, None>>
<1>1. Walk(c, E, Ping(c), out, inn)
  BY GuardsConstants DEF Walk, Legal, Nests, Backed, Lock, Joins, Runs, R, Release, Ping
<1>2. Ping(c) \in Seq(Op)
  BY DEF Op, Kind, R, Release, Ping
<1>3. /\ Ping(c) # <<>> /\ Ping(c)[1][1] \in {"read", "write", "take"}
      /\ \A i \in 1..Len(Ping(c)) :
           /\ ~Joins(Ping(c)[i])
           /\ Runs(Ping(c)[i]) => game[c] # None
  BY GuardsConstants DEF Joins, Runs, R, Release, Ping
<1> QED
  BY <1>1, <1>2, <1>3 DEF Handles, Fits, Walk

LEMMA CreateHandles ==
  ASSUME NEW c \in Client, NEW E \in SUBSET Client
  PROVE  Handles(c, E, Create(c))
<1> DEFINE out == <<None, None, c, None, None>>
           inn == <<None, None, None, None, None>>
<1>1. Walk(c, E, Create(c), out, inn)
  BY GuardsConstants DEF Walk, Legal, Nests, Backed, Lock, Joins, Runs, Take, R, Release,
      Give, Create
<1>2. Create(c) \in Seq(Op)
  BY DEF Op, Kind, Take, R, Release, Give, Create
<1>3. /\ Create(c) # <<>> /\ Create(c)[1][1] \in {"read", "write", "take"}
      /\ \A i \in 1..Len(Create(c)) :
           /\ ~Joins(Create(c)[i])
           /\ Runs(Create(c)[i]) => game[c] # None
  BY GuardsConstants DEF Joins, Runs, Take, R, Release, Give, Create
<1> QED
  BY <1>1, <1>2, <1>3 DEF Handles, Fits, Walk

LEMMA ExistsHandles ==
  ASSUME NEW c \in Client, NEW E \in SUBSET Client, NEW h \in Client
  PROVE  Handles(c, E, Exists(c, h))
<1> DEFINE out == <<None, None, h, None, c, None, None>>
           inn == <<None, None, None, None, None, None, None>>
<1>1. Walk(c, E, Exists(c, h), out, inn)
  BY GuardsConstants DEF Walk, Legal, Nests, Backed, Lock, Joins, Runs, Take, R, Release,
      Give, Exists
<1>2. Exists(c, h) \in Seq(Op)
  BY DEF Op, Kind, Take, R, Release, Give, Exists
<1>3. /\ Exists(c, h) # <<>> /\ Exists(c, h)[1][1] \in {"read", "write", "take"}
      /\ \A i \in 1..Len(Exists(c, h)) :
           /\ ~Joins(Exists(c, h)[i])
           /\ Runs(Exists(c, h)[i]) => game[c] # None
  BY GuardsConstants DEF Joins, Runs, Take, R, Release, Give, Exists
<1> QED
  BY <1>1, <1>2, <1>3 DEF Handles, Fits, Walk

LEMMA TaskHandles ==
  ASSUME NEW c \in Client, NEW E \in SUBSET Client, game[c] \in E
  PROVE  Handles(c, E, Task(c))
<1> DEFINE out == <<None, c, c, c, None>>
           inn == <<None, None, game[c], None, None>>
<1>1. Walk(c, E, Task(c), out, inn)
  BY GuardsConstants DEF Walk, Legal, Nests, Backed, Lock, Joins, Runs, R, Release, Task
<1>2. Task(c) \in Seq(Op)
  BY DEF Op, Kind, R, Release, Task
<1>3. /\ Task(c) # <<>> /\ Task(c)[1][1] \in {"read", "write", "take"}
      /\ \A i \in 1..Len(Task(c)) :
           /\ ~Joins(Task(c)[i])
           /\ Runs(Task(c)[i]) => game[c] # None
  BY GuardsConstants DEF Joins, Runs, R, Release, Task
<1> QED
  BY <1>1, <1>2, <1>3 DEF Handles, Fits, Walk

LEMMA TaskRefusedHandles ==
  ASSUME NEW c \in Client, NEW E \in SUBSET Client, game[c] \in E
  PROVE  Handles(c, E, TaskRefused(c))
<1> DEFINE out == <<None, c, c, c>>
           inn == <<None, None, game[c], game[c]>>
<1>1. Walk(c, E, TaskRefused(c), out, inn)
  BY GuardsConstants DEF Walk, Legal, Nests, Backed, Lock, Joins, Runs, R, Fail, TaskRefused
<1>2. TaskRefused(c) \in Seq(Op)
  BY DEF Op, Kind, R, Fail, TaskRefused
<1>3. /\ TaskRefused(c) # <<>> /\ TaskRefused(c)[1][1] \in {"read", "write", "take"}
      /\ \A i \in 1..Len(TaskRefused(c)) :
           /\ ~Joins(TaskRefused(c)[i])
           /\ Runs(TaskRefused(c)[i]) => game[c] # None
  BY GuardsConstants DEF Joins, Runs, R, Fail, TaskRefused
<1> QED
  BY <1>1, <1>2, <1>3 DEF Handles, Fits, Walk

LEMMA CompileHandles ==
  ASSUME NEW c \in Client, NEW E \in SUBSET Client, game[c] \in Client,
         E = {game[c]}
  PROVE  Handles(c, E, Compile(c))
<1> DEFINE out == <<None, c, None, game[c], None, None, game[c], game[c],
    None, c, None>>
           inn == <<None, None, None, None, None, None, None, None, None,
               None, None>>
<1>1. Walk(c, E, Compile(c), out, inn)
  BY GuardsConstants DEF Walk, Legal, Nests, Backed, Lock, Joins, Runs, R, Release, W,
      Compile
<1>2. Compile(c) \in Seq(Op)
  BY DEF Op, Kind, R, Release, W, Compile
<1>3. /\ Compile(c) # <<>> /\ Compile(c)[1][1] \in {"read", "write", "take"}
      /\ \A i \in 1..Len(Compile(c)) :
           /\ ~Joins(Compile(c)[i])
           /\ Runs(Compile(c)[i]) => game[c] # None
  BY GuardsConstants DEF Joins, Runs, R, Release, W, Compile
<1> QED
  BY <1>1, <1>2, <1>3 DEF Handles, Fits, Walk

LEMMA CompileRefusedHandles ==
  ASSUME NEW c \in Client, NEW E \in SUBSET Client, game[c] \in Client
  PROVE  Handles(c, E, CompileRefused(c))
<1> DEFINE out == <<None, c, None, game[c], None, c, c>>
           inn == <<None, None, None, None, None, None, None>>
<1>1. Walk(c, E, CompileRefused(c), out, inn)
  BY GuardsConstants DEF Walk, Legal, Nests, Backed, Lock, Joins, Runs, R, Release, W, Fail,
      CompileRefused
<1>2. CompileRefused(c) \in Seq(Op)
  BY DEF Op, Kind, R, Release, W, Fail, CompileRefused
<1>3. /\ CompileRefused(c) # <<>> /\ CompileRefused(c)[1][1] \in {"read", "write", "take"}
      /\ \A i \in 1..Len(CompileRefused(c)) :
           /\ ~Joins(CompileRefused(c)[i])
           /\ Runs(CompileRefused(c)[i]) => game[c] # None
  BY GuardsConstants DEF Joins, Runs, R, Release, W, Fail, CompileRefused
<1> QED
  BY <1>1, <1>2, <1>3 DEF Handles, Fits, Walk

LEMMA NotInGameHandles ==
  ASSUME NEW c \in Client, NEW E \in SUBSET Client, NEW p \in NotInGame(c)
  PROVE  Handles(c, E, p)
<1> DEFINE out == <<None, c, c>>
           inn == <<None, None, None>>
<1>1. ASSUME NEW k \in Lock
      PROVE  Handles(c, E, <<<<k, c>>, <<"fail", None>>>>)
  <2> DEFINE q == <<<<k, c>>, <<"fail", None>>>>
  <2>1. Walk(c, E, q, out, inn)
    BY GuardsConstants DEF Walk, Legal, Nests, Backed, Lock, Joins, Runs
  <2>2. /\ q \in Seq(Op) /\ q # <<>> /\ q[1][1] \in {"read", "write", "take"}
        /\ \A i \in 1..Len(q) : ~Joins(q[i]) /\ ~Runs(q[i])
    BY DEF Op, Kind, Lock, Joins, Runs
  <2> QED
    BY <2>1, <2>2 DEF Handles, Fits, Walk
<1>2. p = <<W(c), Fail>> \/ p = <<R(c), Fail>>
  BY DEF NotInGame
<1> QED
  BY <1>1, <1>2 DEF W, R, Fail, Lock

\* A Join, and how it goes on.
LEMMA JoinFits ==
  ASSUME NEW c \in Client, NEW E \in SUBSET Client
  PROVE  /\ Join(c) \in Seq(Op) /\ Join(c) # <<>>
         /\ Fits(c, E, Join(c), None, None)
         /\ \A i \in 1..Len(Join(c)) : ~Runs(Join(c)[i])
<1> DEFINE out == <<None, c, c, c>>
           inn == <<None, None, None, None>>
<1>1. Walk(c, E, Join(c), out, inn)
  BY GuardsConstants DEF Walk, Legal, Nests, Backed, Lock, Joins, Runs, R, Take, Join
<1>2. Join(c) \in Seq(Op) /\ Join(c) # <<>>
  BY DEF Op, Kind, R, Take, Join
<1>3. \A i \in 1..Len(Join(c)) : ~Runs(Join(c)[i])
  BY DEF Joins, Runs, R, Take, Join
<1> QED
  BY <1>1, <1>2, <1>3 DEF Fits, Walk

LEMMA JoinAsHostFits ==
  ASSUME NEW c \in Client, NEW E \in SUBSET Client, E = {c}
  PROVE  /\ JoinAsHost(c) \in Seq(Op) /\ JoinAsHost(c) # <<>>
         /\ Fits(c, E, JoinAsHost(c), c, None)
         /\ \A i \in 1..Len(JoinAsHost(c)) : ~Runs(JoinAsHost(c)[i])
<1> DEFINE out == <<c, None, c, c, None, None>>
           inn == <<None, None, None, None, None, None>>
<1>1. Walk(c, E, JoinAsHost(c), out, inn)
  BY GuardsConstants, SMTT(30) DEF Walk, Legal, Nests, Backed, Lock, Joins, Runs, Release, W, Set,
      Give, JoinAsHost
<1>2. JoinAsHost(c) \in Seq(Op) /\ JoinAsHost(c) # <<>>
  BY DEF Op, Kind, Release, W, Set, Give, JoinAsHost
<1>3. \A i \in 1..Len(JoinAsHost(c)) : ~Runs(JoinAsHost(c)[i])
  BY DEF Joins, Runs, Release, W, Set, Give, JoinAsHost
<1> QED
  BY <1>1, <1>2, <1>3 DEF Fits, Walk

LEMMA JoinHereFits ==
  ASSUME NEW c \in Client, NEW E \in SUBSET Client, NEW h \in Client, E = {h}
  PROVE  /\ JoinHere(c, h) \in Seq(Op) /\ JoinHere(c, h) # <<>>
         /\ Fits(c, E, JoinHere(c, h), c, None)
         /\ \A i \in 1..Len(JoinHere(c, h)) : ~Runs(JoinHere(c, h)[i])
<1> DEFINE out == <<c, None, h, h, None, c, c, None, None>>
           inn == <<None, None, None, None, None, None, None, None, None>>
<1>1. \A i \in 1..Len(JoinHere(c, h)) : ~Runs(JoinHere(c, h)[i])
  BY DEF Runs, Release, W, Set, Give, JoinHere
<1>2. \A i \in 1..Len(JoinHere(c, h)) : Backed(c, E, JoinHere(c, h), i)
  BY DEF Backed, Release, W, Set, Give, JoinHere
<1>3. Walk(c, E, JoinHere(c, h), out, inn)
  BY <1>1, <1>2, GuardsConstants, SMTT(60)
  DEF Walk, Legal, Nests, Lock, Joins, Release, W, Set, Give, JoinHere
<1>4. JoinHere(c, h) \in Seq(Op) /\ JoinHere(c, h) # <<>>
  BY DEF Op, Kind, Release, W, Set, Give, JoinHere
<1> QED
  BY <1>1, <1>3, <1>4 DEF Fits, Walk

LEMMA JoinElsewhereFits ==
  ASSUME NEW c \in Client, NEW E \in SUBSET Client
  PROVE  /\ JoinElsewhere(c) \in Seq(Op) /\ JoinElsewhere(c) # <<>>
         /\ Fits(c, E, JoinElsewhere(c), c, None)
         /\ \A i \in 1..Len(JoinElsewhere(c)) : ~Runs(JoinElsewhere(c)[i])
<1> DEFINE out == <<c, None, None, c, c>>
           inn == <<None, None, None, None, None>>
<1>1. Walk(c, E, JoinElsewhere(c), out, inn)
  BY GuardsConstants DEF Walk, Legal, Nests, Backed, Lock, Joins, Runs, Release, Take, R,
      Fail, JoinElsewhere
<1>2. JoinElsewhere(c) \in Seq(Op) /\ JoinElsewhere(c) # <<>>
  BY DEF Op, Kind, Release, Take, R, Fail, JoinElsewhere
<1>3. \A i \in 1..Len(JoinElsewhere(c)) : ~Runs(JoinElsewhere(c)[i])
  BY DEF Joins, Runs, Release, Take, R, Fail, JoinElsewhere
<1> QED
  BY <1>1, <1>2, <1>3 DEF Fits, Walk

LEMMA TurnedAwayFits ==
  ASSUME NEW c \in Client, NEW E \in SUBSET Client, NEW o \in Client
  PROVE  /\ <<Release, W(c), Release, Give>> \in Seq(Op)
         /\ Fits(c, E, <<Release, W(c), Release, Give>>, o, None)
         /\ \A i \in 1..4 : LET op == <<Release, W(c), Release, Give>>[i]
                           IN ~Joins(op) /\ ~Runs(op)
<1> DEFINE out == <<o, None, c, None, None>>
           inn == <<None, None, None, None, None>>
<1>1. Walk(c, E, <<Release, W(c), Release, Give>>, out, inn)
  BY GuardsConstants DEF Walk, Legal, Nests, Backed, Lock, Joins, Runs, Release, W, Give
<1>2. <<Release, W(c), Release, Give>> \in Seq(Op) /\ <<Release, W(c), Release, Give>> # <<>>
  BY DEF Op, Kind, Release, W, Give
<1>3. \A i \in 1..4 : ~Joins(<<Release, W(c), Release, Give>>[i]) /\ ~Runs(<<Release, W(c), Release, Give>>[i])
  BY DEF Joins, Runs, Release, W, Give
<1> QED
  BY <1>1, <1>2, <1>3 DEF Fits, Walk

\* With the own entry guarded, the Game goes.
LEMMA LeaveHandles ==
  ASSUME NEW c \in Client, NEW E \in SUBSET Client, game[c] \in E
  PROVE  Handles(c, E, Leave(c))
<1>1. CASE game[c] = c
  <2> DEFINE out == <<None, c, c, c, c, c, c, None>>
             inn == <<None, None, None, None, None, None, None, None>>
             s == <<W(c), Set(None)>>
             t == <<Try, Give, Take, Give>>
             r == <<Release>>
             u == <<W(c), Set(None), Try, Give, Take, Give, Release>>
  <2>1. Leave(c) = s \o t \o r
    BY <1>1 DEF Leave, DropGame
  <2>2. s \in Seq(Op) /\ t \in Seq(Op) /\ r \in Seq(Op) /\ u \in Seq(Op)
    BY DEF Op, Kind, W, Set, Try, Give, Take, Release
  <2>3. ThreeParts(s, t, r, u)
    BY DEF ThreeParts
  <2>4. s \o t \o r = u
    <3> HIDE DEF s, t, r, u
    <3> QED
      BY <2>2, <2>3, ConcatsAre, Zenon
  <2>5. Leave(c) = u
    BY <2>1, <2>4, Zenon
  <2>6. \A i \in 1..Len(u) :
          /\ ~Joins(u[i]) /\ ~Runs(u[i]) /\ u[i][1] \notin {"fetch", "register"}
          /\ u[i][1] = "try" => i < Len(u) /\ u[i + 1][1] = "give"
          /\ u[i][1] = "fail" => i = Len(u)
          /\ u[i][1] = "set" => u[i][2] = None
    BY GuardsConstants DEF Joins, Runs, W, Set, Try, Give, Take, Release
  <2>7. \A i \in 1..Len(u) : Backed(c, E, u, i)
    BY DEF Backed, W, Set, Try, Give, Take, Release
  <2>8. ASSUME NEW i \in 1..Len(u)
        PROVE  Nests(c, E, u[i], out[i], inn[i], out[i + 1], inn[i + 1])
    BY <1>1, GuardsConstants DEF Nests, Lock, W, Set, Try, Give, Take, Release
  <2>9. /\ u # <<>> /\ u[1][1] \in {"read", "write", "take"}
        /\ out \in [1..(Len(u) + 1) -> Client \cup {None}]
        /\ inn \in [1..(Len(u) + 1) -> Client \cup {None}]
        /\ out[1] = None /\ inn[1] = None
        /\ u[Len(u)][1] # "fail" => out[Len(u) + 1] = None /\ inn[Len(u) + 1] = None
    BY <1>1, GuardsConstants DEF W, Set, Try, Give, Take, Release
  <2>10. Handles(c, E, u)
    <3> HIDE DEF u, out, inn
    <3> QED
      BY <2>2, <2>6, <2>7, <2>8, <2>9, StepsHandle
  <2> QED
    BY <2>5, <2>10
<1>2. CASE game[c] # c
  <2> DEFINE out == <<None, c, c, c, c, None>>
             inn == <<None, None, None, game[c], None, None>>
             s == <<W(c), Set(None)>>
             t == <<W(game[c]), Release>>
             r == <<Release>>
             u == <<W(c), Set(None), W(game[c]), Release, Release>>
  <2>1. Leave(c) = s \o t \o r
    BY <1>2 DEF Leave, DropGame
  <2>2. s \in Seq(Op) /\ t \in Seq(Op) /\ r \in Seq(Op) /\ u \in Seq(Op)
    BY DEF Op, Kind, W, Set, Release
  <2>3. ThreeParts(s, t, r, u)
    BY DEF ThreeParts
  <2>4. s \o t \o r = u
    <3> HIDE DEF s, t, r, u
    <3> QED
      BY <2>2, <2>3, ConcatsAre, Zenon
  <2>5. Leave(c) = u
    BY <2>1, <2>4, Zenon
  <2>6. \A i \in 1..Len(u) :
          /\ ~Joins(u[i]) /\ ~Runs(u[i]) /\ u[i][1] \notin {"fetch", "register"}
          /\ u[i][1] = "try" => i < Len(u) /\ u[i + 1][1] = "give"
          /\ u[i][1] = "fail" => i = Len(u)
          /\ u[i][1] = "set" => u[i][2] = None
    BY GuardsConstants DEF Joins, Runs, W, Set, Release
  <2>7. \A i \in 1..Len(u) : Backed(c, E, u, i)
    BY DEF Backed, W, Set, Release
  <2>8. ASSUME NEW i \in 1..Len(u)
        PROVE  Nests(c, E, u[i], out[i], inn[i], out[i + 1], inn[i + 1])
    BY <1>2, GuardsConstants DEF Nests, Lock, W, Set, Release
  <2>9. /\ u # <<>> /\ u[1][1] \in {"read", "write", "take"}
        /\ out \in [1..(Len(u) + 1) -> Client \cup {None}]
        /\ inn \in [1..(Len(u) + 1) -> Client \cup {None}]
        /\ out[1] = None /\ inn[1] = None
        /\ u[Len(u)][1] # "fail" => out[Len(u) + 1] = None /\ inn[Len(u) + 1] = None
    BY <1>2, GuardsConstants DEF W, Set, Release
  <2>10. Handles(c, E, u)
    <3> HIDE DEF u, out, inn
    <3> QED
      BY <2>2, <2>6, <2>7, <2>8, <2>9, StepsHandle
  <2> QED
    BY <2>5, <2>10
<1> QED
  BY <1>1, <1>2

LEMMA StartRefusedHandles ==
  ASSUME NEW c \in Client, NEW E \in SUBSET Client, game[c] \in E
  PROVE  Handles(c, E, StartRefused(c))
<1>1. CASE game[c] = c
  <2> DEFINE out == <<None, c, c, c, c, c, c, c>>
             inn == <<None, None, None, None, None, None, None, None>>
             s == <<W(c), Set(None)>>
             t == <<Try, Give, Take, Give>>
             r == <<Fail>>
             u == <<W(c), Set(None), Try, Give, Take, Give, Fail>>
  <2>1. StartRefused(c) = s \o t \o r
    BY <1>1 DEF StartRefused, DropGame
  <2>2. s \in Seq(Op) /\ t \in Seq(Op) /\ r \in Seq(Op) /\ u \in Seq(Op)
    BY DEF Op, Kind, W, Set, Try, Give, Take, Fail, Release
  <2>3. ThreeParts(s, t, r, u)
    BY DEF ThreeParts
  <2>4. s \o t \o r = u
    <3> HIDE DEF s, t, r, u
    <3> QED
      BY <2>2, <2>3, ConcatsAre, Zenon
  <2>5. StartRefused(c) = u
    BY <2>1, <2>4, Zenon
  <2>6. \A i \in 1..Len(u) :
          /\ ~Joins(u[i]) /\ ~Runs(u[i]) /\ u[i][1] \notin {"fetch", "register"}
          /\ u[i][1] = "try" => i < Len(u) /\ u[i + 1][1] = "give"
          /\ u[i][1] = "fail" => i = Len(u)
          /\ u[i][1] = "set" => u[i][2] = None
    BY GuardsConstants DEF Joins, Runs, W, Set, Try, Give, Take, Fail, Release
  <2>7. \A i \in 1..Len(u) : Backed(c, E, u, i)
    BY DEF Backed, W, Set, Try, Give, Take, Fail, Release
  <2>8. ASSUME NEW i \in 1..Len(u)
        PROVE  Nests(c, E, u[i], out[i], inn[i], out[i + 1], inn[i + 1])
    BY <1>1, GuardsConstants DEF Nests, Lock, W, Set, Try, Give, Take, Fail, Release
  <2>9. /\ u # <<>> /\ u[1][1] \in {"read", "write", "take"}
        /\ out \in [1..(Len(u) + 1) -> Client \cup {None}]
        /\ inn \in [1..(Len(u) + 1) -> Client \cup {None}]
        /\ out[1] = None /\ inn[1] = None
        /\ u[Len(u)][1] # "fail" => out[Len(u) + 1] = None /\ inn[Len(u) + 1] = None
    BY <1>1, GuardsConstants DEF W, Set, Try, Give, Take, Fail, Release
  <2>10. Handles(c, E, u)
    <3> HIDE DEF u, out, inn
    <3> QED
      BY <2>2, <2>6, <2>7, <2>8, <2>9, StepsHandle
  <2> QED
    BY <2>5, <2>10
<1>2. CASE game[c] # c
  <2> DEFINE out == <<None, c, c, c, c, c>>
             inn == <<None, None, None, game[c], None, None>>
             s == <<W(c), Set(None)>>
             t == <<W(game[c]), Release>>
             r == <<Fail>>
             u == <<W(c), Set(None), W(game[c]), Release, Fail>>
  <2>1. StartRefused(c) = s \o t \o r
    BY <1>2 DEF StartRefused, DropGame
  <2>2. s \in Seq(Op) /\ t \in Seq(Op) /\ r \in Seq(Op) /\ u \in Seq(Op)
    BY DEF Op, Kind, W, Set, Release, Fail
  <2>3. ThreeParts(s, t, r, u)
    BY DEF ThreeParts
  <2>4. s \o t \o r = u
    <3> HIDE DEF s, t, r, u
    <3> QED
      BY <2>2, <2>3, ConcatsAre, Zenon
  <2>5. StartRefused(c) = u
    BY <2>1, <2>4, Zenon
  <2>6. \A i \in 1..Len(u) :
          /\ ~Joins(u[i]) /\ ~Runs(u[i]) /\ u[i][1] \notin {"fetch", "register"}
          /\ u[i][1] = "try" => i < Len(u) /\ u[i + 1][1] = "give"
          /\ u[i][1] = "fail" => i = Len(u)
          /\ u[i][1] = "set" => u[i][2] = None
    BY GuardsConstants DEF Joins, Runs, W, Set, Release, Fail
  <2>7. \A i \in 1..Len(u) : Backed(c, E, u, i)
    BY DEF Backed, W, Set, Release, Fail
  <2>8. ASSUME NEW i \in 1..Len(u)
        PROVE  Nests(c, E, u[i], out[i], inn[i], out[i + 1], inn[i + 1])
    BY <1>2, GuardsConstants DEF Nests, Lock, W, Set, Release, Fail
  <2>9. /\ u # <<>> /\ u[1][1] \in {"read", "write", "take"}
        /\ out \in [1..(Len(u) + 1) -> Client \cup {None}]
        /\ inn \in [1..(Len(u) + 1) -> Client \cup {None}]
        /\ out[1] = None /\ inn[1] = None
        /\ u[Len(u)][1] # "fail" => out[Len(u) + 1] = None /\ inn[Len(u) + 1] = None
    BY <1>2, GuardsConstants DEF W, Set, Release, Fail
  <2>10. Handles(c, E, u)
    <3> HIDE DEF u, out, inn
    <3> QED
      BY <2>2, <2>6, <2>7, <2>8, <2>9, StepsHandle
  <2> QED
    BY <2>5, <2>10
<1> QED
  BY <1>1, <1>2

LEMMA NoticeHandles ==
  ASSUME NEW c \in Client, NEW E \in SUBSET Client, game[c] \in E
  PROVE  Handles(c, E, Notice(c))
<1>1. CASE game[c] = c
  <2> DEFINE out == <<None, c, None, None, None, None, None>>
             inn == <<None, None, None, None, None, None, None>>
             s == <<R(c), Release>>
             t == <<Try, Give, Take, Give>>
             u == <<R(c), Release, Try, Give, Take, Give>>
  <2>1. Notice(c) = s \o t
    BY <1>1 DEF Notice, DropGame
  <2>2. s \in Seq(Op) /\ t \in Seq(Op) /\ u \in Seq(Op)
    BY DEF Op, Kind, R, Release, Try, Give, Take
  <2>3. Parts(s, t, u)
    BY DEF Parts
  <2>4. s \o t = u
    <3> HIDE DEF s, t, u
    <3> QED
      BY <2>2, <2>3, ConcatIs, Zenon
  <2>5. Notice(c) = u
    BY <2>1, <2>4, Zenon
  <2>6. \A i \in 1..Len(u) :
          /\ ~Joins(u[i]) /\ ~Runs(u[i]) /\ u[i][1] \notin {"fetch", "register"}
          /\ u[i][1] = "try" => i < Len(u) /\ u[i + 1][1] = "give"
          /\ u[i][1] = "fail" => i = Len(u)
          /\ u[i][1] = "set" => u[i][2] = None
    BY GuardsConstants DEF Joins, Runs, R, Release, Try, Give, Take
  <2>7. \A i \in 1..Len(u) : Backed(c, E, u, i)
    BY DEF Backed, R, Release, Try, Give, Take
  <2>8. ASSUME NEW i \in 1..Len(u)
        PROVE  Nests(c, E, u[i], out[i], inn[i], out[i + 1], inn[i + 1])
    BY <1>1, GuardsConstants DEF Nests, Lock, R, Release, Try, Give, Take
  <2>9. /\ u # <<>> /\ u[1][1] \in {"read", "write", "take"}
        /\ out \in [1..(Len(u) + 1) -> Client \cup {None}]
        /\ inn \in [1..(Len(u) + 1) -> Client \cup {None}]
        /\ out[1] = None /\ inn[1] = None
        /\ u[Len(u)][1] # "fail" => out[Len(u) + 1] = None /\ inn[Len(u) + 1] = None
    BY <1>1, GuardsConstants DEF R, Release, Try, Give, Take
  <2>10. Handles(c, E, u)
    <3> HIDE DEF u, out, inn
    <3> QED
      BY <2>2, <2>6, <2>7, <2>8, <2>9, StepsHandle
  <2> QED
    BY <2>5, <2>10
<1>2. CASE game[c] # c
  <2> DEFINE out == <<None, c, None, game[c], None>>
             inn == <<None, None, None, None, None>>
             s == <<R(c), Release>>
             t == <<W(game[c]), Release>>
             u == <<R(c), Release, W(game[c]), Release>>
  <2>1. Notice(c) = s \o t
    BY <1>2 DEF Notice, DropGame
  <2>2. s \in Seq(Op) /\ t \in Seq(Op) /\ u \in Seq(Op)
    BY DEF Op, Kind, R, Release, W
  <2>3. Parts(s, t, u)
    BY DEF Parts
  <2>4. s \o t = u
    <3> HIDE DEF s, t, u
    <3> QED
      BY <2>2, <2>3, ConcatIs, Zenon
  <2>5. Notice(c) = u
    BY <2>1, <2>4, Zenon
  <2>6. \A i \in 1..Len(u) :
          /\ ~Joins(u[i]) /\ ~Runs(u[i]) /\ u[i][1] \notin {"fetch", "register"}
          /\ u[i][1] = "try" => i < Len(u) /\ u[i + 1][1] = "give"
          /\ u[i][1] = "fail" => i = Len(u)
          /\ u[i][1] = "set" => u[i][2] = None
    BY GuardsConstants DEF Joins, Runs, R, Release, W
  <2>7. \A i \in 1..Len(u) : Backed(c, E, u, i)
    BY DEF Backed, R, Release, W
  <2>8. ASSUME NEW i \in 1..Len(u)
        PROVE  Nests(c, E, u[i], out[i], inn[i], out[i + 1], inn[i + 1])
    BY <1>2, GuardsConstants DEF Nests, Lock, R, Release, W
  <2>9. /\ u # <<>> /\ u[1][1] \in {"read", "write", "take"}
        /\ out \in [1..(Len(u) + 1) -> Client \cup {None}]
        /\ inn \in [1..(Len(u) + 1) -> Client \cup {None}]
        /\ out[1] = None /\ inn[1] = None
        /\ u[Len(u)][1] # "fail" => out[Len(u) + 1] = None /\ inn[Len(u) + 1] = None
    BY <1>2, GuardsConstants DEF R, Release, W
  <2>10. Handles(c, E, u)
    <3> HIDE DEF u, out, inn
    <3> QED
      BY <2>2, <2>6, <2>7, <2>8, <2>9, StepsHandle
  <2> QED
    BY <2>5, <2>10
<1> QED
  BY <1>1, <1>2

LEMMA CloseInGameHandles ==
  ASSUME NEW c \in Client, NEW E \in SUBSET Client, game[c] \in E
  PROVE  Handles(c, E, Close(c))
<1>1. CASE game[c] = c
  <2> DEFINE out == <<None, c, c, c, c, c, c, None, c, c, c, None, c, None>>
             inn == <<None, None, None, None, None, None, None, None, None,
                 None, None, None, None, None>>
             s == <<W(c)>>
             t == <<Set(None), Try, Give, Take, Give>>
             r == <<Release, R(c), Try, Give, Release, W(c), Release>>
             u == <<W(c), Set(None), Try, Give, Take, Give, Release, R(c),
                 Try, Give, Release, W(c), Release>>
  <2>1. DropGame(c) = <<Try, Give, Take, Give>>
    BY <1>1 DEF DropGame
  <2>2. <<Set(None)>> \o <<Try, Give, Take, Give>> = t
    <3> DEFINE v == <<Set(None)>>
               w == <<Try, Give, Take, Give>>
    <3>1. v \in Seq(Op) /\ w \in Seq(Op) /\ t \in Seq(Op)
      BY DEF Op, Kind, W, Set, Try, Give, Take, Release, R
    <3>2. Parts(v, w, t)
      BY DEF Parts
    <3> QED
      BY <3>1, <3>2, ConcatIs, Zenon
  <2>3. Close(c) = s \o t \o r
    BY <2>1, <2>2, GuardsConstants DEF Close
  <2>4. s \in Seq(Op) /\ t \in Seq(Op) /\ r \in Seq(Op) /\ u \in Seq(Op)
    BY DEF Op, Kind, W, Set, Try, Give, Take, Release, R
  <2>5. ThreeParts(s, t, r, u)
    BY DEF ThreeParts
  <2>6. s \o t \o r = u
    <3> HIDE DEF s, t, r, u
    <3> QED
      BY <2>4, <2>5, ConcatsAre, Zenon
  <2>7. Close(c) = u
    BY <2>3, <2>6, Zenon
  <2>8. \A i \in 1..Len(u) :
          /\ ~Joins(u[i]) /\ ~Runs(u[i]) /\ u[i][1] \notin {"fetch", "register"}
          /\ u[i][1] = "try" => i < Len(u) /\ u[i + 1][1] = "give"
          /\ u[i][1] = "fail" => i = Len(u)
          /\ u[i][1] = "set" => u[i][2] = None
    BY GuardsConstants DEF Joins, Runs, W, Set, Try, Give, Take, Release, R
  <2>9. \A i \in 1..Len(u) : Backed(c, E, u, i)
    BY DEF Backed, W, Set, Try, Give, Take, Release, R
  <2>10. ASSUME NEW i \in 1..Len(u)
        PROVE  Nests(c, E, u[i], out[i], inn[i], out[i + 1], inn[i + 1])
    BY <1>1, GuardsConstants DEF Nests, Lock, W, Set, Try, Give, Take, Release, R
  <2>11. /\ u # <<>> /\ u[1][1] \in {"read", "write", "take"}
         /\ out \in [1..(Len(u) + 1) -> Client \cup {None}]
         /\ inn \in [1..(Len(u) + 1) -> Client \cup {None}]
         /\ out[1] = None /\ inn[1] = None
         /\ u[Len(u)][1] # "fail" => out[Len(u) + 1] = None /\ inn[Len(u) + 1] = None
    BY <1>1, GuardsConstants DEF W, Set, Try, Give, Take, Release, R
  <2>12. Handles(c, E, u)
    <3> HIDE DEF u, out, inn
    <3> QED
      BY <2>4, <2>8, <2>9, <2>10, <2>11, StepsHandle
  <2> QED
    BY <2>7, <2>12
<1>2. CASE game[c] # c
  <2> DEFINE out == <<None, c, c, c, c, None, c, c, c, None, c, None>>
             inn == <<None, None, None, game[c], None, None, None, None,
                 None, None, None, None>>
             s == <<W(c)>>
             t == <<Set(None), W(game[c]), Release>>
             r == <<Release, R(c), Try, Give, Release, W(c), Release>>
             u == <<W(c), Set(None), W(game[c]), Release, Release, R(c), Try,
                 Give, Release, W(c), Release>>
  <2>1. DropGame(c) = <<W(game[c]), Release>>
    BY <1>2 DEF DropGame
  <2>2. <<Set(None)>> \o <<W(game[c]), Release>> = t
    <3> DEFINE v == <<Set(None)>>
               w == <<W(game[c]), Release>>
    <3>1. v \in Seq(Op) /\ w \in Seq(Op) /\ t \in Seq(Op)
      BY DEF Op, Kind, W, Set, Release, R, Try, Give
    <3>2. Parts(v, w, t)
      BY DEF Parts
    <3> QED
      BY <3>1, <3>2, ConcatIs, Zenon
  <2>3. Close(c) = s \o t \o r
    BY <2>1, <2>2, GuardsConstants DEF Close
  <2>4. s \in Seq(Op) /\ t \in Seq(Op) /\ r \in Seq(Op) /\ u \in Seq(Op)
    BY DEF Op, Kind, W, Set, Release, R, Try, Give
  <2>5. ThreeParts(s, t, r, u)
    BY DEF ThreeParts
  <2>6. s \o t \o r = u
    <3> HIDE DEF s, t, r, u
    <3> QED
      BY <2>4, <2>5, ConcatsAre, Zenon
  <2>7. Close(c) = u
    BY <2>3, <2>6, Zenon
  <2>8. \A i \in 1..Len(u) :
          /\ ~Joins(u[i]) /\ ~Runs(u[i]) /\ u[i][1] \notin {"fetch", "register"}
          /\ u[i][1] = "try" => i < Len(u) /\ u[i + 1][1] = "give"
          /\ u[i][1] = "fail" => i = Len(u)
          /\ u[i][1] = "set" => u[i][2] = None
    BY GuardsConstants DEF Joins, Runs, W, Set, Release, R, Try, Give
  <2>9. \A i \in 1..Len(u) : Backed(c, E, u, i)
    BY DEF Backed, W, Set, Release, R, Try, Give
  <2>10. ASSUME NEW i \in 1..Len(u)
        PROVE  Nests(c, E, u[i], out[i], inn[i], out[i + 1], inn[i + 1])
    BY <1>2, GuardsConstants DEF Nests, Lock, W, Set, Release, R, Try, Give
  <2>11. /\ u # <<>> /\ u[1][1] \in {"read", "write", "take"}
         /\ out \in [1..(Len(u) + 1) -> Client \cup {None}]
         /\ inn \in [1..(Len(u) + 1) -> Client \cup {None}]
         /\ out[1] = None /\ inn[1] = None
         /\ u[Len(u)][1] # "fail" => out[Len(u) + 1] = None /\ inn[Len(u) + 1] = None
    BY <1>2, GuardsConstants DEF W, Set, Release, R, Try, Give
  <2>12. Handles(c, E, u)
    <3> HIDE DEF u, out, inn
    <3> QED
      BY <2>4, <2>8, <2>9, <2>10, <2>11, StepsHandle
  <2> QED
    BY <2>7, <2>12
<1> QED
  BY <1>1, <1>2

LEMMA CloseAloneHandles ==
  ASSUME NEW c \in Client, NEW E \in SUBSET Client, game[c] = None
  PROVE  Handles(c, E, Close(c))
<1> DEFINE out == <<None, c, None, c, c, c, None, c, None>>
           inn == <<None, None, None, None, None, None, None, None, None>>
           s == <<W(c)>>
           r == <<Release, R(c), Try, Give, Release, W(c), Release>>
           u == <<W(c), Release, R(c), Try, Give, Release, W(c), Release>>
<1>1. Close(c) = s \o <<>> \o r
  BY DEF Close
<1>2. s \in Seq(Op) /\ <<>> \in Seq(Op) /\ r \in Seq(Op) /\ u \in Seq(Op)
  BY DEF Op, Kind, R, W, Release, Try, Give
<1>3. ThreeParts(s, <<>>, r, u)
  BY DEF ThreeParts
<1>4. s \o <<>> \o r = u
  <2> HIDE DEF s, r, u
  <2> QED
    BY <1>2, <1>3, ConcatsAre, Zenon
<1>5. Close(c) = u
  BY <1>1, <1>4, Zenon
<1>6. Walk(c, E, u, out, inn)
  BY GuardsConstants DEF Walk, Legal, Nests, Backed, Lock, Joins, Runs, R, W, Release, Try, Give
<1>7. /\ u # <<>> /\ u[1][1] \in {"read", "write", "take"}
      /\ \A i \in 1..Len(u) : ~Joins(u[i]) /\ ~Runs(u[i])
  BY DEF Joins, Runs, R, W, Release, Try, Give
<1>8. Handles(c, E, u)
  BY <1>2, <1>6, <1>7 DEF Handles, Fits, Walk
<1> QED
  BY <1>5, <1>8

\* What a client in the state it is in can begin.
LEMMA RequestHandles ==
  ASSUME GTypeOK, NEW c \in Client, NEW E \in SUBSET Client,
         game[c] # None => E = {game[c]}, NEW p \in Requests(c),
         p # Join(c) \/ game[c] # None
  PROVE  Handles(c, E, p)
<1>1. CASE p = Alone(c) \/ p = Ping(c) \/ p = Create(c)
  BY <1>1, AloneHandles, PingHandles, CreateHandles
<1>2. CASE \E h \in Client : p = Exists(c, h)
  BY <1>2, ExistsHandles
<1>3. CASE p \in NotInGame(c)
  BY <1>3, NotInGameHandles
<1>4. CASE /\ game[c] # None
           /\ p \in {Leave(c), StartRefused(c), Task(c), TaskRefused(c),
                     Compile(c), CompileRefused(c)}
  <2>1. game[c] \in Client /\ E = {game[c]}
    BY <1>4 DEF GTypeOK
  <2>2. CASE p = Leave(c) \/ p = StartRefused(c)
    BY <2>1, <2>2, LeaveHandles, StartRefusedHandles
  <2>3. CASE p = Task(c) \/ p = TaskRefused(c)
    BY <2>1, <2>3, TaskHandles, TaskRefusedHandles
  <2>4. CASE p = Compile(c) \/ p = CompileRefused(c)
    BY <2>1, <2>4, CompileHandles, CompileRefusedHandles
  <2> QED
    BY <1>4, <2>2, <2>3, <2>4
<1> QED
  BY <1>1, <1>2, <1>3, <1>4 DEF Requests

LEMMA CloseHandles ==
  ASSUME NEW c \in Client, NEW E \in SUBSET Client,
         game[c] # None => E = {game[c]}
  PROVE  Handles(c, E, Close(c))
BY CloseAloneHandles, CloseInGameHandles

LEMMA LegalShift ==
  ASSUME NEW c \in Client, NEW E \in SUBSET Client,
         NEW p \in Seq(Op), NEW q \in Seq(Op), Len(p) = Len(q) + 1,
         NEW i \in 1..Len(q), \A j \in i..Len(q) : q[j] = p[j + 1],
         NEW o, NEW n, NEW o2, NEW n2, Legal(c, E, p, i + 1, o, n, o2, n2)
  PROVE  Legal(c, E, q, i, o, n, o2, n2)
<1>1. /\ q[i] = p[i + 1] /\ i + 1 \in 1..Len(p)
      /\ i < Len(q) <=> i + 1 < Len(p)
      /\ i = Len(q) <=> i + 1 = Len(p)
  OBVIOUS
<1>2. i < Len(q) => q[i + 1] = p[(i + 1) + 1]
  OBVIOUS
<1>3. (\A j \in ((i + 1) + 1)..Len(p) : ~Joins(p[j])) =>
        \A j \in (i + 1)..Len(q) : ~Joins(q[j])
  OBVIOUS
<1>4. (\A j \in ((i + 1) + 1)..Len(p) : ~Runs(p[j])) =>
        \A j \in (i + 1)..Len(q) : ~Runs(q[j])
  OBVIOUS
<1> QED
  BY <1>1, <1>2, <1>3, <1>4, Zenon DEF Legal, Nests, Backed, Runs

LEMMA TailOf ==
  ASSUME NEW p \in Seq(Op), 1 < Len(p)
  PROVE  Tail(p) # <<>> /\ Tail(p)[1] = p[2] /\ Tail(Tail(p)) \in Seq(Op)
<1>1. Tail(p) \in Seq(Op) /\ Len(Tail(p)) = Len(p) - 1 /\ Len(p) \in Nat
  OBVIOUS
<1>2. Len(Tail(p)) # 0
  BY <1>1
<1>3. Tail(p) # <<>>
  BY <1>1, <1>2, EmptySeq, Zenon
<1>4. \A q \in Seq(Op) : q # <<>> => Tail(q) \in Seq(Op)
  OBVIOUS
<1>5. Tail(p)[1] = p[2]
  BY <1>1
<1> QED
  BY <1>1, <1>3, <1>4, <1>5

LEMMA FitsShift ==
  ASSUME NEW c \in Client, NEW E \in SUBSET Client,
         NEW p \in Seq(Op), NEW q \in Seq(Op), Len(p) = Len(q) + 1,
         \A j \in 1..Len(q) : q[j] = p[j + 1],
         p[1][1] \notin {"fail", "fetch"},
         NEW out \in [1..(Len(p) + 1) -> Client \cup {None}],
         NEW inn \in [1..(Len(p) + 1) -> Client \cup {None}],
         Walk(c, E, p, out, inn)
  PROVE  Fits(c, E, q, out[2], inn[2])
<1> DEFINE out2 == [i \in 1..(Len(q) + 1) |-> out[i + 1]]
           inn2 == [i \in 1..(Len(q) + 1) |-> inn[i + 1]]
<1>1. /\ out2 \in [1..(Len(q) + 1) -> Client \cup {None}]
      /\ inn2 \in [1..(Len(q) + 1) -> Client \cup {None}]
  OBVIOUS
<1>2. ASSUME NEW i \in 1..Len(q)
      PROVE  Legal(c, E, q, i, out2[i], inn2[i], out2[i + 1], inn2[i + 1])
  <2>1. Legal(c, E, p, i + 1, out[i + 1], inn[i + 1],
              out[(i + 1) + 1], inn[(i + 1) + 1])
    BY DEF Walk
  <2>2. /\ out2[i] = out[i + 1] /\ out2[i + 1] = out[(i + 1) + 1]
        /\ inn2[i] = inn[i + 1] /\ inn2[i + 1] = inn[(i + 1) + 1]
    OBVIOUS
  <2>3. \A j \in i..Len(q) : q[j] = p[j + 1]
    OBVIOUS
  <2>4. Legal(c, E, q, i, out[i + 1], inn[i + 1],
              out[(i + 1) + 1], inn[(i + 1) + 1])
    BY <2>1, <2>3, LegalShift, Zenon
  <2> HIDE DEF out2, inn2
  <2> QED
    BY <2>2, <2>4
<1>3. (Len(q) > 0 => q[Len(q)][1] \notin {"fail", "fetch"}) =>
        out2[Len(q) + 1] = None /\ inn2[Len(q) + 1] = None
  BY DEF Walk
<1>4. Walk(c, E, q, out2, inn2)
  BY <1>1, <1>2, <1>3 DEF Walk
<1>5. Fits(c, E, q, out2[1], inn2[1])
  BY <1>1, <1>4 DEF Fits
<1>6. out2[1] = out[2] /\ inn2[1] = inn[2]
  OBVIOUS
<1> QED
  BY <1>5, <1>6

\* After one operation the rest fits what is held then.
LEMMA FitsTail ==
  ASSUME NEW c \in Client, NEW E \in SUBSET Client, NEW p \in Seq(Op), p # <<>>,
         NEW o \in Client \cup {None}, NEW n \in Client \cup {None},
         Fits(c, E, p, o, n), p[1][1] \notin {"fail", "fetch"}
  PROVE  \E o2, n2 \in Client \cup {None} :
           Legal(c, E, p, 1, o, n, o2, n2) /\ Fits(c, E, Tail(p), o2, n2)
<1>1. PICK out, inn \in [1..(Len(p) + 1) -> Client \cup {None}] :
        Walk(c, E, p, out, inn) /\ out[1] = o /\ inn[1] = n
  BY DEF Fits
<1>2. /\ Tail(p) \in Seq(Op) /\ Len(p) = Len(Tail(p)) + 1 /\ Len(p) \in Nat \ {0}
      /\ \A i \in 1..Len(Tail(p)) : Tail(p)[i] = p[i + 1]
  OBVIOUS
<1>3. Fits(c, E, Tail(p), out[2], inn[2])
  BY <1>1, <1>2, FitsShift, Zenon
<1>4. Legal(c, E, p, 1, o, n, out[2], inn[2])
  BY <1>1, <1>2 DEF Walk
<1> QED
  BY <1>2, <1>3, <1>4

\* A handler that is over holds no guard.
LEMMA FitsNothing ==
  ASSUME NEW c, NEW E, NEW o, NEW n
  PROVE  Fits(c, E, <<>>, o, n) <=> o = None /\ n = None
<1> DEFINE none == [i \in 1..1 |-> None]
<1>1. Len(<<>>) = 0
  OBVIOUS
<1>2. Fits(c, E, <<>>, o, n) => o = None /\ n = None
  BY <1>1 DEF Fits, Walk
<1>3. Walk(c, E, <<>>, none, none)
  BY <1>1 DEF Walk
<1>4. none[1] = None /\ none \in [1..(Len(<<>>) + 1) -> Client \cup {None}]
  BY <1>1
<1>5. Fits(c, E, <<>>, None, None)
  BY <1>3, <1>4 DEF Fits
<1> QED
  BY <1>2, <1>5

(***************************************************************************)
(* What a step keeps.                                                      *)
(***************************************************************************)
\* Threads that are given back, and those that are taken while one is free.
LEMMA FewerPolled ==
  ASSUME GTypeOK, NEW S \in SUBSET polled
  PROVE  Cardinality(S) <= Workers
<1>1. IsFiniteSet(polled) /\ Cardinality(polled) <= Workers
  BY GuardsConstants, FS_Subset DEF GTypeOK
<1>2. IsFiniteSet(S) /\ Cardinality(S) <= Cardinality(polled)
  BY <1>1, FS_Subset
<1>3. Cardinality(S) \in Nat /\ Cardinality(polled) \in Nat
  BY <1>1, <1>2, FS_CardinalityType
<1> QED
  BY <1>1, <1>2, <1>3, GuardsConstants

LEMMA OneMorePolled ==
  ASSUME GTypeOK, NEW c \in Client, Cardinality(polled) < Workers
  PROVE  Cardinality(polled \cup {c}) <= Workers
<1>1. IsFiniteSet(polled)
  BY GuardsConstants, FS_Subset DEF GTypeOK
<1>2. Cardinality(polled) \in Nat
  BY <1>1, FS_CardinalityType
<1>3. \/ Cardinality(polled \cup {c}) = Cardinality(polled)
      \/ Cardinality(polled \cup {c}) = Cardinality(polled) + 1
  BY <1>1, FS_AddElement
<1> QED
  BY <1>2, <1>3, GuardsConstants

\* The types of what is left of a handler, and of who has a thread.
LEMMA ContinueEffect ==
  ASSUME GTypeOK, NEW c \in Client, NEW rest \in Seq(Op), Continue(c, rest)
  PROVE  /\ life' \in [Client -> {"open", "closing", "gone"}]
         /\ prog' \in [Client -> Seq(Op)]
         /\ prog'[c] = rest /\ \A x \in Client \ {c} : prog'[x] = prog[x]
         /\ polled' \in SUBSET Client /\ Cardinality(polled') <= Workers
         /\ polled' \subseteq polled /\ polled \ {c} \subseteq polled'
         /\ c \in polled' => rest # <<>>
         /\ c \in polled /\ rest # <<>> => c \in polled'
<1>1. /\ prog' \in [Client -> Seq(Op)]
      /\ prog'[c] = rest /\ \A x \in Client \ {c} : prog'[x] = prog[x]
  BY DEF GTypeOK, Continue
<1>2. life' \in [Client -> {"open", "closing", "gone"}]
  BY DEF GTypeOK, Continue
<1>3. /\ polled' \subseteq polled /\ polled \ {c} \subseteq polled'
      /\ c \in polled' => rest # <<>>
      /\ c \in polled /\ rest # <<>> => c \in polled'
  BY DEF Continue
<1>4. Cardinality(polled') <= Workers
  BY <1>3, FewerPolled
<1> QED
  BY <1>1, <1>2, <1>3, <1>4 DEF GTypeOK

\* A step of c alone, whatever it is that c follows.
LEMMA KeepsOrdered ==
  ASSUME Ordered, NEW c \in Client,
         \A x \in Client \ {c} :
           game'[x] = game[x] /\ prog'[x] = prog[x] /\ guards'[x] = guards[x],
         \A E \in SUBSET Client : Follows(c, E) => Follows(c, E)'
  PROVE  Ordered'
<1>1. PICK L \in [Client -> SUBSET Client] :
        Acyclic(L) /\ \A x \in Client : Follows(x, L[x])
  BY DEF Ordered
<1>2. ASSUME NEW x \in Client \ {c}
      PROVE  Follows(x, L[x])'
  <2>1. Follows(x, L[x])
    BY <1>1
  <2> QED
    BY <2>1 DEF Follows, Holds
<1>3. Follows(c, L[c])'
  BY <1>1
<1> QED
  BY <1>1, <1>2, <1>3 DEF Ordered

\* An operation that is neither the last one of a Join's first half nor a
\* failure, and leaves the Game alone.
LEMMA FollowsStep ==
  ASSUME GTypeOK, NEW c \in Client, NEW E \in SUBSET Client, Follows(c, E),
         prog[c] # <<>>, prog[c][1][1] \notin {"fail", "fetch"},
         game'[c] = game[c], prog'[c] = Tail(prog[c]),
         \A o, n, o2, n2 \in Client \cup {None} :
           Holds(c, o, n) /\ Legal(c, E, prog[c], 1, o, n, o2, n2) =>
             Holds(c, o2, n2)'
  PROVE  Follows(c, E)'
<1>1. PICK o, n \in Client \cup {None} : Fits(c, E, prog[c], o, n) /\ Holds(c, o, n)
  BY DEF Follows
<1>2. prog[c] \in Seq(Op)
  BY DEF GTypeOK
<1>3. PICK o2, n2 \in Client \cup {None} :
        Legal(c, E, prog[c], 1, o, n, o2, n2) /\ Fits(c, E, Tail(prog[c]), o2, n2)
  BY <1>1, <1>2, FitsTail
<1>4. Holds(c, o2, n2)'
  BY <1>1, <1>3
<1>5. /\ (\E i \in DOMAIN Tail(prog[c]) : Joins(Tail(prog[c])[i])) =>
           \E i \in DOMAIN prog[c] : Joins(prog[c][i])
      /\ (\E i \in DOMAIN Tail(prog[c]) : Runs(Tail(prog[c])[i])) =>
           \E i \in DOMAIN prog[c] : Runs(prog[c][i])
  BY <1>2
<1>6. Fits(c, E, prog'[c], o2, n2)
  BY <1>3
<1> QED
  BY <1>4, <1>5, <1>6 DEF Follows

\* A step of c that leaves c at most those writer bits it has a claim to.
LEMMA KeepsClaimed ==
  ASSUME Claimed, NEW c \in Client,
         \A x \in Client \ {c} :
           /\ prog'[x] = prog[x] /\ guards'[x] = guards[x]
           /\ x \in polled => x \in polled'
         ,
         \A s \in MapShard :
           /\ writer'[s] \in {writer[s], c, None}
           /\ writer'[s] = c =>
                \/ Guarded(c, "write", s)'
                \/ Waiting(c, "write")' /\ ShardIn[Named(c)'] = s
  PROVE  Claimed'
<1> SUFFICES ASSUME NEW s \in MapShard, NEW d \in Client, writer'[s] = d
             PROVE  \/ Guarded(d, "write", s)'
                    \/ Waiting(d, "write")' /\ ShardIn[Named(d)'] = s
  BY DEF Claimed, MapShard
<1>1. CASE d = c
  BY <1>1
<1>2. CASE d # c
  <2>1. writer[s] = d
    BY <1>2, GuardsConstants
  <2>2. Guarded(d, "write", s) \/ (Waiting(d, "write") /\ ShardIn[Named(d)] = s)
    BY <2>1 DEF Claimed
  <2>3. CASE Guarded(d, "write", s)
    BY <1>2, <2>3 DEF Guarded
  <2>4. CASE Waiting(d, "write") /\ ShardIn[Named(d)] = s
    BY <1>2, <2>4 DEF Waiting, Named
  <2> QED
    BY <2>2, <2>3, <2>4
<1> QED
  BY <1>1, <1>2

\* An operation that is no lock, and leaves guards and writers alone.
LEMMA ElsewhereKeepsClaimed ==
  ASSUME Claimed, NEW c \in Client, UNCHANGED <<guards, writer>>,
         ~Waiting(c, "write"),
         \A x \in Client \ {c} : prog'[x] = prog[x] /\ (x \in polled => x \in polled')
  PROVE  Claimed'
<1>1. ASSUME NEW s \in MapShard, writer[s] = c
      PROVE  Guarded(c, "write", s)'
  <2>1. Guarded(c, "write", s)
    BY <1>1 DEF Claimed
  <2> QED
    BY <2>1 DEF Guarded
<1> QED
  BY <1>1, KeepsClaimed

\* Who gives back a thread, or takes one, is c.
LEMMA KeepsOnThread ==
  ASSUME OnThread, NEW c \in Client,
         \A x \in Client \ {c} : prog'[x] = prog[x] /\ (x \in polled <=> x \in polled'),
         c \in polled' => prog'[c] # <<>>,
         c \notin polled' /\ prog'[c] # <<>> => prog'[c][1][1] \in {"run", "judge"}
  PROVE  OnThread'
BY DEF OnThread

(***************************************************************************)
(* Operations.                                                             *)
(***************************************************************************)
\* An operation of c on its thread, with what it holds at the time.
LEMMA OnItsThread ==
  ASSUME GIInv, NEW c \in Client, NEW k \in Kind, Waiting(c, k)
  PROVE  /\ prog[c] \in Seq(Op) /\ prog[c] # <<>> /\ prog[c][1][1] = k
         /\ Named(c) = prog[c][1][2] /\ Named(c) \in Client \cup {None}
         /\ Tail(prog[c]) \in Seq(Op) /\ c \in polled
<1>1. prog[c] \in Seq(Op) /\ prog[c] # <<>> /\ c \in polled
  BY DEF GIInv, GTypeOK, Waiting
<1>2. prog[c][1] \in Op /\ Head(prog[c]) = prog[c][1] /\ Tail(prog[c]) \in Seq(Op)
  BY <1>1
<1> QED
  BY <1>1, <1>2 DEF Waiting, Named, Op

\* Connections, programs and what else is no lock and no Game.
LEMMA PlainStep ==
  ASSUME GIInv, NEW c \in Client,
         NEW k \in {"take", "try", "give", "judge", "register"}, Waiting(c, k),
         Advance(c), UNCHANGED <<game, guards, writer>>,
         conns' \in [Client -> SUBSET Connection]
  PROVE  GIInv'
<1>1. /\ prog[c] \in Seq(Op) /\ prog[c] # <<>> /\ prog[c][1][1] = k
      /\ Tail(prog[c]) \in Seq(Op) /\ c \in polled
  BY OnItsThread DEF Kind
<1> DEFINE rest == Tail(prog[c])
<1>2. /\ life' \in [Client -> {"open", "closing", "gone"}]
      /\ prog' \in [Client -> Seq(Op)]
      /\ prog'[c] = rest /\ \A x \in Client \ {c} : prog'[x] = prog[x]
      /\ polled' \in SUBSET Client /\ Cardinality(polled') <= Workers
      /\ polled' \subseteq polled /\ polled \ {c} \subseteq polled'
      /\ c \in polled' => rest # <<>>
      /\ c \in polled /\ rest # <<>> => c \in polled'
  BY <1>1, ContinueEffect DEF Advance, GIInv
<1>3. GTypeOK'
  BY <1>2 DEF GIInv, GTypeOK
<1>4. ~Waiting(c, "write")
  BY <1>1 DEF Waiting
<1>5. Claimed'
  BY <1>2, <1>4, ElsewhereKeepsClaimed DEF GIInv
<1>6. OnThread'
  BY <1>1, <1>2, KeepsOnThread DEF GIInv
<1>7. ASSUME NEW E \in SUBSET Client, Follows(c, E)
      PROVE  Follows(c, E)'
  <2>1. ASSUME NEW o \in Client \cup {None}, NEW n \in Client \cup {None},
               NEW o2 \in Client \cup {None}, NEW n2 \in Client \cup {None},
               Holds(c, o, n), Legal(c, E, prog[c], 1, o, n, o2, n2)
        PROVE  Holds(c, o2, n2)'
    <3>1. o2 = o /\ n2 = n
      BY <1>1, <2>1 DEF Legal, Nests, Lock
    <3> QED
      BY <2>1, <3>1 DEF Holds
  <2> QED
    BY <1>1, <1>2, <1>7, <2>1, FollowsStep DEF GIInv
<1>8. Ordered'
  BY <1>2, <1>7, KeepsOrdered DEF GIInv
<1> QED
  BY <1>3, <1>5, <1>6, <1>8 DEF GIInv

LEMMA ConnectKeeps ==
  ASSUME GIInv, NEW c \in Client, Connect(c)
  PROVE  GIInv'
<1>1. conns' \in [Client -> SUBSET Connection]
  BY DEF Connect, Free, GIInv, GTypeOK
<1>2. Waiting(c, "take") \/ Waiting(c, "try")
  BY DEF Connect
<1> QED
  BY <1>1, <1>2, PlainStep DEF Connect

LEMMA ReturnKeeps ==
  ASSUME GIInv, NEW c \in Client, Return(c)
  PROVE  GIInv'
<1>1. conns' \in [Client -> SUBSET Connection]
  BY DEF Return, GIInv, GTypeOK
<1> QED
  BY <1>1, PlainStep DEF Return

LEMMA NoSecondRunKeeps ==
  ASSUME GIInv, NEW c \in Client, NoSecondRun(c)
  PROVE  GIInv'
BY PlainStep DEF NoSecondRun, GIInv, GTypeOK

\* A guard is taken: the first one, or one inside that of the own entry.
LEMMA TakesGuard ==
  ASSUME GIInv, NEW c \in Client, NEW k \in Lock, Waiting(c, k),
         guards' = [guards EXCEPT ![c] = Append(@, <<k, Named(c)>>)],
         Advance(c), UNCHANGED <<game, writer, conns>>
  PROVE  GIInv'
<1>1. /\ prog[c] \in Seq(Op) /\ prog[c] # <<>> /\ prog[c][1][1] = k
      /\ Named(c) = prog[c][1][2] /\ Tail(prog[c]) \in Seq(Op) /\ c \in polled
  BY OnItsThread DEF Kind, Lock
<1> DEFINE rest == Tail(prog[c])
<1>2. /\ life' \in [Client -> {"open", "closing", "gone"}]
      /\ prog' \in [Client -> Seq(Op)]
      /\ prog'[c] = rest /\ \A x \in Client \ {c} : prog'[x] = prog[x]
      /\ polled' \in SUBSET Client /\ Cardinality(polled') <= Workers
      /\ polled' \subseteq polled /\ polled \ {c} \subseteq polled'
      /\ c \in polled' => rest # <<>>
      /\ c \in polled /\ rest # <<>> => c \in polled'
  BY <1>1, ContinueEffect DEF Advance, GIInv
<1>3. PICK E0 \in SUBSET Client : Follows(c, E0)
  BY DEF GIInv, Ordered
<1>4. Named(c) \in Client
  <2>1. PICK o, n \in Client \cup {None} : Fits(c, E0, prog[c], o, n)
    BY <1>3 DEF Follows
  <2>2. PICK o2, n2 \in Client \cup {None} : Legal(c, E0, prog[c], 1, o, n, o2, n2)
    BY <1>1, <2>1, FitsTail DEF Lock
  <2> QED
    BY <1>1, <2>2 DEF Legal, Nests
<1>5. /\ guards[c] \in Seq({"read", "write"} \X Client)
      /\ guards' \in [Client -> Seq({"read", "write"} \X Client)]
      /\ guards'[c] = Append(guards[c], <<k, Named(c)>>)
      /\ \A x \in Client \ {c} : guards'[x] = guards[x]
  BY <1>4 DEF GIInv, GTypeOK, Lock
<1>6. /\ Len(guards'[c]) = Len(guards[c]) + 1
      /\ \A i \in 1..Len(guards[c]) : guards'[c][i] = guards[c][i]
      /\ guards'[c][Len(guards[c]) + 1] = <<k, Named(c)>>
      /\ DOMAIN guards[c] = 1..Len(guards[c])
      /\ DOMAIN guards'[c] = 1..(Len(guards[c]) + 1)
      /\ Len(guards[c]) \in Nat
  BY <1>5
<1>7. GTypeOK'
  BY <1>2, <1>5 DEF GIInv, GTypeOK
<1>8. ASSUME NEW s \in MapShard, writer[s] = c
      PROVE  Guarded(c, "write", s)'
  <2>1. CASE Guarded(c, "write", s)
    BY <1>6, <2>1 DEF Guarded
  <2>2. CASE Waiting(c, "write") /\ ShardIn[Named(c)] = s
    <3>1. k = "write"
      BY <2>2 DEF Waiting
    <3> QED
      BY <1>6, <2>2, <3>1 DEF Guarded
  <2> QED
    BY <1>8, <2>1, <2>2 DEF GIInv, Claimed
<1>9. Claimed'
  BY <1>2, <1>5, <1>8, KeepsClaimed DEF GIInv
<1>10. OnThread'
  BY <1>1, <1>2, KeepsOnThread DEF GIInv
<1>11. ASSUME NEW E \in SUBSET Client, Follows(c, E)
       PROVE  Follows(c, E)'
  <2>1. ASSUME NEW o \in Client \cup {None}, NEW n \in Client \cup {None},
               NEW o2 \in Client \cup {None}, NEW n2 \in Client \cup {None},
               Holds(c, o, n), Legal(c, E, prog[c], 1, o, n, o2, n2)
        PROVE  Holds(c, o2, n2)'
    <3>1. /\ n = None
          /\ \/ o = None /\ o2 = Named(c) /\ n2 = None
             \/ o = c /\ o2 = c /\ n2 = Named(c)
      BY <1>1, <2>1 DEF Legal, Nests
    <3>2. CASE o = None /\ o2 = Named(c) /\ n2 = None
      <4>1. Len(guards[c]) = 0
        BY <2>1, <3>2 DEF Holds
      <4> QED
        BY <1>4, <1>6, <3>2, <4>1, GuardsConstants DEF Holds
    <3>3. CASE o = c /\ o2 = c /\ n2 = Named(c)
      <4>1. Len(guards[c]) = 1 /\ guards[c][1][2] = c
        BY <2>1, <3>1, <3>3, GuardsConstants DEF Holds
      <4> QED
        BY <1>4, <1>6, <3>3, <4>1, GuardsConstants DEF Holds
    <3> QED
      BY <3>1, <3>2, <3>3
  <2> QED
    BY <1>1, <1>2, <1>11, <2>1, FollowsStep DEF GIInv, Lock
<1>12. Ordered'
  BY <1>2, <1>5, <1>11, KeepsOrdered DEF GIInv
<1> QED
  BY <1>7, <1>9, <1>10, <1>12 DEF GIInv

LEMMA ReadLockKeeps ==
  ASSUME GIInv, NEW c \in Client, ReadLock(c)
  PROVE  GIInv'
BY TakesGuard DEF ReadLock, Lock

LEMMA WriteLockKeeps ==
  ASSUME GIInv, NEW c \in Client, WriteLock(c)
  PROVE  GIInv'
BY TakesGuard DEF WriteLock, Lock

LEMMA WriteClaimKeeps ==
  ASSUME GIInv, NEW c \in Client, WriteClaim(c)
  PROVE  GIInv'
<1> DEFINE s == ShardIn[Named(c)]
<1>1. /\ Waiting(c, "write") /\ writer[s] = None
      /\ writer' = [writer EXCEPT ![s] = c]
      /\ UNCHANGED <<life, game, prog, guards, conns, polled>>
  BY DEF WriteClaim
<1>2. GTypeOK'
  BY <1>1 DEF GIInv, GTypeOK
<1>3. ASSUME NEW t \in MapShard
      PROVE  /\ writer'[t] \in {writer[t], c, None}
             /\ writer'[t] = c =>
                  \/ Guarded(c, "write", t)'
                  \/ Waiting(c, "write")' /\ ShardIn[Named(c)'] = t
  <2>1. CASE t = s
    BY <1>1, <2>1 DEF GIInv, GTypeOK, Waiting, Named
  <2>2. CASE t # s
    <3>1. writer'[t] = writer[t]
      BY <1>1, <2>2 DEF GIInv, GTypeOK
    <3> QED
      BY <1>1, <3>1 DEF GIInv, Claimed, Guarded, Waiting, Named
  <2> QED
    BY <2>1, <2>2
<1>4. Claimed'
  BY <1>1, <1>3, KeepsClaimed DEF GIInv
<1>5. OnThread' /\ Ordered'
  BY <1>1 DEF GIInv, OnThread, Ordered, Follows, Holds
<1> QED
  BY <1>2, <1>4, <1>5 DEF GIInv

LEMMA UnlockKeeps ==
  ASSUME GIInv, NEW c \in Client, Unlock(c)
  PROVE  GIInv'
<1> DEFINE n == Len(guards[c])
           s == ShardIn[guards[c][n][2]]
           rest == Tail(prog[c])
<1>1. /\ prog[c] \in Seq(Op) /\ prog[c] # <<>> /\ prog[c][1][1] = "release"
      /\ rest \in Seq(Op) /\ c \in polled
  BY OnItsThread DEF Unlock, Kind
<1>2. /\ life' \in [Client -> {"open", "closing", "gone"}]
      /\ prog' \in [Client -> Seq(Op)]
      /\ prog'[c] = rest /\ \A x \in Client \ {c} : prog'[x] = prog[x]
      /\ polled' \in SUBSET Client /\ Cardinality(polled') <= Workers
      /\ polled' \subseteq polled /\ polled \ {c} \subseteq polled'
      /\ c \in polled' => rest # <<>>
      /\ c \in polled /\ rest # <<>> => c \in polled'
  BY <1>1, ContinueEffect DEF Unlock, Advance, GIInv
<1>3. \A E \in SUBSET Client : \A o, i, o2, i2 \in Client \cup {None} :
        Holds(c, o, i) /\ Legal(c, E, prog[c], 1, o, i, o2, i2) =>
          /\ n = IF i = None THEN 1 ELSE 2
          /\ o # None /\ i2 = None /\ o2 = IF i = None THEN None ELSE o
          /\ guards[c][1][2] = o
  BY <1>1 DEF Holds, Legal, Nests
<1>4. n \in {1, 2}
  <2>1. PICK E \in SUBSET Client : Follows(c, E)
    BY DEF GIInv, Ordered
  <2>2. PICK o, i \in Client \cup {None} : Fits(c, E, prog[c], o, i) /\ Holds(c, o, i)
    BY <2>1 DEF Follows
  <2>3. PICK o2, i2 \in Client \cup {None} : Legal(c, E, prog[c], 1, o, i, o2, i2)
    BY <1>1, <2>2, FitsTail
  <2> QED
    BY <1>3, <2>2, <2>3
<1>5. /\ guards[c] \in Seq({"read", "write"} \X Client)
      /\ guards'[c] = SubSeq(guards[c], 1, n - 1)
      /\ guards'[c] \in Seq({"read", "write"} \X Client)
      /\ guards' \in [Client -> Seq({"read", "write"} \X Client)]
      /\ \A x \in Client \ {c} : guards'[x] = guards[x]
  BY <1>4 DEF Unlock, GIInv, GTypeOK
<1>6. /\ Len(guards'[c]) = n - 1
      /\ \A i \in 1..(n - 1) : guards'[c][i] = guards[c][i]
      /\ DOMAIN guards[c] = 1..n /\ DOMAIN guards'[c] = 1..(n - 1)
      /\ guards[c][n] \in {"read", "write"} \X Client
  <2>1. ASSUME NEW g \in Seq({"read", "write"} \X Client), Len(g) \in {1, 2}
        PROVE  /\ Len(SubSeq(g, 1, Len(g) - 1)) = Len(g) - 1
               /\ \A i \in 1..(Len(g) - 1) : SubSeq(g, 1, Len(g) - 1)[i] = g[i]
               /\ DOMAIN SubSeq(g, 1, Len(g) - 1) = 1..(Len(g) - 1)
               /\ DOMAIN g = 1..Len(g)
               /\ g[Len(g)] \in {"read", "write"} \X Client
    BY <2>1
  <2> DEFINE t == SubSeq(guards[c], 1, n - 1)
  <2>2. /\ Len(t) = n - 1 /\ \A i \in 1..(n - 1) : t[i] = guards[c][i]
        /\ DOMAIN guards[c] = 1..n /\ DOMAIN t = 1..(n - 1)
        /\ guards[c][n] \in {"read", "write"} \X Client
    BY <1>4, <1>5, <2>1, Zenon
  <2>3. guards'[c] = t
    BY <1>5
  <2> HIDE DEF t
  <2> QED
    BY <2>2, <2>3
<1>7. /\ writer' \in [MapShard -> Client \cup {None}]
      /\ \A t \in MapShard :
           writer'[t] = IF guards[c][n][1] = "write" /\ t = s THEN None ELSE writer[t]
  BY <1>4, <1>6 DEF Unlock, GIInv, GTypeOK
<1>8. GTypeOK'
  BY <1>2, <1>5, <1>7 DEF GIInv, GTypeOK, Unlock
<1>9. ASSUME NEW t \in MapShard, writer'[t] = c
      PROVE  Guarded(c, "write", t)'
  <2>1. writer[t] = c /\ ~(guards[c][n][1] = "write" /\ t = s)
    BY <1>7, <1>9, GuardsConstants
  <2>2. ~Waiting(c, "write")
    BY <1>1 DEF Waiting
  <2>3. PICK i \in 1..n : guards[c][i][1] = "write" /\ ShardIn[guards[c][i][2]] = t
    BY <1>6, <2>1, <2>2 DEF GIInv, Claimed, Guarded
  <2>4. i \in 1..(n - 1)
    BY <1>4, <2>1, <2>3
  <2> QED
    BY <1>6, <2>3, <2>4 DEF Guarded
<1>10. Claimed'
  BY <1>2, <1>5, <1>7, <1>9, KeepsClaimed DEF GIInv
<1>11. OnThread'
  BY <1>1, <1>2, KeepsOnThread DEF GIInv
<1>12. ASSUME NEW E \in SUBSET Client, Follows(c, E)
       PROVE  Follows(c, E)'
  <2>1. ASSUME NEW o \in Client \cup {None}, NEW i \in Client \cup {None},
               NEW o2 \in Client \cup {None}, NEW i2 \in Client \cup {None},
               Holds(c, o, i), Legal(c, E, prog[c], 1, o, i, o2, i2)
        PROVE  Holds(c, o2, i2)'
    BY <1>3, <1>6, <2>1 DEF Holds
  <2> QED
    BY <1>1, <1>2, <1>12, <2>1, FollowsStep DEF GIInv, Unlock
<1>13. Ordered'
  BY <1>2, <1>5, <1>12, KeepsOrdered DEF GIInv, Unlock
<1> QED
  BY <1>8, <1>10, <1>11, <1>13 DEF GIInv

\* Everything that c holds is dropped.
LEMMA UnwindKeeps ==
  ASSUME GIInv, NEW c \in Client, NEW rest \in Seq(Op), Unwind(c, rest),
         UNCHANGED game, life' \in [Client -> {"open", "closing", "gone"}],
         polled' = IF rest = <<>> THEN polled \ {c} ELSE polled \cup {c},
         Cardinality(polled') <= Workers,
         \A i \in DOMAIN rest :
           ~Joins(rest[i]) /\ (Runs(rest[i]) => game[c] # None),
         \A E \in SUBSET Client : Follows(c, E) => Fits(c, E, rest, None, None)
  PROVE  GIInv'
<1>1. /\ prog' \in [Client -> Seq(Op)]
      /\ prog'[c] = rest /\ \A x \in Client \ {c} : prog'[x] = prog[x]
      /\ guards' \in [Client -> Seq({"read", "write"} \X Client)]
      /\ guards'[c] = <<>> /\ \A x \in Client \ {c} : guards'[x] = guards[x]
      /\ conns' \in [Client -> SUBSET Connection]
  BY DEF Unwind, GIInv, GTypeOK
<1>2. /\ writer' \in [MapShard -> Client \cup {None}]
      /\ \A s \in MapShard : writer'[s] \in {writer[s], None} /\ writer'[s] # c
  BY GuardsConstants DEF Unwind, FreeWriters, GIInv, GTypeOK
<1>3. GTypeOK'
  BY <1>1, <1>2 DEF GIInv, GTypeOK
<1>4. Claimed'
  BY <1>1, <1>2, KeepsClaimed DEF GIInv
<1>5. OnThread'
  BY <1>1, KeepsOnThread DEF GIInv
<1>6. ASSUME NEW E \in SUBSET Client, Follows(c, E)
      PROVE  Follows(c, E)'
  <2>1. Holds(c, None, None)'
    BY <1>1 DEF Holds
  <2>2. Fits(c, E, prog'[c], None, None)
    BY <1>1, <1>6
  <2>3. \A i \in DOMAIN prog'[c] :
          ~Joins(prog'[c][i]) /\ (Runs(prog'[c][i]) => game[c] # None)
    BY <1>1
  <2> QED
    BY <1>6, <2>1, <2>2, <2>3 DEF Follows
<1>7. Ordered'
  BY <1>1, <1>6, KeepsOrdered DEF GIInv
<1> QED
  BY <1>3, <1>4, <1>5, <1>7 DEF GIInv

LEMMA PanicKeeps ==
  ASSUME GIInv, NEW c \in Client, Panic(c)
  PROVE  GIInv'
<1>1. /\ Unwind(c, <<>>) /\ UNCHANGED game /\ polled' = polled \ {c}
      /\ life' \in [Client -> {"open", "closing", "gone"}]
  BY DEF Panic, GIInv, GTypeOK
<1>2. Cardinality(polled') <= Workers
  BY <1>1, FewerPolled DEF GIInv
<1>3. <<>> \in Seq(Op) /\ DOMAIN <<>> = {}
  OBVIOUS
<1>4. \A E \in SUBSET Client : Fits(c, E, <<>>, None, None)
  BY FitsNothing
<1> QED
  BY <1>1, <1>2, <1>3, <1>4, UnwindKeeps

LEMMA TimesOutKeeps ==
  ASSUME GIInv, NEW c \in Client, TimesOut(c)
  PROVE  GIInv'
<1>1. /\ Unwind(c, Notice(c)) /\ polled' = polled \cup {c}
      /\ UNCHANGED <<life, game>> /\ Cardinality(polled) < Workers
  BY DEF TimesOut, Ready
<1>2. Cardinality(polled') <= Workers
  BY <1>1, OneMorePolled DEF GIInv
<1>3. PICK E0 \in SUBSET Client : Follows(c, E0)
  BY DEF GIInv, Ordered
<1>4. game[c] # None
  <2>1. prog[c] \in Seq(Op) /\ prog[c] # <<>> /\ Runs(prog[c][1])
    BY DEF TimesOut, Ready, Awaiting, GIInv, GTypeOK, OnThread, Runs
  <2>2. 1 \in DOMAIN prog[c]
    BY <2>1
  <2> QED
    BY <1>3, <2>1, <2>2 DEF Follows
<1>5. ASSUME NEW E \in SUBSET Client, Follows(c, E)
      PROVE  Handles(c, E, Notice(c))
  BY <1>4, <1>5, NoticeHandles DEF Follows
<1>6. /\ Notice(c) \in Seq(Op) /\ Notice(c) # <<>>
      /\ \A i \in DOMAIN Notice(c) :
           ~Joins(Notice(c)[i]) /\ (Runs(Notice(c)[i]) => game[c] # None)
  BY <1>3, <1>5 DEF Handles
<1>7. \A E \in SUBSET Client : Follows(c, E) => Fits(c, E, Notice(c), None, None)
  BY <1>5 DEF Handles
<1> HIDE DEF Notice
<1> QED
  BY <1>1, <1>2, <1>6, <1>7, UnwindKeeps DEF GIInv, GTypeOK

LEMMA FailsKeeps ==
  ASSUME GIInv, NEW c \in Client, Fails(c)
  PROVE  GIInv'
BY PanicKeeps DEF Fails

\* The answer of the sandbox, or its absence, is waited for off the thread.
LEMMA AwaitKeeps ==
  ASSUME GIInv, NEW c \in Client, Await(c)
  PROVE  GIInv'
<1>1. polled' = polled \ {c} /\ UNCHANGED <<life, game, prog, guards, writer, conns>>
  BY DEF Await
<1>2. prog[c][1][1] \in {"run", "judge"}
  BY OnItsThread DEF Await, Kind
<1>3. Cardinality(polled') <= Workers
  BY <1>1, FewerPolled DEF GIInv
<1>4. GTypeOK'
  BY <1>1, <1>3 DEF GIInv, GTypeOK
<1>5. ~Waiting(c, "write")
  BY <1>2, OnItsThread DEF Kind
<1>6. Claimed'
  BY <1>1, <1>5, ElsewhereKeepsClaimed DEF GIInv
<1>7. OnThread'
  BY <1>1, <1>2, KeepsOnThread DEF GIInv
<1>8. Ordered'
  BY <1>1 DEF GIInv, Ordered, Follows, Holds
<1> QED
  BY <1>4, <1>6, <1>7, <1>8 DEF GIInv

LEMMA SandboxAnswersKeeps ==
  ASSUME GIInv, NEW c \in Client, SandboxAnswers(c)
  PROVE  GIInv'
<1>1. /\ c \notin polled /\ prog[c] # <<>> /\ Cardinality(polled) < Workers
      /\ prog' = [prog EXCEPT ![c] = Tail(@)] /\ polled' = polled \cup {c}
      /\ UNCHANGED <<life, game, guards, writer, conns>>
  BY DEF SandboxAnswers, Ready, Awaiting
<1>2. /\ prog[c] \in Seq(Op) /\ prog[c][1][1] \in {"run", "judge"}
      /\ Tail(prog[c]) \in Seq(Op) /\ prog' \in [Client -> Seq(Op)]
      /\ prog'[c] = Tail(prog[c]) /\ \A x \in Client \ {c} : prog'[x] = prog[x]
  BY <1>1 DEF GIInv, GTypeOK, OnThread
<1>3. GTypeOK'
  BY <1>1, <1>2, OneMorePolled DEF GIInv, GTypeOK
<1>4. ~Waiting(c, "write")
  BY <1>1 DEF Waiting
<1>5. Claimed'
  BY <1>1, <1>2, <1>4, ElsewhereKeepsClaimed DEF GIInv
<1>6. Tail(prog[c]) # <<>>
  <2>1. PICK E \in SUBSET Client : Follows(c, E)
    BY DEF GIInv, Ordered
  <2>2. PICK o, n \in Client \cup {None} : Fits(c, E, prog[c], o, n)
    BY <2>1 DEF Follows
  <2>3. PICK o2, n2 \in Client \cup {None} : Legal(c, E, prog[c], 1, o, n, o2, n2)
    BY <1>1, <1>2, <2>2, FitsTail
  <2>4. 1 < Len(prog[c])
    BY <1>2, <2>3 DEF Legal, Nests, Runs
  <2> QED
    BY <1>2, <2>4, TailOf
<1>7. OnThread'
  BY <1>1, <1>2, <1>6, KeepsOnThread DEF GIInv
<1>8. ASSUME NEW E \in SUBSET Client, Follows(c, E)
      PROVE  Follows(c, E)'
  <2>1. ASSUME NEW o \in Client \cup {None}, NEW n \in Client \cup {None},
               NEW o2 \in Client \cup {None}, NEW n2 \in Client \cup {None},
               Holds(c, o, n), Legal(c, E, prog[c], 1, o, n, o2, n2)
        PROVE  Holds(c, o2, n2)'
    <3>1. o2 = o /\ n2 = n
      BY <1>2, <2>1 DEF Legal, Nests, Lock
    <3> QED
      BY <1>1, <2>1, <3>1 DEF Holds
  <2> QED
    BY <1>1, <1>2, <1>8, <2>1, FollowsStep DEF GIInv
<1>9. Ordered'
  BY <1>1, <1>2, <1>8, KeepsOrdered DEF GIInv
<1> QED
  BY <1>3, <1>5, <1>7, <1>9 DEF GIInv

(***************************************************************************)
(* What handlers do without: a connection they tried to get, or the rest of *)
(* a Join.                                                                 *)
(***************************************************************************)
\* A handler of c goes on with rest, holding what it held.
LEMMA GoesOnWith ==
  ASSUME GIInv, NEW c \in Client, c \in polled, ~Waiting(c, "write"),
         NEW rest \in Seq(Op), Continue(c, rest),
         UNCHANGED <<game, guards, writer, conns>>,
         \A E \in SUBSET Client : Follows(c, E) =>
           /\ (\E i \in DOMAIN rest : Joins(rest[i])) => game[c] = None
           /\ (\E i \in DOMAIN rest : Runs(rest[i])) => game[c] # None
           /\ \E o, n \in Client \cup {None} : Fits(c, E, rest, o, n) /\ Holds(c, o, n)
  PROVE  GIInv'
<1>1. /\ life' \in [Client -> {"open", "closing", "gone"}]
      /\ prog' \in [Client -> Seq(Op)]
      /\ prog'[c] = rest /\ \A x \in Client \ {c} : prog'[x] = prog[x]
      /\ polled' \in SUBSET Client /\ Cardinality(polled') <= Workers
      /\ polled' \subseteq polled /\ polled \ {c} \subseteq polled'
      /\ c \in polled' => rest # <<>>
      /\ c \in polled /\ rest # <<>> => c \in polled'
  BY ContinueEffect DEF GIInv
<1>2. GTypeOK'
  BY <1>1 DEF GIInv, GTypeOK
<1>3. Claimed'
  BY <1>1, ElsewhereKeepsClaimed DEF GIInv
<1>4. OnThread'
  BY <1>1, KeepsOnThread DEF GIInv
<1>5. ASSUME NEW E \in SUBSET Client, Follows(c, E)
      PROVE  Follows(c, E)'
  BY <1>1, <1>5 DEF Follows, Holds
<1>6. Ordered'
  BY <1>1, <1>5, KeepsOrdered DEF GIInv
<1> QED
  BY <1>2, <1>3, <1>4, <1>6 DEF GIInv

LEMMA NoConnectionKeeps ==
  ASSUME GIInv, NEW c \in Client, NoConnection(c)
  PROVE  GIInv'
<1>1. CASE Panic(c)
  BY <1>1, PanicKeeps
<1>2. CASE /\ Waiting(c, "try") /\ Continue(c, Tail(Tail(prog[c])))
           /\ UNCHANGED <<game, guards, writer, conns>>
  <2> DEFINE p == prog[c]
             q == Tail(prog[c])
  <2>1. /\ p \in Seq(Op) /\ p # <<>> /\ p[1][1] = "try" /\ q \in Seq(Op) /\ c \in polled
    BY <1>2, OnItsThread DEF Kind
  <2>2. ~Waiting(c, "write")
    BY <1>2 DEF Waiting
  <2>3. ASSUME NEW E \in SUBSET Client, Follows(c, E)
        PROVE  /\ q # <<>> /\ \A i \in DOMAIN Tail(q) : \E j \in DOMAIN p : Tail(q)[i] = p[j]
               /\ \E o, n \in Client \cup {None} : Fits(c, E, Tail(q), o, n) /\ Holds(c, o, n)
    <3>1. PICK o, n \in Client \cup {None} : Fits(c, E, p, o, n) /\ Holds(c, o, n)
      BY <2>3 DEF Follows
    <3>2. PICK o2, n2 \in Client \cup {None} :
            Legal(c, E, p, 1, o, n, o2, n2) /\ Fits(c, E, q, o2, n2)
      BY <2>1, <3>1, FitsTail
    <3>3. o2 = o /\ n2 = n /\ 1 < Len(p) /\ p[2][1] = "give"
      BY <2>1, <3>2 DEF Legal, Nests, Lock
    <3>4. q # <<>> /\ q[1] = p[2] /\ Tail(q) \in Seq(Op)
      BY <2>1, <3>3, TailOf
    <3>5. PICK o3, n3 \in Client \cup {None} :
            Legal(c, E, q, 1, o2, n2, o3, n3) /\ Fits(c, E, Tail(q), o3, n3)
      BY <2>1, <3>2, <3>3, <3>4, FitsTail
    <3>6. o3 = o2 /\ n3 = n2
      BY <3>3, <3>4, <3>5 DEF Legal, Nests, Lock
    <3>7. \A i \in DOMAIN Tail(q) : Tail(q)[i] = p[i + 2] /\ i + 2 \in DOMAIN p
      BY <2>1, <3>4
    <3> QED
      BY <3>1, <3>3, <3>4, <3>5, <3>6, <3>7
  <2>4. PICK E0 \in SUBSET Client : Follows(c, E0)
    BY DEF GIInv, Ordered
  <2>5. Tail(q) \in Seq(Op)
    BY <2>1, <2>3, <2>4
  <2>6. \A E \in SUBSET Client : Follows(c, E) =>
          /\ (\E i \in DOMAIN Tail(q) : Joins(Tail(q)[i])) => game[c] = None
          /\ (\E i \in DOMAIN Tail(q) : Runs(Tail(q)[i])) => game[c] # None
          /\ \E o, n \in Client \cup {None} : Fits(c, E, Tail(q), o, n) /\ Holds(c, o, n)
    BY <2>3 DEF Follows
  <2> QED
    BY <1>2, <2>1, <2>2, <2>5, <2>6, GoesOnWith
<1> QED
  BY <1>1, <1>2 DEF NoConnection

\* A Join is registered, turned away, or finds no game.
LEMMA RegisterKeeps ==
  ASSUME GIInv, NEW c \in Client, Register(c)
  PROVE  GIInv'
<1> DEFINE away == <<Release, W(c), Release, Give>>
<1>1. CASE Panic(c)
  BY <1>1, PanicKeeps
<1>2. CASE Advance(c) /\ UNCHANGED <<game, guards, writer, conns>>
  BY <1>2, PlainStep DEF Register, GIInv, GTypeOK
<1>3. CASE Continue(c, away) /\ UNCHANGED <<game, guards, writer, conns>>
  <2>1. /\ prog[c] \in Seq(Op) /\ prog[c] # <<>> /\ prog[c][1][1] = "register"
        /\ c \in polled
    BY OnItsThread DEF Register, Kind
  <2>2. ~Waiting(c, "write")
    BY DEF Register, Waiting
  <2>3. away \in Seq(Op) /\ \A i \in DOMAIN away : ~Joins(away[i]) /\ ~Runs(away[i])
    BY TurnedAwayFits DEF Joins, Runs, W, Release, Give
  <2>4. ASSUME NEW E \in SUBSET Client, Follows(c, E)
        PROVE  \E o, n \in Client \cup {None} : Fits(c, E, away, o, n) /\ Holds(c, o, n)
    <3>1. PICK o, n \in Client \cup {None} : Fits(c, E, prog[c], o, n) /\ Holds(c, o, n)
      BY <2>4 DEF Follows
    <3>2. PICK o2, n2 \in Client \cup {None} : Legal(c, E, prog[c], 1, o, n, o2, n2)
      BY <2>1, <3>1, FitsTail
    <3>3. o # None /\ n = None
      BY <2>1, <3>2 DEF Legal, Nests
    <3>4. Fits(c, E, away, o, None)
      BY <3>3, TurnedAwayFits
    <3> QED
      BY <3>1, <3>3, <3>4
  <2> HIDE DEF away
  <2> QED
    BY <1>3, <2>1, <2>2, <2>3, <2>4, GoesOnWith
<1> QED
  BY <1>1, <1>2, <1>3 DEF Register

\* What a Join, or a handler that leaves a game, stores.
LEMMA SetGameKeeps ==
  ASSUME GIInv, NEW c \in Client, SetGame(c)
  PROVE  GIInv'
<1>1. /\ prog[c] \in Seq(Op) /\ prog[c] # <<>> /\ prog[c][1][1] = "set"
      /\ Named(c) = prog[c][1][2] /\ Named(c) \in Client \cup {None}
      /\ Tail(prog[c]) \in Seq(Op) /\ c \in polled
  BY OnItsThread DEF SetGame, Kind
<1> DEFINE rest == Tail(prog[c])
<1>2. /\ life' \in [Client -> {"open", "closing", "gone"}]
      /\ prog' \in [Client -> Seq(Op)]
      /\ prog'[c] = rest /\ \A x \in Client \ {c} : prog'[x] = prog[x]
      /\ polled' \in SUBSET Client /\ Cardinality(polled') <= Workers
      /\ polled' \subseteq polled /\ polled \ {c} \subseteq polled'
      /\ c \in polled' => rest # <<>>
      /\ c \in polled /\ rest # <<>> => c \in polled'
  BY <1>1, ContinueEffect DEF SetGame, Advance, GIInv
<1>3. /\ game' \in [Client -> Client \cup {None}]
      /\ game'[c] = Named(c) /\ \A x \in Client \ {c} : game'[x] = game[x]
      /\ UNCHANGED <<guards, writer, conns>>
  BY <1>1 DEF SetGame, GIInv, GTypeOK
<1>4. GTypeOK'
  BY <1>2, <1>3 DEF GIInv, GTypeOK
<1>5. ~Waiting(c, "write")
  BY <1>1, OnItsThread DEF Kind
<1>6. Claimed'
  BY <1>2, <1>3, <1>5, ElsewhereKeepsClaimed DEF GIInv
<1>7. OnThread'
  BY <1>1, <1>2, KeepsOnThread DEF GIInv
<1>8. ASSUME NEW E \in SUBSET Client, Follows(c, E)
      PROVE  Follows(c, E)'
  <2>1. PICK o, n \in Client \cup {None} : Fits(c, E, prog[c], o, n) /\ Holds(c, o, n)
    BY <1>8 DEF Follows
  <2>2. PICK o2, n2 \in Client \cup {None} :
          Legal(c, E, prog[c], 1, o, n, o2, n2) /\ Fits(c, E, rest, o2, n2)
    BY <1>1, <2>1, FitsTail
  <2>3. /\ o2 = o /\ n2 = n
        /\ \A j \in 2..Len(prog[c]) : ~Runs(prog[c][j])
        /\ Named(c) # None =>
             E = {Named(c)} /\ \A j \in 2..Len(prog[c]) : ~Joins(prog[c][j])
    BY <1>1, <2>2 DEF Legal, Nests, Lock
  <2>4. \A i \in DOMAIN rest : rest[i] = prog[c][i + 1] /\ i + 1 \in 2..Len(prog[c])
    BY <1>1
  <2>5. Holds(c, o2, n2)' /\ Fits(c, E, prog'[c], o2, n2)
    BY <1>2, <1>3, <2>1, <2>2, <2>3 DEF Holds
  <2>6. /\ game'[c] # None => E = {game'[c]}
        /\ (\E i \in DOMAIN prog'[c] : Joins(prog'[c][i])) => game'[c] = None
        /\ (\E i \in DOMAIN prog'[c] : Runs(prog'[c][i])) => game'[c] # None
    BY <1>2, <1>3, <2>3, <2>4
  <2> QED
    BY <2>5, <2>6 DEF Follows
<1>9. ASSUME NEW x \in Client \ {c}
      PROVE  game'[x] = game[x] /\ prog'[x] = prog[x] /\ guards'[x] = guards[x]
  BY <1>2, <1>3
<1>10. Ordered'
  BY <1>8, <1>9, KeepsOrdered DEF GIInv
<1> QED
  BY <1>4, <1>6, <1>7, <1>10 DEF GIInv

\* A client that starts to follow one that follows nobody but itself closes
\* no circle.
LEMMA FollowingKeepsAcyclic ==
  ASSUME NEW L \in [Client -> SUBSET Client], Acyclic(L),
         NEW c \in Client, NEW h \in Client, h = c \/ L[h] \subseteq {h}
  PROVE  Acyclic([L EXCEPT ![c] = {h}])
<1> SUFFICES ASSUME NEW Q \in SUBSET Client, Q # {}
             PROVE  \E x \in Q : [L EXCEPT ![c] = {h}][x] \cap Q \subseteq {x}
  BY DEF Acyclic
<1>1. PICK x \in Q : L[x] \cap Q \subseteq {x}
  BY DEF Acyclic
<1>2. CASE x # c
  BY <1>1, <1>2
<1>3. CASE x = c /\ (h = c \/ h \notin Q)
  BY <1>1, <1>3
<1>4. CASE x = c /\ h # c /\ h \in Q
  BY <1>4
<1> QED
  BY <1>2, <1>3, <1>4

\* The first operation of a handler, the last one too.
LEMMA FitsFirst ==
  ASSUME NEW c \in Client, NEW E \in SUBSET Client, NEW p \in Seq(Op), p # <<>>,
         NEW o \in Client \cup {None}, NEW n \in Client \cup {None},
         Fits(c, E, p, o, n)
  PROVE  \E o2, n2 \in Client \cup {None} : Legal(c, E, p, 1, o, n, o2, n2)
<1>1. PICK out, inn \in [1..(Len(p) + 1) -> Client \cup {None}] :
        Walk(c, E, p, out, inn) /\ out[1] = o /\ inn[1] = n
  BY DEF Fits
<1>2. Len(p) \in Nat \ {0}
  OBVIOUS
<1>3. Legal(c, E, p, 1, out[1], inn[1], out[2], inn[2])
  BY <1>1, <1>2 DEF Walk
<1>4. out[2] \in Client \cup {None} /\ inn[2] \in Client \cup {None}
  BY <1>2
<1> QED
  BY <1>1, <1>3, <1>4

\* A Join goes on to follow h: itself, or a host.
LEMMA FetchedKeeps ==
  ASSUME GIInv, NEW c \in Client, Waiting(c, "fetch"), NEW h \in Client,
         h = c \/ game[h] = h, NEW rest \in Seq(Op), Continue(c, rest),
         UNCHANGED <<game, guards, writer, conns>>,
         \A i \in 1..Len(rest) : ~Runs(rest[i]), Fits(c, {h}, rest, c, None)
  PROVE  GIInv'
<1>1. /\ prog[c] \in Seq(Op) /\ prog[c] # <<>> /\ prog[c][1][1] = "fetch"
      /\ c \in polled
  BY OnItsThread DEF Kind
<1>2. /\ life' \in [Client -> {"open", "closing", "gone"}]
      /\ prog' \in [Client -> Seq(Op)]
      /\ prog'[c] = rest /\ \A x \in Client \ {c} : prog'[x] = prog[x]
      /\ polled' \in SUBSET Client /\ Cardinality(polled') <= Workers
      /\ polled' \subseteq polled /\ polled \ {c} \subseteq polled'
      /\ c \in polled' => rest # <<>>
      /\ c \in polled /\ rest # <<>> => c \in polled'
  BY ContinueEffect DEF GIInv
<1>3. GTypeOK'
  BY <1>2 DEF GIInv, GTypeOK
<1>4. ~Waiting(c, "write")
  BY DEF Waiting
<1>5. Claimed'
  BY <1>2, <1>4, ElsewhereKeepsClaimed DEF GIInv
<1>6. OnThread'
  BY <1>1, <1>2, KeepsOnThread DEF GIInv
<1>7. PICK L \in [Client -> SUBSET Client] :
        Acyclic(L) /\ \A x \in Client : Follows(x, L[x])
  BY DEF GIInv, Ordered
<1> DEFINE M == [L EXCEPT ![c] = {h}]
<1>8. M \in [Client -> SUBSET Client] /\ Acyclic(M)
  <2>1. game[h] = h => L[h] = {h}
    BY <1>7, GuardsConstants DEF Follows
  <2> QED
    BY <1>7, <2>1, FollowingKeepsAcyclic
<1>9. ASSUME NEW x \in Client \ {c}
      PROVE  Follows(x, M[x])'
  <2>1. Follows(x, L[x]) /\ M[x] = L[x]
    BY <1>7
  <2> HIDE DEF M
  <2> QED
    BY <1>2, <2>1 DEF Follows, Holds
<1>10. Follows(c, M[c])'
  <2>1. PICK o, n \in Client \cup {None} :
          Fits(c, L[c], prog[c], o, n) /\ Holds(c, o, n)
    BY <1>7 DEF Follows
  <2>2. PICK o2, n2 \in Client \cup {None} : Legal(c, L[c], prog[c], 1, o, n, o2, n2)
    BY <1>1, <2>1, FitsFirst
  <2>3. Holds(c, c, None)'
    BY <1>1, <2>1, <2>2 DEF Legal, Nests, Holds
  <2>4. game'[c] = None
    <3>1. 1 \in DOMAIN prog[c] /\ Joins(prog[c][1])
      BY <1>1 DEF Joins
    <3> QED
      BY <1>7, <3>1 DEF Follows
  <2>5. M[c] = {h} /\ Fits(c, {h}, prog'[c], c, None)
    BY <1>2, <1>7
  <2>6. \A i \in DOMAIN prog'[c] : ~Runs(prog'[c][i])
    <3>1. DOMAIN rest = 1..Len(rest)
      OBVIOUS
    <3> QED
      BY <1>2, <3>1
  <2> HIDE DEF M
  <2> QED
    BY <2>3, <2>4, <2>5, <2>6 DEF Follows
<1>11. Ordered'
  <2> HIDE DEF M
  <2> QED
    BY <1>8, <1>9, <1>10 DEF Ordered
<1> QED
  BY <1>3, <1>5, <1>6, <1>11 DEF GIInv

LEMMA FetchKeeps ==
  ASSUME GIInv, NEW c \in Client, Fetch(c)
  PROVE  GIInv'
<1>1. CASE Panic(c)
  BY <1>1, PanicKeeps
<1>2. CASE Continue(c, JoinAsHost(c)) /\ UNCHANGED <<game, guards, writer, conns>>
  <2>1. \A E \in SUBSET Client : E = {c} =>
          /\ JoinAsHost(c) \in Seq(Op) /\ Fits(c, E, JoinAsHost(c), c, None)
          /\ \A i \in 1..Len(JoinAsHost(c)) : ~Runs(JoinAsHost(c)[i])
    BY JoinAsHostFits, Zenon
  <2>2. {c} \in SUBSET Client
    OBVIOUS
  <2>3. /\ JoinAsHost(c) \in Seq(Op) /\ Fits(c, {c}, JoinAsHost(c), c, None)
        /\ \A i \in 1..Len(JoinAsHost(c)) : ~Runs(JoinAsHost(c)[i])
    BY <2>1, <2>2, Zenon
  <2> QED
    BY <1>2, <2>3, FetchedKeeps DEF Fetch
<1>3. CASE Continue(c, JoinElsewhere(c)) /\ UNCHANGED <<game, guards, writer, conns>>
  <2>1. \A E \in SUBSET Client : E = {c} =>
          /\ JoinElsewhere(c) \in Seq(Op) /\ Fits(c, E, JoinElsewhere(c), c, None)
          /\ \A i \in 1..Len(JoinElsewhere(c)) : ~Runs(JoinElsewhere(c)[i])
    BY JoinElsewhereFits, Zenon
  <2>2. {c} \in SUBSET Client
    OBVIOUS
  <2>3. /\ JoinElsewhere(c) \in Seq(Op) /\ Fits(c, {c}, JoinElsewhere(c), c, None)
        /\ \A i \in 1..Len(JoinElsewhere(c)) : ~Runs(JoinElsewhere(c)[i])
    BY <2>1, <2>2, Zenon
  <2> QED
    BY <1>3, <2>3, FetchedKeeps DEF Fetch
<1>4. ASSUME NEW h \in Client, game[h] = h, Continue(c, JoinHere(c, h)),
             UNCHANGED <<game, guards, writer, conns>>
      PROVE  GIInv'
  <2>1. \A E \in SUBSET Client : E = {h} =>
          /\ JoinHere(c, h) \in Seq(Op) /\ Fits(c, E, JoinHere(c, h), c, None)
          /\ \A i \in 1..Len(JoinHere(c, h)) : ~Runs(JoinHere(c, h)[i])
    BY JoinHereFits, Zenon
  <2>2. {h} \in SUBSET Client
    OBVIOUS
  <2>3. /\ JoinHere(c, h) \in Seq(Op) /\ Fits(c, {h}, JoinHere(c, h), c, None)
        /\ \A i \in 1..Len(JoinHere(c, h)) : ~Runs(JoinHere(c, h)[i])
    BY <2>1, <2>2, Zenon
  <2> QED
    BY <1>4, <2>3, FetchedKeeps DEF Fetch
<1> QED
  BY <1>1, <1>2, <1>3, <1>4 DEF Fetch

\* A handler begins with nothing held.
LEMMA BeginKeeps ==
  ASSUME GIInv, NEW c \in Client, Begin(c)
  PROVE  GIInv'
<1>1. /\ prog[c] = <<>> /\ Cardinality(polled) < Workers
      /\ polled' = polled \cup {c}
      /\ UNCHANGED <<life, game, guards, writer, conns>>
  BY DEF Begin
<1>2. PICK p \in Requests(c) \cup {Close(c)} : prog' = [prog EXCEPT ![c] = p]
  BY DEF Begin
<1>3. ASSUME NEW E \in SUBSET Client, Follows(c, E)
      PROVE  /\ p \in Seq(Op) /\ p # <<>> /\ Fits(c, E, p, None, None)
             /\ (\E i \in DOMAIN p : Joins(p[i])) => game[c] = None
             /\ (\E i \in DOMAIN p : Runs(p[i])) => game[c] # None
  <2>1. game[c] # None => E = {game[c]}
    BY <1>3 DEF Follows
  <2>2. CASE p = Join(c) /\ game[c] = None
    BY <2>2, JoinFits
  <2>3. CASE ~(p = Join(c) /\ game[c] = None)
    <3>1. Handles(c, E, p)
      BY <1>2, <2>1, <2>3, RequestHandles, CloseHandles DEF GIInv
    <3> QED
      BY <3>1 DEF Handles
  <2> QED
    BY <2>2, <2>3
<1>4. p \in Seq(Op) /\ p # <<>>
  <2>1. PICK E \in SUBSET Client : Follows(c, E)
    BY DEF GIInv, Ordered
  <2> QED
    BY <1>3, <2>1
<1>5. /\ prog' \in [Client -> Seq(Op)]
      /\ prog'[c] = p /\ \A x \in Client \ {c} : prog'[x] = prog[x]
  BY <1>2, <1>4 DEF GIInv, GTypeOK
<1>6. GTypeOK'
  BY <1>1, <1>5, OneMorePolled DEF GIInv, GTypeOK
<1>7. ~Waiting(c, "write")
  BY <1>1 DEF Waiting
<1>8. Claimed'
  BY <1>1, <1>5, <1>7, ElsewhereKeepsClaimed DEF GIInv
<1>9. OnThread'
  BY <1>1, <1>4, <1>5, KeepsOnThread DEF GIInv
<1>10. ASSUME NEW E \in SUBSET Client, Follows(c, E)
       PROVE  Follows(c, E)'
  <2>1. PICK o, n \in Client \cup {None} : Fits(c, E, <<>>, o, n) /\ Holds(c, o, n)
    BY <1>1, <1>10 DEF Follows
  <2>2. o = None /\ n = None
    BY <2>1, FitsNothing
  <2>3. Holds(c, None, None)' /\ Fits(c, E, prog'[c], None, None)
    BY <1>1, <1>3, <1>5, <1>10, <2>1, <2>2 DEF Holds
  <2> QED
    BY <1>1, <1>3, <1>5, <1>10, <2>3 DEF Follows
<1>11. Ordered'
  BY <1>1, <1>5, <1>10, KeepsOrdered DEF GIInv
<1> QED
  BY <1>6, <1>8, <1>9, <1>11 DEF GIInv

LEMMA DisconnectKeeps ==
  ASSUME GIInv, NEW c \in Client, Disconnect(c)
  PROVE  GIInv'
<1>1. /\ life' \in [Client -> {"open", "closing", "gone"}]
      /\ UNCHANGED <<game, prog, guards, writer, conns, polled>>
  BY DEF Disconnect, GIInv, GTypeOK
<1>2. GTypeOK'
  BY <1>1 DEF GIInv, GTypeOK
<1>3. Claimed'
  BY <1>1 DEF GIInv, Claimed, Guarded, Waiting, Named
<1>4. OnThread' /\ Ordered'
  BY <1>1 DEF GIInv, OnThread, Ordered, Follows, Holds
<1> QED
  BY <1>2, <1>3, <1>4 DEF GIInv

LEMMA InitHolds == GInit => GIInv
<1> SUFFICES ASSUME GInit PROVE GIInv
  OBVIOUS
<1>1. GTypeOK
  <2>1. Cardinality({}) = 0
    BY FS_EmptySet
  <2>2. <<>> \in Seq(Op) /\ <<>> \in Seq({"read", "write"} \X Client)
    OBVIOUS
  <2> QED
    BY <2>1, <2>2, GuardsConstants DEF GInit, GTypeOK
<1>2. Claimed /\ OnThread
  BY GuardsConstants DEF GInit, Claimed, OnThread
<1>3. Ordered
  <2> DEFINE L == [x \in Client |-> {}]
  <2>1. L \in [Client -> SUBSET Client] /\ Acyclic(L)
    BY DEF Acyclic
  <2>2. ASSUME NEW c \in Client
        PROVE  Follows(c, {})
    <3>1. game[c] = None /\ prog[c] = <<>> /\ guards[c] = <<>>
      BY DEF GInit
    <3>2. Fits(c, {}, prog[c], None, None)
      BY <3>1, FitsNothing
    <3>3. Holds(c, None, None)
      BY <3>1 DEF Holds
    <3>4. DOMAIN prog[c] = {}
      BY <3>1
    <3> QED
      BY <3>1, <3>2, <3>3, <3>4 DEF Follows
  <2>3. \A c \in Client : Follows(c, L[c])
    BY <2>2
  <2> HIDE DEF L
  <2> QED
    BY <2>1, <2>3 DEF Ordered
<1> QED
  BY <1>1, <1>2, <1>3 DEF GIInv

LEMMA NextKeeps == GIInv /\ [GNext]_gvars => GIInv'
<1> SUFFICES ASSUME GIInv, [GNext]_gvars PROVE GIInv'
  OBVIOUS
<1>1. CASE UNCHANGED gvars
  <2>1. UNCHANGED <<life, game, prog, guards, writer, conns, polled>>
    BY <1>1 DEF gvars
  <2>2. GTypeOK'
    BY <2>1 DEF GIInv, GTypeOK
  <2>3. Claimed' /\ OnThread'
    BY <2>1 DEF GIInv, Claimed, Guarded, Waiting, Named, OnThread
  <2>4. Ordered'
    BY <2>1 DEF GIInv, Ordered, Follows, Holds
  <2> QED
    BY <2>2, <2>3, <2>4 DEF GIInv
<1>2. ASSUME NEW c \in Client, Begin(c) \/ Disconnect(c) \/ SandboxAnswers(c)
      PROVE  GIInv'
  BY <1>2, BeginKeeps, DisconnectKeeps, SandboxAnswersKeeps
<1>3. ASSUME NEW c \in Client, GoesOn(c)
      PROVE  GIInv'
  BY <1>3, ReadLockKeeps, WriteClaimKeeps, WriteLockKeeps, UnlockKeeps,
     ConnectKeeps, ReturnKeeps, NoConnectionKeeps, FetchKeeps, RegisterKeeps,
     SetGameKeeps, FailsKeeps, AwaitKeeps, NoSecondRunKeeps, TimesOutKeeps
  DEF GoesOn
<1> QED
  BY <1>1, <1>2, <1>3 DEF GNext

LEMMA Invariant == GSpec => []GIInv
BY InitHolds, NextKeeps, PTL DEF GSpec

\* Handlers, guards, writers and the pool have their types, and no more
\* handlers have a thread than there are threads.
THEOREM TypeCorrect == GSpec => []GTypeOK
<1>1. GIInv => GTypeOK
  BY DEF GIInv
<1> QED
  BY <1>1, Invariant, PTL

(***************************************************************************)
(* Deadlocks.                                                              *)
(***************************************************************************)
\* Who is held up waits for the guard of an entry.
LEMMA HeldUp ==
  ASSUME GIInv, NEW c \in Client, HeldUpBy(c) # {}
  PROVE  /\ Named(c) \in Client /\ c \in polled
         /\ Waiting(c, "read") \/ Waiting(c, "write")
         /\ \A E \in SUBSET Client : \A o, n \in Client \cup {None} :
              Fits(c, E, prog[c], o, n) =>
                n = None /\ (o # None => o = c /\ Named(c) \in E)
<1>1. Waiting(c, "read") \/ Waiting(c, "write")
  BY DEF HeldUpBy
<1>2. /\ prog[c] \in Seq(Op) /\ prog[c] # <<>> /\ prog[c][1][1] \in Lock
      /\ Named(c) = prog[c][1][2] /\ c \in polled
  BY <1>1, OnItsThread DEF Kind, Lock
<1>3. ASSUME NEW E \in SUBSET Client, NEW o \in Client \cup {None},
             NEW n \in Client \cup {None}, Fits(c, E, prog[c], o, n)
      PROVE  Named(c) \in Client /\ n = None /\ (o # None => o = c /\ Named(c) \in E)
  BY <1>2, <1>3, FitsFirst DEF Legal, Nests
<1>4. Named(c) \in Client
  BY <1>3 DEF GIInv, Ordered, Follows
<1> QED
  BY <1>1, <1>2, <1>3, <1>4

\* Whoever holds a guard has a handler that is not over.
LEMMA HoldersAreBusy ==
  ASSUME GIInv, NEW c \in Client, NEW k, NEW s, Guarded(c, k, s)
  PROVE  c \in Busy
<1> SUFFICES ASSUME prog[c] = <<>> PROVE FALSE
  BY DEF Busy
<1>1. PICK E \in SUBSET Client : Follows(c, E)
  BY DEF GIInv, Ordered
<1>2. PICK o, n \in Client \cup {None} : Fits(c, E, <<>>, o, n) /\ Holds(c, o, n)
  BY <1>1 DEF Follows
<1>3. Len(guards[c]) = 0
  BY <1>2, FitsNothing DEF Holds
<1>4. DOMAIN guards[c] = {}
  BY <1>3 DEF GIInv, GTypeOK
<1> QED
  BY <1>4 DEF Guarded

\* Who holds c up has the guard it wants, or is about to take it.
LEMMA HoldsUp ==
  ASSUME GIInv, NEW c \in Client, NEW d \in HeldUpBy(c)
  PROVE  /\ d \in Busy
         /\ \/ \E k \in Lock : Guarded(d, k, ShardIn[Named(c)])
            \/ /\ Waiting(d, "write") /\ ShardIn[Named(d)] = ShardIn[Named(c)]
               /\ writer[ShardIn[Named(c)]] = d
<1> DEFINE s == ShardIn[Named(c)]
<1>1. Named(c) \in Client
  BY HeldUp
<1>2. CASE d \in Readers(s)
  BY <1>2, HoldersAreBusy DEF Readers, Lock
<1>3. CASE d \in {writer[s]} \ {None}
  <2>1. s \in MapShard /\ d \in Client
    BY <1>1, <1>3 DEF MapShard, GIInv, GTypeOK
  <2>2. Guarded(d, "write", s) \/ (Waiting(d, "write") /\ ShardIn[Named(d)] = s)
    BY <1>3, <2>1 DEF GIInv, Claimed
  <2>3. Waiting(d, "write") => d \in Busy
    BY <2>1 DEF Waiting, Busy
  <2> QED
    BY <1>3, <2>1, <2>2, <2>3, HoldersAreBusy DEF Lock
<1> QED
  BY <1>2, <1>3 DEF HeldUpBy

\* Short of a deadlock somebody is neither held up nor starved: whoever holds
\* a guard, or a thread, has a handler that goes on, whatever handlers failed,
\* panicked or timed out before.
THEOREM SomebodyAlwaysMoves == GSpec => []SomebodyMoves
<1>1. GIInv => SomebodyMoves
  <2> SUFFICES ASSUME GIInv, Busy # {}, Unhindered = {}
               PROVE  Deadlocks # {}
    BY DEF SomebodyMoves
  <2>1. ASSUME NEW c \in Busy
        PROVE  HeldUpBy(c) \cap Busy # {} \/ (Starved(c) /\ polled \subseteq Busy)
    <3>1. c \in Client /\ (HeldUpBy(c) # {} \/ Starved(c))
      BY <2>1 DEF Unhindered, Busy
    <3>2. HeldUpBy(c) \subseteq Busy
      BY <3>1, HoldsUp
    <3>3. polled \subseteq Busy
      BY DEF GIInv, OnThread, GTypeOK, Busy
    <3> QED
      BY <3>1, <3>2, <3>3
  <2>2. Busy \in SUBSET Client
    BY DEF Busy
  <2> QED
    BY <2>1, <2>2 DEF Deadlocks, Dead
<1> QED
  BY <1>1, Invariant, PTL

\* A handler that is held up and has guards has that of its own entry alone, and
\* wants that of an entry its client follows.
LEMMA HoldsItsOwn ==
  ASSUME GIInv, NEW L \in [Client -> SUBSET Client],
         \A c \in Client : Follows(c, L[c]),
         NEW r \in Client, HeldUpBy(r) # {}, NEW i \in DOMAIN guards[r]
  PROVE  guards[r][i][2] = r /\ Named(r) \in L[r]
<1>1. PICK o, n \in Client \cup {None} : Fits(r, L[r], prog[r], o, n) /\ Holds(r, o, n)
  BY DEF Follows
<1>2. n = None /\ (o # None => o = r /\ Named(r) \in L[r])
  BY <1>1, HeldUp
<1>3. i \in 1..Len(guards[r])
  BY DEF GIInv, GTypeOK
<1>4. o = r /\ i = 1 /\ guards[r][1][2] = r
  BY <1>1, <1>2, <1>3 DEF Holds
<1> QED
  BY <1>2, <1>4, GuardsConstants

\* Who holds c up, without colliding with it, guards the entry that c wants, or
\* wants it too.
LEMMA SameEntry ==
  ASSUME NEW c \in Client, NEW d \in HeldUpBy(c), ~Collides(c, d)
  PROVE  \/ Named(d) = Named(c)
         \/ \E i \in DOMAIN guards[d] : guards[d][i][2] = Named(c)
BY DEF Collides

\* Whoever block each other for good have among them one that waits for
\* itself, one that has no thread left, or two whose entries collide: own and
\* host's guards, nested as they are, close no circle.
THEOREM OnlyThreeDeadlocksEver == GSpec => []OnlyThreeDeadlocks
<1>1. GIInv => OnlyThreeDeadlocks
  <2> SUFFICES ASSUME GIInv, NEW D \in Deadlocks,
                      \A c \in D : /\ ~WaitsForItself(c) /\ ~Starved(c)
                                   /\ \A d \in D : ~Collides(c, d)
               PROVE  FALSE
    BY DEF OnlyThreeDeadlocks
  <2>1. /\ D \in SUBSET Client /\ D # {}
        /\ \A c \in D : HeldUpBy(c) \cap D # {}
    BY DEF Deadlocks, Dead
  <2>2. PICK L \in [Client -> SUBSET Client] :
          Acyclic(L) /\ \A c \in Client : Follows(c, L[c])
    BY DEF GIInv, Ordered
  <2> DEFINE T == {Named(c) : c \in D}
  <2>3. T \in SUBSET Client /\ T # {}
    BY <2>1, HeldUp
  <2>4. PICK x \in T : L[x] \cap T \subseteq {x}
    BY <2>2, <2>3 DEF Acyclic
  \* Nobody in D guards that entry ...
  <2>5. ASSUME NEW r \in D, NEW i \in DOMAIN guards[r], guards[r][i][2] = x
        PROVE  FALSE
    <3>1. r \in Client /\ HeldUpBy(r) # {}
      BY <2>1
    <3>2. r = x /\ Named(r) \in L[r]
      BY <2>2, <2>5, <3>1, HoldsItsOwn
    <3>3. Named(r) = x
      BY <2>4, <3>2
    <3>4. guards[r] \in Seq({"read", "write"} \X Client)
      BY <3>1 DEF GIInv, GTypeOK
    <3>5. guards[r][i][1] \in {"read", "write"}
      BY <2>5, <3>4
    <3> QED
      BY <2>5, <3>1, <3>3, <3>5 DEF WaitsForItself, Guarded
  \* ... nor, if it wants the entry, another one of its shard.
  <2>6. ASSUME NEW c \in D, Named(c) = x, NEW r \in D, r \in HeldUpBy(c),
               NEW k \in Lock, Guarded(r, k, ShardIn[x])
        PROVE  FALSE
    <3>1. c \in Client /\ r \in Client /\ HeldUpBy(r) # {}
      BY <2>1
    <3>2. Named(r) = x
      BY <2>5, <2>6, <3>1, SameEntry
    <3> QED
      BY <2>6, <3>1, <3>2 DEF WaitsForItself, Lock
  <2>7. PICK c \in D : Named(c) = x
    OBVIOUS
  <2>8. PICK d \in D : d \in HeldUpBy(c)
    BY <2>1
  <2>9. c \in Client /\ d \in Client /\ HeldUpBy(d) # {}
    BY <2>1
  <2>10. Named(d) = x
    BY <2>5, <2>7, <2>8, <2>9, SameEntry
  <2>11. /\ Waiting(d, "write") /\ writer[ShardIn[x]] = d
         /\ ~Guarded(d, "write", ShardIn[x])
    BY <2>6, <2>7, <2>8, <2>9, <2>10, HoldsUp DEF Lock
  <2>12. PICK r \in D : r \in HeldUpBy(d)
    BY <2>1
  <2>13. Guarded(r, "read", ShardIn[x])
    BY <2>10, <2>11, <2>12 DEF HeldUpBy, Readers, Waiting
  <2> QED
    BY <2>6, <2>10, <2>12, <2>13 DEF Lock
<1> QED
  BY <1>1, Invariant, PTL

\* Every entry is in a shard of its own.
OneEach == \A d, e \in Client : ShardIn[d] = ShardIn[e] => d = e

\* Then nothing collides.
LEMMA NothingCollides ==
  ASSUME GIInv, OneEach, NEW c \in Client, NEW d
  PROVE  ~Collides(c, d)
<1> SUFFICES ASSUME d \in HeldUpBy(c), Named(d) # Named(c),
                    \A i \in DOMAIN guards[d] : guards[d][i][2] # Named(c)
             PROVE  FALSE
  BY DEF Collides
<1>1. Named(c) \in Client /\ d \in Client
  BY HeldUp, HoldsUp DEF Busy
<1>2. ASSUME NEW k \in Lock, Guarded(d, k, ShardIn[Named(c)])
      PROVE  FALSE
  <2>1. PICK i \in DOMAIN guards[d] : ShardIn[guards[d][i][2]] = ShardIn[Named(c)]
    BY <1>2 DEF Guarded
  <2>2. guards[d] \in Seq({"read", "write"} \X Client)
    BY <1>1 DEF GIInv, GTypeOK
  <2>3. guards[d][i][2] \in Client
    BY <2>1, <2>2
  <2> QED
    BY <1>1, <2>1, <2>3 DEF OneEach
<1>3. Waiting(d, "write") /\ ShardIn[Named(d)] = ShardIn[Named(c)]
  BY <1>2, HoldsUp
<1>4. \A E \in SUBSET Client : \A o, n \in Client \cup {None} :
        Fits(d, E, prog[d], o, n) => Named(d) \in Client
  <2>1. prog[d] \in Seq(Op) /\ prog[d] # <<>> /\ prog[d][1][1] \in Lock
        /\ Named(d) = prog[d][1][2]
    BY <1>1, <1>3, OnItsThread DEF Kind, Lock
  <2> QED
    BY <1>1, <2>1, FitsFirst DEF Legal, Nests
<1>5. Named(d) \in Client
  BY <1>1, <1>4 DEF GIInv, Ordered, Follows
<1> QED
  BY <1>1, <1>3, <1>5 DEF OneEach

\* With every entry in a shard of its own only the first two are left.
THEOREM OnlyTwoDeadlocksEver ==
  ASSUME OneEach
  PROVE  GSpec => []OnlyTwoDeadlocks
<1>1. GIInv /\ OnlyThreeDeadlocks => OnlyTwoDeadlocks
  BY NothingCollides DEF OnlyThreeDeadlocks, OnlyTwoDeadlocks, Deadlocks
<1> QED
  BY <1>1, Invariant, OnlyThreeDeadlocksEver, PTL

(***************************************************************************)
(* How many guards a handler holds.                                        *)
(***************************************************************************)
\* Who releases a guard holds one, or two.
LEMMA HoldsOneOrTwo ==
  ASSUME GIInv, NEW c \in Client, Waiting(c, "release")
  PROVE  Len(guards[c]) \in {1, 2}
<1>1. prog[c] \in Seq(Op) /\ prog[c] # <<>> /\ prog[c][1][1] = "release"
  BY OnItsThread DEF Kind
<1>2. PICK E \in SUBSET Client : Follows(c, E)
  BY DEF GIInv, Ordered
<1>3. PICK o, n \in Client \cup {None} : Fits(c, E, prog[c], o, n) /\ Holds(c, o, n)
  BY <1>2 DEF Follows
<1>4. PICK o2, n2 \in Client \cup {None} : Legal(c, E, prog[c], 1, o, n, o2, n2)
  BY <1>1, <1>3, FitsFirst
<1> QED
  BY <1>1, <1>3, <1>4 DEF Legal, Nests, Holds

(***************************************************************************)
(* Who works on an entry.                                                  *)
(***************************************************************************)
\* A write guard is the only guard of its shard, and its holder the writer.
SoleWriters ==
  \A c, d \in Client : \A i \in DOMAIN guards[c] : \A j \in DOMAIN guards[d] :
    guards[c][i][1] = "write" =>
      /\ writer[ShardIn[guards[c][i][2]]] = c
      /\ ShardIn[guards[d][j][2]] = ShardIn[guards[c][i][2]] => d = c /\ j = i

\* An operation that works on an entry.
Works(op) == op[1] \in {"set", "register", "judge"}

\* c has a write guard on the entry that its next operation works on.
AtHand(c) ==
  prog[c] # <<>> =>
    \A e \in WorksOn(c) : \E i \in DOMAIN guards[c] : guards[c][i] = <<"write", e>>

GAInv == GIInv /\ SoleWriters /\ \A c \in Client : AtHand(c)

LEMMA NothingToWorkOn ==
  ASSUME NEW c, prog[c] = <<>> \/ ~Works(Head(prog[c]))
  PROVE  AtHand(c)
BY DEF AtHand, WorksOn, Works

\* What does not take a write guard is not followed by such an operation.
LEMMA NoWorkAfter ==
  ASSUME NEW c \in Client, NEW E \in SUBSET Client, NEW p \in Seq(Op), p # <<>>,
         NEW o \in Client \cup {None}, NEW n \in Client \cup {None},
         Fits(c, E, p, o, n), p[1][1] # "write"
  PROVE  Tail(p) = <<>> \/ ~Works(Head(Tail(p)))
<1>1. Backed(c, E, p, 1)
  BY FitsFirst DEF Legal, Nests
<1>2. Tail(p) \in Seq(Op) /\ Len(Tail(p)) = Len(p) - 1 /\ Len(p) \in Nat \ {0}
  OBVIOUS
<1>3. CASE Len(p) = 1
  <2>1. Len(Tail(p)) = 0
    BY <1>2, <1>3
  <2> QED
    BY <1>2, <2>1, EmptySeq, Zenon
<1>4. CASE 1 < Len(p)
  <2>1. Tail(p) # <<>> /\ Tail(p)[1] = p[2]
    BY <1>4, TailOf
  <2>2. Head(Tail(p)) = p[2]
    BY <1>2, <2>1
  <2>3. ~Works(p[2])
    BY <1>1, <1>4 DEF Backed, Works, W
  <2> QED
    BY <2>2, <2>3
<1> QED
  BY <1>2, <1>3, <1>4

\* A step of c that leaves the guards alone, to where c works on nothing.
LEMMA WorksOnNothing ==
  ASSUME GAInv, NEW c \in Client, UNCHANGED <<guards, writer>>,
         \A x \in Client \ {c} : game'[x] = game[x] /\ prog'[x] = prog[x],
         prog'[c] = <<>> \/ ~Works(Head(prog'[c]))
  PROVE  SoleWriters' /\ \A x \in Client : AtHand(x)'
<1>1. SoleWriters'
  BY DEF GAInv, SoleWriters
<1>2. AtHand(c)'
  BY DEF AtHand, WorksOn, Works
<1>3. ASSUME NEW x \in Client \ {c}
      PROVE  AtHand(x)'
  <2>1. game'[x] = game[x] /\ prog'[x] = prog[x] /\ guards'[x] = guards[x]
    OBVIOUS
  <2>2. WorksOn(x)' = WorksOn(x)
    BY <2>1 DEF WorksOn
  <2>3. AtHand(x)
    BY DEF GAInv
  <2> QED
    BY <2>1, <2>2, <2>3 DEF AtHand
<1> QED
  BY <1>1, <1>2, <1>3

\* The handler goes on after an operation that takes no write guard.
LEMMA GoesOnFrom ==
  ASSUME GAInv, NEW c \in Client, prog[c] \in Seq(Op), prog[c] # <<>>,
         prog[c][1][1] # "write"
  PROVE  Tail(prog[c]) = <<>> \/ ~Works(Head(Tail(prog[c])))
<1>1. PICK E \in SUBSET Client : Follows(c, E)
  BY DEF GAInv, GIInv, Ordered
<1>2. PICK o, n \in Client \cup {None} : Fits(c, E, prog[c], o, n)
  BY <1>1 DEF Follows
<1> QED
  BY <1>2, NoWorkAfter

\* A lock, or an unlock, of c: the others have what they work on still at hand.
LEMMA KeepsAtHand ==
  ASSUME GAInv, NEW c \in Client, AtHand(c)', UNCHANGED game,
         \A x \in Client \ {c} : prog'[x] = prog[x] /\ guards'[x] = guards[x]
  PROVE  \A x \in Client : AtHand(x)'
<1>1. ASSUME NEW x \in Client \ {c}
      PROVE  AtHand(x)'
  <2>1. game'[x] = game[x] /\ prog'[x] = prog[x] /\ guards'[x] = guards[x]
    OBVIOUS
  <2>2. WorksOn(x)' = WorksOn(x)
    BY <2>1 DEF WorksOn
  <2>3. AtHand(x)
    BY DEF GAInv
  <2> QED
    BY <2>1, <2>2, <2>3 DEF AtHand
<1> QED
  BY <1>1

\* A guard is added to those of c, in a shard where there is none that
\* excludes it, and no other if it is a write guard.
LEMMA GuardAdded ==
  ASSUME GIInv, SoleWriters, NEW c \in Client, NEW k \in Lock, NEW e \in Client,
         guards' = [guards EXCEPT ![c] = Append(@, <<k, e>>)], UNCHANGED writer,
         \A d \in Client : ~Guarded(d, "write", ShardIn[e]),
         k = "write" =>
           writer[ShardIn[e]] = c /\ \A d \in Client : ~Guarded(d, "read", ShardIn[e])
  PROVE  /\ SoleWriters'
         /\ \E i \in DOMAIN guards'[c] : guards'[c][i] = <<k, e>>
<1> DEFINE n == Len(guards[c])
<1>1. /\ guards[c] \in Seq({"read", "write"} \X Client)
      /\ guards'[c] = Append(guards[c], <<k, e>>)
      /\ \A x \in Client \ {c} : guards'[x] = guards[x]
  BY DEF GIInv, GTypeOK
<1>2. /\ n \in Nat /\ DOMAIN guards[c] = 1..n /\ DOMAIN guards'[c] = 1..(n + 1)
      /\ \A i \in 1..n : guards'[c][i] = guards[c][i]
      /\ guards'[c][n + 1] = <<k, e>>
  BY <1>1
<1>3. \A d \in Client : \A i \in DOMAIN guards'[d] :
        \/ i \in DOMAIN guards[d] /\ guards'[d][i] = guards[d][i]
        \/ d = c /\ i = n + 1 /\ guards'[d][i] = <<k, e>>
  BY <1>1, <1>2
<1>4. \A d \in Client : \A i \in DOMAIN guards[d] :
        ShardIn[guards[d][i][2]] = ShardIn[e] =>
          guards[d][i][1] # "write" /\ (k = "write" => guards[d][i][1] # "read")
  BY DEF Guarded
<1>5. \A d \in Client : \A i \in DOMAIN guards[d] : guards[d][i][1] \in {"read", "write"}
  <2> SUFFICES ASSUME NEW d \in Client, NEW i \in DOMAIN guards[d]
               PROVE  guards[d][i][1] \in {"read", "write"}
    OBVIOUS
  <2>1. guards[d] \in Seq({"read", "write"} \X Client)
    BY DEF GIInv, GTypeOK
  <2>2. guards[d][i] \in {"read", "write"} \X Client
    BY <2>1
  <2> QED
    BY <2>2
<1>6. SoleWriters'
  <2> SUFFICES ASSUME NEW x \in Client, NEW d \in Client,
                      NEW i \in DOMAIN guards'[x], NEW j \in DOMAIN guards'[d],
                      guards'[x][i][1] = "write"
               PROVE  /\ writer[ShardIn[guards'[x][i][2]]] = x
                      /\ ShardIn[guards'[d][j][2]] = ShardIn[guards'[x][i][2]] =>
                           d = x /\ j = i
    BY DEF SoleWriters
  <2>1. CASE i \in DOMAIN guards[x] /\ guards'[x][i] = guards[x][i]
    <3>1. ShardIn[guards[x][i][2]] # ShardIn[e]
      BY <1>4, <2>1
    <3>2. writer[ShardIn[guards[x][i][2]]] = x
      BY <2>1 DEF SoleWriters
    <3>3. CASE j \in DOMAIN guards[d] /\ guards'[d][j] = guards[d][j]
      BY <2>1, <3>3 DEF SoleWriters
    <3>4. CASE guards'[d][j] = <<k, e>>
      BY <2>1, <3>1, <3>2, <3>4
    <3> QED
      BY <1>3, <3>3, <3>4
  <2>2. CASE x = c /\ i = n + 1 /\ guards'[x][i] = <<k, e>>
    <3>1. k = "write" /\ writer[ShardIn[e]] = c
      BY <2>2
    <3>2. CASE j \in DOMAIN guards[d] /\ guards'[d][j] = guards[d][j]
      <4>1. ShardIn[guards[d][j][2]] # ShardIn[e]
        BY <1>4, <1>5, <3>1, <3>2
      <4> QED
        BY <2>2, <3>1, <3>2, <4>1
    <3>3. CASE d = c /\ j = n + 1
      BY <2>2, <3>1, <3>3
    <3> QED
      BY <1>3, <3>2, <3>3
  <2> QED
    BY <1>3, <2>1, <2>2
<1>7. n + 1 \in DOMAIN guards'[c] /\ guards'[c][n + 1] = <<k, e>>
  BY <1>2
<1> HIDE DEF n
<1> QED
  BY <1>6, <1>7, Zenon

\* Guards of c go, and with them writer bits that c has.
LEMMA GuardsDropped ==
  ASSUME GIInv, SoleWriters, NEW c \in Client,
         \A x \in Client \ {c} : guards'[x] = guards[x],
         \A i \in DOMAIN guards'[c] : i \in DOMAIN guards[c] /\ guards'[c][i] = guards[c][i],
         \A x \in Client : \A i \in DOMAIN guards'[x] :
           LET s == ShardIn[guards'[x][i][2]]
           IN guards'[x][i][1] = "write" => writer'[s] = writer[s]
  PROVE  SoleWriters'
<1>1. \A x \in Client : \A i \in DOMAIN guards'[x] :
        i \in DOMAIN guards[x] /\ guards'[x][i] = guards[x][i]
  OBVIOUS
<1> SUFFICES ASSUME NEW x \in Client, NEW d \in Client,
                    NEW i \in DOMAIN guards'[x], NEW j \in DOMAIN guards'[d],
                    guards'[x][i][1] = "write"
             PROVE  /\ writer'[ShardIn[guards'[x][i][2]]] = x
                    /\ ShardIn[guards'[d][j][2]] = ShardIn[guards'[x][i][2]] =>
                         d = x /\ j = i
  BY DEF SoleWriters
<1> QED
  BY <1>1 DEF SoleWriters

(***************************************************************************)
(* What a step keeps of that.                                              *)
(***************************************************************************)
LEMMA NamesAnEntry ==
  ASSUME GIInv, NEW c \in Client, prog[c] \in Seq(Op), prog[c] # <<>>,
         prog[c][1][1] \in Lock
  PROVE  prog[c][1][2] \in Client
<1>1. PICK E \in SUBSET Client : Follows(c, E)
  BY DEF GIInv, Ordered
<1>2. PICK o, n \in Client \cup {None} : Fits(c, E, prog[c], o, n)
  BY <1>1 DEF Follows
<1>3. PICK o2, n2 \in Client \cup {None} : Legal(c, E, prog[c], 1, o, n, o2, n2)
  BY <1>2, FitsFirst
<1> QED
  BY <1>3 DEF Legal, Nests

LEMMA TailNotEmpty ==
  ASSUME NEW p \in Seq(Op), p # <<>>, Tail(p) # <<>>
  PROVE  1 < Len(p)
<1>1. Len(p) \in Nat \ {0}
  OBVIOUS
<1>2. ASSUME Len(p) = 1
      PROVE  FALSE
  <2>1. Tail(p) \in Seq(Op) /\ Len(Tail(p)) = 0
    BY <1>2
  <2> QED
    BY <2>1, EmptySeq, Zenon
<1> QED
  BY <1>1, <1>2

LEMMA ReadLockKeepsAlone ==
  ASSUME GAInv, NEW c \in Client, ReadLock(c)
  PROVE  SoleWriters' /\ \A x \in Client : AtHand(x)'
<1>1. /\ prog[c] \in Seq(Op) /\ prog[c] # <<>> /\ prog[c][1][1] = "read"
      /\ Named(c) = prog[c][1][2] /\ Tail(prog[c]) \in Seq(Op)
  BY OnItsThread DEF ReadLock, Kind, GAInv
<1>2. Named(c) \in Client
  BY <1>1, NamesAnEntry DEF GAInv, Lock
<1> DEFINE s == ShardIn[Named(c)]
<1>3. writer[s] = None
  BY DEF ReadLock, HeldUpBy
<1>4. \A d \in Client : ~Guarded(d, "write", s)
  BY <1>3, GuardsConstants DEF GAInv, SoleWriters, Guarded
<1>5. SoleWriters'
  BY <1>2, <1>4, GuardAdded DEF ReadLock, Lock, GAInv
<1>6. /\ prog'[c] = Tail(prog[c])
      /\ \A x \in Client \ {c} : prog'[x] = prog[x] /\ guards'[x] = guards[x]
  BY DEF ReadLock, Advance, Continue, GAInv, GIInv, GTypeOK
<1>7. AtHand(c)'
  <2>1. prog'[c] = <<>> \/ ~Works(Head(prog'[c]))
    BY <1>1, <1>6, GoesOnFrom
  <2> QED
    BY <2>1 DEF AtHand, WorksOn, Works
<1> QED
  BY <1>5, <1>6, <1>7, KeepsAtHand DEF ReadLock

\* The write guard is the one that the operation after it works with.
LEMMA WriteLockKeepsAlone ==
  ASSUME GAInv, NEW c \in Client, WriteLock(c)
  PROVE  SoleWriters' /\ \A x \in Client : AtHand(x)'
<1> DEFINE s == ShardIn[Named(c)]
           e == Named(c)
<1>1. /\ prog[c] \in Seq(Op) /\ prog[c] # <<>> /\ prog[c][1][1] = "write"
      /\ e = prog[c][1][2] /\ Tail(prog[c]) \in Seq(Op)
  BY OnItsThread DEF WriteLock, Kind, GAInv
<1>2. e \in Client
  BY <1>1, NamesAnEntry DEF GAInv, Lock
<1>3. writer[s] = c /\ HeldUpBy(c) = {} /\ Waiting(c, "write")
  BY DEF WriteLock
<1>4. ~Guarded(c, "write", s) /\ Readers(s) = {}
  BY <1>3, GuardsConstants DEF HeldUpBy, Waiting
<1>5. \A d \in Client : ~Guarded(d, "write", s) /\ ~Guarded(d, "read", s)
  <2>1. \A d \in Client : Guarded(d, "write", s) => d = c
    BY <1>3 DEF GAInv, SoleWriters, Guarded
  <2> QED
    BY <1>4, <2>1 DEF Readers
<1>6. SoleWriters' /\ \E i \in DOMAIN guards'[c] : guards'[c][i] = W(e)
  BY <1>2, <1>3, <1>5, GuardAdded DEF WriteLock, Lock, GAInv, W
<1>7. /\ prog'[c] = Tail(prog[c]) /\ game' = game
      /\ \A x \in Client \ {c} : prog'[x] = prog[x] /\ guards'[x] = guards[x]
  BY DEF WriteLock, Advance, Continue, GAInv, GIInv, GTypeOK
<1>8. AtHand(c)'
  <2> SUFFICES ASSUME prog'[c] # <<>>, NEW x \in WorksOn(c)'
               PROVE  x = e
    BY <1>6 DEF AtHand, W
  <2>1. PICK E \in SUBSET Client : Follows(c, E)
    BY DEF GAInv, GIInv, Ordered
  <2>2. PICK o, n \in Client \cup {None} : Fits(c, E, prog[c], o, n)
    BY <2>1 DEF Follows
  <2>3. Backed(c, E, prog[c], 1)
    BY <1>1, <2>2, FitsFirst DEF Legal, Nests
  <2>4. 1 < Len(prog[c])
    BY <1>1, <1>7, TailNotEmpty
  <2>5. Head(prog'[c]) = prog[c][2] /\ 2 \in DOMAIN prog[c]
    <3>1. Tail(prog[c]) # <<>> /\ Tail(prog[c])[1] = prog[c][2]
      BY <1>1, <2>4, TailOf
    <3>2. Head(Tail(prog[c])) = Tail(prog[c])[1]
      BY <1>1, <3>1
    <3>3. 2 \in DOMAIN prog[c]
      BY <1>1, <2>4
    <3> QED
      BY <1>7, <3>1, <3>2, <3>3
  <2>6. CASE prog[c][2][1] = "set"
    <3>1. x = c
      BY <2>5, <2>6 DEF WorksOn
    <3>2. prog[c][1] = W(c)
      BY <2>3, <2>4, <2>6 DEF Backed
    <3> QED
      BY <1>1, <3>1, <3>2 DEF W
  <2>7. CASE prog[c][2][1] = "register"
    <3>1. x = prog[c][2][2]
      BY <2>5, <2>7 DEF WorksOn
    <3>2. prog[c][1] = W(prog[c][2][2])
      BY <2>3, <2>4, <2>7 DEF Backed
    <3> QED
      BY <1>1, <3>1, <3>2 DEF W
  <2>8. CASE prog[c][2][1] = "judge"
    <3>1. x = game[c]
      BY <1>7, <2>5, <2>8 DEF WorksOn
    <3>2. E = {prog[c][1][2]}
      BY <2>3, <2>4, <2>8 DEF Backed
    <3>3. game[c] # None
      BY <2>1, <2>5, <2>8 DEF Follows, Runs
    <3>4. E = {game[c]}
      BY <2>1, <3>3 DEF Follows
    <3> QED
      BY <1>1, <3>1, <3>2, <3>4
  <2>9. CASE prog[c][2][1] \notin {"set", "register", "judge"}
    BY <2>5, <2>9 DEF WorksOn
  <2> QED
    BY <2>6, <2>7, <2>8, <2>9
<1> QED
  BY <1>6, <1>7, <1>8, KeepsAtHand

LEMMA WriteClaimKeepsAlone ==
  ASSUME GAInv, NEW c \in Client, WriteClaim(c)
  PROVE  SoleWriters' /\ \A x \in Client : AtHand(x)'
<1> DEFINE s == ShardIn[Named(c)]
<1>1. /\ writer[s] = None /\ writer' = [writer EXCEPT ![s] = c]
      /\ UNCHANGED <<game, prog, guards>>
  BY DEF WriteClaim
<1>2. SoleWriters'
  <2> SUFFICES ASSUME NEW x \in Client, NEW d \in Client,
                      NEW i \in DOMAIN guards[x], NEW j \in DOMAIN guards[d],
                      guards[x][i][1] = "write"
               PROVE  /\ writer'[ShardIn[guards[x][i][2]]] = x
                      /\ ShardIn[guards[d][j][2]] = ShardIn[guards[x][i][2]] =>
                           d = x /\ j = i
    BY <1>1 DEF SoleWriters
  <2>1. /\ writer[ShardIn[guards[x][i][2]]] = x
        /\ ShardIn[guards[d][j][2]] = ShardIn[guards[x][i][2]] => d = x /\ j = i
    BY DEF GAInv, SoleWriters
  <2>2. ShardIn[guards[x][i][2]] # s
    BY <1>1, <2>1, GuardsConstants
  <2>3. ShardIn[guards[x][i][2]] \in MapShard
    <3>1. guards[x] \in Seq({"read", "write"} \X Client)
      BY DEF GAInv, GIInv, GTypeOK
    <3>2. guards[x][i][2] \in Client
      BY <3>1
    <3> QED
      BY <3>2 DEF MapShard
  <2> QED
    BY <1>1, <2>1, <2>2, <2>3 DEF GAInv, GIInv, GTypeOK
<1>3. ASSUME NEW x \in Client
      PROVE  AtHand(x)'
  BY <1>1 DEF GAInv, AtHand, WorksOn
<1> QED
  BY <1>2, <1>3

LEMMA UnlockKeepsAlone ==
  ASSUME GAInv, NEW c \in Client, Unlock(c)
  PROVE  SoleWriters' /\ \A x \in Client : AtHand(x)'
<1> DEFINE n == Len(guards[c])
           s == ShardIn[guards[c][n][2]]
<1>1. /\ prog[c] \in Seq(Op) /\ prog[c] # <<>> /\ prog[c][1][1] = "release"
  BY OnItsThread DEF Unlock, Kind, GAInv
<1>2. n \in {1, 2} /\ guards[c] \in Seq({"read", "write"} \X Client)
  BY HoldsOneOrTwo DEF Unlock, GAInv, GIInv, GTypeOK
<1>3. /\ guards' = [guards EXCEPT ![c] = SubSeq(guards[c], 1, n - 1)]
      /\ writer' = IF guards[c][n][1] = "write"
                     THEN [writer EXCEPT ![s] = None] ELSE writer
  BY DEF Unlock
<1>4. /\ \A i \in DOMAIN guards'[c] :
           i \in 1..(n - 1) /\ i \in DOMAIN guards[c] /\ guards'[c][i] = guards[c][i]
      /\ \A x \in Client \ {c} : guards'[x] = guards[x]
      /\ n \in DOMAIN guards[c]
  <2>1. ASSUME NEW g \in Seq({"read", "write"} \X Client), Len(g) \in {1, 2}
        PROVE  /\ \A i \in 1..(Len(g) - 1) : SubSeq(g, 1, Len(g) - 1)[i] = g[i]
               /\ DOMAIN SubSeq(g, 1, Len(g) - 1) = 1..(Len(g) - 1)
               /\ DOMAIN g = 1..Len(g)
    BY <2>1
  <2>2. /\ guards'[c] = SubSeq(guards[c], 1, n - 1)
        /\ \A x \in Client \ {c} : guards'[x] = guards[x]
    BY <1>3 DEF GAInv, GIInv, GTypeOK
  <2>3. /\ \A i \in 1..(n - 1) : guards'[c][i] = guards[c][i]
        /\ DOMAIN guards'[c] = 1..(n - 1) /\ DOMAIN guards[c] = 1..n
    BY <1>2, <2>1, <2>2
  <2> HIDE DEF n
  <2> QED
    BY <1>2, <2>2, <2>3
<1>5. ASSUME NEW x \in Client, NEW i \in DOMAIN guards'[x], guards'[x][i][1] = "write"
      PROVE  writer'[ShardIn[guards'[x][i][2]]] = writer[ShardIn[guards'[x][i][2]]]
  <2>1. i \in DOMAIN guards[x] /\ guards'[x][i] = guards[x][i] /\ (x = c => i # n)
    BY <1>2, <1>4
  <2>2. guards[c][n][1] = "write" => ShardIn[guards[x][i][2]] # s
    BY <1>4, <1>5, <2>1 DEF GAInv, SoleWriters
  <2> HIDE DEF n, s
  <2>3. CASE guards[c][n][1] # "write"
    <3>1. writer' = writer
      BY <1>3, <2>3
    <3> QED
      BY <3>1
  <2>4. CASE guards[c][n][1] = "write"
    <3>1. ShardIn[guards'[x][i][2]] # s /\ writer' = [writer EXCEPT ![s] = None]
      BY <1>3, <2>1, <2>2, <2>4
    <3>2. writer \in [MapShard -> Client \cup {None}]
      BY DEF GAInv, GIInv, GTypeOK
    <3>3. ShardIn[guards'[x][i][2]] \in MapShard
      <4>1. guards[x] \in Seq({"read", "write"} \X Client)
        BY DEF GAInv, GIInv, GTypeOK
      <4>2. guards[x][i][2] \in Client
        BY <2>1, <4>1
      <4> QED
        BY <2>1, <4>2 DEF MapShard
    <3> QED
      BY <3>1, <3>2, <3>3
  <2> QED
    BY <2>3, <2>4
<1>6. SoleWriters'
  BY <1>4, <1>5, GuardsDropped DEF GAInv
<1>7. /\ prog'[c] = Tail(prog[c]) /\ game' = game
      /\ \A x \in Client \ {c} : prog'[x] = prog[x]
  BY DEF Unlock, Advance, Continue, GAInv, GIInv, GTypeOK
<1>8. AtHand(c)'
  <2>1. prog'[c] = <<>> \/ ~Works(Head(prog'[c]))
    BY <1>1, <1>7, GoesOnFrom
  <2> QED
    BY <2>1 DEF AtHand, WorksOn, Works
<1> QED
  BY <1>4, <1>6, <1>7, <1>8, KeepsAtHand

LEMMA UnwindKeepsAlone ==
  ASSUME GAInv, NEW c \in Client, NEW rest, Unwind(c, rest), UNCHANGED game,
         rest = <<>> \/ ~Works(Head(rest))
  PROVE  SoleWriters' /\ \A x \in Client : AtHand(x)'
<1>1. /\ guards'[c] = <<>> /\ prog'[c] = rest
      /\ \A x \in Client \ {c} : prog'[x] = prog[x] /\ guards'[x] = guards[x]
  BY DEF Unwind, GAInv, GIInv, GTypeOK
<1>2. ASSUME NEW x \in Client, NEW i \in DOMAIN guards'[x], guards'[x][i][1] = "write"
      PROVE  writer'[ShardIn[guards'[x][i][2]]] = writer[ShardIn[guards'[x][i][2]]]
  <2>1. x # c /\ guards'[x] = guards[x]
    BY <1>1
  <2>2. writer[ShardIn[guards[x][i][2]]] = x
    BY <1>2, <2>1 DEF GAInv, SoleWriters
  <2>3. ShardIn[guards[x][i][2]] \in MapShard
    <3>1. guards[x] \in Seq({"read", "write"} \X Client)
      BY DEF GAInv, GIInv, GTypeOK
    <3>2. guards[x][i][2] \in Client
      BY <2>1, <3>1
    <3> QED
      BY <3>2 DEF MapShard
  <2> QED
    BY <2>1, <2>2, <2>3 DEF Unwind, FreeWriters
<1>3. SoleWriters'
  <2>1. \A i \in DOMAIN guards'[c] : i \in DOMAIN guards[c] /\ guards'[c][i] = guards[c][i]
    BY <1>1
  <2> QED
    BY <1>1, <1>2, <2>1, GuardsDropped DEF GAInv
<1>4. AtHand(c)'
  BY <1>1 DEF AtHand, WorksOn, Works
<1> QED
  BY <1>1, <1>3, <1>4, KeepsAtHand

\* Everything that is no lock, no unlock and no early return.
LEMMA QuietKeepsAlone ==
  ASSUME GAInv, NEW c \in Client, NEW rest, Continue(c, rest),
         UNCHANGED <<guards, writer>>,
         \A x \in Client \ {c} : game'[x] = game[x],
         rest = <<>> \/ ~Works(Head(rest))
  PROVE  SoleWriters' /\ \A x \in Client : AtHand(x)'
<1>1. prog'[c] = rest /\ \A x \in Client \ {c} : prog'[x] = prog[x]
  BY DEF Continue, GAInv, GIInv, GTypeOK
<1> QED
  BY <1>1, WorksOnNothing

\* An operation done, which is no write lock.
LEMMA AdvanceKeepsAlone ==
  ASSUME GAInv, NEW c \in Client, NEW k \in Kind \ {"write"}, Waiting(c, k),
         Advance(c), UNCHANGED <<guards, writer>>,
         \A x \in Client \ {c} : game'[x] = game[x]
  PROVE  SoleWriters' /\ \A x \in Client : AtHand(x)'
<1>1. prog[c] \in Seq(Op) /\ prog[c] # <<>> /\ prog[c][1][1] = k
  BY OnItsThread DEF GAInv
<1>2. Tail(prog[c]) = <<>> \/ ~Works(Head(Tail(prog[c])))
  BY <1>1, GoesOnFrom
<1> QED
  BY <1>2, QuietKeepsAlone DEF Advance

LEMMA PanicKeepsAlone ==
  ASSUME GAInv, NEW c \in Client, Panic(c)
  PROVE  SoleWriters' /\ \A x \in Client : AtHand(x)'
BY UnwindKeepsAlone DEF Panic

LEMMA NoConnectionKeepsAlone ==
  ASSUME GAInv, NEW c \in Client, NoConnection(c)
  PROVE  SoleWriters' /\ \A x \in Client : AtHand(x)'
<1>1. CASE Panic(c)
  BY <1>1, PanicKeepsAlone
<1>2. CASE /\ Waiting(c, "try") /\ Continue(c, Tail(Tail(prog[c])))
           /\ UNCHANGED <<game, guards, writer, conns>>
  <2> DEFINE p == prog[c]
             q == Tail(prog[c])
  <2>1. p \in Seq(Op) /\ p # <<>> /\ p[1][1] = "try" /\ q \in Seq(Op)
    BY <1>2, OnItsThread DEF Kind, GAInv
  <2>2. PICK E \in SUBSET Client : Follows(c, E)
    BY DEF GAInv, GIInv, Ordered
  <2>3. PICK o, n \in Client \cup {None} : Fits(c, E, p, o, n)
    BY <2>2 DEF Follows
  <2>4. PICK o2, n2 \in Client \cup {None} :
          Legal(c, E, p, 1, o, n, o2, n2) /\ Fits(c, E, q, o2, n2)
    BY <2>1, <2>3, FitsTail
  <2>5. 1 < Len(p) /\ p[2][1] = "give"
    BY <2>1, <2>4 DEF Legal, Nests
  <2>6. q # <<>> /\ q[1][1] = "give"
    BY <2>1, <2>5, TailOf
  <2>7. Tail(q) = <<>> \/ ~Works(Head(Tail(q)))
    BY <2>1, <2>4, <2>6, NoWorkAfter
  <2> QED
    BY <1>2, <2>7, QuietKeepsAlone
<1> QED
  BY <1>1, <1>2 DEF NoConnection

LEMMA FetchKeepsAlone ==
  ASSUME GAInv, NEW c \in Client, Fetch(c)
  PROVE  SoleWriters' /\ \A x \in Client : AtHand(x)'
<1>1. CASE Panic(c)
  BY <1>1, PanicKeepsAlone
<1>2. /\ ~Works(Head(JoinAsHost(c))) /\ ~Works(Head(JoinElsewhere(c)))
      /\ \A h : ~Works(Head(JoinHere(c, h)))
  BY DEF Works, JoinAsHost, JoinElsewhere, JoinHere, Release
<1>3. CASE /\ \/ Continue(c, JoinAsHost(c)) \/ Continue(c, JoinElsewhere(c))
              \/ \E h \in Client : Continue(c, JoinHere(c, h))
           /\ UNCHANGED <<game, guards, writer, conns>>
  BY <1>2, <1>3, QuietKeepsAlone
<1> QED
  BY <1>1, <1>3 DEF Fetch

LEMMA RegisterKeepsAlone ==
  ASSUME GAInv, NEW c \in Client, Register(c)
  PROVE  SoleWriters' /\ \A x \in Client : AtHand(x)'
<1> DEFINE away == <<Release, W(c), Release, Give>>
<1>1. CASE Panic(c)
  BY <1>1, PanicKeepsAlone
<1>2. CASE Advance(c) /\ UNCHANGED <<game, guards, writer, conns>>
  BY <1>2, AdvanceKeepsAlone DEF Register, Kind
<1>3. CASE Continue(c, away) /\ UNCHANGED <<game, guards, writer, conns>>
  <2>1. ~Works(Head(away))
    BY DEF Works, Release
  <2> HIDE DEF away
  <2> QED
    BY <1>3, <2>1, QuietKeepsAlone
<1> QED
  BY <1>1, <1>2, <1>3 DEF Register

\* Whom c follows is no longer needed to know what c works on next.
LEMMA SetGameKeepsAlone ==
  ASSUME GAInv, NEW c \in Client, SetGame(c)
  PROVE  SoleWriters' /\ \A x \in Client : AtHand(x)'
<1>1. \A x \in Client \ {c} : game'[x] = game[x]
  BY DEF SetGame, GAInv, GIInv, GTypeOK
<1> QED
  BY <1>1, AdvanceKeepsAlone DEF SetGame, Kind

LEMMA SandboxAnswersKeepsAlone ==
  ASSUME GAInv, NEW c \in Client, SandboxAnswers(c)
  PROVE  SoleWriters' /\ \A x \in Client : AtHand(x)'
<1>1. /\ prog[c] \in Seq(Op) /\ prog[c] # <<>> /\ prog[c][1][1] \in {"run", "judge"}
      /\ prog'[c] = Tail(prog[c]) /\ \A x \in Client \ {c} : prog'[x] = prog[x]
      /\ UNCHANGED <<game, guards, writer>>
  BY DEF SandboxAnswers, Ready, Awaiting, GAInv, GIInv, GTypeOK, OnThread
<1>2. prog'[c] = <<>> \/ ~Works(Head(prog'[c]))
  BY <1>1, GoesOnFrom
<1> QED
  BY <1>1, <1>2, WorksOnNothing

\* The host's guard goes with the handler that the timer ends.
LEMMA TimesOutKeepsAlone ==
  ASSUME GAInv, NEW c \in Client, TimesOut(c)
  PROVE  SoleWriters' /\ \A x \in Client : AtHand(x)'
<1>1. Unwind(c, Notice(c)) /\ UNCHANGED game
  BY DEF TimesOut
<1>2. PICK E \in SUBSET Client : Follows(c, E)
  BY DEF GAInv, GIInv, Ordered
<1>3. game[c] # None
  <2>1. prog[c] \in Seq(Op) /\ prog[c] # <<>> /\ Runs(prog[c][1])
    BY DEF TimesOut, Ready, Awaiting, GAInv, GIInv, GTypeOK, OnThread, Runs
  <2>2. 1 \in DOMAIN prog[c]
    BY <2>1
  <2> QED
    BY <1>2, <2>1, <2>2 DEF Follows
<1>4. Handles(c, E, Notice(c))
  BY <1>2, <1>3, NoticeHandles DEF Follows
<1>5. ~Works(Head(Notice(c)))
  <2>1. Notice(c) \in Seq(Op) /\ Notice(c) # <<>> /\ Notice(c)[1][1] \in {"read", "write", "take"}
    BY <1>4 DEF Handles
  <2> HIDE DEF Notice
  <2>2. Head(Notice(c)) = Notice(c)[1]
    BY <2>1
  <2> QED
    BY <2>1, <2>2 DEF Works
<1> QED
  BY <1>1, <1>5, UnwindKeepsAlone

LEMMA BeginKeepsAlone ==
  ASSUME GAInv, NEW c \in Client, Begin(c)
  PROVE  SoleWriters' /\ \A x \in Client : AtHand(x)'
<1>1. UNCHANGED <<game, guards, writer>>
  BY DEF Begin
<1>2. PICK p \in Requests(c) \cup {Close(c)} : prog' = [prog EXCEPT ![c] = p]
  BY DEF Begin
<1>3. PICK E \in SUBSET Client : Follows(c, E)
  BY DEF GAInv, GIInv, Ordered
<1>4. ~Works(Head(p))
  <2>1. CASE p = Join(c)
    BY <2>1 DEF Join, Works, R
  <2>2. CASE p # Join(c)
    <3>1. Handles(c, E, p)
      BY <1>2, <1>3, <2>2, RequestHandles, CloseHandles DEF GAInv, GIInv, Follows
    <3>2. p \in Seq(Op) /\ p # <<>> /\ p[1][1] \in {"read", "write", "take"}
      BY <3>1 DEF Handles
    <3>3. Head(p) = p[1]
      BY <3>2
    <3> QED
      BY <3>2, <3>3 DEF Works
  <2> QED
    BY <2>1, <2>2
<1>5. prog'[c] = p /\ \A x \in Client \ {c} : prog'[x] = prog[x]
  BY <1>2 DEF GAInv, GIInv, GTypeOK
<1> QED
  BY <1>1, <1>4, <1>5, WorksOnNothing

LEMMA InPlaceKeepsAlone ==
  ASSUME GAInv, UNCHANGED <<game, prog, guards, writer>>
  PROVE  SoleWriters' /\ \A x \in Client : AtHand(x)'
<1>1. SoleWriters'
  BY DEF GAInv, SoleWriters
<1>2. ASSUME NEW x \in Client
      PROVE  AtHand(x)'
  BY DEF GAInv, AtHand, WorksOn
<1> QED
  BY <1>1, <1>2

LEMMA NextKeepsAlone == GAInv /\ [GNext]_gvars => GAInv'
<1> SUFFICES ASSUME GAInv, [GNext]_gvars
             PROVE  SoleWriters' /\ \A x \in Client : AtHand(x)'
  BY NextKeeps DEF GAInv
<1>1. CASE UNCHANGED gvars
  BY <1>1, InPlaceKeepsAlone DEF gvars
<1>2. ASSUME NEW c \in Client, Begin(c) \/ Disconnect(c) \/ SandboxAnswers(c)
      PROVE  SoleWriters' /\ \A x \in Client : AtHand(x)'
  BY <1>2, BeginKeepsAlone, SandboxAnswersKeepsAlone, InPlaceKeepsAlone DEF Disconnect
<1>3. ASSUME NEW c \in Client,
             Connect(c) \/ Return(c) \/ NoSecondRun(c) \/ Fails(c) \/ Await(c)
      PROVE  SoleWriters' /\ \A x \in Client : AtHand(x)'
  <2>1. CASE Connect(c) \/ Return(c) \/ NoSecondRun(c)
    BY <2>1, AdvanceKeepsAlone DEF Connect, Return, NoSecondRun, Kind
  <2>2. CASE Fails(c)
    BY <2>2, PanicKeepsAlone DEF Fails
  <2>3. CASE Await(c)
    BY <2>3, InPlaceKeepsAlone DEF Await
  <2> QED
    BY <1>3, <2>1, <2>2, <2>3
<1>4. ASSUME NEW c \in Client, GoesOn(c)
      PROVE  SoleWriters' /\ \A x \in Client : AtHand(x)'
  BY <1>3, <1>4, ReadLockKeepsAlone, WriteClaimKeepsAlone, WriteLockKeepsAlone,
     UnlockKeepsAlone, NoConnectionKeepsAlone, FetchKeepsAlone,
     RegisterKeepsAlone, SetGameKeepsAlone, TimesOutKeepsAlone
  DEF GoesOn
<1> QED
  BY <1>1, <1>2, <1>4 DEF GNext

\* Whoever sets its Game, is registered at a host or has its program judged
\* there has a write guard on that entry, and nobody else has a guard on it,
\* whatever shards the entries are in, and whoever fails, panics or times out:
\* such operations can be taken for one step, also over the await of a judge.
THEOREM AlwaysWorksAlone == GSpec => []WorksAlone
<1>1. GInit => GAInv
  <2> SUFFICES ASSUME GInit PROVE GAInv
    OBVIOUS
  <2>1. \A c \in Client : guards[c] = <<>> /\ prog[c] = <<>>
    BY DEF GInit
  <2>2. SoleWriters /\ \A c \in Client : AtHand(c)
    BY <2>1 DEF SoleWriters, AtHand
  <2> QED
    BY <2>2, InitHolds DEF GAInv
<1>2. GAInv => WorksAlone
  <2> SUFFICES ASSUME GAInv, NEW c \in Busy, NEW e \in WorksOn(c)
               PROVE  /\ Guarded(c, "write", ShardIn[e])
                      /\ \A d \in Client : \A k \in {"read", "write"} :
                           Guarded(d, k, ShardIn[e]) => d = c
    BY DEF WorksAlone
  <2>1. c \in Client /\ prog[c] # <<>>
    BY DEF Busy
  <2>2. PICK i \in DOMAIN guards[c] : guards[c][i] = <<"write", e>>
    BY <2>1 DEF GAInv, AtHand
  <2>3. Guarded(c, "write", ShardIn[e])
    BY <2>2 DEF Guarded
  <2>4. ASSUME NEW d \in Client, NEW k, Guarded(d, k, ShardIn[e])
        PROVE  d = c
    BY <2>1, <2>2, <2>4 DEF GAInv, SoleWriters, Guarded
  <2> QED
    BY <2>3, <2>4
<1> QED
  BY <1>1, <1>2, NextKeepsAlone, PTL DEF GSpec

(***************************************************************************)
(* The connections of the pool.                                            *)
(***************************************************************************)
\* op takes a handler from holding k connections to holding k2.
Lends(op, k, k2) ==
  /\ op[1] = "take" => k2 = k + 1
  /\ op[1] = "try" => k = 0 /\ k2 = 1
  /\ op[1] = "give" => k = 1 /\ k2 = 0
  /\ op[1] \in {"fetch", "register"} => k = 1
  /\ op[1] \notin {"take", "try", "give"} => k2 = k

\* With a held before it, and b after it, p keeps these books.
Books(p, held, a, b) ==
  /\ held \in [1..(Len(p) + 1) -> 0..2]
  /\ held[1] = a /\ held[Len(p) + 1] = b
  /\ \A i \in 1..Len(p) : Lends(p[i], held[i], held[i + 1])

Leads(p, a, b) == \E held : Books(p, held, a, b)

\* The rest of a handler that holds k gives everything back, if it is not
\* given up in the end, or goes on in another way.
Repays(p, k) ==
  \E b \in 0..2 :
    /\ Leads(p, k, b)
    /\ (Len(p) > 0 => p[Len(p)][1] \notin {"fail", "fetch"}) => b = 0

Lent(c, k) ==
  /\ k = 0 => conns[c] = {}
  /\ k = 1 => \E a \in Connection : conns[c] = {a}

Solvent(c) == \E k \in 0..2 : Repays(prog[c], k) /\ Lent(c, k)

LentOnce == \A c \in Client : \A d \in Client \ {c} : conns[c] \cap conns[d] = {}

GPInv == GIInv /\ LentOnce /\ \A c \in Client : Solvent(c)

LEMMA LeadsOn ==
  ASSUME NEW s \in Seq(Op), NEW t \in Seq(Op), NEW a, NEW m, NEW b,
         Leads(s, a, m), Leads(t, m, b)
  PROVE  s \o t \in Seq(Op) /\ Leads(s \o t, a, b)
<1>1. PICK hs : Books(s, hs, a, m)
  BY DEF Leads
<1>2. PICK ht : Books(t, ht, m, b)
  BY DEF Leads
<1>3. /\ s \o t \in Seq(Op) /\ Len(s \o t) = Len(s) + Len(t)
      /\ \A i \in 1..Len(s) : (s \o t)[i] = s[i]
      /\ \A i \in 1..Len(t) : (s \o t)[Len(s) + i] = t[i]
      /\ Len(s) \in Nat /\ Len(t) \in Nat
  BY ConcatProperties
<1> DEFINE u == s \o t
           held == [i \in 1..(Len(s) + Len(t) + 1) |->
                      IF i <= Len(s) THEN hs[i] ELSE ht[i - Len(s)]]
<1> HIDE DEF u
<1>4. held \in [1..(Len(s) + Len(t) + 1) -> 0..2]
  <2> SUFFICES ASSUME NEW i \in 1..(Len(s) + Len(t) + 1)
               PROVE  (IF i <= Len(s) THEN hs[i] ELSE ht[i - Len(s)]) \in 0..2
    OBVIOUS
  <2>1. CASE i <= Len(s)
    BY <1>1, <1>3, <2>1 DEF Books
  <2>2. CASE ~(i <= Len(s))
    <3>1. i - Len(s) \in 1..(Len(t) + 1)
      BY <1>3, <2>2
    <3> QED
      BY <1>2, <2>2, <3>1 DEF Books
  <2> QED
    BY <2>1, <2>2
<1>5. /\ \A i \in 1..Len(s) : held[i] = hs[i] /\ held[i + 1] = hs[i + 1]
      /\ \A i \in 1..(Len(t) + 1) : held[Len(s) + i] = ht[i]
  <2>1. \A i \in 1..(Len(t) + 1) : held[Len(s) + i] = ht[i]
    BY <1>3
  <2>2. \A i \in 1..Len(s) : held[i] = hs[i]
    BY <1>3
  <2>3. held[Len(s) + 1] = hs[Len(s) + 1]
    BY <1>1, <1>2, <1>3, <2>1 DEF Books
  <2>4. ASSUME NEW i \in 1..Len(s)
        PROVE  held[i + 1] = hs[i + 1]
    <3>1. i = Len(s) \/ i + 1 \in 1..Len(s)
      BY <1>3
    <3> HIDE DEF held
    <3> QED
      BY <2>2, <2>3, <3>1
  <2> QED
    BY <2>1, <2>2, <2>4
<1> HIDE DEF held
<1>6. held[1] = a /\ held[Len(u) + 1] = b
  <2>1. held[Len(s) + (Len(t) + 1)] = b
    BY <1>2, <1>3, <1>5 DEF Books
  <2>2. held[Len(s) + 1] = m
    BY <1>2, <1>3, <1>5 DEF Books
  <2>3. Len(s) > 0 => held[1] = a
    BY <1>1, <1>3, <1>5 DEF Books
  <2>4. Len(s) = 0 => a = m
    BY <1>1 DEF Books
  <2> QED
    BY <1>3, <2>1, <2>2, <2>3, <2>4 DEF u
<1>7. ASSUME NEW i \in 1..Len(u)
      PROVE  Lends(u[i], held[i], held[i + 1])
  <2>1. CASE i <= Len(s)
    <3>1. i \in 1..Len(s) /\ u[i] = s[i]
      BY <1>3, <2>1 DEF u
    <3> QED
      BY <1>1, <1>5, <3>1 DEF Books
  <2>2. CASE ~(i <= Len(s))
    <3> DEFINE j == i - Len(s)
    <3>1. j \in 1..Len(t) /\ i = Len(s) + j /\ i + 1 = Len(s) + (j + 1)
      BY <1>3, <2>2 DEF u
    <3>2. u[i] = t[j]
      BY <1>3, <3>1 DEF u
    <3>3. held[i] = ht[j] /\ held[i + 1] = ht[j + 1]
      BY <1>3, <1>5, <3>1
    <3>4. Lends(t[j], ht[j], ht[j + 1])
      BY <1>2, <3>1 DEF Books
    <3> QED
      BY <3>2, <3>3, <3>4
  <2> QED
    BY <2>1, <2>2
<1>8. Books(u, held, a, b)
  BY <1>3, <1>4, <1>6, <1>7 DEF Books, u
<1> QED
  BY <1>3, <1>8 DEF Leads, u

\* After one operation the rest pays back what is held then.
LEMMA RepaysTail ==
  ASSUME NEW p \in Seq(Op), p # <<>>, NEW k, Repays(p, k)
  PROVE  \E k2 \in 0..2 :
           /\ Lends(p[1], k, k2)
           /\ p[1][1] \notin {"fail", "fetch"} => Repays(Tail(p), k2)
<1>1. PICK b \in 0..2 :
        /\ Leads(p, k, b)
        /\ (Len(p) > 0 => p[Len(p)][1] \notin {"fail", "fetch"}) => b = 0
  BY DEF Repays
<1>2. PICK held : Books(p, held, k, b)
  BY <1>1 DEF Leads
<1> DEFINE q == Tail(p)
           rest == [i \in 1..(Len(q) + 1) |-> held[i + 1]]
<1>3. /\ q \in Seq(Op) /\ Len(p) \in Nat /\ Len(q) \in Nat /\ Len(p) = Len(q) + 1
      /\ \A i \in 1..Len(q) : q[i] = p[i + 1]
  OBVIOUS
<1> HIDE DEF q
<1>4. /\ Lends(p[1], k, held[2]) /\ held[2] \in 0..2
  BY <1>2, <1>3 DEF Books
<1>5. Books(q, rest, held[2], b)
  <2>1. rest \in [1..(Len(q) + 1) -> 0..2]
    BY <1>2, <1>3 DEF Books
  <2>2. rest[1] = held[2] /\ rest[Len(q) + 1] = b
    BY <1>2, <1>3 DEF Books
  <2>3. ASSUME NEW i \in 1..Len(q)
        PROVE  Lends(q[i], rest[i], rest[i + 1])
    <3>1. Lends(p[i + 1], held[i + 1], held[(i + 1) + 1])
      BY <1>2, <1>3 DEF Books
    <3>2. q[i] = p[i + 1] /\ rest[i] = held[i + 1] /\ rest[i + 1] = held[(i + 1) + 1]
      BY <1>3
    <3> QED
      BY <3>1, <3>2
  <2> QED
    BY <2>1, <2>2, <2>3 DEF Books
<1>6. ASSUME p[1][1] \notin {"fail", "fetch"},
             Len(q) > 0 => q[Len(q)][1] \notin {"fail", "fetch"}
      PROVE  b = 0
  <2>1. Len(q) > 0 => q[Len(q)] = p[Len(p)]
    BY <1>3
  <2>2. Len(q) = 0 => p[Len(p)] = p[1]
    BY <1>3
  <2> QED
    BY <1>1, <1>3, <1>6, <2>1, <2>2
<1>7. p[1][1] \notin {"fail", "fetch"} => Repays(q, held[2])
  BY <1>5, <1>6 DEF Repays, Leads
<1> QED
  BY <1>4, <1>7 DEF q

LEMMA RepaysNothing == \A k : Repays(<<>>, k) <=> k = 0
<1>1. Len(<<>>) = 0
  OBVIOUS
<1>2. ASSUME NEW k, Repays(<<>>, k)
      PROVE  k = 0
  BY <1>1, <1>2 DEF Repays, Leads, Books
<1>3. Books(<<>>, [i \in 1..1 |-> 0], 0, 0)
  BY <1>1 DEF Books
<1>4. Repays(<<>>, 0)
  BY <1>3 DEF Repays, Leads
<1> QED
  BY <1>2, <1>4

(***************************************************************************)
(* What each handler takes and gives back.                                 *)
(***************************************************************************)
LEMMA DropGameLeads ==
  ASSUME NEW c \in Client, game[c] \in Client
  PROVE  DropGame(c) \in Seq(Op) /\ Leads(DropGame(c), 0, 0)
<1>1. CASE game[c] = c
  <2>1. DropGame(c) = <<Try, Give, Take, Give>>
    BY <1>1 DEF DropGame
  <2>2. Books(<<Try, Give, Take, Give>>, <<0, 1, 0, 1, 0>>, 0, 0)
    BY DEF Books, Lends, Try, Give, Take
  <2>3. <<Try, Give, Take, Give>> \in Seq(Op)
    BY DEF Op, Kind, Try, Give, Take
  <2> QED
    BY <2>1, <2>2, <2>3 DEF Leads
<1>2. CASE game[c] # c
  <2>1. DropGame(c) = <<W(game[c]), Release>>
    BY <1>2 DEF DropGame
  <2>2. Books(<<W(game[c]), Release>>, <<0, 0, 0>>, 0, 0)
    BY DEF Books, Lends, W, Release
  <2>3. <<W(game[c]), Release>> \in Seq(Op)
    BY DEF Op, Kind, W, Release
  <2> QED
    BY <2>1, <2>2, <2>3 DEF Leads
<1> QED
  BY <1>1, <1>2

\* Operations that have nothing to do with the pool.
LEMMA NothingLent ==
  ASSUME NEW p \in Seq(Op),
         \A i \in 1..Len(p) :
           p[i][1] \notin {"take", "try", "give", "fetch", "register"}
  PROVE  Leads(p, 0, 0)
<1>1. Books(p, [i \in 1..(Len(p) + 1) |-> 0], 0, 0)
  BY DEF Books, Lends
<1> QED
  BY <1>1 DEF Leads

LEMMA LeadsRepays ==
  ASSUME NEW p, NEW k, Leads(p, k, 0)
  PROVE  Repays(p, k)
BY DEF Repays

LEMMA LeaveRepays ==
  ASSUME NEW c \in Client, game[c] \in Client
  PROVE  Repays(Leave(c), 0) /\ Repays(StartRefused(c), 0) /\ Repays(Notice(c), 0)
<1> DEFINE first == <<W(c), Set(None)>>
           looks == <<R(c), Release>>
<1>1. DropGame(c) \in Seq(Op) /\ Leads(DropGame(c), 0, 0)
  BY DropGameLeads
<1>2. first \in Seq(Op) /\ Leads(first, 0, 0)
  <2>1. first \in Seq(Op)
    BY DEF Op, Kind, W, Set
  <2>2. \A i \in 1..Len(first) :
          first[i][1] \notin {"take", "try", "give", "fetch", "register"}
    BY DEF W, Set
  <2> HIDE DEF first
  <2> QED
    BY <2>1, <2>2, NothingLent
<1>3. looks \in Seq(Op) /\ Leads(looks, 0, 0)
  <2>1. looks \in Seq(Op)
    BY DEF Op, Kind, R, Release
  <2>2. \A i \in 1..Len(looks) :
          looks[i][1] \notin {"take", "try", "give", "fetch", "register"}
    BY DEF R, Release
  <2> HIDE DEF looks
  <2> QED
    BY <2>1, <2>2, NothingLent
<1>4. /\ <<Release>> \in Seq(Op) /\ Leads(<<Release>>, 0, 0)
      /\ <<Fail>> \in Seq(Op) /\ Leads(<<Fail>>, 0, 0)
  <2>1. <<Release>> \in Seq(Op) /\ <<Fail>> \in Seq(Op)
    BY DEF Op, Kind, Release, Fail
  <2>2. /\ Books(<<Release>>, <<0, 0>>, 0, 0)
        /\ Books(<<Fail>>, <<0, 0>>, 0, 0)
    BY DEF Books, Lends, Release, Fail
  <2> QED
    BY <2>1, <2>2 DEF Leads
<1> HIDE DEF first, looks
<1>5. first \o DropGame(c) \in Seq(Op) /\ Leads(first \o DropGame(c), 0, 0)
  BY <1>1, <1>2, LeadsOn
<1>6. Leads(first \o DropGame(c) \o <<Release>>, 0, 0)
  BY <1>4, <1>5, LeadsOn
<1>7. Leads(first \o DropGame(c) \o <<Fail>>, 0, 0)
  BY <1>4, <1>5, LeadsOn
<1>8. Leads(looks \o DropGame(c), 0, 0)
  BY <1>1, <1>3, LeadsOn
<1>9. /\ Leave(c) = first \o DropGame(c) \o <<Release>>
      /\ StartRefused(c) = first \o DropGame(c) \o <<Fail>>
      /\ Notice(c) = looks \o DropGame(c)
  BY DEF Leave, StartRefused, Notice, first, looks
<1> QED
  BY <1>6, <1>7, <1>8, <1>9, LeadsRepays

LEMMA CloseRepays ==
  ASSUME NEW c \in Client, game[c] \in Client \cup {None}
  PROVE  Repays(Close(c), 0)
<1> DEFINE drops == IF game[c] = None THEN <<>> ELSE <<Set(None)>> \o DropGame(c)
           last == <<Release, R(c), Try, Give, Release, W(c), Release>>
<1>1. <<W(c)>> \in Seq(Op) /\ Leads(<<W(c)>>, 0, 0)
  <2>1. Books(<<W(c)>>, <<0, 0>>, 0, 0)
    BY DEF Books, Lends, W
  <2> QED
    BY <2>1 DEF Leads, W, Op, Kind
<1>2. drops \in Seq(Op) /\ Leads(drops, 0, 0)
  <2>1. CASE game[c] = None
    <3>1. drops = <<>> /\ <<>> \in Seq(Op) /\ Len(<<>>) = 0
      BY <2>1
    <3>2. Books(<<>>, [i \in 1..1 |-> 0], 0, 0)
      BY <3>1 DEF Books
    <3> QED
      BY <3>1, <3>2 DEF Leads
  <2>2. CASE game[c] # None
    <3>1. <<Set(None)>> \in Seq(Op) /\ Books(<<Set(None)>>, <<0, 0>>, 0, 0)
      BY DEF Books, Lends, Set, Op, Kind
    <3>2. drops = <<Set(None)>> \o DropGame(c)
      BY <2>2
    <3>3. DropGame(c) \in Seq(Op) /\ Leads(DropGame(c), 0, 0)
      BY <2>2, DropGameLeads
    <3>4. Leads(<<Set(None)>>, 0, 0)
      BY <3>1 DEF Leads
    <3> HIDE DEF drops
    <3> QED
      BY <3>1, <3>2, <3>3, <3>4, LeadsOn
  <2> QED
    BY <2>1, <2>2
<1>3. last \in Seq(Op) /\ Leads(last, 0, 0)
  <2>1. last \in Seq(Op)
    BY DEF Op, Kind, Release, R, Try, Give, W
  <2>2. Books(last, <<0, 0, 0, 1, 0, 0, 0, 0>>, 0, 0)
    BY DEF Books, Lends, Release, R, Try, Give, W
  <2> HIDE DEF last
  <2> QED
    BY <2>1, <2>2 DEF Leads
<1> HIDE DEF drops, last
<1>4. <<W(c)>> \o drops \in Seq(Op) /\ Leads(<<W(c)>> \o drops, 0, 0)
  BY <1>1, <1>2, LeadsOn
<1>5. Leads(<<W(c)>> \o drops \o last, 0, 0)
  BY <1>3, <1>4, LeadsOn
<1>6. Close(c) = <<W(c)>> \o drops \o last
  BY DEF Close, drops, last
<1> QED
  BY <1>5, <1>6, LeadsRepays

LEMMA RequestRepays ==
  ASSUME NEW c \in Client, game[c] \in Client \cup {None}, NEW p \in Requests(c)
  PROVE  Repays(p, 0)
<1>1. Repays(Alone(c), 0)
  <2>1. Books(Alone(c), <<0, 0, 0>>, 0, 0)
    BY DEF Books, Lends, Alone, W, Release
  <2> QED
    BY <2>1, LeadsRepays DEF Leads
<1>2. Repays(Ping(c), 0)
  <2>1. Books(Ping(c), <<0, 0, 0>>, 0, 0)
    BY DEF Books, Lends, Ping, R, Release
  <2> QED
    BY <2>1, LeadsRepays DEF Leads
<1>3. Repays(Create(c), 0)
  <2>1. Books(Create(c), <<0, 1, 1, 1, 0>>, 0, 0)
    BY DEF Books, Lends, Create, Take, R, Release, Give
  <2> QED
    BY <2>1, LeadsRepays DEF Leads
<1>4. ASSUME NEW h
      PROVE  Repays(Exists(c, h), 0)
  <2>1. Books(Exists(c, h), <<0, 1, 1, 1, 1, 1, 0>>, 0, 0)
    BY DEF Books, Lends, Exists, Take, R, Release, Give
  <2> QED
    BY <2>1, LeadsRepays DEF Leads
<1>5. Repays(Join(c), 0)
  <2>1. Books(Join(c), <<0, 0, 1, 1>>, 0, 1)
    BY DEF Books, Lends, Join, R, Take
  <2>2. Len(Join(c)) = 3 /\ Join(c)[3][1] = "fetch"
    BY DEF Join
  <2> QED
    BY <2>1, <2>2 DEF Repays, Leads
<1>6. ASSUME NEW q \in NotInGame(c)
      PROVE  Repays(q, 0)
  <2>1. /\ Books(<<W(c), Fail>>, <<0, 0, 0>>, 0, 0)
        /\ Books(<<R(c), Fail>>, <<0, 0, 0>>, 0, 0)
    BY DEF Books, Lends, W, R, Fail
  <2>2. Leads(q, 0, 0)
    BY <2>1 DEF NotInGame, Leads
  <2> QED
    BY <2>2, LeadsRepays
<1>7. Repays(Task(c), 0) /\ Repays(TaskRefused(c), 0)
  <2>1. Books(Task(c), <<0, 0, 0, 0, 0>>, 0, 0)
    BY DEF Books, Lends, Task, R, Release
  <2>2. Books(TaskRefused(c), <<0, 0, 0, 0>>, 0, 0)
    BY DEF Books, Lends, TaskRefused, R, Fail
  <2> QED
    BY <2>1, <2>2, LeadsRepays DEF Leads
<1>8. Repays(Compile(c), 0)
  <2>1. Books(Compile(c), <<0, 0, 0, 0, 0, 0, 0, 0, 0, 0, 0>>, 0, 0)
    BY DEF Books, Lends, Compile, R, W, Release
  <2> QED
    BY <2>1, LeadsRepays DEF Leads
<1>9. Repays(CompileRefused(c), 0)
  <2>1. Books(CompileRefused(c), <<0, 0, 0, 0, 0, 0, 0>>, 0, 0)
    BY DEF Books, Lends, CompileRefused, R, W, Release, Fail
  <2> QED
    BY <2>1, LeadsRepays DEF Leads
<1>10. game[c] # None => Repays(Leave(c), 0) /\ Repays(StartRefused(c), 0)
  BY LeaveRepays
<1> QED
  BY <1>1, <1>2, <1>3, <1>4, <1>5, <1>6, <1>7, <1>8, <1>9, <1>10, Zenon DEF Requests

\* A Join has a connection when it reads the key, and still when it asks the
\* host.
LEMMA JoinRepays ==
  ASSUME NEW c \in Client
  PROVE  /\ Repays(JoinAsHost(c), 1) /\ Repays(JoinElsewhere(c), 1)
         /\ \A h \in Client : Repays(JoinHere(c, h), 1)
         /\ Repays(<<Release, W(c), Release, Give>>, 1)
<1>1. Repays(JoinAsHost(c), 1)
  <2>1. Books(JoinAsHost(c), <<1, 1, 1, 1, 1, 0>>, 1, 0)
    BY DEF Books, Lends, JoinAsHost, Release, W, Set, Give
  <2> QED
    BY <2>1, LeadsRepays DEF Leads
<1>2. Repays(JoinElsewhere(c), 1)
  <2>1. Books(JoinElsewhere(c), <<1, 1, 2, 2, 2>>, 1, 2)
    BY DEF Books, Lends, JoinElsewhere, Release, Take, R, Fail
  <2>2. Len(JoinElsewhere(c)) = 4 /\ JoinElsewhere(c)[4][1] = "fail"
    BY DEF JoinElsewhere, Fail
  <2> QED
    BY <2>1, <2>2 DEF Repays, Leads
<1>3. ASSUME NEW h \in Client
      PROVE  Repays(JoinHere(c, h), 1)
  <2>1. Books(JoinHere(c, h), <<1, 1, 1, 1, 1, 1, 1, 1, 0>>, 1, 0)
    BY DEF Books, Lends, JoinHere, Release, W, Set, Give
  <2> QED
    BY <2>1, LeadsRepays DEF Leads
<1>4. Repays(<<Release, W(c), Release, Give>>, 1)
  <2>1. Books(<<Release, W(c), Release, Give>>, <<1, 1, 1, 1, 0>>, 1, 0)
    BY DEF Books, Lends, Release, W, Give
  <2> QED
    BY <2>1, LeadsRepays DEF Leads
<1> QED
  BY <1>1, <1>2, <1>3, <1>4

(***************************************************************************)
(* What a step keeps of that.                                              *)
(***************************************************************************)
\* The connections of the others are theirs.
LEMMA KeepsSolvent ==
  ASSUME GPInv, NEW c \in Client, Solvent(c)',
         \A x \in Client \ {c} : prog'[x] = prog[x] /\ conns'[x] = conns[x],
         conns'[c] \subseteq conns[c]
  PROVE  LentOnce' /\ \A x \in Client : Solvent(x)'
<1>1. LentOnce'
  BY DEF GPInv, LentOnce
<1>2. ASSUME NEW x \in Client \ {c}
      PROVE  Solvent(x)'
  BY <1>2 DEF GPInv, Solvent, Lent
<1> QED
  BY <1>1, <1>2

\* What the next operation of a handler does to what it holds.
LEMMA LendsFirst ==
  ASSUME GPInv, NEW c \in Client, prog[c] \in Seq(Op), prog[c] # <<>>
  PROVE  \E k, k2 \in 0..2 :
           /\ Lent(c, k) /\ Lends(prog[c][1], k, k2)
           /\ prog[c][1][1] \notin {"fail", "fetch"} => Repays(Tail(prog[c]), k2)
<1>1. PICK k \in 0..2 : Repays(prog[c], k) /\ Lent(c, k)
  BY DEF GPInv, Solvent
<1> QED
  BY <1>1, RepaysTail

\* An operation that neither takes a connection nor gives one back.
LEMMA OtherwiseSolvent ==
  ASSUME GPInv, NEW c \in Client,
         prog[c] \in Seq(Op), prog[c] # <<>>,
         prog[c][1][1] \notin {"take", "try", "give", "fail", "fetch"},
         prog'[c] = Tail(prog[c]), \A x \in Client \ {c} : prog'[x] = prog[x],
         UNCHANGED conns
  PROVE  LentOnce' /\ \A x \in Client : Solvent(x)'
<1>1. PICK k, k2 \in 0..2 :
        Lent(c, k) /\ Lends(prog[c][1], k, k2) /\ Repays(Tail(prog[c]), k2)
  BY LendsFirst
<1>2. k2 = k
  BY <1>1 DEF Lends
<1>3. Solvent(c)'
  BY <1>1, <1>2 DEF Solvent, Lent
<1> QED
  BY <1>3, KeepsSolvent

LEMMA AdvanceSolvent ==
  ASSUME GPInv, NEW c \in Client,
         NEW k \in Kind \ {"take", "try", "give", "fail", "fetch"}, Waiting(c, k),
         Advance(c), UNCHANGED conns
  PROVE  LentOnce' /\ \A x \in Client : Solvent(x)'
<1>1. prog[c] \in Seq(Op) /\ prog[c] # <<>> /\ prog[c][1][1] = k
  BY OnItsThread DEF GPInv
<1>2. prog'[c] = Tail(prog[c]) /\ \A x \in Client \ {c} : prog'[x] = prog[x]
  BY DEF Advance, Continue, GPInv, GIInv, GTypeOK
<1> QED
  BY <1>1, <1>2, OtherwiseSolvent

\* A connection that is free goes to one handler, which has none, or has one
\* and does not give that one back.
LEMMA ConnectSolvent ==
  ASSUME GPInv, NEW c \in Client, Connect(c)
  PROVE  LentOnce' /\ \A x \in Client : Solvent(x)'
<1>1. prog[c] \in Seq(Op) /\ prog[c] # <<>> /\ prog[c][1][1] \in {"take", "try"}
  BY OnItsThread DEF GPInv, Connect, Kind
<1>2. PICK a \in Free : conns' = [conns EXCEPT ![c] = @ \cup {a}]
  BY DEF Connect
<1>3. /\ conns'[c] = conns[c] \cup {a} /\ \A x \in Client \ {c} : conns'[x] = conns[x]
      /\ prog'[c] = Tail(prog[c]) /\ \A x \in Client \ {c} : prog'[x] = prog[x]
  BY <1>2 DEF Connect, Advance, Continue, GPInv, GIInv, GTypeOK
<1>4. LentOnce'
  <2>1. \A x \in Client : a \notin conns[x]
    BY DEF Free
  <2> QED
    BY <1>3, <2>1 DEF GPInv, LentOnce
<1>5. PICK k, k2 \in 0..2 :
        Lent(c, k) /\ Lends(prog[c][1], k, k2) /\ Repays(Tail(prog[c]), k2)
  BY <1>1, LendsFirst
<1>6. k2 = k + 1
  BY <1>1, <1>5 DEF Lends
<1>7. Lent(c, k2)'
  <2>1. a \in Connection
    BY DEF Free
  <2> QED
    BY <1>3, <1>5, <1>6, <2>1 DEF Lent
<1>8. Solvent(c)'
  BY <1>3, <1>5, <1>7 DEF Solvent
<1>9. ASSUME NEW x \in Client \ {c}
      PROVE  Solvent(x)'
  BY <1>3, <1>9 DEF GPInv, Solvent, Lent
<1> QED
  BY <1>4, <1>8, <1>9

LEMMA ReturnSolvent ==
  ASSUME GPInv, NEW c \in Client, Return(c)
  PROVE  LentOnce' /\ \A x \in Client : Solvent(x)'
<1>1. prog[c] \in Seq(Op) /\ prog[c] # <<>> /\ prog[c][1][1] = "give"
  BY OnItsThread DEF GPInv, Return, Kind
<1>2. /\ conns'[c] = {} /\ \A x \in Client \ {c} : conns'[x] = conns[x]
      /\ prog'[c] = Tail(prog[c]) /\ \A x \in Client \ {c} : prog'[x] = prog[x]
  BY DEF Return, Advance, Continue, GPInv, GIInv, GTypeOK
<1>3. PICK k, k2 \in 0..2 :
        Lent(c, k) /\ Lends(prog[c][1], k, k2) /\ Repays(Tail(prog[c]), k2)
  BY <1>1, LendsFirst
<1>4. k2 = 0
  BY <1>1, <1>3 DEF Lends
<1>5. Solvent(c)'
  BY <1>2, <1>3, <1>4 DEF Solvent, Lent
<1> QED
  BY <1>2, <1>5, KeepsSolvent

\* Whoever fails, panics or times out holds nothing any more.
LEMMA UnwindSolvent ==
  ASSUME GPInv, NEW c \in Client, NEW rest, Unwind(c, rest), Repays(rest, 0)
  PROVE  LentOnce' /\ \A x \in Client : Solvent(x)'
<1>1. /\ conns'[c] = {} /\ prog'[c] = rest
      /\ \A x \in Client \ {c} : prog'[x] = prog[x] /\ conns'[x] = conns[x]
  BY DEF Unwind, GPInv, GIInv, GTypeOK
<1>2. Solvent(c)'
  BY <1>1 DEF Solvent, Lent
<1> QED
  BY <1>1, <1>2, KeepsSolvent

LEMMA PanicSolvent ==
  ASSUME GPInv, NEW c \in Client, Panic(c)
  PROVE  LentOnce' /\ \A x \in Client : Solvent(x)'
BY UnwindSolvent, RepaysNothing DEF Panic

LEMMA TimesOutSolvent ==
  ASSUME GPInv, NEW c \in Client, TimesOut(c)
  PROVE  LentOnce' /\ \A x \in Client : Solvent(x)'
<1>1. PICK E \in SUBSET Client : Follows(c, E)
  BY DEF GPInv, GIInv, Ordered
<1>2. game[c] \in Client
  <2>1. prog[c] \in Seq(Op) /\ prog[c] # <<>> /\ Runs(prog[c][1])
    BY DEF TimesOut, Ready, Awaiting, GPInv, GIInv, GTypeOK, OnThread, Runs
  <2>2. 1 \in DOMAIN prog[c]
    BY <2>1
  <2> QED
    BY <1>1, <2>1, <2>2 DEF Follows, GPInv, GIInv, GTypeOK
<1>3. Repays(Notice(c), 0)
  BY <1>2, LeaveRepays
<1> QED
  BY <1>3, UnwindSolvent DEF TimesOut

\* Whoever goes on without a connection skips what would give it back.
LEMMA NoConnectionSolvent ==
  ASSUME GPInv, NEW c \in Client, NoConnection(c)
  PROVE  LentOnce' /\ \A x \in Client : Solvent(x)'
<1>1. CASE Panic(c)
  BY <1>1, PanicSolvent
<1>2. CASE /\ Waiting(c, "try") /\ Continue(c, Tail(Tail(prog[c])))
           /\ UNCHANGED <<game, guards, writer, conns>>
  <2> DEFINE p == prog[c]
             q == Tail(prog[c])
  <2>1. p \in Seq(Op) /\ p # <<>> /\ p[1][1] = "try" /\ q \in Seq(Op)
    BY <1>2, OnItsThread DEF Kind, GPInv
  <2>2. PICK E \in SUBSET Client : Follows(c, E)
    BY DEF GPInv, GIInv, Ordered
  <2>3. PICK o, n \in Client \cup {None} : Fits(c, E, p, o, n)
    BY <2>2 DEF Follows
  <2>4. PICK o2, n2 \in Client \cup {None} : Legal(c, E, p, 1, o, n, o2, n2)
    BY <2>1, <2>3, FitsTail
  <2>5. 1 < Len(p) /\ p[2][1] = "give"
    BY <2>1, <2>4 DEF Legal, Nests
  <2>6. q # <<>> /\ q[1][1] = "give"
    BY <2>1, <2>5, TailOf
  <2>7. PICK k, k2 \in 0..2 :
          Lent(c, k) /\ Lends(p[1], k, k2) /\ Repays(q, k2)
    BY <2>1, LendsFirst
  <2>8. PICK k3 \in 0..2 : Lends(q[1], k2, k3) /\ Repays(Tail(q), k3)
    BY <2>1, <2>6, <2>7, RepaysTail
  <2>9. k = 0 /\ k3 = 0
    BY <2>1, <2>6, <2>7, <2>8 DEF Lends
  <2>10. prog'[c] = Tail(q) /\ \A x \in Client \ {c} : prog'[x] = prog[x]
    BY <1>2 DEF Continue, GPInv, GIInv, GTypeOK
  <2>11. Solvent(c)'
    BY <1>2, <2>7, <2>8, <2>9, <2>10 DEF Solvent, Lent
  <2> QED
    BY <1>2, <2>10, <2>11, KeepsSolvent
<1> QED
  BY <1>1, <1>2 DEF NoConnection

\* A Join goes on with the connection that it read the key with.
LEMMA JoinGoesOnSolvent ==
  ASSUME GPInv, NEW c \in Client, NEW k \in {"fetch", "register"}, Waiting(c, k),
         NEW rest, Continue(c, rest), UNCHANGED conns, Repays(rest, 1)
  PROVE  LentOnce' /\ \A x \in Client : Solvent(x)'
<1>1. prog[c] \in Seq(Op) /\ prog[c] # <<>> /\ prog[c][1][1] = k
  BY OnItsThread DEF GPInv, Kind
<1>2. PICK n, n2 \in 0..2 : Lent(c, n) /\ Lends(prog[c][1], n, n2)
  BY <1>1, LendsFirst
<1>3. Lent(c, 1)
  BY <1>1, <1>2 DEF Lends
<1>4. prog'[c] = rest /\ \A x \in Client \ {c} : prog'[x] = prog[x]
  BY DEF Continue, GPInv, GIInv, GTypeOK
<1>5. Solvent(c)'
  BY <1>3, <1>4 DEF Solvent, Lent
<1> QED
  BY <1>4, <1>5, KeepsSolvent

LEMMA FetchSolvent ==
  ASSUME GPInv, NEW c \in Client, Fetch(c)
  PROVE  LentOnce' /\ \A x \in Client : Solvent(x)'
<1>1. CASE Panic(c)
  BY <1>1, PanicSolvent
<1>2. CASE /\ \/ Continue(c, JoinAsHost(c)) \/ Continue(c, JoinElsewhere(c))
              \/ \E h \in Client : Continue(c, JoinHere(c, h))
           /\ UNCHANGED <<game, guards, writer, conns>>
  BY <1>2, JoinRepays, JoinGoesOnSolvent DEF Fetch
<1> QED
  BY <1>1, <1>2 DEF Fetch

LEMMA RegisterSolvent ==
  ASSUME GPInv, NEW c \in Client, Register(c)
  PROVE  LentOnce' /\ \A x \in Client : Solvent(x)'
<1> DEFINE away == <<Release, W(c), Release, Give>>
<1>1. CASE Panic(c)
  BY <1>1, PanicSolvent
<1>2. CASE Advance(c) /\ UNCHANGED <<game, guards, writer, conns>>
  BY <1>2, AdvanceSolvent DEF Register, Kind
<1>3. CASE Continue(c, away) /\ UNCHANGED <<game, guards, writer, conns>>
  <2>1. Repays(away, 1)
    BY JoinRepays
  <2> HIDE DEF away
  <2> QED
    BY <1>3, <2>1, JoinGoesOnSolvent DEF Register
<1> QED
  BY <1>1, <1>2, <1>3 DEF Register

\* A handler that begins holds no connection, as the last one has left none.
LEMMA BeginSolvent ==
  ASSUME GPInv, NEW c \in Client, Begin(c)
  PROVE  LentOnce' /\ \A x \in Client : Solvent(x)'
<1>1. PICK p \in Requests(c) \cup {Close(c)} : prog' = [prog EXCEPT ![c] = p]
  BY DEF Begin
<1>2. prog'[c] = p /\ (\A x \in Client \ {c} : prog'[x] = prog[x]) /\ UNCHANGED conns
  BY <1>1 DEF Begin, GPInv, GIInv, GTypeOK
<1>3. Repays(p, 0)
  <2>1. game[c] \in Client \cup {None}
    BY DEF GPInv, GIInv, GTypeOK
  <2> QED
    BY <2>1, RequestRepays, CloseRepays
<1>4. Lent(c, 0)
  BY RepaysNothing DEF Begin, GPInv, Solvent
<1>5. Solvent(c)'
  BY <1>2, <1>3, <1>4 DEF Solvent, Lent
<1> QED
  BY <1>2, <1>5, KeepsSolvent

LEMMA InPlaceSolvent ==
  ASSUME GPInv, UNCHANGED <<prog, conns>>
  PROVE  LentOnce' /\ \A x \in Client : Solvent(x)'
BY DEF GPInv, LentOnce, Solvent, Lent

LEMMA SandboxAnswersSolvent ==
  ASSUME GPInv, NEW c \in Client, SandboxAnswers(c)
  PROVE  LentOnce' /\ \A x \in Client : Solvent(x)'
<1>1. /\ prog[c] \in Seq(Op) /\ prog[c] # <<>> /\ prog[c][1][1] \in {"run", "judge"}
      /\ prog'[c] = Tail(prog[c]) /\ (\A x \in Client \ {c} : prog'[x] = prog[x])
      /\ UNCHANGED conns
  BY DEF SandboxAnswers, Ready, Awaiting, GPInv, GIInv, GTypeOK, OnThread
<1> QED
  BY <1>1, OtherwiseSolvent

LEMMA NextSolvent == GPInv /\ [GNext]_gvars => GPInv'
<1> SUFFICES ASSUME GPInv, [GNext]_gvars
             PROVE  LentOnce' /\ \A x \in Client : Solvent(x)'
  BY NextKeeps DEF GPInv
<1>1. CASE UNCHANGED gvars
  BY <1>1, InPlaceSolvent DEF gvars
<1>2. ASSUME NEW c \in Client, Begin(c) \/ Disconnect(c) \/ SandboxAnswers(c)
      PROVE  LentOnce' /\ \A x \in Client : Solvent(x)'
  BY <1>2, BeginSolvent, SandboxAnswersSolvent, InPlaceSolvent DEF Disconnect
<1>3. ASSUME NEW c \in Client,
             \/ ReadLock(c) \/ WriteLock(c) \/ Unlock(c) \/ SetGame(c) \/ NoSecondRun(c)
             \/ WriteClaim(c) \/ Await(c) \/ Fails(c)
      PROVE  LentOnce' /\ \A x \in Client : Solvent(x)'
  <2>1. CASE ReadLock(c) \/ WriteLock(c) \/ Unlock(c) \/ SetGame(c) \/ NoSecondRun(c)
    BY <2>1, AdvanceSolvent
    DEF ReadLock, WriteLock, Unlock, SetGame, NoSecondRun, Kind
  <2>2. CASE WriteClaim(c) \/ Await(c)
    BY <2>2, InPlaceSolvent DEF WriteClaim, Await
  <2>3. CASE Fails(c)
    BY <2>3, PanicSolvent DEF Fails
  <2> QED
    BY <1>3, <2>1, <2>2, <2>3
<1>4. ASSUME NEW c \in Client, GoesOn(c)
      PROVE  LentOnce' /\ \A x \in Client : Solvent(x)'
  BY <1>3, <1>4, ConnectSolvent, ReturnSolvent, NoConnectionSolvent, FetchSolvent,
     RegisterSolvent, TimesOutSolvent
  DEF GoesOn
<1> QED
  BY <1>1, <1>2, <1>4 DEF GNext

\* No connection of the pool is lost, and none lent twice, however handlers
\* end: answered, refused, failed, panicked or timed out, and however many
\* wait for the pool; and whoever gives one back holds just that one.
THEOREM PoolAlwaysWhole == GSpec => []PoolWhole
<1>1. GInit => GPInv
  <2> SUFFICES ASSUME GInit PROVE GPInv
    OBVIOUS
  <2>1. \A c \in Client : conns[c] = {} /\ prog[c] = <<>>
    BY DEF GInit
  <2>2. LentOnce /\ \A c \in Client : Solvent(c)
    BY <2>1, RepaysNothing DEF LentOnce, Solvent, Lent
  <2> QED
    BY <2>2, InitHolds DEF GPInv
<1>2. GPInv => PoolWhole
  <2> SUFFICES ASSUME GPInv, NEW c \in Client
               PROVE  /\ c \notin Busy => conns[c] = {}
                      /\ Waiting(c, "give") => Cardinality(conns[c]) = 1
                      /\ \A d \in Client \ {c} : conns[c] \cap conns[d] = {}
    BY DEF PoolWhole
  <2>1. c \notin Busy => conns[c] = {}
    BY RepaysNothing DEF Busy, GPInv, Solvent, Lent
  <2>2. ASSUME Waiting(c, "give")
        PROVE  Cardinality(conns[c]) = 1
    <3>1. prog[c] \in Seq(Op) /\ prog[c] # <<>> /\ prog[c][1][1] = "give"
      BY <2>2, OnItsThread DEF GPInv, Kind
    <3>2. PICK k, k2 \in 0..2 : Lent(c, k) /\ Lends(prog[c][1], k, k2)
      BY <3>1, LendsFirst
    <3>3. PICK a \in Connection : conns[c] = {a}
      BY <3>1, <3>2 DEF Lends, Lent
    <3> QED
      BY <3>3, FS_Singleton
  <2> QED
    BY <2>1, <2>2 DEF GPInv, LentOnce
<1> QED
  BY <1>1, <1>2, NextSolvent, PTL DEF GSpec
=============================================================================
