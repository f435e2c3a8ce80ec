----------------------------- MODULE MCCompile -----------------------------
(***************************************************************************)
(* Instances of Compile for TLC.                                           *)
(***************************************************************************)
EXTENDS Compile, TLC

\* One shard serves everybody: the requests that cross shards are those of
\* Lobby.
OneShard == [c \in Client |-> "shard"]

\* Every task has one public test and one private test.
OneTest == [t \in Task |-> 1]

\* What clients know of each other is written here, and read by no guard and,
\* but for its type, by no property: states that differ in it alone are one.
ButKnown ==
  <<pc, named, game, redis, minted, job, eviction,
    stage, work, clone, picked, progress, news>>

Alike == Permutations(Client) \cup Permutations(GameId) \cup Permutations(Task)
=============================================================================
