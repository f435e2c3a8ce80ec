------------------------------ MODULE MCGuards ------------------------------
(***************************************************************************)
(* Instances of Guards for TLC.                                            *)
(***************************************************************************)
EXTENDS Guards, TLC

\* Every entry is in a shard of its own.
OwnShards == [c \in Client |-> c]

\* One entry has a shard of its own, and all the others share one.
Loner == CHOOSE c \in Client : TRUE
TwoShards == [c \in Client |-> IF c = Loner THEN "one" ELSE "two"]

AlikeOnShard == Permutations(Client \ {Loner}) \cup Permutations(Connection)

Alike == Permutations(Client) \cup Permutations(Connection)
=============================================================================
