------------------------------ MODULE MCLobby ------------------------------
(***************************************************************************)
(* Instances of Lobby for TLC: the shards its clients are connected to, and *)
(* the permutations of clients and games that leave them alike.             *)
(***************************************************************************)
EXTENDS Lobby, TLC

\* One shard serves everybody.
OneShard == [c \in Client |-> "shard"]

\* Two shards: one client is alone on its shard.
Loner == CHOOSE c \in Client : TRUE
TwoShards == [c \in Client |-> IF c = Loner THEN "other" ELSE "shard"]

\* Clients are interchangeable as long as one shard serves them all.
Alike == Permutations(Client) \cup Permutations(GameId)
AlikeOnShard == Permutations(Client \ {Loner}) \cup Permutations(GameId)
=============================================================================
