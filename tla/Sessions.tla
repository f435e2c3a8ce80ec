----------------------------- MODULE Sessions -----------------------------
(***************************************************************************)
(* What the lobby promises about games, without keys, guards or handlers:  *)
(* a client hosts at most one game, takes part in at most one, never both, *)
(* is let in only before the game starts, and a game that ends leaves no   *)
(* roster behind.                                                          *)
(***************************************************************************)
CONSTANT Client

VARIABLES
  phase,    \* of the game each client hosts
  members   \* the clients on the roster of that game

svars == <<phase, members>>

Init ==
  /\ phase = [h \in Client |-> "none"]
  /\ members = [h \in Client |-> {}]

\* c is in no game, neither as host nor as member.
Idle(c) == phase[c] = "none" /\ \A h \in Client : c \notin members[h]

Open(h) ==
  /\ Idle(h)
  /\ phase' = [phase EXCEPT ![h] = "open"]
  /\ UNCHANGED members

Admit(h, c) ==
  /\ phase[h] = "open"
  /\ Idle(c)
  /\ members' = [members EXCEPT ![h] = @ \cup {c}]
  /\ UNCHANGED phase

Withdraw(h, c) ==
  /\ c \in members[h]
  /\ members' = [members EXCEPT ![h] = @ \ {c}]
  /\ UNCHANGED phase

Begin(h) ==
  /\ phase[h] = "open"
  /\ phase' = [phase EXCEPT ![h] = "started"]
  /\ UNCHANGED members

End(h) ==
  /\ phase[h] # "none"
  /\ phase' = [phase EXCEPT ![h] = "none"]
  /\ members' = [members EXCEPT ![h] = {}]

Next ==
  \/ \E h \in Client : Open(h) \/ Begin(h) \/ End(h)
  \/ \E h, c \in Client : Admit(h, c) \/ Withdraw(h, c)

Spec == Init /\ [][Next]_svars
(***************************************************************************)
(* What follows for whatever implements it.                                *)
(***************************************************************************)
\* A client takes part in one game at most, in its own or in another's, and
\* where there is no game there is nobody on its roster.
OneGameEach ==
  /\ \A c, h \in Client : c \in members[h] => phase[h] # "none" /\ phase[c] = "none"
  /\ \A c, h, k \in Client : c \in members[h] \cap members[k] => h = k

\* Nobody gets into a game that has started: its roster only shrinks, until
\* it ends.
EntryBeforeStart ==
  \A h \in Client : phase[h] = "started" =>
    /\ phase'[h] \in {"started", "none"}
    /\ members'[h] \subseteq members[h]

NoLateEntry == [][EntryBeforeStart]_svars
=============================================================================
