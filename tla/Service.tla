------------------------------ MODULE Service ------------------------------
(***************************************************************************)
(* A server process as a whole: Service::run (service.rs), which spawns the *)
(* listener and the reader of the redis subscription, the future Select     *)
(* (extended_select.rs) that waits for either to end, and what main does    *)
(* when it has.                                                            *)
(*                                                                         *)
(* The subscription blocks the worker thread it runs on, and so does a     *)
(* handler while it waits for a guard, for a connection to redis, or in a   *)
(* block_on (Guards says how long that may be); main has a thread of its    *)
(* own.  The third future of the Select, for critical errors, never ends:   *)
(* nobody uses the sender.                                                 *)
(***************************************************************************)
EXTENDS Naturals, FiniteSets

CONSTANTS
  Peer,      \* those who connect
  Workers    \* the worker threads of tokio, as many as there are cores

VARIABLES
  task,      \* where the listener and the subscriber are
  peer,      \* where each connection is
  main,      \* where the main thread is
  inner,     \* Select.inner is Some
  wakers,    \* the futures that have the waker of main
  woken      \* main has been woken since it last polled

svars == <<task, peer, main, inner, wakers, woken>>

Spawned == {"listener", "subscriber"}

\* Types, and that nothing is behind main in a poll without its waker.
STypeOK ==
  /\ task \in [Spawned -> {"absent", "new", "up", "over"}]
  /\ peer \in [Peer -> {"away", "backlog", "accepted", "served", "stuck"}]
  /\ main \in {"spawn", "subscribe",       \* in Service::run
               "a", "b", "c", "pending",   \* in, or waiting to be in, poll
               "returned", "exited"}
  /\ inner \in BOOLEAN
  /\ wakers \subseteq Spawned \cup {"error"}
  /\ main \in {"b", "c", "pending"} => "listener" \in wakers
  /\ main \in {"c", "pending"} => "subscriber" \in wakers
  /\ woken \in BOOLEAN

SInit ==
  /\ task = [t \in Spawned |-> "absent"]
  /\ peer = [p \in Peer |-> "away"]
  /\ main = "spawn"
  /\ inner = TRUE
  /\ wakers = {}
  /\ woken = FALSE

(***************************************************************************)
(* The spawned tasks.                                                      *)
(***************************************************************************)
\* Who keeps a worker thread while it waits.
Blocking ==
  {t \in {"subscriber"} : task[t] = "up"} \cup {p \in Peer : peer[p] = "stuck"}

\* Tasks are run as long as a thread is free and the runtime is not dropped.
Scheduled == Cardinality(Blocking) < Workers /\ main \notin {"returned", "exited"}

\* A task that ends wakes who has polled its JoinHandle.
Ends(t) ==
  /\ task' = [task EXCEPT ![t] = "over"]
  /\ woken' = (woken \/ t \in wakers)
  /\ UNCHANGED <<peer, main, inner, wakers>>

Comes(t) ==
  /\ task' = [task EXCEPT ![t] = "up"]
  /\ UNCHANGED <<peer, main, inner, wakers, woken>>

\* bind, and the panic if it fails.
Bind ==
  /\ task["listener"] = "new" /\ Scheduled
  /\ Comes("listener") \/ Ends("listener")

Arrive(p) ==
  /\ peer[p] = "away" /\ task["listener"] = "up"
  /\ peer' = [peer EXCEPT ![p] = "backlog"]
  /\ UNCHANGED <<task, main, inner, wakers, woken>>

\* accept, and accept_connection spawned; the loop ends with the first error.
Accept(p) ==
  /\ peer[p] = "backlog" /\ task["listener"] = "up" /\ Scheduled
  /\ peer' = [peer EXCEPT ![p] = "accepted"]
  /\ UNCHANGED <<task, main, inner, wakers, woken>>

AcceptFails ==
  /\ task["listener"] = "up" /\ Scheduled
  /\ Ends("listener")

\* accept_connection gets a thread; what it does then is in Connection.
Serve(p) ==
  /\ peer[p] = "accepted" /\ Scheduled
  /\ peer' = [peer EXCEPT ![p] = "served"]
  /\ UNCHANGED <<task, main, inner, wakers, woken>>

\* The handler of a connection blocks its thread, and may go on one day; it is
\* waited for also when the runtime is dropped.
Block(p) ==
  /\ peer[p] = "served" /\ Scheduled
  /\ peer' = [peer EXCEPT ![p] = "stuck"]
  /\ UNCHANGED <<task, main, inner, wakers, woken>>

Unblock(p) ==
  /\ peer[p] = "stuck"
  /\ peer' = [peer EXCEPT ![p] = "served"]
  /\ UNCHANGED <<task, main, inner, wakers, woken>>

\* The connection to redis and subscribe, which returns only with an error:
\* its closure answers Continue to every message.  Errors panic.
Subscribe ==
  /\ task["subscriber"] = "new" /\ Scheduled
  /\ Comes("subscriber") \/ Ends("subscriber")

SubscriptionFails == task["subscriber"] = "up" /\ Ends("subscriber")

(***************************************************************************)
(* Service::run in the main thread.                                        *)
(***************************************************************************)
Spawn(t, from, to) ==
  /\ main = from
  /\ task' = [task EXCEPT ![t] = "new"]
  /\ main' = to
  /\ UNCHANGED <<peer, inner, wakers, woken>>

\* Select::poll takes the futures and polls one after the other.  That of a
\* task that is over ends the poll with None; the others get the waker.
Poll(t, from, to) ==
  /\ main = from
  /\ inner' = FALSE
  /\ IF task[t] = "over"
       THEN main' = "returned" /\ UNCHANGED wakers
       ELSE main' = to /\ wakers' = wakers \cup {t}
  /\ UNCHANGED <<task, peer, woken>>

PollA == Poll("listener", "a", "b")

\* (AOnly returns as soon as the first future is pending.)
AOnly == main = "b" /\ main' = "c" /\ UNCHANGED <<task, peer, inner, wakers, woken>>
PollB == Poll("subscriber", "b", "c")

\* The oneshot is pending; the futures are put back (NotRestored forgets to).
NotRestored ==
  /\ main = "c" /\ main' = "pending"
  /\ wakers' = wakers \cup {"error"}
  /\ UNCHANGED <<task, peer, inner, woken>>
PollC ==
  /\ main = "c" /\ main' = "pending"
  /\ wakers' = wakers \cup {"error"}
  /\ inner' = TRUE
  /\ UNCHANGED <<task, peer, woken>>

\* The main thread is unparked and polls again.
Wake ==
  /\ main = "pending" /\ woken
  /\ main' = "a" /\ woken' = FALSE
  /\ UNCHANGED <<task, peer, inner, wakers>>

\* run returns Ok(()), and main drops the runtime: it waits for the threads
\* that are blocked.
Exit ==
  /\ main = "returned" /\ Blocking = {}
  /\ main' = "exited"
  /\ UNCHANGED <<task, peer, inner, wakers, woken>>

Main ==
  \/ Spawn("listener", "spawn", "subscribe") \/ Spawn("subscriber", "subscribe", "a")
  \/ PollA \/ PollB \/ PollC \/ Wake \/ Exit

(***************************************************************************)
(* The specification.                                                      *)
(***************************************************************************)
SNext ==
  \/ Main
  \/ Bind \/ AcceptFails \/ Subscribe \/ SubscriptionFails
  \/ \E p \in Peer : Arrive(p) \/ Accept(p) \/ Serve(p) \/ Block(p) \/ Unblock(p)
  \/ main = "exited" /\ UNCHANGED svars

SSpec == SInit /\ [][SNext]_svars

\* Main and the tasks that are ready get to run; nobody has to connect, nothing
\* has to fail, and who blocks a thread may keep it.
SFairSpec ==
  /\ SSpec
  /\ WF_svars(Main) /\ WF_svars(Bind) /\ WF_svars(Subscribe)
  /\ \A p \in Peer : WF_svars(Accept(p)) /\ WF_svars(Serve(p))

(***************************************************************************)
(* Properties.                                                             *)
(***************************************************************************)
\* "cannot poll Select twice": whenever main polls, the futures are there.
FuturesThere == main \in {"spawn", "subscribe", "a", "pending"} => inner

\* Main is past t in a poll, or since, and will not look at it without a wake-up.
Passed(t) ==
  IF t = "listener" THEN main \in {"b", "c", "pending"} ELSE main \in {"c", "pending"}

\* No wake-up is lost: a task that ends once main is past it, while main polls
\* the next one or after the poll, has woken main, and no poll forgets that.
NoWakeLost == \A t \in Spawned : task[t] = "over" /\ Passed(t) => woken

\* A task of the service that ends, whenever that is in the course of a poll,
\* is noticed.
EndIsNoticed ==
  \A t \in Spawned : task[t] = "over" ~> main \in {"returned", "exited"}
=============================================================================
