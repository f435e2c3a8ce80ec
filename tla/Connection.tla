----------------------------- MODULE Connection -----------------------------
(***************************************************************************)
(* One connection of a shard: accept_connection with the reader and the    *)
(* writer it spawns (src/service/websocket.rs), and the SocketClient of    *)
(* client.rs with its clones and their Drops.                              *)
(*                                                                         *)
(* Three tasks share the entry of the connection in `sockets` and the      *)
(* channel to the writer.  A guard of the entry is taken and released in   *)
(* steps of their own where its holder waits for room in the channel; a    *)
(* guard that is released before anything is awaited is part of a step.    *)
(* Shared guards are taken to exclude each other too.  Of the messages     *)
(* only the number counts, of the requests only how they end.              *)
(***************************************************************************)
EXTENDS Naturals

CONSTANTS
  Capacity,      \* room in the channel, 200 in the code
  MaxElsewhere,  \* bound on the senders that other clients' games hold
  RedisMayFail   \* whether a redis command or the pool may fail

ASSUME ConnectionConstants ==
  /\ Capacity \in Nat \ {0}
  /\ MaxElsewhere \in Nat
  /\ RedisMayFail \in BOOLEAN

VARIABLES
  accept,     \* where accept_connection is
  reader,     \* where the reader task is
  writer,     \* where the writer task is
  entry,      \* whether the SocketClient is in `sockets`
  game,       \* whether its game is Some
  safe,       \* its performed_safe_shutdown
  guard,      \* who holds the guard of the entry
  queued,     \* messages in the channel
  registered, \* whether redis has SOCKET:USER:<id>
  elsewhere,  \* PartialClients with this sender in other clients' games
  peer        \* whether the peer is still there

vars == <<accept, reader, writer, entry, game, safe, guard, queued,
          registered, elsewhere, peer>>

AcceptLocation ==
  {"new", "open", "hello", "register", "evict", "forced", "select",
   "orphan", "close", "leave", "unregister", "remove", "drop", "unwind",
   "refused", "done", "panicked"}

\* "request", "ping", "garbage": a frame was read, and the handler has not
\* got its guard yet; "joining" to "declined": inside a Join; "reply",
\* "echo", "reject", "leave": it waits to send with the guard held; "late"
\* and after it: the request timed out.
ReaderLocation ==
  {"off", "next", "request", "ping", "garbage",
   "joining", "joined", "declined", "reply", "echo", "reject", "leave",
   "late", "notice", "unclone", "ungame", "returned", "panicked"}

TypeOK ==
  /\ accept \in AcceptLocation
  /\ reader \in ReaderLocation
  /\ writer \in {"off", "recv", "write", "ended"}
  /\ entry \in BOOLEAN /\ game \in BOOLEAN /\ safe \in BOOLEAN
  /\ guard \in {"none", "accept", "reader", "other"}
  /\ queued \in 0..Capacity
  /\ registered \in BOOLEAN
  /\ elsewhere \in 0..MaxElsewhere
  /\ peer \in BOOLEAN

Init ==
  /\ accept = "new" /\ reader = "off" /\ writer = "off"
  /\ entry = FALSE /\ game = FALSE /\ safe = FALSE /\ guard = "none"
  /\ queued = 0 /\ registered = FALSE /\ elsewhere = 0 /\ peer = TRUE

(***************************************************************************)
(* The channel and the entry.                                              *)
(***************************************************************************)
\* Sender::send waits for room, and fails once the receiver is gone
\* (SendUnbounded is that of an unbounded channel).
SendUnbounded ==
  \/ writer # "ended" /\ queued' = queued + 1
  \/ writer = "ended" /\ UNCHANGED queued
Send ==
  \/ writer # "ended" /\ queued < Capacity /\ queued' = queued + 1
  \/ writer = "ended" /\ UNCHANGED queued

\* Somebody holds a clone of the sender: `sender` and `client` of
\* accept_connection, the entry, the clone a timeout made, a Join on its way
\* to the host, a game elsewhere (SharedSenders forgets the locals of
\* accept_connection; AlwaysASender is a writer that owns a clone itself).
Cloned == reader \in {"joining", "notice", "unclone", "ungame"}
SharedSenders == entry \/ Cloned \/ elsewhere > 0
AlwaysASender == accept # "new"
Senders ==
  \/ accept \notin {"new", "refused", "done", "panicked"}
  \/ entry \/ Cloned \/ elsewhere > 0

Free == guard = "none"

\* The reader's task is over (HungUp looks at the peer instead).
HungUp == ~peer
ReaderOver == reader \in {"returned", "panicked"}

AcceptOver == accept \in {"done", "panicked"}

RedisResult == IF RedisMayFail THEN BOOLEAN ELSE {TRUE}

\* The redis key after SET or DEL: a command that fails may have been executed
\* all the same, its reply lost, or never have been.
AfterSet(ok) == IF ok THEN {TRUE} ELSE {registered, TRUE}
AfterDel(ok) == IF ok THEN {FALSE} ELSE {registered, FALSE}

\* Drop for Game sends the Leave or the Shutdown response, the latter only if
\* redis answered, and panics if it does not answer the second time.
Goodbye == Send \/ (RedisMayFail /\ UNCHANGED queued)
OrPanic(l) == IF RedisMayFail THEN {l} ELSE {}

\* A sender is left with a game elsewhere, up to the bound.
Shared == elsewhere' \in {elsewhere, elsewhere + 1} \cap 0..MaxElsewhere

\* The writer after a message the peer took or could not be sent, which is
\* logged (Retry would try again).
Retry == IF peer THEN "recv" ELSE "write"
Written == "recv"

(***************************************************************************)
(* accept_connection.                                                      *)
(***************************************************************************)
\* The handshake panics on a peer without a protocol, before anything else
\* exists.
Refuse ==
  /\ accept = "new"
  /\ accept' = "refused"
  /\ UNCHANGED <<reader, writer, entry, game, safe, guard, queued,
                 registered, elsewhere, peer>>

\* The entry is inserted, then both tasks are spawned: they run from here.
Accept ==
  /\ accept = "new"
  /\ accept' = "open" /\ reader' = "next" /\ writer' = "recv"
  /\ entry' = TRUE
  /\ UNCHANGED <<game, safe, guard, queued, registered, elsewhere, peer>>

\* on_open sends Hello with the guard held.
OnOpen ==
  /\ accept = "open"
  /\ Free /\ guard' = "accept"
  /\ accept' = "hello"
  /\ UNCHANGED <<reader, writer, entry, game, safe, queued, registered,
                 elsewhere, peer>>

Hello ==
  /\ accept = "hello"
  /\ Send
  /\ guard' = "none"
  /\ accept' = "register"
  /\ UNCHANGED <<reader, writer, entry, game, safe, registered, elsewhere,
                 peer>>

Register ==
  /\ accept = "register"
  /\ Free
  /\ \E ok \in RedisResult :
       /\ registered' \in AfterSet(ok)
       /\ accept' = IF ok THEN "select" ELSE "evict"
  /\ UNCHANGED <<reader, writer, entry, game, safe, guard, queued, elsewhere,
                 peer>>

\* The registration failed: the entry is removed under the running reader.
\* Its Drop sends a ForcedDisconnection, for it was never closed.  (NoEvict
\* logs the error only.)
NoEvict ==
  /\ accept = "evict"
  /\ accept' = "forced"
  /\ UNCHANGED <<reader, writer, entry, game, safe, guard, queued,
                 registered, elsewhere, peer>>
Evict ==
  /\ accept = "evict"
  /\ Free
  /\ entry' = FALSE
  /\ accept' = "forced"
  /\ UNCHANGED <<reader, writer, game, safe, guard, queued, registered,
                 elsewhere, peer>>

EvictDrop ==
  /\ accept = "forced"
  /\ Send
  /\ accept' = IF game THEN "orphan" ELSE "select"
  /\ UNCHANGED <<reader, writer, entry, game, safe, guard, registered,
                 elsewhere, peer>>

\* A first request may have put the client in a game already.
EvictGame ==
  /\ accept = "orphan"
  /\ Goodbye
  /\ accept' \in {"select"} \cup OrPanic("unwind")
  /\ UNCHANGED <<reader, writer, entry, game, safe, guard, registered,
                 elsewhere, peer>>

\* select over the join handles of reader and writer.
Select ==
  /\ accept = "select"
  /\ ReaderOver \/ writer = "ended"
  /\ accept' = "close"
  /\ UNCHANGED <<reader, writer, entry, game, safe, guard, queued,
                 registered, elsewhere, peer>>

\* on_close marks the client and drops its game, with the guard held; the
\* `expect` panics when the entry was evicted.
OnClose ==
  /\ accept = "close"
  /\ \/ /\ entry /\ Free /\ ~game
        /\ safe' = TRUE
        /\ accept' = "unregister"
        /\ UNCHANGED guard
     \/ /\ entry /\ Free /\ game
        /\ safe' = TRUE
        /\ accept' = "leave" /\ guard' = "accept"
     \/ /\ ~entry
        /\ accept' = "unwind"
        /\ UNCHANGED <<safe, guard>>
  /\ UNCHANGED <<reader, writer, entry, game, queued, registered, elsewhere,
                 peer>>

CloseGame ==
  /\ accept = "leave"
  /\ Goodbye
  /\ game' = FALSE
  /\ guard' = "none"
  /\ accept' \in {"unregister"} \cup OrPanic("unwind")
  /\ UNCHANGED <<reader, writer, entry, safe, registered, elsewhere, peer>>

Unregister ==
  /\ accept = "unregister"
  /\ Free
  /\ \E ok \in RedisResult : registered' \in AfterDel(ok)
  /\ accept' = "remove"
  /\ UNCHANGED <<reader, writer, entry, game, safe, guard, queued, elsewhere,
                 peer>>

\* The entry's Drop is silent if on_close has marked it.
Remove ==
  /\ accept = "remove"
  /\ Free
  /\ entry' = FALSE
  /\ IF safe THEN UNCHANGED queued ELSE Send
  /\ accept' = "drop"
  /\ UNCHANGED <<reader, writer, game, safe, guard, registered, elsewhere,
                 peer>>

\* The local `client`, a clone made before anything happened, is dropped,
\* at the end or while a panic unwinds: it sends a ForcedDisconnection.
DropClient ==
  /\ accept \in {"drop", "unwind"}
  /\ Send
  /\ accept' = IF accept = "drop" THEN "done" ELSE "panicked"
  /\ UNCHANGED <<reader, writer, entry, game, safe, guard, registered,
                 elsewhere, peer>>

(***************************************************************************)
(* The reader and on_message.                                              *)
(***************************************************************************)
\* The next text message, Ping or Pong, or text that is no model.
ReadFrame ==
  /\ reader = "next" /\ peer
  /\ reader' \in {"request", "ping", "garbage"}
  /\ UNCHANGED <<accept, writer, entry, game, safe, guard, queued,
                 registered, elsewhere, peer>>

\* The stream ends with the connection, a Close frame is filtered out.
StreamEnds ==
  /\ reader = "next" /\ ~peer
  /\ reader' = "returned"
  /\ UNCHANGED <<accept, writer, entry, game, safe, guard, queued,
                 registered, elsewhere, peer>>

\* sockets.get(&client_id).unwrap(): the guard, or a panic.  A Join that got
\* through installs the game.
Lock ==
  /\ reader \in {"request", "ping", "garbage", "joined", "declined"}
  /\ \/ /\ entry /\ Free
        /\ guard' = "reader"
        /\ reader' = CASE reader = "ping"    -> "echo"
                       [] reader = "garbage" -> "reject"
                       [] OTHER              -> "reply"
        /\ game' = (game \/ reader = "joined")
     \/ /\ ~entry
        /\ reader' = "panicked"
        /\ UNCHANGED <<guard, game>>
  /\ UNCHANGED <<accept, writer, entry, safe, queued, registered, elsewhere,
                 peer>>

\* Errors that are not answered close the connection, missing data panics
\* in an unwrap.
RequestFails ==
  /\ reader \in {"request", "joining"}
  /\ reader' \in {"returned", "panicked"}
  /\ UNCHANGED <<accept, writer, entry, game, safe, guard, queued,
                 registered, elsewhere, peer>>

\* A Join clones the sender under the client's guard and lets go of it.
JoinBegins ==
  /\ reader = "request"
  /\ entry /\ Free /\ ~game
  /\ reader' = "joining"
  /\ UNCHANGED <<accept, writer, entry, game, safe, guard, queued,
                 registered, elsewhere, peer>>

\* The host's roster takes the sender, or the client becomes host itself, or
\* it is turned away.
JoinDecided ==
  /\ reader = "joining"
  /\ \/ reader' = "joined" /\ Shared
     \/ reader' = "declined" /\ UNCHANGED elsewhere
  /\ UNCHANGED <<accept, writer, entry, game, safe, guard, queued,
                 registered, peer>>

\* The answer is sent and the guard released.
Reply ==
  /\ reader = "reply"
  /\ Send
  /\ guard' = "none"
  /\ reader' \in {"next", "returned"}
  /\ UNCHANGED <<accept, writer, entry, game, safe, registered, elsewhere,
                 peer>>

\* Leave, and the Start of a member, drop the game under the guard; the
\* latter is then answered with an error.
LeaveBegins ==
  /\ reader = "reply"
  /\ game
  /\ reader' = "leave"
  /\ UNCHANGED <<accept, writer, entry, game, safe, guard, queued,
                 registered, elsewhere, peer>>

LeaveGame ==
  /\ reader = "leave"
  /\ Goodbye
  /\ game' = FALSE
  /\ \/ reader' \in {"next"} \cup OrPanic("panicked") /\ guard' = "none"
     \/ reader' = "reply" /\ UNCHANGED guard
  /\ UNCHANGED <<accept, writer, entry, safe, registered, elsewhere, peer>>

Echo ==
  /\ reader \in {"echo", "reject"}
  /\ Send
  /\ guard' = "none"
  /\ reader' = IF reader = "echo" THEN "next" ELSE "returned"
  /\ UNCHANGED <<accept, writer, entry, game, safe, registered, elsewhere,
                 peer>>

\* tokio's timeout drops the request's future, with its guard, wherever it
\* is suspended: in the sandbox, in a Join, or for room in the channel.  A
\* Drop blocks its thread, which no timeout ends.
Timeout ==
  /\ reader \in {"request", "joining", "joined", "declined", "reply"}
  /\ reader' = "late"
  /\ guard' = IF reader = "reply" THEN "none" ELSE guard
  /\ UNCHANGED <<accept, writer, entry, game, safe, queued, registered,
                 elsewhere, peer>>

\* The entry is cloned to send the TimeoutResponse without its guard.
CloneClient ==
  /\ reader = "late"
  /\ \/ entry /\ Free /\ reader' = "notice"
     \/ ~entry /\ reader' = "panicked"
  /\ UNCHANGED <<accept, writer, entry, game, safe, guard, queued,
                 registered, elsewhere, peer>>

Notify ==
  /\ reader = "notice"
  /\ Send
  /\ reader' = "unclone"
  /\ UNCHANGED <<accept, writer, entry, game, safe, guard, registered,
                 elsewhere, peer>>

\* The clone is dropped, which sends a ForcedDisconnection and drops its
\* Game; should_close is still false.
DropClone ==
  /\ reader = "unclone"
  /\ Send
  /\ reader' = IF game THEN "ungame" ELSE "next"
  /\ UNCHANGED <<accept, writer, entry, game, safe, guard, registered,
                 elsewhere, peer>>

DropCloneGame ==
  /\ reader = "ungame"
  /\ Goodbye
  /\ reader' \in {"next"} \cup OrPanic("panicked")
  /\ UNCHANGED <<accept, writer, entry, game, safe, guard, registered,
                 elsewhere, peer>>

(***************************************************************************)
(* The writer.                                                             *)
(***************************************************************************)
Receive ==
  /\ writer = "recv"
  /\ queued > 0
  /\ queued' = queued - 1
  /\ writer' = "write"
  /\ UNCHANGED <<accept, reader, entry, game, safe, guard, registered,
                 elsewhere, peer>>

\* write.send returns: the peer took the message, or is gone.
Write ==
  /\ writer = "write"
  /\ writer' = Written
  /\ UNCHANGED <<accept, reader, entry, game, safe, guard, queued,
                 registered, elsewhere, peer>>

\* recv returns None.
WriterEnds ==
  /\ writer = "recv"
  /\ queued = 0 /\ ~Senders
  /\ writer' = "ended"
  /\ UNCHANGED <<accept, reader, entry, game, safe, guard, queued,
                 registered, elsewhere, peer>>

(***************************************************************************)
(* The peer, and the handlers of other clients.                            *)
(***************************************************************************)
HangUp ==
  /\ peer
  /\ peer' = FALSE
  /\ UNCHANGED <<accept, reader, writer, entry, game, safe, guard, queued,
                 registered, elsewhere>>

\* A handler of another client looks this client up as its host.
OtherLock ==
  /\ entry /\ Free
  /\ guard' = "other"
  /\ UNCHANGED <<accept, reader, writer, entry, game, safe, queued,
                 registered, elsewhere, peer>>

\* It lets go; a Join keeps the sender in the joiner's own Game.
OtherUnlock ==
  /\ guard = "other"
  /\ guard' = "none"
  /\ Shared
  /\ UNCHANGED <<accept, reader, writer, entry, game, safe, queued,
                 registered, peer>>

\* An event is sent through a PartialClient.
OtherSend ==
  /\ elsewhere > 0 \/ guard = "other"
  /\ Send
  /\ UNCHANGED <<accept, reader, writer, entry, game, safe, guard,
                 registered, elsewhere, peer>>

\* A game elsewhere is dropped, or takes this client off its roster.
OtherDrop ==
  /\ elsewhere > 0
  /\ elsewhere' = elsewhere - 1
  /\ UNCHANGED <<accept, reader, writer, entry, game, safe, guard, queued,
                 registered, peer>>

(***************************************************************************)
(* The specification.                                                      *)
(***************************************************************************)
AcceptStep ==
  \/ OnOpen \/ Hello \/ Register \/ Evict \/ EvictDrop \/ Select \/ OnClose
  \/ Unregister \/ Remove \/ DropClient

ReaderStep ==
  \/ StreamEnds \/ Lock \/ RequestFails \/ JoinBegins \/ JoinDecided \/ Reply
  \/ LeaveBegins \/ Echo \/ Timeout \/ CloneClient \/ Notify \/ DropClone

\* Drop for Game also sends to the channels of other clients.
GameStep == EvictGame \/ CloseGame \/ LeaveGame \/ DropCloneGame

WriterStep == Receive \/ Write \/ WriterEnds

OtherStep == OtherLock \/ OtherUnlock \/ OtherSend \/ OtherDrop

\* The connection is over, or never was.
Quiescent == (accept = "refused" \/ writer = "ended") /\ UNCHANGED vars

Next ==
  \/ Refuse \/ Accept \/ AcceptStep
  \/ ReadFrame \/ ReaderStep \/ GameStep \/ WriterStep
  \/ HangUp \/ OtherStep \/ Quiescent

Spec == Init /\ [][Next]_vars

\* tokio polls ready tasks again; room in the channel is handed out in the
\* order it was asked for, and parking_lot lets no waiter starve: a step
\* that waits for either may be disabled again and again, hence SF.  A peer
\* that is there need not read; a write to one that is gone returns an
\* error.  Nothing is asked of what waits for other clients.
FairSpec ==
  /\ Spec
  /\ SF_vars(AcceptStep) /\ SF_vars(ReaderStep)
  /\ WF_vars(Receive) /\ WF_vars(Write /\ ~peer) /\ WF_vars(WriterEnds)

(***************************************************************************)
(* Properties.                                                             *)
(***************************************************************************)
\* The writer outlives everybody who can send: select therefore always waits
\* for the reader, sends never fail, and a game that still holds a sender of
\* a client that left keeps that client's writer.  (If redis fails while a
\* client connects, accept_connection may panic before the reader is over.)
WriterOutlives ==
  writer = "ended" => /\ AcceptOver /\ ~entry /\ elsewhere = 0 /\ ~Cloned
                      /\ ReaderOver \/ RedisMayFail

\* A connection that is served from its entry is one that redis knows; when it
\* is over the entry is gone, or, after a panic of on_close, both may be left.
\* As long as redis answers, neither outlives the other: with failures a key
\* may be left alone, by a SET whose reply was lost or a DEL that failed.
RegisteredWithEntry ==
  /\ accept \in {"select", "close", "leave", "unregister"} /\ entry => registered
  /\ accept = "done" => ~entry
  /\ accept = "panicked" /\ entry => registered /\ RedisMayFail
  /\ accept \in {"select", "done", "panicked"} /\ ~RedisMayFail
       => (registered <=> entry)

\* Until its reader is over a client is in `sockets`, where on_message
\* unwraps it, unless its registration failed.
ReaderFindsEntry ==
  reader \notin {"off", "returned", "panicked"} /\ ~entry
    => /\ RedisMayFail
       /\ accept \in {"forced", "orphan", "select", "unwind", "panicked"}

\* Other clients' handlers let go of the entry, and the Drop of a Game gets
\* through to the channels of other clients, time and again.
OthersGiveWay ==
  /\ []<>(guard # "other")
  /\ []<>~(accept \in {"orphan", "leave"} \/ reader \in {"leave", "ungame"})

\* Whatever is queued, locked or timing out when the peer goes away,
\* accept_connection comes to its end, unless it or a handler that holds its
\* entry waits for another client: the writer keeps emptying the channel
\* after a failed write, so that nobody waits for room for good.
ConnectionEnds ==
  OthersGiveWay =>
    (~peer /\ accept # "new" ~> AcceptOver \/ accept = "refused")

\* The writer ends, and the socket is closed with it, once the connection is
\* out of the map and no game of another client holds its sender.
WriterTerminates ==
  AcceptOver /\ ReaderOver /\ ~entry /\ elsewhere = 0 /\ ~peer
    ~> writer = "ended"
=============================================================================
