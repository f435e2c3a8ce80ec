-------------------------- MODULE ConnectionProofs --------------------------
(***************************************************************************)
(* Type correctness and the safety invariants of Connection, for every     *)
(* capacity of the channel and with redis failing or not.                  *)
(***************************************************************************)
EXTENDS Connection, TLAPS

\* The guard is held by a task exactly while that waits to send with it, and
\* by anybody only while there is an entry to hold.
GuardHeld ==
  /\ guard = "reader" <=> reader \in {"reply", "echo", "reject", "leave"}
  /\ guard = "accept" <=> accept \in {"hello", "leave"}
  /\ guard # "none" => entry

\* The spawned tasks run from Accept on.  Past the select the reader is over,
\* which a panic after a failed registration does not wait for.
TasksRun ==
  /\ accept \in {"new", "refused"} <=> reader = "off"
  /\ accept \in {"new", "refused"} <=> writer = "off"
  /\ accept \in {"close", "leave", "unregister", "remove", "drop", "done"}
       => ReaderOver
  /\ accept \in {"unwind", "panicked"}
       => ReaderOver \/ (RedisMayFail /\ ~entry)

\* Where accept_connection is tells whether the entry is there ...
EntryKept ==
  /\ accept \in {"open", "hello", "register", "evict", "leave", "unregister",
                 "remove"} => entry
  /\ accept \in {"new", "refused", "forced", "orphan", "drop", "done"} => ~entry

\* ... and whether redis knows it.
KeyKept ==
  /\ accept \in {"select", "close", "leave", "unregister"} /\ entry => registered
  /\ accept \in {"unwind", "panicked"} /\ entry => registered /\ RedisMayFail
  /\ accept \in {"evict", "forced", "orphan"} => RedisMayFail
  /\ accept \in {"select", "close"} /\ ~entry => RedisMayFail
  /\ registered /\ ~RedisMayFail =>
       accept \in {"select", "close", "leave", "unregister"}

IInv ==
  TypeOK /\ GuardHeld /\ TasksRun /\ EntryKept /\ KeyKept /\ WriterOutlives

\* What the invariants say follows from IInv.
LEMMA Implied == IInv => RegisteredWithEntry /\ ReaderFindsEntry
<1> SUFFICES ASSUME IInv PROVE RegisteredWithEntry /\ ReaderFindsEntry
  OBVIOUS
<1> USE DEF IInv
<1>1. RegisteredWithEntry
  BY DEF EntryKept, KeyKept, RegisteredWithEntry
<1>2. ReaderFindsEntry
  <2> SUFFICES ASSUME ~ReaderOver, reader # "off", ~entry
               PROVE  /\ RedisMayFail
                      /\ accept \in {"forced", "orphan", "select", "unwind",
                                    "panicked"}
    BY DEF ReaderFindsEntry, ReaderOver
  <2>1. accept \in {"open", "hello", "register", "evict", "forced", "orphan",
                   "select", "unwind", "panicked"}
    BY DEF TypeOK, AcceptLocation, TasksRun
  <2>2. accept \in {"forced", "orphan", "select", "unwind", "panicked"}
    BY <2>1 DEF EntryKept
  <2> QED
    BY <2>2 DEF KeyKept, TasksRun
<1> QED
  BY <1>1, <1>2

LEMMA Initial == Init => IInv
<1> SUFFICES ASSUME Init PROVE IInv
  OBVIOUS
<1> USE DEF Init
<1>1. TypeOK
  <2>1. entry \in BOOLEAN /\ game \in BOOLEAN /\ safe \in BOOLEAN
        /\ registered \in BOOLEAN /\ peer \in BOOLEAN
    OBVIOUS
  <2>2. queued \in 0..Capacity /\ elsewhere \in 0..MaxElsewhere
    BY ConnectionConstants DEF ConnectionConstants
  <2> QED
    BY <2>1, <2>2 DEF TypeOK, AcceptLocation, ReaderLocation
<1>2. GuardHeld /\ TasksRun /\ WriterOutlives
  BY DEF GuardHeld, TasksRun, WriterOutlives
<1>3. EntryKept
  BY DEF EntryKept
<1>4. KeyKept
  BY DEF KeyKept
<1> QED
  BY <1>1, <1>2, <1>3, <1>4 DEF IInv

\* accept_connection keeps the invariant.  Select finds the reader over, for
\* the writer cannot have ended yet.
LEMMA AcceptKeeps ==
  ASSUME IInv, Refuse \/ Accept \/ AcceptStep \/ EvictGame \/ CloseGame
  PROVE  IInv'
<1> USE ConnectionConstants
    DEF ConnectionConstants, IInv, TypeOK, AcceptLocation, ReaderLocation,
        GuardHeld, TasksRun, EntryKept, KeyKept, WriterOutlives, ReaderOver,
        AcceptOver, Cloned
<1>1. CASE Refuse
  BY <1>1 DEF Refuse
<1>2. CASE Accept
  BY <1>2 DEF Accept
<1>3. CASE OnOpen
  BY <1>3 DEF OnOpen, Free
<1>4. CASE Hello
  BY <1>4 DEF Hello, Send
<1>5. CASE Register
  <2>1. PICK ok \in RedisResult :
          /\ registered' \in AfterSet(ok)
          /\ accept' = IF ok THEN "select" ELSE "evict"
    BY <1>5 DEF Register
  <2>2. CASE ok
    <3>1. registered' = TRUE
      BY <2>1, <2>2 DEF AfterSet
    <3> QED
      BY <1>5, <2>1, <2>2, <3>1 DEF Register, Free
  <2>3. CASE ~ok
    <3>1. RedisMayFail
      BY <2>3 DEF RedisResult
    <3>2. registered' \in BOOLEAN
      BY <2>1, Zenon DEF AfterSet
    <3> QED
      BY <1>5, <2>1, <2>3, <3>1, <3>2 DEF Register, Free
  <2> QED
    BY <2>2, <2>3
<1>6. CASE Evict
  BY <1>6 DEF Evict, Free
<1>7. CASE EvictDrop
  BY <1>7 DEF EvictDrop, Send
<1>8. CASE EvictGame
  BY <1>8 DEF EvictGame, Goodbye, Send, OrPanic
<1>9. CASE Select
  BY <1>9 DEF Select
<1>10. CASE OnClose
  BY <1>10 DEF OnClose, Free
<1>11. CASE CloseGame
  <2>1. game' \in BOOLEAN
    BY <1>11 DEF CloseGame
  <2> QED
    BY <1>11, <2>1 DEF CloseGame, Goodbye, Send, OrPanic
<1>12. CASE Unregister
  <2>1. PICK ok \in RedisResult : registered' \in AfterDel(ok)
    BY <1>12 DEF Unregister
  <2>2. registered' \in BOOLEAN
    BY <2>1, Zenon DEF AfterDel
  <2>3. registered' => RedisMayFail
    BY <2>1 DEF AfterDel, RedisResult
  <2> QED
    BY <1>12, <2>2, <2>3 DEF Unregister, Free
<1>13. CASE Remove
  <2>1. queued' \in 0..Capacity /\ writer' = writer
    BY <1>13 DEF Remove, Send
  <2>2. entry' \in BOOLEAN
    BY <1>13 DEF Remove
  <2> QED
    BY <1>13, <2>1, <2>2 DEF Remove, Free
<1>14. CASE DropClient
  BY <1>14 DEF DropClient, Send
<1> QED
  BY <1>1, <1>2, <1>3, <1>4, <1>5, <1>6, <1>7, <1>8, <1>9, <1>10,
     <1>11, <1>12, <1>13, <1>14
     DEF AcceptStep, ReaderStep, WriterStep, OtherStep

\* So does the reader: what it sends and locks it does while accept_connection
\* waits for it.
LEMMA ReaderKeeps ==
  ASSUME IInv, ReadFrame \/ ReaderStep \/ LeaveGame \/ DropCloneGame
  PROVE  IInv'
<1> USE ConnectionConstants
    DEF ConnectionConstants, IInv, TypeOK, AcceptLocation, ReaderLocation,
        GuardHeld, TasksRun, EntryKept, KeyKept, WriterOutlives, ReaderOver,
        AcceptOver, Cloned
<1>1. CASE ReadFrame
  BY <1>1 DEF ReadFrame
<1>2. CASE StreamEnds
  BY <1>2 DEF StreamEnds
<1>3. CASE Lock
  BY <1>3 DEF Lock, Free
<1>4. CASE RequestFails
  BY <1>4 DEF RequestFails
<1>5. CASE JoinBegins
  BY <1>5 DEF JoinBegins, Free
<1>6. CASE JoinDecided
  BY <1>6 DEF JoinDecided, Shared
<1>7. CASE Reply
  BY <1>7 DEF Reply, Send
<1>8. CASE LeaveBegins
  BY <1>8 DEF LeaveBegins
<1>9. CASE LeaveGame
  <2>1. game' \in BOOLEAN
    BY <1>9 DEF LeaveGame
  <2> QED
    BY <1>9, <2>1 DEF LeaveGame, Goodbye, Send, OrPanic
<1>10. CASE Echo
  BY <1>10 DEF Echo, Send
<1>11. CASE Timeout
  BY <1>11 DEF Timeout
<1>12. CASE CloneClient
  BY <1>12 DEF CloneClient, Free
<1>13. CASE Notify
  BY <1>13 DEF Notify, Send
<1>14. CASE DropClone
  BY <1>14 DEF DropClone, Send
<1>15. CASE DropCloneGame
  BY <1>15 DEF DropCloneGame, Goodbye, Send, OrPanic
<1> QED
  BY <1>1, <1>2, <1>3, <1>4, <1>5, <1>6, <1>7, <1>8, <1>9, <1>10,
     <1>11, <1>12, <1>13, <1>14, <1>15
     DEF AcceptStep, ReaderStep, WriterStep, OtherStep

\* And the writer, the peer and the handlers of other clients: without a
\* sender left, nobody is left who could get one.
LEMMA OthersKeep ==
  ASSUME IInv, WriterStep \/ HangUp \/ OtherStep
  PROVE  IInv'
<1> USE ConnectionConstants
    DEF ConnectionConstants, IInv, TypeOK, AcceptLocation, ReaderLocation,
        GuardHeld, TasksRun, EntryKept, KeyKept, WriterOutlives, ReaderOver,
        AcceptOver, Cloned
<1>1. CASE Receive
  BY <1>1 DEF Receive
<1>2. CASE Write
  BY <1>2 DEF Write, Written
<1>3. CASE WriterEnds
  <2>1. AcceptOver /\ ~entry /\ elsewhere = 0 /\ ~Cloned
    BY <1>3 DEF WriterEnds, Senders
  <2>2. ReaderOver \/ RedisMayFail
    BY <2>1
  <2> QED
    BY <1>3, <2>1, <2>2 DEF WriterEnds
<1>4. CASE HangUp
  <2>1. peer' \in BOOLEAN
    BY <1>4 DEF HangUp
  <2> QED
    BY <1>4, <2>1 DEF HangUp
<1>5. CASE OtherLock
  BY <1>5 DEF OtherLock, Free
<1>6. CASE OtherUnlock
  BY <1>6 DEF OtherUnlock, Shared
<1>7. CASE OtherSend
  BY <1>7 DEF OtherSend, Send
<1>8. CASE OtherDrop
  BY <1>8 DEF OtherDrop
<1> QED
  BY <1>1, <1>2, <1>3, <1>4, <1>5, <1>6, <1>7, <1>8
     DEF AcceptStep, ReaderStep, WriterStep, OtherStep

LEMMA Step == IInv /\ [Next]_vars => IInv'
<1> SUFFICES ASSUME IInv, [Next]_vars PROVE IInv'
  OBVIOUS
<1>1. CASE UNCHANGED vars
  BY <1>1 DEF vars, IInv, TypeOK, GuardHeld, TasksRun, EntryKept, KeyKept,
              WriterOutlives, ReaderOver, AcceptOver, Cloned
<1>2. CASE Refuse \/ Accept \/ AcceptStep \/ EvictGame \/ CloseGame
  BY <1>2, AcceptKeeps
<1>3. CASE ReadFrame \/ ReaderStep \/ LeaveGame \/ DropCloneGame
  BY <1>3, ReaderKeeps
<1>4. CASE WriterStep \/ HangUp \/ OtherStep
  BY <1>4, OthersKeep
<1> QED
  BY <1>1, <1>2, <1>3, <1>4 DEF Next, Quiescent, GameStep

THEOREM Invariance == Spec => []IInv
BY Initial, Step, PTL DEF Spec

\* Each variable of a connection keeps its type; in particular the channel
\* never holds more than its capacity, whoever sends.
THEOREM TypeCorrect == Spec => []TypeOK
<1>1. IInv => TypeOK
  BY DEF IInv
<1> QED
  BY <1>1, Invariance, PTL

\* The writer task is the last to end: accept_connection's select always
\* waits for the reader, and no Sender::send ever fails.
THEOREM WriterAlwaysOutlives == Spec => []WriterOutlives
<1>1. IInv => WriterOutlives
  BY DEF IInv
<1> QED
  BY <1>1, Invariance, PTL

\* Whom the shard serves from an entry redis knows, whatever redis calls fail;
\* and as long as none does, the SOCKET:USER keys and the map of the shard
\* agree about every connection that is over or at rest.
THEOREM AlwaysRegisteredWithEntry == Spec => []RegisteredWithEntry
BY Implied, Invariance, PTL

\* on_message finds the client it unwraps unless the registration failed.
THEOREM ReaderAlwaysFindsEntry == Spec => []ReaderFindsEntry
BY Implied, Invariance, PTL
=============================================================================
