--------------------------- MODULE ServiceProofs ---------------------------
(***************************************************************************)
(* Proofs about Service, for any number of peers and worker threads.       *)
(***************************************************************************)
EXTENDS Service, TLAPS

SIInv == STypeOK /\ FuturesThere /\ NoWakeLost

LEMMA SInitKeeps == SInit => SIInv
BY DEF SInit, SIInv, STypeOK, FuturesThere, NoWakeLost, Passed, Spawned

\* Steps of main.
LEMMA MainKeeps == SIInv /\ Main => SIInv'
<1> SUFFICES ASSUME SIInv, Main PROVE SIInv'
  OBVIOUS
<1> USE DEF SIInv, STypeOK, FuturesThere, NoWakeLost, Passed, Spawned
<1>1. CASE Spawn("listener", "spawn", "subscribe") \/ Spawn("subscriber", "subscribe", "a")
  BY <1>1 DEF Spawn
<1>2. CASE PollA
  BY <1>2 DEF PollA, Poll
<1>3. CASE PollB
  BY <1>3 DEF PollB, Poll
<1>4. CASE PollC
  BY <1>4 DEF PollC
<1>5. CASE Wake
  BY <1>5 DEF Wake
<1>6. CASE Exit
  BY <1>6 DEF Exit
<1> QED
  BY <1>1, <1>2, <1>3, <1>4, <1>5, <1>6 DEF Main

\* Steps of the tasks and of the peers.
LEMMA TasksKeep ==
  ASSUME SIInv,
         \/ Bind \/ AcceptFails \/ Subscribe \/ SubscriptionFails
         \/ \E p \in Peer : Arrive(p) \/ Accept(p) \/ Serve(p) \/ Block(p) \/ Unblock(p)
  PROVE  SIInv'
<1> USE DEF SIInv, STypeOK, FuturesThere, NoWakeLost, Passed, Spawned
<1>1. ASSUME NEW t \in Spawned, Ends(t) PROVE SIInv'
  <2>1. woken' \in BOOLEAN
    BY <1>1 DEF Ends
  <2> QED
    BY <1>1, <2>1 DEF Ends
<1>2. ASSUME NEW t \in Spawned, Comes(t) PROVE SIInv'
  BY <1>2 DEF Comes
<1>3. ASSUME NEW p \in Peer,
             Arrive(p) \/ Accept(p) \/ Serve(p) \/ Block(p) \/ Unblock(p)
      PROVE  SIInv'
  BY <1>3 DEF Arrive, Accept, Serve, Block, Unblock
<1> QED
  BY <1>1, <1>2, <1>3 DEF Bind, AcceptFails, Subscribe, SubscriptionFails

LEMMA SNextKeeps == SIInv /\ [SNext]_svars => SIInv'
<1>1. SIInv /\ UNCHANGED svars => SIInv'
  BY DEF svars, SIInv, STypeOK, FuturesThere, NoWakeLost, Passed
<1> QED
  BY <1>1, MainKeeps, TasksKeep DEF SNext

THEOREM SInvariance == SSpec => []SIInv
BY SInitKeeps, SNextKeeps, PTL DEF SSpec

\* Types, and that main, in a poll, has left its waker with every future it
\* has passed.
THEOREM STypeCorrect == SSpec => []STypeOK
<1>1. SIInv => STypeOK
  BY DEF SIInv
<1> QED
  BY <1>1, SInvariance, PTL

\* Select.inner is never missing when main polls: the `expect` of poll
\* cannot fail.
THEOREM FuturesAlwaysThere == SSpec => []FuturesThere
<1>1. SIInv => FuturesThere
  BY DEF SIInv
<1> QED
  BY <1>1, SInvariance, PTL

\* Select never sleeps through an end: whichever of its tasks ends, in the
\* middle of a poll or after it, main has been woken and polls once more.
THEOREM NeverAWakeLost == SSpec => []NoWakeLost
<1>1. SIInv => NoWakeLost
  BY DEF SIInv
<1> QED
  BY <1>1, SInvariance, PTL
=============================================================================
