-------------------------- MODULE ChannelBatchesProofs --------------------------
(***************************************************************************)
(* What TLAPS proves of the batches of ChannelTurns when live processes    *)
(* renew their leases on time (Stalls = FALSE): a batch stays whole from   *)
(* its claim to its end, so its turns are sealed together, answered once   *)
(* and never dropped without a later turn that stands for them.            *)
(***************************************************************************)
EXTENDS ChannelOwnersProofs, WellFoundedInduction

\* What is being worked on is the batch of one process, or of nobody.
Whole == \A p \in Procs : batch[p] \cap Live # {} => batch[p] = Live

\* It is sealed as a whole, and only by the process that has its batch.
OneStatus == \A a, b \in Live : status[a] = status[b]
Unsealed ==
    \A p \in Procs : ~toolsReady[p] =>
        \A t \in batch[p] \cap Live : status[t] = "processing"

\* A process has a batch only while it works on it, and apologises only for
\* one that has ended.
AtWork == {"start"} \cup InBatch
EmptyHands ==
    \A p \in Procs :
        /\ drain[p] \notin AtWork => batch[p] = {} /\ ~aborted[p] /\ ~toolsReady[p]
        /\ drain[p] \in Ended => batch[p] \cap Live = {}

\* No turn is in two batches, not even one that has ended.
Disjoint == \A p, q \in Procs : batch[p] \cap batch[q] # {} => p = q

BatchInv == Whole /\ OneStatus /\ Unsealed /\ EmptyHands /\ Disjoint

-----------------------------------------------------------------------------
(* What a claim takes. *)

Less == OpToRel(<, Nat)

LEMMA LessIsLess ==
  ASSUME NEW m \in Nat, NEW n \in Nat PROVE <<m, n>> \in Less <=> m < n
  BY DEF OpToRel, Less

LEMMA LeastNatural ==
  ASSUME NEW S \in SUBSET Nat, S # {}
  PROVE  \E n \in S : \A m \in S : n <= m
<1>1. IsWellFoundedOn(Less, Nat)
  BY NatLessThanWellFounded DEF Less
<1>2. PICK n \in S : \A m \in S : ~(<<m, n>> \in Less)
  BY <1>1, WFMin, Zenon
<1>3. \A m \in S : ~(m < n)
  BY <1>2, LessIsLess
<1> QED BY <1>3

\* Turns that are worked on and whose lease is over are claimed again, all of
\* them: nothing in the queue is older.
LEMMA LiveIsClaimed ==
  ASSUME TypeOK, OrderInv, ~Busy
  PROVE  Live \subseteq Claimed
<1>1. CASE Live = {}
  BY <1>1
<1>2. CASE Live # {}
  <2>1. Reset = Live
    BY DEF Reset, Stale, Busy, Live, OrderInv, OneBatch, TypeOK, TableOK
  <2>2. Queued \cup Reset = OpenTurns
    BY <2>1, OpenIs
  <2> DEFINE ages == {createdAt[t] : t \in OpenTurns}
  <2>3. \A t \in OpenTurns : t \in Turns /\ createdAt[t] \in Nat
    BY DEF OpenTurns, TypeOK, TableOK
  <2>4. PICK n \in ages : \A m \in ages : n <= m
    <3>1. ages \in SUBSET Nat /\ ages # {}
      BY <1>2, <2>3, OpenIs
    <3> QED BY <3>1, LeastNatural
  <2>5. PICK first \in OpenTurns : \A t \in OpenTurns : createdAt[first] <= createdAt[t]
    BY <2>4
  <2>6. first \in Oldest(OpenTurns)
    BY <2>5 DEF Oldest
  <2>7. first \in Live
    <3>1. PICK a \in Live : createdAt[first] <= createdAt[a]
      BY <1>2, <2>5, OpenIs
    <3>2. first \notin Queued
      BY <2>3, <2>5, <3>1, OpenIs DEF OrderInv, WorkedInOrder
    <3> QED BY <3>2, OpenIs
  <2>8. \A t \in Live : /\ t \in OpenTurns /\ availableIn[t] <= 0
                        /\ batchKey[first] = batchKey[t]
    BY <2>7, OpenIs DEF OrderInv, OneBatch
  <2> QED BY <2>2, <2>6, <2>7, <2>8 DEF Claimed
<1> QED BY <1>1, <1>2

\* A claim while a lease runs changes nothing; any other one leaves what it
\* does not take alone.
LEMMA ClaimTable ==
  ASSUME TypeOK, OrderInv, NEW p \in Procs, Claim(p)
  PROVE  /\ Busy => /\ UNCHANGED <<status, leaseLeft, cancelRequested>>
                    /\ Claimed = {}
         /\ ~Busy => Live \subseteq Claimed /\ Live' = Claimed
         /\ Claimed \subseteq Turns
         /\ \A t \in Turns :
              IF t \in Claimed
              THEN /\ status[t] \in Open /\ status'[t] = "processing"
                   /\ leaseLeft'[t] = Lease /\ ~cancelRequested'[t]
              ELSE /\ status'[t] = status[t] /\ leaseLeft'[t] = leaseLeft[t]
                   /\ cancelRequested'[t] = cancelRequested[t]
         /\ batch' = [batch EXCEPT ![p] = Claimed]
<1>1. Claimed \subseteq OpenTurns
  BY ClaimedOldest
<1>2. Claimed \subseteq Turns
  BY <1>1 DEF OpenTurns
<1>3. batch' = [batch EXCEPT ![p] = Claimed]
  BY DEF Claim
<1>4. CASE Busy
  <2>1. Claimed = {} /\ Reset = {}
    BY <1>4 DEF Claimed, Reset
  <2>2. UNCHANGED <<status, leaseLeft, cancelRequested>>
    BY <2>1 DEF Claim, Reopened, TypeOK, TableOK
  <2> QED BY <1>3, <1>4, <2>1, <2>2
<1>5. CASE ~Busy
  <2>1. Live \subseteq Claimed
    BY <1>5, LiveIsClaimed
  <2>2. Reset \subseteq Claimed
    BY <2>1 DEF Reset, Stale
  <2>3. \A t \in Turns : t \notin Claimed =>
            /\ status'[t] = status[t] /\ leaseLeft'[t] = leaseLeft[t]
            /\ cancelRequested'[t] = cancelRequested[t]
    BY <2>2 DEF Claim, Reopened, TypeOK, TableOK
  <2>4. \A t \in Claimed : /\ status'[t] = "processing" /\ leaseLeft'[t] = Lease
                           /\ ~cancelRequested'[t]
    BY <1>2 DEF Claim, Reopened
  <2>5. \A t \in Claimed : status[t] \in Open
    BY <1>1 DEF OpenTurns
  <2>6. Live' = Claimed
    BY <1>2, <2>1, <2>3, <2>4 DEF Live
  <2> QED BY <1>2, <1>3, <1>5, <2>1, <2>3, <2>4, <2>5, <2>6
<1> QED BY <1>4, <1>5

-----------------------------------------------------------------------------
(* Batches stay whole. *)

LEMMA InitBatch == Init => BatchInv
  BY DEF Init, BatchInv, Whole, OneStatus, Unsealed, EmptyHands, Disjoint, Live,
         AtWork, InBatch

\* But for a claim, what is being worked on stays, ends or is sealed, and each
\* time as a whole.
LEMMA LiveStep ==
  ASSUME TypeOK, OrderInv, BatchInv, NEW p \in Procs, Process(p), ~Claim(p)
  PROVE  \/ Live' = {}
         \/ Live' = Live /\ \A t \in Live : status'[t] = status[t]
         \/ /\ Seal(p) /\ batch[p] = Live /\ Live' = Live
            /\ \A t \in Live : status'[t] = "sealed"
<1>0. batch[p] \subseteq Turns /\ Live \subseteq Turns
  BY DEF TypeOK, WorkerOK, Live
<1>1. CASE \E t \in Turns : Enqueue(p, t)
  BY <1>1 DEF Enqueue, EnqueueTx, OrderInv, StoredOnce, Live, TypeOK, TableOK
<1>2. CASE \E c \in Stops : Cancel(p, c)
  BY <1>2 DEF Cancel, Live, Open
<1>3. CASE Seal(p)
  <2> DEFINE sealed == {t \in batch[p] : /\ \A u \in batch[p] : ~cancelRequested[u]
                                         /\ status[t] = "processing"}
  <2>1. status' = [t \in Turns |-> IF t \in sealed THEN "sealed" ELSE status[t]]
    BY <1>3 DEF Seal
  <2>2. Live' = Live
    BY <1>0, <2>1 DEF Live
  <2>3. CASE sealed = {}
    BY <1>0, <2>1, <2>2, <2>3
  <2>4. CASE sealed # {}
    <3>1. batch[p] = Live
      BY <1>0, <2>4 DEF BatchInv, Whole, Live
    <3>2. sealed = Live
      BY <2>4, <3>1 DEF BatchInv, OneStatus
    <3> QED BY <1>0, <1>3, <2>1, <2>2, <3>1, <3>2
  <2> QED BY <2>3, <2>4
<1>4. CASE \E outcome \in {"completed", "failed"} : Settled(p, outcome)
  <2>1. Live' = Live \ batch[p] /\ \A t \in Live' : status'[t] = status[t]
    BY <1>0, <1>4 DEF Settled, Live
  <2> QED BY <2>1 DEF BatchInv, Whole
<1>5. CASE Monitor(p) \/ UNCHANGED table
  BY <1>5 DEF Monitor, table, Live
<1> QED BY <1>1, <1>2, <1>3, <1>4, <1>5, StepsOfTable

LEMMA BatchTable ==
  ASSUME TypeOK, OrderInv, OwnerInv, BatchInv, NEW p \in Procs, Process(p)
  PROVE  Whole' /\ OneStatus' /\ Disjoint'
<1>0. batch \in [Procs -> SUBSET Turns]
  BY DEF TypeOK, WorkerOK
<1>1. CASE Claim(p)
  <2>1. batch' = [batch EXCEPT ![p] = Claimed] /\ Claimed \subseteq Turns
    BY <1>1, ClaimTable
  <2>2. \A q \in Procs : batch[q] \cap Claimed = {}
    BY <1>1, ClaimLeaves
  <2>3. CASE Busy
    <3>1. Claimed = {} /\ UNCHANGED status
      BY <1>1, <2>3, ClaimTable
    <3>2. Live' = Live /\ batch'[p] = {}
      BY <1>0, <2>1, <3>1 DEF Live
    <3> QED BY <1>0, <2>1, <3>1, <3>2 DEF BatchInv, Whole, OneStatus, Disjoint
  <2>4. CASE ~Busy
    <3>1. Live' = Claimed /\ \A t \in Claimed : status'[t] = "processing"
      BY <1>1, <2>1, <2>4, ClaimTable
    <3> QED BY <1>0, <2>1, <2>2, <3>1 DEF BatchInv, Whole, OneStatus, Disjoint
  <2> QED BY <2>3, <2>4
<1>2. CASE ~Claim(p)
  <2>1. \A q \in Procs : q # p => batch'[q] = batch[q]
    BY OthersStand
  <2>2. batch'[p] = batch[p] \/ batch'[p] = {}
    <3>1. CASE DrainStep(p)
      BY <1>2, <3>1
      DEF DrainStep, DrainStops, NextLease, NextQueued, DrainSleeps, Reject,
          Begin, Prepare, Clarify, Ask, RunTool, Answer, Throw, Apologise,
          Decide, Send, Finish, Hush, Goto, BatchOver, worker, TypeOK, WorkerOK
    <3> QED
      BY <3>1
      DEF Process, Enqueue, Refuse, NoticeFails, Cancel, AfterCommit, TimerFires, Seal,
          Monitor, Crash, Shutdown, Exit, Start, Cleared, worker, TypeOK, WorkerOK
  <2>3. Live' = {} \/ Live' = Live
    BY <1>2, LiveStep
  <2>4. Whole' /\ Disjoint'
    BY <2>1, <2>2, <2>3 DEF BatchInv, Whole, Disjoint
  <2>5. OneStatus'
    BY <1>2, LiveStep DEF BatchInv, OneStatus
  <2> QED BY <2>4, <2>5
<1> QED BY <1>1, <1>2

\* What a step owes the hands of one process q.
HandsOf(q) ==
    /\ drain[q] \notin AtWork => batch[q] = {} /\ ~aborted[q] /\ ~toolsReady[q]
    /\ drain[q] \in Ended => batch[q] \cap Live = {}
    /\ ~toolsReady[q] => \A t \in batch[q] \cap Live : status[t] = "processing"

LEMMA HandsOfAll == Unsealed /\ EmptyHands <=> \A q \in Procs : HandsOf(q)
  BY DEF Unsealed, EmptyHands, HandsOf

LEMMA OthersHands ==
  ASSUME TypeOK, OrderInv, OwnerInv, BatchInv,
         NEW p \in Procs, NEW q \in Procs \ {p}, Process(p)
  PROVE  HandsOf(q)'
<1>1. /\ drain'[q] = drain[q] /\ toolsReady'[q] = toolsReady[q]
      /\ batch'[q] = batch[q] /\ aborted'[q] = aborted[q]
  BY OthersStand
<1>2. HandsOf(q) /\ batch[q] \subseteq Turns
  BY HandsOfAll DEF BatchInv, TypeOK, WorkerOK
<1>3. \A t \in batch[q] \cap Live' : t \in Live /\ status'[t] = status[t]
  <2>1. CASE Claim(p)
    BY <1>2, <2>1, ClaimLeaves DEF Live
  <2>2. CASE ~Claim(p)
    <3>1. CASE Seal(p) /\ batch[p] = Live
      BY <3>1, <2>2, LiveStep DEF BatchInv, Disjoint
    <3> QED BY <2>2, <3>1, LiveStep
  <2> QED BY <2>1, <2>2
<1> QED BY <1>1, <1>2, <1>3 DEF HandsOf

LEMMA OwnHands ==
  ASSUME TypeOK, OrderInv, OwnerInv, BatchInv, NEW p \in Procs, Process(p)
  PROVE  HandsOf(p)'
<1>1. HandsOf(p) /\ batch[p] \subseteq Turns
  BY HandsOfAll DEF BatchInv, TypeOK, WorkerOK
<1> USE DEF AtWork, InBatch, Ended
<1>2. CASE Claim(p)
  <2>1. batch[p] = {} /\ ~aborted[p] /\ ~toolsReady[p]
    BY <1>1, <1>2 DEF HandsOf, Claim
  <2>2. batch'[p] = Claimed /\ ~aborted'[p] /\ ~toolsReady'[p]
        /\ drain'[p] = IF Claimed = {} THEN "next" ELSE "start"
    BY <1>2, <2>1 DEF Claim, TypeOK, LoopOK, WorkerOK
  <2>3. \A t \in Claimed : status'[t] = "processing"
    BY <1>2, ClaimTable
  <2> QED BY <2>2, <2>3 DEF HandsOf
<1>3. CASE Seal(p)
  <2>1. /\ drain'[p] = drain[p] /\ batch'[p] = batch[p] /\ toolsReady'[p]
        /\ drain[p] \in InBatch
    BY <1>3 DEF Seal, TypeOK, WorkerOK
  <2>2. Live' = Live \/ Live' = {}
    BY <1>3, LiveStep DEF Claim, Seal
  <2> QED BY <1>1, <2>1, <2>2 DEF HandsOf
<1>4. CASE \/ Reject(p) \/ Apologise(p) \/ Finish(p) \/ Crash(p) \/ Exit(p)
           \/ (aborted[p] /\ (Throw(p) \/ Decide(p)))
  <2>1. batch'[p] = {} /\ ~aborted'[p] /\ ~toolsReady'[p]
    BY <1>4
    DEF Reject, Apologise, Finish, Crash, Exit, Throw, Decide, Hush, Cleared,
        BatchOver, TypeOK, WorkerOK
  <2> QED BY <2>1 DEF HandsOf
<1>5. CASE Throw(p) /\ ~aborted[p]
  <2>1. /\ \E outcome \in {"completed", "failed"} : Settled(p, outcome)
        /\ drain'[p] \in Ended /\ UNCHANGED worker
    BY <1>5 DEF Throw, Goto, TypeOK, LoopOK
  <2>2. batch[p] \cap Live' = {}
    BY <1>1, <2>1 DEF Settled, Live
  <2> QED BY <2>1, <2>2 DEF HandsOf, worker
<1>6. CASE \/ TimerFires(p) \/ DrainStops(p) \/ NextLease(p) \/ NextQueued(p)
           \/ DrainSleeps(p) \/ Shutdown(p) \/ Start(p)
  <2>1. UNCHANGED <<status, batch, toolsReady, aborted>>
    BY <1>6
    DEF TimerFires, DrainStops, NextLease, NextQueued, DrainSleeps, Shutdown,
        Start, table, worker
  <2>2. \/ drain'[p] = drain[p]
        \/ drain[p] \notin AtWork /\ drain'[p] \notin AtWork
    BY <1>6
    DEF TimerFires, DrainStops, NextLease, NextQueued, DrainSleeps, Shutdown,
        Start, TypeOK, LoopOK
  <2> QED BY <1>1, <2>1, <2>2 DEF HandsOf, Live
<1>7. CASE \/ Begin(p) \/ Prepare(p) \/ Clarify(p) \/ Ask(p) \/ RunTool(p)
           \/ Answer(p) \/ Send(p) \/ (Decide(p) /\ ~aborted[p])
  <2>1. UNCHANGED <<status, batch, toolsReady, aborted>>
    BY <1>7
    DEF Begin, Prepare, Clarify, Ask, RunTool, Answer, Send, Decide, Goto,
        table, worker
  <2>2. drain[p] \in AtWork /\ drain'[p] \in AtWork \ Ended
    BY <1>7
    DEF Begin, Prepare, Clarify, Ask, RunTool, Answer, Send, Decide, Goto,
        TypeOK, LoopOK
  <2> QED BY <1>1, <2>1, <2>2 DEF HandsOf, Live
<1>8. CASE /\ ~Claim(p) /\ ~Seal(p)
           /\ \/ \E t \in Turns : Enqueue(p, t) \/ Refuse(p, t) \/ NoticeFails(p, t)
              \/ \E c \in Stops : Cancel(p, c)
              \/ \E m \in Turns \cup Stops : AfterCommit(p, m)
              \/ Monitor(p)
  <2>1. /\ UNCHANGED <<drain, batch, toolsReady>>
        /\ drain[p] \notin AtWork => aborted'[p] = aborted[p]
    BY <1>8
    DEF Enqueue, Refuse, NoticeFails, Cancel, AfterCommit, Monitor, worker, TypeOK,
        WorkerOK
  <2>2. \A t \in Live' : t \in Live /\ status'[t] = status[t]
    BY <1>8, LiveStep
  <2> QED BY <1>1, <2>1, <2>2 DEF HandsOf
<1>9. CASE Throw(p) \/ Decide(p)
  <2>1. CASE aborted[p]
    BY <1>4, <1>9, <2>1
  <2>2. CASE ~aborted[p]
    BY <1>5, <1>7, <1>9, <2>2
  <2> QED BY <2>1, <2>2
<1>10. CASE DrainStep(p)
  BY <1>2, <1>4, <1>6, <1>7, <1>9, <1>10 DEF DrainStep
<1> QED
  BY <1>2, <1>3, <1>4, <1>6, <1>8, <1>10, Zenon DEF Process

\* What a batch is does not look at the clock.
LEMMA BatchStill ==
  ASSUME BatchInv, UNCHANGED <<status, batch, drain, toolsReady, aborted>>
  PROVE  BatchInv'
<1>1. Live' = Live
  BY DEF Live
<1>2. Whole' /\ OneStatus' /\ Disjoint'
  BY <1>1 DEF BatchInv, Whole, OneStatus, Disjoint
<1>3. Unsealed' /\ EmptyHands'
  BY <1>1 DEF BatchInv, Unsealed, EmptyHands
<1> QED BY <1>2, <1>3 DEF BatchInv

LEMMA BatchStep ==
  TypeOK /\ OrderInv /\ OwnerInv /\ BatchInv /\ [Next]_vars => BatchInv'
<1> SUFFICES ASSUME TypeOK, OrderInv, OwnerInv, BatchInv, [Next]_vars
             PROVE  BatchInv'
  OBVIOUS
<1>1. CASE Tick \/ UNCHANGED vars
  BY <1>1, BatchStill DEF Tick, vars, table, worker
<1>2. ASSUME NEW p \in Procs, Process(p) PROVE BatchInv'
  <2>1. \A q \in Procs : HandsOf(q)'
    BY <1>2, OwnHands, OthersHands
  <2>2. Unsealed' /\ EmptyHands'
    BY <2>1 DEF HandsOf, Unsealed, EmptyHands
  <2> QED BY <1>2, <2>2, BatchTable DEF BatchInv
<1> QED BY <1>1, <1>2 DEF Next

LEMMA BatchInvariant ==
  ASSUME Stalls = FALSE PROVE Spec => [](TypeOK /\ OrderInv /\ OwnerInv /\ BatchInv)
  BY InitBatch, BatchStep, OwnerInvariant, OrderInvariant, PTL DEF Spec

-----------------------------------------------------------------------------
(* Sealed together. *)

\* A turn that was sealed never waits in the queue again.
NotWaiting ==
    \A t \in Turns : status[t] \in {"absent", "queued"} => sealedAs[t] = {}

SealInv == NotWaiting /\ SealedTogether

LEMMA InitSealed == Init => SealInv
  BY DEF Init, SealInv, NotWaiting, SealedTogether

\* All turns of one status go to one status.
LEMMA TogetherKept ==
  ASSUME TypeOK, SealInv, UNCHANGED sealedAs,
         \A t \in Turns : status'[t] \in {"absent", "queued"} =>
                              status[t] \in {"absent", "queued"},
         \A t, u \in Turns :
            status[t] = status[u] /\ status[t] \notin {"absent", "queued"} =>
                status'[t] = status'[u]
  PROVE  SealInv'
<1>1. NotWaiting'
  BY DEF SealInv, NotWaiting
<1>2. SealedTogether'
  BY DEF SealInv, NotWaiting, SealedTogether, TypeOK, SeenOK
<1> QED BY <1>1, <1>2 DEF SealInv

LEMMA SealTogether ==
  ASSUME TypeOK, OrderInv, BatchInv, SealInv, NEW p \in Procs, Seal(p)
  PROVE  SealInv'
<1> DEFINE sealed == {t \in batch[p] : /\ \A u \in batch[p] : ~cancelRequested[u]
                                       /\ status[t] = "processing"}
<1>1. /\ status' = [t \in Turns |-> IF t \in sealed THEN "sealed" ELSE status[t]]
      /\ sealedAs' = [t \in Turns |-> IF t \in sealed THEN batch[p] ELSE sealedAs[t]]
      /\ batch[p] \subseteq Turns /\ sealed \subseteq Live
  BY DEF Seal, TypeOK, WorkerOK, Live
<1>2. CASE sealed = {}
  <2>1. UNCHANGED <<status, sealedAs>>
    BY <1>1, <1>2 DEF TypeOK, TableOK, SeenOK
  <2> QED BY <2>1, TogetherKept
<1>3. CASE sealed # {}
  <2>1. batch[p] = Live
    BY <1>1, <1>3 DEF BatchInv, Whole
  <2>2. sealed = Live
    BY <1>3, <2>1 DEF BatchInv, OneStatus
  <2> HIDE DEF sealed
  <2>3. NotWaiting'
    BY <1>1, <2>2 DEF SealInv, NotWaiting, Live
  <2>4. SealedTogether'
    <3> SUFFICES ASSUME NEW t \in Turns, NEW u \in Turns, u \in sealedAs'[t]
                 PROVE  status'[u] = status'[t]
      BY DEF SealedTogether
    <3>1. CASE t \in Live
      BY <1>1, <2>1, <2>2, <3>1
    <3>2. CASE t \notin Live
      <4>1. u \in sealedAs[t] /\ status[u] = status[t]
        BY <1>1, <2>2, <3>2 DEF SealInv, SealedTogether
      <4>2. u \notin Live
        BY <3>2, <4>1 DEF Live
      <4> QED BY <1>1, <2>2, <3>2, <4>1, <4>2
    <3> QED BY <3>1, <3>2
  <2> QED BY <2>3, <2>4 DEF SealInv
<1> QED BY <1>2, <1>3

LEMMA SealStep ==
  TypeOK /\ OrderInv /\ OwnerInv /\ BatchInv /\ SealInv /\ [Next]_vars => SealInv'
<1> SUFFICES ASSUME TypeOK, OrderInv, OwnerInv, BatchInv, SealInv, [Next]_vars
             PROVE  SealInv'
  OBVIOUS
<1>1. CASE Tick \/ UNCHANGED vars
  BY <1>1, TogetherKept DEF Tick, vars, table, seen
<1>2. ASSUME NEW p \in Procs, Process(p) PROVE SealInv'
  <2>1. CASE Seal(p)
    BY <2>1, SealTogether
  <2>2. CASE ~Seal(p)
    <3>1. UNCHANGED sealedAs
      <4>1. CASE DrainStep(p)
        BY <4>1
        DEF DrainStep, Claim, DrainStops, NextLease, NextQueued, DrainSleeps,
            Reject, Begin, Prepare, Clarify, Ask, RunTool, Answer, Throw,
            Apologise, Decide, Send, Finish, seen
      <4> QED
        BY <1>2, <2>2, <4>1
        DEF Process, Enqueue, Refuse, NoticeFails, Cancel, AfterCommit, TimerFires, Monitor,
            Crash, Shutdown, Exit, Start, seen
    <3>2. CASE Claim(p)
      <4>1. \A t \in Turns : status[t] \in Terminal \cup {"absent"} => t \notin Claimed
        BY <3>2, ClaimTable DEF Open, Terminal
      <4>2. ~Busy => Live \subseteq Claimed
        BY <3>2, ClaimTable
      <4> QED
        BY <3>1, <3>2, <4>1, <4>2, ClaimTable, TogetherKept
        DEF Live, Terminal, Status, Open, TypeOK, TableOK
    <3>3. CASE \E t \in Turns : Enqueue(p, t)
      BY <3>1, <3>3, TogetherKept
      DEF Enqueue, EnqueueTx, OrderInv, StoredOnce, TypeOK, TableOK
    <3>4. CASE \E c \in Stops : Cancel(p, c)
      BY <3>1, <3>4, TogetherKept DEF Cancel, Open
    <3>5. CASE \E outcome \in {"completed", "failed"} : Settled(p, outcome)
      BY <3>1, <3>5, TogetherKept DEF Settled, BatchInv, Whole, Live
    <3>6. CASE Monitor(p) \/ UNCHANGED table
      BY <3>1, <3>6, TogetherKept DEF Monitor, table
    <3> QED BY <1>2, <2>2, <3>2, <3>3, <3>4, <3>5, <3>6, StepsOfTable
  <2> QED BY <2>1, <2>2
<1> QED BY <1>1, <1>2 DEF Next

\* While renewals are on time, turns that were sealed in one batch are claimed
\* again, answered and ended together, whatever crashes.
THEOREM SealedTogetherCorrect ==
  ASSUME Stalls = FALSE PROVE Spec => []SealedTogether
<1>1. SealInv => SealedTogether
  BY DEF SealInv
<1> QED BY <1>1, InitSealed, SealStep, BatchInvariant, PTL DEF Spec

-----------------------------------------------------------------------------
(* Answered once. *)

\* A turn nobody has been told about since the last crash: it has not ended
\* and nobody works on it, or its worker has not sent the answer yet.
Answered == {"finish", "excuse"}
Unsaid(t) ==
    \/ status[t] \notin Terminal /\ \A p \in Procs : t \notin batch[p]
    \/ \E p \in Procs : t \in batch[p] /\ drain[p] \notin Answered

\* A turn whose answer was followed by an excuse is over.
Closed == \A t \in doubted : status[t] \in Terminal
                           /\ \A p \in Procs : t \notin batch[p]

Due(t) == IF Unsaid(t) THEN 0 ELSE IF t \in doubted THEN 2 ELSE 1
Spoken == \A t \in Turns : replies[t] <= crashes + Due(t)
Replied == Closed /\ Spoken

LEMMA InitReplied == Init => Replied
<1> SUFFICES ASSUME Init PROVE Replied
  OBVIOUS
<1>1. /\ crashes = 0 /\ doubted = {} /\ \A t \in Turns : replies[t] = 0
      /\ \A t \in Turns : Due(t) \in {0, 1, 2}
  BY DEF Init, Due
<1> QED BY <1>1 DEF Replied, Closed, Spoken

\* Between the answer and the end of the batch a process does nothing else.
LEMMA AfterSend ==
  ASSUME TypeOK, NEW p \in Procs, Process(p), drain[p] \in Answered,
         ~Finish(p), ~Throw(p), ~Apologise(p), ~Crash(p)
  PROVE  drain'[p] = drain[p] /\ batch'[p] = batch[p]
<1>1. ~DrainStep(p)
  BY DEF DrainStep, Claim, DrainStops, NextLease, NextQueued, DrainSleeps,
         Reject, Begin, Prepare, Clarify, Ask, RunTool, Answer, Decide, Send,
         Answered
<1> QED
  BY <1>1
  DEF Process, Enqueue, Refuse, NoticeFails, Cancel, AfterCommit, TimerFires, Seal,
      Monitor, Shutdown, Exit, Start, worker, Answered, TypeOK, LoopOK, WorkerOK

\* An end of the batch is an end of each of its turns.
LEMMA EndsTurns ==
  ASSUME TypeOK, OwnerInv, NEW p \in Procs, NEW t \in batch[p],
         \E outcome \in {"completed", "failed"} : Settled(p, outcome)
  PROVE  status'[t] \in Terminal
BY DEF Settled, Live, Terminal, Status, Open, OwnerInv, NotReturned, TypeOK,
       TableOK, WorkerOK

\* Without a crash, a turn that was spoken about stays so.
LEMMA SaidStays ==
  ASSUME TypeOK, OrderInv, OwnerInv, BatchInv, NEW p \in Procs, Process(p),
         ~Crash(p), NEW t \in Turns, Unsaid(t)'
  PROVE  Unsaid(t)
<1>0. batch \in [Procs -> SUBSET Turns]
  BY DEF TypeOK, WorkerOK
<1>1. status[t] \in Terminal => status'[t] = status[t]
  <2>1. [Next]_vars
    BY DEF Next
  <2> QED BY <2>1, EndStep DEF vars, table
<1>2. CASE Claim(p)
  <2>1. /\ batch' = [batch EXCEPT ![p] = Claimed] /\ Claimed \subseteq Turns
        /\ \A q \in Procs : batch[q] \cap Claimed = {}
        /\ \A u \in Claimed : status[u] \in Open
    BY <1>2, ClaimTable, ClaimLeaves
  <2>2. CASE t \in Claimed
    BY <2>1, <2>2 DEF Unsaid, Open, Terminal
  <2>3. CASE t \notin Claimed
    <3>1. /\ drain[p] \notin Answered
          /\ \A q \in Procs : q # p => drain'[q] = drain[q]
      BY <1>2 DEF Claim, Answered, TypeOK, LoopOK
    <3> QED BY <1>0, <1>1, <2>1, <2>3, <3>1 DEF Unsaid
  <2> QED BY <2>2, <2>3
<1>3. CASE ~Claim(p)
  <2>1. \A q \in Procs : batch'[q] \subseteq batch[q]
    BY <1>3, BatchesShrink
  <2>2. \A q \in Procs : q # p => batch'[q] = batch[q] /\ drain'[q] = drain[q]
    BY OthersStand
  <2>3. CASE drain[p] \notin Answered \/ t \notin batch[p]
    BY <1>1, <2>1, <2>2, <2>3 DEF Unsaid
  <2>4. CASE drain[p] \in Answered /\ t \in batch[p]
    <3>1. ASSUME batch'[p] = {}, status'[t] \in Terminal PROVE FALSE
      <4>1. \A q \in Procs : t \notin batch'[q]
        BY <2>1, <2>4, <3>1 DEF BatchInv, Disjoint
      <4> QED BY <3>1, <4>1 DEF Unsaid
    <3>2. CASE Finish(p) \/ (Throw(p) /\ aborted[p])
      <4>1. batch'[p] = {} /\ \E outcome \in {"completed", "failed"} :
                                Settled(p, outcome)
        BY <1>0, <3>2 DEF Finish, Throw, Hush, BatchOver
      <4> QED BY <2>4, <3>1, <4>1, EndsTurns
    <3>3. CASE Apologise(p)
      <4>1. batch'[p] = {} /\ UNCHANGED status
        BY <1>0, <3>3 DEF Apologise, BatchOver, table
      <4>2. status[t] \in Terminal
        BY <2>4, <3>3
        DEF Apologise, BatchInv, EmptyHands, OwnerInv, NotReturned, Live,
            Terminal, Status, Open, TypeOK, TableOK
      <4> QED BY <3>1, <4>1, <4>2
    <3>4. CASE Throw(p) /\ ~aborted[p]
      <4>1. drain'[p] = "excuse" /\ batch' = batch
        BY <2>4, <3>4
        DEF Throw, Goto, worker, Answered, TypeOK, LoopOK
      <4> QED BY <2>2, <2>4, <4>1 DEF Unsaid, Answered, BatchInv, Disjoint
    <3>5. CASE ~Finish(p) /\ ~Throw(p) /\ ~Apologise(p)
      BY <2>1, <2>2, <2>4, <3>5, AfterSend DEF Unsaid
    <3> QED BY <3>2, <3>3, <3>4, <3>5
  <2> QED BY <2>3, <2>4
<1> QED BY <1>2, <1>3

\* Who apologises has ended the turns; nobody else has them.
LEMMA ApologyCloses ==
  ASSUME TypeOK, OwnerInv, BatchInv, NEW p \in Procs, Apologise(p),
         NEW t \in batch[p]
  PROVE  status'[t] \in Terminal /\ \A q \in Procs : t \notin batch'[q]
<1>1. batch' = [batch EXCEPT ![p] = {}] /\ UNCHANGED status
  BY DEF Apologise, BatchOver, table
<1>2. status[t] \in Terminal
  BY DEF Apologise, BatchInv, EmptyHands, OwnerInv, NotReturned, Live,
         Terminal, Status, Open, TypeOK, TableOK, WorkerOK
<1> QED BY <1>1, <1>2 DEF BatchInv, Disjoint, TypeOK, WorkerOK

LEMMA ClosedStep ==
  ASSUME TypeOK, OrderInv, OwnerInv, BatchInv, Closed, NEW p \in Procs,
         Process(p)
  PROVE  Closed'
<1> SUFFICES ASSUME NEW t \in doubted'
             PROVE  status'[t] \in Terminal /\ \A q \in Procs : t \notin batch'[q]
  BY DEF Closed
<1>0. batch \in [Procs -> SUBSET Turns] /\ doubted \subseteq Turns
  BY DEF TypeOK, WorkerOK, SeenOK
<1>1. CASE t \in doubted
  <2>1. status'[t] \in Terminal
    <3>1. [Next]_vars
      BY DEF Next
    <3> QED BY <1>0, <1>1, <3>1, EndStep DEF Closed, vars, table
  <2>2. CASE Claim(p)
    <3>1. /\ batch' = [batch EXCEPT ![p] = Claimed]
          /\ \A u \in Claimed : status[u] \in Open
      BY <2>2, ClaimTable, ClaimLeaves
    <3> QED BY <1>0, <1>1, <2>1, <3>1 DEF Closed, Open, Terminal
  <2>3. CASE ~Claim(p)
    BY <1>1, <2>1, <2>3, BatchesShrink DEF Closed
  <2> QED BY <2>2, <2>3
<1>2. CASE t \notin doubted
  <2>1. Apologise(p) /\ t \in batch[p]
    <3>1. CASE DrainStep(p)
      BY <1>2, <3>1
      DEF DrainStep, Claim, DrainStops, NextLease, NextQueued, DrainSleeps,
          Reject, Begin, Prepare, Clarify, Ask, RunTool, Answer, Throw,
          Apologise, Decide, Send, Finish, seen
    <3>2. CASE ~DrainStep(p)
      BY <1>2, <3>2
      DEF Process, Enqueue, Refuse, NoticeFails, Cancel, AfterCommit, TimerFires,
          Seal, Monitor, Crash, Shutdown, Exit, Start, seen
    <3> QED BY <3>1, <3>2
  <2> QED BY <2>1, ApologyCloses
<1> QED BY <1>1, <1>2

\* What was said stands for every turn of the batch, and for it alone.
LEMMA SaySpoken ==
  ASSUME TypeOK, OrderInv, OwnerInv, BatchInv, Replied, NEW p \in Procs,
         Send(p) \/ Apologise(p)
  PROVE  Spoken'
<1> SUFFICES ASSUME NEW t \in Turns PROVE replies'[t] <= crashes' + Due(t)'
  BY DEF Spoken
<1>1. Process(p) /\ ~Crash(p) /\ UNCHANGED crashes
  <2>1. UNCHANGED crashes /\ Process(p)
    BY DEF Process, DrainStep, Send, Apologise, bounds
  <2>2. crashes # crashes + 1
    BY DEF TypeOK, SeenOK
  <2> QED BY <2>1, <2>2 DEF Crash
<1>2. replies[t] \in Nat /\ crashes \in Nat /\ replies[t] <= crashes + Due(t)
  BY DEF TypeOK, SeenOK, Replied, Spoken
<1>3. doubted \subseteq doubted' /\ (Unsaid(t)' => Unsaid(t))
  BY <1>1, SaidStays DEF Send, Apologise
<1>4. CASE replies'[t] = replies[t]
  <2>1. Due(t) \in {0, 1, 2} /\ Due(t)' \in {0, 1, 2} /\ Due(t) <= Due(t)'
    BY <1>3 DEF Due
  <2> QED BY <1>1, <1>2, <1>4, <2>1
<1>5. CASE replies'[t] # replies[t]
  <2>1. t \in batch[p] /\ replies'[t] = replies[t] + 1
    BY <1>5 DEF Send, Apologise, Said
  <2>2. t \notin doubted
    BY <2>1 DEF Replied, Closed
  <2>3. ~Unsaid(t)'
    <3>1. \A q \in Procs : q # p => t \notin batch'[q]
      BY <1>1, <2>1, OthersStand DEF BatchInv, Disjoint
    <3>2. CASE Send(p)
      BY <2>1, <3>1, <3>2
      DEF Unsaid, Answered, Send, Goto, worker, TypeOK, LoopOK
    <3>3. CASE Apologise(p)
      BY <2>1, <3>3, ApologyCloses DEF Unsaid
    <3> QED BY <3>2, <3>3
  <2>4. CASE Unsaid(t)
    <3>1. Due(t) = 0 /\ Due(t)' \in {1, 2}
      BY <2>3, <2>4 DEF Due
    <3> QED BY <1>1, <1>2, <2>1, <3>1
  <2>5. CASE ~Unsaid(t)
    <3>1. Apologise(p) /\ drain[p] = "excuse"
      BY <2>1, <2>5 DEF Unsaid, Answered, Send, Apologise, Ended
    <3>2. t \in doubted'
      BY <1>5, <2>1, <3>1 DEF Apologise
    <3>3. Due(t) = 1 /\ Due(t)' = 2
      BY <2>2, <2>3, <2>5, <3>2 DEF Due
    <3> QED BY <1>1, <1>2, <2>1, <3>3
  <2> QED BY <2>4, <2>5
<1> QED BY <1>4, <1>5

LEMMA SpokenStep ==
  ASSUME TypeOK, OrderInv, OwnerInv, BatchInv, Replied, NEW p \in Procs,
         Process(p)
  PROVE  Spoken'
<1>1. CASE Send(p) \/ Apologise(p)
  BY <1>1, SaySpoken
<1>2. CASE Crash(p)
  <2> SUFFICES ASSUME NEW t \in Turns PROVE replies'[t] <= crashes' + Due(t)'
    BY DEF Spoken
  <2>1. crashes' = crashes + 1 /\ UNCHANGED <<replies, doubted>>
    BY <1>2 DEF Crash, seen
  <2>2. replies[t] \in Nat /\ crashes \in Nat /\ replies[t] <= crashes + Due(t)
    BY DEF TypeOK, SeenOK, Replied, Spoken
  <2>3. CASE t \in doubted
    <3>1. ~Unsaid(t)'
      BY <2>1, <2>3, ClosedStep DEF Replied, Closed, Unsaid
    <3>2. Due(t)' = 2 /\ Due(t) \in {0, 1, 2}
      BY <2>1, <2>3, <3>1 DEF Due
    <3> QED BY <2>1, <2>2, <3>2
  <2>4. CASE t \notin doubted
    <3>1. Due(t) \in {0, 1} /\ Due(t)' \in {0, 1}
      BY <2>1, <2>4 DEF Due
    <3> QED BY <2>1, <2>2, <3>1
  <2> QED BY <2>3, <2>4
<1>3. CASE ~Send(p) /\ ~Apologise(p) /\ ~Crash(p)
  <2>1. UNCHANGED <<replies, doubted, crashes>>
    <3>1. CASE DrainStep(p)
      BY <1>3, <3>1
      DEF DrainStep, Claim, DrainStops, NextLease, NextQueued, DrainSleeps,
          Reject, Begin, Prepare, Clarify, Ask, RunTool, Answer, Throw,
          Decide, Finish, seen, bounds
    <3> QED
      BY <1>3, <3>1
      DEF Process, Enqueue, Refuse, NoticeFails, Cancel, AfterCommit, TimerFires,
          Seal, Monitor, Shutdown, Exit, Start, seen, bounds
  <2> SUFFICES ASSUME NEW t \in Turns PROVE replies[t] <= crashes + Due(t)'
    BY <2>1 DEF Spoken
  <2>2. replies[t] \in Nat /\ crashes \in Nat /\ replies[t] <= crashes + Due(t)
    BY DEF TypeOK, SeenOK, Replied, Spoken
  <2>3. Unsaid(t)' => Unsaid(t)
    BY <1>3, SaidStays
  <2>4. Due(t) \in {0, 1, 2} /\ Due(t)' \in {0, 1, 2} /\ Due(t) <= Due(t)'
    BY <2>1, <2>3 DEF Due
  <2> QED BY <2>2, <2>4
<1> QED BY <1>1, <1>2, <1>3

LEMMA ReplyStep ==
  TypeOK /\ OrderInv /\ OwnerInv /\ BatchInv /\ Replied /\ [Next]_vars => Replied'
<1> SUFFICES ASSUME TypeOK, OrderInv, OwnerInv, BatchInv, Replied, [Next]_vars
             PROVE  Replied'
  OBVIOUS
<1>1. CASE Tick \/ UNCHANGED vars
  <2>1. UNCHANGED <<status, batch, drain, replies, doubted, crashes>>
    BY <1>1 DEF Tick, vars, table, worker, seen, bounds
  <2> QED BY <2>1 DEF Replied, Closed, Spoken, Due, Unsaid
<1>2. ASSUME NEW p \in Procs, Process(p) PROVE Replied'
  BY <1>2, ClosedStep, SpokenStep DEF Replied
<1> QED BY <1>1, <1>2 DEF Next

\* While renewals are on time, a user reads one answer to a message, one more
\* for each crash that came between an answer and the end of its batch, and at
\* most one apology, for an answer whose sending or completion threw.
THEOREM AnsweredCorrect ==
  ASSUME Stalls = FALSE PROVE Spec => []AnsweredOnce
<1>1. TypeOK /\ Replied => AnsweredOnce
  <2> SUFFICES ASSUME TypeOK, Replied, NEW t \in Turns
               PROVE  replies[t] <= crashes + (IF t \in doubted THEN 2 ELSE 1)
    BY DEF AnsweredOnce
  <2>1. replies[t] \in Nat /\ crashes \in Nat /\ replies[t] <= crashes + Due(t)
    BY DEF TypeOK, SeenOK, Replied, Spoken
  <2>2. Due(t) \in {0, 1, 2} /\ (t \notin doubted => Due(t) # 2)
    BY DEF Due
  <2> QED BY <2>1, <2>2
<1> QED BY <1>1, InitReplied, ReplyStep, BatchInvariant, PTL DEF Spec

-----------------------------------------------------------------------------
(* Dropped only for a newer message.  A batch is dropped when its signal is *)
(* aborted, and a handler aborts what its own transaction superseded some   *)
(* time before: the turns must not have been claimed again in between.      *)

\* A message of the chat came after everything that is being worked on.
Newer == \E u \in Turns : \A t \in Live : createdAt[u] > createdAt[t]

\* What a message superseded has ended, or its lease outlasts the handler.
InTime ==
    \A m \in Turns : inbound[m].pc = "committed" =>
        \A a \in inbound[m].abort :
            /\ status[a] \notin {"absent", "queued"}
            /\ a \in Live => leaseLeft[a] + inbound[m].lag > MaxLag /\ Newer

\* What a /stop found at work has ended.
StopsDone ==
    \A m \in Stops : \A a \in inbound[m].abort : status[a] \in Terminal

\* What is asked to stop while it is worked on has something newer.
Marked == \A a \in Live : cancelRequested[a] => Newer
AbortedNewer ==
    \A p \in Procs : aborted[p] /\ batch[p] \cap Live # {} => Newer

HushedEnded == \A t \in hushed : status[t] \in Terminal

DropInv == /\ InTime /\ StopsDone /\ Marked /\ AbortedNewer
           /\ HushedEnded /\ NoSilentDrop

LEMMA InitDrop == Init => DropInv
  BY DEF Init, DropInv, InTime, StopsDone, Marked, AbortedNewer, HushedEnded,
         NoSilentDrop, Live

\* A step that brings no turn to work and delivers no message.
LEMMA DropKept ==
  ASSUME TypeOK, TypeOK', DropInv, UNCHANGED createdAt,
         Live' = {} \/ Live' = Live,
         \A t \in Turns : /\ status[t] \in Terminal => status'[t] \in Terminal
                          /\ status[t] \notin {"absent", "queued"} =>
                               status'[t] \notin {"absent", "queued"},
         \A a \in Live' : /\ cancelRequested'[a] = cancelRequested[a]
                          /\ leaseLeft'[a] >= leaseLeft[a],
         \A m \in Turns \cup Stops :
            inbound'[m] = inbound[m] \/ inbound'[m] = Handled
  PROVE  /\ InTime' /\ StopsDone' /\ Marked'
         /\ Newer => Newer'
         /\ \A t \in hushed : status'[t] \in Terminal
<1>0. /\ \A m \in Turns \cup Stops : inbound[m].abort \subseteq Turns
                                     /\ inbound[m].lag \in 0 .. MaxLag
      /\ leaseLeft \in [Turns -> 0 .. Lease] /\ Live \subseteq Turns
      /\ hushed \subseteq Turns
  BY DEF TypeOK, MessageOK, TableOK, SeenOK, Live
<1>1. Newer => Newer'
  BY DEF Newer
<1>2. InTime'
  <2> SUFFICES ASSUME NEW m \in Turns, inbound'[m].pc = "committed",
                      NEW a \in inbound'[m].abort
               PROVE  /\ status'[a] \notin {"absent", "queued"}
                      /\ a \in Live' => /\ leaseLeft'[a] + inbound'[m].lag > MaxLag
                                        /\ Newer'
    BY DEF InTime
  <2>1. inbound'[m] = inbound[m]
    BY DEF Handled
  <2>2. /\ a \in Turns /\ status[a] \notin {"absent", "queued"}
        /\ a \in Live => leaseLeft[a] + inbound[m].lag > MaxLag /\ Newer
    BY <1>0, <2>1 DEF DropInv, InTime
  <2>3. a \in Live' => leaseLeft'[a] >= leaseLeft[a] /\ a \in Live
    OBVIOUS
  <2>4. leaseLeft'[a] \in Int /\ leaseLeft[a] \in Int /\ inbound[m].lag \in Int
        /\ MaxLag \in Int
    BY <1>0, <2>2, TimeAssumption DEF TypeOK, TableOK
  <2> QED BY <1>1, <2>1, <2>2, <2>3, <2>4
<1>3. StopsDone'
  BY <1>0 DEF DropInv, StopsDone, Handled
<1>4. Marked'
  BY <1>1 DEF DropInv, Marked
<1>5. \A t \in hushed : status'[t] \in Terminal
  BY <1>0 DEF DropInv, HushedEnded
<1> QED BY <1>1, <1>2, <1>3, <1>4, <1>5

\* A newer message in the queue is newer than all that is worked on.
LEMMA EnqueueDrop ==
  ASSUME TypeOK, OrderInv, DropInv, NEW p \in Procs, NEW t \in Turns,
         Enqueue(p, t)
  PROVE  DropInv'
<1>1. PICK lag \in 0 .. MaxLag, S \in SUBSET Turns :
        /\ IF Supersedable(lag) = {} THEN S = {}
           ELSE \E a \in Supersedable(lag) : S = {a}
        /\ \E key \in BurstKeys(t, lag, S) : EnqueueTx(t, lag, S, key)
        /\ inbound' = [inbound EXCEPT ![t] =
                         [pc |-> "committed", at |-> {p}, abort |-> S,
                          lag |-> lag]]
  BY DEF Enqueue
<1>2. /\ status[t] = "absent" /\ status' = [status EXCEPT ![t] = "queued"]
      /\ createdAt' = [createdAt EXCEPT ![t] = arrivals + 1]
      /\ UNCHANGED <<leaseLeft, aborted, batch, hushed>>
  BY <1>1
  DEF Enqueue, EnqueueTx, OrderInv, StoredOnce, worker, seen
<1>3. Live' = Live /\ t \notin Live /\ Live \subseteq Turns
  BY <1>2 DEF Live, TypeOK, TableOK
<1>4. Newer'
  BY <1>2, <1>3
  DEF Newer, OrderInv, StrictOrder, TypeOK, TableOK
<1>5. InTime'
  <2> SUFFICES ASSUME NEW m \in Turns, inbound'[m].pc = "committed",
                      NEW a \in inbound'[m].abort
               PROVE  /\ status'[a] \notin {"absent", "queued"}
                      /\ a \in Live' => leaseLeft'[a] + inbound'[m].lag > MaxLag
    BY <1>4 DEF InTime
  <2>1. CASE m = t
    <3>1. inbound'[m].abort = S /\ inbound'[m].lag = lag
      BY <1>1, <2>1 DEF TypeOK, MessageOK
    <3>2. a \in Supersedable(lag)
      BY <1>1, <3>1
    <3>3. a \in Live /\ startedAgo[a] <= BurstWindow + lag
          /\ status[a] = "processing"
      BY <3>2 DEF Supersedable, Live
    <3>4. leaseLeft[a] + startedAgo[a] >= Lease
      BY <3>3 DEF OrderInv, OneBatch
    <3>5. leaseLeft[a] + lag > MaxLag
      BY <1>3, <3>3, <3>4, TimeAssumption DEF TypeOK, TableOK
    <3> QED BY <1>2, <1>3, <3>1, <3>3, <3>5 DEF TypeOK, TableOK
  <2>2. CASE m # t
    <3>1. inbound'[m] = inbound[m] /\ inbound[m].abort \subseteq Turns
      BY <1>1, <2>2 DEF TypeOK, MessageOK
    <3> QED BY <1>2, <1>3, <3>1 DEF DropInv, InTime, TypeOK, TableOK
  <2> QED BY <2>1, <2>2
<1>6. StopsDone'
  <2>1. \A m \in Stops : inbound'[m] = inbound[m] /\ inbound[m].abort \subseteq Turns
    BY <1>1, TurnsAssumption DEF TypeOK, MessageOK
  <2> QED BY <1>2, <2>1 DEF DropInv, StopsDone, Terminal, TypeOK, TableOK
<1>7. Marked' /\ AbortedNewer'
  BY <1>4 DEF Marked, AbortedNewer
<1>8. HushedEnded' /\ NoSilentDrop'
  <2>1. hushed \subseteq Turns /\ t \notin hushed
    BY <1>2 DEF DropInv, HushedEnded, Terminal, TypeOK, SeenOK
  <2>2. HushedEnded'
    BY <1>2, <2>1 DEF DropInv, HushedEnded, TypeOK, TableOK
  <2>3. \A s \in hushed : createdAt'[s] = createdAt[s] /\ createdAt'[t] > createdAt[s]
    BY <1>2, <2>1 DEF OrderInv, StrictOrder, TypeOK, TableOK
  <2> QED BY <1>2, <2>2, <2>3 DEF NoSilentDrop
<1> QED BY <1>5, <1>6, <1>7, <1>8 DEF DropInv

\* A claim that takes anything comes after every handler that could abort it.
LEMMA ClaimDrop ==
  ASSUME TypeOK, OrderInv, OwnerInv, BatchInv, DropInv, NEW p \in Procs, Claim(p)
  PROVE  DropInv'
<1>1. UNCHANGED <<createdAt, inbound, aborted, hushed>>
  BY DEF Claim, seen
<1>2. batch \in [Procs -> SUBSET Turns] /\ batch' = [batch EXCEPT ![p] = Claimed]
      /\ ~aborted[p] /\ Claimed \subseteq Turns
      /\ \A q \in Procs : batch[q] \cap Claimed = {}
  BY ClaimTable, ClaimLeaves
  DEF Claim, BatchInv, EmptyHands, AtWork, InBatch, TypeOK, WorkerOK
<1>3. \A t \in Turns : status[t] \in Terminal => status'[t] = status[t]
  BY ClaimTable DEF Open, Terminal
<1>4. \A m \in Turns \cup Stops : /\ inbound[m].abort \subseteq Turns
                                  /\ inbound[m].lag \in 0 .. MaxLag
  BY DEF TypeOK, MessageOK
<1>5. hushed \subseteq Turns /\ HushedEnded' /\ NoSilentDrop' /\ StopsDone'
  BY <1>1, <1>3, <1>4
  DEF DropInv, HushedEnded, NoSilentDrop, StopsDone, TypeOK, SeenOK
<1>6. CASE Busy
  <2>1. UNCHANGED <<status, leaseLeft, cancelRequested>> /\ Claimed = {}
    BY <1>6, ClaimTable
  <2>2. Live' = Live /\ (Newer' <=> Newer)
    BY <1>1, <2>1 DEF Live, Newer
  <2>3. InTime' /\ Marked' /\ AbortedNewer'
    BY <1>1, <1>2, <2>1, <2>2 DEF DropInv, InTime, Marked, AbortedNewer
  <2> QED BY <1>5, <2>3 DEF DropInv
<1>7. CASE ~Busy
  <2>1. Live' = Claimed /\ \A t \in Claimed : ~cancelRequested'[t]
    BY <1>2, <1>7, ClaimTable
  <2>2. Marked'
    BY <2>1 DEF Marked
  <2>3. AbortedNewer'
    BY <1>1, <1>2, <2>1 DEF AbortedNewer
  <2>4. InTime'
    <3> SUFFICES ASSUME NEW m \in Turns, inbound[m].pc = "committed",
                        NEW a \in inbound[m].abort
                 PROVE  status'[a] \notin {"absent", "queued"} /\ a \notin Live'
      BY <1>1 DEF InTime
    <3>1. a \in Turns /\ status[a] \notin {"absent", "queued"}
      BY <1>4 DEF DropInv, InTime
    <3>2. a \notin Live
      <4>1. SUFFICES ASSUME a \in Live PROVE FALSE
        OBVIOUS
      <4>2. leaseLeft[a] = 0
        BY <1>7, <3>1, <4>1 DEF Busy, TypeOK, TableOK
      <4>3. inbound[m].lag > MaxLag
        BY <1>4, <4>1, <4>2 DEF DropInv, InTime
      <4> QED BY <1>4, <4>3, TimeAssumption
    <3>3. status[a] \in Terminal
      BY <3>1, <3>2 DEF Live, Terminal, Status, Open, TypeOK, TableOK
    <3> QED BY <1>3, <3>1, <3>3 DEF Terminal, Live
  <2> QED BY <1>5, <2>2, <2>3, <2>4 DEF DropInv
<1> QED BY <1>6, <1>7


\* The process that takes a step: what it may do to what is worked on.
LEMMA DropFrame ==
  ASSUME TypeOK, OrderInv, OwnerInv, BatchInv, DropInv, NEW p \in Procs,
         Process(p), ~Claim(p), \A t \in Turns : ~Enqueue(p, t),
         \A c \in Stops : ~Cancel(p, c)
  PROVE  /\ InTime' /\ StopsDone' /\ Marked'
         /\ Newer => Newer'
         /\ \A t \in hushed : status'[t] \in Terminal
         /\ UNCHANGED createdAt /\ (Live' = {} \/ Live' = Live)
<1>1. [Next]_vars /\ TypeOK'
  BY NextType DEF Next
<1>2. Live' = {} \/ Live' = Live
  BY LiveStep
<1>3. /\ UNCHANGED <<createdAt, cancelRequested>>
      /\ \A t \in Turns : status[t] \notin {"absent", "queued"} =>
                               status'[t] \notin {"absent", "queued"}
      /\ \A a \in Live' : leaseLeft'[a] >= leaseLeft[a]
  <2>0. leaseLeft \in [Turns -> 0 .. Lease] /\ Live \subseteq Turns
        /\ Live' \subseteq Live /\ Lease \in Nat
    BY <1>2, TimeAssumption DEF TypeOK, TableOK, Live
  <2>1. CASE Seal(p)
    BY <2>0, <2>1 DEF Seal
  <2>2. CASE Monitor(p)
    BY <2>0, <2>2 DEF Monitor, Renewal
  <2>3. CASE \E outcome \in {"completed", "failed"} : Settled(p, outcome)
    <3>1. \A a \in Live' : leaseLeft'[a] = leaseLeft[a]
      BY <2>0, <2>3 DEF Settled, Live
    <3> QED BY <2>0, <2>3, <3>1 DEF Settled
  <2>4. CASE UNCHANGED table
    BY <2>0, <2>4 DEF table
  <2> QED BY <2>1, <2>2, <2>3, <2>4, StepsOfTable
<1>4. \A t \in Turns : status[t] \in Terminal => status'[t] \in Terminal
  BY <1>1, EndStep DEF vars, table
<1>5. \A m \in Turns \cup Stops : inbound'[m] = inbound[m] \/ inbound'[m] = Handled
  <2>1. CASE DrainStep(p)
    BY <2>1
    DEF DrainStep, Claim, DrainStops, NextLease, NextQueued, DrainSleeps, Reject,
        Begin, Prepare, Clarify, Ask, RunTool, Answer, Throw, Apologise,
        Decide, Send, Finish
  <2> QED
    BY <2>1
    DEF Process, Refuse, NoticeFails, AfterCommit, TimerFires, Seal, Monitor, Crash, Shutdown,
        Exit, Start, Cleared, TypeOK, MessageOK
<1> QED BY <1>1, <1>2, <1>3, <1>4, <1>5, DropKept

\* Nobody's signal is aborted for a batch that has nothing newer.
LEMMA AbortedDrop ==
  ASSUME TypeOK, OrderInv, OwnerInv, BatchInv, DropInv, NEW p \in Procs,
         Process(p), ~Claim(p), \A t \in Turns : ~Enqueue(p, t),
         \A c \in Stops : ~Cancel(p, c)
  PROVE  AbortedNewer'
<1> SUFFICES ASSUME NEW q \in Procs, aborted'[q], batch'[q] \cap Live' # {}
             PROVE  Newer'
  BY DEF AbortedNewer
<1>1. batch'[q] \subseteq batch[q]
  BY BatchesShrink
<1>2. Live' = Live /\ batch[q] = Live /\ Live # {}
  BY <1>1, DropFrame DEF BatchInv, Whole
<1>3. CASE aborted[q]
  BY <1>2, <1>3, DropFrame DEF DropInv, AbortedNewer
<1>4. CASE ~aborted[q]
  <2>1. q = p
    BY <1>4, OthersStand
  <2>2. aborted \in [Procs -> BOOLEAN] /\ Live \subseteq Turns
    BY DEF TypeOK, WorkerOK, Live
  <2>3. \/ \E m \in Turns \cup Stops : AfterCommit(p, m)
        \/ Seal(p) \/ Monitor(p)
    <3>1. CASE DrainStep(p)
      BY <1>4, <2>1, <2>2, <3>1
      DEF DrainStep, DrainStops, NextLease, NextQueued, DrainSleeps, Reject,
          Begin, Prepare, Clarify, Ask, RunTool, Answer, Throw, Apologise,
          Decide, Send, Finish, Hush, Goto, BatchOver, worker
    <3> QED
      BY <1>4, <2>1, <2>2, <3>1
      DEF Process, Refuse, NoticeFails, TimerFires, Crash, Shutdown, Exit, Start, Cleared,
          worker
  <2>4. CASE \E m \in Turns \cup Stops : AfterCommit(p, m)
    <3>1. PICK m \in Turns \cup Stops : AfterCommit(p, m)
      BY <2>4
    <3>2. Live \cap inbound[m].abort # {} /\ inbound[m].pc = "committed"
      BY <1>2, <1>4, <2>1, <2>2, <3>1 DEF AfterCommit
    <3>3. m \notin Stops
      BY <2>2, <3>2 DEF DropInv, StopsDone, Terminal, Live
    <3>4. Newer
      BY <3>2, <3>3 DEF DropInv, InTime
    <3> QED BY <3>4, DropFrame
  <2>5. CASE Seal(p)
    <3> DEFINE free == \A t \in batch[p] : ~cancelRequested[t]
    <3> DEFINE sealed == {t \in batch[p] : free /\ status[t] = "processing"}
    <3>1. ~toolsReady[p] /\ sealed # batch[p]
      BY <1>4, <2>1, <2>2, <2>5 DEF Seal
    <3>2. ~free
      BY <1>2, <2>1, <3>1 DEF BatchInv, Unsealed
    <3>3. Newer
      BY <1>2, <2>1, <3>2 DEF DropInv, Marked
    <3> QED BY <3>3, DropFrame
  <2>6. CASE Monitor(p)
    <3>1. \E t \in batch[p] : cancelRequested[t]
      BY <1>4, <2>1, <2>2, <2>6 DEF Monitor
    <3>2. Newer
      BY <1>2, <2>1, <3>1 DEF DropInv, Marked
    <3> QED BY <3>2, DropFrame
  <2> QED BY <2>3, <2>4, <2>5, <2>6
<1> QED BY <1>3, <1>4

\* What is dropped has ended, and something newer than it was queued.
LEMMA HushDrop ==
  ASSUME TypeOK, OrderInv, OwnerInv, BatchInv, DropInv, NEW p \in Procs,
         Process(p), ~Claim(p), \A t \in Turns : ~Enqueue(p, t),
         \A c \in Stops : ~Cancel(p, c)
  PROVE  HushedEnded' /\ NoSilentDrop'
<1>0. hushed \subseteq Turns /\ Live \subseteq Turns
  BY DEF TypeOK, SeenOK, Live
<1>1. CASE UNCHANGED hushed
  BY <1>1, DropFrame DEF DropInv, HushedEnded, NoSilentDrop
<1>2. CASE Hush(p) /\ aborted[p]
  <2>1. /\ hushed' = hushed \cup (batch[p] \cap Live)
        /\ \A t \in batch[p] \cap Live : status'[t] = "completed"
    BY <1>0, <1>2 DEF Hush, Settled
  <2>2. HushedEnded'
    BY <2>1, DropFrame DEF HushedEnded, Terminal
  <2>3. \A t \in batch[p] \cap Live : \E u \in Turns : createdAt[u] > createdAt[t]
    BY <1>2 DEF DropInv, AbortedNewer, Newer
  <2>4. NoSilentDrop'
    BY <2>1, <2>3, DropFrame DEF DropInv, NoSilentDrop
  <2> QED BY <2>2, <2>4
<1>3. \/ UNCHANGED hushed
      \/ Hush(p) /\ aborted[p]
  <2>1. CASE DrainStep(p)
    BY <2>1
    DEF DrainStep, DrainStops, NextLease, NextQueued, DrainSleeps, Reject,
        Begin, Prepare, Clarify, Ask, RunTool, Answer, Throw, Apologise,
        Decide, Send, Finish, seen
  <2> QED
    BY <2>1
    DEF Process, Refuse, NoticeFails, AfterCommit, TimerFires, Seal, Monitor, Crash, Shutdown,
        Exit, Start, seen
<1> QED BY <1>1, <1>2, <1>3

\* A /stop leaves nothing at work.
LEMMA CancelDrop ==
  ASSUME TypeOK, OrderInv, DropInv, NEW p \in Procs, NEW c \in Stops, Cancel(p, c)
  PROVE  DropInv'
<1>1. \A t \in Turns : status'[t] = IF status[t] \in Open THEN "cancelled"
                                    ELSE status[t]
  BY DEF Cancel
<1>2. Live' = {}
  BY <1>1 DEF Live, Open
<1>3. /\ \A m \in Turns : inbound'[m] = inbound[m]
      /\ \A m \in Stops : inbound'[m] = inbound[m] \/ inbound'[m].abort = Live
      /\ \A m \in Turns \cup Stops : inbound[m].abort \subseteq Turns
  BY TurnsAssumption DEF Cancel, TypeOK, MessageOK
<1>4. InTime'
  BY <1>1, <1>2, <1>3 DEF DropInv, InTime
<1>5. StopsDone'
  BY <1>1, <1>3 DEF DropInv, StopsDone, Live, Open, Terminal
<1>6. Marked' /\ AbortedNewer'
  BY <1>2 DEF Marked, AbortedNewer
<1>7. HushedEnded' /\ NoSilentDrop'
  BY <1>1 DEF Cancel, seen, DropInv, HushedEnded, NoSilentDrop, Open, Terminal,
              TypeOK, SeenOK
<1> QED BY <1>4, <1>5, <1>6, <1>7 DEF DropInv

\* The clock takes as much from a lease as it adds to the age of a handler.
LEMMA TickDrop ==
  ASSUME Stalls = FALSE, TypeOK, DropInv, Tick
  PROVE  DropInv'
<1>1. UNCHANGED <<status, createdAt, cancelRequested, batch, aborted, hushed>>
  BY DEF Tick, seen
<1>2. Live' = Live /\ (Newer' <=> Newer)
  BY <1>1 DEF Live, Newer
<1>3. StopsDone'
  <2>1. \A m \in Stops : inbound'[m].abort = inbound[m].abort
    BY DEF Tick, TypeOK, MessageOK
  <2> QED BY <1>1, <2>1 DEF DropInv, StopsDone
<1>4. InTime'
  <2> SUFFICES ASSUME NEW m \in Turns, inbound'[m].pc = "committed",
                      NEW a \in inbound'[m].abort
               PROVE  /\ status[a] \notin {"absent", "queued"}
                      /\ a \in Live => /\ leaseLeft'[a] + inbound'[m].lag > MaxLag
                                       /\ Newer
    BY <1>1, <1>2 DEF InTime
  <2>1. /\ inbound[m].lag \in 0 .. MaxLag /\ inbound[m].abort \subseteq Turns
        /\ inbound'[m].pc = inbound[m].pc
        /\ inbound'[m].abort = inbound[m].abort
    BY DEF Tick, TypeOK, MessageOK
  <2>2. inbound[m].lag < MaxLag
    BY <2>1 DEF Tick, OnTime
  <2>3. inbound'[m].lag = inbound[m].lag + 1
    BY <2>1, <2>2 DEF Tick, TypeOK, MessageOK
  <2>4. /\ a \in Turns /\ status[a] \notin {"absent", "queued"}
        /\ a \in Live => leaseLeft[a] + inbound[m].lag > MaxLag /\ Newer
    BY <2>1 DEF DropInv, InTime
  <2>5. leaseLeft[a] \in 0 .. Lease /\ leaseLeft'[a] = Down(leaseLeft[a], 0)
    BY <2>4 DEF Tick, TypeOK, TableOK
  <2> QED BY <2>1, <2>2, <2>3, <2>4, <2>5, TimeAssumption DEF Down
<1>5. Marked' /\ AbortedNewer' /\ HushedEnded' /\ NoSilentDrop'
  BY <1>1, <1>2
  DEF DropInv, Marked, AbortedNewer, HushedEnded, NoSilentDrop
<1> QED BY <1>3, <1>4, <1>5 DEF DropInv

LEMMA DropStep ==
  ASSUME Stalls = FALSE
  PROVE  TypeOK /\ OrderInv /\ OwnerInv /\ BatchInv /\ DropInv /\ [Next]_vars
           => DropInv'
<1> SUFFICES ASSUME TypeOK, OrderInv, OwnerInv, BatchInv, DropInv, [Next]_vars
             PROVE  DropInv'
  OBVIOUS
<1>1. CASE Tick
  BY <1>1, TickDrop
<1>2. CASE UNCHANGED vars
  <2>1. Live' = Live /\ (Newer' <=> Newer)
    BY <1>2 DEF vars, table, Live, Newer
  <2> QED
    BY <1>2, <2>1
    DEF vars, table, worker, seen, DropInv, InTime, StopsDone, Marked,
        AbortedNewer, HushedEnded, NoSilentDrop
<1>3. ASSUME NEW p \in Procs, Process(p) PROVE DropInv'
  <2>1. CASE \E t \in Turns : Enqueue(p, t)
    BY <2>1, EnqueueDrop
  <2>2. CASE \E c \in Stops : Cancel(p, c)
    BY <2>2, CancelDrop
  <2>3. CASE Claim(p)
    BY <2>3, ClaimDrop
  <2>4. CASE /\ ~Claim(p) /\ (\A t \in Turns : ~Enqueue(p, t))
             /\ \A c \in Stops : ~Cancel(p, c)
    BY <1>3, <2>4, DropFrame, AbortedDrop, HushDrop DEF DropInv
  <2> QED BY <2>1, <2>2, <2>3, <2>4
<1> QED BY <1>1, <1>2, <1>3 DEF Next

\* While renewals are on time, a batch that ends without a word has a later
\* message of the chat to answer for it: the lease outlasts the burst window and
\* the handlers, so none of them aborts a batch that was claimed again.
THEOREM NoSilentDropCorrect ==
  ASSUME Stalls = FALSE PROVE Spec => []NoSilentDrop
<1>1. DropInv => NoSilentDrop
  BY DEF DropInv
<1> QED BY <1>1, InitDrop, DropStep, BatchInvariant, PTL DEF Spec

=============================================================================
