-------------------------- MODULE ChannelOwnersProofs --------------------------
(***************************************************************************)
(* What TLAPS proves of ChannelTurns when live processes renew their       *)
(* leases on time (Stalls = FALSE): the lease is mutual exclusion, and the *)
(* tools of a batch run only while the batch is sealed.                    *)
(***************************************************************************)
EXTENDS ChannelTurnsProofs

\* A live process holds unexpired leases on what is still open in its batch.
Held == \A p \in Procs : \A t \in batch[p] \cap Live : leaseLeft[t] > 0

\* Nothing in the hands of a process is back in the queue.
NotReturned ==
    \A p \in Procs : \A t \in batch[p] : status[t] \notin {"absent", "queued"}

OwnerInv == Held /\ NotReturned /\ OneWorker

\* Until its own worker ends it, a batch can only be sealed or cancelled.
Untouched ==
    \A p \in Procs : drain[p] \in {"start"} \cup (InBatch \ Ended) =>
        \A t \in batch[p] : status[t] \in {"processing", "sealed", "cancelled"}

\* The tools are ready once the batch is sealed, unless the run is aborted.
ReadyMeansSealed ==
    \A p \in Procs :
        /\ drain[p] \notin InBatch => ~toolsReady[p]
        /\ toolsReady[p] /\ ~aborted[p] =>
             \A t \in batch[p] : status[t] # "processing"

ToolInv == Untouched /\ ReadyMeansSealed

-----------------------------------------------------------------------------
(* Mutual exclusion. *)

LEMMA InitOwner == Init => OwnerInv
  BY DEF Init, OwnerInv, Held, NotReturned, OneWorker

\* A step that gives nobody a turn and brings none of its turns to life.
LEMMA OwnerKept ==
  ASSUME OwnerInv,
         \A q \in Procs : batch'[q] \subseteq batch[q],
         \A q \in Procs : \A t \in batch[q] :
            /\ status'[t] \notin {"absent", "queued"}
            /\ t \in Live' => t \in Live /\ leaseLeft'[t] > 0
  PROVE  OwnerInv'
<1>1. Held' /\ NotReturned'
  BY DEF OwnerInv, Held, NotReturned
<1>2. OneWorker'
  BY DEF OwnerInv, OneWorker
<1> QED BY <1>1, <1>2 DEF OwnerInv

\* A claim that takes or resets anything finds no turn of another process.
LEMMA ClaimLeaves ==
  ASSUME TypeOK, OwnerInv, NEW p \in Procs, Claim(p)
  PROVE  /\ \A q \in Procs : batch[q] \cap (Claimed \cup Reset) = {}
         /\ \A q \in Procs : \A t \in batch[q] :
              status'[t] = status[t] /\ leaseLeft'[t] = leaseLeft[t]
         /\ batch' = [batch EXCEPT ![p] = Claimed]
         /\ Claimed \subseteq Turns
         /\ \A t \in Claimed : status'[t] = "processing" /\ leaseLeft'[t] = Lease
         /\ Busy => Claimed = {}
<1>1. batch \in [Procs -> SUBSET Turns]
  BY DEF TypeOK, WorkerOK
<1>2. Claimed \subseteq Queued \cup Live /\ Reset \subseteq Live
  BY DEF Claimed, Reset, Stale, Live
<1>3. \A q \in Procs : batch[q] \cap (Claimed \cup Reset) = {}
  <2>1. CASE Busy
    BY <2>1 DEF Claimed, Reset
  <2>2. CASE ~Busy
    <3>1. \A q \in Procs : batch[q] \cap Live = {}
      BY <2>2 DEF OwnerInv, Held, Busy
    <3>2. \A q \in Procs : batch[q] \cap Queued = {}
      BY DEF OwnerInv, NotReturned, Queued
    <3> QED BY <1>2, <3>1, <3>2
  <2> QED BY <2>1, <2>2
<1>4. \A t \in Turns : t \notin Claimed \cup Reset =>
         status'[t] = status[t] /\ leaseLeft'[t] = leaseLeft[t]
  BY DEF Claim
<1>5. Claimed \subseteq Turns
  BY <1>2 DEF Queued, Live
<1>6. \A t \in Claimed : status'[t] = "processing" /\ leaseLeft'[t] = Lease
  BY <1>5 DEF Claim
<1>7. Busy => Claimed = {}
  BY DEF Claimed
<1>8. batch' = [batch EXCEPT ![p] = Claimed]
  BY DEF Claim
<1> QED BY <1>1, <1>3, <1>4, <1>5, <1>6, <1>7, <1>8

LEMMA ClaimOwner ==
  ASSUME TypeOK, OwnerInv, NEW p \in Procs, Claim(p)
  PROVE  OwnerInv'
<1>1. batch \in [Procs -> SUBSET Turns] /\ batch' = [batch EXCEPT ![p] = Claimed]
  BY ClaimLeaves DEF TypeOK, WorkerOK
<1>2. \A q \in Procs : q # p => batch'[q] = batch[q]
  BY <1>1
<1>3. batch'[p] = Claimed
  BY <1>1
<1>4. \A q \in Procs : q # p =>
        \A t \in batch'[q] : status'[t] = status[t] /\ leaseLeft'[t] = leaseLeft[t]
  BY <1>2, ClaimLeaves
<1>5. \A q \in Procs : q # p => batch'[q] \cap Live' = batch[q] \cap Live
  BY <1>1, <1>2, <1>4 DEF Live
<1>6. Held'
  BY <1>3, <1>4, <1>5, ClaimLeaves, TimeAssumption DEF Held, OwnerInv
<1>7. NotReturned'
  BY <1>2, <1>3, <1>4, ClaimLeaves DEF NotReturned, OwnerInv
<1>8. OneWorker'
  <2>1. CASE Claimed = {}
    BY <1>3, <1>5, <2>1 DEF OneWorker, OwnerInv
  <2>2. CASE Claimed # {}
    <3>1. ~Busy
      BY <2>2, ClaimLeaves
    <3>2. \A q \in Procs : batch[q] \cap Live = {}
      BY <3>1 DEF OwnerInv, Held, Busy
    <3> QED BY <1>5, <3>2 DEF OneWorker
  <2> QED BY <2>1, <2>2
<1> QED BY <1>6, <1>7, <1>8 DEF OwnerInv

\* What the steps of a process may do to the batches: BatchOver and Cleared
\* empty one, the rest, but for Claim, leave them alone.
LEMMA BatchesShrink ==
  ASSUME TypeOK, NEW p \in Procs, Process(p)
  PROVE  Claim(p) \/ \A q \in Procs : batch'[q] \subseteq batch[q]
<1>1. \/ Claim(p) \/ UNCHANGED batch
      \/ batch' = [batch EXCEPT ![p] = {}]
  <2>1. CASE DrainStep(p)
    BY <2>1
    DEF DrainStep, DrainStops, NextLease, NextQueued, DrainSleeps, Reject, Begin,
        Prepare, Clarify, Ask, RunTool, Answer, Throw, Apologise, Decide,
        Send, Finish, Hush, Goto, BatchOver, worker
  <2> QED
    BY <2>1
    DEF Process, Enqueue, Refuse, NoticeFails, Cancel, AfterCommit, TimerFires, Seal,
        Monitor, Crash, Shutdown, Exit, Start, Cleared, worker
<1> QED BY <1>1 DEF TypeOK, WorkerOK

LEMMA OwnerStep ==
  ASSUME Stalls = FALSE, TypeOK, OrderInv, OwnerInv, [Next]_vars
  PROVE  OwnerInv'
<1>0. \A q \in Procs : batch[q] \subseteq Turns
  BY DEF TypeOK, WorkerOK
<1>1. CASE Tick
  <2>1. OnTime /\ UNCHANGED <<status, batch>>
    BY <1>1 DEF Tick
  <2>2. \A t \in Turns : leaseLeft[t] > 1 => leaseLeft'[t] > 0
    BY <1>1 DEF Tick, Down, TypeOK, TableOK
  <2> QED
    BY <1>0, <2>1, <2>2, OwnerKept DEF OnTime, OwnerInv, NotReturned, Live
<1>2. ASSUME NEW p \in Procs, Process(p) PROVE OwnerInv'
  <2>1. CASE Claim(p)
    BY <2>1, ClaimOwner
  <2>2. CASE ~Claim(p)
    <3>1. \A q \in Procs : batch'[q] \subseteq batch[q]
      BY <1>2, <2>2, BatchesShrink
    <3> SUFFICES ASSUME NEW q \in Procs, NEW t \in batch[q]
                 PROVE  /\ status'[t] \notin {"absent", "queued"}
                        /\ t \in Live' => t \in Live /\ leaseLeft'[t] > 0
      BY <3>1, OwnerKept
    <3>2. t \in Turns /\ status[t] \notin {"absent", "queued"}
      BY <1>0 DEF OwnerInv, NotReturned
    <3>3. t \in Live => leaseLeft[t] > 0
      BY DEF OwnerInv, Held
    <3>4. ASSUME NEW u \in Turns, Enqueue(p, u)
          PROVE  status'[t] = status[t] /\ UNCHANGED leaseLeft
      BY <3>2, <3>4 DEF Enqueue, EnqueueTx, OrderInv, StoredOnce, TypeOK, TableOK
    <3>5. CASE UNCHANGED table \/ \E u \in Turns : Enqueue(p, u)
      BY <3>2, <3>3, <3>4, <3>5 DEF Live, table
    <3>6. CASE \E c \in Stops : Cancel(p, c)
      BY <3>2, <3>6 DEF Cancel, Live, Open
    <3>7. CASE Seal(p)
      BY <3>2, <3>3, <3>7 DEF Seal, Live, TypeOK, TableOK
    <3>8. CASE Monitor(p)
      BY <3>2, <3>3, <3>8, TimeAssumption DEF Monitor, Renewal, Live
    <3>9. CASE \E outcome \in {"completed", "failed"} : Settled(p, outcome)
      BY <3>2, <3>3, <3>9 DEF Settled, Live
    <3> QED
      BY <1>2, <2>2, <3>5, <3>6, <3>7, <3>8, <3>9, StepsOfTable
  <2> QED BY <2>1, <2>2
<1>3. CASE UNCHANGED vars
  BY <1>3, OwnerKept
  DEF vars, table, worker, OwnerInv, Held, NotReturned, Live
<1> QED BY <1>1, <1>2, <1>3 DEF Next

LEMMA OwnerInvariant ==
  ASSUME Stalls = FALSE PROVE Spec => []OwnerInv
<1>1. TypeOK /\ OrderInv /\ OwnerInv /\ [Next]_vars => OwnerInv'
  BY OwnerStep
<1> QED BY <1>1, InitOwner, OrderInvariant, PTL DEF Spec

\* While renewals are on time, no open turn is in the hands of two processes.
THEOREM OwnerCorrect == ASSUME Stalls = FALSE PROVE Spec => []OneWorker
<1>1. OwnerInv => OneWorker
  BY DEF OwnerInv
<1> QED BY <1>1, OwnerInvariant, PTL

-----------------------------------------------------------------------------
(* The seal and the tools. *)

LEMMA InitTools == Init => ToolInv
  BY DEF Init, ToolInv, Untouched, ReadyMeansSealed, InBatch, Ended

\* What a step owes the tools of one process q.
ToolsOf(q) ==
    /\ drain[q] \in {"start"} \cup (InBatch \ Ended) =>
         \A t \in batch[q] : status[t] \in {"processing", "sealed", "cancelled"}
    /\ drain[q] \notin InBatch => ~toolsReady[q]
    /\ toolsReady[q] /\ ~aborted[q] =>
         \A t \in batch[q] : status[t] # "processing"

LEMMA ToolsOfAll == ToolInv <=> \A q \in Procs : ToolsOf(q)
  BY DEF ToolInv, Untouched, ReadyMeansSealed, ToolsOf

\* Process q does not move, and its turns only get sealed or cancelled.
LEMMA ToolsKept ==
  ASSUME NEW q \in Procs, ToolsOf(q),
         batch'[q] = batch[q], drain'[q] = drain[q],
         toolsReady'[q] = toolsReady[q], aborted[q] => aborted'[q],
         \A t \in batch[q] : status'[t] = status[t] \/ status'[t] = "cancelled"
  PROVE  ToolsOf(q)'
  BY DEF ToolsOf

\* A batch that is over has no tools.
LEMMA ToolsGone ==
  ASSUME NEW q \in Procs, batch'[q] = {}, ~toolsReady'[q]
  PROVE  ToolsOf(q)'
  BY DEF ToolsOf

\* A process that moves inside its batch, or to its start, with the table left
\* alone.
LEMMA ToolsMove ==
  ASSUME TypeOK, NEW p \in Procs, ToolsOf(p), UNCHANGED status,
         UNCHANGED <<batch, toolsReady, aborted>>,
         \/ drain[p] \in {"start"} \cup (InBatch \ Ended)
              /\ drain'[p] \in InBatch
         \/ drain[p] \notin InBatch /\ drain'[p] \notin InBatch \cup {"start"}
  PROVE  ToolsOf(p)'
  BY DEF ToolsOf, InBatch, Ended

LEMMA OthersStand ==
  ASSUME TypeOK, NEW p \in Procs, NEW q \in Procs \ {p}, Process(p)
  PROVE  /\ drain'[q] = drain[q] /\ toolsReady'[q] = toolsReady[q]
         /\ batch'[q] = batch[q] /\ aborted'[q] = aborted[q]
<1>1. CASE DrainStep(p)
  BY <1>1
  DEF DrainStep, Claim, DrainStops, NextLease, NextQueued, DrainSleeps, Reject, Begin,
      Prepare, Clarify, Ask, RunTool, Answer, Throw, Apologise, Decide, Send,
      Finish, Hush, Goto, BatchOver, worker, TypeOK, LoopOK, WorkerOK
<1> QED
  BY <1>1
  DEF Process, Enqueue, Refuse, NoticeFails, Cancel, AfterCommit, TimerFires, Seal,
      Monitor, Crash, Shutdown, Exit, Start, Cleared, worker, TypeOK, LoopOK,
      WorkerOK

\* The other processes: what p does to the table does not reach their batches.
LEMMA OthersKeep ==
  ASSUME TypeOK, OrderInv, OwnerInv, ToolInv,
         NEW p \in Procs, NEW q \in Procs \ {p}, Process(p)
  PROVE  ToolsOf(q)'
<1>1. q \in Procs /\ ToolsOf(q) /\ batch[q] \subseteq Turns
  BY ToolsOfAll DEF TypeOK, WorkerOK
<1> SUFFICES ASSUME NEW t \in batch[q]
             PROVE  status'[t] = status[t] \/ status'[t] = "cancelled"
  BY <1>1, OthersStand, ToolsKept
<1>2. t \in Turns /\ status[t] \notin {"absent", "queued"}
  BY <1>1 DEF OwnerInv, NotReturned
<1>3. CASE \E u \in Turns : Enqueue(p, u)
  BY <1>2, <1>3 DEF Enqueue, EnqueueTx, OrderInv, StoredOnce, TypeOK, TableOK
<1>4. CASE Claim(p)
  BY <1>4, ClaimLeaves
<1>5. CASE Seal(p)
  <2>1. t \in Live => t \notin batch[p]
    BY DEF OwnerInv, OneWorker
  <2> QED BY <1>2, <1>5, <2>1 DEF Seal, Live
<1>6. CASE \E outcome \in {"completed", "failed"} : Settled(p, outcome)
  <2>1. t \notin batch[p] \cap Live
    BY DEF OwnerInv, OneWorker
  <2> QED BY <1>2, <1>6, <2>1 DEF Settled
<1>7. CASE (\E c \in Stops : Cancel(p, c)) \/ Monitor(p) \/ UNCHANGED table
  BY <1>2, <1>7 DEF Cancel, Monitor, table
<1> QED BY <1>3, <1>4, <1>5, <1>6, <1>7, StepsOfTable

\* The process that takes the step.
LEMMA OwnTools ==
  ASSUME TypeOK, OrderInv, OwnerInv, ToolInv, NEW p \in Procs, Process(p)
  PROVE  ToolsOf(p)'
<1>1. ToolsOf(p) /\ batch[p] \subseteq Turns
  BY ToolsOfAll DEF TypeOK, WorkerOK
<1>2. \A t \in batch[p] : t \in Turns /\ status[t] \notin {"absent", "queued"}
  BY <1>1 DEF OwnerInv, NotReturned
<1>3. CASE \E t \in Turns : Enqueue(p, t) \/ Refuse(p, t) \/ NoticeFails(p, t)
  <2>1. \A t \in batch[p] : status'[t] = status[t]
    BY <1>2, <1>3
    DEF Enqueue, EnqueueTx, Refuse, NoticeFails, OrderInv, StoredOnce, TypeOK,
        TableOK, table
  <2> QED BY <1>1, <1>3, <2>1, ToolsKept DEF Enqueue, Refuse, NoticeFails, worker
<1>4. CASE \E c \in Stops : Cancel(p, c)
  BY <1>1, <1>2, <1>4, ToolsKept DEF Cancel, worker
<1>5. CASE \/ \E m \in Turns \cup Stops : AfterCommit(p, m)
           \/ Monitor(p)
  <2>1. aborted[p] => aborted'[p]
    BY <1>5 DEF AfterCommit, Monitor, TypeOK, WorkerOK
  <2> QED BY <1>1, <1>5, <2>1, ToolsKept DEF AfterCommit, Monitor, table
<1>6. CASE Claim(p)
  <2>1. ~toolsReady'[p]
    BY <1>1, <1>6 DEF Claim, ToolsOf, InBatch
  <2>2. batch'[p] = Claimed /\ \A t \in Claimed : status'[t] = "processing"
    BY <1>6, ClaimLeaves DEF TypeOK, WorkerOK
  <2> QED BY <2>1, <2>2 DEF ToolsOf
<1>7. CASE Seal(p)
  <2> DEFINE sealed == {t \in batch[p] : /\ \A u \in batch[p] : ~cancelRequested[u]
                                        /\ status[t] = "processing"}
  <2>1. /\ status' = [t \in Turns |-> IF t \in sealed THEN "sealed" ELSE status[t]]
        /\ aborted' = [aborted EXCEPT ![p] = @ \/ sealed # batch[p]]
        /\ UNCHANGED <<drain, batch>> /\ drain[p] \in InBatch
    BY <1>7 DEF Seal
  <2>2. aborted'[p] \/ sealed = batch[p]
    BY <2>1 DEF TypeOK, WorkerOK
  <2>3. \A t \in batch[p] : \/ status'[t] = "sealed"
                            \/ status'[t] = status[t] /\ t \notin sealed
    BY <1>2, <2>1
  <2> QED BY <1>1, <2>1, <2>2, <2>3 DEF ToolsOf
<1>8. CASE Reject(p) \/ Apologise(p) \/ Finish(p) \/ Crash(p) \/ Exit(p)
  BY <1>8, ToolsGone
  DEF Reject, Apologise, Finish, Crash, Exit, Cleared, BatchOver, TypeOK, WorkerOK
<1>9. CASE Throw(p)
  <2>1. CASE aborted[p]
    BY <1>9, <2>1, ToolsGone DEF Throw, Hush, BatchOver, TypeOK, WorkerOK
  <2>2. CASE ~aborted[p]
    <3>1. /\ \E outcome \in {"completed", "failed"} : Settled(p, outcome)
          /\ drain'[p] \in Ended /\ UNCHANGED worker
      BY <1>9, <2>2 DEF Throw, Goto, Ended, TypeOK, LoopOK
    <3>2. \A t \in batch[p] : status'[t] = status[t] \/ status'[t] # "processing"
      BY <1>2, <3>1 DEF Settled
    <3> QED BY <1>1, <3>1, <3>2 DEF ToolsOf, worker, InBatch, Ended
  <2> QED BY <2>1, <2>2
<1>10. CASE Decide(p)
  <2>1. CASE aborted[p]
    BY <1>10, <2>1, ToolsGone DEF Decide, Hush, BatchOver, TypeOK, WorkerOK
  <2>2. CASE ~aborted[p]
    BY <1>1, <1>10, <2>2, ToolsMove
    DEF Decide, Goto, table, worker, TypeOK, LoopOK, InBatch, Ended
  <2> QED BY <2>1, <2>2
<1>11. CASE \/ TimerFires(p) \/ DrainStops(p) \/ NextLease(p) \/ NextQueued(p)
            \/ DrainSleeps(p) \/ Shutdown(p) \/ Start(p)
  <2>1. UNCHANGED <<status, batch, toolsReady, aborted>>
    BY <1>11
    DEF TimerFires, DrainStops, NextLease, NextQueued, DrainSleeps, Shutdown, Start,
        table, worker
  <2>2. \/ drain'[p] = drain[p]
        \/ drain[p] \notin InBatch /\ drain'[p] \notin InBatch \cup {"start"}
    BY <1>11
    DEF TimerFires, DrainStops, NextLease, NextQueued, DrainSleeps, Shutdown, Start,
        TypeOK, LoopOK, InBatch
  <2> QED BY <1>1, <2>1, <2>2, ToolsKept, ToolsMove
<1>12. CASE \/ Begin(p) \/ Prepare(p) \/ Clarify(p) \/ Ask(p) \/ Answer(p)
            \/ Send(p)
  <2>1. UNCHANGED <<status, batch, toolsReady, aborted>>
    BY <1>12 DEF Begin, Prepare, Clarify, Ask, Answer, Send, Goto, table, worker
  <2>2. /\ drain[p] \in {"start"} \cup (InBatch \ Ended)
        /\ drain'[p] \in InBatch
    BY <1>12
    DEF Begin, Prepare, Clarify, Ask, Answer, Send, Goto, TypeOK, LoopOK, InBatch,
        Ended
  <2> QED BY <1>1, <2>1, <2>2, ToolsMove
<1>13. CASE RunTool(p)
  BY <1>1, <1>13, ToolsKept DEF RunTool, table, worker
<1> QED
  BY <1>3, <1>4, <1>5, <1>6, <1>7, <1>8, <1>9, <1>10, <1>11, <1>12, <1>13
  DEF Process, DrainStep

LEMMA ToolStep ==
  TypeOK /\ OrderInv /\ OwnerInv /\ ToolInv /\ [Next]_vars => ToolInv'
<1> SUFFICES ASSUME TypeOK, OrderInv, OwnerInv, ToolInv, [Next]_vars,
                    NEW q \in Procs
             PROVE  ToolsOf(q)'
  BY ToolsOfAll DEF ToolInv, Untouched, ReadyMeansSealed, ToolsOf
<1>1. ToolsOf(q)
  BY ToolsOfAll
<1>2. CASE Tick \/ UNCHANGED vars
  BY <1>1, <1>2, ToolsKept DEF Tick, vars, table, worker
<1>3. ASSUME NEW p \in Procs, Process(p) PROVE ToolsOf(q)'
  BY <1>3, OwnTools, OthersKeep
<1> QED BY <1>2, <1>3 DEF Next

\* While renewals are on time, no tool runs for a turn that a newer message may
\* still supersede, or that ended before.
THEOREM ToolsCorrect == ASSUME Stalls = FALSE PROVE Spec => ToolsOnlyWhenSealed
<1>1. ASSUME OwnerInv, ToolInv, TypeOK, NEW p \in Procs, RunTool(p)
      PROVE  \A t \in batch[p] : status[t] \in {"sealed", "cancelled"}
  BY <1>1 DEF ToolInv, Untouched, ReadyMeansSealed, RunTool, InBatch,
               Ended
<1>2. OwnerInv /\ ToolInv /\ TypeOK =>
        [\A p \in Procs : RunTool(p) =>
           \A t \in batch[p] : status[t] \in {"sealed", "cancelled"}]_vars
  BY <1>1
<1> QED
  BY <1>2, InitTools, ToolStep, OwnerInvariant, OrderInvariant, PTL
  DEF Spec, ToolsOnlyWhenSealed

================================================================================
