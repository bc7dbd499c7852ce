-------------------------- MODULE ChannelTurnsProofs --------------------------
(***************************************************************************)
(* What TLAPS proves of ChannelTurns, for every set of turns, commands and *)
(* processes, every window, lease and lag, and any number of crashes and   *)
(* stalls.                                                                 *)
(***************************************************************************)
EXTENDS ChannelTurns, TLAPS

-----------------------------------------------------------------------------
(* Type correctness. *)

LEMMA InitType == Init => TypeOK
  BY TimeAssumption, BoundAssumption
  DEF Init, TypeOK, TableOK, LoopOK, WorkerOK, MessageOK, SeenOK, Status,
      Stage, NoTimer

\* What a step that leaves a part alone keeps of it.
LEMMA FrameType ==
  /\ TableOK /\ UNCHANGED table => TableOK'
  /\ LoopOK /\ UNCHANGED <<mode, timer, wake, drain>> => LoopOK'
  /\ WorkerOK /\ UNCHANGED worker => WorkerOK'
  /\ MessageOK /\ UNCHANGED inbound => MessageOK'
  /\ SeenOK /\ UNCHANGED seen /\ UNCHANGED bounds => SeenOK'
  BY DEF table, worker, seen, bounds, TableOK, LoopOK, WorkerOK, MessageOK,
         SeenOK

\* The stages of a drain that the actions name.
LEMMA StageNames ==
  ASSUME LoopOK, NEW p \in Procs, NEW s \in Stage,
         drain' = [drain EXCEPT ![p] = s], UNCHANGED <<mode, timer, wake>>
  PROVE  LoopOK'
  BY DEF LoopOK

LEMMA SettledType ==
  ASSUME TableOK, NEW p \in Procs, NEW outcome \in {"completed", "failed"},
         Settled(p, outcome)
  PROVE  TableOK'
  BY TimeAssumption DEF TableOK, Settled, Status, Terminal

LEMMA BatchOverType ==
  ASSUME LoopOK, WorkerOK, NEW p \in Procs, BatchOver(p),
         UNCHANGED <<mode, timer, wake>>
  PROVE  LoopOK' /\ WorkerOK'
  BY TimeAssumption DEF LoopOK, WorkerOK, BatchOver, Stage

LEMMA EnqueueType ==
  ASSUME TypeOK, NEW p \in Procs, NEW t \in Turns, Enqueue(p, t)
  PROVE  TypeOK'
<1>1. TableOK'
  BY TimeAssumption
  DEF TypeOK, TableOK, Enqueue, EnqueueTx, BurstKeys, Latest, PendingBurst,
      Queued, Supersedable, Status, Open, Terminal
<1>2. MessageOK'
  BY TimeAssumption DEF TypeOK, MessageOK, Enqueue
<1> QED BY <1>1, <1>2, FrameType DEF TypeOK, Enqueue

LEMMA RefuseType ==
  ASSUME TypeOK, NEW p \in Procs, NEW t \in Turns,
         Refuse(p, t) \/ NoticeFails(p, t)
  PROVE  TypeOK'
<1>1. MessageOK'
  BY TimeAssumption DEF TypeOK, MessageOK, Refuse, NoticeFails, Handled
<1> QED BY <1>1, FrameType DEF TypeOK, Refuse, NoticeFails

LEMMA CancelType ==
  ASSUME TypeOK, NEW p \in Procs, NEW c \in Stops, Cancel(p, c)
  PROVE  TypeOK'
<1>1. TableOK'
  BY TimeAssumption DEF TypeOK, TableOK, Cancel, Status, Terminal
<1>2. MessageOK'
  BY TimeAssumption DEF TypeOK, MessageOK, Cancel, Live
<1> QED BY <1>1, <1>2, FrameType DEF TypeOK, Cancel

LEMMA AfterCommitType ==
  ASSUME TypeOK, NEW p \in Procs, NEW m \in Turns \cup Stops,
         AfterCommit(p, m)
  PROVE  TypeOK'
<1>1. MessageOK'
  BY TimeAssumption DEF TypeOK, MessageOK, AfterCommit, Handled
<1>2. WorkerOK'
  BY Zenon DEF TypeOK, WorkerOK, AfterCommit
<1>3. LoopOK'
  BY TimeAssumption DEF TypeOK, LoopOK, AfterCommit, NoTimer
<1> QED BY <1>1, <1>2, <1>3, FrameType DEF TypeOK, AfterCommit

LEMMA ClaimType ==
  ASSUME TypeOK, NEW p \in Procs, Claim(p)
  PROVE  TypeOK'
<1>1. TableOK'
  BY TimeAssumption
  DEF TypeOK, TableOK, Claim, Reopened, Status, Open
<1>2. Claimed \in SUBSET Turns
  BY DEF Claimed, Queued, Reset, Stale, Live
<1>3. WorkerOK'
  BY <1>2 DEF TypeOK, WorkerOK, Claim
<1>4. LoopOK'
  BY DEF TypeOK, LoopOK, Claim, Stage
<1> QED BY <1>1, <1>3, <1>4, FrameType DEF TypeOK, Claim

LEMMA LoopType ==
  ASSUME TypeOK, NEW p \in Procs,
         TimerFires(p) \/ DrainStops(p) \/ DrainSleeps(p)
  PROVE  TypeOK'
<1>1. LoopOK'
  BY TimeAssumption
  DEF TypeOK, LoopOK, TimerFires, DrainStops, DrainSleeps, Stage, NoTimer
<1> QED
  BY <1>1, FrameType DEF TypeOK, TimerFires, DrainStops, DrainSleeps

LEMMA NextLeaseType ==
  ASSUME TypeOK, NEW p \in Procs, NextLease(p)
  PROVE  TypeOK'
<1>1. ASSUME NEW d \in {Poll} \cup {leaseLeft[t] :
                               t \in {u \in Live : leaseLeft[u] > 0}}
      PROVE  d \in Int /\ d > 0
  BY TimeAssumption DEF Live, TypeOK, TableOK
<1>2. LoopOK'
  <2>1. CASE Busy
    <3>1. PICK t \in Live : leaseLeft[t] > 0
      BY <2>1 DEF Busy
    <3>2. leaseLeft[t] \in 0 .. Lease
      BY DEF Live, TypeOK, TableOK
    <3>3. PICK d \in {Poll} \cup {leaseLeft[u] :
                               u \in {v \in Live : leaseLeft[v] > 0}} :
            d <= leaseLeft[t] /\ wake' = [wake EXCEPT ![p] = d]
      BY <2>1, <3>1 DEF NextLease, Earliest
    <3>4. d \in NoTimer .. Lease
      BY <1>1, <3>2, <3>3, TimeAssumption DEF NoTimer
    <3> QED BY <2>1, <3>3, <3>4 DEF TypeOK, LoopOK, NextLease, Stage
  <2>2. CASE ~Busy
    BY <2>2 DEF TypeOK, LoopOK, NextLease, Stage
  <2> QED BY <2>1, <2>2
<1> QED BY <1>2, FrameType DEF TypeOK, NextLease

LEMMA NextQueuedType ==
  ASSUME TypeOK, NEW p \in Procs, NextQueued(p)
  PROVE  TypeOK'
<1>1. \A t \in Queued : /\ availableIn[t] \in Int /\ availableIn[t] <= Lease
                        /\ Lease \in Nat
  BY TimeAssumption DEF Queued, TypeOK, TableOK
<1>2. LoopOK'
  BY <1>1 DEF TypeOK, LoopOK, NextQueued, Earliest, Stage, NoTimer
<1> QED BY <1>2, FrameType DEF TypeOK, NextQueued

LEMMA StepType ==
  ASSUME TypeOK, NEW p \in Procs,
         \/ Reject(p) \/ Begin(p) \/ Prepare(p) \/ Clarify(p) \/ Ask(p)
         \/ RunTool(p) \/ Answer(p) \/ Apologise(p) \/ Send(p) \/ Finish(p)
  PROVE  TypeOK'
<1>1. TableOK'
  BY SettledType, FrameType
  DEF TypeOK, Reject, Begin, Prepare, Clarify, Ask, RunTool, Answer,
      Apologise, Send, Finish
<1>2. LoopOK' /\ WorkerOK'
  <2>1. CASE Reject(p) \/ Apologise(p) \/ Finish(p)
    BY <2>1, BatchOverType DEF TypeOK, Reject, Apologise, Finish
  <2>2. CASE Begin(p)
    <3>1. WorkerOK'
      BY <2>2, TimeAssumption DEF TypeOK, WorkerOK, Begin
    <3> QED BY <2>2, <3>1, StageNames DEF TypeOK, Begin, Stage, InBatch
  <2>3. CASE RunTool(p)
    BY <2>3, FrameType DEF TypeOK, RunTool
  <2>4. CASE Prepare(p) \/ Clarify(p) \/ Ask(p) \/ Answer(p) \/ Send(p)
    <3>1. PICK s \in Stage : Goto(p, s) /\ UNCHANGED <<mode, timer, wake>>
      BY <2>4 DEF Prepare, Clarify, Ask, Answer, Send, Stage, InBatch
    <3> QED BY <3>1, StageNames, FrameType DEF TypeOK, Goto
  <2> QED BY <2>1, <2>2, <2>3, <2>4
<1>3. MessageOK'
  BY FrameType
  DEF TypeOK, Reject, Begin, Prepare, Clarify, Ask, RunTool, Answer,
      Apologise, Send, Finish
<1>4. SeenOK'
  <2>1. batch[p] \in SUBSET Turns
    BY DEF TypeOK, WorkerOK
  <2>2. Said(p) \in [Turns -> Nat]
    BY DEF Said, TypeOK, SeenOK
  <2>3. CASE RunTool(p) \/ Answer(p)
    BY <2>1, <2>3 DEF TypeOK, SeenOK, RunTool, Answer, bounds
  <2>4. CASE Apologise(p) \/ Send(p)
    BY <2>1, <2>2, <2>4 DEF TypeOK, SeenOK, Apologise, Send, bounds
  <2> QED
    BY <2>3, <2>4, FrameType
    DEF TypeOK, Reject, Begin, Prepare, Clarify, Ask, Finish
<1> QED BY <1>1, <1>2, <1>3, <1>4 DEF TypeOK

LEMMA HushType ==
  ASSUME TypeOK, NEW p \in Procs, Hush(p),
         UNCHANGED <<mode, timer, wake, replies, doubted, answered, acted, sealedAs,
                     bounds>>
  PROVE  TableOK' /\ LoopOK' /\ WorkerOK' /\ SeenOK'
<1>1. SeenOK'
  BY DEF TypeOK, SeenOK, Hush, Live, bounds
<1> QED BY <1>1, SettledType, BatchOverType DEF TypeOK, Hush

LEMMA EndType ==
  ASSUME TypeOK, NEW p \in Procs, Throw(p) \/ Decide(p)
  PROVE  TypeOK'
<1>1. MessageOK'
  BY FrameType DEF TypeOK, Throw, Decide
<1>2. CASE aborted[p]
  BY <1>1, <1>2, HushType DEF TypeOK, Throw, Decide
<1>3. CASE ~aborted[p]
  <2>1. TableOK'
    BY <1>3, SettledType, FrameType DEF TypeOK, Throw, Decide
  <2>2. LoopOK' /\ WorkerOK'
    <3>1. Goto(p, "apologise") \/ Goto(p, "excuse") \/ Goto(p, "send")
      BY <1>3 DEF Throw, Decide
    <3>2. {"apologise", "excuse", "send"} \subseteq Stage
      BY DEF Stage, InBatch
    <3> QED BY <3>1, <3>2, StageNames, FrameType DEF TypeOK, Goto, Throw, Decide
  <2>3. SeenOK'
    BY <1>3, FrameType DEF TypeOK, Throw, Decide, seen
  <2> QED BY <1>1, <2>1, <2>2, <2>3 DEF TypeOK
<1> QED BY <1>2, <1>3

LEMMA SealType ==
  ASSUME TypeOK, NEW p \in Procs, Seal(p)
  PROVE  TypeOK'
<1>1. TableOK'
  BY DEF TypeOK, TableOK, Seal, Status, Open
<1>2. LoopOK' /\ MessageOK'
  BY FrameType DEF TypeOK, Seal
<1>3. WorkerOK'
  BY Zenon DEF TypeOK, WorkerOK, Seal
<1>4. SeenOK'
  BY DEF TypeOK, SeenOK, WorkerOK, Seal, bounds
<1> QED BY <1>1, <1>2, <1>3, <1>4 DEF TypeOK

LEMMA MonitorType ==
  ASSUME TypeOK, NEW p \in Procs, Monitor(p)
  PROVE  TypeOK'
<1>1. TableOK'
  BY TimeAssumption DEF TypeOK, TableOK, Monitor, Renewal
<1>2. LoopOK' /\ MessageOK' /\ SeenOK'
  BY FrameType DEF TypeOK, Monitor
<1>3. WorkerOK'
  BY Zenon DEF TypeOK, WorkerOK, Monitor
<1> QED BY <1>1, <1>2, <1>3 DEF TypeOK

LEMMA TickType ==
  ASSUME TypeOK, Tick
  PROVE  TypeOK'
<1>1. TableOK'
  BY TimeAssumption DEF TypeOK, TableOK, Tick, Down
<1>2. LoopOK'
  BY TimeAssumption DEF TypeOK, LoopOK, Tick, Down, NoTimer
<1>3. WorkerOK'
  BY TimeAssumption DEF TypeOK, WorkerOK, Tick, Down
<1>4. MessageOK'
  <2> DEFINE Messages == [pc : {"new", "committed", "done"},
                          at : SUBSET Procs, abort : SUBSET Turns,
                          lag : 0 .. MaxLag]
  <2>1. ASSUME NEW r \in Messages, r.lag < MaxLag
        PROVE  [r EXCEPT !.lag = @ + 1] \in Messages
    BY <2>1, TimeAssumption
  <2> HIDE DEF Messages
  <2>2. inbound \in [Turns \cup Stops -> Messages]
    BY DEF TypeOK, MessageOK, Messages
  <2>3. inbound' \in [Turns \cup Stops -> Messages]
    BY <2>1, <2>2 DEF Tick
  <2> QED BY <2>3 DEF MessageOK, Messages
<1>5. SeenOK'
  BY FrameType DEF TypeOK, Tick
<1> QED BY <1>1, <1>2, <1>3, <1>4, <1>5 DEF TypeOK

LEMMA ClearedType ==
  ASSUME TypeOK, NEW p \in Procs, Cleared(p)
  PROVE  WorkerOK' /\ MessageOK'
<1>1. WorkerOK'
  BY TimeAssumption DEF TypeOK, WorkerOK, Cleared
<1>2. MessageOK'
  BY TimeAssumption DEF TypeOK, MessageOK, Cleared, Handled
<1> QED BY <1>1, <1>2

LEMMA LifeType ==
  ASSUME TypeOK, NEW p \in Procs,
         Crash(p) \/ Shutdown(p) \/ Exit(p) \/ Start(p)
  PROVE  TypeOK'
<1>1. TableOK'
  BY FrameType DEF TypeOK, Crash, Shutdown, Exit, Start
<1>2. LoopOK'
  BY TimeAssumption
  DEF TypeOK, LoopOK, Crash, Shutdown, Exit, Start, Cleared, Stage, NoTimer
<1>3. WorkerOK' /\ MessageOK'
  BY ClearedType, FrameType DEF TypeOK, Crash, Shutdown, Exit, Start
<1>4. SeenOK'
  BY DEF TypeOK, SeenOK, Crash, Shutdown, Exit, Start, seen, bounds
<1> QED BY <1>1, <1>2, <1>3, <1>4 DEF TypeOK

LEMMA NextType == TypeOK /\ [Next]_vars => TypeOK'
<1> SUFFICES ASSUME TypeOK, [Next]_vars PROVE TypeOK'
  OBVIOUS
<1>1. CASE Tick
  BY <1>1, TickType
<1>2. ASSUME NEW p \in Procs, Process(p) PROVE TypeOK'
  <2>1. CASE \E t \in Turns : Enqueue(p, t) \/ Refuse(p, t) \/ NoticeFails(p, t)
    BY <2>1, EnqueueType, RefuseType
  <2>2. CASE \E c \in Stops : Cancel(p, c)
    BY <2>2, CancelType
  <2>3. CASE \E m \in Turns \cup Stops : AfterCommit(p, m)
    BY <2>3, AfterCommitType
  <2>4. CASE DrainStep(p)
    BY <2>4, ClaimType, LoopType, NextLeaseType, NextQueuedType, StepType, EndType
    DEF DrainStep
  <2>5. CASE TimerFires(p) \/ Seal(p) \/ Monitor(p)
    BY <2>5, LoopType, SealType, MonitorType
  <2>6. CASE Crash(p) \/ Shutdown(p) \/ Exit(p) \/ Start(p)
    BY <2>6, LifeType
  <2> QED BY <1>2, <2>1, <2>2, <2>3, <2>4, <2>5, <2>6 DEF Process
<1>3. CASE UNCHANGED vars
  BY <1>3, FrameType DEF TypeOK, vars
<1> QED BY <1>1, <1>2, <1>3 DEF Next

\* Every column, timer and flag keeps its type, whatever is interrupted.
THEOREM TypeCorrect == Spec => []TypeOK
  BY InitType, NextType, PTL DEF Spec

-----------------------------------------------------------------------------
(* The order of the chat.  That a claim takes the oldest turns does not    *)
(* follow from its query alone, which selects by batch key and instant:    *)
(* it needs that the turns of one key have no other turn between them, and *)
(* that no turn becomes available before an older one.                     *)

OpenTurns == {t \in Turns : status[t] \in Open}

\* A message is stored once, and its id is nobody's batch key before.
StoredOnce ==
    \A t \in Turns :
        /\ inbound[t].pc = "new" => status[t] = "absent"
        /\ status[t] = "absent" => \A u \in Turns : batchKey[u] # t

\* createdAt is a strict order of the stored turns.
StrictOrder ==
    /\ \A t \in Turns : createdAt[t] <= arrivals
    /\ \A t, u \in Turns : (/\ status[t] # "absent" /\ status[u] # "absent"
                            /\ createdAt[t] = createdAt[u]) => t = u

\* What is being worked on is one batch, and was available when claimed.
OneBatch ==
    /\ \A a, b \in Live : batchKey[a] = batchKey[b]
    /\ \A a \in Live : availableIn[a] <= 0
    /\ \A a \in Live : leaseLeft[a] + startedAgo[a] >= Lease

\* The turns of one key are neighbours.
KeysTogether ==
    \A t, u, v \in OpenTurns :
        (/\ createdAt[t] < createdAt[u] /\ createdAt[u] < createdAt[v]
         /\ batchKey[t] = batchKey[v]) => batchKey[u] = batchKey[t]

\* No turn becomes available before an older one.
NoOvertaking ==
    \A q, r \in Queued :
        (createdAt[q] < createdAt[r] /\ availableIn[q] > 0)
            => availableIn[q] <= availableIn[r]

OrderInv == /\ StoredOnce /\ StrictOrder /\ OneBatch /\ KeysTogether
            /\ NoOvertaking /\ WorkedInOrder

LEMMA OpenIs == OpenTurns = Live \cup Queued
  BY DEF OpenTurns, Live, Queued, Open

LEMMA InitOrder == Init => OrderInv
  BY TurnsAssumption
  DEF Init, OrderInv, StoredOnce, StrictOrder, OneBatch, KeysTogether,
      NoOvertaking, WorkedInOrder, OpenTurns, Open, Live, Queued

\* A step that moves no turn into the queue or into work, and no instant.
LEMMA OrderKept ==
  ASSUME TypeOK, OrderInv,
         UNCHANGED <<batchKey, availableIn, createdAt, arrivals>>,
         \A t \in Turns : status'[t] = "absent" <=> status[t] = "absent",
         Live' \subseteq Live, Queued' \subseteq Queued,
         \A a \in Live' : leaseLeft'[a] + startedAgo'[a] >= Lease,
         \A t \in Turns : inbound'[t].pc = "new" => inbound[t].pc = "new"
  PROVE  OrderInv'
<1>1. StoredOnce'
  BY DEF OrderInv, StoredOnce
<1>2. StrictOrder'
  BY DEF OrderInv, StrictOrder
<1>3. OneBatch'
  BY DEF OrderInv, OneBatch
<1>4. KeysTogether'
  <2>1. OpenTurns' \subseteq OpenTurns
    BY OpenIs DEF OpenTurns, Open, Live, Queued
  <2> QED BY <2>1 DEF OrderInv, KeysTogether
<1>5. NoOvertaking' /\ WorkedInOrder'
  BY DEF OrderInv, NoOvertaking, WorkedInOrder
<1> QED BY <1>1, <1>2, <1>3, <1>4, <1>5 DEF OrderInv

LEMMA SettledOrder ==
  ASSUME TypeOK, OrderInv, NEW p \in Procs,
         NEW outcome \in {"completed", "failed"}, Settled(p, outcome),
         UNCHANGED inbound
  PROVE  OrderInv'
<1>1. \A t \in Turns : status'[t] = "absent" <=> status[t] = "absent"
  BY DEF Settled, Live, TypeOK, TableOK
<1>2. Live' = Live \ batch[p] /\ Queued' = Queued
  BY DEF Settled, Live, Queued, TypeOK, TableOK
<1>3. \A a \in Live' : leaseLeft'[a] + startedAgo'[a] >= Lease
  BY <1>2 DEF Settled, Live, OrderInv, OneBatch, TypeOK, TableOK
<1> QED BY <1>1, <1>2, <1>3, OrderKept DEF Settled

LEMMA TableOrder ==
  ASSUME TypeOK, OrderInv, UNCHANGED table,
         \A t \in Turns : inbound'[t].pc = "new" => inbound[t].pc = "new"
  PROVE  OrderInv'
<1>1. Live' = Live /\ Queued' = Queued
  BY DEF table, Live, Queued
<1> QED BY <1>1, OrderKept DEF table, OrderInv, OneBatch

LEMMA CancelOrder ==
  ASSUME TypeOK, OrderInv, NEW p \in Procs, NEW c \in Stops, Cancel(p, c)
  PROVE  OrderInv'
<1>1. \A t \in Turns : status'[t] = "absent" <=> status[t] = "absent"
  BY DEF Cancel, Open, TypeOK, TableOK
<1>2. Live' = {} /\ Queued' = {}
  BY DEF Cancel, Live, Queued, Open, TypeOK, TableOK
<1>3. \A t \in Turns : inbound'[t].pc = "new" => inbound[t].pc = "new"
  BY TurnsAssumption DEF Cancel, TypeOK, MessageOK
<1> QED BY <1>1, <1>2, <1>3, OrderKept DEF Cancel

LEMMA SealOrder ==
  ASSUME TypeOK, OrderInv, NEW p \in Procs, Seal(p)
  PROVE  OrderInv'
<1>1. \A t \in Turns : status'[t] = "absent" <=> status[t] = "absent"
  BY DEF Seal, TypeOK, TableOK
<1>2. Live' = Live /\ Queued' = Queued
  BY DEF Seal, Live, Queued, TypeOK, TableOK
<1> QED BY <1>1, <1>2, OrderKept DEF Seal, OrderInv, OneBatch

LEMMA MonitorOrder ==
  ASSUME TypeOK, OrderInv, NEW p \in Procs, Monitor(p)
  PROVE  OrderInv'
<1>1. Live' = Live /\ Queued' = Queued
  BY DEF Monitor, Live, Queued
<1>2. \A a \in Live' : leaseLeft'[a] + startedAgo'[a] >= Lease
  BY <1>1, TimeAssumption
  DEF Monitor, Renewal, Live, OrderInv, OneBatch, TypeOK, TableOK
<1> QED BY <1>1, <1>2, OrderKept DEF Monitor

LEMMA TickOrder ==
  ASSUME TypeOK, OrderInv, Tick
  PROVE  OrderInv'
<1>1. Live' = Live /\ Queued' = Queued /\ OpenTurns' = OpenTurns
  BY DEF Tick, Live, Queued, OpenTurns
<1>2. \A t \in Turns : inbound'[t].pc = "new" => inbound[t].pc = "new"
  BY DEF Tick, TypeOK, MessageOK
<1>3. StoredOnce' /\ StrictOrder' /\ KeysTogether' /\ WorkedInOrder'
  BY <1>1, <1>2
  DEF Tick, OrderInv, StoredOnce, StrictOrder, KeysTogether, WorkedInOrder
<1>4. OneBatch'
  <2>1. \A a \in Live : availableIn'[a] <= 0
    BY TimeAssumption
    DEF Tick, Down, OrderInv, OneBatch, Live, TypeOK, TableOK
  <2>2. \A a \in Live : leaseLeft'[a] + startedAgo'[a] >= Lease
    BY TimeAssumption
    DEF Tick, Down, OrderInv, OneBatch, Live, TypeOK, TableOK
  <2> QED BY <1>1, <2>1, <2>2 DEF Tick, OrderInv, OneBatch
<1>5. NoOvertaking'
  BY <1>1, TimeAssumption
  DEF Tick, Down, OrderInv, NoOvertaking, Queued, TypeOK, TableOK
<1> QED BY <1>3, <1>4, <1>5 DEF OrderInv

\* The transaction of enqueueChannelTurn: either every queued turn, the new one
\* included, gets one key and one instant, or the new turn gets its own id as
\* its key and nothing else that is queued is waiting for its instant.
LEMMA EnqueueOrder ==
  ASSUME TypeOK, OrderInv, NEW p \in Procs, NEW t \in Turns, Enqueue(p, t)
  PROVE  OrderInv'
<1>1. PICK lag \in 0 .. MaxLag, S \in SUBSET Turns :
        /\ IF Supersedable(lag) = {} THEN S = {}
           ELSE \E a \in Supersedable(lag) : S = {a}
        /\ \E key \in BurstKeys(t, lag, S) : EnqueueTx(t, lag, S, key)
        /\ inbound' = [inbound EXCEPT ![t] =
                         [pc |-> "committed", at |-> {p}, abort |-> S,
                          lag |-> lag]]
  BY DEF Enqueue
<1>2. PICK key \in BurstKeys(t, lag, S) : EnqueueTx(t, lag, S, key)
  BY <1>1
<1> DEFINE burst == S # {} \/ PendingBurst(lag) # {}
<1>3. status[t] = "absent" /\ inbound[t].pc = "new"
  BY DEF Enqueue, OrderInv, StoredOnce
<1>4. Live' = Live /\ Queued' = Queued \cup {t} /\ t \notin Live \cup Queued
  BY <1>2, <1>3 DEF EnqueueTx, Live, Queued, TypeOK, TableOK
<1>5. S \subseteq Live
  BY <1>1 DEF Supersedable, Live
<1>6. lag \in Nat /\ lag <= MaxLag
  BY TimeAssumption
<1>7. /\ createdAt' = [createdAt EXCEPT ![t] = arrivals + 1]
      /\ \A u \in Turns : createdAt[u] \in Nat /\ createdAt[u] <= arrivals
      /\ arrivals \in Nat /\ arrivals' = arrivals + 1
      /\ status' = [status EXCEPT ![t] = "queued"]
      /\ createdAt' \in [Turns -> Nat] /\ createdAt'[t] = arrivals + 1
      /\ \A u \in Turns \ {t} : createdAt'[u] = createdAt[u]
  BY <1>2 DEF EnqueueTx, OrderInv, StrictOrder, TypeOK, TableOK
<1>8. StrictOrder'
  BY <1>7 DEF OrderInv, StrictOrder, TypeOK, TableOK
<1>9. CASE burst
  <2>1. /\ \A q \in Queued' : batchKey'[q] = key
        /\ \A q \in Queued' : availableIn'[q] = BurstWindow - lag
        /\ \A u \in Turns \ Queued' :
             batchKey'[u] = batchKey[u] /\ availableIn'[u] = availableIn[u]
    BY <1>2, <1>4, <1>9 DEF EnqueueTx, Queued
  <2>2. \E u \in Turns : key = batchKey[u]
    BY <1>2, <1>5, <1>9 DEF BurstKeys, Latest, PendingBurst, Queued, Live
  <2>3. \A a \in Live : /\ a \in Turns \ Queued'
                        /\ batchKey'[a] = batchKey[a]
                        /\ availableIn'[a] = availableIn[a]
    BY <1>4, <2>1 DEF Live, Queued
  <2>4. StoredOnce'
    BY <1>1, <1>7, <2>1, <2>2 DEF OrderInv, StoredOnce, TypeOK, MessageOK, TableOK
  <2>5. OneBatch'
    BY <1>2, <1>4, <2>3 DEF EnqueueTx, OrderInv, OneBatch
  <2>6. NoOvertaking'
    BY <2>1, <1>6, TimeAssumption DEF NoOvertaking
  <2>7. WorkedInOrder'
    BY <1>4, <1>7 DEF OrderInv, WorkedInOrder, Live, Queued
  <2>8. KeysTogether'
    <3>1. \A a, b \in Live : batchKey'[a] = batchKey'[b]
      BY <2>3 DEF OrderInv, OneBatch
    <3>2. OpenTurns' = Live' \cup Queued'
      BY DEF OpenTurns, Live, Queued, Open
    <3>3. \A a \in Live, q \in Queued' : createdAt'[a] < createdAt'[q]
      BY <1>4, <2>7 DEF WorkedInOrder
    <3> QED
      BY <1>4, <1>7, <2>1, <3>1, <3>2, <3>3 DEF KeysTogether, Live, Queued
  <2> QED BY <1>8, <2>4, <2>5, <2>6, <2>7, <2>8 DEF OrderInv
<1>10. CASE ~burst
  <2>1. key = t
    BY <1>2, <1>10 DEF BurstKeys
  <2>2. /\ batchKey' = [batchKey EXCEPT ![t] = t]
        /\ availableIn' = [availableIn EXCEPT ![t] = -lag]
    BY <1>2, <1>10, <2>1 DEF EnqueueTx, TypeOK, TableOK
  <2>3. \A q \in Queued : availableIn[q] <= -lag
    BY <1>6, <1>10 DEF PendingBurst, Queued, TypeOK, TableOK
  <2>4. \A u \in Turns : batchKey[u] # t
    BY <1>3 DEF OrderInv, StoredOnce
  <2>5. StoredOnce'
    BY <1>1, <1>7, <2>2 DEF OrderInv, StoredOnce, TypeOK, MessageOK, TableOK
  <2>6. OneBatch'
    <3>1. \A a \in Live : /\ batchKey'[a] = batchKey[a]
                          /\ availableIn'[a] = availableIn[a]
      BY <1>4, <2>2 DEF Live, TypeOK, TableOK
    <3>2. leaseLeft' = leaseLeft /\ startedAgo' = startedAgo
      BY <1>2 DEF EnqueueTx
    <3> QED BY <1>4, <3>1, <3>2 DEF OrderInv, OneBatch
  <2>7. NoOvertaking'
    <3>1. availableIn'[t] <= 0 /\ \A q \in Queued : availableIn'[q] <= 0
      BY <1>4, <1>6, <2>2, <2>3 DEF Queued, TypeOK, TableOK
    <3> QED BY <1>4, <1>6, <2>2, <3>1 DEF NoOvertaking, Queued, TypeOK, TableOK
  <2>8. WorkedInOrder'
    BY <1>4, <1>7 DEF OrderInv, WorkedInOrder, Live, Queued
  <2>9. KeysTogether'
    <3>1. OpenTurns' = OpenTurns \cup {t}
      BY <1>4, OpenIs DEF OpenTurns, Live, Queued, Open
    <3>2. \A u \in OpenTurns : u # t /\ createdAt'[u] < createdAt'[t]
      BY <1>3, <1>7 DEF OpenTurns, Open
    <3> QED
      BY <1>7, <2>2, <2>4, <3>1, <3>2
      DEF OrderInv, KeysTogether, OpenTurns, TypeOK, TableOK
  <2> QED BY <1>8, <2>5, <2>6, <2>7, <2>8, <2>9 DEF OrderInv
<1> QED BY <1>9, <1>10

\* What the claim takes is older than every open turn it leaves behind.
LEMMA ClaimedOldest ==
  ASSUME TypeOK, OrderInv
  PROVE  /\ Claimed \subseteq OpenTurns
         /\ \A c \in Claimed, q \in OpenTurns \ Claimed :
              createdAt[c] < createdAt[q]
<1>1. CASE Busy
  BY <1>1 DEF Claimed
<1>2. CASE ~Busy
  <2>1. Reset = Live
    BY <1>2 DEF Reset, Stale, Busy, Live, OrderInv, OneBatch, TypeOK, TableOK
  <2>2. Queued \cup Reset = OpenTurns
    BY <2>1, OpenIs
  <2>3. \A c \in OpenTurns :
          c \in Claimed <=>
            /\ availableIn[c] <= 0
            /\ \E first \in Oldest(OpenTurns) :
                 availableIn[first] <= 0 /\ batchKey[first] = batchKey[c]
    BY <1>2, <2>2 DEF Claimed
  <2>4. Claimed \subseteq OpenTurns
    BY <2>2 DEF Claimed
  <2>5. ASSUME NEW c \in Claimed, NEW q \in OpenTurns \ Claimed
        PROVE  createdAt[c] < createdAt[q]
    <3>1. PICK first \in Oldest(OpenTurns) :
            availableIn[first] <= 0 /\ batchKey[first] = batchKey[c]
      BY <2>3, <2>4
    <3>2. first \in OpenTurns /\ createdAt[first] <= createdAt[q]
      BY DEF Oldest
    <3> SUFFICES ASSUME ~(createdAt[c] < createdAt[q]) PROVE FALSE
      OBVIOUS
    <3>3. /\ c \in Turns /\ q \in Turns /\ first \in Turns
          /\ createdAt[c] \in Nat /\ createdAt[q] \in Nat
          /\ createdAt[first] \in Nat
          /\ availableIn[q] \in Int /\ availableIn[c] \in Int
      BY <2>4, <3>2 DEF OpenTurns, TypeOK, TableOK
    <3>4. c # q
      OBVIOUS
    <3>5. createdAt[q] < createdAt[c]
      BY <2>4, <3>3, <3>4 DEF OrderInv, StrictOrder, OpenTurns, Open
    <3>6. batchKey[q] = batchKey[first]
      <4>1. CASE createdAt[first] = createdAt[q]
        <5>1. first = q
          BY <3>2, <3>3, <4>1 DEF OrderInv, StrictOrder, OpenTurns, Open
        <5> QED BY <5>1
      <4>2. CASE createdAt[first] < createdAt[q]
        BY <2>4, <3>1, <3>2, <3>5, <4>2 DEF OrderInv, KeysTogether
      <4> QED BY <3>2, <3>3, <4>1, <4>2
    <3>7. availableIn[c] <= 0 /\ availableIn[q] > 0
      BY <2>3, <2>4, <3>1, <3>3, <3>6
    <3>8. q \in Queued
      BY <3>7, OpenIs, <3>3 DEF OrderInv, OneBatch
    <3>9. c \in Queued
      BY <2>4, <3>5, <3>3, <3>8, OpenIs DEF OrderInv, WorkedInOrder
    <3> QED BY <3>3, <3>5, <3>7, <3>8, <3>9 DEF OrderInv, NoOvertaking
  <2> QED BY <2>4, <2>5
<1> QED BY <1>1, <1>2

LEMMA ClaimOrder ==
  ASSUME TypeOK, OrderInv, NEW p \in Procs, Claim(p)
  PROVE  OrderInv'
<1>1. UNCHANGED <<batchKey, availableIn, createdAt, arrivals, inbound>>
  BY DEF Claim
<1>2. CASE Busy
  <2>1. Claimed = {} /\ Reset = {}
    BY <1>2 DEF Claimed, Reset
  <2>2. UNCHANGED <<status, leaseLeft, startedAgo>>
    BY <2>1 DEF Claim, TypeOK, TableOK
  <2>3. Live' = Live /\ Queued' = Queued
    BY <2>2 DEF Live, Queued
  <2> QED BY <1>1, <2>2, <2>3, OrderKept DEF OrderInv, OneBatch
<1>3. CASE ~Busy
  <2>1. Reset = Live
    BY <1>3 DEF Reset, Stale, Busy, Live, OrderInv, OneBatch, TypeOK, TableOK
  <2>2. Claimed \subseteq Live \cup Queued
    BY <2>1 DEF Claimed
  <2>3. Live' = Claimed /\ Queued' = (Live \cup Queued) \ Claimed
    BY <2>1, <2>2 DEF Claim, Live, Queued, TypeOK, TableOK
  <2>4. OpenTurns' = OpenTurns
    BY <2>2, <2>3, OpenIs DEF OpenTurns, Live, Queued, Open
  <2>5. \A t \in Turns : status'[t] = "absent" <=> status[t] = "absent"
    BY <2>1, <2>2 DEF Claim, Live, Queued, TypeOK, TableOK
  <2>6. StoredOnce' /\ StrictOrder' /\ KeysTogether'
    BY <1>1, <2>4, <2>5 DEF OrderInv, StoredOnce, StrictOrder, KeysTogether
  <2>7. OneBatch'
    <3>1. \A a \in Claimed : /\ leaseLeft'[a] = Lease
                             /\ startedAgo'[a] = 0
                             /\ availableIn[a] <= 0
      BY <2>2 DEF Claim, Claimed, Live, Queued
    <3>2. \A a, b \in Claimed : batchKey[a] = batchKey[b]
      <4>1. \A f, g \in Oldest(Queued \cup Reset) : f = g
        <5>1. \A f \in Queued \cup Reset : /\ f \in Turns
                                          /\ createdAt[f] \in Nat
                                          /\ status[f] # "absent"
          BY <2>1 DEF Queued, Live, TypeOK, TableOK
        <5>2. \A f, g \in Oldest(Queued \cup Reset) :
                createdAt[f] = createdAt[g]
          BY <5>1 DEF Oldest
        <5> QED BY <5>1, <5>2 DEF OrderInv, StrictOrder, Oldest
      <4> QED BY <4>1 DEF Claimed
    <3> QED BY <1>1, <2>3, <3>1, <3>2, TimeAssumption DEF OneBatch
  <2>8. NoOvertaking'
    <3> SUFFICES ASSUME NEW q \in Queued', NEW r \in Queued',
                        createdAt[q] < createdAt[r], availableIn[q] > 0
                 PROVE  availableIn[q] <= availableIn[r]
      BY <1>1 DEF NoOvertaking
    <3>1. /\ q \in Turns /\ availableIn[q] \in Int
          /\ r \in Turns /\ createdAt[q] \in Nat /\ createdAt[r] \in Nat
      BY DEF Queued, TypeOK, TableOK
    <3>2. q \in Queued
      BY <2>3, <3>1 DEF OrderInv, OneBatch
    <3>3. r \in Queued
      BY <2>3, <3>1, <3>2 DEF OrderInv, WorkedInOrder
    <3> QED BY <3>2, <3>3 DEF OrderInv, NoOvertaking
  <2>9. WorkedInOrder'
    BY <1>1, <2>3, ClaimedOldest, OpenIs DEF WorkedInOrder
  <2> QED BY <2>6, <2>7, <2>8, <2>9 DEF OrderInv
<1> QED BY <1>2, <1>3

LEMMA NextOrder == TypeOK /\ OrderInv /\ [Next]_vars => OrderInv'
<1> SUFFICES ASSUME TypeOK, OrderInv, [Next]_vars PROVE OrderInv'
  OBVIOUS
<1>1. CASE Tick
  BY <1>1, TickOrder
<1>2. ASSUME NEW p \in Procs, Process(p) PROVE OrderInv'
  <2>1. CASE \E t \in Turns : Enqueue(p, t)
    BY <2>1, EnqueueOrder
  <2>2. CASE \E t \in Turns : Refuse(p, t) \/ NoticeFails(p, t)
    BY <2>2, TableOrder DEF Refuse, NoticeFails, Handled, TypeOK, MessageOK
  <2>3. CASE \E c \in Stops : Cancel(p, c)
    BY <2>3, CancelOrder
  <2>4. CASE \E m \in Turns \cup Stops : AfterCommit(p, m)
    BY <2>4, TableOrder DEF AfterCommit, Handled, TypeOK, MessageOK
  <2>5. CASE Claim(p) \/ Seal(p) \/ Monitor(p)
    BY <2>5, ClaimOrder, SealOrder, MonitorOrder
  <2>6. CASE \/ TimerFires(p) \/ DrainStops(p) \/ NextLease(p) \/ NextQueued(p)
             \/ DrainSleeps(p) \/ Begin(p) \/ Prepare(p) \/ Clarify(p)
             \/ Ask(p) \/ RunTool(p) \/ Answer(p) \/ Apologise(p) \/ Send(p)
             \/ Shutdown(p) \/ Start(p)
    <3>1. UNCHANGED table /\ UNCHANGED inbound
      BY <2>6
      DEF TimerFires, DrainStops, NextLease, NextQueued, DrainSleeps, Begin, Prepare,
          Clarify, Ask, RunTool, Answer, Apologise, Send, Shutdown, Start
    <3> QED BY <3>1, TableOrder
  <2>7. CASE Reject(p) \/ Finish(p) \/ Throw(p) \/ Decide(p)
    <3>1. UNCHANGED inbound
      BY <2>7 DEF Reject, Finish, Throw, Decide
    <3>2. \/ \E outcome \in {"completed", "failed"} : Settled(p, outcome)
          \/ UNCHANGED table
      BY <2>7 DEF Reject, Finish, Throw, Decide, Hush
    <3> QED BY <3>1, <3>2, SettledOrder, TableOrder
  <2>8. CASE Crash(p) \/ Exit(p)
    <3>1. UNCHANGED table
      BY <2>8 DEF Crash, Exit
    <3>2. \A t \in Turns : inbound'[t].pc = "new" => inbound[t].pc = "new"
      BY <2>8 DEF Crash, Exit, Cleared, Handled
    <3> QED BY <3>1, <3>2, TableOrder
  <2> QED
    BY <1>2, <2>1, <2>2, <2>3, <2>4, <2>5, <2>6, <2>7, <2>8
    DEF Process, DrainStep
<1>3. CASE UNCHANGED vars
  BY <1>3, TableOrder DEF vars
<1> QED BY <1>1, <1>2, <1>3 DEF Next

LEMMA OrderInvariant == Spec => [](TypeOK /\ OrderInv)
  BY InitType, NextType, InitOrder, NextOrder, PTL DEF Spec

\* No process ever works on a message while an older one waits: not after
\* crashes, lost leases, stalled workers or superseded bursts.
THEOREM OrderCorrect == Spec => []WorkedInOrder
<1>1. OrderInv => WorkedInOrder
  BY DEF OrderInv
<1> QED BY <1>1, OrderInvariant, PTL

-----------------------------------------------------------------------------
(* Four things happen to the table besides an arrival and a /stop. *)

\* Every step of the queue, seen from the table.
LEMMA StepsOfTable ==
  ASSUME NEW p \in Procs, Process(p)
  PROVE  \/ \E t \in Turns : Enqueue(p, t)
         \/ \E c \in Stops : Cancel(p, c)
         \/ Claim(p) \/ Seal(p) \/ Monitor(p)
         \/ \E outcome \in {"completed", "failed"} : Settled(p, outcome)
         \/ UNCHANGED table
<1>1. CASE DrainStep(p)
  BY <1>1
  DEF DrainStep, DrainStops, NextLease, NextQueued, DrainSleeps, Reject, Begin,
      Prepare, Clarify, Ask, RunTool, Answer, Throw, Apologise, Decide, Send,
      Finish, Hush
<1> QED
  BY <1>1
  DEF Process, Refuse, NoticeFails, AfterCommit, TimerFires, Crash, Shutdown, Exit, Start

-----------------------------------------------------------------------------
(* The seal and the burst. *)

LEMMA SealedStep ==
  TypeOK /\ SealedNotSuperseded /\ [Next]_vars => SealedNotSuperseded'
<1> SUFFICES ASSUME TypeOK, SealedNotSuperseded, [Next]_vars
             PROVE  SealedNotSuperseded'
  OBVIOUS
<1> USE DEF SealedNotSuperseded, TypeOK, TableOK
<1>1. CASE Tick
  BY <1>1 DEF Tick
<1>2. ASSUME NEW p \in Procs, Process(p) PROVE SealedNotSuperseded'
  <2>1. CASE \E t \in Turns : Enqueue(p, t)
    <3>1. PICK t \in Turns, lag \in 0 .. MaxLag, S \in SUBSET Turns :
            /\ IF Supersedable(lag) = {} THEN S = {}
               ELSE \E a \in Supersedable(lag) : S = {a}
            /\ \E key \in BurstKeys(t, lag, S) : EnqueueTx(t, lag, S, key)
      BY <2>1 DEF Enqueue
    <3>2. \A u \in S : status[u] = "processing"
      BY <3>1 DEF Supersedable
    <3>3. /\ cancelRequested' =
                [u \in Turns |-> cancelRequested[u] \/ u \in S]
          /\ status' = [status EXCEPT ![t] = "queued"]
      BY <3>1 DEF EnqueueTx
    <3> QED BY <3>2, <3>3
  <2>2. CASE \E c \in Stops : Cancel(p, c)
    BY <2>2 DEF Cancel, Open
  <2>3. CASE Claim(p)
    BY <2>3 DEF Claim, Reopened
  <2>4. CASE Seal(p)
    BY <2>4 DEF Seal
  <2>5. CASE Monitor(p)
    BY <2>5 DEF Monitor
  <2>6. CASE \E outcome \in {"completed", "failed"} : Settled(p, outcome)
    BY <2>6 DEF Settled
  <2>7. CASE UNCHANGED table
    BY <2>7 DEF table
  <2> QED BY <1>2, <2>1, <2>2, <2>3, <2>4, <2>5, <2>6, <2>7, StepsOfTable
<1>3. CASE UNCHANGED vars
  BY <1>3 DEF vars, table
<1> QED BY <1>1, <1>2, <1>3 DEF Next

\* A batch that a later message superseded never gets its tools, whoever
\* crashes or stalls in between.
THEOREM SealedCorrect == Spec => []SealedNotSuperseded
<1>1. Init => SealedNotSuperseded
  BY DEF Init, SealedNotSuperseded
<1> QED BY <1>1, SealedStep, InitType, NextType, PTL DEF Spec

-----------------------------------------------------------------------------
(* The abstract ledger. *)

Over == {t \in Turns : status[t] \in Terminal}

LEMMA LedgerInit == Init => Ledger!Init
  BY DEF Init, Ledger!Init, Queued, Live, Terminal

LEMMA LedgerAccepts ==
  ASSUME TypeOK, OrderInv, NEW p \in Procs, NEW t \in Turns, Enqueue(p, t)
  PROVE  Ledger!Accept(t)
<1>1. /\ status[t] = "absent"
      /\ status' = [status EXCEPT ![t] = "queued"]
      /\ arrivals' = arrivals + 1
      /\ createdAt' = [createdAt EXCEPT ![t] = arrivals + 1]
  BY DEF Enqueue, EnqueueTx, OrderInv, StoredOnce
<1>2. /\ Queued' = Queued \cup {t} /\ Live' = Live /\ Over' = Over
      /\ t \notin Queued \cup Live \cup Over
  BY <1>1 DEF Queued, Live, Over, Terminal, TypeOK, TableOK
<1> QED BY <1>1, <1>2 DEF Ledger!Accept, Over

LEMMA LedgerCancels ==
  ASSUME TypeOK, NEW p \in Procs, NEW c \in Stops, Cancel(p, c)
  PROVE  Ledger!CancelAll
<1>1. Queued' = {} /\ Live' = {} /\ Over' = Over \cup Queued \cup Live
  BY DEF Cancel, Queued, Live, Over, Open, Terminal, TypeOK, TableOK
<1> QED BY <1>1 DEF Ledger!CancelAll, Over, Cancel

LEMMA LedgerEnds ==
  ASSUME TypeOK, NEW p \in Procs, NEW outcome \in {"completed", "failed"},
         Settled(p, outcome)
  PROVE  \E S \in SUBSET Turns : Ledger!End(S)
<1>1. PICK S \in SUBSET Turns : S = batch[p] \cap Live
  BY DEF Live
<1>2. /\ Queued' = Queued /\ S \subseteq Live /\ Live' = Live \ S
      /\ Over' = Over \cup S
  BY <1>1 DEF Settled, Queued, Live, Over, Terminal, TypeOK, TableOK
<1>3. Ledger!End(S)
  BY <1>2 DEF Ledger!End, Over, Settled
<1> QED BY <1>3

LEMMA LedgerTakes ==
  ASSUME TypeOK, OrderInv, NEW p \in Procs, Claim(p)
  PROVE  (\E S \in SUBSET Turns : Ledger!Take(S)) \/ UNCHANGED Ledger!vars
<1>1. CASE Busy
  <2>1. UNCHANGED status
    BY <1>1 DEF Claim, Claimed, Reset, TypeOK, TableOK
  <2> QED BY <2>1 DEF Claim, Ledger!vars, Queued, Live
<1>2. CASE ~Busy
  <2>1. Reset = Live
    BY <1>2 DEF Reset, Stale, Busy, Live, OrderInv, OneBatch, TypeOK, TableOK
  <2>2. Claimed \subseteq Live \cup Queued
    BY <2>1 DEF Claimed
  <2>3. /\ Live' = Claimed /\ Queued' = (Queued \cup Live) \ Claimed
        /\ Over' = Over
    BY <2>1, <2>2 DEF Claim, Live, Queued, Over, Terminal, TypeOK, TableOK
  <2>4. Ledger!Take(Claimed)
    BY <2>2, <2>3, ClaimedOldest, OpenIs DEF Ledger!Take, Over, Claim
  <2>5. Claimed \in SUBSET Turns
    BY <2>2 DEF Live, Queued
  <2> QED BY <2>4, <2>5
<1> QED BY <1>1, <1>2

LEMMA LedgerStep ==
  TypeOK /\ OrderInv /\ [Next]_vars => [Ledger!Next]_Ledger!vars
<1> SUFFICES ASSUME TypeOK, OrderInv, [Next]_vars
             PROVE  Ledger!Next \/ UNCHANGED Ledger!vars
  OBVIOUS
<1>1. ASSUME UNCHANGED <<status, createdAt, arrivals>>
      PROVE  UNCHANGED Ledger!vars
  BY <1>1 DEF Ledger!vars, Queued, Live
<1>2. CASE Tick \/ UNCHANGED vars
  BY <1>1, <1>2 DEF Tick, vars, table
<1>3. ASSUME NEW p \in Procs, Process(p)
      PROVE  Ledger!Next \/ UNCHANGED Ledger!vars
  <2>1. CASE \E t \in Turns : Enqueue(p, t)
    BY <2>1, LedgerAccepts DEF Ledger!Next
  <2>2. CASE \E c \in Stops : Cancel(p, c)
    BY <2>2, LedgerCancels DEF Ledger!Next
  <2>3. CASE Claim(p)
    BY <2>3, LedgerTakes DEF Ledger!Next
  <2>4. CASE Seal(p)
    <3>1. Queued' = Queued /\ Live' = Live /\ Over' = Over
      BY <2>4 DEF Seal, Queued, Live, Over, Terminal, TypeOK, TableOK
    <3> QED BY <2>4, <3>1 DEF Seal, Ledger!vars, Over
  <2>5. CASE Monitor(p) \/ UNCHANGED table
    BY <1>1, <2>5 DEF Monitor, table
  <2>6. CASE \E outcome \in {"completed", "failed"} : Settled(p, outcome)
    BY <2>6, LedgerEnds DEF Ledger!Next
  <2> QED BY <1>3, <2>1, <2>2, <2>3, <2>4, <2>5, <2>6, StepsOfTable
<1> QED BY <1>2, <1>3 DEF Next

\* The queue with its leases, bursts and seals implements the ledger: batches
\* are taken from the old end of the chat, and come back whole.
THEOREM LedgerKept == Spec => KeepsLedger
  BY LedgerInit, LedgerStep, OrderInvariant, PTL DEF Spec, KeepsLedger, Ledger!Spec

\* A step of the queue leaves what ended as it ended.
LEMMA EndStep ==
  TypeOK /\ OrderInv /\ [Next]_vars =>
    [\A t \in Turns : status[t] \in Terminal => status'[t] = status[t]]_vars
<1> SUFFICES ASSUME TypeOK, OrderInv, [Next]_vars,
                    NEW t \in Turns, status[t] \in Terminal
             PROVE  status'[t] = status[t]
  OBVIOUS
<1>1. CASE Tick \/ UNCHANGED vars
  BY <1>1 DEF Tick, vars, table
<1>2. ASSUME NEW p \in Procs, Process(p) PROVE status'[t] = status[t]
  <2>1. ASSUME NEW u \in Turns, Enqueue(p, u) PROVE status'[t] = status[t]
    <3>1. status[u] = "absent" /\ status' = [status EXCEPT ![u] = "queued"]
      BY <2>1 DEF Enqueue, EnqueueTx, OrderInv, StoredOnce
    <3> QED BY <3>1 DEF Terminal, TypeOK, TableOK
  <2>2. CASE Claim(p)
    <3>1. t \notin Reset /\ t \notin Claimed
      BY DEF Claimed, Reset, Stale, Live, Queued, Terminal
    <3> QED BY <2>2, <3>1 DEF Claim
  <2>3. CASE Seal(p)
    BY <2>3 DEF Seal, Terminal
  <2>4. CASE \E outcome \in {"completed", "failed"} : Settled(p, outcome)
    BY <2>4 DEF Settled, Live, Terminal
  <2>5. CASE (\E c \in Stops : Cancel(p, c)) \/ Monitor(p) \/ UNCHANGED table
    BY <2>5 DEF Cancel, Monitor, table, Open, Terminal
  <2> QED BY <1>2, <2>1, <2>2, <2>3, <2>4, <2>5, StepsOfTable
<1> QED BY <1>1, <1>2 DEF Next

\* A late worker never rewrites the outcome of a turn.
THEOREM EndCorrect == Spec => EndIsFinal
  BY OrderInvariant, EndStep, PTL DEF Spec, EndIsFinal

=============================================================================
