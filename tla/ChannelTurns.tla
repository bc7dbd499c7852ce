----------------------------- MODULE ChannelTurns -----------------------------
(***************************************************************************)
(* The queue of chat turns of ONE channel conversation (one WhatsApp or    *)
(* Telegram chat) and the processes that drain it:                         *)
(*                                                                         *)
(*   modules/messaging/messaging-handler.service.ts      the processes     *)
(*   database/repositories/prisma-conversation.repository.ts   the table   *)
(*                                                                         *)
(* A repository method is one statement, or one transaction under an       *)
(* advisory lock on the channel: it is one step.  Between two steps of a   *)
(* process everything else may happen.  The columns of channel_turn that   *)
(* hold an instant hold here its distance from now, so that a step of the  *)
(* clock (Tick) moves all of them and the state space stays finite.        *)
(***************************************************************************)
EXTENDS Integers

CONSTANTS Turns,        \* chat messages, by providerMessageId
          Stops,        \* /stop, /cancel, /new and /reset commands
          Procs,        \* processes that registered the provider's adapter
          NoTurn,       \* the null batchKey
          BurstWindow,  \* burstWindowMs
          Lease,        \* leaseMs
          Poll,         \* the 1_000 ms of nextChannelTurnAvailableAt
          MaxLag,       \* how long the call of an inbound handler lasts
          MaxCrashes,   \* bound on crashes
          MaxShutdowns, \* bound on graceful shutdowns
          Stalls,       \* TRUE: a live process may miss renewals for a lease
          Notices       \* TRUE: the adapter has a `queued` notice (Telegram)

ASSUME TurnsAssumption == NoTurn \notin Turns /\ Turns \cap Stops = {}
ASSUME TimeAssumption ==
    /\ BurstWindow \in Nat \ {0} /\ MaxLag \in Nat /\ Poll \in Nat \ {0}
    /\ Lease \in Nat /\ Lease > BurstWindow + MaxLag
ASSUME BoundAssumption ==
    /\ MaxCrashes \in Nat /\ MaxShutdowns \in Nat
    /\ Stalls \in BOOLEAN /\ Notices \in BOOLEAN

VARIABLES
    \* the table channel_turn, one function per column
    status, batchKey, availableIn, startedAgo, leaseLeft, cancelRequested,
    createdAt, arrivals,
    \* per process: MessagingHandlerService
    mode, timer, drain, wake, batch, window, toolsReady, aborted,
    \* per inbound message: its `handle` call
    inbound,
    \* what the outside has seen
    replies, doubted, hushed, answered, acted, sealedAs,
    crashes, shutdowns

table  == <<status, batchKey, availableIn, startedAgo, leaseLeft,
            cancelRequested, createdAt, arrivals>>
worker == <<batch, window, toolsReady, aborted>>
seen   == <<replies, doubted, hushed, answered, acted, sealedAs>>
bounds == <<crashes, shutdowns>>
vars   == <<table, mode, timer, drain, wake, worker, inbound, seen, bounds>>

Open     == {"queued", "processing", "sealed"}
Terminal == {"completed", "failed", "cancelled"}
Status   == {"absent"} \cup Open \cup Terminal
NoTimer  == -1

\* The stages of processBatch between its `try` and its `finally`.
InBatch == {"prepare", "ask", "generate", "settle", "send", "finish",
            "apologise", "excuse"}
Ended   == {"apologise", "excuse"}  \* its turns have ended, a reply may follow
Stage   == {"none", "claim", "next", "scan", "sleep", "start"} \cup InBatch

Queued == {t \in Turns : status[t] = "queued"}
Live   == {t \in Turns : status[t] \in {"processing", "sealed"}}

TableOK ==
    /\ status \in [Turns -> Status]
    /\ batchKey \in [Turns -> Turns \cup {NoTurn}]
    /\ availableIn \in [Turns -> -MaxLag .. BurstWindow]
    /\ startedAgo \in [Turns -> 0 .. Lease]
    /\ leaseLeft \in [Turns -> 0 .. Lease]
    /\ cancelRequested \in [Turns -> BOOLEAN]
    /\ createdAt \in [Turns -> Nat] /\ arrivals \in Nat

LoopOK ==
    /\ mode \in [Procs -> {"up", "stopping", "down"}]
    /\ timer \in [Procs -> NoTimer .. Lease]
    /\ wake \in [Procs -> NoTimer .. Lease]
    /\ drain \in [Procs -> Stage]

WorkerOK ==
    /\ batch \in [Procs -> SUBSET Turns]
    /\ window \in [Procs -> 0 .. BurstWindow]
    /\ toolsReady \in [Procs -> BOOLEAN] /\ aborted \in [Procs -> BOOLEAN]

MessageOK ==
    /\ inbound \in [Turns \cup Stops ->
                      [pc : {"new", "committed", "done"}, at : SUBSET Procs,
                       abort : SUBSET Turns, lag : 0 .. MaxLag]]

SeenOK ==
    /\ replies \in [Turns -> Nat]
    /\ hushed \in SUBSET Turns /\ doubted \in SUBSET Turns
    /\ answered \in SUBSET SUBSET Turns /\ acted \in SUBSET SUBSET Turns
    /\ sealedAs \in [Turns -> SUBSET Turns]
    /\ crashes \in Nat /\ shutdowns \in Nat

TypeOK == TableOK /\ LoopOK /\ WorkerOK /\ MessageOK /\ SeenOK

Init ==
    /\ status = [t \in Turns |-> "absent"]
    /\ batchKey = [t \in Turns |-> NoTurn]
    /\ availableIn = [t \in Turns |-> 0]
    /\ startedAgo = [t \in Turns |-> 0]
    /\ leaseLeft = [t \in Turns |-> 0]
    /\ cancelRequested = [t \in Turns |-> FALSE]
    /\ createdAt = [t \in Turns |-> 0] /\ arrivals = 0
    /\ mode = [p \in Procs |-> "up"]
    /\ timer = [p \in Procs |-> NoTimer] /\ wake = [p \in Procs |-> NoTimer]
    /\ drain = [p \in Procs |-> "none"]
    /\ batch = [p \in Procs |-> {}]
    /\ window = [p \in Procs |-> 0]
    /\ toolsReady = [p \in Procs |-> FALSE]
    /\ aborted = [p \in Procs |-> FALSE]
    /\ inbound = [m \in Turns \cup Stops |->
                    [pc |-> "new", at |-> {}, abort |-> {}, lag |-> 0]]
    /\ replies = [t \in Turns |-> 0]
    /\ hushed = {} /\ doubted = {} /\ answered = {} /\ acted = {}
    /\ sealedAs = [t \in Turns |-> {}]
    /\ crashes = 0 /\ shutdowns = 0

-----------------------------------------------------------------------------
(* The inbound side: `handle`.  An inbound message reaches it once: the    *)
(* webhook handlers record the provider message id first.                  *)

Handled == [pc |-> "done", at |-> {}, abort |-> {}, lag |-> 0]

\* Mutant of Supersedable: a sealed turn may be superseded too.
SupersedableThoughSealed(lag) ==
    {a \in Live : startedAgo[a] <= BurstWindow + lag}

\* enqueueChannelTurn's `active` when it is inside the burst window.  `now`
\* was read `lag` ago, at the start of handle.
Supersedable(lag) ==
    {a \in Turns : /\ status[a] = "processing"
                   /\ startedAgo[a] <= BurstWindow + lag
                   /\ \A u \in Turns : status[u] = "processing"
                                         => startedAgo[a] <= startedAgo[u]}

PendingBurst(lag) == {t \in Queued : availableIn[t] > -lag}

\* createdAt orders the turns of a channel: sets of none or one.
Latest(S) == {t \in S : \A u \in S : createdAt[u] <= createdAt[t]}
\* Mutant of Oldest: `createdAt: 'desc'` in claimChannelTurns.
NewestFirst(S) == Latest(S)
Oldest(S) == {t \in S : \A u \in S : createdAt[t] <= createdAt[u]}

\* superseded?.batchKey ?? pendingBurst?.batchKey ?? providerMessageId
BurstKeys(t, lag, S) ==
    IF S # {} THEN {batchKey[s] : s \in S}
    ELSE IF PendingBurst(lag) # {}
         THEN {batchKey[u] : u \in Latest(PendingBurst(lag))}
    ELSE {t}

\* The transaction of enqueueChannelTurn, for the superseded turns S (none
\* or one).  It returns the superseded turn, which handle then aborts.
EnqueueTx(t, lag, S, key) ==
    LET burst == S # {} \/ PendingBurst(lag) # {}
        due   == IF burst THEN BurstWindow - lag ELSE -lag
        moved == (IF burst THEN Queued ELSE {}) \cup {t}
    IN  /\ cancelRequested' =
             [u \in Turns |-> cancelRequested[u] \/ u \in S]
        /\ status' = [status EXCEPT ![t] = "queued"]
        /\ batchKey' = [u \in Turns |-> IF u \in moved THEN key
                                        ELSE batchKey[u]]
        /\ availableIn' = [u \in Turns |-> IF u \in moved THEN due
                                           ELSE availableIn[u]]
        /\ arrivals' = arrivals + 1
        /\ createdAt' = [createdAt EXCEPT ![t] = arrivals + 1]
        /\ UNCHANGED <<startedAgo, leaseLeft>>

Enqueue(p, t) ==
    /\ mode[p] # "down" /\ inbound[t].pc = "new"
    /\ \E lag \in 0 .. MaxLag, S \in SUBSET Turns :
         /\ IF Supersedable(lag) = {} THEN S = {}
            ELSE \E a \in Supersedable(lag) : S = {a}
         /\ \E key \in BurstKeys(t, lag, S) : EnqueueTx(t, lag, S, key)
         /\ inbound' = [inbound EXCEPT ![t] =
                          [pc |-> "committed", at |-> {p}, abort |-> S,
                           lag |-> lag]]
    /\ UNCHANGED <<mode, timer, drain, wake, worker, seen, bounds>>

\* An unverified sender or an inactive subscription: a reply, no turn.
Refuse(p, t) ==
    /\ mode[p] # "down" /\ inbound[t].pc = "new"
    /\ inbound' = [inbound EXCEPT ![t] = Handled]
    /\ UNCHANGED <<table, mode, timer, drain, wake, worker, seen, bounds>>

\* /stop, /cancel and the first half of /new and /reset: cancelChannelTurns.
Cancel(p, c) ==
    /\ mode[p] # "down" /\ inbound[c].pc = "new"
    /\ status' = [t \in Turns |-> IF status[t] \in Open THEN "cancelled"
                                  ELSE status[t]]
    /\ cancelRequested' = [t \in Turns |-> \/ cancelRequested[t]
                                           \/ status[t] \in Open]
    /\ leaseLeft' = [t \in Turns |-> IF status[t] \in Open THEN 0
                                     ELSE leaseLeft[t]]
    /\ startedAgo' = [t \in Turns |-> IF status[t] \in Open THEN 0
                                      ELSE startedAgo[t]]
    /\ inbound' = [inbound EXCEPT ![c] =
                     [pc |-> "committed", at |-> {p}, abort |-> Live,
                      lag |-> 0]]
    /\ UNCHANGED <<batchKey, availableIn, createdAt, arrivals, mode, timer,
                   drain, wake, worker, seen, bounds>>

\* The rest of handle: abort the run if this very process owns it, and, for
\* a turn, scheduleDrain(channel, 0), which replaces the channel's timer.
AfterCommit(p, m) ==
    /\ inbound[m].pc = "committed" /\ inbound[m].at = {p}
    /\ inbound' = [inbound EXCEPT ![m] = Handled]
    /\ aborted' = [aborted EXCEPT ![p] =
                     @ \/ /\ drain[p] \in InBatch
                          /\ batch[p] \cap inbound[m].abort # {}]
    /\ timer' = IF m \in Turns /\ mode[p] = "up"
                THEN [timer EXCEPT ![p] = 0] ELSE timer
    /\ UNCHANGED <<table, mode, drain, wake, batch, window, toolsReady, seen,
                   bounds>>

\* The notice that the message is queued, between the commit and the rest,
\* throws out of handle: nothing is aborted and no timer is set.
NoticeFails(p, t) ==
    /\ Notices /\ inbound[t].pc = "committed" /\ inbound[t].at = {p}
    /\ inbound' = [inbound EXCEPT ![t] = Handled]
    /\ UNCHANGED <<table, mode, timer, drain, wake, worker, seen, bounds>>

-----------------------------------------------------------------------------
(* The drain of a process: at most one per channel. *)

\* setTimeout's callback: drain() returns at once when one is running.
TimerFires(p) ==
    /\ timer[p] = 0
    /\ timer' = [timer EXCEPT ![p] = NoTimer]
    /\ drain' = [drain EXCEPT ![p] = IF @ = "none" THEN "claim" ELSE @]
    /\ UNCHANGED <<table, mode, wake, worker, inbound, seen, bounds>>

\* Mutants of Busy: leases of sealed turns are not looked at; a lease never
\* runs out.
BusyUnsealed == \E t \in Live : status[t] = "processing" /\ leaseLeft[t] > 0
BusyForever  == Live # {}

\* claimChannelTurns' `processing`, and the turns its reset returns.
Busy  == \E t \in Live : leaseLeft[t] > 0
\* Mutant of Stale: the reset updates the first turn it finds.
StaleFirst ==
    Oldest({t \in Live : leaseLeft[t] = 0 /\ startedAgo[t] >= Lease})
Stale == {t \in Live : leaseLeft[t] = 0 /\ startedAgo[t] >= Lease}

\* claimChannelTurns: what it returns to the queue, and what it claims: the
\* available turns that share the batch key of the oldest queued turn.
Reset == IF Busy THEN {} ELSE Stale

\* Mutant of Claimed: without looking for a live lease.
ClaimedThoughBusy ==
    {t \in Queued : /\ availableIn[t] <= 0
                    /\ \E first \in Oldest(Queued) :
                         /\ availableIn[first] <= 0
                         /\ batchKey[first] = batchKey[t]}

Claimed ==
    LET queue == Queued \cup Reset
    IN  {t \in queue : /\ ~Busy /\ availableIn[t] <= 0
                       /\ \E first \in Oldest(queue) :
                            /\ availableIn[first] <= 0
                            /\ batchKey[first] = batchKey[t]}

\* Mutant of Reopened: cancellationRequestedAt survives the claim.
ReopenedCancelled == cancelRequested

\* The claim clears cancellationRequestedAt.
Reopened == [t \in Turns |-> cancelRequested[t] /\ t \notin Claimed]

Claim(p) ==
    /\ drain[p] = "claim" /\ mode[p] = "up"
    /\ status' = [t \in Turns |-> IF t \in Claimed THEN "processing"
                                  ELSE IF t \in Reset THEN "queued"
                                  ELSE status[t]]
    /\ leaseLeft' = [t \in Turns |-> IF t \in Claimed THEN Lease
                                     ELSE IF t \in Reset THEN 0
                                     ELSE leaseLeft[t]]
    /\ startedAgo' = [t \in Turns |-> IF t \in Claimed \cup Reset THEN 0
                                      ELSE startedAgo[t]]
    /\ cancelRequested' = Reopened
    /\ batch' = [batch EXCEPT ![p] = Claimed]
    /\ drain' = [drain EXCEPT ![p] = IF Claimed = {} THEN "next" ELSE "start"]
    /\ UNCHANGED <<batchKey, availableIn, createdAt, arrivals, mode, timer,
                   wake, window, toolsReady, aborted, inbound, seen, bounds>>

\* `while (!this.stopping)` is false.
DrainStops(p) ==
    /\ drain[p] = "claim" /\ mode[p] # "up"
    /\ drain' = [drain EXCEPT ![p] = "none"]
    /\ UNCHANGED <<table, mode, timer, wake, worker, inbound, seen, bounds>>

Earliest(S) == {d \in S : \A e \in S : d <= e}

\* nextChannelTurnAvailableAt, first read: while a lease runs it polls.
NextLease(p) ==
    LET leases == {leaseLeft[t] : t \in {u \in Live : leaseLeft[u] > 0}}
    IN  /\ drain[p] = "next"
        /\ IF Busy
           THEN /\ drain' = [drain EXCEPT ![p] = "sleep"]
                /\ \E d \in Earliest({Poll} \cup leases) :
                     wake' = [wake EXCEPT ![p] = d]
           ELSE drain' = [drain EXCEPT ![p] = "scan"] /\ UNCHANGED wake
        /\ UNCHANGED <<table, mode, timer, worker, inbound, seen, bounds>>

\* Second read: the earliest queued turn.  NoTimer is its null.
NextQueued(p) ==
    LET delays == {IF availableIn[t] > 0 THEN availableIn[t] ELSE 0 :
                     t \in Queued}
    IN  /\ drain[p] = "scan"
        /\ drain' = [drain EXCEPT ![p] = "sleep"]
        /\ IF Queued = {} THEN UNCHANGED wake
           ELSE \E d \in Earliest(delays) : wake' = [wake EXCEPT ![p] = d]
        /\ UNCHANGED <<table, mode, timer, worker, inbound, seen, bounds>>

\* drainLoop returns; only a non-null answer sets the channel's timer.
DrainSleeps(p) ==
    /\ drain[p] = "sleep"
    /\ drain' = [drain EXCEPT ![p] = "none"]
    /\ timer' = IF wake[p] # NoTimer /\ mode[p] = "up"
                THEN [timer EXCEPT ![p] = wake[p]] ELSE timer
    /\ wake' = [wake EXCEPT ![p] = NoTimer]
    /\ UNCHANGED <<table, mode, worker, inbound, seen, bounds>>

-----------------------------------------------------------------------------
(* processBatch. *)

\* Mutant of Settled: the update does not look at the status.
SettledRegardless(p, outcome) ==
    /\ status' = [t \in Turns |-> IF t \in batch[p] THEN outcome
                                  ELSE status[t]]
    /\ UNCHANGED <<batchKey, availableIn, startedAgo, leaseLeft,
                   cancelRequested, createdAt, arrivals>>

\* completeChannelTurns and failChannelTurns.  (processingStartedAt is read of
\* live turns only: a turn that ends forgets it.)
Settled(p, outcome) ==
    /\ status' = [t \in Turns |-> IF t \in batch[p] \cap Live THEN outcome
                                  ELSE status[t]]
    /\ leaseLeft' = [t \in Turns |-> IF t \in batch[p] \cap Live THEN 0
                                     ELSE leaseLeft[t]]
    /\ startedAgo' = [t \in Turns |-> IF t \in batch[p] \cap Live THEN 0
                                      ELSE startedAgo[t]]
    /\ UNCHANGED <<batchKey, availableIn, cancelRequested, createdAt,
                   arrivals>>

\* The `finally`: back to the top of drainLoop.
BatchOver(p) ==
    /\ drain' = [drain EXCEPT ![p] = "claim"]
    /\ batch' = [batch EXCEPT ![p] = {}]
    /\ window' = [window EXCEPT ![p] = 0]
    /\ toolsReady' = [toolsReady EXCEPT ![p] = FALSE]
    /\ aborted' = [aborted EXCEPT ![p] = FALSE]

\* The aborted branch of the `catch`: the batch completes without a word.
Hush(p) ==
    /\ Settled(p, "completed") /\ BatchOver(p)
    /\ hushed' = hushed \cup (batch[p] \cap Live)

Goto(p, stage) == drain' = [drain EXCEPT ![p] = stage] /\ UNCHANGED worker

\* No adapter or no user: the batch fails without a word.
Reject(p) ==
    /\ drain[p] = "start"
    /\ Settled(p, "failed") /\ BatchOver(p)
    /\ UNCHANGED <<mode, timer, wake, inbound, seen, bounds>>

\* The controller is registered and the two timers start.
Begin(p) ==
    /\ drain[p] = "start"
    /\ drain' = [drain EXCEPT ![p] = "prepare"]
    /\ window' = [window EXCEPT ![p] = BurstWindow]
    /\ UNCHANGED <<table, mode, timer, wake, batch, toolsReady, aborted,
                   inbound, seen, bounds>>

\* The end of the burst window: sealChannelTurns, then toolsReady resolves.
Seal(p) ==
    LET free   == \A t \in batch[p] : ~cancelRequested[t]
        sealed == {t \in batch[p] : free /\ status[t] = "processing"}
    IN  /\ drain[p] \in InBatch /\ window[p] = 0 /\ ~toolsReady[p]
        /\ status' = [t \in Turns |-> IF t \in sealed THEN "sealed"
                                      ELSE status[t]]
        /\ sealedAs' = [t \in Turns |-> IF t \in sealed THEN batch[p]
                                        ELSE sealedAs[t]]
        /\ toolsReady' = [toolsReady EXCEPT ![p] = TRUE]
        /\ aborted' = [aborted EXCEPT ![p] = @ \/ sealed # batch[p]]
        /\ UNCHANGED <<batchKey, availableIn, startedAgo, leaseLeft,
                       cancelRequested, createdAt, arrivals, mode, timer,
                       drain, wake, batch, window, inbound, replies, doubted,
                       hushed, answered, acted, bounds>>

\* Mutant of Renewal: the lease grows with every renewal.
RenewalOnTop(p) == [t \in Turns |-> IF t \in batch[p] \cap Live
                                    THEN leaseLeft[t] + Lease ELSE leaseLeft[t]]

\* renewChannelTurnLeases
Renewal(p) == [t \in Turns |-> IF t \in batch[p] \cap Live THEN Lease
                               ELSE leaseLeft[t]]

\* The monitor, every second: renew the leases and look for a cancellation.
Monitor(p) ==
    /\ drain[p] \in InBatch
    /\ leaseLeft' = Renewal(p)
    /\ aborted' = [aborted EXCEPT ![p] =
                     @ \/ \E t \in batch[p] : cancelRequested[t]]
    /\ UNCHANGED <<status, batchKey, availableIn, startedAgo, cancelRequested,
                   createdAt, arrivals, mode, timer, drain, wake, batch,
                   window, toolsReady, inbound, seen, bounds>>

\* Media and documents of the batch are ready.
Prepare(p) ==
    /\ drain[p] = "prepare"
    /\ Goto(p, "ask")
    /\ UNCHANGED <<table, mode, timer, wake, inbound, seen, bounds>>

\* A quoted message could not be recovered: wait for the seal, then ask the
\* user instead of the assistant.
Clarify(p) ==
    /\ drain[p] = "prepare" /\ toolsReady[p]
    /\ Goto(p, "settle")
    /\ UNCHANGED <<table, mode, timer, wake, inbound, seen, bounds>>

\* sendAndWait under the idempotency key of the batch: a key already answered
\* replays its result.
Ask(p) ==
    /\ drain[p] = "ask"
    /\ Goto(p, IF batch[p] \in answered THEN "settle" ELSE "generate")
    /\ UNCHANGED <<table, mode, timer, wake, inbound, seen, bounds>>

\* Mutant of RunTool: it does not wait for toolsReady.
RunToolEarly(p) ==
    /\ drain[p] = "generate" /\ ~aborted[p]
    /\ acted' = acted \cup {batch[p]}
    /\ UNCHANGED <<table, mode, timer, drain, wake, worker, inbound, replies,
                   doubted, hushed, answered, sealedAs, bounds>>

\* A tool with side effects: it waits for toolsReady and checks the signal.
RunTool(p) ==
    /\ drain[p] = "generate" /\ toolsReady[p] /\ ~aborted[p]
    /\ acted' = acted \cup {batch[p]}
    /\ UNCHANGED <<table, mode, timer, drain, wake, worker, inbound, replies,
                   doubted, hushed, answered, sealedAs, bounds>>

\* The run completes: its message is stored under the batch's key.
Answer(p) ==
    /\ drain[p] = "generate" /\ toolsReady[p] /\ ~aborted[p]
    /\ answered' = answered \cup {batch[p]}
    /\ Goto(p, "settle")
    /\ UNCHANGED <<table, mode, timer, wake, inbound, replies, doubted, hushed,
                   acted, sealedAs, bounds>>

\* An exception (a failed run and an aborted one end here too): an aborted
\* batch completes in silence, a document still being processed completes
\* with a notice, anything else fails with an apology.  At "finish" the answer
\* is out: adapter.send throws though the provider took the message or a part of
\* it, or completeChannelTurns throws, whether or not it was carried out.
Throw(p) ==
    /\ drain[p] \in {"prepare", "ask", "generate", "send", "finish"}
    /\ IF aborted[p]
       THEN Hush(p)
       ELSE /\ \/ Settled(p, "failed")
               \/ /\ drain[p] \in {"prepare", "finish"}
                  /\ Settled(p, "completed")
            /\ Goto(p, IF drain[p] = "finish" THEN "excuse" ELSE "apologise")
            /\ UNCHANGED hushed
    /\ UNCHANGED <<mode, timer, wake, inbound, replies, doubted, answered,
                   acted, sealedAs, bounds>>

Said(p) == [t \in Turns |-> IF t \in batch[p] THEN replies[t] + 1
                            ELSE replies[t]]

\* The apology is sent, or its own failure is logged and dropped.  As an excuse
\* it follows an answer that this attempt has sent.
Apologise(p) ==
    /\ drain[p] \in Ended
    /\ \/ UNCHANGED <<replies, doubted>>
       \/ /\ replies' = Said(p)
          /\ doubted' = IF drain[p] = "excuse" THEN doubted \cup batch[p]
                        ELSE doubted
    /\ BatchOver(p)
    /\ UNCHANGED <<table, mode, timer, wake, inbound, hushed, answered,
                   acted, sealedAs, bounds>>

\* The window has ended and the signal is looked at for the last time.  (There
\* is an answer: assistantMessage is null only while another process holds the
\* run of this key: claimRun in AssistantRuns.)
Decide(p) ==
    /\ drain[p] = "settle" /\ window[p] = 0
    /\ IF aborted[p]
       THEN Hush(p)
       ELSE Goto(p, "send") /\ UNCHANGED <<table, hushed>>
    /\ UNCHANGED <<mode, timer, wake, inbound, replies, doubted, answered,
                   acted, sealedAs, bounds>>

\* The user has got the reply, or a part of it.  What adapter.send does then, it
\* returns or it throws, is the next step.
Send(p) ==
    /\ drain[p] = "send"
    /\ replies' = Said(p)
    /\ Goto(p, "finish")
    /\ UNCHANGED <<table, mode, timer, wake, inbound, doubted, hushed, answered,
                   acted, sealedAs, bounds>>

\* Mutant of Finish: completeChannelTurns is forgotten.
FinishOpen(p) ==
    /\ drain[p] = "finish"
    /\ BatchOver(p)
    /\ UNCHANGED <<table, mode, timer, wake, inbound, seen, bounds>>

Finish(p) ==
    /\ drain[p] = "finish"
    /\ Settled(p, "completed") /\ BatchOver(p)
    /\ UNCHANGED <<mode, timer, wake, inbound, seen, bounds>>

-----------------------------------------------------------------------------
(* Time, shutdown, crashes and restarts. *)

Down(n, floor) == IF n > floor THEN n - 1 ELSE n

\* A process that is not stalled renews before its lease runs out, and its
\* handlers end MaxLag after they began.
OnTime ==
    /\ \A p \in Procs : \A t \in batch[p] \cap Live : leaseLeft[t] > 1
    /\ \A m \in Turns \cup Stops :
         inbound[m].pc = "committed" => inbound[m].lag < MaxLag

Tick ==
    /\ Stalls \/ OnTime
    /\ availableIn' = [t \in Turns |-> Down(availableIn[t], -MaxLag)]
    /\ leaseLeft' = [t \in Turns |-> Down(leaseLeft[t], 0)]
    /\ startedAgo' = [t \in Turns |->
                        IF t \in Live /\ startedAgo[t] < Lease
                        THEN startedAgo[t] + 1 ELSE startedAgo[t]]
    /\ window' = [p \in Procs |-> Down(window[p], 0)]
    /\ timer' = [p \in Procs |-> Down(timer[p], 0)]
    /\ wake' = [p \in Procs |-> Down(wake[p], 0)]
    /\ inbound' = [m \in Turns \cup Stops |->
                     IF inbound[m].pc = "committed" /\ inbound[m].lag < MaxLag
                     THEN [inbound[m] EXCEPT !.lag = @ + 1] ELSE inbound[m]]
    /\ UNCHANGED <<status, batchKey, cancelRequested, createdAt, arrivals,
                   mode, drain, batch, toolsReady, aborted, seen, bounds>>

\* What the memory of a process holds when it starts.
Cleared(p) ==
    /\ timer' = [timer EXCEPT ![p] = NoTimer]
    /\ wake' = [wake EXCEPT ![p] = NoTimer]
    /\ batch' = [batch EXCEPT ![p] = {}]
    /\ window' = [window EXCEPT ![p] = 0]
    /\ toolsReady' = [toolsReady EXCEPT ![p] = FALSE]
    /\ aborted' = [aborted EXCEPT ![p] = FALSE]
    /\ inbound' = [m \in Turns \cup Stops |->
                     IF inbound[m].at = {p}
                     THEN Handled ELSE inbound[m]]

\* A crash takes the batch, the timer and the handlers of the process.
Crash(p) ==
    /\ mode[p] # "down" /\ crashes < MaxCrashes
    /\ crashes' = crashes + 1
    /\ mode' = [mode EXCEPT ![p] = "down"]
    /\ drain' = [drain EXCEPT ![p] = "none"]
    /\ Cleared(p)
    /\ UNCHANGED <<table, seen, shutdowns>>

\* stopAndDrain clears the timer and waits for the drain.
Shutdown(p) ==
    /\ mode[p] = "up" /\ shutdowns < MaxShutdowns
    /\ shutdowns' = shutdowns + 1
    /\ mode' = [mode EXCEPT ![p] = "stopping"]
    /\ timer' = [timer EXCEPT ![p] = NoTimer]
    /\ UNCHANGED <<table, drain, wake, worker, inbound, seen, crashes>>

Exit(p) ==
    /\ mode[p] = "stopping" /\ drain[p] = "none"
    /\ mode' = [mode EXCEPT ![p] = "down"]
    /\ Cleared(p)
    /\ UNCHANGED <<table, drain, seen, bounds>>

\* registerAdapter schedules a drain if the channel has unfinished turns.
Start(p) ==
    /\ mode[p] = "down"
    /\ mode' = [mode EXCEPT ![p] = "up"]
    /\ timer' = [timer EXCEPT ![p] = IF \E t \in Turns : status[t] \in Open
                                     THEN 0 ELSE NoTimer]
    /\ UNCHANGED <<table, drain, wake, worker, inbound, seen, bounds>>

-----------------------------------------------------------------------------
DrainStep(p) ==
    \/ Claim(p) \/ DrainStops(p) \/ NextLease(p) \/ NextQueued(p)
    \/ DrainSleeps(p) \/ Reject(p) \/ Begin(p) \/ Prepare(p) \/ Clarify(p)
    \/ Ask(p) \/ RunTool(p) \/ Answer(p) \/ Throw(p) \/ Apologise(p)
    \/ Decide(p) \/ Send(p) \/ Finish(p)

Process(p) ==
    \/ \E t \in Turns : Enqueue(p, t) \/ Refuse(p, t) \/ NoticeFails(p, t)
    \/ \E c \in Stops : Cancel(p, c)
    \/ \E m \in Turns \cup Stops : AfterCommit(p, m)
    \/ TimerFires(p) \/ DrainStep(p) \/ Seal(p) \/ Monitor(p)
    \/ Crash(p) \/ Shutdown(p) \/ Exit(p) \/ Start(p)

Next == Tick \/ \E p \in Procs : Process(p)

Spec == Init /\ [][Next]_vars

-----------------------------------------------------------------------------
(* Properties. *)

\* The burst protocol: a batch that a newer message superseded is never sealed,
\* so the message that superseded it cannot race its tools.
SealedNotSuperseded ==
    \A t \in Turns : status[t] = "sealed" => ~cancelRequested[t]

\* Order of the chat: no turn is being worked on while an older one waits.
WorkedInOrder ==
    \A a \in Live, q \in Queued : createdAt[a] < createdAt[q]

\* The lease: with renewals on time, no turn that is still open is in the hands
\* of two processes, and all the open turns in hands are in the same hands.
OneWorker ==
    \A p, q \in Procs :
        (batch[p] \cap Live # {} /\ batch[q] \cap Live # {}) => p = q

\* Turns sealed together stay together: whatever crashes and is claimed again,
\* the assistant sees them as one batch, under one key.
SealedTogether ==
    \A t, u \in Turns : u \in sealedAs[t] => status[u] = status[t]

\* A batch is dropped without a word only because a later message of the chat
\* superseded it: its author is waiting for the answer to that one.
NoSilentDrop ==
    \A t \in hushed : \E u \in Turns : createdAt[u] > createdAt[t]

\* A message is answered once: what the user reads beyond that is an answer
\* that a crash sends again, or one apology after an answer whose sending or
\* completion threw when it had reached the provider.
AnsweredOnce ==
    \A t \in Turns :
        replies[t] <= crashes + (IF t \in doubted THEN 2 ELSE 1)

\* Side effects of a message happen under one key, however often workers retry.
ActedUnderOneKey ==
    \A B, C \in acted : B \cap C # {} => B = C

\* Something in memory will look at the channel: a timer, a drain, or a
\* handler about to set a timer.
Watched ==
    \/ \E p \in Procs : timer[p] # NoTimer \/ drain[p] # "none"
    \/ \E m \in Turns \cup Stops : inbound[m].pc = "committed"

\* While a process runs, a message that was accepted has its processing
\* scheduled.
AcceptedIsScheduled ==
    (\E p \in Procs : mode[p] = "up") /\ Queued # {} => Watched

\* A tool runs only for turns that are sealed, or that /stop cancelled after.
ToolsOnlyWhenSealed ==
    [][\A p \in Procs : RunTool(p) =>
          \A t \in batch[p] : status[t] \in {"sealed", "cancelled"}]_vars

\* What ended stays ended.
EndIsFinal ==
    [][\A t \in Turns : status[t] \in Terminal => status'[t] = status[t]]_vars

\* The queue keeps the promise of TurnLedger: batches are taken from its old
\* end, one at a time, and come back to it whole.
Ledger == INSTANCE TurnLedger WITH
            waiting <- Queued, working <- Live, order <- createdAt,
            over <- {t \in Turns : status[t] \in Terminal}
KeepsLedger == Ledger!Spec

\* Every step a live process owes is taken: node runs the callbacks of its
\* event loop, timers expire, and every await of processBatch ends.
Fairness ==
    /\ WF_vars(Tick)
    /\ \A p \in Procs :
         /\ WF_vars(DrainStep(p)) /\ WF_vars(TimerFires(p))
         /\ WF_vars(Seal(p)) /\ WF_vars(Monitor(p))
         /\ \A m \in Turns \cup Stops : WF_vars(AfterCommit(p, m))
FairSpec == Spec /\ Fairness

\* No turn waits for ever while something looks at the channel: claims, polls
\* and recoveries make progress.
WatchedIsServed ==
    \A t \in Turns : status[t] \in Open ~> (status[t] \in Terminal \/ ~Watched)

=============================================================================
