# Verification of sydia's core protocols

This directory holds TLA+ models of the parts of sydia where the order of events decides
whether a user is answered, answered once and in order: the queue of chat turns and the
assistant runs it feeds; where two copies of a calendar event are edited apart and brought together
again; and where reminders fall due while nothing can be delivered. TLC checks the models on small
instances, TLAPS proves what matters most for every instance.

    tlasany M.tla                                   parse
    tlc -workers 2 -config turns_workers.cfg MCChannelTurns.tla
    tlapm ChannelTurnsProofs.tla

## 1. The system

sydia is a personal assistant behind a web chat, WhatsApp and Telegram. The NestJS backend
(`src/apps/backend/src`) runs as an HTTP process and as a worker process (`worker.ts`); both
boot the same module, and both register the channel adapters. They share Postgres (Prisma)
and Redis (BullMQ). Coordination is done in Postgres: unique keys, conditional updates,
advisory locks, leases with an expiry instant.

| Component | State it keeps | Operations | What is hard | What makes it correct |
|---|---|---|---|---|
| channel turn queue | `channel_turn` rows; timers, drains and abort controllers in each process | handle, enqueue, claim, seal, renew, complete, fail, cancel, drain | several processes on one chat, bursts that supersede a running batch, crashes, late workers | order of the chat, one worker, no tool before the seal, every turn ends, one answer |
| assistant runs | `message`, `assistant_run` | send, retry, claim, complete, fail | the same key sent again, stale runs, late writers | one answer per message, a completed run stays completed, a stored message settles |
| tool executor | `tool_invocation` | create, claim, execute, record, reject | concurrent attempts, attempts repeated | an effect happens once, under one executor |
| model gateway | attempts of one generation | generate, retry | a retry after tools ran or text was shown | no side effect and no text is repeated |
| inbound webhooks | inbound message rows | record, handle, finish | redelivery, crash between record and enqueue | a message is handled once, and is handled |
| WhatsApp connection | connection status, generation, outage id, setup attempts | connect, QR, verify, revoke, refresh, reconnect | stale generation, concurrent setup, refreshes that overlap | nothing is sent to another owner than the one it was meant for |
| calendar two-way sync | bindings with leases, sync cursor, outbox, conflicts | pull, push, resolve, watch, disconnect | leases lost between reads and commits, unknown provider outcomes | no local edit lost, no event duplicated, fenced commits |
| memory coordination | ingestions and deliveries with leases | claim, deliver, retry, forget | retries after unknown outcomes, deletion racing delivery | delivered in order, forgotten for good |
| memory dream | scheduled reviews of a conversation | schedule, run | a job that reads a moving conversation | each message considered |
| note agent runs, note work | work items, leases, revisions | claim, run, commit, organise | partial mutations, lost leases | each piece of work done once |
| record notes, workspace, daily notes | notes with revisions | create, edit, move, restore | stale writes | no lost update |
| assistant actions | prepared, offered, accepted actions | prepare, offer, accept, execute, expire | accept racing expiry, repeated accept | executed once, only when shown |
| reminders, notifications | occurrences, deliveries, summaries of outages | schedule, claim, deliver, recover, snooze | worker retries, outages, lost workers | told once per occurrence, in time or in a summary |
| billing | payments, subscriptions | checkout, webhook, recover | webhook order, missed webhooks | paid once, extended once |
| file deletion, documents | manifests, operations, artifacts | preview, confirm, delete, recover | partial failure over several stores | everything confirmed is deleted, nothing else |
| availability, recurrence | none | expand, intersect, slots | boundaries, time zones | equal to their definition |
| secrets, auth, tasks, contacts, administration | rows | CRUD | none of their own | access by owner |
| web frontend | caches of the API's answers | render, request | none shared | none modelled |

How they interact. A webhook service normalises a provider event, records its message id
and calls `MessagingHandlerService.handle`. `handle` enqueues a turn and sets a timer of 0 ms.
The timer starts the channel's drain, which claims a batch of turns, calls
`AssistantOrchestratorService.sendAndWait` under a key made of the batch's message ids, sends
the answer through the adapter and completes the turns. `sendAndWait` stores the user message,
creates and claims a run, and calls the model gateway with the tools of the tool executor; the
tools wait for the batch's seal. The web chat calls the orchestrator directly. What follows a
completed run (summaries, dreams, notes) goes through BullMQ.

An edit of a calendar event stores the event and an operation in one transaction; a scheduler hands
due operations and bindings to BullMQ, whose workers claim them in Postgres, call Google between two
transactions, and store the outcome. A reminder is a job of a delivery queue; its worker asks the
user's connection gateway, which holds a lock of the connection while it sends. A poll every 15 s, a
status request and a reconnect all refresh the connection, and whoever finds an outage over recovers it.

## 2. Modules

| Module | Role |
|---|---|
| `ChannelTurns` | the table `channel_turn` of one chat and the processes that drain it |
| `TurnLedger` | the abstract promise of the queue, which `ChannelTurns` refines |
| `AssistantRuns` | the run of one message, the calls that execute it and their tools |
| `CalendarMerge` | how two edits of one event meet: the push's reconciliation and the pull's merge, as operators |
| `CalendarSync` | one event at Sydia and at Google, its operations, pulls and connection; extends `CalendarMerge` |
| `ReminderDelivery` | reminders over WhatsApp, the outages of the connection and their summaries |
| `MCChannelTurns`, `MCAssistantRuns`, `MCCalendarSync`, `MCReminderDelivery` | the model values, symmetry sets and instances of TLC |
| `ChannelTurnsProofs` | types, order, seal, finality and refinement, for all constants |
| `ChannelOwnersProofs` | mutual exclusion and the gate of the tools, for renewals on time |
| `ChannelBatchesProofs` | a batch is sealed whole, answered once and never dropped in silence, for renewals on time |
| `AssistantRunsProofs` | types, answers, finality and executors, for all constants |
| `CalendarSyncProofs` | types, and that an event is created before it is changed, for all constants |
| `CalendarEditsProofs` | what a push and a pull keep, for all snapshots; that edits made at Sydia survive and what a synced row shows, for all constants |
| `ReminderDeliveryProofs` | types, told once, one owner, for all constants |
| `ReminderSummariesProofs` | what the summaries of an outage name and what missed reminders wait for, for all constants |

### ChannelTurns

One conversation of one channel; channels do not interact, and every repository method takes an
advisory lock per channel or is one statement. So a repository method is one step, and anything
may happen between two awaits.

State. The columns are functions over `Turns`. An instant is kept as its distance from now
(`availableIn`, `leaseLeft`, `startedAgo`), which `Tick` moves together. `createdAt` is the order
in which the enqueue transactions took the lock. `mode`, `timer`, `drain`, `wake` are the service's
stopping flag, `timers`, `drains` and the pending answer of `nextChannelTurnAvailableAt`;
`batch`, `window`, `toolsReady`, `aborted` are the locals of `processBatch`. `inbound` is where the
`handle` call of a message stands, with `lag`, the age of the `now` that it read first. `replies`,
`doubted`, `answered`, `acted`, `sealedAs`, `hushed` record what the outside has seen; no guard but `Ask`
reads them (`answered` is the stored answer under the key of a batch).

Actions. `Enqueue` and `Refuse` are `handle` up to its commit, `Cancel` is the command branch,
`AfterCommit` the abort and the timer that follow. `TimerFires`, `Claim`, `NextLease`, `NextQueued`,
`DrainSleeps`, `DrainStops` are the drain. `Begin` to `Finish` are `processBatch`: preparing, asking
the assistant, tools, the settling wait, sending and the terminal write; `Throw`, `Hush` and
`Apologise` its `catch`; `Seal` and `Monitor` its two timers. `Crash`, `Shutdown`, `Exit` and `Start`
are the life of a process. `Tick` is time.

What throws. `adapter.send` may throw before the provider has anything (`Throw` at the stage "send") or after it
took the message or a part of it (`Send`, then `Throw` at "finish", which is also a `completeChannelTurns`
that throws, with its write done or not). In either case the catch ends the turns and sends an apology; at the stage
"excuse" it follows an answer, and `doubted` has the turns for which it was sent. `NoticeFails` is the notice
of a queued message that throws between the commit and the timer; only Telegram has one (`Notices`).

Left out. `requeueChannelTurns` has no caller. The seal timer of a batch that is already over
changes nothing. The mapping of /new to a fresh conversation is not part of the queue. A
database call that throws in `handle`, in the claim of a drain or in the catch itself, clock skew between
processes, and the contents of messages are not modelled. A message
reaches `handle` once, since the webhook services record its id first.

### AssistantRuns

One user message. `Sends` are the calls of `sendQueued`, `stream` or `sendAndWait` that use its key
(a client's retry, a channel worker that claims a batch again), `Retries` the calls of the retry
endpoint. `Write`, `Find`, `Create` are `prepareSend`, `Retry` is `retry`, and `Claim` to
`PersistFailure` are the graph of `execute`. Of two sends that find no run, both create it and the
second gets the first's row. `completeRun` and `updateRun` write by id whatever the status is; so
do the actions.

An attempt calls tools: `CallTool` creates the invocation under the message and the toolCallId,
`ClaimTool` claims it, `RunTool` is the service behind it, `RecordTool` and `RejectTool` write the
row. The model is external: it may name a call with any id, one that an earlier attempt used
included, and asks for each operation once in an attempt. The services are external too: they
keep one result per idempotency key (`done` is a set). Tools of an attempt are taken one at
a time; parallel calls of a step have different ids and meet in no row. A failed or timed-out
generation does not wait for the tool that it started.

`Limit` bounds how long an attempt lasts; `Tick` waits for attempts that reached it. The code has
no such bound: one provider request may last 180 s and a run is stale after 60 s. So `Limit` is larger than `Stale`
in the runs about answers and arbitrary in the proofs, and what is promised depends on the age that attempts
have reached, not on `Limit`.

`Lose` is a call that dies with its process, or on an exception before `execute`, which leaves the run as it is. `Throw`
is a repository call of `execute` that throws, with its write done or not: `claimRun` or the `findRun` after it,
`completeRun`, and the write of `persistFailure`. `completeRun` is in the graph's own catch and goes on to
`persistFailure`; the others leave `execute` (`Escape`). `stream`, `sendAndWait` and `retry` hand the exception on;
`sendQueued` has scheduled `execute` with a catch, and `Catch` writes 'failed' by the run's id, whoever holds
the run and whatever its status. `astray` has the calls that are on their way to such a write though the run
is not in their hands: they never had it, or their own write had ended it. No guard reads it.

A send that is refused before it changes anything (inactive billing, an unknown conversation or
source, a replay with another note) is a send that never happened. Tools without an invocation row
(internal ones, and those of background evaluations) are left out, as are the streamed text and
the summaries, dreams and offers that follow a completed run.

### CalendarMerge

A snapshot gives each field group of an event a value. `Wanted`, `Clashing`, `Rebased`, `Target`,
`Patch` and `Pushed` are `reconcileCalendarUpdate` and `resolveCalendarUpdate`: which groups a push
sends, when Google's event has moved on since. `Conflicting`, `Kept` and `Merged` are the branch of
`applyInboundEvent` for a row with unsent edits. The two are separate code.

### CalendarSync

One event of one calendar of one user. A repository method is one step (it locks the user, or is one
statement), a request to Google another.

State. `conn` and `bind` are the integration and the binding with its sync token, full import
generation and lease; `row` the event's row `Own` and the row `Twin` that a pull may make of Google's copy;
`link`, `op` the link and the operations; `keys` the operation keys that pulls have used, which stay
taken as long as the operations are kept (the slots of finished operations are reused, their keys are
not). `wk` and `pl` are the locals of `processOperation` and `processPull`. `remote` is Google's event.
`saved` is what conflict records hold; `held` and `shown` are the values that Google and the rows have
had; `edits` counts and dates the users' edits.

| Actions | Code |
|---|---|
| `CreateEvent`, `EditEvent`, `RetryFailed` | the transactions of the user's edits and of the retry button |
| `RemoteEdit` | Google's user (external) |
| `Disconnect`, `Reconnect`, `Resync` | disconnecting, `reactivateCalendarBinding`, a forced full import |
| `Claim`, `Read`, `Send`, `Land`, `Recheck`, `TryLater`, `GiveUp`, `Complete` | `processOperation`: the claim, Google's event, the conditional write and its landing, the second look after an etag failure, the ways to end |
| `ClaimPull`, `List`, `PullGivesUp`, `SavePage`, `PageRefused` | `processPull` and the transaction of a page |
| `RequestFails`, `RefusedForGood`, `Unauthorised`, `ClaimExpires`, `PullFails`, `LeaseExpires` | Google's failures, and the claims of lost or stalled processes |

Abstracted. A pull has one page. The generation checks of commits are not separate guards, because each
change of the generation ends all claims in the same transaction. The content of a remotely cancelled
event is one value, `Blank`. Users edit live events, at Sydia the row that they made. The retry budget is
counted in attempts. A refused page frees its lease at once.

Left out: recurring events and exceptions, resolving a conflict by hand, OAuth and token refresh, watch
channels (they only start pulls), retention, several calendars, the age-based end of the budget. The
row status 'conflict' is reached by no event of this kind.

### ReminderDelivery

Reminders of one user and the user's own WhatsApp account. A repository method is one step; so is a
send, which holds the connection's lock. Time is the set of reminders that had fallen due: that is all
that `disconnectedAt` and `lastConnectedAt` are compared with (`due`). `FallsDue` is a reminder's instant,
`CreateDelivery` the scheduler that gets to it, at once or later: it binds the delivery to the connection if that was
verified by the instant and has not been replaced since.

State. `line` is what the bridge says; `conn` the row of the connection; `state`, `bound`, `missedIn`,
`summarized` the rows of a delivery; `queue` and `tries` the queue's jobs; `note`, `covers`, `noteTries`
the summary of each outage. `at`, `row`, `job`, `outcome`, `listed` are the locals of a job or a
refresh, `row` the connection as it was read. `heard` and `told` count what the user has got. `astray`
names missed reminders that no summary will look for.

| Actions | Code |
|---|---|
| `Take`, `Look`, `CollectFirst`, `ClaimDelivery`, `RecordMissed`, `Send`, `Record` | `deliverNotification`: reading the connection, collecting what an outage has missed, the claim, the send under the lock, the outcome |
| `Begin`, `Reconnect`, `MarkDown`, `Confirm` | `refresh` and the requested reconnect: the row is read first, and `disconnected` or the confirmation is written from it |
| `Recover`, `ClaimSummary`, `Tell`, `RecordSummary`, `CompleteRecovery` | `recover`: collecting, the summary's claim, its send and outcome, the end of the outage |
| `LineDrops`, `LineReturns`, `ReplaceOwner` and the other events | the bridge and the user |
| `WorkerCrashes`, `RefresherCrashes`, `ClaimAges` | a lost process; a summary's claim that is a minute old |

A summary's text names ten reminders and counts the rest ("+N more"); `Tell` takes those for told as well.
A claim ages only when its process is lost: a send is cut off after 55 s, before the claim's minute.

Left out: pairing, QR and the owner's code, revoking, logged out accounts, the reconnect budget,
provider receipts, re-arming, billing and verified email, notifications of other kinds, jobs that stall
without dying, marking the occurrence.

## 3. Runs

| Run | Instance | Shows |
|---|---|---|
| `turns_workers` | 2 turns, a /stop, 2 processes, 1 crash | `OneWorker`, `SealedNotSuperseded`, `ToolsOnlyWhenSealed`, `AnsweredOnce`, `EndIsFinal`, `TypeOK` |
| `turns_order` | 3 turns, 1 process, 1 crash | `WorkedInOrder`, `SealedTogether`, refinement of `TurnLedger` |
| `turns_live` | 2 turns, 1 process, 1 crash, 1 shutdown, handlers that lag a burst window and whose notice may fail | `WatchedIsServed`, `NoSilentDrop` |
| `turns_wakeup` | 2 turns, 1 process | `AcceptedIsScheduled` is violated |
| `turns_rework` | 2 turns, 1 process, 2 crashes | `ActedUnderOneKey` is violated |
| `runs_answers` | 2 sends, a retry, 1 id, 1 death or exception, attempts that may outlast their staleness | `OneAnswer`, `CompletedIsFinal`, `OneExecutor`, `StoredIsSettled`, `TypeOK` |
| `runs_overrun` | 2 sends, attempts longer than staleness, nothing throws | `AnswersMatch` is violated |
| `runs_effects` | 2 sends, 2 ids, 1 death or exception | `EffectOnce` is violated |
| `calendar_sync` | up to 2 edits at Sydia, 1 at Google, 1 fault, 3 in all; 3 operations, 2 workers, 1 puller | `NoSydiaEditLost`, `GoogleEditKept`, `SyncedIsHeld`, `CreatedFirst`, `Converges`, `TypeOK` |
| `calendar_lost` | a linked event, 2 edits at Sydia, 1 at Google, no fault; 1 worker, 1 puller | `NoGoogleEditLost` is violated |
| `calendar_reconnect` | a linked event, 3 edits or faults in all; 1 worker, 1 puller | `Reconciles` is violated |
| `reminders_outage` | 1 reminder, 1 worker, 2 refreshers, 1 drop, 1 other event | `ToldOnce`, `SummarizedIsTold`, `MissedIsRemembered`, `SameOwner`, `EndsTold`, `TypeOK` |

Bounds. Two turns make a burst, a supersession and a queue behind a batch; the third turn of
`turns_order` lets a batch of two meet a newer one, which is where order and grouping can go wrong.
Two processes suffice for exclusion, which is about pairs. A burst window of 1 tick and a lease of 2 or 3
keep the order the code's defaults have (lease > window + lag, assumption `TimeAssumption`), with
room for a claim during the window, after it and after the lease. One crash makes a batch return;
`turns_rework` needs the second to return it again. The theorems have no bounds, and show that
these did not hide anything from the properties they cover. The channel instances never deadlock
(processes restart and time passes); the calls of `AssistantRuns` are finitely many and may all
be over, so its runs do not check deadlock. In `runs_answers` one toolCallId lets two attempts meet in one row, a
staleness of 1 and attempts up to 2 let a run be taken over while its attempt lives, and one death or exception
happens at any step; two ids are needed only for an effect that is repeated (`runs_effects`).

The calendar needs an edit on each side to make a conflict, a second one at Sydia to have an operation
overtaken or coalesced, and two workers for a lost claim whose request is still on its way; all three
event groups differ (title, place, status), so independent and clashing edits both happen. Its 0.4 million
states start from a new event and from one that both sides have. One outage needs one drop; two
refreshers and a worker find it over at the same time, and a requested reconnect can open another; one of
owner replaced, reconnect, cancelled reminder, changed preference and crash happens at any point in
between. Attempts are 2 where the code has 5, so that both a repetition and the end of the
repetitions are reached. Edits and events are bounded and a disconnected calendar or a line that stays
down may rest, so these runs do not check deadlock either.

Fairness (`turns_live`, `runs_answers`). Weak fairness of what a live process does next: node runs the
callbacks of its event loop, timers expire, provider and database calls return or time out.
Nothing is assumed of users, crashes, restarts or shutdowns. `calendar_sync` and `calendar_reconnect`: weak fairness of each
worker's and each puller's steps, since the scheduler dispatches due operations and bindings
again and again. `reminders_outage`: the same of each delivery job and each refresh (the queue runs its jobs,
the poll comes every 15 s) and of the age of an abandoned claim; nothing of the line or the user.

What the properties leave out. `AnsweredOnce` allows one more reply for each crash, and an apology after an answer
whose sending or completion threw when the provider had it: the code cannot tell that from an answer that never
left. `OneAnswer` and `CompletedIsFinal` hold while the runs are `Orderly`: no attempt or tool has outlasted `Stale`
so far, and no exception has set a call on the way to fail a run that is not in its hands. Neither is ensured by the
code. `runs_overrun` shows what a long attempt does; of two queued sends of one message, the one whose
`claimRun` throws while the other completes the run fails it by its id, and the answer stays in the conversation of
a failed run. `OneExecutor` excepts only tool calls that have themselves outlasted `Stale`. `NoSydiaEditLost` and `SyncedIsHeld` speak of events that both sides have
had from the start; `Converges` has as premises a connected calendar, no operation given up, no refused page.
`GoogleEditKept` lets an edit of Google's disappear unrecorded in one case: the link counts it as agreed although
no row has shown it. That happens when two operations of one revision, given up and revived together by the retry
button, end differently: one is given up again, so the row says 'error', and the other completes without
confirming the row (`prisma-calendar.repository.ts:3760`). A page listed before that push then takes
Google's edit for one of the row's and replaces it. `calendar_sync` is too small for it; an instance with four
faults has it. `SummarizedIsTold` has three reasons why a reminder may be marked that no summary told: cancelled, astray, or
given another status by its worker. The last is needed: a refresh with an empty list sets 'skipped_obsolete' and leaves the coverage of
an earlier, failed claim in place (`prisma-whatsapp-connection.repository.ts:263`), which the next claim returns.
`MissedIsRemembered` and `EndsTold`
except the reminders in `astray`; `EndsTold` also those that were cancelled, disabled, meant for another owner, have an
unknown outcome or no attempts left, which the code gives up on purpose. The other premises mark
where the code does not keep the promise: section 5 and the violated runs say how.

What the violated properties mean:

* `AcceptedIsScheduled`. A drain that has read an empty queue returns without a timer. A message
  that is enqueued after that read, and whose timer fires before the drain's promise has left
  the map of drains, finds a drain running and is dropped by the timer's callback. The turn waits for the
  next message or restart. `WatchedIsServed` is stated for the channels that something still looks at.
* `ActedUnderOneKey`. The turns of a sealed batch whose worker crashed become `processing` again, with a
  new burst window in which a newer message supersedes them; the merged batch has another
  idempotency key, and tools that had run are run again.
* `AnswersMatch` with long attempts. Nothing renews `startedAt` of a run and the writes that end it are not
  fenced: a message sent again after a minute is executed beside the live attempt.
* `EffectOnce`. The key of a tool contains the toolCallId, which each attempt chooses anew.
* `NoGoogleEditLost`. A pulled page is compared with the link's common snapshot and never with its etag.
  A page that was listed before a push and saved after it is older than the snapshot: what the row got
  from Google through the push looks like an edit of the row, and Google's edit is overwritten,
  recorded nowhere.
* `Reconciles`. A pull queues an operation under a key made of etag and revision. A disconnection
  and a reconnection cancel the operation but keep its key; the next pull wants the same key, fails on
  the unique index, and so does each pull after it.

## 4. Proofs

`ChannelTurnsProofs` proves, with no assumption but those on the constants, and with stalled
workers allowed (`Stalls = TRUE`):

* `TypeCorrect`.
* `OrderCorrect`: `WorkedInOrder`. Alone it is not inductive: one has to know that batches
  are contiguous in the queue. `OrderInv` adds that arrival order is strict (`StoredOnce`,
  `StrictOrder`), that live turns share one batch key (`OneBatch`), that turns under one key are neighbours
  (`KeysTogether`), and that a queued turn is never available before an older one (`NoOvertaking`).
* `SealedCorrect`: `SealedNotSuperseded`; only the claim clears `cancellationRequestedAt`.
* `LedgerKept`: every step is a step of `TurnLedger` or a stutter, from `OrderInv`: the claimed
  turns are the oldest of all that wait or come back.
* `EndCorrect`: `EndIsFinal`.

`ChannelOwnersProofs` adds `Stalls = FALSE`: a live process renews before its lease ends (every second,
against 300 s) and a handler lasts at most `MaxLag`. Then `OwnerCorrect` (`OneWorker`) follows
from `OwnerInv`: a process's live turns carry running leases (`Held`) and never return to the queue
(`NotReturned`). `ToolsCorrect` follows from `ToolInv`: a batch is touched by its own worker and /stop only
(`Untouched`), so ready tools mean sealed turns (`ReadyMeansSealed`).

`ChannelBatchesProofs` adds to these, again for `Stalls = FALSE`, the three properties of whole batches.
`BatchInv`: what is worked on is the batch of one process or of nobody (`Whole`), with one status (`OneStatus`, `Unsealed`);
a process has a batch only while it works on it (`EmptyHands`), and no turn is in two (`Disjoint`). A claim
takes all or nothing because nothing in the queue is older than what comes back (`LiveIsClaimed`). `SealedTogetherCorrect`
follows, and `AnsweredCorrect` (`AnsweredOnce`) from `Replied`: a turn that has not ended, or whose worker has not
sent its answer yet (`Unsaid`), has had at most as many replies as there were crashes (`Spoken`), and a turn in `doubted` is
over (`Closed`). `NoSilentDropCorrect` needs `DropInv` and `TimeAssumption`: a handler aborts what its own
transaction superseded up to `MaxLag` earlier, and the lease is too long for these turns to be claimed again in between (`InTime`,
`StopsDone`); so a cancelled or aborted batch has a newer message (`Marked`, `AbortedNewer`).

`AssistantRunsProofs` proves its four theorems for all constants: nothing is assumed of `Limit`. `AnswerCorrect`
and `FinalCorrect` follow from `RunInv`: as long as the runs are `Orderly`, at most one call is in an attempt
(`Sole`), its run has been running exactly as long as the attempt (`Held`), so it is not claimable, and the conversation
has the run's answer (`AnswersMatch`); a state that is not `Orderly` never leads back to one that is (`OrderlyBefore`).
`ExecutorCorrect` follows from `ToolInv`, with no such premise: the row of a tool in execution is ended or no older than
its attempt (`RowTaken`), so it can be claimed again only from an attempt that has outlasted `Stale`.

`CalendarSyncProofs` proves `CalendarTypes` and `CreationComesFirst`: nobody asks Google to change or
delete an event before its creation is recorded. `CreatedFirst` alone is not inductive; `IInv` adds `Counted` (a
worker that holds an operation knows its kind and has counted its try), `Stages` (only an update is looked at
again, and a busy worker has an operation) and `Unrecorded`: while there is no link the revisions of the live operations lie
within the row's (`Revisions`) and the creation leads them (`CreateLeads`).

`CalendarEditsProofs` first proves of `CalendarMerge`, for all sets of fields and all snapshots: after a clash is
settled the second comparison finds none (`ReconciliationResolves`); a push that is repeated on its own result sends nothing
(`PushSettles`); a field that one side alone changed is kept by a push and by a pull (`PushKeepsIndependent`,
`PullKeepsIndependent`); and the two pieces of code come to the same event (`PushAndPullAgree`). Then, for any number of edits,
operations, workers, pullers and faults, `SydiaEditsSurvive` (`NoSydiaEditLost`) and `SyncedCorrect` (`SyncedIsHeld`),
both from `EInv`, of an event that both sides have from the start. `Fine` says where snapshots come from: no value is from the
future, what Google's copy, a page or an answered update shows Google has had, and so has a row that says it is synced. `Order` says that
revisions stay behind the row's, that nothing older waits behind what a worker holds (`Oldest`), and what a disconnection
leaves (`Cut`). `Traced` follows a loose edit, one that only Sydia has: it is in the row, in every operation of the newest revision and
in one at least, and not in the link's common snapshot. The danger is an operation whose base has the edit already, since
such an update would not send it; `Behind` says that an older operation that wants the edit stands before it, and as
operations are claimed in order, that one tells Google first (`Carried`: it sends what it wants).

`ReminderDeliveryProofs` proves `ReminderTypes`, `RemindersAreToldOnce` and `OwnersAreKept`, for any number of
reminders, workers, refreshers, outages and crashes. `ToldOnce` alone is not inductive, since `Send` and
`Tell` rely on what has not been said yet. `IInv` adds: a worker past its claim is the only one with its
reminder, which nobody has been told of and no outage has (`WorkOK`, `Distinct`, `Unheard`); a refresher that
sends a summary holds its claim, and what it lists was missed in its outage (`TellOK`); and while an
outage's summary may still be sent nobody has been told of what it missed (`Silent`). `OwnersAreKept` follows because a
send compares the generation that it read, and both kinds of process carry reminders of that generation only.

`ReminderSummariesProofs` proves `SummarizedIsToldCorrect` and `MissedIsRememberedCorrect`, from `IInv` and `SInv`: an
outage id is one owner's and was given out before it is used (`OneOwner`, `GivenOut`); a worker writes over its own claim
only, unless it skips (`WriteOK`); from its list to the end of the outage a refresher has all that must be told
(`ListOK`); and the claim of a summary stores all of it, of its own outage only (`CoverOK`), so that what is marked is
what was named (`Named`).

Only model-checked: liveness (`WatchedIsServed`, `StoredIsSettled`, `Converges`, `EndsTold`), which with
ENABLED is beyond TLAPS, and `GoogleEditKept`: an invariant for it would have to follow two operations of one revision,
held at once, through a revival and a second failure, and is not written. The theorems about `ChannelTurns` with `Stalls = FALSE` do not hold without it:
renewals carry no fencing token (section 5).

## 5. Hazards no property covers

`PROJECT.json` lists them with their lines. The main ones: renewals and terminal writes of a turn carry
no fencing token, so a worker that stalls for a whole lease acts on turns another worker has
reclaimed; an answer already decided is sent although /stop commits meanwhile; a notice that throws leaves an
accepted turn without a timer; a pending document
ends its turn before the notice is sent; a run that a crash left running is refused by the retry
endpoint, and no sweep settles it; an inbound message is recorded before its turn is queued, in two
statements with nothing around them.

Of the calendar, facts that the model reproduces and the properties' premises exclude: a pull between the
landing of an insert and its completion makes a second row of the user's own event; reconnecting
rewrites a creation that had landed unseen, and its retry then completes as if the new content were at
Google; an event that was created and at once deleted at Google completes as live; a failed operation stays
ahead of newer edits of its event until somebody retries it; a page listed before a deletion briefly revives the
event.

Of the reminders: `disconnected` is written from a row that was read earlier, and may replace the id of an open outage
or reopen one that is over; a requested reconnect may end an outage of a line that is down again; a worker
writes its outcome whatever the status has become, and one that records a miss after the recovery
has listed leaves the reminder out of every summary.

## 6. Not modelled

The queue, the runs, the calendar and the reminders are the parts whose steps interleave in most
ways. The components below are in `PROJECT.json` as not modelled or partly modelled; in this order they would
be next, each with an MC module, a run, mutants and its proofs.

1. `ModelGateway`: attempts of `generate`, streaming or not: what a retry may repeat.
   Theorem: no side effect in two attempts while streaming.
2. `HindsightDelivery` and `NoteWork`: leases with attempts over ordered work; one abstract specification
   (work claimed, done once, in order) that both implement.
3. `FileDeletion`: the manifest as a resumable sequence over several stores. Theorem: nothing outside
   the confirmed manifest is deleted.
4. `AssistantActions` and `Billing`: small state machines with racing callers.
5. `Recurrence` and `Availability`: pure operators checked against their definitions over bounded inputs.

Not planned. Inbound webhooks are an insertion under a unique key and an update of the row: the key
settles redelivery, and the gap between recording and queueing is a hazard above, not a protocol. The
rest of the WhatsApp pairing is bounded by an external bridge whose behaviour the code only partly states.
Secrets, authentication, tasks, contacts and administration are rows behind single
transactions; the web frontend, the agent skills' scripts and the landing page hold no state that others share.
