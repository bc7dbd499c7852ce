----------------------------- MODULE AssistantRuns -----------------------------
(***************************************************************************)
(* The assistant run of ONE user message: every call that sends it again   *)
(* under its idempotency key, every retry of its failed run, and the tools *)
(* that an attempt calls.                                                  *)
(*                                                                         *)
(*   conversations/services/assistant-orchestrator.service.ts   the calls  *)
(*   conversations/services/tool-executor.service.ts            the tools  *)
(*   database/repositories/prisma-conversation.repository.ts    the rows   *)
(*                                                                         *)
(* A repository method is one step.  An instant is kept as its distance    *)
(* from now.  The model, which chooses tools and names its tool calls, and *)
(* the services behind the tools are external.                             *)
(***************************************************************************)
EXTENDS Integers

CONSTANTS Sends,    \* calls of sendQueued, stream or sendAndWait with one key
          Retries,  \* calls of retry
          Ids,      \* toolCallIds the model can choose
          Ops,      \* side effects the message asks for
          NoCall,   \* the null assistantMessageId
          Stale,    \* RUN_STALE_AFTER_MS and TOOL_STALE_AFTER_MS
          Limit,    \* bound on how long an attempt and its tools last
          MaxLost   \* bound on calls that die and repository calls that throw

Calls == Sends \cup Retries

ASSUME CallsAssumption == Sends \cap Retries = {} /\ NoCall \notin Calls
ASSUME ClockAssumption == Stale \in Nat /\ Limit \in Nat /\ MaxLost \in Nat

VARIABLES
    stored,    \* the user message is in the conversation
    run,       \* status of its assistant_run
    ranAgo,    \* time since startedAt while it is running
    message,   \* assistantMessageId, by the call that wrote the message
    posted,    \* calls whose assistant message is in the conversation
    row,       \* status of the tool_invocation of a toolCallId
    rowAgo,    \* time since its startedAt while it is running
    done,      \* <<toolCallId, op>>: the side effects that happened
    pc, age,   \* per call: where it is, how long it has worked on the run
    task,      \* per call: its tool call in flight
    asked,     \* per call: the operations its model has asked for
    lost,      \* calls that died, and repository calls that threw
    astray     \* calls that go on to fail a run that is not in their hands

runRow   == <<run, ranAgo, message>>
toolRow  == <<row, rowAgo>>
vars == <<stored, runRow, posted, toolRow, done, pc, age, task, asked, lost,
          astray>>

Settled == {"completed", "failed"}
NoTask  == [at |-> "none"]
Tasks   == [at : {"claim", "reject", "run", "completed", "failed"},
            id : Ids, op : Ops]
Pc      == {"idle", "find", "create", "claim", "generate", "persist", "fail",
            "catch", "done"}

\* The calls between claimRun and the last write of their attempt.
Attempting ==
    {c \in Calls : pc[c] \in {"generate", "persist", "fail", "catch"}}
InFlight   == {c \in Calls : task[c] # NoTask}

TypeOK ==
    /\ stored \in BOOLEAN
    /\ run \in {"absent", "queued", "running"} \cup Settled
    /\ ranAgo \in 0 .. Stale + 1
    /\ message \in Calls \cup {NoCall} /\ posted \subseteq Calls
    /\ row \in [Ids -> {"absent", "pending", "running", "completed", "failed",
                        "rejected"}]
    /\ rowAgo \in [Ids -> 0 .. Stale + 1]
    /\ done \subseteq Ids \X Ops
    /\ pc \in [Calls -> Pc] /\ age \in [Calls -> 0 .. Limit]
    /\ task \in [Calls -> Tasks \cup {NoTask}]
    /\ asked \in [Calls -> SUBSET Ops]
    /\ lost \in 0 .. MaxLost /\ astray \subseteq Calls

Init ==
    /\ stored = FALSE
    /\ run = "absent" /\ ranAgo = 0 /\ message = NoCall /\ posted = {}
    /\ row = [i \in Ids |-> "absent"] /\ rowAgo = [i \in Ids |-> 0]
    /\ done = {}
    /\ pc = [c \in Calls |-> "idle"] /\ age = [c \in Calls |-> 0]
    /\ task = [c \in Calls |-> NoTask] /\ asked = [c \in Calls |-> {}]
    /\ lost = 0 /\ astray = {}

Goto(c, stage) == pc' = [pc EXCEPT ![c] = stage]

-----------------------------------------------------------------------------
(* prepareSend and retry. *)

\* writeUserMessage: the first one stores the message, the others replay it.
Write(c) ==
    /\ c \in Sends /\ pc[c] = "idle"
    /\ stored' = TRUE
    /\ Goto(c, "find")
    /\ UNCHANGED <<runRow, posted, toolRow, done, age, task, asked, lost,
                   astray>>

\* findLatestRunForMessage: the result of a settled run is replayed.
Find(c) ==
    /\ pc[c] = "find"
    /\ Goto(c, CASE run \in Settled -> "done"
                 [] run = "absent"  -> "create"
                 [] OTHER           -> "claim")
    /\ UNCHANGED <<stored, runRow, posted, toolRow, done, age, task, asked,
                   lost, astray>>

\* Mutants of Create: an upsert; a run that nobody executes.
CreateAnew(c) ==
    /\ pc[c] = "create"
    /\ run' = "queued"
    /\ Goto(c, "claim")
    /\ UNCHANGED <<stored, ranAgo, message, posted, toolRow, done, age, task,
                   asked, lost, astray>>
CreateOnly(c) ==
    /\ pc[c] = "create"
    /\ run' = IF run = "absent" THEN "queued" ELSE run
    /\ Goto(c, "done")
    /\ UNCHANGED <<stored, ranAgo, message, posted, toolRow, done, age, task,
                   asked, lost, astray>>

\* createRun: its key is unique, and a run that is there is returned.
Create(c) ==
    /\ pc[c] = "create"
    /\ run' = IF run = "absent" THEN "queued" ELSE run
    /\ Goto(c, "claim")
    /\ UNCHANGED <<stored, ranAgo, message, posted, toolRow, done, age, task,
                   asked, lost, astray>>

\* retry knows the run's id; anything but a failed run is refused.
Retry(c) ==
    /\ c \in Retries /\ pc[c] = "idle" /\ run # "absent"
    /\ Goto(c, IF run = "failed" THEN "claim" ELSE "done")
    /\ UNCHANGED <<stored, runRow, posted, toolRow, done, age, task, asked,
                   lost, astray>>

-----------------------------------------------------------------------------
(* execute. *)

\* Mutant of Claimable: a run is stale one tick early.
ClaimableEarly ==
    run \in {"queued", "failed"} \/ (run = "running" /\ ranAgo >= Stale)

Claimable ==
    run \in {"queued", "failed"} \/ (run = "running" /\ ranAgo > Stale)

\* claimRun, completeRun and updateRun; the last two whatever the run's status.
ClaimRun       == run' = "running" /\ ranAgo' = 0 /\ message' = NoCall
CompleteRun(c) == /\ posted' = posted \cup {c}
                  /\ run' = "completed" /\ message' = c /\ ranAgo' = 0
FailRun        == run' = "failed" /\ ranAgo' = 0 /\ UNCHANGED message

\* Without the claim execute returns the run as it is and no message.
Claim(c) ==
    /\ pc[c] = "claim"
    /\ IF Claimable THEN ClaimRun /\ Goto(c, "generate")
       ELSE Goto(c, "done") /\ UNCHANGED runRow
    /\ UNCHANGED <<stored, posted, toolRow, done, age, task, asked, lost,
                   astray>>

\* The context is built and the model has answered after its tools returned.
Generated(c) ==
    /\ pc[c] = "generate" /\ task[c] = NoTask
    /\ Goto(c, "persist")
    /\ UNCHANGED <<stored, runRow, posted, toolRow, done, age, task, asked,
                   lost, astray>>

\* No context, a provider error or a timeout.  It does not wait for a tool
\* that already runs.
GenerationFails(c) ==
    /\ pc[c] = "generate"
    /\ Goto(c, "fail")
    /\ UNCHANGED <<stored, runRow, posted, toolRow, done, age, task, asked,
                   lost, astray>>

\* persistSuccess, after toolsReady.
Complete(c) ==
    /\ pc[c] = "persist"
    /\ CompleteRun(c)
    /\ Goto(c, "done")
    /\ UNCHANGED <<stored, toolRow, done, age, task, asked, lost, astray>>

\* No text, the channel's batch was superseded meanwhile, or completeRun threw
\* and its transaction was rolled back.
Discard(c) ==
    /\ pc[c] = "persist"
    /\ Goto(c, "fail")
    /\ UNCHANGED <<stored, runRow, posted, toolRow, done, age, task, asked,
                   lost, astray>>

\* Mutant of PersistFailure: a status the column's readers do not know.
PersistUnknown(c) ==
    /\ pc[c] = "fail"
    /\ run' = "superseded" /\ ranAgo' = 0
    /\ Goto(c, "done")
    /\ UNCHANGED <<stored, message, posted, toolRow, done, age, task, asked,
                   lost, astray>>

PersistFailure(c) ==
    /\ pc[c] = "fail"
    /\ FailRun
    /\ Goto(c, "done")
    /\ UNCHANGED <<stored, posted, toolRow, done, age, task, asked,
                   lost, astray>>

-----------------------------------------------------------------------------
(* The tools of an attempt.  They are taken one at a time, and a model asks *)
(* for an operation once in an attempt.                                     *)

\* createToolInvocation under `${inputMessageId}:${toolCallId}`; an unknown
\* tool or invalid arguments are to be rejected.
CallTool(c, i, o) ==
    /\ pc[c] = "generate" /\ task[c] = NoTask /\ o \notin asked[c]
    /\ asked' = [asked EXCEPT ![c] = @ \cup {o}]
    /\ row' = [row EXCEPT ![i] = IF @ = "absent" THEN "pending" ELSE @]
    /\ \E next \in {"claim", "reject"} :
         task' = [task EXCEPT ![c] = [at |-> next, id |-> i, op |-> o]]
    /\ UNCHANGED <<stored, runRow, posted, rowAgo, done, pc, age, lost,
                   astray>>

RejectTool(c) ==
    /\ task[c].at = "reject"
    /\ row' = [row EXCEPT ![task[c].id] = "rejected"]
    /\ rowAgo' = [rowAgo EXCEPT ![task[c].id] = 0]
    /\ task' = [task EXCEPT ![c] = NoTask]
    /\ UNCHANGED <<stored, runRow, posted, done, pc, age, asked, lost, astray>>

\* Mutant of ToolClaimable: a running invocation is always taken over.
ToolClaimableAlways(i) == row[i] \in {"pending", "running"}

ToolClaimable(i) ==
    row[i] = "pending" \/ (row[i] = "running" /\ rowAgo[i] > Stale)

\* claimToolInvocation; without it the model is told the row's status.
ClaimTool(c) ==
    /\ task[c].at = "claim"
    /\ LET i == task[c].id
       IN  IF ToolClaimable(i)
           THEN /\ row' = [row EXCEPT ![i] = "running"]
                /\ rowAgo' = [rowAgo EXCEPT ![i] = 0]
                /\ task' = [task EXCEPT ![c].at = "run"]
           ELSE task' = [task EXCEPT ![c] = NoTask] /\ UNCHANGED toolRow
    /\ UNCHANGED <<stored, runRow, posted, done, pc, age, asked, lost, astray>>

\* The service does the operation, once per idempotency key, or throws.
RunTool(c) ==
    /\ task[c].at = "run"
    /\ \/ /\ done' = done \cup {<<task[c].id, task[c].op>>}
          /\ task' = [task EXCEPT ![c].at = "completed"]
       \/ task' = [task EXCEPT ![c].at = "failed"] /\ UNCHANGED done
    /\ UNCHANGED <<stored, runRow, posted, toolRow, pc, age, asked, lost,
                   astray>>

\* updateToolInvocation, whatever the row's status.
RecordTool(c) ==
    /\ task[c].at \in {"completed", "failed"}
    /\ row' = [row EXCEPT ![task[c].id] = task[c].at]
    /\ rowAgo' = [rowAgo EXCEPT ![task[c].id] = 0]
    /\ task' = [task EXCEPT ![c] = NoTask]
    /\ UNCHANGED <<stored, runRow, posted, done, pc, age, asked, lost, astray>>

-----------------------------------------------------------------------------
\* The process dies, or an exception leaves prepareSend: the run stays as it is.
Lose(c) ==
    /\ lost < MaxLost
    /\ pc[c] \notin {"idle", "done"} \/ task[c] # NoTask
    /\ lost' = lost + 1
    /\ Goto(c, "done")
    /\ task' = [task EXCEPT ![c] = NoTask]
    /\ UNCHANGED <<stored, runRow, posted, toolRow, done, age, asked, astray>>

\* An exception leaves execute.  sendQueued has scheduled it, with a catch;
\* stream, sendAndWait and retry hand the exception on.
Escape(c, held) ==
    \/ Goto(c, "done") /\ UNCHANGED astray
    \/ /\ c \in Sends /\ Goto(c, "catch")
       /\ astray' = IF held THEN astray ELSE astray \cup {c}

\* A repository call of execute throws; its write may have been done all the
\* same: claimRun (or findRun after it), completeRun, and updateRun in
\* persistFailure.
Throw(c) ==
    /\ lost < MaxLost /\ lost' = lost + 1
    /\ \/ /\ pc[c] = "claim" /\ UNCHANGED posted
          /\ \/ Claimable /\ ClaimRun /\ Escape(c, TRUE)
             \/ UNCHANGED runRow /\ Escape(c, FALSE)
       \/ /\ pc[c] = "persist" /\ CompleteRun(c)
          /\ Goto(c, "fail") /\ astray' = astray \cup {c}
       \/ /\ pc[c] = "fail" /\ UNCHANGED posted
          /\ \/ FailRun /\ Escape(c, FALSE)
             \/ UNCHANGED runRow /\ Escape(c, TRUE)
    /\ UNCHANGED <<stored, toolRow, done, age, task, asked>>

\* The catch of scheduleExecution fails the run by its id; if that throws too,
\* it is logged.
Catch(c) ==
    /\ pc[c] = "catch"
    /\ FailRun \/ UNCHANGED runRow
    /\ Goto(c, "done")
    /\ UNCHANGED <<stored, posted, toolRow, done, age, task, asked, lost,
                   astray>>

Later(n) == IF n <= Stale THEN n + 1 ELSE n

Tick ==
    /\ \A c \in Attempting \cup InFlight : age[c] < Limit
    /\ ranAgo' = IF run = "running" THEN Later(ranAgo) ELSE ranAgo
    /\ rowAgo' = [i \in Ids |-> IF row[i] = "running" THEN Later(rowAgo[i])
                                ELSE rowAgo[i]]
    /\ age' = [c \in Calls |-> IF c \in Attempting \cup InFlight
                               THEN age[c] + 1 ELSE age[c]]
    /\ UNCHANGED <<stored, run, message, posted, row, done, pc, task, asked,
                   lost, astray>>

\* What a live call does next.
Step(c) ==
    \/ Find(c) \/ Create(c) \/ Claim(c) \/ Generated(c) \/ GenerationFails(c)
    \/ Complete(c) \/ Discard(c) \/ PersistFailure(c) \/ Catch(c)
    \/ \E i \in Ids, o \in Ops : CallTool(c, i, o)
    \/ RejectTool(c) \/ ClaimTool(c) \/ RunTool(c) \/ RecordTool(c)

Next ==
    \/ Tick
    \/ \E c \in Calls : Write(c) \/ Retry(c) \/ Step(c) \/ Lose(c) \/ Throw(c)

Spec == Init /\ [][Next]_vars

\* Every await of a live call ends; the model asks for finitely many tools.
FairSpec == Spec /\ \A c \in Calls : WF_vars(Step(c))

-----------------------------------------------------------------------------
(* Properties. *)

\* No attempt or tool has outlasted the staleness of its row, and no exception
\* has made a call fail a run that was not in its hands.
Orderly == astray = {} /\ \A c \in Calls : age[c] <= Stale

\* The conversation holds the answer of the run and no other.
AnswersMatch == posted = IF run = "completed" THEN {message} ELSE {}

\* However often a message is sent again or its run retried, whatever dies and
\* throws: it is answered once and an attempt that failed leaves no answer,
\* until an attempt has outlasted Stale or a call went astray.
OneAnswer == Orderly => AnswersMatch

\* Two attempts never run one tool call, unless one of them has lasted longer
\* than Stale.
OneExecutor ==
    \A c, d \in Calls :
        (task[c].at = "run" /\ task[d].at = "run" /\ task[c].id = task[d].id)
            => c = d \/ age[c] > Stale \/ age[d] > Stale

\* As long as no attempt has outlasted Stale and no call went astray, an
\* answered message stays answered: no late failure, claim, creation or catch
\* takes its run back.
CompletedIsFinal ==
    [][Orderly /\ run = "completed"
         => run' = "completed" /\ message' = message]_vars

\* A message that was stored gets its run completed or failed, unless the call
\* that worked on it was lost.
StoredIsSettled == stored ~> (run \in Settled \/ lost > 0)

\* An operation the message asks for happens once, however often the message
\* is sent again.
EffectOnce ==
    \A d, e \in done : d[2] = e[2] => d = e

=============================================================================
