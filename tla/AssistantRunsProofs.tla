-------------------------- MODULE AssistantRunsProofs --------------------------
(* Proofs about AssistantRuns: for any number of sends, retries, tool calls  *)
(* and faults, and for attempts of any length.                               *)
EXTENDS AssistantRuns, TLAPS

USE CallsAssumption, ClockAssumption

\* The type invariant is inductive.
LEMMA InitTyped == Init => TypeOK
<1> SUFFICES ASSUME Init PROVE TypeOK
  OBVIOUS
<1>1. task \in [Calls -> Tasks \cup {NoTask}]
  BY DEF Init
<1>2. pc \in [Calls -> Pc] /\ asked \in [Calls -> SUBSET Ops]
  BY DEF Init, Pc
<1>3. /\ lost \in 0 .. MaxLost /\ ranAgo \in 0 .. Stale + 1
      /\ age \in [Calls -> 0 .. Limit] /\ rowAgo \in [Ids -> 0 .. Stale + 1]
  BY DEF Init
<1> QED BY <1>1, <1>2, <1>3 DEF Init, TypeOK, Settled

LEMMA NextTyped == TypeOK /\ [Next]_vars => TypeOK'
<1> SUFFICES ASSUME TypeOK, [Next]_vars PROVE TypeOK'
  OBVIOUS
<1>1. CASE Tick
  <2>1. ranAgo' \in 0 .. Stale + 1
    BY <1>1 DEF Tick, TypeOK, Later
  <2>2. rowAgo' \in [Ids -> 0 .. Stale + 1]
    BY <1>1 DEF Tick, TypeOK, Later
  <2>3. age' \in [Calls -> 0 .. Limit]
    BY <1>1 DEF Tick, TypeOK
  <2> QED BY <1>1, <2>1, <2>2, <2>3 DEF Tick, TypeOK
<1>2. ASSUME NEW c \in Calls, Write(c) PROVE TypeOK'
  BY <1>2 DEF Write, TypeOK, Goto, Pc, runRow, toolRow
<1>3. ASSUME NEW c \in Calls, Retry(c) PROVE TypeOK'
  BY <1>3 DEF Retry, TypeOK, Goto, Pc, runRow, toolRow
<1>4. ASSUME NEW c \in Calls, Lose(c) \/ Throw(c) \/ Catch(c) PROVE TypeOK'
  <2>1. CASE Lose(c)
    BY <2>1 DEF Lose, TypeOK, Goto, Pc, runRow, toolRow
  <2>2. CASE Throw(c)
    BY <2>2 DEF Throw, Escape, ClaimRun, CompleteRun, FailRun, TypeOK, Goto,
                Pc, Settled, runRow, toolRow
  <2>3. CASE Catch(c)
    BY <2>3 DEF Catch, FailRun, TypeOK, Goto, Pc, Settled, runRow, toolRow
  <2> QED BY <1>4, <2>1, <2>2, <2>3
<1>5. ASSUME NEW c \in Calls, Find(c) PROVE TypeOK'
  BY <1>5 DEF Find, TypeOK, Goto, Pc, runRow, toolRow
<1>6. ASSUME NEW c \in Calls, Create(c) PROVE TypeOK'
  BY <1>6 DEF Create, TypeOK, Goto, Pc, Settled, toolRow
<1>7. ASSUME NEW c \in Calls, Claim(c) PROVE TypeOK'
  BY <1>7 DEF Claim, ClaimRun, TypeOK, Goto, Pc, runRow, toolRow
<1>8. ASSUME NEW c \in Calls, Generated(c) \/ GenerationFails(c) \/ Discard(c)
      PROVE TypeOK'
  BY <1>8 DEF Generated, GenerationFails, Discard, TypeOK, Goto, Pc, runRow,
              toolRow
<1>9. ASSUME NEW c \in Calls, Complete(c) \/ PersistFailure(c) PROVE TypeOK'
  BY <1>9 DEF Complete, PersistFailure, CompleteRun, FailRun, TypeOK, Goto, Pc,
              Settled, toolRow
<1>10. ASSUME NEW c \in Calls, NEW i \in Ids, NEW o \in Ops, CallTool(c, i, o)
       PROVE TypeOK'
  <2>1. task' \in [Calls -> Tasks \cup {NoTask}]
    BY <1>10 DEF CallTool, TypeOK, Tasks
  <2>2. row' \in [Ids -> {"absent", "pending", "running", "completed",
                          "failed", "rejected"}]
    BY <1>10 DEF CallTool, TypeOK
  <2>3. asked' \in [Calls -> SUBSET Ops]
    BY <1>10 DEF CallTool, TypeOK
  <2> QED BY <1>10, <2>1, <2>2, <2>3 DEF CallTool, TypeOK, runRow
<1>11. ASSUME NEW c \in Calls, task[c].at # "none",
              RejectTool(c) \/ ClaimTool(c) \/ RunTool(c) \/ RecordTool(c)
       PROVE TypeOK'
  <2>1. task[c] \in Tasks
    BY <1>11 DEF TypeOK, NoTask
  <2>2. task' \in [Calls -> Tasks \cup {NoTask}]
    BY <1>11, <2>1 DEF RejectTool, ClaimTool, RunTool, RecordTool, TypeOK,
                       Tasks
  <2>3. row' \in [Ids -> {"absent", "pending", "running", "completed",
                          "failed", "rejected"}]
    BY <1>11, <2>1 DEF RejectTool, ClaimTool, RunTool, RecordTool, TypeOK,
                       Tasks, toolRow
  <2>4. rowAgo' \in [Ids -> 0 .. Stale + 1]
    BY <1>11, <2>1 DEF RejectTool, ClaimTool, RunTool, RecordTool, TypeOK,
                       Tasks, toolRow
  <2>5. done' \subseteq Ids \X Ops
    BY <1>11, <2>1 DEF RejectTool, ClaimTool, RunTool, RecordTool, TypeOK,
                       Tasks
  <2> QED BY <1>11, <2>2, <2>3, <2>4, <2>5 DEF RejectTool, ClaimTool, RunTool,
                       RecordTool, TypeOK, runRow
<1>12. ASSUME NEW c \in Calls,
              RejectTool(c) \/ ClaimTool(c) \/ RunTool(c) \/ RecordTool(c)
       PROVE TypeOK'
  <2>1. task[c].at # "none"
    BY <1>12 DEF RejectTool, ClaimTool, RunTool, RecordTool
  <2> QED BY <1>11, <1>12, <2>1
<1>13. CASE UNCHANGED vars
  BY <1>13 DEF vars, runRow, toolRow, TypeOK
<1> QED
  BY <1>1, <1>2, <1>3, <1>4, <1>5, <1>6, <1>7, <1>8, <1>9, <1>10, <1>12, <1>13
     DEF Next, Step

\* TypeOK holds for all constants, attempts that outlast their run included.
THEOREM RunTypeCorrect == Spec => []TypeOK
<1>1. Init => TypeOK
  BY InitTyped
<1>2. TypeOK /\ [Next]_vars => TypeOK'
  BY NextTyped
<1> QED BY <1>1, <1>2, PTL DEF Spec

-----------------------------------------------------------------------------
(* One attempt at a time. *)

\* A call that has not claimed the run has spent no time on it.
Fresh == \A c \in Calls :
    pc[c] \in {"idle", "find", "create", "claim"} =>
        age[c] = 0 /\ task[c] = NoTask

\* The calls in the middle of an attempt: at most one, and its run is
\* running for exactly as long as the attempt.
Sole == \A c, d \in Attempting : c = d
Held == \A c \in Attempting : run = "running" /\ ranAgo = age[c]
Kept == Sole /\ Held /\ AnswersMatch
RunInv == TypeOK /\ Fresh /\ (Orderly => Kept)

\* Steps of the tools leave the run and its attempts alone.
ToolStep(c) ==
    \/ \E i \in Ids, o \in Ops : CallTool(c, i, o)
    \/ RejectTool(c) \/ ClaimTool(c) \/ RunTool(c) \/ RecordTool(c)

LEMMA ToolsLeaveRun ==
    ASSUME NEW c \in Calls, ToolStep(c)
    PROVE  UNCHANGED <<run, ranAgo, message, posted, pc, age, stored, astray>>
BY DEF ToolStep, CallTool, RejectTool, ClaimTool, RunTool, RecordTool, runRow

\* What Throw does, by the call that threw.
LEMMA ThrowCases ==
    ASSUME TypeOK, NEW c \in Calls, Throw(c)
    PROVE  /\ UNCHANGED <<age, task, row, rowAgo>>
           /\ astray \subseteq astray'
           /\ \A d \in Calls : d # c => pc'[d] = pc[d]
           /\ pc'[c] \in {"catch", "fail", "done"}
           /\ \/ /\ pc[c] = "claim" /\ pc'[c] # "fail" /\ posted' = posted
                 /\ \/ Claimable /\ run' = "running" /\ ranAgo' = 0
                    \/ /\ UNCHANGED <<run, ranAgo, message>>
                       /\ pc'[c] = "done" \/ astray' # {}
              \/ pc[c] = "persist" /\ astray' # {}
              \/ /\ pc[c] = "fail" /\ pc'[c] # "fail" /\ posted' = posted
                 /\ \/ run' = "failed" /\ (pc'[c] = "done" \/ astray' # {})
                    \/ UNCHANGED <<run, ranAgo, message>>
<1>1. UNCHANGED <<age, task, row, rowAgo>>
  BY DEF Throw, toolRow
<1>2. \E stage \in {"catch", "fail", "done"} : pc' = [pc EXCEPT ![c] = stage]
  BY DEF Throw, Escape, Goto
<1>3. astray \subseteq astray'
  BY DEF Throw, Escape
<1>4. \A d \in Calls : d # c => pc'[d] = pc[d]
  BY <1>2 DEF TypeOK
<1>5. CASE pc[c] = "claim"
  <2>1. /\ posted' = posted
        /\ \/ Claimable /\ ClaimRun /\ Escape(c, TRUE)
           \/ UNCHANGED runRow /\ Escape(c, FALSE)
    BY <1>5 DEF Throw
  <2>2. pc'[c] = "catch" \/ pc'[c] = "done"
    BY <2>1 DEF Escape, Goto, TypeOK
  <2>3. Escape(c, FALSE) => pc'[c] = "done" \/ astray' # {}
    BY DEF Escape, Goto, TypeOK
  <2> QED BY <1>1, <1>3, <1>4, <1>5, <2>1, <2>2, <2>3 DEF ClaimRun, runRow
<1>6. CASE pc[c] = "persist"
  <2>1. pc'[c] = "fail" /\ astray' # {}
    BY <1>6 DEF Throw, Goto, TypeOK
  <2> QED BY <1>1, <1>3, <1>4, <1>6, <2>1
<1>7. CASE pc[c] = "fail"
  <2>1. /\ posted' = posted
        /\ \/ FailRun /\ Escape(c, FALSE)
           \/ UNCHANGED runRow /\ Escape(c, TRUE)
    BY <1>7 DEF Throw
  <2>2. pc'[c] = "catch" \/ pc'[c] = "done"
    BY <2>1 DEF Escape, Goto, TypeOK
  <2>3. Escape(c, FALSE) => pc'[c] = "done" \/ astray' # {}
    BY DEF Escape, Goto, TypeOK
  <2> QED BY <1>1, <1>3, <1>4, <1>7, <2>1, <2>2, <2>3 DEF FailRun, runRow
<1> QED BY <1>5, <1>6, <1>7 DEF Throw

\* The time a call has spent on the run never shrinks, and a call that went
\* astray stays so: what is not orderly never is again.
LEMMA OrderlyBefore ==
    ASSUME TypeOK, [Next]_vars, Orderly'
    PROVE  Orderly
<1>1. astray \subseteq astray'
  <2>1. \A c \in Calls : Throw(c) => astray \subseteq astray'
    BY ThrowCases
  <2> QED BY <2>1
       DEF Next, Step, vars, Tick, Write, Retry, Find, Create, Claim, Generated,
           GenerationFails, Complete, Discard, PersistFailure, Catch, Lose,
           CallTool, RejectTool, ClaimTool, RunTool, RecordTool
<1>2. ASSUME NEW c \in Calls PROVE age[c] \in Nat /\ age[c] <= age'[c]
  <2>1. CASE Tick
    BY <2>1 DEF Tick, TypeOK
  <2>2. CASE ~Tick
    <3>1. \A d \in Calls : Throw(d) => age' = age
      BY DEF Throw
    <3>2. age' = age
      BY <2>2, <3>1
         DEF Next, Step, vars, Write, Retry, Find, Create, Claim, Generated,
             GenerationFails, Complete, Discard, PersistFailure, Catch, Lose,
             CallTool, RejectTool, ClaimTool, RunTool, RecordTool
    <3> QED BY <3>2 DEF TypeOK
  <2> QED BY <2>1, <2>2
<1>3. ASSUME NEW c \in Calls PROVE age'[c] <= Stale /\ age'[c] \in Int
  <2>1. TypeOK'
    BY NextTyped
  <2> QED BY <2>1 DEF TypeOK, Orderly
<1> QED BY <1>1, <1>2, <1>3 DEF Orderly

LEMMA NextFresh ==
    ASSUME TypeOK, Fresh, [Next]_vars
    PROVE  Fresh'
<1>1. CASE Tick
  BY <1>1 DEF Tick, TypeOK, Fresh, Attempting, InFlight
<1>2. ASSUME NEW c \in Calls, ToolStep(c) PROVE Fresh'
  <2>1. pc' = pc /\ age' = age
    BY <1>2, ToolsLeaveRun
  <2>2. \A d \in Calls : d # c => task'[d] = task[d]
    BY <1>2 DEF ToolStep, CallTool, RejectTool, ClaimTool, RunTool, RecordTool,
                TypeOK
  <2>3. pc[c] = "generate" \/ task[c] # NoTask
    BY <1>2 DEF ToolStep, CallTool, RejectTool, ClaimTool, RunTool, RecordTool,
                NoTask
  <2> QED BY <2>1, <2>2, <2>3 DEF Fresh
<1>3. ASSUME NEW c \in Calls,
             \/ Write(c) \/ Retry(c) \/ Find(c) \/ Create(c) \/ Claim(c)
             \/ Generated(c) \/ GenerationFails(c) \/ Complete(c)
             \/ Discard(c) \/ PersistFailure(c) \/ Catch(c)
      PROVE Fresh'
  <2>1. age' = age /\ task' = task
    BY <1>3 DEF Write, Retry, Find, Create, Claim, Generated, GenerationFails,
                Complete, Discard, PersistFailure, Catch
  <2>2. \A d \in Calls : d # c => pc'[d] = pc[d]
    BY <1>3 DEF Write, Retry, Find, Create, Claim, Generated, GenerationFails,
                Complete, Discard, PersistFailure, Catch, Goto, TypeOK
  <2>3. \/ pc[c] \in {"idle", "find", "create", "claim"}
        \/ pc'[c] \in {"persist", "fail", "done"}
    BY <1>3 DEF Write, Retry, Find, Create, Claim, Generated, GenerationFails,
                Complete, Discard, PersistFailure, Catch, Goto, TypeOK
  <2> QED BY <2>1, <2>2, <2>3 DEF Fresh
<1>4. ASSUME NEW c \in Calls, Throw(c) PROVE Fresh'
  BY <1>4, ThrowCases DEF Fresh
<1>5. ASSUME NEW c \in Calls, Lose(c) PROVE Fresh'
  <2>1. age' = age
    BY <1>5 DEF Lose
  <2>2. \A d \in Calls : d # c => pc'[d] = pc[d] /\ task'[d] = task[d]
    BY <1>5 DEF Lose, Goto, TypeOK
  <2>3. pc'[c] = "done"
    BY <1>5 DEF Lose, Goto, TypeOK
  <2> QED BY <2>1, <2>2, <2>3 DEF Fresh
<1>6. CASE UNCHANGED vars
  BY <1>6 DEF vars, Fresh
<1> QED BY <1>1, <1>2, <1>3, <1>4, <1>5, <1>6 DEF Next, Step, ToolStep

\* While a call is in an attempt no other call can claim the run.
LEMMA NotClaimable ==
    ASSUME RunInv, Orderly, Attempting # {}
    PROVE  ~Claimable
BY DEF RunInv, TypeOK, Kept, Held, Orderly, Attempting, Claimable

LEMMA NextKept ==
    ASSUME RunInv, [Next]_vars, Orderly'
    PROVE  Kept'
<1> USE DEF RunInv, Kept
<1>0. Orderly
  BY OrderlyBefore
<1>1. CASE Tick
  <2>1. Attempting' = Attempting
    BY <1>1 DEF Tick, Attempting
  <2>2. ASSUME NEW c \in Attempting PROVE run' = "running" /\ ranAgo' = age'[c]
    <3>1. c \in Calls /\ run = "running" /\ ranAgo = age[c]
      BY <1>0, <2>2 DEF Held, Attempting
    <3>2. age'[c] = age[c] + 1
      BY <1>1, <2>2, <3>1 DEF Tick, TypeOK
    <3>3. ranAgo' = ranAgo + 1
      BY <1>0, <1>1, <3>1 DEF Tick, Later, TypeOK, Orderly
    <3> QED BY <1>1, <3>1, <3>2, <3>3 DEF Tick
  <2> QED BY <1>0, <1>1, <2>1, <2>2 DEF Tick, Sole, Held, AnswersMatch
<1>2. ASSUME NEW c \in Calls, ToolStep(c) PROVE Kept'
  BY <1>0, <1>2, ToolsLeaveRun DEF Sole, Held, AnswersMatch, Attempting
<1>3. ASSUME NEW c \in Calls, Write(c) \/ Retry(c) \/ Find(c) \/ Lose(c)
      PROVE Kept'
  <2>1. Attempting' \subseteq Attempting
    BY <1>3 DEF Write, Retry, Find, Lose, Goto, Attempting, TypeOK
  <2>2. UNCHANGED <<run, ranAgo, message, posted, age>>
    BY <1>3 DEF Write, Retry, Find, Lose, runRow
  <2> QED BY <1>0, <2>1, <2>2 DEF Sole, Held, AnswersMatch
<1>4. ASSUME NEW c \in Calls, Create(c) PROVE Kept'
  <2>1. Attempting' = Attempting
    BY <1>4 DEF Create, Goto, Attempting, TypeOK
  <2>2. UNCHANGED <<ranAgo, message, posted, age>>
    BY <1>4 DEF Create
  <2>3. run' = run \/ (run = "absent" /\ run' = "queued")
    BY <1>4 DEF Create
  <2> QED BY <1>0, <2>1, <2>2, <2>3 DEF Sole, Held, AnswersMatch
<1>5. ASSUME NEW c \in Calls, Claim(c) PROVE Kept'
  <2>1. CASE Claimable
    <3>1. Attempting = {} /\ run # "completed" /\ posted = {}
      BY <1>0, <2>1, NotClaimable DEF Claimable, AnswersMatch
    <3>2. /\ run' = "running" /\ ranAgo' = 0 /\ posted' = posted
          /\ Attempting' = {c} /\ age'[c] = 0
      BY <1>5, <2>1, <3>1 DEF Claim, ClaimRun, Goto, Attempting, TypeOK, Fresh
    <3> QED BY <3>1, <3>2 DEF Sole, Held, AnswersMatch
  <2>2. CASE ~Claimable
    <3>1. Attempting' = Attempting
      BY <1>5, <2>2 DEF Claim, Goto, Attempting, TypeOK
    <3>2. UNCHANGED <<run, ranAgo, message, posted, age>>
      BY <1>5, <2>2 DEF Claim, runRow
    <3> QED BY <1>0, <3>1, <3>2 DEF Sole, Held, AnswersMatch
  <2> QED BY <2>1, <2>2
<1>6. ASSUME NEW c \in Calls, Generated(c) \/ GenerationFails(c) \/ Discard(c)
      PROVE Kept'
  <2>1. Attempting' = Attempting
    BY <1>6 DEF Generated, GenerationFails, Discard, Goto, Attempting, TypeOK
  <2>2. UNCHANGED <<run, ranAgo, message, posted, age>>
    BY <1>6 DEF Generated, GenerationFails, Discard, runRow
  <2> QED BY <1>0, <2>1, <2>2 DEF Sole, Held, AnswersMatch
<1>7. ASSUME NEW c \in Calls, Complete(c) \/ PersistFailure(c) \/ Catch(c)
      PROVE Kept'
  <2>1. c \in Attempting /\ run = "running" /\ posted = {}
    BY <1>0, <1>7 DEF Complete, PersistFailure, Catch, Attempting, Held,
                      AnswersMatch
  <2>2. Attempting' = {}
    BY <1>0, <1>7, <2>1 DEF Complete, PersistFailure, Catch, Goto, Attempting,
                            Sole, TypeOK
  <2>3. AnswersMatch'
    BY <1>7, <2>1 DEF Complete, PersistFailure, Catch, CompleteRun, FailRun,
                      runRow, AnswersMatch
  <2> QED BY <2>2, <2>3 DEF Sole, Held
<1>8. ASSUME NEW c \in Calls, Throw(c) PROVE Kept'
  <2>1. astray' = {}
    BY DEF Orderly
  <2>2. \A d \in Calls : d # c => pc'[d] = pc[d]
    BY <1>8, ThrowCases
  <2>3. UNCHANGED age
    BY <1>8, ThrowCases
  <2>4. CASE pc[c] = "claim" /\ Claimable /\ run' = "running" /\ ranAgo' = 0
    <3>1. Attempting = {} /\ posted = {} /\ posted' = posted /\ age[c] = 0
      BY <1>0, <1>8, <2>4, NotClaimable, ThrowCases
         DEF Claimable, AnswersMatch, Fresh
    <3>2. Attempting' \subseteq {c}
      BY <2>2, <3>1 DEF Attempting
    <3> QED BY <2>3, <2>4, <3>1, <3>2 DEF Sole, Held, AnswersMatch
  <2>5. CASE /\ pc[c] = "claim" /\ UNCHANGED <<run, ranAgo, message>>
             /\ pc'[c] = "done"
    <3>1. posted' = posted
      BY <1>8, <2>5, ThrowCases
    <3>2. Attempting' \subseteq Attempting
      BY <2>2, <2>5 DEF Attempting
    <3> QED BY <1>0, <2>3, <2>5, <3>1, <3>2 DEF Sole, Held, AnswersMatch
  <2>6. CASE pc[c] = "fail"
    <3>1. c \in Attempting /\ Attempting = {c} /\ run = "running" /\ posted = {}
      BY <1>0, <2>6 DEF Attempting, Sole, Held, AnswersMatch
    <3>2. posted' = posted
      BY <1>8, <2>6, ThrowCases
    <3>3. \/ run' = "failed" /\ pc'[c] = "done"
          \/ UNCHANGED <<run, ranAgo, message>>
      BY <1>8, <2>1, <2>6, ThrowCases
    <3>4. CASE run' = "failed" /\ pc'[c] = "done"
      <4>1. Attempting' = {}
        BY <2>2, <3>1, <3>4 DEF Attempting
      <4> QED BY <3>1, <3>2, <3>4, <4>1 DEF Sole, Held, AnswersMatch
    <3>5. CASE UNCHANGED <<run, ranAgo, message>>
      <4>1. Attempting' \subseteq {c}
        BY <2>2, <3>1 DEF Attempting
      <4> QED BY <1>0, <2>3, <3>1, <3>2, <3>5, <4>1
                 DEF Sole, Held, AnswersMatch
    <3> QED BY <3>3, <3>4, <3>5
  <2> QED BY <1>8, <2>1, <2>4, <2>5, <2>6, ThrowCases
<1>9. CASE UNCHANGED vars
  BY <1>0, <1>9 DEF vars, runRow, Sole, Held, AnswersMatch, Attempting
<1> QED
  BY <1>1, <1>2, <1>3, <1>4, <1>5, <1>6, <1>7, <1>8, <1>9
     DEF Next, Step, ToolStep

LEMMA InitRunInv == Init => RunInv
BY InitTyped DEF Init, RunInv, Fresh, Kept, Sole, Held, AnswersMatch,
                 Attempting

LEMMA NextRunInv == RunInv /\ [Next]_vars => RunInv'
BY NextTyped, NextFresh, NextKept DEF RunInv

\* One answer per message: OneAnswer, however long attempts last and whatever
\* dies or throws.
THEOREM AnswerCorrect == Spec => []OneAnswer
<1>1. RunInv => OneAnswer
  BY DEF RunInv, Kept, OneAnswer
<1> QED BY <1>1, InitRunInv, NextRunInv, PTL DEF Spec

\* CompletedIsFinal: what takes a completed run back is a claim after a long
\* attempt, or a call that went astray.
THEOREM FinalCorrect == Spec => CompletedIsFinal
<1>1. RunInv /\ [Next]_vars =>
        [Orderly /\ run = "completed"
           => run' = "completed" /\ message' = message]_vars
  <2> SUFFICES ASSUME RunInv, Next, Orderly, run = "completed"
               PROVE  run' = "completed" /\ message' = message
    OBVIOUS
  <2>1. Attempting = {} /\ ~Claimable /\ TypeOK
    BY DEF RunInv, Kept, Held, Claimable
  <2>2. ASSUME NEW c \in Calls
        PROVE  ~Complete(c) /\ ~PersistFailure(c) /\ ~Catch(c)
    BY <2>1 DEF Complete, PersistFailure, Catch, Attempting
  <2>3. ASSUME NEW c \in Calls, Claim(c) PROVE UNCHANGED <<run, message>>
    BY <2>1, <2>3 DEF Claim, runRow
  <2>4. ASSUME NEW c \in Calls, ToolStep(c) PROVE UNCHANGED <<run, message>>
    BY <2>4, ToolsLeaveRun
  <2>5. ASSUME NEW c \in Calls,
               \/ Write(c) \/ Retry(c) \/ Lose(c) \/ Find(c) \/ Create(c)
               \/ Generated(c) \/ GenerationFails(c) \/ Discard(c)
        PROVE UNCHANGED <<run, message>>
    BY <2>5 DEF Write, Retry, Lose, Find, Create, Generated, GenerationFails,
                Discard, runRow
  <2>6. ASSUME NEW c \in Calls, Throw(c) PROVE UNCHANGED <<run, message>>
    <3>1. pc[c] # "persist" /\ pc[c] # "fail"
      BY <2>1 DEF Attempting
    <3> QED BY <2>1, <2>6, <3>1, ThrowCases
  <2>7. Tick => UNCHANGED <<run, message>>
    BY DEF Tick
  <2> QED BY <2>2, <2>3, <2>4, <2>5, <2>6, <2>7 DEF Next, Step, ToolStep
<1> QED BY <1>1, InitRunInv, NextRunInv, PTL DEF Spec, CompletedIsFinal

-----------------------------------------------------------------------------
(* One executor per tool call. *)

\* The row of a tool that a call executes was claimed after the call began its
\* attempt, by this call or by another.
RowTaken ==
    \A c \in Calls : task[c].at = "run" =>
        /\ row[task[c].id] \in {"running", "completed", "failed", "rejected"}
        /\ row[task[c].id] = "running" => rowAgo[task[c].id] <= age[c]
ToolInv == TypeOK /\ RowTaken /\ OneExecutor

LEMMA InitToolInv == Init => ToolInv
BY InitTyped DEF Init, ToolInv, RowTaken, OneExecutor, NoTask

\* Whoever executes a tool that can be claimed again has outlasted Stale.
LEMMA ToolClaimableLate ==
    ASSUME ToolInv, NEW c \in Calls, task[c].at = "run"
    PROVE  /\ task[c].id \in Ids
           /\ ToolClaimable(task[c].id) => age[c] > Stale
<1>1. task[c] \in Tasks
  BY DEF ToolInv, TypeOK, NoTask
<1>2. task[c].id \in Ids
  BY <1>1 DEF Tasks
<1> QED BY <1>2 DEF ToolInv, TypeOK, RowTaken, ToolClaimable

LEMMA NextToolInv ==
    ASSUME ToolInv, [Next]_vars
    PROVE  RowTaken' /\ OneExecutor'
<1> USE DEF ToolInv
<1>0. \A c \in Calls : task[c] # NoTask => task[c] \in Tasks
  BY DEF TypeOK
<1>1. CASE Tick
  <2>1. ASSUME NEW c \in Calls, task[c].at = "run"
        PROVE  /\ task[c].id \in Ids
               /\ row[task[c].id] = "running" =>
                    rowAgo'[task[c].id] <= age'[c]
    <3>1. c \in InFlight /\ task[c].id \in Ids
      BY <1>0, <2>1 DEF InFlight, NoTask, Tasks
    <3>2. age'[c] = age[c] + 1
      BY <1>1, <3>1 DEF Tick, TypeOK
    <3> QED BY <1>1, <2>1, <3>1, <3>2 DEF Tick, TypeOK, RowTaken, Later
  <2>2. \A c \in Calls : age[c] > Stale => age'[c] > Stale
    BY <1>1 DEF Tick, TypeOK
  <2> QED BY <1>1, <2>1, <2>2 DEF Tick, RowTaken, OneExecutor
<1>2. ASSUME NEW c \in Calls,
             \/ Write(c) \/ Retry(c) \/ Find(c) \/ Create(c) \/ Claim(c)
             \/ Generated(c) \/ GenerationFails(c) \/ Complete(c)
             \/ Discard(c) \/ PersistFailure(c) \/ Catch(c) \/ Throw(c)
      PROVE RowTaken' /\ OneExecutor'
  <2>1. UNCHANGED <<task, row, rowAgo, age>>
    BY <1>2 DEF Write, Retry, Find, Create, Claim, Generated, GenerationFails,
                Complete, Discard, PersistFailure, Catch, Throw, toolRow
  <2> QED BY <2>1 DEF RowTaken, OneExecutor
<1>3. ASSUME NEW c \in Calls, Lose(c) PROVE RowTaken' /\ OneExecutor'
  <2>1. UNCHANGED <<row, rowAgo, age>>
    BY <1>3 DEF Lose, toolRow
  <2>2. \A d \in Calls : task'[d] = NoTask \/ task'[d] = task[d]
    BY <1>3 DEF Lose, TypeOK
  <2> QED BY <2>1, <2>2 DEF RowTaken, OneExecutor, NoTask
<1>4. ASSUME NEW c \in Calls, NEW i \in Ids, NEW o \in Ops, CallTool(c, i, o)
      PROVE RowTaken' /\ OneExecutor'
  <2>1. UNCHANGED <<rowAgo, age>>
    BY <1>4 DEF CallTool
  <2>2. \A d \in Calls : task'[d] = task[d] \/ task'[d].at # "run"
    BY <1>4 DEF CallTool, TypeOK
  <2>3. \A j \in Ids : row'[j] = row[j] \/ (row[j] = "absent"
                                            /\ row'[j] = "pending")
    BY <1>4 DEF CallTool, TypeOK
  <2>4. \A d \in Calls : task[d].at = "run" => task[d].id \in Ids
    BY <1>0 DEF NoTask, Tasks
  <2>5. RowTaken'
    BY <2>1, <2>2, <2>3, <2>4 DEF RowTaken
  <2>6. OneExecutor'
    BY <2>1, <2>2 DEF OneExecutor
  <2> QED BY <2>5, <2>6
<1>5. ASSUME NEW c \in Calls, ClaimTool(c) PROVE RowTaken' /\ OneExecutor'
  <2>1. task[c] \in Tasks /\ task[c].id \in Ids /\ UNCHANGED age
    BY <1>0, <1>5 DEF ClaimTool, NoTask, Tasks
  <2>2. CASE ToolClaimable(task[c].id)
    <3>1. \A d \in Calls :
            task[d].at = "run" /\ task[d].id = task[c].id => age[d] > Stale
      BY <2>2, ToolClaimableLate
    <3>2. /\ row' = [row EXCEPT ![task[c].id] = "running"]
          /\ rowAgo' = [rowAgo EXCEPT ![task[c].id] = 0]
          /\ task' = [task EXCEPT ![c].at = "run"]
      BY <1>5, <2>2 DEF ClaimTool
    <3>3. /\ task'[c].at = "run" /\ task'[c].id = task[c].id
          /\ \A d \in Calls : d # c => task'[d] = task[d]
      BY <2>1, <3>2 DEF TypeOK, Tasks
    <3>4. /\ row'[task[c].id] = "running" /\ rowAgo'[task[c].id] = 0
          /\ \A j \in Ids : j # task[c].id =>
               row'[j] = row[j] /\ rowAgo'[j] = rowAgo[j]
      BY <2>1, <3>2 DEF TypeOK
    <3>5. \A d \in Calls : task[d].at = "run" => task[d].id \in Ids
      BY <1>0 DEF NoTask, Tasks
    <3>6. RowTaken'
      <4> SUFFICES ASSUME NEW d \in Calls, task'[d].at = "run"
                   PROVE  /\ row'[task'[d].id] \in {"running", "completed",
                                                   "failed", "rejected"}
                          /\ row'[task'[d].id] = "running" =>
                               rowAgo'[task'[d].id] <= age'[d]
        BY DEF RowTaken
      <4>1. CASE task'[d].id = task[c].id
        BY <2>1, <3>4, <4>1 DEF TypeOK
      <4>2. CASE task'[d].id # task[c].id
        BY <2>1, <3>3, <3>4, <3>5, <4>2 DEF RowTaken
      <4> QED BY <4>1, <4>2
    <3>7. OneExecutor'
      BY <2>1, <3>1, <3>3 DEF OneExecutor
    <3> QED BY <3>6, <3>7
  <2>3. CASE ~ToolClaimable(task[c].id)
    <3>1. /\ UNCHANGED <<row, rowAgo>>
          /\ \A d \in Calls : task'[d] = NoTask \/ task'[d] = task[d]
      BY <1>5, <2>3 DEF ClaimTool, TypeOK, toolRow
    <3> QED BY <2>1, <3>1 DEF RowTaken, OneExecutor, NoTask
  <2> QED BY <2>2, <2>3
<1>6. ASSUME NEW c \in Calls, RunTool(c) PROVE RowTaken' /\ OneExecutor'
  <2>1. UNCHANGED <<row, rowAgo, age>> /\ task[c] # NoTask
    BY <1>6 DEF RunTool, toolRow, NoTask
  <2>2. \A d \in Calls : task'[d] = task[d] \/ task'[d].at # "run"
    BY <1>0, <1>6, <2>1 DEF RunTool, TypeOK, Tasks
  <2> QED BY <2>1, <2>2 DEF RowTaken, OneExecutor
<1>7. ASSUME NEW c \in Calls, RejectTool(c) \/ RecordTool(c)
      PROVE RowTaken' /\ OneExecutor'
  <2>1. task[c] \in Tasks /\ UNCHANGED age
    BY <1>0, <1>7 DEF RejectTool, RecordTool, NoTask
  <2>2. \A d \in Calls : task'[d] = NoTask \/ task'[d] = task[d]
    BY <1>7 DEF RejectTool, RecordTool, TypeOK
  <2>3. \A j \in Ids : \/ row'[j] = row[j] /\ rowAgo'[j] = rowAgo[j]
                       \/ row'[j] \in {"completed", "failed", "rejected"}
    BY <1>7, <2>1 DEF RejectTool, RecordTool, TypeOK, Tasks
  <2>4. \A d \in Calls : task[d].at = "run" => task[d].id \in Ids
    BY <1>0 DEF NoTask, Tasks
  <2>5. OneExecutor'
    BY <2>1, <2>2 DEF OneExecutor, NoTask
  <2>6. RowTaken'
    BY <2>1, <2>2, <2>3, <2>4 DEF RowTaken, NoTask
  <2> QED BY <2>5, <2>6
<1>8. CASE UNCHANGED vars
  BY <1>8 DEF vars, toolRow, RowTaken, OneExecutor
<1> QED
  BY <1>1, <1>2, <1>3, <1>4, <1>5, <1>6, <1>7, <1>8 DEF Next, Step

\* OneExecutor, however long attempts last and whatever happens to the run: a
\* tool call is taken over only from an executor that outlasted Stale.
THEOREM ExecutorCorrect == Spec => []OneExecutor
<1>1. ToolInv /\ [Next]_vars => ToolInv'
  BY NextToolInv, NextTyped DEF ToolInv
<1>2. ToolInv => OneExecutor
  BY DEF ToolInv
<1> QED BY <1>1, <1>2, InitToolInv, PTL DEF Spec

=============================================================================
