---------------------------- MODULE ReminderDelivery ----------------------------
(***************************************************************************)
(* Reminders that one user gets over WhatsApp, and what becomes of those   *)
(* that fall due while the user's own WhatsApp account is not connected:   *)
(* they are collected, and one summary names them when it is back.         *)
(*                                                                         *)
(*   whatsapp/whatsapp.service.ts              deliveries, the recovery    *)
(*   infra/whatsapp/whatsapp-connections.gateway.ts    the connection      *)
(*   database/repositories/prisma-whatsapp-connection.repository.ts        *)
(*   database/repositories/prisma-notification.repository.ts               *)
(*                                                                         *)
(* A repository method is one step (it locks the connection or is one      *)
(* statement).  A send holds the connection's lock, so it is one step too. *)
(* The WhatsApp bridge and the queue are external.                         *)
(***************************************************************************)
EXTENDS Naturals

CONSTANTS
    Reminders,
    Workers,     \* jobs of the delivery queues that run
    Refreshers,  \* runs of refresh: the poll, a status request, a reconnect
    None,        \* no reminder, no time, no outcome
    Attempts,          \* attempts of a queue's job
    RecoveryAttempts,  \* MAX_RECOVERY_ATTEMPTS
    MaxOutages,  \* bound on the outages' ids; 0 stands for no outage
    MaxDrops,    \* bound on disconnections
    MaxEvents    \* bound on replacements of the owner, requests to reconnect,
                 \* cancelled reminders, changes of the preference, and
                 \* crashes, together

ASSUME ProcessAssumption ==
    /\ Workers \cap Refreshers = {}
    /\ None \notin Reminders
ASSUME BoundAssumption ==
    /\ Attempts \in Nat \ {0} /\ RecoveryAttempts \in Nat \ {0}
    /\ MaxOutages \in Nat /\ MaxDrops \in Nat /\ MaxEvents \in Nat

VARIABLES
    line,     \* the bridge says that the account is connected
    conn,     \* whatsapp_connection
    enabled,  \* user_preference.whatsappNotificationsEnabled
    valid,    \* reminders that are not cancelled
    due,      \* reminders whose occurrenceAt has passed; a time is known by them
    state,    \* notification_delivery.status, "none" before there is a delivery
    bound, missedIn, summarized,  \* whatsapp_delivery_binding: generation,
                                  \* outageId, summarizedAt
    queue, tries,  \* the jobs that wait, the attempts that each has had
    note, covers, noteTries,  \* the recovery summary of each outage: status,
                              \* coveredDeliveryIds, attemptCount
    opened,   \* the ids that outages have had
    at,       \* where each worker and each refresher is
    row,      \* the connection as it has read it
    job,      \* the reminder of a worker
    outcome,  \* what a process is about to record
    listed,   \* the reminders of a refresher's summary
    heard,    \* how often the user has been told of a reminder
    told,     \* how often the summary of an outage has been sent
    astray,   \* missed reminders that no summary will look for (see Astray)
    drops, events

connVars    == <<line, conn, opened>>
userVars    == <<enabled, valid, due>>
rowVars     == <<state, bound, missedIn, summarized>>
queueVars   == <<queue, tries>>
noteVars    == <<note, covers, noteTries>>
localVars   == <<at, row, job, outcome, listed>>
historyVars == <<heard, told, astray>>
eventVars   == <<drops, events>>

vars == <<connVars, userVars, rowVars, queueVars, noteVars, localVars,
          historyVars, eventVars>>

Outages   == 1 .. MaxOutages
Processes == Workers \cup Refreshers

Steps == {"idle", "recording",
          "looking", "collecting", "checking", "missing", "sending",
          "marking", "confirming", "recovering", "claiming", "telling",
          "completing"}

Times == SUBSET Reminders

Connection == [gen : Nat \ {0},
               verified : BOOLEAN,            \* ownerVerifiedAt
               online : BOOLEAN,              \* status = "connected"
               outage : 0 .. MaxOutages,      \* outageId
               down : Times \cup {None},      \* disconnectedAt
               up : Times]                    \* lastConnectedAt

\* An "attempting" summary whose claim is older than its minute is "stale".
NoteStatus == {"none", "attempting", "stale", "delivered", "unknown", "failed",
               "skipped_disabled", "skipped_obsolete"}
Outcomes   == {"delivered", "unknown", "failed", "missed", "skipped_disabled",
               "skipped_obsolete", "skipped_unlinked", "skipped_disconnected"}
Status     == Outcomes \cup {"none", "pending", "attempting"}

Paired == [gen |-> 1, verified |-> TRUE, online |-> TRUE, outage |-> 0,
           down |-> None, up |-> {}]

Init ==
    /\ line = TRUE /\ conn = Paired /\ opened = 0
    /\ enabled = TRUE /\ valid = Reminders /\ due = {}
    /\ state = [r \in Reminders |-> "none"]
    /\ bound = [r \in Reminders |-> 0]
    /\ missedIn = [r \in Reminders |-> 0] /\ summarized = {}
    /\ queue = {} /\ tries = [r \in Reminders |-> 0]
    /\ note = [o \in Outages |-> "none"]
    /\ covers = [o \in Outages |-> {}] /\ noteTries = [o \in Outages |-> 0]
    /\ at = [p \in Processes |-> "idle"]
    /\ row = [p \in Processes |-> Paired]
    /\ job = [w \in Workers |-> None]
    /\ outcome = [p \in Processes |-> None]
    /\ listed = [p \in Refreshers |-> {}]
    /\ heard = [r \in Reminders |-> 0] /\ told = [o \in Outages |-> 0]
    /\ astray = {} /\ drops = 0 /\ events = 0

Event == events < MaxEvents /\ events' = events + 1 /\ UNCHANGED drops

-----------------------------------------------------------------------------
(* The bridge and the user. *)

LineDrops ==
    /\ line /\ drops < MaxDrops /\ line' = FALSE /\ drops' = drops + 1
    /\ UNCHANGED <<conn, opened, userVars, rowVars, queueVars, noteVars,
                   localVars, historyVars, events>>

LineReturns ==
    /\ ~line /\ line' = TRUE
    /\ UNCHANGED <<conn, opened, userVars, rowVars, queueVars, noteVars,
                   localVars, historyVars, eventVars>>

\* The occurrence's instant, before which there is no delivery: it can be bound
\* to no connection but one whose owner is verified by then.
FallsDue(r) ==
    /\ r \notin due /\ state[r] = "none"
    /\ due' = due \cup {r}
    /\ bound' = [bound EXCEPT ![r] = IF conn.verified THEN conn.gen ELSE 0]
    /\ UNCHANGED <<connVars, enabled, valid, state, missedIn, summarized,
                   queueVars, noteVars, localVars, historyVars, eventVars>>

\* createDelivery and its job, when the scheduler gets to it.  A connection that
\* has been replaced meanwhile gets none.
CreateDelivery(r) ==
    /\ r \in due /\ state[r] = "none" /\ r \in valid /\ enabled
    /\ state' = [state EXCEPT ![r] = "pending"]
    /\ bound' = [bound EXCEPT ![r] = IF @ = conn.gen THEN @ ELSE 0]
    /\ queue' = queue \cup {r}
    /\ UNCHANGED <<connVars, userVars, missedIn, summarized, tries, noteVars,
                   localVars, historyVars, eventVars>>

Cancel(r) ==
    /\ r \in valid /\ Event /\ valid' = valid \ {r}
    /\ UNCHANGED <<connVars, enabled, due, rowVars, queueVars, noteVars,
                   localVars, historyVars>>

SetPreference ==
    /\ Event /\ enabled' = ~enabled
    /\ UNCHANGED <<connVars, valid, due, rowVars, queueVars, noteVars,
                   localVars, historyVars>>

\* resetOwner.  The time of the disconnection stays.
ReplaceOwner ==
    /\ Event
    /\ conn' = [conn EXCEPT !.gen = @ + 1, !.verified = FALSE, !.outage = 0]
    /\ UNCHANGED <<line, opened, userVars, rowVars, queueVars, noteVars,
                   localVars, historyVars>>

VerifyOwner ==
    /\ ~conn.verified /\ conn.online
    /\ conn' = [conn EXCEPT !.verified = TRUE]
    /\ UNCHANGED <<line, opened, userVars, rowVars, queueVars, noteVars,
                   localVars, historyVars, eventVars>>

-----------------------------------------------------------------------------
(* What the transactions of the connection have in common. *)

\* current: the connection as process p has read it is still in force.
Current(p) == row[p].gen = conn.gen

\* Mutant of CanSend: whoever the connection's owner is.
CanSendToAnyone(p) == conn.verified /\ conn.online

\* send: nothing is sent but to the verified owner over a live connection.
CanSend(p) == Current(p) /\ conn.verified /\ conn.online

Goes(p, step) == at' = [at EXCEPT ![p] = step]

\* Process p is about to record how it went.
Says(p, step, how) == Goes(p, step) /\ outcome' = [outcome EXCEPT ![p] = how]

\* A summary that may be made again has certainly not been sent.
Retried == {"none", "failed"}

\* Somebody has listed what the summary of outage o will name, or it is over.
Closing(o) ==
    \/ note[o] \notin Retried
    \/ \E q \in Refreshers :
          /\ row[q].outage = o
          /\ at[q] \in {"claiming", "telling", "recording", "completing"}

\* The reminders of R become missed ones of outage o.  Once its summary is
\* being made, or when it is not the connection's outage, nobody looks for them.
Astray(R, o) == IF Closing(o) \/ conn.outage # o THEN R ELSE {}

\* Mutant of Deliverable: a job takes over what a crashed one has claimed.
DeliverableAgain == {"pending", "failed", "attempting"}

\* A delivery that has certainly not been sent.
Deliverable == {"pending", "failed"}

\* collectPendingMissed, called by process p about the outage it has read.
Collected(p) ==
    {r \in Reminders : /\ conn.down # None /\ r \in conn.up \ conn.down
                       /\ bound[r] = conn.gen /\ missedIn[r] = 0
                       /\ state[r] \in Deliverable}

Collect(p) ==
    LET R == IF Current(p) /\ conn.verified /\ conn.online /\ enabled
                /\ conn.outage = row[p].outage
             THEN Collected(p) ELSE {}
    IN /\ state' = [r \in Reminders |-> IF r \in R THEN "missed" ELSE state[r]]
       /\ missedIn' = [r \in Reminders |-> IF r \in R THEN row[p].outage
                                           ELSE missedIn[r]]
       /\ astray' = astray \cup Astray(R, row[p].outage)

-----------------------------------------------------------------------------
(* deliverNotification, for the job of worker w. *)

\* The queue of a generation runs one job at a time.
Take(w, r) ==
    /\ at[w] = "idle" /\ r \in queue
    /\ \A v \in Workers : job[v] # None => bound[job[v]] # bound[r]
    /\ queue' = queue \ {r} /\ tries' = [tries EXCEPT ![r] = @ + 1]
    /\ IF state[r] \in Deliverable
       THEN Goes(w, "looking") /\ job' = [job EXCEPT ![w] = r]
       ELSE UNCHANGED <<at, job>>
    /\ UNCHANGED <<connVars, userVars, rowVars, noteVars, row, outcome, listed,
                   historyVars, eventVars>>

Look(w) ==
    /\ at[w] = "looking"
    /\ row' = [row EXCEPT ![w] = [conn EXCEPT !.down = None, !.up = {}]]
    /\ \/ /\ bound[job[w]] # conn.gen \/ ~conn.verified
          /\ Says(w, "recording", "skipped_unlinked")
       \/ /\ bound[job[w]] = conn.gen /\ conn.verified
          /\ IF ~enabled THEN Says(w, "recording", "skipped_disabled")
             ELSE /\ Goes(w, IF conn.outage # 0 /\ conn.online
                             THEN "collecting" ELSE "checking")
                  /\ UNCHANGED outcome
    /\ UNCHANGED <<connVars, userVars, rowVars, queueVars, noteVars, job, listed,
                   historyVars, eventVars>>

\* The worker is done with its job.
Leave(w) ==
    /\ at' = [at EXCEPT ![w] = "idle"] /\ job' = [job EXCEPT ![w] = None]
    /\ row' = [row EXCEPT ![w] = Paired]
    /\ outcome' = [outcome EXCEPT ![w] = None]

\* After an outage, what fell due in it is the summary's, this job's reminder
\* maybe among it.
CollectFirst(w) ==
    /\ at[w] = "collecting" /\ Collect(w)
    /\ IF state'[job[w]] = "missed" THEN Leave(w)
       ELSE Goes(w, "checking") /\ UNCHANGED <<job, row, outcome>>
    /\ UNCHANGED <<connVars, userVars, bound, summarized, queueVars, noteVars,
                   listed, heard, told, eventVars>>

\* The last look at the reminder, and claimDelivery.
ClaimDelivery(w) ==
    /\ at[w] = "checking"
    /\ IF job[w] \notin valid
       THEN Says(w, "recording", "skipped_obsolete")
            /\ UNCHANGED <<state, row, job>>
       ELSE IF state[job[w]] \in Deliverable
       THEN /\ state' = [state EXCEPT ![job[w]] = "attempting"]
            /\ IF row[w].online
               THEN Goes(w, "sending") /\ UNCHANGED outcome
               ELSE IF row[w].outage # 0
               THEN Goes(w, "missing") /\ UNCHANGED outcome
               ELSE Says(w, "recording", "skipped_disconnected")
            /\ UNCHANGED <<row, job>>
       ELSE Leave(w) /\ UNCHANGED state
    /\ UNCHANGED <<connVars, userVars, bound, missedIn, summarized, queueVars,
                   noteVars, listed, historyVars, eventVars>>

\* Mutant of RecordMissed: the outcome is not said.
RecordMissedSilently(w) ==
    /\ at[w] = "missing"
    /\ missedIn' = [missedIn EXCEPT ![job[w]] = row[w].outage]
    /\ Goes(w, "recording")
    /\ UNCHANGED <<connVars, userVars, state, bound, summarized, queueVars,
                   noteVars, row, job, outcome, listed, historyVars, eventVars>>

\* recordMissed, while the connection is down.
RecordMissed(w) ==
    /\ at[w] = "missing"
    /\ missedIn' = [missedIn EXCEPT ![job[w]] = row[w].outage]
    /\ Says(w, "recording", "missed")
    /\ UNCHANGED <<connVars, userVars, state, bound, summarized, queueVars,
                   noteVars, row, job, listed, historyVars, eventVars>>

\* Under the connection's lock.  After an error of a request that has left,
\* nobody knows whether the message has.
Send(w) ==
    /\ at[w] = "sending"
    /\ \/ ~CanSend(w) /\ Says(w, "recording", "failed") /\ UNCHANGED heard
       \/ /\ CanSend(w) /\ ~enabled
          /\ Says(w, "recording", "skipped_disabled") /\ UNCHANGED heard
       \/ /\ CanSend(w) /\ enabled /\ line
          /\ heard' = [heard EXCEPT ![job[w]] = @ + 1]
          /\ \E how \in {"delivered", "unknown"} : Says(w, "recording", how)
       \/ /\ CanSend(w) /\ enabled
          /\ Says(w, "recording", "unknown") /\ UNCHANGED heard
    /\ UNCHANGED <<connVars, userVars, rowVars, queueVars, noteVars, row, job,
                   listed, told, astray, eventVars>>

\* recordOutcome; the queue runs a failed job again.
Record(w) ==
    /\ at[w] = "recording" /\ w \in Workers
    /\ state' = [state EXCEPT ![job[w]] = outcome[w]]
    /\ queue' = IF outcome[w] = "failed" /\ tries[job[w]] < Attempts
                THEN queue \cup {job[w]} ELSE queue
    /\ astray' = astray \cup
                 (CASE outcome[w] = "missed" -> Astray({job[w]}, row[w].outage)
                    [] outcome[w] = "skipped_disconnected" -> {job[w]}
                    [] OTHER -> {})
    /\ Leave(w)
    /\ UNCHANGED <<connVars, userVars, bound, missedIn, summarized, tries,
                   noteVars, listed, heard, told, eventVars>>

\* The process stops; the queue gives the job to another one.
WorkerCrashes(w) ==
    /\ at[w] # "idle" /\ Event /\ Leave(w)
    /\ queue' = IF tries[job[w]] < Attempts THEN queue \cup {job[w]} ELSE queue
    /\ UNCHANGED <<connVars, userVars, rowVars, tries, noteVars, listed,
                   historyVars>>

-----------------------------------------------------------------------------
(* refresh and recover, by refresher p. *)

Rests(p) ==
    /\ at' = [at EXCEPT ![p] = "idle"] /\ row' = [row EXCEPT ![p] = Paired]
    /\ outcome' = [outcome EXCEPT ![p] = None]
    /\ listed' = [listed EXCEPT ![p] = {}]

\* The connection is read and the bridge is asked; what to do about its answer
\* is decided by both.
Asks(p) == Goes(p, IF line THEN "confirming" ELSE "marking")

Begin(p) ==
    /\ at[p] = "idle"
    /\ Asks(p) /\ row' = [row EXCEPT ![p] = conn]
    /\ UNCHANGED <<connVars, userVars, rowVars, queueVars, noteVars, job,
                   outcome, listed, historyVars, eventVars>>

\* A user's request to reconnect calls the connection disconnected at first.
Reconnect(p) ==
    /\ at[p] = "idle" /\ conn.verified /\ Event
    /\ conn' = [conn EXCEPT !.online = FALSE]
    /\ Asks(p) /\ row' = [row EXCEPT ![p] = conn']
    /\ UNCHANGED <<line, opened, userVars, rowVars, queueVars, noteVars, job,
                   outcome, listed, historyVars>>

\* disconnected: a new outage, unless the connection, as it has been read, has
\* one.
MarkDown(p) ==
    /\ at[p] = "marking"
    /\ IF row[p].online /\ Current(p)
       THEN LET o == IF row[p].outage # 0 THEN row[p].outage ELSE opened + 1 IN
            /\ o <= MaxOutages
            /\ opened' = IF row[p].outage # 0 THEN opened ELSE o
            /\ conn' = [conn EXCEPT
                          !.online = FALSE, !.outage = o,
                          !.down = IF row[p].down # None THEN row[p].down
                                   ELSE due]
            /\ astray' = astray \cup
                         {r \in Reminders \ summarized :
                              state[r] = "missed" /\ missedIn[r] # o}
       ELSE UNCHANGED <<conn, opened, astray>>
    /\ Rests(p)
    /\ UNCHANGED <<line, userVars, rowVars, queueVars, noteVars, job, heard,
                   told, eventVars>>

\* confirmAssistant.  The first confirmation after a disconnection dates it.
Confirm(p) ==
    /\ at[p] = "confirming"
    /\ IF Current(p)
       THEN /\ conn' = [conn EXCEPT !.online = TRUE,
                                    !.up = IF conn.outage # 0 /\ conn.online
                                           THEN @ ELSE due]
            /\ IF row[p].outage # 0 /\ conn.outage # 0 /\ conn.verified
               THEN /\ Goes(p, "recovering") /\ row' = [row EXCEPT ![p] = conn']
                    /\ UNCHANGED <<outcome, listed>>
               ELSE Rests(p)
       ELSE Rests(p) /\ UNCHANGED conn
    /\ UNCHANGED <<line, opened, userVars, rowVars, queueVars, noteVars, job,
                   historyVars, eventVars>>

\* The missed reminders that the user still wants, of rows st and in.
Wanted(p, st, in) ==
    {r \in valid \ summarized : /\ bound[r] = row[p].gen /\ st[r] = "missed"
                                /\ in[r] = row[p].outage}

\* Mutant of Recover: the list is made before the rest is collected.
RecoverListFirst(p) ==
    /\ at[p] = "recovering"
    /\ \/ /\ enabled /\ Goes(p, "claiming") /\ Collect(p)
          /\ listed' = [listed EXCEPT ![p] = Wanted(p, state, missedIn)]
       \/ /\ ~enabled /\ Goes(p, "completing")
          /\ astray' = astray
                       \cup {r \in Reminders : missedIn[r] = row[p].outage}
          /\ UNCHANGED <<state, missedIn, listed>>
    /\ UNCHANGED <<connVars, userVars, bound, summarized, queueVars, noteVars,
                   row, job, outcome, heard, told, eventVars>>

\* collectPendingMissed, then missed, and which of them are still wanted.  With
\* notifications switched off there is no summary.
Recover(p) ==
    /\ at[p] = "recovering"
    /\ \/ /\ enabled /\ Goes(p, "claiming") /\ Collect(p)
          /\ listed' = [listed EXCEPT ![p] = Wanted(p, state', missedIn')]
       \/ /\ ~enabled /\ Goes(p, "completing")
          /\ astray' = astray
                       \cup {r \in Reminders : missedIn[r] = row[p].outage}
          /\ UNCHANGED <<state, missedIn, listed>>
    /\ UNCHANGED <<connVars, userVars, bound, summarized, queueVars, noteVars,
                   row, job, outcome, heard, told, eventVars>>

\* Mutant of Final: a claim without a process is waited for.
FinalButStale == {"delivered", "unknown", "skipped_disabled", "skipped_obsolete"}

\* The summary is over, one way or another.
Final == NoteStatus \ (Retried \cup {"attempting"})

\* claimRecovery.
ClaimSummary(p) ==
    /\ at[p] = "claiming"
    /\ LET o == row[p].outage IN
       \/ /\ \/ ~Current(p) \/ ~conn.verified \/ conn.outage # o
             \/ note[o] = "attempting"
          /\ Rests(p) /\ UNCHANGED noteVars
       \/ /\ Current(p) /\ conn.verified /\ conn.outage = o
          /\ \/ /\ note[o] \in Final
                /\ note' = [note EXCEPT ![o] = IF @ = "stale" THEN "unknown"
                                               ELSE @]
                /\ Goes(p, "completing")
                /\ listed' = [listed EXCEPT ![p] = covers[o]]
                /\ UNCHANGED <<covers, noteTries, row, outcome>>
             \/ /\ note[o] \in Retried /\ listed[p] = {}
                /\ note' = [note EXCEPT ![o] = IF @ = "failed"
                                               THEN "skipped_obsolete" ELSE @]
                /\ Goes(p, "completing")
                /\ UNCHANGED <<covers, noteTries, row, outcome, listed>>
             \/ /\ note[o] \in Retried /\ listed[p] # {}
                /\ IF /\ noteTries[o] < RecoveryAttempts
                      /\ \A r \in listed[p] : /\ state[r] = "missed"
                                              /\ missedIn[r] = o
                   THEN /\ note' = [note EXCEPT ![o] = "attempting"]
                        /\ covers' = [covers EXCEPT ![o] = listed[p]]
                        /\ noteTries' = [noteTries EXCEPT ![o] = @ + 1]
                        /\ Goes(p, "telling")
                        /\ UNCHANGED <<row, outcome, listed>>
                   ELSE Rests(p) /\ UNCHANGED noteVars
    /\ UNCHANGED <<connVars, userVars, rowVars, queueVars, job, historyVars,
                   eventVars>>

\* Under the connection's lock; the reminders are looked at once more.  Those
\* that the text counts ("+N more") are told of as those that it names.
Tell(p) ==
    /\ at[p] = "telling"
    /\ \/ ~CanSend(p) /\ Says(p, "recording", "failed") /\ UNCHANGED <<heard, told>>
       \/ /\ CanSend(p) /\ ~enabled
          /\ Says(p, "recording", "skipped_disabled") /\ UNCHANGED <<heard, told>>
       \/ /\ CanSend(p) /\ enabled /\ ~(listed[p] \subseteq valid)
          /\ Says(p, "recording", "failed") /\ UNCHANGED <<heard, told>>
       \/ /\ CanSend(p) /\ enabled /\ listed[p] \subseteq valid /\ line
          /\ heard' = [r \in Reminders |-> IF r \in listed[p] THEN heard[r] + 1
                                           ELSE heard[r]]
          /\ told' = [told EXCEPT ![row[p].outage] = @ + 1]
          /\ \E how \in {"delivered", "unknown"} : Says(p, "recording", how)
       \/ /\ CanSend(p) /\ enabled /\ listed[p] \subseteq valid
          /\ Says(p, "recording", "unknown") /\ UNCHANGED <<heard, told>>
    /\ UNCHANGED <<connVars, userVars, rowVars, queueVars, noteVars, row, job,
                   listed, astray, eventVars>>

\* Mutant of Waits: the outage is closed all the same.
WaitsNever(how) == FALSE

\* A summary that was not sent waits for the next refresh.
Waits(how) == how = "failed"

\* recordOutcome of the summary.
RecordSummary(p) ==
    /\ at[p] = "recording" /\ p \in Refreshers
    /\ note' = [note EXCEPT ![row[p].outage] = outcome[p]]
    /\ IF Waits(outcome[p]) THEN Rests(p)
       ELSE Goes(p, "completing") /\ outcome' = [outcome EXCEPT ![p] = None]
            /\ UNCHANGED <<row, listed>>
    /\ UNCHANGED <<connVars, userVars, rowVars, queueVars, covers, noteTries,
                   job, historyVars, eventVars>>

\* completeRecovery.
CompleteRecovery(p) ==
    /\ at[p] = "completing"
    /\ IF Current(p) /\ conn.outage = row[p].outage
       THEN /\ summarized' = summarized \cup
                             {r \in listed[p] : missedIn[r] = row[p].outage}
            /\ conn' = [conn EXCEPT !.outage = 0, !.down = None]
       ELSE UNCHANGED <<summarized, conn>>
    /\ Rests(p)
    /\ UNCHANGED <<line, opened, userVars, state, bound, missedIn, queueVars,
                   noteVars, job, historyVars, eventVars>>

RefresherCrashes(p) ==
    /\ at[p] # "idle" /\ Event /\ Rests(p)
    /\ UNCHANGED <<connVars, userVars, rowVars, queueVars, noteVars, job,
                   historyVars>>

\* The minute of a claim is longer than a send may take: it is over only after
\* the process that had the claim has crashed.
ClaimAges(o) ==
    /\ note[o] = "attempting"
    /\ \A p \in Refreshers : row[p].outage = o =>
                                 at[p] \notin {"telling", "recording"}
    /\ note' = [note EXCEPT ![o] = "stale"]
    /\ UNCHANGED <<connVars, userVars, rowVars, queueVars, covers, noteTries,
                   localVars, historyVars, eventVars>>

-----------------------------------------------------------------------------
Deliver(w) ==
    \/ \E r \in Reminders : Take(w, r)
    \/ Look(w) \/ CollectFirst(w) \/ ClaimDelivery(w) \/ RecordMissed(w)
    \/ Send(w) \/ Record(w)

Refresh(p) ==
    \/ Begin(p) \/ MarkDown(p) \/ Confirm(p) \/ Recover(p)
    \/ ClaimSummary(p) \/ Tell(p) \/ RecordSummary(p)
    \/ CompleteRecovery(p)

World ==
    \/ LineDrops \/ LineReturns \/ SetPreference \/ ReplaceOwner \/ VerifyOwner
    \/ \E r \in Reminders : FallsDue(r) \/ CreateDelivery(r) \/ Cancel(r)
    \/ \E p \in Refreshers : Reconnect(p) \/ RefresherCrashes(p)
    \/ \E w \in Workers : WorkerCrashes(w)

Next ==
    \/ World
    \/ \E w \in Workers : Deliver(w)
    \/ \E p \in Refreshers : Refresh(p)
    \/ \E o \in Outages : ClaimAges(o)

Spec == Init /\ [][Next]_vars

\* The queue runs its jobs, the poll runs every fifteen seconds, every request
\* is answered or times out, and time passes.
FairSpec ==
    /\ Spec
    /\ \A w \in Workers : WF_vars(Deliver(w))
    /\ \A p \in Refreshers : WF_vars(Refresh(p))
    /\ \A o \in Outages : WF_vars(ClaimAges(o))

-----------------------------------------------------------------------------
(* Properties. *)

TypeOK ==
    /\ line \in BOOLEAN /\ enabled \in BOOLEAN
    /\ conn \in Connection /\ opened \in 0 .. MaxOutages
    /\ valid \subseteq Reminders /\ due \subseteq Reminders
    /\ state \in [Reminders -> Status] /\ bound \in [Reminders -> Nat]
    /\ missedIn \in [Reminders -> 0 .. MaxOutages]
    /\ summarized \subseteq Reminders
    /\ queue \subseteq Reminders /\ tries \in [Reminders -> Nat]
    /\ note \in [Outages -> NoteStatus]
    /\ covers \in [Outages -> SUBSET Reminders]
    /\ noteTries \in [Outages -> Nat]
    /\ at \in [Processes -> Steps] /\ row \in [Processes -> Connection]
    /\ job \in [Workers -> Reminders \cup {None}]
    /\ listed \in [Refreshers -> SUBSET Reminders]
    /\ outcome \in [Processes -> Outcomes \cup {None}]
    /\ heard \in [Reminders -> Nat] /\ told \in [Outages -> Nat]
    /\ astray \subseteq Reminders /\ drops \in Nat /\ events \in Nat

\* Nobody is told twice of a reminder, by a message of its own or in the
\* summary of an outage, and no outage has two summaries, whatever fails,
\* crashes or is tried again on the way.
ToldOnce ==
    /\ \A r \in Reminders : heard[r] <= 1
    /\ \A o \in Outages : told[o] <= 1

\* What the user is told goes to the owner that the reminder was bound to.
SameOwner ==
    [][\A r \in Reminders : heard'[r] # heard[r] =>
           conn.verified /\ bound[r] = conn.gen]_vars

\* What is marked summarized is what the outage's summary names, and the summary
\* has been sent, may have been, or was switched off.  A summary that finds nothing
\* left to name keeps what its failed attempt was to name: each of these has been
\* cancelled, is astray, or got another status from its worker.
SummarizedIsTold ==
    \A r \in summarized :
        /\ missedIn[r] # 0 /\ r \in covers[missedIn[r]]
        /\ \/ note[missedIn[r]] \in {"delivered", "unknown", "skipped_disabled"}
           \/ /\ note[missedIn[r]] = "skipped_obsolete"
              /\ r \notin valid \/ r \in astray \/ state[r] # "missed"

\* A reminder that an outage has swallowed stays in view: the outage is open
\* until the summary has it.
MissedIsRemembered ==
    \A r \in valid \ (summarized \cup astray) :
        state[r] = "missed" /\ bound[r] = conn.gen => conn.outage = missedIn[r]

\* In the end every reminder that has a delivery has been told, or is in a
\* summary that may have been.
Excused(r) ==
    \/ r \notin valid \/ r \in astray \/ bound[r] # conn.gen \/ ~conn.verified
    \/ ~enabled \/ state[r] \in {"unknown", "attempting", "skipped_disabled"}
    \/ state[r] = "failed" /\ r \notin queue
    \/ \E o \in Outages : noteTries[o] = RecoveryAttempts

EndsTold ==
    \A r \in Reminders :
        <>[]line => <>[](\/ state[r] = "none"
                         \/ heard[r] = 1 \/ r \in summarized \/ Excused(r))
=============================================================================
