------------------------------ MODULE CalendarSync ------------------------------
(***************************************************************************)
(* One calendar event of one user, kept at Sydia and at Google: the edits  *)
(* of both sides, the queue of operations that carries Sydia's edits out,  *)
(* the pulls that bring Google's in, and the connection that may be cut.   *)
(*                                                                         *)
(*   database/repositories/prisma-calendar.repository.ts  the transactions *)
(*   calendar/calendar-sync.service.ts                    their callers    *)
(*                                                                         *)
(* A repository method is one step (it locks the user or is one statement),*)
(* a request to Google is another.  Google is external.                    *)
(***************************************************************************)
EXTENDS CalendarMerge, Sequences, FiniteSets

CONSTANTS
    Own, Twin,  \* the event's row; a row that a pull makes of Google's copy
    Ops,        \* slots for operations, 1 .. n
    Workers,    \* processOperation calls
    Pullers,    \* processPull calls
    None,       \* the null claim and the null link
    Starts,     \* "new": no event yet; "linked": one that both sides have
    Budget,     \* operationRetryAttempts
    MaxSydia, MaxGoogle,  \* bounds on the edits of either side
    MaxTrouble,           \* bound on disconnections, forced full imports,
                          \* crashes, lost claims and failed requests
    MaxTotal              \* bound on the three together

ASSUME RowAssumption == Own # Twin /\ None \notin {Own, Twin}
ASSUME ClaimAssumption == None \notin Workers /\ None \notin Pullers
ASSUME BoundAssumption ==
    /\ Ops \subseteq Nat \ {0} /\ Budget \in Nat \ {0}
    /\ MaxSydia \in Nat /\ MaxGoogle \in Nat /\ MaxTrouble \in Nat
    /\ MaxTotal \in Nat
ASSUME StartAssumption == Starts \subseteq {"new", "linked"}

VARIABLES
    origin,  \* how the event started
    edits,   \* the edits users made on either side; an edit's value and its
             \* instant are its index
    conn,    \* calendar_integration.status
    bind,    \* calendar_binding: sync token, full import generation, lease
    row,     \* calendar_event
    link,    \* calendar_event_link
    op,      \* calendar_sync_operation
    keys,    \* the unique keys of the operations that pulls have made, kept
             \* as long as the operations are: etag and revision
    wk, pl,  \* where each worker and each puller is
    remote,  \* the event at Google
    saved,   \* the values in calendar_sync_conflict snapshots
    held,    \* the values that Google has had
    shown,   \* the values that a row has had
    trouble

vars == <<origin, edits, conn, bind, row, link, op, keys, wk, pl, remote, saved,
          held, shown, trouble>>

Rows    == {Own, Twin}
Content == Fields \ {Status}
Clock   == Len(edits)

\* An event without content: what is left of one that Google cancelled.
Blank   == [f \in Fields |-> IF f = Status THEN 1 ELSE MaxSydia + MaxGoogle + 1]
Fresh   == [f \in Fields |-> 0]
Values(s) == {s[f] : f \in Content}

NoRow == [on |-> FALSE, google |-> FALSE, sync |-> "local", rev |-> 0,
          edited |-> 0, s |-> Fresh]
Free  == [st |-> "free", kind |-> "update", rev |-> 0, want |-> Fresh,
          edited |-> 0, base |-> Fresh, tries |-> 0, holder |-> None]
Idle  == [pc |-> "idle", op |-> 0, kind |-> "update", etag |-> 0,
          put |-> Fresh]
Unlisted == [at |-> "none", s |-> Fresh, upd |-> 0]
Resting  == [pc |-> "idle", full |-> FALSE, gen |-> 0, got |-> Unlisted,
             tok |-> 0]

Linked(r) == link # None /\ link.ev = r

-----------------------------------------------------------------------------
EditType == [by : {"sydia", "google"}, field : Fields]
BindType == [tok : Nat, gen : Nat, lease : Pullers \cup {None}]
RowType  == [on : BOOLEAN, google : BOOLEAN,
             sync : {"local", "pending", "synced", "error",
                     "reconnect_required"},
             rev : Nat, edited : Nat, s : Snapshot]
LinkType == [ev : Rows, common : Snapshot, synced : Nat, seen : Nat,
             tomb : BOOLEAN]
ASSUME LinkAssumption == None \notin LinkType

OpType   == [st : {"free", "pending", "processing", "paused", "failed",
                   "exhausted"},
             kind : {"create", "update", "delete"}, rev : Nat, want : Snapshot,
             edited : Nat, base : Snapshot, tries : 0 .. Budget,
             holder : Workers \cup {None}]
WorkType == [pc : {"idle", "claimed", "read", "sent", "stale", "changed",
                   "answered"},
             op : Ops \cup {0}, kind : {"create", "update", "delete"},
             etag : Nat, put : Snapshot]
PageType == [at : {"none", "live", "gone"}, s : Snapshot, upd : Nat]
PullType == [pc : {"idle", "claimed", "listed"}, full : BOOLEAN, gen : Nat,
             tok : Nat, got : PageType]
CopyType == [at : {"none", "live", "gone"}, s : Snapshot, etag : Nat, upd : Nat]

TypeOK ==
    /\ origin \in Starts
    /\ edits \in Seq(EditType)
    /\ conn \in {"connected", "reconnect_required", "disconnected"}
    /\ bind \in BindType
    /\ row \in [Rows -> RowType]
    /\ link \in LinkType \cup {None}
    /\ op \in [Ops -> OpType] /\ keys \subseteq Nat \X Nat
    /\ wk \in [Workers -> WorkType]
    /\ pl \in [Pullers -> PullType]
    /\ remote \in CopyType
    /\ saved \subseteq Nat /\ held \subseteq Nat /\ shown \subseteq Nat
    /\ trouble \in 0 .. MaxTrouble

\* An event that is in sync, or a connected calendar that has no event yet.
Init ==
    /\ origin \in Starts
    /\ edits = <<>> /\ conn = "connected"
    /\ IF origin = "linked"
       THEN /\ bind = [tok |-> 2, gen |-> 1, lease |-> None]
            /\ row = [r \in Rows |->
                        IF r = Own
                        THEN [NoRow EXCEPT !.on = TRUE, !.google = TRUE,
                                           !.sync = "synced", !.rev = 1]
                        ELSE NoRow]
            /\ link = [ev |-> Own, common |-> Fresh, synced |-> 1, seen |-> 1,
                       tomb |-> FALSE]
            /\ remote = [at |-> "live", s |-> Fresh, etag |-> 1, upd |-> 0]
       ELSE /\ bind = [tok |-> 1, gen |-> 1, lease |-> None]
            /\ row = [r \in Rows |-> NoRow] /\ link = None
            /\ remote = [at |-> "none", s |-> Fresh, etag |-> 0, upd |-> 0]
    /\ op = [o \in Ops |-> Free] /\ keys = {}
    /\ wk = [w \in Workers |-> Idle] /\ pl = [p \in Pullers |-> Resting]
    /\ saved = {} /\ held = {} /\ shown = {}
    /\ trouble = 0

\* What the outside has seen, kept for the properties.
Record ==
    /\ held' = held \cup (Values(remote'.s) \ {0})
    /\ shown' = shown \cup ((UNION {Values(row'[r].s) : r \in Rows}) \ {0})

\* The creation of the event counts as an edit of Sydia's.
EditsOf(by) == Cardinality({i \in 1 .. Clock : edits[i].by = by})
               + (IF origin = "new" /\ by = "sydia" THEN 1 ELSE 0)
Quota       == EditsOf("sydia") + EditsOf("google") + trouble < MaxTotal

Trouble == trouble < MaxTrouble /\ Quota /\ trouble' = trouble + 1

-----------------------------------------------------------------------------
(* Operations. *)

Room(ops)        == \E o \in Ops : ops[o].st = "free"
Enqueued(ops, q) == [ops EXCEPT ![CHOOSE o \in Ops : ops[o].st = "free"] = q]

Queued(kind, rev, want, edited, base) ==
    [st |-> "pending", kind |-> kind, rev |-> rev, want |-> want,
     edited |-> edited, base |-> base, tries |-> 0, holder |-> None]

\* Completed and cancelled operations are never looked at again: their slots
\* are free.
Cancelled == [o \in Ops |-> Free]

\* fenceCalendarBindingForDisconnect.
Paused == [o \in Ops |-> IF op[o].st = "free" THEN Free
                         ELSE [op[o] EXCEPT !.st = "paused", !.holder = None]]

-----------------------------------------------------------------------------
(* Users. *)

\* updateTarget: whether an edit of the event is queued for Google.
Queues ==
    /\ conn # "disconnected" /\ row[Own].google
    /\ \/ Linked(Own)
       \/ \E o \in Ops : /\ op[o].kind = "create"
                         /\ op[o].st \in {"pending", "processing", "paused"}

CreateEvent ==
    /\ origin = "new" /\ ~row[Own].on /\ conn # "disconnected" /\ Room(op)
    /\ row' = [row EXCEPT ![Own] =
                 [NoRow EXCEPT !.on = TRUE, !.google = TRUE, !.sync = "pending",
                               !.rev = 1, !.edited = Clock]]
    /\ op' = Enqueued(op, Queued("create", 1, Fresh, Clock, Fresh))
    /\ UNCHANGED <<origin, edits, conn, bind, link, keys, wk, pl, remote,
                   saved, trouble>>

\* updateMutation and cancelMutation, of an event that the calendar shows.
EditEvent(f) ==
    LET now   == Clock + 1
        after == [row[Own].s EXCEPT ![f] = IF f = Status THEN 1 ELSE now]
        rev   == row[Own].rev + 1
    IN
    /\ row[Own].on /\ Live(row[Own].s) /\ EditsOf("sydia") < MaxSydia /\ Quota
    /\ edits' = Append(edits, [by |-> "sydia", field |-> f])
    /\ row' = [row EXCEPT ![Own].google = Queues,
                          ![Own].sync = IF Queues THEN "pending"
                                        ELSE "local",
                          ![Own].rev = rev, ![Own].edited = now,
                          ![Own].s = after]
    /\ IF Queues
       THEN /\ Room(op)
            /\ op' = Enqueued(op, Queued(IF f = Status THEN "delete"
                                         ELSE "update",
                                         rev, after, now, row[Own].s))
       ELSE op' = op
    /\ UNCHANGED <<origin, conn, bind, link, keys, wk, pl, remote, saved,
                   trouble>>

\* retryFailedOperation: the oldest operation of the event is queued again.
RetryFailed(o) ==
    LET retryable == {q \in Ops : /\ op[q].rev <= row[Own].rev
                                  /\ op[q].st \in {"failed", "exhausted",
                                                   "pending", "processing"}}
    IN
    /\ row[Own].google /\ row[Own].sync = "error" /\ Linked(Own)
    /\ conn = "connected"
    /\ o \in retryable /\ \A q \in retryable : op[o].rev <= op[q].rev
    /\ op' = IF op[o].st = "processing" THEN op
             ELSE [op EXCEPT ![o].st = "pending", ![o].tries = 0]
    /\ row' = [row EXCEPT ![Own].sync = "pending"]
    /\ UNCHANGED <<origin, edits, conn, bind, link, keys, wk, pl, remote,
                   saved, trouble>>

\* A user of Google Calendar.
RemoteEdit(f) ==
    /\ remote.at = "live" /\ EditsOf("google") < MaxGoogle /\ Quota
    /\ edits' = Append(edits, [by |-> "google", field |-> f])
    /\ remote' = [at |-> IF f = Status THEN "gone" ELSE "live",
                  s |-> [remote.s EXCEPT ![f] = IF f = Status THEN 1
                                                ELSE Clock + 1],
                  etag |-> remote.etag + 1, upd |-> Clock + 1]
    /\ UNCHANGED <<origin, conn, bind, row, link, op, keys, wk, pl, saved,
                   trouble>>

-----------------------------------------------------------------------------
(* The connection. *)

\* detachCalendarEvents: linked rows, and the row of a paused operation.
Detached ==
    [r \in Rows |->
        IF row[r].on
           /\ (Linked(r) \/ (r = Own /\ \E o \in Ops : op[o].st # "free"))
        THEN [row[r] EXCEPT !.google = FALSE, !.sync = "local"]
        ELSE row[r]]

\* beginDisconnect; the transaction that finishes it finds nothing more to do.
Disconnect ==
    /\ conn # "disconnected" /\ Trouble
    /\ conn' = "disconnected"
    /\ bind' = [bind EXCEPT !.lease = None]
    /\ op' = Paused /\ row' = Detached
    /\ UNCHANGED <<origin, edits, link, keys, wk, pl, remote, saved>>

\* saveGoogleConnection of the same calendar: reactivateCalendarBinding cancels
\* what was queued for a linked event and rewrites a create that never finished.
Reconnect ==
    LET rewritten == [o \in Ops |->
            IF op[o].kind = "create" /\ op[o].st # "free" /\ Live(row[Own].s)
            THEN [op[o] EXCEPT !.st = "pending", !.holder = None,
                               !.want = row[Own].s, !.rev = row[Own].rev,
                               !.edited = row[Own].edited]
            ELSE Free]
    IN
    /\ conn # "connected"
    /\ conn' = "connected"
    /\ bind' = [bind EXCEPT !.tok = 0, !.lease = None]
    /\ IF Linked(Own)
       THEN op' = Cancelled /\ row' = Detached
       ELSE /\ op' = rewritten
            /\ row' = IF \E o \in Ops : rewritten[o].st # "free"
                      THEN [Detached EXCEPT ![Own].google = TRUE,
                                            ![Own].sync = "pending"]
                      ELSE Detached
    /\ UNCHANGED <<origin, edits, link, keys, wk, pl, remote, saved, trouble>>

\* requestFullResync.
Resync ==
    /\ conn = "connected" /\ bind.lease = None /\ Trouble
    /\ bind' = [bind EXCEPT !.tok = 0, !.gen = @ + 1]
    /\ UNCHANGED <<origin, edits, conn, row, link, op, keys, wk, pl, remote,
                   saved>>

-----------------------------------------------------------------------------
(* A worker: processOperation. *)

\* The claim of the worker's operation is still its own.
Holds(w) ==
    wk[w].op # 0 /\ op[wk[w].op].st = "processing" /\ op[wk[w].op].holder = w

\* canSendCalendarRequest for an operation.
CanSend(w) == conn = "connected" /\ Holds(w)

Rest(w)     == wk' = [wk EXCEPT ![w] = Idle]
Goto(w, pc) == wk' = [wk EXCEPT ![w].pc = pc]

\* failOperation with "failed": the row shows it, unless it has moved on.
RowFailed(o) ==
    row' = [row EXCEPT ![Own].sync =
              IF @ = "pending" /\ row[Own].rev >= op[o].rev THEN "error" ELSE @]

\* failOperation with "retry": the operation waits, until its budget is spent.
Retried(o) ==
    IF op[o].tries >= Budget
    THEN /\ op' = [op EXCEPT ![o].st = "exhausted", ![o].holder = None]
         /\ RowFailed(o)
    ELSE /\ op' = [op EXCEPT ![o].st = "pending", ![o].holder = None]
         /\ UNCHANGED row

\* Mutants of Claimable: a younger operation overtakes; a lost claim stays.
ClaimableOutOfOrder(o) ==
    /\ conn = "connected"
    /\ \/ op[o].st = "pending"
       \/ op[o].st = "processing" /\ op[o].holder = None

ClaimableOnce(o) ==
    /\ conn = "connected" /\ op[o].st = "pending"
    /\ \A q \in Ops : op[q].st = "free" \/ op[q].rev >= op[o].rev

\* claimOperation: nothing that is older and unfinished is in the way.
Claimable(o) ==
    /\ conn = "connected"
    /\ \/ op[o].st = "pending"
       \/ op[o].st = "processing" /\ op[o].holder = None
    /\ \A q \in Ops : op[q].st = "free" \/ op[q].rev >= op[o].rev

\* Workers are alike, so it does not matter which of the idle ones claims.
Claim(w, o) ==
    /\ wk[w] = Idle /\ w = CHOOSE v \in Workers : wk[v] = Idle
    /\ Claimable(o)
    /\ IF op[o].tries = Budget
       THEN /\ op' = [op EXCEPT ![o].st = "exhausted", ![o].holder = None]
            /\ RowFailed(o) /\ UNCHANGED wk
       ELSE /\ op' = [op EXCEPT ![o].st = "processing", ![o].holder = w,
                                ![o].tries = @ + 1]
            /\ wk' = [wk EXCEPT ![w] = [Idle EXCEPT !.pc = "claimed", !.op = o,
                                                    !.kind = op[o].kind]]
            /\ UNCHANGED row
    /\ UNCHANGED <<origin, edits, conn, bind, link, keys, pl, remote, saved,
                   trouble>>

\* resolveCalendarUpdate against what Google has now.
LocalWins(o) == op[o].edited > remote.upd

\* Mutant of Wins: the edited event is written over Google's.
WinsOutright(o) == op[o].want

Wins(o) == Pushed(op[o].base, op[o].want, remote.s, LocalWins(o))

\* Mutant of Recovered: the losing version is dropped.
RecoveredNot(o) == saved

Recovered(o) ==
    IF Clashing(op[o].base, op[o].want, remote.s) = {} THEN saved
    ELSE saved \cup Values(op[o].want) \cup Values(remote.s)

\* failOperation with a conflict: Google's deletion wins, the edits are saved.
HonourDeletion(w) ==
    /\ op' = Cancelled /\ Rest(w)
    /\ row' = [row EXCEPT ![Own].s[Status] = 1, ![Own].sync = "synced",
                          ![Own].rev = @ + 1]
    /\ link' = [link EXCEPT !.common = Blank, !.tomb = TRUE]
    /\ saved' = saved \cup Values(row[Own].s)

\* The event is read before it is changed.
Read(w) ==
    LET o == wk[w].op IN
    /\ wk[w].pc = "claimed" /\ wk[w].kind # "create" /\ CanSend(w)
    /\ \/ /\ remote.at = "gone" /\ wk[w].kind = "update"
          /\ HonourDeletion(w)
       \/ /\ remote.at = "gone" /\ wk[w].kind = "delete"
          /\ Goto(w, "answered") /\ UNCHANGED <<op, row, link, saved>>
       \/ /\ remote.at = "live" /\ wk[w].kind = "delete"
          /\ saved' = saved \cup Values(op[o].want) \cup Values(remote.s)
          /\ wk' = [wk EXCEPT ![w].pc = "read", ![w].etag = remote.etag]
          /\ UNCHANGED <<op, row, link>>
       \/ /\ remote.at = "live" /\ wk[w].kind = "update"
          /\ saved' = Recovered(o)
          /\ wk' = [wk EXCEPT ![w].pc = IF Wins(o) = remote.s THEN "answered"
                                        ELSE "read",
                              ![w].etag = remote.etag, ![w].put = Wins(o)]
          /\ UNCHANGED <<op, row, link>>
    /\ UNCHANGED <<origin, edits, conn, bind, keys, pl, remote, trouble>>

\* The request that changes the event leaves, after a last look at the claim.
Send(w) ==
    /\ \/ wk[w].pc = "read"
       \/ wk[w].pc = "claimed" /\ wk[w].kind = "create"
    /\ CanSend(w)
    /\ wk' = [wk EXCEPT ![w].pc = "sent",
                        ![w].put = IF wk[w].kind = "create"
                                   THEN op[wk[w].op].want ELSE @]
    /\ UNCHANGED <<origin, edits, conn, bind, row, link, op, keys, pl, remote,
                   saved, trouble>>

Written(s) == [at |-> "live", s |-> s, etag |-> remote.etag + 1, upd |-> Clock]

\* Google answers: it creates an event once under its id, and changes or
\* deletes it only under the etag that was read.
Land(w) ==
    /\ wk[w].pc = "sent"
    /\ \/ /\ wk[w].kind = "create" /\ remote.at = "none"
          /\ remote' = Written(wk[w].put) /\ Goto(w, "answered")
       \/ /\ wk[w].kind = "create" /\ remote.at # "none"
          /\ wk' = [wk EXCEPT ![w].pc = "answered", ![w].put = remote.s]
          /\ UNCHANGED remote
       \/ /\ wk[w].kind = "update" /\ wk[w].etag = remote.etag
          /\ remote' = Written(wk[w].put) /\ Goto(w, "answered")
       \/ /\ wk[w].kind = "update" /\ wk[w].etag # remote.etag
          /\ Goto(w, "stale") /\ UNCHANGED remote
       \/ /\ wk[w].kind = "delete" /\ wk[w].etag = remote.etag
          /\ remote' = [remote EXCEPT !.at = "gone", !.s[Status] = 1,
                                      !.etag = @ + 1]
          /\ Goto(w, "answered")
       \/ /\ wk[w].kind = "delete" /\ wk[w].etag # remote.etag
          /\ Goto(w, IF remote.at = "gone" THEN "answered" ELSE "changed")
          /\ UNCHANGED remote
    /\ UNCHANGED <<origin, edits, conn, bind, row, link, op, keys, pl, saved,
                   trouble>>

\* The etag had changed: an update that is no longer needed is done, another
\* one is tried again later.
Recheck(w) ==
    LET o == wk[w].op IN
    /\ wk[w].pc = "stale" /\ CanSend(w)
    /\ \/ remote.at = "gone" /\ HonourDeletion(w)
       \/ /\ remote.at = "live" /\ saved' = Recovered(o)
          /\ wk' = [wk EXCEPT ![w].pc = IF Wins(o) = remote.s THEN "answered"
                                        ELSE "changed",
                              ![w].put = remote.s]
          /\ UNCHANGED <<op, row, link>>
    /\ UNCHANGED <<origin, edits, conn, bind, keys, pl, remote, trouble>>

TryLater(w) ==
    /\ wk[w].pc = "changed"
    /\ IF Holds(w) THEN Retried(wk[w].op) ELSE UNCHANGED <<op, row>>
    /\ Rest(w)
    /\ UNCHANGED <<origin, edits, conn, bind, link, keys, pl, remote, saved,
                   trouble>>

\* Mutant of Deferred: without a look at the claim.
DeferredBlindly(w) ==
    [op EXCEPT ![wk[w].op].st = "pending", ![wk[w].op].holder = None,
               ![wk[w].op].tries = @ - 1]

\* deferOperation: the operation is as before the claim, if it is still held.
Deferred(w) ==
    IF Holds(w)
    THEN [op EXCEPT ![wk[w].op].st = "pending", ![wk[w].op].holder = None,
                    ![wk[w].op].tries = @ - 1]
    ELSE op

\* The last look at the claim fails.
GiveUp(w) ==
    /\ wk[w].pc \in {"claimed", "read", "stale"} /\ ~CanSend(w)
    /\ op' = Deferred(w) /\ Rest(w)
    /\ UNCHANGED <<origin, edits, conn, bind, row, link, keys, pl, remote,
                   saved, trouble>>

-----------------------------------------------------------------------------
(* completeOperation. *)

Finished(w) == op' = [op EXCEPT ![wk[w].op] = Free]

\* The deletion is confirmed: whatever else was queued for the event is dropped.
CompleteDelete(w) ==
    LET o == wk[w].op IN
    /\ op' = Cancelled
    /\ link' = IF Linked(Own)
               THEN [link EXCEPT !.common = op[o].want, !.synced = op[o].rev,
                                 !.tomb = TRUE]
               ELSE link
    /\ saved' = IF Linked(Own) /\ (row[Own].rev > op[o].rev \/ Live(row[Own].s))
                THEN saved \cup Values(row[Own].s) ELSE saved
    /\ row' = [row EXCEPT ![Own].s[Status] = 1, ![Own].sync = "synced"]

\* The row is still at the revision that was sent.
Confirmed(o) == row[Own].rev = op[o].rev /\ row[Own].sync = "pending"

\* Mutant of Acknowledged: an edit made meanwhile is taken for the one sent.
AcknowledgedBlindly(o, agreed, rev) ==
    [row EXCEPT ![Own].google = TRUE,
                ![Own].sync = IF @ = "pending" THEN "synced" ELSE @]

\* The row takes over what Google has, unless it is newer.
Acknowledged(o, agreed, rev) ==
    [row EXCEPT ![Own] =
       IF Confirmed(o)
       THEN [@ EXCEPT !.google = TRUE, !.sync = "synced", !.s = agreed,
                      !.rev = rev]
       ELSE [@ EXCEPT !.google = TRUE]]

\* The link records what Google has.
CompleteWrite(w) ==
    LET o      == wk[w].op
        agreed == IF wk[w].kind = "create" THEN op[o].want ELSE wk[w].put
        rev    == op[o].rev + (IF Confirmed(o) /\ agreed # op[o].want
                               THEN 1 ELSE 0)
    IN
    /\ Finished(w)
    /\ link' = [ev |-> Own, common |-> agreed, synced |-> rev,
                seen |-> IF link = None THEN 0 ELSE link.seen, tomb |-> FALSE]
    /\ row' = Acknowledged(o, agreed, rev)
    /\ UNCHANGED saved

Complete(w) ==
    /\ wk[w].pc = "answered"
    /\ IF CanSend(w)
       THEN IF wk[w].kind = "delete" THEN CompleteDelete(w) ELSE CompleteWrite(w)
       ELSE UNCHANGED <<op, link, row, saved>>
    /\ Rest(w)
    /\ UNCHANGED <<origin, edits, conn, bind, keys, pl, remote, trouble>>

-----------------------------------------------------------------------------
(* What can go wrong on the way. *)

\* A request or its answer is lost, or Google is overloaded.
RequestFails(w) ==
    /\ wk[w].pc \in {"claimed", "read", "sent", "stale", "answered"} /\ Trouble
    /\ IF Holds(w) THEN Retried(wk[w].op) ELSE UNCHANGED <<op, row>>
    /\ Rest(w)
    /\ UNCHANGED <<origin, edits, conn, bind, link, keys, pl, remote, saved>>

\* Google refuses the request for good.
RefusedForGood(w) ==
    /\ wk[w].pc \in {"claimed", "read", "sent"} /\ Trouble
    /\ IF Holds(w)
       THEN /\ op' = [op EXCEPT ![wk[w].op].st = "failed",
                                ![wk[w].op].holder = None]
            /\ RowFailed(wk[w].op)
       ELSE UNCHANGED <<op, row>>
    /\ Rest(w)
    /\ UNCHANGED <<origin, edits, conn, bind, link, keys, pl, remote, saved>>

\* Google wants the user to sign in again.
Unauthorised(w) ==
    /\ wk[w].pc \in {"claimed", "read", "sent"} /\ Trouble /\ Rest(w)
    /\ IF Holds(w)
       THEN /\ conn' = "reconnect_required"
            /\ bind' = [bind EXCEPT !.lease = None]
            /\ op' = [o \in Ops |-> IF op[o].st \in {"pending", "processing"}
                                    THEN [op[o] EXCEPT !.st = "paused",
                                                       !.holder = None]
                                    ELSE op[o]]
            /\ row' = [r \in Rows |-> IF Linked(r)
                                      THEN [row[r] EXCEPT
                                              !.sync = "reconnect_required"]
                                      ELSE row[r]]
       ELSE UNCHANGED <<conn, bind, op, row>>
    /\ UNCHANGED <<origin, edits, link, keys, pl, remote, saved>>

\* The lease of a claim runs out, with its worker alive or not.
ClaimExpires(o) ==
    /\ op[o].st = "processing" /\ op[o].holder # None /\ Trouble
    /\ op' = [op EXCEPT ![o].holder = None]
    /\ \/ UNCHANGED wk
       \/ Rest(op[o].holder)
    /\ UNCHANGED <<origin, edits, conn, bind, row, link, keys, pl, remote,
                   saved>>

-----------------------------------------------------------------------------
(* A puller: processPull. *)

\* The lease of the binding is still the puller's (saveCalendarSyncPage).
Leads(p) == conn = "connected" /\ bind.lease = p

Stop(p)    == pl' = [pl EXCEPT ![p] = Resting]
Release(p) == bind' = [bind EXCEPT !.lease = IF @ = p THEN None ELSE @]

ClaimPull(p) ==
    /\ pl[p] = Resting /\ conn = "connected" /\ bind.lease = None
    /\ bind' = [bind EXCEPT !.lease = p]
    /\ pl' = [pl EXCEPT ![p] = [Resting EXCEPT !.pc = "claimed",
                                  !.full = (bind.tok = 0), !.gen = bind.gen,
                                  !.tok = bind.tok]]
    /\ UNCHANGED <<origin, edits, conn, row, link, op, keys, wk, remote, saved,
                   trouble>>

\* listEvents: a full import lists the event if it exists, another pull if it
\* changed after the token; the answer carries the next token.
List(p) ==
    LET unchanged == remote.at = "none"
                     \/ (~pl[p].full /\ remote.etag < pl[p].tok)
        seen == [at |-> remote.at, upd |-> remote.upd,
                 s |-> IF remote.at = "gone" THEN Blank ELSE remote.s]
    IN
    /\ pl[p].pc = "claimed" /\ Leads(p)
    /\ pl' = [pl EXCEPT ![p].pc = "listed", ![p].tok = remote.etag + 1,
                        ![p].got = IF unchanged THEN Unlisted ELSE seen]
    /\ UNCHANGED <<origin, edits, conn, bind, row, link, op, keys, wk, remote,
                   saved, trouble>>

\* A puller that lost its lease or its connection.
PullGivesUp(p) ==
    /\ pl[p].pc # "idle" /\ ~Leads(p)
    /\ Release(p) /\ Stop(p)
    /\ UNCHANGED <<origin, edits, conn, row, link, op, keys, wk, remote, saved,
                   trouble>>

-----------------------------------------------------------------------------
(* applyInboundEvent, for the event that the page of puller p shows. *)

\* A finished full import cancels the links that it has not seen.
Missing(p) ==
    /\ pl[p].got.at = "none" /\ pl[p].full
    /\ link # None /\ ~link.tomb /\ link.seen # pl[p].gen

\* Mutant of Dirty: only an edit that still waits counts.
DirtyPending(r) == ~row[r].google \/ row[r].sync = "pending"

\* The row has something that Google may not have.
Dirty(r) ==
    \/ ~row[r].google
    \/ row[r].sync \in {"pending", "reconnect_required"}
    \/ row[r].rev > link.synced

\* The page leaves these rows and operations.  The end of a pull shows that
\* Google answers: an operation that had run out of attempts gets new ones.
Leaves(rows, ops) ==
    LET revived == rows[Own].google /\ rows[Own].sync = "error"
                   /\ \E o \in Ops : ops[o].st = "exhausted"
    IN
    /\ row' = IF revived THEN [rows EXCEPT ![Own].sync = "pending"] ELSE rows
    /\ op'  = [o \in Ops |-> IF revived /\ ops[o].st = "exhausted"
                             THEN [ops[o] EXCEPT !.st = "pending", !.tries = 0]
                             ELSE ops[o]]

\* Nothing about the event, or the end of one that Sydia never had.
PageWithout(p) ==
    /\ ~Missing(p)
    /\ pl[p].got.at = "none" \/ (pl[p].got.at = "gone" /\ link = None)
    /\ Leaves(row, op) /\ UNCHANGED <<link, saved>>

\* An event without a link becomes a row, whoever made it.
PageOfUnlinked(p) ==
    /\ pl[p].got.at = "live" /\ link = None
    /\ link' = [ev |-> Twin, common |-> pl[p].got.s, synced |-> 1,
                seen |-> pl[p].gen, tomb |-> FALSE]
    /\ Leaves([row EXCEPT ![Twin] =
                 [NoRow EXCEPT !.on = TRUE, !.google = TRUE, !.sync = "synced",
                               !.rev = 1, !.s = pl[p].got.s]], op)
    /\ UNCHANGED saved

\* Google's deletion wins over whatever the row has.
PageOfDeleted(p) ==
    /\ Missing(p) \/ (pl[p].got.at = "gone" /\ link # None)
    /\ LET r   == link.ev
           rev == row[r].rev + (IF Live(row[r].s) THEN 1 ELSE 0)
       IN /\ saved' = IF Dirty(r) /\ Live(row[r].s)
                      THEN saved \cup Values(row[r].s) ELSE saved
          /\ Leaves([row EXCEPT ![r].s[Status] = 1, ![r].sync = "synced",
                                ![r].rev = rev],
                    IF r = Own THEN Cancelled ELSE op)
          /\ link' = [link EXCEPT !.common = Blank, !.synced = rev,
                                  !.tomb = TRUE, !.seen = pl[p].gen]

\* A row without edits of its own takes Google's event.
PageOfClean(p) ==
    /\ pl[p].got.at = "live" /\ link # None /\ ~Dirty(link.ev)
    /\ LET r   == link.ev
           in  == pl[p].got.s
           rev == row[r].rev + (IF Changed(link.common, in) = {} THEN 0 ELSE 1)
       IN /\ Leaves([row EXCEPT ![r].s = in, ![r].google = TRUE,
                                ![r].sync = "synced", ![r].rev = rev], op)
          /\ link' = [link EXCEPT !.common = in, !.synced = rev, !.tomb = FALSE,
                                  !.seen = pl[p].gen]
    /\ UNCHANGED saved

\* A row with edits is merged, and what Google lacks is queued, unless it is.
Merge(p) ==
    LET r       == link.ev
        in      == pl[p].got.s
        local   == row[r].s
        wins    == ~Live(local) \/ row[r].edited > pl[p].got.upd
        s       == Merged(link.common, local, in, wins)
        changed == Changed(link.common, in) # {}
        rev     == row[r].rev + (IF changed THEN 1 ELSE 0)
        left    == IF changed /\ r = Own THEN Cancelled ELSE op
    IN [s    |-> s, rev |-> rev, left |-> left, key |-> <<pl[p].tok - 1, rev>>,
        push |-> s # in /\ \A o \in Ops :
                    left[o].st \in {"pending", "processing"}
                        => left[o].rev # rev]

Meets(p) == pl[p].got.at = "live" /\ link # None /\ Dirty(link.ev)

PageOfDirty(p) ==
    /\ Meets(p)
    /\ LET r     == link.ev
           in    == pl[p].got.s
           local == row[r].s
           m     == Merge(p)
           after == [row EXCEPT ![r].s = m.s, ![r].google = TRUE,
                                ![r].rev = m.rev,
                                ![r].sync = IF m.s = in THEN "synced"
                                            ELSE "pending"]
           next  == Queued(IF Live(local) THEN "update" ELSE "delete",
                           m.rev, m.s, row[r].edited, in)
       IN /\ saved' = IF Conflicting(link.common, local, in) = {} THEN saved
                      ELSE saved \cup Values(local) \cup Values(in)
          /\ link' = [link EXCEPT !.common = in, !.tomb = FALSE,
                                  !.seen = pl[p].gen,
                                  !.synced = IF m.s = in THEN m.rev ELSE @]
          /\ \/ ~m.push /\ Leaves(after, m.left) /\ UNCHANGED keys
             \/ /\ m.push /\ m.key \notin keys /\ Room(m.left)
                /\ Leaves(after, Enqueued(m.left, next))
                /\ keys' = keys \cup {m.key}

\* The end of a pull, while its lease and its import last.
Saves(p) == pl[p].pc = "listed" /\ Leads(p) /\ pl[p].gen = bind.gen

\* saveCalendarSyncPage, of the only page of a pull.
SavePage(p) ==
    /\ Saves(p)
    /\ \/ /\ \/ PageWithout(p) \/ PageOfUnlinked(p) \/ PageOfDeleted(p)
             \/ PageOfClean(p)
          /\ UNCHANGED keys
       \/ PageOfDirty(p)
    /\ bind' = [bind EXCEPT !.tok = pl[p].tok, !.lease = None]
    /\ Stop(p)
    /\ UNCHANGED <<origin, edits, conn, wk, remote, trouble>>

\* The key of the operation to queue is taken: the transaction fails as a
\* whole, and the binding waits for the end of its lease.
Refused(p) == Saves(p) /\ Meets(p) /\ Merge(p).push /\ Merge(p).key \in keys

PageRefused(p) ==
    /\ Refused(p)
    /\ Release(p) /\ Stop(p)
    /\ UNCHANGED <<origin, edits, conn, row, link, op, keys, wk, remote, saved,
                   trouble>>

\* failBindingSync; and resetExpiredSyncToken, when Google has forgotten the
\* token.
PullFails(p) ==
    /\ pl[p].pc # "idle" /\ Trouble /\ Stop(p)
    /\ \/ Release(p) /\ UNCHANGED conn
       \/ /\ pl[p].pc = "claimed" /\ Leads(p) /\ UNCHANGED conn
          /\ bind' = [tok |-> 0, gen |-> bind.gen + 1, lease |-> None]
       \/ /\ pl[p].pc = "claimed" /\ Leads(p) /\ conn' = "reconnect_required"
          /\ bind' = [bind EXCEPT !.lease = None]
    /\ UNCHANGED <<origin, edits, row, link, op, keys, wk, remote, saved>>

LeaseExpires(p) ==
    /\ bind.lease = p /\ Trouble
    /\ bind' = [bind EXCEPT !.lease = None]
    /\ UNCHANGED <<origin, edits, conn, row, link, op, keys, wk, pl, remote,
                   saved>>

-----------------------------------------------------------------------------
User == CreateEvent \/ (\E f \in Fields : EditEvent(f) \/ RemoteEdit(f))
        \/ (\E o \in Ops : RetryFailed(o))

Connection == Disconnect \/ Reconnect \/ Resync

Work(w) ==
    \/ \E o \in Ops : Claim(w, o)
    \/ Read(w) \/ Send(w) \/ Land(w) \/ Recheck(w) \/ TryLater(w)
    \/ GiveUp(w) \/ Complete(w)

Pull(p) == ClaimPull(p) \/ List(p) \/ PullGivesUp(p) \/ SavePage(p)
           \/ PageRefused(p)

Faults ==
    \/ \E w \in Workers : RequestFails(w) \/ RefusedForGood(w) \/ Unauthorised(w)
    \/ \E o \in Ops : ClaimExpires(o)
    \/ \E p \in Pullers : PullFails(p) \/ LeaseExpires(p)

Next ==
    /\ \/ User \/ Connection \/ Faults
       \/ \E w \in Workers : Work(w)
       \/ \E p \in Pullers : Pull(p)
    /\ Record

Spec == Init /\ [][Next]_vars

\* The worker's scheduler dispatches due operations and due bindings over and
\* over, and every request is answered or times out.
FairSpec ==
    /\ Spec
    /\ \A w \in Workers : WF_vars(Work(w) /\ Record)
    /\ \A p \in Pullers : WF_vars(Pull(p) /\ Record)

-----------------------------------------------------------------------------
(* Properties. *)

\* Edits of content; an edit is replaced when its side edits the field again,
\* or cancels the event.
Edited(by) == {i \in 1 .. Clock : edits[i].by = by /\ edits[i].field # Status}

Replaced(i) ==
    \E j \in i + 1 .. Clock : /\ edits[j].by = edits[i].by
                              /\ edits[j].field \in {edits[i].field, Status}

\* An edit made at Sydia to an event that both sides have is at Google, in the
\* recovery records, or still in the event's row: neither a pull, a lost claim,
\* a retry, nor a disconnection in between drops it (applyInboundEvent,
\* completeOperation, failOperation, reactivateCalendarBinding).
NoSydiaEditLost ==
    origin = "linked" =>
        \A i \in Edited("sydia") :
            \/ Replaced(i) \/ i \in held \cup saved
            \/ row[Own].s[edits[i].field] = i

\* Google still has an edit of its users, or Sydia has had it too.
Spared(i) ==
    \/ Replaced(i) \/ i \in shown \cup saved
    \/ remote.s[edits[i].field] = i

\* An edit made at Google reaches a row of Sydia's or a recovery record before
\* it disappears from Google (GOOGLE_CALENDAR_SYNC_SPEC.md, acceptance 9, 10).
NoGoogleEditLost == \A i \in Edited("google") : Spared(i)

\* The one way to lose an edit of Google's is a link that counts it as agreed
\* although no row has shown it, as a completion leaves it that does not confirm
\* the row (completeOperation).  Neither a push that reconciles nor a pull that
\* merges writes over any other edit without a record of it.
GoogleEditKept ==
    [][\A i \in Edited("google") : Spared(i) /\ ~Spared(i)' =>
            link # None /\ link.common[edits[i].field] = i]_vars

\* A row that says it is synced, of an event that both sides had, shows nothing
\* that Google has never had: a completion confirms the revision it sent and
\* no later one (completeOperation, saveCalendarSyncPage).
SyncedIsHeld ==
    origin = "linked" =>
        \A r \in Rows : row[r].sync = "synced" /\ Live(row[r].s) =>
            Values(row[r].s) \subseteq held \cup {0}

\* Nobody asks Google to change or delete an event before its creation is
\* recorded: claimOperation keeps the operations of an event in order.
CreatedFirst ==
    \A w \in Workers : wk[w].op # 0 /\ wk[w].kind # "create" => link # None

\* Both sides show the same event, or that it is cancelled, as it must be once
\* either side has cancelled it.
InSync ==
    /\ Linked(Own) /\ row[Own].sync = "synced"
    /\ Live(row[Own].s) = (remote.at = "live")
    /\ Live(row[Own].s) => row[Own].google /\ row[Own].s = remote.s
    /\ (\E i \in 1 .. Clock : edits[i].field = Status) => remote.at = "gone"

GivenUp == \E o \in Ops : op[o].st \in {"failed", "exhausted"}

\* The two copies of an event agree in the end, whatever was edited on either
\* side and whatever failed on the way, if the connection stays and no
\* operation has been given up (processOperation and processPull, run again by
\* the scheduler until nothing is due).  GOOGLE_CALENDAR_SYNC_SPEC.md,
\* acceptance 7: reconnecting "reconciles intervening edits".
Reconciles ==
    <>[](origin = "linked" /\ conn = "connected" /\ ~GivenUp) => <>[]InSync

\* So it is, unless a pull is refused over and over because it makes an
\* operation for the second time.
Converges ==
    <>[](/\ origin = "linked" /\ conn = "connected" /\ ~GivenUp
         /\ \A p \in Pullers : ~Refused(p)) => <>[]InSync
=============================================================================
