--------------------------- MODULE CalendarSyncProofs ---------------------------
(* Proofs about CalendarSync, for any number of workers, pullers, operations, *)
(* edits and troubles.                                                        *)
EXTENDS CalendarSync, TLAPS

USE RowAssumption, ClaimAssumption, BoundAssumption, StartAssumption,
    StatusAssumption

-----------------------------------------------------------------------------
(* Snapshots. *)

LEMMA OverlayTyped ==
    ASSUME NEW x \in Snapshot, NEW y \in Snapshot, NEW G
    PROVE  Overlay(x, y, G) \in Snapshot
BY DEF Overlay, Snapshot

LEMMA BlankTyped == Blank \in Snapshot /\ Fresh \in Snapshot
BY DEF Blank, Fresh, Snapshot

LEMMA ValuesTyped == \A s \in Snapshot : Values(s) \subseteq Nat
BY DEF Values, Content, Snapshot

LEMMA StatusTyped ==
    ASSUME NEW s \in Snapshot, NEW f \in Fields, NEW n \in Nat
    PROVE  [s EXCEPT ![f] = n] \in Snapshot
BY DEF Snapshot

LEMMA PushedTyped ==
    ASSUME NEW x \in Snapshot, NEW y \in Snapshot, NEW z \in Snapshot, NEW b
    PROVE  Pushed(x, y, z, b) \in Snapshot /\ Merged(x, y, z, b) \in Snapshot
BY OverlayTyped DEF Pushed, Merged

-----------------------------------------------------------------------------
(* The inductive invariant.                                                 *)

\* Before the creation of the event is recorded, operations are for revisions
\* that the event has had, and the creation is older than whatever else is
\* queued.
Revisions == \A o \in Ops : op[o].st # "free" =>
                row[Own].on /\ op[o].rev <= row[Own].rev

CreateLeads ==
    \A o \in Ops : op[o].st # "free" /\ op[o].kind # "create" =>
        \E q \in Ops : /\ op[q].st # "free" /\ op[q].kind = "create"
                       /\ op[q].rev < op[o].rev

Unrecorded == link = None => Revisions /\ CreateLeads

\* A worker that holds an operation knows what it is and has counted its try.
Counted ==
    \A w \in Workers : Holds(w) =>
        op[wk[w].op].kind = wk[w].kind /\ op[wk[w].op].tries > 0

\* Only updates and deletions are read before they are sent; a page carries a
\* token.
Stages ==
    /\ \A w \in Workers : wk[w].pc = "stale" => wk[w].kind = "update"
    /\ \A w \in Workers : wk[w].pc # "idle" => wk[w].op # 0
    /\ \A p \in Pullers : pl[p].pc = "listed" => pl[p].tok > 0

IInv == TypeOK /\ Unrecorded /\ Counted /\ Stages /\ CreatedFirst

LEMMA InitTyped == Init => TypeOK
<1> SUFFICES ASSUME Init PROVE TypeOK
  OBVIOUS
<1>1. Free \in OpType /\ Idle \in WorkType /\ Resting \in PullType
      /\ NoRow \in RowType
  BY BlankTyped DEF Free, Idle, Resting, Unlisted, NoRow, OpType, WorkType,
                    PullType, PageType, RowType
<1>2. op \in [Ops -> OpType] /\ wk \in [Workers -> WorkType]
      /\ pl \in [Pullers -> PullType]
  BY <1>1 DEF Init
<1>3. [NoRow EXCEPT !.on = TRUE, !.google = TRUE, !.sync = "synced",
                    !.rev = 1] \in RowType
  BY <1>1 DEF RowType
<1>4. row \in [Rows -> RowType]
  <2>1. CASE origin = "linked"
    BY <1>1, <1>3, <2>1 DEF Init
  <2>2. CASE origin # "linked"
    BY <1>1, <2>2 DEF Init
  <2> QED BY <2>1, <2>2
<1>5. bind \in BindType /\ link \in LinkType \cup {None}
      /\ remote \in CopyType
  <2>1. CASE origin = "linked"
    <3>1. /\ bind = [tok |-> 2, gen |-> 1, lease |-> None]
          /\ link = [ev |-> Own, common |-> Fresh, synced |-> 1, seen |-> 1,
                     tomb |-> FALSE]
          /\ remote = [at |-> "live", s |-> Fresh, etag |-> 1, upd |-> 0]
      BY <2>1 DEF Init
    <3> QED BY BlankTyped, <3>1 DEF BindType, LinkType, CopyType, Rows
  <2>2. CASE origin # "linked"
    BY BlankTyped, <2>2 DEF Init, BindType, LinkType, CopyType, Rows
  <2> QED BY <2>1, <2>2
<1> QED BY <1>2, <1>4, <1>5 DEF Init, TypeOK

LEMMA InitIInv == Init => IInv
<1> SUFFICES ASSUME Init PROVE IInv
  OBVIOUS
<1>1. TypeOK
  BY InitTyped
<1>2. \A o \in Ops : op[o].st = "free"
  BY DEF Init, Free
<1>3. \A w \in Workers : wk[w].pc = "idle" /\ wk[w].op = 0
  BY DEF Init, Idle
<1>4. \A p \in Pullers : pl[p].pc = "idle"
  BY DEF Init, Resting
<1> QED BY <1>1, <1>2, <1>3, <1>4
        DEF IInv, Unrecorded, Revisions, CreateLeads, Counted, Stages,
            CreatedFirst, Holds

-----------------------------------------------------------------------------
(* Types. *)

LEMMA Typed ==
    ASSUME TypeOK
    PROVE  /\ op \in [Ops -> OpType] /\ row \in [Rows -> RowType]
           /\ wk \in [Workers -> WorkType] /\ pl \in [Pullers -> PullType]
           /\ bind \in BindType /\ remote \in CopyType
           /\ link \in LinkType \cup {None} /\ Own \in Rows
           /\ trouble \in 0 .. MaxTrouble
BY DEF TypeOK, Rows

LEMMA RecordTyped ==
    ASSUME TypeOK, Record, remote' \in CopyType, row' \in [Rows -> RowType]
    PROVE  held' \subseteq Nat /\ shown' \subseteq Nat
<1>1. remote'.s \in Snapshot /\ \A r \in Rows : row'[r].s \in Snapshot
  BY DEF CopyType, RowType
<1>2. Values(remote'.s) \subseteq Nat
      /\ \A r \in Rows : Values(row'[r].s) \subseteq Nat
  BY <1>1, ValuesTyped
<1>3. held' \subseteq Nat
  BY <1>2 DEF Record, TypeOK
<1>4. UNION {Values(row'[r].s) : r \in Rows} \subseteq Nat
  BY <1>2
<1> QED BY <1>3, <1>4 DEF Record, TypeOK

LEMMA QueuedTyped ==
    ASSUME NEW kind \in {"create", "update", "delete"}, NEW rev \in Nat,
           NEW want \in Snapshot, NEW edited \in Nat, NEW base \in Snapshot
    PROVE  Queued(kind, rev, want, edited, base) \in OpType
BY DEF Queued, Free, OpType

LEMMA EnqueuedTyped ==
    ASSUME NEW ops \in [Ops -> OpType], Room(ops), NEW q \in OpType
    PROVE  Enqueued(ops, q) \in [Ops -> OpType]
BY DEF Enqueued, Room

LEMMA FreeTyped == Free \in OpType
BY BlankTyped DEF Free, OpType

LEMMA CancelledTyped == Cancelled \in [Ops -> OpType]
BY FreeTyped DEF Cancelled

LEMMA DetachedTyped ==
    ASSUME TypeOK PROVE Detached \in [Rows -> RowType]
<1>1. ASSUME NEW r \in Rows
      PROVE  /\ row[r] \in RowType
             /\ [row[r] EXCEPT !.google = FALSE, !.sync = "local"] \in RowType
  <2>1. row[r] \in RowType
    BY Typed
  <2> QED BY <2>1 DEF RowType
<1>2. \A r \in Rows :
          Detached[r] \in {row[r], [row[r] EXCEPT !.google = FALSE,
                                                 !.sync = "local"]}
  BY DEF Detached
<1>3. \A r \in Rows : Detached[r] \in RowType
  BY <1>1, <1>2
<1>4. Detached = [r \in Rows |-> Detached[r]]
  BY DEF Detached
<1> QED BY <1>3, <1>4

LEMMA UserTyped ==
    ASSUME TypeOK, User, Record PROVE TypeOK'
<1> USE BlankTyped
<1>1. Clock \in Nat
  BY DEF Clock, TypeOK
<1>2. CASE CreateEvent
  <2>1. op' \in [Ops -> OpType]
    <3>1. Queued("create", 1, Fresh, Clock, Fresh) \in OpType
      BY <1>1, QueuedTyped
    <3> QED BY <1>2, <3>1, EnqueuedTyped DEF CreateEvent, TypeOK
  <2>2. row' \in [Rows -> RowType]
    <3>1. [NoRow EXCEPT !.on = TRUE, !.google = TRUE, !.sync = "pending",
                        !.rev = 1, !.edited = Clock] \in RowType
      BY <1>1 DEF NoRow, RowType
    <3> QED BY <1>2, <3>1 DEF CreateEvent, TypeOK
  <2> QED BY <1>2, <2>1, <2>2, RecordTyped DEF CreateEvent, TypeOK
<1>3. ASSUME NEW f \in Fields, EditEvent(f) PROVE TypeOK'
  <2>1. Clock + 1 \in Nat /\ row[Own].rev + 1 \in Nat /\ row[Own] \in RowType
    BY <1>1 DEF TypeOK, RowType, Rows
  <2>2. row[Own].s \in Snapshot
        /\ [row[Own].s EXCEPT ![f] = IF f = Status THEN 1 ELSE Clock + 1]
             \in Snapshot
    BY <2>1, StatusTyped DEF RowType
  <2>3. op' \in [Ops -> OpType]
    <3> DEFINE after == [row[Own].s EXCEPT ![f] = IF f = Status THEN 1
                                                  ELSE Clock + 1]
               next == Queued(IF f = Status THEN "delete" ELSE "update",
                              row[Own].rev + 1, after, Clock + 1, row[Own].s)
    <3>1. next \in OpType
      <4> HIDE DEF after
      <4> QED BY <2>1, <2>2, QueuedTyped DEF after
    <3>2. op' = op \/ (Room(op) /\ op' = Enqueued(op, next))
      BY <1>3 DEF EditEvent
    <3> QED BY <3>1, <3>2, EnqueuedTyped DEF TypeOK
  <2>4. row' \in [Rows -> RowType]
    <3> DEFINE after == [row[Own].s EXCEPT ![f] = IF f = Status THEN 1
                                                  ELSE Clock + 1]
    <3>1. row' = [row EXCEPT ![Own].google = Queues,
                             ![Own].sync = IF Queues THEN "pending"
                                           ELSE "local",
                             ![Own].rev = row[Own].rev + 1,
                             ![Own].edited = Clock + 1, ![Own].s = after]
      BY <1>3 DEF EditEvent
    <3>2. Queues \in BOOLEAN
      BY DEF Queues
    <3>3. row' = [row EXCEPT ![Own] =
                   [on |-> row[Own].on, google |-> Queues,
                    sync |-> IF Queues THEN "pending" ELSE "local",
                    rev |-> row[Own].rev + 1, edited |-> Clock + 1,
                    s |-> after]]
      <4> HIDE DEF after
      <4> QED BY <3>1 DEF TypeOK, RowType, Rows
    <3>4. [on |-> row[Own].on, google |-> Queues,
           sync |-> IF Queues THEN "pending" ELSE "local",
           rev |-> row[Own].rev + 1, edited |-> Clock + 1, s |-> after]
            \in RowType
      <4> HIDE DEF after
      <4> QED BY <2>1, <2>2, <3>2 DEF RowType, after
    <3> QED BY <3>3, <3>4 DEF TypeOK
  <2>5. edits' \in Seq(EditType)
    BY <1>3 DEF EditEvent, TypeOK, EditType
  <2> QED BY <1>3, <2>3, <2>4, <2>5, RecordTyped DEF EditEvent, TypeOK
<1>4. ASSUME NEW f \in Fields, RemoteEdit(f) PROVE TypeOK'
  <2>1. [remote.s EXCEPT ![f] = IF f = Status THEN 1 ELSE Clock + 1]
          \in Snapshot
    BY <1>1, StatusTyped DEF TypeOK, CopyType
  <2>2. remote' \in CopyType
    BY <1>1, <1>4, <2>1 DEF RemoteEdit, TypeOK, CopyType
  <2>3. edits' \in Seq(EditType)
    BY <1>4 DEF RemoteEdit, TypeOK, EditType
  <2> QED BY <1>4, <2>2, <2>3, RecordTyped DEF RemoteEdit, TypeOK
<1>5. ASSUME NEW o \in Ops, RetryFailed(o) PROVE TypeOK'
  <2>1. op' \in [Ops -> OpType]
    <3>1. op' = op \/ op' = [op EXCEPT ![o].st = "pending", ![o].tries = 0]
      BY <1>5 DEF RetryFailed
    <3> QED BY <3>1, Typed DEF OpType
  <2>2. row' \in [Rows -> RowType]
    <3>1. row' = [row EXCEPT ![Own].sync = "pending"]
      BY <1>5 DEF RetryFailed
    <3> QED BY <3>1, Typed DEF RowType
  <2> QED BY <1>5, <2>1, <2>2, RecordTyped DEF RetryFailed, TypeOK
<1> QED BY <1>2, <1>3, <1>4, <1>5 DEF User

LEMMA ConnectionTyped ==
    ASSUME TypeOK, Connection, Record PROVE TypeOK'
<1>1. CASE Disconnect
  <2>1. op' \in [Ops -> OpType]
    <3>1. ASSUME NEW o \in Ops
          PROVE  [op[o] EXCEPT !.st = "paused", !.holder = None] \in OpType
      <4>1. op[o] \in OpType
        BY Typed
      <4> QED BY <4>1 DEF OpType
    <3>2. op' = Paused
      BY <1>1 DEF Disconnect
    <3> QED BY <3>1, <3>2, FreeTyped DEF Paused
  <2>2. row' \in [Rows -> RowType]
    BY <1>1, DetachedTyped DEF Disconnect
  <2>3. bind' \in BindType /\ trouble' \in 0 .. MaxTrouble
    <3>1. bind \in BindType /\ bind' = [bind EXCEPT !.lease = None]
      BY <1>1, Typed DEF Disconnect
    <3>2. bind' \in BindType
      BY <3>1 DEF BindType
    <3> QED BY <1>1, <3>2 DEF Disconnect, TypeOK, Trouble
  <2> QED BY <1>1, <2>1, <2>2, <2>3, RecordTyped DEF Disconnect, TypeOK
<1>2. CASE Reconnect
  <2>1. bind' \in BindType
    BY <1>2 DEF Reconnect, TypeOK, BindType
  <2>2. row[Own] \in RowType /\ Detached \in [Rows -> RowType]
    BY DetachedTyped DEF TypeOK, Rows
  <2>3. row' \in [Rows -> RowType]
    <3>1. row' = Detached
          \/ row' = [Detached EXCEPT ![Own].google = TRUE,
                                     ![Own].sync = "pending"]
      BY <1>2 DEF Reconnect
    <3>2. Own \in Rows
      BY Typed
    <3>3. [Detached[Own] EXCEPT !.google = TRUE, !.sync = "pending"]
            \in RowType
      <4>1. Detached[Own] \in RowType
        BY <2>2, <3>2
      <4> QED BY <4>1 DEF RowType
    <3>4. row' = Detached
          \/ row' = [Detached EXCEPT ![Own] =
                        [Detached[Own] EXCEPT !.google = TRUE,
                                              !.sync = "pending"]]
      BY <2>2, <3>1, <3>2
    <3> QED BY <2>2, <3>2, <3>3, <3>4
  <2>4. op' \in [Ops -> OpType]
    <3>1. ASSUME NEW o \in Ops
          PROVE  [op[o] EXCEPT !.st = "pending", !.holder = None,
                               !.want = row[Own].s, !.rev = row[Own].rev,
                               !.edited = row[Own].edited] \in OpType
      <4>1. op[o] \in OpType
        BY Typed
      <4> HIDE DEF OpType
      <4> QED BY <2>2, <4>1, Typed DEF OpType, RowType
    <3>2. op' = Cancelled
          \/ \A o \in Ops : \/ op'[o] = Free
                            \/ op'[o] = [op[o] EXCEPT !.st = "pending",
                                   !.holder = None, !.want = row[Own].s,
                                   !.rev = row[Own].rev,
                                   !.edited = row[Own].edited]
      BY <1>2 DEF Reconnect
    <3>3. op' = [o \in Ops |-> op'[o]]
      BY <1>2 DEF Reconnect, Cancelled
    <3>4. CASE op' = Cancelled
      BY <3>4, CancelledTyped
    <3>5. CASE op' # Cancelled
      <4>1. \A o \in Ops : op'[o] \in OpType
        BY <3>1, <3>2, <3>5, FreeTyped
      <4> QED BY <3>3, <4>1
    <3> QED BY <3>4, <3>5
  <2> QED BY <1>2, <2>1, <2>3, <2>4, RecordTyped DEF Reconnect, TypeOK
<1>3. CASE Resync
  <2>1. bind' \in BindType /\ trouble' \in 0 .. MaxTrouble
    <3>1. bind' = [bind EXCEPT !.tok = 0, !.gen = @ + 1]
          /\ trouble < MaxTrouble /\ trouble' = trouble + 1
      BY <1>3 DEF Resync, Trouble
    <3>2. bind \in BindType
      BY Typed
    <3>3. bind' = [tok |-> 0, gen |-> bind.gen + 1, lease |-> bind.lease]
      BY <3>1, <3>2 DEF BindType
    <3>4. bind' \in BindType
      BY <3>2, <3>3 DEF BindType
    <3> QED BY <3>1, <3>4, Typed
  <2> QED BY <1>3, <2>1, RecordTyped DEF Resync, TypeOK
<1> QED BY <1>1, <1>2, <1>3 DEF Connection

LEMMA OpMoved ==
    ASSUME TypeOK, NEW o \in Ops,
           NEW st \in {"free", "pending", "processing", "paused", "failed",
                       "exhausted"},
           NEW h \in Workers \cup {None}
    PROVE  [op EXCEPT ![o].st = st, ![o].holder = h] \in [Ops -> OpType]
<1>1. op \in [Ops -> OpType]
  BY Typed
<1>2. [op[o] EXCEPT !.st = st, !.holder = h] \in OpType
  BY <1>1 DEF OpType
<1>3. [op EXCEPT ![o].st = st, ![o].holder = h]
      = [op EXCEPT ![o] = [op[o] EXCEPT !.st = st, !.holder = h]]
  BY <1>1
<1> QED BY <1>1, <1>2, <1>3

LEMMA OpCounted ==
    ASSUME TypeOK, NEW o \in Ops,
           NEW st \in {"free", "pending", "processing", "paused", "failed",
                       "exhausted"},
           NEW h \in Workers \cup {None}, NEW n \in 0 .. Budget
    PROVE  [op EXCEPT ![o].st = st, ![o].holder = h, ![o].tries = n]
             \in [Ops -> OpType]
<1>1. op \in [Ops -> OpType]
  BY Typed
<1>2. [op[o] EXCEPT !.st = st, !.holder = h, !.tries = n] \in OpType
  BY <1>1 DEF OpType
<1>3. [op EXCEPT ![o].st = st, ![o].holder = h, ![o].tries = n]
      = [op EXCEPT ![o] = [op[o] EXCEPT !.st = st, !.holder = h, !.tries = n]]
  BY <1>1
<1> QED BY <1>1, <1>2, <1>3

LEMMA OpReleased ==
    ASSUME TypeOK, NEW o \in Ops
    PROVE  [op EXCEPT ![o].holder = None] \in [Ops -> OpType]
BY Typed DEF OpType

LEMMA WorkGoto ==
    ASSUME TypeOK, NEW w \in Workers,
           NEW c \in {"idle", "claimed", "read", "sent", "stale", "changed",
                      "answered"}
    PROVE  [wk EXCEPT ![w].pc = c] \in [Workers -> WorkType]
BY Typed DEF WorkType

LEMMA WorkRead ==
    ASSUME TypeOK, NEW w \in Workers,
           NEW c \in {"idle", "claimed", "read", "sent", "stale", "changed",
                      "answered"}, NEW n \in Nat
    PROVE  [wk EXCEPT ![w].pc = c, ![w].etag = n] \in [Workers -> WorkType]
<1>1. wk \in [Workers -> WorkType]
  BY Typed
<1>2. [wk[w] EXCEPT !.pc = c, !.etag = n] \in WorkType
  BY <1>1 DEF WorkType
<1>3. [wk EXCEPT ![w].pc = c, ![w].etag = n]
      = [wk EXCEPT ![w] = [wk[w] EXCEPT !.pc = c, !.etag = n]]
  BY <1>1
<1> QED BY <1>1, <1>2, <1>3

LEMMA WorkPut ==
    ASSUME TypeOK, NEW w \in Workers,
           NEW c \in {"idle", "claimed", "read", "sent", "stale", "changed",
                      "answered"}, NEW s \in Snapshot
    PROVE  [wk EXCEPT ![w].pc = c, ![w].put = s] \in [Workers -> WorkType]
<1>1. wk \in [Workers -> WorkType]
  BY Typed
<1>2. [wk[w] EXCEPT !.pc = c, !.put = s] \in WorkType
  BY <1>1 DEF WorkType
<1>3. [wk EXCEPT ![w].pc = c, ![w].put = s]
      = [wk EXCEPT ![w] = [wk[w] EXCEPT !.pc = c, !.put = s]]
  BY <1>1
<1> QED BY <1>1, <1>2, <1>3

LEMMA WorkResolved ==
    ASSUME TypeOK, NEW w \in Workers,
           NEW c \in {"idle", "claimed", "read", "sent", "stale", "changed",
                      "answered"}, NEW n \in Nat, NEW s \in Snapshot
    PROVE  [wk EXCEPT ![w].pc = c, ![w].etag = n, ![w].put = s]
             \in [Workers -> WorkType]
<1>1. wk \in [Workers -> WorkType]
  BY Typed
<1>2. [wk[w] EXCEPT !.pc = c, !.etag = n, !.put = s] \in WorkType
  BY <1>1 DEF WorkType
<1>3. [wk EXCEPT ![w].pc = c, ![w].etag = n, ![w].put = s]
      = [wk EXCEPT ![w] = [wk[w] EXCEPT !.pc = c, !.etag = n, !.put = s]]
  BY <1>1
<1> QED BY <1>1, <1>2, <1>3

LEMMA WorkRests ==
    ASSUME TypeOK, NEW w \in Workers
    PROVE  [wk EXCEPT ![w] = Idle] \in [Workers -> WorkType]
<1>1. Idle \in WorkType
  BY BlankTyped DEF Idle, WorkType
<1> QED BY <1>1, Typed

LEMMA RowSync ==
    ASSUME TypeOK, NEW r \in Rows,
           NEW y \in {"local", "pending", "synced", "error",
                      "reconnect_required"}
    PROVE  [row EXCEPT ![r].sync = y] \in [Rows -> RowType]
BY Typed DEF RowType

LEMMA RowGoogle ==
    ASSUME TypeOK, NEW r \in Rows
    PROVE  [row EXCEPT ![r] = [row[r] EXCEPT !.google = TRUE]]
             \in [Rows -> RowType]
<1>1. row \in [Rows -> RowType]
  BY Typed
<1>2. [row[r] EXCEPT !.google = TRUE] \in RowType
  BY <1>1 DEF RowType
<1> QED BY <1>1, <1>2

LEMMA RowTaken ==
    ASSUME TypeOK, NEW r \in Rows, NEW n \in Nat, NEW s \in Snapshot
    PROVE  [row EXCEPT ![r] = [row[r] EXCEPT !.google = TRUE, !.sync = "synced",
                                 !.s = s, !.rev = n]] \in [Rows -> RowType]
<1>1. row \in [Rows -> RowType]
  BY Typed
<1>2. [row[r] EXCEPT !.google = TRUE, !.sync = "synced", !.s = s, !.rev = n]
        \in RowType
  BY <1>1 DEF RowType
<1> QED BY <1>1, <1>2

\* The rows that a page leaves, without edits and with.
Cleaned(r, s, n) ==
    [row EXCEPT ![r].s = s, ![r].google = TRUE, ![r].sync = "synced",
                ![r].rev = n]
Mixed(r, s, n, y) ==
    [row EXCEPT ![r].s = s, ![r].google = TRUE, ![r].rev = n,
                ![r].sync = y]

LEMMA RowsLeft ==
    ASSUME TypeOK, NEW r \in Rows, NEW s \in Snapshot, NEW n \in Nat,
           NEW y \in {"synced", "pending"}
    PROVE  /\ Cleaned(r, s, n) \in [Rows -> RowType]
           /\ Mixed(r, s, n, y) \in [Rows -> RowType]
<1>1. row \in [Rows -> RowType]
  BY Typed
<1>2. /\ [row[r] EXCEPT !.s = s, !.google = TRUE, !.sync = "synced", !.rev = n]
             \in RowType
      /\ [row[r] EXCEPT !.s = s, !.google = TRUE, !.rev = n, !.sync = y]
             \in RowType
  BY <1>1 DEF RowType
<1>3. /\ Cleaned(r, s, n) = [row EXCEPT ![r] =
             [row[r] EXCEPT !.s = s, !.google = TRUE, !.sync = "synced",
                            !.rev = n]]
      /\ Mixed(r, s, n, y) = [row EXCEPT ![r] =
             [row[r] EXCEPT !.s = s, !.google = TRUE, !.rev = n, !.sync = y]]
  BY <1>1 DEF Cleaned, Mixed, RowType
<1> QED BY <1>1, <1>2, <1>3

LEMMA RowCancelled ==
    ASSUME TypeOK, NEW r \in Rows, NEW n \in Nat
    PROVE  /\ [row EXCEPT ![r].s[Status] = 1, ![r].sync = "synced"]
                \in [Rows -> RowType]
           /\ [row EXCEPT ![r].s[Status] = 1, ![r].sync = "synced",
                          ![r].rev = n] \in [Rows -> RowType]
<1>1. row \in [Rows -> RowType]
  BY Typed
<1>2. [row[r].s EXCEPT ![Status] = 1] \in Snapshot
  BY <1>1, StatusTyped DEF RowType
<1>3. [row EXCEPT ![r].s[Status] = 1, ![r].sync = "synced"]
      = [row EXCEPT ![r] = [row[r] EXCEPT !.s = [row[r].s EXCEPT ![Status] = 1],
                                          !.sync = "synced"]]
  BY <1>1 DEF RowType
<1>4. [row EXCEPT ![r].s[Status] = 1, ![r].sync = "synced", ![r].rev = n]
      = [row EXCEPT ![r] = [row[r] EXCEPT !.s = [row[r].s EXCEPT ![Status] = 1],
                                          !.sync = "synced", !.rev = n]]
  BY <1>1 DEF RowType
<1> QED BY <1>1, <1>2, <1>3, <1>4 DEF RowType

LEMMA LinkTyped ==
    ASSUME TypeOK, link # None PROVE link \in LinkType /\ link.ev \in Rows
BY DEF TypeOK, LinkType

LEMMA SavedTyped ==
    ASSUME TypeOK, NEW s \in Snapshot, NEW t \in Snapshot
    PROVE  saved \cup Values(s) \subseteq Nat
           /\ saved \cup Values(s) \cup Values(t) \subseteq Nat
BY ValuesTyped DEF TypeOK

\* The worker's operation.
LEMMA HeldOp ==
    ASSUME TypeOK, NEW w \in Workers, wk[w].op # 0
    PROVE  /\ wk[w].op \in Ops /\ op[wk[w].op] \in OpType
           /\ op[wk[w].op].want \in Snapshot /\ op[wk[w].op].base \in Snapshot
           /\ remote.s \in Snapshot /\ remote.etag \in Nat
<1>1. wk[w] \in WorkType
  BY Typed
<1>2. wk[w].op \in Ops
  BY <1>1 DEF WorkType
<1>3. op[wk[w].op] \in OpType
  BY <1>2, Typed
<1> QED BY <1>2, <1>3, Typed DEF OpType, CopyType

LEMMA RowFailedTyped ==
    ASSUME TypeOK, NEW o, RowFailed(o) PROVE row' \in [Rows -> RowType]
<1> DEFINE y == IF row[Own].sync = "pending" /\ row[Own].rev >= op[o].rev
                THEN "error" ELSE row[Own].sync
<1>1. row' = [row EXCEPT ![Own].sync = y]
  BY DEF RowFailed
<1>2. y \in {"local", "pending", "synced", "error", "reconnect_required"}
  BY Typed DEF RowType
<1> HIDE DEF y
<1> QED BY <1>1, <1>2, Typed, RowSync

LEMMA RetriedTyped ==
    ASSUME TypeOK, NEW o \in Ops, Retried(o)
    PROVE  op' \in [Ops -> OpType] /\ row' \in [Rows -> RowType]
<1>1. CASE op[o].tries >= Budget
  <2>1. op' = [op EXCEPT ![o].st = "exhausted", ![o].holder = None]
        /\ RowFailed(o)
    BY <1>1 DEF Retried
  <2>2. row' \in [Rows -> RowType]
    BY <2>1, RowFailedTyped
  <2> QED BY <2>1, <2>2, OpMoved
<1>2. CASE ~(op[o].tries >= Budget)
  <2>1. op' = [op EXCEPT ![o].st = "pending", ![o].holder = None]
        /\ row' = row
    BY <1>2 DEF Retried
  <2> QED BY <2>1, OpMoved, Typed
<1> QED BY <1>1, <1>2

LEMMA HonourTyped ==
    ASSUME TypeOK, NEW w \in Workers, link # None, HonourDeletion(w)
    PROVE  /\ op' \in [Ops -> OpType] /\ row' \in [Rows -> RowType]
           /\ wk' \in [Workers -> WorkType] /\ saved' \subseteq Nat
           /\ link' \in LinkType \cup {None}
<1>1. row[Own].rev + 1 \in Nat /\ row[Own].s \in Snapshot
  BY Typed DEF RowType
<1>2. row' \in [Rows -> RowType]
  <2>1. row' = [row EXCEPT ![Own].s[Status] = 1, ![Own].sync = "synced",
                           ![Own].rev = row[Own].rev + 1]
    BY DEF HonourDeletion
  <2> QED BY <1>1, <2>1, RowCancelled, Typed
<1>3. link' \in LinkType
  BY LinkTyped, BlankTyped DEF HonourDeletion, LinkType
<1>4. wk' \in [Workers -> WorkType]
  BY WorkRests DEF HonourDeletion, Rest
<1> QED BY <1>1, <1>2, <1>3, <1>4, CancelledTyped, SavedTyped
           DEF HonourDeletion

LEMMA WinsTyped ==
    ASSUME TypeOK, NEW w \in Workers, wk[w].op # 0
    PROVE  Wins(wk[w].op) \in Snapshot /\ Recovered(wk[w].op) \subseteq Nat
BY HeldOp, PushedTyped, SavedTyped DEF Wins, Recovered, TypeOK

LEMMA WorkTyped ==
    ASSUME TypeOK, Counted, Stages, CreatedFirst, NEW w \in Workers, Work(w),
           Record
    PROVE  TypeOK'
<1>1. \A c : c \in {"idle", "claimed", "read", "sent", "stale", "changed",
                    "answered"} => [wk EXCEPT ![w].pc = c]
                                      \in [Workers -> WorkType]
  BY WorkGoto
<1>2. [wk EXCEPT ![w] = Idle] \in [Workers -> WorkType]
  BY WorkRests
<1>3. remote \in CopyType /\ row \in [Rows -> RowType]
      /\ op \in [Ops -> OpType] /\ saved \subseteq Nat
  BY Typed DEF TypeOK
<1>4. ASSUME NEW o \in Ops, Claim(w, o) PROVE TypeOK'
  <2>1. CASE op[o].tries = Budget
    <3>1. op' = [op EXCEPT ![o].st = "exhausted", ![o].holder = None]
          /\ RowFailed(o) /\ wk' = wk
      BY <1>4, <2>1 DEF Claim
    <3>2. op' \in [Ops -> OpType] /\ row' \in [Rows -> RowType]
      BY <3>1, OpMoved, RowFailedTyped
    <3> QED BY <1>3, <1>4, <3>1, <3>2, RecordTyped DEF Claim, TypeOK
  <2>2. CASE op[o].tries # Budget
    <3>1. op' = [op EXCEPT ![o].st = "processing", ![o].holder = w,
                           ![o].tries = op[o].tries + 1]
          /\ wk' = [wk EXCEPT ![w] = [Idle EXCEPT !.pc = "claimed", !.op = o,
                                                  !.kind = op[o].kind]]
          /\ row' = row
      BY <1>4, <2>2 DEF Claim
    <3>2. op[o].tries + 1 \in 0 .. Budget
          /\ op[o].kind \in {"create", "update", "delete"}
      BY <2>2, Typed DEF OpType
    <3>3. [Idle EXCEPT !.pc = "claimed", !.op = o, !.kind = op[o].kind]
            \in WorkType
      BY <3>2, BlankTyped DEF Idle, WorkType
    <3>4. op' \in [Ops -> OpType]
      BY <3>1, <3>2, OpCounted
    <3>5. wk' \in [Workers -> WorkType]
      BY <3>1, <3>3, Typed
    <3> QED BY <1>3, <1>4, <3>1, <3>4, <3>5, RecordTyped DEF Claim, TypeOK
  <2> QED BY <2>1, <2>2
<1>5. CASE Read(w)
  <2>1. wk[w].op # 0 /\ link # None
    BY <1>5 DEF Read, Stages, CreatedFirst
  <2>2. Wins(wk[w].op) \in Snapshot /\ Recovered(wk[w].op) \subseteq Nat
        /\ remote.etag \in Nat
    BY <2>1, WinsTyped, HeldOp
  <2>3. CASE HonourDeletion(w)
    BY <1>3, <1>5, <2>1, <2>3, HonourTyped, RecordTyped DEF Read, TypeOK
  <2>4. CASE Goto(w, "answered") /\ UNCHANGED <<op, row, link, saved>>
    BY <1>1, <1>3, <1>5, <2>4, RecordTyped DEF Read, TypeOK, Goto
  <2>5. CASE /\ saved' = saved \cup Values(op[wk[w].op].want) \cup Values(remote.s)
             /\ wk' = [wk EXCEPT ![w].pc = "read", ![w].etag = remote.etag]
             /\ UNCHANGED <<op, row, link>>
    <3>1. wk' \in [Workers -> WorkType] /\ saved' \subseteq Nat
      BY <2>1, <2>2, <2>5, WorkRead, HeldOp, SavedTyped
    <3> QED BY <1>3, <1>5, <2>5, <3>1, RecordTyped DEF Read, TypeOK
  <2>6. CASE /\ saved' = Recovered(wk[w].op)
             /\ wk' = [wk EXCEPT ![w].pc = IF Wins(wk[w].op) = remote.s
                                           THEN "answered" ELSE "read",
                                 ![w].etag = remote.etag,
                                 ![w].put = Wins(wk[w].op)]
             /\ UNCHANGED <<op, row, link>>
    <3>1. wk' \in [Workers -> WorkType]
      <4> DEFINE c == IF Wins(wk[w].op) = remote.s THEN "answered" ELSE "read"
      <4>1. c \in {"answered", "read"}
        OBVIOUS
      <4>2. wk' = [wk EXCEPT ![w].pc = c, ![w].etag = remote.etag,
                             ![w].put = Wins(wk[w].op)]
        BY <2>6
      <4> HIDE DEF c
      <4> QED BY <2>2, <4>1, <4>2, WorkResolved
    <3> QED BY <1>3, <1>5, <2>2, <2>6, <3>1, RecordTyped DEF Read, TypeOK
  <2> QED BY <1>5, <2>3, <2>4, <2>5, <2>6 DEF Read
<1>6. CASE Send(w)
  <2>1. wk[w].op # 0 /\ wk[w] \in WorkType
    BY <1>6, Typed DEF Send, Stages
  <2>2. (IF wk[w].kind = "create" THEN op[wk[w].op].want ELSE wk[w].put)
          \in Snapshot
    BY <2>1, HeldOp DEF WorkType
  <2>3. wk' \in [Workers -> WorkType]
    <3> DEFINE s == IF wk[w].kind = "create" THEN op[wk[w].op].want
                    ELSE wk[w].put
    <3>1. wk' = [wk EXCEPT ![w].pc = "sent", ![w].put = s]
      BY <1>6 DEF Send
    <3> HIDE DEF s
    <3> QED BY <2>2, <3>1, WorkPut DEF s
  <2> QED BY <1>3, <1>6, <2>3, RecordTyped DEF Send, TypeOK
<1>7. CASE Land(w)
  <2>1. wk[w].put \in Snapshot /\ Clock \in Nat /\ remote.s \in Snapshot
        /\ remote.etag \in Nat
    BY Typed DEF WorkType, Clock, TypeOK, CopyType
  <2>2. wk' \in [Workers -> WorkType]
    <3>1. \/ wk' = [wk EXCEPT ![w].pc = "answered"]
          \/ wk' = [wk EXCEPT ![w].pc = "stale"]
          \/ wk' = [wk EXCEPT ![w].pc = "changed"]
          \/ wk' = [wk EXCEPT ![w].pc = "answered", ![w].put = remote.s]
      <4>1. ASSUME Goto(w, IF remote.at = "gone" THEN "answered" ELSE "changed")
            PROVE  \/ wk' = [wk EXCEPT ![w].pc = "answered"]
                   \/ wk' = [wk EXCEPT ![w].pc = "changed"]
        BY <4>1 DEF Goto
      <4>2. /\ Goto(w, "answered") => wk' = [wk EXCEPT ![w].pc = "answered"]
            /\ Goto(w, "stale") => wk' = [wk EXCEPT ![w].pc = "stale"]
        BY DEF Goto
      <4> QED BY <1>7, <4>1, <4>2 DEF Land
    <3>2. CASE wk' = [wk EXCEPT ![w].pc = "answered", ![w].put = remote.s]
      BY <2>1, <3>2, WorkPut
    <3> QED BY <1>1, <3>1, <3>2
  <2>3. Written(wk[w].put) \in CopyType
    BY <2>1 DEF Written, CopyType
  <2>4. [remote EXCEPT !.at = "gone", !.s[Status] = 1, !.etag = @ + 1]
          \in CopyType
    <3>1. [remote.s EXCEPT ![Status] = 1] \in Snapshot
      BY <2>1, StatusTyped
    <3>2. [remote EXCEPT !.at = "gone", !.s[Status] = 1, !.etag = @ + 1]
          = [remote EXCEPT !.at = "gone", !.s = [remote.s EXCEPT ![Status] = 1],
                           !.etag = remote.etag + 1]
      OBVIOUS
    <3>3. remote.etag + 1 \in Nat
      BY <2>1
    <3> QED BY <1>3, <3>1, <3>2, <3>3 DEF CopyType
  <2>5. remote' \in CopyType
    BY <1>3, <1>7, <2>3, <2>4 DEF Land
  <2> QED BY <1>3, <1>7, <2>2, <2>5, RecordTyped DEF Land, TypeOK
<1>8. CASE Recheck(w)
  <2>1. wk[w].op # 0 /\ link # None
    BY <1>8 DEF Recheck, Stages, CreatedFirst
  <2>2. Recovered(wk[w].op) \subseteq Nat /\ remote.s \in Snapshot
    BY <2>1, WinsTyped, HeldOp
  <2>3. CASE HonourDeletion(w)
    BY <1>3, <1>8, <2>1, <2>3, HonourTyped, RecordTyped DEF Recheck, TypeOK
  <2>4. CASE /\ saved' = Recovered(wk[w].op)
             /\ wk' = [wk EXCEPT ![w].pc = IF Wins(wk[w].op) = remote.s
                                           THEN "answered" ELSE "changed",
                                 ![w].put = remote.s]
             /\ UNCHANGED <<op, row, link>>
    <3>1. wk' \in [Workers -> WorkType]
      <4> DEFINE c == IF Wins(wk[w].op) = remote.s THEN "answered"
                      ELSE "changed"
      <4>1. c \in {"answered", "changed"}
        OBVIOUS
      <4>2. wk' = [wk EXCEPT ![w].pc = c, ![w].put = remote.s]
        BY <2>4
      <4> HIDE DEF c
      <4> QED BY <2>2, <4>1, <4>2, WorkPut
    <3> QED BY <1>3, <1>8, <2>2, <2>4, <3>1, RecordTyped DEF Recheck, TypeOK
  <2> QED BY <1>8, <2>3, <2>4 DEF Recheck
<1>9. CASE TryLater(w)
  <2>1. op' \in [Ops -> OpType] /\ row' \in [Rows -> RowType]
    BY <1>3, <1>9, RetriedTyped, HeldOp DEF TryLater, Holds
  <2> QED BY <1>2, <1>3, <1>9, <2>1, RecordTyped DEF TryLater, TypeOK, Rest
<1>10. CASE GiveUp(w)
  <2>1. op' \in [Ops -> OpType]
    <3>1. CASE Holds(w)
      <4>1. wk[w].op \in Ops
        BY <3>1, HeldOp DEF Holds
      <4>2. op[wk[w].op].tries - 1 \in 0 .. Budget
        <5>1. op[wk[w].op].tries > 0
          BY <3>1 DEF Counted
        <5>2. op[wk[w].op].tries \in 0 .. Budget
          BY <4>1, Typed DEF OpType
        <5> QED BY <5>1, <5>2
      <4>3. op' = [op EXCEPT ![wk[w].op].st = "pending",
                             ![wk[w].op].holder = None,
                             ![wk[w].op].tries = op[wk[w].op].tries - 1]
        BY <1>10, <3>1 DEF GiveUp, Deferred
      <4> QED BY <4>1, <4>2, <4>3, OpCounted
    <3>2. CASE ~Holds(w)
      BY <1>3, <1>10, <3>2 DEF GiveUp, Deferred
    <3> QED BY <3>1, <3>2
  <2> QED BY <1>2, <1>3, <1>10, <2>1, RecordTyped DEF GiveUp, TypeOK, Rest
<1>11. CASE Complete(w)
  <2> DEFINE o == wk[w].op
  <2>1. CASE CanSend(w) /\ wk[w].kind = "delete"
    <3>1. CompleteDelete(w) /\ o # 0
      BY <1>11, <2>1 DEF Complete, CanSend, Holds
    <3>2. /\ o \in Ops /\ op[o].want \in Snapshot /\ op[o].rev \in Nat
          /\ row[Own].s \in Snapshot
      BY <3>1, HeldOp, Typed DEF OpType, RowType
    <3>3. link' \in LinkType \cup {None}
      BY <3>1, <3>2, LinkTyped, Typed DEF CompleteDelete, LinkType, Linked
    <3>4. row' \in [Rows -> RowType]
      BY <3>1, RowCancelled, Typed DEF CompleteDelete
    <3>5. op' \in [Ops -> OpType] /\ saved' \subseteq Nat
      BY <1>3, <3>1, <3>2, CancelledTyped, SavedTyped DEF CompleteDelete
    <3> QED BY <1>2, <1>3, <1>11, <3>3, <3>4, <3>5, RecordTyped
            DEF Complete, TypeOK, Rest
  <2>2. CASE CanSend(w) /\ wk[w].kind # "delete"
    <3>1. CompleteWrite(w) /\ o # 0
      BY <1>11, <2>2 DEF Complete, CanSend, Holds
    <3>2. /\ o \in Ops /\ op[o].want \in Snapshot /\ op[o].rev \in Nat
          /\ wk[w].put \in Snapshot
      BY <3>1, HeldOp, Typed DEF OpType, WorkType
    <3> DEFINE agreed == IF wk[w].kind = "create" THEN op[o].want ELSE wk[w].put
               rev    == op[o].rev + (IF Confirmed(o) /\ agreed # op[o].want
                                      THEN 1 ELSE 0)
    <3>3. agreed \in Snapshot /\ rev \in Nat
      BY <3>2
    <3>4. link' \in LinkType \cup {None}
      <4>1. link' = [ev |-> Own, common |-> agreed, synced |-> rev,
                     seen |-> IF link = None THEN 0 ELSE link.seen,
                     tomb |-> FALSE]
        BY <3>1 DEF CompleteWrite
      <4>2. (IF link = None THEN 0 ELSE link.seen) \in Nat
        BY LinkTyped DEF LinkType
      <4> HIDE DEF agreed, rev
      <4> QED BY <3>3, <4>1, <4>2, Typed DEF LinkType
    <3>5. row' \in [Rows -> RowType]
      <4>1. row' = Acknowledged(o, agreed, rev)
        BY <3>1 DEF CompleteWrite
      <4> HIDE DEF agreed, rev
      <4>2. CASE Confirmed(o)
        <5>1. row' = [row EXCEPT ![Own] = [row[Own] EXCEPT !.google = TRUE,
                         !.sync = "synced", !.s = agreed, !.rev = rev]]
          BY <4>1, <4>2 DEF Acknowledged
        <5> QED BY <3>3, <5>1, RowTaken, Typed
      <4>3. CASE ~Confirmed(o)
        <5>1. row' = [row EXCEPT ![Own] = [row[Own] EXCEPT !.google = TRUE]]
          BY <4>1, <4>3 DEF Acknowledged
        <5> QED BY <5>1, RowGoogle, Typed
      <4> QED BY <4>2, <4>3
    <3>6. op' \in [Ops -> OpType]
      BY <1>3, <3>1, <3>2, FreeTyped DEF CompleteWrite, Finished
    <3>7. saved' = saved
      BY <3>1 DEF CompleteWrite
    <3> QED BY <1>2, <1>3, <1>11, <3>4, <3>5, <3>6, <3>7, RecordTyped
            DEF Complete, TypeOK, Rest
  <2>3. CASE ~CanSend(w)
    BY <1>2, <1>3, <1>11, <2>3, RecordTyped DEF Complete, TypeOK, Rest
  <2> QED BY <2>1, <2>2, <2>3
<1> QED BY <1>4, <1>5, <1>6, <1>7, <1>8, <1>9, <1>10, <1>11 DEF Work

-----------------------------------------------------------------------------
(* Types: pulls and faults.                                                 *)

LEMMA LeavesTyped ==
    ASSUME Own \in Rows, NEW rows \in [Rows -> RowType],
           NEW ops \in [Ops -> OpType], Leaves(rows, ops)
    PROVE  row' \in [Rows -> RowType] /\ op' \in [Ops -> OpType]
<1>1. ASSUME NEW o \in Ops
      PROVE  [ops[o] EXCEPT !.st = "pending", !.tries = 0] \in OpType
  <2>1. ops[o] \in OpType
    OBVIOUS
  <2>2. 0 \in 0 .. Budget
    OBVIOUS
  <2> HIDE BoundAssumption
  <2> QED BY <2>1, <2>2 DEF OpType
<1>2. \A o \in Ops : op'[o] = ops[o]
          \/ op'[o] = [ops[o] EXCEPT !.st = "pending", !.tries = 0]
  BY DEF Leaves
<1>3. op' = [o \in Ops |-> op'[o]]
  BY DEF Leaves
<1>4. \A o \in Ops : op'[o] \in OpType
  <2> HIDE DEF OpType
  <2> QED BY <1>1, <1>2
<1>5. op' \in [Ops -> OpType]
  BY <1>3, <1>4
<1>6. [rows EXCEPT ![Own].sync = "pending"] \in [Rows -> RowType]
  BY DEF RowType
<1>7. row' = rows \/ row' = [rows EXCEPT ![Own].sync = "pending"]
  BY DEF Leaves
<1> QED BY <1>5, <1>6, <1>7

\* What a page says of the event.
LEMMA PageTyped ==
    ASSUME TypeOK, NEW p \in Pullers
    PROVE  /\ pl[p] \in PullType /\ pl[p].got.s \in Snapshot
           /\ pl[p].gen \in Nat /\ pl[p].tok \in Nat
           /\ pl[p].got.upd \in Nat
<1>1. pl[p] \in PullType
  BY Typed
<1> QED BY <1>1 DEF PullType, PageType

LEMMA PullRests ==
    ASSUME TypeOK, NEW p \in Pullers, Stop(p)
    PROVE  pl' \in [Pullers -> PullType]
<1>1. Resting \in PullType
  BY BlankTyped DEF Resting, Unlisted, PullType, PageType
<1> QED BY <1>1, Typed DEF Stop

LEMMA Released ==
    ASSUME TypeOK, NEW p \in Pullers, Release(p) PROVE bind' \in BindType
BY Typed DEF Release, BindType

LEMMA MergeTyped ==
    ASSUME TypeOK, NEW p \in Pullers, link # None
    PROVE  /\ Merge(p).s \in Snapshot /\ Merge(p).rev \in Nat
           /\ Merge(p).left \in [Ops -> OpType]
<1> DEFINE r       == link.ev
           wins    == ~Live(row[r].s) \/ row[r].edited > pl[p].got.upd
           changed == Changed(link.common, pl[p].got.s) # {}
<1>1. link \in LinkType /\ r \in Rows /\ row[r] \in RowType
  BY LinkTyped, Typed
<1>2. row[r].s \in Snapshot /\ row[r].rev \in Nat /\ link.common \in Snapshot
  BY <1>1 DEF LinkType, RowType
<1>3. Merge(p).s = Merged(link.common, row[r].s, pl[p].got.s, wins)
  BY DEF Merge
<1>4. Merge(p).rev = row[r].rev + (IF changed THEN 1 ELSE 0)
  BY DEF Merge
<1>5. Merge(p).left = Cancelled \/ Merge(p).left = op
  BY DEF Merge
<1> HIDE DEF wins, changed
<1>6. Merge(p).s \in Snapshot
  BY <1>2, <1>3, PageTyped, PushedTyped
<1>7. Merge(p).rev \in Nat
  BY <1>2, <1>4
<1> QED BY <1>5, <1>6, <1>7, CancelledTyped, Typed

LEMMA DirtyTyped ==
    ASSUME TypeOK, NEW p \in Pullers, PageOfDirty(p)
    PROVE  /\ row' \in [Rows -> RowType] /\ op' \in [Ops -> OpType]
           /\ link' \in LinkType /\ saved' \subseteq Nat
<1> DEFINE r     == link.ev
           in    == pl[p].got.s
           m     == Merge(p)
           y     == IF m.s = in THEN "synced" ELSE "pending"
           after == [row EXCEPT ![r].s = m.s, ![r].google = TRUE,
                                ![r].rev = m.rev, ![r].sync = y]
           next  == Queued(IF Live(row[r].s) THEN "update" ELSE "delete",
                           m.rev, m.s, row[r].edited, in)
<1>1. link # None
  BY DEF PageOfDirty, Meets
<1>2. link \in LinkType /\ r \in Rows /\ in \in Snapshot
      /\ row[r].s \in Snapshot /\ row[r].edited \in Nat
  BY <1>1, LinkTyped, PageTyped, Typed DEF RowType
<1>3. m.s \in Snapshot /\ m.rev \in Nat /\ m.left \in [Ops -> OpType]
  BY <1>1, MergeTyped
<1>4. y \in {"synced", "pending"}
  OBVIOUS
<1>5. /\ saved' = saved \/ saved' = saved \cup Values(row[r].s) \cup Values(in)
      /\ link' = [link EXCEPT !.common = in, !.tomb = FALSE,
                              !.seen = pl[p].gen,
                              !.synced = IF m.s = in THEN m.rev ELSE @]
      /\ \/ Leaves(after, m.left)
         \/ Room(m.left) /\ Leaves(after, Enqueued(m.left, next))
  BY DEF PageOfDirty
<1>6. next \in OpType
  <2>1. (IF Live(row[r].s) THEN "update" ELSE "delete")
          \in {"create", "update", "delete"}
    OBVIOUS
  <2> HIDE DEF m, r, in
  <2> QED BY <1>2, <1>3, <2>1, QueuedTyped
<1>7. after \in [Rows -> RowType]
  <2>1. after = Mixed(r, m.s, m.rev, y)
    BY DEF Mixed
  <2> HIDE DEF m, r, in, y, after
  <2> QED BY <1>2, <1>3, <1>4, <2>1, RowsLeft
<1>8. row' \in [Rows -> RowType] /\ op' \in [Ops -> OpType]
  <2> HIDE DEF m, after, next
  <2> QED BY <1>3, <1>5, <1>6, <1>7, EnqueuedTyped, LeavesTyped, Typed
<1>9. link' \in LinkType
  <2>1. (IF m.s = in THEN m.rev ELSE link.synced) \in Nat /\ pl[p].gen \in Nat
    <3> HIDE DEF m, in
    <3> QED BY <1>2, <1>3, PageTyped DEF LinkType
  <2>2. link' = [link EXCEPT !.common = in, !.tomb = FALSE, !.seen = pl[p].gen,
                   !.synced = IF m.s = in THEN m.rev ELSE link.synced]
    BY <1>5
  <2> HIDE DEF m, in
  <2> QED BY <1>2, <2>1, <2>2 DEF LinkType
<1>10. saved' \subseteq Nat
  <2> HIDE DEF r, in
  <2> QED BY <1>2, <1>5, SavedTyped DEF TypeOK
<1> QED BY <1>8, <1>9, <1>10

LEMMA SavePageTyped ==
    ASSUME TypeOK, Stages, NEW p \in Pullers, SavePage(p)
    PROVE  /\ row' \in [Rows -> RowType] /\ op' \in [Ops -> OpType]
           /\ link' \in LinkType \cup {None} /\ saved' \subseteq Nat
           /\ keys' \subseteq Nat \X Nat
<1>1. pl[p].tok \in Nat \ {0} /\ pl[p].gen \in Nat /\ pl[p].got.s \in Snapshot
  BY PageTyped DEF SavePage, Saves, Stages
<1>2. row \in [Rows -> RowType] /\ op \in [Ops -> OpType] /\ Own \in Rows
      /\ saved \subseteq Nat /\ keys \subseteq Nat \X Nat
  BY Typed DEF TypeOK
<1>3. CASE PageWithout(p) /\ keys' = keys
  BY <1>2, <1>3, LeavesTyped, Typed DEF PageWithout
<1>4. CASE PageOfUnlinked(p) /\ keys' = keys
  <2>1. Twin \in Rows
    BY DEF Rows
  <2>2. link' \in LinkType
    BY <1>1, <1>4, <2>1 DEF PageOfUnlinked, LinkType
  <2>3. [NoRow EXCEPT !.on = TRUE, !.google = TRUE, !.sync = "synced",
                      !.rev = 1, !.s = pl[p].got.s] \in RowType
    BY <1>1 DEF NoRow, RowType
  <2>4. [row EXCEPT ![Twin] =
           [NoRow EXCEPT !.on = TRUE, !.google = TRUE, !.sync = "synced",
                         !.rev = 1, !.s = pl[p].got.s]] \in [Rows -> RowType]
    BY <1>2, <2>3
  <2> QED BY <1>2, <1>4, <2>2, <2>4, LeavesTyped DEF PageOfUnlinked
<1>5. CASE PageOfDeleted(p) /\ keys' = keys
  <2> DEFINE r   == link.ev
             rev == row[r].rev + (IF Live(row[r].s) THEN 1 ELSE 0)
             after == [row EXCEPT ![r].s[Status] = 1, ![r].sync = "synced",
                                  ![r].rev = rev]
  <2>1. link \in LinkType /\ r \in Rows
    BY <1>5, LinkTyped DEF PageOfDeleted, Missing
  <2>2. rev \in Nat /\ row[r].s \in Snapshot
    BY <1>2, <2>1 DEF RowType
  <2>3. /\ saved' = saved \/ saved' = saved \cup Values(row[r].s)
        /\ Leaves(after, Cancelled) \/ Leaves(after, op)
        /\ link' = [link EXCEPT !.common = Blank, !.synced = rev,
                                !.tomb = TRUE, !.seen = pl[p].gen]
    BY <1>5 DEF PageOfDeleted
  <2> HIDE DEF r, rev
  <2>4. after \in [Rows -> RowType]
    BY <2>1, <2>2, RowCancelled
  <2>5. row' \in [Rows -> RowType] /\ op' \in [Ops -> OpType]
    <3> HIDE DEF after
    <3> QED BY <1>2, <2>3, <2>4, CancelledTyped, LeavesTyped
  <2>6. link' \in LinkType
    BY <1>1, <2>1, <2>2, <2>3, BlankTyped DEF LinkType
  <2> QED BY <1>2, <1>5, <2>2, <2>3, <2>5, <2>6, SavedTyped
<1>6. CASE PageOfClean(p) /\ keys' = keys
  <2> DEFINE r   == link.ev
             in  == pl[p].got.s
             rev == row[r].rev + (IF Changed(link.common, in) = {} THEN 0 ELSE 1)
             after == [row EXCEPT ![r].s = in, ![r].google = TRUE,
                                  ![r].sync = "synced", ![r].rev = rev]
  <2>1. link \in LinkType /\ r \in Rows
    BY <1>6, LinkTyped DEF PageOfClean
  <2>2. rev \in Nat
    BY <1>2, <2>1 DEF RowType
  <2>3. /\ Leaves(after, op)
        /\ link' = [link EXCEPT !.common = in, !.synced = rev, !.tomb = FALSE,
                                !.seen = pl[p].gen]
        /\ saved' = saved
    BY <1>6 DEF PageOfClean
  <2> HIDE DEF r, rev
  <2>4. after \in [Rows -> RowType]
    <3>1. after = Cleaned(r, in, rev)
      BY DEF Cleaned
    <3> HIDE DEF after, in
    <3> QED BY <1>1, <2>1, <2>2, <3>1, RowsLeft DEF in
  <2>5. row' \in [Rows -> RowType] /\ op' \in [Ops -> OpType]
    <3> HIDE DEF after
    <3> QED BY <1>2, <2>3, <2>4, LeavesTyped
  <2>6. link' \in LinkType
    BY <1>1, <2>1, <2>2, <2>3 DEF LinkType
  <2> QED BY <1>2, <1>6, <2>3, <2>5, <2>6
<1>7. CASE PageOfDirty(p)
  <2>1. keys' = keys \/ keys' = keys \cup {Merge(p).key}
    BY <1>7 DEF PageOfDirty
  <2>2. Merge(p).key = <<pl[p].tok - 1, Merge(p).rev>>
    BY DEF Merge
  <2>3. Merge(p).rev \in Nat
    BY <1>7, MergeTyped DEF PageOfDirty, Meets
  <2>4. keys' \subseteq Nat \X Nat
    BY <1>1, <1>2, <2>1, <2>2, <2>3
  <2> QED BY <1>7, <2>4, DirtyTyped
<1> QED BY <1>3, <1>4, <1>5, <1>6, <1>7 DEF SavePage

LEMMA PullTyped ==
    ASSUME TypeOK, Stages, NEW p \in Pullers, Pull(p), Record PROVE TypeOK'
<1>1. row \in [Rows -> RowType] /\ remote \in CopyType /\ pl[p] \in PullType
      /\ pl \in [Pullers -> PullType] /\ bind \in BindType
  BY Typed
<1>2. CASE ClaimPull(p)
  <2>1. [Resting EXCEPT !.pc = "claimed", !.full = (bind.tok = 0),
                        !.gen = bind.gen, !.tok = bind.tok] \in PullType
    BY <1>1, BlankTyped DEF Resting, Unlisted, PullType, PageType, BindType
  <2>2. bind' \in BindType
    BY <1>1, <1>2 DEF ClaimPull, BindType
  <2>3. pl' \in [Pullers -> PullType]
    BY <1>1, <1>2, <2>1 DEF ClaimPull
  <2> QED BY <1>1, <1>2, <2>2, <2>3, RecordTyped DEF ClaimPull, TypeOK
<1>3. CASE List(p)
  <2> DEFINE seen == [at |-> remote.at, upd |-> remote.upd,
                      s |-> IF remote.at = "gone" THEN Blank ELSE remote.s]
             got  == IF remote.at = "none"
                        \/ (~pl[p].full /\ remote.etag < pl[p].tok)
                     THEN Unlisted ELSE seen
  <2>1. got \in PageType
    BY <1>1, BlankTyped DEF Unlisted, PageType, CopyType
  <2>2. remote.etag + 1 \in Nat
    BY <1>1 DEF CopyType
  <2>3. pl' = [pl EXCEPT ![p].pc = "listed", ![p].tok = remote.etag + 1,
                         ![p].got = got]
    BY <1>3 DEF List
  <2> HIDE DEF got
  <2>4. [pl[p] EXCEPT !.pc = "listed", !.tok = remote.etag + 1, !.got = got]
          \in PullType
    BY <1>1, <2>1, <2>2 DEF PullType
  <2>5. pl' = [pl EXCEPT ![p] = [pl[p] EXCEPT !.pc = "listed",
                                    !.tok = remote.etag + 1, !.got = got]]
    BY <1>1, <2>3
  <2>6. pl' \in [Pullers -> PullType]
    BY <1>1, <2>4, <2>5
  <2> QED BY <1>1, <1>3, <2>6, RecordTyped DEF List, TypeOK
<1>4. CASE PullGivesUp(p) \/ PageRefused(p)
  <2>1. pl' \in [Pullers -> PullType] /\ bind' \in BindType
    BY <1>4, PullRests, Released DEF PullGivesUp, PageRefused
  <2> QED BY <1>1, <1>4, <2>1, RecordTyped DEF PullGivesUp, PageRefused, TypeOK
<1>5. CASE SavePage(p)
  <2>1. pl' \in [Pullers -> PullType]
    BY <1>5, PullRests DEF SavePage
  <2>2. pl[p].tok \in Nat
    BY PageTyped
  <2>3. bind' \in BindType
    BY <1>1, <1>5, <2>2 DEF SavePage, BindType
  <2> QED BY <1>1, <1>5, <2>1, <2>3, SavePageTyped, RecordTyped
          DEF SavePage, TypeOK
<1> QED BY <1>2, <1>3, <1>4, <1>5 DEF Pull

LEMMA FaultsTyped ==
    ASSUME TypeOK, Faults, Record PROVE TypeOK'
<1>1. row \in [Rows -> RowType] /\ remote \in CopyType
      /\ op \in [Ops -> OpType] /\ bind \in BindType
  BY Typed
<1>2. Trouble => trouble' \in 0 .. MaxTrouble
  BY Typed DEF Trouble
<1>3. ASSUME NEW w \in Workers, RequestFails(w) PROVE TypeOK'
  <2>1. wk' \in [Workers -> WorkType]
    BY <1>3, WorkRests DEF RequestFails, Rest
  <2>2. op' \in [Ops -> OpType] /\ row' \in [Rows -> RowType]
    BY <1>1, <1>3, RetriedTyped, HeldOp DEF RequestFails, Holds
  <2> QED BY <1>1, <1>2, <1>3, <2>1, <2>2, RecordTyped DEF RequestFails, TypeOK
<1>4. ASSUME NEW w \in Workers, RefusedForGood(w) PROVE TypeOK'
  <2>1. wk' \in [Workers -> WorkType]
    BY <1>4, WorkRests DEF RefusedForGood, Rest
  <2>2. op' \in [Ops -> OpType] /\ row' \in [Rows -> RowType]
    <3>1. CASE Holds(w)
      <4>1. wk[w].op \in Ops
        BY <3>1, HeldOp DEF Holds
      <4>2. op' = [op EXCEPT ![wk[w].op].st = "failed",
                             ![wk[w].op].holder = None]
            /\ RowFailed(wk[w].op)
        BY <1>4, <3>1 DEF RefusedForGood
      <4> QED BY <4>1, <4>2, OpMoved, RowFailedTyped
    <3>2. CASE ~Holds(w)
      BY <1>1, <1>4, <3>2 DEF RefusedForGood
    <3> QED BY <3>1, <3>2
  <2> QED BY <1>1, <1>2, <1>4, <2>1, <2>2, RecordTyped
          DEF RefusedForGood, TypeOK
<1>5. ASSUME NEW w \in Workers, Unauthorised(w) PROVE TypeOK'
  <2>1. wk' \in [Workers -> WorkType]
    BY <1>5, WorkRests DEF Unauthorised, Rest
  <2>2. ASSUME Holds(w)
        PROVE  op' \in [Ops -> OpType] /\ row' \in [Rows -> RowType]
               /\ bind' \in BindType
               /\ conn' = "reconnect_required"
    <3>1. ASSUME NEW o \in Ops
          PROVE  [op[o] EXCEPT !.st = "paused", !.holder = None] \in OpType
      <4>1. op[o] \in OpType
        BY Typed
      <4> QED BY <4>1 DEF OpType
    <3>2. op' = [o \in Ops |-> IF op[o].st \in {"pending", "processing"}
                               THEN [op[o] EXCEPT !.st = "paused",
                                                  !.holder = None]
                               ELSE op[o]]
      BY <1>5, <2>2 DEF Unauthorised
    <3>3. op' \in [Ops -> OpType]
      <4> HIDE DEF OpType
      <4> QED BY <1>1, <3>1, <3>2
    <3>4. ASSUME NEW r \in Rows
          PROVE  [row[r] EXCEPT !.sync = "reconnect_required"] \in RowType
      <4>1. row[r] \in RowType
        BY Typed
      <4> QED BY <4>1 DEF RowType
    <3>5. row' = [r \in Rows |-> IF Linked(r)
                                 THEN [row[r] EXCEPT
                                         !.sync = "reconnect_required"]
                                 ELSE row[r]]
      BY <1>5, <2>2 DEF Unauthorised
    <3>6. row' \in [Rows -> RowType]
      BY <1>1, <3>4, <3>5
    <3>7. bind' \in BindType /\ conn' = "reconnect_required"
      BY <1>1, <1>5, <2>2 DEF Unauthorised, BindType
    <3> QED BY <3>3, <3>6, <3>7
  <2>3. CASE Holds(w)
    BY <1>1, <1>2, <1>5, <2>1, <2>2, <2>3, RecordTyped DEF Unauthorised, TypeOK
  <2>4. CASE ~Holds(w)
    BY <1>1, <1>2, <1>5, <2>1, <2>4, RecordTyped DEF Unauthorised, TypeOK
  <2> QED BY <2>3, <2>4
<1>6. ASSUME NEW o \in Ops, ClaimExpires(o) PROVE TypeOK'
  <2>1. op' \in [Ops -> OpType]
    BY <1>6, OpReleased DEF ClaimExpires
  <2>2. op[o].holder \in Workers
    BY <1>1, <1>6 DEF ClaimExpires, OpType
  <2>3. wk' \in [Workers -> WorkType]
    BY <1>6, <2>2, WorkRests, Typed DEF ClaimExpires, Rest
  <2> QED BY <1>1, <1>2, <1>6, <2>1, <2>3, RecordTyped DEF ClaimExpires, TypeOK
<1>7. ASSUME NEW p \in Pullers, PullFails(p) PROVE TypeOK'
  <2>1. pl' \in [Pullers -> PullType]
    BY <1>7, PullRests DEF PullFails
  <2>2. bind' \in BindType
    <3>1. \/ Release(p)
          \/ bind' = [tok |-> 0, gen |-> bind.gen + 1, lease |-> None]
          \/ bind' = [bind EXCEPT !.lease = None]
      BY <1>7 DEF PullFails
    <3> QED BY <1>1, <3>1, Released DEF BindType
  <2>3. conn' \in {"connected", "reconnect_required", "disconnected"}
    BY <1>7 DEF PullFails, TypeOK
  <2> QED BY <1>1, <1>2, <1>7, <2>1, <2>2, <2>3, RecordTyped
          DEF PullFails, TypeOK
<1>8. ASSUME NEW p \in Pullers, LeaseExpires(p) PROVE TypeOK'
  <2>1. bind' \in BindType
    BY <1>1, <1>8 DEF LeaseExpires, BindType
  <2> QED BY <1>1, <1>2, <1>8, <2>1, RecordTyped DEF LeaseExpires, TypeOK
<1> QED BY <1>3, <1>4, <1>5, <1>6, <1>7, <1>8 DEF Faults

-----------------------------------------------------------------------------
(* What most steps leave alone.                                             *)

\* The same operations are queued, for the same revisions.
Keeps ==
    \A o \in Ops : IF op[o].st = "free" THEN op'[o].st = "free"
                   ELSE /\ op'[o].st # "free" /\ op'[o].kind = op[o].kind
                        /\ op'[o].rev = op[o].rev

\* No operation is claimed, and a claimed one does not change.
Steady ==
    \A o \in Ops : op'[o].st = "processing" /\ op'[o].holder # None
                       => op'[o] = op[o]

RowStays == row'[Own].rev = row[Own].rev /\ row'[Own].on = row[Own].on

WorkStays ==
    \A w \in Workers : \/ wk'[w].op = 0
                       \/ wk'[w].op = wk[w].op /\ wk'[w].kind = wk[w].kind

LEMMA Quiet ==
    ASSUME IInv, Keeps, RowStays, link' = link PROVE Unrecorded'
BY DEF IInv, Keeps, RowStays, Unrecorded, Revisions, CreateLeads

LEMMA Steadily ==
    ASSUME IInv, TypeOK', Steady, WorkStays, link # None => link' # None
    PROVE  Counted' /\ CreatedFirst'
<1>1. ASSUME NEW w \in Workers, Holds(w)'
      PROVE  op'[wk'[w].op].kind = wk'[w].kind /\ op'[wk'[w].op].tries > 0
  <2>1. /\ wk'[w].op # 0 /\ op'[wk'[w].op].st = "processing"
        /\ op'[wk'[w].op].holder = w
    BY <1>1 DEF Holds
  <2>2. wk'[w].op = wk[w].op /\ wk'[w].kind = wk[w].kind
    BY <2>1 DEF WorkStays
  <2>3. wk[w].op \in Ops
    BY <2>1, <2>2, HeldOp DEF IInv
  <2>4. op'[wk[w].op] = op[wk[w].op]
    BY <2>1, <2>2, <2>3 DEF Steady
  <2>5. Holds(w)
    BY <2>1, <2>2, <2>4 DEF Holds
  <2> QED BY <2>2, <2>4, <2>5 DEF IInv, Counted
<1>2. CreatedFirst'
  BY DEF IInv, CreatedFirst, WorkStays
<1> QED BY <1>1, <1>2 DEF Counted

LEMMA Stays ==
    ASSUME TypeOK
    PROVE  /\ op' = op => Keeps /\ Steady
           /\ row' = row => RowStays
           /\ wk' = wk => WorkStays
BY DEF Keeps, Steady, RowStays, WorkStays

\* An operation that is put back, or given up.
LEMMA PutBack ==
    ASSUME TypeOK, NEW o \in Ops, op[o].st # "free",
           NEW st \in {"pending", "paused", "failed", "exhausted"}, NEW n
    PROVE  /\ op' = [op EXCEPT ![o].st = st, ![o].holder = None]
                => Keeps /\ Steady
           /\ op' = [op EXCEPT ![o].st = st, ![o].tries = n] => Keeps /\ Steady
           /\ op' = [op EXCEPT ![o].st = st, ![o].holder = None,
                               ![o].tries = n] => Keeps /\ Steady
           /\ op' = [op EXCEPT ![o].holder = None] => Keeps /\ Steady
<1>1. op \in [Ops -> OpType]
  BY Typed
<1>2. /\ op' = [op EXCEPT ![o].st = st, ![o].holder = None]
           => Keeps /\ Steady
      /\ op' = [op EXCEPT ![o].st = st, ![o].tries = n] => Keeps /\ Steady
  BY <1>1 DEF Keeps, Steady, OpType
<1>3. /\ op' = [op EXCEPT ![o].st = st, ![o].holder = None,
                          ![o].tries = n] => Keeps /\ Steady
      /\ op' = [op EXCEPT ![o].holder = None] => Keeps /\ Steady
  BY <1>1 DEF Keeps, Steady, OpType
<1> QED BY <1>2, <1>3

LEMMA SyncOnly ==
    ASSUME TypeOK, NEW y, row' = [row EXCEPT ![Own].sync = y] PROVE RowStays
BY Typed DEF RowStays, RowType

LEMMA FailedStays ==
    ASSUME TypeOK, NEW o, RowFailed(o) PROVE RowStays
BY SyncOnly DEF RowFailed

LEMMA RetriedKeeps ==
    ASSUME TypeOK, NEW o \in Ops, op[o].st # "free", Retried(o)
    PROVE  Keeps /\ Steady /\ RowStays
<1>1. CASE op[o].tries >= Budget
  BY <1>1, PutBack, FailedStays DEF Retried
<1>2. CASE ~(op[o].tries >= Budget)
  BY <1>2, PutBack, Stays DEF Retried
<1> QED BY <1>1, <1>2

LEMMA WorkMoves ==
    ASSUME TypeOK, NEW w \in Workers
    PROVE  /\ \A c : wk' = [wk EXCEPT ![w].pc = c] => WorkStays
           /\ Rest(w) => WorkStays
           /\ \A c, n, s : wk' = [wk EXCEPT ![w].pc = c, ![w].etag = n,
                                           ![w].put = s] => WorkStays
           /\ \A c, n : wk' = [wk EXCEPT ![w].pc = c, ![w].etag = n]
                           => WorkStays
           /\ \A c, s : wk' = [wk EXCEPT ![w].pc = c, ![w].put = s]
                           => WorkStays
<1>1. wk \in [Workers -> WorkType]
  BY Typed
<1>2. Rest(w) => WorkStays
  BY <1>1 DEF Rest, Idle, WorkStays
<1>3. ASSUME NEW c PROVE wk' = [wk EXCEPT ![w].pc = c] => WorkStays
  BY <1>1 DEF WorkStays, WorkType
<1>4. ASSUME NEW c, NEW n, NEW s
      PROVE  wk' = [wk EXCEPT ![w].pc = c, ![w].etag = n, ![w].put = s]
               => WorkStays
  BY <1>1 DEF WorkStays, WorkType
<1>5. ASSUME NEW c, NEW n
      PROVE  wk' = [wk EXCEPT ![w].pc = c, ![w].etag = n] => WorkStays
  BY <1>1 DEF WorkStays, WorkType
<1>6. ASSUME NEW c, NEW s
      PROVE  wk' = [wk EXCEPT ![w].pc = c, ![w].put = s] => WorkStays
  BY <1>1 DEF WorkStays, WorkType
<1> QED BY <1>2, <1>3, <1>4, <1>5, <1>6

-----------------------------------------------------------------------------
(* Each step keeps the invariant.                                           *)

LEMMA StagesRest ==
    ASSUME TypeOK, Stages,
           wk' = wk \/ \E w \in Workers : Rest(w),
           pl' = pl \/ \E p \in Pullers : Stop(p)
    PROVE  Stages'
<1>1. wk \in [Workers -> WorkType] /\ pl \in [Pullers -> PullType]
  BY Typed
<1>2. \A v \in Workers : wk'[v] = wk[v] \/ wk'[v] = Idle
  BY <1>1 DEF Rest
<1>3. \A q \in Pullers : pl'[q] = pl[q] \/ pl'[q] = Resting
  BY <1>1 DEF Stop
<1> QED BY <1>2, <1>3 DEF Stages, Idle, Resting

LEMMA EditKeeps ==
    ASSUME IInv, NEW f \in Fields, EditEvent(f)
    PROVE  Unrecorded' /\ Steady
<1> DEFINE now   == Clock + 1
           rev   == row[Own].rev + 1
           after == [row[Own].s EXCEPT ![f] = IF f = Status THEN 1 ELSE now]
           next  == Queued(IF f = Status THEN "delete" ELSE "update",
                           rev, after, now, row[Own].s)
<1>1. /\ row[Own].on /\ link' = link
      /\ row' = [row EXCEPT ![Own].google = Queues,
                            ![Own].sync = IF Queues THEN "pending" ELSE "local",
                            ![Own].rev = rev, ![Own].edited = now,
                            ![Own].s = after]
      /\ IF Queues THEN Room(op) /\ op' = Enqueued(op, next) ELSE op' = op
  BY DEF EditEvent
<1>2. next.st = "pending" /\ next.kind \in {"update", "delete"}
      /\ next.rev = rev /\ next.holder = None
  BY DEF Queued
<1>3. row \in [Rows -> RowType] /\ op \in [Ops -> OpType] /\ Own \in Rows
  BY Typed DEF IInv
<1> HIDE DEF after, next, now
<1>4. row'[Own].rev = rev /\ row'[Own].on
  BY <1>1, <1>3 DEF RowType
<1>5. row[Own].rev \in Nat /\ \A o \in Ops : op[o].rev \in Nat
  BY <1>3 DEF RowType, OpType
<1>6. ASSUME Queues
      PROVE  \E o \in Ops : op[o].st = "free" /\ op' = [op EXCEPT ![o] = next]
  BY <1>1, <1>6 DEF Room, Enqueued
<1>7. link = None => Revisions'
  BY <1>1, <1>2, <1>3, <1>4, <1>5, <1>6 DEF Revisions, Unrecorded, IInv
<1>8. link = None => CreateLeads'
  <2>1. CASE Queues /\ link = None
    <3>1. PICK q \in Ops : op[q].kind = "create"
                            /\ op[q].st \in {"pending", "processing", "paused"}
      BY <2>1 DEF Queues, Linked
    <3>2. op[q].rev < rev
      BY <1>5, <2>1, <3>1 DEF Revisions, Unrecorded, IInv
    <3>3. PICK o \in Ops : op[o].st = "free" /\ op' = [op EXCEPT ![o] = next]
      BY <1>6, <2>1
    <3>4. q # o /\ op'[q] = op[q] /\ op'[o] = next
      BY <1>3, <3>1, <3>3
    <3>5. ASSUME NEW x \in Ops, op'[x].st # "free", op'[x].kind # "create"
          PROVE  \E z \in Ops : /\ op'[z].st # "free" /\ op'[z].kind = "create"
                                /\ op'[z].rev < op'[x].rev
      <4>1. CASE x = o
        BY <1>2, <3>1, <3>2, <3>4, <4>1
      <4>2. CASE x # o
        <5>1. op'[x] = op[x]
          BY <1>3, <3>3, <4>2
        <5>2. PICK z \in Ops : /\ op[z].st # "free" /\ op[z].kind = "create"
                               /\ op[z].rev < op[x].rev
          BY <2>1, <3>5, <5>1 DEF IInv, Unrecorded, CreateLeads
        <5>3. op'[z] = op[z]
          BY <1>3, <3>3, <5>2
        <5> QED BY <5>1, <5>2, <5>3
      <4> QED BY <4>1, <4>2
    <3> QED BY <3>5 DEF CreateLeads
  <2>2. CASE ~Queues
    BY <1>1, <2>2 DEF IInv, Unrecorded, CreateLeads
  <2> QED BY <2>1, <2>2
<1>9. Steady
  BY <1>1, <1>2, <1>3, <1>6 DEF Steady
<1> QED BY <1>1, <1>7, <1>8, <1>9 DEF Unrecorded

LEMMA CreateKeeps ==
    ASSUME IInv, CreateEvent PROVE Unrecorded' /\ Steady
<1> DEFINE next == Queued("create", 1, Fresh, Clock, Fresh)
<1>1. row \in [Rows -> RowType] /\ op \in [Ops -> OpType] /\ Own \in Rows
  BY Typed DEF IInv
<1>2. next.st = "pending" /\ next.kind = "create" /\ next.rev = 1
      /\ next.holder = None
  BY DEF Queued
<1>3. link = None => \A o \in Ops : op[o].st = "free"
  BY DEF CreateEvent, IInv, Unrecorded, Revisions
<1>4. row'[Own].on /\ row'[Own].rev = 1
  BY <1>1 DEF CreateEvent, NoRow
<1>5. \E o \in Ops : op' = [op EXCEPT ![o] = next]
  BY DEF CreateEvent, Enqueued, Room
<1> HIDE DEF next
<1>6. link' = link
  BY DEF CreateEvent
<1>7. Unrecorded' /\ Steady
  BY <1>1, <1>2, <1>3, <1>4, <1>5, <1>6
     DEF Unrecorded, Revisions, CreateLeads, Steady
<1> QED BY <1>7

LEMMA UserKeeps ==
    ASSUME IInv, TypeOK', User PROVE IInv'
<1> USE DEF IInv
<1>1. wk' = wk /\ pl' = pl /\ link' = link
  BY DEF User, CreateEvent, EditEvent, RemoteEdit, RetryFailed
<1>2. Stages' /\ WorkStays
  BY <1>1, StagesRest, Stays
<1>3. Unrecorded' /\ Steady
  <2>1. ASSUME NEW o \in Ops, RetryFailed(o) PROVE Unrecorded' /\ Steady
    <3>1. op' = op \/ op' = [op EXCEPT ![o].st = "pending", ![o].tries = 0]
      BY <2>1 DEF RetryFailed
    <3>2. op[o].st # "free"
      BY <2>1 DEF RetryFailed
    <3>3. RowStays
      BY <2>1, SyncOnly DEF RetryFailed
    <3> QED BY <1>1, <3>1, <3>2, <3>3, Stays, PutBack, Quiet
  <2>2. ASSUME NEW f \in Fields, RemoteEdit(f) PROVE Unrecorded' /\ Steady
    BY <2>2, Stays, Quiet DEF RemoteEdit
  <2> QED BY <2>1, <2>2, CreateKeeps, EditKeeps DEF User
<1>4. Counted' /\ CreatedFirst'
  BY <1>1, <1>2, <1>3, Steadily
<1> QED BY <1>2, <1>3, <1>4

LEMMA DetachedStays ==
    ASSUME TypeOK
    PROVE  /\ row' = Detached => RowStays
           /\ row' = [Detached EXCEPT ![Own].google = TRUE,
                                      ![Own].sync = "pending"] => RowStays
<1>1. row \in [Rows -> RowType] /\ Own \in Rows
  BY Typed
<1>2. Detached[Own].rev = row[Own].rev /\ Detached[Own].on = row[Own].on
  BY <1>1 DEF Detached, RowType
<1>3. Detached \in [Rows -> RowType]
  BY DetachedTyped
<1>4. [Detached EXCEPT ![Own].google = TRUE, ![Own].sync = "pending"][Own].rev
        = Detached[Own].rev
      /\ [Detached EXCEPT ![Own].google = TRUE, ![Own].sync = "pending"][Own].on
           = Detached[Own].on
  <2> HIDE DEF Detached
  <2> QED BY <1>1, <1>3 DEF RowType
<1> QED BY <1>2, <1>4 DEF RowStays

LEMMA ConnectionKeeps ==
    ASSUME IInv, TypeOK', Connection PROVE IInv'
<1> USE DEF IInv
<1>1. wk' = wk /\ pl' = pl /\ link' = link
  BY DEF Connection, Disconnect, Reconnect, Resync
<1>2. Stages' /\ WorkStays
  BY <1>1, StagesRest, Stays
<1>3. op \in [Ops -> OpType] /\ row \in [Rows -> RowType] /\ Own \in Rows
  BY Typed
<1>4. Unrecorded' /\ Steady
  <2>1. CASE Disconnect
    <3>1. op' = Paused /\ RowStays
      BY <2>1, DetachedStays DEF Disconnect
    <3>2. ASSUME NEW o \in Ops
          PROVE  \/ op[o].st = "free" /\ op'[o] = Free
                 \/ /\ op[o].st # "free" /\ op'[o].st = "paused"
                    /\ op'[o].kind = op[o].kind /\ op'[o].rev = op[o].rev
      <4>1. op[o] \in OpType
        BY <1>3
      <4>2. op'[o] = IF op[o].st = "free" THEN Free
                     ELSE [op[o] EXCEPT !.st = "paused", !.holder = None]
        BY <3>1 DEF Paused
      <4> QED BY <4>1, <4>2 DEF OpType
    <3>3. Keeps /\ Steady
      BY <3>2 DEF Keeps, Steady, Free
    <3> QED BY <1>1, <3>1, <3>3, Quiet
  <2>2. CASE Reconnect
    <3>1. RowStays
      <4>1. row' = Detached
            \/ row' = [Detached EXCEPT ![Own].google = TRUE,
                                       ![Own].sync = "pending"]
        BY <2>2 DEF Reconnect
      <4> QED BY <4>1, DetachedStays
    <3>2. \A o \in Ops :
             \/ op'[o] = Free
             \/ /\ op[o].st # "free" /\ op[o].kind = "create"
                /\ op'[o] = [op[o] EXCEPT !.st = "pending", !.holder = None,
                               !.want = row[Own].s, !.rev = row[Own].rev,
                               !.edited = row[Own].edited]
      BY <2>2 DEF Reconnect, Cancelled
    <3>3. ASSUME NEW o \in Ops
          PROVE  \/ op'[o] = Free
                 \/ /\ op[o].st # "free" /\ op'[o].st = "pending"
                    /\ op'[o].kind = "create" /\ op'[o].holder = None
                    /\ op'[o].rev = row[Own].rev
      <4>1. op[o] \in OpType
        BY <1>3
      <4> DEFINE x == [op[o] EXCEPT !.st = "pending", !.holder = None,
                         !.want = row[Own].s, !.rev = row[Own].rev,
                         !.edited = row[Own].edited]
      <4>2. x.st = "pending" /\ x.kind = op[o].kind /\ x.holder = None
            /\ x.rev = row[Own].rev
        BY <4>1 DEF OpType
      <4> HIDE DEF x
      <4> QED BY <3>2, <4>2 DEF x
    <3>4. row[Own].rev \in Nat
      BY <1>3 DEF RowType
    <3>5. Steady
      BY <3>3 DEF Steady, Free
    <3>6. \A o \in Ops : op'[o].st = "free" \/ (op[o].st # "free"
             /\ op'[o].kind = "create" /\ op'[o].rev = row[Own].rev)
      BY <3>3 DEF Free
    <3>7. link = None => Revisions' /\ CreateLeads'
      BY <3>1, <3>4, <3>6
         DEF Unrecorded, Revisions, CreateLeads, RowStays
    <3> QED BY <1>1, <3>5, <3>7 DEF Unrecorded
  <2>3. CASE Resync
    BY <2>3, Stays, Quiet DEF Resync
  <2> QED BY <2>1, <2>2, <2>3 DEF Connection
<1>5. Counted' /\ CreatedFirst'
  BY <1>1, <1>2, <1>4, Steadily
<1> QED BY <1>2, <1>4, <1>5

LEMMA Dropped ==
    ASSUME op' = Cancelled PROVE Steady
BY DEF Steady, Cancelled, Free

LEMMA HonourKeeps ==
    ASSUME IInv, NEW w \in Workers, CanSend(w), link # None, HonourDeletion(w),
           pl' = pl
    PROVE  Unrecorded' /\ Steady /\ WorkStays /\ Stages' /\ link' # None
<1> USE DEF IInv
<1>1. op' = Cancelled /\ Rest(w)
      /\ row' = [row EXCEPT ![Own].s[Status] = 1, ![Own].sync = "synced",
                            ![Own].rev = row[Own].rev + 1]
      /\ link' = [link EXCEPT !.common = Blank, !.tomb = TRUE]
  BY DEF HonourDeletion
<1>2. link' # None
  <2>1. link' \in LinkType
    BY <1>1, LinkTyped, BlankTyped DEF LinkType
  <2> QED BY <2>1, LinkAssumption
<1>3. Unrecorded' /\ Steady
  BY <1>1, <1>2, Dropped DEF Unrecorded
<1> QED BY <1>1, <1>2, <1>3, WorkMoves, StagesRest

\* Steps of a worker that change the stage only.
LEMMA StagesMove ==
    ASSUME TypeOK, Stages, NEW w \in Workers, wk[w].op # 0, pl' = pl,
           wk' \in [Workers -> WorkType],
           \A v \in Workers \ {w} : wk'[v] = wk[v],
           wk'[w].op = wk[w].op /\ wk'[w].kind = wk[w].kind,
           wk'[w].pc = "stale" => wk[w].kind = "update"
    PROVE  Stages'
BY DEF Stages

LEMMA ClaimKeeps ==
    ASSUME IInv, TypeOK', NEW w \in Workers, NEW o \in Ops, Claim(w, o)
    PROVE  IInv'
<1> USE DEF IInv
<1>1. link' = link /\ pl' = pl /\ wk[w] = Idle /\ Claimable(o)
  BY DEF Claim
<1>2. op[o].st \in {"pending", "processing"}
  BY <1>1 DEF Claimable
<1>3. op \in [Ops -> OpType] /\ wk \in [Workers -> WorkType]
  BY Typed
<1>4. CASE op[o].tries = Budget
  <2>1. op' = [op EXCEPT ![o].st = "exhausted", ![o].holder = None]
        /\ RowFailed(o) /\ wk' = wk
    BY <1>4 DEF Claim
  <2>2. Keeps /\ Steady /\ RowStays /\ WorkStays /\ Stages'
    BY <1>1, <1>2, <2>1, PutBack, FailedStays, Stays, StagesRest
  <2>3. Unrecorded' /\ Counted' /\ CreatedFirst'
    BY <1>1, <2>2, Quiet, Steadily
  <2> QED BY <2>2, <2>3
<1>5. CASE op[o].tries # Budget
  <2>1. op' = [op EXCEPT ![o].st = "processing", ![o].holder = w,
                         ![o].tries = op[o].tries + 1]
        /\ wk' = [wk EXCEPT ![w] = [Idle EXCEPT !.pc = "claimed", !.op = o,
                                                !.kind = op[o].kind]]
        /\ row' = row
    BY <1>5 DEF Claim
  <2>2. /\ op'[o].kind = op[o].kind /\ op'[o].rev = op[o].rev
        /\ op'[o].st = "processing" /\ op'[o].holder = w
        /\ op'[o].tries = op[o].tries + 1
        /\ \A q \in Ops \ {o} : op'[q] = op[q]
    BY <1>3, <2>1 DEF OpType
  <2>3. /\ wk'[w].pc = "claimed" /\ wk'[w].op = o /\ wk'[w].kind = op[o].kind
        /\ \A v \in Workers \ {w} : wk'[v] = wk[v]
    BY <1>3, <2>1 DEF Idle
  <2>4. Keeps /\ RowStays
    BY <1>2, <2>1, <2>2 DEF Keeps, RowStays
  <2>5. Unrecorded'
    BY <1>1, <2>4, Quiet
  <2>6. Stages'
    BY <1>1, <2>3 DEF Stages
  <2>7. op[o].tries \in 0 .. Budget
    BY <1>3 DEF OpType
  <2>8. Counted'
    <3>1. ASSUME NEW v \in Workers, Holds(v)'
          PROVE  op'[wk'[v].op].kind = wk'[v].kind /\ op'[wk'[v].op].tries > 0
      <4>1. CASE v = w
        BY <2>2, <2>3, <2>7, <4>1
      <4>2. CASE v # w
        <5>1. wk'[v] = wk[v] /\ wk[v].op # 0 /\ op'[wk[v].op].holder = v
              /\ op'[wk[v].op].st = "processing"
          BY <2>3, <3>1, <4>2 DEF Holds
        <5>2. wk[v].op \in Ops /\ wk[v].op # o
          BY <2>2, <4>2, <5>1, HeldOp
        <5>3. op'[wk[v].op] = op[wk[v].op]
          BY <2>2, <5>2
        <5> QED BY <5>1, <5>3 DEF Counted, Holds
      <4> QED BY <4>1, <4>2
    <3> QED BY <3>1 DEF Counted
  <2>9. CreatedFirst'
    <3>1. ASSUME op[o].kind # "create", link = None PROVE FALSE
      <4>1. PICK q \in Ops : op[q].st # "free" /\ op[q].rev < op[o].rev
        BY <1>2, <3>1 DEF Unrecorded, CreateLeads
      <4>2. op[q].rev >= op[o].rev
        BY <1>1, <4>1 DEF Claimable
      <4>3. op[q].rev \in Nat /\ op[o].rev \in Nat
        BY <1>3 DEF OpType
      <4> QED BY <4>1, <4>2, <4>3
    <3> QED BY <1>1, <2>3, <3>1 DEF CreatedFirst
  <2> QED BY <2>5, <2>6, <2>8, <2>9
<1> QED BY <1>4, <1>5

LEMMA StageOnly ==
    ASSUME TypeOK, NEW w \in Workers,
           \/ \E c : wk' = [wk EXCEPT ![w].pc = c]
           \/ \E c, n, s : wk' = [wk EXCEPT ![w].pc = c, ![w].etag = n,
                                            ![w].put = s]
           \/ \E c, n : wk' = [wk EXCEPT ![w].pc = c, ![w].etag = n]
           \/ \E c, s : wk' = [wk EXCEPT ![w].pc = c, ![w].put = s]
    PROVE  wk'[w].op = wk[w].op /\ wk'[w].kind = wk[w].kind
<1>1. wk \in [Workers -> WorkType] /\ wk[w] \in WorkType
  BY Typed
<1>2. CASE \E c : wk' = [wk EXCEPT ![w].pc = c]
  <2>1. PICK c : wk' = [wk EXCEPT ![w].pc = c]
    BY <1>2
  <2> DEFINE x == [wk[w] EXCEPT !.pc = c]
  <2>2. wk'[w] = x
    BY <1>1, <2>1
  <2>3. x.op = wk[w].op /\ x.kind = wk[w].kind
    BY <1>1 DEF WorkType
  <2> HIDE DEF WorkType, x
  <2> QED BY <2>2, <2>3
<1>3. CASE \E c, n, s : wk' = [wk EXCEPT ![w].pc = c, ![w].etag = n, ![w].put = s]
  <2>1. PICK c, n, s : wk' = [wk EXCEPT ![w].pc = c, ![w].etag = n, ![w].put = s]
    BY <1>3
  <2> DEFINE x == [wk[w] EXCEPT !.pc = c, !.etag = n, !.put = s]
  <2>2. wk'[w] = x
    BY <1>1, <2>1
  <2>3. x.op = wk[w].op /\ x.kind = wk[w].kind
    BY <1>1 DEF WorkType
  <2> HIDE DEF WorkType, x
  <2> QED BY <2>2, <2>3
<1>4. CASE \E c, n : wk' = [wk EXCEPT ![w].pc = c, ![w].etag = n]
  <2>1. PICK c, n : wk' = [wk EXCEPT ![w].pc = c, ![w].etag = n]
    BY <1>4
  <2> DEFINE x == [wk[w] EXCEPT !.pc = c, !.etag = n]
  <2>2. wk'[w] = x
    BY <1>1, <2>1
  <2>3. x.op = wk[w].op /\ x.kind = wk[w].kind
    BY <1>1 DEF WorkType
  <2> HIDE DEF WorkType, x
  <2> QED BY <2>2, <2>3
<1>5. CASE \E c, s : wk' = [wk EXCEPT ![w].pc = c, ![w].put = s]
  <2>1. PICK c, s : wk' = [wk EXCEPT ![w].pc = c, ![w].put = s]
    BY <1>5
  <2> DEFINE x == [wk[w] EXCEPT !.pc = c, !.put = s]
  <2>2. wk'[w] = x
    BY <1>1, <2>1
  <2>3. x.op = wk[w].op /\ x.kind = wk[w].kind
    BY <1>1 DEF WorkType
  <2> HIDE DEF WorkType, x
  <2> QED BY <2>2, <2>3
<1> QED BY <1>2, <1>3, <1>4, <1>5

\* A worker's step that leaves the queue alone.
LEMMA QuietWork ==
    ASSUME IInv, TypeOK', NEW w \in Workers, wk[w].op # 0, op' = op,
           row' = row, link' = link, pl' = pl,
           \/ Rest(w)
           \/ \E c : wk' = [wk EXCEPT ![w].pc = c]
           \/ \E c, n, s : wk' = [wk EXCEPT ![w].pc = c, ![w].etag = n,
                                            ![w].put = s]
           \/ \E c, n : wk' = [wk EXCEPT ![w].pc = c, ![w].etag = n]
           \/ \E c, s : wk' = [wk EXCEPT ![w].pc = c, ![w].put = s],
           wk'[w].pc = "stale" => wk[w].kind = "update"
    PROVE  IInv'
<1> USE DEF IInv
<1>1. WorkStays
  BY WorkMoves
<1>2. Unrecorded' /\ Counted' /\ CreatedFirst'
  BY <1>1, Stays, Quiet, Steadily
<1>3. wk \in [Workers -> WorkType] /\ wk' \in [Workers -> WorkType]
  BY Typed DEF TypeOK
<1>4. CASE Rest(w)
  BY <1>2, <1>4, StagesRest
<1>5. CASE ~Rest(w)
  <2>1. \A v \in Workers \ {w} : wk'[v] = wk[v]
    BY <1>3, <1>5 DEF WorkType
  <2>2. wk'[w].op = wk[w].op /\ wk'[w].kind = wk[w].kind
    BY <1>5, StageOnly
  <2>3. Stages'
    BY <1>3, <2>1, <2>2, StagesMove
  <2> QED BY <1>2, <2>3
<1> QED BY <1>4, <1>5

LEMMA CompleteKeeps ==
    ASSUME IInv, TypeOK', NEW w \in Workers, Complete(w) PROVE IInv'
<1> USE DEF IInv
<1> DEFINE o == wk[w].op
<1>1. Rest(w) /\ pl' = pl
  BY DEF Complete
<1>2. op \in [Ops -> OpType] /\ row \in [Rows -> RowType] /\ Own \in Rows
  BY Typed
<1>3. CASE ~CanSend(w)
  <2>1. wk[w].op # 0
    BY DEF Complete, Stages
  <2>2. op' = op /\ link' = link /\ row' = row
    BY <1>3 DEF Complete
  <2>3. WorkStays /\ Stages'
    BY <1>1, WorkMoves, StagesRest
  <2>4. Unrecorded' /\ Counted' /\ CreatedFirst'
    BY <2>2, <2>3, Stays, Quiet, Steadily
  <2> QED BY <2>3, <2>4
<1>4. CASE CanSend(w)
  <2>1. WorkStays /\ Stages'
    BY <1>1, WorkMoves, StagesRest
  <2>2. o \in Ops /\ op[o].st # "free" /\ op[o].kind = wk[w].kind
    BY <1>4, HeldOp DEF CanSend, Holds, Counted
  <2>4. op[o].rev \in Nat
    BY <1>2, <2>2 DEF OpType
  <2>5. CASE wk[w].kind = "delete"
    <3>1. CompleteDelete(w)
      BY <1>4, <2>5 DEF Complete
    <3>2. link # None
      BY <2>2, <2>5 DEF CreatedFirst
    <3>3. link' # None
      <4>1. CASE Linked(Own)
        <5>1. link' = [link EXCEPT !.common = op[o].want, !.synced = op[o].rev,
                                   !.tomb = TRUE]
          BY <3>1, <4>1 DEF CompleteDelete
        <5>2. link \in LinkType /\ op[o].want \in Snapshot
          BY <1>2, <2>2, <3>2, LinkTyped DEF OpType
        <5>3. link' \in LinkType
          BY <2>4, <5>1, <5>2 DEF LinkType
        <5> QED BY <5>3, LinkAssumption
      <4>2. CASE ~Linked(Own)
        BY <3>1, <3>2, <4>2 DEF CompleteDelete
      <4> QED BY <4>1, <4>2
    <3>4. op' = Cancelled
      BY <3>1 DEF CompleteDelete
    <3>5. Unrecorded' /\ Steady
      BY <3>3, <3>4, Dropped DEF Unrecorded
    <3>6. Counted' /\ CreatedFirst'
      BY <2>1, <3>3, <3>5, Steadily
    <3> QED BY <2>1, <3>5, <3>6
  <2>6. CASE wk[w].kind # "delete"
    <3> DEFINE agreed == IF wk[w].kind = "create" THEN op[o].want ELSE wk[w].put
               rev    == op[o].rev + (IF Confirmed(o) /\ agreed # op[o].want
                                      THEN 1 ELSE 0)
    <3>1. CompleteWrite(w)
      BY <1>4, <2>6 DEF Complete
    <3>2. link' # None
      <4>1. link' = [ev |-> Own, common |-> agreed, synced |-> rev,
                     seen |-> IF link = None THEN 0 ELSE link.seen,
                     tomb |-> FALSE]
        BY <3>1 DEF CompleteWrite
      <4>2. agreed \in Snapshot /\ rev \in Nat
        <5>1. op[o].want \in Snapshot /\ wk[w].put \in Snapshot
          BY <1>2, <2>2, Typed DEF OpType, WorkType
        <5> QED BY <2>4, <5>1
      <4>3. (IF link = None THEN 0 ELSE link.seen) \in Nat
        BY LinkTyped DEF LinkType
      <4> HIDE DEF agreed, rev
      <4>4. link' \in LinkType
        BY <1>2, <4>1, <4>2, <4>3 DEF LinkType
      <4> QED BY <4>4, LinkAssumption
    <3>3. op' = [op EXCEPT ![o] = Free]
      BY <3>1 DEF CompleteWrite, Finished
    <3>4. Unrecorded' /\ Steady
      BY <1>2, <3>2, <3>3 DEF Unrecorded, Steady, Free
    <3>5. Counted' /\ CreatedFirst'
      BY <2>1, <3>2, <3>4, Steadily
    <3> QED BY <2>1, <3>4, <3>5
  <2> QED BY <2>5, <2>6
<1> QED BY <1>3, <1>4

LEMMA WorkKeeps ==
    ASSUME IInv, TypeOK', NEW w \in Workers, Work(w) PROVE IInv'
<1> USE DEF IInv
<1>1. ASSUME HonourDeletion(w), CanSend(w), link # None, pl' = pl PROVE IInv'
  BY <1>1, HonourKeeps, Steadily
<1>2. CASE Read(w)
  <2>1. wk[w].op # 0 /\ link # None /\ CanSend(w) /\ pl' = pl
    BY <1>2 DEF Read, CreatedFirst, Stages
  <2>2. \/ HonourDeletion(w)
        \/ /\ UNCHANGED <<op, row, link>>
           /\ \/ wk' = [wk EXCEPT ![w].pc = "answered"]
              \/ wk' = [wk EXCEPT ![w].pc = "read", ![w].etag = remote.etag]
              \/ wk' = [wk EXCEPT ![w].pc = IF Wins(wk[w].op) = remote.s
                                            THEN "answered" ELSE "read",
                                  ![w].etag = remote.etag,
                                  ![w].put = Wins(wk[w].op)]
    BY <1>2 DEF Read, Goto
  <2>3. CASE HonourDeletion(w)
    BY <1>1, <2>1, <2>3
  <2>4. CASE ~HonourDeletion(w)
    <3>1. wk'[w].pc # "stale"
      BY <2>2, <2>4, Typed DEF WorkType
    <3> QED BY <2>1, <2>2, <2>4, <3>1, QuietWork
  <2> QED BY <2>3, <2>4
<1>3. CASE Send(w)
  <2>1. wk[w].op # 0 /\ wk \in [Workers -> WorkType]
    BY <1>3, Typed DEF Send, Stages
  <2>2. wk'[w].pc = "sent"
    BY <1>3, <2>1 DEF Send, WorkType
  <2> QED BY <1>3, <2>1, <2>2, QuietWork DEF Send
<1>4. CASE Land(w)
  <2>1. wk[w].op # 0 /\ wk \in [Workers -> WorkType]
    BY <1>4, Typed DEF Land, Stages
  <2>2. \/ /\ wk[w].kind = "update" /\ wk' = [wk EXCEPT ![w].pc = "stale"]
        \/ wk' = [wk EXCEPT ![w].pc = "answered", ![w].put = remote.s]
        \/ wk' = [wk EXCEPT ![w].pc = "answered"]
        \/ wk' = [wk EXCEPT ![w].pc = IF remote.at = "gone" THEN "answered"
                                      ELSE "changed"]
    BY <1>4 DEF Land, Goto
  <2>3. wk'[w].pc = "stale" => wk[w].kind = "update"
    BY <2>1, <2>2 DEF WorkType
  <2>4. op' = op /\ row' = row /\ link' = link /\ pl' = pl
    BY <1>4 DEF Land
  <2> QED BY <2>1, <2>2, <2>3, <2>4, QuietWork
<1>5. CASE Recheck(w)
  <2>1. wk[w].op # 0 /\ link # None /\ CanSend(w) /\ pl' = pl
    BY <1>5 DEF Recheck, CreatedFirst, Stages
  <2>2. \/ HonourDeletion(w)
        \/ /\ UNCHANGED <<op, row, link>>
           /\ wk' = [wk EXCEPT ![w].pc = IF Wins(wk[w].op) = remote.s
                                         THEN "answered" ELSE "changed",
                               ![w].put = remote.s]
    BY <1>5 DEF Recheck
  <2>3. CASE HonourDeletion(w)
    BY <1>1, <2>1, <2>3
  <2>4. CASE ~HonourDeletion(w)
    <3>1. wk'[w].pc # "stale"
      BY <2>2, <2>4, Typed DEF WorkType
    <3> QED BY <2>1, <2>2, <2>4, <3>1, QuietWork
  <2> QED BY <2>3, <2>4
<1>6. CASE TryLater(w) \/ GiveUp(w)
  <2>1. link' = link /\ pl' = pl /\ Rest(w)
    BY <1>6 DEF TryLater, GiveUp
  <2>2. WorkStays /\ Stages'
    BY <2>1, WorkMoves, StagesRest
  <2>3. Keeps /\ Steady /\ RowStays
    <3>1. CASE Holds(w)
      <4>1. wk[w].op \in Ops /\ op[wk[w].op].st # "free"
        BY <3>1, HeldOp DEF Holds
      <4>2. CASE TryLater(w)
        BY <3>1, <4>1, <4>2, RetriedKeeps DEF TryLater
      <4>3. CASE GiveUp(w)
        <5>1. op' = [op EXCEPT ![wk[w].op].st = "pending",
                               ![wk[w].op].holder = None,
                               ![wk[w].op].tries = op[wk[w].op].tries - 1]
              /\ row' = row
          BY <3>1, <4>3 DEF GiveUp, Deferred
        <5> QED BY <4>1, <5>1, PutBack, Stays
      <4> QED BY <1>6, <4>2, <4>3
    <3>2. CASE ~Holds(w)
      BY <1>6, <3>2, Stays DEF TryLater, GiveUp, Deferred
    <3> QED BY <3>1, <3>2
  <2>4. Unrecorded' /\ Counted' /\ CreatedFirst'
    BY <2>1, <2>2, <2>3, Quiet, Steadily
  <2> QED BY <2>2, <2>4
<1> QED BY <1>2, <1>3, <1>4, <1>5, <1>6, ClaimKeeps, CompleteKeeps DEF Work

\* The operations that a page leaves are those of `ops`.
LEMMA LeavesStays ==
    ASSUME Own \in Rows, NEW rows \in [Rows -> RowType],
           NEW ops \in [Ops -> OpType], Leaves(rows, ops)
    PROVE  /\ row'[Own].rev = rows[Own].rev /\ row'[Own].on = rows[Own].on
           /\ \A o \in Ops : IF ops[o].st = "exhausted"
                              THEN op'[o] = ops[o] \/
                                   (/\ op'[o].st = "pending"
                                    /\ op'[o].kind = ops[o].kind
                                    /\ op'[o].rev = ops[o].rev)
                              ELSE op'[o] = ops[o]
<1>1. row' = rows \/ row' = [rows EXCEPT ![Own].sync = "pending"]
  BY DEF Leaves
<1>2. row'[Own].rev = rows[Own].rev /\ row'[Own].on = rows[Own].on
  BY <1>1 DEF RowType
<1>3. ASSUME NEW o \in Ops
      PROVE  op'[o] = ops[o]
             \/ /\ ops[o].st = "exhausted"
                /\ op'[o] = [ops[o] EXCEPT !.st = "pending", !.tries = 0]
  BY DEF Leaves
<1>4. ASSUME NEW o \in Ops
      PROVE  LET x == [ops[o] EXCEPT !.st = "pending", !.tries = 0]
             IN x.st = "pending" /\ x.kind = ops[o].kind /\ x.rev = ops[o].rev
  <2>1. ops[o] \in OpType
    OBVIOUS
  <2> QED BY <2>1 DEF OpType
<1>5. ASSUME NEW o \in Ops
      PROVE  IF ops[o].st = "exhausted"
             THEN op'[o] = ops[o] \/ (/\ op'[o].st = "pending"
                                      /\ op'[o].kind = ops[o].kind
                                      /\ op'[o].rev = ops[o].rev)
             ELSE op'[o] = ops[o]
  <2> DEFINE x == [ops[o] EXCEPT !.st = "pending", !.tries = 0]
  <2>1. x.st = "pending" /\ x.kind = ops[o].kind /\ x.rev = ops[o].rev
    BY <1>4
  <2>2. op'[o] = ops[o] \/ (ops[o].st = "exhausted" /\ op'[o] = x)
    BY <1>3
  <2> HIDE DEF x
  <2> QED BY <2>1, <2>2
<1> QED BY <1>2, <1>5

\* No claimed operation is touched.
LEMMA LeavesSteady ==
    ASSUME TypeOK, NEW rows \in [Rows -> RowType],
           NEW ops \in [Ops -> OpType], Leaves(rows, ops),
           \A o \in Ops : ops[o] = op[o] \/ ops[o].st \in {"free", "pending"}
    PROVE  Steady
<1>1. Own \in Rows
  BY Typed
<1>2. \A o \in Ops : op'[o] = ops[o] \/ op'[o].st = "pending"
  BY <1>1, LeavesStays
<1> QED BY <1>2 DEF Steady

LEMMA PageKeeps ==
    ASSUME IInv, TypeOK', NEW p \in Pullers, SavePage(p)
    PROVE  Unrecorded' /\ Steady /\ (link # None => link' # None)
<1> USE DEF IInv
<1>1. op \in [Ops -> OpType] /\ row \in [Rows -> RowType] /\ Own \in Rows
      /\ Cancelled \in [Ops -> OpType] /\ \A o \in Ops : Cancelled[o].st = "free"
  BY Typed, CancelledTyped DEF Cancelled, Free
<1>2. pl[p].gen \in Nat /\ pl[p].got.s \in Snapshot
  BY PageTyped
<1>3. ASSUME PageWithout(p)
      PROVE  Unrecorded' /\ Steady /\ (link # None => link' # None)
  <2>1. Leaves(row, op) /\ link' = link
    BY <1>3 DEF PageWithout
  <2>2. Keeps /\ RowStays
    BY <1>1, <2>1, LeavesStays DEF Keeps, RowStays
  <2> QED BY <1>1, <2>1, <2>2, LeavesSteady, Quiet
<1>4. ASSUME PageOfUnlinked(p)
      PROVE  Steady /\ link' # None
  <2>1. link' \in LinkType
    BY <1>2, <1>4 DEF PageOfUnlinked, LinkType, Rows
  <2>2. [NoRow EXCEPT !.on = TRUE, !.google = TRUE, !.sync = "synced",
                      !.rev = 1, !.s = pl[p].got.s] \in RowType
    BY <1>2 DEF NoRow, RowType
  <2>3. [row EXCEPT ![Twin] =
           [NoRow EXCEPT !.on = TRUE, !.google = TRUE, !.sync = "synced",
                         !.rev = 1, !.s = pl[p].got.s]] \in [Rows -> RowType]
    BY <1>1, <2>2
  <2> QED BY <1>1, <1>4, <2>1, <2>3, LeavesSteady, LinkAssumption
          DEF PageOfUnlinked
<1>5. ASSUME PageOfDeleted(p)
      PROVE  Steady /\ link' # None
  <2> DEFINE r     == link.ev
             rev   == row[r].rev + (IF Live(row[r].s) THEN 1 ELSE 0)
             after == [row EXCEPT ![r].s[Status] = 1, ![r].sync = "synced",
                                  ![r].rev = rev]
  <2>1. link \in LinkType /\ r \in Rows
    BY <1>5, LinkTyped DEF PageOfDeleted, Missing
  <2>2. rev \in Nat
    BY <1>1, <2>1 DEF RowType
  <2>3. /\ Leaves(after, Cancelled) \/ Leaves(after, op)
        /\ link' = [link EXCEPT !.common = Blank, !.synced = rev,
                                !.tomb = TRUE, !.seen = pl[p].gen]
    BY <1>5 DEF PageOfDeleted
  <2> HIDE DEF r, rev
  <2>4. after \in [Rows -> RowType]
    BY <2>1, <2>2, RowCancelled
  <2>5. Steady
    <3> HIDE DEF after
    <3> QED BY <1>1, <2>3, <2>4, LeavesSteady
  <2>6. link' \in LinkType
    BY <1>2, <2>1, <2>2, <2>3, BlankTyped DEF LinkType
  <2> QED BY <2>5, <2>6, LinkAssumption
<1>6. ASSUME PageOfClean(p)
      PROVE  Steady /\ link' # None
  <2> DEFINE r     == link.ev
             in    == pl[p].got.s
             rev   == row[r].rev + (IF Changed(link.common, in) = {} THEN 0 ELSE 1)
             after == [row EXCEPT ![r].s = in, ![r].google = TRUE,
                                  ![r].sync = "synced", ![r].rev = rev]
  <2>1. link \in LinkType /\ r \in Rows
    BY <1>6, LinkTyped DEF PageOfClean
  <2>2. rev \in Nat
    BY <1>1, <2>1 DEF RowType
  <2>3. /\ Leaves(after, op)
        /\ link' = [link EXCEPT !.common = in, !.synced = rev, !.tomb = FALSE,
                                !.seen = pl[p].gen]
    BY <1>6 DEF PageOfClean
  <2> HIDE DEF r, rev
  <2>4. after \in [Rows -> RowType]
    <3>1. after = Cleaned(r, in, rev)
      BY DEF Cleaned
    <3> HIDE DEF after, in
    <3> QED BY <1>2, <2>1, <2>2, <3>1, RowsLeft DEF in
  <2>5. Steady
    <3> HIDE DEF after
    <3> QED BY <1>1, <2>3, <2>4, LeavesSteady
  <2>6. link' \in LinkType
    BY <1>2, <2>1, <2>2, <2>3 DEF LinkType
  <2> QED BY <2>5, <2>6, LinkAssumption
<1>7. ASSUME PageOfDirty(p)
      PROVE  Steady /\ link' # None
  <2> DEFINE r     == link.ev
             in    == pl[p].got.s
             m     == Merge(p)
             y     == IF m.s = in THEN "synced" ELSE "pending"
             after == [row EXCEPT ![r].s = m.s, ![r].google = TRUE,
                                  ![r].rev = m.rev, ![r].sync = y]
             next  == Queued(IF Live(row[r].s) THEN "update" ELSE "delete",
                             m.rev, m.s, row[r].edited, in)
  <2>1. link # None
    BY <1>7 DEF PageOfDirty, Meets
  <2>2. r \in Rows /\ row[r].s \in Snapshot /\ row[r].edited \in Nat
    BY <2>1, LinkTyped, Typed DEF RowType
  <2>3. m.s \in Snapshot /\ m.rev \in Nat /\ m.left \in [Ops -> OpType]
    BY <2>1, MergeTyped
  <2>4. y \in {"synced", "pending"}
    OBVIOUS
  <2>5. \/ Leaves(after, m.left)
        \/ Room(m.left) /\ Leaves(after, Enqueued(m.left, next))
    BY <1>7 DEF PageOfDirty
  <2>6. next \in OpType /\ next.st = "pending"
    <3>1. (IF Live(row[r].s) THEN "update" ELSE "delete")
            \in {"create", "update", "delete"}
      OBVIOUS
    <3> HIDE DEF m, r, in
    <3>2. next \in OpType
      BY <1>2, <2>2, <2>3, <3>1, QueuedTyped DEF in
    <3> QED BY <3>2 DEF Queued
  <2>7. after \in [Rows -> RowType]
    <3>1. after = Mixed(r, m.s, m.rev, y)
      BY DEF Mixed
    <3> HIDE DEF m, r, in, y, after
    <3> QED BY <2>2, <2>3, <2>4, <3>1, RowsLeft
  <2>8. m.left = op \/ m.left = Cancelled
    BY DEF Merge
  <2> HIDE DEF m, after, next
  <2>9. CASE Leaves(after, m.left)
    <3>1. Steady
      BY <1>1, <2>3, <2>7, <2>8, <2>9, LeavesSteady
    <3> QED BY <1>7, <3>1, DirtyTyped, LinkAssumption
  <2>10. CASE Room(m.left) /\ Leaves(after, Enqueued(m.left, next))
    <3>1. PICK o \in Ops : Enqueued(m.left, next) = [m.left EXCEPT ![o] = next]
      BY <2>10 DEF Room, Enqueued
    <3>2. Enqueued(m.left, next) \in [Ops -> OpType]
      BY <2>3, <2>6, <2>10, EnqueuedTyped
    <3>3. \A q \in Ops : \/ Enqueued(m.left, next)[q] = op[q]
                         \/ Enqueued(m.left, next)[q].st \in {"free", "pending"}
      BY <1>1, <2>3, <2>6, <2>8, <3>1
    <3>4. Steady
      BY <2>7, <2>10, <3>2, <3>3, LeavesSteady
    <3> QED BY <1>7, <3>4, DirtyTyped, LinkAssumption
  <2> QED BY <2>5, <2>9, <2>10
<1> QED BY <1>3, <1>4, <1>5, <1>6, <1>7 DEF SavePage, Unrecorded

LEMMA PullKeeps ==
    ASSUME IInv, TypeOK', NEW p \in Pullers, Pull(p) PROVE IInv'
<1> USE DEF IInv
<1>1. wk' = wk
  BY DEF Pull, ClaimPull, List, PullGivesUp, SavePage, PageRefused
<1>2. Unrecorded' /\ Steady /\ (link # None => link' # None)
  <2>1. CASE SavePage(p)
    BY <2>1, PageKeeps
  <2>2. CASE ~SavePage(p)
    <3>1. op' = op /\ row' = row /\ link' = link
      BY <2>2 DEF Pull, ClaimPull, List, PullGivesUp, PageRefused
    <3> QED BY <3>1, Stays, Quiet
  <2> QED BY <2>1, <2>2
<1>3. Counted' /\ CreatedFirst'
  BY <1>1, <1>2, Stays, Steadily
<1>4. pl \in [Pullers -> PullType] /\ remote.etag \in Nat
  BY Typed DEF CopyType
<1>5. Stages'
  <2>1. CASE ClaimPull(p)
    <3>1. \A q \in Pullers : pl'[q] = pl[q] \/ pl'[q].pc = "claimed"
      BY <1>4, <2>1 DEF ClaimPull, Resting
    <3> QED BY <1>1, <3>1 DEF Stages
  <2>2. CASE List(p)
    <3>1. \A q \in Pullers : pl'[q] = pl[q] \/ pl'[q].tok = remote.etag + 1
      <4>1. ASSUME NEW got, NEW q \in Pullers,
                   pl' = [pl EXCEPT ![p].pc = "listed",
                                    ![p].tok = remote.etag + 1, ![p].got = got]
            PROVE  pl'[q] = pl[q] \/ pl'[q].tok = remote.etag + 1
        BY <1>4, <4>1 DEF PullType
      <4>2. \E got : pl' = [pl EXCEPT ![p].pc = "listed",
                             ![p].tok = remote.etag + 1, ![p].got = got]
        BY <2>2 DEF List
      <4> QED BY <4>1, <4>2
    <3> QED BY <1>1, <1>4, <3>1 DEF Stages
  <2>3. CASE PullGivesUp(p) \/ SavePage(p) \/ PageRefused(p)
    BY <1>1, <2>3, StagesRest DEF PullGivesUp, SavePage, PageRefused
  <2> QED BY <2>1, <2>2, <2>3 DEF Pull
<1> QED BY <1>2, <1>3, <1>5

LEMMA FaultsKeep ==
    ASSUME IInv, TypeOK', Faults PROVE IInv'
<1> USE DEF IInv
<1>1. link' = link
  BY DEF Faults, RequestFails, RefusedForGood, Unauthorised, ClaimExpires,
         PullFails, LeaseExpires
<1>2. SUFFICES Keeps /\ Steady /\ RowStays /\ WorkStays /\ Stages'
  BY <1>1, Quiet, Steadily
<1>3. ASSUME NEW w \in Workers, RequestFails(w) \/ RefusedForGood(w)
                                 \/ Unauthorised(w)
      PROVE  Keeps /\ Steady /\ RowStays /\ WorkStays /\ Stages'
  <2>1. WorkStays /\ Stages'
    BY <1>3, WorkMoves, StagesRest
       DEF RequestFails, RefusedForGood, Unauthorised
  <2>2. CASE ~Holds(w)
    BY <1>3, <2>1, <2>2, Stays DEF RequestFails, RefusedForGood, Unauthorised
  <2>3. CASE Holds(w)
    <3>1. wk[w].op \in Ops /\ op[wk[w].op].st # "free"
      BY <2>3, HeldOp DEF Holds
    <3>2. CASE RequestFails(w)
      BY <2>1, <2>3, <3>1, <3>2, RetriedKeeps DEF RequestFails
    <3>3. CASE RefusedForGood(w)
      BY <2>1, <2>3, <3>1, <3>3, PutBack, FailedStays DEF RefusedForGood
    <3>4. CASE Unauthorised(w)
      <4>1. op' = [o \in Ops |-> IF op[o].st \in {"pending", "processing"}
                                 THEN [op[o] EXCEPT !.st = "paused",
                                                    !.holder = None]
                                 ELSE op[o]]
            /\ row' = [r \in Rows |-> IF Linked(r)
                                      THEN [row[r] EXCEPT
                                              !.sync = "reconnect_required"]
                                      ELSE row[r]]
        BY <2>3, <3>4 DEF Unauthorised
      <4>2. op \in [Ops -> OpType] /\ row \in [Rows -> RowType] /\ Own \in Rows
        BY Typed
      <4>3. Keeps /\ Steady
        BY <4>1, <4>2 DEF Keeps, Steady, OpType
      <4>4. RowStays
        BY <4>1, <4>2 DEF RowStays, RowType
      <4> QED BY <2>1, <4>3, <4>4
    <3> QED BY <1>3, <3>2, <3>3, <3>4
  <2> QED BY <2>2, <2>3
<1>4. ASSUME NEW o \in Ops, ClaimExpires(o)
      PROVE  Keeps /\ Steady /\ RowStays /\ WorkStays /\ Stages'
  <2>1. Keeps /\ Steady /\ RowStays
    BY <1>4, PutBack, Stays DEF ClaimExpires
  <2>2. op[o].holder \in Workers
    BY <1>4, Typed DEF ClaimExpires, OpType
  <2>3. pl' = pl /\ (wk' = wk \/ Rest(op[o].holder))
    BY <1>4 DEF ClaimExpires
  <2> QED BY <2>1, <2>2, <2>3, WorkMoves, StagesRest, Stays
<1>5. ASSUME NEW p \in Pullers, PullFails(p) \/ LeaseExpires(p)
      PROVE  Keeps /\ Steady /\ RowStays /\ WorkStays /\ Stages'
  BY <1>5, Stays, StagesRest DEF PullFails, LeaseExpires
<1> QED BY <1>3, <1>4, <1>5 DEF Faults

-----------------------------------------------------------------------------
(* The theorems.                                                            *)

LEMMA StutterKeeps == IInv /\ UNCHANGED vars => IInv'
BY DEF IInv, vars, TypeOK, Unrecorded, Revisions, CreateLeads, Counted, Stages,
       CreatedFirst, Holds

LEMMA NextKeeps == IInv /\ [Next]_vars => IInv'
<1> SUFFICES ASSUME IInv, [Next]_vars PROVE IInv'
  OBVIOUS
<1>1. CASE Next
  <2>1. Record /\ TypeOK /\ Counted /\ Stages /\ CreatedFirst
    BY <1>1 DEF Next, IInv
  <2>2. CASE User
    BY <2>1, <2>2, UserTyped, UserKeeps
  <2>3. CASE Connection
    BY <2>1, <2>3, ConnectionTyped, ConnectionKeeps
  <2>4. CASE Faults
    BY <2>1, <2>4, FaultsTyped, FaultsKeep
  <2>5. ASSUME NEW w \in Workers, Work(w) PROVE IInv'
    BY <2>1, <2>5, WorkTyped, WorkKeeps
  <2>6. ASSUME NEW p \in Pullers, Pull(p) PROVE IInv'
    BY <2>1, <2>6, PullTyped, PullKeeps
  <2> QED BY <1>1, <2>2, <2>3, <2>4, <2>5, <2>6 DEF Next
<1>2. CASE UNCHANGED vars
  BY <1>2, StutterKeeps
<1> QED BY <1>1, <1>2

THEOREM Invariant == Spec => []IInv
<1>1. Init => IInv
  BY InitIInv
<1>2. IInv /\ [Next]_vars => IInv'
  BY NextKeeps
<1> QED BY <1>1, <1>2, PTL DEF Spec

\* Every variable keeps its type, whatever the workers, the pullers, the
\* users of both calendars and the network do.
THEOREM CalendarTypes == Spec => []TypeOK
<1>1. IInv => TypeOK
  BY DEF IInv
<1> QED BY <1>1, Invariant, PTL

\* No worker asks Google to change or delete an event whose creation is not
\* recorded: claimOperation takes the operations of an event in the order of
\* their revisions, and the creation is the oldest (claimOperation,
\* updateTarget, reactivateCalendarBinding).
THEOREM CreationComesFirst == Spec => []CreatedFirst
<1>1. IInv => CreatedFirst
  BY DEF IInv
<1> QED BY <1>1, Invariant, PTL

=============================================================================
