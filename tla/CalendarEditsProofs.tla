-------------------------- MODULE CalendarEditsProofs --------------------------
(* What happens to the edits of an event that both sides have: proofs about  *)
(* the merges of CalendarMerge and about the steps of CalendarSync.          *)
EXTENDS CalendarSyncProofs, SequenceTheorems

USE RowAssumption, ClaimAssumption, BoundAssumption, StartAssumption,
    StatusAssumption

-----------------------------------------------------------------------------
(* What the two merges promise, for all snapshots.                           *)

(* The second comparison of resolveCalendarUpdate has no conflict left: the    *)
(* error "Automatic calendar reconciliation left unresolved fields." is never  *)
(* thrown.                                                                     *)
THEOREM ReconciliationResolves ==
    ASSUME NEW base \in Snapshot, NEW desired \in Snapshot,
           NEW theirs \in Snapshot, NEW localWins \in BOOLEAN
    PROVE  Clashing(Rebased(base, desired, theirs),
                    Target(base, desired, theirs, localWins), theirs) = {}
BY DEF Clashing, Wanted, Rebased, Target, Overlay, Snapshot

(* Once Google has the patch, comparing again asks for nothing: the error      *)
(* "Google did not confirm the requested calendar fields after updating." is   *)
(* thrown only if Google changed something else.  The second comparison uses   *)
(* Google's new clock, which can only turn the decision towards Google.        *)
THEOREM PushSettles ==
    ASSUME NEW base \in Snapshot, NEW desired \in Snapshot,
           NEW theirs \in Snapshot, NEW first \in BOOLEAN, NEW again \in BOOLEAN,
           again => first
    PROVE  Patch(base, desired, Pushed(base, desired, theirs, first), again) = {}
<1> DEFINE after == Pushed(base, desired, theirs, first)
<1>1. CASE first
    <2>1. \A g \in Fields : desired[g] # base[g] => after[g] = desired[g]
        BY <1>1 DEF Pushed, Patch, Wanted, Clashing, Rebased, Target, Overlay,
                    Snapshot
    <2>2. Wanted(base, desired, after) = {}
        BY <2>1 DEF Wanted
    <2> QED BY <2>2 DEF Patch, Clashing, Rebased, Target, Overlay, Snapshot,
                        Wanted, Pushed
<1>2. CASE ~first
    <2>1. ~again
        BY <1>2
    <2>2. \A g \in Fields : \/ after[g] = desired[g]
                            \/ desired[g] = base[g]
                            \/ after[g] = theirs[g] /\ theirs[g] # base[g]
        BY <1>2 DEF Pushed, Patch, Wanted, Clashing, Rebased, Target, Overlay,
                    Snapshot
    <2>3. \A g \in Wanted(base, desired, after) :
              g \in Clashing(base, desired, after)
        BY <2>2 DEF Wanted, Clashing
    <2> HIDE DEF after
    <2>4. Wanted(Rebased(base, desired, after),
                 Target(base, desired, after, again), after) = {}
        BY <2>1, <2>3 DEF Wanted, Clashing, Rebased, Target, Overlay, Snapshot
    <2> QED BY <2>4 DEF Patch, after
<1> QED BY <1>1, <1>2

(* What only one side changed survives the push, whoever wins the rest.        *)
THEOREM PushKeepsIndependent ==
    ASSUME NEW base \in Snapshot, NEW desired \in Snapshot,
           NEW theirs \in Snapshot, NEW localWins \in BOOLEAN, NEW g \in Fields
    PROVE  LET after == Pushed(base, desired, theirs, localWins) IN
           /\ theirs[g] = base[g] => after[g] = desired[g]
           /\ desired[g] = base[g] => after[g] = theirs[g]
BY DEF Pushed, Patch, Wanted, Clashing, Rebased, Target, Overlay, Snapshot

(* The same for a change that is pulled into a live event.                     *)
THEOREM PullKeepsIndependent ==
    ASSUME NEW base \in Snapshot, NEW local \in Snapshot, Live(local),
           NEW theirs \in Snapshot, NEW localWins \in BOOLEAN, NEW g \in Fields
    PROVE  LET after == Merged(base, local, theirs, localWins) IN
           /\ theirs[g] = base[g] => after[g] = local[g]
           /\ local[g] = base[g] => after[g] = theirs[g]
BY DEF Merged, Kept, Conflicting, Changed, Overlay, Snapshot

(* A pull that merges and a push that reconciles reach the same event, so it   *)
(* does not matter which of the two sees the other side's edit first.          *)
THEOREM PushAndPullAgree ==
    ASSUME NEW base \in Snapshot, NEW local \in Snapshot, Live(local),
           NEW theirs \in Snapshot, NEW localWins \in BOOLEAN
    PROVE  Merged(base, local, theirs, localWins)
               = Pushed(base, local, theirs, localWins)
<1> DEFINE m == Merged(base, local, theirs, localWins)
           p == Pushed(base, local, theirs, localWins)
<1>1. \A g \in Fields : m[g] = p[g]
    <2> TAKE g \in Fields
    <2>1. CASE localWins
        BY <2>1 DEF Merged, Kept, Changed, Conflicting, Pushed, Patch, Wanted,
                    Clashing, Rebased, Target, Overlay, Snapshot
    <2>2. CASE ~localWins
        BY <2>2 DEF Merged, Kept, Changed, Conflicting, Pushed, Patch, Wanted,
                    Clashing, Rebased, Target, Overlay, Snapshot
    <2> QED BY <2>1, <2>2
<1> QED BY <1>1 DEF Merged, Pushed, Overlay
-----------------------------------------------------------------------------
(* The invariant, of an event that both sides have from the start.  An edit  *)
(* is loose while nobody but Sydia has it: neither Google nor the recovery   *)
(* records, and no newer edit of Sydia's has replaced it.                    *)

Loose     == {i \in Edited("sydia") : ~Replaced(i) /\ i \notin held \cup saved}
Has(s, i) == s[edits[i].field] = i
Busy(o)   == op[o].st # "free"
Past(s)   == \A f \in Content : s[f] <= Clock  \* no value is from the future
Known(s)  == Values(s) \subseteq held \cup {0}

\* The event has one row, linked for good.
OneRow == /\ link # None /\ link.ev = Own
          /\ row[Own].on /\ row[Twin] = NoRow

\* Where a snapshot comes from, variable by variable.
RowFine  == /\ Past(row[Own].s)
            /\ Live(row[Own].s) => Past(link.common)
            /\ row[Own].sync = "synced" /\ Live(row[Own].s) => Known(row[Own].s)
CopyFine == /\ Past(remote.s) /\ Known(remote.s)
            /\ remote.at = "live" => Live(remote.s)
OpFine(q) == /\ q.kind # "create" /\ Past(q.want) /\ Past(q.base)
             /\ q.kind = "update" => Live(q.want)
QueueFine == \A o \in Ops : Busy(o) => OpFine(op[o])
WorkFine(k) ==
    /\ k.kind # "create" /\ Past(k.put)
    /\ k.kind = "update" /\ k.pc \in {"read", "sent"} => Live(k.put)
    /\ k.kind = "update" /\ k.pc = "answered" => Known(k.put)
PageFine(g) == g.at = "live" => Past(g.s) /\ Known(g.s) /\ Live(g.s)

Fine == /\ OneRow /\ RowFine /\ CopyFine /\ QueueFine
        /\ \A w \in Workers : WorkFine(wk[w])
        /\ \A p \in Pullers : PageFine(pl[p].got)

\* No revision is ahead of the row's.
Bounded == /\ link.synced <= row[Own].rev
           /\ \A o \in Ops : Busy(o) => op[o].rev <= row[Own].rev

\* Nothing older waits behind an operation that a worker holds.
Oldest == \A w \in Workers : Holds(w) =>
              \A q \in Ops : Busy(q) => op[q].rev >= op[wk[w].op].rev

\* A row that is cut off from Google has nothing to do there.
Cut == /\ conn = "disconnected" => ~row[Own].google
       /\ ~row[Own].google =>
              \A o \in Ops : Busy(o) => op[o].st = "paused"
                                        /\ conn = "disconnected"

Order == Bounded /\ Oldest /\ Cut

\* A loose edit is in the row, which is live and ahead of the link, ...
InRow     == \A i \in Loose : Has(row[Own].s, i)
Unagreed  == \A i \in Loose : ~Has(link.common, i)
Alive     == ~Live(row[Own].s) => Loose = {}
Ahead     == Loose # {} => row[Own].rev > link.synced

\* ... in the operations of the row's revision, and in one operation at least.
InNewest  == \A o \in Ops : Busy(o) /\ op[o].rev = row[Own].rev =>
                 \A i \in Loose : Has(op[o].want, i)
Pending   == row[Own].google =>
                 \A i \in Loose : \E o \in Ops : Busy(o) /\ Has(op[o].want, i)

\* An update that takes it for granted has an older one before it that does
\* not, and an update that has been read carries what it wants.
Behind    == \A o \in Ops : Busy(o) /\ op[o].kind = "update" =>
                 \A i \in Loose : Has(op[o].base, i) =>
                     \E q \in Ops : /\ Busy(q) /\ op[q].rev < op[o].rev
                                    /\ Has(op[q].want, i)
Carried   == \A w \in Workers : Holds(w) /\ wk[w].kind = "update" =>
                 \A i \in Loose : Has(op[wk[w].op].want, i) =>
                     /\ wk[w].pc # "answered"
                     /\ wk[w].pc \in {"read", "sent"} => Has(wk[w].put, i)

Traced == /\ InRow /\ Unagreed /\ Alive /\ Ahead
          /\ InNewest /\ Pending /\ Behind /\ Carried

EInv == origin = "linked" => Fine /\ Order /\ Traced

-----------------------------------------------------------------------------
(* The same, of a snapshot, an operation, a worker or a page, once the step  *)
(* is done: time has gone on, and Google has had more.                       *)

PastNow(s)  == \A f \in Content : s[f] <= Clock'
KnownNow(s) == Values(s) \subseteq held' \cup {0}
OpFineNow(q) == /\ q.kind # "create" /\ PastNow(q.want) /\ PastNow(q.base)
                /\ q.kind = "update" => Live(q.want)
WorkFineNow(k) ==
    /\ k.kind # "create" /\ PastNow(k.put)
    /\ k.kind = "update" /\ k.pc \in {"read", "sent"} => Live(k.put)
    /\ k.kind = "update" /\ k.pc = "answered" => KnownNow(k.put)
PageFineNow(g) == g.at = "live" => PastNow(g.s) /\ KnownNow(g.s) /\ Live(g.s)

Grows == /\ Clock \in Nat /\ Clock' \in Nat /\ Clock <= Clock'
         /\ held \subseteq held' /\ KnownNow(remote'.s)

LEMMA StepGrows ==
    ASSUME TypeOK, Next PROVE Grows
<1>1. edits' = edits \/ \E e \in EditType : edits' = Append(edits, e)
  <2>1. ASSUME NEW f \in Fields, EditEvent(f) \/ RemoteEdit(f)
        PROVE  \E e \in EditType : edits' = Append(edits, e)
    BY <2>1 DEF EditEvent, RemoteEdit, EditType
  <2> QED BY <2>1
        DEF Next, User, Connection, Faults, Work, Pull, CreateEvent, RetryFailed,
            Disconnect, Reconnect, Resync, Claim, Read, Send, Land, Recheck,
            TryLater, GiveUp, Complete, RequestFails, RefusedForGood,
            Unauthorised, ClaimExpires, ClaimPull, List, PullGivesUp, SavePage,
            PageRefused, PullFails, LeaseExpires
<1>2. Clock \in Nat /\ Clock' \in Nat /\ Clock <= Clock'
  BY <1>1, AppendProperties, LenProperties DEF Clock, TypeOK
<1>3. held' = held \cup (Values(remote'.s) \ {0})
  BY DEF Next, Record
<1> QED BY <1>2, <1>3 DEF Grows, KnownNow

\* What was fine stays so.
LEMMA StillFine ==
    ASSUME TypeOK, Grows
    PROVE  /\ \A s \in Snapshot : Past(s) => PastNow(s)
           /\ \A s : Known(s) => KnownNow(s)
           /\ \A q \in OpType : OpFine(q) => OpFineNow(q)
           /\ \A k \in WorkType : WorkFine(k) => WorkFineNow(k)
           /\ \A g \in PageType : PageFine(g) => PageFineNow(g)
<1>1. \A s \in Snapshot : Past(s) => PastNow(s)
  BY DEF Grows, Past, PastNow, Content, Snapshot
<1>2. \A s : Known(s) => KnownNow(s)
  BY DEF Grows, Known, KnownNow
<1>3. \A q \in OpType : q.want \in Snapshot /\ q.base \in Snapshot
  BY DEF OpType
<1>4. \A k \in WorkType : k.put \in Snapshot
  BY DEF WorkType
<1>5. \A g \in PageType : g.s \in Snapshot
  BY DEF PageType
<1>6. \A q \in OpType : OpFine(q) => OpFineNow(q)
  BY <1>1, <1>3 DEF OpFine, OpFineNow
<1>7. \A k \in WorkType : WorkFine(k) => WorkFineNow(k)
  BY <1>1, <1>2, <1>4 DEF WorkFine, WorkFineNow
<1>8. \A g \in PageType : PageFine(g) => PageFineNow(g)
  BY <1>1, <1>2, <1>5 DEF PageFine, PageFineNow
<1> QED BY <1>1, <1>2, <1>6, <1>7, <1>8

LEMMA FreshFine ==
    ASSUME TypeOK, Grows
    PROVE  PastNow(Fresh) /\ OpFineNow(Free) /\ WorkFineNow(Idle)
<1>1. PastNow(Fresh)
  BY DEF Grows, PastNow, Fresh, Content
<1>2. Live(Fresh)
  BY DEF Live, Fresh
<1> QED BY <1>1, <1>2 DEF OpFineNow, WorkFineNow, Free, Idle

LEMMA PastOverlay ==
    ASSUME NEW x \in Snapshot, NEW y \in Snapshot, Past(x), Past(y), NEW G
    PROVE  Past(Overlay(x, y, G))
BY DEF Past, Overlay, Content

\* The two merges take every value, and the status, from one of the two sides.
LEMMA MergesPast ==
    ASSUME NEW b, NEW x \in Snapshot, NEW y \in Snapshot, NEW l,
           Past(x), Past(y)
    PROVE  Past(Pushed(b, x, y, l)) /\ Past(Merged(b, x, y, l))
BY PastOverlay DEF Pushed, Merged

LEMMA MergesLive ==
    ASSUME NEW b, NEW x \in Snapshot, NEW y \in Snapshot, NEW l,
           Live(x), Live(y)
    PROVE  Live(Pushed(b, x, y, l)) /\ Live(Merged(b, x, y, l))
BY DEF Pushed, Merged, Overlay, Live

-----------------------------------------------------------------------------
(* Google's copy and the pages.                                              *)

LEMMA CopyMoves ==
    ASSUME Next
    PROVE  \/ remote' = remote
           \/ \E f \in Fields : RemoteEdit(f)
           \/ \E w \in Workers : Land(w)
BY DEF Next, User, Connection, Faults, Work, Pull, CreateEvent, EditEvent,
       RetryFailed, Disconnect, Reconnect, Resync, Claim, Read, Send, Recheck,
       TryLater, GiveUp, Complete, RequestFails, RefusedForGood, Unauthorised,
       ClaimExpires, ClaimPull, List, PullGivesUp, SavePage, PageRefused,
       PullFails, LeaseExpires

LEMMA CopyStays ==
    ASSUME TypeOK, Fine, Grows, Next PROVE CopyFine'
<1>1. SUFFICES PastNow(remote'.s) /\ (remote'.at = "live" => Live(remote'.s))
  BY DEF CopyFine, Grows, PastNow, KnownNow, Past, Known, Live
<1>2. remote \in CopyType /\ remote.s \in Snapshot /\ CopyFine
  BY Typed DEF CopyType, Fine
<1>3. CASE remote' = remote
  BY <1>2, <1>3, StillFine DEF CopyFine
<1>4. ASSUME NEW f \in Fields, RemoteEdit(f)
      PROVE  PastNow(remote'.s) /\ (remote'.at = "live" => Live(remote'.s))
  <2>1. /\ remote'.s = [remote.s EXCEPT ![f] = IF f = Status THEN 1
                                               ELSE Clock + 1]
        /\ remote'.at = (IF f = Status THEN "gone" ELSE "live")
        /\ remote.at = "live"
    BY <1>4 DEF RemoteEdit
  <2>2. Clock' = Clock + 1
    BY <1>4, AppendProperties DEF RemoteEdit, Clock, TypeOK, EditType
  <2>3. \A g \in Content : remote'.s[g] <= Clock'
    <3> TAKE g \in Content
    <3>1. g \in Fields /\ g # Status
      BY DEF Content
    <3>2. CASE g = f
      BY <1>2, <2>1, <2>2, <3>1, <3>2 DEF Grows, Snapshot
    <3>3. CASE g # f
      BY <1>2, <2>1, <3>1, <3>3, StillFine DEF CopyFine, PastNow, Snapshot
    <3> QED BY <3>2, <3>3
  <2>4. f # Status => Live(remote'.s)
    BY <1>2, <2>1 DEF CopyFine, Live, Snapshot
  <2> QED BY <2>1, <2>3, <2>4 DEF PastNow
<1>5. ASSUME NEW w \in Workers, Land(w)
      PROVE  PastNow(remote'.s) /\ (remote'.at = "live" => Live(remote'.s))
  <2>1. wk[w] \in WorkType /\ wk[w].put \in Snapshot /\ WorkFine(wk[w])
    BY Typed DEF WorkType, Fine
  <2>2. wk[w].pc = "sent" /\ wk[w].kind # "create"
    BY <1>5, <2>1 DEF Land, WorkFine
  <2>3. CASE remote' = Written(wk[w].put) /\ wk[w].kind = "update"
    <3>1. remote'.s = wk[w].put
      BY <2>3 DEF Written
    <3> QED BY <2>1, <2>2, <2>3, <3>1, StillFine DEF WorkFine
  <2>4. CASE remote' = [remote EXCEPT !.at = "gone", !.s[Status] = 1,
                                      !.etag = remote.etag + 1]
    <3>1. remote'.at = "gone" /\ remote'.s = [remote.s EXCEPT ![Status] = 1]
      BY <1>2, <2>4 DEF CopyType
    <3>2. PastNow(remote'.s)
      BY <1>2, <3>1, StillFine DEF CopyFine, PastNow, Content, Snapshot
    <3> QED BY <3>1, <3>2
  <2>5. CASE remote' = remote
    BY <1>3, <2>5
  <2> QED BY <1>5, <2>2, <2>3, <2>4, <2>5 DEF Land
<1> QED BY <1>3, <1>4, <1>5, CopyMoves

LEMMA PageMoves ==
    ASSUME Next
    PROVE  \/ pl' = pl
           \/ \E p \in Pullers : ClaimPull(p) \/ List(p) \/ Stop(p)
BY DEF Next, User, Connection, Faults, Work, Pull, CreateEvent, EditEvent,
       RetryFailed, RemoteEdit, Disconnect, Reconnect, Resync, Claim, Read,
       Send, Land, Recheck, TryLater, GiveUp, Complete, RequestFails,
       RefusedForGood, Unauthorised, ClaimExpires, PullGivesUp, SavePage,
       PageRefused, PullFails, LeaseExpires

LEMMA PagesStay ==
    ASSUME TypeOK, Fine, Grows, Next
    PROVE  \A p \in Pullers : PageFine(pl[p].got)'
<1>1. SUFFICES ASSUME NEW p \in Pullers PROVE PageFineNow(pl'[p].got)
  BY DEF PageFine, PageFineNow, Past, Known, PastNow, KnownNow, Live
<1>2. pl \in [Pullers -> PullType]
  BY Typed
<1>3. \A q \in Pullers : pl[q].got \in PageType /\ PageFine(pl[q].got)
  BY <1>2 DEF PullType, Fine
<1>4. PageFineNow(pl[p].got)
  BY <1>3, StillFine
<1>5. PageFineNow(Unlisted)
  BY DEF PageFineNow, Unlisted
<1>6. CASE pl' = pl
  BY <1>4, <1>6
<1>7. ASSUME NEW q \in Pullers, ClaimPull(q) \/ Stop(q)
      PROVE  PageFineNow(pl'[p].got)
  <2>1. pl'[p] = pl[p] \/ pl'[p].got = Unlisted
    <3>1. CASE Stop(q)
      BY <1>2, <3>1 DEF Stop, Resting
    <3>2. CASE ClaimPull(q)
      <4>1. pl' = [pl EXCEPT ![q] = [Resting EXCEPT !.pc = "claimed",
                     !.full = (bind.tok = 0), !.gen = bind.gen,
                     !.tok = bind.tok]]
        BY <3>2 DEF ClaimPull
      <4>2. [Resting EXCEPT !.pc = "claimed", !.full = (bind.tok = 0),
               !.gen = bind.gen, !.tok = bind.tok].got = Unlisted
        BY DEF Resting
      <4> QED BY <1>2, <4>1, <4>2
    <3> QED BY <1>7, <3>1, <3>2
  <2> QED BY <1>4, <1>5, <2>1
<1>8. ASSUME NEW q \in Pullers, List(q)
      PROVE  PageFineNow(pl'[p].got)
  <2> DEFINE seen == [at |-> remote.at, upd |-> remote.upd,
                      s |-> IF remote.at = "gone" THEN Blank ELSE remote.s]
  <2>1. PageFineNow(seen)
    <3>1. remote.s \in Snapshot /\ CopyFine
      BY Typed DEF Fine, CopyType
    <3> QED BY <3>1, StillFine DEF CopyFine, PageFineNow
  <2>2. pl'[p].got \in {pl[p].got, seen, Unlisted}
    <3> HIDE DEF seen
    <3>1. PICK g \in {seen, Unlisted} :
            pl' = [pl EXCEPT ![q].pc = "listed", ![q].tok = remote.etag + 1,
                             ![q].got = g]
      BY <1>8 DEF List, seen
    <3> HIDE DEF Unlisted
    <3>2. CASE p = q
      <4>1. pl'[p].got = g
        BY <1>2, <3>1, <3>2 DEF PullType
      <4> QED BY <4>1
    <3>3. CASE p # q
      BY <1>2, <3>1, <3>3 DEF PullType
    <3> QED BY <3>2, <3>3
  <2> HIDE DEF seen
  <2> QED BY <1>4, <1>5, <2>1, <2>2
<1> QED BY <1>6, <1>7, <1>8, PageMoves

-----------------------------------------------------------------------------
(* The workers.                                                              *)

LEMMA WhoWorks ==
    ASSUME TypeOK, Next
    PROVE  \/ wk' = wk
           \/ \E w \in Workers : \/ Rest(w) \/ Read(w) \/ Send(w) \/ Land(w)
                                 \/ Recheck(w) \/ \E o \in Ops : Claim(w, o)
<1>1. ASSUME NEW o \in Ops, ClaimExpires(o)
      PROVE  wk' = wk \/ \E w \in Workers : Rest(w)
  <2>1. op[o].holder \in Workers
    BY <1>1, Typed DEF ClaimExpires, OpType
  <2> QED BY <1>1, <2>1 DEF ClaimExpires
<1>2. CASE \E w \in Workers : Work(w)
  BY <1>2 DEF Work, TryLater, GiveUp, Complete
<1>3. CASE Faults
  <2>1. ASSUME NEW w \in Workers,
               RequestFails(w) \/ RefusedForGood(w) \/ Unauthorised(w)
        PROVE  Rest(w)
    BY <2>1 DEF RequestFails, RefusedForGood, Unauthorised
  <2>2. ASSUME NEW p \in Pullers, PullFails(p) \/ LeaseExpires(p)
        PROVE  wk' = wk
    BY <2>2 DEF PullFails, LeaseExpires
  <2> QED BY <1>1, <1>3, <2>1, <2>2 DEF Faults
<1>4. CASE User \/ Connection \/ \E p \in Pullers : Pull(p)
  BY <1>4 DEF User, Connection, Pull, CreateEvent, EditEvent, RetryFailed,
         RemoteEdit, Disconnect, Reconnect, Resync, ClaimPull, List,
         PullGivesUp, SavePage, PageRefused
<1> QED BY <1>2, <1>3, <1>4 DEF Next

\* A worker goes on: what changes of it, and that the others stay.
Moved(w, c, s) ==
    /\ wk'[w].pc = c /\ wk'[w].put = s /\ wk'[w].kind = wk[w].kind
    /\ wk'[w].op = wk[w].op
    /\ \A v \in Workers \ {w} : wk'[v] = wk[v]

LEMMA Resolves ==
    ASSUME TypeOK, NEW w \in Workers, NEW c, NEW n, NEW s,
           wk' = [wk EXCEPT ![w].pc = c, ![w].etag = n, ![w].put = s]
    PROVE  Moved(w, c, s)
<1>1. wk \in [Workers -> WorkType]
  BY Typed
<1> QED BY <1>1 DEF WorkType, Moved

LEMMA Puts ==
    ASSUME TypeOK, NEW w \in Workers, NEW c, NEW s,
           wk' = [wk EXCEPT ![w].pc = c, ![w].put = s]
    PROVE  Moved(w, c, s)
<1>1. wk \in [Workers -> WorkType]
  BY Typed
<1> QED BY <1>1 DEF WorkType, Moved

LEMMA Reads ==
    ASSUME TypeOK, NEW w \in Workers, NEW c, NEW n,
           wk' = [wk EXCEPT ![w].pc = c, ![w].etag = n]
    PROVE  Moved(w, c, wk[w].put)
<1>1. wk \in [Workers -> WorkType]
  BY Typed
<1> QED BY <1>1 DEF WorkType, Moved

LEMMA Goes ==
    ASSUME TypeOK, NEW w \in Workers, NEW c, Goto(w, c)
    PROVE  Moved(w, c, wk[w].put)
<1>1. wk \in [Workers -> WorkType]
  BY Typed
<1> QED BY <1>1 DEF WorkType, Moved, Goto

\* What an update makes of Google's copy, as far as its worker has read it.
LEMMA WinsFine ==
    ASSUME IInv, Fine, Grows, NEW w \in Workers, Holds(w),
           wk[w].kind = "update", remote.at = "live"
    PROVE  /\ PastNow(Wins(wk[w].op)) /\ Live(Wins(wk[w].op))
           /\ PastNow(remote.s) /\ KnownNow(remote.s)
<1> DEFINE o == wk[w].op
<1>1. TypeOK /\ o # 0 /\ op[o].kind = "update"
  BY DEF IInv, Counted, Holds
<1>2. o \in Ops /\ op[o].want \in Snapshot /\ remote.s \in Snapshot
  BY <1>1, HeldOp
<1>3. OpFine(op[o]) /\ CopyFine
  BY <1>2 DEF Fine, QueueFine, Busy, Holds
<1> HIDE DEF o
<1>4. Past(Wins(o)) /\ Live(Wins(o))
  BY <1>1, <1>2, <1>3, MergesPast, MergesLive DEF Wins, OpFine, CopyFine
<1>5. Wins(o) \in Snapshot
  BY <1>1, <1>2, HeldOp, PushedTyped DEF Wins, o
<1> QED BY <1>1, <1>2, <1>3, <1>4, <1>5, StillFine DEF CopyFine, o

LEMMA WorkersStay ==
    ASSUME IInv, Fine, Grows, Next
    PROVE  \A w \in Workers : WorkFine(wk[w])'
<1>1. SUFFICES ASSUME NEW v \in Workers PROVE WorkFineNow(wk'[v])
  BY DEF WorkFine, WorkFineNow, Past, Known, PastNow, KnownNow, Live
<1>2. TypeOK /\ wk \in [Workers -> WorkType]
  BY Typed DEF IInv
<1>3. WorkFineNow(wk[v])
  BY <1>2, StillFine DEF Fine
<1>4. CASE wk' = wk
  BY <1>3, <1>4
<1>5. ASSUME NEW w \in Workers, Rest(w)
      PROVE  WorkFineNow(wk'[v])
  BY <1>2, <1>3, <1>5, FreshFine DEF Rest
<1>6. ASSUME NEW w \in Workers, NEW o \in Ops, Claim(w, o)
      PROVE  WorkFineNow(wk'[v])
  <2>1. \/ wk' = wk
        \/ wk' = [wk EXCEPT ![w] = [Idle EXCEPT !.pc = "claimed", !.op = o,
                                                !.kind = op[o].kind]]
    BY <1>6 DEF Claim
  <2>2. op[o].kind # "create"
    BY <1>6 DEF Fine, QueueFine, Busy, OpFine, Claim, Claimable
  <2>3. WorkFineNow([Idle EXCEPT !.pc = "claimed", !.op = o,
                                 !.kind = op[o].kind])
    BY <1>2, <2>2, FreshFine DEF WorkFineNow, Idle
  <2> QED BY <1>2, <1>3, <2>1, <2>3
<1>7. ASSUME NEW w \in Workers, Read(w)
      PROVE  WorkFineNow(wk'[v])
  <2>1. Holds(w) /\ wk[w].kind # "create"
    BY <1>7 DEF Read, CanSend
  <2>2. CASE HonourDeletion(w)
    BY <1>5, <2>2 DEF HonourDeletion
  <2>3. CASE Goto(w, "answered") /\ wk[w].kind = "delete"
    <3>1. Moved(w, "answered", wk[w].put)
      BY <1>2, <2>3, Goes
    <3> QED BY <1>3, <2>3, <3>1 DEF Moved, WorkFineNow
  <2>4. CASE wk' = [wk EXCEPT ![w].pc = "read", ![w].etag = remote.etag]
             /\ wk[w].kind = "delete"
    <3>1. Moved(w, "read", wk[w].put)
      BY <1>2, <2>4, Reads
    <3> QED BY <1>3, <2>4, <3>1 DEF Moved, WorkFineNow
  <2>5. CASE /\ wk' = [wk EXCEPT ![w].pc = IF Wins(wk[w].op) = remote.s
                                           THEN "answered" ELSE "read",
                                 ![w].etag = remote.etag,
                                 ![w].put = Wins(wk[w].op)]
             /\ wk[w].kind = "update" /\ remote.at = "live"
    <3> DEFINE c == IF Wins(wk[w].op) = remote.s THEN "answered" ELSE "read"
    <3>1. Moved(w, c, Wins(wk[w].op))
      <4> HIDE DEF c
      <4> QED BY <1>2, <2>5, Resolves DEF c
    <3>2. c \in {"answered", "read"} /\ (c = "answered" => Wins(wk[w].op) = remote.s)
      OBVIOUS
    <3> HIDE DEF c
    <3>3. /\ PastNow(Wins(wk[w].op)) /\ Live(Wins(wk[w].op))
          /\ KnownNow(remote.s)
      BY <2>1, <2>5, WinsFine
    <3>4. WorkFineNow(wk'[w])
      BY <2>5, <3>1, <3>2, <3>3 DEF Moved, WorkFineNow
    <3> QED BY <1>3, <3>1, <3>4 DEF Moved
  <2> QED BY <1>7, <2>2, <2>3, <2>4, <2>5 DEF Read
<1>8. ASSUME NEW w \in Workers, Send(w)
      PROVE  WorkFineNow(wk'[v])
  <2>1. wk[w].kind # "create" /\ WorkFineNow(wk[w])
    BY <1>2, StillFine DEF Fine, WorkFine
  <2>2. wk[w].pc = "read"
        /\ wk' = [wk EXCEPT ![w].pc = "sent", ![w].put = wk[w].put]
    BY <1>8, <2>1 DEF Send
  <2>3. Moved(w, "sent", wk[w].put)
    BY <1>2, <2>2, Puts
  <2> QED BY <1>3, <2>1, <2>2, <2>3 DEF Moved, WorkFineNow
<1>9. ASSUME NEW w \in Workers, Land(w)
      PROVE  WorkFineNow(wk'[v])
  <2>1. wk[w].kind # "create" /\ WorkFineNow(wk[w])
    BY <1>2, StillFine DEF Fine, WorkFine
  <2>2. PICK c : Goto(w, c)
    BY <1>9, <2>1 DEF Land
  <2>3. Moved(w, c, wk[w].put)
    BY <1>2, <2>2, Goes
  <2>4. ASSUME wk[w].kind = "update"
        PROVE  c \in {"answered", "stale"}
               /\ (c = "answered" => KnownNow(wk[w].put))
    <3>1. \/ remote' = Written(wk[w].put) /\ Goto(w, "answered")
          \/ Goto(w, "stale")
      BY <1>9, <2>4 DEF Land
    <3>2. CASE remote' = Written(wk[w].put) /\ Goto(w, "answered")
      <4>1. remote'.s = wk[w].put /\ Moved(w, "answered", wk[w].put)
        BY <1>2, <3>2, Goes DEF Written
      <4> QED BY <2>3, <4>1 DEF Grows, Moved
    <3>3. CASE Goto(w, "stale")
      <4>1. Moved(w, "stale", wk[w].put)
        BY <1>2, <3>3, Goes
      <4> QED BY <2>3, <4>1 DEF Moved
    <3> QED BY <3>1, <3>2, <3>3
  <2> QED BY <1>3, <2>1, <2>3, <2>4 DEF Moved, WorkFineNow
<1>10. ASSUME NEW w \in Workers, Recheck(w)
       PROVE  WorkFineNow(wk'[v])
  <2>1. Holds(w) /\ wk[w].kind = "update"
    BY <1>10 DEF Recheck, CanSend, IInv, Stages
  <2>2. CASE HonourDeletion(w)
    BY <1>5, <2>2 DEF HonourDeletion
  <2>3. CASE /\ wk' = [wk EXCEPT ![w].pc = IF Wins(wk[w].op) = remote.s
                                           THEN "answered" ELSE "changed",
                                 ![w].put = remote.s]
             /\ remote.at = "live"
    <3> DEFINE c == IF Wins(wk[w].op) = remote.s THEN "answered" ELSE "changed"
    <3>1. Moved(w, c, remote.s)
      <4> HIDE DEF c
      <4> QED BY <1>2, <2>3, Puts DEF c
    <3>2. c \in {"answered", "changed"}
      OBVIOUS
    <3> HIDE DEF c
    <3>3. PastNow(remote.s) /\ KnownNow(remote.s)
      BY <2>1, <2>3, WinsFine
    <3>4. WorkFineNow(wk'[w])
      BY <2>1, <3>1, <3>2, <3>3 DEF Moved, WorkFineNow
    <3> QED BY <1>3, <3>1, <3>4 DEF Moved
  <2> QED BY <1>10, <2>2, <2>3 DEF Recheck
<1> QED BY <1>2, <1>4, <1>5, <1>6, <1>7, <1>8, <1>9, <1>10, WhoWorks

-----------------------------------------------------------------------------
(* Most steps are calm: they leave the link, what the row shows and what the *)
(* operations want alone.                                                    *)

RowCalm ==
    /\ row'[Twin] = row[Twin] /\ row'[Own].on = row[Own].on
    /\ row'[Own].s = row[Own].s /\ row'[Own].rev = row[Own].rev
    /\ row'[Own].sync = "synced" => row[Own].sync = "synced"

OpsCalm ==
    \A o \in Ops :
        /\ (op'[o].st = "free") = (op[o].st = "free")
        /\ op[o].st # "free" =>
               /\ op'[o].kind = op[o].kind /\ op'[o].rev = op[o].rev
               /\ op'[o].want = op[o].want /\ op'[o].base = op[o].base

\* Nothing starts or stops between the row and Google.
CutCalm ==
    /\ row'[Own].google = row[Own].google
    /\ conn' = "disconnected" => conn = "disconnected"
    /\ \/ row[Own].google
       \/ op' = op /\ (conn' = conn \/ conn # "disconnected")

\* A worker that holds an operation held it, and has not moved.
HoldsStill ==
    \A w \in Workers : Holds(w)' => Holds(w) /\ wk'[w] = wk[w]

Calm == RowCalm /\ OpsCalm /\ CutCalm /\ link' = link /\ saved \subseteq saved'

LEMMA AllSame ==
    /\ row' = row => RowCalm
    /\ op' = op => OpsCalm
    /\ op' = op /\ wk' = wk => HoldsStill
    /\ row' = row /\ op' = op /\ conn' = conn => CutCalm
BY DEF RowCalm, OpsCalm, CutCalm, HoldsStill, Holds

LEMMA SyncCalm ==
    ASSUME TypeOK, NEW y, row' = [row EXCEPT ![Own].sync = y],
           y = "synced" => row[Own].sync = "synced"
    PROVE  RowCalm /\ row'[Own].google = row[Own].google
BY Typed DEF RowCalm, RowType, Rows

LEMMA FailedCalm ==
    ASSUME TypeOK, NEW o, RowFailed(o)
    PROVE  RowCalm /\ row'[Own].google = row[Own].google
<1> DEFINE y == IF row[Own].sync = "pending" /\ row[Own].rev >= op[o].rev
                THEN "error" ELSE row[Own].sync
<1>1. row' = [row EXCEPT ![Own].sync = y] /\ (y = "synced" => row[Own].sync = "synced")
  BY DEF RowFailed
<1> HIDE DEF y
<1> QED BY <1>1, SyncCalm

LEMMA PutBackCalm ==
    ASSUME TypeOK, NEW o \in Ops, op[o].st # "free",
           NEW st, st # "free", NEW h, NEW n
    PROVE  /\ op' = [op EXCEPT ![o].st = st, ![o].holder = h] => OpsCalm
           /\ op' = [op EXCEPT ![o].st = st, ![o].tries = n] => OpsCalm
           /\ op' = [op EXCEPT ![o].st = st, ![o].holder = h,
                               ![o].tries = n] => OpsCalm
           /\ op' = [op EXCEPT ![o].holder = h] => OpsCalm
<1>1. op \in [Ops -> OpType]
  BY Typed
<1>2. op' = [op EXCEPT ![o].st = st, ![o].holder = h] => OpsCalm
  BY <1>1 DEF OpsCalm, OpType
<1>3. op' = [op EXCEPT ![o].st = st, ![o].tries = n] => OpsCalm
  BY <1>1 DEF OpsCalm, OpType
<1>4. op' = [op EXCEPT ![o].st = st, ![o].holder = h, ![o].tries = n] => OpsCalm
  BY <1>1 DEF OpsCalm, OpType
<1>5. op' = [op EXCEPT ![o].holder = h] => OpsCalm
  BY <1>1 DEF OpsCalm, OpType
<1> QED BY <1>2, <1>3, <1>4, <1>5

LEMMA RetriedCalm ==
    ASSUME TypeOK, NEW o \in Ops, op[o].st # "free", Retried(o)
    PROVE  OpsCalm /\ RowCalm /\ row'[Own].google = row[Own].google
<1>1. CASE op[o].tries >= Budget
  BY <1>1, PutBackCalm, FailedCalm DEF Retried
<1>2. CASE ~(op[o].tries >= Budget)
  BY <1>2, PutBackCalm, AllSame DEF Retried
<1> QED BY <1>1, <1>2

LEMMA StillHolds ==
    ASSUME TypeOK, TypeOK', Steady,
           \A w \in Workers : wk'[w] = wk[w] \/ wk'[w] = Idle
    PROVE  HoldsStill
<1> SUFFICES ASSUME NEW w \in Workers, Holds(w)' PROVE Holds(w) /\ wk'[w] = wk[w]
  BY DEF HoldsStill
<1>1. /\ wk'[w].op # 0 /\ op'[wk'[w].op].st = "processing"
      /\ op'[wk'[w].op].holder = w
  BY DEF Holds
<1>2. wk'[w] = wk[w]
  BY <1>1 DEF Idle
<1>3. wk[w].op \in Ops
  BY <1>1, <1>2, HeldOp
<1>4. /\ op'[wk[w].op].st = "processing" /\ op'[wk[w].op].holder = w
      /\ w # None
  BY <1>1, <1>2
<1>5. op'[wk[w].op] = op[wk[w].op]
  BY <1>3, <1>4 DEF Steady
<1> QED BY <1>1, <1>2, <1>5 DEF Holds

LEMMA RestsStill ==
    ASSUME TypeOK, NEW w \in Workers, Rest(w)
    PROVE  \A v \in Workers : wk'[v] = wk[v] \/ wk'[v] = Idle
BY Typed DEF Rest

\* What is queued and not paused belongs to a row that Google knows.
LEMMA Awake ==
    ASSUME Cut, NEW o \in Ops, op[o].st \notin {"free", "paused"}
    PROVE  row[Own].google
BY DEF Cut, Busy

LEMMA HeldAwake ==
    ASSUME TypeOK, Cut, NEW w \in Workers, Holds(w)
    PROVE  /\ wk[w].op \in Ops /\ op[wk[w].op].st # "free" /\ row[Own].google
<1>1. wk[w].op \in Ops
  BY HeldOp DEF Holds
<1> QED BY <1>1, Awake DEF Holds

LEMMA UserCalm ==
    ASSUME IInv, TypeOK', Cut, origin = "linked",
           \/ \E o \in Ops : RetryFailed(o)
           \/ \E f \in Fields : RemoteEdit(f)
           \/ Resync
    PROVE  Calm /\ HoldsStill
<1>1. TypeOK
  BY DEF IInv
<1>2. ASSUME NEW o \in Ops, RetryFailed(o) PROVE Calm /\ HoldsStill
  <2>1. op[o].st \in {"failed", "exhausted", "pending", "processing"}
        /\ row' = [row EXCEPT ![Own].sync = "pending"]
    BY <1>2 DEF RetryFailed
  <2>2. op' = op \/ op' = [op EXCEPT ![o].st = "pending", ![o].tries = 0]
    BY <1>2 DEF RetryFailed
  <2>3. OpsCalm /\ Steady
    BY <1>1, <2>1, <2>2, PutBackCalm, PutBack, Stays, AllSame
  <2>4. RowCalm /\ row'[Own].google = row[Own].google /\ row[Own].google
    BY <1>1, <1>2, <2>1, SyncCalm DEF RetryFailed
  <2>5. HoldsStill
    BY <1>1, <1>2, <2>3, StillHolds DEF RetryFailed
  <2> QED BY <1>2, <2>3, <2>4, <2>5 DEF RetryFailed, Calm, CutCalm
<1>3. CASE Resync \/ \E f \in Fields : RemoteEdit(f)
  BY <1>3, AllSame DEF Resync, RemoteEdit, Calm
<1> QED BY <1>2, <1>3

LEMMA ClaimCalm ==
    ASSUME IInv, Cut, NEW w \in Workers, NEW o \in Ops, Claim(w, o)
    PROVE  Calm
<1>1. TypeOK
  BY DEF IInv
<1>2. /\ op[o].st \in {"pending", "processing"} /\ conn' = conn /\ link' = link
      /\ saved' = saved
  BY DEF Claim, Claimable
<1>3. row[Own].google
  BY <1>2, Awake
<1>4. OpsCalm /\ RowCalm /\ row'[Own].google = row[Own].google
  <2>1. CASE op[o].tries = Budget
    BY <1>1, <1>2, <2>1, PutBackCalm, FailedCalm DEF Claim
  <2>2. CASE op[o].tries # Budget
    <3>1. op' = [op EXCEPT ![o].st = "processing", ![o].holder = w,
                           ![o].tries = op[o].tries + 1] /\ row' = row
      BY <2>2 DEF Claim
    <3> QED BY <1>1, <1>2, <3>1, PutBackCalm, AllSame
  <2> QED BY <2>1, <2>2
<1> QED BY <1>2, <1>3, <1>4 DEF Calm, CutCalm

\* A worker that reads, sends or waits for Google's answer; the exception is
\* Google's deletion.
LEMMA StageCalm ==
    ASSUME NEW w \in Workers,
           Read(w) \/ Send(w) \/ Land(w) \/ Recheck(w), ~HonourDeletion(w)
    PROVE  Calm /\ op' = op
<1>1. op' = op /\ row' = row /\ link' = link /\ conn' = conn
  BY DEF Read, Send, Land, Recheck
<1>2. saved \subseteq saved'
  BY DEF Read, Send, Land, Recheck, Recovered
<1> QED BY <1>1, <1>2, AllSame DEF Calm

LEMMA RestCalm ==
    ASSUME IInv, TypeOK', OneRow, Cut, NEW w \in Workers,
           \/ TryLater(w) \/ GiveUp(w) \/ (Complete(w) /\ ~CanSend(w))
           \/ RequestFails(w) \/ RefusedForGood(w) \/ Unauthorised(w)
    PROVE  Calm /\ HoldsStill
<1>1. TypeOK /\ Rest(w)
  BY DEF IInv, TryLater, GiveUp, Complete, RequestFails, RefusedForGood,
         Unauthorised
<1>2. link' = link /\ saved' = saved
      /\ (conn' = "disconnected" => conn = "disconnected")
  BY DEF TryLater, GiveUp, Complete, RequestFails, RefusedForGood, Unauthorised
<1>3. CASE op' = op /\ row' = row /\ conn' = conn
  BY <1>1, <1>2, <1>3, AllSame, Stays, StillHolds, RestsStill DEF Calm
<1>4. ASSUME Holds(w), ~(op' = op /\ row' = row /\ conn' = conn)
      PROVE  Calm /\ HoldsStill
  <2>1. wk[w].op \in Ops /\ op[wk[w].op].st # "free" /\ row[Own].google
    BY <1>1, <1>4, HeldAwake
  <2>2. CASE TryLater(w) \/ RequestFails(w)
    <3>1. Retried(wk[w].op)
      BY <1>4, <2>2 DEF TryLater, RequestFails
    <3>2. OpsCalm /\ RowCalm /\ row'[Own].google = row[Own].google /\ Steady
      BY <1>1, <2>1, <3>1, RetriedCalm, RetriedKeeps
    <3> QED BY <1>1, <1>2, <2>1, <3>2, StillHolds, RestsStill
            DEF Calm, CutCalm
  <2>3. CASE GiveUp(w)
    <3>1. op' = [op EXCEPT ![wk[w].op].st = "pending",
                           ![wk[w].op].holder = None,
                           ![wk[w].op].tries = op[wk[w].op].tries - 1]
          /\ row' = row
      BY <1>4, <2>3 DEF GiveUp, Deferred
    <3>2. OpsCalm /\ Steady
      BY <1>1, <2>1, <3>1, PutBackCalm, PutBack
    <3> QED BY <1>1, <1>2, <2>1, <3>1, <3>2, StillHolds, RestsStill, AllSame
            DEF Calm, CutCalm
  <2>4. CASE RefusedForGood(w)
    <3>1. op' = [op EXCEPT ![wk[w].op].st = "failed",
                           ![wk[w].op].holder = None]
          /\ RowFailed(wk[w].op)
      BY <1>4, <2>4 DEF RefusedForGood
    <3>2. OpsCalm /\ Steady
      BY <1>1, <2>1, <3>1, PutBackCalm, PutBack
    <3> QED BY <1>1, <1>2, <2>1, <3>1, <3>2, StillHolds, RestsStill, FailedCalm
            DEF Calm, CutCalm
  <2>5. CASE Unauthorised(w)
    <3>1. /\ op' = [o \in Ops |-> IF op[o].st \in {"pending", "processing"}
                                  THEN [op[o] EXCEPT !.st = "paused",
                                                     !.holder = None]
                                  ELSE op[o]]
          /\ row' = [r \in Rows |-> IF Linked(r)
                                    THEN [row[r] EXCEPT
                                            !.sync = "reconnect_required"]
                                    ELSE row[r]]
      BY <1>4, <2>5 DEF Unauthorised
    <3>2. op \in [Ops -> OpType] /\ row \in [Rows -> RowType] /\ Own \in Rows
          /\ Twin \in Rows
      BY <1>1, Typed DEF Rows
    <3>3. OpsCalm /\ Steady
      <4>1. ASSUME NEW o \in Ops
            PROVE  \/ op'[o] = op[o] /\ op[o].st \notin {"pending", "processing"}
                   \/ /\ op'[o].st = "paused" /\ op[o].st # "free"
                      /\ op'[o].kind = op[o].kind /\ op'[o].rev = op[o].rev
                      /\ op'[o].want = op[o].want /\ op'[o].base = op[o].base
        <5>1. op[o] \in OpType
          BY <3>2
        <5>2. op'[o] = IF op[o].st \in {"pending", "processing"}
                       THEN [op[o] EXCEPT !.st = "paused", !.holder = None]
                       ELSE op[o]
          BY <3>1
        <5> QED BY <5>1, <5>2 DEF OpType
      <4> QED BY <4>1 DEF OpsCalm, Steady
    <3>4. /\ row'[Twin] = row[Twin]
          /\ row'[Own] = [row[Own] EXCEPT !.sync = "reconnect_required"]
      BY <3>1, <3>2 DEF OneRow, Linked
    <3>5. RowCalm /\ row'[Own].google = row[Own].google
      BY <3>2, <3>4 DEF RowCalm, RowType
    <3> QED BY <1>1, <1>2, <2>1, <3>3, <3>5, StillHolds, RestsStill
            DEF Calm, CutCalm
  <2> QED BY <1>2, <1>4, <2>2, <2>3, <2>4, <2>5 DEF Complete
<1>5. ~Holds(w) => op' = op /\ row' = row /\ conn' = conn
  BY DEF TryLater, GiveUp, Complete, RequestFails, RefusedForGood,
         Unauthorised, Deferred
<1> QED BY <1>3, <1>4, <1>5

LEMMA ExpiryCalm ==
    ASSUME IInv, TypeOK', Cut, NEW o \in Ops, ClaimExpires(o)
    PROVE  Calm /\ HoldsStill
<1>1. TypeOK /\ op[o].st = "processing" /\ op' = [op EXCEPT ![o].holder = None]
      /\ conn' = conn /\ row' = row /\ link' = link /\ saved' = saved
  BY DEF IInv, ClaimExpires
<1>2. OpsCalm /\ Steady /\ row[Own].google
  BY <1>1, PutBackCalm, PutBack, Awake
<1>3. op[o].holder \in Workers
  BY Typed, <1>1 DEF ClaimExpires, OpType
<1>4. \A v \in Workers : wk'[v] = wk[v] \/ wk'[v] = Idle
  BY <1>1, <1>3, RestsStill DEF ClaimExpires
<1> QED BY <1>1, <1>2, <1>4, StillHolds, AllSame DEF Calm, CutCalm

\* What a page leaves of rows and operations.
LEMMA LeavesAlone ==
    ASSUME Own \in Rows, NEW rows \in [Rows -> RowType],
           NEW ops \in [Ops -> OpType], Leaves(rows, ops)
    PROVE  /\ row'[Twin] = rows[Twin] /\ row'[Own].on = rows[Own].on
           /\ row'[Own].google = rows[Own].google
           /\ row'[Own].s = rows[Own].s /\ row'[Own].rev = rows[Own].rev
           /\ row'[Own].sync = "synced" => rows[Own].sync = "synced"
           /\ \A o \in Ops : /\ (op'[o].st = "free") = (ops[o].st = "free")
                             /\ op'[o].kind = ops[o].kind
                             /\ op'[o].rev = ops[o].rev
                             /\ op'[o].want = ops[o].want
                             /\ op'[o].base = ops[o].base
           /\ rows[Own].google \/ op' = ops
<1>1. Twin \in Rows
  BY DEF Rows
<1>2. row' = rows
      \/ (row' = [rows EXCEPT ![Own].sync = "pending"] /\ rows[Own].google)
  BY DEF Leaves
<1>3. /\ row'[Twin] = rows[Twin] /\ row'[Own].on = rows[Own].on
      /\ row'[Own].google = rows[Own].google
      /\ row'[Own].s = rows[Own].s /\ row'[Own].rev = rows[Own].rev
      /\ row'[Own].sync = "synced" => rows[Own].sync = "synced"
  BY <1>1, <1>2 DEF RowType
<1>4. ASSUME NEW o \in Ops
      PROVE  op'[o] = ops[o]
             \/ /\ ops[o].st = "exhausted"
                /\ op'[o] = [ops[o] EXCEPT !.st = "pending", !.tries = 0]
  BY DEF Leaves
<1>5. \A o \in Ops : /\ (op'[o].st = "free") = (ops[o].st = "free")
                     /\ op'[o].kind = ops[o].kind /\ op'[o].rev = ops[o].rev
                     /\ op'[o].want = ops[o].want
                     /\ op'[o].base = ops[o].base
  <2> TAKE o \in Ops
  <2> DEFINE x == [ops[o] EXCEPT !.st = "pending", !.tries = 0]
  <2>1. /\ x.st = "pending" /\ x.kind = ops[o].kind /\ x.rev = ops[o].rev
        /\ x.want = ops[o].want /\ x.base = ops[o].base
    BY DEF OpType
  <2>2. op'[o] = ops[o] \/ (ops[o].st = "exhausted" /\ op'[o] = x)
    BY <1>4
  <2> HIDE DEF x
  <2> QED BY <2>1, <2>2
<1>6. rows[Own].google \/ op' = ops
  <2>1. SUFFICES ASSUME ~rows[Own].google PROVE op' = ops
    OBVIOUS
  <2>2. op' = [o \in Ops |-> ops[o]]
    BY <2>1 DEF Leaves
  <2> QED BY <2>2
<1> QED BY <1>3, <1>5, <1>6

\* A pull that changes nothing of the event.
LEMMA PullCalm ==
    ASSUME IInv, TypeOK', OneRow, Cut, NEW p \in Pullers,
           \/ ClaimPull(p) \/ List(p) \/ PullGivesUp(p) \/ PageRefused(p)
           \/ PullFails(p) \/ LeaseExpires(p)
           \/ (SavePage(p) /\ PageWithout(p))
    PROVE  Calm /\ HoldsStill
<1>1. TypeOK
  BY DEF IInv
<1>2. wk' = wk /\ \A w \in Workers : wk'[w] = wk[w]
  BY DEF ClaimPull, List, PullGivesUp, PageRefused, PullFails, LeaseExpires,
         SavePage
<1>3. CASE SavePage(p) /\ PageWithout(p)
  <2>1. Leaves(row, op) /\ link' = link /\ saved' = saved /\ conn' = conn
    BY <1>3 DEF PageWithout, SavePage
  <2>2. OpsCalm /\ RowCalm /\ CutCalm
    BY <1>1, <2>1, Typed, LeavesAlone DEF OpsCalm, RowCalm, CutCalm
  <2>3. Steady
    BY <1>1, <2>1, Typed, LeavesSteady
  <2> QED BY <1>1, <1>2, <2>1, <2>2, <2>3, StillHolds DEF Calm
<1>4. CASE \/ ClaimPull(p) \/ List(p) \/ PullGivesUp(p) \/ PageRefused(p)
           \/ LeaseExpires(p)
  BY <1>2, <1>4, AllSame DEF ClaimPull, List, PullGivesUp, PageRefused,
     LeaseExpires, Calm
<1>5. CASE PullFails(p)
  <2>1. /\ row' = row /\ op' = op /\ link' = link /\ saved' = saved
        /\ \/ conn' = conn
           \/ conn = "connected" /\ conn' = "reconnect_required"
    BY <1>5 DEF PullFails, Leads
  <2> QED BY <1>2, <2>1, AllSame DEF Calm, CutCalm
<1> QED BY <1>3, <1>4, <1>5

-----------------------------------------------------------------------------
(* What a step does with the parts of the invariant, one part at a time.     *)

\* No edit of Sydia's has become loose.
Settles == \A i \in Loose' : i \in Loose /\ edits'[i] = edits[i]

LEMMA LooseTyped ==
    ASSUME TypeOK, NEW i \in Loose
    PROVE  /\ i \in 1 .. Clock /\ i \in Nat \ {0} /\ i <= Clock
           /\ i \notin held \cup saved
           /\ edits[i].field \in Content /\ edits[i].field \in Fields
<1>1. Clock \in Nat /\ edits \in Seq(EditType)
  BY DEF Clock, TypeOK
<1>2. i \in 1 .. Clock /\ edits[i].field # Status /\ i \notin held \cup saved
  BY DEF Loose, Edited
<1>3. edits[i] \in EditType
  BY <1>1, <1>2, ElementOfSeq DEF Clock
<1> QED BY <1>1, <1>2, <1>3 DEF EditType, Content

LEMMA Unheld ==
    ASSUME TypeOK, NEW i \in Loose, NEW s, Known(s) PROVE ~Has(s, i)
BY LooseTyped DEF Known, Values, Has

LEMMA Shown ==
    ASSUME TypeOK, NEW i \in Loose, NEW s, Has(s, i) PROVE i \in Values(s)
BY LooseTyped DEF Values, Has

\* Most steps add no edit of Sydia's; time may drop some.
LEMMA SettlesHere ==
    ASSUME TypeOK, Grows, saved \subseteq saved',
           edits' = edits \/ \E f \in Fields : RemoteEdit(f)
    PROVE  Settles
<1>1. Clock \in Nat /\ edits \in Seq(EditType) /\ held \subseteq held'
  BY DEF Clock, TypeOK, Grows
<1>2. CASE edits' = edits
  BY <1>1, <1>2 DEF Settles, Loose, Edited, Replaced, Clock
<1>3. ASSUME NEW f \in Fields, RemoteEdit(f) PROVE Settles
  <2> DEFINE e == [by |-> "google", field |-> f]
  <2>1. edits' = Append(edits, e) /\ e \in EditType
    BY <1>3 DEF RemoteEdit, EditType
  <2>2. /\ Clock' = Clock + 1 /\ edits'[Clock + 1] = e
        /\ \A j \in 1 .. Clock : edits'[j] = edits[j]
    BY <1>1, <2>1, AppendProperties DEF Clock
  <2>3. e.by = "google"
    OBVIOUS
  <2> HIDE DEF e
  <2>4. SUFFICES ASSUME NEW i \in Loose' PROVE i \in Loose /\ edits'[i] = edits[i]
    BY DEF Settles
  <2>5. /\ i \in 1 .. Clock' /\ edits'[i].by = "sydia"
        /\ edits'[i].field # Status /\ i \notin held' \cup saved'
        /\ ~\E j \in i + 1 .. Clock' :
              /\ edits'[j].by = edits'[i].by
              /\ edits'[j].field \in {edits'[i].field, Status}
    BY DEF Loose, Edited, Replaced
  <2>6. i \in 1 .. Clock
    BY <1>1, <2>2, <2>3, <2>5
  <2>7. \A j \in i + 1 .. Clock : j \in 1 .. Clock /\ j \in i + 1 .. Clock'
    BY <1>1, <2>2, <2>6
  <2>8. ~Replaced(i)
    BY <2>2, <2>5, <2>6, <2>7 DEF Replaced
  <2> QED BY <1>1, <2>2, <2>5, <2>6, <2>8 DEF Loose, Edited
<1> QED BY <1>2, <1>3

\* Nothing is loose any more: the edits that the row has are recorded, or
\* there were none.
LEMMA NoneLeft ==
    ASSUME TypeOK, Settles, InRow,
           Loose = {} \/ Values(row[Own].s) \subseteq saved'
    PROVE  Loose' = {}
<1> SUFFICES ASSUME NEW i \in Loose' PROVE FALSE
  OBVIOUS
<1>1. i \in Loose /\ Values(row[Own].s) \subseteq saved'
  BY DEF Settles
<1>2. i \in saved'
  BY <1>1, Shown DEF InRow
<1> QED BY <1>2 DEF Loose

LEMMA NoneTraced == Loose' = {} => Traced'
BY DEF Traced, InRow, Unagreed, Alive, Ahead, InNewest, Pending, Behind, Carried

\* A worker that holds an operation held it.
HoldsOn ==
    \A w \in Workers : Holds(w)' => Holds(w) /\ wk'[w].op = wk[w].op

LEMMA OldestStays ==
    ASSUME TypeOK, HoldsOn, Oldest,
           \A o \in Ops : Busy(o)' => Busy(o) /\ op'[o].rev = op[o].rev
    PROVE  Oldest'
<1> SUFFICES ASSUME NEW w \in Workers, Holds(w)', NEW q \in Ops, Busy(q)'
             PROVE  op'[q].rev >= op'[wk'[w].op].rev
  BY DEF Oldest
<1>1. Holds(w) /\ wk'[w].op = wk[w].op
  BY DEF HoldsOn
<1>2. wk[w].op \in Ops
  BY <1>1, HeldOp DEF Holds
<1>3. Busy(wk[w].op)'
  BY <1>1 DEF Busy, Holds
<1> QED BY <1>1, <1>2, <1>3 DEF Oldest

LEMMA StillOn == HoldsStill => HoldsOn
BY DEF HoldsStill, HoldsOn

-----------------------------------------------------------------------------
(* Calm steps keep every part.                                               *)

LEMMA CalmFine ==
    ASSUME IInv, Fine, Grows, RowCalm, OpsCalm, link' = link
    PROVE  OneRow' /\ RowFine' /\ QueueFine'
<1>1. TypeOK /\ OneRow /\ RowFine
  BY DEF IInv, Fine
<1>2. row[Own].s \in Snapshot /\ link.common \in Snapshot
  BY <1>1, Typed DEF OneRow, RowType, LinkType
<1>3. OneRow'
  BY <1>1 DEF OneRow, RowCalm
<1>4. RowFine'
  <2>1. PastNow(row'[Own].s) /\ (Live(row[Own].s) => PastNow(link'.common))
    BY <1>1, <1>2, StillFine DEF RowFine, RowCalm
  <2>2. row'[Own].sync = "synced" /\ Live(row[Own].s) => KnownNow(row'[Own].s)
    BY <1>1, StillFine DEF RowFine, RowCalm
  <2> QED BY <2>1, <2>2 DEF RowFine, RowCalm, Past, PastNow, Known, KnownNow, Live
<1>5. ASSUME NEW o \in Ops, Busy(o)' PROVE OpFine(op[o])'
  <2>1. Busy(o)
    BY <1>5 DEF OpsCalm, Busy
  <2>2. op[o] \in OpType /\ OpFineNow(op[o])
    BY <1>1, <2>1, Typed, StillFine DEF Fine, QueueFine
  <2> QED BY <2>1, <2>2
          DEF Busy, OpFine, OpFineNow, OpsCalm, Past, PastNow, Live
<1> QED BY <1>3, <1>4, <1>5 DEF QueueFine

LEMMA CalmOrder ==
    ASSUME Bounded, Cut, Calm PROVE Bounded' /\ Cut'
<1>1. Bounded'
  BY DEF Bounded, Calm, RowCalm, OpsCalm, Busy
<1>2. Cut'
  BY DEF Cut, Calm, CutCalm, OpsCalm, Busy
<1> QED BY <1>1, <1>2

\* All the traces but those that workers carry.
LEMMA CalmTraced ==
    ASSUME Settles, Traced, RowCalm, OpsCalm, link' = link,
           row'[Own].google => row[Own].google
    PROVE  /\ InRow' /\ Unagreed' /\ Alive' /\ Ahead'
           /\ InNewest' /\ Pending' /\ Behind'
<1>1. /\ InRow /\ Unagreed /\ Alive /\ Ahead /\ InNewest /\ Pending /\ Behind
      /\ \A i \in Loose' : i \in Loose /\ edits'[i] = edits[i]
  BY DEF Traced, Settles
<1>2. InRow' /\ Unagreed' /\ Alive'
  BY <1>1 DEF InRow, Unagreed, Alive, RowCalm, Has, Live
<1>3. Ahead'
  BY <1>1 DEF Ahead, RowCalm
<1>4. InNewest' /\ Pending'
  BY <1>1 DEF InNewest, Pending, RowCalm, OpsCalm, Has, Busy
<1>5. Behind'
  BY <1>1 DEF Behind, OpsCalm, Has, Busy
<1> QED BY <1>2, <1>3, <1>4, <1>5

LEMMA CarriedStill ==
    ASSUME TypeOK, Settles, Carried, HoldsStill,
           \A o \in Ops : Busy(o)' => op'[o].want = op[o].want
    PROVE  Carried'
<1> SUFFICES ASSUME NEW w \in Workers, Holds(w)', wk'[w].kind = "update",
                    NEW i \in Loose', Has(op[wk[w].op].want, i)'
             PROVE  /\ wk'[w].pc # "answered"
                    /\ wk'[w].pc \in {"read", "sent"} => Has(wk[w].put, i)'
  BY DEF Carried
<1>1. Holds(w) /\ wk'[w] = wk[w] /\ i \in Loose /\ edits'[i] = edits[i]
  BY DEF HoldsStill, Settles
<1>2. wk[w].op \in Ops
  BY <1>1, HeldOp DEF Holds
<1>3. Busy(wk[w].op)'
  BY <1>1 DEF Busy, Holds
<1>4. Has(op[wk[w].op].want, i)
  BY <1>1, <1>2, <1>3 DEF Has
<1> QED BY <1>1, <1>4 DEF Carried, Has

\* Steps in which no worker moves on.
LEMMA CalmKeeps ==
    ASSUME IInv, Fine, Order, Traced, Grows, Calm, HoldsStill,
           edits' = edits \/ \E f \in Fields : RemoteEdit(f)
    PROVE  /\ OneRow' /\ RowFine' /\ QueueFine'
           /\ Order' /\ Traced'
<1>1. TypeOK /\ RowCalm /\ OpsCalm /\ link' = link /\ saved \subseteq saved'
      /\ row'[Own].google = row[Own].google
  BY DEF IInv, Calm, CutCalm
<1>2. OneRow' /\ RowFine' /\ QueueFine'
  BY <1>1, CalmFine
<1>3. Order'
  <2>1. Oldest'
    BY <1>1, OldestStays, StillOn DEF OpsCalm, Busy, Order
  <2> QED BY <2>1, CalmOrder DEF Order
<1>4. Traced'
  <2>1. Settles
    BY <1>1, SettlesHere
  <2>2. Carried'
    BY <1>1, <2>1, CarriedStill DEF Traced, OpsCalm, Busy
  <2> QED BY <1>1, <2>1, <2>2, CalmTraced DEF Traced
<1> QED BY <1>2, <1>3, <1>4

LEMMA ClaimEdits ==
    ASSUME IInv, Fine, Order, Traced, Grows, NEW w \in Workers, NEW o \in Ops,
           Claim(w, o)
    PROVE  /\ OneRow' /\ RowFine' /\ QueueFine'
           /\ Order' /\ Traced'
<1>1. TypeOK /\ Cut /\ Calm /\ edits' = edits
  BY ClaimCalm DEF IInv, Order, Claim
<1>2. RowCalm /\ OpsCalm /\ link' = link /\ saved \subseteq saved'
      /\ row'[Own].google = row[Own].google
  BY <1>1 DEF Calm, CutCalm
<1>3. Settles
  BY <1>1, <1>2, SettlesHere
<1>4. op \in [Ops -> OpType] /\ wk \in [Workers -> WorkType]
  BY <1>1, Typed
\* Whoever holds an operation now has held it, or has just claimed it.
<1>5. ASSUME NEW v \in Workers, Holds(v)'
      PROVE  \/ Holds(v) /\ wk'[v] = wk[v]
             \/ /\ wk'[v].op = o /\ wk'[v].pc = "claimed"
  <2>1. /\ wk'[v].op # 0 /\ op'[wk'[v].op].st = "processing"
        /\ op'[wk'[v].op].holder = v
    BY <1>5 DEF Holds
  <2>2. CASE op[o].tries = Budget
    <3>1. op' = [op EXCEPT ![o].st = "exhausted", ![o].holder = None]
          /\ wk' = wk
      BY <2>2 DEF Claim
    <3>2. wk[v].op \in Ops
      BY <1>1, <2>1, <3>1, HeldOp
    <3>3. wk[v].op # o
      BY <1>4, <2>1, <3>1, <3>2
    <3>4. op'[wk[v].op] = op[wk[v].op]
      BY <1>4, <3>1, <3>2, <3>3
    <3> QED BY <2>1, <3>1, <3>4 DEF Holds
  <2>3. CASE op[o].tries # Budget
    <3> DEFINE c == [Idle EXCEPT !.pc = "claimed", !.op = o,
                                 !.kind = op[o].kind]
    <3>1. /\ op' = [op EXCEPT ![o].st = "processing", ![o].holder = w,
                              ![o].tries = op[o].tries + 1]
          /\ wk' = [wk EXCEPT ![w] = c]
      BY <2>3 DEF Claim
    <3>2. c.op = o /\ c.pc = "claimed"
      BY DEF Idle
    <3> HIDE DEF c
    <3>3. CASE v = w
      BY <1>4, <3>1, <3>2, <3>3
    <3>4. CASE v # w
      <4>1. wk'[v] = wk[v]
        BY <1>4, <3>1, <3>4
      <4>2. wk[v].op \in Ops
        BY <1>1, <2>1, <4>1, HeldOp
      <4>3. wk[v].op # o
        BY <1>4, <2>1, <3>1, <3>4, <4>1, <4>2 DEF OpType
      <4>4. op'[wk[v].op] = op[wk[v].op]
        BY <1>4, <3>1, <4>2, <4>3
      <4> QED BY <2>1, <4>1, <4>4 DEF Holds
    <3> QED BY <3>3, <3>4
  <2> QED BY <2>2, <2>3
<1>6. Oldest'
  <2>1. SUFFICES ASSUME NEW v \in Workers, Holds(v)', NEW q \in Ops, Busy(q)'
                 PROVE  op'[q].rev >= op'[wk'[v].op].rev
    BY DEF Oldest
  <2>2. Busy(q) /\ op'[q].rev = op[q].rev
    BY <1>2, <2>1 DEF OpsCalm, Busy
  <2>3. CASE Holds(v) /\ wk'[v] = wk[v]
    <3>1. wk[v].op \in Ops /\ op[wk[v].op].st # "free"
      BY <1>1, <2>3, HeldOp DEF Holds
    <3> QED BY <1>2, <2>2, <2>3, <3>1 DEF Order, Oldest, OpsCalm
  <2>4. CASE wk'[v].op = o
    <3>1. op[q].rev >= op[o].rev /\ op[o].st # "free"
      BY <2>2 DEF Claim, Claimable, Busy
    <3> QED BY <1>2, <2>2, <2>4, <3>1 DEF OpsCalm
  <2> QED BY <1>5, <2>1, <2>3, <2>4
<1>7. Carried'
  <2>1. SUFFICES ASSUME NEW v \in Workers, Holds(v)', wk'[v].kind = "update",
                        NEW i \in Loose', Has(op[wk[v].op].want, i)'
                 PROVE  /\ wk'[v].pc # "answered"
                        /\ wk'[v].pc \in {"read", "sent"} => Has(wk[v].put, i)'
    BY DEF Carried
  <2>2. CASE Holds(v) /\ wk'[v] = wk[v]
    <3>1. wk[v].op \in Ops /\ op[wk[v].op].st # "free"
          /\ i \in Loose /\ edits'[i] = edits[i]
      BY <1>1, <1>3, <2>2, HeldOp DEF Holds, Settles
    <3>2. Has(op[wk[v].op].want, i)
      <4>1. op'[wk[v].op].want = op[wk[v].op].want
        BY <1>2, <3>1 DEF OpsCalm
      <4> QED BY <2>1, <2>2, <3>1, <4>1 DEF Has
    <3> QED BY <2>1, <2>2, <3>1, <3>2 DEF Traced, Carried, Has
  <2>3. CASE wk'[v].pc = "claimed"
    BY <2>3
  <2> QED BY <1>5, <2>1, <2>2, <2>3
<1>8. OneRow' /\ RowFine' /\ QueueFine'
  BY <1>2, CalmFine
<1>9. Order'
  BY <1>1, <1>6, CalmOrder DEF Order
<1> QED BY <1>2, <1>3, <1>7, <1>8, <1>9, CalmTraced DEF Traced

-----------------------------------------------------------------------------
(* A worker on its way carries what its operation wants.                     *)

\* The update of a loose edit does not count it as agreed, and Google has not
\* got it: what it makes of Google's copy has the edit, or a record has.
LEMMA WinsCarries ==
    ASSUME IInv, Fine, Oldest, Behind, NEW w \in Workers, Holds(w),
           wk[w].kind = "update", NEW i \in Loose,
           Has(op[wk[w].op].want, i), i \notin Recovered(wk[w].op)
    PROVE  Has(Wins(wk[w].op), i) /\ Wins(wk[w].op) # remote.s
<1> DEFINE o == wk[w].op
           f == edits[i].field
<1>1. TypeOK /\ o # 0 /\ op[o].kind = "update" /\ op[o].st = "processing"
  BY DEF IInv, Counted, Holds
<1>2. /\ o \in Ops /\ op[o].want \in Snapshot /\ op[o].base \in Snapshot
      /\ remote.s \in Snapshot
  BY <1>1, HeldOp
<1>3. f \in Fields /\ op[o].want[f] = i
  BY <1>1, LooseTyped DEF Has
<1>4. remote.s[f] # i
  BY <1>1, Unheld DEF Fine, CopyFine, Has
<1>5. op[o].base[f] # i
  <2>1. SUFFICES ASSUME Has(op[o].base, i) PROVE FALSE
    BY DEF Has
  <2>2. Busy(o)
    BY <1>1 DEF Busy
  <2>3. PICK q \in Ops : Busy(q) /\ op[q].rev < op[o].rev
    BY <1>1, <1>2, <2>1, <2>2 DEF Behind
  <2>4. op[q].rev >= op[o].rev
    BY <2>3 DEF Oldest
  <2>5. op[q].rev \in Nat /\ op[o].rev \in Nat
    BY <1>1, <1>2, Typed DEF OpType
  <2> QED BY <2>3, <2>4, <2>5
<1>6. i \in Values(op[o].want)
  BY <1>1, <1>3, Shown DEF Has
<1> HIDE DEF o, f
<1>7. Clashing(op[o].base, op[o].want, remote.s) = {}
  BY <1>6 DEF Recovered, o
<1>8. Wins(o)[f] = i
  BY <1>2, <1>3, <1>4, <1>5, <1>7 DEF Wins, Pushed, Patch, Wanted, Clashing,
     Rebased, Target, Overlay, Snapshot
<1> QED BY <1>4, <1>8 DEF Has, o, f

LEMMA MovedHolds ==
    ASSUME TypeOK, NEW w \in Workers, NEW c, NEW s, Moved(w, c, s), op' = op
    PROVE  \A v \in Workers : /\ Holds(v)' => Holds(v)
                              /\ wk'[v].op = wk[v].op
                              /\ v # w => wk'[v] = wk[v]
BY DEF Moved, Holds

LEMMA MovedCarries ==
    ASSUME TypeOK, Settles, Carried, NEW w \in Workers, NEW c, NEW s,
           Moved(w, c, s), op' = op,
           \A i \in Loose' : Holds(w) /\ wk[w].kind = "update"
                             /\ Has(op[wk[w].op].want, i) =>
                /\ c # "answered"
                /\ c \in {"read", "sent"} => Has(s, i)
    PROVE  Carried'
<1> SUFFICES ASSUME NEW v \in Workers, Holds(v)', wk'[v].kind = "update",
                    NEW i \in Loose', Has(op[wk[v].op].want, i)'
             PROVE  /\ wk'[v].pc # "answered"
                    /\ wk'[v].pc \in {"read", "sent"} => Has(wk[v].put, i)'
  BY DEF Carried
<1>1. Holds(v) /\ wk'[v].op = wk[v].op /\ i \in Loose /\ edits'[i] = edits[i]
  BY MovedHolds DEF Settles
<1>2. Has(op[wk[v].op].want, i)
  BY <1>1 DEF Has
<1>3. CASE v # w
  BY <1>1, <1>2, <1>3, MovedHolds DEF Carried, Has
<1>4. CASE v = w
  BY <1>1, <1>2, <1>4 DEF Moved, Has
<1> QED BY <1>3, <1>4

LEMMA StageCarries ==
    ASSUME IInv, Fine, Order, Traced, Grows, Settles, NEW w \in Workers,
           Read(w) \/ Send(w) \/ Land(w) \/ Recheck(w), ~HonourDeletion(w)
    PROVE  Carried' /\ HoldsOn
<1>1. TypeOK /\ op' = op /\ Carried /\ Oldest /\ Behind
      /\ wk[w].kind # "create"
  BY StageCalm DEF IInv, Order, Traced, Fine, WorkFine
<1>2. SUFFICES \E c, s :
                  /\ Moved(w, c, s)
                  /\ \A i \in Loose' : Holds(w) /\ wk[w].kind = "update"
                                        /\ Has(op[wk[w].op].want, i) =>
                        /\ c # "answered"
                        /\ c \in {"read", "sent"} => Has(s, i)
  <2>1. PICK c, s : /\ Moved(w, c, s)
                    /\ \A i \in Loose' : Holds(w) /\ wk[w].kind = "update"
                            /\ Has(op[wk[w].op].want, i) =>
                               /\ c # "answered"
                               /\ c \in {"read", "sent"} => Has(s, i)
    BY <1>2
  <2> QED BY <1>1, <2>1, MovedCarries, MovedHolds DEF HoldsOn
<1>3. CASE Read(w)
  <2>1. Holds(w)
    BY <1>3 DEF Read, CanSend
  <2>2. CASE wk[w].kind = "delete"
    <3>1. (\E c : Goto(w, c))
          \/ wk' = [wk EXCEPT ![w].pc = "read", ![w].etag = remote.etag]
      BY <1>3, <2>2 DEF Read
    <3> QED BY <1>1, <2>2, <3>1, Goes, Reads
  <2>3. CASE wk[w].kind = "update"
    <3> DEFINE c == IF Wins(wk[w].op) = remote.s THEN "answered" ELSE "read"
    <3>1. /\ wk' = [wk EXCEPT ![w].pc = c, ![w].etag = remote.etag,
                              ![w].put = Wins(wk[w].op)]
          /\ saved' = Recovered(wk[w].op)
      BY <1>3, <2>3 DEF Read
    <3>2. c = "answered" => Wins(wk[w].op) = remote.s
      OBVIOUS
    <3> HIDE DEF c
    <3>3. Moved(w, c, Wins(wk[w].op))
      BY <1>1, <3>1, Resolves
    <3>4. ASSUME NEW i \in Loose', Has(op[wk[w].op].want, i)
          PROVE  c # "answered" /\ Has(Wins(wk[w].op), i)
      <4>1. i \in Loose /\ i \notin Recovered(wk[w].op)
        BY <3>1 DEF Settles, Loose
      <4> QED BY <1>1, <2>1, <2>3, <3>2, <3>4, <4>1, WinsCarries
    <3> QED BY <3>3, <3>4
  <2> QED BY <1>3, <2>2, <2>3 DEF Read
<1>4. CASE Send(w)
  <2>1. /\ wk[w].pc = "read"
        /\ wk' = [wk EXCEPT ![w].pc = "sent", ![w].put = wk[w].put]
    BY <1>1, <1>4 DEF Send
  <2>2. Moved(w, "sent", wk[w].put)
    BY <1>1, <2>1, Puts
  <2>3. \A i \in Loose' : Holds(w) /\ wk[w].kind = "update"
            /\ Has(op[wk[w].op].want, i) => Has(wk[w].put, i)
    BY <1>1, <2>1 DEF Carried, Settles
  <2> QED BY <2>2, <2>3
<1>5. CASE Land(w)
  <2>1. PICK c : Goto(w, c)
    BY <1>1, <1>5 DEF Land
  <2>2. Moved(w, c, wk[w].put)
    BY <1>1, <2>1, Goes
  <2>3. CASE wk[w].kind = "update"
    <3>1. wk[w].pc = "sent"
      BY <1>5 DEF Land
    <3>2. \/ remote' = Written(wk[w].put)
          \/ Goto(w, "stale")
      BY <1>5, <2>3 DEF Land
    <3>3. CASE Goto(w, "stale")
      <4>1. Moved(w, "stale", wk[w].put)
        BY <1>1, <3>3, Goes
      <4> QED BY <4>1
    <3>4. CASE remote' = Written(wk[w].put)
      <4>1. SUFFICES ASSUME NEW i \in Loose', Holds(w),
                            Has(op[wk[w].op].want, i)
                     PROVE  FALSE
        BY <2>2
      <4>2. i \in Loose
        BY DEF Settles
      <4>3. Has(wk[w].put, i)
        BY <2>3, <3>1, <4>1, <4>2 DEF Traced, Carried
      <4>4. i \in Values(remote'.s) /\ i # 0
        BY <1>1, <3>4, <4>2, <4>3, Shown, LooseTyped DEF Written
      <4>5. i \in held'
        BY <4>4 DEF Grows, KnownNow
      <4> QED BY <4>5 DEF Loose
    <3> QED BY <3>2, <3>3, <3>4
  <2>4. CASE wk[w].kind # "update"
    BY <2>2, <2>4
  <2> QED BY <2>3, <2>4
<1>6. CASE Recheck(w)
  <2>1. Holds(w) /\ wk[w].kind = "update"
    BY <1>6 DEF Recheck, CanSend, IInv, Stages
  <2> DEFINE c == IF Wins(wk[w].op) = remote.s THEN "answered" ELSE "changed"
  <2>2. /\ wk' = [wk EXCEPT ![w].pc = c, ![w].put = remote.s]
        /\ saved' = Recovered(wk[w].op)
    BY <1>6 DEF Recheck
  <2>3. /\ c \in {"answered", "changed"}
        /\ c = "answered" => Wins(wk[w].op) = remote.s
    OBVIOUS
  <2> HIDE DEF c
  <2>4. Moved(w, c, remote.s)
    BY <1>1, <2>2, Puts
  <2>5. ASSUME NEW i \in Loose', Has(op[wk[w].op].want, i)
        PROVE  c = "changed"
    <3>1. i \in Loose /\ i \notin Recovered(wk[w].op)
      BY <2>2 DEF Settles, Loose
    <3> QED BY <1>1, <2>1, <2>3, <2>5, <3>1, WinsCarries
  <2> QED BY <2>4, <2>5
<1> QED BY <1>3, <1>4, <1>5, <1>6

LEMMA StageEdits ==
    ASSUME IInv, Fine, Order, Traced, Grows, NEW w \in Workers,
           Read(w) \/ Send(w) \/ Land(w) \/ Recheck(w), ~HonourDeletion(w)
    PROVE  /\ OneRow' /\ RowFine' /\ QueueFine'
           /\ Order' /\ Traced'
<1>1. TypeOK /\ Calm /\ edits' = edits
  BY StageCalm DEF IInv, Read, Send, Land, Recheck
<1>2. RowCalm /\ OpsCalm /\ link' = link /\ saved \subseteq saved'
      /\ row'[Own].google = row[Own].google
  BY <1>1 DEF Calm, CutCalm
<1>3. Settles
  BY <1>1, <1>2, SettlesHere
<1>4. Carried' /\ HoldsOn
  BY <1>3, StageCarries
<1>5. Oldest'
  BY <1>1, <1>2, <1>4, OldestStays DEF OpsCalm, Busy, Order
<1>6. OneRow' /\ RowFine' /\ QueueFine'
  BY <1>2, CalmFine
<1>7. Order'
  BY <1>1, <1>5, CalmOrder DEF Order
<1> QED BY <1>2, <1>3, <1>4, <1>6, <1>7, CalmTraced DEF Traced

-----------------------------------------------------------------------------
(* Google's deletion, or Sydia's, ends the event with all its operations.    *)

LEMMA FreeHands ==
    ASSUME op' = Cancelled, TypeOK'
    PROVE  /\ \A o \in Ops : ~Busy(o)'
           /\ \A w \in Workers : ~Holds(w)'
           /\ QueueFine'
<1>1. \A o \in Ops : op'[o] = Free
  BY DEF Cancelled
<1>2. \A w \in Workers : wk'[w].op # 0 => wk'[w].op \in Ops
  BY DEF TypeOK, WorkType
<1>3. \A o \in Ops : ~Busy(o)'
  BY <1>1 DEF Busy, Free
<1>4. \A w \in Workers : ~Holds(w)'
  BY <1>2, <1>3 DEF Busy, Holds
<1> QED BY <1>3, <1>4 DEF QueueFine

LEMMA EndsEvent ==
    ASSUME IInv, TypeOK', Fine, Grows, Cut, op' = Cancelled, conn' = conn,
           row'[Twin] = row[Twin], row'[Own].on = row[Own].on,
           row'[Own].google = row[Own].google,
           row'[Own].s = [row[Own].s EXCEPT ![Status] = 1],
           link' # None, link'.ev = Own, link'.synced <= row'[Own].rev
    PROVE  /\ OneRow' /\ RowFine' /\ QueueFine'
           /\ Order'
<1>1. TypeOK /\ OneRow /\ RowFine
  BY DEF IInv, Fine
<1>2. row[Own].s \in Snapshot
  BY <1>1, Typed DEF RowType
<1>3. PastNow(row'[Own].s)
  <2>1. PastNow(row[Own].s)
    BY <1>1, <1>2, StillFine DEF RowFine
  <2> QED BY <1>2, <2>1 DEF PastNow, Content, Snapshot
<1>4. ~Live(row'[Own].s)
  BY <1>2 DEF Live, Snapshot
<1>5. RowFine'
  BY <1>3, <1>4 DEF RowFine, Past, PastNow, Live
<1>6. Order'
  BY FreeHands DEF Order, Bounded, Oldest, Cut
<1> QED BY <1>1, <1>5, <1>6, FreeHands DEF OneRow

\* The edits that the ended event had are recorded.
LEMMA EndsTraced ==
    ASSUME TypeOK, Grows, Traced, edits' = edits, saved \subseteq saved',
           Loose = {} \/ Values(row[Own].s) \subseteq saved'
    PROVE  Traced'
BY SettlesHere, NoneLeft, NoneTraced DEF Traced

LEMMA HonourEdits ==
    ASSUME IInv, TypeOK', Fine, Order, Traced, Grows, NEW w \in Workers,
           Read(w) \/ Recheck(w), HonourDeletion(w)
    PROVE  /\ OneRow' /\ RowFine' /\ QueueFine'
           /\ Order' /\ Traced'
<1>1. TypeOK /\ conn' = conn /\ edits' = edits /\ OneRow /\ Bounded /\ Cut
  BY DEF IInv, Read, Recheck, Fine, Order
<1>2. row \in [Rows -> RowType] /\ Own \in Rows /\ Twin \in Rows
      /\ link \in LinkType
  BY <1>1, Typed DEF Rows, OneRow
<1>3. /\ op' = Cancelled
      /\ row' = [row EXCEPT ![Own].s[Status] = 1, ![Own].sync = "synced",
                            ![Own].rev = row[Own].rev + 1]
      /\ link' = [link EXCEPT !.common = Blank, !.tomb = TRUE]
      /\ saved' = saved \cup Values(row[Own].s)
  BY DEF HonourDeletion
<1>4. /\ row'[Twin] = row[Twin] /\ row'[Own].on = row[Own].on
      /\ row'[Own].google = row[Own].google
      /\ row'[Own].s = [row[Own].s EXCEPT ![Status] = 1]
      /\ row'[Own].rev = row[Own].rev + 1
  BY <1>2, <1>3 DEF RowType
<1>5. link'.ev = Own /\ link'.synced = link.synced /\ link' \in LinkType
  BY <1>1, <1>2, <1>3, BlankTyped DEF LinkType, OneRow
<1>6. link'.synced <= row'[Own].rev
  BY <1>1, <1>2, <1>4, <1>5 DEF Bounded, LinkType, RowType
<1>7. Traced'
  BY <1>1, <1>3, EndsTraced
<1> QED BY <1>1, <1>3, <1>4, <1>5, <1>6, <1>7, EndsEvent, LinkAssumption

LEMMA DeletedEdits ==
    ASSUME IInv, TypeOK', Fine, Order, Traced, Grows, NEW w \in Workers,
           Complete(w), CanSend(w), wk[w].kind = "delete"
    PROVE  /\ OneRow' /\ RowFine' /\ QueueFine'
           /\ Order' /\ Traced'
<1> DEFINE o == wk[w].op
<1>1. TypeOK /\ conn' = conn /\ edits' = edits /\ OneRow /\ Bounded /\ Cut
      /\ CompleteDelete(w) /\ Linked(Own)
  BY DEF IInv, Complete, Fine, Order, OneRow, Linked
<1>2. row \in [Rows -> RowType] /\ Own \in Rows /\ Twin \in Rows
      /\ link \in LinkType
  BY <1>1, Typed DEF Rows, OneRow
<1>3. o \in Ops /\ Busy(o) /\ op[o] \in OpType
  BY <1>1, HeldOp DEF CanSend, Holds, Busy
<1>4. /\ op' = Cancelled
      /\ row' = [row EXCEPT ![Own].s[Status] = 1, ![Own].sync = "synced"]
      /\ link' = [link EXCEPT !.common = op[o].want, !.synced = op[o].rev,
                              !.tomb = TRUE]
      /\ saved' = IF row[Own].rev > op[o].rev \/ Live(row[Own].s)
                  THEN saved \cup Values(row[Own].s) ELSE saved
  BY <1>1 DEF CompleteDelete
<1>5. /\ row'[Twin] = row[Twin] /\ row'[Own].on = row[Own].on
      /\ row'[Own].google = row[Own].google
      /\ row'[Own].s = [row[Own].s EXCEPT ![Status] = 1]
      /\ row'[Own].rev = row[Own].rev
  BY <1>2, <1>4 DEF RowType
<1>6. link'.ev = Own /\ link'.synced = op[o].rev /\ link' \in LinkType
  BY <1>1, <1>2, <1>3, <1>4 DEF LinkType, OneRow, OpType
<1>7. link'.synced <= row'[Own].rev
  BY <1>1, <1>3, <1>5, <1>6 DEF Bounded
<1>8. Traced'
  BY <1>1, <1>4, EndsTraced DEF Traced, Alive
<1> HIDE DEF o
<1> QED BY <1>1, <1>4, <1>5, <1>6, <1>7, <1>8, EndsEvent, LinkAssumption

LEMMA PageDeletedEdits ==
    ASSUME IInv, TypeOK', Fine, Order, Traced, Grows, NEW p \in Pullers,
           SavePage(p), PageOfDeleted(p)
    PROVE  /\ OneRow' /\ RowFine' /\ QueueFine'
           /\ Order' /\ Traced'
<1> DEFINE rev   == row[Own].rev + (IF Live(row[Own].s) THEN 1 ELSE 0)
           after == [row EXCEPT ![Own].s[Status] = 1, ![Own].sync = "synced",
                                ![Own].rev = rev]
<1>1. TypeOK /\ conn' = conn /\ edits' = edits /\ OneRow /\ Bounded /\ Cut
      /\ link.ev = Own
  BY DEF IInv, SavePage, Fine, Order, OneRow
<1>2. row \in [Rows -> RowType] /\ Own \in Rows /\ Twin \in Rows
      /\ link \in LinkType /\ rev \in Nat
  BY <1>1, Typed DEF Rows, OneRow, RowType
<1>3. /\ saved' = IF Dirty(Own) /\ Live(row[Own].s)
                  THEN saved \cup Values(row[Own].s) ELSE saved
      /\ Leaves(after, Cancelled)
      /\ link' = [link EXCEPT !.common = Blank, !.synced = rev, !.tomb = TRUE,
                              !.seen = pl[p].gen]
  BY <1>1 DEF PageOfDeleted
<1>4. after \in [Rows -> RowType]
  <2>1. TypeOK /\ Own \in Rows /\ rev \in Nat
    BY <1>1, <1>2
  <2> HIDE DEF rev
  <2> QED BY <2>1, RowCancelled
<1>5. /\ after[Twin] = row[Twin] /\ after[Own].on = row[Own].on
      /\ after[Own].google = row[Own].google
      /\ after[Own].s = [row[Own].s EXCEPT ![Status] = 1]
      /\ after[Own].rev = rev
  <2> HIDE DEF rev
  <2> QED BY <1>2 DEF RowType
<1> HIDE DEF after
<1>6. /\ row'[Twin] = row[Twin] /\ row'[Own].on = row[Own].on
      /\ row'[Own].google = row[Own].google
      /\ row'[Own].s = [row[Own].s EXCEPT ![Status] = 1]
      /\ row'[Own].rev = rev
  BY <1>2, <1>3, <1>4, <1>5, CancelledTyped, LeavesAlone
<1>7. op' = Cancelled
  <2>1. op' = [o \in Ops |-> Cancelled[o]]
    BY <1>3 DEF Leaves, Cancelled, Free
  <2> QED BY <2>1 DEF Cancelled
<1>8. link'.ev = Own /\ link'.synced = rev /\ link' \in LinkType
  <2>1. pl[p].gen \in Nat
    BY <1>1, PageTyped
  <2> HIDE DEF rev
  <2> QED BY <1>1, <1>2, <1>3, <2>1, BlankTyped DEF LinkType
<1>9. Traced'
  <2>1. Loose = {} \/ (Dirty(Own) /\ Live(row[Own].s))
    <3>1. ~Dirty(Own) => ~(row[Own].rev > link.synced)
      BY DEF Dirty
    <3> QED BY <3>1 DEF Traced, Alive, Ahead
  <2> QED BY <1>1, <1>3, <2>1, EndsTraced
<1> QED BY <1>1, <1>2, <1>6, <1>7, <1>8, <1>9, EndsEvent, LinkAssumption

-----------------------------------------------------------------------------
(* The connection. *)

\* The event's row is cut off; the other one does not exist.
LEMMA DetachedRow ==
    ASSUME TypeOK, OneRow, row' = Detached
    PROVE  /\ RowCalm /\ ~row'[Own].google
<1>1. row \in [Rows -> RowType] /\ Own \in Rows /\ Twin \in Rows
  BY Typed DEF Rows
<1>2. row'[Own] = [row[Own] EXCEPT !.google = FALSE, !.sync = "local"]
  BY <1>1 DEF Detached, OneRow, Linked
<1>3. row'[Twin] = row[Twin]
  <2>1. ~row[Twin].on
    BY DEF OneRow, NoRow
  <2> QED BY <1>1, <2>1 DEF Detached
<1>4. /\ row'[Own].google = FALSE /\ row'[Own].sync = "local"
      /\ row'[Own].on = row[Own].on /\ row'[Own].s = row[Own].s
      /\ row'[Own].rev = row[Own].rev
  BY <1>1, <1>2 DEF RowType
<1> QED BY <1>3, <1>4 DEF RowCalm

LEMMA DisconnectEdits ==
    ASSUME IInv, TypeOK', Fine, Order, Traced, Grows, Disconnect
    PROVE  /\ OneRow' /\ RowFine' /\ QueueFine'
           /\ Order' /\ Traced'
<1>1. /\ TypeOK /\ OneRow /\ Bounded /\ conn' = "disconnected"
      /\ op' = Paused /\ row' = Detached /\ link' = link /\ saved' = saved
      /\ edits' = edits /\ wk' = wk
  BY DEF IInv, Fine, Order, Disconnect
<1>2. op \in [Ops -> OpType]
  BY <1>1, Typed
<1>3. ASSUME NEW o \in Ops
      PROVE  /\ (op'[o].st = "free") = (op[o].st = "free")
             /\ op[o].st # "free" => /\ op'[o].st = "paused"
                                     /\ op'[o].kind = op[o].kind
                                     /\ op'[o].rev = op[o].rev
                                     /\ op'[o].want = op[o].want
                                     /\ op'[o].base = op[o].base
  <2>1. CASE op[o].st = "free"
    BY <1>1, <2>1 DEF Paused, Free
  <2>2. CASE op[o].st # "free"
    <3>1. op'[o] = [op[o] EXCEPT !.st = "paused", !.holder = None]
      BY <1>1, <2>2 DEF Paused
    <3> QED BY <1>2, <2>2, <3>1 DEF OpType
  <2> QED BY <2>1, <2>2
<1>4. OpsCalm
  BY <1>3 DEF OpsCalm
<1>5. RowCalm /\ ~row'[Own].google
  BY <1>1, DetachedRow
<1>6. Settles
  BY <1>1, SettlesHere
<1>7. \A w \in Workers : ~Holds(w)'
  <2>1. SUFFICES ASSUME NEW w \in Workers, Holds(w)' PROVE FALSE
    OBVIOUS
  <2>2. wk[w].op \in Ops /\ op'[wk[w].op].st = "processing"
    BY <1>1, <2>1, HeldOp DEF Holds
  <2> QED BY <1>3, <2>2
<1>8. OneRow' /\ RowFine' /\ QueueFine'
  BY <1>1, <1>4, <1>5, CalmFine
<1>9. Order'
  <2>1. Bounded'
    BY <1>1, <1>3, <1>5 DEF Bounded, RowCalm, Busy
  <2>2. Cut'
    BY <1>1, <1>3, <1>5 DEF Cut, Busy
  <2> QED BY <1>7, <2>1, <2>2 DEF Order, Oldest
<1>10. Carried'
  BY <1>7 DEF Carried
<1> QED BY <1>1, <1>4, <1>5, <1>6, <1>8, <1>9, <1>10, CalmTraced DEF Traced

LEMMA ReconnectEdits ==
    ASSUME IInv, TypeOK', Fine, Order, Traced, Grows, Reconnect
    PROVE  /\ OneRow' /\ RowFine' /\ QueueFine'
           /\ Order' /\ Traced'
<1>1. /\ TypeOK /\ OneRow /\ Bounded /\ conn' = "connected"
      /\ op' = Cancelled /\ row' = Detached /\ link' = link /\ saved' = saved
      /\ edits' = edits
  BY DEF IInv, Fine, Order, Reconnect, OneRow, Linked
<1>2. RowCalm /\ ~row'[Own].google
  BY <1>1, DetachedRow
<1>3. /\ \A o \in Ops : ~Busy(o)'
      /\ \A w \in Workers : ~Holds(w)'
      /\ QueueFine'
  BY <1>1, FreeHands
<1>4. Settles
  BY <1>1, SettlesHere
<1>5. OneRow' /\ RowFine'
  <2>1. OneRow'
    BY <1>1, <1>2 DEF OneRow, RowCalm
  <2>2. PastNow(row[Own].s) /\ (Live(row[Own].s) => PastNow(link.common))
        /\ (Known(row[Own].s) => KnownNow(row[Own].s))
    <3>1. row[Own].s \in Snapshot /\ link.common \in Snapshot
      BY <1>1, Typed DEF OneRow, RowType, LinkType
    <3> QED BY <1>1, <3>1, StillFine DEF Fine, RowFine
  <2>3. RowFine'
    BY <1>1, <1>2, <2>2
       DEF Fine, RowFine, RowCalm, Past, PastNow, Known, KnownNow, Live
  <2> QED BY <2>1, <2>3
<1>6. Order'
  BY <1>1, <1>2, <1>3 DEF Order, Bounded, Oldest, Cut, RowCalm
<1>7. /\ InRow /\ Unagreed /\ Alive /\ Ahead
      /\ \A i \in Loose' : i \in Loose /\ edits'[i] = edits[i]
  BY <1>4 DEF Traced, Settles
<1>8. InRow' /\ Unagreed' /\ Alive' /\ Ahead'
  BY <1>1, <1>2, <1>7 DEF InRow, Unagreed, Alive, Ahead, RowCalm, Has, Live
<1>9. InNewest' /\ Pending' /\ Behind' /\ Carried'
  BY <1>2, <1>3 DEF InNewest, Pending, Behind, Carried
<1> QED BY <1>3, <1>5, <1>6, <1>8, <1>9 DEF Traced

-----------------------------------------------------------------------------
(* The answer to an update is recorded.                                      *)

LEMMA WrittenEdits ==
    ASSUME IInv, TypeOK', Fine, Order, Traced, Grows, NEW w \in Workers,
           Complete(w), CanSend(w), wk[w].kind # "delete"
    PROVE  /\ OneRow' /\ RowFine' /\ QueueFine'
           /\ Order' /\ Traced'
<1> DEFINE o   == wk[w].op
           put == wk[w].put
           rev == op[o].rev + (IF Confirmed(o) /\ put # op[o].want
                               THEN 1 ELSE 0)
<1>1. /\ TypeOK /\ conn' = conn /\ conn = "connected" /\ edits' = edits
      /\ OneRow /\ Bounded /\ Oldest /\ Cut /\ CompleteWrite(w) /\ Rest(w)
      /\ saved' = saved /\ wk[w].pc = "answered" /\ Holds(w)
  BY DEF IInv, Complete, Fine, Order, CanSend, CompleteWrite
<1>2. wk[w].kind = "update" /\ WorkFine(wk[w])
  <2>1. wk[w] \in WorkType
    BY <1>1, Typed
  <2> QED BY <2>1 DEF Fine, WorkFine, WorkType
<1>3. /\ row \in [Rows -> RowType] /\ Own \in Rows /\ Twin \in Rows
      /\ link \in LinkType /\ op \in [Ops -> OpType]
      /\ put \in Snapshot
  <2>1. wk[w] \in WorkType
    BY <1>1, Typed
  <2> QED BY <1>1, <2>1, Typed DEF Rows, OneRow, WorkType
<1>4. o \in Ops /\ Busy(o) /\ op[o] \in OpType
  BY <1>1, HeldOp DEF Holds, Busy
<1>5. Past(put) /\ Known(put) /\ PastNow(put) /\ KnownNow(put)
  BY <1>1, <1>2, <1>3, StillFine DEF WorkFine
\* The operation that is done wanted no loose edit.
<1>6. \A i \in Loose : ~Has(op[o].want, i)
  BY <1>1, <1>2 DEF Traced, Carried
<1>7. Loose = {} \/ row[Own].rev > op[o].rev
  <2>1. op[o].rev <= row[Own].rev /\ op[o].rev \in Nat /\ row[Own].rev \in Nat
    BY <1>1, <1>3, <1>4 DEF Bounded, OpType, RowType
  <2>2. op[o].rev = row[Own].rev => Loose = {}
    BY <1>4, <1>6 DEF Traced, InNewest
  <2> QED BY <2>1, <2>2
<1>8. /\ op' = [op EXCEPT ![o] = Free]
      /\ link' = [ev |-> Own, common |-> put, synced |-> rev,
                  seen |-> IF link = None THEN 0 ELSE link.seen, tomb |-> FALSE]
      /\ row' = [row EXCEPT ![Own] =
                   IF Confirmed(o)
                   THEN [row[Own] EXCEPT !.google = TRUE, !.sync = "synced",
                                         !.s = put, !.rev = rev]
                   ELSE [row[Own] EXCEPT !.google = TRUE]]
  BY <1>1, <1>2 DEF CompleteWrite, Finished, Acknowledged
<1>9. rev \in Nat /\ rev >= op[o].rev /\ (~Confirmed(o) => rev = op[o].rev)
  BY <1>4 DEF OpType
<1> HIDE DEF rev, put, o
<1>10. link' # None /\ link'.ev = Own /\ link'.synced = rev /\ link'.common = put
  <2>1. link'.ev = Own /\ link'.synced = rev /\ link'.common = put
    BY <1>8
  <2>2. link' \in LinkType
    <3>1. (IF link = None THEN 0 ELSE link.seen) \in Nat
      BY <1>3 DEF LinkType
    <3> QED BY <1>3, <1>8, <1>9, <3>1 DEF LinkType
  <2> QED BY <2>1, <2>2, LinkAssumption
<1>11. /\ row'[Twin] = row[Twin] /\ row'[Own].on = row[Own].on
       /\ row'[Own].google = TRUE
       /\ Confirmed(o) => row'[Own].s = put /\ row'[Own].rev = rev
       /\ ~Confirmed(o) => /\ row'[Own].s = row[Own].s
                           /\ row'[Own].rev = row[Own].rev
                           /\ row'[Own].sync = row[Own].sync
  BY <1>3, <1>8 DEF RowType
<1>12. \A q \in Ops : Busy(q)' => q # o /\ Busy(q) /\ op'[q] = op[q]
  BY <1>3, <1>4, <1>8 DEF Busy, Free
<1>13. \A q \in Ops : Busy(q) /\ q # o => Busy(q)' /\ op'[q] = op[q]
  BY <1>3, <1>8 DEF Busy
<1>14. HoldsStill
  <2>1. Steady
    BY <1>12 DEF Steady, Busy
  <2> QED BY <1>1, <2>1, StillHolds, RestsStill
<1>15. OneRow' /\ RowFine' /\ QueueFine'
  <2>1. OneRow'
    BY <1>1, <1>10, <1>11 DEF OneRow
  <2>2. PastNow(row[Own].s) /\ (Known(row[Own].s) => KnownNow(row[Own].s))
    BY <1>1, <1>3, StillFine DEF Fine, RowFine, RowType
  <2>3. ASSUME Confirmed(o) PROVE RowFine'
    BY <1>5, <1>10, <1>11, <2>3
       DEF RowFine, Past, PastNow, Known, KnownNow
  <2>4. ASSUME ~Confirmed(o) PROVE RowFine'
    BY <1>5, <1>10, <1>11, <2>2, <2>4
       DEF Fine, RowFine, Past, PastNow, Known, KnownNow, Live
  <2>5. ASSUME NEW q \in Ops, Busy(q)' PROVE OpFine(op[q])'
    <3>1. Busy(q) /\ op'[q] = op[q]
      BY <1>12, <2>5
    <3>2. OpFineNow(op[q])
      BY <1>1, <1>3, <3>1, StillFine DEF Fine, QueueFine
    <3> QED BY <3>1, <3>2 DEF OpFine, OpFineNow, Past, PastNow, Live
  <2> QED BY <2>1, <2>3, <2>4, <2>5 DEF QueueFine
<1>16. Order'
  <2>1. row'[Own].rev >= row[Own].rev /\ row'[Own].rev >= rev
        /\ row'[Own].rev \in Nat /\ row[Own].rev \in Nat
    <3>1. op[o].rev <= row[Own].rev /\ row[Own].rev \in Nat /\ op[o].rev \in Nat
      BY <1>1, <1>3, <1>4 DEF Bounded, RowType, OpType
    <3> QED BY <1>9, <1>11, <3>1 DEF Confirmed
  <2>2. Bounded'
    <3>1. ASSUME NEW q \in Ops, Busy(q)' PROVE op'[q].rev <= row'[Own].rev
      <4>1. op'[q] = op[q] /\ op[q].rev <= row[Own].rev /\ op[q].rev \in Nat
        BY <1>1, <1>3, <1>12, <3>1 DEF Bounded, OpType
      <4> QED BY <2>1, <4>1
    <3> QED BY <1>10, <2>1, <3>1 DEF Bounded
  <2>3. Oldest'
    BY <1>1, <1>12, <1>14, OldestStays, StillOn
  <2>4. Cut'
    BY <1>1, <1>11 DEF Cut
  <2> QED BY <2>2, <2>3, <2>4 DEF Order
<1>17. Settles
  BY <1>1, SettlesHere
<1>18. Traced'
  <2>1. CASE Loose = {}
    BY <1>1, <1>17, <2>1, NoneLeft, NoneTraced DEF Traced
  <2>2. CASE Loose # {}
    <3>1. /\ row[Own].rev > op[o].rev /\ ~Confirmed(o)
      BY <1>3, <1>4, <1>7, <2>2 DEF Confirmed, RowType, OpType
    <3>2. /\ row'[Own].s = row[Own].s /\ row'[Own].rev = row[Own].rev
          /\ link'.synced = op[o].rev
      BY <1>9, <1>10, <1>11, <3>1
    <3>3. /\ InRow /\ Unagreed /\ Alive /\ InNewest /\ Pending /\ Behind
          /\ \A i \in Loose' : i \in Loose /\ edits'[i] = edits[i]
      BY <1>17 DEF Traced, Settles
    <3>4. InRow' /\ Alive' /\ Ahead'
      BY <3>1, <3>2, <3>3 DEF InRow, Alive, Ahead, Has, Live
    <3>5. Unagreed'
      BY <1>1, <1>5, <1>10, <3>3, Unheld DEF Unagreed, Has
    <3>6. InNewest'
      BY <1>12, <3>2, <3>3 DEF InNewest, Has
    <3>7. Pending'
      <4>1. row[Own].google
        BY <1>1, HeldAwake
      <4>2. SUFFICES ASSUME NEW i \in Loose'
                     PROVE  \E q \in Ops : Busy(q)' /\ Has(op[q].want, i)'
        BY DEF Pending
      <4>3. PICK q \in Ops : Busy(q) /\ Has(op[q].want, i)
        BY <3>3, <4>1 DEF Pending
      <4>4. q # o
        BY <1>6, <3>3, <4>3
      <4> QED BY <1>13, <3>3, <4>3, <4>4 DEF Has
    <3>8. Behind'
      <4>1. SUFFICES ASSUME NEW q \in Ops, Busy(q)', op'[q].kind = "update",
                            NEW i \in Loose', Has(op[q].base, i)'
                     PROVE  \E u \in Ops : /\ Busy(u)' /\ op'[u].rev < op'[q].rev
                                           /\ Has(op[u].want, i)'
        BY DEF Behind
      <4>2. Busy(q) /\ op'[q] = op[q] /\ Has(op[q].base, i)
        BY <1>12, <3>3, <4>1 DEF Has
      <4>3. PICK u \in Ops : /\ Busy(u) /\ op[u].rev < op[q].rev
                             /\ Has(op[u].want, i)
        BY <3>3, <4>1, <4>2 DEF Behind
      <4>4. u # o
        BY <1>6, <3>3, <4>3
      <4> QED BY <1>13, <3>3, <4>2, <4>3, <4>4 DEF Has
    <3>9. Carried'
      BY <1>1, <1>12, <1>14, <1>17, CarriedStill DEF Traced
    <3> QED BY <3>4, <3>5, <3>6, <3>7, <3>8, <3>9 DEF Traced
  <2> QED BY <2>1, <2>2
<1> QED BY <1>15, <1>16, <1>18

-----------------------------------------------------------------------------
(* A page of a live event. *)

LEMMA EnqueuedAdds ==
    ASSUME NEW ops \in [Ops -> OpType], Room(ops), NEW q
    PROVE  \E o \in Ops : /\ ops[o].st = "free" /\ Enqueued(ops, q)[o] = q
                          /\ \A u \in Ops \ {o} : Enqueued(ops, q)[u] = ops[u]
<1> DEFINE o == CHOOSE u \in Ops : ops[u].st = "free"
<1>1. o \in Ops /\ ops[o].st = "free"
  BY DEF Room
<1>2. Enqueued(ops, q) = [ops EXCEPT ![o] = q]
  BY DEF Enqueued
<1> HIDE DEF o
<1> QED BY <1>1, <1>2

\* What a page of Google's live event is.
LEMMA PageKnown ==
    ASSUME IInv, Fine, Grows, NEW p \in Pullers, pl[p].got.at = "live"
    PROVE  LET in == pl[p].got.s IN
           /\ in \in Snapshot /\ Past(in) /\ Known(in) /\ Live(in)
           /\ PastNow(in) /\ KnownNow(in)
<1>1. TypeOK /\ pl[p].got.s \in Snapshot
  BY PageTyped DEF IInv
<1>2. PageFine(pl[p].got)
  BY DEF Fine
<1> QED BY <1>1, <1>2, StillFine DEF PageFine

LEMMA PageCleanEdits ==
    ASSUME IInv, TypeOK', Fine, Order, Traced, Grows, NEW p \in Pullers,
           SavePage(p), PageOfClean(p)
    PROVE  /\ OneRow' /\ RowFine' /\ QueueFine'
           /\ Order' /\ Traced'
<1> DEFINE in    == pl[p].got.s
           rev   == row[Own].rev
                    + (IF Changed(link.common, in) = {} THEN 0 ELSE 1)
           after == [row EXCEPT ![Own].s = in, ![Own].google = TRUE,
                                ![Own].sync = "synced", ![Own].rev = rev]
<1>1. /\ TypeOK /\ conn' = conn /\ conn = "connected" /\ edits' = edits
      /\ wk' = wk /\ OneRow /\ Bounded /\ Oldest /\ Cut /\ link.ev = Own
      /\ ~Dirty(Own) /\ pl[p].got.at = "live" /\ saved' = saved
  BY DEF IInv, SavePage, Saves, Leads, Fine, Order, OneRow, PageOfClean
<1>2. row \in [Rows -> RowType] /\ Own \in Rows /\ Twin \in Rows
      /\ link \in LinkType /\ op \in [Ops -> OpType]
  BY <1>1, Typed DEF Rows, OneRow
<1>3. rev \in Nat /\ row[Own].rev \in Nat /\ row[Own].rev <= rev
  BY <1>2 DEF RowType
<1>4. /\ in \in Snapshot /\ PastNow(in) /\ KnownNow(in)
  BY <1>1, PageKnown
<1>5. /\ Leaves(after, op)
      /\ link' = [link EXCEPT !.common = in, !.synced = rev, !.tomb = FALSE,
                              !.seen = pl[p].gen]
  BY <1>1 DEF PageOfClean
<1> HIDE DEF in, rev
<1>6. /\ after \in [Rows -> RowType]
      /\ after[Twin] = row[Twin] /\ after[Own].on = row[Own].on
      /\ after[Own].google = TRUE /\ after[Own].s = in /\ after[Own].rev = rev
  <2>1. after \in [Rows -> RowType]
    <3>1. TypeOK /\ Own \in Rows /\ rev \in Nat /\ in \in Snapshot
      BY <1>1, <1>2, <1>3, <1>4
    <3>2. after = Cleaned(Own, in, rev)
      BY DEF Cleaned
    <3> HIDE DEF after
    <3> QED BY <3>1, <3>2, RowsLeft
  <2> QED BY <1>2, <2>1 DEF RowType
<1> HIDE DEF after
<1>7. /\ row'[Twin] = row[Twin] /\ row'[Own].on = row[Own].on
      /\ row'[Own].google = TRUE /\ row'[Own].s = in /\ row'[Own].rev = rev
      /\ OpsCalm /\ Steady
  <2>1. Steady
    BY <1>1, <1>2, <1>5, <1>6, LeavesSteady
  <2> QED BY <1>2, <1>5, <1>6, <2>1, LeavesAlone DEF OpsCalm
<1>8. link' # None /\ link'.ev = Own /\ link'.synced = rev /\ link'.common = in
  <2>1. pl[p].gen \in Nat
    BY <1>1, PageTyped
  <2>2. /\ link'.ev = Own /\ link'.synced = rev /\ link'.common = in
        /\ link' \in LinkType
    BY <1>1, <1>2, <1>3, <1>4, <1>5, <2>1 DEF LinkType
  <2> QED BY <2>2, LinkAssumption
<1>9. OneRow' /\ RowFine'
  BY <1>1, <1>4, <1>7, <1>8
     DEF OneRow, RowFine, Past, PastNow, Known, KnownNow
<1>10. QueueFine'
  <2>1. SUFFICES ASSUME NEW q \in Ops, Busy(q)' PROVE OpFine(op[q])'
    BY DEF QueueFine
  <2>2. Busy(q)
    BY <1>7, <2>1 DEF OpsCalm, Busy
  <2>3. OpFineNow(op[q])
    BY <1>1, <1>2, <2>2, StillFine DEF Fine, QueueFine
  <2> QED BY <1>7, <2>2, <2>3
          DEF OpFine, OpFineNow, OpsCalm, Busy, Past, PastNow, Live
<1>11. HoldsStill
  BY <1>1, <1>7, StillHolds
<1>12. Order'
  <2>1. Oldest'
    BY <1>1, <1>7, <1>11, OldestStays, StillOn DEF OpsCalm, Busy
  <2>2. Bounded'
    <3>1. ASSUME NEW q \in Ops, Busy(q)' PROVE op'[q].rev <= row'[Own].rev
      <4>1. op'[q].rev = op[q].rev /\ op[q].rev <= row[Own].rev
            /\ op[q].rev \in Nat
        BY <1>1, <1>2, <1>7, <3>1 DEF Bounded, OpType, OpsCalm, Busy
      <4> QED BY <1>3, <1>7, <4>1
    <3> QED BY <1>3, <1>7, <1>8, <3>1 DEF Bounded
  <2>3. Cut'
    BY <1>1, <1>7 DEF Cut
  <2> QED BY <2>1, <2>2, <2>3 DEF Order
<1>13. Traced'
  <2>1. Settles
    BY <1>1, SettlesHere
  <2>2. Loose = {}
    BY <1>1 DEF Dirty, Traced, Ahead
  <2> QED BY <1>1, <2>1, <2>2, NoneLeft, NoneTraced DEF Traced
<1> QED BY <1>9, <1>10, <1>12, <1>13

\* A merge keeps a loose edit, or records it.
LEMMA MergeCarries ==
    ASSUME IInv, Fine, Traced, Grows, NEW p \in Pullers, PageOfDirty(p),
           NEW i \in Loose, i \notin saved'
    PROVE  /\ Has(Merge(p).s, i) /\ ~Has(pl[p].got.s, i)
           /\ Merge(p).s # pl[p].got.s
<1> DEFINE in    == pl[p].got.s
           local == row[Own].s
           base  == link.common
           wins  == ~Live(local) \/ row[Own].edited > pl[p].got.upd
           f     == edits[i].field
<1>1. /\ TypeOK /\ OneRow /\ link.ev = Own /\ pl[p].got.at = "live"
      /\ saved' = IF Conflicting(base, local, in) = {} THEN saved
                  ELSE saved \cup Values(local) \cup Values(in)
      /\ Merge(p).s = Merged(base, local, in, wins)
  BY DEF IInv, Fine, OneRow, PageOfDirty, Meets, Merge
<1>2. /\ local \in Snapshot /\ base \in Snapshot /\ in \in Snapshot
      /\ f \in Fields
  BY <1>1, Typed, PageTyped, LooseTyped DEF OneRow, RowType, LinkType
<1>3. Has(local, i) /\ ~Has(base, i) /\ Live(local)
  BY DEF Traced, InRow, Unagreed, Alive
<1>4. ~Has(in, i)
  BY <1>1, PageKnown, Unheld
<1>5. local[f] = i /\ base[f] # i /\ in[f] # i
  BY <1>3, <1>4 DEF Has
<1>6. i \in Values(local)
  BY <1>1, <1>3, Shown
<1> HIDE DEF in, local, base, wins, f
<1>7. Conflicting(base, local, in) = {}
  BY <1>1, <1>6
<1>8. Merge(p).s[f] = i
  BY <1>1, <1>2, <1>3, <1>5, <1>7
     DEF Merged, Kept, Changed, Conflicting, Overlay
<1> QED BY <1>4, <1>5, <1>8 DEF Has, f, in

LEMMA PageDirtyEdits ==
    ASSUME IInv, TypeOK', Fine, Order, Traced, Grows, NEW p \in Pullers,
           SavePage(p), PageOfDirty(p)
    PROVE  /\ OneRow' /\ RowFine' /\ QueueFine'
           /\ Order' /\ Traced'
<1> DEFINE in    == pl[p].got.s
           local == row[Own].s
           m     == Merge(p)
           y     == IF m.s = in THEN "synced" ELSE "pending"
           after == [row EXCEPT ![Own].s = m.s, ![Own].google = TRUE,
                                ![Own].rev = m.rev, ![Own].sync = y]
           next  == Queued(IF Live(local) THEN "update" ELSE "delete",
                           m.rev, m.s, row[Own].edited, in)
           ops   == IF m.push THEN Enqueued(m.left, next) ELSE m.left
           agreed == IF m.s = in THEN m.rev ELSE link.synced
           changed == Changed(link.common, in) # {}
           wins  == ~Live(local) \/ row[Own].edited > pl[p].got.upd
<1>1. /\ TypeOK /\ conn' = conn /\ conn = "connected" /\ edits' = edits
      /\ wk' = wk /\ OneRow /\ Bounded /\ Oldest /\ Cut /\ link.ev = Own
      /\ pl[p].got.at = "live" /\ link # None
  BY DEF IInv, SavePage, Saves, Leads, Fine, Order, OneRow, PageOfDirty, Meets
<1>2. /\ row \in [Rows -> RowType] /\ Own \in Rows /\ Twin \in Rows
      /\ link \in LinkType /\ op \in [Ops -> OpType] /\ local \in Snapshot
      /\ row[Own].rev \in Nat /\ row[Own].edited \in Nat
  BY <1>1, Typed DEF Rows, OneRow, RowType
<1>3. m.s \in Snapshot /\ m.rev \in Nat /\ m.left \in [Ops -> OpType]
  BY <1>1, MergeTyped
<1>4. /\ m.s = Merged(link.common, local, in, wins)
      /\ m.rev = row[Own].rev + (IF changed THEN 1 ELSE 0)
      /\ m.left = IF changed THEN Cancelled ELSE op
      /\ m.push => m.s # in
      /\ ~m.push /\ m.s # in =>
             \E o \in Ops : /\ m.left[o].st \in {"pending", "processing"}
                            /\ m.left[o].rev = m.rev
  BY <1>1 DEF Merge
<1>5. /\ in \in Snapshot /\ Past(in) /\ Live(in) /\ PastNow(in) /\ KnownNow(in)
  BY <1>1, PageKnown
<1>6. /\ Leaves(after, ops) /\ (m.push => Room(m.left))
      /\ link' = [link EXCEPT !.common = in, !.tomb = FALSE,
                              !.seen = pl[p].gen, !.synced = agreed]
      /\ saved \subseteq saved'
  BY <1>1 DEF PageOfDirty
<1>7. m.rev >= row[Own].rev /\ (~changed => m.rev = row[Own].rev)
  <2> HIDE DEF m, changed
  <2> QED BY <1>2, <1>4
<1>8. Past(local) /\ Past(m.s) /\ PastNow(m.s) /\ (Live(local) => Live(m.s))
  <2>1. Past(local)
    BY DEF Fine, RowFine
  <2> HIDE DEF in, local, m, wins
  <2>2. Past(m.s)
    BY <1>2, <1>4, <1>5, <2>1, MergesPast
  <2>3. Live(local) => Live(m.s)
    BY <1>2, <1>4, <1>5, MergesLive
  <2> QED BY <1>1, <1>3, <2>1, <2>2, <2>3, StillFine
<1>9. ASSUME NEW i \in Loose'
      PROVE  /\ i \in Loose /\ edits'[i] = edits[i]
             /\ Has(m.s, i) /\ ~Has(in, i) /\ m.s # in
  <2>1. Settles
    BY <1>1, <1>6, SettlesHere
  <2>2. i \in Loose /\ i \notin saved' /\ edits'[i] = edits[i]
    BY <2>1 DEF Settles, Loose
  <2> QED BY <2>2, MergeCarries
\* The operation that a push queues, and the rows and operations left.
<1>10. /\ next \in OpType /\ next.st = "pending" /\ next.rev = m.rev
       /\ next.want = m.s /\ next.base = in
       /\ next.kind \in {"update", "delete"}
       /\ next.kind = "update" => Live(local)
  <2>1. (IF Live(local) THEN "update" ELSE "delete")
          \in {"create", "update", "delete"}
    OBVIOUS
  <2>2. /\ next.st = "pending" /\ next.rev = m.rev
        /\ next.want = m.s /\ next.base = in
        /\ next.kind = IF Live(local) THEN "update" ELSE "delete"
    BY DEF Queued
  <2>3. next \in OpType
    <3> HIDE DEF m, in, local
    <3> QED BY <1>2, <1>3, <1>5, <2>1, QueuedTyped
  <2> HIDE DEF next
  <2> QED BY <2>2, <2>3
<1> HIDE DEF in, local, m, next, changed, wins, agreed
<1>11. /\ after \in [Rows -> RowType]
       /\ after[Twin] = row[Twin] /\ after[Own].on = row[Own].on
       /\ after[Own].google = TRUE /\ after[Own].s = m.s
       /\ after[Own].rev = m.rev /\ after[Own].sync = y
  <2>1. y \in {"synced", "pending"}
    OBVIOUS
  <2>2. TypeOK /\ Own \in Rows /\ m.rev \in Nat /\ m.s \in Snapshot
    BY <1>1, <1>2, <1>3
  <2> HIDE DEF y
  <2>3. after \in [Rows -> RowType]
    <3>1. after = Mixed(Own, m.s, m.rev, y)
      BY DEF Mixed
    <3> HIDE DEF after
    <3> QED BY <2>1, <2>2, <3>1, RowsLeft
  <2> QED BY <1>2, <2>3 DEF RowType
<1>12. y = "synced" => m.s = in
  OBVIOUS
<1> HIDE DEF after, y
<1>13. ops \in [Ops -> OpType]
  BY <1>3, <1>6, <1>10, EnqueuedTyped
\* What is queued now was queued before, or it is the push.
<1>14. /\ \A o \in Ops : ops[o].st # "free" => ops[o] = next \/ ops[o] = m.left[o]
       /\ \A o \in Ops : m.left[o].st # "free" => ops[o] = m.left[o]
       /\ m.push => \E o \in Ops : ops[o] = next
  <2>1. CASE ~m.push
    BY <2>1
  <2>2. CASE m.push
    <3>1. PICK o \in Ops : /\ m.left[o].st = "free" /\ ops[o] = next
                           /\ \A u \in Ops \ {o} : ops[u] = m.left[u]
      BY <1>3, <1>6, <2>2, EnqueuedAdds
    <3> QED BY <3>1
  <2> QED BY <2>1, <2>2
<1> HIDE DEF ops
<1>15. /\ row'[Twin] = row[Twin] /\ row'[Own].on = row[Own].on
       /\ row'[Own].google = TRUE /\ row'[Own].s = m.s
       /\ row'[Own].rev = m.rev
       /\ row'[Own].sync = "synced" => m.s = in
  BY <1>2, <1>6, <1>11, <1>12, <1>13, LeavesAlone
<1>16. \A o \in Ops : /\ (op'[o].st = "free") = (ops[o].st = "free")
                      /\ op'[o].kind = ops[o].kind /\ op'[o].rev = ops[o].rev
                      /\ op'[o].want = ops[o].want
                      /\ op'[o].base = ops[o].base
  BY <1>2, <1>6, <1>11, <1>13, LeavesAlone
<1>17. \A o \in Ops : Cancelled[o].st = "free"
  BY DEF Cancelled, Free
<1>18. ASSUME NEW o \in Ops, Busy(o)'
       PROVE  \/ /\ op'[o].kind = next.kind /\ op'[o].rev = m.rev
                 /\ op'[o].want = m.s /\ op'[o].base = in
              \/ /\ Busy(o) /\ ~changed
                 /\ op'[o].kind = op[o].kind /\ op'[o].rev = op[o].rev
                 /\ op'[o].want = op[o].want /\ op'[o].base = op[o].base
  <2>1. ops[o].st # "free"
    BY <1>16, <1>18 DEF Busy
  <2>2. CASE ops[o] = next
    BY <1>10, <1>16, <2>2
  <2>3. CASE ops[o] = m.left[o]
    <3>1. ~changed /\ m.left = op
      BY <1>4, <1>17, <2>1, <2>3
    <3> QED BY <1>16, <2>1, <2>3, <3>1 DEF Busy
  <2> QED BY <1>14, <2>1, <2>2, <2>3
<1>19. ASSUME ~changed, NEW o \in Ops, Busy(o)
       PROVE  /\ Busy(o)' /\ op'[o].rev = op[o].rev
              /\ op'[o].want = op[o].want
  <2>1. ops[o] = op[o]
    BY <1>4, <1>14, <1>19 DEF Busy
  <2> QED BY <1>16, <1>19, <2>1 DEF Busy
<1>20. HoldsStill /\ Steady
  <2>1. \A o \in Ops : ops[o] = op[o] \/ ops[o].st \in {"free", "pending"}
    BY <1>4, <1>10, <1>14, <1>17
  <2>2. Steady
    BY <1>1, <1>6, <1>11, <1>13, <2>1, LeavesSteady
  <2> QED BY <1>1, <2>2, StillHolds
<1>21. link' # None /\ link'.ev = Own /\ link'.common = in
       /\ link'.synced = agreed
  <2>1. pl[p].gen \in Nat
    BY <1>1, PageTyped
  <2>2. agreed \in Nat
    BY <1>2, <1>3 DEF agreed, LinkType
  <2>3. /\ link'.ev = Own /\ link'.synced = agreed /\ link'.common = in
        /\ link' \in LinkType
    BY <1>1, <1>2, <1>5, <1>6, <2>1, <2>2 DEF LinkType
  <2> QED BY <2>3, LinkAssumption
<1>22. OneRow' /\ RowFine' /\ QueueFine'
  <2>1. OneRow'
    BY <1>1, <1>15, <1>21 DEF OneRow
  <2>2. RowFine'
    BY <1>5, <1>8, <1>15, <1>21 DEF RowFine, Past, PastNow, Known, KnownNow
  <2>3. ASSUME NEW o \in Ops, Busy(o)' PROVE OpFine(op[o])'
    <3>1. CASE /\ op'[o].kind = next.kind /\ op'[o].rev = m.rev
               /\ op'[o].want = m.s /\ op'[o].base = in
      BY <1>5, <1>8, <1>10, <3>1 DEF OpFine, Past, PastNow, Live
    <3>2. CASE /\ Busy(o) /\ ~changed
               /\ op'[o].kind = op[o].kind /\ op'[o].rev = op[o].rev
               /\ op'[o].want = op[o].want /\ op'[o].base = op[o].base
      <4>1. OpFineNow(op[o])
        BY <1>1, <1>2, <3>2, StillFine DEF Fine, QueueFine
      <4> QED BY <3>2, <4>1 DEF OpFine, OpFineNow, Past, PastNow, Live
    <3> QED BY <1>18, <2>3, <3>1, <3>2
  <2> QED BY <2>1, <2>2, <2>3 DEF QueueFine
<1>23. Order'
  <2>1. Bounded'
    <3>1. ASSUME NEW o \in Ops, Busy(o)' PROVE op'[o].rev <= row'[Own].rev
      <4>1. op'[o].rev = m.rev \/ (Busy(o) /\ op'[o].rev = op[o].rev)
        BY <1>18, <3>1
      <4>2. Busy(o) => op[o].rev <= row[Own].rev /\ op[o].rev \in Nat
        BY <1>1, <1>2 DEF Bounded, OpType
      <4> QED BY <1>2, <1>3, <1>7, <1>15, <4>1, <4>2
    <3>2. agreed <= m.rev
      <4>1. link.synced <= row[Own].rev /\ link.synced \in Nat
        BY <1>1, <1>2 DEF Bounded, LinkType
      <4> QED BY <1>2, <1>3, <1>7, <4>1 DEF agreed
    <3> QED BY <1>15, <1>21, <3>1, <3>2 DEF Bounded
  <2>2. Oldest'
    <3>1. SUFFICES ASSUME NEW w \in Workers, Holds(w)', NEW q \in Ops, Busy(q)'
                   PROVE  op'[q].rev >= op'[wk'[w].op].rev
      BY DEF Oldest
    <3>2. Holds(w) /\ wk'[w] = wk[w]
      BY <1>20, <3>1 DEF HoldsStill
    <3>3. wk[w].op \in Ops /\ Busy(wk[w].op) /\ Busy(wk[w].op)'
      BY <1>1, <3>1, <3>2, HeldOp DEF Holds, Busy
    <3>4. op'[wk[w].op] = op[wk[w].op]
      BY <1>20, <3>1, <3>2, <3>3 DEF Steady, Holds
    <3>5. /\ op[wk[w].op].rev \in Nat /\ op[wk[w].op].rev <= row[Own].rev
          /\ \A o \in Ops : Busy(o) => op[o].rev >= op[wk[w].op].rev
      BY <1>1, <1>2, <3>2, <3>3 DEF Oldest, Bounded, OpType
    <3>6. op'[q].rev = m.rev \/ (Busy(q) /\ op'[q].rev = op[q].rev)
      BY <1>18, <3>1
    <3>7. m.rev >= op[wk[w].op].rev
      BY <1>2, <1>3, <1>7, <3>5
    <3>8. op'[wk'[w].op].rev = op[wk[w].op].rev
      BY <3>2, <3>4
    <3> QED BY <3>5, <3>6, <3>7, <3>8
  <2>3. Cut'
    BY <1>1, <1>15 DEF Cut
  <2> QED BY <2>1, <2>2, <2>3 DEF Order
<1>24. InRow' /\ Unagreed' /\ Alive' /\ Ahead'
  <2>1. InRow' /\ Unagreed'
    BY <1>9, <1>15, <1>21 DEF InRow, Unagreed, Has
  <2>2. ASSUME NEW i \in Loose' PROVE Live(m.s)
    <3>1. Live(local)
      BY <1>9, <2>2 DEF Traced, Alive, local
    <3> QED BY <1>8, <3>1
  <2>3. Alive'
    BY <1>15, <2>2 DEF Alive, Live
  <2>4. ASSUME NEW i \in Loose' PROVE m.rev > agreed
    <3>1. agreed = link.synced /\ row[Own].rev > link.synced
      BY <1>9, <2>4 DEF Traced, Ahead, agreed
    <3>2. link.synced \in Nat
      BY <1>2 DEF LinkType
    <3> QED BY <1>2, <1>3, <1>7, <3>1, <3>2
  <2>5. Ahead'
    BY <1>15, <1>21, <2>4 DEF Ahead
  <2> QED BY <2>1, <2>3, <2>5
<1>25. InNewest'
  <2>1. SUFFICES ASSUME NEW o \in Ops, Busy(o)', op'[o].rev = row'[Own].rev,
                        NEW i \in Loose'
                 PROVE  Has(op[o].want, i)'
    BY DEF InNewest
  <2>2. CASE op'[o].want = m.s
    BY <1>9, <2>2 DEF Has
  <2>3. CASE /\ Busy(o) /\ ~changed
             /\ op'[o].rev = op[o].rev /\ op'[o].want = op[o].want
    <3>1. op[o].rev = row[Own].rev
      BY <1>7, <1>15, <2>1, <2>3
    <3>2. Has(op[o].want, i)
      BY <1>9, <2>3, <3>1 DEF Traced, InNewest
    <3> QED BY <1>9, <2>3, <3>2 DEF Has
  <2> QED BY <1>18, <2>1, <2>2, <2>3
<1>26. Pending'
  <2>1. SUFFICES ASSUME NEW i \in Loose'
                 PROVE  \E o \in Ops : Busy(o)' /\ Has(op[o].want, i)'
    BY DEF Pending
  <2>2. CASE m.push
    <3>1. PICK o \in Ops : ops[o] = next
      BY <1>14, <2>2
    <3>2. Busy(o)' /\ op'[o].want = m.s
      BY <1>10, <1>16, <3>1 DEF Busy
    <3> QED BY <1>9, <3>2 DEF Has
  <2>3. CASE ~m.push
    <3>1. m.s # in
      BY <1>9
    <3>2. PICK o \in Ops : /\ m.left[o].st \in {"pending", "processing"}
                           /\ m.left[o].rev = m.rev
      BY <1>4, <2>3, <3>1
    <3>3. ~changed /\ m.left = op
      BY <1>4, <1>17, <3>2
    <3>4. Busy(o) /\ op[o].rev = row[Own].rev
      BY <1>7, <3>2, <3>3 DEF Busy
    <3>5. Has(op[o].want, i)
      BY <1>9, <3>4 DEF Traced, InNewest
    <3>6. Busy(o)' /\ op'[o].want = op[o].want
      BY <1>19, <3>3, <3>4
    <3> QED BY <1>9, <3>5, <3>6 DEF Has
  <2> QED BY <2>2, <2>3
<1>27. Behind'
  <2>1. SUFFICES ASSUME NEW o \in Ops, Busy(o)', op'[o].kind = "update",
                        NEW i \in Loose', Has(op[o].base, i)'
                 PROVE  \E u \in Ops : /\ Busy(u)' /\ op'[u].rev < op'[o].rev
                                       /\ Has(op[u].want, i)'
    BY DEF Behind
  <2>2. op'[o].base # in
    BY <1>9, <2>1 DEF Has
  <2>3. /\ Busy(o) /\ ~changed /\ op'[o].kind = op[o].kind
        /\ op'[o].rev = op[o].rev /\ op'[o].base = op[o].base
    BY <1>18, <2>1, <2>2
  <2>4. Has(op[o].base, i)
    BY <1>9, <2>1, <2>3 DEF Has
  <2>5. PICK u \in Ops : /\ Busy(u) /\ op[u].rev < op[o].rev
                         /\ Has(op[u].want, i)
    BY <1>9, <2>1, <2>3, <2>4 DEF Traced, Behind
  <2>6. Busy(u)' /\ op'[u].rev = op[u].rev /\ op'[u].want = op[u].want
    BY <1>19, <2>3, <2>5
  <2> QED BY <1>9, <2>3, <2>5, <2>6 DEF Has
<1>28. Carried'
  <2>1. SUFFICES ASSUME NEW w \in Workers, Holds(w)', wk'[w].kind = "update",
                        NEW i \in Loose', Has(op[wk[w].op].want, i)'
                 PROVE  /\ wk'[w].pc # "answered"
                        /\ wk'[w].pc \in {"read", "sent"} => Has(wk[w].put, i)'
    BY DEF Carried
  <2>2. Holds(w) /\ wk'[w] = wk[w]
    BY <1>20, <2>1 DEF HoldsStill
  <2>3. wk[w].op \in Ops
    BY <1>1, <2>2, HeldOp DEF Holds
  <2>4. op'[wk[w].op] = op[wk[w].op]
    BY <1>20, <2>1, <2>2, <2>3 DEF Steady, Holds
  <2>5. Has(op[wk[w].op].want, i)
    BY <1>9, <2>1, <2>2, <2>4 DEF Has
  <2> QED BY <1>9, <2>1, <2>2, <2>5 DEF Traced, Carried, Has
<1> QED BY <1>22, <1>23, <1>24, <1>25, <1>26, <1>27, <1>28 DEF Traced

-----------------------------------------------------------------------------
(* A user edits the event. *)

LEMMA EditEdits ==
    ASSUME IInv, TypeOK', Fine, Order, Traced, Grows, NEW f \in Fields,
           EditEvent(f)
    PROVE  /\ OneRow' /\ RowFine' /\ QueueFine'
           /\ Order' /\ Traced'
<1> DEFINE now   == Clock + 1
           old   == row[Own].s
           after == [old EXCEPT ![f] = IF f = Status THEN 1 ELSE now]
           rev   == row[Own].rev + 1
           next  == Queued(IF f = Status THEN "delete" ELSE "update",
                           rev, after, now, old)
           e     == [by |-> "sydia", field |-> f]
<1>1. /\ TypeOK /\ OneRow /\ RowFine /\ Bounded /\ Oldest /\ Cut
      /\ Live(old) /\ edits' = Append(edits, e) /\ link' = link
      /\ saved' = saved /\ wk' = wk /\ conn' = conn
  BY DEF IInv, Fine, Order, EditEvent
<1>2. /\ row \in [Rows -> RowType] /\ Own \in Rows /\ Twin \in Rows
      /\ link \in LinkType /\ op \in [Ops -> OpType] /\ old \in Snapshot
      /\ row[Own].rev \in Nat /\ rev \in Nat /\ Clock \in Nat /\ now \in Nat
      /\ link.common \in Snapshot /\ link.synced \in Nat
  BY <1>1, Typed DEF Rows, OneRow, RowType, LinkType, Grows
<1>3. Queues = (conn # "disconnected" /\ row[Own].google)
  BY <1>1 DEF Queues, OneRow, Linked
<1>4. /\ row'[Twin] = row[Twin] /\ row'[Own].on = row[Own].on
      /\ row'[Own].google = Queues
      /\ row'[Own].sync # "synced"
      /\ row'[Own].rev = rev /\ row'[Own].s = after
  <2>1. row' = [row EXCEPT ![Own].google = Queues,
                           ![Own].sync = IF Queues THEN "pending" ELSE "local",
                           ![Own].rev = rev, ![Own].edited = now,
                           ![Own].s = after]
    BY DEF EditEvent
  <2> HIDE DEF rev, now, after
  <2> QED BY <1>2, <2>1 DEF RowType
<1>5. after \in Snapshot /\ (f # Status => Live(after))
      /\ \A g \in Fields \ {f} : after[g] = old[g]
      /\ (f # Status => after[f] = now)
  BY <1>1, <1>2 DEF Snapshot, Live
<1>6. /\ next \in OpType /\ next.st = "pending" /\ next.rev = rev
      /\ next.want = after /\ next.base = old
      /\ next.kind = IF f = Status THEN "delete" ELSE "update"
  <2>1. (IF f = Status THEN "delete" ELSE "update")
          \in {"create", "update", "delete"}
    OBVIOUS
  <2>2. next \in OpType
    <3> HIDE DEF after, rev, now, old
    <3> QED BY <1>2, <1>5, <2>1, QueuedTyped
  <2> QED BY <2>2 DEF Queued
<1>7. IF Queues THEN Room(op) /\ op' = Enqueued(op, next) ELSE op' = op
  BY DEF EditEvent
<1> HIDE DEF next, after
<1>8. /\ \A o \in Ops : Busy(o)' => \/ op'[o] = next
                                    \/ Busy(o) /\ op'[o] = op[o]
      /\ \A o \in Ops : Busy(o) => op'[o] = op[o] /\ Busy(o)'
      /\ Queues => \E o \in Ops : op'[o] = next
  <2>1. CASE Queues
    <3>1. PICK o \in Ops : /\ op[o].st = "free" /\ op'[o] = next
                           /\ \A u \in Ops \ {o} : op'[u] = op[u]
      BY <1>2, <1>7, <2>1, EnqueuedAdds
    <3> QED BY <3>1 DEF Busy
  <2>2. CASE ~Queues
    BY <1>7, <2>2 DEF Busy
  <2> QED BY <2>1, <2>2
<1>9. /\ Clock' = now /\ edits'[now] = e /\ e \in EditType
      /\ e.by = "sydia" /\ e.field = f
      /\ \A j \in 1 .. Clock : edits'[j] = edits[j]
  <2>1. edits \in Seq(EditType) /\ e \in EditType
    BY <1>1 DEF TypeOK, EditType
  <2> HIDE DEF e
  <2>2. /\ Clock' = now /\ edits'[now] = e
        /\ \A j \in 1 .. Clock : edits'[j] = edits[j]
    BY <1>1, <2>1, AppendProperties DEF Clock
  <2> QED BY <2>1, <2>2 DEF e
<1> HIDE DEF e
\* What is loose now was loose before, in another field, or is this edit.
<1>10. ASSUME NEW i \in Loose'
       PROVE  /\ f # Status
              /\ \/ i = now
                 \/ i \in Loose /\ edits'[i] = edits[i] /\ edits[i].field # f
  <2>1. /\ i \in 1 .. Clock' /\ edits'[i].by = "sydia"
        /\ edits'[i].field # Status /\ i \notin held' \cup saved'
        /\ \A j \in i + 1 .. Clock' :
              ~(/\ edits'[j].by = edits'[i].by
                /\ edits'[j].field \in {edits'[i].field, Status})
    BY DEF Loose, Edited, Replaced
  <2>2. CASE i = now
    BY <1>9, <2>1, <2>2
  <2>3. CASE i # now
    <3>1. i \in 1 .. Clock /\ now \in i + 1 .. Clock'
      BY <1>2, <1>9, <2>1, <2>3
    <3>2. edits'[i] = edits[i] /\ f \notin {edits[i].field, Status}
      BY <1>9, <2>1, <3>1
    <3>3. \A j \in i + 1 .. Clock : j \in 1 .. Clock /\ j \in i + 1 .. Clock'
      BY <1>2, <1>9, <3>1
    <3>4. ~Replaced(i)
      BY <1>9, <2>1, <3>2, <3>3 DEF Replaced
    <3>5. i \in Loose
      BY <1>1, <2>1, <3>1, <3>2, <3>4 DEF Loose, Edited, Grows
    <3> QED BY <3>2, <3>5
  <2> QED BY <2>2, <2>3
\* This edit is nowhere else yet.
<1>11. ASSUME NEW s \in Snapshot, Past(s), f # Status PROVE s[f] # now
  <2>1. s[f] \in Nat /\ s[f] <= Clock
    BY <1>11 DEF Snapshot, Past, Content
  <2> QED BY <1>2, <2>1
<1>12. ASSUME NEW i \in Loose' PROVE after[edits'[i].field] = i
  <2>1. CASE i = now
    BY <1>5, <1>9, <1>10, <2>1 DEF Has
  <2>2. CASE i \in Loose /\ edits'[i] = edits[i] /\ edits[i].field # f
    <3>1. edits[i].field \in Fields /\ Has(old, i)
      BY <1>1, <2>2, LooseTyped DEF Traced, InRow
    <3> QED BY <1>5, <2>2, <3>1 DEF Has
  <2> QED BY <1>10, <2>1, <2>2
<1>13. ASSUME NEW s \in Snapshot, Past(s), NEW i \in Loose', Has(s, i)'
       PROVE  i \in Loose /\ edits'[i] = edits[i] /\ Has(s, i)
  <2>1. i # now
    BY <1>9, <1>10, <1>11, <1>13 DEF Has
  <2> QED BY <1>10, <1>13, <2>1 DEF Has
<1>14. \A o \in Ops : Busy(o) => /\ op[o].want \in Snapshot /\ Past(op[o].want)
                                 /\ op[o].base \in Snapshot /\ Past(op[o].base)
                                 /\ op[o].rev \in Nat
                                 /\ op[o].rev <= row[Own].rev
  BY <1>1, <1>2 DEF Fine, QueueFine, OpFine, OpType, Bounded
<1>15. Past(old) /\ Past(link.common) /\ PastNow(old) /\ PastNow(link.common)
       /\ PastNow(after)
  <2>1. Past(old) /\ Past(link.common)
    BY <1>1 DEF RowFine
  <2>2. PastNow(old) /\ PastNow(link.common)
    BY <1>1, <1>2, <2>1, StillFine
  <2>3. PastNow(after)
    <3>1. SUFFICES ASSUME NEW g \in Content PROVE after[g] <= Clock'
      BY DEF PastNow
    <3>2. g \in Fields /\ g # Status
      BY DEF Content
    <3>3. CASE g = f
      BY <1>2, <1>5, <1>9, <3>2, <3>3
    <3>4. CASE g # f
      BY <1>5, <2>2, <3>2, <3>4 DEF PastNow
    <3> QED BY <3>3, <3>4
  <2> QED BY <2>1, <2>2, <2>3
<1> HIDE DEF old, now, rev
<1>16. OneRow' /\ RowFine' /\ QueueFine'
  <2>1. OneRow' /\ RowFine'
    BY <1>1, <1>4, <1>15 DEF OneRow, RowFine, Past, PastNow
  <2>2. ASSUME NEW o \in Ops, Busy(o)' PROVE OpFine(op[o])'
    <3>1. CASE op'[o] = next
      BY <1>5, <1>6, <1>15, <3>1 DEF OpFine, Past, PastNow, Live
    <3>2. CASE Busy(o) /\ op'[o] = op[o]
      <4>1. OpFineNow(op[o])
        BY <1>1, <1>2, <3>2, StillFine DEF Fine, QueueFine
      <4> QED BY <3>2, <4>1 DEF OpFine, OpFineNow, Past, PastNow, Live
    <3> QED BY <1>8, <2>2, <3>1, <3>2
  <2> QED BY <2>1, <2>2 DEF QueueFine
<1>17. HoldsStill /\ Steady
  <2>1. Steady
    BY <1>6, <1>8 DEF Steady, Busy
  <2> QED BY <1>1, <2>1, StillHolds
<1>18. Order'
  <2>1. row'[Own].rev > row[Own].rev /\ row'[Own].rev = rev
    BY <1>2, <1>4 DEF rev
  <2>2. Bounded'
    <3>1. ASSUME NEW o \in Ops, Busy(o)' PROVE op'[o].rev <= row'[Own].rev
      BY <1>2, <1>6, <1>8, <1>14, <2>1, <3>1
    <3>2. link'.synced <= row'[Own].rev
      BY <1>1, <1>2, <2>1 DEF Bounded
    <3> QED BY <3>1, <3>2 DEF Bounded
  <2>3. Oldest'
    <3>1. SUFFICES ASSUME NEW w \in Workers, Holds(w)', NEW q \in Ops, Busy(q)'
                   PROVE  op'[q].rev >= op'[wk'[w].op].rev
      BY DEF Oldest
    <3>2. Holds(w) /\ wk'[w] = wk[w]
      BY <1>17, <3>1 DEF HoldsStill
    <3>3. wk[w].op \in Ops /\ Busy(wk[w].op)
      BY <1>1, <3>2, HeldOp DEF Holds, Busy
    <3>4. op'[wk[w].op] = op[wk[w].op]
      BY <1>8, <3>3
    <3>5. CASE Busy(q) /\ op'[q] = op[q]
      BY <1>1, <3>2, <3>4, <3>5 DEF Oldest
    <3>6. CASE op'[q] = next
      <4>1. op[wk[w].op].rev \in Nat /\ op[wk[w].op].rev <= row[Own].rev
        BY <1>14, <3>3
      <4>2. op'[q].rev = rev /\ op'[wk'[w].op].rev = op[wk[w].op].rev
        BY <1>6, <3>2, <3>4, <3>6
      <4> QED BY <1>2, <2>1, <4>1, <4>2
    <3> QED BY <1>8, <3>1, <3>5, <3>6
  <2>4. Cut'
    <3>1. CASE Queues
      BY <1>1, <1>3, <1>4, <3>1 DEF Cut
    <3>2. CASE ~Queues
      <4>1. op' = op /\ (conn = "disconnected" \/ ~row[Own].google)
        BY <1>3, <1>7, <3>2
      <4>2. ~row[Own].google
        BY <1>1, <4>1 DEF Cut
      <4> QED BY <1>1, <1>4, <3>2, <4>1, <4>2 DEF Cut, Busy
    <3> QED BY <3>1, <3>2
  <2> QED BY <2>2, <2>3, <2>4 DEF Order
<1>19. InRow' /\ Unagreed' /\ Alive' /\ Ahead'
  <2>1. InRow'
    BY <1>4, <1>12 DEF InRow, Has
  <2>2. Unagreed'
    <3>1. SUFFICES ASSUME NEW i \in Loose', Has(link.common, i)' PROVE FALSE
      BY DEF Unagreed
    <3>2. link'.common[edits'[i].field] = i
      BY <3>1 DEF Has
    <3>3. link.common[edits'[i].field] = i
      BY <1>1, <3>2
    <3>4. \A s \in Snapshot : Past(s) /\ s[edits'[i].field] = i
             => i \in Loose /\ s[edits[i].field] = i
      BY <1>13 DEF Has
    <3>5. i \in Loose /\ link.common[edits[i].field] = i
      BY <1>2, <1>15, <3>3, <3>4
    <3> QED BY <3>5 DEF Traced, Unagreed, Has
  <2>3. Alive'
    <3>1. Loose' # {} => Live(row'[Own].s)
      BY <1>4, <1>5, <1>10
    <3> QED BY <3>1 DEF Alive, Live
  <2>4. Ahead'
    <3>1. row'[Own].rev > link.synced
      BY <1>1, <1>2, <1>4 DEF Bounded, rev
    <3> QED BY <1>1, <3>1 DEF Ahead
  <2> QED BY <2>1, <2>2, <2>3, <2>4
<1>20. InNewest'
  <2>1. SUFFICES ASSUME NEW o \in Ops, Busy(o)', op'[o].rev = row'[Own].rev,
                        NEW i \in Loose'
                 PROVE  Has(op[o].want, i)'
    BY DEF InNewest
  <2>2. op'[o] = next
    <3>1. SUFFICES ASSUME Busy(o), op'[o] = op[o] PROVE FALSE
      BY <1>8, <2>1
    <3> QED BY <1>2, <1>4, <1>14, <2>1, <3>1 DEF rev
  <2> QED BY <1>6, <1>12, <2>2 DEF Has
<1>21. Pending'
  <2>1. SUFFICES ASSUME Queues, NEW i \in Loose'
                 PROVE  \E o \in Ops : Busy(o)' /\ Has(op[o].want, i)'
    BY <1>4 DEF Pending
  <2>2. PICK o \in Ops : op'[o] = next
    BY <1>8, <2>1
  <2> QED BY <1>6, <1>12, <2>2 DEF Has, Busy
<1>22. Behind'
  <2>1. SUFFICES ASSUME NEW o \in Ops, Busy(o)', op'[o].kind = "update",
                        NEW i \in Loose', Has(op[o].base, i)'
                 PROVE  \E u \in Ops : /\ Busy(u)' /\ op'[u].rev < op'[o].rev
                                       /\ Has(op[u].want, i)'
    BY DEF Behind
  <2>2. \A s \in Snapshot : Past(s) /\ s[edits'[i].field] = i
           => /\ i \in Loose /\ edits'[i] = edits[i]
              /\ s[edits[i].field] = i
    BY <1>13 DEF Has
  <2>3. CASE Busy(o) /\ op'[o] = op[o]
    <3>1. i \in Loose /\ edits'[i] = edits[i] /\ Has(op[o].base, i)
      BY <1>14, <2>1, <2>2, <2>3 DEF Has
    <3>2. PICK u \in Ops : /\ Busy(u) /\ op[u].rev < op[o].rev
                           /\ Has(op[u].want, i)
      BY <2>1, <2>3, <3>1 DEF Traced, Behind
    <3> QED BY <1>8, <2>3, <3>1, <3>2 DEF Has
  <2>4. CASE op'[o] = next
    <3>1. Queues
      <4>1. SUFFICES ASSUME ~Queues PROVE FALSE
        OBVIOUS
      <4>2. op[o] = next /\ Busy(o)
        BY <1>7, <2>1, <2>4, <4>1 DEF Busy
      <4> QED BY <1>2, <1>6, <1>14, <4>2 DEF rev
    <3>2. i \in Loose /\ edits'[i] = edits[i]
      BY <1>2, <1>6, <1>15, <2>1, <2>2, <2>4 DEF Has
    <3>3. PICK u \in Ops : Busy(u) /\ Has(op[u].want, i)
      BY <1>3, <3>1, <3>2 DEF Traced, Pending
    <3>4. op'[u] = op[u] /\ Busy(u)' /\ op[u].rev < rev
      BY <1>2, <1>8, <1>14, <3>3 DEF rev
    <3> QED BY <1>6, <2>4, <3>2, <3>3, <3>4 DEF Has
  <2> QED BY <1>8, <2>1, <2>3, <2>4
<1>23. Carried'
  <2>1. SUFFICES ASSUME NEW w \in Workers, Holds(w)', wk'[w].kind = "update",
                        NEW i \in Loose', Has(op[wk[w].op].want, i)'
                 PROVE  /\ wk'[w].pc # "answered"
                        /\ wk'[w].pc \in {"read", "sent"} => Has(wk[w].put, i)'
    BY DEF Carried
  <2>2. Holds(w) /\ wk'[w] = wk[w]
    BY <1>17, <2>1 DEF HoldsStill
  <2>3. wk[w].op \in Ops /\ Busy(wk[w].op)
    BY <1>1, <2>2, HeldOp DEF Holds, Busy
  <2>4. op'[wk[w].op] = op[wk[w].op]
    BY <1>8, <2>3
  <2>5. \A s \in Snapshot : Past(s) /\ s[edits'[i].field] = i
           => /\ i \in Loose /\ edits'[i] = edits[i]
              /\ s[edits[i].field] = i
    BY <1>13 DEF Has
  <2>6. i \in Loose /\ edits'[i] = edits[i] /\ Has(op[wk[w].op].want, i)
    BY <1>14, <2>1, <2>2, <2>3, <2>4, <2>5 DEF Has
  <2> QED BY <2>1, <2>2, <2>6 DEF Traced, Carried, Has
<1> QED BY <1>16, <1>18, <1>19, <1>20, <1>21, <1>22, <1>23 DEF Traced

-----------------------------------------------------------------------------
(* Every step keeps the invariant. *)

LEMMA CalmStep ==
    ASSUME IInv, TypeOK', Fine, Order, Traced, Grows, origin = "linked",
           \/ \E o \in Ops : RetryFailed(o) \/ ClaimExpires(o)
           \/ (\E f \in Fields : RemoteEdit(f)) \/ Resync
           \/ \E w \in Workers :
                 \/ TryLater(w) \/ GiveUp(w) \/ (Complete(w) /\ ~CanSend(w))
                 \/ RequestFails(w) \/ RefusedForGood(w) \/ Unauthorised(w)
           \/ \E p \in Pullers :
                 \/ ClaimPull(p) \/ List(p) \/ PullGivesUp(p) \/ PageRefused(p)
                 \/ PullFails(p) \/ LeaseExpires(p)
                 \/ (SavePage(p) /\ PageWithout(p))
    PROVE  /\ OneRow' /\ RowFine' /\ QueueFine'
           /\ Order' /\ Traced'
<1>1. OneRow /\ Cut
  BY DEF Fine, Order
<1>2. edits' = edits \/ \E f \in Fields : RemoteEdit(f)
  BY DEF RetryFailed, ClaimExpires, Resync, TryLater, GiveUp, Complete,
         RequestFails, RefusedForGood, Unauthorised, ClaimPull, List,
         PullGivesUp, PageRefused, PullFails, LeaseExpires, SavePage
<1>3. Calm /\ HoldsStill
  BY <1>1, UserCalm, ExpiryCalm, RestCalm, PullCalm
<1> QED BY <1>2, <1>3, CalmKeeps

LEMMA WorkerEdits ==
    ASSUME IInv, TypeOK', Fine, Order, Traced, Grows, origin = "linked",
           NEW w \in Workers, Work(w)
    PROVE  /\ OneRow' /\ RowFine' /\ QueueFine'
           /\ Order' /\ Traced'
<1>1. CASE \E o \in Ops : Claim(w, o)
  BY <1>1, ClaimEdits
<1>2. CASE (Read(w) \/ Recheck(w)) /\ HonourDeletion(w)
  BY <1>2, HonourEdits
<1>3. CASE (Read(w) \/ Recheck(w)) /\ ~HonourDeletion(w)
  BY <1>3, StageEdits
<1>4. CASE Send(w) \/ Land(w)
  <2>1. row' = row
    BY <1>4 DEF Send, Land
  <2>2. ~HonourDeletion(w)
    <3>1. SUFFICES ASSUME HonourDeletion(w) PROVE FALSE
      OBVIOUS
    <3>2. row \in [Rows -> RowType] /\ Own \in Rows
      BY Typed DEF IInv
    <3>3. row' = [row EXCEPT ![Own].s[Status] = 1, ![Own].sync = "synced",
                             ![Own].rev = row[Own].rev + 1]
      BY <3>1 DEF HonourDeletion
    <3>4. row'[Own].rev = row[Own].rev + 1 /\ row[Own].rev \in Nat
      BY <3>2, <3>3 DEF RowType
    <3> QED BY <2>1, <3>4
  <2> QED BY <1>4, <2>2, StageEdits
<1>5. CASE TryLater(w) \/ GiveUp(w) \/ (Complete(w) /\ ~CanSend(w))
  BY <1>5, CalmStep
<1>6. CASE Complete(w) /\ CanSend(w)
  BY <1>6, DeletedEdits, WrittenEdits
<1> QED BY <1>1, <1>2, <1>3, <1>4, <1>5, <1>6 DEF Work

LEMMA PullerEdits ==
    ASSUME IInv, TypeOK', Fine, Order, Traced, Grows, origin = "linked",
           NEW p \in Pullers, Pull(p)
    PROVE  /\ OneRow' /\ RowFine' /\ QueueFine'
           /\ Order' /\ Traced'
<1>1. CASE \/ ClaimPull(p) \/ List(p) \/ PullGivesUp(p) \/ PageRefused(p)
           \/ (SavePage(p) /\ PageWithout(p))
  BY <1>1, CalmStep
<1>2. ~PageOfUnlinked(p)
  BY DEF PageOfUnlinked, Fine, OneRow
<1>3. CASE SavePage(p) /\ ~PageWithout(p)
  BY <1>2, <1>3, PageDeletedEdits, PageCleanEdits, PageDirtyEdits DEF SavePage
<1> QED BY <1>1, <1>3 DEF Pull

LEMMA EditsNext ==
    ASSUME IInv, IInv', EInv, Next PROVE EInv'
<1>1. origin' = origin
  BY DEF Next, User, Connection, Faults, Work, Pull, CreateEvent, EditEvent,
         RetryFailed, RemoteEdit, Disconnect, Reconnect, Resync, Claim, Read,
         Send, Land, Recheck, TryLater, GiveUp, Complete, RequestFails,
         RefusedForGood, Unauthorised, ClaimExpires, ClaimPull, List,
         PullGivesUp, SavePage, PageRefused, PullFails, LeaseExpires
<1>2. SUFFICES ASSUME origin = "linked" PROVE Fine' /\ Order' /\ Traced'
  BY <1>1 DEF EInv
<1>3. TypeOK /\ TypeOK' /\ Fine /\ Order /\ Traced
  BY <1>2 DEF IInv, EInv
<1>4. Grows
  BY <1>3, StepGrows
<1>5. /\ CopyFine' /\ (\A w \in Workers : WorkFine(wk[w])')
      /\ (\A p \in Pullers : PageFine(pl[p].got)')
  BY <1>3, <1>4, CopyStays, WorkersStay, PagesStay
<1>6. OneRow' /\ RowFine' /\ QueueFine' /\ Order' /\ Traced'
  <2>1. CASE User
    <3>1. ~CreateEvent
      BY <1>2 DEF CreateEvent
    <3> QED BY <1>2, <1>3, <1>4, <2>1, <3>1, EditEdits, CalmStep DEF User
  <2>2. CASE Connection
    BY <1>2, <1>3, <1>4, <2>2, DisconnectEdits, ReconnectEdits, CalmStep
       DEF Connection
  <2>3. CASE Faults
    BY <1>2, <1>3, <1>4, <2>3, CalmStep DEF Faults
  <2>4. CASE \E w \in Workers : Work(w)
    BY <1>2, <1>3, <1>4, <2>4, WorkerEdits
  <2>5. CASE \E p \in Pullers : Pull(p)
    BY <1>2, <1>3, <1>4, <2>5, PullerEdits
  <2> QED BY <2>1, <2>2, <2>3, <2>4, <2>5 DEF Next
<1> QED BY <1>5, <1>6 DEF Fine

LEMMA EditsInit == Init => EInv
<1> SUFFICES ASSUME Init, origin = "linked" PROVE Fine /\ Order /\ Traced
  BY DEF EInv
<1>1. /\ edits = <<>> /\ conn = "connected"
      /\ row = [r \in Rows |->
                  IF r = Own
                  THEN [NoRow EXCEPT !.on = TRUE, !.google = TRUE,
                                     !.sync = "synced", !.rev = 1]
                  ELSE NoRow]
      /\ link = [ev |-> Own, common |-> Fresh, synced |-> 1, seen |-> 1,
                 tomb |-> FALSE]
      /\ remote = [at |-> "live", s |-> Fresh, etag |-> 1, upd |-> 0]
      /\ op = [o \in Ops |-> Free] /\ wk = [w \in Workers |-> Idle]
      /\ pl = [p \in Pullers |-> Resting]
  BY DEF Init
<1>2. Clock = 0
  BY <1>1 DEF Clock
<1>3. Past(Fresh) /\ Known(Fresh) /\ Live(Fresh)
  BY <1>2 DEF Past, Known, Live, Fresh, Values, Content
<1>4. /\ row[Twin] = NoRow /\ row[Own].on /\ row[Own].google
      /\ row[Own].rev = 1 /\ row[Own].s = Fresh
  BY <1>1 DEF Rows, NoRow
<1>5. link # None /\ link.ev = Own /\ link.common = Fresh /\ link.synced = 1
  <2>1. link \in LinkType
    BY <1>1, BlankTyped DEF LinkType, Rows
  <2> QED BY <1>1, <2>1, LinkAssumption
<1>6. /\ \A o \in Ops : ~Busy(o)
      /\ \A w \in Workers : ~Holds(w) /\ WorkFine(wk[w])
      /\ \A p \in Pullers : PageFine(pl[p].got)
  <2>1. \A w \in Workers : wk[w] = Idle
    BY <1>1
  <2>2. \A w \in Workers : ~Holds(w) /\ WorkFine(wk[w])
    BY <1>3, <2>1 DEF Idle, Holds, WorkFine
  <2>3. \A o \in Ops : ~Busy(o)
    BY <1>1 DEF Busy, Free
  <2>4. \A p \in Pullers : PageFine(pl[p].got)
    BY <1>1 DEF Resting, Unlisted, PageFine
  <2> QED BY <2>2, <2>3, <2>4
<1>7. Fine
  <2>1. CopyFine
    BY <1>1, <1>3 DEF CopyFine
  <2> QED BY <1>3, <1>4, <1>5, <1>6, <2>1 DEF Fine, OneRow, RowFine, QueueFine
<1>8. Order
  BY <1>1, <1>4, <1>5, <1>6 DEF Order, Bounded, Oldest, Cut
<1>9. Loose = {}
  BY <1>2 DEF Loose, Edited
<1>10. Traced
  BY <1>9 DEF Traced, InRow, Unagreed, Alive, Ahead, InNewest, Pending, Behind,
              Carried
<1> QED BY <1>7, <1>8, <1>10

LEMMA EditsStutter == EInv /\ UNCHANGED vars => EInv'
<1> SUFFICES ASSUME EInv, UNCHANGED vars PROVE EInv'
  OBVIOUS
<1>1. Fine => Fine'
  BY DEF vars, Fine, OneRow, RowFine, CopyFine, QueueFine, OpFine, WorkFine,
         PageFine, Past, Known, Busy, Clock
<1>2. Order => Order'
  BY DEF vars, Order, Bounded, Oldest, Cut, Holds, Busy
<1>3. Loose' = Loose
  BY DEF vars, Loose, Edited, Replaced, Clock
<1>4. Traced => Traced'
  BY <1>3 DEF vars, Traced, InRow, Unagreed, Alive, Ahead, InNewest, Pending,
              Behind, Carried, Holds, Busy, Has
<1> QED BY <1>1, <1>2, <1>4 DEF vars, EInv

\* Where an edit of Sydia's is while Google has not got it, and that no snapshot
\* on its way takes it for agreed.
THEOREM EditsInvariant == Spec => [](IInv /\ EInv)
<1>1. Init => IInv /\ EInv
  BY InitIInv, EditsInit
<1>2. IInv /\ EInv /\ [Next]_vars => IInv' /\ EInv'
  <2>1. SUFFICES ASSUME IInv, EInv, [Next]_vars PROVE IInv' /\ EInv'
    OBVIOUS
  <2>2. IInv'
    BY <2>1, NextKeeps
  <2>3. CASE Next
    BY <2>1, <2>2, <2>3, EditsNext
  <2>4. CASE UNCHANGED vars
    BY <2>1, <2>2, <2>4, EditsStutter
  <2> QED BY <2>1, <2>3, <2>4
<1> QED BY <1>1, <1>2, PTL DEF Spec

\* An edit that Sydia's user made to an event that both sides have is at Google,
\* in the recovery records, replaced, or still in the row: no pull, claim, retry,
\* completion, disconnection or reconnection drops it.
THEOREM SydiaEditsSurvive == Spec => []NoSydiaEditLost
<1>1. EInv => NoSydiaEditLost
  <2>1. SUFFICES ASSUME EInv, origin = "linked", NEW i \in Edited("sydia"),
                        ~Replaced(i), i \notin held \cup saved
                 PROVE  row[Own].s[edits[i].field] = i
    BY DEF NoSydiaEditLost
  <2>2. i \in Loose
    BY <2>1 DEF Loose
  <2> QED BY <2>1, <2>2 DEF EInv, Traced, InRow, Has
<1> QED BY <1>1, EditsInvariant, PTL

\* A row that says it is synced shows nothing that Google has never had
\* (completeOperation, saveCalendarSyncPage).
THEOREM SyncedCorrect == Spec => []SyncedIsHeld
<1>1. EInv => SyncedIsHeld
  <2>1. SUFFICES ASSUME EInv, origin = "linked", NEW r \in Rows,
                        row[r].sync = "synced", Live(row[r].s)
                 PROVE  Known(row[r].s)
    BY DEF SyncedIsHeld, Known
  <2>2. OneRow /\ RowFine
    BY <2>1 DEF EInv, Fine
  <2>3. r # Twin
    BY <2>1, <2>2 DEF OneRow, NoRow
  <2> QED BY <2>1, <2>2, <2>3 DEF RowFine, Rows
<1> QED BY <1>1, EditsInvariant, PTL

=============================================================================
