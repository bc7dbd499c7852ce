----------------------------- MODULE CalendarMerge -----------------------------
(***************************************************************************)
(* How two edits of one calendar event meet.  A snapshot gives each field  *)
(* group of the event (title, description, location, time, attendees,      *)
(* status) a value.  `base` is what both sides agreed on, `local` Sydia's  *)
(* event, `remote` Google's.                                               *)
(*                                                                         *)
(*   calendar/calendar-update-reconciliation.ts         an edit pushed     *)
(*   database/repositories/prisma-calendar.repository.ts  a change pulled  *)
(*                                                                         *)
(* The two are separate code and have to agree.                            *)
(***************************************************************************)
EXTENDS Naturals

CONSTANTS Fields,  \* the field groups
          Status   \* the group that says whether the event is cancelled

ASSUME StatusAssumption == Status \in Fields

Snapshot == [Fields -> Nat]

\* The status of a snapshot is 0 (confirmed) or 1 (cancelled).
Live(s) == s[Status] = 0

Changed(x, y) == {g \in Fields : x[g] # y[g]}

\* x, with the groups of G taken from y.
Overlay(x, y, G) == [g \in Fields |-> IF g \in G THEN y[g] ELSE x[g]]

-----------------------------------------------------------------------------
(* Pushing an edit: reconcileCalendarUpdate and resolveCalendarUpdate. *)

Wanted(base, desired, remote) ==
    {g \in Fields : desired[g] \notin {base[g], remote[g]}}

Clashing(base, desired, remote) ==
    {g \in Wanted(base, desired, remote) : remote[g] # base[g]}

\* The second comparison, after the clashing groups are settled: `rebased` has
\* them from Google, and so has the target when Google's edit is the later one.
Rebased(base, desired, remote) ==
    Overlay(base, remote, Clashing(base, desired, remote))

Target(base, desired, remote, localWins) ==
    IF localWins THEN desired
    ELSE Overlay(desired, remote, Clashing(base, desired, remote))

\* The groups of the patch that is sent, and the event that Google has then.
Patch(base, desired, remote, localWins) ==
    Wanted(Rebased(base, desired, remote),
           Target(base, desired, remote, localWins), remote)

Pushed(base, desired, remote, localWins) ==
    Overlay(remote, desired, Patch(base, desired, remote, localWins))

-----------------------------------------------------------------------------
(* Pulling a change: the dirty branch of applyInboundEvent. *)

Conflicting(base, local, remote) ==
    IF ~Live(local) /\ Live(base) /\ Changed(base, remote) # {}
    THEN {Status}
    ELSE {g \in Changed(base, local) \cap Changed(base, remote) :
              local[g] # remote[g]}

Kept(base, local, remote, localWins) ==
    IF localWins THEN Changed(base, local)
    ELSE Changed(base, local) \ Conflicting(base, local, remote)

Merged(base, local, remote, localWins) ==
    Overlay(remote, local, Kept(base, local, remote, localWins))
=============================================================================
