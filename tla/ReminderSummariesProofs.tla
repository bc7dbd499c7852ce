-------------------------- MODULE ReminderSummariesProofs --------------------------
(***************************************************************************)
(* What TLAPS proves of the recovery summaries of ReminderDelivery: a      *)
(* reminder that an outage has swallowed stays in view until a summary     *)
(* names it, and what is marked summarized was named by one.               *)
(***************************************************************************)
EXTENDS ReminderDeliveryProofs

-----------------------------------------------------------------------------
(* The inductive invariant.                                                *)

\* Outage o was read, or missed something, for the owner of generation g.
Tie(o, g) ==
    \/ conn.outage = o /\ conn.gen = g
    \/ \E q \in Processes : row[q].outage = o /\ row[q].gen = g
    \/ \E r \in Reminders : missedIn[r] = o /\ bound[r] = g

\* An id is an outage of one owner, and was given out before it is used.
OneOwner == \A o \in Outages, g, h \in Nat : Tie(o, g) /\ Tie(o, h) => g = h
GivenOut == \A o \in Outages, g \in Nat : Tie(o, g) => o <= opened

\* No reminder is bound to an owner to come.
BoundBefore == \A r \in Reminders : bound[r] <= conn.gen

\* What only a worker that has claimed its reminder records.
Claiming == {"missed", "skipped_disconnected", "failed", "delivered", "unknown"}

\* A worker writes over no status but its own claim, unless it skips.
WriteOK(w) ==
    /\ at[w] = "missing" => /\ bound[job[w]] = row[w].gen
                            /\ row[w].outage \in Outages
    /\ at[w] = "recording" /\ outcome[w] = "missed" =>
           missedIn[job[w]] = row[w].outage /\ row[w].outage \in Outages
    /\ at[w] = "recording" /\ outcome[w] \in Claiming =>
           state[job[w]] = "attempting"

\* The reminders that the summary of outage o must name.
Wanting(o) == {r \in valid \ (summarized \cup astray) :
                  state[r] = "missed" /\ missedIn[r] = o}

\* The statuses that a missed reminder may have or get, those of a summary that
\* is over, and the reasons for which it may leave a reminder out.
Ended   == {"missed", "skipped_disabled", "skipped_obsolete", "skipped_unlinked"}
Over    == {"delivered", "unknown", "skipped_disabled", "skipped_obsolete"}
Dropped(r) == r \notin valid \/ r \in astray \/ state[r] # "missed"

\* From its list to the end of the outage a refresher has all that is wanted.
Listing == {"claiming", "telling", "recording", "completing"}

ListOK(p) ==
    /\ at[p] \in Listing => Wanting(row[p].outage) \subseteq listed[p]
    /\ at[p] \notin Listing => listed[p] = {}
    /\ Making(p) => listed[p] = covers[row[p].outage]
    /\ at[p] = "recording" => outcome[p] \in {"failed"} \cup (Over \ {"skipped_obsolete"})
    /\ at[p] = "completing" =>
           /\ row[p].outage \in Outages
           /\ \/ listed[p] = {}
              \/ /\ note[row[p].outage] \in Over
                 /\ listed[p] \subseteq covers[row[p].outage]

\* The claim of a summary stores all that is wanted, of its outage only.
CoverOK(o) ==
    /\ \A r \in covers[o] : missedIn[r] = o /\ state[r] \in Ended
    /\ note[o] \notin Retried => Wanting(o) \subseteq covers[o]
    /\ note[o] = "skipped_obsolete" => \A r \in covers[o] : Dropped(r)

Named(r) == /\ missedIn[r] \in Outages /\ r \in covers[missedIn[r]]
            /\ note[missedIn[r]] \in Over

SInv == /\ OneOwner /\ GivenOut /\ BoundBefore
        /\ \A w \in Workers : WriteOK(w)
        /\ \A p \in Refreshers : ListOK(p)
        /\ \A o \in Outages : CoverOK(o)
        /\ \A r \in summarized : Named(r)
        /\ MissedIsRemembered

LEMMA InitSInv == Init => SInv
<1> SUFFICES ASSUME Init PROVE SInv
  OBVIOUS
<1>1. OneOwner /\ GivenOut /\ BoundBefore
  BY DEF Init, OneOwner, GivenOut, BoundBefore, Tie, Paired, Outages
<1>2. \A w \in Workers : WriteOK(w)
  BY DEF Init, WriteOK, Processes
<1>3. \A p \in Refreshers : ListOK(p)
  BY DEF Init, ListOK, Listing, Making, Processes
<1>4. \A o \in Outages : CoverOK(o)
  BY DEF Init, CoverOK, Retried
<1>5. MissedIsRemembered
  BY DEF Init, MissedIsRemembered
<1> QED BY <1>1, <1>2, <1>3, <1>4, <1>5 DEF SInv, Init

-----------------------------------------------------------------------------
(* What every step does to the reminders and the summaries, but for its own *)
(* part, and what it keeps by that.                                         *)

Calm ==
    /\ valid' \subseteq valid /\ astray \subseteq astray'
    /\ \A r \in Reminders :
          /\ state[r] # "none" => bound'[r] = bound[r]
          /\ missedIn[r] # 0 => missedIn'[r] = missedIn[r]
          /\ missedIn[r] # 0 /\ state[r] \in Ended =>
                 state'[r] \in Ended /\ (state'[r] = "missed" => state[r] = "missed")
          /\ state'[r] = "missed" /\ r \notin astray' =>
                 \/ state[r] = "missed" /\ missedIn'[r] = missedIn[r]
                 \/ conn.outage = missedIn'[r] /\ ~Closing(conn.outage)
    /\ \A o \in Outages : /\ note[o] \notin Retried => covers'[o] = covers[o]
                          /\ note[o] \in Over => note'[o] = note[o]

\* All processes but those of X stay where they are.
Still(X) ==
    /\ \A q \in Processes \ X : Same(q)
    /\ \A v \in Workers \ X : job'[v] = job[v]
    /\ \A q \in Refreshers \ X : listed'[q] = listed[q]

\* A step that leaves the reminders and the summaries alone.
LEMMA CalmStill ==
    ASSUME valid' \subseteq valid, astray \subseteq astray',
           UNCHANGED <<state, missedIn, bound, note, covers>>
    PROVE  Calm
BY DEF Calm

\* What is being closed wants nothing more.
LEMMA WantingShrinks ==
    ASSUME TypeOK, Calm, summarized \subseteq summarized', NEW o \in Outages, Closing(o)
    PROVE  Wanting(o)' \subseteq Wanting(o)
<1> SUFFICES ASSUME NEW r \in Wanting(o)' PROVE r \in Wanting(o)
  OBVIOUS
<1>1. /\ r \in valid /\ r \in Reminders /\ r \notin summarized /\ r \notin astray
      /\ r \notin astray' /\ state'[r] = "missed" /\ missedIn'[r] = o
  BY DEF Wanting, Calm, TypeOK
<1>2. \/ state[r] = "missed" /\ missedIn'[r] = missedIn[r]
      \/ conn.outage = o /\ ~Closing(conn.outage)
  BY <1>1 DEF Calm
<1>3. CASE state[r] = "missed" /\ missedIn'[r] = missedIn[r]
  BY <1>1, <1>3 DEF Wanting
<1>4. CASE conn.outage = o /\ ~Closing(conn.outage)
  <2>1. ~Closing(o)
    BY <1>4
  <2> QED BY <2>1
<1> QED BY <1>2, <1>3, <1>4

LEMMA DroppedStays ==
    ASSUME Calm, NEW r \in Reminders, missedIn[r] # 0, state[r] \in Ended, Dropped(r)
    PROVE  Dropped(r)'
BY DEF Calm, Dropped

\* The summary of o keeps what it has stored.
LEMMA CoverKept ==
    ASSUME TypeOK, Calm, summarized \subseteq summarized', NEW o \in Outages,
           CoverOK(o), covers'[o] = covers[o],
           \/ note'[o] = note[o]
           \/ note[o] \notin Retried /\ note'[o] # "skipped_obsolete"
    PROVE  CoverOK(o)'
<1>1. \A r \in covers[o] : /\ r \in Reminders /\ missedIn[r] = o /\ o # 0
                           /\ state[r] \in Ended
  <2>1. covers[o] \subseteq Reminders
    BY DEF TypeOK
  <2> QED BY <2>1 DEF CoverOK, Outages
<1>2. \A r \in covers[o] : missedIn'[r] = o /\ state'[r] \in Ended
  BY <1>1 DEF Calm
<1>3. note'[o] \notin Retried => Wanting(o)' \subseteq covers[o]
  BY WantingShrinks DEF CoverOK, Closing
<1>4. note'[o] = "skipped_obsolete" => \A r \in covers[o] : Dropped(r)'
  BY <1>1, DroppedStays DEF CoverOK
<1> QED BY <1>2, <1>3, <1>4 DEF CoverOK

\* A refresher that does not move keeps its list.
LEMMA ListKept ==
    ASSUME IInv, Calm, summarized \subseteq summarized', NEW p \in Refreshers,
           ListOK(p), Same(p), listed'[p] = listed[p]
    PROVE  ListOK(p)'
<1>1. at[p] \in Listing => row[p].outage \in Outages
  BY DEF IInv, TellOK, ListOK, Listing
<1>2. at[p] \in Listing => Closing(row[p].outage)
  BY DEF Closing, Listing
<1>3. ASSUME NEW o \in Outages, at[p] \in Listing, row[p].outage = o
      PROVE  Wanting(o)' \subseteq listed[p]
  <2>1. Wanting(o)' \subseteq Wanting(o)
    BY <1>2, <1>3, WantingShrinks DEF IInv
  <2> QED BY <1>3, <2>1 DEF ListOK
<1>4. Making(p) => covers'[row[p].outage] = covers[row[p].outage]
  BY <1>1 DEF Making, Listing, IInv, TellOK, Calm, Retried
<1>5. at[p] = "completing" /\ note[row[p].outage] \in Over =>
          /\ note'[row[p].outage] = note[row[p].outage]
          /\ covers'[row[p].outage] = covers[row[p].outage]
  BY <1>1 DEF Listing, Calm, Over, Retried
<1>6. at'[p] = at[p] /\ row'[p] = row[p] /\ outcome'[p] = outcome[p]
  BY DEF Same
<1>7. at'[p] \in Listing => Wanting(row[p].outage)' \subseteq listed'[p]
  <2> SUFFICES ASSUME at'[p] \in Listing PROVE Wanting(row[p].outage)' \subseteq listed'[p]
    OBVIOUS
  <2>1. PICK o \in Outages : row[p].outage = o
    BY <1>1, <1>6
  <2>2. Wanting(o)' \subseteq listed'[p]
    BY <1>3, <1>6, <2>1
  <2> QED BY <1>6, <2>1, <2>2 DEF Wanting
<1> QED BY <1>4, <1>5, <1>6, <1>7 DEF ListOK, Making

LEMMA NamedKept ==
    ASSUME TypeOK, Calm, NEW r \in summarized, Named(r)
    PROVE  Named(r)'
<1>1. r \in Reminders /\ missedIn[r] \in Outages /\ missedIn[r] # 0
  BY DEF Named, TypeOK, Outages
<1>2. missedIn'[r] = missedIn[r]
  BY <1>1 DEF Calm
<1>3. note[missedIn[r]] \notin Retried
  BY DEF Named, Over, Retried
<1>4. /\ covers'[missedIn[r]] = covers[missedIn[r]]
      /\ note'[missedIn[r]] = note[missedIn[r]]
  BY <1>1, <1>3 DEF Calm, Named
<1> QED BY <1>2, <1>4 DEF Named

\* While the connection keeps its outage and its owner.
LEMMA RememberedKept ==
    ASSUME TypeOK, Calm, summarized \subseteq summarized', MissedIsRemembered,
           conn'.outage = conn.outage, conn'.gen = conn.gen
    PROVE  MissedIsRemembered'
BY DEF Calm, MissedIsRemembered, TypeOK

\* What a worker that does not move is to record stays its own.
LEMMA WriteKept ==
    ASSUME TypeOK, Calm, NEW w \in Workers, WriteOK(w), WorkOK(w), Same(w),
           job'[w] = job[w],
           job[w] # None /\ state[job[w]] = "attempting" =>
               state'[job[w]] = "attempting"
    PROVE  WriteOK(w)'
<1>1. at[w] # "idle" => job[w] \in Reminders /\ state[job[w]] # "none"
                        /\ job[w] # None
  BY DEF WorkOK, TypeOK
<1> QED BY <1>1 DEF WriteOK, Same, Calm, Outages

\* The ids that a step uses were in use before.
LEMMA TiesKept ==
    ASSUME NEW X \in SUBSET Processes, Still(X),
           conn'.outage = 0 \/ Tie(conn'.outage, conn'.gen),
           \A q \in X : row'[q].outage = 0 \/ Tie(row'[q].outage, row'[q].gen),
           \A r \in Reminders :
              \/ missedIn'[r] = 0
              \/ missedIn'[r] = missedIn[r] /\ bound'[r] = bound[r]
              \/ Tie(missedIn'[r], bound'[r])
    PROVE  \A o \in Outages, g \in Nat : Tie(o, g)' => Tie(o, g)
<1> SUFFICES ASSUME NEW o \in Outages, NEW g \in Nat, Tie(o, g)' PROVE Tie(o, g)
  OBVIOUS
<1>1. o # 0
  BY DEF Outages
<1>2. CASE conn'.outage = o /\ conn'.gen = g
  BY <1>1, <1>2
<1>3. CASE \E q \in Processes : row'[q].outage = o /\ row'[q].gen = g
  BY <1>1, <1>3 DEF Still, Same, Tie
<1>4. CASE \E r \in Reminders : missedIn'[r] = o /\ bound'[r] = g
  BY <1>1, <1>4 DEF Tie
<1> QED BY <1>2, <1>3, <1>4 DEF Tie

LEMMA OwnersKept ==
    ASSUME OneOwner, GivenOut, opened' = opened,
           \A o \in Outages, g \in Nat : Tie(o, g)' => Tie(o, g)
    PROVE  OneOwner' /\ GivenOut'
BY DEF OneOwner, GivenOut, Outages

\* What remains to be shown of a step of the processes of X.
LEMMA SummariesKept ==
    ASSUME IInv, SInv, Calm, summarized \subseteq summarized',
           NEW X \in SUBSET Processes, Still(X),
           \A w \in Workers \cap X : WriteOK(w)',
           \A p \in Refreshers \cap X : ListOK(p)',
           \A v \in Workers \ X : job[v] # None /\ state[job[v]] = "attempting" =>
               state'[job[v]] = "attempting",
           \A o \in Outages : CoverOK(o)', \A r \in summarized' : Named(r)',
           OneOwner', GivenOut', BoundBefore', MissedIsRemembered'
    PROVE  SInv'
<1>1. ASSUME NEW w \in Workers PROVE WriteOK(w)'
  <2>1. CASE w \in X
    BY <2>1
  <2>2. CASE w \notin X
    <3>1. Same(w) /\ job'[w] = job[w]
      BY <2>2 DEF Still, Processes
    <3> QED BY <2>2, <3>1, WriteKept DEF IInv, SInv
  <2> QED BY <2>1, <2>2
<1>2. ASSUME NEW p \in Refreshers PROVE ListOK(p)'
  <2>1. CASE p \in X
    BY <2>1
  <2>2. CASE p \notin X
    <3>1. Same(p) /\ listed'[p] = listed[p]
      BY <2>2 DEF Still, Processes
    <3> QED BY <2>2, <3>1, ListKept DEF SInv
  <2> QED BY <2>1, <2>2
<1> QED BY <1>1, <1>2 DEF SInv

\* A step that leaves the summaries alone.
LEMMA NotesLeft ==
    ASSUME IInv, SInv, Calm, UNCHANGED <<note, covers, summarized>>
    PROVE  /\ \A o \in Outages : CoverOK(o)'
           /\ \A r \in summarized' : Named(r)'
<1>1. TypeOK /\ summarized \subseteq summarized'
  BY DEF IInv
<1>2. \A o \in Outages : CoverOK(o)'
  BY <1>1, CoverKept DEF SInv
<1>3. \A r \in summarized : Named(r)'
  BY <1>1, NamedKept DEF SInv
<1> QED BY <1>2, <1>3

\* A step that leaves the connection its owner and its outage.
LEMMA ConnLeft ==
    ASSUME IInv, SInv, Calm, summarized \subseteq summarized',
           NEW X \in SUBSET Processes, Still(X),
           UNCHANGED <<bound, opened>>,
           conn'.outage = conn.outage, conn'.gen = conn.gen,
           \A q \in X : row'[q].outage = 0 \/ Tie(row'[q].outage, row'[q].gen),
           \A r \in Reminders : missedIn'[r] \in {0, missedIn[r]}
                                \/ Tie(missedIn'[r], bound[r])
    PROVE  OneOwner' /\ GivenOut' /\ BoundBefore' /\ MissedIsRemembered'
<1>1. MissedIsRemembered' /\ BoundBefore'
  BY RememberedKept DEF IInv, SInv, BoundBefore
<1>2. Tie(conn'.outage, conn'.gen)
  BY DEF Tie
<1>3. \A o \in Outages, g \in Nat : Tie(o, g)' => Tie(o, g)
  BY <1>2, TiesKept
<1>4. OneOwner' /\ GivenOut'
  BY <1>3, OwnersKept DEF SInv
<1> QED BY <1>1, <1>4

\* What remains to be shown of a step of a worker.
LEMMA WorkerSteps ==
    ASSUME IInv, SInv, Calm, NEW w \in Workers, Alone(w),
           UNCHANGED <<conn, opened, bound, note, covers, summarized>>,
           WriteOK(w)',
           row'[w].outage = 0 \/ Tie(row'[w].outage, row'[w].gen),
           \A r \in Reminders : missedIn'[r] = missedIn[r]
                                \/ Tie(missedIn'[r], bound[r]),
           \A r \in Reminders : r # job[w] /\ state[r] = "attempting" =>
               state'[r] = "attempting"
    PROVE  SInv'
<1>1. w \in Processes /\ w \notin Refreshers
  BY Apart, ProcessAssumption DEF Processes
<1>2. Still({w})
  BY <1>1, Apart DEF Still, Alone
<1>3. OneOwner' /\ GivenOut' /\ BoundBefore' /\ MissedIsRemembered'
  BY <1>1, <1>2, ConnLeft
<1>4. \A v \in Workers \ {w} : job[v] # None /\ state[job[v]] = "attempting" =>
          state'[job[v]] = "attempting"
  BY DEF IInv, TypeOK, Distinct
<1> QED BY <1>1, <1>2, <1>3, <1>4, NotesLeft, SummariesKept

\* What remains to be shown of a step of a refresher.
LEMMA RefresherSteps ==
    ASSUME IInv, SInv, Calm, NEW p \in Refreshers, Alone(p),
           summarized \subseteq summarized', ListOK(p)',
           \A r \in Reminders : state[r] = "attempting" => state'[r] = "attempting",
           \A o \in Outages : CoverOK(o)', \A r \in summarized' : Named(r)',
           OneOwner', GivenOut', BoundBefore', MissedIsRemembered'
    PROVE  SInv'
<1>1. p \in Processes /\ p \notin Workers
  BY Apart, ProcessAssumption DEF Processes
<1>2. Still({p})
  BY <1>1, Apart DEF Still, Alone
<1>3. \A v \in Workers \ {p} : job[v] # None /\ state[job[v]] = "attempting" =>
          state'[job[v]] = "attempting"
  BY DEF IInv, TypeOK
<1> QED BY <1>1, <1>2, <1>3, SummariesKept

\* What remains to be shown of a step of the world.
LEMMA WorldSteps ==
    ASSUME IInv, SInv, Calm, UNCHANGED <<localVars, note, covers, summarized>>,
           \A r \in Reminders : state[r] = "attempting" => state'[r] = "attempting",
           OneOwner', GivenOut', BoundBefore', MissedIsRemembered'
    PROVE  SInv'
<1>1. Still({})
  BY DEF Still, Same, localVars
<1>2. \A v \in Workers : job[v] # None /\ state[job[v]] = "attempting" =>
          state'[job[v]] = "attempting"
  BY DEF IInv, TypeOK
<1> QED BY <1>1, <1>2, NotesLeft, SummariesKept

-----------------------------------------------------------------------------
(* The world's steps. *)

\* The bridge, the preference, the owner's verification and a cancellation.
LEMMA QuietSteps ==
    ASSUME IInv, SInv, valid' \subseteq valid,
           UNCHANGED <<opened, rowVars, noteVars, localVars, astray>>,
           conn'.outage = conn.outage, conn'.gen = conn.gen
    PROVE  SInv'
<1>1. /\ state' = state /\ missedIn' = missedIn /\ bound' = bound /\ note' = note
      /\ covers' = covers /\ summarized' = summarized /\ astray' = astray
      /\ opened' = opened
  BY DEF rowVars, noteVars
<1>2. Calm
  BY <1>1, CalmStill
<1>3. Still({})
  BY DEF Still, Same, localVars
<1>4. OneOwner' /\ GivenOut' /\ BoundBefore' /\ MissedIsRemembered'
  BY <1>1, <1>2, <1>3, ConnLeft
<1> QED BY <1>1, <1>2, <1>4, WorldSteps

LEMMA ReplaceOwnerSInv ==
    ASSUME IInv, SInv, ReplaceOwner PROVE SInv'
<1>1. /\ state' = state /\ missedIn' = missedIn /\ bound' = bound /\ note' = note
      /\ covers' = covers /\ summarized' = summarized /\ astray' = astray
      /\ opened' = opened /\ valid' = valid /\ UNCHANGED localVars
  BY DEF ReplaceOwner, rowVars, noteVars, userVars, historyVars
<1>2. conn \in Connection /\ conn'.gen = conn.gen + 1 /\ conn'.outage = 0
      /\ conn.gen \in Nat /\ bound \in [Reminders -> Nat]
  BY DEF ReplaceOwner, IInv, TypeOK, Connection
<1>3. Calm
  BY <1>1, CalmStill
<1>4. Still({})
  BY <1>1 DEF Still, Same, localVars
<1>5. \A o \in Outages, g \in Nat : Tie(o, g)' => Tie(o, g)
  BY <1>1, <1>2, <1>4, TiesKept
<1>6. OneOwner' /\ GivenOut'
  BY <1>1, <1>5, OwnersKept DEF SInv
<1>7. \A r \in Reminders : bound'[r] <= conn.gen
  BY <1>1 DEF SInv, BoundBefore
<1>8. BoundBefore'
  BY <1>1, <1>2, <1>7 DEF BoundBefore
<1>9. MissedIsRemembered'
  BY <1>1, <1>2, <1>7 DEF MissedIsRemembered, IInv, TypeOK
<1> QED BY <1>1, <1>3, <1>6, <1>8, <1>9, WorldSteps

\* A reminder that falls due, or gets its delivery, is no missed one yet.
LEMMA FallsDueSInv ==
    ASSUME IInv, SInv, NEW r \in Reminders, FallsDue(r) \/ CreateDelivery(r)
    PROVE  SInv'
<1>1. /\ missedIn' = missedIn /\ note' = note /\ covers' = covers
      /\ summarized' = summarized /\ astray' = astray /\ conn' = conn
      /\ opened' = opened /\ valid' = valid /\ UNCHANGED localVars
      /\ state \in [Reminders -> Status] /\ bound \in [Reminders -> Nat]
  BY DEF FallsDue, CreateDelivery, noteVars, userVars, historyVars, connVars, IInv,
         TypeOK
<1>2. /\ state[r] = "none" /\ missedIn[r] = 0 /\ state'[r] \in {"none", "pending"}
      /\ bound'[r] \in {0, bound[r], conn.gen}
      /\ \A s \in Reminders : s # r => state'[s] = state[s] /\ bound'[s] = bound[s]
  BY <1>1 DEF FallsDue, CreateDelivery, IInv, Unheard, Fresh
<1>3. Calm
  BY <1>1, <1>2 DEF Calm, Ended
<1>4. Still({})
  BY <1>1 DEF Still, Same, localVars
<1>5. \A o \in Outages, g \in Nat : Tie(o, g)' => Tie(o, g)
  <2>1. Tie(conn'.outage, conn'.gen)
    BY <1>1 DEF Tie
  <2> QED BY <1>1, <1>2, <1>4, <2>1, TiesKept
<1>6. OneOwner' /\ GivenOut'
  BY <1>1, <1>5, OwnersKept DEF SInv
<1>7. BoundBefore'
  <2>1. conn.gen \in Nat /\ 0 <= conn.gen /\ conn.gen <= conn.gen
    BY DEF IInv, TypeOK, Connection
  <2> QED BY <1>1, <1>2, <2>1 DEF SInv, BoundBefore
<1>8. MissedIsRemembered'
  BY <1>1, <1>3, RememberedKept DEF IInv, SInv
<1> QED BY <1>1, <1>2, <1>3, <1>6, <1>7, <1>8, WorldSteps

\* A claim that has aged counts as one that may have been told.
LEMMA ClaimAgesSInv ==
    ASSUME IInv, SInv, NEW o \in Outages, ClaimAges(o) PROVE SInv'
<1>1. /\ state' = state /\ missedIn' = missedIn /\ bound' = bound
      /\ covers' = covers /\ summarized' = summarized /\ astray' = astray
      /\ conn' = conn /\ opened' = opened /\ valid' = valid /\ UNCHANGED localVars
      /\ note[o] = "attempting" /\ note' = [note EXCEPT ![o] = "stale"]
      /\ note \in [Outages -> NoteStatus]
  BY DEF ClaimAges, rowVars, noteVars, userVars, historyVars, connVars, IInv, TypeOK
<1>2. Calm
  BY <1>1 DEF Calm, Over
<1>3. Still({})
  BY <1>1 DEF Still, Same, localVars
<1>4. \A u \in Outages : \/ note'[u] = note[u]
                         \/ note[u] \notin Retried /\ note'[u] # "skipped_obsolete"
  BY <1>1 DEF Retried
<1>5. \A u \in Outages : CoverOK(u)'
  BY <1>1, <1>2, <1>4, CoverKept DEF IInv, SInv
<1>6. \A r \in summarized' : Named(r)'
  BY <1>1, <1>2, NamedKept DEF IInv, SInv
<1>7. OneOwner' /\ GivenOut' /\ BoundBefore' /\ MissedIsRemembered'
  BY <1>1, <1>2, <1>3, ConnLeft
<1> QED BY <1>1, <1>2, <1>3, <1>5, <1>6, <1>7, SummariesKept

LEMMA WorldSInv ==
    ASSUME IInv, SInv,
           \/ LineDrops \/ LineReturns \/ SetPreference \/ ReplaceOwner
           \/ VerifyOwner
           \/ \E r \in Reminders : FallsDue(r) \/ CreateDelivery(r) \/ Cancel(r)
    PROVE  SInv'
<1>1. CASE LineDrops \/ LineReturns \/ SetPreference
  BY <1>1, QuietSteps DEF LineDrops, LineReturns, SetPreference, userVars,
     historyVars, connVars
<1>2. CASE VerifyOwner
  BY <1>2, QuietSteps DEF VerifyOwner, userVars, historyVars, IInv, TypeOK, Connection
<1>3. CASE \E r \in Reminders : Cancel(r)
  BY <1>3, QuietSteps DEF Cancel, connVars, historyVars
<1> QED BY <1>1, <1>2, <1>3, ReplaceOwnerSInv, FallsDueSInv

-----------------------------------------------------------------------------
(* The workers' steps. *)

LEMMA WorkersAlone ==
    ASSUME IInv, NEW w \in Workers, Deliver(w) \/ WorkerCrashes(w)
    PROVE  Alone(w) /\ listed' = listed
<1>1. /\ at \in [Processes -> Steps] /\ row \in [Processes -> Connection]
      /\ job \in [Workers -> Reminders \cup {None}]
      /\ outcome \in [Processes -> Outcomes \cup {None}]
      /\ w \in Processes
  BY Apart DEF IInv, TypeOK, Processes
<1>2. listed' = listed
  BY DEF Deliver, Take, Look, CollectFirst, ClaimDelivery, RecordMissed, Send,
         Record, WorkerCrashes
<1>3. \A s : Goes(w, s) => \A q \in Processes : q # w => at'[q] = at[q]
  BY <1>1 DEF Goes
<1>4. \A s, how : Says(w, s, how) => \A q \in Processes : q # w =>
          at'[q] = at[q] /\ outcome'[q] = outcome[q]
  BY <1>1, <1>3 DEF Says
<1>5. Leave(w) => Alone(w)
  BY <1>1, <1>2, Leavings DEF LocalTyped, Alone, Same, IInv, TypeOK
<1>6. CASE \E r \in Reminders : Take(w, r)
  BY <1>1, <1>2, <1>3, <1>6 DEF Take, Alone, Same
<1>7. CASE Look(w)
  BY <1>1, <1>2, <1>3, <1>4, <1>7 DEF Look, Alone, Same
<1>8. CASE CollectFirst(w)
  BY <1>1, <1>2, <1>3, <1>5, <1>8 DEF CollectFirst, Alone, Same
<1>9. CASE ClaimDelivery(w)
  BY <1>1, <1>2, <1>3, <1>4, <1>5, <1>9 DEF ClaimDelivery, Alone, Same
<1>10. CASE RecordMissed(w)
  BY <1>1, <1>2, <1>4, <1>10 DEF RecordMissed, Alone, Same
<1>11. CASE Send(w)
  BY <1>1, <1>2, <1>4, <1>11 DEF Send, Alone, Same
<1>12. CASE Record(w) \/ WorkerCrashes(w)
  BY <1>5, <1>12 DEF Record, WorkerCrashes
<1> QED BY <1>2, <1>6, <1>7, <1>8, <1>9, <1>10, <1>11, <1>12 DEF Deliver

LEMMA TakeSInv ==
    ASSUME IInv, SInv, NEW w \in Workers, NEW r \in Reminders, Take(w, r)
    PROVE  SInv'
<1>1. /\ state' = state /\ missedIn' = missedIn /\ bound' = bound /\ note' = note
      /\ covers' = covers /\ summarized' = summarized /\ astray' = astray
      /\ conn' = conn /\ opened' = opened /\ valid' = valid /\ row' = row
  BY DEF Take, rowVars, noteVars, userVars, historyVars, connVars
<1>2. Alone(w) /\ Calm
  BY <1>1, WorkersAlone, CalmStill DEF Deliver
<1>3. at'[w] \in {"idle", "looking"}
  BY WorkerFacts, Goings DEF Take, Steps
<1>4. WriteOK(w)'
  BY <1>3 DEF WriteOK
<1>5. Tie(row'[w].outage, row'[w].gen)
  BY <1>1, Apart DEF Tie, Processes
<1> QED BY <1>1, <1>2, <1>4, <1>5, WorkerSteps

LEMMA LookSInv ==
    ASSUME IInv, SInv, NEW w \in Workers, Look(w) PROVE SInv'
<1>1. /\ state' = state /\ missedIn' = missedIn /\ bound' = bound /\ note' = note
      /\ covers' = covers /\ summarized' = summarized /\ astray' = astray
      /\ conn' = conn /\ opened' = opened /\ valid' = valid
  BY DEF Look, rowVars, noteVars, userVars, historyVars, connVars
<1>2. Alone(w) /\ Calm
  BY <1>1, WorkersAlone, CalmStill DEF Deliver
<1>3. \/ at'[w] \in {"collecting", "checking"}
      \/ at'[w] = "recording" /\ outcome'[w] \in {"skipped_unlinked", "skipped_disabled"}
  BY WorkerFacts, Goings, Sayings DEF Look, Steps, Outcomes
<1>4. WriteOK(w)'
  BY <1>3 DEF WriteOK, Claiming
<1>5. row'[w].outage = conn.outage /\ row'[w].gen = conn.gen
  BY WorkerFacts DEF Look, LocalTyped, IInv, TypeOK, Connection
<1>6. Tie(row'[w].outage, row'[w].gen)
  BY <1>5 DEF Tie
<1> QED BY <1>1, <1>2, <1>4, <1>6, WorkerSteps

\* What is collected is missed by the open outage, of its owner.
LEMMA CollectCalm ==
    ASSUME IInv, NEW p \in Processes, Collect(p),
           UNCHANGED <<valid, bound, note, covers>>
    PROVE  /\ Calm
           /\ \A r \in Reminders : missedIn'[r] = missedIn[r]
                                   \/ Tie(missedIn'[r], bound[r])
           /\ \A r \in Reminders : state[r] = "attempting" => state'[r] = "attempting"
<1> DEFINE R == IF Current(p) /\ conn.verified /\ conn.online /\ enabled
                   /\ conn.outage = row[p].outage
                THEN Collected(p) ELSE {}
<1>1. /\ state' = [r \in Reminders |-> IF r \in R THEN "missed" ELSE state[r]]
      /\ missedIn' = [r \in Reminders |-> IF r \in R THEN row[p].outage
                                          ELSE missedIn[r]]
      /\ astray' = astray \cup Astray(R, row[p].outage)
  BY DEF Collect
<1>2. \A r \in R : /\ conn.outage = row[p].outage /\ bound[r] = conn.gen
                   /\ missedIn[r] = 0 /\ state[r] \in Deliverable
  BY DEF Collected
<1> HIDE DEF R
<1>3. \A r \in Reminders :
         \/ state'[r] = state[r] /\ missedIn'[r] = missedIn[r]
         \/ /\ state'[r] = "missed" /\ missedIn'[r] = conn.outage
            /\ bound[r] = conn.gen /\ missedIn[r] = 0 /\ state[r] \in Deliverable
            /\ r \in astray' \/ ~Closing(conn.outage)
  BY <1>1, <1>2 DEF Astray
<1>4. Calm
  BY <1>1, <1>3 DEF Calm, Deliverable
<1>5. \A r \in Reminders : state[r] = "attempting" => state'[r] = "attempting"
  BY <1>3 DEF Deliverable
<1>6. \A r \in Reminders : missedIn'[r] = missedIn[r] \/ Tie(missedIn'[r], bound[r])
  BY <1>3 DEF Tie
<1> QED BY <1>4, <1>5, <1>6

LEMMA CollectFirstSInv ==
    ASSUME IInv, SInv, NEW w \in Workers, CollectFirst(w) PROVE SInv'
<1>1. /\ bound' = bound /\ note' = note /\ covers' = covers
      /\ summarized' = summarized /\ conn' = conn /\ opened' = opened
      /\ valid' = valid /\ w \in Processes
  BY Apart DEF CollectFirst, noteVars, userVars, connVars, Processes
<1>2. /\ Alone(w) /\ Calm
      /\ \A r \in Reminders : missedIn'[r] = missedIn[r] \/ Tie(missedIn'[r], bound[r])
      /\ \A r \in Reminders : state[r] = "attempting" => state'[r] = "attempting"
  <2>1. Alone(w)
    BY WorkersAlone DEF Deliver
  <2> QED BY <1>1, <2>1, CollectCalm DEF CollectFirst
<1>3. /\ at'[w] \in {"idle", "checking"}
      /\ row'[w] = row[w] \/ row'[w] = Paired
  <2>1. CASE Leave(w)
    BY <2>1, WorkerFacts DEF Leave, LocalTyped
  <2>2. CASE Goes(w, "checking") /\ UNCHANGED <<job, row, outcome>>
    BY <2>2, WorkerFacts DEF Goes, LocalTyped
  <2> QED BY <2>1, <2>2 DEF CollectFirst
<1>4. WriteOK(w)'
  BY <1>3 DEF WriteOK
<1>5. row'[w].outage = 0 \/ Tie(row'[w].outage, row'[w].gen)
  BY <1>1, <1>3 DEF Tie, Paired
<1> QED BY <1>1, <1>2, <1>4, <1>5, WorkerSteps

LEMMA ClaimDeliverySInv ==
    ASSUME IInv, SInv, NEW w \in Workers, ClaimDelivery(w) PROVE SInv'
<1>1. /\ bound' = bound /\ note' = note /\ covers' = covers /\ missedIn' = missedIn
      /\ summarized' = summarized /\ conn' = conn /\ opened' = opened
      /\ valid' = valid /\ astray' = astray /\ w \in Processes
  BY Apart DEF ClaimDelivery, noteVars, userVars, connVars, historyVars, Processes
<1>2. /\ at[w] = "checking" /\ WorkOK(w) /\ job[w] \in Reminders
      /\ row[w] \in Connection /\ LocalTyped /\ state \in [Reminders -> Status]
  BY WorkerFacts DEF ClaimDelivery, IInv, TypeOK
<1>3. Alone(w)
  BY WorkersAlone DEF Deliver
<1>4. \/ state' = state
      \/ /\ state[job[w]] \in Deliverable /\ state'[job[w]] = "attempting"
         /\ \A r \in Reminders : r # job[w] => state'[r] = state[r]
  BY <1>2 DEF ClaimDelivery
<1>5. Calm
  BY <1>1, <1>2, <1>4 DEF Calm, Deliverable, Ended
<1>6. WriteOK(w)' /\ (row'[w] = row[w] \/ row'[w] = Paired)
  <2>1. CASE Leave(w)
    BY <1>1, <1>2, <2>1 DEF Leave, LocalTyped, WriteOK
  <2>2. CASE Says(w, "recording", "skipped_obsolete") /\ UNCHANGED <<state, row, job>>
    BY <1>1, <1>2, <2>2 DEF Says, Goes, LocalTyped, WriteOK, Claiming
  <2>3. CASE /\ state[job[w]] \in Deliverable
             /\ state' = [state EXCEPT ![job[w]] = "attempting"]
             /\ IF row[w].online
                THEN Goes(w, "sending") /\ UNCHANGED outcome
                ELSE IF row[w].outage # 0
                THEN Goes(w, "missing") /\ UNCHANGED outcome
                ELSE Says(w, "recording", "skipped_disconnected")
             /\ UNCHANGED <<row, job>>
    <3>1. state'[job[w]] = "attempting" /\ row' = row /\ job' = job
      BY <1>2, <2>3
    <3>2. CASE Goes(w, "sending")
      BY <1>1, <1>2, <3>1, <3>2 DEF Goes, LocalTyped, WriteOK
    <3>3. CASE Goes(w, "missing") /\ row[w].outage # 0
      <4>1. at'[w] = "missing"
        BY <1>1, <1>2, <3>3 DEF Goes, LocalTyped
      <4>2. bound[job[w]] = row[w].gen /\ row[w].outage \in Outages
        BY <1>2, <3>3 DEF WorkOK, Connection, Outages
      <4> QED BY <1>1, <3>1, <4>1, <4>2 DEF WriteOK
    <3>4. CASE Says(w, "recording", "skipped_disconnected")
      BY <1>1, <1>2, <3>1, <3>4 DEF Says, Goes, LocalTyped, WriteOK
    <3> QED BY <2>3, <3>1, <3>2, <3>3, <3>4
  <2> QED BY <2>1, <2>2, <2>3 DEF ClaimDelivery
<1>7. row'[w].outage = 0 \/ Tie(row'[w].outage, row'[w].gen)
  BY <1>1, <1>6 DEF Tie, Paired
<1>8. \A r \in Reminders : r # job[w] /\ state[r] = "attempting" =>
          state'[r] = "attempting"
  BY <1>4
<1> QED BY <1>1, <1>3, <1>5, <1>6, <1>7, <1>8, WorkerSteps

LEMMA RecordMissedSInv ==
    ASSUME IInv, SInv, NEW w \in Workers, RecordMissed(w) PROVE SInv'
<1>1. /\ bound' = bound /\ note' = note /\ covers' = covers /\ state' = state
      /\ summarized' = summarized /\ conn' = conn /\ opened' = opened
      /\ valid' = valid /\ astray' = astray /\ row' = row /\ job' = job
      /\ w \in Processes
  BY Apart DEF RecordMissed, noteVars, userVars, connVars, historyVars, Processes
<1>2. /\ at[w] = "missing" /\ job[w] \in Reminders /\ LocalTyped
      /\ state[job[w]] = "attempting" /\ missedIn[job[w]] = 0
      /\ bound[job[w]] = row[w].gen /\ row[w].outage \in Outages
  BY WorkerFacts DEF RecordMissed, WorkOK, Holding, SInv, WriteOK
<1>3. /\ missedIn'[job[w]] = row[w].outage
      /\ \A r \in Reminders : r # job[w] => missedIn'[r] = missedIn[r]
  BY <1>2 DEF RecordMissed, IInv, TypeOK
<1>4. Alone(w) /\ Calm
  <2>1. Alone(w)
    BY WorkersAlone DEF Deliver
  <2> QED BY <1>1, <1>2, <1>3, <2>1 DEF Calm
<1>5. at'[w] = "recording" /\ outcome'[w] = "missed"
  BY <1>1, <1>2 DEF RecordMissed, Says, Goes, LocalTyped
<1>6. WriteOK(w)'
  BY <1>1, <1>2, <1>3, <1>5 DEF WriteOK
<1>7. Tie(row[w].outage, row[w].gen)
  BY <1>1 DEF Tie
<1>8. \A r \in Reminders : missedIn'[r] = missedIn[r] \/ Tie(missedIn'[r], bound[r])
  BY <1>2, <1>3, <1>7
<1> QED BY <1>1, <1>4, <1>6, <1>7, <1>8, WorkerSteps

LEMMA SendSInv ==
    ASSUME IInv, SInv, NEW w \in Workers, Send(w) PROVE SInv'
<1>1. /\ bound' = bound /\ note' = note /\ covers' = covers /\ state' = state
      /\ missedIn' = missedIn /\ summarized' = summarized /\ conn' = conn
      /\ opened' = opened /\ valid' = valid /\ astray' = astray /\ row' = row
      /\ job' = job /\ w \in Processes
  BY Apart DEF Send, noteVars, userVars, connVars, rowVars, Processes
<1>2. at[w] = "sending" /\ LocalTyped /\ state[job[w]] = "attempting"
  BY WorkerFacts DEF Send, WorkOK, Holding
<1>3. Alone(w) /\ Calm
  BY <1>1, WorkersAlone, CalmStill DEF Deliver
<1>4. /\ at'[w] = "recording"
      /\ outcome'[w] \in {"failed", "skipped_disabled", "delivered", "unknown"}
  BY <1>1, <1>2 DEF Send, Says, Goes, LocalTyped
<1>5. WriteOK(w)'
  BY <1>1, <1>2, <1>4 DEF WriteOK
<1>6. Tie(row'[w].outage, row'[w].gen)
  BY <1>1 DEF Tie
<1> QED BY <1>1, <1>3, <1>5, <1>6, WorkerSteps

LEMMA RecordSInv ==
    ASSUME IInv, SInv, NEW w \in Workers, Record(w) PROVE SInv'
<1>1. /\ bound' = bound /\ note' = note /\ covers' = covers
      /\ missedIn' = missedIn /\ summarized' = summarized /\ conn' = conn
      /\ opened' = opened /\ valid' = valid
  BY DEF Record, noteVars, userVars, connVars
<1>2. /\ at[w] = "recording" /\ LocalTyped /\ job[w] \in Reminders
      /\ outcome[w] \in Outcomes /\ WriteOK(w) /\ state \in [Reminders -> Status]
  BY WorkerFacts DEF Record, WorkOK, SInv, IInv, TypeOK
<1>3. /\ state'[job[w]] = outcome[w]
      /\ \A r \in Reminders : r # job[w] => state'[r] = state[r]
      /\ astray \subseteq astray'
  BY <1>2 DEF Record
<1>4. outcome[w] \in Claiming => state[job[w]] = "attempting"
  BY <1>2 DEF WriteOK
<1>5. missedIn[job[w]] # 0 /\ state[job[w]] \in Ended =>
          outcome[w] \in Ended \ {"missed"}
  BY <1>2, <1>4 DEF Ended, Claiming, Outcomes
<1>6. outcome[w] = "missed" /\ job[w] \notin astray' =>
          conn.outage = missedIn[job[w]] /\ ~Closing(conn.outage)
  <2> SUFFICES ASSUME outcome[w] = "missed", job[w] \notin astray'
               PROVE  conn.outage = missedIn[job[w]] /\ ~Closing(conn.outage)
    OBVIOUS
  <2>1. astray' = astray \cup Astray({job[w]}, row[w].outage)
    BY DEF Record
  <2>2. conn.outage = row[w].outage /\ ~Closing(row[w].outage)
    BY <2>1 DEF Astray
  <2>3. missedIn[job[w]] = row[w].outage
    BY <1>2 DEF WriteOK
  <2> QED BY <2>2, <2>3
<1>7. Calm
  BY <1>1, <1>2, <1>3, <1>5, <1>6 DEF Calm
<1>8. Alone(w)
  BY WorkersAlone DEF Deliver
<1>9. at'[w] = "idle" /\ row'[w] = Paired
  BY <1>2, WorkerFacts DEF Record, Leave, LocalTyped
<1>10. WriteOK(w)' /\ row'[w].outage = 0
  BY <1>9 DEF WriteOK, Paired
<1>11. \A r \in Reminders : r # job[w] /\ state[r] = "attempting" =>
           state'[r] = "attempting"
  BY <1>3
<1> QED BY <1>1, <1>7, <1>8, <1>10, <1>11, WorkerSteps

LEMMA WorkerCrashesSInv ==
    ASSUME IInv, SInv, NEW w \in Workers, WorkerCrashes(w) PROVE SInv'
<1>1. /\ state' = state /\ missedIn' = missedIn /\ bound' = bound /\ note' = note
      /\ covers' = covers /\ summarized' = summarized /\ astray' = astray
      /\ conn' = conn /\ opened' = opened /\ valid' = valid
  BY DEF WorkerCrashes, rowVars, noteVars, userVars, historyVars, connVars
<1>2. Alone(w) /\ Calm
  BY <1>1, WorkersAlone, CalmStill
<1>3. at'[w] = "idle" /\ row'[w] = Paired
  BY WorkerFacts DEF WorkerCrashes, Leave, LocalTyped
<1>4. WriteOK(w)' /\ row'[w].outage = 0
  BY <1>3 DEF WriteOK, Paired
<1> QED BY <1>1, <1>2, <1>4, WorkerSteps

-----------------------------------------------------------------------------
(* The refreshers' steps. *)

LEMMA RefreshersAlone ==
    ASSUME IInv, NEW p \in Refreshers,
           Refresh(p) \/ Reconnect(p) \/ RefresherCrashes(p)
    PROVE  Alone(p)
<1>1. /\ at \in [Processes -> Steps] /\ row \in [Processes -> Connection]
      /\ outcome \in [Processes -> Outcomes \cup {None}]
      /\ listed \in [Refreshers -> SUBSET Reminders]
      /\ p \in Processes
  BY Apart DEF IInv, TypeOK, Processes
<1>2. job' = job
  BY DEF Refresh, Begin, MarkDown, Confirm, Recover, ClaimSummary, Tell,
         RecordSummary, CompleteRecovery, Reconnect, RefresherCrashes
<1>3. \A s : Goes(p, s) => \A q \in Processes : q # p => at'[q] = at[q]
  BY <1>1 DEF Goes
<1>4. Rests(p) => Alone(p)
  BY <1>1, <1>2, Restings DEF LocalTyped, Alone, Same, IInv, TypeOK
<1>5. CASE Begin(p) \/ Reconnect(p)
  BY <1>1, <1>2, <1>3, <1>5 DEF Begin, Reconnect, Asks, Alone, Same
<1>6. CASE MarkDown(p) \/ CompleteRecovery(p) \/ RefresherCrashes(p)
  BY <1>4, <1>6 DEF MarkDown, CompleteRecovery, RefresherCrashes
<1>7. CASE Confirm(p)
  BY <1>1, <1>2, <1>3, <1>4, <1>7 DEF Confirm, Alone, Same
<1>8. CASE Recover(p)
  BY <1>1, <1>2, <1>3, <1>8 DEF Recover, Alone, Same
<1>9. CASE ClaimSummary(p)
  BY <1>1, <1>2, <1>3, <1>4, <1>9 DEF ClaimSummary, Alone, Same
<1>10. CASE Tell(p)
  BY <1>1, <1>2, <1>3, <1>10 DEF Tell, Says, Alone, Same
<1>11. CASE RecordSummary(p)
  BY <1>1, <1>2, <1>3, <1>4, <1>11 DEF RecordSummary, Alone, Same
<1> QED BY <1>5, <1>6, <1>7, <1>8, <1>9, <1>10, <1>11 DEF Refresh

\* A refresher that leaves the reminders, the summaries and the outage alone.
LEMMA QuietRefresher ==
    ASSUME IInv, SInv, NEW p \in Refreshers, Alone(p), ListOK(p)',
           UNCHANGED <<opened, valid, rowVars, note, covers, astray>>,
           conn'.outage = conn.outage, conn'.gen = conn.gen,
           row'[p].outage = 0 \/ Tie(row'[p].outage, row'[p].gen)
    PROVE  SInv'
<1>1. /\ state' = state /\ missedIn' = missedIn /\ bound' = bound /\ note' = note
      /\ covers' = covers /\ summarized' = summarized /\ astray' = astray
      /\ opened' = opened /\ valid' = valid
  BY DEF rowVars
<1>2. Calm
  BY <1>1, CalmStill
<1>3. p \in Processes /\ Still({p})
  BY Apart DEF Still, Alone, Processes
<1>4. OneOwner' /\ GivenOut' /\ BoundBefore' /\ MissedIsRemembered'
  BY <1>1, <1>2, <1>3, ConnLeft
<1> QED BY <1>1, <1>2, <1>4, NotesLeft, RefresherSteps

\* Between two recoveries a refresher has no list.
LEMMA NoList ==
    ASSUME NEW p \in Refreshers, at'[p] \notin Listing, listed'[p] = {}
    PROVE  ListOK(p)'
BY DEF ListOK, Listing, Making

LEMMA RestsHow ==
    ASSUME IInv, NEW p \in Refreshers, Rests(p)
    PROVE  /\ ListOK(p)' /\ row'[p].outage = 0
<1>1. at'[p] = "idle" /\ row'[p] = Paired /\ listed'[p] = {}
  BY RefresherFacts DEF Rests, LocalTyped
<1> QED BY <1>1, NoList DEF Listing, Paired

LEMMA BeginSInv ==
    ASSUME IInv, SInv, NEW p \in Refreshers, Begin(p) \/ Reconnect(p) PROVE SInv'
<1>1. /\ at[p] = "idle" /\ p \in Processes /\ LocalTyped /\ conn \in Connection
      /\ UNCHANGED <<opened, valid, rowVars, note, covers, astray, listed>>
  BY RefresherFacts DEF Begin, Reconnect, connVars, userVars, noteVars, historyVars
<1>2. /\ conn'.outage = conn.outage /\ conn'.gen = conn.gen /\ row'[p] = conn'
      /\ at'[p] \in {"confirming", "marking"}
  <2>1. CASE Begin(p)
    BY <1>1, <2>1 DEF Begin, Asks, Goes, LocalTyped, connVars
  <2>2. CASE Reconnect(p)
    BY <1>1, <2>2 DEF Reconnect, Asks, Goes, LocalTyped, Connection
  <2> QED BY <2>1, <2>2
<1>3. listed'[p] = {}
  BY <1>1 DEF SInv, ListOK, Listing
<1>4. ListOK(p)'
  BY <1>2, <1>3, NoList DEF Listing
<1>5. Tie(row'[p].outage, row'[p].gen)
  BY <1>2 DEF Tie
<1>6. Alone(p)
  BY RefreshersAlone DEF Refresh
<1> QED BY <1>1, <1>2, <1>4, <1>5, <1>6, QuietRefresher

LEMMA ConfirmSInv ==
    ASSUME IInv, SInv, NEW p \in Refreshers, Confirm(p) PROVE SInv'
<1>1. /\ at[p] = "confirming" /\ p \in Processes /\ LocalTyped
      /\ conn \in Connection
      /\ UNCHANGED <<opened, valid, rowVars, note, covers, astray>>
  BY RefresherFacts DEF Confirm, userVars, noteVars, historyVars
<1>2. conn'.outage = conn.outage /\ conn'.gen = conn.gen
  BY <1>1 DEF Confirm, Connection
<1>3. Alone(p)
  BY RefreshersAlone DEF Refresh
<1>4. CASE Rests(p)
  BY <1>1, <1>2, <1>3, <1>4, RestsHow, QuietRefresher
<1>5. CASE /\ Goes(p, "recovering") /\ row' = [row EXCEPT ![p] = conn']
           /\ UNCHANGED <<outcome, listed>>
  <2>1. at'[p] = "recovering" /\ row'[p] = conn'
    BY <1>1, <1>5 DEF Goes, LocalTyped
  <2>2. listed'[p] = {}
    BY <1>1, <1>5 DEF SInv, ListOK, Listing
  <2>3. ListOK(p)'
    BY <2>1, <2>2, NoList DEF Listing
  <2>4. Tie(row'[p].outage, row'[p].gen)
    BY <1>2, <2>1 DEF Tie
  <2> QED BY <1>1, <1>2, <1>3, <2>3, <2>4, QuietRefresher
<1> QED BY <1>4, <1>5 DEF Confirm

LEMMA RefresherCrashesSInv ==
    ASSUME IInv, SInv, NEW p \in Refreshers, RefresherCrashes(p) PROVE SInv'
<1>1. /\ UNCHANGED <<opened, valid, rowVars, note, covers, astray>>
      /\ conn' = conn /\ Rests(p)
  BY DEF RefresherCrashes, connVars, userVars, noteVars, historyVars
<1> QED BY <1>1, RefreshersAlone, RestsHow, QuietRefresher

LEMMA TellSInv ==
    ASSUME IInv, SInv, NEW p \in Refreshers, Tell(p) PROVE SInv'
<1>1. /\ at[p] = "telling" /\ p \in Processes /\ LocalTyped /\ conn' = conn
      /\ UNCHANGED <<opened, valid, rowVars, note, covers, astray>>
      /\ state' = state /\ missedIn' = missedIn /\ summarized' = summarized
      /\ row' = row /\ listed' = listed
  BY RefresherFacts DEF Tell, connVars, userVars, noteVars, rowVars
<1>2. /\ at'[p] = "recording"
      /\ outcome'[p] \in {"failed", "skipped_disabled", "delivered", "unknown"}
  BY <1>1 DEF Tell, Says, Goes, LocalTyped
<1>3. Making(p) /\ at[p] \in Listing
  BY <1>1 DEF Making, Listing
<1>4. listed[p] = covers[row[p].outage] /\ Wanting(row[p].outage) \subseteq listed[p]
  BY <1>3 DEF SInv, ListOK
<1>5. Wanting(row[p].outage)' = Wanting(row[p].outage)
  BY <1>1 DEF Wanting
<1>6. ListOK(p)'
  BY <1>1, <1>2, <1>4, <1>5 DEF ListOK, Listing, Over
<1>7. Tie(row'[p].outage, row'[p].gen)
  BY <1>1 DEF Tie
<1> QED BY <1>1, <1>6, <1>7, RefreshersAlone, QuietRefresher DEF Refresh

LEMMA MarkDownSInv ==
    ASSUME IInv, SInv, NEW p \in Refreshers, MarkDown(p) PROVE SInv'
<1>1. /\ valid' = valid /\ note' = note /\ covers' = covers /\ UNCHANGED rowVars
      /\ state' = state /\ missedIn' = missedIn /\ bound' = bound
      /\ summarized' = summarized /\ Rests(p) /\ p \in Processes
      /\ opened \in 0 .. MaxOutages /\ conn \in Connection
      /\ row[p] \in Connection
  BY RefresherFacts DEF MarkDown, userVars, noteVars, rowVars, IInv, TypeOK
<1>2. Alone(p) /\ ListOK(p)' /\ row'[p].outage = 0
  BY <1>1, RefreshersAlone, RestsHow DEF Refresh
<1>3. CASE ~(row[p].online /\ Current(p))
  <2>1. UNCHANGED <<conn, opened, astray>>
    BY <1>3 DEF MarkDown
  <2> QED BY <1>1, <1>2, <2>1, QuietRefresher
<1>4. CASE row[p].online /\ Current(p)
  <2> DEFINE o == IF row[p].outage # 0 THEN row[p].outage ELSE opened + 1
  <2>1. /\ o <= MaxOutages
        /\ opened' = IF row[p].outage # 0 THEN opened ELSE o
        /\ conn' = [conn EXCEPT !.online = FALSE, !.outage = o,
                                !.down = IF row[p].down # None THEN row[p].down
                                         ELSE due]
        /\ astray' = astray \cup {r \in Reminders \ summarized :
                                      state[r] = "missed" /\ missedIn[r] # o}
    BY <1>4 DEF MarkDown
  <2>2. conn'.outage = o /\ conn'.gen = conn.gen /\ row[p].gen = conn.gen
    BY <1>1, <1>4, <2>1 DEF Connection, Current
  <2>3. o \in Outages
    BY <1>1, <2>1 DEF Connection, Outages
  <2>4. Calm
    BY <1>1, <2>1, CalmStill
  <2>5. MissedIsRemembered'
    <3>1. ASSUME NEW r \in valid' \ (summarized' \cup astray'), state'[r] = "missed"
          PROVE  conn'.outage = missedIn'[r]
      <4>1. r \in Reminders /\ state[r] = "missed"
        BY <1>1, <3>1 DEF IInv, TypeOK
      <4> QED BY <1>1, <2>1, <2>2, <3>1, <4>1
    <3> QED BY <3>1 DEF MissedIsRemembered
  <2>6. BoundBefore'
    BY <1>1, <2>2 DEF SInv, BoundBefore
  <2>7. Still({p})
    BY <1>1, <1>2, Apart DEF Still, Alone
  <2>8. ASSUME NEW u \in Outages, NEW g \in Nat, Tie(u, g)'
        PROVE  Tie(u, g) \/ (u = o /\ g = conn.gen)
    <3>1. u # 0
      BY DEF Outages
    <3>2. CASE conn'.outage = u /\ conn'.gen = g
      BY <2>2, <3>2
    <3>3. CASE \E q \in Processes : row'[q].outage = u /\ row'[q].gen = g
      BY <1>2, <2>7, <3>1, <3>3 DEF Still, Same, Tie
    <3>4. CASE \E r \in Reminders : missedIn'[r] = u /\ bound'[r] = g
      BY <1>1, <3>4 DEF Tie
    <3> QED BY <2>8, <3>2, <3>3, <3>4 DEF Tie
  <2>9. OneOwner' /\ GivenOut'
    <3>1. CASE row[p].outage # 0
      <4>1. Tie(o, conn.gen) /\ opened' = opened
        BY <1>1, <2>1, <2>2, <3>1 DEF Tie
      <4>2. \A u \in Outages, g \in Nat : Tie(u, g)' => Tie(u, g)
        BY <2>8, <4>1
      <4> QED BY <4>1, <4>2, OwnersKept DEF SInv
    <3>2. CASE row[p].outage = 0
      <4>1. o = opened + 1 /\ opened' = o /\ opened \in Nat
        BY <1>1, <2>1, <3>2
      <4> HIDE DEF o
      <4>2. \A u \in Outages, g \in Nat : Tie(u, g) => u <= opened
        BY DEF SInv, GivenOut
      <4>3. \A g \in Nat : ~Tie(o, g)
        BY <2>3, <4>1, <4>2
      <4>4. \A u \in Outages, g, h \in Nat : Tie(u, g) /\ Tie(u, h) => g = h
        BY DEF SInv, OneOwner
      <4>5. \A u \in Outages, g, h \in Nat : Tie(u, g)' /\ Tie(u, h)' => g = h
        BY <2>8, <4>3, <4>4
      <4>6. \A u \in Outages, g \in Nat : Tie(u, g)' => u <= opened'
        BY <2>8, <4>1, <4>2 DEF Outages
      <4> QED BY <4>5, <4>6 DEF OneOwner, GivenOut
    <3> QED BY <3>1, <3>2
  <2> QED BY <1>1, <1>2, <2>4, <2>5, <2>6, <2>9, NotesLeft, RefresherSteps
<1> QED BY <1>3, <1>4

LEMMA RecoverSInv ==
    ASSUME IInv, SInv, NEW p \in Refreshers, Recover(p) PROVE SInv'
<1>1. /\ at[p] = "recovering" /\ p \in Processes /\ LocalTyped /\ TellOK(p)
      /\ conn' = conn /\ opened' = opened /\ valid' = valid /\ bound' = bound
      /\ summarized' = summarized /\ note' = note /\ covers' = covers
      /\ row' = row /\ outcome' = outcome /\ row[p] \in Connection
      /\ bound \in [Reminders -> Nat]
  BY RefresherFacts DEF Recover, connVars, userVars, noteVars, IInv, TypeOK
<1> DEFINE o == row[p].outage
<1>2. o \in Outages
  BY <1>1 DEF TellOK
<1>3. Alone(p) /\ Still({p})
  BY <1>1, RefreshersAlone, Apart DEF Refresh, Still, Alone
<1>4. listed[p] = {}
  BY <1>1 DEF SInv, ListOK, Listing
<1>5. Tie(row'[p].outage, row'[p].gen)
  BY <1>1 DEF Tie
<1>6. CASE enabled /\ Goes(p, "claiming") /\ Collect(p)
           /\ listed' = [listed EXCEPT ![p] = Wanted(p, state', missedIn')]
  <2>1. /\ Calm
        /\ \A r \in Reminders : missedIn'[r] = missedIn[r] \/ Tie(missedIn'[r], bound[r])
        /\ \A r \in Reminders : state[r] = "attempting" => state'[r] = "attempting"
    BY <1>1, <1>6, CollectCalm
  <2>2. OneOwner' /\ GivenOut' /\ BoundBefore' /\ MissedIsRemembered'
    BY <1>1, <1>3, <1>5, <2>1, ConnLeft
  <2>3. at'[p] = "claiming" /\ listed'[p] = Wanted(p, state', missedIn')
    BY <1>1, <1>6 DEF Goes, LocalTyped
  <2>4. Wanting(row[p].outage)' \subseteq listed'[p]
    <3>1. ASSUME NEW r \in Wanting(row[p].outage)' PROVE r \in listed'[p]
      <4>1. /\ r \in valid \ summarized /\ state'[r] = "missed"
            /\ missedIn'[r] = o /\ r \in Reminders
        BY <1>1, <3>1 DEF Wanting, IInv, TypeOK
      <4>2. Tie(o, bound[r])' /\ Tie(o, row[p].gen)'
        BY <1>1, <4>1 DEF Tie
      <4>3. bound[r] \in Nat /\ row[p].gen \in Nat
        BY <1>1, <4>1 DEF Connection
      <4>4. PICK u \in Outages : u = o
        BY <1>2
      <4>5. PICK g \in Nat : g = bound[r]
        BY <4>3
      <4>6. PICK h \in Nat : h = row[p].gen
        BY <4>3
      <4>7. Tie(u, g)' /\ Tie(u, h)'
        BY <1>1, <4>1, <4>4, <4>5, <4>6 DEF Tie
      <4>8. bound[r] = row[p].gen
        BY <2>2, <4>4, <4>5, <4>6, <4>7 DEF OneOwner
      <4> QED BY <2>3, <4>1, <4>8 DEF Wanted
    <3> QED BY <3>1
  <2>5. ListOK(p)'
    BY <2>3, <2>4 DEF ListOK, Listing, Making
  <2> QED BY <1>1, <1>3, <2>1, <2>2, <2>5, NotesLeft, RefresherSteps
<1>7. CASE /\ ~enabled /\ Goes(p, "completing")
           /\ astray' = astray
                        \cup {r \in Reminders : missedIn[r] = row[p].outage}
           /\ UNCHANGED <<state, missedIn, listed>>
  <2>1. Calm
    BY <1>1, <1>7, CalmStill
  <2>2. OneOwner' /\ GivenOut' /\ BoundBefore' /\ MissedIsRemembered'
    BY <1>1, <1>3, <1>5, <1>7, <2>1, ConnLeft
  <2>3. at'[p] = "completing" /\ listed'[p] = {}
    BY <1>1, <1>4, <1>7 DEF Goes, LocalTyped
  <2>4. Wanting(row[p].outage)' = {}
    BY <1>1, <1>7 DEF Wanting, IInv, TypeOK
  <2>5. ListOK(p)'
    BY <1>1, <1>2, <2>3, <2>4 DEF ListOK, Making
  <2> QED BY <1>1, <1>3, <1>7, <2>1, <2>2, <2>5, NotesLeft, RefresherSteps
<1> QED BY <1>6, <1>7 DEF Recover

LEMMA CompleteRecoverySInv ==
    ASSUME IInv, SInv, NEW p \in Refreshers, CompleteRecovery(p) PROVE SInv'
<1>1. /\ at[p] = "completing" /\ p \in Processes /\ Rests(p)
      /\ opened' = opened /\ valid' = valid /\ bound' = bound /\ state' = state
      /\ missedIn' = missedIn /\ note' = note /\ covers' = covers
      /\ astray' = astray /\ conn \in Connection
  BY RefresherFacts DEF CompleteRecovery, userVars, noteVars, historyVars
<1>2. Alone(p) /\ ListOK(p)' /\ row'[p].outage = 0 /\ Still({p})
  BY <1>1, RefreshersAlone, RestsHow, Apart DEF Refresh, Still, Alone
<1>3. CASE ~(Current(p) /\ conn.outage = row[p].outage)
  <2>1. UNCHANGED <<summarized, conn>>
    BY <1>3 DEF CompleteRecovery
  <2> QED BY <1>1, <1>2, <2>1, QuietRefresher DEF rowVars
<1>4. CASE Current(p) /\ conn.outage = row[p].outage
  <2> DEFINE o == row[p].outage
  <2>1. /\ summarized' = summarized \cup {r \in listed[p] : missedIn[r] = o}
        /\ conn' = [conn EXCEPT !.outage = 0, !.down = None]
    BY <1>4 DEF CompleteRecovery
  <2>2. conn'.outage = 0 /\ conn'.gen = conn.gen
    BY <1>1, <2>1 DEF Connection
  <2>3. summarized \subseteq summarized' /\ Calm
    BY <1>1, <2>1, CalmStill
  <2>4. \A u \in Outages : CoverOK(u)'
    BY <1>1, <2>3, CoverKept DEF IInv, SInv
  <2>5. /\ o \in Outages /\ Wanting(o) \subseteq listed[p]
        /\ listed[p] = {} \/ (note[o] \in Over /\ listed[p] \subseteq covers[o])
    BY <1>1 DEF SInv, ListOK, Listing
  <2>6. \A r \in summarized' : Named(r)'
    <3>1. ASSUME NEW r \in listed[p], missedIn[r] = o PROVE Named(r)'
      BY <1>1, <2>5, <3>1 DEF Named
    <3>2. \A r \in summarized : Named(r)'
      BY <2>3, NamedKept DEF IInv, SInv
    <3> QED BY <2>1, <3>1, <3>2
  <2>7. \A u \in Outages, g \in Nat : Tie(u, g)' => Tie(u, g)
    BY <1>1, <1>2, <2>2, TiesKept
  <2>8. OneOwner' /\ GivenOut'
    BY <1>1, <2>7, OwnersKept DEF SInv
  <2>9. BoundBefore'
    BY <1>1, <2>2 DEF SInv, BoundBefore
  <2>10. MissedIsRemembered'
    <3>1. ASSUME NEW r \in valid \ (summarized' \cup astray), state[r] = "missed",
                 bound[r] = conn.gen
          PROVE  FALSE
      <4>1. r \notin summarized /\ conn.outage = missedIn[r]
        BY <2>1, <3>1 DEF SInv, MissedIsRemembered
      <4>2. missedIn[r] = o
        BY <1>4, <4>1
      <4>3. r \in Wanting(o)
        BY <3>1, <4>1, <4>2 DEF Wanting
      <4> QED BY <2>1, <2>5, <3>1, <4>2, <4>3
    <3> QED BY <1>1, <2>2, <3>1 DEF MissedIsRemembered
  <2> QED BY <1>1, <1>2, <2>3, <2>4, <2>6, <2>8, <2>9, <2>10, RefresherSteps
<1> QED BY <1>3, <1>4

\* A summary and its claim, the reminders and the connection left alone.
LEMMA NoteSteps ==
    ASSUME IInv, SInv, NEW p \in Refreshers, Alone(p), Calm, ListOK(p)',
           UNCHANGED <<conn, opened, valid, rowVars, astray>>,
           row'[p].outage = 0 \/ Tie(row'[p].outage, row'[p].gen),
           \A u \in Outages : CoverOK(u)'
    PROVE  SInv'
<1>1. /\ state' = state /\ missedIn' = missedIn /\ bound' = bound
      /\ summarized' = summarized /\ conn' = conn /\ opened' = opened
  BY DEF rowVars
<1>2. p \in Processes /\ Still({p})
  BY Apart DEF Still, Alone, Processes
<1>3. OneOwner' /\ GivenOut' /\ BoundBefore' /\ MissedIsRemembered'
  BY <1>1, <1>2, ConnLeft
<1>4. \A r \in summarized' : Named(r)'
  BY <1>1, NamedKept DEF IInv, SInv
<1> QED BY <1>1, <1>3, <1>4, RefresherSteps

LEMMA RecordSummarySInv ==
    ASSUME IInv, SInv, NEW p \in Refreshers, RecordSummary(p) PROVE SInv'
<1>1. /\ at[p] = "recording" /\ p \in Processes /\ LocalTyped /\ TellOK(p)
      /\ UNCHANGED <<conn, opened, valid, rowVars, astray>> /\ covers' = covers
      /\ state' = state /\ missedIn' = missedIn /\ bound' = bound
      /\ summarized' = summarized /\ valid' = valid /\ astray' = astray
      /\ note \in [Outages -> NoteStatus]
  BY RefresherFacts DEF RecordSummary, connVars, userVars, rowVars, historyVars,
     IInv, TypeOK
<1> DEFINE o == row[p].outage
<1>2. /\ o \in Outages /\ note[o] = "attempting"
      /\ outcome[p] \in {"failed"} \cup (Over \ {"skipped_obsolete"})
      /\ listed[p] = covers[o] /\ Wanting(o) \subseteq listed[p]
  BY <1>1 DEF TellOK, Making, SInv, ListOK, Listing
<1>3. /\ note'[o] = outcome[p]
      /\ \A u \in Outages : u # o => note'[u] = note[u]
  BY <1>1, <1>2 DEF RecordSummary
<1>4. Calm
  BY <1>1, <1>2, <1>3 DEF Calm, Over
<1>5. \A u \in Outages : CoverOK(u)'
  <2>1. \A u \in Outages : \/ note'[u] = note[u]
                           \/ note[u] \notin Retried /\ note'[u] # "skipped_obsolete"
    BY <1>2, <1>3 DEF Retried
  <2> QED BY <1>1, <1>4, <2>1, CoverKept DEF IInv, SInv
<1>6. ListOK(p)' /\ (row'[p].outage = 0 \/ row'[p] = row[p])
  <2>1. CASE Rests(p)
    BY <2>1, RestsHow
  <2>2. CASE /\ ~Waits(outcome[p]) /\ Goes(p, "completing")
             /\ UNCHANGED <<row, listed>>
    <3>1. /\ at'[p] = "completing" /\ row'[p] = row[p] /\ listed'[p] = listed[p]
          /\ note'[o] \in Over
      BY <1>1, <1>2, <1>3, <2>2 DEF Goes, LocalTyped, Waits
    <3>2. Wanting(row[p].outage)' = Wanting(o)
      BY <1>1, <3>1 DEF Wanting
    <3>3. /\ Wanting(row[p].outage)' \subseteq listed'[p]
          /\ listed'[p] \subseteq covers'[o] /\ row'[p].outage = o
      BY <1>1, <1>2, <3>1, <3>2
    <3>4. ListOK(p)'
      BY <1>2, <3>1, <3>3 DEF ListOK, Making, Listing
    <3> QED BY <3>1, <3>4
  <2> QED BY <2>1, <2>2 DEF RecordSummary
<1>7. row'[p].outage = 0 \/ Tie(row'[p].outage, row'[p].gen)
  BY <1>1, <1>6 DEF Tie
<1> QED BY <1>1, <1>4, <1>5, <1>6, <1>7, RefreshersAlone, NoteSteps DEF Refresh

\* A summary that finds nothing to name leaves out what nobody wants any more.
LEMMA NothingWanted ==
    ASSUME IInv, SInv, NEW o \in Outages, note[o] \in Retried, Wanting(o) = {},
           NEW r \in covers[o]
    PROVE  Dropped(r)
<1>1. missedIn[r] = o /\ covers[o] \subseteq Reminders
  BY DEF SInv, CoverOK, IInv, TypeOK
<1>2. r \notin summarized
  BY <1>1 DEF SInv, Named, Over, Retried
<1> QED BY <1>1, <1>2 DEF Dropped, Wanting

LEMMA ClaimSummarySInv ==
    ASSUME IInv, SInv, NEW p \in Refreshers, ClaimSummary(p) PROVE SInv'
<1>1. /\ at[p] = "claiming" /\ p \in Processes /\ LocalTyped /\ TellOK(p)
      /\ UNCHANGED <<conn, opened, valid, rowVars, astray>>
      /\ state' = state /\ missedIn' = missedIn /\ bound' = bound
      /\ summarized' = summarized /\ valid' = valid /\ astray' = astray
      /\ note \in [Outages -> NoteStatus]
      /\ covers \in [Outages -> SUBSET Reminders]
  BY RefresherFacts DEF ClaimSummary, connVars, userVars, rowVars, historyVars,
     IInv, TypeOK
<1> DEFINE o == row[p].outage
<1>2. o \in Outages /\ Wanting(o) \subseteq listed[p] /\ Alone(p)
  BY <1>1, RefreshersAlone DEF TellOK, SInv, ListOK, Listing, Refresh
<1>3. Tie(row[p].outage, row[p].gen)
  BY <1>1 DEF Tie
<1>4. \A u : Wanting(u)' = Wanting(u)
  BY <1>1 DEF Wanting
<1>5. CASE Rests(p) /\ UNCHANGED noteVars
  BY <1>1, <1>2, <1>5, RestsHow, QuietRefresher DEF noteVars
<1>6. CASE /\ note[o] \in Final
           /\ note' = [note EXCEPT ![o] = IF @ = "stale" THEN "unknown" ELSE @]
           /\ Goes(p, "completing")
           /\ listed' = [listed EXCEPT ![p] = covers[o]]
           /\ UNCHANGED <<covers, noteTries, row, outcome>>
  <2>1. /\ at'[p] = "completing" /\ listed'[p] = covers[o] /\ row'[p] = row[p]
    BY <1>1, <1>6 DEF Goes, LocalTyped
  <2>2. /\ note[o] \notin Retried /\ note'[o] \in Over
        /\ note'[o] = note[o] \/ note'[o] = "unknown"
        /\ \A u \in Outages : u # o => note'[u] = note[u]
    <3>1. note[o] \in {"stale", "delivered", "unknown", "skipped_disabled",
                       "skipped_obsolete"}
      BY <1>6 DEF Final, NoteStatus, Retried
    <3>2. note'[o] = IF note[o] = "stale" THEN "unknown" ELSE note[o]
      BY <1>1, <1>2, <1>6
    <3>3. \A u \in Outages : u # o => note'[u] = note[u]
      BY <1>1, <1>6
    <3> QED BY <3>1, <3>2, <3>3 DEF Retried, Over
  <2>3. Calm
    <3>1. note[o] \in Over => note'[o] = note[o]
      BY <1>1, <1>2, <1>6 DEF Over
    <3> QED BY <1>1, <1>6, <2>2, <3>1 DEF Calm
  <2>4. \A u \in Outages : CoverOK(u)'
    <3>1. \A u \in Outages :
              \/ note'[u] = note[u]
              \/ note[u] \notin Retried /\ note'[u] # "skipped_obsolete"
      BY <2>2
    <3> QED BY <1>1, <1>6, <2>3, <3>1, CoverKept DEF IInv, SInv
  <2>5. Wanting(o) \subseteq covers[o]
    BY <1>2, <2>2 DEF SInv, CoverOK
  <2>6. Wanting(row[p].outage)' = Wanting(o)
    BY <1>1, <1>6 DEF Wanting
  <2>7. ListOK(p)'
    BY <1>1, <1>2, <1>6, <2>1, <2>2, <2>5, <2>6 DEF ListOK, Making, Listing
  <2> QED BY <1>1, <1>2, <1>3, <2>1, <2>3, <2>4, <2>7, NoteSteps
<1>7. CASE /\ note[o] \in Retried /\ listed[p] = {}
           /\ note' = [note EXCEPT ![o] = IF @ = "failed" THEN "skipped_obsolete"
                                          ELSE @]
           /\ Goes(p, "completing")
           /\ UNCHANGED <<covers, noteTries, row, outcome, listed>>
  <2>1. at'[p] = "completing" /\ listed'[p] = {} /\ row'[p] = row[p]
    BY <1>1, <1>7 DEF Goes, LocalTyped
  <2>2. \A u \in Outages : u # o => note'[u] = note[u]
    BY <1>1, <1>7
  <2>3. Calm
    BY <1>1, <1>2, <1>7, <2>2 DEF Calm, Over, Retried
  <2>4. \A r \in covers[o] : Dropped(r)
    BY <1>2, <1>7, NothingWanted
  <2>5. \A u \in Outages : CoverOK(u)'
    BY <1>1, <1>2, <1>4, <1>7, <2>2, <2>4 DEF CoverOK, Dropped, SInv
  <2>6. ListOK(p)'
    BY <1>1, <1>2, <1>4, <1>7, <2>1 DEF ListOK, Making
  <2> QED BY <1>1, <1>2, <1>3, <2>1, <2>3, <2>5, <2>6, NoteSteps
<1>8. CASE /\ note[o] \in Retried
           /\ \A r \in listed[p] : state[r] = "missed" /\ missedIn[r] = o
           /\ note' = [note EXCEPT ![o] = "attempting"]
           /\ covers' = [covers EXCEPT ![o] = listed[p]]
           /\ Goes(p, "telling") /\ UNCHANGED <<row, outcome, listed>>
  <2>1. at'[p] = "telling" /\ listed'[p] = listed[p] /\ row'[p] = row[p]
    BY <1>1, <1>8 DEF Goes, LocalTyped
  <2>2. /\ note'[o] = "attempting" /\ covers'[o] = listed[p]
        /\ \A u \in Outages : u # o => note'[u] = note[u] /\ covers'[u] = covers[u]
    BY <1>1, <1>2, <1>8
  <2>3. Calm
    BY <1>1, <1>2, <1>8, <2>2 DEF Calm, Over, Retried
  <2>4. \A u \in Outages : CoverOK(u)'
    <3>1. \A u \in Outages : u = o => CoverOK(u)'
      BY <1>1, <1>2, <1>4, <1>8, <2>2 DEF CoverOK, Ended
    <3>2. \A u \in Outages : u # o => CoverOK(u)'
      BY <1>1, <1>4, <2>2 DEF CoverOK, Dropped, SInv
    <3> QED BY <3>1, <3>2
  <2>5. ListOK(p)'
    BY <1>1, <1>2, <1>4, <2>1, <2>2 DEF ListOK, Making, Listing
  <2> QED BY <1>1, <1>2, <1>3, <2>1, <2>3, <2>4, <2>5, NoteSteps
<1> QED BY <1>5, <1>6, <1>7, <1>8 DEF ClaimSummary

-----------------------------------------------------------------------------
(* The theorems. *)

LEMMA SummariesNext == ASSUME IInv, SInv, [Next]_vars PROVE SInv'
<1>1. CASE World
  <2>1. CASE \E p \in Refreshers : Reconnect(p) \/ RefresherCrashes(p)
    BY <2>1, BeginSInv, RefresherCrashesSInv
  <2>2. CASE \E w \in Workers : WorkerCrashes(w)
    BY <2>2, WorkerCrashesSInv
  <2> QED BY <1>1, <2>1, <2>2, WorldSInv DEF World
<1>2. ASSUME NEW w \in Workers, Deliver(w) PROVE SInv'
  BY <1>2, TakeSInv, LookSInv, CollectFirstSInv, ClaimDeliverySInv,
     RecordMissedSInv, SendSInv, RecordSInv DEF Deliver
<1>3. ASSUME NEW p \in Refreshers, Refresh(p) PROVE SInv'
  BY <1>3, BeginSInv, MarkDownSInv, ConfirmSInv, RecoverSInv, ClaimSummarySInv,
     TellSInv, RecordSummarySInv, CompleteRecoverySInv DEF Refresh
<1>4. CASE \E o \in Outages : ClaimAges(o)
  BY <1>4, ClaimAgesSInv
<1>5. CASE UNCHANGED vars
  BY <1>5, QuietSteps DEF vars, connVars, userVars, historyVars
<1> QED BY <1>1, <1>2, <1>3, <1>4, <1>5 DEF Next

\* The inductive invariant of the summaries: whose an outage is, and what the
\* list of a refresher and the claim of a summary hold of what is wanted.
THEOREM SummariesInvariant == Spec => [](IInv /\ SInv)
<1>1. Init => IInv /\ SInv
  BY InitIInv, InitSInv
<1>2. IInv /\ SInv /\ [Next]_vars => IInv' /\ SInv'
  BY NextKeeps, SummariesNext
<1> QED BY <1>1, <1>2, PTL DEF Spec

\* What completeRecovery marks summarized is what the outage's summary named, and
\* the summary was sent, may have been, or was switched off; what a summary with
\* nothing left to name leaves out is cancelled, astray or no missed one.
THEOREM SummarizedIsToldCorrect == Spec => []SummarizedIsTold
<1>1. IInv /\ SInv => SummarizedIsTold
  <2> SUFFICES ASSUME IInv, SInv, NEW r \in summarized
               PROVE  /\ missedIn[r] # 0 /\ r \in covers[missedIn[r]]
                      /\ \/ note[missedIn[r]] \in {"delivered", "unknown",
                                                   "skipped_disabled"}
                         \/ /\ note[missedIn[r]] = "skipped_obsolete"
                            /\ r \notin valid \/ r \in astray \/ state[r] # "missed"
    BY DEF SummarizedIsTold
  <2>1. Named(r)
    BY DEF SInv
  <2>2. note[missedIn[r]] = "skipped_obsolete" => Dropped(r)
    BY <2>1 DEF Named, SInv, CoverOK
  <2> QED BY <2>1, <2>2 DEF Named, Over, Dropped, Outages
<1> QED BY <1>1, SummariesInvariant, PTL

\* A reminder that an outage has swallowed keeps its outage open until a summary
\* has it (disconnected, collectPendingMissed, recordMissed, completeRecovery).
THEOREM MissedIsRememberedCorrect == Spec => []MissedIsRemembered
<1>1. SInv => MissedIsRemembered
  BY DEF SInv
<1> QED BY <1>1, SummariesInvariant, PTL

=============================================================================
