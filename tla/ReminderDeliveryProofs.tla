-------------------------- MODULE ReminderDeliveryProofs --------------------------
(* Proofs about ReminderDelivery, for any number of reminders, workers,      *)
(* refreshers, outages and faults.                                           *)
EXTENDS ReminderDelivery, TLAPS

USE ProcessAssumption, BoundAssumption

-----------------------------------------------------------------------------
(* The inductive invariant.                                                 *)

\* A worker that has claimed a reminder, and has not sent it, is alone with it.
Holding(w) == \/ at[w] \in {"sending", "missing"}
              \/ at[w] = "recording" /\ outcome[w] = "failed"

\* The job of a worker is due, and is for the owner that the worker has read.
WorkOK(w) ==
    /\ at[w] = "idle" <=> job[w] = None
    /\ job[w] # None => state[job[w]] # "none"
    /\ Holding(w) => /\ state[job[w]] = "attempting"
                     /\ heard[job[w]] = 0 /\ missedIn[job[w]] = 0
    /\ at[w] \in {"collecting", "checking", "sending"} =>
           bound[job[w]] = row[w].gen
    /\ at[w] = "recording" => outcome[w] \in Outcomes

\* A summary is made by one refresher, for the owner that it has read, of what
\* its outage has missed.
Making(p) == at[p] \in {"telling", "recording"}

TellOK(p) ==
    /\ at[p] \in {"recovering", "claiming", "telling", "recording"} =>
           row[p].outage \in Outages
    /\ at[p] \in {"claiming", "telling"} =>
           \A r \in listed[p] : state[r] # "none" /\ bound[r] = row[p].gen
    /\ Making(p) => /\ note[row[p].outage] = "attempting"
                    /\ \A r \in listed[p] : missedIn[r] = row[p].outage
    /\ at[p] = "recording" => outcome[p] \in NoteStatus \cap Outcomes

Distinct ==
    /\ \A v, w \in Workers : v # w /\ job[v] # None => job[v] # job[w]
    /\ \A p, q \in Refreshers : p # q /\ Making(p) /\ Making(q) =>
           row[p].outage # row[q].outage

Queued == \A r \in queue : state[r] # "none"

\* What may still be sent has not been, and no outage has it.
Fresh == {"none", "pending", "failed"}

Unheard == \A r \in Reminders :
              state[r] \in Fresh => heard[r] = 0 /\ missedIn[r] = 0

\* As long as the summary of an outage may still be sent, nobody has been told
\* of what the outage has missed.
Teller(p, o) ==
    /\ row[p].outage = o
    /\ at[p] = "telling" \/ (at[p] = "recording" /\ outcome[p] = "failed")

Untold(o) == note[o] \in Retried \/ \E p \in Refreshers : Teller(p, o)

Silent == \A o \in Outages : Untold(o) =>
             /\ told[o] = 0
             /\ \A r \in Reminders : missedIn[r] = o => heard[r] = 0

IInv == /\ TypeOK
        /\ \A w \in Workers : WorkOK(w)
        /\ \A p \in Refreshers : TellOK(p)
        /\ Distinct /\ Queued /\ Unheard /\ Silent /\ ToldOnce

-----------------------------------------------------------------------------
(* Types, part by part. *)

ConnTyped  == line \in BOOLEAN /\ conn \in Connection /\ opened \in 0 .. MaxOutages
UserTyped  == /\ enabled \in BOOLEAN /\ valid \subseteq Reminders
              /\ due \subseteq Reminders
RowTyped   == /\ state \in [Reminders -> Status] /\ bound \in [Reminders -> Nat]
              /\ missedIn \in [Reminders -> 0 .. MaxOutages]
              /\ summarized \subseteq Reminders
QueueTyped == queue \subseteq Reminders /\ tries \in [Reminders -> Nat]
NoteTyped  == /\ note \in [Outages -> NoteStatus]
              /\ covers \in [Outages -> SUBSET Reminders]
              /\ noteTries \in [Outages -> Nat]
LocalTyped == /\ at \in [Processes -> Steps] /\ row \in [Processes -> Connection]
              /\ job \in [Workers -> Reminders \cup {None}]
              /\ listed \in [Refreshers -> SUBSET Reminders]
              /\ outcome \in [Processes -> Outcomes \cup {None}]
HistoryTyped == /\ heard \in [Reminders -> Nat] /\ told \in [Outages -> Nat]
                /\ astray \subseteq Reminders
EventTyped == drops \in Nat /\ events \in Nat

Typed == /\ ConnTyped /\ UserTyped /\ RowTyped /\ QueueTyped /\ NoteTyped
         /\ LocalTyped /\ HistoryTyped /\ EventTyped

LEMMA TypeParts == (TypeOK <=> Typed) /\ (TypeOK' <=> Typed')
BY DEF Typed, TypeOK, ConnTyped, UserTyped, RowTyped, QueueTyped, NoteTyped,
       LocalTyped, HistoryTyped, EventTyped

LEMMA PartsKept ==
    ASSUME Typed
    PROVE  /\ UNCHANGED connVars => ConnTyped'
           /\ UNCHANGED userVars => UserTyped'
           /\ UNCHANGED rowVars => RowTyped'
           /\ UNCHANGED queueVars => QueueTyped'
           /\ UNCHANGED noteVars => NoteTyped'
           /\ UNCHANGED localVars => LocalTyped'
           /\ UNCHANGED historyVars => HistoryTyped'
           /\ UNCHANGED eventVars => EventTyped'
BY DEF Typed, ConnTyped, UserTyped, RowTyped, QueueTyped, NoteTyped, LocalTyped,
       HistoryTyped, EventTyped, connVars, userVars, rowVars, queueVars, noteVars,
       localVars, historyVars, eventVars

LEMMA PairedTyped == Paired \in Connection
BY DEF Paired, Connection, Times

LEMMA ReplacedTyped ==
    ASSUME NEW c \in Connection
    PROVE  [c EXCEPT !.gen = @ + 1, !.verified = FALSE, !.outage = 0]
               \in Connection
<1>1. c.gen + 1 \in Nat \ {0} /\ 0 \in 0 .. MaxOutages
  BY DEF Connection
<1>2. [c EXCEPT !.gen = @ + 1] \in Connection
  BY <1>1 DEF Connection
<1>3. \A d \in Connection : [d EXCEPT !.verified = FALSE] \in Connection
  BY DEF Connection
<1>4. \A d \in Connection : [d EXCEPT !.outage = 0] \in Connection
  BY <1>1 DEF Connection
<1> QED BY <1>2, <1>3, <1>4

LEMMA AskedTyped ==
    ASSUME NEW c \in Connection
    PROVE  [c EXCEPT !.down = None, !.up = {}] \in Connection
BY DEF Connection, Times

-----------------------------------------------------------------------------
(* What a process does to its own variables.  *)

LEMMA Goings ==
    ASSUME LocalTyped, NEW p \in Processes, NEW s \in Steps, Goes(p, s)
    PROVE  /\ at' \in [Processes -> Steps] /\ at'[p] = s
           /\ \A q \in Processes : q # p => at'[q] = at[q]
BY DEF LocalTyped, Goes

LEMMA Sayings ==
    ASSUME LocalTyped, NEW p \in Processes, NEW s \in Steps,
           NEW how \in Outcomes, Says(p, s, how)
    PROVE  /\ at' \in [Processes -> Steps] /\ at'[p] = s
           /\ outcome' \in [Processes -> Outcomes \cup {None}]
           /\ outcome'[p] = how
           /\ \A q \in Processes : q # p => at'[q] = at[q] /\ outcome'[q] = outcome[q]
<1>1. Goes(p, s) /\ outcome' = [outcome EXCEPT ![p] = how]
  BY DEF Says
<1>2. /\ at' \in [Processes -> Steps] /\ at'[p] = s
      /\ \A q \in Processes : q # p => at'[q] = at[q]
  BY <1>1, Goings
<1> QED BY <1>1, <1>2 DEF LocalTyped

LEMMA Leavings ==
    ASSUME LocalTyped, NEW w \in Workers, Leave(w)
    PROVE  /\ at' \in [Processes -> Steps] /\ at'[w] = "idle"
           /\ job' \in [Workers -> Reminders \cup {None}] /\ job'[w] = None
           /\ row' \in [Processes -> Connection]
           /\ outcome' \in [Processes -> Outcomes \cup {None}]
           /\ \A v \in Workers : v # w => job'[v] = job[v]
           /\ \A q \in Processes : q # w =>
                  at'[q] = at[q] /\ row'[q] = row[q] /\ outcome'[q] = outcome[q]
<1>1. w \in Processes
  BY DEF Processes
<1>2. at' \in [Processes -> Steps] /\ at'[w] = "idle"
      /\ \A q \in Processes : q # w => at'[q] = at[q]
  BY <1>1 DEF LocalTyped, Leave, Steps
<1>3. job' \in [Workers -> Reminders \cup {None}] /\ job'[w] = None
      /\ \A v \in Workers : v # w => job'[v] = job[v]
  BY DEF LocalTyped, Leave
<1>4. row' \in [Processes -> Connection]
      /\ \A q \in Processes : q # w => row'[q] = row[q]
  BY <1>1, PairedTyped DEF LocalTyped, Leave
<1>5. outcome' \in [Processes -> Outcomes \cup {None}]
      /\ \A q \in Processes : q # w => outcome'[q] = outcome[q]
  BY <1>1 DEF LocalTyped, Leave
<1> QED BY <1>2, <1>3, <1>4, <1>5

LEMMA Restings ==
    ASSUME LocalTyped, NEW p \in Refreshers, Rests(p)
    PROVE  /\ at' \in [Processes -> Steps] /\ at'[p] = "idle"
           /\ row' \in [Processes -> Connection]
           /\ outcome' \in [Processes -> Outcomes \cup {None}]
           /\ listed' \in [Refreshers -> SUBSET Reminders]
           /\ \A q \in Refreshers : q # p => listed'[q] = listed[q]
           /\ \A q \in Processes : q # p =>
                  at'[q] = at[q] /\ row'[q] = row[q] /\ outcome'[q] = outcome[q]
<1>1. p \in Processes
  BY DEF Processes
<1>2. at' \in [Processes -> Steps] /\ at'[p] = "idle"
      /\ \A q \in Processes : q # p => at'[q] = at[q]
  BY <1>1 DEF LocalTyped, Rests, Steps
<1>3. listed' \in [Refreshers -> SUBSET Reminders]
      /\ \A q \in Refreshers : q # p => listed'[q] = listed[q]
  BY DEF LocalTyped, Rests
<1>4. row' \in [Processes -> Connection]
      /\ \A q \in Processes : q # p => row'[q] = row[q]
  BY <1>1, PairedTyped DEF LocalTyped, Rests
<1>5. outcome' \in [Processes -> Outcomes \cup {None}]
      /\ \A q \in Processes : q # p => outcome'[q] = outcome[q]
  BY <1>1 DEF LocalTyped, Rests
<1> QED BY <1>2, <1>3, <1>4, <1>5

LEMMA Apart == \A w \in Workers, p \in Refreshers :
                   w # p /\ w \in Processes /\ p \in Processes
BY DEF Processes

-----------------------------------------------------------------------------
(* The invariant, under what most steps leave alone. *)

\* No process but x moves.
Same(q) == at'[q] = at[q] /\ row'[q] = row[q] /\ outcome'[q] = outcome[q]

Alone(x) ==
    /\ \A q \in Processes : q # x => Same(q)
    /\ \A v \in Workers : v # x => job'[v] = job[v]
    /\ \A q \in Refreshers : q # x => listed'[q] = listed[q]

\* The reminders keep what cannot be undone.
Settled == \A r \in Reminders :
    /\ state[r] # "none" => state'[r] # "none" /\ bound'[r] = bound[r]
    /\ missedIn[r] # 0 => missedIn'[r] = missedIn[r]

\* The reminder of a worker that holds it stays as it is.
Untouched(v) == Holding(v) => /\ state'[job[v]] = state[job[v]]
                              /\ heard'[job[v]] = heard[job[v]]
                              /\ missedIn'[job[v]] = missedIn[job[v]]

LEMMA WorkKept ==
    ASSUME TypeOK, Settled, NEW v \in Workers, WorkOK(v), Same(v),
           job'[v] = job[v], Untouched(v)
    PROVE  WorkOK(v)'
<1>1. job[v] \in Reminders \cup {None}
  BY DEF TypeOK
<1>2. Holding(v)' = Holding(v)
  BY DEF Holding, Same
<1>3. job[v] # None => /\ state'[job[v]] # "none"
                       /\ bound'[job[v]] = bound[job[v]]
  BY <1>1 DEF WorkOK, Settled
<1>4. at[v] \in {"collecting", "checking", "sending"} => job[v] # None
  BY DEF WorkOK
<1> QED BY <1>2, <1>3, <1>4 DEF WorkOK, Same, Untouched

LEMMA TellKept ==
    ASSUME TypeOK, Settled, NEW p \in Refreshers, TellOK(p), Same(p),
           listed'[p] = listed[p],
           Making(p) => note'[row[p].outage] = "attempting"
    PROVE  TellOK(p)'
<1>1. listed[p] \subseteq Reminders
  BY DEF TypeOK
<1>2. Making(p)' = Making(p)
  BY DEF Making, Same
<1>3. ASSUME at[p] \in {"claiming", "telling"}, NEW r \in listed[p]
      PROVE  state'[r] # "none" /\ bound'[r] = row[p].gen
  BY <1>1, <1>3 DEF TellOK, Settled
<1>4. ASSUME Making(p), NEW r \in listed[p]
      PROVE  missedIn'[r] = row[p].outage
  <2>1. missedIn[r] = row[p].outage /\ row[p].outage \in Outages
    BY <1>4 DEF TellOK, Making
  <2> QED BY <1>1, <2>1 DEF Settled, Outages
<1> QED BY <1>2, <1>3, <1>4 DEF TellOK, Same

\* What remains to be shown of a step of one process.
LEMMA StepKeeps ==
    ASSUME IInv, TypeOK', Settled, NEW x \in Processes, Alone(x),
           x \in Workers => WorkOK(x)', x \in Refreshers => TellOK(x)',
           \A v \in Workers : v # x => Untouched(v),
           \A q \in Refreshers : q # x /\ Making(q) =>
               note'[row[q].outage] = "attempting",
           Distinct', Queued', Unheard', Silent', ToldOnce'
    PROVE  IInv'
<1>1. ASSUME NEW v \in Workers PROVE WorkOK(v)'
  <2>1. CASE v = x
    BY <2>1
  <2>2. CASE v # x
    <3>1. Same(v) /\ job'[v] = job[v]
      BY <2>2, Apart DEF Alone, Processes
    <3> QED BY <2>2, <3>1, WorkKept DEF IInv
  <2> QED BY <2>1, <2>2
<1>2. ASSUME NEW q \in Refreshers PROVE TellOK(q)'
  <2>1. CASE q = x
    BY <2>1
  <2>2. CASE q # x
    <3>1. Same(q) /\ listed'[q] = listed[q]
      BY <2>2, Apart DEF Alone, Processes
    <3> QED BY <2>2, <3>1, TellKept DEF IInv
  <2> QED BY <2>1, <2>2
<1> QED BY <1>1, <1>2 DEF IInv

LEMMA JobsDistinct ==
    ASSUME Distinct, NEW w \in Workers, Alone(w),
           job'[w] \in {job[w], None} \/ \A v \in Workers : v # w => job[v] # job'[w]
    PROVE  Distinct'
<1>1. \A p \in Refreshers : Same(p)
  BY Apart DEF Alone
<1>2. \A p \in Refreshers : Making(p)' = Making(p) /\ row'[p] = row[p]
  BY <1>1 DEF Making, Same
<1>3. \A v \in Workers : v # w => job'[v] = job[v]
  BY DEF Alone
<1>4. \A u, v \in Workers : u # v /\ job'[u] # None => job'[u] # job'[v]
  BY <1>3 DEF Distinct
<1> QED BY <1>2, <1>4 DEF Distinct

LEMMA SummariesDistinct ==
    ASSUME Distinct, NEW p \in Refreshers, Alone(p),
           \/ ~Making(p)'
           \/ Making(p) /\ row'[p].outage = row[p].outage
           \/ \A q \in Refreshers : q # p /\ Making(q) =>
                  row[q].outage # row'[p].outage
    PROVE  Distinct'
<1>1. \A v \in Workers : job'[v] = job[v]
  BY Apart DEF Alone
<1>2. \A q \in Refreshers : q # p => Same(q)
  BY DEF Alone, Processes
<1>3. \A q \in Refreshers : q # p => Making(q)' = Making(q) /\ row'[q] = row[q]
  BY <1>2 DEF Making, Same
<1>4. ASSUME NEW q \in Refreshers, NEW s \in Refreshers, q # s, Making(q)',
             Making(s)'
      PROVE  row'[q].outage # row'[s].outage
  BY <1>3, <1>4 DEF Distinct
<1> QED BY <1>1, <1>4 DEF Distinct

\* What remains to be shown of a step of the world.
LEMMA WorldKeeps ==
    ASSUME IInv, TypeOK', Settled, UNCHANGED localVars,
           UNCHANGED <<note, told, heard, missedIn>>,
           \A r \in Reminders : state[r] # "none" => state'[r] = state[r],
           Queued', Unheard'
    PROVE  IInv'
<1>1. /\ at' = at /\ row' = row /\ job' = job /\ outcome' = outcome
      /\ listed' = listed
  BY DEF localVars
<1>2. ASSUME NEW v \in Workers PROVE WorkOK(v)'
  <2>1. WorkOK(v) /\ TypeOK
    BY DEF IInv
  <2>2. Untouched(v)
    <3>1. Holding(v) => state[job[v]] = "attempting" /\ job[v] # None
      BY <2>1 DEF WorkOK, Holding
    <3>2. job[v] \in Reminders \cup {None}
      BY <2>1 DEF TypeOK
    <3> QED BY <3>1, <3>2 DEF Untouched
  <2>3. Same(v) /\ job'[v] = job[v]
    BY <1>1 DEF Same
  <2> QED BY <2>1, <2>2, <2>3, WorkKept
<1>3. ASSUME NEW q \in Refreshers PROVE TellOK(q)'
  <2>1. TellOK(q) /\ TypeOK
    BY DEF IInv
  <2>2. Same(q) /\ listed'[q] = listed[q]
    BY <1>1 DEF Same
  <2>3. Making(q) => note'[row[q].outage] = "attempting"
    BY <2>1 DEF TellOK
  <2> QED BY <2>1, <2>2, <2>3, TellKept
<1>4. Distinct'
  BY <1>1 DEF IInv, Distinct, Making
<1>5. Silent'
  BY <1>1 DEF IInv, Silent, Untold, Teller
<1>6. ToldOnce'
  BY DEF IInv, ToldOnce
<1> QED BY <1>2, <1>3, <1>4, <1>5, <1>6 DEF IInv

LEMMA SilentKept ==
    ASSUME Silent,
           \A o \in Outages : Untold(o)' => Untold(o) /\ told'[o] = told[o],
           \A r \in Reminders :
               \/ missedIn'[r] = 0 \/ heard'[r] = 0
               \/ missedIn'[r] = missedIn[r] /\ heard'[r] = heard[r]
    PROVE  Silent'
BY DEF Silent, Outages

LEMMA UntoldKept ==
    ASSUME UNCHANGED note, NEW x \in Processes, Alone(x),
           \A o \in Outages : x \in Refreshers /\ Teller(x, o)' => Untold(o)
    PROVE  \A o \in Outages : Untold(o)' => Untold(o)
<1>1. \A q \in Refreshers : q # x => Same(q)
  BY DEF Alone, Processes
<1>2. \A q \in Refreshers, o \in Outages : q # x => Teller(q, o)' = Teller(q, o)
  BY <1>1 DEF Teller, Same
<1> QED BY <1>2 DEF Untold

LEMMA Collects ==
    ASSUME Typed, NEW p \in Processes, row[p] \in Connection, Collect(p)
    PROVE  /\ state' \in [Reminders -> Status] /\ astray' \subseteq Reminders
           /\ missedIn' \in [Reminders -> 0 .. MaxOutages]
           /\ \A r \in Reminders :
                 \/ state'[r] = state[r] /\ missedIn'[r] = missedIn[r]
                 \/ /\ state[r] \in Deliverable /\ state'[r] = "missed"
                    /\ missedIn[r] = 0 /\ missedIn'[r] = row[p].outage
<1> DEFINE R == IF Current(p) /\ conn.verified /\ conn.online /\ enabled
                   /\ conn.outage = row[p].outage
                THEN Collected(p) ELSE {}
<1>1. /\ state' = [r \in Reminders |-> IF r \in R THEN "missed" ELSE state[r]]
      /\ missedIn' = [r \in Reminders |-> IF r \in R THEN row[p].outage
                                          ELSE missedIn[r]]
      /\ astray' = astray \cup Astray(R, row[p].outage)
  BY DEF Collect
<1>2. R \subseteq Reminders
      /\ \A r \in R : missedIn[r] = 0 /\ state[r] \in Deliverable
  BY DEF Collected
<1>3. /\ state \in [Reminders -> Status] /\ astray \subseteq Reminders
      /\ missedIn \in [Reminders -> 0 .. MaxOutages]
      /\ row[p].outage \in 0 .. MaxOutages /\ "missed" \in Status
  BY DEF Typed, RowTyped, HistoryTyped, Connection, Status, Outcomes
<1> HIDE DEF R
<1>4. Astray(R, row[p].outage) \subseteq Reminders
  BY <1>2 DEF Astray
<1> QED BY <1>1, <1>2, <1>3, <1>4

\* What a worker may rely on.
LEMMA WorkerFacts ==
    ASSUME IInv, NEW w \in Workers
    PROVE  /\ Typed /\ LocalTyped /\ w \in Processes /\ w \notin Refreshers
           /\ WorkOK(w) /\ job[w] \in Reminders \cup {None}
           /\ row[w] \in Connection /\ at[w] \in Steps
           /\ at[w] # "idle" => job[w] \in Reminders
           /\ \A v \in Workers : v # w /\ Holding(v) =>
                  /\ job[v] \in Reminders /\ job[v] # job[w]
                  /\ state[job[v]] = "attempting"
                  /\ heard[job[v]] = 0 /\ missedIn[job[v]] = 0
           /\ \A q \in Refreshers : Making(q) => note[row[q].outage] = "attempting"
<1>1. Typed /\ LocalTyped /\ w \in Processes /\ w \notin Refreshers /\ WorkOK(w)
  BY TypeParts DEF IInv, Typed, Processes
<1>2. /\ row[w] \in Connection /\ at[w] \in Steps
      /\ \A v \in Workers : job[v] \in Reminders \cup {None}
  BY <1>1 DEF LocalTyped
<1>3. \A v \in Workers : Holding(v) => at[v] # "idle"
  BY DEF Holding
<1>4. \A v \in Workers : v # w /\ job[v] # None => job[v] # job[w]
  BY DEF IInv, Distinct
<1>5. \A v \in Workers : WorkOK(v)
  BY DEF IInv
<1>6. \A v \in Workers : v # w /\ Holding(v) =>
          /\ job[v] \in Reminders /\ job[v] # job[w]
          /\ state[job[v]] = "attempting"
          /\ heard[job[v]] = 0 /\ missedIn[job[v]] = 0
  BY <1>2, <1>3, <1>4, <1>5 DEF WorkOK
<1>7. \A q \in Refreshers : Making(q) => note[row[q].outage] = "attempting"
  BY DEF IInv, TellOK
<1> QED BY <1>1, <1>2, <1>6, <1>7 DEF WorkOK

\* What a refresher may rely on.
LEMMA RefresherFacts ==
    ASSUME IInv, NEW p \in Refreshers
    PROVE  /\ Typed /\ LocalTyped /\ p \in Processes /\ p \notin Workers
           /\ TellOK(p) /\ listed[p] \subseteq Reminders
           /\ row[p] \in Connection /\ at[p] \in Steps /\ conn \in Connection
           /\ \A v \in Workers : Holding(v) =>
                  /\ job[v] \in Reminders /\ state[job[v]] = "attempting"
                  /\ heard[job[v]] = 0 /\ missedIn[job[v]] = 0
           /\ \A q \in Refreshers : Making(q) =>
                  /\ note[row[q].outage] = "attempting"
                  /\ row[q].outage \in Outages
                  /\ q # p /\ Making(p) => row[q].outage # row[p].outage
<1>1. /\ Typed /\ LocalTyped /\ p \in Processes /\ p \notin Workers /\ TellOK(p)
      /\ conn \in Connection
  BY TypeParts DEF IInv, Typed, Processes, ConnTyped
<1>2. /\ row[p] \in Connection /\ at[p] \in Steps /\ listed[p] \subseteq Reminders
      /\ \A v \in Workers : job[v] \in Reminders \cup {None}
  BY <1>1 DEF LocalTyped
<1>3. \A v \in Workers : Holding(v) =>
          /\ job[v] \in Reminders /\ state[job[v]] = "attempting"
          /\ heard[job[v]] = 0 /\ missedIn[job[v]] = 0
  <2>1. \A v \in Workers : Holding(v) => at[v] # "idle"
    BY DEF Holding
  <2> QED BY <1>2, <2>1 DEF IInv, WorkOK
<1>4. \A q \in Refreshers : Making(q) =>
          note[row[q].outage] = "attempting" /\ row[q].outage \in Outages
  BY DEF IInv, TellOK, Making
<1> QED BY <1>1, <1>2, <1>3, <1>4 DEF IInv, Distinct

\* A step of a refresher that is neither making a summary nor about to record
\* one keeps the invariant if it leaves the reminders and the summaries alone.
LEMMA ReadingKeeps ==
    ASSUME IInv, TypeOK', NEW p \in Refreshers, Alone(p), UNCHANGED <<state, bound, missedIn>>,
           UNCHANGED <<note, heard, told, queue>>,
           \/ at'[p] \in {"idle", "confirming", "marking", "completing"}
           \/ at'[p] = "recovering" /\ row'[p].outage \in Outages
    PROVE  IInv'
<1>1. TellOK(p)' /\ ~Making(p)' /\ \A o \in Outages : ~Teller(p, o)'
  BY DEF TellOK, Making, Teller
<1>2. Settled /\ \A v \in Workers : Untouched(v)
  BY DEF Settled, Untouched
<1>3. Distinct'
  BY <1>1, SummariesDistinct DEF IInv
<1>4. Silent'
  <2>1. \A o \in Outages : Untold(o)' => Untold(o)
    BY <1>1, RefresherFacts, UntoldKept
  <2> QED BY <2>1, SilentKept DEF IInv
<1>5. Queued' /\ Unheard' /\ ToldOnce'
  BY DEF IInv, Queued, Unheard, ToldOnce
<1> QED BY <1>1, <1>2, <1>3, <1>4, <1>5, RefresherFacts, StepKeeps

-----------------------------------------------------------------------------
(* The world's steps. *)

LEMMA LineDropsKeeps ==
    ASSUME IInv, LineDrops PROVE IInv'
<1>1. TypeOK'
  <2>1. Typed
    BY TypeParts DEF IInv
  <2>2. UserTyped' /\ RowTyped' /\ QueueTyped' /\ NoteTyped' /\ LocalTyped'
        /\ HistoryTyped'
    BY <2>1, PartsKept DEF LineDrops
  <2>3. ConnTyped'
    BY <2>1 DEF Typed, ConnTyped, LineDrops
  <2>4. EventTyped'
    BY <2>1 DEF Typed, EventTyped, LineDrops
  <2> QED BY <2>2, <2>3, <2>4, TypeParts DEF Typed
<1>2. /\ UNCHANGED localVars /\ UNCHANGED <<note, told, heard, missedIn>>
      /\ Settled
      /\ \A s \in Reminders : state[s] # "none" => state'[s] = state[s]
  BY DEF LineDrops, Settled, IInv, TypeOK, rowVars, noteVars, historyVars
<1>3. Queued' /\ Unheard'
  BY DEF LineDrops, IInv, TypeOK, Queued, Unheard, Fresh, rowVars, queueVars,
         historyVars
<1> QED BY <1>1, <1>2, <1>3, WorldKeeps

LEMMA LineReturnsKeeps ==
    ASSUME IInv, LineReturns PROVE IInv'
<1>1. TypeOK'
  <2>1. Typed
    BY TypeParts DEF IInv
  <2>2. UserTyped' /\ RowTyped' /\ QueueTyped' /\ NoteTyped' /\ LocalTyped'
        /\ HistoryTyped' /\ EventTyped'
    BY <2>1, PartsKept DEF LineReturns
  <2>3. ConnTyped'
    BY <2>1 DEF Typed, ConnTyped, LineReturns
  <2> QED BY <2>2, <2>3, TypeParts DEF Typed
<1>2. /\ UNCHANGED localVars /\ UNCHANGED <<note, told, heard, missedIn>>
      /\ Settled
      /\ \A s \in Reminders : state[s] # "none" => state'[s] = state[s]
  BY DEF LineReturns, Settled, IInv, TypeOK, rowVars, noteVars, historyVars
<1>3. Queued' /\ Unheard'
  BY DEF LineReturns, IInv, TypeOK, Queued, Unheard, Fresh, rowVars, queueVars,
         historyVars
<1> QED BY <1>1, <1>2, <1>3, WorldKeeps

LEMMA FallsDueKeeps ==
    ASSUME IInv, NEW r \in Reminders, FallsDue(r) PROVE IInv'
<1>1. TypeOK'
  <2>1. Typed
    BY TypeParts DEF IInv
  <2>2. ConnTyped' /\ QueueTyped' /\ NoteTyped' /\ LocalTyped' /\
        HistoryTyped' /\ EventTyped'
    BY <2>1, PartsKept DEF FallsDue
  <2>3. RowTyped'
    <3>1. conn.gen \in Nat
      BY <2>1 DEF Typed, ConnTyped, Connection
    <3> QED BY <2>1, <3>1 DEF Typed, RowTyped, FallsDue
  <2>4. UserTyped'
    BY <2>1 DEF Typed, UserTyped, FallsDue
  <2> QED BY <2>2, <2>3, <2>4, TypeParts DEF Typed
<1>2. /\ UNCHANGED localVars /\ UNCHANGED <<note, told, heard, missedIn>>
      /\ Settled
      /\ \A s \in Reminders : state[s] # "none" => state'[s] = state[s]
  BY DEF FallsDue, Settled, IInv, TypeOK, noteVars, historyVars
<1>3. Queued' /\ Unheard'
  BY DEF FallsDue, IInv, TypeOK, Queued, Unheard, Fresh, queueVars,
         historyVars
<1> QED BY <1>1, <1>2, <1>3, WorldKeeps

LEMMA CreateDeliveryKeeps ==
    ASSUME IInv, NEW r \in Reminders, CreateDelivery(r) PROVE IInv'
<1>1. TypeOK'
  <2>1. Typed
    BY TypeParts DEF IInv
  <2>2. ConnTyped' /\ UserTyped' /\ NoteTyped' /\ LocalTyped' /\
        HistoryTyped' /\ EventTyped'
    BY <2>1, PartsKept DEF CreateDelivery
  <2>3. RowTyped'
    <3>1. conn.gen \in Nat
      BY <2>1 DEF Typed, ConnTyped, Connection
    <3> QED BY <2>1, <3>1 DEF Typed, RowTyped, Status, CreateDelivery
  <2>4. QueueTyped'
    BY <2>1 DEF Typed, QueueTyped, CreateDelivery
  <2> QED BY <2>2, <2>3, <2>4, TypeParts DEF Typed
<1>2. /\ UNCHANGED localVars /\ UNCHANGED <<note, told, heard, missedIn>>
      /\ Settled
      /\ \A s \in Reminders : state[s] # "none" => state'[s] = state[s]
  BY DEF CreateDelivery, Settled, IInv, TypeOK, rowVars, noteVars, historyVars
<1>3. Queued' /\ Unheard'
  BY DEF CreateDelivery, IInv, TypeOK, Queued, Unheard, Fresh, rowVars, queueVars,
         historyVars
<1> QED BY <1>1, <1>2, <1>3, WorldKeeps

LEMMA CancelKeeps ==
    ASSUME IInv, NEW r \in Reminders, Cancel(r) PROVE IInv'
<1>1. TypeOK'
  <2>1. Typed
    BY TypeParts DEF IInv
  <2>2. ConnTyped' /\ RowTyped' /\ QueueTyped' /\ NoteTyped' /\ LocalTyped'
        /\ HistoryTyped'
    BY <2>1, PartsKept DEF Cancel, Event
  <2>3. UserTyped'
    BY <2>1 DEF Typed, UserTyped, Cancel
  <2>4. EventTyped'
    BY <2>1 DEF Typed, EventTyped, Cancel, Event
  <2> QED BY <2>2, <2>3, <2>4, TypeParts DEF Typed
<1>2. /\ UNCHANGED localVars /\ UNCHANGED <<note, told, heard, missedIn>>
      /\ Settled
      /\ \A s \in Reminders : state[s] # "none" => state'[s] = state[s]
  BY DEF Cancel, Settled, IInv, TypeOK, rowVars, noteVars, historyVars
<1>3. Queued' /\ Unheard'
  BY DEF Cancel, IInv, TypeOK, Queued, Unheard, Fresh, rowVars, queueVars,
         historyVars
<1> QED BY <1>1, <1>2, <1>3, WorldKeeps

LEMMA SetPreferenceKeeps ==
    ASSUME IInv, SetPreference PROVE IInv'
<1>1. TypeOK'
  <2>1. Typed
    BY TypeParts DEF IInv
  <2>2. ConnTyped' /\ RowTyped' /\ QueueTyped' /\ NoteTyped' /\ LocalTyped'
        /\ HistoryTyped'
    BY <2>1, PartsKept DEF SetPreference, Event
  <2>3. UserTyped'
    BY <2>1 DEF Typed, UserTyped, SetPreference
  <2>4. EventTyped'
    BY <2>1 DEF Typed, EventTyped, SetPreference, Event
  <2> QED BY <2>2, <2>3, <2>4, TypeParts DEF Typed
<1>2. /\ UNCHANGED localVars /\ UNCHANGED <<note, told, heard, missedIn>>
      /\ Settled
      /\ \A s \in Reminders : state[s] # "none" => state'[s] = state[s]
  BY DEF SetPreference, Settled, IInv, TypeOK, rowVars, noteVars, historyVars
<1>3. Queued' /\ Unheard'
  BY DEF SetPreference, IInv, TypeOK, Queued, Unheard, Fresh, rowVars, queueVars,
         historyVars
<1> QED BY <1>1, <1>2, <1>3, WorldKeeps

LEMMA ReplaceOwnerKeeps ==
    ASSUME IInv, ReplaceOwner PROVE IInv'
<1>1. TypeOK'
  <2>1. Typed
    BY TypeParts DEF IInv
  <2>2. UserTyped' /\ RowTyped' /\ QueueTyped' /\ NoteTyped' /\ LocalTyped'
        /\ HistoryTyped'
    BY <2>1, PartsKept DEF ReplaceOwner, Event
  <2>3. ConnTyped'
    <3>1. conn \in Connection
      BY <2>1 DEF Typed, ConnTyped
    <3>2. conn' \in Connection
      BY <3>1, ReplacedTyped DEF ReplaceOwner
    <3> QED BY <2>1, <3>2 DEF Typed, ConnTyped, ReplaceOwner
  <2>4. EventTyped'
    BY <2>1 DEF Typed, EventTyped, ReplaceOwner, Event
  <2> QED BY <2>2, <2>3, <2>4, TypeParts DEF Typed
<1>2. /\ UNCHANGED localVars /\ UNCHANGED <<note, told, heard, missedIn>>
      /\ Settled
      /\ \A s \in Reminders : state[s] # "none" => state'[s] = state[s]
  BY DEF ReplaceOwner, Settled, IInv, TypeOK, rowVars, noteVars, historyVars
<1>3. Queued' /\ Unheard'
  BY DEF ReplaceOwner, IInv, TypeOK, Queued, Unheard, Fresh, rowVars, queueVars,
         historyVars
<1> QED BY <1>1, <1>2, <1>3, WorldKeeps

LEMMA VerifyOwnerKeeps ==
    ASSUME IInv, VerifyOwner PROVE IInv'
<1>1. TypeOK'
  <2>1. Typed
    BY TypeParts DEF IInv
  <2>2. UserTyped' /\ RowTyped' /\ QueueTyped' /\ NoteTyped' /\ LocalTyped'
        /\ HistoryTyped' /\ EventTyped'
    BY <2>1, PartsKept DEF VerifyOwner
  <2>3. ConnTyped'
    <3>1. [conn EXCEPT !.verified = TRUE] \in Connection
      BY <2>1 DEF Typed, ConnTyped, Connection
    <3> QED BY <2>1, <3>1 DEF Typed, ConnTyped, VerifyOwner
  <2> QED BY <2>2, <2>3, TypeParts DEF Typed
<1>2. /\ UNCHANGED localVars /\ UNCHANGED <<note, told, heard, missedIn>>
      /\ Settled
      /\ \A s \in Reminders : state[s] # "none" => state'[s] = state[s]
  BY DEF VerifyOwner, Settled, IInv, TypeOK, rowVars, noteVars, historyVars
<1>3. Queued' /\ Unheard'
  BY DEF VerifyOwner, IInv, TypeOK, Queued, Unheard, Fresh, rowVars, queueVars,
         historyVars
<1> QED BY <1>1, <1>2, <1>3, WorldKeeps

LEMMA ClaimAgesKeeps ==
    ASSUME IInv, NEW o \in Outages, ClaimAges(o) PROVE IInv'
<1>1. TypeOK'
  <2>1. Typed
    BY TypeParts DEF IInv
  <2>2. ConnTyped' /\ UserTyped' /\ RowTyped' /\ QueueTyped' /\ LocalTyped'
        /\ HistoryTyped' /\ EventTyped'
    BY <2>1, PartsKept DEF ClaimAges
  <2>3. NoteTyped'
    BY <2>1 DEF Typed, NoteTyped, NoteStatus, ClaimAges
  <2> QED BY <2>2, <2>3, TypeParts DEF Typed
<1>2. UNCHANGED localVars
  BY DEF ClaimAges
<1>3. \A v \in Workers : WorkOK(v)'
  BY DEF ClaimAges, IInv, WorkOK, Holding, rowVars, localVars, historyVars
<1>4. ASSUME NEW q \in Refreshers PROVE TellOK(q)'
  <2>1. TellOK(q) /\ TypeOK
    BY DEF IInv
  <2>2. Making(q) => row[q].outage # o /\ row[q].outage \in Outages
    BY <2>1 DEF ClaimAges, Making, TellOK
  <2>3. Making(q) => note'[row[q].outage] = note[row[q].outage]
    BY <2>1, <2>2 DEF ClaimAges, TypeOK
  <2> QED BY <2>1, <2>3 DEF ClaimAges, TellOK, Making, rowVars, localVars
<1>5. Distinct' /\ Queued' /\ Unheard'
  BY DEF ClaimAges, IInv, Distinct, Making, Queued, Unheard, rowVars, queueVars,
         localVars, historyVars
<1>6. Silent'
  BY DEF ClaimAges, IInv, TypeOK, Silent, Untold, Teller, Retried, rowVars,
         localVars, historyVars
<1>7. ToldOnce'
  BY DEF ClaimAges, IInv, ToldOnce, historyVars
<1> QED BY <1>1, <1>3, <1>4, <1>5, <1>6, <1>7 DEF IInv

-----------------------------------------------------------------------------
(* The workers' steps. *)

LEMMA TakeKeeps ==
    ASSUME IInv, NEW w \in Workers, NEW r \in Reminders, Take(w, r) PROVE IInv'
<1> DEFINE Runs == state[r] \in Deliverable
<1>1. /\ Typed /\ LocalTyped /\ w \in Processes /\ WorkOK(w) /\ r \in Reminders
      /\ "looking" \in Steps /\ at[w] = "idle" /\ job[w] = None
  BY TypeParts, Apart DEF IInv, Typed, Steps, Take, WorkOK, Processes
<1>2. /\ at' \in [Processes -> Steps] /\ job' \in [Workers -> Reminders \cup {None}]
      /\ \A q \in Processes : q # w => at'[q] = at[q]
      /\ \A v \in Workers : v # w => job'[v] = job[v]
      /\ IF Runs THEN at'[w] = "looking" /\ job'[w] = r
                 ELSE at'[w] = at[w] /\ job'[w] = job[w]
  <2>1. CASE Runs
    <3>1. Goes(w, "looking") /\ job' = [job EXCEPT ![w] = r]
      BY <2>1 DEF Take
    <3>2. /\ at' \in [Processes -> Steps] /\ at'[w] = "looking"
          /\ \A q \in Processes : q # w => at'[q] = at[q]
      BY <1>1, <3>1, Goings
    <3> QED BY <1>1, <2>1, <3>1, <3>2 DEF LocalTyped
  <2>2. CASE ~Runs
    BY <1>1, <2>2 DEF Take, LocalTyped
  <2> QED BY <2>1, <2>2
<1>3. Alone(w)
  BY <1>2 DEF Alone, Same, Take
<1>4. TypeOK'
  <2>1. Typed
    BY TypeParts DEF IInv
  <2>2. ConnTyped' /\ UserTyped' /\ RowTyped' /\ NoteTyped' /\ HistoryTyped'
        /\ EventTyped'
    BY <2>1, PartsKept DEF Take
  <2>3. QueueTyped'
    BY <2>1 DEF Typed, QueueTyped, Take
  <2>4. LocalTyped'
    BY <1>1, <1>2 DEF LocalTyped, Take
  <2> QED BY <2>2, <2>3, <2>4, TypeParts DEF Typed
<1>5. /\ state' = state /\ bound' = bound /\ missedIn' = missedIn
      /\ heard' = heard /\ told' = told /\ note' = note /\ queue' = queue \ {r}
      /\ state[r] # "none" /\ row' = row /\ outcome' = outcome
  BY DEF Take, IInv, Queued, rowVars, noteVars, historyVars
<1>6. Settled /\ \A v \in Workers : Untouched(v)
  BY <1>5 DEF Settled, Untouched
<1>7. WorkOK(w)'
  BY <1>1, <1>2, <1>5 DEF WorkOK, Holding
<1>8. Distinct'
  <2>1. \A v \in Workers : v # w /\ Runs => job[v] # r
    BY <1>1 DEF Take
  <2> QED BY <1>2, <1>3, <2>1, JobsDistinct DEF IInv
<1>9. Silent'
  BY <1>1, <1>3, <1>5, UntoldKept, SilentKept, Apart DEF IInv
<1>10. Queued' /\ Unheard' /\ ToldOnce'
  BY <1>5 DEF IInv, Queued, Unheard, ToldOnce
<1>11. \A q \in Refreshers : Making(q) => note'[row[q].outage] = "attempting"
  BY <1>5 DEF IInv, TellOK
<1> QED BY <1>1, <1>3, <1>4, <1>6, <1>7, <1>8, <1>9, <1>10, <1>11, Apart,
           StepKeeps

LEMMA LookKeeps ==
    ASSUME IInv, NEW w \in Workers, Look(w) PROVE IInv'
<1>1. /\ Typed /\ LocalTyped /\ w \in Processes /\ w \notin Refreshers /\ WorkOK(w)
      /\ at[w] = "looking" /\ job[w] \in Reminders
  BY WorkerFacts DEF Look
<1> DEFINE seen == [conn EXCEPT !.down = None, !.up = {}]
<1>2. /\ at' \in [Processes -> Steps] /\ row' \in [Processes -> Connection]
      /\ outcome' \in [Processes -> Outcomes \cup {None}]
      /\ \A q \in Processes : q # w => Same(q)
      /\ row'[w] = seen /\ seen.gen = conn.gen
      /\ \/ /\ at'[w] = "recording" /\ outcome'[w] # "failed"
            /\ outcome'[w] \in Outcomes
         \/ /\ at'[w] \in {"collecting", "checking"} /\ bound[job[w]] = conn.gen
  <2>1. seen \in Connection /\ seen.gen = conn.gen
    BY <1>1, AskedTyped DEF Typed, ConnTyped, Connection
  <2>2. /\ row' \in [Processes -> Connection] /\ row'[w] = seen
        /\ \A q \in Processes : q # w => row'[q] = row[q]
    <3>1. row' = [row EXCEPT ![w] = seen]
      BY DEF Look
    <3> HIDE DEF seen
    <3> QED BY <1>1, <2>1, <3>1 DEF LocalTyped
  <2>3. \/ \E how \in {"skipped_unlinked", "skipped_disabled"} :
              Says(w, "recording", how)
        \/ /\ \E s \in {"collecting", "checking"} : Goes(w, s)
           /\ outcome' = outcome /\ bound[job[w]] = conn.gen
    BY DEF Look
  <2>4. CASE \E how \in {"skipped_unlinked", "skipped_disabled"} :
               Says(w, "recording", how)
    <3>1. PICK how \in {"skipped_unlinked", "skipped_disabled"} :
              Says(w, "recording", how)
      BY <2>4
    <3>2. how \in Outcomes /\ "recording" \in Steps
      BY DEF Outcomes, Steps
    <3> QED BY <1>1, <2>1, <2>2, <3>1, <3>2, Sayings DEF Same
  <2>5. CASE /\ \E s \in {"collecting", "checking"} : Goes(w, s)
             /\ outcome' = outcome /\ bound[job[w]] = conn.gen
    <3>1. PICK s \in {"collecting", "checking"} : Goes(w, s)
      BY <2>5
    <3>2. s \in Steps
      BY DEF Steps
    <3> QED BY <1>1, <2>1, <2>2, <2>5, <3>1, <3>2, Goings DEF Same, LocalTyped
  <2> QED BY <2>3, <2>4, <2>5
<1> HIDE DEF seen
<1>3. Alone(w)
  BY <1>2 DEF Alone, Look
<1>4. TypeOK'
  <2>1. Typed
    BY TypeParts DEF IInv
  <2>2. ConnTyped' /\ UserTyped' /\ RowTyped' /\ QueueTyped' /\ NoteTyped'
        /\ HistoryTyped' /\ EventTyped'
    BY <2>1, PartsKept DEF Look
  <2>3. LocalTyped'
    BY <1>1, <1>2 DEF LocalTyped, Look
  <2> QED BY <2>2, <2>3, TypeParts DEF Typed
<1>5. /\ state' = state /\ bound' = bound /\ missedIn' = missedIn
      /\ heard' = heard /\ told' = told /\ note' = note /\ queue' = queue
      /\ job' = job
  BY DEF Look, rowVars, noteVars, queueVars, historyVars
<1>6. Settled /\ \A v \in Workers : Untouched(v)
  BY <1>5 DEF Settled, Untouched
<1>7. WorkOK(w)'
  BY <1>1, <1>2, <1>5 DEF WorkOK, Holding
<1>8. Distinct' /\ Silent'
  BY <1>1, <1>3, <1>5, JobsDistinct, UntoldKept, SilentKept DEF IInv
<1>9. Queued' /\ Unheard' /\ ToldOnce'
  BY <1>5 DEF IInv, Queued, Unheard, ToldOnce
<1> QED BY <1>1, <1>3, <1>4, <1>5, <1>6, <1>7, <1>8, <1>9, WorkerFacts, StepKeeps

LEMMA RecordMissedKeeps ==
    ASSUME IInv, NEW w \in Workers, RecordMissed(w) PROVE IInv'
<1>1. /\ Typed /\ LocalTyped /\ w \in Processes /\ w \notin Refreshers /\ WorkOK(w)
      /\ at[w] = "missing" /\ job[w] \in Reminders
  BY WorkerFacts DEF RecordMissed
<1>2. Says(w, "recording", "missed") /\ "missed" \in Outcomes /\ "recording" \in Steps
  BY DEF RecordMissed, Outcomes, Steps
<1>3. Alone(w)
  BY <1>1, <1>2, Sayings DEF Alone, Same, RecordMissed
<1>4. TypeOK'
  <2>1. Typed
    BY TypeParts DEF IInv
  <2>2. ConnTyped' /\ UserTyped' /\ QueueTyped' /\ NoteTyped' /\
        HistoryTyped' /\ EventTyped'
    BY <2>1, PartsKept DEF RecordMissed
  <2>3. RowTyped'
    <3>1. row[w].outage \in 0 .. MaxOutages
      BY WorkerFacts DEF Connection
    <3> QED BY <1>1, <2>1, <3>1 DEF Typed, RowTyped, RecordMissed
  <2>4. LocalTyped'
    BY <1>1, <1>2, Sayings DEF LocalTyped, RecordMissed
  <2> QED BY <2>2, <2>3, <2>4, TypeParts DEF Typed
<1>5. /\ state' = state /\ bound' = bound /\ heard' = heard /\ told' = told
      /\ note' = note /\ queue' = queue /\ job' = job
      /\ \A r \in Reminders : r # job[w] => missedIn'[r] = missedIn[r]
      /\ state[job[w]] = "attempting" /\ missedIn[job[w]] = 0 /\ heard[job[w]] = 0
  BY <1>1 DEF RecordMissed, WorkOK, Holding, Typed, RowTyped, noteVars, queueVars,
              historyVars
<1>6. Settled /\ \A v \in Workers : v # w => Untouched(v)
  BY <1>5, WorkerFacts DEF Settled, Untouched
<1>7. WorkOK(w)'
  <2>1. at'[w] = "recording" /\ outcome'[w] = "missed" /\ outcome'[w] \in Outcomes
    BY <1>1, <1>2, Sayings
  <2> QED BY <1>1, <1>5, <2>1 DEF WorkOK, Holding
<1>8. Distinct' /\ Silent'
  BY <1>1, <1>3, <1>5, JobsDistinct, UntoldKept, SilentKept DEF IInv
<1>9. Queued' /\ Unheard' /\ ToldOnce'
  BY <1>5 DEF IInv, Queued, Unheard, Fresh, ToldOnce
<1> QED BY <1>1, <1>3, <1>4, <1>5, <1>6, <1>7, <1>8, <1>9, WorkerFacts, StepKeeps

LEMMA SendKeeps ==
    ASSUME IInv, NEW w \in Workers, Send(w) PROVE IInv'
<1>1. /\ Typed /\ LocalTyped /\ w \in Processes /\ w \notin Refreshers /\ WorkOK(w)
      /\ at[w] = "sending" /\ job[w] \in Reminders
  BY WorkerFacts DEF Send
<1>2. /\ \E how \in {"failed", "skipped_disabled", "delivered", "unknown"} :
             /\ Says(w, "recording", how) /\ how \in Outcomes
             /\ how = "failed" => heard' = heard
      /\ heard' = heard \/ heard' = [heard EXCEPT ![job[w]] = @ + 1]
      /\ "recording" \in Steps
  BY DEF Send, Outcomes, Steps
<1>3. Alone(w)
  BY <1>1, <1>2, Sayings DEF Alone, Same, Send
<1>4. TypeOK'
  <2>1. Typed
    BY TypeParts DEF IInv
  <2>2. ConnTyped' /\ UserTyped' /\ RowTyped' /\ QueueTyped' /\ NoteTyped'
        /\ EventTyped'
    BY <2>1, PartsKept DEF Send
  <2>3. HistoryTyped'
    BY <1>1, <1>2, <2>1 DEF Typed, HistoryTyped, Send
  <2>4. LocalTyped'
    BY <1>1, <1>2, Sayings DEF LocalTyped, Send
  <2> QED BY <2>2, <2>3, <2>4, TypeParts DEF Typed
<1>5. /\ state' = state /\ bound' = bound /\ missedIn' = missedIn /\ told' = told
      /\ note' = note /\ queue' = queue /\ job' = job
      /\ state[job[w]] = "attempting" /\ missedIn[job[w]] = 0 /\ heard[job[w]] = 0
      /\ \A r \in Reminders : r # job[w] => heard'[r] = heard[r]
      /\ heard'[job[w]] <= 1
  <2>1. /\ state' = state /\ bound' = bound /\ missedIn' = missedIn /\ told' = told
        /\ note' = note /\ queue' = queue /\ job' = job
    BY DEF Send, rowVars, queueVars, noteVars
  <2>2. state[job[w]] = "attempting" /\ missedIn[job[w]] = 0 /\ heard[job[w]] = 0
    BY <1>1 DEF WorkOK, Holding
  <2>3. heard \in [Reminders -> Nat]
    BY <1>1 DEF Typed, HistoryTyped
  <2> QED BY <1>1, <1>2, <2>1, <2>2, <2>3
<1>6. Settled /\ \A v \in Workers : v # w => Untouched(v)
  BY <1>5, WorkerFacts DEF Settled, Untouched
<1>7. WorkOK(w)'
  <2>1. /\ at'[w] = "recording" /\ outcome'[w] \in Outcomes
        /\ outcome'[w] = "failed" => heard' = heard
    BY <1>1, <1>2, Sayings
  <2> QED BY <1>1, <1>5, <2>1 DEF WorkOK, Holding
<1>8. Distinct' /\ Silent'
  BY <1>1, <1>3, <1>5, JobsDistinct, UntoldKept, SilentKept DEF IInv
<1>9. Queued' /\ Unheard' /\ ToldOnce'
  BY <1>5 DEF IInv, Queued, Unheard, Fresh, ToldOnce
<1> QED BY <1>1, <1>3, <1>4, <1>5, <1>6, <1>7, <1>8, <1>9, WorkerFacts, StepKeeps

LEMMA CollectFirstKeeps ==
    ASSUME IInv, NEW w \in Workers, CollectFirst(w) PROVE IInv'
<1>1. /\ Typed /\ LocalTyped /\ w \in Processes /\ w \notin Refreshers /\ WorkOK(w)
      /\ at[w] = "collecting" /\ job[w] \in Reminders
  BY WorkerFacts DEF CollectFirst
<1> DEFINE Over == state'[job[w]] = "missed"
<1>2. /\ state' \in [Reminders -> Status] /\ astray' \subseteq Reminders
      /\ missedIn' \in [Reminders -> 0 .. MaxOutages]
      /\ \A r \in Reminders :
            \/ state'[r] = state[r] /\ missedIn'[r] = missedIn[r]
            \/ /\ state[r] \in Deliverable /\ state'[r] = "missed"
               /\ missedIn[r] = 0
  BY <1>1, Collects, WorkerFacts DEF CollectFirst
<1>3. /\ Alone(w) /\ LocalTyped'
      /\ \/ at'[w] = "idle" /\ job'[w] = None
         \/ at'[w] = "checking" /\ job'[w] = job[w] /\ row'[w] = row[w]
  <2>1. CASE Over
    <3>1. Leave(w) /\ listed' = listed
      BY <2>1 DEF CollectFirst
    <3> QED BY <1>1, <3>1, Leavings DEF Alone, Same, LocalTyped
  <2>2. CASE ~Over
    <3>1. /\ Goes(w, "checking") /\ job' = job /\ row' = row
          /\ outcome' = outcome /\ listed' = listed
      BY <2>2 DEF CollectFirst
    <3>2. /\ at' \in [Processes -> Steps] /\ at'[w] = "checking"
          /\ \A q \in Processes : q # w => at'[q] = at[q]
      BY <1>1, <3>1, Goings DEF Steps
    <3> QED BY <1>1, <3>1, <3>2 DEF Alone, Same, LocalTyped
  <2> QED BY <2>1, <2>2
<1>4. TypeOK'
  <2>1. Typed
    BY TypeParts DEF IInv
  <2>2. ConnTyped' /\ UserTyped' /\ QueueTyped' /\ NoteTyped' /\ EventTyped'
    BY <2>1, PartsKept DEF CollectFirst
  <2>3. RowTyped'
    BY <1>2, <2>1 DEF Typed, RowTyped, CollectFirst
  <2>4. HistoryTyped'
    BY <1>2, <2>1 DEF Typed, HistoryTyped, CollectFirst
  <2>5. LocalTyped'
    BY <1>3
  <2> QED BY <2>2, <2>3, <2>4, <2>5, TypeParts DEF Typed
<1>5. /\ bound' = bound /\ heard' = heard /\ told' = told /\ note' = note
      /\ queue' = queue
  BY DEF CollectFirst, noteVars, queueVars
<1>6. Settled /\ \A v \in Workers : v # w => Untouched(v)
  BY <1>2, <1>5, WorkerFacts DEF Settled, Untouched, Deliverable
<1>7. WorkOK(w)'
  <2>1. state[job[w]] # "none" /\ bound[job[w]] = row[w].gen
    BY <1>1 DEF WorkOK
  <2> QED BY <1>1, <1>3, <1>5, <1>6, <2>1 DEF WorkOK, Holding, Settled
<1>8. Distinct' /\ Silent'
  <2>1. \A r \in Reminders : missedIn'[r] = missedIn[r] \/ heard'[r] = 0
    BY <1>2, <1>5 DEF IInv, Unheard, Fresh, Deliverable
  <2> QED BY <1>1, <1>3, <1>5, <2>1, JobsDistinct, UntoldKept, SilentKept DEF IInv
<1>9. Queued' /\ Unheard' /\ ToldOnce'
  <2>1. \A r \in queue : r \in Reminders
    BY <1>1 DEF Typed, QueueTyped
  <2> QED BY <1>2, <1>5, <1>6, <2>1
          DEF IInv, Queued, Unheard, Fresh, ToldOnce, Settled, Deliverable
<1> QED BY <1>1, <1>3, <1>4, <1>5, <1>6, <1>7, <1>8, <1>9, WorkerFacts, StepKeeps

LEMMA ClaimDeliveryKeeps ==
    ASSUME IInv, NEW w \in Workers, ClaimDelivery(w) PROVE IInv'
<1>1. /\ Typed /\ LocalTyped /\ w \in Processes /\ w \notin Refreshers /\ WorkOK(w)
      /\ at[w] = "checking" /\ job[w] \in Reminders
  BY WorkerFacts DEF ClaimDelivery
<1>2. /\ Alone(w) /\ LocalTyped'
      /\ \/ at'[w] = "idle" /\ job'[w] = None /\ state' = state
         \/ /\ at'[w] = "recording" /\ job'[w] = job[w] /\ state' = state
            /\ outcome'[w] \in Outcomes \ {"failed"}
         \/ /\ at'[w] \in {"sending", "missing", "recording"}
            /\ job'[w] = job[w] /\ row'[w] = row[w]
            /\ at'[w] = "recording" => outcome'[w] \in Outcomes \ {"failed"}
            /\ state[job[w]] \in Deliverable
            /\ state' = [state EXCEPT ![job[w]] = "attempting"]
  <2>1. /\ "recording" \in Steps /\ "sending" \in Steps /\ "missing" \in Steps
        /\ "skipped_obsolete" \in Outcomes \ {"failed"}
        /\ "skipped_disconnected" \in Outcomes \ {"failed"}
    BY DEF Steps, Outcomes
  <2>2. listed' = listed
    BY DEF ClaimDelivery
  <2>3. \/ Says(w, "recording", "skipped_obsolete") /\ UNCHANGED <<state, row, job>>
        \/ Leave(w) /\ UNCHANGED state
        \/ /\ state[job[w]] \in Deliverable /\ UNCHANGED <<row, job>>
           /\ state' = [state EXCEPT ![job[w]] = "attempting"]
           /\ \/ \E s \in {"sending", "missing"} : Goes(w, s) /\ UNCHANGED outcome
              \/ Says(w, "recording", "skipped_disconnected")
    BY DEF ClaimDelivery
  <2>4. CASE Says(w, "recording", "skipped_obsolete") /\ UNCHANGED <<state, row, job>>
    BY <1>1, <2>1, <2>2, <2>4, Sayings DEF Alone, Same, LocalTyped
  <2>5. CASE Leave(w) /\ UNCHANGED state
    BY <1>1, <2>2, <2>5, Leavings DEF Alone, Same, LocalTyped
  <2>6. CASE /\ state[job[w]] \in Deliverable /\ UNCHANGED <<row, job>>
             /\ state' = [state EXCEPT ![job[w]] = "attempting"]
             /\ Says(w, "recording", "skipped_disconnected")
    BY <1>1, <2>1, <2>2, <2>6, Sayings DEF Alone, Same, LocalTyped
  <2>7. CASE /\ state[job[w]] \in Deliverable /\ UNCHANGED <<row, job>>
             /\ state' = [state EXCEPT ![job[w]] = "attempting"]
             /\ \E s \in {"sending", "missing"} : Goes(w, s) /\ UNCHANGED outcome
    <3>1. PICK s \in {"sending", "missing"} : Goes(w, s) /\ UNCHANGED outcome
      BY <2>7
    <3>2. /\ at' \in [Processes -> Steps] /\ at'[w] = s
          /\ \A q \in Processes : q # w => at'[q] = at[q]
      BY <1>1, <2>1, <3>1, Goings
    <3> QED BY <1>1, <2>2, <2>7, <3>1, <3>2 DEF Alone, Same, LocalTyped
  <2> QED BY <2>3, <2>4, <2>5, <2>6, <2>7
<1>3. /\ bound' = bound /\ heard' = heard /\ told' = told /\ note' = note
      /\ queue' = queue /\ missedIn' = missedIn
      /\ \A r \in Reminders :
             \/ state'[r] = state[r]
             \/ /\ r = job[w] /\ state[r] \in Deliverable
                /\ state'[r] = "attempting"
  <2>1. state \in [Reminders -> Status]
    BY <1>1 DEF Typed, RowTyped
  <2> QED BY <1>2, <2>1 DEF ClaimDelivery, noteVars, queueVars, historyVars
<1>4. TypeOK'
  <2>1. Typed
    BY TypeParts DEF IInv
  <2>2. ConnTyped' /\ UserTyped' /\ QueueTyped' /\ NoteTyped' /\
        HistoryTyped' /\ EventTyped'
    BY <2>1, PartsKept DEF ClaimDelivery
  <2>3. RowTyped'
    BY <1>2, <2>1 DEF Typed, RowTyped, Status, ClaimDelivery
  <2>4. LocalTyped'
    BY <1>2
  <2> QED BY <2>2, <2>3, <2>4, TypeParts DEF Typed
<1>5. Alone(w)
  BY <1>2
<1>6. Settled /\ \A v \in Workers : v # w => Untouched(v)
  BY <1>3, WorkerFacts DEF Settled, Untouched, Deliverable
<1>7. WorkOK(w)'
  <2>1. state[job[w]] # "none" /\ bound[job[w]] = row[w].gen
    BY <1>1 DEF WorkOK
  <2>2. state[job[w]] \in Deliverable => heard[job[w]] = 0 /\ missedIn[job[w]] = 0
    BY <1>1 DEF IInv, Unheard, Fresh, Deliverable
  <2>3. job'[w] = job[w] => state'[job'[w]] # "none"
    BY <1>1, <1>3, <2>1
  <2>4. state' = [state EXCEPT ![job[w]] = "attempting"] =>
            state'[job[w]] = "attempting"
    BY <1>1 DEF Typed, RowTyped
  <2> QED BY <1>1, <1>2, <1>3, <2>1, <2>2, <2>3, <2>4 DEF WorkOK, Holding
<1>8. Distinct' /\ Silent'
  BY <1>1, <1>2, <1>3, JobsDistinct, UntoldKept, SilentKept DEF IInv
<1>9. Queued' /\ Unheard' /\ ToldOnce'
  <2>1. \A r \in queue : r \in Reminders
    BY <1>1 DEF Typed, QueueTyped
  <2> QED BY <1>3, <2>1 DEF IInv, Queued, Unheard, Fresh, ToldOnce, Deliverable
<1> QED BY <1>1, <1>3, <1>4, <1>5, <1>6, <1>7, <1>8, <1>9, WorkerFacts, StepKeeps

LEMMA RecordKeeps ==
    ASSUME IInv, NEW w \in Workers, Record(w) PROVE IInv'
<1>1. /\ Typed /\ LocalTyped /\ w \in Processes /\ w \notin Refreshers /\ WorkOK(w)
      /\ at[w] = "recording" /\ job[w] \in Reminders
  BY WorkerFacts DEF Record
<1>2. /\ Leave(w) /\ state' = [state EXCEPT ![job[w]] = outcome[w]]
      /\ outcome[w] \in Outcomes
      /\ outcome[w] = "failed" => heard[job[w]] = 0 /\ missedIn[job[w]] = 0
  BY <1>1 DEF Record, WorkOK, Holding
<1>3. Alone(w)
  BY <1>1, <1>2, Leavings DEF Alone, Same, Record
<1>4. TypeOK'
  <2>1. Typed
    BY TypeParts DEF IInv
  <2>2. ConnTyped' /\ UserTyped' /\ NoteTyped' /\ EventTyped'
    BY <2>1, PartsKept DEF Record
  <2>3. RowTyped'
    BY <1>1, <1>2, <2>1 DEF Typed, RowTyped, Status, Record
  <2>4. QueueTyped'
    BY <1>1, <2>1 DEF Typed, QueueTyped, Record
  <2>5. LocalTyped'
    BY <1>1, <1>2, Leavings DEF LocalTyped, Record
  <2>6. HistoryTyped'
    <3>1. Astray({job[w]}, row[w].outage) \in SUBSET Reminders
      BY <1>1 DEF Astray
    <3> QED BY <1>1, <2>1, <3>1 DEF Typed, HistoryTyped, Record
  <2> QED BY <2>2, <2>3, <2>4, <2>5, <2>6, TypeParts DEF Typed
<1>5. /\ bound' = bound /\ missedIn' = missedIn /\ heard' = heard /\ told' = told
      /\ note' = note /\ queue' \in {queue, queue \cup {job[w]}}
      /\ \A r \in Reminders : r # job[w] => state'[r] = state[r]
      /\ state'[job[w]] = outcome[w] /\ outcome[w] # "none"
  BY <1>1, <1>2 DEF Record, Typed, RowTyped, noteVars, Outcomes
<1>6. Settled /\ \A v \in Workers : v # w => Untouched(v)
  BY <1>5, WorkerFacts DEF Settled, Untouched
<1>7. WorkOK(w)'
  BY <1>1, <1>2, Leavings DEF WorkOK, Holding
<1>8. Distinct' /\ Silent'
  <2>1. job'[w] = None
    BY <1>1, <1>2, Leavings
  <2> QED BY <1>1, <1>3, <1>5, <2>1, JobsDistinct, UntoldKept, SilentKept DEF IInv
<1>9. Queued' /\ Unheard' /\ ToldOnce'
  <2>1. \A r \in queue : r \in Reminders
    BY <1>1 DEF Typed, QueueTyped
  <2>2. Queued' /\ ToldOnce'
    BY <1>1, <1>5, <2>1 DEF IInv, Queued, ToldOnce
  <2>3. Unheard'
    BY <1>1, <1>2, <1>5 DEF IInv, Unheard, Fresh, Outcomes
  <2> QED BY <2>2, <2>3
<1> QED BY <1>1, <1>3, <1>4, <1>5, <1>6, <1>7, <1>8, <1>9, WorkerFacts, StepKeeps

LEMMA WorkerCrashesKeeps ==
    ASSUME IInv, NEW w \in Workers, WorkerCrashes(w) PROVE IInv'
<1>1. /\ Typed /\ LocalTyped /\ w \in Processes /\ w \notin Refreshers /\ WorkOK(w)
      /\ job[w] \in Reminders
  BY WorkerFacts DEF WorkerCrashes
<1>2. Leave(w)
  BY DEF WorkerCrashes
<1>3. Alone(w)
  BY <1>1, <1>2, Leavings DEF Alone, Same, WorkerCrashes
<1>4. TypeOK'
  <2>1. Typed
    BY TypeParts DEF IInv
  <2>2. ConnTyped' /\ UserTyped' /\ RowTyped' /\ NoteTyped' /\ HistoryTyped'
    BY <2>1, PartsKept DEF WorkerCrashes, Event
  <2>3. QueueTyped'
    BY <1>1, <2>1 DEF Typed, QueueTyped, WorkerCrashes
  <2>4. EventTyped'
    BY <2>1 DEF Typed, EventTyped, WorkerCrashes, Event
  <2>5. LocalTyped'
    BY <1>1, <1>2, Leavings DEF LocalTyped, WorkerCrashes
  <2> QED BY <2>2, <2>3, <2>4, <2>5, TypeParts DEF Typed
<1>5. /\ state' = state /\ bound' = bound /\ missedIn' = missedIn
      /\ heard' = heard /\ told' = told /\ note' = note
      /\ queue' \in {queue, queue \cup {job[w]}} /\ state[job[w]] # "none"
  BY <1>1 DEF WorkerCrashes, WorkOK, rowVars, noteVars, historyVars
<1>6. Settled /\ \A v \in Workers : v # w => Untouched(v)
  BY <1>5 DEF Settled, Untouched
<1>7. WorkOK(w)'
  BY <1>1, <1>2, Leavings DEF WorkOK, Holding
<1>8. Distinct' /\ Silent'
  <2>1. job'[w] = None
    BY <1>1, <1>2, Leavings
  <2> QED BY <1>1, <1>3, <1>5, <2>1, JobsDistinct, UntoldKept, SilentKept DEF IInv
<1>9. Queued' /\ Unheard' /\ ToldOnce'
  BY <1>5 DEF IInv, Queued, Unheard, ToldOnce
<1> QED BY <1>1, <1>3, <1>4, <1>5, <1>6, <1>7, <1>8, <1>9, WorkerFacts, StepKeeps

-----------------------------------------------------------------------------
(* The refreshers' steps. *)

LEMMA BeginKeeps ==
    ASSUME IInv, NEW p \in Refreshers, Begin(p) PROVE IInv'
<1>1. /\ Typed /\ LocalTyped /\ p \in Processes /\ p \notin Workers /\ TellOK(p)
      /\ conn \in Connection /\ row[p] \in Connection /\ at[p] = "idle"
  BY RefresherFacts DEF Begin
<1>2. conn' \in Connection
  BY <1>1 DEF Begin, connVars
<1>3. /\ Alone(p) /\ LocalTyped' /\ at'[p] \in {"confirming", "marking"}
  <2>1. PICK s \in {"confirming", "marking"} : Goes(p, s)
    BY DEF Begin, Asks
  <2>2. /\ at' \in [Processes -> Steps] /\ at'[p] = s
        /\ \A q \in Processes : q # p => at'[q] = at[q]
    BY <1>1, <2>1, Goings DEF Steps
  <2>3. row' = [row EXCEPT ![p] = conn']
    BY DEF Begin, connVars
  <2>4. /\ row' \in [Processes -> Connection]
        /\ \A q \in Processes : q # p => row'[q] = row[q]
    BY <1>1, <1>2, <2>3 DEF LocalTyped
  <2> QED BY <1>1, <2>1, <2>2, <2>4 DEF Alone, Same, LocalTyped, Begin
<1>4. TypeOK'
  <2>1. Typed
    BY TypeParts DEF IInv
  <2>2. ConnTyped' /\ UserTyped' /\ RowTyped' /\ QueueTyped' /\ NoteTyped'
        /\ HistoryTyped' /\ EventTyped'
    BY <2>1, PartsKept DEF Begin
  <2>3. LocalTyped'
    BY <1>3
  <2> QED BY <2>2, <2>3, TypeParts DEF Typed
<1> QED BY <1>1, <1>2, <1>3, <1>4, ReadingKeeps DEF Begin, rowVars, noteVars,
           queueVars, historyVars

LEMMA ReconnectKeeps ==
    ASSUME IInv, NEW p \in Refreshers, Reconnect(p) PROVE IInv'
<1>1. /\ Typed /\ LocalTyped /\ p \in Processes /\ p \notin Workers /\ TellOK(p)
      /\ conn \in Connection /\ row[p] \in Connection /\ at[p] = "idle"
  BY RefresherFacts DEF Reconnect
<1>2. conn' \in Connection
  <2>1. [conn EXCEPT !.online = FALSE] \in Connection
    BY <1>1 DEF Connection
  <2> QED BY <2>1 DEF Reconnect
<1>3. /\ Alone(p) /\ LocalTyped' /\ at'[p] \in {"confirming", "marking"}
  <2>1. PICK s \in {"confirming", "marking"} : Goes(p, s)
    BY DEF Reconnect, Asks
  <2>2. /\ at' \in [Processes -> Steps] /\ at'[p] = s
        /\ \A q \in Processes : q # p => at'[q] = at[q]
    BY <1>1, <2>1, Goings DEF Steps
  <2>3. row' = [row EXCEPT ![p] = conn']
    BY DEF Reconnect, connVars
  <2>4. /\ row' \in [Processes -> Connection]
        /\ \A q \in Processes : q # p => row'[q] = row[q]
    BY <1>1, <1>2, <2>3 DEF LocalTyped
  <2> QED BY <1>1, <2>1, <2>2, <2>4 DEF Alone, Same, LocalTyped, Reconnect
<1>4. TypeOK'
  <2>1. Typed
    BY TypeParts DEF IInv
  <2>2. UserTyped' /\ RowTyped' /\ QueueTyped' /\ NoteTyped' /\
        HistoryTyped'
    BY <2>1, PartsKept DEF Reconnect, Event
  <2>3. LocalTyped'
    BY <1>3
  <2>4. ConnTyped'
    BY <1>2, <2>1 DEF Typed, ConnTyped, Reconnect
  <2>5. EventTyped'
    BY <2>1 DEF Typed, EventTyped, Reconnect, Event
  <2> QED BY <2>2, <2>3, <2>4, <2>5, TypeParts DEF Typed
<1> QED BY <1>1, <1>2, <1>3, <1>4, ReadingKeeps DEF Reconnect, rowVars, noteVars,
           queueVars, historyVars

LEMMA MarkDownKeeps ==
    ASSUME IInv, NEW p \in Refreshers, MarkDown(p) PROVE IInv'
<1>1. /\ Typed /\ LocalTyped /\ p \in Processes /\ p \notin Workers /\ TellOK(p)
      /\ conn \in Connection /\ row[p] \in Connection /\ at[p] = "marking"
  BY RefresherFacts DEF MarkDown
<1>2. Rests(p)
  BY DEF MarkDown
<1>3. /\ Alone(p) /\ LocalTyped' /\ at'[p] = "idle"
  BY <1>1, <1>2, Restings DEF Alone, Same, LocalTyped, MarkDown
<1>4. TypeOK'
  <2>1. Typed
    BY TypeParts DEF IInv
  <2>2. UserTyped' /\ RowTyped' /\ QueueTyped' /\ NoteTyped' /\ EventTyped'
    BY <2>1, PartsKept DEF MarkDown
  <2>3. LocalTyped'
    BY <1>3
  <2>4. ConnTyped'
    <3>1. CASE row[p].online /\ Current(p)
      <4> DEFINE o == IF row[p].outage # 0 THEN row[p].outage ELSE opened + 1
                 d == IF row[p].down # None THEN row[p].down ELSE due
      <4>1. /\ o <= MaxOutages
            /\ opened' = IF row[p].outage # 0 THEN opened ELSE o
            /\ conn' = [conn EXCEPT !.online = FALSE, !.outage = o, !.down = d]
        BY <3>1 DEF MarkDown
      <4>2. /\ opened \in 0 .. MaxOutages /\ line \in BOOLEAN
            /\ row[p].outage \in 0 .. MaxOutages
        BY <1>1 DEF Typed, ConnTyped, Connection
      <4>3. o \in 0 .. MaxOutages /\ opened' \in 0 .. MaxOutages
        BY <4>1, <4>2
      <4>4. d \in Times \cup {None}
        BY <1>1 DEF Connection, Times, Typed, UserTyped
      <4> HIDE DEF o, d
      <4>5. /\ \A c \in Connection : [c EXCEPT !.online = FALSE] \in Connection
            /\ \A c \in Connection : [c EXCEPT !.outage = o] \in Connection
            /\ \A c \in Connection : [c EXCEPT !.down = d] \in Connection
        BY <4>3, <4>4 DEF Connection
      <4>6. conn' \in Connection
        BY <1>1, <4>1, <4>5
      <4> QED BY <4>2, <4>3, <4>6 DEF ConnTyped, MarkDown
    <3>2. CASE ~(row[p].online /\ Current(p))
      BY <1>1, <3>2 DEF Typed, ConnTyped, MarkDown
    <3> QED BY <3>1, <3>2
  <2>5. HistoryTyped'
    BY <2>1 DEF Typed, HistoryTyped, MarkDown
  <2> QED BY <2>2, <2>3, <2>4, <2>5, TypeParts DEF Typed
<1> QED BY <1>1, <1>2, <1>3, <1>4, ReadingKeeps DEF MarkDown, rowVars, noteVars,
           queueVars, historyVars

LEMMA ConfirmKeeps ==
    ASSUME IInv, NEW p \in Refreshers, Confirm(p) PROVE IInv'
<1>1. /\ Typed /\ LocalTyped /\ p \in Processes /\ p \notin Workers /\ TellOK(p)
      /\ conn \in Connection /\ row[p] \in Connection /\ at[p] = "confirming"
  BY RefresherFacts DEF Confirm
<1>2. conn' \in Connection
  <2> DEFINE u == IF conn.outage # 0 /\ conn.online THEN conn.up ELSE due
  <2>1. u \in Times
    BY <1>1 DEF Times, Connection, Typed, UserTyped
  <2>2. conn' = conn \/ conn' = [conn EXCEPT !.online = TRUE, !.up = u]
    BY DEF Confirm
  <2> HIDE DEF u
  <2>3. /\ \A c \in Connection : [c EXCEPT !.online = TRUE] \in Connection
        /\ \A c \in Connection : [c EXCEPT !.up = u] \in Connection
    BY <2>1 DEF Connection
  <2> QED BY <1>1, <2>2, <2>3
<1>3. /\ Alone(p) /\ LocalTyped'
      /\ at'[p] = "idle" \/ (at'[p] = "recovering" /\ row'[p].outage \in Outages)
  <2>1. job' = job
    BY DEF Confirm
  <2>2. \/ Rests(p)
        \/ /\ Goes(p, "recovering") /\ row' = [row EXCEPT ![p] = conn']
           /\ UNCHANGED <<outcome, listed>> /\ conn'.outage # 0
    <3>1. Current(p) => conn'.outage = conn.outage
      BY <1>1 DEF Confirm, Connection
    <3> QED BY <3>1 DEF Confirm
  <2>3. CASE Rests(p)
    BY <1>1, <2>1, <2>3, Restings DEF Alone, Same, LocalTyped
  <2>4. CASE /\ Goes(p, "recovering") /\ row' = [row EXCEPT ![p] = conn']
             /\ UNCHANGED <<outcome, listed>> /\ conn'.outage # 0
    <3>1. /\ at' \in [Processes -> Steps] /\ at'[p] = "recovering"
          /\ \A q \in Processes : q # p => at'[q] = at[q]
      BY <1>1, <2>4, Goings DEF Steps
    <3>2. /\ row' \in [Processes -> Connection] /\ row'[p] = conn'
          /\ \A q \in Processes : q # p => row'[q] = row[q]
      BY <1>1, <1>2, <2>4 DEF LocalTyped
    <3>3. conn'.outage \in Outages
      BY <1>2, <2>4 DEF Connection, Outages
    <3> QED BY <1>1, <2>1, <2>4, <3>1, <3>2, <3>3 DEF Alone, Same, LocalTyped
  <2> QED BY <2>2, <2>3, <2>4
<1>4. TypeOK'
  <2>1. Typed
    BY TypeParts DEF IInv
  <2>2. UserTyped' /\ RowTyped' /\ QueueTyped' /\ NoteTyped' /\
        HistoryTyped' /\ EventTyped'
    BY <2>1, PartsKept DEF Confirm
  <2>3. LocalTyped'
    BY <1>3
  <2>4. ConnTyped'
    BY <1>2, <2>1 DEF Typed, ConnTyped, Confirm
  <2> QED BY <2>2, <2>3, <2>4, TypeParts DEF Typed
<1> QED BY <1>1, <1>2, <1>3, <1>4, ReadingKeeps DEF Confirm, rowVars, noteVars,
           queueVars, historyVars

LEMMA CompleteRecoveryKeeps ==
    ASSUME IInv, NEW p \in Refreshers, CompleteRecovery(p) PROVE IInv'
<1>1. /\ Typed /\ LocalTyped /\ p \in Processes /\ p \notin Workers /\ TellOK(p)
      /\ conn \in Connection /\ row[p] \in Connection /\ at[p] = "completing"
  BY RefresherFacts DEF CompleteRecovery
<1>2. Rests(p)
  BY DEF CompleteRecovery
<1>3. /\ Alone(p) /\ LocalTyped' /\ at'[p] = "idle"
  BY <1>1, <1>2, Restings DEF Alone, Same, LocalTyped, CompleteRecovery
<1>4. /\ state' = state /\ bound' = bound /\ missedIn' = missedIn
      /\ UNCHANGED <<note, heard, told, queue>>
  BY DEF CompleteRecovery, noteVars, historyVars, queueVars
<1>5. TypeOK'
  <2>1. Typed
    BY TypeParts DEF IInv
  <2>2. UserTyped' /\ QueueTyped' /\ NoteTyped' /\ HistoryTyped' /\
        EventTyped'
    BY <2>1, PartsKept DEF CompleteRecovery
  <2>3. LocalTyped'
    BY <1>3
  <2>4. ConnTyped'
    <3>1. [conn EXCEPT !.outage = 0, !.down = None] \in Connection
      <4>1. 0 \in 0 .. MaxOutages
        OBVIOUS
      <4>2. /\ \A c \in Connection : [c EXCEPT !.outage = 0] \in Connection
            /\ \A c \in Connection : [c EXCEPT !.down = None] \in Connection
        BY <4>1 DEF Connection
      <4> QED BY <1>1, <4>2
    <3> QED BY <2>1, <3>1 DEF Typed, ConnTyped, CompleteRecovery
  <2>5. RowTyped'
    <3>1. listed[p] \subseteq Reminders
      BY RefresherFacts
    <3> QED BY <2>1, <3>1 DEF Typed, RowTyped, CompleteRecovery
  <2> QED BY <2>2, <2>3, <2>4, <2>5, TypeParts DEF Typed
<1> QED BY <1>1, <1>3, <1>4, <1>5, ReadingKeeps

LEMMA RefresherCrashesKeeps ==
    ASSUME IInv, NEW p \in Refreshers, RefresherCrashes(p) PROVE IInv'
<1>1. Typed /\ LocalTyped /\ p \in Processes /\ p \notin Workers
  BY RefresherFacts
<1>2. Rests(p)
  BY DEF RefresherCrashes
<1>3. /\ Alone(p) /\ LocalTyped' /\ at'[p] = "idle"
  BY <1>1, <1>2, Restings DEF Alone, Same, LocalTyped, RefresherCrashes
<1>4. TypeOK'
  <2>1. Typed
    BY TypeParts DEF IInv
  <2>2. ConnTyped' /\ UserTyped' /\ RowTyped' /\ QueueTyped' /\ NoteTyped'
        /\ HistoryTyped'
    BY <2>1, PartsKept DEF RefresherCrashes, Event
  <2>3. LocalTyped'
    BY <1>3
  <2>4. EventTyped'
    BY <2>1 DEF Typed, EventTyped, RefresherCrashes, Event
  <2> QED BY <2>2, <2>3, <2>4, TypeParts DEF Typed
<1> QED BY <1>1, <1>2, <1>3, <1>4, ReadingKeeps DEF RefresherCrashes, rowVars, noteVars,
           queueVars, historyVars

LEMMA RecoverKeeps ==
    ASSUME IInv, NEW p \in Refreshers, Recover(p) PROVE IInv'
<1>1. /\ Typed /\ LocalTyped /\ p \in Processes /\ p \notin Workers /\ TellOK(p)
      /\ conn \in Connection /\ row[p] \in Connection /\ at[p] = "recovering"
  BY RefresherFacts DEF Recover
<1>2. /\ bound' = bound /\ heard' = heard /\ told' = told /\ note' = note
      /\ queue' = queue /\ row' = row /\ outcome' = outcome /\ job' = job
      /\ state' \in [Reminders -> Status] /\ astray' \subseteq Reminders
      /\ missedIn' \in [Reminders -> 0 .. MaxOutages]
      /\ \A r \in Reminders :
            \/ state'[r] = state[r] /\ missedIn'[r] = missedIn[r]
            \/ /\ state[r] \in Deliverable /\ state'[r] = "missed"
               /\ missedIn[r] = 0
  <2>1. CASE Collect(p)
    BY <1>1, <2>1, Collects DEF Recover, noteVars, queueVars
  <2>2. CASE ~enabled /\ UNCHANGED <<state, missedIn>>
    <3>1. astray' \subseteq Reminders
      BY <1>1, <2>1, <2>2, Collects DEF Recover, Typed, HistoryTyped
    <3> QED BY <1>1, <2>2, <3>1 DEF Recover, Typed, RowTyped, noteVars, queueVars
  <2> QED BY <2>1, <2>2 DEF Recover
<1>3. /\ Alone(p) /\ LocalTyped'
      /\ \/ at'[p] = "completing"
         \/ /\ at'[p] = "claiming"
            /\ \A r \in listed'[p] : state'[r] = "missed" /\ bound[r] = row[p].gen
  <2>1. \/ Goes(p, "claiming") /\ listed' = [listed EXCEPT
                                              ![p] = Wanted(p, state', missedIn')]
        \/ Goes(p, "completing") /\ listed' = listed
    BY DEF Recover
  <2>2. CASE Goes(p, "claiming") /\ listed' = [listed EXCEPT
                                              ![p] = Wanted(p, state', missedIn')]
    <3>1. /\ at' \in [Processes -> Steps] /\ at'[p] = "claiming"
          /\ \A q \in Processes : q # p => at'[q] = at[q]
      BY <1>1, <2>2, Goings DEF Steps
    <3>2. /\ Wanted(p, state', missedIn') \subseteq Reminders
          /\ \A r \in Wanted(p, state', missedIn') :
                 state'[r] = "missed" /\ bound[r] = row[p].gen
      BY <1>1 DEF Wanted, Typed, UserTyped
    <3>3. /\ listed' \in [Refreshers -> SUBSET Reminders]
          /\ listed'[p] = Wanted(p, state', missedIn')
          /\ \A q \in Refreshers : q # p => listed'[q] = listed[q]
      BY <1>1, <2>2, <3>2 DEF LocalTyped
    <3> QED BY <1>1, <1>2, <3>1, <3>2, <3>3 DEF Alone, Same, LocalTyped
  <2>3. CASE Goes(p, "completing") /\ listed' = listed
    <3>1. /\ at' \in [Processes -> Steps] /\ at'[p] = "completing"
          /\ \A q \in Processes : q # p => at'[q] = at[q]
      BY <1>1, <2>3, Goings DEF Steps
    <3> QED BY <1>1, <1>2, <2>3, <3>1 DEF Alone, Same, LocalTyped
  <2> QED BY <2>1, <2>2, <2>3
<1>4. TypeOK'
  <2>1. Typed
    BY TypeParts DEF IInv
  <2>2. ConnTyped' /\ UserTyped' /\ QueueTyped' /\ NoteTyped' /\ EventTyped'
    BY <2>1, PartsKept DEF Recover
  <2>3. RowTyped'
    BY <1>2, <2>1 DEF Typed, RowTyped, Recover
  <2>4. HistoryTyped'
    BY <1>2, <2>1 DEF Typed, HistoryTyped
  <2>5. LocalTyped'
    BY <1>3
  <2> QED BY <2>2, <2>3, <2>4, <2>5, TypeParts DEF Typed
<1>5. Settled /\ \A v \in Workers : Untouched(v)
  BY <1>2, RefresherFacts DEF Settled, Untouched, Deliverable
<1>6. TellOK(p)' /\ ~Making(p)' /\ \A o \in Outages : ~Teller(p, o)'
  <2>1. row[p].outage \in Outages
    BY <1>1 DEF TellOK
  <2> QED BY <1>2, <1>3, <2>1 DEF TellOK, Making, Teller
<1>7. Distinct'
  BY <1>3, <1>6, SummariesDistinct DEF IInv
<1>8. Silent'
  <2>1. \A r \in Reminders : missedIn'[r] = missedIn[r] \/ heard'[r] = 0
    BY <1>2 DEF IInv, Unheard, Fresh, Deliverable
  <2>2. \A o \in Outages : Untold(o)' => Untold(o)
    BY <1>1, <1>2, <1>3, <1>6, UntoldKept
  <2> QED BY <1>2, <2>1, <2>2, SilentKept DEF IInv
<1>9. Queued' /\ Unheard' /\ ToldOnce'
  <2>1. \A r \in queue : r \in Reminders
    BY <1>1 DEF Typed, QueueTyped
  <2> QED BY <1>2, <1>5, <2>1
          DEF IInv, Queued, Unheard, Fresh, ToldOnce, Settled, Deliverable
<1>10. \A q \in Refreshers : Making(q) => note'[row[q].outage] = "attempting"
  BY <1>2, RefresherFacts
<1> QED BY <1>1, <1>3, <1>4, <1>5, <1>6, <1>7, <1>8, <1>9, <1>10, StepKeeps

LEMMA ClaimSummaryKeeps ==
    ASSUME IInv, NEW p \in Refreshers, ClaimSummary(p) PROVE IInv'
<1>1. /\ Typed /\ LocalTyped /\ p \in Processes /\ p \notin Workers /\ TellOK(p)
      /\ conn \in Connection /\ row[p] \in Connection /\ at[p] = "claiming"
  BY RefresherFacts DEF ClaimSummary
<1> DEFINE o == row[p].outage
<1>2. /\ o \in Outages /\ listed[p] \subseteq Reminders
      /\ \A r \in listed[p] : state[r] # "none" /\ bound[r] = row[p].gen
  BY <1>1, RefresherFacts DEF TellOK
<1> HIDE DEF o
<1>3. /\ state' = state /\ bound' = bound /\ missedIn' = missedIn
      /\ queue' = queue /\ heard' = heard /\ told' = told /\ job' = job
  BY DEF ClaimSummary, rowVars, queueVars, historyVars
<1>4. /\ Alone(p) /\ LocalTyped'
      /\ \/ at'[p] = "idle" /\ UNCHANGED noteVars
         \/ /\ at'[p] = "completing" /\ UNCHANGED <<covers, noteTries>>
            /\ note[o] # "attempting"
            /\ \E s \in NoteStatus \ {"none", "failed", "attempting"} :
                   note' \in {note, [note EXCEPT ![o] = s]}
         \/ /\ at'[p] = "telling" /\ row' = row /\ listed' = listed
            /\ note[o] \in Retried /\ note' = [note EXCEPT ![o] = "attempting"]
            /\ covers' = [covers EXCEPT ![o] = listed[p]]
            /\ noteTries' = [noteTries EXCEPT ![o] = @ + 1]
            /\ \A r \in listed[p] : missedIn[r] = o
  <2>1. CASE Rests(p) /\ UNCHANGED noteVars
    BY <1>1, <1>3, <2>1, Restings DEF Alone, Same, LocalTyped
  <2>2. CASE /\ note[o] \in Final /\ Goes(p, "completing")
             /\ note' = [note EXCEPT ![o] = IF @ = "stale" THEN "unknown" ELSE @]
             /\ listed' = [listed EXCEPT ![p] = covers[o]]
             /\ UNCHANGED <<covers, noteTries, row, outcome>>
    <3>1. /\ at' \in [Processes -> Steps] /\ at'[p] = "completing"
          /\ \A q \in Processes : q # p => at'[q] = at[q]
      BY <1>1, <2>2, Goings DEF Steps
    <3>2. /\ listed' \in [Refreshers -> SUBSET Reminders]
          /\ \A q \in Refreshers : q # p => listed'[q] = listed[q]
      BY <1>1, <1>2, <2>2 DEF LocalTyped, Typed, NoteTyped
    <3>3. note[o] \in NoteStatus \ {"none", "failed", "attempting"}
      BY <2>2 DEF Final, Retried
    <3>4. "unknown" \in NoteStatus \ {"none", "failed", "attempting"}
      BY DEF NoteStatus
    <3> QED BY <1>1, <1>3, <2>2, <3>1, <3>2, <3>3, <3>4 DEF Alone, Same, LocalTyped
  <2>3. CASE /\ note[o] \in Retried /\ Goes(p, "completing")
             /\ note' = [note EXCEPT ![o] = IF @ = "failed"
                                            THEN "skipped_obsolete" ELSE @]
             /\ UNCHANGED <<covers, noteTries, row, outcome, listed>>
    <3>1. /\ at' \in [Processes -> Steps] /\ at'[p] = "completing"
          /\ \A q \in Processes : q # p => at'[q] = at[q]
      BY <1>1, <2>3, Goings DEF Steps
    <3>2. /\ "skipped_obsolete" \in NoteStatus \ {"none", "failed", "attempting"}
          /\ note[o] # "attempting"
      BY <2>3 DEF NoteStatus, Retried
    <3>3. note' \in {note, [note EXCEPT ![o] = "skipped_obsolete"]}
      <4>1. note \in [Outages -> NoteStatus]
        BY <1>1 DEF Typed, NoteTyped
      <4>2. CASE note[o] = "failed"
        BY <2>3, <4>2
      <4>3. CASE note[o] # "failed"
        BY <2>3, <4>1, <4>3
      <4> QED BY <4>2, <4>3
    <3> QED BY <1>1, <1>3, <2>3, <3>1, <3>2, <3>3 DEF Alone, Same, LocalTyped
  <2>4. CASE /\ note[o] \in Retried /\ Goes(p, "telling")
             /\ note' = [note EXCEPT ![o] = "attempting"]
             /\ covers' = [covers EXCEPT ![o] = listed[p]]
             /\ noteTries' = [noteTries EXCEPT ![o] = @ + 1]
             /\ \A r \in listed[p] : missedIn[r] = o
             /\ UNCHANGED <<row, outcome, listed>>
    <3>1. /\ at' \in [Processes -> Steps] /\ at'[p] = "telling"
          /\ \A q \in Processes : q # p => at'[q] = at[q]
      BY <1>1, <2>4, Goings DEF Steps
    <3> QED BY <1>1, <1>3, <2>4, <3>1 DEF Alone, Same, LocalTyped
  <2> QED BY <2>1, <2>2, <2>3, <2>4 DEF ClaimSummary, o
<1>5. TypeOK'
  <2>1. Typed
    BY TypeParts DEF IInv
  <2>2. ConnTyped' /\ UserTyped' /\ RowTyped' /\ QueueTyped' /\
        HistoryTyped' /\ EventTyped'
    BY <2>1, PartsKept DEF ClaimSummary
  <2>3. NoteTyped'
    <3>1. /\ note \in [Outages -> NoteStatus] /\ noteTries \in [Outages -> Nat]
          /\ covers \in [Outages -> SUBSET Reminders] /\ "attempting" \in NoteStatus
      BY <1>1 DEF Typed, NoteTyped, NoteStatus
    <3> QED BY <1>2, <1>4, <3>1 DEF NoteTyped, noteVars
  <2>4. LocalTyped'
    BY <1>4
  <2> QED BY <2>2, <2>3, <2>4, TypeParts DEF Typed
<1>6. /\ Settled /\ \A v \in Workers : Untouched(v)
      /\ Queued' /\ Unheard' /\ ToldOnce'
  BY <1>3 DEF Settled, Untouched, IInv, Queued, Unheard, ToldOnce
<1>7. /\ note \in [Outages -> NoteStatus]
      /\ \A u \in Outages : u # o => note'[u] = note[u]
      /\ note'[o] \in Retried => note[o] \in Retried
      /\ note[o] # "attempting" \/ note' = note
  BY <1>1, <1>2, <1>4 DEF Typed, NoteTyped, Retried, noteVars
<1>8. \A q \in Refreshers : Making(q) => note'[row[q].outage] = "attempting"
  BY <1>7, RefresherFacts
<1>9. /\ TellOK(p)' /\ Distinct'
      /\ \A u \in Outages : Teller(p, u)' => u = o /\ note[o] \in Retried
  <2>1. CASE at'[p] \in {"idle", "completing"}
    <3>1. /\ TellOK(p)' /\ ~Making(p)'
          /\ \A u \in Outages : ~Teller(p, u)'
      BY <2>1 DEF TellOK, Making, Teller
    <3> QED BY <1>4, <3>1, SummariesDistinct DEF IInv
  <2>2. CASE /\ at'[p] = "telling" /\ row' = row /\ listed' = listed
             /\ note[o] \in Retried /\ note' = [note EXCEPT ![o] = "attempting"]
             /\ \A r \in listed[p] : missedIn[r] = o
    <3>1. TellOK(p)'
      BY <1>2, <1>3, <1>7, <2>2 DEF TellOK, Making, o
    <3>2. \A q \in Refreshers : Making(q) => row[q].outage # row'[p].outage
      BY <2>2, RefresherFacts DEF Retried, o
    <3> QED BY <1>4, <2>2, <3>1, <3>2, SummariesDistinct DEF IInv, Teller, o
  <2> QED BY <1>4, <2>1, <2>2
<1>10. Silent'
  <2>1. ASSUME NEW u \in Outages, Untold(u)' PROVE Untold(u)
    <3>1. note'[u] \in Retried => note[u] \in Retried
      BY <1>7
    <3>2. \A q \in Refreshers : q # p => Teller(q, u)' = Teller(q, u)
      BY <1>4 DEF Alone, Same, Teller, Processes
    <3> QED BY <1>9, <2>1, <3>1, <3>2 DEF Untold
  <2> QED BY <1>3, <2>1, SilentKept DEF IInv
<1> QED BY <1>1, <1>4, <1>5, <1>6, <1>8, <1>9, <1>10, StepKeeps

LEMMA TellKeeps ==
    ASSUME IInv, NEW p \in Refreshers, Tell(p) PROVE IInv'
<1>1. /\ Typed /\ LocalTyped /\ p \in Processes /\ p \notin Workers /\ TellOK(p)
      /\ conn \in Connection /\ row[p] \in Connection /\ at[p] = "telling"
  BY RefresherFacts DEF Tell
<1> DEFINE o == row[p].outage
<1>2. /\ o \in Outages /\ note[o] = "attempting" /\ listed[p] \subseteq Reminders
      /\ told[o] = 0
      /\ \A r \in listed[p] : missedIn[r] = o /\ heard[r] = 0
  <2>1. /\ o \in Outages /\ note[o] = "attempting" /\ listed[p] \subseteq Reminders
        /\ \A r \in listed[p] : missedIn[r] = o
    BY <1>1, RefresherFacts DEF TellOK, Making
  <2>2. Untold(o)
    BY <1>1 DEF Untold, Teller
  <2> QED BY <2>1, <2>2 DEF IInv, Silent
<1> HIDE DEF o
<1>3. /\ state' = state /\ bound' = bound /\ missedIn' = missedIn /\ note' = note
      /\ queue' = queue /\ job' = job /\ row' = row /\ listed' = listed
  BY DEF Tell, rowVars, noteVars, queueVars
<1>4. /\ \E how \in {"failed", "skipped_disabled", "delivered", "unknown"} :
             /\ Says(p, "recording", how) /\ how \in Outcomes \cap NoteStatus
             /\ how = "failed" => heard' = heard /\ told' = told
      /\ \/ heard' = heard /\ told' = told
         \/ /\ heard' = [r \in Reminders |-> IF r \in listed[p] THEN heard[r] + 1
                                             ELSE heard[r]]
            /\ told' = [told EXCEPT ![o] = @ + 1]
      /\ "recording" \in Steps
  BY DEF Tell, Outcomes, NoteStatus, Steps, o
<1>5. /\ Alone(p) /\ LocalTyped' /\ at'[p] = "recording"
      /\ outcome'[p] \in Outcomes \cap NoteStatus
      /\ outcome'[p] = "failed" => heard' = heard /\ told' = told
  BY <1>1, <1>3, <1>4, Sayings DEF Alone, Same, LocalTyped
<1>6. TypeOK'
  <2>1. Typed
    BY TypeParts DEF IInv
  <2>2. ConnTyped' /\ UserTyped' /\ RowTyped' /\ QueueTyped' /\ NoteTyped'
        /\ EventTyped'
    BY <2>1, PartsKept DEF Tell
  <2>3. HistoryTyped'
    BY <1>2, <1>4, <2>1 DEF Typed, HistoryTyped, Tell
  <2>4. LocalTyped'
    BY <1>5
  <2> QED BY <2>2, <2>3, <2>4, TypeParts DEF Typed
<1>7. /\ heard \in [Reminders -> Nat] /\ told \in [Outages -> Nat]
      /\ \A r \in Reminders : missedIn[r] # o => heard'[r] = heard[r]
      /\ \A r \in Reminders : heard'[r] = heard[r] \/ heard'[r] = 1
      /\ \A u \in Outages : u # o => told'[u] = told[u]
      /\ told'[o] <= 1
  <2>1. heard \in [Reminders -> Nat] /\ told \in [Outages -> Nat]
    BY <1>1 DEF Typed, HistoryTyped
  <2> QED BY <1>2, <1>4, <2>1
<1>8. /\ Settled /\ \A v \in Workers : Untouched(v)
      /\ Queued' /\ Unheard' /\ ToldOnce'
  <2>1. \A v \in Workers : Untouched(v)
    BY <1>2, <1>3, <1>7, RefresherFacts DEF Untouched, Outages
  <2>2. Unheard'
    BY <1>2, <1>3, <1>7 DEF IInv, Unheard, Fresh, Outages
  <2>3. ToldOnce'
    BY <1>7 DEF IInv, ToldOnce
  <2> QED BY <1>3, <2>1, <2>2, <2>3 DEF Settled, IInv, Queued
<1>9. TellOK(p)'
  BY <1>1, <1>2, <1>3, <1>5 DEF TellOK, Making, o
<1>10. Distinct'
  BY <1>1, <1>3, <1>5, SummariesDistinct DEF IInv, Making
<1>11. Silent'
  <2>1. CASE outcome'[p] = "failed"
    <3>1. \A u \in Outages : Teller(p, u)' => Untold(u)
      BY <1>1, <1>3 DEF Teller, Untold
    <3>2. \A u \in Outages : Untold(u)' => Untold(u)
      BY <1>1, <1>3, <1>5, <3>1, UntoldKept
    <3> QED BY <1>3, <1>5, <2>1, <3>2, SilentKept DEF IInv
  <2>2. CASE outcome'[p] # "failed"
    <3>1. \A u \in Outages : ~Teller(p, u)'
      BY <1>5, <2>2 DEF Teller
    <3>2. \A u \in Outages : Untold(u)' => Untold(u)
      BY <1>1, <1>3, <1>5, <3>1, UntoldKept
    <3>3. ASSUME NEW u \in Outages, u = o, NEW q \in Refreshers, q # p
          PROVE  ~Teller(q, u)'
      <4>1. Teller(q, u)' = Teller(q, u)
        BY <1>5, <3>3 DEF Alone, Same, Teller, Processes
      <4>2. Making(q) => row[q].outage # u
        BY <1>1, <3>3, RefresherFacts DEF Making, o
      <4> QED BY <4>1, <4>2 DEF Teller, Making
    <3>4. \A u \in Outages : u = o => ~Untold(u)'
      BY <1>2, <1>3, <3>1, <3>3 DEF Untold, Retried
    <3>5. ASSUME NEW u \in Outages, Untold(u)'
          PROVE  /\ told'[u] = 0
                 /\ \A r \in Reminders : missedIn'[r] = u => heard'[r] = 0
      <4>1. u # o /\ Untold(u)
        BY <3>2, <3>4, <3>5
      <4> QED BY <1>3, <1>7, <4>1 DEF IInv, Silent
    <3> QED BY <3>5 DEF Silent
  <2> QED BY <2>1, <2>2
<1>12. \A q \in Refreshers : Making(q) => note'[row[q].outage] = "attempting"
  BY <1>3, RefresherFacts
<1> QED BY <1>1, <1>5, <1>6, <1>8, <1>9, <1>10, <1>11, <1>12, StepKeeps

LEMMA RecordSummaryKeeps ==
    ASSUME IInv, NEW p \in Refreshers, RecordSummary(p) PROVE IInv'
<1>1. /\ Typed /\ LocalTyped /\ p \in Processes /\ p \notin Workers /\ TellOK(p)
      /\ conn \in Connection /\ row[p] \in Connection /\ at[p] = "recording"
  BY RefresherFacts DEF RecordSummary
<1> DEFINE o == row[p].outage
<1>2. /\ o \in Outages /\ outcome[p] \in NoteStatus \cap Outcomes
      /\ note' = [note EXCEPT ![o] = outcome[p]]
  BY <1>1 DEF TellOK, RecordSummary
<1>3. /\ state' = state /\ bound' = bound /\ missedIn' = missedIn
      /\ queue' = queue /\ heard' = heard /\ told' = told /\ job' = job
  BY DEF RecordSummary, rowVars, queueVars, historyVars
<1>4. Alone(p) /\ LocalTyped' /\ at'[p] \in {"idle", "completing"}
  <2>1. CASE Rests(p)
    BY <1>1, <1>3, <2>1, Restings DEF Alone, Same, LocalTyped
  <2>2. CASE /\ Goes(p, "completing") /\ outcome' = [outcome EXCEPT ![p] = None]
             /\ UNCHANGED <<row, listed>>
    <3>1. /\ at' \in [Processes -> Steps] /\ at'[p] = "completing"
          /\ \A q \in Processes : q # p => at'[q] = at[q]
      BY <1>1, <2>2, Goings DEF Steps
    <3> QED BY <1>1, <1>3, <2>2, <3>1 DEF Alone, Same, LocalTyped
  <2> QED BY <2>1, <2>2 DEF RecordSummary
<1>5. TypeOK'
  <2>1. Typed
    BY TypeParts DEF IInv
  <2>2. ConnTyped' /\ UserTyped' /\ RowTyped' /\ QueueTyped' /\
        HistoryTyped' /\ EventTyped'
    BY <2>1, PartsKept DEF RecordSummary
  <2>3. NoteTyped'
    BY <1>2, <2>1 DEF Typed, NoteTyped, RecordSummary
  <2>4. LocalTyped'
    BY <1>4
  <2> QED BY <2>2, <2>3, <2>4, TypeParts DEF Typed
<1>6. /\ Settled /\ \A v \in Workers : Untouched(v)
      /\ Queued' /\ Unheard' /\ ToldOnce'
  BY <1>3 DEF Settled, Untouched, IInv, Queued, Unheard, ToldOnce
<1>7. note \in [Outages -> NoteStatus]
  BY <1>1 DEF Typed, NoteTyped
<1>8. \A q \in Refreshers : q # p /\ Making(q) =>
          note'[row[q].outage] = "attempting"
  <2>1. Making(p)
    BY <1>1 DEF Making
  <2> QED BY <1>2, <1>7, <2>1, RefresherFacts
<1>9. /\ TellOK(p)' /\ ~Making(p)' /\ \A u \in Outages : ~Teller(p, u)'
  BY <1>4 DEF TellOK, Making, Teller
<1>10. Distinct'
  BY <1>4, <1>9, SummariesDistinct DEF IInv
<1>11. Silent'
  <2>1. ASSUME NEW u \in Outages, Untold(u)' PROVE Untold(u)
    <3>1. note'[u] \in Retried => Untold(u)
      BY <1>1, <1>2, <1>7 DEF Untold, Teller, Retried, Outcomes
    <3>2. \A q \in Refreshers : q # p => Teller(q, u)' = Teller(q, u)
      BY <1>4 DEF Alone, Same, Teller, Processes
    <3> QED BY <1>9, <2>1, <3>1, <3>2 DEF Untold
  <2> QED BY <1>3, <2>1, SilentKept DEF IInv
<1> QED BY <1>1, <1>4, <1>5, <1>6, <1>8, <1>9, <1>10, <1>11, StepKeeps

-----------------------------------------------------------------------------
(* The theorems. *)

LEMMA InitIInv == Init => IInv
<1> SUFFICES ASSUME Init PROVE IInv
  OBVIOUS
<1>1. TypeOK
  <2>1. ConnTyped /\ UserTyped
    BY PairedTyped DEF Init, ConnTyped, UserTyped
  <2>2. RowTyped /\ QueueTyped
    BY DEF Init, RowTyped, QueueTyped, Status
  <2>3. NoteTyped /\ HistoryTyped /\ EventTyped
    BY DEF Init, NoteTyped, HistoryTyped, EventTyped, NoteStatus
  <2>4. LocalTyped
    BY PairedTyped DEF Init, LocalTyped, Steps
  <2> QED BY <2>1, <2>2, <2>3, <2>4, TypeParts DEF Typed
<1>2. \A q \in Processes : at[q] = "idle"
  BY DEF Init
<1>3. \A w \in Workers : WorkOK(w)
  BY <1>2, Apart DEF Init, WorkOK, Holding, Processes
<1>4. \A p \in Refreshers : TellOK(p) /\ ~Making(p) /\ \A o \in Outages : ~Teller(p, o)
  BY <1>2 DEF TellOK, Making, Teller, Processes
<1>5. Distinct /\ Queued
  BY <1>4 DEF Init, Distinct, Queued
<1>6. Unheard /\ Silent /\ ToldOnce
  BY DEF Init, Unheard, Silent, ToldOnce
<1> QED BY <1>1, <1>3, <1>4, <1>5, <1>6 DEF IInv

LEMMA StutterKeeps == ASSUME IInv, UNCHANGED vars PROVE IInv'
<1>1. TypeOK'
  <2>1. Typed
    BY TypeParts DEF IInv
  <2> QED BY <2>1, PartsKept, TypeParts DEF Typed, vars
<1>2. UNCHANGED localVars /\ UNCHANGED <<note, told, heard, missedIn>>
  BY DEF vars, noteVars, historyVars, rowVars
<1>3. Settled /\ \A r \in Reminders : state[r] # "none" => state'[r] = state[r]
  BY DEF Settled, vars, rowVars
<1>4. Queued' /\ Unheard'
  BY DEF IInv, Queued, Unheard, vars, rowVars, queueVars, historyVars
<1> QED BY <1>1, <1>2, <1>3, <1>4, WorldKeeps

LEMMA NextKeeps == ASSUME IInv, [Next]_vars PROVE IInv'
<1>1. CASE World
  <2>1. CASE LineDrops \/ LineReturns \/ SetPreference \/ ReplaceOwner \/ VerifyOwner
    BY <2>1, LineDropsKeeps, LineReturnsKeeps, SetPreferenceKeeps,
       ReplaceOwnerKeeps, VerifyOwnerKeeps
  <2>2. CASE \E r \in Reminders : FallsDue(r) \/ CreateDelivery(r) \/ Cancel(r)
    BY <2>2, FallsDueKeeps, CreateDeliveryKeeps, CancelKeeps
  <2>3. CASE \E p \in Refreshers : Reconnect(p) \/ RefresherCrashes(p)
    BY <2>3, ReconnectKeeps, RefresherCrashesKeeps
  <2>4. CASE \E w \in Workers : WorkerCrashes(w)
    BY <2>4, WorkerCrashesKeeps
  <2> QED BY <1>1, <2>1, <2>2, <2>3, <2>4 DEF World
<1>2. ASSUME NEW w \in Workers, Deliver(w) PROVE IInv'
  BY <1>2, TakeKeeps, LookKeeps, CollectFirstKeeps, ClaimDeliveryKeeps,
     RecordMissedKeeps, SendKeeps, RecordKeeps DEF Deliver
<1>3. ASSUME NEW p \in Refreshers, Refresh(p) PROVE IInv'
  BY <1>3, BeginKeeps, MarkDownKeeps, ConfirmKeeps, RecoverKeeps,
     ClaimSummaryKeeps, TellKeeps, RecordSummaryKeeps, CompleteRecoveryKeeps
     DEF Refresh
<1>4. CASE \E o \in Outages : ClaimAges(o)
  BY <1>4, ClaimAgesKeeps
<1>5. CASE UNCHANGED vars
  BY <1>5, StutterKeeps
<1> QED BY <1>1, <1>2, <1>3, <1>4, <1>5 DEF Next

\* The inductive invariant of deliveries and recoveries: what is claimed, by
\* whom, for which owner, and what has certainly not been said yet.
THEOREM Invariant == Spec => []IInv
<1>1. Init => IInv
  BY InitIInv
<1>2. IInv /\ [Next]_vars => IInv'
  BY NextKeeps
<1> QED BY <1>1, <1>2, PTL DEF Spec

\* Every row, job and process of the deliveries keeps its type.
THEOREM ReminderTypes == Spec => []TypeOK
<1>1. IInv => TypeOK
  BY DEF IInv
<1> QED BY <1>1, Invariant, PTL

\* No reminder is told twice, alone or in a summary, and no outage is summarized
\* twice (deliverNotification, recover and their claims).
THEOREM RemindersAreToldOnce == Spec => []ToldOnce
<1>1. IInv => ToldOnce
  BY DEF IInv
<1> QED BY <1>1, Invariant, PTL

LEMMA OnlyTheOwner ==
    ASSUME IInv, Next, NEW r \in Reminders, heard'[r] # heard[r]
    PROVE  conn.verified /\ bound[r] = conn.gen
<1>1. heard \in [Reminders -> Nat]
  BY DEF IInv, TypeOK
<1>2. \/ \E w \in Workers : Send(w)
      \/ \E p \in Refreshers : Tell(p)
  BY DEF Next, World, Deliver, Refresh, LineDrops, LineReturns, SetPreference,
         ReplaceOwner, VerifyOwner, FallsDue, CreateDelivery, Cancel, Reconnect,
         RefresherCrashes, WorkerCrashes, Take, Look, CollectFirst, ClaimDelivery, RecordMissed,
         Record, Begin, MarkDown, Confirm, Recover, ClaimSummary, RecordSummary,
         CompleteRecovery, ClaimAges, historyVars
<1>3. ASSUME NEW w \in Workers, Send(w)
      PROVE  conn.verified /\ bound[r] = conn.gen
  <2>1. CanSend(w) /\ heard' = [heard EXCEPT ![job[w]] = @ + 1]
    BY <1>3 DEF Send
  <2>2. r = job[w]
    BY <1>1, <2>1
  <2>3. bound[job[w]] = row[w].gen
    BY <1>3 DEF Send, IInv, WorkOK
  <2> QED BY <2>1, <2>2, <2>3 DEF CanSend, Current
<1>4. ASSUME NEW p \in Refreshers, Tell(p)
      PROVE  conn.verified /\ bound[r] = conn.gen
  <2>1. /\ CanSend(p)
        /\ heard' = [s \in Reminders |-> IF s \in listed[p] THEN heard[s] + 1
                                         ELSE heard[s]]
    BY <1>4 DEF Tell
  <2>2. r \in listed[p]
    BY <1>1, <2>1
  <2>3. bound[r] = row[p].gen
    BY <1>4, <2>2 DEF Tell, IInv, TellOK
  <2> QED BY <2>1, <2>3 DEF CanSend, Current
<1> QED BY <1>2, <1>3, <1>4

\* What is sent, alone or in a summary, goes to the owner that the reminder was
\* bound to when it fell due (deliverPinned, deliveryScope).
THEOREM OwnersAreKept == Spec => SameOwner
<1>1. IInv /\ [Next]_vars =>
          [\A r \in Reminders : heard'[r] # heard[r] =>
               conn.verified /\ bound[r] = conn.gen]_vars
  BY OnlyTheOwner
<1> QED BY <1>1, Invariant, PTL DEF Spec, SameOwner

=============================================================================
