------------------------------- MODULE TurnLedger -------------------------------
(***************************************************************************)
(* What the queue of a channel promises, without leases, bursts, seals,    *)
(* processes or time: messages are accepted in order; the oldest of them   *)
(* are taken together; they end, or come back together when their worker   *)
(* is gone; /stop ends everything that is open.                            *)
(***************************************************************************)
EXTENDS Naturals

CONSTANT Turns
VARIABLES waiting, working, over, order, arrivals
vars == <<waiting, working, over, order, arrivals>>

Init ==
    /\ waiting = {} /\ working = {} /\ over = {}
    /\ order = [t \in Turns |-> 0] /\ arrivals = 0

Accept(t) ==
    /\ t \notin waiting \cup working \cup over
    /\ arrivals' = arrivals + 1
    /\ order' = [order EXCEPT ![t] = arrivals + 1]
    /\ waiting' = waiting \cup {t}
    /\ UNCHANGED <<working, over>>

\* What was being worked on comes back, and the oldest messages are taken.
Take(S) ==
    /\ S \subseteq waiting \cup working
    /\ \A t \in S, u \in (waiting \cup working) \ S : order[t] < order[u]
    /\ working' = S
    /\ waiting' = (waiting \cup working) \ S
    /\ UNCHANGED <<over, order, arrivals>>

End(S) ==
    /\ S \subseteq working
    /\ working' = working \ S
    /\ over' = over \cup S
    /\ UNCHANGED <<waiting, order, arrivals>>

CancelAll ==
    /\ waiting' = {} /\ working' = {}
    /\ over' = over \cup waiting \cup working
    /\ UNCHANGED <<order, arrivals>>

Next ==
    \/ \E t \in Turns : Accept(t)
    \/ \E S \in SUBSET Turns : Take(S) \/ End(S)
    \/ CancelAll

Spec == Init /\ [][Next]_vars
=================================================================================
