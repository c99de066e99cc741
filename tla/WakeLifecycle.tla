---------------------------- MODULE WakeLifecycle ----------------------------
(***************************************************************************)
(* What the loop and the inside of a wake promise each other about a unit  *)
(* of work, which is a stimulus or a continuation that one deferred:       *)
(*   - one wake at a time, of a unit that has not ended;                   *)
(*   - a wake ends its unit, puts it back counted, or is lost: then the    *)
(*     unit lives on with its count;                                       *)
(*   - it is put back only if the wake is unmarked, and RetryLimit times   *)
(*     at most;                                                            *)
(*   - a unit that ended is never opened again, nor arrives again.         *)
(* Modules Consciousness, for which a wake is the effects it has, and      *)
(* Dispatch, for which the queue is a set, both implement it.              *)
(***************************************************************************)
EXTENDS Naturals

CONSTANTS Unit, Nobody, RetryLimit

VARIABLES life,    \* "none", "live" or "ended"
          tries,   \* how often a unit that lives was put back
          mind,    \* the unit of the wake in flight, or Nobody
          marked   \* has that wake acted outwardly, or reflected?

vars == <<life, tries, mind, marked>>

Init == /\ life = [u \in Unit |-> "none"]
        /\ tries = [u \in Unit |-> 0]
        /\ mind = Nobody
        /\ marked = FALSE

\* A producer inserts a unit, or a wake defers one.
Arrive(u) == /\ life[u] = "none"
             /\ life' = [life EXCEPT ![u] = "live"]
             /\ UNCHANGED <<tries, mind, marked>>

\* A wake begins; the unit may arrive with it.
Open(u) == /\ mind = Nobody /\ life[u] \in {"none", "live"}
           /\ life' = [life EXCEPT ![u] = "live"]
           /\ mind' = u
           /\ UNCHANGED <<tries, marked>>

\* A unit is dropped before it runs: it is stale, or its entry is above its trust.
Dismiss(u) == /\ mind = Nobody /\ life[u] \in {"none", "live"}
              /\ life' = [life EXCEPT ![u] = "ended"]
              /\ tries' = [tries EXCEPT ![u] = 0]
              /\ UNCHANGED <<mind, marked>>

Mark == /\ mind # Nobody
        /\ marked' = TRUE
        /\ UNCHANGED <<life, tries, mind>>

Over == mind # Nobody /\ mind' = Nobody /\ marked' = FALSE

End == /\ Over
       /\ life' = [life EXCEPT ![mind] = "ended"]
       /\ tries' = [tries EXCEPT ![mind] = 0]

Retry == /\ Over /\ ~marked
         /\ tries[mind] < RetryLimit
         /\ tries' = [tries EXCEPT ![mind] = @ + 1]
         /\ UNCHANGED life

\* The process dies, or cannot write down how the wake ended.
Lose == Over /\ UNCHANGED <<life, tries>>

\* Load shedding forgets units that wait.
Forget(S) == /\ \A u \in S : life[u] = "live" /\ u # mind
             /\ life' = [u \in Unit |-> IF u \in S THEN "none" ELSE life[u]]
             /\ tries' = [u \in Unit |-> IF u \in S THEN 0 ELSE tries[u]]
             /\ UNCHANGED <<mind, marked>>

Next == \/ \E u \in Unit : Arrive(u) \/ Open(u) \/ Dismiss(u)
        \/ Mark \/ End \/ Retry \/ Lose
        \/ \E S \in SUBSET Unit : Forget(S)

Spec == Init /\ [][Next]_vars
=============================================================================
