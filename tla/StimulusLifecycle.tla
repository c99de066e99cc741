------------------------- MODULE StimulusLifecycle -------------------------
(***************************************************************************)
(* What the queue and the consciousness loop promise about a stimulus,     *)
(* whatever producers, operators, crashes and database errors do:          *)
(*   - one mind: a stimulus is taken only when no other has the owner;     *)
(*   - a settled stimulus is never taken again;                            *)
(*   - one that is taken and cannot be read is left running, unowned;      *)
(*   - only an owned stimulus settles or is retried, and it is retried a   *)
(*     bounded number of times;                                            *)
(*   - an abandoned stimulus is never lost: it stays running until it is   *)
(*     recovered.                                                          *)
(* Module Consciousness implements it (docs: src/queue/mod.rs and the      *)
(* comments of Harness::run).                                              *)
(***************************************************************************)
EXTENDS Naturals

CONSTANTS Stimulus, Nobody, RetryLimit

VARIABLES phase,    \* where each stimulus is
          retries,  \* how often it was put back after a timeout
          owner     \* the stimulus the mind is on, or Nobody

vars == <<phase, retries, owner>>

Phase == {"none", "waiting", "running", "settled"}

TypeOK == /\ phase \in [Stimulus -> Phase]
          /\ retries \in [Stimulus -> 0..RetryLimit]
          /\ owner \in Stimulus \cup {Nobody}

Init == /\ phase = [s \in Stimulus |-> "none"]
        /\ retries = [s \in Stimulus |-> 0]
        /\ owner = Nobody

Accept(s) == /\ phase[s] = "none"
             /\ phase' = [phase EXCEPT ![s] = "waiting"]
             /\ UNCHANGED <<retries, owner>>

Take(s) == /\ owner = Nobody
           /\ phase[s] = "waiting"
           /\ phase' = [phase EXCEPT ![s] = "running"]
           /\ owner' = s
           /\ UNCHANGED retries

\* It was taken, and nobody could make out what it is.
Mislay(s) == /\ owner = Nobody
             /\ phase[s] = "waiting"
             /\ phase' = [phase EXCEPT ![s] = "running"]
             /\ UNCHANGED <<retries, owner>>

Settle == /\ owner # Nobody
          /\ phase' = [phase EXCEPT ![owner] = "settled"]
          /\ owner' = Nobody
          /\ UNCHANGED retries

Retry == /\ owner # Nobody
         /\ retries[owner] < RetryLimit
         /\ phase' = [phase EXCEPT ![owner] = "waiting"]
         /\ retries' = [retries EXCEPT ![owner] = @ + 1]
         /\ owner' = Nobody

\* The mind is gone, or could not record how the stimulus ended.
Abandon == /\ owner # Nobody
           /\ owner' = Nobody
           /\ UNCHANGED <<phase, retries>>

\* Every abandoned stimulus is put back to wait.
Recover == /\ owner = Nobody
           /\ phase' = [s \in Stimulus |->
                          IF phase[s] = "running" THEN "waiting" ELSE phase[s]]
           /\ UNCHANGED <<retries, owner>>

\* Load shedding forgets waiting stimuli altogether.
Forget(S) == /\ \A s \in S : phase[s] = "waiting"
             /\ phase' = [s \in Stimulus |-> IF s \in S THEN "none" ELSE phase[s]]
             /\ retries' = [s \in Stimulus |-> IF s \in S THEN 0 ELSE retries[s]]
             /\ UNCHANGED owner

Next == \/ \E s \in Stimulus : Accept(s) \/ Take(s) \/ Mislay(s)
        \/ Settle \/ Retry \/ Abandon \/ Recover
        \/ \E S \in SUBSET Stimulus : Forget(S)

Spec == Init /\ [][Next]_vars
=============================================================================
