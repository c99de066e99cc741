----------------------------- MODULE Supervisor -----------------------------
(***************************************************************************)
(* The module supervisor (src/harness/modules.rs): one task per enabled    *)
(* module keeps its child process running, restarts it with a growing      *)
(* delay, and kills it when the shutdown watch flips.                      *)
(*                                                                         *)
(* A task's step runs from one await to the next.  Between the check of    *)
(* the watch and the spawn stands the resolution of the secrets, which     *)
(* does not look at the watch.                                             *)
(***************************************************************************)
EXTENDS Naturals

CONSTANTS
  Module,        \* modules of dack.config.yaml
  Enabled,       \* those with enabled: true
  BackoffStart,  \* BACKOFF_START
  BackoffCap,    \* BACKOFF_CAP
  MaxRestarts,   \* bound: runs of one module's child in one life of the daemon
  MaxCrashes     \* bound: times the daemon is killed

ASSUME SupervisorAssumption ==
  /\ Enabled \subseteq Module
  /\ BackoffStart \in Nat \ {0}
  /\ BackoffCap \in Nat
  /\ BackoffStart <= BackoffCap

VARIABLES
  daemon,    \* the process of `dack run` lives
  watch,     \* the shutdown watch
  task,      \* task[m]: "secrets", "running", "waiting", "done" or "off"
  backoff,   \* backoff[m]: the next delay
  child,     \* child[m]: the task's child lives
  orphans,   \* orphans[m]: children that outlived a killed daemon
  restarts,  \* what MaxRestarts counts
  crashes,   \* what MaxCrashes counts
  slept      \* history: slept[m], the last delay since m last ran healthily, or 0

supervisorVars == <<daemon, watch, task, backoff, child, orphans, restarts, crashes, slept>>

Task == {"secrets", "running", "waiting", "done", "off"}

Smaller(a, b) == IF a < b THEN a ELSE b

\* What a fresh supervisor holds: a task at work for each enabled module.
Spawned == [m \in Module |-> IF m \in Enabled THEN "secrets" ELSE "off"]

SupervisorInit ==
  /\ daemon = TRUE /\ watch = FALSE
  /\ task = Spawned
  /\ backoff = [m \in Module |-> BackoffStart]
  /\ child = [m \in Module |-> FALSE]
  /\ orphans = [m \in Module |-> 0]
  /\ restarts = [m \in Module |-> 0]
  /\ crashes = 0
  /\ slept = [m \in Module |-> 0]

----------------------------------------------------------------------------
(* One task.                                                               *)

\* The child started, with the secrets or without them.
Starts(m) ==
  /\ daemon /\ task[m] = "secrets"
  /\ task' = [task EXCEPT ![m] = "running"]
  /\ child' = [child EXCEPT ![m] = TRUE]
  /\ restarts' = [restarts EXCEPT ![m] = @ + 1]
  /\ UNCHANGED <<daemon, watch, backoff, orphans, crashes, slept>>

\* After a run that is over: wait, unless the watch has flipped.
WaitOrStop(m) == task' = [task EXCEPT ![m] = IF watch THEN "done" ELSE "waiting"]

\* The command cannot be built or spawned.
SpawnFailed(m) ==
  /\ daemon /\ task[m] = "secrets"
  /\ WaitOrStop(m)
  /\ restarts' = [restarts EXCEPT ![m] = @ + 1]
  /\ UNCHANGED <<daemon, watch, backoff, child, orphans, crashes, slept>>

\* Mutant of AfterRun: a healthy run does not reset the curve.
AfterRunKept(m, healthy) == backoff' = backoff

\* A run of at least HEALTHY_UPTIME resets the curve.
AfterRun(m, healthy) ==
  backoff' = IF healthy THEN [backoff EXCEPT ![m] = BackoffStart] ELSE backoff

\* The child is gone by itself.
Exited(m, healthy) ==
  /\ daemon /\ task[m] = "running"
  /\ child' = [child EXCEPT ![m] = FALSE]
  /\ AfterRun(m, healthy)
  /\ slept' = IF healthy THEN [slept EXCEPT ![m] = 0] ELSE slept
  /\ WaitOrStop(m)
  /\ UNCHANGED <<daemon, watch, orphans, restarts, crashes>>

\* Mutant of Grown: the cap is forgotten.
GrownUncapped(delay) == 2 * delay

\* The next delay after this one.
Grown(delay) == Smaller(2 * delay, BackoffCap)

\* The delay is over: double it for next time, and start again unless the watch flipped.
Restarts(m) ==
  /\ daemon /\ task[m] = "waiting" /\ restarts[m] < MaxRestarts
  /\ backoff' = [backoff EXCEPT ![m] = Grown(@)]
  /\ slept' = [slept EXCEPT ![m] = backoff[m]]
  /\ task' = [task EXCEPT ![m] = IF watch THEN "done" ELSE "secrets"]
  /\ UNCHANGED <<daemon, watch, child, orphans, restarts, crashes>>

\* The flipped watch ends the wait for the child, which is killed, or for the delay.
Shutdown(m) ==
  /\ daemon /\ watch /\ task[m] \in {"running", "waiting"}
  /\ task' = [task EXCEPT ![m] = "done"]
  /\ child' = [child EXCEPT ![m] = FALSE]
  /\ UNCHANGED <<daemon, watch, backoff, orphans, restarts, crashes, slept>>

----------------------------------------------------------------------------
(* The process.                                                            *)

\* SIGTERM or SIGINT.
Flip ==
  /\ daemon /\ ~watch /\ watch' = TRUE
  /\ UNCHANGED <<daemon, task, backoff, child, orphans, restarts, crashes, slept>>

\* main returns without joining the supervisor: its tasks are dropped where they are,
\* and kill_on_drop kills their children.
MainReturns ==
  /\ daemon /\ watch
  /\ daemon' = FALSE
  /\ child' = [m \in Module |-> FALSE]
  /\ UNCHANGED <<watch, task, backoff, orphans, restarts, crashes, slept>>

\* The daemon is killed: nothing kills the children.
Killed ==
  /\ daemon /\ crashes < MaxCrashes
  /\ daemon' = FALSE
  /\ orphans' = [m \in Module |-> orphans[m] + (IF child[m] THEN 1 ELSE 0)]
  /\ child' = [m \in Module |-> FALSE]
  /\ crashes' = crashes + 1
  /\ UNCHANGED <<watch, task, backoff, restarts, slept>>

\* The next boot supervises from the start; it knows of no orphan.
Reboot ==
  /\ ~daemon /\ crashes > 0
  /\ daemon' = TRUE /\ watch' = FALSE
  /\ task' = Spawned
  /\ backoff' = [m \in Module |-> BackoffStart]
  /\ restarts' = [m \in Module |-> 0]
  /\ slept' = [m \in Module |-> 0]
  /\ UNCHANGED <<child, orphans, crashes>>

Step(m) ==
  \/ Starts(m)
  \/ SpawnFailed(m)
  \/ \E healthy \in BOOLEAN : Exited(m, healthy)
  \/ Restarts(m)
  \/ Shutdown(m)

SupervisorNext ==
  \/ \E m \in Module : Step(m)
  \/ Flip \/ MainReturns \/ Killed \/ Reboot

SupervisorSpec == SupervisorInit /\ [][SupervisorNext]_supervisorVars

----------------------------------------------------------------------------
(* Properties.                                                             *)

SupervisorTypeOK ==
  /\ daemon \in BOOLEAN /\ watch \in BOOLEAN
  /\ task \in [Module -> Task]
  /\ backoff \in [Module -> BackoffStart .. BackoffCap]
  /\ child \in [Module -> BOOLEAN]
  /\ orphans \in [Module -> Nat]
  /\ restarts \in [Module -> Nat]
  /\ crashes \in Nat
  /\ slept \in [Module -> 0 .. BackoffCap]

\* modules.rs, the header: "an exited child is restarted with exponential backoff; a
\* child that ran stably resets the curve".  A module that waits to be restarted waits
\* for twice as long as the last time, up to the cap, unless it ran healthily since;
\* then, and the first time, it waits for the floor.
RestartsSlowDown ==
  \A m \in Module : task[m] = "waiting" =>
    backoff[m] = IF slept[m] = 0 THEN BackoffStart ELSE Smaller(2 * slept[m], BackoffCap)
=============================================================================
