--------------------------- MODULE Consciousness ---------------------------
(***************************************************************************)
(* The single-flight dispatch loop of src/harness/mod.rs (Harness::run and *)
(* handle_dispatch_error) over the durable stimulus table, with everything *)
(* that runs beside it: the producers (ingestor, CLI, workers), the        *)
(* operator's pause and resume, the process's exit on SIGTERM, a crash at  *)
(* any instant, the supervisor's restart, and database calls that fail.    *)
(*                                                                         *)
(* A wake is what one call of dispatch does to one stimulus.  Its steps    *)
(* are abstracted to the effects they have (module Dispatch has the steps  *)
(* themselves); an effect may happen any number of times, in any order,    *)
(* before the wake ends.                                                   *)
(***************************************************************************)
EXTENDS StimulusQueue

CONSTANTS
  NoId,           \* no wake in flight
  BootId,         \* ids of the "back online" stimuli
  Child,          \* Child[i]: ids of the continuations a wake of i may defer
  Urgencies,      \* priorities the producers use
  Effects,        \* the effects of a wake that are looked at
  MaxRetries,     \* MAX_TIMEOUT_RETRIES
  Backoff,        \* retry_backoff_secs: attempt -> seconds
  QueueMaxDepth,  \* config.queue_max_depth
  Gates,          \* debounce delays a producer may set
  MaxTime,        \* bound: seconds the clock may pass while no row waits for it
  MaxLosses,      \* bound: process losses (crashes and SIGTERM exits)
  MaxFaults,      \* bound: failing database calls
  MaxPauses       \* bound: uses of `dack pause`

(***************************************************************************)
(* What a wake can do to the world.  The wall records "post" and "settle"  *)
(* as outward actions, and a Reflect step marks the wake by its state.     *)
(* "spawn" (a detached worker) and "memory" (a committed memory or soul    *)
(* write outside Reflect) are not recorded.                                *)
(***************************************************************************)
Recorded == {"post", "settle", "reflect"}

ASSUME IdAssumption ==
  /\ NoId \notin Id
  /\ BootId \subseteq Id
  /\ Child \in [Id -> SUBSET Id]
ASSUME BoundAssumption ==
  /\ Urgencies \subseteq Priority
  /\ Effects \subseteq Recorded \cup {"spawn", "memory"}
  /\ MaxRetries \in Nat
  /\ Backoff \in [1..MaxRetries -> Nat]
  /\ Gates \subseteq Nat
  /\ QueueMaxDepth \in Nat
  /\ MaxTime \in Nat /\ MaxLosses \in Nat /\ MaxFaults \in Nat /\ MaxPauses \in Nat

Location == {"off", "boot", "greet", "top", "shed", "pop", "wake", "stopped"}

VARIABLES
  table,        \* the stimulus table (durable)
  paused,       \* the `paused` cursor (durable)
  now,          \* wall clock, seconds
  proc,         \* the daemon process: "up" or "down"
  shutdown,     \* the shutdown watch
  pc,           \* where the consciousness loop is
  cur,          \* id of the wake in flight (snap.id)
  tries,        \* its attempts when popped (snap.attempts)
  unretryable,  \* wake_unretryable
  fx,           \* history: the effects of the wake in flight
  did,          \* history: did[i][e] = number of wakes of i that had effect e
  cut,          \* history: cut[i] = wakes of i whose outcome was never recorded
  orphans,      \* history: dispatched rows that no wake in flight owns
  failedAt,     \* history: when i's last retried wake timed out
  popsPaused,   \* history: pops since the pause flag was last set
  losses, faults, pauses   \* bounded counters of the environment's moves

durable == <<table, paused>>
loopVars == <<pc, cur, tries, unretryable>>
history == <<fx, did, cut, orphans, failedAt, popsPaused>>
bounds == <<losses, faults, pauses>>
vars == <<table, paused, now, proc, shutdown, pc, cur, tries, unretryable,
          fx, did, cut, orphans, failedAt, popsPaused, losses, faults, pauses>>

Init ==
  /\ table = EmptyTable
  /\ paused = FALSE
  /\ now = 0
  /\ proc = "down"
  /\ shutdown = FALSE
  /\ pc = "off"
  /\ cur = NoId
  /\ tries = 0
  /\ unretryable = FALSE
  /\ fx = {}
  /\ did = [i \in Id |-> [e \in Effects |-> 0]]
  /\ cut = [i \in Id |-> 0]
  /\ orphans = {}
  /\ failedAt = [i \in Id |-> 0]
  /\ popsPaused = 0
  /\ losses = 0 /\ faults = 0 /\ pauses = 0

----------------------------------------------------------------------------
(* The environment.                                                        *)

\* Seconds pass: freely up to MaxTime, then only while a pending row waits.
Tick ==
  /\ now < MaxTime \/ \E i \in Pending(table) : table[i].popAfter > now
  /\ now' = now + 1
  /\ UNCHANGED <<durable, proc, shutdown, loopVars, history, bounds>>

\* A producer inserts a row: the bus, `dack say`, `dack reflect-now`, the reflect
\* scheduler, a worker's completion.  The CLI ones need no daemon.
Produce(i, p, gate) ==
  /\ i \notin BootId
  /\ table' = Enqueue(table, i, NewRow(p, now, IF gate = 0 THEN 0 ELSE now + gate))
  /\ UNCHANGED <<paused, now, proc, shutdown, loopVars, history, bounds>>

\* `dack pause`: set_cursor("paused", "1") from another process.
Pause ==
  /\ ~paused /\ pauses < MaxPauses
  /\ paused' = TRUE
  /\ pauses' = pauses + 1
  /\ popsPaused' = 0
  /\ UNCHANGED <<table, now, proc, shutdown, loopVars, losses, faults,
                 fx, did, cut, orphans, failedAt>>

Resume ==
  /\ paused
  /\ paused' = FALSE
  /\ UNCHANGED <<table, now, proc, shutdown, loopVars, history, bounds>>

\* The supervisor starts `dack run`; the consciousness loop is spawned.
Start ==
  /\ proc = "down"
  /\ proc' = "up"
  /\ shutdown' = FALSE
  /\ pc' = "boot"
  /\ UNCHANGED <<durable, now, cur, tries, unretryable, history, bounds>>

\* SIGTERM flips the shutdown watch.
Sigterm ==
  /\ proc = "up" /\ ~shutdown
  /\ losses < MaxLosses
  /\ losses' = losses + 1
  /\ shutdown' = TRUE
  /\ UNCHANGED <<durable, now, proc, loopVars, history, faults, pauses>>

\* The process is gone and everything in memory with it.  A wake in flight
\* leaves its row dispatched, its outcome unrecorded.
LoseProcess ==
  /\ proc = "up"
  /\ proc' = "down"
  /\ shutdown' = FALSE
  /\ pc' = "off"
  /\ cur' = NoId /\ tries' = 0 /\ unretryable' = FALSE /\ fx' = {}
  /\ orphans' = IF pc = "wake" THEN orphans \cup {cur} ELSE orphans
  /\ cut' = IF pc = "wake" THEN [cut EXCEPT ![cur] = @ + 1] ELSE cut
  /\ UNCHANGED <<durable, now, did, failedAt, popsPaused, faults, pauses>>

Crash == losses < MaxLosses /\ losses' = losses + 1 /\ LoseProcess

\* On the shutdown watch main's select! returns and the runtime is dropped with
\* the spawned consciousness loop wherever it is: main does not join it.
ExitOnShutdown == shutdown /\ UNCHANGED losses /\ LoseProcess

----------------------------------------------------------------------------
(* The loop.  A database call that fails is one of at most MaxFaults; what *)
(* the loop does then is the code's error path.                            *)

Fault == faults < MaxFaults /\ faults' = faults + 1

\* Boot reconciliation; when it fails the orphans stay and the loop goes on.
Boot ==
  /\ pc = "boot"
  /\ pc' = "greet"
  /\ \/ table' = ReclaimOrphans(table) /\ orphans' = {} /\ UNCHANGED faults
     \/ Fault /\ UNCHANGED <<table, orphans>>
  /\ UNCHANGED <<paused, now, proc, shutdown, cur, tries, unretryable,
                 fx, did, cut, failedAt, popsPaused, losses, pauses>>

\* enqueue_back_online: two boots within one second share an id.
Greet ==
  /\ pc = "greet"
  /\ pc' = "top"
  /\ \/ /\ \E i \in BootId : table' = Enqueue(table, i, NewRow("low", now, 0))
        /\ UNCHANGED faults
     \/ Fault /\ UNCHANGED table
  /\ UNCHANGED <<paused, now, proc, shutdown, cur, tries, unretryable, history,
                 losses, pauses>>

\* Mutant of Boundary: the pause flag is not looked at.
BoundaryUnpaused ==
  /\ pc = "top"
  /\ pc' = IF shutdown THEN "stopped" ELSE "shed"
  /\ UNCHANGED <<durable, now, proc, shutdown, cur, tries, unretryable, history, bounds>>

\* The cycle boundary: stop on shutdown, idle while paused.  A pause flag that
\* cannot be read counts as not set.
Boundary ==
  /\ pc = "top"
  /\ \/ shutdown /\ pc' = "stopped" /\ UNCHANGED faults
     \/ ~shutdown /\ ~paused /\ pc' = "shed" /\ UNCHANGED faults
     \/ ~shutdown /\ paused /\ Fault /\ pc' = "shed"
  /\ UNCHANGED <<durable, now, proc, shutdown, cur, tries, unretryable, history,
                 losses, pauses>>

Shed ==
  /\ pc = "shed"
  /\ pc' = "pop"
  /\ \/ /\ \E v \in ShedSets(table, QueueMaxDepth) : table' = Delete(table, v)
        /\ UNCHANGED faults
     \/ Fault /\ \E v \in ShedSoFar(table, QueueMaxDepth) : table' = Delete(table, v)
  /\ UNCHANGED <<paused, now, proc, shutdown, cur, tries, unretryable, history,
                 losses, pauses>>

\* next(): the row is leased (dispatched) in the transaction that selects it.
Pop(i) ==
  /\ pc = "pop"
  /\ i \in NextRows(table, now)
  /\ table' = UpdateStatus(table, i, "dispatched")
  /\ pc' = "wake"
  /\ cur' = i
  /\ tries' = table[i].attempts
  /\ unretryable' = FALSE
  /\ fx' = {}
  /\ popsPaused' = IF paused THEN popsPaused + 1 ELSE popsPaused
  /\ UNCHANGED <<paused, now, proc, shutdown, did, cut, orphans, failedAt, bounds>>

\* Nothing to pop: sleep, then the next cycle boundary.
PopNothing ==
  /\ pc = "pop"
  /\ Eligible(table, now) = {}
  /\ pc' = "top"
  /\ UNCHANGED <<durable, now, proc, shutdown, cur, tries, unretryable, history, bounds>>

\* `self.queue.next().await?`: an error here ends the loop for good.
PopFails ==
  /\ pc = "pop"
  /\ Fault
  /\ pc' = "stopped"
  /\ UNCHANGED <<durable, now, proc, shutdown, cur, tries, unretryable, history,
                 losses, pauses>>

\* And so does a row that cannot be decoded, after its lease is committed.
PopUndecoded(i) ==
  /\ pc = "pop"
  /\ i \in NextRows(table, now)
  /\ Fault
  /\ table' = UpdateStatus(table, i, "dispatched")
  /\ orphans' = orphans \cup {i}
  /\ pc' = "stopped"
  /\ UNCHANGED <<paused, now, proc, shutdown, cur, tries, unretryable,
                 fx, did, cut, failedAt, popsPaused, losses, pauses>>

----------------------------------------------------------------------------
(* The wake in flight.                                                     *)

\* A step of the wake has an effect; the wall's record or the Reflect state
\* makes the wake unretryable before any error of that step is propagated.
WakeActs(e) ==
  /\ pc = "wake"
  /\ e \notin fx
  /\ fx' = fx \cup {e}
  /\ did' = [did EXCEPT ![cur][e] = @ + 1]
  /\ unretryable' = (unretryable \/ e \in Recorded)
  /\ UNCHANGED <<durable, now, proc, shutdown, pc, cur, tries, cut, orphans,
                 failedAt, popsPaused, bounds>>

\* A Low baton is deferred as a stimulus of its own, under an id made of the
\* origin's id and a sequence number that restarts in every wake.
WakeDefers ==
  /\ pc = "wake"
  /\ \E j \in Child[cur] : table' = Enqueue(table, j, NewRow("low", now, 0))
  /\ UNCHANGED <<paused, now, proc, shutdown, loopVars, history, bounds>>

\* The wake is over and the loop is back at the cycle boundary.
EndWake ==
  /\ pc = "wake"
  /\ pc' = "top"
  /\ cur' = NoId /\ tries' = 0 /\ unretryable' = FALSE /\ fx' = {}
  /\ UNCHANGED <<paused, now, proc, shutdown, did, popsPaused, losses, pauses>>

\* `let _ = update_status(..)`: a write that fails leaves the row dispatched.
\* k is the number of database calls of this handler that failed before it.
RecordOutcome(s, k) ==
  \/ /\ table' = UpdateStatus(table, cur, s)
     /\ faults' = faults + k
     /\ UNCHANGED <<orphans, cut>>
  \/ /\ faults + k < MaxFaults
     /\ faults' = faults + k + 1
     /\ orphans' = orphans \cup {cur}
     /\ cut' = [cut EXCEPT ![cur] = @ + 1]
     /\ UNCHANGED table

WakeCompletes == EndWake /\ RecordOutcome("done", 0) /\ UNCHANGED failedAt

\* A dispatch that returns an error or panics is terminal.
WakeFails == EndWake /\ RecordOutcome("failed", 0) /\ UNCHANGED failedAt

\* Mutant of Retryable: the outward and Reflect mark is not looked at.
RetryableWhenActed == tries < MaxRetries

\* timeout_retry_next_attempt
Retryable == ~unretryable /\ tries < MaxRetries

\* Mutant of RetryGate: the backoff is subtracted.
RetryGateSwapped(n) == now - Backoff[n]

\* The second a retried row may be popped again: retry_backoff_secs from now.
RetryGate(n) == now + Backoff[n]

\* handle_dispatch_error on a timeout: re-pend the row behind the backoff, or fail
\* it; a reschedule that fails falls through to the terminal path.
WakeTimesOut ==
  /\ EndWake
  /\ \/ /\ Retryable
        /\ table' = Reschedule(table, cur, tries + 1, RetryGate(tries + 1))
        /\ failedAt' = [failedAt EXCEPT ![cur] = now]
        /\ UNCHANGED <<orphans, cut, faults>>
     \/ Retryable /\ faults < MaxFaults /\ RecordOutcome("failed", 1) /\ UNCHANGED failedAt
     \/ ~Retryable /\ RecordOutcome("failed", 0) /\ UNCHANGED failedAt

----------------------------------------------------------------------------
Environment ==
  \/ Tick \/ Pause \/ Resume \/ Start \/ Sigterm \/ Crash \/ ExitOnShutdown
  \/ \E i \in Id, p \in Urgencies, g \in Gates : Produce(i, p, g)

WakeEnds == WakeCompletes \/ WakeFails \/ WakeTimesOut

Wake == WakeDefers \/ WakeEnds \/ \E e \in Effects : WakeActs(e)

Loop ==
  \/ Boot \/ Greet \/ Boundary \/ Shed \/ PopNothing \/ PopFails
  \/ \E i \in Id : Pop(i) \/ PopUndecoded(i)
  \/ Wake

Next == Environment \/ Loop

Spec == Init /\ [][Next]_vars

(***************************************************************************)
(* Fairness: time passes; the loop's task is polled by the runtime while   *)
(* the process lives, and every dispatch ends, because each invocation has *)
(* a wall-clock budget and a wake has a step budget; a process told to     *)
(* stop stops; the supervisor restarts it.  Nothing is assumed of          *)
(* producers, of the operator, or of which way a wake ends.                *)
(***************************************************************************)
LoopMoves == Boot \/ Greet \/ Boundary \/ Shed \/ PopNothing \/ \E i \in Id : Pop(i)

Fairness ==
  /\ WF_vars(Tick) /\ WF_vars(LoopMoves) /\ WF_vars(WakeEnds)
  /\ WF_vars(ExitOnShutdown) /\ WF_vars(Start)

FairSpec == Spec /\ Fairness

----------------------------------------------------------------------------
(* Properties.                                                             *)

TypeOK ==
  /\ table \in Table
  /\ paused \in BOOLEAN /\ shutdown \in BOOLEAN /\ unretryable \in BOOLEAN
  /\ now \in Nat /\ tries \in Nat /\ popsPaused \in Nat
  /\ losses \in Nat /\ faults \in Nat /\ pauses \in Nat
  /\ proc \in {"up", "down"} /\ pc \in Location
  /\ cur \in Id \cup {NoId}
  /\ fx \subseteq Effects
  /\ did \in [Id -> [Effects -> Nat]]
  /\ cut \in [Id -> Nat] /\ failedAt \in [Id -> Nat]
  /\ orphans \subseteq Id

\* The rows the loop itself answers for: the one it leased, if a wake is on.
InFlight == IF pc = "wake" THEN {cur} ELSE {}

\* Single flight (src/queue/mod.rs:30-34, "at most one such row"): a dispatched row
\* is the wake in flight or an orphan, the two never coincide, and there is no more
\* than one orphan unless a database write failed.
SingleFlight ==
  /\ Dispatched(table) = orphans \cup InFlight
  /\ orphans \cap InFlight = {}
  /\ Cardinality(orphans) <= 1 + faults
  /\ pc \notin {"off", "boot"} => Cardinality(orphans) <= faults

\* No duplicated action: however often a stimulus is retried after timeouts, over
\* however many restarts, it posts, settles or reflects in more than one wake only if
\* the outcome of an earlier wake of it was lost with the process or a failed write.
ActsOncePerOutcome ==
  \A i \in Id, e \in Recorded \cap Effects : did[i][e] <= 1 + cut[i]

\* `dack pause` lets at most the wake that had already passed the cycle boundary pop;
\* each unreadable pause flag may let one more through (is_paused, mod.rs:890).
PauseHolds == popsPaused <= 1 + faults

\* The retry budget and the backoff survive restarts: a wake in flight has at most
\* MaxRetries timeouts behind it and starts no sooner than the backoff of its last.
RetryDiscipline ==
  /\ \A i \in Id : table[i].attempts <= MaxRetries
  /\ pc = "wake" /\ tries > 0 => now >= failedAt[cur] + Backoff[tries]

\* Load shedding deletes only waiting Low rows, oldest first, and never digs below
\* the cap (src/queue/mod.rs:59-64): a row that vanishes was Low and pending, no older
\* Low pending row stays, and the queue is not left shorter than QueueMaxDepth.
ShedFloor ==
  [][\A i \in Id : Present(table, i) /\ ~Present(table', i) =>
       /\ table[i].status = "pending" /\ table[i].priority = "low"
       /\ Depth(table') >= QueueMaxDepth
       /\ \A j \in LowPending(table') : table[i].received <= table[j].received]_vars

\* The loop implements the abstract life of a stimulus.
Phase(i) == CASE table[i].status = "absent"     -> "none"
              [] table[i].status = "pending"    -> "waiting"
              [] table[i].status = "dispatched" -> "running"
              [] OTHER                          -> "settled"

Life == INSTANCE StimulusLifecycle
          WITH Stimulus <- Id, Nobody <- NoId, RetryLimit <- MaxRetries,
               phase <- [i \in Id |-> Phase(i)],
               retries <- [i \in Id |-> table[i].attempts],
               owner <- cur

ImplementsLifecycle == Life!Spec

\* The loop also keeps what it relies on of a wake (module WakeLifecycle): a row that
\* has no outcome lives, in a wake or waiting for one.
Standing(i) == CASE table[i].status = "absent"                    -> "none"
                 [] table[i].status \in {"pending", "dispatched"} -> "live"
                 [] OTHER                                         -> "ended"

Count(i) == IF Standing(i) = "live" THEN table[i].attempts ELSE 0

Wakes == INSTANCE WakeLifecycle
           WITH Unit <- Id, Nobody <- NoId, RetryLimit <- MaxRetries,
                life <- [i \in Id |-> Standing(i)], tries <- [i \in Id |-> Count(i)],
                mind <- cur, marked <- unretryable

\* The loop wakes one stimulus at a time, ends it once, and puts it back only unmarked,
\* counted and within the budget, as the inside of a wake does (Harness::run).
ImplementsWakes == Wakes!Spec

\* Every accepted stimulus is settled (or shed) although wakes time out, fail and are
\* interrupted, and Low ones are overtaken, provided pauses come to an end and no
\* database call fails.
Settled(i) == table[i].status \notin {"pending", "dispatched"}

EveryStimulusSettles ==
  <>[]~paused => \A i \in Id : table[i].status = "pending" ~> Settled(i)

\* A dispatched row does not stay dispatched: its wake records an outcome, or the
\* next boot re-pends it.
NoLeaseForever ==
  \A i \in Id : table[i].status = "dispatched" ~> table[i].status # "dispatched"

----------------------------------------------------------------------------
(* Statements of the code and its docs that the code does not keep.        *)

\* "an in-flight dispatch always finishes (no zombie `dispatched` row), then we exit"
\* (mod.rs:126-127, docs/operations.md:25).
ExitLeavesNoZombie == [][ExitOnShutdown => Dispatched(table) = {}]_vars

\* "A hung bridge that did NOTHING is safe to re-attempt" (mod.rs:1679-1680; the
\* retried wake is called side-effect-free in stimulus.rs:145 and queue/mod.rs:25).
RetriedWakeDidNothing ==
  [][WakeTimesOut /\ table'[cur].status = "pending" => fx = {}]_vars
=============================================================================
