------------------------ MODULE ConsciousnessProofs ------------------------
(***************************************************************************)
(* Theorems about the consciousness loop, for every set of stimuli, retry  *)
(* budget, backoff, queue cap and number of losses and faults; what a      *)
(* statement does to the table is in StimulusQueueProofs.                  *)
(***************************************************************************)
EXTENDS Consciousness, StimulusQueueProofs, FiniteSetTheorems, TLAPS

----------------------------------------------------------------------------
(* Type correctness.                                                       *)

\* Before the first boot every variable has its type.
LEMMA TypeInit == Init => TypeOK
  <1> SUFFICES ASSUME Init PROVE TypeOK
    OBVIOUS
  <1>1. table \in Table
    BY DEF Init, EmptyTable, Table, Row, NoRow, Priority
  <1>2. did \in [Id -> [Effects -> Nat]] /\ cut \in [Id -> Nat] /\ failedAt \in [Id -> Nat]
    BY DEF Init
  <1> QED
    BY <1>1, <1>2 DEF Init, TypeOK, Location

\* Shedding, done or cut short, deletes some of the rows it may.
LEMMA ShedTakes ==
  ASSUME Shed
  PROVE  \E v \in ShedSoFar(table, QueueMaxDepth) : table' = Delete(table, v)
  BY ShedIsSoFar DEF Shed

\* While a wake is on, the loop knows whose it is; a process that is down has no loop.
Owned == /\ (pc = "wake") <=> (cur # NoId)
         /\ proc = "down" => pc = "off"

\* No step of the loop or of what runs beside it breaks Owned.
LEMMA OwnedStep == Owned /\ [Next]_vars => Owned'
  <1> SUFFICES ASSUME Owned, [Next]_vars PROVE Owned'
    OBVIOUS
  <1> USE DEF Owned
  <1>1. CASE Environment
    BY <1>1 DEF Environment, Tick, Produce, Pause, Resume, Start, Sigterm, Crash,
                ExitOnShutdown, LoseProcess, loopVars
  <1>2. CASE Boot \/ Greet \/ Boundary \/ Shed \/ PopNothing \/ PopFails
    BY <1>2 DEF Boot, Greet, Boundary, Shed, PopNothing, PopFails
  <1>3. ASSUME NEW i \in Id, Pop(i) \/ PopUndecoded(i) PROVE Owned'
    BY <1>3, IdAssumption DEF Pop, PopUndecoded
  <1>4. CASE Wake
    BY <1>4 DEF Wake, WakeDefers, WakeActs, WakeEnds, WakeCompletes, WakeFails,
                WakeTimesOut, EndWake, loopVars
  <1>5. CASE UNCHANGED vars
    BY <1>5 DEF vars
  <1> QED
    BY <1>1, <1>2, <1>3, <1>4, <1>5 DEF Next, Loop

\* The wake in flight names a stimulus, exactly while there is one, and a process that is
\* down has no loop.
THEOREM OwnedInvariant == Spec => []Owned
  <1>1. Init => Owned
    BY DEF Init, Owned
  <1> QED
    BY <1>1, OwnedStep, PTL DEF Spec

\* Recording an outcome, or failing to, keeps the types.
LEMMA RecordOutcomeType ==
  ASSUME TypeOK, cur \in Id, NEW s \in Status, NEW k \in Nat, RecordOutcome(s, k)
  PROVE  /\ table' \in Table /\ faults' \in Nat
         /\ orphans' \subseteq Id /\ cut' \in [Id -> Nat]
  BY UpdateStatusType DEF RecordOutcome, TypeOK

\* Producers, operator, clock, losses and restarts keep the types.
LEMMA TypeEnvironment ==
  ASSUME TypeOK, Owned, Environment PROVE TypeOK'
  <1> USE BoundAssumption, IdAssumption DEF TypeOK, Location
  <1>1. CASE Tick
    BY <1>1 DEF Tick, durable, loopVars, history, bounds
  <1>2. CASE Pause
    BY <1>2 DEF Pause, loopVars
  <1>3. CASE Resume
    BY <1>3 DEF Resume, loopVars, history, bounds
  <1>4. CASE Start
    BY <1>4 DEF Start, durable, history, bounds
  <1>5. CASE Sigterm
    BY <1>5 DEF Sigterm, durable, loopVars, history
  <1>6. CASE Crash \/ ExitOnShutdown
    <2>1. LoseProcess /\ losses' \in Nat
      BY <1>6 DEF Crash, ExitOnShutdown
    <2>2. orphans' \subseteq Id /\ cut' \in [Id -> Nat]
      BY <2>1 DEF LoseProcess, Owned
    <2> QED
      BY <2>1, <2>2 DEF LoseProcess, durable
  <1>7. ASSUME NEW i \in Id, NEW p \in Urgencies, NEW g \in Gates, Produce(i, p, g)
        PROVE  TypeOK'
    <2>1. NewRow(p, now, IF g = 0 THEN 0 ELSE now + g) \in Row
      <3>1. p \in Priority /\ (IF g = 0 THEN 0 ELSE now + g) \in Nat
        OBVIOUS
      <3> QED
        BY <3>1, NewRowType
    <2>2. table' \in Table
      BY <1>7, <2>1, EnqueueType DEF Produce
    <2> QED
      BY <1>7, <2>2 DEF Produce, loopVars, history, bounds
  <1> QED
    BY <1>1, <1>2, <1>3, <1>4, <1>5, <1>6, <1>7 DEF Environment

\* Every step of the loop keeps the types.
LEMMA TypeLoop ==
  ASSUME TypeOK, Owned, Loop PROVE TypeOK'
  <1> USE BoundAssumption, IdAssumption DEF TypeOK, Location
  <1>1. CASE Boot
    BY <1>1, ReclaimOrphansType DEF Boot, Fault
  <1>2. CASE Greet
    <2>1. \A i \in Id : Enqueue(table, i, NewRow("low", now, 0)) \in Table
      BY NewRowType, EnqueueType DEF Priority
    <2> QED
      BY <1>2, <2>1 DEF Greet, Fault, history
  <1>3. CASE Boundary
    BY <1>3 DEF Boundary, Fault, durable, history
  <1>4. CASE Shed
    <2>1. \A v \in ShedSoFar(table, QueueMaxDepth) : Delete(table, v) \in Table
      BY ShedSoFarType, DeleteType
    <2> QED
      BY <1>4, <2>1, ShedTakes DEF Shed, Fault, history
  <1>5. CASE PopNothing
    BY <1>5 DEF PopNothing, durable, history, bounds
  <1>6. CASE PopFails
    BY <1>6 DEF PopFails, Fault, durable, history
  <1>7. ASSUME NEW i \in Id, Pop(i) PROVE TypeOK'
    <2>1. table' \in Table
      BY <1>7, UpdateStatusType DEF Pop, Status
    <2>2. table[i].attempts \in Nat
      BY DEF Table, Row
    <2>3. tries' \in Nat /\ popsPaused' \in Nat
      BY <1>7, <2>2 DEF Pop
    <2> QED
      BY <1>7, <2>1, <2>3 DEF Pop, bounds
  <1>8. ASSUME NEW e \in Effects, WakeActs(e) PROVE TypeOK'
    <2>1. cur \in Id
      BY <1>8 DEF WakeActs, Owned
    <2>2. did' \in [Id -> [Effects -> Nat]] /\ unretryable' \in BOOLEAN
      BY <1>8, <2>1 DEF WakeActs
    <2> QED
      BY <1>8, <2>2 DEF WakeActs, durable, bounds
  <1>9. CASE WakeDefers
    <2>1. cur \in Id
      BY <1>9 DEF WakeDefers, Owned
    <2>2. \A j \in Child[cur] : Enqueue(table, j, NewRow("low", now, 0)) \in Table
      BY <2>1, NewRowType, EnqueueType DEF Priority
    <2> QED
      BY <1>9, <2>2 DEF WakeDefers, loopVars, history, bounds
  <1>10. CASE WakeEnds
    <2>1. EndWake /\ cur \in Id
      BY <1>10 DEF WakeEnds, WakeCompletes, WakeFails, WakeTimesOut, EndWake, Owned
    <2>2. /\ table' \in Table /\ faults' \in Nat /\ failedAt' \in [Id -> Nat]
          /\ orphans' \subseteq Id /\ cut' \in [Id -> Nat]
      <3>1. CASE WakeCompletes \/ WakeFails
        BY <2>1, <3>1, RecordOutcomeType DEF WakeCompletes, WakeFails, Status
      <3>2. CASE WakeTimesOut
        <4>1. CASE /\ Retryable
                   /\ table' = Reschedule(table, cur, tries + 1, RetryGate(tries + 1))
                   /\ failedAt' = [failedAt EXCEPT ![cur] = now]
                   /\ UNCHANGED <<orphans, cut, faults>>
          <5>1. tries + 1 \in Nat /\ RetryGate(tries + 1) \in Nat
            BY <4>1 DEF Retryable, RetryGate
          <5> QED
            BY <2>1, <4>1, <5>1, RescheduleType
        <4>2. CASE (RecordOutcome("failed", 1) \/ RecordOutcome("failed", 0))
                   /\ UNCHANGED failedAt
          BY <2>1, <4>2, RecordOutcomeType DEF Status
        <4> QED
          BY <3>2, <4>1, <4>2 DEF WakeTimesOut
      <3> QED
        BY <1>10, <3>1, <3>2 DEF WakeEnds
    <2> QED
      BY <2>1, <2>2 DEF EndWake
  <1>11. ASSUME NEW i \in Id, PopUndecoded(i) PROVE TypeOK'
    <2>1. table' \in Table
      BY <1>11, UpdateStatusType DEF PopUndecoded, Status
    <2> QED
      BY <1>11, <2>1 DEF PopUndecoded, Fault
  <1> QED
    BY <1>1, <1>2, <1>3, <1>4, <1>5, <1>6, <1>7, <1>8, <1>9, <1>10, <1>11 DEF Loop, Wake

\* The loop, its producers, its operator, crashes and failing database calls keep
\* every variable within its type.
THEOREM TypeCorrect == Spec => []TypeOK
  <1>1. TypeOK /\ Owned /\ [Next]_vars => TypeOK'
    <2>1. ASSUME TypeOK, UNCHANGED vars PROVE TypeOK'
      BY <2>1 DEF TypeOK, vars
    <2> QED
      BY <2>1, TypeEnvironment, TypeLoop DEF Next
  <1> QED
    BY TypeInit, OwnedInvariant, <1>1, PTL DEF Spec

----------------------------------------------------------------------------
(* Leases.                                                                 *)

\* A dispatched row is the wake in flight or an orphan, and never both; the loop's
\* copy of the attempt count is the row's.
Leases == /\ Dispatched(table) = orphans \cup InFlight
          /\ orphans \cap InFlight = {}
          /\ pc = "wake" => tries = table[cur].attempts

\* A wake that ends gives its lease up, or leaves it to the orphans.
LEMMA RecordOutcomeLeases ==
  ASSUME TypeOK, Leases, EndWake, cur \in Id,
         NEW s \in {"done", "failed"}, NEW k \in Nat, RecordOutcome(s, k)
  PROVE  Leases'
  <1>1. cur \in Dispatched(table) /\ InFlight = {cur} /\ InFlight' = {}
    BY DEF Leases, InFlight, EndWake
  <1>2. CASE table' = UpdateStatus(table, cur, s) /\ UNCHANGED <<orphans, cut>>
    <2>1. Dispatched(table') = Dispatched(table) \ {cur}
      BY <1>1, <1>2, SettleRow DEF TypeOK
    <2> QED
      BY <1>1, <1>2, <2>1 DEF Leases, EndWake
  <1>3. CASE orphans' = orphans \cup {cur} /\ UNCHANGED table
    BY <1>1, <1>3 DEF Leases, EndWake
  <1> QED
    BY <1>2, <1>3 DEF RecordOutcome

\* No step breaks the account of the leases.
LEMMA LeasesStep == TypeOK /\ Owned /\ Leases /\ [Next]_vars => Leases'
  <1> SUFFICES ASSUME TypeOK, Owned, Leases, [Next]_vars PROVE Leases'
    OBVIOUS
  <1>1. CASE Tick \/ Pause \/ Resume \/ Sigterm
    BY <1>1 DEF Tick, Pause, Resume, Sigterm, durable, loopVars, history, Leases, InFlight
  <1>2. CASE Start
    BY <1>2 DEF Start, Owned, durable, history, Leases, InFlight
  <1>3. CASE Crash \/ ExitOnShutdown
    BY <1>3 DEF Crash, ExitOnShutdown, LoseProcess, durable, Leases, InFlight
  <1>4. ASSUME NEW i \in Id, NEW p \in Urgencies, NEW g \in Gates, Produce(i, p, g)
        PROVE  Leases'
    <2> DEFINE row == NewRow(p, now, IF g = 0 THEN 0 ELSE now + g)
    <2>1. row \in Row /\ row.status = "pending"
      <3>1. p \in Priority /\ (IF g = 0 THEN 0 ELSE now + g) \in Nat
        BY BoundAssumption DEF TypeOK
      <3> QED
        BY <3>1, NewRowType DEF NewRow, TypeOK
    <2>2. table' = Enqueue(table, i, row) /\ UNCHANGED <<orphans, pc, cur, tries>>
      BY <1>4 DEF Produce, loopVars, history
    <2> QED
      BY <2>1, <2>2, EnqueueLeases DEF Leases, InFlight, TypeOK
  <1>5. CASE Boot
    BY <1>5, ReclaimLeases DEF Boot, Leases, InFlight, TypeOK
  <1>6. CASE Greet
    <2>1. NewRow("low", now, 0) \in Row /\ NewRow("low", now, 0).status = "pending"
      BY NewRowType DEF Priority, NewRow, TypeOK
    <2>2. Dispatched(table') = Dispatched(table)
      BY <1>6, <2>1, EnqueueLeases, IdAssumption DEF Greet, TypeOK
    <2> QED
      BY <1>6, <2>2 DEF Greet, Leases, InFlight, history
  <1>7. CASE Boundary \/ PopNothing \/ PopFails
    BY <1>7 DEF Boundary, PopNothing, PopFails, durable, history, Leases, InFlight
  <1>8. CASE Shed
    <2>1. Dispatched(table') = Dispatched(table)
      BY <1>8, ShedTakes, ShedSoFarType, DeleteLeases DEF TypeOK
    <2> QED
      BY <1>8, <2>1 DEF Shed, Leases, InFlight, history
  <1>9. ASSUME NEW i \in Id, Pop(i) PROVE Leases'
    <2>1. i \in Pending(table) /\ i \notin Dispatched(table)
      BY <1>9 DEF Pop, NextRows, Eligible, Pending, Dispatched, InStatus
    <2> QED
      BY <1>9, <2>1, LeaseRow DEF Pop, Leases, InFlight, TypeOK
  <1>10. ASSUME NEW e \in Effects, WakeActs(e) PROVE Leases'
    BY <1>10 DEF WakeActs, durable, Leases, InFlight
  <1>11. CASE WakeDefers
    <2>1. cur \in Id /\ UNCHANGED <<pc, cur, tries, orphans>>
      BY <1>11 DEF WakeDefers, Owned, loopVars, history, TypeOK
    <2>2. PICK j \in Id : table' = Enqueue(table, j, NewRow("low", now, 0))
      BY <1>11, <2>1, IdAssumption DEF WakeDefers
    <2>3. NewRow("low", now, 0) \in Row /\ NewRow("low", now, 0).status = "pending"
      BY NewRowType DEF Priority, NewRow, TypeOK
    <2>4. /\ Dispatched(table') = Dispatched(table)
          /\ \A d \in Dispatched(table) : table'[d] = table[d]
      BY <2>2, <2>3, EnqueueLeases DEF TypeOK
    <2> QED
      BY <2>1, <2>4 DEF Leases, InFlight
  <1>12. CASE WakeEnds
    <2>1. EndWake /\ cur \in Id
      BY <1>12 DEF WakeEnds, WakeCompletes, WakeFails, WakeTimesOut, EndWake, Owned, TypeOK
    <2>2. ASSUME NEW s \in {"done", "failed"}, NEW k \in Nat, RecordOutcome(s, k)
          PROVE  Leases'
      BY <2>1, <2>2, RecordOutcomeLeases
    <2>3. CASE /\ Retryable
               /\ table' = Reschedule(table, cur, tries + 1, RetryGate(tries + 1))
               /\ UNCHANGED orphans
      <3>1. tries + 1 \in Nat /\ RetryGate(tries + 1) \in Nat
        BY <2>3, BoundAssumption DEF Retryable, RetryGate, TypeOK
      <3>2. cur \in Dispatched(table) /\ InFlight = {cur} /\ InFlight' = {}
        BY <2>1 DEF Leases, InFlight, EndWake
      <3>3. Dispatched(table') = Dispatched(table) \ {cur}
        BY <2>3, <3>1, <3>2, RescheduleRow DEF TypeOK
      <3> QED
        BY <2>1, <2>3, <3>2, <3>3 DEF Leases, EndWake
    <2> QED
      BY <1>12, <2>2, <2>3 DEF WakeEnds, WakeCompletes, WakeFails, WakeTimesOut
  <1>13. CASE UNCHANGED vars
    BY <1>13 DEF vars, Leases, InFlight
  <1>14. ASSUME NEW i \in Id, PopUndecoded(i) PROVE Leases'
    <2>1. i \in Pending(table) /\ i \notin Dispatched(table)
      BY <1>14 DEF PopUndecoded, NextRows, Eligible, Pending, Dispatched, InStatus
    <2> QED
      BY <1>14, <2>1, LeaseRow DEF PopUndecoded, Leases, InFlight, TypeOK
  <1> QED
    BY <1>1, <1>2, <1>3, <1>4, <1>5, <1>6, <1>7, <1>8, <1>9, <1>10, <1>11, <1>12, <1>13, <1>14
    DEF Next, Environment, Loop, Wake

\* Every dispatched row is the wake in flight or an orphan, never both.
LEMMA LeasesInvariant == Spec => []Leases
  <1>1. Init => Leases
    BY DEF Init, Leases, InFlight, Dispatched, InStatus, EmptyTable, NoRow
  <1> QED
    BY <1>1, LeasesStep, TypeCorrect, OwnedInvariant, PTL DEF Spec

\* Orphans are as few as SingleFlight says; they are counted, so they are finite.
FewOrphans == /\ IsFiniteSet(orphans)
              /\ Cardinality(orphans) <= 1 + faults
              /\ pc \notin {"off", "boot"} => Cardinality(orphans) <= faults

\* One row more makes at most one orphan more.
LEMMA OneMoreOrphan ==
  ASSUME IsFiniteSet(orphans), NEW i
  PROVE  /\ IsFiniteSet(orphans \cup {i}) /\ Cardinality(orphans) \in Nat
         /\ Cardinality(orphans \cup {i}) \in Nat
         /\ Cardinality(orphans \cup {i}) <= Cardinality(orphans) + 1
  <1>1. IsFiniteSet(orphans \cup {i}) /\ Cardinality(orphans) \in Nat
    BY FS_AddElement, FS_CardinalityType
  <1>2. Cardinality(orphans \cup {i}) =
          IF i \in orphans THEN Cardinality(orphans) ELSE Cardinality(orphans) + 1
    BY FS_AddElement
  <1> QED
    BY <1>1, <1>2

\* Only a lost process or a failed write makes an orphan, and a boot comes between two
\* lost processes.
LEMMA FewOrphansStep == TypeOK /\ Owned /\ FewOrphans /\ [Next]_vars => FewOrphans'
  <1> SUFFICES ASSUME TypeOK, Owned, FewOrphans, [Next]_vars PROVE FewOrphans'
    OBVIOUS
  <1> USE DEF FewOrphans
  <1>0. Cardinality(orphans) \in Nat /\ faults \in Nat
    BY FS_CardinalityType DEF TypeOK
  <1>1. ASSUME UNCHANGED <<orphans, faults>>,
               pc' \notin {"off", "boot"} => pc \notin {"off", "boot"}
        PROVE  FewOrphans'
    BY <1>1
  <1>2. CASE Tick \/ Pause \/ Resume \/ Sigterm \/ \E i \in Id, p \in Urgencies, g \in Gates : Produce(i, p, g)
    BY <1>1, <1>2 DEF Tick, Pause, Resume, Sigterm, Produce, durable, loopVars, history, bounds
  <1>3. CASE Start
    BY <1>3 DEF Start, history, bounds
  <1>4. CASE Crash \/ ExitOnShutdown
    <2>1. LoseProcess
      BY <1>4 DEF Crash, ExitOnShutdown
    <2>2. CASE pc = "wake"
      BY <2>1, <2>2, <1>0, OneMoreOrphan DEF LoseProcess
    <2>3. CASE pc # "wake"
      BY <2>1, <2>3 DEF LoseProcess
    <2> QED
      BY <2>2, <2>3
  <1>5. CASE Boot
    <2>1. CASE orphans' = {} /\ UNCHANGED faults
      BY <2>1, <1>0, FS_EmptySet
    <2>2. CASE Fault /\ UNCHANGED orphans
      BY <2>2, <1>0 DEF Fault
    <2> QED
      BY <1>5, <2>1, <2>2 DEF Boot
  <1>6. CASE Greet \/ Boundary \/ Shed \/ PopNothing \/ PopFails
    BY <1>0, <1>6 DEF Greet, Boundary, Shed, PopNothing, PopFails, Fault, history, bounds
  <1>7. CASE \/ \E i \in Id : Pop(i)
             \/ WakeDefers
             \/ \E e \in Effects : WakeActs(e)
    BY <1>1, <1>7 DEF Pop, WakeDefers, WakeActs, loopVars, history, bounds
  <1>8. CASE WakeEnds
    <2>1. pc = "wake" /\ pc' = "top"
      BY <1>8 DEF WakeEnds, WakeCompletes, WakeFails, WakeTimesOut, EndWake
    <2>2. ASSUME NEW s \in {"done", "failed"}, NEW k \in Nat, RecordOutcome(s, k)
          PROVE  FewOrphans'
      <3>1. CASE UNCHANGED orphans /\ faults' = faults + k
        BY <2>1, <3>1, <1>0
      <3>2. CASE orphans' = orphans \cup {cur} /\ faults' = faults + k + 1
        <4>1. /\ IsFiniteSet(orphans') /\ Cardinality(orphans') \in Nat
              /\ Cardinality(orphans') <= Cardinality(orphans) + 1
          BY <3>2, OneMoreOrphan
        <4>2. Cardinality(orphans) <= faults
          BY <2>1
        <4>3. Cardinality(orphans') <= faults'
          BY <3>2, <4>1, <4>2, <1>0
        <4> QED
          BY <2>1, <3>2, <4>1, <4>3, <1>0
      <3> QED
        BY <2>2, <3>1, <3>2 DEF RecordOutcome
    <2>3. CASE UNCHANGED <<orphans, faults>>
      BY <2>1, <2>3
    <2> QED
      BY <1>8, <2>2, <2>3 DEF WakeEnds, WakeCompletes, WakeFails, WakeTimesOut
  <1>9. CASE UNCHANGED vars
    BY <1>9 DEF vars
  <1>10. CASE \E i \in Id : PopUndecoded(i)
    <2>1. PICK i \in Id : PopUndecoded(i)
      BY <1>10
    <2>2. pc = "pop" /\ orphans' = orphans \cup {i} /\ faults' = faults + 1
      BY <2>1 DEF PopUndecoded, Fault
    <2>3. /\ IsFiniteSet(orphans') /\ Cardinality(orphans') \in Nat
          /\ Cardinality(orphans') <= Cardinality(orphans) + 1
      BY <2>2, OneMoreOrphan
    <2>4. Cardinality(orphans') <= faults'
      BY <1>0, <2>2, <2>3
    <2> QED
      BY <1>0, <2>2, <2>3, <2>4
  <1> QED
    BY <1>2, <1>3, <1>4, <1>5, <1>6, <1>7, <1>8, <1>9, <1>10 DEF Next, Environment, Loop, Wake

\* A dispatched row is the wake in flight or one of the few rows a crash or a failed
\* write left behind, for any number of stimuli, crashes and faults.
THEOREM SingleFlightHolds == Spec => []SingleFlight
  <1>1. Init => FewOrphans
    BY FS_EmptySet DEF Init, FewOrphans
  <1>2. Leases /\ FewOrphans => SingleFlight
    BY DEF Leases, FewOrphans, SingleFlight
  <1> QED
    BY <1>1, <1>2, FewOrphansStep, LeasesInvariant, TypeCorrect, OwnedInvariant, PTL DEF Spec

----------------------------------------------------------------------------
(* Pausing.                                                                *)

\* A loop that is past the boundary while the flag is set uses up one pop.
PauseBudget == /\ popsPaused <= 1 + faults
               /\ paused /\ pc \in {"shed", "pop"} => popsPaused <= faults

\* A bound stays a bound when another fault is counted.
LEMMA Slack ==
  ASSUME NEW x \in Nat, NEW y \in Nat, NEW z \in Nat, x <= 1 + y, y <= z
  PROVE  x <= 1 + z
  OBVIOUS

\* No step takes a pop more from the pause than the budget has.
LEMMA PauseBudgetStep == TypeOK /\ PauseBudget /\ [Next]_vars => PauseBudget'
  <1> SUFFICES ASSUME TypeOK, PauseBudget, [Next]_vars PROVE PauseBudget'
    OBVIOUS
  <1>0. popsPaused \in Nat /\ faults \in Nat /\ popsPaused <= 1 + faults
    BY DEF TypeOK, PauseBudget
  <1>1. CASE Environment
    BY <1>0, <1>1 DEF PauseBudget, Environment, Tick, Produce, Pause, Resume, Start, Sigterm, Crash,
                      ExitOnShutdown, LoseProcess, durable, loopVars, history, bounds
  <1>2. CASE Boot \/ Greet \/ Boundary \/ Shed \/ PopNothing \/ PopFails
    BY <1>0, <1>2 DEF PauseBudget, Boot, Greet, Boundary, Shed, PopNothing, PopFails, Fault, durable,
                      history, bounds
  <1>3. ASSUME NEW i \in Id, Pop(i) \/ PopUndecoded(i) PROVE PauseBudget'
    BY <1>0, <1>3 DEF PauseBudget, Pop, PopUndecoded, Fault, bounds
  <1>4. CASE WakeDefers \/ \E e \in Effects : WakeActs(e)
    BY <1>0, <1>4 DEF PauseBudget, WakeDefers, WakeActs, durable, loopVars, history, bounds
  <1>5. CASE WakeEnds
    <2>1. pc' = "top" /\ popsPaused' = popsPaused
      BY <1>5 DEF WakeEnds, WakeCompletes, WakeFails, WakeTimesOut, EndWake
    <2>2. faults' \in Nat /\ faults <= faults'
      BY <1>0, <1>5 DEF WakeEnds, WakeCompletes, WakeFails, WakeTimesOut, RecordOutcome
    <2>3. popsPaused' <= 1 + faults'
      BY <1>0, <2>1, <2>2, Slack
    <2> QED
      BY <2>1, <2>3 DEF PauseBudget
  <1>6. CASE UNCHANGED vars
    BY <1>6 DEF PauseBudget, vars
  <1> QED
    BY <1>1, <1>2, <1>3, <1>4, <1>5, <1>6 DEF Next, Loop, Wake

\* A set pause flag lets at most one wake start, plus one per unreadable flag, however
\* the pause falls between the boundary, the shedding and the pop.
THEOREM PauseIsPrompt == Spec => []PauseHolds
  <1>1. Init => PauseBudget
    BY DEF Init, PauseBudget
  <1>2. PauseBudget => PauseHolds
    BY DEF PauseBudget, PauseHolds
  <1> QED
    BY <1>1, <1>2, PauseBudgetStep, TypeCorrect, PTL DEF Spec

----------------------------------------------------------------------------
(* Acting once per outcome.                                                *)

Over(t, i) == t[i].status \in {"done", "failed"}

\* A wake of i that had effect e is either over, with its outcome recorded, or on.
Spent(i, e) == Over(table, i) \/ (pc = "wake" /\ i = cur /\ e \in fx)

ActBudget == \A i \in Id, e \in Recorded \cap Effects :
               /\ did[i][e] <= 1 + cut[i]
               /\ ~Spent(i, e) => did[i][e] <= cut[i]

\* A wake that may be retried has had no recorded effect.
MarkedOutward == pc = "wake" /\ ~unretryable => fx \cap Recorded = {}

\* A wake that is not marked has had no recorded effect.
LEMMA MarkedOutwardStep == MarkedOutward /\ [Next]_vars => MarkedOutward'
  <1> SUFFICES ASSUME MarkedOutward, [Next]_vars PROVE MarkedOutward'
    OBVIOUS
  <1> USE DEF MarkedOutward
  <1>1. CASE Environment
    BY <1>1 DEF Environment, Tick, Produce, Pause, Resume, Start, Sigterm, Crash,
                ExitOnShutdown, LoseProcess, loopVars, history
  <1>2. CASE Boot \/ Greet \/ Boundary \/ Shed \/ PopNothing \/ PopFails
    BY <1>2 DEF Boot, Greet, Boundary, Shed, PopNothing, PopFails
  <1>3. ASSUME NEW i \in Id, Pop(i) \/ PopUndecoded(i) PROVE MarkedOutward'
    BY <1>3 DEF Pop, PopUndecoded
  <1>4. ASSUME NEW e \in Effects, WakeActs(e) PROVE MarkedOutward'
    BY <1>4 DEF WakeActs
  <1>5. CASE WakeDefers
    BY <1>5 DEF WakeDefers, loopVars, history
  <1>6. CASE WakeEnds
    BY <1>6 DEF WakeEnds, WakeCompletes, WakeFails, WakeTimesOut, EndWake
  <1>7. CASE UNCHANGED vars
    BY <1>7 DEF vars
  <1> QED
    BY <1>1, <1>2, <1>3, <1>4, <1>5, <1>6, <1>7 DEF Next, Loop, Wake

\* No statement but the recording of an outcome makes or unmakes one.
LEMMA OverKept ==
  ASSUME NEW t \in Table, NEW j \in Id, Over(t, j)
  PROVE  /\ \A i \in Id, row \in Row : Over(Enqueue(t, i, row), j)
         /\ Over(ReclaimOrphans(t), j)
         /\ \A v \in SUBSET LowPending(t) : Over(Delete(t, v), j)
         /\ \A i \in Pending(t) : Over(UpdateStatus(t, i, "dispatched"), j)
  BY DEF Over, Enqueue, ReclaimOrphans, Delete, UpdateStatus, Present, LowPending,
         Pending, InStatus, Table, Row

\* A step that leaves effects and outcomes alone leaves the budget of acts alone.
LEMMA ActBudgetKept ==
  ASSUME ActBudget, UNCHANGED <<did, cut>>,
         \A i \in Id, e \in Recorded \cap Effects : Spent(i, e) => Spent(i, e)'
  PROVE  ActBudget'
  BY DEF ActBudget

\* The budget of acts is a number.
LEMMA OutcomeNumbers ==
  ASSUME TypeOK, NEW i \in Id, NEW e \in Recorded \cap Effects
  PROVE  did[i][e] \in Nat /\ cut[i] \in Nat
  BY DEF TypeOK

\* The outcome of the wake in flight is lost: its budget grows by one.
LEMMA OutcomeLost ==
  ASSUME TypeOK, ActBudget, pc = "wake", pc' # "wake", cur \in Id, UNCHANGED <<table, did>>,
         cut' = [cut EXCEPT ![cur] = @ + 1]
  PROVE  ActBudget'
  <1> SUFFICES ASSUME NEW i \in Id, NEW e \in Recorded \cap Effects
               PROVE  /\ did[i][e] <= 1 + cut'[i]
                      /\ ~Over(table, i) => did[i][e] <= cut'[i]
    BY DEF ActBudget, Spent, Over
  <1>1. did[i][e] \in Nat /\ cut[i] \in Nat
    BY OutcomeNumbers
  <1>2. CASE i = cur
    <2>1. cut'[i] = cut[i] + 1
      BY <1>2 DEF TypeOK
    <2> QED
      BY <1>1, <2>1 DEF ActBudget
  <1>3. CASE i # cur
    <2>1. cut'[i] = cut[i]
      BY <1>3 DEF TypeOK
    <2>2. Spent(i, e) => Over(table, i)
      BY <1>3 DEF Spent
    <2> QED
      BY <2>1, <2>2 DEF ActBudget
  <1> QED
    BY <1>2, <1>3

\* Every step keeps the budget of acts: an effect happens in a wake whose earlier ones
\* had none, or had their outcomes lost.
LEMMA ActBudgetStep ==
  TypeOK /\ Owned /\ Leases /\ MarkedOutward /\ ActBudget /\ [Next]_vars => ActBudget'
  <1> SUFFICES ASSUME TypeOK, Owned, Leases, MarkedOutward, ActBudget, [Next]_vars
               PROVE  ActBudget'
    OBVIOUS
  <1>0. pc = "wake" => cur \in Id /\ ~Over(table, cur)
    BY DEF Owned, TypeOK, Leases, InFlight, Dispatched, InStatus, Over
  <1>1. CASE Tick \/ Pause \/ Resume \/ Start \/ Sigterm \/ Boundary \/ PopNothing \/ PopFails
    <2>1. \A i \in Id, e \in Recorded \cap Effects : Spent(i, e) => Spent(i, e)'
      BY <1>1 DEF Tick, Pause, Resume, Start, Sigterm, Boundary, PopNothing, PopFails, Owned,
                  durable, loopVars, history, Spent, Over
    <2> QED
      BY <1>1, <2>1, ActBudgetKept DEF Tick, Pause, Resume, Start, Sigterm, Boundary,
                                       PopNothing, PopFails, history
  <1>2. ASSUME NEW i \in Id, NEW p \in Urgencies, NEW g \in Gates, Produce(i, p, g)
        PROVE  ActBudget'
    <2>1. NewRow(p, now, IF g = 0 THEN 0 ELSE now + g) \in Row
      <3>1. p \in Priority /\ (IF g = 0 THEN 0 ELSE now + g) \in Nat
        BY BoundAssumption DEF TypeOK
      <3> QED
        BY <3>1, NewRowType DEF TypeOK
    <2>2. \A j \in Id : Over(table, j) => Over(table', j)
      BY <1>2, <2>1, OverKept DEF Produce, TypeOK
    <2> QED
      BY <1>2, <2>2, ActBudgetKept DEF Produce, loopVars, history, Spent
  <1>3. CASE Crash \/ ExitOnShutdown
    <2>1. LoseProcess
      BY <1>3 DEF Crash, ExitOnShutdown
    <2>2. CASE pc = "wake"
      BY <1>0, <2>1, <2>2, OutcomeLost DEF LoseProcess, durable
    <2>3. CASE pc # "wake"
      BY <2>1, <2>3, ActBudgetKept DEF LoseProcess, durable, Spent, Over
    <2> QED
      BY <2>2, <2>3
  <1>4. CASE Boot
    BY <1>4, OverKept, ActBudgetKept DEF Boot, Spent, TypeOK, Over
  <1>5. CASE Greet
    <2>1. NewRow("low", now, 0) \in Row
      BY NewRowType DEF Priority, TypeOK
    <2>2. \A j \in Id : Over(table, j) => Over(table', j)
      BY <1>5, <2>1, OverKept, IdAssumption DEF Greet, TypeOK, Over
    <2> QED
      BY <1>5, <2>2, ActBudgetKept DEF Greet, Spent, history
  <1>6. CASE Shed
    <2>1. \A j \in Id : Over(table, j) => Over(table', j)
      BY <1>6, ShedTakes, ShedSoFarType, OverKept DEF TypeOK, Over
    <2> QED
      BY <1>6, <2>1, ActBudgetKept DEF Shed, Spent, history
  <1>7. ASSUME NEW i \in Id, Pop(i) \/ PopUndecoded(i) PROVE ActBudget'
    <2>1. i \in Pending(table)
      BY <1>7 DEF Pop, PopUndecoded, NextRows, Eligible
    <2>2. \A j \in Id : Over(table, j) => Over(table', j)
      BY <1>7, <2>1, OverKept DEF Pop, PopUndecoded, TypeOK
    <2> QED
      BY <1>7, <2>2, ActBudgetKept DEF Pop, PopUndecoded, Spent
  <1>8. ASSUME NEW x \in Effects, WakeActs(x) PROVE ActBudget'
    <2> SUFFICES ASSUME NEW i \in Id, NEW e \in Recorded \cap Effects
                 PROVE  /\ did'[i][e] <= 1 + cut[i]
                        /\ ~Spent(i, e)' => did'[i][e] <= cut[i]
      BY <1>8 DEF WakeActs, ActBudget
    <2>1. did[i][e] \in Nat /\ cut[i] \in Nat
      BY OutcomeNumbers
    <2>2. CASE i = cur /\ e = x
      <3>1. did'[i][e] = did[i][e] + 1
        BY <1>8, <2>2 DEF WakeActs, TypeOK
      <3>2. ~Spent(i, e) /\ Spent(i, e)'
        BY <1>0, <1>8, <2>2 DEF WakeActs, Spent, durable
      <3>3. did[i][e] <= cut[i]
        BY <3>2 DEF ActBudget
      <3> QED
        BY <2>1, <3>1, <3>2, <3>3
    <2>3. CASE ~(i = cur /\ e = x)
      <3>1. did'[i][e] = did[i][e]
        BY <1>8, <2>3 DEF WakeActs, TypeOK
      <3>2. Spent(i, e) => Spent(i, e)'
        BY <1>8 DEF WakeActs, Spent, Over, durable
      <3> QED
        BY <3>1, <3>2 DEF ActBudget
    <2> QED
      BY <2>2, <2>3
  <1>9. CASE WakeDefers
    <2>1. cur \in Id
      BY <1>0, <1>9 DEF WakeDefers
    <2>2. NewRow("low", now, 0) \in Row
      BY NewRowType DEF Priority, TypeOK
    <2>3. \A j \in Id : Over(table, j) => Over(table', j)
      BY <1>9, <2>1, <2>2, OverKept, IdAssumption DEF WakeDefers, TypeOK
    <2> QED
      BY <1>9, <2>3, ActBudgetKept DEF WakeDefers, Spent, loopVars, history
  <1>10. CASE WakeEnds
    <2>1. EndWake /\ cur \in Id /\ pc = "wake"
      BY <1>0, <1>10 DEF WakeEnds, WakeCompletes, WakeFails, WakeTimesOut, EndWake
    <2>2. ASSUME NEW s \in {"done", "failed"}, NEW k \in Nat, RecordOutcome(s, k)
          PROVE  ActBudget'
      <3>1. CASE table' = UpdateStatus(table, cur, s) /\ UNCHANGED cut
        <4>1. Over(table', cur) /\ \A j \in Id : Over(table, j) => Over(table', j)
          BY <2>1, <3>1 DEF UpdateStatus, Present, Over, Leases, InFlight, Dispatched,
                            InStatus, TypeOK, Table, Row
        <4>2. \A i \in Id, e \in Recorded \cap Effects : Spent(i, e) => Spent(i, e)'
          BY <4>1 DEF Spent
        <4> QED
          BY <2>1, <3>1, <4>2, ActBudgetKept DEF EndWake
      <3>2. CASE UNCHANGED table /\ cut' = [cut EXCEPT ![cur] = @ + 1]
        BY <2>1, <3>2, OutcomeLost DEF EndWake
      <3> QED
        BY <2>2, <3>1, <3>2 DEF RecordOutcome
    <2>3. CASE /\ Retryable
               /\ table' = Reschedule(table, cur, tries + 1, RetryGate(tries + 1))
               /\ UNCHANGED cut
      <3> SUFFICES ASSUME NEW i \in Id, NEW e \in Recorded \cap Effects
                   PROVE  Spent(i, e) => Spent(i, e)'
        BY <2>1, <2>3, ActBudgetKept DEF EndWake
      <3>1. CASE i = cur
        BY <1>0, <2>1, <2>3, <3>1 DEF Retryable, MarkedOutward, Spent
      <3>2. CASE i # cur
        BY <2>1, <2>3, <3>2 DEF Reschedule, Spent, Over, TypeOK, Table
      <3> QED
        BY <3>1, <3>2
    <2> QED
      BY <1>10, <2>2, <2>3 DEF WakeEnds, WakeCompletes, WakeFails, WakeTimesOut
  <1>11. CASE UNCHANGED vars
    BY <1>11, ActBudgetKept DEF vars, Spent, Over
  <1> QED
    BY <1>1, <1>2, <1>3, <1>4, <1>5, <1>6, <1>7, <1>8, <1>9, <1>10, <1>11
    DEF Next, Environment, Loop, Wake

\* However many retries, restarts and faults there are, a stimulus has an outward or
\* self-modifying effect in one wake more than its wakes with a lost outcome.
THEOREM ActsOnce == Spec => []ActsOncePerOutcome
  <1>1. Init => MarkedOutward
    BY DEF Init, MarkedOutward
  <1>2. Init => ActBudget
    BY DEF Init, ActBudget
  <1>3. ActBudget => ActsOncePerOutcome
    BY DEF ActBudget, ActsOncePerOutcome
  <1> QED
    BY <1>1, <1>2, <1>3, MarkedOutwardStep, ActBudgetStep, LeasesInvariant, TypeCorrect,
       OwnedInvariant, PTL DEF Spec

----------------------------------------------------------------------------
(* Retries.                                                                *)

\* A row that was retried keeps, through leases, restarts and reclaims, the gate of
\* its last timeout.
Gated == \A i \in Id : /\ table[i].attempts <= MaxRetries
                       /\ table[i].attempts > 0 =>
                            table[i].popAfter = failedAt[i] + Backoff[table[i].attempts]

\* A wake was popped behind its row's gate.
PoppedBehindGate == pc = "wake" => table[cur].popAfter <= now

\* Statements other than a reschedule do not touch the retries of a row that is there.
SameRetries(t, u) ==
  \A i \in Id : \/ u[i].attempts = 0
                \/ u[i].attempts = t[i].attempts /\ u[i].popAfter = t[i].popAfter

\* Inserts, reclaims, deletions, leases and outcomes change no count and no gate of a
\* row that is retried.
LEMMA RetriesKept ==
  ASSUME NEW t \in Table
  PROVE  /\ \A i \in Id, p \in Priority, n, g \in Nat : SameRetries(t, Enqueue(t, i, NewRow(p, n, g)))
         /\ SameRetries(t, ReclaimOrphans(t))
         /\ \A v \in SUBSET Id : SameRetries(t, Delete(t, v))
         /\ \A i \in Id, s \in Status : SameRetries(t, UpdateStatus(t, i, s))
  BY DEF SameRetries, Enqueue, NewRow, ReclaimOrphans, Delete, NoRow, UpdateStatus, Table, Row

\* A table that keeps counts and gates stays behind its gates.
LEMMA GatedKept ==
  ASSUME TypeOK, Gated, SameRetries(table, table'), UNCHANGED failedAt
  PROVE  Gated'
  BY BoundAssumption DEF Gated, SameRetries

\* A row with timeouts behind it waits behind the backoff of the last one, whatever the
\* step.
LEMMA GatedStep == TypeOK /\ Owned /\ Leases /\ Gated /\ [Next]_vars => Gated'
  <1> SUFFICES ASSUME TypeOK, Owned, Leases, Gated, [Next]_vars PROVE Gated'
    OBVIOUS
  <1>0. table \in Table /\ now \in Nat /\ (pc = "wake" => cur \in Id)
    BY DEF TypeOK, Owned
  <1>1. CASE UNCHANGED <<table, failedAt>>
    BY <1>1 DEF Gated
  <1>2. CASE \/ Tick \/ Pause \/ Resume \/ Start \/ Sigterm \/ Crash \/ ExitOnShutdown
             \/ Boundary \/ PopNothing \/ PopFails \/ \E e \in Effects : WakeActs(e)
    BY <1>1, <1>2 DEF Tick, Pause, Resume, Start, Sigterm, Crash, ExitOnShutdown,
                      LoseProcess, Boundary, PopNothing, PopFails, WakeActs, durable, history
  <1>3. ASSUME NEW i \in Id, NEW p \in Urgencies, NEW g \in Gates, Produce(i, p, g)
        PROVE  Gated'
    <2>1. p \in Priority /\ (IF g = 0 THEN 0 ELSE now + g) \in Nat
      BY <1>0, BoundAssumption
    <2> QED
      BY <1>0, <1>3, <2>1, RetriesKept, GatedKept DEF Produce, history
  <1>4. CASE Boot \/ Greet
    <2>1. \A i \in BootId : SameRetries(table, Enqueue(table, i, NewRow("low", now, 0)))
      BY <1>0, RetriesKept, IdAssumption DEF Priority
    <2>2. SameRetries(table, table) /\ SameRetries(table, ReclaimOrphans(table))
      BY <1>0, RetriesKept DEF SameRetries
    <2> QED
      BY <1>4, <2>1, <2>2, GatedKept DEF Boot, Greet, history
  <1>5. CASE Shed
    <2>1. SameRetries(table, table) /\ \A v \in ShedSoFar(table, QueueMaxDepth) : SameRetries(table, Delete(table, v))
      BY <1>0, ShedSoFarType, RetriesKept DEF SameRetries
    <2> QED
      BY <1>5, <2>1, ShedTakes, GatedKept DEF Shed, history
  <1>6. ASSUME NEW i \in Id, Pop(i) \/ PopUndecoded(i) PROVE Gated'
    <2>1. SameRetries(table, table')
      BY <1>0, <1>6, RetriesKept DEF Pop, PopUndecoded, Status
    <2> QED
      BY <1>6, <2>1, GatedKept DEF Pop, PopUndecoded
  <1>7. CASE WakeDefers
    <2>1. SameRetries(table, table')
      BY <1>0, <1>7, RetriesKept, IdAssumption DEF WakeDefers, Priority
    <2> QED
      BY <1>7, <2>1, GatedKept DEF WakeDefers, history
  <1>8. CASE WakeEnds
    <2>1. EndWake /\ cur \in Id /\ pc = "wake"
      BY <1>0, <1>8 DEF WakeEnds, WakeCompletes, WakeFails, WakeTimesOut, EndWake
    <2>2. ASSUME NEW s \in {"done", "failed"}, NEW k \in Nat, RecordOutcome(s, k),
                 UNCHANGED failedAt
          PROVE  Gated'
      <3>1. SameRetries(table, table) /\ SameRetries(table, UpdateStatus(table, cur, s))
        BY <1>0, <2>1, RetriesKept DEF SameRetries, Status
      <3> QED
        BY <2>2, <3>1, GatedKept DEF RecordOutcome
    <2>3. CASE /\ Retryable
               /\ table' = Reschedule(table, cur, tries + 1, RetryGate(tries + 1))
               /\ failedAt' = [failedAt EXCEPT ![cur] = now]
      <3>1. tries + 1 \in Nat /\ tries + 1 <= MaxRetries /\ tries + 1 > 0
        BY <2>3, BoundAssumption DEF Retryable, TypeOK
      <3>2. Present(table, cur)
        BY <2>1 DEF Leases, InFlight, Dispatched, InStatus, Present
      <3>3. /\ table'[cur].attempts = tries + 1
            /\ table'[cur].popAfter = now + Backoff[tries + 1]
            /\ failedAt'[cur] = now
        BY <1>0, <2>1, <2>3, <3>1, <3>2 DEF Reschedule, RetryGate, Table, Row, TypeOK
      <3>4. ASSUME NEW i \in Id, i # cur
            PROVE  table'[i] = table[i] /\ failedAt'[i] = failedAt[i]
        BY <1>0, <2>1, <2>3, <3>4 DEF Reschedule, Table, TypeOK
      <3> QED
        BY <3>1, <3>3, <3>4 DEF Gated
    <2> QED
      BY <1>8, <2>2, <2>3 DEF WakeEnds, WakeCompletes, WakeFails, WakeTimesOut
  <1> QED
    BY <1>1, <1>2, <1>3, <1>4, <1>5, <1>6, <1>7, <1>8
    DEF Next, Environment, Loop, Wake, vars

\* A wake in flight was popped behind its gate, and the clock does not go back.
LEMMA PoppedBehindGateStep ==
  TypeOK /\ Owned /\ Leases /\ PoppedBehindGate /\ [Next]_vars => PoppedBehindGate'
  <1> SUFFICES ASSUME TypeOK, Owned, Leases, PoppedBehindGate, [Next]_vars, pc' = "wake"
               PROVE  table'[cur'].popAfter <= now'
    BY DEF PoppedBehindGate
  <1>0. table \in Table /\ now \in Nat
    BY DEF TypeOK
  <1>1. CASE \E i \in Id : Pop(i)
    <2>1. PICK i \in Id : Pop(i)
      BY <1>1
    <2>2. table'[i].popAfter = table[i].popAfter
      BY <1>0, <2>1 DEF Pop, UpdateStatus, Table, Row
    <2> QED
      BY <2>1, <2>2 DEF Pop, NextRows, Eligible
  <1>2. CASE ~\E i \in Id : Pop(i)
    <2>1. pc = "wake" /\ cur' = cur /\ cur \in Id /\ now' \in {now, now + 1}
      BY <1>2, <1>0 DEF Next, Environment, Loop, Wake, WakeEnds, Tick, Pause, Resume, Start, Sigterm,
           Crash, ExitOnShutdown, LoseProcess, Produce, Boot, Greet, Boundary, Shed, PopNothing,
           PopUndecoded, PopFails, WakeDefers, WakeActs, WakeCompletes, WakeFails, WakeTimesOut, EndWake, vars,
           durable, loopVars, history, bounds, Owned, TypeOK
    <2>2. cur \in Dispatched(table)
      BY <2>1 DEF Leases, InFlight
    <2>3. \A i \in Id : \A row : Enqueue(table, i, row)[cur] = table[cur]
      BY <1>0, <2>1, <2>2 DEF Enqueue, Present, Dispatched, InStatus, Table
    <2>4. table'[cur] = table[cur]
      BY <1>2, <2>1, <2>3, IdAssumption DEF Next, Environment, Loop, Wake, WakeEnds, Tick, Pause, Resume, Start, Sigterm,
           Crash, ExitOnShutdown, LoseProcess, Produce, Boot, Greet, Boundary, Shed, PopNothing,
           PopUndecoded, PopFails, WakeDefers, WakeActs, WakeCompletes, WakeFails, WakeTimesOut, EndWake, vars,
           durable, loopVars, history, bounds
    <2>5. table[cur].popAfter \in Nat /\ table[cur].popAfter <= now
      BY <1>0, <2>1 DEF PoppedBehindGate, Table, Row
    <2> QED
      BY <1>0, <2>1, <2>4, <2>5
  <1> QED
    BY <1>1, <1>2

\* No stimulus is retried more than MaxRetries times or sooner than its backoff, with
\* restarts, reclaims and failed writes between the attempts.
THEOREM RetriesDisciplined == Spec => []RetryDiscipline
  <1>1. Init => Gated
    BY BoundAssumption DEF Init, Gated, EmptyTable, NoRow
  <1>2. Init => PoppedBehindGate
    BY DEF Init, PoppedBehindGate
  <1>3. TypeOK /\ Owned /\ Leases /\ Gated /\ PoppedBehindGate => RetryDiscipline
    BY DEF Gated, PoppedBehindGate, RetryDiscipline, Leases, Owned, TypeOK
  <1> QED
    BY <1>1, <1>2, <1>3, GatedStep, PoppedBehindGateStep, LeasesInvariant, TypeCorrect,
       OwnedInvariant, PTL DEF Spec

----------------------------------------------------------------------------
(* Shedding.                                                               *)

\* There are finitely many rows, however many ids could be used.
FewRows == IsFiniteSet(Stored(table))

\* A step inserts one row at most, so the rows stay finitely many.
LEMMA FewRowsStep == TypeOK /\ Owned /\ FewRows /\ [Next]_vars => FewRows'
  <1> SUFFICES ASSUME TypeOK, Owned, FewRows, [Next]_vars PROVE FewRows'
    OBVIOUS
  <1>0. table \in Table /\ now \in Nat /\ tries \in Nat
    BY DEF TypeOK
  <1>1. ASSUME Stored(table') \subseteq Stored(table) PROVE FewRows'
    BY <1>1, FS_Subset DEF FewRows
  <1>2. ASSUME NEW i \in Id, NEW p \in Priority, NEW g \in Nat,
               table' = Enqueue(table, i, NewRow(p, now, g))
        PROVE  FewRows'
    <2>1. Stored(table') \subseteq Stored(table) \cup {i}
      BY <1>0, <1>2, NewRowType, EnqueueStored
    <2>2. IsFiniteSet(Stored(table) \cup {i})
      BY FS_AddElement DEF FewRows
    <2> QED
      BY <2>1, <2>2, FS_Subset DEF FewRows
  <1>3. CASE UNCHANGED table
    BY <1>3 DEF FewRows
  <1>4. ASSUME NEW i \in Id, NEW p \in Urgencies, NEW g \in Gates, Produce(i, p, g)
        PROVE  FewRows'
    <2>1. p \in Priority /\ (IF g = 0 THEN 0 ELSE now + g) \in Nat
      BY <1>0, BoundAssumption
    <2> QED
      BY <1>2, <1>4, <2>1 DEF Produce
  <1>5. CASE Boot
    BY <1>0, <1>1, <1>3, <1>5, ReclaimStored DEF Boot
  <1>6. CASE Greet
    <2>1. "low" \in Priority /\ 0 \in Nat /\ BootId \subseteq Id
      BY IdAssumption DEF Priority
    <2> QED
      BY <1>2, <1>3, <1>6, <2>1 DEF Greet
  <1>7. CASE Shed
    BY <1>0, <1>1, <1>3, <1>7, DeleteStored DEF Shed
  <1>8. ASSUME NEW i \in Id, Pop(i) \/ PopUndecoded(i) PROVE FewRows'
    BY <1>0, <1>1, <1>8, UpdateStored DEF Pop, PopUndecoded, Status
  <1>9. CASE WakeDefers
    <2>1. cur \in Id /\ "low" \in Priority /\ 0 \in Nat
      BY <1>9 DEF WakeDefers, Owned, TypeOK, Priority
    <2> QED
      BY <1>2, <1>9, <2>1, IdAssumption DEF WakeDefers
  <1>10. CASE WakeEnds
    <2>1. cur \in Id
      BY <1>10 DEF WakeEnds, WakeCompletes, WakeFails, WakeTimesOut, EndWake, Owned, TypeOK
    <2>2. ASSUME NEW s \in {"done", "failed"}, NEW k \in Nat, RecordOutcome(s, k)
          PROVE  FewRows'
      BY <1>0, <1>1, <1>3, <2>1, <2>2, UpdateStored DEF RecordOutcome, Status
    <2>3. CASE Retryable /\ table' = Reschedule(table, cur, tries + 1, RetryGate(tries + 1))
      <3>1. tries + 1 \in 1..MaxRetries /\ tries + 1 \in Nat
        BY <1>0, <2>3, BoundAssumption DEF Retryable
      <3>2. RetryGate(tries + 1) \in Nat
        BY <1>0, <3>1, BoundAssumption DEF RetryGate
      <3>3. Stored(table') \subseteq Stored(table)
        BY <1>0, <2>1, <2>3, <3>1, <3>2, RescheduleStored
      <3> QED
        BY <1>1, <3>3
    <2> QED
      BY <1>10, <2>2, <2>3 DEF WakeEnds, WakeCompletes, WakeFails, WakeTimesOut
  <1>11. CASE \/ Tick \/ Pause \/ Resume \/ Start \/ Sigterm \/ Crash \/ ExitOnShutdown
              \/ Boundary \/ PopNothing \/ PopFails \/ \E e \in Effects : WakeActs(e)
              \/ UNCHANGED vars
    <2>1. UNCHANGED table
      BY <1>11 DEF Tick, Pause, Resume, Start, Sigterm, Crash, ExitOnShutdown, LoseProcess, Boundary,
                   PopNothing, PopFails, WakeActs, durable, vars
    <2> QED
      BY <1>3, <2>1
  <1> QED
    BY <1>4, <1>5, <1>6, <1>7, <1>8, <1>9, <1>10, <1>11 DEF Next, Environment, Loop, Wake

\* What ShedFloor asks of a step.
FloorKept ==
  \A i \in Id : Present(table, i) /\ ~Present(table', i) =>
    /\ table[i].status = "pending" /\ table[i].priority = "low"
    /\ Depth(table') >= QueueMaxDepth
    /\ \A j \in LowPending(table') : table[i].received <= table[j].received

\* Only shedding removes a row.
LEMMA OnlyShedRemoves ==
  ASSUME TypeOK, Owned, [Next]_vars, NEW i \in Id, Present(table, i), ~Present(table', i)
  PROVE  Shed
  <1>0. table \in Table
    BY DEF TypeOK
  <1>1. ASSUME NEW j \in Id, NEW row, row.status = "pending", table' = Enqueue(table, j, row) PROVE FALSE
    BY <1>0, <1>1 DEF Enqueue, Present, Table
  <1>2. ASSUME NEW j \in Id, NEW s \in Status, table' = UpdateStatus(table, j, s) PROVE FALSE
    BY <1>0, <1>2 DEF UpdateStatus, Present, Status, Table, Row
  <1>3. ASSUME NEW j \in Id, NEW n, NEW g, table' = Reschedule(table, j, n, g) PROVE FALSE
    BY <1>0, <1>3 DEF Reschedule, Present, Table, Row
  <1>4. ~UNCHANGED table
    OBVIOUS
  <1>5. \A p, g : NewRow(p, now, g).status = "pending"
    BY DEF NewRow
  <1>6. ~Environment
    BY <1>1, <1>4, <1>5 DEF Environment, Tick, Pause, Resume, Start, Sigterm, Crash, ExitOnShutdown,
                            LoseProcess, Produce, durable
  <1>7. ~Boot
    BY <1>0, <1>4 DEF Boot, ReclaimOrphans, Present, Table, Row
  <1>8. ~Greet
    BY <1>1, <1>4, <1>5, IdAssumption DEF Greet
  <1>9. ~ \E j \in Id : Pop(j) \/ PopUndecoded(j)
    BY <1>2 DEF Pop, PopUndecoded, Status
  <1>10. ~Wake
    <2> SUFFICES ASSUME Wake PROVE FALSE
      OBVIOUS
    <2>1. cur \in Id
      BY DEF Wake, WakeDefers, WakeEnds, WakeCompletes, WakeFails, WakeTimesOut, EndWake, WakeActs,
             Owned, TypeOK
    <2>2. ~WakeDefers
      BY <1>1, <1>5, <2>1, IdAssumption DEF WakeDefers
    <2>3. ~ \E e \in Effects : WakeActs(e)
      BY <1>4 DEF WakeActs, durable
    <2>4. ASSUME NEW s \in {"done", "failed"}, NEW k, RecordOutcome(s, k) PROVE FALSE
      BY <1>2, <1>4, <2>1, <2>4 DEF RecordOutcome, Status
    <2>5. ~WakeEnds
      BY <1>3, <2>1, <2>4 DEF WakeEnds, WakeCompletes, WakeFails, WakeTimesOut
    <2> QED
      BY <2>2, <2>3, <2>5 DEF Wake
  <1>11. ~UNCHANGED vars /\ ~Boundary /\ ~PopNothing /\ ~PopFails
    BY <1>4 DEF vars, Boundary, PopNothing, PopFails, durable
  <1> QED
    BY <1>6, <1>7, <1>8, <1>9, <1>10, <1>11 DEF Next, Loop

\* Only shedding makes a row vanish, and it takes the oldest Low ones and stops at the cap.
LEMMA FloorStep == TypeOK /\ Owned /\ FewRows /\ [Next]_vars => FloorKept
  <1> SUFFICES ASSUME TypeOK, Owned, FewRows, [Next]_vars,
                      NEW i \in Id, Present(table, i), ~Present(table', i)
               PROVE  /\ table[i].status = "pending" /\ table[i].priority = "low"
                      /\ Depth(table') >= QueueMaxDepth
                      /\ \A j \in LowPending(table') : table[i].received <= table[j].received
    BY DEF FloorKept
  <1>1. PICK v \in ShedSoFar(table, QueueMaxDepth) : table' = Delete(table, v)
    BY OnlyShedRemoves, ShedTakes
  <1>2. i \in v
    BY <1>1 DEF Delete, Present
  <1>3. table \in Table /\ QueueMaxDepth \in Nat
    BY BoundAssumption DEF TypeOK
  <1>4. IsFiniteSet(Pending(table))
    <2>1. Pending(table) \subseteq Stored(table)
      BY DEF Pending, InStatus, Stored, Present
    <2> QED
      BY <2>1, FS_Subset DEF FewRows
  <1>5. /\ table[i].status = "pending" /\ table[i].priority = "low"
        /\ Depth(table') >= QueueMaxDepth
        /\ \A j \in LowPending(table') : table[i].received <= table'[j].received
    BY <1>1, <1>2, <1>3, <1>4, ShedSoFarLeaves
  <1>6. \A j \in LowPending(table') : table'[j] = table[j]
    BY <1>1 DEF LowPending, Pending, InStatus, Delete, NoRow
  <1> QED
    BY <1>5, <1>6

\* A row that vanishes was shed: it was Low and waiting, nothing older of its kind is left,
\* and the queue is at its cap or above, whatever the cap and the number of rows.
THEOREM ShedStopsAtFloor == Spec => ShedFloor
  <1>1. Init => FewRows
    <2>1. Init => Stored(table) = {}
      BY DEF Init, Stored, Present, EmptyTable, NoRow
    <2> QED
      BY <2>1, FS_EmptySet DEF FewRows
  <1>2. FloorKept => \A i \in Id : Present(table, i) /\ ~Present(table', i) =>
                       /\ table[i].status = "pending" /\ table[i].priority = "low"
                       /\ Depth(table') >= QueueMaxDepth
                       /\ \A j \in LowPending(table') : table[i].received <= table[j].received
    BY DEF FloorKept
  <1> QED
    BY <1>1, <1>2, FewRowsStep, FloorStep, TypeCorrect, OwnedInvariant, PTL DEF Spec, ShedFloor

----------------------------------------------------------------------------
(* The loop implements the abstract life of a stimulus.                    *)


\* An id without a row has no attempts behind it.
Clean(t) == \A i \in Id : ~Present(t, i) => t[i].attempts = 0

\* No statement gives an absent row a count.
LEMMA CleanKept ==
  ASSUME NEW t \in Table, Clean(t)
  PROVE  /\ \A i \in Id, p \in Priority, n, g \in Nat : Clean(Enqueue(t, i, NewRow(p, n, g)))
         /\ Clean(ReclaimOrphans(t))
         /\ \A v \in SUBSET Id : Clean(Delete(t, v))
         /\ \A i \in Id, s \in {"dispatched", "done", "failed"} : Clean(UpdateStatus(t, i, s))
         /\ \A i \in Id, n, g \in Nat : Clean(Reschedule(t, i, n, g))
  BY DEF Clean, Present, Enqueue, NewRow, ReclaimOrphans, Delete, NoRow, UpdateStatus,
         Reschedule, Table, Row

\* No step gives an absent row a count.
LEMMA CleanStep == TypeOK /\ Owned /\ Clean(table) /\ [Next]_vars => Clean(table)'
  <1> SUFFICES ASSUME TypeOK, Owned, Clean(table), [Next]_vars PROVE Clean(table')
    OBVIOUS
  <1>0. table \in Table /\ now \in Nat /\ (pc = "wake" => cur \in Id) /\ "low" \in Priority
    BY DEF TypeOK, Owned, Priority
  <1>1. CASE UNCHANGED table
    BY <1>1
  <1>2. CASE Environment
    <2>1. ASSUME NEW i \in Id, NEW p \in Urgencies, NEW g \in Gates, Produce(i, p, g)
          PROVE  Clean(table')
      <3>1. p \in Priority /\ (IF g = 0 THEN 0 ELSE now + g) \in Nat
        BY <1>0, BoundAssumption
      <3> QED
        BY <1>0, <2>1, <3>1, CleanKept DEF Produce
    <2> QED
      BY <1>1, <1>2, <2>1 DEF Environment, Tick, Pause, Resume, Start, Sigterm, Crash,
                              ExitOnShutdown, LoseProcess, durable
  <1>3. CASE Boot \/ Greet \/ Boundary \/ Shed \/ PopNothing \/ PopFails
    <2>1. /\ \A i \in BootId : Clean(Enqueue(table, i, NewRow("low", now, 0)))
          /\ \A v \in ShedSoFar(table, QueueMaxDepth) : Clean(Delete(table, v))
          /\ Clean(ReclaimOrphans(table))
      BY <1>0, CleanKept, ShedSoFarType, IdAssumption
    <2> QED
      BY <1>1, <1>3, <2>1, ShedTakes DEF Boot, Greet, Boundary, PopNothing, PopFails, durable
  <1>4. ASSUME NEW i \in Id, Pop(i) \/ PopUndecoded(i) PROVE Clean(table')
    BY <1>0, <1>4, CleanKept DEF Pop, PopUndecoded
  <1>5. CASE WakeDefers \/ \E e \in Effects : WakeActs(e)
    BY <1>0, <1>1, <1>5, CleanKept, IdAssumption DEF WakeDefers, WakeActs, durable
  <1>6. CASE WakeEnds
    <2>1. cur \in Id
      BY <1>0, <1>6 DEF WakeEnds, WakeCompletes, WakeFails, WakeTimesOut, EndWake
    <2>2. ASSUME NEW s \in {"done", "failed"}, NEW k \in Nat, RecordOutcome(s, k)
          PROVE  Clean(table')
      BY <1>0, <1>1, <2>1, <2>2, CleanKept DEF RecordOutcome
    <2>3. CASE Retryable /\ table' = Reschedule(table, cur, tries + 1, RetryGate(tries + 1))
      <3>1. tries + 1 \in Nat /\ RetryGate(tries + 1) \in Nat
        BY <2>3, BoundAssumption DEF Retryable, RetryGate, TypeOK
      <3> QED
        BY <1>0, <2>1, <2>3, <3>1, CleanKept
    <2> QED
      BY <1>6, <2>2, <2>3 DEF WakeEnds, WakeCompletes, WakeFails, WakeTimesOut
  <1> QED
    BY <1>1, <1>2, <1>3, <1>4, <1>5, <1>6 DEF Next, Loop, Wake, vars

\* The initial states of the loop map to those of the abstract life.
LEMMA LifeInit == Init => Life!Init
  BY DEF Init, Life!Init, Phase, EmptyTable, NoRow

\* An insert is Accept, or ignored.
LEMMA EnqueueAccepts ==
  ASSUME TypeOK, Clean(table), UNCHANGED cur,
         NEW i \in Id, NEW p \in Priority, NEW n \in Nat, NEW g \in Nat,
         table' = Enqueue(table, i, NewRow(p, n, g))
  PROVE  [Life!Next]_(Life!vars)
  <1>1. CASE Present(table, i)
    BY <1>1 DEF Enqueue, Life!vars, Phase
  <1>2. CASE ~Present(table, i)
    <2>1. table' = [table EXCEPT ![i] = NewRow(p, n, g)] /\ table[i].status = "absent"
      BY <1>2 DEF Enqueue, Present
    <2>2. /\ \A j \in Id : Phase(j)' = IF j = i THEN "waiting" ELSE Phase(j)
          /\ Phase(i) = "none"
      BY <2>1 DEF Phase, NewRow, TypeOK, Table
    <2>3. \A j \in Id : table'[j].attempts = table[j].attempts
      BY <2>1, <1>2 DEF NewRow, TypeOK, Table, Clean
    <2>4. Life!Accept(i)
      BY <2>2, <2>3 DEF Life!Accept
    <2> QED
      BY <2>4 DEF Life!Next
  <1> QED
    BY <1>1, <1>2

\* A step of the loop maps to a step of the abstract life or to a stutter.
LEMMA LifeStep ==
  TypeOK /\ Owned /\ Leases /\ Gated /\ Clean(table) /\ [Next]_vars => [Life!Next]_(Life!vars)
  <1> SUFFICES ASSUME TypeOK, Owned, Leases, Gated, Clean(table), [Next]_vars
               PROVE  [Life!Next]_(Life!vars)
    OBVIOUS
  <1>0. table \in Table /\ now \in Nat /\ "low" \in Priority
    BY DEF TypeOK, Priority
  <1>1. CASE UNCHANGED <<table, cur>>
    BY <1>1 DEF Life!vars, Phase
  <1>2. CASE \/ Tick \/ Pause \/ Resume \/ Start \/ Sigterm \/ Boundary \/ PopNothing
             \/ PopFails \/ \E e \in Effects : WakeActs(e)
    BY <1>1, <1>2 DEF Tick, Pause, Resume, Start, Sigterm, Boundary, PopNothing, PopFails,
                      WakeActs, durable, loopVars
  <1>3. ASSUME NEW i \in Id, NEW p \in Urgencies, NEW g \in Gates, Produce(i, p, g)
        PROVE  [Life!Next]_(Life!vars)
    <2>1. p \in Priority /\ (IF g = 0 THEN 0 ELSE now + g) \in Nat
      BY <1>0, BoundAssumption
    <2> QED
      BY <1>0, <1>3, <2>1, EnqueueAccepts DEF Produce, loopVars
  <1>4. CASE Crash \/ ExitOnShutdown
    <2>1. UNCHANGED table /\ cur' = NoId
      BY <1>4 DEF Crash, ExitOnShutdown, LoseProcess, durable
    <2>2. CASE cur # NoId
      BY <2>1, <2>2 DEF Life!Next, Life!Abandon, Phase
    <2> QED
      BY <1>1, <2>1, <2>2
  <1>5. CASE Boot
    <2>1. cur = NoId /\ UNCHANGED cur
      BY <1>5 DEF Boot, Owned
    <2>2. CASE table' = ReclaimOrphans(table)
      <3>1. \A i \in Id : /\ Phase(i)' = IF Phase(i) = "running" THEN "waiting" ELSE Phase(i)
                          /\ table'[i].attempts = table[i].attempts
        BY <1>0, <2>2 DEF ReclaimOrphans, Phase, Table, Row
      <3>2. Life!Recover
        BY <2>1, <3>1 DEF Life!Recover
      <3> QED
        BY <3>2 DEF Life!Next
    <2> QED
      BY <1>1, <1>5, <2>1, <2>2 DEF Boot
  <1>6. CASE Greet
    <2>1. UNCHANGED cur
      BY <1>6 DEF Greet
    <2>2. ASSUME NEW i \in BootId, table' = Enqueue(table, i, NewRow("low", now, 0))
          PROVE  [Life!Next]_(Life!vars)
      BY <1>0, <2>1, <2>2, EnqueueAccepts, IdAssumption
    <2> QED
      BY <1>1, <1>6, <2>1, <2>2 DEF Greet
  <1>7. CASE Shed
    <2>1. UNCHANGED cur
      BY <1>7 DEF Shed
    <2>2. ASSUME NEW v \in ShedSoFar(table, QueueMaxDepth), table' = Delete(table, v)
          PROVE  Life!Forget(v) /\ v \in SUBSET Id
      <3>1. v \in SUBSET Id /\ \A i \in v : table[i].status = "pending"
        BY ShedSoFarType DEF LowPending, Pending, InStatus
      <3>2. \A i \in Id : /\ Phase(i)' = IF i \in v THEN "none" ELSE Phase(i)
                          /\ table'[i].attempts = IF i \in v THEN 0 ELSE table[i].attempts
        BY <1>0, <2>2 DEF Delete, NoRow, Phase
      <3> QED
        BY <2>1, <3>1, <3>2 DEF Life!Forget, Phase
    <2> QED
      BY <1>7, <2>2, ShedTakes DEF Life!Next
  <1>8. ASSUME NEW i \in Id, Pop(i) PROVE [Life!Next]_(Life!vars)
    <2>1. table[i].status = "pending" /\ cur = NoId /\ cur' = i
      BY <1>8 DEF Pop, NextRows, Eligible, Pending, InStatus, Owned
    <2>2. \A j \in Id : /\ Phase(j)' = IF j = i THEN "running" ELSE Phase(j)
                        /\ table'[j].attempts = table[j].attempts
      BY <1>0, <1>8, <2>1 DEF Pop, UpdateStatus, Present, Phase, Table, Row
    <2>3. Life!Take(i)
      BY <2>1, <2>2 DEF Life!Take, Phase
    <2> QED
      BY <2>3 DEF Life!Next
  <1>9. CASE WakeDefers
    <2>1. cur \in Id /\ UNCHANGED cur
      BY <1>9 DEF WakeDefers, loopVars, Owned, TypeOK
    <2>2. PICK j \in Id : table' = Enqueue(table, j, NewRow("low", now, 0))
      BY <1>9, <2>1, IdAssumption DEF WakeDefers
    <2> QED
      BY <1>0, <2>1, <2>2, EnqueueAccepts
  <1>10. CASE WakeEnds
    <2>1. /\ EndWake /\ cur \in Id /\ cur # NoId /\ cur' = NoId
          /\ table[cur].status = "dispatched"
      BY <1>10 DEF WakeEnds, WakeCompletes, WakeFails, WakeTimesOut, EndWake, Owned, TypeOK,
                   Leases, InFlight, Dispatched, InStatus
    <2>2. ASSUME NEW s \in {"done", "failed"}, NEW k \in Nat, RecordOutcome(s, k)
          PROVE  [Life!Next]_(Life!vars)
      <3>1. CASE table' = UpdateStatus(table, cur, s)
        <4>1. \A j \in Id : /\ Phase(j)' = IF j = cur THEN "settled" ELSE Phase(j)
                            /\ table'[j].attempts = table[j].attempts
          BY <1>0, <2>1, <3>1 DEF UpdateStatus, Present, Phase, Table, Row
        <4>2. Life!Settle
          BY <2>1, <4>1 DEF Life!Settle
        <4> QED
          BY <4>2 DEF Life!Next
      <3>2. CASE UNCHANGED table
        BY <2>1, <3>2 DEF Life!Next, Life!Abandon, Phase
      <3> QED
        BY <2>2, <3>1, <3>2 DEF RecordOutcome
    <2>3. CASE Retryable /\ table' = Reschedule(table, cur, tries + 1, RetryGate(tries + 1))
      <3>1. tries = table[cur].attempts /\ tries < MaxRetries
        BY <2>1, <2>3 DEF Leases, Retryable, EndWake
      <3>2. \A j \in Id : /\ Phase(j)' = IF j = cur THEN "waiting" ELSE Phase(j)
                          /\ table'[j].attempts = IF j = cur THEN tries + 1 ELSE table[j].attempts
        BY <1>0, <2>1, <2>3 DEF Reschedule, Present, Phase, Table, Row
      <3>3. Life!Retry
        BY <2>1, <3>1, <3>2 DEF Life!Retry
      <3> QED
        BY <3>3 DEF Life!Next
    <2> QED
      BY <1>10, <2>2, <2>3 DEF WakeEnds, WakeCompletes, WakeFails, WakeTimesOut
  <1>11. CASE UNCHANGED vars
    BY <1>1, <1>11 DEF vars
  <1>12. ASSUME NEW i \in Id, PopUndecoded(i) PROVE [Life!Next]_(Life!vars)
    <2>1. table[i].status = "pending" /\ cur = NoId /\ cur' = cur
      BY <1>12 DEF PopUndecoded, NextRows, Eligible, Pending, InStatus, Owned
    <2>2. \A j \in Id : /\ Phase(j)' = IF j = i THEN "running" ELSE Phase(j)
                        /\ table'[j].attempts = table[j].attempts
      BY <1>0, <1>12, <2>1 DEF PopUndecoded, UpdateStatus, Present, Phase, Table, Row
    <2>3. Life!Mislay(i)
      BY <2>1, <2>2 DEF Life!Mislay, Phase
    <2> QED
      BY <2>3 DEF Life!Next
  <1> QED
    BY <1>2, <1>3, <1>4, <1>5, <1>6, <1>7, <1>8, <1>9, <1>10, <1>11, <1>12
    DEF Next, Environment, Loop, Wake

\* Producers, wakes, retries, crashes, restarts, reclaims and load shedding together
\* implement the abstract life of a stimulus: one mind, no settled stimulus taken
\* again, bounded retries, nothing abandoned for good without a way back.
THEOREM LoopImplementsLifecycle == Spec => ImplementsLifecycle
  <1>1. Init => Clean(table)
    BY DEF Init, Clean, EmptyTable, NoRow
  <1>2. Init => Gated
    BY BoundAssumption DEF Init, Gated, EmptyTable, NoRow
  <1> QED
    BY <1>1, <1>2, CleanStep, GatedStep, LifeInit, LifeStep, LeasesInvariant, TypeCorrect,
       OwnedInvariant, PTL DEF Spec, ImplementsLifecycle, Life!Spec

----------------------------------------------------------------------------
(* The loop keeps the promise of a wake.                                   *)

\* Between wakes the mark is off.
Unmarked == cur = NoId => ~unretryable

\* A pop and the end of a wake take the mark off, and only a wake sets it.
LEMMA UnmarkedStep == Owned /\ Unmarked /\ [Next]_vars => Unmarked'
  <1> SUFFICES ASSUME Owned, Unmarked, [Next]_vars PROVE Unmarked'
    OBVIOUS
  <1> USE DEF Unmarked
  <1>1. CASE Environment
    BY <1>1 DEF Environment, Tick, Produce, Pause, Resume, Start, Sigterm, Crash,
                ExitOnShutdown, LoseProcess, loopVars
  <1>2. CASE Boot \/ Greet \/ Boundary \/ Shed \/ PopNothing \/ PopFails
    BY <1>2 DEF Boot, Greet, Boundary, Shed, PopNothing, PopFails
  <1>3. ASSUME NEW i \in Id, Pop(i) \/ PopUndecoded(i) PROVE Unmarked'
    BY <1>3 DEF Pop, PopUndecoded
  <1>4. ASSUME NEW e \in Effects, WakeActs(e) PROVE Unmarked'
    BY <1>4, IdAssumption DEF WakeActs, Owned
  <1>5. CASE WakeDefers
    BY <1>5 DEF WakeDefers, loopVars
  <1>6. CASE WakeEnds
    BY <1>6 DEF WakeEnds, WakeCompletes, WakeFails, WakeTimesOut, EndWake
  <1>7. CASE UNCHANGED vars
    BY <1>7 DEF vars
  <1> QED
    BY <1>1, <1>2, <1>3, <1>4, <1>5, <1>6, <1>7 DEF Next, Loop, Wake

\* The initial states of the loop map to initial states.
LEMMA WakesInit == Init => Wakes!Init
  BY DEF Init, Wakes!Init, Standing, Count, EmptyTable, NoRow

\* An insert lets a unit arrive, or is ignored.
LEMMA EnqueueArrives ==
  ASSUME TypeOK, UNCHANGED <<cur, unretryable>>,
         NEW i \in Id, NEW p \in Priority, NEW n \in Nat, NEW g \in Nat,
         table' = Enqueue(table, i, NewRow(p, n, g))
  PROVE  [Wakes!Next]_(Wakes!vars)
  <1>1. CASE Present(table, i)
    BY <1>1 DEF Enqueue, Wakes!vars, Standing, Count
  <1>2. CASE ~Present(table, i)
    <2>1. table' = [table EXCEPT ![i] = NewRow(p, n, g)] /\ table[i].status = "absent"
      BY <1>2 DEF Enqueue, Present
    <2>2. /\ \A j \in Id : Standing(j)' = IF j = i THEN "live" ELSE Standing(j)
          /\ Standing(i) = "none"
      BY <2>1 DEF Standing, NewRow, TypeOK, Table
    <2>3. \A j \in Id : Count(j)' = Count(j)
      BY <2>1, <2>2 DEF Count, NewRow, TypeOK, Table
    <2>4. Wakes!Arrive(i)
      BY <2>2, <2>3 DEF Wakes!Arrive
    <2> QED
      BY <2>4 DEF Wakes!Next
  <1> QED
    BY <1>1, <1>2

\* A step of the loop maps to a step of the abstract wakes or to a stutter.
LEMMA WakesStep ==
  TypeOK /\ Owned /\ Leases /\ Unmarked /\ [Next]_vars => [Wakes!Next]_(Wakes!vars)
  <1> SUFFICES ASSUME TypeOK, Owned, Leases, Unmarked, [Next]_vars
               PROVE  [Wakes!Next]_(Wakes!vars)
    OBVIOUS
  <1>0. table \in Table /\ now \in Nat /\ "low" \in Priority /\ unretryable \in BOOLEAN
    BY DEF TypeOK, Priority
  <1>1. CASE UNCHANGED <<table, cur, unretryable>>
    BY <1>1 DEF Wakes!vars, Standing, Count
  <1>2. CASE \/ Tick \/ Pause \/ Resume \/ Start \/ Sigterm \/ Boundary \/ PopNothing
             \/ PopFails
    BY <1>1, <1>2 DEF Tick, Pause, Resume, Start, Sigterm, Boundary, PopNothing, PopFails,
                      durable, loopVars
  <1>3. ASSUME NEW i \in Id, NEW p \in Urgencies, NEW g \in Gates, Produce(i, p, g)
        PROVE  [Wakes!Next]_(Wakes!vars)
    <2>1. p \in Priority /\ (IF g = 0 THEN 0 ELSE now + g) \in Nat
      BY <1>0, BoundAssumption
    <2> QED
      BY <1>0, <1>3, <2>1, EnqueueArrives DEF Produce, loopVars
  <1>4. CASE Crash \/ ExitOnShutdown
    <2>1. UNCHANGED table /\ cur' = NoId /\ unretryable' = FALSE
      BY <1>4 DEF Crash, ExitOnShutdown, LoseProcess, durable
    <2>2. CASE cur # NoId
      BY <2>1, <2>2 DEF Wakes!Next, Wakes!Lose, Wakes!Over, Standing, Count
    <2>3. CASE cur = NoId
      BY <1>0, <1>1, <2>1, <2>3 DEF Unmarked
    <2> QED
      BY <2>2, <2>3
  <1>5. CASE Boot
    <2>1. UNCHANGED <<cur, unretryable>>
      BY <1>5 DEF Boot
    <2>2. CASE table' = ReclaimOrphans(table)
      <3>1. \A i \in Id : Standing(i)' = Standing(i) /\ table'[i].attempts = table[i].attempts
        BY <1>0, <2>2 DEF ReclaimOrphans, Standing, Table, Row
      <3> QED
        BY <2>1, <3>1 DEF Wakes!vars, Count
    <2> QED
      BY <1>1, <1>5, <2>1, <2>2 DEF Boot
  <1>6. CASE Greet
    <2>1. UNCHANGED <<cur, unretryable>>
      BY <1>6 DEF Greet
    <2>2. ASSUME NEW i \in BootId, table' = Enqueue(table, i, NewRow("low", now, 0))
          PROVE  [Wakes!Next]_(Wakes!vars)
      BY <1>0, <2>1, <2>2, EnqueueArrives, IdAssumption
    <2> QED
      BY <1>1, <1>6, <2>1, <2>2 DEF Greet
  <1>7. CASE Shed
    <2>1. UNCHANGED <<cur, unretryable>> /\ cur = NoId
      BY <1>7 DEF Shed, Owned
    <2>2. ASSUME NEW v \in ShedSoFar(table, QueueMaxDepth), table' = Delete(table, v)
          PROVE  Wakes!Forget(v) /\ v \in SUBSET Id
      <3>1. v \in SUBSET Id /\ \A i \in v : Standing(i) = "live" /\ i # cur
        BY <2>1, ShedSoFarType, IdAssumption DEF LowPending, Pending, InStatus, Standing
      <3>2. \A i \in Id : /\ Standing(i)' = IF i \in v THEN "none" ELSE Standing(i)
                          /\ Count(i)' = IF i \in v THEN 0 ELSE Count(i)
        BY <1>0, <2>2 DEF Delete, NoRow, Standing, Count
      <3> QED
        BY <2>1, <3>1, <3>2 DEF Wakes!Forget
    <2> QED
      BY <1>7, <2>2, ShedTakes DEF Wakes!Next
  <1>8. ASSUME NEW i \in Id, Pop(i) PROVE [Wakes!Next]_(Wakes!vars)
    <2>1. /\ table[i].status = "pending" /\ cur = NoId /\ cur' = i
          /\ unretryable' = FALSE /\ unretryable = FALSE
      BY <1>0, <1>8 DEF Pop, NextRows, Eligible, Pending, InStatus, Owned, Unmarked
    <2>2. \A j \in Id : /\ Standing(j)' = Standing(j)
                        /\ table'[j].attempts = table[j].attempts
      BY <1>0, <1>8, <2>1 DEF Pop, UpdateStatus, Present, Standing, Table, Row
    <2>3. Standing(i) = "live" /\ \A j \in Id : Count(j)' = Count(j)
      BY <2>1, <2>2 DEF Standing, Count
    <2>4. Wakes!Open(i)
      BY <2>1, <2>2, <2>3 DEF Wakes!Open
    <2> QED
      BY <2>4 DEF Wakes!Next
  <1>9. CASE WakeDefers
    <2>1. cur \in Id /\ UNCHANGED <<cur, unretryable>>
      BY <1>9 DEF WakeDefers, loopVars, Owned, TypeOK
    <2>2. PICK j \in Id : table' = Enqueue(table, j, NewRow("low", now, 0))
      BY <1>9, <2>1, IdAssumption DEF WakeDefers
    <2> QED
      BY <1>0, <2>1, <2>2, EnqueueArrives
  <1>10. ASSUME NEW e \in Effects, WakeActs(e) PROVE [Wakes!Next]_(Wakes!vars)
    <2>1. UNCHANGED <<table, cur>> /\ cur # NoId
      BY <1>10, IdAssumption DEF WakeActs, durable, Owned
    <2>2. unretryable' = unretryable \/ unretryable' = TRUE
      BY <1>0, <1>10 DEF WakeActs
    <2>3. CASE unretryable' = TRUE
      BY <2>1, <2>3 DEF Wakes!Next, Wakes!Mark, Standing, Count
    <2> QED
      BY <1>1, <2>1, <2>2, <2>3
  <1>11. CASE WakeEnds
    <2>1. /\ EndWake /\ cur \in Id /\ cur # NoId /\ cur' = NoId /\ unretryable' = FALSE
          /\ table[cur].status = "dispatched"
      BY <1>11 DEF WakeEnds, WakeCompletes, WakeFails, WakeTimesOut, EndWake, Owned, TypeOK,
                   Leases, InFlight, Dispatched, InStatus
    <2>2. ASSUME NEW s \in {"done", "failed"}, NEW k \in Nat, RecordOutcome(s, k)
          PROVE  [Wakes!Next]_(Wakes!vars)
      <3>1. CASE table' = UpdateStatus(table, cur, s)
        <4>1. \A j \in Id : /\ Standing(j)' = IF j = cur THEN "ended" ELSE Standing(j)
                            /\ table'[j].attempts = table[j].attempts
          BY <1>0, <2>1, <3>1 DEF UpdateStatus, Present, Standing, Table, Row
        <4>2. \A j \in Id : Count(j)' = IF j = cur THEN 0 ELSE Count(j)
          BY <4>1 DEF Count
        <4>3. Wakes!End
          BY <2>1, <4>1, <4>2 DEF Wakes!End, Wakes!Over
        <4> QED
          BY <4>3 DEF Wakes!Next
      <3>2. CASE UNCHANGED table
        BY <2>1, <3>2 DEF Wakes!Next, Wakes!Lose, Wakes!Over, Standing, Count
      <3> QED
        BY <2>2, <3>1, <3>2 DEF RecordOutcome
    <2>3. CASE Retryable /\ table' = Reschedule(table, cur, tries + 1, RetryGate(tries + 1))
      <3>1. tries = table[cur].attempts /\ tries < MaxRetries /\ ~unretryable
        BY <2>1, <2>3 DEF Leases, Retryable, EndWake
      <3>2. \A j \in Id : /\ Standing(j)' = Standing(j)
                          /\ table'[j].attempts = IF j = cur THEN tries + 1 ELSE table[j].attempts
        BY <1>0, <2>1, <2>3 DEF Reschedule, Present, Standing, Table, Row
      <3>3. /\ Standing(cur) = "live" /\ Count(cur) = tries
            /\ \A j \in Id : Count(j)' = IF j = cur THEN tries + 1 ELSE Count(j)
        BY <2>1, <3>1, <3>2 DEF Standing, Count
      <3>4. Wakes!Retry
        BY <2>1, <3>1, <3>2, <3>3 DEF Wakes!Retry, Wakes!Over
      <3> QED
        BY <3>4 DEF Wakes!Next
    <2> QED
      BY <1>11, <2>2, <2>3 DEF WakeEnds, WakeCompletes, WakeFails, WakeTimesOut
  <1>12. CASE UNCHANGED vars
    BY <1>1, <1>12 DEF vars
  <1>13. ASSUME NEW i \in Id, PopUndecoded(i) PROVE [Wakes!Next]_(Wakes!vars)
    <2>1. table[i].status = "pending" /\ UNCHANGED <<cur, unretryable>>
      BY <1>13 DEF PopUndecoded, NextRows, Eligible, Pending, InStatus
    <2>2. \A j \in Id : /\ Standing(j)' = Standing(j)
                        /\ table'[j].attempts = table[j].attempts
      BY <1>0, <1>13, <2>1 DEF PopUndecoded, UpdateStatus, Present, Standing, Table, Row
    <2>3. \A j \in Id : Count(j)' = Count(j)
      BY <2>2 DEF Count
    <2> QED
      BY <2>1, <2>2, <2>3 DEF Wakes!vars
  <1> QED
    BY <1>2, <1>3, <1>4, <1>5, <1>6, <1>7, <1>8, <1>9, <1>10, <1>11, <1>12, <1>13
    DEF Next, Environment, Loop, Wake

\* The loop and the inside of a wake agree on what a wake is: with retries, lost wakes,
\* restarts and load shedding the loop implements the same abstract wakes as Dispatch.
THEOREM LoopKeepsWakes == Spec => ImplementsWakes
  <1>1. Init => Unmarked
    BY DEF Init, Unmarked
  <1> QED
    BY <1>1, UnmarkedStep, WakesInit, WakesStep, LeasesInvariant, TypeCorrect,
       OwnedInvariant, PTL DEF Spec, ImplementsWakes, Wakes!Spec
=============================================================================
