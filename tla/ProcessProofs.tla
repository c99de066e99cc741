----------------------------- MODULE ProcessProofs -----------------------------
(***************************************************************************)
(* Proofs about the processes beside the loop: the supervised channel      *)
(* modules, for any modules and delays; the detached workers, for any      *)
(* agents, settings and number of them; and the trigger sources, for any   *)
(* duties, rosters, paths, number of reload tasks and channel capacity.    *)
(*                                                                         *)
(* RestartsSlowDown speaks of modules that wait.  What is inductive is     *)
(* that every module's next delay is on its curve, whatever its task does. *)
(* WorkerContained speaks of workers that run, WorkersAccounted of those   *)
(* that ended; what is inductive is what each stage of a worker knows, and *)
(* whose every container is.  FiresOnce and ReloadReachesSources rest on   *)
(* what the wheel sleeps on and on what each reload task has read.         *)
(***************************************************************************)
EXTENDS Supervisor, Workers, Sources, Sequences, TLAPS

----------------------------------------------------------------------------
(* The module supervisor.                                                  *)

\* The delay that belongs after a last delay of `last`, 0 standing for none.
After(last) == IF last = 0 THEN BackoffStart ELSE Smaller(2 * last, BackoffCap)

\* Every module's next delay is on its curve.
OnCurve == \A m \in Module : backoff[m] = After(slept[m])

SupervisorIInv == SupervisorTypeOK /\ OnCurve

\* The bounds of a delay are natural numbers, and 0 is not among them.
LEMMA DelayBounds ==
  /\ BackoffStart \in Nat /\ BackoffCap \in Nat
  /\ 0 < BackoffStart /\ BackoffStart <= BackoffCap
  /\ Enabled \subseteq Module
BY SupervisorAssumption

\* Grown (modules.rs: the doubling, capped) stays within the bounds.
LEMMA GrownStays ==
  ASSUME NEW d \in BackoffStart .. BackoffCap
  PROVE  Grown(d) \in BackoffStart .. BackoffCap
BY DelayBounds DEF Grown, Smaller

\* A delay that was slept is none of the absent ones, and the one after it is its double.
LEMMA AfterASleep ==
  ASSUME NEW d \in BackoffStart .. BackoffCap
  PROVE  d \in 0 .. BackoffCap /\ After(d) = Grown(d)
BY DelayBounds DEF After, Grown, Smaller

\* The supervisor starts on the curve.
LEMMA SupervisorStarts == SupervisorInit => SupervisorIInv
<1> SUFFICES ASSUME SupervisorInit PROVE SupervisorTypeOK /\ OnCurve
  BY DEF SupervisorIInv
<1>1. BackoffStart \in BackoffStart .. BackoffCap /\ 0 \in 0 .. BackoffCap
  BY DelayBounds
<1>2. task \in [Module -> Task]
  BY DEF SupervisorInit, Spawned, Task
<1>3. backoff \in [Module -> BackoffStart .. BackoffCap] /\ slept \in [Module -> 0 .. BackoffCap]
  BY <1>1 DEF SupervisorInit
<1>4. /\ daemon \in BOOLEAN /\ watch \in BOOLEAN /\ child \in [Module -> BOOLEAN]
      /\ orphans \in [Module -> Nat] /\ restarts \in [Module -> Nat] /\ crashes \in Nat
  BY DEF SupervisorInit
<1>5. OnCurve
  BY DEF SupervisorInit, OnCurve, After
<1> QED BY <1>2, <1>3, <1>4, <1>5 DEF SupervisorTypeOK

\* Steps that leave the delays and the history alone keep the curve.
LEMMA DelaysAlone ==
  ASSUME OnCurve, UNCHANGED <<backoff, slept>>
  PROVE  OnCurve'
BY DEF OnCurve, After

\* One task's step keeps the types and the curve.
LEMMA StepKeeps ==
  ASSUME SupervisorIInv, NEW m \in Module, Step(m)
  PROVE  SupervisorIInv'
<1>0. SupervisorTypeOK /\ OnCurve
  BY DEF SupervisorIInv
<1>1. CASE Starts(m)
  <2>1. SupervisorTypeOK'
    BY <1>0, <1>1 DEF SupervisorTypeOK, Starts, Task
  <2>2. OnCurve'
    BY <1>0, <1>1, DelaysAlone DEF Starts
  <2> QED BY <2>1, <2>2 DEF SupervisorIInv
<1>2. CASE SpawnFailed(m)
  <2>1. SupervisorTypeOK'
    BY <1>0, <1>2 DEF SupervisorTypeOK, SpawnFailed, WaitOrStop, Task
  <2>2. OnCurve'
    BY <1>0, <1>2, DelaysAlone DEF SpawnFailed
  <2> QED BY <2>1, <2>2 DEF SupervisorIInv
<1>3. ASSUME NEW healthy \in BOOLEAN, Exited(m, healthy)
      PROVE  SupervisorIInv'
  <2>1. SupervisorTypeOK'
    <3>1. backoff' \in [Module -> BackoffStart .. BackoffCap]
      BY <1>0, <1>3, DelayBounds DEF SupervisorTypeOK, Exited, AfterRun
    <3>2. slept' \in [Module -> 0 .. BackoffCap]
      BY <1>0, <1>3, DelayBounds DEF SupervisorTypeOK, Exited
    <3>3. task' \in [Module -> Task] /\ child' \in [Module -> BOOLEAN]
      BY <1>0, <1>3 DEF SupervisorTypeOK, Exited, WaitOrStop, Task
    <3> QED BY <1>0, <1>3, <3>1, <3>2, <3>3 DEF SupervisorTypeOK, Exited
  <2>2. OnCurve'
    <3>1. CASE healthy
      BY <1>0, <1>3, <3>1 DEF SupervisorTypeOK, OnCurve, After, Exited, AfterRun
    <3>2. CASE ~healthy
      BY <1>0, <1>3, <3>2, DelaysAlone DEF Exited, AfterRun
    <3> QED BY <3>1, <3>2
  <2> QED BY <2>1, <2>2 DEF SupervisorIInv
<1>4. CASE Restarts(m)
  <2>1. backoff[m] \in BackoffStart .. BackoffCap
    BY <1>0 DEF SupervisorTypeOK
  <2>2. /\ Grown(backoff[m]) \in BackoffStart .. BackoffCap
        /\ backoff[m] \in 0 .. BackoffCap
        /\ After(backoff[m]) = Grown(backoff[m])
    BY <2>1, GrownStays, AfterASleep
  <2>3. /\ backoff' = [backoff EXCEPT ![m] = Grown(backoff[m])]
        /\ slept' = [slept EXCEPT ![m] = backoff[m]]
    BY <1>4 DEF Restarts
  <2>4. SupervisorTypeOK'
    <3>1. backoff' \in [Module -> BackoffStart .. BackoffCap] /\ slept' \in [Module -> 0 .. BackoffCap]
      BY <1>0, <2>2, <2>3 DEF SupervisorTypeOK
    <3>2. task' \in [Module -> Task]
      BY <1>0, <1>4 DEF SupervisorTypeOK, Restarts, Task
    <3> QED BY <1>0, <1>4, <3>1, <3>2 DEF SupervisorTypeOK, Restarts
  <2>5. OnCurve'
    <3> SUFFICES ASSUME NEW k \in Module PROVE backoff'[k] = After(slept'[k])
      BY DEF OnCurve, After
    <3>1. CASE k = m
      BY <1>0, <2>2, <2>3, <3>1 DEF SupervisorTypeOK
    <3>2. CASE k # m
      BY <1>0, <2>3, <3>2 DEF SupervisorTypeOK, OnCurve
    <3> QED BY <3>1, <3>2
  <2> QED BY <2>4, <2>5 DEF SupervisorIInv
<1>5. CASE Shutdown(m)
  <2>1. SupervisorTypeOK'
    BY <1>0, <1>5 DEF SupervisorTypeOK, Shutdown, Task
  <2>2. OnCurve'
    BY <1>0, <1>5, DelaysAlone DEF Shutdown
  <2> QED BY <2>1, <2>2 DEF SupervisorIInv
<1> QED BY <1>1, <1>2, <1>3, <1>4, <1>5 DEF Step

\* So does a step of the process.
LEMMA ProcessKeeps ==
  ASSUME SupervisorIInv, Flip \/ MainReturns \/ Killed \/ Reboot
  PROVE  SupervisorIInv'
<1>0. SupervisorTypeOK /\ OnCurve
  BY DEF SupervisorIInv
<1>1. CASE Flip \/ MainReturns \/ Killed
  <2>1. UNCHANGED <<task, backoff, restarts, slept>>
    BY <1>1 DEF Flip, MainReturns, Killed
  <2>2. OnCurve'
    BY <1>0, <2>1, DelaysAlone
  <2>3. daemon' \in BOOLEAN /\ watch' \in BOOLEAN /\ child' \in [Module -> BOOLEAN] /\ crashes' \in Nat
    <3>1. CASE Flip
      BY <1>0, <3>1, Zenon DEF SupervisorTypeOK, Flip
    <3>2. CASE MainReturns
      <4>1. daemon' = FALSE /\ child' = [m \in Module |-> FALSE] /\ UNCHANGED <<watch, crashes>>
        BY <3>2 DEF MainReturns
      <4> QED BY <1>0, <4>1 DEF SupervisorTypeOK
    <3>3. CASE Killed
      <4>1. /\ daemon' = FALSE /\ child' = [m \in Module |-> FALSE] /\ UNCHANGED watch
            /\ crashes' = crashes + 1
        BY <3>3 DEF Killed
      <4>2. crashes' \in Nat
        BY <1>0, <4>1 DEF SupervisorTypeOK
      <4>3. watch' \in BOOLEAN
        BY <1>0, <4>1, Zenon DEF SupervisorTypeOK
      <4> QED BY <4>1, <4>2, <4>3
    <3> QED BY <1>1, <3>1, <3>2, <3>3
  <2>4. orphans' \in [Module -> Nat]
    <3>1. CASE Flip \/ MainReturns
      BY <1>0, <3>1 DEF SupervisorTypeOK, Flip, MainReturns
    <3>2. CASE Killed
      <4>1. \A m \in Module : orphans[m] + (IF child[m] THEN 1 ELSE 0) \in Nat
        BY <1>0 DEF SupervisorTypeOK
      <4> QED BY <3>2, <4>1 DEF Killed
    <3> QED BY <1>1, <3>1, <3>2
  <2> QED BY <1>0, <2>1, <2>2, <2>3, <2>4 DEF SupervisorIInv, SupervisorTypeOK
<1>2. CASE Reboot
  <2>1. BackoffStart \in BackoffStart .. BackoffCap /\ 0 \in 0 .. BackoffCap
    BY DelayBounds
  <2>2. task' \in [Module -> Task]
    BY <1>2 DEF Reboot, Spawned, Task
  <2>3. backoff' \in [Module -> BackoffStart .. BackoffCap] /\ slept' \in [Module -> 0 .. BackoffCap]
    BY <1>2, <2>1 DEF Reboot
  <2>4. /\ daemon' \in BOOLEAN /\ watch' \in BOOLEAN /\ child' \in [Module -> BOOLEAN]
        /\ orphans' \in [Module -> Nat] /\ restarts' \in [Module -> Nat] /\ crashes' \in Nat
    BY <1>0, <1>2 DEF Reboot, SupervisorTypeOK
  <2>5. OnCurve'
    BY <1>2 DEF Reboot, OnCurve, After
  <2> QED BY <2>2, <2>3, <2>4, <2>5 DEF SupervisorIInv, SupervisorTypeOK
<1> QED BY <1>1, <1>2

\* Types and curve hold throughout.
THEOREM SupervisorInvariant == SupervisorSpec => []SupervisorIInv
<1>1. SupervisorIInv /\ [SupervisorNext]_supervisorVars => SupervisorIInv'
  <2> SUFFICES ASSUME SupervisorIInv, [SupervisorNext]_supervisorVars PROVE SupervisorIInv'
    OBVIOUS
  <2>1. CASE \E m \in Module : Step(m)
    BY <2>1, StepKeeps
  <2>2. CASE Flip \/ MainReturns \/ Killed \/ Reboot
    BY <2>2, ProcessKeeps
  <2>3. CASE UNCHANGED supervisorVars
    BY <2>3 DEF supervisorVars, SupervisorIInv, SupervisorTypeOK, OnCurve, After
  <2> QED BY <2>1, <2>2, <2>3 DEF SupervisorNext
<1> QED BY SupervisorStarts, <1>1, PTL DEF SupervisorSpec

\* The supervisor's variables keep their types: a delay is never below the floor, nor
\* above the cap (modules.rs, BACKOFF_START and BACKOFF_CAP).
THEOREM SupervisorTypeCorrect == SupervisorSpec => []SupervisorTypeOK
BY SupervisorInvariant, PTL DEF SupervisorIInv

\* A module that waits to be restarted waits for twice its last delay, up to the cap, and
\* for the floor the first time and after a healthy run (modules.rs:117-133).
THEOREM RestartsSlow == SupervisorSpec => []RestartsSlowDown
<1>1. SupervisorIInv => RestartsSlowDown
  BY DEF SupervisorIInv, OnCurve, After, RestartsSlowDown
<1> QED BY SupervisorInvariant, <1>1, PTL

----------------------------------------------------------------------------
(* Detached workers.                                                       *)

Stage == {"idle", "resolve", "workspace", "start", "running", "reap", "report"}

\* Job records, field by field.
IsJob(j) == j = [at |-> j.at, number |-> j.number, agent |-> j.agent, since |-> j.since,
                 run |-> j.run, launch |-> j.launch]
Jobs(js) == js = [k \in Slot |-> js[k]] /\ \A k \in Slot : IsJob(js[k])

\* What a stage knows: the workspace of a resolved worker is named by the second of its spawn and
\* by a number below the counter, and it is launched by the backend of this boot.
Resolved(k) ==
  /\ AgentFile[job[k].agent] # Missing
  /\ \E n \in 0 .. (seq - 1) : job[k].run = <<Flat[job[k].agent], job[k].since, n>>
  /\ job[k].launch = Launch(job[k].agent, job[k].run)

JobsOK ==
  /\ Jobs(job)
  /\ \A k \in Slot :
       /\ job[k].at \in Stage
       /\ job[k].at # "idle" => /\ up /\ job[k].agent \in Agent
                                /\ job[k].since \in 0 .. second /\ job[k].number \in 1 .. spawned
       /\ job[k].at = "resolve" => job[k].run = NoRun
       /\ job[k].at \notin {"idle", "resolve"} => Resolved(k)

CountersOK ==
  /\ second \in 0 .. MaxSecond /\ seq \in Nat /\ spawned \in 0 .. MaxSpawned /\ mishaps \in Nat
  /\ setting \in Settings /\ docker \in BOOLEAN /\ up \in BOOLEAN /\ backend \in BOOLEAN
  /\ up /\ setting.enabled /\ setting.require => backend

\* No two workers have a number or a workspace in common.
Distinct ==
  \A k, x \in Slot : k # x =>
    /\ job[k].at # "idle" /\ job[x].at # "idle" => job[k].number # job[x].number
    /\ job[k].at \notin {"idle", "resolve"} /\ job[x].at # "idle" => job[k].run # job[x].run

\* A container of an earlier boot.
Old(run) == run[2] < second /\ \A k \in Slot : job[k].at # "idle" => run[2] < job[k].since

\* Containers are named by runs, of this boot or of an earlier one.
NamesOK ==
  \A run \in containers :
    /\ run[2] \in 0 .. second /\ run[3] \in Nat
    /\ Old(run) \/ (up /\ run[3] < seq)

\* A running worker has its container, one that was left behind is nobody's, and any other is of
\* a worker that runs or is about to be reaped.
OwnersOK ==
  /\ leftover \subseteq containers
  /\ \A k \in Slot :
       /\ job[k].at = "running" /\ InContainer(k) => job[k].run \in containers
       /\ job[k].at \in {"workspace", "start", "running", "reap"} => job[k].run \notin leftover
  /\ \A run \in containers \ leftover :
       \E k \in Slot : job[k].at \in {"running", "reap"} /\ InContainer(k) /\ job[k].run = run

\* A worker that has come to its start has its workspace: only a boot sweeps them.
WorkspacesOK == \A k \in Slot : job[k].at \in {"start", "running", "reap", "report"} => job[k].run \in dirs

\* Every number that was given out is at work, lost, or reported by a row.
Told(j) == \E row \in rows : row.agent = ended[j].agent /\ row.at = ended[j].at
ReportsOK ==
  /\ ended = [j \in 1 .. MaxSpawned |-> ended[j]]
  /\ untold \subseteq 1 .. spawned
  /\ \A j \in 1 .. spawned :
       \/ \E k \in Slot : job[k].at # "idle" /\ job[k].number = j
       \/ j \in untold \/ Told(j)
  /\ rows \subseteq [agent : Range(Flat), at : 0 .. MaxSecond, job : 1 .. spawned]

WorkersIInv == JobsOK /\ CountersOK /\ Distinct /\ NamesOK /\ OwnersOK /\ WorkspacesOK /\ ReportsOK

----------------------------------------------------------------------------
(* A slot's step.                                                          *)

\* A slot's step: k goes on to stage s as the same worker, and the others stay.
Goes(k, s) ==
  /\ Jobs(job') /\ job'[k].at = s
  /\ job'[k].number = job[k].number /\ job'[k].agent = job[k].agent
  /\ job'[k].since = job[k].since /\ job'[k].run = job[k].run /\ job'[k].launch = job[k].launch
  /\ \A x \in Slot \ {k} : job'[x] = job[x]

\* A slot is free again.
Frees(k) == Jobs(job') /\ job'[k].at = "idle" /\ \A x \in Slot \ {k} : job'[x] = job[x]

\* An update of the stage alone.
LEMMA GoesOn ==
  ASSUME Jobs(job), NEW k \in Slot, NEW s, job' = [job EXCEPT ![k].at = s]
  PROVE  Goes(k, s)
<1> DEFINE row == [job[k] EXCEPT !.at = s]
<1>1. /\ IsJob(row) /\ row.at = s /\ row.number = job[k].number /\ row.agent = job[k].agent
      /\ row.since = job[k].since /\ row.run = job[k].run /\ row.launch = job[k].launch
  <2>1. IsJob(job[k])
    BY DEF Jobs
  <2> QED BY <2>1 DEF IsJob
<1>2. job' = [x \in Slot |-> IF x = k THEN row ELSE job[x]]
  BY DEF Jobs
<1> HIDE DEF row
<1> QED BY <1>1, <1>2 DEF Jobs, Goes

\* Another job in a slot.
LEMMA Sets ==
  ASSUME Jobs(job), NEW k \in Slot, NEW row, IsJob(row), job' = [job EXCEPT ![k] = row]
  PROVE  Jobs(job') /\ job'[k] = row /\ \A x \in Slot \ {k} : job'[x] = job[x]
<1>1. job' = [x \in Slot |-> IF x = k THEN row ELSE job[x]]
  BY DEF Jobs
<1> QED BY <1>1 DEF Jobs

\* An update that frees the slot.
LEMMA GoesFree ==
  ASSUME Jobs(job), NEW k \in Slot, job' = [job EXCEPT ![k] = Idle]
  PROVE  Frees(k)
<1>1. IsJob(Idle) /\ Idle.at = "idle"
  BY DEF Idle, IsJob
<1> HIDE DEF Idle
<1> QED BY <1>1, Sets DEF Frees

\* The definition is read: the workspace is named, the launch is laid out.
LEMMA Resolves ==
  ASSUME Jobs(job), NEW k \in Slot, Resolve(k)
  PROVE  /\ Jobs(job')
         /\ job'[k].at = "workspace" /\ job'[k].number = job[k].number
         /\ job'[k].agent = job[k].agent /\ job'[k].since = job[k].since
         /\ job'[k].run = RunId(job[k].agent, job[k].since)
         /\ job'[k].launch = Launch(job[k].agent, RunId(job[k].agent, job[k].since))
         /\ \A x \in Slot \ {k} : job'[x] = job[x]
<1> DEFINE run == RunId(job[k].agent, job[k].since)
           launch == Launch(job[k].agent, run)
<1>0. job' = [job EXCEPT ![k].at = "workspace", ![k].run = run, ![k].launch = launch]
  BY DEF Resolve
<1> SUFFICES /\ Jobs(job')
             /\ job'[k].at = "workspace" /\ job'[k].number = job[k].number
             /\ job'[k].agent = job[k].agent /\ job'[k].since = job[k].since
             /\ job'[k].run = run /\ job'[k].launch = launch
             /\ \A x \in Slot \ {k} : job'[x] = job[x]
  OBVIOUS
<1> HIDE DEF run, launch
<1> DEFINE row == [job[k] EXCEPT !.at = "workspace", !.run = run, !.launch = launch]
<1>1. /\ IsJob(row) /\ row.at = "workspace" /\ row.number = job[k].number
      /\ row.agent = job[k].agent /\ row.since = job[k].since
      /\ row.run = run /\ row.launch = launch
  <2>1. PICK a, n, g, t, r, l : job[k] = [at |-> a, number |-> n, agent |-> g, since |-> t, run |-> r,
                                          launch |-> l]
    BY DEF Jobs, IsJob
  <2>2. job[k] \in [at : {a}, number : {n}, agent : {g}, since : {t}, run : {r}, launch : {l}]
    BY <2>1
  <2>3. row \in [at : {"workspace"}, number : {n}, agent : {g}, since : {t}, run : {run},
                 launch : {launch}]
    BY <2>2
  <2>4. job[k].number = n /\ job[k].agent = g /\ job[k].since = t
    BY <2>1
  <2> HIDE DEF row
  <2> QED BY <2>3, <2>4 DEF IsJob
<1>2. job' = [x \in Slot |-> IF x = k THEN row ELSE job[x]]
  BY <1>0 DEF Jobs
<1> HIDE DEF row
<1> QED BY <1>1, <1>2 DEF Jobs

\* A launch is laid out by the agent's file and the backend.
LEMMA LaunchStays ==
  ASSUME UNCHANGED backend, NEW a, NEW run
  PROVE  Launch(a, run)' = Launch(a, run)
BY DEF Launch, Isolated, Helpers, Tools, Volumes, Mounts, Environ, Cwd

----------------------------------------------------------------------------
(* Slots keep to themselves.                                               *)

\* A slot goes on between the stages after the definition was read.
LEMMA GoesKeeps ==
  ASSUME JobsOK, Distinct, UNCHANGED <<outside, seq, spawned>>,
         NEW k \in Slot, NEW s \in Stage \ {"idle", "resolve"}, job[k].at \notin {"idle", "resolve"},
         Goes(k, s)
  PROVE  JobsOK' /\ Distinct'
<1>1. ASSUME NEW x \in Slot
      PROVE  /\ job'[x].at \in Stage
             /\ job'[x].at # "idle" => /\ up /\ job'[x].agent \in Agent
                                       /\ job'[x].since \in 0 .. second /\ job'[x].number \in 1 .. spawned
             /\ job'[x].at = "resolve" => job'[x].run = NoRun
             /\ job'[x].at \notin {"idle", "resolve"} => Resolved(x)'
  <2>1. Resolved(x) => Resolved(x)'
    BY LaunchStays DEF Resolved, Goes, outside
  <2> QED BY <2>1 DEF JobsOK, Goes
<1>2. JobsOK'
  BY <1>1 DEF JobsOK, Goes, outside
<1>3. Distinct'
  BY DEF Distinct, Goes
<1> QED BY <1>2, <1>3

\* A slot is freed.
LEMMA FreesKeeps ==
  ASSUME JobsOK, Distinct, UNCHANGED <<outside, seq, spawned>>, NEW k \in Slot, Frees(k)
  PROVE  JobsOK' /\ Distinct'
<1>1. ASSUME NEW x \in Slot \ {k} PROVE Resolved(x) => Resolved(x)'
  BY LaunchStays DEF Resolved, Frees, outside
<1>2. JobsOK'
  BY <1>1 DEF JobsOK, Frees, outside, Stage
<1>3. Distinct'
  BY DEF Distinct, Frees
<1> QED BY <1>2, <1>3

\* Nothing happens to a worker.
LEMMA StaysKeeps ==
  ASSUME JobsOK, Distinct, second \in Nat, second' \in Nat, second <= second',
         UNCHANGED <<up, backend, seq, spawned, job>>
  PROVE  JobsOK' /\ Distinct'
<1>1. \A x \in Slot : Resolved(x) => Resolved(x)'
  BY LaunchStays DEF Resolved
<1>2. 0 .. second \subseteq 0 .. second'
  OBVIOUS
<1> QED BY <1>1, <1>2 DEF JobsOK, Distinct

\* A name of a workspace is no empty name, and not the root.
LEMMA NamesAreRuns ==
  ASSUME NEW a, NEW b, NEW c
  PROVE  <<a, b, c>> # NoRun /\ <<a, b, c>> # Root
<1>1. Len(<<a, b, c>>) = 3 /\ Len(NoRun) = 0 /\ Len(Root) = 1
  BY DEF NoRun, Root
<1> QED BY <1>1

\* A worker is spawned into a free slot.
LEMMA SpawnsJob ==
  ASSUME Jobs(job), NEW k \in Slot, NEW a \in Agent, Spawn(k, a)
  PROVE  /\ Jobs(job') /\ job'[k].at = "resolve" /\ job'[k].number = spawned + 1
         /\ job'[k].agent = a /\ job'[k].since = second /\ job'[k].run = NoRun
         /\ \A x \in Slot \ {k} : job'[x] = job[x]
<1> DEFINE row == [Idle EXCEPT !.at = "resolve", !.number = spawned + 1, !.agent = a, !.since = second]
<1>1. /\ IsJob(row) /\ row.at = "resolve" /\ row.number = spawned + 1 /\ row.agent = a
      /\ row.since = second /\ row.run = NoRun
  <2>1. Idle \in [at : {"idle"}, number : {0}, agent : {""}, since : {0}, run : {NoRun}, launch : {<< >>}]
    BY DEF Idle
  <2>2. row \in [at : {"resolve"}, number : {spawned + 1}, agent : {a}, since : {second},
                 run : {NoRun}, launch : {<< >>}]
    BY <2>1
  <2> HIDE DEF row
  <2> QED BY <2>2 DEF IsJob
<1>2. job' = [job EXCEPT ![k] = row]
  BY DEF Spawn
<1> HIDE DEF row
<1> QED BY <1>1, <1>2, Sets

\* The daemon's tasks are gone.
LEMMA DiesJob ==
  ASSUME DaemonDies
  PROVE  Jobs(job') /\ \A k \in Slot : job'[k].at = "idle"
<1>1. IsJob(Idle) /\ Idle.at = "idle"
  BY DEF Idle, IsJob
<1> HIDE DEF Idle
<1>2. job' = [k \in Slot |-> Idle]
  BY DEF DaemonDies
<1> QED BY <1>1, <1>2 DEF Jobs

\* What every step of a slot does to it: it is spawned, resolved, goes on, or is freed.
Steps(k) ==
  \/ \E a \in Agent : Spawn(k, a)
  \/ Resolve(k)
  \/ MakeWorkspace(k) /\ Goes(k, "start")
  \/ Start(k) /\ Goes(k, "running")
  \/ StartFails(k) /\ Goes(k, "reap")
  \/ /\ \E killed \in BOOLEAN : InvocationEnds(k, killed)
     /\ Goes(k, IF InContainer(k) THEN "reap" ELSE "report")
  \/ (Reap(k) \/ ReapFails(k)) /\ Goes(k, "report")
  \/ (Unlaunched(k) \/ NoWorkspace(k) \/ Report(k)) /\ Frees(k)

\* Every disjunct of WorkersNext that is about a slot is one of these.
LEMMA SlotSteps ==
  ASSUME Jobs(job), NEW k \in Slot,
         \/ \E a \in Agent : Spawn(k, a)
         \/ Unlaunched(k) \/ Resolve(k) \/ MakeWorkspace(k) \/ NoWorkspace(k)
         \/ Start(k) \/ StartFails(k) \/ \E killed \in BOOLEAN : InvocationEnds(k, killed)
         \/ Reap(k) \/ ReapFails(k) \/ Report(k)
  PROVE  Steps(k)
<1>1. CASE MakeWorkspace(k)
  BY <1>1, GoesOn DEF MakeWorkspace, Steps
<1>2. CASE Start(k)
  BY <1>2, GoesOn DEF Start, Steps
<1>3. CASE StartFails(k)
  BY <1>3, GoesOn DEF StartFails, Steps
<1>4. CASE \E killed \in BOOLEAN : InvocationEnds(k, killed)
  <2>1. job' = [job EXCEPT ![k].at = IF InContainer(k) THEN "reap" ELSE "report"]
    BY <1>4 DEF InvocationEnds
  <2> QED BY <1>4, <2>1, GoesOn DEF Steps
<1>5. CASE Reap(k) \/ ReapFails(k)
  BY <1>5, GoesOn DEF Reap, ReapFails, Steps
<1>6. CASE Unlaunched(k) \/ NoWorkspace(k) \/ Report(k)
  <2>1. job' = [job EXCEPT ![k] = Idle]
    BY <1>6 DEF Unlaunched, NoWorkspace, Report, Completed
  <2> QED BY <1>6, <2>1, GoesFree DEF Steps
<1> QED BY <1>1, <1>2, <1>3, <1>4, <1>5, <1>6 DEF Steps

\* Counters, settings and the backend that the settings require.
LEMMA CountersStep ==
  ASSUME CountersOK, [WorkersNext]_workersVars
  PROVE  CountersOK' /\ second <= second'
<1>1. MaxSecond \in Nat /\ MaxSpawned \in Nat /\ MaxMishaps \in Nat
  BY WorkersAssumption
<1>2. Settings \subseteq [enabled : BOOLEAN, image : BOOLEAN, ignored : BOOLEAN, require : BOOLEAN]
  BY WorkersAssumption
<1>3. CASE BootWorkers
  <2>1. /\ setting.enabled \in BOOLEAN /\ setting.image \in BOOLEAN /\ setting.ignored \in BOOLEAN
        /\ setting.require \in BOOLEAN /\ docker \in BOOLEAN
    BY <1>2 DEF CountersOK
  <2>2. setting.enabled /\ setting.require => docker
    BY <1>3, <2>1 DEF BootWorkers, Refuses
  <2>3. /\ UNCHANGED <<second, docker, setting, spawned, mishaps>>
        /\ up' = TRUE /\ seq' = 0 /\ backend' = (setting.enabled /\ docker)
    BY <1>3 DEF BootWorkers
  <2>4. backend' \in BOOLEAN /\ (setting.enabled /\ setting.require => backend')
    BY <2>1, <2>2, <2>3
  <2> QED BY <1>1, <2>3, <2>4 DEF CountersOK
<1>4. CASE ASecond \/ DockerChanges \/ DaemonDies \/ \E run \in leftover : ContainerEnds(run)
  <2>1. CASE ASecond
    BY <1>1, <2>1 DEF CountersOK, ASecond
  <2>2. CASE DockerChanges
    <3>1. docker' \in BOOLEAN /\ UNCHANGED <<second, up, setting, backend, seq, spawned>>
      BY <2>2 DEF DockerChanges
    <3>2. mishaps' = mishaps + 1
      BY <2>2 DEF DockerChanges, Mishap
    <3> QED BY <1>1, <3>1, <3>2 DEF CountersOK
  <2>3. CASE DaemonDies
    <3>1. /\ second' = second + 1 /\ second < MaxSecond /\ up' = FALSE /\ mishaps' = mishaps + 1
          /\ UNCHANGED <<docker, setting, backend, seq, spawned>>
      BY <2>3 DEF DaemonDies, Mishap
    <3>2. up' \in BOOLEAN /\ ~up'
      BY <3>1
    <3>3. second' \in 0 .. MaxSecond /\ mishaps' \in Nat /\ second <= second'
      BY <1>1, <3>1 DEF CountersOK
    <3> QED BY <3>1, <3>2, <3>3 DEF CountersOK
  <2>4. CASE \E run \in leftover : ContainerEnds(run)
    <3>1. UNCHANGED <<outside, seq, spawned, mishaps>>
      BY <2>4 DEF ContainerEnds
    <3> QED BY <1>1, <3>1 DEF CountersOK, outside
  <2> QED BY <1>4, <2>1, <2>2, <2>3, <2>4
<1>5. ASSUME NEW k \in Slot, NEW a \in Agent, Spawn(k, a) PROVE CountersOK' /\ second <= second'
  BY <1>1, <1>5 DEF CountersOK, Spawn, outside
<1>6. ASSUME NEW k \in Slot, Resolve(k) PROVE CountersOK' /\ second <= second'
  BY <1>1, <1>6 DEF CountersOK, Resolve, outside
<1>7. ASSUME NEW k \in Slot, Unlaunched(k) \/ NoWorkspace(k) \/ Report(k)
      PROVE  CountersOK' /\ second <= second'
  BY <1>1, <1>7 DEF CountersOK, Unlaunched, NoWorkspace, Report, Completed, Mishap, outside
<1>8. ASSUME NEW k \in Slot,
             \/ MakeWorkspace(k) \/ Start(k) \/ StartFails(k)
             \/ \E killed \in BOOLEAN : InvocationEnds(k, killed)
             \/ Reap(k) \/ ReapFails(k)
      PROVE  CountersOK' /\ second <= second'
  BY <1>1, <1>8 DEF CountersOK, MakeWorkspace, Start, StartFails, InvocationEnds, Reap, ReapFails, outside
<1>9. CASE UNCHANGED workersVars
  BY <1>1, <1>9 DEF CountersOK, workersVars
<1> QED BY <1>3, <1>4, <1>5, <1>6, <1>7, <1>8, <1>9 DEF WorkersNext

\* Numbers and workspaces stay apart.
LEMMA JobsStep ==
  ASSUME JobsOK, CountersOK, Distinct, [WorkersNext]_workersVars
  PROVE  JobsOK' /\ Distinct'
<1>0. /\ Jobs(job) /\ second \in Nat /\ spawned \in Nat /\ seq \in Nat
      /\ second' \in Nat /\ second <= second'
  BY CountersStep, WorkersAssumption DEF JobsOK, CountersOK
<1>1. ASSUME NEW k \in Slot, NEW a \in Agent, Spawn(k, a) PROVE JobsOK' /\ Distinct'
  <2>1. /\ Jobs(job') /\ job'[k].at = "resolve" /\ job'[k].number = spawned + 1
        /\ job'[k].agent = a /\ job'[k].since = second /\ job'[k].run = NoRun
        /\ \A x \in Slot \ {k} : job'[x] = job[x]
    BY <1>0, <1>1, SpawnsJob
  <2>2. UNCHANGED <<outside, seq>> /\ up /\ spawned' = spawned + 1
    BY <1>1 DEF Spawn
  <2>3. \A x \in Slot \ {k} : Resolved(x) => Resolved(x)'
    BY <2>1, <2>2, LaunchStays DEF Resolved, outside
  <2>4. JobsOK'
    BY <1>0, <2>1, <2>2, <2>3 DEF JobsOK, outside, Stage
  <2>5. ASSUME NEW x \in Slot \ {k}, job[x].at # "idle"
        PROVE  /\ job[x].number # spawned + 1
               /\ job[x].at # "resolve" => job[x].run # NoRun
    <3>1. job[x].number \in 1 .. spawned
      BY <2>5 DEF JobsOK
    <3>2. job[x].at # "resolve" => \E n : job[x].run = <<Flat[job[x].agent], job[x].since, n>>
      BY <2>5 DEF JobsOK, Resolved
    <3>3. job[x].at # "resolve" => job[x].run # NoRun
      BY <3>2, NamesAreRuns, Zenon
    <3>4. job[x].number # spawned + 1
      BY <1>0, <3>1
    <3> QED BY <3>3, <3>4
  <2> QED BY <2>1, <2>4, <2>5 DEF Distinct
<1>2. ASSUME NEW k \in Slot, Resolve(k) PROVE JobsOK' /\ Distinct'
  <2>1. PICK run, agent : agent = job[k].agent /\ run = RunId(agent, job[k].since)
    OBVIOUS
  <2>2. /\ UNCHANGED <<outside, spawned>> /\ seq' = seq + 1 /\ backend' = backend
        /\ job[k].at = "resolve" /\ AgentFile[job[k].agent] # Missing
    BY <1>2 DEF Resolve, outside
  <2>3. run = <<Flat[job[k].agent], job[k].since, seq>>
    BY <2>1 DEF RunId
  <2>4. /\ Jobs(job') /\ job'[k].at = "workspace" /\ job'[k].number = job[k].number
        /\ job'[k].agent = job[k].agent /\ job'[k].since = job[k].since
        /\ job'[k].run = run /\ job'[k].launch = Launch(agent, run)
        /\ \A x \in Slot \ {k} : job'[x] = job[x]
    BY <1>0, <1>2, <2>1, Resolves
  <2>5. seq \in 0 .. (seq' - 1) /\ 0 .. (seq - 1) \subseteq 0 .. (seq' - 1)
    BY <1>0, <2>2
  <2>6. Resolved(k)'
    <3>1. AgentFile[job'[k].agent] # Missing
      BY <2>2, <2>4
    <3>2. \E n \in 0 .. (seq' - 1) : job'[k].run = <<Flat[job'[k].agent], job'[k].since, n>>
      BY <2>3, <2>4, <2>5
    <3>3. Launch(agent, run)' = Launch(agent, run)
      BY <2>2, LaunchStays
    <3>4. job'[k].launch = Launch(job[k].agent, job[k].run)'
      BY <2>1, <2>4, <3>3
    <3> QED BY <3>1, <3>2, <3>4 DEF Resolved
  <2>7. \A x \in Slot \ {k} : Resolved(x) => Resolved(x)'
    BY <2>2, <2>4, <2>5, LaunchStays DEF Resolved, outside
  <2>8. JobsOK'
    BY <2>2, <2>4, <2>6, <2>7 DEF JobsOK, outside, Stage
  <2>9. ASSUME NEW x \in Slot \ {k}, job[x].at # "idle" PROVE job[x].run # run
    <3>1. CASE job[x].at = "resolve"
      BY <2>3, <3>1, NamesAreRuns DEF JobsOK
    <3>2. CASE job[x].at # "resolve"
      <4>1. PICK n \in 0 .. (seq - 1) : job[x].run = <<Flat[job[x].agent], job[x].since, n>>
        BY <2>9, <3>2 DEF JobsOK, Resolved
      <4>2. n # seq
        BY <1>0
      <4> QED BY <2>3, <4>1, <4>2
    <3> QED BY <3>1, <3>2
  <2>10. ASSUME NEW x \in Slot \ {k}
         PROVE  /\ job'[x].at # "idle" => job'[x].number # job'[k].number /\ job'[x].run # job'[k].run
    BY <2>2, <2>4, <2>9 DEF Distinct
  <2>11. ASSUME NEW x \in Slot \ {k}, NEW y \in Slot \ {k}, x # y
         PROVE  /\ job'[y].at # "idle" /\ job'[x].at # "idle" => job'[y].number # job'[x].number
                /\ job'[y].at \notin {"idle", "resolve"} /\ job'[x].at # "idle"
                     => job'[y].run # job'[x].run
    BY <2>4, <2>11 DEF Distinct
  <2> QED BY <2>8, <2>10, <2>11 DEF Distinct
<1>3. ASSUME NEW k \in Slot, Steps(k), ~(\E a \in Agent : Spawn(k, a)), ~Resolve(k)
      PROVE  JobsOK' /\ Distinct'
  <2>1. CASE \/ MakeWorkspace(k) /\ Goes(k, "start")
             \/ Start(k) /\ Goes(k, "running")
             \/ StartFails(k) /\ Goes(k, "reap")
             \/ (\E killed \in BOOLEAN : InvocationEnds(k, killed))
                  /\ Goes(k, IF InContainer(k) THEN "reap" ELSE "report")
             \/ (Reap(k) \/ ReapFails(k)) /\ Goes(k, "report")
    <3>1. UNCHANGED <<outside, seq, spawned>> /\ job[k].at \notin {"idle", "resolve"}
      BY <2>1 DEF MakeWorkspace, Start, StartFails, InvocationEnds, Reap, ReapFails
    <3>2. \E s \in Stage \ {"idle", "resolve"} : Goes(k, s)
      BY <2>1 DEF Stage
    <3> QED BY <3>1, <3>2, GoesKeeps
  <2>2. CASE (Unlaunched(k) \/ NoWorkspace(k) \/ Report(k)) /\ Frees(k)
    <3>1. UNCHANGED <<outside, seq, spawned>>
      BY <2>2 DEF Unlaunched, NoWorkspace, Report, outside
    <3> QED BY <2>2, <3>1, FreesKeeps
  <2> QED BY <1>3, <2>1, <2>2 DEF Steps
<1>4. CASE DaemonDies
  BY <1>4, DiesJob DEF JobsOK, Distinct, Stage
<1>5. CASE BootWorkers
  <2>1. \A k \in Slot : job[k].at = "idle"
    BY <1>5 DEF BootWorkers, JobsOK
  <2> QED BY <1>5, <2>1 DEF BootWorkers, JobsOK, Distinct
<1>6. CASE ASecond \/ DockerChanges \/ (\E run \in leftover : ContainerEnds(run)) \/ UNCHANGED workersVars
  <2>1. UNCHANGED <<up, backend, seq, spawned, job>>
    BY <1>6 DEF ASecond, DockerChanges, ContainerEnds, workersVars, outside
  <2> QED BY <1>0, <2>1, StaysKeeps
<1> QED BY <1>0, <1>1, <1>2, <1>3, <1>4, <1>5, <1>6, SlotSteps DEF WorkersNext

\* What the name of a resolved worker's workspace says.
LEMMA RunParts ==
  ASSUME JobsOK, CountersOK, NEW k \in Slot, job[k].at \notin {"idle", "resolve"}
  PROVE  /\ job[k].run[2] = job[k].since /\ job[k].run[2] \in 0 .. second
         /\ job[k].run[3] \in Nat /\ job[k].run[3] < seq /\ up
<1>1. PICK n \in 0 .. (seq - 1) : job[k].run = <<Flat[job[k].agent], job[k].since, n>>
  BY DEF JobsOK, Resolved
<1> QED BY <1>1 DEF JobsOK, CountersOK

\* A container of an earlier boot stays one: workers are spawned now.
LEMMA OldStays ==
  ASSUME NEW run, run[2] \in Int, second \in Nat, second' \in Nat, second <= second', Old(run),
         \A x \in Slot : \/ job'[x].at = "idle" \/ job'[x].since = second
                         \/ job[x].at # "idle" /\ job'[x].since = job[x].since
  PROVE  Old(run)'
BY DEF Old

\* What is known of a container that exists.
LEMMA KnownRun ==
  ASSUME NamesOK, NEW run \in containers
  PROVE  /\ run[2] \in 0 .. second /\ run[3] \in Nat
         /\ Old(run) \/ (up /\ run[3] < seq)
BY DEF NamesOK

\* Containers are of this boot's numbers, or of earlier seconds.
LEMMA NamesStep ==
  ASSUME JobsOK, CountersOK, NamesOK, [WorkersNext]_workersVars
  PROVE  NamesOK'
<1>0. Jobs(job) /\ second \in Nat /\ second' \in Nat /\ second <= second' /\ seq \in Nat
  BY CountersStep, WorkersAssumption DEF JobsOK, CountersOK
<1>1. CASE DaemonDies
  <2>1. /\ \A k \in Slot : job'[k].at = "idle"
        /\ second' = second + 1 /\ containers' = containers
    BY <1>1, DiesJob DEF DaemonDies
  <2>2. ASSUME NEW run \in containers PROVE run[2] \in 0 .. second' /\ run[3] \in Nat /\ Old(run)'
    <3>1. run[2] \in 0 .. second /\ run[3] \in Nat
      BY KnownRun
    <3>2. run[2] < second'
      BY <1>0, <2>1, <3>1
    <3> QED BY <1>0, <2>1, <3>1, <3>2 DEF Old
  <2> QED BY <2>1, <2>2 DEF NamesOK
<1>2. CASE BootWorkers
  <2>1. ~up /\ UNCHANGED <<second, job, containers>>
    BY <1>2 DEF BootWorkers
  <2> QED BY <2>1 DEF NamesOK, Old
<1>3. CASE ASecond \/ DockerChanges \/ (\E run \in leftover : ContainerEnds(run)) \/ UNCHANGED workersVars
  <2>1. UNCHANGED <<up, seq, job>> /\ containers' \subseteq containers
    BY <1>3 DEF ASecond, DockerChanges, ContainerEnds, workersVars, outside
  <2>2. ASSUME NEW run \in containers PROVE Old(run) => Old(run)'
    <3>1. run[2] \in 0 .. second
      BY KnownRun
    <3>2. run[2] < second => run[2] < second'
      BY <1>0, <3>1
    <3> QED BY <2>1, <3>2 DEF Old
  <2> QED BY <1>0, <2>1, <2>2 DEF NamesOK
<1>4. ASSUME NEW k \in Slot, Steps(k) PROVE NamesOK'
  <2>1. /\ UNCHANGED <<second, up>> /\ seq' \in Nat /\ seq <= seq'
    <3>1. UNCHANGED outside /\ (seq' = seq \/ seq' = seq + 1)
      BY <1>4 DEF Steps, Spawn, Resolve, MakeWorkspace, Start, StartFails, InvocationEnds, Reap,
                  ReapFails, Unlaunched, NoWorkspace, Report
    <3> QED BY <1>0, <3>1 DEF outside
  <2>2. \A x \in Slot : \/ job'[x].at = "idle" \/ job'[x].since = second
                        \/ job[x].at # "idle" /\ job'[x].since = job[x].since
    <3>1. CASE \E a \in Agent : Spawn(k, a)
      <4>1. job'[k].since = second /\ \A x \in Slot \ {k} : job'[x] = job[x]
        BY <1>0, <3>1, SpawnsJob
      <4>2. job'[k].since = second /\ \A x \in Slot \ {k} : job'[x].since = job[x].since /\ job'[x].at = job[x].at
        BY <4>1
      <4> QED BY <4>2
    <3>2. CASE Resolve(k)
      <4>1. /\ job'[k].since = job[k].since /\ \A x \in Slot \ {k} : job'[x] = job[x]
            /\ job[k].at # "idle"
        BY <1>0, <3>2, Resolves DEF Resolve
      <4> QED BY <4>1
    <3>3. CASE (\E s : Goes(k, s)) /\ job[k].at # "idle"
      BY <3>3 DEF Goes
    <3>4. CASE Frees(k)
      BY <3>4 DEF Frees
    <3> QED BY <1>4, <3>1, <3>2, <3>3, <3>4
            DEF Steps, MakeWorkspace, Start, StartFails, InvocationEnds, Reap, ReapFails
  <2>3. ASSUME NEW run \in containers PROVE Old(run) => Old(run)'
    <3>1. run[2] \in Int
      BY <1>0, KnownRun
    <3> QED BY <1>0, <2>1, <2>2, <3>1, OldStays
  <2>4. CASE containers' \subseteq containers
    <3>1. ASSUME NEW run \in containers
          PROVE  /\ run[2] \in 0 .. second' /\ run[3] \in Nat
                 /\ Old(run)' \/ (up' /\ run[3] < seq')
      BY <1>0, <2>1, <2>3, KnownRun
    <3> QED BY <2>4, <3>1 DEF NamesOK
  <2>5. CASE Start(k) /\ containers' = containers \cup {job[k].run}
    <3>1. /\ job[k].run[2] \in 0 .. second /\ job[k].run[3] \in Nat /\ job[k].run[3] < seq /\ up
      BY <2>5, RunParts DEF Start
    <3>2. ASSUME NEW run \in containers
          PROVE  /\ run[2] \in 0 .. second' /\ run[3] \in Nat
                 /\ Old(run)' \/ (up' /\ run[3] < seq')
      BY <1>0, <2>1, <2>3, KnownRun
    <3>3. job[k].run[3] < seq' /\ job[k].run[2] \in 0 .. second' /\ up'
      BY <1>0, <2>1, <3>1
    <3> QED BY <2>5, <3>1, <3>2, <3>3 DEF NamesOK
  <2> QED BY <1>4, <2>4, <2>5 DEF Steps, Spawn, Resolve, MakeWorkspace, Start, StartFails,
             InvocationEnds, Reap, ReapFails, Unlaunched, NoWorkspace, Report
<1> QED BY <1>0, <1>1, <1>2, <1>3, <1>4, SlotSteps DEF WorkersNext

\* The workspace of a worker that is resolved now has no container yet.
LEMMA FreshRun ==
  ASSUME JobsOK, CountersOK, NamesOK, NEW k \in Slot, job[k].at = "resolve"
  PROVE  RunId(job[k].agent, job[k].since) \notin containers
<1>1. /\ RunId(job[k].agent, job[k].since)[2] = job[k].since
      /\ RunId(job[k].agent, job[k].since)[3] = seq
  BY DEF RunId
<1>2. job[k].since \in 0 .. second /\ seq \in Nat /\ second \in Nat
  BY WorkersAssumption DEF JobsOK, CountersOK
<1>3. ~Old(RunId(job[k].agent, job[k].since))
  BY <1>1, <1>2 DEF Old
<1> QED BY <1>1, <1>2, <1>3, KnownRun

\* Containers stay with their workers.
LEMMA OwnersStep ==
  ASSUME JobsOK, CountersOK, Distinct, NamesOK, OwnersOK, [WorkersNext]_workersVars
  PROVE  OwnersOK'
<1>0. Jobs(job)
  BY DEF JobsOK
<1>1. CASE DaemonDies
  BY <1>1, DiesJob DEF DaemonDies, OwnersOK
<1>2. CASE ASecond \/ DockerChanges \/ BootWorkers \/ UNCHANGED workersVars
  <2>1. UNCHANGED <<job, containers, leftover>>
    BY <1>2 DEF ASecond, DockerChanges, BootWorkers, workersVars
  <2> QED BY <2>1 DEF OwnersOK, InContainer
<1>3. ASSUME NEW run \in leftover, ContainerEnds(run) PROVE OwnersOK'
  <2>1. job' = job /\ containers' = containers \ {run} /\ leftover' = leftover \ {run}
    BY <1>3 DEF ContainerEnds
  <2> QED BY <2>1 DEF OwnersOK, InContainer
<1>4. ASSUME NEW k \in Slot, NEW a \in Agent, Spawn(k, a) PROVE OwnersOK'
  <2>1. UNCHANGED <<containers, leftover>> /\ job[k].at = "idle"
    BY <1>4 DEF Spawn
  <2>2. job'[k].at = "resolve" /\ \A x \in Slot \ {k} : job'[x] = job[x]
    BY <1>0, <1>4, SpawnsJob
  <2> QED BY <2>1, <2>2 DEF OwnersOK, InContainer
<1>5. ASSUME NEW k \in Slot, Resolve(k) PROVE OwnersOK'
  <2>1. UNCHANGED <<containers, leftover>> /\ job[k].at = "resolve"
    BY <1>5 DEF Resolve
  <2>2. /\ job'[k].at = "workspace" /\ job'[k].run = RunId(job[k].agent, job[k].since)
        /\ \A x \in Slot \ {k} : job'[x] = job[x]
    BY <1>0, <1>5, Resolves
  <2>3. job'[k].run \notin containers
    BY <2>1, <2>2, FreshRun
  <2> QED BY <2>1, <2>2, <2>3 DEF OwnersOK, InContainer
<1>6. ASSUME NEW k \in Slot, MakeWorkspace(k), Goes(k, "start") PROVE OwnersOK'
  <2>1. UNCHANGED <<containers, leftover>> /\ job[k].at = "workspace"
    BY <1>6 DEF MakeWorkspace
  <2> QED BY <1>6, <2>1 DEF OwnersOK, InContainer, Goes
<1>7. ASSUME NEW k \in Slot, Start(k), Goes(k, "running") PROVE OwnersOK'
  <2>1. /\ leftover' = leftover /\ job[k].at = "start"
        /\ containers' = IF InContainer(k) THEN containers \cup {job[k].run} ELSE containers
    BY <1>7 DEF Start
  <2> QED BY <1>7, <2>1 DEF OwnersOK, InContainer, Goes
<1>8. ASSUME NEW k \in Slot, StartFails(k), Goes(k, "reap") PROVE OwnersOK'
  <2>1. UNCHANGED <<containers, leftover>> /\ job[k].at = "start"
    BY <1>8 DEF StartFails
  <2> QED BY <1>8, <2>1 DEF OwnersOK, InContainer, Goes
<1>9. ASSUME NEW k \in Slot, job[k].at \in {"running", "reap"}
      PROVE  \A x \in Slot \ {k} :
               job[x].at \notin {"idle", "resolve"} => job[x].run # job[k].run
  BY <1>9 DEF Distinct
<1>10. ASSUME NEW k \in Slot, NEW killed \in BOOLEAN, InvocationEnds(k, killed),
              Goes(k, IF InContainer(k) THEN "reap" ELSE "report")
       PROVE  OwnersOK'
  <2>1. /\ leftover' = leftover /\ job[k].at = "running"
        /\ containers' = IF killed THEN containers ELSE containers \ {job[k].run}
    BY <1>10 DEF InvocationEnds
  <2>2. \A x \in Slot \ {k} : job[x].at \notin {"idle", "resolve"} => job[x].run # job[k].run
    BY <1>9, <2>1
  <2>3. job[k].run \notin leftover
    BY <2>1 DEF OwnersOK
  <2> QED BY <1>10, <2>1, <2>2, <2>3 DEF OwnersOK, InContainer, Goes
<1>11. ASSUME NEW k \in Slot, Reap(k), Goes(k, "report") PROVE OwnersOK'
  <2>1. /\ job[k].at = "reap" /\ containers' = containers \ {job[k].run}
        /\ leftover' = leftover \ {job[k].run}
    BY <1>11 DEF Reap
  <2>2. \A x \in Slot \ {k} : job[x].at \notin {"idle", "resolve"} => job[x].run # job[k].run
    BY <1>9, <2>1
  <2> QED BY <1>11, <2>1, <2>2 DEF OwnersOK, InContainer, Goes
<1>12. ASSUME NEW k \in Slot, ReapFails(k), Goes(k, "report") PROVE OwnersOK'
  <2>1. /\ job[k].at = "reap" /\ containers' = containers
        /\ leftover' = leftover \cup ({job[k].run} \cap containers)
    BY <1>12 DEF ReapFails
  <2>2. \A x \in Slot \ {k} : job[x].at \notin {"idle", "resolve"} => job[x].run # job[k].run
    BY <1>9, <2>1
  <2> QED BY <1>12, <2>1, <2>2 DEF OwnersOK, InContainer, Goes
<1>13. ASSUME NEW k \in Slot, Unlaunched(k) \/ NoWorkspace(k) \/ Report(k), Frees(k) PROVE OwnersOK'
  <2>1. UNCHANGED <<containers, leftover>> /\ job[k].at \in {"resolve", "workspace", "report"}
    BY <1>13 DEF Unlaunched, NoWorkspace, Report
  <2> QED BY <1>13, <2>1 DEF OwnersOK, InContainer, Frees
<1>14. ASSUME NEW k \in Slot, Steps(k) PROVE OwnersOK'
  BY <1>4, <1>5, <1>6, <1>7, <1>8, <1>10, <1>11, <1>12, <1>13, <1>14 DEF Steps
<1> QED BY <1>0, <1>1, <1>2, <1>3, <1>14, SlotSteps DEF WorkersNext

\* Workspaces stay while their workers are at work.
LEMMA WorkspacesStep ==
  ASSUME JobsOK, WorkspacesOK, [WorkersNext]_workersVars
  PROVE  WorkspacesOK'
<1>0. Jobs(job)
  BY DEF JobsOK
<1>1. CASE DaemonDies
  BY <1>1, DiesJob DEF WorkspacesOK
<1>2. CASE BootWorkers
  <2>1. job' = job /\ \A k \in Slot : job[k].at = "idle"
    BY <1>2 DEF BootWorkers, JobsOK
  <2> QED BY <2>1 DEF WorkspacesOK
<1>3. CASE ASecond \/ DockerChanges \/ (\E run \in leftover : ContainerEnds(run)) \/ UNCHANGED workersVars
  BY <1>3 DEF ASecond, DockerChanges, ContainerEnds, workersVars, WorkspacesOK
<1>4. ASSUME NEW k \in Slot, Steps(k) PROVE WorkspacesOK'
  <2>1. CASE \E a \in Agent : Spawn(k, a)
    <3>1. dirs' = dirs /\ job'[k].at = "resolve" /\ \A x \in Slot \ {k} : job'[x] = job[x]
      BY <1>0, <2>1, SpawnsJob DEF Spawn
    <3> QED BY <3>1 DEF WorkspacesOK
  <2>2. CASE Resolve(k)
    <3>1. dirs' = dirs /\ job'[k].at = "workspace" /\ \A x \in Slot \ {k} : job'[x] = job[x]
      BY <1>0, <2>2, Resolves DEF Resolve
    <3> QED BY <3>1 DEF WorkspacesOK
  <2>3. CASE MakeWorkspace(k) /\ Goes(k, "start")
    <3>1. dirs' = dirs \cup {job[k].run}
      BY <2>3 DEF MakeWorkspace
    <3> QED BY <2>3, <3>1 DEF WorkspacesOK, Goes
  <2>4. CASE \/ Start(k) /\ Goes(k, "running")
             \/ StartFails(k) /\ Goes(k, "reap")
             \/ /\ \E killed \in BOOLEAN : InvocationEnds(k, killed)
                /\ Goes(k, IF InContainer(k) THEN "reap" ELSE "report")
             \/ (Reap(k) \/ ReapFails(k)) /\ Goes(k, "report")
    <3>1. dirs' = dirs /\ job[k].at \in {"start", "running", "reap"}
      BY <2>4 DEF Start, StartFails, InvocationEnds, Reap, ReapFails
    <3>2. job'[k].run = job[k].run /\ \A x \in Slot \ {k} : job'[x] = job[x]
      BY <2>4 DEF Goes
    <3> QED BY <3>1, <3>2 DEF WorkspacesOK
  <2>5. CASE (Unlaunched(k) \/ NoWorkspace(k) \/ Report(k)) /\ Frees(k)
    <3>1. dirs' = dirs
      BY <2>5 DEF Unlaunched, NoWorkspace, Report
    <3> QED BY <2>5, <3>1 DEF WorkspacesOK, Frees
  <2> QED BY <1>4, <2>1, <2>2, <2>3, <2>4, <2>5 DEF Steps
<1> QED BY <1>0, <1>1, <1>2, <1>3, <1>4, SlotSteps DEF WorkersNext

\* Every worker that was given a number is at work, lost or told of.
LEMMA ReportsStep ==
  ASSUME JobsOK, CountersOK, Distinct, ReportsOK, [WorkersNext]_workersVars
  PROVE  ReportsOK'
<1>0. /\ Jobs(job) /\ spawned \in 0 .. MaxSpawned /\ second \in 0 .. MaxSecond
      /\ MaxSpawned \in Nat /\ MaxSecond \in Nat
  BY WorkersAssumption DEF JobsOK, CountersOK
<1>1. CASE DaemonDies
  <2>1. /\ untold' = untold \cup {job[k].number : k \in Live} /\ UNCHANGED <<rows, spawned, ended>>
    BY <1>1 DEF DaemonDies
  <2>2. \A k \in Slot : job[k].at # "idle" => job[k].number \in untold' /\ job[k].number \in 1 .. spawned
    BY <2>1 DEF Live, JobsOK
  <2>3. untold' \subseteq 1 .. spawned
    BY <2>1, <2>2 DEF Live, ReportsOK
  <2> QED BY <2>1, <2>2, <2>3 DEF ReportsOK, Told
<1>2. CASE ASecond \/ DockerChanges \/ BootWorkers \/ (\E run \in leftover : ContainerEnds(run))
           \/ UNCHANGED workersVars
  <2>1. UNCHANGED <<job, untold, rows, spawned, ended>>
    BY <1>2 DEF ASecond, DockerChanges, BootWorkers, ContainerEnds, workersVars
  <2> QED BY <2>1 DEF ReportsOK, Told
<1>3. ASSUME NEW k \in Slot, NEW a \in Agent, Spawn(k, a) PROVE ReportsOK'
  <2>1. UNCHANGED <<untold, rows, ended>> /\ job[k].at = "idle" /\ spawned' = spawned + 1
    BY <1>3 DEF Spawn
  <2>2. /\ job'[k].at = "resolve" /\ job'[k].number = spawned + 1
        /\ \A x \in Slot \ {k} : job'[x] = job[x]
    BY <1>0, <1>3, SpawnsJob
  <2>3. 1 .. spawned' = (1 .. spawned) \cup {spawned + 1}
    BY <1>0, <2>1
  <2>4. ASSUME NEW j \in 1 .. spawned
        PROVE  (\E x \in Slot : job'[x].at # "idle" /\ job'[x].number = j) \/ j \in untold \/ Told(j)
    BY <2>1, <2>2 DEF ReportsOK
  <2>5. \E x \in Slot : job'[x].at # "idle" /\ job'[x].number = spawned + 1
    BY <2>2
  <2>6. \A j \in 1 .. spawned : Told(j) => Told(j)'
    BY <2>1 DEF Told
  <2>7. rows \subseteq [agent : Range(Flat), at : 0 .. MaxSecond, job : 1 .. spawned']
    BY <2>3 DEF ReportsOK
  <2>8. untold \subseteq 1 .. spawned' /\ ended = [j \in 1 .. MaxSpawned |-> ended[j]]
    BY <2>3 DEF ReportsOK
  <2> QED BY <2>1, <2>3, <2>4, <2>5, <2>6, <2>7, <2>8 DEF ReportsOK
<1>4. ASSUME NEW k \in Slot, Frees(k), NEW at \in 0 .. MaxSecond, NEW fails \in BOOLEAN,
             Completed(k, at, fails), job[k].at # "idle", spawned' = spawned
      PROVE  ReportsOK'
  <2>0. PICK n, agent : n = job[k].number /\ agent = Flat[job[k].agent]
    OBVIOUS
  <2>1. n \in 1 .. spawned /\ n \in 1 .. MaxSpawned /\ agent \in Range(Flat)
    <3>1. n \in 1 .. spawned /\ job[k].agent \in Agent
      BY <1>4, <2>0 DEF JobsOK
    <3>2. Flat \in [Agent -> STRING]
      BY WorkersAssumption
    <3> QED BY <1>0, <2>0, <3>1, <3>2 DEF Range
  <2>2. ended' = [ended EXCEPT ![n] = [agent |-> agent, at |-> at]]
    <3>1. ended' = [ended EXCEPT ![job[k].number] = [agent |-> Flat[job[k].agent], at |-> at]]
      BY <1>4 DEF Completed
    <3> QED BY <2>0, <3>1
  <2>3. /\ ended' = [j \in 1 .. MaxSpawned |-> ended'[j]]
        /\ ended'[n] = [agent |-> agent, at |-> at]
        /\ \A j \in (1 .. MaxSpawned) \ {n} : ended'[j] = ended[j]
    BY <2>1, <2>2 DEF ReportsOK
  <2>4. /\ rows \subseteq rows' /\ untold \subseteq untold' /\ untold' \subseteq untold \cup {n}
        /\ rows' \subseteq rows \cup {[agent |-> agent, at |-> at, job |-> n]}
        /\ n \in untold' \/ \E row \in rows' : row.agent = agent /\ row.at = at
    <3>1. CASE fails
      <4>1. rows' = rows /\ untold' = untold \cup {job[k].number}
        BY <1>4, <3>1 DEF Completed
      <4> QED BY <2>0, <4>1
    <3>2. CASE ~fails
      <4>1. untold' = untold
        BY <1>4, <3>2 DEF Completed
      <4>2. rows' = IF \E row \in rows : row.agent = agent /\ row.at = at THEN rows
                    ELSE rows \cup {[agent |-> agent, at |-> at, job |-> n]}
        <5>1. rows' = IF \E row \in rows : row.agent = Flat[job[k].agent] /\ row.at = at THEN rows
                      ELSE rows \cup {[agent |-> Flat[job[k].agent], at |-> at, job |-> job[k].number]}
          BY <1>4, <3>2 DEF Completed
        <5> QED BY <2>0, <5>1
      <4>3. \E row \in rows' : row.agent = agent /\ row.at = at
        <5>1. CASE \E row \in rows : row.agent = agent /\ row.at = at
          BY <4>2, <5>1
        <5>2. CASE ~\E row \in rows : row.agent = agent /\ row.at = at
          <6>1. [agent |-> agent, at |-> at, job |-> n] \in rows'
            BY <4>2, <5>2
          <6> QED BY <6>1
        <5> QED BY <5>1, <5>2
      <4>4. rows \subseteq rows' /\ rows' \subseteq rows \cup {[agent |-> agent, at |-> at, job |-> n]}
        BY <4>2
      <4> QED BY <4>1, <4>3, <4>4
    <3> QED BY <3>1, <3>2
  <2>5. n \in untold' \/ Told(n)'
    BY <2>3, <2>4 DEF Told
  <2>6. ASSUME NEW j \in (1 .. spawned) \ {n}
        PROVE  (\E x \in Slot : job'[x].at # "idle" /\ job'[x].number = j) \/ j \in untold' \/ Told(j)'
    <3>1. CASE \E x \in Slot : job[x].at # "idle" /\ job[x].number = j
      BY <1>4, <2>0, <3>1 DEF Frees
    <3>2. CASE j \in untold
      BY <2>4, <3>2
    <3>3. CASE Told(j)
      <4>1. ended'[j] = ended[j]
        BY <1>0, <2>3
      <4> QED BY <2>4, <3>3, <4>1 DEF Told
    <3> QED BY <3>1, <3>2, <3>3 DEF ReportsOK
  <2>7. untold' \subseteq 1 .. spawned
    BY <2>1, <2>4 DEF ReportsOK
  <2>8. rows' \subseteq [agent : Range(Flat), at : 0 .. MaxSecond, job : 1 .. spawned]
    <3>1. [agent |-> agent, at |-> at, job |-> n] \in [agent : Range(Flat), at : 0 .. MaxSecond, job : 1 .. spawned]
      BY <1>4, <2>1
    <3> QED BY <2>4, <3>1 DEF ReportsOK
  <2> QED BY <1>4, <2>3, <2>5, <2>6, <2>7, <2>8 DEF ReportsOK
<1>5. ASSUME NEW k \in Slot, UNCHANGED <<untold, rows, spawned, ended>>, job[k].at # "idle",
             job'[k].at # "idle", job'[k].number = job[k].number, \A x \in Slot \ {k} : job'[x] = job[x]
      PROVE  ReportsOK'
  <2>1. \A x \in Slot : job[x].at # "idle" => job'[x].at # "idle" /\ job'[x].number = job[x].number
    BY <1>5
  <2>2. \A j \in 1 .. spawned :
          \/ \E x \in Slot : job'[x].at # "idle" /\ job'[x].number = j
          \/ j \in untold \/ Told(j)
    BY <2>1 DEF ReportsOK
  <2>3. /\ ended = [j \in 1 .. MaxSpawned |-> ended[j]] /\ untold \subseteq 1 .. spawned
        /\ rows \subseteq [agent : Range(Flat), at : 0 .. MaxSecond, job : 1 .. spawned]
    BY DEF ReportsOK
  <2>4. \A j : Told(j)' <=> Told(j)
    BY <1>5 DEF Told
  <2> QED BY <1>5, <2>2, <2>3, <2>4 DEF ReportsOK
<1>6. ASSUME NEW k \in Slot, Steps(k) PROVE ReportsOK'
  <2>1. CASE \E a \in Agent : Spawn(k, a)
    BY <1>3, <2>1
  <2>2. CASE Resolve(k)
    <3>1. UNCHANGED <<untold, rows, spawned, ended>> /\ job[k].at = "resolve"
      BY <2>2 DEF Resolve
    <3>2. /\ job'[k].at = "workspace" /\ job'[k].number = job[k].number
          /\ \A x \in Slot \ {k} : job'[x] = job[x]
      BY <1>0, <2>2, Resolves
    <3> QED BY <1>5, <3>1, <3>2
  <2>3. CASE \/ MakeWorkspace(k) /\ Goes(k, "start")
             \/ Start(k) /\ Goes(k, "running")
             \/ StartFails(k) /\ Goes(k, "reap")
             \/ (\E killed \in BOOLEAN : InvocationEnds(k, killed))
                  /\ Goes(k, IF InContainer(k) THEN "reap" ELSE "report")
             \/ (Reap(k) \/ ReapFails(k)) /\ Goes(k, "report")
    <3>1. UNCHANGED <<untold, rows, spawned, ended>> /\ job[k].at # "idle"
      BY <2>3 DEF MakeWorkspace, Start, StartFails, InvocationEnds, Reap, ReapFails
    <3>2. \E s \in Stage \ {"idle"} : Goes(k, s)
      BY <2>3 DEF Stage
    <3>3. /\ job'[k].at # "idle" /\ job'[k].number = job[k].number
          /\ \A x \in Slot \ {k} : job'[x] = job[x]
      BY <3>2 DEF Goes
    <3> QED BY <1>5, <3>1, <3>3
  <2>4. CASE (Unlaunched(k) \/ NoWorkspace(k) \/ Report(k)) /\ Frees(k)
    <3>1. job[k].at # "idle" /\ spawned' = spawned
      BY <2>4 DEF Unlaunched, NoWorkspace, Report
    <3>2. job[k].since \in 0 .. MaxSecond
      BY <1>0, <3>1 DEF JobsOK
    <3>3. \E at \in 0 .. MaxSecond, fails \in BOOLEAN : Completed(k, at, fails)
      BY <1>0, <2>4, <3>2 DEF Unlaunched, NoWorkspace, Report
    <3> QED BY <1>4, <2>4, <3>1, <3>3
  <2> QED BY <1>6, <2>1, <2>2, <2>3, <2>4 DEF Steps
<1> QED BY <1>0, <1>1, <1>2, <1>6, SlotSteps DEF WorkersNext

----------------------------------------------------------------------------
\* No worker is at work at first, and nothing exists.
LEMMA WorkersInitial == WorkersInit => WorkersIInv
<1> SUFFICES ASSUME WorkersInit PROVE WorkersIInv
  OBVIOUS
<1>1. IsJob(Idle) /\ Idle.at = "idle"
  BY DEF Idle, IsJob
<1>2. Jobs(job) /\ \A k \in Slot : job[k].at = "idle"
  <2> HIDE DEF Idle
  <2>1. job = [k \in Slot |-> Idle]
    BY DEF WorkersInit
  <2> QED BY <1>1, <2>1 DEF Jobs
<1>3. JobsOK /\ Distinct
  BY <1>2 DEF JobsOK, Distinct, Stage
<1>4. CountersOK
  <2>1. /\ MaxSecond \in Nat /\ MaxSpawned \in Nat
        /\ second = 0 /\ seq = 0 /\ spawned = 0 /\ mishaps = 0 /\ setting \in Settings
    BY WorkersAssumption DEF WorkersInit
  <2>2. docker \in BOOLEAN /\ up \in BOOLEAN /\ backend \in BOOLEAN /\ ~up
    BY DEF WorkersInit
  <2> QED BY <2>1, <2>2 DEF CountersOK
<1>5. NamesOK /\ OwnersOK
  BY <1>2 DEF WorkersInit, NamesOK, OwnersOK
<1>6. WorkspacesOK
  BY <1>2 DEF WorkspacesOK
<1>7. ReportsOK
  <2>1. /\ spawned = 0 /\ untold = {} /\ rows = {}
        /\ ended = [j \in 1 .. MaxSpawned |-> NoRun]
    BY DEF WorkersInit
  <2> QED BY <2>1 DEF ReportsOK
<1> QED BY <1>3, <1>4, <1>5, <1>6, <1>7 DEF WorkersIInv

\* The strengthening is an invariant of the specification.
LEMMA WorkersInvariant == WorkersSpec => []WorkersIInv
<1>1. WorkersIInv /\ [WorkersNext]_workersVars => WorkersIInv'
  BY JobsStep, CountersStep, NamesStep, OwnersStep, WorkspacesStep, ReportsStep DEF WorkersIInv
<1> QED BY WorkersInitial, <1>1, PTL DEF WorkersSpec

\* harness/mod.rs run_worker_detached: for any agents, settings and number of workers, a worker's
\* agent is one, its number was given out, a completion is of an agent and a second there were,
\* and a container left behind is one.
THEOREM WorkersTypeCorrect == WorkersSpec => []WorkersTypeOK
<1>1. WorkersIInv => WorkersTypeOK
  <2> SUFFICES ASSUME WorkersIInv PROVE WorkersTypeOK
    OBVIOUS
  <2>1. \A k \in Slot :
          /\ job[k].at \in {"idle", "resolve", "workspace", "start", "running", "reap", "report"}
          /\ job[k].at # "idle" => job[k].agent \in Agent /\ job[k].number \in 1 .. spawned
    BY DEF WorkersIInv, JobsOK, Stage
  <2>2. spawned \in Nat /\ seq \in Nat /\ mishaps \in Nat
    BY WorkersAssumption DEF WorkersIInv, CountersOK
  <2> QED BY <2>1, <2>2 DEF WorkersIInv, CountersOK, OwnersOK, ReportsOK, WorkersTypeOK
<1> QED BY WorkersInvariant, <1>1, PTL

\* harness/mod.rs run_worker_detached: for any agents, settings and number of workers at once, one
\* that has ended is reported by a row, unless a crash or a failing insert lost its report, and no
\* container outlives its worker, unless a crash or an unreachable Docker left it behind.
THEOREM WorkersAlwaysAccounted == WorkersSpec => []WorkersAccounted
<1>1. WorkersIInv => WorkersAccounted
  <2> SUFFICES ASSUME WorkersIInv PROVE WorkersAccounted
    OBVIOUS
  <2>1. \A j \in 1 .. spawned \ ({job[k].number : k \in Live} \cup untold) :
          \E row \in rows : row.agent = ended[j].agent /\ row.at = ended[j].at
    BY DEF WorkersIInv, ReportsOK, Told, Live
  <2>2. containers \ leftover
          \subseteq {job[k].run : k \in {x \in Live : job[x].at \in {"running", "reap"}}}
    BY DEF WorkersIInv, OwnersOK, Live
  <2> QED BY <2>1, <2>2 DEF WorkersAccounted
<1> QED BY WorkersInvariant, <1>1, PTL

\* harness/mod.rs run_worker_detached, cli/mod.rs build_worker_backend: for any agents, files,
\* settings and number of workers at once, a running worker has a workspace of its own; one whose
\* agent asks for Docker where the settings require it is in a container; and one in a container
\* still has it, writes nothing but that workspace and reads nothing else but its agent's volumes.
THEOREM WorkersStayContained == WorkersSpec => []WorkerContained
<1>1. WorkersIInv => WorkerContained
  <2> SUFFICES ASSUME WorkersIInv, NEW k \in Live, job[k].at = "running"
               PROVE  LET def == AgentFile[job[k].agent]
                          run == job[k].run IN
                      /\ run \in dirs /\ run \notin leftover
                      /\ \A j \in Live \ {k} : job[j].run # run
                      /\ def.docker /\ setting.enabled /\ setting.require => InContainer(k)
                      /\ InContainer(k) =>
                           /\ run \in containers
                           /\ \A place \in Place :
                                /\ MayWrite(k, place) => place = run
                                /\ MayRead(k, place) => place \in {run} \cup (def.volumes \cap Soul)
    BY DEF WorkerContained
  <2> DEFINE a == job[k].agent
             run == job[k].run
             l == job[k].launch
  <2>1. k \in Slot /\ up /\ l = Launch(a, run) /\ \E n : run = <<Flat[a], job[k].since, n>>
    BY DEF WorkersIInv, JobsOK, Resolved, Live
  <2>2. run \in dirs /\ run \notin leftover
    BY <2>1 DEF WorkersIInv, OwnersOK, WorkspacesOK
  <2>3. \A j \in Live \ {k} : job[j].run # run
    BY <2>1 DEF WorkersIInv, Distinct, Live
  <2>4. setting.enabled /\ setting.require => backend
    BY <2>1 DEF WorkersIInv, CountersOK
  <2>5. InContainer(k) => run \in containers
    BY <2>1 DEF WorkersIInv, OwnersOK
  <2>6. InContainer(k) <=> l.where = "container"
    BY DEF InContainer
  <2>7. run # Root /\ Root \notin Soul
    BY <2>1, NamesAreRuns, WorkersAssumption
  <2>8. ASSUME NEW place
        PROVE  /\ MayRead(k, place) <=> \E m \in l.mounts : m.host \in {place, Root}
               /\ MayWrite(k, place) <=> \E m \in l.mounts : m.host \in {place, Root} /\ m.writable
    BY DEF MayRead, MayWrite
  <2> HIDE DEF a, run, l
  <2>9. l.where = (IF Isolated(a) THEN "container" ELSE "host") /\ l.mounts = Mounts(a, run)
    BY <2>1 DEF Launch
  <2>10. AgentFile[a].docker /\ setting.enabled /\ setting.require => InContainer(k)
    BY <2>4, <2>6, <2>9 DEF Isolated
  <2>11. ASSUME InContainer(k), NEW m \in l.mounts
         PROVE  /\ m.writable => m.host = run
                /\ m.host = run \/ m.host \in AgentFile[a].volumes \cap Soul
    BY <2>6, <2>9, <2>11 DEF Mounts, Volumes
  <2>12. ASSUME InContainer(k), NEW place
         PROVE  /\ MayWrite(k, place) => place = run
                /\ MayRead(k, place) => place \in {run} \cup (AgentFile[a].volumes \cap Soul)
    <3>1. ASSUME NEW m \in l.mounts PROVE m.host # Root
      BY <2>7, <2>11, <2>12
    <3> QED BY <2>8, <2>11, <2>12, <3>1
  <2> QED BY <2>2, <2>3, <2>5, <2>10, <2>12 DEF a, run
<1> QED BY WorkersInvariant, <1>1, PTL

----------------------------------------------------------------------------
(* The trigger sources: the tables.                                        *)

\* The cron routes of a roster are duties with instants of the clock.
LEMMA RoutesOfRoster ==
  ASSUME NEW r \in Roster
  PROVE  /\ DOMAIN CronRoutes(r) \subseteq Duty
         /\ \A d \in DOMAIN CronRoutes(r) : CronRoutes(r)[d] \subseteq 1 .. MaxClock
<1>1. r \in [Duty -> Trigger]
  BY SourcesAssumption
<1>2. ASSUME NEW d \in Duty, r[d].kind = "cron" PROVE r[d].at \subseteq 1 .. MaxClock
  BY <1>1, <1>2 DEF Trigger
<1> QED BY <1>2 DEF CronRoutes

\* The schedule at first has no duty.
LEMMA EmptySchedule == DOMAIN << >> = {}
OBVIOUS

\* What the wheel sleeps on: instants of duties.
LEMMA SnapshotFits ==
  ASSUME SourcesTypeOK
  PROVE  /\ DOMAIN wheel.snapshot \subseteq Duty
         /\ \A d \in DOMAIN wheel.snapshot : wheel.snapshot[d] \subseteq 1 .. MaxClock
<1>1. wheel.snapshot \in Schedules \cup {<< >>}
  BY DEF SourcesTypeOK
<1>2. CASE wheel.snapshot = << >>
  BY <1>2, EmptySchedule
<1>3. CASE wheel.snapshot \in Schedules
  <2>1. PICK r \in Roster : wheel.snapshot = CronRoutes(r)
    BY <1>3 DEF Schedules
  <2> QED BY <2>1, RoutesOfRoster
<1> QED BY <1>1, <1>2, <1>3

\* A tick is an instant of its duty after the wheel's now, and a duty has one at most.
LEMMA TicksFit ==
  ASSUME SourcesTypeOK
  PROVE  /\ Ticks \subseteq Duty \X (1 .. MaxClock)
         /\ \A tick \in Ticks : tick[2] > wheel.now
         /\ \A s, t \in Ticks : s[1] = t[1] => s = t
<1>1. ASSUME NEW tick \in Ticks
      PROVE  \E d \in DOMAIN wheel.snapshot : \E x \in NextFire(wheel.snapshot[d], wheel.now) :
               tick = <<d, x>>
  BY DEF Ticks
<1>2. ASSUME NEW d \in DOMAIN wheel.snapshot, NEW x \in NextFire(wheel.snapshot[d], wheel.now)
      PROVE  d \in Duty /\ x \in 1 .. MaxClock /\ x > wheel.now
  BY SnapshotFits DEF NextFire, Later
<1>3. ASSUME NEW d \in DOMAIN wheel.snapshot,
             NEW x \in NextFire(wheel.snapshot[d], wheel.now),
             NEW y \in NextFire(wheel.snapshot[d], wheel.now)
      PROVE  x = y
  <2>1. x <= y /\ y <= x
    BY DEF NextFire
  <2>2. x \in 1 .. MaxClock /\ y \in 1 .. MaxClock
    BY <1>2
  <2> QED BY <2>1, <2>2, SourcesAssumption
<1>4. Ticks \subseteq Duty \X (1 .. MaxClock)
  BY <1>1, <1>2
<1>5. ASSUME NEW tick \in Ticks PROVE tick[2] > wheel.now
  BY <1>1, <1>2
<1>6. ASSUME NEW s \in Ticks, NEW t \in Ticks, s[1] = t[1] PROVE s = t
  <2>1. PICK d \in DOMAIN wheel.snapshot : \E x \in NextFire(wheel.snapshot[d], wheel.now) :
               s = <<d, x>>
    BY <1>1
  <2>2. PICK e \in DOMAIN wheel.snapshot : \E x \in NextFire(wheel.snapshot[e], wheel.now) :
               t = <<e, x>>
    BY <1>1
  <2>3. d = e
    BY <2>1, <2>2, <1>6
  <2> QED BY <2>1, <2>2, <2>3, <1>3
<1> QED BY <1>4, <1>5, <1>6

----------------------------------------------------------------------------
(* Types.                                                                  *)

\* A request that waits for room names a duty.
Requested == request.at # "none" => request.def \in Duty

Typed == SourcesTypeOK /\ Requested

\* Wheel, tables and reload tasks have their types before the boot.
LEMMA InitTyped == SourcesInit => Typed
<1> SUFFICES ASSUME SourcesInit PROVE Typed
  OBVIOUS
<1>1. clock = 0 /\ 0 \in 0 .. MaxClock
  BY SourcesAssumption DEF SourcesInit
<1>2. schedules \in Schedules
  BY SourcesAssumption DEF SourcesInit, Schedules
<1>3. reload \in [Reloader -> [at : {"swap", "schedule", "notify", "routes"}, roster : Roster]
                              \cup {IdleReload}]
  BY DEF SourcesInit
<1>4. wheel \in [at : {"plan", "sleep", "fire"}, snapshot : Schedules \cup {<< >>},
                 now : 0 .. clock, due : SUBSET (Duty \X (1 .. clock))]
  BY <1>1 DEF SourcesInit, Fresh
<1>5. channel \in Seq(Duty) /\ Len(channel) <= Capacity
  BY SourcesAssumption DEF SourcesInit
<1>6. request \in [at : {"none", "body", "send"}, def : Duty \cup {NoDuty}] /\ Requested
  BY DEF SourcesInit, NoRequest, Requested
<1>7. lastFire \in [Duty -> 0 .. clock]
  BY <1>1 DEF SourcesInit
<1>8. {events, changes, posts} \subseteq Nat
  BY DEF SourcesInit
<1>9. {watching, permit, overlap, unseen} \subseteq BOOLEAN
  BY DEF SourcesInit
<1>10. disk \in Roster /\ registry \in Roster
  BY SourcesAssumption DEF SourcesInit
<1>11. routes \in [HookPath -> Duty \cup {NoDuty}]
  BY DEF SourcesInit, WebhookRoutes
<1> QED BY <1>1, <1>2, <1>3, <1>4, <1>5, <1>6, <1>7, <1>8, <1>9, <1>10, <1>11 DEF Typed, SourcesTypeOK

\* The clock moves on: what was within it stays within it.
LEMMA TimeKeepsTypes == Typed /\ TimePasses => Typed'
<1> SUFFICES ASSUME Typed, TimePasses PROVE Typed'
  OBVIOUS
<1>1. clock' \in 0 .. MaxClock /\ 0 .. clock \subseteq 0 .. clock' /\ 1 .. clock \subseteq 1 .. clock'
  BY SourcesAssumption DEF Typed, SourcesTypeOK, TimePasses
<1>2. wheel \in [at : {"plan", "sleep", "fire"}, snapshot : Schedules \cup {<< >>},
                 now : 0 .. clock', due : SUBSET (Duty \X (1 .. clock'))]
  BY <1>1 DEF Typed, SourcesTypeOK
<1>3. lastFire \in [Duty -> 0 .. clock']
  BY <1>1 DEF Typed, SourcesTypeOK
<1> QED BY <1>1, <1>2, <1>3 DEF Typed, SourcesTypeOK, Requested, TimePasses, tables, reloadVars, wheelVars

\* The wheel's steps.
LEMMA WheelKeepsTypes ==
  ASSUME Typed, Plan \/ WakeWheel \/ Notified \/ (\E tick \in wheel.due : Fire(tick))
  PROVE  Typed'
<1> DEFINE Wheel == [at : {"plan", "sleep", "fire"}, snapshot : Schedules \cup {<< >>},
                     now : 0 .. clock, due : SUBSET (Duty \X (1 .. clock))]
<1>0. wheel \in Wheel /\ clock \in 0 .. MaxClock
  BY DEF Typed, SourcesTypeOK
<1>1. CASE Plan
  <2>1. wheel' \in Wheel
    BY <1>0, <1>1, SourcesAssumption DEF Plan, Typed, SourcesTypeOK
  <2> QED BY <1>1, <2>1 DEF Plan, Typed, SourcesTypeOK, Requested, tables, reloadVars
<1>2. CASE WakeWheel
  <2>1. {tick \in Ticks : tick[2] <= clock} \subseteq Duty \X (1 .. clock)
    <3>1. ASSUME NEW tick \in Ticks, tick[2] <= clock PROVE tick \in Duty \X (1 .. clock)
      <4>1. tick \in Duty \X (1 .. MaxClock)
        BY TicksFit DEF Typed
      <4>2. tick[2] \in 1 .. clock
        BY <4>1, <3>1, <1>0, SourcesAssumption
      <4> QED BY <4>1, <4>2
    <3> QED BY <3>1
  <2>2. wheel' \in Wheel
    BY <1>0, <1>2, <2>1 DEF WakeWheel
  <2> QED BY <1>2, <2>2 DEF WakeWheel, Typed, SourcesTypeOK, Requested, tables, reloadVars
<1>3. CASE Notified
  <2>1. wheel' \in Wheel
    BY <1>0, <1>3 DEF Notified
  <2>2. {watching', permit', overlap', unseen'} \subseteq BOOLEAN
    BY <1>3 DEF Notified, Typed, SourcesTypeOK, reloadVars
  <2> QED BY <1>3, <2>1, <2>2 DEF Notified, Typed, SourcesTypeOK, Requested, reloadVars
<1>4. ASSUME NEW tick \in wheel.due, Fire(tick) PROVE Typed'
  <2>1. tick[1] \in Duty /\ tick[2] \in 0 .. clock
    BY <1>0, SourcesAssumption
  <2>2. wheel' \in Wheel
    BY <1>0, <1>4 DEF Fire
  <2>3. channel' \in Seq(Duty) /\ Len(channel') <= Capacity
    <3> DEFINE d == tick[1]
    <3>1. channel \in Seq(Duty) /\ Len(channel) < Capacity /\ channel' = Append(channel, d)
      BY <1>4 DEF Fire, Typed, SourcesTypeOK
    <3>2. d \in Duty
      BY <2>1
    <3> HIDE DEF d
    <3> QED BY <3>1, <3>2, SourcesAssumption
  <2>4. lastFire' \in [Duty -> 0 .. clock]
    BY <1>4, <2>1 DEF Fire, Typed, SourcesTypeOK
  <2> QED BY <1>4, <2>2, <2>3, <2>4 DEF Fire, Typed, SourcesTypeOK, Requested, tables, reloadVars
<1> QED BY <1>1, <1>2, <1>3, <1>4

\* The listener's steps, and the ingestor's.
LEMMA ListenerKeepsTypes ==
  ASSUME Typed,
         (\E p \in HookPath : Post(p)) \/ (\E good \in BOOLEAN : Body(good)) \/ Accepted \/ TakeFired
  PROVE  Typed'
<1> DEFINE Request == [at : {"none", "body", "send"}, def : Duty \cup {NoDuty}]
<1>1. ASSUME NEW p \in HookPath, Post(p) PROVE Typed'
  <2>1. routes[p] \in Duty
    BY <1>1 DEF Post, Typed, SourcesTypeOK
  <2>2. request' \in Request /\ Requested'
    BY <1>1, <2>1 DEF Post, Requested
  <2>3. {events', changes', posts'} \subseteq Nat
    BY <1>1 DEF Post, Typed, SourcesTypeOK
  <2> QED BY <1>1, <2>2, <2>3 DEF Post, Typed, SourcesTypeOK, tables, reloadVars, wheelVars
<1>2. ASSUME NEW good \in BOOLEAN, Body(good) PROVE Typed'
  <2>1. request' \in Request /\ Requested'
    BY <1>2 DEF Body, Requested, NoRequest, Typed, SourcesTypeOK
  <2> QED BY <1>2, <2>1 DEF Body, Typed, SourcesTypeOK, tables, reloadVars, wheelVars
<1>3. CASE Accepted
  <2>1. request.def \in Duty
    BY <1>3 DEF Accepted, Typed, Requested
  <2>2. channel' \in Seq(Duty) /\ Len(channel') <= Capacity
    BY <1>3, <2>1, SourcesAssumption DEF Accepted, Typed, SourcesTypeOK
  <2>3. request' \in Request /\ Requested'
    BY <1>3 DEF Accepted, Requested, NoRequest
  <2> QED BY <1>3, <2>2, <2>3 DEF Accepted, Typed, SourcesTypeOK, tables, reloadVars, wheelVars
<1>4. CASE TakeFired
  <2>1. channel' \in Seq(Duty) /\ Len(channel') <= Capacity
    BY <1>4, SourcesAssumption DEF TakeFired, Typed, SourcesTypeOK
  <2> QED BY <1>4, <2>1 DEF TakeFired, Typed, SourcesTypeOK, Requested, tables, reloadVars, wheelVars
<1> QED BY <1>1, <1>2, <1>3, <1>4

\* The reload's steps, and what they answer to.
LEMMA ReloadKeepsTypes ==
  ASSUME Typed,
         \/ \E r \in Roster : Edit(r)
         \/ Watch
         \/ \E k \in Reloader : Load(k) \/ Swap(k) \/ SetSchedules(k) \/ Notify(k) \/ SetRoutes(k)
  PROVE  Typed'
<1> DEFINE Work == [at : {"swap", "schedule", "notify", "routes"}, roster : Roster]
           Flags == {watching', permit', overlap', unseen'}
<1>0. reload \in [Reloader -> Work \cup {IdleReload}]
  BY DEF Typed, SourcesTypeOK
<1>1. ASSUME NEW r \in Roster, Edit(r) PROVE Typed'
  <2>1. {events', changes', posts'} \subseteq Nat
    BY <1>1 DEF Edit, Typed, SourcesTypeOK
  <2>2. Flags \subseteq BOOLEAN
    <3>1. unseen' \in BOOLEAN
      BY <1>1 DEF Edit
    <3> QED BY <1>1, <3>1 DEF Edit, Typed, SourcesTypeOK, tables
  <2> QED BY <1>1, <2>1, <2>2 DEF Edit, Typed, SourcesTypeOK, Requested, tables, wheelVars
<1>2. CASE Watch
  <2>1. Flags \subseteq BOOLEAN
    BY <1>2 DEF Watch, Typed, SourcesTypeOK, tables, reloadVars
  <2> QED BY <1>2, <2>1 DEF Watch, Typed, SourcesTypeOK, Requested, tables, reloadVars, wheelVars
<1>3. ASSUME NEW k \in Reloader, reload[k].at # "idle"
      PROVE  /\ reload[k] \in Work
             /\ \A at \in {"schedule", "notify", "routes"} :
                  Goto(k, at) => reload' \in [Reloader -> Work \cup {IdleReload}]
  <2>1. reload[k] \in Work
    BY <1>0, <1>3 DEF IdleReload
  <2> QED BY <1>0, <2>1 DEF Goto
<1>4. ASSUME NEW k \in Reloader, Load(k) PROVE Typed'
  <2>1. {events', changes', posts'} \subseteq Nat
    BY <1>4 DEF Load, Typed, SourcesTypeOK
  <2>2. reload' \in [Reloader -> Work \cup {IdleReload}]
    BY <1>0, <1>4 DEF Load, Typed, SourcesTypeOK
  <2>3. Flags \subseteq BOOLEAN
    <3>1. overlap' \in BOOLEAN /\ unseen' \in BOOLEAN
      BY <1>4 DEF Load
    <3> QED BY <1>4, <3>1 DEF Load, Typed, SourcesTypeOK, tables
  <2> QED BY <1>4, <2>1, <2>2, <2>3 DEF Load, Typed, SourcesTypeOK, Requested, tables, wheelVars
<1>5. ASSUME NEW k \in Reloader, Swap(k) PROVE Typed'
  <2>1. reload[k] \in Work /\ reload' \in [Reloader -> Work \cup {IdleReload}]
    BY <1>3, <1>5 DEF Swap
  <2> QED BY <1>5, <2>1 DEF Swap, Typed, SourcesTypeOK, Requested, wheelVars
<1>6. ASSUME NEW k \in Reloader, SetSchedules(k) PROVE Typed'
  <2>1. reload[k] \in Work /\ reload' \in [Reloader -> Work \cup {IdleReload}]
    BY <1>3, <1>6 DEF SetSchedules
  <2>2. schedules' \in Schedules
    BY <1>6, <2>1 DEF SetSchedules, Schedules
  <2> QED BY <1>6, <2>1, <2>2 DEF SetSchedules, Typed, SourcesTypeOK, Requested, wheelVars
<1>7. ASSUME NEW k \in Reloader, Notify(k) PROVE Typed'
  <2>1. reload' \in [Reloader -> Work \cup {IdleReload}]
    BY <1>3, <1>7 DEF Notify
  <2>2. Flags \subseteq BOOLEAN
    BY <1>7 DEF Notify, Typed, SourcesTypeOK
  <2> QED BY <1>7, <2>1, <2>2 DEF Notify, Typed, SourcesTypeOK, Requested, wheelVars
<1>8. ASSUME NEW k \in Reloader, SetRoutes(k) PROVE Typed'
  <2>1. reload' \in [Reloader -> Work \cup {IdleReload}]
    BY <1>0, <1>8 DEF SetRoutes
  <2>2. routes' \in [HookPath -> Duty \cup {NoDuty}]
    BY <1>8 DEF SetRoutes, WebhookRoutes
  <2> QED BY <1>8, <2>1, <2>2 DEF SetRoutes, Typed, SourcesTypeOK, Requested, wheelVars
<1> QED BY <1>1, <1>2, <1>4, <1>5, <1>6, <1>7, <1>8

\* A step that changes nothing breaks no type.
LEMMA StutterKeepsTypes == Typed /\ UNCHANGED sourcesVars => Typed'
<1> SUFFICES ASSUME Typed, UNCHANGED sourcesVars PROVE Typed'
  OBVIOUS
<1>1. {watching', permit', overlap', unseen'} = {watching, permit, overlap, unseen}
  BY DEF sourcesVars, tables, reloadVars
<1> QED BY <1>1 DEF Typed, SourcesTypeOK, Requested, sourcesVars, tables, reloadVars, wheelVars

\* No step of the wheel, of a reload task or of the listener breaks a type.
LEMMA StepKeepsTypes == Typed /\ [SourcesNext]_sourcesVars => Typed'
BY TimeKeepsTypes, WheelKeepsTypes, ListenerKeepsTypes, ReloadKeepsTypes, StutterKeepsTypes
   DEF SourcesNext
----------------------------------------------------------------------------
(* A duty fires once for an instant.                                       *)

\* What is due lies after the duty's last firing, one instant to a duty; and the wheel
\* plans from an instant at which everything older was fired or skipped.
Wound ==
  /\ wheel.at = "sleep" => \A d \in Duty : lastFire[d] <= wheel.now
  /\ wheel.at # "fire" => wheel.due = {}
  /\ \A tick \in wheel.due : lastFire[tick[1]] < tick[2]
  /\ \A s, t \in wheel.due : s[1] = t[1] => s = t

\* A fresh wheel has fired nothing.
LEMMA InitWound == SourcesInit => Wound
BY DEF SourcesInit, Fresh, Wound

\* The wheel plans only instants after the second of its last plan, and fires each tick of a plan
\* once (cron.rs:65-97).
LEMMA WheelStaysWound ==
  ASSUME Typed, Wound, Plan \/ WakeWheel \/ Notified \/ (\E tick \in wheel.due : Fire(tick))
  PROVE  Wound'
<1>0. /\ \A d \in Duty : lastFire[d] \in 0 .. clock
      /\ wheel.now \in 0 .. clock /\ wheel.due \subseteq Duty \X (1 .. clock)
      /\ clock \in Nat
  BY SourcesAssumption DEF Typed, SourcesTypeOK
<1>1. CASE Plan
  BY <1>0, <1>1 DEF Plan, Wound
<1>2. CASE WakeWheel
  <2> DEFINE due == {tick \in Ticks : tick[2] <= clock}
  <2>1. wheel.at = "sleep" /\ wheel'.due = due /\ lastFire' = lastFire
    BY <1>2 DEF WakeWheel, Typed, SourcesTypeOK
  <2>2. wheel'.at = IF due = {} THEN "plan" ELSE "fire"
    BY <1>2 DEF WakeWheel, Typed, SourcesTypeOK
  <2>3. ASSUME NEW tick \in due PROVE lastFire[tick[1]] < tick[2]
    <3>1. tick[1] \in Duty /\ tick[2] \in 1 .. MaxClock /\ tick[2] > wheel.now
      BY TicksFit DEF Typed
    <3>2. lastFire[tick[1]] <= wheel.now
      BY <2>1, <3>1 DEF Wound
    <3> QED BY <1>0, <3>1, <3>2, SourcesAssumption
  <2>4. \A s, t \in due : s[1] = t[1] => s = t
    BY TicksFit DEF Typed
  <2> HIDE DEF due
  <2> QED BY <2>1, <2>2, <2>3, <2>4 DEF Wound
<1>3. CASE Notified
  BY <1>3 DEF Notified, Wound, Typed, SourcesTypeOK
<1>4. ASSUME NEW tick \in wheel.due, Fire(tick) PROVE Wound'
  <2>1. wheel.at = "fire" /\ wheel'.due = wheel.due \ {tick}
    BY <1>4 DEF Fire, Typed, SourcesTypeOK
  <2>2. wheel'.at = IF wheel.due = {tick} THEN "plan" ELSE "fire"
    BY <1>4 DEF Fire, Typed, SourcesTypeOK
  <2>3. ASSUME NEW other \in wheel'.due PROVE lastFire'[other[1]] < other[2]
    <3>1. other \in wheel.due /\ other[1] # tick[1] /\ other[1] \in Duty
      BY <1>0, <1>4, <2>1, <2>3 DEF Wound
    <3>2. lastFire'[other[1]] = lastFire[other[1]]
      BY <1>4, <3>1 DEF Fire, Typed, SourcesTypeOK
    <3> QED BY <3>1, <3>2 DEF Wound
  <2>4. \A s, t \in wheel'.due : s[1] = t[1] => s = t
    BY <2>1 DEF Wound
  <2>5. wheel'.at # "sleep" /\ (wheel'.at # "fire" => wheel'.due = {})
    BY <2>1, <2>2
  <2> QED BY <2>3, <2>4, <2>5 DEF Wound
<1> QED BY <1>1, <1>2, <1>3, <1>4

\* No step makes a tick due that was fired.
LEMMA StepKeepsWound == Typed /\ Wound /\ [SourcesNext]_sourcesVars => Wound'
<1> SUFFICES ASSUME Typed, Wound, [SourcesNext]_sourcesVars PROVE Wound'
  OBVIOUS
<1>1. CASE Plan \/ WakeWheel \/ Notified \/ (\E tick \in wheel.due : Fire(tick))
  BY <1>1, WheelStaysWound
<1>2. CASE UNCHANGED wheelVars
  BY <1>2 DEF Wound, wheelVars
<1> QED
  BY <1>1, <1>2
  DEF SourcesNext, sourcesVars, TimePasses, Post, Body, Accepted, TakeFired, Edit, Watch, Load,
      Swap, SetSchedules, Notify, SetRoutes

----------------------------------------------------------------------------
(* A change reaches the sources.                                           *)

Busy(k) == reload[k].at # "idle"

\* The tables a reload has passed hold what it read.
Carries(k) ==
  /\ reload[k].roster = disk
  /\ reload[k].at \in {"schedule", "notify", "routes"} => registry = disk
  /\ reload[k].at \in {"notify", "routes"} => schedules = CronRoutes(disk)

InForce == registry = disk /\ schedules = CronRoutes(disk) /\ routes \in WebhookRoutes(disk)

\* No event waits, no reload ran over another, no change came before the watcher.
Calm == events = 0 /\ ~overlap /\ ~unseen

Settled ==
  /\ ~overlap => \A j, k \in Reloader : Busy(j) /\ Busy(k) => j = k
  /\ Calm => \A k \in Reloader : Busy(k) => Carries(k)
  /\ Calm /\ (\A k \in Reloader : ~Busy(k)) => InForce

\* A wheel that sleeps on an older schedule is about to be woken.
Roused ==
  wheel.at = "sleep" /\ wheel.snapshot # schedules
    => permit \/ \E k \in Reloader : reload[k].at = "notify"

\* Before the boot no reload runs, and the watcher is not there yet.
LEMMA InitSettled == SourcesInit => Settled /\ Roused
<1> SUFFICES ASSUME SourcesInit PROVE Settled /\ Roused
  OBVIOUS
<1>1. \A k \in Reloader : ~Busy(k)
  BY DEF SourcesInit, Busy, IdleReload
<1>2. InForce
  BY DEF SourcesInit, InForce
<1>3. Roused
  BY DEF SourcesInit, Fresh, Roused
<1> QED BY <1>1, <1>2, <1>3 DEF Settled

\* One reload's step, with no other at work.
LEMMA ReloadSettles ==
  ASSUME Typed, Settled, NEW k \in Reloader,
         Swap(k) \/ SetSchedules(k) \/ Notify(k) \/ SetRoutes(k)
  PROVE  Settled'
<1>1. Busy(k) /\ (overlap' <=> overlap) /\ (unseen' <=> unseen) /\ events' = events /\ disk' = disk
  BY DEF Busy, Swap, SetSchedules, Notify, SetRoutes
<1>2. \A j \in Reloader \ {k} : reload'[j] = reload[j]
  BY DEF Typed, SourcesTypeOK, Swap, SetSchedules, Notify, SetRoutes, Goto
<1>3. \A j \in Reloader : Busy(j)' => Busy(j)
  BY <1>1, <1>2 DEF Busy
<1>4. ~overlap' => \A i, j \in Reloader : Busy(i)' /\ Busy(j)' => i = j
  BY <1>1, <1>3 DEF Settled
<1>5. ASSUME Calm' PROVE Calm /\ Carries(k) /\ \A j \in Reloader : Busy(j)' => j = k
  BY <1>1, <1>3, <1>5 DEF Calm, Settled
<1>6. reload'[k].at # "idle" => reload'[k].roster = reload[k].roster
  BY DEF Typed, SourcesTypeOK, Swap, SetSchedules, Notify, SetRoutes, Goto, IdleReload
<1>7. ASSUME Calm', Busy(k)' PROVE Carries(k)'
  <2>1. reload'[k].roster = disk'
    BY <1>1, <1>5, <1>6, <1>7 DEF Carries, Busy
  <2>2. CASE Swap(k)
    <3>1. reload'[k].at = "schedule" /\ registry' = disk'
      BY <1>1, <1>5, <1>7, <2>2 DEF Swap, Goto, Typed, SourcesTypeOK, Carries
    <3> QED BY <2>1, <3>1 DEF Carries
  <2>3. CASE SetSchedules(k)
    <3>1. reload'[k].at = "notify" /\ registry' = disk' /\ schedules' = CronRoutes(disk)
      BY <1>1, <1>5, <1>7, <2>3 DEF SetSchedules, Goto, Typed, SourcesTypeOK, Carries
    <3>2. CronRoutes(disk)' = CronRoutes(disk)
      BY <1>1 DEF CronRoutes
    <3> QED BY <2>1, <3>1, <3>2 DEF Carries
  <2>4. CASE Notify(k)
    <3>1. reload'[k].at = "routes" /\ registry' = disk' /\ schedules' = CronRoutes(disk)
      BY <1>1, <1>5, <1>7, <2>4 DEF Notify, Goto, Typed, SourcesTypeOK, Carries
    <3>2. CronRoutes(disk)' = CronRoutes(disk)
      BY <1>1 DEF CronRoutes
    <3> QED BY <2>1, <3>1, <3>2 DEF Carries
  <2>5. ~SetRoutes(k)
    BY <1>7 DEF SetRoutes, Busy, IdleReload, Typed, SourcesTypeOK
  <2> QED BY <2>2, <2>3, <2>4, <2>5
<1>8. ASSUME Calm', \A j \in Reloader : ~Busy(j)' PROVE InForce'
  <2>1. SetRoutes(k)
    <3>1. reload \in [Reloader -> [at : {"swap", "schedule", "notify", "routes"}, roster : Roster]
                                \cup {IdleReload}]
      BY DEF Typed, SourcesTypeOK
    <3>2. reload'[k].at = "idle"
      BY <1>8 DEF Busy
    <3>3. ASSUME NEW at \in {"schedule", "notify", "routes"}, Goto(k, at) PROVE FALSE
      <4>1. reload'[k] = [reload[k] EXCEPT !.at = at]
        BY <3>1, <3>3 DEF Goto
      <4>2. reload'[k].at = at
        BY <3>1, <4>1 DEF IdleReload
      <4> QED BY <3>2, <4>2
    <3> QED BY <3>3 DEF Swap, SetSchedules, Notify
  <2>2. registry' = disk' /\ schedules' = CronRoutes(disk) /\ routes' \in WebhookRoutes(disk)
    BY <1>1, <1>5, <1>8, <2>1 DEF SetRoutes, Carries
  <2>3. CronRoutes(disk)' = CronRoutes(disk) /\ WebhookRoutes(disk)' = WebhookRoutes(disk)
    BY <1>1 DEF CronRoutes, WebhookRoutes
  <2> QED BY <2>2, <2>3 DEF InForce
<1> QED BY <1>4, <1>5, <1>7, <1>8 DEF Settled

\* A reload that begins alone has read the disk; one that begins beside another overlaps.
LEMMA LoadSettles ==
  ASSUME Typed, Settled, NEW k \in Reloader, Load(k)
  PROVE  Settled'
<1>1. reload'[k] = [at |-> "swap", roster |-> disk] /\ disk' = disk
  BY DEF Load, Typed, SourcesTypeOK
<1>2. \A j \in Reloader \ {k} : reload'[j] = reload[j]
  BY DEF Load, Typed, SourcesTypeOK
<1>3. ~overlap' => \A j \in Reloader : ~Busy(j)
  BY DEF Load, Busy
<1>4. ~overlap' => \A j \in Reloader : Busy(j)' => j = k
  BY <1>2, <1>3 DEF Busy
<1>5. Busy(k)' /\ Carries(k)'
  BY <1>1 DEF Busy, Carries
<1> QED BY <1>4, <1>5 DEF Settled, Calm

\* An edit is announced by an event, or comes before the watcher.
LEMMA EditSettles ==
  ASSUME Typed, Settled, NEW r \in Roster, Edit(r)
  PROVE  Settled'
<1>1. reload' = reload /\ (overlap' <=> overlap)
  BY DEF Edit
<1>2. ~Calm'
  <2>1. CASE watching
    <3>1. events' = events + 1 /\ events \in Nat
      BY <2>1 DEF Edit, Typed, SourcesTypeOK
    <3> QED BY <3>1 DEF Calm
  <2>2. CASE ~watching
    BY <2>2 DEF Edit, Calm
  <2> QED BY <2>1, <2>2
<1> QED BY <1>1, <1>2 DEF Settled, Busy

\* A reload that nothing overtakes carries what the disk holds into one table after the other.
LEMMA StepKeepsSettled == Typed /\ Settled /\ [SourcesNext]_sourcesVars => Settled'
<1> SUFFICES ASSUME Typed, Settled, [SourcesNext]_sourcesVars PROVE Settled'
  OBVIOUS
<1>1. CASE \E k \in Reloader : Load(k) \/ Swap(k) \/ SetSchedules(k) \/ Notify(k) \/ SetRoutes(k)
  BY <1>1, LoadSettles, ReloadSettles
<1>2. CASE \E r \in Roster : Edit(r)
  BY <1>2, EditSettles
<1>3. CASE UNCHANGED <<disk, events, registry, schedules, routes, reloadVars>>
  <2>1. CronRoutes(disk)' = CronRoutes(disk) /\ WebhookRoutes(disk)' = WebhookRoutes(disk)
    BY <1>3 DEF CronRoutes, WebhookRoutes
  <2>2. /\ \A k \in Reloader : (Busy(k)' <=> Busy(k)) /\ (Carries(k)' <=> Carries(k))
        /\ InForce' <=> InForce
        /\ Calm' <=> Calm
        /\ overlap' <=> overlap
    BY <1>3, <2>1 DEF Busy, Carries, InForce, Calm, reloadVars
  <2> QED BY <2>2 DEF Settled
<1> QED
  BY <1>1, <1>2, <1>3
  DEF SourcesNext, sourcesVars, tables, TimePasses, Plan, WakeWheel, Notified, Fire, Post, Body,
      Accepted, TakeFired, Watch

\* A wheel that sleeps on an older schedule is about to be told, whatever the reloads do.
LEMMA StepKeepsRoused == Typed /\ Roused /\ [SourcesNext]_sourcesVars => Roused'
<1> SUFFICES ASSUME Typed, Roused, [SourcesNext]_sourcesVars PROVE Roused'
  OBVIOUS
<1>1. CASE Plan \/ WakeWheel \/ Notified \/ (\E tick \in wheel.due : Fire(tick))
  <2>1. CASE Plan
    BY <2>1 DEF Plan, Roused, tables
  <2>2. CASE WakeWheel
    <3>1. wheel'.at # "sleep"
      BY <2>2 DEF WakeWheel, Typed, SourcesTypeOK
    <3> QED BY <3>1 DEF Roused
  <2>3. CASE Notified
    <3>1. wheel'.at # "sleep"
      BY <2>3 DEF Notified, Typed, SourcesTypeOK
    <3> QED BY <3>1 DEF Roused
  <2>4. ASSUME NEW tick \in wheel.due, Fire(tick) PROVE wheel'.at # "sleep"
    BY <2>4 DEF Fire, Typed, SourcesTypeOK
  <2> QED BY <1>1, <2>1, <2>2, <2>3, <2>4 DEF Roused
<1>2. ASSUME NEW k \in Reloader,
             Load(k) \/ Swap(k) \/ SetSchedules(k) \/ Notify(k) \/ SetRoutes(k)
      PROVE  Roused'
  <2>0. reload \in [Reloader -> [at : {"swap", "schedule", "notify", "routes"}, roster : Roster]
                              \cup {IdleReload}]
    BY DEF Typed, SourcesTypeOK
  <2>1. wheel' = wheel
    BY <1>2 DEF Load, Swap, SetSchedules, Notify, SetRoutes, wheelVars
  <2>2. CASE SetSchedules(k)
    <3>1. reload'[k].at = "notify"
      BY <2>0, <2>2 DEF SetSchedules, Goto
    <3> QED BY <3>1 DEF Roused
  <2>3. CASE Notify(k)
    BY <2>3 DEF Notify, Roused
  <2>4. CASE Load(k) \/ Swap(k) \/ SetRoutes(k)
    <3>1. schedules' = schedules /\ permit' = permit
      BY <2>4 DEF Load, Swap, SetRoutes, tables
    <3>0. reload[k].at # "notify"
      BY <2>4 DEF Load, Swap, SetRoutes
    <3>2. \A j \in Reloader \ {k} : reload'[j] = reload[j]
      BY <2>0, <2>4 DEF Load, Swap, SetRoutes, Goto
    <3>3. (\E j \in Reloader : reload[j].at = "notify")
             => \E j \in Reloader : reload'[j].at = "notify"
      BY <3>0, <3>2
    <3> QED BY <2>1, <3>1, <3>3 DEF Roused
  <2> QED BY <1>2, <2>2, <2>3, <2>4
<1>3. CASE UNCHANGED <<wheel, schedules, permit, reload>>
  BY <1>3 DEF Roused
<1> QED
  BY <1>1, <1>2, <1>3
  DEF SourcesNext, sourcesVars, tables, wheelVars, reloadVars, TimePasses, Post, Body, Accepted,
      TakeFired, Edit, Watch

----------------------------------------------------------------------------
(* The theorems.                                                           *)

SourcesIInv == Typed /\ Wound /\ Settled /\ Roused

\* The types, the wound wheel and the settled tables hold throughout.
THEOREM SourcesInvariant == SourcesSpec => []SourcesIInv
<1>1. SourcesInit => SourcesIInv
  BY InitTyped, InitWound, InitSettled DEF SourcesIInv
<1>2. SourcesIInv /\ [SourcesNext]_sourcesVars => SourcesIInv'
  BY StepKeepsTypes, StepKeepsWound, StepKeepsSettled, StepKeepsRoused DEF SourcesIInv
<1> QED BY <1>1, <1>2, PTL DEF SourcesSpec

\* The sources' variables keep their types: the channel stays within its capacity, and no
\* duty has fired for an instant that has not come.
THEOREM SourcesTypeCorrect == SourcesSpec => []SourcesTypeOK
<1>1. SourcesIInv => SourcesTypeOK
  BY DEF SourcesIInv, Typed
<1> QED BY SourcesInvariant, <1>1, PTL

\* A duty fires once for an instant (cron.rs:63-101), for any schedules and reloads.
THEOREM DutiesFireOnce == SourcesSpec => []FiresOnce
<1>1. SourcesIInv => FiresOnce
  <2> SUFFICES ASSUME SourcesIInv, NEW tick \in wheel.due
               PROVE  tick[2] > lastFire[tick[1]]
    BY DEF FiresOnce
  <2>1. lastFire[tick[1]] < tick[2]
    BY DEF SourcesIInv, Wound
  <2> QED BY <2>1
<1> QED BY SourcesInvariant, <1>1, PTL

\* What stimuli/ holds is in force once its reload is over, and the wheel is told
\* (ingest.rs:247-282, stimuli/mod.rs), for any number of reload tasks.
THEOREM ChangesReachSources == SourcesSpec => []ReloadReachesSources
<1>1. SourcesIInv => ReloadReachesSources
  BY DEF SourcesIInv, Settled, Roused, Calm, InForce, Busy, ReloadReachesSources
<1> QED BY SourcesInvariant, <1>1, PTL
================================================================================
