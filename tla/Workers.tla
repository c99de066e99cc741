------------------------------- MODULE Workers -------------------------------
(***************************************************************************)
(* Detached workers: the agent that an Express step delegates to, from its *)
(* spawn to the completion that reports it (src/harness/mod.rs             *)
(* run_worker_detached), the backend that the boot chose for it            *)
(* (src/cli/mod.rs build_worker_backend), and how its bridge is launched   *)
(* (src/runtime/openclaude.rs invoke, src/sandbox/mod.rs).                 *)
(*                                                                         *)
(* Workers run beside the loop, as many as were spawned; each is a task    *)
(* with awaits between its steps.  What a worker does in its workspace is  *)
(* left out.                                                               *)
(***************************************************************************)
EXTENDS Integers, Functions

CONSTANTS
  Agent,        \* agent ids that a step may ask for
  Flat,         \* Flat[a]: a with its '/' replaced by '_'
  Soul,         \* directories of the soul, as volumes name them
  Outside,      \* volume sources that resolve outside it, or to nothing
  AgentTool,    \* tools
  AgentFile,    \* AgentFile[a]: agents/<a>.md, or Missing: none, or it does not parse
  Missing,
  AnyTool,      \* stands for no list of tools: all the engine has
  Settings,     \* runtime.worker_sandbox as it may be configured
  Slot,         \* workers that may be at work at once
  StaleAfter,   \* the age at which the boot removes a workspace
  MaxSecond,    \* bound: seconds
  MaxSpawned,   \* bound: workers spawned
  MaxMishaps    \* bound: failing steps and crashes

\* The root of the host's file system.
Root == <<"/">>

Definition == [docker : BOOLEAN, volumes : SUBSET (Soul \cup Outside),
               tools : SUBSET AgentTool \cup {{AnyTool}}]

ASSUME WorkersAssumption ==
  /\ Flat \in [Agent -> STRING]
  /\ AgentFile \in [Agent -> Definition \cup {Missing}]
  /\ Settings \subseteq [enabled : BOOLEAN, image : BOOLEAN, ignored : BOOLEAN, require : BOOLEAN]
  /\ Soul \cap Outside = {} /\ Root \notin Soul /\ AnyTool \notin AgentTool
  /\ {StaleAfter, MaxSecond, MaxSpawned, MaxMishaps} \subseteq Nat

VARIABLES
  second,
  docker,      \* docker and the image can be reached
  up,          \* the daemon runs
  setting,     \* the settings it booted with
  backend,     \* OpenClaudeClient.worker is set
  seq,         \* WORKER_SEQ
  job,         \* job[k]: the worker in slot k
  dirs,        \* workspaces on disk, by run id
  containers,  \* containers that exist, by name
  rows,        \* completions in the queue: [agent, at, job]
  spawned, mishaps,  \* what the bounds count
  ended,       \* history: ended[j], the id of the completion of job j
  untold,      \* history: jobs whose report a crash or a failing insert lost
  leftover     \* history: containers that a crash or a failing reap left

workersVars == <<second, docker, up, setting, backend, seq, job, dirs, containers, rows,
                 spawned, mishaps, ended, untold, leftover>>
outside == <<second, docker, up, setting, backend>>

NoRun == << >>
Idle == [at |-> "idle", number |-> 0, agent |-> "", since |-> 0, run |-> NoRun, launch |-> << >>]
Live == {k \in Slot : job[k].at # "idle"}
Mishap == mishaps < MaxMishaps /\ mishaps' = mishaps + 1

WorkersInit ==
  /\ second = 0 /\ docker = TRUE /\ up = FALSE /\ setting \in Settings /\ backend = FALSE
  /\ seq = 0 /\ job = [k \in Slot |-> Idle]
  /\ dirs = {} /\ containers = {} /\ rows = {}
  /\ spawned = 0 /\ mishaps = 0
  /\ ended = [j \in 1 .. MaxSpawned |-> NoRun] /\ untold = {} /\ leftover = {}

ASecond ==
  /\ second < MaxSecond /\ second' = second + 1
  /\ UNCHANGED <<docker, up, setting, backend, seq, job, dirs, containers, rows, spawned,
                 mishaps, ended, untold, leftover>>

DockerChanges ==
  /\ Mishap /\ docker' = ~docker
  /\ UNCHANGED <<second, up, setting, backend, seq, job, dirs, containers, rows, spawned,
                 ended, untold, leftover>>

----------------------------------------------------------------------------
(* Boot.                                                                   *)

\* build_worker_backend refuses to boot: no image is named, workspaces/ is not ignored by
\* git, or Docker is required and does not answer.
Refuses(s) == s.enabled /\ (~s.image \/ ~s.ignored \/ (~docker /\ s.require))

\* A refused boot leaves the daemon down.  The boot sweeps old workspaces, and knows
\* nothing of containers.
BootWorkers ==
  /\ ~up /\ ~Refuses(setting)
  /\ up' = TRUE /\ backend' = (setting.enabled /\ docker) /\ seq' = 0
  /\ dirs' = {run \in dirs : run[2] + StaleAfter >= second}
  /\ UNCHANGED <<second, docker, setting, job, containers, rows, spawned, mishaps, ended,
                 untold, leftover>>

\* The daemon dies with its tasks.  A local bridge dies with it, a container does not.
\* The next daemon is not up within the second.
DaemonDies ==
  /\ up /\ Mishap /\ second < MaxSecond
  /\ up' = FALSE /\ second' = second + 1
  /\ job' = [k \in Slot |-> Idle]
  /\ untold' = untold \cup {job[k].number : k \in Live}
  /\ leftover' = leftover \cup containers
  /\ UNCHANGED <<docker, setting, backend, seq, dirs, containers, rows, spawned, ended>>

\* A container that nobody waits for ends by itself.
ContainerEnds(run) ==
  /\ run \in leftover
  /\ containers' = containers \ {run} /\ leftover' = leftover \ {run}
  /\ UNCHANGED <<outside, seq, job, dirs, rows, spawned, mishaps, ended, untold>>

----------------------------------------------------------------------------
(* A worker.                                                               *)

\* An Express step asked for one; a spawn from another state is ignored.
Spawn(k, a) ==
  /\ up /\ spawned < MaxSpawned /\ job[k].at = "idle"
  /\ job' = [job EXCEPT ![k] = [Idle EXCEPT !.at = "resolve", !.number = spawned + 1,
                                            !.agent = a, !.since = second]]
  /\ spawned' = spawned + 1
  /\ UNCHANGED <<outside, seq, dirs, containers, rows, mishaps, ended, untold, leftover>>

\* enqueue_worker_completion: INSERT OR IGNORE by agent and second; an error is only logged.
Completed(k, at, fails) ==
  LET id == [agent |-> Flat[job[k].agent], at |-> at]
      taken == \E row \in rows : row.agent = id.agent /\ row.at = id.at
  IN /\ job' = [job EXCEPT ![k] = Idle]
     /\ ended' = [ended EXCEPT ![job[k].number] = id]
     /\ IF fails THEN Mishap /\ rows' = rows /\ untold' = untold \cup {job[k].number}
        ELSE /\ rows' = IF taken THEN rows
                        ELSE rows \cup {[agent |-> id.agent, at |-> at, job |-> job[k].number]}
             /\ UNCHANGED <<mishaps, untold>>

\* Mutant of Unlaunched: an agent that does not parse is dropped.
UnlaunchedSilently(k) ==
  /\ job[k].at = "resolve" /\ AgentFile[job[k].agent] = Missing
  /\ job' = [job EXCEPT ![k] = Idle]
  /\ ended' = [ended EXCEPT ![job[k].number] = [agent |-> "", at |-> second]]
  /\ UNCHANGED <<outside, seq, dirs, containers, rows, spawned, mishaps, untold, leftover>>

\* The agent has no definition: the completion says so.
Unlaunched(k) ==
  /\ job[k].at = "resolve" /\ AgentFile[job[k].agent] = Missing
  /\ \E fails \in BOOLEAN : Completed(k, job[k].since, fails)
  /\ UNCHANGED <<outside, seq, dirs, containers, spawned, leftover>>

Isolated(a) == AgentFile[a].docker /\ backend

\* The other agents whose files parse; a container gets none.
Helpers(a) ==
  IF Isolated(a) THEN {} ELSE {h \in Agent \ {a} : AgentFile[h] # Missing}

\* The lead's tools, widened by those its helpers declare.
Tools(a) ==
  IF AgentFile[a].tools = {AnyTool} THEN {AnyTool}
  ELSE AgentFile[a].tools \cup
       UNION {AgentFile[h].tools : h \in {x \in Helpers(a) : AgentFile[x].tools # {AnyTool}}}

Volumes(a) == AgentFile[a].volumes \cap Soul

\* What a process is given of the host: the bind mounts of its container, or everything.
Mounts(a, run) ==
  IF Isolated(a) THEN {[host |-> run, writable |-> TRUE]} \cup
                      {[host |-> v, writable |-> FALSE] : v \in Volumes(a)}
  ELSE {[host |-> Root, writable |-> TRUE]}

\* worker_env: a container gets the variables of the model channel alone.
Environ(a) == IF Isolated(a) THEN "model" ELSE "ambient"

\* Where the bridge runs: the caller of the client chose the wall's root from the same.
Cwd(a, run) == IF Isolated(a) THEN <<"guest">> ELSE run

Launch(a, run) ==
  [where |-> IF Isolated(a) THEN "container" ELSE "host", cwd |-> Cwd(a, run),
   wall |-> IF Isolated(a) THEN <<"guest">> ELSE run, env |-> Environ(a),
   mounts |-> Mounts(a, run), helpers |-> Helpers(a), tools |-> Tools(a)]

\* Mutant of RunId: two workers of the same second are told apart by their agent alone.
RunIdUnnumbered(a, since) == <<Flat[a], since>>

\* The name of the workspace and of the container.
RunId(a, since) == <<Flat[a], since, seq>>

\* The definition is read; the number is taken.
Resolve(k) ==
  /\ job[k].at = "resolve" /\ AgentFile[job[k].agent] # Missing
  /\ LET run == RunId(job[k].agent, job[k].since) IN
     job' = [job EXCEPT ![k].at = "workspace", ![k].run = run,
                        ![k].launch = Launch(job[k].agent, run)]
  /\ seq' = seq + 1
  /\ UNCHANGED <<outside, dirs, containers, rows, spawned, mishaps, ended, untold, leftover>>

MakeWorkspace(k) ==
  /\ job[k].at = "workspace"
  /\ dirs' = dirs \cup {job[k].run}
  /\ job' = [job EXCEPT ![k].at = "start"]
  /\ UNCHANGED <<outside, seq, containers, rows, spawned, mishaps, ended, untold, leftover>>

NoWorkspace(k) ==
  /\ job[k].at = "workspace"
  /\ \E fails \in BOOLEAN : Completed(k, job[k].since, fails)
  /\ UNCHANGED <<outside, seq, dirs, containers, spawned, leftover>>

InContainer(k) == job[k].launch.where = "container"

\* The bridge starts, in a container of its name if it is to have one.
Start(k) ==
  /\ job[k].at = "start"
  /\ InContainer(k) => docker /\ job[k].run \notin containers
  /\ containers' = IF InContainer(k) THEN containers \cup {job[k].run} ELSE containers
  /\ job' = [job EXCEPT ![k].at = "running"]
  /\ UNCHANGED <<outside, seq, dirs, rows, spawned, mishaps, ended, untold, leftover>>

\* docker run fails: it does not answer, or the name is taken.
StartFails(k) ==
  /\ job[k].at = "start" /\ InContainer(k) /\ (~docker \/ job[k].run \in containers)
  /\ job' = [job EXCEPT ![k].at = "reap"]
  /\ UNCHANGED <<outside, seq, dirs, containers, rows, spawned, mishaps, ended, untold, leftover>>

\* A result or an error ends the invocation.  A container goes with its client when it
\* exits; when the client was killed, it stays.
InvocationEnds(k, killed) ==
  /\ job[k].at = "running"
  /\ containers' = IF killed THEN containers ELSE containers \ {job[k].run}
  /\ job' = [job EXCEPT ![k].at = IF InContainer(k) THEN "reap" ELSE "report"]
  /\ UNCHANGED <<outside, seq, dirs, rows, spawned, mishaps, ended, untold, leftover>>

\* docker rm -f, by name.
Reap(k) ==
  /\ job[k].at = "reap" /\ docker
  /\ containers' = containers \ {job[k].run} /\ leftover' = leftover \ {job[k].run}
  /\ job' = [job EXCEPT ![k].at = "report"]
  /\ UNCHANGED <<outside, seq, dirs, rows, spawned, mishaps, ended, untold>>

ReapFails(k) ==
  /\ job[k].at = "reap" /\ ~docker
  /\ leftover' = leftover \cup ({job[k].run} \cap containers)
  /\ job' = [job EXCEPT ![k].at = "report"]
  /\ UNCHANGED <<outside, seq, dirs, containers, rows, spawned, mishaps, ended, untold>>

Report(k) ==
  /\ job[k].at = "report"
  /\ \E fails \in BOOLEAN : Completed(k, second, fails)
  /\ UNCHANGED <<outside, seq, dirs, containers, spawned, leftover>>

WorkersNext ==
  \/ ASecond \/ DockerChanges \/ BootWorkers \/ DaemonDies
  \/ \E run \in leftover : ContainerEnds(run)
  \/ \E k \in Slot :
       \/ \E a \in Agent : Spawn(k, a)
       \/ Unlaunched(k) \/ Resolve(k) \/ MakeWorkspace(k) \/ NoWorkspace(k)
       \/ Start(k) \/ StartFails(k) \/ \E killed \in BOOLEAN : InvocationEnds(k, killed)
       \/ Reap(k) \/ ReapFails(k) \/ Report(k)

WorkersSpec == WorkersInit /\ [][WorkersNext]_workersVars

----------------------------------------------------------------------------
(* Properties.                                                             *)

WorkersTypeOK ==
  /\ second \in 0 .. MaxSecond /\ setting \in Settings
  /\ {docker, up, backend} \subseteq BOOLEAN
  /\ {seq, spawned, mishaps} \subseteq Nat
  /\ \A k \in Slot :
       /\ job[k].at \in {"idle", "resolve", "workspace", "start", "running", "reap", "report"}
       /\ job[k].at # "idle" => job[k].agent \in Agent /\ job[k].number \in 1 .. spawned
  /\ rows \subseteq [agent : Range(Flat), at : 0 .. MaxSecond, job : 1 .. spawned]
  /\ leftover \subseteq containers

\* harness/mod.rs:1838: "any failure still fires a completion stimulus, so the duck always
\* learns the outcome".  A worker that has ended is reported, unless a crash or a failing
\* insert lost its report, or one of the same agent was reported in the same second; and
\* its container is gone, unless a crash or an unreachable Docker left it behind.
WorkersAccounted ==
  /\ \A j \in 1 .. spawned \ ({job[k].number : k \in Live} \cup untold) :
       \E row \in rows : row.agent = ended[j].agent /\ row.at = ended[j].at
  /\ containers \ leftover \subseteq {job[k].run : k \in {x \in Live : job[x].at \in {"running", "reap"}}}

\* What there is on the host to read and to write.
Place == Soul \cup Outside \cup dirs

MayRead(k, place) == \E m \in job[k].launch.mounts : m.host \in {place, Root}
MayWrite(k, place) == \E m \in job[k].launch.mounts : m.host \in {place, Root} /\ m.writable

\* docs/workers.md:50-58, docs/workers.md:18.  While a worker runs, its workspace is there and is
\* its own: nothing that is at work or was left behind goes by its name.  Where its agent asks
\* for Docker and the settings require it, it is in a container, whatever became of Docker
\* since the boot.  The container of a worker in one is there, not reaped under another's
\* name, and it writes nothing of the host but the workspace, so no other worker's, and reads
\* only the volumes of its agent beside it.  Nothing is said of a worker on the host, which reaches
\* all of these.
WorkerContained ==
  \A k \in Live : job[k].at = "running" =>
    LET def == AgentFile[job[k].agent]
        run == job[k].run IN
    /\ run \in dirs /\ run \notin leftover
    /\ \A j \in Live \ {k} : job[j].run # run
    /\ def.docker /\ setting.enabled /\ setting.require => InContainer(k)
    /\ InContainer(k) =>
         /\ run \in containers
         /\ \A place \in Place : /\ MayWrite(k, place) => place = run
                               /\ MayRead(k, place) => place \in {run} \cup (def.volumes \cap Soul)
=============================================================================
