-------------------------------- MODULE Soul --------------------------------
(***************************************************************************)
(* What a step of a wake does to the soul repository: the invocation and   *)
(* the wall (src/runtime/openclaude.rs, src/harness/mod.rs run_step), the  *)
(* reconciliation that follows it (reconcile_soul), the push that ends the *)
(* wake (src/repo/multi.rs), and the operator who edits the same tree by   *)
(* hand and commits it with `dack reconcile` (src/cli/mod.rs).             *)
(*                                                                         *)
(* The model calls what it likes; a program it was allowed to run may also *)
(* write any file behind the wall's back.  Which steps a wake takes is     *)
(* module Dispatch's business: here any state may follow any.              *)
(***************************************************************************)
EXTENDS GitRepo, Wall

CONSTANTS
  StartFiles,   \* the committed files of the soul
  StepState,    \* states that steps run in
  Calls,        \* tool calls that engines ask for: [tool, target]
  Remotes,      \* soul_remotes, in the order they are pushed
  Required,     \* those marked required
  MaxAttempts,  \* MAX_ATTEMPTS of a push
  MaxSteps,     \* bound: steps of a wake
  MaxWrites,    \* bound: allowed calls and stray writes
  MaxEdits,     \* bound: hand edits and reconciliations
  MaxFaults     \* bound: failing git calls, failed log writes and crashes

Writer == WakeState \cup {"seed", "operator"}

ASSUME SoulAssumption ==
  /\ Content = [by : Writer, allowed : BOOLEAN]
  /\ StartFiles \in [Path -> [by : {"seed"}, allowed : {TRUE}] \cup {Absent}]
  /\ StepState \subseteq WakeState
  /\ Calls \subseteq [tool : Tool, target : [abs : BOOLEAN, segs : Seq(STRING)]]
  /\ Remotes \in Seq(STRING) /\ Required \subseteq Range(Remotes)
  /\ \A j, k \in DOMAIN Remotes : Remotes[j] = Remotes[k] => j = k
  /\ MaxAttempts \in Nat \ {0}
ASSUME SoulBounds == {MaxSteps, MaxWrites, MaxEdits, MaxFaults} \subseteq Nat

Remote == Range(Remotes)

VARIABLES
  repo,         \* the soul's repository (durable)
  remote,       \* remote[r]: how many of its commits r has (durable)
  dirty,        \* MultiRemoteRepo.dirty
  pc,           \* "down", "idle", "invoke", "status", "revert", "log", "between",
                \* "push" or "failed"
  state,        \* the state of the step
  longTerm,     \* long_term_writable of its wall
  granted,      \* calls the wall allowed that have not run yet
  acted,        \* outward_seen is not empty
  unretryable,  \* wake_unretryable
  steps,        \* steps of this wake
  todo,         \* changes still to reconcile
  pushing,      \* [at, attempt, failed]: the push loop
  cli, cliPaths,          \* the process of `dack reconcile`, and the paths it listed
  writes, edits, faults,  \* what the bounds count
  own,          \* history: number of the last commit this daemon made
  posted,       \* history: an outward tool ran in this wake
  residue,      \* history: changes the step at hand is excused for
  excused       \* history: changes that were not reconciled by their own step

daemon == <<pc, state, longTerm, granted, acted, unretryable, steps, todo, pushing>>
operator == <<cli, cliPaths, edits>>
vars == <<repo, remote, dirty, daemon, operator, writes, faults, own, posted, residue, excused>>

NoState == "none"
NoPush == [at |-> 0, attempt |-> 0, failed |-> FALSE]
Changed == {p \in Path : Dirtied(repo, p)}
Fault == faults < MaxFaults /\ faults' = faults + 1

Init ==
  /\ repo = CleanRepo(StartFiles) /\ remote = [r \in Remote |-> 0] /\ dirty = TRUE
  /\ pc = "idle" /\ state = NoState /\ longTerm = FALSE /\ granted = {}
  /\ acted = FALSE /\ unretryable = FALSE /\ steps = 0 /\ todo = {} /\ pushing = NoPush
  /\ cli = "off" /\ cliPaths = {} /\ writes = 0 /\ edits = 0 /\ faults = 0
  /\ own = 0 /\ posted = FALSE /\ residue = {} /\ excused = {}

----------------------------------------------------------------------------
(* The invocation.                                                         *)

\* A step: the wake's first, or the next branch of its worklist.
BeginStep(s, lt) ==
  /\ \/ pc = "idle" /\ steps = 0
     \/ pc = "between" /\ steps < MaxSteps
  /\ pc' = "invoke" /\ state' = s /\ longTerm' = lt /\ steps' = steps + 1
  /\ residue' = {}
  /\ UNCHANGED <<repo, remote, dirty, granted, acted, unretryable, todo, pushing,
                 operator, writes, faults, own, posted, excused>>

\* Mutant of Recorded: only a call that has run is recorded as outward.
RecordedLate(c) == FALSE

\* decide notes an outward call when it allows it, before the engine runs it.
Recorded(c) == Outward(c.tool, c.target)

\* A permission round-trip that the wall allows; a denied one leaves nothing behind.
Ask(c) ==
  /\ pc = "invoke" /\ writes < MaxWrites /\ c \notin granted
  /\ c.tool \notin Disallowed(state)
  /\ Decide(state, longTerm, c.tool, c.target)
  /\ granted' = granted \cup {c}
  /\ acted' = (acted \/ Recorded(c))
  /\ writes' = writes + 1
  /\ UNCHANGED <<repo, remote, dirty, pc, state, longTerm, unretryable, steps, todo,
                 pushing, operator, faults, own, posted, residue, excused>>

\* The engine runs it, if it gets to before the invocation is over.
RunCall(c) ==
  /\ pc = "invoke" /\ c \in granted
  /\ granted' = granted \ {c}
  /\ posted' = (posted \/ Outward(c.tool, c.target))
  /\ repo' = IF Classify(c.tool, c.target) = "FileWrite" /\ Relative(c.target) \in Path
             THEN [repo EXCEPT !.tree[Relative(c.target)] = [by |-> state, allowed |-> TRUE]]
             ELSE repo
  /\ UNCHANGED <<remote, dirty, pc, state, longTerm, acted, unretryable, steps, todo,
                 pushing, operator, writes, faults, own, residue, excused>>

\* Something an allowed program does to a file that the wall never saw.
Stray(p) ==
  /\ pc = "invoke" /\ writes < MaxWrites
  /\ writes' = writes + 1
  /\ \E b \in {Absent, [by |-> state, allowed |-> FALSE]} \ {repo.tree[p]} :
       repo' = [repo EXCEPT !.tree[p] = b]
  /\ UNCHANGED <<remote, dirty, daemon, operator, faults, own, posted, residue, excused>>

\* The step's own state is gone with it.
LeaveStep == state' = NoState /\ longTerm' = FALSE

\* The mark, set whatever the invocation returned.
Marks == unretryable' = (unretryable \/ acted \/ state = "reflect")

\* A result, within the budget.
Returns ==
  /\ pc = "invoke"
  /\ pc' = "status" /\ granted' = {} /\ acted' = FALSE /\ longTerm' = FALSE
  /\ Marks
  /\ UNCHANGED <<repo, remote, dirty, state, steps, todo, pushing, operator,
                 writes, faults, own, posted, residue, excused>>

\* Mutant of Excuses: a failed step is excused for nothing.
ExcusesNone == {}

\* What an unreconciled step leaves in the tree.
Excuses == Changed

\* The budget elapses, the bridge closes or reports an error, or its line does not
\* parse: the child is killed, the wake fails, and nothing is reconciled or pushed.
InvokeFails ==
  /\ pc = "invoke"
  /\ pc' = "failed" /\ granted' = {} /\ acted' = FALSE /\ LeaveStep
  /\ Marks
  /\ excused' = excused \cup Excuses
  /\ UNCHANGED <<repo, remote, dirty, steps, todo, pushing, operator,
                 writes, faults, own, posted, residue>>

----------------------------------------------------------------------------
(* reconcile_soul.                                                         *)

\* Mutant of InAllowlist: the table of the wake's entry state.
InAllowlistOfEntry(p) == Permitted("express", p)

\* Mutant of InAllowlist: every delta is committed.
InAllowlistAny(p) == TRUE

\* The allowlist of the state that ran.
InAllowlist(p) == Permitted(state, p)

Sweepable == {ch.path : ch \in {x \in todo : InAllowlist(x.path)}}

ReadStatus ==
  /\ pc = "status"
  /\ todo' = Status(repo)
  /\ pc' = IF Status(repo) = {} THEN "log" ELSE "revert"
  /\ residue' = Remade(repo)
  /\ UNCHANGED <<repo, remote, dirty, state, longTerm, granted, acted, unretryable, steps,
                 pushing, operator, writes, faults, own, posted, excused>>

StatusFails ==
  /\ pc = "status" /\ Fault
  /\ pc' = "log" /\ residue' = Path /\ excused' = excused \cup Changed
  /\ UNCHANGED <<repo, remote, dirty, state, longTerm, granted, acted, unretryable, steps,
                 todo, pushing, operator, writes, own, posted>>

\* The tripwire, one line at a time, git's tracked files first; a revert that fails is
\* logged and skipped.
Revert(ch) ==
  /\ pc = "revert" /\ ch \in todo /\ ~InAllowlist(ch.path)
  /\ ch.untracked => \A x \in todo : InAllowlist(x.path) \/ x.untracked
  /\ todo' = todo \ {ch}
  /\ \/ /\ CanRestore(repo, ch)
        /\ repo' = RestoreToHead(repo, ch)
        /\ UNCHANGED <<faults, residue, excused>>
     \/ /\ IF CanRestore(repo, ch) THEN Fault ELSE UNCHANGED faults
        /\ residue' = residue \cup {ch.path}
        /\ excused' = excused \cup {ch.path}
        /\ UNCHANGED repo
  /\ UNCHANGED <<remote, dirty, pc, state, longTerm, granted, acted, unretryable, steps,
                 pushing, operator, writes, own, posted>>

Reverted == pc = "revert" /\ \A ch \in todo : InAllowlist(ch.path)

\* Mutant of DirtiedBy: a sweep does not mark the repository.
DirtiedByNothing(after) == dirty

\* A commit that was made marks the repository for the next push.
DirtiedBy(after) == dirty \/ after.commits > repo.commits

\* What is left is committed as the Soul DID.
Sweep ==
  /\ Reverted
  /\ Sweepable = {} \/ CanAdd(repo, Sweepable)
  /\ LET after == CommitPaths(repo, Sweepable) IN
       /\ repo' = after
       /\ dirty' = DirtiedBy(after)
       /\ own' = IF after.commits > repo.commits THEN after.commits ELSE own
  /\ pc' = "log" /\ todo' = {}
  /\ UNCHANGED <<remote, state, longTerm, granted, acted, unretryable, steps, pushing,
                 operator, writes, faults, posted, residue, excused>>

\* Its add fails, or its commit after the add; the delta stays, logged.
SweepFails ==
  /\ Reverted /\ Sweepable # {}
  /\ \/ ~CanAdd(repo, Sweepable) /\ UNCHANGED <<repo, faults>>
     \/ CanAdd(repo, Sweepable) /\ Fault /\ repo' \in {repo, Add(repo, Sweepable)}
  /\ pc' = "log" /\ todo' = {}
  /\ residue' = residue \cup Sweepable /\ excused' = excused \cup Sweepable
  /\ UNCHANGED <<remote, dirty, state, longTerm, granted, acted, unretryable, steps,
                 pushing, operator, writes, own, posted>>

----------------------------------------------------------------------------
(* The end of a step, and of a wake.                                       *)

LogStep ==
  /\ pc = "log" /\ pc' = "between" /\ LeaveStep
  /\ UNCHANGED <<repo, remote, dirty, granted, acted, unretryable, steps,
                 todo, pushing, operator, writes, faults, own, posted, residue, excused>>

\* write_runlog's error fails the wake, although the step is done.
LogFails ==
  /\ pc = "log" /\ Fault /\ pc' = "failed" /\ LeaveStep
  /\ UNCHANGED <<repo, remote, dirty, granted, acted, unretryable, steps,
                 todo, pushing, operator, writes, own, posted, residue, excused>>

WakeOver ==
  /\ steps' = 0 /\ unretryable' = FALSE /\ posted' = FALSE /\ residue' = {}
  /\ UNCHANGED <<repo, remote, state, longTerm, granted, acted, todo, operator, writes,
                 faults, own, excused>>

\* A failed wake is retried or recorded, by its mark, and does not push.
WakeFails == pc = "failed" /\ pc' = "idle" /\ WakeOver /\ UNCHANGED <<dirty, pushing>>

\* push_soul: no network when nothing was committed since the last one.
StartPush ==
  /\ pc = "between" /\ dirty /\ Remotes # <<>>
  /\ pc' = "push" /\ pushing' = [at |-> 1, attempt |-> 1, failed |-> FALSE]
  /\ WakeOver /\ UNCHANGED dirty

SkipPush ==
  /\ pc = "between" /\ (dirty => Remotes = <<>>)
  /\ pc' = "idle" /\ dirty' = FALSE
  /\ WakeOver /\ UNCHANGED pushing

\* Mutant of StillDirty: a push over all targets cleans, whatever failed.
StillDirtyNever(failed) == FALSE

\* A required failure keeps the repository dirty; a best-effort one does not.
StillDirty(failed) == failed

\* Mutant of PushedOne: the loop runs one past the last target.
PushedOneTooFar(failed) ==
  IF pushing.at <= Len(Remotes)
  THEN /\ pushing' = [at |-> pushing.at + 1, attempt |-> 1, failed |-> failed]
       /\ UNCHANGED <<pc, dirty>>
  ELSE /\ pushing' = NoPush /\ pc' = "idle" /\ dirty' = StillDirty(failed)

\* On to the next target; failed says whether a required one has failed so far.
PushedOne(failed) ==
  IF pushing.at < Len(Remotes)
  THEN /\ pushing' = [at |-> pushing.at + 1, attempt |-> 1, failed |-> failed]
       /\ UNCHANGED <<pc, dirty>>
  ELSE /\ pushing' = NoPush /\ pc' = "idle" /\ dirty' = StillDirty(failed)

PushOk(r) ==
  /\ pc = "push" /\ Remotes[pushing.at] = r
  /\ remote' = [remote EXCEPT ![r] = repo.commits]
  /\ PushedOne(pushing.failed)
  /\ UNCHANGED <<repo, state, longTerm, granted, acted, unretryable, steps, todo,
                 operator, writes, faults, own, posted, residue, excused>>

\* A transient failure is tried again after a pause; the last one, and a permanent
\* one, is this target's result.
PushFails(transient) ==
  /\ pc = "push"
  /\ IF transient /\ pushing.attempt < MaxAttempts
     THEN pushing' = [pushing EXCEPT !.attempt = @ + 1] /\ UNCHANGED <<pc, dirty>>
     ELSE PushedOne(pushing.failed \/ Remotes[pushing.at] \in Required)
  /\ UNCHANGED <<repo, remote, state, longTerm, granted, acted, unretryable, steps, todo,
                 operator, writes, faults, own, posted, residue, excused>>

----------------------------------------------------------------------------
(* The process, and the operator's.                                        *)

\* What the process kept in memory is gone; the tree is as it was.
Crash ==
  /\ pc # "down" /\ Fault
  /\ pc' = "down" /\ LeaveStep /\ granted' = {} /\ acted' = FALSE /\ unretryable' = FALSE
  /\ steps' = 0 /\ todo' = {} /\ pushing' = NoPush /\ posted' = FALSE /\ residue' = {}
  /\ excused' = excused \cup Changed
  /\ UNCHANGED <<repo, remote, dirty, operator, writes, own>>

\* Mutant of DirtyAtBoot: a fresh process has nothing to push.
DirtyAtBootNot == FALSE

\* The first push after a boot flushes what a crash left local.
DirtyAtBoot == TRUE

Boot ==
  /\ pc = "down" /\ pc' = "idle" /\ dirty' = DirtyAtBoot
  /\ UNCHANGED <<repo, remote, state, longTerm, granted, acted, unretryable, steps, todo,
                 pushing, operator, writes, faults, own, posted, residue, excused>>

\* What the operator touched while a step was being reconciled.
Reconciling(ps) == IF pc \in {"revert", "log", "between"} THEN residue \cup ps ELSE residue

HandEdit(p) ==
  /\ edits < MaxEdits /\ edits' = edits + 1
  /\ \E b \in {Absent, [by |-> "operator", allowed |-> TRUE]} \ {repo.tree[p]} :
       repo' = [repo EXCEPT !.tree[p] = b]
  /\ residue' = Reconciling({p})
  /\ UNCHANGED <<remote, dirty, daemon, cli, cliPaths, writes, faults, own, posted, excused>>

\* `dack reconcile`, a process of its own: status, then commit, then push.
CliStatus ==
  /\ cli = "off" /\ edits < MaxEdits /\ Status(repo) # {}
  /\ edits' = edits + 1
  /\ cli' = "listed" /\ cliPaths' = {ch.path : ch \in Status(repo)}
  /\ UNCHANGED <<repo, remote, dirty, daemon, writes, faults, own, posted, residue, excused>>

\* Whatever is in those paths by now is committed as the operator.
CliCommit ==
  /\ cli = "listed" /\ cliPaths' = {}
  /\ IF CanAdd(repo, cliPaths)
     THEN /\ repo' = CommitPaths(repo, cliPaths)
          /\ cli' = IF repo'.commits > repo.commits THEN "push" ELSE "off"
          /\ residue' = Reconciling(cliPaths) /\ excused' = excused \cup cliPaths
     ELSE cli' = "off" /\ UNCHANGED <<repo, residue, excused>>
  /\ UNCHANGED <<remote, dirty, daemon, edits, writes, faults, own, posted>>

\* It pushes to the same targets, and any of them may fail.
CliPush ==
  /\ cli = "push" /\ cli' = "off"
  /\ \E ok \in SUBSET Remote :
       remote' = [r \in Remote |-> IF r \in ok THEN repo.commits ELSE remote[r]]
  /\ UNCHANGED <<repo, dirty, daemon, cliPaths, edits, writes, faults, own, posted,
                 residue, excused>>

----------------------------------------------------------------------------
Begin == \E s \in StepState, lt \in BOOLEAN : BeginStep(s, lt)
Reconcile == ReadStatus \/ StatusFails \/ Sweep \/ SweepFails \/ \E ch \in todo : Revert(ch)
Push == (\E r \in Remote : PushOk(r)) \/ \E transient \in BOOLEAN : PushFails(transient)

Next ==
  \/ Begin
  \/ \E c \in Calls : Ask(c) \/ RunCall(c)
  \/ \E p \in Path : Stray(p) \/ HandEdit(p)
  \/ Returns \/ InvokeFails
  \/ Reconcile
  \/ LogStep \/ LogFails \/ WakeFails \/ StartPush \/ SkipPush
  \/ Push
  \/ Crash \/ Boot
  \/ CliStatus \/ CliCommit \/ CliPush

Spec == Init /\ [][Next]_vars

(***************************************************************************)
(* Fairness: the process is restarted and stimuli keep coming; an          *)
(* invocation ends (its budget elapses) and the code after it runs.        *)
(* Of the world: invocations that keep being started return a result       *)
(* again and again, wakes that get past a step again and again are over    *)
(* (one whose later steps always fail never pushes what the first ones     *)
(* committed), and a required remote that keeps being pushed to accepts.   *)
(***************************************************************************)
Fairness ==
  /\ WF_vars(Boot \/ (Begin /\ pc = "idle") \/ Reconcile \/ LogStep \/ WakeFails \/ Push)
  /\ SF_vars(Returns) /\ SF_vars(StartPush \/ SkipPush)
  /\ \A r \in Required : SF_vars(PushOk(r))

FairSpec == Spec /\ Fairness

----------------------------------------------------------------------------
(* Properties.                                                             *)

TypeOK ==
  /\ repo \in Repo /\ remote \in [Remote -> Nat] /\ dirty \in BOOLEAN
  /\ pc \in {"down", "idle", "invoke", "status", "revert", "log", "between", "push", "failed"}
  /\ state \in StepState \cup {NoState} /\ longTerm \in BOOLEAN /\ granted \subseteq Calls
  /\ acted \in BOOLEAN /\ unretryable \in BOOLEAN /\ steps \in Nat
  /\ todo \subseteq Change
  /\ pushing \in [at : 0..Len(Remotes), attempt : 0..MaxAttempts, failed : BOOLEAN]
  /\ cli \in {"off", "listed", "push"} /\ cliPaths \subseteq Path
  /\ writes \in Nat /\ edits \in Nat /\ faults \in Nat
  /\ own \in Nat /\ posted \in BOOLEAN /\ residue \subseteq Path /\ excused \subseteq Path

\* The tripwire (mod.rs:990-999): what a step wrote where its state may not write
\* is in HEAD only if its own reconciliation was skipped or failed there, or the
\* operator committed it; however the write got past the wall.
TripwireHolds ==
  \A p \in Path : LET b == repo.head[p] IN
    b # Absent /\ b.by \in WakeState /\ ~Permitted(b.by, p) => p \in excused

\* Wall and tripwire agree: what the wall let a step write is thrown away only if
\* that step failed or its commit did, never by the reconciliation that follows it.
AllowedWritesKept ==
  [][\A ch \in todo : Revert(ch) /\ repo' # repo =>
       LET b == repo.tree[ch.path] IN
       b # Absent /\ b.by \in WakeState /\ b.allowed => ch.path \in excused]_vars

\* A reconciliation leaves a clean tree, but for failed git calls, for what the operator
\* did since it looked, and for a file that was made again after its removal was staged
\* (restored and then removed: only the next step finds it gone).
CleanAfterStep == pc \in {"log", "between"} => Changed \subseteq residue

\* A commit of this daemon that a required remote lacks is never forgotten: the
\* repository is dirty, over failed pushes, failed wakes, crashes and restarts.
OwnCommitsFlushed ==
  pc # "down" => \A r \in Required : remote[r] < own => dirty

\* No double post (action_required.rs:97-101): when a failed wake is considered for a
\* retry, an outward tool that ran, even in an invocation that hung, has marked it.
OutwardIsMarked == posted /\ pc # "invoke" => unretryable

\* An irreversible tool is only ever granted in Settle, also when a looser prefix
\* begins its name or a server lists only some of its tools.
SettleOnlyInSettle ==
  \A c \in granted :
    (\E k \in Capability : k.class = "SettleTx" /\ c.tool \in k.tools) => state = "settle"

\* Again and again every required remote has every commit of the daemon.
RequiredCatchesUp == \A r \in Required : []<>(remote[r] >= own)

----------------------------------------------------------------------------
(* A statement of the code that the code does not keep.                    *)

\* "commit the remaining (allowlisted) delta" (mod.rs:996): with no git call failing,
\* nothing is left at a path the state may write.
AllowlistedIsCommitted ==
  pc = "log" => \A p \in Path : Permitted(state, p) => ~Dirtied(repo, p)
=============================================================================
