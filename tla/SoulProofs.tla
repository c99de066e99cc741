----------------------------- MODULE SoulProofs -----------------------------
(***************************************************************************)
(* Proofs about the soul repository: types, the tripwire, the push that is *)
(* never forgotten, the mark of an outward act, the tools of Settle, the   *)
(* clean tree after a step, and the agreement of wall and tripwire; for    *)
(* any files, states, calls, remotes and number of faults.                 *)
(***************************************************************************)
EXTENDS Soul, TLAPS

\* A step that has begun has a state until it is reconciled.
Stated == pc \in {"invoke", "status", "revert"} => state \in StepState

\* The flags of TypeOK, and the rest of it beside the repository.
FlagsOK ==
  /\ dirty \in BOOLEAN /\ longTerm \in BOOLEAN /\ acted \in BOOLEAN
  /\ unretryable \in BOOLEAN /\ posted \in BOOLEAN

PhaseOK ==
  /\ pc \in {"down", "idle", "invoke", "status", "revert", "log", "between", "push", "failed"}
  /\ state \in StepState \cup {NoState} /\ granted \subseteq Calls
  /\ cli \in {"off", "listed", "push"}

CountsOK ==
  /\ steps \in Nat /\ writes \in Nat /\ edits \in Nat /\ faults \in Nat

PathsOK ==
  /\ todo \subseteq Change /\ cliPaths \subseteq Path
  /\ residue \subseteq Path /\ excused \subseteq Path

PushesOK ==
  /\ remote \in [Remote -> Nat] /\ own \in Nat
  /\ pushing \in [at : 0..Len(Remotes), attempt : 0..MaxAttempts, failed : BOOLEAN]

\* A content that its writer's state may not have put there.
Bad(b, p) == b # Absent /\ b.by \in WakeState /\ ~Permitted(b.by, p)

\* The running step wrote p, and its reconciliation has still to look at p.
Mine(p) ==
  /\ repo.tree[p] # Absent /\ repo.tree[p].by = state
  /\ \/ pc \in {"invoke", "status"}
     \/ pc = "revert" /\ \E ch \in todo : ch.path = p

\* The tripwire, for the index and the tree as well.
Tripwired ==
  \A p \in Path :
    /\ Bad(repo.head[p], p) \/ Bad(repo.index[p], p) => p \in excused
    /\ Bad(repo.tree[p], p) => p \in excused \/ Mine(p)

\* Up to where a push has come, what it did not fail on has arrived.
Flushed ==
  /\ own <= repo.commits
  /\ OwnCommitsFlushed
  /\ pc = "push" =>
       /\ dirty /\ pushing.at \in 1 .. Len(Remotes)
       /\ ~pushing.failed => \A j \in 1 .. Len(Remotes) :
            j < pushing.at /\ Remotes[j] \in Required => remote[Remotes[j]] >= own

\* The mark is on its way from the permission to the end of the invocation.
Marked ==
  /\ pc # "invoke" => granted = {} /\ ~acted
  /\ \A c \in granted : Outward(c.tool, c.target) => acted
  /\ posted => acted \/ unretryable

\* What was granted was decided by the state that runs.
Decided ==
  \A c \in granted : state \in StepState /\ Classify(c.tool, c.target) \in Scope(state)

----------------------------------------------------------------------------
(* The repository's operators.                                             *)

\* Writing one file changes the tree there, and nothing else.
LEMMA WriteEffect ==
  ASSUME NEW r \in Repo, NEW p \in Path, NEW b \in Blob
  PROVE  LET after == [r EXCEPT !.tree[p] = b] IN
         /\ after \in Repo /\ after.index = r.index /\ after.head = r.head
         /\ after.commits = r.commits
         /\ \A q \in Path : after.tree[q] = IF q = p THEN b ELSE r.tree[q]
BY DEF Repo, Files

\* `git add` copies the paths into the index.
LEMMA AddEffect ==
  ASSUME NEW r \in Repo, NEW ps \in SUBSET Path
  PROVE  /\ Add(r, ps) \in Repo
         /\ Add(r, ps).tree = r.tree /\ Add(r, ps).head = r.head
         /\ Add(r, ps).commits = r.commits
         /\ \A p \in Path : Add(r, ps).index[p] = IF p \in ps THEN r.tree[p] ELSE r.index[p]
BY DEF Add, Repo, Files

\* A commit copies the index of the paths into HEAD, or does nothing.
LEMMA CommitEffect ==
  ASSUME NEW r \in Repo, NEW ps \in SUBSET Path
  PROVE  /\ Commit(r, ps) \in Repo
         /\ Commit(r, ps).tree = r.tree /\ Commit(r, ps).index = r.index
         /\ Commit(r, ps).commits \in {r.commits, r.commits + 1}
         /\ \A p \in Path : \/ Commit(r, ps).head[p] = r.head[p]
                            \/ p \in ps /\ Commit(r, ps).head[p] = r.index[p]
<1>1. CASE Staged(r, ps)
  <2> DEFINE h == [p \in Path |-> IF p \in ps THEN r.index[p] ELSE r.head[p]]
  <2>1. h \in Files /\ r.commits \in Nat
    BY DEF Repo, Files
  <2>2. \A p \in Path : h[p] = r.head[p] \/ (p \in ps /\ h[p] = r.index[p])
    OBVIOUS
  <2>3. Commit(r, ps) = [r EXCEPT !.head = h, !.commits = r.commits + 1]
    BY <1>1 DEF Commit
  <2> HIDE DEF h
  <2>4. Commit(r, ps) = [tree |-> r.tree, index |-> r.index, head |-> h, commits |-> r.commits + 1]
    BY <2>3 DEF Repo
  <2>5. /\ r.tree \in Files /\ r.index \in Files
    BY DEF Repo
  <2> QED BY <2>1, <2>2, <2>4, <2>5 DEF Repo
<1>2. CASE ~Staged(r, ps)
  BY <1>2 DEF Commit
<1> QED BY <1>1, <1>2

\* commit_paths: what it adds and commits is the tree of its paths.
LEMMA SweepEffect ==
  ASSUME NEW r \in Repo, NEW ps \in SUBSET Path
  PROVE  /\ CommitPaths(r, ps) \in Repo
         /\ CommitPaths(r, ps).tree = r.tree
         /\ CommitPaths(r, ps).commits \in {r.commits, r.commits + 1}
         /\ \A p \in Path :
              /\ CommitPaths(r, ps).index[p] = IF p \in ps THEN r.tree[p] ELSE r.index[p]
              /\ \/ CommitPaths(r, ps).head[p] = r.head[p]
                 \/ p \in ps /\ CommitPaths(r, ps).head[p] = r.tree[p]
<1>1. Add(r, ps) \in Repo
  BY AddEffect
<1> QED BY <1>1, AddEffect, CommitEffect DEF CommitPaths

\* restore_to_head leaves HEAD's content or none.
LEMMA RestoreEffect ==
  ASSUME NEW r \in Repo, NEW ch \in Change
  PROVE  /\ RestoreToHead(r, ch) \in Repo
         /\ RestoreToHead(r, ch).head = r.head /\ RestoreToHead(r, ch).commits = r.commits
         /\ RestoreToHead(r, ch).tree[ch.path] \in {Absent, r.head[ch.path]}
         /\ \A q \in Path \ {ch.path} : RestoreToHead(r, ch).tree[q] = r.tree[q]
         /\ \A q \in Path : RestoreToHead(r, ch).index[q] \in {r.index[q], r.head[q]}
<1>1. ch.path \in Path
  BY DEF Change
<1>2. CASE ch.untracked
  BY <1>1, <1>2 DEF RestoreToHead, Repo, Files, Blob
<1>3. CASE ~ch.untracked
  BY <1>1, <1>3 DEF RestoreToHead, Repo, Files, Blob
<1> QED BY <1>2, <1>3

\* What status lists are changes, and a path it does not list is clean.
LEMMA StatusEffect ==
  ASSUME NEW r \in Repo
  PROVE  /\ Status(r) \subseteq Change
         /\ \A p \in Path : Dirtied(r, p) => \E ch \in Status(r) : ch.path = p
<1>1. Status(r) \subseteq Change
  BY DEF Status, Change
<1>2. ASSUME NEW p \in Path, Dirtied(r, p)
      PROVE  \E ch \in Status(r) : ch.path = p
  <2>1. CASE r.index[p] # r.head[p] \/ r.index[p] \notin {Absent, r.tree[p]}
    <3>1. [path |-> p, untracked |-> FALSE] \in Status(r)
      BY <2>1 DEF Status
    <3> QED BY <3>1
  <2>2. CASE r.index[p] = Absent /\ r.tree[p] # Absent
    <3>1. [path |-> p, untracked |-> TRUE] \in Status(r)
      BY <2>2 DEF Status
    <3> QED BY <3>1
  <2> QED BY <1>2, <2>1, <2>2 DEF Dirtied
<1> QED BY <1>1, <1>2

\* What the daemon, the wall and the operator write are contents.
LEMMA WritersWrite ==
  ASSUME NEW w \in StepState \cup {"operator"}, NEW ok \in BOOLEAN
  PROVE  [by |-> w, allowed |-> ok] \in Blob /\ [by |-> w, allowed |-> ok] # Absent
<1>1. w \in Writer
  BY SoulAssumption DEF Writer
<1>2. [by |-> w, allowed |-> ok] \in Content
  BY <1>1, SoulAssumption
<1> QED BY <1>2, GitAssumption DEF Blob

----------------------------------------------------------------------------
(* Types.                                                                  *)

\* The parts make the whole.
LEMMA TypeParts == TypeOK <=> repo \in Repo /\ FlagsOK /\ PhaseOK /\ CountsOK /\ PathsOK /\ PushesOK
BY DEF TypeOK, FlagsOK, PhaseOK, CountsOK, PathsOK, PushesOK

\* What writes to the repository writes contents.
LEMMA RepoSteps ==
  ASSUME TypeOK, Stated, [Next]_vars
  PROVE  repo' \in Repo
<1>0. repo \in Repo /\ todo \subseteq Change /\ cliPaths \subseteq Path
  BY DEF TypeOK
<1>1. ASSUME NEW c \in Calls, RunCall(c) PROVE repo' \in Repo
  <2>1. state \in StepState
    BY <1>1 DEF Stated, RunCall
  <2>2. CASE repo' = repo
    BY <1>0, <2>2
  <2>3. CASE /\ Relative(c.target) \in Path
             /\ repo' = [repo EXCEPT !.tree[Relative(c.target)] = [by |-> state, allowed |-> TRUE]]
    <3>1. [by |-> state, allowed |-> TRUE] \in Blob
      BY <2>1, WritersWrite
    <3> QED BY <1>0, <2>3, <3>1, WriteEffect
  <2> QED BY <1>1, <2>2, <2>3 DEF RunCall
<1>2. ASSUME NEW p \in Path, Stray(p) PROVE repo' \in Repo
  <2>1. state \in StepState
    BY <1>2 DEF Stated, Stray
  <2>2. PICK b \in {Absent, [by |-> state, allowed |-> FALSE]} : repo' = [repo EXCEPT !.tree[p] = b]
    BY <1>2 DEF Stray
  <2>3. b \in Blob
    BY <2>1, WritersWrite DEF Blob
  <2> QED BY <1>0, <2>2, <2>3, WriteEffect
<1>3. ASSUME NEW p \in Path, HandEdit(p) PROVE repo' \in Repo
  <2>1. PICK b \in {Absent, [by |-> "operator", allowed |-> TRUE]} : repo' = [repo EXCEPT !.tree[p] = b]
    BY <1>3 DEF HandEdit
  <2>2. b \in Blob
    BY WritersWrite DEF Blob
  <2> QED BY <1>0, <2>1, <2>2, WriteEffect
<1>4. ASSUME NEW ch \in todo, Revert(ch) PROVE repo' \in Repo
  <2>1. repo' = RestoreToHead(repo, ch) \/ repo' = repo
    BY <1>4 DEF Revert
  <2> QED BY <1>0, <2>1, RestoreEffect
<1>5. Sweepable \subseteq Path
  BY <1>0 DEF Sweepable, Change
<1>6. CASE Sweep
  BY <1>0, <1>5, <1>6, SweepEffect DEF Sweep
<1>7. CASE SweepFails
  <2>1. repo' = repo \/ repo' = Add(repo, Sweepable)
    BY <1>7 DEF SweepFails
  <2> QED BY <1>0, <1>5, <2>1, AddEffect
<1>8. CASE CliCommit
  <2>1. repo' = repo \/ repo' = CommitPaths(repo, cliPaths)
    BY <1>8 DEF CliCommit
  <2> QED BY <1>0, <2>1, SweepEffect
<1>9. CASE repo' = repo
  BY <1>0, <1>9
<1> QED
  BY <1>1, <1>2, <1>3, <1>4, <1>6, <1>7, <1>8, <1>9
  DEF Next, Begin, BeginStep, Ask, Returns, InvokeFails, Reconcile, ReadStatus, StatusFails,
      LogStep, LogFails, WakeFails, StartPush, SkipPush, WakeOver, Push, PushOk, PushFails,
      Crash, Boot, CliStatus, CliPush, vars

\* The counters count.
LEMMA CountsStep ==
  ASSUME CountsOK, [Next]_vars
  PROVE  CountsOK'
<1>1. /\ steps' \in {steps, steps + 1, 0} /\ writes' \in {writes, writes + 1}
      /\ edits' \in {edits, edits + 1} /\ faults' \in {faults, faults + 1}
  BY DEF Next, Begin, BeginStep, Ask, RunCall, Stray, HandEdit, Returns, InvokeFails, Marks, LeaveStep,
      Reconcile, ReadStatus, StatusFails, Sweep, SweepFails, Revert, Reverted, LogStep, LogFails,
      WakeFails, WakeOver, StartPush, SkipPush, Push, PushOk, PushFails, PushedOne, Crash, Boot,
      CliStatus, CliCommit, CliPush, Fault, vars, daemon, operator
<1> QED BY <1>1 DEF CountsOK

\* The phase, the state and the grants.
LEMMA PhaseStep == PhaseOK /\ [Next]_vars => PhaseOK'
BY DEF PhaseOK, NoState, Next, Begin, BeginStep, Ask, RunCall, Stray, HandEdit, Returns, InvokeFails, Marks, LeaveStep,
      Reconcile, ReadStatus, StatusFails, Sweep, SweepFails, Revert, Reverted, LogStep, LogFails,
      WakeFails, WakeOver, StartPush, SkipPush, Push, PushOk, PushFails, PushedOne, Crash, Boot,
      CliStatus, CliCommit, CliPush, Fault, vars, daemon, operator

\* A step has a state.
LEMMA StatedStep == Stated /\ [Next]_vars => Stated'
BY DEF Stated, Next, Begin, BeginStep, Ask, RunCall, Stray, HandEdit, Returns, InvokeFails, Marks, LeaveStep,
      Reconcile, ReadStatus, StatusFails, Sweep, SweepFails, Revert, Reverted, LogStep, LogFails,
      WakeFails, WakeOver, StartPush, SkipPush, Push, PushOk, PushFails, PushedOne, Crash, Boot,
      CliStatus, CliCommit, CliPush, Fault, vars, daemon, operator

\* The listed changes and paths, and the histories of paths.
LEMMA PathsStep ==
  ASSUME TypeOK, [Next]_vars
  PROVE  PathsOK'
<1>1. /\ todo' \in {todo, {}, Status(repo)} \/ todo' \subseteq todo
      /\ cliPaths' \in {cliPaths, {}, {ch.path : ch \in Status(repo)}}
  BY DEF Next, Begin, BeginStep, Ask, RunCall, Stray, HandEdit, Returns, InvokeFails, Marks, LeaveStep,
      Reconcile, ReadStatus, StatusFails, Sweep, SweepFails, Revert, Reverted, LogStep, LogFails,
      WakeFails, WakeOver, StartPush, SkipPush, Push, PushOk, PushFails, PushedOne, Crash, Boot,
      CliStatus, CliCommit, CliPush, Fault, vars, daemon, operator
<1>2. /\ residue' \subseteq residue \cup Path \cup Sweepable \cup Remade(repo) \cup {ch.path : ch \in todo} \cup cliPaths
      /\ excused' \subseteq excused \cup Changed \cup Sweepable \cup {ch.path : ch \in todo} \cup cliPaths
  BY DEF Excuses, Reconciling, Next, Begin, BeginStep, Ask, RunCall, Stray, HandEdit, Returns, InvokeFails, Marks, LeaveStep,
      Reconcile, ReadStatus, StatusFails, Sweep, SweepFails, Revert, Reverted, LogStep, LogFails,
      WakeFails, WakeOver, StartPush, SkipPush, Push, PushOk, PushFails, PushedOne, Crash, Boot,
      CliStatus, CliCommit, CliPush, Fault, vars, daemon, operator
<1>3. repo \in Repo /\ PathsOK
  BY TypeParts
<1>4. Sweepable \subseteq Path /\ {ch.path : ch \in todo} \subseteq Path
  BY <1>3 DEF PathsOK, Sweepable, Change
<1>5. Status(repo) \subseteq Change /\ {ch.path : ch \in Status(repo)} \subseteq Path
  BY <1>3, StatusEffect DEF Change
<1>6. Changed \subseteq Path /\ Remade(repo) \subseteq Path
  BY DEF Changed, Remade
<1> QED BY <1>1, <1>2, <1>3, <1>4, <1>5, <1>6 DEF PathsOK

\* The remotes and the push.
LEMMA PushesStep ==
  ASSUME TypeOK, [Next]_vars
  PROVE  PushesOK'
<1> DEFINE Pushing == [at : 0..Len(Remotes), attempt : 0..MaxAttempts, failed : BOOLEAN]
<1>0. /\ PushesOK /\ repo.commits \in Nat /\ repo \in Repo /\ todo \subseteq Change
      /\ MaxAttempts \in Nat \ {0} /\ Remotes \in Seq(STRING) /\ Len(Remotes) \in Nat
  BY SoulAssumption, TypeParts DEF Repo, PathsOK
<1>1. ASSUME NEW failed \in BOOLEAN, PushedOne(failed) PROVE pushing' \in Pushing
  <2>1. pushing.at \in 0..Len(Remotes) /\ 1 \in 0..MaxAttempts
    BY <1>0 DEF PushesOK
  <2>2. CASE pushing.at < Len(Remotes)
    <3>1. pushing' = [at |-> pushing.at + 1, attempt |-> 1, failed |-> failed]
      BY <1>1, <2>2 DEF PushedOne
    <3>2. pushing.at + 1 \in 0..Len(Remotes)
      BY <1>0, <2>1, <2>2
    <3> QED BY <2>1, <3>1, <3>2
  <2>3. CASE ~(pushing.at < Len(Remotes))
    <3>1. pushing' = [at |-> 0, attempt |-> 0, failed |-> FALSE]
      BY <1>1, <2>3 DEF PushedOne, NoPush
    <3>2. 0 \in 0..Len(Remotes) /\ 0 \in 0..MaxAttempts
      BY <1>0
    <3> QED BY <3>1, <3>2
  <2> QED BY <2>2, <2>3
<1>2. CASE \E r \in Remote : PushOk(r)
  <2>1. PICK r \in Remote : PushOk(r)
    BY <1>2
  <2>2. remote' = [remote EXCEPT ![r] = repo.commits] /\ own' = own /\ PushedOne(pushing.failed)
    BY <2>1 DEF PushOk
  <2>3. pushing.failed \in BOOLEAN
    BY <1>0, Zenon DEF PushesOK
  <2>4. remote' \in [Remote -> Nat] /\ own' \in Nat
    BY <1>0, <2>2 DEF PushesOK
  <2> QED BY <1>1, <2>2, <2>3, <2>4 DEF PushesOK
<1>3. CASE \E transient \in BOOLEAN : PushFails(transient)
  <2>1. remote' = remote /\ own' = own
    BY <1>3 DEF PushFails
  <2>2. \/ pushing' = [pushing EXCEPT !.attempt = @ + 1] /\ pushing.attempt < MaxAttempts
        \/ \E failed \in BOOLEAN : PushedOne(failed)
    BY <1>3 DEF PushFails
  <2>3. ASSUME pushing' = [pushing EXCEPT !.attempt = @ + 1], pushing.attempt < MaxAttempts
        PROVE  pushing' \in Pushing
    BY <1>0, <2>3 DEF PushesOK
  <2> QED BY <1>0, <1>1, <2>1, <2>2, <2>3 DEF PushesOK
<1>4. CASE StartPush
  <2>1. pushing' = [at |-> 1, attempt |-> 1, failed |-> FALSE] /\ Remotes # <<>>
        /\ remote' = remote /\ own' = own
    BY <1>4 DEF StartPush, WakeOver
  <2>2. 1 \in 0..Len(Remotes) /\ 1 \in 0..MaxAttempts
    BY <1>0, <2>1
  <2> QED BY <1>0, <2>1, <2>2 DEF PushesOK
<1>5. CASE Crash
  <2>1. pushing' = [at |-> 0, attempt |-> 0, failed |-> FALSE] /\ UNCHANGED <<remote, own>>
    BY <1>5 DEF Crash, NoPush
  <2>2. 0 \in 0..Len(Remotes) /\ 0 \in 0..MaxAttempts
    BY <1>0
  <2> QED BY <1>0, <2>1, <2>2 DEF PushesOK
<1>6. CASE CliPush
  <2>1. remote' \in [Remote -> Nat]
    BY <1>0, <1>6 DEF CliPush, PushesOK
  <2> QED BY <1>0, <1>6, <2>1 DEF CliPush, daemon, PushesOK
<1>7. CASE Sweep
  <2>1. own' \in {own, CommitPaths(repo, Sweepable).commits}
    BY <1>7 DEF Sweep
  <2>2. CommitPaths(repo, Sweepable).commits \in Nat
    <3>1. Sweepable \subseteq Path
      BY <1>0 DEF Sweepable, Change
    <3> QED BY <1>0, <3>1, SweepEffect DEF Repo
  <2> QED BY <1>0, <1>7, <2>1, <2>2 DEF Sweep, PushesOK
<1>8. CASE UNCHANGED <<remote, own, pushing>>
  BY <1>0, <1>8 DEF PushesOK
<1> QED
  BY <1>2, <1>3, <1>4, <1>5, <1>6, <1>7, <1>8
  DEF Push, Next, Begin, BeginStep, Ask, RunCall, Stray, HandEdit, Returns, InvokeFails,
      Reconcile, ReadStatus, StatusFails, Sweep, SweepFails, Revert, LogStep, LogFails,
      WakeFails, WakeOver, SkipPush, Boot, CliStatus, CliCommit, vars, daemon

\* The flags.
LEMMA FlagsStep ==
  ASSUME TypeOK, [Next]_vars
  PROVE  FlagsOK'
<1>0. FlagsOK /\ pushing.failed \in BOOLEAN
  BY TypeParts, Zenon DEF PushesOK
<1>1. acted' \in BOOLEAN
  BY <1>0 DEF FlagsOK, Next, Begin, BeginStep, Ask, RunCall, Stray, HandEdit, Returns, InvokeFails, Marks, LeaveStep,
      Reconcile, ReadStatus, StatusFails, Sweep, SweepFails, Revert, Reverted, LogStep, LogFails,
      WakeFails, WakeOver, StartPush, SkipPush, Push, PushOk, PushFails, PushedOne, Crash, Boot,
      CliStatus, CliCommit, CliPush, Fault, vars, daemon, operator
<1>2. longTerm' \in BOOLEAN
  BY <1>0 DEF FlagsOK, Next, Begin, BeginStep, Ask, RunCall, Stray, HandEdit, Returns, InvokeFails, Marks, LeaveStep,
      Reconcile, ReadStatus, StatusFails, Sweep, SweepFails, Revert, Reverted, LogStep, LogFails,
      WakeFails, WakeOver, StartPush, SkipPush, Push, PushOk, PushFails, PushedOne, Crash, Boot,
      CliStatus, CliCommit, CliPush, Fault, vars, daemon, operator
<1>3. unretryable' \in BOOLEAN
  BY <1>0 DEF FlagsOK, Next, Begin, BeginStep, Ask, RunCall, Stray, HandEdit, Returns, InvokeFails, Marks, LeaveStep,
      Reconcile, ReadStatus, StatusFails, Sweep, SweepFails, Revert, Reverted, LogStep, LogFails,
      WakeFails, WakeOver, StartPush, SkipPush, Push, PushOk, PushFails, PushedOne, Crash, Boot,
      CliStatus, CliCommit, CliPush, Fault, vars, daemon, operator
<1>4. posted' \in BOOLEAN
  BY <1>0 DEF FlagsOK, Next, Begin, BeginStep, Ask, RunCall, Stray, HandEdit, Returns, InvokeFails, Marks, LeaveStep,
      Reconcile, ReadStatus, StatusFails, Sweep, SweepFails, Revert, Reverted, LogStep, LogFails,
      WakeFails, WakeOver, StartPush, SkipPush, Push, PushOk, PushFails, PushedOne, Crash, Boot,
      CliStatus, CliCommit, CliPush, Fault, vars, daemon, operator
<1>5. dirty' \in BOOLEAN
  BY <1>0 DEF FlagsOK, DirtiedBy, StillDirty, DirtyAtBoot, Next, Begin, BeginStep, Ask, RunCall, Stray, HandEdit, Returns, InvokeFails, Marks, LeaveStep,
      Reconcile, ReadStatus, StatusFails, Sweep, SweepFails, Revert, Reverted, LogStep, LogFails,
      WakeFails, WakeOver, StartPush, SkipPush, Push, PushOk, PushFails, PushedOne, Crash, Boot,
      CliStatus, CliCommit, CliPush, Fault, vars, daemon, operator
<1> QED BY <1>1, <1>2, <1>3, <1>4, <1>5 DEF FlagsOK

----------------------------------------------------------------------------
(* The mark and the tools of Settle.                                       *)

\* The types, for any number of steps, writes, edits and faults.
LEMMA TypeStep ==
  ASSUME TypeOK, Stated, [Next]_vars
  PROVE  TypeOK' /\ Stated'
<1>1. FlagsOK /\ PhaseOK /\ CountsOK
  BY TypeParts
<1>2. FlagsOK' /\ PhaseOK' /\ CountsOK' /\ PathsOK' /\ PushesOK' /\ repo' \in Repo
  BY <1>1, FlagsStep, PhaseStep, CountsStep, PathsStep, PushesStep, RepoSteps
<1>3. TypeOK'
  BY <1>2 DEF TypeOK, FlagsOK, PhaseOK, CountsOK, PathsOK, PushesOK
<1> QED BY <1>3, StatedStep

\* An outward call is noted when it is allowed, and the mark outlives the invocation.
LEMMA MarkedStep ==
  ASSUME TypeOK, Marked, [Next]_vars
  PROVE  Marked'
<1>1. ASSUME NEW c \in Calls, Ask(c) PROVE Marked'
  BY <1>1 DEF Ask, Marked, Recorded
<1>2. ASSUME NEW c \in Calls, RunCall(c) PROVE Marked'
  BY <1>2 DEF RunCall, Marked
<1>3. CASE Returns
  BY <1>3 DEF Returns, Marks, Marked
<1>4. CASE InvokeFails
  BY <1>4 DEF InvokeFails, Marks, Marked
<1>5. CASE pc # "invoke" /\ UNCHANGED <<granted, acted>> /\ UNCHANGED <<posted, unretryable>>
  BY <1>5 DEF Marked
<1>6. CASE granted' = {} /\ acted' = FALSE /\ posted' = FALSE
  BY <1>6 DEF Marked
<1>7. CASE pc # "invoke" /\ UNCHANGED <<granted, acted>> /\ posted' = FALSE
  BY <1>7 DEF Marked
<1>8. CASE UNCHANGED <<pc, granted, acted, posted, unretryable>>
  BY <1>8 DEF Marked
<1> QED
  BY <1>1, <1>2, <1>3, <1>4, <1>5, <1>6, <1>7, <1>8
  DEF Next, Begin, BeginStep, Stray, HandEdit, Reconcile, ReadStatus, StatusFails, Sweep,
      SweepFails, Revert, Reverted, LogStep, LogFails, WakeFails, WakeOver, StartPush, SkipPush, Push, PushOk,
      PushFails, PushedOne, Crash, Boot, CliStatus, CliCommit, CliPush, LeaveStep, vars, daemon

\* What is granted stays decided for the state that runs.
LEMMA DecidedStep ==
  ASSUME TypeOK, Stated, Decided, Marked, [Next]_vars
  PROVE  Decided'
<1>1. ASSUME NEW c \in Calls, Ask(c) PROVE Decided'
  BY <1>1 DEF Ask, Decided, Decide, Stated
<1>2. CASE granted' \subseteq granted /\ state' = state
  BY <1>2 DEF Decided
<1>3. CASE granted' = {}
  BY <1>3 DEF Decided
<1>4. CASE pc # "invoke" /\ granted' = granted
  BY <1>4 DEF Decided, Marked
<1> QED
  BY <1>1, <1>2, <1>3, <1>4
  DEF RunCall, Returns, InvokeFails, Next, Begin, BeginStep, Stray, HandEdit, Reconcile, ReadStatus, StatusFails, Sweep,
      SweepFails, Revert, Reverted, LogStep, LogFails, WakeFails, WakeOver, StartPush, SkipPush, Push, PushOk,
      PushFails, PushedOne, Crash, Boot, CliStatus, CliCommit, CliPush, LeaveStep, vars, daemon

\* A tool that a settling prefix begins is a settling tool, or none at all.
LEMMA StrictestClaims ==
  ASSUME NEW t \in Tool, NEW k \in Capability, k.class = "SettleTx", t \in k.tools,
         NEW target
  PROVE  Classify(t, target) \in {"SettleTx", "Other"}
<1>1. \A d \in Capability : ClassRank(k) <= ClassRank(d)
  BY WallAssumption DEF ClassRank
<1>2. /\ Claim(t) \in Capability
      /\ \A d \in Capability : t \in d.tools => ClassRank(Claim(t)) <= ClassRank(d)
  BY <1>1 DEF Claim
<1>3. Claim(t).class = "SettleTx"
  BY <1>2, WallAssumption DEF ClassRank
<1> QED BY <1>3 DEF Classify

\* Only Settle's scope holds settling tools.
LEMMA SettlesInSettle ==
  ASSUME NEW s \in WakeState, "SettleTx" \in Scope(s) \/ "Other" \in Scope(s)
  PROVE  s = "settle"
BY DEF WakeState, Scope

----------------------------------------------------------------------------
(* The push.                                                               *)

\* The number of commits never falls (commit_paths).
LEMMA CommitsGrow ==
  ASSUME TypeOK, [Next]_vars
  PROVE  repo'.commits >= repo.commits
<1>0. repo \in Repo /\ repo.commits \in Nat /\ todo \subseteq Change /\ cliPaths \subseteq Path
  BY DEF TypeOK, Repo
<1>1. ASSUME NEW p, Stray(p) \/ HandEdit(p) PROVE repo'.commits = repo.commits
  <2>1. \E b : repo' = [repo EXCEPT !.tree[p] = b]
    BY <1>1 DEF Stray, HandEdit
  <2> QED BY <1>0, <2>1 DEF Repo
<1>2. ASSUME NEW c, RunCall(c) PROVE repo'.commits = repo.commits
  <2>1. repo' = repo \/ \E p, b : repo' = [repo EXCEPT !.tree[p] = b]
    BY <1>2 DEF RunCall
  <2> QED BY <1>0, <2>1 DEF Repo
<1>3. Sweepable \subseteq Path
  BY <1>0 DEF Sweepable, Change
<1>4. ASSUME NEW ch \in todo, Revert(ch) PROVE repo'.commits = repo.commits
  BY <1>0, <1>4, RestoreEffect DEF Revert
<1>5. CASE Sweep
  BY <1>0, <1>3, <1>5, SweepEffect DEF Sweep
<1>6. CASE SweepFails
  BY <1>0, <1>3, <1>6, AddEffect DEF SweepFails
<1>7. CASE CliCommit
  BY <1>0, <1>7, SweepEffect DEF CliCommit
<1>8. CASE repo' = repo
  BY <1>0, <1>8
<1> QED
  BY <1>0, <1>1, <1>2, <1>4, <1>5, <1>6, <1>7, <1>8
  DEF Next, Begin, BeginStep, Ask, Returns, InvokeFails, Reconcile, ReadStatus, StatusFails,
      LogStep, LogFails, WakeFails, StartPush, SkipPush, WakeOver, Push, PushOk, PushFails, Crash,
      Boot, CliStatus, CliPush, vars

\* One target is done: either the loop goes on, or what it did not fail on has arrived.
LEMMA OneTargetDone ==
  ASSUME TypeOK, Flushed, pc = "push", NEW failed \in BOOLEAN, PushedOne(failed),
         remote' \in [Remote -> Nat], own' = own, repo'.commits >= repo.commits,
         repo'.commits \in Nat,
         \A r \in Remote : remote'[r] >= remote[r] \/ remote'[r] >= own,
         ~failed => ~pushing.failed,
         ~failed /\ Remotes[pushing.at] \in Required => remote'[Remotes[pushing.at]] >= own
  PROVE  Flushed'
<1>0. /\ own \in Nat /\ repo.commits \in Nat /\ own <= repo.commits
      /\ remote \in [Remote -> Nat] /\ Remotes \in Seq(STRING) /\ Len(Remotes) \in Nat
      /\ DOMAIN Remotes = 1 .. Len(Remotes) /\ pushing.at \in 1 .. Len(Remotes) /\ dirty
  BY SoulAssumption DEF TypeOK, Repo, Flushed
<1>1. own' <= repo'.commits
  BY <1>0
<1>2. ASSUME ~failed, NEW j \in 1 .. Len(Remotes), j <= pushing.at, Remotes[j] \in Required
      PROVE  remote'[Remotes[j]] >= own
  <2>1. CASE j = pushing.at
    BY <1>2, <2>1
  <2>2. CASE j # pushing.at
    <3>1. j < pushing.at
      BY <1>0, <1>2, <2>2
    <3>2. remote[Remotes[j]] >= own
      BY <1>2, <3>1 DEF Flushed
    <3>3. Remotes[j] \in Remote
      BY <1>0 DEF Remote, Range
    <3> QED BY <1>0, <3>2, <3>3
  <2> QED BY <2>1, <2>2
<1>3. CASE pushing.at < Len(Remotes)
  <2>1. /\ pushing' = [at |-> pushing.at + 1, attempt |-> 1, failed |-> failed]
        /\ pc' = pc /\ dirty' = dirty
    BY <1>3 DEF PushedOne
  <2>2. pushing'.at = pushing.at + 1 /\ pushing'.at \in 1 .. Len(Remotes) /\ pushing'.failed = failed
    BY <1>0, <1>3, <2>1
  <2>3. \A j \in 1 .. Len(Remotes) : j < pushing.at + 1 => j <= pushing.at
    BY <1>0
  <2>4. dirty'
    BY <1>0, <2>1
  <2> QED BY <1>1, <1>2, <2>1, <2>2, <2>3, <2>4 DEF Flushed, OwnCommitsFlushed
<1>4. CASE ~(pushing.at < Len(Remotes))
  <2>1. pc' = "idle" /\ dirty' = failed
    BY <1>4 DEF PushedOne, StillDirty
  <2>2. ASSUME ~failed, NEW r \in Required PROVE remote'[r] >= own
    <3>1. PICK j \in 1 .. Len(Remotes) : Remotes[j] = r
      BY <1>0, SoulAssumption DEF Range
    <3>2. j <= pushing.at
      BY <1>0, <1>4
    <3> QED BY <1>2, <2>2, <3>1, <3>2
  <2>3. \A r \in Required : remote'[r] \in Nat
    BY SoulAssumption DEF Remote
  <2>4. OwnCommitsFlushed'
    BY <1>0, <2>1, <2>2, <2>3 DEF OwnCommitsFlushed
  <2> QED BY <1>1, <2>1, <2>4 DEF Flushed
<1> QED BY <1>3, <1>4

\* No commit of the daemon is forgotten (push, sweep, boot).
LEMMA FlushedStep ==
  ASSUME TypeOK, TypeOK', Flushed, [Next]_vars
  PROVE  Flushed'
<1>0. /\ own \in Nat /\ own' \in Nat /\ repo.commits \in Nat /\ repo'.commits \in Nat
      /\ own <= repo.commits /\ repo'.commits >= repo.commits
      /\ remote \in [Remote -> Nat] /\ remote' \in [Remote -> Nat]
      /\ Required \subseteq Remote /\ Len(Remotes) \in Nat /\ repo \in Repo /\ todo \subseteq Change
  BY CommitsGrow, SoulAssumption DEF TypeOK, Repo, Flushed, Remote
<1>1. ASSUME NEW r \in Remote, PushOk(r) PROVE Flushed'
  <2>1. /\ pc = "push" /\ Remotes[pushing.at] = r /\ own' = own
        /\ remote' = [remote EXCEPT ![r] = repo.commits] /\ PushedOne(pushing.failed)
    BY <1>1 DEF PushOk
  <2>2. pushing.failed \in BOOLEAN
    BY TypeParts, Zenon DEF PushesOK
  <2>3. remote'[r] >= own /\ \A x \in Remote : remote'[x] >= remote[x] \/ remote'[x] >= own
    BY <1>0, <2>1
  <2> QED BY <1>0, <2>1, <2>2, <2>3, OneTargetDone
<1>2. ASSUME NEW transient \in BOOLEAN, PushFails(transient) PROVE Flushed'
  <2>1. pc = "push" /\ UNCHANGED <<repo, remote, own>>
    BY <1>2 DEF PushFails
  <2>2. CASE pushing' = [pushing EXCEPT !.attempt = @ + 1] /\ UNCHANGED <<pc, dirty>>
    <3>1. pushing'.at = pushing.at /\ pushing'.failed = pushing.failed
      BY <2>2 DEF TypeOK
    <3> QED BY <2>1, <2>2, <3>1 DEF Flushed, OwnCommitsFlushed
  <2>3. CASE PushedOne(pushing.failed \/ Remotes[pushing.at] \in Required)
    <3>1. \A x \in Remote : remote'[x] >= remote[x]
      BY <1>0, <2>1
    <3> QED BY <1>0, <2>1, <2>3, <3>1, OneTargetDone
  <2> QED BY <1>2, <2>2, <2>3 DEF PushFails
<1>3. CASE StartPush
  <2>1. /\ dirty /\ dirty' = dirty /\ pc = "between" /\ pushing' = [at |-> 1, attempt |-> 1, failed |-> FALSE]
        /\ Remotes # <<>> /\ UNCHANGED <<repo, remote, own>>
    BY <1>3 DEF StartPush, WakeOver
  <2>2. 1 \in 1 .. Len(Remotes)
    BY <2>1, SoulAssumption
  <2>3. dirty'
    BY <2>1
  <2> QED BY <1>0, <2>1, <2>2, <2>3 DEF Flushed, OwnCommitsFlushed
<1>4. CASE SkipPush
  <2>1. /\ dirty => Remotes = <<>>
        /\ pc = "between" /\ pc' = "idle" /\ UNCHANGED <<repo, remote, own>>
    BY <1>4 DEF SkipPush, WakeOver
  <2>2. Remotes = <<>> => Required = {}
    BY SoulAssumption DEF Range
  <2>3. \A r \in Required : ~(remote[r] < own)
    BY <2>1, <2>2 DEF Flushed, OwnCommitsFlushed
  <2> QED BY <1>0, <2>1, <2>3 DEF Flushed, OwnCommitsFlushed
<1>5. CASE Crash
  BY <1>0, <1>5 DEF Crash, Flushed, OwnCommitsFlushed
<1>6. CASE Boot
  <2>1. dirty' /\ pc' = "idle" /\ own' = own
    BY <1>6 DEF Boot, DirtyAtBoot
  <2> QED BY <1>0, <2>1 DEF Flushed, OwnCommitsFlushed
<1>7. CASE Sweep
  <2> DEFINE after == CommitPaths(repo, Sweepable)
  <2>1. /\ pc = "revert" /\ pc' = "log" /\ repo' = after /\ remote' = remote
        /\ dirty' = (dirty \/ after.commits > repo.commits)
        /\ own' = IF after.commits > repo.commits THEN after.commits ELSE own
    BY <1>7 DEF Sweep, Reverted, DirtiedBy
  <2>2. own' <= repo'.commits
    BY <1>0, <2>1
  <2>3. CASE after.commits > repo.commits
    <3>1. dirty'
      BY <2>1, <2>3
    <3> QED BY <2>1, <2>2, <3>1 DEF Flushed, OwnCommitsFlushed
  <2>4. CASE ~(after.commits > repo.commits)
    <3>1. own' = own /\ (dirty => dirty')
      BY <2>1, <2>4
    <3> QED BY <2>1, <2>2, <3>1 DEF Flushed, OwnCommitsFlushed
  <2> QED BY <2>3, <2>4
<1>8. CASE CliPush
  <2>1. \A r \in Remote : remote'[r] >= own \/ remote'[r] = remote[r]
    BY <1>0, <1>8 DEF CliPush
  <2>2. UNCHANGED <<repo, dirty, pc, pushing, own>>
    BY <1>8 DEF CliPush, daemon
  <2>3. OwnCommitsFlushed'
    BY <1>0, <2>1, <2>2 DEF Flushed, OwnCommitsFlushed
  <2>4. pc = "push" /\ ~pushing.failed => \A j \in 1 .. Len(Remotes) :
            j < pushing.at /\ Remotes[j] \in Required => remote'[Remotes[j]] >= own
    BY <1>0, <2>1 DEF Flushed
  <2> QED BY <1>0, <2>2, <2>3, <2>4 DEF Flushed
<1>9. CASE /\ UNCHANGED <<remote, dirty, pushing, own>>
           /\ pc' = pc \/ (pc \notin {"down", "push"} /\ pc' # "push")
  BY <1>0, <1>9 DEF Flushed, OwnCommitsFlushed
<1> QED
  BY <1>1, <1>2, <1>3, <1>4, <1>5, <1>6, <1>7, <1>8, <1>9
  DEF Next, Begin, BeginStep, Ask, RunCall, Stray, HandEdit, Returns, InvokeFails, Reconcile,
      ReadStatus, StatusFails, SweepFails, Revert, Reverted, LogStep, LogFails, WakeFails, WakeOver,
      Push, CliStatus, CliCommit, vars, daemon

----------------------------------------------------------------------------
(* The tripwire.                                                           *)

\* What is not dirty and not known to be bad is as HEAD has it.
LEMMA CleanIsExcused ==
  ASSUME Tripwired, NEW p \in Path, Bad(repo.tree[p], p), p \notin Changed
  PROVE  p \in excused
BY DEF Tripwired, Changed, Dirtied

\* Outside a step that is not reconciled, every bad content is excused.
LEMMA ReconciledIsExcused ==
  ASSUME Tripwired, pc \notin {"invoke", "status", "revert"}, NEW p \in Path, Bad(repo.tree[p], p)
  PROVE  p \in excused
BY DEF Tripwired, Mine

\* A step leaves the tripwire as it was when it does not touch the repository, and either
\* goes on or excuses what it leaves.
LEMMA TripwireRests ==
  ASSUME Tripwired, repo' = repo, excused \subseteq excused',
         \A p \in Path : Bad(repo.tree[p], p) => p \in excused' \/ Mine(p)'
  PROVE  Tripwired'
BY DEF Tripwired, Bad

\* The tripwire: a step's bad content waits in todo until it is reverted or excused
\* (reconcile_soul).
LEMMA TripwiredStep ==
  ASSUME TypeOK, Stated, Tripwired, [Next]_vars
  PROVE  Tripwired'
<1>0. repo \in Repo /\ todo \subseteq Change /\ cliPaths \subseteq Path
  BY DEF TypeOK
<1>1. ASSUME NEW c \in Calls, RunCall(c) PROVE Tripwired'
  <2>1. /\ pc = "invoke" /\ pc' = "invoke" /\ state' = state /\ excused' = excused
        /\ state \in StepState
    BY <1>1 DEF RunCall, Stated
  <2>2. CASE repo' = repo
    <3>1. \A p \in Path : Mine(p) => Mine(p)'
      BY <2>1, <2>2 DEF Mine
    <3> QED BY <2>1, <2>2, <3>1, TripwireRests DEF Tripwired
  <2>3. CASE /\ Relative(c.target) \in Path
             /\ repo' = [repo EXCEPT !.tree[Relative(c.target)] = [by |-> state, allowed |-> TRUE]]
    <3> DEFINE at == Relative(c.target)
               b == [by |-> state, allowed |-> TRUE]
    <3>1. b \in Blob /\ b # Absent /\ b.by = state
      BY <2>1, WritersWrite
    <3>2. /\ repo'.index = repo.index /\ repo'.head = repo.head
          /\ \A q \in Path : repo'.tree[q] = IF q = at THEN b ELSE repo.tree[q]
      <4> HIDE DEF at, b
      <4> QED BY <1>0, <2>3, <3>1, WriteEffect DEF at, b
    <3>3. \A q \in Path : Mine(q) => Mine(q)'
      BY <2>1, <3>1, <3>2 DEF Mine
    <3>4. Mine(at)'
      BY <2>1, <2>3, <3>1, <3>2 DEF Mine
    <3> HIDE DEF at, b
    <3> QED BY <2>1, <3>2, <3>3, <3>4 DEF Tripwired, Bad
  <2> QED BY <1>1, <2>2, <2>3 DEF RunCall
<1>2. ASSUME NEW p \in Path, Stray(p) PROVE Tripwired'
  <2>1. /\ pc = "invoke" /\ pc' = "invoke" /\ state' = state /\ excused' = excused
        /\ state \in StepState
    BY <1>2 DEF Stray, Stated, daemon
  <2>2. PICK b \in {Absent, [by |-> state, allowed |-> FALSE]} : repo' = [repo EXCEPT !.tree[p] = b]
    BY <1>2 DEF Stray
  <2>3. b \in Blob /\ (b # Absent => b.by = state)
    <3>1. CASE b = Absent
      BY <3>1 DEF Blob
    <3>2. CASE b = [by |-> state, allowed |-> FALSE]
      BY <2>1, <3>2, WritersWrite
    <3> QED BY <3>1, <3>2
  <2>4. /\ repo'.index = repo.index /\ repo'.head = repo.head
        /\ \A q \in Path : repo'.tree[q] = IF q = p THEN b ELSE repo.tree[q]
    BY <1>0, <2>2, <2>3, WriteEffect
  <2>5. \A q \in Path \ {p} : Mine(q) => Mine(q)'
    BY <2>1, <2>4 DEF Mine
  <2>6. b # Absent => Mine(p)'
    BY <2>1, <2>3, <2>4 DEF Mine
  <2> QED BY <2>1, <2>4, <2>5, <2>6 DEF Tripwired, Bad
<1>3. ASSUME NEW p \in Path, HandEdit(p) PROVE Tripwired'
  <2>1. UNCHANGED <<pc, state, todo, excused>>
    BY <1>3 DEF HandEdit, daemon
  <2>2. PICK b \in {Absent, [by |-> "operator", allowed |-> TRUE]} : repo' = [repo EXCEPT !.tree[p] = b]
    BY <1>3 DEF HandEdit
  <2>3. b \in Blob /\ ~Bad(b, p)
    <3>1. CASE b = Absent
      BY <3>1 DEF Blob, Bad
    <3>2. CASE b = [by |-> "operator", allowed |-> TRUE]
      <4>1. b.by = "operator" /\ "operator" \notin WakeState
        BY <3>2 DEF WakeState
      <4> QED BY <3>2, <4>1, WritersWrite DEF Bad
    <3> QED BY <3>1, <3>2
  <2>4. /\ repo'.index = repo.index /\ repo'.head = repo.head
        /\ \A q \in Path : repo'.tree[q] = IF q = p THEN b ELSE repo.tree[q]
    BY <1>0, <2>2, <2>3, WriteEffect
  <2>5. \A q \in Path \ {p} : Mine(q) => Mine(q)'
    BY <2>1, <2>4 DEF Mine
  <2> QED BY <2>1, <2>3, <2>4, <2>5 DEF Tripwired, Bad
<1>4. CASE ReadStatus
  <2>1. /\ pc = "status" /\ todo' = Status(repo) /\ UNCHANGED <<repo, state, excused>>
        /\ pc' = IF Status(repo) = {} THEN "log" ELSE "revert"
    BY <1>4 DEF ReadStatus
  <2>2. ASSUME NEW p \in Path, Bad(repo.tree[p], p), p \notin excused PROVE Mine(p)'
    <3>1. Dirtied(repo, p) /\ repo.tree[p].by = state /\ repo.tree[p] # Absent
      BY <2>2, CleanIsExcused DEF Changed, Tripwired, Mine
    <3>2. \E ch \in Status(repo) : ch.path = p
      BY <1>0, <3>1, StatusEffect
    <3> QED BY <2>1, <3>1, <3>2 DEF Mine
  <2> QED BY <2>1, <2>2, TripwireRests
<1>5. ASSUME NEW ch \in todo, Revert(ch) PROVE Tripwired'
  <2>1. /\ pc = "revert" /\ pc' = "revert" /\ state' = state /\ todo' = todo \ {ch}
        /\ ch \in Change /\ ch.path \in Path
    BY <1>0, <1>5 DEF Revert, Change
  <2>2. \A p \in Path \ {ch.path} : repo'.tree[p] = repo.tree[p] /\ Mine(p) => Mine(p)'
    BY <2>1 DEF Mine
  <2>3. CASE repo' = RestoreToHead(repo, ch) /\ excused' = excused
    <3>1. /\ repo'.head = repo.head
          /\ repo'.tree[ch.path] \in {Absent, repo.head[ch.path]}
          /\ \A q \in Path \ {ch.path} : repo'.tree[q] = repo.tree[q]
          /\ \A q \in Path : repo'.index[q] \in {repo.index[q], repo.head[q]}
      BY <1>0, <2>1, <2>3, RestoreEffect
    <3> QED BY <2>1, <2>2, <2>3, <3>1 DEF Tripwired, Bad
  <2>4. CASE repo' = repo /\ excused' = excused \cup {ch.path}
    BY <2>1, <2>2, <2>4 DEF Tripwired, Bad
  <2> QED BY <1>5, <2>3, <2>4 DEF Revert
<1>6. Sweepable \subseteq Path
  BY <1>0 DEF Sweepable, Change
<1>7. ASSUME Reverted, NEW p \in Path, Bad(repo.tree[p], p)
      PROVE  p \in excused
  <2>1. ASSUME Mine(p) PROVE FALSE
    <3>1. PICK ch \in todo : ch.path = p
      BY <1>7, <2>1 DEF Mine, Reverted
    <3>2. Permitted(state, p)
      BY <1>7, <3>1 DEF Reverted, InAllowlist
    <3> QED BY <1>7, <2>1, <3>2 DEF Mine, Bad
  <2> QED BY <1>7, <2>1 DEF Tripwired
<1>8. CASE Sweep
  <2>1. Reverted /\ repo' = CommitPaths(repo, Sweepable) /\ excused' = excused
    BY <1>8 DEF Sweep
  <2> QED BY <1>0, <1>6, <1>7, <2>1, SweepEffect DEF Tripwired, Bad
<1>9. CASE SweepFails
  <2>1. /\ Reverted /\ repo' \in {repo, Add(repo, Sweepable)} /\ excused \subseteq excused'
    BY <1>9 DEF SweepFails
  <2>2. CASE repo' = repo
    BY <1>7, <2>1, <2>2, TripwireRests
  <2>3. CASE repo' = Add(repo, Sweepable)
    BY <1>0, <1>6, <1>7, <2>1, <2>3, AddEffect DEF Tripwired, Bad
  <2> QED BY <2>1, <2>2, <2>3
<1>10. CASE CliCommit
  <2>1. UNCHANGED <<pc, state, todo>>
    BY <1>10 DEF CliCommit, daemon
  <2>2. CASE repo' = CommitPaths(repo, cliPaths) /\ excused' = excused \cup cliPaths
    <3>1. /\ repo'.tree = repo.tree
          /\ \A p \in Path \ cliPaths : repo'.index[p] = repo.index[p] /\ repo'.head[p] = repo.head[p]
      BY <1>0, <2>2, SweepEffect
    <3>2. \A p \in Path : Mine(p) => Mine(p)'
      BY <2>1, <3>1 DEF Mine
    <3> QED BY <2>2, <3>1, <3>2 DEF Tripwired, Bad
  <2>3. CASE repo' = repo /\ excused' = excused
    <3>1. \A p \in Path : Mine(p) => Mine(p)'
      BY <2>1, <2>3 DEF Mine
    <3> QED BY <2>3, <3>1, TripwireRests DEF Tripwired
  <2> QED BY <1>10, <2>2, <2>3 DEF CliCommit
<1>11. CASE repo' = repo /\ Changed \subseteq excused' /\ excused \subseteq excused'
  BY <1>11, CleanIsExcused, TripwireRests
<1>12. CASE UNCHANGED <<repo, excused>> /\ pc \notin {"invoke", "status", "revert"}
  BY <1>12, ReconciledIsExcused, TripwireRests
<1>13. CASE UNCHANGED <<repo, excused, pc, state, todo>>
  <2>1. \A p \in Path : Mine(p) => Mine(p)'
    BY <1>13 DEF Mine
  <2> QED BY <1>13, <2>1, TripwireRests DEF Tripwired
<1>14. CASE Returns
  <2>1. pc = "invoke" /\ pc' = "status" /\ UNCHANGED <<repo, excused, state>>
    BY <1>14 DEF Returns
  <2>2. \A p \in Path : Mine(p) => Mine(p)'
    BY <2>1 DEF Mine
  <2> QED BY <2>1, <2>2, TripwireRests DEF Tripwired
<1> QED
  BY <1>1, <1>2, <1>3, <1>4, <1>5, <1>8, <1>9, <1>10, <1>11, <1>12, <1>13, <1>14
  DEF Next, Begin, BeginStep, Ask, InvokeFails, Excuses, Reconcile, StatusFails, LogStep, LogFails,
      WakeFails, WakeOver, StartPush, SkipPush, Push, PushOk, PushFails, Crash, Boot, CliStatus,
      CliPush, vars, daemon

----------------------------------------------------------------------------
(* The tree after a step.                                                  *)

\* What a step's reconciliation has not dealt with is still on its list; a file on the list as
\* untracked has nothing in HEAD, or is known to have been made again.
Listed ==
  /\ pc = "revert" =>
       /\ \A p \in Changed : p \in residue \/ \E ch \in todo : ch.path = p
       /\ \A ch \in todo : ch.untracked /\ ch.path \notin residue =>
            repo.index[ch.path] = Absent /\ repo.head[ch.path] = Absent
  /\ CleanAfterStep

\* commit_paths leaves its paths clean.
LEMMA SweepCleans ==
  ASSUME NEW r \in Repo, NEW ps \in SUBSET Path
  PROVE  /\ \A p \in ps : ~Dirtied(CommitPaths(r, ps), p)
         /\ \A p \in Path \ ps : Dirtied(CommitPaths(r, ps), p) <=> Dirtied(r, p)
<1> DEFINE a == Add(r, ps)
<1>1. /\ a \in Repo /\ a.tree = r.tree /\ a.head = r.head
      /\ \A p \in Path : a.index[p] = IF p \in ps THEN r.tree[p] ELSE r.index[p]
  BY AddEffect
<1>2. CommitPaths(r, ps) = Commit(a, ps)
  BY DEF CommitPaths
<1> HIDE DEF a
<1>3. /\ Commit(a, ps).tree = a.tree /\ Commit(a, ps).index = a.index
      /\ \A p \in Path : Commit(a, ps).head[p] = IF p \in ps THEN a.index[p] ELSE a.head[p]
  <2>1. CASE Staged(a, ps)
    <3>1. Commit(a, ps).head = [p \in Path |-> IF p \in ps THEN a.index[p] ELSE a.head[p]]
      BY <1>1, <2>1 DEF Commit, Repo
    <3> QED BY <1>1, <3>1, CommitEffect
  <2>2. CASE ~Staged(a, ps)
    BY <2>2 DEF Commit, Staged
  <2> QED BY <2>1, <2>2
<1> QED BY <1>1, <1>2, <1>3 DEF Dirtied

\* restore_to_head cleans a tracked path, and an untracked one of which HEAD has nothing.
LEMMA RestoreCleans ==
  ASSUME NEW r \in Repo, NEW ch \in Change
  PROVE  LET after == RestoreToHead(r, ch)
             p == ch.path
         IN /\ ~ch.untracked => /\ ~Dirtied(after, p)
                                /\ after.tree[p] = r.head[p] /\ after.index[p] = r.head[p]
            /\ ch.untracked => after.tree[p] = Absent /\ after.index = r.index
            /\ \A q \in Path \ {p} : after.tree[q] = r.tree[q] /\ after.index[q] = r.index[q]
            /\ after.head = r.head
<1>1. ch.path \in Path
  BY DEF Change
<1>2. CASE ch.untracked
  BY <1>1, <1>2 DEF RestoreToHead, Repo, Files
<1>3. CASE ~ch.untracked
  BY <1>1, <1>3 DEF RestoreToHead, Repo, Files, Dirtied
<1> QED BY <1>2, <1>3

\* Nothing is changed but at the paths that the operator is known to have touched.
LEMMA ListedByOperator ==
  ASSUME TypeOK, Listed, NEW ps \in SUBSET Path, UNCHANGED <<pc, todo>>, residue' = Reconciling(ps),
         \A q \in Path \ ps : /\ repo'.tree[q] = repo.tree[q] /\ repo'.index[q] = repo.index[q]
                              /\ repo'.head[q] = repo.head[q]
  PROVE  Listed'
<1>1. \A q \in Path \ ps : q \in Changed' <=> q \in Changed
  BY DEF Changed, Dirtied
<1>2. \A ch \in todo : ch.path \in Path
  BY DEF TypeOK, Change
<1>3. pc \in {"revert", "log", "between"} => residue' = residue \cup ps
  BY DEF Reconciling
<1>4. \A q \in Changed' : q \in Path
  BY DEF Changed
<1> QED BY <1>1, <1>2, <1>3, <1>4 DEF Listed, CleanAfterStep

\* Whatever differs from HEAD when changes are reverted is on the list or known residue, after every step.
LEMMA ListedStep ==
  ASSUME TypeOK, Listed, [Next]_vars
  PROVE  Listed'
<1>0. repo \in Repo /\ todo \subseteq Change /\ cliPaths \subseteq Path
  BY DEF TypeOK
<1>1. Sweepable \subseteq Path
  BY <1>0 DEF Sweepable, Change
<1>2. CASE ReadStatus
  <2>1. /\ todo' = Status(repo) /\ repo' = repo /\ residue' = Remade(repo)
        /\ pc' = IF Status(repo) = {} THEN "log" ELSE "revert"
    BY <1>2 DEF ReadStatus
  <2>2. \A p \in Changed' : \E ch \in todo' : ch.path = p
    BY <1>0, <2>1, StatusEffect DEF Changed
  <2>3. ASSUME NEW ch \in todo', ch.untracked, ch.path \notin residue'
        PROVE  repo.index[ch.path] = Absent /\ repo.head[ch.path] = Absent
    <3>1. ch.path \in Path /\ repo.index[ch.path] = Absent /\ repo.tree[ch.path] # Absent
      BY <2>1, <2>3 DEF Status
    <3> QED BY <2>1, <2>3, <3>1 DEF Remade
  <2> QED BY <2>1, <2>2, <2>3 DEF Listed, CleanAfterStep
<1>3. CASE StatusFails
  BY <1>3 DEF StatusFails, Listed, CleanAfterStep, Changed
<1>4. ASSUME NEW ch \in todo, Revert(ch) PROVE Listed'
  <2> DEFINE p == ch.path
  <2>1. /\ pc = "revert" /\ pc' = "revert" /\ todo' = todo \ {ch} /\ ch \in Change /\ p \in Path
    BY <1>0, <1>4 DEF Revert, Change
  <2>2. CASE repo' = repo /\ residue' = residue \cup {p}
    <3>1. Changed' = Changed
      BY <2>2 DEF Changed
    <3> QED BY <2>1, <2>2, <3>1 DEF Listed, CleanAfterStep
  <2>3. CASE CanRestore(repo, ch) /\ repo' = RestoreToHead(repo, ch) /\ residue' = residue
    <3>1. /\ ~ch.untracked => /\ ~Dirtied(repo', p)
                              /\ repo'.tree[p] = repo.head[p] /\ repo'.index[p] = repo.head[p]
          /\ ch.untracked => repo'.tree[p] = Absent /\ repo'.index = repo.index
          /\ \A q \in Path \ {p} : repo'.tree[q] = repo.tree[q] /\ repo'.index[q] = repo.index[q]
          /\ repo'.head = repo.head
      BY <1>0, <2>1, <2>3, RestoreCleans
    <3> HIDE DEF p
    <3>2. p \notin residue => ~Dirtied(repo', p)
      <4>1. ch.untracked /\ p \notin residue => repo.index[p] = Absent /\ repo.head[p] = Absent
        BY <2>1 DEF Listed, p
      <4> QED BY <3>1, <4>1 DEF Dirtied
    <3>3. \A q \in Changed' \ {p} : q \in Changed /\ q \in Path
      BY <3>1 DEF Changed, Dirtied
    <3>4. \A q \in Changed' : q \in residue \/ \E x \in todo \ {ch} : x.path = q
      BY <2>1, <3>2, <3>3 DEF Listed, Changed, p
    <3>5. ASSUME NEW x \in todo \ {ch}, x.untracked, x.path \notin residue
          PROVE  repo'.index[x.path] = Absent /\ repo'.head[x.path] = Absent
      <4>1. repo.index[x.path] = Absent /\ repo.head[x.path] = Absent /\ x.path \in Path
        BY <1>0, <2>1, <3>5 DEF Listed, Change
      <4> QED BY <3>1, <4>1
    <3> QED BY <2>1, <2>3, <3>4, <3>5 DEF Listed, CleanAfterStep
  <2> QED BY <1>4, <2>2, <2>3 DEF Revert
<1>5. ASSUME Reverted, NEW p \in Changed PROVE p \in residue \/ p \in Sweepable
  BY <1>5 DEF Listed, Reverted, Sweepable
<1>6. CASE Sweep
  <2>1. Reverted /\ repo' = CommitPaths(repo, Sweepable) /\ residue' = residue /\ pc' = "log"
    BY <1>6 DEF Sweep
  <2>2. \A p \in Changed' : p \in Changed /\ p \notin Sweepable
    BY <1>0, <1>1, <2>1, SweepCleans DEF Changed
  <2> QED BY <1>5, <2>1, <2>2 DEF Listed, CleanAfterStep
<1>7. CASE SweepFails
  <2>1. Reverted /\ repo' \in {repo, Add(repo, Sweepable)} /\ residue' = residue \cup Sweepable
        /\ pc' = "log"
    BY <1>7 DEF SweepFails
  <2>2. \A p \in Changed' : p \in Changed \/ p \in Sweepable
    BY <1>0, <1>1, <2>1, AddEffect DEF Changed, Dirtied
  <2> QED BY <1>5, <2>1, <2>2 DEF Listed, CleanAfterStep
<1>8. ASSUME NEW p \in Path, HandEdit(p) PROVE Listed'
  <2>1. PICK b \in {Absent, [by |-> "operator", allowed |-> TRUE]} : repo' = [repo EXCEPT !.tree[p] = b]
    BY <1>8 DEF HandEdit
  <2>2. b \in Blob
    BY WritersWrite DEF Blob
  <2>3. UNCHANGED <<pc, todo>> /\ residue' = Reconciling({p})
    BY <1>8 DEF HandEdit, daemon
  <2>4. \A q \in Path \ {p} : /\ repo'.tree[q] = repo.tree[q] /\ repo'.index[q] = repo.index[q]
                              /\ repo'.head[q] = repo.head[q]
    BY <1>0, <2>1, <2>2, WriteEffect
  <2> QED BY <2>3, <2>4, ListedByOperator
<1>9. CASE CliCommit
  <2>1. UNCHANGED <<pc, todo>>
    BY <1>9 DEF CliCommit, daemon
  <2>2. CASE repo' = CommitPaths(repo, cliPaths) /\ residue' = Reconciling(cliPaths)
    <3>1. \A q \in Path \ cliPaths : /\ repo'.tree[q] = repo.tree[q] /\ repo'.index[q] = repo.index[q]
                                     /\ repo'.head[q] = repo.head[q]
      BY <1>0, <2>2, SweepEffect
    <3> QED BY <1>0, <2>1, <2>2, <3>1, ListedByOperator
  <2>3. CASE UNCHANGED <<repo, residue>>
    BY <2>1, <2>3 DEF Listed, CleanAfterStep, Changed
  <2> QED BY <1>9, <2>2, <2>3 DEF CliCommit
<1>10. CASE UNCHANGED <<repo, residue>> /\ pc \in {"log", "between"} /\ pc' # "revert"
  BY <1>10 DEF Listed, CleanAfterStep, Changed
<1>11. CASE UNCHANGED <<repo, residue, pc, todo>>
  BY <1>11 DEF Listed, CleanAfterStep, Changed
<1>12. CASE pc' \notin {"revert", "log", "between"}
  BY <1>12 DEF Listed, CleanAfterStep
<1> QED
  BY <1>2, <1>3, <1>4, <1>6, <1>7, <1>8, <1>9, <1>10, <1>11, <1>12
  DEF Next, Begin, BeginStep, Ask, RunCall, Stray, Returns, InvokeFails, Reconcile, LogStep, LogFails,
      WakeFails, WakeOver, StartPush, SkipPush, Push, PushOk, PushFails, PushedOne, Crash, Boot,
      CliStatus, CliPush, vars, daemon

----------------------------------------------------------------------------
(* Wall and tripwire.                                                      *)

\* What was granted may be written.
Writable ==
  \A c \in granted : Classify(c.tool, c.target) = "FileWrite" => Permitted(state, Relative(c.target))

\* A content that the wall let a step write.
LetIn(b) == b # Absent /\ b.by \in WakeState /\ b.allowed

\* Away from the excused files nothing stays staged; what the wall let in and is not committed was
\* written by the running step, which may write there; and a file on the list as untracked has
\* nothing in HEAD.
Agreed ==
  /\ \A p \in Path \ excused :
       /\ repo.index[p] = repo.head[p]
       /\ LetIn(repo.tree[p]) /\ repo.tree[p] # repo.head[p] => Mine(p) /\ Permitted(state, p)
  /\ pc = "revert" => \A ch \in todo : ch.untracked /\ ch.path \notin excused => repo.head[ch.path] = Absent

\* What the wall grants may be written in the state that asks, and a step keeps its state.
LEMMA WritableStep ==
  ASSUME Writable, Marked, [Next]_vars
  PROVE  Writable'
<1>1. ASSUME NEW c \in Calls, Ask(c) PROVE Writable'
  BY <1>1 DEF Ask, Writable, Decide, WriteTargetAllowed
<1>2. CASE granted' \subseteq granted /\ state' = state
  BY <1>2 DEF Writable
<1>3. CASE granted' = {}
  BY <1>3 DEF Writable
<1>4. CASE pc # "invoke" /\ granted' = granted
  BY <1>4 DEF Writable, Marked
<1> QED
  BY <1>1, <1>2, <1>3, <1>4
  DEF RunCall, Returns, InvokeFails, Next, Begin, BeginStep, Stray, HandEdit, Reconcile, ReadStatus, StatusFails, Sweep,
      SweepFails, Revert, Reverted, LogStep, LogFails, WakeFails, WakeOver, StartPush, SkipPush, Push, PushOk,
      PushFails, PushedOne, Crash, Boot, CliStatus, CliCommit, CliPush, LeaveStep, vars, daemon

\* A step that does not touch the repository keeps what is agreed, when what the running step has
\* written stays its own or is excused.
LEMMA AgreedRests ==
  ASSUME Agreed, repo' = repo, excused \subseteq excused',
         pc' = "revert" => pc = "revert" /\ todo' \subseteq todo,
         \A p \in Path \ excused' : Mine(p) /\ Permitted(state, p) /\ repo.tree[p] # repo.head[p] =>
                                    Mine(p)' /\ state' = state
  PROVE  Agreed'
BY DEF Agreed

\* One file is written.
LEMMA AgreedWrite ==
  ASSUME TypeOK, Agreed, NEW p \in Path, NEW b \in Blob, repo' = [repo EXCEPT !.tree[p] = b],
         UNCHANGED <<pc, state, todo, excused>>,
         LetIn(b) => pc = "invoke" /\ b.by = state /\ Permitted(state, p)
  PROVE  Agreed'
<1>1. repo \in Repo
  BY DEF TypeOK
<1>2. /\ repo'.index = repo.index /\ repo'.head = repo.head
      /\ \A q \in Path : repo'.tree[q] = IF q = p THEN b ELSE repo.tree[q]
  BY <1>1, WriteEffect
<1>3. \A q \in Path \ {p} : Mine(q) => Mine(q)'
  BY <1>2 DEF Mine
<1>4. LetIn(b) => Mine(p)'
  BY <1>2 DEF Mine, LetIn
<1> QED BY <1>2, <1>3, <1>4 DEF Agreed

\* What the wall let in and is not committed was written by the running step, after every step.
LEMMA AgreedStep ==
  ASSUME TypeOK, Stated, Writable, Agreed, [Next]_vars
  PROVE  Agreed'
<1>0. repo \in Repo /\ todo \subseteq Change /\ cliPaths \subseteq Path /\ Sweepable \subseteq Path
  BY DEF TypeOK, Sweepable, Change
<1>1. ASSUME NEW c \in Calls, RunCall(c) PROVE Agreed'
  <2>1. /\ pc = "invoke" /\ c \in granted /\ UNCHANGED <<pc, state, todo, excused>>
        /\ state \in StepState
    BY <1>1 DEF RunCall, Stated
  <2>2. CASE repo' = repo
    BY <2>1, <2>2, AgreedRests DEF Mine
  <2>3. CASE /\ Classify(c.tool, c.target) = "FileWrite" /\ Relative(c.target) \in Path
             /\ repo' = [repo EXCEPT !.tree[Relative(c.target)] = [by |-> state, allowed |-> TRUE]]
    <3>1. [by |-> state, allowed |-> TRUE] \in Blob
      BY <2>1, WritersWrite
    <3>2. Permitted(state, Relative(c.target))
      BY <2>1, <2>3 DEF Writable
    <3> QED BY <2>1, <2>3, <3>1, <3>2, AgreedWrite
  <2> QED BY <1>1, <2>2, <2>3 DEF RunCall
<1>2. ASSUME NEW p \in Path, Stray(p) PROVE Agreed'
  <2>1. UNCHANGED <<pc, state, todo, excused>> /\ state \in StepState
    BY <1>2 DEF Stray, Stated, daemon
  <2>2. PICK b \in {Absent, [by |-> state, allowed |-> FALSE]} : repo' = [repo EXCEPT !.tree[p] = b]
    BY <1>2 DEF Stray
  <2>3. b \in Blob /\ ~LetIn(b)
    <3>1. CASE b = Absent
      BY <3>1 DEF Blob, LetIn
    <3>2. CASE b = [by |-> state, allowed |-> FALSE]
      BY <2>1, <3>2, WritersWrite DEF LetIn
    <3> QED BY <2>2, <3>1, <3>2
  <2> QED BY <2>1, <2>2, <2>3, AgreedWrite
<1>3. ASSUME NEW p \in Path, HandEdit(p) PROVE Agreed'
  <2>1. UNCHANGED <<pc, state, todo, excused>>
    BY <1>3 DEF HandEdit, daemon
  <2>2. PICK b \in {Absent, [by |-> "operator", allowed |-> TRUE]} : repo' = [repo EXCEPT !.tree[p] = b]
    BY <1>3 DEF HandEdit
  <2>3. b \in Blob /\ ~LetIn(b)
    <3>1. CASE b = Absent
      BY <3>1 DEF Blob, LetIn
    <3>2. CASE b = [by |-> "operator", allowed |-> TRUE]
      <4>1. b.by = "operator" /\ "operator" \notin WakeState
        BY <3>2 DEF WakeState
      <4> QED BY <3>2, <4>1, WritersWrite DEF LetIn
    <3> QED BY <2>2, <3>1, <3>2
  <2> QED BY <2>1, <2>2, <2>3, AgreedWrite
<1>4. CASE ReadStatus
  <2>1. /\ pc = "status" /\ todo' = Status(repo) /\ UNCHANGED <<repo, state, excused>>
        /\ pc' = IF Status(repo) = {} THEN "log" ELSE "revert"
    BY <1>4 DEF ReadStatus
  <2>2. ASSUME NEW p \in Path \ excused, Mine(p), repo.tree[p] # repo.head[p] PROVE Mine(p)'
    <3>1. Dirtied(repo, p)
      BY <2>2 DEF Dirtied
    <3>2. \E ch \in Status(repo) : ch.path = p
      BY <1>0, <3>1, StatusEffect
    <3> QED BY <2>1, <2>2, <3>2 DEF Mine
  <2>3. ASSUME NEW ch \in todo', ch.untracked, ch.path \notin excused PROVE repo.head[ch.path] = Absent
    <3>1. ch.path \in Path /\ repo.index[ch.path] = Absent
      BY <2>1, <2>3 DEF Status
    <3> QED BY <2>3, <3>1 DEF Agreed
  <2> QED BY <2>1, <2>2, <2>3 DEF Agreed
<1>5. ASSUME NEW ch \in todo, Revert(ch) PROVE Agreed'
  <2> DEFINE p == ch.path
  <2>1. /\ pc = "revert" /\ pc' = "revert" /\ state' = state /\ todo' = todo \ {ch}
        /\ ch \in Change /\ p \in Path /\ ~Permitted(state, p)
    BY <1>0, <1>5 DEF Revert, Change, InAllowlist
  <2>2. CASE repo' = repo /\ excused' = excused \cup {p}
    <3>1. \A q \in Path \ excused' : Mine(q) => Mine(q)'
      BY <2>1, <2>2 DEF Mine
    <3> QED BY <2>1, <2>2, <3>1, AgreedRests
  <2>3. CASE repo' = RestoreToHead(repo, ch) /\ excused' = excused
    <3>1. /\ ~ch.untracked => repo'.tree[p] = repo.head[p] /\ repo'.index[p] = repo.head[p]
          /\ ch.untracked => repo'.tree[p] = Absent /\ repo'.index = repo.index
          /\ \A q \in Path \ {p} : repo'.tree[q] = repo.tree[q] /\ repo'.index[q] = repo.index[q]
          /\ repo'.head = repo.head
      BY <1>0, <2>1, <2>3, RestoreCleans
    <3>2. \A q \in Path \ {p} : Mine(q) => Mine(q)'
      BY <2>1, <3>1 DEF Mine
    <3> HIDE DEF p
    <3>3. \A q \in Path \ (excused \cup {p}) :
            /\ repo'.index[q] = repo'.head[q]
            /\ LetIn(repo'.tree[q]) /\ repo'.tree[q] # repo'.head[q] => Mine(q)' /\ Permitted(state, q)
      BY <3>1, <3>2 DEF Agreed
    <3>4. p \notin excused => /\ repo'.index[p] = repo'.head[p]
                              /\ LetIn(repo'.tree[p]) => repo'.tree[p] = repo'.head[p]
      BY <2>1, <3>1 DEF Agreed, LetIn
    <3> QED BY <2>1, <2>3, <3>1, <3>3, <3>4 DEF Agreed
  <2> QED BY <1>5, <2>2, <2>3 DEF Revert
<1>6. ASSUME Reverted, NEW p \in Path \ excused, LetIn(repo.tree[p]), repo.tree[p] # repo.head[p]
      PROVE  p \in Sweepable
  <2>1. Mine(p) /\ pc = "revert"
    BY <1>6 DEF Agreed, Reverted
  <2> QED BY <1>6, <2>1 DEF Mine, Reverted, Sweepable
<1>7. CASE Sweep
  <2>1. Reverted /\ repo' = CommitPaths(repo, Sweepable) /\ excused' = excused /\ pc' = "log"
    BY <1>7 DEF Sweep
  <2>2. /\ \A p \in Sweepable : repo'.index[p] = repo'.head[p] /\ repo'.tree[p] = repo'.head[p]
        /\ \A p \in Path \ Sweepable : repo'.index[p] = repo.index[p] /\ repo'.head[p] = repo.head[p]
        /\ repo'.tree = repo.tree
    BY <1>0, <2>1, SweepCleans, SweepEffect DEF Dirtied
  <2> QED BY <1>6, <2>1, <2>2 DEF Agreed
<1>8. CASE SweepFails
  <2>1. /\ Reverted /\ repo' \in {repo, Add(repo, Sweepable)} /\ excused' = excused \cup Sweepable
        /\ pc' = "log"
    BY <1>8 DEF SweepFails
  <2>2. /\ repo'.head = repo.head /\ repo'.tree = repo.tree
        /\ \A p \in Path \ Sweepable : repo'.index[p] = repo.index[p]
    BY <1>0, <2>1, AddEffect
  <2> QED BY <1>6, <2>1, <2>2 DEF Agreed
<1>9. CASE CliCommit
  <2>1. UNCHANGED <<pc, state, todo>>
    BY <1>9 DEF CliCommit, daemon
  <2>2. CASE repo' = CommitPaths(repo, cliPaths) /\ excused' = excused \cup cliPaths
    <3>1. /\ repo'.tree = repo.tree
          /\ \A p \in Path \ cliPaths : repo'.index[p] = repo.index[p] /\ repo'.head[p] = repo.head[p]
      BY <1>0, <2>2, SweepEffect
    <3>2. \A p \in Path : Mine(p) => Mine(p)'
      BY <2>1, <3>1 DEF Mine
    <3>3. \A ch \in todo : ch.path \in Path
      BY <1>0 DEF Change
    <3> QED BY <2>1, <2>2, <3>1, <3>2, <3>3 DEF Agreed
  <2>3. CASE UNCHANGED <<repo, excused>>
    BY <2>1, <2>3, AgreedRests DEF Mine
  <2> QED BY <1>9, <2>2, <2>3 DEF CliCommit
<1>10. CASE repo' = repo /\ Changed \subseteq excused' /\ excused \subseteq excused' /\ pc' # "revert"
  <2>1. \A p \in Path \ excused' : repo.tree[p] = repo.head[p]
    BY <1>10 DEF Changed, Dirtied
  <2> QED BY <1>10, <2>1, AgreedRests
<1>11. CASE UNCHANGED <<repo, excused>> /\ pc \notin {"invoke", "status", "revert"} /\ pc' # "revert"
  BY <1>11, AgreedRests DEF Mine
<1>12. CASE UNCHANGED <<repo, excused, pc, state, todo>>
  BY <1>12, AgreedRests DEF Mine
<1>13. CASE Returns
  BY <1>13, AgreedRests DEF Returns, Mine
<1> QED
  BY <1>1, <1>2, <1>3, <1>4, <1>5, <1>7, <1>8, <1>9, <1>10, <1>11, <1>12, <1>13
  DEF Next, Begin, BeginStep, Ask, InvokeFails, Excuses, Reconcile, StatusFails, LogStep, LogFails,
      WakeFails, WakeOver, StartPush, SkipPush, Push, PushOk, PushFails, PushedOne, Crash, Boot,
      CliStatus, CliPush, vars, daemon

\* A revert that changes something throws nothing away that the wall let in.
LEMMA RevertsAgree ==
  ASSUME TypeOK, Agreed, NEW ch \in todo, Revert(ch), repo' # repo, LetIn(repo.tree[ch.path])
  PROVE  ch.path \in excused
<1> SUFFICES ASSUME ch.path \notin excused PROVE FALSE
  OBVIOUS
<1>1. ch \in Change /\ ch.path \in Path /\ repo \in Repo
  BY DEF TypeOK, Change
<1>2. /\ repo' = RestoreToHead(repo, ch) /\ CanRestore(repo, ch) /\ pc = "revert"
      /\ ~Permitted(state, ch.path)
  BY DEF Revert, InAllowlist
<1>3. repo.tree[ch.path] = repo.head[ch.path] /\ repo.index[ch.path] = repo.head[ch.path]
  BY <1>1, <1>2 DEF Agreed
<1>4. ~ch.untracked
  BY <1>2, <1>3 DEF Agreed, LetIn
<1>5. RestoreToHead(repo, ch) = repo
  BY <1>1, <1>3, <1>4 DEF RestoreToHead, Repo, Files
<1> QED BY <1>2, <1>5

----------------------------------------------------------------------------
(* The theorems.                                                           *)

SoulIInv == TypeOK /\ Stated /\ Marked /\ Decided /\ Flushed /\ Tripwired

\* The daemon starts on a clean clone with everything still to push.
LEMMA SoulStarts == Init => SoulIInv
<1> SUFFICES ASSUME Init PROVE SoulIInv
  OBVIOUS
<1>1. /\ repo = [tree |-> StartFiles, index |-> StartFiles, head |-> StartFiles, commits |-> 0]
      /\ pc = "idle" /\ dirty = TRUE /\ granted = {} /\ own = 0 /\ acted = FALSE /\ posted = FALSE
  BY DEF Init, CleanRepo
<1>2. TypeOK
  <2>1. repo \in Repo
    <3>1. [by : {"seed"}, allowed : {TRUE}] \subseteq Content
      BY SoulAssumption DEF Writer
    <3>2. StartFiles \in Files
      BY <3>1, SoulAssumption DEF Files, Blob
    <3> QED BY <1>1, <3>2 DEF Repo
  <2>2. FlagsOK /\ PhaseOK
    BY DEF Init, FlagsOK, PhaseOK, NoState
  <2>3. CountsOK /\ PathsOK
    BY DEF Init, CountsOK, PathsOK
  <2>4. PushesOK
    <3>1. 0 \in 0..Len(Remotes) /\ 0 \in 0..MaxAttempts
      BY SoulAssumption
    <3> QED BY <3>1 DEF Init, PushesOK, NoPush
  <2> QED BY <2>1, <2>2, <2>3, <2>4, TypeParts
<1>3. Stated /\ Marked /\ Decided
  BY <1>1 DEF Stated, Marked, Decided
<1>4. Flushed
  BY <1>1 DEF Flushed, OwnCommitsFlushed
<1>5. Tripwired
  <2>1. \A p \in Path : ~Bad(StartFiles[p], p)
    BY SoulAssumption DEF Bad, WakeState
  <2> QED BY <1>1, <2>1 DEF Tripwired
<1> QED BY <1>2, <1>3, <1>4, <1>5 DEF SoulIInv

\* The invariant of the daemon, its wall and its repository.
THEOREM SoulInvariant == Spec => []SoulIInv
<1>1. SoulIInv /\ [Next]_vars => SoulIInv'
  <2> SUFFICES ASSUME SoulIInv, [Next]_vars PROVE SoulIInv'
    OBVIOUS
  <2>1. TypeOK /\ Stated /\ Marked /\ Decided /\ Flushed /\ Tripwired
    BY DEF SoulIInv
  <2>2. TypeOK' /\ Stated'
    BY <2>1, TypeStep
  <2>3. Marked' /\ Decided' /\ Flushed' /\ Tripwired'
    BY <2>1, <2>2, MarkedStep, DecidedStep, FlushedStep, TripwiredStep
  <2> QED BY <2>2, <2>3 DEF SoulIInv
<1> QED BY SoulStarts, <1>1, PTL DEF Spec

\* The variables keep their types.
THEOREM TypeCorrect == Spec => []TypeOK
BY SoulInvariant, PTL DEF SoulIInv

\* What a step wrote where its state may not write is in HEAD only if its reconciliation
\* was skipped or failed there, or the operator committed it (mod.rs:990-999).
THEOREM TripwireStands == Spec => []TripwireHolds
<1>1. SoulIInv => TripwireHolds
  BY DEF SoulIInv, Tripwired, TripwireHolds, Bad
<1> QED BY SoulInvariant, <1>1, PTL

\* A commit of the daemon that a required remote lacks is never forgotten (multi.rs:230).
THEOREM CommitsAreFlushed == Spec => []OwnCommitsFlushed
BY SoulInvariant, PTL DEF SoulIInv, Flushed

\* An outward tool that ran has marked its wake once the invocation is over, whichever way
\* it ended (action_required.rs:97-101).
THEOREM OutwardMarks == Spec => []OutwardIsMarked
<1>1. SoulIInv => OutwardIsMarked
  BY DEF SoulIInv, Marked, OutwardIsMarked
<1> QED BY SoulInvariant, <1>1, PTL

\* An irreversible tool is granted in Settle alone (classify.rs:43).
THEOREM SettlesOnlyThere == Spec => []SettleOnlyInSettle
<1>1. SoulIInv => SettleOnlyInSettle
  <2> SUFFICES ASSUME SoulIInv, NEW c \in granted, NEW k \in Capability,
                      k.class = "SettleTx", c.tool \in k.tools
               PROVE  state = "settle"
    BY DEF SettleOnlyInSettle
  <2>1. c.tool \in Tool /\ state \in WakeState /\ Classify(c.tool, c.target) \in Scope(state)
    BY SoulAssumption DEF SoulIInv, TypeOK, Decided
  <2> QED BY <2>1, StrictestClaims, SettlesInSettle
<1> QED BY SoulInvariant, <1>1, PTL

\* What is on the list of a reconciliation, and what wall and tripwire agree on.
TreeIInv == SoulIInv /\ Listed /\ Writable /\ Agreed

\* What the two theorems about the working tree need holds in every reachable state.
LEMMA TreeInvariant == Spec => []TreeIInv
<1>1. Init => TreeIInv
  <2> SUFFICES ASSUME Init PROVE TreeIInv
    OBVIOUS
  <2>1. SoulIInv
    BY SoulStarts
  <2>2. /\ repo.tree = StartFiles /\ repo.index = StartFiles /\ repo.head = StartFiles
        /\ pc = "idle" /\ granted = {}
    BY DEF Init, CleanRepo
  <2>3. Listed /\ Writable /\ Agreed
    BY <2>2 DEF Listed, CleanAfterStep, Writable, Agreed
  <2> QED BY <2>1, <2>3 DEF TreeIInv
<1>2. TreeIInv /\ [Next]_vars => TreeIInv'
  <2> SUFFICES ASSUME TreeIInv, [Next]_vars PROVE TreeIInv'
    OBVIOUS
  <2>1. TypeOK /\ Stated /\ Marked /\ Decided /\ Flushed /\ Tripwired /\ Listed /\ Writable /\ Agreed
    BY DEF TreeIInv, SoulIInv
  <2>2. TypeOK' /\ Stated'
    BY <2>1, TypeStep
  <2>3. Marked' /\ Decided' /\ Flushed' /\ Tripwired'
    BY <2>1, <2>2, MarkedStep, DecidedStep, FlushedStep, TripwiredStep
  <2>4. Listed' /\ Writable' /\ Agreed'
    BY <2>1, ListedStep, WritableStep, AgreedStep
  <2> QED BY <2>2, <2>3, <2>4 DEF TreeIInv, SoulIInv
<1> QED BY <1>1, <1>2, PTL DEF Spec

\* A reconciliation leaves a clean tree, but for failed git calls, for what the operator did
\* since it looked, and for files made again after their removal was staged (mod.rs:1000-1053).
THEOREM StepsEndClean == Spec => []CleanAfterStep
<1>1. TreeIInv => CleanAfterStep
  BY DEF TreeIInv, Listed
<1> QED BY TreeInvariant, <1>1, PTL

\* The tripwire throws nothing away that the wall let a step write, but where that step or its
\* commit failed (action_required.rs:125-262, mod.rs:1014-1030).
THEOREM WallAndTripwireAgree == Spec => AllowedWritesKept
<1>1. TreeIInv /\ [Next]_vars =>
        [\A ch \in todo : Revert(ch) /\ repo' # repo =>
           LET b == repo.tree[ch.path] IN
           b # Absent /\ b.by \in WakeState /\ b.allowed => ch.path \in excused]_vars
  BY RevertsAgree DEF TreeIInv, SoulIInv, LetIn
<1> QED BY TreeInvariant, <1>1, PTL DEF Spec, AllowedWritesKept
=============================================================================
