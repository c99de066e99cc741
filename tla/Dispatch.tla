------------------------------ MODULE Dispatch ------------------------------
(***************************************************************************)
(* One wake from the inside: Harness::dispatch and run_step of             *)
(* src/harness/mod.rs.  A wake walks a worklist of branches breadth first; *)
(* each branch is one invocation of a state-prompt with a trust tier of    *)
(* its own, and may fan out into children, in this wake or, for a Low      *)
(* baton, deferred to the durable queue as a continuation.                 *)
(*                                                                         *)
(* The model (the LLM) chooses which plugged servers it calls, whether it  *)
(* acts, and which batons it emits; what it chooses is unconstrained.      *)
(* Which stimulus is popped next is module Consciousness' business: any    *)
(* pending one may be.                                                     *)
(***************************************************************************)
EXTENDS TrustLattice, FiniteSets

CONSTANTS
  Prompt,           \* state-prompt ids (prompts/<id>.md)
  StateOf,          \* StateOf[p]: the state p runs in
  Transitions,      \* Transitions[p]: the ids p's front matter allows
  Server,           \* MCP servers
  ServerTrust,      \* the tier a call of the server degrades to
  ServerMin,        \* min_trust of the server
  ServerStates,     \* the states it is plugged in (tier_policy, tier_fits_state)
  Seeds,            \* possible [prompt, directive, signed, payload] of raw stimuli
  Operator, Public, \* the tiers operator_signed and public
  MaxSteps,         \* MAX_CYCLE_STEPS
  MaxWidth,         \* MAX_FANOUT_WIDTH
  MaxDepth,         \* MAX_LINEAGE_DEPTH
  MaxRetries,       \* MAX_TIMEOUT_RETRIES
  ReflectInterval,  \* reflect_min_interval_secs
  BatonTtl,         \* baton_ttl_secs
  MaxRaw,           \* bound: raw stimuli
  MaxTime,          \* bound: seconds
  MaxFaults         \* bound: failing database calls and crashes, together

ASSUME PromptAssumption ==
  /\ Prompt # {}
  /\ StateOf \in [Prompt -> State]
  /\ Transitions \in [Prompt -> SUBSET Prompt]
ASSUME ServerAssumption ==
  /\ ServerTrust \in [Server -> Tier]
  /\ ServerMin \in [Server -> Tier]
  /\ ServerStates \in [Server -> SUBSET State]
ASSUME SeedAssumption ==
  /\ {Operator, Public} \subseteq Tier
  /\ Seeds \subseteq [prompt : Prompt, directive : Tier, signed : BOOLEAN, payload : Tier]
ASSUME BoundAssumption ==
  {MaxSteps, MaxWidth, MaxDepth, MaxRetries, ReflectInterval, BatonTtl,
   MaxRaw, MaxTime, MaxFaults} \subseteq Nat

Never == -1

Raw == 1..MaxRaw

\* A durable unit of work: a raw stimulus, or the continuation a Low baton became.
\* Its id is the raw stimulus' number and the sequence numbers of the deferrals
\* since.  `touched` is history: every tier its lineage has had to do with.
Stim == [id : Seq(Nat), prompt : Prompt, trust : Tier, depth : 0..MaxDepth,
         born : Nat, attempts : 0..MaxRetries, touched : SUBSET Tier]

\* A branch of the worklist; its ceiling is what its trust reaches.
Branch == [prompt : Prompt, trust : Tier, touched : SUBSET Tier]

VARIABLES
  now,          \* seconds
  queue,        \* continuations, and stimuli to retry, pending in the queue (durable)
  ids,          \* every continuation id that has a row, pending or done (durable)
  reflectLast,  \* the cursor reflect:last, or Never (durable)
  pc,           \* "idle", "next", "run" or "emit"
  stim,         \* the stimulus of this wake
  started,      \* dispatch's `now`
  work,         \* the worklist
  steps,        \* invocations so far in this wake
  deferredSeq,  \* deferrals so far in this wake
  branch,       \* the branch that runs
  accessed,     \* {} or {the meet of the tiers this step called}
  emitted,      \* batons of this step that survived the gates
  unretryable,  \* wake_unretryable
  raws,         \* raw stimuli so far
  losses,       \* crashes so far
  faults,       \* failed database calls so far
  called,       \* history: the tiers this step called
  finished,     \* history: ids of continuations whose wake ended for good
  granted,      \* history: Reflect batons that passed the gates
  ran           \* history: ran[r] = invocations on behalf of raw stimulus r

durable == <<queue, ids, reflectLast>>
step == <<branch, accessed, called, emitted>>
wake == <<stim, started, work, steps, deferredSeq, unretryable>>
history == <<finished, granted, ran>>
vars == <<now, queue, ids, reflectLast, pc, stim, started, work, steps, deferredSeq,
          branch, accessed, called, emitted, unretryable, raws, losses, faults, finished, granted, ran>>

NoPrompt == CHOOSE p \in Prompt : TRUE
IdleBranch == [prompt |-> NoPrompt, trust |-> Public, touched |-> {}]
IdleStim == [id |-> <<>>, prompt |-> NoPrompt, trust |-> Public, depth |-> 0,
             born |-> 0, attempts |-> 0, touched |-> {}]

Init ==
  /\ now = 0 /\ queue = {} /\ ids = {} /\ reflectLast = Never
  /\ pc = "idle" /\ stim = IdleStim /\ started = 0
  /\ work = <<>> /\ steps = 0 /\ deferredSeq = 0
  /\ branch = IdleBranch /\ accessed = {} /\ called = {} /\ emitted = 0
  /\ unretryable = FALSE /\ raws = 0 /\ losses = 0 /\ faults = 0
  /\ finished = {} /\ granted = 0 /\ ran = [r \in Raw |-> 0]

Fault == losses + faults < MaxFaults /\ faults' = faults + 1

IsContinuation(s) == s.depth > 0

----------------------------------------------------------------------------
(* Opening a wake.                                                         *)

\* verified_directive_tier: operator_signed is honoured against a signature only.
Directive(seed) == IF seed.directive = Operator /\ ~seed.signed THEN Public
                                                                ELSE seed.directive

\* A raw stimulus starts at the meet of its directive and of its payload.
RawStim(seed) ==
  [id |-> <<raws + 1>>, prompt |-> seed.prompt,
   trust |-> Meet(Directive(seed), seed.payload), depth |-> 0, born |-> now,
   attempts |-> 0, touched |-> {Directive(seed), seed.payload}]

\* A baton that waited longer than its time to live is dropped.
Stale(s) == IsContinuation(s) /\ now - s.born > BatonTtl

\* Dropped as done: stale, or an entry above what its trust reaches.
Dropped(s) == Stale(s) \/ ~WithinCeiling(StateOf[s.prompt], Reaches(s.trust))

\* The first part of dispatch, up to the worklist.  An entry that does not resolve
\* (its file is missing or malformed) is dropped as well.
Open(s) ==
  /\ \/ /\ ~Dropped(s)
        /\ pc' = "next"
        /\ stim' = s
        /\ started' = now
        /\ work' = <<[prompt |-> s.prompt, trust |-> s.trust, touched |-> s.touched]>>
        /\ \/ /\ StateOf[s.prompt] = "reflect"
              /\ \/ reflectLast' = now /\ UNCHANGED faults
                 \/ Fault /\ UNCHANGED reflectLast
           \/ StateOf[s.prompt] # "reflect" /\ UNCHANGED <<reflectLast, faults>>
        /\ UNCHANGED finished
     \/ /\ finished' = IF IsContinuation(s) THEN finished \cup {s.id} ELSE finished
        /\ UNCHANGED <<pc, stim, started, work, reflectLast, faults>>
  /\ UNCHANGED <<now, ids, steps, deferredSeq, unretryable, step, losses, granted, ran>>

OpenRaw(seed) ==
  /\ pc = "idle" /\ raws < MaxRaw
  /\ raws' = raws + 1
  /\ Open(RawStim(seed))
  /\ UNCHANGED queue

\* A continuation, or a stimulus whose wake timed out, is popped.
OpenQueued(s) ==
  /\ pc = "idle" /\ s \in queue
  /\ queue' = queue \ {s}
  /\ Open(s)
  /\ UNCHANGED raws

----------------------------------------------------------------------------
(* A step.                                                                 *)

\* The wake is over; s is what is put back in the queue to be run again, or nothing.
EndWake(s) ==
  /\ pc' = "idle"
  /\ queue' = queue \cup s
  /\ finished' = IF s = {} /\ IsContinuation(stim) THEN finished \cup {stim.id}
                                                     ELSE finished
  /\ stim' = IdleStim /\ started' = 0 /\ work' = <<>> /\ steps' = 0
  /\ deferredSeq' = 0 /\ unretryable' = FALSE
  /\ branch' = IdleBranch /\ accessed' = {} /\ called' = {} /\ emitted' = 0
  /\ UNCHANGED <<now, ids, reflectLast, raws, faults, granted, ran>>

\* The next branch of the worklist, while the step budget lasts.
StartStep ==
  /\ pc = "next" /\ work # <<>> /\ steps < MaxSteps
  /\ pc' = "run"
  /\ steps' = steps + 1
  /\ branch' = Head(work) /\ work' = Tail(work)
  /\ ran' = [ran EXCEPT ![stim.id[1]] = IF @ > MaxSteps THEN @ ELSE @ + 1]
  /\ UNCHANGED <<now, durable, stim, started, deferredSeq, unretryable,
                 accessed, called, emitted, raws, losses, faults, finished, granted>>

\* The worklist is empty, or the budget is used up and what is left is dropped.
Finish ==
  /\ pc = "next"
  /\ work = <<>> \/ steps = MaxSteps
  /\ EndWake({})
  /\ UNCHANGED losses

\* Mutant of Plugged: the authorization looks at the tier the stimulus came with.
PluggedBySeed(b) == {v \in Server : /\ StateOf[b.prompt] \in ServerStates[v]
                                    /\ Permits(stim.trust, ServerMin[v])}

\* assemble_mcp_servers: the servers that fit the state and clear the branch's trust.
Plugged(b) == {v \in Server : /\ StateOf[b.prompt] \in ServerStates[v]
                              /\ Permits(b.trust, ServerMin[v])}

\* accessed_trust: the calls the wall allowed meet into one tier.
Call(v) ==
  /\ pc = "run" /\ v \in Plugged(branch)
  /\ accessed' = IF accessed = {} THEN {ServerTrust[v]}
                 ELSE {Meet(x, ServerTrust[v]) : x \in accessed}
  /\ called' = called \cup {ServerTrust[v]}
  /\ UNCHANGED <<now, durable, pc, wake, branch, emitted, raws, losses, faults, history>>

\* The states in which an outward action can be allowed, and Reflect, whose soul
\* edits are committed step by step, mark the wake.
Act ==
  /\ pc = "run" /\ StateOf[branch.prompt] \in {"express", "settle", "reflect"}
  /\ unretryable' = TRUE
  /\ UNCHANGED <<now, durable, pc, stim, started, work, steps, deferredSeq,
                 step, raws, losses, faults, history>>

\* The mark as the timeout handler finds it: a Reflect step sets it even if idle.
Marked == unretryable \/ StateOf[branch.prompt] = "reflect"

\* A real error of the invocation or of the runlog: terminal.
StepFails == pc = "run" /\ EndWake({}) /\ UNCHANGED losses

\* Mutant of Retried: the attempt is not counted.
RetriedUncounted == {stim}

\* The row that is put back, its attempt counted.
Retried == {[stim EXCEPT !.attempts = @ + 1]}

StepTimesOut ==
  /\ pc = "run"
  /\ EndWake(IF ~Marked /\ stim.attempts < MaxRetries THEN Retried ELSE {})
  /\ UNCHANGED losses

\* The process dies in the middle of the wake, or before its outcome is recorded; the
\* next boot re-pends its row, attempts unchanged, and what it deferred stays.
Crash ==
  /\ pc # "idle" /\ losses + faults < MaxFaults
  /\ losses' = losses + 1
  /\ EndWake({stim})

\* Mutant of Degrade: the branch keeps the trust it came with.
DegradeNot(b) == [b EXCEPT !.touched = @ \cup called]

\* Taint by actual access: the branch's trust meets what the step called.
Degrade(b) == [prompt  |-> b.prompt,
               trust   |-> IF accessed = {} THEN b.trust
                           ELSE CHOOSE t \in {Meet(b.trust, x) : x \in accessed} : TRUE,
               touched |-> b.touched \cup called]

StepEnds ==
  /\ pc = "run"
  /\ pc' = "emit"
  /\ branch' = Degrade(branch)
  /\ accessed' = {} /\ called' = {}
  /\ unretryable' = Marked
  /\ UNCHANGED <<now, durable, stim, started, work, steps, deferredSeq, emitted,
                 raws, losses, faults, history>>

----------------------------------------------------------------------------
(* Fan-out: each baton of the step against the gates, in the code's order. *)

Admitted(to) ==
  /\ to \in Transitions[branch.prompt]
  /\ WithinCeiling(StateOf[to], Reaches(branch.trust))
  /\ AllowedTransition(StateOf[branch.prompt], StateOf[to])

\* Mutant of ReflectDue: any Reflect baton is due.
ReflectDueAlways == TRUE

\* reflect_rate_limit_ok, against the second the wake started.
ReflectDue == \/ ReflectInterval = 0
              \/ reflectLast = Never
              \/ started - reflectLast >= ReflectInterval

\* A Reflect baton takes the interval's grant; a cursor that cannot be read counts
\* as never set, one that cannot be written stays.  k counts the failed calls.
GrantReflect(k) ==
  /\ granted' = granted + 1
  /\ \/ /\ k = 0 /\ ReflectDue
        /\ reflectLast' = started
     \/ /\ k = 1
        /\ ReflectDue /\ UNCHANGED reflectLast
     \/ /\ k = 1
        /\ ~ReflectDue /\ reflectLast' = started
     \/ /\ k = 2
        /\ ~ReflectDue /\ UNCHANGED reflectLast

Gate(to, k) == IF StateOf[to] = "reflect" THEN GrantReflect(k)
               ELSE k = 0 /\ UNCHANGED <<reflectLast, granted>>

Child(to) == [prompt |-> to, trust |-> branch.trust, touched |-> branch.touched]

RunInWake(to) == /\ work' = Append(work, Child(to))
                 /\ UNCHANGED <<queue, ids, deferredSeq>>

\* Mutant of Insert: a continuation id that has a row is inserted again.
InsertReplacing(c) == /\ queue' = queue \cup {c}
                      /\ ids' = ids \cup {c.id}

\* INSERT OR IGNORE: an id that has a row, from an earlier attempt of this wake,
\* keeps that row, and the new baton is gone.
Insert(c) == IF c.id \in ids THEN UNCHANGED <<queue, ids>>
             ELSE queue' = queue \cup {c} /\ ids' = ids \cup {c.id}

Continuation(to) ==
  [id |-> Append(stim.id, deferredSeq + 1), prompt |-> to, trust |-> branch.trust,
   depth |-> stim.depth + 1, born |-> started, attempts |-> 0,
   touched |-> branch.touched]

Defer(to) == /\ deferredSeq' = deferredSeq + 1
             /\ Insert(Continuation(to))
             /\ UNCHANGED work

\* Mutant of MayDefer: one level too many.
MayDeferTooDeep == stim.depth <= MaxDepth

\* Whether a lineage may still defer.
MayDefer == stim.depth < MaxDepth

\* One baton through the gates: a Low one is deferred unless its lineage is too deep,
\* and runs in this wake when the enqueue fails.
Emit(to, low) ==
  /\ pc = "emit" /\ emitted < MaxWidth
  /\ Admitted(to)
  /\ emitted' = emitted + 1
  /\ \E k \in 0..2 :
       /\ Gate(to, k)
       /\ \/ /\ low /\ MayDefer
             /\ \/ Defer(to) /\ faults' = faults + k
                \/ /\ faults' = faults + k + 1
                   /\ work' = Append(work, Child(to))
                   /\ deferredSeq' = deferredSeq + 1
                   /\ UNCHANGED <<queue, ids>>
          \/ /\ ~(low /\ MayDefer)
             /\ RunInWake(to) /\ faults' = faults + k
       /\ losses + faults' <= MaxFaults
  /\ UNCHANGED <<now, pc, stim, started, steps, unretryable, branch, accessed, called,
                 raws, losses, finished, ran>>

\* The last baton is through.
Emitted ==
  /\ pc = "emit"
  /\ pc' = "next"
  /\ branch' = IdleBranch /\ emitted' = 0
  /\ UNCHANGED <<now, durable, wake, accessed, called, raws, losses, faults, history>>

Tick == /\ now < MaxTime
        /\ now' = now + 1
        /\ UNCHANGED <<durable, pc, wake, step, raws, losses, faults, history>>

----------------------------------------------------------------------------
StepOver == StepEnds \/ StepFails \/ StepTimesOut

Next ==
  \/ Tick
  \/ \E seed \in Seeds : OpenRaw(seed)
  \/ \E s \in queue : OpenQueued(s)
  \/ StartStep \/ Finish
  \/ \E v \in Server : Call(v)
  \/ Act \/ StepOver \/ Crash
  \/ \E to \in Prompt, low \in BOOLEAN : Emit(to, low)
  \/ Emitted

Spec == Init /\ [][Next]_vars

(***************************************************************************)
(* Fairness: the loop pops what waits, every invocation ends (it has a     *)
(* wall-clock budget), and the fan-out of an output is a finite loop.      *)
(* Nothing is assumed of the model, of new stimuli, of crashes, or of how  *)
(* a step ends.                                                            *)
(***************************************************************************)
Fairness == /\ WF_vars(\E s \in queue : OpenQueued(s))
            /\ WF_vars(StartStep \/ Finish)
            /\ WF_vars(StepOver)
            /\ WF_vars(Emitted)

FairSpec == Spec /\ Fairness

----------------------------------------------------------------------------
(* Properties.                                                             *)

TypeOK ==
  /\ now \in Nat /\ started \in Nat /\ steps \in Nat /\ deferredSeq \in Nat
  /\ emitted \in Nat /\ raws \in Nat /\ losses \in Nat /\ faults \in Nat /\ granted \in Nat
  /\ queue \subseteq Stim
  /\ ids \subseteq Seq(Nat) /\ finished \subseteq Seq(Nat)
  /\ reflectLast \in Nat \cup {Never}
  /\ pc \in {"idle", "next", "run", "emit"}
  /\ stim \in Stim
  /\ work \in Seq(Branch) /\ branch \in Branch
  /\ accessed \subseteq Tier /\ called \subseteq Tier
  /\ unretryable \in BOOLEAN
  /\ ran \in [Raw -> Nat]

\* Trust only ratchets down along a lineage (I17): a branch or a continuation is
\* trusted no more than anything its lineage started from or called, in whatever
\* wake, before or after a deferral, a retry or a restart.
TaintedBy(x) == \A t \in x.touched : Rank(x.trust) <= Rank(t)

TaintTracksLineage ==
  /\ TaintedBy(branch) /\ TaintedBy(stim)
  /\ \A k \in DOMAIN work : TaintedBy(work[k])
  /\ \A s \in queue : TaintedBy(s)

\* How far a cycle may climb (docs/concepts.md:48-77): a step runs only in a state
\* that every tier its lineage has touched so far reaches.
CeilingHolds ==
  pc = "run" => \A t \in branch.touched : WithinCeiling(StateOf[branch.prompt], Reaches(t))

\* A min_trust server is plugged only in a step whose whole lineage clears it: a
\* lineage that has touched less has lost it (docs/concepts.md:79-82).
PrivilegeLostWithTrust ==
  pc = "run" => \A v \in Plugged(branch), t \in branch.touched : Permits(t, ServerMin[v])

\* Self-modification is rationed: Reflect batons are granted at most once per interval
\* of elapsed time over all wakes, plus one for each failed cursor access.
ReflectRationed == (granted - 1 - faults) * ReflectInterval <= now

\* A continuation runs to an end at most once: a retried wake that defers the same
\* sequence numbers again does not bring a finished continuation back.
ContinuationEndsOnce == \A s \in queue : s.id \notin finished

\* Every wake ends and every lineage dies out, whatever the model emits.
LineagesEnd == <>[](pc = "idle" /\ queue = {})

\* The ids of units of work: a raw stimulus' number, and the number of each deferral since.
UnitId ==
  {u \in UNION {[1..n -> 1..(MaxRaw + MaxSteps * MaxWidth)] : n \in 1..(MaxDepth + 1)} :
     u[1] \in Raw /\ \A k \in 2..Len(u) : u[k] \in 1..(MaxSteps * MaxWidth)}

\* A unit waits or runs, once; or it ended; or it was never there.
Waiting(u) == {s \in queue : s.id = u}
Running(u) == pc # "idle" /\ stim.id = u
Known(u) == u \in ids \/ \E r \in 1..raws : u = <<r>>

Life(u) ==
  CASE Running(u) /\ Waiting(u) = {}                  -> "live"
    [] ~Running(u) /\ (\E s \in queue : Waiting(u) = {s}) -> "live"
    [] ~Running(u) /\ Waiting(u) = {} /\ Known(u)     -> "ended"
    [] ~Running(u) /\ Waiting(u) = {} /\ ~Known(u)    -> "none"
    [] OTHER                                          -> "doubled"

Tries(u) == IF Running(u) THEN stim.attempts
            ELSE IF Waiting(u) = {} THEN 0 ELSE (CHOOSE s \in Waiting(u) : TRUE).attempts

Wakes == INSTANCE WakeLifecycle
           WITH Unit <- UnitId, Nobody <- <<>>, RetryLimit <- MaxRetries,
                life <- [u \in UnitId |-> Life(u)], tries <- [u \in UnitId |-> Tries(u)],
                mind <- IF pc = "idle" THEN <<>> ELSE stim.id, marked <- unretryable

\* A wake keeps what the loop relies on (mod.rs:164-191, 253-276): it is the only one, its stimulus
\* or continuation ends once, and is put back only unmarked, counted and within the budget.
ImplementsWakes == Wakes!Spec

----------------------------------------------------------------------------
(* A statement of the code that the code does not keep.                    *)

\* "Hard cap on TOTAL state-prompt invocations one stimulus may walk through, across
\* its whole fan-out tree" (mod.rs:1664-1665).
StimulusStepCap == \A r \in Raw : ran[r] <= MaxSteps
=============================================================================
