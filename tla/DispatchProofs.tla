--------------------------- MODULE DispatchProofs ---------------------------
(***************************************************************************)
(* Theorems about Dispatch: types, the ratchet of trust along a lineage,   *)
(* and what follows from it for the states a cycle walks to and the        *)
(* servers it is given; the rationing of Reflect; the end of continuations *)
(* and the refinement of WakeLifecycle.                                    *)
(***************************************************************************)
EXTENDS Dispatch, TLAPS, SequenceTheorems, FiniteSetTheorems

----------------------------------------------------------------------------
(* The lattice.                                                            *)

\* A finite set of positions has a first one.
LEMMA FirstPosition ==
  ASSUME NEW n \in Nat, NEW S \in SUBSET (1..n), S # {}
  PROVE  \E k \in S : \A j \in S : k <= j
  <1> DEFINE upto(k) == 1..k
             T == {upto(k) : k \in S}
             R == StrictSubsetOrdering(1..n)
  <1>1. \A k \in S : upto(k) \in FiniteSubsetsOf(1..n)
    <2> SUFFICES ASSUME NEW k \in S PROVE upto(k) \in FiniteSubsetsOf(1..n)
      OBVIOUS
    <2>1. k \in Int /\ upto(k) \subseteq 1..n
      OBVIOUS
    <2>2. IsFiniteSet(upto(k))
      BY <2>1, FS_Interval
    <2> QED
      BY <2>1, <2>2 DEF FiniteSubsetsOf
  <1>2. IsWellFoundedOn(R, FiniteSubsetsOf(1..n))
    BY FS_StrictSubsetOrderingWellFounded
  <1>3. T \subseteq FiniteSubsetsOf(1..n) /\ T # {}
    BY <1>1
  <1> HIDE DEF R, T
  <1>4. \E x \in T : \A y \in T : ~(<<y, x>> \in R)
    BY <1>2, <1>3, WFMin
  <1> USE DEF T
  <1>5. PICK k \in S : \A j \in S : ~(<<upto(j), upto(k)>> \in R)
    BY <1>4
  <1>6. ASSUME NEW j \in S PROVE k <= j
    <2>1. SUFFICES ASSUME j < k PROVE FALSE
      OBVIOUS
    <2>2. upto(j) \subseteq upto(k) /\ upto(j) # upto(k)
      BY <2>1
    <2>3. <<upto(j), upto(k)>> \in R
      BY <2>2, <1>1 DEF R, StrictSubsetOrdering
    <2> QED
      BY <2>3, <1>5
  <1> QED
    BY <1>5, <1>6

\* The position of a tier the lattice has is one of its entries.
LEMMA PositionAt ==
  ASSUME NEW t, At(t) # {}
  PROVE  Position(t) \in At(t)
  <1>1. Len(Lattice) \in Nat /\ At(t) \subseteq 1..Len(Lattice)
    BY LatticeAssumption, LenProperties DEF At
  <1>2. \E k \in At(t) : \A j \in At(t) : k <= j
    BY <1>1, FirstPosition
  <1> QED
    BY <1>2 DEF Position

\* A rank is a number, and what a tier reaches is a state.
LEMMA LatticeTypes ==
  ASSUME NEW t
  PROVE  Rank(t) \in Int /\ Reaches(t) \in State
  <1>1. CASE At(t) = {}
    BY <1>1 DEF Rank, Reaches, State
  <1>2. CASE At(t) # {}
    <2>1. Position(t) \in DOMAIN Lattice
      BY <1>2, PositionAt DEF At
    <2>2. Position(t) \in 1..Len(Lattice) /\ Len(Lattice) \in Nat
      BY <2>1, LatticeAssumption, LenProperties
    <2>3. Lattice[Position(t)] \in [name : Tier, reaches : State]
      BY <2>2, LatticeAssumption, ElementOfSeq
    <2> QED
      BY <1>2, <2>2, <2>3 DEF Rank, Reaches
  <1> QED
    BY <1>1, <1>2

\* The meet is one of the two, and ranks no higher than either.
LEMMA MeetLowers ==
  ASSUME NEW x, NEW y
  PROVE  Meet(x, y) \in {x, y} /\ Rank(Meet(x, y)) <= Rank(x) /\ Rank(Meet(x, y)) <= Rank(y)
  BY LatticeTypes DEF Meet

\* A state within the reach of a tier is within the reach of every tier above it.
LEMMA CeilingRises ==
  ASSUME NEW x \in Tier, NEW y \in Tier, NEW s \in State,
         Rank(x) <= Rank(y), WithinCeiling(s, Reaches(x))
  PROVE  WithinCeiling(s, Reaches(y))
  <1>1. WithinCeiling(Reaches(x), Reaches(y))
    BY ReachesMonotone
  <1>2. \A r \in State : StateRank(r) \in Int
    BY DEF State, StateRank
  <1> QED
    BY <1>1, <1>2, LatticeTypes DEF WithinCeiling

----------------------------------------------------------------------------
(* Types.                                                                  *)

\* The bounds are numbers.
LEMMA Bounds == /\ MaxSteps \in Nat /\ MaxWidth \in Nat /\ MaxDepth \in Nat
                /\ MaxRetries \in Nat /\ ReflectInterval \in Nat /\ MaxFaults \in Nat
  BY BoundAssumption

\* The prompt of an idle loop is a prompt.
LEMMA NoPromptType == NoPrompt \in Prompt
  BY PromptAssumption DEF NoPrompt

\* An idle loop holds a branch and a stimulus that stand for none.
LEMMA IdleTypes == IdleBranch \in Branch /\ IdleStim \in Stim
  BY NoPromptType, SeedAssumption, Bounds, EmptySeq DEF IdleBranch, IdleStim, Branch, Stim

\* The branch after the taint of its step is a branch.
LEMMA DegradeType ==
  ASSUME NEW b \in Branch, accessed \subseteq Tier, called \subseteq Tier
  PROVE  Degrade(b) \in Branch
  <1>1. CASE accessed = {}
    BY <1>1 DEF Degrade, Branch
  <1>2. CASE accessed # {}
    <2> DEFINE M == {Meet(b.trust, x) : x \in accessed}
    <2>1. M \subseteq Tier /\ M # {}
      BY <1>2, MeetLowers DEF Branch
    <2>2. (CHOOSE t \in M : TRUE) \in Tier
      BY <2>1
    <2> QED
      BY <1>2, <2>2 DEF Degrade, Branch
  <1> QED
    BY <1>1, <1>2

\* What a producer's request becomes is a stimulus.
LEMMA RawStimType ==
  ASSUME NEW seed \in Seeds, raws \in Nat, now \in Nat
  PROVE  RawStim(seed) \in Stim
  <1>1. Directive(seed) \in Tier /\ seed.payload \in Tier /\ seed.prompt \in Prompt
    BY SeedAssumption DEF Directive
  <1>2. Meet(Directive(seed), seed.payload) \in Tier
    BY <1>1, MeetLowers
  <1>3. <<raws + 1>> \in Seq(Nat)
    OBVIOUS
  <1> QED
    BY <1>1, <1>2, <1>3, Bounds DEF RawStim, Stim

\* An empty database and an idle loop have their types.
LEMMA TypeInit == Init => TypeOK
  <1> SUFFICES ASSUME Init PROVE TypeOK
    OBVIOUS
  <1>1. work \in Seq(Branch) /\ ran \in [Raw -> Nat]
    BY EmptySeq DEF Init
  <1> QED
    BY <1>1, IdleTypes DEF Init, TypeOK, Never

\* A wake that opens, or is dropped, leaves types alone.
LEMMA OpenType ==
  ASSUME TypeOK, NEW s \in Stim, pc = "idle", Open(s), queue' \subseteq Stim, raws' \in Nat
  PROVE  TypeOK'
  <1>1. s.id \in Seq(Nat) /\ s.prompt \in Prompt /\ s.trust \in Tier /\ s.touched \subseteq Tier
    BY DEF Stim
  <1>2. [prompt |-> s.prompt, trust |-> s.trust, touched |-> s.touched] \in Branch
    BY <1>1 DEF Branch
  <1>3. <<[prompt |-> s.prompt, trust |-> s.trust, touched |-> s.touched]>> \in Seq(Branch)
    BY <1>2
  <1>4. work' \in Seq(Branch) /\ stim' \in Stim /\ pc' \in {"idle", "next"}
    BY <1>3 DEF Open, TypeOK
  <1>5. started' \in Nat /\ reflectLast' \in Nat \cup {Never} /\ faults' \in Nat
    BY DEF Open, TypeOK, Fault
  <1>6. finished' \subseteq Seq(Nat)
    BY <1>1 DEF Open, TypeOK
  <1> QED
    BY <1>4, <1>5, <1>6 DEF Open, TypeOK, step

\* So does a wake that ends.
LEMMA EndWakeType ==
  ASSUME TypeOK, NEW S \in SUBSET Stim, EndWake(S), losses' \in Nat
  PROVE  TypeOK'
  <1>1. work' \in Seq(Branch) /\ stim' \in Stim /\ branch' \in Branch
    BY EmptySeq, IdleTypes DEF EndWake
  <1>2. finished' \subseteq Seq(Nat)
    BY DEF EndWake, TypeOK, Stim
  <1> QED
    BY <1>1, <1>2 DEF EndWake, TypeOK

\* A baton that passes the gates becomes a branch or a continuation.
LEMMA EmitType ==
  ASSUME TypeOK, NEW to \in Prompt, NEW low \in BOOLEAN, Emit(to, low)
  PROVE  TypeOK'
  <1>1. Child(to) \in Branch
    BY DEF Child, Branch, TypeOK
  <1>2. Append(work, Child(to)) \in Seq(Branch)
    BY <1>1, AppendProperties DEF TypeOK
  <1>3. MayDefer => Continuation(to) \in Stim
    <2>1. SUFFICES ASSUME MayDefer PROVE Continuation(to) \in Stim
      OBVIOUS
    <2>2. stim.id \in Seq(Nat) /\ stim.depth \in 0..MaxDepth /\ deferredSeq + 1 \in Nat
      BY DEF TypeOK, Stim
    <2>3. Append(stim.id, deferredSeq + 1) \in Seq(Nat)
      BY <2>2, AppendProperties
    <2>4. stim.depth + 1 \in 0..MaxDepth
      BY <2>1, <2>2, Bounds DEF MayDefer
    <2>5. branch.trust \in Tier /\ branch.touched \subseteq Tier /\ started \in Nat
      BY DEF TypeOK, Branch
    <2> QED
      BY <2>3, <2>4, <2>5, Bounds DEF Continuation, Stim
  <1>4. PICK k \in 0..2 :
          /\ Gate(to, k)
          /\ \/ /\ low /\ MayDefer
                /\ \/ Defer(to) /\ faults' = faults + k
                   \/ /\ faults' = faults + k + 1
                      /\ work' = Append(work, Child(to))
                      /\ deferredSeq' = deferredSeq + 1
                      /\ UNCHANGED <<queue, ids>>
             \/ /\ ~(low /\ MayDefer)
                /\ RunInWake(to) /\ faults' = faults + k
    BY DEF Emit
  <1>5. reflectLast' \in Nat \cup {Never} /\ granted' \in Nat
    BY <1>4 DEF Gate, GrantReflect, TypeOK
  <1>6. work' \in Seq(Branch) /\ deferredSeq' \in Nat /\ faults' \in Nat
    <2>1. work' = work \/ work' = Append(work, Child(to))
      BY <1>4 DEF Defer, RunInWake
    <2>2. deferredSeq' = deferredSeq \/ deferredSeq' = deferredSeq + 1
      BY <1>4 DEF Defer, RunInWake
    <2>3. faults' = faults + k \/ faults' = faults + k + 1
      BY <1>4
    <2>4. work' \in Seq(Branch)
      BY <1>2, <2>1 DEF TypeOK
    <2>5. deferredSeq' \in Nat /\ faults' \in Nat
      BY <2>2, <2>3 DEF TypeOK
    <2> QED
      BY <2>4, <2>5
  <1>7. queue' \subseteq Stim /\ ids' \subseteq Seq(Nat)
    <2>1. UNCHANGED <<queue, ids>> \/ (MayDefer /\ Insert(Continuation(to)))
      BY <1>4 DEF Defer, RunInWake
    <2>2. CASE MayDefer /\ Insert(Continuation(to))
      BY <1>3, <2>2 DEF Insert, TypeOK, Stim
    <2> QED
      BY <2>1, <2>2 DEF TypeOK
  <1> QED
    BY <1>5, <1>6, <1>7 DEF Emit, TypeOK

\* Every step keeps every variable in its type.
LEMMA TypeStep == TypeOK /\ [Next]_vars => TypeOK'
  <1> SUFFICES ASSUME TypeOK, [Next]_vars PROVE TypeOK'
    OBVIOUS
  <1>1. CASE Tick
    BY <1>1, Bounds DEF Tick, TypeOK, durable, wake, step, history
  <1>2. ASSUME NEW seed \in Seeds, OpenRaw(seed) PROVE TypeOK'
    <2>1. RawStim(seed) \in Stim
      BY RawStimType DEF TypeOK
    <2> QED
      BY <1>2, <2>1, OpenType DEF OpenRaw, TypeOK
  <1>3. ASSUME NEW s \in queue, OpenQueued(s) PROVE TypeOK'
    BY <1>3, OpenType DEF OpenQueued, TypeOK
  <1>4. CASE StartStep
    <2>1. Head(work) \in Branch /\ Tail(work) \in Seq(Branch)
      BY <1>4, HeadTailProperties DEF StartStep, TypeOK
    <2>2. ran' \in [Raw -> Nat]
      <3> DEFINE r == stim.id[1]
      <3>1. ran' = [ran EXCEPT ![r] = IF @ > MaxSteps THEN @ ELSE @ + 1] /\ ran \in [Raw -> Nat]
        BY <1>4 DEF StartStep, TypeOK
      <3> HIDE DEF r
      <3>2. ASSUME NEW q \in Raw PROVE ran'[q] \in Nat
        <4>1. ran[q] \in Nat /\ ran[q] + 1 \in Nat
          BY <3>1
        <4>2. ran'[q] \in {ran[q], ran[q] + 1}
          BY <3>1
        <4> QED
          BY <4>1, <4>2
      <3> QED
        BY <3>1, <3>2
    <2> QED
      BY <1>4, <2>1, <2>2 DEF StartStep, TypeOK, durable
  <1>5. CASE Finish
    BY <1>5, EndWakeType DEF Finish, TypeOK
  <1>6. ASSUME NEW v \in Server, Call(v) PROVE TypeOK'
    <2>1. ServerTrust[v] \in Tier
      BY ServerAssumption
    <2>2. accessed' \subseteq Tier /\ called' \subseteq Tier
      BY <1>6, <2>1, MeetLowers DEF Call, TypeOK
    <2> QED
      BY <1>6, <2>2 DEF Call, TypeOK, durable, wake, history
  <1>7. CASE Act
    BY <1>7 DEF Act, TypeOK, durable, step, history
  <1>8. CASE StepEnds
    BY <1>8, DegradeType DEF StepEnds, TypeOK, durable, history, Marked
  <1>9. CASE StepFails
    BY <1>9, EndWakeType DEF StepFails, TypeOK
  <1>10. CASE StepTimesOut
    <2>1. ASSUME stim.attempts < MaxRetries PROVE Retried \subseteq Stim
      <3>1. stim.attempts \in 0..MaxRetries
        BY DEF TypeOK, Stim
      <3>2. stim.attempts + 1 \in 0..MaxRetries
        BY <2>1, <3>1, Bounds
      <3>3. [stim EXCEPT !.attempts = @ + 1] \in Stim
        BY <3>2 DEF TypeOK, Stim
      <3> QED
        BY <3>3 DEF Retried
    <2> QED
      BY <1>10, <2>1, EndWakeType DEF StepTimesOut, TypeOK
  <1>11. CASE Crash
    BY <1>11, EndWakeType DEF Crash, TypeOK
  <1>12. ASSUME NEW to \in Prompt, NEW low \in BOOLEAN, Emit(to, low) PROVE TypeOK'
    BY <1>12, EmitType
  <1>13. CASE Emitted
    BY <1>13, IdleTypes DEF Emitted, TypeOK, durable, wake, history
  <1>14. CASE UNCHANGED vars
    BY <1>14 DEF vars, TypeOK
  <1> QED
    BY <1>1, <1>2, <1>3, <1>4, <1>5, <1>6, <1>7, <1>8, <1>9, <1>10, <1>11, <1>12, <1>13,
       <1>14 DEF Next, StepOver

\* Every step keeps every variable in its type; a continuation is never deeper than
\* MaxDepth, a retried stimulus never past MaxRetries.
THEOREM TypeCorrect == Spec => []TypeOK
  BY TypeInit, TypeStep, PTL DEF Spec
----------------------------------------------------------------------------
(* The ratchet of trust.                                                   *)

\* A branch that is trusted no more than its lineage, in a state its trust reaches.
SoundBranch == {b \in Branch : /\ TaintedBy(b)
                               /\ WithinCeiling(StateOf[b.prompt], Reaches(b.trust))}

\* The tier of a step's accesses ranks below every one of them, and everything that a
\* lineage goes on with (its branches, its stimulus, what it deferred or is to retry)
\* carries no more trust than the lineage has left.
Ratchet == /\ accessed = {} => called = {}
           /\ \A x \in accessed, t \in called : Rank(x) <= Rank(t)
           /\ TaintedBy(branch) /\ TaintedBy(stim)
           /\ pc = "run" => branch \in SoundBranch
           /\ work \in Seq(SoundBranch)
           /\ \A s \in queue : TaintedBy(s)

\* A wake that opens starts from its stimulus' taint; one that is dropped leaves all.
LEMMA OpenRatchet ==
  ASSUME TypeOK, Ratchet, NEW s \in Stim, TaintedBy(s), pc = "idle", Open(s), queue' \subseteq queue
  PROVE  Ratchet'
  <1> DEFINE b == [prompt |-> s.prompt, trust |-> s.trust, touched |-> s.touched]
  <1>1. b \in Branch /\ TaintedBy(b)
    BY DEF Stim, Branch, TaintedBy
  <1>2. ~Dropped(s) => b \in SoundBranch
    BY <1>1 DEF Dropped, SoundBranch
  <1>3. work' \in Seq(SoundBranch)
    <2>1. CASE ~Dropped(s) /\ work' = <<b>>
      BY <1>2, <2>1
    <2>2. CASE UNCHANGED work
      BY <2>2 DEF Ratchet
    <2> QED
      BY <2>1, <2>2 DEF Open
  <1>4. TaintedBy(stim)' /\ pc' # "run"
    BY DEF Open, Ratchet, TaintedBy
  <1>5. UNCHANGED <<branch, accessed, called>>
    BY DEF Open, step
  <1> QED
    BY <1>3, <1>4, <1>5 DEF Ratchet, TaintedBy

\* A wake that ends puts back its stimulus with the trust it came with, or nothing.
LEMMA EndWakeRatchet ==
  ASSUME Ratchet, NEW S, \A s \in S : TaintedBy(s), EndWake(S)
  PROVE  Ratchet'
  <1>1. TaintedBy(IdleBranch) /\ TaintedBy(IdleStim)
    BY DEF TaintedBy, IdleBranch, IdleStim
  <1>2. <<>> \in Seq(SoundBranch)
    BY EmptySeq
  <1>3. accessed' = {} /\ called' = {} /\ branch' = IdleBranch /\ stim' = IdleStim
        /\ work' = <<>> /\ pc' = "idle" /\ queue' = queue \cup S
    BY DEF EndWake
  <1>4. \A s \in queue' : TaintedBy(s)
    BY <1>3 DEF Ratchet
  <1> QED
    BY <1>1, <1>2, <1>3, <1>4 DEF Ratchet, TaintedBy

\* Taint by actual access: after the step the branch ranks below what it called.
LEMMA DegradeRatchet ==
  ASSUME TypeOK, Ratchet
  PROVE  TaintedBy(Degrade(branch))
  <1>1. SUFFICES ASSUME NEW t \in branch.touched \cup called
                 PROVE  Rank(Degrade(branch).trust) <= Rank(t)
    BY DEF TaintedBy, Degrade
  <1>2. CASE accessed = {}
    BY <1>1, <1>2 DEF Degrade, Ratchet, TaintedBy
  <1>3. CASE accessed # {}
    <2> DEFINE M == {Meet(branch.trust, x) : x \in accessed}
    <2>1. Degrade(branch).trust \in M
      BY <1>3 DEF Degrade
    <2>2. PICK x \in accessed : Degrade(branch).trust = Meet(branch.trust, x)
      BY <2>1
    <2>3. /\ Rank(Degrade(branch).trust) <= Rank(branch.trust)
          /\ Rank(Degrade(branch).trust) <= Rank(x)
      BY <2>2, MeetLowers
    <2>4. t \in branch.touched => Rank(branch.trust) <= Rank(t)
      BY DEF Ratchet, TaintedBy
    <2>5. t \in called => Rank(x) <= Rank(t)
      BY DEF Ratchet
    <2>6. /\ Rank(Degrade(branch).trust) \in Int /\ Rank(branch.trust) \in Int
          /\ Rank(x) \in Int /\ Rank(t) \in Int
      BY LatticeTypes
    <2> QED
      BY <1>1, <2>3, <2>4, <2>5, <2>6
  <1> QED
    BY <1>2, <1>3

\* A call lowers the tier of the step's accesses below the server's.
LEMMA CallRatchet ==
  ASSUME TypeOK, Ratchet, NEW v \in Server, Call(v)
  PROVE  Ratchet'
  <1> DEFINE tier == ServerTrust[v]
  <1>1. accessed' # {} /\ called' = called \cup {tier}
    BY DEF Call
  <1>2. ASSUME NEW y \in accessed', NEW t \in called' PROVE Rank(y) <= Rank(t)
    <2>1. CASE accessed = {}
      BY <1>1, <1>2, <2>1, LatticeTypes DEF Call, Ratchet
    <2>2. CASE accessed # {}
      <3>1. PICK x \in accessed : y = Meet(x, tier)
        BY <1>2, <2>2 DEF Call
      <3>2. Rank(y) <= Rank(x) /\ Rank(y) <= Rank(tier)
        BY <3>1, MeetLowers
      <3>3. t = tier \/ Rank(x) <= Rank(t)
        BY <1>1, <1>2 DEF Ratchet
      <3>4. Rank(x) \in Int /\ Rank(y) \in Int /\ Rank(t) \in Int
        BY LatticeTypes
      <3> QED
        BY <3>2, <3>3, <3>4
    <2> QED
      BY <2>1, <2>2
  <1>3. UNCHANGED <<pc, stim, work, branch, queue>>
    BY DEF Call, wake, durable
  <1> QED
    BY <1>1, <1>2, <1>3 DEF Ratchet, TaintedBy

\* A child and a continuation inherit the trust and the taint of their branch.
LEMMA EmitRatchet ==
  ASSUME TypeOK, Ratchet, NEW to \in Prompt, NEW low \in BOOLEAN, Emit(to, low)
  PROVE  Ratchet'
  <1>1. Child(to) \in SoundBranch
    BY DEF Emit, Admitted, Child, Ratchet, TaintedBy, SoundBranch, TypeOK, Branch
  <1>2. TaintedBy(Continuation(to))
    BY DEF Continuation, Ratchet, TaintedBy
  <1>3. work' \in Seq(SoundBranch)
    <2>1. UNCHANGED work \/ work' = Append(work, Child(to))
      BY DEF Emit, Defer, RunInWake
    <2> QED
      BY <1>1, <2>1, AppendProperties DEF Ratchet
  <1>4. queue' \subseteq queue \cup {Continuation(to)}
    BY DEF Emit, Defer, RunInWake, Insert
  <1>5. UNCHANGED <<pc, stim, branch, accessed, called>>
    BY DEF Emit
  <1> QED
    BY <1>2, <1>3, <1>4, <1>5 DEF Ratchet, TaintedBy

\* No step gives trust back.
LEMMA RatchetStep == TypeOK /\ Ratchet /\ [Next]_vars => Ratchet'
  <1> SUFFICES ASSUME TypeOK, Ratchet, [Next]_vars PROVE Ratchet'
    OBVIOUS
  <1>1. CASE Tick \/ UNCHANGED vars
    BY <1>1 DEF Tick, durable, wake, step, vars, Ratchet, TaintedBy
  <1>2. ASSUME NEW seed \in Seeds, OpenRaw(seed) PROVE Ratchet'
    <2>1. RawStim(seed) \in Stim
      BY RawStimType DEF TypeOK
    <2>2. TaintedBy(RawStim(seed))
      BY MeetLowers DEF RawStim, TaintedBy
    <2> QED
      BY <1>2, <2>1, <2>2, OpenRatchet DEF OpenRaw
  <1>3. ASSUME NEW s \in queue, OpenQueued(s) PROVE Ratchet'
    <2>1. s \in Stim /\ TaintedBy(s)
      BY DEF TypeOK, Ratchet
    <2> QED
      BY <1>3, <2>1, OpenRatchet DEF OpenQueued
  <1>4. CASE StartStep
    <2>1. Head(work) \in SoundBranch /\ Tail(work) \in Seq(SoundBranch)
      BY <1>4, HeadTailProperties DEF StartStep, Ratchet
    <2>2. branch' \in SoundBranch /\ work' \in Seq(SoundBranch)
      BY <1>4, <2>1 DEF StartStep
    <2>3. UNCHANGED <<queue, stim, accessed, called>>
      BY <1>4 DEF StartStep, durable
    <2> QED
      BY <2>2, <2>3 DEF Ratchet, TaintedBy, SoundBranch
  <1>5. CASE Finish \/ StepFails
    BY <1>5, EndWakeRatchet DEF Finish, StepFails
  <1>6. ASSUME NEW v \in Server, Call(v) PROVE Ratchet'
    BY <1>6, CallRatchet
  <1>7. CASE Act
    BY <1>7 DEF Act, durable, step, Ratchet, TaintedBy
  <1>8. CASE StepEnds
    <2>1. TaintedBy(branch)'
      BY <1>8, DegradeRatchet DEF StepEnds, TaintedBy
    <2> QED
      BY <1>8, <2>1 DEF StepEnds, durable, Ratchet, TaintedBy
  <1>9. CASE StepTimesOut
    <2>1. \A s \in Retried : TaintedBy(s)
      BY DEF Retried, Ratchet, TaintedBy, TypeOK, Stim
    <2> QED
      BY <1>9, <2>1, EndWakeRatchet DEF StepTimesOut
  <1>10. CASE Crash
    BY <1>10, EndWakeRatchet DEF Crash, Ratchet
  <1>11. ASSUME NEW to \in Prompt, NEW low \in BOOLEAN, Emit(to, low) PROVE Ratchet'
    BY <1>11, EmitRatchet
  <1>12. CASE Emitted
    BY <1>12 DEF Emitted, durable, wake, Ratchet, TaintedBy, IdleBranch
  <1> QED
    BY <1>1, <1>2, <1>3, <1>4, <1>5, <1>6, <1>7, <1>8, <1>9, <1>10, <1>11, <1>12
    DEF Next, StepOver

\* The ratchet holds in every reachable state.
LEMMA RatchetInvariant == Spec => []Ratchet
  <1>1. Init => Ratchet
    BY EmptySeq DEF Init, Ratchet, TaintedBy, IdleBranch, IdleStim
  <1> QED
    BY <1>1, TypeCorrect, RatchetStep, PTL DEF Spec

\* Trust only goes down along a lineage (I17), for every lattice, prompt graph, set of
\* servers and depth of deferral, through calls, fan-out, deferral, retries and restarts.
THEOREM TrustRatchets == Spec => []TaintTracksLineage
  <1>1. Ratchet => TaintTracksLineage
    <2> SUFFICES ASSUME Ratchet PROVE TaintTracksLineage
      OBVIOUS
    <2>1. ASSUME NEW k \in DOMAIN work PROVE TaintedBy(work[k])
      <3>1. work[k] \in SoundBranch
        BY LenProperties, ElementOfSeq DEF Ratchet
      <3> QED
        BY <3>1 DEF SoundBranch
    <2> QED
      BY <2>1 DEF Ratchet, TaintTracksLineage
  <1> QED
    BY <1>1, RatchetInvariant, PTL

\* A step runs only in a state that every tier its lineage has touched reaches: no
\* detour over calls, batons or continuations climbs above a ceiling.
THEOREM CeilingsHold == Spec => []CeilingHolds
  <1>1. TypeOK /\ Ratchet => CeilingHolds
    <2> SUFFICES ASSUME TypeOK, Ratchet, pc = "run", NEW t \in branch.touched
                 PROVE  WithinCeiling(StateOf[branch.prompt], Reaches(t))
      BY DEF CeilingHolds
    <2>1. branch.trust \in Tier /\ t \in Tier /\ StateOf[branch.prompt] \in State
      BY PromptAssumption DEF TypeOK, Branch
    <2>2. /\ Rank(branch.trust) <= Rank(t)
          /\ WithinCeiling(StateOf[branch.prompt], Reaches(branch.trust))
      BY DEF Ratchet, SoundBranch, TaintedBy
    <2> QED
      BY <2>1, <2>2, CeilingRises
  <1> QED
    BY <1>1, TypeCorrect, RatchetInvariant, PTL

\* A server with a min_trust is plugged only in a step whose whole lineage clears it.
THEOREM PrivilegesGo == Spec => []PrivilegeLostWithTrust
  <1>1. TypeOK /\ Ratchet => PrivilegeLostWithTrust
    BY LatticeTypes DEF PrivilegeLostWithTrust, Ratchet, TaintedBy, Plugged, Permits
  <1> QED
    BY <1>1, TypeCorrect, RatchetInvariant, PTL
----------------------------------------------------------------------------
(* Rationing of Reflect.                                                   *)

\* The grants that no failed call explains, but the first.
Unpaid == granted - 1 - faults

\* Every such grant has an interval of its own before the cursor, and the cursor is
\* never ahead of the second the wake started, or of the clock.
Rationed == /\ reflectLast = Never => Unpaid < 0
            /\ reflectLast # Never => Unpaid * ReflectInterval <= reflectLast
            /\ reflectLast <= now
            /\ pc # "idle" => reflectLast <= started /\ started <= now

\* More failed calls leave fewer grants unpaid.
LEMMA Differences ==
  \A g, f, h \in Nat : /\ h >= f => g - 1 - h <= g - 1 - f
                       /\ h >= f => (g + 1) - 1 - h <= (g - 1 - f) + 1
                       /\ h >= f + 1 => (g + 1) - 1 - h <= g - 1 - f
  OBVIOUS

\* Fewer grants take less time.
LEMMA FewerTakeLess ==
  ASSUME NEW m \in Int, NEW n \in Int, m <= n
  PROVE  m * ReflectInterval <= n * ReflectInterval
  <1>1. ReflectInterval \in Nat
    BY Bounds
  <1>2. n - m \in Nat /\ n * ReflectInterval = m * ReflectInterval + (n - m) * ReflectInterval
    BY <1>1
  <1>3. (n - m) * ReflectInterval >= 0
    BY <1>1, <1>2
  <1>4. m * ReflectInterval \in Int /\ (n - m) * ReflectInterval \in Int
    BY <1>1
  <1> QED
    BY <1>2, <1>3, <1>4

\* What is counted is numbers.
LEMMA RationTypes ==
  ASSUME TypeOK
  PROVE  /\ Unpaid \in Int /\ reflectLast \in Int /\ started \in Nat /\ now \in Nat
         /\ granted \in Nat /\ faults \in Nat
         /\ Unpaid * ReflectInterval \in Int
         /\ reflectLast # Never => reflectLast \in Nat
  BY Bounds DEF TypeOK, Unpaid, Never

\* A bound for the grants so far stays one for no more of them.
LEMMA RationKept ==
  ASSUME TypeOK, TypeOK', Rationed, Unpaid' <= Unpaid
  PROVE  /\ reflectLast = Never => Unpaid' < 0
         /\ reflectLast # Never => Unpaid' * ReflectInterval <= reflectLast
         /\ Unpaid' * ReflectInterval <= IF reflectLast = Never THEN 0 ELSE reflectLast
  <1>1. Unpaid \in Int /\ Unpaid' \in Int /\ reflectLast \in Int
    BY RationTypes DEF TypeOK, Unpaid, Never
  <1>2. Unpaid' * ReflectInterval <= Unpaid * ReflectInterval
    BY <1>1, FewerTakeLess
  <1>3. Unpaid < 0 => Unpaid * ReflectInterval <= 0
    BY <1>1, FewerTakeLess, Bounds
  <1>4. Unpaid' * ReflectInterval \in Int /\ Unpaid * ReflectInterval \in Int
    BY <1>1, Bounds
  <1> QED
    BY <1>1, <1>2, <1>3, <1>4 DEF Rationed

\* A grant is due an interval after the last one, or is paid for by a failed call.
LEMMA EmitRationed ==
  ASSUME TypeOK, TypeOK', Rationed, NEW to \in Prompt, NEW low \in BOOLEAN, Emit(to, low)
  PROVE  Rationed'
  <1>1. pc = "emit" /\ UNCHANGED <<now, pc, started>>
    BY DEF Emit
  <1>2. /\ Unpaid \in Int /\ reflectLast \in Int /\ started \in Nat /\ now \in Nat
        /\ granted \in Nat /\ faults \in Nat
        /\ reflectLast # Never => reflectLast \in Nat
    BY RationTypes
  <1>3. /\ Unpaid' \in Int /\ reflectLast' \in Int /\ granted' \in Nat /\ faults' \in Nat
    BY DEF TypeOK, Unpaid, Never
  <1>4. PICK k \in 0..2 : Gate(to, k) /\ faults' >= faults + k
    BY <1>2 DEF Emit
  <1>5. reflectLast <= started /\ started <= now
    BY <1>1 DEF Rationed
  <1>6. CASE Unpaid' <= Unpaid /\ reflectLast' \in {reflectLast, started}
    <2>1. /\ reflectLast = Never => Unpaid' < 0
          /\ reflectLast # Never => Unpaid' * ReflectInterval <= reflectLast
          /\ Unpaid' * ReflectInterval <= IF reflectLast = Never THEN 0 ELSE reflectLast
      BY <1>6, RationKept
    <2>2. Unpaid' * ReflectInterval \in Int
      BY <1>3, Bounds
    <2>3. started # Never
      BY <1>2 DEF Never
    <2> QED
      BY <1>1, <1>2, <1>5, <1>6, <2>1, <2>2, <2>3 DEF Rationed
  <1>7. CASE ReflectDue /\ granted' = granted + 1 /\ reflectLast' = started
    <2>1. Unpaid' <= Unpaid + 1
      <3>1. granted' = granted + 1 /\ faults' >= faults
        BY <1>2, <1>3, <1>4, <1>7
      <3> QED
        BY <1>2, <1>3, <3>1, Differences DEF Unpaid
    <2>2. Unpaid' * ReflectInterval <= (Unpaid + 1) * ReflectInterval
      BY <1>2, <1>3, <2>1, FewerTakeLess
    <2>3. (Unpaid + 1) * ReflectInterval = Unpaid * ReflectInterval + ReflectInterval
      BY <1>2, Bounds
    <2>4. (Unpaid + 1) * ReflectInterval <= started
      <3>1. CASE ReflectInterval = 0
        BY <1>2, <3>1
      <3>2. CASE reflectLast = Never
        <4>1. Unpaid + 1 <= 0
          BY <1>2, <3>2 DEF Rationed
        <4>2. (Unpaid + 1) * ReflectInterval <= 0 * ReflectInterval
          BY <1>2, <4>1, FewerTakeLess
        <4> QED
          BY <1>2, <4>2, Bounds
      <3>3. CASE reflectLast # Never /\ started - reflectLast >= ReflectInterval
        <4>1. Unpaid * ReflectInterval <= reflectLast /\ Unpaid * ReflectInterval \in Int
          BY <1>2, <3>3, Bounds DEF Rationed
        <4> QED
          BY <1>2, <2>3, <3>3, <4>1, Bounds
      <3> QED
        BY <1>7, <3>1, <3>2, <3>3 DEF ReflectDue
    <2>5. Unpaid' * ReflectInterval \in Int /\ (Unpaid + 1) * ReflectInterval \in Int
      BY <1>2, <1>3, Bounds
    <2>6. started # Never
      BY <1>2 DEF Never
    <2> QED
      BY <1>1, <1>2, <1>5, <1>7, <2>2, <2>4, <2>5, <2>6 DEF Rationed
  <1>8. \/ Unpaid' <= Unpaid /\ reflectLast' \in {reflectLast, started}
        \/ ReflectDue /\ granted' = granted + 1 /\ reflectLast' = started
    <2>1. \/ granted' = granted /\ reflectLast' = reflectLast
          \/ granted' = granted + 1 /\ k >= 1 /\ reflectLast' \in {reflectLast, started}
          \/ ReflectDue /\ granted' = granted + 1 /\ reflectLast' = started
      BY <1>4 DEF Gate, GrantReflect
    <2>2. faults' >= faults /\ (k >= 1 => faults' >= faults + 1)
      BY <1>2, <1>3, <1>4
    <2>3. granted' = granted => Unpaid' <= Unpaid
      BY <1>2, <1>3, <2>2, Differences DEF Unpaid
    <2>4. granted' = granted + 1 /\ k >= 1 => Unpaid' <= Unpaid
      BY <1>2, <1>3, <2>2, Differences DEF Unpaid
    <2> QED
      BY <2>1, <2>3, <2>4
  <1> QED
    BY <1>6, <1>7, <1>8

\* A wake opens at the second of the clock; a Reflect entry moves the cursor there.
LEMMA OpenRationed ==
  ASSUME TypeOK, TypeOK', Rationed, NEW s \in Stim, pc = "idle", Open(s)
  PROVE  Rationed'
  <1>1. /\ Unpaid \in Int /\ reflectLast \in Int /\ now \in Nat /\ granted \in Nat
        /\ faults \in Nat
    BY RationTypes
  <1>2. Unpaid' \in Int /\ Unpaid' <= Unpaid /\ UNCHANGED now
    BY <1>1 DEF Open, Fault, Unpaid
  <1>3. /\ reflectLast = Never => Unpaid' < 0
        /\ reflectLast # Never => Unpaid' * ReflectInterval <= reflectLast
        /\ Unpaid' * ReflectInterval <= IF reflectLast = Never THEN 0 ELSE reflectLast
    BY <1>2, RationKept
  <1>4. reflectLast <= now /\ now # Never /\ Unpaid' * ReflectInterval \in Int
    BY <1>1, <1>2, Bounds DEF Rationed, Never
  <1>5. reflectLast' \in {reflectLast, now} /\ (pc' # "idle" => started' = now)
    BY DEF Open
  <1> QED
    BY <1>1, <1>2, <1>3, <1>4, <1>5 DEF Rationed

\* Every step keeps the account of the grants.
LEMMA RationedStep == TypeOK /\ TypeOK' /\ Rationed /\ [Next]_vars => Rationed'
  <1> SUFFICES ASSUME TypeOK, TypeOK', Rationed, [Next]_vars PROVE Rationed'
    OBVIOUS
  <1>1. CASE UNCHANGED <<reflectLast, granted, faults, started>> /\ (pc' # "idle" => pc # "idle")
             /\ (now' = now \/ now' = now + 1)
    BY <1>1, RationTypes DEF Rationed, Unpaid
  <1>2. ASSUME NEW S, EndWake(S) PROVE Rationed'
    BY <1>2 DEF EndWake, Rationed, Unpaid
  <1>3. CASE Finish \/ StepFails \/ StepTimesOut \/ Crash
    BY <1>2, <1>3 DEF Finish, StepFails, StepTimesOut, Crash
  <1>4. CASE Tick \/ Act \/ StepEnds \/ Emitted \/ StartStep \/ UNCHANGED vars
    BY <1>1, <1>4 DEF Tick, Act, StepEnds, Emitted, StartStep, vars, durable, wake, history
  <1>5. ASSUME NEW v \in Server, Call(v) PROVE Rationed'
    BY <1>1, <1>5 DEF Call, durable, wake, history
  <1>6. ASSUME NEW seed \in Seeds, OpenRaw(seed) PROVE Rationed'
    BY <1>6, RawStimType, OpenRationed DEF OpenRaw, TypeOK
  <1>7. ASSUME NEW s \in queue, OpenQueued(s) PROVE Rationed'
    BY <1>7, OpenRationed DEF OpenQueued, TypeOK
  <1>8. ASSUME NEW to \in Prompt, NEW low \in BOOLEAN, Emit(to, low) PROVE Rationed'
    BY <1>8, EmitRationed
  <1> QED
    BY <1>3, <1>4, <1>5, <1>6, <1>7, <1>8 DEF Next, StepOver

\* Reflect is rationed over all wakes: whatever the batons, the retries and the crashes,
\* the grants beyond the first and beyond the failed cursor calls are an interval apart.
THEOREM ReflectIsRationed == Spec => []ReflectRationed
  <1>1. Init => Rationed
    BY DEF Init, Rationed, Unpaid, Never
  <1>2. TypeOK /\ Rationed => ReflectRationed
    <2> SUFFICES ASSUME TypeOK, Rationed PROVE Unpaid * ReflectInterval <= now
      BY DEF ReflectRationed, Unpaid
    <2>1. /\ Unpaid \in Int /\ reflectLast \in Int /\ now \in Nat
          /\ Unpaid * ReflectInterval \in Int
      BY RationTypes
    <2>2. CASE reflectLast = Never
      <3>1. Unpaid * ReflectInterval <= 0 * ReflectInterval
        BY <2>1, <2>2, FewerTakeLess DEF Rationed
      <3> QED
        BY <2>1, <3>1, Bounds
    <2>3. CASE reflectLast # Never
      BY <2>1, <2>3 DEF Rationed
    <2> QED
      BY <2>2, <2>3
  <1> QED
    BY <1>1, <1>2, TypeCorrect, RationedStep, PTL DEF Spec
----------------------------------------------------------------------------
(* The end of a continuation.                                              *)

\* The id of a raw stimulus is a number that was given out; a continuation has a row.
Registered(s) == /\ s.depth = 0 => \E r \in 1..raws : s.id = <<r>>
                 /\ s.depth > 0 => s.id \in ids

\* No two units of work that are still to end share an id, and none has the id of a
\* continuation that ended.
Distinct ==
  /\ \A i \in ids : Len(i) \notin {0, 1}
  /\ finished \subseteq ids
  /\ \A s \in queue : Registered(s) /\ s.id \notin finished
  /\ \A s, t \in queue : s.id = t.id => s = t
  /\ pc # "idle" => /\ Registered(stim) /\ stim.id \notin finished
                    /\ \A s \in queue : s.id # stim.id

\* A new raw stimulus has a number of its own.
LEMMA RawDistinct ==
  ASSUME TypeOK, Distinct, NEW seed \in Seeds, OpenRaw(seed)
  PROVE  Distinct'
  <1>0. PICK s : s = RawStim(seed)
    OBVIOUS
  <1>1. s.id = <<raws + 1>> /\ s.depth = 0 /\ raws \in Nat /\ raws' = raws + 1
    BY <1>0 DEF OpenRaw, RawStim, TypeOK
  <1>2. Len(s.id) = 1 /\ s.id \notin ids /\ \A r \in 1..raws : s.id # <<r>>
    <2>1. Len(s.id) = 1
      BY <1>1
    <2>2. \A r \in 1..raws : <<raws + 1>> # <<r>>
      BY <1>1
    <2> QED
      BY <1>1, <2>1, <2>2 DEF Distinct
  <1>3. \A t \in queue : t.id # s.id
    <2> SUFFICES ASSUME NEW t \in queue, t.id = s.id PROVE FALSE
      OBVIOUS
    <2>1. t.depth \in Nat /\ Registered(t)
      BY Bounds DEF TypeOK, Stim, Distinct
    <2>2. CASE t.depth = 0
      BY <1>2, <2>1, <2>2 DEF Registered
    <2>3. CASE t.depth > 0
      BY <1>2, <2>1, <2>3 DEF Registered
    <2> QED
      BY <2>1, <2>2, <2>3
  <1>4. s.id \notin finished
    BY <1>2 DEF Distinct
  <1>5. UNCHANGED <<queue, ids, finished>> /\ (pc' # "idle" => stim' = s)
    <2>1. ~IsContinuation(s) /\ UNCHANGED <<queue, ids>>
      BY <1>1 DEF IsContinuation, OpenRaw, Open
    <2>2. UNCHANGED finished
      BY <1>0, <2>1 DEF OpenRaw, Open
    <2>3. pc' # "idle" => stim' = s
      BY <1>0 DEF OpenRaw, Open
    <2> QED
      BY <2>1, <2>2, <2>3
  <1>6. \A t : Registered(t) => Registered(t)'
    <2> SUFFICES ASSUME NEW t, Registered(t) PROVE Registered(t)'
      OBVIOUS
    <2>1. \A r \in 1..raws : r \in 1..raws'
      BY <1>1
    <2> QED
      BY <1>5, <2>1 DEF Registered
  <1>7. Registered(s)'
    <2>1. raws + 1 \in 1..raws'
      BY <1>1
    <2> QED
      BY <1>1, <2>1 DEF Registered
  <1> QED
    BY <1>3, <1>4, <1>5, <1>6, <1>7 DEF Distinct

\* What is popped is gone from the queue, and nothing else there has its id.
LEMMA QueuedDistinct ==
  ASSUME TypeOK, Distinct, NEW s \in queue, OpenQueued(s)
  PROVE  Distinct'
  <1>1. queue' = queue \ {s} /\ UNCHANGED <<ids, raws>>
    BY DEF OpenQueued, Open
  <1>2. Registered(s) /\ s.id \notin finished /\ \A t \in queue' : t.id # s.id
    BY <1>1 DEF Distinct
  <1>3. \/ UNCHANGED finished /\ (pc' # "idle" => stim' = s)
        \/ IsContinuation(s) /\ finished' = finished \cup {s.id} /\ pc' = "idle"
    BY DEF OpenQueued, Open
  <1>4. \A t : Registered(t) => Registered(t)'
    BY <1>1 DEF Registered
  <1>5. IsContinuation(s) => s.id \in ids
    BY <1>2 DEF Registered, IsContinuation
  <1> QED
    BY <1>1, <1>2, <1>3, <1>4, <1>5 DEF Distinct

\* A wake ends: its stimulus goes back under its id, or ends for good.
LEMMA EndWakeDistinct ==
  ASSUME TypeOK, Distinct, pc # "idle", NEW S, EndWake(S),
         S = {} \/ \E s : S = {s} /\ s.id = stim.id /\ s.depth = stim.depth
  PROVE  Distinct'
  <1>1. /\ queue' = queue \cup S /\ UNCHANGED <<ids, raws>> /\ pc' = "idle"
        /\ finished' = IF S = {} /\ IsContinuation(stim) THEN finished \cup {stim.id}
                                                        ELSE finished
    BY DEF EndWake
  <1>2. Registered(stim) /\ stim.id \notin finished /\ \A s \in queue : s.id # stim.id
    BY DEF Distinct
  <1>3. \A t : Registered(t) => Registered(t)'
    BY <1>1 DEF Registered
  <1>4. CASE S = {}
    <2>1. IsContinuation(stim) => stim.id \in ids
      BY <1>2 DEF Registered, IsContinuation
    <2> QED
      BY <1>1, <1>2, <1>3, <1>4, <2>1 DEF Distinct
  <1>5. ASSUME NEW s, S = {s}, s.id = stim.id, s.depth = stim.depth PROVE Distinct'
    <2>1. Registered(s)'
      BY <1>2, <1>3, <1>5 DEF Registered
    <2> QED
      BY <1>1, <1>2, <1>3, <1>5, <2>1 DEF Distinct
  <1> QED
    BY <1>4, <1>5

\* A deferral under a used id is ignored; under a new one it is unlike all others.
LEMMA EmitDistinct ==
  ASSUME TypeOK, Distinct, NEW to \in Prompt, NEW low \in BOOLEAN, Emit(to, low)
  PROVE  Distinct'
  <1>0. PICK c : c = Continuation(to)
    OBVIOUS
  <1>1. UNCHANGED <<pc, stim, raws, finished>> /\ pc = "emit"
    BY DEF Emit
  <1>2. UNCHANGED <<queue, ids>> \/ Insert(c)
    BY <1>0 DEF Emit, Defer, RunInWake
  <1>3. CASE UNCHANGED <<queue, ids>>
    BY <1>1, <1>3 DEF Distinct, Registered
  <1>4. CASE c.id \notin ids /\ queue' = queue \cup {c} /\ ids' = ids \cup {c.id}
    <2>1. stim.id \in Seq(Nat) /\ stim.depth \in Nat /\ deferredSeq + 1 \in Nat
      BY Bounds DEF TypeOK, Stim
    <2>2. Registered(stim) /\ stim.id \notin finished
      BY <1>1 DEF Distinct
    <2>3. Len(stim.id) # 0 /\ Len(stim.id) \in Nat
      <3>1. stim.depth = 0 => Len(stim.id) = 1
        BY <2>2 DEF Registered
      <3>2. stim.depth > 0 => Len(stim.id) # 0
        BY <2>2 DEF Registered, Distinct
      <3>3. Len(stim.id) \in Nat
        BY <2>1, LenProperties
      <3> QED
        BY <2>1, <3>1, <3>2, <3>3
    <2>4. Len(c.id) \notin {0, 1}
      <3>1. Len(c.id) = Len(stim.id) + 1
        BY <1>0, <2>1, AppendProperties DEF Continuation
      <3> QED
        BY <2>3, <3>1
    <2>5. c.depth > 0
      BY <1>0, <2>1 DEF Continuation
    <2>6. ASSUME NEW s, s.depth \in Nat, Registered(s) PROVE s.id # c.id
      <3>1. CASE s.depth = 0
        <4>1. Len(s.id) = 1
          BY <2>6, <3>1 DEF Registered
        <4> QED
          BY <2>4, <4>1
      <3>2. CASE s.depth > 0
        BY <1>4, <2>6, <3>2 DEF Registered
      <3> QED
        BY <2>6, <3>1, <3>2
    <2>7. \A s \in queue : s.depth \in Nat
      BY Bounds DEF TypeOK, Stim
    <2>8. stim.id # c.id /\ \A s \in queue : s.id # c.id
      BY <2>1, <2>2, <2>6, <2>7 DEF Distinct
    <2>9. c.id \notin finished
      BY <1>4 DEF Distinct
    <2>10. Registered(c)' /\ \A s : Registered(s) => Registered(s)'
      BY <1>1, <1>4, <2>5 DEF Registered
    <2> QED
      BY <1>1, <1>4, <2>4, <2>8, <2>9, <2>10 DEF Distinct
  <1> QED
    BY <1>2, <1>3, <1>4 DEF Insert

\* Every step keeps units of work apart.
LEMMA DistinctStep == TypeOK /\ Distinct /\ [Next]_vars => Distinct'
  <1> SUFFICES ASSUME TypeOK, Distinct, [Next]_vars PROVE Distinct'
    OBVIOUS
  <1>1. CASE UNCHANGED <<queue, ids, finished, stim, raws>> /\ (pc' # "idle" => pc # "idle")
    BY <1>1 DEF Distinct, Registered
  <1>2. CASE Tick \/ Act \/ StepEnds \/ Emitted \/ StartStep \/ UNCHANGED vars
    BY <1>1, <1>2 DEF Tick, Act, StepEnds, Emitted, StartStep, vars, durable, wake, history
  <1>3. ASSUME NEW v \in Server, Call(v) PROVE Distinct'
    BY <1>1, <1>3 DEF Call, durable, wake, history
  <1>4. CASE Finish \/ StepFails
    BY <1>4, EndWakeDistinct DEF Finish, StepFails
  <1>5. CASE StepTimesOut
    <2>1. ASSUME NEW S, S = {} \/ S = Retried
          PROVE  S = {} \/ \E s : S = {s} /\ s.id = stim.id /\ s.depth = stim.depth
      <3>1. stim \in Stim
        BY DEF TypeOK
      <3> DEFINE again == [stim EXCEPT !.attempts = @ + 1]
      <3>2. Retried = {again} /\ again.id = stim.id /\ again.depth = stim.depth
        BY <3>1 DEF Retried, Stim
      <3> QED
        BY <2>1, <3>2
    <2> QED
      BY <1>5, <2>1, EndWakeDistinct DEF StepTimesOut
  <1>6. CASE Crash
    BY <1>6, EndWakeDistinct DEF Crash
  <1>7. ASSUME NEW seed \in Seeds, OpenRaw(seed) PROVE Distinct'
    BY <1>7, RawDistinct
  <1>8. ASSUME NEW s \in queue, OpenQueued(s) PROVE Distinct'
    BY <1>8, QueuedDistinct
  <1>9. ASSUME NEW to \in Prompt, NEW low \in BOOLEAN, Emit(to, low) PROVE Distinct'
    BY <1>9, EmitDistinct
  <1> QED
    BY <1>2, <1>3, <1>4, <1>5, <1>6, <1>7, <1>8, <1>9 DEF Next, StepOver

\* A continuation that ended does not come back, however often the wake that deferred it
\* is run again after a timeout or a crash.
THEOREM ContinuationsEndOnce == Spec => []ContinuationEndsOnce
  <1>1. Init => Distinct
    BY DEF Init, Distinct
  <1>2. Distinct => ContinuationEndsOnce
    BY DEF Distinct, ContinuationEndsOnce
  <1> QED
    BY <1>1, <1>2, TypeCorrect, DistinctStep, PTL DEF Spec

----------------------------------------------------------------------------
(* Wakes: what a unit of work is, seen from the loop.                      *)

\* Sequence numbers of deferrals within one wake.
Deferrals == 1..(MaxSteps * MaxWidth)

\* A deferral of a unit whose lineage may still defer is a unit.
LEMMA UnitIds ==
  /\ \A r \in Raw : <<r>> \in UnitId
  /\ \A u \in UnitId : u \in Seq(Nat) /\ Len(u) \in 1..(MaxDepth + 1)
  /\ <<>> \notin UnitId
  /\ \A u \in UnitId, x \in Deferrals : Len(u) <= MaxDepth => Append(u, x) \in UnitId
  <1> DEFINE top == MaxRaw + MaxSteps * MaxWidth
  <1>1. MaxRaw \in Nat /\ MaxSteps * MaxWidth \in Nat /\ top \in Nat /\ MaxDepth \in Nat
    BY BoundAssumption
  <1>2. Raw \subseteq 1..top /\ Deferrals \subseteq 1..top
    BY <1>1 DEF Raw, Deferrals
  <1>3. \A u \in UnitId : \E n \in 1..(MaxDepth + 1) : u \in [1..n -> 1..top]
    BY DEF UnitId
  <1>4. ASSUME NEW u, NEW n \in 1..(MaxDepth + 1), u \in [1..n -> 1..top], u[1] \in Raw,
               \A k \in 2..n : u[k] \in Deferrals
        PROVE  u \in UnitId
    <2>1. Len(u) = n
      BY <1>1, <1>4
    <2>2. u \in UNION {[1..m -> 1..top] : m \in 1..(MaxDepth + 1)}
      BY <1>4
    <2> QED
      BY <1>4, <2>1, <2>2 DEF UnitId, Deferrals
  <1>5. ASSUME NEW r \in Raw PROVE <<r>> \in UnitId
    <2>1. <<r>> \in [1..1 -> 1..top] /\ <<r>>[1] \in Raw /\ \A k \in 2..1 : <<r>>[k] \in Deferrals
      BY <1>2
    <2>2. 1 \in 1..(MaxDepth + 1)
      BY <1>1
    <2> HIDE DEF top
    <2> QED
      BY <1>4, <2>1, <2>2
  <1>6. ASSUME NEW u \in UnitId
        PROVE  u \in Seq(Nat) /\ Len(u) \in 1..(MaxDepth + 1)
    <2>1. PICK n \in 1..(MaxDepth + 1) : u \in [1..n -> 1..top]
      BY <1>3
    <2>2. 1..top \subseteq Nat /\ n \in Nat
      BY <1>1
    <2> HIDE DEF top
    <2>3. u \in Seq(Nat) /\ Len(u) = n
      BY <2>1, <2>2
    <2> QED
      BY <2>3
  <1>7. <<>> \notin UnitId
    BY <1>1, <1>6
  <1>8. ASSUME NEW u \in UnitId, NEW x \in Deferrals, Len(u) <= MaxDepth
        PROVE  Append(u, x) \in UnitId
    <2>1. PICK n \in 1..(MaxDepth + 1) : u \in [1..n -> 1..top]
      BY <1>3
    <2>2. Len(u) = n /\ u[1] \in Raw /\ \A k \in 2..n : u[k] \in Deferrals
      BY <1>1, <2>1 DEF UnitId, Deferrals
    <2>0. PICK v : v = Append(u, x)
      OBVIOUS
    <2>3. n + 1 \in 1..(MaxDepth + 1) /\ n \in Nat /\ n >= 1 /\ x \in 1..top
      BY <1>1, <1>2, <1>8, <2>2
    <2> HIDE DEF top
    <2>4. u \in Seq(1..top)
      BY <2>1, <2>3, SeqDef
    <2>5. /\ v \in Seq(1..top) /\ Len(v) = n + 1 /\ v[n + 1] = x
          /\ \A k \in 1..n : v[k] = u[k]
      BY <2>0, <2>2, <2>3, <2>4, AppendProperties
    <2>6. v \in [1..(n + 1) -> 1..top]
      BY <2>3, <2>5, LenProperties
    <2>7. v[1] \in Raw /\ \A k \in 2..(n + 1) : v[k] \in Deferrals
      BY <1>8, <2>2, <2>3, <2>5
    <2>8. v \in UnitId
      BY <1>4, <2>3, <2>6, <2>7
    <2> QED
      BY <2>0, <2>8
  <1> QED
    BY <1>5, <1>6, <1>7, <1>8

\* What is in the queue or in the wake is a unit, one entry longer than it is deep; a
\* step has at most MaxWidth deferrals and a wake MaxSteps steps; an idle loop counts
\* from the start again.
Numbered ==
  /\ raws <= MaxRaw
  /\ \A s \in queue : s.id \in UnitId /\ Len(s.id) = s.depth + 1
  /\ pc # "idle" => stim.id \in UnitId /\ Len(stim.id) = stim.depth + 1
  /\ pc = "idle" => deferredSeq = 0 /\ steps = 0 /\ emitted = 0 /\ ~unretryable
  /\ steps <= MaxSteps
  /\ pc = "next" => emitted = 0 /\ deferredSeq <= steps * MaxWidth
  /\ pc = "run" => emitted = 0 /\ deferredSeq + MaxWidth <= steps * MaxWidth
  /\ pc = "emit" => emitted <= MaxWidth /\ deferredSeq + MaxWidth <= steps * MaxWidth + emitted

\* One step more leaves room for MaxWidth more deferrals.
LEMMA StepsTakeWidth ==
  /\ \A n \in Nat : n * MaxWidth \in Nat /\ (n + 1) * MaxWidth = n * MaxWidth + MaxWidth
  /\ \A n \in Nat : n <= MaxSteps => n * MaxWidth <= MaxSteps * MaxWidth
  <1>1. MaxSteps \in Nat /\ MaxWidth \in Nat
    BY Bounds
  <1>2. ASSUME NEW n \in Nat
        PROVE  n * MaxWidth \in Nat /\ (n + 1) * MaxWidth = n * MaxWidth + MaxWidth
    BY <1>1
  <1>3. ASSUME NEW n \in Nat, n <= MaxSteps PROVE n * MaxWidth <= MaxSteps * MaxWidth
    <2>1. MaxSteps - n \in Nat
          /\ MaxSteps * MaxWidth = n * MaxWidth + (MaxSteps - n) * MaxWidth
      BY <1>1, <1>3
    <2>2. (MaxSteps - n) * MaxWidth \in Nat
      BY <1>1, <2>1
    <2>3. n * MaxWidth \in Nat /\ MaxSteps * MaxWidth \in Nat
      BY <1>1
    <2> QED
      BY <2>1, <2>2, <2>3
  <1> QED
    BY <1>2, <1>3

\* What a step of the wake defers is a unit of its own.
LEMMA ContinuationId ==
  ASSUME TypeOK, Numbered, pc = "emit", emitted < MaxWidth, MayDefer, NEW to \in Prompt
  PROVE  Continuation(to).id \in UnitId /\ Len(Continuation(to).id) = Continuation(to).depth + 1
  <1>1. /\ stim.id \in UnitId /\ stim.id \in Seq(Nat) /\ Len(stim.id) = stim.depth + 1
        /\ stim.depth \in Nat /\ stim.depth < MaxDepth
    BY Bounds DEF Numbered, TypeOK, Stim, MayDefer
  <1>2. steps * MaxWidth \in Nat /\ steps * MaxWidth <= MaxSteps * MaxWidth
        /\ MaxSteps * MaxWidth \in Nat
    BY StepsTakeWidth, Bounds DEF TypeOK, Numbered
  <1>3. deferredSeq + 1 \in Deferrals
    <2>1. PICK m, l : m = steps * MaxWidth /\ l = MaxSteps * MaxWidth
      OBVIOUS
    <2>2. deferredSeq + MaxWidth <= m + emitted /\ m <= l /\ m \in Nat /\ l \in Nat
      BY <1>2, <2>1 DEF Numbered
    <2>3. deferredSeq + 1 \in 1..l
      BY <2>2, Bounds DEF TypeOK
    <2> QED
      BY <2>1, <2>3 DEF Deferrals
  <1>4. Append(stim.id, deferredSeq + 1) \in UnitId
    BY <1>1, <1>3, UnitIds, Bounds
  <1>5. Len(Append(stim.id, deferredSeq + 1)) = stim.depth + 1 + 1
    BY <1>1, AppendProperties DEF TypeOK
  <1> QED
    BY <1>4, <1>5 DEF Continuation

\* A wake that ends puts back its own unit or nothing.
LEMMA PutBack ==
  ASSUME TypeOK, NEW S, S \in {{}, Retried, {stim}}
  PROVE  S = {} \/ \E s : S = {s} /\ s.id = stim.id /\ s.depth = stim.depth
  <1> DEFINE again == [stim EXCEPT !.attempts = @ + 1]
  <1>1. Retried = {again} /\ again.id = stim.id /\ again.depth = stim.depth
    BY DEF Retried, TypeOK, Stim
  <1> QED
    BY <1>1

\* A wake opens or is dropped with the counts of an idle loop.
LEMMA OpenNumbered ==
  ASSUME TypeOK, Numbered, pc = "idle", raws' \in Nat, raws' <= MaxRaw,
         NEW s, s.id \in UnitId, Len(s.id) = s.depth + 1, Open(s), queue' \subseteq queue
  PROVE  Numbered'
  <1>1. UNCHANGED <<steps, deferredSeq, emitted, unretryable>>
    BY DEF Open, step
  <1>2. (pc' = "next" /\ stim' = s) \/ pc' = "idle"
    BY DEF Open
  <1>3. 0 * MaxWidth = 0 /\ 0 <= MaxSteps
    BY Bounds
  <1> QED
    BY <1>1, <1>2, <1>3 DEF Numbered

\* Every step counts within the bounds.
LEMMA NumberedStep == TypeOK /\ Numbered /\ [Next]_vars => Numbered'
  <1> SUFFICES ASSUME TypeOK, Numbered, [Next]_vars PROVE Numbered'
    OBVIOUS
  <1>0. /\ steps \in Nat /\ deferredSeq \in Nat /\ emitted \in Nat /\ raws \in Nat
        /\ MaxWidth \in Nat /\ steps * MaxWidth \in Nat
    BY StepsTakeWidth, Bounds DEF TypeOK
  <1>1. CASE Tick \/ UNCHANGED vars
    BY <1>1 DEF Tick, vars, durable, wake, step, Numbered
  <1>2. ASSUME NEW v \in Server, Call(v) PROVE Numbered'
    BY <1>2 DEF Call, durable, wake, Numbered
  <1>3. CASE Act
    BY <1>3 DEF Act, durable, step, Numbered
  <1>4. CASE StepEnds
    <2>1. UNCHANGED <<raws, queue, stim, steps, deferredSeq, emitted>> /\ pc = "run" /\ pc' = "emit"
      BY <1>4 DEF StepEnds, durable
    <2>2. emitted = 0
      BY <2>1 DEF Numbered
    <2> QED
      BY <1>0, <2>1, <2>2 DEF Numbered
  <1>5. CASE Emitted
    <2>1. /\ UNCHANGED <<raws, queue, stim, steps, deferredSeq>>
          /\ pc = "emit" /\ pc' = "next" /\ emitted' = 0
      BY <1>5 DEF Emitted, durable, wake
    <2>2. PICK m : m = steps * MaxWidth
      OBVIOUS
    <2>3. deferredSeq + MaxWidth <= m + emitted /\ emitted <= MaxWidth
      BY <2>1, <2>2 DEF Numbered
    <2>4. deferredSeq <= m
      BY <1>0, <2>2, <2>3
    <2> QED
      BY <2>1, <2>2, <2>4 DEF Numbered
  <1>6. CASE StartStep
    <2>1. /\ UNCHANGED <<raws, queue, stim, deferredSeq, emitted>>
          /\ pc = "next" /\ pc' = "run" /\ steps' = steps + 1 /\ steps < MaxSteps
      BY <1>6 DEF StartStep, durable
    <2>2. PICK m : m = steps * MaxWidth
      OBVIOUS
    <2>3. deferredSeq <= m /\ emitted = 0 /\ steps' * MaxWidth = m + MaxWidth
      BY <1>0, <2>1, <2>2, StepsTakeWidth DEF Numbered
    <2>4. deferredSeq + MaxWidth <= m + MaxWidth /\ steps + 1 <= MaxSteps
      BY <1>0, <2>1, <2>2, <2>3, Bounds
    <2> QED
      BY <2>1, <2>3, <2>4 DEF Numbered
  <1>7. CASE Finish \/ StepFails \/ StepTimesOut \/ Crash
    <2>1. PICK S : EndWake(S) /\ S \in {{}, Retried, {stim}} /\ pc # "idle"
      BY <1>7 DEF Finish, StepFails, StepTimesOut, Crash
    <2>2. S = {} \/ \E s : S = {s} /\ s.id = stim.id /\ s.depth = stim.depth
      BY <2>1, PutBack
    <2>3. \A s \in queue' : s.id \in UnitId /\ Len(s.id) = s.depth + 1
      BY <2>1, <2>2 DEF EndWake, Numbered
    <2> QED
      BY <1>0, <2>1, <2>3, Bounds DEF EndWake, Numbered
  <1>8. ASSUME NEW seed \in Seeds, OpenRaw(seed) PROVE Numbered'
    <2>1. PICK s : s = RawStim(seed)
      OBVIOUS
    <2>2. s.id = <<raws + 1>> /\ s.depth = 0 /\ raws + 1 \in Raw
      BY <1>0, <1>8, <2>1, BoundAssumption DEF OpenRaw, RawStim, Raw
    <2>3. s.id \in UnitId /\ Len(s.id) = 1
      BY <2>2, UnitIds
    <2>4. pc = "idle" /\ queue' \subseteq queue /\ raws' = raws + 1 /\ Open(s)
      BY <1>8, <2>1 DEF OpenRaw
    <2>5. raws' \in Nat /\ raws' <= MaxRaw /\ Len(s.id) = s.depth + 1
      BY <2>2, <2>3, <2>4, BoundAssumption DEF Raw
    <2> QED
      BY <2>3, <2>4, <2>5, OpenNumbered
  <1>9. ASSUME NEW s \in queue, OpenQueued(s) PROVE Numbered'
    <2>1. s.id \in UnitId /\ Len(s.id) = s.depth + 1 /\ raws <= MaxRaw
      BY DEF Numbered
    <2> QED
      BY <1>0, <1>9, <2>1, OpenNumbered DEF OpenQueued
  <1>10. ASSUME NEW to \in Prompt, NEW low \in BOOLEAN, Emit(to, low) PROVE Numbered'
    <2>1. /\ UNCHANGED <<raws, pc, stim, steps>>
          /\ pc = "emit" /\ emitted < MaxWidth /\ emitted' = emitted + 1
      BY <1>10 DEF Emit
    <2>2. deferredSeq' \in {deferredSeq, deferredSeq + 1}
      BY <1>10 DEF Emit, Defer, RunInWake
    <2>3. UNCHANGED queue \/ (MayDefer /\ queue' = queue \cup {Continuation(to)})
      BY <1>10 DEF Emit, Defer, RunInWake, Insert
    <2>4. \A s \in queue' : s.id \in UnitId /\ Len(s.id) = s.depth + 1
      BY <2>1, <2>3, ContinuationId DEF Numbered
    <2>5. PICK m : m = steps * MaxWidth
      OBVIOUS
    <2>6. deferredSeq + MaxWidth <= m + emitted
      BY <2>1, <2>5 DEF Numbered
    <2>7. emitted + 1 <= MaxWidth /\ deferredSeq' + MaxWidth <= m + (emitted + 1)
      <3>1. emitted < MaxWidth /\ m \in Nat
        BY <1>0, <2>1, <2>5
      <3>2. deferredSeq' = deferredSeq \/ deferredSeq' = deferredSeq + 1
        BY <2>2
      <3> QED
        BY <1>0, <2>6, <3>1, <3>2
    <2> QED
      BY <2>1, <2>4, <2>5, <2>7 DEF Numbered
  <1> QED
    BY <1>1, <1>2, <1>3, <1>4, <1>5, <1>6, <1>7, <1>8, <1>9, <1>10 DEF Next, StepOver

\* What the mapping says of a unit that runs, of one that waits, and of any other.
Views ==
  \A u \in UnitId :
    /\ Running(u) => Life(u) = "live" /\ Tries(u) = stim.attempts
    /\ \A s \in queue : s.id = u => Life(u) = "live" /\ Tries(u) = s.attempts
    /\ ~Running(u) /\ (\A s \in queue : s.id # u) =>
         Tries(u) = 0 /\ Life(u) = IF Known(u) THEN "ended" ELSE "none"

\* No unit is doubled.
LEMMA ViewsHold == Distinct => Views
  <1> SUFFICES ASSUME Distinct, NEW u \in UnitId
               PROVE  /\ Running(u) => Life(u) = "live" /\ Tries(u) = stim.attempts
                      /\ \A s \in queue : s.id = u => Life(u) = "live" /\ Tries(u) = s.attempts
                      /\ ~Running(u) /\ (\A s \in queue : s.id # u) =>
                           Tries(u) = 0 /\ Life(u) = IF Known(u) THEN "ended" ELSE "none"
    BY DEF Views
  <1>1. ASSUME Running(u) PROVE Life(u) = "live" /\ Tries(u) = stim.attempts
    <2>1. Waiting(u) = {}
      BY <1>1 DEF Waiting, Running, Distinct
    <2> QED
      BY <1>1, <2>1 DEF Life, Tries
  <1>2. ASSUME NEW s \in queue, s.id = u PROVE Life(u) = "live" /\ Tries(u) = s.attempts
    <2>1. Waiting(u) = {s} /\ ~Running(u)
      BY <1>2 DEF Waiting, Running, Distinct
    <2>2. Life(u) = "live"
      BY <2>1 DEF Life
    <2>3. (CHOOSE t \in Waiting(u) : TRUE) = s
      BY <2>1
    <2> QED
      BY <2>1, <2>2, <2>3 DEF Tries
  <1>3. ASSUME ~Running(u), \A s \in queue : s.id # u
        PROVE  Tries(u) = 0 /\ Life(u) = IF Known(u) THEN "ended" ELSE "none"
    <2>1. Waiting(u) = {}
      BY <1>3 DEF Waiting
    <2>2. ~(\E s \in queue : Waiting(u) = {s})
      BY <2>1
    <2> QED
      BY <1>3, <2>1, <2>2 DEF Life, Tries
  <1> QED
    BY <1>1, <1>2, <1>3

\* A unit that runs, waits and is known as before lives as before.
LEMMA LifeKept ==
  ASSUME NEW u \in UnitId, Running(u)' <=> Running(u), Running(u) => UNCHANGED stim,
         Waiting(u)' = Waiting(u), Known(u)' <=> Known(u)
  PROVE  Life(u)' = Life(u) /\ Tries(u)' = Tries(u)
  <1>2. (\E s \in queue : Waiting(u) = {s}) <=> (\E s \in Waiting(u) : Waiting(u) = {s})
    BY DEF Waiting
  <1>3. (\E s \in queue' : Waiting(u)' = {s}) <=> (\E s \in Waiting(u)' : Waiting(u)' = {s})
    BY DEF Waiting
  <1>4. (\E s \in queue : Waiting(u) = {s}) <=> (\E s \in queue' : Waiting(u)' = {s})
    BY <1>2, <1>3
  <1>5. Life(u)' = Life(u)
    BY <1>4 DEF Life
  <1>6. Tries(u)' = Tries(u)
    BY DEF Tries
  <1> QED
    BY <1>5, <1>6

\* Steps inside a wake change no unit's life.
LEMMA InsideWake ==
  ASSUME UNCHANGED <<queue, ids, raws, stim>>, pc' = "idle" <=> pc = "idle"
  PROVE  \A u \in UnitId : Life(u)' = Life(u) /\ Tries(u)' = Tries(u)
  <1> SUFFICES ASSUME NEW u \in UnitId PROVE Life(u)' = Life(u) /\ Tries(u)' = Tries(u)
    OBVIOUS
  <1>1. (Running(u)' <=> Running(u)) /\ (Known(u)' <=> Known(u))
    BY DEF Running, Known
  <1>2. Waiting(u)' = Waiting(u)
    BY DEF Waiting
  <1> QED
    BY <1>1, <1>2, LifeKept

\* A step inside a wake maps to a stutter, or marks the wake.
LEMMA InsideWakeMaps ==
  ASSUME TypeOK, Numbered, UNCHANGED <<queue, ids, raws, stim>>, pc' = "idle" <=> pc = "idle",
         UNCHANGED unretryable \/ (pc # "idle" /\ unretryable' = TRUE)
  PROVE  [Wakes!Next]_(Wakes!vars)
  <1>1. \A u \in UnitId : Life(u)' = Life(u) /\ Tries(u)' = Tries(u)
    BY InsideWake
  <1>2. UNCHANGED <<[u \in UnitId |-> Life(u)], [u \in UnitId |-> Tries(u)],
                    IF pc = "idle" THEN <<>> ELSE stim.id>>
    BY <1>1
  <1>3. CASE UNCHANGED unretryable
    BY <1>2, <1>3 DEF Wakes!vars
  <1>4. CASE pc # "idle" /\ unretryable' = TRUE
    <2>1. stim.id # <<>>
      BY <1>4, UnitIds DEF Numbered
    <2>2. Wakes!Mark
      BY <1>2, <1>4, <2>1 DEF Wakes!Mark
    <2> QED
      BY <2>2 DEF Wakes!Next
  <1> QED
    BY <1>3, <1>4

\* A unit that is opened is opened, or dismissed at once.
LEMMA OpenMaps ==
  ASSUME Distinct', Numbered, pc = "idle", NEW s, s.id \in UnitId, Open(s),
         Life(s.id) \in {"none", "live"}, Tries(s.id) = s.attempts,
         \A t \in queue' : t.id # s.id, Known(s.id)',
         \A u \in UnitId : u # s.id => Waiting(u)' = Waiting(u) /\ (Known(u)' <=> Known(u))
  PROVE  [Wakes!Next]_(Wakes!vars)
  <1>1. Views'
    BY ViewsHold, PTL
  <1>2. UNCHANGED unretryable
    BY DEF Open
  <1>3. CASE pc' = "next" /\ stim' = s
    <2>1. Running(s.id)'
      BY <1>3 DEF Running
    <2>2. Life(s.id)' = "live" /\ Tries(s.id)' = s.attempts
      BY <1>1, <1>3, <2>1 DEF Views
    <2>3. ASSUME NEW u \in UnitId, u # s.id PROVE Life(u)' = Life(u) /\ Tries(u)' = Tries(u)
      <3>1. ~Running(u) /\ ~Running(u)'
        BY <1>3, <2>3 DEF Running
      <3> QED
        BY <2>3, <3>1, LifeKept
    <2>4. Wakes!Open(s.id)
      BY <1>2, <1>3, <2>2, <2>3 DEF Wakes!Open
    <2> QED
      BY <2>4 DEF Wakes!Next
  <1>4. CASE pc' = "idle"
    <2>1. ~Running(s.id)'
      BY <1>4 DEF Running
    <2>2. Life(s.id)' = "ended" /\ Tries(s.id)' = 0
      BY <1>1, <2>1 DEF Views
    <2>3. ASSUME NEW u \in UnitId, u # s.id PROVE Life(u)' = Life(u) /\ Tries(u)' = Tries(u)
      <3>1. ~Running(u) /\ ~Running(u)'
        BY <1>4 DEF Running
      <3> QED
        BY <2>3, <3>1, LifeKept
    <2>4. Wakes!Dismiss(s.id)
      BY <1>2, <1>4, <2>2, <2>3 DEF Wakes!Dismiss
    <2> QED
      BY <2>4 DEF Wakes!Next
  <1> QED
    BY <1>3, <1>4 DEF Open

\* A raw stimulus is new.
LEMMA OpenRawMaps ==
  ASSUME TypeOK, Distinct, Distinct', Numbered, NEW seed \in Seeds, OpenRaw(seed)
  PROVE  [Wakes!Next]_(Wakes!vars)
  <1>0. PICK s : s = RawStim(seed)
    OBVIOUS
  <1>1. /\ s.id = <<raws + 1>> /\ s.attempts = 0 /\ raws \in Nat /\ raws' = raws + 1 /\ raws < MaxRaw
        /\ pc = "idle" /\ UNCHANGED <<queue, ids>> /\ Open(s)
    BY <1>0 DEF OpenRaw, Open, RawStim, TypeOK
  <1>2. s.id \in UnitId /\ Len(s.id) = 1
    <2>1. raws + 1 \in Raw
      BY <1>1, BoundAssumption DEF Raw
    <2> QED
      BY <1>1, <2>1, UnitIds
  <1>3. ~Known(s.id) /\ Known(s.id)'
    <2>1. s.id \notin ids
      BY <1>2 DEF Distinct
    <2>2. \A r \in 1..raws : <<raws + 1>> # <<r>>
      BY <1>1
    <2>3. raws + 1 \in 1..raws'
      BY <1>1
    <2> QED
      BY <1>1, <2>1, <2>2, <2>3 DEF Known
  <1>4. \A t \in queue : t.id # s.id
    <2> SUFFICES ASSUME NEW t \in queue, t.id = s.id PROVE FALSE
      OBVIOUS
    <2>1. t.depth \in Nat /\ Registered(t)
      BY Bounds DEF TypeOK, Stim, Distinct
    <2>2. Known(t.id)
      BY <2>1 DEF Registered, Known
    <2> QED
      BY <1>3, <2>2
  <1>5. Life(s.id) = "none" /\ Tries(s.id) = s.attempts
    <2>1. ~Running(s.id)
      BY <1>1 DEF Running
    <2> QED
      BY <1>1, <1>2, <1>3, <1>4, <2>1, ViewsHold DEF Views
  <1>6. ASSUME NEW u \in UnitId, u # s.id
        PROVE  Waiting(u)' = Waiting(u) /\ (Known(u)' <=> Known(u))
    <2>1. 1..raws' = (1..raws) \cup {raws + 1}
      BY <1>1
    <2> QED
      BY <1>1, <1>6, <2>1 DEF Waiting, Known
  <1> QED
    BY <1>1, <1>2, <1>3, <1>4, <1>5, <1>6, OpenMaps

\* A unit that waited is opened as it waited.
LEMMA OpenQueuedMaps ==
  ASSUME TypeOK, Distinct, Distinct', Numbered, NEW s \in queue, OpenQueued(s)
  PROVE  [Wakes!Next]_(Wakes!vars)
  <1>1. pc = "idle" /\ queue' = queue \ {s} /\ UNCHANGED <<ids, raws>> /\ Open(s)
    BY DEF OpenQueued, Open
  <1>2. s.id \in UnitId
    BY DEF Numbered
  <1>3. Life(s.id) = "live" /\ Tries(s.id) = s.attempts
    BY <1>2, ViewsHold DEF Views
  <1>4. \A t \in queue' : t.id # s.id
    BY <1>1 DEF Distinct
  <1>5. Known(s.id)'
    <2>1. s.depth \in Nat /\ Registered(s)
      BY Bounds DEF TypeOK, Stim, Distinct
    <2> QED
      BY <1>1, <2>1 DEF Registered, Known
  <1>6. ASSUME NEW u \in UnitId, u # s.id
        PROVE  Waiting(u)' = Waiting(u) /\ (Known(u)' <=> Known(u))
    BY <1>1, <1>6 DEF Waiting, Known
  <1> QED
    BY <1>1, <1>2, <1>3, <1>4, <1>5, <1>6, OpenMaps

\* A wake's unit ends, is put back with one try more, or is lost with the process.
LEMMA EndWakeMaps ==
  ASSUME TypeOK, Distinct, Distinct', Numbered, Numbered', pc # "idle",
         NEW S, EndWake(S),
         \/ S = {} \/ S = {stim}
         \/ S = Retried /\ ~unretryable /\ stim.attempts < MaxRetries
  PROVE  [Wakes!Next]_(Wakes!vars)
  <1>0. PICK i, n : i = stim.id /\ n = stim.attempts
    OBVIOUS
  <1>1. /\ queue' = queue \cup S /\ UNCHANGED <<ids, raws>>
        /\ pc' = "idle" /\ unretryable' = FALSE
    BY DEF EndWake
  <1>2. i \in UnitId /\ i # <<>>
    BY <1>0, UnitIds DEF Numbered
  <1>3. Views /\ Views'
    <2>1. Views
      BY ViewsHold
    <2>2. Views'
      BY ViewsHold, PTL
    <2> QED
      BY <2>1, <2>2
  <1>4. Life(i) = "live" /\ Tries(i) = n /\ ~Running(i)'
    BY <1>0, <1>1, <1>2, <1>3 DEF Views, Running
  <1>5. \A s \in S : s.id = i
    BY <1>0, PutBack
  <1>6. ASSUME NEW u \in UnitId, u # i PROVE Life(u)' = Life(u) /\ Tries(u)' = Tries(u)
    <2>1. ~Running(u) /\ ~Running(u)'
      BY <1>0, <1>1, <1>6 DEF Running
    <2>2. Waiting(u)' = Waiting(u)
      BY <1>1, <1>5, <1>6 DEF Waiting
    <2>3. Known(u)' <=> Known(u)
      BY <1>1 DEF Known
    <2> QED
      BY <2>1, <2>2, <2>3, LifeKept
  <1>7. CASE S = {}
    <2>1. Known(i)'
      <3>1. stim.depth \in Nat /\ Registered(stim)
        BY Bounds DEF TypeOK, Stim, Distinct
      <3> QED
        BY <1>0, <1>1, <3>1 DEF Registered, Known
    <2>2. \A s \in queue' : s.id # i
      BY <1>0, <1>1, <1>7 DEF Distinct
    <2>3. Life(i)' = "ended" /\ Tries(i)' = 0
      BY <1>2, <1>3, <1>4, <2>1, <2>2 DEF Views
    <2>4. Wakes!End
      BY <1>0, <1>1, <1>2, <1>6, <2>3 DEF Wakes!End, Wakes!Over
    <2> QED
      BY <2>4 DEF Wakes!Next
  <1>8. CASE S = {stim}
    <2>1. Life(i)' = "live" /\ Tries(i)' = n
      BY <1>0, <1>1, <1>2, <1>3, <1>8 DEF Views
    <2>2. Wakes!Lose
      BY <1>0, <1>1, <1>2, <1>4, <1>6, <2>1 DEF Wakes!Lose, Wakes!Over
    <2> QED
      BY <2>2 DEF Wakes!Next
  <1>9. CASE S = Retried /\ ~unretryable /\ stim.attempts < MaxRetries
    <2> DEFINE again == [stim EXCEPT !.attempts = @ + 1]
    <2>0. again.id = i /\ again.attempts = n + 1
      BY <1>0 DEF TypeOK, Stim
    <2>1. PICK s : S = {s} /\ s.id = i /\ s.attempts = n + 1
      BY <1>9, <2>0 DEF Retried
    <2> HIDE DEF again
    <2>2. Life(i)' = "live" /\ Tries(i)' = n + 1
      BY <1>1, <1>2, <1>3, <2>1 DEF Views
    <2>3. Wakes!Retry
      BY <1>0, <1>1, <1>2, <1>4, <1>6, <1>9, <2>2 DEF Wakes!Retry, Wakes!Over
    <2> QED
      BY <2>3 DEF Wakes!Next
  <1> QED
    BY <1>7, <1>8, <1>9

\* What a baton defers arrives, unless its id has a row.
LEMMA EmitMaps ==
  ASSUME TypeOK, Distinct, Distinct', Numbered,
         NEW to \in Prompt, NEW low \in BOOLEAN, Emit(to, low)
  PROVE  [Wakes!Next]_(Wakes!vars)
  <1>0. PICK c : c = Continuation(to)
    OBVIOUS
  <1>1. UNCHANGED <<pc, stim, raws, unretryable>> /\ pc = "emit" /\ emitted < MaxWidth
    BY DEF Emit
  <1>2. UNCHANGED <<queue, ids>> \/ (MayDefer /\ Insert(c))
    BY <1>0 DEF Emit, Defer, RunInWake
  <1>3. CASE UNCHANGED <<queue, ids>>
    BY <1>1, <1>3, InsideWakeMaps
  <1>4. CASE MayDefer /\ c.id \notin ids /\ queue' = queue \cup {c} /\ ids' = ids \cup {c.id}
    <2>1. c.id \in UnitId /\ Len(c.id) = c.depth + 1 /\ c.attempts = 0
      BY <1>0, <1>1, <1>4, ContinuationId DEF Continuation
    <2>2. c.depth \in Nat /\ c.depth > 0
      BY <1>0, Bounds DEF Continuation, TypeOK, Stim
    <2>3. ~Known(c.id)
      <3>1. \A r \in 1..raws : Len(<<r>>) = 1
        OBVIOUS
      <3>2. Len(c.id) # 1
        BY <2>1, <2>2
      <3> QED
        BY <1>4, <3>1, <3>2 DEF Known
    <2>4. ASSUME NEW t, t.depth \in Nat, Registered(t) PROVE t.id # c.id
      BY <2>3, <2>4 DEF Registered, Known
    <2>5. stim.id # c.id /\ \A t \in queue : t.id # c.id
      BY <1>1, <2>4, Bounds DEF TypeOK, Stim, Distinct
    <2>6. Life(c.id) = "none" /\ Tries(c.id) = 0
      BY <2>1, <2>3, <2>5, ViewsHold DEF Views, Running
    <2>7. Life(c.id)' = "live" /\ Tries(c.id)' = 0
      <3>1. Views'
        BY ViewsHold, PTL
      <3> QED
        BY <1>4, <2>1, <3>1 DEF Views
    <2>8. ASSUME NEW u \in UnitId, u # c.id PROVE Life(u)' = Life(u) /\ Tries(u)' = Tries(u)
      <3>1. (Running(u)' <=> Running(u)) /\ Waiting(u)' = Waiting(u)
        BY <1>1, <1>4, <2>8 DEF Running, Waiting
      <3>2. Known(u)' <=> Known(u)
        BY <1>1, <1>4, <2>8 DEF Known
      <3> QED
        BY <1>1, <3>1, <3>2, LifeKept
    <2>9. Wakes!Arrive(c.id)
      BY <1>1, <2>1, <2>6, <2>7, <2>8 DEF Wakes!Arrive
    <2> QED
      BY <2>1, <2>9 DEF Wakes!Next
  <1> QED
    BY <1>2, <1>3, <1>4 DEF Insert

\* The initial states map to initial states.
LEMMA WakesInit == Init => Wakes!Init
  BY DEF Init, Wakes!Init, Life, Tries, Running, Waiting, Known

\* A step of the wake maps to a step of the abstract one or to a stutter.
LEMMA WakesStep ==
  TypeOK /\ Distinct /\ Distinct' /\ Numbered /\ Numbered' /\ [Next]_vars
    => [Wakes!Next]_(Wakes!vars)
  <1> SUFFICES ASSUME TypeOK, Distinct, Distinct', Numbered, Numbered', [Next]_vars
               PROVE  [Wakes!Next]_(Wakes!vars)
    OBVIOUS
  <1>1. CASE Tick \/ UNCHANGED vars
    BY <1>1, InsideWakeMaps DEF Tick, vars, durable, wake
  <1>2. ASSUME NEW v \in Server, Call(v) PROVE [Wakes!Next]_(Wakes!vars)
    BY <1>2, InsideWakeMaps DEF Call, durable, wake
  <1>3. CASE Act \/ StepEnds
    <2>1. UNCHANGED unretryable \/ (pc # "idle" /\ unretryable' = TRUE)
      BY <1>3 DEF Act, StepEnds, Marked, TypeOK
    <2> QED
      BY <1>3, <2>1, InsideWakeMaps DEF Act, StepEnds, durable
  <1>4. CASE Emitted \/ StartStep
    BY <1>4, InsideWakeMaps DEF Emitted, StartStep, durable, wake
  <1>5. CASE Finish \/ StepFails
    BY <1>5, EndWakeMaps DEF Finish, StepFails
  <1>6. CASE StepTimesOut
    BY <1>6, EndWakeMaps DEF StepTimesOut, Marked
  <1>7. CASE Crash
    BY <1>7, EndWakeMaps DEF Crash
  <1>8. ASSUME NEW seed \in Seeds, OpenRaw(seed) PROVE [Wakes!Next]_(Wakes!vars)
    BY <1>8, OpenRawMaps
  <1>9. ASSUME NEW s \in queue, OpenQueued(s) PROVE [Wakes!Next]_(Wakes!vars)
    BY <1>9, OpenQueuedMaps
  <1>10. ASSUME NEW to \in Prompt, NEW low \in BOOLEAN, Emit(to, low)
         PROVE  [Wakes!Next]_(Wakes!vars)
    BY <1>10, EmitMaps
  <1> QED
    BY <1>1, <1>2, <1>3, <1>4, <1>5, <1>6, <1>7, <1>8, <1>9, <1>10 DEF Next, StepOver

\* A wake from the inside implements what the loop relies on: it is the only one, its
\* unit of work ends once, and is put back only unmarked, counted and within the budget.
THEOREM WakesKeepTheirPromise == Spec => ImplementsWakes
  <1>1. Init => Distinct
    BY DEF Init, Distinct
  <1>2. Init => Numbered
    BY Bounds, BoundAssumption DEF Init, Numbered
  <1> QED
    BY <1>1, <1>2, TypeCorrect, DistinctStep, NumberedStep, WakesInit, WakesStep, PTL
    DEF Spec, ImplementsWakes, Wakes!Spec
=============================================================================
