-------------------------- MODULE InvocationProofs --------------------------
(***************************************************************************)
(* Proofs about what a step resumes and what its invocation decides.       *)
(*                                                                         *)
(* Sticky sessions, for any prompts, tiers, TTL and cap.                   *)
(* ResumesOwnConversation speaks of the session a step resumes; what is    *)
(* inductive is that every stored session fits the asker its key stands    *)
(* for, and that the step under way was shown what a session of its own    *)
(* will have to hold.                                                      *)
(*                                                                         *)
(* An invocation and its decision, for any messages, any texts of the      *)
(* model and any number of retries.  The three parts of DecisionsArrive    *)
(* have their own strengthenings: what the bridge emits (Emission), where  *)
(* every branch, running or queued, will reply (LanesAim), and which calls *)
(* the record already holds (OnRecord).                                    *)
(***************************************************************************)
EXTENDS Sessions, Engine, SequenceTheorems, FiniteSetTheorems, TLAPS

----------------------------------------------------------------------------
(* Sticky sessions.                                                        *)

Keys == {Key(a) : a \in Asker}

\* What is last known of a session, t, makes it one that a may resume in life l.
Fits(t, l, a) ==
  /\ t.asker = a /\ t.life = l /\ t.context <= Cap
  /\ LeftOut(a.prompt) \subseteq t.held
  /\ Payload \in t.held => "entry" \in Ways[a.prompt]

\* Every stored session fits the asker of its key, and was last used when the map says.
StoredFit ==
  \A a \in Asker : sessions[Key(a)].id # 0 =>
    /\ sessions[Key(a)].last = talk[sessions[Key(a)].id].used
    /\ Fits(talk[sessions[Key(a)].id], life, a)

\* The resumed session fits the step that resumes it, and had not expired.
ResumedFits ==
  resumed # 0 => /\ asked \in Asker
                 /\ Fits(talk[resumed], life, asked)
                 /\ Ttl > 0 => askedAt < talk[resumed].used + Ttl

\* The step under way is shown what its way and its session call for, and the session
\* that the engine may start for it is nobody's yet.
Underway ==
  asked # NoAsker =>
    /\ turns \in 1 .. MaxTurns
    /\ \E way \in Ways[asked.prompt] : shown = Shown(asked.prompt, way, resumed = 0)
    /\ \A a \in Asker : sessions[Key(a)].id # turns

SessionsIInv == SessionsTypeOK /\ StoredFit /\ ResumedFits /\ Underway

----------------------------------------------------------------------------
(* The constants, keys and blocks.                                         *)

\* The bounds are natural numbers.
LEMMA SessionBounds ==
  /\ Ttl \in Nat /\ Cap \in Nat /\ MaxContext \in Nat /\ MaxTurns \in Nat
  /\ Ways \in [Prompt -> SUBSET {"entry", "act"}]
BY SessionsAssumption

\* sticky_session_key: prompt, starting trust and dimensions are all of the key.
LEMMA KeyIsInjective ==
  ASSUME NEW a \in Asker, NEW b \in Asker, Key(a) = Key(b)
  PROVE  a = b
BY DEF Key, Asker

\* The payload is none of the blocks of an Act step (context_blocks, the firebreak).
LEMMA ActHasNoPayload ==
  ASSUME NEW p, NEW fresh \in BOOLEAN
  PROVE  Payload \notin Shown(p, "act", fresh)
<1>1. Payload # Teaching(p)
  <2>1. Payload[1] = "payload" /\ Teaching(p)[1] = "task"
    BY DEF Payload, Teaching
  <2> QED BY <2>1
<1>2. Payload \notin {<<"resume-cue">>, <<"environment">>, <<"environment-recent">>, <<"thread">>,
                      <<"thread-recent">>, <<"baton">>, <<"orientation">>, <<"allowed-transitions">>}
  BY DEF Payload
<1>3. Payload \notin TaskBlocks(p, fresh)
  BY <1>1, <1>2 DEF TaskBlocks
<1>4. Payload \notin RunlogBlocks(fresh) \cup {Gist} \cup Always
  BY <1>2 DEF RunlogBlocks, EnvironmentBlocks, Gist, Always
<1> QED BY <1>3, <1>4 DEF Shown, ActBlocks

\* What a fresh step shows holds everything that its prompt's resumes leave out.
LEMMA FreshShowsLeftOut ==
  ASSUME NEW p \in Prompt, NEW way \in Ways[p]
  PROVE  LeftOut(p) \subseteq Shown(p, way, TRUE)
BY DEF LeftOut

\* Every step's blocks are blocks.
LEMMA ShownAreBlocks ==
  ASSUME NEW p \in Prompt, NEW way \in {"entry", "act"}, NEW fresh \in BOOLEAN
  PROVE  Shown(p, way, fresh) \subseteq Block
BY DEF Block

\* A way of a prompt is one of the two.
LEMMA WaysAreTwo ==
  ASSUME NEW p \in Prompt, NEW way \in Ways[p]
  PROVE  way \in {"entry", "act"}
BY SessionBounds

----------------------------------------------------------------------------
(* The steps.                                                              *)

\* No session is stored at first.
LEMMA SessionsStart == SessionsInit => SessionsIInv
<1> SUFFICES ASSUME SessionsInit PROVE SessionsIInv
  OBVIOUS
<1>1. \A a \in Asker : Key(a) \in Keys /\ NoSessions[Key(a)].id = 0
  BY DEF Keys, NoSessions, NoSession
<1>2. SessionsTypeOK
  <2>1. NoSession \in [id : 0 .. 0, last : Nat]
    BY DEF NoSession
  <2>2. sessions \in [{Key(a) : a \in Asker} -> [id : 0 .. turns, last : Nat]]
    BY <2>1 DEF SessionsInit, NoSessions
  <2>3. NoTalk \in [asker : Asker \cup {NoAsker}, life : Nat, used : Nat, context : Nat,
                    held : SUBSET Block]
    BY DEF NoTalk
  <2> QED BY <2>2, <2>3, SessionBounds DEF SessionsInit, SessionsTypeOK
<1> QED BY <1>1, <1>2 DEF SessionsInit, SessionsIInv, StoredFit, ResumedFits, Underway

\* The lookup (sticky_resume and the blocks of run_step).
LEMMA AskKeeps ==
  ASSUME SessionsIInv, NEW a \in Asker, NEW way \in {"entry", "act"}, AskEngine(a, way)
  PROVE  SessionsIInv'
<1>0. SessionsTypeOK /\ StoredFit
  BY DEF SessionsIInv
<1>1. a.prompt \in Prompt /\ way \in Ways[a.prompt] /\ Key(a) \in Keys
  BY DEF AskEngine, Asker, Keys
<1>2. turns' = turns + 1 /\ turns \in Nat /\ turns < MaxTurns /\ turns' \in 1 .. MaxTurns
  BY <1>0, SessionBounds DEF AskEngine, SessionsTypeOK
<1>3. sessions \in [Keys -> [id : 0 .. turns, last : Nat]]
  BY <1>0 DEF SessionsTypeOK, Keys
<1>4. /\ sessions' = sessions \/ sessions' = [sessions EXCEPT ![Key(a)] = NoSession]
      /\ resumed' = 0 \/ (resumed' = sessions[Key(a)].id /\ sessions[Key(a)].id # 0
                          /\ Unexpired(sessions[Key(a)]) /\ sessions' = sessions)
  BY DEF AskEngine
<1>5. sessions' \in [Keys -> [id : 0 .. turns, last : Nat]]
  <2>1. NoSession \in [id : 0 .. turns, last : Nat]
    BY <1>2 DEF NoSession
  <2> QED BY <1>3, <1>4, <2>1
<1>6. resumed' \in 0 .. turns
  BY <1>1, <1>2, <1>3, <1>4
<1>7. shown' = Shown(a.prompt, way, resumed' = 0) /\ asked' = a /\ askedAt' = moment
      /\ UNCHANGED <<moment, life, talk>>
  BY DEF AskEngine
<1>8. SessionsTypeOK'
  <2>1. sessions' \in [{Key(b) : b \in Asker} -> [id : 0 .. turns', last : Nat]]
    <3>1. [id : 0 .. turns, last : Nat] \subseteq [id : 0 .. turns', last : Nat]
      BY <1>2
    <3> QED BY <1>5, <3>1 DEF Keys
  <2>2. shown' \subseteq Block
    BY <1>1, <1>7, ShownAreBlocks
  <2>3. resumed' \in 0 .. turns'
    BY <1>2, <1>6
  <2> QED BY <1>0, <1>2, <1>7, <2>1, <2>2, <2>3 DEF SessionsTypeOK
<1>9. StoredFit'
  <2> SUFFICES ASSUME NEW b \in Asker, sessions'[Key(b)].id # 0
               PROVE  /\ sessions'[Key(b)].last = talk[sessions'[Key(b)].id].used
                      /\ Fits(talk[sessions'[Key(b)].id], life, b)
    BY <1>7 DEF StoredFit
  <2>1. sessions'[Key(b)] = sessions[Key(b)]
    <3>1. Key(b) \in Keys
      BY DEF Keys
    <3> QED BY <1>3, <1>4, <3>1 DEF NoSession
  <2> QED BY <1>0, <2>1 DEF StoredFit
<1>10. ResumedFits'
  <2> SUFFICES ASSUME resumed' # 0
               PROVE  /\ Fits(talk[resumed'], life, a)
                      /\ Ttl > 0 => moment < talk[resumed'].used + Ttl
    BY <1>7 DEF ResumedFits
  <2>1. resumed' = sessions[Key(a)].id /\ sessions[Key(a)].id # 0 /\ Unexpired(sessions[Key(a)])
    BY <1>4
  <2>2. /\ sessions[Key(a)].last = talk[sessions[Key(a)].id].used
        /\ Fits(talk[sessions[Key(a)].id], life, a)
    BY <1>0, <2>1 DEF StoredFit
  <2>3. moment \in Nat /\ sessions[Key(a)].last \in Nat /\ Ttl \in Nat
    BY <1>0, <1>1, <1>3, SessionBounds DEF SessionsTypeOK
  <2>4. Ttl > 0 => moment < sessions[Key(a)].last + Ttl
    BY <2>1, <2>3 DEF Unexpired
  <2> QED BY <2>1, <2>2, <2>4
<1>11. Underway'
  <2>1. \A b \in Asker : sessions'[Key(b)].id # turns'
    <3> SUFFICES ASSUME NEW b \in Asker PROVE sessions'[Key(b)].id # turns'
      OBVIOUS
    <3>1. Key(b) \in Keys
      BY DEF Keys
    <3>2. sessions'[Key(b)].id \in 0 .. turns
      BY <1>5, <3>1
    <3> QED BY <1>2, <3>2
  <2> QED BY <1>1, <1>2, <1>7, <2>1 DEF Underway
<1> QED BY <1>8, <1>9, <1>10, <1>11 DEF SessionsIInv

\* The bookkeeping after a successful invocation (sticky_store, the size cap).
LEMMA AnsweredKeeps ==
  ASSUME SessionsIInv, NEW id \in Named, NEW context \in 0 .. MaxContext, Answered(id, context)
  PROVE  SessionsIInv'
<1>0. SessionsTypeOK /\ StoredFit /\ ResumedFits /\ Underway
  BY DEF SessionsIInv
<1>1. asked \in Asker /\ asked # NoAsker /\ turns \in 1 .. MaxTurns
  BY <1>0 DEF Answered, SessionsTypeOK, Underway
<1>2. asked.prompt \in Prompt /\ Key(asked) \in Keys
  BY <1>1 DEF Asker, Keys
<1>3. /\ asked' = NoAsker /\ askedAt' = 0 /\ resumed' = 0 /\ shown' = {}
      /\ UNCHANGED <<moment, turns, life>>
  BY DEF Answered
<1>4. id = 0 \/ id = turns \/ (id = resumed /\ resumed # 0)
  BY DEF Named
<1>5. id \in 0 .. turns /\ (id # 0 => id \in 1 .. MaxTurns) /\ context \in Nat
  BY <1>0, <1>1, <1>4, SessionBounds DEF SessionsTypeOK
<1>6. sessions \in [Keys -> [id : 0 .. turns, last : Nat]]
  BY <1>0 DEF SessionsTypeOK, Keys
<1>7. PICK way \in Ways[asked.prompt] : shown = Shown(asked.prompt, way, resumed = 0)
  BY <1>0, <1>1 DEF Underway
<1>8. Held \cup shown \in SUBSET Block
  <2>1. CASE resumed = 0
    BY <1>0, <2>1 DEF Held, SessionsTypeOK
  <2>2. CASE resumed # 0
    <3>1. resumed \in 1 .. MaxTurns
      BY <1>0, <1>1, <2>2, SessionBounds DEF SessionsTypeOK
    <3>2. talk[resumed].held \in SUBSET Block
      BY <1>0, <3>1 DEF SessionsTypeOK
    <3> QED BY <1>0, <2>2, <3>2 DEF Held, SessionsTypeOK
  <2> QED BY <2>1, <2>2
<1> DEFINE new == [asker |-> asked, life |-> life, used |-> moment, context |-> context,
                   held |-> Held \cup shown]
\* What the session holds now serves the next step of its prompt.
<1>9. context <= Cap => Fits(new, life, asked)
  <2>1. LeftOut(asked.prompt) \subseteq Held \cup shown
    <3>1. CASE resumed = 0
      BY <1>2, <1>7, <3>1, FreshShowsLeftOut
    <3>2. CASE resumed # 0
      BY <1>0, <3>2 DEF ResumedFits, Fits, Held
    <3> QED BY <3>1, <3>2
  <2>2. ASSUME Payload \in Held \cup shown PROVE "entry" \in Ways[asked.prompt]
    <3>1. CASE Payload \in Held
      BY <1>0, <3>1 DEF ResumedFits, Fits, Held
    <3>2. CASE Payload \in shown
      <4>1. way # "act"
        BY <1>7, <3>2, ActHasNoPayload
      <4> QED BY <1>2, <4>1, WaysAreTwo
    <3> QED BY <2>2, <3>1, <3>2
  <2> QED BY <2>1, <2>2 DEF Fits
<1>10. /\ talk' = IF id = 0 THEN talk ELSE [talk EXCEPT ![id] = new]
       /\ sessions' = IF context > Cap THEN [sessions EXCEPT ![Key(asked)] = NoSession]
                      ELSE IF id = 0 THEN sessions
                      ELSE [sessions EXCEPT ![Key(asked)] = [id |-> id, last |-> moment]]
  BY DEF Answered, Stored
<1>11. SessionsTypeOK'
  <2>1. NoSession \in [id : 0 .. turns, last : Nat] /\ [id |-> id, last |-> moment] \in [id : 0 .. turns, last : Nat]
    BY <1>0, <1>1, <1>5 DEF NoSession, SessionsTypeOK
  <2>2. sessions' \in [Keys -> [id : 0 .. turns, last : Nat]]
    BY <1>6, <1>10, <2>1
  <2>3. new \in [asker : Asker \cup {NoAsker}, life : Nat, used : Nat, context : Nat,
                 held : SUBSET Block]
    BY <1>0, <1>1, <1>5, <1>8 DEF SessionsTypeOK
  <2>4. talk' \in [1 .. MaxTurns ->
                     [asker : Asker \cup {NoAsker}, life : Nat, used : Nat, context : Nat,
                      held : SUBSET Block]]
    BY <1>0, <1>10, <2>3 DEF SessionsTypeOK
  <2> QED BY <1>0, <1>3, <2>2, <2>4 DEF SessionsTypeOK, Keys
<1>12. StoredFit'
  <2> SUFFICES ASSUME NEW b \in Asker, sessions'[Key(b)].id # 0
               PROVE  /\ sessions'[Key(b)].last = talk'[sessions'[Key(b)].id].used
                      /\ Fits(talk'[sessions'[Key(b)].id], life, b)
    BY <1>3 DEF StoredFit
  <2>1. Key(b) \in Keys
    BY DEF Keys
  <2>2. CASE b = asked
    <3>1. CASE context > Cap
      BY <1>6, <1>10, <2>1, <2>2, <3>1 DEF NoSession
    <3>2. CASE ~(context > Cap) /\ id = 0
      BY <1>0, <1>10, <3>2 DEF StoredFit
    <3>3. CASE ~(context > Cap) /\ id # 0
      <4>1. sessions'[Key(b)] = [id |-> id, last |-> moment]
        BY <1>6, <1>10, <2>1, <2>2, <3>3
      <4>2. talk'[id] = new
        BY <1>0, <1>5, <1>10, <3>3 DEF SessionsTypeOK
      <4>3. context <= Cap
        BY <1>5, <3>3, SessionBounds
      <4> QED BY <1>9, <2>2, <4>1, <4>2, <4>3
    <3> QED BY <3>1, <3>2, <3>3
  <2>3. CASE b # asked
    <3>1. Key(b) # Key(asked)
      BY <1>1, <2>3, KeyIsInjective
    <3>2. sessions'[Key(b)] = sessions[Key(b)]
      BY <1>6, <1>10, <2>1, <3>1
    <3>3. /\ sessions[Key(b)].last = talk[sessions[Key(b)].id].used
          /\ Fits(talk[sessions[Key(b)].id], life, b)
      BY <1>0, <3>2 DEF StoredFit
    <3>4. id = 0 \/ sessions[Key(b)].id # id
      <4>1. CASE id = turns
        BY <1>0, <1>1, <4>1 DEF Underway
      <4>2. CASE id = resumed /\ resumed # 0
        BY <1>0, <2>3, <3>3, <4>2 DEF ResumedFits, Fits
      <4> QED BY <1>4, <4>1, <4>2
    <3>5. sessions[Key(b)].id \in 1 .. MaxTurns
      <4>1. sessions[Key(b)].id \in 0 .. turns /\ sessions[Key(b)].id # 0
        BY <1>6, <2>1, <3>2
      <4> QED BY <1>1, <4>1, SessionBounds
    <3>6. talk'[sessions[Key(b)].id] = talk[sessions[Key(b)].id]
      BY <1>0, <1>10, <3>4, <3>5 DEF SessionsTypeOK
    <3> QED BY <3>2, <3>3, <3>6
  <2> QED BY <2>2, <2>3
<1>13. ResumedFits' /\ Underway'
  BY <1>3 DEF ResumedFits, Underway
<1> QED BY <1>11, <1>12, <1>13 DEF SessionsIInv

\* Time, a failing step, a restart of the daemon.
LEMMA OthersKeep ==
  ASSUME SessionsIInv, MomentPasses \/ AskFailed \/ Restarted
  PROVE  SessionsIInv'
<1>0. SessionsTypeOK /\ StoredFit /\ ResumedFits /\ Underway
  BY DEF SessionsIInv
<1>1. CASE MomentPasses
  <2>1. SessionsTypeOK'
    BY <1>0, <1>1 DEF SessionsTypeOK, MomentPasses
  <2>2. UNCHANGED <<sessions, talk, life, resumed, asked, askedAt, turns, shown>>
    BY <1>1 DEF MomentPasses
  <2>3. StoredFit' /\ ResumedFits' /\ Underway'
    BY <1>0, <2>2 DEF StoredFit, ResumedFits, Underway
  <2> QED BY <2>1, <2>3 DEF SessionsIInv
<1>2. CASE AskFailed
  <2>1. /\ asked' = NoAsker /\ askedAt' = 0 /\ resumed' = 0 /\ shown' = {}
        /\ UNCHANGED <<moment, sessions, turns, life, talk>>
    BY <1>2 DEF AskFailed
  <2>2. SessionsTypeOK'
    BY <1>0, <2>1 DEF SessionsTypeOK
  <2>3. StoredFit' /\ ResumedFits' /\ Underway'
    BY <1>0, <2>1 DEF StoredFit, ResumedFits, Underway
  <2> QED BY <2>2, <2>3 DEF SessionsIInv
<1>3. CASE Restarted
  <2>1. /\ sessions' = NoSessions /\ asked' = NoAsker /\ askedAt' = 0 /\ resumed' = 0 /\ shown' = {}
        /\ life' = life + 1 /\ UNCHANGED <<moment, turns, talk>>
    BY <1>3 DEF Restarted
  <2>2. \A a \in Asker : NoSessions[Key(a)].id = 0
    BY DEF NoSessions, NoSession
  <2>3. NoSessions \in [{Key(a) : a \in Asker} -> [id : 0 .. turns, last : Nat]]
    <3>1. NoSession \in [id : 0 .. turns, last : Nat]
      BY <1>0, SessionBounds DEF NoSession, SessionsTypeOK
    <3> QED BY <3>1 DEF NoSessions
  <2>4. SessionsTypeOK'
    BY <1>0, <2>1, <2>3 DEF SessionsTypeOK
  <2>5. StoredFit' /\ ResumedFits' /\ Underway'
    BY <2>1, <2>2 DEF StoredFit, ResumedFits, Underway
  <2> QED BY <2>4, <2>5 DEF SessionsIInv
<1> QED BY <1>1, <1>2, <1>3

\* Every session stays the conversation of its key.
THEOREM SessionsInvariant == SessionsSpec => []SessionsIInv
<1>1. SessionsIInv /\ [SessionsNext]_sessionsVars => SessionsIInv'
  <2> SUFFICES ASSUME SessionsIInv, [SessionsNext]_sessionsVars PROVE SessionsIInv'
    OBVIOUS
  <2>1. CASE \E a \in Asker, way \in {"entry", "act"} : AskEngine(a, way)
    BY <2>1, AskKeeps
  <2>2. CASE \E id \in Named, context \in 0 .. MaxContext : Answered(id, context)
    BY <2>2, AnsweredKeeps
  <2>3. CASE MomentPasses \/ AskFailed \/ Restarted
    BY <2>3, OthersKeep
  <2>4. CASE UNCHANGED sessionsVars
    BY <2>4 DEF sessionsVars, SessionsIInv, SessionsTypeOK, StoredFit, ResumedFits, Underway
  <2> QED BY <2>1, <2>2, <2>3, <2>4 DEF SessionsNext
<1> QED BY SessionsStart, <1>1, PTL DEF SessionsSpec

\* The variables keep their types.
THEOREM SessionsTypeCorrect == SessionsSpec => []SessionsTypeOK
BY SessionsInvariant, PTL DEF SessionsIInv

\* A step resumes only a fresh, small session of its own prompt, starting trust and
\* dimensions, which holds what the step is not shown again, and a payload only where its
\* prompt is one that duties enter (harness/mod.rs:599-629, 741-762, 2083).
THEOREM ResumesOwn == SessionsSpec => []ResumesOwnConversation
<1>1. SessionsIInv => ResumesOwnConversation
  BY DEF SessionsIInv, StoredFit, ResumedFits, Fits, ResumesOwnConversation
<1> QED BY SessionsInvariant, <1>1, PTL

----------------------------------------------------------------------------
(* An invocation and its decision.                                         *)

\* Prose leaves the bridge only after all retries or without a session, and a decision is
\* the fan-out of the text that left it.
Emission ==
  /\ exchange \in {"emitted", "decided"} =>
       Parses(text) \/ attempt = MaxParse \/ ~engineId
  /\ exchange = "decided" => decision = FanOut(text)

\* Where b replies once it runs in a wake of the raw stimulus (inRaw) or in a
\* continuation's is where it is wanted to.
Aims(b, inRaw) ==
  \/ b.wanted = "any"
  \/ b.scope # NoTarget /\ b.scope = b.wanted
  \/ b.scope = NoTarget /\ inRaw /\ b.wanted = Latest

\* A continuation's branches are never the stimulus' own step.
LanesAim ==
  /\ \A b \in lanes : Aims(b, raw) /\ (raw \/ b.hop > 0)
  /\ \A b \in deferred : Aims(b, FALSE) /\ b.hop > 0
  /\ exchange \notin {"idle", "failed"} => raw \/ lane.hop > 0

\* What the wall granted or the engine ran is on the record.
OnRecord == granted \subseteq recorded /\ performed \subseteq recorded

\* Calls are numbered as they are asked.
CallsTyped ==
  /\ calls \in 0 .. MaxCalls
  /\ pendingAsk \subseteq 1 .. calls /\ granted \subseteq 1 .. calls
  /\ recorded \subseteq 1 .. calls /\ performed \subseteq 1 .. calls

EngineIInv == EngineTypeOK /\ Emission /\ LanesAim /\ RepliesReachTheirMessage /\ OnRecord

----------------------------------------------------------------------------
(* The constants and the operators.                                        *)

\* The bounds are natural numbers, and the two pseudo-destinations are no messages.
LEMMA EngineBounds ==
  /\ MaxParse \in Nat /\ MaxCalls \in Nat /\ MaxInvocations \in Nat
  /\ Latest \notin Item /\ NoTarget \notin Item /\ Latest # NoTarget
  /\ Says \subseteq Text
BY EngineAssumption

\* A text is a text, the one before the first turn too.
LEMMA TextsAreTexts ==
  ASSUME NEW t \in Says \cup {NoText}
  PROVE  t \in Text
<1>1. << >> \in Seq(Object \cup Other)
  BY EmptySeq
<1> QED BY <1>1, EngineBounds DEF Text, NoText

\* What the parse sees are objects of the text (parse.ts, extractJsonObjects).
LEMMA SeenIsWritten ==
  ASSUME NEW t
  PROVE  Seen(t) \subseteq Places(t, "object") /\ Places(t, "object") \subseteq DOMAIN t
BY DEF Seen, Inside, Places

\* Without a block within a string, an object that is not outside of the text's block is
\* within the part that is read (parse.ts:96).
LEMMA InTheBlock ==
  ASSUME NEW t \in Text, NEW i \in Places(t, "object"), ~Hidden(t, i)
  PROVE  i \in Inside(t)
<1>1. /\ i \in DOMAIN t /\ DOMAIN t \subseteq Nat /\ Marks(t) = Places(t, "fence")
      /\ Marks(t) \subseteq DOMAIN t /\ t[i].kind = "object"
      /\ \A a \in Marks(t) : t[a].kind = "fence"
  BY DEF Hidden, Marks, Places, Text
<1>2. \A a \in Marks(t), b \in Marks(t) : a < b => a <= i /\ i <= b
  BY <1>1 DEF Hidden
<1>3. i \notin Marks(t)
  BY <1>1
<1>4. \A a \in Marks(t) : t[a].kind # "object"
  BY <1>1
<1>5. SUFFICES ASSUME OutOfBlock(t, i) PROVE FALSE
  BY <1>1 DEF Inside
<1>6. PICK a \in Marks(t), b \in Marks(t) : Closes(t, a, b) /\ (i <= a \/ i >= b)
  BY <1>4, <1>5 DEF OutOfBlock
<1>7. a < b /\ a \in Nat /\ b \in Nat /\ i \in Nat /\ i # a /\ i # b
  BY <1>1, <1>3, <1>6 DEF Closes
<1> QED BY <1>2, <1>6, <1>7

\* What the text does not hide is seen.
LEMMA UnhiddenIsSeen ==
  ASSUME NEW t \in Text, NEW i \in Places(t, "object"), ~Hidden(t, i)
  PROVE  i \in Seen(t)
<1>1. i \in Inside(t) /\ t[i].kind = "object"
  BY InTheBlock DEF Places
<1> DEFINE quotes == {j \in Inside(t) : j < i /\ t[j].kind = "quote"}
<1>2. quotes = {}
  BY DEF Hidden, Inside, Places
<1>3. ~Quoted(t, i)
  <2>1. quotes = {} => Cardinality(quotes) = 0
    BY FS_EmptySet
  <2>2. Quoted(t, i) => Cardinality(quotes) % 2 = 1
    BY DEF Quoted
  <2>3. ASSUME NEW n, n = 0 PROVE ~(n % 2 = 1)
    BY <2>3
  <2> HIDE DEF quotes
  <2> QED BY <1>2, <2>1, <2>2, <2>3
<1>4. \A j \in Inside(t) : ~(j < i /\ t[j].kind = "brace")
  BY DEF Hidden, Inside, Places
<1> QED BY <1>1, <1>3, <1>4 DEF Seen

\* What the parse merges was written (parse.ts: the objects of the text).
LEMMA MergedIsWritten ==
  ASSUME NEW t
  PROVE  Merged(t) \subseteq UNION {t[i].batons : i \in Places(t, "object")}
<1>1. Seen(t) \subseteq Places(t, "object") /\ LastOf(t, "shape") \subseteq Seen(t)
  BY SeenIsWritten DEF LastOf, Having
<1> QED BY <1>1 DEF Merged, Lists

\* What a list holds is merged, whatever stands beside it (parse.ts:111).
LEMMA ListsAreMerged ==
  ASSUME NEW t, NEW i \in Seen(t), t[i].shape = "list"
  PROVE  t[i].batons \subseteq Merged(t)
<1>1. t[i].batons \subseteq Lists(t)
  BY DEF Lists
<1> QED BY <1>1 DEF Merged

\* The batons of a text are batons.
LEMMA WrittenAreBatons ==
  ASSUME NEW t \in Text
  PROVE  UNION {t[i].batons : i \in Places(t, "object")} \subseteq Baton
<1> SUFFICES ASSUME NEW i \in Places(t, "object") PROVE t[i].batons \subseteq Baton
  OBVIOUS
<1>1. t[i] \in Object \cup Other /\ t[i].kind = "object"
  BY DEF Text, Places
<1>2. t[i] \in Object
  BY <1>1 DEF Other
<1> QED BY <1>2 DEF Object

\* A fan-out holds written batons and at most the legacy branch beside them.
LEMMA FanOutIsWritten ==
  ASSUME NEW t
  PROVE  FanOut(t) \subseteq {Legacy} \cup UNION {t[i].batons : i \in Places(t, "object")}
BY MergedIsWritten DEF FanOut

\* A fan-out's members are batons.
LEMMA FanOutIsTyped ==
  ASSUME NEW t \in Text
  PROVE  FanOut(t) \subseteq Baton
<1>1. Legacy \in Baton
  BY DEF Legacy, Baton
<1> QED BY <1>1, FanOutIsWritten, WrittenAreBatons

\* Every good baton of a list that is seen is in the fan-out (proposal.rs:123, per-item salvage).
LEMMA GoodOnesSurvive ==
  ASSUME NEW t, NEW i \in Seen(t), t[i].shape = "list"
  PROVE  {b \in t[i].batons : b.good} \subseteq FanOut(t)
BY ListsAreMerged DEF FanOut

----------------------------------------------------------------------------
(* The steps.                                                              *)

\* The wake of the raw stimulus begins with its own step.
LEMMA EngineStarts == EngineInit => EngineIInv
<1> SUFFICES ASSUME EngineInit PROVE EngineIInv
  OBVIOUS
<1>1. First \in Lane
  BY DEF First, Lane, Wanted
<1>2. EngineTypeOK
  <2>1. engineId \in BOOLEAN /\ raw \in BOOLEAN
    BY Zenon DEF EngineInit
  <2>2. /\ exchange \in Exchange /\ text \in Says \cup {NoText}
        /\ lane \in Lane /\ lanes \subseteq Lane /\ deferred \subseteq Lane
    BY <1>1 DEF EngineInit, Exchange
  <2>3. CallsTyped /\ attempt \in 0 .. MaxParse /\ invocations \in Nat
    BY EngineBounds DEF EngineInit, CallsTyped
  <2>4. decision \subseteq Baton /\ \A a \in addressed : a.wanted \in Wanted
    BY DEF EngineInit
  <2> QED BY <2>1, <2>2, <2>3, <2>4 DEF EngineTypeOK, CallsTyped
<1>3. Emission /\ OnRecord /\ RepliesReachTheirMessage
  BY DEF EngineInit, Emission, OnRecord, RepliesReachTheirMessage
<1>4. LanesAim
  BY DEF EngineInit, LanesAim, Aims, First
<1> QED BY <1>2, <1>3, <1>4 DEF EngineIInv

\* Steps of the exchange alone leave the branches where they aim.
LEMMA WakeAlone ==
  ASSUME LanesAim, RepliesReachTheirMessage, UNCHANGED <<lane, lanes, raw, deferred, addressed>>,
         exchange' \notin {"idle", "failed"} => exchange \notin {"idle", "failed"}
  PROVE  LanesAim' /\ RepliesReachTheirMessage'
BY DEF LanesAim, Aims, RepliesReachTheirMessage

\* An invocation is addressed where its branch aims (assemble_mcp_servers).
LEMMA InvokeKeeps ==
  ASSUME EngineIInv, NEW b \in lanes, Invoke(b)
  PROVE  EngineIInv'
<1>0. EngineTypeOK /\ LanesAim /\ RepliesReachTheirMessage
  BY DEF EngineIInv
<1>1. b \in Lane /\ Aims(b, raw) /\ (raw \/ b.hop > 0)
  BY <1>0 DEF EngineTypeOK, LanesAim
<1>2. /\ exchange' = "first" /\ lane' = b /\ lanes' = lanes \ {b}
      /\ invocations' = invocations + 1
      /\ addressed' = addressed \cup {[to |-> Destination(b), wanted |-> b.wanted]}
      /\ text' = NoText /\ engineId' = FALSE /\ attempt' = 0 /\ calls' = 0
      /\ pendingAsk' = {} /\ granted' = {} /\ recorded' = {} /\ performed' = {}
      /\ UNCHANGED <<decision, raw, deferred>>
  BY DEF Invoke
<1>3. EngineTypeOK'
  <2>1. \A a \in addressed' : a.wanted \in Wanted
    BY <1>0, <1>1, <1>2 DEF EngineTypeOK, Lane
  <2>2. invocations' \in Nat
    BY <1>0, <1>2 DEF EngineTypeOK
  <2>3. raw' \in BOOLEAN /\ engineId' \in BOOLEAN
    BY <1>0, <1>2, Zenon DEF EngineTypeOK
  <2>4. lane' \in Lane /\ lanes' \subseteq Lane /\ deferred' \subseteq Lane /\ decision' \subseteq Baton
    BY <1>0, <1>1, <1>2 DEF EngineTypeOK
  <2>5. /\ exchange' \in Exchange /\ text' \in Says \cup {NoText}
        /\ attempt' \in 0 .. MaxParse /\ calls' \in 0 .. MaxCalls
        /\ pendingAsk' \subseteq 1 .. calls' /\ granted' \subseteq 1 .. calls'
        /\ recorded' \subseteq 1 .. calls' /\ performed' \subseteq 1 .. calls'
    BY <1>2, EngineBounds DEF Exchange
  <2> QED BY <2>1, <2>2, <2>3, <2>4, <2>5 DEF EngineTypeOK
<1>4. b.wanted = "any" \/ Destination(b) = b.wanted
  BY <1>1 DEF Aims, Destination, TopLevel
<1>5. RepliesReachTheirMessage'
  BY <1>0, <1>2, <1>4 DEF RepliesReachTheirMessage
<1>6. LanesAim'
  BY <1>0, <1>1, <1>2 DEF LanesAim, Aims
<1>7. Emission' /\ OnRecord'
  BY <1>2 DEF Emission, OnRecord
<1> QED BY <1>3, <1>5, <1>6, <1>7 DEF EngineIInv

\* A call is asked, answered on the record, and run (canUseTool, decide).
LEMMA CallsKeep ==
  ASSUME EngineIInv,
         Asks \/ (\E allow \in BOOLEAN : Answers(allow)) \/ (\E c \in granted : Performs(c))
  PROVE  EngineIInv'
<1>0. EngineTypeOK /\ LanesAim /\ RepliesReachTheirMessage /\ OnRecord
  BY DEF EngineIInv
<1>1. /\ exchange = "first"
      /\ UNCHANGED <<exchange, text, engineId, attempt, decision, lane, lanes, raw, deferred,
                     invocations, addressed>>
  BY DEF Asks, Answers, Performs, wakeState
<1>2. LanesAim' /\ RepliesReachTheirMessage' /\ Emission'
  BY <1>0, <1>1, WakeAlone DEF Emission
<1>3. CallsTyped' /\ OnRecord'
  <2>1. CASE Asks
    <3>1. /\ calls' = calls + 1 /\ calls < MaxCalls /\ calls \in Nat
          /\ pendingAsk' = pendingAsk \cup {calls'}
          /\ UNCHANGED <<granted, recorded, performed>>
      BY <1>0, <2>1 DEF Asks, EngineTypeOK
    <3>2. 1 .. calls \subseteq 1 .. calls' /\ calls' \in 1 .. calls' /\ calls' \in 0 .. MaxCalls
      BY <3>1, EngineBounds
    <3> QED BY <1>0, <3>1, <3>2 DEF EngineTypeOK, CallsTyped, OnRecord
  <2>2. ASSUME NEW allow \in BOOLEAN, Answers(allow)
        PROVE  CallsTyped' /\ OnRecord'
    <3>1. PICK c \in pendingAsk :
            /\ pendingAsk' = pendingAsk \ {c}
            /\ granted' = IF allow THEN granted \cup {c} ELSE granted
            /\ recorded' = IF allow THEN recorded \cup {c} ELSE recorded
      BY <2>2 DEF Answers, Recorder
    <3>2. UNCHANGED <<calls, performed>>
      BY <2>2 DEF Answers
    <3> QED BY <1>0, <3>1, <3>2 DEF EngineTypeOK, CallsTyped, OnRecord
  <2>3. ASSUME NEW c \in granted, Performs(c)
        PROVE  CallsTyped' /\ OnRecord'
    <3>1. /\ granted' = granted \ {c} /\ performed' = performed \cup {c}
          /\ UNCHANGED <<calls, pendingAsk, recorded>>
      BY <2>3 DEF Performs
    <3> QED BY <1>0, <2>3, <3>1 DEF EngineTypeOK, CallsTyped, OnRecord
  <2> QED BY <2>1, <2>2, <2>3
<1>4. raw' \in BOOLEAN /\ engineId' \in BOOLEAN
  BY <1>0, <1>1, Zenon DEF EngineTypeOK
<1>5. EngineTypeOK'
  BY <1>0, <1>1, <1>3, <1>4 DEF EngineTypeOK, CallsTyped
<1> QED BY <1>2, <1>3, <1>5 DEF EngineIInv

\* A turn ends: prose is asked again, or leaves the bridge (runInvoke).
LEMMA TurnEndsKeeps ==
  ASSUME EngineIInv, NEW t \in Says, NEW named \in BOOLEAN, TurnEnds(t, named)
  PROVE  EngineIInv'
<1>0. EngineTypeOK /\ LanesAim /\ RepliesReachTheirMessage /\ OnRecord
  BY DEF EngineIInv
<1>1. /\ exchange \in {"first", "recovery"} /\ text' = t /\ engineId' = (engineId \/ named)
      /\ UNCHANGED <<calls, pendingAsk, granted, recorded, performed, decision, lane, lanes, raw,
                     deferred, invocations, addressed>>
  BY DEF TurnEnds, wakeState
<1>2. \/ attempt < MaxParse /\ exchange' = "recovery" /\ attempt' = attempt + 1
      \/ ~(~Parses(t) /\ attempt < MaxParse /\ engineId') /\ exchange' = "emitted" /\ attempt' = attempt
  BY DEF TurnEnds
<1>3. attempt \in 0 .. MaxParse /\ attempt' \in 0 .. MaxParse /\ exchange' \in {"recovery", "emitted"}
  BY <1>0, <1>2, EngineBounds DEF EngineTypeOK
<1>4. LanesAim' /\ RepliesReachTheirMessage'
  BY <1>0, <1>1, WakeAlone
<1>5. Emission'
  <2>1. CASE exchange' = "recovery"
    BY <2>1 DEF Emission
  <2>2. CASE exchange' = "emitted"
    <3>1. ~(~Parses(t) /\ attempt < MaxParse /\ engineId') /\ attempt' = attempt
      BY <1>2, <2>2
    <3>2. attempt' = MaxParse \/ attempt < MaxParse
      BY <1>3, <3>1, EngineBounds
    <3>3. Parses(text') \/ attempt' = MaxParse \/ ~engineId'
      BY <1>1, <3>1, <3>2
    <3> QED BY <2>2, <3>3 DEF Emission
  <2> QED BY <1>3, <2>1, <2>2
<1>6. raw' \in BOOLEAN /\ engineId' \in BOOLEAN
  <2>1. engineId' \in BOOLEAN
    BY <1>1
  <2> QED BY <1>0, <1>1, <2>1, Zenon DEF EngineTypeOK
<1>7. EngineTypeOK' /\ OnRecord'
  BY <1>0, <1>1, <1>3, <1>6 DEF EngineTypeOK, Exchange, OnRecord
<1> QED BY <1>4, <1>5, <1>7 DEF EngineIInv

\* The invocation fails: its wake is over.
LEMMA FailureKeeps ==
  ASSUME EngineIInv, InvokeFails
  PROVE  EngineIInv'
<1>0. EngineTypeOK /\ LanesAim /\ RepliesReachTheirMessage /\ OnRecord
  BY DEF EngineIInv
<1>1. /\ exchange' = "failed" /\ lanes' = {}
      /\ UNCHANGED <<text, engineId, attempt, calls, pendingAsk, granted, recorded, performed,
                     decision, lane, raw, deferred, invocations, addressed>>
  BY DEF InvokeFails, protocol
<1>2. LanesAim' /\ RepliesReachTheirMessage' /\ Emission' /\ OnRecord'
  BY <1>0, <1>1 DEF LanesAim, Aims, RepliesReachTheirMessage, Emission, OnRecord
<1>3. raw' \in BOOLEAN /\ engineId' \in BOOLEAN
  BY <1>0, <1>1, Zenon DEF EngineTypeOK
<1>4. EngineTypeOK'
  BY <1>0, <1>1, <1>3 DEF EngineTypeOK, Exchange
<1> QED BY <1>2, <1>4 DEF EngineIInv

\* The client makes a decision of the text (de_lenient_batons, fan_out).
LEMMA ReceivesKeeps ==
  ASSUME EngineIInv, Receives
  PROVE  EngineIInv'
<1>0. EngineTypeOK /\ LanesAim /\ RepliesReachTheirMessage /\ OnRecord /\ Emission
  BY DEF EngineIInv
<1>1. /\ exchange = "emitted" /\ exchange' = "decided" /\ decision' = FanOut(text)
      /\ UNCHANGED <<text, engineId, attempt, calls, pendingAsk, granted, recorded, performed,
                     lane, lanes, raw, deferred, invocations, addressed>>
  BY DEF Receives, protocol, wakeState
<1>2. LanesAim' /\ RepliesReachTheirMessage'
  BY <1>0, <1>1, WakeAlone
<1>3. Parses(text) \/ attempt = MaxParse \/ ~engineId
  BY <1>0, <1>1 DEF Emission
<1>4. Emission'
  BY <1>1, <1>3 DEF Emission
<1>5. decision' \subseteq Baton
  BY <1>0, <1>1, TextsAreTexts, FanOutIsTyped DEF EngineTypeOK
<1>6. raw' \in BOOLEAN /\ engineId' \in BOOLEAN
  BY <1>0, <1>1, Zenon DEF EngineTypeOK
<1>7. EngineTypeOK' /\ OnRecord'
  BY <1>0, <1>1, <1>5, <1>6 DEF EngineTypeOK, Exchange, OnRecord
<1> QED BY <1>2, <1>4, <1>7 DEF EngineIInv

\* A branch of the step under way aims where its baton says, and so does the continuation
\* that carries it through the queue (dispatch, continuation_stimulus).
LEMMA BranchesAim ==
  ASSUME EngineIInv, exchange = "decided", NEW b \in decision
  PROVE  /\ Branch(b) \in Lane /\ Branch(b).hop > 0 /\ Aims(Branch(b), raw)
         /\ [Branch(b) EXCEPT !.scope = Carried(b)] \in Lane
         /\ [Branch(b) EXCEPT !.scope = Carried(b)].hop > 0
         /\ Aims([Branch(b) EXCEPT !.scope = Carried(b)], FALSE)
<1>1. lane \in Lane /\ b \in Baton /\ (raw \/ lane.hop > 0)
  BY DEF EngineIInv, EngineTypeOK, LanesAim
<1>2. lane.hop \in Nat /\ lane.hop + 1 \in Nat /\ lane.hop + 1 > 0
  BY <1>1 DEF Lane
<1> DEFINE wish == IF lane.hop > 0 THEN "any" ELSE IF b.reply \in Item THEN b.reply ELSE Latest
<1>3. wish \in Wanted /\ Target(b) \in Item \cup {NoTarget}
  BY DEF Wanted, Target
<1>4. Carried(b) \in Item \cup {Latest, NoTarget, "nowhere"}
  BY <1>3 DEF Carried, TopLevel
<1>5. Branch(b) = [scope |-> Target(b), hop |-> lane.hop + 1, wanted |-> wish]
  BY DEF Branch
<1>6. [Branch(b) EXCEPT !.scope = Carried(b)]
        = [scope |-> Carried(b), hop |-> lane.hop + 1, wanted |-> wish]
  BY <1>5
<1>7. wish = "any" \/ (raw /\ b.reply \in Item /\ wish = b.reply) \/ (raw /\ b.reply \notin Item /\ wish = Latest)
  BY <1>1, <1>2
<1>8. Aims(Branch(b), raw)
  BY <1>5, <1>7, EngineBounds DEF Aims, Target
<1>9. Aims([scope |-> Carried(b), hop |-> lane.hop + 1, wanted |-> wish], FALSE)
  BY <1>7, EngineBounds DEF Aims, Carried, Target, TopLevel
<1>10. /\ [scope |-> Target(b), hop |-> lane.hop + 1, wanted |-> wish] \in Lane
       /\ [scope |-> Carried(b), hop |-> lane.hop + 1, wanted |-> wish] \in Lane
  BY <1>2, <1>3, <1>4 DEF Lane
<1> QED BY <1>2, <1>5, <1>6, <1>8, <1>9, <1>10

\* The batons become branches and continuations.
LEMMA RoutesKeeps ==
  ASSUME EngineIInv, NEW low \in SUBSET decision, Routes(low)
  PROVE  EngineIInv'
<1>0. EngineTypeOK /\ LanesAim /\ RepliesReachTheirMessage /\ OnRecord
  BY DEF EngineIInv
<1>1. /\ exchange = "decided" /\ exchange' = "idle"
      /\ lanes' = lanes \cup {Branch(b) : b \in decision \ low}
      /\ deferred' = deferred \cup {[Branch(b) EXCEPT !.scope = Carried(b)] : b \in low}
      /\ decision' = {} /\ lane' = First
      /\ UNCHANGED <<text, engineId, attempt, calls, pendingAsk, granted, recorded, performed,
                     raw, invocations, addressed>>
  BY DEF Routes, protocol
<1>2. \A b \in decision :
        /\ Branch(b) \in Lane /\ Branch(b).hop > 0 /\ Aims(Branch(b), raw)
        /\ [Branch(b) EXCEPT !.scope = Carried(b)] \in Lane
        /\ [Branch(b) EXCEPT !.scope = Carried(b)].hop > 0
        /\ Aims([Branch(b) EXCEPT !.scope = Carried(b)], FALSE)
  BY <1>1, BranchesAim
<1>3. lanes' \subseteq Lane /\ deferred' \subseteq Lane
  BY <1>0, <1>1, <1>2 DEF EngineTypeOK
<1>4. /\ \A b \in lanes' : Aims(b, raw) /\ (raw \/ b.hop > 0)
      /\ \A b \in deferred' : Aims(b, FALSE) /\ b.hop > 0
  BY <1>0, <1>1, <1>2 DEF LanesAim
<1>5. LanesAim'
  BY <1>1, <1>4 DEF LanesAim, Aims
<1>6. raw' \in BOOLEAN /\ engineId' \in BOOLEAN
  BY <1>0, <1>1, Zenon DEF EngineTypeOK
<1>7. lane' \in Lane
  BY <1>1 DEF First, Lane, Wanted
<1>8. EngineTypeOK'
  BY <1>0, <1>1, <1>3, <1>6, <1>7 DEF EngineTypeOK, Exchange
<1>9. RepliesReachTheirMessage' /\ OnRecord' /\ Emission'
  BY <1>0, <1>1 DEF RepliesReachTheirMessage, OnRecord, Emission
<1> QED BY <1>5, <1>8, <1>9 DEF EngineIInv

\* A continuation's wake begins.
LEMMA ContinuesKeeps ==
  ASSUME EngineIInv, NEW b \in deferred, Continues(b)
  PROVE  EngineIInv'
<1>0. EngineTypeOK /\ LanesAim /\ RepliesReachTheirMessage /\ OnRecord
  BY DEF EngineIInv
<1>1. /\ exchange' = "idle" /\ deferred' = deferred \ {b} /\ lanes' = {b} /\ raw' = FALSE
      /\ lane' = First
      /\ UNCHANGED <<text, engineId, attempt, calls, pendingAsk, granted, recorded, performed,
                     decision, invocations, addressed>>
  BY DEF Continues, protocol
<1>2. b \in Lane /\ Aims(b, FALSE) /\ b.hop > 0
  BY <1>0 DEF EngineTypeOK, LanesAim
<1>3. LanesAim'
  BY <1>0, <1>1, <1>2 DEF LanesAim, Aims
<1>4. engineId' \in BOOLEAN
  BY <1>0, <1>1, Zenon DEF EngineTypeOK
<1>5. lane' \in Lane
  BY <1>1 DEF First, Lane, Wanted
<1>6. EngineTypeOK'
  BY <1>0, <1>1, <1>2, <1>4, <1>5 DEF EngineTypeOK, Exchange
<1>7. RepliesReachTheirMessage' /\ OnRecord' /\ Emission'
  BY <1>0, <1>1 DEF RepliesReachTheirMessage, OnRecord, Emission
<1> QED BY <1>3, <1>6, <1>7 DEF EngineIInv

\* The invariant of the exchange and its branches.
THEOREM EngineInvariant == EngineSpec => []EngineIInv
<1>1. EngineIInv /\ [EngineNext]_engineVars => EngineIInv'
  <2> SUFFICES ASSUME EngineIInv, [EngineNext]_engineVars PROVE EngineIInv'
    OBVIOUS
  <2>1. CASE \E b \in lanes : Invoke(b)
    BY <2>1, InvokeKeeps
  <2>2. CASE Asks \/ (\E allow \in BOOLEAN : Answers(allow)) \/ (\E c \in granted : Performs(c))
    BY <2>2, CallsKeep
  <2>3. CASE \E t \in Says, named \in BOOLEAN : TurnEnds(t, named)
    BY <2>3, TurnEndsKeeps
  <2>4. CASE InvokeFails
    BY <2>4, FailureKeeps
  <2>5. CASE Receives
    BY <2>5, ReceivesKeeps
  <2>6. CASE \E low \in SUBSET decision : Routes(low)
    BY <2>6, RoutesKeeps
  <2>7. CASE \E b \in deferred : Continues(b)
    BY <2>7, ContinuesKeeps
  <2>8. CASE UNCHANGED engineVars
    BY <2>8 DEF engineVars, EngineIInv, EngineTypeOK, Emission, LanesAim, Aims, RepliesReachTheirMessage, OnRecord
  <2> QED BY <2>1, <2>2, <2>3, <2>4, <2>5, <2>6, <2>7, <2>8 DEF EngineNext
<1> QED BY EngineStarts, <1>1, PTL DEF EngineSpec

\* The variables keep their types.
THEOREM EngineTypeCorrect == EngineSpec => []EngineTypeOK
BY EngineInvariant, PTL DEF EngineIInv

\* Whatever the model wrote, every good baton of a list that its text does not hide is decided; every branch of the
\* stimulus' own step replies to the message it named, or to the latest, at once or out of
\* the queue; and every call that ran is on the wall's record (parse.ts, proposal.rs,
\* harness/mod.rs:1748-1808).
THEOREM DecisionsDoArrive == EngineSpec => []DecisionsArrive
<1>1. EngineIInv => DecisionsArrive
  <2> SUFFICES ASSUME EngineIInv PROVE DecisionsArrive
    OBVIOUS
  <2>1. ASSUME exchange = "decided"
        PROVE  /\ \A i \in Places(text, "object") :
                    text[i].shape = "list" =>
                      {b \in text[i].batons : b.good} \subseteq decision \/ Hidden(text, i)
               /\ decision \subseteq {Legacy} \cup UNION {text[i].batons : i \in Places(text, "object")}
               /\ ~Parses(text) => attempt = MaxParse \/ ~engineId
    <3>1. text \in Text /\ decision = FanOut(text)
      BY <2>1, TextsAreTexts DEF EngineIInv, EngineTypeOK, Emission
    <3>2. Parses(text) \/ attempt = MaxParse \/ ~engineId
      BY <2>1 DEF EngineIInv, Emission
    <3> QED BY <3>1, <3>2, UnhiddenIsSeen, GoodOnesSurvive, FanOutIsWritten
  <2>2. DecisionSurvives
    BY <2>1 DEF DecisionSurvives
  <2> QED BY <2>2 DEF EngineIInv, OnRecord, DecisionsArrive, PerformedIsRecorded
<1> QED BY EngineInvariant, <1>1, PTL
=============================================================================
