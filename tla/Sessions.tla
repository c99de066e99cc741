------------------------------- MODULE Sessions -------------------------------
(***************************************************************************)
(* Sticky sessions (src/harness/mod.rs: sticky_session_key, sticky_resume, *)
(* sticky_store, and their use in run_step): a step of a sticky prompt     *)
(* resumes the engine's session of its key while it is fresh and small,    *)
(* and is then shown less, for the session holds the rest already.         *)
(*                                                                         *)
(* The map lives in memory and only the loop uses it, one step at a time;  *)
(* the engine keeps its sessions.  Names are atoms: the key, a string      *)
(* joined with '|' and ',', is the tuple of its parts.                     *)
(***************************************************************************)
EXTENDS Naturals

CONSTANTS
  Prompt,      \* sticky prompts
  Ways,        \* Ways[p]: how steps of p come about, "entry" of a duty or "act" on a baton
  Lean,        \* Lean[p]: p's file has a ---resume--- frame
  Tier,        \* tiers that a step may start at
  Dims,        \* values of the prompt's dimensions; what a stimulus lacks is one of them
  Ttl,         \* session_ttl_secs; 0 never expires
  Cap,         \* session_max_context_tokens
  MaxContext,  \* bound: what the engine reports of a context
  MaxMoment,   \* bound: instants
  MaxTurns,    \* bound: steps
  MaxLives     \* bound: lives of the daemon

ASSUME SessionsAssumption ==
  /\ {Ttl, Cap, MaxContext, MaxMoment, MaxTurns, MaxLives} \subseteq Nat
  /\ Cap < MaxContext
  /\ Ways \in [Prompt -> SUBSET {"entry", "act"}]
  /\ Lean \in [Prompt -> BOOLEAN]

Asker == [prompt : Prompt, tier : Tier, dims : Dims]
NoAsker == [prompt |-> "none", tier |-> "none", dims |-> "none"]

VARIABLES
  moment,
  sessions,   \* sessions[key]: [id, last]; id 0 where there is none
  asked,      \* the step whose invocation runs, or NoAsker
  resumed,    \* the session it resumes, or 0
  shown,      \* the blocks it is shown
  turns,      \* steps begun; a fresh session is named by its step
  life,       \* lives of the daemon
  askedAt,    \* history: the instant of its lookup
  talk        \* history: talk[id], what the daemon last learnt of session id

sessionsVars == <<moment, sessions, asked, resumed, shown, turns, life, askedAt, talk>>

\* Mutant of Key: sessions are not kept apart by trust.
KeyUntrusted(a) == <<a.prompt, a.dims>>

\* sticky_session_key.
Key(a) == <<a.prompt, a.tier, a.dims>>

NoSession == [id |-> 0, last |-> 0]
NoSessions == [key \in {Key(a) : a \in Asker} |-> NoSession]
NoTalk == [asker |-> NoAsker, life |-> 0, used |-> 0, context |-> 0, held |-> {}]

SessionsInit ==
  /\ moment = 0 /\ sessions = NoSessions /\ asked = NoAsker /\ resumed = 0
  /\ shown = {} /\ turns = 0 /\ life = 1 /\ askedAt = 0
  /\ talk = [id \in 1 .. MaxTurns |-> NoTalk]

MomentPasses ==
  /\ moment < MaxMoment /\ moment' = moment + 1
  /\ UNCHANGED <<sessions, asked, resumed, shown, turns, life, askedAt, talk>>

----------------------------------------------------------------------------
(* What a step is shown.                                                   *)

\* Stable blocks, which a session is shown once.
Teaching(p) == <<"task", p>>
SelfOrientation == <<"self-orientation">>
Directive == <<"directive">>
Payload == <<"payload">>

\* The frame of the prompt: the full teaching, or on a resume the lean cue if there is one.
TaskBlocks(p, fresh) == IF fresh \/ ~Lean[p] THEN {Teaching(p)} ELSE {<<"resume-cue">>}

\* The map of the runlog, or what is new of it.
EnvironmentBlocks(fresh) == {IF fresh THEN <<"environment">> ELSE <<"environment-recent">>}

\* runlog_blocks: the map and the thread's history, or what is new of both.
RunlogBlocks(fresh) ==
  EnvironmentBlocks(fresh) \cup {IF fresh THEN <<"thread">> ELSE <<"thread-recent">>}

\* What a baton carries: the gist of the step that wrote it and the harness' own
\* references, never the payload.
Gist == <<"baton">>

\* context_blocks of an Entry and of an Act step.
EntryBlocks(fresh) ==
  RunlogBlocks(fresh) \cup {Payload}
    \cup (IF fresh THEN {SelfOrientation, Directive} ELSE {<<"lean-directive">>})
ActBlocks(fresh) == RunlogBlocks(fresh) \cup {Gist}

\* Blocks of every step, whatever its session holds.
Always == {<<"orientation">>, <<"allowed-transitions">>}

Shown(p, way, fresh) ==
  Always \cup TaskBlocks(p, fresh)
    \cup (IF way = "entry" THEN EntryBlocks(fresh) ELSE ActBlocks(fresh))

----------------------------------------------------------------------------
(* One step.                                                               *)

Unexpired(s) == Ttl = 0 \/ moment - s.last < Ttl

\* sticky_resume: a stale entry is dropped.
AskEngine(a, way) ==
  /\ way \in Ways[a.prompt]
  /\ asked = NoAsker /\ turns < MaxTurns
  /\ LET s == sessions[Key(a)] IN
     IF s.id # 0 /\ Unexpired(s) THEN resumed' = s.id /\ sessions' = sessions
     ELSE resumed' = 0 /\ sessions' = [sessions EXCEPT ![Key(a)] = NoSession]
  /\ shown' = Shown(a.prompt, way, resumed' = 0)
  /\ asked' = a /\ askedAt' = moment /\ turns' = turns + 1
  /\ UNCHANGED <<moment, life, talk>>

\* The engine may name no session, the resumed one, or one of its own for this step.
Named == {0, turns} \cup {resumed}

\* What the resumed session already held.
Held == IF resumed = 0 THEN {} ELSE talk[resumed].held

\* sticky_store.
Stored(id) == [sessions EXCEPT ![Key(asked)] = [id |-> id, last |-> moment]]

\* The invocation succeeded: a context over the cap evicts the entry, a named session
\* replaces it.
Answered(id, context) ==
  /\ asked # NoAsker
  /\ sessions' = IF context > Cap THEN [sessions EXCEPT ![Key(asked)] = NoSession]
                 ELSE IF id = 0 THEN sessions
                 ELSE Stored(id)
  /\ talk' = IF id = 0 THEN talk
             ELSE [talk EXCEPT ![id] = [asker |-> asked, life |-> life, used |-> moment,
                                        context |-> context, held |-> Held \cup shown]]
  /\ asked' = NoAsker /\ askedAt' = 0 /\ resumed' = 0 /\ shown' = {}
  /\ UNCHANGED <<moment, turns, life>>

\* The invocation failed: the step returns before the bookkeeping.
AskFailed ==
  /\ asked # NoAsker
  /\ asked' = NoAsker /\ askedAt' = 0 /\ resumed' = 0 /\ shown' = {}
  /\ UNCHANGED <<moment, sessions, turns, life, talk>>

\* The map is lost with the process.
Restarted ==
  /\ life < MaxLives /\ life' = life + 1
  /\ sessions' = NoSessions /\ asked' = NoAsker /\ askedAt' = 0 /\ resumed' = 0 /\ shown' = {}
  /\ UNCHANGED <<moment, turns, talk>>

SessionsNext ==
  \/ MomentPasses
  \/ \E a \in Asker, way \in {"entry", "act"} : AskEngine(a, way)
  \/ \E id \in Named, context \in 0 .. MaxContext : Answered(id, context)
  \/ AskFailed \/ Restarted

SessionsSpec == SessionsInit /\ [][SessionsNext]_sessionsVars

----------------------------------------------------------------------------
(* Properties.                                                             *)

Block == UNION {Shown(p, way, fresh) : p \in Prompt, way \in {"entry", "act"}, fresh \in BOOLEAN}

SessionsTypeOK ==
  /\ moment \in Nat /\ turns \in 0 .. MaxTurns /\ life \in Nat
  /\ resumed \in 0 .. turns /\ askedAt \in Nat
  /\ asked \in Asker \cup {NoAsker}
  /\ sessions \in [{Key(a) : a \in Asker} -> [id : 0 .. turns, last : Nat]]
  /\ talk \in [1 .. MaxTurns ->
                 [asker : Asker \cup {NoAsker}, life : Nat, used : Nat, context : Nat,
                  held : SUBSET Block]]
  /\ shown \subseteq Block

\* What a step of p shows a fresh session and no resumed one, in whichever way it comes about.
LeftOut(p) ==
  {b \in {Teaching(p), SelfOrientation, Directive} :
     \A way \in Ways[p] : b \in Shown(p, way, TRUE) /\ b \notin Shown(p, way, FALSE)}

\* harness/mod.rs:605 and 2083: "Same key => the same resumable session; the taint being
\* part of the key keeps sessions isolated per trust level".  Whatever failed, expired or
\* was evicted between, a step resumes only a session that the last step of its own prompt,
\* starting trust and dimensions to name it left in this life of the daemon, within the
\* TTL of the lookup, and small enough.  Such a session holds the frame, the directive and
\* the self-orientation that the step is not shown again (:1231, "a resume already holds
\* it"), and a prompt that no duty enters never resumes one that holds a world payload
\* (:608, "the FIREBREAK still holds ... Express never resumes Perceive's session").
ResumesOwnConversation ==
  /\ resumed # 0 =>
       /\ talk[resumed].asker = asked
       /\ talk[resumed].life = life
       /\ talk[resumed].context <= Cap
       /\ LeftOut(asked.prompt) \subseteq talk[resumed].held
       /\ Payload \in talk[resumed].held => "entry" \in Ways[asked.prompt]
       /\ Ttl > 0 => askedAt < talk[resumed].used + Ttl
  /\ \A a \in Asker :
       LET s == sessions[Key(a)] IN
       s.id # 0 => s.last = talk[s.id].used /\ talk[s.id].asker = a
=============================================================================
