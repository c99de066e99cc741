------------------------------- MODULE Engine -------------------------------
(***************************************************************************)
(* An invocation, and what becomes of the decision it returns: the client  *)
(* (src/runtime/openclaude.rs), the bridge it spawns and talks NDJSON with *)
(* (openclaude-bridge/bridge.ts, parse.ts), the salvage of what the model  *)
(* wrote (src/model/proposal.rs), and the destination each branch replies  *)
(* to (src/harness/mod.rs).                                                *)
(*                                                                         *)
(* Which batons pass the gates, in which order they run and when they are  *)
(* retried is module Dispatch' business: here every baton passes, and runs *)
(* in any order.  What the wall answers is module Wall's.                  *)
(***************************************************************************)
EXTENDS Naturals, Sequences, FiniteSets

CONSTANTS
  Item,           \* the messages of the stimulus' batch, by the id a reply names
  Latest,         \* the destination in the top level of its payload: the newest message
  NoTarget,       \* no reply_to, and no scope
  Says,           \* what the model may end a turn with
  MaxParse,       \* MAX_PARSE_RETRIES
  MaxCalls,       \* bound: tool calls of one invocation
  MaxInvocations  \* bound: invocations

\* A baton as written, good when a BatonIntent can be made of it; it may name a message
\* that the batch does not hold.
Baton == [good : BOOLEAN, reply : Item \cup {NoTarget, "unseen"}]

\* A top-level JSON object: its `batons` (none, one object, or a list), whether it has a
\* legacy `transition`, null or to somewhere, and whether one of its strings holds a whole
\* ```...``` block.
Object == [kind : {"object"}, shape : {"absent", "single", "list"}, batons : SUBSET Baton,
           next : {"absent", "null", "go"}, ticks : BOOLEAN]

\* What else a text is made of: a ``` mark, a single ", a { that nothing closes, a JSON value
\* that is no object (an array of objects, when it stands alone), and any other words.
Other == [kind : {"fence", "quote", "brace", "value", "words"}]

\* The final text of a turn.
Text == Seq(Object \cup Other)

ASSUME EngineAssumption ==
  /\ {MaxParse, MaxCalls, MaxInvocations} \subseteq Nat
  /\ Says \subseteq Text
  /\ Latest \notin Item /\ NoTarget \notin Item /\ Latest # NoTarget

\* How far an invocation has come, by the messages of the two protocols.
Exchange == {"idle", "first", "recovery", "emitted", "decided", "failed"}

\* A branch: the scope its baton carries, what the model wanted, its distance from the
\* raw stimulus.
Wanted == Item \cup {Latest, "any"}
Lane == [scope : Item \cup {Latest, NoTarget, "nowhere"}, wanted : Wanted, hop : Nat]

VARIABLES
  exchange,
  text,       \* the final text of the last turn
  engineId,   \* the engine reported a session id
  attempt,    \* recovery turns so far
  calls,      \* tool calls so far
  pendingAsk, \* calls the bridge relayed, not answered yet
  granted,    \* calls the wall allowed, which the engine has not run yet
  recorded,   \* calls the wall allowed, as the harness knows them
  decision,   \* the fan-out the client returned
  lane,       \* the branch that runs
  lanes,      \* the worklist
  raw,        \* the wake's stimulus is the raw one, not a continuation
  deferred,   \* continuations in the queue
  invocations,
  performed,  \* history: calls that ran
  addressed   \* history: destination and wish of each branch that ran

engineVars == <<exchange, text, engineId, attempt, calls, pendingAsk, granted, recorded,
                decision, lane, lanes, raw, deferred, invocations, performed, addressed>>
protocol == <<text, engineId, attempt, calls, pendingAsk, granted, recorded, performed>>
wakeState == <<lane, lanes, raw, deferred, invocations, addressed>>

NoText == <<>>
First == [scope |-> NoTarget, wanted |-> "any", hop |-> 0]

EngineInit ==
  /\ exchange = "idle" /\ text = NoText /\ engineId = FALSE /\ attempt = 0 /\ calls = 0
  /\ pendingAsk = {} /\ granted = {} /\ recorded = {} /\ decision = {}
  /\ lane = First /\ lanes = {First} /\ raw = TRUE /\ deferred = {}
  /\ invocations = 0 /\ performed = {} /\ addressed = {}

----------------------------------------------------------------------------
(* The exchange.                                                           *)

\* What the reply server's scope_env is read from: the branch's scope, else the payload,
\* and a continuation's payload names no chat.
TopLevel == IF raw THEN Latest ELSE "nowhere"
Destination(b) == IF b.scope # NoTarget THEN b.scope ELSE TopLevel

\* A fresh bridge gets the one invocation.
Invoke(b) ==
  /\ exchange = "idle" /\ b \in lanes /\ invocations < MaxInvocations
  /\ exchange' = "first"
  /\ lane' = b /\ lanes' = lanes \ {b} /\ invocations' = invocations + 1
  /\ addressed' = addressed \cup {[to |-> Destination(b), wanted |-> b.wanted]}
  /\ text' = NoText /\ engineId' = FALSE /\ attempt' = 0 /\ calls' = 0
  /\ pendingAsk' = {} /\ granted' = {} /\ recorded' = {} /\ performed' = {}
  /\ UNCHANGED <<decision, raw, deferred>>

\* canUseTool: relayed to the wall in the first turn.  A recovery turn's calls are denied
\* in the bridge, and change nothing.
Asks ==
  /\ exchange = "first" /\ calls < MaxCalls
  /\ calls' = calls + 1
  /\ pendingAsk' = pendingAsk \cup {calls'}
  /\ UNCHANGED <<exchange, text, engineId, attempt, granted, recorded, performed, decision,
                 wakeState>>

\* The responder that wraps the wall: it keeps each decision before it returns it.
Recorder(c, allow) == recorded' = IF allow THEN recorded \cup {c} ELSE recorded

\* The client answers the oldest.
Answers(allow) ==
  /\ exchange = "first"
  /\ \E c \in pendingAsk :
       /\ \A d \in pendingAsk : c <= d
       /\ pendingAsk' = pendingAsk \ {c}
       /\ granted' = IF allow THEN granted \cup {c} ELSE granted
       /\ Recorder(c, allow)
  /\ UNCHANGED <<exchange, text, engineId, attempt, calls, performed, decision, wakeState>>

Performs(c) ==
  /\ exchange = "first" /\ c \in granted
  /\ granted' = granted \ {c} /\ performed' = performed \cup {c}
  /\ UNCHANGED <<exchange, text, engineId, attempt, calls, pendingAsk, recorded, decision,
                 wakeState>>

Places(t, kind) == {i \in DOMAIN t : t[i].kind = kind}

\* Where the text of a ```...``` block may begin or end.
Marks(t) == Places(t, "fence") \cup {i \in Places(t, "object") : t[i].ticks}

\* tryParseOutput reads the inside of the first block, unless that is empty, else the whole
\* text.  The block may be one inside a string, or end inside one: that object is gone.
Opens(t, a) == a \in Marks(t) /\ \A i \in Marks(t) : a <= i
Closes(t, a, b) == b \in Marks(t) /\ a < b /\ \A i \in Marks(t) : a < i => b <= i
OutOfBlock(t, i) ==
  \E a \in Marks(t) :
    /\ Opens(t, a)
    /\ \/ t[a].kind = "object"
       \/ \E b \in Marks(t) : /\ Closes(t, a, b)
                              /\ b > a + 1 \/ t[b].kind = "object"
                              /\ i <= a \/ i >= b
Inside(t) == {i \in DOMAIN t : ~OutOfBlock(t, i)}

\* extractJsonObjects: between a stray " and the next nothing is an object, and after a stray
\* { nothing is one by itself.
Quoted(t, i) == Cardinality({j \in Inside(t) : j < i /\ t[j].kind = "quote"}) % 2 = 1
Seen(t) ==
  {i \in Inside(t) : /\ t[i].kind = "object" /\ ~Quoted(t, i)
                     /\ \A j \in Inside(t) : j < i /\ t[j].kind = "brace" => Quoted(t, j)}

\* Anything that holds an object, or parses as JSON.
Parses(t) == Seen(t) # {} \/ \E i \in Places(t, "value") : Inside(t) = {i}

\* The turn is over.  Prose is asked again for the object, in the same session, as often
\* as MaxParse says; then, or without a session, it is what is returned.
TurnEnds(t, named) ==
  /\ exchange \in {"first", "recovery"} /\ pendingAsk = {} /\ granted = {}
  /\ text' = t /\ engineId' = (engineId \/ named)
  /\ IF ~Parses(t) /\ attempt < MaxParse /\ engineId'
     THEN exchange' = "recovery" /\ attempt' = attempt + 1
     ELSE exchange' = "emitted" /\ attempt' = attempt
  /\ UNCHANGED <<calls, pendingAsk, granted, recorded, performed, decision, wakeState>>

\* An error event, a closed pipe, a line that is no event, or the budget is over: the
\* bridge dies with the client's future, and the wake with it.
InvokeFails ==
  /\ exchange \in {"first", "recovery", "emitted"}
  /\ exchange' = "failed"
  /\ lanes' = {}
  /\ UNCHANGED <<protocol, decision, lane, raw, deferred, invocations, addressed>>

----------------------------------------------------------------------------
(* The decision.                                                           *)

Having(t, field) == {i \in Seen(t) : t[i][field] # "absent"}

\* The last object that has the field.
LastOf(t, field) == {i \in Having(t, field) : \A j \in Having(t, field) : j <= i}

Lists(t) == UNION {t[i].batons : i \in {j \in Seen(t) : t[j].shape = "list"}}

\* The lists of all objects are joined (exact duplicates are one); without any, the last
\* object's field wins.
Merged(t) == IF Lists(t) # {} THEN Lists(t)
             ELSE UNION {t[i].batons : i \in LastOf(t, "shape")}

Legacy == [good |-> TRUE, reply |-> NoTarget]

\* The lenient deserializers drop a malformed baton alone; fan_out falls back to a legacy
\* transition.  A value that is no object has no fields.
FanOut(t) ==
  LET kept == {b \in Merged(t) : b.good} IN
  IF kept # {} THEN kept
  ELSE IF \E i \in LastOf(t, "next") : t[i].next = "go" THEN {Legacy} ELSE {}

Receives ==
  /\ exchange = "emitted"
  /\ exchange' = "decided"
  /\ decision' = FanOut(text)
  /\ UNCHANGED <<protocol, wakeState>>

\* resolve_scope_override: the message the baton names, if the wake's batch holds it.
Target(b) == IF raw /\ b.reply \in Item THEN b.reply ELSE NoTarget

Branch(b) ==
  [scope |-> Target(b), hop |-> lane.hop + 1,
   wanted |-> IF lane.hop > 0 THEN "any" ELSE IF b.reply \in Item THEN b.reply ELSE Latest]

\* Mutant of Carried: only an explicit target is carried.
CarriedTarget(b) == Target(b)

\* continuation_stimulus: the target, else the origin's reply scalars.
Carried(b) == IF Target(b) # NoTarget THEN Target(b) ELSE TopLevel

\* The batons become branches of this wake, the low ones continuations.
Routes(low) ==
  /\ exchange = "decided" /\ low \subseteq decision
  /\ exchange' = "idle"
  /\ lanes' = lanes \cup {Branch(b) : b \in decision \ low}
  /\ deferred' = deferred \cup {[Branch(b) EXCEPT !.scope = Carried(b)] : b \in low}
  /\ decision' = {} /\ lane' = First
  /\ UNCHANGED <<protocol, raw, invocations, addressed>>

\* The wake is over, and a continuation's begins.
Continues(b) ==
  /\ exchange \in {"idle", "failed"} /\ lanes = {} /\ b \in deferred
  /\ exchange' = "idle"
  /\ deferred' = deferred \ {b} /\ lanes' = {b} /\ raw' = FALSE
  /\ lane' = First
  /\ UNCHANGED <<protocol, decision, invocations, addressed>>

EngineNext ==
  \/ \E b \in lanes : Invoke(b)
  \/ Asks
  \/ \E allow \in BOOLEAN : Answers(allow)
  \/ \E c \in granted : Performs(c)
  \/ \E t \in Says, named \in BOOLEAN : TurnEnds(t, named)
  \/ InvokeFails
  \/ Receives
  \/ \E low \in SUBSET decision : Routes(low)
  \/ \E b \in deferred : Continues(b)

EngineSpec == EngineInit /\ [][EngineNext]_engineVars

----------------------------------------------------------------------------
(* Properties.                                                             *)

EngineTypeOK ==
  /\ exchange \in Exchange
  /\ text \in Says \cup {NoText} /\ engineId \in BOOLEAN
  /\ attempt \in 0 .. MaxParse /\ calls \in 0 .. MaxCalls
  /\ pendingAsk \subseteq 1 .. calls /\ granted \subseteq 1 .. calls
  /\ recorded \subseteq 1 .. calls /\ performed \subseteq 1 .. calls
  /\ decision \subseteq Baton
  /\ lane \in Lane /\ lanes \subseteq Lane /\ deferred \subseteq Lane
  /\ raw \in BOOLEAN /\ invocations \in Nat
  /\ \A a \in addressed : a.wanted \in Wanted

\* How a text can hide an object from the parse: a stray " or { before it; a block in a
\* string, of any object; or another place than the one block of the text.
Hidden(t, i) ==
  \/ \E j \in Places(t, "quote") \cup Places(t, "brace") : j < i
  \/ \E j \in Places(t, "object") : t[j].ticks
  \/ \E a, b \in Places(t, "fence") : a < b /\ (i < a \/ b < i)

\* proposal.rs:80, "repair what's usable, drop what isn't, never fail the cycle", and
\* parse.ts:111, of split objects: every good baton of every list the model wrote is in the
\* decision, whatever stands beside it, unless the text hides the list; and nothing that was
\* not written is in it but a legacy transition.  Prose is settled for only after all its
\* retries, or for want of a session to ask in.
DecisionSurvives ==
  exchange = "decided" =>
    /\ \A i \in Places(text, "object") :
         text[i].shape = "list" =>
           {b \in text[i].batons : b.good} \subseteq decision \/ Hidden(text, i)
    /\ decision \subseteq {Legacy} \cup UNION {text[i].batons : i \in Places(text, "object")}
    /\ ~Parses(text) => attempt = MaxParse \/ ~engineId

\* harness/mod.rs:1748 and 2502: a branch of the stimulus' own step replies to the message
\* its baton named, or to the latest when it named none the batch holds, whether it ran in
\* the wake or was deferred to the queue and woken later.
RepliesReachTheirMessage ==
  \A a \in addressed : a.wanted = "any" \/ a.to = a.wanted

\* What ran was on the wall's record first, so that a wake that hangs after it is not
\* run again (:697).
PerformedIsRecorded == performed \subseteq recorded

\* An invocation's decision arrives whole, its branches reply where they should, and what
\* it did is known, however the exchange ends.
DecisionsArrive == DecisionSurvives /\ RepliesReachTheirMessage /\ PerformedIsRecorded
=============================================================================
