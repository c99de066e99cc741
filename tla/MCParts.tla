------------------------------ MODULE MCParts ------------------------------
(* Instances for TLC of the components that keep to themselves: nothing that   *)
(* one of them reads is written by another.  `part` picks the one that runs,   *)
(* and the others rest in their initial states, so that the states of the run  *)
(* are those of each component alone.                                          *)
EXTENDS Supervisor, Sources, Runlog, Workers, Sessions, Engine

CONSTANTS memory, etc   \* volumes: a directory of the soul, one outside it

VARIABLE part
partsVars == <<supervisorVars, sourcesVars, runlogVars, workersVars, sessionsVars, engineVars, part>>

Init ==
  /\ SupervisorInit /\ SourcesInit /\ RunlogInit /\ SessionsInit /\ EngineInit
  /\ WorkersInit
  /\ part \in {"supervisor", "sources", "runlog", "workers", "sessions", "engine"}
  /\ part # "workers" => setting = CHOOSE s \in Settings : TRUE

Supervises == /\ part = "supervisor" /\ SupervisorNext
              /\ UNCHANGED <<sourcesVars, runlogVars, workersVars, sessionsVars, engineVars, part>>
Triggers == /\ part = "sources" /\ SourcesNext
            /\ UNCHANGED <<supervisorVars, runlogVars, workersVars, sessionsVars, engineVars, part>>
Records == /\ part = "runlog" /\ RunlogNext
           /\ UNCHANGED <<supervisorVars, sourcesVars, workersVars, sessionsVars, engineVars, part>>
Delegates == /\ part = "workers" /\ WorkersNext
             /\ UNCHANGED <<supervisorVars, sourcesVars, runlogVars, sessionsVars, engineVars, part>>
Resumes == /\ part = "sessions" /\ SessionsNext
           /\ UNCHANGED <<supervisorVars, sourcesVars, runlogVars, workersVars, engineVars, part>>
Decides == /\ part = "engine" /\ EngineNext
           /\ UNCHANGED <<supervisorVars, sourcesVars, runlogVars, workersVars, sessionsVars, part>>

Next == Supervises \/ Triggers \/ Records \/ Delegates \/ Resumes \/ Decides
Spec == Init /\ [][Next]_partsVars

\* The type invariants of the six.
TypeOK == /\ SupervisorTypeOK /\ SourcesTypeOK /\ RunlogTypeOK
          /\ WorkersTypeOK /\ SessionsTypeOK /\ EngineTypeOK

----------------------------------------------------------------------------
(* Which reload task and which worker slot is which makes no difference.       *)
Alike == Permutations(Reloader) \cup Permutations(Slot)

(* The supervisor has one module on and one off.                           *)

(* One duty changes its schedule, one a webhook for a schedule, and both back. *)
Cron(s) == [kind |-> "cron", at |-> s]
Hook == [kind |-> "webhook", path |-> "p"]
MCFirst == ("a" :> Cron({1, 2}) @@ "b" :> Hook)
MCRoster == {MCFirst, ("a" :> Cron({1, 3}) @@ "b" :> Cron({2}))}

(* A second heading within an entry, with a label and an early timestamp.      *)
MCStray == {<<[timestamp |-> 1, labels |-> {"a"}]>>}

(* Two agents whose names fall together once they are file names, one that     *)
(* has no definition; every setting of the sandbox.                        *)
Def(d, v, t) == [docker |-> d, volumes |-> v, tools |-> t]
MCAgent == {"lab/code", "lab_code", "gone"}
MCFlat == ("lab/code" :> "lab_code" @@ "lab_code" :> "lab_code" @@ "gone" :> "gone")
MCFile == ("lab/code" :> Def(TRUE, {memory, etc}, {"edit"})
           @@ "lab_code" :> Def(FALSE, {}, {"search"}) @@ "gone" :> Missing)
MCSettings == [enabled : BOOLEAN, image : BOOLEAN, ignored : BOOLEAN, require : BOOLEAN]

(* A prompt that duties enter, and one that only batons reach.             *)
MCWays == ("perceive" :> {"entry"} @@ "express" :> {"act"})
MCLean == [p \in {"perceive", "express"} |-> TRUE]

(* A list with a malformed baton and one that answers a message; a decision    *)
(* split over two objects within one block, with a target nobody sent; a baton *)
(* beside an empty object; a list of nothing usable beside a transition; a     *)
(* stop; an array; prose.  A list in a block and one outside it; one after an  *)
(* empty block; one after a stray quote, and after two; one after a stray      *)
(* brace; a block within a string, alone and cutting off a block.              *)
Good(i) == [good |-> TRUE, reply |-> i]
Bad == [good |-> FALSE, reply |-> "none"]
Written(s, b, n) == [kind |-> "object", shape |-> s, batons |-> b, next |-> n, ticks |-> FALSE]
Of(kind) == [kind |-> kind]
List(i) == Written("list", {Good(i)}, "absent")
Ticking(i) == [List(i) EXCEPT !.ticks = TRUE]
MCSays ==
  { <<Written("list", {Good("m1"), Bad}, "absent")>>,
    <<Of("words"), Of("fence"), Written("list", {Good("m2"), Good("unseen")}, "null"),
      Written("list", {Good("none")}, "go"), Of("fence")>>,
    <<Written("single", {Good("none")}, "go"), Written("absent", {}, "absent")>>,
    <<Written("list", {Bad}, "go")>>,
    <<Written("list", {}, "null")>>,
    <<Of("value")>>,
    <<Of("words")>>,
    <<Of("fence"), List("m1"), Of("fence"), Of("words"), Of("fence"), List("m2"), Of("fence")>>,
    <<Of("fence"), Of("fence"), List("m2")>>,
    <<Of("quote"), List("m1"), Of("quote"), List("m2")>>,
    <<Of("brace"), List("m1")>>,
    <<Ticking("m1")>>,
    <<Of("fence"), List("m1"), Ticking("m2"), Of("fence")>> }
=============================================================================
