--------------------------- MODULE MCConsciousness ---------------------------
(* Instances of Consciousness for TLC. *)
EXTENDS Consciousness

CONSTANTS a, greet, cont   \* stimulus ids

MCIdCont == {a, cont, greet}
MCBootId == {greet}
MCPair == {a, greet}
MCPairChild == [i \in MCPair |-> {}]
MCChild == [i \in MCIdCont |-> IF i = a THEN {cont} ELSE {}]
MCBackoff == <<1>>
=============================================================================
