---------------------------- MODULE TrustLattice ----------------------------
(***************************************************************************)
(* The trust lattice of src/config/mod.rs and the reachability of states   *)
(* of src/state/mod.rs: constant-level operators.                          *)
(***************************************************************************)
EXTENDS Integers, Sequences

CONSTANTS
  Tier,     \* every tier name that can occur, known to the lattice or not
  Lattice   \* trust_tiers, low to high: records [name, reaches]

State == {"perceive", "express", "settle", "reflect"}

\* state::reach_rank
StateRank(s) == CASE s = "perceive" -> 0
                  [] s = "express"  -> 1
                  [] s = "settle"   -> 2
                  [] s = "reflect"  -> 3

ASSUME LatticeAssumption == Lattice \in Seq([name : Tier, reaches : State])

At(t) == {k \in DOMAIN Lattice : Lattice[k].name = t}

\* The first entry of that name; lists are searched from the low end.
Position(t) == CHOOSE k \in At(t) : \A j \in At(t) : k <= j

\* A name the lattice does not have ranks lowest.
Rank(t) == IF At(t) = {} THEN 0 ELSE Position(t) - 1

\* The highest state a cycle of this tier may walk to; Express for an unknown name.
Reaches(t) == IF At(t) = {} THEN "express" ELSE Lattice[Position(t)].reaches

\* Mutant of Meet: the higher-ranked of the two.
MeetHigher(x, y) == IF Rank(x) >= Rank(y) THEN x ELSE y

\* The lower-ranked of two tiers, the first on a tie.
Meet(x, y) == IF Rank(x) <= Rank(y) THEN x ELSE y

\* Whether a cycle of tier t clears a capability's min_trust.
Permits(t, min) == Rank(t) >= Rank(min)

\* state::within_ceiling
WithinCeiling(s, ceiling) == StateRank(s) <= StateRank(ceiling)

\* state::allowed_transition: Reflect exits to nothing.
AllowedTransition(from, to) == from # "reflect"

(***************************************************************************)
(* The lattice is listed low to high: a tier ranked no lower reaches no    *)
(* less.  The default list and the documented custom ones satisfy it; the  *)
(* configuration loader does not check it.                                 *)
(***************************************************************************)
ASSUME ReachesMonotone ==
  \A x, y \in Tier : Rank(x) <= Rank(y) => WithinCeiling(Reaches(x), Reaches(y))
=============================================================================
