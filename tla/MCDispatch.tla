----------------------------- MODULE MCDispatch -----------------------------
(* Instances of Dispatch for TLC: the documented lattice with an org tier, *)
(* a soul with one prompt per state, and three servers.                    *)
EXTENDS Dispatch

CONSTANTS public, org, self, operator, nowhere   \* tiers; nowhere is not in the lattice
CONSTANTS look, say, trade, grow                 \* prompts
CONSTANTS feed, ledger                           \* servers

MCTier == {public, org, self, operator, nowhere}
MCLattice == <<[name |-> public,   reaches |-> "express"],
               [name |-> org,      reaches |-> "settle"],
               [name |-> self,     reaches |-> "reflect"],
               [name |-> operator, reaches |-> "reflect"]>>
MCPrompt == {look, say, trade, grow}
MCStateOf == [p \in MCPrompt |-> CASE p = look  -> "perceive" [] p = say  -> "express"
                                   [] p = trade -> "settle"   [] p = grow -> "reflect"]
MCTransitions == [p \in MCPrompt |-> CASE p = look  -> {say, grow}
                                       [] p = say   -> {trade}
                                       [] p = trade -> {}
                                       [] p = grow  -> {look}]
MCServer == {feed, ledger}
MCServerTrust == [v \in MCServer |-> IF v = feed THEN public ELSE org]
MCServerMin == [v \in MCServer |-> org]
MCServerStates == [v \in MCServer |-> IF v = feed THEN {"perceive", "express"}
                                                  ELSE {"settle"}]
Seed(p, d, s, w) == [prompt |-> p, directive |-> d, signed |-> s, payload |-> w]
\* A signed request, a reflection, and two seeds whose entry is above their trust.
MCSeeds == {Seed(look, operator, TRUE, self), Seed(grow, self, FALSE, self),
            Seed(trade, operator, FALSE, self), Seed(trade, self, FALSE, nowhere)}
\* Two prompts are enough to outrun the step cap.
MCSeedsOne == {Seed(look, self, FALSE, self)}
=============================================================================
