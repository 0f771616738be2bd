-------------------------- MODULE MCProviderSlots --------------------------
(* A root with three children: deeper than the limit one and wider than    *)
(* the limit two.  Three requests can compete for the last slot.           *)
EXTENDS ProviderSlots, TLC

CONSTANTS root, left, middle, right

MCAgents == {root, left, middle, right}
MCParent == (root :> NoAgent) @@ (left :> root) @@ (middle :> root) @@ (right :> root)
MCLimits == {-1, 1, 2}
=============================================================================
