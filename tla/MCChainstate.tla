---------------------------- MODULE MCChainstate ----------------------------
(***************************************************************************)
(* Two branches over genesis.  On the first both blocks are valid; on the  *)
(* second b2 is found to be invalid when it is connected, after the active *)
(* chain was left for it, and b3 is refused when it arrives.               *)
(***************************************************************************)
EXTENDS Chainstate

CONSTANTS g, a1, a2, b1, b2, b3

MCParent ==
  [b \in Blocks |-> CASE b = g -> NoBlock [] b \in {a1, b1} -> g [] b = a2 -> a1
                      [] b = b2 -> b1 [] b = b3 -> b2]

MCAddress ==
  [b \in Blocks |-> CASE b = g -> 6 [] b = a1 -> 5 [] b = a2 -> 4 [] b = b1 -> 3
                      [] b = b2 -> 2 [] b = b3 -> 1]
=============================================================================
