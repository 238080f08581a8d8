---------------------------- MODULE MCCoinsFlush ----------------------------
(***************************************************************************)
(* A tree of four blocks: a common block, and two branches that spend its  *)
(* output with the same transaction.  a2 is a block of proof of work, b2   *)
(* one of proof of stake that also spends what it has created.             *)
(***************************************************************************)
EXTENDS CoinsFlush

CONSTANTS g, a1, a2, b2

MCParent == [b \in {g, a1, a2, b2} |->
               CASE b = g -> NoBlock [] b = a1 -> g [] b \in {a2, b2} -> a1]

Tx(in, out) == [in |-> in, out |-> out]

MCTxs == [b \in {g, a1, a2, b2} |->
            CASE b = g  -> <<>>
              [] b = a1 -> <<Tx({}, {"x"})>>
              [] b = a2 -> <<Tx({}, {"y"}), Tx({"x"}, {"z"})>>
              [] b = b2 -> <<Tx({}, {"empty"}), Tx({"x"}, {"z"}), Tx({"z"}, {"v"})>>]
=============================================================================
