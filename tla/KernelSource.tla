----------------------------- MODULE KernelSource -----------------------------
(***************************************************************************)
(* Where the coin a block stakes comes from: what the lookup (CoinLookup)  *)
(* finds, for any block, any coin and any time, in every state of a        *)
(* transaction index (TxIndex) that may lag behind the active chain.       *)
(***************************************************************************)
EXTENDS TxIndex

CONSTANT StakeTimes     \* the times of the coinstakes considered

\* A chain creates a coin once, at or before the block that spends it.
ASSUME KernelSourceAssumption ==
    /\ StakeMinAge \in Nat /\ StakeTimes \subseteq Nat
    /\ \A b \in Tree : \A h \in 1 .. Len(b) :
          /\ b[h].time \in Nat
          /\ \A c \in b[h].creates : \A k \in 1 .. Len(b) : c \in b[k].creates => k = h
          /\ \A c \in b[h].spends : \E k \in 1 .. h : c \in b[k].creates

-----------------------------------------------------------------------------
(***************************************************************************)
(* Properties.                                                             *)
(***************************************************************************)

\* A source that GetKernelSource finds is the block of prev's own chain that
\* created the coin: which chain is active, and how far behind the index is,
\* never lends a block the age or value of a coin of another branch.
SourceOnOwnChain ==
    \A prev \in Tree, c \in Txs, time \in StakeTimes, indexed \in BOOLEAN :
        LET source == GetKernelSource(prev, c, time, indexed)
        IN  source # NoBlock => Created(prev, c) /\ source = CreatedIn(prev, c)

\* The coinstake may stake c: the coin is there on prev's chain, unspent and old
\* enough.
Stakeable(prev, c, time) ==
    /\ Created(prev, c) /\ ~Spent(prev, c)
    /\ Header(CreatedIn(prev, c)).time + StakeMinAge <= time

\* The source of every coin that may be staked on top of a block is found.
FindsSources(indexed) ==
    \A prev \in Tree, c \in Txs, time \in StakeTimes :
        tip # NoBlock /\ Stakeable(prev, c, time)
            => GetKernelSource(prev, c, time, indexed) # NoBlock

\* Without an index, GetKernelSource always finds the source, on the active chain
\* or on a side branch, also when the active chain has spent the coin since; with
\* one, it does once the index has caught up (and was not led astray before).
SourceFoundWhenSynced ==
    /\ FindsSources(FALSE)
    /\ synced /\ queue = <<>> /\ ~astray => FindsSources(TRUE)

\* "The txindex and the UTXO set describe the active chain": with an index the
\* source is found at any time.
SourceFound == FindsSources(TRUE)
===============================================================================
