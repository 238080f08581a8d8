------------------------------ MODULE CoinLookup ------------------------------
(***************************************************************************)
(* The lookup of the block a staked coin comes from: GetKernelSource looks *)
(* for the block that created a coin, on the chain of the block that is    *)
(* being accepted, which need not be the active chain.                     *)
(*                                                                         *)
(* What the node has is the active chain's: its UTXO set, its undo data    *)
(* and, if it keeps one, a transaction index.  The lookup is a function of *)
(* that state, for any block, any coin and any time.  The modules that     *)
(* extend this one say how the chain and the index change.                 *)
(*                                                                         *)
(* The null block is <<>>.  A transaction has one output, so a coin is     *)
(* named by its transaction.  Header h creates the coins in h.creates and  *)
(* spends those in h.spends; its time is h.time.                           *)
(***************************************************************************)
EXTENDS BlockTree

CONSTANT StakeMinAge    \* nStakeMinAge

VARIABLES
    tip,        \* the active chain
    entries     \* the transaction index: transaction -> block

NoBlock == <<>>

\* Where b's chain leaves the active one; a node that has not connected genesis
\* yet has no chain.
ForkOf(b) == IF tip = NoBlock THEN NoBlock ELSE FindFork(tip, b)

Created(b, c) == \E h \in 1 .. Len(b) : c \in b[h].creates
Spent(b, c) == \E h \in 1 .. Len(b) : c \in b[h].spends

\* The block of b's chain that creates c.
CreatedIn(b, c) == GetAncestor(b, CHOOSE h \in 1 .. Len(b) : c \in b[h].creates)

\* GetTransaction, where indexed says that g_txindex is there and the node is not
\* reindexing: what the index has is returned, and only where it has no entry is
\* the UTXO set asked.
GetTransaction(c, indexed) ==
    IF indexed /\ entries[c] # NoBlock THEN entries[c]
    ELSE IF Created(tip, c) /\ ~Spent(tip, c) THEN CreatedIn(tip, c)
    ELSE NoBlock

\* What was found is used only if it is on the chain of both.
UsableMutant(found, fork) == found # NoBlock
Usable(found, fork) == found # NoBlock /\ IsAncestor(found, fork)

\* The blocks of prev's chain above the fork, and those that may be too young.
SideHeightsMutant(prev, fork) == Len(fork) + 1 .. Len(prev) - 1
SideHeights(prev, fork) == Len(fork) + 1 .. Len(prev)
Searched(prev, fork, c, time) ==
    {h \in SideHeights(prev, fork) :
        prev[h].time + StakeMinAge <= time /\ c \in prev[h].creates}

\* The blocks of the active chain above the fork that spend c.
Undone(fork, c) == {h \in Len(fork) + 1 .. Len(tip) : c \in tip[h].spends}

\* The undo data holds the height of the coin that was spent.
UndoSource(fork, c) ==
    LET from == CreatedIn(tip, c)
    IN  IF Undone(fork, c) # {} /\ Len(from) <= Len(fork)
        THEN GetAncestor(fork, Len(from)) ELSE NoBlock

\* The block that created coin c, for a coinstake of the given time in a block
\* on top of prev; NoBlock if there is none.
GetKernelSource(prev, c, time, indexed) ==
    LET fork == ForkOf(prev)
        found == GetTransaction(c, indexed)
        side == Searched(prev, fork, c, time)
    IN  IF fork = NoBlock THEN NoBlock
        ELSE IF Usable(found, fork) THEN found
        ELSE IF side # {} THEN GetAncestor(prev, CHOOSE h \in side : TRUE)
        ELSE UndoSource(fork, c)
===============================================================================
