---------------------------- MODULE StakeModifier ----------------------------
(***************************************************************************)
(* Stake modifiers and the cache of kernel stake modifiers, while blocks   *)
(* arrive on competing branches and the active chain moves between them.   *)
(*                                                                         *)
(* AcceptBlock gives every block a modifier computed from its ancestors    *)
(* (ComputeNextStakeModifier), and a proof-of-stake block is checked       *)
(* against the modifier GetKernelStakeModifier picks for the block of the  *)
(* coin it stakes: the first generated one at least a selection interval   *)
(* after it, on the chain the new block builds on.  The answer is cached   *)
(* by the coin's block alone, so an entry found on one branch is looked at *)
(* on every other.  All of this runs under cs_main, one call at a time.    *)
(*                                                                         *)
(* A header keeps what the modifier depends on: its time, its hash (its    *)
(* order among blocks of equal time, and its lowest bit, the entropy bit), *)
(* whether it is a proof-of-stake header (nNonce = 0) and its proof hash.  *)
(* Which coin a block stakes and whether its hash meets the target are     *)
(* free choices here.                                                      *)
(***************************************************************************)
EXTENDS BlockTree

CONSTANTS
    Headers,            \* the headers blocks are made from
    Genesis,            \* the header of the genesis block
    ModifierInterval,   \* nModifierInterval
    Rounds,             \* bits of a modifier; 64 in the code
    SelectionHash(_, _),\* Hash(proof hash, previous modifier)
    StakeShift,         \* what proof-of-stake hashes are divided by; 2^32
    FlushLimit,         \* DEFAULT_FLUSH_MODIFIER_CACHE; 250000 in the code
    MaxHeight,          \* bound on the length of a chain
    MaxBlocks           \* bound on the number of blocks known

\* The value of a modifier's bit n, and the modifiers; uint64_t in the code.
Bit[n \in 0 .. Rounds] == IF n = 0 THEN 1 ELSE 2 * Bit[n - 1]
Modifiers == 0 .. Bit[Rounds] - 1

ASSUME ModifierAssumption ==
    /\ \A h \in Headers \cup {Genesis} :
          h.time \in Nat /\ h.hash \in Nat /\ h.pos \in BOOLEAN
    /\ ModifierInterval \in Nat \ {0}
    /\ Rounds \in Nat \ {0, 1}
    /\ \A m \in Modifiers : SelectionHash(0, m) \in Nat
    /\ StakeShift \in Nat \ {0}
    /\ FlushLimit \in Nat
    /\ MaxHeight \in Nat \ {0}

VARIABLES
    index,     \* the blocks with valid transactions, and their nStakeModifier
    tip,       \* the active chain's tip
    cache,     \* cachedModifiers: coin's block -> modifier and its block
    lookups    \* cacheHit + cacheMiss

vars == <<index, tip, cache, lookups>>

GenesisBlock == <<Genesis>>

Blocks == DOMAIN index

MODIFIER_INTERVAL_RATIO == 3

MedianTimeSpan == 11

Single(k, v) == [x \in {k} |-> v]

Add(f, k, v) == [x \in DOMAIN f \cup {k} |-> IF x = k THEN v ELSE f[x]]

EmptyCache == [x \in {} |-> x]

-----------------------------------------------------------------------------
(***************************************************************************)
(* Computing a block's modifier.                                           *)
(***************************************************************************)

\* GetLastStakeModifier: the last generated modifier up to b and the time of
\* its block, or zero for both where there is none.
GetLastStakeModifier(b) ==
    LET gen == {h \in 1 .. Len(b) : index[GetAncestor(b, h)].generated}
        last == CHOOSE h \in gen : \A k \in gen : k <= h
    IN  IF gen = {} THEN [modifier |-> 0, time |-> 0]
        ELSE [modifier |-> index[GetAncestor(b, last)].modifier, time |-> b[last].time]

\* GetStakeModifierSelectionIntervalSection.
Section(n) ==
    (ModifierInterval * (Rounds - 1))
        \div ((Rounds - 1) + ((Rounds - 1) - n) * (MODIFIER_INTERVAL_RATIO - 1))

\* The first n sections together; the selection interval is all of them.
Sections[n \in 0 .. Rounds] == IF n = 0 THEN 0 ELSE Sections[n - 1] + Section(n - 1)

SelectionInterval == Sections[Rounds]

\* compareCandidates: by time, then by hash.
Before(g, h) == g.time < h.time \/ (g.time = h.time /\ g.hash < h.hash)

\* The selection hash of a candidate: what is hashed in place of its proof
\* hash is zero.
Rank(h, modifier) ==
    LET hash == SelectionHash(0, modifier)
    IN  IF h.pos THEN hash \div StakeShift ELSE hash

\* What the comments of ComputeNextStakeModifier describe.
DocumentedRank(h, modifier) ==
    LET hash == SelectionHash(h.proof, modifier)
    IN  IF h.pos THEN hash \div StakeShift ELSE hash

\* The best of the candidates that are left, among the first of them and those
\* up to the end of the round's section, earlier ones first.
SelectBy(rank, left, stop) ==
    LET first == CHOOSE g \in left : \A h \in left \ {g} : Before(g, h)
        window == {h \in left : h = first \/ h.time <= stop}
    IN  CHOOSE g \in window : \A h \in window \ {g} :
            \/ rank[g] < rank[h]
            \/ rank[g] = rank[h] /\ Before(g, h)

SelectBlockFromCandidates(left, stop, modifier) ==
    SelectBy([h \in left |-> Rank(h, modifier)], left, stop)

SelectionStart(prev) ==
    (Header(prev).time \div ModifierInterval) * ModifierInterval - SelectionInterval

\* The blocks from prev back to the first that is before the selection start.
Candidates(prev) ==
    {prev[h] : h \in {h \in 1 .. Len(prev) :
                         \A k \in h .. Len(prev) : prev[k].time >= SelectionStart(prev)}}

\* Round n takes a bit from one of the candidates left, if there are any.
NextRound(r, n, prev, modifier) ==
    LET s == SelectBlockFromCandidates(r.left, SelectionStart(prev) + Sections[n], modifier)
    IN  IF r.left = {} THEN r
        ELSE [left |-> r.left \ {s}, bits |-> r.bits + (s.hash % 2) * Bit[n - 1]]

AfterRound(prev, modifier) ==
    LET Round[n \in 0 .. Rounds] ==
            IF n = 0 THEN [left |-> Candidates(prev), bits |-> 0]
            ELSE NextRound(Round[n - 1], n, prev, modifier)
    IN  Round

NewModifier(prev, modifier) == AfterRound(prev, modifier)[Rounds].bits

\* The block whose chain the modifier of b is computed from.
ModifierParentMutant(b) ==
    IF Len(b) - 1 <= Len(tip) THEN GetAncestor(tip, Len(b) - 1) ELSE Prev(b)
ModifierParent(b) == Prev(b)

ComputeNextStakeModifier(b) ==
    LET prev == ModifierParent(b)
        last == GetLastStakeModifier(prev)
    IN  IF Len(b) = 1 THEN [modifier |-> 0, generated |-> FALSE]
        ELSE IF last.time \div ModifierInterval >= Header(prev).time \div ModifierInterval
             THEN [modifier |-> last.modifier, generated |-> FALSE]
             ELSE [modifier |-> NewModifier(prev, last.modifier), generated |-> TRUE]

-----------------------------------------------------------------------------
(***************************************************************************)
(* Picking the modifier of a kernel.                                       *)
(***************************************************************************)

\* The block at height h on the way from a coin's block to prev: m_chain.Next
\* where prev is on the active chain, prev's ancestor elsewhere.
OnActiveChain(prev) == Contains(tip, prev)
StepTo(prev, h) == IF OnActiveChain(prev) THEN GetAncestor(tip, h) ELSE GetAncestor(prev, h)

\* Block b gives the kernels of from's coins their modifier, if none before it does.
Eligible(from, b) ==
    index[b].generated /\ Header(b).time >= Header(from).time + SelectionInterval

\* The walk forward from from ends at height h.
WalkEnds(prev, from, h) ==
    /\ h \in Len(from) + 1 .. Len(prev)
    /\ Eligible(from, StepTo(prev, h))
    /\ \A k \in Len(from) + 1 .. h - 1 : ~Eligible(from, StepTo(prev, k))

Walk(prev, from) ==
    IF \E h \in Len(from) + 1 .. Len(prev) : WalkEnds(prev, from, h)
    THEN StepTo(prev, CHOOSE h \in Len(from) + 1 .. Len(prev) : WalkEnds(prev, from, h))
    ELSE <<>>

\* cacheMaintain.
Maintained == IF lookups > FlushLimit THEN EmptyCache ELSE cache

\* cacheInit sets both counters to zero, and the lookup then counts as a miss.
CountedMutant == lookups + 1
Counted == IF lookups > FlushLimit THEN 1 ELSE lookups + 1

\* A cached modifier is used only where its block is an ancestor of prev.
CacheUsableMutant(prev, from) == from \in DOMAIN Maintained
CacheUsable(prev, from) ==
    from \in DOMAIN Maintained /\ IsAncestor(Maintained[from].block, prev)

NoModifier == [ok |-> FALSE, modifier |-> 0]

\* GetKernelStakeModifier: its answer, and what it leaves in the cache.
GetKernelStakeModifier(prev, from) ==
    IF ~IsAncestor(from, prev) THEN NoModifier
    ELSE IF CacheUsable(prev, from) THEN [ok |-> TRUE, modifier |-> Maintained[from].modifier]
    ELSE LET b == Walk(prev, from)
         IN  IF b = <<>> THEN NoModifier ELSE [ok |-> TRUE, modifier |-> index[b].modifier]

UpdateCache(prev, from) ==
    IF ~IsAncestor(from, prev) THEN UNCHANGED <<cache, lookups>>
    ELSE /\ lookups' = Counted
         /\ LET b == Walk(prev, from)
            IN  cache' = IF CacheUsable(prev, from) \/ b = <<>> THEN Maintained
                         ELSE Add(Maintained, from, [modifier |-> index[b].modifier, block |-> b])

-----------------------------------------------------------------------------
(***************************************************************************)
(* The calls.                                                              *)
(***************************************************************************)

\* LoadGenesisBlock adds genesis without computing its modifier.
Init ==
    /\ index = Single(GenesisBlock, [modifier |-> 0, generated |-> FALSE])
    /\ tip = GenesisBlock
    /\ cache = EmptyCache
    /\ lookups = 0

\* AcceptBlockHeader and the guard of AcceptBlock on the parent: a block that
\* is new, builds on a block with valid transactions and is later than the
\* median time before it.
NewBlock(prev, h) ==
    /\ Len(prev) < MaxHeight
    /\ \A i \in 1 .. Len(prev) : prev[i].hash # h.hash
    /\ h.time > MedianTimePast(prev, MedianTimeSpan)
    /\ Append(prev, h) \notin Blocks

Store(b) == index' = Add(index, b, ComputeNextStakeModifier(b))

\* AcceptBlock of a proof-of-work block.
AcceptWork(prev, h) ==
    /\ ~h.pos
    /\ NewBlock(prev, h)
    /\ Cardinality(Blocks) < MaxBlocks
    /\ Store(Append(prev, h))
    /\ UNCHANGED <<tip, cache, lookups>>

\* AcceptBlock of a proof-of-stake block whose coin is from block from: it is
\* stored if it has a modifier and its hash meets the target.
AcceptStake(prev, h, from) ==
    /\ h.pos
    /\ NewBlock(prev, h)
    /\ Cardinality(Blocks) < MaxBlocks
    /\ GetKernelStakeModifier(prev, from).ok
    /\ Store(Append(prev, h))
    /\ UpdateCache(prev, from)
    /\ UNCHANGED tip

\* The same handler where VerifyHashTarget fails.  The block is not stored and
\* not marked invalid; what its lookup left in the cache stays.
RejectStake(prev, h, from) ==
    /\ h.pos
    /\ NewBlock(prev, h)
    /\ UpdateCache(prev, from)
    /\ UNCHANGED <<index, tip>>

\* The staker tries a coin of its own, on the tip (CheckStakeKernelHash).
SearchKernel(from) ==
    /\ UpdateCache(tip, from)
    /\ UNCHANGED <<index, tip>>

\* The active chain moves to another branch, or along its own.
ActivateBestChain ==
    /\ \E b \in Blocks \ {tip} : tip' = b
    /\ UNCHANGED <<index, cache, lookups>>

\* The node stops, or crashes, and starts again with the block index entries
\* that had been written, modifiers included; a parent is written with or
\* before its child.
Restart ==
    /\ \E S \in SUBSET Blocks :
          /\ GenesisBlock \in S
          /\ \A b \in S : \A h \in 1 .. Len(b) : GetAncestor(b, h) \in S
          /\ index' = [b \in S |-> index[b]]
          /\ tip' \in S
    /\ cache' = EmptyCache
    /\ lookups' = 0

\* -reindex: the block index is wiped and genesis is accepted again, through
\* AcceptBlock.
Reindex ==
    /\ index' = Single(GenesisBlock, ComputeNextStakeModifier(GenesisBlock))
    /\ tip' = GenesisBlock
    /\ cache' = EmptyCache
    /\ lookups' = 0

Next ==
    \/ \E prev \in Blocks, h \in Headers :
          \/ AcceptWork(prev, h)
          \/ \E from \in Blocks : AcceptStake(prev, h, from) \/ RejectStake(prev, h, from)
    \/ \E from \in Blocks : SearchKernel(from)
    \/ ActivateBestChain
    \/ Restart
    \/ Reindex

Spec == Init /\ [][Next]_vars

-----------------------------------------------------------------------------
(***************************************************************************)
(* Properties.                                                             *)
(***************************************************************************)

IndexEntry == [modifier : Modifiers, generated : BOOLEAN]

\* The block index is a tree that holds the active chain, every entry of it
\* has a modifier of no more than Rounds bits, and the cache maps known blocks to
\* known blocks.
TypeOK ==
    /\ index \in [Blocks -> IndexEntry]
    /\ GenesisBlock \in Blocks
    /\ \A b \in Blocks : /\ Len(b) \in 1 .. MaxHeight
                         /\ \A h \in 1 .. Len(b) : GetAncestor(b, h) \in Blocks
    /\ tip \in Blocks
    /\ DOMAIN cache \subseteq Blocks
    /\ \A from \in DOMAIN cache : cache[from].block \in Blocks
    /\ lookups \in 0 .. FlushLimit + 1

\* The first eligible block after from on the chain of prev, whatever the
\* active chain and the cache are.
ChainModifier(prev, from) ==
    LET ends == {h \in Len(from) + 1 .. Len(prev) : Eligible(from, GetAncestor(prev, h))}
        first == CHOOSE h \in ends : \A k \in ends : h <= k
    IN  IF ~IsAncestor(from, prev) \/ ends = {} THEN NoModifier
        ELSE [ok |-> TRUE, modifier |-> index[GetAncestor(prev, first)].modifier]

\* The modifier GetKernelStakeModifier gives a kernel is the one of the chain
\* its block builds on: what earlier lookups on other branches left in the
\* cache, and which chain is active, never change a validator's answer.
KernelModifierOfChain ==
    \A prev, from \in Blocks : GetKernelStakeModifier(prev, from) = ChainModifier(prev, from)

\* Computing the modifier of any block again, at any later time and whatever
\* the active chain has become, gives the modifier AcceptBlock stored: nodes
\* that received the blocks in another order, and a reindex, agree on it.
ModifierReproducible == \A b \in Blocks : index[b] = ComputeNextStakeModifier(b)

\* The block selected from the candidates up to the end of a section is the one
\* with the best hash of its own proof hash and the previous modifier, as the
\* comments of ComputeNextStakeModifier and SelectBlockFromCandidates say.
SelectionFollowsProofHash ==
    \A b \in Blocks, n \in 1 .. Rounds :
        LET old == GetLastStakeModifier(b).modifier
            stop == SelectionStart(b) + Sections[n]
            documented == [h \in Candidates(b) |-> DocumentedRank(h, old)]
        IN  SelectBlockFromCandidates(Candidates(b), stop, old)
                = SelectBy(documented, Candidates(b), stop)
=============================================================================
