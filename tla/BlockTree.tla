------------------------------ MODULE BlockTree ------------------------------
(***************************************************************************)
(* The tree of block headers (CBlockIndex) and the active chain (CChain).  *)
(*                                                                         *)
(* A block's hash commits to its header and, through hashPrevBlock, to its *)
(* whole ancestry.  A block is therefore represented by the sequence of    *)
(* headers from genesis up to it: two blocks are the same block exactly    *)
(* when these sequences are equal, pprev drops the last header, and        *)
(* GetAncestor is a prefix.  A block's height is the length of its         *)
(* sequence, so genesis has height 1 here and 0 in the code.  The skip     *)
(* list that makes GetAncestor fast is left out: it changes its cost only. *)
(* The active chain is its tip.                                            *)
(***************************************************************************)
EXTENDS Integers, Sequences, FiniteSets

\* The header a block was made from.
Header(b) == b[Len(b)]

\* CBlockIndex::pprev.
Prev(b) == SubSeq(b, 1, Len(b) - 1)

\* CBlockIndex::GetAncestor, for a height the block reaches.
GetAncestor(b, h) == SubSeq(b, 1, h)

\* b->GetAncestor(a->nHeight) == a.
IsAncestor(a, b) == Len(a) <= Len(b) /\ GetAncestor(b, Len(a)) = a

\* CChain::Contains, for the active chain that ends in tip.
Contains(tip, b) == IsAncestor(b, tip)

\* CChain::FindFork: the last block of b's chain that is on tip's.
FindFork(tip, b) ==
    GetAncestor(b, CHOOSE n \in 1 .. Len(b) :
                      /\ Contains(tip, GetAncestor(b, n))
                      /\ \A m \in n + 1 .. Len(b) : ~Contains(tip, GetAncestor(b, m)))

\* CBlockIndex::GetMedianTimePast: the median of the last Span block times,
\* the upper one of the two when their number is even.
MedianTimePast(b, Span) ==
    LET lo == IF Len(b) > Span THEN Len(b) - Span + 1 ELSE 1
        hs == lo .. Len(b)
        Below(h) == {k \in hs : \/ b[k].time < b[h].time
                                \/ b[k].time = b[h].time /\ k < h}
    IN  b[CHOOSE h \in hs :
             Cardinality(Below(h)) = (Len(b) - lo + 1) \div 2].time
=============================================================================
