---------------------------- MODULE TxIndexProof ----------------------------
(***************************************************************************)
(* The transaction index and the source of a staked coin, for every tree   *)
(* of blocks, any number of callbacks waiting and of stops.                *)
(*                                                                         *)
(* Two invariants carry the index.  One is about the queue: the callbacks  *)
(* for connected blocks are each in turn with the one before, and the last *)
(* one leads to the tip, so that as soon as one of them connects to the    *)
(* index all later ones do.  The other is about the disk: wherever the     *)
(* sync thread or the callbacks are, the entries are exact for the block   *)
(* the node would start from.                                              *)
(***************************************************************************)
EXTENDS KernelSource, SequenceTheorems, WellFoundedInduction, TLAPS

-----------------------------------------------------------------------------
(* GetAncestor, for blocks of any height over any set of headers.          *)

\* A block is its own ancestor at its own height.
LEMMA SelfAncestor ==
    ASSUME NEW S, NEW b \in Seq(S)
    PROVE  GetAncestor(b, Len(b)) = b
BY SubSeqFull DEF GetAncestor

\* The ancestor of an ancestor is the block's own at that height.
LEMMA AncestorOfAncestor ==
    ASSUME NEW S, NEW b \in Seq(S), NEW h \in 1 .. Len(b), NEW k \in 1 .. h
    PROVE  GetAncestor(GetAncestor(b, h), k) = GetAncestor(b, k)
<1>1. SubSeq(SubSeq(b, 1, h), 1, k) = SubSeq(b, 1 + 1 - 1, 1 + k - 1)
  BY SubSeqOfSubSeq
<1> QED BY <1>1 DEF GetAncestor

\* Blocks whose chains share block a have the same ancestors up to it.
LEMMA SharedPath ==
    ASSUME NEW S, NEW b \in Seq(S), NEW a \in Seq(S), Len(a) >= 1, IsAncestor(a, b),
           NEW k \in 1 .. Len(a)
    PROVE  GetAncestor(b, k) = GetAncestor(a, k)
<1>1. Len(a) \in 1 .. Len(b)
  BY DEF IsAncestor
<1> QED BY <1>1, AncestorOfAncestor DEF IsAncestor

\* A nonempty set of heights has a least element.
LEMMA LeastHeight ==
    ASSUME NEW T, T \subseteq Nat, T # {}
    PROVE  \E m \in T : \A k \in T : m <= k
<1>1. PICK m \in T : \A k \in T : ~(<<k, m>> \in OpToRel(<, Nat))
  BY NatLessThanWellFounded, WFMin, Zenon
<1>2. ASSUME NEW k \in T PROVE m <= k
  <2>1. k \in Nat /\ m \in Nat
    OBVIOUS
  <2>2. ~(k < m)
    BY <1>1, <2>1, Zenon DEF OpToRel
  <2> QED BY <2>1, <2>2
<1> QED BY <1>2

\* A set of heights that is not empty and bounded has a greatest element.
LEMMA GreatestHeight ==
    ASSUME NEW n \in Nat, NEW T, T \subseteq 0 .. n, T # {}
    PROVE  \E m \in T : \A k \in T : k <= m
<1> DEFINE D == {d \in 0 .. n : n - d \in T}
<1>1. D # {}
  <2>1. PICK t \in T : TRUE
    BY Zenon
  <2>2. n - t \in D
    BY <2>1
  <2> QED BY <2>2, Zenon
<1>2. D \subseteq Nat
  OBVIOUS
<1> HIDE DEF D
<1>3. PICK d \in D : \A k \in D : d <= k
  BY <1>1, <1>2, LeastHeight, Zenon
<1>4. n - d \in T /\ d \in 0 .. n
  BY <1>3 DEF D
<1>5. ASSUME NEW k \in T PROVE k <= n - d
  <2>1. n - k \in D
    BY DEF D
  <2>2. d <= n - k
    BY <1>3, <2>1
  <2> QED BY <1>4, <2>2
<1> QED BY <1>4, <1>5

\* An ancestor is a prefix, header by header.
LEMMA AncestorMeans ==
    ASSUME NEW S, NEW a \in Seq(S), NEW b \in Seq(S)
    PROVE  IsAncestor(a, b) <=> Len(a) <= Len(b) /\ \A i \in 1 .. Len(a) : a[i] = b[i]
<1>1. CASE Len(a) <= Len(b)
  <2>1. /\ SubSeq(b, 1, Len(a)) \in Seq(S) /\ Len(SubSeq(b, 1, Len(a))) = Len(a)
        /\ \A i \in 1 .. Len(a) : SubSeq(b, 1, Len(a))[i] = b[i]
    BY <1>1, SubSeqProperties
  <2>2. SubSeq(b, 1, Len(a)) = a <=> \A i \in 1 .. Len(a) : a[i] = b[i]
    BY <2>1, SeqEqual
  <2> QED BY <1>1, <2>2 DEF IsAncestor, GetAncestor
<1>2. CASE ~(Len(a) <= Len(b))
  BY <1>2 DEF IsAncestor
<1> QED BY <1>1, <1>2

\* The ancestor at a height is the prefix of that length.
LEMMA AncestorAt ==
    ASSUME NEW S, NEW b \in Seq(S), NEW h \in 0 .. Len(b)
    PROVE  /\ GetAncestor(b, h) \in Seq(S) /\ Len(GetAncestor(b, h)) = h
           /\ \A i \in 1 .. h : GetAncestor(b, h)[i] = b[i]
           /\ IsAncestor(GetAncestor(b, h), b)
<1>1. /\ SubSeq(b, 1, h) \in Seq(S) /\ Len(SubSeq(b, 1, h)) = h
      /\ \A i \in 1 .. h : SubSeq(b, 1, h)[i] = b[i]
  BY SubSeqProperties
<1>2. h \in Nat /\ h <= Len(b)
  OBVIOUS
<1>3. IsAncestor(SubSeq(b, 1, h), b)
  BY <1>1, <1>2, AncestorMeans, Zenon
<1> QED BY <1>1, <1>3 DEF GetAncestor

\* Every block is its own ancestor, and the empty chain everyone's.
LEMMA AncestorRefl ==
    ASSUME NEW S, NEW b \in Seq(S)
    PROVE  IsAncestor(b, b) /\ IsAncestor(<<>>, b)
<1>1. <<>> \in Seq(S) /\ Len(<<>>) = 0 /\ Len(b) \in Nat
  OBVIOUS
<1>2. IsAncestor(b, b)
  BY <1>1, AncestorMeans
<1>3. Len(<<>>) <= Len(b) /\ \A i \in 1 .. Len(<<>>) : <<>>[i] = b[i]
  BY <1>1
<1>4. IsAncestor(<<>>, b)
  BY <1>1, <1>3, AncestorMeans, Zenon
<1> QED BY <1>2, <1>4

\* The ancestor of an ancestor is one.
LEMMA AncestorTrans ==
    ASSUME NEW S, NEW a \in Seq(S), NEW b \in Seq(S), NEW c \in Seq(S),
           IsAncestor(a, b), IsAncestor(b, c)
    PROVE  IsAncestor(a, c)
<1>1. /\ Len(a) <= Len(b) /\ \A i \in 1 .. Len(a) : a[i] = b[i]
      /\ Len(b) <= Len(c) /\ \A i \in 1 .. Len(b) : b[i] = c[i]
  BY AncestorMeans
<1>2. Len(a) <= Len(c) /\ \A i \in 1 .. Len(a) : a[i] = c[i]
  BY <1>1
<1> QED BY <1>2, AncestorMeans

\* An ancestor of the same height is the block.
LEMMA AncestorSame ==
    ASSUME NEW S, NEW a \in Seq(S), NEW b \in Seq(S), IsAncestor(a, b), Len(a) >= Len(b)
    PROVE  a = b
<1>1. Len(a) = Len(b) /\ \A i \in 1 .. Len(a) : a[i] = b[i]
  BY AncestorMeans
<1> QED BY <1>1, SeqEqual

\* Of two ancestors of a block, one is the other's.
LEMMA AncestorsOrdered ==
    ASSUME NEW S, NEW a \in Seq(S), NEW b \in Seq(S), NEW c \in Seq(S),
           IsAncestor(a, c), IsAncestor(b, c), Len(a) <= Len(b)
    PROVE  IsAncestor(a, b)
<1>1. /\ \A i \in 1 .. Len(a) : a[i] = c[i]
      /\ \A i \in 1 .. Len(b) : b[i] = c[i]
  BY AncestorMeans
<1>2. \A i \in 1 .. Len(a) : a[i] = b[i]
  BY <1>1
<1> QED BY <1>2, AncestorMeans

\* pprev is the ancestor one below.
LEMMA PrevIs ==
    ASSUME NEW S, NEW b \in Seq(S), Len(b) >= 1
    PROVE  /\ Prev(b) = GetAncestor(b, Len(b) - 1)
           /\ Prev(b) \in Seq(S) /\ Len(Prev(b)) = Len(b) - 1 /\ IsAncestor(Prev(b), b)
           /\ Len(b) = 1 => Prev(b) = <<>>
           /\ Len(b) # 1 => Len(b) - 1 \in 1 .. Len(b)
<1>1. Prev(b) = GetAncestor(b, Len(b) - 1)
  BY DEF Prev, GetAncestor
<1>2. Len(b) \in Nat /\ Len(b) - 1 \in 0 .. Len(b)
  OBVIOUS
<1>3. Prev(b) \in Seq(S) /\ Len(Prev(b)) = Len(b) - 1 /\ IsAncestor(Prev(b), b)
  BY <1>1, <1>2, AncestorAt
<1>4. Len(b) = 1 => Prev(b) = <<>>
  BY <1>3
<1>5. Len(b) # 1 => Len(b) - 1 \in 1 .. Len(b)
  <2>1. \A n \in Nat : n >= 1 /\ n # 1 => n - 1 \in 1 .. n
    OBVIOUS
  <2> QED BY <1>2, <2>1
<1> QED BY <1>1, <1>3, <1>4, <1>5

\* pprev of an ancestor is the ancestor one below it.
LEMMA PrevOfAncestor ==
    ASSUME NEW S, NEW b \in Seq(S), NEW h \in 1 .. Len(b)
    PROVE  Prev(GetAncestor(b, h)) = GetAncestor(b, h - 1)
<1> DEFINE c == GetAncestor(b, h)
<1>1. c \in Seq(S) /\ Len(c) = h /\ \A i \in 1 .. h : c[i] = b[i]
  BY AncestorAt
<1> HIDE DEF c
<1>2. h \in Nat /\ h - 1 \in 0 .. Len(c) /\ h - 1 \in 0 .. Len(b)
  BY <1>1
<1>3. /\ GetAncestor(b, h - 1) \in Seq(S) /\ Len(GetAncestor(b, h - 1)) = h - 1
      /\ \A i \in 1 .. h - 1 : GetAncestor(b, h - 1)[i] = b[i]
  BY <1>2, AncestorAt
<1>4. /\ GetAncestor(c, h - 1) \in Seq(S) /\ Len(GetAncestor(c, h - 1)) = h - 1
      /\ \A i \in 1 .. h - 1 : GetAncestor(c, h - 1)[i] = c[i]
  BY <1>1, <1>2, AncestorAt
<1>5. Prev(c) = GetAncestor(c, h - 1)
  BY <1>1 DEF Prev, GetAncestor
<1>6. GetAncestor(c, h - 1) = GetAncestor(b, h - 1)
  BY <1>1, <1>2, <1>3, <1>4, SeqEqual
<1> QED BY <1>5, <1>6 DEF c

\* FindFork is the last block that two chains from the same genesis share.
LEMMA ForkIs ==
    ASSUME NEW S, NEW t \in Seq(S), NEW b \in Seq(S), Len(t) >= 1, Len(b) >= 1, t[1] = b[1]
    PROVE  /\ FindFork(t, b) \in Seq(S) /\ Len(FindFork(t, b)) \in 1 .. Len(b)
           /\ FindFork(t, b) = GetAncestor(b, Len(FindFork(t, b)))
           /\ IsAncestor(FindFork(t, b), t) /\ IsAncestor(FindFork(t, b), b)
           /\ \A a \in Seq(S) : IsAncestor(a, t) /\ IsAncestor(a, b) => IsAncestor(a, FindFork(t, b))
<1> DEFINE P(n) == /\ Contains(t, GetAncestor(b, n))
                   /\ \A m \in n + 1 .. Len(b) : ~Contains(t, GetAncestor(b, m))
           T == {n \in 1 .. Len(b) : Contains(t, GetAncestor(b, n))}
           n == CHOOSE k \in 1 .. Len(b) : P(k)
<1>0. Len(b) \in Nat /\ Len(t) \in Nat /\ 1 \in 0 .. Len(b)
  OBVIOUS
<1>1. 1 \in T
  <2>1. /\ GetAncestor(b, 1) \in Seq(S) /\ Len(GetAncestor(b, 1)) = 1
        /\ \A i \in 1 .. 1 : GetAncestor(b, 1)[i] = b[i]
    BY <1>0, AncestorAt, Zenon
  <2>2. \A i \in 1 .. 1 : GetAncestor(b, 1)[i] = t[i]
    BY <2>1
  <2>3. IsAncestor(GetAncestor(b, 1), t)
    BY <2>1, <2>2, AncestorMeans
  <2> QED BY <1>0, <2>3 DEF Contains
<1>2. T \subseteq 0 .. Len(b) /\ T # {}
  BY <1>1
<1>3. \E k \in 1 .. Len(b) : P(k)
  <2> HIDE DEF T
  <2>1. PICK k \in T : \A m \in T : m <= k
    BY <1>0, <1>2, GreatestHeight, Zenon
  <2>2. k \in 1 .. Len(b) /\ P(k)
    BY <2>1 DEF T
  <2> QED BY <2>2
<1>4. n \in 1 .. Len(b) /\ P(n)
  BY <1>3
<1>5. FindFork(t, b) = GetAncestor(b, n)
  BY DEF FindFork
<1> HIDE DEF n
<1>6. n \in 0 .. Len(b)
  BY <1>4
<1>7. /\ GetAncestor(b, n) \in Seq(S) /\ Len(GetAncestor(b, n)) = n
      /\ IsAncestor(GetAncestor(b, n), b)
  BY <1>6, AncestorAt
<1>8. IsAncestor(GetAncestor(b, n), t)
  BY <1>4 DEF Contains
<1>9. ASSUME NEW a \in Seq(S), IsAncestor(a, t), IsAncestor(a, b)
      PROVE  IsAncestor(a, GetAncestor(b, n))
  <2>1. Len(a) \in Nat /\ Len(a) <= Len(b) /\ a = GetAncestor(b, Len(a))
    BY <1>9 DEF IsAncestor
  <2>2. Len(a) <= n
    BY <1>4, <1>9, <2>1 DEF Contains
  <2> QED BY <1>7, <1>9, <2>2, AncestorsOrdered
<1> QED BY <1>4, <1>5, <1>7, <1>8, <1>9

-----------------------------------------------------------------------------

Headers == UNION {{b[h] : h \in 1 .. Len(b)} : b \in Tree}
Blocks == Tree \cup {NoBlock}

-----------------------------------------------------------------------------
(***************************************************************************)
(* Chains of blocks.                                                       *)
(***************************************************************************)

LEMMA TreeTyped == Tree \subseteq Seq(Headers) /\ Blocks \subseteq Seq(Headers)
<1>1. ASSUME NEW b \in Tree PROVE b \in Seq(Headers)
  <2>1. b \in Seq({b[h] : h \in 1 .. Len(b)})
    BY TxIndexAssumption
  <2>2. Len(b) \in Nat /\ b = [i \in 1 .. Len(b) |-> b[i]]
    BY <2>1
  <2>3. \A i \in 1 .. Len(b) : b[i] \in Headers
    BY DEF Headers
  <2>4. [i \in 1 .. Len(b) |-> b[i]] \in Seq(Headers)
    BY <2>2, <2>3, IsASeq
  <2> QED BY <2>2, <2>4
<1>2. NoBlock \in Seq(Headers)
  BY DEF NoBlock
<1> QED BY <1>1, <1>2 DEF Blocks

\* The blocks of the tree, and the null block.
LEMMA InTree ==
    /\ \A b \in Tree : Len(b) >= 1 /\ b # NoBlock /\ b[1] = Genesis
    /\ \A b \in Blocks : Len(b) = 0 <=> b = NoBlock
    /\ \A b \in Tree : \A h \in 1 .. Len(b) : GetAncestor(b, h) \in Tree
    /\ \A b \in Tree : Prev(b) \in Blocks
    /\ GenesisBlock \in Tree /\ Len(GenesisBlock) = 1
    /\ \A b \in Tree : Len(b) = 1 => b = GenesisBlock
<1>1. ASSUME NEW b \in Tree PROVE Len(b) >= 1 /\ b # NoBlock /\ b[1] = Genesis
  <2>1. Len(b) >= 1 /\ b[1] = Genesis
    BY TxIndexAssumption, Zenon
  <2>2. Len(NoBlock) = 0
    BY DEF NoBlock
  <2> QED BY <2>1, <2>2
<1>2. \A b \in Tree : \A h \in 1 .. Len(b) : GetAncestor(b, h) \in Tree
  BY TxIndexAssumption, Zenon
<1>3. ASSUME NEW b \in Tree PROVE Prev(b) \in Blocks
  <2>1. b \in Seq(Headers) /\ Len(b) >= 1 /\ Len(b) \in Nat
    BY <1>1, TreeTyped
  <2>2. Prev(b) = GetAncestor(b, Len(b) - 1) /\ Prev(b) \in Seq(Headers) /\ Len(Prev(b)) = Len(b) - 1
    BY <2>1, PrevIs
  <2>3. CASE Len(b) = 1
    BY <2>1, <2>3, PrevIs, Zenon DEF Blocks, NoBlock
  <2>4. CASE Len(b) # 1
    <3>1. Len(b) - 1 \in 1 .. Len(b)
      BY <2>1, <2>4, PrevIs
    <3> QED BY <3>1, <2>2, <1>2 DEF Blocks
  <2> QED BY <2>3, <2>4
<1>4. GenesisBlock \in Tree /\ Len(GenesisBlock) = 1
  BY TxIndexAssumption DEF GenesisBlock
<1>5. ASSUME NEW b \in Tree, Len(b) = 1 PROVE b = GenesisBlock
  <2>1. b \in Seq(Headers) /\ GenesisBlock \in Seq(Headers) /\ b[1] = GenesisBlock[1]
    BY <1>1, <1>4, TreeTyped
  <2> QED BY <2>1, <1>4, <1>5, SeqEqual
<1>6. \A b \in Blocks : Len(b) = 0 <=> b = NoBlock
  BY <1>1 DEF Blocks, NoBlock
<1> QED BY <1>1, <1>2, <1>3, <1>4, <1>5, <1>6

\* Where the active chain and b's meet, and the block that follows on the active one.
LEMMA ForkInTree ==
    ASSUME NEW t \in Tree, NEW b \in Tree
    PROVE  /\ FindFork(t, b) \in Tree /\ FindFork(t, b) \in Seq(Headers)
           /\ IsAncestor(FindFork(t, b), t) /\ IsAncestor(FindFork(t, b), b)
           /\ Len(FindFork(t, b)) >= 1
<1>1. t \in Seq(Headers) /\ b \in Seq(Headers) /\ Len(t) >= 1 /\ Len(b) >= 1 /\ t[1] = b[1]
  BY TreeTyped, InTree, Zenon
<1>2. /\ FindFork(t, b) \in Seq(Headers) /\ Len(FindFork(t, b)) \in 1 .. Len(b)
      /\ FindFork(t, b) = GetAncestor(b, Len(FindFork(t, b)))
      /\ IsAncestor(FindFork(t, b), t) /\ IsAncestor(FindFork(t, b), b)
  BY <1>1, ForkIs
<1>3. FindFork(t, b) \in Tree
  BY <1>2, InTree
<1> QED BY <1>2, <1>3

LEMMA NextInTree ==
    ASSUME NEW t \in Tree, NEW f \in Blocks, IsAncestor(f, t), f # t
    PROVE  /\ GetAncestor(t, Len(f) + 1) \in Tree /\ Prev(GetAncestor(t, Len(f) + 1)) = f
           /\ Len(GetAncestor(t, Len(f) + 1)) = Len(f) + 1
<1>1. t \in Seq(Headers) /\ f \in Seq(Headers) /\ Len(f) \in Nat /\ Len(t) \in Nat
  BY TreeTyped
<1>2. ~(Len(f) >= Len(t))
  BY <1>1, AncestorSame
<1>3. Len(f) + 1 \in 1 .. Len(t) /\ Len(f) + 1 \in 0 .. Len(t) /\ Len(f) + 1 - 1 = Len(f)
  BY <1>1, <1>2
<1>4. Len(GetAncestor(t, Len(f) + 1)) = Len(f) + 1
  BY <1>1, <1>3, AncestorAt
<1>5. Prev(GetAncestor(t, Len(f) + 1)) = GetAncestor(t, Len(f))
  BY <1>1, <1>3, PrevOfAncestor
<1>6. GetAncestor(t, Len(f)) = f
  BY DEF IsAncestor
<1> QED BY <1>3, <1>4, <1>5, <1>6, InTree

-----------------------------------------------------------------------------
(***************************************************************************)
(* The entries of a chain.                                                 *)
(***************************************************************************)

\* Exact, for the entries e.
ExactIn(e, b) == \A h \in 2 .. Len(b) : \A t \in b[h].creates : e[t] = GetAncestor(b, h)

\* Entries that are exact for a block are for its ancestors, and for none.
LEMMA ExactDown ==
    ASSUME NEW e, NEW a \in Blocks, NEW b \in Blocks, ExactIn(e, b), IsAncestor(a, b)
    PROVE  ExactIn(e, a)
<1>1. a \in Seq(Headers) /\ b \in Seq(Headers) /\ Len(a) \in Nat /\ Len(b) \in Nat
  BY TreeTyped
<1>2. Len(a) <= Len(b) /\ \A i \in 1 .. Len(a) : a[i] = b[i]
  BY <1>1, AncestorMeans
<1>3. SUFFICES ASSUME NEW h \in 2 .. Len(a), NEW t \in a[h].creates
               PROVE  e[t] = GetAncestor(a, h)
  BY DEF ExactIn
<1>4. h \in 2 .. Len(b) /\ h \in 1 .. Len(a) /\ Len(a) >= 1
  BY <1>1, <1>2
<1>5. e[t] = GetAncestor(b, h)
  BY <1>2, <1>4 DEF ExactIn
<1>6. GetAncestor(b, h) = GetAncestor(a, h)
  BY <1>1, <1>4, SharedPath
<1> QED BY <1>5, <1>6

LEMMA ExactNone == ASSUME NEW e PROVE ExactIn(e, NoBlock)
<1>1. Len(NoBlock) = 0
  BY DEF NoBlock
<1> QED BY <1>1 DEF ExactIn

\* What WriteBlock leaves in the database.
Written(e, b) == [t \in Txs |-> IF Len(b) > 1 /\ t \in Header(b).creates THEN b ELSE e[t]]

\* Writing a block on top of a chain that is exact makes its own chain exact: a
\* transaction is on a chain once, so that no entry of the chain is replaced.
LEMMA ExactUp ==
    ASSUME NEW e, NEW b \in Tree, ExactIn(e, Prev(b))
    PROVE  ExactIn(Written(e, b), b)
<1>1. /\ b \in Seq(Headers) /\ Len(b) \in Nat /\ Len(b) >= 1
  BY TreeTyped, InTree
<1>2. /\ Prev(b) \in Seq(Headers) /\ Len(Prev(b)) = Len(b) - 1 /\ IsAncestor(Prev(b), b)
  BY <1>1, PrevIs
<1>3. SUFFICES ASSUME NEW h \in 2 .. Len(b), NEW t \in b[h].creates
               PROVE  Written(e, b)[t] = GetAncestor(b, h)
  BY DEF ExactIn
<1>4. h \in 1 .. Len(b) /\ Len(b) \in 1 .. Len(b) /\ Len(b) > 1 /\ h \in Nat
  BY <1>1
<1>5. t \in Txs
  BY <1>4, TxIndexAssumption, Zenon
<1>6. t \in b[Len(b)].creates => h = Len(b)
  BY <1>4, KernelSourceAssumption
<1>7. CASE h = Len(b)
  <2>1. Written(e, b)[t] = b
    BY <1>4, <1>5, <1>7 DEF Written, Header
  <2> QED BY <1>1, <1>7, <2>1, SelfAncestor
<1>8. CASE h # Len(b)
  <2>1. Written(e, b)[t] = e[t]
    BY <1>5, <1>6, <1>8 DEF Written, Header
  <2>2. h \in 2 .. Len(Prev(b)) /\ h \in 1 .. Len(Prev(b)) /\ Len(Prev(b)) >= 1
    BY <1>2, <1>4, <1>8
  <2>3. Prev(b)[h] = b[h]
    BY <1>1, <1>2, <2>2, AncestorMeans
  <2>4. e[t] = GetAncestor(Prev(b), h)
    BY <2>2, <2>3 DEF ExactIn
  <2>5. GetAncestor(b, h) = GetAncestor(Prev(b), h)
    BY <1>1, <1>2, <2>2, SharedPath
  <2> QED BY <2>1, <2>4, <2>5
<1> QED BY <1>7, <1>8

-----------------------------------------------------------------------------
(***************************************************************************)
(* The invariant.                                                          *)
(***************************************************************************)

Events == [kind : {"connect", "flush"}, block : Tree]

\* TypeOK, with the queue a sequence.
Typing ==
    /\ queue \in Seq(Events) /\ entries \in [Txs -> Blocks]
    /\ tip \in Blocks /\ flushed \in Blocks
    /\ locator \in Blocks /\ best \in Blocks /\ pindex \in Blocks
    /\ synced \in BOOLEAN /\ phase \in Phases /\ astray \in BOOLEAN
    /\ tpc \in ThreadPcs /\ stops \in 0 .. MaxStops
    /\ tpc \in {"write", "loop"} => pindex # NoBlock
    /\ tpc = "done" => synced

Announces(i) == queue[i].kind = "connect"

\* The callbacks for connected blocks: only the first may be genesis, and each leads
\* to the tip or is followed by one that goes on from it or from an ancestor of it.
InTurn ==
    /\ \A i \in 2 .. Len(queue) : Announces(i) => Len(queue[i].block) > 1
    /\ \A i \in 1 .. Len(queue) : Announces(i) =>
          \/ IsAncestor(tip, queue[i].block)
          \/ \E j \in i + 1 .. Len(queue) :
                Announces(j) /\ IsAncestor(Prev(queue[j].block), queue[i].block)

\* A synced index has the active chain, or a callback that is waiting connects to it.
Covered ==
    synced => \/ IsAncestor(tip, best)
              \/ \E i \in 1 .. Len(queue) : Announces(i) /\ Connects(queue[i].block)

\* Before there is a chain nothing is indexed or announced, and nothing is in memory
\* while the node is down.
Quiet ==
    /\ tip = NoBlock => best = NoBlock /\ tpc \in {"down", "done"} /\ queue = <<>>
    /\ tpc # "done" => ~synced
    /\ ~Up => queue = <<>> /\ best = NoBlock /\ pindex = NoBlock /\ phase = "open"

\* An entry is for a block that has the transaction; genesis has none.
EntriesTrue ==
    \A t \in Txs : entries[t] # NoBlock => Len(entries[t]) > 1 /\ t \in Header(entries[t]).creates

\* What is on disk is exact for the block the thread or the callbacks go on from, and
\* for the locator wherever the node may stop and rely on it.
OnDisk ==
    ~astray =>
        /\ tpc \in {"first", "loop", "exited"} => ExactIn(entries, pindex)
        /\ tpc = "write" => /\ ExactIn(entries, Prev(pindex))
                            /\ locator = pindex \/ IsAncestor(locator, Prev(pindex))
        /\ tpc = "loop" => IsAncestor(locator, pindex)
        /\ tpc \in {"down", "first", "exited"} => ExactIn(entries, locator)
        /\ tpc = "done" => ExactIn(entries, best)

IndInv == Typing /\ InTurn /\ Covered /\ Quiet /\ EntriesTrue /\ OnDisk

LEMMA InitInd == Init => IndInv
<1> SUFFICES ASSUME Init PROVE IndInv
  OBVIOUS
<1>1. queue = <<>> /\ Len(queue) = 0 /\ synced = FALSE /\ tpc = "down" /\ ~Up
  BY DEF Init, Up
<1>2. tip \in Blocks /\ flushed = tip /\ best = NoBlock /\ pindex = NoBlock /\ phase = "open"
  BY DEF Init, Blocks
<1>3. locator \in {NoBlock, GenesisBlock} /\ locator \in Blocks
  BY TxIndexAssumption DEF Init, Blocks
<1>4. Typing
  <2>1. entries \in [Txs -> Blocks]
    BY DEF Init, Blocks
  <2>2. phase \in Phases /\ tpc \in ThreadPcs /\ stops \in 0 .. MaxStops
    BY TxIndexAssumption DEF Init, Phases, ThreadPcs
  <2>3. astray \in BOOLEAN
    BY Zenon DEF Init
  <2>4. queue \in Seq(Events)
    BY <1>1
  <2>5. tpc \notin {"write", "loop"} /\ tpc # "done" /\ synced \in BOOLEAN
    BY <1>1, Zenon
  <2>6. locator \in Blocks /\ flushed \in Blocks /\ best \in Blocks /\ pindex \in Blocks
    BY <1>2, <1>3 DEF Blocks
  <2> QED BY <1>2, <2>1, <2>2, <2>3, <2>4, <2>5, <2>6 DEF Typing
<1>5. InTurn /\ Covered /\ Quiet
  BY <1>1, <1>2 DEF InTurn, Covered, Quiet
<1>6. EntriesTrue
  BY DEF Init, EntriesTrue
<1>7. OnDisk
  <2>1. Len(locator) <= 1
    <3>1. Len(NoBlock) = 0 /\ Len(GenesisBlock) = 1
      BY DEF NoBlock, GenesisBlock
    <3> QED BY <1>3, <3>1
  <2>2. ExactIn(entries, locator)
    <3>1. Len(locator) \in Nat
      BY <1>3, TreeTyped
    <3>2. ~\E h \in 2 .. Len(locator) : TRUE
      BY <2>1, <3>1
    <3> QED BY <3>2 DEF ExactIn
  <2> QED BY <1>1, <2>2 DEF OnDisk
<1> QED BY <1>4, <1>5, <1>6, <1>7 DEF IndInv

-----------------------------------------------------------------------------
(***************************************************************************)
(* What the steps are made of.                                             *)
(***************************************************************************)

\* The next block for the sync thread follows an ancestor of the last one; when there
\* is none, the thread has the active chain.
LEMMA NextSyncIs ==
    ASSUME Typing, tip # NoBlock
    PROVE  /\ NextSyncBlock = NoBlock => IsAncestor(tip, pindex)
           /\ NextSyncBlock # NoBlock => /\ NextSyncBlock \in Tree
                                         /\ Prev(NextSyncBlock) \in Blocks
                                         /\ IsAncestor(Prev(NextSyncBlock), pindex)
<1>1. tip \in Tree /\ pindex \in Blocks
  BY DEF Typing, Blocks
<1>2. CASE pindex = NoBlock
  <2>1. NextSyncBlock = GenesisBlock
    BY <1>2 DEF NextSyncBlock
  <2>2. GenesisBlock \in Tree /\ GenesisBlock # NoBlock /\ Len(GenesisBlock) = 1
    BY InTree
  <2>3. Prev(GenesisBlock) = NoBlock
    BY <2>2, TreeTyped, PrevIs DEF NoBlock
  <2>4. IsAncestor(NoBlock, NoBlock)
    BY TreeTyped, AncestorRefl DEF Blocks
  <2> QED BY <1>2, <2>1, <2>2, <2>3, <2>4 DEF Blocks
<1>3. CASE pindex # NoBlock
  <2>1. pindex \in Tree
    BY <1>1, <1>3 DEF Blocks
  <2> DEFINE f == FindFork(tip, pindex)
  <2>2. NextSyncBlock = IF f = tip THEN NoBlock ELSE GetAncestor(tip, Len(f) + 1)
    BY <1>3 DEF NextSyncBlock, ForkOf
  <2>3. f \in Tree /\ IsAncestor(f, tip) /\ IsAncestor(f, pindex)
    BY <1>1, <2>1, ForkInTree
  <2> HIDE DEF f
  <2>4. CASE f = tip
    BY <2>2, <2>3, <2>4
  <2>5. CASE f # tip
    <3>1. f \in Blocks
      BY <2>3 DEF Blocks
    <3>2. GetAncestor(tip, Len(f) + 1) \in Tree /\ Prev(GetAncestor(tip, Len(f) + 1)) = f
      BY <1>1, <2>3, <2>5, <3>1, NextInTree
    <3>3. GetAncestor(tip, Len(f) + 1) # NoBlock
      BY <3>2, InTree
    <3> QED BY <2>2, <2>3, <2>5, <3>1, <3>2, <3>3
  <2> QED BY <2>4, <2>5
<1> QED BY <1>2, <1>3

\* The block the index starts from is an ancestor of the locator's.
LEMMA BestOnChainIs ==
    ASSUME Typing
    PROVE  BestOnChain \in Blocks /\ IsAncestor(BestOnChain, locator)
<1>1. locator \in Blocks /\ tip \in Blocks /\ locator \in Seq(Headers) /\ NoBlock \in Blocks
  BY TreeTyped DEF Typing, Blocks
<1>2. IsAncestor(NoBlock, locator)
  BY <1>1, AncestorRefl DEF NoBlock
<1>3. CASE locator = NoBlock \/ tip = NoBlock
  BY <1>1, <1>2, <1>3 DEF BestOnChain, ForkOf
<1>4. CASE locator # NoBlock /\ tip # NoBlock
  <2>1. locator \in Tree /\ tip \in Tree
    BY <1>1, <1>4 DEF Blocks
  <2>2. FindFork(tip, locator) \in Tree /\ IsAncestor(FindFork(tip, locator), locator)
    BY <2>1, ForkInTree
  <2> QED BY <1>4, <2>2 DEF BestOnChain, ForkOf, Blocks
<1> QED BY <1>3, <1>4

\* A callback is for a block of the tree.
LEMMA EventIs ==
    ASSUME queue \in Seq(Events), NEW i \in 1 .. Len(queue)
    PROVE  /\ queue[i].kind \in {"connect", "flush"}
           /\ queue[i].block \in Tree /\ queue[i].block \in Blocks
<1>1. queue[i] \in Events
  OBVIOUS
<1> QED BY <1>1 DEF Events, Blocks

\* The callbacks that are left when the first has run.
LEMMA PopIs ==
    ASSUME queue \in Seq(Events), queue # <<>>
    PROVE  /\ Tail(queue) \in Seq(Events) /\ Len(Tail(queue)) = Len(queue) - 1
           /\ Len(queue) \in Nat /\ Len(queue) >= 1
           /\ \A i \in 1 .. Len(queue) - 1 : Tail(queue)[i] = queue[i + 1]
           /\ Head(queue) = queue[1] /\ queue[1] \in Events
BY HeadTailProperties

LEMMA PopKeepsTurns ==
    ASSUME Typing, InTurn, queue # <<>>, Pop, tip' = tip
    PROVE  InTurn'
<1>1. queue \in Seq(Events)
  BY DEF Typing
<1>2. /\ Len(queue') = Len(queue) - 1 /\ Len(queue) \in Nat /\ Len(queue) >= 1
      /\ \A i \in 1 .. Len(queue) - 1 : queue'[i] = queue[i + 1]
  BY <1>1, PopIs DEF Pop
<1>3. ASSUME NEW i \in 2 .. Len(queue'), Announces(i)'
      PROVE  Len(queue'[i].block) > 1
  <2>1. i + 1 \in 2 .. Len(queue) /\ queue'[i] = queue[i + 1]
    BY <1>2
  <2> QED BY <1>3, <2>1 DEF InTurn, Announces
<1>4. ASSUME NEW i \in 1 .. Len(queue'), Announces(i)', ~IsAncestor(tip, queue'[i].block)
      PROVE  \E j \in i + 1 .. Len(queue') :
                Announces(j)' /\ IsAncestor(Prev(queue'[j].block), queue'[i].block)
  <2>1. i + 1 \in 1 .. Len(queue) /\ queue'[i] = queue[i + 1]
    BY <1>2
  <2>2. PICK j \in (i + 1) + 1 .. Len(queue) :
               Announces(j) /\ IsAncestor(Prev(queue[j].block), queue[i + 1].block)
    BY <1>4, <2>1 DEF InTurn, Announces
  <2>3. j - 1 \in i + 1 .. Len(queue') /\ queue'[j - 1] = queue[j]
    BY <1>2, <2>2
  <2> QED BY <2>1, <2>2, <2>3 DEF Announces
<1> QED BY <1>3, <1>4 DEF InTurn

\* The callback that connects to the index is still waiting when another one has run.
LEMMA PopKeepsCover ==
    ASSUME Typing, Covered, queue # <<>>, Pop, tip' = tip, best' = best, synced' = synced,
           synced => ~(Announces(1) /\ Connects(queue[1].block))
    PROVE  Covered'
<1>1. queue \in Seq(Events)
  BY DEF Typing
<1>2. /\ Len(queue') = Len(queue) - 1 /\ Len(queue) \in Nat /\ Len(queue) >= 1
      /\ \A i \in 1 .. Len(queue) - 1 : queue'[i] = queue[i + 1]
  BY <1>1, PopIs DEF Pop
<1>3. ASSUME synced, ~IsAncestor(tip, best)
      PROVE  \E i \in 1 .. Len(queue') : Announces(i)' /\ Connects(queue[i].block)'
  <2>1. PICK i \in 1 .. Len(queue) : Announces(i) /\ Connects(queue[i].block)
    BY <1>3 DEF Covered
  <2>2. i # 1
    BY <1>3, <2>1
  <2>3. i - 1 \in 1 .. Len(queue') /\ queue'[i - 1] = queue[i]
    BY <1>2, <2>1, <2>2
  <2>4. Announces(i - 1)' /\ Connects(queue[i - 1].block)'
    BY <2>1, <2>3 DEF Announces, Connects
  <2> QED BY <2>3, <2>4
<1> QED BY <1>3 DEF Covered

\* A callback for a flush is no one's turn.
LEMMA FlushKeeps ==
    ASSUME Typing, InTurn, Covered, NEW b \in Tree, queue' = Append(queue, Event("flush", b)),
           tip' = tip, best' = best, synced' = synced
    PROVE  queue' \in Seq(Events) /\ InTurn' /\ Covered'
<1>1. queue \in Seq(Events) /\ Event("flush", b) \in Events /\ Event("flush", b).kind = "flush"
  BY DEF Typing, Event, Events
<1>2. /\ queue' \in Seq(Events) /\ Len(queue') = Len(queue) + 1 /\ Len(queue) \in Nat
      /\ \A i \in 1 .. Len(queue) : queue'[i] = queue[i]
      /\ queue'[Len(queue) + 1] = Event("flush", b)
  BY <1>1, AppendProperties
<1>3. ASSUME NEW i \in 1 .. Len(queue'), Announces(i)'
      PROVE  i \in 1 .. Len(queue) /\ Announces(i) /\ queue'[i] = queue[i]
  <2>1. i # Len(queue) + 1
    BY <1>1, <1>2, <1>3 DEF Announces
  <2>2. i \in 1 .. Len(queue)
    BY <1>2, <2>1
  <2> QED BY <1>2, <1>3, <2>2 DEF Announces
<1>4. ASSUME NEW i \in 1 .. Len(queue), Announces(i)
      PROVE  i \in 1 .. Len(queue') /\ Announces(i)' /\ queue'[i] = queue[i]
  BY <1>2, <1>4 DEF Announces
<1>5. ASSUME NEW i \in 2 .. Len(queue'), Announces(i)'
      PROVE  Len(queue'[i].block) > 1
  <2>1. i \in 1 .. Len(queue')
    BY <1>2
  <2>2. i \in 1 .. Len(queue) /\ Announces(i) /\ queue'[i] = queue[i]
    BY <1>3, <1>5, <2>1
  <2>3. i \in 2 .. Len(queue)
    BY <1>2, <2>2
  <2> QED BY <2>2, <2>3 DEF InTurn
<1>6. ASSUME NEW i \in 1 .. Len(queue'), Announces(i)', ~IsAncestor(tip, queue'[i].block)
      PROVE  \E j \in i + 1 .. Len(queue') :
                Announces(j)' /\ IsAncestor(Prev(queue'[j].block), queue'[i].block)
  <2>1. i \in 1 .. Len(queue) /\ Announces(i) /\ queue'[i] = queue[i]
    BY <1>3, <1>6
  <2>2. PICK j \in i + 1 .. Len(queue) :
               Announces(j) /\ IsAncestor(Prev(queue[j].block), queue[i].block)
    BY <1>6, <2>1 DEF InTurn
  <2>3. j \in 1 .. Len(queue) /\ j \in i + 1 .. Len(queue')
    BY <1>2, <2>1
  <2>4. Announces(j)' /\ queue'[j] = queue[j]
    BY <1>4, <2>2, <2>3
  <2> QED BY <2>1, <2>2, <2>3, <2>4
<1>7. InTurn'
  BY <1>5, <1>6 DEF InTurn
<1>8. ASSUME synced, ~IsAncestor(tip, best)
      PROVE  \E i \in 1 .. Len(queue') : Announces(i)' /\ Connects(queue[i].block)'
  <2>1. PICK i \in 1 .. Len(queue) : Announces(i) /\ Connects(queue[i].block)
    BY <1>8 DEF Covered
  <2>2. i \in 1 .. Len(queue') /\ Announces(i)' /\ queue'[i] = queue[i]
    BY <1>4, <2>1
  <2>3. Connects(queue[i].block)'
    BY <2>1, <2>2 DEF Connects
  <2> QED BY <2>2, <2>3
<1>9. Covered'
  BY <1>8 DEF Covered
<1> QED BY <1>2, <1>7, <1>9

\* Where a longer chain b leaves the active one.
LEMMA ForkBelow ==
    ASSUME Typing, NEW b \in Tree, Len(b) > Len(tip), NEW n, n = Len(ForkOf(b))
    PROVE  /\ ForkOf(b) \in Blocks /\ IsAncestor(ForkOf(b), tip)
           /\ tip # NoBlock => n >= 1
           /\ n \in Nat /\ Len(b) \in Nat /\ n < Len(b)
           /\ GetAncestor(b, n) = ForkOf(b) /\ GetAncestor(b, Len(b)) = b
<1>1. b \in Seq(Headers) /\ tip \in Seq(Headers) /\ tip \in Blocks /\ Len(b) \in Nat /\ Len(tip) \in Nat
  BY TreeTyped DEF Typing
<1>2. /\ ForkOf(b) \in Blocks /\ IsAncestor(ForkOf(b), tip) /\ IsAncestor(ForkOf(b), b)
      /\ tip # NoBlock => Len(ForkOf(b)) >= 1
  <2>1. CASE tip = NoBlock
    <3>1. IsAncestor(NoBlock, tip) /\ IsAncestor(NoBlock, b)
      BY <1>1, AncestorRefl DEF NoBlock
    <3> QED BY <2>1, <3>1 DEF ForkOf, Blocks
  <2>2. CASE tip # NoBlock
    <3>1. tip \in Tree
      BY <1>1, <2>2 DEF Blocks
    <3> QED BY <2>2, <3>1, ForkInTree DEF ForkOf, Blocks
  <2> QED BY <2>1, <2>2
<1>3. ForkOf(b) \in Seq(Headers)
  BY <1>2, TreeTyped
<1>4. n \in Nat /\ n <= Len(tip) /\ n < Len(b) /\ GetAncestor(b, n) = ForkOf(b)
  BY <1>1, <1>2, <1>3 DEF IsAncestor
<1>5. GetAncestor(b, Len(b)) = b
  BY <1>1, SelfAncestor
<1> QED BY <1>1, <1>2, <1>4, <1>5

\* The blocks of b's chain above the fork.
LEMMA ConnectedBlock ==
    ASSUME Typing, NEW b \in Tree, Len(b) > Len(tip),
           NEW n, n = Len(ForkOf(b)), NEW i \in 1 .. Len(b) - n
    PROVE  /\ GetAncestor(b, n + i) \in Tree /\ Len(GetAncestor(b, n + i)) = n + i
           /\ Prev(GetAncestor(b, n + i)) = GetAncestor(b, n + i - 1)
<1>1. n \in Nat /\ Len(b) \in Nat /\ n < Len(b) /\ b \in Seq(Headers)
  BY ForkBelow, TreeTyped
<1>2. n + i \in 1 .. Len(b) /\ n + i \in 0 .. Len(b)
  BY <1>1
<1>3. GetAncestor(b, n + i) \in Tree
  BY <1>2, InTree
<1>4. Len(GetAncestor(b, n + i)) = n + i
  BY <1>1, <1>2, AncestorAt
<1>5. Prev(GetAncestor(b, n + i)) = GetAncestor(b, n + i - 1)
  BY <1>1, <1>2, PrevOfAncestor
<1> QED BY <1>3, <1>4, <1>5

\* The callbacks of a move to b.
LEMMA ConnectedIs ==
    ASSUME Typing, NEW b \in Tree, Len(b) > Len(tip), NEW n, n = Len(ForkOf(b))
    PROVE  Connected(b) \in Seq(Events) /\ Len(Connected(b)) = Len(b) - n
<1>1. n \in Nat /\ Len(b) \in Nat /\ n < Len(b)
  BY ForkBelow
<1>2. ASSUME NEW i \in 1 .. Len(b) - n PROVE Event("connect", GetAncestor(b, n + i)) \in Events
  <2>1. GetAncestor(b, n + i) \in Tree
    BY ConnectedBlock, Zenon
  <2> QED BY <2>1 DEF Event, Events
<1>3. Connected(b) = [i \in 1 .. Len(b) - n |-> Event("connect", GetAncestor(b, n + i))]
  BY DEF Connected
<1>4. Len(b) - n \in Nat
  BY <1>1
<1>5. Connected(b) \in Seq(Events)
  BY <1>2, <1>3, <1>4, IsASeq
<1> QED BY <1>3, <1>4, <1>5

\* A move to a longer chain: its first callback goes on from the old tip's chain, each
\* other one from the one before, and the last one is the new tip.
LEMMA ActivateKeeps ==
    ASSUME Typing, InTurn, Covered, Quiet, NEW b \in Tree, Len(b) > Len(tip),
           tip' = b, queue' = queue \o Connected(b), best' = best, synced' = synced
    PROVE  queue' \in Seq(Events) /\ InTurn' /\ Covered'
<1>n. PICK n : n = Len(ForkOf(b))
  BY Zenon
<1>q. PICK q : q = Len(queue)
  BY Zenon
<1>b. PICK new : new = Connected(b)
  OBVIOUS
<1>0. /\ n \in Nat /\ Len(b) \in Nat /\ n < Len(b)
      /\ new \in Seq(Events) /\ Len(new) = Len(b) - n
  BY <1>n, <1>b, ForkBelow, ConnectedIs
<1>1. /\ ForkOf(b) \in Blocks /\ IsAncestor(ForkOf(b), tip)
      /\ tip # NoBlock => n >= 1
      /\ GetAncestor(b, n) = ForkOf(b) /\ GetAncestor(b, Len(b)) = b
  BY <1>n, ForkBelow
<1>a. ASSUME NEW i \in 1 .. Len(b) - n
      PROVE  /\ new[i] = Event("connect", GetAncestor(b, n + i))
             /\ GetAncestor(b, n + i) \in Tree /\ Len(GetAncestor(b, n + i)) = n + i
             /\ Prev(GetAncestor(b, n + i)) = GetAncestor(b, n + i - 1)
  <2>1. Connected(b)[i] = Event("connect", GetAncestor(b, n + i))
    <3>1. Connected(b) = [k \in 1 .. Len(b) - n |-> Event("connect", GetAncestor(b, n + k))]
      BY <1>n DEF Connected
    <3> QED BY <3>1
  <2>2. GetAncestor(b, n + i) \in Tree /\ Len(GetAncestor(b, n + i)) = n + i
    BY <1>n, ConnectedBlock, Zenon
  <2>3. Prev(GetAncestor(b, n + i)) = GetAncestor(b, n + i - 1)
    BY <1>n, ConnectedBlock, Zenon
  <2> QED BY <1>b, <2>1, <2>2, <2>3
<1>2. queue \in Seq(Events) /\ q \in Nat /\ tip \in Blocks /\ best \in Blocks
  BY <1>q DEF Typing
<1>3. tip = NoBlock => q = 0 /\ best = NoBlock
  BY <1>q DEF Quiet
<1>4. /\ queue' \in Seq(Events) /\ Len(queue') = q + Len(new)
      /\ \A i \in 1 .. q : queue'[i] = queue[i]
      /\ \A i \in q + 1 .. q + Len(new) : queue'[i] = new[i - q]
  <2>1. /\ queue \o new \in Seq(Events) /\ Len(queue \o new) = q + Len(new)
        /\ \A i \in 1 .. q + Len(new) : (queue \o new)[i] = IF i <= q THEN queue[i] ELSE new[i - q]
    BY <1>0, <1>2, <1>q, ConcatProperties, Zenon
  <2>2. queue' = queue \o new
    BY <1>b
  <2>3. Len(new) \in Nat
    BY <1>0
  <2>4. \A i \in 1 .. q : (queue \o new)[i] = queue[i]
    BY <1>2, <2>1, <2>3
  <2>5. \A i \in q + 1 .. q + Len(new) : (queue \o new)[i] = new[i - q]
    BY <1>2, <2>1, <2>3
  <2> QED BY <2>1, <2>2, <2>4, <2>5, Zenon
<1>5. ASSUME NEW k \in 1 .. Len(b) - n
      PROVE  /\ q + k \in 1 .. Len(queue') /\ Announces(q + k)'
             /\ queue'[q + k].block = GetAncestor(b, n + k)
  <2>1. q + k \in q + 1 .. q + Len(new) /\ (q + k) - q = k /\ q + k \in 1 .. Len(queue')
    BY <1>0, <1>2, <1>4
  <2>2. queue'[q + k] = Event("connect", GetAncestor(b, n + k))
    BY <1>a, <1>4, <2>1, Zenon
  <2>3. ASSUME NEW x PROVE Event("connect", x).kind = "connect" /\ Event("connect", x).block = x
    BY DEF Event
  <2> QED BY <2>1, <2>2, <2>3 DEF Announces
<1>6. ASSUME NEW i \in 1 .. Len(queue'), ~(i \in 1 .. q)
      PROVE  i - q \in 1 .. Len(b) - n /\ q + (i - q) = i
  BY <1>0, <1>2, <1>4, <1>6
<1>7. ASSUME NEW i \in 2 .. Len(queue'), Announces(i)'
      PROVE  Len(queue'[i].block) > 1
  <2>1. CASE i \in 1 .. q
    <3>1. i \in 2 .. Len(queue) /\ queue'[i] = queue[i]
      BY <1>4, <2>1, <1>q
    <3> QED BY <1>7, <3>1 DEF InTurn, Announces
  <2>2. CASE ~(i \in 1 .. q)
    <3>1. i \in 1 .. Len(queue')
      BY <1>0, <1>2, <1>4
    <3>2. i - q \in 1 .. Len(b) - n /\ q + (i - q) = i
      BY <1>6, <2>2, <3>1
    <3>3. queue'[i].block = GetAncestor(b, n + (i - q))
      BY <1>5, <3>2
    <3>4. Len(queue'[i].block) = n + (i - q)
      BY <1>a, <3>2, <3>3
    <3>5. n >= 1 \/ q = 0
      BY <1>1, <1>3
    <3> QED BY <1>0, <1>2, <3>2, <3>4, <3>5
  <2> QED BY <2>1, <2>2
<1>8. 1 \in 1 .. Len(b) - n /\ Prev(GetAncestor(b, n + 1)) = ForkOf(b)
  <2>1. 1 \in 1 .. Len(b) - n /\ n + 1 - 1 = n
    BY <1>0
  <2> QED BY <1>1, <1>a, <2>1
<1>9. ASSUME NEW i \in 1 .. Len(queue'), Announces(i)', ~IsAncestor(b, queue'[i].block)
      PROVE  \E j \in i + 1 .. Len(queue') :
                Announces(j)' /\ IsAncestor(Prev(queue'[j].block), queue'[i].block)
  <2>1. CASE i \in 1 .. q
    <3>1. i \in 1 .. Len(queue) /\ queue'[i] = queue[i] /\ Announces(i) /\ queue[i].block \in Tree
      <4>1. i \in 1 .. Len(queue) /\ queue'[i] = queue[i]
        BY <1>4, <2>1, <1>q
      <4>2. queue[i] \in Events
        BY <1>2, <4>1
      <4> QED BY <1>9, <4>1, <4>2 DEF Announces, Events
    <3>2. CASE IsAncestor(tip, queue[i].block)
      <4>1. q + 1 \in i + 1 .. Len(queue')
        BY <1>0, <1>2, <1>4, <2>1
      <4>2. Announces(q + 1)' /\ Prev(queue'[q + 1].block) = ForkOf(b)
        BY <1>5, <1>8
      <4>3. IsAncestor(ForkOf(b), queue[i].block)
        <5>1. queue[i].block \in Seq(Headers) /\ tip \in Seq(Headers) /\ ForkOf(b) \in Seq(Headers)
          BY <1>1, <1>2, <3>1, TreeTyped
        <5> QED BY <1>1, <3>2, <5>1, AncestorTrans
      <4> QED BY <3>1, <4>1, <4>2, <4>3
    <3>3. CASE ~IsAncestor(tip, queue[i].block)
      <4>1. PICK j \in i + 1 .. Len(queue) :
                   Announces(j) /\ IsAncestor(Prev(queue[j].block), queue[i].block)
        BY <3>1, <3>3 DEF InTurn
      <4>2. j \in 1 .. q /\ j \in i + 1 .. Len(queue')
        BY <1>0, <1>2, <1>4, <3>1, <1>q
      <4>3. queue'[j] = queue[j] /\ Announces(j)'
        BY <1>4, <4>1, <4>2 DEF Announces
      <4> QED BY <3>1, <4>1, <4>2, <4>3
    <3> QED BY <3>2, <3>3
  <2>2. CASE ~(i \in 1 .. q)
    <3>1. PICK k \in 1 .. Len(b) - n : q + k = i
      BY <1>6, <2>2
    <3>2. queue'[i].block = GetAncestor(b, n + k) /\ GetAncestor(b, n + k) \in Tree
      BY <1>a, <1>5, <3>1
    <3>3. GetAncestor(b, n + k) \in Seq(Headers)
      BY <3>2, TreeTyped
    <3>4. n + k # Len(b)
      <4>1. IsAncestor(b, b)
        BY TreeTyped, AncestorRefl
      <4> QED BY <1>1, <1>9, <3>2, <4>1
    <3>5. k + 1 \in 1 .. Len(b) - n /\ q + (k + 1) \in i + 1 .. Len(queue') /\ n + (k + 1) - 1 = n + k
      <4>1. k + 1 \in 1 .. Len(b) - n /\ n + (k + 1) - 1 = n + k
        BY <1>0, <3>1, <3>4
      <4>2. Len(queue') = q + (Len(b) - n) /\ q + (k + 1) = i + 1
        BY <1>0, <1>2, <1>4, <3>1
      <4>3. q + (k + 1) \in i + 1 .. Len(queue')
        BY <1>0, <1>2, <4>1, <4>2
      <4> QED BY <4>1, <4>3
    <3>6. /\ Announces(q + (k + 1))' /\ queue'[q + (k + 1)].block = GetAncestor(b, n + (k + 1))
      BY <1>5, <3>5
    <3>7. Prev(GetAncestor(b, n + (k + 1))) = GetAncestor(b, n + k)
      BY <1>a, <3>5
    <3>8. IsAncestor(GetAncestor(b, n + k), GetAncestor(b, n + k))
      BY <3>3, AncestorRefl
    <3> QED BY <3>2, <3>5, <3>6, <3>7, <3>8
  <2> QED BY <2>1, <2>2
<1>10. InTurn'
  BY <1>7, <1>9 DEF InTurn
<1>11. ASSUME synced
       PROVE  \E i \in 1 .. Len(queue') : Announces(i)' /\ Connects(queue[i].block)'
  <2>1. CASE IsAncestor(tip, best)
    <3>1. q + 1 \in 1 .. Len(queue') /\ Announces(q + 1)' /\ queue'[q + 1].block = GetAncestor(b, n + 1)
      BY <1>5, <1>8
    <3>2. Len(GetAncestor(b, n + 1)) = n + 1
      BY <1>a, <1>8
    <3>3. ForkOf(b) \in Seq(Headers) /\ tip \in Seq(Headers) /\ best \in Seq(Headers)
      BY <1>1, <1>2, TreeTyped
    <3>4. IsAncestor(ForkOf(b), best)
      BY <1>1, <2>1, <3>3, AncestorTrans
    <3>5. best = NoBlock <=> n = 0
      <4>1. CASE tip = NoBlock
        <5>1. n = 0
          BY <4>1, <1>n DEF ForkOf, NoBlock
        <5> QED BY <1>3, <4>1, <5>1
      <4>2. CASE tip # NoBlock
        <5>1. Len(tip) # 0 /\ Len(tip) <= Len(best) /\ Len(NoBlock) = 0 /\ Len(tip) \in Nat
          BY <1>2, <2>1, <3>3, <4>2, InTree DEF IsAncestor, NoBlock
        <5>2. best # NoBlock
          BY <5>1
        <5> QED BY <1>1, <4>2, <5>2
      <4> QED BY <4>1, <4>2
    <3>6. n + 1 = 1 <=> n = 0
      BY <1>0
    <3>7. Connects(queue[q + 1].block)'
      BY <1>8, <3>1, <3>2, <3>4, <3>5, <3>6, Zenon DEF Connects
    <3> QED BY <3>1, <3>7
  <2>2. CASE ~IsAncestor(tip, best)
    <3>1. PICK i \in 1 .. Len(queue) : Announces(i) /\ Connects(queue[i].block)
      BY <1>11, <2>2 DEF Covered
    <3>2. i \in 1 .. Len(queue') /\ queue'[i] = queue[i]
      BY <1>0, <1>2, <1>4, <3>1, <1>q
    <3>3. Announces(i)' /\ Connects(queue[i].block)'
      BY <3>1, <3>2 DEF Announces, Connects
    <3> QED BY <3>2, <3>3
  <2> QED BY <2>1, <2>2
<1>12. Covered'
  BY <1>11 DEF Covered
<1> QED BY <1>4, <1>10, <1>12

-----------------------------------------------------------------------------
(***************************************************************************)
(* The steps that change the chain.                                        *)
(***************************************************************************)

LEMMA SameDisk ==
    ASSUME OnDisk, EntriesTrue, UNCHANGED <<entries, locator, best, pindex, tpc, astray>>
    PROVE  OnDisk' /\ EntriesTrue'
BY DEF OnDisk, EntriesTrue

LEMMA SameQueue ==
    ASSUME InTurn, UNCHANGED <<tip, queue>>
    PROVE  InTurn'
BY DEF InTurn, Announces

LEMMA SameCover ==
    ASSUME Covered, UNCHANGED <<tip, queue, best, synced>>
    PROVE  Covered'
BY DEF Covered, Announces, Connects

LEMMA ActivateInd == IndInv /\ ActivateBestChain => IndInv'
<1> SUFFICES ASSUME IndInv, ActivateBestChain PROVE IndInv'
  OBVIOUS
<1>1. PICK b \in Tree : Len(b) > Len(tip) /\ tip' = b /\ queue' = queue \o Connected(b)
  BY DEF ActivateBestChain
<1>2. UNCHANGED <<flushed, entries, locator, best, synced, pindex, tpc, phase, astray, stops>> /\ Up
  BY DEF ActivateBestChain, Accepting, dbVars, memVars, nodeVars
<1>3. Typing /\ InTurn /\ Covered /\ Quiet /\ EntriesTrue /\ OnDisk
  BY DEF IndInv
<1>4. queue' \in Seq(Events) /\ InTurn' /\ Covered'
  BY <1>1, <1>2, <1>3, ActivateKeeps
<1>5. tip' \in Blocks /\ tip' # NoBlock
  BY <1>1, InTree DEF Blocks
<1>6. Typing'
  BY <1>2, <1>3, <1>4, <1>5 DEF Typing
<1>7. Quiet'
  BY <1>2, <1>3, <1>5 DEF Quiet, Up
<1>8. EntriesTrue' /\ OnDisk'
  BY <1>2, <1>3, SameDisk
<1> QED BY <1>4, <1>6, <1>7, <1>8 DEF IndInv

LEMMA InvalidateInd == IndInv /\ InvalidateBlock => IndInv'
<1> SUFFICES ASSUME IndInv, InvalidateBlock PROVE IndInv'
  OBVIOUS
<1>1. Len(tip) > 1 /\ tip' = Prev(tip)
  BY DEF InvalidateBlock
<1>2. UNCHANGED <<flushed, queue, entries, locator, best, synced, pindex, tpc, phase, astray, stops>> /\ Up
  BY DEF InvalidateBlock, Accepting, dbVars, memVars, nodeVars
<1>3. Typing /\ InTurn /\ Covered /\ Quiet /\ EntriesTrue /\ OnDisk
  BY DEF IndInv
<1>4. tip \in Blocks /\ best \in Blocks /\ queue \in Seq(Events)
  BY <1>3 DEF Typing
<1>5. tip \in Tree
  <2>1. Len(NoBlock) = 0
    BY DEF NoBlock
  <2>2. tip # NoBlock
    BY <1>1, <2>1
  <2> QED BY <1>4, <2>2 DEF Blocks
<1>6. tip \in Seq(Headers) /\ Len(tip) \in Nat
  BY <1>5, TreeTyped
<1>7. tip' \in Seq(Headers) /\ Len(tip') = Len(tip) - 1 /\ IsAncestor(tip', tip)
  BY <1>1, <1>6, PrevIs
<1>8. tip' \in Blocks /\ tip' # NoBlock
  <2>1. Len(NoBlock) = 0
    BY DEF NoBlock
  <2>2. tip' # NoBlock
    BY <1>1, <1>6, <1>7, <2>1
  <2> QED BY <1>1, <1>5, <2>2, InTree
<1>9. ASSUME NEW b \in Blocks, IsAncestor(tip, b) PROVE IsAncestor(tip', b)
  <2>1. b \in Seq(Headers)
    BY TreeTyped
  <2> QED BY <1>6, <1>7, <1>9, <2>1, AncestorTrans
<1>10. ASSUME NEW i \in 1 .. Len(queue) PROVE queue[i].block \in Blocks
  BY <1>4, EventIs
<1>11. InTurn'
  BY <1>2, <1>3, <1>9, <1>10 DEF InTurn, Announces
<1>12. Covered'
  BY <1>2, <1>3, <1>4, <1>9 DEF Covered, Announces, Connects
<1>13. Typing'
  BY <1>2, <1>3, <1>8 DEF Typing
<1>14. Quiet'
  BY <1>2, <1>3, <1>8 DEF Quiet, Up
<1>15. EntriesTrue' /\ OnDisk'
  BY <1>2, <1>3, SameDisk
<1> QED BY <1>11, <1>12, <1>13, <1>14, <1>15 DEF IndInv

LEMMA FlushInd == IndInv /\ FlushStateToDisk => IndInv'
<1> SUFFICES ASSUME IndInv, FlushStateToDisk PROVE IndInv'
  OBVIOUS
<1>1. tip # NoBlock /\ flushed' = tip /\ queue' = Append(queue, Event("flush", tip))
  BY DEF FlushStateToDisk
<1>2. UNCHANGED <<tip, entries, locator, best, synced, pindex, tpc, phase, astray, stops>> /\ Up
  BY DEF FlushStateToDisk, Accepting, dbVars, memVars, nodeVars
<1>3. Typing /\ InTurn /\ Covered /\ Quiet /\ EntriesTrue /\ OnDisk
  BY DEF IndInv
<1>4. tip \in Blocks /\ tip \in Tree
  BY <1>1, <1>3 DEF Typing, Blocks
<1>5. queue' \in Seq(Events) /\ InTurn' /\ Covered'
  BY <1>1, <1>2, <1>3, <1>4, FlushKeeps
<1>6. Typing'
  BY <1>1, <1>2, <1>3, <1>4, <1>5 DEF Typing
<1>7. Quiet'
  BY <1>1, <1>2, <1>3 DEF Quiet, Up
<1>8. EntriesTrue' /\ OnDisk'
  BY <1>2, <1>3, SameDisk
<1> QED BY <1>5, <1>6, <1>7, <1>8 DEF IndInv

-----------------------------------------------------------------------------
(***************************************************************************)
(* The steps of the sync thread.                                           *)
(***************************************************************************)

LEMMA LocatorTyped ==
    ASSUME Typing, NEW b \in Blocks
    PROVE  Locator(b) \in Blocks /\ (b # NoBlock => Locator(b) = b)
BY DEF Locator, Typing

LEMMA SyncFinishInd == IndInv /\ SyncFinish => IndInv'
<1> SUFFICES ASSUME IndInv, SyncFinish PROVE IndInv'
  OBVIOUS
<1>1. /\ tpc \in {"first", "loop"} /\ NextSyncBlock = NoBlock
      /\ synced' = TRUE /\ best' = pindex /\ locator' = Locator(pindex) /\ tpc' = "done"
  BY DEF SyncFinish, AtLoop, SyncDone, Commit
<1>2. UNCHANGED <<tip, flushed, queue, entries, pindex, phase, astray, stops>>
  BY DEF SyncFinish, chainVars, nodeVars
<1>3. Typing /\ InTurn /\ Quiet /\ EntriesTrue /\ OnDisk
  BY DEF IndInv
<1>4. tip # NoBlock
  BY <1>1, <1>3 DEF Quiet
<1>5. IsAncestor(tip, pindex)
  BY <1>1, <1>3, <1>4, NextSyncIs
<1>6. locator' \in Blocks
  BY <1>1, <1>3, LocatorTyped DEF Typing
<1>7. Typing'
  BY <1>1, <1>2, <1>3, <1>6 DEF Typing, ThreadPcs
<1>8. InTurn'
  BY <1>2, <1>3, SameQueue
<1>9. Covered'
  BY <1>1, <1>2, <1>5 DEF Covered
<1>10. Quiet'
  BY <1>1, <1>2, <1>4 DEF Quiet, Up
<1>11. EntriesTrue'
  BY <1>2, <1>3 DEF EntriesTrue
<1>12. OnDisk'
  BY <1>1, <1>2, <1>3 DEF OnDisk
<1> QED BY <1>7, <1>8, <1>9, <1>10, <1>11, <1>12 DEF IndInv

LEMMA SyncNextInd == IndInv /\ SyncNext => IndInv'
<1> SUFFICES ASSUME IndInv, SyncNext PROVE IndInv'
  OBVIOUS
<1>1. /\ tpc \in {"first", "loop"} /\ NextSyncBlock # NoBlock
      /\ pindex' = NextSyncBlock /\ tpc' = "write"
  BY DEF SyncNext, AtLoop
<1>2. UNCHANGED <<tip, flushed, queue, entries, synced, phase, astray, stops>>
  BY DEF SyncNext, chainVars, nodeVars
<1>3. Typing /\ InTurn /\ Covered /\ Quiet /\ EntriesTrue /\ OnDisk
  BY DEF IndInv
<1>4. tip # NoBlock /\ ~synced
  BY <1>1, <1>3 DEF Quiet
<1>5. /\ pindex' \in Tree /\ pindex' \in Blocks /\ pindex' # NoBlock
      /\ Prev(pindex') \in Blocks /\ IsAncestor(Prev(pindex'), pindex)
  BY <1>1, <1>3, <1>4, NextSyncIs DEF Blocks
<1>6. pindex \in Blocks /\ locator \in Blocks /\ best \in Blocks
  BY <1>3 DEF Typing
\* The three ways the block is recorded.
<1>7. \/ best' = pindex' /\ locator' = pindex'
      \/ best' = Prev(pindex') /\ locator' = Prev(pindex')
      \/ best' = best /\ locator' = locator /\ tpc = "loop" /\ Prev(pindex') = pindex
  <2>1. CASE Commit(NextSyncBlock)
    BY <1>1, <2>1 DEF Commit, Locator
  <2>2. CASE tpc = "loop" /\ MustRewind /\ Rewind(Prev(NextSyncBlock))
    BY <1>1, <2>2 DEF Rewind
  <2>3. CASE tpc = "loop" /\ ~MustRewind /\ UNCHANGED <<best, locator>>
    BY <1>1, <2>3 DEF MustRewind
  <2> QED BY <2>1, <2>2, <2>3 DEF SyncNext
<1>8. best' \in Blocks /\ locator' \in Blocks
  BY <1>5, <1>6, <1>7
<1>9. Typing'
  BY <1>1, <1>2, <1>3, <1>5, <1>8 DEF Typing, ThreadPcs
<1>10. InTurn'
  BY <1>2, <1>3, SameQueue
<1>11. Covered'
  BY <1>2, <1>4 DEF Covered
<1>12. Quiet'
  BY <1>1, <1>2, <1>4 DEF Quiet, Up
<1>13. EntriesTrue'
  BY <1>2, <1>3 DEF EntriesTrue
<1>14. ASSUME ~astray PROVE ExactIn(entries, Prev(pindex'))
  <2>1. ExactIn(entries, pindex)
    BY <1>1, <1>3, <1>14 DEF OnDisk
  <2> QED BY <1>5, <1>6, <2>1, ExactDown
<1>15. ASSUME ~astray PROVE locator' = pindex' \/ IsAncestor(locator', Prev(pindex'))
  <2>1. Prev(pindex') \in Seq(Headers)
    BY <1>5, TreeTyped
  <2>2. IsAncestor(Prev(pindex'), Prev(pindex'))
    BY <2>1, AncestorRefl
  <2>3. tpc = "loop" => IsAncestor(locator, pindex)
    BY <1>3, <1>15 DEF OnDisk
  <2> QED BY <1>7, <2>2, <2>3
<1>16. OnDisk'
  BY <1>1, <1>2, <1>14, <1>15 DEF OnDisk
<1> QED BY <1>9, <1>10, <1>11, <1>12, <1>13, <1>16 DEF IndInv

\* What WriteBlock writes is true.
LEMMA WriteIs ==
    ASSUME Typing, EntriesTrue, NEW b \in Tree, WriteBlock(b)
    PROVE  entries' = Written(entries, b) /\ entries' \in [Txs -> Blocks] /\ EntriesTrue'
<1>1. entries' = Written(entries, b)
  BY DEF WriteBlock, Written
<1>2. entries \in [Txs -> Blocks] /\ b \in Blocks
  BY DEF Typing, Blocks
<1>3. entries' \in [Txs -> Blocks]
  BY <1>1, <1>2 DEF Written
<1>4. \A t \in Txs : entries'[t] = IF Len(b) > 1 /\ t \in Header(b).creates THEN b ELSE entries[t]
  BY <1>1 DEF Written
<1>5. EntriesTrue'
  BY <1>4 DEF EntriesTrue
<1> QED BY <1>1, <1>3, <1>5

LEMMA SyncWriteInd == IndInv /\ SyncWrite => IndInv'
<1> SUFFICES ASSUME IndInv, SyncWrite PROVE IndInv'
  OBVIOUS
<1>1. tpc = "write" /\ WriteBlock(pindex) /\ tpc' = "loop"
  BY DEF SyncWrite
<1>2. UNCHANGED <<tip, flushed, queue, locator, best, synced, pindex, phase, astray, stops>>
  BY DEF SyncWrite, chainVars, memVars, nodeVars
<1>3. Typing /\ InTurn /\ Covered /\ Quiet /\ EntriesTrue /\ OnDisk
  BY DEF IndInv
<1>4. pindex \in Tree /\ locator \in Blocks
  BY <1>1, <1>3 DEF Typing, Blocks
<1>5. entries' = Written(entries, pindex) /\ entries' \in [Txs -> Blocks] /\ EntriesTrue'
  BY <1>1, <1>3, <1>4, WriteIs
<1>6. Typing'
  BY <1>1, <1>2, <1>3, <1>4, <1>5, InTree DEF Typing, ThreadPcs
<1>7. InTurn' /\ Covered'
  BY <1>2, <1>3, SameQueue, SameCover
<1>8. Quiet'
  BY <1>1, <1>2, <1>3 DEF Quiet, Up
<1>9. ASSUME ~astray PROVE ExactIn(entries', pindex)
  <2>1. ExactIn(entries, Prev(pindex))
    BY <1>1, <1>3, <1>9 DEF OnDisk
  <2> QED BY <1>4, <1>5, <2>1, ExactUp
<1>10. ASSUME ~astray PROVE IsAncestor(locator, pindex)
  <2>1. pindex \in Seq(Headers) /\ locator \in Seq(Headers) /\ Len(pindex) >= 1
    BY <1>4, TreeTyped, InTree
  <2>2. Prev(pindex) \in Seq(Headers) /\ IsAncestor(Prev(pindex), pindex) /\ IsAncestor(pindex, pindex)
    BY <2>1, PrevIs, AncestorRefl
  <2>3. locator = pindex \/ IsAncestor(locator, Prev(pindex))
    BY <1>1, <1>3, <1>10 DEF OnDisk
  <2> QED BY <2>1, <2>2, <2>3, AncestorTrans
<1>11. OnDisk'
  BY <1>1, <1>2, <1>9, <1>10 DEF OnDisk
<1> QED BY <1>5, <1>6, <1>7, <1>8, <1>11 DEF IndInv

LEMMA SyncInterruptedInd == IndInv /\ SyncInterrupted => IndInv'
<1> SUFFICES ASSUME IndInv, SyncInterrupted PROVE IndInv'
  OBVIOUS
<1>1. /\ tpc \in {"first", "loop"} /\ tpc' = "exited"
      /\ best' = pindex /\ locator' = Locator(pindex) /\ astray' = (astray \/ pindex = NoBlock)
  BY DEF SyncInterrupted, AtLoop, Commit
<1>2. UNCHANGED <<tip, flushed, queue, entries, synced, pindex, phase, stops>>
  BY DEF SyncInterrupted, chainVars
<1>3. Typing /\ InTurn /\ Quiet /\ EntriesTrue /\ OnDisk
  BY DEF IndInv
<1>4. tip # NoBlock /\ ~synced
  BY <1>1, <1>3 DEF Quiet
<1>5. locator' \in Blocks /\ (pindex # NoBlock => locator' = pindex)
  BY <1>1, <1>3, LocatorTyped DEF Typing
<1>6. astray' \in BOOLEAN
  BY <1>1
<1>7. Typing'
  BY <1>1, <1>2, <1>3, <1>5, <1>6 DEF Typing, ThreadPcs
<1>8. InTurn'
  BY <1>2, <1>3, SameQueue
<1>9. Covered'
  BY <1>2, <1>4 DEF Covered
<1>10. Quiet'
  BY <1>1, <1>2, <1>4 DEF Quiet, Up
<1>11. EntriesTrue'
  BY <1>2, <1>3 DEF EntriesTrue
<1>12. ASSUME ~astray' PROVE ExactIn(entries, pindex) /\ locator' = pindex
  BY <1>1, <1>3, <1>5, <1>12, Zenon DEF OnDisk
<1>13. OnDisk'
  BY <1>1, <1>2, <1>12 DEF OnDisk
<1> QED BY <1>7, <1>8, <1>9, <1>10, <1>11, <1>13 DEF IndInv

-----------------------------------------------------------------------------
(***************************************************************************)
(* The callbacks.                                                          *)
(***************************************************************************)

LEMMA IgnoredInd == IndInv /\ BlockConnectedIgnored => IndInv'
<1> SUFFICES ASSUME IndInv, BlockConnectedIgnored PROVE IndInv'
  OBVIOUS
<1>1. Up /\ queue # <<>> /\ Pop /\ (~synced \/ ~Connects(Head(queue).block))
  BY DEF BlockConnectedIgnored, IsNext
<1>2. UNCHANGED <<tip, flushed, entries, locator, best, synced, pindex, tpc, phase, astray, stops>>
  BY DEF BlockConnectedIgnored, chainVars, dbVars, memVars, nodeVars
<1>3. Typing /\ InTurn /\ Covered /\ Quiet /\ EntriesTrue /\ OnDisk
  BY DEF IndInv
<1>4. queue' \in Seq(Events) /\ Head(queue) = queue[1]
  BY <1>1, <1>3, PopIs DEF Pop, Typing
<1>5. InTurn'
  BY <1>1, <1>2, <1>3, PopKeepsTurns
<1>6. Covered'
  BY <1>1, <1>2, <1>3, <1>4, PopKeepsCover
<1>7. Typing'
  BY <1>2, <1>3, <1>4 DEF Typing
<1>8. Quiet'
  BY <1>1, <1>2, <1>3 DEF Quiet, Up
<1>9. EntriesTrue' /\ OnDisk'
  BY <1>2, <1>3, SameDisk
<1> QED BY <1>5, <1>6, <1>7, <1>8, <1>9 DEF IndInv

LEMMA FlushedInd == IndInv /\ ChainStateFlushed => IndInv'
<1> SUFFICES ASSUME IndInv, ChainStateFlushed PROVE IndInv'
  OBVIOUS
<1>1. Up /\ queue # <<>> /\ Pop /\ Head(queue).kind = "flush"
  BY DEF ChainStateFlushed, IsNext
<1>2. UNCHANGED <<tip, flushed, entries, synced, pindex, tpc, phase, astray, stops>>
  BY DEF ChainStateFlushed, chainVars, nodeVars
<1>3. Typing /\ InTurn /\ Covered /\ Quiet /\ EntriesTrue /\ OnDisk
  BY DEF IndInv
<1>4. queue' \in Seq(Events) /\ Head(queue) = queue[1]
  BY <1>1, <1>3, PopIs DEF Pop, Typing
<1>5. best' = best /\ (locator' = locator \/ (synced /\ locator' = Locator(best)))
  <2>1. CASE synced /\ IsAncestor(Head(queue).block, best)
    BY <2>1 DEF ChainStateFlushed, Commit
  <2>2. CASE ~(synced /\ IsAncestor(Head(queue).block, best))
    BY <2>2 DEF ChainStateFlushed
  <2> QED BY <2>1, <2>2
<1>6. locator' \in Blocks
  BY <1>3, <1>5, LocatorTyped DEF Typing
<1>7. InTurn'
  BY <1>1, <1>2, <1>3, PopKeepsTurns
<1>8. Covered'
  <2>1. ~Announces(1)
    BY <1>1, <1>4 DEF Announces
  <2> QED BY <1>1, <1>2, <1>3, <1>5, <2>1, PopKeepsCover
<1>9. Typing'
  BY <1>2, <1>3, <1>4, <1>5, <1>6 DEF Typing
<1>10. Quiet'
  BY <1>1, <1>2, <1>3, <1>5 DEF Quiet, Up
<1>11. EntriesTrue'
  BY <1>2, <1>3 DEF EntriesTrue
<1>12. OnDisk'
  <2>1. CASE locator' = locator
    BY <1>2, <1>3, <1>5, <2>1, SameDisk
  <2>2. CASE synced
    <3>1. tpc = "done" /\ tpc' = "done"
      BY <1>2, <1>3, <2>2 DEF Quiet
    <3> QED BY <1>2, <1>3, <1>5, <3>1 DEF OnDisk
  <2> QED BY <1>5, <2>1, <2>2
<1> QED BY <1>7, <1>8, <1>9, <1>10, <1>11, <1>12 DEF IndInv

\* After the rewind the callback that made it still connects.
LEMMA RewindsInd == IndInv /\ BlockConnectedRewinds => IndInv'
<1> SUFFICES ASSUME IndInv, BlockConnectedRewinds PROVE IndInv'
  OBVIOUS
<1>1. /\ Up /\ queue # <<>> /\ Head(queue).kind = "connect" /\ synced
      /\ IsAncestor(Prev(Head(queue).block), best)
      /\ best' = Prev(Head(queue).block) /\ locator' = Prev(Head(queue).block)
  BY DEF BlockConnectedRewinds, IsNext, Connects, Rewind
<1>2. UNCHANGED <<tip, flushed, queue, entries, synced, pindex, tpc, phase, astray, stops>>
  BY DEF BlockConnectedRewinds, chainVars, nodeVars
<1>3. Typing /\ InTurn /\ Covered /\ Quiet /\ EntriesTrue /\ OnDisk
  BY DEF IndInv
<1>4. queue \in Seq(Events) /\ Head(queue) = queue[1] /\ 1 \in 1 .. Len(queue)
  BY <1>1, <1>3, PopIs DEF Typing
<1>5. PICK b : b = queue[1].block
  OBVIOUS
<1>6. b \in Tree /\ Prev(b) \in Blocks /\ best \in Blocks
  BY <1>3, <1>4, <1>5, EventIs, InTree DEF Typing
<1>7. best' = Prev(b) /\ locator' = Prev(b) /\ IsAncestor(Prev(b), best)
  BY <1>1, <1>4, <1>5
<1>8. InTurn'
  BY <1>2, <1>3, SameQueue
<1>9. Covered'
  <2>1. b \in Seq(Headers) /\ Len(b) \in Nat /\ Len(b) >= 1 /\ Prev(b) \in Seq(Headers)
    BY <1>6, TreeTyped, InTree
  <2>2. Len(Prev(b)) = Len(b) - 1 /\ IsAncestor(Prev(b), Prev(b))
    BY <2>1, PrevIs, AncestorRefl
  <2>3. Len(Prev(b)) = 0 <=> Prev(b) = NoBlock
    BY <1>6, InTree
  <2>4. Prev(b) = NoBlock <=> Len(b) = 1
    BY <2>1, <2>2, <2>3
  <2>5. Connects(b)'
    BY <1>7, <2>2, <2>4 DEF Connects
  <2>6. Announces(1)' /\ 1 \in 1 .. Len(queue') /\ queue'[1].block = b
    BY <1>1, <1>2, <1>4, <1>5 DEF Announces
  <2> QED BY <2>5, <2>6 DEF Covered, Connects
<1>10. Typing'
  BY <1>2, <1>3, <1>6, <1>7 DEF Typing
<1>11. Quiet'
  BY <1>1, <1>2, <1>3 DEF Quiet, Up
<1>12. EntriesTrue'
  BY <1>2, <1>3 DEF EntriesTrue
<1>13. tpc = "done" /\ tpc' = "done"
  BY <1>1, <1>2, <1>3 DEF Quiet
<1>14. ASSUME ~astray PROVE ExactIn(entries, Prev(b))
  <2>1. ExactIn(entries, best)
    BY <1>3, <1>13, <1>14 DEF OnDisk
  <2> QED BY <1>6, <1>7, <2>1, ExactDown
<1>15. OnDisk'
  BY <1>2, <1>7, <1>13, <1>14 DEF OnDisk
<1> QED BY <1>8, <1>9, <1>10, <1>11, <1>12, <1>15 DEF IndInv

\* When the callback has written its block, it has led to the tip, or the one that
\* goes on from it connects.
LEMMA WritesInd == IndInv /\ BlockConnectedWrites => IndInv'
<1> SUFFICES ASSUME IndInv, BlockConnectedWrites PROVE IndInv'
  OBVIOUS
<1>1. /\ Up /\ queue # <<>> /\ Head(queue).kind = "connect" /\ synced /\ Pop
      /\ best = Prev(Head(queue).block) /\ best' = Head(queue).block
      /\ WriteBlock(Head(queue).block)
  BY DEF BlockConnectedWrites, IsNext
<1>2. UNCHANGED <<tip, flushed, locator, synced, pindex, tpc, phase, astray, stops>>
  BY DEF BlockConnectedWrites, chainVars, nodeVars
<1>3. Typing /\ InTurn /\ Covered /\ Quiet /\ EntriesTrue /\ OnDisk
  BY DEF IndInv
<1>4. /\ queue \in Seq(Events) /\ queue' \in Seq(Events) /\ Head(queue) = queue[1]
      /\ Len(queue') = Len(queue) - 1 /\ Len(queue) \in Nat /\ 1 \in 1 .. Len(queue)
      /\ \A i \in 1 .. Len(queue) - 1 : queue'[i] = queue[i + 1]
  BY <1>1, <1>3, PopIs DEF Typing, Pop
<1>5. PICK b : b = queue[1].block
  OBVIOUS
<1>6. b \in Tree /\ b \in Blocks /\ b # NoBlock
  BY <1>4, <1>5, EventIs, InTree
<1>7. best = Prev(b) /\ best' = b /\ WriteBlock(b)
  BY <1>1, <1>4, <1>5
<1>8. entries' = Written(entries, b) /\ entries' \in [Txs -> Blocks] /\ EntriesTrue'
  BY <1>3, <1>6, <1>7, WriteIs
<1>9. InTurn'
  BY <1>1, <1>2, <1>3, PopKeepsTurns
<1>10. ASSUME ~IsAncestor(tip, b)
       PROVE  \E i \in 1 .. Len(queue') : Announces(i)' /\ Connects(queue[i].block)'
  <2>1. Announces(1)
    BY <1>1, <1>4 DEF Announces
  <2>2. PICK j \in 1 + 1 .. Len(queue) : Announces(j) /\ IsAncestor(Prev(queue[j].block), b)
    BY <1>3, <1>4, <1>5, <1>10, <2>1 DEF InTurn
  <2>3. j \in 2 .. Len(queue) /\ j - 1 \in 1 .. Len(queue') /\ queue'[j - 1] = queue[j]
    BY <1>4, <2>2
  <2>4. Len(queue[j].block) > 1
    BY <1>3, <2>2, <2>3 DEF InTurn
  <2>5. Len(queue[j].block) # 1
    <3>1. \A n : n > 1 => n # 1
      OBVIOUS
    <3> QED BY <2>4, <3>1, Zenon
  <2>6. Announces(j - 1)' /\ Connects(queue[j - 1].block)'
    BY <1>6, <1>7, <2>2, <2>3, <2>5 DEF Announces, Connects
  <2> QED BY <2>3, <2>6
<1>11. Covered'
  BY <1>2, <1>7, <1>10 DEF Covered
<1>12. Typing'
  BY <1>2, <1>3, <1>4, <1>6, <1>7, <1>8 DEF Typing
<1>13. Quiet'
  BY <1>1, <1>2, <1>3 DEF Quiet, Up
<1>14. tpc = "done" /\ tpc' = "done"
  BY <1>1, <1>2, <1>3 DEF Quiet
<1>15. ASSUME ~astray PROVE ExactIn(entries', b)
  <2>1. ExactIn(entries, Prev(b))
    BY <1>3, <1>7, <1>14, <1>15 DEF OnDisk
  <2> QED BY <1>6, <1>8, <2>1, ExactUp
<1>16. OnDisk'
  BY <1>2, <1>7, <1>14, <1>15 DEF OnDisk
<1> QED BY <1>8, <1>9, <1>11, <1>12, <1>13, <1>16 DEF IndInv

-----------------------------------------------------------------------------
(***************************************************************************)
(* Start, shutdown and power failure.                                      *)
(***************************************************************************)

LEMMA StartInd == IndInv /\ Start => IndInv'
<1> SUFFICES ASSUME IndInv, Start PROVE IndInv'
  OBVIOUS
<1>1. /\ ~Up /\ best' = BestOnChain /\ pindex' = BestOnChain /\ synced' = (BestOnChain = tip)
      /\ tpc' = IF BestOnChain = tip THEN "done" ELSE "first"
  BY DEF Start
<1>2. UNCHANGED <<tip, flushed, queue, entries, locator, phase, astray, stops>>
  BY DEF Start, chainVars, dbVars, nodeVars
<1>3. Typing /\ InTurn /\ Quiet /\ EntriesTrue /\ OnDisk
  BY DEF IndInv
<1>4. queue = <<>> /\ tpc = "down"
  BY <1>1, <1>3 DEF Quiet, Up
<1>5. BestOnChain \in Blocks /\ IsAncestor(BestOnChain, locator) /\ locator \in Blocks
  BY <1>3, BestOnChainIs DEF Typing
<1>6. tip = NoBlock => BestOnChain = NoBlock
  BY DEF BestOnChain, ForkOf
<1>7. tpc' \in {"done", "first"} /\ (tpc' = "done" <=> BestOnChain = tip) /\ synced' \in BOOLEAN
  BY <1>1
<1>8. tpc' = "done" <=> synced'
  BY <1>1, <1>7, Zenon
<1>9. Typing'
  BY <1>1, <1>2, <1>3, <1>5, <1>7, <1>8 DEF Typing, ThreadPcs
<1>10. InTurn'
  BY <1>2, <1>3, SameQueue
<1>11. Covered'
  <2>1. tip \in Seq(Headers)
    BY <1>3, TreeTyped DEF Typing
  <2>2. IsAncestor(tip, tip)
    BY <2>1, AncestorRefl
  <2>3. synced' => IsAncestor(tip', best')
    BY <1>1, <1>2, <2>2, Zenon
  <2> QED BY <2>3 DEF Covered
<1>12. Quiet'
  <2>1. tpc' # "down"
    BY <1>7
  <2>2. tip' = NoBlock => best' = NoBlock /\ tpc' = "done" /\ queue' = <<>>
    BY <1>1, <1>2, <1>4, <1>6, <1>7
  <2> QED BY <1>8, <2>1, <2>2 DEF Quiet, Up
<1>13. EntriesTrue'
  BY <1>2, <1>3 DEF EntriesTrue
<1>14. ASSUME ~astray PROVE ExactIn(entries, locator) /\ ExactIn(entries, BestOnChain)
  <2>1. ExactIn(entries, locator)
    BY <1>3, <1>4, <1>14 DEF OnDisk
  <2> QED BY <1>5, <2>1, ExactDown
<1>15. OnDisk'
  BY <1>1, <1>2, <1>7, <1>14 DEF OnDisk
<1> QED BY <1>9, <1>10, <1>11, <1>12, <1>13, <1>15 DEF IndInv

LEMMA InterruptInd == IndInv /\ Interrupt => IndInv'
<1> SUFFICES ASSUME IndInv, Interrupt PROVE IndInv'
  OBVIOUS
<1>1. Up /\ stops < MaxStops /\ stops' = stops + 1 /\ phase' = "interrupted"
  BY DEF Interrupt
<1>2. UNCHANGED <<tip, flushed, queue, entries, locator, best, synced, pindex, tpc, astray>>
  BY DEF Interrupt, chainVars, dbVars, memVars
<1>3. Typing /\ InTurn /\ Covered /\ Quiet /\ EntriesTrue /\ OnDisk
  BY DEF IndInv
<1>4. stops' \in 0 .. MaxStops
  BY <1>1, <1>3, TxIndexAssumption DEF Typing
<1>5. Typing'
  BY <1>1, <1>2, <1>3, <1>4 DEF Typing, Phases
<1>6. InTurn' /\ Covered'
  BY <1>2, <1>3, SameQueue, SameCover
<1>7. Quiet'
  BY <1>1, <1>2, <1>3 DEF Quiet, Up
<1>8. EntriesTrue' /\ OnDisk'
  BY <1>2, <1>3, SameDisk
<1> QED BY <1>5, <1>6, <1>7, <1>8 DEF IndInv

LEMMA ShutdownFlushInd == IndInv /\ ShutdownFlush => IndInv'
<1> SUFFICES ASSUME IndInv, ShutdownFlush PROVE IndInv'
  OBVIOUS
<1>1. /\ phase = "interrupted" /\ phase' = "draining" /\ flushed' = tip
      /\ queue' = IF tip = NoBlock THEN queue ELSE Append(queue, Event("flush", tip))
  BY DEF ShutdownFlush
<1>2. UNCHANGED <<tip, entries, locator, best, synced, pindex, tpc, astray, stops>>
  BY DEF ShutdownFlush, dbVars, memVars
<1>3. Typing /\ InTurn /\ Covered /\ Quiet /\ EntriesTrue /\ OnDisk
  BY DEF IndInv
<1>4. Up /\ tip \in Blocks
  BY <1>1, <1>3 DEF Quiet, Typing
<1>5. queue' \in Seq(Events) /\ InTurn' /\ Covered'
  <2>1. CASE tip = NoBlock
    <3>1. queue' = queue
      BY <1>1, <2>1
    <3>2. queue' \in Seq(Events)
      BY <1>3, <3>1 DEF Typing
    <3> QED BY <1>2, <1>3, <3>1, <3>2, SameQueue, SameCover
  <2>2. CASE tip # NoBlock
    <3>1. tip \in Tree
      BY <1>4, <2>2 DEF Blocks
    <3> QED BY <1>1, <1>2, <1>3, <2>2, <3>1, FlushKeeps
  <2> QED BY <2>1, <2>2
<1>6. Typing'
  BY <1>1, <1>2, <1>3, <1>4, <1>5 DEF Typing, Phases
<1>7. Quiet'
  BY <1>1, <1>2, <1>3, <1>4 DEF Quiet, Up
<1>8. EntriesTrue' /\ OnDisk'
  BY <1>2, <1>3, SameDisk
<1> QED BY <1>5, <1>6, <1>7, <1>8 DEF IndInv

\* However the node stops, the entries are exact for the locator it leaves, unless
\* that is one not to be relied on.
LEMMA ForgetInd ==
    ASSUME IndInv, Forget, UNCHANGED <<flushed, entries, locator>>, tip' \in {tip, flushed},
           stops' \in 0 .. MaxStops
    PROVE  IndInv'
<1>1. /\ best' = NoBlock /\ synced' = FALSE /\ pindex' = NoBlock /\ tpc' = "down" /\ phase' = "open"
      /\ queue' = <<>> /\ astray' = (astray \/ LocatorUnreliable)
  BY DEF Forget
<1>2. Typing /\ Quiet /\ EntriesTrue /\ OnDisk
  BY DEF IndInv
<1>3. tip' \in Blocks /\ flushed' \in Blocks /\ locator' \in Blocks /\ entries' \in [Txs -> Blocks]
  BY <1>2 DEF Typing
<1>4. NoBlock \in Blocks /\ queue' \in Seq(Events) /\ astray' \in BOOLEAN
  BY <1>1 DEF Blocks
<1>5. Typing'
  BY <1>1, <1>3, <1>4, Zenon DEF Typing, Phases, ThreadPcs
<1>6. InTurn'
  <2>1. Len(queue') = 0
    BY <1>1
  <2> QED BY <2>1 DEF InTurn
<1>7. Covered' /\ Quiet'
  BY <1>1 DEF Covered, Quiet, Up
<1>8. EntriesTrue'
  BY <1>2 DEF EntriesTrue
<1>9. ASSUME ~astray' PROVE ExactIn(entries, locator)
  <2>1. ~astray /\ ~LocatorUnreliable
    BY <1>1, <1>9, Zenon
  <2>2. locator \in Blocks /\ pindex \in Blocks /\ best \in Blocks
    BY <1>2 DEF Typing
  <2>3. CASE tpc \in {"down", "first", "exited"}
    BY <1>2, <2>1, <2>3 DEF OnDisk
  <2>4. CASE tpc = "loop"
    <3>1. ExactIn(entries, pindex) /\ IsAncestor(locator, pindex)
      BY <1>2, <2>1, <2>4 DEF OnDisk
    <3> QED BY <2>2, <3>1, ExactDown
  <2>5. CASE tpc = "write"
    <3>1. ExactIn(entries, Prev(pindex)) /\ IsAncestor(locator, Prev(pindex))
      BY <1>2, <2>1, <2>5 DEF OnDisk, LocatorUnreliable
    <3>2. pindex \in Tree
      BY <1>2, <2>5 DEF Typing, Blocks
    <3>3. Prev(pindex) \in Blocks
      BY <3>2, InTree
    <3> QED BY <2>2, <3>1, <3>3, ExactDown
  <2>6. CASE tpc = "done"
    <3>1. ExactIn(entries, best) /\ synced
      BY <1>2, <2>1, <2>6 DEF OnDisk, Typing
    <3>2. IsAncestor(locator, best)
      BY <2>1, <3>1 DEF LocatorUnreliable
    <3> QED BY <2>2, <3>1, <3>2, ExactDown
  <2> QED BY <1>2, <2>3, <2>4, <2>5, <2>6 DEF Typing, ThreadPcs
<1>10. OnDisk'
  BY <1>1, <1>9 DEF OnDisk
<1> QED BY <1>5, <1>6, <1>7, <1>8, <1>10 DEF IndInv

LEMMA ShutdownInd == IndInv /\ Shutdown => IndInv'
BY ForgetInd DEF Shutdown, chainVars, dbVars, IndInv, Typing

LEMMA SyncAbortsInd == IndInv /\ SyncAborts => IndInv'
BY ForgetInd DEF SyncAborts, Crash, dbVars, IndInv, Typing

LEMMA PowerFailsInd == IndInv /\ PowerFails => IndInv'
<1> SUFFICES ASSUME IndInv, PowerFails PROVE IndInv'
  OBVIOUS
<1>1. stops' \in 0 .. MaxStops
  BY TxIndexAssumption DEF PowerFails, IndInv, Typing
<1> QED BY <1>1, ForgetInd DEF PowerFails, Crash, dbVars

-----------------------------------------------------------------------------
(***************************************************************************)
(* The index.                                                              *)
(***************************************************************************)

LEMMA StutterInd == IndInv /\ UNCHANGED vars => IndInv'
<1> SUFFICES ASSUME IndInv, UNCHANGED vars PROVE IndInv'
  OBVIOUS
<1>1. /\ UNCHANGED <<tip, flushed, queue, entries, locator, best, synced>>
      /\ UNCHANGED <<pindex, tpc, phase, astray, stops>>
  BY DEF vars, chainVars, dbVars, memVars, nodeVars
<1>2. Typing /\ InTurn /\ Covered /\ Quiet /\ EntriesTrue /\ OnDisk
  BY DEF IndInv
<1>3. Typing' /\ Quiet'
  BY <1>1, <1>2 DEF Typing, Quiet, Up
<1> QED BY <1>1, <1>2, <1>3, SameQueue, SameCover, SameDisk DEF IndInv

LEMMA NextInd == IndInv /\ [Next]_vars => IndInv'
BY ActivateInd, InvalidateInd, FlushInd, SyncFinishInd, SyncNextInd, SyncWriteInd,
   SyncInterruptedInd, SyncAbortsInd, IgnoredInd, RewindsInd, WritesInd, FlushedInd,
   StartInd, InterruptInd, ShutdownFlushInd, ShutdownInd, PowerFailsInd, StutterInd
DEF Next, StartRefused

LEMMA IndexInd == Spec => []IndInv
BY InitInd, NextInd, PTL DEF Spec

LEMMA TypingOK == Typing => TypeOK
<1> SUFFICES ASSUME Typing PROVE TypeOK
  OBVIOUS
<1>1. queue \in Seq(Events)
  BY DEF Typing
<1>2. ASSUME NEW i \in 1 .. Len(queue)
      PROVE  queue[i].kind \in {"connect", "flush"} /\ queue[i].block \in Tree
  BY <1>1, EventIs
<1>3. {tip, flushed, locator, best, pindex} \subseteq Tree \cup {NoBlock}
  BY DEF Typing, Blocks
<1>4. entries \in [Txs -> Tree \cup {NoBlock}]
  BY DEF Typing, Blocks
<1> QED BY <1>2, <1>3, <1>4, Zenon DEF Typing, TypeOK

LEMMA IndCovers == IndInv => DrainedIndexCoversChain
<1>1. queue = <<>> => Len(queue) = 0
  OBVIOUS
<1> QED BY <1>1 DEF IndInv, Covered, DrainedIndexCoversChain

LEMMA IndSync == IndInv => SoundLocatorKeepsSync
<1> SUFFICES ASSUME IndInv, ~astray, synced PROVE Exact(best)
  BY DEF SoundLocatorKeepsSync, IndexInSync
<1>1. tpc = "done"
  BY DEF IndInv, Quiet
<1>2. ExactIn(entries, best)
  BY <1>1 DEF IndInv, OnDisk
<1> QED BY <1>2 DEF Exact, ExactIn

\* Without a best block the callback that connects is one for genesis, and only the
\* first in the queue may be that.
LEMMA IndGenesis == IndInv => FirstConnectedIsGenesis
<1> SUFFICES ASSUME IndInv, IsNext("connect"), synced, best = NoBlock
             PROVE  Head(queue).block = GenesisBlock
  BY DEF FirstConnectedIsGenesis
<1>1. queue # <<>> /\ Typing /\ InTurn /\ Covered /\ Quiet
  BY DEF IndInv, IsNext
<1>2. queue \in Seq(Events) /\ Head(queue) = queue[1] /\ Len(queue) \in Nat /\ 1 \in 1 .. Len(queue)
  BY <1>1, PopIs DEF Typing
<1>3. tip # NoBlock /\ tip \in Tree
  BY <1>1 DEF Quiet, Typing, Blocks
<1>4. ~IsAncestor(tip, best)
  <2>1. Len(NoBlock) = 0 /\ Len(tip) >= 1
    BY <1>3, InTree DEF NoBlock
  <2> QED BY <2>1 DEF IsAncestor
<1>5. PICK i \in 1 .. Len(queue) : Announces(i) /\ Connects(queue[i].block)
  BY <1>1, <1>4 DEF Covered
<1>6. Len(queue[i].block) = 1 /\ queue[i].block \in Tree
  BY <1>2, <1>5, EventIs DEF Connects
<1>7. i = 1
  <2>1. i \in 2 .. Len(queue) => Len(queue[i].block) > 1
    BY <1>1, <1>5 DEF InTurn
  <2> QED BY <1>2, <1>6, <2>1
<1> QED BY <1>2, <1>6, <1>7, InTree

\* Once the index has caught up and the queue is drained, it has the whole active
\* chain, for every tree of blocks and however the callbacks and the sync thread were
\* interleaved with reorganisations and stops: what BlockUntilSyncedToCurrentChain
\* answers is right.
THEOREM IndexCovers == Spec => []DrainedIndexCoversChain
BY IndexInd, IndCovers, PTL

\* As long as the node has not stopped with one of the three kinds of locator that are
\* not to be relied on, a synced index maps every transaction of its best block's chain
\* to its block there: Rewind, WriteBlock and Init never leave it out of step.
THEOREM IndexSound == Spec => []SoundLocatorKeepsSync
BY IndexInd, IndSync, PTL

\* The index is well formed, and the FatalError of BlockConnected, "First block
\* connected is not the genesis block", is never met.
THEOREM IndexWellFormed == Spec => []IndexConsistent
<1>1. IndInv => IndexConsistent
  BY TypingOK, IndGenesis DEF IndInv, IndexConsistent
<1> QED BY <1>1, IndexInd, PTL

-----------------------------------------------------------------------------
(***************************************************************************)
(* The source of a staked coin.                                            *)
(***************************************************************************)

\* A chain creates a coin in one block.
LEMMA CreatedAt ==
    ASSUME NEW b \in Tree, NEW c, NEW h \in 1 .. Len(b), c \in b[h].creates
    PROVE  Created(b, c) /\ CreatedIn(b, c) = GetAncestor(b, h)
<1>1. \A k \in 1 .. Len(b) : c \in b[k].creates => k = h
  BY KernelSourceAssumption
<1>2. (CHOOSE k \in 1 .. Len(b) : c \in b[k].creates) = h
  BY <1>1
<1> QED BY <1>2, Zenon DEF Created, CreatedIn

\* What a chain spends it has created before.
LEMMA SpentWasCreated ==
    ASSUME NEW b \in Tree, NEW k \in 1 .. Len(b), NEW c \in b[k].spends
    PROVE  \E h \in 1 .. k : c \in b[h].creates
BY KernelSourceAssumption

\* Blocks that share an ancestor have the same blocks up to it.
LEMMA SharedBlock ==
    ASSUME NEW f \in Tree, NEW b \in Tree, IsAncestor(f, b), NEW h \in 1 .. Len(f)
    PROVE  /\ h \in 1 .. Len(b) /\ b[h] = f[h] /\ GetAncestor(b, h) = GetAncestor(f, h)
           /\ GetAncestor(f, h) # NoBlock /\ Len(GetAncestor(f, h)) = h
           /\ IsAncestor(GetAncestor(f, h), f)
<1>0. f \in Seq(Headers) /\ b \in Seq(Headers) /\ Len(f) \in Nat /\ Len(b) \in Nat
  BY TreeTyped
<1>1. f \in Seq(Headers) /\ b \in Seq(Headers) /\ Len(f) \in Nat /\ Len(b) \in Nat /\ Len(f) >= 1
  BY <1>0, InTree
<1>2. Len(f) <= Len(b) /\ \A i \in 1 .. Len(f) : f[i] = b[i]
  BY <1>1, AncestorMeans
<1>3. h \in 1 .. Len(b) /\ b[h] = f[h] /\ h \in 0 .. Len(f)
  BY <1>1, <1>2
<1>4. GetAncestor(b, h) = GetAncestor(f, h)
  BY <1>1, SharedPath
<1>5. GetAncestor(f, h) \in Tree /\ GetAncestor(f, h) # NoBlock
  BY InTree
<1>6. Len(GetAncestor(f, h)) = h /\ IsAncestor(GetAncestor(f, h), f)
  BY <1>1, <1>3, AncestorAt
<1> QED BY <1>3, <1>4, <1>5, <1>6

\* A usable block that created the coin is the source.
LEMMA FoundIsSource ==
    ASSUME NEW a \in Tree, NEW b \in Tree, IsAncestor(a, b), NEW c, c \in a[Len(a)].creates
    PROVE  Created(b, c) /\ a = CreatedIn(b, c)
<1>1. a \in Seq(Headers) /\ Len(a) \in 1 .. Len(a)
  BY TreeTyped, InTree
<1>2. Len(a) \in 1 .. Len(b) /\ b[Len(a)] = a[Len(a)] /\ GetAncestor(b, Len(a)) = GetAncestor(a, Len(a))
  BY <1>1, SharedBlock
<1>3. GetAncestor(a, Len(a)) = a
  BY <1>1, SelfAncestor
<1>4. Created(b, c) /\ CreatedIn(b, c) = GetAncestor(b, Len(a))
  BY <1>2, CreatedAt
<1> QED BY <1>2, <1>3, <1>4

\* What GetTransaction finds, in the index or in the UTXO set, created the coin.
LEMMA FoundCreated ==
    ASSUME Typing, EntriesTrue, tip # NoBlock, NEW c \in Txs, NEW indexed,
           GetTransaction(c, indexed) # NoBlock
    PROVE  LET a == GetTransaction(c, indexed) IN a \in Tree /\ c \in a[Len(a)].creates
<1>1. CASE indexed /\ entries[c] # NoBlock
  <2>1. GetTransaction(c, indexed) = entries[c]
    BY <1>1 DEF GetTransaction
  <2>2. entries[c] \in Tree
    BY <1>1 DEF Typing, Blocks
  <2>3. c \in Header(entries[c]).creates
    BY <1>1 DEF EntriesTrue
  <2> QED BY <2>1, <2>2, <2>3 DEF Header
<1>2. CASE ~(indexed /\ entries[c] # NoBlock)
  <2>1. GetTransaction(c, indexed) = CreatedIn(tip, c) /\ Created(tip, c)
    BY <1>2 DEF GetTransaction
  <2>2. tip \in Tree
    BY DEF Typing, Blocks
  <2>3. PICK h \in 1 .. Len(tip) : c \in tip[h].creates
    BY <2>1 DEF Created
  <2>4. CreatedIn(tip, c) = GetAncestor(tip, h)
    BY <2>2, <2>3, CreatedAt
  <2>5. tip \in Seq(Headers) /\ Len(tip) \in Nat /\ h \in 0 .. Len(tip)
    BY <2>2, TreeTyped
  <2>6. /\ Len(GetAncestor(tip, h)) = h /\ \A i \in 1 .. h : GetAncestor(tip, h)[i] = tip[i]
    BY <2>5, AncestorAt
  <2>7. GetAncestor(tip, h) \in Tree /\ h \in 1 .. h
    BY <2>2, <2>3, InTree
  <2> QED BY <2>1, <2>3, <2>4, <2>6, <2>7
<1> QED BY <1>1, <1>2

\* A coin that is undone was created on the active chain.
LEMMA UndoneIs ==
    ASSUME tip \in Tree, NEW f \in Tree, NEW c, NEW k \in Undone(f, c)
    PROVE  \E h \in 1 .. Len(tip) : c \in tip[h].creates
<1>1. Len(f) \in Nat /\ Len(tip) \in Nat
  BY TreeTyped
<1>2. k \in Len(f) + 1 .. Len(tip) /\ c \in tip[k].spends
  BY DEF Undone
<1>3. k \in 1 .. Len(tip)
  BY <1>1, <1>2
<1>4. PICK h \in 1 .. k : c \in tip[h].creates
  BY <1>2, <1>3, SpentWasCreated
<1>5. h \in 1 .. Len(tip)
  BY <1>1, <1>3
<1> QED BY <1>4, <1>5

\* What the undo data gives, when it gives a block: the block that created the coin,
\* at or below the fork.
LEMMA UndoIs ==
    ASSUME tip \in Tree, NEW f \in Tree, IsAncestor(f, tip), NEW c,
           NEW h \in 1 .. Len(tip), c \in tip[h].creates
    PROVE  /\ UndoSource(f, c) # NoBlock => /\ h \in 1 .. Len(f)
                                            /\ UndoSource(f, c) = GetAncestor(f, h)
           /\ Undone(f, c) # {} /\ h \in 1 .. Len(f) => UndoSource(f, c) = GetAncestor(f, h)
<1>1. tip \in Seq(Headers) /\ f \in Seq(Headers) /\ Len(f) \in Nat /\ h \in 0 .. Len(tip) /\ h \in Nat
  BY TreeTyped
<1>2. CreatedIn(tip, c) = GetAncestor(tip, h) /\ Len(GetAncestor(tip, h)) = h
  BY <1>1, CreatedAt, AncestorAt, Zenon
<1>3. h <= Len(f) <=> h \in 1 .. Len(f)
  BY <1>1
<1>4. UndoSource(f, c) = IF Undone(f, c) # {} /\ h <= Len(f) THEN GetAncestor(f, h) ELSE NoBlock
  BY <1>2 DEF UndoSource
<1> QED BY <1>3, <1>4

LEMMA IndOwnChain == IndInv => SourceOnOwnChain
<1> SUFFICES ASSUME IndInv, NEW prev \in Tree, NEW c \in Txs, NEW time \in StakeTimes,
                    NEW indexed \in BOOLEAN, GetKernelSource(prev, c, time, indexed) # NoBlock
             PROVE  /\ Created(prev, c)
                    /\ GetKernelSource(prev, c, time, indexed) = CreatedIn(prev, c)
  BY DEF SourceOnOwnChain
<1> DEFINE source == GetKernelSource(prev, c, time, indexed)
           found == GetTransaction(c, indexed)
<1>1. Typing /\ EntriesTrue
  BY DEF IndInv
<1>2. tip # NoBlock
  BY DEF GetKernelSource, ForkOf
<1>3. tip \in Tree
  BY <1>1, <1>2 DEF Typing, Blocks
<1>4. PICK f : f = FindFork(tip, prev)
  OBVIOUS
<1>5. f \in Tree /\ IsAncestor(f, tip) /\ IsAncestor(f, prev) /\ f # NoBlock
  BY <1>3, <1>4, ForkInTree, InTree
<1>6. source = IF Usable(found, f) THEN found
               ELSE IF Searched(prev, f, c, time) # {}
                    THEN GetAncestor(prev, CHOOSE h \in Searched(prev, f, c, time) : TRUE)
               ELSE UndoSource(f, c)
  BY <1>2, <1>4, <1>5 DEF GetKernelSource, ForkOf
<1>7. CASE Usable(found, f)
  <2>1. found \in Tree /\ c \in found[Len(found)].creates
    BY <1>1, <1>2, <1>7, FoundCreated, Zenon DEF Usable
  <2>2. found \in Seq(Headers) /\ f \in Seq(Headers) /\ prev \in Seq(Headers)
    BY <1>5, <2>1, TreeTyped
  <2>3. IsAncestor(found, prev)
    BY <1>5, <1>7, <2>2, AncestorTrans DEF Usable
  <2> HIDE DEF found, source
  <2>4. Created(prev, c) /\ found = CreatedIn(prev, c)
    BY <2>1, <2>3, FoundIsSource
  <2> QED BY <1>6, <1>7, <2>4 DEF source
<1>8. CASE ~Usable(found, f) /\ Searched(prev, f, c, time) # {}
  <2>1. PICK h : h = CHOOSE k \in Searched(prev, f, c, time) : TRUE
    OBVIOUS
  <2>2. h \in Searched(prev, f, c, time)
    BY <1>8, <2>1
  <2>3. Len(f) \in Nat
    BY <1>5, TreeTyped
  <2>4. h \in 1 .. Len(prev) /\ c \in prev[h].creates
    BY <2>2, <2>3 DEF Searched, SideHeights
  <2> QED BY <1>6, <1>8, <2>1, <2>4, CreatedAt, Zenon
<1>9. CASE ~Usable(found, f) /\ Searched(prev, f, c, time) = {}
  <2>1. source = UndoSource(f, c) /\ UndoSource(f, c) # NoBlock
    BY <1>6, <1>9
  <2>2. PICK k \in Undone(f, c) : TRUE
    BY <2>1 DEF UndoSource
  <2>3. \E h \in 1 .. Len(tip) : c \in tip[h].creates
    BY <1>3, <1>5, <2>2, UndoneIs
  <2>4. PICK h \in 1 .. Len(tip) : c \in tip[h].creates
    BY <2>3
  <2>5. h \in 1 .. Len(f) /\ UndoSource(f, c) = GetAncestor(f, h)
    BY <1>3, <1>5, <2>1, <2>4, UndoIs, Zenon
  <2>6. tip[h] = f[h]
    BY <1>3, <1>5, <2>5, SharedBlock
  <2>7. h \in 1 .. Len(prev) /\ prev[h] = f[h] /\ GetAncestor(prev, h) = GetAncestor(f, h)
    BY <1>5, <2>5, SharedBlock
  <2>8. Created(prev, c) /\ CreatedIn(prev, c) = GetAncestor(prev, h)
    BY <2>4, <2>6, <2>7, CreatedAt, Zenon
  <2> QED BY <2>1, <2>5, <2>7, <2>8
<1> QED BY <1>7, <1>8, <1>9

\* A source that GetKernelSource returns is the block of the staking block's own chain
\* that created the coin, for every tree, every state of the index and every active
\* chain: a stale entry, a side branch or the undo data never lends it another one.
THEOREM SourceIsOwn == Spec => []SourceOnOwnChain
BY IndexInd, IndOwnChain, PTL

\* GetTransaction has the coin if the active chain has it, or the chain has spent it.
Answers(c, indexed) ==
    \A h \in 1 .. Len(tip) : c \in tip[h].creates =>
       \/ GetTransaction(c, indexed) = GetAncestor(tip, h)
       \/ Spent(tip, c) /\ GetTransaction(c, indexed) = NoBlock

\* The lookup then finds it: at or below the fork through GetTransaction or the undo
\* data, above it on the block's own branch.
LEMMA LookupFinds ==
    ASSUME Typing, tip # NoBlock, NEW prev \in Tree, NEW c \in Txs, NEW time \in StakeTimes,
           NEW indexed \in BOOLEAN, Stakeable(prev, c, time), Answers(c, indexed)
    PROVE  GetKernelSource(prev, c, time, indexed) # NoBlock
<1> DEFINE source == GetKernelSource(prev, c, time, indexed)
           found == GetTransaction(c, indexed)
<1>1. tip \in Tree
  BY DEF Typing, Blocks
<1>2. PICK f : f = FindFork(tip, prev)
  OBVIOUS
<1>3. f \in Tree /\ IsAncestor(f, tip) /\ IsAncestor(f, prev) /\ f # NoBlock
  BY <1>1, <1>2, ForkInTree, InTree
<1>4. source = IF Usable(found, f) THEN found
               ELSE IF Searched(prev, f, c, time) # {}
                    THEN GetAncestor(prev, CHOOSE h \in Searched(prev, f, c, time) : TRUE)
               ELSE UndoSource(f, c)
  BY <1>2, <1>3 DEF GetKernelSource, ForkOf
<1>5. PICK h \in 1 .. Len(prev) : c \in prev[h].creates
  BY Zenon DEF Stakeable, Created
<1>6. Len(f) \in Nat /\ Len(tip) \in Nat /\ Len(prev) \in Nat /\ h \in Nat
  BY <1>1, <1>3, TreeTyped
<1>7. prev[h].time + StakeMinAge <= time
  <2>1. CreatedIn(prev, c) = GetAncestor(prev, h)
    BY <1>5, CreatedAt
  <2>2. prev \in Seq(Headers) /\ h \in 0 .. Len(prev) /\ h \in 1 .. h
    BY <1>6, TreeTyped
  <2>3. /\ Len(GetAncestor(prev, h)) = h
        /\ \A i \in 1 .. h : GetAncestor(prev, h)[i] = prev[i]
    BY <2>2, AncestorAt
  <2>4. Header(CreatedIn(prev, c)) = prev[h]
    BY <2>1, <2>2, <2>3 DEF Header
  <2> QED BY <2>4, Zenon DEF Stakeable
\* What is found is used, and what the side branch has is a block.
<1>8. CASE Usable(found, f)
  BY <1>4, <1>8 DEF Usable
<1>9. CASE ~Usable(found, f) /\ Searched(prev, f, c, time) # {}
  <2>1. PICK k : k = CHOOSE i \in Searched(prev, f, c, time) : TRUE
    OBVIOUS
  <2>2. k \in Searched(prev, f, c, time)
    BY <1>9, <2>1
  <2>3. k \in 1 .. Len(prev)
    BY <1>6, <2>2 DEF Searched, SideHeights
  <2>4. GetAncestor(prev, k) # NoBlock
    BY <2>3, InTree
  <2> QED BY <1>4, <1>9, <2>1, <2>4
<1>10. CASE ~Usable(found, f) /\ Searched(prev, f, c, time) = {}
  <2>1. h \in 1 .. Len(f)
    <3>1. ~(h \in Len(f) + 1 .. Len(prev))
      BY <1>5, <1>7, <1>10, Zenon DEF Searched, SideHeights
    <3>2. h > Len(f) => h \in Len(f) + 1 .. Len(prev)
      BY <1>6
    <3>3. h >= 1 /\ ~(h > Len(f))
      BY <3>1, <3>2
    <3> QED BY <1>6, <3>3
  <2>2. /\ prev[h] = f[h] /\ GetAncestor(f, h) # NoBlock /\ IsAncestor(GetAncestor(f, h), f)
    BY <1>3, <2>1, SharedBlock
  <2>3. h \in 1 .. Len(tip) /\ tip[h] = f[h] /\ GetAncestor(tip, h) = GetAncestor(f, h)
    BY <1>1, <1>3, <2>1, SharedBlock
  <2>4. c \in tip[h].creates
    BY <1>5, <2>2, <2>3
  <2>5. found # GetAncestor(tip, h)
    BY <1>10, <2>2, <2>3, Zenon DEF Usable
  <2>6. Spent(tip, c)
    BY <2>3, <2>4, <2>5 DEF Answers
  <2>7. PICK k \in 1 .. Len(tip) : c \in tip[k].spends
    BY <2>6 DEF Spent
  <2>8. ~(k \in 1 .. Len(f))
    <3>1. SUFFICES ASSUME k \in 1 .. Len(f) PROVE FALSE
      OBVIOUS
    <3>2. tip[k] = f[k]
      BY <1>1, <1>3, <3>1, SharedBlock
    <3>3. k \in 1 .. Len(prev) /\ prev[k] = f[k]
      BY <1>3, <3>1, SharedBlock
    <3> QED BY <2>7, <3>2, <3>3 DEF Stakeable, Spent
  <2>9. k \in Undone(f, c)
    BY <1>6, <2>7, <2>8 DEF Undone
  <2>10. UndoSource(f, c) = GetAncestor(f, h)
    BY <1>1, <1>3, <2>1, <2>3, <2>4, <2>9, UndoIs
  <2> QED BY <1>4, <1>10, <2>2, <2>10
<1> QED BY <1>8, <1>9, <1>10

\* The UTXO set has the coins of the active chain.
LEMMA UtxoFinds ==
    ASSUME tip \in Tree, NEW c, NEW h \in 1 .. Len(tip), c \in tip[h].creates
    PROVE  IF Created(tip, c) /\ ~Spent(tip, c) THEN CreatedIn(tip, c) = GetAncestor(tip, h)
           ELSE Spent(tip, c)
BY CreatedAt

\* A drained index has the coins of the active chain that are not of genesis, and
\* genesis has no entry.
LEMMA IndexFinds ==
    ASSUME IndInv, synced, queue = <<>>, ~astray, tip # NoBlock, NEW c \in Txs,
           entries[c] # NoBlock, NEW h \in 1 .. Len(tip), c \in tip[h].creates
    PROVE  entries[c] = GetAncestor(tip, h)
<1>1. tip \in Tree /\ best \in Blocks /\ entries[c] \in Tree
  BY DEF IndInv, Typing, Blocks
<1>2. IsAncestor(tip, best)
  BY IndCovers DEF DrainedIndexCoversChain
<1>3. ExactIn(entries, best)
  <2>1. tpc = "done"
    BY DEF IndInv, Quiet
  <2> QED BY <2>1, Zenon DEF IndInv, OnDisk
<1>4. ExactIn(entries, tip)
  <2>1. tip \in Blocks
    BY <1>1 DEF Blocks
  <2> QED BY <1>1, <1>2, <1>3, <2>1, ExactDown
<1>5. Len(tip) \in Nat /\ h \in Nat
  BY <1>1, TreeTyped
<1>6. CASE h = 1
  <2>1. Len(entries[c]) > 1 /\ c \in Header(entries[c]).creates
    BY <1>1 DEF IndInv, EntriesTrue
  <2>2. entries[c] \in Seq(Headers) /\ Len(entries[c]) \in Nat
    BY <1>1, TreeTyped
  <2>3. 1 \in 1 .. Len(entries[c]) /\ Len(entries[c]) \in 1 .. Len(entries[c])
    BY <2>1, <2>2
  <2>4. entries[c][1] = tip[1]
    BY <1>1, InTree, Zenon
  <2>5. c \in entries[c][1].creates /\ c \in entries[c][Len(entries[c])].creates
    BY <1>6, <2>1, <2>4 DEF Header
  <2>6. Len(entries[c]) = 1
    BY <1>1, <2>3, <2>5, KernelSourceAssumption, Zenon
  <2> QED BY <2>1, <2>6
<1>7. CASE h # 1
  <2>1. h \in 2 .. Len(tip)
    BY <1>5, <1>7
  <2> QED BY <1>4, <2>1 DEF ExactIn
<1> QED BY <1>6, <1>7

LEMMA IndFinds == IndInv => SourceFoundWhenSynced
<1> SUFFICES ASSUME IndInv PROVE SourceFoundWhenSynced
  OBVIOUS
<1>1. Typing
  BY DEF IndInv
<1>2. ASSUME NEW prev \in Tree, NEW c \in Txs, NEW time \in StakeTimes, tip # NoBlock,
             Stakeable(prev, c, time)
      PROVE  GetKernelSource(prev, c, time, FALSE) # NoBlock
  <2>1. tip \in Tree
    BY <1>1, <1>2 DEF Typing, Blocks
  <2>2. ASSUME NEW h \in 1 .. Len(tip), c \in tip[h].creates
        PROVE  \/ GetTransaction(c, FALSE) = GetAncestor(tip, h)
               \/ Spent(tip, c) /\ GetTransaction(c, FALSE) = NoBlock
    BY <2>1, <2>2, UtxoFinds DEF GetTransaction
  <2>3. Answers(c, FALSE)
    BY <2>2, Zenon DEF Answers
  <2> QED BY <1>1, <1>2, <2>3, LookupFinds, Zenon
<1>3. ASSUME synced, queue = <<>>, ~astray,
             NEW prev \in Tree, NEW c \in Txs, NEW time \in StakeTimes, tip # NoBlock,
             Stakeable(prev, c, time)
      PROVE  GetKernelSource(prev, c, time, TRUE) # NoBlock
  <2>1. tip \in Tree
    BY <1>1, <1>3 DEF Typing, Blocks
  <2>2. ASSUME NEW h \in 1 .. Len(tip), c \in tip[h].creates
        PROVE  \/ GetTransaction(c, TRUE) = GetAncestor(tip, h)
               \/ Spent(tip, c) /\ GetTransaction(c, TRUE) = NoBlock
    <3>1. CASE entries[c] # NoBlock
      BY <1>3, <2>2, <3>1, IndexFinds DEF GetTransaction
    <3>2. CASE entries[c] = NoBlock
      BY <2>1, <2>2, <3>2, UtxoFinds DEF GetTransaction
    <3> QED BY <3>1, <3>2, Zenon
  <2>3. Answers(c, TRUE)
    BY <2>2, Zenon DEF Answers
  <2> QED BY <1>1, <1>3, <2>3, LookupFinds, Zenon
<1> QED BY <1>2, <1>3, Zenon DEF SourceFoundWhenSynced, FindsSources

\* GetKernelSource finds the source of every coin that may be staked on top of a block,
\* on the active chain or beside it: always without an index, and with one as soon as
\* it has caught up, for every tree of blocks, times and minimum age.
THEOREM SourceIsFound == Spec => []SourceFoundWhenSynced
BY IndexInd, IndFinds, PTL
=============================================================================
