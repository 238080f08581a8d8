-------------------------- MODULE StakingPassProof --------------------------
(***************************************************************************)
(* The passes of the staking thread, for every tree of blocks, every set   *)
(* of coins and any number of events waiting.                              *)
(*                                                                         *)
(* Everything that goes wrong here goes wrong through the queue, so the    *)
(* inductive invariant says what the queue leads to: replayed on top of    *)
(* what the wallet and the index know now, the events waiting end in the   *)
(* active chain, in its stakes, in the block that created each coin, and   *)
(* in the coins that the mempool spends.                                   *)
(***************************************************************************)
EXTENDS StakingPass, WellFoundedInduction, TLAPS

-----------------------------------------------------------------------------
(* Sequences.                                                              *)

LEMMA SameSeq ==
    ASSUME NEW S, NEW a \in Seq(S), NEW b \in Seq(S), Len(a) = Len(b),
           \A i \in 1 .. Len(a) : a[i] = b[i]
    PROVE  a = b
OBVIOUS

LEMMA AppendSeq ==
    ASSUME NEW S, NEW a \in Seq(S), NEW x \in S
    PROVE  Append(a, x) = a \o <<x>>
OBVIOUS

-----------------------------------------------------------------------------
(* GetAncestor, for blocks of any height over any set of headers.          *)

\* A block is its own ancestor at its own height.
LEMMA SelfAncestor ==
    ASSUME NEW S, NEW b \in Seq(S)
    PROVE  GetAncestor(b, Len(b)) = b
BY DEF GetAncestor

\* The ancestor of an ancestor is the block's own at that height.
LEMMA AncestorOfAncestor ==
    ASSUME NEW S, NEW b \in Seq(S), NEW h \in 1 .. Len(b), NEW k \in 1 .. h
    PROVE  GetAncestor(GetAncestor(b, h), k) = GetAncestor(b, k)
<1>1. SubSeq(SubSeq(b, 1, h), 1, k) = SubSeq(b, 1 + 1 - 1, 1 + k - 1)
  OBVIOUS
<1> QED BY <1>1 DEF GetAncestor

\* A nonempty set of heights has a least element.
LEMMA LeastHeight ==
    ASSUME NEW T, T \subseteq Nat, T # {}
    PROVE  \E m \in T : \A k \in T : m <= k
<1>1. PICK m \in T : \A k \in T : ~(<<k, m>> \in OpToRel(<, Nat))
  BY NatLessThanWellFounded, WFMin, Zenon
<1>2. ASSUME NEW k \in T PROVE m <= k
  <2>1. k \in Nat /\ m \in Nat
    OBVIOUS
  <2>2. ~(k < m)
    BY <1>1, <2>1, Zenon DEF OpToRel
  <2> QED BY <2>1, <2>2
<1> QED BY <1>2

\* A set of heights that is not empty and bounded has a greatest element.
LEMMA GreatestHeight ==
    ASSUME NEW n \in Nat, NEW T, T \subseteq 0 .. n, T # {}
    PROVE  \E m \in T : \A k \in T : k <= m
<1> DEFINE D == {d \in 0 .. n : n - d \in T}
<1>1. D # {}
  <2>1. PICK t \in T : TRUE
    BY Zenon
  <2>2. n - t \in D
    BY <2>1
  <2> QED BY <2>2, Zenon
<1>2. D \subseteq Nat
  OBVIOUS
<1> HIDE DEF D
<1>3. PICK d \in D : \A k \in D : d <= k
  BY <1>1, <1>2, LeastHeight, Zenon
<1>4. n - d \in T /\ d \in 0 .. n
  BY <1>3 DEF D
<1>5. ASSUME NEW k \in T PROVE k <= n - d
  <2>1. n - k \in D
    BY DEF D
  <2>2. d <= n - k
    BY <1>3, <2>1
  <2> QED BY <1>4, <2>2
<1> QED BY <1>4, <1>5

\* An ancestor is a prefix, header by header.
LEMMA AncestorMeans ==
    ASSUME NEW S, NEW a \in Seq(S), NEW b \in Seq(S)
    PROVE  IsAncestor(a, b) <=> Len(a) <= Len(b) /\ \A i \in 1 .. Len(a) : a[i] = b[i]
<1>1. CASE Len(a) <= Len(b)
  <2>1. /\ SubSeq(b, 1, Len(a)) \in Seq(S) /\ Len(SubSeq(b, 1, Len(a))) = Len(a)
        /\ \A i \in 1 .. Len(a) : SubSeq(b, 1, Len(a))[i] = b[i]
    BY <1>1
  <2>2. SubSeq(b, 1, Len(a)) = a <=> \A i \in 1 .. Len(a) : a[i] = b[i]
    BY <2>1, SameSeq
  <2> QED BY <1>1, <2>2 DEF IsAncestor, GetAncestor
<1>2. CASE ~(Len(a) <= Len(b))
  BY <1>2 DEF IsAncestor
<1> QED BY <1>1, <1>2

\* The ancestor at a height is the prefix of that length.
LEMMA AncestorAt ==
    ASSUME NEW S, NEW b \in Seq(S), NEW h \in 0 .. Len(b)
    PROVE  /\ GetAncestor(b, h) \in Seq(S) /\ Len(GetAncestor(b, h)) = h
           /\ \A i \in 1 .. h : GetAncestor(b, h)[i] = b[i]
           /\ IsAncestor(GetAncestor(b, h), b)
<1>1. /\ SubSeq(b, 1, h) \in Seq(S) /\ Len(SubSeq(b, 1, h)) = h
      /\ \A i \in 1 .. h : SubSeq(b, 1, h)[i] = b[i]
  OBVIOUS
<1>2. h \in Nat /\ h <= Len(b)
  OBVIOUS
<1>3. IsAncestor(SubSeq(b, 1, h), b)
  BY <1>1, <1>2, AncestorMeans, Zenon
<1> QED BY <1>1, <1>3 DEF GetAncestor

\* Of two ancestors of a block, one is the other's.
LEMMA AncestorsOrdered ==
    ASSUME NEW S, NEW a \in Seq(S), NEW b \in Seq(S), NEW c \in Seq(S),
           IsAncestor(a, c), IsAncestor(b, c), Len(a) <= Len(b)
    PROVE  IsAncestor(a, b)
<1>1. /\ \A i \in 1 .. Len(a) : a[i] = c[i]
      /\ \A i \in 1 .. Len(b) : b[i] = c[i]
  BY AncestorMeans
<1>2. \A i \in 1 .. Len(a) : a[i] = b[i]
  BY <1>1
<1> QED BY <1>2, AncestorMeans

\* pprev is the ancestor one below.
LEMMA PrevIs ==
    ASSUME NEW S, NEW b \in Seq(S), Len(b) >= 1
    PROVE  /\ Prev(b) = GetAncestor(b, Len(b) - 1)
           /\ Prev(b) \in Seq(S) /\ Len(Prev(b)) = Len(b) - 1 /\ IsAncestor(Prev(b), b)
           /\ Len(b) = 1 => Prev(b) = <<>>
           /\ Len(b) # 1 => Len(b) - 1 \in 1 .. Len(b)
<1>1. Prev(b) = GetAncestor(b, Len(b) - 1)
  BY DEF Prev, GetAncestor
<1>2. Len(b) \in Nat /\ Len(b) - 1 \in 0 .. Len(b)
  OBVIOUS
<1>3. Prev(b) \in Seq(S) /\ Len(Prev(b)) = Len(b) - 1 /\ IsAncestor(Prev(b), b)
  BY <1>1, <1>2, AncestorAt
<1>4. Len(b) = 1 => Prev(b) = <<>>
  BY <1>3
<1>5. Len(b) # 1 => Len(b) - 1 \in 1 .. Len(b)
  <2>1. \A n \in Nat : n >= 1 /\ n # 1 => n - 1 \in 1 .. n
    OBVIOUS
  <2> QED BY <1>2, <2>1
<1> QED BY <1>1, <1>3, <1>4, <1>5

\* pprev of an ancestor is the ancestor one below it.
LEMMA PrevOfAncestor ==
    ASSUME NEW S, NEW b \in Seq(S), NEW h \in 1 .. Len(b)
    PROVE  Prev(GetAncestor(b, h)) = GetAncestor(b, h - 1)
<1> DEFINE c == GetAncestor(b, h)
<1>1. c \in Seq(S) /\ Len(c) = h /\ \A i \in 1 .. h : c[i] = b[i]
  BY AncestorAt
<1> HIDE DEF c
<1>2. h \in Nat /\ h - 1 \in 0 .. Len(c) /\ h - 1 \in 0 .. Len(b)
  BY <1>1
<1>3. /\ GetAncestor(b, h - 1) \in Seq(S) /\ Len(GetAncestor(b, h - 1)) = h - 1
      /\ \A i \in 1 .. h - 1 : GetAncestor(b, h - 1)[i] = b[i]
  BY <1>2, AncestorAt
<1>4. /\ GetAncestor(c, h - 1) \in Seq(S) /\ Len(GetAncestor(c, h - 1)) = h - 1
      /\ \A i \in 1 .. h - 1 : GetAncestor(c, h - 1)[i] = c[i]
  BY <1>1, <1>2, AncestorAt
<1>5. Prev(c) = GetAncestor(c, h - 1)
  BY <1>1 DEF Prev, GetAncestor
<1>6. GetAncestor(c, h - 1) = GetAncestor(b, h - 1)
  BY <1>1, <1>2, <1>3, <1>4, SameSeq
<1> QED BY <1>5, <1>6 DEF c

\* FindFork is the last block that two chains from the same genesis share.
LEMMA ForkIs ==
    ASSUME NEW S, NEW t \in Seq(S), NEW b \in Seq(S), Len(t) >= 1, Len(b) >= 1, t[1] = b[1]
    PROVE  /\ FindFork(t, b) \in Seq(S) /\ Len(FindFork(t, b)) \in 1 .. Len(b)
           /\ FindFork(t, b) = GetAncestor(b, Len(FindFork(t, b)))
           /\ IsAncestor(FindFork(t, b), t) /\ IsAncestor(FindFork(t, b), b)
           /\ \A a \in Seq(S) : IsAncestor(a, t) /\ IsAncestor(a, b) => IsAncestor(a, FindFork(t, b))
<1> DEFINE P(n) == /\ Contains(t, GetAncestor(b, n))
                   /\ \A m \in n + 1 .. Len(b) : ~Contains(t, GetAncestor(b, m))
           T == {n \in 1 .. Len(b) : Contains(t, GetAncestor(b, n))}
           n == CHOOSE k \in 1 .. Len(b) : P(k)
<1>0. Len(b) \in Nat /\ Len(t) \in Nat /\ 1 \in 0 .. Len(b)
  OBVIOUS
<1>1. 1 \in T
  <2>1. /\ GetAncestor(b, 1) \in Seq(S) /\ Len(GetAncestor(b, 1)) = 1
        /\ \A i \in 1 .. 1 : GetAncestor(b, 1)[i] = b[i]
    BY <1>0, AncestorAt, Zenon
  <2>2. \A i \in 1 .. 1 : GetAncestor(b, 1)[i] = t[i]
    BY <2>1
  <2>3. IsAncestor(GetAncestor(b, 1), t)
    BY <2>1, <2>2, AncestorMeans
  <2> QED BY <1>0, <2>3 DEF Contains
<1>2. T \subseteq 0 .. Len(b) /\ T # {}
  BY <1>1
<1>3. \E k \in 1 .. Len(b) : P(k)
  <2> HIDE DEF T
  <2>1. PICK k \in T : \A m \in T : m <= k
    BY <1>0, <1>2, GreatestHeight, Zenon
  <2>2. k \in 1 .. Len(b) /\ P(k)
    BY <2>1 DEF T
  <2> QED BY <2>2
<1>4. n \in 1 .. Len(b) /\ P(n)
  BY <1>3
<1>5. FindFork(t, b) = GetAncestor(b, n)
  BY DEF FindFork
<1> HIDE DEF n
<1>6. n \in 0 .. Len(b)
  BY <1>4
<1>7. /\ GetAncestor(b, n) \in Seq(S) /\ Len(GetAncestor(b, n)) = n
      /\ IsAncestor(GetAncestor(b, n), b)
  BY <1>6, AncestorAt
<1>8. IsAncestor(GetAncestor(b, n), t)
  BY <1>4 DEF Contains
<1>9. ASSUME NEW a \in Seq(S), IsAncestor(a, t), IsAncestor(a, b)
      PROVE  IsAncestor(a, GetAncestor(b, n))
  <2>1. Len(a) \in Nat /\ Len(a) <= Len(b) /\ a = GetAncestor(b, Len(a))
    BY <1>9 DEF IsAncestor
  <2>2. Len(a) <= n
    BY <1>4, <1>9, <2>1 DEF Contains
  <2> QED BY <1>7, <1>9, <2>2, AncestorsOrdered
<1> QED BY <1>4, <1>5, <1>7, <1>8, <1>9

-----------------------------------------------------------------------------
(***************************************************************************)
(* Chains.                                                                 *)
(***************************************************************************)

TreeHeaders == UNION {{b[h] : h \in 1 .. Len(b)} : b \in Tree}
StakedHeaders ==
    [name : {Staked}, time : {0}, creates : {{}}, bits : {h.bits : h \in TreeHeaders},
     spends : SUBSET Txs, stakes : SUBSET Txs]
Headers == TreeHeaders \cup StakedHeaders

\* The last block that is the network's; the headers above it were made here.
TopOf(b, n) ==
    /\ n \in 1 .. Len(b) /\ GetAncestor(b, n) \in Tree
    /\ \A h \in n + 1 .. Len(b) : b[h].creates = {}

Chains ==
    {b \in Seq(Headers) : /\ Len(b) >= 1 /\ b[1] = Genesis /\ ValidChain(b)
                          /\ \E n \in Nat : TopOf(b, n)}

\* Blocks of the network are chains.
LEMMA TreeTyped ==
    ASSUME NEW b \in Tree
    PROVE  /\ b \in Chains /\ b \in Seq(Headers)
           /\ \A h \in 1 .. Len(b) : GetAncestor(b, h) \in Tree
<1>1. /\ b \in Seq({b[h] : h \in 1 .. Len(b)})
      /\ Len(b) >= 1 /\ b[1] = Genesis /\ ValidChain(b)
      /\ \A h \in 1 .. Len(b) : GetAncestor(b, h) \in Tree
  BY StakingPassAssumption
<1>2. {b[h] : h \in 1 .. Len(b)} \subseteq Headers
  BY DEF Headers, TreeHeaders
<1>3. b \in Seq(Headers) /\ Len(b) \in Nat
  BY <1>1, <1>2
<1>4. GetAncestor(b, Len(b)) = b
  BY <1>3, SelfAncestor
<1>5. Len(b) \in 1 .. Len(b) /\ \A h \in Len(b) + 1 .. Len(b) : b[h].creates = {}
  BY <1>1, <1>3
<1>6. TopOf(b, Len(b))
  BY <1>4, <1>5 DEF TopOf
<1> QED BY <1>1, <1>3, <1>6 DEF Chains

\* What a chain is.
LEMMA ChainIs ==
    ASSUME NEW b \in Chains
    PROVE  /\ b \in Seq(Headers) /\ Len(b) \in Nat /\ Len(b) >= 1 /\ Len(b) \in 1 .. Len(b)
           /\ b[1] = Genesis /\ b # NoBlock
           /\ \A h \in 1 .. Len(b) :
                 /\ b[h] \in Headers /\ b[h].time = 0
                 /\ b[h].creates \subseteq Txs /\ b[h].spends \subseteq Txs
                 /\ b[h].stakes \subseteq b[h].spends
           /\ \A h, k \in 1 .. Len(b) : h # k =>
                 b[h].creates \cap b[k].creates = {} /\ b[h].spends \cap b[k].spends = {}
<1>1. b \in Seq(Headers) /\ Len(b) >= 1 /\ b[1] = Genesis /\ ValidChain(b)
  BY DEF Chains
<1>2. Len(b) \in Nat /\ Len(b) \in 1 .. Len(b) /\ b # NoBlock
  BY <1>1 DEF NoBlock
<1>3. \A h \in 1 .. Len(b) :
                 /\ b[h] \in Headers /\ b[h].time = 0
                 /\ b[h].creates \subseteq Txs /\ b[h].spends \subseteq Txs
                 /\ b[h].stakes \subseteq b[h].spends
  BY <1>1, <1>2 DEF ValidChain
<1>4. \A h, k \in 1 .. Len(b) : h # k =>
                 b[h].creates \cap b[k].creates = {} /\ b[h].spends \cap b[k].spends = {}
  BY <1>1 DEF ValidChain
<1> QED BY <1>1, <1>2, <1>3, <1>4

\* The ancestors of a chain are chains.
LEMMA ChainAncestor ==
    ASSUME NEW b \in Chains, NEW h \in 1 .. Len(b)
    PROVE  /\ GetAncestor(b, h) \in Chains /\ GetAncestor(b, h) \in Seq(Headers)
           /\ Len(GetAncestor(b, h)) = h /\ Header(GetAncestor(b, h)) = b[h]
           /\ \A i \in 1 .. h : GetAncestor(b, h)[i] = b[i]
<1> DEFINE a == GetAncestor(b, h)
<1>1. b \in Seq(Headers) /\ Len(b) \in Nat /\ Len(b) >= 1 /\ b[1] = Genesis /\ ValidChain(b)
  BY DEF Chains
<1>2. h \in 0 .. Len(b) /\ h \in Nat /\ h >= 1 /\ h <= Len(b)
  BY <1>1
<1>3. a \in Seq(Headers) /\ Len(a) = h /\ \A i \in 1 .. h : a[i] = b[i]
  BY <1>1, <1>2, AncestorAt
<1>4. PICK n \in Nat : TopOf(b, n)
  BY DEF Chains
<1>5. n \in 1 .. Len(b) /\ GetAncestor(b, n) \in Tree
      /\ \A i \in n + 1 .. Len(b) : b[i].creates = {}
  BY <1>4 DEF TopOf
<1> HIDE DEF a
<1>6. ValidChain(a)
  <2>1. \A i \in 1 .. h : i \in 1 .. Len(b)
    BY <1>1, <1>2
  <2> QED BY <1>1, <1>3, <2>1 DEF ValidChain
<1>7. \E k \in Nat : TopOf(a, k)
  <2>1. CASE n <= h
    <3>1. n \in 1 .. h
      BY <1>5, <2>1, <1>2
    <3>2. GetAncestor(a, n) = GetAncestor(b, n)
      BY <1>1, <3>1, AncestorOfAncestor DEF a
    <3>3. \A i \in n + 1 .. h : a[i].creates = {}
      <4>1. \A i \in n + 1 .. h : i \in 1 .. h /\ i \in n + 1 .. Len(b)
        BY <1>1, <1>2, <1>5
      <4> QED BY <4>1, <1>3, <1>5
    <3> QED BY <1>3, <1>5, <3>1, <3>2, <3>3 DEF TopOf
  <2>2. CASE h < n
    <3>1. h \in 1 .. n
      BY <1>2, <1>5, <2>2
    <3>2. GetAncestor(GetAncestor(b, n), h) = a
      BY <1>1, <1>5, <3>1, AncestorOfAncestor DEF a
    <3>3. Len(GetAncestor(b, n)) = n
      <4>1. n \in 0 .. Len(b)
        BY <1>5
      <4> QED BY <1>1, <4>1, AncestorAt
    <3>4. a \in Tree
      BY <1>5, <3>1, <3>2, <3>3, TreeTyped
    <3>5. a \in Chains
      BY <3>4, TreeTyped
    <3> QED BY <3>5 DEF Chains
  <2> QED BY <1>2, <1>5, <2>1, <2>2
<1>8. Len(a) >= 1 /\ a[1] = Genesis
  BY <1>1, <1>2, <1>3
<1>9. a \in Chains
  BY <1>3, <1>6, <1>7, <1>8 DEF Chains
<1>10. Header(a) = b[h]
  BY <1>2, <1>3 DEF Header
<1> QED BY <1>3, <1>9, <1>10 DEF a

\* A block that creates a coin is the network's.
LEMMA CreatorInTree ==
    ASSUME NEW b \in Chains, Header(b).creates # {}
    PROVE  b \in Tree
<1>1. PICK n \in Nat : TopOf(b, n)
  BY DEF Chains
<1>2. /\ n \in 1 .. Len(b) /\ GetAncestor(b, n) \in Tree
      /\ \A i \in n + 1 .. Len(b) : b[i].creates = {}
  BY <1>1 DEF TopOf
<1>3. b \in Seq(Headers) /\ Len(b) \in Nat
  BY ChainIs
<1>4. ~(Len(b) \in n + 1 .. Len(b))
  BY <1>2 DEF Header
<1>5. n = Len(b)
  BY <1>2, <1>3, <1>4
<1> QED BY <1>2, <1>3, <1>5, SelfAncestor

\* The parent of a chain of more than one block is a chain.
LEMMA ChainPrev ==
    ASSUME NEW b \in Chains, Len(b) # 1
    PROVE  /\ Prev(b) \in Chains /\ Prev(b) = GetAncestor(b, Len(b) - 1)
           /\ Len(Prev(b)) = Len(b) - 1
           /\ \A i \in 1 .. Len(b) - 1 : Prev(b)[i] = b[i]
<1>1. b \in Seq(Headers) /\ Len(b) \in Nat /\ Len(b) >= 1
  BY ChainIs
<1>2. Prev(b) = GetAncestor(b, Len(b) - 1) /\ Len(b) - 1 \in 1 .. Len(b)
  BY <1>1, PrevIs
<1> QED BY <1>2, ChainAncestor

\* The block of a chain that creates a coin is found, there being only one.
LEMMA CreatedAt ==
    ASSUME NEW b \in Chains, NEW c, NEW h \in 1 .. Len(b), c \in b[h].creates
    PROVE  Created(b, c) /\ CreatedIn(b, c) = GetAncestor(b, h)
<1> DEFINE k == CHOOSE i \in 1 .. Len(b) : c \in b[i].creates
<1>1. k \in 1 .. Len(b) /\ c \in b[k].creates
  OBVIOUS
<1>2. k = h
  <2> HIDE DEF k
  <2>1. \A i, j \in 1 .. Len(b) : i # j => b[i].creates \cap b[j].creates = {}
    BY ChainIs
  <2> QED BY <1>1, <2>1
<1>3. Created(b, c)
  BY DEF Created
<1>4. CreatedIn(b, c) = GetAncestor(b, k)
  BY DEF CreatedIn
<1> QED BY <1>2, <1>3, <1>4, Zenon

\* A coin that is created is created at some height.
LEMMA CreatedSomewhere ==
    ASSUME NEW b, NEW c, Created(b, c)
    PROVE  \E h \in 1 .. Len(b) : c \in b[h].creates
BY DEF Created

LEMMA SpentMeans ==
    ASSUME NEW b, NEW c
    PROVE  Spent(b, c) <=> \E h \in 1 .. Len(b) : c \in b[h].spends
BY DEF Spent

\* The block that creates a coin of the UTXO set is found.
LEMMA UnspentFrom ==
    ASSUME NEW b \in Chains, NEW c, Unspent(b, c)
    PROVE  CreatedIn(b, c) # NoBlock
<1>1. PICK h \in 1 .. Len(b) : c \in b[h].creates
  BY CreatedSomewhere DEF Unspent
<1>2. CreatedIn(b, c) = GetAncestor(b, h)
  BY <1>1, CreatedAt
<1>3. GetAncestor(b, h) \in Chains
  BY ChainAncestor
<1> QED BY <1>2, <1>3, ChainIs

\* A block of b's chain that creates c is the one found for it.
LEMMA CreatedOn ==
    ASSUME NEW b \in Chains, NEW a \in Chains, IsAncestor(a, b), NEW c, c \in Header(a).creates
    PROVE  CreatedIn(b, c) = a
<1> DEFINE h == Len(a)
<1>1. h \in Nat /\ h >= 1 /\ Len(b) \in Nat /\ h <= Len(b) /\ GetAncestor(b, h) = a
  BY ChainIs DEF IsAncestor
<1>2. h \in 1 .. Len(b)
  BY <1>1
<1> HIDE DEF h
<1>3. Header(GetAncestor(b, h)) = b[h]
  BY <1>2, ChainAncestor
<1>4. c \in b[h].creates
  BY <1>1, <1>3
<1> QED BY <1>1, <1>2, <1>4, CreatedAt

\* A coin of the UTXO set is one of the wallet's.
LEMMA UnspentInTxs ==
    ASSUME NEW b \in Chains, NEW c, Unspent(b, c)
    PROVE  c \in Txs
<1>1. PICK h \in 1 .. Len(b) : c \in b[h].creates
  BY CreatedSomewhere DEF Unspent
<1>2. b[h].creates \subseteq Txs
  BY ChainIs
<1> QED BY <1>1, <1>2

\* A coin past nStakeMaxAge is mature on every chain, those staked here included.
LEMMA OldMature ==
    ASSUME NEW b \in Chains, NEW c \in Old, Unspent(b, c)
    PROVE  Spendable(b, c)
<1>1. PICK n \in Nat : TopOf(b, n)
  BY DEF Chains
<1>2. /\ n \in 1 .. Len(b) /\ GetAncestor(b, n) \in Tree
      /\ \A i \in n + 1 .. Len(b) : b[i].creates = {}
  BY <1>1 DEF TopOf
<1>3. b \in Seq(Headers) /\ Len(b) \in Nat
  BY ChainIs
<1> DEFINE p == GetAncestor(b, n)
<1>4. p \in Chains /\ Len(p) = n /\ \A i \in 1 .. n : p[i] = b[i]
  BY <1>2, ChainAncestor
<1>5. PICK h \in 1 .. Len(b) : c \in b[h].creates
  BY CreatedSomewhere DEF Unspent
<1>6. h \in 1 .. n
  BY <1>2, <1>3, <1>5
<1>7. CreatedIn(b, c) = GetAncestor(b, h)
  BY <1>5, CreatedAt
<1> HIDE DEF p
<1>8. Created(p, c) /\ CreatedIn(p, c) = GetAncestor(p, h)
  BY <1>4, <1>5, <1>6, CreatedAt
<1>9. CreatedIn(p, c) = CreatedIn(b, c)
  <2>1. GetAncestor(GetAncestor(b, n), h) = GetAncestor(b, h)
    BY <1>2, <1>3, <1>6, AncestorOfAncestor
  <2> QED BY <1>7, <1>8, <2>1 DEF p
<1>10. ~Spent(p, c)
  <2>1. ~\E i \in 1 .. Len(b) : c \in b[i].spends
    BY SpentMeans DEF Unspent
  <2>2. \A i \in 1 .. n : i \in 1 .. Len(b)
    BY <1>2, <1>3
  <2>3. ~\E i \in 1 .. Len(p) : c \in p[i].spends
    BY <1>4, <2>1, <2>2
  <2> QED BY <2>3, SpentMeans
<1>11. Spendable(p, c)
  BY <1>2, <1>8, <1>10, StakingPassAssumption, Zenon DEF Unspent, p
<1>12. Len(CreatedIn(b, c)) = h
  BY <1>5, <1>7, ChainAncestor
<1>13. Matured(b, c, Len(b) + 1)
  <2>1. c \in Minted => (n + 1) - h >= Maturity
    BY <1>4, <1>9, <1>11, <1>12 DEF Spendable, Matured
  <2>2. (n + 1) - h >= Maturity => (Len(b) + 1) - h >= Maturity
    BY <1>2, <1>3, <1>6, StakingPassAssumption
  <2> QED BY <1>12, <2>1, <2>2 DEF Matured
<1> QED BY <1>13 DEF Spendable

\* Two chains share their ancestors up to where they fork.
LEMMA ChainFork ==
    ASSUME NEW t \in Chains, NEW b \in Chains
    PROVE  /\ Len(FindFork(t, b)) \in 1 .. Len(b) /\ Len(FindFork(t, b)) \in 1 .. Len(t)
           /\ FindFork(t, b) \in Chains
           /\ FindFork(t, b) = GetAncestor(b, Len(FindFork(t, b)))
           /\ FindFork(t, b) = GetAncestor(t, Len(FindFork(t, b)))
           /\ \A h \in 1 .. Len(FindFork(t, b)) :
                 b[h] = t[h] /\ GetAncestor(b, h) = GetAncestor(t, h)
<1> DEFINE f == FindFork(t, b)
           n == Len(f)
<1>1. /\ t \in Seq(Headers) /\ Len(t) \in Nat /\ Len(t) >= 1 /\ t[1] = Genesis
      /\ b \in Seq(Headers) /\ Len(b) \in Nat /\ Len(b) >= 1 /\ b[1] = Genesis
  BY ChainIs
<1>2. /\ f \in Seq(Headers) /\ n \in 1 .. Len(b) /\ f = GetAncestor(b, n)
      /\ IsAncestor(f, t)
  BY <1>1, ForkIs
<1> HIDE DEF f
<1>3. n \in 1 .. Len(t) /\ GetAncestor(t, n) = f
  BY <1>1, <1>2 DEF IsAncestor
<1>4. f \in Chains /\ \A i \in 1 .. n : f[i] = b[i]
  BY <1>2, ChainAncestor
<1>5. \A i \in 1 .. n : f[i] = t[i]
  BY <1>3, ChainAncestor
<1>6. ASSUME NEW h \in 1 .. n PROVE b[h] = t[h] /\ GetAncestor(b, h) = GetAncestor(t, h)
  <2>1. GetAncestor(GetAncestor(b, n), h) = GetAncestor(b, h)
    BY <1>1, <1>2, AncestorOfAncestor
  <2>2. GetAncestor(GetAncestor(t, n), h) = GetAncestor(t, h)
    BY <1>1, <1>3, AncestorOfAncestor
  <2> QED BY <1>2, <1>3, <1>4, <1>5, <2>1, <2>2
<1> QED BY <1>2, <1>3, <1>4, <1>6 DEF f

\* The block made here extends the chain of its parent to a chain.
LEMMA NewChain ==
    ASSUME NEW p \in Chains, NEW cs \in SUBSET Txs, NEW st \in SUBSET cs,
           \A c \in cs : ~Spent(p, c),
           NEW hd, hd = [name |-> Staked, time |-> 0, creates |-> {}, bits |-> NextBits(p),
                         spends |-> cs, stakes |-> st]
    PROVE  Append(p, hd) \in Chains /\ Len(Append(p, hd)) = Len(p) + 1
<1> DEFINE b == Append(p, hd)
<1>1. p \in Seq(Headers) /\ Len(p) \in Nat /\ Len(p) >= 1 /\ p[1] = Genesis
      /\ Len(p) \in 1 .. Len(p)
  BY ChainIs
<1>2. /\ hd.name = Staked /\ hd.time = 0 /\ hd.creates = {} /\ hd.bits = NextBits(p)
      /\ hd.spends = cs /\ hd.stakes = st
  OBVIOUS
<1>3. hd \in StakedHeaders
  <2>1. p[Len(p)] \in Headers
    BY <1>1, ChainIs
  <2>2. p[Len(p)].bits \in {h.bits : h \in TreeHeaders}
    BY <2>1 DEF Headers, StakedHeaders
  <2>3. NextBits(p) \in {h.bits : h \in TreeHeaders}
    BY <2>2 DEF NextBits, Header
  <2>4. cs \in SUBSET Txs /\ st \in SUBSET Txs
    OBVIOUS
  <2> QED BY <2>3, <2>4 DEF StakedHeaders
<1>4. hd \in Headers
  BY <1>3 DEF Headers
<1>5. /\ b \in Seq(Headers) /\ Len(b) = Len(p) + 1 /\ b[Len(p) + 1] = hd
      /\ \A i \in 1 .. Len(p) : b[i] = p[i]
  BY <1>1, <1>4
<1> HIDE DEF b
<1>6. \A i \in 1 .. Len(b) : i \in 1 .. Len(p) \/ i = Len(p) + 1
  BY <1>1, <1>5
<1>7. ValidChain(b)
  <2>0. \A i \in 1 .. Len(p) : /\ p[i].time = 0
                 /\ p[i].creates \subseteq Txs /\ p[i].spends \subseteq Txs
                 /\ p[i].stakes \subseteq p[i].spends /\ cs \cap p[i].spends = {}
    <3>1. \A i \in 1 .. Len(p) : cs \cap p[i].spends = {}
      BY SpentMeans
    <3> QED BY <3>1, ChainIs
  <2>1. ASSUME NEW i \in 1 .. Len(b)
        PROVE  /\ b[i].time = 0 /\ b[i].creates \subseteq Txs /\ b[i].spends \subseteq Txs
               /\ b[i].stakes \subseteq b[i].spends
    BY <1>2, <1>5, <1>6, <2>0
  <2>2. ASSUME NEW i \in 1 .. Len(b), NEW k \in 1 .. Len(b), k # i
        PROVE  b[i].creates \cap b[k].creates = {} /\ b[i].spends \cap b[k].spends = {}
    <3>1. CASE i \in 1 .. Len(p) /\ k \in 1 .. Len(p)
      BY <1>5, <2>2, <3>1, ChainIs
    <3>2. CASE i \in 1 .. Len(p) /\ k = Len(p) + 1
      BY <1>2, <1>5, <2>0, <3>2
    <3>3. CASE i = Len(p) + 1 /\ k \in 1 .. Len(p)
      BY <1>2, <1>5, <2>0, <3>3
    <3> QED BY <1>6, <2>2, <3>1, <3>2, <3>3
  <2> QED BY <2>1, <2>2 DEF ValidChain
<1>8. PICK n \in Nat : TopOf(p, n)
  BY DEF Chains
<1>9. TopOf(b, n)
  <2>1. /\ n \in 1 .. Len(p) /\ GetAncestor(p, n) \in Tree
        /\ \A h \in n + 1 .. Len(p) : p[h].creates = {}
    BY <1>8 DEF TopOf
  <2>2. n \in 1 .. Len(b)
    BY <1>1, <1>5, <2>1
  <2>3. GetAncestor(b, n) = GetAncestor(p, n)
    <3>1. n \in 0 .. Len(b) /\ n \in 0 .. Len(p)
      BY <2>1, <2>2
    <3>2. /\ GetAncestor(b, n) \in Seq(Headers) /\ Len(GetAncestor(b, n)) = n
          /\ \A i \in 1 .. n : GetAncestor(b, n)[i] = b[i]
      BY <1>5, <3>1, AncestorAt
    <3>3. /\ GetAncestor(p, n) \in Seq(Headers) /\ Len(GetAncestor(p, n)) = n
          /\ \A i \in 1 .. n : GetAncestor(p, n)[i] = p[i]
      BY <1>1, <3>1, AncestorAt
    <3>4. \A i \in 1 .. n : b[i] = p[i]
      BY <1>1, <1>5, <2>1
    <3> QED BY <3>2, <3>3, <3>4, SameSeq
  <2>4. \A h \in n + 1 .. Len(b) : b[h].creates = {}
    <3>1. \A h \in n + 1 .. Len(b) : h \in n + 1 .. Len(p) \/ h = Len(p) + 1
      BY <1>1, <1>5, <2>1
    <3>2. \A h \in n + 1 .. Len(p) : b[h] = p[h]
      BY <1>1, <1>5, <2>1
    <3> QED BY <1>2, <1>5, <2>1, <3>1, <3>2
  <2> QED BY <2>1, <2>2, <2>3, <2>4 DEF TopOf
<1>10. Len(b) >= 1 /\ b[1] = Genesis
  BY <1>1, <1>5
<1>11. b \in Chains
  BY <1>5, <1>7, <1>9, <1>10 DEF Chains
<1> QED BY <1>5, <1>11 DEF b

-----------------------------------------------------------------------------
(***************************************************************************)
(* The validation queue.                                                   *)
(***************************************************************************)

BlockEvents == [kind : {"connect", "indexed", "disconnect"}, of : Chains]
TxEvents == [kind : {"tx"}, of : SUBSET Txs]
Markers == [kind : {"marker"}, of : {NoBlock}]
Events == BlockEvents \cup TxEvents \cup Markers

\* Queue q has an event of Q; it has one of P that none of Q follows.
Has(q, Q) == \E j \in 1 .. Len(q) : q[j] \in Q
Last(q, P, Q) == \E i \in 1 .. Len(q) : q[i] \in P /\ \A j \in i + 1 .. Len(q) : q[j] \notin Q

\* It has no more than one.
AtMostOne(q, Q) == \A i, j \in 1 .. Len(q) : q[i] \in Q /\ q[j] \in Q => i = j

\* What an event does to the chain that the wallet is at.
IsConnect(e) == e.kind \in {"connect", "indexed"}
Moved(e, before, after) ==
    /\ IsConnect(e) => Prev(e.of) = before /\ e.of = after
    /\ e.kind = "disconnect" => e.of = before /\ Prev(e.of) = after
    /\ e.kind \in {"tx", "marker"} => before = after

\* The events of q lead from s to t.
Way(q, s, t, w) ==
    /\ w[0] = s /\ w[Len(q)] = t
    /\ \A i \in 1 .. Len(q) : Moved(q[i], w[i - 1], w[i])
Leads(q, s, t) == \E w \in [0 .. Len(q) -> Chains] : Way(q, s, t, w)

\* Positions in two sequences one after the other.
LEMMA ConcatIs ==
    ASSUME NEW p \in Seq(Events), NEW q \in Seq(Events)
    PROVE  /\ p \o q \in Seq(Events) /\ Len(p \o q) = Len(p) + Len(q)
           /\ Len(p) \in Nat /\ Len(q) \in Nat
           /\ \A i \in 1 .. Len(p) : i \in 1 .. Len(p \o q) /\ (p \o q)[i] = p[i]
           /\ \A i \in 1 .. Len(q) : /\ Len(p) + i \in 1 .. Len(p \o q)
                                     /\ (p \o q)[Len(p) + i] = q[i]
           /\ \A i \in 1 .. Len(p \o q) :
                 \/ i \in 1 .. Len(p)
                 \/ i - Len(p) \in 1 .. Len(q) /\ (p \o q)[i] = q[i - Len(p)]
<1>1. Len(p) \in Nat /\ Len(q) \in Nat
  OBVIOUS
<1>2. /\ p \o q \in Seq(Events) /\ Len(p \o q) = Len(p) + Len(q)
      /\ \A i \in 1 .. Len(p) + Len(q) :
            (p \o q)[i] = IF i <= Len(p) THEN p[i] ELSE q[i - Len(p)]
  OBVIOUS
<1>3. \A i \in 1 .. Len(p) : i \in 1 .. Len(p) + Len(q) /\ i <= Len(p)
  BY <1>1
<1>4. \A i \in 1 .. Len(q) : /\ Len(p) + i \in 1 .. Len(p) + Len(q)
                             /\ ~(Len(p) + i <= Len(p)) /\ (Len(p) + i) - Len(p) = i
  BY <1>1
<1>5. \A i \in 1 .. Len(p) + Len(q) :
         i \in 1 .. Len(p) \/ (i - Len(p) \in 1 .. Len(q) /\ ~(i <= Len(p)))
  BY <1>1
<1>6. \A i \in 1 .. Len(q) : (p \o q)[Len(p) + i] = q[i]
  BY <1>2, <1>4
<1> QED BY <1>1, <1>2, <1>3, <1>4, <1>5, <1>6

\* What two queues have.
LEMMA HasConcat ==
    ASSUME NEW p \in Seq(Events), NEW q \in Seq(Events), NEW Q
    PROVE  Has(p \o q, Q) <=> Has(p, Q) \/ Has(q, Q)
<1>1. ASSUME Has(p, Q) PROVE Has(p \o q, Q)
  BY <1>1, ConcatIs DEF Has
<1>2. ASSUME Has(q, Q) PROVE Has(p \o q, Q)
  <2>1. PICK j \in 1 .. Len(q) : q[j] \in Q
    BY <1>2 DEF Has
  <2>2. Len(p) + j \in 1 .. Len(p \o q) /\ (p \o q)[Len(p) + j] \in Q
    BY <2>1, ConcatIs
  <2> QED BY <2>2 DEF Has
<1>3. ASSUME Has(p \o q, Q) PROVE Has(p, Q) \/ Has(q, Q)
  <2>1. PICK j \in 1 .. Len(p \o q) : (p \o q)[j] \in Q
    BY <1>3 DEF Has
  <2>2. CASE j \in 1 .. Len(p)
    BY <2>1, <2>2, ConcatIs DEF Has
  <2>3. CASE j - Len(p) \in 1 .. Len(q) /\ (p \o q)[j] = q[j - Len(p)]
    BY <2>1, <2>3 DEF Has
  <2> QED BY <2>2, <2>3, ConcatIs
<1> QED BY <1>1, <1>2, <1>3

\* The last event that counts, of two queues.
LEMMA LastConcat ==
    ASSUME NEW p \in Seq(Events), NEW q \in Seq(Events), NEW P, NEW Q
    PROVE  Last(p \o q, P, Q) <=> Last(q, P, Q) \/ (Last(p, P, Q) /\ ~Has(q, Q))
<1> DEFINE r == p \o q
<1>0. Len(r) = Len(p) + Len(q) /\ Len(p) \in Nat /\ Len(q) \in Nat
  BY ConcatIs
<1>a. \A i \in 1 .. Len(p) : i \in 1 .. Len(r) /\ r[i] = p[i]
  BY ConcatIs
<1>b. \A i \in 1 .. Len(q) : Len(p) + i \in 1 .. Len(r) /\ r[Len(p) + i] = q[i]
  BY ConcatIs
<1>c. \A i \in 1 .. Len(r) : i \in 1 .. Len(p)
                             \/ (i - Len(p) \in 1 .. Len(q) /\ r[i] = q[i - Len(p)])
  BY ConcatIs
<1> HIDE DEF r
<1>1. ASSUME Last(q, P, Q) PROVE Last(r, P, Q)
  <2>1. PICK i \in 1 .. Len(q) : q[i] \in P /\ \A j \in i + 1 .. Len(q) : q[j] \notin Q
    BY <1>1 DEF Last
  <2>2. Len(p) + i \in 1 .. Len(r) /\ r[Len(p) + i] \in P
    BY <1>b, <2>1
  <2>3. ASSUME NEW j \in (Len(p) + i) + 1 .. Len(r) PROVE r[j] \notin Q
    <3>1. j \in 1 .. Len(r) /\ ~(j \in 1 .. Len(p)) /\ j - Len(p) >= i + 1
      BY <1>0
    <3>2. j - Len(p) \in 1 .. Len(q) /\ r[j] = q[j - Len(p)]
      BY <1>c, <3>1
    <3>3. j - Len(p) \in i + 1 .. Len(q)
      BY <1>0, <3>1, <3>2
    <3> QED BY <2>1, <3>2, <3>3
  <2> QED BY <2>2, <2>3 DEF Last
<1>2. ASSUME Last(p, P, Q), ~Has(q, Q) PROVE Last(r, P, Q)
  <2>1. PICK i \in 1 .. Len(p) : p[i] \in P /\ \A j \in i + 1 .. Len(p) : p[j] \notin Q
    BY <1>2 DEF Last
  <2>2. i \in 1 .. Len(r) /\ r[i] \in P
    BY <1>a, <2>1
  <2>3. ASSUME NEW j \in i + 1 .. Len(r) PROVE r[j] \notin Q
    <3>0. j \in 1 .. Len(r)
      BY <1>0
    <3>1. CASE j \in 1 .. Len(p)
      <4>1. j \in i + 1 .. Len(p)
        BY <1>0, <3>1
      <4> QED BY <1>a, <2>1, <3>1, <4>1
    <3>2. CASE j - Len(p) \in 1 .. Len(q) /\ r[j] = q[j - Len(p)]
      BY <1>2, <3>2 DEF Has
    <3> QED BY <1>c, <3>0, <3>1, <3>2
  <2> QED BY <2>2, <2>3 DEF Last
<1>3. ASSUME Last(r, P, Q) PROVE Last(q, P, Q) \/ (Last(p, P, Q) /\ ~Has(q, Q))
  <2>1. PICK i \in 1 .. Len(r) : r[i] \in P /\ \A j \in i + 1 .. Len(r) : r[j] \notin Q
    BY <1>3 DEF Last
  <2>2. CASE i \in 1 .. Len(p)
    <3>1. \A j \in 1 .. Len(q) : Len(p) + j \in i + 1 .. Len(r)
      BY <1>0, <2>2
    <3>2. ~Has(q, Q)
      BY <1>b, <2>1, <3>1, Zenon DEF Has
    <3>3. \A j \in i + 1 .. Len(p) : j \in i + 1 .. Len(r) /\ j \in 1 .. Len(p)
      BY <1>0, <2>2
    <3>4. Last(p, P, Q)
      BY <1>a, <2>1, <2>2, <3>3 DEF Last
    <3> QED BY <3>2, <3>4
  <2>3. CASE i - Len(p) \in 1 .. Len(q) /\ r[i] = q[i - Len(p)]
    <3> DEFINE k == i - Len(p)
    <3>1. k \in 1 .. Len(q) /\ q[k] \in P
      BY <2>1, <2>3
    <3>2. \A j \in k + 1 .. Len(q) : j \in 1 .. Len(q) /\ Len(p) + j \in i + 1 .. Len(r)
      BY <1>0, <2>3
    <3>3. \A j \in k + 1 .. Len(q) : q[j] \notin Q
      BY <1>b, <2>1, <3>2
    <3> HIDE DEF k
    <3> QED BY <3>1, <3>3 DEF Last
  <2> QED BY <1>c, <2>2, <2>3
<1> QED BY <1>1, <1>2, <1>3 DEF r

\* What there is no more than one of in two queues.
LEMMA OneConcat ==
    ASSUME NEW p \in Seq(Events), NEW q \in Seq(Events), NEW Q
    PROVE  AtMostOne(p \o q, Q) <=>
              AtMostOne(p, Q) /\ AtMostOne(q, Q) /\ ~(Has(p, Q) /\ Has(q, Q))
<1> DEFINE r == p \o q
<1>0. Len(r) = Len(p) + Len(q) /\ Len(p) \in Nat /\ Len(q) \in Nat
  BY ConcatIs
<1>a. \A i \in 1 .. Len(p) : i \in 1 .. Len(r) /\ r[i] = p[i]
  BY ConcatIs
<1>b. \A i \in 1 .. Len(q) : Len(p) + i \in 1 .. Len(r) /\ r[Len(p) + i] = q[i]
  BY ConcatIs
<1>c. \A i \in 1 .. Len(r) : i \in 1 .. Len(p)
                             \/ (i - Len(p) \in 1 .. Len(q) /\ r[i] = q[i - Len(p)])
  BY ConcatIs
<1> HIDE DEF r
<1>1. ASSUME AtMostOne(r, Q) PROVE AtMostOne(p, Q)
  BY <1>a, <1>1 DEF AtMostOne
<1>2. ASSUME AtMostOne(r, Q) PROVE AtMostOne(q, Q)
  <2> SUFFICES ASSUME NEW i \in 1 .. Len(q), NEW j \in 1 .. Len(q), q[i] \in Q, q[j] \in Q
               PROVE  i = j
    BY DEF AtMostOne
  <2>1. Len(p) + i = Len(p) + j
    BY <1>b, <1>2 DEF AtMostOne
  <2> QED BY <1>0, <2>1
<1>3. ASSUME AtMostOne(r, Q), Has(p, Q), Has(q, Q) PROVE FALSE
  <2>1. PICK i \in 1 .. Len(p) : p[i] \in Q
    BY <1>3 DEF Has
  <2>2. PICK j \in 1 .. Len(q) : q[j] \in Q
    BY <1>3 DEF Has
  <2>3. i = Len(p) + j
    BY <1>a, <1>b, <1>3, <2>1, <2>2, Zenon DEF AtMostOne
  <2> QED BY <1>0, <2>3
<1>4. ASSUME AtMostOne(p, Q), AtMostOne(q, Q), ~(Has(p, Q) /\ Has(q, Q)) PROVE AtMostOne(r, Q)
  <2> SUFFICES ASSUME NEW i \in 1 .. Len(r), NEW j \in 1 .. Len(r), r[i] \in Q, r[j] \in Q
               PROVE  i = j
    BY DEF AtMostOne
  <2>1. CASE i \in 1 .. Len(p) /\ j \in 1 .. Len(p)
    BY <1>a, <1>4, <2>1 DEF AtMostOne
  <2>2. CASE ~(i \in 1 .. Len(p)) /\ ~(j \in 1 .. Len(p))
    <3>1. i - Len(p) = j - Len(p)
      BY <1>c, <1>4, <2>2, Zenon DEF AtMostOne
    <3> QED BY <1>0, <3>1
  <2>3. CASE i \in 1 .. Len(p) /\ ~(j \in 1 .. Len(p))
    BY <1>a, <1>c, <1>4, <2>3, Zenon DEF Has
  <2>4. CASE ~(i \in 1 .. Len(p)) /\ j \in 1 .. Len(p)
    BY <1>a, <1>c, <1>4, <2>4 DEF Has
  <2> QED BY <2>1, <2>2, <2>3, <2>4
<1> QED BY <1>1, <1>2, <1>3, <1>4 DEF r

\* What a single event is.
LEMMA OneEvent ==
    ASSUME NEW e \in Events, NEW P, NEW Q
    PROVE  /\ <<e>> \in Seq(Events) /\ Len(<<e>>) = 1
           /\ Has(<<e>>, Q) <=> e \in Q
           /\ Last(<<e>>, P, Q) <=> e \in P
           /\ AtMostOne(<<e>>, Q)
<1>1. <<e>> \in Seq(Events) /\ Len(<<e>>) = 1 /\ <<e>>[1] = e
  OBVIOUS
<1>2. \A j \in 1 .. Len(<<e>>) : j = 1
  BY <1>1
<1>3. 1 \in 1 .. Len(<<e>>) /\ 1 + 1 .. Len(<<e>>) = {}
  BY <1>1
<1>4. Has(<<e>>, Q) <=> e \in Q
  BY <1>1, <1>2, <1>3 DEF Has
<1>5. Last(<<e>>, P, Q) <=> e \in P
  BY <1>1, <1>2, <1>3 DEF Last
<1>6. AtMostOne(<<e>>, Q)
  BY <1>2 DEF AtMostOne
<1> QED BY <1>1, <1>4, <1>5, <1>6

\* No event, nothing to wait for.
LEMMA NoEvent ==
    ASSUME NEW P, NEW Q
    PROVE  /\ <<>> \in Seq(Events) /\ ~Has(<<>>, Q) /\ ~Last(<<>>, P, Q) /\ AtMostOne(<<>>, Q)
           /\ \A s, t : Leads(<<>>, s, t) => s = t
           /\ \A s \in Chains : Leads(<<>>, s, s)
<1>1. <<>> \in Seq(Events) /\ Len(<<>>) = 0 /\ 1 .. Len(<<>>) = {}
  OBVIOUS
<1>2. ~Has(<<>>, Q) /\ ~Last(<<>>, P, Q) /\ AtMostOne(<<>>, Q)
  BY <1>1 DEF Has, Last, AtMostOne
<1>3. ASSUME NEW s, NEW t, Leads(<<>>, s, t) PROVE s = t
  BY <1>1, <1>3 DEF Leads, Way
<1>4. ASSUME NEW s \in Chains PROVE Leads(<<>>, s, s)
  <2> DEFINE w == [i \in 0 .. Len(<<>>) |-> s]
  <2>1. w \in [0 .. Len(<<>>) -> Chains] /\ w[0] = s /\ w[Len(<<>>)] = s
    BY <1>1
  <2>2. Way(<<>>, s, s, w)
    BY <1>1, <2>1 DEF Way
  <2> QED BY <2>1, <2>2 DEF Leads
<1> QED BY <1>1, <1>2, <1>3, <1>4

\* The queue is its first event and the rest.
LEMMA QueueSplit ==
    ASSUME NEW q \in Seq(Events), q # <<>>
    PROVE  /\ Head(q) \in Events /\ Tail(q) \in Seq(Events)
           /\ q = <<Head(q)>> \o Tail(q)
<1>1. Head(q) \in Events /\ Tail(q) \in Seq(Events) /\ Len(q) \in Nat /\ Len(q) >= 1
      /\ Len(Tail(q)) = Len(q) - 1
  OBVIOUS
<1>2. <<Head(q)>> \in Seq(Events) /\ Len(<<Head(q)>>) = 1 /\ <<Head(q)>>[1] = Head(q)
  BY <1>1
<1> DEFINE r == <<Head(q)>> \o Tail(q)
<1>3. /\ r \in Seq(Events) /\ Len(r) = 1 + Len(Tail(q))
      /\ \A i \in 1 .. Len(r) : r[i] = IF i <= 1 THEN <<Head(q)>>[i] ELSE Tail(q)[i - 1]
  BY <1>1, <1>2
<1> HIDE DEF r
<1>4. \A i \in 1 .. Len(r) : r[i] = q[i]
  <2>1. \A i \in 1 .. Len(Tail(q)) : Tail(q)[i] = q[i + 1]
    BY <1>1
  <2>2. ASSUME NEW i \in 1 .. Len(r), i # 1 PROVE r[i] = q[i]
    <3>1. i - 1 \in 1 .. Len(Tail(q)) /\ ~(i <= 1) /\ (i - 1) + 1 = i
      BY <1>1, <1>3, <2>2
    <3> QED BY <1>3, <2>1, <3>1
  <2>3. Len(r) >= 1 => r[1] = q[1]
    BY <1>1, <1>2, <1>3
  <2> QED BY <1>1, <1>3, <2>2, <2>3
<1>5. Len(r) = Len(q)
  BY <1>1, <1>3
<1>6. r = q
  BY <1>3, <1>4, <1>5, SameSeq
<1> QED BY <1>1, <1>6 DEF r

\* A queue leads from one chain to another.
LEMMA LeadsTyped ==
    ASSUME NEW q \in Seq(Events), NEW s, NEW t, Leads(q, s, t)
    PROVE  s \in Chains /\ t \in Chains
<1>1. PICK w \in [0 .. Len(q) -> Chains] : Way(q, s, t, w)
  BY DEF Leads
<1>2. 0 \in 0 .. Len(q) /\ Len(q) \in 0 .. Len(q)
  OBVIOUS
<1> QED BY <1>1, <1>2 DEF Way

\* One event leads where it moves to.
LEMMA LeadsOne ==
    ASSUME NEW e \in Events, NEW s \in Chains, NEW t \in Chains
    PROVE  Leads(<<e>>, s, t) <=> Moved(e, s, t)
<1>1. <<e>> \in Seq(Events) /\ Len(<<e>>) = 1 /\ <<e>>[1] = e
  OBVIOUS
<1>2. ASSUME Leads(<<e>>, s, t) PROVE Moved(e, s, t)
  <2>1. PICK w \in [0 .. 1 -> Chains] : Way(<<e>>, s, t, w)
    BY <1>1, <1>2 DEF Leads
  <2>2. w[0] = s /\ w[1] = t /\ \A i \in 1 .. 1 : Moved(<<e>>[i], w[i - 1], w[i])
    BY <1>1, <2>1 DEF Way
  <2>3. 1 \in 1 .. 1 /\ 1 - 1 = 0
    OBVIOUS
  <2>4. Moved(<<e>>[1], w[1 - 1], w[1])
    BY <2>2, <2>3
  <2> QED BY <1>1, <2>2, <2>3, <2>4
<1>3. ASSUME Moved(e, s, t) PROVE Leads(<<e>>, s, t)
  <2> DEFINE w == [i \in 0 .. 1 |-> IF i = 0 THEN s ELSE t]
  <2>1. w \in [0 .. 1 -> Chains] /\ w[0] = s /\ w[1] = t
    OBVIOUS
  <2> HIDE DEF w
  <2>2. ASSUME NEW i \in 1 .. 1 PROVE Moved(<<e>>[i], w[i - 1], w[i])
    <3>1. i = 1 /\ i - 1 = 0
      OBVIOUS
    <3> QED BY <1>1, <1>3, <2>1, <3>1
  <2>3. Way(<<e>>, s, t, w)
    BY <1>1, <2>1, <2>2 DEF Way
  <2> QED BY <1>1, <2>1, <2>3 DEF Leads
<1> QED BY <1>2, <1>3

\* Two queues one after the other.
LEMMA LeadsConcat ==
    ASSUME NEW p \in Seq(Events), NEW q \in Seq(Events), NEW s, NEW t, NEW x,
           Leads(p, s, t), Leads(q, t, x)
    PROVE  Leads(p \o q, s, x)
<1>1. PICK u \in [0 .. Len(p) -> Chains] : Way(p, s, t, u)
  BY DEF Leads
<1>2. PICK v \in [0 .. Len(q) -> Chains] : Way(q, t, x, v)
  BY DEF Leads
<1> DEFINE r == p \o q
           w == [i \in 0 .. Len(r) |-> IF i <= Len(p) THEN u[i] ELSE v[i - Len(p)]]
<1>3. Len(r) = Len(p) + Len(q) /\ Len(p) \in Nat /\ Len(q) \in Nat
  BY ConcatIs
<1>a. \A i \in 1 .. Len(p) : i \in 1 .. Len(r) /\ r[i] = p[i]
  BY ConcatIs
<1>c. \A i \in 1 .. Len(r) : i \in 1 .. Len(p)
                             \/ (i - Len(p) \in 1 .. Len(q) /\ r[i] = q[i - Len(p)])
  BY ConcatIs
<1> HIDE DEF r
<1>4. \A i \in 0 .. Len(p) : i \in 0 .. Len(r) /\ w[i] = u[i]
  BY <1>3
<1>5. \A i \in 0 .. Len(q) : Len(p) + i \in 0 .. Len(r) /\ w[Len(p) + i] = v[i]
  <2>1. u[Len(p)] = v[0]
    BY <1>1, <1>2 DEF Way
  <2>2. \A i \in 0 .. Len(q) : /\ Len(p) + i \in 0 .. Len(r) /\ (Len(p) + i) - Len(p) = i
                               /\ Len(p) + i <= Len(p) => i = 0 /\ Len(p) + i = Len(p)
    BY <1>3
  <2> QED BY <2>1, <2>2, Zenon
<1>6. w \in [0 .. Len(r) -> Chains]
  <2>1. ASSUME NEW i \in 0 .. Len(r)
        PROVE  (IF i <= Len(p) THEN u[i] ELSE v[i - Len(p)]) \in Chains
    <3>1. i <= Len(p) => i \in 0 .. Len(p)
      BY <1>3
    <3>2. ~(i <= Len(p)) => i - Len(p) \in 0 .. Len(q)
      BY <1>3
    <3> QED BY <3>1, <3>2, Zenon
  <2> QED BY <2>1
<1> HIDE DEF w
<1>7. w[0] = s /\ w[Len(r)] = x
  <2>1. 0 \in 0 .. Len(p) /\ Len(q) \in 0 .. Len(q)
    BY <1>3
  <2> QED BY <1>1, <1>2, <1>3, <1>4, <1>5, <2>1 DEF Way
<1>8. ASSUME NEW i \in 1 .. Len(r) PROVE Moved(r[i], w[i - 1], w[i])
  <2>1. CASE i \in 1 .. Len(p)
    <3>1. i \in 0 .. Len(p) /\ i - 1 \in 0 .. Len(p)
      BY <1>3, <2>1
    <3>2. w[i] = u[i] /\ w[i - 1] = u[i - 1] /\ r[i] = p[i]
      BY <1>4, <1>a, <2>1, <3>1
    <3>3. Moved(p[i], u[i - 1], u[i])
      BY <1>1, <2>1 DEF Way
    <3> QED BY <3>2, <3>3
  <2>2. CASE i - Len(p) \in 1 .. Len(q) /\ r[i] = q[i - Len(p)]
    <3> DEFINE k == i - Len(p)
    <3>1. k \in 0 .. Len(q) /\ k - 1 \in 0 .. Len(q) /\ Len(p) + k = i /\ Len(p) + (k - 1) = i - 1
      BY <1>3, <2>2
    <3>2. w[Len(p) + k] = v[k] /\ w[Len(p) + (k - 1)] = v[k - 1]
      BY <1>5, <3>1
    <3>3. Moved(q[k], v[k - 1], v[k])
      BY <1>2, <2>2 DEF Way
    <3> HIDE DEF k
    <3>4. r[i] = q[k]
      BY <2>2 DEF k
    <3> QED BY <3>1, <3>2, <3>3, <3>4
  <2> QED BY <1>c, <2>1, <2>2
<1>9. Way(r, s, x, w)
  BY <1>7, <1>8 DEF Way
<1> QED BY <1>6, <1>9 DEF Leads, r

\* The first event of a queue leads to where the rest leads from.
LEMMA LeadsHead ==
    ASSUME NEW e \in Events, NEW q \in Seq(Events), NEW s, NEW t, Leads(<<e>> \o q, s, t)
    PROVE  \E x \in Chains : Moved(e, s, x) /\ Leads(q, x, t)
<1> DEFINE r == <<e>> \o q
<1>0. <<e>> \in Seq(Events) /\ Len(<<e>>) = 1 /\ <<e>>[1] = e
  OBVIOUS
<1>1. /\ Len(r) = 1 + Len(q) /\ Len(q) \in Nat
      /\ \A i \in 1 .. Len(<<e>>) : r[i] = <<e>>[i]
      /\ \A i \in 1 .. Len(q) : Len(<<e>>) + i \in 1 .. Len(r) /\ r[Len(<<e>>) + i] = q[i]
  BY <1>0, ConcatIs
<1>2. PICK w \in [0 .. Len(r) -> Chains] : Way(r, s, t, w)
  BY DEF Leads
<1> HIDE DEF r
<1>3. r[1] = e /\ \A i \in 1 .. Len(q) : 1 + i \in 1 .. Len(r) /\ r[1 + i] = q[i]
  BY <1>0, <1>1
<1>4. 1 \in 1 .. Len(r) /\ 1 \in 0 .. Len(r) /\ 1 - 1 = 0
  BY <1>1
<1>5. w[1] \in Chains /\ Moved(r[1], w[1 - 1], w[1]) /\ w[0] = s
  BY <1>2, <1>4 DEF Way
<1>6. Moved(e, s, w[1])
  BY <1>3, <1>4, <1>5
<1> DEFINE v == [i \in 0 .. Len(q) |-> w[i + 1]]
<1>7. v \in [0 .. Len(q) -> Chains]
  <2>1. \A i \in 0 .. Len(q) : i + 1 \in 0 .. Len(r)
    BY <1>1
  <2> QED BY <1>2, <2>1
<1>8. v[0] = w[1] /\ v[Len(q)] = t
  <2>1. 0 \in 0 .. Len(q) /\ Len(q) \in 0 .. Len(q) /\ Len(q) + 1 = Len(r)
    BY <1>1
  <2>2. v[0] = w[0 + 1] /\ v[Len(q)] = w[Len(q) + 1]
    BY <2>1
  <2>3. w[Len(r)] = t
    BY <1>2 DEF Way
  <2>4. 0 + 1 = 1
    OBVIOUS
  <2> HIDE DEF v
  <2> QED BY <2>1, <2>2, <2>3, <2>4
<1>9. ASSUME NEW i \in 1 .. Len(q) PROVE Moved(q[i], v[i - 1], v[i])
  <2>1. /\ i \in 0 .. Len(q) /\ i - 1 \in 0 .. Len(q) /\ (i - 1) + 1 = i
        /\ 1 + i = i + 1 /\ (i + 1) - 1 = i /\ i + 1 \in 1 .. Len(r)
    BY <1>1
  <2>2. v[i] = w[i + 1] /\ v[i - 1] = w[(i - 1) + 1]
    BY <2>1
  <2> HIDE DEF v
  <2>3. Moved(r[i + 1], w[(i + 1) - 1], w[i + 1])
    BY <1>2, <2>1 DEF Way
  <2>4. r[i + 1] = q[i]
    BY <1>3, <2>1, Zenon
  <2> QED BY <2>1, <2>2, <2>3, <2>4
<1> HIDE DEF v
<1>10. Way(q, w[1], t, v)
  BY <1>8, <1>9 DEF Way
<1> QED BY <1>5, <1>6, <1>7, <1>10 DEF Leads

\* The events that tell the wallet of a transaction that spends c, those of blocks
\* that stake it, and those that have the index record c (as created in a).
Tells(c) == {e \in Events : e.kind = "tx" /\ c \in e.of}
Stakes(c) == {e \in Events : IsConnect(e) /\ c \in Header(e.of).stakes}
Creates(c) == {e \in Events : e.kind = "connect" /\ c \in Header(e.of).creates}
CreatesIn(c, a) == {e \in Creates(c) : e.of = a}

\* The three parts of Moves.
Leaving(b) ==
    [i \in 1 .. Len(tip) - Len(FindFork(tip, b)) |->
        Event("disconnect", GetAncestor(tip, Len(tip) + 1 - i))]
Returning(b) == IF Back(b) = {} THEN <<>> ELSE <<Event("tx", Back(b))>>
Joining(b) ==
    [i \in 1 .. Len(b) - Len(FindFork(tip, b)) |->
        Event("connect", GetAncestor(b, Len(FindFork(tip, b)) + i))]

LEMMA MovesAre == ASSUME NEW b PROVE Moves(b) = Leaving(b) \o Returning(b) \o Joining(b)
BY DEF Moves, Leaving, Returning, Joining

\* A function on 1 .. n is a sequence.
LEMMA SequenceIs ==
    ASSUME NEW S, NEW n \in Nat, NEW f \in [1 .. n -> S]
    PROVE  f \in Seq(S) /\ Len(f) = n
OBVIOUS

LEMMA EventIs ==
    ASSUME NEW x
    PROVE  /\ \A kind : Event(kind, x).kind = kind /\ Event(kind, x).of = x
           /\ x \in Chains => /\ Event("connect", x) \in Events
                              /\ Event("disconnect", x) \in Events
                              /\ Event("indexed", x) \in Events
           /\ x \in SUBSET Txs => Event("tx", x) \in Events
           /\ Event("marker", NoBlock) \in Events
BY DEF Event, Events, BlockEvents, TxEvents, Markers

\* The disconnects go down from the tip to the fork.
LEMMA LeavingIs ==
    ASSUME tip \in Chains, NEW b \in Chains
    PROVE  /\ Leaving(b) \in Seq(Events) /\ Leads(Leaving(b), tip, FindFork(tip, b))
           /\ \A c : ~Has(Leaving(b), Stakes(c)) /\ ~Has(Leaving(b), Creates(c))
           /\ ~Has(Leaving(b), Markers)
<1> DEFINE f == FindFork(tip, b)
           d == Len(tip) - Len(f)
           q == Leaving(b)
           w == [i \in 0 .. d |-> GetAncestor(tip, Len(tip) - i)]
<1>1. /\ Len(f) \in 1 .. Len(tip) /\ f = GetAncestor(tip, Len(f))
  BY ChainFork
<1>2. tip \in Seq(Headers) /\ Len(tip) \in Nat /\ Len(tip) >= 1
  BY ChainIs
<1> HIDE DEF f
<1>3. d \in Nat /\ \A i \in 0 .. d : Len(tip) - i \in 1 .. Len(tip)
  BY <1>1, <1>2
<1>4. \A i \in 1 .. d : /\ Len(tip) + 1 - i \in 1 .. Len(tip) /\ i - 1 \in 0 .. d /\ i \in 0 .. d
                        /\ Len(tip) - (i - 1) = Len(tip) + 1 - i
                        /\ (Len(tip) + 1 - i) - 1 = Len(tip) - i
  BY <1>1, <1>2
<1>5. q = [i \in 1 .. d |-> Event("disconnect", GetAncestor(tip, Len(tip) + 1 - i))]
  BY DEF Leaving, f
<1> HIDE DEF q, d
<1>6. \A i \in 1 .. d : Event("disconnect", GetAncestor(tip, Len(tip) + 1 - i)) \in Events
  BY <1>4, ChainAncestor, EventIs
<1>7. q \in [1 .. d -> Events]
  BY <1>5, <1>6
<1>8. q \in Seq(Events) /\ Len(q) = d
  BY <1>3, <1>7, SequenceIs
<1>9. \A i \in 1 .. d : q[i].kind = "disconnect" /\ q[i].of = GetAncestor(tip, Len(tip) + 1 - i)
  BY <1>5, EventIs
<1>10. w \in [0 .. d -> Chains]
  BY <1>3, ChainAncestor, Zenon
<1>11. w[0] = tip /\ w[d] = f
  <2>1. 0 \in 0 .. d /\ d \in 0 .. d /\ Len(tip) - 0 = Len(tip) /\ Len(tip) - d = Len(f)
    BY <1>1, <1>2, <1>3 DEF d
  <2>2. w[0] = GetAncestor(tip, Len(tip)) /\ w[d] = GetAncestor(tip, Len(f))
    BY <2>1
  <2> QED BY <1>1, <1>2, <2>2, SelfAncestor
<1>12. ASSUME NEW i \in 1 .. d PROVE Moved(q[i], w[i - 1], w[i])
  <2>1. w[i - 1] = GetAncestor(tip, Len(tip) + 1 - i) /\ w[i] = GetAncestor(tip, Len(tip) - i)
    BY <1>4
  <2>2. Prev(GetAncestor(tip, Len(tip) + 1 - i)) = GetAncestor(tip, (Len(tip) + 1 - i) - 1)
    BY <1>2, <1>4, PrevOfAncestor
  <2> QED BY <1>4, <1>9, <2>1, <2>2 DEF Moved, IsConnect
<1> HIDE DEF w
<1>13. Way(q, tip, f, w)
  BY <1>8, <1>11, <1>12 DEF Way
<1>14. Leads(q, tip, f)
  BY <1>8, <1>10, <1>13 DEF Leads
<1>15. ASSUME NEW c PROVE ~Has(q, Stakes(c)) /\ ~Has(q, Creates(c))
  BY <1>8, <1>9 DEF Has, Stakes, Creates, IsConnect
<1>16. ~Has(q, Markers)
  BY <1>8, <1>9 DEF Has, Markers
<1> QED BY <1>8, <1>14, <1>15, <1>16 DEF q, f

\* The connects go up from the fork to the new tip.
LEMMA JoiningIs ==
    ASSUME tip \in Chains, NEW b \in Chains
    PROVE  /\ Joining(b) \in Seq(Events) /\ Leads(Joining(b), FindFork(tip, b), b)
           /\ Len(Joining(b)) = Len(b) - Len(FindFork(tip, b))
           /\ \A i \in 1 .. Len(Joining(b)) :
                 /\ Len(FindFork(tip, b)) + i \in Len(FindFork(tip, b)) + 1 .. Len(b)
                 /\ Joining(b)[i].kind = "connect"
                 /\ Joining(b)[i].of = GetAncestor(b, Len(FindFork(tip, b)) + i)
                 /\ Header(Joining(b)[i].of) = b[Len(FindFork(tip, b)) + i]
<1> DEFINE f == FindFork(tip, b)
           n == Len(f)
           d == Len(b) - n
           q == Joining(b)
           w == [i \in 0 .. d |-> GetAncestor(b, n + i)]
<1>1. /\ n \in 1 .. Len(b) /\ f = GetAncestor(b, n)
  BY ChainFork
<1>2. b \in Seq(Headers) /\ Len(b) \in Nat /\ Len(b) >= 1
  BY ChainIs
<1> HIDE DEF f
<1>3. d \in Nat /\ \A i \in 0 .. d : n + i \in 1 .. Len(b)
  BY <1>1, <1>2
<1>4. \A i \in 1 .. d : /\ n + i \in 1 .. Len(b) /\ i - 1 \in 0 .. d /\ i \in 0 .. d
                        /\ n + (i - 1) = (n + i) - 1 /\ n + i \in n + 1 .. Len(b)
  BY <1>1, <1>2
<1>5. q = [i \in 1 .. d |-> Event("connect", GetAncestor(b, n + i))]
  BY DEF Joining, f
<1> HIDE DEF q, d, n
<1>6. \A i \in 1 .. d : Event("connect", GetAncestor(b, n + i)) \in Events
  BY <1>4, ChainAncestor, EventIs
<1>7. q \in [1 .. d -> Events]
  BY <1>5, <1>6
<1>8. q \in Seq(Events) /\ Len(q) = d
  BY <1>3, <1>7, SequenceIs
<1>9. \A i \in 1 .. d : q[i].kind = "connect" /\ q[i].of = GetAncestor(b, n + i)
  BY <1>5, EventIs
<1>10. w \in [0 .. d -> Chains]
  BY <1>3, ChainAncestor
<1>11. w[0] = f /\ w[d] = b
  <2>1. 0 \in 0 .. d /\ d \in 0 .. d /\ n + 0 = n /\ n + d = Len(b)
    BY <1>1, <1>2, <1>3 DEF d
  <2>2. w[0] = GetAncestor(b, n) /\ w[d] = GetAncestor(b, Len(b))
    BY <2>1
  <2> QED BY <1>1, <1>2, <2>2, SelfAncestor
<1>12. ASSUME NEW i \in 1 .. d PROVE Moved(q[i], w[i - 1], w[i])
  <2>1. w[i - 1] = GetAncestor(b, (n + i) - 1) /\ w[i] = GetAncestor(b, n + i)
    BY <1>4
  <2>2. Prev(GetAncestor(b, n + i)) = GetAncestor(b, (n + i) - 1)
    BY <1>2, <1>4, PrevOfAncestor
  <2> QED BY <1>9, <2>1, <2>2 DEF Moved, IsConnect
<1> HIDE DEF w
<1>13. Way(q, f, b, w)
  BY <1>8, <1>11, <1>12 DEF Way
<1>14. Leads(q, f, b)
  BY <1>8, <1>10, <1>13 DEF Leads
<1>15. \A i \in 1 .. d : Header(q[i].of) = b[n + i]
  BY <1>4, <1>9, ChainAncestor
<1> QED BY <1>4, <1>8, <1>9, <1>14, <1>15 DEF q, f, n, d

\* What comes back into the mempool is announced in between.
LEMMA ReturningIs ==
    ASSUME tip \in Chains, NEW b \in Chains
    PROVE  /\ Back(b) \in SUBSET Txs /\ \A c \in Back(b) : Spendable(b, c)
           /\ Returning(b) \in Seq(Events) /\ \A s \in Chains : Leads(Returning(b), s, s)
           /\ \A c : ~Has(Returning(b), Stakes(c)) /\ ~Has(Returning(b), Creates(c))
           /\ ~Has(Returning(b), Markers)
           /\ \A c \in Back(b) : Last(Returning(b), Tells(c), Stakes(c))
<1>1. \A c \in Back(b) : Spendable(b, c)
  BY DEF Back
<1>2. Back(b) \in SUBSET Txs
  BY <1>1, UnspentInTxs DEF Spendable
<1>3. CASE Back(b) = {}
  BY <1>1, <1>3, NoEvent, Zenon DEF Returning
<1>4. CASE Back(b) # {}
  <2> DEFINE e == Event("tx", Back(b))
  <2>1. e \in Events /\ e.kind = "tx" /\ e.of = Back(b)
    BY <1>2, EventIs
  <2>2. Returning(b) = <<e>>
    BY <1>4 DEF Returning
  <2> HIDE DEF e
  <2>3. \A c : e \notin Stakes(c) /\ e \notin Creates(c)
    BY <2>1 DEF Stakes, Creates, IsConnect
  <2>4. \A c \in Back(b) : e \in Tells(c)
    BY <2>1 DEF Tells
  <2>5. \A s \in Chains : Moved(e, s, s)
    BY <2>1 DEF Moved, IsConnect
  <2>6. <<e>> \in Seq(Events) /\ \A s \in Chains : Leads(<<e>>, s, s)
    BY <2>1, <2>5, LeadsOne
  <2>7. \A c : ~Has(<<e>>, Stakes(c)) /\ ~Has(<<e>>, Creates(c))
    BY <2>1, <2>3, OneEvent
  <2>8. \A c \in Back(b) : Last(<<e>>, Tells(c), Stakes(c))
    BY <2>1, <2>4, OneEvent
  <2>9. ~Has(<<e>>, Markers)
    <3>1. e \notin Markers
      BY <2>1 DEF Markers
    <3> QED BY <2>1, <3>1, OneEvent
  <2> QED BY <1>1, <1>2, <2>2, <2>6, <2>7, <2>8, <2>9
<1> QED BY <1>3, <1>4

\* Moves leads from the tip to the new one; it tells the wallet of what comes back
\* and stakes nothing that can be spent on the new chain; and it has the index
\* record the coins created above the fork, and no others of the new chain.
LEMMA MovesIs ==
    ASSUME tip \in Chains, NEW b \in Chains
    PROVE  /\ Moves(b) \in Seq(Events) /\ Leads(Moves(b), tip, b)
           /\ \A c : Spendable(b, c) => ~Has(Moves(b), Stakes(c))
           /\ ~Has(Moves(b), Markers)
           /\ \A c \in Back(b) : Last(Moves(b), Tells(c), Stakes(c))
           /\ \A h \in 1 .. Len(b) : \A c : c \in b[h].creates =>
                 IF h <= Len(FindFork(tip, b)) THEN ~Has(Moves(b), Creates(c))
                 ELSE Last(Moves(b), CreatesIn(c, GetAncestor(b, h)), Creates(c))
<1> DEFINE f == FindFork(tip, b)
           n == Len(f)
           L == Leaving(b)
           R == Returning(b)
           J == Joining(b)
           D == L \o R
<1>1. Moves(b) = D \o J
  BY MovesAre
<1>2. L \in Seq(Events) /\ Leads(L, tip, f)
  BY LeavingIs
<1>3. \A c : ~Has(L, Stakes(c)) /\ ~Has(L, Creates(c))
  BY LeavingIs
<1>4. R \in Seq(Events) /\ f \in Chains /\ Leads(R, f, f)
  BY ReturningIs, ChainFork
<1>5. \A c : ~Has(R, Stakes(c)) /\ ~Has(R, Creates(c))
  BY ReturningIs
<1>6. J \in Seq(Events) /\ Leads(J, f, b) /\ Len(J) = Len(b) - n
  BY JoiningIs
<1>7. \A i \in 1 .. Len(J) :
         /\ n + i \in n + 1 .. Len(b)
         /\ J[i].kind = "connect" /\ J[i].of = GetAncestor(b, n + i)
         /\ Header(J[i].of) = b[n + i]
  BY JoiningIs
<1>8. n \in 1 .. Len(b) /\ b \in Seq(Headers) /\ Len(b) \in Nat
  BY ChainFork, ChainIs
<1>a. \A c \in Back(b) : Last(R, Tells(c), Stakes(c)) /\ Spendable(b, c)
  BY ReturningIs
<1> HIDE DEF f, n, L, R, J
<1>9. D \in Seq(Events) /\ Leads(D, tip, f)
  BY <1>2, <1>4, ConcatIs, LeadsConcat
<1>10. \A c : ~Has(D, Stakes(c)) /\ ~Has(D, Creates(c))
  BY <1>2, <1>3, <1>4, <1>5, HasConcat
<1>11. \A c \in Back(b) : Last(D, Tells(c), Stakes(c))
  BY <1>2, <1>4, <1>a, LastConcat
<1> HIDE DEF D
<1>12. Moves(b) \in Seq(Events) /\ Leads(Moves(b), tip, b)
  BY <1>1, <1>6, <1>9, ConcatIs, LeadsConcat
<1>13. ASSUME NEW c, Spendable(b, c) PROVE ~Has(J, Stakes(c))
  <2>1. \A h \in 1 .. Len(b) : c \notin b[h].spends
    BY <1>13, SpentMeans DEF Spendable, Unspent
  <2>2. \A h \in 1 .. Len(b) : b[h].stakes \subseteq b[h].spends
    BY ChainIs
  <2>3. \A i \in 1 .. Len(J) : n + i \in 1 .. Len(b)
    BY <1>7, <1>8
  <2>4. \A i \in 1 .. Len(J) : c \notin Header(J[i].of).stakes
    BY <1>7, <2>1, <2>2, <2>3
  <2> QED BY <2>4 DEF Has, Stakes
<1>14. \A c : Spendable(b, c) => ~Has(Moves(b), Stakes(c))
  BY <1>1, <1>6, <1>9, <1>10, <1>13, HasConcat
<1>15. \A c \in Back(b) : Last(Moves(b), Tells(c), Stakes(c))
  BY <1>1, <1>6, <1>9, <1>11, <1>13, <1>a, LastConcat
<1>16. ASSUME NEW h \in 1 .. Len(b), NEW c, c \in b[h].creates
       PROVE  IF h <= n THEN ~Has(Moves(b), Creates(c))
              ELSE Last(Moves(b), CreatesIn(c, GetAncestor(b, h)), Creates(c))
  <2>1. \A k \in 1 .. Len(b) : k # h => c \notin b[k].creates
    BY <1>16, ChainIs
  <2>2. \A i \in 1 .. Len(J) : n + i \in 1 .. Len(b) /\ n + i >= n + 1
    BY <1>7, <1>8
  <2>3. CASE h <= n
    <3>1. \A i \in 1 .. Len(J) : n + i # h
      BY <1>8, <2>2, <2>3
    <3>2. ~Has(J, Creates(c))
      BY <1>7, <2>1, <2>2, <3>1 DEF Has, Creates
    <3> QED BY <1>1, <1>6, <1>9, <1>10, <2>3, <3>2, HasConcat
  <2>4. CASE ~(h <= n)
    <3> DEFINE i == h - n
    <3>1. i \in 1 .. Len(J) /\ n + i = h
      BY <1>6, <1>8, <2>4
    <3>2. \A j \in i + 1 .. Len(J) : j \in 1 .. Len(J) /\ n + j # h
      BY <1>6, <1>8, <2>4
    <3> HIDE DEF i
    <3>3. J[i] \in Events
      BY <1>6, <3>1
    <3>4. J[i] \in CreatesIn(c, GetAncestor(b, h))
      BY <1>7, <1>16, <3>1, <3>3 DEF CreatesIn, Creates
    <3>5. \A j \in i + 1 .. Len(J) : J[j] \notin Creates(c)
      BY <1>7, <2>1, <2>2, <3>2 DEF Creates
    <3>6. Last(J, CreatesIn(c, GetAncestor(b, h)), Creates(c))
      BY <3>1, <3>4, <3>5 DEF Last
    <3> QED BY <1>1, <1>6, <1>9, <2>4, <3>6, LastConcat
  <2> QED BY <2>3, <2>4
<1>17. ~Has(Moves(b), Markers)
  <2>1. ~Has(L, Markers) /\ ~Has(R, Markers)
    BY LeavingIs, ReturningIs DEF L, R
  <2>2. ~Has(J, Markers)
    BY <1>7 DEF Has, Markers
  <2>3. ~Has(D, Markers)
    BY <1>2, <1>4, <2>1, HasConcat DEF D
  <2> QED BY <1>1, <1>6, <1>9, <2>2, <2>3, HasConcat
<1> QED BY <1>12, <1>14, <1>15, <1>16, <1>17, Zenon DEF n, f

-----------------------------------------------------------------------------
(***************************************************************************)
(* The invariant.                                                          *)
(***************************************************************************)

Typing ==
    /\ tip \in Chains /\ queue \in Seq(Events)
    /\ invalid = NoBlock \/ (invalid \in Tree /\ Len(invalid) >= 2)
    /\ mempool \subseteq Txs /\ walletTxs \subseteq Txs
    /\ entries \in [Txs -> Tree \cup {NoBlock}] /\ conflict \in [Txs -> Nat]

\* The events waiting lead the wallet to the tip, and it knows the stakes of the
\* chain it is at.
WalletInv == Leads(queue, walletTip, tip) /\ walletStakes = StakedOn(walletTip)

\* The wallet has heard of the transaction that spends c, or will.  No block is
\* waiting that would put the transaction in conflict after that.
Heard(c) == c \in walletTxs /\ conflict[c] = 0 /\ ~Has(queue, Stakes(c))
MempoolInv ==
    \A c \in mempool : Spendable(tip, c) /\ (Heard(c) \/ Last(queue, Tells(c), Stakes(c)))

\* The index knows the block of the active chain that created c, or will.
Recorded(c, a) == entries[c] = a /\ ~Has(queue, Creates(c))
IndexInv ==
    /\ \A t \in Txs : entries[t] # NoBlock => t \in Header(entries[t]).creates
    /\ \A h \in 1 .. Len(tip), c \in Txs : c \in tip[h].creates =>
          \/ Recorded(c, GetAncestor(tip, h))
          \/ Last(queue, CreatesIn(c, GetAncestor(tip, h)), Creates(c))

NodeInv == Typing /\ WalletInv /\ MempoolInv /\ IndexInv

Candidates == [collected : BOOLEAN, last : Chains, coins : SUBSET Txs]
Templates ==
    [prev : Chains, coin : Txs, from : Tree, inputs : SUBSET Txs, txs : SUBSET Txs, height : Nat]
Searching == {"bits", "height", "search", "hash", "create"}
Submitting == {"nonce", "check", "process"}

\* The coins examined are those collected, and none of them was refused before.
SearchInv ==
    /\ pc \in Pcs /\ candidates \in Candidates /\ refusals \subseteq Txs
    /\ todo \subseteq Txs /\ (pc \in {"search", "hash"} => todo \subseteq candidates.coins)
    /\ pc = "hash" => seen.coin \in candidates.coins /\ seen.from # NoBlock
    /\ pc \in Searching => candidates.collected
    /\ candidates.collected => candidates.coins \cap refusals = {}

\* A kernel is there while a block is built, with one of these coins.
KernelInv ==
    /\ kernel # NoKernel <=> pc = "create"
    /\ pc = "create" => kernel.coin \in candidates.coins

\* A template is there until it is submitted; what it spends can be spent, and its
\* kernel was checked against a block of its own chain that creates the coin.
TemplateInv ==
    /\ pc \notin Submitting => template = NoTemplate
    /\ pc \in Submitting =>
          /\ template \in Templates
          /\ template.coin \in template.inputs
          /\ template.coin \in Header(template.from).creates
          /\ Meets(template.coin, template.from, template.prev, NextBits(template.prev))
          /\ \A c \in template.inputs \cup template.txs : Unspent(template.prev, c)
          /\ pc # "nonce" => template.height = Len(template.prev) + 1

\* The thread waits for its own marker, and for one at a time.
MarkerInv == AtMostOne(queue, Markers) /\ (Has(queue, Markers) => pc = "wait")

PassInv == SearchInv /\ KernelInv /\ TemplateInv /\ MarkerInv

IndInv == NodeInv /\ PassInv

LEMMA WalletTipTyped == NodeInv => walletTip \in Chains
BY LeadsTyped DEF NodeInv, Typing, WalletInv

LEMMA AvailableTyped == AvailableCoins \in SUBSET Txs
BY DEF AvailableCoins

LEMMA InitNode == Init => NodeInv
<1> SUFFICES ASSUME Init PROVE NodeInv
  OBVIOUS
<1>1. /\ tip = First /\ invalid = NoBlock /\ mempool = {} /\ queue = <<>>
      /\ entries = [t \in Txs |-> IF Created(tip, t) THEN CreatedIn(tip, t) ELSE NoBlock]
      /\ walletTip = tip
      /\ walletTxs = UNION {TxSpends(tip[h]) : h \in 1 .. Len(tip)}
      /\ conflict = [c \in Txs |-> 0]
      /\ walletStakes = StakedOn(tip)
  BY DEF Init
<1>2. tip \in Tree /\ tip \in Chains
  BY <1>1, StakingPassAssumption, TreeTyped
<1>3. \A P, Q : <<>> \in Seq(Events) /\ ~Has(<<>>, Q) /\ ~Last(<<>>, P, Q)
  BY NoEvent
<1>4. \A t \in Txs, h \in 1 .. Len(tip) : t \in tip[h].creates =>
         entries[t] = GetAncestor(tip, h)
  BY <1>1, <1>2, CreatedAt
<1>5. ASSUME NEW t \in Txs, entries[t] # NoBlock
      PROVE  entries[t] \in Tree /\ t \in Header(entries[t]).creates
  <2>1. Created(tip, t)
    BY <1>1, <1>5
  <2>2. PICK h \in 1 .. Len(tip) : t \in tip[h].creates
    BY <2>1, CreatedSomewhere
  <2>3. entries[t] = GetAncestor(tip, h)
    BY <1>4, <2>2
  <2>4. GetAncestor(tip, h) \in Tree /\ Header(GetAncestor(tip, h)) = tip[h]
    BY <1>2, TreeTyped, ChainAncestor
  <2> QED BY <2>2, <2>3, <2>4
<1>6. walletTxs \subseteq Txs
  <2>1. \A h \in 1 .. Len(tip) : tip[h].spends \subseteq Txs
    BY <1>2, ChainIs
  <2> QED BY <1>1, <2>1 DEF TxSpends
<1>7. Typing
  <2>1. entries \in [Txs -> Tree \cup {NoBlock}]
    BY <1>1, <1>5, Zenon
  <2>2. conflict \in [Txs -> Nat]
    BY <1>1
  <2>3. mempool \subseteq Txs /\ queue \in Seq(Events)
    BY <1>1, <1>3
  <2> QED BY <1>1, <1>2, <1>6, <2>1, <2>2, <2>3 DEF Typing
<1>8. WalletInv
  BY <1>1, <1>2, NoEvent DEF WalletInv
<1>9. MempoolInv
  BY <1>1 DEF MempoolInv
<1>10. IndexInv
  BY <1>1, <1>3, <1>4, <1>5, Zenon DEF IndexInv, Recorded
<1> QED BY <1>7, <1>8, <1>9, <1>10 DEF NodeInv

LEMMA InitPass == Init => PassInv
<1> SUFFICES ASSUME Init PROVE PassInv
  OBVIOUS
<1>1. /\ tip = First /\ walletTip = tip /\ pc = "sync" /\ candidates = Collected
      /\ todo = {} /\ kernel = NoKernel /\ template = NoTemplate /\ refusals = {}
  BY DEF Init
<1>2. walletTip \in Chains
  BY <1>1, StakingPassAssumption, TreeTyped
<1>3. candidates \in Candidates
  BY <1>1, <1>2, AvailableTyped DEF Collected, Candidates
<1>4. SearchInv
  BY <1>1, <1>3 DEF SearchInv, Pcs, Searching
<1>5. KernelInv
  BY <1>1 DEF KernelInv
<1>6. TemplateInv
  BY <1>1 DEF TemplateInv, Submitting
<1>7. MarkerInv
  <2>1. queue = <<>>
    BY DEF Init
  <2> QED BY <2>1, NoEvent, Zenon DEF MarkerInv
<1> QED BY <1>4, <1>5, <1>6, <1>7 DEF PassInv

-----------------------------------------------------------------------------
(***************************************************************************)
(* The node's steps.                                                       *)
(***************************************************************************)

\* The chain moves to b.
LEMMA SetTipNode ==
    ASSUME NodeInv, NEW b \in Chains, SetTip(b), UNCHANGED <<entries, walletVars>>,
           invalid' = NoBlock \/ (invalid' \in Tree /\ Len(invalid') >= 2)
    PROVE  NodeInv'
<1> DEFINE m == Moves(b)
<1>1. /\ tip' = b /\ mempool' = MempoolAt(b) /\ queue' = queue \o m
      /\ entries' = entries /\ walletTip' = walletTip /\ walletTxs' = walletTxs
      /\ conflict' = conflict /\ walletStakes' = walletStakes
  BY DEF SetTip, walletVars
<1>2. Typing /\ WalletInv /\ MempoolInv /\ IndexInv /\ tip \in Chains /\ queue \in Seq(Events)
  BY DEF NodeInv, Typing
<1>3. m \in Seq(Events) /\ Leads(m, tip, b)
  BY <1>2, MovesIs, Zenon
<1>4. \A c : Spendable(b, c) => ~Has(m, Stakes(c))
  BY <1>2, MovesIs, Zenon
<1>5. \A c \in Back(b) : Last(m, Tells(c), Stakes(c))
  BY <1>2, MovesIs, Zenon
<1>6. \A h \in 1 .. Len(b) : \A c : c \in b[h].creates =>
                 IF h <= Len(FindFork(tip, b)) THEN ~Has(m, Creates(c))
                 ELSE Last(m, CreatesIn(c, GetAncestor(b, h)), Creates(c))
  BY <1>2, MovesIs, Zenon
<1> HIDE DEF m
<1>7. queue' \in Seq(Events) /\ Leads(queue', walletTip, b)
  BY <1>1, <1>2, <1>3, ConcatIs, LeadsConcat, Zenon DEF WalletInv
<1>8. \A Q : Has(queue', Q) <=> Has(queue, Q) \/ Has(m, Q)
  BY <1>1, <1>2, <1>3, HasConcat
<1>9. \A P, Q : Last(queue', P, Q) <=> Last(m, P, Q) \/ (Last(queue, P, Q) /\ ~Has(m, Q))
  BY <1>1, <1>2, <1>3, LastConcat
<1>10. \A c \in mempool' : Spendable(b, c) /\ (c \in mempool \/ c \in Back(b))
  BY <1>1 DEF MempoolAt
<1>11. Typing'
  <2>1. mempool' \subseteq Txs
    BY <1>10, UnspentInTxs DEF Spendable
  <2> QED BY <1>1, <1>2, <1>7, <2>1 DEF Typing
<1>12. WalletInv'
  BY <1>1, <1>2, <1>7 DEF WalletInv
<1>13. MempoolInv'
  <2> SUFFICES ASSUME NEW c \in mempool'
               PROVE  Spendable(tip', c) /\ (Heard(c)' \/ Last(queue', Tells(c), Stakes(c)))
    BY DEF MempoolInv
  <2>1. Spendable(b, c) /\ ~Has(m, Stakes(c))
    BY <1>4, <1>10
  <2>2. CASE c \in Back(b)
    BY <1>1, <1>5, <1>9, <2>1, <2>2
  <2>3. CASE c \in mempool /\ Heard(c)
    BY <1>1, <1>8, <2>1, <2>3 DEF Heard
  <2>4. CASE c \in mempool /\ Last(queue, Tells(c), Stakes(c))
    BY <1>1, <1>9, <2>1, <2>4
  <2> QED BY <1>2, <1>10, <2>2, <2>3, <2>4 DEF MempoolInv
<1>14. IndexInv'
  <2>1. \A t \in Txs : entries'[t] # NoBlock => t \in Header(entries'[t]).creates
    BY <1>1, <1>2, Zenon DEF IndexInv
  <2>2. ASSUME NEW h \in 1 .. Len(b), NEW c \in Txs, c \in b[h].creates
        PROVE  \/ entries[c] = GetAncestor(b, h) /\ ~Has(queue', Creates(c))
               \/ Last(queue', CreatesIn(c, GetAncestor(b, h)), Creates(c))
    <3>1. CASE h <= Len(FindFork(tip, b))
      <4>1. Len(b) \in Nat /\ Len(FindFork(tip, b)) \in 1 .. Len(tip)
        BY <1>2, ChainFork, ChainIs
      <4>2. h \in 1 .. Len(FindFork(tip, b))
        BY <3>1, <4>1
      <4>3. b[h] = tip[h] /\ GetAncestor(b, h) = GetAncestor(tip, h)
        BY <1>2, <4>2, ChainFork
      <4>4. h \in 1 .. Len(tip)
        BY <4>1, <4>2
      <4>5. Recorded(c, GetAncestor(tip, h)) \/ Last(queue, CreatesIn(c, GetAncestor(tip, h)), Creates(c))
        BY <1>2, <2>2, <4>3, <4>4, Zenon DEF IndexInv
      <4>6. ~Has(m, Creates(c))
        BY <1>6, <2>2, <3>1
      <4> QED BY <1>8, <1>9, <4>3, <4>5, <4>6 DEF Recorded
    <3>2. CASE ~(h <= Len(FindFork(tip, b)))
      BY <1>6, <1>9, <2>2, <3>2, Zenon
    <3> QED BY <3>1, <3>2
  <2> QED BY <1>1, <2>1, <2>2, Zenon DEF IndexInv, Recorded
<1> QED BY <1>11, <1>12, <1>13, <1>14 DEF NodeInv

\* An event that moves nothing joins the queue.
LEMMA AppendIs ==
    ASSUME NodeInv, NEW e \in Events, e.kind \in {"tx", "marker"}
    PROVE  /\ Append(queue, e) \in Seq(Events) /\ Leads(Append(queue, e), walletTip, tip)
           /\ \A c : /\ Has(Append(queue, e), Stakes(c)) <=> Has(queue, Stakes(c))
                     /\ Has(Append(queue, e), Creates(c)) <=> Has(queue, Creates(c))
           /\ \A c, a : Last(queue, CreatesIn(c, a), Creates(c)) =>
                           Last(Append(queue, e), CreatesIn(c, a), Creates(c))
           /\ \A c : Last(queue, Tells(c), Stakes(c)) \/ e \in Tells(c) =>
                        Last(Append(queue, e), Tells(c), Stakes(c))
<1>1. queue \in Seq(Events) /\ tip \in Chains /\ Leads(queue, walletTip, tip)
  BY DEF NodeInv, Typing, WalletInv
<1>2. Append(queue, e) = queue \o <<e>>
  BY <1>1, AppendSeq
<1>3. \A c : e \notin Stakes(c) /\ e \notin Creates(c)
  BY DEF Stakes, Creates, IsConnect
<1>4. Moved(e, tip, tip)
  BY DEF Moved, IsConnect
<1>5. <<e>> \in Seq(Events) /\ Leads(<<e>>, tip, tip)
  BY <1>1, <1>4, LeadsOne, OneEvent
<1>6. \A c : ~Has(<<e>>, Stakes(c)) /\ ~Has(<<e>>, Creates(c))
  BY <1>3, OneEvent
<1>7. \A c : e \in Tells(c) => Last(<<e>>, Tells(c), Stakes(c))
  BY OneEvent
<1>8. queue \o <<e>> \in Seq(Events) /\ Leads(queue \o <<e>>, walletTip, tip)
  BY <1>1, <1>5, ConcatIs, LeadsConcat, Zenon
<1>9. \A Q : Has(queue \o <<e>>, Q) <=> Has(queue, Q) \/ Has(<<e>>, Q)
  BY <1>1, <1>5, HasConcat, Zenon
<1>10. \A P, Q : Last(queue \o <<e>>, P, Q) <=>
                    Last(<<e>>, P, Q) \/ (Last(queue, P, Q) /\ ~Has(<<e>>, Q))
  BY <1>1, <1>5, LastConcat, Zenon
<1> QED BY <1>2, <1>6, <1>7, <1>8, <1>9, <1>10

\* The first event leaves the queue.
LEMMA TailIs ==
    ASSUME NodeInv, queue # <<>>
    PROVE  /\ Head(queue) \in Events /\ Tail(queue) \in Seq(Events)
           /\ queue = <<Head(queue)>> \o Tail(queue)
           /\ \E x \in Chains : Moved(Head(queue), walletTip, x) /\ Leads(Tail(queue), x, tip)
           /\ \A Q : Has(queue, Q) <=> Head(queue) \in Q \/ Has(Tail(queue), Q)
           /\ \A P, Q : Last(queue, P, Q) =>
                 Last(Tail(queue), P, Q) \/ (Head(queue) \in P /\ ~Has(Tail(queue), Q))
<1> DEFINE e == Head(queue)
           r == Tail(queue)
<1>1. queue \in Seq(Events) /\ Leads(queue, walletTip, tip)
  BY DEF NodeInv, Typing, WalletInv
<1>2. e \in Events /\ r \in Seq(Events) /\ queue = <<e>> \o r
  BY <1>1, QueueSplit
<1> HIDE DEF e, r
<1>3. <<e>> \in Seq(Events)
  BY <1>2
<1>4. Leads(<<e>> \o r, walletTip, tip)
  BY <1>1, <1>2
<1>5. \E x \in Chains : Moved(e, walletTip, x) /\ Leads(r, x, tip)
  BY <1>2, <1>4, LeadsHead
<1>6. \A Q : Has(<<e>> \o r, Q) <=> e \in Q \/ Has(r, Q)
  BY <1>2, <1>3, HasConcat, OneEvent, Zenon
<1>7. \A P, Q : Last(<<e>> \o r, P, Q) => Last(r, P, Q) \/ (e \in P /\ ~Has(r, Q))
  BY <1>2, <1>3, LastConcat, OneEvent, Zenon
<1> QED BY <1>2, <1>5, <1>6, <1>7, Zenon DEF e, r

LEMMA ActivateNode == NodeInv /\ ActivateBestChain => NodeInv'
<1> SUFFICES ASSUME NodeInv, ActivateBestChain PROVE NodeInv'
  OBVIOUS
<1>1. PICK b \in Tree : SetTip(b)
  BY DEF ActivateBestChain
<1>2. UNCHANGED <<entries, walletVars>> /\ invalid' = invalid
  BY DEF ActivateBestChain
<1>3. invalid' = NoBlock \/ (invalid' \in Tree /\ Len(invalid') >= 2)
  BY <1>2 DEF NodeInv, Typing
<1>4. b \in Chains
  BY TreeTyped
<1> QED BY <1>1, <1>2, <1>3, <1>4, SetTipNode

\* InvalidateBlock never disconnects genesis.
LEMMA InvalidateNode == NodeInv /\ InvalidateBlock => NodeInv'
<1> SUFFICES ASSUME NodeInv, InvalidateBlock PROVE NodeInv'
  OBVIOUS
<1>0. /\ tip \in Chains /\ Len(tip) \in Nat /\ Len(tip) >= 1
      /\ invalid = NoBlock \/ (invalid \in Tree /\ Len(invalid) >= 2)
  BY ChainIs DEF NodeInv, Typing
<1>1. Len(tip) >= 2 /\ (invalid' = NoBlock \/ (invalid' \in Tree /\ Len(invalid') >= 2))
  <2>1. CASE Failed(tip) /\ UNCHANGED invalid
    <3>1. invalid \in Tree /\ Len(invalid) >= 2 /\ Len(invalid) <= Len(tip)
      BY <1>0, <2>1 DEF Failed, IsAncestor
    <3>2. Len(invalid) \in Nat
      BY <3>1, TreeTyped
    <3> QED BY <1>0, <2>1, <3>1, <3>2
  <2>2. ASSUME NEW h \in Len(First) + 1 .. Len(tip), GetAncestor(tip, h) \in Tree,
               invalid' = GetAncestor(tip, h)
        PROVE  Len(tip) >= 2 /\ invalid' \in Tree /\ Len(invalid') >= 2
    <3>1. Len(First) \in Nat /\ Len(First) >= 1
      BY StakingPassAssumption, TreeTyped, ChainIs
    <3>2. h \in 1 .. Len(tip) /\ h >= 2
      BY <1>0, <3>1
    <3>3. Len(GetAncestor(tip, h)) = h
      BY <1>0, <3>2, ChainAncestor
    <3> QED BY <1>0, <2>2, <3>2, <3>3
  <2> QED BY <2>1, <2>2 DEF InvalidateBlock
<1>2. Prev(tip) \in Chains
  <2>1. Len(tip) \in Nat /\ tip \in Chains
    BY <1>0
  <2>2. Len(tip) >= 2
    BY <1>1
  <2>3. Len(tip) # 1
    <3>1. \A n \in Nat : n >= 2 => n # 1
      OBVIOUS
    <3> QED BY <2>1, <2>2, <3>1, Zenon
  <2> QED BY <2>1, <2>3, ChainPrev
<1>3. SetTip(Prev(tip)) /\ UNCHANGED <<entries, walletVars>>
  BY DEF InvalidateBlock
<1> QED BY <1>1, <1>2, <1>3, SetTipNode

\* IndexInv is kept by whatever leaves the tip, the entries and the queue's
\* connects as they are.
LEMMA SameIndex ==
    ASSUME IndexInv, UNCHANGED <<tip, entries>>,
           \A c : Has(queue', Creates(c)) => Has(queue, Creates(c)),
           \A c, a : Last(queue, CreatesIn(c, a), Creates(c)) =>
                        Last(queue', CreatesIn(c, a), Creates(c))
    PROVE  IndexInv'
BY Zenon DEF IndexInv, Recorded

\* A transaction that enters the mempool is announced.
LEMMA AnnouncedNode ==
    ASSUME NodeInv, NEW c \in Txs, Spendable(tip, c), mempool' = mempool \cup {c},
           queue' = Append(queue, Event("tx", {c})),
           UNCHANGED <<tip, invalid, entries, walletTip, walletStakes>>,
           walletTxs' \in SUBSET Txs, conflict' \in [Txs -> Nat],
           \A d \in Txs : d \in walletTxs /\ conflict[d] = 0 => d \in walletTxs' /\ conflict'[d] = 0
    PROVE  NodeInv'
<1> DEFINE e == Event("tx", {c})
<1>1. Typing /\ WalletInv /\ MempoolInv /\ IndexInv
  BY DEF NodeInv
<1>2. e \in Events /\ e.kind = "tx" /\ e.of = {c}
  BY EventIs, Zenon
<1> HIDE DEF e
<1>3. queue' = Append(queue, e)
  BY DEF e
<1>4. /\ queue' \in Seq(Events) /\ Leads(queue', walletTip, tip)
      /\ \A d : /\ Has(queue', Stakes(d)) <=> Has(queue, Stakes(d))
                /\ Has(queue', Creates(d)) <=> Has(queue, Creates(d))
  BY <1>2, <1>3, AppendIs, Zenon
<1>5. \A d, a : Last(queue, CreatesIn(d, a), Creates(d)) =>
                   Last(queue', CreatesIn(d, a), Creates(d))
  BY <1>2, <1>3, AppendIs, Zenon
<1>6. \A d : Last(queue, Tells(d), Stakes(d)) => Last(queue', Tells(d), Stakes(d))
  BY <1>2, <1>3, AppendIs, Zenon
<1>7. e \in Tells(c)
  BY <1>2, Zenon DEF Tells
<1>8. Last(queue', Tells(c), Stakes(c))
  BY <1>2, <1>3, <1>7, AppendIs, Zenon
<1>9. Typing'
  BY <1>1, <1>4 DEF Typing
<1>10. WalletInv'
  BY <1>1, <1>4 DEF WalletInv
<1>11. MempoolInv'
  <2> SUFFICES ASSUME NEW d \in mempool'
               PROVE  Spendable(tip', d) /\ (Heard(d)' \/ Last(queue', Tells(d), Stakes(d)))
    BY Zenon DEF MempoolInv
  <2>1. CASE d = c
    BY <1>8, <2>1
  <2>2. CASE d \in mempool
    <3>1. Spendable(tip, d) /\ d \in Txs /\ (Heard(d) \/ Last(queue, Tells(d), Stakes(d)))
      BY <1>1, <2>2 DEF MempoolInv, Typing
    <3>2. Heard(d) => Heard(d)'
      BY <1>4, <3>1, Zenon DEF Heard
    <3> QED BY <1>6, <3>1, <3>2, Zenon
  <2> QED BY <2>1, <2>2
<1>12. IndexInv'
  BY <1>1, <1>4, <1>5, SameIndex, Zenon
<1> QED BY <1>9, <1>10, <1>11, <1>12 DEF NodeInv

LEMMA AddedNode == NodeInv /\ TransactionAddedToMempool => NodeInv'
<1> SUFFICES ASSUME NodeInv, TransactionAddedToMempool PROVE NodeInv'
  OBVIOUS
<1>1. PICK c \in Shared : /\ Spendable(tip, c) /\ mempool' = mempool \cup {c}
                          /\ queue' = Append(queue, Event("tx", {c}))
  BY Zenon DEF TransactionAddedToMempool
<1>2. UNCHANGED <<tip, invalid, entries, walletTip, walletTxs, conflict, walletStakes>>
  BY DEF TransactionAddedToMempool, walletVars
<1>3. tip \in Chains /\ walletTxs \in SUBSET Txs /\ conflict \in [Txs -> Nat]
  BY DEF NodeInv, Typing
<1>4. c \in Txs
  BY <1>1, <1>3, UnspentInTxs DEF Spendable
<1> QED BY <1>1, <1>2, <1>3, <1>4, AnnouncedNode

\* What AddToWallet does.
LEMMA AddIs ==
    ASSUME NodeInv, NEW cs \in SUBSET Txs, NEW with, NEW height \in Nat,
           AddToWallet(cs, with, height)
    PROVE  /\ walletTxs' \in SUBSET Txs /\ conflict' \in [Txs -> Nat]
           /\ \A c \in cs : c \in walletTxs' /\ conflict'[c] = 0
           /\ \A c \in Txs : c \in walletTxs /\ conflict[c] = 0 /\ c \notin with
                                => c \in walletTxs' /\ conflict'[c] = 0
BY DEF NodeInv, Typing, AddToWallet

\* Without a conflict, what was live stays so.
LEMMA AddNone ==
    ASSUME NodeInv, NEW cs \in SUBSET Txs, AddToWallet(cs, {}, 0)
    PROVE  /\ walletTxs' \in SUBSET Txs /\ conflict' \in [Txs -> Nat]
           /\ \A c \in cs : c \in walletTxs' /\ conflict'[c] = 0
           /\ \A c \in Txs : c \in walletTxs /\ conflict[c] = 0
                                => c \in walletTxs' /\ conflict'[c] = 0
<1>1. 0 \in Nat
  OBVIOUS
<1>2. /\ walletTxs' \in SUBSET Txs /\ conflict' \in [Txs -> Nat]
      /\ \A c \in cs : c \in walletTxs' /\ conflict'[c] = 0
      /\ \A c \in Txs : c \in walletTxs /\ conflict[c] = 0 /\ c \notin {}
                           => c \in walletTxs' /\ conflict'[c] = 0
  BY <1>1, AddIs
<1> QED BY <1>2

LEMMA CommitNode == NodeInv /\ CommitTransaction => NodeInv'
<1> SUFFICES ASSUME NodeInv, CommitTransaction PROVE NodeInv'
  OBVIOUS
<1>1. PICK c \in AvailableCoins :
          /\ AddToWallet({c}, {}, 0)
          /\ IF Spendable(tip, c) /\ c \notin mempool
             THEN mempool' = mempool \cup {c} /\ queue' = Append(queue, Event("tx", {c}))
             ELSE UNCHANGED <<mempool, queue>>
  BY Zenon DEF CommitTransaction
<1>2. UNCHANGED <<tip, invalid, entries, walletTip, walletStakes>>
  BY DEF CommitTransaction
<1>3. c \in Txs /\ {c} \in SUBSET Txs
  BY AvailableTyped
<1>4. /\ walletTxs' \in SUBSET Txs /\ conflict' \in [Txs -> Nat]
      /\ \A d \in Txs : d \in walletTxs /\ conflict[d] = 0 => d \in walletTxs' /\ conflict'[d] = 0
  BY <1>1, <1>3, AddIs
<1>5. CASE Spendable(tip, c) /\ c \notin mempool
  BY <1>1, <1>2, <1>3, <1>4, <1>5, AnnouncedNode
<1>6. CASE UNCHANGED <<mempool, queue>>
  <2>1. Typing /\ WalletInv /\ MempoolInv /\ IndexInv
    BY DEF NodeInv
  <2>2. Typing'
    BY <1>2, <1>4, <1>6, <2>1 DEF Typing
  <2>3. WalletInv'
    BY <1>2, <1>6, <2>1 DEF WalletInv
  <2>4. MempoolInv'
    BY <1>2, <1>4, <1>6, <2>1 DEF MempoolInv, Heard, Typing
  <2>5. IndexInv'
    BY <1>2, <1>6, <2>1, SameIndex
  <2> QED BY <2>2, <2>3, <2>4, <2>5 DEF NodeInv
<1> QED BY <1>1, <1>5, <1>6

\* BlockConnected of the index records the coins that the block creates.
LEMMA IndexConnectedNode == NodeInv /\ IndexConnected => NodeInv'
<1> SUFFICES ASSUME NodeInv, IndexConnected PROVE NodeInv'
  OBVIOUS
<1> DEFINE e == Head(queue)
           r == Tail(queue)
           i == [e EXCEPT !.kind = "indexed"]
<1>1. /\ queue # <<>> /\ e.kind = "connect"
      /\ entries' = [t \in Txs |-> IF t \in Header(e.of).creates THEN e.of ELSE entries[t]]
      /\ queue' = <<i>> \o r
      /\ UNCHANGED <<tip, invalid, mempool, walletTip, walletTxs, conflict, walletStakes>>
  BY DEF IndexConnected, chainVars, walletVars
<1>2. Typing /\ WalletInv /\ MempoolInv /\ IndexInv
  BY DEF NodeInv
<1>3. e \in Events /\ r \in Seq(Events)
  BY <1>1, TailIs
<1>4. PICK x \in Chains : Moved(e, walletTip, x) /\ Leads(r, x, tip)
  BY <1>1, TailIs, Zenon
<1>5. /\ \A Q : Has(queue, Q) <=> e \in Q \/ Has(r, Q)
      /\ queue = <<e>> \o r
  BY <1>1, TailIs, Zenon
<1> HIDE DEF e, r
<1>6. e.of \in Chains /\ e \in BlockEvents
  BY <1>1, <1>3 DEF Events, BlockEvents, TxEvents, Markers
<1>7. i \in Events /\ i.kind = "indexed" /\ i.of = e.of
  BY <1>6 DEF Events, BlockEvents
<1> HIDE DEF i
<1>8. <<i>> \in Seq(Events) /\ <<e>> \in Seq(Events)
  BY <1>3, <1>7
<1>9. Leads(<<i>>, walletTip, x)
  <2>1. Moved(i, walletTip, x)
    BY <1>1, <1>4, <1>7, Zenon DEF Moved, IsConnect
  <2>2. walletTip \in Chains
    BY WalletTipTyped
  <2> QED BY <1>7, <2>1, <2>2, LeadsOne
<1>10. queue' \in Seq(Events) /\ Leads(queue', walletTip, tip)
  BY <1>1, <1>3, <1>4, <1>8, <1>9, ConcatIs, LeadsConcat, Zenon
<1>11. \A Q : Has(queue', Q) <=> i \in Q \/ Has(r, Q)
  BY <1>1, <1>3, <1>7, <1>8, HasConcat, OneEvent, Zenon
<1>12. \A P, Q : Last(queue', P, Q) <=> Last(r, P, Q) \/ (i \in P /\ ~Has(r, Q))
  BY <1>1, <1>3, <1>7, <1>8, LastConcat, OneEvent, Zenon
<1>13. \A P, Q : Last(queue, P, Q) <=> Last(r, P, Q) \/ (e \in P /\ ~Has(r, Q))
  BY <1>3, <1>5, <1>8, LastConcat, OneEvent, Zenon
<1>14. \A c : /\ i \in Stakes(c) <=> e \in Stakes(c)
              /\ i \notin Tells(c) /\ e \notin Tells(c) /\ i \notin Creates(c)
              /\ e \in Creates(c) <=> c \in Header(e.of).creates
  BY <1>1, <1>3, <1>7, Zenon DEF Stakes, Tells, Creates, IsConnect
<1>15. Typing'
  <2>1. Header(e.of).creates # {} => e.of \in Tree
    BY <1>6, CreatorInTree
  <2>2. entries \in [Txs -> Tree \cup {NoBlock}]
    BY <1>2 DEF Typing
  <2>3. entries' \in [Txs -> Tree \cup {NoBlock}]
    BY <1>1, <2>1, <2>2, Zenon
  <2> QED BY <1>1, <1>2, <1>10, <2>3, Zenon DEF Typing
<1>16. WalletInv'
  BY <1>1, <1>2, <1>10 DEF WalletInv
<1>17. MempoolInv'
  <2>1. \A c : Heard(c) => Heard(c)'
    BY <1>1, <1>5, <1>11, <1>14, Zenon DEF Heard
  <2>2. \A c : Last(queue, Tells(c), Stakes(c)) => Last(queue', Tells(c), Stakes(c))
    BY <1>12, <1>13, <1>14, Zenon
  <2> QED BY <1>1, <1>2, <2>1, <2>2, Zenon DEF MempoolInv
<1>18. IndexInv'
  <2>1. ASSUME NEW t \in Txs, entries'[t] # NoBlock
        PROVE  t \in Header(entries'[t]).creates
    BY <1>1, <1>2, <2>1, Zenon DEF IndexInv
  <2>2. ASSUME NEW h \in 1 .. Len(tip), NEW c \in Txs, c \in tip[h].creates
        PROVE  \/ entries'[c] = GetAncestor(tip, h) /\ ~Has(queue', Creates(c))
               \/ Last(queue', CreatesIn(c, GetAncestor(tip, h)), Creates(c))
    <3>1. CASE Recorded(c, GetAncestor(tip, h))
      <4>1. ~Has(queue, Creates(c)) /\ entries[c] = GetAncestor(tip, h)
        BY <3>1 DEF Recorded
      <4>2. c \notin Header(e.of).creates /\ ~Has(queue', Creates(c))
        BY <1>5, <1>11, <1>14, <4>1, Zenon
      <4> QED BY <1>1, <4>1, <4>2, Zenon
    <3>2. CASE Last(r, CreatesIn(c, GetAncestor(tip, h)), Creates(c))
      BY <1>12, <3>2
    <3>3. CASE e \in CreatesIn(c, GetAncestor(tip, h)) /\ ~Has(r, Creates(c))
      <4>1. e.of = GetAncestor(tip, h) /\ c \in Header(e.of).creates
        BY <1>14, <3>3, Zenon DEF CreatesIn
      <4>2. ~Has(queue', Creates(c))
        BY <1>11, <1>14, <3>3, Zenon
      <4> QED BY <1>1, <4>1, <4>2, Zenon
    <3> QED BY <1>2, <1>13, <2>2, <3>1, <3>2, <3>3, Zenon DEF IndexInv
  <2> QED BY <1>1, <2>1, <2>2, Zenon DEF IndexInv, Recorded
<1> QED BY <1>15, <1>16, <1>17, <1>18 DEF NodeInv

\* The wallet's callback ran; it has taken note of the transactions it was told of,
\* and of no conflict but those with the stakes of the block.
LEMMA PoppedNode ==
    ASSUME NodeInv, queue # <<>>, Head(queue).kind # "connect", queue' = Tail(queue),
           UNCHANGED <<tip, invalid, mempool, entries>>,
           walletTxs' \in SUBSET Txs, conflict' \in [Txs -> Nat],
           \A c \in Txs : \/ c \in walletTxs /\ conflict[c] = 0 /\ Head(queue) \notin Stakes(c)
                          \/ Head(queue) \in Tells(c)
                          => c \in walletTxs' /\ conflict'[c] = 0,
           Leads(Tail(queue), walletTip', tip), walletStakes' = StakedOn(walletTip')
    PROVE  NodeInv'
<1> DEFINE e == Head(queue)
           r == Tail(queue)
<1>1. Typing /\ WalletInv /\ MempoolInv /\ IndexInv
  BY DEF NodeInv
<1>2. e \in Events /\ r \in Seq(Events)
  BY TailIs
<1>3. \A Q : Has(queue, Q) <=> e \in Q \/ Has(r, Q)
  BY TailIs
<1>4. \A P, Q : Last(queue, P, Q) => Last(r, P, Q) \/ (e \in P /\ ~Has(r, Q))
  BY TailIs
<1> HIDE DEF e, r
<1>5. queue' = r /\ e.kind # "connect"
  BY DEF r, e
<1>6. \A c \in Txs : (c \in walletTxs /\ conflict[c] = 0 /\ e \notin Stakes(c)) \/ e \in Tells(c)
                          => c \in walletTxs' /\ conflict'[c] = 0
  BY DEF e
<1>7. Typing'
  BY <1>1, <1>2, <1>5 DEF Typing
<1>8. WalletInv'
  BY <1>5 DEF WalletInv, r
<1>9. MempoolInv'
  <2> SUFFICES ASSUME NEW c \in mempool
               PROVE  Spendable(tip, c) /\ (Heard(c)' \/ Last(queue', Tells(c), Stakes(c)))
    BY DEF MempoolInv
  <2>1. c \in Txs /\ Spendable(tip, c) /\ (Heard(c) \/ Last(queue, Tells(c), Stakes(c)))
    BY <1>1 DEF MempoolInv, Typing
  <2>2. CASE Heard(c)
    <3>1. c \in walletTxs /\ conflict[c] = 0 /\ e \notin Stakes(c) /\ ~Has(r, Stakes(c))
      BY <1>3, <2>2 DEF Heard
    <3> QED BY <1>5, <1>6, <2>1, <3>1, Zenon DEF Heard
  <2>3. CASE Last(r, Tells(c), Stakes(c))
    BY <1>5, <2>1, <2>3, Zenon
  <2>4. CASE e \in Tells(c) /\ ~Has(r, Stakes(c))
    BY <1>5, <1>6, <2>1, <2>4, Zenon DEF Heard
  <2> QED BY <1>4, <2>1, <2>2, <2>3, <2>4, Zenon
<1>10. \A c : e \notin Creates(c)
  BY <1>5, Zenon DEF Creates
<1>11. \A c : Has(queue', Creates(c)) => Has(queue, Creates(c))
  BY <1>3, <1>5, Zenon
<1>12. \A c, a : Last(queue, CreatesIn(c, a), Creates(c)) => Last(queue', CreatesIn(c, a), Creates(c))
  <2> SUFFICES ASSUME NEW c, NEW a, Last(queue, CreatesIn(c, a), Creates(c))
               PROVE  Last(r, CreatesIn(c, a), Creates(c))
    BY <1>5, Zenon
  <2>1. e \notin CreatesIn(c, a)
    BY <1>10 DEF CreatesIn
  <2> QED BY <1>4, <2>1
<1>13. IndexInv'
  BY <1>1, <1>11, <1>12, SameIndex
<1> QED BY <1>7, <1>8, <1>9, <1>13 DEF NodeInv

\* A block adds its stakes to those of its chain, and takes them along.
LEMMA StakedOnPrev ==
    ASSUME NEW b \in Chains, Prev(b) \in Chains
    PROVE  /\ StakedOn(b) = StakedOn(Prev(b)) \cup Header(b).stakes
           /\ StakedOn(Prev(b)) = StakedOn(b) \ Header(b).stakes
<1>1. b \in Seq(Headers) /\ Len(b) \in Nat /\ Len(b) >= 1 /\ Len(b) \in 1 .. Len(b)
  BY ChainIs
<1>2. Len(b) # 1
  <2>1. Len(Prev(b)) >= 1
    BY ChainIs
  <2>2. Len(Prev(b)) = Len(b) - 1
    BY <1>1, PrevIs
  <2> QED BY <1>1, <2>1, <2>2
<1>3. Len(Prev(b)) = Len(b) - 1 /\ \A i \in 1 .. Len(b) - 1 : Prev(b)[i] = b[i]
  BY <1>2, ChainPrev
<1>4. \A i \in 1 .. Len(b) : i \in 1 .. Len(b) - 1 \/ i = Len(b)
  BY <1>1
<1>5. \A i \in 1 .. Len(b) - 1 : i \in 1 .. Len(b) /\ i # Len(b)
  BY <1>1
<1>6. \A c : c \in StakedOn(b) <=> \E i \in 1 .. Len(b) : c \in b[i].stakes
  BY DEF StakedOn
<1>7. \A c : c \in StakedOn(Prev(b)) <=> \E i \in 1 .. Len(b) - 1 : c \in b[i].stakes
  BY <1>3 DEF StakedOn
<1>8. \A i \in 1 .. Len(b) - 1 : b[i].stakes \cap b[Len(b)].stakes = {}
  <2>1. \A i \in 1 .. Len(b) : b[i].stakes \subseteq b[i].spends
    BY ChainIs
  <2>2. \A i, k \in 1 .. Len(b) : i # k => b[i].spends \cap b[k].spends = {}
    BY ChainIs
  <2> QED BY <1>1, <1>5, <2>1, <2>2
<1>9. \A c : c \in StakedOn(b) <=> c \in StakedOn(Prev(b)) \/ c \in b[Len(b)].stakes
  BY <1>1, <1>4, <1>5, <1>6, <1>7
<1>10. \A c : ~(c \in StakedOn(Prev(b)) /\ c \in b[Len(b)].stakes)
  BY <1>7, <1>8
<1> QED BY <1>9, <1>10 DEF Header

\* The wallet's callbacks.
LEMMA WalletNotifiedNode == NodeInv /\ WalletNotified => NodeInv'
<1> SUFFICES ASSUME NodeInv, WalletNotified PROVE NodeInv'
  OBVIOUS
<1> DEFINE e == Head(queue)
<1>1. /\ queue # <<>> /\ e.kind # "connect" /\ queue' = Tail(queue)
      /\ UNCHANGED <<tip, invalid, mempool, entries>>
  BY DEF WalletNotified, chainVars
<1>2. e \in Events
  BY <1>1, TailIs
<1>3. PICK x \in Chains : Moved(e, walletTip, x) /\ Leads(Tail(queue), x, tip)
  BY <1>1, TailIs
<1>4. walletTip \in Chains /\ walletStakes = StakedOn(walletTip)
  BY WalletTipTyped DEF NodeInv, WalletInv
<1>5. \/ e.kind = "indexed" /\ BlockConnected(e.of)
      \/ e.kind = "disconnect" /\ BlockDisconnected(e.of)
      \/ e.kind = "tx" /\ AddToWallet(e.of, {}, 0) /\ UNCHANGED <<walletTip, walletStakes>>
  BY Zenon DEF WalletNotified
<1> HIDE DEF e
<1>6. SUFFICES /\ walletTip' = x /\ walletStakes' = StakedOn(x)
               /\ walletTxs' \in SUBSET Txs /\ conflict' \in [Txs -> Nat]
               /\ \A c \in Txs :
                     \/ c \in walletTxs /\ conflict[c] = 0 /\ e \notin Stakes(c)
                     \/ e \in Tells(c)
                     => c \in walletTxs' /\ conflict'[c] = 0
  <2>1. Leads(Tail(queue), walletTip', tip) /\ walletStakes' = StakedOn(walletTip')
    BY <1>3, <1>6, Zenon
  <2> QED BY <1>1, <1>6, <2>1, PoppedNode, Zenon DEF e
<1>7. CASE e.kind \in {"indexed", "disconnect"}
  <2> DEFINE b == e.of
  <2>1. b \in Chains
    BY <1>2, <1>7 DEF Events, BlockEvents, TxEvents, Markers
  <2>2. b \in Seq(Headers) /\ Len(b) \in Nat /\ Header(b).spends \subseteq Txs
    BY <2>1, ChainIs, Zenon DEF Header
  <2>3. TxSpends(Header(b)) \in SUBSET Txs
    BY <2>2 DEF TxSpends
  <2>4. \A c : e \notin Tells(c)
    BY <1>7 DEF Tells
  <2>5. CASE e.kind = "indexed"
    <3>1. Prev(b) = walletTip /\ b = x
      BY <1>3, <2>5 DEF Moved, IsConnect
    <3>2. /\ walletTip' = b /\ AddToWallet(TxSpends(Header(b)), Header(b).stakes, Len(b))
          /\ walletStakes' = walletStakes \cup Header(b).stakes
      BY <1>5, <2>5, Zenon DEF BlockConnected
    <3>3. StakedOn(b) = StakedOn(Prev(b)) \cup Header(b).stakes
      BY <1>4, <2>1, <3>1, StakedOnPrev
    <3>4. \A c : e \notin Stakes(c) => c \notin Header(b).stakes
      BY <1>2, <2>5 DEF Stakes, IsConnect
    <3>5. /\ walletTxs' \in SUBSET Txs /\ conflict' \in [Txs -> Nat]
          /\ \A c \in Txs : c \in walletTxs /\ conflict[c] = 0 /\ c \notin Header(b).stakes
                                => c \in walletTxs' /\ conflict'[c] = 0
      BY <2>2, <2>3, <3>2, AddIs, Zenon
    <3> QED BY <1>4, <2>4, <3>1, <3>2, <3>3, <3>4, <3>5, Zenon
  <2>6. CASE e.kind = "disconnect"
    <3>1. b = walletTip /\ Prev(b) = x
      BY <1>3, <2>6 DEF Moved, IsConnect
    <3>2. /\ walletTip' = Prev(b) /\ AddToWallet(TxSpends(Header(b)), {}, 0)
          /\ walletStakes' = walletStakes \ Header(b).stakes
      BY <1>5, <2>6, Zenon DEF BlockDisconnected
    <3>3. StakedOn(Prev(b)) = StakedOn(b) \ Header(b).stakes
      BY <1>3, <2>1, <3>1, StakedOnPrev, Zenon
    <3>4. /\ walletTxs' \in SUBSET Txs /\ conflict' \in [Txs -> Nat]
          /\ \A c \in Txs : c \in walletTxs /\ conflict[c] = 0
                                => c \in walletTxs' /\ conflict'[c] = 0
      <4> DEFINE cs == TxSpends(Header(b))
      <4>1. AddToWallet(cs, {}, 0) /\ cs \in SUBSET Txs
        BY <2>3, <3>2
      <4> HIDE DEF cs
      <4> QED BY <4>1, AddNone, Zenon
    <3> QED BY <1>4, <2>4, <3>1, <3>2, <3>3, <3>4, Zenon
  <2> QED BY <1>7, <2>5, <2>6
<1>8. CASE e.kind = "tx"
  <2>1. e.of \in SUBSET Txs
    BY <1>2, <1>8 DEF Events, BlockEvents, TxEvents, Markers
  <2>2. walletTip = x
    BY <1>3, <1>8 DEF Moved, IsConnect
  <2>3. AddToWallet(e.of, {}, 0) /\ walletTip' = walletTip /\ walletStakes' = walletStakes
    BY <1>5, <1>8
  <2>4. /\ walletTxs' \in SUBSET Txs /\ conflict' \in [Txs -> Nat]
        /\ \A c \in e.of : c \in walletTxs' /\ conflict'[c] = 0
        /\ \A c \in Txs : c \in walletTxs /\ conflict[c] = 0
                             => c \in walletTxs' /\ conflict'[c] = 0
    BY <2>1, <2>3, AddNone, Zenon
  <2>5. \A c : e \in Tells(c) => c \in e.of
    BY DEF Tells
  <2> QED BY <1>4, <2>2, <2>3, <2>4, <2>5, Zenon
<1> QED BY <1>5, <1>7, <1>8

LEMMA DrainedNode == NodeInv /\ QueueDrained => NodeInv'
<1> SUFFICES ASSUME NodeInv, QueueDrained PROVE NodeInv'
  OBVIOUS
<1> DEFINE e == Head(queue)
<1>1. /\ queue # <<>> /\ e.kind = "marker" /\ queue' = Tail(queue)
      /\ UNCHANGED <<tip, invalid, mempool, entries, walletTip, walletTxs, conflict, walletStakes>>
  BY DEF QueueDrained, chainVars, walletVars
<1>2. PICK x \in Chains : Moved(e, walletTip, x) /\ Leads(Tail(queue), x, tip)
  BY <1>1, TailIs
<1> HIDE DEF e
<1>3. walletTip = x
  BY <1>1, <1>2 DEF Moved, IsConnect
<1>4. \A c : e \notin Tells(c)
  BY <1>1, Zenon DEF Tells
<1>5. walletTxs \in SUBSET Txs /\ conflict \in [Txs -> Nat] /\ walletStakes = StakedOn(walletTip)
  BY DEF NodeInv, Typing, WalletInv
<1>6. \A c \in Txs : \/ c \in walletTxs /\ conflict[c] = 0 /\ e \notin Stakes(c)
                     \/ e \in Tells(c)
                     => c \in walletTxs' /\ conflict'[c] = 0
  BY <1>1, <1>4
<1>7. Leads(Tail(queue), walletTip', tip) /\ walletStakes' = StakedOn(walletTip')
  BY <1>1, <1>2, <1>3, <1>5
<1>8. e.kind # "connect" /\ walletTxs' \in SUBSET Txs /\ conflict' \in [Txs -> Nat]
  BY <1>1, <1>5
<1> QED BY <1>1, <1>6, <1>7, <1>8, PoppedNode DEF e

\* The thread puts its marker into the queue.
LEMMA SyncedNode == NodeInv /\ BlockUntilSynced => NodeInv'
<1> SUFFICES ASSUME NodeInv, BlockUntilSynced PROVE NodeInv'
  OBVIOUS
<1> DEFINE e == Event("marker", NoBlock)
<1>1. /\ queue' = queue \/ queue' = Append(queue, e)
      /\ UNCHANGED <<tip, invalid, mempool, entries, walletTip, walletTxs, conflict, walletStakes>>
  BY DEF BlockUntilSynced, chainVars, walletVars
<1>2. e \in Events /\ e.kind = "marker"
  BY EventIs, Zenon
<1>3. Typing /\ WalletInv /\ MempoolInv /\ IndexInv /\ queue \in Seq(Events)
  BY DEF NodeInv, Typing
<1> HIDE DEF e
<1>4. /\ queue' \in Seq(Events) /\ Leads(queue', walletTip, tip)
      /\ \A c : /\ Has(queue', Stakes(c)) <=> Has(queue, Stakes(c))
                /\ Has(queue', Creates(c)) <=> Has(queue, Creates(c))
  BY <1>1, <1>2, <1>3, AppendIs, Zenon DEF WalletInv
<1>5. \A c, a : Last(queue, CreatesIn(c, a), Creates(c)) => Last(queue', CreatesIn(c, a), Creates(c))
  BY <1>1, <1>2, AppendIs, Zenon
<1>6. \A c : Last(queue, Tells(c), Stakes(c)) => Last(queue', Tells(c), Stakes(c))
  BY <1>1, <1>2, AppendIs, Zenon
<1>7. Typing'
  BY <1>1, <1>3, <1>4 DEF Typing
<1>8. WalletInv'
  BY <1>1, <1>3, <1>4 DEF WalletInv
<1>9. MempoolInv'
  BY <1>1, <1>3, <1>4, <1>6 DEF MempoolInv, Heard
<1>10. IndexInv'
  BY <1>1, <1>3, <1>4, <1>5, SameIndex
<1> QED BY <1>7, <1>8, <1>9, <1>10 DEF NodeInv

\* The block submitted joins the chain of its parent.
LEMMA NewBlockChain ==
    ASSUME TemplateInv, pc \in Submitting
    PROVE  /\ NewBlock(template) \in Chains /\ template.prev \in Chains
           /\ Len(NewBlock(template)) = Len(template.prev) + 1
<1> DEFINE t == template
           cs == t.inputs \cup t.txs
           hd == [name |-> Staked, time |-> 0, creates |-> {}, bits |-> NextBits(t.prev),
                  spends |-> cs, stakes |-> t.inputs]
<1>1. t \in Templates /\ \A c \in cs : Unspent(t.prev, c)
  BY Zenon DEF TemplateInv
<1>2. t.prev \in Chains /\ cs \in SUBSET Txs /\ t.inputs \in SUBSET cs
  BY <1>1 DEF Templates
<1>3. \A c \in cs : ~Spent(t.prev, c)
  BY <1>1, Zenon DEF Unspent
<1>4. NewBlock(t) = Append(t.prev, hd)
  BY DEF NewBlock
<1> HIDE DEF cs
<1>5. hd = [name |-> Staked, time |-> 0, creates |-> {}, bits |-> NextBits(t.prev),
            spends |-> cs, stakes |-> t.inputs]
  BY Zenon
<1> HIDE DEF hd, t
<1>6. Append(t.prev, hd) \in Chains /\ Len(Append(t.prev, hd)) = Len(t.prev) + 1
  BY <1>2, <1>3, <1>5, NewChain, Zenon
<1> QED BY <1>2, <1>4, <1>6 DEF t

LEMMA StutterNode ==
    ASSUME NodeInv, UNCHANGED <<chainVars, queue, entries, walletVars>> PROVE NodeInv'
<1>1. UNCHANGED <<tip, invalid, mempool, queue, entries, walletTip, walletTxs, conflict,
                  walletStakes>>
  BY DEF chainVars, walletVars
<1>2. Typing /\ WalletInv /\ MempoolInv /\ IndexInv
  BY DEF NodeInv
<1>3. Typing' /\ WalletInv'
  BY <1>1, <1>2 DEF Typing, WalletInv
<1>4. MempoolInv'
  BY <1>1, <1>2 DEF MempoolInv, Heard
<1>5. IndexInv'
  BY <1>1, <1>2, Zenon DEF IndexInv, Recorded
<1> QED BY <1>3, <1>4, <1>5 DEF NodeInv

LEMMA ProcessNode == IndInv /\ ProcessNewBlock => NodeInv'
<1> SUFFICES ASSUME IndInv, ProcessNewBlock PROVE NodeInv'
  OBVIOUS
<1>1. NodeInv /\ TemplateInv /\ pc \in Submitting
  BY DEF IndInv, PassInv, ProcessNewBlock, Submitting
<1>2. NewBlock(template) \in Chains
  BY <1>1, NewBlockChain
<1>3. UNCHANGED <<invalid, entries, walletVars>>
  BY DEF ProcessNewBlock
<1>4. CASE SetTip(NewBlock(template))
  <2>1. invalid' = NoBlock \/ (invalid' \in Tree /\ Len(invalid') >= 2)
    BY <1>1, <1>3 DEF NodeInv, Typing
  <2> QED BY <1>1, <1>2, <1>3, <1>4, <2>1, SetTipNode
<1>5. CASE UNCHANGED <<tip, mempool, queue>>
  BY <1>1, <1>3, <1>5, StutterNode DEF chainVars
<1> QED BY <1>4, <1>5 DEF ProcessNewBlock

\* All of them.
LEMMA NextNode == IndInv /\ [Next]_vars => NodeInv'
<1> SUFFICES ASSUME IndInv, [Next]_vars PROVE NodeInv'
  OBVIOUS
<1>0. NodeInv
  BY DEF IndInv
<1>1. CASE UNCHANGED <<chainVars, queue, entries, walletVars>>
  BY <1>0, <1>1, StutterNode
<1>2. CASE ActivateBestChain \/ InvalidateBlock \/ TransactionAddedToMempool \/ CommitTransaction
  BY <1>0, <1>2, ActivateNode, InvalidateNode, AddedNode, CommitNode
<1>3. CASE Callback
  BY <1>0, <1>3, IndexConnectedNode, WalletNotifiedNode, DrainedNode DEF Callback
<1>4. CASE BlockUntilSynced \/ ProcessNewBlock
  BY <1>0, <1>4, SyncedNode, ProcessNode
<1>5. CASE CollectStakeCandidates \/ ReadBits \/ SearchStart \/ NothingFound
  BY <1>1, <1>5 DEF CollectStakeCandidates, ReadBits, SearchStart, NothingFound
<1>9. CASE SearchCoin \/ SearchKernel
  BY <1>1, <1>9, Zenon DEF SearchCoin, SearchKernel
<1>6. CASE BuildRefused \/ CoinStakeTooEarly \/ CreateNewBlock
  BY <1>1, <1>6 DEF BuildRefused, CoinStakeTooEarly, CreateNewBlock
<1>7. CASE IncrementExtraNonce \/ ProcessBlockFound \/ Rest
  BY <1>1, <1>7 DEF IncrementExtraNonce, ProcessBlockFound, Rest
<1>8. CASE UNCHANGED vars
  BY <1>1, <1>8 DEF vars
<1> QED BY <1>2, <1>3, <1>4, <1>5, <1>6, <1>7, <1>8, <1>9 DEF Next, Pass

-----------------------------------------------------------------------------
(***************************************************************************)
(* The pass.                                                               *)
(***************************************************************************)

\* The marker that the queue has reached is the one the thread waits for.
LEMMA DrainedWaited == IndInv /\ QueueDrained => pc = "wait" /\ ~Has(Tail(queue), Markers)
<1> SUFFICES ASSUME IndInv, QueueDrained PROVE pc = "wait" /\ ~Has(Tail(queue), Markers)
  OBVIOUS
<1> DEFINE e == Head(queue)
           r == Tail(queue)
<1>1. NodeInv /\ MarkerInv /\ queue # <<>> /\ e.kind = "marker"
  BY DEF IndInv, PassInv, QueueDrained
<1>2. e \in Events /\ r \in Seq(Events) /\ queue = <<e>> \o r
  BY <1>1, TailIs
<1> HIDE DEF e, r
<1>3. e \in Markers
  BY <1>1, <1>2 DEF Events, BlockEvents, TxEvents, Markers
<1>4. <<e>> \in Seq(Events) /\ Has(<<e>>, Markers)
  BY <1>2, <1>3, OneEvent, Zenon
<1>5. Has(queue, Markers) /\ ~Has(r, Markers)
  BY <1>1, <1>2, <1>4, HasConcat, OneConcat, Zenon DEF MarkerInv
<1> QED BY <1>1, <1>5 DEF MarkerInv, r

\* The search and its candidates.
LEMMA NextSearch == IndInv /\ [Next]_vars => SearchInv'
<1> SUFFICES ASSUME IndInv, [Next]_vars PROVE SearchInv'
  OBVIOUS
<1>0. SearchInv /\ KernelInv
  BY DEF IndInv, PassInv
<1>1. CASE UNCHANGED <<candidates, refusals>> /\ todo' = todo /\ seen' = seen /\ pc' = pc
  BY <1>0, <1>1, Zenon DEF SearchInv
<1>2. CASE UNCHANGED <<candidates, refusals>> /\ todo' = todo /\ pc' \in Pcs \ Searching
  BY <1>0, <1>2 DEF SearchInv, Searching
<1>3. CASE CollectStakeCandidates
  <2>1. todo' = todo /\ pc' = "bits"
    BY <1>3 DEF CollectStakeCandidates
  <2>2. CASE StakeCandidatesCurrent /\ UNCHANGED <<candidates, refusals>>
    BY <1>0, <2>1, <2>2 DEF StakeCandidatesCurrent, SearchInv, Searching, Pcs
  <2>3. CASE candidates' = Collected /\ refusals' = refusals \ AvailableCoins
    <3>1. walletTip \in Chains
      BY WalletTipTyped DEF IndInv
    <3>2. candidates' \in Candidates /\ candidates'.collected /\ candidates'.coins = AvailableCoins
      BY <2>3, <3>1, AvailableTyped DEF Collected, Candidates
    <3> QED BY <1>0, <2>1, <2>3, <3>2, Zenon DEF SearchInv, Searching, Pcs
  <2> QED BY <1>3, <2>2, <2>3 DEF CollectStakeCandidates
<1>4. CASE ReadBits
  BY <1>0, <1>4 DEF ReadBits, SearchInv, Searching, Pcs
<1>5. CASE SearchStart
  <2>1. candidates.coins \in SUBSET Txs
    BY <1>0 DEF SearchInv, Candidates
  <2> QED BY <1>0, <1>5, <2>1 DEF SearchStart, SearchInv, Searching, Pcs
<1>6. CASE SearchCoin
  <2>1. PICK c \in todo :
          IF Unspent(tip, c) /\ Matured(tip, c, seen.height)
          THEN seen' = Examining(c, CreatedIn(tip, c)) /\ pc' = "hash"
          ELSE UNCHANGED <<seen, pc>>
    BY <1>6, Zenon DEF SearchCoin
  <2>2. UNCHANGED <<candidates, refusals>> /\ todo' \subseteq todo /\ pc = "search"
    BY <1>6 DEF SearchCoin
  <2>a. Unspent(tip, c) => CreatedIn(tip, c) # NoBlock
    BY UnspentFrom DEF IndInv, NodeInv, Typing
  <2>3. pc' = "search" \/ (pc' = "hash" /\ seen'.coin = c /\ seen'.from # NoBlock)
    BY <2>1, <2>2, <2>a DEF Examining
  <2> QED BY <1>0, <2>1, <2>2, <2>3, Zenon DEF SearchInv, Searching, Pcs
<1>13. CASE SearchKernel
  <2>1. /\ UNCHANGED <<candidates, refusals>> /\ todo' \subseteq todo
        /\ pc' \in {"search", "create"} /\ pc = "hash"
    BY <1>13 DEF SearchKernel
  <2> QED BY <1>0, <2>1 DEF SearchInv, Searching, Pcs
<1>7. CASE BuildRefused
  <2>1. /\ candidates' = [candidates EXCEPT !.collected = FALSE] /\ pc' = "sync"
        /\ refusals' \subseteq refusals \cup {kernel.coin} /\ todo' = todo /\ pc = "create"
    BY <1>7 DEF BuildRefused
  <2>2. candidates' \in Candidates /\ candidates'.collected = FALSE
    BY <1>0, <2>1, Zenon DEF SearchInv, Candidates
  <2>3. kernel.coin \in Txs
    BY <1>0, <2>1 DEF SearchInv, KernelInv, Candidates
  <2> QED BY <1>0, <2>1, <2>2, <2>3 DEF SearchInv, Searching, Pcs
<1>8. CASE ActivateBestChain \/ InvalidateBlock \/ TransactionAddedToMempool \/ CommitTransaction
  BY <1>1, <1>8, Zenon DEF ActivateBestChain, InvalidateBlock, TransactionAddedToMempool,
     CommitTransaction, passVars
<1>9. CASE IndexConnected \/ WalletNotified \/ UNCHANGED vars
  BY <1>1, <1>9, Zenon DEF IndexConnected, WalletNotified, vars, passVars
<1>10. CASE QueueDrained \/ Rest \/ BlockUntilSynced
  BY <1>2, <1>10 DEF QueueDrained, Rest, BlockUntilSynced, passVars, Pcs, Searching
<1>11. CASE NothingFound \/ CoinStakeTooEarly \/ CreateNewBlock
  BY <1>2, <1>11, Zenon DEF NothingFound, CoinStakeTooEarly, CreateNewBlock, Pcs, Searching
<1>12. CASE IncrementExtraNonce \/ ProcessBlockFound \/ ProcessNewBlock
  BY <1>2, <1>12 DEF IncrementExtraNonce, ProcessBlockFound, ProcessNewBlock, Pcs, Searching
<1> QED BY <1>3, <1>4, <1>5, <1>6, <1>7, <1>8, <1>9, <1>10, <1>11, <1>12,
           <1>13
        DEF Next, Pass, Callback

\* The kernel.
LEMMA NextKernel == IndInv /\ [Next]_vars => KernelInv'
<1> SUFFICES ASSUME IndInv, [Next]_vars PROVE KernelInv'
  OBVIOUS
<1>0. SearchInv /\ KernelInv /\ tip \in Chains
  BY DEF IndInv, PassInv, NodeInv, Typing
<1>1. CASE UNCHANGED <<candidates, kernel>> /\ pc' = pc
  BY <1>0, <1>1 DEF KernelInv
<1>2. CASE kernel' = kernel /\ pc # "create" /\ pc' # "create"
  BY <1>0, <1>2 DEF KernelInv
<1>3. CASE kernel' = NoKernel /\ pc' # "create"
  BY <1>3 DEF KernelInv
<1>4. CASE SearchKernel
  <2>1. /\ candidates' = candidates /\ pc = "hash"
        /\ seen.coin \in candidates.coins /\ seen.from # NoBlock
    BY <1>0, <1>4, Zenon DEF SearchKernel, SearchInv
  <2>2. CASE /\ kernel' = [coin |-> seen.coin, from |-> seen.from, tip |-> seen.tip]
             /\ pc' = "create"
    <3>1. kernel'.coin = seen.coin /\ kernel'.from = seen.from
      BY <2>2
    <3>2. kernel' # NoKernel
      BY <2>1, <3>1 DEF NoKernel
    <3> QED BY <2>1, <2>2, <3>1, <3>2 DEF KernelInv
  <2>3. CASE kernel' = kernel /\ pc' = "search"
    BY <1>2, <2>1, <2>3
  <2> QED BY <1>4, <2>2, <2>3 DEF SearchKernel
<1>5. CASE ActivateBestChain \/ InvalidateBlock \/ TransactionAddedToMempool \/ CommitTransaction
  BY <1>1, <1>5, Zenon DEF ActivateBestChain, InvalidateBlock, TransactionAddedToMempool,
     CommitTransaction, passVars
<1>6. CASE IndexConnected \/ WalletNotified \/ UNCHANGED vars
  BY <1>1, <1>6, Zenon DEF IndexConnected, WalletNotified, vars, passVars
<1>7. CASE CollectStakeCandidates \/ ReadBits \/ SearchStart \/ NothingFound \/ Rest \/ BlockUntilSynced
  BY <1>2, <1>7 DEF CollectStakeCandidates, ReadBits, SearchStart, NothingFound, Rest,
     BlockUntilSynced, passVars
<1>11. CASE SearchCoin
  <2>1. kernel' = kernel /\ pc = "search" /\ pc' \in {"search", "hash"}
    BY <1>11 DEF SearchCoin
  <2> QED BY <1>2, <2>1
<1>8. CASE IncrementExtraNonce \/ ProcessBlockFound \/ ProcessNewBlock
  BY <1>2, <1>8 DEF IncrementExtraNonce, ProcessBlockFound, ProcessNewBlock
<1>9. CASE BuildRefused \/ CoinStakeTooEarly \/ CreateNewBlock
  BY <1>3, <1>9, Zenon DEF BuildRefused, CoinStakeTooEarly, CreateNewBlock
<1>10. CASE QueueDrained
  BY <1>2, <1>10, DrainedWaited DEF QueueDrained, passVars
<1> QED BY <1>4, <1>5, <1>6, <1>7, <1>8, <1>9, <1>10, <1>11 DEF Next, Pass, Callback

\* The markers.
LEMMA NextMarker == IndInv /\ [Next]_vars => MarkerInv'
<1> SUFFICES ASSUME IndInv, [Next]_vars PROVE MarkerInv'
  OBVIOUS
<1>0. /\ NodeInv /\ MarkerInv /\ queue \in Seq(Events) /\ tip \in Chains
      /\ TemplateInv
  BY DEF IndInv, PassInv, NodeInv, Typing
<1>1. CASE queue' = queue /\ (pc' = pc \/ pc # "wait")
  BY <1>0, <1>1 DEF MarkerInv
<1>2. ASSUME NEW b \in Chains, SetTip(b), pc' = pc \/ pc # "wait" PROVE MarkerInv'
  <2>1. queue' = queue \o Moves(b)
    BY <1>2 DEF SetTip
  <2> DEFINE m == Moves(b)
  <2>2. m \in Seq(Events) /\ ~Has(m, Markers)
    BY <1>0, <1>2, MovesIs, Zenon
  <2>3. AtMostOne(m, Markers)
    BY <2>2 DEF Has, AtMostOne
  <2> HIDE DEF m
  <2>4. Has(queue \o m, Markers) <=> Has(queue, Markers)
    BY <1>0, <2>2, HasConcat
  <2>5. AtMostOne(queue \o m, Markers)
    BY <1>0, <2>2, <2>3, OneConcat DEF MarkerInv
  <2> QED BY <1>0, <1>2, <2>1, <2>4, <2>5 DEF MarkerInv, m
<1>3. ASSUME NEW c \in Txs, queue' = Append(queue, Event("tx", {c})), pc' = pc PROVE MarkerInv'
  <2> DEFINE e == Event("tx", {c})
  <2>1. e \in Events /\ e.kind = "tx"
    BY EventIs
  <2>a. queue' = Append(queue, e)
    BY <1>3
  <2> HIDE DEF e
  <2>2. queue' = queue \o <<e>>
    BY <1>0, <2>1, <2>a, AppendSeq
  <2>3. e \notin Markers
    BY <2>1 DEF Markers
  <2>4. <<e>> \in Seq(Events) /\ ~Has(<<e>>, Markers) /\ AtMostOne(<<e>>, Markers)
    BY <2>1, <2>3, OneEvent
  <2>5. AtMostOne(queue \o <<e>>, Markers) /\ (Has(queue \o <<e>>, Markers) <=> Has(queue, Markers))
    BY <1>0, <2>4, HasConcat, OneConcat, Zenon DEF MarkerInv
  <2> QED BY <1>0, <1>3, <2>2, <2>5, Zenon DEF MarkerInv
<1>4. ASSUME queue # <<>>, queue' = Tail(queue), pc' = pc \/ ~Has(Tail(queue), Markers)
      PROVE  MarkerInv'
  <2> DEFINE e == Head(queue)
             r == Tail(queue)
  <2>1. e \in Events /\ r \in Seq(Events) /\ queue = <<e>> \o r
    BY <1>0, <1>4, TailIs
  <2> HIDE DEF e, r
  <2>2. <<e>> \in Seq(Events)
    BY <2>1
  <2>3. AtMostOne(r, Markers) /\ (Has(r, Markers) => Has(queue, Markers))
    BY <1>0, <2>1, <2>2, HasConcat, OneConcat, Zenon DEF MarkerInv
  <2> QED BY <1>0, <1>4, <2>3 DEF MarkerInv, r
<1>5. CASE IndexConnected
  <2> DEFINE e == Head(queue)
             r == Tail(queue)
             i == [e EXCEPT !.kind = "indexed"]
  <2>1. queue # <<>> /\ e.kind = "connect" /\ queue' = <<i>> \o r /\ pc' = pc
    BY <1>5 DEF IndexConnected
  <2>2. e \in Events /\ r \in Seq(Events) /\ queue = <<e>> \o r
    BY <1>0, <2>1, TailIs
  <2> HIDE DEF e, r
  <2>3. i \in Events /\ i.kind = "indexed"
    BY <2>1, <2>2 DEF Events, BlockEvents, TxEvents, Markers
  <2> HIDE DEF i
  <2>4. i \notin Markers
    BY <2>3 DEF Markers
  <2>5. /\ <<e>> \in Seq(Events) /\ <<i>> \in Seq(Events)
        /\ ~Has(<<i>>, Markers) /\ AtMostOne(<<i>>, Markers)
    BY <2>2, <2>3, <2>4, OneEvent, Zenon
  <2>6. AtMostOne(r, Markers) /\ (Has(r, Markers) => Has(queue, Markers))
    BY <1>0, <2>2, <2>5, HasConcat, OneConcat, Zenon DEF MarkerInv
  <2>7. AtMostOne(queue', Markers) /\ (Has(queue', Markers) <=> Has(r, Markers))
    BY <2>1, <2>2, <2>5, <2>6, HasConcat, OneConcat, Zenon
  <2> QED BY <1>0, <2>1, <2>6, <2>7 DEF MarkerInv
<1>6. CASE BlockUntilSynced
  <2> DEFINE e == Event("marker", NoBlock)
  <2>1. pc = "sync" /\ ((queue' = queue /\ pc' = "collect") \/ (queue' = Append(queue, e) /\ pc' = "wait"))
    BY <1>6 DEF BlockUntilSynced
  <2>2. e \in Events /\ ~Has(queue, Markers)
    BY <1>0, <2>1, EventIs, Zenon DEF MarkerInv
  <2> HIDE DEF e
  <2>3. <<e>> \in Seq(Events) /\ AtMostOne(<<e>>, Markers)
    BY <2>2, OneEvent
  <2>4. AtMostOne(queue \o <<e>>, Markers)
    BY <1>0, <2>2, <2>3, OneConcat, Zenon DEF MarkerInv
  <2>5. Append(queue, e) = queue \o <<e>>
    BY <1>0, <2>2, AppendSeq
  <2> QED BY <1>0, <2>1, <2>2, <2>4, <2>5, Zenon DEF MarkerInv
<1>7. CASE ActivateBestChain
  <2>1. PICK b \in Tree : SetTip(b)
    BY <1>7 DEF ActivateBestChain
  <2> QED BY <1>2, <1>7, <2>1, TreeTyped DEF ActivateBestChain
<1>8. CASE InvalidateBlock
  <2>1. SetTip(Prev(tip)) /\ pc' = pc
    BY <1>8 DEF InvalidateBlock
  <2>2. NodeInv'
    BY <1>0, <1>8, InvalidateNode
  <2>3. Prev(tip) \in Chains
    BY <2>1, <2>2 DEF NodeInv, Typing, SetTip
  <2> QED BY <1>2, <2>1, <2>3
<1>9. CASE TransactionAddedToMempool
  <2>1. PICK c \in Shared : Spendable(tip, c) /\ queue' = Append(queue, Event("tx", {c}))
    BY <1>9, Zenon DEF TransactionAddedToMempool
  <2>2. c \in Txs /\ pc' = pc
    BY <1>0, <1>9, <2>1, UnspentInTxs DEF Spendable, TransactionAddedToMempool
  <2> QED BY <1>3, <2>1, <2>2
<1>10. CASE CommitTransaction
  <2>1. PICK c \in AvailableCoins : queue' = queue \/ queue' = Append(queue, Event("tx", {c}))
    BY <1>10, Zenon DEF CommitTransaction
  <2>2. c \in Txs /\ pc' = pc
    BY <1>10, AvailableTyped DEF CommitTransaction
  <2> QED BY <1>1, <1>3, <2>1, <2>2
<1>11. CASE WalletNotified
  BY <1>4, <1>11 DEF WalletNotified
<1>12. CASE QueueDrained
  BY <1>4, <1>12, DrainedWaited DEF QueueDrained
<1>13. CASE ProcessNewBlock
  <2>1. pc = "process" /\ pc \in Submitting
    BY <1>13 DEF ProcessNewBlock, Submitting
  <2>2. NewBlock(template) \in Chains
    BY <1>0, <2>1, NewBlockChain
  <2>3. SetTip(NewBlock(template)) \/ queue' = queue
    BY <1>13 DEF ProcessNewBlock
  <2> QED BY <1>1, <1>2, <2>1, <2>2, <2>3
<1>14. CASE CollectStakeCandidates \/ ReadBits \/ SearchStart \/ NothingFound
  BY <1>1, <1>14 DEF CollectStakeCandidates, ReadBits, SearchStart, NothingFound
<1>17. CASE SearchCoin \/ SearchKernel
  BY <1>1, <1>17, Zenon DEF SearchCoin, SearchKernel
<1>15. CASE BuildRefused \/ CoinStakeTooEarly \/ CreateNewBlock
  BY <1>1, <1>15 DEF BuildRefused, CoinStakeTooEarly, CreateNewBlock
<1>16. CASE IncrementExtraNonce \/ ProcessBlockFound \/ Rest \/ UNCHANGED vars
  BY <1>1, <1>16 DEF IncrementExtraNonce, ProcessBlockFound, Rest, vars
<1> QED BY <1>5, <1>6, <1>7, <1>8, <1>9, <1>10, <1>11, <1>12, <1>13, <1>14, <1>15, <1>16,
           <1>17
        DEF Next, Pass, Callback

\* The template.
LEMMA NextTemplate == IndInv /\ [Next]_vars => TemplateInv'
<1> SUFFICES ASSUME IndInv, [Next]_vars PROVE TemplateInv'
  OBVIOUS
<1>0. NodeInv /\ SearchInv /\ KernelInv /\ TemplateInv
  BY DEF IndInv, PassInv
<1>1. CASE template' = template /\ pc' = pc
  BY <1>0, <1>1, Zenon DEF TemplateInv
<1>2. CASE template' = template /\ pc \notin Submitting /\ pc' \notin Submitting
  BY <1>0, <1>2, Zenon DEF TemplateInv
<1>3. CASE template' = NoTemplate /\ pc' \notin Submitting
  BY <1>3, Zenon DEF TemplateInv
<1>4. CASE CreateNewBlock
  <2>1. PICK extra \in SUBSET Combinable, txs \in SUBSET mempool :
          IF TestBlockValidity({kernel.coin} \cup extra, txs)
          THEN /\ template' = [prev |-> tip, coin |-> kernel.coin, from |-> kernel.from,
                               inputs |-> {kernel.coin} \cup extra, txs |-> txs, height |-> 0]
               /\ pc' = "nonce"
          ELSE pc' = "dead" /\ UNCHANGED template
    BY <1>4, Zenon DEF CreateNewBlock
  <2>2. pc = "create" /\ KernelStands
    BY <1>4, Zenon DEF CreateNewBlock
  <2> DEFINE cs == {kernel.coin} \cup extra
  <2>3. CASE /\ TestBlockValidity(cs, txs)
             /\ template' = [prev |-> tip, coin |-> kernel.coin, from |-> kernel.from,
                             inputs |-> cs, txs |-> txs, height |-> 0]
             /\ pc' = "nonce"
    <3>1. tip \in Chains /\ mempool \subseteq Txs /\ entries \in [Txs -> Tree \cup {NoBlock}]
      BY <1>0 DEF NodeInv, Typing
    <3>2. \A c \in cs : Unspent(tip, c)
      BY <2>3, Zenon DEF TestBlockValidity, Spendable
    <3>3. \A c \in txs : Unspent(tip, c)
      BY <1>0 DEF NodeInv, MempoolInv, Spendable
    <3>4. cs \in SUBSET Txs /\ txs \in SUBSET Txs /\ kernel.coin \in Txs /\ kernel.coin \in cs
      BY <3>1, <3>2, UnspentInTxs
    <3>5. kernel.from \in Tree /\ Meets(kernel.coin, kernel.from, tip, NextBits(tip))
      BY <2>2, <3>1, <3>4, Zenon DEF KernelStands, SourceAgrees
    <3>8. kernel.coin \in Header(kernel.from).creates
      BY <1>0, <2>2, <3>4, Zenon DEF KernelStands, SourceAgrees, NodeInv, IndexInv
    <3> HIDE DEF cs
    <3>6. template' \in Templates
      BY <2>3, <3>1, <3>4, <3>5, Zenon DEF Templates
    <3>7. /\ template'.prev = tip /\ template'.coin = kernel.coin /\ template'.from = kernel.from
          /\ template'.inputs = cs /\ template'.txs = txs
      BY <2>3
    <3> QED BY <2>3, <3>2, <3>3, <3>4, <3>5, <3>6, <3>7, <3>8, Zenon DEF TemplateInv, Submitting
  <2>4. CASE pc' = "dead" /\ UNCHANGED template
    BY <1>2, <2>2, <2>4 DEF Submitting
  <2> QED BY <2>1, <2>3, <2>4, Zenon
<1>5. CASE IncrementExtraNonce
  <2>1. /\ pc = "nonce" /\ pc' = "check"
        /\ template' = [template EXCEPT !.height = Len(template.prev) + 1]
    BY <1>5 DEF IncrementExtraNonce
  <2>2. /\ template \in Templates /\ template.coin \in template.inputs
        /\ template.coin \in Header(template.from).creates
        /\ Meets(template.coin, template.from, template.prev, NextBits(template.prev))
        /\ \A c \in template.inputs \cup template.txs : Unspent(template.prev, c)
    BY <1>0, <2>1 DEF TemplateInv, Submitting
  <2>a. template.prev \in Chains
    BY <2>2, Zenon DEF Templates
  <2>b. Len(template.prev) \in Nat
    BY <2>a, ChainIs, Zenon
  <2>3. template.prev \in Chains /\ Len(template.prev) + 1 \in Nat
    BY <2>a, <2>b
  <2>4. /\ template' \in Templates /\ template'.height = Len(template.prev) + 1
        /\ template'.prev = template.prev /\ template'.coin = template.coin
        /\ template'.from = template.from /\ template'.inputs = template.inputs
        /\ template'.txs = template.txs
    BY <2>1, <2>2, <2>3 DEF Templates
  <2> QED BY <2>1, <2>2, <2>4 DEF TemplateInv, Submitting
<1>6. CASE ProcessBlockFound
  <2>1. CASE pc = "check" /\ pc' = "process" /\ template' = template
    BY <1>0, <2>1, Zenon DEF TemplateInv, Submitting
  <2>2. CASE pc' = "sync" /\ template' = NoTemplate
    BY <1>3, <2>2 DEF Submitting
  <2> QED BY <1>6, <2>1, <2>2 DEF ProcessBlockFound
<1>7. CASE ProcessNewBlock
  BY <1>3, <1>7 DEF ProcessNewBlock, Submitting
<1>8. CASE QueueDrained
  <2>1. pc = "wait" /\ pc' = "collect" /\ template' = template
    BY <1>8, DrainedWaited DEF QueueDrained, passVars
  <2> QED BY <1>2, <2>1 DEF Submitting
<1>9. CASE ActivateBestChain \/ InvalidateBlock \/ TransactionAddedToMempool \/ CommitTransaction
  BY <1>1, <1>9, Zenon DEF ActivateBestChain, InvalidateBlock, TransactionAddedToMempool,
     CommitTransaction, passVars
<1>10. CASE IndexConnected \/ WalletNotified \/ UNCHANGED vars
  BY <1>1, <1>10, Zenon DEF IndexConnected, WalletNotified, vars, passVars
<1>11. CASE CollectStakeCandidates \/ ReadBits \/ SearchStart \/ NothingFound
  BY <1>2, <1>11 DEF CollectStakeCandidates, ReadBits, SearchStart, NothingFound, Submitting
<1>13. CASE SearchCoin \/ SearchKernel
  <2>1. template' = template /\ pc \in {"search", "hash"} /\ pc' \in {"search", "hash", "create"}
    BY <1>13, Zenon DEF SearchCoin, SearchKernel
  <2> QED BY <1>2, <2>1 DEF Submitting
<1>12. CASE BuildRefused \/ CoinStakeTooEarly \/ Rest \/ BlockUntilSynced
  BY <1>2, <1>12 DEF BuildRefused, CoinStakeTooEarly, Rest, BlockUntilSynced, passVars, Submitting
<1> QED BY <1>4, <1>5, <1>6, <1>7, <1>8, <1>9, <1>10, <1>11, <1>12, <1>13 DEF Next, Pass, Callback

LEMMA NextInd == IndInv /\ [Next]_vars => IndInv'
BY NextNode, NextSearch, NextKernel, NextTemplate, NextMarker DEF IndInv, PassInv

LEMMA PassInd == Spec => []IndInv
<1>1. Init => IndInv
  BY InitNode, InitPass DEF IndInv
<1> QED BY <1>1, NextInd, PTL DEF Spec

-----------------------------------------------------------------------------
(***************************************************************************)
(* What follows.                                                           *)
(***************************************************************************)

LEMMA IndTypes == IndInv => TypeOK
<1> SUFFICES ASSUME IndInv PROVE TypeOK
  OBVIOUS
<1>1. Typing /\ WalletInv /\ SearchInv /\ KernelInv /\ TemplateInv
  BY DEF IndInv, NodeInv, PassInv
<1>2. mempool \subseteq Txs /\ walletTxs \subseteq Txs /\ todo \subseteq Txs /\ refusals \subseteq Txs
  BY <1>1, Zenon DEF Typing, SearchInv
<1>3. candidates.coins \subseteq Txs
  BY <1>1 DEF SearchInv, Candidates
<1>4. walletStakes \subseteq Txs
  <2>1. walletTip \in Chains /\ walletStakes = StakedOn(walletTip)
    BY <1>1, WalletTipTyped DEF IndInv, WalletInv
  <2>2. \A h \in 1 .. Len(walletTip) : walletTip[h].stakes \subseteq Txs
    BY <2>1, ChainIs, Zenon
  <2> QED BY <2>1, <2>2 DEF StakedOn
<1>5. \A t \in Txs : entries[t] \in Tree \cup {NoBlock} /\ conflict[t] \in Nat
  BY <1>1 DEF Typing
<1>6. \A i \in 1 .. Len(queue) :
          queue[i].kind \in {"connect", "indexed", "disconnect", "tx", "marker"}
  <2>1. \A e \in Events : e.kind \in {"connect", "indexed", "disconnect", "tx", "marker"}
    BY DEF Events, BlockEvents, TxEvents, Markers
  <2>2. queue \in Seq(Events)
    BY <1>1 DEF Typing
  <2> QED BY <2>1, <2>2
<1>7. template # NoTemplate <=> pc \in {"nonce", "check", "process"}
  <2>1. CASE pc \in Submitting
    <3>1. template \in Templates
      BY <1>1, <2>1, Zenon DEF TemplateInv
    <3>2. template.prev # NoBlock
      BY <3>1, ChainIs DEF Templates
    <3> QED BY <2>1, <3>2 DEF NoTemplate, Submitting
  <2>2. CASE pc \notin Submitting
    BY <1>1, <2>2, Zenon DEF TemplateInv, Submitting
  <2> QED BY <2>1, <2>2
<1>8. pc \in Pcs /\ (kernel # NoKernel <=> pc = "create")
  BY <1>1 DEF SearchInv, KernelInv
<1>9. {mempool, walletTxs, walletStakes, candidates.coins, todo, refusals} \subseteq SUBSET Txs
  BY <1>2, <1>3, <1>4
<1> QED BY <1>5, <1>6, <1>7, <1>8, <1>9, Zenon DEF TypeOK

LEMMA IndReturned == IndInv => OrphanedStakesReturned
BY NoEvent DEF IndInv, NodeInv, WalletInv, OrphanedStakesReturned

LEMMA IndBuilt == IndInv => BuiltBlockValid
<1> SUFFICES ASSUME IndInv, pc = "create", KernelStands,
                    NEW extra \in SUBSET Combinable, NEW txs \in SUBSET mempool,
                    ({kernel.coin} \cup extra) \cap Unheard = {}
             PROVE  TestBlockValidity({kernel.coin} \cup extra, txs)
  BY Zenon DEF BuiltBlockValid
<1> DEFINE cs == {kernel.coin} \cup extra
<1>1. Typing /\ MempoolInv /\ tip \in Chains /\ queue \in Seq(Events)
  BY DEF IndInv, NodeInv, Typing
<1>2. ASSUME NEW c \in cs PROVE Spendable(tip, c) /\ ~IsSpent(c)
  <2>1. CASE c = kernel.coin
    BY <2>1, Zenon DEF KernelStands
  <2>2. CASE c \in extra
    <3>1. c \in Old /\ ~IsSpent(c) /\ Unspent(tip, c)
      BY <2>2, Zenon DEF Combinable
    <3> QED BY <1>1, <3>1, OldMature
  <2> QED BY <2>1, <2>2
<1>3. ASSUME NEW c \in cs, c \in txs PROVE FALSE
  <2>1. Heard(c) \/ Last(queue, Tells(c), Stakes(c))
    BY <1>1, <1>3 DEF MempoolInv
  <2>2. CASE Heard(c)
    BY <1>2, <2>2, Zenon DEF Heard, IsSpent, LiveTx
  <2>3. CASE Last(queue, Tells(c), Stakes(c))
    <3>1. PICK i \in 1 .. Len(queue) : queue[i] \in Tells(c)
      BY <2>3 DEF Last
    <3>2. queue[i].kind = "tx" /\ c \in queue[i].of
      BY <3>1 DEF Tells
    <3>3. c \in Told(queue[i])
      BY <3>2 DEF Told
    <3>4. c \in Unheard
      BY <3>3 DEF Unheard
    <3> QED BY <3>4
  <2> QED BY <2>1, <2>2, <2>3
<1> QED BY <1>2, <1>3 DEF TestBlockValidity

\* GetKernelSource for a block on top of p, on a node that has the index.
LEMMA SourceIs ==
    ASSUME NEW p, NEW c, tip # NoBlock, FindFork(tip, p) # NoBlock
    PROVE  LET fork == FindFork(tip, p)
               found == GetTransaction(c, TRUE)
               side == Searched(p, fork, c, StakeMinAge)
           IN  /\ found # NoBlock /\ IsAncestor(found, fork)
                     => GetKernelSource(p, c, StakeMinAge, TRUE) = found
               /\ ~(found # NoBlock /\ IsAncestor(found, fork)) /\ side # {}
                     => \E h \in side : GetKernelSource(p, c, StakeMinAge, TRUE) = GetAncestor(p, h)
<1> DEFINE fork == FindFork(tip, p)
           found == GetTransaction(c, TRUE)
           side == Searched(p, fork, c, StakeMinAge)
           source == GetKernelSource(p, c, StakeMinAge, TRUE)
<1>a. ForkOf(p) = fork
  BY Zenon DEF ForkOf
<1>b. source = IF ForkOf(p) = NoBlock THEN NoBlock
               ELSE IF Usable(found, ForkOf(p)) THEN found
               ELSE IF Searched(p, ForkOf(p), c, StakeMinAge) # {}
               THEN GetAncestor(p, CHOOSE h \in Searched(p, ForkOf(p), c, StakeMinAge) : TRUE)
               ELSE UndoSource(ForkOf(p), c)
  BY DEF GetKernelSource
<1>1. source = IF Usable(found, fork) THEN found
               ELSE IF side # {} THEN GetAncestor(p, CHOOSE h \in side : TRUE)
               ELSE UndoSource(fork, c)
  BY <1>a, <1>b, Zenon
<1>2. side # {} => (CHOOSE h \in side : TRUE) \in side
  OBVIOUS
<1> HIDE DEF fork, found, side, source
<1>3. found # NoBlock /\ IsAncestor(found, fork) => source = found
  BY <1>1, Zenon DEF Usable
<1>4. ASSUME ~(found # NoBlock /\ IsAncestor(found, fork)), side # {}
      PROVE  \E h \in side : source = GetAncestor(p, h)
  BY <1>1, <1>2, <1>4, Zenon DEF Usable
<1> QED BY <1>3, <1>4, Zenon DEF fork, found, side, source

\* Once the index has recorded every block, the source of a coin is found: on the
\* chain up to the fork by the index, above it by the search.
LEMMA SourceFound ==
    ASSUME NodeInv, IndexCaughtUp, NEW p \in Chains, NEW c, Unspent(p, c)
    PROVE  GetKernelSource(p, c, StakeMinAge, TRUE) = CreatedIn(p, c)
<1> DEFINE f == FindFork(tip, p)
           n == Len(f)
           found == GetTransaction(c, TRUE)
           side == Searched(p, f, c, StakeMinAge)
<1>1. Typing /\ IndexInv /\ tip \in Chains /\ queue \in Seq(Events) /\ c \in Txs
  BY UnspentInTxs DEF NodeInv, Typing
<1>2. p \in Seq(Headers) /\ Len(p) \in Nat /\ tip # NoBlock /\ Len(tip) \in Nat
  BY <1>1, ChainIs, Zenon
<1>3. n \in 1 .. Len(p) /\ n \in 1 .. Len(tip) /\ f \in Chains /\ f = GetAncestor(p, n)
  BY <1>1, ChainFork
<1>4. f # NoBlock
  BY <1>3, ChainIs, Zenon
<1>5. /\ found # NoBlock /\ IsAncestor(found, f)
          => GetKernelSource(p, c, StakeMinAge, TRUE) = found
      /\ ~(found # NoBlock /\ IsAncestor(found, f)) /\ side # {}
          => \E h \in side : GetKernelSource(p, c, StakeMinAge, TRUE) = GetAncestor(p, h)
  BY <1>2, <1>4, SourceIs, Zenon
<1>6. PICK h \in 1 .. Len(p) : c \in p[h].creates
  BY CreatedSomewhere DEF Unspent
<1>7. CreatedIn(p, c) = GetAncestor(p, h)
  BY <1>6, CreatedAt, Zenon
<1>8. \A k \in 1 .. Len(p) : c \in p[k].creates => k = h
  BY <1>6, ChainIs, Zenon
<1>9. ASSUME found # NoBlock, IsAncestor(found, f) PROVE found = CreatedIn(p, c)
  <2>1. found \in Chains /\ c \in Header(found).creates
    <3>1. CASE entries[c] # NoBlock
      <4>1. entries[c] \in Tree /\ c \in Header(entries[c]).creates
        BY <1>1, <3>1, Zenon DEF Typing, IndexInv
      <4> QED BY <3>1, <4>1, TreeTyped, Zenon DEF GetTransaction
    <3>2. CASE entries[c] = NoBlock /\ Unspent(tip, c) /\ found = CreatedIn(tip, c)
      <4>1. PICK k \in 1 .. Len(tip) : c \in tip[k].creates
        BY <3>2, CreatedSomewhere, Zenon DEF Unspent
      <4>2. CreatedIn(tip, c) = GetAncestor(tip, k)
        BY <1>1, <4>1, CreatedAt, Zenon
      <4>3. GetAncestor(tip, k) \in Chains /\ Header(GetAncestor(tip, k)) = tip[k]
        BY <1>1, ChainAncestor
      <4> QED BY <3>2, <4>1, <4>2, <4>3, Zenon
    <3> QED BY <1>9, <3>1, <3>2, Zenon DEF GetTransaction, Unspent
  <2> HIDE DEF found
  <2>2. found \in Seq(Headers) /\ Len(found) \in Nat /\ Len(found) >= 1
    BY <2>1, ChainIs, Zenon
  <2>3. Len(found) <= n /\ GetAncestor(f, Len(found)) = found
    BY <1>9 DEF IsAncestor
  <2> DEFINE k == Len(found)
  <2>4. k \in 1 .. n /\ k \in 1 .. Len(p)
    BY <1>2, <1>3, <2>2, <2>3
  <2>5. GetAncestor(GetAncestor(p, n), k) = GetAncestor(p, k)
    BY <1>2, <1>3, <2>4, AncestorOfAncestor
  <2>6. found = GetAncestor(p, k)
    BY <1>3, <2>3, <2>5
  <2>7. Header(found) = p[k]
    BY <2>4, <2>6, ChainAncestor
  <2>8. k = h
    BY <1>8, <2>1, <2>4, <2>7
  <2> QED BY <1>7, <2>6, <2>8
<1>10. CASE found # NoBlock /\ IsAncestor(found, f)
  <2> HIDE DEF found, side
  <2> QED BY <1>5, <1>9, <1>10, Zenon
<1>11. ASSUME ~(found # NoBlock /\ IsAncestor(found, f))
       PROVE  GetKernelSource(p, c, StakeMinAge, TRUE) = CreatedIn(p, c)
  <2>1. h > n
    <3> SUFFICES ASSUME h <= n PROVE FALSE
      BY <1>3
    <3>1. h \in 1 .. n
      BY <1>3
    <3>2. p[h] = tip[h] /\ GetAncestor(p, h) = GetAncestor(tip, h)
      BY <1>1, <3>1, ChainFork
    <3>3. h \in 1 .. Len(tip)
      BY <1>2, <1>3, <3>1
    <3>4. ~Has(queue, Creates(c)) /\ ~Last(queue, CreatesIn(c, GetAncestor(tip, h)), Creates(c))
      BY Zenon DEF IndexCaughtUp, Has, Last, Creates, CreatesIn
    <3>5. entries[c] = GetAncestor(tip, h)
      BY <1>1, <1>6, <3>2, <3>3, <3>4, Zenon DEF IndexInv, Recorded
    <3>6. entries[c] = GetAncestor(p, h)
      BY <3>2, <3>5
    <3>7. GetAncestor(GetAncestor(p, n), h) = GetAncestor(p, h)
      BY <1>2, <1>3, <3>1, AncestorOfAncestor
    <3>8. GetAncestor(p, h) \in Chains /\ Len(GetAncestor(p, h)) = h
      BY ChainAncestor
    <3>a. entries[c] # NoBlock
      BY <3>6, <3>8, ChainIs, Zenon
    <3>9. entries[c] # NoBlock /\ found = entries[c]
      BY <3>a, Zenon DEF GetTransaction
    <3> HIDE DEF found
    <3>10. IsAncestor(found, f)
      BY <1>3, <3>1, <3>6, <3>7, <3>8, <3>9 DEF IsAncestor
    <3> QED BY <1>11, <3>9, <3>10
  <2>2. h \in side
    <3>1. p[h].time = 0
      BY ChainIs, Zenon
    <3>2. h \in n + 1 .. Len(p)
      BY <1>2, <1>3, <2>1
    <3>3. StakeMinAge \in Nat
      BY StakingPassAssumption
    <3> QED BY <1>6, <3>1, <3>2, <3>3 DEF Searched, SideHeights
  <2>3. \A k \in side : k = h
    <3>1. \A k \in n + 1 .. Len(p) : k \in 1 .. Len(p)
      BY <1>2, <1>3
    <3> QED BY <1>8, <3>1 DEF Searched, SideHeights
  <2>4. side # {}
    BY <2>2
  <2> HIDE DEF found, side
  <2> QED BY <1>5, <1>7, <1>11, <2>3, <2>4, Zenon
<1> QED BY <1>10, <1>11, Zenon

LEMMA IndSubmitted == IndInv => SubmittedBlockAccepted
<1> SUFFICES ASSUME IndInv, pc = "process", IndexCaughtUp, ~Failed(template.prev)
             PROVE  AcceptBlock(template)
  BY DEF SubmittedBlockAccepted
<1> DEFINE p == template.prev
           c == template.coin
<1>1. NodeInv /\ TemplateInv
  BY DEF IndInv, PassInv
<1>2. /\ template \in Templates /\ c \in template.inputs
      /\ c \in Header(template.from).creates
      /\ Meets(c, template.from, p, NextBits(p))
      /\ \A d \in template.inputs \cup template.txs : Unspent(p, d)
      /\ template.height = Len(p) + 1
  BY <1>1, Zenon DEF TemplateInv, Submitting
<1>3. p \in Chains /\ Unspent(p, c) /\ template.from \in Tree
  BY <1>2, Zenon DEF Templates
<1>4. template.from \in Chains /\ template.from # NoBlock
  BY <1>3, TreeTyped, ChainIs, Zenon
<1> HIDE DEF p, c
<1>a. IsAncestor(template.from, p)
  BY <1>2, Zenon DEF Meets
<1>b. CreatedIn(p, c) = template.from
  BY <1>2, <1>3, <1>4, <1>a, CreatedOn, Zenon
<1>5. GetKernelSource(p, c, StakeMinAge, TRUE) = CreatedIn(p, c)
  BY <1>1, <1>3, SourceFound, Zenon
<1>6. GetKernelSource(p, c, StakeMinAge, TRUE) = template.from
  BY <1>5, <1>b, Zenon
<1> QED BY <1>2, <1>4, <1>6, Zenon DEF AcceptBlock, p, c

\* Every variable has its type, and a kernel and a template are there exactly while
\* they are needed, wherever the queue overtakes the thread.
THEOREM PassTypes == Spec => []TypeOK
BY PassInd, IndTypes, PTL

\* The block that BuildCoinStake and addPackageTxs put together passes
\* TestBlockValidity unless it stakes a coin that a transaction spends of which the
\* wallet is still to be told: the exception of CreateNewBlock ends no thread for
\* any other reason.
THEOREM PassBuilds == Spec => []BuiltBlockValid
BY PassInd, IndBuilt, PTL

\* ProcessNewBlock accepts the block submitted, whatever became of the tip since the
\* block was built, if the index has no block left to write and the parent was not
\* invalidated: CheckStakeKernelHash, which refuses a source that is not on the
\* parent's chain, left BuildCoinStake no other block than the coin's own.
THEOREM PassSubmits == Spec => []SubmittedBlockAccepted
BY PassInd, IndSubmitted, PTL

\* Once the wallet's callbacks have run, the coins it counts as staked are those
\* staked on the active chain: blockDisconnected gives back all the others.
THEOREM PassReturns == Spec => []OrphanedStakesReturned
BY PassInd, IndReturned, PTL

\* BuildCoinStake refuses a coin that the wallet has spent once for every time that
\* the wallet has offered it.
THEOREM PassCostsOne == Spec => SpentCoinCostsOnePass
<1>1. IndInv /\ [Next]_vars
        => [BuildRefused /\ IsSpent(kernel.coin) => kernel.coin \notin refusals]_vars
  <2> SUFFICES ASSUME IndInv, BuildRefused PROVE kernel.coin \notin refusals
    OBVIOUS
  <2>1. pc = "create" /\ SearchInv /\ KernelInv
    BY DEF BuildRefused, IndInv, PassInv
  <2>2. candidates.collected /\ kernel.coin \in candidates.coins
    BY <2>1, Zenon DEF SearchInv, KernelInv, Searching
  <2> QED BY <2>1, <2>2 DEF SearchInv
<1> QED BY <1>1, PassInd, PTL DEF Spec, SpentCoinCostsOnePass
=============================================================================
