-------------------------- MODULE StakeModifierProof --------------------------
(***************************************************************************)
(* For every set of headers, modifier interval and cache limit: a kernel   *)
(* is given the modifier of the chain its block builds on, whatever the    *)
(* cache holds and whichever chain is active, every stored modifier can be *)
(* computed again, and all of them have Rounds bits.                       *)
(***************************************************************************)
EXTENDS StakeModifier, SequenceTheorems, WellFoundedInduction, TLAPS

-----------------------------------------------------------------------------
(* GetAncestor, for blocks of any height over any set of headers.          *)

\* An ancestor is a block, at the height asked for.
LEMMA AncestorType ==
    ASSUME NEW S, NEW b \in Seq(S), NEW h \in 0 .. Len(b)
    PROVE  GetAncestor(b, h) \in Seq(S) /\ Len(GetAncestor(b, h)) = h
BY SubSeqProperties DEF GetAncestor

\* A block is its own ancestor at its own height.
LEMMA SelfAncestor ==
    ASSUME NEW S, NEW b \in Seq(S)
    PROVE  GetAncestor(b, Len(b)) = b
BY SubSeqFull DEF GetAncestor

\* The ancestor of an ancestor is the block's own at that height.
LEMMA AncestorOfAncestor ==
    ASSUME NEW S, NEW b \in Seq(S), NEW h \in 1 .. Len(b), NEW k \in 1 .. h
    PROVE  GetAncestor(GetAncestor(b, h), k) = GetAncestor(b, k)
<1>1. SubSeq(SubSeq(b, 1, h), 1, k) = SubSeq(b, 1 + 1 - 1, 1 + k - 1)
  BY SubSeqOfSubSeq
<1> QED BY <1>1 DEF GetAncestor

\* Blocks whose chains share block a have the same ancestors up to it.
LEMMA SharedPath ==
    ASSUME NEW S, NEW b \in Seq(S), NEW a \in Seq(S), Len(a) >= 1, IsAncestor(a, b),
           NEW k \in 1 .. Len(a)
    PROVE  GetAncestor(b, k) = GetAncestor(a, k)
<1>1. Len(a) \in 1 .. Len(b)
  BY DEF IsAncestor
<1> QED BY <1>1, AncestorOfAncestor DEF IsAncestor

\* A child has its parent's ancestors, and its parent for pprev.
LEMMA ChildPath ==
    ASSUME NEW S, NEW b \in Seq(S), NEW x \in S
    PROVE  /\ Append(b, x) \in Seq(S)
           /\ Len(Append(b, x)) = Len(b) + 1
           /\ Prev(Append(b, x)) = b
           /\ \A k \in 1 .. Len(b) : GetAncestor(Append(b, x), k) = GetAncestor(b, k)
<1> DEFINE c == Append(b, x)
<1>1. c \in Seq(S) /\ Len(c) = Len(b) + 1 /\ \A i \in 1 .. Len(b) : c[i] = b[i]
  BY AppendProperties
<1>2. ASSUME NEW k \in 0 .. Len(b)
      PROVE  SubSeq(c, 1, k) = SubSeq(b, 1, k)
  <2>1. /\ SubSeq(c, 1, k) \in Seq(S) /\ Len(SubSeq(c, 1, k)) = k
        /\ \A i \in 1 .. k : SubSeq(c, 1, k)[i] = c[i]
    BY <1>1, SubSeqProperties
  <2>2. /\ SubSeq(b, 1, k) \in Seq(S) /\ Len(SubSeq(b, 1, k)) = k
        /\ \A i \in 1 .. k : SubSeq(b, 1, k)[i] = b[i]
    BY SubSeqProperties
  <2> QED BY <1>1, <2>1, <2>2, SeqEqual
<1>3. SubSeq(b, 1, Len(b)) = b
  BY SubSeqFull
<1>4. Prev(c) = b
  BY <1>1, <1>2, <1>3 DEF Prev
<1> QED BY <1>1, <1>2, <1>4 DEF GetAncestor

\* A nonempty set of heights has a least element.
LEMMA LeastHeight ==
    ASSUME NEW T, T \subseteq Nat, T # {}
    PROVE  \E m \in T : \A k \in T : m <= k
<1>1. PICK m \in T : \A k \in T : ~(<<k, m>> \in OpToRel(<, Nat))
  BY NatLessThanWellFounded, WFMin, Zenon
<1>2. ASSUME NEW k \in T PROVE m <= k
  <2>1. k \in Nat /\ m \in Nat
    OBVIOUS
  <2>2. ~(k < m)
    BY <1>1, <2>1, Zenon DEF OpToRel
  <2> QED BY <2>1, <2>2
<1> QED BY <1>2

\* A set of heights that is not empty and bounded has a greatest element.
LEMMA GreatestHeight ==
    ASSUME NEW n \in Nat, NEW T, T \subseteq 0 .. n, T # {}
    PROVE  \E m \in T : \A k \in T : k <= m
<1> DEFINE D == {d \in 0 .. n : n - d \in T}
<1>1. D # {}
  <2>1. PICK t \in T : TRUE
    BY Zenon
  <2>2. n - t \in D
    BY <2>1
  <2> QED BY <2>2, Zenon
<1>2. D \subseteq Nat
  OBVIOUS
<1> HIDE DEF D
<1>3. PICK d \in D : \A k \in D : d <= k
  BY <1>1, <1>2, LeastHeight, Zenon
<1>4. n - d \in T /\ d \in 0 .. n
  BY <1>3 DEF D
<1>5. ASSUME NEW k \in T PROVE k <= n - d
  <2>1. n - k \in D
    BY DEF D
  <2>2. d <= n - k
    BY <1>3, <2>1
  <2> QED BY <1>4, <2>2
<1> QED BY <1>4, <1>5

-----------------------------------------------------------------------------

AllHeaders == Headers \cup {Genesis}

\* The block index is a tree: it has every ancestor of every block in it.
Tree ==
    /\ Blocks \subseteq Seq(AllHeaders)
    /\ GenesisBlock \in Blocks
    /\ tip \in Blocks
    /\ \A b \in Blocks : /\ Len(b) >= 1
                         /\ \A h \in 1 .. Len(b) : GetAncestor(b, h) \in Blocks

\* A cache entry is what the walk from the coin's block to the entry's block
\* found: the first eligible block on that path.
EntryOK(from, e) ==
    /\ from \in Blocks
    /\ e.block \in Blocks
    /\ IsAncestor(from, e.block)
    /\ Len(from) < Len(e.block)
    /\ e.modifier = index[e.block].modifier
    /\ Eligible(from, e.block)
    /\ \A k \in Len(from) + 1 .. Len(e.block) - 1 : ~Eligible(from, GetAncestor(e.block, k))

CacheOK == \A from \in DOMAIN cache : EntryOK(from, cache[from])

-----------------------------------------------------------------------------
(***************************************************************************)
(* The lookup.                                                             *)
(***************************************************************************)

\* A block of the index is a chain of headers that has at least genesis.
LEMMA BlockIs ==
    ASSUME Tree, NEW b \in Blocks
    PROVE  b \in Seq(AllHeaders) /\ Len(b) \in Nat /\ Len(b) >= 1
<1>1. b \in Seq(AllHeaders) /\ Len(b) >= 1
  BY DEF Tree
<1> QED BY <1>1

\* The two ways of stepping forward visit the same blocks.
LEMMA StepsAgree ==
    ASSUME Tree, NEW prev \in Blocks, NEW h \in 1 .. Len(prev)
    PROVE  StepTo(prev, h) = GetAncestor(prev, h)
BY SharedPath DEF Tree, StepTo, OnActiveChain, Contains

\* Cached or not, an entry that is used is right for the chain it is used on.
LEMMA EntryAnswers ==
    ASSUME Tree, NEW prev \in Blocks, NEW from \in Blocks, NEW e, EntryOK(from, e),
           IsAncestor(from, prev), IsAncestor(e.block, prev)
    PROVE  ChainModifier(prev, from) = [ok |-> TRUE, modifier |-> e.modifier]
<1> DEFINE n == Len(e.block)
           ends == {h \in Len(from) + 1 .. Len(prev) : Eligible(from, GetAncestor(prev, h))}
           first == CHOOSE h \in ends : \A k \in ends : h <= k
<1>1. /\ prev \in Seq(AllHeaders) /\ from \in Seq(AllHeaders) /\ e.block \in Seq(AllHeaders)
      /\ Len(prev) \in Nat /\ Len(from) \in Nat /\ n \in Nat
      /\ n >= 1 /\ n <= Len(prev) /\ Len(from) < n
  <2>1. e.block \in Blocks /\ Len(from) < n
    BY DEF EntryOK
  <2>2. n <= Len(prev)
    BY DEF IsAncestor
  <2>3. prev \in Seq(AllHeaders) /\ from \in Seq(AllHeaders) /\ e.block \in Seq(AllHeaders) /\ n >= 1
    BY <2>1 DEF Tree
  <2> QED BY <2>1, <2>2, <2>3
<1>2. \A k \in 1 .. n : GetAncestor(prev, k) = GetAncestor(e.block, k)
  BY <1>1, SharedPath
<1>3. GetAncestor(prev, n) = e.block
  BY DEF IsAncestor
<1>4. n \in ends
  BY <1>1, <1>3 DEF EntryOK
<1>5. ASSUME NEW k \in ends PROVE n <= k
  <2>1. CASE k < n
    <3>1. k \in Len(from) + 1 .. n - 1
      BY <1>1, <2>1
    <3>2. GetAncestor(prev, k) = GetAncestor(e.block, k)
      BY <1>1, <1>2, <3>1
    <3> QED BY <3>1, <3>2 DEF EntryOK
  <2> QED BY <1>1, <2>1
<1>6. first = n
  <2>1. first \in ends /\ \A k \in ends : first <= k
    BY <1>4, <1>5
  <2> QED BY <1>1, <1>4, <1>5, <2>1
<1> QED BY <1>3, <1>4, <1>6, Zenon DEF ChainModifier, EntryOK

\* A walk that ends somewhere has found what a cache entry says.
LEMMA WalkFinds ==
    ASSUME Tree, NEW prev \in Blocks, NEW from \in Blocks, IsAncestor(from, prev),
           Walk(prev, from) # <<>>
    PROVE  LET b == Walk(prev, from)
           IN  /\ EntryOK(from, [modifier |-> index[b].modifier, block |-> b])
               /\ IsAncestor(b, prev)
<1> DEFINE hs == Len(from) + 1 .. Len(prev)
           h == CHOOSE h \in hs : WalkEnds(prev, from, h)
           b == Walk(prev, from)
<1>1. /\ prev \in Seq(AllHeaders) /\ from \in Seq(AllHeaders)
      /\ Len(prev) \in Nat /\ Len(from) \in Nat /\ Len(from) >= 1
  BY BlockIs
<1>2. h \in hs /\ WalkEnds(prev, from, h) /\ b = StepTo(prev, h)
  BY DEF Walk
<1> HIDE DEF h
<1>3. h \in 1 .. Len(prev) /\ Len(from) < h
  BY <1>1, <1>2
<1>4. b = GetAncestor(prev, h)
  BY <1>2, <1>3, StepsAgree
<1>5. Len(b) = h /\ b \in Blocks
  BY <1>1, <1>3, <1>4, AncestorType DEF Tree
<1>6. IsAncestor(b, prev)
  BY <1>3, <1>4, <1>5 DEF IsAncestor
<1>7. IsAncestor(from, b)
  <2>1. GetAncestor(b, Len(from)) = GetAncestor(prev, Len(from))
    BY <1>1, <1>3, <1>4, AncestorOfAncestor
  <2> QED BY <1>1, <1>3, <1>5, <2>1 DEF IsAncestor
<1>8. ASSUME NEW k \in Len(from) + 1 .. h - 1
      PROVE  ~Eligible(from, GetAncestor(b, k))
  <2>1. k \in 1 .. h /\ k \in 1 .. Len(prev)
    BY <1>1, <1>3
  <2>2. GetAncestor(b, k) = StepTo(prev, k)
    BY <1>1, <1>3, <1>4, <2>1, AncestorOfAncestor, StepsAgree
  <2> QED BY <1>2, <2>2 DEF WalkEnds
<1>9. Eligible(from, b)
  BY <1>2 DEF WalkEnds
<1> HIDE DEF b
<1>10. EntryOK(from, [modifier |-> index[b].modifier, block |-> b])
  BY <1>3, <1>5, <1>7, <1>8, <1>9 DEF EntryOK
<1> QED BY <1>6, <1>10 DEF b

\* A walk that ends nowhere has passed no eligible block.
LEMMA WalkMisses ==
    ASSUME Tree, NEW prev \in Blocks, NEW from \in Blocks, IsAncestor(from, prev),
           Walk(prev, from) = <<>>
    PROVE  ChainModifier(prev, from) = NoModifier
<1> DEFINE hs == Len(from) + 1 .. Len(prev)
           ends == {h \in hs : Eligible(from, GetAncestor(prev, h))}
<1>1. /\ prev \in Seq(AllHeaders) /\ from \in Seq(AllHeaders)
      /\ Len(prev) \in Nat /\ Len(from) \in Nat /\ Len(from) >= 1
  BY BlockIs
<1>2. \A h \in hs : h \in 1 .. Len(prev) /\ StepTo(prev, h) = GetAncestor(prev, h)
  BY <1>1, StepsAgree
<1>3. SUFFICES ASSUME ends # {} PROVE FALSE
  BY DEF ChainModifier
<1>4. PICK m \in ends : \A k \in ends : m <= k
  <2>1. ends \subseteq Nat
    BY <1>1
  <2> QED BY <1>3, <2>1, LeastHeight, Zenon
<1>5. WalkEnds(prev, from, m)
  BY <1>1, <1>2, <1>4 DEF WalkEnds
<1>6. PICK h \in hs : WalkEnds(prev, from, h) /\ Walk(prev, from) = StepTo(prev, h)
  BY <1>4, <1>5, Zenon DEF Walk
<1>7. Len(StepTo(prev, h)) >= 1
  BY <1>1, <1>2, AncestorType
<1> QED BY <1>6, <1>7

\* With a sound cache every lookup answers for its own chain.
LEMMA LookupOK ==
    ASSUME Tree, CacheOK
    PROVE  KernelModifierOfChain
<1> SUFFICES ASSUME NEW prev \in Blocks, NEW from \in Blocks
             PROVE  GetKernelStakeModifier(prev, from) = ChainModifier(prev, from)
  BY DEF KernelModifierOfChain
<1>1. CASE ~IsAncestor(from, prev)
  BY <1>1 DEF GetKernelStakeModifier, ChainModifier
<1>2. CASE IsAncestor(from, prev) /\ CacheUsable(prev, from)
  <2>1. from \in DOMAIN cache /\ Maintained = cache
    BY <1>2 DEF CacheUsable, Maintained, EmptyCache
  <2> QED BY <1>2, <2>1, EntryAnswers DEF CacheOK, CacheUsable, GetKernelStakeModifier
<1>3. CASE IsAncestor(from, prev) /\ ~CacheUsable(prev, from) /\ Walk(prev, from) = <<>>
  BY <1>3, WalkMisses DEF GetKernelStakeModifier
<1>4. CASE IsAncestor(from, prev) /\ ~CacheUsable(prev, from) /\ Walk(prev, from) # <<>>
  <2> DEFINE b == Walk(prev, from)
             e == [modifier |-> index[b].modifier, block |-> b]
  <2>1. EntryOK(from, e) /\ IsAncestor(e.block, prev)
    BY <1>4, WalkFinds
  <2> HIDE DEF b
  <2>2. ChainModifier(prev, from) = [ok |-> TRUE, modifier |-> index[b].modifier]
    BY <1>4, <2>1, EntryAnswers
  <2> QED BY <1>4, <2>2 DEF GetKernelStakeModifier, b
<1> QED BY <1>1, <1>2, <1>3, <1>4

-----------------------------------------------------------------------------
(***************************************************************************)
(* The steps.                                                              *)
(***************************************************************************)

\* A cache entry stays right while the index only grows.
LEMMA EntryKept ==
    ASSUME Tree, NEW from, NEW e, EntryOK(from, e),
           Blocks \subseteq Blocks', \A b \in Blocks : index'[b] = index[b]
    PROVE  EntryOK(from, e)'
<1>1. /\ from \in Blocks /\ e.block \in Blocks /\ Len(e.block) \in Nat
      /\ Len(from) \in Nat /\ Len(from) >= 1 /\ Len(e.block) >= 1
  <2>1. from \in Blocks /\ e.block \in Blocks
    BY DEF EntryOK
  <2> QED BY <2>1, BlockIs
<1>2. ASSUME NEW x \in Blocks PROVE Eligible(from, x)' = Eligible(from, x)
  BY DEF Eligible
<1>3. ASSUME NEW k \in Len(from) + 1 .. Len(e.block) - 1
      PROVE  ~Eligible(from, GetAncestor(e.block, k))'
  <2>1. k \in 1 .. Len(e.block)
    BY <1>1
  <2>2. GetAncestor(e.block, k) \in Blocks
    BY <1>1, <2>1 DEF Tree
  <2> QED BY <1>2, <2>2 DEF EntryOK
<1>4. Eligible(from, e.block)'
  BY <1>1, <1>2 DEF EntryOK
<1> QED BY <1>1, <1>3, <1>4 DEF EntryOK

\* A lookup leaves only sound entries in the cache.
LEMMA CacheUpdated ==
    ASSUME Tree, CacheOK, NEW prev \in Blocks, NEW from \in Blocks, UpdateCache(prev, from)
    PROVE  \A f \in DOMAIN cache' : EntryOK(f, cache'[f])
<1>1. \A f \in DOMAIN Maintained : EntryOK(f, Maintained[f])
  BY DEF CacheOK, Maintained, EmptyCache
<1>2. CASE ~IsAncestor(from, prev)
  BY <1>2 DEF UpdateCache, CacheOK
<1>3. CASE IsAncestor(from, prev) /\ cache' = Maintained
  BY <1>1, <1>3
<1>4. CASE IsAncestor(from, prev) /\ Walk(prev, from) # <<>> /\ cache' # Maintained
  <2> DEFINE b == Walk(prev, from)
             e == [modifier |-> index[b].modifier, block |-> b]
  <2>1. EntryOK(from, e)
    BY <1>4, WalkFinds
  <2>2. cache' = Add(Maintained, from, e)
    BY <1>4 DEF UpdateCache
  <2> HIDE DEF e
  <2> QED BY <1>1, <2>1, <2>2 DEF Add
<1> QED BY <1>2, <1>3, <1>4 DEF UpdateCache

\* Storing a child of a known block keeps the tree, and changes no entry.
LEMMA TreeGrows ==
    ASSUME Tree, NEW prev \in Blocks, NEW h \in Headers, Append(prev, h) \notin Blocks,
           Store(Append(prev, h)), tip' = tip
    PROVE  /\ Tree'
           /\ Blocks' = Blocks \cup {Append(prev, h)}
           /\ \A b \in Blocks : index'[b] = index[b]
<1> DEFINE c == Append(prev, h)
<1>1. prev \in Seq(AllHeaders) /\ h \in AllHeaders /\ Len(prev) \in Nat /\ Len(prev) >= 1
  BY BlockIs DEF AllHeaders
<1>2. /\ c \in Seq(AllHeaders) /\ Len(c) = Len(prev) + 1
      /\ \A k \in 1 .. Len(prev) : GetAncestor(c, k) = GetAncestor(prev, k)
  BY <1>1, ChildPath
<1>3. GetAncestor(c, Len(c)) = c
  BY <1>2, SelfAncestor, Zenon
<1> HIDE DEF c
<1>4. Blocks' = Blocks \cup {c} /\ \A b \in Blocks : index'[b] = index[b]
  BY Zenon DEF Store, Add, Blocks, c
<1>5. ASSUME NEW k \in 1 .. Len(c) PROVE GetAncestor(c, k) \in Blocks'
  <2>1. CASE k = Len(c)
    BY <1>3, <1>4, <2>1
  <2>2. CASE k # Len(c)
    <3>1. k \in 1 .. Len(prev)
      BY <1>1, <1>2, <2>2
    <3> QED BY <1>2, <1>4, <3>1 DEF Tree
  <2> QED BY <2>1, <2>2
<1>6. Tree'
  <2>1. Blocks' \subseteq Seq(AllHeaders) /\ GenesisBlock \in Blocks' /\ tip' \in Blocks'
    BY <1>2, <1>4 DEF Tree
  <2>2. ASSUME NEW b \in Blocks
        PROVE  Len(b) >= 1 /\ \A k \in 1 .. Len(b) : GetAncestor(b, k) \in Blocks'
    BY <1>4 DEF Tree
  <2>3. Len(c) >= 1 /\ \A k \in 1 .. Len(c) : GetAncestor(c, k) \in Blocks'
    BY <1>1, <1>2, <1>5
  <2>4. \A b \in Blocks' : Len(b) >= 1 /\ \A k \in 1 .. Len(b) : GetAncestor(b, k) \in Blocks'
    BY <1>4, <2>2, <2>3
  <2> QED BY <2>1, <2>4 DEF Tree
<1> QED BY <1>4, <1>6 DEF c

\* What a lookup and a stored block leave behind, together.
LEMMA GrowKeeps ==
    ASSUME Tree, Blocks \subseteq Blocks', \A b \in Blocks : index'[b] = index[b],
           \A f \in DOMAIN cache' : EntryOK(f, cache'[f])
    PROVE  CacheOK'
BY EntryKept DEF CacheOK

Sound == Tree /\ CacheOK

LEMMA SoundInit == Init => Sound
<1> SUFFICES ASSUME Init PROVE Sound
  OBVIOUS
<1>1. Blocks = {GenesisBlock} /\ tip = GenesisBlock /\ DOMAIN cache = {}
  BY DEF Init, Blocks, Single, EmptyCache
<1>2. GenesisBlock \in Seq(AllHeaders) /\ Len(GenesisBlock) = 1
  BY DEF GenesisBlock, AllHeaders
<1>3. GetAncestor(GenesisBlock, 1) = GenesisBlock
  BY <1>2, SelfAncestor, Zenon
<1>4. Tree
  BY <1>1, <1>2, <1>3 DEF Tree
<1>5. CacheOK
  BY <1>1 DEF CacheOK
<1> QED BY <1>4, <1>5 DEF Sound

LEMMA SoundNext == Sound /\ [Next]_vars => Sound'
<1> SUFFICES ASSUME Sound, [Next]_vars PROVE Sound'
  OBVIOUS
<1> USE DEF Sound
<1>1. ASSUME NEW prev \in Blocks, NEW h \in Headers, AcceptWork(prev, h)
      PROVE  Sound'
  <2>1. /\ Tree' /\ Blocks \subseteq Blocks' /\ \A b \in Blocks : index'[b] = index[b]
    BY <1>1, TreeGrows DEF AcceptWork, NewBlock
  <2>2. \A f \in DOMAIN cache' : EntryOK(f, cache'[f])
    BY <1>1 DEF AcceptWork, CacheOK
  <2> QED BY <2>1, <2>2, GrowKeeps
<1>2. ASSUME NEW prev \in Blocks, NEW h \in Headers, NEW from \in Blocks,
             AcceptStake(prev, h, from)
      PROVE  Sound'
  <2>1. /\ Tree' /\ Blocks \subseteq Blocks' /\ \A b \in Blocks : index'[b] = index[b]
    BY <1>2, TreeGrows DEF AcceptStake, NewBlock
  <2>2. \A f \in DOMAIN cache' : EntryOK(f, cache'[f])
    BY <1>2, CacheUpdated DEF AcceptStake
  <2> QED BY <2>1, <2>2, GrowKeeps
<1>3. ASSUME NEW prev \in Blocks, NEW from \in Blocks, UpdateCache(prev, from),
             UNCHANGED <<index, tip>>
      PROVE  Sound'
  <2>1. Tree' /\ Blocks' = Blocks
    BY <1>3 DEF Tree, Blocks, GenesisBlock
  <2>2. \A f \in DOMAIN cache' : EntryOK(f, cache'[f])
    BY <1>3, CacheUpdated
  <2> QED BY <1>3, <2>1, <2>2, GrowKeeps
<1>4. CASE ActivateBestChain
  <2>1. Tree'
    BY <1>4 DEF ActivateBestChain, Tree, Blocks, GenesisBlock
  <2>2. Blocks' = Blocks /\ index' = index /\ cache' = cache
    BY <1>4 DEF ActivateBestChain, Blocks
  <2>3. \A f \in DOMAIN cache' : EntryOK(f, cache'[f])
    BY <2>2 DEF CacheOK
  <2> QED BY <2>1, <2>2, <2>3, GrowKeeps
<1>5. CASE Restart
  <2>1. PICK S \in SUBSET Blocks :
           /\ GenesisBlock \in S
           /\ \A b \in S : \A h \in 1 .. Len(b) : GetAncestor(b, h) \in S
           /\ index' = [b \in S |-> index[b]]
           /\ tip' \in S
    BY <1>5 DEF Restart
  <2>2. Blocks' = S
    BY <2>1 DEF Blocks
  <2>3. Tree'
    BY <2>1, <2>2 DEF Tree
  <2>4. DOMAIN cache' = {}
    BY <1>5 DEF Restart, EmptyCache
  <2> QED BY <2>3, <2>4 DEF CacheOK
<1>6. CASE Reindex
  <2>1. Blocks' = {GenesisBlock} /\ tip' = GenesisBlock /\ DOMAIN cache' = {}
    BY <1>6 DEF Reindex, Blocks, Single, EmptyCache
  <2>2. GenesisBlock \in Seq(AllHeaders) /\ Len(GenesisBlock) = 1
    BY DEF GenesisBlock, AllHeaders
  <2>3. GetAncestor(GenesisBlock, 1) = GenesisBlock
    BY <2>2, SelfAncestor, Zenon
  <2>4. GenesisBlock' = GenesisBlock
    BY DEF GenesisBlock
  <2>5. \A b \in Blocks' : Len(b) >= 1 /\ \A h \in 1 .. Len(b) : GetAncestor(b, h) \in Blocks'
    BY <2>1, <2>2, <2>3
  <2>6. Tree'
    BY <2>1, <2>2, <2>4, <2>5 DEF Tree
  <2>7. CacheOK'
    BY <2>1 DEF CacheOK
  <2> QED BY <2>6, <2>7
<1>7. CASE UNCHANGED vars
  <2>1. Tree' /\ Blocks' = Blocks /\ index' = index /\ cache' = cache
    BY <1>7 DEF vars, Tree, Blocks, GenesisBlock
  <2>2. \A f \in DOMAIN cache' : EntryOK(f, cache'[f])
    BY <2>1 DEF CacheOK
  <2> QED BY <2>1, <2>2, GrowKeeps
<1>8. tip \in Blocks
  BY DEF Tree
<1> QED BY <1>1, <1>2, <1>3, <1>4, <1>5, <1>6, <1>7, <1>8
        DEF Next, RejectStake, SearchKernel

\* GetKernelStakeModifier answers for the chain it is asked about, for every
\* set of headers, interval and cache limit: an entry another branch left in
\* the cache is used only where it is right.
THEOREM CacheTransparent == Spec => []KernelModifierOfChain
<1>1. Sound => KernelModifierOfChain
  BY LookupOK DEF Sound
<1> QED BY SoundInit, SoundNext, <1>1, PTL DEF Spec
-----------------------------------------------------------------------------
(***************************************************************************)
(* Computing a modifier again.                                             *)
(***************************************************************************)

\* A block's modifier depends on the index entries of its ancestors only.
LEMMA ComputeKept ==
    ASSUME NEW b, b \in Seq(AllHeaders), Len(b) >= 1,
           \A h \in 1 .. Len(b) - 1 : index'[GetAncestor(b, h)] = index[GetAncestor(b, h)]
    PROVE  ComputeNextStakeModifier(b)' = ComputeNextStakeModifier(b)
<1> DEFINE p == Prev(b)
<1>1. /\ Len(b) \in Nat /\ p \in Seq(AllHeaders) /\ Len(p) = Len(b) - 1
      /\ \A h \in 1 .. Len(p) : GetAncestor(p, h) = GetAncestor(b, h)
  <2>1. Len(b) \in Nat /\ Len(b) - 1 \in 0 .. Len(b) /\ p = GetAncestor(b, Len(b) - 1)
    BY DEF Prev, GetAncestor
  <2> HIDE DEF p
  <2>2. p \in Seq(AllHeaders) /\ Len(p) = Len(b) - 1
    BY <2>1, AncestorType
  <2>3. ASSUME NEW h \in 1 .. Len(p) PROVE GetAncestor(p, h) = GetAncestor(b, h)
    <3>1. Len(b) - 1 \in 1 .. Len(b) /\ h \in 1 .. Len(b) - 1
      BY <2>1, <2>2
    <3> QED BY <2>1, <3>1, AncestorOfAncestor
  <2> QED BY <2>1, <2>2, <2>3
<1>2. \A h \in 1 .. Len(p) : index'[GetAncestor(p, h)] = index[GetAncestor(p, h)]
  BY <1>1
<1> HIDE DEF p
<1>3. GetLastStakeModifier(p)' = GetLastStakeModifier(p)
  <2> DEFINE gen == {h \in 1 .. Len(p) : index[GetAncestor(p, h)].generated}
             genN == {h \in 1 .. Len(p) : index'[GetAncestor(p, h)].generated}
             last == CHOOSE h \in gen : \A k \in gen : k <= h
  <2>1. gen = genN
    BY <1>2
  <2>2. CASE gen = {}
    BY <2>1, <2>2 DEF GetLastStakeModifier
  <2>3. CASE gen # {}
    <3>1. \E h \in gen : \A k \in gen : k <= h
      <4>1. gen \subseteq 0 .. Len(p) /\ Len(p) \in Nat
        BY <1>1
      <4> HIDE DEF gen
      <4> QED BY <2>3, <4>1, GreatestHeight, Zenon
    <3>2. last \in 1 .. Len(p)
      BY <3>1
    <3> QED BY <1>2, <2>1, <2>3, <3>2, Zenon DEF GetLastStakeModifier
  <2> QED BY <2>2, <2>3
<1> QED BY <1>3 DEF ComputeNextStakeModifier, ModifierParent, p

\* Blocks that keep their entry, and whose ancestors do, stay reproducible.
LEMMA ReproducibleKept ==
    ASSUME Tree, ModifierReproducible, NEW S, S \subseteq Blocks,
           \A b \in S : \A h \in 1 .. Len(b) : GetAncestor(b, h) \in S,
           \A b \in S : index'[b] = index[b]
    PROVE  \A b \in S : index'[b] = ComputeNextStakeModifier(b)'
<1> TAKE b \in S
<1>1. b \in Seq(AllHeaders) /\ Len(b) >= 1 /\ Len(b) \in Nat
  BY BlockIs
<1>2. \A h \in 1 .. Len(b) - 1 : index'[GetAncestor(b, h)] = index[GetAncestor(b, h)]
  BY <1>1
<1>3. ComputeNextStakeModifier(b)' = ComputeNextStakeModifier(b)
  BY <1>1, <1>2, ComputeKept
<1> QED BY <1>3 DEF ModifierReproducible

\* A block that is stored gets the modifier that can be computed for it later.
LEMMA ReproducibleGrows ==
    ASSUME Tree, ModifierReproducible, NEW prev \in Blocks, NEW h \in Headers,
           Append(prev, h) \notin Blocks, Store(Append(prev, h)), tip' = tip
    PROVE  ModifierReproducible'
<1> DEFINE c == Append(prev, h)
<1>1. prev \in Seq(AllHeaders) /\ h \in AllHeaders /\ Len(prev) \in Nat /\ Len(prev) >= 1
  BY BlockIs DEF AllHeaders
<1>2. /\ c \in Seq(AllHeaders) /\ Len(c) = Len(prev) + 1
      /\ \A k \in 1 .. Len(prev) : GetAncestor(c, k) = GetAncestor(prev, k)
  BY <1>1, ChildPath
<1>3. Blocks' = Blocks \cup {c} /\ \A b \in Blocks : index'[b] = index[b]
  BY TreeGrows
<1>4. index'[c] = ComputeNextStakeModifier(c)
  BY Zenon DEF Store, Add, Blocks
<1> HIDE DEF c
<1>5. \A k \in 1 .. Len(c) - 1 : index'[GetAncestor(c, k)] = index[GetAncestor(c, k)]
  <2> TAKE k \in 1 .. Len(c) - 1
  <2>1. k \in 1 .. Len(prev)
    BY <1>1, <1>2
  <2>2. GetAncestor(c, k) \in Blocks
    BY <1>2, <2>1 DEF Tree
  <2> QED BY <1>3, <2>2
<1>6. ComputeNextStakeModifier(c)' = ComputeNextStakeModifier(c)
  BY <1>1, <1>2, <1>5, ComputeKept
<1>7. \A b \in Blocks : index'[b] = ComputeNextStakeModifier(b)'
  <2>1. \A b \in Blocks : \A k \in 1 .. Len(b) : GetAncestor(b, k) \in Blocks
    BY DEF Tree
  <2> QED BY <1>3, <2>1, ReproducibleKept
<1> QED BY <1>3, <1>4, <1>6, <1>7 DEF ModifierReproducible

\* Every stored modifier is the one that computing it again gives, whatever
\* order the blocks came in, whichever chain is active, and across restarts
\* and reindexing.
THEOREM ModifierIsFunctionOfChain == Spec => []ModifierReproducible
<1>1. Init => ModifierReproducible
  <2> SUFFICES ASSUME Init PROVE ModifierReproducible
    OBVIOUS
  <2>1. Blocks = {GenesisBlock} /\ index[GenesisBlock] = [modifier |-> 0, generated |-> FALSE]
    BY DEF Init, Blocks, Single
  <2>2. Len(GenesisBlock) = 1
    BY DEF GenesisBlock
  <2> QED BY <2>1, <2>2 DEF ModifierReproducible, ComputeNextStakeModifier
<1>2. Sound /\ ModifierReproducible /\ [Next]_vars => ModifierReproducible'
  <2> SUFFICES ASSUME Tree, ModifierReproducible, [Next]_vars PROVE ModifierReproducible'
    BY DEF Sound
  <2>0. \A b \in Blocks : \A k \in 1 .. Len(b) : GetAncestor(b, k) \in Blocks
    BY DEF Tree
  <2>1. ASSUME NEW prev \in Blocks, NEW h \in Headers, AcceptWork(prev, h)
        PROVE  ModifierReproducible'
    BY <2>1, ReproducibleGrows DEF AcceptWork, NewBlock
  <2>2. ASSUME NEW prev \in Blocks, NEW h \in Headers, NEW from \in Blocks,
               AcceptStake(prev, h, from)
        PROVE  ModifierReproducible'
    BY <2>2, ReproducibleGrows DEF AcceptStake, NewBlock
  <2>3. CASE UNCHANGED index
    <3>1. Blocks' = Blocks /\ \A b \in Blocks : index'[b] = index[b]
      BY <2>3 DEF Blocks
    <3>2. \A b \in Blocks : index'[b] = ComputeNextStakeModifier(b)'
      BY <2>0, <3>1, ReproducibleKept
    <3> QED BY <3>1, <3>2 DEF ModifierReproducible
  <2>4. CASE Restart
    <3>1. PICK S \in SUBSET Blocks :
             /\ \A b \in S : \A h \in 1 .. Len(b) : GetAncestor(b, h) \in S
             /\ index' = [b \in S |-> index[b]]
      BY <2>4 DEF Restart
    <3>2. Blocks' = S /\ \A b \in S : index'[b] = index[b]
      BY <3>1 DEF Blocks
    <3>3. \A b \in S : index'[b] = ComputeNextStakeModifier(b)'
      BY <3>1, <3>2, ReproducibleKept, Zenon
    <3> QED BY <3>2, <3>3 DEF ModifierReproducible
  <2>5. CASE Reindex
    <3>1. /\ Blocks' = {GenesisBlock}
          /\ index'[GenesisBlock] = ComputeNextStakeModifier(GenesisBlock)
      BY <2>5 DEF Reindex, Blocks, Single
    <3>2. GenesisBlock \in Seq(AllHeaders) /\ Len(GenesisBlock) = 1
      BY DEF GenesisBlock, AllHeaders
    <3>3. ComputeNextStakeModifier(GenesisBlock)' = ComputeNextStakeModifier(GenesisBlock)
      BY <3>2 DEF ComputeNextStakeModifier
    <3>4. GenesisBlock' = GenesisBlock
      BY DEF GenesisBlock
    <3> QED BY <3>1, <3>3, <3>4 DEF ModifierReproducible
  <2> QED BY <2>1, <2>2, <2>3, <2>4, <2>5
          DEF Next, RejectStake, SearchKernel, ActivateBestChain, vars
<1> QED BY SoundInit, SoundNext, <1>1, <1>2, PTL DEF Spec
-----------------------------------------------------------------------------
(***************************************************************************)
(* A new modifier is a number of Rounds bits.                              *)
(***************************************************************************)

\* What holds before a loop, and after a round if it holds before it, holds
\* after every round.
LEMMA LoopInduction ==
    ASSUME NEW N \in Nat, NEW S, 0 \in S, \A n \in 1 .. N : n - 1 \in S => n \in S
    PROVE  0 .. N \subseteq S
<1> DEFINE T == (0 .. N) \ S
<1> SUFFICES ASSUME T # {} PROVE FALSE
  OBVIOUS
<1>1. T \subseteq Nat
  OBVIOUS
<1>2. PICK m \in T : \A k \in T : m <= k
  BY <1>1, LeastHeight, Zenon
<1>3. m \in 1 .. N /\ m - 1 \in 0 .. N
  BY <1>2
<1>4. m - 1 \notin T
  BY <1>2, <1>3
<1> QED BY <1>2, <1>3, <1>4

\* G is the body of a loop of N rounds on values in V, and f the values after n
\* rounds that begin with v0.
Body(N, V, G) == \A v \in V, n \in 1 .. N : G[<<v, n>>] \in V
Loops(f, N, v0, G) == f[0] = v0 /\ \A n \in 1 .. N : f[n] = G[<<f[n - 1], n>>]

\* A loop computes something: the values after n rounds exist for every n.
LEMMA LoopRecursion ==
    ASSUME NEW N \in Nat, NEW V, NEW v0 \in V, NEW G, Body(N, V, G)
    PROVE  \E f \in [0 .. N -> V] : Loops(f, N, v0, G)
<1> DEFINE S == {m \in 0 .. N : \E f \in [0 .. m -> V] : Loops(f, m, v0, G)}
<1>1. 0 \in S
  <2> DEFINE f == [n \in 0 .. 0 |-> v0]
  <2>1. f \in [0 .. 0 -> V] /\ Loops(f, 0, v0, G)
    BY DEF Loops
  <2> HIDE DEF f
  <2>2. \E g \in [0 .. 0 -> V] : Loops(g, 0, v0, G)
    BY <2>1
  <2> QED BY <2>2
<1>2. ASSUME NEW m \in 1 .. N, m - 1 \in S PROVE m \in S
  <2>1. PICK f \in [0 .. m - 1 -> V] : Loops(f, m - 1, v0, G)
    BY <1>2
  <2> DEFINE g == [n \in 0 .. m |-> IF n = m THEN G[<<f[m - 1], m>>] ELSE f[n]]
  <2>2. f[m - 1] \in V
    OBVIOUS
  <2>3. g \in [0 .. m -> V]
    <3>1. ASSUME NEW n \in 0 .. m, n # m PROVE n \in 0 .. m - 1
      BY <3>1
    <3> QED BY <2>2, <3>1 DEF Body
  <2>4. Loops(g, m, v0, G)
    <3>1. g[0] = v0
      BY <2>1 DEF Loops
    <3>2. ASSUME NEW n \in 1 .. m PROVE g[n] = G[<<g[n - 1], n>>]
      <4>1. n - 1 \in 0 .. m /\ n - 1 # m /\ g[n - 1] = f[n - 1]
        OBVIOUS
      <4>2. CASE n = m
        BY <4>1, <4>2
      <4>3. CASE n # m
        <5>1. n \in 1 .. m - 1
          BY <4>3
        <5>2. f[n] = G[<<f[n - 1], n>>]
          BY <2>1, <5>1 DEF Loops
        <5> QED BY <4>1, <4>3, <5>2
      <4> QED BY <4>2, <4>3
    <3> HIDE DEF g
    <3> QED BY <3>1, <3>2 DEF Loops
  <2> HIDE DEF g
  <2>5. \E h \in [0 .. m -> V] : Loops(h, m, v0, G)
    BY <2>3, <2>4
  <2> QED BY <2>5
<1>3. N \in S
  <2> HIDE DEF S
  <2>1. 0 .. N \subseteq S
    BY <1>1, <1>2, LoopInduction
  <2> QED BY <2>1
<1> QED BY <1>3

\* The values of the bits: each is twice the one before.
LEMMA BitIs ==
    /\ Bit \in [0 .. Rounds -> Nat \ {0}] /\ Bit[0] = 1
    /\ \A n \in 1 .. Rounds : Bit[n] = 2 * Bit[n - 1]
<1> DEFINE V == Nat \ {0}
           G == [q \in V \X (1 .. Rounds) |-> 2 * q[1]]
           Def(f) == [n \in 0 .. Rounds |-> IF n = 0 THEN 1 ELSE 2 * f[n - 1]]
<1>0. Rounds \in Nat
  BY ModifierAssumption
<1>1. \A v \in V, n \in 1 .. Rounds : G[<<v, n>>] = 2 * v /\ G[<<v, n>>] \in V
  OBVIOUS
<1>2. PICK f \in [0 .. Rounds -> V] : Loops(f, Rounds, 1, G)
  <2> HIDE DEF G
  <2>1. 1 \in V /\ Body(Rounds, V, G)
    BY <1>1 DEF Body
  <2> HIDE DEF V
  <2> QED BY <1>0, <2>1, LoopRecursion
<1>3. \A n \in 1 .. Rounds : n - 1 \in 0 .. Rounds /\ f[n] = 2 * f[n - 1]
  <2> TAKE n \in 1 .. Rounds
  <2>1. n - 1 \in 0 .. Rounds
    BY <1>0
  <2>2. f[n - 1] \in V
    BY <2>1
  <2> QED BY <1>1, <1>2, <2>1, <2>2, Zenon DEF Loops
<1>4. f = Def(f)
  <2>1. ASSUME NEW n \in 0 .. Rounds PROVE f[n] = Def(f)[n]
    BY <1>0, <1>2, <1>3 DEF Loops
  <2>2. f = [n \in 0 .. Rounds |-> f[n]]
    OBVIOUS
  <2> QED BY <2>1, <2>2
<1>5. Bit = Def(Bit)
  BY <1>4, Zenon DEF Bit
<1>6. Bit[0] = 1 /\ \A n \in 1 .. Rounds : Bit[n] = 2 * Bit[n - 1]
  BY <1>0, <1>5
<1>7. \A n \in 0 .. Rounds : Bit[n] \in V
  <2> DEFINE S == {n \in 0 .. Rounds : Bit[n] \in V}
  <2>1. 0 \in S
    BY <1>0, <1>6
  <2>2. ASSUME NEW n \in 1 .. Rounds, n - 1 \in S PROVE n \in S
    <3>1. Bit[n] = 2 * Bit[n - 1] /\ Bit[n - 1] \in V
      BY <1>6, <2>2
    <3> QED BY <3>1
  <2> HIDE DEF S
  <2>3. 0 .. Rounds \subseteq S
    BY <1>0, <2>1, <2>2, LoopInduction, Zenon
  <2> QED BY <2>3 DEF S
<1>8. Bit = [n \in 0 .. Rounds |-> Bit[n]]
  BY <1>5
<1> QED BY <1>6, <1>7, <1>8, Zenon

\* Headers with times and hashes of which no two are equal.
Ordered(S) ==
    \A g, h \in S : /\ g.time \in Nat /\ g.hash \in Nat /\ g.pos \in BOOLEAN
                    /\ g # h => g.hash # h.hash

\* The order by rank, time and hash has a least element in every set that is not empty.
LEMMA LeastHeader ==
    ASSUME NEW S, S # {}, Ordered(S), NEW rank, \A h \in S : rank[h] \in Nat
    PROVE  \E g \in S : \A h \in S \ {g} : \/ rank[g] < rank[h]
                                           \/ rank[g] = rank[h] /\ Before(g, h)
<1>0. \A h \in S : h.time \in Nat /\ h.hash \in Nat
  BY DEF Ordered
<1>1. PICK g1 \in S : \A h \in S : rank[g1] <= rank[h]
  <2> DEFINE T == {rank[h] : h \in S}
  <2>1. T \subseteq Nat /\ T # {}
    OBVIOUS
  <2>2. PICK m \in T : \A k \in T : m <= k
    <3> HIDE DEF T
    <3> QED BY <2>1, LeastHeight, Zenon
  <2> QED BY <2>2
<1> DEFINE S1 == {h \in S : rank[h] = rank[g1]}
<1>2. PICK g2 \in S1 : \A h \in S1 : g2.time <= h.time
  <2> DEFINE T == {h.time : h \in S1}
  <2>1. T \subseteq Nat /\ T # {}
    BY <1>0, <1>1
  <2>2. PICK m \in T : \A k \in T : m <= k
    <3> HIDE DEF T
    <3> QED BY <2>1, LeastHeight, Zenon
  <2> QED BY <2>2
<1> DEFINE S2 == {h \in S1 : h.time = g2.time}
<1>3. PICK g \in S2 : \A h \in S2 : g.hash <= h.hash
  <2> DEFINE T == {h.hash : h \in S2}
  <2>1. T \subseteq Nat /\ T # {}
    BY <1>0, <1>2
  <2>2. PICK m \in T : \A k \in T : m <= k
    <3> HIDE DEF T
    <3> QED BY <2>1, LeastHeight, Zenon
  <2> QED BY <2>2
<1>4. ASSUME NEW h \in S \ {g}
      PROVE  rank[g] < rank[h] \/ (rank[g] = rank[h] /\ Before(g, h))
  <2>1. g \in S /\ rank[g] = rank[g1] /\ g.time = g2.time /\ g.hash # h.hash
    BY <1>3 DEF Ordered
  <2>2. CASE h \notin S1
    <3>1. rank[g] <= rank[h] /\ rank[h] # rank[g] /\ rank[g] \in Nat /\ rank[h] \in Nat
      BY <1>1, <2>1, <2>2
    <3> QED BY <3>1
  <2>3. CASE h \in S1 /\ h \notin S2
    <3>1. g.time <= h.time /\ h.time # g.time /\ g.time \in Nat /\ h.time \in Nat
      BY <1>0, <1>2, <2>1, <2>3
    <3> QED BY <2>1, <2>3, <3>1 DEF Before
  <2>4. CASE h \in S2
    <3>1. g.hash <= h.hash /\ g.hash \in Nat /\ h.hash \in Nat
      BY <1>0, <1>3, <2>1, <2>4
    <3> QED BY <2>1, <2>4, <3>1 DEF Before
  <2> QED BY <2>2, <2>3, <2>4
<1> QED BY <1>3, <1>4

\* SelectBlockFromCandidates selects one of the candidates, as long as there are any.
LEMMA Selects ==
    ASSUME NEW left, left # {}, Ordered(left), NEW stop, NEW modifier \in Modifiers
    PROVE  SelectBlockFromCandidates(left, stop, modifier) \in left
<1> DEFINE rank == [h \in left |-> Rank(h, modifier)]
           zero == [h \in left |-> 0]
           first == CHOOSE g \in left : \A h \in left \ {g} : Before(g, h)
           window == {h \in left : h = first \/ h.time <= stop}
           Best(g) == \A h \in window \ {g} : \/ rank[g] < rank[h]
                                              \/ rank[g] = rank[h] /\ Before(g, h)
<1>1. \A h \in left : rank[h] \in Nat
  <2>1. SelectionHash(0, modifier) \in Nat /\ StakeShift \in Nat \ {0}
    BY ModifierAssumption
  <2>2. SelectionHash(0, modifier) \div StakeShift \in Nat
    <3> DEFINE x == SelectionHash(0, modifier)
    <3> HIDE DEF x
    <3>1. x \in Nat
      BY <2>1 DEF x
    <3>2. x \div StakeShift \in Nat
      BY <2>1, <3>1
    <3> QED BY <3>2 DEF x
  <2> QED BY <2>1, <2>2 DEF Rank
<1>2. first \in left
  <2>1. PICK g \in left : \A h \in left \ {g} : \/ zero[g] < zero[h]
                                                \/ zero[g] = zero[h] /\ Before(g, h)
    <3>1. \A h \in left : zero[h] \in Nat
      OBVIOUS
    <3> HIDE DEF zero
    <3> QED BY <3>1, LeastHeader
  <2>2. \A h \in left \ {g} : Before(g, h)
    BY <2>1
  <2> QED BY <2>2
<1>3. \E g \in window : Best(g)
  <2>1. window \subseteq left /\ window # {}
    BY <1>2
  <2>2. Ordered(window)
    BY <2>1 DEF Ordered
  <2>3. \A h \in window : rank[h] \in Nat
    BY <1>1, <2>1
  <2> HIDE DEF window, rank
  <2> QED BY <2>1, <2>2, <2>3, LeastHeader
<1> DEFINE s == CHOOSE g \in window : Best(g)
<1>4. SelectBlockFromCandidates(left, stop, modifier) = s
  BY DEF SelectBlockFromCandidates, SelectBy
<1>5. s \in left
  <2> HIDE DEF Best
  <2>1. s \in window
    BY <1>3, Zenon
  <2> QED BY <2>1
<1> QED BY <1>4, <1>5

\* The hashes of a chain are all different.
DistinctHashes(b) == \A i, j \in 1 .. Len(b) : i # j => b[i].hash # b[j].hash

\* The candidates of a chain can be put in order.
LEMMA CandidatesOrdered ==
    ASSUME NEW prev \in Seq(AllHeaders), DistinctHashes(prev)
    PROVE  Ordered(Candidates(prev))
<1>1. ASSUME NEW g \in Candidates(prev) PROVE \E i \in 1 .. Len(prev) : g = prev[i]
  BY DEF Candidates
<1>2. \A i \in 1 .. Len(prev) : prev[i] \in AllHeaders
  OBVIOUS
<1>3. \A h \in AllHeaders : h.time \in Nat /\ h.hash \in Nat /\ h.pos \in BOOLEAN
  BY ModifierAssumption DEF AllHeaders
<1> SUFFICES ASSUME NEW g \in Candidates(prev), NEW h \in Candidates(prev)
             PROVE  /\ g.time \in Nat /\ g.hash \in Nat /\ g.pos \in BOOLEAN
                    /\ g # h => g.hash # h.hash
  BY DEF Ordered
<1>4. PICK i \in 1 .. Len(prev) : g = prev[i]
  BY <1>1
<1>5. PICK j \in 1 .. Len(prev) : h = prev[j]
  BY <1>1
<1> QED BY <1>2, <1>3, <1>4, <1>5 DEF DistinctHashes

\* The rounds of ComputeNextStakeModifier: after n of them the modifier has no
\* more than n bits.
LEMMA NewModifierType ==
    ASSUME NEW prev \in Seq(AllHeaders), DistinctHashes(prev), NEW modifier \in Modifiers
    PROVE  NewModifier(prev, modifier) \in Modifiers
<1> DEFINE C == Candidates(prev)
           V == [left : SUBSET C, bits : Nat]
           Step(v, n) == NextRound(v, n, prev, modifier)
           G == [q \in V \X (1 .. Rounds) |-> Step(q[1], q[2])]
           v0 == [left |-> C, bits |-> 0]
           Def(f) == [n \in 0 .. Rounds |-> IF n = 0 THEN v0 ELSE Step(f[n - 1], n)]
           r == AfterRound(prev, modifier)
<1>0. Rounds \in Nat \ {0, 1}
  BY ModifierAssumption
<1>1. ASSUME NEW v \in V, NEW n \in 1 .. Rounds
      PROVE  /\ Step(v, n) \in V
             /\ \/ Step(v, n).bits = v.bits
                \/ Step(v, n).bits = v.bits + Bit[n - 1]
  <2> DEFINE stop == SelectionStart(prev) + Sections[n]
             s == SelectBlockFromCandidates(v.left, stop, modifier)
  <2>1. CASE v.left = {}
    BY <2>1 DEF NextRound
  <2>2. CASE v.left # {}
    <3>1. Ordered(v.left)
      BY CandidatesOrdered DEF Ordered
    <3> HIDE DEF stop
    <3>2. s \in v.left
      BY <2>2, <3>1, Selects
    <3>3. Step(v, n) = [left |-> v.left \ {s}, bits |-> v.bits + (s.hash % 2) * Bit[n - 1]]
      BY <2>2 DEF NextRound, stop
    <3> HIDE DEF s
    <3>4. s.hash \in Nat
      BY <3>1, <3>2 DEF Ordered
    <3>5. Bit[n - 1] \in Nat
      <4>1. n - 1 \in 0 .. Rounds
        BY <1>0
      <4> QED BY <4>1, BitIs
    <3>6. s.hash % 2 = 0 \/ s.hash % 2 = 1
      BY <3>4
    <3>7. \/ v.bits + (s.hash % 2) * Bit[n - 1] = v.bits
          \/ v.bits + (s.hash % 2) * Bit[n - 1] = v.bits + Bit[n - 1]
      <4>1. v.bits \in Nat
        OBVIOUS
      <4> QED BY <3>5, <3>6, <4>1
    <3> QED BY <3>3, <3>5, <3>7
  <2> QED BY <2>1, <2>2
<1> HIDE DEF Step
<1>2. \A v \in V, n \in 1 .. Rounds : G[<<v, n>>] = Step(v, n) /\ G[<<v, n>>] \in V
  BY <1>1
<1>3. v0 \in V
  OBVIOUS
<1>4. PICK f \in [0 .. Rounds -> V] : Loops(f, Rounds, v0, G)
  <2> HIDE DEF G, V, v0
  <2>1. Body(Rounds, V, G)
    BY <1>2, Zenon DEF Body
  <2> QED BY <1>0, <1>3, <2>1, LoopRecursion
<1> HIDE DEF V, G, v0
<1>5. \A n \in 1 .. Rounds : n - 1 \in 0 .. Rounds /\ f[n] = Step(f[n - 1], n)
  <2> TAKE n \in 1 .. Rounds
  <2>1. n - 1 \in 0 .. Rounds
    BY <1>0
  <2>2. f[n - 1] \in V
    BY <2>1
  <2> QED BY <1>2, <1>4, <2>1, <2>2, Zenon DEF Loops
<1>6. f = Def(f)
  <2>1. ASSUME NEW n \in 0 .. Rounds PROVE f[n] = Def(f)[n]
    BY <1>0, <1>4, <1>5 DEF Loops
  <2>2. f = [n \in 0 .. Rounds |-> f[n]]
    OBVIOUS
  <2> QED BY <2>1, <2>2
<1>7. r = Def(r)
  BY <1>6, Zenon DEF AfterRound, Step, v0
<1> HIDE DEF r
<1>8. r[0] = v0 /\ \A n \in 1 .. Rounds : r[n] = Step(r[n - 1], n)
  BY <1>0, <1>7
<1> DEFINE S == {n \in 0 .. Rounds : r[n] \in V /\ r[n].bits < Bit[n]}
<1>9. 0 \in S
  <2>1. r[0] \in V /\ r[0].bits = 0 /\ Bit[0] = 1
    BY <1>3, <1>8, BitIs DEF v0
  <2>2. 0 \in 0 .. Rounds /\ r[0].bits < Bit[0]
    BY <1>0, <2>1
  <2> QED BY <2>1, <2>2
<1>10. ASSUME NEW n \in 1 .. Rounds, n - 1 \in S PROVE n \in S
  <2>1. r[n] = Step(r[n - 1], n) /\ r[n - 1] \in V /\ r[n - 1].bits < Bit[n - 1]
    BY <1>8, <1>10
  <2>2. Bit[n] = 2 * Bit[n - 1] /\ Bit[n - 1] \in Nat /\ r[n - 1].bits \in Nat
    <3>1. n - 1 \in 0 .. Rounds
      BY <1>0
    <3> QED BY <2>1, <3>1, BitIs DEF V
  <2>3. r[n] \in V /\ (r[n].bits = r[n - 1].bits \/ r[n].bits = r[n - 1].bits + Bit[n - 1])
    BY <1>1, <2>1
  <2>4. r[n].bits < Bit[n]
    BY <2>1, <2>2, <2>3
  <2> QED BY <2>3, <2>4
<1> HIDE DEF S
<1>11. 0 .. Rounds \subseteq S
  BY <1>0, <1>9, <1>10, LoopInduction, Zenon
<1>12. r[Rounds].bits \in Nat /\ r[Rounds].bits < Bit[Rounds] /\ Bit[Rounds] \in Nat
  <2>1. Rounds \in 0 .. Rounds
    BY <1>0
  <2> QED BY <1>11, <2>1, BitIs DEF S, V
<1> QED BY <1>12 DEF NewModifier, Modifiers, r

LEMMA ZeroModifier == 0 \in Modifiers
<1>1. Rounds \in 0 .. Rounds
  BY ModifierAssumption
<1>2. Bit[Rounds] \in Nat \ {0}
  BY <1>1, BitIs
<1> QED BY <1>2 DEF Modifiers

\* What TypeOK rests on: the tree of blocks, and hashes that are all different.
TypeInv == Tree /\ TypeOK /\ \A b \in Blocks : DistinctHashes(b)

LEMMA LastModifierType ==
    ASSUME TypeInv, NEW b \in Blocks
    PROVE  GetLastStakeModifier(b).modifier \in Modifiers
<1> DEFINE gen == {h \in 1 .. Len(b) : index[GetAncestor(b, h)].generated}
           last == CHOOSE h \in gen : \A k \in gen : k <= h
<1>1. Len(b) \in Nat
  BY BlockIs DEF TypeInv
<1>2. CASE gen = {}
  BY <1>2, ZeroModifier DEF GetLastStakeModifier
<1>3. CASE gen # {}
  <2>1. \E h \in gen : \A k \in gen : k <= h
    <3>1. gen \subseteq 0 .. Len(b)
      BY <1>1
    <3> HIDE DEF gen
    <3> QED BY <1>1, <1>3, <3>1, GreatestHeight, Zenon
  <2>2. last \in 1 .. Len(b)
    BY <2>1
  <2>3. GetAncestor(b, last) \in Blocks
    <3> HIDE DEF last
    <3> QED BY <2>2 DEF TypeInv, Tree
  <2>4. index[GetAncestor(b, last)].modifier \in Modifiers
    <3> HIDE DEF last
    <3> QED BY <2>3 DEF TypeInv, TypeOK, IndexEntry
  <2> QED BY <1>3, <2>4 DEF GetLastStakeModifier
<1> QED BY <1>2, <1>3

\* Genesis has a modifier, and so has a child of a block of the index.
LEMMA ComputedType ==
    ASSUME TypeInv, NEW b, Len(b) = 1 \/ Prev(b) \in Blocks
    PROVE  ComputeNextStakeModifier(b) \in IndexEntry
<1>2. CASE Len(b) = 1
  BY <1>2, ZeroModifier DEF ComputeNextStakeModifier, IndexEntry
<1>3. CASE Len(b) # 1
  <2> DEFINE prev == Prev(b)
             m == GetLastStakeModifier(prev).modifier
  <2>1. m \in Modifiers
    BY <1>3, LastModifierType
  <2>2. prev \in Seq(AllHeaders) /\ DistinctHashes(prev)
    BY <1>3, BlockIs DEF TypeInv
  <2> HIDE DEF m
  <2>3. NewModifier(prev, m) \in Modifiers
    BY <2>1, <2>2, NewModifierType
  <2> HIDE DEF prev
  <2> QED BY <1>3, <2>1, <2>3 DEF ComputeNextStakeModifier, ModifierParent, IndexEntry, m, prev
<1> QED BY <1>2, <1>3

\* A block that is stored keeps the types.
LEMMA TypeGrows ==
    ASSUME TypeInv, NEW prev \in Blocks, NEW h \in Headers, NewBlock(prev, h),
           Store(Append(prev, h)), tip' = tip
    PROVE  /\ Tree' /\ \A b \in Blocks' : DistinctHashes(b)
           /\ Blocks \subseteq Blocks' /\ index' \in [Blocks' -> IndexEntry]
           /\ \A b \in Blocks' : Len(b) \in 1 .. MaxHeight
<1> DEFINE c == Append(prev, h)
<1>1. Append(prev, h) \notin Blocks /\ Len(prev) < MaxHeight
      /\ \A i \in 1 .. Len(prev) : prev[i].hash # h.hash
  BY DEF NewBlock
<1>2. Tree' /\ Blocks' = Blocks \cup {c} /\ \A b \in Blocks : index'[b] = index[b]
  BY <1>1, TreeGrows DEF TypeInv
<1>3. prev \in Seq(AllHeaders) /\ h \in AllHeaders /\ Len(prev) \in Nat /\ Len(prev) >= 1
  BY BlockIs DEF AllHeaders, TypeInv
<1>4. Len(c) = Len(prev) + 1 /\ Prev(c) = prev
  BY <1>3, ChildPath
<1>5. \A i \in 1 .. Len(c) : c[i] = IF i = Len(c) THEN h ELSE prev[i]
  BY <1>3, <1>4
<1>6. index'[c] \in IndexEntry /\ index' = [b \in Blocks' |-> index'[b]]
  <2>1. ComputeNextStakeModifier(c) \in IndexEntry
    BY <1>4, ComputedType
  <2> HIDE DEF c
  <2>2. index' = Add(index, c, ComputeNextStakeModifier(c))
    BY DEF Store, c
  <2> QED BY <2>1, <2>2 DEF Add, Blocks
<1> HIDE DEF c
<1>7. \A b \in Blocks' : index'[b] \in IndexEntry
  BY <1>2, <1>6 DEF TypeInv, TypeOK
<1>8. index' \in [Blocks' -> IndexEntry]
  BY <1>6, <1>7
<1>9. DistinctHashes(c)
  <2> SUFFICES ASSUME NEW i \in 1 .. Len(c), NEW j \in 1 .. Len(c), i # j
               PROVE  c[i].hash # c[j].hash
    BY DEF DistinctHashes
  <2>1. DistinctHashes(prev)
    BY DEF TypeInv
  <2>2. ASSUME NEW k \in 1 .. Len(c), k # Len(c) PROVE k \in 1 .. Len(prev) /\ c[k] = prev[k]
    BY <1>3, <1>4, <1>5, <2>2
  <2> QED BY <1>1, <1>5, <2>1, <2>2 DEF DistinctHashes
<1>10. Len(c) \in 1 .. MaxHeight
  BY <1>1, <1>3, <1>4, ModifierAssumption
<1> QED BY <1>2, <1>8, <1>9, <1>10 DEF TypeInv, TypeOK

\* A lookup counts up to one beyond the limit, and leaves known blocks in the cache.
LEMMA TypeLookup ==
    ASSUME TypeInv, NEW prev \in Blocks, NEW from \in Blocks, UpdateCache(prev, from)
    PROVE  /\ lookups' \in 0 .. FlushLimit + 1
           /\ DOMAIN cache' \subseteq Blocks
           /\ \A f \in DOMAIN cache' : cache'[f].block \in Blocks
<1>1. lookups \in 0 .. FlushLimit + 1 /\ FlushLimit \in Nat
  BY ModifierAssumption DEF TypeInv, TypeOK
<1>2. lookups' = lookups \/ lookups' = Counted
  BY DEF UpdateCache
<1>3. lookups' \in 0 .. FlushLimit + 1
  BY <1>1, <1>2 DEF Counted
<1>4. DOMAIN Maintained \subseteq Blocks /\ \A f \in DOMAIN Maintained : Maintained[f].block \in Blocks
  BY DEF TypeInv, TypeOK, Maintained, EmptyCache
<1>5. CASE cache' = cache \/ cache' = Maintained
  BY <1>3, <1>4, <1>5, Zenon DEF TypeInv, TypeOK
<1>6. CASE ~(cache' = cache \/ cache' = Maintained)
  <2> DEFINE b == Walk(prev, from)
             e == [modifier |-> index[b].modifier, block |-> b]
  <2>1. IsAncestor(from, prev) /\ b # <<>> /\ cache' = Add(Maintained, from, e)
    BY <1>6 DEF UpdateCache
  <2>2. e.block \in Blocks
    BY <2>1, WalkFinds DEF EntryOK, TypeInv
  <2> HIDE DEF e
  <2> QED BY <1>3, <1>4, <2>1, <2>2 DEF Add
<1> QED BY <1>5, <1>6

LEMMA GenesisTyped ==
    ASSUME Blocks = {GenesisBlock}, index \in [{GenesisBlock} -> IndexEntry], tip = GenesisBlock,
           cache = EmptyCache, lookups = 0, Tree
    PROVE  TypeInv
<1>1. Len(GenesisBlock) = 1 /\ MaxHeight \in Nat \ {0} /\ FlushLimit \in Nat
  BY ModifierAssumption DEF GenesisBlock
<1>2. 1 \in 1 .. MaxHeight /\ 0 \in 0 .. FlushLimit + 1
  BY <1>1
<1>3. DOMAIN cache = {}
  BY DEF EmptyCache
<1>4. TypeOK
  BY <1>1, <1>2, <1>3, Zenon DEF TypeOK, Tree
<1>5. DistinctHashes(GenesisBlock)
  BY <1>1 DEF DistinctHashes
<1> QED BY <1>4, <1>5 DEF TypeInv

\* The block index keeps being a tree of blocks with modifiers of Rounds bits, and
\* the cache and its counter stay within their bounds: no round of
\* ComputeNextStakeModifier is left without a block to select.
THEOREM ModifierTypes == Spec => []TypeOK
<1>1. Init => TypeInv
  <2> SUFFICES ASSUME Init PROVE TypeInv
    OBVIOUS
  <2>1. Tree
    BY SoundInit DEF Sound
  <2>2. Blocks = {GenesisBlock} /\ tip = GenesisBlock /\ cache = EmptyCache /\ lookups = 0
    BY DEF Init, Blocks, Single
  <2>4. index \in [{GenesisBlock} -> IndexEntry]
    BY ZeroModifier DEF Init, Single, IndexEntry
  <2> QED BY <2>1, <2>2, <2>4, GenesisTyped
<1>2. Sound /\ TypeInv /\ [Next]_vars => TypeInv'
  <2> SUFFICES ASSUME Sound, TypeInv, [Next]_vars PROVE TypeInv'
    OBVIOUS
  <2>0. Tree'
    BY SoundNext DEF Sound
  <2>1. ASSUME NEW prev \in Blocks, NEW h \in Headers, AcceptWork(prev, h)
        PROVE  TypeInv'
    <3>1. /\ \A b \in Blocks' : DistinctHashes(b) /\ Len(b) \in 1 .. MaxHeight
          /\ Blocks \subseteq Blocks' /\ index' \in [Blocks' -> IndexEntry]
      BY <2>1, TypeGrows DEF AcceptWork
    <3>2. lookups' = lookups /\ cache' = cache
      BY <2>1 DEF AcceptWork
    <3>3. TypeOK'
      BY <2>0, <3>1, <3>2, Zenon DEF TypeInv, TypeOK, Tree
    <3> QED BY <2>0, <3>1, <3>3 DEF TypeInv, DistinctHashes
  <2>2. ASSUME NEW prev \in Blocks, NEW h \in Headers, NEW from \in Blocks,
               AcceptStake(prev, h, from)
        PROVE  TypeInv'
    <3>1. /\ \A b \in Blocks' : DistinctHashes(b) /\ Len(b) \in 1 .. MaxHeight
          /\ Blocks \subseteq Blocks' /\ index' \in [Blocks' -> IndexEntry]
      BY <2>2, TypeGrows DEF AcceptStake
    <3>2. /\ lookups' \in 0 .. FlushLimit + 1
          /\ DOMAIN cache' \subseteq Blocks
          /\ \A f \in DOMAIN cache' : cache'[f].block \in Blocks
      BY <2>2, TypeLookup DEF AcceptStake
    <3>3. TypeOK'
      BY <2>0, <3>1, <3>2, Zenon DEF TypeOK, Tree
    <3> QED BY <2>0, <3>1, <3>3 DEF TypeInv, DistinctHashes
  <2>3. ASSUME NEW prev \in Blocks, NEW from \in Blocks, UpdateCache(prev, from),
               UNCHANGED <<index, tip>>
        PROVE  TypeInv'
    <3>1. Blocks' = Blocks /\ index' = index
      BY <2>3 DEF Blocks
    <3>2. /\ lookups' \in 0 .. FlushLimit + 1
          /\ DOMAIN cache' \subseteq Blocks
          /\ \A f \in DOMAIN cache' : cache'[f].block \in Blocks
      BY <2>3, TypeLookup
    <3>3. TypeOK'
      BY <2>0, <3>1, <3>2, Zenon DEF TypeInv, TypeOK, Tree
    <3> QED BY <2>0, <3>1, <3>3 DEF TypeInv, DistinctHashes
  <2>4. CASE ActivateBestChain \/ UNCHANGED vars
    <3>1. index' = index /\ cache' = cache /\ lookups' = lookups
      BY <2>4 DEF ActivateBestChain, vars
    <3>2. Blocks' = Blocks
      BY <3>1 DEF Blocks
    <3>3. TypeOK'
      BY <2>0, <3>1, <3>2 DEF TypeInv, TypeOK, Tree
    <3> QED BY <2>0, <3>2, <3>3 DEF TypeInv, DistinctHashes
  <2>5. CASE Restart
    <3>1. PICK S \in SUBSET Blocks : index' = [b \in S |-> index[b]]
      BY <2>5 DEF Restart
    <3>2. Blocks' = S /\ index' \in [S -> IndexEntry]
      BY <3>1 DEF Blocks, TypeInv, TypeOK
    <3>3. DOMAIN cache' = {} /\ lookups' \in 0 .. FlushLimit + 1
      BY <2>5, ModifierAssumption DEF Restart, EmptyCache
    <3>4. TypeOK'
      BY <2>0, <3>2, <3>3 DEF TypeInv, TypeOK, Tree
    <3> QED BY <2>0, <3>2, <3>4 DEF TypeInv, DistinctHashes
  <2>6. CASE Reindex
    <3> DEFINE e == ComputeNextStakeModifier(GenesisBlock)
    <3>1. Len(GenesisBlock) = 1 /\ GenesisBlock' = GenesisBlock
      BY DEF GenesisBlock
    <3>2. e \in IndexEntry
      BY <3>1, ComputedType
    <3> HIDE DEF e
    <3>3. /\ Blocks' = {GenesisBlock} /\ tip' = GenesisBlock
          /\ index' \in [{GenesisBlock} -> IndexEntry]
          /\ cache' = EmptyCache /\ lookups' = 0
      BY <2>6, <3>2 DEF Reindex, Blocks, Single, e
    <3>4. IndexEntry' = IndexEntry /\ EmptyCache' = EmptyCache
      BY DEF IndexEntry, Modifiers, EmptyCache
    <3>5. MaxHeight \in Nat \ {0} /\ FlushLimit \in Nat
      BY ModifierAssumption
    <3>6. 1 \in 1 .. MaxHeight /\ 0 \in 0 .. FlushLimit + 1 /\ DOMAIN cache' = {}
      BY <3>3, <3>5 DEF EmptyCache
    <3>7. TypeOK'
      BY <2>0, <3>1, <3>3, <3>4, <3>6, Zenon DEF TypeOK, Tree
    <3>8. DistinctHashes(GenesisBlock)
      BY <3>1 DEF DistinctHashes
    <3> QED BY <2>0, <3>3, <3>7, <3>8 DEF TypeInv, DistinctHashes
  <2>7. tip \in Blocks
    BY DEF TypeInv, Tree
  <2> QED BY <2>1, <2>2, <2>3, <2>4, <2>5, <2>6, <2>7 DEF Next, RejectStake, SearchKernel
<1>3. TypeInv => TypeOK
  BY DEF TypeInv
<1> QED BY SoundInit, SoundNext, <1>1, <1>2, <1>3, PTL DEF Spec
=============================================================================
