--------------------------- MODULE ChainstateProof ---------------------------
(***************************************************************************)
(* Chainstate, for any tree of blocks, any number of threads and any       *)
(* number of calls: no flagged block stays in the active chain, and the    *)
(* active chain is the best one, if reconsiderblock is only called where   *)
(* no ancestor is flagged and preciousblock never makes the tip's number   *)
(* greater.                                                                *)
(***************************************************************************)
EXTENDS Chainstate, FiniteSetTheorems, WellFoundedInduction, TLAPS

-----------------------------------------------------------------------------
(* The tree of blocks.                                                     *)

\* pprev of any block but genesis is a block.
LEMMA ParentIs ==
  /\ Genesis \in Blocks /\ NoBlock \notin Blocks /\ Parent[Genesis] = NoBlock
  /\ \A b \in Blocks \ {Genesis} : Parent[b] \in Blocks
BY ChainstateAssumption

\* What holds of genesis, and of a block if it holds of its parent, holds of
\* all blocks.
LEMMA TreeInduction ==
  ASSUME NEW S \in SUBSET Blocks, Genesis \in S,
         \A b \in Blocks \ {Genesis} : Parent[b] \in S => b \in S
  PROVE  S = Blocks
<1> SUFFICES ASSUME Blocks \ S # {} PROVE FALSE
  OBVIOUS
<1>1. PICK b \in Blocks \ S : Parent[b] \notin Blocks \ S
  BY ChainstateAssumption, Zenon
<1> QED BY <1>1, ParentIs

\* Ancestry is the function that its definition describes.
LEMMA AncestryIs ==
  \A b \in Blocks : Ancestry[b] = IF b = Genesis THEN {b} ELSE {b} \cup Ancestry[Parent[b]]
<1> DEFINE Up(S) == \A c \in S \ {Genesis} : Parent[c] \in S
           f == [b \in Blocks |-> {a \in Blocks : \A S \in SUBSET Blocks : Up(S) /\ b \in S => a \in S}]
           Def(g) == [b \in Blocks |-> IF b = Genesis THEN {b} ELSE {b} \cup g[Parent[b]]]
<1>1. ASSUME NEW b \in Blocks
      PROVE  f[b] = IF b = Genesis THEN {b} ELSE {b} \cup f[Parent[b]]
  <2>1. CASE b = Genesis
    <3>1. Up({Genesis}) /\ {Genesis} \in SUBSET Blocks
      BY ParentIs
    <3> QED BY <2>1, <3>1, Zenon
  <2>2. CASE b # Genesis
    <3>1. Parent[b] \in Blocks
      BY <2>2, ParentIs
    <3>2. ASSUME NEW a \in f[b] PROVE a \in {b} \cup f[Parent[b]]
      <4> SUFFICES ASSUME a # b, NEW S \in SUBSET Blocks, Up(S), Parent[b] \in S PROVE a \in S
        BY <3>1, <3>2
      <4>1. Up(S \cup {b}) /\ b \in S \cup {b} /\ S \cup {b} \in SUBSET Blocks
        OBVIOUS
      <4> QED BY <3>2, <4>1, Zenon
    <3>3. ASSUME NEW a \in {b} \cup f[Parent[b]] PROVE a \in f[b]
      BY <2>2, <3>1, <3>3
    <3>4. f[b] = {b} \cup f[Parent[b]]
      BY <3>2, <3>3, Zenon
    <3> QED BY <2>2, <3>4, Zenon
  <2> QED BY <2>1, <2>2
<1>2. f = Def(f)
  BY <1>1
<1> HIDE DEF f
<1>3. Ancestry = Def(Ancestry)
  BY <1>2, Zenon DEF Ancestry
<1> QED BY <1>3, Zenon

\* A block's line is the block with its parent's line.
LEMMA LineIs ==
  /\ Line[Genesis] = {Genesis}
  /\ \A b \in Blocks \ {Genesis} : Line[b] = {b} \cup Line[Parent[b]]
  /\ \A b \in Blocks : b \in Line[b]
BY ParentIs, AncestryIs, Zenon DEF Line

\* The blocks of a line are blocks, and genesis is one of them.
LEMMA LineType ==
  ASSUME NEW b \in Blocks
  PROVE  Line[b] \subseteq Blocks /\ Genesis \in Line[b]
<1> DEFINE S == {c \in Blocks : Line[c] \subseteq Blocks /\ Genesis \in Line[c]}
<1>1. Genesis \in S
  BY ParentIs, LineIs
<1>2. \A c \in Blocks \ {Genesis} : Parent[c] \in S => c \in S
  BY ParentIs, LineIs
<1> HIDE DEF S
<1>3. S = Blocks
  <2>1. S \in SUBSET Blocks
    BY DEF S
  <2> QED BY <1>1, <1>2, <2>1, TreeInduction
<1> QED BY <1>3 DEF S

\* An ancestor's ancestors are the block's own.
LEMMA LineTrans ==
  ASSUME NEW b \in Blocks, NEW a \in Line[b]
  PROVE  a \in Blocks /\ Line[a] \subseteq Line[b]
<1> DEFINE S == {c \in Blocks : \A d \in Line[c] : Line[d] \subseteq Line[c]}
<1>1. Genesis \in S
  BY ParentIs, LineIs
<1>2. \A c \in Blocks \ {Genesis} : Parent[c] \in S => c \in S
  BY ParentIs, LineIs
<1> HIDE DEF S
<1>3. S = Blocks
  <2>1. S \in SUBSET Blocks
    BY DEF S
  <2> QED BY <1>1, <1>2, <2>1, TreeInduction
<1> QED BY <1>3, LineType DEF S

\* No block is above itself.
LEMMA NotInParent ==
  ASSUME NEW b \in Blocks \ {Genesis}
  PROVE  b \notin Line[Parent[b]]
<1> SUFFICES ASSUME b \in Line[Parent[b]] PROVE FALSE
  OBVIOUS
<1> DEFINE Q == {c \in Blocks : b \in Line[c]}
<1>1. b \in Q
  BY LineIs
<1>2. ASSUME NEW c \in Q PROVE Parent[c] \in Q
  BY <1>2, LineIs, ParentIs
<1> HIDE DEF Q
<1>3. Q \in SUBSET Blocks
  BY DEF Q
<1> QED BY <1>1, <1>2, <1>3, ChainstateAssumption

\* Work goes up by one from block to block.
LEMMA WorkIs ==
  /\ Work \in [Blocks -> Nat]
  /\ \A b \in Blocks \ {Genesis} : Work[b] = Work[Parent[b]] + 1
<1> DEFINE S == {c \in Blocks : IsFiniteSet(Line[c])}
<1>1. Genesis \in S
  <2>1. IsFiniteSet({Genesis})
    BY FS_Singleton
  <2> QED BY <2>1, ParentIs, LineIs, Zenon
<1>2. ASSUME NEW c \in Blocks \ {Genesis}, IsFiniteSet(Line[Parent[c]])
      PROVE  IsFiniteSet(Line[c]) /\ Cardinality(Line[c]) = Cardinality(Line[Parent[c]]) + 1
  <2>1. c \notin Line[Parent[c]] /\ Line[c] = Line[Parent[c]] \cup {c}
    BY NotInParent, LineIs
  <2> QED BY <1>2, <2>1, FS_AddElement
<1>3. S = Blocks
  <2>1. \A c \in Blocks \ {Genesis} : Parent[c] \in S => c \in S
    BY <1>2
  <2> HIDE DEF S
  <2>2. S \in SUBSET Blocks
    BY DEF S
  <2> QED BY <1>1, <2>1, <2>2, TreeInduction
<1>4. \A b \in Blocks : Cardinality(Line[b]) \in Nat
  BY <1>3, FS_CardinalityType
<1> QED BY <1>2, <1>3, <1>4, ParentIs DEF Work

\* An ancestor has less work.
LEMMA LineWork ==
  ASSUME NEW b \in Blocks, NEW a \in Line[b], a # b
  PROVE  a \in Blocks /\ Work[a] < Work[b] /\ b # Genesis /\ a \in Line[Parent[b]]
<1> DEFINE S == {c \in Blocks : \A d \in Line[c] \ {c} : Work[d] < Work[c]}
<1>1. Genesis \in S
  BY ParentIs, LineIs
<1>2. ASSUME NEW c \in Blocks \ {Genesis}, Parent[c] \in S PROVE c \in S
  <2>1. Line[c] = {c} \cup Line[Parent[c]] /\ Work[c] = Work[Parent[c]] + 1 /\ Parent[c] \in Blocks
    BY LineIs, WorkIs, ParentIs
  <2>2. ASSUME NEW d \in Line[c] \ {c} PROVE Work[d] < Work[c]
    <3>1. d \in Blocks /\ Work[d] \in Nat /\ Work[Parent[c]] \in Nat
      BY <2>1, LineType, WorkIs
    <3>2. d = Parent[c] \/ Work[d] < Work[Parent[c]]
      BY <1>2, <2>1
    <3> QED BY <2>1, <3>1, <3>2
  <2> QED BY <2>2
<1> HIDE DEF S
<1>3. S = Blocks
  <2>1. S \in SUBSET Blocks
    BY DEF S
  <2> QED BY <1>1, <1>2, <2>1, TreeInduction
<1> QED BY <1>3, LineType, LineIs DEF S

\* Of two ancestors of a block one is the other's.
LEMMA LineTotal ==
  ASSUME NEW b \in Blocks, NEW a \in Line[b], NEW c \in Line[b]
  PROVE  a \in Line[c] \/ c \in Line[a]
<1> DEFINE S == {d \in Blocks : \A x, y \in Line[d] : x \in Line[y] \/ y \in Line[x]}
<1>1. Genesis \in S
  BY ParentIs, LineIs
<1>2. \A d \in Blocks \ {Genesis} : Parent[d] \in S => d \in S
  BY ParentIs, LineIs
<1> HIDE DEF S
<1>3. S = Blocks
  <2>1. S \in SUBSET Blocks
    BY DEF S
  <2> QED BY <1>1, <1>2, <2>1, TreeInduction
<1> QED BY <1>3 DEF S

\* There is a next block on the way from an ancestor to a block.
LEMMA NextOnLine ==
  ASSUME NEW b \in Blocks, NEW a \in Line[b], a # b
  PROVE  \E n \in Line[b] : Parent[n] = a
<1> DEFINE S == {d \in Blocks : \A x \in Line[d] \ {d} : \E n \in Line[d] : Parent[n] = x}
<1>1. Genesis \in S
  BY ParentIs, LineIs
<1>2. \A d \in Blocks \ {Genesis} : Parent[d] \in S => d \in S
  BY ParentIs, LineIs
<1> HIDE DEF S
<1>3. S = Blocks
  <2>1. S \in SUBSET Blocks
    BY DEF S
  <2> QED BY <1>1, <1>2, <2>1, TreeInduction
<1> QED BY <1>3 DEF S

-----------------------------------------------------------------------------
(* CBlockIndexWorkComparator.                                              *)

\* It is a total order, whatever the sequence numbers are.
LEMMA BeforeOrder ==
  ASSUME NEW id \in [Blocks -> Int], NEW a \in Blocks, NEW b \in Blocks
  PROVE  /\ ~Before(id, a, a)
         /\ Before(id, a, b) => ~Before(id, b, a)
         /\ a # b => Before(id, a, b) \/ Before(id, b, a)
BY WorkIs, ChainstateAssumption DEF Before

LEMMA BeforeTrans ==
  ASSUME NEW id \in [Blocks -> Int], NEW a \in Blocks, NEW b \in Blocks, NEW c \in Blocks
  PROVE  /\ Before(id, a, b) /\ Before(id, b, c) => Before(id, a, c)
         /\ ~Before(id, a, b) /\ ~Before(id, b, c) => ~Before(id, a, c)
BY WorkIs, ChainstateAssumption DEF Before

\* An ancestor sorts before a block.
LEMMA LineBefore ==
  ASSUME NEW id \in [Blocks -> Int], NEW b \in Blocks, NEW a \in Line[b], a # b
  PROVE  Before(id, a, b)
BY LineWork, WorkIs DEF Before

\* Only the numbers of the two blocks matter.
LEMMA BeforeSame ==
  ASSUME NEW id \in [Blocks -> Int], NEW jd \in [Blocks -> Int],
         NEW a \in Blocks, NEW b \in Blocks, id[a] = jd[a], id[b] = jd[b]
  PROVE  Before(id, a, b) <=> Before(jd, a, b)
BY DEF Before

\* A block whose number goes down stays after what was before it.
LEMMA BeforeLowered ==
  ASSUME NEW id \in [Blocks -> Int], NEW a \in Blocks, NEW b \in Blocks,
         NEW n \in Int, n < id[b], Before(id, a, b)
  PROVE  Before([id EXCEPT ![b] = n], a, b)
<1>1. a # b
  BY BeforeOrder
<1> QED BY <1>1, WorkIs DEF Before

\* A set of numbers that is not empty has a least one.
LEMMA LeastNumber ==
  ASSUME NEW T, T \subseteq Nat, T # {}
  PROVE  \E m \in T : \A k \in T : m <= k
<1>1. PICK m \in T : \A k \in T : ~(<<k, m>> \in OpToRel(<, Nat))
  BY NatLessThanWellFounded, WFMin, Zenon
<1>2. ASSUME NEW k \in T PROVE m <= k
  <2>1. k \in Nat /\ m \in Nat
    OBVIOUS
  <2>2. ~(k < m)
    BY <1>1, <2>1, Zenon DEF OpToRel
  <2> QED BY <2>1, <2>2
<1> QED BY <1>2

\* A finite set of blocks that is not empty has a best one.
LEMMA BestExists ==
  ASSUME NEW id \in [Blocks -> Int], NEW S \in SUBSET Blocks, IsFiniteSet(S), S # {}
  PROVE  \E c \in S : \A d \in S : ~Before(id, c, d)
<1> DEFINE Has(X) == \E c \in X : \A d \in X : ~Before(id, c, d)
           Lacks == {X \in SUBSET Blocks : IsFiniteSet(X) /\ X # {} /\ ~Has(X)}
           T == {Cardinality(X) : X \in Lacks}
<1> SUFFICES ASSUME S \in Lacks PROVE FALSE
  OBVIOUS
<1>1. T \subseteq Nat /\ T # {}
  BY FS_CardinalityType
<1>2. PICK m \in T : \A k \in T : m <= k
  <2> HIDE DEF T
  <2> QED BY <1>1, LeastNumber, Zenon
<1>3. PICK X \in Lacks : m = Cardinality(X)
  OBVIOUS
<1>4. PICK x \in X : TRUE
  OBVIOUS
<1>5. IsFiniteSet(X \ {x}) /\ Cardinality(X \ {x}) = Cardinality(X) - 1 /\ m \in Nat
  BY <1>1, <1>3, <1>4, FS_RemoveElement, Zenon
<1>6. X \ {x} \notin Lacks
  <2>1. SUFFICES ASSUME X \ {x} \in Lacks PROVE FALSE
    OBVIOUS
  <2>2. Cardinality(X \ {x}) \in T
    BY <2>1, Zenon
  <2>3. m <= m - 1
    BY <1>2, <1>3, <1>5, <2>2, Zenon
  <2> QED BY <1>5, <2>3
<1>7. CASE X \ {x} = {}
  BY <1>3, <1>4, <1>7, BeforeOrder
<1>8. CASE X \ {x} # {}
  <2>1. PICK c \in X \ {x} : \A d \in X \ {x} : ~Before(id, c, d)
    BY <1>3, <1>5, <1>6, <1>8
  <2>2. X \in SUBSET Blocks /\ c \in Blocks /\ x \in Blocks
    BY <1>3, <1>4, <2>1
  <2>3. CASE Before(id, c, x)
    <3>1. ASSUME NEW d \in X PROVE ~Before(id, x, d)
      <4>1. d \in Blocks
        BY <2>2
      <4>2. CASE d = x
        BY <2>2, <4>2, BeforeOrder
      <4>3. CASE d # x
        <5>1. ~Before(id, c, d)
          BY <2>1, <4>3
        <5> QED BY <2>2, <2>3, <4>1, <5>1, BeforeTrans, Zenon
      <4> QED BY <4>2, <4>3
    <3> QED BY <1>3, <1>4, <3>1
  <2>4. CASE ~Before(id, c, x)
    BY <1>3, <2>1, <2>4
  <2> QED BY <2>3, <2>4
<1> QED BY <1>7, <1>8

-----------------------------------------------------------------------------
(* What holds in every state, whatever the operator calls.                 *)

\* The places where a thread has m_cs_chainstate, and where it also has cs_main.
Owning == {"loop", "find", "disconnect", "connect", "again", "walk"}
Holding == {"find", "disconnect", "connect", "again"}

\* The two locks are where the program counters say.
LocksInv ==
  /\ \A t \in Threads : pc[t] \in Owning <=> csChainstate = t
  /\ \A t \in Threads : pc[t] \in Holding <=> csMain = t

\* The blocks of b's chain are there and none is flagged.
Sound(b) == Line[b] \subseteq data /\ \A a \in Line[b] : ~Failed(a)

\* The block index.  A block is only stored on its parent, and the active chain
\* has none that is flagged.
IndexInv ==
  /\ IsFiniteSet(known)
  /\ \A b \in known : Line[b] \subseteq known
  /\ \A b \in data : Line[b] \subseteq data
  /\ tip \in data /\ Sound(tip) /\ Line[tip] \subseteq Good
  /\ failedList \subseteq failedValid

\* The variables of InvalidateBlock: only its first turn has the block it was
\* called for still to disconnect.
WalkInv ==
  (\E t \in Threads : pc[t] = "walk") =>
    /\ local.most = NoBlock
    /\ local.target \in known \ {Genesis} /\ local.mark \in known
    /\ local.mark = local.target \/ local.mark \notin Line[tip]
    /\ local.saved \subseteq data

\* The variables of ActivateBestChain.
StartInv ==
  csMain # NoThread =>
    /\ local.start \in data /\ Sound(local.start) /\ Line[local.start] \subseteq Good
    /\ local.most # NoBlock => ~Worse(local.most, local.start)

MostInv ==
  /\ csChainstate = NoThread => local.most = NoBlock
  /\ local.most # NoBlock => local.most \in data /\ Sound(local.most)
  /\ \A t \in Threads :
       /\ pc[t] = "loop" /\ local.most # NoBlock => tip \in Line[local.most] \ {local.most}
       /\ pc[t] = "find" /\ local.most # NoBlock => Worse(tip, local.most)
       /\ pc[t] = "disconnect" => local.most # NoBlock /\ Worse(tip, local.most)
       /\ pc[t] = "connect" => local.most # NoBlock /\ tip \in Line[local.most] \ {local.most}
       /\ pc[t] = "again" /\ local.most # NoBlock => tip \in Line[local.most]

\* b is not worse than the tip and, while cs_main is held, than the tip was.
Above(b) == ~Worse(b, tip) /\ (csMain # NoThread => ~Worse(b, local.start))

\* No candidate is worse than the tip.
CandidatesAbove == candidates \subseteq data /\ \A c \in candidates : Above(c)

SafeInv ==
  /\ TypeOK /\ LocksInv /\ IndexInv /\ WalkInv /\ StartInv /\ MostInv /\ CandidatesAbove

\* What the type invariant says of each variable.
LEMMA Types ==
  ASSUME TypeOK
  PROVE  /\ known \subseteq Blocks /\ data \subseteq known /\ scripts \subseteq known
         /\ failedValid \subseteq known /\ failedChild \subseteq known
         /\ failedList \subseteq Blocks /\ candidates \subseteq Blocks
         /\ sequence \in [Blocks -> Int] /\ tip \in Blocks
         /\ counters.next \in Nat /\ counters.reverse \in Int /\ counters.precious \in Nat
         /\ csMain \in Threads \cup {NoThread} /\ csChainstate \in Threads \cup {NoThread}
         /\ local.most \in Blocks \cup {NoBlock} /\ local.start \in Blocks \cup {NoBlock}
         /\ local.target \in Blocks \cup {NoBlock} /\ local.mark \in Blocks \cup {NoBlock}
         /\ local.saved \subseteq Blocks
<1>1. /\ known \subseteq Blocks /\ failedList \subseteq Blocks /\ candidates \subseteq Blocks
      /\ data \subseteq known /\ scripts \subseteq known
      /\ failedValid \subseteq known /\ failedChild \subseteq known
  BY DEF TypeOK
<1>2. counters \in [next: Nat, reverse: Int, precious: Nat]
  BY DEF TypeOK
<1>3. local \in [most: Blocks \cup {NoBlock}, start: Blocks \cup {NoBlock},
                 old: Blocks \cup {NoBlock}, connected: BOOLEAN,
                 target: Blocks \cup {NoBlock}, mark: Blocks \cup {NoBlock},
                 saved: SUBSET Blocks]
  BY DEF TypeOK
<1>4. /\ local.most \in Blocks \cup {NoBlock} /\ local.start \in Blocks \cup {NoBlock}
      /\ local.target \in Blocks \cup {NoBlock} /\ local.mark \in Blocks \cup {NoBlock}
      /\ local.saved \subseteq Blocks
  BY <1>3
<1> QED BY <1>1, <1>2, <1>4 DEF TypeOK

\* A chain that is sound stays so when only descendants of flagged blocks are
\* flagged.
LEMMA SoundKept ==
  ASSUME NEW x \in Blocks, Sound(x), data \subseteq data',
         \A a \in Line[x] : Failed(a)' => \E f \in Line[a] : Failed(f)
  PROVE  Sound(x)'
<1>1. \A a \in Line[x] : ~Failed(a)'
  BY LineTrans DEF Sound
<1> QED BY <1>1 DEF Sound

\* The chains and heights an outside step must keep: the tip, the locks and the
\* variables of their holder stay, and no sound chain gets a flag.
LEMMA OutsideStep ==
  ASSUME SafeInv, csMain = NoThread, UNCHANGED <<tip, locks, local>>, TypeOK',
         known \subseteq known', data \subseteq data', IsFiniteSet(known'),
         \A b \in known' \ known : Line[b] \subseteq known',
         \A b \in data' \ data : Line[b] \subseteq data',
         failedList' \subseteq failedValid',
         \A x \in data : Sound(x) => Sound(x)',
         pc' = pc \/ (\E t \in Threads : pc[t] = "idle" /\ pc' = [pc EXCEPT ![t] = "activate"]),
         CandidatesAbove'
  PROVE  SafeInv'
<1> USE DEF SafeInv, locks
<1>1. pc \in [Threads -> {"idle", "activate", "loop", "find", "disconnect", "connect",
                          "again", "walk"}]
  BY DEF TypeOK
<1>2. \A u \in Threads : pc'[u] = pc[u] \/ (pc[u] = "idle" /\ pc'[u] = "activate")
  BY <1>1
<1>3. LocksInv'
  BY <1>2 DEF LocksInv, Owning, Holding
<1>4. IndexInv'
  BY DEF IndexInv
<1>5. WalkInv'
  BY <1>2 DEF WalkInv
<1>6. StartInv'
  BY DEF StartInv
<1>7. MostInv'
  <2>1. csChainstate' = NoThread => local'.most = NoBlock
    BY DEF MostInv
  <2>2. local'.most # NoBlock => local'.most \in data' /\ Sound(local.most)'
    BY DEF MostInv
  <2>3. \A u \in Threads : pc[u] \notin Holding
    <3>1. NoThread \notin Threads
      BY ChainstateAssumption
    <3> QED BY <3>1 DEF LocksInv
  <2> QED BY <1>2, <2>1, <2>2, <2>3 DEF MostInv, Holding
<1> QED BY <1>3, <1>4, <1>5, <1>6, <1>7

\* The type invariant after a step that leaves the tip, the locks and the
\* variables of their holder alone.
LEMMA OutsideTypes ==
  ASSUME TypeOK, UNCHANGED <<tip, locks, local>>,
         known' \subseteq Blocks,
         data' \cup scripts' \cup failedValid' \cup failedChild' \subseteq known',
         failedList' \subseteq Blocks, candidates' \subseteq Blocks,
         sequence' \in [Blocks -> Int], counters' \in [next: Nat, reverse: Int, precious: Nat],
         pc' = pc \/ (\E t \in Threads : pc' = [pc EXCEPT ![t] = "activate"]),
         calls' \in 0 .. MaxCalls
  PROVE  TypeOK'
<1>1. \A set \in {known', data', scripts', failedValid', failedChild', failedList', candidates'} :
        set \subseteq Blocks
  OBVIOUS
<1>2. pc' \in [Threads -> {"idle", "activate", "loop", "find", "disconnect", "connect",
                          "again", "walk"}]
  BY DEF TypeOK
<1> QED BY <1>1, <1>2 DEF TypeOK, locks

\* A header is added on a known parent, or refused and its failed ancestor
\* found out.
LEMMA HeaderStep ==
  ASSUME SafeInv, NEW b \in Blocks, ProcessHeader(b) PROVE SafeInv'
<1> USE DEF SafeInv
<1>0. /\ csMain = NoThread /\ b \notin known /\ Parent[b] \in known
      /\ UNCHANGED <<data, scripts, failedValid, failedList, order, tip, locks, pc, local, calls>>
      /\ \/ /\ known' = known
            /\ \E f \in failedList \cap Line[Parent[b]] :
                 failedChild' = failedChild \cup {c \in Line[Parent[b]] : f \in Line[c] /\ c # f}
         \/ known' = known \cup {b} /\ failedChild' = failedChild
  BY DEF ProcessHeader, FailedAncestor, HeaderAccepted
<1>1. /\ known \subseteq Blocks /\ data \cup scripts \cup failedValid \cup failedChild \subseteq known
      /\ failedList \subseteq Blocks /\ candidates \subseteq Blocks
      /\ sequence \in [Blocks -> Int] /\ counters \in [next: Nat, reverse: Int, precious: Nat]
      /\ calls \in 0 .. MaxCalls
  BY Types DEF TypeOK
<1>2. Line[b] = {b} \cup Line[Parent[b]] /\ Line[Parent[b]] \subseteq known
  BY <1>0, <1>1, ParentIs, LineIs DEF IndexInv
<1>3. TypeOK'
  BY <1>0, <1>1, <1>2, OutsideTypes DEF order
<1>4. IsFiniteSet(known')
  BY <1>0, FS_AddElement DEF IndexInv
<1>5. \A x \in data : Sound(x) => Sound(x)'
  <2> SUFFICES ASSUME NEW x \in data, Sound(x) PROVE Sound(x)'
    OBVIOUS
  <2>1. \A a \in Line[x] : Failed(a)' => \E f \in Line[a] : Failed(f)
    <3> SUFFICES ASSUME NEW a \in Line[x], Failed(a)' PROVE \E f \in Line[a] : Failed(f)
      OBVIOUS
    <3>1. a \in Blocks
      BY <1>1, LineTrans
    <3>2. CASE Failed(a)
      BY <3>1, <3>2, LineIs
    <3>3. CASE ~Failed(a)
      <4>1. PICK f \in failedList : f \in Line[a]
        BY <1>0, <3>3 DEF Failed
      <4> QED BY <4>1 DEF Failed, IndexInv
    <3> QED BY <3>2, <3>3
  <2> QED BY <1>0, <1>1, <2>1, SoundKept
<1>6. CandidatesAbove'
  BY <1>0 DEF CandidatesAbove, Above, Worse, order, locks
<1> QED BY <1>0, <1>1, <1>2, <1>3, <1>4, <1>5, <1>6, OutsideStep DEF IndexInv

\* What NewBlock requires.
LEMMA NewBlockIs ==
  ASSUME SafeInv, NEW t \in Threads, NEW b \in Blocks, NewBlock(t, b)
  PROVE  /\ csMain = NoThread /\ pc[t] = "idle" /\ b \notin data
         /\ known' = known \cup {b} /\ known' \subseteq Blocks /\ IsFiniteSet(known')
         /\ b # Genesis /\ Parent[b] \in data /\ Line[b] \subseteq data \cup {b}
         /\ ~Failed(b) \/ b \notin known
<1> USE DEF SafeInv
<1>1. /\ csMain = NoThread /\ pc[t] = "idle" /\ b \notin data
      /\ known' = known \cup {b} /\ Parent[b] \in data
      /\ ~Failed(b) \/ b \notin known
  BY DEF NewBlock, HeaderAccepted, Usable
<1>2. known \subseteq Blocks /\ data \subseteq known
  BY Types
<1>3. b # Genesis
  BY <1>1, <1>2, ParentIs
<1>4. IsFiniteSet(known')
  BY <1>1, FS_AddElement DEF IndexInv
<1>5. Line[b] = {b} \cup Line[Parent[b]] /\ Line[Parent[b]] \subseteq data
  BY <1>1, <1>3, LineIs DEF IndexInv
<1> QED BY <1>1, <1>2, <1>3, <1>4, <1>5

\* A block is stored on a parent that is there.
LEMMA StoreStep ==
  ASSUME SafeInv, NEW t \in Threads, NEW b \in Blocks, StoreBlock(t, b) PROVE SafeInv'
<1> USE DEF SafeInv
<1>1. /\ csMain = NoThread /\ pc[t] = "idle" /\ b \notin data
      /\ known' = known \cup {b} /\ known' \subseteq Blocks /\ IsFiniteSet(known')
      /\ Line[b] \subseteq data \cup {b}
  BY NewBlockIs DEF StoreBlock
<1>2. /\ data' = data \cup {b} /\ sequence' = [sequence EXCEPT ![b] = counters.next]
      /\ counters' = [counters EXCEPT !.next = @ + 1]
      /\ candidates' = IF Before(sequence', b, tip) THEN candidates ELSE candidates \cup {b}
      /\ pc' = [pc EXCEPT ![t] = "activate"]
      /\ UNCHANGED <<scripts, failedValid, failedChild, failedList, tip, locks, local, calls>>
  BY DEF StoreBlock, Goto
<1>3. /\ known \subseteq Blocks /\ data \cup scripts \cup failedValid \cup failedChild \subseteq known
      /\ failedList \subseteq Blocks /\ candidates \subseteq data /\ tip \in data
      /\ sequence \in [Blocks -> Int] /\ counters \in [next: Nat, reverse: Int, precious: Nat]
      /\ calls \in 0 .. MaxCalls
  BY Types DEF TypeOK, IndexInv, CandidatesAbove
<1>4. sequence' \in [Blocks -> Int] /\ counters' \in [next: Nat, reverse: Int, precious: Nat]
  BY <1>2, <1>3
<1>5. TypeOK'
  BY <1>1, <1>2, <1>3, <1>4, OutsideTypes, Zenon
<1>6. \A x \in data : Sound(x) => Sound(x)'
  BY <1>2 DEF Sound, Failed
<1>7. CandidatesAbove'
  <2>1. \A c \in candidates : ~Before(sequence', c, tip)
    <3> SUFFICES ASSUME NEW c \in candidates PROVE ~Before(sequence', c, tip)
      OBVIOUS
    <3>1. ~Before(sequence, c, tip)
      BY DEF CandidatesAbove, Above, Worse
    <3>2. c \in Blocks /\ tip \in Blocks /\ c # b /\ tip # b
      BY <1>1, <1>3
    <3>3. sequence'[c] = sequence[c] /\ sequence'[tip] = sequence[tip]
      BY <1>2, <1>3, <3>2
    <3> QED BY <1>3, <1>4, <3>1, <3>2, <3>3, BeforeSame
  <2> QED BY <1>1, <1>2, <1>3, <2>1, Zenon DEF CandidatesAbove, Above, Worse, locks
<1> QED BY <1>1, <1>2, <1>3, <1>5, <1>6, <1>7, OutsideStep, Zenon DEF IndexInv

\* A block that is not processed leaves its header.
LEMMA IgnoreStep ==
  ASSUME SafeInv, NEW t \in Threads, NEW b \in Blocks, IgnoreBlock(t, b) PROVE SafeInv'
<1> USE DEF SafeInv
<1>1. /\ csMain = NoThread /\ pc[t] = "idle"
      /\ known' = known \cup {b} /\ known' \subseteq Blocks /\ IsFiniteSet(known')
      /\ Line[b] \subseteq data \cup {b}
  BY NewBlockIs DEF IgnoreBlock
<1>2. /\ pc' = [pc EXCEPT ![t] = "activate"]
      /\ UNCHANGED <<data, scripts, failedValid, failedChild, failedList, order, tip, locks, local, calls>>
  BY DEF IgnoreBlock, Goto
<1>3. /\ known \subseteq Blocks /\ data \cup scripts \cup failedValid \cup failedChild \subseteq known
      /\ failedList \subseteq Blocks /\ candidates \subseteq Blocks
      /\ sequence \in [Blocks -> Int] /\ counters \in [next: Nat, reverse: Int, precious: Nat]
      /\ calls \in 0 .. MaxCalls
  BY Types DEF TypeOK
<1>4. TypeOK'
  BY <1>1, <1>2, <1>3, OutsideTypes, Zenon DEF order
<1>5. \A x \in data : Sound(x) => Sound(x)'
  BY <1>2 DEF Sound, Failed
<1>6. CandidatesAbove'
  BY <1>2 DEF CandidatesAbove, Above, Worse, order, locks
<1> QED BY <1>1, <1>2, <1>3, <1>4, <1>5, <1>6, OutsideStep, Zenon DEF IndexInv

\* A malformed block is flagged, which has no data.
LEMMA RefuseStep ==
  ASSUME SafeInv, NEW t \in Threads, NEW b \in Blocks, RefuseBlock(t, b) PROVE SafeInv'
<1> USE DEF SafeInv
<1>1. /\ csMain = NoThread /\ b \notin data
      /\ known' = known \cup {b} /\ known' \subseteq Blocks /\ IsFiniteSet(known')
      /\ Line[b] \subseteq data \cup {b}
  BY NewBlockIs DEF RefuseBlock
<1>2. /\ failedValid' = failedValid \cup {b}
      /\ UNCHANGED <<data, scripts, failedChild, failedList, order, tip, locks, pc, local, calls>>
  BY DEF RefuseBlock
<1>3. /\ known \subseteq Blocks /\ data \cup scripts \cup failedValid \cup failedChild \subseteq known
      /\ failedList \subseteq Blocks /\ candidates \subseteq Blocks
      /\ sequence \in [Blocks -> Int] /\ counters \in [next: Nat, reverse: Int, precious: Nat]
      /\ calls \in 0 .. MaxCalls
  BY Types DEF TypeOK
<1>4. TypeOK'
  BY <1>1, <1>2, <1>3, OutsideTypes DEF order
<1>5. \A x \in data : Sound(x) => Sound(x)'
  BY <1>1, <1>2 DEF Sound, Failed
<1>6. CandidatesAbove'
  BY <1>2 DEF CandidatesAbove, Above, Worse, order, locks
<1> QED BY <1>1, <1>2, <1>3, <1>4, <1>5, <1>6, OutsideStep DEF IndexInv

\* reconsiderblock takes flags away and adds candidates that are better than the
\* tip.
LEMMA ReconsiderStep ==
  ASSUME SafeInv, NEW t \in Threads, NEW b \in Blocks, ReconsiderBlock(t, b) PROVE SafeInv'
<1> USE DEF SafeInv
<1> DEFINE below == {c \in known : b \in Line[c] /\ ~Usable(c)}
           reset == below \cup {c \in Line[b] : Failed(c)}
<1>1. /\ csMain = NoThread /\ pc[t] = "idle" /\ calls < MaxCalls /\ calls' = calls + 1
      /\ failedValid' = failedValid \ reset /\ failedChild' = failedChild \ reset
      /\ failedList' = failedList \ reset
      /\ candidates' = candidates \cup {c \in below \cap data : Worse(tip, c)}
      /\ pc' = [pc EXCEPT ![t] = "activate"]
      /\ UNCHANGED <<known, data, scripts, sequence, counters, tip, locks, local>>
  BY DEF ReconsiderBlock, Call, Goto
<1>2. /\ known \subseteq Blocks /\ data \cup scripts \cup failedValid \cup failedChild \subseteq known
      /\ failedList \subseteq Blocks /\ candidates \subseteq data /\ tip \in data
      /\ sequence \in [Blocks -> Int] /\ counters \in [next: Nat, reverse: Int, precious: Nat]
      /\ calls \in 0 .. MaxCalls /\ MaxCalls \in Nat
  BY Types, ChainstateAssumption DEF TypeOK, IndexInv, CandidatesAbove
<1> HIDE DEF reset, below
<1>3. calls' \in 0 .. MaxCalls
  BY <1>1, <1>2
<1>4. TypeOK'
  BY <1>1, <1>2, <1>3, OutsideTypes, Zenon
<1>5. \A x \in data : Sound(x) => Sound(x)'
  BY <1>1 DEF Sound, Failed
<1>6. CandidatesAbove'
  <2>1. \A c \in candidates : ~Worse(c, tip)
    BY DEF CandidatesAbove, Above
  <2>2. \A c \in data : Worse(tip, c) => ~Worse(c, tip)
    BY <1>2, BeforeOrder DEF Worse
  <2> QED BY <1>1, <1>2, <2>1, <2>2 DEF CandidatesAbove, Above, Worse, locks
<1> QED BY <1>1, <1>2, <1>4, <1>5, <1>6, OutsideStep, Zenon DEF IndexInv

\* preciousblock changes one number and prunes with it.
LEMMA PreciousStep ==
  ASSUME SafeInv, NEW t \in Threads, NEW b \in Blocks, PreciousBlock(t, b) PROVE SafeInv'
<1> USE DEF SafeInv
<1> DEFINE id == IF Work[tip] > counters.precious THEN -1 ELSE counters.reverse
<1>1. /\ csMain = NoThread /\ pc[t] = "idle" /\ calls < MaxCalls /\ calls' = calls + 1
      /\ sequence' = [sequence EXCEPT ![b] = id]
      /\ counters' = [counters EXCEPT !.reverse = id - 1, !.precious = Work[tip]]
      /\ candidates' = IF Usable(b) THEN Pruned(candidates \cup {b}, sequence', tip)
                       ELSE candidates \ {b}
      /\ pc' = [pc EXCEPT ![t] = "activate"]
      /\ UNCHANGED <<index, tip, locks, local>>
  BY DEF PreciousBlock, Call, Goto
<1>2. /\ known \subseteq Blocks /\ data \cup scripts \cup failedValid \cup failedChild \subseteq known
      /\ failedList \subseteq Blocks /\ candidates \subseteq data /\ tip \in data
      /\ sequence \in [Blocks -> Int] /\ counters \in [next: Nat, reverse: Int, precious: Nat]
      /\ calls \in 0 .. MaxCalls /\ MaxCalls \in Nat
  BY Types, ChainstateAssumption DEF TypeOK, IndexInv, CandidatesAbove
<1>3. id \in Int /\ Work[tip] \in Nat
  BY <1>2, WorkIs
<1> HIDE DEF id
<1>4. /\ sequence' \in [Blocks -> Int] /\ counters' \in [next: Nat, reverse: Int, precious: Nat]
      /\ calls' \in 0 .. MaxCalls
  <2>1. sequence' \in [Blocks -> Int]
    BY <1>1, <1>2, <1>3
  <2>2. counters' \in [next: Nat, reverse: Int, precious: Nat]
    <3>1. id - 1 \in Int
      BY <1>3
    <3> QED BY <1>1, <1>2, <1>3, <3>1, Zenon
  <2>3. calls' \in 0 .. MaxCalls
    BY <1>1, <1>2
  <2> QED BY <2>1, <2>2, <2>3
<1>5. candidates' \subseteq data
  BY <1>1, <1>2 DEF Usable, Pruned
<1>6. TypeOK'
  BY <1>1, <1>2, <1>4, <1>5, OutsideTypes, Zenon DEF index
<1>7. \A x \in data : Sound(x) => Sound(x)'
  BY <1>1 DEF Sound, Failed, index
<1>8. \A c \in candidates' : ~Before(sequence', c, tip)
  <2>1. CASE Usable(b)
    BY <1>1, <2>1 DEF Pruned
  <2>2. CASE ~Usable(b)
    <3> SUFFICES ASSUME NEW c \in candidates \ {b} PROVE ~Before(sequence', c, tip)
      BY <1>1, <2>2, Zenon
    <3>1. tip # b
      BY <2>2, LineIs, <1>2 DEF IndexInv, Sound, Usable
    <3>2. c \in Blocks /\ tip \in Blocks /\ sequence'[c] = sequence[c] /\ sequence'[tip] = sequence[tip]
      BY <1>1, <1>2, <3>1
    <3>3. ~Before(sequence, c, tip)
      BY DEF CandidatesAbove, Above, Worse
    <3> QED BY <1>2, <1>4, <3>2, <3>3, BeforeSame
  <2> QED BY <2>1, <2>2
<1>9. CandidatesAbove'
  BY <1>1, <1>5, <1>8, Zenon DEF CandidatesAbove, Above, Worse, locks, index
<1> QED BY <1>1, <1>2, <1>6, <1>7, <1>9, OutsideStep, Zenon DEF IndexInv, index

\* A restart flags descendants of flagged blocks and rebuilds the candidates.
LEMMA RestartStep ==
  ASSUME SafeInv, NEW t \in Threads, Restart(t) PROVE SafeInv'
<1> USE DEF SafeInv
<1> DEFINE more == {c \in known : ~Failed(c) /\ \E a \in Line[c] : Failed(a)}
           id == [b \in Blocks |-> 0]
<1>1. /\ csMain = NoThread /\ pc[t] = "idle" /\ calls < MaxCalls /\ calls' = calls + 1
      /\ failedChild' = failedChild \cup more /\ failedList' = {}
      /\ sequence' = id /\ counters' = [next |-> 1, reverse |-> -1, precious |-> 0]
      /\ candidates' = Pruned(data \ (failedValid \cup failedChild'), id, tip)
      /\ pc' = [pc EXCEPT ![t] = "activate"]
      /\ UNCHANGED <<known, data, scripts, failedValid, tip, locks, local>>
  BY DEF Restart, Call, Goto
<1>2. /\ known \subseteq Blocks /\ data \cup scripts \cup failedValid \cup failedChild \subseteq known
      /\ calls \in 0 .. MaxCalls /\ MaxCalls \in Nat
  BY Types, ChainstateAssumption DEF TypeOK
<1>3. /\ sequence' \in [Blocks -> Int] /\ counters' \in [next: Nat, reverse: Int, precious: Nat]
      /\ calls' \in 0 .. MaxCalls
  <2>0. calls' = calls + 1 /\ calls < MaxCalls
    BY <1>1, Zenon
  <2>1. calls' \in 0 .. MaxCalls
    BY <1>2, <2>0
  <2>2. sequence' \in [Blocks -> Int]
    <3>1. sequence' = id
      BY <1>1
    <3>2. id \in [Blocks -> Int]
      OBVIOUS
    <3> QED BY <3>1, <3>2
  <2>3. counters' \in [next: Nat, reverse: Int, precious: Nat]
    BY <1>1
  <2> QED BY <2>1, <2>2, <2>3
<1>4. candidates' \subseteq data /\ \A c \in candidates' : ~Before(sequence', c, tip)
  BY <1>1 DEF Pruned
<1>5. TypeOK'
  BY <1>1, <1>2, <1>3, <1>4, OutsideTypes, Zenon
<1>6. \A x \in data : Sound(x) => Sound(x)'
  <2> SUFFICES ASSUME NEW x \in data, Sound(x) PROVE Sound(x)'
    OBVIOUS
  <2>1. \A a \in Line[x] : Failed(a)' => \E f \in Line[a] : Failed(f)
    <3> SUFFICES ASSUME NEW a \in Line[x], Failed(a)' PROVE \E f \in Line[a] : Failed(f)
      OBVIOUS
    <3>1. a \in Line[a]
      BY <1>2, LineTrans, LineIs
    <3> QED BY <1>1, <3>1 DEF Failed
  <2> QED BY <1>1, <1>2, <2>1, SoundKept
<1>7. CandidatesAbove'
  BY <1>1, <1>4 DEF CandidatesAbove, Above, Worse, locks
<1> QED BY <1>1, <1>2, <1>5, <1>6, <1>7, OutsideStep, Zenon DEF IndexInv

-----------------------------------------------------------------------------
(* Steps of the thread that has m_cs_chainstate.                           *)

Places == {"idle", "activate", "loop", "find", "disconnect", "connect", "again", "walk"}

Locals == [most: Blocks \cup {NoBlock}, start: Blocks \cup {NoBlock},
           old: Blocks \cup {NoBlock}, connected: BOOLEAN,
           target: Blocks \cup {NoBlock}, mark: Blocks \cup {NoBlock},
           saved: SUBSET Blocks]

\* All threads but t are outside of ActivateBestChain and InvalidateBlock.
Alone(t) == \A u \in Threads \ {t} : pc[u] \in {"idle", "activate"}

\* cs_main is only taken under m_cs_chainstate here.
LEMMA NoOwner ==
  ASSUME SafeInv, csChainstate = NoThread
  PROVE  csMain = NoThread /\ \A u \in Threads : pc[u] \in {"idle", "activate"}
<1>1. \A u \in Threads : pc[u] \in {"idle", "activate"}
  <2>1. NoThread \notin Threads /\ pc \in [Threads -> Places]
    BY ChainstateAssumption DEF SafeInv, TypeOK, Places
  <2> QED BY <2>1 DEF SafeInv, LocksInv, Owning, Places
<1> QED BY <1>1 DEF SafeInv, LocksInv, Holding, TypeOK

LEMMA Owner ==
  ASSUME SafeInv, NEW t \in Threads, pc[t] \in Owning
  PROVE  /\ csChainstate = t /\ t # NoThread /\ Alone(t)
         /\ pc[t] \in Holding => csMain = t
         /\ pc[t] \notin Holding => csMain = NoThread
<1>1. NoThread \notin Threads /\ pc \in [Threads -> Places]
  BY ChainstateAssumption DEF SafeInv, TypeOK, Places
<1>2. csChainstate = t
  BY DEF SafeInv, LocksInv
<1>3. Alone(t)
  BY <1>1, <1>2 DEF SafeInv, LocksInv, Alone, Owning, Places
<1>4. pc[t] \notin Holding => csMain = NoThread
  BY <1>3 DEF SafeInv, LocksInv, Alone, Holding, TypeOK
<1> QED BY <1>1, <1>2, <1>3, <1>4 DEF SafeInv, LocksInv

\* The locks after a move of the only thread that has any.
LEMMA LocksAfter ==
  ASSUME TypeOK, NEW t \in Threads, Alone(t), NEW place \in Places, pc' = [pc EXCEPT ![t] = place],
         csChainstate' = IF place \in Owning THEN t ELSE NoThread,
         csMain' = IF place \in Holding THEN t ELSE NoThread
  PROVE  LocksInv' /\ pc'[t] = place /\ Alone(t)'
<1>1. pc \in [Threads -> Places] /\ NoThread \notin Threads
  BY ChainstateAssumption DEF TypeOK, Places
<1>2. pc'[t] = place /\ \A u \in Threads \ {t} : pc'[u] = pc[u]
  BY <1>1
<1>3. Alone(t)'
  BY <1>2 DEF Alone
<1>4. \A u \in Threads \ {t} : pc'[u] \notin Owning /\ pc'[u] \notin Holding
  BY <1>3 DEF Alone, Owning, Holding
<1>5. csChainstate' \in {t, NoThread} /\ csMain' \in {t, NoThread}
  OBVIOUS
<1>6. \A u \in Threads : pc'[u] \in Owning <=> csChainstate' = u
  BY <1>1, <1>2, <1>4, <1>5
<1>7. \A u \in Threads : pc'[u] \in Holding <=> csMain' = u
  BY <1>1, <1>2, <1>4, <1>5
<1> QED BY <1>2, <1>3, <1>6, <1>7 DEF LocksInv

\* The type invariant after such a step.
LEMMA InsideTypes ==
  ASSUME TypeOK, NEW t \in Threads, NEW place \in Places, pc' = [pc EXCEPT ![t] = place],
         UNCHANGED <<known, data, sequence, counters>>,
         scripts' \cup failedValid' \cup failedChild' \subseteq known,
         failedList' \subseteq Blocks, candidates' \subseteq Blocks,
         tip' \in Blocks, csMain' \in Threads \cup {NoThread},
         csChainstate' \in Threads \cup {NoThread}, local' \in Locals, calls' \in 0 .. MaxCalls
  PROVE  TypeOK'
<1>1. known \subseteq Blocks /\ data \subseteq known
  BY Types
<1>2. \A set \in {known', data', scripts', failedValid', failedChild', failedList', candidates'} :
        set \subseteq Blocks
  BY <1>1
<1>3. data' \cup scripts' \cup failedValid' \cup failedChild' \subseteq known'
  BY <1>1
<1>4. pc' \in [Threads -> Places]
  BY DEF TypeOK, Places
<1> QED BY <1>2, <1>3, <1>4 DEF TypeOK, Places, Locals

LEMMA LockChainstateStep ==
  ASSUME SafeInv, NEW t \in Threads, LockChainstate(t) PROVE SafeInv'
<1> USE DEF SafeInv
<1>1. /\ csChainstate = NoThread /\ csChainstate' = t /\ local' = NoLocal
      /\ pc' = [pc EXCEPT ![t] = "loop"]
      /\ UNCHANGED <<known, data, scripts, failedValid, failedChild, failedList,
                     candidates, sequence, counters, tip, csMain, calls>>
  BY DEF LockChainstate, Goto, index, order
<1>2. csMain = NoThread /\ Alone(t) /\ NoThread \notin Threads
  BY <1>1, NoOwner, ChainstateAssumption DEF Alone
<1>3. LocksInv' /\ pc'[t] = "loop" /\ Alone(t)'
  <2>1. "loop" \in Places /\ "loop" \in Owning /\ "loop" \notin Holding
    BY DEF Places, Owning, Holding
  <2> QED BY <1>1, <1>2, <2>1, LocksAfter, Zenon
<1>4. TypeOK'
  <2>1. "loop" \in Places /\ NoLocal \in Locals
    BY DEF Places, Locals, NoLocal
  <2>2. /\ scripts \cup failedValid \cup failedChild \subseteq known /\ failedList \subseteq Blocks
        /\ candidates \subseteq Blocks /\ tip \in Blocks /\ csMain \in Threads \cup {NoThread}
        /\ calls \in 0 .. MaxCalls
    BY Types DEF TypeOK
  <2> QED BY <1>1, <2>1, <2>2, InsideTypes, Zenon
<1>5. IndexInv'
  BY <1>1, Zenon DEF IndexInv, Sound, Failed
<1>6. WalkInv' /\ MostInv'
  <2>1. \A u \in Threads : pc'[u] \in {"idle", "activate", "loop"}
    BY <1>3 DEF Alone
  <2>2. local'.most = NoBlock
    BY <1>1 DEF NoLocal
  <2> QED BY <2>1, <2>2, Zenon DEF WalkInv, MostInv
<1>7. StartInv' /\ CandidatesAbove'
  BY <1>1, <1>2, Zenon DEF StartInv, CandidatesAbove, Above, Worse
<1> QED BY <1>3, <1>4, <1>5, <1>6, <1>7

LEMMA LockMainStep ==
  ASSUME SafeInv, NEW t \in Threads, LockMain(t) PROVE SafeInv'
<1> USE DEF SafeInv
<1>1. /\ pc[t] = "loop" /\ csMain = NoThread /\ csMain' = t
      /\ local' = [local EXCEPT !.start = tip, !.connected = FALSE]
      /\ pc' = [pc EXCEPT ![t] = "find"]
      /\ UNCHANGED <<known, data, scripts, failedValid, failedChild, failedList,
                     candidates, sequence, counters, tip, csChainstate, calls>>
  BY DEF LockMain, Goto, index, order
<1>2. csChainstate = t /\ Alone(t)
  BY <1>1, Owner DEF Owning
<1>3. LocksInv' /\ pc'[t] = "find" /\ Alone(t)'
  <2>1. "find" \in Places /\ "find" \in Owning /\ "find" \in Holding
    BY DEF Places, Owning, Holding
  <2> QED BY <1>1, <1>2, <2>1, LocksAfter, Zenon
<1>4. local \in Locals /\ tip \in Blocks
  BY DEF TypeOK, Locals
<1>5. local' \in Locals /\ local'.start = tip /\ local'.most = local.most
  BY <1>1, <1>4, Zenon DEF Locals
<1>6. TypeOK'
  <2>1. "find" \in Places
    BY DEF Places
  <2>2. /\ scripts \cup failedValid \cup failedChild \subseteq known /\ failedList \subseteq Blocks
        /\ candidates \subseteq Blocks /\ csChainstate \in Threads \cup {NoThread}
        /\ calls \in 0 .. MaxCalls
    BY Types DEF TypeOK
  <2> QED BY <1>1, <1>4, <1>5, <2>1, <2>2, InsideTypes, Zenon
<1>7. IndexInv'
  BY <1>1 DEF IndexInv, Sound, Failed
<1>8. local.most # NoBlock => Worse(tip, local.most) /\ ~Worse(local.most, tip)
  <2> SUFFICES ASSUME local.most # NoBlock PROVE Worse(tip, local.most) /\ ~Worse(local.most, tip)
    OBVIOUS
  <2>1. tip \in Line[local.most] \ {local.most} /\ local.most \in Blocks
    BY <1>1, Types DEF MostInv
  <2> QED BY <1>4, <2>1, Types, LineBefore, BeforeOrder DEF Worse
<1>9. WalkInv' /\ MostInv'
  <2>1. \A u \in Threads : pc'[u] \in {"idle", "activate", "find"}
    BY <1>3 DEF Alone
  <2>2. csChainstate' # NoThread
    BY <1>1, <1>2, ChainstateAssumption
  <2>3. local'.most # NoBlock => local'.most \in data' /\ Sound(local.most)'
    BY <1>1, <1>5 DEF MostInv, Sound, Failed
  <2> QED BY <1>1, <1>5, <1>8, <2>1, <2>2, <2>3 DEF WalkInv, MostInv, Worse
<1>10. StartInv'
  BY <1>1, <1>5, <1>8 DEF StartInv, IndexInv, Sound, Failed, Worse
<1>11. CandidatesAbove'
  BY <1>1, <1>5 DEF CandidatesAbove, Above, Worse
<1> QED BY <1>3, <1>6, <1>7, <1>9, <1>10, <1>11

\* FindMostWorkChain starts with the best candidate.
LEMMA BestIs ==
  ASSUME SafeInv, candidates # {}
  PROVE  /\ Best \in candidates /\ Best \in data /\ Best \in Blocks
         /\ \A d \in candidates : ~Worse(Best, d)
<1>1. /\ IsFiniteSet(known) /\ candidates \subseteq data /\ data \subseteq known
      /\ known \subseteq Blocks /\ sequence \in [Blocks -> Int]
  BY Types DEF SafeInv, IndexInv, CandidatesAbove
<1>2. IsFiniteSet(candidates)
  BY <1>1, FS_Subset
<1>3. candidates \in SUBSET Blocks
  BY <1>1
<1>4. \E c \in candidates : \A d \in candidates : ~Worse(c, d)
  BY <1>1, <1>2, <1>3, BestExists DEF Worse
<1> QED BY <1>1, <1>4 DEF Best

\* The candidate that is dropped has a failed block; what is above is flagged.
LEMMA DropIs ==
  ASSUME SafeInv, NEW t \in Threads, DropCandidate(t)
  PROVE  /\ pc[t] = "find" /\ local.most = NoBlock
         /\ \E test \in known, above \in SUBSET known :
              /\ Failed(test) /\ \A c \in above : test \in Line[c]
              /\ test \notin Line[tip] /\ above \cap Line[tip] = {}
              /\ failedChild' = failedChild \cup above
              /\ candidates' = candidates \ (above \cup {test})
         /\ UNCHANGED <<known, data, scripts, failedValid, failedList, sequence, counters, tip,
                        locks, pc, local, calls>>
<1> DEFINE bad == {b \in Path(Best) : Failed(b)}
           test == CHOOSE b \in bad : \A c \in bad : c \in Line[b]
           above == {c \in Path(Best) : test \in Line[c] /\ c # test}
<1>1. /\ pc[t] = "find" /\ local.most = NoBlock /\ candidates # {} /\ bad # {}
      /\ failedChild' = failedChild \cup above
      /\ candidates' = candidates \ (above \cup {test})
      /\ UNCHANGED <<known, data, scripts, failedValid, failedList, sequence, counters, tip,
                     locks, pc, local, calls>>
  BY DEF DropCandidate
<1>2. Best \in Blocks /\ Best \in known
  BY <1>1, BestIs, Types DEF SafeInv
<1>3. Path(Best) \subseteq Line[Best] /\ Line[Best] \subseteq known /\ IsFiniteSet(known)
      /\ known \subseteq Blocks /\ sequence \in [Blocks -> Int]
  BY <1>2, Types DEF Path, SafeInv, IndexInv
<1>4. \E b \in bad : \A c \in bad : c \in Line[b]
  <2>1. bad \in SUBSET Blocks /\ bad \subseteq Line[Best] /\ bad \subseteq known
    BY <1>3, Zenon
  <2> HIDE DEF bad
  <2>2. IsFiniteSet(bad)
    BY <1>3, <2>1, FS_Subset
  <2>3. PICK b \in bad : \A d \in bad : ~Before(sequence, b, d)
    BY <1>1, <1>3, <2>1, <2>2, BestExists
  <2>4. ASSUME NEW c \in bad PROVE c \in Line[b]
    <3>1. c \in Line[b] \/ b \in Line[c]
      BY <1>2, <2>1, <2>3, <2>4, LineTotal
    <3>2. b \in Line[c] => b = c
      BY <1>3, <2>1, <2>3, <2>4, LineBefore
    <3> QED BY <2>1, <2>3, <3>1, <3>2, LineIs
  <2> QED BY <2>4
<1>5. test \in bad
  BY <1>4
<1> HIDE DEF test
<1>6. test \in known /\ Failed(test) /\ test \notin Line[tip]
  BY <1>3, <1>5 DEF Path
<1>7. above \in SUBSET known /\ (\A c \in above : test \in Line[c]) /\ above \cap Line[tip] = {}
  BY <1>3 DEF Path
<1> QED BY <1>1, <1>6, <1>7, Zenon

LEMMA DropStep ==
  ASSUME SafeInv, NEW t \in Threads, DropCandidate(t) PROVE SafeInv'
<1> USE DEF SafeInv
<1>1. /\ pc[t] = "find"
      /\ UNCHANGED <<known, data, scripts, failedValid, failedList, sequence, counters, tip,
                     csMain, csChainstate, pc, local, calls>>
  BY DropIs DEF locks
<1>2. PICK test \in known, above \in SUBSET known :
        /\ Failed(test) /\ \A c \in above : test \in Line[c]
        /\ failedChild' = failedChild \cup above
        /\ candidates' = candidates \ (above \cup {test})
  BY DropIs
<1>3. /\ scripts \cup failedValid \cup failedChild \cup data \subseteq known
      /\ failedList \subseteq Blocks /\ candidates \subseteq data /\ known \subseteq Blocks
      /\ csChainstate \in Threads \cup {NoThread} /\ csMain \in Threads \cup {NoThread}
      /\ calls \in 0 .. MaxCalls /\ tip \in Blocks /\ local \in Locals
      /\ pc \in [Threads -> Places]
  BY Types DEF TypeOK, CandidatesAbove, Locals, Places
<1>4. TypeOK'
  <2>1. pc' = [pc EXCEPT ![t] = "find"] /\ "find" \in Places
    BY <1>1, <1>3 DEF Places
  <2>2. /\ scripts' \cup failedValid' \cup failedChild' \subseteq known
        /\ candidates' \subseteq Blocks
    BY <1>1, <1>2, <1>3
  <2> QED BY <1>1, <1>3, <2>1, <2>2, InsideTypes, Zenon
<1>5. ASSUME NEW x \in data, Sound(x) PROVE Sound(x)'
  <2>1. \A a \in Line[x] : Failed(a)' => \E f \in Line[a] : Failed(f)
    <3> SUFFICES ASSUME NEW a \in Line[x], Failed(a)' PROVE \E f \in Line[a] : Failed(f)
      OBVIOUS
    <3>1. a \in Line[a]
      BY <1>3, LineTrans, LineIs
    <3> QED BY <1>1, <1>2, <3>1 DEF Failed
  <2> QED BY <1>1, <1>3, <1>5, <2>1, SoundKept
<1>6. LocksInv' /\ WalkInv'
  BY <1>1, Zenon DEF LocksInv, WalkInv
<1>7. IndexInv'
  BY <1>1, <1>5, Zenon DEF IndexInv
<1>8. StartInv'
  BY <1>1, <1>5, Zenon DEF StartInv, Worse
<1>9. MostInv'
  <2>1. local'.most # NoBlock => local'.most \in data' /\ Sound(local.most)'
    BY <1>1, <1>5 DEF MostInv
  <2> QED BY <1>1, <2>1, Zenon DEF MostInv, Worse
<1>10. CandidatesAbove'
  BY <1>1, <1>2, Zenon DEF CandidatesAbove, Above, Worse
<1> QED BY <1>4, <1>6, <1>7, <1>8, <1>9, <1>10

\* What FindMostWorkChain returns is sound and not worse than the tip.
LEMMA MostWorkIs ==
  ASSUME SafeInv, NEW t \in Threads, Found(t), MostWork # NoBlock
  PROVE  /\ MostWork \in data /\ MostWork \in Blocks /\ Sound(MostWork)
         /\ ~Worse(MostWork, local.start)
         /\ MostWork # tip => Worse(tip, MostWork)
<1> USE DEF SafeInv
<1>1. pc[t] = "find" /\ csMain = t /\ t # NoThread
  <2>1. pc[t] = "find"
    BY DEF Found
  <2> QED BY <2>1, Owner DEF Owning, Holding
<1>2. CASE local.most # NoBlock
  <2>1. MostWork = local.most
    BY <1>2 DEF MostWork
  <2> QED BY <1>1, <1>2, <2>1, Types DEF MostInv, StartInv
<1>3. CASE local.most = NoBlock
  <2>1. candidates # {} /\ MostWork = Best
    BY <1>3 DEF MostWork
  <2>2. Best \in candidates /\ Best \in data /\ Best \in Blocks
    BY <2>1, BestIs
  <2>3. ~Worse(Best, tip) /\ ~Worse(Best, local.start)
    BY <1>1, <2>2 DEF CandidatesAbove, Above
  <2>4. Best # tip => Worse(tip, Best)
    BY <2>2, <2>3, Types, BeforeOrder DEF Worse
  <2>5. Sound(Best)
    <3>1. Line[Best] \subseteq data
      BY <2>2 DEF IndexInv
    <3>2. \A a \in Line[Best] : ~Failed(a)
      BY <1>3, <2>1 DEF Found, Path, IndexInv, Sound
    <3> QED BY <3>1, <3>2 DEF Sound
  <2> QED BY <2>1, <2>2, <2>3, <2>4, <2>5
<1> QED BY <1>2, <1>3

LEMMA BeginStepStep ==
  ASSUME SafeInv, NEW t \in Threads, BeginStep(t) PROVE SafeInv'
<1> USE DEF SafeInv
<1>1. /\ Found(t) /\ pc[t] = "find" /\ MostWork \notin {NoBlock, tip}
      /\ local' = [local EXCEPT !.most = MostWork, !.old = tip]
      /\ pc' = [pc EXCEPT ![t] = "disconnect"]
      /\ UNCHANGED <<known, data, scripts, failedValid, failedChild, failedList,
                     candidates, sequence, counters, tip, csMain, csChainstate, calls>>
  BY DEF BeginStep, Found, Goto, index, order, locks
<1>2. csChainstate = t /\ csMain = t /\ Alone(t) /\ t # NoThread
  BY <1>1, Owner DEF Owning, Holding
<1>3. PICK most \in Blocks : most = MostWork
  BY <1>1, MostWorkIs
<1>4. /\ most \in data /\ Sound(most) /\ ~Worse(most, local.start) /\ Worse(tip, most)
      /\ most # NoBlock
  BY <1>1, <1>3, MostWorkIs
<1>5. LocksInv' /\ pc'[t] = "disconnect" /\ Alone(t)'
  <2>1. "disconnect" \in Places /\ "disconnect" \in Owning /\ "disconnect" \in Holding
    BY DEF Places, Owning, Holding
  <2> QED BY <1>1, <1>2, <2>1, LocksAfter, Zenon
<1>6. local \in Locals /\ tip \in Blocks
  BY DEF TypeOK, Locals
<1>7. local' \in Locals /\ local'.start = local.start /\ local'.most = most
  BY <1>1, <1>3, <1>6, Zenon DEF Locals
<1>8. TypeOK'
  <2>1. "disconnect" \in Places
    BY DEF Places
  <2>2. /\ scripts \cup failedValid \cup failedChild \subseteq known /\ failedList \subseteq Blocks
        /\ candidates \subseteq Blocks /\ csChainstate \in Threads \cup {NoThread}
        /\ calls \in 0 .. MaxCalls
    BY Types DEF TypeOK
  <2> QED BY <1>1, <1>2, <1>6, <1>7, <2>1, <2>2, InsideTypes, Zenon
<1>9. IndexInv'
  BY <1>1 DEF IndexInv, Sound, Failed
<1>10. WalkInv' /\ MostInv'
  <2>1. \A u \in Threads : pc'[u] \in {"idle", "activate", "disconnect"}
    BY <1>5 DEF Alone
  <2>2. Sound(most)' /\ Worse(tip, most)'
    BY <1>1, <1>4 DEF Sound, Failed, Worse
  <2> QED BY <1>1, <1>2, <1>4, <1>7, <2>1, <2>2 DEF WalkInv, MostInv, Sound, Failed, Worse
<1>11. StartInv'
  BY <1>1, <1>2, <1>4, <1>7 DEF StartInv, Sound, Failed, Worse
<1>12. CandidatesAbove'
  BY <1>1, <1>7 DEF CandidatesAbove, Above, Worse
<1> QED BY <1>5, <1>8, <1>9, <1>10, <1>11, <1>12

LEMMA NothingStep ==
  ASSUME SafeInv, NEW t \in Threads, NothingToDo(t) PROVE SafeInv'
<1> USE DEF SafeInv
<1> DEFINE more == local.connected /\ MostWork = NoBlock
<1>1. /\ Found(t) /\ pc[t] = "find" /\ MostWork \in {NoBlock, tip} /\ csMain' = NoThread
      /\ pc' = [pc EXCEPT ![t] = IF more THEN "loop" ELSE "idle"]
      /\ csChainstate' = IF more THEN t ELSE NoThread
      /\ local' = IF more THEN local ELSE NoLocal
      /\ UNCHANGED <<known, data, scripts, failedValid, failedChild, failedList,
                     candidates, sequence, counters, tip, calls>>
  BY DEF NothingToDo, Found, Goto, index, order
<1>2. csChainstate = t /\ csMain = t /\ Alone(t) /\ t # NoThread
  BY <1>1, Owner DEF Owning, Holding
<1>3. local'.most = NoBlock /\ local' \in Locals
  <2>1. CASE more
    BY <1>1, <2>1 DEF MostWork, TypeOK, Locals
  <2>2. CASE ~more
    BY <1>1, <2>2 DEF NoLocal, Locals
  <2> QED BY <2>1, <2>2
<1>4. PICK place \in {"loop", "idle"} :
        /\ pc' = [pc EXCEPT ![t] = place]
        /\ csChainstate' = IF place \in Owning THEN t ELSE NoThread
  <2>1. "loop" \in Owning /\ "idle" \notin Owning
    BY DEF Owning
  <2>2. CASE more
    BY <1>1, <2>1, <2>2
  <2>3. CASE ~more
    BY <1>1, <2>1, <2>3, Zenon
  <2> QED BY <2>2, <2>3
<1> HIDE DEF more
<1>5. place \in Places /\ place \notin Holding
  BY DEF Places, Holding
<1>6. LocksInv' /\ pc'[t] = place /\ Alone(t)'
  BY <1>1, <1>2, <1>4, <1>5, LocksAfter, Zenon
<1>7. TypeOK'
  <2>1. /\ scripts \cup failedValid \cup failedChild \subseteq known /\ failedList \subseteq Blocks
        /\ candidates \subseteq Blocks /\ tip \in Blocks /\ calls \in 0 .. MaxCalls
    BY Types DEF TypeOK
  <2>2. csChainstate' \in Threads \cup {NoThread} /\ csMain' \in Threads \cup {NoThread}
    BY <1>1
  <2> QED BY <1>1, <1>3, <1>4, <1>5, <2>1, <2>2, InsideTypes, Zenon
<1>8. IndexInv'
  BY <1>1 DEF IndexInv, Sound, Failed
<1>9. WalkInv' /\ MostInv'
  <2>1. \A u \in Threads : pc'[u] \in {"idle", "activate", "loop"}
    BY <1>6 DEF Alone
  <2> QED BY <1>3, <2>1, Zenon DEF WalkInv, MostInv
<1>10. StartInv' /\ CandidatesAbove'
  BY <1>1, Zenon DEF StartInv, CandidatesAbove, Above, Worse
<1> QED BY <1>6, <1>7, <1>8, <1>9, <1>10

LEMMA DisconnectStep ==
  ASSUME SafeInv, NEW t \in Threads, DisconnectTip(t) PROVE SafeInv'
<1> USE DEF SafeInv
<1>1. /\ pc[t] = "disconnect"
      /\ UNCHANGED <<known, data, scripts, failedValid, failedChild, failedList,
                     candidates, sequence, counters, csMain, csChainstate, local, calls>>
  BY DEF DisconnectTip, index, order, locks
<1>2. csChainstate = t /\ csMain = t /\ Alone(t) /\ t # NoThread
  BY <1>1, Owner DEF Owning, Holding
<1>3. local.most # NoBlock /\ Worse(tip, local.most) /\ local.most \in data /\ Sound(local.most)
  BY <1>1 DEF MostInv
<1>4. /\ scripts \cup failedValid \cup failedChild \subseteq known /\ failedList \subseteq Blocks
      /\ candidates \subseteq Blocks /\ tip \in Blocks /\ calls \in 0 .. MaxCalls
      /\ csChainstate \in Threads \cup {NoThread} /\ csMain \in Threads \cup {NoThread}
      /\ local \in Locals /\ sequence \in [Blocks -> Int] /\ local.most \in Blocks
      /\ local.start \in Blocks /\ pc \in [Threads -> Places]
  BY <1>1, <1>2, <1>3, Types, Zenon DEF TypeOK, Locals, StartInv, Places
<1>5. /\ "disconnect" \in Places /\ "disconnect" \in Owning /\ "disconnect" \in Holding
      /\ "connect" \in Places /\ "connect" \in Owning /\ "connect" \in Holding
  BY DEF Places, Owning, Holding
<1>6. PICK place \in {"disconnect", "connect"} :
        /\ pc' = [pc EXCEPT ![t] = place]
        /\ place = "disconnect" => tip \notin Line[local.most] /\ tip' = Parent[tip]
        /\ place = "connect" => tip \in Line[local.most] /\ tip' = tip
  <2>1. CASE tip \in Line[local.most]
    BY <2>1 DEF DisconnectTip, Goto
  <2>2. CASE tip \notin Line[local.most]
    <3>1. pc' = [pc EXCEPT ![t] = "disconnect"]
      BY <1>1, <1>4, <2>2 DEF DisconnectTip
    <3> QED BY <2>2, <3>1 DEF DisconnectTip
  <2> QED BY <2>1, <2>2, Zenon
<1>7. LocksInv' /\ pc'[t] = place /\ Alone(t)'
  BY <1>1, <1>2, <1>5, <1>6, LocksAfter, Zenon
<1>8. tip' \in Line[tip] /\ (place = "disconnect" => tip' # tip)
  <2>1. CASE place = "disconnect"
    <3>1. tip # Genesis /\ tip' = Parent[tip]
      BY <1>4, <1>6, <2>1, LineType
    <3>2. tip' \in Blocks /\ tip' \in Line[tip']
      BY <1>4, <3>1, ParentIs, LineIs
    <3> QED BY <1>4, <3>1, <3>2, LineIs, NotInParent
  <2>2. CASE place = "connect"
    BY <1>4, <1>6, <2>2, LineIs
  <2> QED BY <1>6, <2>1, <2>2
<1>9. tip' \in Blocks /\ Line[tip'] \subseteq Line[tip]
  BY <1>4, <1>8, LineTrans
<1>10. TypeOK'
  BY <1>1, <1>4, <1>5, <1>6, <1>9, InsideTypes, Zenon
<1>11. tip' \in data /\ Sound(tip)' /\ Line[tip'] \subseteq Good
  BY <1>1, <1>4, <1>8, <1>9, Zenon DEF IndexInv, Sound, Failed
<1>12. IndexInv'
  BY <1>1, <1>11, Zenon DEF IndexInv
<1>13. tip' = tip \/ Worse(tip', tip)
  BY <1>4, <1>8, LineBefore DEF Worse
<1>14. Worse(tip', local.most)
  BY <1>3, <1>4, <1>9, <1>13, BeforeTrans DEF Worse
<1>15. WalkInv' /\ MostInv'
  <2>1. \A u \in Threads : pc'[u] \in {"idle", "activate", place}
    BY <1>7 DEF Alone
  <2>2. Sound(local.most)' /\ Worse(tip, local.most)'
    BY <1>1, <1>3, <1>14, Zenon DEF Sound, Failed, Worse
  <2>3. local.most # tip
    <3>1. ~Worse(tip, tip)
      BY <1>4, BeforeOrder DEF Worse
    <3> QED BY <1>3, <3>1
  <2>4. place = "connect" => tip' \in Line[local'.most] \ {local'.most}
    BY <1>1, <1>6, <2>3
  <2>5. csChainstate' # NoThread
    BY <1>1, <1>2
  <2>6. local'.most \in data' /\ local'.most # NoBlock
    BY <1>1, <1>3
  <2> QED BY <1>1, <1>6, <2>1, <2>2, <2>4, <2>5, <2>6, Zenon DEF WalkInv, MostInv
<1>16. StartInv'
  BY <1>1, Zenon DEF StartInv, Sound, Failed, Worse
<1>17. CandidatesAbove'
  <2> SUFFICES ASSUME NEW c \in candidates PROVE ~Worse(c, tip') /\ ~Worse(c, local.start)
    BY <1>1 DEF CandidatesAbove, Above, Worse
  <2>1. ~Worse(c, tip) /\ ~Worse(c, local.start) /\ c \in Blocks
    BY <1>2, <1>4, Zenon DEF CandidatesAbove, Above
  <2> QED BY <1>4, <1>9, <1>13, <2>1, BeforeTrans DEF Worse
<1> QED BY <1>7, <1>10, <1>12, <1>15, <1>16, <1>17

\* The block that ConnectTip is called for.
NextBlock == CHOOSE b \in Line[local.most] : Parent[b] = tip

\* It is above the tip, and the blocks up to it are there.
LEMMA NextBlockIs ==
  ASSUME SafeInv, NEW t \in Threads, pc[t] = "connect"
  PROVE  /\ NextBlock \in Line[local.most] /\ NextBlock \in data /\ NextBlock \in Blocks
         /\ NextBlock \in known
         /\ Line[NextBlock] = {NextBlock} \cup Line[tip] /\ NextBlock \notin Line[tip]
         /\ Sound(NextBlock) /\ Worse(tip, NextBlock)
<1> USE DEF SafeInv
<1>1. /\ local.most # NoBlock /\ tip \in Line[local.most] \ {local.most}
      /\ local.most \in data /\ Sound(local.most)
  BY DEF MostInv
<1>2. /\ tip \in Blocks /\ local.most \in Blocks /\ sequence \in [Blocks -> Int]
      /\ data \subseteq known
  BY <1>1, Types
<1>3. NextBlock \in Line[local.most] /\ Parent[NextBlock] = tip
  BY <1>1, <1>2, NextOnLine DEF NextBlock
<1>4. NextBlock \in Blocks \ {Genesis} /\ NextBlock \in data
  BY <1>1, <1>2, <1>3, LineType, ParentIs DEF Sound
<1>5. Line[NextBlock] = {NextBlock} \cup Line[tip] /\ NextBlock \notin Line[tip]
  BY <1>3, <1>4, LineIs, NotInParent
<1>6. Sound(NextBlock)
  BY <1>1, <1>2, <1>3, LineTrans DEF Sound
<1>7. tip \in Line[NextBlock] /\ tip # NextBlock
  BY <1>2, <1>5, LineIs
<1>8. Worse(tip, NextBlock)
  BY <1>2, <1>4, <1>7, LineBefore DEF Worse
<1> QED BY <1>2, <1>3, <1>4, <1>5, <1>6, <1>8, Zenon

LEMMA ConnectStep ==
  ASSUME SafeInv, NEW t \in Threads, ConnectTip(t) PROVE SafeInv'
<1> USE DEF SafeInv
<1>1. /\ pc[t] = "connect" /\ NextBlock \in Good /\ tip' = NextBlock
      /\ scripts' = scripts \cup {NextBlock} /\ candidates' = Pruned(candidates, sequence, NextBlock)
      /\ UNCHANGED <<known, data, failedValid, failedChild, failedList, sequence, counters,
                     csMain, csChainstate, calls>>
  BY DEF ConnectTip, NextBlock, locks
<1>2. csChainstate = t /\ csMain = t /\ Alone(t) /\ t # NoThread
  BY <1>1, Owner DEF Owning, Holding
<1>3. PICK next \in Blocks : next = NextBlock
  BY <1>1, NextBlockIs
<1>4. /\ next \in Line[local.most] /\ next \in data /\ next \in known
      /\ Line[next] = {next} \cup Line[tip] /\ Sound(next)
  BY <1>1, <1>3, NextBlockIs
<1>5. /\ scripts \cup failedValid \cup failedChild \subseteq known /\ failedList \subseteq Blocks
      /\ candidates \subseteq Blocks /\ calls \in 0 .. MaxCalls
      /\ csChainstate \in Threads \cup {NoThread} /\ csMain \in Threads \cup {NoThread}
      /\ local \in Locals /\ pc \in [Threads -> Places]
      /\ local.most # NoBlock /\ local.most \in data /\ Sound(local.most)
  BY <1>1, Types, Zenon DEF TypeOK, Locals, Places, MostInv
<1>6. PICK place \in {"again", "connect"} :
        /\ pc' = [pc EXCEPT ![t] = place]
        /\ place = "connect" => next # local.most
        /\ local' \in Locals /\ local'.most = local.most /\ local'.start = local.start
  <2>1. CASE pc' = [pc EXCEPT ![t] = "again"] /\ local' = [local EXCEPT !.connected = TRUE]
    <3>1. local' \in Locals /\ local'.most = local.most /\ local'.start = local.start
      BY <1>5, <2>1, Zenon DEF Locals
    <3> QED BY <2>1, <3>1
  <2>2. CASE next # local.most /\ pc' = pc /\ local' = local
    <3>1. pc' = [pc EXCEPT ![t] = "connect"]
      BY <1>1, <1>5, <2>2
    <3> QED BY <1>5, <2>2, <3>1
  <2> QED BY <1>3, <2>1, <2>2 DEF ConnectTip, Goto, NextBlock
<1>7. place \in Places /\ place \in Owning /\ place \in Holding
  BY DEF Places, Owning, Holding
<1>8. LocksInv' /\ pc'[t] = place /\ Alone(t)'
  BY <1>1, <1>2, <1>6, <1>7, LocksAfter, Zenon
<1>9. TypeOK'
  <2>1. /\ scripts' \cup failedValid' \cup failedChild' \subseteq known
        /\ candidates' \subseteq Blocks /\ tip' \in Blocks
    BY <1>1, <1>3, <1>4, <1>5, Zenon DEF Pruned
  <2> QED BY <1>1, <1>5, <1>6, <1>7, <2>1, InsideTypes, Zenon
<1>10. IndexInv'
  BY <1>1, <1>3, <1>4, Zenon DEF IndexInv, Sound, Failed
<1>11. WalkInv' /\ MostInv'
  <2>1. \A u \in Threads : pc'[u] \in {"idle", "activate", place}
    BY <1>8 DEF Alone
  <2>2. local'.most \in data' /\ local'.most # NoBlock /\ csChainstate' # NoThread
    BY <1>1, <1>2, <1>5, <1>6
  <2>3. Sound(local.most)'
    BY <1>1, <1>5, <1>6 DEF Sound, Failed
  <2>4. tip' \in Line[local'.most] /\ (place = "connect" => tip' # local'.most)
    BY <1>1, <1>3, <1>4, <1>6, Zenon
  <2> QED BY <1>6, <2>1, <2>2, <2>3, <2>4, Zenon DEF WalkInv, MostInv
<1>12. StartInv'
  BY <1>1, <1>6, Zenon DEF StartInv, Sound, Failed, Worse
<1>13. CandidatesAbove'
  BY <1>1, <1>6, Zenon DEF CandidatesAbove, Above, Worse, Pruned
<1> QED BY <1>8, <1>9, <1>10, <1>11, <1>12, <1>13

LEMMA InvalidFoundStep ==
  ASSUME SafeInv, NEW t \in Threads, InvalidBlockFound(t) PROVE SafeInv'
<1> USE DEF SafeInv
<1>1. /\ pc[t] = "connect" /\ NextBlock \notin Good
      /\ failedValid' = failedValid \cup {NextBlock} /\ failedList' = failedList \cup {NextBlock}
      /\ candidates' = candidates \ {NextBlock}
      /\ local' = [local EXCEPT !.most = NoBlock, !.connected = TRUE]
      /\ pc' = [pc EXCEPT ![t] = "again"]
      /\ UNCHANGED <<known, data, scripts, failedChild, sequence, counters, tip,
                     csMain, csChainstate, calls>>
  BY DEF InvalidBlockFound, NextBlock, locks, Goto
<1>2. csChainstate = t /\ csMain = t /\ Alone(t) /\ t # NoThread
  BY <1>1, Owner DEF Owning, Holding
<1>3. PICK next \in known : next = NextBlock
  BY <1>1, NextBlockIs
<1>4. next \notin Line[tip] /\ next \notin Line[local.start]
  BY <1>1, <1>2, <1>3, NextBlockIs DEF StartInv
<1>5. /\ scripts \cup failedValid \cup failedChild \subseteq known /\ failedList \subseteq Blocks
      /\ candidates \subseteq Blocks /\ tip \in Blocks /\ calls \in 0 .. MaxCalls
      /\ csChainstate \in Threads \cup {NoThread} /\ csMain \in Threads \cup {NoThread}
      /\ local \in Locals /\ known \subseteq Blocks
  BY <1>1, Types DEF TypeOK, Locals
<1>6. local' \in Locals /\ local'.most = NoBlock /\ local'.start = local.start
  BY <1>1, <1>5, Zenon DEF Locals
<1>7. "again" \in Places /\ "again" \in Owning /\ "again" \in Holding
  BY DEF Places, Owning, Holding
<1>8. LocksInv' /\ pc'[t] = "again" /\ Alone(t)'
  BY <1>1, <1>2, <1>7, LocksAfter, Zenon
<1>9. TypeOK'
  <2>1. /\ scripts' \cup failedValid' \cup failedChild' \subseteq known
        /\ candidates' \subseteq Blocks /\ failedList' \subseteq Blocks
    BY <1>1, <1>3, <1>5
  <2> QED BY <1>1, <1>5, <1>6, <1>7, <2>1, InsideTypes, Zenon
<1>10. Sound(tip)' /\ Sound(local.start)'
  BY <1>1, <1>2, <1>3, <1>4, <1>6 DEF IndexInv, StartInv, Sound, Failed
<1>11. IndexInv'
  BY <1>1, <1>10 DEF IndexInv
<1>12. WalkInv' /\ MostInv'
  <2>1. \A u \in Threads : pc'[u] \in {"idle", "activate", "again"}
    BY <1>8 DEF Alone
  <2> QED BY <1>6, <2>1, Zenon DEF WalkInv, MostInv
<1>13. StartInv'
  BY <1>1, <1>2, <1>6, <1>10 DEF StartInv
<1>14. CandidatesAbove'
  BY <1>1, <1>6 DEF CandidatesAbove, Above, Worse
<1> QED BY <1>8, <1>9, <1>11, <1>12, <1>13, <1>14

LEMMA AgainStep ==
  ASSUME SafeInv, NEW t \in Threads, Again(t) PROVE SafeInv'
<1> USE DEF SafeInv
<1>1. /\ pc[t] = "again"
      /\ UNCHANGED <<known, data, scripts, failedValid, failedChild, failedList,
                     candidates, sequence, counters, tip, calls>>
  BY DEF Again, index, order
<1>2. csChainstate = t /\ csMain = t /\ Alone(t) /\ t # NoThread
  BY <1>1, Owner DEF Owning, Holding
<1>3. /\ scripts \cup failedValid \cup failedChild \subseteq known /\ failedList \subseteq Blocks
      /\ candidates \subseteq Blocks /\ tip \in Blocks /\ calls \in 0 .. MaxCalls
      /\ local \in Locals /\ sequence \in [Blocks -> Int] /\ local.start \in Blocks
      /\ csMain \in Threads \cup {NoThread} /\ csChainstate \in Threads \cup {NoThread}
  BY <1>2, Types, Zenon DEF TypeOK, Locals, StartInv
<1>4. local.most # NoBlock =>
        local.most \in data /\ Sound(local.most) /\ tip \in Line[local.most]
  BY <1>1, Zenon DEF MostInv
<1>5. IndexInv'
  BY <1>1, Zenon DEF IndexInv, Sound, Failed
<1>6. CASE Worse(tip, local.start)
  <2>1. pc' = [pc EXCEPT ![t] = "find"] /\ UNCHANGED <<csMain, csChainstate, local>>
    BY <1>6 DEF Again, Goto, locks
  <2>2. "find" \in Places /\ "find" \in Owning /\ "find" \in Holding
    BY DEF Places, Owning, Holding
  <2>3. LocksInv' /\ pc'[t] = "find" /\ Alone(t)'
    BY <1>2, <2>1, <2>2, LocksAfter, Zenon
  <2>4. TypeOK'
    BY <1>1, <1>3, <2>1, <2>2, InsideTypes, Zenon
  <2>5. local.most # NoBlock => Worse(tip, local.most)
    <3> SUFFICES ASSUME local.most # NoBlock PROVE Worse(tip, local.most)
      OBVIOUS
    <3>1. ~Worse(local.most, local.start) /\ local.most \in Blocks
      BY <1>2, <1>4, Types DEF StartInv
    <3> QED BY <1>3, <1>6, <3>1, BeforeTrans DEF Worse
  <2>6. WalkInv' /\ MostInv'
    <3>1. \A u \in Threads : pc'[u] \in {"idle", "activate", "find"}
      BY <2>3 DEF Alone
    <3>2. local'.most # NoBlock => local'.most \in data' /\ Sound(local.most)' /\ Worse(tip, local.most)'
      BY <1>1, <1>4, <2>1, <2>5, Zenon DEF Sound, Failed, Worse
    <3> QED BY <1>2, <2>1, <3>1, <3>2, Zenon DEF WalkInv, MostInv
  <2>7. StartInv' /\ CandidatesAbove'
    BY <1>1, <2>1 DEF StartInv, CandidatesAbove, Above, Worse, Sound, Failed
  <2> QED BY <1>5, <2>3, <2>4, <2>6, <2>7
<1>7. CASE ~Worse(tip, local.start)
  <2>1. /\ csMain' = NoThread
        /\ \/ /\ tip = local.most /\ pc' = [pc EXCEPT ![t] = "idle"]
              /\ csChainstate' = NoThread /\ local' = NoLocal
           \/ /\ tip # local.most /\ pc' = [pc EXCEPT ![t] = "loop"]
              /\ UNCHANGED <<csChainstate, local>>
    BY <1>7 DEF Again, Goto
  <2>2. PICK place \in {"idle", "loop"} :
          /\ pc' = [pc EXCEPT ![t] = place]
          /\ csChainstate' = IF place \in Owning THEN t ELSE NoThread
          /\ place = "idle" => local' = NoLocal
          /\ place = "loop" => local' = local /\ tip # local.most
    <3>1. "loop" \in Owning /\ "idle" \notin Owning
      BY DEF Owning
    <3> QED BY <1>2, <2>1, <3>1
  <2>3. place \in Places /\ place \notin Holding
    BY DEF Places, Holding
  <2>4. LocksInv' /\ pc'[t] = place /\ Alone(t)'
    BY <1>2, <2>1, <2>2, <2>3, LocksAfter, Zenon
  <2>5. local' \in Locals
    <3>1. NoLocal \in Locals
      BY Zenon DEF NoLocal, Locals
    <3> QED BY <1>3, <2>2, <3>1
  <2>6. TypeOK'
    <3>1. csChainstate' \in Threads \cup {NoThread} /\ csMain' \in Threads \cup {NoThread}
      BY <2>1, <2>2
    <3> QED BY <1>1, <1>3, <2>2, <2>3, <2>5, <3>1, InsideTypes, Zenon
  <2>7. WalkInv' /\ MostInv'
    <3>1. \A u \in Threads : pc'[u] \in {"idle", "activate", place}
      BY <2>4 DEF Alone
    <3>2. CASE place = "idle"
      <4>1. local'.most = NoBlock
        BY <2>2, <3>2 DEF NoLocal
      <4> QED BY <3>1, <3>2, <4>1, Zenon DEF WalkInv, MostInv
    <3>3. CASE place = "loop"
      <4>1. csChainstate' # NoThread
        BY <1>2, <2>2, <3>3 DEF Owning
      <4>2. local'.most # NoBlock =>
              local'.most \in data' /\ Sound(local.most)' /\ tip' \in Line[local'.most] \ {local'.most}
        BY <1>1, <1>4, <2>2, <3>3 DEF Sound, Failed
      <4> QED BY <3>1, <3>3, <4>1, <4>2, Zenon DEF WalkInv, MostInv
    <3> QED BY <2>2, <3>2, <3>3
  <2>8. StartInv' /\ CandidatesAbove'
    BY <1>1, <2>1, Zenon DEF StartInv, CandidatesAbove, Above, Worse
  <2> QED BY <1>5, <2>4, <2>6, <2>7, <2>8
<1> QED BY <1>6, <1>7

LEMMA InvalidateBlockStep ==
  ASSUME SafeInv, NEW t \in Threads, NEW b \in Blocks, InvalidateBlock(t, b) PROVE SafeInv'
<1> USE DEF SafeInv
<1> DEFINE saved == {c \in known : ~InChain(c) /\ ~Worse(c, Parent[b]) /\ Usable(c)}
<1>1. /\ csMain = NoThread /\ csChainstate = NoThread /\ calls < MaxCalls /\ calls' = calls + 1
      /\ b \in known \ {Genesis} /\ csChainstate' = t
      /\ local' = [NoLocal EXCEPT !.target = b, !.mark = b, !.saved = saved]
      /\ pc' = [pc EXCEPT ![t] = "walk"]
      /\ UNCHANGED <<known, data, scripts, failedValid, failedChild, failedList,
                     candidates, sequence, counters, tip, csMain>>
  BY DEF InvalidateBlock, Call, Goto, index, order
<1>2. Alone(t)
  BY <1>1, NoOwner DEF Alone
<1>3. /\ scripts \cup failedValid \cup failedChild \subseteq known /\ failedList \subseteq Blocks
      /\ candidates \subseteq Blocks /\ tip \in Blocks /\ calls \in 0 .. MaxCalls
      /\ MaxCalls \in Nat /\ known \subseteq Blocks /\ csMain \in Threads \cup {NoThread}
  BY Types, ChainstateAssumption DEF TypeOK
<1>4. saved \subseteq data /\ saved \subseteq Blocks
  BY <1>3 DEF Usable
<1> HIDE DEF saved
<1>5. /\ local' \in Locals /\ local'.target = b /\ local'.mark = b /\ local'.saved = saved
      /\ local'.most = NoBlock
  BY <1>1, <1>4, Zenon DEF NoLocal, Locals
<1>6. "walk" \in Places /\ "walk" \in Owning /\ "walk" \notin Holding
  BY DEF Places, Owning, Holding
<1>7. LocksInv' /\ pc'[t] = "walk" /\ Alone(t)'
  BY <1>1, <1>2, <1>6, LocksAfter, Zenon
<1>8. TypeOK'
  <2>1. calls' \in 0 .. MaxCalls
    BY <1>1, <1>3
  <2> QED BY <1>1, <1>3, <1>5, <1>6, <2>1, InsideTypes, Zenon
<1>9. IndexInv'
  BY <1>1 DEF IndexInv, Sound, Failed
<1>10. WalkInv' /\ MostInv'
  <2>1. \A u \in Threads : pc'[u] \in {"idle", "activate", "walk"}
    BY <1>7 DEF Alone
  <2> QED BY <1>1, <1>4, <1>5, <2>1 DEF WalkInv, MostInv
<1>11. StartInv' /\ CandidatesAbove'
  BY <1>1 DEF StartInv, CandidatesAbove, Above, Worse
<1> QED BY <1>7, <1>8, <1>9, <1>10, <1>11

\* A turn of InvalidateBlock.  Nothing has the flag that would be changed.
LEMMA InvalidateTipIs ==
  ASSUME SafeInv, NEW t \in Threads, InvalidateTip(t)
  PROVE  /\ pc[t] = "walk" /\ csMain = NoThread /\ tip \in Blocks \ {Genesis}
         /\ tip' = Parent[tip] /\ tip' \in data
         /\ failedValid' = failedValid \cup {tip} /\ failedChild' = failedChild
         /\ \E late \in SUBSET local.saved :
              /\ late = {c \in local.saved : ~Worse(c, Parent[tip])}
              /\ candidates' = (candidates \ {tip}) \cup {Parent[tip]} \cup late
              /\ local' = [local EXCEPT !.mark = tip, !.saved = @ \ late]
         /\ UNCHANGED <<known, data, scripts, failedList, sequence, counters,
                        csMain, csChainstate, pc, calls>>
<1> USE DEF SafeInv
<1> DEFINE fix == Parent[tip] = local.mark /\ local.mark \in failedValid
<1>1. /\ pc[t] = "walk" /\ csMain = NoThread /\ local.target \in Line[tip] /\ tip' = Parent[tip]
      /\ failedValid' = (failedValid \cup {tip}) \ (IF fix THEN {local.mark} ELSE {})
      /\ failedChild' = failedChild \cup (IF fix THEN {local.mark} ELSE {})
      /\ UNCHANGED <<known, data, scripts, failedList, sequence, counters,
                     csMain, csChainstate, pc, calls>>
  BY DEF InvalidateTip, InChain, locks
<1>2. tip \in Blocks \ {Genesis}
  BY <1>1, Types, LineIs, Zenon DEF WalkInv
<1>3. Parent[tip] \in Line[tip]
  BY <1>2, LineIs, ParentIs, Zenon
<1>4. ~fix /\ Parent[tip] \in data
  BY <1>3, Zenon DEF IndexInv, Sound, Failed
<1> QED BY <1>1, <1>2, <1>4, Zenon DEF InvalidateTip

LEMMA InvalidateTipStep ==
  ASSUME SafeInv, NEW t \in Threads, InvalidateTip(t) PROVE SafeInv'
<1> USE DEF SafeInv
<1>1. /\ pc[t] = "walk" /\ csMain = NoThread /\ tip \in Blocks \ {Genesis}
      /\ tip' = Parent[tip] /\ tip' \in data
      /\ failedValid' = failedValid \cup {tip} /\ failedChild' = failedChild
      /\ UNCHANGED <<known, data, scripts, failedList, sequence, counters,
                     csMain, csChainstate, pc, calls>>
  BY InvalidateTipIs, Zenon
<1>2. PICK late \in SUBSET local.saved :
        /\ late = {c \in local.saved : ~Worse(c, Parent[tip])}
        /\ candidates' = (candidates \ {tip}) \cup {Parent[tip]} \cup late
        /\ local' = [local EXCEPT !.mark = tip, !.saved = @ \ late]
  BY InvalidateTipIs, Zenon
<1>3. /\ scripts \cup failedValid \cup failedChild \subseteq known /\ failedList \subseteq Blocks
      /\ candidates \subseteq data /\ data \subseteq known /\ known \subseteq Blocks
      /\ csChainstate \in Threads \cup {NoThread} /\ csMain \in Threads \cup {NoThread}
      /\ calls \in 0 .. MaxCalls /\ local \in Locals /\ sequence \in [Blocks -> Int]
      /\ pc \in [Threads -> Places] /\ tip \in data
  BY Types, Zenon DEF TypeOK, Locals, Places, CandidatesAbove, IndexInv
<1>4. /\ local.most = NoBlock /\ local.target \in known \ {Genesis} /\ local.saved \subseteq data
  BY <1>1, Zenon DEF WalkInv
<1>5. /\ local' \in Locals /\ local'.most = NoBlock /\ local'.target = local.target
      /\ local'.mark = tip /\ local'.saved \subseteq local.saved
  BY <1>1, <1>2, <1>3, <1>4, Zenon DEF Locals
<1>6. TypeOK'
  <2>1. pc' = [pc EXCEPT ![t] = "walk"] /\ "walk" \in Places
    BY <1>1, <1>3, Zenon DEF Places
  <2>2. /\ scripts' \cup failedValid' \cup failedChild' \subseteq known
        /\ candidates' \subseteq Blocks /\ tip' \in Blocks
    BY <1>1, <1>2, <1>3, <1>4
  <2> QED BY <1>1, <1>3, <1>5, <2>1, <2>2, InsideTypes, Zenon
<1>7. /\ Line[tip] = {tip} \cup Line[tip'] /\ tip \notin Line[tip'] /\ tip' \in Line[tip]
  <2>1. tip \in Blocks \ {Genesis} /\ tip' = Parent[tip]
    BY <1>1, <1>3
  <2>2. tip' \in Blocks
    BY <2>1, ParentIs
  <2>3. Line[tip] = {tip} \cup Line[tip'] /\ tip' \in Line[tip']
    BY <2>1, <2>2, LineIs
  <2>4. tip \notin Line[tip']
    BY <2>1, NotInParent
  <2> QED BY <2>3, <2>4
<1>8. IndexInv'
  <2>1. Sound(tip)'
    BY <1>1, <1>7, Zenon DEF IndexInv, Sound, Failed
  <2>2. Line[tip'] \subseteq Good
    BY <1>7 DEF IndexInv
  <2> QED BY <1>1, <2>1, <2>2, Zenon DEF IndexInv
<1>9. LocksInv'
  BY <1>1 DEF LocksInv
<1>10. WalkInv'
  BY <1>1, <1>3, <1>4, <1>5, <1>7, Zenon DEF WalkInv
<1>11. StartInv' /\ MostInv'
  <2>1. Alone(t)
    BY <1>1, Owner DEF Owning
  <2>2. \A u \in Threads : pc'[u] \in {"idle", "activate", "walk"}
    BY <1>1, <2>1 DEF Alone
  <2> QED BY <1>1, <1>5, <2>2, Zenon DEF StartInv, MostInv
<1>12. CandidatesAbove'
  <2>1. tip' # tip
    BY <1>1, <1>7, LineIs
  <2>2. Worse(tip', tip)
    BY <1>1, <1>3, <1>7, <2>1, LineBefore DEF Worse
  <2>3. ASSUME NEW c \in candidates PROVE ~Worse(c, tip')
    <3>1. ~Worse(c, tip) /\ c \in Blocks /\ tip' \in Blocks /\ tip \in Blocks
      BY <1>1, <1>3, Zenon DEF CandidatesAbove, Above
    <3> QED BY <1>3, <2>2, <3>1, BeforeTrans DEF Worse
  <2>4. ~Worse(tip', tip')
    BY <1>1, <1>3, BeforeOrder, Zenon DEF Worse
  <2>5. \A c \in candidates' : c \in data /\ ~Worse(c, tip')
    BY <1>1, <1>2, <1>3, <1>4, <2>3, <2>4
  <2> QED BY <1>1, <2>5, Zenon DEF CandidatesAbove, Above, Worse
<1> QED BY <1>6, <1>8, <1>9, <1>10, <1>11, <1>12

LEMMA MarkFailedStep ==
  ASSUME SafeInv, NEW t \in Threads, MarkFailed(t) PROVE SafeInv'
<1> USE DEF SafeInv
<1>1. /\ pc[t] = "walk" /\ csMain = NoThread /\ local.target \notin Line[tip]
      /\ failedValid' = failedValid \cup {local.mark} /\ failedList' = failedList \cup {local.mark}
      /\ candidates' = (candidates \cup {c \in known : Usable(c) /\ ~Worse(c, tip)}) \ {local.mark}
      /\ csChainstate' = NoThread /\ local' = NoLocal
      /\ pc' = [pc EXCEPT ![t] = "activate"]
      /\ UNCHANGED <<known, data, scripts, failedChild, sequence, counters, tip, csMain, calls>>
  BY Zenon DEF MarkFailed, InChain, Goto
<1>2. Alone(t)
  BY <1>1, Owner, Zenon DEF Owning
<1>3. local.mark \in known /\ local.mark \notin Line[tip]
  BY <1>1, Zenon DEF WalkInv
<1>4. /\ scripts \cup failedValid \cup failedChild \subseteq known /\ failedList \subseteq Blocks
      /\ candidates \subseteq data /\ data \subseteq known /\ known \subseteq Blocks
      /\ csMain \in Threads \cup {NoThread} /\ calls \in 0 .. MaxCalls /\ tip \in Blocks
  BY Types DEF TypeOK, CandidatesAbove
<1>5. local' \in Locals /\ local'.most = NoBlock
  BY <1>1, Zenon DEF NoLocal, Locals
<1>6. "activate" \in Places /\ "activate" \notin Owning /\ "activate" \notin Holding
  BY DEF Places, Owning, Holding
<1>7. LocksInv' /\ pc'[t] = "activate" /\ Alone(t)'
  BY <1>1, <1>2, <1>6, LocksAfter, Zenon
<1>8. candidates' \subseteq data
  BY <1>1, <1>4, Zenon DEF Usable
<1>9. TypeOK'
  <2>1. /\ scripts' \cup failedValid' \cup failedChild' \subseteq known
        /\ failedList' \subseteq Blocks /\ candidates' \subseteq Blocks
        /\ csChainstate' \in Threads \cup {NoThread}
    BY <1>1, <1>3, <1>4, <1>8, Zenon
  <2> QED BY <1>1, <1>4, <1>5, <1>6, <2>1, InsideTypes, Zenon
<1>10. IndexInv'
  <2>1. Sound(tip)'
    BY <1>1, <1>3, Zenon DEF IndexInv, Sound, Failed
  <2> QED BY <1>1, <2>1, Zenon DEF IndexInv
<1>11. WalkInv' /\ StartInv' /\ MostInv'
  <2>1. \A u \in Threads : pc'[u] \in {"idle", "activate"}
    BY <1>7 DEF Alone
  <2> QED BY <1>1, <1>5, <2>1, Zenon DEF WalkInv, StartInv, MostInv
<1>12. CandidatesAbove'
  BY <1>1, <1>8, Zenon DEF CandidatesAbove, Above, Worse
<1> QED BY <1>7, <1>9, <1>10, <1>11, <1>12

-----------------------------------------------------------------------------

LEMMA InitSafe ==
  ASSUME Init PROVE SafeInv
<1> USE DEF Init
<1>1. Genesis \in Blocks /\ NoThread \notin Threads /\ MaxCalls \in Nat /\ Genesis \in Good
  BY ChainstateAssumption
<1>2. NoLocal \in Locals /\ NoLocal.most = NoBlock
  BY Zenon DEF NoLocal, Locals
<1>3. TypeOK
  <2>1. \A set \in {known, data, scripts, failedValid, failedChild, failedList, candidates} :
          set \subseteq Blocks
    BY <1>1
  <2>2. sequence \in [Blocks -> Int] /\ counters \in [next: Nat, reverse: Int, precious: Nat]
    OBVIOUS
  <2>3. local \in Locals /\ calls \in 0 .. MaxCalls
    BY <1>1, <1>2
  <2> QED BY <1>1, <2>1, <2>2, <2>3 DEF TypeOK, Locals
<1>4. LocksInv /\ WalkInv /\ StartInv /\ MostInv
  BY <1>1, <1>2, Zenon DEF LocksInv, Owning, Holding, WalkInv, StartInv, MostInv
<1>5. IndexInv
  <2>1. IsFiniteSet({Genesis})
    BY FS_Singleton, Zenon
  <2> QED BY <1>1, <2>1, LineIs, Zenon DEF IndexInv, Sound, Failed
<1>6. CandidatesAbove
  <2>1. ~Worse(Genesis, Genesis)
    BY <1>1, <1>3, Types, BeforeOrder, Zenon DEF Worse
  <2> QED BY <2>1 DEF CandidatesAbove, Above
<1> QED BY <1>3, <1>4, <1>5, <1>6 DEF SafeInv

LEMMA NextSafe ==
  ASSUME SafeInv, [Next]_vars PROVE SafeInv'
<1>1. CASE UNCHANGED vars
  <2> USE DEF vars, index, order, locks
  <2>1. TypeOK'
    BY <1>1 DEF SafeInv, TypeOK
  <2>2. LocksInv'
    BY <1>1 DEF SafeInv, LocksInv
  <2>5. StartInv'
    BY <1>1 DEF SafeInv, StartInv, Worse, Sound, Failed
  <2>3. IndexInv' /\ WalkInv'
    BY <1>1, Zenon DEF SafeInv, IndexInv, WalkInv, Sound, Failed
  <2>4. MostInv' /\ CandidatesAbove'
    BY <1>1, Zenon DEF SafeInv, MostInv, CandidatesAbove, Above, Worse, Sound, Failed
  <2> QED BY <2>1, <2>2, <2>3, <2>4, <2>5 DEF SafeInv
<1>2. CASE Next
  <2>1. CASE \E b \in Blocks : ProcessHeader(b)
    BY <2>1, HeaderStep
  <2>2. ASSUME NEW t \in Threads, Proceed(t) PROVE SafeInv'
    BY <2>2, LockChainstateStep, LockMainStep, DropStep, BeginStepStep, NothingStep, DisconnectStep,
       ConnectStep, InvalidFoundStep, AgainStep, InvalidateTipStep, MarkFailedStep DEF Proceed
  <2>3. ASSUME NEW t \in Threads, Restart(t) PROVE SafeInv'
    BY <2>3, RestartStep
  <2>4. ASSUME NEW t \in Threads, NEW b \in Blocks,
               \/ StoreBlock(t, b) \/ IgnoreBlock(t, b) \/ RefuseBlock(t, b)
               \/ InvalidateBlock(t, b) \/ ReconsiderBlock(t, b) \/ PreciousBlock(t, b)
        PROVE  SafeInv'
    BY <2>4, StoreStep, IgnoreStep, RefuseStep, InvalidateBlockStep, ReconsiderStep, PreciousStep
  <2> QED BY <1>2, <2>1, <2>2, <2>3, <2>4 DEF Next
<1> QED BY <1>1, <1>2

\* No thread that takes cs_main finds a flagged block in the active chain,
\* whichever blocks the operator invalidates, reconsiders or prefers meanwhile:
\* ActivateBestChain and InvalidateBlock only give the lock up with the flagged
\* blocks disconnected.
THEOREM NoFailedBlockInChain == Spec => []ChainNotFailed
<1>1. Init => SafeInv
  BY InitSafe
<1>2. SafeInv /\ [Next]_vars => SafeInv'
  BY NextSafe
<1>3. SafeInv => ChainNotFailed
  BY DEF SafeInv, IndexInv, Sound, ChainNotFailed
<1> QED BY <1>1, <1>2, <1>3, PTL DEF Spec

-----------------------------------------------------------------------------
(* The active chain is the best one.                                       *)

\* Every block that is not worse, has its data and is not flagged is a candidate.
CandidatesAll ==
  (\A t \in Threads : pc[t] # "walk") => \A b \in data : ~Failed(b) /\ Above(b) => b \in candidates

\* A flag has its reason.
Blamed == \A b \in known : Failed(b) => Line[b] \cap failedValid # {}

\* The inner loop of ActivateBestChain only goes on below where it started.
BackInv ==
  \A t \in Threads : pc[t] \in {"find", "disconnect"} => ~Worse(local.start, tip)

\* A thread is on its way to ActivateBestChain.
Coming == \E t \in Threads : pc[t] \in {"activate", "walk"}

\* What ActivateBestChain goes for is the best, or it will look again.
BestInv ==
  ~Coming =>
    \A b \in data : Sound(b) =>
       /\ csChainstate = NoThread => ~Worse(tip, b)
       /\ local.most # NoBlock => ~Worse(local.most, b)

ChoiceInv == CandidatesAll /\ Blamed /\ BackInv /\ BestInv

\* Flags that are added are added with a reason.
LEMMA BlamedKept ==
  ASSUME SafeInv, Blamed, known' \subseteq Blocks, failedValid \subseteq failedValid',
         \A b \in known' : Failed(b)' =>
           \E a \in Line[b] : a \in failedValid' \/ (a \in known /\ Failed(a))
  PROVE  Blamed'
<1> SUFFICES ASSUME NEW b \in known', Failed(b)' PROVE Line[b] \cap failedValid' # {}
  BY DEF Blamed
<1>1. PICK a \in Line[b] : a \in failedValid' \/ (a \in known /\ Failed(a))
  OBVIOUS
<1>2. CASE a \in known /\ Failed(a)
  <2>1. PICK f \in Line[a] : f \in failedValid
    BY <1>2 DEF Blamed
  <2>2. f \in Line[b]
    BY <1>1, <2>1, LineTrans
  <2> QED BY <2>1, <2>2
<1> QED BY <1>1, <1>2

\* Headers, and blocks that are refused, only add flags.
LEMMA FlagsChoice ==
  ASSUME SafeInv, ChoiceInv, UNCHANGED <<data, candidates, sequence, tip, csMain, csChainstate, pc, local>>,
         \A b \in data : Failed(b) => Failed(b)', Blamed'
  PROVE  ChoiceInv'
<1> USE DEF ChoiceInv
<1>1. CandidatesAll'
  BY DEF CandidatesAll, Above, Worse
<1>2. \A b \in data : Sound(b)' => Sound(b)
  BY DEF Sound, SafeInv, IndexInv
<1>3. BestInv'
  BY <1>2 DEF BestInv, Coming, Worse
<1>4. BackInv'
  BY DEF BackInv, Worse
<1> QED BY <1>1, <1>3, <1>4

LEMMA HeaderChoice ==
  ASSUME SafeInv, ChoiceInv, NEW b \in Blocks, ProcessHeader(b) PROVE ChoiceInv'
<1> USE DEF SafeInv
<1>1. /\ csMain = NoThread /\ b \notin known /\ Parent[b] \in known
      /\ UNCHANGED <<data, scripts, failedValid, failedList, order, tip, locks, pc, local, calls>>
      /\ \/ /\ known' = known
            /\ \E f \in failedList \cap Line[Parent[b]] :
                 failedChild' = failedChild \cup {c \in Line[Parent[b]] : f \in Line[c] /\ c # f}
         \/ known' = known \cup {b} /\ failedChild' = failedChild
  BY Zenon DEF ProcessHeader, FailedAncestor, HeaderAccepted
<1>2. /\ known \subseteq Blocks /\ failedValid \subseteq known /\ failedChild \subseteq known
      /\ failedList \subseteq failedValid
  BY Types, Zenon DEF IndexInv
<1>3. \A x \in known' : Failed(x)' =>
        \E a \in Line[x] : a \in failedValid' \/ (a \in known /\ Failed(a))
  <2> SUFFICES ASSUME NEW x \in known', Failed(x)'
               PROVE  \E a \in Line[x] : a \in failedValid' \/ (a \in known /\ Failed(a))
    OBVIOUS
  <2>1. x \in Blocks
    BY <1>1, <1>2
  <2>2. x \in Line[x]
    BY <2>1, LineIs
  <2> QED BY <1>1, <1>2, <2>2, Zenon DEF Failed
<1>4. Blamed'
  BY <1>1, <1>2, <1>3, BlamedKept, Zenon DEF ChoiceInv
<1> QED BY <1>1, <1>4, FlagsChoice, Zenon DEF order, locks, Failed

LEMMA RefuseChoice ==
  ASSUME SafeInv, ChoiceInv, NEW t \in Threads, NEW b \in Blocks, RefuseBlock(t, b) PROVE ChoiceInv'
<1> USE DEF SafeInv
<1>1. /\ known' = known \cup {b} /\ failedValid' = failedValid \cup {b}
      /\ UNCHANGED <<data, scripts, failedChild, failedList, order, tip, locks, pc, local, calls>>
  BY DEF RefuseBlock, NewBlock
<1>2. known \subseteq Blocks /\ failedValid \subseteq known /\ failedChild \subseteq known
  BY Types
<1>3. \A x \in known' : Failed(x)' =>
        \E a \in Line[x] : a \in failedValid' \/ (a \in known /\ Failed(a))
  BY <1>1, <1>2, LineIs DEF Failed
<1>4. Blamed'
  BY <1>1, <1>2, <1>3, BlamedKept, Zenon DEF ChoiceInv
<1> QED BY <1>1, <1>4, FlagsChoice DEF order, locks, Failed

\* A thread that goes on to ActivateBestChain looks at everything again.
LEMMA ComingChoice ==
  ASSUME SafeInv, csMain = NoThread, csMain' = NoThread, NEW t \in Threads, pc[t] = "idle",
         pc' = [pc EXCEPT ![t] = "activate"], CandidatesAll', Blamed'
  PROVE  ChoiceInv'
<1>1. pc \in [Threads -> Places] /\ NoThread \notin Threads
  BY ChainstateAssumption DEF SafeInv, TypeOK, Places
<1>2. Coming'
  BY <1>1 DEF Coming
<1>3. \A u \in Threads : pc'[u] \notin {"find", "disconnect"}
  BY <1>1 DEF SafeInv, LocksInv, Holding
<1> QED BY <1>2, <1>3, Zenon DEF ChoiceInv, BestInv, BackInv

LEMMA StoreChoice ==
  ASSUME SafeInv, ChoiceInv, NEW t \in Threads, NEW b \in Blocks, StoreBlock(t, b) PROVE ChoiceInv'
<1> USE DEF SafeInv
<1>1. /\ csMain = NoThread /\ pc[t] = "idle" /\ b \notin data
      /\ known' = known \cup {b} /\ data' = data \cup {b}
      /\ sequence' = [sequence EXCEPT ![b] = counters.next]
      /\ candidates' = IF Before(sequence', b, tip) THEN candidates ELSE candidates \cup {b}
      /\ pc' = [pc EXCEPT ![t] = "activate"]
      /\ UNCHANGED <<scripts, failedValid, failedChild, failedList, tip, csMain, local>>
  BY DEF StoreBlock, NewBlock, Goto, locks
<1>2. /\ known \subseteq Blocks /\ failedValid \subseteq known /\ failedChild \subseteq known
      /\ sequence \in [Blocks -> Int] /\ counters.next \in Nat /\ tip \in data /\ data \subseteq known
      /\ pc \in [Threads -> Places]
  BY Types, Zenon DEF IndexInv, TypeOK, Places
<1>3. \A x \in known' : Failed(x)' =>
        \E a \in Line[x] : a \in failedValid' \/ (a \in known /\ Failed(a))
  BY <1>1, <1>2, LineIs, Zenon DEF Failed
<1>4. Blamed'
  BY <1>1, <1>2, <1>3, BlamedKept, Zenon DEF ChoiceInv
<1>5. sequence' \in [Blocks -> Int]
  BY <1>1, <1>2
<1>6. CandidatesAll'
  <2> SUFFICES ASSUME \A u \in Threads : pc'[u] # "walk",
                      NEW x \in data', ~Failed(x)', ~Before(sequence', x, tip)
               PROVE  x \in candidates'
    BY <1>1, Zenon DEF CandidatesAll, Above, Worse
  <2>1. CASE x = b
    BY <1>1, <2>1
  <2>2. CASE x # b
    <3>1. x \in data /\ x \in Blocks /\ tip \in Blocks /\ tip # b
      BY <1>1, <1>2, <2>2
    <3>2. sequence'[x] = sequence[x] /\ sequence'[tip] = sequence[tip]
      BY <1>1, <1>2, <2>2, <3>1
    <3>3. ~Worse(x, tip)
      BY <1>2, <1>5, <3>1, <3>2, BeforeSame DEF Worse
    <3>4. ~Failed(x) /\ Above(x)
      BY <1>1, <3>3 DEF Failed, Above
    <3>5. \A u \in Threads : pc[u] # "walk"
      BY <1>1, <1>2
    <3> QED BY <1>1, <3>1, <3>4, <3>5 DEF ChoiceInv, CandidatesAll
  <2> QED BY <2>1, <2>2
<1> QED BY <1>1, <1>4, <1>6, ComingChoice, Zenon

LEMMA IgnoreChoice ==
  ASSUME SafeInv, ChoiceInv, NEW t \in Threads, NEW b \in Blocks, IgnoreBlock(t, b) PROVE ChoiceInv'
<1> USE DEF SafeInv
<1>1. /\ csMain = NoThread /\ pc[t] = "idle" /\ known' = known \cup {b}
      /\ pc' = [pc EXCEPT ![t] = "activate"]
      /\ UNCHANGED <<data, failedValid, failedChild, candidates, sequence, tip, csMain, local>>
  BY DEF IgnoreBlock, NewBlock, Goto, locks, order
<1>2. /\ known \subseteq Blocks /\ failedValid \subseteq known /\ failedChild \subseteq known
      /\ pc \in [Threads -> Places]
  BY Types DEF TypeOK, Places
<1>3. \A x \in known' : Failed(x)' =>
        \E a \in Line[x] : a \in failedValid' \/ (a \in known /\ Failed(a))
  BY <1>1, <1>2, LineIs, Zenon DEF Failed
<1>4. Blamed'
  BY <1>1, <1>2, <1>3, BlamedKept, Zenon DEF ChoiceInv
<1>5. CandidatesAll'
  BY <1>1, <1>2 DEF ChoiceInv, CandidatesAll, Above, Worse, Failed
<1> QED BY <1>1, <1>4, <1>5, ComingChoice, Zenon

\* Flags are taken away from the block and from all that is above it, and what
\* this makes usable becomes a candidate.
LEMMA ReconsiderChoice ==
  ASSUME SafeInv, ChoiceInv, ~AnyFailed, NEW t \in Threads, NEW b \in Blocks, ReconsiderBlock(t, b)
  PROVE  ChoiceInv'
<1> USE DEF SafeInv
<1> DEFINE below == {c \in known : b \in Line[c] /\ ~Usable(c)}
           reset == below \cup {c \in Line[b] : Failed(c)}
<1>1. /\ csMain = NoThread /\ pc[t] = "idle" /\ b \in known \ {Genesis}
      /\ \A a \in Line[Parent[b]] : ~Failed(a)
      /\ failedValid' = failedValid \ reset /\ failedChild' = failedChild \ reset
      /\ candidates' = candidates \cup {c \in below \cap data : Worse(tip, c)}
      /\ pc' = [pc EXCEPT ![t] = "activate"]
      /\ UNCHANGED <<known, data, sequence, tip, csMain, local>>
  BY Zenon DEF ReconsiderBlock, Call, Goto, locks
<1>2. /\ known \subseteq Blocks /\ failedValid \subseteq known /\ failedChild \subseteq known
      /\ sequence \in [Blocks -> Int] /\ tip \in data /\ data \subseteq known
      /\ pc \in [Threads -> Places]
  BY Types, Zenon DEF IndexInv, TypeOK, Places
<1>3. \A c \in reset : c \in known /\ b \in Line[c] /\ ~Usable(c)
  <2>1. Line[b] = {b} \cup Line[Parent[b]] /\ b \in Line[b]
    BY <1>1, LineIs, Zenon
  <2> QED BY <1>1, <2>1, Zenon DEF Usable
<1>4. \A c \in known : b \in Line[c] /\ ~Usable(c) => c \in reset
  BY Zenon
<1>5. \A c \in reset \cap data : c \in below \cap data
  BY <1>3, Zenon
<1> HIDE DEF reset, below
<1>6. Blamed'
  <2> SUFFICES ASSUME NEW x \in known, Failed(x), x \notin reset PROVE Line[x] \cap failedValid' # {}
    BY <1>1, Zenon DEF Blamed, Failed
  <2>1. b \notin Line[x]
    BY <1>4, Zenon DEF Usable
  <2>2. PICK f \in Line[x] : f \in failedValid
    BY DEF ChoiceInv, Blamed
  <2>3. Line[f] \subseteq Line[x]
    BY <1>2, LineTrans
  <2>4. f \notin reset
    BY <1>3, <2>1, <2>3
  <2> QED BY <1>1, <2>2, <2>4, Zenon
<1>7. CandidatesAll'
  <2> SUFFICES ASSUME \A u \in Threads : pc'[u] # "walk",
                      NEW x \in data, ~Failed(x)', ~Worse(x, tip)
               PROVE  x \in candidates'
    BY <1>1, Zenon DEF CandidatesAll, Above, Worse
  <2>1. \A u \in Threads : pc[u] # "walk"
    BY <1>1, <1>2, Zenon
  <2>2. CASE ~Failed(x)
    BY <1>1, <2>1, <2>2 DEF ChoiceInv, CandidatesAll, Above
  <2>3. CASE Failed(x)
    <3>1. x \in reset
      BY <1>1, <2>3, Zenon DEF Failed
    <3>2. x # tip
      BY <1>2, <2>3, LineIs, Zenon DEF IndexInv, Sound
    <3>3. Worse(tip, x)
      BY <1>2, <3>2, BeforeOrder DEF Worse
    <3> QED BY <1>1, <1>5, <3>1, <3>3, Zenon
  <2> QED BY <2>2, <2>3
<1> QED BY <1>1, <1>6, <1>7, ComingChoice, Zenon

LEMMA PreciousChoice ==
  ASSUME SafeInv, ChoiceInv, ~AnyPrecious, NEW t \in Threads, NEW b \in Blocks, PreciousBlock(t, b)
  PROVE  ChoiceInv'
<1> USE DEF SafeInv
<1> DEFINE id == IF Work[tip] > counters.precious THEN -1 ELSE counters.reverse
<1>1. /\ csMain = NoThread /\ pc[t] = "idle"
      /\ b # tip \/ id < sequence[b]
      /\ sequence' = [sequence EXCEPT ![b] = id]
      /\ candidates' = IF Usable(b) THEN Pruned(candidates \cup {b}, sequence', tip)
                       ELSE candidates \ {b}
      /\ pc' = [pc EXCEPT ![t] = "activate"]
      /\ UNCHANGED <<known, data, failedValid, failedChild, tip, csMain, local>>
  BY DEF PreciousBlock, Call, Goto, index, locks
<1>2. /\ known \subseteq Blocks /\ sequence \in [Blocks -> Int] /\ tip \in data /\ data \subseteq known
      /\ pc \in [Threads -> Places] /\ counters.reverse \in Int
  BY Types, Zenon DEF IndexInv, TypeOK, Places
<1>3. id \in Int
  BY <1>2
<1> HIDE DEF id
<1>4. sequence' \in [Blocks -> Int]
  BY <1>1, <1>2, <1>3
<1>5. Blamed'
  BY <1>1, Zenon DEF ChoiceInv, Blamed, Failed
<1>6. CandidatesAll'
  <2> SUFFICES ASSUME \A u \in Threads : pc'[u] # "walk",
                      NEW x \in data, ~Failed(x), ~Before(sequence', x, tip)
               PROVE  x \in candidates'
    BY <1>1, Zenon DEF CandidatesAll, Above, Worse, Failed
  <2>1. \A u \in Threads : pc[u] # "walk"
    BY <1>1, <1>2
  <2>2. x \in Blocks /\ tip \in Blocks
    BY <1>2
  <2>3. CASE x = b
    BY <1>1, <2>3 DEF Usable, Pruned
  <2>4. CASE x # b
    <3>1. ~Worse(x, tip)
      <4>1. CASE b = tip
        BY <1>1, <1>2, <1>3, <2>2, <4>1, BeforeLowered, Zenon DEF Worse
      <4>2. CASE b # tip
        <5>1. sequence'[x] = sequence[x] /\ sequence'[tip] = sequence[tip]
          BY <1>1, <1>2, <2>2, <2>4, <4>2
        <5> QED BY <1>2, <1>4, <2>2, <5>1, BeforeSame DEF Worse
      <4> QED BY <4>1, <4>2
    <3>2. x \in candidates
      BY <1>1, <2>1, <3>1 DEF ChoiceInv, CandidatesAll, Above
    <3> QED BY <1>1, <2>4, <3>2 DEF Pruned
  <2> QED BY <2>3, <2>4
<1> QED BY <1>1, <1>5, <1>6, ComingChoice, Zenon

LEMMA RestartChoice ==
  ASSUME SafeInv, ChoiceInv, NEW t \in Threads, Restart(t) PROVE ChoiceInv'
<1> USE DEF SafeInv
<1> DEFINE more == {c \in known : ~Failed(c) /\ \E a \in Line[c] : Failed(a)}
           id == [b \in Blocks |-> 0]
<1>1. /\ csMain = NoThread /\ pc[t] = "idle"
      /\ failedChild' = failedChild \cup more /\ sequence' = id
      /\ candidates' = Pruned(data \ (failedValid \cup failedChild'), id, tip)
      /\ pc' = [pc EXCEPT ![t] = "activate"]
      /\ UNCHANGED <<known, data, failedValid, tip, csMain, local>>
  BY Zenon DEF Restart, Call, Goto, locks
<1>2. known \subseteq Blocks /\ failedValid \subseteq known /\ failedChild \subseteq known
  BY Types
<1>3. \A x \in known' : Failed(x)' =>
        \E a \in Line[x] : a \in failedValid' \/ (a \in known /\ Failed(a))
  <2> SUFFICES ASSUME NEW x \in known, Failed(x)'
               PROVE  \E a \in Line[x] : a \in failedValid \/ (a \in known /\ Failed(a))
    BY <1>1, Zenon
  <2>1. CASE Failed(x)
    BY <1>2, <2>1, LineIs
  <2>2. CASE ~Failed(x)
    <3>1. x \in more
      BY <1>1, <2>2, Zenon DEF Failed
    <3> QED BY <1>2, <3>1 DEF Failed
  <2> QED BY <2>1, <2>2
<1>4. Blamed'
  BY <1>1, <1>2, <1>3, BlamedKept, Zenon DEF ChoiceInv
<1> HIDE DEF id, more
<1>5. CandidatesAll'
  BY <1>1 DEF CandidatesAll, Above, Worse, Failed, Pruned
<1> QED BY <1>1, <1>4, <1>5, ComingChoice, Zenon

LEMMA LockChainstateChoice ==
  ASSUME SafeInv, ChoiceInv, NEW t \in Threads, LockChainstate(t) PROVE ChoiceInv'
<1> USE DEF SafeInv
<1>1. /\ csChainstate = NoThread /\ csChainstate' = t /\ local' = NoLocal
      /\ pc' = [pc EXCEPT ![t] = "loop"]
      /\ UNCHANGED <<known, data, failedValid, failedChild, candidates, sequence, tip, csMain>>
  BY DEF LockChainstate, Goto, index, order
<1>2. /\ csMain = NoThread /\ t # NoThread /\ pc \in [Threads -> Places]
      /\ \A u \in Threads : pc[u] \in {"idle", "activate"}
  BY <1>1, NoOwner, ChainstateAssumption, Zenon DEF TypeOK, Places
<1>3. \A u \in Threads : pc'[u] \in {"idle", "activate", "loop"}
  BY <1>1, <1>2
<1>4. CandidatesAll' /\ Blamed'
  BY <1>1, <1>2, Zenon DEF ChoiceInv, CandidatesAll, Blamed, Above, Worse, Failed
<1>5. BackInv' /\ BestInv'
  <2>1. local'.most = NoBlock /\ csChainstate' # NoThread
    BY <1>1, <1>2 DEF NoLocal
  <2> QED BY <1>3, <2>1 DEF BackInv, BestInv
<1> QED BY <1>4, <1>5 DEF ChoiceInv

LEMMA LockMainChoice ==
  ASSUME SafeInv, ChoiceInv, NEW t \in Threads, LockMain(t) PROVE ChoiceInv'
<1> USE DEF SafeInv
<1>1. /\ pc[t] = "loop" /\ csMain = NoThread /\ csMain' = t
      /\ local' = [local EXCEPT !.start = tip, !.connected = FALSE]
      /\ pc' = [pc EXCEPT ![t] = "find"]
      /\ UNCHANGED <<known, data, failedValid, failedChild, candidates, sequence, tip, csChainstate>>
  BY DEF LockMain, Goto, index, order
<1>2. /\ csChainstate = t /\ Alone(t) /\ t # NoThread /\ pc \in [Threads -> Places]
      /\ local \in Locals /\ tip \in Blocks /\ sequence \in [Blocks -> Int]
  BY <1>1, Owner DEF Owning, TypeOK, Places, Locals
<1>3. local'.start = tip /\ local'.most = local.most
  BY <1>1, <1>2 DEF Locals
<1>4. \A u \in Threads : pc[u] # "walk"
  BY <1>1, <1>2 DEF Alone
<1>5. CandidatesAll' /\ Blamed'
  BY <1>1, <1>3, <1>4 DEF ChoiceInv, CandidatesAll, Blamed, Above, Worse, Failed
<1>6. BackInv'
  BY <1>1, <1>2, <1>3, BeforeOrder DEF BackInv, Worse
<1>7. Coming => Coming'
  BY <1>1, <1>2 DEF Coming
<1>8. BestInv'
  BY <1>1, <1>2, <1>3, <1>7 DEF ChoiceInv, BestInv, Worse, Sound, Failed
<1> QED BY <1>5, <1>6, <1>8 DEF ChoiceInv

\* What a holder of cs_main that looks for a chain needs of the other threads.
LEMMA HolderIs ==
  ASSUME SafeInv, NEW t \in Threads, pc[t] \in Holding
  PROVE  /\ csChainstate = t /\ csMain = t /\ Alone(t) /\ t # NoThread /\ csMain # NoThread
         /\ pc \in [Threads -> Places] /\ (\A u \in Threads : pc[u] # "walk")
         /\ local \in Locals /\ tip \in Blocks /\ sequence \in [Blocks -> Int]
         /\ tip \in data /\ ~Failed(tip)
         /\ local.start \in Blocks /\ local.start \in data /\ ~Failed(local.start)
         /\ data \subseteq known /\ known \subseteq Blocks
<1> USE DEF SafeInv
<1>1. csChainstate = t /\ csMain = t /\ Alone(t) /\ t # NoThread
  <2>1. pc[t] \in Owning
    BY DEF Owning, Holding
  <2> QED BY <2>1, Owner
<1>2. /\ pc \in [Threads -> Places] /\ local \in Locals /\ tip \in Blocks /\ tip \in data
      /\ sequence \in [Blocks -> Int] /\ data \subseteq known /\ known \subseteq Blocks
  BY Types, Zenon DEF TypeOK, Places, Locals, IndexInv
<1>3. \A u \in Threads : pc[u] # "walk"
  BY <1>1 DEF Alone, Holding
<1>4. local.start \in data /\ Sound(local.start) /\ Sound(tip)
  BY <1>1, Zenon DEF StartInv, IndexInv
<1>5. ~Failed(tip) /\ ~Failed(local.start)
  BY <1>2, <1>4, LineIs DEF Sound
<1> QED BY <1>1, <1>2, <1>3, <1>4, <1>5

\* There is always a candidate, and the best one is the best of all chains that
\* have no flag.
LEMMA BestOfAll ==
  ASSUME SafeInv, CandidatesAll, NEW t \in Threads, pc[t] \in Holding
  PROVE  candidates # {} /\ \A b \in data : Sound(b) => ~Worse(Best, b)
<1> USE DEF SafeInv
<1>1. /\ csMain # NoThread /\ (\A u \in Threads : pc[u] # "walk") /\ known \subseteq Blocks
      /\ tip \in Blocks /\ sequence \in [Blocks -> Int] /\ tip \in data /\ ~Failed(tip)
      /\ local.start \in Blocks /\ local.start \in data /\ ~Failed(local.start) /\ data \subseteq known
  BY HolderIs
<1>2. candidates # {}
  <2>1. ~Worse(tip, tip) /\ ~Worse(local.start, local.start)
    BY <1>1, BeforeOrder DEF Worse
  <2>2. CASE Worse(tip, local.start)
    <3>1. ~Worse(local.start, tip)
      BY <1>1, <2>2, BeforeOrder DEF Worse
    <3> QED BY <1>1, <2>1, <3>1 DEF CandidatesAll, Above
  <2>3. CASE ~Worse(tip, local.start)
    BY <1>1, <2>1, <2>3 DEF CandidatesAll, Above
  <2> QED BY <2>2, <2>3
<1>3. ASSUME NEW b \in data, Sound(b) PROVE ~Worse(Best, b)
  <2>1. Best \in Blocks /\ Best \in candidates /\ \A d \in candidates : ~Worse(Best, d)
    BY <1>2, BestIs
  <2>2. ~Worse(Best, tip) /\ ~Worse(Best, local.start)
    BY <1>1, <2>1 DEF CandidatesAbove, Above
  <2>3. b \in Blocks /\ ~Failed(b)
    BY <1>1, <1>3, LineIs DEF Sound
  <2>4. CASE Above(b)
    BY <1>1, <2>1, <2>3, <2>4 DEF CandidatesAll
  <2>5. CASE Worse(b, tip) \/ Worse(b, local.start)
    BY <1>1, <2>1, <2>2, <2>3, <2>5, BeforeTrans, BeforeOrder, Zenon DEF Worse
  <2> QED BY <2>4, <2>5 DEF Above
<1> QED BY <1>2, <1>3

\* ActivateBestChain only gives up cs_main with a tip that is not worse than
\* where it began.
LEMMA Progress ==
  ASSUME SafeInv, ChoiceInv, NEW t \in Threads, NothingToDo(t) \/ Again(t), csMain' = NoThread
  PROVE  ~Worse(tip, local.start) /\ (NothingToDo(t) => MostWork = tip /\ MostWork = Best)
<1>1. CASE NothingToDo(t)
  <2>1. Found(t) /\ pc[t] = "find" /\ MostWork \in {NoBlock, tip}
    BY <1>1 DEF NothingToDo, Found
  <2>2. pc[t] \in Holding
    BY <2>1 DEF Holding
  <2>3. candidates # {}
    BY <2>2, BestOfAll DEF ChoiceInv
  <2>4. Best \in Blocks /\ NoBlock \notin Blocks /\ tip \in Blocks /\ sequence \in [Blocks -> Int]
    BY <2>2, <2>3, BestIs, ChainstateAssumption, HolderIs, Zenon
  <2>5. MostWork # NoBlock
    BY <2>3, <2>4 DEF MostWork
  <2>6. ~Worse(tip, local.start) /\ MostWork = tip
    BY <2>1, <2>5, MostWorkIs
  <2>7. local.most = NoBlock
    <3>1. SUFFICES ASSUME local.most # NoBlock PROVE FALSE
      OBVIOUS
    <3>2. Worse(tip, local.most) /\ local.most = tip
      BY <2>1, <2>6, <3>1, Zenon DEF MostWork, SafeInv, MostInv
    <3> QED BY <2>4, <3>2, BeforeOrder DEF Worse
  <2> QED BY <2>3, <2>6, <2>7 DEF MostWork
<1>2. CASE Again(t) /\ ~NothingToDo(t)
  <2>1. pc[t] = "again"
    BY <1>2 DEF Again
  <2>2. pc[t] \in Holding
    BY <2>1 DEF Holding
  <2>3. csMain # NoThread
    BY <2>2, HolderIs
  <2> QED BY <1>2, <2>3 DEF Again, locks
<1> QED BY <1>1, <1>2

\* Outside of cs_main no more blocks count as not worse.
LEMMA UnlockCandidates ==
  ASSUME SafeInv, ChoiceInv, NEW t \in Threads, pc[t] \in Holding, ~Worse(tip, local.start),
         csMain' = NoThread, UNCHANGED <<data, failedValid, failedChild, candidates, sequence, tip>>
  PROVE  CandidatesAll'
<1>1. /\ (\A u \in Threads : pc[u] # "walk") /\ tip \in Blocks /\ sequence \in [Blocks -> Int]
      /\ local.start \in Blocks /\ data \subseteq known /\ known \subseteq Blocks
  BY HolderIs
<1> SUFFICES ASSUME NEW x \in data, ~Failed(x), ~Worse(x, tip) PROVE x \in candidates
  BY DEF CandidatesAll, Above, Worse, Failed
<1>2. x \in Blocks
  BY <1>1
<1>3. ~Worse(x, local.start)
  BY <1>1, <1>2, BeforeTrans DEF Worse
<1> QED BY <1>1, <1>3 DEF ChoiceInv, CandidatesAll, Above

LEMMA DropChoice ==
  ASSUME SafeInv, ChoiceInv, NEW t \in Threads, DropCandidate(t) PROVE ChoiceInv'
<1>1. UNCHANGED <<known, data, scripts, failedValid, failedList, sequence, counters, tip,
                  csMain, csChainstate, pc, local, calls>>
  BY DropIs DEF locks
<1>2. PICK test \in known, above \in SUBSET known :
        /\ Failed(test) /\ \A c \in above : test \in Line[c]
        /\ failedChild' = failedChild \cup above
        /\ candidates' = candidates \ (above \cup {test})
  BY DropIs
<1>3. known \subseteq Blocks /\ failedValid \subseteq known /\ failedChild \subseteq known
  BY Types DEF SafeInv
<1>4. Blamed'
  <2>1. \A x \in known' : Failed(x)' =>
          \E a \in Line[x] : a \in failedValid' \/ (a \in known /\ Failed(a))
    BY <1>1, <1>2, <1>3, LineIs DEF Failed
  <2> QED BY <1>1, <1>3, <2>1, BlamedKept, Zenon DEF ChoiceInv
<1>5. CandidatesAll'
  BY <1>1, <1>2, Zenon DEF ChoiceInv, CandidatesAll, Above, Worse, Failed
<1>6. BestInv'
  <2>1. \A b \in data : Sound(b)' => Sound(b)
    BY <1>1, <1>2, Zenon DEF Sound, Failed
  <2> QED BY <1>1, <2>1 DEF ChoiceInv, BestInv, Coming, Worse
<1>7. BackInv'
  BY <1>1 DEF ChoiceInv, BackInv, Worse
<1> QED BY <1>4, <1>5, <1>6, <1>7 DEF ChoiceInv

LEMMA BeginStepChoice ==
  ASSUME SafeInv, ChoiceInv, NEW t \in Threads, BeginStep(t) PROVE ChoiceInv'
<1>1. /\ Found(t) /\ pc[t] = "find" /\ MostWork \notin {NoBlock, tip}
      /\ local' = [local EXCEPT !.most = MostWork, !.old = tip]
      /\ pc' = [pc EXCEPT ![t] = "disconnect"]
      /\ UNCHANGED <<known, data, failedValid, failedChild, candidates, sequence, tip,
                     csMain, csChainstate>>
  BY DEF BeginStep, Found, Goto, index, order, locks
<1>2. pc[t] \in Holding
  BY <1>1 DEF Holding
<1>3. /\ csChainstate = t /\ Alone(t) /\ t # NoThread /\ pc \in [Threads -> Places]
      /\ local \in Locals /\ \A u \in Threads : pc[u] # "walk"
  BY <1>2, HolderIs
<1>4. local'.most = MostWork /\ local'.start = local.start
  BY <1>1, <1>3 DEF Locals
<1>5. CandidatesAll' /\ Blamed'
  BY <1>1, <1>3, <1>4 DEF ChoiceInv, CandidatesAll, Blamed, Above, Worse, Failed
<1>6. BackInv'
  BY <1>1, <1>3, <1>4 DEF ChoiceInv, BackInv, Worse
<1>7. Coming => Coming'
  BY <1>1, <1>3 DEF Coming
<1>8. BestInv'
  <2> SUFFICES ASSUME ~Coming, NEW b \in data, Sound(b) PROVE ~Worse(MostWork, b)
    BY <1>1, <1>3, <1>4, <1>7 DEF BestInv, Sound, Failed, Worse
  <2>1. CASE local.most # NoBlock
    BY <2>1 DEF ChoiceInv, BestInv, MostWork
  <2>2. CASE local.most = NoBlock
    BY <1>2, <2>2, BestOfAll DEF ChoiceInv, MostWork
  <2> QED BY <2>1, <2>2
<1> QED BY <1>5, <1>6, <1>8 DEF ChoiceInv

LEMMA NothingChoice ==
  ASSUME SafeInv, ChoiceInv, NEW t \in Threads, NothingToDo(t) PROVE ChoiceInv'
<1>1. pc[t] = "find" /\ csMain' = NoThread /\ pc[t] \in Holding
      /\ UNCHANGED <<known, data, failedValid, failedChild, candidates, sequence, tip>>
  BY DEF NothingToDo, Found, index, order, Holding
<1>2. ~Worse(tip, local.start) /\ MostWork = tip /\ MostWork = Best
  BY <1>1, Progress
<1>3. /\ Alone(t) /\ t # NoThread /\ pc \in [Threads -> Places] /\ tip \in Blocks
      /\ NoBlock \notin Blocks
  BY <1>1, HolderIs, ChainstateAssumption
<1>4. pc' = [pc EXCEPT ![t] = "idle"] /\ local' = NoLocal
  BY <1>2, <1>3, Zenon DEF NothingToDo, Goto
<1>5. CandidatesAll' /\ Blamed'
  BY <1>1, <1>2, UnlockCandidates, Zenon DEF ChoiceInv, Blamed, Failed
<1>6. \A u \in Threads : pc'[u] \in {"idle", "activate"}
  BY <1>3, <1>4 DEF Alone
<1>7. BackInv'
  BY <1>6 DEF BackInv
<1>8. BestInv'
  <2>1. \A b \in data : Sound(b) => ~Worse(tip, b)
    BY <1>1, <1>2, BestOfAll DEF ChoiceInv
  <2>2. local'.most = NoBlock
    BY <1>4 DEF NoLocal
  <2> QED BY <1>1, <2>1, <2>2, Zenon DEF BestInv, Sound, Failed, Worse
<1> QED BY <1>5, <1>7, <1>8 DEF ChoiceInv

LEMMA DisconnectChoice ==
  ASSUME SafeInv, ChoiceInv, NEW t \in Threads, DisconnectTip(t) PROVE ChoiceInv'
<1>1. /\ pc[t] = "disconnect" /\ pc[t] \in Holding
      /\ UNCHANGED <<known, data, failedValid, failedChild, candidates, sequence,
                     csMain, csChainstate, local>>
      /\ \/ tip' = tip /\ pc' = [pc EXCEPT ![t] = "connect"]
         \/ tip \notin Line[local.most] /\ tip' = Parent[tip] /\ pc' = pc
  BY Zenon DEF DisconnectTip, Goto, index, order, locks, Holding
<1>2. /\ csChainstate = t /\ csMain # NoThread /\ Alone(t) /\ t # NoThread
      /\ pc \in [Threads -> Places] /\ (\A u \in Threads : pc[u] # "walk")
      /\ tip \in Blocks /\ sequence \in [Blocks -> Int] /\ local.start \in Blocks
      /\ data \subseteq known /\ known \subseteq Blocks
  BY <1>1, HolderIs
<1>3. tip' \in Line[tip] /\ tip' \in Blocks
  <2>1. CASE tip' = tip
    BY <1>2, <2>1, LineIs
  <2>2. CASE tip \notin Line[local.most] /\ tip' = Parent[tip]
    <3>1. local.most \in Blocks
      BY <1>1, Types DEF SafeInv, MostInv
    <3>2. tip # Genesis
      BY <2>2, <3>1, LineType
    <3> QED BY <1>2, <2>2, <3>2, LineIs, ParentIs
  <2> QED BY <1>1, <2>1, <2>2
<1>4. ~Worse(local.start, tip) /\ (tip' = tip \/ Worse(tip', tip))
  BY <1>1, <1>2, <1>3, LineBefore DEF ChoiceInv, BackInv, Worse
<1>5. ~Worse(local.start, tip')
  BY <1>2, <1>3, <1>4, BeforeTrans DEF Worse
<1>6. CandidatesAll'
  <2> SUFFICES ASSUME NEW x \in data, ~Failed(x), ~Worse(x, local.start) PROVE x \in candidates
    BY <1>1, <1>2 DEF CandidatesAll, Above, Worse, Failed
  <2>1. x \in Blocks
    BY <1>2
  <2>2. ~Worse(x, tip)
    BY <1>2, <1>4, <2>1, BeforeTrans DEF Worse
  <2> QED BY <1>2, <2>2 DEF ChoiceInv, CandidatesAll, Above
<1>7. Blamed'
  BY <1>1, Zenon DEF ChoiceInv, Blamed, Failed
<1>8. \A u \in Threads : pc'[u] \in {"find", "disconnect"} => u = t
  BY <1>1, <1>2, Zenon DEF Alone
<1>9. BackInv'
  BY <1>1, <1>5, <1>8, Zenon DEF BackInv, Worse
<1>10. Coming => Coming'
  BY <1>1, <1>2 DEF Coming
<1>11. BestInv'
  BY <1>1, <1>2, <1>10, Zenon DEF ChoiceInv, BestInv, Sound, Failed, Worse
<1> QED BY <1>6, <1>7, <1>9, <1>11 DEF ChoiceInv

LEMMA ConnectChoice ==
  ASSUME SafeInv, ChoiceInv, NEW t \in Threads, ConnectTip(t) PROVE ChoiceInv'
<1>1. /\ pc[t] = "connect" /\ pc[t] \in Holding /\ tip' = NextBlock
      /\ candidates' = Pruned(candidates, sequence, NextBlock)
      /\ UNCHANGED <<known, data, failedValid, failedChild, sequence, csMain, csChainstate>>
      /\ \/ pc' = [pc EXCEPT ![t] = "again"] /\ local' = [local EXCEPT !.connected = TRUE]
         \/ pc' = pc /\ local' = local
  BY DEF ConnectTip, NextBlock, Goto, locks, Holding
<1>2. /\ csChainstate = t /\ csMain # NoThread /\ Alone(t) /\ t # NoThread
      /\ pc \in [Threads -> Places] /\ (\A u \in Threads : pc[u] # "walk") /\ local \in Locals
      /\ tip \in Blocks /\ sequence \in [Blocks -> Int]
      /\ data \subseteq known /\ known \subseteq Blocks
  BY <1>1, HolderIs
<1>3. tip' \in Blocks /\ Worse(tip, tip')
  BY <1>1, NextBlockIs
<1>4. local'.start = local.start /\ local'.most = local.most
  BY <1>1, <1>2 DEF Locals
<1>5. CandidatesAll'
  <2> SUFFICES ASSUME NEW x \in data, ~Failed(x), ~Worse(x, tip'), ~Worse(x, local.start)
               PROVE  x \in candidates'
    BY <1>1, <1>2, <1>4 DEF CandidatesAll, Above, Worse, Failed
  <2>1. x \in Blocks
    BY <1>2
  <2>2. ~Worse(x, tip)
    BY <1>2, <1>3, <2>1, BeforeTrans DEF Worse
  <2>3. x \in candidates
    BY <1>2, <2>2 DEF ChoiceInv, CandidatesAll, Above
  <2> QED BY <1>1, <2>3 DEF Pruned, Worse
<1>6. Blamed'
  BY <1>1 DEF ChoiceInv, Blamed, Failed
<1>7. \A u \in Threads : pc'[u] \notin {"find", "disconnect"}
  BY <1>1, <1>2 DEF Alone
<1>8. BackInv'
  BY <1>7 DEF BackInv
<1>9. Coming => Coming'
  BY <1>1, <1>2 DEF Coming
<1>10. BestInv'
  BY <1>1, <1>2, <1>4, <1>9 DEF ChoiceInv, BestInv, Sound, Failed, Worse
<1> QED BY <1>5, <1>6, <1>8, <1>10 DEF ChoiceInv

LEMMA InvalidFoundChoice ==
  ASSUME SafeInv, ChoiceInv, NEW t \in Threads, InvalidBlockFound(t) PROVE ChoiceInv'
<1>1. /\ pc[t] = "connect" /\ pc[t] \in Holding
      /\ failedValid' = failedValid \cup {NextBlock} /\ candidates' = candidates \ {NextBlock}
      /\ local' = [local EXCEPT !.most = NoBlock, !.connected = TRUE]
      /\ pc' = [pc EXCEPT ![t] = "again"]
      /\ UNCHANGED <<known, data, failedChild, sequence, tip, csMain, csChainstate>>
  BY DEF InvalidBlockFound, NextBlock, Goto, locks, Holding
<1>2. /\ csChainstate = t /\ Alone(t) /\ t # NoThread /\ known \subseteq Blocks
      /\ pc \in [Threads -> Places] /\ (\A u \in Threads : pc[u] # "walk") /\ local \in Locals
  BY <1>1, HolderIs
<1>3. local'.start = local.start /\ local'.most = NoBlock
  BY <1>1, <1>2 DEF Locals
<1>4. CandidatesAll'
  BY <1>1, <1>2, <1>3 DEF ChoiceInv, CandidatesAll, Above, Worse, Failed
<1>5. Blamed'
  <2>1. failedValid \subseteq known /\ failedChild \subseteq known
    BY Types DEF SafeInv
  <2>2. \A x \in known' : Failed(x)' =>
          \E a \in Line[x] : a \in failedValid' \/ (a \in known /\ Failed(a))
    BY <1>1, <1>2, <2>1, LineIs DEF Failed
  <2> QED BY <1>1, <1>2, <2>2, BlamedKept DEF ChoiceInv
<1>6. \A u \in Threads : pc'[u] \notin {"find", "disconnect"}
  BY <1>1, <1>2 DEF Alone
<1>7. BackInv' /\ BestInv'
  BY <1>1, <1>2, <1>3, <1>6 DEF BackInv, BestInv
<1> QED BY <1>4, <1>5, <1>7 DEF ChoiceInv

LEMMA AgainChoice ==
  ASSUME SafeInv, ChoiceInv, NEW t \in Threads, Again(t) PROVE ChoiceInv'
<1>1. /\ pc[t] = "again" /\ pc[t] \in Holding
      /\ UNCHANGED <<known, data, failedValid, failedChild, candidates, sequence, tip>>
  BY DEF Again, index, order, Holding
<1>2. /\ csChainstate = t /\ csMain # NoThread /\ Alone(t) /\ t # NoThread
      /\ pc \in [Threads -> Places] /\ (\A u \in Threads : pc[u] # "walk")
      /\ tip \in Blocks /\ sequence \in [Blocks -> Int] /\ local.start \in Blocks
  BY <1>1, HolderIs
<1>3. Blamed'
  BY <1>1 DEF ChoiceInv, Blamed, Failed
<1>4. CASE Worse(tip, local.start)
  <2>1. pc' = [pc EXCEPT ![t] = "find"] /\ UNCHANGED <<csMain, csChainstate, local>>
    BY <1>4 DEF Again, Goto, locks
  <2>2. CandidatesAll'
    BY <1>1, <1>2, <2>1 DEF ChoiceInv, CandidatesAll, Above, Worse, Failed
  <2>3. \A u \in Threads : pc'[u] \in {"find", "disconnect"} => u = t
    BY <1>2, <2>1 DEF Alone
  <2>4. ~Worse(local.start, tip)
    BY <1>2, <1>4, BeforeOrder DEF Worse
  <2>5. BackInv'
    BY <1>1, <2>1, <2>3, <2>4 DEF BackInv, Worse
  <2>6. Coming => Coming'
    BY <1>1, <1>2, <2>1 DEF Coming
  <2>7. BestInv'
    BY <1>1, <1>2, <2>1, <2>6, Zenon DEF ChoiceInv, BestInv, Sound, Failed, Worse
  <2> QED BY <1>3, <2>2, <2>5, <2>7 DEF ChoiceInv
<1>5. CASE ~Worse(tip, local.start)
  <2>1. /\ csMain' = NoThread
        /\ \/ /\ tip = local.most /\ pc' = [pc EXCEPT ![t] = "idle"]
              /\ csChainstate' = NoThread /\ local' = NoLocal
           \/ /\ tip # local.most /\ pc' = [pc EXCEPT ![t] = "loop"]
              /\ UNCHANGED <<csChainstate, local>>
    BY <1>5 DEF Again, Goto
  <2>2. CandidatesAll'
    BY <1>1, <1>5, <2>1, UnlockCandidates
  <2>3. \A u \in Threads : pc'[u] \notin {"find", "disconnect"}
    BY <1>1, <1>2, <2>1 DEF Alone
  <2>4. Coming => Coming'
    BY <1>1, <1>2, <2>1 DEF Coming
  <2>5. BestInv'
    <3>1. CASE csChainstate' = NoThread /\ tip = local.most /\ local' = NoLocal
      <4>1. local'.most = NoBlock /\ local.most # NoBlock
        BY <1>2, <3>1, ChainstateAssumption, Zenon DEF NoLocal
      <4> QED BY <1>1, <2>4, <3>1, <4>1, Zenon DEF ChoiceInv, BestInv, Sound, Failed, Worse
    <3>2. CASE UNCHANGED <<csChainstate, local>>
      BY <1>1, <1>2, <2>4, <3>2, Zenon DEF ChoiceInv, BestInv, Sound, Failed, Worse
    <3> QED BY <2>1, <3>1, <3>2
  <2>6. BackInv'
    BY <2>3 DEF BackInv
  <2> QED BY <1>3, <2>2, <2>5, <2>6 DEF ChoiceInv
<1> QED BY <1>4, <1>5

LEMMA InvalidateBlockChoice ==
  ASSUME SafeInv, ChoiceInv, NEW t \in Threads, NEW b \in Blocks, InvalidateBlock(t, b)
  PROVE  ChoiceInv'
<1>1. /\ csChainstate = NoThread /\ pc' = [pc EXCEPT ![t] = "walk"]
      /\ UNCHANGED <<known, failedValid, failedChild>>
  BY DEF InvalidateBlock, Goto, index
<1>2. (\A u \in Threads : pc[u] \in {"idle", "activate"}) /\ pc \in [Threads -> Places]
  BY <1>1, NoOwner DEF SafeInv, TypeOK, Places
<1>3. pc'[t] = "walk" /\ \A u \in Threads : pc'[u] \notin {"find", "disconnect"}
  BY <1>1, <1>2
<1>4. Blamed'
  BY <1>1, Zenon DEF ChoiceInv, Blamed, Failed
<1> QED BY <1>3, <1>4, Zenon DEF ChoiceInv, CandidatesAll, BackInv, BestInv, Coming

LEMMA InvalidateTipChoice ==
  ASSUME SafeInv, ChoiceInv, NEW t \in Threads, InvalidateTip(t) PROVE ChoiceInv'
<1>1. /\ pc[t] = "walk" /\ failedValid' = failedValid \cup {tip}
      /\ UNCHANGED <<known, failedChild, pc>>
  BY InvalidateTipIs, Zenon
<1>2. /\ Alone(t) /\ known \subseteq Blocks /\ failedValid \subseteq known
      /\ failedChild \subseteq known
  BY <1>1, Owner, Types DEF Owning, SafeInv
<1>3. Blamed'
  <2>1. \A x \in known' : Failed(x)' =>
          \E a \in Line[x] : a \in failedValid' \/ (a \in known /\ Failed(a))
    BY <1>1, <1>2, LineIs, Zenon DEF Failed
  <2> QED BY <1>1, <1>2, <2>1, BlamedKept, Zenon DEF ChoiceInv
<1>4. \A u \in Threads : pc'[u] \notin {"find", "disconnect"}
  BY <1>1, <1>2 DEF Alone
<1> QED BY <1>1, <1>3, <1>4, Zenon DEF ChoiceInv, CandidatesAll, BackInv, BestInv, Coming

LEMMA MarkFailedChoice ==
  ASSUME SafeInv, ChoiceInv, NEW t \in Threads, MarkFailed(t) PROVE ChoiceInv'
<1>1. /\ pc[t] = "walk" /\ csMain = NoThread
      /\ failedValid' = failedValid \cup {local.mark}
      /\ candidates' = (candidates \cup {c \in known : Usable(c) /\ ~Worse(c, tip)}) \ {local.mark}
      /\ pc' = [pc EXCEPT ![t] = "activate"]
      /\ UNCHANGED <<known, data, failedChild, sequence, tip, csMain>>
  BY DEF MarkFailed, Goto
<1>2. /\ Alone(t) /\ known \subseteq Blocks /\ data \subseteq known
      /\ failedValid \subseteq known /\ failedChild \subseteq known /\ pc \in [Threads -> Places]
  BY <1>1, Owner, Types, Zenon DEF Owning, SafeInv, TypeOK, Places
<1>3. Blamed'
  <2>1. \A x \in known' : Failed(x)' =>
          \E a \in Line[x] : a \in failedValid' \/ (a \in known /\ Failed(a))
    BY <1>1, <1>2, LineIs, Zenon DEF Failed
  <2> QED BY <1>1, <1>2, <2>1, BlamedKept, Zenon DEF ChoiceInv
<1>4. CandidatesAll'
  BY <1>1, <1>2 DEF CandidatesAll, Above, Worse, Failed, Usable
<1>5. pc'[t] = "activate" /\ \A u \in Threads : pc'[u] \notin {"find", "disconnect"}
  BY <1>1, <1>2 DEF Alone
<1> QED BY <1>3, <1>4, <1>5 DEF ChoiceInv, BackInv, BestInv, Coming

LEMMA InitChoice ==
  ASSUME Init PROVE ChoiceInv
<1> USE DEF Init
<1>1. SafeInv
  BY InitSafe
<1>2. Genesis \in Blocks /\ sequence \in [Blocks -> Int] /\ ~Worse(Genesis, Genesis)
  BY <1>1, ParentIs, Types, BeforeOrder DEF SafeInv, Worse
<1>3. CandidatesAll /\ Blamed /\ BackInv
  BY DEF CandidatesAll, Blamed, BackInv, Failed
<1>4. BestInv
  BY <1>2 DEF BestInv, NoLocal
<1> QED BY <1>3, <1>4 DEF ChoiceInv

LEMMA NextChoice ==
  ASSUME ~AnyFailed, ~AnyPrecious, SafeInv, ChoiceInv, [Next]_vars PROVE ChoiceInv'
<1>1. CASE UNCHANGED vars
  BY <1>1, Zenon DEF vars, index, order, locks, ChoiceInv, CandidatesAll, Blamed, BackInv, BestInv,
       Coming, Above, Worse, Sound, Failed
<1>2. CASE Next
  <2>1. CASE \E b \in Blocks : ProcessHeader(b)
    BY <2>1, HeaderChoice
  <2>2. ASSUME NEW t \in Threads, Proceed(t) PROVE ChoiceInv'
    BY <2>2, LockChainstateChoice, LockMainChoice, DropChoice, BeginStepChoice, NothingChoice,
       DisconnectChoice, ConnectChoice, InvalidFoundChoice, AgainChoice, InvalidateTipChoice,
       MarkFailedChoice DEF Proceed
  <2>3. ASSUME NEW t \in Threads, Restart(t) PROVE ChoiceInv'
    BY <2>3, RestartChoice
  <2>4. ASSUME NEW t \in Threads, NEW b \in Blocks,
               \/ StoreBlock(t, b) \/ IgnoreBlock(t, b) \/ RefuseBlock(t, b)
               \/ InvalidateBlock(t, b) \/ ReconsiderBlock(t, b) \/ PreciousBlock(t, b)
        PROVE  ChoiceInv'
    BY <2>4, StoreChoice, IgnoreChoice, RefuseChoice, InvalidateBlockChoice, ReconsiderChoice,
       PreciousChoice
  <2> QED BY <1>2, <2>1, <2>2, <2>3, <2>4 DEF Next
<1> QED BY <1>1, <1>2

\* With no call under way the tip is the best of the chains that have no flag:
\* a thread that makes a block eligible is on its way to ActivateBestChain, and
\* ActivateBestChain returns with the best of the candidates, which lack none.
THEOREM ActiveChainIsBest ==
  ASSUME ~AnyFailed, ~AnyPrecious PROVE Spec => []TipIsBest
<1>1. Init => SafeInv /\ ChoiceInv
  BY InitSafe, InitChoice
<1>2. SafeInv /\ ChoiceInv /\ [Next]_vars => (SafeInv /\ ChoiceInv)'
  BY NextSafe, NextChoice
<1>3. SafeInv /\ ChoiceInv => TipIsBest
  <2> SUFFICES ASSUME SafeInv, ChoiceInv, \A t \in Threads : pc[t] = "idle",
                      NEW b \in known, Eligible(b)
               PROVE  ~Worse(tip, b)
    BY DEF TipIsBest
  <2>1. csChainstate = NoThread /\ ~Coming
    BY DEF SafeInv, LocksInv, TypeOK, Owning, Coming
  <2>2. b \in data /\ Sound(b)
    BY Types, LineIs, Zenon DEF SafeInv, Eligible, Usable, Sound
  <2> QED BY <2>1, <2>2 DEF ChoiceInv, BestInv
<1> QED BY <1>1, <1>2, <1>3, PTL DEF Spec

\* What CheckBlockIndex asserts of the candidates and of the failure flags holds
\* whenever another thread can look, but in the middle of InvalidateBlock.
THEOREM IndexConsistent ==
  ASSUME ~AnyFailed, ~AnyPrecious PROVE Spec => []BlockIndexConsistent
<1>1. Init => SafeInv /\ ChoiceInv
  BY InitSafe, InitChoice
<1>2. SafeInv /\ ChoiceInv /\ [Next]_vars => (SafeInv /\ ChoiceInv)'
  BY NextSafe, NextChoice
<1>3. SafeInv /\ ChoiceInv => BlockIndexConsistent
  <2> SUFFICES ASSUME SafeInv, ChoiceInv, csMain = NoThread, \A t \in Threads : pc[t] # "walk",
                      NEW b \in known
               PROVE  /\ Line[b] \cap failedValid = {} => ~Failed(b)
                      /\ b \in data /\ ~Worse(b, tip) /\ Line[b] \cap failedValid = {}
                           => b \in candidates
                      /\ b \in candidates => b \in data /\ ~Worse(b, tip)
    BY Zenon DEF BlockIndexConsistent, SafeInv, IndexInv
  <2>1. Line[b] \cap failedValid = {} => ~Failed(b)
    BY Zenon DEF ChoiceInv, Blamed
  <2>2. b \in data /\ ~Worse(b, tip) /\ Line[b] \cap failedValid = {} => b \in candidates
    BY <2>1 DEF ChoiceInv, CandidatesAll, Above
  <2>3. b \in candidates => b \in data /\ ~Worse(b, tip)
    BY DEF SafeInv, CandidatesAbove, Above
  <2> QED BY <2>1, <2>2, <2>3, Zenon
<1> QED BY <1>1, <1>2, <1>3, PTL DEF Spec

\* ActivateBestChain never gives up cs_main with a tip worse than the one it had
\* when it took the lock, also after blocks that ConnectBlock refuses.
THEOREM ForwardProgress ==
  ASSUME ~AnyFailed, ~AnyPrecious PROVE Spec => UnlockedWithProgress
<1> DEFINE Step == csMain # NoThread /\ csMain' = NoThread => ~Before(sequence, tip', local.start)
<1>1. Init => SafeInv /\ ChoiceInv
  BY InitSafe, InitChoice
<1>2. SafeInv /\ ChoiceInv /\ [Next]_vars => (SafeInv /\ ChoiceInv)'
  BY NextSafe, NextChoice
<1>3. SafeInv /\ ChoiceInv /\ [Next]_vars => [Step]_vars
  <2> SUFFICES ASSUME SafeInv, ChoiceInv, Next, csMain # NoThread, csMain' = NoThread
               PROVE  ~Before(sequence, tip', local.start)
    OBVIOUS
  <2>1. PICK t \in Threads : NothingToDo(t) \/ Again(t)
    <3>1. \A b \in Blocks : ~ProcessHeader(b)
      BY DEF ProcessHeader
    <3>2. \A t \in Threads : ~Restart(t)
      BY Zenon DEF Restart, Call
    <3>3. \A t \in Threads, b \in Blocks : ~StoreBlock(t, b) /\ ~IgnoreBlock(t, b) /\ ~RefuseBlock(t, b)
      BY DEF StoreBlock, IgnoreBlock, RefuseBlock, NewBlock
    <3>4. \A t \in Threads, b \in Blocks :
            ~InvalidateBlock(t, b) /\ ~ReconsiderBlock(t, b) /\ ~PreciousBlock(t, b)
      BY DEF InvalidateBlock, ReconsiderBlock, PreciousBlock, Call
    <3>5. \A t \in Threads : ~LockChainstate(t) /\ ~LockMain(t) /\ ~InvalidateTip(t) /\ ~MarkFailed(t)
      BY DEF LockChainstate, LockMain, InvalidateTip, MarkFailed
    <3>6. \A t \in Threads : ~DropCandidate(t) /\ ~BeginStep(t) /\ ~DisconnectTip(t)
      BY DEF DropCandidate, BeginStep, DisconnectTip, locks
    <3>7. \A t \in Threads : ~ConnectTip(t) /\ ~InvalidBlockFound(t)
      BY DEF ConnectTip, InvalidBlockFound, locks
    <3> QED BY <3>1, <3>2, <3>3, <3>4, <3>5, <3>6, <3>7 DEF Next, Proceed
  <2>2. ~Worse(tip, local.start)
    BY <2>1, Progress
  <2>3. tip' = tip
    BY <2>1, Zenon DEF NothingToDo, Again
  <2> QED BY <2>2, <2>3 DEF Worse
<1> QED BY <1>1, <1>2, <1>3, PTL DEF Spec, UnlockedWithProgress
=============================================================================
