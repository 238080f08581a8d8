--------------------------- MODULE CoinsFlushProof ---------------------------
(***************************************************************************)
(* For every tree of valid blocks, every file size and any number of       *)
(* stops: FlushStateToDisk writes in the right order, ReplayBlocks repairs *)
(* every write that was cut off, and only undo data that a power failure   *)
(* took can keep the node from starting.                                   *)
(*                                                                         *)
(* A database whose write was cut off has, outpoint by outpoint, what the  *)
(* old tip's chain gives or what the new one's does (Mixed).  Undoing or   *)
(* applying a block moves one end of that along the tree, so that rolling  *)
(* back and forward ends with the coins of one block.                      *)
(***************************************************************************)
EXTENDS CoinsFlush, WellFoundedInduction, TLAPS

\* The files and the block index.  A block that is not in the current file is
\* synced, which is why syncing the current file is enough.
FilesInv ==
  /\ mem \in IndexType /\ index \in IndexType /\ blk \in FilesType
  /\ blk.synced \subseteq blk.written
  /\ mem.data \subseteq blk.written
  /\ index.data \subseteq mem.data
  /\ IndexedBlocksOnDisk
  /\ \A b \in mem.data : mem.file[b] # mem.last => b \in blk.synced
  /\ Genesis \notin index.data => index.file[Genesis] = index.last
  /\ phase = "index" => mem.data \subseteq blk.synced
  /\ phase # "down" => Genesis \in mem.data

\* Every block of the index has its parent there.
Rooted(data) == \A b \in data : Parent[b] \in data \cup {NoBlock}

NamesIndexed(d) ==
  /\ d.best \in index.data \cup {NoBlock}
  /\ d.heads = <<>> \/ d.heads \in index.data \X (index.data \cup {NoBlock})

\* The coins database.  Its mark stands only while it is being written and
\* while the node is down.
CoinsInv ==
  /\ Rooted(mem.data) /\ Rooted(index.data)
  /\ NamesIndexed(db) /\ NamesIndexed(durable)
  /\ phase \in {"run", "index"} => db.heads = <<>>
  /\ phase \in {"run", "index"} => tip \in mem.data \cup {NoBlock}
  /\ phase = "coins" => tip \in index.data
  /\ ReplayKeepsTarget

FlushInv == FilesInv /\ CoinsInv

-----------------------------------------------------------------------------

\* Writing a block takes it from the synced ones; syncing only adds to them.
LEMMA WriteSync ==
  ASSUME NEW f \in FilesType, NEW b \in Blocks, NEW set \in SUBSET Blocks
  PROVE  /\ Write(f, b) \in FilesType
         /\ Write(f, b).written = f.written \cup {b}
         /\ Write(f, b).synced = f.synced \ {b}
         /\ Sync(f, set) \in FilesType
         /\ Sync(f, set).written = f.written
         /\ Sync(f, set).synced = f.synced \cup (set \cap f.written)
BY DEF FilesType, Write, Sync

\* Genesis is written to the block file, not yet to the index.
LEMMA Initially == Init => FlushInv
<1> SUFFICES ASSUME Init PROVE FlushInv
  OBVIOUS
<1> USE FlushAssumption DEF Init
<1>1. FilesInv
  BY DEF FilesInv, IndexType, FilesType, IndexedBlocksOnDisk
<1>2. CoinsInv
  BY DEF CoinsInv, Rooted, NamesIndexed, ReplayKeepsTarget
<1> QED
  BY <1>1, <1>2 DEF FlushInv

\* A new block goes to the current file, or to the next one after the current
\* one was synced.
LEMMA AcceptStep ==
  ASSUME FlushInv, NEW b \in Blocks, AcceptBlock(b) PROVE FlushInv'
<1> DEFINE n == mem.last
           leave == Cardinality(InFile(mem, n)) >= BlocksPerFile
           nFile == IF leave THEN n + 1 ELSE n
           kept == IF leave THEN Sync(blk, InFile(mem, n)) ELSE blk
<1>1. /\ phase = "run" /\ b \notin mem.data /\ Parent[b] \in mem.data
      /\ mem' = [mem EXCEPT !.data = @ \cup {b}, !.file[b] = nFile, !.last = nFile]
      /\ blk' = Write(kept, b)
      /\ UNCHANGED <<phase, tip, index, db, durable>>
  BY DEF AcceptBlock
<1>2. /\ mem \in IndexType /\ index \in IndexType /\ blk \in FilesType
      /\ n \in Nat /\ nFile \in Nat /\ mem.data \subseteq Blocks
      /\ InFile(mem, n) = {c \in mem.data : mem.file[c] = n}
      /\ InFile(mem, n) \in SUBSET Blocks
  BY DEF FlushInv, FilesInv, IndexType, InFile
<1>3. /\ kept \in FilesType /\ kept.written = blk.written
      /\ blk.synced \subseteq kept.synced
      /\ kept.synced \subseteq blk.synced \cup blk.written
      /\ leave => InFile(mem, n) \cap blk.written \subseteq kept.synced
  <2>1. /\ Sync(blk, InFile(mem, n)) \in FilesType
        /\ Sync(blk, InFile(mem, n)).written = blk.written
        /\ Sync(blk, InFile(mem, n)).synced = blk.synced \cup (InFile(mem, n) \cap blk.written)
    BY <1>2, WriteSync
  <2>2. CASE leave
    BY <2>1, <2>2
  <2>3. CASE ~leave
    BY <1>2, <2>3
  <2> QED
    BY <2>2, <2>3
<1> HIDE DEF leave, kept
<1>4. /\ blk' \in FilesType /\ blk'.written = blk.written \cup {b}
      /\ blk'.synced = kept.synced \ {b}
  BY <1>1, <1>2, <1>3, WriteSync
<1>5. /\ mem' \in IndexType /\ mem'.data = mem.data \cup {b}
      /\ mem'.last = nFile /\ mem'.file[b] = nFile
      /\ \A c \in mem.data : mem'.file[c] = mem.file[c]
  BY <1>1, <1>2 DEF IndexType
<1>6. \A c \in mem'.data : mem'.file[c] # mem'.last => c \in blk'.synced
  <2> SUFFICES ASSUME NEW c \in mem'.data, mem'.file[c] # mem'.last
               PROVE  c \in blk'.synced
    OBVIOUS
  <2>1. c \in mem.data /\ c # b /\ c \in blk.written
    BY <1>1, <1>5 DEF FlushInv, FilesInv
  <2>2. CASE mem.file[c] # n
    BY <2>1, <2>2, <1>3, <1>4 DEF FlushInv, FilesInv
  <2>3. CASE mem.file[c] = n
    <3>1. leave
      BY <2>1, <2>3, <1>5
    <3> QED
      BY <3>1, <2>1, <2>3, <1>2, <1>3, <1>4
  <2> QED
    BY <2>2, <2>3
<1>7. FilesInv'
  BY <1>1, <1>3, <1>4, <1>5, <1>6, <1>2 DEF FlushInv, FilesInv, IndexedBlocksOnDisk
<1>8. CoinsInv'
  BY <1>1, <1>5 DEF FlushInv, CoinsInv, Rooted, NamesIndexed, ReplayKeepsTarget
<1> QED
  BY <1>7, <1>8 DEF FlushInv

\* Connecting sets a flag of the index in memory and writes undo data.
LEMMA ConnectStep ==
  ASSUME FlushInv, NEW b \in Blocks, ConnectTip(b) PROVE FlushInv'
<1>1. /\ phase = "run" /\ b \in mem.data /\ tip' = b
      /\ mem' = mem \/ mem' = [mem EXCEPT !.undo = @ \cup {b}]
      /\ UNCHANGED <<phase, index, blk, db, durable>>
  BY DEF ConnectTip, Readable
<1>2. /\ mem' \in IndexType /\ mem'.data = mem.data
      /\ mem'.file = mem.file /\ mem'.last = mem.last
  BY <1>1 DEF FlushInv, FilesInv, IndexType
<1>3. FilesInv'
  BY <1>1, <1>2 DEF FlushInv, FilesInv, IndexedBlocksOnDisk
<1>4. CoinsInv'
  BY <1>1, <1>2 DEF FlushInv, CoinsInv, Rooted, NamesIndexed, ReplayKeepsTarget
<1> QED
  BY <1>3, <1>4 DEF FlushInv

\* Disconnecting goes to the parent, or ends the node.
LEMMA DisconnectStep ==
  ASSUME FlushInv, DisconnectTip PROVE FlushInv'
<1>1. /\ phase = "run" /\ phase' \in {"run", "failed"} /\ tip # NoBlock
      /\ tip' \in {tip, Parent[tip]}
      /\ UNCHANGED <<mem, index, blk, db, durable>>
  BY DEF DisconnectTip
<1>2. FilesInv'
  BY <1>1 DEF FlushInv, FilesInv, IndexedBlocksOnDisk
<1>3. CoinsInv'
  BY <1>1 DEF FlushInv, CoinsInv, Rooted, NamesIndexed, ReplayKeepsTarget
<1> QED
  BY <1>2, <1>3 DEF FlushInv

\* After FlushBlockFile every block of the index in memory is synced ...
LEMMA FlushFileStep ==
  ASSUME FlushInv, FlushBlockFile PROVE FlushInv'
<1>1. /\ phase = "run" /\ phase' = "index"
      /\ blk' = Sync(blk, InFile(mem, mem.last))
      /\ UNCHANGED <<tip, mem, index, db, durable>>
  BY DEF FlushBlockFile
<1>2. /\ blk \in FilesType
      /\ InFile(mem, mem.last) = {c \in mem.data : mem.file[c] = mem.last}
      /\ InFile(mem, mem.last) \in SUBSET Blocks
  BY DEF FlushInv, FilesInv, IndexType, InFile
<1>3. /\ blk' \in FilesType /\ blk'.written = blk.written
      /\ blk'.synced = blk.synced \cup (InFile(mem, mem.last) \cap blk.written)
  BY <1>1, <1>2, FlushAssumption, WriteSync
<1>4. mem.data \subseteq blk'.synced
  BY <1>2, <1>3 DEF FlushInv, FilesInv
<1>5. FilesInv'
  BY <1>1, <1>2, <1>3, <1>4 DEF FlushInv, FilesInv, IndexedBlocksOnDisk
<1>6. CoinsInv'
  BY <1>1 DEF FlushInv, CoinsInv, Rooted, NamesIndexed, ReplayKeepsTarget
<1> QED
  BY <1>5, <1>6 DEF FlushInv

\* ... so that the index may be written, which then has the tip.
LEMMA WriteIndexStep ==
  ASSUME FlushInv, WriteBlockIndex PROVE FlushInv'
<1>1. /\ phase = "index" /\ phase' \in {"coins", "run"}
      /\ phase' = "coins" => tip # NoBlock
      /\ index' = mem
      /\ UNCHANGED <<tip, mem, blk, db, durable>>
  BY DEF WriteBlockIndex
<1>2. FilesInv'
  BY <1>1 DEF FlushInv, FilesInv, IndexedBlocksOnDisk
<1>3. NamesIndexed(db)' /\ NamesIndexed(durable)'
  BY <1>1 DEF FlushInv, FilesInv, CoinsInv, NamesIndexed
<1>4. CoinsInv'
  BY <1>1, <1>3 DEF FlushInv, CoinsInv, Rooted, ReplayKeepsTarget
<1> QED
  BY <1>2, <1>4 DEF FlushInv

\* A batch with the mark names the tip and the tip of the last full write.
LEMMA PartialStep ==
  ASSUME FlushInv, WritePartialBatch PROVE FlushInv'
<1>1. /\ phase = "coins" /\ UNCHANGED <<phase, tip, mem, index, blk, durable>>
      /\ db'.best = NoBlock /\ db'.heads = <<tip, OldTip>>
  BY DEF WritePartialBatch
<1>2. tip \in index.data /\ OldTip \in index.data \cup {NoBlock}
  BY <1>1 DEF FlushInv, CoinsInv, NamesIndexed, OldTip
<1>3. FilesInv'
  BY <1>1 DEF FlushInv, FilesInv, IndexedBlocksOnDisk
<1>4. NamesIndexed(db)' /\ ReplayKeepsTarget'
  BY <1>1, <1>2 DEF NamesIndexed, ReplayKeepsTarget
<1>5. CoinsInv'
  BY <1>1, <1>4 DEF FlushInv, CoinsInv, Rooted, NamesIndexed
<1> QED
  BY <1>3, <1>5 DEF FlushInv

\* The last batch takes the mark away.
LEMMA FinalStep ==
  ASSUME FlushInv, WriteFinalBatch PROVE FlushInv'
<1>1. /\ phase = "coins" /\ phase' = "run"
      /\ db'.best = tip /\ db'.heads = <<>>
      /\ UNCHANGED <<tip, mem, index, blk, durable>>
  BY DEF WriteFinalBatch
<1>2. FilesInv'
  BY <1>1 DEF FlushInv, FilesInv, IndexedBlocksOnDisk
<1>3. tip \in mem.data
  BY <1>1 DEF FlushInv, FilesInv, CoinsInv
<1>4. CoinsInv'
  BY <1>1, <1>3 DEF FlushInv, CoinsInv, Rooted, NamesIndexed, ReplayKeepsTarget
<1> QED
  BY <1>2, <1>4 DEF FlushInv

\* A stop leaves what is synced, and any part of what is not.
LEMMA StopStep ==
  ASSUME FlushInv, Crash \/ PowerFailure PROVE FlushInv'
<1>1. /\ phase' = "down" /\ mem' = index
      /\ UNCHANGED <<index, durable>>
      /\ db' \in {db, durable}
  BY DEF Crash, PowerFailure, Stop
<1>2. /\ blk' \in FilesType
      /\ blk.synced \subseteq blk'.synced /\ blk'.synced \subseteq blk'.written
  <2>1. CASE Crash
    BY <2>1 DEF Crash, FlushInv, FilesInv
  <2>2. CASE PowerFailure
    <3>1. PICK kept \in SUBSET (blk.written \ blk.synced) :
            blk' = [written |-> blk.synced \cup kept, synced |-> blk.synced \cup kept]
      BY <2>2 DEF PowerFailure
    <3> QED
      BY <3>1 DEF FlushInv, FilesInv, FilesType
  <2> QED
    BY <2>1, <2>2
<1>3. FilesInv'
  BY <1>1, <1>2 DEF FlushInv, FilesInv, IndexedBlocksOnDisk
<1>4. NamesIndexed(db)' /\ NamesIndexed(durable)'
  BY <1>1 DEF FlushInv, CoinsInv, NamesIndexed
<1>5. CoinsInv'
  BY <1>1, <1>4 DEF FlushInv, CoinsInv, Rooted, ReplayKeepsTarget
<1> QED
  BY <1>3, <1>5 DEF FlushInv

\* A start reads the index back, writes genesis if it is not there, and goes
\* on to the tip that the coins database or its mark names.
LEMMA StartStep ==
  ASSUME FlushInv, Start PROVE FlushInv'
<1>1. /\ phase = "down" /\ phase' \in {"coins", "run", "failed"}
      /\ mem' = [index EXCEPT !.data = @ \cup {Genesis}]
      /\ blk' = IF Genesis \in index.data THEN blk ELSE Write(blk, Genesis)
      /\ phase' = "coins" => db.heads # <<>> /\ tip' = db.heads[1]
      /\ phase' = "run" => db.heads = <<>> /\ tip' = db.best
      /\ UNCHANGED <<index, db, durable>>
  BY DEF Start, LoadBlockIndex
<1>2. /\ mem' \in IndexType /\ mem'.data = index.data \cup {Genesis}
      /\ mem'.file = index.file /\ mem'.last = index.last
  <2>1. index \in IndexType /\ Genesis \in Blocks
    BY FlushAssumption DEF FlushInv, FilesInv
  <2> QED BY <1>1, <2>1 DEF IndexType
<1>3. /\ blk' \in FilesType /\ blk'.synced \subseteq blk'.written
      /\ index.data \subseteq blk'.synced /\ Genesis \in blk'.written
  BY <1>1, FlushAssumption DEF FlushInv, FilesInv, IndexedBlocksOnDisk, FilesType, Write
<1>4. FilesInv'
  BY <1>1, <1>2, <1>3 DEF FlushInv, FilesInv, IndexedBlocksOnDisk
<1>5. Rooted(mem.data)' /\ Rooted(index.data)'
  BY <1>1, <1>2, FlushAssumption DEF FlushInv, CoinsInv, Rooted
<1>6. NamesIndexed(db)' /\ NamesIndexed(durable)'
  BY <1>1 DEF FlushInv, CoinsInv, NamesIndexed
<1>7. CoinsInv'
  BY <1>1, <1>2, <1>5, <1>6 DEF CoinsInv, NamesIndexed, ReplayKeepsTarget
<1> QED
  BY <1>4, <1>7 DEF FlushInv

\* The system writing back a database, and a step that changes nothing.
LEMMA WritebackStep ==
  ASSUME FlushInv, Writeback \/ UNCHANGED vars PROVE FlushInv'
<1>1. /\ durable' \in {db, durable}
      /\ UNCHANGED <<phase, tip, mem, index, blk, db>>
  BY DEF Writeback, vars
<1>2. FilesInv'
  BY <1>1 DEF FlushInv, FilesInv, IndexedBlocksOnDisk
<1>3. CoinsInv'
  BY <1>1 DEF FlushInv, CoinsInv, Rooted, NamesIndexed, ReplayKeepsTarget
<1> QED
  BY <1>2, <1>3 DEF FlushInv

LEMMA Step == FlushInv /\ [Next]_vars => FlushInv'
BY AcceptStep, ConnectStep, DisconnectStep, FlushFileStep, WriteIndexStep,
   PartialStep, FinalStep, StopStep, StartStep, WritebackStep
   DEF Next

\* Whenever the node is stopped, and however often, the block index database
\* has data only for blocks in the synced part of a block file, and the coins
\* database, and what a power failure would leave of it, names only blocks that
\* the block index database has.
THEOREM FlushOrdered == Spec => []WrittenInOrder
<1>1. FlushInv => IndexedBlocksOnDisk
  BY DEF FlushInv, FilesInv
<1>2. FlushInv => CoinsReferToIndex
  BY DEF FlushInv, CoinsInv, NamesIndexed, CoinsReferToIndex, Range
<1>3. FlushInv => WrittenInOrder
  BY <1>1, <1>2 DEF WrittenInOrder
<1> QED
  BY <1>3, Initially, Step, PTL DEF Spec

\* A replay that is cut off any number of times keeps its target.
THEOREM ReplayTarget == Spec => []ReplayKeepsTarget
<1>1. FlushInv => ReplayKeepsTarget
  BY DEF FlushInv, CoinsInv
<1> QED
  BY <1>1, Initially, Step, PTL DEF Spec

-----------------------------------------------------------------------------
(* Recursion along a function without infinite descent: the parents of     *)
(* blocks, and the counters of loops.                                      *)

Descends(X, end, p) ==
  /\ end \notin X
  /\ \A x \in X : p[x] \in X \cup {end}
  /\ \A S \in SUBSET X : S # {} => \E x \in S : p[x] \notin S

Steps(X, V, G) == \A v \in V, x \in X : G[v, x] \in V

Solves(f, X, end, p, v0, G) == f[end] = v0 /\ \A x \in X : f[x] = G[f[p[x]], x]

Inherited(S, X, p) == \A x \in X : p[x] \in S => x \in S

\* What holds at the end, and of x if it holds of p[x], holds everywhere.
LEMMA Induction ==
  ASSUME NEW X, NEW end, NEW p, Descends(X, end, p),
         NEW S, end \in S, Inherited(S, X, p)
  PROVE  X \cup {end} \subseteq S
<1> SUFFICES ASSUME X \ S # {} PROVE FALSE
  OBVIOUS
<1>1. PICK x \in X \ S : p[x] \notin X \ S
  BY DEF Descends
<1> QED BY <1>1 DEF Descends, Inherited

\* A function defined by its value at the end and by a step exists.
LEMMA Recursion ==
  ASSUME NEW X, NEW end, NEW p, Descends(X, end, p),
         NEW V, NEW v0 \in V, NEW G, Steps(X, V, G)
  PROVE  \E f \in [X \cup {end} -> V] : Solves(f, X, end, p, v0, G)
<1> DEFINE D == X \cup {end}
           Closed(C) == /\ <<end, v0>> \in C
                        /\ \A x \in X, v \in V : <<p[x], v>> \in C => <<x, G[v, x]>> \in C
           R == {q \in D \X V : \A C \in SUBSET (D \X V) : Closed(C) => q \in C}
           One == {y \in D : \E v \in V : <<y, v>> \in R /\ \A w \in V : <<y, w>> \in R => w = v}
           f == [y \in D |-> CHOOSE v \in V : <<y, v>> \in R]
<1>0. /\ end \notin X /\ \A x \in X : p[x] \in D
      /\ \A v \in V, x \in X : G[v, x] \in V
  BY DEF Descends, Steps
<1>1. R \subseteq D \X V
  OBVIOUS
<1>2. <<end, v0>> \in R
  OBVIOUS
<1>3. ASSUME NEW x \in X, NEW v \in V, <<p[x], v>> \in R PROVE <<x, G[v, x]>> \in R
  <2>1. <<x, G[v, x]>> \in D \X V
    BY <1>0
  <2>2. ASSUME NEW C \in SUBSET (D \X V), Closed(C) PROVE <<x, G[v, x]>> \in C
    <3>1. <<p[x], v>> \in C
      BY <1>3, <2>2
    <3> QED BY <3>1, <2>2
  <2> QED BY <2>1, <2>2
<1>4. ASSUME NEW q \in R, Closed(R \ {q}) PROVE FALSE
  <2>1. R \ {q} \in SUBSET (D \X V)
    BY <1>1
  <2> QED BY <1>4, <2>1
<1> HIDE DEF R
<1>5. end \in One
  <2>1. ASSUME NEW w \in V, <<end, w>> \in R, w # v0 PROVE FALSE
    <3>1. Closed(R \ {<<end, w>>})
      BY <1>0, <1>2, <1>3, <2>1
    <3> QED BY <1>4, <2>1, <3>1
  <2> QED BY <1>2, <2>1
<1>6. ASSUME NEW x \in X, p[x] \in One PROVE x \in One
  <2>1. PICK v \in V : <<p[x], v>> \in R /\ \A w \in V : <<p[x], w>> \in R => w = v
    BY <1>6
  <2>2. <<x, G[v, x]>> \in R /\ G[v, x] \in V
    BY <1>0, <1>3, <2>1
  <2>3. ASSUME NEW w \in V, <<x, w>> \in R, w # G[v, x] PROVE FALSE
    <3>1. ASSUME NEW y \in X, NEW u \in V, <<p[y], u>> \in R \ {<<x, w>>}
          PROVE  <<y, G[u, y]>> \in R \ {<<x, w>>}
      BY <1>3, <2>1, <2>3, <3>1
    <3>2. <<end, v0>> \in R \ {<<x, w>>}
      BY <1>0, <1>2
    <3>3. Closed(R \ {<<x, w>>})
      BY <3>1, <3>2
    <3> QED BY <1>4, <2>3, <3>3
  <2> QED BY <2>2, <2>3
<1>7. D \subseteq One
  <2> HIDE DEF One
  <2>1. Inherited(One, X, p)
    BY <1>6 DEF Inherited
  <2> QED BY <1>5, <2>1, Induction
<1>8. \A y \in D : f[y] \in V /\ <<y, f[y]>> \in R /\ \A w \in V : <<y, w>> \in R => w = f[y]
  BY <1>7
<1>9. f \in [D -> V]
  BY <1>8
<1>10. f[end] = v0
  BY <1>2, <1>8
<1>11. ASSUME NEW x \in X PROVE f[x] = G[f[p[x]], x]
  <2> HIDE DEF f
  <2>1. f[p[x]] \in V /\ <<p[x], f[p[x]]>> \in R
    BY <1>0, <1>8
  <2>2. <<x, G[f[p[x]], x]>> \in R /\ G[f[p[x]], x] \in V
    BY <1>0, <1>3, <2>1
  <2> QED BY <1>8, <2>2
<1> HIDE DEF f
<1>12. Solves(f, X, end, p, v0, G)
  BY <1>10, <1>11 DEF Solves
<1> QED BY <1>9, <1>12

\* Every set of numbers that is not empty has a least one.
LEMMA LeastNumber ==
  ASSUME NEW T, T \subseteq Nat, T # {}
  PROVE  \E m \in T : \A k \in T : m <= k
<1>1. PICK m \in T : \A k \in T : ~(<<k, m>> \in OpToRel(<, Nat))
  BY NatLessThanWellFounded, WFMin
<1>2. ASSUME NEW k \in T PROVE m <= k
  <2>1. k \in Nat /\ m \in Nat
    OBVIOUS
  <2>2. ~(k < m)
    BY <1>1, <2>1 DEF OpToRel
  <2> QED BY <2>1, <2>2
<1> QED BY <1>2

\* The loops over the transactions of a block, upwards and downwards.
LEMMA LoopsDescend ==
  ASSUME NEW N \in Nat
  PROVE  /\ Descends(1 .. N, 0, [n \in 1 .. N |-> n - 1])
         /\ Descends(0 .. N - 1, N, [n \in 0 .. N - 1 |-> n + 1])
<1>1. ASSUME NEW S \in SUBSET (1 .. N), S # {} PROVE \E n \in S : n - 1 \notin S
  <2>1. S \subseteq Nat
    OBVIOUS
  <2>2. PICK m \in S : \A k \in S : m <= k
    BY <1>1, <2>1, LeastNumber
  <2> QED BY <2>1, <2>2
<1>2. ASSUME NEW S \in SUBSET (0 .. N - 1), S # {} PROVE \E n \in S : n + 1 \notin S
  <2> DEFINE T == {N - n : n \in S}
  <2>1. T \subseteq Nat /\ T # {}
    BY <1>2
  <2>2. PICK m \in T : \A k \in T : m <= k
    <3> HIDE DEF T
    <3> QED BY <2>1, LeastNumber
  <2>3. PICK n \in S : m = N - n
    BY <2>2
  <2>4. ASSUME n + 1 \in S PROVE FALSE
    <3>1. N - (n + 1) \in T
      BY <2>4
    <3>2. m <= N - (n + 1)
      BY <2>2, <3>1
    <3> QED BY <2>3, <3>2
  <2> QED BY <2>4
<1>3. Descends(1 .. N, 0, [n \in 1 .. N |-> n - 1])
  <2> DEFINE p == [n \in 1 .. N |-> n - 1]
  <2>1. \A S \in SUBSET (1 .. N) : S # {} => \E n \in S : p[n] \notin S
    BY <1>1
  <2>2. 0 \notin 1 .. N /\ \A n \in 1 .. N : p[n] \in (1 .. N) \cup {0}
    OBVIOUS
  <2> HIDE DEF p
  <2>3. Descends(1 .. N, 0, p)
    BY <2>1, <2>2 DEF Descends
  <2> QED BY <2>3 DEF p
<1>4. Descends(0 .. N - 1, N, [n \in 0 .. N - 1 |-> n + 1])
  <2> DEFINE p == [n \in 0 .. N - 1 |-> n + 1]
  <2>1. \A S \in SUBSET (0 .. N - 1) : S # {} => \E n \in S : p[n] \notin S
    BY <1>2
  <2>2. N \notin 0 .. N - 1 /\ \A n \in 0 .. N - 1 : p[n] \in (0 .. N - 1) \cup {N}
    OBVIOUS
  <2> HIDE DEF p
  <2>3. Descends(0 .. N - 1, N, p)
    BY <2>1, <2>2 DEF Descends
  <2> QED BY <2>3 DEF p
<1> QED BY <1>3, <1>4

-----------------------------------------------------------------------------
(* The recursive functions of the model are what they say.                 *)

Coins == SUBSET Outpoints

Nodes == Blocks \cup {NoBlock}

LEMMA TreeDescends == Descends(Blocks, NoBlock, Parent)
BY FlushAssumption DEF Descends

LEMMA LineIs ==
  /\ Line \in [Nodes -> SUBSET Blocks]
  /\ Line[NoBlock] = {}
  /\ \A b \in Blocks : Parent[b] \in Nodes /\ Line[b] = {b} \cup Line[Parent[b]]
<1> DEFINE G == [q \in (SUBSET Blocks) \X Blocks |-> {q[2]} \cup q[1]]
           Def(f) == [b \in Nodes |-> IF b = NoBlock THEN {} ELSE {b} \cup f[Parent[b]]]
           Typed == {b \in Nodes : Line[b] \in SUBSET Blocks}
<1>0. NoBlock \notin Blocks /\ \A b \in Blocks : Parent[b] \in Nodes
  BY FlushAssumption DEF Nodes
<1>1. \A v \in SUBSET Blocks, b \in Blocks : G[v, b] \in SUBSET Blocks /\ G[v, b] = {b} \cup v
  OBVIOUS
<1>2. PICK f \in [Nodes -> SUBSET Blocks] :
        f[NoBlock] = {} /\ \A b \in Blocks : f[b] = G[f[Parent[b]], b]
  <2> HIDE DEF G
  <2>1. Steps(Blocks, SUBSET Blocks, G) /\ {} \in SUBSET Blocks
    BY <1>1 DEF Steps
  <2>2. \E f \in [Blocks \cup {NoBlock} -> SUBSET Blocks] : Solves(f, Blocks, NoBlock, Parent, {}, G)
    BY <2>1, TreeDescends, Recursion
  <2> QED BY <2>2 DEF Nodes, Solves
<1>3. f = Def(f)
  <2>1. ASSUME NEW b \in Blocks PROVE f[b] = {b} \cup f[Parent[b]]
    <3>1. f[Parent[b]] \in SUBSET Blocks
      BY <1>0
    <3> HIDE DEF G
    <3> QED BY <1>1, <1>2, <3>1
  <2> QED BY <1>0, <1>2, <2>1 DEF Nodes
<1>4. Line = Def(Line)
  BY <1>3 DEF Line, Nodes
<1>5. Line[NoBlock] = {} /\ \A b \in Blocks : Line[b] = {b} \cup Line[Parent[b]]
  BY <1>0, <1>4 DEF Nodes
<1>6. NoBlock \in Typed /\ \A b \in Blocks : Parent[b] \in Typed => b \in Typed
  BY <1>5 DEF Nodes
<1>7. Nodes \subseteq Typed
  <2> HIDE DEF Typed
  <2>1. Inherited(Typed, Blocks, Parent)
    BY <1>6 DEF Inherited
  <2> QED BY <1>6, <2>1, TreeDescends, Induction DEF Nodes
<1> QED BY <1>0, <1>4, <1>5, <1>7

\* Transactions are sequences of records of sets of outpoints.
LEMMA TxsIs ==
  ASSUME NEW b \in Blocks
  PROVE  /\ Len(Txs[b]) \in Nat
         /\ \A n \in 1 .. Len(Txs[b]) : Txs[b][n].in \in Coins /\ Txs[b][n].out \in Coins
<1> DEFINE Tx == [in: Coins, out: Coins]
<1>1. Txs[b] \in Seq(Tx)
  BY FlushAssumption DEF Coins
<1>2. Len(Txs[b]) \in Nat /\ \A n \in 1 .. Len(Txs[b]) : Txs[b][n] \in Tx
  <2> HIDE DEF Tx
  <2> QED BY <1>1
<1> QED BY <1>2

LEMMA AppliedIs ==
  ASSUME NEW b \in Blocks, NEW set \in Coins
  PROVE  /\ Applied(set, b) \in [0 .. Len(Txs[b]) -> Coins]
         /\ Applied(set, b)[0] = set
         /\ \A n \in 1 .. Len(Txs[b]) :
              Applied(set, b)[n] = ApplyTx(Applied(set, b)[n - 1], Txs[b][n])
<1> DEFINE N == Len(Txs[b])
           p == [n \in 1 .. N |-> n - 1]
           G == [q \in Coins \X (1 .. N) |-> ApplyTx(q[1], Txs[b][q[2]])]
           Def(f) == [n \in 0 .. N |-> IF n = 0 THEN set ELSE ApplyTx(f[n - 1], Txs[b][n])]
           h == Applied(set, b)
           Typed == {n \in 0 .. N : h[n] \in Coins}
<1>0. N \in Nat /\ \A v \in Coins, n \in 1 .. N : ApplyTx(v, Txs[b][n]) \in Coins
  BY TxsIs DEF ApplyTx, Coins
<1> HIDE DEF N
<1>1. \A v \in Coins, n \in 1 .. N : G[v, n] \in Coins /\ G[v, n] = ApplyTx(v, Txs[b][n])
  BY <1>0
<1>2. /\ Descends(1 .. N, 0, p) /\ (1 .. N) \cup {0} = 0 .. N
      /\ \A n \in 1 .. N : p[n] = n - 1
  <2>1. Descends(1 .. N, 0, p)
    BY <1>0, LoopsDescend
  <2>2. (1 .. N) \cup {0} = 0 .. N
    BY <1>0
  <2> QED BY <2>1, <2>2
<1>3. PICK f \in [0 .. N -> Coins] : f[0] = set /\ \A n \in 1 .. N : f[n] = G[f[p[n]], n]
  <2> HIDE DEF G, p
  <2>1. Steps(1 .. N, Coins, G)
    BY <1>1 DEF Steps
  <2>2. \E f \in [(1 .. N) \cup {0} -> Coins] : Solves(f, 1 .. N, 0, p, set, G)
    BY <1>2, <2>1, Recursion
  <2> QED BY <1>2, <2>2 DEF Solves
<1>4. f = Def(f)
  <2>1. ASSUME NEW n \in 0 .. N PROVE f[n] = Def(f)[n]
    <3>1. CASE n = 0
      BY <1>3, <3>1
    <3>2. CASE n # 0
      <4>1. n \in 1 .. N /\ n - 1 \in 0 .. N
        BY <1>0, <3>2
      <4>2. f[n] = ApplyTx(f[n - 1], Txs[b][n])
        BY <1>1, <1>2, <1>3, <4>1
      <4> QED BY <3>2, <4>2
    <3> QED BY <3>1, <3>2
  <2> QED BY <1>3, <2>1
<1>5. h = Def(h)
  BY <1>4 DEF Applied, N
<1> HIDE DEF h
<1>6. h[0] = set /\ \A n \in 1 .. N : h[n] = ApplyTx(h[n - 1], Txs[b][n])
  BY <1>0, <1>5
<1>7. 0 \in Typed /\ \A n \in 1 .. N : p[n] \in Typed => n \in Typed
  BY <1>0, <1>2, <1>6
<1>8. 0 .. N \subseteq Typed
  <2> HIDE DEF Typed, p
  <2>1. Inherited(Typed, 1 .. N, p)
    BY <1>7 DEF Inherited
  <2>2. (1 .. N) \cup {0} \subseteq Typed
    BY <1>2, <1>7, <2>1, Induction
  <2> QED BY <1>2, <2>2
<1> QED BY <1>5, <1>6, <1>8 DEF h, N

LEMMA UndoneIs ==
  ASSUME NEW b \in Blocks, NEW set \in Coins
  PROVE  /\ Undone(set, b) \in [0 .. Len(Txs[b]) -> Coins]
         /\ Undone(set, b)[Len(Txs[b])] = set
         /\ \A n \in 0 .. Len(Txs[b]) - 1 :
              Undone(set, b)[n] = UndoTx(Undone(set, b)[n + 1], Txs[b][n + 1])
<1> DEFINE N == Len(Txs[b])
           p == [n \in 0 .. N - 1 |-> n + 1]
           G == [q \in Coins \X (0 .. N - 1) |-> UndoTx(q[1], Txs[b][q[2] + 1])]
           Def(f) == [n \in 0 .. N |-> IF n = N THEN set ELSE UndoTx(f[n + 1], Txs[b][n + 1])]
           h == Undone(set, b)
           Typed == {n \in 0 .. N : h[n] \in Coins}
<1>0. N \in Nat /\ \A v \in Coins, n \in 0 .. N - 1 : UndoTx(v, Txs[b][n + 1]) \in Coins
  <2>1. N \in Nat /\ \A n \in 0 .. N - 1 : n + 1 \in 1 .. N
    BY TxsIs
  <2> QED BY <2>1, TxsIs DEF UndoTx, Coins
<1> HIDE DEF N
<1>1. \A v \in Coins, n \in 0 .. N - 1 : G[v, n] \in Coins /\ G[v, n] = UndoTx(v, Txs[b][n + 1])
  BY <1>0
<1>2. /\ Descends(0 .. N - 1, N, p) /\ (0 .. N - 1) \cup {N} = 0 .. N
      /\ \A n \in 0 .. N - 1 : p[n] = n + 1
  <2>1. Descends(0 .. N - 1, N, p)
    BY <1>0, LoopsDescend
  <2>2. (0 .. N - 1) \cup {N} = 0 .. N
    BY <1>0
  <2> QED BY <2>1, <2>2
<1>3. PICK f \in [0 .. N -> Coins] : f[N] = set /\ \A n \in 0 .. N - 1 : f[n] = G[f[p[n]], n]
  <2> HIDE DEF G, p
  <2>1. Steps(0 .. N - 1, Coins, G)
    BY <1>1 DEF Steps
  <2>2. \E f \in [(0 .. N - 1) \cup {N} -> Coins] : Solves(f, 0 .. N - 1, N, p, set, G)
    BY <1>2, <2>1, Recursion
  <2> QED BY <1>2, <2>2 DEF Solves
<1>4. f = Def(f)
  <2>1. ASSUME NEW n \in 0 .. N PROVE f[n] = Def(f)[n]
    <3>1. CASE n = N
      BY <1>3, <3>1
    <3>2. CASE n # N
      <4>1. n \in 0 .. N - 1 /\ n + 1 \in 0 .. N
        BY <1>0, <3>2
      <4>2. f[n] = UndoTx(f[n + 1], Txs[b][n + 1])
        BY <1>1, <1>2, <1>3, <4>1
      <4> QED BY <3>2, <4>2
    <3> QED BY <3>1, <3>2
  <2> QED BY <1>3, <2>1
<1>5. h = Def(h)
  BY <1>4 DEF Undone, N
<1> HIDE DEF h
<1>6. h[N] = set /\ \A n \in 0 .. N - 1 : h[n] = UndoTx(h[n + 1], Txs[b][n + 1])
  BY <1>0, <1>5
<1>7. N \in Typed /\ \A n \in 0 .. N - 1 : p[n] \in Typed => n \in Typed
  BY <1>0, <1>2, <1>6
<1>8. 0 .. N \subseteq Typed
  <2> HIDE DEF Typed, p
  <2>1. Inherited(Typed, 0 .. N - 1, p)
    BY <1>7 DEF Inherited
  <2>2. (0 .. N - 1) \cup {N} \subseteq Typed
    BY <1>2, <1>7, <2>1, Induction
  <2> QED BY <1>2, <2>2
<1> QED BY <1>5, <1>6, <1>8 DEF h, N

\* Both directions map coins to coins.
LEMMA BlockTypes ==
  ASSUME NEW b \in Blocks, NEW set \in Coins
  PROVE  /\ ConnectBlock(set, b) \in Coins /\ DisconnectBlock(set, b) \in Coins
         /\ PosOffset(b) \in {0, 1} /\ PosOffset(b) \in 0 .. Len(Txs[b])
<1>1. Len(Txs[b]) \in Nat /\ (b \in Staked => Len(Txs[b]) # 0)
  BY FlushAssumption
<1>2. PosOffset(b) \in {0, 1} /\ PosOffset(b) \in 0 .. Len(Txs[b])
  BY <1>1 DEF PosOffset
<1> QED BY <1>1, <1>2, AppliedIs, UndoneIs DEF ConnectBlock, DisconnectBlock

LEMMA UtxoOfIs ==
  /\ UtxoOf \in [Nodes -> Coins]
  /\ UtxoOf[NoBlock] = {}
  /\ \A b \in Blocks : UtxoOf[b] = ConnectBlock(UtxoOf[Parent[b]], b)
<1> DEFINE G == [q \in Coins \X Blocks |-> ConnectBlock(q[1], q[2])]
           Def(f) == [b \in Nodes |-> IF b = NoBlock THEN {} ELSE ConnectBlock(f[Parent[b]], b)]
           Typed == {b \in Nodes : UtxoOf[b] \in Coins}
<1>0. NoBlock \notin Blocks /\ {} \in Coins /\ \A b \in Blocks : Parent[b] \in Nodes
  BY FlushAssumption DEF Nodes, Coins
<1>1. \A v \in Coins, b \in Blocks : G[v, b] \in Coins /\ G[v, b] = ConnectBlock(v, b)
  BY BlockTypes
<1>2. PICK f \in [Nodes -> Coins] :
        f[NoBlock] = {} /\ \A b \in Blocks : f[b] = G[f[Parent[b]], b]
  <2> HIDE DEF G
  <2>1. Steps(Blocks, Coins, G)
    BY <1>1 DEF Steps
  <2>2. \E f \in [Blocks \cup {NoBlock} -> Coins] : Solves(f, Blocks, NoBlock, Parent, {}, G)
    BY <1>0, <2>1, TreeDescends, Recursion
  <2> QED BY <2>2 DEF Nodes, Solves
<1>3. f = Def(f)
  <2>1. ASSUME NEW b \in Blocks PROVE f[b] = ConnectBlock(f[Parent[b]], b)
    <3>1. f[Parent[b]] \in Coins
      BY <1>0
    <3> HIDE DEF G
    <3> QED BY <1>1, <1>2, <3>1
  <2> QED BY <1>0, <1>2, <2>1 DEF Nodes
<1>4. UtxoOf = Def(UtxoOf)
  BY <1>3 DEF UtxoOf, Nodes
<1>5. UtxoOf[NoBlock] = {} /\ \A b \in Blocks : UtxoOf[b] = ConnectBlock(UtxoOf[Parent[b]], b)
  BY <1>0, <1>4 DEF Nodes
<1>6. NoBlock \in Typed /\ \A b \in Blocks : Parent[b] \in Typed => b \in Typed
  BY <1>0, <1>5, BlockTypes DEF Nodes
<1>7. Nodes \subseteq Typed
  <2> HIDE DEF Typed
  <2>1. Inherited(Typed, Blocks, Parent)
    BY <1>6 DEF Inherited
  <2> QED BY <1>6, <2>1, TreeDescends, Induction DEF Nodes
<1> QED BY <1>4, <1>5, <1>7

-----------------------------------------------------------------------------
(* What connecting and disconnecting do to any coins: an outpoint that the *)
(* block names ends as it would from the right coins, and another one is   *)
(* left alone.                                                             *)

\* Induction over the transactions of a block.
LEMMA Loops ==
  ASSUME NEW N \in Nat, NEW S
  PROVE  /\ 0 \in S /\ (\A n \in 1 .. N : n - 1 \in S => n \in S) => 0 .. N \subseteq S
         /\ N \in S /\ (\A n \in 0 .. N - 1 : n + 1 \in S => n \in S) => 0 .. N \subseteq S
<1>1. ASSUME 0 \in S, \A n \in 1 .. N : n - 1 \in S => n \in S PROVE 0 .. N \subseteq S
  <2> DEFINE p == [n \in 1 .. N |-> n - 1]
  <2>1. Descends(1 .. N, 0, p)
    BY LoopsDescend
  <2>2. Inherited(S, 1 .. N, p)
    BY <1>1 DEF Inherited
  <2> HIDE DEF p
  <2>3. (1 .. N) \cup {0} \subseteq S
    BY <1>1, <2>1, <2>2, Induction
  <2> QED BY <2>3
<1>2. ASSUME N \in S, \A n \in 0 .. N - 1 : n + 1 \in S => n \in S PROVE 0 .. N \subseteq S
  <2> DEFINE p == [n \in 0 .. N - 1 |-> n + 1]
  <2>1. Descends(0 .. N - 1, N, p)
    BY LoopsDescend
  <2>2. Inherited(S, 0 .. N - 1, p)
    BY <1>2 DEF Inherited
  <2> HIDE DEF p
  <2>3. (0 .. N - 1) \cup {N} \subseteq S
    BY <1>2, <2>1, <2>2, Induction
  <2> QED BY <2>3
<1> QED BY <1>1, <1>2

\* One of the transactions from the i-th to the j-th of b names o.
Named(o, b, i, j) == \E k \in i .. j : o \in Txs[b][k].in \cup Txs[b][k].out

LEMMA AppliedAt ==
  ASSUME NEW b \in Blocks, NEW S \in Coins, NEW T \in Coins, NEW o, NEW n \in 0 .. Len(Txs[b])
  PROVE  IF Named(o, b, 1, n) THEN o \in Applied(S, b)[n] <=> o \in Applied(T, b)[n]
                              ELSE o \in Applied(S, b)[n] <=> o \in S
<1> DEFINE N == Len(Txs[b])
           s == Applied(S, b)
           t == Applied(T, b)
           Ok(k) == IF Named(o, b, 1, k) THEN o \in s[k] <=> o \in t[k] ELSE o \in s[k] <=> o \in S
           Oks == {k \in 0 .. N : Ok(k)}
<1>0. /\ N \in Nat /\ s[0] = S
      /\ \A k \in 1 .. N : s[k] = ApplyTx(s[k - 1], Txs[b][k]) /\ t[k] = ApplyTx(t[k - 1], Txs[b][k])
  BY TxsIs, AppliedIs
<1> HIDE DEF N, s, t
<1>1. 0 \in Oks
  BY <1>0 DEF Named
<1>2. ASSUME NEW k \in 1 .. N, k - 1 \in Oks PROVE k \in Oks
  <2>1. Named(o, b, 1, k) <=> Named(o, b, 1, k - 1) \/ o \in Txs[b][k].in \cup Txs[b][k].out
    BY <1>0 DEF Named
  <2>2. /\ o \in s[k] <=> (o \in s[k - 1] /\ o \notin Txs[b][k].in) \/ o \in Txs[b][k].out
        /\ o \in t[k] <=> (o \in t[k - 1] /\ o \notin Txs[b][k].in) \/ o \in Txs[b][k].out
    BY <1>0 DEF ApplyTx
  <2>3. Ok(k - 1)
    BY <1>2
  <2>4. Ok(k)
    BY <2>1, <2>2, <2>3
  <2> QED BY <2>4
<1>3. 0 .. N \subseteq Oks
  <2> HIDE DEF Oks
  <2> QED BY <1>0, <1>1, <1>2, Loops
<1>4. Ok(n)
  BY <1>3 DEF N
<1> QED BY <1>4 DEF s, t

LEMMA UndoneAt ==
  ASSUME NEW b \in Blocks, NEW S \in Coins, NEW T \in Coins, NEW o, NEW n \in 0 .. Len(Txs[b])
  PROVE  IF Named(o, b, n + 1, Len(Txs[b])) THEN o \in Undone(S, b)[n] <=> o \in Undone(T, b)[n]
                                            ELSE o \in Undone(S, b)[n] <=> o \in S
<1> DEFINE N == Len(Txs[b])
           s == Undone(S, b)
           t == Undone(T, b)
           Ok(k) == IF Named(o, b, k + 1, N) THEN o \in s[k] <=> o \in t[k] ELSE o \in s[k] <=> o \in S
           Oks == {k \in 0 .. N : Ok(k)}
<1>0. /\ N \in Nat /\ s[N] = S
      /\ \A k \in 0 .. N - 1 : s[k] = UndoTx(s[k + 1], Txs[b][k + 1]) /\ t[k] = UndoTx(t[k + 1], Txs[b][k + 1])
  BY TxsIs, UndoneIs
<1> HIDE DEF N, s, t
<1>1. N \in Oks
  BY <1>0 DEF Named
<1>2. ASSUME NEW k \in 0 .. N - 1, k + 1 \in Oks PROVE k \in Oks
  <2>1. Named(o, b, k + 1, N) <=>
          Named(o, b, (k + 1) + 1, N) \/ o \in Txs[b][k + 1].in \cup Txs[b][k + 1].out
    BY <1>0 DEF Named
  <2>2. /\ o \in s[k] <=> (o \in s[k + 1] /\ o \notin Txs[b][k + 1].out) \/ o \in Txs[b][k + 1].in
        /\ o \in t[k] <=> (o \in t[k + 1] /\ o \notin Txs[b][k + 1].out) \/ o \in Txs[b][k + 1].in
    BY <1>0 DEF UndoTx
  <2>3. Ok(k + 1)
    BY <1>2
  <2>4. Ok(k)
    BY <2>1, <2>2, <2>3
  <2> QED BY <1>0, <2>4
<1>3. 0 .. N \subseteq Oks
  <2> HIDE DEF Oks
  <2> QED BY <1>0, <1>1, <1>2, Loops
<1>4. Ok(n)
  BY <1>3 DEF N
<1> QED BY <1>4 DEF s, t, N

\* Undoing the transactions of a valid block goes back over the same coins.
LEMMA UndoneIsApplied ==
  ASSUME NEW b \in Blocks, NEW n \in 0 .. Len(Txs[b])
  PROVE  Undone(UtxoOf[b], b)[n] = Applied(UtxoOf[Parent[b]], b)[n]
<1> DEFINE N == Len(Txs[b])
           u == Undone(UtxoOf[b], b)
           a == Applied(UtxoOf[Parent[b]], b)
           Same == {k \in 0 .. N : u[k] = a[k]}
<1>0. UtxoOf[b] \in Coins /\ UtxoOf[Parent[b]] \in Coins /\ N \in Nat
  BY UtxoOfIs, LineIs, TxsIs DEF Nodes
<1>1. /\ u[N] = UtxoOf[b] /\ UtxoOf[b] = a[N]
      /\ \A k \in 0 .. N - 1 : u[k] = UndoTx(u[k + 1], Txs[b][k + 1])
      /\ \A k \in 1 .. N : a[k] = ApplyTx(a[k - 1], Txs[b][k])
  BY <1>0, UndoneIs, AppliedIs, UtxoOfIs DEF ConnectBlock
<1>2. \A k \in 1 .. N : Txs[b][k].in \subseteq a[k - 1] /\ Txs[b][k].out \cap a[k - 1] = {}
  BY ValidBlocks
<1> HIDE DEF N, u, a
<1>3. N \in Same
  BY <1>0, <1>1
<1>4. ASSUME NEW k \in 0 .. N - 1, k + 1 \in Same PROVE k \in Same
  <2>1. k + 1 \in 1 .. N /\ (k + 1) - 1 = k
    BY <1>0
  <2>2. /\ Txs[b][k + 1].in \subseteq a[k] /\ Txs[b][k + 1].out \cap a[k] = {}
        /\ a[k + 1] = ApplyTx(a[k], Txs[b][k + 1])
    BY <1>1, <1>2, <2>1
  <2>3. UndoTx(a[k + 1], Txs[b][k + 1]) = a[k]
    BY <2>2 DEF UndoTx, ApplyTx
  <2> QED BY <1>0, <1>1, <1>4, <2>3
<1>5. 0 .. N \subseteq Same
  <2> HIDE DEF Same
  <2> QED BY <1>0, <1>3, <1>4, Loops
<1> QED BY <1>5 DEF N, u, a

-----------------------------------------------------------------------------
(* Which coins are good for a block, and which are on the way from one     *)
(* block to another.                                                       *)

\* The outpoints that b's chain has spent.
SpentOn(b) == UNION {UNION {Txs[c][n].in : n \in 1 .. Len(Txs[c])} : c \in Line[b]}

\* What disconnected blocks of proof of stake may have left.
Leftover(b) == EmptyOutputs \ SpentOn(b)

Good(set, b) == UtxoOf[b] \subseteq set /\ set \subseteq UtxoOf[b] \cup Leftover(b)

Mixed(set, a, b) ==
  /\ UtxoOf[a] \cap UtxoOf[b] \subseteq set
  /\ set \subseteq (UtxoOf[a] \cup Leftover(a)) \cup (UtxoOf[b] \cup Leftover(b))

\* Less is spent on the chain of the parent.
LEMMA SpentBelow ==
  ASSUME NEW b \in Blocks, NEW o
  PROVE  o \in SpentOn(b) <=> o \in SpentOn(Parent[b]) \/ \E n \in 1 .. Len(Txs[b]) : o \in Txs[b][n].in
<1>1. Line[b] = {b} \cup Line[Parent[b]]
  BY LineIs
<1> QED BY <1>1 DEF SpentOn

\* Connecting gives the coins of b wherever the coins were those of its parent.
LEMMA ConnectBounds ==
  ASSUME NEW b \in Blocks, NEW set \in Coins, NEW o
  PROVE  /\ o \in UtxoOf[b] => \/ o \in ConnectBlock(set, b)
                               \/ o \in UtxoOf[Parent[b]] /\ o \notin set
         /\ o \in ConnectBlock(set, b) => \/ o \in UtxoOf[b] \cup Leftover(b)
                                          \/ o \in set \ (UtxoOf[Parent[b]] \cup Leftover(Parent[b]))
<1> DEFINE N == Len(Txs[b])
           old == UtxoOf[Parent[b]]
<1>1. old \in Coins /\ N \in 0 .. N /\ UtxoOf[b] = Applied(old, b)[N] /\ ConnectBlock(set, b) = Applied(set, b)[N]
  BY UtxoOfIs, LineIs, TxsIs DEF ConnectBlock
<1> HIDE DEF N
<1>2. CASE Named(o, b, 1, N)
  <2>1. o \in Applied(set, b)[N] <=> o \in Applied(old, b)[N]
    BY <1>1, <1>2, AppliedAt DEF N
  <2> QED BY <1>1, <2>1
<1>3. CASE ~Named(o, b, 1, N)
  <2>1. (o \in Applied(set, b)[N] <=> o \in set) /\ (o \in Applied(old, b)[N] <=> o \in old)
    BY <1>1, <1>3, AppliedAt DEF N
  <2>2. o \in Leftover(Parent[b]) => o \in Leftover(b)
    BY <1>3, SpentBelow DEF Named, Leftover, N
  <2> QED BY <1>1, <2>1, <2>2
<1> QED BY <1>2, <1>3

\* The coins of b with its transactions undone.
LEMMA UndoneUtxo ==
  ASSUME NEW b \in Blocks
  PROVE  /\ UtxoOf[Parent[b]] \subseteq DisconnectBlock(UtxoOf[b], b)
         /\ DisconnectBlock(UtxoOf[b], b) \subseteq UtxoOf[Parent[b]] \cup Leftover(Parent[b])
<1> DEFINE old == UtxoOf[Parent[b]]
<1>1. old \in Coins /\ Applied(old, b)[0] = old
  BY UtxoOfIs, LineIs, AppliedIs
<1>2. DisconnectBlock(UtxoOf[b], b) = Applied(old, b)[PosOffset(b)]
  BY <1>1, BlockTypes, UndoneIsApplied DEF DisconnectBlock
<1>3. CASE b \notin Staked
  BY <1>1, <1>2, <1>3 DEF PosOffset
<1>4. CASE b \in Staked
  <2>1. Len(Txs[b]) \in Nat /\ 1 \in 1 .. Len(Txs[b]) /\ Txs[b][1].in = {}
    BY <1>4, FlushAssumption
  <2>2. Applied(old, b)[1] = ApplyTx(Applied(old, b)[1 - 1], Txs[b][1])
    BY <1>1, <2>1, AppliedIs
  <2>3. DisconnectBlock(UtxoOf[b], b) = old \cup Txs[b][1].out
    BY <1>1, <1>2, <1>4, <2>1, <2>2 DEF PosOffset, ApplyTx
  <2>4. Txs[b][1].out \cap SpentOn(Parent[b]) = {}
    BY <1>4, ValidBlocks DEF SpentOn
  <2>5. Txs[b][1].out \subseteq Leftover(Parent[b])
    BY <1>4, <2>4 DEF Leftover, EmptyOutputs
  <2> QED BY <2>3, <2>5
<1> QED BY <1>3, <1>4

\* Disconnecting gives the coins of the parent wherever they were those of b.
LEMMA DisconnectBounds ==
  ASSUME NEW b \in Blocks, NEW set \in Coins, NEW o
  PROVE  /\ o \in UtxoOf[Parent[b]] => \/ o \in DisconnectBlock(set, b)
                                       \/ o \in UtxoOf[b] /\ o \notin set
         /\ o \in DisconnectBlock(set, b) => \/ o \in UtxoOf[Parent[b]] \cup Leftover(Parent[b])
                                             \/ o \in set \ (UtxoOf[b] \cup Leftover(b))
<1> DEFINE m == PosOffset(b)
           N == Len(Txs[b])
<1>1. UtxoOf[b] \in Coins /\ m \in 0 .. N
  BY UtxoOfIs, BlockTypes DEF Nodes
<1>2. o \in Leftover(b) => o \in Leftover(Parent[b])
  BY SpentBelow DEF Leftover
<1>3. CASE Named(o, b, m + 1, N)
  <2>1. o \in DisconnectBlock(set, b) <=> o \in DisconnectBlock(UtxoOf[b], b)
    BY <1>1, <1>3, UndoneAt DEF DisconnectBlock
  <2> QED BY <2>1, UndoneUtxo
<1>4. CASE ~Named(o, b, m + 1, N)
  <2>1. /\ o \in DisconnectBlock(set, b) <=> o \in set
        /\ o \in DisconnectBlock(UtxoOf[b], b) <=> o \in UtxoOf[b]
    BY <1>1, <1>4, UndoneAt DEF DisconnectBlock
  <2> QED BY <1>2, <2>1, UndoneUtxo
<1> QED BY <1>3, <1>4

\* So good coins stay good.
LEMMA GoodSteps ==
  ASSUME NEW b \in Blocks, NEW set \in Coins
  PROVE  /\ Good(set, Parent[b]) => Good(ConnectBlock(set, b), b)
         /\ Good(set, b) => Good(DisconnectBlock(set, b), Parent[b])
<1>1. ASSUME Good(set, Parent[b]) PROVE Good(ConnectBlock(set, b), b)
  BY <1>1, ConnectBounds DEF Good
<1>2. ASSUME Good(set, b) PROVE Good(DisconnectBlock(set, b), Parent[b])
  BY <1>2, DisconnectBounds DEF Good
<1> QED BY <1>1, <1>2

\* And of mixed coins either end can move.
LEMMA MixedSteps ==
  ASSUME NEW b \in Blocks, NEW set \in Coins, NEW c \in Blocks
  PROVE  /\ Mixed(set, Parent[b], c) => Mixed(ConnectBlock(set, b), b, c)
         /\ Mixed(set, b, c) => Mixed(DisconnectBlock(set, b), Parent[b], c)
<1>1. ASSUME Mixed(set, Parent[b], c) PROVE Mixed(ConnectBlock(set, b), b, c)
  BY <1>1, ConnectBounds DEF Mixed
<1>2. ASSUME Mixed(set, b, c) PROVE Mixed(DisconnectBlock(set, b), Parent[b], c)
  BY <1>2, DisconnectBounds DEF Mixed
<1> QED BY <1>1, <1>2

\* Good coins are disconnected cleanly: what is left of other branches is no
\* input of this chain.
LEMMA GoodIsClean ==
  ASSUME NEW b \in Blocks, NEW set \in Coins, Good(set, b)
  PROVE  DisconnectsCleanly(set, b)
<1> DEFINE N == Len(Txs[b])
           a == Applied(UtxoOf[Parent[b]], b)
<1>1. /\ N \in Nat /\ PosOffset(b) \in 0 .. N
      /\ UtxoOf[b] \in Coins /\ UtxoOf[Parent[b]] \in Coins
  BY TxsIs, UtxoOfIs, BlockTypes, LineIs DEF Nodes
<1> SUFFICES ASSUME NEW n \in PosOffset(b) + 1 .. N
             PROVE  /\ Txs[b][n].out \subseteq Undone(set, b)[n]
                    /\ Txs[b][n].in \cap (Undone(set, b)[n] \ Txs[b][n].out) = {}
  BY DEF DisconnectsCleanly
<1>2. n \in 1 .. N /\ n \in 0 .. N
  BY <1>1
<1>3. a[n] = ApplyTx(a[n - 1], Txs[b][n]) /\ Undone(UtxoOf[b], b)[n] = a[n]
  BY <1>1, <1>2, AppliedIs, UndoneIsApplied
<1>4. ASSUME NEW o
      PROVE  \/ o \in Undone(set, b)[n] <=> o \in a[n]
             \/ (o \in Undone(set, b)[n] <=> o \in set) /\ (o \in a[n] <=> o \in UtxoOf[b])
  <2>1. CASE Named(o, b, n + 1, N)
    BY <1>1, <1>2, <1>3, <2>1, UndoneAt
  <2>2. CASE ~Named(o, b, n + 1, N)
    BY <1>1, <1>2, <1>3, <2>2, UndoneAt
  <2> QED BY <2>1, <2>2
<1>5. ASSUME NEW o \in Txs[b][n].out PROVE o \in Undone(set, b)[n]
  BY <1>3, <1>4 DEF ApplyTx, Good
<1>6. ASSUME NEW o \in Txs[b][n].in, o \notin Txs[b][n].out PROVE o \notin Undone(set, b)[n]
  <2>1. o \notin a[n]
    BY <1>3, <1>6 DEF ApplyTx
  <2>2. o \notin Leftover(b)
    BY <1>2, SpentBelow DEF Leftover
  <2> QED BY <1>4, <2>1, <2>2 DEF Good
<1> QED BY <1>5, <1>6

-----------------------------------------------------------------------------
(* ReplayBlocks.                                                           *)

\* A line has its block and genesis, and stays within an index.
LEMMA LineHas ==
  ASSUME NEW b \in Blocks
  PROVE  /\ b \in Line[b] /\ Genesis \in Line[b]
         /\ \A data \in SUBSET Blocks : Rooted(data) /\ b \in data => Line[b] \subseteq data
<1> DEFINE Has(x) == /\ x \in Blocks => Genesis \in Line[x]
                     /\ \A data \in SUBSET Blocks :
                          Rooted(data) /\ x \in data \cup {NoBlock} => Line[x] \subseteq data
           S == {x \in Nodes : Has(x)}
<1>0. Genesis \in Blocks /\ NoBlock \notin Blocks /\ \A x \in Blocks \ {Genesis} : Parent[x] \in Blocks
  BY FlushAssumption
<1>1. NoBlock \in S
  BY <1>0, LineIs DEF Nodes
<1>2. ASSUME NEW x \in Blocks, Parent[x] \in S PROVE x \in S
  <2>1. Line[x] = {x} \cup Line[Parent[x]] /\ Has(Parent[x])
    BY <1>2, LineIs
  <2>2. Genesis \in Line[x]
    BY <1>0, <2>1
  <2>3. ASSUME NEW data \in SUBSET Blocks, Rooted(data), x \in data PROVE Line[x] \subseteq data
    <3>1. Parent[x] \in data \cup {NoBlock}
      BY <2>3 DEF Rooted
    <3>2. Line[Parent[x]] \subseteq data
      BY <2>1, <2>3, <3>1
    <3> QED BY <2>1, <2>3, <3>2
  <2> QED BY <1>0, <2>2, <2>3 DEF Nodes
<1>3. Blocks \cup {NoBlock} \subseteq S
  <2> HIDE DEF S
  <2>1. Inherited(S, Blocks, Parent)
    BY <1>2 DEF Inherited
  <2> QED BY <1>1, <2>1, TreeDescends, Induction
<1>4. Has(b)
  BY <1>3
<1> QED BY <1>4, LineIs

\* The fork is on both lines; without an old tip there is none.
LEMMA ForkIs ==
  ASSUME NEW a \in Nodes, NEW b \in Blocks
  PROVE  /\ a = NoBlock => Fork(a, b) = NoBlock
         /\ a # NoBlock => Fork(a, b) \in Line[a] \cap Line[b]
<1> DEFINE G == [q \in Nodes \X Blocks |-> IF q[2] \in Line[b] THEN q[2] ELSE q[1]]
           Def(f) == [c \in Nodes |-> IF c \in Line[b] \cup {NoBlock} THEN c ELSE f[Parent[c]]]
           from == CHOOSE f : f = Def(f)
           S == {c \in Nodes : c \in Blocks => from[c] \in Line[c] \cap Line[b]}
<1>0. /\ NoBlock \notin Blocks /\ NoBlock \in Nodes /\ Line[b] \subseteq Blocks /\ Genesis \in Line[b]
      /\ \A c \in Blocks : Parent[c] \in Nodes /\ (c # Genesis => Parent[c] \in Blocks)
  BY FlushAssumption, LineIs, LineHas DEF Nodes
<1>1. \A v \in Nodes, c \in Blocks : /\ G[v, c] \in Nodes
                                    /\ G[v, c] = IF c \in Line[b] THEN c ELSE v
  BY DEF Nodes
<1>2. PICK f \in [Nodes -> Nodes] : f[NoBlock] = NoBlock /\ \A c \in Blocks : f[c] = G[f[Parent[c]], c]
  <2> HIDE DEF G
  <2>1. Steps(Blocks, Nodes, G)
    BY <1>1 DEF Steps
  <2>2. \E f \in [Blocks \cup {NoBlock} -> Nodes] : Solves(f, Blocks, NoBlock, Parent, NoBlock, G)
    BY <1>0, <2>1, TreeDescends, Recursion
  <2> QED BY <2>2 DEF Nodes, Solves
<1>3. f = Def(f)
  <2>1. ASSUME NEW c \in Blocks PROVE f[c] = IF c \in Line[b] THEN c ELSE f[Parent[c]]
    <3>1. f[Parent[c]] \in Nodes
      BY <1>0
    <3> HIDE DEF G
    <3> QED BY <1>1, <1>2, <3>1
  <2>2. ASSUME NEW c \in Nodes PROVE f[c] = Def(f)[c]
    <3>1. CASE c = NoBlock
      BY <1>2, <3>1
    <3>2. CASE c \in Blocks
      BY <1>0, <2>1, <3>2
    <3> QED BY <3>1, <3>2 DEF Nodes
  <2>3. f = [c \in Nodes |-> f[c]]
    OBVIOUS
  <2>4. [c \in Nodes |-> f[c]] = [c \in Nodes |-> Def(f)[c]]
    <3> HIDE DEF Def
    <3> QED BY <2>2, Zenon
  <2>5. Def(f) = [c \in Nodes |-> Def(f)[c]]
    OBVIOUS
  <2> HIDE DEF Def
  <2> QED BY <2>3, <2>4, <2>5
<1>4. from = Def(from)
  BY <1>3
<1>5. Fork(a, b) = from[a]
  BY DEF Fork, Nodes
<1> HIDE DEF from
<1>6. /\ from[NoBlock] = NoBlock
      /\ \A c \in Blocks : from[c] = IF c \in Line[b] THEN c ELSE from[Parent[c]]
  BY <1>0, <1>4 DEF Nodes
<1>7. NoBlock \in S
  BY <1>0
<1>8. ASSUME NEW c \in Blocks, Parent[c] \in S PROVE c \in S
  <2>1. CASE c \in Line[b]
    BY <1>6, <2>1, LineHas DEF Nodes
  <2>2. CASE c \notin Line[b]
    <3>1. Parent[c] \in Blocks /\ from[c] = from[Parent[c]] /\ Line[c] = {c} \cup Line[Parent[c]]
      BY <1>0, <1>6, <2>2, LineIs
    <3> QED BY <1>8, <3>1 DEF Nodes
  <2> QED BY <2>1, <2>2
<1>9. Blocks \cup {NoBlock} \subseteq S
  <2> HIDE DEF S
  <2>1. Inherited(S, Blocks, Parent)
    BY <1>8 DEF Inherited
  <2> QED BY <1>7, <2>1, TreeDescends, Induction
<1> QED BY <1>5, <1>6, <1>9 DEF Nodes

LEMMA RollbackIs ==
  ASSUME NEW fork \in Nodes
  PROVE  \A set \in Coins :
           /\ Rollback(fork)[NoBlock][set] = set
           /\ \A b \in Blocks : Rollback(fork)[b][set] =
                IF b = fork THEN set ELSE Rollback(fork)[Parent[b]][DisconnectBlock(set, b)]
<1> DEFINE V == [Coins -> Coins]
           v0 == [set \in Coins |-> set]
           G == [q \in V \X Blocks |->
                   [set \in Coins |-> IF q[2] = fork THEN set ELSE q[1][DisconnectBlock(set, q[2])]]]
           Def(f) == [b \in Nodes |->
                        [set \in Coins |-> IF b \in {fork, NoBlock} THEN set
                                           ELSE f[Parent[b]][DisconnectBlock(set, b)]]]
           h == Rollback(fork)
<1>0. NoBlock \notin Blocks /\ v0 \in V /\ \A b \in Blocks : Parent[b] \in Nodes
  BY FlushAssumption DEF Nodes
<1>1. \A v \in V, b \in Blocks :
        /\ G[v, b] \in V
        /\ G[v, b] = [set \in Coins |-> IF b = fork THEN set ELSE v[DisconnectBlock(set, b)]]
  BY BlockTypes
<1>2. PICK f \in [Nodes -> V] : f[NoBlock] = v0 /\ \A b \in Blocks : f[b] = G[f[Parent[b]], b]
  <2> HIDE DEF G, V, v0
  <2>1. Steps(Blocks, V, G)
    BY <1>1 DEF Steps
  <2>2. \E f \in [Blocks \cup {NoBlock} -> V] : Solves(f, Blocks, NoBlock, Parent, v0, G)
    BY <1>0, <2>1, TreeDescends, Recursion
  <2> QED BY <2>2 DEF Nodes, Solves
<1>3. f = Def(f)
  <2>1. ASSUME NEW b \in Blocks PROVE f[b] = Def(f)[b]
    <3>1. f[Parent[b]] \in V
      BY <1>0
    <3>2. f[b] = [set \in Coins |-> IF b = fork THEN set ELSE f[Parent[b]][DisconnectBlock(set, b)]]
      <4> HIDE DEF G, V
      <4> QED BY <1>1, <1>2, <3>1
    <3> QED BY <1>0, <3>2 DEF Nodes
  <2>2. f[NoBlock] = Def(f)[NoBlock]
    BY <1>2 DEF Nodes
  <2> HIDE DEF V
  <2> QED BY <1>2, <2>1, <2>2 DEF Nodes
<1>4. h = Def(h)
  BY <1>3 DEF Rollback, Nodes, Coins
<1> HIDE DEF h
<1>5. \A b \in Nodes : h[b] = [set \in Coins |-> IF b \in {fork, NoBlock} THEN set
                                                ELSE h[Parent[b]][DisconnectBlock(set, b)]]
  BY <1>4
<1>a. ASSUME NEW b \in Nodes, NEW set \in Coins
      PROVE  h[b][set] = IF b \in {fork, NoBlock} THEN set ELSE h[Parent[b]][DisconnectBlock(set, b)]
  <2>1. h[b] = [x \in Coins |-> IF b \in {fork, NoBlock} THEN x
                               ELSE h[Parent[b]][DisconnectBlock(x, b)]]
    BY <1>5
  <2>2. PICK g : g = h[Parent[b]]
    OBVIOUS
  <2>3. h[b] = [x \in Coins |-> IF b \in {fork, NoBlock} THEN x ELSE g[DisconnectBlock(x, b)]]
    BY <2>1, <2>2
  <2>4. h[b][set] = IF b \in {fork, NoBlock} THEN set ELSE g[DisconnectBlock(set, b)]
    BY <2>3
  <2> QED BY <2>2, <2>4
<1>6. ASSUME NEW set \in Coins PROVE h[NoBlock][set] = set
  BY <1>a DEF Nodes
<1>7. ASSUME NEW set \in Coins, NEW b \in Blocks
      PROVE  h[b][set] = IF b = fork THEN set ELSE h[Parent[b]][DisconnectBlock(set, b)]
  BY <1>0, <1>a DEF Nodes
<1> QED BY <1>6, <1>7 DEF h

LEMMA RollforwardIs ==
  ASSUME NEW fork \in Nodes, NEW set \in Coins
  PROVE  /\ Rollforward(set, fork)[NoBlock] = set
         /\ \A b \in Blocks : Rollforward(set, fork)[b] =
              IF b = fork THEN set ELSE ConnectBlock(Rollforward(set, fork)[Parent[b]], b)
<1> DEFINE G == [q \in Coins \X Blocks |-> IF q[2] = fork THEN set ELSE ConnectBlock(q[1], q[2])]
           Def(f) == [b \in Nodes |-> IF b \in {fork, NoBlock} THEN set ELSE ConnectBlock(f[Parent[b]], b)]
           h == Rollforward(set, fork)
<1>0. NoBlock \notin Blocks /\ \A b \in Blocks : Parent[b] \in Nodes
  BY FlushAssumption DEF Nodes
<1>1. \A v \in Coins, b \in Blocks : /\ G[v, b] \in Coins
                                    /\ G[v, b] = IF b = fork THEN set ELSE ConnectBlock(v, b)
  BY BlockTypes
<1>2. PICK f \in [Nodes -> Coins] : f[NoBlock] = set /\ \A b \in Blocks : f[b] = G[f[Parent[b]], b]
  <2> HIDE DEF G
  <2>1. Steps(Blocks, Coins, G)
    BY <1>1 DEF Steps
  <2>2. \E f \in [Blocks \cup {NoBlock} -> Coins] : Solves(f, Blocks, NoBlock, Parent, set, G)
    BY <2>1, TreeDescends, Recursion
  <2> QED BY <2>2 DEF Nodes, Solves
<1>3. f = Def(f)
  <2>1. ASSUME NEW b \in Blocks PROVE f[b] = IF b = fork THEN set ELSE ConnectBlock(f[Parent[b]], b)
    <3>1. f[Parent[b]] \in Coins
      BY <1>0
    <3> HIDE DEF G
    <3> QED BY <1>1, <1>2, <3>1
  <2> QED BY <1>0, <1>2, <2>1 DEF Nodes
<1>4. h = Def(h)
  BY <1>3 DEF Rollforward, Nodes
<1> HIDE DEF h
<1> QED BY <1>0, <1>4 DEF h, Nodes

\* The replay turns coins on the way from a to c into good ones of c, however
\* often it was cut off before.
LEMMA ReplayGood ==
  ASSUME NEW a \in Nodes, NEW c \in Blocks, NEW set \in Coins, Mixed(set, a, c)
  PROVE  /\ Rollforward(Rollback(Fork(a, c))[a][set], Fork(a, c))[c] \in Coins
         /\ Good(Rollforward(Rollback(Fork(a, c))[a][set], Fork(a, c))[c], c)
<1> DEFINE fork == Fork(a, c)
           r == Rollback(fork)
<1>0. /\ fork \in Nodes /\ NoBlock \notin Blocks /\ NoBlock \in Nodes
      /\ fork = NoBlock => a = NoBlock
      /\ fork # NoBlock => a \in Blocks /\ fork \in Line[a] /\ fork \in Line[c]
      /\ Line[NoBlock] = {}
      /\ \A b \in Blocks : Line[b] = {b} \cup Line[Parent[b]]
  <2>1. NoBlock \notin Blocks /\ Line \in [Nodes -> SUBSET Blocks] /\ Line[NoBlock] = {}
    BY FlushAssumption, LineIs
  <2>2. a = NoBlock => fork = NoBlock
    BY ForkIs
  <2>3. a # NoBlock => fork \in Line[a] \cap Line[c]
    BY ForkIs
  <2>4. Line[c] \subseteq Blocks
    BY <2>1 DEF Nodes
  <2> QED BY <2>1, <2>2, <2>3, <2>4, LineIs DEF Nodes
<1> HIDE DEF fork
<1>1. r[a][set] \in Coins /\ Mixed(r[a][set], fork, c)
  <2> DEFINE Ok(b) == (b = fork \/ fork \in Line[b]) =>
                        \A s \in Coins : Mixed(s, b, c) => r[b][s] \in Coins /\ Mixed(r[b][s], fork, c)
             S == {b \in Nodes : Ok(b)}
  <2>1. \A s \in Coins : /\ r[NoBlock][s] = s
                         /\ \A b \in Blocks : r[b][s] = IF b = fork THEN s ELSE r[Parent[b]][DisconnectBlock(s, b)]
    BY <1>0, RollbackIs
  <2> HIDE DEF r
  <2>2. NoBlock \in S
    <3>1. Ok(NoBlock)
      BY <1>0, <2>1
    <3> QED BY <1>0, <3>1
  <2>3. ASSUME NEW b \in Blocks, Parent[b] \in S PROVE b \in S
    <3>1. ASSUME fork \in Line[b], b # fork, NEW s \in Coins, Mixed(s, b, c)
          PROVE  r[b][s] \in Coins /\ Mixed(r[b][s], fork, c)
      <4>1. Ok(Parent[b]) /\ fork \in Line[Parent[b]]
        BY <1>0, <2>3, <3>1
      <4>2. PICK s1 : s1 = DisconnectBlock(s, b)
        OBVIOUS
      <4>3. s1 \in Coins /\ Mixed(s1, Parent[b], c)
        BY <3>1, <4>2, BlockTypes, MixedSteps
      <4>4. r[b][s] = r[Parent[b]][s1]
        BY <2>1, <3>1, <4>2
      <4> QED BY <4>1, <4>3, <4>4
    <3>2. ASSUME b = fork, NEW s \in Coins, Mixed(s, b, c)
          PROVE  r[b][s] \in Coins /\ Mixed(r[b][s], fork, c)
      BY <2>1, <3>2
    <3>3. Ok(b)
      BY <3>1, <3>2
    <3> QED BY <3>3 DEF Nodes
  <2>4. Blocks \cup {NoBlock} \subseteq S
    <3> HIDE DEF S
    <3>1. Inherited(S, Blocks, Parent)
      BY <2>3 DEF Inherited
    <3> QED BY <2>2, <3>1, TreeDescends, Induction
  <2>5. Ok(a)
    BY <2>4 DEF Nodes
  <2> QED BY <1>0, <2>5
<1>2. PICK s0 : s0 = r[a][set]
  OBVIOUS
<1> DEFINE f == Rollforward(s0, fork)
<1>3. f[c] \in Coins /\ Mixed(f[c], c, c)
  <2> DEFINE Ok(b) == (fork = NoBlock \/ b = fork \/ fork \in Line[b]) =>
                        f[b] \in Coins /\ Mixed(f[b], b, c)
             S == {b \in Nodes : Ok(b)}
  <2>0. s0 \in Coins /\ Mixed(s0, fork, c)
    BY <1>1, <1>2
  <2>1. /\ f[NoBlock] = s0
        /\ \A b \in Blocks : f[b] = IF b = fork THEN s0 ELSE ConnectBlock(f[Parent[b]], b)
    BY <1>0, <2>0, RollforwardIs
  <2> HIDE DEF f
  <2>2. NoBlock \in S
    <3>1. Ok(NoBlock)
      BY <1>0, <2>0, <2>1
    <3> QED BY <1>0, <3>1
  <2>3. ASSUME NEW b \in Blocks, Parent[b] \in S PROVE b \in S
    <3>1. ASSUME fork = NoBlock \/ fork \in Line[b], b # fork PROVE f[b] \in Coins /\ Mixed(f[b], b, c)
      <4>1. Ok(Parent[b]) /\ (fork = NoBlock \/ fork \in Line[Parent[b]])
        BY <1>0, <2>3, <3>1
      <4>2. PICK s1 : s1 = f[Parent[b]]
        OBVIOUS
      <4>3. s1 \in Coins /\ Mixed(s1, Parent[b], c) /\ f[b] = ConnectBlock(s1, b)
        BY <2>1, <3>1, <4>1, <4>2
      <4> QED BY <4>3, BlockTypes, MixedSteps
    <3>2. ASSUME b = fork PROVE f[b] \in Coins /\ Mixed(f[b], b, c)
      BY <2>0, <2>1, <3>2
    <3>3. Ok(b)
      BY <3>1, <3>2
    <3> QED BY <3>3 DEF Nodes
  <2>4. Blocks \cup {NoBlock} \subseteq S
    <3> HIDE DEF S
    <3>1. Inherited(S, Blocks, Parent)
      BY <2>3 DEF Inherited
    <3> QED BY <2>2, <3>1, TreeDescends, Induction
  <2>5. Ok(c)
    BY <2>4
  <2> QED BY <1>0, <2>5
<1>4. Good(f[c], c)
  BY <1>3 DEF Mixed, Good
<1> QED BY <1>2, <1>3, <1>4 DEF fork

-----------------------------------------------------------------------------
(* The coins in memory and in the database.                                *)

Running == {"run", "index", "coins"}

\* A database is good for the block it names, or on its way between the two
\* that its mark names.
Repairable(d) ==
  IF d.heads = <<>> THEN Good(d.coins, d.best)
  ELSE d.best = NoBlock /\ Mixed(d.coins, d.heads[2], d.heads[1])

GoodInv ==
  /\ TypeOK
  /\ phase \in Running => Good(coins, tip)
  /\ Repairable(db) /\ Repairable(durable)

\* All of b's chain can be undone with this undo data.
CanUndo(undo, b) == Line[b] \ {Genesis} \subseteq undo

UndoKept(d) ==
  /\ CanUndo(index.undo, d.best)
  /\ d.heads # <<>> => CanUndo(index.undo, d.heads[1]) /\ CanUndo(index.undo, d.heads[2])

\* Undo data.  What the index on disk does not have is in the files.
UndoInv ==
  /\ FailsOnlyOnLostUndo
  /\ index.undo \subseteq mem.undo
  /\ mem.undo \subseteq index.undo \cup rev.written
  /\ phase \in Running => CanUndo(mem.undo, tip)
  /\ phase = "coins" => CanUndo(index.undo, tip)
  /\ UndoKept(db) /\ UndoKept(durable)

AllInv == FlushInv /\ GoodInv /\ UndoInv

LEMMA AllInitially == Init => AllInv
<1> SUFFICES ASSUME Init PROVE AllInv
  OBVIOUS
<1>1. Line[NoBlock] = {} /\ UtxoOf[NoBlock] = {}
  BY LineIs, UtxoOfIs
<1>2. Good({}, NoBlock)
  BY <1>1 DEF Good
<1>3. TypeOK
  <2>1. mem \in IndexType /\ index \in IndexType /\ blk \in FilesType
    BY Initially DEF FlushInv, FilesInv
  <2>2. rev \in FilesType
    BY DEF Init, FilesType
  <2>3. db \in DbType /\ durable \in DbType
    BY DEF Init, DbType
  <2>4. stops \in 0 .. MaxStops
    BY FlushAssumption DEF Init
  <2> QED BY <2>1, <2>2, <2>3, <2>4 DEF Init, TypeOK
<1>4. GoodInv
  BY <1>2, <1>3 DEF Init, GoodInv, Repairable
<1>5. UndoInv
  BY <1>1 DEF Init, UndoInv, FailsOnlyOnLostUndo, CanUndo, UndoKept
<1> QED BY <1>4, <1>5, Initially DEF AllInv

\* A step that leaves the coins and the databases alone.
LEMMA GoodKept ==
  ASSUME AllInv, TypeOK', UNCHANGED <<coins, tip, db, durable>>,
         phase' \in Running => phase \in Running
  PROVE  GoodInv'
<1>1. Repairable(db)' /\ Repairable(durable)'
  BY DEF AllInv, GoodInv, Repairable, Good, Mixed, Leftover, SpentOn
<1>2. phase' \in Running => Good(coins, tip)'
  BY DEF AllInv, GoodInv, Good, Leftover, SpentOn
<1> QED BY <1>1, <1>2 DEF GoodInv

LEMMA AllAccept ==
  ASSUME AllInv, NEW b \in Blocks, AcceptBlock(b) PROVE GoodInv' /\ UndoInv'
<1>1. /\ phase = "run" /\ mem'.undo = mem.undo
      /\ rev' \in {rev, Sync(rev, InFile(mem, mem.last))}
      /\ UNCHANGED <<phase, full, tip, coins, index, db, durable, stops>>
  BY DEF AcceptBlock
<1>2. mem \in IndexType /\ rev \in FilesType /\ InFile(mem, mem.last) \in SUBSET Blocks
  BY DEF AllInv, GoodInv, TypeOK, IndexType, InFile
<1>3. rev' \in FilesType /\ rev'.written = rev.written
  BY <1>1, <1>2, WriteSync
<1>4. FlushInv'
  BY AcceptStep DEF AllInv
<1>5. TypeOK'
  BY <1>1, <1>3, <1>4 DEF AllInv, GoodInv, TypeOK, FlushInv, FilesInv
<1>6. GoodInv'
  BY <1>1, <1>5, GoodKept
<1>7. UndoInv'
  BY <1>1, <1>3 DEF AllInv, UndoInv, FailsOnlyOnLostUndo, CanUndo, UndoKept
<1> QED BY <1>6, <1>7

LEMMA AllConnect ==
  ASSUME AllInv, NEW b \in Blocks, ConnectTip(b) PROVE GoodInv' /\ UndoInv'
<1> DEFINE w == Write(rev, b)
<1>1. /\ phase = "run" /\ Parent[b] = tip /\ tip' = b /\ coins' = ConnectBlock(coins, b)
      /\ \/ b \in mem.undo \cup {Genesis} /\ mem' = mem /\ rev' = rev
         \/ /\ mem' = [mem EXCEPT !.undo = @ \cup {b}]
            /\ rev' \in {w, Sync(w, InFile(mem, mem.file[b]))}
      /\ UNCHANGED <<phase, full, index, db, durable, stops>>
  BY DEF ConnectTip
<1>2. /\ mem \in IndexType /\ rev \in FilesType /\ InFile(mem, mem.file[b]) \in SUBSET Blocks
      /\ coins \in Coins
  BY DEF AllInv, GoodInv, TypeOK, IndexType, InFile, Coins
<1>3. w \in FilesType /\ w.written = rev.written \cup {b}
  BY <1>2, WriteSync
<1>4. /\ rev' \in FilesType /\ rev.written \subseteq rev'.written
      /\ mem.undo \subseteq mem'.undo /\ mem'.undo \subseteq mem.undo \cup rev'.written
      /\ b \in mem'.undo \cup {Genesis}
  <2> HIDE DEF w
  <2>1. CASE b \in mem.undo \cup {Genesis} /\ mem' = mem /\ rev' = rev
    BY <1>2, <2>1
  <2>2. CASE /\ mem' = [mem EXCEPT !.undo = @ \cup {b}]
             /\ rev' \in {w, Sync(w, InFile(mem, mem.file[b]))}
    <3>1. rev' \in FilesType /\ rev'.written = rev.written \cup {b}
      BY <1>2, <1>3, <2>2, WriteSync
    <3>2. mem'.undo = mem.undo \cup {b}
      BY <1>2, <2>2 DEF IndexType
    <3> QED BY <3>1, <3>2
  <2> QED BY <1>1, <2>1, <2>2
<1>5. FlushInv'
  BY ConnectStep DEF AllInv
<1>6. coins' \in Coins /\ Good(coins', tip')
  <2>1. Good(coins, Parent[b])
    BY <1>1 DEF AllInv, GoodInv, Running
  <2>2. Good(ConnectBlock(coins, b), b) /\ ConnectBlock(coins, b) \in Coins
    BY <1>2, <2>1, GoodSteps, BlockTypes
  <2> QED BY <1>1, <2>2
<1>7. TypeOK'
  BY <1>1, <1>4, <1>5, <1>6 DEF AllInv, GoodInv, TypeOK, FlushInv, FilesInv, Coins
<1>8. Repairable(db)' /\ Repairable(durable)'
  BY <1>1 DEF AllInv, GoodInv, Repairable, Good, Mixed, Leftover, SpentOn
<1>9. GoodInv'
  BY <1>6, <1>7, <1>8 DEF GoodInv, Good, Leftover, SpentOn
<1>10. CanUndo(mem'.undo, b)
  <2>1. Line[b] = {b} \cup Line[tip]
    BY <1>1, LineIs
  <2>2. CanUndo(mem.undo, tip)
    BY <1>1 DEF AllInv, UndoInv, Running
  <2> QED BY <1>4, <2>1, <2>2 DEF CanUndo
<1>11. UndoKept(db)' /\ UndoKept(durable)'
  BY <1>1 DEF AllInv, UndoInv, UndoKept, CanUndo
<1>12. UndoInv'
  BY <1>1, <1>4, <1>10, <1>11 DEF AllInv, UndoInv, FailsOnlyOnLostUndo, CanUndo
<1> QED BY <1>9, <1>12

\* The tip's undo data is in the index and in the files, unless a power failure
\* has taken it, and its block disconnects cleanly.
LEMMA AllDisconnect ==
  ASSUME AllInv, DisconnectTip PROVE GoodInv' /\ UndoInv'
<1>1. /\ phase = "run" /\ tip \notin {NoBlock, Genesis}
      /\ UNCHANGED <<full, mem, index, blk, rev, db, durable, stops>>
  BY DEF DisconnectTip
<1>2. /\ tip \in Blocks /\ coins \in Coins /\ Good(coins, tip) /\ CanUndo(mem.undo, tip)
      /\ tip \in mem.data /\ mem.data \subseteq blk.written
  BY <1>1 DEF AllInv, GoodInv, UndoInv, TypeOK, Coins, Running, FlushInv, FilesInv, CoinsInv
<1>3. Line[tip] = {tip} \cup Line[Parent[tip]] /\ Parent[tip] \in Nodes
  BY <1>2, LineIs
<1>4. tip \in mem.undo
  BY <1>1, <1>2, <1>3 DEF CanUndo
<1>5. DisconnectsCleanly(coins, tip)
  BY <1>2, GoodIsClean
<1>6. Repairable(db)' /\ Repairable(durable)'
  BY <1>1 DEF AllInv, GoodInv, Repairable, Good, Mixed, Leftover, SpentOn
<1>7. UndoKept(db)' /\ UndoKept(durable)'
  BY <1>1 DEF AllInv, UndoInv, UndoKept, CanUndo
<1>8. CASE Undoable(tip)
  <2>1. coins' = DisconnectBlock(coins, tip) /\ tip' = Parent[tip] /\ phase' = phase
    BY <1>5, <1>8 DEF DisconnectTip
  <2>2. coins' \in Coins /\ Good(coins', tip')
    BY <1>2, <2>1, GoodSteps, BlockTypes
  <2>3. TypeOK'
    BY <1>1, <1>3, <2>1, <2>2 DEF AllInv, GoodInv, TypeOK, Coins, Nodes
  <2>4. GoodInv'
    BY <2>2, <2>3, <1>6 DEF GoodInv, Good, Leftover, SpentOn
  <2>5. CanUndo(mem.undo, Parent[tip])
    BY <1>2, <1>3 DEF CanUndo
  <2>6. UndoInv'
    BY <1>1, <1>7, <2>1, <2>5 DEF AllInv, UndoInv, FailsOnlyOnLostUndo, CanUndo
  <2> QED BY <2>4, <2>6
<1>9. CASE ~Undoable(tip)
  <2>1. coins' = coins /\ tip' = tip /\ phase' = "failed"
    BY <1>9 DEF DisconnectTip
  <2>2. TypeOK'
    BY <1>1, <2>1 DEF AllInv, GoodInv, TypeOK
  <2>3. GoodInv'
    BY <2>1, <2>2, <1>6 DEF GoodInv, Running
  <2>4. tip \in index.undo /\ tip \notin rev.written
    BY <1>2, <1>4, <1>9 DEF Undoable, Readable, AllInv, UndoInv
  <2>5. UndoInv'
    BY <1>1, <1>7, <2>1, <2>4 DEF AllInv, UndoInv, FailsOnlyOnLostUndo, Running
  <2> QED BY <2>3, <2>5
<1> QED BY <1>8, <1>9

LEMMA AllFlushFile ==
  ASSUME AllInv, FlushBlockFile PROVE GoodInv' /\ UndoInv'
<1>1. /\ phase = "run" /\ phase' = "index" /\ full' \in BOOLEAN
      /\ rev' = Sync(rev, InFile(mem, mem.last))
      /\ UNCHANGED <<tip, coins, mem, index, db, durable, stops>>
  BY DEF FlushBlockFile
<1>2. rev \in FilesType /\ InFile(mem, mem.last) \in SUBSET Blocks
  BY DEF AllInv, GoodInv, TypeOK, IndexType, InFile
<1>3. rev' \in FilesType /\ rev'.written = rev.written
  BY <1>1, <1>2, FlushAssumption, WriteSync
<1>4. FlushInv'
  BY FlushFileStep DEF AllInv
<1>5. TypeOK'
  BY <1>1, <1>3, <1>4 DEF AllInv, GoodInv, TypeOK, FlushInv, FilesInv
<1>6. GoodInv'
  BY <1>1, <1>5, GoodKept DEF Running
<1>7. UndoInv'
  BY <1>1, <1>3 DEF AllInv, UndoInv, FailsOnlyOnLostUndo, CanUndo, UndoKept, Running
<1> QED BY <1>6, <1>7

LEMMA AllWriteIndex ==
  ASSUME AllInv, WriteBlockIndex PROVE GoodInv' /\ UndoInv'
<1>1. /\ phase = "index" /\ phase' \in {"coins", "run"} /\ full' = FALSE /\ index' = mem
      /\ UNCHANGED <<tip, coins, mem, blk, rev, db, durable, stops>>
  BY DEF WriteBlockIndex
<1>2. TypeOK'
  BY <1>1 DEF AllInv, GoodInv, TypeOK
<1>3. GoodInv'
  BY <1>1, <1>2, GoodKept DEF Running
<1>4. index.undo \subseteq mem.undo /\ CanUndo(mem.undo, tip)
  BY <1>1 DEF AllInv, UndoInv, Running
<1>5. UndoKept(db)' /\ UndoKept(durable)'
  BY <1>1, <1>4 DEF AllInv, UndoInv, UndoKept, CanUndo
<1>6. UndoInv'
  BY <1>1, <1>4, <1>5 DEF UndoInv, FailsOnlyOnLostUndo, CanUndo
<1> QED BY <1>3, <1>6

\* A batch takes some outpoints from what the database has to what the cache
\* has: it stays between the old tip's coins and the new ones.
LEMMA AllPartial ==
  ASSUME AllInv, WritePartialBatch PROVE GoodInv' /\ UndoInv'
<1>1. PICK some \in SUBSET Pending :
        db' = [coins |-> SymDiff(db.coins, some), best |-> NoBlock, heads |-> <<tip, OldTip>>]
  BY DEF WritePartialBatch
<1>2. /\ phase = "coins"
      /\ UNCHANGED <<phase, full, tip, coins, mem, index, blk, rev, durable, stops>>
  BY DEF WritePartialBatch
<1>3. /\ db'.coins = SymDiff(db.coins, some) /\ db'.best = NoBlock
      /\ db'.heads = <<tip, OldTip>> /\ db'.heads # <<>>
      /\ db'.heads[1] = tip /\ db'.heads[2] = OldTip
  BY <1>1
<1>4. /\ Good(coins, tip) /\ Repairable(db) /\ coins \subseteq Outpoints /\ db \in DbType
      /\ CanUndo(index.undo, tip) /\ UndoKept(db)
  BY <1>2 DEF AllInv, GoodInv, UndoInv, TypeOK, Running
<1>5. tip \in Blocks /\ (db.heads # <<>> => db.heads[1] = tip)
  BY <1>2 DEF AllInv, FlushInv, FilesInv, CoinsInv, ReplayKeepsTarget, IndexType
<1>6. /\ db.coins \subseteq Outpoints /\ db.best \in Nodes
      /\ db.heads # <<>> => db.heads[2] \in Nodes
  BY <1>4 DEF DbType, Nodes
<1>7. OldTip \in Nodes /\ (db.heads = <<>> => OldTip = db.best) /\ (db.heads # <<>> => OldTip = db.heads[2])
  BY <1>4, <1>6 DEF OldTip, Repairable
<1>8. /\ db'.coins \subseteq coins \cup db.coins
      /\ coins \cap db.coins \subseteq db'.coins
  BY <1>1, <1>3 DEF SymDiff, Pending
<1>9. Mixed(db'.coins, OldTip, tip)
  <2>1. CASE db.heads = <<>>
    <3>1. Good(db.coins, OldTip)
      BY <1>4, <1>7, <2>1 DEF Repairable
    <3> QED BY <1>4, <1>8, <3>1 DEF Good, Mixed
  <2>2. CASE db.heads # <<>>
    <3>1. Mixed(db.coins, OldTip, tip)
      BY <1>4, <1>5, <1>7, <2>2 DEF Repairable
    <3> QED BY <1>4, <1>8, <3>1 DEF Good, Mixed
  <2> QED BY <2>1, <2>2
<1>10. db' \in DbType
  <2>1. db'.coins \in SUBSET Outpoints
    BY <1>4, <1>6, <1>8
  <2>2. <<tip, OldTip>> \in Blocks \X (Blocks \cup {NoBlock})
    BY <1>5, <1>7 DEF Nodes
  <2> QED BY <1>1, <1>3, <2>1, <2>2 DEF DbType
<1>11. TypeOK'
  BY <1>2, <1>10 DEF AllInv, GoodInv, TypeOK
<1>12. Repairable(db)' /\ Repairable(durable)'
  BY <1>2, <1>3, <1>9 DEF AllInv, GoodInv, Repairable, Good, Mixed, Leftover, SpentOn
<1>13. GoodInv'
  BY <1>2, <1>4, <1>11, <1>12 DEF GoodInv, Good, Leftover, SpentOn
<1>14. CanUndo(index.undo, OldTip) /\ CanUndo(index.undo, NoBlock)
  BY <1>4, <1>7, LineIs DEF UndoKept, CanUndo
<1>15. UndoKept(db)' /\ UndoKept(durable)'
  BY <1>2, <1>3, <1>4, <1>14 DEF AllInv, UndoInv, UndoKept, CanUndo
<1>16. UndoInv'
  BY <1>2, <1>15 DEF AllInv, UndoInv, FailsOnlyOnLostUndo, CanUndo
<1> QED BY <1>13, <1>16

LEMMA AllFinal ==
  ASSUME AllInv, WriteFinalBatch PROVE GoodInv' /\ UndoInv'
<1>1. /\ phase = "coins" /\ phase' = "run" /\ db' = [coins |-> coins, best |-> tip, heads |-> <<>>]
      /\ UNCHANGED <<full, tip, coins, mem, index, blk, rev, durable, stops>>
  BY DEF WriteFinalBatch
<1>2. db'.coins = coins /\ db'.best = tip /\ db'.heads = <<>>
  BY <1>1
<1>3. Good(coins, tip) /\ CanUndo(index.undo, tip) /\ CanUndo(mem.undo, tip)
  BY <1>1 DEF AllInv, GoodInv, UndoInv, Running
<1>4. TypeOK'
  BY <1>1 DEF AllInv, GoodInv, TypeOK, DbType
<1>5. Repairable(db)' /\ Repairable(durable)'
  BY <1>1, <1>2, <1>3 DEF AllInv, GoodInv, Repairable, Good, Mixed, Leftover, SpentOn
<1>6. GoodInv'
  BY <1>1, <1>3, <1>4, <1>5 DEF GoodInv, Good, Leftover, SpentOn
<1>7. UndoKept(db)' /\ UndoKept(durable)'
  BY <1>1, <1>2, <1>3 DEF AllInv, UndoInv, UndoKept, CanUndo
<1>8. UndoInv'
  BY <1>1, <1>3, <1>7 DEF AllInv, UndoInv, FailsOnlyOnLostUndo, CanUndo
<1> QED BY <1>6, <1>8

LEMMA AllStop ==
  ASSUME AllInv, Crash \/ PowerFailure PROVE GoodInv' /\ UndoInv'
<1>1. /\ phase' = "down" /\ mem' = index /\ full' = FALSE /\ tip' = NoBlock /\ coins' = {}
      /\ stops < MaxStops /\ stops' = stops + 1
      /\ UNCHANGED <<index, durable>> /\ db' \in {db, durable}
  BY DEF Crash, PowerFailure, Stop
<1>2. rev' \in FilesType
  <2>1. CASE Crash
    BY <2>1 DEF Crash, AllInv, GoodInv, TypeOK
  <2>2. CASE PowerFailure
    <3>1. PICK kept \in SUBSET (rev.written \ rev.synced) :
            rev' = [written |-> rev.synced \cup kept, synced |-> rev.synced \cup kept]
      BY <2>2 DEF PowerFailure
    <3> QED BY <3>1 DEF AllInv, GoodInv, TypeOK, FilesType
  <2> QED BY <2>1, <2>2
<1>3. FlushInv'
  BY StopStep DEF AllInv
<1>4. stops' \in 0 .. MaxStops
  <2>1. stops \in 0 .. MaxStops /\ MaxStops \in Nat
    BY FlushAssumption DEF AllInv, GoodInv, TypeOK
  <2>2. stops < MaxStops /\ stops' = stops + 1
    BY <1>1
  <2> QED BY <2>1, <2>2
<1>5. TypeOK'
  BY <1>1, <1>2, <1>3, <1>4 DEF AllInv, GoodInv, TypeOK, FlushInv, FilesInv
<1>6. Repairable(db)' /\ Repairable(durable)'
  BY <1>1 DEF AllInv, GoodInv, Repairable, Good, Mixed, Leftover, SpentOn
<1>7. GoodInv'
  BY <1>1, <1>5, <1>6 DEF GoodInv, Running
<1>8. UndoKept(db)' /\ UndoKept(durable)'
  BY <1>1 DEF AllInv, UndoInv, UndoKept, CanUndo
<1>9. UndoInv'
  BY <1>1, <1>8 DEF UndoInv, FailsOnlyOnLostUndo, Running
<1> QED BY <1>7, <1>9

\* A replay has the blocks it needs, and the undo data if none is lost.
LEMMA ReplayPossible ==
  ASSUME AllInv, db.heads # <<>>, index.undo \subseteq rev.written PROVE CanReplay
<1> DEFINE new == db.heads[1]
           old == db.heads[2]
           fork == Fork(old, new)
<1>1. /\ new \in index.data /\ old \in index.data \cup {NoBlock} /\ index.data \subseteq Blocks
      /\ Rooted(index.data) /\ index.data \subseteq blk.written
      /\ CanUndo(index.undo, old)
  BY DEF AllInv, FlushInv, FilesInv, CoinsInv, NamesIndexed, UndoInv, UndoKept,
         IndexType, IndexedBlocksOnDisk
<1>2. ASSUME NEW b \in index.data \cup {NoBlock} PROVE Line[b] \subseteq index.data
  <2>1. CASE b = NoBlock
    BY <2>1, LineIs
  <2>2. CASE b \in index.data
    BY <1>1, <2>2, LineHas
  <2> QED BY <2>1, <2>2
<1>3. old # NoBlock => Genesis \in Line[fork]
  <2>1. SUFFICES ASSUME old # NoBlock PROVE Genesis \in Line[fork]
    OBVIOUS
  <2>2. fork \in Line[old]
    BY <1>1, <2>1, ForkIs DEF Nodes
  <2>3. fork \in Blocks
    <3>1. Line[old] \subseteq index.data
      BY <1>1, <1>2
    <3> QED BY <1>1, <2>2, <3>1
  <2> QED BY <2>3, LineHas
<1>4. ASSUME NEW b \in Line[old] \ Line[fork] PROVE b \in index.undo
  <2>1. old # NoBlock
    BY <1>4, LineIs
  <2> QED BY <1>1, <1>3, <1>4, <2>1 DEF CanUndo
<1> HIDE DEF fork
<1> QED BY <1>1, <1>2, <1>4 DEF CanReplay, fork

LEMMA AllStart ==
  ASSUME AllInv, Start PROVE GoodInv' /\ UndoInv'
<1>1. /\ phase = "down" /\ phase' \in {"coins", "run", "failed"}
      /\ mem' = [index EXCEPT !.data = @ \cup {Genesis}]
      /\ UNCHANGED <<full, index, rev, db, durable, stops>>
  BY DEF Start, LoadBlockIndex
<1>2. mem'.undo = index.undo
  BY <1>1 DEF AllInv, GoodInv, TypeOK, IndexType
<1>3. FlushInv'
  BY StartStep DEF AllInv
<1>4. db \in DbType /\ Repairable(db) /\ UndoKept(db) /\ NamesIndexed(db) /\ index \in IndexType
  BY DEF AllInv, GoodInv, TypeOK, UndoInv, FlushInv, CoinsInv
<1>5. Repairable(db)' /\ Repairable(durable)'
  BY <1>1 DEF AllInv, GoodInv, Repairable, Good, Mixed, Leftover, SpentOn
<1>6. UndoKept(db)' /\ UndoKept(durable)'
  BY <1>1 DEF AllInv, UndoInv, UndoKept, CanUndo
<1>7. ASSUME coins' \in Coins, tip' \in Nodes, phase' # "failed" => Good(coins', tip') PROVE GoodInv'
  <2>1. TypeOK'
    BY <1>1, <1>3, <1>7 DEF AllInv, GoodInv, TypeOK, FlushInv, FilesInv, Coins, Nodes
  <2> QED BY <1>1, <1>5, <1>7, <2>1 DEF GoodInv, Running, Good, Leftover, SpentOn
<1>8. ASSUME phase' # "failed" => CanUndo(index.undo, tip'),
             phase' = "failed" => ~(index.undo \subseteq rev.written) PROVE UndoInv'
  BY <1>1, <1>2, <1>6, <1>8 DEF UndoInv, FailsOnlyOnLostUndo, Running, CanUndo
<1>9. CASE db.heads # <<>> /\ CanReplay
  <2> DEFINE new == db.heads[1]
             old == db.heads[2]
  <2>1. phase' = "coins" /\ tip' = new
        /\ coins' = Rollforward(Rollback(Fork(old, new))[old][db.coins], Fork(old, new))[new]
    BY <1>9 DEF Start, Replayed
  <2>2. new \in Blocks /\ old \in Nodes /\ db.coins \in Coins /\ Mixed(db.coins, old, new)
    BY <1>4, <1>9 DEF DbType, Repairable, Nodes, Coins
  <2>3. coins' \in Coins /\ Good(coins', tip')
    BY <2>1, <2>2, ReplayGood
  <2>4. CanUndo(index.undo, tip')
    BY <1>4, <1>9, <2>1 DEF UndoKept
  <2> QED BY <1>7, <1>8, <2>1, <2>2, <2>3, <2>4 DEF Nodes
<1>10. CASE db.heads # <<>> /\ ~CanReplay
  <2>1. phase' = "failed" /\ tip' = tip /\ coins' = coins
    BY <1>10 DEF Start
  <2>2. ~(index.undo \subseteq rev.written)
    BY <1>10, ReplayPossible
  <2>3. coins \in Coins /\ tip \in Nodes
    BY DEF AllInv, GoodInv, TypeOK, Coins, Nodes
  <2> QED BY <1>7, <1>8, <2>1, <2>2, <2>3
<1>11. CASE db.heads = <<>>
  <2>1. db.best \in index.data \cup {NoBlock}
    BY <1>4 DEF NamesIndexed
  <2>2. phase' = "run" /\ tip' = db.best /\ coins' = db.coins
    BY <1>11, <2>1 DEF Start
  <2>3. coins' \in Coins /\ tip' \in Nodes /\ Good(coins', tip') /\ CanUndo(index.undo, tip')
    BY <1>4, <1>11, <2>2 DEF DbType, Repairable, UndoKept, Coins, Nodes
  <2> QED BY <1>7, <1>8, <2>2, <2>3
<1> QED BY <1>9, <1>10, <1>11

LEMMA AllWriteback ==
  ASSUME AllInv, Writeback \/ UNCHANGED vars PROVE GoodInv' /\ UndoInv'
<1>1. /\ durable' \in {db, durable}
      /\ UNCHANGED <<phase, full, tip, coins, mem, index, blk, rev, db, stops>>
  BY DEF Writeback, vars
<1>2. TypeOK'
  BY <1>1 DEF AllInv, GoodInv, TypeOK
<1>3. Repairable(db)' /\ Repairable(durable)'
  BY <1>1 DEF AllInv, GoodInv, Repairable, Good, Mixed, Leftover, SpentOn
<1>4. GoodInv'
  BY <1>1, <1>2, <1>3 DEF AllInv, GoodInv, Good, Leftover, SpentOn
<1>5. UndoKept(db)' /\ UndoKept(durable)'
  BY <1>1 DEF AllInv, UndoInv, UndoKept, CanUndo
<1>6. UndoInv'
  BY <1>1, <1>5 DEF AllInv, UndoInv, FailsOnlyOnLostUndo, CanUndo
<1> QED BY <1>4, <1>6

LEMMA AllStep == AllInv /\ [Next]_vars => AllInv'
<1> SUFFICES ASSUME AllInv, [Next]_vars PROVE AllInv'
  OBVIOUS
<1>1. FlushInv'
  BY Step DEF AllInv
<1>2. GoodInv' /\ UndoInv'
  BY AllAccept, AllConnect, AllDisconnect, AllFlushFile, AllWriteIndex,
     AllPartial, AllFinal, AllStop, AllStart, AllWriteback
     DEF Next
<1> QED BY <1>1, <1>2 DEF AllInv

\* Every variable has its type.
THEOREM Typed == Spec => []TypeOK
<1>1. AllInv => TypeOK
  BY DEF AllInv, GoodInv
<1> QED
  BY <1>1, AllInitially, AllStep, PTL DEF Spec

\* However the node is stopped, and however often a replay is cut off, the coins
\* of the running node are those of its tip's chain, up to the empty outputs
\* that DisconnectBlock leaves: for every tree of valid blocks.
THEOREM CoinsRight == Spec => []CoinsOfTip
<1>1. AllInv => CoinsOfTip
  BY DEF AllInv, GoodInv, Running, Good, Leftover, CoinsOfTip
<1> QED
  BY <1>1, AllInitially, AllStep, PTL DEF Spec

\* Every start and every disconnection succeeds, unless a power failure took
\* undo data that the block index on disk counts on.
THEOREM OnlyLostUndoFails == Spec => []FailsOnlyOnLostUndo
<1>1. AllInv => FailsOnlyOnLostUndo
  BY DEF AllInv, UndoInv
<1> QED
  BY <1>1, AllInitially, AllStep, PTL DEF Spec
=============================================================================
