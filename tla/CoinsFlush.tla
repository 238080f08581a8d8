----------------------------- MODULE CoinsFlush -----------------------------
(***************************************************************************)
(* What survives when the node stops at any point.  FlushStateToDisk syncs *)
(* the block and undo files, then the block index, then writes the coins   *)
(* in batches; CCoinsViewDB::BatchWrite marks the database as being on its *)
(* way from one tip to another (DB_HEAD_BLOCKS), and ReplayBlocks repairs  *)
(* a write that was cut off.  The coins in memory are one set here: that   *)
(* the caches over the database behave so is what CoinsCache shows.        *)
(***************************************************************************)
EXTENDS Integers, Sequences, FiniteSets, FiniteSetsExt, Functions

CONSTANTS Blocks, Genesis, NoBlock,
          Parent,         \* pprev: [Blocks -> Blocks \cup {NoBlock}]
          Txs,            \* vtx: sequences of [in, out], sets of outpoints
          Staked,         \* the proof-of-stake blocks
          BlocksPerFile,  \* stands for MAX_BLOCKFILE_SIZE
          MaxStops        \* bound: crashes and power failures

Outpoints ==
  UNION {UNION {tx.in \cup tx.out : tx \in Range(Txs[b])} : b \in Blocks}

\* Every line of ancestors ends at genesis, of which no output is a coin; the
\* first transaction of a block of proof of stake is a coinbase.
ASSUME FlushAssumption ==
  /\ Genesis \in Blocks /\ NoBlock \notin Blocks
  /\ Parent \in [Blocks -> Blocks \cup {NoBlock}]
  /\ \A b \in Blocks : Parent[b] = NoBlock <=> b = Genesis
  /\ \A S \in SUBSET Blocks : S # {} => \E b \in S : Parent[b] \notin S
  /\ Txs \in [Blocks -> Seq([in: SUBSET Outpoints, out: SUBSET Outpoints])]
  /\ Txs[Genesis] = <<>>
  /\ Staked \subseteq Blocks
  /\ \A b \in Staked : Txs[b] # <<>> /\ Txs[b][1].in = {}
  /\ BlocksPerFile \in Nat \ {0} /\ MaxStops \in Nat

VARIABLES phase,    \* where FlushStateToDisk or the start-up is
          full,     \* fDoFullFlush of the flush under way
          tip,      \* CoinsTip().GetBestBlock()
          coins,    \* the unspent outpoints CoinsTip() has
          mem,      \* the block index in memory
          index,    \* the block index database; every write to it is synced
          blk, rev, \* block and undo files: what was written, what is synced
          db,       \* the coins database
          durable,  \* the coins database as a power failure would leave it
          stops

vars == <<phase, full, tip, coins, mem, index, blk, rev, db, durable, stops>>

\* Block index entries: BLOCK_HAVE_DATA, BLOCK_HAVE_UNDO, nFile, and
\* nLastBlockFile with them.
IndexType ==
  [data: SUBSET Blocks, undo: SUBSET Blocks, file: [Blocks -> Nat], last: Nat]

FilesType == [written: SUBSET Blocks, synced: SUBSET Blocks]

DbType ==
  [coins: SUBSET Outpoints,
   best: Blocks \cup {NoBlock},
   heads: {<<>>} \cup (Blocks \X (Blocks \cup {NoBlock}))]

\* Every variable has its type.
TypeOK ==
  /\ phase \in {"run", "index", "coins", "down", "failed"}
  /\ full \in BOOLEAN
  /\ tip \in Blocks \cup {NoBlock}
  /\ coins \subseteq Outpoints
  /\ mem \in IndexType /\ index \in IndexType
  /\ blk \in FilesType /\ rev \in FilesType
  /\ db \in DbType /\ durable \in DbType
  /\ stops \in 0 .. MaxStops

-----------------------------------------------------------------------------
(* Blocks and what they do to the coins.                                   *)

\* The blocks from genesis to b.
Line[b \in Blocks \cup {NoBlock}] ==
  IF b = NoBlock THEN {} ELSE {b} \cup Line[Parent[b]]

Height(b) == Cardinality(Line[b])

\* UpdateCoins and AddCoins; RollforwardBlock does the same to coins that may
\* already have it.
ApplyTx(set, tx) == (set \ tx.in) \cup tx.out

\* The coins with the first n transactions of b applied to them.
Applied(set, b) ==
  LET coinsAt[n \in 0 .. Len(Txs[b])] ==
        IF n = 0 THEN set ELSE ApplyTx(coinsAt[n - 1], Txs[b][n])
  IN  coinsAt

ConnectBlock(set, b) == Applied(set, b)[Len(Txs[b])]

\* ApplyTxInUndo.
UndoTx(set, tx) == (set \ tx.out) \cup tx.in

\* The coins with all but the first n transactions of b undone, last first.
Undone(set, b) ==
  LET coinsAt[n \in 0 .. Len(Txs[b])] ==
        IF n = Len(Txs[b]) THEN set ELSE UndoTx(coinsAt[n + 1], Txs[b][n + 1])
  IN  coinsAt

\* DisconnectBlock's pos_offset: of a proof-of-stake block the first
\* transaction, the coinbase with its empty output, is not undone.
PosOffset(b) == IF b \in Staked THEN 1 ELSE 0

DisconnectBlock(set, b) == Undone(set, b)[PosOffset(b)]

\* DISCONNECT_OK: every output was there and no input was.
DisconnectsCleanly(set, b) ==
  \A n \in PosOffset(b) + 1 .. Len(Txs[b]) :
    LET before == Undone(set, b)[n]
        tx == Txs[b][n]
    IN  tx.out \subseteq before /\ tx.in \cap (before \ tx.out) = {}

\* The coins a block's chain has by its transactions.
UtxoOf[b \in Blocks \cup {NoBlock}] ==
  IF b = NoBlock THEN {} ELSE ConnectBlock(UtxoOf[Parent[b]], b)

\* The blocks are valid on their chains.  A transaction spends coins that are
\* there (CheckTxInputs) and its outputs, named by its hash, are new; nothing
\* before a coinbase of proof of stake has spent its outputs, as a coinbase
\* starts with its height (ContextualCheckBlock).
ASSUME ValidBlocks ==
  /\ \A b \in Blocks : \A n \in 1 .. Len(Txs[b]) :
       LET before == Applied(UtxoOf[Parent[b]], b)[n - 1]
       IN  Txs[b][n].in \subseteq before /\ Txs[b][n].out \cap before = {}
  /\ \A b \in Staked : \A c \in Line[Parent[b]] : \A n \in 1 .. Len(Txs[c]) :
       Txs[b][1].out \cap Txs[c][n].in = {}

\* The outputs of the coinbases of proof-of-stake blocks, which are empty.
EmptyOutputs == UNION {Txs[b][1].out : b \in Staked}

\* LastCommonAncestor: the first block from a down that b's chain has.
Fork(a, b) ==
  LET from[c \in Blocks \cup {NoBlock}] ==
        IF c \in Line[b] \cup {NoBlock} THEN c ELSE from[Parent[c]]
  IN  from[a]

-----------------------------------------------------------------------------
(* Block and undo files.                                                   *)

InFile(index_, n) == {b \in index_.data : index_.file[b] = n}

\* CBlockFileInfo::nHeightLast.
HeightLast(n) == Max({Height(b) : b \in InFile(mem, n)})

Write(files, b) ==
  [written |-> files.written \cup {b}, synced |-> files.synced \ {b}]

Sync(files, set) == [files EXCEPT !.synced = @ \cup (set \cap files.written)]

\* ReadBlockFromDisk, UndoReadFromDisk.
Readable(b) == b \in mem.data \cap blk.written

Undoable(b) == Readable(b) /\ b \in mem.undo \cap rev.written

Init ==
  /\ phase = "run" /\ full = FALSE
  /\ tip = NoBlock /\ coins = {}
  /\ index = [data |-> {}, undo |-> {}, file |-> [b \in Blocks |-> 0], last |-> 0]
  /\ mem = [index EXCEPT !.data = {Genesis}]
  /\ blk = [written |-> {Genesis}, synced |-> {}]
  /\ rev = [written |-> {}, synced |-> {}]
  /\ db = [coins |-> {}, best |-> NoBlock, heads |-> <<>>]
  /\ durable = db
  /\ stops = 0

\* AcceptBlock stores a block whose parent it has.  FindBlockPos leaves a
\* full file after syncing it, and its undo data only if the chain has kept up.
AcceptBlock(b) ==
  LET n == mem.last
      leave == Cardinality(InFile(mem, n)) >= BlocksPerFile
      nFile == IF leave THEN n + 1 ELSE n
  IN  /\ phase = "run"
      /\ b \notin mem.data
      /\ Parent[b] \in mem.data
      /\ mem' = [mem EXCEPT !.data = @ \cup {b}, !.file[b] = nFile, !.last = nFile]
      /\ blk' = Write(IF leave THEN Sync(blk, InFile(mem, n)) ELSE blk, b)
      /\ rev' = IF leave /\ HeightLast(n) = Height(tip) THEN Sync(rev, InFile(mem, n)) ELSE rev
      /\ UNCHANGED <<phase, full, tip, coins, index, db, durable, stops>>

\* ConnectTip: ConnectBlock and, for all but genesis, WriteUndoDataForBlock,
\* which syncs the undo data of a file with the file's last block.
ConnectTip(b) ==
  LET n == mem.file[b]
      written == Write(rev, b)
  IN  /\ phase = "run"
      /\ Parent[b] = tip
      /\ Readable(b)
      /\ coins' = ConnectBlock(coins, b)
      /\ tip' = b
      /\ IF b = Genesis \/ b \in mem.undo
         THEN UNCHANGED <<mem, rev>>
         ELSE /\ mem' = [mem EXCEPT !.undo = @ \cup {b}]
              /\ rev' = IF n < mem.last /\ Height(b) = HeightLast(n)
                        THEN Sync(written, InFile(mem, n))
                        ELSE written
      /\ UNCHANGED <<phase, full, index, blk, db, durable, stops>>

\* DisconnectTip, for a reorganisation or invalidateblock.  For a block that
\* cannot be undone, or not cleanly, the one ends the node (AbortNode), and the
\* other gives up.
DisconnectTip ==
  /\ phase = "run"
  /\ tip \notin {NoBlock, Genesis}
  /\ IF Undoable(tip) /\ DisconnectsCleanly(coins, tip)
     THEN /\ coins' = DisconnectBlock(coins, tip)
          /\ tip' = Parent[tip]
          /\ UNCHANGED phase
     ELSE /\ phase' = "failed"
          /\ UNCHANGED <<coins, tip>>
  /\ UNCHANGED <<full, mem, index, blk, rev, db, durable, stops>>

-----------------------------------------------------------------------------
(* FlushStateToDisk.  It runs under cs_main, so that only a stop can come  *)
(* between its parts.                                                      *)

\* FlushBlockFile syncs the current block file and the undo file with it.
FlushBlockFile ==
  /\ phase = "run"
  /\ \E doFull \in BOOLEAN : full' = doFull
  /\ blk' = Sync(blk, InFile(mem, mem.last))
  /\ rev' = Sync(rev, InFile(mem, mem.last))
  /\ phase' = "index"
  /\ UNCHANGED <<tip, coins, mem, index, db, durable, stops>>

\* Mutant: the chain state is written and the block index left for later.
WriteBlockIndexMutant ==
  /\ phase = "index"
  /\ phase' = IF full /\ tip # NoBlock THEN "coins" ELSE "run"
  /\ full' = FALSE
  /\ UNCHANGED <<tip, coins, mem, index, blk, rev, db, durable, stops>>

\* WriteBatchSync of the dirty block index entries and file infos.
WriteBlockIndex ==
  /\ phase = "index"
  /\ index' = mem
  /\ phase' = IF full /\ tip # NoBlock THEN "coins" ELSE "run"
  /\ full' = FALSE
  /\ UNCHANGED <<tip, coins, mem, blk, rev, db, durable, stops>>

\* The entries CCoinsViewDB::BatchWrite still has to write or to erase.
Pending == SymDiff(coins, db.coins)

OldTip == IF db.best = NoBlock /\ db.heads # <<>> THEN db.heads[2] ELSE db.best

\* Mutant: DB_HEAD_BLOCKS without the old tip.
WritePartialBatchMutant ==
  /\ phase = "coins"
  /\ \E some \in (SUBSET Pending) \ {{}} :
       db' = [coins |-> SymDiff(db.coins, some), best |-> NoBlock, heads |-> <<tip>>]
  /\ UNCHANGED <<phase, full, tip, coins, mem, index, blk, rev, durable, stops>>

\* A batch that is not the last one: some of the entries in the order of a
\* hash map, with the mark that the database is in transition.
WritePartialBatch ==
  /\ phase = "coins"
  /\ \E some \in (SUBSET Pending) \ {{}} :
       db' = [coins |-> SymDiff(db.coins, some), best |-> NoBlock, heads |-> <<tip, OldTip>>]
  /\ UNCHANGED <<phase, full, tip, coins, mem, index, blk, rev, durable, stops>>

\* The last batch takes the mark away.
WriteFinalBatch ==
  /\ phase = "coins"
  /\ db' = [coins |-> coins, best |-> tip, heads |-> <<>>]
  /\ phase' = "run"
  /\ UNCHANGED <<full, tip, coins, mem, index, blk, rev, durable, stops>>

-----------------------------------------------------------------------------
(* Stops and starts.                                                       *)

\* The batches of the coins database are not synced: at some time the system
\* has them on the disk.
Writeback ==
  /\ durable # db
  /\ durable' = db
  /\ UNCHANGED <<phase, full, tip, coins, mem, index, blk, rev, db, stops>>

\* What is in memory is gone; the index is read back at the start.
Stop ==
  /\ phase \notin {"down", "failed"} /\ stops < MaxStops
  /\ phase' = "down" /\ stops' = stops + 1
  /\ full' = FALSE /\ tip' = NoBlock /\ coins' = {} /\ mem' = index

\* The process ends; all that it has written stays.
Crash ==
  /\ Stop
  /\ UNCHANGED <<index, blk, rev, db, durable>>

\* The machine stops: of what was not synced any part may be missing.
PowerFailure ==
  /\ Stop
  /\ db' = durable
  /\ \E kept \in SUBSET (blk.written \ blk.synced) :
       blk' = [written |-> blk.synced \cup kept, synced |-> blk.synced \cup kept]
  /\ \E kept \in SUBSET (rev.written \ rev.synced) :
       rev' = [written |-> rev.synced \cup kept, synced |-> rev.synced \cup kept]
  /\ UNCHANGED <<index, durable>>

\* LoadBlockIndexDB, then LoadGenesisBlock.
LoadBlockIndex ==
  /\ mem' = [index EXCEPT !.data = @ \cup {Genesis}]
  /\ blk' = IF Genesis \in index.data THEN blk ELSE Write(blk, Genesis)

\* "Rollback along the old branch", with blocks that are undone in part
\* accepted: what is left of some coins of b at the fork.
Rollback(fork) ==
  LET down[b \in Blocks \cup {NoBlock}] ==
        [set \in SUBSET Outpoints |->
           IF b \in {fork, NoBlock} THEN set ELSE down[Parent[b]][DisconnectBlock(set, b)]]
  IN  down

\* "Roll forward from the forking point to the new tip".
Rollforward(set, fork) ==
  LET up[b \in Blocks \cup {NoBlock}] ==
        IF b \in {fork, NoBlock} THEN set ELSE ConnectBlock(up[Parent[b]], b)
  IN  up

\* Mutant: the old branch is not rolled back.
ReplayedMutant ==
  LET new == db.heads[1]
      fork == Fork(db.heads[2], new)
  IN  Rollforward(db.coins, fork)[new]

\* ReplayBlocks, the coins.
Replayed ==
  LET new == db.heads[1]
      old == db.heads[2]
      fork == Fork(old, new)
  IN  Rollforward(Rollback(fork)[old][db.coins], fork)[new]

\* Mutant: the first flush, which has no old tip, is not provided for.
CanReplayMutant ==
  LET new == db.heads[1]
      old == db.heads[2]
      fork == Fork(old, new)
  IN  /\ new \in index.data /\ old \in index.data
      /\ \A b \in Line[old] \ Line[fork] :
           b \in index.undo \cap rev.written /\ b \in index.data \cap blk.written
      /\ \A b \in Line[new] \ (Line[fork] \cup {Genesis}) : b \in index.data \cap blk.written

\* ReplayBlocks, the ways to fail.
CanReplay ==
  LET new == db.heads[1]
      old == db.heads[2]
      fork == Fork(old, new)
  IN  /\ new \in index.data /\ old \in index.data \cup {NoBlock}
      /\ \A b \in Line[old] \ Line[fork] :
           b \in index.undo \cap rev.written /\ b \in index.data \cap blk.written
      /\ \A b \in Line[new] \ (Line[fork] \cup {Genesis}) : b \in index.data \cap blk.written

\* Mutant: the start does not look for an interrupted write.
StartMutant ==
  /\ phase = "down"
  /\ LoadBlockIndex
  /\ db.best \in index.data \cup {NoBlock}
  /\ phase' = "run" /\ tip' = db.best /\ coins' = db.coins
  /\ UNCHANGED <<full, index, rev, db, durable, stops>>

\* The start: replay where the mark is set, else LoadChainTip.
Start ==
  /\ phase = "down"
  /\ LoadBlockIndex
  /\ IF db.heads # <<>>
     THEN IF CanReplay
          THEN phase' = "coins" /\ tip' = db.heads[1] /\ coins' = Replayed
          ELSE phase' = "failed" /\ UNCHANGED <<tip, coins>>
     ELSE IF db.best \in index.data \cup {NoBlock}
          THEN phase' = "run" /\ tip' = db.best /\ coins' = db.coins
          ELSE phase' = "failed" /\ UNCHANGED <<tip, coins>>
  /\ UNCHANGED <<full, index, rev, db, durable, stops>>

Next ==
  \/ \E b \in Blocks : AcceptBlock(b) \/ ConnectTip(b)
  \/ DisconnectTip
  \/ FlushBlockFile \/ WriteBlockIndex \/ WritePartialBatch \/ WriteFinalBatch
  \/ Writeback \/ Crash \/ PowerFailure \/ Start

Spec == Init /\ [][Next]_vars

-----------------------------------------------------------------------------
(* Properties.                                                             *)

\* While the node runs, and in particular after any sequence of stops, cut off
\* writes and replays, the coins are those of the transactions of the tip's
\* chain, up to the empty outputs that DisconnectBlock leaves behind.
CoinsOfTip ==
  phase = "run" =>
    /\ UtxoOf[tip] \subseteq coins
    /\ coins \subseteq UtxoOf[tip] \cup EmptyOutputs

\* The coins database only names blocks of which the block index database has
\* the entry, also as a power failure would leave them: the order of the parts
\* of FlushStateToDisk ("Flush the chainstate (which may refer to block index
\* entries)").
CoinsReferToIndex ==
  \A d \in {db, durable} : {d.best} \cup Range(d.heads) \subseteq index.data \cup {NoBlock}

\* Every block the block index database has data for is in the synced part of
\* a block file, through all file changes, crashes and power failures.
IndexedBlocksOnDisk == index.data \subseteq blk.synced

\* What a later part of a flush has written never needs what an earlier part was
\* to write, at whatever point the node stops.
WrittenInOrder == IndexedBlocksOnDisk /\ CoinsReferToIndex

\* Every block that the block index database has undo data for is in the synced
\* part of an undo file.
IndexedUndoOnDisk == index.undo \subseteq rev.synced

\* Neither a start nor a disconnection ever fails, whenever the node was
\* stopped, except for undo data that a power failure has taken.
FailsOnlyOnLostUndo == phase = "failed" => ~ (index.undo \subseteq rev.written)

\* A replay that is itself cut off is replayed towards the same tip: the
\* assertion in CCoinsViewDB::BatchWrite.
ReplayKeepsTarget == phase = "coins" /\ db.heads # <<>> => db.heads[1] = tip

\* "Undo the effects of this block": the coins depend on the chain only.
CoinsFunctionOfChain == phase = "run" => coins = UtxoOf[tip]
=============================================================================
