------------------------------- MODULE TxIndex -------------------------------
(***************************************************************************)
(* The transaction index (TxIndex, a BaseIndex): a database that maps a    *)
(* transaction to the block it is in on the active chain.                  *)
(*                                                                         *)
(* Two writers keep it, one after the other.  The sync thread              *)
(* (ThreadSync) walks the active chain, under cs_main for each step only,  *)
(* until it has caught up; from then on the callbacks of the validation    *)
(* queue (BlockConnected, ChainStateFlushed) do.  The callbacks arrive     *)
(* late and in order, and some of them are for blocks the thread has       *)
(* indexed, or for blocks that have left the chain.                        *)
(*                                                                         *)
(* The entries and the locator of the last block indexed are on disk; so   *)
(* is the active chain, up to its last flush.  The node is shut down, or   *)
(* crashes, and starts again from what is on disk.                         *)
(*                                                                         *)
(* A locator is the block it was made for: its first entries are that      *)
(* block's ancestors one by one, and a reader takes the first of them on   *)
(* its own chain.                                                          *)
(***************************************************************************)
EXTENDS CoinLookup

CONSTANTS
    Tree,           \* the blocks of the index, genesis and forks of it
    Genesis,        \* the header of the genesis block
    Txs,            \* transactions; header h has those in h.creates
    MaxQueue,       \* bound on the callbacks waiting
    MaxStops,       \* bound on the shutdowns and power failures
    FirstLocators,  \* what the database may hold at first: no locator, or genesis
    CrashPoints     \* the positions of the sync thread at which the power may fail

GenesisBlock == <<Genesis>>

ThreadPcs == {"down", "first", "loop", "write", "done", "exited"}
Phases == {"open", "interrupted", "draining"}

ASSUME TxIndexAssumption ==
    /\ GenesisBlock \in Tree
    /\ \A b \in Tree :
          /\ b \in Seq({b[h] : h \in 1 .. Len(b)})
          /\ Len(b) >= 1 /\ b[1] = Genesis
          /\ \A h \in 1 .. Len(b) : GetAncestor(b, h) \in Tree /\ b[h].creates \subseteq Txs
    /\ MaxStops \in Nat /\ CrashPoints \subseteq ThreadPcs
    /\ FirstLocators \subseteq {NoBlock, GenesisBlock}

VARIABLES           \* and the active chain, tip, and the database's entries
    flushed,    \* the active chain as it is on disk
    queue,      \* the validation queue
    locator,    \* the database's best block
    best,       \* m_best_block_index
    synced,     \* m_synced
    pindex,     \* ThreadSync's local
    tpc,        \* where ThreadSync is; "down" when the node is
    phase,      \* how far the shutdown is; m_interrupt is set once it has begun
    astray,     \* history: the node has stopped with a locator not to be relied on
    stops       \* shutdowns and power failures so far

chainVars == <<tip, flushed>>
dbVars == <<entries, locator>>
memVars == <<best, synced>>
nodeVars == <<phase, astray, stops>>
vars == <<chainVars, queue, dbVars, memVars, pindex, tpc, nodeVars>>

Up == tpc # "down"
Interrupted == phase # "open"
Accepting == Up /\ phase # "draining"

-----------------------------------------------------------------------------
(***************************************************************************)
(* The active chain.                                                       *)
(***************************************************************************)

Event(kind, b) == [kind |-> kind, block |-> b]

\* The BlockConnected callbacks of a move from the active chain to b.
ConnectedMutant(b) ==
    LET n == Len(ForkOf(b))
    IN  [i \in 1 .. Len(b) - n |-> Event("connect", GetAncestor(b, Len(b) + 1 - i))]
Connected(b) ==
    LET n == Len(ForkOf(b))
    IN  [i \in 1 .. Len(b) - n |-> Event("connect", GetAncestor(b, n + i))]

\* A chain with more work becomes active; its blocks are announced before
\* cs_main is released.
ActivateBestChain ==
    /\ Accepting
    /\ \E b \in Tree :
          /\ Len(b) > Len(tip)
          /\ Len(queue) + Len(Connected(b)) <= MaxQueue
          /\ tip' = b
          /\ queue' = queue \o Connected(b)
    /\ UNCHANGED <<flushed, dbVars, memVars, pindex, tpc, nodeVars>>

\* InvalidateBlock disconnects the tip; the index has no callback for that.
InvalidateBlock ==
    /\ Accepting
    /\ Len(tip) > 1
    /\ tip' = Prev(tip)
    /\ UNCHANGED <<flushed, queue, dbVars, memVars, pindex, tpc, nodeVars>>

\* The chain is written to disk, and the callback for it is queued.
FlushStateToDisk ==
    /\ Accepting
    /\ flushed # tip /\ tip # NoBlock
    /\ Len(queue) < MaxQueue
    /\ flushed' = tip
    /\ queue' = Append(queue, Event("flush", tip))
    /\ UNCHANGED <<tip, dbVars, memVars, pindex, tpc, nodeVars>>

-----------------------------------------------------------------------------
(***************************************************************************)
(* Writing to the database.                                                *)
(***************************************************************************)

\* WriteBlock; the transaction of genesis is not indexed.
WriteBlock(b) ==
    entries' = [t \in Txs |-> IF Len(b) > 1 /\ t \in Header(b).creates THEN b ELSE entries[t]]

\* CommitInternal with m_best_block_index = b: GetLocator takes the tip where
\* there is no block.
Locator(b) == IF b = NoBlock THEN tip ELSE b
Commit(b) == best' = b /\ locator' = Locator(b)

\* Rewind commits the block it goes back to before anything of the new branch
\* is written.
RewindMutant(b) == best' = b /\ UNCHANGED locator
Rewind(b) == best' = b /\ locator' = b

-----------------------------------------------------------------------------
(***************************************************************************)
(* The sync thread.                                                        *)
(***************************************************************************)

NextSyncBlock ==
    LET fork == ForkOf(pindex)
    IN  IF pindex = NoBlock THEN GenesisBlock
        ELSE IF fork = tip THEN NoBlock
        ELSE GetAncestor(tip, Len(fork) + 1)

\* The next block continues another branch than the one the thread is on.
MustRewind == NextSyncBlock # NoBlock /\ Prev(NextSyncBlock) # pindex

\* Rewind's assert(current_tip == m_best_block_index) fails: the process ends.
RewindAborts == MustRewind /\ best # pindex

AtLoop == tpc \in {"first", "loop"}

\* Caught up: the callbacks take over.
SyncDoneMutant == UNCHANGED synced
SyncDone == synced' = TRUE
SyncFinish ==
    /\ AtLoop /\ ~Interrupted
    /\ NextSyncBlock = NoBlock
    /\ SyncDone
    /\ Commit(pindex)
    /\ tpc' = "done"
    /\ UNCHANGED <<chainVars, queue, entries, pindex, nodeVars>>

\* The next block is chosen.  The first time, and when the last time was long
\* ago, the block is committed as the best one.
SyncNext ==
    /\ AtLoop /\ ~Interrupted
    /\ NextSyncBlock # NoBlock
    /\ ~RewindAborts
    /\ pindex' = NextSyncBlock
    /\ \/ Commit(NextSyncBlock)
       \/ /\ tpc = "loop"
          /\ IF MustRewind THEN Rewind(Prev(NextSyncBlock)) ELSE UNCHANGED <<best, locator>>
    /\ tpc' = "write"
    /\ UNCHANGED <<chainVars, queue, entries, synced, nodeVars>>

SyncWrite ==
    /\ tpc = "write"
    /\ WriteBlock(pindex)
    /\ tpc' = "loop"
    /\ UNCHANGED <<chainVars, queue, locator, memVars, pindex, nodeVars>>

\* Shutdown was requested.
SyncInterrupted ==
    /\ AtLoop /\ Interrupted
    /\ Commit(pindex)
    /\ tpc' = "exited"
    /\ astray' = (astray \/ pindex = NoBlock)
    /\ UNCHANGED <<chainVars, queue, entries, synced, pindex, phase, stops>>

-----------------------------------------------------------------------------
(***************************************************************************)
(* The callbacks.                                                          *)
(***************************************************************************)

\* The parent of b is the best block or an ancestor of it; genesis is the first
\* block to be indexed and only that.
ConnectsMutant(b) == best = Prev(b)
Connects(b) ==
    /\ IsAncestor(Prev(b), best)
    /\ best = NoBlock <=> Len(b) = 1

Pop == queue' = Tail(queue)

IsNext(kind) == Up /\ queue # <<>> /\ Head(queue).kind = kind

BlockConnectedIgnored ==
    /\ IsNext("connect")
    /\ ~synced \/ ~Connects(Head(queue).block)
    /\ Pop
    /\ UNCHANGED <<chainVars, dbVars, memVars, pindex, tpc, nodeVars>>

\* BlockConnected up to its Rewind.
BlockConnectedRewinds ==
    /\ IsNext("connect")
    /\ synced /\ Connects(Head(queue).block)
    /\ best # Prev(Head(queue).block)
    /\ Rewind(Prev(Head(queue).block))
    /\ UNCHANGED <<chainVars, queue, entries, synced, pindex, tpc, nodeVars>>

BlockConnectedWrites ==
    /\ IsNext("connect")
    /\ synced
    /\ best = Prev(Head(queue).block)
    /\ WriteBlock(Head(queue).block)
    /\ best' = Head(queue).block
    /\ Pop
    /\ UNCHANGED <<chainVars, locator, synced, pindex, tpc, nodeVars>>

ChainStateFlushed ==
    /\ IsNext("flush")
    /\ IF synced /\ IsAncestor(Head(queue).block, best)
       THEN Commit(best) ELSE UNCHANGED <<best, locator>>
    /\ Pop
    /\ UNCHANGED <<chainVars, entries, synced, pindex, tpc, nodeVars>>

-----------------------------------------------------------------------------
(***************************************************************************)
(* The node.                                                               *)
(***************************************************************************)

\* The node is new, or the option -txindex is turned on, or on again, for a node
\* that has a chain: the index ends with genesis or does not exist yet.
Init ==
    /\ tip \in Tree \cup {NoBlock} /\ flushed = tip
    /\ queue = <<>>
    /\ entries = [t \in Txs |-> NoBlock]
    /\ locator \in IF tip = NoBlock THEN {NoBlock} ELSE FirstLocators
    /\ best = NoBlock /\ synced = FALSE /\ pindex = NoBlock
    /\ tpc = "down" /\ phase = "open"
    /\ astray = FALSE /\ stops = 0

\* Start and Init: the best block is where the locator meets the active chain.
\* The locator in the database stays as it is.
BestOnChain == IF locator = NoBlock THEN NoBlock ELSE ForkOf(locator)

\* Init looks for the best block from the tip down, for as long as the block it
\* looks at has a parent with data.  Nothing is pruned here, so it comes down to
\* genesis, which has no parent and is not looked at.
LookedAt == {GetAncestor(tip, h) : h \in 2 .. Len(tip)}
PruneViolation == BestOnChain \notin {NoBlock, tip} /\ BestOnChain \notin LookedAt

Start ==
    /\ ~Up /\ ~PruneViolation
    /\ best' = BestOnChain
    /\ pindex' = BestOnChain
    /\ synced' = (BestOnChain = tip)
    /\ tpc' = IF BestOnChain = tip THEN "done" ELSE "first"
    /\ UNCHANGED <<chainVars, queue, dbVars, nodeVars>>

\* InitError: the node does not start.
Refused == ~Up /\ PruneViolation
StartRefused == Refused /\ UNCHANGED vars

Interrupt ==
    /\ Up /\ ~Interrupted
    /\ stops < MaxStops
    /\ stops' = stops + 1
    /\ phase' = "interrupted"
    /\ UNCHANGED <<chainVars, queue, dbVars, memVars, pindex, tpc, astray>>

\* Shutdown, once nothing is left that could add a block, up to
\* FlushBackgroundCallbacks.
ShutdownFlush ==
    /\ phase = "interrupted"
    /\ phase' = "draining"
    /\ flushed' = tip
    /\ queue' = IF tip = NoBlock THEN queue ELSE Append(queue, Event("flush", tip))
    /\ UNCHANGED <<tip, dbVars, memVars, pindex, tpc, astray, stops>>

\* The locator is of a block that is not written yet, or, since Start does not
\* replace it, of a block beside the chain the callbacks have written.
LocatorUnreliable ==
    \/ tpc = "write" /\ locator = pindex
    \/ synced /\ ~IsAncestor(locator, best)

\* What is in memory is lost.
Forget ==
    /\ best' = NoBlock /\ synced' = FALSE /\ pindex' = NoBlock
    /\ tpc' = "down" /\ phase' = "open"
    /\ queue' = <<>>
    /\ astray' = (astray \/ LocatorUnreliable)

\* The callbacks are drained, the thread is joined and the process ends.
Shutdown ==
    /\ phase = "draining"
    /\ tpc \in {"done", "exited"}
    /\ queue = <<>>
    /\ Forget
    /\ UNCHANGED <<chainVars, dbVars, stops>>

Crash ==
    /\ tip' = flushed
    /\ Forget
    /\ UNCHANGED <<flushed, dbVars>>

PowerFails ==
    /\ Up
    /\ tpc \in CrashPoints
    /\ stops < MaxStops
    /\ stops' = stops + 1
    /\ Crash

SyncAborts == AtLoop /\ ~Interrupted /\ RewindAborts /\ Crash /\ UNCHANGED stops

Next ==
    \/ ActivateBestChain \/ InvalidateBlock \/ FlushStateToDisk
    \/ SyncFinish \/ SyncNext \/ SyncWrite \/ SyncInterrupted \/ SyncAborts
    \/ BlockConnectedIgnored \/ BlockConnectedRewinds \/ BlockConnectedWrites
    \/ ChainStateFlushed
    \/ Start \/ StartRefused \/ Interrupt \/ ShutdownFlush \/ Shutdown \/ PowerFails

Spec == Init /\ [][Next]_vars

\* The sync thread runs, and the scheduler runs the callbacks.
Fairness ==
    /\ WF_vars(SyncFinish \/ SyncNext \/ SyncWrite \/ SyncInterrupted \/ SyncAborts)
    /\ WF_vars(BlockConnectedIgnored \/ BlockConnectedRewinds \/ BlockConnectedWrites
               \/ ChainStateFlushed)
    /\ WF_vars(Start)
    /\ WF_vars(ShutdownFlush \/ Shutdown)

FairSpec == Spec /\ Fairness

-----------------------------------------------------------------------------
(***************************************************************************)
(* Properties.                                                             *)
(***************************************************************************)

\* Every variable has its type; what the sync thread writes is a block, and it
\* ends by itself only when the index is synced.
TypeOK ==
    /\ \A i \in 1 .. Len(queue) : queue[i].kind \in {"connect", "flush"} /\ queue[i].block \in Tree
    /\ entries \in [Txs -> Tree \cup {NoBlock}]
    /\ {tip, flushed, locator, best, pindex} \subseteq Tree \cup {NoBlock}
    /\ synced \in BOOLEAN /\ phase \in Phases /\ astray \in BOOLEAN
    /\ tpc \in ThreadPcs
    /\ stops \in 0 .. MaxStops
    /\ tpc \in {"write", "loop"} => pindex # NoBlock
    /\ tpc = "done" => synced

\* The transactions of b's chain are mapped to their blocks on that chain.
Exact(b) ==
    \A h \in 2 .. Len(b) : \A t \in b[h].creates : entries[t] = GetAncestor(b, h)

\* m_best_block_index is "the last block in the chain that the index is in sync
\* with": once m_synced is set, every transaction of the best block's chain is
\* mapped to its block there, whatever was connected, disconnected, delivered
\* late or lost in a crash since.
IndexInSync == synced => Exact(best)

\* The same as long as the node has never stopped with a locator that is not to
\* be relied on: one committed for a block not yet written (ThreadSync), with no
\* block at all (ThreadSync again), or one that is beside the chain the callbacks
\* have written since (Init).  Nothing else puts the index out of step.
SoundLocatorKeepsSync == ~astray => IndexInSync

\* What BlockUntilSyncedToCurrentChain relies on: when the index has caught up
\* once and the queue is drained, it has the whole active chain.
DrainedIndexCoversChain == synced /\ queue = <<>> => IsAncestor(tip, best)

\* The FatalError of BlockConnected, "First block connected is not the genesis
\* block", is never met: an index without a best block gets genesis first.
FirstConnectedIsGenesis ==
    IsNext("connect") /\ synced /\ best = NoBlock => Head(queue).block = GenesisBlock

\* The index is well formed, and its first block is genesis.
IndexConsistent == TypeOK /\ FirstConnectedIsGenesis

\* The assert of Rewind holds: the sync thread goes back only from the block it
\* has recorded as the best one.
RewindFromBest == AtLoop /\ ~Interrupted => ~RewindAborts

\* Once the chain stays as it is, the index comes to cover it, whatever is still
\* queued and wherever the thread is, unless the node no longer starts with it.
IndexCatchesUp == <>[][FALSE]_tip => <>[](Refused \/ (synced /\ IsAncestor(tip, best)))

\* Init refuses to start because the "best block of the index goes beyond pruned
\* data"; where nothing is pruned, as here, it never does.
NeverRefused == ~Refused
=============================================================================
