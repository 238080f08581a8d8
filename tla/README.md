# Reddcoin: a TLA+ model of the staking node

This directory models parts of the Reddcoin node (`src/src`, a Bitcoin Core 22
node with Proof-of-Stake-Velocity) in TLA+, checks them with TLC on small
instances, and proves the main results with TLAPS for instances of any size.
Paths below are relative to `src/src`. The property, action and lemma names in
this file are definitions of the modules; `PROJECT.json` maps every definition
that models code to the lines it stands for.

## The system and its parts

| part | code | module |
|---|---|---|
| stake manager, staking threads, `setstaking`/`staking` RPCs | `staker.cpp`, `rpc/mining.cpp`, `miner.cpp` (`PoSMiner`) | `Staker` |
| wallet registry: load, unload, release of the last reference | `wallet/wallet.cpp`, `wallet/load.cpp` | `Staker` |
| start and shutdown order | `init.cpp`, `httpserver.cpp` | `Staker` |
| block tree and active chain | `chain.h`, `chain.cpp` | `BlockTree` |
| stake modifiers, modifier cache | `pos/kernel.cpp`, `pos/modifiercache.cpp`, `validation.cpp` (`AcceptBlock`) | `StakeModifier` |
| transaction index: sync thread, callbacks, start, shutdown, crash | `index/base.cpp`, `index/txindex.cpp`, `validationinterface.cpp` | `TxIndex` |
| source of a staked coin | `pos/kernel.cpp` (`GetKernelSource`), `node/transaction.cpp` | `CoinLookup`, `KernelSource` |
| staking pass: candidates, kernel search, block, submission; the wallet's view of its coins | `wallet/staking.cpp`, `miner.cpp`, `wallet/wallet.cpp` | `StakingPass` (with `CoinLookup`) |
| choice of the active chain, `invalidateblock`, `reconsiderblock`, `preciousblock` | `validation.cpp` | `Chainstate` |
| layered coin caches | `coins.cpp`, `coins.h` | `CoinsCache`, which refines `UtxoSet` |
| block files, block index and coins on disk; crash and replay | `validation.cpp`, `node/blockstorage.cpp`, `txdb.cpp` | `CoinsFlush` |
| transaction requests to peers | `txrequest.cpp`, `net_processing.cpp` | `TxRequest`, which refines `TxAnnouncements` |
| everything else | | see "Not modelled" |

How they interact: RPC calls on HTTP worker threads start and stop one staking
thread per wallet through `CStakeman`. A staking thread searches the wallet's
coins for a kernel on the tip, builds a block and hands it to validation.
Validation (under `cs_main`) computes a stake modifier for every block it
accepts and checks the kernel of a proof-of-stake block against the modifier
that `GetKernelStakeModifier` picks; the coin that is staked is looked up in the
transaction index, which follows the active chain through the callbacks of the
validation queue, as the wallet does. Validation works on coins through caches
that are written to disk together with the block index; peers are asked for
transactions by the message thread, which holds `cs_main` too. Unloading a
wallet and shutting the node down both have to wait for the staking threads.

Each of these is a module of its own, with the others' part in it reduced to what
it needs. Where they meet: `StakingPass` and `TxIndex` both extend `CoinLookup`,
the validator's look-up of a kernel's source, and `StakingPass` repeats
`TxIndex`'s callbacks for an index that has caught up; `CoinsFlush` has one set of coins in memory, which is what
`CoinsCache` is shown to amount to; `Staker` has the life of a thread whose
passes are `StakingPass`.

## Module `Staker`

State: the loaded wallets (`loaded`), the `CWallet`s that exist (`object`) and
their flags (`unloading`, `enable`), the unloading set, the manager's map from
wallet to thread (`stakers`), its switch (`active`) and its mutex when it is
held across steps (`lock`), for every staking thread its position, wallet,
interrupt flag and slot on `NotifyUnload`, for every caller (HTTP worker or
main thread) the operation it is in with its `shared_ptr`s (`refs`) and the
threads it is about to join (`join`), and how far start or shutdown has come
(`phase`).

An action is what the code does between two points where another thread can
interfere: `AddCheckActive`, `AddGetWallet`, `AddNew`, `AddReap`, `AddReplace`
are `StakeWalletAdd`; `StopThreads`, `InterruptTaken`, `JoinTaken` are
`CStakeman::StopThreads`; `UnloadGet` to `UnloadWait` are `unloadwallet`;
`ThreadConnect`, `ThreadCheckUnloading`, `MinerInit`, `MinerLoop`,
`MinerPassRests`, `MinerPassFails`, `MinerSleep`, `ThreadReturn`,
`ThreadRelease`, `ThreadErase` are a staking thread; `Boot`,
`RequestShutdown`, `InterruptHTTPServer` to `UnloadWallets` are the node.

Abstractions: a staking pass is reduced to whether it waits for the validation
queue, sleeps, loops or ends. `InitWallets` is one step, and the references it
takes and drops inside it are not seen by others. A joined `std::thread` is
reused for the next one. `UnloadWallets` takes the wallets in any order.
Loading a wallet succeeds in one step.

| run | shows |
|---|---|
| `staker_safety` | `setstaking`, `loadwallet`, `unloadwallet` on two workers, three threads, one wallet: `EveryThreadReachable` (a started thread always has exactly one owner that can stop it), `SubscribersHaveWallet` (no slot of a deleted wallet), `NoThreadOutlivesManager` |
| `staker_liveness` | `UnloadReturns`, `ShutdownCompletes`, `DisabledWalletStops` |
| `staker_sequential` | with calls that do not overlap and two wallets: `OneThreadPerWallet`, `EnabledWalletHasStaker`, `UnloadMarksOnce` |
| `staker_loststart` | violation: two `setstaking` calls that overlap leave an enabled wallet without a thread |

Bounds: two workers are enough for any two calls to overlap. The safety run
leaves out the node's `staking` switch, which the liveness and sequential runs
have: with all four requests on two workers the instance has more than two
million states. The theorems below cover the switch against everything else.
Three threads let a wallet's thread be replaced twice while the first one is
still ending. The sequential run has a wallet that can stake and one that cannot.

`UnloadMarksOnce`, which is `assert(it.second)` in `UnloadWallet`, holds when
calls do not overlap. When they do, it does not: `ReleaseWallet` deletes the
`CWallet` before it erases the name, and a wallet of that name can be loaded and
unloaded again in between (the constants of `staker_loststart` with
`UnloadMarksOnce` as the invariant show it).

Fairness (`FairSpec`): every thread of the process is scheduled, so a caller
finishes the call it has begun, a staking thread goes on and the main thread
shuts down once asked; nobody is obliged to make a call. Strong fairness is
assumed for taking the mutex, and for a staking pass that does not fail to
sign forever.

Proved for all sets of wallets, workers and threads:

* `TypeCorrect`. The inductive form `Typing` adds what a call's record holds at
  each position.
* `ThreadsReachable` (`EveryThreadReachable`). The inductive form `Reach` says
  that map entries and join lists never share a thread, that every started
  thread is in one of them, and that the entry a `StakeWalletAdd` is replacing
  stays in place while it joins: it is this last part that makes releasing and
  re-entering sound.
* `SlotsHaveWallets` (`SubscribersHaveWallet`). `Refs`: whoever holds a
  reference holds it to an existing wallet, and a slot is connected only while
  its thread holds one.
* `ManagerOutlivesThreads` (`NoThreadOutlivesManager`). `Manager`: once the
  HTTP workers are joined only the main thread makes calls, it starts no
  thread, and its first `Stop()` empties the map for good.

Proved of `SerialSpec`, in which a request is made only when no operation is
under way and the node is up (`SerialInv`: at most one caller is busy):

* `OneStakerEach` (`OneThreadPerWallet`). `OnePerWallet` is stronger than the
  property: it also counts threads that have not reached the staking loop or
  have left it. A `StakeWalletAdd` that finds no entry starts a thread; any other
  thread of the wallet would be in the join list of a caller, and the only busy
  caller has none.
* `EnabledHasStaker` (`EnabledWalletHasStaker`). `Launching`: a wallet that is
  loaded, enabled, able to stake and without an entry while the switch is on is
  one that the call under way will still come to (`Ahead`); entries are taken
  out only with the switch off or the wallet disabled (`FlagsOK`).
* `MarkedOnce` (`UnloadMarksOnce`). `Marked`: a name in the unloading set belongs
  to an `UnloadWallet` that is still waiting.

## Modules `BlockTree` and `StakeModifier`

A block is the sequence of headers from genesis to it, because its hash
commits to its ancestry: `pprev` drops the last header and `GetAncestor` is a
prefix. Heights therefore start at 1. `StakeModifier` keeps the index of
accepted blocks with their modifiers, the tip, the cache and its lookup count.

`AcceptWork`, `AcceptStake` and `RejectStake` are `AcceptBlock` (a block whose
kernel fails is not stored but has used the cache); `SearchKernel` is a kernel
check of the staker on the tip; `ActivateBestChain` moves the tip; `Restart`
keeps any ancestor-closed part of the index and empties the cache; `Reindex`
accepts genesis again, through `AcceptBlock`, where a first start adds it
without computing a modifier.

Abstractions: chain work (the tip may move to any known block), which coin a
block stakes and whether its hash meets the target are free choices. Entries
for headers without transactions are left out, since a block is accepted only
on a parent with valid transactions. A header repeated on one chain is
excluded: its hash would be that of its own ancestor.

| run | shows |
|---|---|
| `stakemodifier_chain` | `KernelModifierOfChain`: cache and active chain never change the modifier a kernel is given. `ModifierReproducible`: computing any block's modifier again gives the stored one |

Bounds: chains of up to 5 blocks and 6 blocks in all allow two branches with
different modifiers for the same coin and a reorganisation between them;
modifier interval 2 and 3 rounds give generated and inherited modifiers; the
cache is flushed after 2 lookups.

Proved for every set of headers, interval, number of rounds and flush limit:
`CacheTransparent` (`KernelModifierOfChain`) from `Sound`: the index has every
ancestor of its blocks (`Tree`) and a cache entry is the first eligible block
on the path from the coin's block to the entry's own block (`CacheOK`), so it
answers for every chain through that block; and `ModifierIsFunctionOfChain`
(`ModifierReproducible`): a modifier reads index entries of ancestors only,
and these do not change while the index grows. The facts about ancestors
(`SharedPath`, `ChildPath` and others) are lemmas about sequences of any length.
`ModifierTypes` (`TypeOK`): a modifier has no more bits than there are rounds,
and a cache entry is for two blocks of the index. Each round of the selection
takes a block that is left, because the blocks of a chain have different hashes
(an invariant, from the guard that excludes a repeated header) and so are ordered
by rank, time and hash, and sets one bit more (`Bit`). The constants are assumed
to be numbers as in the code, the selection hash included.

## Modules `CoinLookup`, `TxIndex` and `KernelSource`

`TxIndex` has the active chain and its last flush, the validation queue, the
index's database (`entries`, `locator`) and its memory (`best`, `synced`), the
sync thread (`pindex`, `tpc`) and how far the node is with shutting down.
`SyncFinish`, `SyncNext`, `SyncWrite`, `SyncInterrupted`, `SyncAborts` are one
turn of `ThreadSync`; `BlockConnectedIgnored`, `BlockConnectedRewinds`,
`BlockConnectedWrites`, `ChainStateFlushed` are the callbacks; `Start` is
`Start` with `Init`, and `StartRefused` the error it ends the start with;
`Interrupt`, `ShutdownFlush`, `Shutdown` are the node's.
`PowerFails` loses memory and the part of the chain that was not flushed; a
failed assertion (`SyncAborts`) does the same.

Abstractions: a locator is the block it was made for (its first ten entries
are that block's ancestors one by one). A move of the active chain and its
callbacks are one step, as `cs_main` is held; the mark that keeps an
invalidated block from being activated is left out, since `reconsiderblock`
removes it. Database errors are left out. Nothing is pruned, but `Init` looks for
pruned blocks all the same, from the tip down to the block of the locator; the
loop (`index/base.cpp:93`) ends at the block after genesis, so that a locator of
genesis below a longer chain is never reached and taken for a sign of pruning
(`PruneViolation`). The node does not start then, and nothing it does later
changes that: `Refused`. `SyncFinish` is one step
though callbacks do not take `cs_main`: a callback in the middle of it can only
move `m_best_block_index` forward, or back through `Rewind`, whose commit has
to wait.

`CoinLookup` has no steps: `GetKernelSource(prev, c, time, indexed)` is a
function of the active chain and the index's entries. `KernelSource` says what
it finds: its properties quantify over every block, coin and time, with and
without an index, in every state of `TxIndex`. One instance, `MCKernelSource`,
therefore serves both.

The history variable `astray` records that the node stopped while the locator
on disk was not to be relied on (`LocatorUnreliable`). There are three ways:
power fails between the commit of a block and its writing; the first sync is
interrupted before genesis and commits the tip; a locator beside the chain
survives a start whose fork point is the tip. `SoundLocatorKeepsSync` says that
there is no other. The first is what `MCKernelSource_midwrite.cfg` shows; the
second appears with the same invariant and constants when `CrashPoints` is
empty; the third takes two power failures of a synced index.

| run | shows |
|---|---|
| `index_safety` | `SoundLocatorKeepsSync`, `DrainedIndexCoversChain` (what `BlockUntilSyncedToCurrentChain` relies on), `IndexConsistent` (types, and `FirstConnectedIsGenesis`, a `FatalError` that is never met) |
| `index_use` | `IndexCatchesUp`: once the chain rests the index reaches its tip, unless the start is refused for a locator of genesis, which a first sync that stops early leaves behind; in every state on the way `SourceOnOwnChain`, with and without an index, and `SourceFoundWhenSynced` |

Bounds: two branches leave after the block that creates the first coin and
spend it in the same transaction at different heights, the second branch being
longer, so that entries are overwritten in both directions; two callbacks
waiting, which is a reorganisation of two blocks; two stops
at any point in `index_safety`, so that a crash can follow a restart that was
itself after a crash, and one in `index_use`. The first start is on a new node
or on any chain, with a new index; `index_safety` also begins with an index
that has only genesis. In `index_use` such an index comes about by the first
commit of the sync thread, and is what a start may then be refused for.

Fairness: the sync thread and the scheduler run, the node is started again
after it has stopped, and a shutdown that has begun is carried out.

Proved for every tree of blocks, any transactions, minimum age and times, and
any number of callbacks waiting and of stops, in `TxIndexProof`:

* `IndexCovers` (`DrainedIndexCoversChain`). `InTurn`: each waiting callback
  for a connected block leads to the tip or is followed by one that goes on
  from it or from an ancestor of it. `Covered`: a synced index has the tip's
  chain or a waiting callback connects to it. A callback that is ignored is
  then never the one that is needed, and one that writes hands over to the next.
* `IndexSound` (`SoundLocatorKeepsSync`). `OnDisk`: wherever the sync thread
  is, the entries are exact for the block it goes on from, and for the locator
  wherever a stop may rely on it. Writing a block keeps the entries of its own
  chain because a chain has a transaction once.
* `IndexWellFormed` (`IndexConsistent`): only the first waiting callback may be
  for genesis.
* `SourceIsOwn` (`SourceOnOwnChain`) and `SourceIsFound`
  (`SourceFoundWhenSynced`), from the same invariant: an entry is for a block
  that has the transaction (`EntriesTrue`), so that one at or below the fork is
  the block of the staking block's own chain.

The assumptions are on the tree: it has the ancestors of its blocks, all start
with genesis, and a chain creates a coin once, at or before the block that
spends it.

## Module `StakingPass`

One staking thread, from `blockUntilSynced` to the submission of a block, and
what changes under it. `tip`, `invalid` and `mempool` are validation's;
`queue` is the validation queue; `entries` is the transaction index and
`walletTip`, `walletTxs`, `conflict`, `walletStakes` the wallet's view, both of
which follow the queue, the index first because it registered first;
`candidates`, `todo`, `seen`, `kernel` and `template` are the thread's own.

`BlockUntilSynced`, `CollectStakeCandidates`, `ReadBits`, `SearchStart`,
`SearchCoin`, `SearchKernel`, `NothingFound`, `BuildRefused`,
`CoinStakeTooEarly`, `CreateNewBlock`, `IncrementExtraNonce`,
`ProcessBlockFound`, `ProcessNewBlock` and `Rest` are the thread, each what it
does under one hold of the locks. `SearchStakeKernel` takes `cs_main` twice for
a coin: `SearchCoin` looks its block up in the UTXO set, and `SearchKernel`
computes the hash on what is the tip by then.
`ActivateBestChain`, `InvalidateBlock` and `TransactionAddedToMempool` are
other peers' and operators' doing, `CommitTransaction` is the wallet's user;
`IndexConnected`, `WalletNotified` and `QueueDrained` are the callbacks.

Abstractions: there are no amounts, so no reserve balance, and a reward is
always positive; signing succeeds (`Staker` has the failure); the time slots of
the search are left out. `CheckStakeKernelHash` is `Meets`: the source is on the
chain of the parent, without which there is no modifier
(`GetKernelStakeModifier`), and the hash, a parameter that depends on the coin,
its source and the parent, is at most the target; `StakeModifier` has the
modifier itself. A coin is spent by at most one ordinary transaction; the outputs of a
coinstake are not followed, as they stay immature; transactions that are not in
a block or in the mempool do not offer coins; the index has caught up once and
is not stopped; one block of the network is invalidated; block times are left
out, and no coin is too young to be staked. A thread starts with a wallet that
knows the transactions and the coinstakes of the active chain and no others
(`postInitProcess` abandons orphaned coinstakes).

| run | shows |
|---|---|
| `staking_pass` | `BuiltBlockValid`: whatever changed since the kernel was found, a block that is put together passes `TestBlockValidity`. `SubmittedBlockAccepted`: it is accepted when submitted, also on a tip that was left: the kernel was checked against the block the coin is from on the parent's own chain. `OrphanedStakesReturned`: a disconnected coinstake gives its coins back. `SpentCoinCostsOnePass`, `StakesWhenQuiet`: no refused kernel or missed event keeps the thread from a coin it could stake |

Two of these have an exception in their statement, and both are reached by the
code: a transaction that spends the staked coin and of which the wallet is still
to be told, be it of another wallet with the same keys or one that a
disconnected block has given back to the mempool (`MCStakingPass_rejected.cfg`
below); and an index that is behind, when the tip leaves the template's parent
and comes back to it before the block is submitted.

Bounds: a minted coin that matures and one that is created on both branches at
different heights and spent on one of them; a target that a coin meets after
one branch and not after the other; three events waiting. Fairness: the
thread and the scheduler run and an `InvalidateBlock` that has begun ends;
nobody is obliged to bring blocks or transactions, and `StakesWhenQuiet` speaks
of the states that last. The run does not check deadlock: the thread may end,
which is what `pc = "dead"` stands for.

Proved for every tree of blocks, any coins, hashes and maturity and any number
of events waiting, in `StakingPassProof`: `PassTypes` (`TypeOK`), `PassBuilds`
(`BuiltBlockValid`), `PassSubmits` (`SubmittedBlockAccepted`), `PassReturns`
(`OrphanedStakesReturned`) and `PassCostsOne` (`SpentCoinCostsOnePass`). All rest
on `IndInv`, whose first half, `NodeInv`, says what the waiting events lead to:

* `WalletInv`: replayed from `walletTip`, they end at `tip` (`Leads`), and the
  wallet has the stakes of the chain it is at. `MovesIs` shows that what a move of
  the active chain puts into the queue leads from the old tip to the new one, and
  `LeadsConcat` and `LeadsHead` that such ways can be joined and begun.
* `MempoolInv`: the wallet knows of every transaction in the mempool that spends
  one of its coins and counts it as live, or an event that tells it is waiting and
  no block that would put it in conflict comes after (`Last`). A coin the wallet
  offers for a block is then not spent in the mempool, unless it is in `Unheard`.
* `IndexInv`: for every coin of the active chain the index has the block that
  created it, or the last waiting event that changes its entry writes that block.
  Once no block is left to write, `GetKernelSource` finds the coin through the
  index up to the fork, and by the search above it (`SourceFound`).

The second half, `PassInv`, is about the thread: what it examines is what it
collected, without the coins refused since (`SearchInv`); it has a kernel, or a
template that spends what can be spent on its parent, exactly where it needs one
(`KernelInv`, `TemplateInv`); the source of the template's kernel creates the coin
and, by the ancestor check, is on the parent's chain, where a coin is created
once: it is the block that validation will find (`CreatedOn`); and at most one marker is in the queue, while it
waits for it (`MarkerInv`).

The assumptions are on the tree, which has the ancestors of its blocks, and on its
chains: a coin is created once and spent once, a coinstake's inputs are inputs of
its block (`ValidChain`), and a coin older than `nStakeMaxAge` is mature.

## Module `Chainstate`

The block index (`known`, `data`, `scripts`, the two failure flags), the
candidates with their order (`sequence`, `counters`), `m_failed_blocks`, the
tip, and the two locks. Two threads make calls. `ProcessHeader`, `StoreBlock`,
`IgnoreBlock` and `RefuseBlock` are `AcceptBlockHeader` and `AcceptBlock`;
`LockChainstate` to `Again` are `ActivateBestChain`, cut where it takes and
releases `cs_main` and at every change inside `ActivateBestChainStep`;
`InvalidateBlock`, `InvalidateTip` and `MarkFailed` are `InvalidateBlock`, which
releases `cs_main` after each block; `ReconsiderBlock`, `PreciousBlock` and
`Restart` are single steps. The order of candidates is the code's, by work,
sequence number and address (`Before`).

Abstractions: work is height; whether `ConnectBlock` accepts a block is fixed by
the constants `Good` and `Malformed`; no pruning, no snapshots, no mempool. The
run calls `reconsiderblock` only for blocks without a failed ancestor
(`AnyFailed = FALSE`); the other case is `MCChainstate_reconsider.cfg`. It calls
`preciousblock` for the tip only where that does not raise the tip's own sequence
number (`AnyPrecious = FALSE`); the other case is `MCChainstate_precious.cfg`.

| run | shows |
|---|---|
| `chainstate` | `TipIsBest`: when every call has returned, the tip is the best chain not found invalid. `ChainNotFailed`: nobody sees a failed block in the active chain. `BlockIndexConsistent`: what `CheckBlockIndex` and `AcceptBlockHeader` assert. `UnlockedWithProgress`: a failed reorganisation is never seen half done. `CallsReturn` |

Bounds: two branches of two and three blocks, the longer with a block that fails
in the middle of the reorganisation and one that is refused on arrival; two
calls of an operator or restarts in all, on two threads, so that any two of them
interleave; the distance to the target at which a step breaks off early, 16
blocks in the code, is 0, so that one activation takes several rounds. Fairness: a thread that can go on does.

Proved for every finite or infinite tree of blocks in which every set of blocks
has one whose parent is outside it, any threads, any number of calls and any
early break, in `ChainstateProof`:

* `NoFailedBlockInChain` (`ChainNotFailed`), whatever the operator calls. The
  inductive invariant `SafeInv` has a part for each place a thread can be in:
  `LocksInv` (who is inside which section holds its locks), `IndexInv` (every
  block's parent is known, the tip has its data and no flag, a child flag is
  below a flagged block), `WalkInv` (where the disconnecting loop of
  `InvalidateBlock` is and what it has put aside), `StartInv` and `MostInv` (the
  old tip and the target that `ActivateBestChain` carries across its steps stay
  sound) and `CandidatesAbove` (no candidate is worse than the tip).
* `ActiveChainIsBest` (`TipIsBest`), `IndexConsistent` (`BlockIndexConsistent`)
  and `ForwardProgress` (`UnlockedWithProgress`), when `AnyFailed` and
  `AnyPrecious` are both `FALSE`. `ChoiceInv` adds what goes the other way: every
  block that is not worse than the tip, has its data and no flag is a candidate
  (`CandidatesAll`), a flag has a reason (`Blamed`), what `ActivateBestChainStep`
  has disconnected is still a candidate to fall back on (`BackInv`), and either
  the tip or the target is the best, or a thread is on its way to
  `ActivateBestChain` (`BestInv`).

The two conditions are needed: without either one `TipIsBest` is false, as the
two configurations show. The proof found the second one; with the two calls of
the run it cannot be seen.

## Modules `UtxoSet` and `CoinsCache`

`UtxoSet` is three plain maps from outpoints to coins with their best blocks: on
disk, of the chainstate, and of a copy on which a block is worked. `CoinsCache`
is the code: the database, the tip cache over it and a temporary view over that,
with entries that carry DIRTY and FRESH. `Fetched`, `Added`, `Cleared` and
`Written` are `FetchCoin`, `AddCoin`, `SpendCoin` and the loop of `BatchWrite`
for one entry.

`AddCoin` is called without `possible_overwrite` only for a coin the view does
not have: `ConnectBlock` and `DisconnectBlock` see to that, and the model has
it as a guard. With that discipline nothing throws.

| run | shows |
|---|---|
| `coins_cache` | `CachesConsistent`: the flags are among the combinations that `coins.h` lists, tell the truth about the level below, and `BatchWrite` does not throw. `ImplementsUtxoSet`: the refinement |

Bounds: two outpoints, coins and blocks, without a bound on the calls.

Proved for any outpoints, coins and blocks: `CachesSound` (`CachesConsistent`)
and `CachesImplementUtxoSet` (`ImplementsUtxoSet`). The inductive invariant
`IInv` says of each entry at each level what its flags mean (`Sound`); it is
inductive because writing a level into the one below composes two true
statements. The refinement mapping reads a level through all those below it.

## Module `CoinsFlush`

What is written where: block and undo files with the part that is synced, the
block index in memory and on disk, the coins in memory, in the database and in
the part of it that survives a power failure. `FlushBlockFile`,
`WriteBlockIndex`, `WritePartialBatch` and `WriteFinalBatch` are
`FlushStateToDisk` in its order; `AcceptBlock` changes files as `FindBlockPos`
does; `ConnectTip` and `DisconnectTip` work through transactions and undo data;
`Writeback` is the system writing a file on its own; `Crash` keeps what was
written and `PowerFailure` what was synced; `Start` loads the index and runs
`ReplayBlocks`.

Abstractions: coins are outpoints; file size is a number of blocks; every write
to the block index database is synced, as the code asks for it; a partial batch
writes any part of what is pending. A write that fails (a full or a broken disk)
is outside the fault model: the code stops the node on it.

`FailsOnlyOnLostUndo` excuses a start that fails because undo data was lost with
the power; that this can be lost at all is what `MCCoinsFlush_undo.cfg` shows.

| run | shows |
|---|---|
| `coins_flush` | `CoinsOfTip`: whenever the node runs, its coins are those of its tip, up to empty outputs of proof-of-stake coinbases. `WrittenInOrder`: the index names only synced blocks, the coins only indexed ones. `FailsOnlyOnLostUndo`. `ReplayKeepsTarget`: the assertion in `CCoinsViewDB::BatchWrite` |

Bounds: two branches over a common block that spend its output in the same
transaction, so that outpoints are created and spent on both; three blocks per
file; two stops, so that a replay is cut off and replayed. Deadlock is not
checked: a node that cannot start stays down.

Proved for any tree of valid blocks, file size and number of stops, in
`CoinsFlushProof`:

* `FlushOrdered` (`WrittenInOrder`) and `ReplayTarget` (`ReplayKeepsTarget`).
  `FilesInv`: a block outside the current file is synced, which is why syncing
  the current file is enough; `CoinsInv`: the mark of an unfinished write stands
  only while coins are written and while the node is down.
* `Typed` (`TypeOK`) and `CoinsRight` (`CoinsOfTip`). `GoodInv`: the coins of the
  running node, and of a database without the mark, are those of their block,
  with empty outputs besides that the block's chain has not spent (`Good`); a
  database with the mark has every coin that both of its blocks have and none
  that neither has (`Mixed`). `DisconnectBounds` and `ConnectBounds` say of one
  outpoint what undoing or applying a block does wherever it was undone or
  applied already, which gives `MixedSteps` for a block and `ReplayGood` for the
  whole replay.
* `OnlyLostUndoFails` (`FailsOnlyOnLostUndo`). `UndoInv`: the index has undo data
  for every block of the tip's chain and of the chains the databases name, and
  what only the index in memory has is in the files. `GoodIsClean`: the tip
  always disconnects cleanly.

The assumptions are on the blocks. `FlushAssumption`: every set of blocks has one
whose parent is outside it, genesis has no coins, and a block of proof of stake
begins with a coinbase. `ValidBlocks`: a transaction spends coins its chain has
and creates new ones, and what a proof-of-stake coinbase creates was not spent
before, as a coinbase starts with its height. `ReplayBlocks` and the loops over
transactions are recursive functions; that they exist is the lemma `Recursion`.

## Modules `TxAnnouncements` and `TxRequest`

`TxAnnouncements` is what the head of `txrequest.h` promises for one
transaction: it is asked of the best peer that may be asked, of none while a
request is outstanding, never twice of one peer, and failed peers are forgotten
when no other is left. `TxRequest` is the tracker: the substates of a candidate,
the loop of `SetTimePoint` one announcement at a time (`Promote`, `Expire`,
`Demote`), and the callers in `net_processing.cpp` (`ReceivedInv`, `ReceivedTx`,
`ReceivedOrphan`, `ReceivedNotFound`, `ReceivedKnownTx`, `SendMessages`,
`RequestedTx`, `DisconnectedPeer`, `ForgetTxHash`), with time that passes and a
clock that is set back.

Abstractions: a transaction has one hash; peers with the relay permission are
left out; sequence numbers, which order the requests within one message, are
left out; `m_peerinfo`'s counts are computed from the index; `RequestedTx` is
called for best candidates only, as its caller does; a peer that connects again
is a new one. `SetTimePoint` does not depend on the peer, so the peer is named
when its requests are collected. Times are relative to the clock, and one that
is long past is kept no further back than the clock may still be set
(`MaxUpsets`).

| run | shows |
|---|---|
| `txrequest` | `TrackerConsistent`: `SanityCheck`, in the middle of `SetTimePoint` too. `ImplementsAnnouncements`: the refinement, for every transaction. `HonestPeerServed`: a transaction that an honest peer announced is received in the end |

Bounds: an honest peer that two others outrank, a parent that comes as an
announcement or with an orphan, one request and one announcement at the limit,
one departure, lost transaction or setback of the clock. With one announcement
per peer the delay for an overloaded peer is not reached; the theorems have
every delay. Fairness: the message thread serves each peer, time passes, and an
honest peer answers, early or late.

Proved for any transactions, peers, priorities and delays: `TrackerSound`
(`TrackerConsistent`, which is inductive as it stands) and `TrackerImplements`
(`ImplementsAnnouncements`). The lemmas say what each function of the tracker
does to a sane row of announcements.

## Where the code and its documentation differ

`staker_loststart` is the one listed run that ends in a violation: two
`setstaking` calls that overlap leave a wallet enabled without a thread. Twelve
more configurations each end in a violation of the one property they name; they
are kept for the reader to run (`tlc -config <cfg> <module>`) and are not among
the runs of `PROJECT.json`.

| configuration | property | what the code does, and what is said of it |
|---|---|---|
| `MCStaker_overlap.cfg` | `OneThreadPerWallet` | `StakeWalletRemove` (`staker.cpp:273`) erases the entry of a thread that still runs, and an overlapping `StakeWalletAdd` starts another. "One staking thread per wallet." (`staker.h:73`) |
| `MCStakeModifier_selection.cfg` | `SelectionFollowsProofHash` | the hash at `pos/kernel.cpp:149` is the same for every candidate. "compute the selection hash by hashing its proof-hash and the previous proof-of-stake modifier" (`pos/kernel.cpp:146`) |
| `MCKernelSource_midwrite.cfg` | `IndexInSync` | `index/base.cpp:168` commits a block before it is written; after a power failure between the two it never is. "The last block in the chain that the index is in sync with." (`index/base.h:57`) |
| `MCKernelSource_refused.cfg` | `NeverRefused` | the loop at `index/base.cpp:93` ends before it compares genesis: an index that was stopped when it had committed nothing but genesis keeps the node from starting, though nothing is pruned. "check backwards from the tip if we have all block data until we reach the indexes bestblock" (`index/base.cpp:92`) |
| `MCKernelSource_rewind.cfg` | `RewindFromBest` | a reorganisation between two commits of the sync thread makes `assert(current_tip == m_best_block_index)` fail (`index/base.cpp:213`) |
| `MCKernelSource_lag.cfg` | `SourceFound` | a stale index entry hides a coin that is unspent on the active chain (`pos/kernel.cpp:467`). "The txindex and the UTXO set describe the active chain" (`pos/kernel.cpp:446`) |
| `MCChainstate_reconsider.cfg` | `TipIsBest` | `ResetBlockFailureFlags` clears the flags of ancestors (`validation.cpp:3073`) and makes neither them nor their other descendants candidates. "Removes invalidity status of a block, its ancestors and its descendants, reconsider them for activation." (`rpc/blockchain.cpp:1831`) |
| `MCChainstate_precious.cfg` | `TipIsBest` | `preciousblock` of the tip when its work is above that of the last preferred block starts again at sequence number -1 (`validation.cpp:2889`), which can be more than the tip had; a block that ties with the tip then beats it, but is no longer a candidate. "Treats a block as if it were received before others with the same work." (`rpc/blockchain.cpp:1750`) |
| `MCChainstate_flags.cfg` | `OnlyLastFailedValid` | two blocks that are disconnected in turn are both left as `BLOCK_FAILED_VALID` (`validation.cpp:2987`). "We only want to mark the last disconnected block as BLOCK_FAILED_VALID" (`validation.cpp:2988`) |
| `MCCoinsFlush_leftover.cfg` | `CoinsFunctionOfChain` | disconnecting a proof-of-stake block leaves its coinbase's empty output (`validation.cpp:1611`). "Undo the effects of this block (with given index) on the UTXO set represented by coins." (`validation.cpp:1592`) |
| `MCCoinsFlush_undo.cfg` | `IndexedUndoOnDisk` | only the current file is flushed (`node/blockstorage.cpp:178`), while undo data may be in an older one. "First make sure all block and undo data is flushed to disk." (`validation.cpp:2265`) |
| `MCStakingPass_rejected.cfg` | `NeverRejected` | the tip moves to a block with a transaction that spends the staked coin, and the block is invalidated before the coinstake is built. The transaction is in the mempool again and the wallet has not been told of it; the block that is built has both, `TestBlockValidity` fails and the exception (`miner.cpp:290`) ends the thread. "Anything that changed since costs this pass, never a block the node would reject." (`wallet/staking.cpp:440`) |

## Only model-checked

Liveness, under the fairness given with each run, is out of the prover's reach:
`UnloadReturns`, `ShutdownCompletes`, `DisabledWalletStops`, `IndexCatchesUp`,
`StakesWhenQuiet`, `CallsReturn` and `HonestPeerServed` are checked by TLC and
not proved. Every invariant and every action property of the runs that pass is
a theorem, and so are the two refinements.

## Not modelled

* Pruning, assumeutxo snapshots and `-loadblock`: they change what data a block
  of the index has, and with it `m_blocks_unlinked`, which is empty in
  `Chainstate`.
* The mempool's bookkeeping: sums of sizes and fees over graphs of
  transactions, sequential under one lock and compared with a recomputation by
  `CTxMemPool::check`. `StakingPass` has a mempool of coins spent.
* Header and block download: `net_processing.cpp` decides by timers, scores and
  work with dozens of fields per peer; a model small enough to be checked would
  keep little of it.
* Address manager, ban list, version bits, check queue, the timed queue of the
  scheduler: sequential under one lock, or pure functions that the repository's
  tests compare with a reference.
* The coin statistics and block filter indexes, which use the same `BaseIndex`.
* Amounts: rewards, the reserve balance, splitting of coinstakes, coin
  selection; difficulty, which is 256-bit arithmetic over block times.
* Scripts, signatures, hashing, encodings, sockets, databases, the update check,
  the user interface.

The components of `PROJECT.json` list every part with its state; its hazards
list what is delicate in the modelled parts and the properties that cover it.
