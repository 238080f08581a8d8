----------------------------- MODULE StakingPass -----------------------------
(***************************************************************************)
(* The passes of one staking thread (PoSMiner): collect the wallet's coins,*)
(* search them for a kernel, build a block around it, submit it.           *)
(*                                                                         *)
(* The search lets go of its lock twice for every coin, and nothing is held*)
(* between the search, the build and the submission.  Meanwhile the chain  *)
(* grows, reorganises or is rolled back, transactions enter the mempool,   *)
(* and the wallet and the transaction index learn of all this late, one    *)
(* event of the validation queue at a time, the index before the wallet.   *)
(*                                                                         *)
(* A coin is the output of the transaction that has its name, and at most  *)
(* one ordinary transaction spends it; a coinstake may as well.  The index *)
(* is the one of TxIndex on a node that has caught up and is not stopped,  *)
(* and the validator looks a kernel's source up as CoinLookup says.  Times *)
(* are left out: those of blocks are all 0, and the lookup is made for a   *)
(* time at which no coin is too young.  The coinstake's own outputs are    *)
(* not followed (they stay immature), nor are amounts: there is no reserve *)
(* balance and a reward is always positive.                                *)
(***************************************************************************)
EXTENDS CoinLookup

CONSTANTS
    Tree,           \* the blocks the network may bring
    Genesis,        \* the header of the genesis block
    First,          \* the active chain when the thread starts
    Txs,            \* the wallet's coins; header h creates those in h.creates, spends
                    \* those in h.spends and, in its coinstake, those in h.stakes
    Minted,         \* coins that coinbases and coinstakes create
    Old,            \* coins older than nStakeMaxAge
    Shared,         \* coins whose keys another wallet has too
    ProofHash(_, _, _), \* of the kernel of a coin, by the block it is from and the
                    \* parent of the block that stakes it
    Maturity,       \* nCoinbaseMaturity
    Staked,         \* the name of the headers made here
    MaxQueue        \* bound on the events waiting

NoKernel == [coin |-> "none", from |-> NoBlock, tip |-> NoBlock]
NoTemplate == [prev |-> NoBlock]
NothingSeen == [tip |-> NoBlock, bits |-> 0, height |-> 0, coin |-> "none", from |-> NoBlock]
Pcs == {"sync", "wait", "collect", "bits", "height", "search", "hash", "create", "nonce", "check",
        "process", "rejected", "dead"}

VARIABLES               \* and the active chain, tip, and the index's entries
    invalid,        \* the block InvalidateBlock was called for
    mempool,        \* the coins that transactions in the mempool spend
    queue,          \* the validation queue
    walletTip,      \* m_last_block_processed
    walletTxs,      \* coins that the wallet's ordinary transactions spend
    conflict,       \* the height of the block such a transaction is in conflict with
    walletStakes,   \* coins that its live coinstakes spend
    pc,             \* where the thread is
    candidates,     \* m_candidates
    todo,           \* the candidates that the search has still to examine
    seen,           \* what the search goes by: the tip when its time was taken, nBits,
                    \* the height, and the coin it examines with the coin's source
    kernel,         \* m_kernel
    template,       \* the block being made
    refusals        \* history: kernels refused as spent by the wallet

chainVars == <<tip, invalid, mempool>>
walletVars == <<walletTip, walletTxs, conflict, walletStakes>>
passVars == <<candidates, todo, seen, kernel, template, refusals>>
vars == <<chainVars, queue, entries, walletVars, pc, passVars>>

\* The height rule of CheckTxInputs, for a coin spent at the given height.
Matured(b, c, height) == c \in Minted => height - Len(CreatedIn(b, c)) >= Maturity

\* In the UTXO set of b, and may be spent in the next block.
Unspent(b, c) == Created(b, c) /\ ~Spent(b, c)
Spendable(b, c) == Unspent(b, c) /\ Matured(b, c, Len(b) + 1)

\* What validation makes sure of on every chain: a coin is created once and spent
\* once, and a coinstake's inputs are inputs of the block.
ValidChain(b) ==
    \A h \in 1 .. Len(b) :
        /\ b[h].time = 0
        /\ b[h].creates \subseteq Txs /\ b[h].spends \subseteq Txs /\ b[h].stakes \subseteq b[h].spends
        /\ \A k \in 1 .. Len(b) : k # h => /\ b[h].creates \cap b[k].creates = {}
                                           /\ b[h].spends \cap b[k].spends = {}

\* nStakeMaxAge (45 days) is far longer than a coin takes to mature (30 blocks).
ASSUME StakingPassAssumption ==
    /\ First \in Tree /\ Maturity \in Nat /\ StakeMinAge \in Nat
    /\ \A b \in Tree :
          /\ b \in Seq({b[h] : h \in 1 .. Len(b)})
          /\ Len(b) >= 1 /\ b[1] = Genesis /\ ValidChain(b)
          /\ \A h \in 1 .. Len(b) : GetAncestor(b, h) \in Tree
          /\ \A c \in Old : Unspent(b, c) => Spendable(b, c)

\* CheckStakeKernelHash, for a block on top of prev.  GetKernelStakeModifier takes the
\* modifier from prev's chain, and refuses a source that is not on it; where prev's
\* chain has no modifier for the source yet, no hash meets the target.
MeetsMutant(c, from, prev, bits) == ProofHash(c, from, prev) <= bits
Meets(c, from, prev, bits) == IsAncestor(from, prev) /\ ProofHash(c, from, prev) <= bits

\* GetNextWorkRequired for the block after b.
NextBits(b) == Header(b).bits

-----------------------------------------------------------------------------
(***************************************************************************)
(* The chain and the mempool.                                              *)
(***************************************************************************)

Event(kind, x) == [kind |-> kind, of |-> x]

TxSpends(h) == h.spends \ h.stakes

\* The coins that the coinstakes of b's chain spend.
StakedOn(b) == UNION {b[h].stakes : h \in 1 .. Len(b)}

\* What was in the blocks left comes back (coinstakes never do), and what is
\* mined, or can no longer be, goes.
Back(b) ==
    LET left == Len(FindFork(tip, b)) + 1 .. Len(tip)
    IN  {c \in UNION {TxSpends(tip[h]) : h \in left} : Spendable(b, c)}
MempoolAt(b) == {c \in mempool \cup Back(b) : Spendable(b, c)}

\* Going from the active chain to b: the blocks left, the transactions that enter
\* the mempool, and the blocks joined.
Moves(b) ==
    LET n == Len(FindFork(tip, b))
    IN  [i \in 1 .. Len(tip) - n |-> Event("disconnect", GetAncestor(tip, Len(tip) + 1 - i))]
        \o (IF Back(b) = {} THEN <<>> ELSE <<Event("tx", Back(b))>>)
        \o [i \in 1 .. Len(b) - n |-> Event("connect", GetAncestor(b, n + i))]

SetTip(b) ==
    /\ Len(queue) + Len(Moves(b)) <= MaxQueue
    /\ tip' = b
    /\ mempool' = MempoolAt(b)
    /\ queue' = queue \o Moves(b)

Failed(b) == invalid # NoBlock /\ IsAncestor(invalid, b)

\* Another chain has more work; ActivateBestChainStep goes no further than that.  It
\* waits for InvalidateBlock (m_cs_chainstate).
ActivateBestChain ==
    /\ ~Failed(tip)
    /\ \E b \in Tree : Len(b) = Len(tip) + 1 /\ ~Failed(b) /\ SetTip(b)
    /\ UNCHANGED <<invalid, entries, walletVars, pc, passVars>>

\* One disconnect of InvalidateBlock, which goes down to the block it was called for,
\* once and for a block of the network.
InvalidateBlock ==
    /\ \/ Failed(tip) /\ UNCHANGED invalid
       \/ /\ invalid = NoBlock
          /\ \E h \in Len(First) + 1 .. Len(tip) :
                GetAncestor(tip, h) \in Tree /\ invalid' = GetAncestor(tip, h)
    /\ SetTip(Prev(tip))
    /\ UNCHANGED <<entries, walletVars, pc, passVars>>

\* Another wallet with the same key spends the coin; this one is told later.
TransactionAddedToMempool ==
    /\ Len(queue) < MaxQueue
    /\ \E c \in Shared :
          /\ Spendable(tip, c) /\ c \notin mempool
          /\ mempool' = mempool \cup {c}
          /\ queue' = Append(queue, Event("tx", {c}))
    /\ UNCHANGED <<tip, invalid, entries, walletVars, pc, passVars>>

-----------------------------------------------------------------------------
(***************************************************************************)
(* The index and the wallet.                                               *)
(***************************************************************************)

\* BlockConnected of the index; the wallet's comes next.
IndexConnected ==
    /\ queue # <<>> /\ Head(queue).kind = "connect"
    /\ entries' = [t \in Txs |-> IF t \in Header(Head(queue).of).creates
                                 THEN Head(queue).of ELSE entries[t]]
    /\ queue' = <<[Head(queue) EXCEPT !.kind = "indexed"]>> \o Tail(queue)
    /\ UNCHANGED <<chainVars, walletVars, pc, passVars>>

\* CWallet::IsSpent: the depth of a transaction in conflict with a block is negative
\* only while the wallet is at the height of that block or above.
LiveTx(c) == c \in walletTxs /\ (conflict[c] = 0 \/ Len(walletTip) < conflict[c])
IsSpent(c) == LiveTx(c) \/ c \in walletStakes

\* AddToWallet of transactions that spend the coins in cs, not in conflict with
\* anything; those in with are, with the block at the given height.
AddToWallet(cs, with, height) ==
    /\ walletTxs' = walletTxs \cup cs
    /\ conflict' = [c \in Txs |-> IF c \in cs THEN 0
                                  ELSE IF c \in with /\ LiveTx(c) THEN height ELSE conflict[c]]

BlockConnected(b) ==
    /\ walletTip' = b
    /\ AddToWallet(TxSpends(Header(b)), Header(b).stakes, Len(b))
    /\ walletStakes' = walletStakes \cup Header(b).stakes

\* The transactions are unconfirmed from now on, the coinstake is abandoned.
BlockDisconnectedMutant(b) ==
    /\ walletTip' = Prev(b)
    /\ AddToWallet(TxSpends(Header(b)), {}, 0)
    /\ UNCHANGED walletStakes
BlockDisconnected(b) ==
    /\ walletTip' = Prev(b)
    /\ AddToWallet(TxSpends(Header(b)), {}, 0)
    /\ walletStakes' = walletStakes \ Header(b).stakes

WalletNotified ==
    /\ queue # <<>> /\ Head(queue).kind \notin {"connect", "marker"}
    /\ LET e == Head(queue)
       IN  \/ e.kind = "indexed" /\ BlockConnected(e.of)
           \/ e.kind = "disconnect" /\ BlockDisconnected(e.of)
           \/ e.kind = "tx" /\ AddToWallet(e.of, {}, 0) /\ UNCHANGED <<walletTip, walletStakes>>
    /\ queue' = Tail(queue)
    /\ UNCHANGED <<chainVars, entries, pc, passVars>>

\* SyncWithValidationInterfaceQueue returns.
QueueDrained ==
    /\ queue # <<>> /\ Head(queue).kind = "marker"
    /\ queue' = Tail(queue)
    /\ pc' = "collect"
    /\ UNCHANGED <<chainVars, entries, walletVars, passVars>>

\* A minted coin is offered a block later than the chain would take it, by the
\* wallet's own height.  Unconfirmed coins are too young to stake.
AvailableCoins ==
    {c \in Txs : Created(walletTip, c) /\ ~IsSpent(c) /\ Matured(walletTip, c, Len(walletTip))}

\* The transaction stays in the wallet also when the mempool refuses it.
CommitTransaction ==
    /\ Len(queue) < MaxQueue
    /\ \E c \in AvailableCoins :
          /\ AddToWallet({c}, {}, 0)
          /\ IF Spendable(tip, c) /\ c \notin mempool
             THEN mempool' = mempool \cup {c} /\ queue' = Append(queue, Event("tx", {c}))
             ELSE UNCHANGED <<mempool, queue>>
    /\ UNCHANGED <<tip, invalid, entries, walletTip, walletStakes, pc, passVars>>

-----------------------------------------------------------------------------
(***************************************************************************)
(* A pass.                                                                 *)
(***************************************************************************)

\* blockUntilSyncedToCurrentChain: nothing to wait for if the wallet is at the tip.
BlockUntilSynced ==
    /\ pc = "sync"
    /\ IF walletTip = tip
       THEN pc' = "collect" /\ UNCHANGED queue
       ELSE pc' = "wait" /\ queue' = Append(queue, Event("marker", NoBlock))
    /\ UNCHANGED <<chainVars, entries, walletVars, passVars>>

StakeCandidatesCurrentMutant == candidates.collected
StakeCandidatesCurrent == candidates.collected /\ candidates.last = walletTip

Collected == [collected |-> TRUE, last |-> walletTip, coins |-> AvailableCoins]

CollectStakeCandidates ==
    /\ pc = "collect"
    /\ IF StakeCandidatesCurrent
       THEN UNCHANGED <<candidates, refusals>>
       ELSE candidates' = Collected /\ refusals' = refusals \ AvailableCoins
    /\ seen' = [NothingSeen EXCEPT !.tip = tip]
    /\ pc' = "bits"
    /\ UNCHANGED <<chainVars, queue, entries, walletVars, todo, kernel, template>>

ReadBits ==
    /\ pc = "bits"
    /\ seen' = [seen EXCEPT !.bits = NextBits(tip)]
    /\ pc' = "height"
    /\ UNCHANGED <<chainVars, queue, entries, walletVars, candidates, todo, kernel, template, refusals>>

SearchStart ==
    /\ pc = "height"
    /\ seen' = [seen EXCEPT !.height = Len(tip) + 1]
    /\ todo' = candidates.coins
    /\ pc' = "search"
    /\ UNCHANGED <<chainVars, queue, entries, walletVars, candidates, kernel, template, refusals>>

Examining(c, from) ==
    [tip |-> seen.tip, bits |-> seen.bits, height |-> seen.height, coin |-> c, from |-> from]

\* One coin of SearchStakeKernel: its source is taken from the UTXO set, and cs_main
\* is released.
SearchCoin ==
    /\ pc = "search"
    /\ \E c \in todo :
          /\ todo' = todo \ {c}
          /\ IF Unspent(tip, c) /\ Matured(tip, c, seen.height)
             THEN seen' = Examining(c, CreatedIn(tip, c)) /\ pc' = "hash"
             ELSE UNCHANGED <<seen, pc>>
    /\ UNCHANGED <<chainVars, queue, entries, walletVars, candidates, kernel, template, refusals>>

\* The same coin with cs_main held again, on what is then the tip.  The first kernel is
\* taken.
SearchKernel ==
    /\ pc = "hash"
    /\ IF Meets(seen.coin, seen.from, tip, seen.bits)
       THEN /\ kernel' = [coin |-> seen.coin, from |-> seen.from, tip |-> seen.tip]
            /\ todo' = {} /\ seen' = NothingSeen
            /\ pc' = "create"
       ELSE seen' = Examining("none", NoBlock) /\ pc' = "search" /\ UNCHANGED <<kernel, todo>>
    /\ UNCHANGED <<chainVars, queue, entries, walletVars, candidates, template, refusals>>

NothingFound ==
    /\ pc = "search" /\ todo = {}
    /\ seen' = NothingSeen
    /\ pc' = "sync"
    /\ UNCHANGED <<chainVars, queue, entries, walletVars, candidates, todo, kernel, template, refusals>>

\* The checks of BuildCoinStake, under cs_main and cs_wallet.
SourceAgrees == entries[kernel.coin] # NoBlock /\ entries[kernel.coin] = kernel.from
KernelStandsMutant ==
    /\ ~IsSpent(kernel.coin)
    /\ Unspent(tip, kernel.coin)
    /\ SourceAgrees
    /\ Meets(kernel.coin, entries[kernel.coin], tip, NextBits(tip))
KernelStands ==
    /\ ~IsSpent(kernel.coin)
    /\ Spendable(tip, kernel.coin)
    /\ SourceAgrees
    /\ Meets(kernel.coin, entries[kernel.coin], tip, NextBits(tip))

\* The pass is lost, and the next one collects again.
BuildRefusedMutant ==
    /\ pc = "create" /\ ~KernelStands
    /\ refusals' = IF IsSpent(kernel.coin) THEN refusals \cup {kernel.coin} ELSE refusals
    /\ pc' = "sync"
    /\ kernel' = NoKernel
    /\ UNCHANGED <<chainVars, queue, entries, walletVars, candidates, todo, seen, template>>
BuildRefused ==
    /\ pc = "create" /\ ~KernelStands
    /\ candidates' = [candidates EXCEPT !.collected = FALSE]
    /\ refusals' = IF IsSpent(kernel.coin) THEN refusals \cup {kernel.coin} ELSE refusals
    /\ pc' = "sync"
    /\ kernel' = NoKernel
    /\ UNCHANGED <<chainVars, queue, entries, walletVars, todo, seen, template>>

\* The tip has moved on since the time of the search was taken, and is later than the
\* kernel's time.
CoinStakeTooEarly ==
    /\ pc = "create" /\ KernelStands
    /\ kernel.tip # tip
    /\ pc' = "sync"
    /\ kernel' = NoKernel
    /\ UNCHANGED <<chainVars, queue, entries, walletVars, candidates, todo, seen, template, refusals>>

\* The coins that may be combined with the kernel.
Combinable ==
    {c \in candidates.coins \ {kernel.coin} : c \in Old /\ ~IsSpent(c) /\ Unspent(tip, c)}

\* TestBlockValidity of a block with the coinstake inputs and the transactions
\* that spend the coins in txs.
TestBlockValidity(inputs, txs) ==
    /\ \A c \in inputs : Spendable(tip, c)
    /\ inputs \cap txs = {}

\* CreateNewBlock, with the transactions that addPackageTxs selects.  Where the
\* block is not valid an exception ends the thread.
CreateNewBlock ==
    /\ pc = "create" /\ KernelStands
    /\ \E extra \in SUBSET Combinable, txs \in SUBSET mempool :
          LET inputs == {kernel.coin} \cup extra
          IN  IF TestBlockValidity(inputs, txs)
              THEN /\ template' = [prev |-> tip, coin |-> kernel.coin, from |-> kernel.from,
                                   inputs |-> inputs, txs |-> txs, height |-> 0]
                   /\ pc' = "nonce"
              ELSE pc' = "dead" /\ UNCHANGED template
    /\ kernel' = NoKernel
    /\ UNCHANGED <<chainVars, queue, entries, walletVars, candidates, todo, seen, refusals>>

\* IncrementExtraNonce writes the height of the template's parent, not the tip's.
IncrementExtraNonce ==
    /\ pc = "nonce"
    /\ template' = [template EXCEPT !.height = Len(template.prev) + 1]
    /\ pc' = "check"
    /\ UNCHANGED <<chainVars, queue, entries, walletVars, candidates, todo, seen, kernel, refusals>>

\* ProcessBlockFound up to where it releases cs_main: is the block stale?
ProcessBlockFoundMutant ==
    /\ pc = "check"
    /\ pc' = IF template.prev = tip THEN "process" ELSE "sync"
    /\ UNCHANGED <<chainVars, queue, entries, walletVars, passVars>>
ProcessBlockFound ==
    /\ pc = "check"
    /\ IF template.prev = tip
       THEN pc' = "process" /\ UNCHANGED template
       ELSE pc' = "sync" /\ template' = NoTemplate
    /\ UNCHANGED <<chainVars, queue, entries, walletVars, candidates, todo, seen, kernel, refusals>>

NewBlock(t) ==
    Append(t.prev, [name |-> Staked, time |-> 0, creates |-> {}, bits |-> NextBits(t.prev),
                    spends |-> t.inputs \cup t.txs, stakes |-> t.inputs])

\* AcceptBlock: the parent has not failed, the coinbase has the block's height, and
\* the source of the kernel is found and meets the target.
AcceptBlock(t) ==
    LET source == GetKernelSource(t.prev, t.coin, StakeMinAge, TRUE)
    IN  /\ ~Failed(t.prev)
        /\ t.height = Len(t.prev) + 1
        /\ source # NoBlock
        /\ Meets(t.coin, source, t.prev, NextBits(t.prev))

\* A block that came after another one of the same height stays beside the chain.
ProcessNewBlock ==
    /\ pc = "process" /\ ~Failed(tip)
    /\ IF ~AcceptBlock(template)
       THEN pc' = "rejected" /\ UNCHANGED <<tip, mempool, queue>>
       ELSE /\ pc' = "sync"
            /\ IF Len(NewBlock(template)) > Len(tip)
               THEN SetTip(NewBlock(template)) ELSE UNCHANGED <<tip, mempool, queue>>
    /\ template' = NoTemplate
    /\ UNCHANGED <<invalid, entries, walletVars, candidates, todo, seen, kernel, refusals>>

\* The thread logs the rejection and goes on.
Rest ==
    /\ pc = "rejected"
    /\ pc' = "sync"
    /\ UNCHANGED <<chainVars, queue, entries, walletVars, passVars>>

-----------------------------------------------------------------------------
\* The wallet and the index have caught up, and the thread has collected its first
\* candidates.
Init ==
    /\ tip = First /\ invalid = NoBlock /\ mempool = {} /\ queue = <<>>
    /\ entries = [t \in Txs |-> IF Created(tip, t) THEN CreatedIn(tip, t) ELSE NoBlock]
    /\ walletTip = tip
    /\ walletTxs = UNION {TxSpends(tip[h]) : h \in 1 .. Len(tip)} /\ conflict = [c \in Txs |-> 0]
    /\ walletStakes = StakedOn(tip)
    /\ pc = "sync" /\ candidates = Collected
    /\ todo = {} /\ seen = NothingSeen /\ kernel = NoKernel /\ template = NoTemplate
    /\ refusals = {}

Pass ==
    \/ BlockUntilSynced \/ CollectStakeCandidates \/ ReadBits \/ SearchStart \/ SearchCoin
    \/ SearchKernel \/ NothingFound \/ BuildRefused \/ CoinStakeTooEarly \/ CreateNewBlock
    \/ IncrementExtraNonce \/ ProcessBlockFound \/ ProcessNewBlock \/ Rest

Callback == IndexConnected \/ WalletNotified \/ QueueDrained

Next ==
    \/ Pass \/ Callback
    \/ ActivateBestChain \/ InvalidateBlock \/ TransactionAddedToMempool \/ CommitTransaction

\* The thread is never asked to stop here, the scheduler runs the callbacks, and a
\* call of InvalidateBlock runs to its end.
Spec ==
    /\ Init /\ [][Next]_vars
    /\ WF_vars(Pass) /\ WF_vars(Callback) /\ WF_vars(Failed(tip) /\ InvalidateBlock)

-----------------------------------------------------------------------------
(***************************************************************************)
(* Properties.                                                             *)
(***************************************************************************)

\* Every variable has its type, a template is there exactly while it is on its way
\* to the chain, and a kernel while a block is built around it.
TypeOK ==
    /\ {mempool, walletTxs, walletStakes, candidates.coins, todo, refusals} \subseteq SUBSET Txs
    /\ \A t \in Txs : entries[t] \in Tree \cup {NoBlock} /\ conflict[t] \in Nat
    /\ \A i \in 1 .. Len(queue) :
          queue[i].kind \in {"connect", "indexed", "disconnect", "tx", "marker"}
    /\ pc \in Pcs
    /\ kernel # NoKernel <=> pc = "create"
    /\ template # NoTemplate <=> pc \in {"nonce", "check", "process"}

\* The coins spent by transactions that the wallet has still to be told of, in the
\* mempool or in a block.
Told(e) ==
    CASE e.kind = "tx" -> e.of
      [] e.kind \in {"connect", "indexed"} -> TxSpends(Header(e.of))
      [] OTHER -> {}
Unheard == UNION {Told(queue[i]) : i \in 1 .. Len(queue)}

\* Whatever has changed since the kernel was found, the block that BuildCoinStake
\* and addPackageTxs put together passes TestBlockValidity, so that no exception
\* ends the thread; the exception is a transaction of another wallet with the same
\* keys that the mempool has and this wallet was not told of.
BuiltBlockValid ==
    pc = "create" /\ KernelStands =>
        \A extra \in SUBSET Combinable, txs \in SUBSET mempool :
            ({kernel.coin} \cup extra) \cap Unheard = {}
                => TestBlockValidity({kernel.coin} \cup extra, txs)

\* The index has no block left to write.
IndexCaughtUp == \A i \in 1 .. Len(queue) : queue[i].kind # "connect"

\* A block is accepted when it is submitted, whatever became of the tip since its
\* kernel was found, unless the index is behind or the block's parent was
\* invalidated.
SubmittedBlockAccepted ==
    pc = "process" /\ IndexCaughtUp => AcceptBlock(template) \/ Failed(template.prev)

\* Once the queue is drained the wallet counts as spent by a coinstake exactly the
\* coins that are on the active chain: an orphaned stake gives its coins back.
OrphanedStakesReturned ==
    queue = <<>> =>
        /\ walletTip = tip
        /\ walletStakes = StakedOn(tip)

\* A coin that the wallet has spent costs one pass: it is not found and refused
\* again before the wallet has offered it anew.
SpentCoinCostsOnePass ==
    [][BuildRefused /\ IsSpent(kernel.coin) => kernel.coin \notin refusals]_vars

\* The coins a pass could stake.
Eligible ==
    {c \in AvailableCoins : Spendable(tip, c) /\ Meets(c, CreatedIn(tip, c), tip, NextBits(tip))}

\* Once the chain and the wallet are quiet every coin that can be staked is, unless
\* the thread has ended: no refused kernel, orphaned stake or missed event keeps
\* the thread from it for good.
StakesWhenQuiet == <>[](Eligible = {} \/ pc = "dead")

\* BuildCoinStake: "Anything that changed since costs this pass, never a block the
\* node would reject".  A block that is put together passes TestBlockValidity.
NeverRejected == pc # "dead"
===============================================================================
