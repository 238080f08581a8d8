----------------------------- MODULE CoinsCache -----------------------------
(***************************************************************************)
(* The stack of coin views of coins.cpp as the node uses it: CCoinsViewDB  *)
(* at the bottom, the tip cache (CoinsTip()) over it, and, while a block   *)
(* is connected or disconnected, a temporary view over the tip cache.      *)
(* A cache holds entries with the flags DIRTY (differs from the parent)    *)
(* and FRESH (the parent has no such coin); an outpoint without an entry   *)
(* is looked up in the parent.  All of it runs under cs_main, so each      *)
(* operation is one step.  Writing the database is one step here; the      *)
(* partial batches it consists of are the subject of CoinsFlush.           *)
(***************************************************************************)
CONSTANTS Outpoints, Coins, Spent, Blocks, Genesis, Closed,
          NoEntry,     \* the cache holds nothing for the outpoint
          Null         \* a cache whose hashBlock is not known yet

ASSUME CoinsAssumption ==
  /\ Spent \notin Coins
  /\ Genesis \in Blocks
  /\ Null \notin Blocks

VARIABLES db,          \* CCoinsViewDB: [coins, best]
          tip,         \* CoinsTip(): [entry, hash]
          view,        \* the temporary view, or Closed
          moved,       \* the coin the last SpendCoin or AccessCoin gave
          thrown       \* a std::logic_error of coins.cpp has been thrown

vars == <<db, tip, view, moved, thrown>>

Value == Coins \cup {Spent}

\* CCoinsCacheEntry.
Entry == [coin: Value, dirty: BOOLEAN, fresh: BOOLEAN]

ASSUME EntryAssumption == NoEntry \notin Entry

Cache == [entry: [Outpoints -> Entry \cup {NoEntry}], hash: Blocks \cup {Null}]

ASSUME ClosedAssumption ==
  Closed \notin Cache \cup [coins: [Outpoints -> Value], best: Blocks]

\* The database, the two caches and the coin last handed out have their types.
TypeOK ==
  /\ db \in [coins: [Outpoints -> Value], best: Blocks]
  /\ tip \in Cache
  /\ view \in Cache \cup {Closed}
  /\ moved \in Value
  /\ thrown \in BOOLEAN

EmptyCache(hash) == [entry |-> [o \in Outpoints |-> NoEntry], hash |-> hash]

-----------------------------------------------------------------------------
(* What each level answers, without the changes that answering makes.      *)

CoinOf(entry, below) == IF entry = NoEntry THEN below ELSE entry.coin

TipCoin(o) == CoinOf(tip.entry[o], db.coins[o])

ViewCoin(o) == CoinOf(view.entry[o], TipCoin(o))

\* CCoinsViewCache::GetBestBlock.
TipBest == IF tip.hash = Null THEN db.best ELSE tip.hash

\* FetchCoin: a coin the parent has is copied into the cache without flags;
\* GetCoin of the parent fails for a spent coin, so that none is copied.
Fetched(entry, below) ==
  IF entry = NoEntry /\ below # Spent
  THEN [coin |-> below, dirty |-> FALSE, fresh |-> FALSE]
  ELSE entry

\* AddCoin's new entry: FRESH where the parent cannot have the coin.
Added(entry, c, overwrite) ==
  [coin |-> c,
   dirty |-> TRUE,
   fresh |-> IF entry = NoEntry
             THEN ~overwrite
             ELSE entry.fresh \/ (~overwrite /\ ~entry.dirty)]

\* SpendCoin: a FRESH entry disappears, any other is kept as spent and DIRTY.
Cleared(entry) ==
  IF entry = NoEntry \/ entry.fresh
  THEN NoEntry
  ELSE [entry EXCEPT !.coin = Spent, !.dirty = TRUE]

\* Mutant: an entry written over another takes the child's FRESH flag.
WrittenMutant(child, parent) ==
  IF child = NoEntry \/ ~child.dirty
  THEN parent
  ELSE IF child.fresh /\ child.coin = Spent THEN NoEntry ELSE child

\* BatchWrite: what the parent's entry becomes for one entry of the child.
Written(child, parent) ==
  IF child = NoEntry \/ ~child.dirty
  THEN parent
  ELSE IF parent = NoEntry
       THEN IF child.fresh /\ child.coin = Spent THEN NoEntry ELSE child
       ELSE IF parent.fresh /\ child.coin = Spent
            THEN NoEntry
            ELSE [parent EXCEPT !.coin = child.coin, !.dirty = TRUE]

\* The condition on which BatchWrite throws.
Misapplied(child, parent) ==
  /\ child # NoEntry /\ child.dirty /\ child.fresh
  /\ parent # NoEntry /\ parent.coin # Spent

-----------------------------------------------------------------------------

Init ==
  /\ db = [coins |-> [o \in Outpoints |-> Spent], best |-> Genesis]
  /\ tip = EmptyCache(Null)
  /\ view = Closed
  /\ moved = Spent
  /\ thrown = FALSE

\* ConnectTip and DisconnectTip put a view over the tip cache, and the first
\* thing done with it is to compare its best block.
OpenView ==
  /\ view = Closed
  /\ tip' = [tip EXCEPT !.hash = TipBest]
  /\ view' = EmptyCache(TipBest)
  /\ UNCHANGED <<db, moved, thrown>>

\* A lookup in the view that misses is answered by the tip cache, which then
\* holds the coin too.
FetchBelow(o) ==
  tip' = IF view.entry[o] = NoEntry
         THEN [tip EXCEPT !.entry[o] = Fetched(tip.entry[o], db.coins[o])]
         ELSE tip

\* AccessCoin, HaveCoin and GetCoin on the view: both caches fetch.
AccessCoin(o) ==
  /\ view # Closed
  /\ FetchBelow(o)
  /\ view' = [view EXCEPT !.entry[o] = Fetched(view.entry[o], TipCoin(o))]
  /\ moved' = ViewCoin(o)
  /\ UNCHANGED <<db, thrown>>

\* AddCoin on the view.  The callers pass possible_overwrite for the outputs
\* of a coinbase (UpdateCoins) and wherever they have seen an unspent coin
\* (ApplyTxInUndo, RollforwardBlock); the other outputs are those of a
\* transaction whose id no unspent coin has.
AddCoin(o, c, overwrite) ==
  /\ view # Closed
  /\ overwrite \/ ViewCoin(o) = Spent
  /\ view' = [view EXCEPT !.entry[o] = Added(view.entry[o], c, overwrite)]
  /\ UNCHANGED <<db, tip, moved, thrown>>

\* SpendCoin on the view.
SpendCoin(o) ==
  /\ view # Closed
  /\ FetchBelow(o)
  /\ view' = [view EXCEPT !.entry[o] = Cleared(Fetched(view.entry[o], TipCoin(o)))]
  /\ moved' = ViewCoin(o)
  /\ UNCHANGED <<db, thrown>>

SetBestBlock(b) ==
  /\ view # Closed
  /\ view' = [view EXCEPT !.hash = b]
  /\ UNCHANGED <<db, tip, moved, thrown>>

\* view.Flush(): BatchWrite on the tip cache, which throws for an entry that
\* is FRESH although the parent has the coin.
FlushView ==
  /\ view # Closed
  /\ IF \E o \in Outpoints : Misapplied(view.entry[o], tip.entry[o])
     THEN /\ thrown' = TRUE
          /\ UNCHANGED <<tip, view>>
     ELSE /\ tip' = [entry |-> [o \in Outpoints |-> Written(view.entry[o], tip.entry[o])],
                     hash |-> view.hash]
          /\ view' = Closed
          /\ UNCHANGED thrown
  /\ UNCHANGED <<db, moved>>

\* The block was not valid: the view goes out of scope.
DropView ==
  /\ view # Closed
  /\ view' = Closed
  /\ UNCHANGED <<db, tip, moved, thrown>>

\* A transaction offered to the mempool reads its inputs through the tip
\* cache, and Uncache removes them again when it is refused.
FetchTip(o) ==
  /\ view = Closed
  /\ tip' = [tip EXCEPT !.entry[o] = Fetched(tip.entry[o], db.coins[o])]
  /\ UNCHANGED <<db, view, moved, thrown>>

\* Mutant: Uncache does not look at the flags.
UncacheMutant(o) ==
  /\ view = Closed
  /\ tip.entry[o] # NoEntry
  /\ tip' = [tip EXCEPT !.entry[o] = NoEntry]
  /\ UNCHANGED <<db, view, moved, thrown>>

Uncache(o) ==
  /\ view = Closed
  /\ tip.entry[o] # NoEntry
  /\ ~tip.entry[o].dirty /\ ~tip.entry[o].fresh
  /\ tip' = [tip EXCEPT !.entry[o] = NoEntry]
  /\ UNCHANGED <<db, view, moved, thrown>>

\* CoinsTip().Flush() in FlushStateToDisk: CCoinsViewDB::BatchWrite writes or
\* erases the DIRTY entries, and the cache is emptied but keeps its hashBlock.
\* FlushStateToDisk calls GetBestBlock first.
FlushTip ==
  /\ view = Closed
  /\ db' = [coins |-> [o \in Outpoints |->
                         IF tip.entry[o] # NoEntry /\ tip.entry[o].dirty
                         THEN tip.entry[o].coin
                         ELSE db.coins[o]],
            best |-> TipBest]
  /\ tip' = EmptyCache(TipBest)
  /\ UNCHANGED <<view, moved, thrown>>

\* The process ends and is started again: the database is what is left.
Restart ==
  /\ tip' = EmptyCache(Null)
  /\ view' = Closed
  /\ thrown' = FALSE
  /\ UNCHANGED <<db, moved>>

Next ==
  /\ ~thrown
  /\ \/ OpenView \/ FlushView \/ DropView \/ FlushTip \/ Restart
     \/ \E o \in Outpoints :
          \/ AccessCoin(o) \/ SpendCoin(o) \/ FetchTip(o) \/ Uncache(o)
          \/ \E c \in Coins, overwrite \in BOOLEAN : AddCoin(o, c, overwrite)
     \/ \E b \in Blocks : SetBestBlock(b)

Spec == Init /\ [][Next]_vars

-----------------------------------------------------------------------------
(* Properties.                                                             *)

\* The combinations of coins.h's list for CCoinsCacheEntry.
ValidEntry(e) ==
  /\ e.coin # Spent => e.dirty \/ ~e.fresh
  /\ e.coin = Spent => e.dirty # e.fresh

\* Every entry of both caches has one of the five combinations of spent, DIRTY
\* and FRESH that the comment on CCoinsCacheEntry declares valid, whatever
\* blocks were connected, disconnected, given up and flushed before.
EntriesValid ==
  /\ \A o \in Outpoints : tip.entry[o] # NoEntry => ValidEntry(tip.entry[o])
  /\ view # Closed =>
       \A o \in Outpoints : view.entry[o] # NoEntry => ValidEntry(view.entry[o])

\* What the flags mean with respect to the level below: an entry without DIRTY
\* equals it, a FRESH one has no unspent coin there.  A FRESH entry that the
\* parent does have is the consensus failure the comment on FRESH warns of.
FlagsTell(e, parent) ==
  /\ ~e.dirty => e.coin = parent
  /\ e.fresh => parent = Spent

\* Both flags are true at both levels at all times: what SpendCoin erases and
\* what BatchWrite skips is never needed by the level below.
FlagsTruthful ==
  /\ \A o \in Outpoints :
       tip.entry[o] # NoEntry => FlagsTell(tip.entry[o], db.coins[o])
  /\ view # Closed =>
       \A o \in Outpoints :
         view.entry[o] # NoEntry => FlagsTell(view.entry[o], TipCoin(o))

\* No sequence of calls that validation makes throws the logic_error of
\* BatchWrite ("FRESH flag misapplied to coin that exists in parent cache").
FreshNeverMisapplied == ~thrown

\* All of it at once: the caches are what coins.h and the throws in coins.cpp ask
\* them to be.
CachesConsistent == TypeOK /\ EntriesValid /\ FlagsTruthful /\ FreshNeverMisapplied

\* The stack seen as the three maps of UtxoSet.
Chainstate == [coins |-> [o \in Outpoints |-> TipCoin(o)], best |-> TipBest]

Scratch ==
  IF view = Closed
  THEN Closed
  ELSE [coins |-> [o \in Outpoints |-> ViewCoin(o)], best |-> view.hash]

Abstract == INSTANCE UtxoSet WITH disk <- db, chainstate <- Chainstate, scratch <- Scratch

\* With all its caches, flags and shortcuts the stack behaves as three maps:
\* a block takes effect on the coins and the best block at once or not at all,
\* every read gives the coin last written, and a flush writes all of it.
ImplementsUtxoSet == Abstract!Spec
=============================================================================
