-------------------------- MODULE CoinsCacheProof --------------------------
(***************************************************************************)
(* For any outpoints, coins and blocks: the caches of CoinsCache keep      *)
(* their flags truthful, never throw, and implement the plain maps of      *)
(* UtxoSet.  The inductive invariant is what the flags mean with respect   *)
(* to the level below; the lemmas say what each operation on one entry     *)
(* does to that meaning and to the coin that is read through the entry.    *)
(***************************************************************************)
EXTENDS CoinsCache, TLAPS

\* An entry, or none, over a level whose coin is `below'.
Sound(e, below) ==
  /\ e \in Entry \cup {NoEntry}
  /\ e # NoEntry => ValidEntry(e) /\ FlagsTell(e, below)

\* FetchCoin keeps the flags truthful and does not change what is read.
LEMMA FetchedSound ==
  ASSUME NEW e, NEW below \in Value, Sound(e, below)
  PROVE  /\ Sound(Fetched(e, below), below)
         /\ CoinOf(Fetched(e, below), below) = CoinOf(e, below)
         /\ CoinOf(e, below) \in Value
BY EntryAssumption, CoinsAssumption
   DEF Sound, Fetched, CoinOf, Entry, ValidEntry, FlagsTell, Value

\* AddCoin over an entry that is not an unspent coin, or with
\* possible_overwrite: truthful flags, and the new coin is what is read.
LEMMA AddedSound ==
  ASSUME NEW e, NEW below \in Value, Sound(e, below), NEW c \in Coins,
         NEW overwrite \in BOOLEAN, overwrite \/ CoinOf(e, below) = Spent
  PROVE  /\ Sound(Added(e, c, overwrite), below)
         /\ CoinOf(Added(e, c, overwrite), below) = c
<1> DEFINE a == Added(e, c, overwrite)
           isFresh == IF e = NoEntry THEN ~overwrite ELSE e.fresh \/ (~overwrite /\ ~e.dirty)
<1>1. a = [coin |-> c, dirty |-> TRUE, fresh |-> isFresh]
  BY Zenon DEF Added
<1>2. e # NoEntry => /\ e \in Entry
                     /\ ~e.dirty => e.coin = below
                     /\ e.fresh => below = Spent
  BY DEF Sound, FlagsTell
<1>3. isFresh \in BOOLEAN
  BY <1>2 DEF Entry
<1>4. isFresh => below = Spent
  BY <1>2 DEF CoinOf, Entry
<1> HIDE DEF a, isFresh
<1>5. a \in Entry
  BY <1>1, <1>3, Zenon DEF Entry, Value
<1>6. a.coin = c /\ a.dirty = TRUE /\ a.fresh = isFresh
  BY <1>1, Zenon
<1>7. a # NoEntry
  BY <1>5, EntryAssumption
<1>8. ValidEntry(a) /\ FlagsTell(a, below)
  BY <1>4, <1>6, CoinsAssumption DEF ValidEntry, FlagsTell
<1>9. QED
  BY <1>5, <1>6, <1>7, <1>8 DEF a, Sound, CoinOf

\* SpendCoin after its FetchCoin: truthful flags, and the coin reads as spent.
LEMMA ClearedSound ==
  ASSUME NEW e, NEW below \in Value, Sound(e, below),
         e = NoEntry => below = Spent
  PROVE  /\ Sound(Cleared(e), below)
         /\ CoinOf(Cleared(e), below) = Spent
BY EntryAssumption, CoinsAssumption
   DEF Sound, Cleared, CoinOf, Entry, ValidEntry, FlagsTell, Value

\* BatchWrite of one entry: the parent's flags stay truthful, the parent now
\* reads as the child did, and the condition for throwing does not hold.
LEMMA WrittenSound ==
  ASSUME NEW child, NEW parent, NEW below \in Value,
         Sound(parent, below), Sound(child, CoinOf(parent, below))
  PROVE  /\ Sound(Written(child, parent), below)
         /\ CoinOf(Written(child, parent), below) = CoinOf(child, CoinOf(parent, below))
         /\ ~Misapplied(child, parent)
<1>1. CASE child = NoEntry
  BY <1>1 DEF Sound, Written, CoinOf, Misapplied
<1>2. CASE child # NoEntry /\ parent = NoEntry
  BY <1>2, EntryAssumption
     DEF Sound, Written, CoinOf, Misapplied, Entry, ValidEntry, FlagsTell, Value
<1>3. CASE child # NoEntry /\ parent # NoEntry
  BY <1>3, EntryAssumption
     DEF Sound, Written, CoinOf, Misapplied, Entry, ValidEntry, FlagsTell, Value
<1>4. QED
  BY <1>1, <1>2, <1>3

-----------------------------------------------------------------------------
(* The inductive invariant.                                                *)

TipSound == \A o \in Outpoints : Sound(tip.entry[o], db.coins[o])

ViewSound ==
  view # Closed =>
    /\ view.hash \in Blocks
    /\ \A o \in Outpoints : Sound(view.entry[o], TipCoin(o))

IInv == TypeOK /\ TipSound /\ ViewSound /\ ~thrown

\* What the levels answer is a coin or Spent, and the tip's best block a block.
LEMMA Answers ==
  ASSUME IInv
  PROVE  /\ \A o \in Outpoints : db.coins[o] \in Value /\ TipCoin(o) \in Value
         /\ view # Closed => \A o \in Outpoints : ViewCoin(o) \in Value
         /\ TipBest \in Blocks
         /\ view # Closed => view \in Cache
<1>1. \A o \in Outpoints : db.coins[o] \in Value
  BY DEF IInv, TypeOK
<1>2. \A o \in Outpoints : TipCoin(o) \in Value
  BY <1>1, FetchedSound DEF IInv, TipSound, TipCoin
<1>3. ASSUME view # Closed, NEW o \in Outpoints PROVE ViewCoin(o) \in Value
  BY <1>2, <1>3, FetchedSound DEF IInv, ViewSound, ViewCoin
<1>4. TipBest \in Blocks
  BY DEF IInv, TypeOK, TipBest, Cache
<1>5. view # Closed => view \in Cache
  BY DEF IInv, TypeOK
<1>6. QED
  BY <1>1, <1>2, <1>3, <1>4, <1>5

\* A fetch into the tip cache changes nothing that can be read.
LEMMA TipFetched ==
  ASSUME IInv, NEW o \in Outpoints, db' = db,
         tip' = [tip EXCEPT !.entry[o] = Fetched(tip.entry[o], db.coins[o])] \/ tip' = tip
  PROVE  /\ tip' \in Cache
         /\ TipSound'
         /\ \A p \in Outpoints : TipCoin(p)' = TipCoin(p)
         /\ TipBest' = TipBest
<1>1. CASE tip' = tip
  BY <1>1 DEF IInv, TypeOK, TipSound, TipCoin, TipBest
<1>2. CASE tip' = [tip EXCEPT !.entry[o] = Fetched(tip.entry[o], db.coins[o])]
  <2>1. /\ Sound(Fetched(tip.entry[o], db.coins[o]), db.coins[o])
        /\ CoinOf(Fetched(tip.entry[o], db.coins[o]), db.coins[o]) = CoinOf(tip.entry[o], db.coins[o])
    BY Answers, FetchedSound DEF IInv, TipSound
  <2>2. Fetched(tip.entry[o], db.coins[o]) \in Entry \cup {NoEntry}
    BY <2>1 DEF Sound
  <2>3. tip \in Cache
    BY DEF IInv, TypeOK
  <2>4. /\ tip' \in Cache
        /\ tip'.hash = tip.hash
        /\ tip'.entry[o] = Fetched(tip.entry[o], db.coins[o])
        /\ \A p \in Outpoints : p # o => tip'.entry[p] = tip.entry[p]
    BY <1>2, <2>2, <2>3 DEF Cache
  <2>5. TipSound'
    BY <2>1, <2>4 DEF IInv, TipSound
  <2>6. \A p \in Outpoints : TipCoin(p)' = TipCoin(p)
    BY <2>1, <2>4 DEF TipCoin
  <2>7. TipBest' = TipBest
    BY <2>4 DEF TipBest
  <2>8. QED
    BY <2>4, <2>5, <2>6, <2>7
<1>3. QED
  BY <1>1, <1>2

\* One entry of the view is replaced by a sound one that reads as `c'.
LEMMA ViewReplaced ==
  ASSUME IInv, view # Closed, NEW o \in Outpoints, NEW e, NEW c,
         \A p \in Outpoints : TipCoin(p)' = TipCoin(p),
         view' = [view EXCEPT !.entry[o] = e],
         Sound(e, TipCoin(o)), CoinOf(e, TipCoin(o)) = c
  PROVE  /\ view' \in Cache
         /\ view' # Closed
         /\ ViewSound'
         /\ Scratch' = [Scratch EXCEPT !.coins[o] = c]
<1>1. view \in Cache /\ e \in Entry \cup {NoEntry}
  BY DEF IInv, TypeOK, Sound
<1>2. /\ view' \in Cache
      /\ view'.hash = view.hash
      /\ view'.entry[o] = e
      /\ \A p \in Outpoints : p # o => view'.entry[p] = view.entry[p]
  BY <1>1 DEF Cache
<1>3. view' # Closed
  BY <1>2, ClosedAssumption
<1>4. ViewSound'
  BY <1>2 DEF IInv, ViewSound
<1>5. \A p \in Outpoints : ViewCoin(p)' = IF p = o THEN c ELSE ViewCoin(p)
  BY <1>2 DEF ViewCoin
<1>6. Scratch' = [coins |-> [p \in Outpoints |-> ViewCoin(p)'], best |-> view'.hash]
  BY <1>3 DEF Scratch
<1>7. Scratch = [coins |-> [p \in Outpoints |-> ViewCoin(p)], best |-> view.hash]
  BY DEF Scratch
<1>8. Scratch' = [Scratch EXCEPT !.coins[o] = c]
  BY <1>2, <1>5, <1>6, <1>7
<1>9. QED
  BY <1>2, <1>3, <1>4, <1>8

-----------------------------------------------------------------------------
(* Every action preserves the invariant and is a step of UtxoSet, or none. *)

\* What is read at the tip did not change.
LEMMA SameChainstate ==
  ASSUME \A p \in Outpoints : TipCoin(p)' = TipCoin(p), TipBest' = TipBest
  PROVE  Chainstate' = Chainstate
BY DEF Chainstate

\* An open view is not the closed one in UtxoSet either.
LEMMA ScratchOpen ==
  ASSUME IInv
  PROVE  (Scratch = Closed) <=> (view = Closed)
<1>1. ASSUME view # Closed PROVE Scratch # Closed
  <2>1. Scratch = [coins |-> [o \in Outpoints |-> ViewCoin(o)], best |-> view.hash]
    BY <1>1 DEF Scratch
  <2>2. Scratch \in [coins: [Outpoints -> Value], best: Blocks]
    BY <2>1, <1>1, Answers DEF IInv, ViewSound
  <2>3. QED
    BY <2>2, ClosedAssumption
<1>2. QED
  BY <1>1 DEF Scratch

\* Putting a view over the tip cache is UtxoSet's Open.
LEMMA OpenStep ==
  ASSUME IInv, OpenView
  PROVE  IInv' /\ Abstract!Open
<1>1. /\ db' = db
      /\ moved' = moved
      /\ ~thrown' /\ thrown' \in BOOLEAN
      /\ view = Closed
      /\ view' = EmptyCache(TipBest)
      /\ tip' = [tip EXCEPT !.hash = TipBest]
  BY DEF OpenView, IInv, TypeOK
<1>2. TipBest \in Blocks /\ tip \in Cache
  BY Answers DEF IInv, TypeOK
<1>3. /\ tip' \in Cache
      /\ tip'.hash = TipBest
      /\ \A o \in Outpoints : tip'.entry[o] = tip.entry[o]
  BY <1>1, <1>2 DEF Cache
<1>4. /\ view' \in Cache
      /\ view'.hash = TipBest
      /\ \A o \in Outpoints : view'.entry[o] = NoEntry
  BY <1>1, <1>2 DEF Cache, EmptyCache
<1>5. /\ \A o \in Outpoints : TipCoin(o)' = TipCoin(o)
      /\ TipBest' = TipBest
  BY <1>1, <1>2, <1>3, CoinsAssumption DEF TipCoin, TipBest
<1>6. TypeOK' /\ TipSound'
  BY <1>1, <1>3, <1>4 DEF IInv, TypeOK, TipSound
<1>7. ViewSound'
  BY <1>2, <1>4 DEF ViewSound, Sound
<1>8. view' # Closed
  BY <1>4, ClosedAssumption
<1>9. Chainstate' = Chainstate
  BY <1>5, SameChainstate
<1>10. Scratch' = Chainstate
  <2>1. \A o \in Outpoints : ViewCoin(o)' = TipCoin(o)
    BY <1>4, <1>5 DEF ViewCoin, CoinOf
  <2>2. QED
    BY <2>1, <1>8, <1>4 DEF Scratch, Chainstate
<1>11. Abstract!Open
  BY <1>1, <1>9, <1>10 DEF Abstract!Open, Scratch
<1>12. QED
  BY <1>1, <1>6, <1>7, <1>11 DEF IInv

\* A lookup gives the coin of the map, and changes nothing but the caches.
LEMMA AccessStep ==
  ASSUME IInv, NEW o \in Outpoints, AccessCoin(o)
  PROVE  IInv' /\ Abstract!Read(o)
<1> DEFINE e == Fetched(view.entry[o], TipCoin(o))
<1>1. /\ db' = db
      /\ moved' = ViewCoin(o)
      /\ ~thrown' /\ thrown' \in BOOLEAN
      /\ view # Closed
      /\ view' = [view EXCEPT !.entry[o] = e]
      /\ tip' = [tip EXCEPT !.entry[o] = Fetched(tip.entry[o], db.coins[o])] \/ tip' = tip
  BY DEF AccessCoin, FetchBelow, IInv, TypeOK
<1>2. /\ tip' \in Cache
      /\ TipSound'
      /\ \A p \in Outpoints : TipCoin(p)' = TipCoin(p)
      /\ TipBest' = TipBest
  BY <1>1, TipFetched
<1>3. Sound(e, TipCoin(o)) /\ CoinOf(e, TipCoin(o)) = ViewCoin(o)
  BY <1>1, Answers, FetchedSound DEF IInv, ViewSound, ViewCoin
<1> HIDE DEF e
<1>4. /\ view' \in Cache
      /\ view' # Closed
      /\ ViewSound'
      /\ Scratch' = [Scratch EXCEPT !.coins[o] = ViewCoin(o)]
  BY <1>1, <1>2, <1>3, ViewReplaced
<1>5. Scratch = [coins |-> [p \in Outpoints |-> ViewCoin(p)], best |-> view.hash]
  BY <1>1 DEF Scratch
<1>6. Scratch' = Scratch /\ Scratch.coins[o] = ViewCoin(o)
  BY <1>4, <1>5
<1>7. TypeOK'
  BY <1>1, <1>2, <1>4, Answers DEF IInv, TypeOK
<1>8. Abstract!Read(o)
  BY <1>1, <1>2, <1>6, SameChainstate, ScratchOpen DEF Abstract!Read
<1>9. QED
  BY <1>1, <1>2, <1>4, <1>7, <1>8 DEF IInv

\* AddCoin, with its choice of FRESH, sets one coin of the map.
LEMMA AddStep ==
  ASSUME IInv, NEW o \in Outpoints, NEW c \in Coins, NEW overwrite \in BOOLEAN,
         AddCoin(o, c, overwrite)
  PROVE  IInv' /\ Abstract!Add(o, c)
<1> DEFINE e == Added(view.entry[o], c, overwrite)
<1>1. /\ db' = db
      /\ tip' = tip
      /\ moved' = moved
      /\ ~thrown' /\ thrown' \in BOOLEAN
      /\ view # Closed
      /\ view' = [view EXCEPT !.entry[o] = e]
      /\ overwrite \/ ViewCoin(o) = Spent
  BY DEF AddCoin, IInv, TypeOK
<1>2. /\ tip' \in Cache
      /\ TipSound'
      /\ \A p \in Outpoints : TipCoin(p)' = TipCoin(p)
      /\ TipBest' = TipBest
  BY <1>1, TipFetched
<1>3. Sound(e, TipCoin(o)) /\ CoinOf(e, TipCoin(o)) = c
  BY <1>1, Answers, AddedSound DEF IInv, ViewSound, ViewCoin
<1> HIDE DEF e
<1>4. /\ view' \in Cache
      /\ view' # Closed
      /\ ViewSound'
      /\ Scratch' = [Scratch EXCEPT !.coins[o] = c]
  BY <1>1, <1>2, <1>3, ViewReplaced
<1>5. TypeOK'
  BY <1>1, <1>2, <1>4 DEF IInv, TypeOK
<1>6. Abstract!Add(o, c)
  BY <1>1, <1>2, <1>4, SameChainstate, ScratchOpen DEF Abstract!Add
<1>7. QED
  BY <1>1, <1>2, <1>4, <1>5, <1>6 DEF IInv

\* SpendCoin, erasing or keeping the entry, clears one coin of the map.
LEMMA SpendStep ==
  ASSUME IInv, NEW o \in Outpoints, SpendCoin(o)
  PROVE  IInv' /\ Abstract!Spend(o)
<1> DEFINE f == Fetched(view.entry[o], TipCoin(o))
           e == Cleared(f)
<1>1. /\ db' = db
      /\ moved' = ViewCoin(o)
      /\ ~thrown' /\ thrown' \in BOOLEAN
      /\ view # Closed
      /\ view' = [view EXCEPT !.entry[o] = e]
      /\ tip' = [tip EXCEPT !.entry[o] = Fetched(tip.entry[o], db.coins[o])] \/ tip' = tip
  BY DEF SpendCoin, FetchBelow, IInv, TypeOK
<1>2. /\ tip' \in Cache
      /\ TipSound'
      /\ \A p \in Outpoints : TipCoin(p)' = TipCoin(p)
      /\ TipBest' = TipBest
  BY <1>1, TipFetched
<1>3. Sound(f, TipCoin(o))
  BY <1>1, Answers, FetchedSound DEF IInv, ViewSound
<1>4. f = NoEntry => TipCoin(o) = Spent
  <2>1. [coin |-> TipCoin(o), dirty |-> FALSE, fresh |-> FALSE] \in Entry
    BY Answers DEF Entry
  <2>2. QED
    BY <2>1, EntryAssumption DEF Fetched
<1> HIDE DEF f
<1>5. Sound(e, TipCoin(o)) /\ CoinOf(e, TipCoin(o)) = Spent
  BY <1>3, <1>4, Answers, ClearedSound
<1> HIDE DEF e
<1>6. /\ view' \in Cache
      /\ view' # Closed
      /\ ViewSound'
      /\ Scratch' = [Scratch EXCEPT !.coins[o] = Spent]
  BY <1>1, <1>2, <1>5, ViewReplaced
<1>7. Scratch.coins[o] = ViewCoin(o)
  BY <1>1 DEF Scratch
<1>8. TypeOK'
  BY <1>1, <1>2, <1>6, Answers DEF IInv, TypeOK
<1>9. Abstract!Spend(o)
  BY <1>1, <1>2, <1>6, <1>7, SameChainstate, ScratchOpen DEF Abstract!Spend
<1>10. QED
  BY <1>1, <1>2, <1>6, <1>8, <1>9 DEF IInv

\* SetBestBlock on the view.
LEMMA SetBestStep ==
  ASSUME IInv, NEW b \in Blocks, SetBestBlock(b)
  PROVE  IInv' /\ Abstract!SetBest(b)
<1>1. /\ db' = db /\ tip' = tip /\ moved' = moved
      /\ ~thrown' /\ thrown' \in BOOLEAN
      /\ view # Closed
      /\ view' = [view EXCEPT !.hash = b]
      /\ view \in Cache
  BY DEF SetBestBlock, IInv, TypeOK
<1>2. /\ view' \in Cache
      /\ view'.hash = b
      /\ \A o \in Outpoints : view'.entry[o] = view.entry[o]
  BY <1>1 DEF Cache
<1>3. view' # Closed
  BY <1>2, ClosedAssumption
<1>4. \A o \in Outpoints : TipCoin(o)' = TipCoin(o) /\ ViewCoin(o)' = ViewCoin(o)
  BY <1>1, <1>2 DEF TipCoin, ViewCoin
<1>5. TipBest' = TipBest
  BY <1>1 DEF TipBest
<1>6. TypeOK' /\ TipSound'
  BY <1>1, <1>2 DEF IInv, TypeOK, TipSound
<1>7. ViewSound'
  BY <1>1, <1>2, <1>4 DEF IInv, ViewSound
<1>8. Scratch' = [Scratch EXCEPT !.best = b]
  <2>1. Scratch' = [coins |-> [p \in Outpoints |-> ViewCoin(p)'], best |-> b]
    BY <1>2, <1>3 DEF Scratch
  <2>2. Scratch = [coins |-> [p \in Outpoints |-> ViewCoin(p)], best |-> view.hash]
    BY <1>1 DEF Scratch
  <2>3. QED
    BY <1>4, <2>1, <2>2
<1>9. Abstract!SetBest(b)
  BY <1>1, <1>4, <1>5, <1>8, SameChainstate, ScratchOpen DEF Abstract!SetBest
<1>10. QED
  BY <1>1, <1>6, <1>7, <1>9 DEF IInv

\* BatchWrite into the tip cache does not throw and commits the whole view.
LEMMA FlushViewStep ==
  ASSUME IInv, FlushView
  PROVE  IInv' /\ Abstract!Commit
<1>1. view # Closed /\ db' = db /\ moved' = moved /\ view \in Cache /\ tip \in Cache
  BY DEF FlushView, IInv, TypeOK
<1>2. \A o \in Outpoints :
        /\ Sound(Written(view.entry[o], tip.entry[o]), db.coins[o])
        /\ CoinOf(Written(view.entry[o], tip.entry[o]), db.coins[o]) = ViewCoin(o)
        /\ ~Misapplied(view.entry[o], tip.entry[o])
  <2>1. TAKE o \in Outpoints
  <2>2. Sound(tip.entry[o], db.coins[o]) /\ db.coins[o] \in Value
    BY Answers DEF IInv, TipSound
  <2>3. Sound(view.entry[o], CoinOf(tip.entry[o], db.coins[o]))
    BY <1>1 DEF IInv, ViewSound, TipCoin
  <2>4. QED
    BY <2>2, <2>3, WrittenSound DEF ViewCoin, TipCoin
<1>3. /\ tip' = [entry |-> [o \in Outpoints |-> Written(view.entry[o], tip.entry[o])],
                 hash |-> view.hash]
      /\ view' = Closed
      /\ ~thrown' /\ thrown' \in BOOLEAN
  BY <1>2 DEF FlushView, IInv, TypeOK
<1>4. \A o \in Outpoints : tip'.entry[o] = Written(view.entry[o], tip.entry[o])
  BY <1>3
<1>5. tip'.hash = view.hash /\ view.hash \in Blocks
  BY <1>1, <1>3 DEF IInv, ViewSound
<1>6. tip' \in Cache
  BY <1>2, <1>3, <1>5 DEF Cache, Sound
<1>7. TypeOK' /\ TipSound' /\ ViewSound'
  BY <1>1, <1>2, <1>3, <1>4, <1>6 DEF IInv, TypeOK, TipSound, ViewSound
<1>8. \A o \in Outpoints : TipCoin(o)' = ViewCoin(o)
  BY <1>1, <1>2, <1>4 DEF TipCoin
<1>9. TipBest' = view.hash
  BY <1>5, CoinsAssumption DEF TipBest
<1>10. Chainstate' = Scratch
  BY <1>1, <1>8, <1>9 DEF Chainstate, Scratch
<1>11. Scratch' = Closed
  BY <1>3 DEF Scratch
<1>12. Abstract!Commit
  BY <1>1, <1>10, <1>11, ScratchOpen DEF Abstract!Commit
<1>13. QED
  BY <1>3, <1>7, <1>12 DEF IInv

\* A view that goes out of scope leaves no trace.
LEMMA DropStep ==
  ASSUME IInv, DropView
  PROVE  IInv' /\ Abstract!Discard
<1>1. /\ db' = db /\ tip' = tip /\ moved' = moved /\ view' = Closed
      /\ ~thrown' /\ thrown' \in BOOLEAN
      /\ view # Closed
  BY DEF DropView, IInv, TypeOK
<1>2. IInv'
  BY <1>1 DEF IInv, TypeOK, TipSound, ViewSound
<1>3. Chainstate' = Chainstate /\ Scratch' = Closed
  BY <1>1 DEF Chainstate, Scratch, TipCoin, TipBest
<1>4. QED
  BY <1>1, <1>2, <1>3, ScratchOpen DEF Abstract!Discard

\* The mempool's use of the tip cache is not visible.
LEMMA FetchTipStep ==
  ASSUME IInv, NEW o \in Outpoints, FetchTip(o)
  PROVE  IInv' /\ UNCHANGED Abstract!vars
<1>1. /\ db' = db /\ view' = view /\ moved' = moved
      /\ ~thrown' /\ thrown' \in BOOLEAN
      /\ view = Closed
      /\ tip' = [tip EXCEPT !.entry[o] = Fetched(tip.entry[o], db.coins[o])]
  BY DEF FetchTip, IInv, TypeOK
<1>2. /\ tip' \in Cache
      /\ TipSound'
      /\ \A p \in Outpoints : TipCoin(p)' = TipCoin(p)
      /\ TipBest' = TipBest
  BY <1>1, TipFetched
<1>3. Scratch' = Scratch
  BY <1>1 DEF Scratch
<1>4. QED
  BY <1>1, <1>2, <1>3, SameChainstate DEF IInv, TypeOK, ViewSound, Abstract!vars

\* Uncache removes only what the database answers as well.
LEMMA UncacheStep ==
  ASSUME IInv, NEW o \in Outpoints, Uncache(o)
  PROVE  IInv' /\ UNCHANGED Abstract!vars
<1>1. /\ db' = db /\ view' = view /\ moved' = moved
      /\ ~thrown' /\ thrown' \in BOOLEAN
      /\ view = Closed
      /\ tip' = [tip EXCEPT !.entry[o] = NoEntry]
      /\ tip.entry[o] # NoEntry /\ ~tip.entry[o].dirty
      /\ tip \in Cache
  BY DEF Uncache, IInv, TypeOK
<1>2. /\ tip' \in Cache
      /\ tip'.hash = tip.hash
      /\ tip'.entry[o] = NoEntry
      /\ \A p \in Outpoints : p # o => tip'.entry[p] = tip.entry[p]
  BY <1>1 DEF Cache
<1>3. TipSound'
  BY <1>1, <1>2 DEF IInv, TipSound, Sound
<1>4. tip.entry[o].coin = db.coins[o]
  BY <1>1 DEF IInv, TipSound, Sound, FlagsTell
<1>5. /\ \A p \in Outpoints : TipCoin(p)' = TipCoin(p)
      /\ TipBest' = TipBest
  BY <1>1, <1>2, <1>4 DEF TipCoin, TipBest, CoinOf
<1>6. Scratch' = Scratch
  BY <1>1 DEF Scratch
<1>7. QED
  BY <1>1, <1>2, <1>3, <1>5, <1>6, SameChainstate DEF IInv, TypeOK, ViewSound, Abstract!vars

\* Writing the DIRTY entries alone makes the database equal to the tip.
LEMMA FlushTipStep ==
  ASSUME IInv, FlushTip
  PROVE  IInv' /\ Abstract!Flush
<1>1. /\ view = Closed /\ view' = view /\ moved' = moved
      /\ ~thrown' /\ thrown' \in BOOLEAN
      /\ tip' = EmptyCache(TipBest)
      /\ TipBest \in Blocks
  BY Answers DEF FlushTip, IInv, TypeOK
<1>2. ASSUME NEW o \in Outpoints
      PROVE  (IF tip.entry[o] # NoEntry /\ tip.entry[o].dirty
              THEN tip.entry[o].coin ELSE db.coins[o]) = TipCoin(o)
  BY DEF IInv, TipSound, Sound, FlagsTell, TipCoin, CoinOf
<1>3. db' = [coins |-> [o \in Outpoints |-> TipCoin(o)], best |-> TipBest]
  BY <1>2 DEF FlushTip
<1>4. /\ tip' \in Cache
      /\ tip'.hash = TipBest
      /\ \A o \in Outpoints : tip'.entry[o] = NoEntry
  BY <1>1 DEF EmptyCache, Cache
<1>5. db' \in [coins: [Outpoints -> Value], best: Blocks]
  BY <1>1, <1>3, Answers
<1>6. IInv'
  BY <1>1, <1>4, <1>5 DEF IInv, TypeOK, TipSound, ViewSound, Sound
<1>7. /\ \A o \in Outpoints : TipCoin(o)' = TipCoin(o)
      /\ TipBest' = TipBest
  BY <1>1, <1>3, <1>4 DEF TipCoin, TipBest, CoinOf
<1>8. db' = Chainstate
  BY <1>3 DEF Chainstate
<1>9. Scratch' = Scratch /\ Scratch = Closed
  BY <1>1 DEF Scratch
<1>10. Abstract!Flush
  BY <1>1, <1>7, <1>8, <1>9, SameChainstate DEF Abstract!Flush
<1>11. QED
  BY <1>6, <1>10

\* After a restart the tip reads as the database.
LEMMA RestartStep ==
  ASSUME IInv, Restart
  PROVE  IInv' /\ Abstract!Crash
<1>1. /\ db' = db /\ view' = Closed /\ moved' = moved /\ ~thrown' /\ thrown' \in BOOLEAN
      /\ tip' = EmptyCache(Null)
      /\ db \in [coins: [Outpoints -> Value], best: Blocks]
  BY DEF Restart, IInv, TypeOK
<1>2. /\ tip' \in Cache
      /\ tip'.hash = Null
      /\ \A o \in Outpoints : tip'.entry[o] = NoEntry
  BY <1>1 DEF EmptyCache, Cache
<1>3. IInv'
  BY <1>1, <1>2 DEF IInv, TypeOK, TipSound, ViewSound, Sound
<1>4. (\A o \in Outpoints : TipCoin(o)' = db.coins[o]) /\ TipBest' = db.best
  BY <1>1, <1>2 DEF TipCoin, TipBest, CoinOf
<1>5. Chainstate' = db
  BY <1>1, <1>4 DEF Chainstate
<1>6. Scratch' = Closed
  BY <1>1 DEF Scratch
<1>7. QED
  BY <1>1, <1>3, <1>5, <1>6 DEF Abstract!Crash

-----------------------------------------------------------------------------

\* The empty stack is sound and is UtxoSet's initial state.
LEMMA Initially == Init => IInv /\ Abstract!Init
<1> SUFFICES ASSUME Init PROVE IInv /\ Abstract!Init
  OBVIOUS
<1>1. /\ \A o \in Outpoints : tip.entry[o] = NoEntry /\ db.coins[o] = Spent
      /\ tip.hash = Null /\ view = Closed /\ db.best = Genesis
  BY DEF Init, EmptyCache
<1>2. IInv
  BY <1>1, CoinsAssumption
     DEF Init, IInv, TypeOK, TipSound, ViewSound, Sound, EmptyCache, Cache, Value
<1>3. Chainstate = db
  BY <1>1 DEF Init, Chainstate, TipCoin, TipBest, CoinOf
<1>4. QED
  BY <1>1, <1>2, <1>3 DEF Init, Abstract!Init, Scratch

\* Every step keeps the invariant and is a step of UtxoSet or a stutter.
LEMMA Step ==
  ASSUME IInv, [Next]_vars
  PROVE  IInv' /\ [Abstract!Next]_(Abstract!vars)
<1>1. CASE UNCHANGED vars
  BY <1>1 DEF vars, IInv, TypeOK, TipSound, ViewSound, TipCoin, Abstract!vars,
              Chainstate, Scratch, TipBest, ViewCoin
<1>2. CASE OpenView
  BY <1>2, OpenStep DEF Abstract!Next
<1>3. CASE FlushView
  BY <1>3, FlushViewStep DEF Abstract!Next
<1>4. CASE DropView
  BY <1>4, DropStep DEF Abstract!Next
<1>5. CASE FlushTip
  BY <1>5, FlushTipStep DEF Abstract!Next
<1>6. CASE Restart
  BY <1>6, RestartStep DEF Abstract!Next
<1>7. ASSUME NEW o \in Outpoints, AccessCoin(o)
      PROVE  IInv' /\ [Abstract!Next]_(Abstract!vars)
  BY <1>7, AccessStep DEF Abstract!Next
<1>8. ASSUME NEW o \in Outpoints, SpendCoin(o)
      PROVE  IInv' /\ [Abstract!Next]_(Abstract!vars)
  BY <1>8, SpendStep DEF Abstract!Next
<1>9. ASSUME NEW o \in Outpoints, FetchTip(o) \/ Uncache(o)
      PROVE  IInv' /\ [Abstract!Next]_(Abstract!vars)
  BY <1>9, FetchTipStep, UncacheStep
<1>10. ASSUME NEW o \in Outpoints, NEW c \in Coins, NEW overwrite \in BOOLEAN,
              AddCoin(o, c, overwrite)
       PROVE  IInv' /\ [Abstract!Next]_(Abstract!vars)
  BY <1>10, AddStep DEF Abstract!Next
<1>11. ASSUME NEW b \in Blocks, SetBestBlock(b)
       PROVE  IInv' /\ [Abstract!Next]_(Abstract!vars)
  BY <1>11, SetBestStep DEF Abstract!Next
<1>12. QED
  BY <1>1, <1>2, <1>3, <1>4, <1>5, <1>6, <1>7, <1>8, <1>9, <1>10, <1>11 DEF Next

\* The invariant holds throughout.
LEMMA Invariance == Spec => []IInv
BY Initially, Step, PTL DEF Spec

\* For every set of outpoints and coins: the DIRTY and FRESH flags of both
\* caches are valid and truthful after any sequence of AddCoin, SpendCoin,
\* fetches, flushes, dropped views and restarts, and BatchWrite never throws.
THEOREM CachesSound == Spec => []CachesConsistent
<1>1. IInv => CachesConsistent
  BY DEF IInv, TipSound, ViewSound, Sound, CachesConsistent, EntriesValid, FlagsTruthful,
         FreshNeverMisapplied
<1>2. QED
  BY <1>1, Invariance, PTL

\* For every set of outpoints and coins: the stack of caches over the
\* database is indistinguishable from the three maps of UtxoSet.
THEOREM CachesImplementUtxoSet == Spec => ImplementsUtxoSet
BY Initially, Invariance, Step, PTL DEF Spec, ImplementsUtxoSet, Abstract!Spec
=============================================================================
