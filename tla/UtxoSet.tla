------------------------------ MODULE UtxoSet ------------------------------
(***************************************************************************)
(* What the stack of coin views (coins.h) promises to validation: three    *)
(* plain maps from outpoints to coins, each with the block it belongs to.  *)
(* `chainstate' is what the node works with, `scratch' the copy a block is *)
(* being connected or disconnected on, and `disk' what a restart finds.    *)
(* There are no caches, entries or flags here.                             *)
(***************************************************************************)
CONSTANTS Outpoints,   \* COutPoint
          Coins,       \* Coin: unspent outputs
          Spent,       \* a coin that IsSpent(): never created, or spent
          Blocks,      \* block hashes
          Genesis,     \* the best block of a new chainstate
          Closed       \* no view is open

VARIABLES disk, chainstate, scratch,
          moved        \* the coin the last SpendCoin or AccessCoin gave

vars == <<disk, chainstate, scratch, moved>>

Utxo == [coins: [Outpoints -> Coins \cup {Spent}], best: Blocks]

\* Three maps, the third only while a block is being worked on.
TypeOK ==
  /\ disk \in Utxo
  /\ chainstate \in Utxo
  /\ scratch \in Utxo \cup {Closed}
  /\ moved \in Coins \cup {Spent}

Init ==
  /\ disk = [coins |-> [o \in Outpoints |-> Spent], best |-> Genesis]
  /\ chainstate = disk
  /\ scratch = Closed
  /\ moved = Spent

\* A block is connected or disconnected on a copy ...
Open ==
  /\ scratch = Closed
  /\ scratch' = chainstate
  /\ UNCHANGED <<disk, chainstate, moved>>

Read(o) ==
  /\ scratch # Closed
  /\ moved' = scratch.coins[o]
  /\ UNCHANGED <<disk, chainstate, scratch>>

Add(o, c) ==
  /\ scratch # Closed
  /\ scratch' = [scratch EXCEPT !.coins[o] = c]
  /\ UNCHANGED <<disk, chainstate, moved>>

Spend(o) ==
  /\ scratch # Closed
  /\ moved' = scratch.coins[o]
  /\ scratch' = [scratch EXCEPT !.coins[o] = Spent]
  /\ UNCHANGED <<disk, chainstate>>

SetBest(b) ==
  /\ scratch # Closed
  /\ scratch' = [scratch EXCEPT !.best = b]
  /\ UNCHANGED <<disk, chainstate, moved>>

\* ... that takes effect as a whole or not at all.
Commit ==
  /\ scratch # Closed
  /\ chainstate' = scratch
  /\ scratch' = Closed
  /\ UNCHANGED <<disk, moved>>

Discard ==
  /\ scratch # Closed
  /\ scratch' = Closed
  /\ UNCHANGED <<disk, chainstate, moved>>

\* Coins and best block reach the disk together.
Flush ==
  /\ scratch = Closed
  /\ disk' = chainstate
  /\ UNCHANGED <<chainstate, scratch, moved>>

Crash ==
  /\ chainstate' = disk
  /\ scratch' = Closed
  /\ UNCHANGED <<disk, moved>>

Next ==
  \/ Open \/ Commit \/ Discard \/ Flush \/ Crash
  \/ \E o \in Outpoints : Read(o) \/ Spend(o) \/ \E c \in Coins : Add(o, c)
  \/ \E b \in Blocks : SetBest(b)

Spec == Init /\ [][Next]_vars
=============================================================================
