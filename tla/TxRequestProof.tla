--------------------------- MODULE TxRequestProof ---------------------------
(***************************************************************************)
(* The transaction request tracker, for any number of transactions and     *)
(* peers and any delays: its consistency, and that it implements           *)
(* TxAnnouncements.                                                        *)
(*                                                                         *)
(* Inv is inductive as it stands.  The work is in lemmas on the row of one *)
(* transaction: what each function of the tracker does to a sane row.      *)
(***************************************************************************)
EXTENDS TxRequest, TLAPS

Rows == [Peers -> States]
Inv == TypeOK /\ SanityCheck

-----------------------------------------------------------------------------
(***************************************************************************)
(* Rows.                                                                   *)
(***************************************************************************)

\* A row without announcements is sane.
LEMMA NothingSane ==
    ASSUME NEW x \in Txs
    PROVE  Nothing \in Rows /\ Sane(x, Nothing)
BY DEF Sane, Nothing, Rows, States, NonCompleted, IsSelected

\* ReceivedInv keeps a row sane.
LEMMA AddedSane ==
    ASSUME NEW x \in Txs, NEW r \in Rows, NEW p \in Peers, Sane(x, r), r[p] = "none"
    PROVE  [r EXCEPT ![p] = "delayed"] \in Rows /\ Sane(x, [r EXCEPT ![p] = "delayed"])
BY DEF Sane, Rows, States, NonCompleted, IsSelected

\* RequestedTx keeps a row sane: its peer was selected, so no other is.
LEMMA RequestedSane ==
    ASSUME NEW x \in Txs, NEW r \in Rows, NEW p \in Peers, Sane(x, r), r[p] = "best"
    PROVE  [r EXCEPT ![p] = "requested"] \in Rows /\ Sane(x, [r EXCEPT ![p] = "requested"])
BY DEF Sane, Rows, States, NonCompleted, IsSelected

\* PromoteCandidateReady keeps a row sane: the new candidate is marked as the best
\* exactly if it is better than the one that is marked and nothing is requested.
LEMMA PromotedSane ==
    ASSUME NEW x \in Txs, NEW r \in Rows, NEW p \in Peers, Sane(x, r), r[p] = "delayed"
    PROVE  /\ PromoteCandidateReady(x, r, p) \in Rows
           /\ Sane(x, PromoteCandidateReady(x, r, p))
<1> DEFINE t == PromoteCandidateReady(x, r, p)
           blocked == \E q \in Peers \ {p} :
                         \/ r[q] = "requested"
                         \/ r[q] \in {"ready", "best"} /\ ~(Priority[x][p] > Priority[x][q])
<1>1. t = [q \in Peers |-> IF q = p THEN IF blocked THEN "ready" ELSE "best"
                           ELSE IF r[q] = "best" /\ ~blocked THEN "ready" ELSE r[q]]
    BY DEF PromoteCandidateReady
<1>2. \A q \in Peers : Priority[x][q] \in Nat
    BY TxRequestAssumption
<1> HIDE DEF t
<1>3. t \in Rows
    BY <1>1 DEF Rows, States
<1>4. NonCompleted(t[p])
    BY <1>1 DEF NonCompleted
<1>5. CASE blocked
    <2>1. t = [r EXCEPT ![p] = "ready"]
        BY <1>1, <1>5 DEF Rows
    <2>2. \E q \in Peers : IsSelected(r[q])
        BY <1>5 DEF Sane, IsSelected
    <2>3. \A q \in Peers : r[q] = "best" => Priority[x][p] <= Priority[x][q]
        <3> SUFFICES ASSUME NEW q \in Peers, r[q] = "best"
                     PROVE  Priority[x][p] <= Priority[x][q]
            OBVIOUS
        <3>1. PICK o \in Peers \ {p} :
                 \/ r[o] = "requested"
                 \/ r[o] \in {"ready", "best"} /\ ~(Priority[x][p] > Priority[x][o])
            BY <1>5
        <3>2. r[o] # "requested"
            BY DEF Sane, IsSelected
        <3>3. r[o] = "best" => o = q
            BY DEF Sane, IsSelected
        <3>4. Priority[x][o] <= Priority[x][q]
            BY <1>2, <3>1, <3>2, <3>3 DEF Sane
        <3> QED BY <1>2, <3>1, <3>2, <3>4
    <2> QED BY <1>2, <1>3, <2>1, <2>2, <2>3 DEF Sane, Rows, NonCompleted, IsSelected, t
<1>6. CASE ~blocked
    <2>1. /\ t[p] = "best"
          /\ \A q \in Peers \ {p} : /\ r[q] # "requested"
                                    /\ t[q] = IF r[q] = "best" THEN "ready" ELSE r[q]
                                    /\ r[q] \in {"ready", "best"} =>
                                          Priority[x][q] <= Priority[x][p]
        BY <1>1, <1>2, <1>6
    <2>2. \A q \in Peers : t[q] = "best" \/ t[q] = "requested" => q = p
        BY <2>1
    <2>3. \A q \in Peers : t[q] = "ready" => Priority[x][q] <= Priority[x][p]
        BY <2>1
    <2> QED BY <1>3, <1>4, <2>1, <2>2, <2>3 DEF Sane, IsSelected, t
<1> QED BY <1>5, <1>6

\* NextBest gives a candidate that is ready and as good as all that are, or p itself
\* if p was not selected or none is ready.
LEMMA NextBestIsBest ==
    ASSUME NEW x \in Txs, NEW r \in Rows, NEW p \in Peers, NEW n \in NextBest(x, r, p)
    PROVE  /\ n \in Peers
           /\ n # p => /\ r[n] = "ready" /\ IsSelected(r[p])
                       /\ \A q \in Peers \ {p} :
                             r[q] = "ready" => Priority[x][q] <= Priority[x][n]
           /\ n = p => \/ ~IsSelected(r[p])
                       \/ \A q \in Peers \ {p} : r[q] # "ready"
BY DEF NextBest

LEMMA NextBestIsReady ==
    ASSUME NEW x \in Txs, NEW r \in Rows, NEW p \in Peers, NEW n \in NextBest(x, r, p), n # p
    PROVE  r[n] = "ready"
BY DEF NextBest

\* ChangeAndReselect keeps a row sane, if it is not left with failed announcements
\* alone.
LEMMA ReselectedSane ==
    ASSUME NEW x \in Txs, NEW r \in Rows, NEW p \in Peers, Sane(x, r),
           NEW n \in NextBest(x, r, p), NEW s \in {"delayed", "completed"},
           s = "completed" => \E q \in Peers \ {p} : NonCompleted(r[q])
    PROVE  ChangeAndReselect(r, p, s, n) \in Rows /\ Sane(x, ChangeAndReselect(r, p, s, n))
<1> DEFINE t == ChangeAndReselect(r, p, s, n)
<1>1. t = [q \in Peers |-> IF q = p THEN s ELSE IF q = n THEN "best" ELSE r[q]]
    BY DEF ChangeAndReselect
<1> HIDE DEF t
<1>2. t \in Rows
    BY <1>1 DEF Rows, States
<1>3. \A q \in Peers : NonCompleted(r[q]) /\ q # p => NonCompleted(t[q])
    BY <1>1 DEF NonCompleted
<1>4. \E q \in Peers : NonCompleted(t[q])
    BY <1>1, <1>3 DEF NonCompleted
<1>5. CASE n # p
    <2>1. /\ t[n] = "best" /\ t[p] = s
          /\ \A q \in Peers \ {p, n} : t[q] = r[q] /\ ~IsSelected(r[q])
        BY <1>1, <1>5, NextBestIsBest DEF Sane
    <2>2. \A q \in Peers : IsSelected(t[q]) <=> q = n
        BY <1>5, <2>1, NextBestIsBest DEF IsSelected
    <2>3. \A q \in Peers : t[q] = "ready" => Priority[x][q] <= Priority[x][n]
        BY <1>5, <2>1, NextBestIsBest
    <2> QED BY <1>2, <1>4, <2>2, <2>3, NextBestIsBest DEF Sane, IsSelected, t
<1>6. CASE n = p
    <2>1. t[p] = s /\ \A q \in Peers \ {p} : t[q] = r[q]
        BY <1>1, <1>6
    <2>2. \A q \in Peers : t[q] = "ready" => \E o \in Peers \ {p} : IsSelected(r[o])
        BY <1>6, <2>1, NextBestIsBest DEF Sane
    <2> QED BY <1>2, <1>4, <2>1, <2>2 DEF Sane, IsSelected, t
<1> QED BY <1>5, <1>6

\* MakeCompleted keeps a row sane.
LEMMA CompletedSane ==
    ASSUME NEW x \in Txs, NEW r \in Rows, NEW p \in Peers, Sane(x, r),
           NEW n \in NextBest(x, r, p)
    PROVE  MakeCompleted(r, p, n) \in Rows /\ Sane(x, MakeCompleted(r, p, n))
<1>1. CASE NonCompleted(r[p]) /\ ~IsOnlyNonCompleted(r, p)
    <2>1. \E q \in Peers \ {p} : NonCompleted(r[q])
        BY <1>1 DEF IsOnlyNonCompleted
    <2> QED BY <1>1, <2>1, ReselectedSane DEF MakeCompleted
<1> QED BY <1>1, NothingSane DEF MakeCompleted

\* Erasing what MakeCompleted has left of a peer keeps a row sane.
LEMMA ErasedSane ==
    ASSUME NEW x \in Txs, NEW r \in Rows, NEW p \in Peers, Sane(x, r), ~NonCompleted(r[p])
    PROVE  Erased(r, p) \in Rows /\ Sane(x, Erased(r, p))
BY DEF Erased, Sane, Rows, States, NonCompleted, IsSelected

LEMMA CompletedIsCompleted ==
    ASSUME NEW r \in Rows, NEW p \in Peers, NEW n
    PROVE  ~NonCompleted(MakeCompleted(r, p, n)[p])
BY DEF MakeCompleted, ChangeAndReselect, Nothing, NonCompleted

-----------------------------------------------------------------------------
(***************************************************************************)
(* The invariant.                                                          *)
(***************************************************************************)

\* What Inv says of the announcements, as the other variables are easily kept.
RowsOK ==
    /\ state \in [Txs -> Rows]
    /\ time \in [Txs -> [Peers -> Int]]
    /\ \A x \in Txs, p \in Peers : ~NonCompleted(state[x][p]) => time[x][p] = 0
    /\ SanityCheck

OthersOK ==
    /\ pending \in [Honest -> SUBSET Txs] /\ have \subseteq Txs
    /\ busy \in BOOLEAN /\ upsets \in Nat

LEMMA InvIsBoth == Inv <=> RowsOK /\ OthersOK
BY DEF Inv, TypeOK, RowsOK, OthersOK, Rows

LEMMA InitInv == Init => Inv
<1> SUFFICES ASSUME Init PROVE Inv
    OBVIOUS
<1>1. RowsOK
    BY NothingSane DEF Init, RowsOK, SanityCheck
<1>2. OthersOK
    BY DEF Init, OthersOK
<1> QED BY <1>1, <1>2, InvIsBoth

\* Timed gives times that fit the row.
LEMMA TimedFits ==
    ASSUME NEW r, NEW t \in [Peers -> Int]
    PROVE  /\ Timed(r, t) \in [Peers -> Int]
           /\ \A p \in Peers : ~NonCompleted(r[p]) => Timed(r, t)[p] = 0
BY DEF Timed

\* Giving one transaction a sane row keeps the announcements right.
LEMMA SetRowOK ==
    ASSUME RowsOK, NEW x \in Txs, NEW r \in Rows, Sane(x, r), SetRow(x, r)
    PROVE  RowsOK'
<1>1. state' = [state EXCEPT ![x] = r] /\ time' = [time EXCEPT ![x] = Timed(r, time[x])]
    BY DEF SetRow
<1>2. /\ Timed(r, time[x]) \in [Peers -> Int]
      /\ \A p \in Peers : ~NonCompleted(r[p]) => Timed(r, time[x])[p] = 0
    BY TimedFits DEF RowsOK
<1>3. state' \in [Txs -> Rows] /\ time' \in [Txs -> [Peers -> Int]]
    BY <1>1, <1>2 DEF RowsOK
<1>4. /\ state'[x] = r /\ time'[x] = Timed(r, time[x])
      /\ \A y \in Txs \ {x} : state'[y] = state[y] /\ time'[y] = time[y]
    BY <1>1 DEF RowsOK
<1>5. \A y \in Txs, p \in Peers : ~NonCompleted(state'[y][p]) => time'[y][p] = 0
    <2> TAKE y \in Txs, p \in Peers
    <2>1. CASE y = x
        BY <1>2, <1>4, <2>1
    <2>2. CASE y # x
        BY <1>4, <2>2 DEF RowsOK
    <2> QED BY <2>1, <2>2
<1>6. \A y \in Txs : Sane(y, state'[y])
    <2> TAKE y \in Txs
    <2>1. CASE y = x
        BY <1>4, <2>1
    <2>2. CASE y # x
        BY <1>4, <2>2 DEF RowsOK, SanityCheck
    <2> QED BY <2>1, <2>2
<1> QED BY <1>3, <1>5, <1>6 DEF RowsOK, SanityCheck

\* Adding an announcement with a delay keeps the announcements right.
LEMMA AnnouncedOK ==
    ASSUME RowsOK, NEW x \in Txs, NEW p \in Peers, NEW d \in Int, state[x][p] = "none",
           state' = [state EXCEPT ![x][p] = "delayed"], time' = [time EXCEPT ![x][p] = d]
    PROVE  RowsOK'
<1>1. state[x] \in Rows /\ Sane(x, state[x])
    BY DEF RowsOK, SanityCheck
<1>2. /\ [state[x] EXCEPT ![p] = "delayed"] \in Rows
      /\ Sane(x, [state[x] EXCEPT ![p] = "delayed"])
    BY <1>1, AddedSane
<1>3. /\ state'[x] = [state[x] EXCEPT ![p] = "delayed"]
      /\ \A y \in Txs \ {x} : state'[y] = state[y] /\ time'[y] = time[y]
    BY DEF RowsOK
<1>4. state' \in [Txs -> Rows] /\ time' \in [Txs -> [Peers -> Int]]
    BY <1>2 DEF RowsOK
<1>5. \A y \in Txs : Sane(y, state'[y])
    BY <1>2, <1>3 DEF RowsOK, SanityCheck
<1>6. \A y \in Txs, q \in Peers : ~NonCompleted(state'[y][q]) => time'[y][q] = 0
    <2> TAKE y \in Txs, q \in Peers
    <2>1. CASE y = x /\ q = p
        BY <1>1, <1>3, <2>1 DEF NonCompleted, Rows
    <2>2. CASE ~(y = x /\ q = p)
        BY <2>2 DEF RowsOK, Rows
    <2> QED BY <2>1, <2>2
<1> QED BY <1>4, <1>5, <1>6 DEF RowsOK, SanityCheck

LEMMA DelayIsNat ==
    ASSUME NEW p, NEW n, NEW byTxid \in BOOLEAN
    PROVE  Delay(p, n, byTxid) \in Nat
<1> DEFINE a == IF p \in Preferred THEN 0 ELSE NonPrefDelay
           b == IF byTxid THEN TxidRelayDelay ELSE 0
           c == IF n >= MaxInFlight THEN OverloadDelay ELSE 0
<1>1. a \in Nat /\ b \in Nat /\ c \in Nat
    BY TxRequestAssumption
<1>2. Delay(p, n, byTxid) = a + b + c
    BY DEF Delay
<1> HIDE DEF a, b, c
<1> QED BY <1>1, <1>2

\* A response from a peer, or the expiry of a request to it.
LEMMA CompletedOK ==
    ASSUME RowsOK, NEW x \in Txs, NEW p \in Peers,
           \E n \in NextBest(x, state[x], p) : SetRow(x, MakeCompleted(state[x], p, n))
    PROVE  RowsOK'
<1>1. PICK n \in NextBest(x, state[x], p) : SetRow(x, MakeCompleted(state[x], p, n))
    OBVIOUS
<1>2. state[x] \in Rows /\ Sane(x, state[x])
    BY DEF RowsOK, SanityCheck
<1>3. /\ MakeCompleted(state[x], p, n) \in Rows
      /\ Sane(x, MakeCompleted(state[x], p, n))
    BY <1>2, CompletedSane
<1> QED BY <1>1, <1>3, SetRowOK

LEMMA ForgottenOK ==
    ASSUME RowsOK, NEW x \in Txs, SetRow(x, Nothing)
    PROVE  RowsOK'
BY NothingSane, SetRowOK

\* An orphan is forgotten and its parent announced, in one step.
LEMMA OrphanOK ==
    ASSUME RowsOK, NEW x \in Txs, NEW p \in Peers, ReceivedOrphan(x, p)
    PROVE  RowsOK'
<1> DEFINE y == Parent[x]
           heard == /\ y \notin have /\ state[y][p] = "none"
                    /\ Cardinality(Tracked(p) \ (IF IsOnlyNonCompleted(state[x], p)
                                                 THEN {x} ELSE {})) < MaxAnnounced
           d == Delay(p, Cardinality(InFlight(p) \ {x}), TRUE)
<1>1. /\ y \in Txs /\ y # x
      /\ state' = [state EXCEPT ![x] = Nothing, ![y][p] = IF heard THEN "delayed" ELSE @]
      /\ time' = [time EXCEPT ![x] = Timed(Nothing, @), ![y][p] = IF heard THEN d ELSE @]
    BY DEF ReceivedOrphan
<1>2. d \in Nat
    BY DelayIsNat
<1>3. heard => state[y][p] = "none"
    OBVIOUS
<1> HIDE DEF y, heard, d
<1>4. state[y] \in Rows /\ Sane(y, state[y]) /\ time[y] \in [Peers -> Int]
    BY <1>1 DEF RowsOK, SanityCheck
<1> DEFINE r == IF heard THEN [state[y] EXCEPT ![p] = "delayed"] ELSE state[y]
           t == IF heard THEN [time[y] EXCEPT ![p] = d] ELSE time[y]
<1>5. r \in Rows /\ Sane(y, r)
    <2>1. CASE heard
        <3>1. /\ [state[y] EXCEPT ![p] = "delayed"] \in Rows
              /\ Sane(y, [state[y] EXCEPT ![p] = "delayed"])
            BY <1>1, <1>3, <1>4, <2>1, AddedSane
        <3> QED BY <2>1, <3>1
    <2>2. CASE ~heard
        BY <1>4, <2>2
    <2> QED BY <2>1, <2>2
<1>6. t \in [Peers -> Int] /\ \A q \in Peers : ~NonCompleted(r[q]) => t[q] = 0
    BY <1>1, <1>2, <1>4 DEF RowsOK, Rows, NonCompleted
<1>7. state' = [[state EXCEPT ![x] = Nothing] EXCEPT ![y] = r]
    BY <1>1, <1>4 DEF RowsOK, Rows
<1>8. time' = [[time EXCEPT ![x] = Timed(Nothing, time[x])] EXCEPT ![y] = t]
    BY <1>1, <1>4 DEF RowsOK
<1> HIDE DEF r, t
<1>9. /\ Timed(Nothing, time[x]) \in [Peers -> Int]
      /\ \A q \in Peers : ~NonCompleted(Nothing[q]) => Timed(Nothing, time[x])[q] = 0
    BY TimedFits DEF RowsOK
<1>10. state' \in [Txs -> Rows] /\ time' \in [Txs -> [Peers -> Int]]
    BY <1>5, <1>6, <1>7, <1>8, <1>9, NothingSane DEF RowsOK
<1>11. /\ state'[x] = Nothing /\ time'[x] = Timed(Nothing, time[x])
       /\ state'[y] = r /\ time'[y] = t
       /\ \A z \in Txs \ {x, y} : state'[z] = state[z] /\ time'[z] = time[z]
    BY <1>1, <1>7, <1>8 DEF RowsOK
<1>12. \A z \in Txs : Sane(z, state'[z])
    BY <1>1, <1>5, <1>11, NothingSane DEF RowsOK, SanityCheck
<1>13. \A z \in Txs, q \in Peers : ~NonCompleted(state'[z][q]) => time'[z][q] = 0
    <2> TAKE z \in Txs, q \in Peers
    <2>1. CASE z = x
        BY <1>9, <1>11, <2>1
    <2>2. CASE z = y
        BY <1>6, <1>11, <2>2
    <2>3. CASE z \notin {x, y}
        BY <1>11, <2>3 DEF RowsOK
    <2> QED BY <2>1, <2>2, <2>3
<1> QED BY <1>10, <1>12, <1>13 DEF RowsOK, SanityCheck

\* Every announcement of a peer that leaves is completed and erased.
LEMMA DisconnectedOK ==
    ASSUME RowsOK, NEW p \in Peers, DisconnectedPeer(p)
    PROVE  RowsOK'
<1>1. PICK next \in [Txs -> Peers] :
         /\ \A x \in Txs : next[x] \in NextBest(x, state[x], p)
         /\ state' = [x \in Txs |-> Erased(MakeCompleted(state[x], p, next[x]), p)]
         /\ time' = [x \in Txs |->
                        Timed(Erased(MakeCompleted(state[x], p, next[x]), p), time[x])]
    BY DEF DisconnectedPeer
<1>2. ASSUME NEW x \in Txs
      PROVE  /\ state'[x] \in Rows /\ Sane(x, state'[x])
             /\ time'[x] \in [Peers -> Int]
             /\ \A q \in Peers : ~NonCompleted(state'[x][q]) => time'[x][q] = 0
    <2> DEFINE r == MakeCompleted(state[x], p, next[x])
    <2>1. state[x] \in Rows /\ Sane(x, state[x]) /\ time[x] \in [Peers -> Int]
        BY DEF RowsOK, SanityCheck
    <2>2. r \in Rows /\ Sane(x, r) /\ ~NonCompleted(r[p])
        BY <1>1, <2>1, CompletedSane, CompletedIsCompleted
    <2>3. state'[x] = Erased(r, p) /\ time'[x] = Timed(Erased(r, p), time[x])
        BY <1>1
    <2> HIDE DEF r
    <2>4. Erased(r, p) \in Rows /\ Sane(x, Erased(r, p))
        BY <2>2, ErasedSane
    <2> QED BY <2>1, <2>3, <2>4, TimedFits
<1>3. state' = [x \in Txs |-> state'[x]] /\ time' = [x \in Txs |-> time'[x]]
    BY <1>1
<1> QED BY <1>2, <1>3 DEF RowsOK, SanityCheck

\* Time passes or is set back.
LEMMA ClockOK ==
    ASSUME RowsOK, NEW d \in Int, Clock(d)
    PROVE  RowsOK'
<1>1. \A t \in Int : Shifted(t, d) \in Int
    BY TxRequestAssumption DEF Shifted
<1>2. /\ state' = state
      /\ time' = [x \in Txs |-> [p \in Peers |->
                     IF NonCompleted(state[x][p]) THEN Shifted(time[x][p], d) ELSE time[x][p]]]
    BY DEF Clock
<1>3. time' \in [Txs -> [Peers -> Int]]
    BY <1>1, <1>2 DEF RowsOK
<1>4. \A x \in Txs, p \in Peers : ~NonCompleted(state'[x][p]) => time'[x][p] = 0
    BY <1>2 DEF RowsOK
<1> QED BY <1>2, <1>3, <1>4 DEF RowsOK, SanityCheck

\* What a pass does to one transaction of which peer p is the best candidate.
LEMMA RequestedRow ==
    ASSUME RowsOK, NEW p \in Peers, RequestedTx(p), NEW x \in Txs
    PROVE  \/ /\ state[x][p] = "best" /\ x \notin have
              /\ state'[x] = [state[x] EXCEPT ![p] = "requested"]
              /\ time'[x] = [time[x] EXCEPT ![p] = Interval]
           \/ state'[x] = Nothing /\ time'[x] = Timed(Nothing, time[x])
           \/ state'[x] = state[x] /\ time'[x] = Timed(state[x], time[x])
<1> DEFINE asked == Requestable(p) \ have
           after == [z \in Txs |-> IF z \in asked THEN [state[z] EXCEPT ![p] = "requested"]
                                   ELSE IF z \in Requestable(p) THEN Nothing ELSE state[z]]
<1>1. /\ state' = after
      /\ time' = [z \in Txs |-> IF z \in asked THEN [time[z] EXCEPT ![p] = Interval]
                                ELSE Timed(after[z], time[z])]
    BY DEF RequestedTx
<1>2. CASE x \in asked
    BY <1>1, <1>2 DEF Requestable
<1>3. CASE x \in Requestable(p) \ asked
    BY <1>1, <1>3
<1>4. CASE x \notin Requestable(p)
    BY <1>1, <1>4
<1> QED BY <1>2, <1>3, <1>4

LEMMA RequestedOK ==
    ASSUME RowsOK, NEW p \in Peers, RequestedTx(p)
    PROVE  RowsOK'
<1>1. ASSUME NEW x \in Txs
      PROVE  /\ state'[x] \in Rows /\ Sane(x, state'[x])
             /\ time'[x] \in [Peers -> Int]
             /\ \A q \in Peers : ~NonCompleted(state'[x][q]) => time'[x][q] = 0
    <2>1. state[x] \in Rows /\ Sane(x, state[x]) /\ time[x] \in [Peers -> Int]
        BY DEF RowsOK, SanityCheck
    <2>2. CASE /\ state[x][p] = "best"
               /\ state'[x] = [state[x] EXCEPT ![p] = "requested"]
               /\ time'[x] = [time[x] EXCEPT ![p] = Interval]
        <3>1. state'[x] \in Rows /\ Sane(x, state'[x])
            BY <2>1, <2>2, RequestedSane
        <3>2. time'[x] \in [Peers -> Int]
            BY <2>1, <2>2, TxRequestAssumption
        <3>3. \A q \in Peers : ~NonCompleted(state'[x][q]) => time'[x][q] = 0
            BY <2>1, <2>2 DEF RowsOK, Rows, NonCompleted
        <3> QED BY <3>1, <3>2, <3>3
    <2>3. CASE state'[x] = Nothing /\ time'[x] = Timed(Nothing, time[x])
        BY <2>1, <2>3, NothingSane, TimedFits
    <2>4. CASE state'[x] = state[x] /\ time'[x] = Timed(state[x], time[x])
        BY <2>1, <2>4, TimedFits
    <2> QED BY <2>2, <2>3, <2>4, RequestedRow
<1>2. state' = [x \in Txs |-> state'[x]] /\ time' = [x \in Txs |-> time'[x]]
    BY DEF RequestedTx
<1> QED BY <1>1, <1>2 DEF RowsOK, SanityCheck

\* Every step keeps the announcements right.
LEMMA NextRows ==
    ASSUME Inv, [Next]_vars
    PROVE  RowsOK'
<1>0. RowsOK
    BY InvIsBoth
<1>1. ASSUME NEW a \in Announces, NEW b \in BOOLEAN, ReceivedInv(a[1], a[2], b)
      PROVE  RowsOK'
    <2>1. a[1] \in Txs /\ a[2] \in Peers
        BY TxRequestAssumption
    <2>2. Delay(a[2], Cardinality(InFlight(a[2])), b) \in Int
        BY DelayIsNat
    <2> QED BY <1>0, <1>1, <2>1, <2>2, AnnouncedOK DEF ReceivedInv
<1>2. ASSUME NEW x \in Txs, NEW p \in Peers, ReceivedResponse(x, p)
      PROVE  RowsOK'
    BY <1>0, <1>2, CompletedOK DEF ReceivedResponse
<1>3. ASSUME NEW x \in Txs, NEW p \in Peers, ReceivedTx(x, p)
      PROVE  RowsOK'
    BY <1>0, <1>3, ForgottenOK DEF ReceivedTx
<1>4. ASSUME NEW x \in Txs, NEW p \in Peers, ReceivedOrphan(x, p)
      PROVE  RowsOK'
    BY <1>0, <1>4, OrphanOK
<1>5. ASSUME NEW p \in Peers, DisconnectedPeer(p)
      PROVE  RowsOK'
    BY <1>0, <1>5, DisconnectedOK
<1>6. CASE Tick \/ SetBack
    BY <1>0, <1>6, ClockOK DEF Tick, SetBack
<1>7. ASSUME NEW x \in Txs, ForgetTxHash(x)
      PROVE  RowsOK'
    BY <1>0, <1>7, ForgottenOK DEF ForgetTxHash
<1>8. ASSUME NEW x \in Txs, NEW p \in Peers, Promote(x, p)
      PROVE  RowsOK'
    <2>1. /\ state[x] \in Rows /\ Sane(x, state[x]) /\ state[x][p] = "delayed"
          /\ SetRow(x, PromoteCandidateReady(x, state[x], p))
        BY <1>0, <1>8 DEF RowsOK, SanityCheck, Promote
    <2> QED BY <1>0, <2>1, PromotedSane, SetRowOK
<1>9. ASSUME NEW x \in Txs, NEW p \in Peers, Expire(x, p)
      PROVE  RowsOK'
    BY <1>0, <1>9, CompletedOK DEF Expire
<1>10. ASSUME NEW x \in Txs, NEW p \in Peers, Demote(x, p)
       PROVE  RowsOK'
    <2>1. PICK n \in NextBest(x, state[x], p) :
             SetRow(x, ChangeAndReselect(state[x], p, "delayed", n))
        BY <1>10 DEF Demote
    <2>2. state[x] \in Rows /\ Sane(x, state[x])
        BY <1>0 DEF RowsOK, SanityCheck
    <2>3. /\ ChangeAndReselect(state[x], p, "delayed", n) \in Rows
          /\ Sane(x, ChangeAndReselect(state[x], p, "delayed", n))
        BY <2>2, ReselectedSane
    <2> QED BY <1>0, <2>1, <2>3, SetRowOK
<1>11. ASSUME NEW p \in Peers, RequestedTx(p)
       PROVE  RowsOK'
    BY <1>0, <1>11, RequestedOK
<1>12. CASE UNCHANGED <<state, time>>
    BY <1>0, <1>12 DEF RowsOK, SanityCheck
<1> QED
    BY <1>1, <1>2, <1>3, <1>4, <1>5, <1>6, <1>7, <1>8, <1>9, <1>10, <1>11, <1>12
    DEF Next, Pass, Message, ReceivedNotFound, ReceivedKnownTx, SendMessages, TxFound,
        TxLost, vars

\* Every step keeps the other variables right.
LEMMA NextOthers ==
    ASSUME Inv, [Next]_vars
    PROVE  OthersOK'
<1>0. OthersOK
    BY InvIsBoth
<1>1. ASSUME NEW a \in Announces, NEW b \in BOOLEAN, ReceivedInv(a[1], a[2], b)
      PROVE  OthersOK'
    BY <1>0, <1>1 DEF ReceivedInv, OthersOK
<1>2. ASSUME NEW x \in Txs, NEW p \in Peers,
             ReceivedResponse(x, p) \/ ReceivedTx(x, p) \/ ReceivedOrphan(x, p)
      PROVE  OthersOK'
    <2>1. /\ Answered(x, p) /\ UNCHANGED <<busy, upsets>>
          /\ have' = have \/ have' = have \cup {x}
        BY <1>2 DEF ReceivedResponse, ReceivedTx, ReceivedOrphan
    <2> QED BY <1>0, <2>1 DEF Answered, OthersOK
<1>3. ASSUME NEW p \in Peers, DisconnectedPeer(p)
      PROVE  OthersOK'
    <2>1. UNCHANGED <<pending, have, busy>> /\ upsets' = upsets + 1
        BY <1>3 DEF DisconnectedPeer, Upset
    <2> QED BY <1>0, <2>1 DEF OthersOK
<1>4. CASE Tick \/ SetBack
    <2>1. UNCHANGED <<pending, have, busy>> /\ (upsets' = upsets \/ upsets' = upsets + 1)
        BY <1>4 DEF Tick, SetBack, Clock, Upset
    <2> QED BY <1>0, <2>1 DEF OthersOK
<1>5. ASSUME NEW x \in Txs, TxFound(x) \/ ForgetTxHash(x) \/ TxLost(x)
      PROVE  OthersOK'
    BY <1>0, <1>5 DEF TxFound, ForgetTxHash, TxLost, Upset, OthersOK
<1>6. CASE SendMessages
    BY <1>0, <1>6 DEF SendMessages, OthersOK
<1>7. ASSUME NEW x \in Txs, NEW p \in Peers, Promote(x, p) \/ Expire(x, p) \/ Demote(x, p)
      PROVE  OthersOK'
    BY <1>0, <1>7 DEF Promote, Expire, Demote, OthersOK
<1>8. ASSUME NEW p \in Peers, RequestedTx(p)
      PROVE  OthersOK'
    <2>1. /\ pending' = [o \in Honest |-> IF o = p THEN pending[o] \cup (Requestable(p) \ have)
                                          ELSE pending[o]]
          /\ busy' = FALSE /\ UNCHANGED <<have, upsets>>
        BY <1>8 DEF RequestedTx
    <2>2. Requestable(p) \subseteq Txs
        BY DEF Requestable
    <2> QED BY <1>0, <2>1, <2>2 DEF OthersOK
<1>9. CASE UNCHANGED vars
    BY <1>0, <1>9 DEF OthersOK, vars
<1> QED
    BY <1>1, <1>2, <1>3, <1>4, <1>5, <1>6, <1>7, <1>8, <1>9
    DEF Next, Pass, Message, ReceivedNotFound, ReceivedKnownTx

LEMMA NextInv == Inv /\ [Next]_vars => Inv'
<1> SUFFICES ASSUME Inv, [Next]_vars PROVE Inv'
    OBVIOUS
<1>1. RowsOK' /\ OthersOK'
    BY NextRows, NextOthers
<1> QED BY <1>1 DEF Inv, TypeOK, RowsOK, OthersOK, Rows

LEMMA InvHolds == Spec => []Inv
BY InitInv, NextInv, PTL DEF Spec

\* Whatever peers announce, answer or withhold, however time passes, and in the
\* middle of SetTimePoint too, the assertions of SanityCheck hold: every transaction
\* with a candidate whose time has come has exactly one selected peer, the best one
\* unless another has been asked, and failed announcements are not kept alone.
THEOREM TrackerSound == Spec => []TrackerConsistent
<1>1. Inv => TrackerConsistent
    BY DEF Inv, TrackerConsistent
<1> QED BY <1>1, InvHolds, PTL

-----------------------------------------------------------------------------
(***************************************************************************)
(* The refinement: what each action does to the announcements of one       *)
(* transaction is a step of TxAnnouncements.                               *)
(***************************************************************************)

\* The row and the times of the transaction have their types, and completed or
\* absent announcements have no time.
RowOK(r, t) ==
    /\ r \in Rows /\ t \in [Peers -> Int]
    /\ \A p \in Peers : ~NonCompleted(r[p]) => t[p] = 0

LEMMA StatusOpen ==
    ASSUME NEW r \in Rows, NEW p \in Peers
    PROVE  Status(r)[p] \in {"candidate", "requested"} <=> NonCompleted(r[p])
BY DEF Status, Rows, States, NonCompleted

\* Times that fit a row are left alone by Timed if the row keeps what is open.
LEMMA TimedKeeps ==
    ASSUME NEW r, NEW t, RowOK(r, t), NEW u,
           \A p \in Peers : NonCompleted(u[p]) <=> NonCompleted(r[p])
    PROVE  Timed(u, t) = t
BY DEF Timed, RowOK

\* A step that leaves the statuses and the times alone.
LEMMA StutterRefines ==
    ASSUME NEW x \in Txs, Status(state'[x]) = Status(state[x]), time'[x] = time[x]
    PROVE  Abstract(x)!Step
BY DEF Abstract!Step, Abstract!vars, Status

\* ForgetTxHash.
LEMMA ForgetRefines ==
    ASSUME NEW x \in Txs, state'[x] = Nothing, time'[x] = Timed(Nothing, time[x])
    PROVE  Abstract(x)!Step
<1>1. Status(state'[x]) = [p \in Peers |-> "none"]
    BY DEF Status, Nothing
<1>2. time'[x] = [p \in Peers |-> 0]
    BY DEF Timed, Nothing, NonCompleted
<1>3. Abstract(x)!Forget
    BY <1>1, <1>2 DEF Abstract!Forget, Status
<1> QED BY <1>3 DEF Abstract!Step, Abstract!Next

\* An announcement.
LEMMA AnnounceRefines ==
    ASSUME NEW x \in Txs, RowOK(state[x], time[x]), NEW p \in Peers, NEW d \in Nat,
           state[x][p] = "none",
           state'[x] = [state[x] EXCEPT ![p] = "delayed"],
           time'[x] = [time[x] EXCEPT ![p] = d]
    PROVE  Abstract(x)!Step
<1>1. Status(state[x])[p] = "none"
    BY DEF Status
<1>2. Status(state'[x]) = [Status(state[x]) EXCEPT ![p] = "candidate"]
    BY DEF Status, RowOK, Rows
<1>3. time'[x][p] = d
    BY DEF RowOK
<1>4. Abstract(x)!Announce(p)
    BY <1>1, <1>2, <1>3 DEF Abstract!Announce, Status
<1> QED BY <1>4 DEF Abstract!Step, Abstract!Next

\* MakeCompleted, which reselects a candidate and forgets a failed transaction.
LEMMA FailRefines ==
    ASSUME NEW x \in Txs, RowOK(state[x], time[x]), NEW p \in Peers,
           NEW n \in NextBest(x, state[x], p),
           state'[x] = MakeCompleted(state[x], p, n),
           time'[x] = Timed(state'[x], time[x])
    PROVE  Abstract(x)!Step
<1>0. state[x] \in Rows
    BY DEF RowOK
<1>1. CASE ~NonCompleted(state[x][p])
    <2>1. state'[x] = state[x]
        BY <1>1 DEF MakeCompleted
    <2>2. time'[x] = time[x]
        BY <2>1, TimedKeeps
    <2> QED BY <2>1, <2>2, StutterRefines
<1>2. CASE IsOnlyNonCompleted(state[x], p)
    <2>1. state'[x] = Nothing
        BY <1>2 DEF MakeCompleted, IsOnlyNonCompleted
    <2> QED BY <2>1, ForgetRefines
<1>3. CASE NonCompleted(state[x][p]) /\ ~IsOnlyNonCompleted(state[x], p)
    <2>1. state'[x] = ChangeAndReselect(state[x], p, "completed", n)
        BY <1>3 DEF MakeCompleted
    <2>2. n # p => state[x][n] = "ready"
        BY <1>0, NextBestIsReady
    <2>3. Status(state'[x]) = [Status(state[x]) EXCEPT ![p] = "completed"]
        BY <2>1, <2>2 DEF Status, ChangeAndReselect
    <2>4. time'[x] = [time[x] EXCEPT ![p] = 0]
        <3>1. \A q \in Peers : NonCompleted(state'[x][q]) <=> q # p /\ NonCompleted(state[x][q])
            BY <2>1, <2>2 DEF ChangeAndReselect, NonCompleted
        <3> QED BY <3>1 DEF Timed, RowOK
    <2>5. Abstract(x)!Open(p)
        BY <1>0, <1>3, StatusOpen DEF Abstract!Open
    <2>6. ~Abstract(x)!OnlyOpen(p)
        BY <1>0, <1>3, StatusOpen DEF Abstract!OnlyOpen, Abstract!Open, IsOnlyNonCompleted
    <2>7. Abstract(x)!Fail(p)
        BY <2>3, <2>4, <2>5, <2>6 DEF Abstract!Fail, Status
    <2> QED BY <2>7 DEF Abstract!Step, Abstract!Next
<1> QED BY <1>1, <1>2, <1>3

\* A peer leaves.
LEMMA LeaveRefines ==
    ASSUME NEW x \in Txs, RowOK(state[x], time[x]), NEW p \in Peers,
           NEW n \in NextBest(x, state[x], p),
           upsets' = upsets + 1,
           state'[x] = Erased(MakeCompleted(state[x], p, n), p),
           time'[x] = Timed(state'[x], time[x])
    PROVE  Abstract(x)!Step
<1>0. state[x] \in Rows
    BY DEF RowOK
<1>1. CASE IsOnlyNonCompleted(state[x], p)
    <2>1. state'[x] = Nothing
        BY <1>1 DEF MakeCompleted, IsOnlyNonCompleted, Erased, Nothing
    <2> QED BY <2>1, ForgetRefines
<1>2. CASE ~IsOnlyNonCompleted(state[x], p)
    <2>1. n # p => state[x][n] = "ready"
        BY <1>0, NextBestIsReady
    <2>2. \A q \in Peers : state'[x][q] = IF q = p THEN "none"
                                          ELSE IF NonCompleted(state[x][p]) /\ q = n THEN "best"
                                          ELSE state[x][q]
        BY <1>0, <1>2 DEF Erased, MakeCompleted, ChangeAndReselect, Rows
    <2>3. Status(state'[x]) = [Status(state[x]) EXCEPT ![p] = "none"]
        BY <2>1, <2>2 DEF Status
    <2>4. time'[x] = [time[x] EXCEPT ![p] = 0]
        <3>1. \A q \in Peers : NonCompleted(state'[x][q]) <=> q # p /\ NonCompleted(state[x][q])
            BY <2>1, <2>2 DEF NonCompleted
        <3> QED BY <3>1 DEF Timed, RowOK
    <2>5. ~(Abstract(x)!Open(p) /\ Abstract(x)!OnlyOpen(p))
        BY <1>0, <1>2, StatusOpen DEF Abstract!OnlyOpen, Abstract!Open, IsOnlyNonCompleted
    <2>6. Abstract(x)!Leave(p)
        BY <2>3, <2>4, <2>5 DEF Abstract!Leave, Status
    <2> QED BY <2>6 DEF Abstract!Step, Abstract!Next
<1> QED BY <1>1, <1>2

\* A pass asks the best candidate: by the time it does, no announcement that is due
\* is still waiting and none that is selected is early.
LEMMA RequestRefines ==
    ASSUME RowsOK, NEW x \in Txs, NEW p \in Peers, Due = {}, Early = {},
           state[x][p] = "best",
           state'[x] = [state[x] EXCEPT ![p] = "requested"],
           time'[x] = [time[x] EXCEPT ![p] = Interval]
    PROVE  Abstract(x)!Step
<1>1. state[x] \in Rows /\ Sane(x, state[x]) /\ time[x] \in [Peers -> Int]
    BY DEF RowsOK, SanityCheck
<1>2. \A q \in Peers : <<x, q>> \notin Due /\ <<x, q>> \notin Early
    OBVIOUS
<1>3. \A q \in Peers : /\ state[x][q] \in {"delayed", "requested"} => ~(time[x][q] <= 0)
                       /\ state[x][q] \in {"ready", "best"} => ~(time[x][q] > 0)
    BY <1>2 DEF Due, Early, All, IsWaiting, IsSelectable
<1>4. Abstract(x)!Viable(p)
    BY <1>1, <1>3 DEF Abstract!Viable, Status
<1>5. \A q \in Peers : Status(state[x])[q] # "requested"
    BY <1>1 DEF Status, Sane, IsSelected
<1>6. ASSUME NEW q \in Peers, Abstract(x)!Viable(q)
      PROVE  Priority[x][q] <= Priority[x][p]
    <2>1. state[x][q] \in {"ready", "best"}
        BY <1>1, <1>3, <1>6 DEF Abstract!Viable, Status, Rows, States
    <2>2. Priority[x][p] \in Nat
        BY TxRequestAssumption
    <2>3. CASE state[x][q] = "best"
        <3>1. q = p
            BY <1>1, <2>3 DEF Sane, IsSelected
        <3> QED BY <2>2, <3>1
    <2>4. CASE state[x][q] = "ready"
        BY <1>1, <2>4 DEF Sane
    <2> QED BY <2>1, <2>3, <2>4
<1>7. Status(state'[x]) = [Status(state[x]) EXCEPT ![p] = "requested"]
    BY <1>1 DEF Status, Rows
<1>8. Abstract(x)!Request(p)
    BY <1>4, <1>5, <1>6, <1>7 DEF Abstract!Request, Status
<1> QED BY <1>8 DEF Abstract!Step, Abstract!Next

\* Time passes or is set back.
LEMMA ClockRefines ==
    ASSUME RowsOK, NEW x \in Txs, NEW d \in {-1, 1}, Clock(d)
    PROVE  Abstract(x)!Step
<1>1. state[x] \in Rows
    BY DEF RowsOK
<1>2. /\ state' = state
      /\ time'[x] = [p \in Peers |-> IF NonCompleted(state[x][p])
                                     THEN Shifted(time[x][p], d) ELSE time[x][p]]
    BY DEF Clock
<1>3. time'[x] = [p \in Peers |->
                     IF ~(Status(state[x])[p] \in {"candidate", "requested"}) THEN time[x][p]
                     ELSE IF time[x][p] + d < -MaxUpsets THEN -MaxUpsets ELSE time[x][p] + d]
    BY <1>1, <1>2, StatusOpen DEF Shifted
<1>4. Abstract(x)!Clock(d)
    BY <1>2, <1>3 DEF Abstract!Clock, Abstract!Open, Status
<1> QED BY <1>4 DEF Abstract!Step, Abstract!Next

\* A change of one row that leaves the statuses alone, such as a promotion.
LEMMA ReorderRefines ==
    ASSUME RowsOK, NEW x \in Txs, NEW r \in Rows, SetRow(x, r), Status(r) = Status(state[x])
    PROVE  Abstract(x)!Step
<1>1. state[x] \in Rows /\ RowOK(state[x], time[x])
    BY DEF RowsOK, RowOK
<1>2. state'[x] = r /\ time'[x] = Timed(r, time[x])
    BY DEF SetRow, RowsOK
<1>3. \A p \in Peers : NonCompleted(r[p]) <=> NonCompleted(state[x][p])
    BY <1>1, StatusOpen
<1>4. time'[x] = time[x]
    BY <1>1, <1>2, <1>3, TimedKeeps
<1> QED BY <1>2, <1>4, StutterRefines

\* A step that changes one transaction leaves the others alone.
LEMMA OthersStutter ==
    ASSUME RowsOK, NEW x \in Txs, NEW y \in Txs \ {x}, NEW r, SetRow(x, r)
    PROVE  Abstract(y)!Step
<1>1. state'[y] = state[y] /\ time'[y] = time[y]
    BY DEF SetRow, RowsOK
<1> QED BY <1>1, StutterRefines

LEMMA InitRefines == Init => \A x \in Txs : Abstract(x)!Init
BY DEF Init, Abstract!Init, Status, Nothing

\* The announcements of every transaction make a step of TxAnnouncements.
LEMMA NextRefines ==
    ASSUME Inv, [Next]_vars, NEW y \in Txs
    PROVE  Abstract(y)!Step
<1>0. RowsOK /\ RowOK(state[y], time[y])
    <2>1. RowsOK
        BY InvIsBoth
    <2> QED BY <2>1 DEF RowsOK, RowOK
<1>1. ASSUME NEW a \in Announces, NEW b \in BOOLEAN, ReceivedInv(a[1], a[2], b)
      PROVE  Abstract(y)!Step
    <2> DEFINE d == Delay(a[2], Cardinality(InFlight(a[2])), b)
    <2>1. a[1] \in Txs /\ a[2] \in Peers
        BY TxRequestAssumption
    <2>2. d \in Nat
        BY DelayIsNat
    <2>3. /\ state[a[1]][a[2]] = "none"
          /\ state' = [state EXCEPT ![a[1]][a[2]] = "delayed"]
          /\ time' = [time EXCEPT ![a[1]][a[2]] = d]
        BY <1>1 DEF ReceivedInv
    <2> HIDE DEF d
    <2>4. CASE y = a[1]
        <3>1. /\ state'[y] = [state[y] EXCEPT ![a[2]] = "delayed"]
              /\ time'[y] = [time[y] EXCEPT ![a[2]] = d]
            BY <1>0, <2>3, <2>4 DEF RowsOK
        <3> QED BY <1>0, <2>1, <2>2, <2>3, <2>4, <3>1, AnnounceRefines
    <2>5. CASE y # a[1]
        <3>1. state'[y] = state[y] /\ time'[y] = time[y]
            BY <1>0, <2>3, <2>5 DEF RowsOK
        <3> QED BY <3>1, StutterRefines
    <2> QED BY <2>4, <2>5
<1>2. ASSUME NEW x \in Txs, NEW p \in Peers,
             \E n \in NextBest(x, state[x], p) : SetRow(x, MakeCompleted(state[x], p, n))
      PROVE  Abstract(y)!Step
    <2>1. PICK n \in NextBest(x, state[x], p) : SetRow(x, MakeCompleted(state[x], p, n))
        BY <1>2
    <2>2. CASE y = x
        <3>1. state'[y] = MakeCompleted(state[y], p, n) /\ time'[y] = Timed(state'[y], time[y])
            BY <1>0, <2>1, <2>2 DEF SetRow, RowsOK
        <3> QED BY <1>0, <2>2, <3>1, FailRefines
    <2>3. CASE y # x
        BY <1>0, <2>1, <2>3, OthersStutter
    <2> QED BY <2>2, <2>3
<1>3. ASSUME NEW x \in Txs, SetRow(x, Nothing)
      PROVE  Abstract(y)!Step
    <2>1. CASE y = x
        <3>1. state'[y] = Nothing /\ time'[y] = Timed(Nothing, time[y])
            BY <1>0, <1>3, <2>1 DEF SetRow, RowsOK
        <3> QED BY <3>1, ForgetRefines
    <2>2. CASE y # x
        BY <1>0, <1>3, <2>2, OthersStutter
    <2> QED BY <2>1, <2>2
<1>4. ASSUME NEW x \in Txs, NEW p \in Peers, ReceivedOrphan(x, p)
      PROVE  Abstract(y)!Step
    <2> DEFINE z == Parent[x]
               heard == /\ z \notin have /\ state[z][p] = "none"
                        /\ Cardinality(Tracked(p) \ (IF IsOnlyNonCompleted(state[x], p)
                                                     THEN {x} ELSE {})) < MaxAnnounced
               d == Delay(p, Cardinality(InFlight(p) \ {x}), TRUE)
    <2>1. /\ z \in Txs /\ z # x
          /\ state' = [state EXCEPT ![x] = Nothing, ![z][p] = IF heard THEN "delayed" ELSE @]
          /\ time' = [time EXCEPT ![x] = Timed(Nothing, @), ![z][p] = IF heard THEN d ELSE @]
        BY <1>4 DEF ReceivedOrphan
    <2>2. d \in Nat /\ (heard => state[z][p] = "none")
        BY DelayIsNat
    <2> HIDE DEF z, heard, d
    <2>3. CASE y = x
        <3>1. state'[y] = Nothing /\ time'[y] = Timed(Nothing, time[y])
            BY <1>0, <2>1, <2>3 DEF RowsOK
        <3> QED BY <3>1, ForgetRefines
    <2>4. CASE y = z /\ heard
        <3>1. /\ state'[y] = [state[y] EXCEPT ![p] = "delayed"]
              /\ time'[y] = [time[y] EXCEPT ![p] = d]
            BY <1>0, <2>1, <2>4 DEF RowsOK
        <3> QED BY <1>0, <2>2, <2>4, <3>1, AnnounceRefines
    <2>5. CASE y # x /\ ~(y = z /\ heard)
        <3>1. state'[y] = state[y] /\ time'[y] = time[y]
            BY <1>0, <2>1, <2>5 DEF RowsOK, Rows
        <3> QED BY <3>1, StutterRefines
    <2> QED BY <2>3, <2>4, <2>5
<1>5. ASSUME NEW p \in Peers, DisconnectedPeer(p)
      PROVE  Abstract(y)!Step
    <2>1. PICK next \in [Txs -> Peers] :
             /\ \A x \in Txs : next[x] \in NextBest(x, state[x], p)
             /\ state' = [x \in Txs |-> Erased(MakeCompleted(state[x], p, next[x]), p)]
             /\ time' = [x \in Txs |->
                            Timed(Erased(MakeCompleted(state[x], p, next[x]), p), time[x])]
        BY <1>5 DEF DisconnectedPeer
    <2>2. /\ state'[y] = Erased(MakeCompleted(state[y], p, next[y]), p)
          /\ time'[y] = Timed(state'[y], time[y])
        BY <2>1
    <2>3. upsets' = upsets + 1
        BY <1>5 DEF DisconnectedPeer, Upset
    <2> QED BY <1>0, <2>1, <2>2, <2>3, LeaveRefines
<1>6. CASE Tick \/ SetBack
    BY <1>0, <1>6, ClockRefines DEF Tick, SetBack
<1>7. ASSUME NEW x \in Txs, NEW r \in Rows, SetRow(x, r), Status(r) = Status(state[x])
      PROVE  Abstract(y)!Step
    BY <1>0, <1>7, ReorderRefines, OthersStutter
<1>8. ASSUME NEW x \in Txs, NEW p \in Peers, Promote(x, p)
      PROVE  Abstract(y)!Step
    <2> DEFINE r == PromoteCandidateReady(x, state[x], p)
    <2>1. /\ state[x] \in Rows /\ Sane(x, state[x]) /\ state[x][p] = "delayed"
          /\ SetRow(x, r)
        BY <1>0, <1>8 DEF RowsOK, SanityCheck, Promote
    <2>2. r \in Rows
        BY <2>1, PromotedSane
    <2>3. Status(r) = Status(state[x])
        BY <2>1 DEF Status, PromoteCandidateReady
    <2> QED BY <1>7, <2>1, <2>2, <2>3
<1>9. ASSUME NEW x \in Txs, NEW p \in Peers, Demote(x, p)
      PROVE  Abstract(y)!Step
    <2>1. PICK n \in NextBest(x, state[x], p) :
             SetRow(x, ChangeAndReselect(state[x], p, "delayed", n))
        BY <1>9 DEF Demote
    <2> DEFINE r == ChangeAndReselect(state[x], p, "delayed", n)
    <2>2. state[x] \in Rows /\ Sane(x, state[x]) /\ state[x][p] \in {"ready", "best"}
        BY <1>0, <1>9 DEF RowsOK, SanityCheck, Demote, Early, IsSelectable
    <2>3. r \in Rows
        BY <2>2, ReselectedSane
    <2>4. n # p => state[x][n] = "ready"
        BY <2>2, NextBestIsReady
    <2>5. Status(r) = Status(state[x])
        BY <2>2, <2>4 DEF Status, ChangeAndReselect
    <2> QED BY <1>7, <2>1, <2>3, <2>5
<1>10. ASSUME NEW p \in Peers, RequestedTx(p)
       PROVE  Abstract(y)!Step
    <2>1. Due = {} /\ Early = {}
        BY <1>10 DEF RequestedTx
    <2>2. CASE /\ state[y][p] = "best"
               /\ state'[y] = [state[y] EXCEPT ![p] = "requested"]
               /\ time'[y] = [time[y] EXCEPT ![p] = Interval]
        BY <1>0, <2>1, <2>2, RequestRefines
    <2>3. CASE state'[y] = Nothing /\ time'[y] = Timed(Nothing, time[y])
        BY <2>3, ForgetRefines
    <2>4. CASE state'[y] = state[y] /\ time'[y] = Timed(state[y], time[y])
        BY <1>0, <2>4, TimedKeeps, StutterRefines
    <2> QED BY <1>0, <1>10, <2>2, <2>3, <2>4, RequestedRow
<1>11. CASE UNCHANGED <<state, time>>
    BY <1>11, StutterRefines
<1>12. ASSUME NEW x \in Txs, NEW p \in Peers, ReceivedResponse(x, p) \/ Expire(x, p)
       PROVE  Abstract(y)!Step
    BY <1>2, <1>12 DEF ReceivedResponse, Expire
<1>13. ASSUME NEW x \in Txs, NEW p \in Peers, ReceivedTx(x, p)
       PROVE  Abstract(y)!Step
    BY <1>3, <1>13 DEF ReceivedTx
<1>14. ASSUME NEW x \in Txs, ForgetTxHash(x)
       PROVE  Abstract(y)!Step
    BY <1>3, <1>14 DEF ForgetTxHash
<1> QED
    BY <1>1, <1>4, <1>5, <1>6, <1>8, <1>9, <1>10, <1>11, <1>12, <1>13, <1>14
    DEF Next, Pass, Message, ReceivedNotFound, ReceivedKnownTx, SendMessages, TxFound,
        TxLost, vars

\* The tracker implements TxAnnouncements for every transaction: it is asked of the
\* best peer that may be asked, of none while another request is outstanding, of no
\* peer again that has failed as long as another is left, and never before its time.
THEOREM TrackerImplements == Spec => ImplementsAnnouncements
<1>1. Inv /\ [Next]_vars => \A x \in Txs : Abstract(x)!Step
    BY NextRefines
<1>2. Inv /\ [Next]_vars => [\A x \in Txs : Abstract(x)!Step]_vars
    BY <1>1
<1> QED BY <1>2, InitRefines, InvHolds, PTL DEF Spec, ImplementsAnnouncements
=============================================================================
