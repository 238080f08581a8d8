------------------------------ MODULE TxRequest ------------------------------
(***************************************************************************)
(* The transaction request tracker (txrequest.cpp) and the handlers of     *)
(* net_processing.cpp that call it: which peer a transaction is asked of   *)
(* when several announce it, answer late, refuse, stay silent or leave.    *)
(*                                                                         *)
(* The tracker keeps the announcements of a transaction sorted by state    *)
(* and priority and moves them one at a time, so that the best candidate   *)
(* is always marked as such.  It is called under cs_main only.  What the   *)
(* transaction's announcements promise together is TxAnnouncements.        *)
(*                                                                         *)
(* Times are relative to the clock, which may be set back.  A transaction  *)
(* has one hash (no witness), and a peer that connects again is a new one. *)
(***************************************************************************)
EXTENDS Integers, FiniteSets

CONSTANTS
    Txs, Peers,
    None,           \* no transaction
    Announces,      \* <<x, p>>: peer p may announce transaction x, or send an orphan of it
    Parent,         \* transaction -> the one it spends from, or None
    Honest,         \* peers that stay, and send what they are asked for
    Preferred,      \* fPreferredDownload
    Priority,       \* transaction -> peer -> what PriorityComputer gives
    NonPrefDelay,   \* NONPREF_PEER_TX_DELAY
    TxidRelayDelay, \* TXID_RELAY_DELAY
    OverloadDelay,  \* OVERLOADED_PEER_TX_DELAY
    MaxInFlight,    \* MAX_PEER_TX_REQUEST_IN_FLIGHT
    MaxAnnounced,   \* MAX_PEER_TX_ANNOUNCEMENTS
    Interval,       \* GETDATA_TX_INTERVAL
    MaxUpsets       \* bound on how often the clock is set back, a peer disconnects or
                    \* a transaction is lost, in all

ASSUME TxRequestAssumption ==
    /\ None \notin Txs
    /\ Announces \subseteq Txs \X Peers
    /\ Priority \in [Txs -> [Peers -> Nat]]
    /\ \A n \in {NonPrefDelay, TxidRelayDelay, OverloadDelay, Interval, MaxUpsets} : n \in Nat

VARIABLES
    state,          \* transaction -> peer -> the state of its announcement
    time,           \* transaction -> peer -> m_time, less the current time
    pending,        \* honest peer -> transactions it was asked for and has not answered
    have,           \* transactions for which AlreadyHaveTx is true
    busy,           \* SendMessages has cs_main and is in SetTimePoint
    upsets          \* how many upsets there were

vars == <<state, time, pending, have, busy, upsets>>

States == {"none", "delayed", "ready", "best", "requested", "completed"}
IsSelected(s) == s \in {"best", "requested"}
IsWaiting(s) == s \in {"delayed", "requested"}
IsSelectable(s) == s \in {"ready", "best"}
NonCompleted(s) == s \notin {"none", "completed"}

-----------------------------------------------------------------------------
(***************************************************************************)
(* The tracker: functions on the announcements of one transaction.         *)
(***************************************************************************)

\* The announcements in r after p's has become a candidate for transaction x.
PromoteCandidateReady(x, r, p) ==
    LET other == Peers \ {p}
        better(q) == Priority[x][p] > Priority[x][q]
        blocked == \E q \in other :
                      \/ r[q] = "requested"
                      \/ r[q] \in {"ready", "best"} /\ ~better(q)
    IN  [q \in Peers |-> IF q = p THEN IF blocked THEN "ready" ELSE "best"
                         ELSE IF r[q] = "best" /\ ~blocked THEN "ready" ELSE r[q]]

NextBestMutant(x, r, p) == {p}
\* The candidate that comes next if p's announcement is no longer selected; p
\* itself stands for no change.
NextBest(x, r, p) ==
    LET ready == {q \in Peers \ {p} : r[q] = "ready"}
    IN  IF IsSelected(r[p]) /\ ready # {}
        THEN {q \in ready : \A o \in ready : Priority[x][o] <= Priority[x][q]}
        ELSE {p}

ChangeAndReselect(r, p, s, next) ==
    [q \in Peers |-> IF q = p THEN s ELSE IF q = next THEN "best" ELSE r[q]]

IsOnlyNonCompleted(r, p) ==
    NonCompleted(r[p]) /\ \A q \in Peers \ {p} : ~NonCompleted(r[q])

Nothing == [p \in Peers |-> "none"]
MakeCompleted(r, p, next) ==
    IF ~NonCompleted(r[p]) THEN r
    ELSE IF IsOnlyNonCompleted(r, p) THEN Nothing
    ELSE ChangeAndReselect(r, p, "completed", next)

\* Times are kept of announcements that are not completed.
Timed(r, t) == [p \in Peers |-> IF NonCompleted(r[p]) THEN t[p] ELSE 0]

\* The announcements of x become r.
SetRow(x, r) ==
    /\ state' = [state EXCEPT ![x] = r]
    /\ time' = [time EXCEPT ![x] = Timed(r, time[x])]

Tracked(p) == {x \in Txs : state[x][p] # "none"}
Count(p) == Cardinality(Tracked(p))

-----------------------------------------------------------------------------
(***************************************************************************)
(* Messages that arrive.                                                   *)
(***************************************************************************)

\* AddTxAnnouncement for peer p, where inflight is CountInFlight: what x's
\* announcements and times become.  Announced by txid, it waits longer.
Delay(p, inflight, byTxid) ==
    (IF p \in Preferred THEN 0 ELSE NonPrefDelay)
    + (IF byTxid THEN TxidRelayDelay ELSE 0)
    + (IF inflight >= MaxInFlight THEN OverloadDelay ELSE 0)

InFlight(p) == {x \in Txs : state[x][p] = "requested"}

ReceivedInv(x, p, byTxid) ==
    /\ ~busy
    /\ x \notin have /\ state[x][p] = "none" /\ Count(p) < MaxAnnounced
    /\ state' = [state EXCEPT ![x][p] = "delayed"]
    /\ time' = [time EXCEPT ![x][p] = Delay(p, Cardinality(InFlight(p)), byTxid)]
    /\ UNCHANGED <<pending, have, busy, upsets>>

Answered(x, p) == pending' = [o \in Honest |-> IF o = p THEN pending[o] \ {x} ELSE pending[o]]

ReceivedResponse(x, p) ==
    /\ ~busy
    /\ \E next \in NextBest(x, state[x], p) : SetRow(x, MakeCompleted(state[x], p, next))
    /\ Answered(x, p)
    /\ UNCHANGED <<have, busy, upsets>>

\* NOTFOUND, or a transaction without its witness.
ReceivedNotFound(x, p) == p \notin Honest /\ ReceivedResponse(x, p)

\* A transaction that enters the mempool or the reject filter.
ReceivedTx(x, p) ==
    /\ ~busy
    /\ x \notin have
    /\ SetRow(x, Nothing)
    /\ have' = have \cup {x}
    /\ Answered(x, p)
    /\ UNCHANGED <<busy, upsets>>

\* A transaction whose parent is missing: the peer is taken to announce the parent.
ReceivedOrphan(x, p) ==
    LET y == Parent[x]
        inflight == Cardinality(InFlight(p) \ {x})
        gone == IF IsOnlyNonCompleted(state[x], p) THEN {x} ELSE {}
        heard == /\ y \notin have /\ state[y][p] = "none"
                 /\ Cardinality(Tracked(p) \ gone) < MaxAnnounced
    IN  /\ ~busy
        /\ x \notin have /\ y \in Txs \ {x} /\ <<y, p>> \in Announces
        /\ state' = [state EXCEPT ![x] = Nothing, ![y][p] = IF heard THEN "delayed" ELSE @]
        /\ time' = [time EXCEPT ![x] = Timed(Nothing, @),
                                ![y][p] = IF heard THEN Delay(p, inflight, TRUE) ELSE @]
        /\ have' = have \cup {x}
        /\ Answered(x, p)
        /\ UNCHANGED <<busy, upsets>>

\* A copy of a transaction that is there already.
ReceivedKnownTx(x, p) == x \in have /\ ReceivedResponse(x, p)

\* The transaction is found in a block or sent by RPC; the tracker is told later,
\* or in SendMessages.
TxFound(x) ==
    /\ ~busy
    /\ have' = have \cup {x}
    /\ UNCHANGED <<state, time, pending, busy, upsets>>

ForgetTxHash(x) ==
    /\ ~busy /\ x \in have
    /\ SetRow(x, Nothing)
    /\ UNCHANGED <<pending, have, busy, upsets>>

Upset == upsets < MaxUpsets /\ upsets' = upsets + 1

\* It leaves the mempool, or the filter it was in is reset.
TxLost(x) ==
    /\ ~busy
    /\ x \in have /\ Upset
    /\ have' = have \ {x}
    /\ UNCHANGED <<state, time, pending, busy>>

Erased(r, p) == [r EXCEPT ![p] = "none"]
DisconnectedPeer(p) ==
    /\ ~busy /\ p \notin Honest /\ Upset
    /\ \E next \in [Txs -> Peers] :
          LET after == [x \in Txs |-> Erased(MakeCompleted(state[x], p, next[x]), p)]
          IN  /\ \A x \in Txs : next[x] \in NextBest(x, state[x], p)
              /\ state' = after
              /\ time' = [x \in Txs |-> Timed(after[x], time[x])]
    /\ UNCHANGED <<pending, have, busy>>

Shifted(t, d) == IF t + d < -MaxUpsets THEN -MaxUpsets ELSE t + d
Clock(d) ==
    /\ ~busy
    /\ time' = [x \in Txs |-> [p \in Peers |->
                   IF NonCompleted(state[x][p]) THEN Shifted(time[x][p], d) ELSE time[x][p]]]
    /\ UNCHANGED <<state, pending, have, busy>>
Tick == Clock(-1) /\ UNCHANGED upsets
SetBack == Clock(1) /\ Upset

-----------------------------------------------------------------------------
(***************************************************************************)
(* SendMessages, with cs_main held: GetRequestable, whose SetTimePoint     *)
(* takes one announcement at a time and does not depend on the peer, and   *)
(* the requests, which do.                                                 *)
(***************************************************************************)

SendMessages ==
    /\ ~busy
    /\ busy' = TRUE
    /\ UNCHANGED <<state, time, pending, have, upsets>>

All == Txs \X Peers
DueMutant == {a \in All : state[a[1]][a[2]] = "delayed" /\ time[a[1]][a[2]] <= 0}
Due == {a \in All : IsWaiting(state[a[1]][a[2]]) /\ time[a[1]][a[2]] <= 0}
EarlyMutant == {}
Early == {a \in All : IsSelectable(state[a[1]][a[2]]) /\ time[a[1]][a[2]] > 0}

\* The first of the announcements whose time has come.
Promote(x, p) ==
    /\ busy
    /\ <<x, p>> \in Due /\ \A a \in Due : time[x][p] <= time[a[1]][a[2]]
    /\ state[x][p] = "delayed"
    /\ SetRow(x, PromoteCandidateReady(x, state[x], p))
    /\ UNCHANGED <<pending, have, busy, upsets>>

Expire(x, p) ==
    /\ busy
    /\ <<x, p>> \in Due /\ \A a \in Due : time[x][p] <= time[a[1]][a[2]]
    /\ state[x][p] = "requested"
    /\ \E next \in NextBest(x, state[x], p) : SetRow(x, MakeCompleted(state[x], p, next))
    /\ UNCHANGED <<pending, have, busy, upsets>>

\* The last of those whose time is to come again, as the clock was set back.
Demote(x, p) ==
    /\ busy
    /\ Due = {}
    /\ <<x, p>> \in Early /\ \A a \in Early : time[a[1]][a[2]] <= time[x][p]
    /\ \E next \in NextBest(x, state[x], p) :
          SetRow(x, ChangeAndReselect(state[x], p, "delayed", next))
    /\ UNCHANGED <<pending, have, busy, upsets>>

\* GetRequestable returns the best candidates of the peer whose messages are sent;
\* each of them is asked for, or forgotten if it is not needed any more.
Requestable(p) == {x \in Txs : state[x][p] = "best"}
RequestedTx(p) ==
    LET asked == Requestable(p) \ have
        after == [x \in Txs |-> IF x \in asked THEN [state[x] EXCEPT ![p] = "requested"]
                                ELSE IF x \in Requestable(p) THEN Nothing ELSE state[x]]
    IN  /\ busy /\ Due = {} /\ Early = {}
        /\ state' = after
        /\ time' = [x \in Txs |-> IF x \in asked THEN [time[x] EXCEPT ![p] = Interval]
                                  ELSE Timed(after[x], time[x])]
        /\ pending' = [o \in Honest |-> IF o = p THEN pending[o] \cup asked ELSE pending[o]]
        /\ busy' = FALSE
        /\ UNCHANGED <<have, upsets>>

-----------------------------------------------------------------------------
Init ==
    /\ state = [x \in Txs |-> Nothing]
    /\ time = [x \in Txs |-> [p \in Peers |-> 0]]
    /\ pending = [p \in Honest |-> {}]
    /\ have = {} /\ busy = FALSE /\ upsets = 0

Pass ==
    \/ SendMessages
    \/ \E x \in Txs, p \in Peers : Promote(x, p) \/ Expire(x, p) \/ Demote(x, p)
    \/ \E p \in Peers : RequestedTx(p)

Message ==
    \/ \E a \in Announces, byTxid \in BOOLEAN : ReceivedInv(a[1], a[2], byTxid)
    \/ \E x \in Txs, p \in Peers :
          \/ ReceivedNotFound(x, p) \/ ReceivedTx(x, p)
          \/ ReceivedOrphan(x, p) \/ ReceivedKnownTx(x, p)
    \/ \E p \in Peers : DisconnectedPeer(p)

Next ==
    \/ Pass \/ Message \/ Tick \/ SetBack
    \/ \E x \in Txs : TxFound(x) \/ ForgetTxHash(x) \/ TxLost(x)

Spec == Init /\ [][Next]_vars

Offers == {a \in Announces : a[2] \in Honest}

\* The message thread serves every peer in turn, time passes, and an honest peer
\* sends a transaction it was asked for, early or late.
Fairness ==
    /\ WF_vars(Pass) /\ SF_vars(Tick)
    /\ \A p \in Peers : SF_vars(RequestedTx(p))
    /\ \A a \in Offers : SF_vars(a[1] \in pending[a[2]] /\ ReceivedTx(a[1], a[2]))
FairSpec == Spec /\ Fairness

-----------------------------------------------------------------------------
(***************************************************************************)
(* Properties.                                                             *)
(***************************************************************************)

\* Every variable has its type, and completed announcements keep no time.
TypeOK ==
    /\ state \in [Txs -> [Peers -> States]]
    /\ time \in [Txs -> [Peers -> Int]]
    /\ \A x \in Txs, p \in Peers : ~NonCompleted(state[x][p]) => time[x][p] = 0
    /\ pending \in [Honest -> SUBSET Txs] /\ have \subseteq Txs
    /\ busy \in BOOLEAN /\ upsets \in Nat

\* SanityCheck: a transaction is not kept for completed announcements alone; at
\* most one peer is selected; one is if any is ready; and a best candidate is at
\* least as good as all that are ready.
Sane(x, r) ==
    /\ \A p \in Peers : r[p] = "completed" => \E q \in Peers : NonCompleted(r[q])
    /\ \A p, q \in Peers : IsSelected(r[p]) /\ IsSelected(r[q]) => p = q
    /\ \A p \in Peers : r[p] = "ready" => \E q \in Peers : IsSelected(r[q])
    /\ \A p, q \in Peers :
          r[p] = "best" /\ r[q] = "ready" => Priority[x][q] <= Priority[x][p]
SanityCheck == \A x \in Txs : Sane(x, state[x])

\* The tracker's index is well formed and passes SanityCheck, also in the middle of
\* SetTimePoint.
TrackerConsistent == TypeOK /\ SanityCheck

\* The states as the caller sees them.
Status(r) ==
    [p \in Peers |-> IF r[p] \in {"delayed", "ready", "best"} THEN "candidate" ELSE r[p]]
Abstract(x) == INSTANCE TxAnnouncements WITH
    status <- Status(state[x]), due <- time[x], Priority <- Priority[x], Since <- MaxUpsets

\* The tracker does for every transaction what its header says: a request goes to
\* the best peer that may be asked, none while another is outstanding, never to the
\* same peer twice, and failed peers are forgotten when no other is left.
ImplementsAnnouncements ==
    /\ \A x \in Txs : Abstract(x)!Init
    /\ [][\A x \in Txs : Abstract(x)!Step]_vars

\* A transaction that an honest peer has announced is received in the end, from
\* whichever peer, whatever the other peers announce, withhold or answer late and
\* however the clock was set back.
HonestPeerServed ==
    \A a \in Offers : NonCompleted(state[a[1]][a[2]]) ~> a[1] \in have
===============================================================================
