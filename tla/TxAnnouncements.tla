--------------------------- MODULE TxAnnouncements ---------------------------
(***************************************************************************)
(* What the transaction request tracker promises, for one transaction:     *)
(* which peer it may be asked of, and when (the specification at the head  *)
(* of txrequest.h).                                                        *)
(*                                                                         *)
(* Times are relative to the clock: due[p] is how long it is until peer p  *)
(* may be asked or, once it has been, until the request has expired.       *)
(***************************************************************************)
EXTENDS Integers

CONSTANTS
    Peers,
    Priority,       \* peer -> its rank; preferred peers rank above the others
    Interval,       \* how long an answer is waited for
    Since           \* how long a time in the past is remembered

VARIABLES
    status, due,
    upsets          \* counts the peers that leave, and other events; it is not set here
vars == <<status, due>>

Open(p) == status[p] \in {"candidate", "requested"}
OnlyOpen(p) == \A q \in Peers \ {p} : ~Open(q)

Init ==
    /\ status = [p \in Peers |-> "none"]
    /\ due = [p \in Peers |-> 0]

\* A peer that announces the transaction again is not heard.
Announce(p) ==
    /\ status[p] = "none"
    /\ status' = [status EXCEPT ![p] = "candidate"]
    /\ due'[p] \in Nat
    /\ due' = [due EXCEPT ![p] = due'[p]]

Clock(d) ==
    /\ UNCHANGED status
    /\ due' = [p \in Peers |-> IF ~Open(p) THEN due[p]
                               ELSE IF due[p] + d < -Since THEN -Since ELSE due[p] + d]

\* No request is outstanding, and the peer is the best of those that may be asked.
Viable(p) == status[p] = "candidate" /\ due[p] <= 0
Request(p) ==
    /\ Viable(p)
    /\ \A q \in Peers : status[q] # "requested"
    /\ \A q \in Peers : Viable(q) => Priority[q] <= Priority[p]
    /\ status' = [status EXCEPT ![p] = "requested"]
    /\ due' = [due EXCEPT ![p] = Interval]

Forget ==
    /\ status' = [p \in Peers |-> "none"]
    /\ due' = [p \in Peers |-> 0]

\* An answer came, or the request has expired: the peer is not asked again as long
\* as another peer can be.
Fail(p) ==
    /\ Open(p)
    /\ IF OnlyOpen(p) THEN Forget
       ELSE /\ status' = [status EXCEPT ![p] = "completed"]
            /\ due' = [due EXCEPT ![p] = 0]

\* Nothing but leaving lets a peer that has failed be heard again before that.
Leave(p) ==
    /\ upsets' = upsets + 1
    /\ IF Open(p) /\ OnlyOpen(p) THEN Forget
       ELSE /\ status' = [status EXCEPT ![p] = "none"]
            /\ due' = [due EXCEPT ![p] = 0]

Next ==
    \/ \E d \in {-1, 1} : Clock(d)
    \/ Forget
    \/ \E p \in Peers : Announce(p) \/ Request(p) \/ Fail(p) \/ Leave(p)

Step == UNCHANGED vars \/ Next
Spec == Init /\ [][Next]_vars
=============================================================================
