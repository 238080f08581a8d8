----------------------------- MODULE MCTxRequest -----------------------------
\* A small instance of TxRequest.
EXTENDS TxRequest

CONSTANTS child, source, h, q, r

\* Three peers announce child: an honest one that is not preferred, and two that rank
\* above it, one of them preferred.  Its parent source is announced by q, or
\* comes with child as an orphan.
MCAnnounces == {<<child, p>> : p \in Peers} \cup {<<source, q>>}
MCParent == [z \in {child, source} |-> IF z = child THEN source ELSE None]
MCPriority ==
    [z \in {child, source} |-> [p \in Peers |-> IF p = h THEN 1 ELSE IF p = r THEN 2 ELSE 3]]
==============================================================================
