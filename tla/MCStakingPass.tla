---------------------------- MODULE MCStakingPass ----------------------------
\* A small instance of StakingPass.
EXTENDS StakingPass

CONSTANTS g, a, b, m, k

Hdr(name, creates, spends, bits) ==
    [name |-> name, time |-> 0, creates |-> creates, spends |-> spends, stakes |-> {}, bits |-> bits]

\* C1 has a minted coin m.  Two branches follow; the transaction that creates k is in
\* a block of each, at another height.  The first branch spends k, and the target
\* after it is harder to meet.
MCGenesis == Hdr(g, {}, {}, 2)
C1 == Hdr(g, {m}, {}, 2)
A2 == Hdr(a, {k}, {}, 2)
A3 == Hdr(a, {}, {k}, 1)
B2 == Hdr(b, {}, {}, 2)
B3 == Hdr(b, {k}, {}, 2)

MCFirst == <<MCGenesis, C1>>
MCTree ==
    {<<MCGenesis>>, MCFirst, MCFirst \o <<A2>>, MCFirst \o <<A2, A3>>,
     MCFirst \o <<B2>>, MCFirst \o <<B2, B3>>}

\* The kernel of m meets both targets on top of the second branch, where the modifier
\* is another one, and elsewhere the easier one only; that of k meets both with its
\* source in the first branch and none with its source in the second.
MCProofHash(c, from, prev) ==
    CASE c = m -> IF IsAncestor(MCFirst \o <<B2>>, prev) THEN 1 ELSE 2
      [] c = k -> IF Header(from).name = a THEN 1 ELSE 3
==============================================================================
