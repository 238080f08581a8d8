--------------------------- MODULE MCStakeModifier ---------------------------
\* Small instances of StakeModifier.
EXTENDS StakeModifier

H(time, hash, pos, proof) == [time |-> time, hash |-> hash, pos |-> pos, proof |-> proof]

\* Genesis opens the second modifier interval.
MCGenesis == H(2, 8, FALSE, 1)

\* Two proof-of-work headers that begin branches, one of them late enough to
\* give genesis' coins their modifier, and two later headers.
MCHeaders ==
    {H(3, 1, FALSE, 2), H(5, 2, FALSE, 3), H(6, 3, TRUE, 1), H(6, 5, FALSE, 0), H(8, 7, TRUE, 2)}

\* Some hash: it tells its arguments apart.
MCSelectionHash(proof, modifier) == 8 + ((3 * proof + 5 * modifier) % 7)
=============================================================================
