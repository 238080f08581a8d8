---------------------------- MODULE MCKernelSource ----------------------------
\* Small instances of KernelSource.
EXTENDS KernelSource

CONSTANTS g, a, b, t1, t2

Hdr(name, time, creates, spends) ==
    [name |-> name, time |-> time, creates |-> creates, spends |-> spends]

MCGenesis == Hdr(g, 0, {}, {})

\* Two branches from the block that creates t1.  Both spend it, in the transaction
\* that creates t2, at another height; the second branch is longer.  At time 3 a
\* coin of A2 is too young to be staked.
C1 == Hdr(g, 1, {t1}, {})
A2 == Hdr(a, 3, {t2}, {t1})
B2 == Hdr(b, 2, {}, {})
B3 == Hdr(b, 2, {t2}, {t1})

MCTree ==
    {<<MCGenesis>>, <<MCGenesis, C1>>, <<MCGenesis, C1, A2>>,
     <<MCGenesis, C1, B2>>, <<MCGenesis, C1, B2, B3>>}

NoLocator == {NoBlock}
AnyLocator == {NoBlock, GenesisBlock}
===============================================================================
