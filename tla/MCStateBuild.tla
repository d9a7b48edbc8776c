----------------------------- MODULE MCStateBuild ----------------------------
EXTENDS StateBuild, TLC

CONSTANTS a, b

\* Every job runs the whole chain.
WholeChain == [j \in Jobs |-> N]

\* The jobs do the same.
Symmetry == Permutations({a, b})
=============================================================================
