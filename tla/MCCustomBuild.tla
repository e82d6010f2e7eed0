--------------------------- MODULE MCCustomBuild ---------------------------
EXTENDS CustomBuild, TLC

CONSTANTS b1, b2, d1, d2, d3

Symmetric == Permutations({b1, b2}) \union Permutations({d1, d2})
=============================================================================
