---------------------------- MODULE MCCatalogue ----------------------------
EXTENDS Catalogue, TLC

CONSTANTS br1, br2, t1, t2, b1, d1, r1, v1, w1, w2

\* Two rows of one or of two seats, or one seat at the place of A2 labelled A1.
TwoGrids == {<<2, 1>>, <<2, 2>>}
OneList == {{[place |-> <<2, 1>>, label |-> [letter |-> 1, number |-> 1]]}}

Symmetry == Permutations({br1, br2}) \cup Permutations({t1, t2})
              \cup Permutations({w1, w2})
=============================================================================
