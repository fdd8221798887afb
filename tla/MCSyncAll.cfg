\* Three blocks (three AICs, six AIVs), two rounds: a core can be a whole round
\* ahead of another block's, and the AIC group has more than a pair.
SPECIFICATION Spec
CONSTANTS
  Block = {b1, b2, b3}
  NRounds = 2
INVARIANTS BarrierSafe FlagDepth
PROPERTIES ImplementsBarrier
SYMMETRY Perms
