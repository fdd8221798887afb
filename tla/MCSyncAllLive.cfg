\* Two blocks, two rounds, with fairness and without symmetry: what the kernel
\* needs of the barrier, that the flags come out clean, and that all return.
SPECIFICATION FairSpec
CONSTANTS
  Block = {b1, b2}
  NRounds = 2
INVARIANTS WorkContained FlagsClean
PROPERTIES  AllReturn
