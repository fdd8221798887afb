\* A blocked 2D transpose hands the unified buffer to a copy.
SPECIFICATION Spec
CONSTANTS
  Programs <- MCBlockedThenCopy
  MaxPosted = 1
INVARIANTS NoRace
