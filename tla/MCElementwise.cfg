\* The elementwise kernel does not.
SPECIFICATION Spec
CONSTANTS
  Programs <- MCElementwise
  MaxPosted = 1
INVARIANTS StoresDrained
