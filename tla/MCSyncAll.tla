----------------------------- MODULE MCSyncAll -----------------------------
EXTENDS SyncAll, TLC
Perms == Permutations(Block)
=============================================================================
