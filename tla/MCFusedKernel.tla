--------------------------- MODULE MCFusedKernel ---------------------------
(***************************************************************************)
(* Configurations the builder generates, one per combination of the gates  *)
(* of the fused kernel, with an equation that gives it.                    *)
(***************************************************************************)
EXTENDS FusedKernel

Base == [id0 |-> FALSE, id1 |-> FALSE, idOut |-> FALSE, kc |-> TRUE,
         aPad |-> FALSE, bPad |-> FALSE, inNt |-> FALSE, fusible |-> FALSE,
         tiles |-> 3, nK |-> 1]

\* Everything runs: no identity, no strided input, no fusible output.
AllPhases == [Base EXCEPT !.kc = FALSE]
\* ij,jk->ik, all dims aligned: only the matmul is left.
Plain == [Base EXCEPT !.id0 = TRUE, !.id1 = TRUE, !.idOut = TRUE]
\* ij,jk->ik with i not a multiple of the tile: data0 goes through the
\* padded ws0, data1 is read directly.
PartialTile == [Plain EXCEPT !.aPad = TRUE, !.tiles = 2]
\* bij,bkj->bik with two strided inputs and a permuted store.
Strided == [Base EXCEPT !.inNt = TRUE, !.fusible = TRUE]
\* ij,jk->ik over a long odd contraction and one tile: split-K.
Split == [Plain EXCEPT !.kc = FALSE, !.tiles = 1, !.nK = 4]
\* As Split with three k-tiles: two blocks cannot share them evenly.
Unsplit == [Plain EXCEPT !.id0 = FALSE, !.tiles = 1, !.nK = 3]
\* ij,kj->ik: the host counts on split-K, the kernel does not use it.
StridedUnsplit == [Base EXCEPT !.inNt = TRUE, !.idOut = TRUE, !.tiles = 1, !.nK = 2]

MCConfigs == {AllPhases, Plain, PartialTile, Strided, Split, Unsplit, StridedUnsplit}

\* For liveness: both barriers, and a single tile, which leaves one of the two
\* Cube cores without work.
MCLiveConfigs == {[AllPhases EXCEPT !.tiles = 1]}
=============================================================================
