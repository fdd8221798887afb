--------------------------- MODULE MCCubePrograms ---------------------------
(***************************************************************************)
(* The matmul schedules, each with every combination of counts that makes  *)
(* a difference: one and several chunks, odd and even numbers of phases,   *)
(* buffers used once, twice and reused.                                    *)
(***************************************************************************)
EXTENDS CubePrograms, PipeOrder

\* Two deep tiles in a row, of 1-4 chunks of 1-3 phases.
MCDeep == {DeepLoop(0, 2, nKd, nP) : nKd \in 1..4, nP \in 1..3}

\* 0-3 tiles of 1-3 phases, from an even or an odd tile on.
MCPipelined == {PipelinedLoop(start, start + n, nP) : start \in 0..1, n \in 0..3, nP \in 1..3}

\* 1-5 k-tiles, the first or a later slice of the contraction.
MCSplitK == {SplitKTile(0, s * n, n) : s \in 0..1, n \in 1..5}

MCCube == MCDeep \union MCPipelined \union MCSplitK
=============================================================================
