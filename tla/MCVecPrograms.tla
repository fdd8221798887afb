--------------------------- MODULE MCVecPrograms ---------------------------
(***************************************************************************)
(* The Vector core's routines on a lane with 0 to 4 units of work: enough  *)
(* for a double buffer to be reused, and for lanes left without work.      *)
(***************************************************************************)
EXTENDS VecPrograms, PipeOrder

\* The ways an operand is brought into the workspace that end with the unified
\* buffer free.  w = 1: half precision; w = 2: single.
Routines(x, n, w) == {Copy(x, n), NdCopy(x, n, w), TtransBlocks(x, n, w)}

\* Phase A with every routine after every routine.
MCPhaseA == UNION {{PhaseA(p0, p1) : p0 \in Routines("ws0", n, w), p1 \in Routines("ws1", m, w)} :
                     n \in 0..3, m \in 0..3, w \in 1..2}

\* The blocked transpose_2d_inline, with nothing after it or itself, with tiles
\* at the same places.
MCBlocked2d ==
  UNION {{PhaseA(p0, Blocked2d("ws1", n, w)) :
            p0 \in {Copy("ws0", 2), TtransBlocks("ws0", 1, 2), Blocked2d("ws0", 2, w)}} :
            n \in 0..4, w \in 1..2}
MCTransposes == MCPhaseA \union MCBlocked2d

\* einsum ji,jk->ik in half precision, j not a multiple of 16: the first
\* operand is a blocked transpose, the second an identity copy.
MCBlockedThenCopy == {PhaseA(Blocked2d("ws0", 1, 1), Copy("ws1", 1))}

MCBroadcast == {BroadcastCol(half, n) : half \in BOOLEAN, n \in 0..3} \union
               {BroadcastScalar(half, n) : half \in BOOLEAN, n \in 0..3}
MCElementwise == {Elementwise(half, n) : half \in BOOLEAN, n \in 1..3}

MCVec == MCTransposes \union MCBroadcast \union MCElementwise
=============================================================================
