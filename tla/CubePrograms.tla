---------------------------- MODULE CubePrograms ----------------------------
(***************************************************************************)
(* The instructions the three matmul schedules of pto_einsum_matmul.h hand *)
(* to the Cube core's pipes, as programs of the Pipes machine: the C++     *)
(* loops unrolled, with everything but events, buffers and their reuse     *)
(* left out.                                                               *)
(*                                                                         *)
(*   SplitKTile     matmul_one_tile_inline: one tile, k-tiles in order     *)
(*   DeepTile       matmul_one_tile_deep: L1 chunks of L0 phases           *)
(*   PipelinedLoop  matmul_tile_loop_pipelined: one-chunk tiles, each      *)
(*                  overlapping the load of the next                       *)
(*                                                                         *)
(* With a program goes what each output tile is to hold: the sum, over its *)
(* whole contraction, of the products of the matching pieces of A and B.   *)
(***************************************************************************)
EXTENDS Pipes

\* The operations.  Buffer b of a double-buffered tile is <<name, b>>.
TEXTRACT(l0, l1, p)  == Op("MTE1", <<"TEXTRACT", p>>, <<l1>>, l0)
TMOV(l0, l1)         == TEXTRACT(l0, l1, 0)
TMATMUL(c, a, b)     == Op("M", <<"TMATMUL">>, <<a, b>>, c)
TMATMUL_ACC(c, a, b) == OpAdd("M", <<"TMATMUL">>, <<a, b>>, c)
TSTORE_ADD(gm, c)    == OpAdd("FIX", <<"TSTORE">>, <<c>>, {gm})

a_l1(b) == {<<"a_l1", b>>}
b_l1(b) == {<<"b_l1", b>>}
a_l0(b) == {<<"a_l0", b>>}
b_l0(b) == {<<"b_l0", b>>}
c_l0(b) == {<<"c_l0", b>>}
Res(t)  == <<"res", t>>

\* Output tile t, stored once it has summed the pieces <<k-chunk, L0 phase>>.
Piece(x, t, kp) == Term(<<"TEXTRACT", kp[2]>>, <<Term(<<"TLOAD", <<x, t, kp[1]>>>>, <<>>)>>)
RightTile(t, pieces) ==
  Term(<<"TSTORE">>, <<UNION {Term(<<"TMATMUL">>, <<Piece("A", t, kp), Piece("B", t, kp)>>) : kp \in pieces}>>)
RightTiles(tiles, pieces) == [x \in {<<"res", t>> : t \in tiles} |-> RightTile(x[2], pieces)]

-----------------------------------------------------------------------------
(***************************************************************************)
(* Shared by the two pipelined schedules.  Buffer b of A has event b, of B *)
(* b+2; the loads are MTE2 to MTE1, the frees MTE1 to MTE2.                *)
(***************************************************************************)
PrimeL1L0 == [b \in 1..4 |-> set_flag("MTE1", "MTE2", b - 1)] \o
             [b \in 1..2 |-> set_flag("M", "MTE1", b - 1)]

\* A slip: the accumulators are taken to be free without a word.
PrimeAcc_Missing == <<>>
PrimeAcc == <<set_flag("FIX", "M", 0), set_flag("FIX", "M", 1)>>

DrainL1L0 == [b \in 1..4 |-> wait_flag("MTE1", "MTE2", b - 1)] \o
             [b \in 1..2 |-> wait_flag("M", "MTE1", b - 1)]

DrainAcc_One == <<wait_flag("FIX", "M", 0)>>
DrainAcc == <<wait_flag("FIX", "M", 0), wait_flag("FIX", "M", 1)>>

\* Load chunk k of tile t into L1 buffer b.
LoadL1(b, t, k) ==
  <<wait_flag("MTE1", "MTE2", b), TLOAD(a_l1(b), <<"A", t, k>>), set_flag("MTE2", "MTE1", b),
    wait_flag("MTE1", "MTE2", b + 2), TLOAD(b_l1(b), <<"B", t, k>>), set_flag("MTE2", "MTE1", b + 2)>>

AwaitL1(b) == <<wait_flag("MTE2", "MTE1", b), wait_flag("MTE2", "MTE1", b + 2)>>

FreeL1(b) == <<set_flag("MTE1", "MTE2", b), set_flag("MTE1", "MTE2", b + 2)>>

\* The L1 buffers are freed with the last extract from them.  Slips: with the
\* first one; with every one.
FreeAfter_First(b, p, nP) == IF p = 0 THEN FreeL1(b) ELSE <<>>
FreeAfter_Each(b, p, nP) == FreeL1(b)
FreeAfter(b, p, nP) == IF p = nP - 1 THEN FreeL1(b) ELSE <<>>

\* L0 phase p of nP, the g-th in a row, of the chunk in L1 buffer b, into
\* accumulator acc: started anew (init) or added to.
Phase(b, acc, p, nP, g, init) ==
  LET pp == g % 2
  IN  <<wait_flag("M", "MTE1", pp),
        TEXTRACT(a_l0(pp), a_l1(b), p), TEXTRACT(b_l0(pp), b_l1(b), p)>>
      \o FreeAfter(b, p, nP)
      \o <<set_flag("MTE1", "M", 0), wait_flag("MTE1", "M", 0),
           IF init THEN TMATMUL(c_l0(acc), a_l0(pp), b_l0(pp))
                   ELSE TMATMUL_ACC(c_l0(acc), a_l0(pp), b_l0(pp)),
           set_flag("M", "MTE1", pp)>>

\* Store accumulator acc once its matmuls are done; the events are acc's.
StoreAcc(acc, t) == <<set_flag("M", "FIX", acc), wait_flag("M", "FIX", acc),
                      TSTORE("FIX", Res(t), c_l0(acc)), set_flag("FIX", "M", acc)>>

-----------------------------------------------------------------------------
(***************************************************************************)
(* matmul_one_tile_deep: nKd L1 chunks of nP L0 phases each.               *)
(***************************************************************************)
\* The accumulator is started anew with the tile.  A slip: with every chunk.
StartAnew_Chunk(c, p) == p = 0
StartAnew(c, p) == c = 0 /\ p = 0

DeepChunk(t, c, nKd, nP) ==
  LET cur == c % 2
  IN  (IF c + 1 < nKd THEN LoadL1(1 - cur, t, c + 1) ELSE <<>>)
      \o AwaitL1(cur)
      \o Loop(0, nP - 1, LAMBDA p : Phase(cur, 0, p, nP, c * nP + p, StartAnew(c, p)))

DeepTile(t, nKd, nP) ==
  PrimeL1L0
  \o LoadL1(0, t, 0)
  \o Loop(0, nKd - 1, LAMBDA c : DeepChunk(t, c, nKd, nP))
  \o DrainL1L0
  \o StoreAcc(0, t)
  \o <<wait_flag("FIX", "M", 0)>>

\* The tiles a core was given, one after the other.
DeepLoop(start, end, nKd, nP) ==
  [code  |-> Loop(start, end - 1, LAMBDA t : DeepTile(t, nKd, nP)),
   right |-> RightTiles(start..(end - 1), (0..(nKd - 1)) \X (0..(nP - 1)))]

(***************************************************************************)
(* matmul_tile_loop_pipelined: each tile is one chunk; L1 buffer and       *)
(* accumulator of tile t are number t % 2.                                 *)
(***************************************************************************)
PipelinedTile(t, start, end, nP) ==
  LET q == t % 2
  IN  (IF t + 1 < end THEN LoadL1((t + 1) % 2, t + 1, 0) ELSE <<>>)
      \o AwaitL1(q)
      \o <<wait_flag("FIX", "M", q)>>
      \o Loop(0, nP - 1, LAMBDA p : Phase(q, q, p, nP, (t - start) * nP + p, p = 0))
      \o StoreAcc(q, t)

PipelinedLoop(start, end, nP) ==
  [code  |-> IF start >= end THEN <<>>
             ELSE PrimeL1L0 \o PrimeAcc
                  \o LoadL1(start % 2, start, 0)
                  \o Loop(start, end - 1, LAMBDA t : PipelinedTile(t, start, end, nP))
                  \o DrainL1L0 \o DrainAcc,
   right |-> RightTiles(start..(end - 1), {0} \X (0..(nP - 1)))]

(***************************************************************************)
(* matmul_one_tile_inline (split-K): k-tiles kStart .. kStart + kCount - 1 *)
(* of tile t, double-buffered in L1, one buffer in L0, and added to what   *)
(* the output holds.                                                       *)
(***************************************************************************)
SplitKStep(t, kStart, j) ==
  LET p == j % 2
  IN  (IF j >= 2 THEN <<wait_flag("MTE1", "MTE2", p + 2)>> ELSE <<>>)
      \o <<TLOAD(a_l1(p), <<"A", t, kStart + j>>), TLOAD(b_l1(p), <<"B", t, kStart + j>>),
           set_flag("MTE2", "MTE1", p), wait_flag("MTE2", "MTE1", p)>>
      \o (IF j >= 1 THEN <<wait_flag("M", "MTE1", 5)>> ELSE <<>>)
      \o <<TMOV(a_l0(0), a_l1(p)), TMOV(b_l0(0), b_l1(p)),
           set_flag("MTE1", "MTE2", p + 2),
           set_flag("MTE1", "M", 4), wait_flag("MTE1", "M", 4),
           IF j = 0 THEN TMATMUL(c_l0(0), a_l0(0), b_l0(0))
                    ELSE TMATMUL_ACC(c_l0(0), a_l0(0), b_l0(0)),
           set_flag("M", "MTE1", 5)>>

SplitKTile(t, kStart, kCount) ==
  [code  |-> Loop(0, kCount - 1, LAMBDA j : SplitKStep(t, kStart, j))
             \o <<wait_flag("MTE1", "MTE2", 2)>>
             \o (IF kCount >= 2 THEN <<wait_flag("MTE1", "MTE2", 3)>> ELSE <<>>)
             \o <<wait_flag("M", "MTE1", 5)>>
             \o <<set_flag("M", "FIX", 0), wait_flag("M", "FIX", 0),
                  TSTORE_ADD(Res(t), c_l0(0)),
                  set_flag("FIX", "M", 0), wait_flag("FIX", "M", 0)>>,
   right |-> RightTiles({t}, (kStart..(kStart + kCount - 1)) \X {0})]
=============================================================================
