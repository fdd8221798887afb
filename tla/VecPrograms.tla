---------------------------- MODULE VecPrograms ----------------------------
(***************************************************************************)
(* The instructions a Vector core's pipes get from the input transposes of *)
(* pto_einsum_transpose.h and the products of pto_einsum_elementwise.h, as *)
(* programs of the Pipes machine: the C++ loops unrolled over the n units  *)
(* (chunks, runs, blocks) of one lane.                                     *)
(*                                                                         *)
(* Every routine lays its tiles out from the start of the unified buffer,  *)
(* so that a routine's tiles overlap those of the one before it.  Sizes    *)
(* are in granules of the smallest tile (8 KB; 4 KB for the products).     *)
(***************************************************************************)
EXTENDS Pipes

UB(from, size) == {<<"ub", i>> : i \in from..(from + size - 1)}

\* The transpose through its scratch tile.
TTRANS(dst, src, tmp) == Op("V", <<"TTRANS">>, <<src>>, dst \union tmp)
TCVT(dst, src)        == Op("V", <<"TCVT">>, <<src>>, dst)
TMUL(dst, a, b)       == Op("V", <<"TMUL">>, <<a, b>>, dst)

Loaded(src)    == Term(<<"TLOAD", src>>, <<>>)
Stored(value)  == Term(<<"TSTORE">>, <<value>>)

-----------------------------------------------------------------------------
(***************************************************************************)
(* The transposes of operand x, unit by unit into the slots <<x, i>> of    *)
(* the workspace.                                                          *)
(***************************************************************************)
CopiedRight(x, n)     == [s \in {x} \X (0..(n - 1)) |-> Stored(Loaded(s))]
TransposedRight(x, n) == [s \in {x} \X (0..(n - 1)) |-> Stored(Term(<<"TTRANS">>, <<Loaded(s)>>))]

\* copy_chunk_through_ub.
CopyChunk(x, i) ==
  <<TLOAD(UB(0, 2), <<x, i>>),
    set_flag("MTE2", "MTE3", 0), wait_flag("MTE2", "MTE3", 0),
    TSTORE("MTE3", <<x, i>>, UB(0, 2)),
    set_flag("MTE3", "MTE2", 1), wait_flag("MTE3", "MTE2", 1)>>

\* transpose_copy_inline, padded_copy_inline, batched_pad_copy_inline.
Copy(x, n) == [code  |-> Loop(0, n - 1, LAMBDA i : CopyChunk(x, i)), right |-> CopiedRight(x, n)]

\* transpose_nd_copy_inline: two tiles of size w in turn, a reload waiting for
\* the tile's own last store; and the drain of the last two events.  A slip:
\* only the last one.
NdDrain_One(n) == IF n >= 1 THEN <<wait_flag("MTE3", "MTE2", 2 + ((n - 1) % 2))>> ELSE <<>>
NdDrain(n) == (IF n >= 1 THEN <<wait_flag("MTE3", "MTE2", 2 + ((n - 1) % 2))>> ELSE <<>>) \o
              (IF n >= 2 THEN <<wait_flag("MTE3", "MTE2", 2 + ((n - 2) % 2))>> ELSE <<>>)

\* A slip: a reload does not wait.
NdReload_Unchecked(k) == <<>>
NdReload(k) == IF k >= 2 THEN <<wait_flag("MTE3", "MTE2", 2 + (k % 2))>> ELSE <<>>

NdChunk(x, k, w) ==
  LET p == k % 2
  IN  NdReload(k)
      \o <<TLOAD(UB(p * w, w), <<x, k>>),
           set_flag("MTE2", "MTE3", p), wait_flag("MTE2", "MTE3", p),
           TSTORE("MTE3", <<x, k>>, UB(p * w, w)),
           set_flag("MTE3", "MTE2", 2 + p)>>

NdCopy(x, n, w) == [code  |-> Loop(0, n - 1, LAMBDA k : NdChunk(x, k, w)) \o NdDrain(n),
                    right |-> CopiedRight(x, n)]

\* Load a block, transpose it and store it; tiles of size w one after the
\* other.  A slip: the store does not wait for the transpose.
Transposing_NoRaw(x, i, w) ==
  <<TLOAD(UB(0, w), <<x, i>>),
    set_flag("MTE2", "V", 0), wait_flag("MTE2", "V", 0),
    TTRANS(UB(w, w), UB(0, w), UB(2 * w, w)),
    TSTORE("MTE3", <<x, i>>, UB(w, w))>>
Transposing(x, i, w) ==
  <<TLOAD(UB(0, w), <<x, i>>),
    set_flag("MTE2", "V", 0), wait_flag("MTE2", "V", 0),
    TTRANS(UB(w, w), UB(0, w), UB(2 * w, w)),
    set_flag("V", "MTE3", 0), wait_flag("V", "MTE3", 0),
    TSTORE("MTE3", <<x, i>>, UB(w, w))>>

\* ttrans_block_inline, ttrans_block_dyn_inline, and with n = 1 the
\* transpose_2d_inline of a tensor that fits: a full barrier after each block.
TtransBlocks(x, n, w) ==
  [code  |-> Loop(0, n - 1, LAMBDA i : Transposing(x, i, w) \o <<pipe_barrier("ALL")>>),
   right |-> TransposedRight(x, n)]

\* The blocked transpose_2d_inline: the load waits for the transpose, the
\* transpose for the store.  A slip: one event waited for under the other's id.
Blocked2dWar_WrongId == <<set_flag("V", "MTE2", 1), set_flag("MTE3", "V", 2),
                          wait_flag("V", "MTE2", 2), wait_flag("MTE3", "V", 2)>>
Blocked2dWar == <<set_flag("V", "MTE2", 1), set_flag("MTE3", "V", 2),
                  wait_flag("V", "MTE2", 1), wait_flag("MTE3", "V", 2)>>

Blocked2d(x, n, w) ==
  [code  |-> Loop(0, n - 1, LAMBDA i : Transposing(x, i, w) \o Blocked2dWar),
   right |-> TransposedRight(x, n)]

\* Phase A of the fused kernel on a lane: operand 0, operand 1, and the
\* barrier at the head of SyncAll.
PhaseA(p0, p1) == [code  |-> p0.code \o p1.code \o <<pipe_barrier("ALL")>>,
                   right |-> [s \in DOMAIN p0.right \union DOMAIN p1.right |->
                                IF s \in DOMAIN p0.right THEN p0.right[s] ELSE p1.right[s]]]

-----------------------------------------------------------------------------
(***************************************************************************)
(* The elementwise and broadcast products, into the slots <<"res", i>>.    *)
(* With half-precision inputs, both are first converted to float.          *)
(***************************************************************************)
Converted(half, v)  == IF half THEN Term(<<"TCVT">>, <<v>>) ELSE v
Product(half, a, b) == Term(<<"TMUL">>, <<Converted(half, a), Converted(half, b)>>)

\* Convert, then multiply.  A slip: no barrier between the two.
Multiply_NoBarrier(half, dst, a, b, af, bf) ==
  IF half THEN <<TCVT(af, a), TCVT(bf, b), TMUL(dst, af, bf)>>
          ELSE <<TMUL(dst, a, b)>>
Multiply(half, dst, a, b, af, bf) ==
  IF half THEN <<TCVT(af, a), TCVT(bf, b), pipe_barrier("V"), TMUL(dst, af, bf)>>
          ELSE <<TMUL(dst, a, b)>>

\* What the three kinds of block share: loads, computation, store, and the
\* store done before the next loads.
StreamBlock(loads, compute, gm, tile) ==
  loads
  \o <<set_flag("MTE2", "V", 0), wait_flag("MTE2", "V", 0)>>
  \o compute
  \o <<set_flag("V", "MTE3", 0), wait_flag("V", "MTE3", 0),
       TSTORE("MTE3", gm, tile),
       set_flag("MTE3", "MTE2", 1), wait_flag("MTE3", "MTE2", 1)>>

ProductRight(half, n, b(_)) ==
  [s \in {"res"} \X (0..(n - 1)) |-> Stored(Product(half, Loaded(<<"in0", s[2]>>), b(s[2])))]

\* elementwise_mul_block over a lane's span: in place, in the converted
\* operand or in the operand itself; and nothing after the last block.
ElementwiseBlock(half, i) ==
  LET a == UB(0, 1)  b == UB(1, 1)  af == UB(2, 2)  bf == UB(4, 2)
      product == IF half THEN af ELSE a
  IN  StreamBlock(<<TLOAD(a, <<"in0", i>>), TLOAD(b, <<"in1", i>>)>>,
                  Multiply(half, product, a, b, af, bf), <<"res", i>>, product)

Elementwise(half, n) ==
  [code  |-> Loop(0, n - 1, LAMBDA i : ElementwiseBlock(half, i)),
   right |-> ProductRight(half, n, LAMBDA i : Loaded(<<"in1", i>>))]

\* bcast_col_block: b is a row that multiplies every row of a.
ColBlock(half, i) ==
  LET ta == UB(0, 1)  tb == UB(1, 1)  dst == UB(2, 2)  af == UB(4, 2)  bf == UB(6, 1)
  IN  StreamBlock(<<TLOAD(ta, <<"in0", i>>), TLOAD(tb, <<"in1", i>>)>>,
                  Multiply(half, dst, ta, tb, af, bf), <<"res", i>>, dst)

\* bcast_scalar_block: the scalar unit reads the scalar from b's tile, which
\* stays, and passes it on with the multiplication.
ScalarBlock(half, i) ==
  LET ta == UB(1, 1)  dst == UB(2, 2)  af == UB(4, 2)  scalar == {<<"scalar", i>>}
  IN  <<Op("S", <<"GetValue">>, <<UB(0, 1)>>, scalar)>> \o
      StreamBlock(<<TLOAD(ta, <<"in0", i>>)>>,
                  IF half THEN <<TCVT(af, ta), pipe_barrier("V"), TMUL(dst, af, scalar)>>
                          ELSE <<TMUL(dst, ta, scalar)>>,
                  <<"res", i>>, dst)

LoadB == <<TLOAD(UB(0, 1), <<"b", 0>>), set_flag("MTE2", "S", 2), wait_flag("MTE2", "S", 2)>>

\* broadcast_mul_kernel_standalone, in either mode.  A slip: nothing waits for
\* the last store.
BroadcastEnd_NoDrain == <<>>
BroadcastEnd == <<pipe_barrier("ALL")>>

BroadcastCol(half, n) ==
  [code  |-> Loop(0, n - 1, LAMBDA i : ColBlock(half, i)) \o BroadcastEnd,
   right |-> ProductRight(half, n, LAMBDA i : Loaded(<<"in1", i>>))]

BroadcastScalar(half, n) ==
  LET scalar == Term(<<"GetValue">>, <<Loaded(<<"b", 0>>)>>)
      scaled(a) == Term(<<"TMUL">>, <<Converted(half, a), scalar>>)
  IN  [code  |-> LoadB \o Loop(0, n - 1, LAMBDA i : ScalarBlock(half, i)) \o BroadcastEnd,
       right |-> [s \in {"res"} \X (0..(n - 1)) |-> Stored(scaled(Loaded(<<"in0", s[2]>>)))]]

-----------------------------------------------------------------------------
\* The elementwise kernel on a lane, whose last store nothing waits for.
IsElementwise(p) == \E half \in BOOLEAN : p = Elementwise(half, Cardinality(DOMAIN p.right))

\* When a core may retire from the broadcast kernel, or enter the barrier after
\* Phase A, its stores are in memory.  (The elementwise kernel: see
\* MCElementwise.cfg.)
VecStoresDrained == StoresDrained \/ IsElementwise(program)
=============================================================================
