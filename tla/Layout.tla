------------------------------- MODULE Layout -------------------------------
(***************************************************************************)
(* Which element of its source every lane of the Vector cores stores       *)
(* where: the transposes of pto_einsum_transpose.h and the products        *)
(* without contraction of pto_einsum_elementwise.h.                        *)
(*                                                                         *)
(* A store is a triple <<lane, address, element>>, of a product <<lane,    *)
(* address, <<element, element>>>>.  How the elements move through the     *)
(* unified buffer, and when, is the subject of VecPrograms; the chunks a   *)
(* contiguous run is moved in are left out here.                           *)
(***************************************************************************)
EXTENDS Geometry, FiniteSets, Sequences, SequencesExt

CONSTANTS Cores,      \* the AI cores of the device: block_num of every launch
          UbBytes,    \* 184 KB: what the tiles of one transpose may take
          Block,      \* 64: BR and BC
          DmaBytes,   \* 32: the alignment of a row of a tile
          LaneGrain,  \* 128: LANE_GRAIN of the identity copy
          TileCap,    \* 4096: BCAST_TILECAP
          EltTile,    \* 2048: TILE of the elementwise product
          LineElems   \* 2048: BCAST_LINE_ELEMS, a power of two

ASSUME LayoutAssumption ==
    /\ {Cores, UbBytes, Block, DmaBytes, LaneGrain, TileCap, EltTile, LineElems}
            \subseteq Nat \ {0}
    /\ 3 * Block * Block * 4 <= UbBytes
    /\ EltTile % LineElems = 0

-----------------------------------------------------------------------------
(* Shapes and strides *)

Product(s) ==
    LET upTo[i \in 0..Len(s)] == IF i = 0 THEN 1 ELSE upTo[i - 1] * s[i]
    IN  upTo[Len(s)]

RowStrides(shape) ==
    [p \in DOMAIN shape |-> Product(SubSeq(shape, p + 1, Len(shape)))]

\* The offset that the mixed-radix digits of n over dims have under strides:
\* the loop of transfer_idx, of bcast_baseB and of every batch decode.
Decode(n, dims, strides) ==
    LET inner[j \in 0..Len(dims)] ==     \* <<offset, what is left of n>>
            IF j = 0 THEN <<0, n>>
            ELSE LET a == Len(dims) + 1 - j
                     r == inner[j - 1]
                 IN  <<r[1] + (r[2] % dims[a]) * strides[a], r[2] \div dims[a]>>
    IN  inner[Len(dims)][1]

Permuted(s, perm) == [i \in DOMAIN perm |-> s[perm[i]]]

Identity(n) == [i \in 1..n |-> i]

IsIdentity(perm) == perm = Identity(Len(perm))

\* gen_transpose_config
TransposeConfig(shape, perm) ==
    [N |-> Product(shape), from_shape |-> shape, to_shape |-> Permuted(shape, perm),
     perm |-> perm, perm_strides |-> Permuted(RowStrides(shape), perm)]

Dimensions(t) == Len(t.perm)

\* transfer_idx: the input offset of element j of a transposed tensor
Transferred(t, j) == Decode(j, t.to_shape, t.perm_strides)

-----------------------------------------------------------------------------
(* PermOdometer over the leading n axes: the source offset of one run      *)
(* after the other, without a division.                                    *)

\* terms[1] + .. + terms[n]
Total(terms, n) ==
    LET upTo[k \in 0..n] == IF k = 0 THEN 0 ELSE upTo[k - 1] + terms[k]
    IN  upTo[n]

OdoInit(t, n, flat) ==
    LET left[k \in 0..n] ==
            IF k = n THEN flat ELSE left[k + 1] \div t.to_shape[k + 1]
        digit == [k \in 1..n |-> left[k] % t.to_shape[k]]
    IN  [digit |-> digit, base |-> Total([k \in 1..n |-> digit[k] * t.perm_strides[k]], n)]

OdoAdvance_NoCarry(t, n, odo) == [odo EXCEPT !.base = @ + t.perm_strides[n]]
\* Axis n counts up; an axis that wraps around carries to the one before it.
OdoAdvance(t, n, odo) ==
    LET wraps(k) == odo.digit[k] + 1 = t.to_shape[k]
        moves == {k \in 1..n : \A j \in (k + 1)..n : wraps(j)}
        gain(k) == IF k \notin moves THEN 0
                   ELSE t.perm_strides[k]
                        - (IF wraps(k) THEN t.to_shape[k] * t.perm_strides[k] ELSE 0)
    IN  [digit |-> [k \in 1..n |-> IF k \notin moves THEN odo.digit[k]
                                   ELSE IF wraps(k) THEN 0 ELSE odo.digit[k] + 1],
         base |-> odo.base + Total([k \in 1..n |-> gain(k)], n)]

-----------------------------------------------------------------------------
(* The routines *)

\* align_up
RoundUp(n, m) == CeilDiv(n, m) * m

\* The fused kernel has two Vector lanes to a block, the products have one.
Lanes == 2 * Cores
LaneSet == 0..(Lanes - 1)

\* The units one of several lanes takes of n, in multiples of grain.
SpanOf(lanes, lane, n, grain) ==
    LET chunk == RoundUp(CeilDiv(n, lanes), grain)
    IN  (lane * chunk)..(Least((lane + 1) * chunk, n) - 1)

Span(lane, n) == SpanOf(Lanes, lane, n, 1)

\* Who takes what of n units: pairs of a lane and a unit.
Shared(n) == UNION {{lane} \X Span(lane, n) : lane \in LaneSet}

\* A source base for every unit of a lane.
Bases(t, n, span) ==
    LET odo[g \in span] == IF g - 1 \in span THEN OdoAdvance(t, n, odo[g - 1])
                                             ELSE OdoInit(t, n, g)
    IN  [g \in span |-> odo[g].base]

CopyRun(lane, dst, src, width) == {<<lane, dst + x, src + x>> : x \in 0..(width - 1)}

\* TTRANS of rows x cols elements, rows apart by srcStride, into dst.
Ttrans(lane, dst, dstStride, src, srcStride, rows, cols) ==
    {<<lane, dst + c * dstStride + r, src + r * srcStride + c>> :
        r \in 0..(rows - 1), c \in 0..(cols - 1)}

transpose_copy(t) ==
    UNION {{<<lane, x, x>> : x \in SpanOf(Lanes, lane, t.N, LaneGrain)} : lane \in LaneSet}

padded_copy(nrows, rowW, dstStride) ==
    UNION {CopyRun(s[1], s[2] * dstStride, s[2] * rowW, rowW) : s \in Shared(nrows)}

batched_pad_copy(nbatch, rows, rowW, dstBatchStride) ==
    UNION {CopyRun(s[1], (s[2] \div rows) * dstBatchStride + (s[2] % rows) * rowW,
                   s[2] * rowW, rowW) : s \in Shared(nbatch * rows)}

FitsUb(rows, cols, ds) ==
    (rows * RoundUp(cols, DmaBytes \div ds) + 2 * cols * PadUp(rows)) * ds
        <= UbBytes

\* The blocks of a rows x cols matrix: where they begin and what they hold.
BlockAt(rows, cols, b) ==
    LET nBC == CeilDiv(cols, Block)
        r0 == (b \div nBC) * Block
        c0 == (b % nBC) * Block
    IN  [r0 |-> r0, c0 |-> c0, rb |-> Least(rows - r0, Block), cb |-> Least(cols - c0, Block)]

Blocks(rows, cols) == CeilDiv(rows, Block) * CeilDiv(cols, Block)

transpose_2d(t, ds, dstPad) ==
    LET rows == t.from_shape[1]
        cols == t.from_shape[2]
        dpad == Max({dstPad, rows})
        stores(lane, b) ==
            LET at == BlockAt(rows, cols, b)
            IN  Ttrans(lane, at.c0 * dpad + at.r0, dpad, at.r0 * cols + at.c0, cols,
                       at.rb, at.cb)
    IN  IF FitsUb(rows, cols, ds) THEN Ttrans(0, 0, dpad, 0, cols, rows, cols)
        ELSE UNION {stores(s[1], s[2]) : s \in Shared(Blocks(rows, cols))}

\* padBatch = 0: one run after the other; else rows runs to a batch.
transpose_nd_copy(t, padStride, rows, padBatch) ==
    LET n == Dimensions(t) - 1
        inner == t.to_shape[n + 1]
        nouter == t.N \div inner
        dstStride == Max({padStride, inner})
        doff(g) == IF rows > 0 THEN (g \div rows) * padBatch + (g % rows) * dstStride
                               ELSE g * dstStride
        stores(lane, bases) == UNION {CopyRun(lane, doff(g), bases[g], inner) : g \in DOMAIN bases}
    IN  UNION {stores(lane, Bases(t, n, Span(lane, nouter))) : lane \in LaneSet}

\* The batched transpose of [Bb, A] blocks; dstBlock = 0: as large as they are.
transpose_nd_batched_2d(t, ds, padInner, padStride, dstBlock) ==
    LET n == Dimensions(t) - 2
        A == t.to_shape[n + 1]
        Bb == t.to_shape[n + 2]
        srcStride == t.perm_strides[n + 2]
        dstRS == IF padStride > padInner THEN padStride ELSE Bb
        dblock == IF dstBlock # 0 THEN dstBlock ELSE A * dstRS
        nbatch == t.N \div (A * Bb)
        bpb == Blocks(Bb, A)
        whole(lane, bases) ==
            UNION {Ttrans(lane, b * dblock, dstRS, bases[b], srcStride, Bb, A) :
                      b \in DOMAIN bases}
        part(lane, w) ==
            LET at == BlockAt(Bb, A, w % bpb)
                base == Decode(w \div bpb, SubSeq(t.to_shape, 1, n), SubSeq(t.perm_strides, 1, n))
            IN  Ttrans(lane, (w \div bpb) * dblock + at.c0 * dstRS + at.r0, dstRS,
                       base + at.r0 * srcStride + at.c0, srcStride, at.rb, at.cb)
    IN  IF FitsUb(Bb, A, ds)
        THEN UNION {whole(lane, Bases(t, n, Span(lane, nbatch))) : lane \in LaneSet}
        ELSE UNION {part(s[1], s[2]) : s \in Shared(nbatch * bpb)}

\* Its static_asserts.
BatchedAsserts(t, padInner, padStride) ==
    LET n == Dimensions(t)
    IN  /\ t.perm_strides[n - 1] = 1
        /\ padStride > padInner => t.to_shape[n] = padInner

-----------------------------------------------------------------------------
(* The dispatch *)

InnermostKept(t) == t.perm[Dimensions(t)] = Dimensions(t)

transpose_inline(t, ds, padInner, padStride) ==
    IF IsIdentity(t.perm)
    THEN IF padInner > 0 /\ padStride > padInner
         THEN padded_copy(t.N \div padInner, padInner, padStride)
         ELSE transpose_copy(t)
    ELSE IF Dimensions(t) = 2 THEN transpose_2d(t, ds, padStride)
    ELSE IF InnermostKept(t) THEN transpose_nd_copy(t, padStride, 0, 0)
    ELSE transpose_nd_batched_2d(t, ds, padInner, padStride, 0)

InlineAsserts(t, padInner, padStride) ==
    ~IsIdentity(t.perm) /\ Dimensions(t) > 2 /\ ~InnermostKept(t)
        => BatchedAsserts(t, padInner, padStride)

transpose_inline_rowpad(t, ds, rows, padRows, inner) ==
    IF InnermostKept(t) THEN transpose_nd_copy(t, 0, rows, padRows * inner)
    ELSE transpose_nd_batched_2d(t, ds, 0, 0, padRows * inner)

RowpadAsserts(t) ==
    /\ Dimensions(t) >= 3
    /\ ~InnermostKept(t) => BatchedAsserts(t, 0, 0)

-----------------------------------------------------------------------------
(* The products: c is a configuration of the builder's, a broadcast one's  *)
(* terms are of its full operand and of the other.                         *)

elementwise_mul(n) ==
    UNION {{<<lane, x, <<x, x>>>> : x \in SpanOf(Cores, lane, n, EltTile)} :
              lane \in 0..(Cores - 1)}

bcast_baseB(c, g) == Decode(g, SubSeq(c.outer_dims, 1, c.outer_rank),
                               SubSeq(c.outer_bstride, 1, c.outer_rank))

\* ALIGN_ROWS: as many rows as begin and end with a line.
AlignRows_One(cc) == 1
AlignRows(cc) ==
    LineElems \div Max({d \in 1..LineElems : LineElems % d = 0 /\ cc % d = 0})

\* The rows of all groups in blocks that end with the group, or with the span.
bcast_col(c) ==
    LET RB == Max({TileCap \div c.Cc, 1})
        total == c.Outer * c.Rr
        height(r, end) == Min({RB, c.Rr - (r % c.Rr), end - r})
        block(lane, r, rb) ==
            {<<lane, r * c.Cc + w,
               <<r * c.Cc + w, bcast_baseB(c, r \div c.Rr) + (w % c.Cc)>>>> :
                w \in 0..(rb * c.Cc - 1)}
        lanes(lane) ==
            LET span == SpanOf(Cores, lane, total, AlignRows(c.Cc))
                end == Max(span) + 1
                from[r \in span \cup {end}] ==
                    IF r = end THEN {}
                    ELSE block(lane, r, height(r, end)) \cup from[r + height(r, end)]
            IN  IF span = {} THEN {} ELSE from[Min(span)]
    IN  UNION {lanes(lane) : lane \in 0..(Cores - 1)}

bcast_scalar(c) ==
    LET cpg == CeilDiv(c.Inner, TileCap)
        unit(lane, u) ==
            LET at == (u \div cpg) * c.Inner + (u % cpg) * TileCap
            IN  {<<lane, at + x, <<at + x, bcast_baseB(c, u \div cpg)>>>> :
                    x \in 0..(Least(TileCap, c.Inner - (u % cpg) * TileCap) - 1)}
    IN  UNION {UNION {unit(lane, u) : u \in SpanOf(Cores, lane, c.Outer * cpg, 1)} :
                  lane \in 0..(Cores - 1)}

broadcast_mul(c) == IF c.mode = 0 THEN bcast_col(c) ELSE bcast_scalar(c)

-----------------------------------------------------------------------------
(* What a set of stores leaves *)

Image(stores) == {<<s[2], s[3]>> : s \in stores}

\* No address is stored twice, by one lane or by two.
StoredOnce(stores) == Cardinality(stores) = Cardinality({s[2] : s \in stores})

\* No line of the output is stored to by two lanes.
LinesApart(stores) ==
    Cardinality({<<s[1], s[2] \div LineElems>> : s \in stores})
        = Cardinality({s[2] \div LineElems : s \in stores})
=============================================================================
