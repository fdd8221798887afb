------------------------------- MODULE Recipe -------------------------------
(***************************************************************************)
(* From an einsum equation to a result: what EinsumBuilder.build() and the *)
(* runner it returns do with one equation, and what the kernels compute    *)
(* from the configuration they are handed.                                 *)
(*                                                                         *)
(* Labels are positive integers, an operand is the sequence of its labels  *)
(* and its shape, and tensors are flat: only offsets matter.  A term       *)
(* <<a, b>> is the product of element a of the caller's first operand and  *)
(* element b of the second; an element of the result is the set of terms   *)
(* summed in it.                                                           *)
(***************************************************************************)
EXTENDS Layout

CONSTANTS Problems,   \* the problems to be built, see RecipeAssumption
          ScalarCap   \* 8192: _BCAST_SCALAR_SIZE_CAP

\* A problem is an equation, sized, and what the environment says of a build.
ASSUME RecipeAssumption ==
    /\ ScalarCap \in Nat \ {0}
    /\ \A p \in Problems :
          /\ {p.in0, p.in1, p.out, p.shape0, p.shape1} \subseteq Seq(Nat \ {0})
          /\ p.device \in {"npu", "cpu"} /\ p.tile \in Nat \ {0}
          /\ {p.nt, p.swap} \subseteq BOOLEAN

VARIABLES problem,   \* the equation, its shapes, and the environment
          pc,        \* how far build() and run() have come
          recipe,    \* self.recipe
          swapped,   \* self._swap_operands
          splitk,    \* self._splitk
          config,    \* the configuration in the generated source
          library,   \* the template it was generated from
          output     \* the tensor run() returned

vars == <<problem, pc, recipe, swapped, splitk, config, library, output>>

None == [none |-> TRUE]

-----------------------------------------------------------------------------
(* Sequences of labels *)

IndexOf(s, a) == CHOOSE i \in DOMAIN s : s[i] = a

\* The labels of s that are in S, in the order of s.
InOrder(S, s) ==
    LET upTo[i \in 0..Len(s)] == IF i = 0 THEN <<>>
                                 ELSE IF s[i] \in S THEN Append(upTo[i - 1], s[i])
                                 ELSE upTo[i - 1]
    IN  upTo[Len(s)]

Indices(s, labels) == [i \in DOMAIN labels |-> IndexOf(s, labels[i])]

\* The fields of r, and those of rest that r lacks.
Merged(r, rest) ==
    [x \in DOMAIN r \cup DOMAIN rest |-> IF x \in DOMAIN r THEN r[x] ELSE rest[x]]

-----------------------------------------------------------------------------
(* _validate_einsum_expr *)

Common(e) == ToSet(e.in0) \cap ToSet(e.in1)

Valid(e) ==
    /\ \A s \in {e.in0, e.in1, e.out} : IsInjective(s)
    /\ ToSet(e.out) \subseteq ToSet(e.in0) \cup ToSet(e.in1)
    /\ Len(e.shape0) = Len(e.in0)
    /\ Len(e.shape1) = Len(e.in1)
    /\ \A a \in Common(e) : e.shape0[IndexOf(e.in0, a)] = e.shape1[IndexOf(e.in1, a)]

Dim(e, a) == IF a \in ToSet(e.in0) THEN e.shape0[IndexOf(e.in0, a)]
                                   ELSE e.shape1[IndexOf(e.in1, a)]

Dims(e, labels) == [i \in DOMAIN labels |-> Dim(e, labels[i])]

OutShape(e) == Dims(e, e.out)

-----------------------------------------------------------------------------
(* parse_recipe *)

Elementwise(e) == e.in0 = e.in1 /\ e.in1 = e.out

Contracted(e) == Common(e) \ ToSet(e.out)

\* Labels of one operand only that are not in the output either.
Solo(e) == (ToSet(e.in0) \cup ToSet(e.in1)) \ (Common(e) \cup ToSet(e.out))

contract(e) == InOrder(Contracted(e), e.in1)
inplace(e) == InOrder(Common(e) \cap ToSet(e.out), e.in1)
invariant0(e) == InOrder(ToSet(e.out) \ Common(e), e.in0)
invariant1(e) == InOrder(ToSet(e.out) \ Common(e), e.in1)

NoBcast == [broadcast |-> FALSE, bc_mode |-> 0, bc_Cc |-> 1, bc_Rr |-> 1, bc_Inner |-> 1,
            bc_Outer |-> 1, bc_sizeB |-> 1, bc_full_is_in0 |-> TRUE,
            bc_outer_dims |-> <<>>, bc_outer_bstride |-> <<>>]

NoFuse == [out_fusible |-> FALSE, out_row_stride |-> 0, out_n_batch |-> 0,
           out_batch_sizes |-> <<>>, out_batch_strides |-> <<>>]

NoNt == [in_nt |-> 0, in_n_batch |-> 0, in0_row_stride |-> 0, in0_k_stride |-> 0,
         in1_col_stride |-> 0, in1_k_stride |-> 0, in_batch_sizes |-> <<>>,
         in0_batch_strides |-> <<>>, in1_batch_strides |-> <<>>]

\* The fields of a recipe without a matrix product.
Unmultiplied(e, isElementwise) ==
  Merged(
    [in_transpose_idxs |-> <<<<>>, <<>>>>, out_interpret_shape |-> OutShape(e),
     out_transpose_idxs |-> Identity(Len(e.out)), out_shape |-> OutShape(e),
     L0 |-> 1, L1 |-> 1, I |-> Product(OutShape(e)), C |-> 1,
     elementwise |-> isElementwise, n_elem |-> Product(OutShape(e))],
    Merged(NoFuse, NoNt))

(***************************************************************************)
(* _try_broadcast: one operand carries every output axis in output order,  *)
(* the other (bc) some of them, in output order too.  present are the      *)
(* output positions bc has; the inner block of a group is the innermost    *)
(* run of positions it has (mode 0 only) and the run before that it lacks. *)
(***************************************************************************)
FullIs0(e) == ToSet(e.in0) = ToSet(e.out)
FullOperand(e) == IF FullIs0(e) THEN e.in0 ELSE e.in1
BcOperand(e) == IF FullIs0(e) THEN e.in1 ELSE e.in0

Broadcastable(e) ==
    /\ FullIs0(e) # (ToSet(e.in1) = ToSet(e.out))
    /\ FullOperand(e) = e.out
    /\ BcOperand(e) = InOrder(ToSet(BcOperand(e)), e.out)

BroadcastRecipe(e) ==
    LET n == Len(e.out)
        sizes == OutShape(e)
        present == {p \in 1..n : e.out[p] \in ToSet(BcOperand(e))}
        LastBefore(P, below) == Max({0} \cup {p \in P : p < below})
        bstride == [p \in 1..n |->
                       IF p \in present
                       THEN Product(Dims(e, InOrder(ToSet(BcOperand(e)), SubSeq(e.out, p + 1, n))))
                       ELSE 0]
        mode == IF n \in present THEN 0 ELSE 1
        colsFrom == IF mode = 0 THEN LastBefore((1..n) \ present, n + 1) + 1 ELSE n + 1
        innerFrom == LastBefore(present, colsFrom) + 1
    IN  Merged(
        [broadcast |-> TRUE, bc_mode |-> mode,
         bc_Cc |-> Product(SubSeq(sizes, colsFrom, n)),
         bc_Rr |-> IF mode = 0 THEN Product(SubSeq(sizes, innerFrom, colsFrom - 1)) ELSE 1,
         bc_Inner |-> Product(SubSeq(sizes, innerFrom, n)),
         bc_Outer |-> Product(SubSeq(sizes, 1, innerFrom - 1)),
         bc_sizeB |-> Product(Dims(e, BcOperand(e))),
         bc_full_is_in0 |-> FullIs0(e),
         bc_outer_dims |-> SubSeq(sizes, 1, innerFrom - 1),
         bc_outer_bstride |-> SubSeq(bstride, 1, innerFrom - 1)],
        Unmultiplied(e, FALSE))

BroadcastFits(r) == IF r.bc_mode = 0 THEN r.bc_Cc <= TileCap ELSE r.bc_sizeB <= ScalarCap

\* The broadcast kernel is for the NPU only.
TryBroadcast(e, device) ==
    /\ Contracted(e) = {}
    /\ device = "npu"
    /\ Broadcastable(e)
    /\ BroadcastFits(BroadcastRecipe(e))

-----------------------------------------------------------------------------
(* The rest of parse_recipe: a batched matrix product *)

ResStride(e, a) == RowStrides(OutShape(e))[IndexOf(e.out, a)]

\* The Cube can store in the output's order: one free axis per operand, that
\* of operand 1 innermost.
Fusible(e) ==
    /\ Len(invariant0(e)) = 1 /\ Len(invariant1(e)) = 1
    /\ e.out[Len(e.out)] = invariant1(e)[1]
    /\ e.out # inplace(e) \o invariant0(e) \o invariant1(e)

FuseFields(e) ==
    [out_fusible |-> TRUE, out_row_stride |-> ResStride(e, invariant0(e)[1]),
     out_n_batch |-> Len(inplace(e)), out_batch_sizes |-> Dims(e, inplace(e)),
     out_batch_strides |-> [i \in DOMAIN inplace(e) |-> ResStride(e, inplace(e)[i])]]

\* Which operands the Cube can read where they are: 1 NT, 2 NN, 3 TN, 0 none.
DirectMode(e, tile, ntEnabled) ==
    LET single == /\ ntEnabled
                  /\ Len(contract(e)) = 1 /\ Len(invariant0(e)) = 1 /\ Len(invariant1(e)) = 1
                  /\ Product(Dims(e, contract(e))) % Fractal = 0
                  /\ ~PartialTiles(tile, Product(Dims(e, invariant0(e))),
                                         Product(Dims(e, invariant1(e))))
        last0 == e.in0[Len(e.in0)]
        last1 == e.in1[Len(e.in1)]
    IN  IF ~single THEN 0
        ELSE IF last0 = contract(e)[1] /\ last1 = contract(e)[1] THEN 1
        ELSE IF last0 = contract(e)[1] /\ last1 = invariant1(e)[1] THEN 2
        ELSE IF last0 = invariant0(e)[1] /\ last1 = invariant1(e)[1] THEN 3
        ELSE 0

NtFields(e, mode) ==
    LET stride0(a) == RowStrides(e.shape0)[IndexOf(e.in0, a)]
        stride1(a) == RowStrides(e.shape1)[IndexOf(e.in1, a)]
    IN  [in_nt |-> mode, in_n_batch |-> Len(inplace(e)),
         in0_row_stride |-> stride0(invariant0(e)[1]), in0_k_stride |-> stride0(contract(e)[1]),
         in1_col_stride |-> stride1(invariant1(e)[1]), in1_k_stride |-> stride1(contract(e)[1]),
         in_batch_sizes |-> Dims(e, inplace(e)),
         in0_batch_strides |-> [i \in DOMAIN inplace(e) |-> stride0(inplace(e)[i])],
         in1_batch_strides |-> [i \in DOMAIN inplace(e) |-> stride1(inplace(e)[i])]]

MatmulRecipe(e, env) ==
    LET natural == inplace(e) \o invariant0(e) \o invariant1(e)
        mode == DirectMode(e, env.tile, env.nt)
    IN  Merged(
        [in_transpose_idxs |->
            <<Indices(e.in0, inplace(e) \o invariant0(e) \o contract(e)),
              Indices(e.in1, inplace(e) \o contract(e) \o invariant1(e))>>,
         out_interpret_shape |-> Dims(e, natural),
         \* argsort of a permutation is its inverse
         out_transpose_idxs |-> Indices(natural, e.out),
         out_shape |-> OutShape(e),
         L0 |-> Product(Dims(e, invariant0(e))), L1 |-> Product(Dims(e, invariant1(e))),
         I |-> Product(Dims(e, inplace(e))), C |-> Product(Dims(e, contract(e))),
         elementwise |-> FALSE, n_elem |-> Product(OutShape(e))],
        Merged(NoBcast, Merged(IF Fusible(e) THEN FuseFields(e) ELSE NoFuse,
                               IF mode # 0 THEN NtFields(e, mode) ELSE NoNt)))

ParseRecipe(e, env) ==
    IF Elementwise(e) THEN Merged(Unmultiplied(e, TRUE), NoBcast)
    ELSE IF TryBroadcast(e, env.device) THEN BroadcastRecipe(e)
    ELSE MatmulRecipe(e, env)

-----------------------------------------------------------------------------
(* parse_equation *)

Equation(p) == [in0 |-> p.in0, in1 |-> p.in1, out |-> p.out,
                shape0 |-> p.shape0, shape1 |-> p.shape1]

Swap(e) == [e EXCEPT !.in0 = e.in1, !.in1 = e.in0, !.shape0 = e.shape1, !.shape1 = e.shape0]

IsMatmul(r) == ~r.elementwise /\ ~r.broadcast

OutDirect(r) == r.out_fusible \/ IsIdentity(r.out_transpose_idxs)

\* Would the other order of operands spare the output's transpose?
SwapPays(e, env) ==
    /\ env.swap
    /\ IsMatmul(ParseRecipe(e, env))
    /\ ~OutDirect(ParseRecipe(e, env))
    /\ OutDirect(ParseRecipe(Swap(e), env))

\* The operands in the order the kernel sees them: _exec_shapes.
Exec(p, swap) == IF swap THEN Swap(Equation(p)) ELSE Equation(p)

BatchedPartial_Never(r, tile) == FALSE
BatchedPartial(r, tile) == r.I > 1 /\ IsMatmul(r) /\ PartialTiles(tile, r.L0, r.L1)

-----------------------------------------------------------------------------
(* generate_code and the templates *)

ElementBytes(dtype) == IF dtype \in {"float16", "bfloat16"} THEN 2 ELSE 4

TypeSupported(env) == env.dtype = "float32" \/ (env.dtype = "float16" /\ env.device # "cpu")

\* C++ has no arrays of length 0.
NonEmpty(s, dummy) == IF s = <<>> THEN <<dummy>> ELSE s

EinsumConfig(e, r, env) ==
    [tpose0 |-> TransposeConfig(e.shape0, r.in_transpose_idxs[1]),
     tpose1 |-> TransposeConfig(e.shape1, r.in_transpose_idxs[2]),
     tposeOut |-> TransposeConfig(r.out_interpret_shape, r.out_transpose_idxs),
     n_free0 |-> r.L0, n_free1 |-> r.L1, n_contract |-> r.C, n_inplace |-> r.I,
     tile_m |-> env.tile, tile_n |-> env.tile, ds |-> ElementBytes(env.dtype),
     tile_k |-> TileK(env.tile, r.L0, r.L1, r.C, ElementBytes(env.dtype)),
     out_fusible |-> r.out_fusible, out_row_stride |-> r.out_row_stride,
     out_n_batch |-> r.out_n_batch, out_batch_sizes |-> NonEmpty(r.out_batch_sizes, 0),
     out_batch_strides |-> NonEmpty(r.out_batch_strides, 0),
     in_nt |-> r.in_nt, in_n_batch |-> r.in_n_batch,
     in0_row_stride |-> r.in0_row_stride, in0_k_stride |-> r.in0_k_stride,
     in1_col_stride |-> r.in1_col_stride, in1_k_stride |-> r.in1_k_stride,
     in_batch_sizes |-> NonEmpty(r.in_batch_sizes, 0),
     in0_batch_strides |-> NonEmpty(r.in0_batch_strides, 0),
     in1_batch_strides |-> NonEmpty(r.in1_batch_strides, 0)]

BroadcastConfig(r) ==
    [mode |-> r.bc_mode, N |-> r.n_elem, Cc |-> r.bc_Cc, Rr |-> r.bc_Rr, Inner |-> r.bc_Inner,
     Outer |-> r.bc_Outer, sizeB |-> r.bc_sizeB, outer_rank |-> Len(r.bc_outer_dims),
     outer_dims |-> NonEmpty(r.bc_outer_dims, 1),
     outer_bstride |-> NonEmpty(r.bc_outer_bstride, 0),
     full_is_in0 |-> r.bc_full_is_in0]

\* backend: the header the template includes, kind: what its functions call
Template(r, env) ==
    IF r.elementwise THEN [backend |-> env.device, kind |-> "elementwise"]
    ELSE IF r.broadcast THEN [backend |-> "npu", kind |-> "broadcast"]
    ELSE [backend |-> env.device, kind |-> "einsum"]

\* The functions a library exports, and those load_library and run() look up.
Exports(lib) ==
    {"run_einsum"}
    \cup (IF lib.backend = "npu"
          THEN {"run_einsum_setup", "run_einsum_exec", "run_einsum_teardown"} ELSE {})
    \cup (IF lib.backend = "npu" /\ lib.kind = "einsum"
          THEN {"run_transpose_inp0", "run_transpose_inp1", "run_transpose_out",
                "run_batched_matmul"} ELSE {})

LookedUp_NoKind(r, env) ==
    {"run_einsum"} \cup
    (IF env.device = "npu" THEN {"run_transpose_inp0", "run_einsum_setup"} ELSE {})
LookedUp(r, env) ==
    {"run_einsum"}
    \cup (IF env.device = "npu" /\ IsMatmul(r)
          THEN {"run_transpose_inp0", "run_transpose_inp1", "run_transpose_out",
                "run_batched_matmul"} ELSE {})
    \cup (IF env.device # "cpu"
          THEN {"run_einsum_setup", "run_einsum_exec", "run_einsum_teardown"} ELSE {})

-----------------------------------------------------------------------------
(* The kernels: what they store where.  A result is a set of pairs of an   *)
(* offset of the output and the set of terms stored there, in elements of  *)
(* the kernel's own two operands.                                          *)

Zero == -1    \* an element of a workspace that nothing but the memset wrote

Results(stores) == {<<s[2], {s[3]}>> : s \in stores}

\* cpu::elementwise_mul
ElementwiseCpu(n) == {<<j, {<<j, j>>}>> : j \in 0..(n - 1)}

\* The template passes the full operand first.
BroadcastResult(c) ==
    Results(IF c.full_is_in0 THEN broadcast_mul(c)
            ELSE {<<s[1], s[2], <<s[3][2], s[3][1]>>>> : s \in broadcast_mul(c)})

\* The gates of einsum_fused_kernel; g is Geom(c) from here on.
NtIn(c, g) == c.in_nt # 0 /\ g.K = g.C /\ ~g.A_PADDED /\ ~g.B_PADDED
Skip0_Unpadded(c, g) == IsIdentity(c.tpose0.perm)
Skip0(c, g) == IsIdentity(c.tpose0.perm) /\ g.K = g.C /\ ~g.A_PADDED
Skip1(c, g) == IsIdentity(c.tpose1.perm) /\ g.K = g.C /\ ~g.B_PADDED
OutIdentity(c) == IsIdentity(c.tposeOut.perm)
FuseOut(c) == c.out_fusible /\ ~OutIdentity(c)

\* ReadDirect: RD0 and RD1, the operands Phase A leaves where they are.
RD0(c, g) == Skip0(c, g) \/ NtIn(c, g)
RD1(c, g) == Skip1(c, g) \/ NtIn(c, g)

\* Each batch of C rows has a slot of K in ws1.
RowPadded(g) == g.K # g.C /\ g.I > 1

\* What the lanes store in ws0 and in ws1 in Phase A, and in res in Phase C.
StoresInp0(c, g) == transpose_inline(c.tpose0, c.ds, g.C, g.K)

StoresInp1(c, g) ==
    IF RowPadded(g)
    THEN IF IsIdentity(c.tpose1.perm) THEN batched_pad_copy(g.I, g.C, g.L1, g.K * g.L1)
         ELSE transpose_inline_rowpad(c.tpose1, c.ds, g.C, g.K, g.L1)
    ELSE IF g.B_PADDED THEN transpose_inline(c.tpose1, c.ds, g.L1, g.Na)
    ELSE transpose_inline(c.tpose1, c.ds, 0, 0)

StoresOut(c) == transpose_inline(c.tposeOut, 4, 0, 0)

\* The static_asserts of the transposes that the fused kernel instantiates, and
\* of the three unpadded ones that the library exports besides.
TransposeAsserts(c, g) ==
    /\ \A t \in {c.tpose0, c.tpose1, c.tposeOut} : InlineAsserts(t, 0, 0)
    /\ RD0(c, g) \/ InlineAsserts(c.tpose0, g.C, g.K)
    /\ RD1(c, g) \/ (IF RowPadded(g) THEN IsIdentity(c.tpose1.perm) \/ RowpadAsserts(c.tpose1)
                     ELSE g.B_PADDED => InlineAsserts(c.tpose1, g.L1, g.Na))

\* What the matmul expects at address w of ws0: rows of C elements, K apart.
Ws0(c, g, w) ==
    LET j == (w \div g.K) * g.C + (w % g.K)
    IN  IF w % g.K < g.C /\ j < c.tpose0.N THEN Transferred(c.tpose0, j) ELSE Zero

\* ... and of ws1.  With a padded contraction and several batches, each batch
\* of C rows begins K rows after the one before; with a partial tile (one
\* batch only) rows of L1 elements are Na apart.
Ws1_Contiguous(c, g, w) == IF w < c.tpose1.N THEN Transferred(c.tpose1, w) ELSE Zero
Ws1(c, g, w) ==
    LET slot == g.K * g.L1
        colPadded == ~RowPadded(g) /\ g.B_PADDED
        j == IF RowPadded(g) THEN (w \div slot) * g.C * g.L1 + (w % slot)
             ELSE IF colPadded THEN (w \div g.Na) * g.L1 + (w % g.Na)
             ELSE w
        written == /\ RowPadded(g) => w % slot < g.C * g.L1
                   /\ colPadded => w % g.Na < g.L1
                   /\ j < c.tpose1.N
    IN  IF written THEN Transferred(c.tpose1, j) ELSE Zero

Batch(n, sizes, strides, i) == Decode(i, SubSeq(sizes, 1, n), SubSeq(strides, 1, n))

\* The addresses the matmul reads for batch i, row m or column n, and step k.
AddrA(c, g, i, m, k) ==
    IF NtIn(c, g)
    THEN Batch(c.in_n_batch, c.in_batch_sizes, c.in0_batch_strides, i)
            + m * c.in0_row_stride + k * c.in0_k_stride
    ELSE i * g.Arows * g.K + m * g.K + k

AddrB(c, g, i, n, k) ==
    IF NtIn(c, g)
    THEN Batch(c.in_n_batch, c.in_batch_sizes, c.in1_batch_strides, i)
            + n * c.in1_col_stride + k * (IF c.in_nt = 1 THEN 1 ELSE c.in1_k_stride)
    ELSE i * g.K * g.Bcols + k * g.Bcols + n

\* The elements there: of the raw operand, or of the workspace.
ReadA(c, g, w) == IF RD0(c, g) THEN w ELSE Ws0(c, g, w)
ReadB(c, g, w) == IF RD1(c, g) THEN w ELSE Ws1(c, g, w)

\* How many elements there are.
SizeA(c, g) == IF RD0(c, g) THEN c.tpose0.N ELSE g.I * g.Arows * g.K
SizeB(c, g) == IF RD1(c, g) THEN c.tpose1.N ELSE g.I * g.K * g.Bcols

\* Rows and columns of a tile that are loaded, and that are stored: the
\* pipelined loop takes every tile to be full.
Loaded(c, g, tile) ==
    IF PIPELINE_TILES(c) THEN [m |-> g.Mt, n |-> g.Nt]
    ELSE [m |-> IF g.A_PADDED THEN g.Mt ELSE tile.validM,
          n |-> IF g.B_PADDED THEN g.Nt ELSE tile.validN]

Inside(tile) == [m |-> tile.validM, n |-> tile.validN]

Stored(c, g, tile) == IF PIPELINE_TILES(c) THEN [m |-> g.Mt, n |-> g.Nt] ELSE Inside(tile)

\* Where row m and column n of batch i go: in res if fused, else in row-major
\* order, in ws_res or res.
AddrC(c, g, i, m, n) ==
    IF FuseOut(c)
    THEN Batch(c.out_n_batch, c.out_batch_sizes, c.out_batch_strides, i)
            + m * c.out_row_stride + n
    ELSE i * g.L0 * g.L1 + m * g.L1 + n

\* The tiles shared out to the cores.
TilesOf_OneShort(g) == 0..(g.total_tiles - 2)
TilesOf(g) == 0..(g.total_tiles - 1)

\* What batched_matmul_inline stores: pairs of an address and a set of terms.
Products(c, g) ==
    LET terms(i, m, n) ==
            LET pairs == {<<ReadA(c, g, AddrA(c, g, i, m, k)),
                            ReadB(c, g, AddrB(c, g, i, n, k))>> : k \in 0..(g.K - 1)}
            IN  {p \in pairs : p[1] # Zero /\ p[2] # Zero}
        stores(tile, size) ==
            {<<AddrC(c, g, tile.i, tile.row0 + m, tile.col0 + n),
               terms(tile.i, tile.row0 + m, tile.col0 + n)>> :
                m \in 0..(size.m - 1), n \in 0..(size.n - 1)}
    IN  UNION {stores(tile, Stored(c, g, tile)) : tile \in {Tile(g, t) : t \in TilesOf(g)}}

LoadInBounds(c, g, tile) ==
    LET load == Loaded(c, g, tile)
    IN  /\ AddrA(c, g, tile.i, tile.row0 + load.m - 1, g.K - 1) < SizeA(c, g)
        /\ AddrB(c, g, tile.i, tile.col0 + load.n - 1, g.K - 1) < SizeB(c, g)

\* Do cores add their slices of a tile to what res held?
Atomic(c, g) ==
    /\ KernelSplits(c, OutIdentity(c), NtIn(c, g))
    /\ \E ksplit \in 2..Least(Cores \div g.total_tiles, g.nK) : g.nK % ksplit = 0

\* res[j] is what the buffer holds at transfer_idx(j).
Transpose(t, stores) ==
    UNION {{<<j, s[2]>> : s \in {s \in stores : s[1] = Transferred(t, j)}} : j \in 0..(t.N - 1)}

Stale == <<Zero, Zero>>   \* what an uninitialised output held

EinsumNpu(c, zeroed) ==
    LET g == Geom(c)
        stores == Products(c, g)
    IN  IF Atomic(c, g) /\ ~zeroed THEN {<<s[1], s[2] \cup {Stale}>> : s \in stores}
        ELSE IF OutIdentity(c) \/ FuseOut(c) THEN stores
        ELSE Transpose(c.tposeOut, stores)

\* cpu::einsum: three transposes around three loops, nothing padded.
EinsumCpu(c) ==
    LET L0 == c.n_free0
        L1 == c.n_free1
        C == c.n_contract
        terms(i, l0, l1) ==
            {<<Transferred(c.tpose0, (i * L0 + l0) * C + k),
               Transferred(c.tpose1, i * L1 * C + k * L1 + l1)>> : k \in 0..(C - 1)}
    IN  Transpose(c.tposeOut,
            {<<(i * L0 + l0) * L1 + l1, terms(i, l0, l1)>> :
                i \in 0..(c.n_inplace - 1), l0 \in 0..(L0 - 1), l1 \in 0..(L1 - 1)})

RunEinsum(lib, c, zeroed) ==
    CASE lib.kind = "elementwise" ->
             IF lib.backend = "cpu" THEN ElementwiseCpu(c.N) ELSE Results(elementwise_mul(c.N))
      [] lib.kind = "broadcast" -> BroadcastResult(c)
      [] lib.kind = "einsum" /\ lib.backend = "cpu" -> EinsumCpu(c)
      [] OTHER -> EinsumNpu(c, zeroed)

\* The kernel's operands are the caller's the other way round if swapped.
ForCaller(swap, stores) ==
    IF swap THEN {<<s[1], {<<t[2], t[1]>> : t \in s[2]}>> : s \in stores} ELSE stores

-----------------------------------------------------------------------------
(* build() and run() *)

Init ==
    /\ problem \in Problems
    /\ pc = "new"
    /\ recipe = None /\ config = None /\ library = None /\ output = {}
    /\ swapped = FALSE /\ splitk = FALSE

ValidateFails ==
    /\ pc = "new"
    /\ ~Valid(Equation(problem)) \/ Solo(Equation(problem)) # {}
    /\ pc' = "rejected"
    /\ UNCHANGED <<problem, recipe, swapped, splitk, config, library, output>>

ParseEquation ==
    LET e == Equation(problem)
        swap == SwapPays(e, problem)
        r == ParseRecipe(Exec(problem, swap), problem)
    IN  /\ pc = "new"
        /\ Valid(e) /\ Solo(e) = {}
        /\ recipe' = r
        /\ swapped' = swap
        /\ pc' = IF BatchedPartial(r, problem.tile) THEN "rejected" ELSE "parsed"
        /\ UNCHANGED <<problem, splitk, config, library, output>>

GenerateCode ==
    /\ pc = "parsed"
    /\ TypeSupported(problem)
    /\ config' = IF recipe.elementwise THEN [N |-> recipe.n_elem]
                 ELSE IF recipe.broadcast THEN BroadcastConfig(recipe)
                 ELSE EinsumConfig(Exec(problem, swapped), recipe, problem)
    /\ library' = Template(recipe, problem)
    /\ pc' = "generated"
    /\ UNCHANGED <<problem, recipe, swapped, splitk, output>>

GenerateFails ==
    /\ pc = "parsed"
    /\ ~TypeSupported(problem)
    /\ pc' = "rejected"
    /\ UNCHANGED <<problem, recipe, swapped, splitk, config, library, output>>

\* The host's compiler for the CPU, bisheng for the NPU.
Compile ==
    /\ pc = "generated"
    /\ pc' = IF /\ library.backend = problem.device
                /\ library.kind = "einsum" /\ library.backend = "npu" =>
                       LET g == Geom(config)
                       IN  /\ StaticAsserts(config,
                                  KernelSplits(config, OutIdentity(config), NtIn(config, g)))
                           /\ TransposeAsserts(config, g)
             THEN "compiled" ELSE "uncompilable"
    /\ UNCHANGED <<problem, recipe, swapped, splitk, config, library, output>>

LoadLibrary ==
    /\ pc = "compiled"
    /\ IF LookedUp(recipe, problem) \subseteq Exports(library)
       THEN /\ splitk' = (/\ IsMatmul(recipe)
                          /\ HostSplits([n_free0 |-> recipe.L0, n_free1 |-> recipe.L1,
                                         n_contract |-> recipe.C, n_inplace |-> recipe.I,
                                         tile_m |-> problem.tile, tile_n |-> problem.tile,
                                         ds |-> ElementBytes(problem.dtype)],
                                        IsIdentity(recipe.out_transpose_idxs)))
            /\ pc' = "built"
       ELSE pc' = "broken" /\ UNCHANGED splitk
    /\ UNCHANGED <<problem, recipe, swapped, config, library, output>>

Run ==
    /\ pc = "built"
    /\ output' = ForCaller(swapped, RunEinsum(library, config, splitk))
    /\ pc' = "done"
    /\ UNCHANGED <<problem, recipe, swapped, splitk, config, library>>

Next == ValidateFails \/ ParseEquation \/ GenerateCode \/ GenerateFails
            \/ Compile \/ LoadLibrary \/ Run

Spec == Init /\ [][Next]_vars

-----------------------------------------------------------------------------
(* What einsum means *)

\* The offset that row-major order gives the element at place x of an array.
Offset(dims, x) ==
    LET upTo[i \in 0..Len(dims)] == IF i = 0 THEN 0 ELSE upTo[i - 1] * dims[i] + x[i]
    IN  upTo[Len(dims)]

\* The offset of the element that the valuation f of the labels selects.
Element(e, labels, f) == Offset(Dims(e, labels), [i \in DOMAIN labels |-> f[labels[i]]])

MaxDim(e) == Max(ToSet(e.shape0) \cup ToSet(e.shape1) \cup {1})

Valuations(e, labels) ==
    {f \in [labels -> 0..(MaxDim(e) - 1)] : \A a \in labels : f[a] < Dim(e, a)}

Einsum(e) ==
    {<<Element(e, e.out, f),
       {<<Element(e, e.in0, Merged(f, g)), Element(e, e.in1, Merged(f, g))>> :
            g \in Valuations(e, Contracted(e))}>> :
        f \in Valuations(e, ToSet(e.out))}

-----------------------------------------------------------------------------
(* Properties *)

TypeOK ==
    /\ pc \in {"new", "rejected", "parsed", "generated", "uncompilable", "compiled",
               "broken", "built", "done"}
    /\ swapped \in BOOLEAN /\ splitk \in BOOLEAN
    /\ recipe # None => /\ OutShape(Equation(problem)) = recipe.out_shape
                        /\ recipe.n_elem = Product(recipe.out_shape)
    /\ library = None \/ library \in [backend : {"npu", "cpu"},
                                      kind : {"elementwise", "broadcast", "einsum"}]
    /\ (output # {}) = (pc = "done")

MatmulLibrary == pc \notin {"new", "parsed", "rejected"} /\ library.kind = "einsum"

OnNpu == MatmulLibrary /\ library.backend = "npu"

Tiles(g) == {Tile(g, t) : t \in 0..(g.total_tiles - 1)}

\* Does the kernel store rows or columns of a tile that are not in the output?
Overhangs(c, g) == \E tile \in Tiles(g) : Stored(c, g, tile) # Inside(tile)

PartialPipelined(c) == Overhangs(c, Geom(c))

Innermost(t) == t.to_shape[Dimensions(t)]

\* Where a routine pads, or always for operand 0 but in the batched transpose:
\* is what it takes for the contraction, or for a row of L1 elements, one axis?
PadsOneAxis0(c, g) ==
    \/ Innermost(c.tpose0) = g.C
    \/ Dimensions(c.tpose0) > 2 /\ ~InnermostKept(c.tpose0) /\ g.K = g.C
PadsOneAxis1(c, g) ==
    /\ RowPadded(g) \/ g.B_PADDED => Innermost(c.tpose1) = g.L1
    /\ RowPadded(g) => c.tpose1.to_shape[Dimensions(c.tpose1) - 1] = g.C

Regular(c, g) ==
    /\ RD0(c, g) \/ IsIdentity(c.tpose0.perm) \/ PadsOneAxis0(c, g)
    /\ RD1(c, g) \/ IsIdentity(c.tpose1.perm) \/ PadsOneAxis1(c, g)

\* "the srcColStride==1 requirement that the second-innermost output axis be
\* source-contiguous in the batched-TTRANS case" (IMPLEMENTATION.md:255)
Guarded(c) ==
    \E t \in {c.tpose0, c.tpose1, c.tposeOut} :
        /\ ~IsIdentity(t.perm) /\ Dimensions(t) > 2 /\ ~InnermostKept(t)
        /\ t.perm_strides[Dimensions(t) - 1] # 1

Workspace(ws(_), size) == {<<w, ws(w)>> : w \in {w \in 0..(size - 1) : ws(w) # Zero}}

Laid0(c, g) ==
    /\ Image(StoresInp0(c, g)) = Workspace(LAMBDA w : Ws0(c, g, w), SizeA(c, g))
    /\ StoredOnce(StoresInp0(c, g))
Laid1(c, g) ==
    /\ Image(StoresInp1(c, g)) = Workspace(LAMBDA w : Ws1(c, g, w), SizeB(c, g))
    /\ StoredOnce(StoresInp1(c, g))
LaidOut(c) ==
    /\ Image(StoresOut(c)) = {<<j, Transferred(c.tposeOut, j)>> : j \in 0..(c.tposeOut.N - 1)}
    /\ StoredOnce(StoresOut(c))

\* What Phase A and Phase C leave is what is read afterwards.
Laid(c, g) == /\ RD0(c, g) \/ Laid0(c, g)
              /\ RD1(c, g) \/ Laid1(c, g)
              /\ OutIdentity(c) \/ FuseOut(c) \/ LaidOut(c)

(***************************************************************************)
(* An equation that build() accepts is computed right: every element of    *)
(* the result is stored, and is the sum of the products the equation       *)
(* names, whatever path the recipe took: elementwise, broadcast, operands  *)
(* transposed, skipped, padded or read in place, output direct, fused or   *)
(* transposed, operands swapped, contraction split.  The exceptions are    *)
(* the tiles of PartialPipelined and operands that are not Regular, see    *)
(* the README's findings.                                                  *)
(***************************************************************************)
RunRight ==
    pc = "done" => \/ OnNpu /\ (PartialPipelined(config) \/ ~Regular(config, Geom(config)))
                   \/ output = Einsum(Equation(problem))

(***************************************************************************)
(* The code of an accepted equation compiles: no static_assert of the      *)
(* kernels fails that parse_equation should have turned into a clean       *)
(* error, and no template is handed to the wrong compiler.  The exceptions *)
(* are the documented guard and operands that are not Regular.             *)
(***************************************************************************)
Compiles ==
    pc = "uncompilable" => OnNpu /\ (Guarded(config) \/ ~Regular(config, Geom(config)))

(***************************************************************************)
(* The granularities that host and kernel choose fit the buffers that no   *)
(* static_assert guards, and cover the contraction exactly.                *)
(***************************************************************************)
KernelFits ==
    OnNpu => Capacities(config, KernelSplits(config, OutIdentity(config),
                                             NtIn(config, Geom(config))))

(***************************************************************************)
(* Every function load_library and run() look up is exported by the        *)
(* library that was generated for this recipe and device.                  *)
(***************************************************************************)
SymbolsResolve == pc # "broken"

(***************************************************************************)
(* Whenever the kernel may split a contraction, so that cores add to what  *)
(* the output held, the host hands it a zeroed output: _splitk_eligible is *)
(* in lockstep with SPLITK_ELIGIBLE.                                       *)
(***************************************************************************)
SplitKInStep ==
    OnNpu /\ pc \in {"built", "done"} =>
        (KernelSplits(config, OutIdentity(config), NtIn(config, Geom(config))) => splitk)

(***************************************************************************)
(* The matmul reads inside its operands: inside the workspace regions that *)
(* einsum_setup sized, or inside the raw tensors when it reads in place.   *)
(***************************************************************************)
ReadsInBounds ==
    OnNpu /\ pc = "compiled" /\ ~PartialPipelined(config) =>
        \A tile \in Tiles(Geom(config)) : LoadInBounds(config, Geom(config), tile)

(***************************************************************************)
(* The lanes of the Vector cores together leave what the matmul, and the   *)
(* caller, read afterwards: each place is stored exactly once, by one lane *)
(* of all, with the element that belongs there, and nothing is stored in   *)
(* the pads, in the other operand's workspace or beyond - whichever of the *)
(* copies, gathers and transposes the dispatch picks, whole or in blocks.  *)
(***************************************************************************)
TransposesRight ==
    OnNpu /\ pc = "compiled" /\ Regular(config, Geom(config)) => Laid(config, Geom(config))

(***************************************************************************)
(* The lanes of the products without contraction store each element of the *)
(* output once, and no line of it, which their stores would clobber, twice *)
(* (pto_einsum_elementwise.h:153-155); scalar mode is a finding of its own.*)
(***************************************************************************)
ProductsApart ==
    pc = "compiled" /\ library.backend = "npu" /\ library.kind # "einsum" =>
        LET stores == IF library.kind = "elementwise" THEN elementwise_mul(config.N)
                                                       ELSE broadcast_mul(config)
        IN  /\ StoredOnce(stores)
            /\ library.kind = "elementwise" \/ config.mode = 0 => LinesApart(stores)

(***************************************************************************)
(* "for any permutation the contiguous output block over the trailing axes *)
(* maps to a strided source block, so dst stays the natural matmul layout  *)
(* and only the source side carries the permutation"                       *)
(* (pto_einsum_transpose.h:300-302).                                       *)
(***************************************************************************)
NaturalLayout == OnNpu /\ pc = "compiled" => Laid(config, Geom(config))

(***************************************************************************)
(* The tiles of the pipelined loop are full: "All tiles are full           *)
(* (PIPELINE_TILES requires !A_PADDED && !B_PADDED), so validM==Mt /       *)
(* validN==Nt are loop-invariant" (pto_einsum_matmul.h:651).               *)
(***************************************************************************)
PipelinedTilesFull == OnNpu => ~PartialPipelined(config)
=============================================================================
