------------------------------ MODULE Geometry ------------------------------
(***************************************************************************)
(* The arithmetic by which host and kernel cut a batched matrix product    *)
(* [I, L0, C] x [I, C, L1] into tiles: MatmulGeom, deep_pick_kq/kd and     *)
(* MatmulPipeline of pto_einsum_matmul.h, and _tile_k and _splitk_eligible *)
(* of builder.py.                                                          *)
(*                                                                         *)
(* A configuration c is a record with n_free0, n_free1, n_contract,        *)
(* n_inplace, tile_m, tile_n, tile_k and ds, the bytes of an operand's     *)
(* element.                                                                *)
(***************************************************************************)
EXTENDS Integers

CONSTANTS Fractal,    \* 16: the granule of every on-chip matrix
          L0Bytes,    \* 65536: capacity of L0A and of L0B
          L1Bytes,    \* 512 K: capacity of the CBUF
          L0CBytes,   \* 128 K: capacity of the accumulators
          IdleTiles,  \* 16: fewer tiles than this leave cores idle
          MinTiles    \* 32: MIN_TILES of the pipelined loop

ASSUME GeometryAssumption ==
    {Fractal, L0Bytes, L1Bytes, L0CBytes, IdleTiles, MinTiles} \subseteq Nat \ {0}

Least(a, b) == IF a < b THEN a ELSE b

CeilDiv(a, b) == (a + b - 1) \div b

PadUp(n) == CeilDiv(n, Fractal) * Fractal

(***************************************************************************)
(* The largest multiple of step up to cap that divides K, and step itself  *)
(* if there is none.  All three granularity searches are this one.         *)
(***************************************************************************)
Depths(cap, step, K) == {d \in step..cap : d % step = 0 /\ K % d = 0}

Deepest_AnyDepth(cap, step, K) ==
    IF cap < step THEN step ELSE cap - (cap % step)
Deepest(cap, step, K) ==
    IF Depths(cap, step, K) = {} THEN step
    ELSE CHOOSE d \in Depths(cap, step, K) : \A e \in Depths(cap, step, K) : e <= d

-----------------------------------------------------------------------------
(* The host *)

TileK(tile, L0, L1, C, ds) ==
    LET Mt == Least(tile, PadUp(L0))
        Nt == Least(tile, PadUp(L1))
        cap == Least(Least(L0Bytes \div (Mt * ds), L0Bytes \div (Nt * ds)),
                     Least(L1Bytes \div (2 * (Mt + Nt) * ds), PadUp(C)))
    IN  Deepest(cap, Fractal, PadUp(C))

\* May the kernel split the contraction of a tile among cores?  The host
\* computes the number of tiles and of k-tiles for itself.
HostSplits_BaseTile(c, outIdentity) ==
    /\ outIdentity
    /\ PadUp(c.n_contract) \div c.tile_m >= 2
    /\ c.n_inplace * CeilDiv(PadUp(c.n_free0), c.tile_m)
                   * CeilDiv(PadUp(c.n_free1), c.tile_n) < IdleTiles
HostSplits(c, outIdentity) ==
    LET Mpad == PadUp(c.n_free0)
        Npad == PadUp(c.n_free1)
        tiles == c.n_inplace * CeilDiv(Mpad, Least(c.tile_m, Mpad))
                             * CeilDiv(Npad, Least(c.tile_n, Npad))
        nK == PadUp(c.n_contract)
                \div TileK(c.tile_m, c.n_free0, c.n_free1, c.n_contract, c.ds)
    IN  outIdentity /\ nK >= 2 /\ tiles < IdleTiles

\* A free dimension that is not a whole number of tiles once padded.
PartialTiles(tile, L0, L1) ==
    \/ PadUp(L0) % Least(tile, PadUp(L0)) # 0
    \/ PadUp(L1) % Least(tile, PadUp(L1)) # 0

-----------------------------------------------------------------------------
(* The kernel *)

Geom(c) ==
    LET M == PadUp(c.n_free0)
        N == PadUp(c.n_free1)
        K == PadUp(c.n_contract)
        Mt == Least(c.tile_m, M)
        Nt == Least(c.tile_n, N)
        Kt == Least(c.tile_k, K)
        Ma == CeilDiv(M, Mt) * Mt
        Na == CeilDiv(N, Nt) * Nt
        perBatch == (Ma \div Mt) * (Na \div Nt)
    IN  [L0 |-> c.n_free0, L1 |-> c.n_free1, C |-> c.n_contract, I |-> c.n_inplace,
         K |-> K, Mt |-> Mt, Nt |-> Nt, Kt |-> Kt, Ma |-> Ma, Na |-> Na,
         A_PADDED |-> Ma > M, B_PADDED |-> Na > N,
         Arows |-> IF Ma > M THEN Ma ELSE c.n_free0,
         Bcols |-> IF Na > N THEN Na ELSE c.n_free1,
         nN |-> Na \div Nt, nK |-> K \div Kt,
         tiles_per_batch |-> perBatch, total_tiles |-> c.n_inplace * perBatch]

KernelSplits(c, outIdentity, direct) ==
    /\ outIdentity
    /\ Geom(c).nK >= 2
    /\ Geom(c).total_tiles < IdleTiles
    /\ ~direct

DeepPickKq(Mt, Nt, K, ds) ==
    Deepest(Least(Least(L0Bytes \div (2 * Mt * ds), L0Bytes \div (2 * Nt * ds)), K),
            Fractal, K)

DeepPickKd(Mt, Nt, K, Kq, ds) ==
    Deepest(Least(L1Bytes \div (2 * (Mt + Nt) * ds), K), Kq, K)

Kq(c) == LET g == Geom(c) IN DeepPickKq(g.Mt, g.Nt, g.K, c.ds)
Kd(c) == LET g == Geom(c) IN DeepPickKd(g.Mt, g.Nt, g.K, Kq(c), c.ds)

PIPELINE_TILES(c) ==
    LET g == Geom(c)
    IN  /\ g.K \div Kd(c) = 1
        /\ ~g.A_PADDED /\ ~g.B_PADDED
        /\ 2 * g.Mt * g.Nt * 4 <= L0CBytes
        /\ g.total_tiles >= MinTiles

\* Where tile t of a geometry g begins, and how much of it is in the output.
Tile(g, t) ==
    LET rem == t % g.tiles_per_batch
        row0 == (rem \div g.nN) * g.Mt
        col0 == (rem % g.nN) * g.Nt
    IN  [i |-> t \div g.tiles_per_batch, row0 |-> row0, col0 |-> col0,
         validM |-> Least(g.L0 - row0, g.Mt), validN |-> Least(g.L1 - col0, g.Nt)]

(***************************************************************************)
(* What the static_asserts of the instantiated kernels demand, and the     *)
(* capacities of L0A, L0B and L0C that they do not mention: the split-K    *)
(* tile relies on the host's choice of tile_k for the first two.           *)
(***************************************************************************)
StaticAsserts(c, splitK) ==
    LET g == Geom(c)
    IN  /\ g.Ma % g.Mt = 0 /\ g.Na % g.Nt = 0 /\ g.K % g.Kt = 0
        /\ g.I = 1 \/ (~g.A_PADDED /\ ~g.B_PADDED)
        /\ splitK => 2 * g.Mt * g.Kt * c.ds + 2 * g.Kt * g.Nt * c.ds <= L1Bytes
        /\ 2 * g.Mt * Kd(c) * c.ds + 2 * Kd(c) * g.Nt * c.ds <= L1Bytes
        /\ 2 * g.Mt * Kq(c) * c.ds <= L0Bytes
        /\ 2 * Kq(c) * g.Nt * c.ds <= L0Bytes
        /\ PIPELINE_TILES(c) => 2 * (g.Mt * g.Nt * 4) <= L0CBytes

Capacities(c, splitK) ==
    LET g == Geom(c)
    IN  /\ splitK => g.Mt * g.Kt * c.ds <= L0Bytes /\ g.Kt * g.Nt * c.ds <= L0Bytes
        /\ g.Mt * g.Nt * 4 <= L0CBytes
        \* the chunks of a tile, and the phases of a chunk, cover K exactly
        /\ (g.K \div Kd(c)) * (Kd(c) \div Kq(c)) * Kq(c) = g.K
        /\ g.nK * g.Kt = g.K
=============================================================================
