----------------------------- MODULE LayoutProofs -----------------------------
(***************************************************************************)
(* Proofs about Geometry, for every problem size, tile size, element size  *)
(* and buffer capacity: the granularity searches find divisors that fit,   *)
(* the kernels' static_asserts hold, and host and kernel agree on split-K. *)
(*                                                                         *)
(* About the shapes of Layout, of any number of axes: what the recursive   *)
(* functions for products, mixed-radix digits and sums compute, and that   *)
(* the odometer which steps through a permuted tensor without a division   *)
(* stays in step with transfer_idx, which divides.                         *)
(*                                                                         *)
(* And about what the lanes do, for every shape, number of cores, block    *)
(* and alignment: the lanes of the Vector cores share their units, the     *)
(* copies, the 2D transpose and the products store every element once, and *)
(* lanes of a product do not meet in a line of the output.                 *)
(***************************************************************************)
EXTENDS Layout, Arithmetic, TLAPS, FiniteSetTheorems

(***************************************************************************)
(* The configurations builder.py generates: square tiles, and the tile_k   *)
(* of _tile_k.                                                             *)
(***************************************************************************)
Generated(c) ==
    /\ {c.n_free0, c.n_free1, c.n_contract, c.n_inplace, c.tile_m, c.ds} \subseteq Positive
    /\ c.tile_n = c.tile_m
    /\ c.tile_k = TileK(c.tile_m, c.n_free0, c.n_free1, c.n_contract, c.ds)

(***************************************************************************)
(* One granule of a tile fits twice into L0, L0 twice into L1, and a tile  *)
(* of accumulators into L0C: true of the defaults, and checked nowhere     *)
(* when EINSUM_TILE_SIZE says otherwise.                                   *)
(***************************************************************************)
GranuleFits(c) ==
    /\ 2 * (Fractal * (c.tile_m * c.ds)) <= L0Bytes
    /\ 2 * L0Bytes <= L1Bytes
    /\ c.tile_m * c.tile_m * 4 <= L0CBytes

-----------------------------------------------------------------------------
(* Rounding up *)

\* Rounding up reaches the number, with a multiple less than one step above.
LEMMA RoundedUp ==
    ASSUME NEW a \in Nat, NEW b \in Positive
    PROVE  /\ CeilDiv(a, b) \in Nat
           /\ CeilDiv(a, b) * b >= a /\ CeilDiv(a, b) * b < a + b
           /\ CeilDiv(a, b) * b % b = 0
  <1>1. CeilDiv(a, b) \in Nat
    BY DEF CeilDiv, Positive
  <1>2. CeilDiv(a, b) * b >= a /\ CeilDiv(a, b) * b < a + b
    BY DEF CeilDiv, Positive
  <1>. QED  BY <1>1, <1>2, ExactDivision

\* A multiple is not rounded up any further.
LEMMA RoundingExact ==
    ASSUME NEW a \in Nat, NEW b \in Positive
    PROVE  CeilDiv(a, b) * b = a <=> a % b = 0
  <1>1. ASSUME a % b = 0 PROVE CeilDiv(a, b) * b = a
    <2>. DEFINE q == a \div b
    <2>1. q \in Nat /\ a = q * b
      <3>1. a = q * b + (a % b)
        BY Division
      <3>2. q \in Nat
        BY Quotient
      <3>3. q * b \in Int
        BY <3>2 DEF Positive
      <3>. HIDE DEF q
      <3>. QED  BY <1>1, <3>1, <3>2, <3>3
    <2>2. a + b - 1 = q * b + (b - 1) /\ b - 1 \in 0..(b - 1) /\ a + b - 1 \in Nat
      BY <2>1 DEF Positive
    <2>. HIDE DEF q
    <2>3. (a + b - 1) \div b = q
      BY <2>1, <2>2, DivisionUnique
    <2>. QED  BY <2>1, <2>3 DEF CeilDiv
  <1>2. CeilDiv(a, b) * b = a => a % b = 0
    BY RoundedUp
  <1>. QED  BY <1>1, <1>2

-----------------------------------------------------------------------------
(* Padding and the granularity searches *)

\* Padding to whole granules.
LEMMA Padded ==
    ASSUME NEW n \in Positive
    PROVE  PadUp(n) \in Positive /\ PadUp(n) >= n /\ PadUp(n) >= Fractal /\ PadUp(n) % Fractal = 0
  <1>1. Fractal \in Positive
    BY GeometryAssumption DEF Positive
  <1>2. /\ CeilDiv(n, Fractal) \in Nat
        /\ CeilDiv(n, Fractal) * Fractal >= n
        /\ (CeilDiv(n, Fractal) * Fractal) % Fractal = 0
    BY <1>1, RoundedUp DEF Positive
  <1>3. CeilDiv(n, Fractal) # 0
    BY <1>1, <1>2 DEF Positive
  <1>4. CeilDiv(n, Fractal) * Fractal >= Fractal
    BY <1>1, <1>2, <1>3 DEF Positive
  <1>. QED  BY <1>1, <1>2, <1>4 DEF PadUp, Positive

(***************************************************************************)
(* _tile_k and deep_pick_kq/kd end on a multiple of their step that        *)
(* divides K, and that is within their cap whenever the step is.           *)
(***************************************************************************)
THEOREM SearchesDivide ==
    ASSUME NEW cap \in Nat, NEW step \in Positive, NEW K \in Positive, K % step = 0
    PROVE  /\ Deepest(cap, step, K) \in Positive
           /\ K % Deepest(cap, step, K) = 0
           /\ Deepest(cap, step, K) % step = 0
           /\ step <= cap => Deepest(cap, step, K) <= cap
  <1>0. step % step = 0
    <2>1. 1 * step = step
      BY DEF Positive
    <2>. QED  BY <2>1, ExactDivision
  <1>1. CASE Depths(cap, step, K) = {}
    <2>1. Deepest(cap, step, K) = step
      BY <1>1 DEF Deepest
    <2>2. ~ (step <= cap)
      BY <1>0, <1>1 DEF Depths, Positive
    <2>. QED  BY <1>0, <2>1, <2>2
  <1>2. CASE Depths(cap, step, K) # {}
    <2>1. Depths(cap, step, K) \subseteq Nat /\ \A d \in Depths(cap, step, K) : d <= cap
      BY DEF Depths, Positive
    <2>2. \E d \in Depths(cap, step, K) : \A e \in Depths(cap, step, K) : e <= d
      <3>. DEFINE T == Depths(cap, step, K)
      <3>1. T \in SUBSET Nat /\ T # {} /\ \A d \in T : d <= cap
        BY <1>2, <2>1
      <3>. HIDE DEF T
      <3>2. \E d \in T : \A e \in T : e <= d
        BY <3>1, LargestExists
      <3>. QED  BY <3>2 DEF T
    <2>3. Deepest(cap, step, K) \in Depths(cap, step, K)
      BY <1>2, <2>2 DEF Deepest
    <2>. QED  BY <2>3 DEF Depths, Positive
  <1>. QED  BY <1>1, <1>2

\* What the search of _tile_k promises.
LEMMA TileKDivides ==
    ASSUME NEW t \in Positive, NEW L0 \in Positive, NEW L1 \in Positive, NEW C \in Positive,
           NEW ds \in Positive
    PROVE  LET Mt == Least(t, PadUp(L0))
               Nt == Least(t, PadUp(L1))
               Kt == TileK(t, L0, L1, C, ds)
           IN  /\ Kt \in Positive /\ PadUp(C) % Kt = 0 /\ Kt <= PadUp(C)
               /\ /\ Fractal <= L0Bytes \div (Mt * ds)
                  /\ Fractal <= L0Bytes \div (Nt * ds)
                  /\ Fractal <= L1Bytes \div (2 * (Mt + Nt) * ds)
                  => /\ Kt <= L0Bytes \div (Mt * ds)
                     /\ Kt <= L0Bytes \div (Nt * ds)
                     /\ Kt <= L1Bytes \div (2 * (Mt + Nt) * ds)
  <1>. DEFINE Mt == Least(t, PadUp(L0))
              Nt == Least(t, PadUp(L1))
              K == PadUp(C)
              x == L0Bytes \div (Mt * ds)
              y == L0Bytes \div (Nt * ds)
              z == L1Bytes \div (2 * (Mt + Nt) * ds)
              cap == Least(Least(x, y), Least(z, K))
              Kt == Deepest(cap, Fractal, K)
  <1>1. Mt \in Positive /\ Nt \in Positive
    BY Padded DEF Least, Positive
  <1>2. Mt * ds \in Positive /\ Nt * ds \in Positive /\ 2 * (Mt + Nt) * ds \in Positive
    BY <1>1 DEF Positive
  <1>3. x \in Nat /\ y \in Nat /\ z \in Nat
    BY <1>2, Quotient, GeometryAssumption
  <1>4. K \in Positive /\ Fractal \in Positive /\ Fractal <= K /\ K % Fractal = 0
    BY Padded, GeometryAssumption DEF Positive
  <1>. HIDE DEF Mt, Nt, K, x, y, z
  <1>5. /\ cap \in Nat /\ cap <= x /\ cap <= y /\ cap <= z /\ cap <= K
        /\ Fractal <= x /\ Fractal <= y /\ Fractal <= z => Fractal <= cap
    BY <1>3, <1>4 DEF Least, Positive
  <1>. HIDE DEF cap
  <1>6. /\ Kt \in Positive /\ K % Kt = 0
        /\ Fractal <= cap => Kt <= cap
    BY <1>4, <1>5, SearchesDivide
  <1>7. Kt <= K
    BY <1>4, <1>6, DivisorBound
  <1>. HIDE DEF Kt
  <1>8. Kt \in Positive /\ K % Kt = 0 /\ Kt <= K
        /\ (Fractal <= x /\ Fractal <= y /\ Fractal <= z => Kt <= x /\ Kt <= y /\ Kt <= z)
    BY <1>3, <1>5, <1>6, <1>7 DEF Positive
  <1>. QED  BY <1>8 DEF TileK, Kt, cap, x, y, z, Mt, Nt, K

\* The sizes of a tile.
LEMMA TileSizes ==
    ASSUME NEW c, Generated(c)
    PROVE  LET g == Geom(c)
           IN  /\ g.Mt = Least(c.tile_m, PadUp(c.n_free0)) /\ g.Mt \in Positive
               /\ g.Nt = Least(c.tile_m, PadUp(c.n_free1)) /\ g.Nt \in Positive
               /\ g.Mt <= c.tile_m /\ g.Nt <= c.tile_m
               /\ g.K = PadUp(c.n_contract)
               /\ g.Kt = Least(c.tile_k, g.K)
               /\ g.Ma = CeilDiv(PadUp(c.n_free0), g.Mt) * g.Mt
               /\ g.Na = CeilDiv(PadUp(c.n_free1), g.Nt) * g.Nt
               /\ g.nK = g.K \div g.Kt
               /\ g.I = c.n_inplace
               /\ g.total_tiles = c.n_inplace * ((g.Ma \div g.Mt) * (g.Na \div g.Nt))
               /\ g.A_PADDED = (g.Ma > PadUp(c.n_free0))
               /\ g.B_PADDED = (g.Na > PadUp(c.n_free1))
  <1>1. PadUp(c.n_free0) \in Positive /\ PadUp(c.n_free1) \in Positive /\ c.tile_m \in Positive
    BY Padded DEF Generated
  <1>2. \A x, y \in Positive : Least(x, y) \in Positive /\ Least(x, y) <= x
    BY DEF Least, Positive
  <1>3. /\ Geom(c).Mt = Least(c.tile_m, PadUp(c.n_free0))
        /\ Geom(c).Nt = Least(c.tile_m, PadUp(c.n_free1))
    BY DEF Geom, Generated
  <1>4. /\ Geom(c).Mt \in Positive /\ Geom(c).Mt <= c.tile_m
        /\ Geom(c).Nt \in Positive /\ Geom(c).Nt <= c.tile_m
    BY <1>1, <1>2, <1>3
  <1>5. /\ Geom(c).K = PadUp(c.n_contract)
        /\ Geom(c).Kt = Least(c.tile_k, Geom(c).K)
        /\ Geom(c).nK = Geom(c).K \div Geom(c).Kt
    BY DEF Geom
  <1>6. /\ Geom(c).Ma = CeilDiv(PadUp(c.n_free0), Geom(c).Mt) * Geom(c).Mt
        /\ Geom(c).Na = CeilDiv(PadUp(c.n_free1), Geom(c).Nt) * Geom(c).Nt
    BY DEF Geom
  <1>7. /\ Geom(c).I = c.n_inplace
        /\ Geom(c).total_tiles = c.n_inplace * ((Geom(c).Ma \div Geom(c).Mt)
                                                  * (Geom(c).Na \div Geom(c).Nt))
    BY DEF Geom
  <1>8. /\ Geom(c).A_PADDED = (Geom(c).Ma > PadUp(c.n_free0))
        /\ Geom(c).B_PADDED = (Geom(c).Na > PadUp(c.n_free1))
    BY DEF Geom
  <1>. QED  BY <1>3, <1>4, <1>5, <1>6, <1>7, <1>8

(***************************************************************************)
(* The partial-tile check of parse_equation is the A_PADDED and B_PADDED   *)
(* of the kernel.                                                          *)
(***************************************************************************)
THEOREM PartialTilesAgree ==
    ASSUME NEW c, Generated(c)
    PROVE  PartialTiles(c.tile_m, c.n_free0, c.n_free1) <=> Geom(c).A_PADDED \/ Geom(c).B_PADDED
  <1>. DEFINE g == Geom(c)
  <1>1. PadUp(c.n_free0) \in Positive /\ PadUp(c.n_free1) \in Positive
    BY Padded DEF Generated
  <1>2. ASSUME NEW M \in Positive, NEW t \in Positive
        PROVE  CeilDiv(M, t) * t > M <=> M % t # 0
    <2>1. CeilDiv(M, t) * t >= M /\ CeilDiv(M, t) \in Nat
      BY RoundedUp DEF Positive
    <2>2. CeilDiv(M, t) * t \in Nat
      BY <2>1 DEF Positive
    <2>3. CeilDiv(M, t) * t = M <=> M % t = 0
      BY RoundingExact DEF Positive
    <2>. QED  BY <2>1, <2>2, <2>3 DEF Positive
  <1>3. /\ g.A_PADDED <=> PadUp(c.n_free0) % g.Mt # 0
        /\ g.B_PADDED <=> PadUp(c.n_free1) % g.Nt # 0
    BY <1>1, <1>2, TileSizes
  <1>. QED  BY <1>3, TileSizes DEF PartialTiles

(***************************************************************************)
(* Host and kernel agree on split-K: whenever cores may add their slices   *)
(* into the output, the host has zeroed it, for every size.                *)
(***************************************************************************)
THEOREM SplitKAgrees ==
    ASSUME NEW c, Generated(c), NEW outIdentity \in BOOLEAN, NEW direct \in BOOLEAN,
           KernelSplits(c, outIdentity, direct)
    PROVE  HostSplits(c, outIdentity)
  <1>. DEFINE g == Geom(c)
              M == PadUp(c.n_free0)
              N == PadUp(c.n_free1)
              nM == CeilDiv(M, g.Mt)
              nN == CeilDiv(N, g.Nt)
  <1>1. M \in Positive /\ N \in Positive /\ g.Mt \in Positive /\ g.Nt \in Positive
    BY Padded, TileSizes DEF Generated
  <1>2. nM \in Nat /\ nN \in Nat
    BY <1>1, RoundedUp DEF Positive
  <1>3. g.Ma \div g.Mt = nM /\ g.Na \div g.Nt = nN
    BY <1>1, <1>2, ExactDivision, TileSizes
  <1>4. g.total_tiles = c.n_inplace * nM * nN
    <2>1. ASSUME NEW i \in Nat, NEW x \in Nat, NEW y \in Nat PROVE i * (x * y) = i * x * y
      OBVIOUS
    <2>2. c.n_inplace \in Nat
      BY DEF Generated, Positive
    <2>3. g.total_tiles = c.n_inplace * (nM * nN)
      BY <1>3, TileSizes
    <2>. HIDE DEF nM, nN, g
    <2>. QED  BY <1>2, <2>1, <2>2, <2>3
  <1>5. g.nK = PadUp(c.n_contract)
                 \div TileK(c.tile_m, c.n_free0, c.n_free1, c.n_contract, c.ds)
    <2>1. c.tile_k <= PadUp(c.n_contract) /\ c.tile_k \in Nat
      <3>1. /\ c.tile_m \in Positive /\ c.n_free0 \in Positive /\ c.n_free1 \in Positive
            /\ c.n_contract \in Positive /\ c.ds \in Positive
        BY DEF Generated
      <3>2. c.tile_k = TileK(c.tile_m, c.n_free0, c.n_free1, c.n_contract, c.ds)
        BY DEF Generated
      <3>. HIDE DEF g, M, N, nM, nN
      <3>3. /\ TileK(c.tile_m, c.n_free0, c.n_free1, c.n_contract, c.ds) \in Positive
            /\ TileK(c.tile_m, c.n_free0, c.n_free1, c.n_contract, c.ds)
                   <= PadUp(c.n_contract)
        BY <3>1, TileKDivides
      <3>. QED  BY <3>2, <3>3 DEF Positive
    <2>. QED  BY <2>1, TileSizes, Padded DEF Generated, Least, Positive
  <1>. QED  BY <1>4, <1>5, TileSizes DEF KernelSplits, HostSplits, Generated

-----------------------------------------------------------------------------
(* Buffers *)

\* A granule of a tile fits wherever the searches look.
LEMMA GranulesFit ==
    ASSUME NEW c, Generated(c), GranuleFits(c)
    PROVE  LET m == Geom(c).Mt
               n == Geom(c).Nt
           IN  /\ Fractal <= L0Bytes \div (m * c.ds) /\ Fractal <= L0Bytes \div (n * c.ds)
               /\ Fractal <= L0Bytes \div (2 * m * c.ds)
               /\ Fractal <= L0Bytes \div (2 * n * c.ds)
               /\ Fractal <= L1Bytes \div (2 * (m + n) * c.ds)
  <1>. DEFINE m == Geom(c).Mt
              n == Geom(c).Nt
              t == c.tile_m
              s == c.ds
              F == Fractal
  <1>1. /\ m \in Positive /\ n \in Positive /\ m <= t /\ n <= t
        /\ t \in Positive /\ s \in Positive /\ F \in Positive
        /\ L0Bytes \in Positive /\ L1Bytes \in Positive
    BY TileSizes, GeometryAssumption DEF Generated, Positive
  <1>2. 2 * (F * (t * s)) <= L0Bytes /\ 2 * L0Bytes <= L1Bytes
    BY DEF GranuleFits
  <1>. HIDE DEF m, n, t, s, F
  <1>3. ASSUME NEW k \in Positive, k <= t
        PROVE  F * (k * s) \in Nat /\ F * (k * s) <= F * (t * s)
    <2>1. k * s <= t * s /\ k * s \in Nat /\ t * s \in Nat
      BY <1>1, <1>3, Monotone DEF Positive
    <2>. QED  BY <1>1, <2>1, Monotone DEF Positive
  <1>4. F * (t * s) \in Nat /\ F * (t * s) <= L0Bytes
    BY <1>1, <1>2 DEF Positive
  <1>5. ASSUME NEW k \in Positive, k <= t
        PROVE  F <= L0Bytes \div (k * s) /\ F <= L0Bytes \div (2 * k * s)
    <2>1. k * s \in Positive /\ 2 * k * s \in Positive
      BY <1>1 DEF Positive
    <2>2. F * (k * s) <= L0Bytes
      BY <1>1, <1>3, <1>4, <1>5 DEF Positive
    <2>3. F * (2 * k * s) = 2 * (F * (k * s))
      BY <1>1 DEF Positive
    <2>4. F * (2 * k * s) <= L0Bytes
      BY <1>1, <1>2, <1>3, <1>4, <1>5, <2>3 DEF Positive
    <2>. QED  BY <1>1, <2>1, <2>2, <2>4, FactorFits DEF Positive
  <1>6. F <= L1Bytes \div (2 * (m + n) * s)
    <2>1. 2 * (m + n) * s \in Positive
      BY <1>1 DEF Positive
    <2>2. F * (2 * (m + n) * s) = 2 * (F * (m * s)) + 2 * (F * (n * s))
      BY <1>1 DEF Positive
    <2>3. F * (2 * (m + n) * s) <= L1Bytes
      BY <1>1, <1>2, <1>3, <1>4, <2>2 DEF Positive
    <2>. QED  BY <1>1, <2>1, <2>3, FactorFits DEF Positive
  <1>. QED  BY <1>1, <1>5, <1>6 DEF m, n, s, F

\* The k-tile of the kernel divides the contraction and fits L0 and L1.
LEMMA KernelTileK ==
    ASSUME NEW c, Generated(c), GranuleFits(c)
    PROVE  LET g == Geom(c)
           IN  /\ g.Kt \in Positive /\ g.K % g.Kt = 0 /\ g.K \in Positive
               /\ g.Kt <= L0Bytes \div (g.Mt * c.ds) /\ g.Kt <= L0Bytes \div (g.Nt * c.ds)
               /\ g.Kt <= L1Bytes \div (2 * (g.Mt + g.Nt) * c.ds)
  <1>. DEFINE g == Geom(c)
              m == Least(c.tile_m, PadUp(c.n_free0))
              n == Least(c.tile_m, PadUp(c.n_free1))
              K == PadUp(c.n_contract)
              Kt == TileK(c.tile_m, c.n_free0, c.n_free1, c.n_contract, c.ds)
  <1>1. /\ c.tile_m \in Positive /\ c.n_free0 \in Positive /\ c.n_free1 \in Positive
        /\ c.n_contract \in Positive /\ c.ds \in Positive /\ c.tile_k = Kt
    BY DEF Generated
  <1>2. /\ g.Mt = m /\ g.Nt = n /\ g.K = K /\ g.Kt = Least(c.tile_k, g.K)
    BY TileSizes
  <1>3. /\ Fractal <= L0Bytes \div (m * c.ds) /\ Fractal <= L0Bytes \div (n * c.ds)
        /\ Fractal <= L1Bytes \div (2 * (m + n) * c.ds)
    <2>1. /\ Fractal <= L0Bytes \div (g.Mt * c.ds) /\ Fractal <= L0Bytes \div (g.Nt * c.ds)
          /\ Fractal <= L1Bytes \div (2 * (g.Mt + g.Nt) * c.ds)
      BY GranulesFit
    <2>. HIDE DEF g, m, n
    <2>. QED  BY <2>1, <1>2
  <1>4. /\ Kt \in Positive /\ K % Kt = 0 /\ Kt <= K
        /\ /\ Fractal <= L0Bytes \div (m * c.ds) /\ Fractal <= L0Bytes \div (n * c.ds)
           /\ Fractal <= L1Bytes \div (2 * (m + n) * c.ds)
           => /\ Kt <= L0Bytes \div (m * c.ds) /\ Kt <= L0Bytes \div (n * c.ds)
              /\ Kt <= L1Bytes \div (2 * (m + n) * c.ds)
    <2>. HIDE DEF g
    <2>. QED  BY <1>1, TileKDivides, ZenonT(60)
  <1>5. K \in Positive
    BY <1>1, Padded
  <1>. HIDE DEF g, m, n, K, Kt
  <1>6. g.Kt = Kt
    BY <1>1, <1>2, <1>4, <1>5 DEF Least, Positive
  <1>7. /\ g.Kt \in Positive /\ g.K % g.Kt = 0 /\ g.K \in Positive
        /\ g.Kt <= L0Bytes \div (g.Mt * c.ds) /\ g.Kt <= L0Bytes \div (g.Nt * c.ds)
        /\ g.Kt <= L1Bytes \div (2 * (g.Mt + g.Nt) * c.ds)
    BY <1>2, <1>3, <1>4, <1>5, <1>6
  <1>. QED  BY <1>7 DEF g

\* What deep_pick_kq and deep_pick_kd promise.
LEMMA DeepDivides ==
    ASSUME NEW c, Generated(c), GranuleFits(c)
    PROVE  LET m == Geom(c).Mt
               n == Geom(c).Nt
               K == Geom(c).K
           IN  /\ Kq(c) \in Positive /\ Kd(c) \in Positive
               /\ K % Kq(c) = 0 /\ K % Kd(c) = 0 /\ Kd(c) % Kq(c) = 0
               /\ Kq(c) * (2 * m * c.ds) <= L0Bytes
               /\ Kq(c) * (2 * n * c.ds) <= L0Bytes
               /\ Kd(c) * (2 * (m + n) * c.ds) <= L1Bytes
  <1>. DEFINE m == Geom(c).Mt
              n == Geom(c).Nt
              K == Geom(c).K
              s == c.ds
              x == L0Bytes \div (2 * m * s)
              y == L0Bytes \div (2 * n * s)
              z == L1Bytes \div (2 * (m + n) * s)
              capq == Least(Least(x, y), K)
              capd == Least(z, K)
  <1>1. /\ m \in Positive /\ n \in Positive /\ s \in Positive
        /\ L0Bytes \in Positive /\ L1Bytes \in Positive /\ Fractal \in Positive
    BY TileSizes, GeometryAssumption DEF Generated, Positive
  <1>2. K \in Positive /\ Fractal <= K /\ K % Fractal = 0
    BY TileSizes, Padded DEF Generated, Positive
  <1>3. Fractal <= x /\ Fractal <= y /\ Fractal <= z
    BY GranulesFit
  <1>4. Kq(c) = Deepest(capq, Fractal, K) /\ Kd(c) = Deepest(capd, Kq(c), K)
    BY DEF Kq, Kd, DeepPickKq, DeepPickKd
  <1>. HIDE DEF m, n, K, s
  <1>5. 2 * m * s \in Positive /\ 2 * n * s \in Positive /\ 2 * (m + n) * s \in Positive
    BY <1>1 DEF Positive
  <1>6. x \in Nat /\ y \in Nat /\ z \in Nat
    BY <1>1, <1>5, Quotient DEF Positive
  <1>. HIDE DEF x, y, z
  <1>7. capq \in Nat /\ capq <= x /\ capq <= y /\ Fractal <= capq /\ capd \in Nat /\ capd <= z
    BY <1>1, <1>2, <1>3, <1>6 DEF Least, Positive
  <1>. HIDE DEF capq
  <1>8. Kq(c) \in Positive /\ K % Kq(c) = 0 /\ Kq(c) <= capq
    BY <1>1, <1>2, <1>4, <1>7, SearchesDivide
  <1>9. Kq(c) <= x /\ Kq(c) <= y /\ Kq(c) <= K
    <2>1. Kq(c) <= K
      BY <1>2, <1>8, DivisorBound
    <2>. QED  BY <1>6, <1>7, <1>8, <2>1 DEF Positive
  <1>10. Kq(c) * (2 * m * s) <= L0Bytes /\ Kq(c) * (2 * n * s) <= L0Bytes
    BY <1>1, <1>5, <1>8, <1>9, FactorFits DEF Positive, x, y
  <1>11. Kq(c) <= z
    <2>1. Kq(c) * (2 * (m + n) * s) = Kq(c) * (2 * m * s) + Kq(c) * (2 * n * s)
      BY <1>1, <1>8 DEF Positive
    <2>2. 2 * L0Bytes <= L1Bytes
      BY DEF GranuleFits
    <2>3. Kq(c) * (2 * m * s) \in Nat /\ Kq(c) * (2 * n * s) \in Nat
      BY <1>5, <1>8 DEF Positive
    <2>4. Kq(c) * (2 * (m + n) * s) <= L1Bytes
      BY <1>1, <1>10, <2>1, <2>2, <2>3 DEF Positive
    <2>. QED  BY <1>1, <1>5, <1>8, <2>4, FactorFits DEF Positive, z
  <1>12. Kq(c) <= capd
    BY <1>2, <1>6, <1>8, <1>9, <1>11 DEF Least, Positive
  <1>. HIDE DEF capd
  <1>13. Kd(c) \in Positive /\ K % Kd(c) = 0 /\ Kd(c) % Kq(c) = 0 /\ Kd(c) <= capd
    BY <1>2, <1>4, <1>7, <1>8, <1>12, SearchesDivide
  <1>14. Kd(c) <= z
    BY <1>6, <1>7, <1>13 DEF Positive
  <1>15. Kd(c) * (2 * (m + n) * s) <= L1Bytes
    BY <1>1, <1>5, <1>13, <1>14, FactorFits DEF Positive, z
  <1>. QED  BY <1>8, <1>10, <1>13, <1>15 DEF m, n, K, s

(***************************************************************************)
(* No static_assert of the kernels fails for a configuration that passed   *)
(* the partial-tile check, whatever the sizes of the problem.              *)
(***************************************************************************)
THEOREM StaticAssertsHold ==
    ASSUME NEW c, Generated(c), GranuleFits(c), NEW splitK \in BOOLEAN,
           c.n_inplace = 1 \/ ~PartialTiles(c.tile_m, c.n_free0, c.n_free1)
    PROVE  StaticAsserts(c, splitK)
  <1>. DEFINE g == Geom(c)
              s == c.ds
              m == g.Mt
              n == g.Nt
  <1>1. /\ m \in Positive /\ n \in Positive /\ s \in Positive
        /\ L0Bytes \in Positive /\ L1Bytes \in Positive
    BY TileSizes, GeometryAssumption DEF Generated, Positive
  <1>2. g.Ma % m = 0 /\ g.Na % n = 0
    <2>1. PadUp(c.n_free0) \in Nat /\ PadUp(c.n_free1) \in Nat
      BY Padded DEF Generated, Positive
    <2>. QED  BY <1>1, <2>1, RoundedUp, TileSizes
  <1>3. /\ g.Kt \in Positive /\ g.K % g.Kt = 0 /\ g.K \in Positive
        /\ g.Kt <= L1Bytes \div (2 * (m + n) * s)
    BY KernelTileK
  <1>4. g.I = 1 \/ (~g.A_PADDED /\ ~g.B_PADDED)
    BY PartialTilesAgree, TileSizes
  <1>5. 2 * m * g.Kt * s + 2 * g.Kt * n * s <= L1Bytes
    <2>. DEFINE Kt == g.Kt
    <2>1. Kt \in Positive /\ Kt <= L1Bytes \div (2 * (m + n) * s)
      BY <1>3
    <2>. HIDE DEF g, m, n, s, Kt
    <2>2. 2 * (m + n) * s \in Positive
      BY <1>1 DEF Positive
    <2>3. Kt * (2 * (m + n) * s) <= L1Bytes
      BY <1>1, <2>1, <2>2, FactorFits DEF Positive
    <2>4. Kt * (2 * (m + n) * s) = 2 * m * Kt * s + 2 * Kt * n * s
      BY <1>1, <2>1 DEF Positive
    <2>5. 2 * m * Kt * s + 2 * Kt * n * s <= L1Bytes
      BY <2>3, <2>4
    <2>. QED  BY <2>5 DEF Kt
  <1>6. /\ 2 * m * Kd(c) * s + 2 * Kd(c) * n * s <= L1Bytes
        /\ 2 * m * Kq(c) * s <= L0Bytes
        /\ 2 * Kq(c) * n * s <= L0Bytes
    <2>1. /\ Kq(c) \in Positive /\ Kd(c) \in Positive
          /\ Kq(c) * (2 * m * s) <= L0Bytes /\ Kq(c) * (2 * n * s) <= L0Bytes
          /\ Kd(c) * (2 * (m + n) * s) <= L1Bytes
      BY DeepDivides
    <2>. HIDE DEF g, m, n, s
    <2>2. /\ Kd(c) * (2 * (m + n) * s) = 2 * m * Kd(c) * s + 2 * Kd(c) * n * s
          /\ Kq(c) * (2 * m * s) = 2 * m * Kq(c) * s
          /\ Kq(c) * (2 * n * s) = 2 * Kq(c) * n * s
      BY <1>1, <2>1 DEF Positive
    <2>. QED  BY <2>1, <2>2
  <1>7. PIPELINE_TILES(c) => 2 * (m * n * 4) <= L0CBytes
    <2>1. PIPELINE_TILES(c) => 2 * m * n * 4 <= L0CBytes
      BY DEF PIPELINE_TILES
    <2>. HIDE DEF g, m, n
    <2>2. 2 * m * n * 4 = 2 * (m * n * 4)
      BY <1>1 DEF Positive
    <2>. QED  BY <2>1, <2>2
  <1>. QED  BY <1>2, <1>3, <1>4, <1>5, <1>6, <1>7 DEF StaticAsserts

(***************************************************************************)
(* The tiles fit the buffers that no static_assert guards, and the chunks  *)
(* and phases of a tile cover its contraction exactly.                     *)
(***************************************************************************)
THEOREM CapacitiesHold ==
    ASSUME NEW c, Generated(c), GranuleFits(c), NEW splitK \in BOOLEAN
    PROVE  Capacities(c, splitK)
  <1>. DEFINE g == Geom(c)
              s == c.ds
              m == g.Mt
              n == g.Nt
  <1>1. /\ m \in Positive /\ n \in Positive /\ s \in Positive
        /\ m <= c.tile_m /\ n <= c.tile_m /\ c.tile_m \in Positive
        /\ L0Bytes \in Positive /\ L1Bytes \in Positive
    BY TileSizes, GeometryAssumption DEF Generated, Positive
  <1>2. /\ g.Kt \in Positive /\ g.K % g.Kt = 0 /\ g.K \in Positive
        /\ g.Kt <= L0Bytes \div (m * s) /\ g.Kt <= L0Bytes \div (n * s)
    BY KernelTileK
  <1>3. m * g.Kt * s <= L0Bytes /\ g.Kt * n * s <= L0Bytes
    <2>. DEFINE Kt == g.Kt
    <2>1. Kt \in Positive /\ Kt <= L0Bytes \div (m * s) /\ Kt <= L0Bytes \div (n * s)
      BY <1>2
    <2>. HIDE DEF g, m, n, s, Kt
    <2>2. m * s \in Positive /\ n * s \in Positive
      BY <1>1 DEF Positive
    <2>3. Kt * (m * s) <= L0Bytes /\ Kt * (n * s) <= L0Bytes
      BY <1>1, <2>1, <2>2, FactorFits DEF Positive
    <2>4. Kt * (m * s) = m * Kt * s /\ Kt * (n * s) = Kt * n * s
      BY <1>1, <2>1 DEF Positive
    <2>5. m * Kt * s <= L0Bytes /\ Kt * n * s <= L0Bytes
      BY <2>3, <2>4
    <2>. QED  BY <2>5 DEF Kt
  <1>4. m * n * 4 <= L0CBytes
    <2>1. c.tile_m * c.tile_m * 4 <= L0CBytes
      BY DEF GranuleFits
    <2>. HIDE DEF g, m, n
    <2>2. m * n <= c.tile_m * n /\ c.tile_m * n <= c.tile_m * c.tile_m
      BY <1>1, Monotone DEF Positive
    <2>3. m * n \in Nat /\ c.tile_m * n \in Nat /\ c.tile_m * c.tile_m \in Nat
      BY <1>1 DEF Positive
    <2>4. L0CBytes \in Nat
      BY GeometryAssumption
    <2>. QED  BY <2>1, <2>2, <2>3, <2>4
  <1>5. (g.K \div Kd(c)) * (Kd(c) \div Kq(c)) * Kq(c) = g.K
    <2>1. /\ Kq(c) \in Positive /\ Kd(c) \in Positive
          /\ g.K % Kd(c) = 0 /\ Kd(c) % Kq(c) = 0
      BY DeepDivides
    <2>. DEFINE chunks == g.K \div Kd(c)
                phases == Kd(c) \div Kq(c)
    <2>2. g.K = chunks * Kd(c) + 0 /\ chunks \in Nat
      BY <1>2, <2>1, Division, Quotient DEF Positive
    <2>3. Kd(c) = phases * Kq(c) + 0 /\ phases \in Nat
      BY <2>1, Division, Quotient DEF Positive
    <2>. HIDE DEF chunks, phases
    <2>4. chunks * phases * Kq(c) = chunks * (phases * Kq(c)) /\ phases * Kq(c) \in Nat
      BY <2>1, <2>2, <2>3 DEF Positive
    <2>5. phases * Kq(c) = Kd(c) /\ chunks * Kd(c) = g.K
      BY <2>1, <2>2, <2>3 DEF Positive
    <2>6. chunks * phases * Kq(c) = g.K
      BY <2>4, <2>5
    <2>. QED  BY <2>6 DEF chunks, phases
  <1>6. g.nK * g.Kt = g.K
    <2>1. g.K = (g.K \div g.Kt) * g.Kt + 0 /\ g.K \div g.Kt \in Nat
      BY <1>2, Division, Quotient DEF Positive
    <2>2. g.nK = g.K \div g.Kt
      BY TileSizes
    <2>. HIDE DEF g
    <2>. QED  BY <1>2, <2>1, <2>2 DEF Positive
  <1>. QED  BY <1>3, <1>4, <1>5, <1>6 DEF Capacities
-----------------------------------------------------------------------------
(* Tiles *)

\* A tile lies within the padded matrices.
LEMMA TileBounds ==
    ASSUME NEW c, Generated(c), NEW t \in 0..(Geom(c).total_tiles - 1)
    PROVE  LET g == Geom(c)
               tile == Tile(g, t)
           IN  /\ tile.i \in 0..(g.I - 1)
               /\ tile.row0 \in Nat /\ tile.row0 + g.Mt <= g.Ma
               /\ tile.col0 \in Nat /\ tile.col0 + g.Nt <= g.Na
  <1>. DEFINE g == Geom(c)
              m == g.Mt
              n == g.Nt
              p == CeilDiv(PadUp(c.n_free0), m)
              q == CeilDiv(PadUp(c.n_free1), n)
              r == t % (p * q)
  <1>1. /\ m \in Positive /\ n \in Positive /\ g.Ma = p * m /\ g.Na = q * n
        /\ g.I = c.n_inplace
        /\ g.total_tiles = c.n_inplace * ((g.Ma \div m) * (g.Na \div n))
    BY TileSizes
  <1>2. /\ g.tiles_per_batch = (g.Ma \div m) * (g.Na \div n) /\ g.nN = g.Na \div n
    BY DEF Geom
  <1>3. PadUp(c.n_free0) \in Positive /\ PadUp(c.n_free1) \in Positive /\ c.n_inplace \in Positive
    BY Padded DEF Generated
  <1>4. p \in Positive /\ q \in Positive
    <2>1. ASSUME NEW a \in Positive, NEW b \in Positive PROVE CeilDiv(a, b) \in Positive
      <3>1. CeilDiv(a, b) \in Nat /\ CeilDiv(a, b) * b >= a
        BY RoundedUp DEF Positive
      <3>2. CeilDiv(a, b) # 0
        BY <3>1 DEF Positive
      <3>. QED  BY <3>1, <3>2 DEF Positive
    <2>. HIDE DEF m, n
    <2>. QED  BY <1>1, <1>3, <2>1
  <1>5. /\ Tile(g, t).i = t \div g.tiles_per_batch
        /\ Tile(g, t).row0 = ((t % g.tiles_per_batch) \div g.nN) * m
        /\ Tile(g, t).col0 = ((t % g.tiles_per_batch) % g.nN) * n
    BY DEF Tile
  <1>6. t \in 0..(g.total_tiles - 1)
    OBVIOUS
  <1>. HIDE DEF g, m, n, p, q
  <1>7. g.Ma \div m = p /\ g.Na \div n = q
    BY <1>1, <1>4, ExactDivision DEF Positive
  <1>8. g.tiles_per_batch = p * q /\ g.nN = q /\ g.total_tiles = c.n_inplace * (p * q)
    BY <1>1, <1>2, <1>7
  <1>9. p * q \in Positive
    BY <1>4 DEF Positive
  <1>10. t \in Nat /\ t < c.n_inplace * (p * q)
    <2>. DEFINE pq == p * q
    <2>1. t \in 0..(c.n_inplace * pq - 1) /\ pq \in Nat /\ c.n_inplace \in Nat
      BY <1>3, <1>6, <1>8, <1>9 DEF Positive
    <2>. HIDE DEF pq
    <2>2. t \in Nat /\ t < c.n_inplace * pq
      BY <2>1
    <2>. QED  BY <2>2 DEF pq
  <1>11. Tile(g, t).i \in 0..(g.I - 1)
    <2>. DEFINE pq == p * q
    <2>. HIDE DEF pq
    <2>1. t \div pq \in Nat /\ t \div pq < c.n_inplace
      BY <1>3, <1>9, <1>10, BelowQuotient, Quotient DEF Positive, pq
    <2>. QED  BY <1>1, <1>3, <1>5, <1>8, <2>1 DEF Positive, pq
  <1>12. r \in Nat /\ r < p * q
    <2>. DEFINE pq == p * q
    <2>. HIDE DEF pq
    <2>1. t % pq \in 0..(pq - 1)
      BY <1>9, <1>10, Quotient DEF pq
    <2>2. t % pq \in Nat /\ t % pq < pq
      BY <2>1, <1>9 DEF Positive, pq
    <2>. QED  BY <2>2 DEF pq
  <1>. HIDE DEF r
  <1>13. r \div q \in Nat /\ r \div q < p /\ r % q \in 0..(q - 1)
    BY <1>4, <1>12, BelowQuotient, Quotient DEF Positive
  <1>14. ASSUME NEW x \in Nat, NEW y \in Positive, x < y, NEW k \in Positive
         PROVE  x * k \in Nat /\ x * k + k <= y * k
    BY <1>14, SpansApart DEF Positive
  <1>15. /\ (r \div q) * m \in Nat /\ (r \div q) * m + m <= p * m
         /\ (r % q) * n \in Nat /\ (r % q) * n + n <= q * n
    <2>. DEFINE u == r \div q
                v == r % q
    <2>1. u \in Nat /\ u < p /\ v \in Nat /\ v < q
      BY <1>4, <1>13 DEF Positive
    <2>. HIDE DEF u, v
    <2>2. u * m \in Nat /\ u * m + m <= p * m /\ v * n \in Nat /\ v * n + n <= q * n
      BY <1>1, <1>4, <1>14, <2>1
    <2>. QED  BY <2>2 DEF u, v
  <1>. QED  BY <1>1, <1>5, <1>8, <1>11, <1>15 DEF g, m, n, r

-----------------------------------------------------------------------------
(* Parts of a sequence *)

\* The first k of a sequence of numbers, as a function.
LEMMA Beginning ==
    ASSUME NEW n \in Nat, NEW s \in [1..n -> Nat], NEW k \in 0..n
    PROVE  /\ SubSeq(s, 1, k) \in [1..k -> Nat]
           /\ SubSeq(s, 1, k) = [i \in 1..k |-> s[i]]
  <1>1. SubSeq(s, 1, k) = [i \in 1..(k - 1 + 1) |-> s[1 + i - 1]]
    OBVIOUS
  <1>2. k - 1 + 1 = k /\ \A i \in 1..k : 1 + i - 1 = i
    OBVIOUS
  <1>3. SubSeq(s, 1, k) = [i \in 1..k |-> s[i]]
    BY <1>1, <1>2
  <1>4. [i \in 1..k |-> s[i]] \in [1..k -> Nat]
    OBVIOUS
  <1>. QED  BY <1>3, <1>4

\* The k after the first m.
LEMMA Slice ==
    ASSUME NEW n \in Nat, NEW s \in [1..n -> Nat], NEW m \in 0..n, NEW k \in 0..(n - m)
    PROVE  /\ SubSeq(s, m + 1, m + k) \in [1..k -> Nat]
           /\ SubSeq(s, m + 1, m + k) = [i \in 1..k |-> s[m + i]]
  <1>1. SubSeq(s, m + 1, m + k) = [i \in 1..k |-> s[m + i]]
    OBVIOUS
  <1>2. [i \in 1..k |-> s[m + i]] \in [1..k -> Nat]
    OBVIOUS
  <1>. QED  BY <1>1, <1>2

-----------------------------------------------------------------------------
(* Products *)

\* The products of the first factors, one after the other.
LEMMA ProductUnfolds ==
    ASSUME NEW n \in Nat, NEW s \in [1..n -> Nat]
    PROVE  \E f \in [0..n -> Nat] : /\ f[0] = 1 /\ f[n] = Product(s)
                                    /\ \A i \in 1..n : f[i] = f[i - 1] * s[i]
  <1>. DEFINE step == [x \in (1..n) \X Nat |-> x[2] * s[x[1]]]
              def(f) == [i \in 0..Len(s) |-> IF i = 0 THEN 1 ELSE f[i - 1] * s[i]]
              upTo == CHOOSE f : f = def(f)
  <1>1. Len(s) = n
    OBVIOUS
  <1>2. step \in [(1..n) \X Nat -> Nat] /\ 1 \in Nat
    OBVIOUS
  <1>3. Recursive(n, Nat, 1, step)
    <2>. HIDE DEF step
    <2>. QED  BY <1>2, Recursion, Zenon
  <1>4. PICK f \in [0..n -> Nat] : Unfolds(f, n, 1, step)
    BY <1>3 DEF Recursive
  <1>5. ASSUME NEW i \in 1..n PROVE f[i] = f[i - 1] * s[i]
    <2>1. <<i, f[i - 1]>> \in (1..n) \X Nat
      OBVIOUS
    <2>. QED  BY <2>1, <1>4 DEF Unfolds
  <1>6. f = def(f)
    <2>1. f[0] = 1
      BY <1>4 DEF Unfolds
    <2>. HIDE DEF step
    <2>. QED  BY <2>1, <1>1, <1>5
  <1>7. upTo = def(upTo)
    <2>. HIDE DEF def
    <2>. QED  BY <1>6
  <1>8. Product(s) = upTo[n]
    BY <1>1 DEF Product
  <1>9. upTo \in [0..n -> Nat] /\ Unfolds(upTo, n, 1, step)
    <2>. HIDE DEF upTo
    <2>1. upTo = [i \in 0..n |-> upTo[i]] /\ upTo[0] = 1
      BY <1>7, <1>1
    <2>2. ASSUME NEW i \in 1..n, upTo[i - 1] \in Nat
          PROVE  upTo[i] = step[<<i, upTo[i - 1]>>]
      <3>1. i \in 0..n /\ i # 0
        OBVIOUS
      <3>2. <<i, upTo[i - 1]>> \in (1..n) \X Nat
        BY <2>2
      <3>3. upTo[i] = upTo[i - 1] * s[i]
        BY <1>7, <1>1, <3>1
      <3>. QED  BY <3>2, <3>3
    <2>. HIDE DEF step
    <2>. QED  BY <1>2, <2>1, <2>2, RecursionStays, Zenon
  <1>10. ASSUME NEW i \in 1..n PROVE upTo[i] = upTo[i - 1] * s[i]
    <2>. HIDE DEF upTo
    <2>1. <<i, upTo[i - 1]>> \in (1..n) \X Nat
      BY <1>9
    <2>. QED  BY <2>1, <1>9 DEF Unfolds
  <1>. HIDE DEF upTo, step
  <1>. QED  BY <1>8, <1>9, <1>10 DEF Unfolds
\* A product is the one without the last factor, times it.
LEMMA ProductStep ==
    ASSUME NEW n \in Positive, NEW s \in [1..n -> Nat]
    PROVE  Product(s) = Product(SubSeq(s, 1, n - 1)) * s[n]
  <1>. DEFINE t == SubSeq(s, 1, n - 1)
  <1>1. n \in Nat /\ n - 1 \in Nat /\ n - 1 \in 0..n /\ n \in 1..n
    BY DEF Positive
  <1>2. t \in [1..(n - 1) -> Nat] /\ t = [i \in 1..(n - 1) |-> s[i]]
    BY <1>1, Beginning
  <1>3. PICK f \in [0..n -> Nat] : /\ f[0] = 1 /\ f[n] = Product(s)
                                   /\ \A i \in 1..n : f[i] = f[i - 1] * s[i]
    BY <1>1, ProductUnfolds
  <1>. HIDE DEF t
  <1>4. PICK h \in [0..(n - 1) -> Nat] : /\ h[0] = 1 /\ h[n - 1] = Product(t)
                                         /\ \A i \in 1..(n - 1) : h[i] = h[i - 1] * t[i]
    BY <1>1, <1>2, ProductUnfolds
  <1>. DEFINE S == {k \in 0..(n - 1) : f[k] = h[k]}
  <1>5. 0 \in S
    BY <1>1, <1>3, <1>4
  <1>6. \A k \in 0..((n - 1) - 1) : k \in S => k + 1 \in S
    <2>. SUFFICES ASSUME NEW k \in 0..((n - 1) - 1), k \in S PROVE k + 1 \in S
      OBVIOUS
    <2>1. k + 1 \in 1..(n - 1) /\ k + 1 \in 1..n /\ (k + 1) - 1 = k
      BY <1>1
    <2>2. f[k + 1] = f[k] * s[k + 1] /\ h[k + 1] = h[k] * t[k + 1]
      BY <1>3, <1>4, <2>1
    <2>. QED  BY <2>1, <2>2, <1>2
  <1>7. n - 1 \in S
    <2>. HIDE DEF S
    <2>1. 0..(n - 1) \subseteq S
      BY <1>1, <1>5, <1>6, Induction
    <2>. QED  BY <2>1, <1>1
  <1>8. f[n] = f[n - 1] * s[n]
    BY <1>1, <1>3
  <1>. QED  BY <1>3, <1>4, <1>7, <1>8 DEF t

\* The product of no factors is one.
LEMMA ProductEmpty ==
    ASSUME NEW s \in [1..0 -> Nat]
    PROVE  Product(s) = 1
  <1>1. 0 \in Nat
    OBVIOUS
  <1>2. PICK f \in [0..0 -> Nat] : f[0] = 1 /\ f[0] = Product(s)
    BY <1>1, ProductUnfolds
  <1>. QED  BY <1>2

\* A product of natural numbers is one.
LEMMA ProductNat ==
    ASSUME NEW n \in Nat, NEW s \in [1..n -> Nat]
    PROVE  Product(s) \in Nat
  BY ProductUnfolds

\* A product of positive numbers is positive.
LEMMA ProductPositive ==
    ASSUME NEW n \in Nat, NEW s \in [1..n -> Positive]
    PROVE  Product(s) \in Positive
  <1>1. s \in [1..n -> Nat]
    BY DEF Positive
  <1>2. PICK f \in [0..n -> Nat] : /\ f[0] = 1 /\ f[n] = Product(s)
                                   /\ \A i \in 1..n : f[i] = f[i - 1] * s[i]
    BY <1>1, ProductUnfolds
  <1>. DEFINE S == {k \in 0..n : f[k] \in Positive}
  <1>3. 0 \in S
    BY <1>2 DEF Positive
  <1>4. ASSUME NEW k \in 0..(n - 1), k \in S PROVE k + 1 \in S
    <2>1. k + 1 \in 1..n /\ (k + 1) - 1 = k
      OBVIOUS
    <2>2. f[k + 1] = f[k] * s[k + 1]
      BY <1>2, <2>1
    <2>. QED  BY <1>4, <2>1, <2>2 DEF Positive
  <1>5. n \in S
    <2>. HIDE DEF S
    <2>1. 0..n \subseteq S
      BY <1>3, <1>4, Induction
    <2>. QED  BY <2>1
  <1>. QED  BY <1>2, <1>5

\* A product is that of the first m factors times that of the others.
LEMMA ProductSplit ==
    ASSUME NEW n \in Nat, NEW s \in [1..n -> Nat], NEW m \in 0..n
    PROVE  Product(s) = Product(SubSeq(s, 1, m)) * Product(SubSeq(s, m + 1, n))
  <1>. DEFINE a == Product(SubSeq(s, 1, m))
              P(k) == Product(SubSeq(s, 1, m + k)) = a * Product(SubSeq(s, m + 1, m + k))
              S == {k \in 0..(n - m) : P(k)}
  <1>1. a \in Nat
    <2>1. SubSeq(s, 1, m) \in [1..m -> Nat]
      BY Beginning
    <2>2. m \in Nat
      OBVIOUS
    <2>. QED  BY <2>1, <2>2, ProductNat
  <1>2. 0 \in S
    <2>1. m + 0 = m /\ 0 \in 0..(n - m)
      OBVIOUS
    <2>2. SubSeq(s, m + 1, m + 0) \in [1..0 -> Nat]
      BY <2>1, Slice
    <2>3. Product(SubSeq(s, m + 1, m + 0)) = 1
      BY <2>2, ProductEmpty
    <2>. QED  BY <2>1, <2>3, <1>1
  <1>3. \A k \in 0..(n - m - 1) : k \in S => k + 1 \in S
    <2>. SUFFICES ASSUME NEW k \in 0..(n - m - 1), k \in S PROVE k + 1 \in S
      OBVIOUS
    <2>. DEFINE u == SubSeq(s, 1, m + (k + 1))
                w == SubSeq(s, m + 1, m + (k + 1))
                b == Product(SubSeq(s, m + 1, m + k))
                x == s[m + (k + 1)]
    <2>1. /\ m + k \in 0..n /\ m + (k + 1) \in 0..n /\ m + (k + 1) \in 1..n
          /\ k \in 0..(n - m) /\ k + 1 \in 0..(n - m) /\ k \in Nat
          /\ m + (k + 1) \in Positive /\ k + 1 \in Positive /\ k + 1 \in 1..(k + 1)
          /\ (m + (k + 1)) - 1 = m + k /\ (k + 1) - 1 = k
      BY DEF Positive
    <2>2. u \in [1..(m + (k + 1)) -> Nat] /\ u = [i \in 1..(m + (k + 1)) |-> s[i]]
      BY <2>1, Beginning
    <2>3. w \in [1..(k + 1) -> Nat] /\ w = [i \in 1..(k + 1) |-> s[m + i]]
      <3>. DEFINE j == k + 1
      <3>1. j \in 0..(n - m)
        BY <2>1
      <3>. HIDE DEF j
      <3>2. /\ SubSeq(s, m + 1, m + j) \in [1..j -> Nat]
            /\ SubSeq(s, m + 1, m + j) = [i \in 1..j |-> s[m + i]]
        BY <3>1, Slice
      <3>. QED  BY <3>2 DEF j
    <2>4. SubSeq(u, 1, m + k) = SubSeq(s, 1, m + k)
      <3>1. SubSeq(s, 1, m + k) = [i \in 1..(m + k) |-> s[i]]
        BY <2>1, Beginning
      <3>2. m + (k + 1) \in Nat /\ m + k \in 0..(m + (k + 1))
        BY <2>1
      <3>. HIDE DEF u
      <3>3. SubSeq(u, 1, m + k) = [i \in 1..(m + k) |-> u[i]]
        BY <2>2, <3>2, Beginning
      <3>. QED  BY <3>1, <3>3, <2>2
    <2>5. SubSeq(w, 1, k) = SubSeq(s, m + 1, m + k)
      <3>1. SubSeq(s, m + 1, m + k) = [i \in 1..k |-> s[m + i]]
        BY <2>1, Slice
      <3>2. k + 1 \in Nat /\ k \in 0..(k + 1)
        BY <2>1
      <3>. HIDE DEF w
      <3>3. SubSeq(w, 1, k) = [i \in 1..k |-> w[i]]
        BY <2>3, <3>2, Beginning
      <3>. QED  BY <3>1, <3>3, <2>3
    <2>6. Product(u) = Product(SubSeq(s, 1, m + k)) * x
      <3>1. u[m + (k + 1)] = x
        BY <2>1, <2>2
      <3>. HIDE DEF u, x
      <3>2. Product(u) = Product(SubSeq(u, 1, (m + (k + 1)) - 1)) * u[m + (k + 1)]
        BY <2>1, <2>2, ProductStep
      <3>. QED  BY <2>1, <2>4, <3>1, <3>2
    <2>7. Product(w) = b * x
      <3>1. w[k + 1] = x
        BY <2>1, <2>3
      <3>. HIDE DEF w, x
      <3>2. Product(w) = Product(SubSeq(w, 1, (k + 1) - 1)) * w[k + 1]
        BY <2>1, <2>3, ProductStep
      <3>. QED  BY <2>1, <2>5, <3>1, <3>2
    <2>8. b \in Nat /\ x \in Nat
      <3>1. SubSeq(s, m + 1, m + k) \in [1..k -> Nat]
        BY <2>1, Slice
      <3>2. b \in Nat
        BY <2>1, <3>1, ProductNat
      <3>. QED  BY <3>2, <2>1
    <2>9. Product(SubSeq(s, 1, m + k)) = a * b
      OBVIOUS
    <2>10. Product(u) = a * Product(w)
      <3>. HIDE DEF a, b, x, u, w
      <3>. QED  BY <2>6, <2>7, <2>8, <2>9, <1>1
    <2>. QED  BY <2>1, <2>10
  <1>4. n - m \in S
    <2>1. n - m \in Nat /\ n - m \in 0..(n - m)
      OBVIOUS
    <2>. HIDE DEF S
    <2>2. 0..(n - m) \subseteq S
      BY <1>2, <1>3, <2>1, Induction
    <2>. QED  BY <2>1, <2>2
  <1>5. m + (n - m) = n
    OBVIOUS
  <1>6. SubSeq(s, 1, n) = s
    <2>1. n \in 0..n
      OBVIOUS
    <2>2. SubSeq(s, 1, n) = [i \in 1..n |-> s[i]]
      BY <2>1, Beginning
    <2>. QED  BY <2>2
  <1>. QED  BY <1>4, <1>5, <1>6
-----------------------------------------------------------------------------
(* Mixed-radix digits *)

\* The loop of transfer_idx, from the innermost axis outwards: the offset so
\* far, and what is left of the index.
DigitStep(dims, strides, n, i, r) ==
    <<r[1] + (r[2] % dims[n + 1 - i]) * strides[n + 1 - i], r[2] \div dims[n + 1 - i]>>

\* A step stays within the numbers.
LEMMA DigitStepType ==
    ASSUME NEW n \in Nat, NEW dims \in [1..n -> Positive], NEW strides \in [1..n -> Nat],
           NEW i \in 1..n, NEW r \in Nat \X Nat
    PROVE  DigitStep(dims, strides, n, i, r) \in Nat \X Nat
  <1>. DEFINE d == dims[n + 1 - i]
              s == strides[n + 1 - i]
  <1>1. d \in Positive /\ s \in Nat
    OBVIOUS
  <1>2. r[2] \div d \in Nat /\ r[2] % d \in Nat
    BY <1>1, Quotient
  <1>3. r[1] + (r[2] % d) * s \in Nat
    <2>. DEFINE x == r[2] % d
    <2>1. r[1] \in Nat /\ x \in Nat
      BY <1>2
    <2>. HIDE DEF d, s, x
    <2>2. x * s \in Nat
      BY <2>1, <1>1
    <2>3. r[1] + x * s \in Nat
      BY <2>1, <2>2
    <2>. QED  BY <2>3 DEF x
  <1>. QED  BY <1>2, <1>3 DEF DigitStep

\* f follows the loop from its first axis to its last.
Digits(f, n, dims, strides, j) ==
    /\ f[0] = <<0, j>> /\ f[n][1] = Decode(j, dims, strides)
    /\ \A i \in 1..n : f[i] = DigitStep(dims, strides, n, i, f[i - 1])

\* What Decode computes, axis by axis.
LEMMA DecodeUnfolds ==
    ASSUME NEW n \in Nat, NEW dims \in [1..n -> Positive], NEW strides \in [1..n -> Nat],
           NEW j \in Nat
    PROVE  \E f \in [0..n -> Nat \X Nat] : Digits(f, n, dims, strides, j)
  <1>. DEFINE V == Nat \X Nat
              step == [x \in (1..n) \X V |-> DigitStep(dims, strides, n, x[1], x[2])]
              def(f) == [i \in 0..Len(dims) |->
                            IF i = 0 THEN <<0, j>>
                            ELSE LET a == Len(dims) + 1 - i
                                     r == f[i - 1]
                                 IN  <<r[1] + (r[2] % dims[a]) * strides[a], r[2] \div dims[a]>>]
              inner == CHOOSE f : f = def(f)
  <1>1. Len(dims) = n
    OBVIOUS
  <1>2. step \in [(1..n) \X V -> V] /\ <<0, j>> \in V
    BY DigitStepType
  <1>3. Recursive(n, V, <<0, j>>, step)
    <2>. HIDE DEF step, V
    <2>. QED  BY <1>2, Recursion, Zenon
  <1>4. PICK f \in [0..n -> V] : Unfolds(f, n, <<0, j>>, step)
    BY <1>3 DEF Recursive
  <1>5. ASSUME NEW i \in 1..n PROVE f[i] = DigitStep(dims, strides, n, i, f[i - 1])
    <2>1. <<i, f[i - 1]>> \in (1..n) \X V
      <3>. HIDE DEF V
      <3>. QED  OBVIOUS
    <2>. QED  BY <2>1, <1>4 DEF Unfolds
  <1>6. f = def(f)
    <2>1. f[0] = <<0, j>>
      BY <1>4 DEF Unfolds
    <2>. HIDE DEF step
    <2>. QED  BY <2>1, <1>1, <1>5 DEF DigitStep
  <1>7. inner = def(inner)
    <2>. HIDE DEF def
    <2>. QED  BY <1>6
  <1>8. Decode(j, dims, strides) = inner[n][1]
    BY <1>1 DEF Decode
  <1>9. inner \in [0..n -> V] /\ Unfolds(inner, n, <<0, j>>, step)
    <2>. HIDE DEF inner
    <2>1. inner = [i \in 0..n |-> inner[i]] /\ inner[0] = <<0, j>>
      BY <1>7, <1>1
    <2>2. ASSUME NEW i \in 1..n, inner[i - 1] \in V
          PROVE  inner[i] = step[<<i, inner[i - 1]>>]
      <3>1. i \in 0..n /\ i # 0
        OBVIOUS
      <3>2. <<i, inner[i - 1]>> \in (1..n) \X V
        <4>. HIDE DEF V
        <4>. QED  BY <2>2
      <3>3. inner[i] = DigitStep(dims, strides, n, i, inner[i - 1])
        BY <1>7, <1>1, <3>1 DEF DigitStep
      <3>. QED  BY <3>2, <3>3
    <2>. HIDE DEF step, V
    <2>. QED  BY <1>2, <2>1, <2>2, RecursionStays, Zenon
  <1>10. ASSUME NEW i \in 1..n PROVE inner[i] = DigitStep(dims, strides, n, i, inner[i - 1])
    <2>. HIDE DEF inner
    <2>1. <<i, inner[i - 1]>> \in (1..n) \X V
      <3>. HIDE DEF V
      <3>. QED  BY <1>9
    <2>. QED  BY <2>1, <1>9 DEF Unfolds
  <1>. HIDE DEF inner, step
  <1>11. inner[0] = <<0, j>>
    BY <1>9 DEF Unfolds
  <1>. QED  BY <1>8, <1>9, <1>10, <1>11 DEF Digits
\* The innermost digit, and the offset of the others.
LEMMA DecodeStep ==
    ASSUME NEW n \in Positive, NEW dims \in [1..n -> Positive], NEW strides \in [1..n -> Nat],
           NEW j \in Nat
    PROVE  Decode(j, dims, strides)
               = (j % dims[n]) * strides[n]
                 + Decode(j \div dims[n], SubSeq(dims, 1, n - 1), SubSeq(strides, 1, n - 1))
  <1>. DEFINE m == n - 1
              ds == SubSeq(dims, 1, m)
              ss == SubSeq(strides, 1, m)
              q == j \div dims[n]
              x == (j % dims[n]) * strides[n]
  <1>1. n \in Nat /\ m \in Nat /\ m \in 0..n /\ n \in 1..n /\ 1 \in 1..n /\ m + 1 = n
    BY DEF Positive
  <1>2. ds \in [1..m -> Positive] /\ ds = [i \in 1..m |-> dims[i]]
    <2>1. dims \in [1..n -> Nat]
      BY DEF Positive
    <2>2. ds = [i \in 1..m |-> dims[i]]
      BY <1>1, <2>1, Beginning
    <2>. HIDE DEF ds
    <2>. QED  BY <2>2, <1>1
  <1>3. ss \in [1..m -> Nat] /\ ss = [i \in 1..m |-> strides[i]]
    BY <1>1, Beginning
  <1>4. q \in Nat /\ x \in Nat
    <2>. DEFINE d == dims[n]
    <2>1. d \in Positive /\ strides[n] \in Nat
      BY <1>1
    <2>. HIDE DEF d
    <2>2. j \div d \in Nat /\ j % d \in 0..(d - 1)
      BY <2>1, Quotient
    <2>. QED  BY <2>1, <2>2 DEF d, Positive
  <1>5. PICK f \in [0..n -> Nat \X Nat] : Digits(f, n, dims, strides, j)
    BY <1>1, DecodeUnfolds
  <1>. HIDE DEF ds, ss, q
  <1>6. PICK h \in [0..m -> Nat \X Nat] : Digits(h, m, ds, ss, q)
    <2>. HIDE DEF m
    <2>. QED  BY <1>1, <1>2, <1>3, <1>4, DecodeUnfolds
  <1>. DEFINE S == {k \in 0..m : f[k + 1] = <<x + h[k][1], h[k][2]>>}
  <1>7. 0 \in S
    <2>1. f[1] = DigitStep(dims, strides, n, 1, f[0])
      <3>1. 1 \in 1..n /\ 1 - 1 = 0
        BY <1>1
      <3>. QED  BY <3>1, <1>5 DEF Digits
    <2>2. f[1] = <<x, q>>
      <3>1. n + 1 - 1 = n
        BY <1>1
      <3>. HIDE DEF x
      <3>. QED  BY <2>1, <3>1, <1>4, <1>5 DEF DigitStep, Digits, q, x
    <2>. HIDE DEF x, m
    <2>. QED  BY <2>2, <1>1, <1>4, <1>6 DEF Digits
  <1>8. \A k \in 0..(m - 1) : k \in S => k + 1 \in S
    <2>. SUFFICES ASSUME NEW k \in 0..(m - 1), k \in S PROVE k + 1 \in S
      OBVIOUS
    <2>. DEFINE a == m - k
                d == dims[a]
                s == strides[a]
                u == h[k][1]
                v == h[k][2]
                w == (v % d) * s
    <2>1. /\ k + 1 \in 1..m /\ (k + 1) + 1 \in 1..n /\ k \in 0..m /\ k + 1 \in 0..m /\ a \in 1..m
          /\ (k + 1) - 1 = k /\ ((k + 1) + 1) - 1 = k + 1
          /\ m + 1 - (k + 1) = a /\ n + 1 - ((k + 1) + 1) = a
      BY <1>1
    <2>2. u \in Nat /\ v \in Nat
      BY <2>1
    <2>3. d \in Positive /\ s \in Nat /\ ds[a] = d /\ ss[a] = s
      BY <2>1, <1>1, <1>2, <1>3
    <2>4. v % d \in Nat /\ w \in Nat
      <3>. HIDE DEF d, s, v
      <3>1. v % d \in Nat
        BY <2>2, <2>3, Quotient DEF Positive
      <3>. QED  BY <3>1, <2>3
    <2>. HIDE DEF m, a
    <2>5. h[k + 1] = <<u + w, v \div d>>
      <3>1. h[k + 1] = DigitStep(ds, ss, m, k + 1, h[k])
        BY <1>6, <2>1 DEF Digits
      <3>. QED  BY <3>1, <2>1, <2>3 DEF DigitStep
    <2>6. f[k + 1] = <<x + u, v>>
      OBVIOUS
    <2>7. f[(k + 1) + 1] = <<(x + u) + w, v \div d>>
      <3>1. f[(k + 1) + 1] = DigitStep(dims, strides, n, (k + 1) + 1, f[k + 1])
        BY <1>5, <2>1 DEF Digits
      <3>. QED  BY <3>1, <2>1, <2>6 DEF DigitStep
    <2>8. (x + u) + w = x + (u + w)
      <3>. HIDE DEF x, u, w
      <3>. QED  BY <1>4, <2>2, <2>4
    <2>. HIDE DEF x, u, v, w, d
    <2>9. f[(k + 1) + 1] = <<x + h[k + 1][1], h[k + 1][2]>>
      BY <2>5, <2>7, <2>8
    <2>. QED  BY <2>1, <2>9
  <1>9. m \in S
    <2>1. m \in 0..m
      BY <1>1
    <2>. HIDE DEF S, m
    <2>2. 0..m \subseteq S
      BY <1>1, <1>7, <1>8, Induction
    <2>. QED  BY <2>1, <2>2
  <1>10. f[n] = <<x + h[m][1], h[m][2]>>
    BY <1>1, <1>9
  <1>11. f[n][1] = x + h[m][1]
    <2>. HIDE DEF x, m
    <2>. QED  BY <1>10
  <1>. QED  BY <1>5, <1>6, <1>11 DEF Digits, ds, ss, q

\* Without axes there is no offset.
LEMMA DecodeEmpty ==
    ASSUME NEW dims \in [1..0 -> Positive], NEW strides \in [1..0 -> Nat], NEW j \in Nat
    PROVE  Decode(j, dims, strides) = 0
  <1>1. 0 \in Nat
    OBVIOUS
  <1>2. PICK f \in [0..0 -> Nat \X Nat] : Digits(f, 0, dims, strides, j)
    BY <1>1, DecodeUnfolds
  <1>. QED  BY <1>2 DEF Digits

\* An offset is a natural number.
LEMMA DecodeNat ==
    ASSUME NEW n \in Nat, NEW dims \in [1..n -> Positive], NEW strides \in [1..n -> Nat],
           NEW j \in Nat
    PROVE  Decode(j, dims, strides) \in Nat
  <1>1. PICK f \in [0..n -> Nat \X Nat] : Digits(f, n, dims, strides, j)
    BY DecodeUnfolds
  <1>2. f[n] \in Nat \X Nat
    OBVIOUS
  <1>. QED  BY <1>1, <1>2 DEF Digits
-----------------------------------------------------------------------------
(* Sums *)

\* f are the sums of the first terms, one after the other.
Sums(f, terms, n) ==
    /\ f[0] = 0 /\ f[n] = Total(terms, n)
    /\ \A i \in 1..n : f[i] = f[i - 1] + terms[i]

\* What Total computes, term by term.
LEMMA TotalUnfolds ==
    ASSUME NEW n \in Nat, NEW terms \in [1..n -> Int]
    PROVE  \E f \in [0..n -> Int] : Sums(f, terms, n)
  <1>. DEFINE step == [x \in (1..n) \X Int |-> x[2] + terms[x[1]]]
              def(f) == [k \in 0..n |-> IF k = 0 THEN 0 ELSE f[k - 1] + terms[k]]
              upTo == CHOOSE f : f = def(f)
  <1>1. step \in [(1..n) \X Int -> Int] /\ 0 \in Int
    OBVIOUS
  <1>2. Recursive(n, Int, 0, step)
    <2>. HIDE DEF step
    <2>. QED  BY <1>1, Recursion, Zenon
  <1>3. PICK f \in [0..n -> Int] : Unfolds(f, n, 0, step)
    BY <1>2 DEF Recursive
  <1>4. f = def(f)
    <2>1. ASSUME NEW i \in 1..n PROVE f[i] = f[i - 1] + terms[i]
      <3>1. <<i, f[i - 1]>> \in (1..n) \X Int
        OBVIOUS
      <3>. QED  BY <3>1, <1>3 DEF Unfolds
    <2>2. f[0] = 0
      BY <1>3 DEF Unfolds
    <2>. HIDE DEF step
    <2>. QED  BY <2>1, <2>2
  <1>5. upTo = def(upTo)
    <2>. HIDE DEF def
    <2>. QED  BY <1>4
  <1>6. Total(terms, n) = upTo[n]
    BY DEF Total
  <1>7. upTo \in [0..n -> Int] /\ Unfolds(upTo, n, 0, step)
    <2>. HIDE DEF upTo
    <2>1. upTo = [i \in 0..n |-> upTo[i]] /\ upTo[0] = 0
      BY <1>5
    <2>2. ASSUME NEW i \in 1..n, upTo[i - 1] \in Int
          PROVE  upTo[i] = step[<<i, upTo[i - 1]>>]
      <3>1. i \in 0..n /\ i # 0
        OBVIOUS
      <3>2. <<i, upTo[i - 1]>> \in (1..n) \X Int
        BY <2>2
      <3>3. upTo[i] = upTo[i - 1] + terms[i]
        BY <1>5, <3>1
      <3>. QED  BY <3>2, <3>3
    <2>. HIDE DEF step
    <2>. QED  BY <1>1, <2>1, <2>2, RecursionStays, Zenon
  <1>8. ASSUME NEW i \in 1..n PROVE upTo[i] = upTo[i - 1] + terms[i]
    <2>. HIDE DEF upTo
    <2>1. <<i, upTo[i - 1]>> \in (1..n) \X Int
      BY <1>7
    <2>. QED  BY <2>1, <1>7 DEF Unfolds
  <1>. HIDE DEF upTo, step
  <1>9. upTo[0] = 0
    BY <1>7 DEF Unfolds
  <1>. QED  BY <1>6, <1>7, <1>8, <1>9 DEF Sums

\* The sum of sums is the sum of the sums.
LEMMA TotalPlus ==
    ASSUME NEW n \in Nat, NEW a \in [1..n -> Int], NEW b \in [1..n -> Int],
           NEW c \in [1..n -> Int], \A k \in 1..n : c[k] = a[k] + b[k]
    PROVE  Total(c, n) = Total(a, n) + Total(b, n)
  <1>1. PICK f \in [0..n -> Int] : Sums(f, a, n)
    BY TotalUnfolds
  <1>2. PICK g \in [0..n -> Int] : Sums(g, b, n)
    BY TotalUnfolds
  <1>3. PICK h \in [0..n -> Int] : Sums(h, c, n)
    BY TotalUnfolds
  <1>. DEFINE S == {k \in 0..n : h[k] = f[k] + g[k]}
  <1>4. 0 \in S
    BY <1>1, <1>2, <1>3 DEF Sums
  <1>5. \A k \in 0..(n - 1) : k \in S => k + 1 \in S
    <2>. SUFFICES ASSUME NEW k \in 0..(n - 1), k \in S PROVE k + 1 \in S
      OBVIOUS
    <2>1. k + 1 \in 1..n /\ (k + 1) - 1 = k /\ k \in 0..n /\ k + 1 \in 0..n
      OBVIOUS
    <2>2. /\ f[k + 1] = f[k] + a[k + 1] /\ g[k + 1] = g[k] + b[k + 1]
          /\ h[k + 1] = h[k] + c[k + 1]
      BY <1>1, <1>2, <1>3, <2>1 DEF Sums
    <2>. QED  BY <2>1, <2>2
  <1>6. n \in S
    <2>1. n \in 0..n
      OBVIOUS
    <2>. HIDE DEF S
    <2>2. 0..n \subseteq S
      BY <1>4, <1>5, Induction
    <2>. QED  BY <2>1, <2>2
  <1>. QED  BY <1>1, <1>2, <1>3, <1>6 DEF Sums
-----------------------------------------------------------------------------
(* The odometer *)

\* One more: the digit wraps around and the quotient grows, or the digit grows.
LEMMA CountUp ==
    ASSUME NEW a \in Nat, NEW d \in Positive
    PROVE  IF (a % d) + 1 = d THEN (a + 1) \div d = a \div d + 1 /\ (a + 1) % d = 0
                            ELSE (a + 1) \div d = a \div d /\ (a + 1) % d = (a % d) + 1
  <1>. DEFINE q == a \div d
              r == a % d
  <1>1. q \in Nat /\ r \in 0..(d - 1) /\ a = q * d + r
    BY Quotient, Division
  <1>2. d \in Nat /\ d - 1 \in Nat /\ a + 1 \in Nat
    BY DEF Positive
  <1>. HIDE DEF q, r
  <1>3. CASE r + 1 = d
    <2>1. (q + 1) * d = q * d + d
      BY <1>1, <1>2
    <2>2. q * d \in Nat
      BY <1>1, <1>2
    <2>3. a + 1 = (q + 1) * d + 0 /\ q + 1 \in Nat /\ 0 \in 0..(d - 1)
      BY <1>1, <1>2, <1>3, <2>1, <2>2
    <2>4. (a + 1) \div d = q + 1 /\ (a + 1) % d = 0
      BY <1>2, <2>3, DivisionUnique
    <2>. QED  BY <1>3, <2>4 DEF q, r
  <1>4. CASE r + 1 # d
    <2>1. q * d \in Nat
      BY <1>1, <1>2
    <2>2. a + 1 = q * d + (r + 1) /\ r + 1 \in 0..(d - 1)
      BY <1>1, <1>2, <1>4, <2>1
    <2>3. (a + 1) \div d = q /\ (a + 1) % d = r + 1
      BY <1>1, <1>2, <2>2, DivisionUnique
    <2>. QED  BY <1>4, <2>3 DEF q, r
  <1>. QED  BY <1>3, <1>4

\* The leading n axes of a transpose can be stepped through.
Steppable(t, n) == /\ t.to_shape \in [1..Len(t.to_shape) -> Positive]
                   /\ t.perm_strides \in [1..Len(t.to_shape) -> Nat]
                   /\ Len(t.to_shape) \in Nat
                   /\ n \in 0..Len(t.to_shape)

\* Each of them has a size and a stride.
LEMMA AxisOf ==
    ASSUME NEW t, NEW n \in Nat, Steppable(t, n), NEW k \in 1..n
    PROVE  t.to_shape[k] \in Positive /\ t.perm_strides[k] \in Nat
  <1>1. k \in 1..Len(t.to_shape)
    BY DEF Steppable
  <1>. QED  BY <1>1 DEF Steppable

\* left[k] counts the positions of the first k axes up to run g.
Counts(left, t, n, g) ==
    /\ left[n] = g
    /\ \A k \in 1..n : left[k - 1] = left[k] \div t.to_shape[k]
    /\ OdoInit(t, n, g) =
           [digit |-> [k \in 1..n |-> left[k] % t.to_shape[k]],
            base |-> Total([k \in 1..n |-> (left[k] % t.to_shape[k]) * t.perm_strides[k]], n)]

\* What PermOdometer::init computes, axis by axis.
LEMMA OdoUnfolds ==
    ASSUME NEW t, NEW n \in Nat, Steppable(t, n), NEW g \in Nat
    PROVE  \E left \in [0..n -> Nat] : Counts(left, t, n, g)
  <1>. DEFINE d(k) == t.to_shape[k]
              step == [x \in (1..n) \X Nat |-> x[2] \div d(n + 1 - x[1])]
              def(f) == [k \in 0..n |-> IF k = n THEN g ELSE f[k + 1] \div t.to_shape[k + 1]]
              left == CHOOSE f : f = def(f)
  <1>1. \A k \in 1..n : d(k) \in Positive
    BY DEF Steppable
  <1>2. step \in [(1..n) \X Nat -> Nat]
    <2>1. ASSUME NEW x \in (1..n) \X Nat PROVE x[2] \div d(n + 1 - x[1]) \in Nat
      <3>1. n + 1 - x[1] \in 1..n /\ x[2] \in Nat
        OBVIOUS
      <3>2. d(n + 1 - x[1]) \in Positive
        BY <1>1, <3>1
      <3>. HIDE DEF d
      <3>. QED  BY <3>1, <3>2, Quotient
    <2>. QED  BY <2>1
  <1>3. Recursive(n, Nat, g, step)
    <2>. HIDE DEF step
    <2>. QED  BY <1>2, Recursion, Zenon
  <1>4. PICK h \in [0..n -> Nat] : Unfolds(h, n, g, step)
    BY <1>3 DEF Recursive
  <1>5. h[0] = g /\ \A i \in 1..n : h[i] = h[i - 1] \div t.to_shape[n + 1 - i]
    <2>1. ASSUME NEW i \in 1..n PROVE h[i] = h[i - 1] \div t.to_shape[n + 1 - i]
      <3>1. <<i, h[i - 1]>> \in (1..n) \X Nat
        OBVIOUS
      <3>. QED  BY <3>1, <1>4 DEF Unfolds
    <2>2. h[0] = g
      BY <1>4 DEF Unfolds
    <2>. QED  BY <2>1, <2>2
  <1>. HIDE DEF step
  <1>6. [k \in 0..n |-> h[n - k]] = def([k \in 0..n |-> h[n - k]])
    <2>. DEFINE f == [k \in 0..n |-> h[n - k]]
    <2>1. ASSUME NEW k \in 0..n
          PROVE  h[n - k] = IF k = n THEN g ELSE f[k + 1] \div t.to_shape[k + 1]
      <3>1. CASE k = n
        BY <3>1, <1>5
      <3>2. CASE k # n
        <4>1. n - k \in 1..n /\ (n - k) - 1 = n - (k + 1) /\ n + 1 - (n - k) = k + 1
              /\ k + 1 \in 0..n
          BY <3>2
        <4>2. h[n - k] = h[(n - k) - 1] \div t.to_shape[n + 1 - (n - k)]
          BY <4>1, <1>5
        <4>3. f[k + 1] = h[n - (k + 1)]
          BY <4>1
        <4>. HIDE DEF f
        <4>. QED  BY <4>1, <4>2, <4>3, <3>2
      <3>. QED  BY <3>1, <3>2
    <2>. QED  BY <2>1
  <1>7. left = def(left)
    <2>. HIDE DEF def
    <2>. QED  BY <1>6
  <1>8. OdoInit(t, n, g) =
           [digit |-> [k \in 1..n |-> left[k] % t.to_shape[k]],
            base |-> Total([k \in 1..n |-> (left[k] % t.to_shape[k]) * t.perm_strides[k]], n)]
    <2>1. ASSUME NEW digit, digit = [k \in 1..n |-> left[k] % t.to_shape[k]]
          PROVE  [k \in 1..n |-> digit[k] * t.perm_strides[k]]
                     = [k \in 1..n |-> (left[k] % t.to_shape[k]) * t.perm_strides[k]]
      <3>. HIDE DEF left
      <3>. QED  BY <2>1
    <2>. QED  BY <2>1 DEF OdoInit
  <1>. HIDE DEF left
  <1>9. /\ left = [k \in 0..n |-> left[k]] /\ left[n] = g
        /\ \A k \in 1..n : left[k - 1] = left[k] \div t.to_shape[k]
    <2>1. left[n] = g /\ left = [k \in 0..n |-> left[k]]
      BY <1>7
    <2>2. ASSUME NEW k \in 1..n PROVE left[k - 1] = left[k] \div t.to_shape[k]
      <3>1. k - 1 \in 0..n /\ k - 1 # n /\ (k - 1) + 1 = k
        OBVIOUS
      <3>2. left[k - 1] = left[(k - 1) + 1] \div t.to_shape[(k - 1) + 1]
        BY <1>7, <3>1
      <3>. QED  BY <3>1, <3>2
    <2>. QED  BY <2>1, <2>2
  <1>10. left \in [0..n -> Nat]
    <2>. DEFINE S == {i \in 0..n : left[n - i] \in Nat}
    <2>1. 0 \in S
      BY <1>9
    <2>2. \A i \in 0..(n - 1) : i \in S => i + 1 \in S
      <3>. SUFFICES ASSUME NEW i \in 0..(n - 1), i \in S PROVE i + 1 \in S
        OBVIOUS
      <3>1. n - i \in 1..n /\ (n - i) - 1 = n - (i + 1) /\ i + 1 \in 0..n /\ left[n - i] \in Nat
        OBVIOUS
      <3>. DEFINE a == left[n - i]
                  b == d(n - i)
      <3>2. left[n - (i + 1)] = a \div b
        BY <3>1, <1>9
      <3>3. a \in Nat /\ b \in Positive
        BY <3>1, <1>1
      <3>4. a \div b \in Nat
        <4>. HIDE DEF a, b
        <4>. QED  BY <3>3, Quotient
      <3>. QED  BY <3>1, <3>2, <3>4
    <2>3. 0..n \subseteq S
      <3>. HIDE DEF S
      <3>. QED  BY <2>1, <2>2, Induction
    <2>4. ASSUME NEW k \in 0..n PROVE left[k] \in Nat
      <3>1. n - k \in 0..n /\ n - (n - k) = k
        OBVIOUS
      <3>. QED  BY <3>1, <2>3
    <2>. QED  BY <2>4, <1>9
  <1>. QED  BY <1>8, <1>9, <1>10 DEF Counts
\* A run later, axis k has moved if every axis behind it wrapped around.
Behind(left, t, n, k) == \A j \in (k + 1)..n : (left[j] % t.to_shape[j]) + 1 = t.to_shape[j]

\* The counts of the next run.
LEMMA CountsNext ==
    ASSUME NEW t, NEW n \in Nat, Steppable(t, n), NEW g \in Nat,
           NEW old \in [0..n -> Nat], Counts(old, t, n, g),
           NEW new \in [0..n -> Nat], Counts(new, t, n, g + 1)
    PROVE  \A k \in 0..n : new[k] = IF Behind(old, t, n, k) THEN old[k] + 1 ELSE old[k]
  <1>. DEFINE Next(k) == IF Behind(old, t, n, k) THEN old[k] + 1 ELSE old[k]
              S == {i \in 0..n : new[n - i] = Next(n - i)}
  <1>1. 0 \in S
    <2>1. Behind(old, t, n, n)
      BY DEF Behind
    <2>2. new[n] = g + 1 /\ old[n] = g
      BY DEF Counts
    <2>. QED  BY <2>1, <2>2
  <1>2. \A i \in 0..(n - 1) : i \in S => i + 1 \in S
    <2>. SUFFICES ASSUME NEW i \in 0..(n - 1), i \in S PROVE i + 1 \in S
      OBVIOUS
    <2>. DEFINE k == n - i
                d == t.to_shape[k]
                a == old[k]
    <2>1. /\ k \in 1..n /\ k - 1 = n - (i + 1) /\ i + 1 \in 0..n /\ k - 1 \in 0..n /\ k \in 0..n
          /\ new[k] = Next(k)
      OBVIOUS
    <2>2. d \in Positive /\ a \in Nat
      BY <2>1, AxisOf
    <2>3. new[k - 1] = new[k] \div d /\ old[k - 1] = a \div d
      BY <2>1 DEF Counts
    <2>4. Behind(old, t, n, k - 1) <=> Behind(old, t, n, k) /\ (a % d) + 1 = d
      <3>1. ((k - 1) + 1)..n = {k} \cup ((k + 1)..n)
        BY <2>1
      <3>. HIDE DEF k
      <3>. QED  BY <3>1 DEF Behind
    <2>5. new[k - 1] = Next(k - 1)
      <3>1. CASE Behind(old, t, n, k) /\ (a % d) + 1 = d
        <4>1. (a + 1) \div d = a \div d + 1
          <5>. HIDE DEF a, d
          <5>. QED  BY <3>1, <2>2, CountUp
        <4>. HIDE DEF k
        <4>. QED  BY <4>1, <3>1, <2>1, <2>3, <2>4
      <3>2. CASE Behind(old, t, n, k) /\ (a % d) + 1 # d
        <4>1. (a + 1) \div d = a \div d
          <5>. HIDE DEF a, d
          <5>. QED  BY <3>2, <2>2, CountUp
        <4>. HIDE DEF k
        <4>. QED  BY <4>1, <3>2, <2>1, <2>3, <2>4
      <3>3. CASE ~ Behind(old, t, n, k)
        <4>. HIDE DEF k
        <4>. QED  BY <3>3, <2>1, <2>3, <2>4
      <3>. HIDE DEF k, a, d, Next
      <3>. QED  BY <3>1, <3>2, <3>3
    <2>. HIDE DEF Next
    <2>. QED  BY <2>1, <2>5
  <1>3. 0..n \subseteq S
    <2>. HIDE DEF S
    <2>. QED  BY <1>1, <1>2, Induction
  <1>4. ASSUME NEW k \in 0..n PROVE new[k] = Next(k)
    <2>1. n - k \in 0..n /\ n - (n - k) = k
      OBVIOUS
    <2>. HIDE DEF Next
    <2>. QED  BY <2>1, <1>3
  <1>. QED  BY <1>4

(***************************************************************************)
(* PermOdometer::advance: the carry leaves the odometer where init would   *)
(* have put it for the next run, for any number of axes, sizes and         *)
(* strides, the last run (where all axes wrap around) included.            *)
(***************************************************************************)
THEOREM OdometerSteps ==
    ASSUME NEW t, NEW n \in Nat, Steppable(t, n), NEW g \in Nat
    PROVE  OdoAdvance(t, n, OdoInit(t, n, g)) = OdoInit(t, n, g + 1)
  <1>1. PICK old \in [0..n -> Nat] : Counts(old, t, n, g)
    BY OdoUnfolds
  <1>2. PICK new \in [0..n -> Nat] : Counts(new, t, n, g + 1)
    <2>1. g + 1 \in Nat
      OBVIOUS
    <2>. QED  BY <2>1, OdoUnfolds
  <1>. DEFINE d(k) == t.to_shape[k]
              s(k) == t.perm_strides[k]
              odo == OdoInit(t, n, g)
              wraps(k) == odo.digit[k] + 1 = t.to_shape[k]
              moves == {k \in 1..n : \A j \in (k + 1)..n : wraps(j)}
              gain(k) == IF k \notin moves THEN 0
                         ELSE t.perm_strides[k]
                              - (IF wraps(k) THEN t.to_shape[k] * t.perm_strides[k] ELSE 0)
              a == [k \in 1..n |-> (old[k] % t.to_shape[k]) * t.perm_strides[k]]
              b == [k \in 1..n |-> gain(k)]
              c == [k \in 1..n |-> (new[k] % t.to_shape[k]) * t.perm_strides[k]]
  <1>3. \A k \in 1..n : d(k) \in Positive /\ s(k) \in Nat /\ k \in 0..n
    BY AxisOf
  <1>4. odo.digit = [k \in 1..n |-> old[k] % t.to_shape[k]] /\ odo.base = Total(a, n)
    BY <1>1 DEF Counts
  <1>5. \A k \in 1..n : wraps(k) <=> (old[k] % d(k)) + 1 = d(k)
    <2>. HIDE DEF odo
    <2>. QED  BY <1>4
  <1>6. \A k \in 1..n : k \in moves <=> Behind(old, t, n, k)
    <2>. SUFFICES ASSUME NEW k \in 1..n PROVE k \in moves <=> Behind(old, t, n, k)
      OBVIOUS
    <2>1. \A j \in (k + 1)..n : j \in 1..n
      OBVIOUS
    <2>. HIDE DEF wraps
    <2>. QED  BY <2>1, <1>5 DEF Behind
  <1>7. \A k \in 1..n :
            /\ k \notin moves => new[k] = old[k]
            /\ k \in moves /\ wraps(k) => new[k] % d(k) = 0 /\ old[k] % d(k) = d(k) - 1
            /\ k \in moves /\ ~wraps(k) => new[k] % d(k) = (old[k] % d(k)) + 1
    <2>. SUFFICES ASSUME NEW k \in 1..n
                  PROVE  /\ k \notin moves => new[k] = old[k]
                         /\ k \in moves /\ wraps(k) => /\ new[k] % d(k) = 0
                                                       /\ old[k] % d(k) = d(k) - 1
                         /\ k \in moves /\ ~wraps(k) => new[k] % d(k) = (old[k] % d(k)) + 1
      OBVIOUS
    <2>. DEFINE x == old[k]
                y == d(k)
    <2>1. x \in Nat /\ y \in Positive
      BY <1>3
    <2>2. new[k] = IF k \in moves THEN x + 1 ELSE x
      <3>1. \A i \in 0..n : new[i] = IF Behind(old, t, n, i) THEN old[i] + 1 ELSE old[i]
        BY <1>1, <1>2, CountsNext, ZenonT(60)
      <3>2. k \in 0..n
        OBVIOUS
      <3>3. k \in moves <=> Behind(old, t, n, k)
        BY <1>6
      <3>. HIDE DEF moves
      <3>. QED  BY <3>1, <3>2, <3>3
    <2>3. wraps(k) <=> (x % y) + 1 = y
      BY <1>5
    <2>. HIDE DEF x, y, wraps, moves
    <2>4. IF (x % y) + 1 = y THEN (x + 1) % y = 0 ELSE (x + 1) % y = (x % y) + 1
      BY <2>1, CountUp
    <2>5. x % y \in Nat /\ y \in Nat
      BY <2>1, Quotient DEF Positive
    <2>6. CASE k \notin moves
      BY <2>2, <2>6 DEF x
    <2>7. CASE k \in moves /\ wraps(k)
      <3>1. x % y = y - 1 /\ (x + 1) % y = 0 /\ new[k] = x + 1
        <4>. DEFINE r == x % y
                    u == (x + 1) % y
        <4>1. /\ r \in Nat /\ y \in Nat /\ r + 1 = y
              /\ IF r + 1 = y THEN u = 0 ELSE u = r + 1
          BY <2>3, <2>4, <2>5, <2>7
        <4>. HIDE DEF r, u
        <4>2. r = y - 1 /\ u = 0 /\ new[k] = x + 1
          BY <4>1, <2>2, <2>7
        <4>. QED  BY <4>2 DEF r, u
      <3>. QED  BY <2>7, <3>1 DEF x, y
    <2>8. CASE k \in moves /\ ~wraps(k)
      BY <2>2, <2>3, <2>4, <2>5, <2>8 DEF x, y
    <2>. QED  BY <2>6, <2>7, <2>8
  <1>8. \A k \in 1..n : old[k] % d(k) \in Nat /\ new[k] % d(k) \in Nat
    <2>. SUFFICES ASSUME NEW k \in 1..n PROVE old[k] % d(k) \in Nat /\ new[k] % d(k) \in Nat
      OBVIOUS
    <2>. DEFINE x == old[k]
                z == new[k]
                y == d(k)
    <2>1. x \in Nat /\ z \in Nat /\ y \in Positive
      BY <1>3
    <2>. HIDE DEF x, y, z
    <2>2. x % y \in 0..(y - 1) /\ z % y \in 0..(y - 1)
      BY <2>1, Quotient
    <2>. QED  BY <2>1, <2>2 DEF x, y, z, Positive
  <1>9. \A k \in 1..n : a[k] \in Int /\ gain(k) \in Int /\ c[k] \in Int /\ c[k] = a[k] + gain(k)
    <2>. SUFFICES ASSUME NEW k \in 1..n
                  PROVE  a[k] \in Int /\ gain(k) \in Int /\ c[k] \in Int /\ c[k] = a[k] + gain(k)
      OBVIOUS
    <2>. DEFINE x == old[k] % d(k)
                z == new[k] % d(k)
                y == d(k)
                w == s(k)
    <2>1. x \in Nat /\ z \in Nat /\ y \in Nat /\ w \in Nat
      BY <1>3, <1>8 DEF Positive
    <2>2. /\ k \notin moves => z = x
          /\ k \in moves /\ wraps(k) => z = 0 /\ x = y - 1
          /\ k \in moves /\ ~wraps(k) => z = x + 1
      BY <1>7
    <2>3. a[k] = x * w /\ c[k] = z * w
      OBVIOUS
    <2>4. gain(k) = IF k \notin moves THEN 0 ELSE w - (IF wraps(k) THEN y * w ELSE 0)
      OBVIOUS
    <2>. HIDE DEF a, c, x, z, y, w, gain, wraps, moves
    <2>5. x * w \in Nat /\ z * w \in Nat /\ y * w \in Nat
      BY <2>1
    <2>6. x = y - 1 => x * w = y * w - w
      BY <2>1
    <2>7. z = x + 1 => z * w = x * w + w
      BY <2>1
    <2>8. z = 0 => z * w = 0
      BY <2>1
    <2>9. CASE k \notin moves
      BY <2>1, <2>2, <2>3, <2>4, <2>5, <2>9
    <2>10. CASE k \in moves /\ wraps(k)
      BY <2>1, <2>2, <2>3, <2>4, <2>5, <2>6, <2>8, <2>10
    <2>11. CASE k \in moves /\ ~wraps(k)
      BY <2>1, <2>2, <2>3, <2>4, <2>5, <2>7, <2>11
    <2>. QED  BY <2>9, <2>10, <2>11
  <1>10. Total(c, n) = Total(a, n) + Total(b, n)
    <2>1. a \in [1..n -> Int] /\ b \in [1..n -> Int] /\ c \in [1..n -> Int]
      <3>. HIDE DEF gain
      <3>. QED  BY <1>9
    <2>2. \A k \in 1..n : c[k] = a[k] + b[k]
      <3>. HIDE DEF gain
      <3>. QED  BY <1>9
    <2>. HIDE DEF a, b, c
    <2>. QED  BY <2>1, <2>2, TotalPlus
  <1>11. [k \in 1..n |-> IF k \notin moves THEN odo.digit[k]
                         ELSE IF wraps(k) THEN 0 ELSE odo.digit[k] + 1]
             = [k \in 1..n |-> new[k] % t.to_shape[k]]
    <2>. SUFFICES ASSUME NEW k \in 1..n
                  PROVE  (IF k \notin moves THEN odo.digit[k]
                          ELSE IF wraps(k) THEN 0 ELSE odo.digit[k] + 1)
                             = new[k] % t.to_shape[k]
      OBVIOUS
    <2>1. odo.digit[k] = old[k] % d(k)
      BY <1>4
    <2>2. /\ k \notin moves => new[k] = old[k]
          /\ k \in moves /\ wraps(k) => new[k] % d(k) = 0
          /\ k \in moves /\ ~wraps(k) => new[k] % d(k) = (old[k] % d(k)) + 1
      BY <1>7
    <2>. HIDE DEF wraps, moves, odo
    <2>. QED  BY <2>1, <2>2
  <1>12. OdoInit(t, n, g + 1) =
             [digit |-> [k \in 1..n |-> new[k] % t.to_shape[k]], base |-> Total(c, n)]
    BY <1>2 DEF Counts
  <1>13. OdoAdvance(t, n, odo) =
             [digit |-> [k \in 1..n |-> IF k \notin moves THEN odo.digit[k]
                                        ELSE IF wraps(k) THEN 0 ELSE odo.digit[k] + 1],
              base |-> odo.base + Total(b, n)]
    BY DEF OdoAdvance
  <1>. HIDE DEF odo, moves, wraps, gain, a, b, c
  <1>14. OdoAdvance(t, n, odo) = OdoInit(t, n, g + 1)
    BY <1>4, <1>10, <1>11, <1>12, <1>13
  <1>. QED  BY <1>14 DEF odo
\* The offset of the first k axes, over the counts of the first k axes, is the
\* sum of the first k digits.
LEMMA SumsDecode ==
    ASSUME NEW t, NEW n \in Nat, Steppable(t, n), NEW g \in Nat,
           NEW left \in [0..n -> Nat], Counts(left, t, n, g),
           NEW f, Sums(f, [k \in 1..n |-> (left[k] % t.to_shape[k]) * t.perm_strides[k]], n)
    PROVE  \A k \in 0..n :
              f[k] = Decode(left[k], SubSeq(t.to_shape, 1, k), SubSeq(t.perm_strides, 1, k))
  <1>. DEFINE N == Len(t.to_shape)
              D == t.to_shape
              R == t.perm_strides
              e == [k \in 1..n |-> (left[k] % D[k]) * R[k]]
              S == {k \in 0..n : f[k] = Decode(left[k], SubSeq(D, 1, k), SubSeq(R, 1, k))}
  <1>1. N \in Nat /\ n \in 0..N /\ D \in [1..N -> Positive] /\ R \in [1..N -> Nat]
        /\ D \in [1..N -> Nat]
    BY DEF Steppable, Positive
  <1>. HIDE DEF N, D, R
  <1>2. \A k \in 0..n : /\ SubSeq(D, 1, k) \in [1..k -> Positive]
                        /\ SubSeq(D, 1, k) = [i \in 1..k |-> D[i]]
                        /\ SubSeq(R, 1, k) \in [1..k -> Nat]
                        /\ SubSeq(R, 1, k) = [i \in 1..k |-> R[i]]
    <2>. SUFFICES ASSUME NEW k \in 0..n
                  PROVE  /\ SubSeq(D, 1, k) \in [1..k -> Positive]
                         /\ SubSeq(D, 1, k) = [i \in 1..k |-> D[i]]
                         /\ SubSeq(R, 1, k) \in [1..k -> Nat]
                         /\ SubSeq(R, 1, k) = [i \in 1..k |-> R[i]]
      OBVIOUS
    <2>1. k \in 0..N
      BY <1>1
    <2>2. SubSeq(D, 1, k) = [i \in 1..k |-> D[i]]
      BY <1>1, <2>1, Beginning
    <2>3. SubSeq(R, 1, k) = [i \in 1..k |-> R[i]]
      BY <1>1, <2>1, Beginning
    <2>4. [i \in 1..k |-> D[i]] \in [1..k -> Positive] /\ [i \in 1..k |-> R[i]] \in [1..k -> Nat]
      BY <1>1, <2>1
    <2>. QED  BY <2>2, <2>3, <2>4
  <1>3. f[0] = 0 /\ \A k \in 1..n : f[k] = f[k - 1] + e[k]
    BY DEF Sums, D, R
  <1>4. 0 \in S
    <2>. DEFINE d0 == SubSeq(D, 1, 0)
                r0 == SubSeq(R, 1, 0)
    <2>1. d0 \in [1..0 -> Positive] /\ r0 \in [1..0 -> Nat] /\ left[0] \in Nat
      BY <1>2
    <2>2. Decode(left[0], d0, r0) = 0
      <3>. HIDE DEF d0, r0
      <3>. QED  BY <2>1, DecodeEmpty
    <2>. QED  BY <2>2, <1>3
  <1>5. \A k \in 0..(n - 1) : k \in S => k + 1 \in S
    <2>. SUFFICES ASSUME NEW k \in 0..(n - 1), k \in S PROVE k + 1 \in S
      OBVIOUS
    <2>. DEFINE m == k + 1
                dm == SubSeq(D, 1, m)
                rm == SubSeq(R, 1, m)
                dk == SubSeq(D, 1, k)
                rk == SubSeq(R, 1, k)
    <2>1. m \in 1..n /\ m \in 0..n /\ k \in 0..n /\ m - 1 = k /\ m \in Positive /\ m \in Nat
          /\ m \in 1..m
      BY DEF Positive
    <2>2. /\ dm \in [1..m -> Positive] /\ dm = [i \in 1..m |-> D[i]] /\ dm \in [1..m -> Nat]
          /\ rm \in [1..m -> Nat] /\ rm = [i \in 1..m |-> R[i]]
          /\ dk = [i \in 1..k |-> D[i]] /\ rk = [i \in 1..k |-> R[i]]
      BY <1>2, <2>1 DEF Positive
    <2>. HIDE DEF m, dm, rm, dk, rk
    <2>3. SubSeq(dm, 1, m - 1) = dk /\ SubSeq(rm, 1, m - 1) = rk
      <3>1. k \in 0..m
        BY <2>1
      <3>2. SubSeq(dm, 1, k) = [i \in 1..k |-> dm[i]] /\ SubSeq(rm, 1, k) = [i \in 1..k |-> rm[i]]
        BY <2>1, <2>2, <3>1, Beginning
      <3>3. \A i \in 1..k : i \in 1..m
        BY <3>1, <2>1
      <3>. QED  BY <2>1, <2>2, <3>2, <3>3
    <2>4. left[m] \in Nat
      BY <2>1
    <2>5. Decode(left[m], dm, rm)
              = (left[m] % dm[m]) * rm[m]
                + Decode(left[m] \div dm[m], SubSeq(dm, 1, m - 1), SubSeq(rm, 1, m - 1))
      BY <2>1, <2>2, <2>4, DecodeStep
    <2>6. dm[m] = D[m] /\ rm[m] = R[m] /\ left[k] = left[m] \div D[m]
      <3>1. left[m - 1] = left[m] \div D[m]
        BY <2>1 DEF Counts, D
      <3>. QED  BY <3>1, <2>1, <2>2
    <2>7. f[m] = f[k] + e[m] /\ f[k] = Decode(left[k], dk, rk)
      BY <1>3, <2>1 DEF dk, rk
    <2>8. e[m] = (left[m] % D[m]) * R[m]
      BY <2>1
    <2>9. f[m] = Decode(left[m], dm, rm)
      <3>. DEFINE x == (left[m] % D[m]) * R[m]
                  y == Decode(left[k], dk, rk)
      <3>1. x \in Nat
        <4>. DEFINE u == left[m]
                    v == D[m]
                    w == R[m]
        <4>1. u \in Nat /\ v \in Positive /\ w \in Nat
          BY <2>1, <2>4, <1>1
        <4>. HIDE DEF u, v, w
        <4>2. u % v \in 0..(v - 1)
          BY <4>1, Quotient
        <4>3. u % v \in Nat
          BY <4>1, <4>2 DEF Positive
        <4>4. (u % v) * w \in Nat
          BY <4>1, <4>3
        <4>. QED  BY <4>4 DEF u, v, w
      <3>2. y \in Nat
        <4>1. dk \in [1..k -> Positive] /\ rk \in [1..k -> Nat] /\ k \in Nat /\ left[k] \in Nat
          BY <1>2, <2>1, SMTT(30) DEF dk, rk
        <4>. QED  BY <4>1, DecodeNat
      <3>3. f[m] = y + x
        BY <2>7, <2>8
      <3>4. Decode(left[m], dm, rm) = x + y
        BY <2>3, <2>5, <2>6
      <3>. HIDE DEF x, y
      <3>. QED  BY <3>1, <3>2, <3>3, <3>4
    <2>. QED  BY <2>1, <2>9 DEF m, dm, rm
  <1>6. 0..n \subseteq S
    <2>. HIDE DEF S
    <2>. QED  BY <1>4, <1>5, Induction
  <1>. QED  BY <1>6 DEF D, R

(***************************************************************************)
(* PermOdometer::init: the base of a run is the source offset that         *)
(* transfer_idx finds for its leading axes, digit by digit.                *)
(***************************************************************************)
THEOREM OdometerDecodes ==
    ASSUME NEW t, NEW n \in Nat, Steppable(t, n), NEW g \in Nat
    PROVE  OdoInit(t, n, g).base
               = Decode(g, SubSeq(t.to_shape, 1, n), SubSeq(t.perm_strides, 1, n))
  <1>1. PICK left \in [0..n -> Nat] : Counts(left, t, n, g)
    BY OdoUnfolds
  <1>. DEFINE e == [k \in 1..n |-> (left[k] % t.to_shape[k]) * t.perm_strides[k]]
  <1>2. e \in [1..n -> Int]
    <2>. SUFFICES ASSUME NEW k \in 1..n PROVE (left[k] % t.to_shape[k]) * t.perm_strides[k] \in Int
      OBVIOUS
    <2>. DEFINE u == left[k]
                v == t.to_shape[k]
                w == t.perm_strides[k]
    <2>1. u \in Nat /\ v \in Positive /\ w \in Nat
      BY AxisOf
    <2>. HIDE DEF u, v, w
    <2>2. u % v \in 0..(v - 1)
      BY <2>1, Quotient
    <2>3. u % v \in Nat
      BY <2>1, <2>2 DEF Positive
    <2>4. (u % v) * w \in Int
      BY <2>1, <2>3
    <2>. QED  BY <2>4 DEF u, v, w
  <1>3. PICK f \in [0..n -> Int] : Sums(f, e, n)
    <2>. HIDE DEF e
    <2>. QED  BY <1>2, TotalUnfolds
  <1>4. \A k \in 0..n :
            f[k] = Decode(left[k], SubSeq(t.to_shape, 1, k), SubSeq(t.perm_strides, 1, k))
    BY <1>1, <1>3, SumsDecode
  <1>5. f[n] = Decode(g, SubSeq(t.to_shape, 1, n), SubSeq(t.perm_strides, 1, n))
    BY <1>1, <1>4 DEF Counts
  <1>6. OdoInit(t, n, g).base = Total(e, n)
    BY <1>1 DEF Counts
  <1>. HIDE DEF e
  <1>. QED  BY <1>3, <1>5, <1>6 DEF Sums

(***************************************************************************)
(* A lane that steps its odometer from run to run has for each of its runs *)
(* the base that a division would have given, wherever its span begins.    *)
(***************************************************************************)
THEOREM BasesRight ==
    ASSUME NEW t, NEW n \in Nat, Steppable(t, n), NEW from \in Nat, NEW to \in Int
    PROVE  Bases(t, n, from..to)
               = [g \in from..to |->
                     Decode(g, SubSeq(t.to_shape, 1, n), SubSeq(t.perm_strides, 1, n))]
  <1>. DEFINE span == from..to
              def(f) == [g \in span |-> IF g - 1 \in span THEN OdoAdvance(t, n, f[g - 1])
                                                          ELSE OdoInit(t, n, g)]
              h == [g \in span |-> OdoInit(t, n, g)]
              odo == CHOOSE f : f = def(f)
  <1>1. h = def(h)
    <2>1. ASSUME NEW g \in span, g - 1 \in span PROVE OdoInit(t, n, g) = OdoAdvance(t, n, h[g - 1])
      <3>1. g - 1 \in Nat /\ (g - 1) + 1 = g /\ h[g - 1] = OdoInit(t, n, g - 1)
        BY <2>1
      <3>2. OdoAdvance(t, n, OdoInit(t, n, g - 1)) = OdoInit(t, n, (g - 1) + 1)
        BY <3>1, OdometerSteps
      <3>. QED  BY <3>1, <3>2
    <2>2. \A g \in span : h[g] = IF g - 1 \in span THEN OdoAdvance(t, n, h[g - 1])
                                                   ELSE OdoInit(t, n, g)
      BY <2>1
    <2>3. h = [g \in span |-> h[g]]
      OBVIOUS
    <2>. HIDE DEF h, span
    <2>. QED  BY <2>2, <2>3
  <1>2. odo = def(odo)
    <2>. HIDE DEF def
    <2>. QED  BY <1>1
  <1>3. Bases(t, n, span) = [g \in span |-> odo[g].base]
    BY DEF Bases
  <1>4. \A g \in span : odo[g] = OdoInit(t, n, g)
    <2>. HIDE DEF odo
    <2>. DEFINE S == {i \in 0..(to - from) : odo[from + i] = OdoInit(t, n, from + i)}
    <2>. SUFFICES ASSUME NEW x \in span PROVE odo[x] = OdoInit(t, n, x)
      OBVIOUS
    <2>1. to - from \in Nat /\ from \in span /\ from - 1 \notin span
      OBVIOUS
    <2>2. 0 \in S
      <3>1. odo[from] = OdoInit(t, n, from)
        BY <1>2, <2>1
      <3>. QED  BY <3>1, <2>1
    <2>3. \A i \in 0..(to - from - 1) : i \in S => i + 1 \in S
      <3>. SUFFICES ASSUME NEW i \in 0..(to - from - 1), i \in S PROVE i + 1 \in S
        OBVIOUS
      <3>. DEFINE g == from + i
      <3>1. /\ g \in Nat /\ g + 1 \in span /\ (g + 1) - 1 = g /\ g \in span
            /\ from + (i + 1) = g + 1 /\ i + 1 \in 0..(to - from)
        OBVIOUS
      <3>2. odo[g] = OdoInit(t, n, g)
        OBVIOUS
      <3>. HIDE DEF g
      <3>3. odo[g + 1] = OdoAdvance(t, n, odo[(g + 1) - 1])
        <4>. HIDE DEF span
        <4>1. (g + 1) - 1 \in span
          BY <3>1
        <4>. QED  BY <1>2, <3>1, <4>1
      <3>4. odo[g + 1] = OdoInit(t, n, g + 1)
        BY <3>1, <3>2, <3>3, OdometerSteps
      <3>. QED  BY <3>1, <3>4
    <2>4. 0..(to - from) \subseteq S
      <3>. HIDE DEF S
      <3>. QED  BY <2>1, <2>2, <2>3, Induction
    <2>5. x - from \in 0..(to - from) /\ from + (x - from) = x
      OBVIOUS
    <2>. QED  BY <2>4, <2>5
  <1>5. \A g \in span :
            odo[g].base = Decode(g, SubSeq(t.to_shape, 1, n), SubSeq(t.perm_strides, 1, n))
    <2>. HIDE DEF odo
    <2>. SUFFICES ASSUME NEW g \in span
                  PROVE  odo[g].base = Decode(g, SubSeq(t.to_shape, 1, n),
                                                 SubSeq(t.perm_strides, 1, n))
      OBVIOUS
    <2>1. g \in Nat
      OBVIOUS
    <2>. QED  BY <2>1, <1>4, OdometerDecodes
  <1>. HIDE DEF odo, span
  <1>6. [g \in span |-> odo[g].base]
            = [g \in span |-> Decode(g, SubSeq(t.to_shape, 1, n), SubSeq(t.perm_strides, 1, n))]
    BY <1>5
  <1>. QED  BY <1>3, <1>6 DEF span
-----------------------------------------------------------------------------
(* Listings *)

\* A product is that of all factors but the p-th, times it.
LEMMA ProductWithout ==
    ASSUME NEW n \in Nat, NEW s \in [1..(n + 1) -> Nat], NEW p \in 1..(n + 1)
    PROVE  /\ [i \in 1..n |-> s[IF i < p THEN i ELSE i + 1]] \in [1..n -> Nat]
           /\ Product(s) = Product([i \in 1..n |-> s[IF i < p THEN i ELSE i + 1]]) * s[p]
  <1>. DEFINE N == n + 1
              r == [i \in 1..n |-> s[IF i < p THEN i ELSE i + 1]]
              m == p - 1
              k == N - p
  <1>1. /\ N \in Nat /\ p \in 0..N /\ p \in 1..N /\ m \in 0..N /\ m \in 0..n /\ m \in 0..p
        /\ p \in Positive /\ p \in 1..p /\ p \in Nat /\ m \in Nat
        /\ k \in Nat /\ k \in 0..(N - p) /\ k \in 0..(n - m)
        /\ p + k = N /\ m + k = n /\ m + 1 = p /\ n \in 0..n
    BY DEF Positive
  <1>2. s \in [1..N -> Nat]
    OBVIOUS
  <1>3. r \in [1..n -> Nat]
    <2>1. \A i \in 1..n : (IF i < p THEN i ELSE i + 1) \in 1..N
      BY <1>1
    <2>. QED  BY <1>2, <2>1
  <1>4. /\ \A i \in 1..m : i \in 1..n /\ r[i] = s[i]
        /\ \A i \in 1..k : m + i \in 1..n /\ r[m + i] = s[p + i]
    <2>1. \A i \in 1..m : i \in 1..n /\ i < p
      BY <1>1
    <2>2. \A i \in 1..k : m + i \in 1..n /\ ~(m + i < p) /\ (m + i) + 1 = p + i
      BY <1>1
    <2>. QED  BY <2>1, <2>2
  <1>. DEFINE a == Product(SubSeq(s, 1, m))
              b == Product(SubSeq(s, p + 1, N))
  <1>5. Product(s) = Product(SubSeq(s, 1, p)) * b
    <2>. HIDE DEF N, r, m, k
    <2>. QED  BY <1>1, <1>2, ProductSplit
  <1>6. Product(SubSeq(s, 1, p)) = a * s[p]
    <2>. DEFINE t == SubSeq(s, 1, p)
    <2>. HIDE DEF N, r, m, k
    <2>1. t \in [1..p -> Nat] /\ t = [i \in 1..p |-> s[i]]
      BY <1>1, <1>2, Beginning
    <2>2. SubSeq(s, 1, m) = [i \in 1..m |-> s[i]]
      BY <1>1, <1>2, Beginning
    <2>. HIDE DEF t
    <2>3. SubSeq(t, 1, m) = [i \in 1..m |-> t[i]]
      BY <1>1, <2>1, Beginning
    <2>4. \A i \in 1..m : i \in 1..p
      BY <1>1
    <2>5. SubSeq(t, 1, m) = SubSeq(s, 1, m)
      BY <2>1, <2>2, <2>3, <2>4
    <2>6. Product(t) = Product(SubSeq(t, 1, p - 1)) * t[p]
      BY <1>1, <2>1, ProductStep
    <2>7. t[p] = s[p]
      BY <1>1, <2>1
    <2>. QED  BY <2>5, <2>6, <2>7 DEF t, m
  <1>7. Product(r) = a * b
    <2>. HIDE DEF N, r, m, k
    <2>1. Product(r) = Product(SubSeq(r, 1, m)) * Product(SubSeq(r, m + 1, n))
      BY <1>1, <1>3, ProductSplit
    <2>2. SubSeq(r, 1, m) = [i \in 1..m |-> r[i]] /\ SubSeq(s, 1, m) = [i \in 1..m |-> s[i]]
      BY <1>1, <1>2, <1>3, Beginning
    <2>3. SubSeq(r, 1, m) = SubSeq(s, 1, m)
      BY <1>4, <2>2
    <2>4. SubSeq(r, m + 1, m + k) = [i \in 1..k |-> r[m + i]]
      BY <1>1, <1>3, Slice
    <2>5. SubSeq(s, p + 1, p + k) = [i \in 1..k |-> s[p + i]]
      BY <1>1, <1>2, Slice
    <2>6. SubSeq(r, m + 1, n) = SubSeq(s, p + 1, N)
      BY <1>1, <1>4, <2>4, <2>5
    <2>. QED  BY <2>1, <2>3, <2>6
  <1>8. a \in Nat /\ b \in Nat /\ s[p] \in Nat
    <2>. HIDE DEF N, r, m, k
    <2>1. SubSeq(s, 1, m) \in [1..m -> Nat]
      BY <1>1, <1>2, Beginning
    <2>2. SubSeq(s, p + 1, p + k) \in [1..k -> Nat]
      BY <1>1, <1>2, Slice
    <2>3. a \in Nat
      BY <1>1, <2>1, ProductNat
    <2>4. Product(SubSeq(s, p + 1, p + k)) \in Nat
      BY <1>1, <2>2, ProductNat
    <2>. QED  BY <1>1, <1>2, <2>3, <2>4
  <1>9. Product(s) = Product(r) * s[p]
    <2>. DEFINE x == s[p]
    <2>1. Product(s) = (a * x) * b /\ Product(r) = a * b /\ x \in Nat
      BY <1>5, <1>6, <1>7, <1>8
    <2>. HIDE DEF a, b, x, r
    <2>2. (a * x) * b = (a * b) * x
      BY <1>8, <2>1
    <2>3. Product(s) = Product(r) * x
      BY <2>1, <2>2
    <2>. QED  BY <2>3 DEF x
  <1>. QED  BY <1>3, <1>9
\* Two terms in either order.
LEMMA Swapped == \A a, b, c \in Int : (a + b) + c = (a + c) + b
  OBVIOUS

\* A sum is that of all terms but the p-th, and it.
LEMMA TotalWithout ==
    ASSUME NEW n \in Nat, NEW s \in [1..(n + 1) -> Int], NEW p \in 1..(n + 1)
    PROVE  Total(s, n + 1) = Total([i \in 1..n |-> s[IF i < p THEN i ELSE i + 1]], n) + s[p]
  <1>. DEFINE N == n + 1
              r == [i \in 1..n |-> s[IF i < p THEN i ELSE i + 1]]
  <1>1. N \in Nat /\ N \in Positive /\ p \in 1..N /\ s \in [1..N -> Int]
    BY DEF Positive
  <1>2. \A i \in 1..n : /\ i \in 1..N /\ i + 1 \in 1..N
                        /\ i < p => r[i] = s[i]
                        /\ ~(i < p) => r[i] = s[i + 1]
    BY <1>1
  <1>3. r \in [1..n -> Int]
    <2>1. \A i \in 1..n : r[i] \in Int
      BY <1>1, <1>2
    <2>. QED  BY <2>1
  <1>4. PICK f \in [0..N -> Int] : Sums(f, s, N)
    <2>. HIDE DEF N
    <2>. QED  BY <1>1, TotalUnfolds
  <1>. HIDE DEF r
  <1>5. PICK g \in [0..n -> Int] : Sums(g, r, n)
    BY <1>3, TotalUnfolds
  <1>6. /\ f[0] = 0 /\ f[N] = Total(s, N) /\ \A i \in 1..N : f[i] = f[i - 1] + s[i]
        /\ g[0] = 0 /\ g[n] = Total(r, n) /\ \A i \in 1..n : g[i] = g[i - 1] + r[i]
    BY <1>4, <1>5 DEF Sums
  <1>. DEFINE S == {k \in 0..n : IF k < p THEN f[k] = g[k] /\ f[k + 1] = g[k] + s[k + 1]
                                          ELSE f[k + 1] = g[k] + s[p]}
  <1>7. 0 \in S
    <2>1. f[0 + 1] = f[0] + s[0 + 1] /\ 0 \in 0..n /\ 0 < p
      BY <1>1, <1>6
    <2>. QED  BY <2>1, <1>6
  <1>8. \A k \in 0..(n - 1) : k \in S => k + 1 \in S
    <2>. SUFFICES ASSUME NEW k \in 0..(n - 1), k \in S PROVE k + 1 \in S
      OBVIOUS
    <2>. DEFINE j == k + 1
    <2>1. /\ j \in 1..n /\ j \in 0..n /\ j - 1 = k /\ j + 1 \in 1..N /\ (j + 1) - 1 = j
          /\ j \in 1..N /\ k \in 0..n /\ j \in Nat /\ k \in Nat /\ k < j /\ j \in 0..N
      BY <1>1
    <2>2. IF k < p THEN f[k] = g[k] /\ f[j] = g[k] + s[j] ELSE f[j] = g[k] + s[p]
      OBVIOUS
    <2>. HIDE DEF j, N
    <2>3. /\ g[j] = g[k] + r[j] /\ f[j + 1] = f[j] + s[j + 1]
          /\ g[k] \in Int /\ s[j] \in Int /\ s[j + 1] \in Int /\ s[p] \in Int /\ r[j] \in Int
      BY <1>1, <1>3, <1>6, <2>1
    <2>4. CASE j < p
      <3>1. k < p /\ r[j] = s[j]
        BY <1>2, <2>1, <2>4, <1>1
      <3>2. f[j] = g[j] /\ f[j + 1] = g[j] + s[j + 1]
        BY <2>2, <2>3, <3>1
      <3>. QED  BY <2>1, <2>4, <3>2 DEF j
    <2>5. CASE j = p
      <3>1. k < p /\ r[j] = s[j + 1] /\ ~(j < p)
        BY <1>2, <2>1, <2>5, <1>1
      <3>2. f[j] = g[k] + s[p] /\ f[j + 1] = f[j] + r[j] /\ g[j] = g[k] + r[j]
        BY <2>2, <2>3, <2>5, <3>1
      <3>3. f[j + 1] = g[j] + s[p]
        BY <2>3, <3>2, Swapped
      <3>. QED  BY <2>1, <3>1, <3>3 DEF j
    <2>6. CASE j > p
      <3>1. ~(k < p) /\ r[j] = s[j + 1] /\ ~(j < p)
        BY <1>2, <2>1, <2>6, <1>1 DEF j
      <3>2. f[j] = g[k] + s[p] /\ f[j + 1] = f[j] + r[j] /\ g[j] = g[k] + r[j]
        BY <2>2, <2>3, <3>1
      <3>3. f[j + 1] = g[j] + s[p]
        BY <2>3, <3>2, Swapped
      <3>. QED  BY <2>1, <3>1, <3>3 DEF j
    <2>7. p \in Nat
      BY <1>1
    <2>. QED  BY <2>1, <2>4, <2>5, <2>6, <2>7
  <1>9. n \in S
    <2>1. n \in 0..n
      OBVIOUS
    <2>. HIDE DEF S
    <2>2. 0..n \subseteq S
      BY <1>7, <1>8, Induction
    <2>. QED  BY <2>1, <2>2
  <1>10. f[N] = g[n] + s[p]
    <2>1. CASE n < p
      <3>1. p = n + 1
        BY <2>1
      <3>. QED  BY <1>9, <2>1, <3>1
    <2>2. CASE ~(n < p)
      BY <1>9, <2>2
    <2>. QED  BY <2>1, <2>2
  <1>. QED  BY <1>6, <1>10 DEF r

\* w lists the members of T, each once.
Lists(w, T) == /\ w \in Seq(Positive) /\ T \subseteq Positive
               /\ \A i \in 1..Len(w) : w[i] \in T
               /\ \A a \in T : \E i \in 1..Len(w) : w[i] = a
               /\ \A i, j \in 1..Len(w) : w[i] = w[j] => i = j

Without(w, p) == [i \in 1..(Len(w) - 1) |-> w[IF i < p THEN i ELSE i + 1]]

\* Without its p-th member a listing lists the others.
LEMMA ListsWithout ==
    ASSUME NEW w, NEW T, Lists(w, T), NEW p \in 1..Len(w)
    PROVE  Lists(Without(w, p), T \ {w[p]}) /\ Len(Without(w, p)) = Len(w) - 1
  <1>. DEFINE n == Len(w) - 1
              x == Without(w, p)
              at == [i \in 1..n |-> IF i < p THEN i ELSE i + 1]
  <1>1. /\ w \in Seq(Positive) /\ T \subseteq Positive
        /\ \A i \in 1..Len(w) : w[i] \in T
        /\ \A a \in T : \E i \in 1..Len(w) : w[i] = a
        /\ \A i, j \in 1..Len(w) : w[i] = w[j] => i = j
    BY DEF Lists
  <1>2. Len(w) \in Nat /\ n \in Nat /\ \A i \in 1..Len(w) : w[i] \in Positive
    BY <1>1
  <1>3. /\ \A i \in 1..n : at[i] \in 1..Len(w) /\ at[i] # p
        /\ \A i, j \in 1..n : at[i] = at[j] => i = j
        /\ \A k \in 1..Len(w) : k # p => \E i \in 1..n : at[i] = k
    <2>1. ASSUME NEW k \in 1..Len(w), k # p PROVE \E i \in 1..n : at[i] = k
      <3>1. CASE k < p
        <4>1. k \in 1..n /\ at[k] = k
          BY <3>1, <1>2
        <4>. QED  BY <4>1
      <3>2. CASE ~(k < p)
        <4>1. k - 1 \in 1..n /\ ~(k - 1 < p) /\ (k - 1) + 1 = k
          BY <3>2, <2>1, <1>2
        <4>2. at[k - 1] = k
          BY <4>1
        <4>. QED  BY <4>1, <4>2
      <3>. QED  BY <3>1, <3>2
    <2>2. \A i \in 1..n : at[i] \in 1..Len(w) /\ at[i] # p
      BY <1>2
    <2>3. \A i, j \in 1..n : at[i] = at[j] => i = j
      BY <1>2
    <2>. QED  BY <2>1, <2>2, <2>3
  <1>4. x = [i \in 1..n |-> w[at[i]]]
    <2>1. \A i \in 1..n : w[at[i]] = w[IF i < p THEN i ELSE i + 1]
      OBVIOUS
    <2>. QED  BY <2>1 DEF Without
  <1>. HIDE DEF at
  <1>5. \A i \in 1..n : w[at[i]] \in Positive
    BY <1>2, <1>3
  <1>. HIDE DEF x, n
  <1>6. x \in Seq(Positive) /\ Len(x) = n /\ \A i \in 1..n : x[i] = w[at[i]]
    BY <1>2, <1>4, <1>5
  <1>7. \A i \in 1..n : x[i] \in T \ {w[p]}
    BY <1>1, <1>3, <1>6
  <1>8. \A a \in T \ {w[p]} : \E i \in 1..n : x[i] = a
    <2>. SUFFICES ASSUME NEW a \in T \ {w[p]} PROVE \E i \in 1..n : x[i] = a
      OBVIOUS
    <2>1. PICK k \in 1..Len(w) : w[k] = a
      BY <1>1
    <2>2. k # p
      BY <2>1
    <2>. QED  BY <2>1, <2>2, <1>3, <1>6
  <1>9. \A i, j \in 1..n : x[i] = x[j] => i = j
    <2>. SUFFICES ASSUME NEW i \in 1..n, NEW j \in 1..n, x[i] = x[j] PROVE i = j
      OBVIOUS
    <2>1. at[i] \in 1..Len(w) /\ at[j] \in 1..Len(w) /\ w[at[i]] = w[at[j]]
      BY <1>3, <1>6
    <2>2. at[i] = at[j]
      BY <1>1, <2>1
    <2>. QED  BY <1>3, <2>2
  <1>10. T \ {w[p]} \subseteq Positive
    BY <1>1
  <1>11. Lists(x, T \ {w[p]})
    BY <1>6, <1>7, <1>8, <1>9, <1>10 DEF Lists
  <1>. QED  BY <1>6, <1>11 DEF x, n
\* What a listing's members have of v, in its order.
Along(w, v) == [i \in 1..Len(w) |-> v[w[i]]]

\* Two listings of the same k members agree on their products and sums.
AgreeAt(k, v) ==
    \A u, w, T : Lists(u, T) /\ Lists(w, T) /\ Len(u) = k =>
        /\ Len(w) = k
        /\ Product(Along(u, v)) = Product(Along(w, v))
        /\ Total(Along(u, v), k) = Total(Along(w, v), k)

\* The p-th member of a listing, and the others.
LEMMA AlongWithout ==
    ASSUME NEW v \in [Positive -> Nat], NEW w, NEW T, Lists(w, T), NEW p \in 1..Len(w)
    PROVE  /\ Product(Along(w, v)) = Product(Along(Without(w, p), v)) * v[w[p]]
           /\ Total(Along(w, v), Len(w))
                = Total(Along(Without(w, p), v), Len(w) - 1) + v[w[p]]
  <1>. DEFINE n == Len(w) - 1
              s == Along(w, v)
              r == [i \in 1..n |-> s[IF i < p THEN i ELSE i + 1]]
  <1>1. w \in Seq(Positive)
    BY DEF Lists
  <1>2. /\ Len(w) \in Nat /\ n \in Nat /\ n + 1 = Len(w) /\ p \in 1..(n + 1)
        /\ \A i \in 1..(n + 1) : w[i] \in Positive
    BY <1>1
  <1>. HIDE DEF n
  <1>3. s \in [1..(n + 1) -> Nat] /\ s \in [1..(n + 1) -> Int] /\ s[p] = v[w[p]]
    BY <1>2 DEF Along
  <1>4. Along(Without(w, p), v) = r
    <2>1. Len(Without(w, p)) = n
      BY ListsWithout DEF n
    <2>2. \A i \in 1..n : (IF i < p THEN i ELSE i + 1) \in 1..(n + 1)
      BY <1>2
    <2>3. \A i \in 1..n : /\ r[i] = v[w[IF i < p THEN i ELSE i + 1]]
                          /\ Without(w, p)[i] = w[IF i < p THEN i ELSE i + 1]
      BY <1>2, <2>2 DEF Along, Without, n
    <2>. HIDE DEF s
    <2>. QED  BY <2>1, <2>3 DEF Along
  <1>. HIDE DEF s
  <1>5. Product(s) = Product(r) * s[p]
    BY <1>2, <1>3, ProductWithout
  <1>6. Total(s, n + 1) = Total(r, n) + s[p]
    BY <1>2, <1>3, TotalWithout
  <1>. QED  BY <1>2, <1>3, <1>4, <1>5, <1>6 DEF s, n

\* Two listings of one set agree on every product and every sum.
LEMMA ListingsAgree ==
    ASSUME NEW v \in [Positive -> Nat], NEW u, NEW w, NEW T, Lists(u, T), Lists(w, T)
    PROVE  /\ Len(w) = Len(u)
           /\ Product(Along(u, v)) = Product(Along(w, v))
           /\ Total(Along(u, v), Len(u)) = Total(Along(w, v), Len(u))
  <1>. DEFINE n == Len(u)
              S == {k \in 0..n : AgreeAt(k, v)}
  <1>1. n \in Nat
    BY DEF Lists
  <1>2. 0 \in S
    <2>. SUFFICES AgreeAt(0, v)
      BY <1>1
    <2>. SUFFICES ASSUME NEW x, NEW y, NEW A, Lists(x, A), Lists(y, A), Len(x) = 0
                  PROVE  /\ Len(y) = 0
                         /\ Product(Along(x, v)) = Product(Along(y, v))
                         /\ Total(Along(x, v), 0) = Total(Along(y, v), 0)
      BY DEF AgreeAt
    <2>1. A = {}
      BY DEF Lists
    <2>2. Len(y) \in Nat /\ \A i \in 1..Len(y) : FALSE
      BY <2>1 DEF Lists
    <2>3. Len(y) = 0
      BY <2>2
    <2>4. Along(x, v) = Along(y, v)
      BY <2>3 DEF Along
    <2>. QED  BY <2>3, <2>4
  <1>3. \A k \in 0..(n - 1) : k \in S => k + 1 \in S
    <2>. SUFFICES ASSUME NEW k \in 0..(n - 1), k \in S PROVE k + 1 \in S
      OBVIOUS
    <2>1. AgreeAt(k, v) /\ k + 1 \in 0..n /\ k \in Nat
      BY <1>1
    <2>. SUFFICES AgreeAt(k + 1, v)
      BY <2>1
    <2>. HIDE DEF S, n
    <2>. SUFFICES ASSUME NEW x, NEW y, NEW A, Lists(x, A), Lists(y, A), Len(x) = k + 1
                  PROVE  /\ Len(y) = k + 1
                         /\ Product(Along(x, v)) = Product(Along(y, v))
                         /\ Total(Along(x, v), k + 1) = Total(Along(y, v), k + 1)
      BY DEF AgreeAt
    <2>. DEFINE l == k + 1
                a == x[l]
                x1 == Without(x, l)
    <2>2. l \in 1..Len(x) /\ l - 1 = k /\ l \in Nat
      BY <2>1
    <2>3. a \in A
      BY <2>2 DEF Lists
    <2>4. PICK p \in 1..Len(y) : y[p] = a
      BY <2>3 DEF Lists
    <2>. DEFINE y1 == Without(y, p)
    <2>. HIDE DEF l, a
    <2>5. Lists(x1, A \ {a}) /\ Len(x1) = k
      BY <2>2, ListsWithout DEF a, l
    <2>6. Lists(y1, A \ {a}) /\ Len(y1) = Len(y) - 1
      <3>1. Lists(y1, A \ {y[p]}) /\ Len(y1) = Len(y) - 1
        BY ListsWithout
      <3>. QED  BY <3>1, <2>4
    <2>. HIDE DEF x1, y1
    <2>7. /\ Len(y1) = k /\ Product(Along(x1, v)) = Product(Along(y1, v))
          /\ Total(Along(x1, v), k) = Total(Along(y1, v), k)
      BY <2>1, <2>5, <2>6, Zenon DEF AgreeAt
    <2>8. Len(y) = l /\ Len(x) = l
      <3>1. Len(y) \in Nat
        BY DEF Lists
      <3>. QED  BY <3>1, <2>6, <2>7, <2>2
    <2>9. /\ Product(Along(x, v)) = Product(Along(x1, v)) * v[a]
          /\ Total(Along(x, v), l) = Total(Along(x1, v), k) + v[a]
      BY <2>2, <2>8, AlongWithout DEF x1, a
    <2>10. /\ Product(Along(y, v)) = Product(Along(y1, v)) * v[a]
           /\ Total(Along(y, v), l) = Total(Along(y1, v), k) + v[a]
      <3>1. /\ Product(Along(y, v)) = Product(Along(y1, v)) * v[y[p]]
            /\ Total(Along(y, v), Len(y)) = Total(Along(y1, v), Len(y) - 1) + v[y[p]]
        BY AlongWithout DEF y1
      <3>. QED  BY <3>1, <2>2, <2>4, <2>8
    <2>11. /\ Product(Along(x, v)) = Product(Along(y, v))
           /\ Total(Along(x, v), l) = Total(Along(y, v), l)
      BY <2>7, <2>9, <2>10
    <2>. QED  BY <2>8, <2>11 DEF l
  <1>4. AgreeAt(n, v)
    <2>. HIDE DEF S
    <2>1. 0..n \subseteq S
      BY <1>1, <1>2, <1>3, Induction
    <2>2. n \in S
      BY <2>1, <1>1
    <2>. QED  BY <2>2 DEF S
  <1>. QED  BY <1>4, Zenon DEF AgreeAt
-----------------------------------------------------------------------------
(* Permuted shapes *)

\* perm lists the axes of a shape.
Turns(shape, perm) == shape \in Seq(Positive) /\ Lists(perm, 1..Len(shape))

\* A permuted shape has as many axes, and elements.
LEMMA PermutedShape ==
    ASSUME NEW shape, NEW perm, Turns(shape, perm)
    PROVE  /\ Len(perm) = Len(shape) /\ Len(shape) \in Nat
           /\ perm \in [1..Len(shape) -> 1..Len(shape)]
           /\ shape \in [1..Len(shape) -> Positive]
           /\ Permuted(shape, perm) \in [1..Len(shape) -> Positive]
           /\ Product(Permuted(shape, perm)) = Product(shape)
  <1>. DEFINE n == Len(shape)
              id == Identity(n)
              v == [p \in Positive |-> IF p <= n THEN shape[p] ELSE 1]
  <1>1. n \in Nat /\ shape \in [1..n -> Positive] /\ Lists(perm, 1..n)
    BY DEF Turns
  <1>2. \A p \in 1..n : p \in Positive /\ p <= n
    BY <1>1 DEF Positive
  <1>3. v \in [Positive -> Nat] /\ \A p \in 1..n : v[p] = shape[p]
    <2>1. \A p \in Positive : p <= n => p \in 1..n
      BY <1>1 DEF Positive
    <2>2. \A p \in Positive : v[p] \in Nat
      BY <1>1, <2>1 DEF Positive
    <2>. QED  BY <1>2, <2>2
  <1>4. id \in Seq(Positive) /\ Len(id) = n /\ \A i \in 1..n : id[i] = i
    BY <1>1, <1>2 DEF Identity
  <1>5. Lists(id, 1..n)
    BY <1>2, <1>4 DEF Lists
  <1>. HIDE DEF n, id, v
  <1>6. /\ Len(perm) = Len(id)
        /\ Product(Along(id, v)) = Product(Along(perm, v))
    BY <1>1, <1>3, <1>5, ListingsAgree
  <1>7. perm \in Seq(Positive) /\ \A i \in 1..n : perm[i] \in 1..n
    BY <1>1, <1>4, <1>6 DEF Lists
  <1>8. perm \in [1..n -> 1..n] /\ DOMAIN perm = 1..n /\ Len(perm) = n
    BY <1>4, <1>6, <1>7
  <1>9. Along(id, v) = shape
    BY <1>1, <1>3, <1>4 DEF Along
  <1>10. Along(perm, v) = Permuted(shape, perm)
    BY <1>3, <1>8 DEF Along, Permuted
  <1>11. Permuted(shape, perm) \in [1..n -> Positive]
    BY <1>1, <1>8 DEF Permuted
  <1>. QED  BY <1>1, <1>6, <1>8, <1>9, <1>10, <1>11 DEF n

\* t is the configuration of a transpose, its axes a permutation of a shape's.
IsTranspose(t) == /\ Turns(t.from_shape, t.perm)
                  /\ t.N = Product(t.from_shape)
                  /\ t.to_shape = Permuted(t.from_shape, t.perm)
                  /\ t.perm_strides = Permuted(RowStrides(t.from_shape), t.perm)

\* Its axes have sizes and strides.
LEMMA TransposeAxes ==
    ASSUME NEW t, IsTranspose(t)
    PROVE  /\ Dimensions(t) \in Nat /\ Len(t.from_shape) = Dimensions(t)
           /\ t.perm \in [1..Dimensions(t) -> 1..Dimensions(t)]
           /\ t.from_shape \in [1..Dimensions(t) -> Positive]
           /\ t.to_shape \in [1..Dimensions(t) -> Positive]
           /\ Len(t.to_shape) = Dimensions(t)
           /\ t.N = Product(t.to_shape) /\ t.N \in Positive
  <1>. DEFINE shape == t.from_shape
              perm == t.perm
              n == Len(shape)
  <1>1. /\ Turns(shape, perm) /\ t.to_shape = Permuted(shape, perm) /\ t.N = Product(shape)
        /\ Dimensions(t) = Len(perm)
    BY DEF IsTranspose, Dimensions
  <1>. HIDE DEF shape, perm
  <1>2. /\ Len(perm) = n /\ n \in Nat /\ perm \in [1..n -> 1..n] /\ shape \in [1..n -> Positive]
        /\ Permuted(shape, perm) \in [1..n -> Positive]
        /\ Product(Permuted(shape, perm)) = Product(shape)
    BY <1>1, PermutedShape
  <1>. HIDE DEF n
  <1>3. Product(shape) \in Positive
    BY <1>2, ProductPositive
  <1>. QED  BY <1>1, <1>2, <1>3 DEF shape, perm, n

\* One sequence after the other.
LEMMA Joined ==
    ASSUME NEW u \in Seq(Nat), NEW v \in Seq(Nat)
    PROVE  /\ u \o v \in Seq(Nat) /\ Len(u \o v) = Len(u) + Len(v)
           /\ \A i \in 1..Len(u) : (u \o v)[i] = u[i]
           /\ \A i \in 1..Len(v) : (u \o v)[Len(u) + i] = v[i]
  <1>1. u \o v \in Seq(Nat) /\ Len(u \o v) = Len(u) + Len(v)
    OBVIOUS
  <1>2. \A i \in 1..Len(u) : (u \o v)[i] = u[i]
    OBVIOUS
  <1>3. \A i \in 1..Len(v) : (u \o v)[Len(u) + i] = v[i]
    OBVIOUS
  <1>. QED  BY <1>1, <1>2, <1>3

\* The product of one sequence after the other.
LEMMA ProductJoined ==
    ASSUME NEW n \in Nat, NEW u \in [1..n -> Nat], NEW m \in Nat, NEW v \in [1..m -> Nat]
    PROVE  /\ u \o v \in [1..(n + m) -> Nat]
           /\ Product(u \o v) = Product(u) * Product(v)
  <1>. DEFINE x == u \o v
              N == n + m
  <1>1. /\ u \in Seq(Nat) /\ Len(u) = n /\ v \in Seq(Nat) /\ Len(v) = m
        /\ N \in Nat /\ n \in 0..N /\ m \in 0..(N - n) /\ n + m = N
    OBVIOUS
  <1>2. /\ x \in Seq(Nat) /\ Len(x) = N /\ \A i \in 1..n : x[i] = u[i]
        /\ \A i \in 1..m : x[n + i] = v[i]
    <2>. HIDE DEF N
    <2>1. /\ x \in Seq(Nat) /\ Len(x) = Len(u) + Len(v)
          /\ \A i \in 1..Len(u) : x[i] = u[i]
          /\ \A i \in 1..Len(v) : x[Len(u) + i] = v[i]
      BY <1>1, Joined
    <2>. HIDE DEF x
    <2>. QED  BY <1>1, <2>1
  <1>3. x \in [1..N -> Nat]
    <2>. HIDE DEF x, N
    <2>. QED  BY <1>2
  <1>. HIDE DEF x
  <1>4. SubSeq(x, 1, n) = u
    <2>. HIDE DEF N
    <2>1. SubSeq(x, 1, n) = [i \in 1..n |-> x[i]]
      BY <1>1, <1>3, Beginning
    <2>. QED  BY <1>2, <2>1
  <1>5. SubSeq(x, n + 1, N) = v
    <2>1. SubSeq(x, n + 1, n + m) = [i \in 1..m |-> x[n + i]]
      <3>. HIDE DEF N
      <3>. QED  BY <1>1, <1>3, Slice
    <2>. QED  BY <1>2, <2>1
  <1>6. Product(x) = Product(SubSeq(x, 1, n)) * Product(SubSeq(x, n + 1, N))
    <2>. HIDE DEF N
    <2>. QED  BY <1>1, <1>3, ProductSplit
  <1>. QED  BY <1>3, <1>4, <1>5, <1>6 DEF x

\* Of positive numbers.
LEMMA PositiveJoined ==
    ASSUME NEW n \in Nat, NEW u \in [1..n -> Positive], NEW m \in Nat, NEW v \in [1..m -> Positive]
    PROVE  /\ u \o v \in [1..(n + m) -> Positive]
           /\ Product(u \o v) = Product(u) * Product(v)
  <1>1. u \in [1..n -> Nat] /\ v \in [1..m -> Nat]
    BY DEF Positive
  <1>2. u \o v \in [1..(n + m) -> Nat] /\ Product(u \o v) = Product(u) * Product(v)
    <2>1. \A x \in [1..n -> Nat], y \in [1..m -> Nat] :
             x \o y \in [1..(n + m) -> Nat] /\ Product(x \o y) = Product(x) * Product(y)
      BY ProductJoined
    <2>. QED  BY <1>1, <2>1
  <1>3. u \in Seq(Nat) /\ v \in Seq(Nat) /\ Len(u) = n /\ Len(v) = m
    BY <1>1
  <1>4. /\ \A i \in 1..n : (u \o v)[i] = u[i]
        /\ \A i \in 1..m : (u \o v)[n + i] = v[i]
    BY <1>3, Joined
  <1>. DEFINE x == u \o v
  <1>. HIDE DEF x
  <1>5. \A i \in 1..(n + m) : x[i] \in Positive
    <2>. SUFFICES ASSUME NEW i \in 1..(n + m) PROVE x[i] \in Positive
      OBVIOUS
    <2>1. CASE i <= n
      <3>1. i \in 1..n
        BY <2>1
      <3>. QED  BY <3>1, <1>4 DEF x
    <2>2. CASE i > n
      <3>. DEFINE j == i - n
      <3>1. j \in 1..m /\ n + j = i
        BY <2>2
      <3>. HIDE DEF j
      <3>. QED  BY <3>1, <1>4 DEF x
    <2>. QED  BY <2>1, <2>2
  <1>6. x \in [1..(n + m) -> Positive]
    BY <1>2, <1>5 DEF x
  <1>. QED  BY <1>2, <1>6 DEF x

\* The product of a single factor.
LEMMA ProductOne ==
    ASSUME NEW s \in [1..1 -> Nat]
    PROVE  Product(s) = s[1]
  <1>1. 1 \in Positive /\ 1 - 1 = 0
    BY DEF Positive
  <1>2. Product(s) = Product(SubSeq(s, 1, 0)) * s[1]
    BY <1>1, ProductStep
  <1>3. SubSeq(s, 1, 0) \in [1..0 -> Nat]
    <2>1. 1 \in Nat /\ 0 \in 0..1
      OBVIOUS
    <2>. QED  BY <2>1, Beginning
  <1>4. Product(SubSeq(s, 1, 0)) = 1
    BY <1>3, ProductEmpty
  <1>5. s[1] \in Nat
    OBVIOUS
  <1>. QED  BY <1>2, <1>4, <1>5

\* Of two.
LEMMA ProductTwo ==
    ASSUME NEW s \in [1..2 -> Nat]
    PROVE  Product(s) = s[1] * s[2]
  <1>1. 2 \in Positive /\ 2 - 1 = 1
    BY DEF Positive
  <1>2. Product(s) = Product(SubSeq(s, 1, 1)) * s[2]
    BY <1>1, ProductStep
  <1>3. SubSeq(s, 1, 1) \in [1..1 -> Nat] /\ SubSeq(s, 1, 1)[1] = s[1]
    <2>1. 2 \in Nat /\ 1 \in 0..2 /\ 1 \in 1..1
      OBVIOUS
    <2>2. SubSeq(s, 1, 1) \in [1..1 -> Nat] /\ SubSeq(s, 1, 1) = [i \in 1..1 |-> s[i]]
      BY <2>1, Beginning
    <2>. QED  BY <2>1, <2>2
  <1>. QED  BY <1>2, <1>3, ProductOne
-----------------------------------------------------------------------------
(* The largest offset *)

\* Larger terms, a larger sum.
LEMMA TotalGrows ==
    ASSUME NEW n \in Nat, NEW a \in [1..n -> Int], NEW b \in [1..n -> Int],
           \A k \in 1..n : a[k] <= b[k]
    PROVE  Total(a, n) <= Total(b, n)
  <1>1. PICK f \in [0..n -> Int] : Sums(f, a, n)
    BY TotalUnfolds
  <1>2. PICK g \in [0..n -> Int] : Sums(g, b, n)
    BY TotalUnfolds
  <1>. DEFINE S == {k \in 0..n : f[k] <= g[k]}
  <1>3. 0 \in S
    BY <1>1, <1>2 DEF Sums
  <1>4. \A k \in 0..(n - 1) : k \in S => k + 1 \in S
    <2>. SUFFICES ASSUME NEW k \in 0..(n - 1), k \in S PROVE k + 1 \in S
      OBVIOUS
    <2>1. k + 1 \in 1..n /\ (k + 1) - 1 = k /\ k \in 0..n /\ k + 1 \in 0..n
      OBVIOUS
    <2>2. f[k + 1] = f[k] + a[k + 1] /\ g[k + 1] = g[k] + b[k + 1]
      BY <1>1, <1>2, <2>1 DEF Sums
    <2>3. a[k + 1] <= b[k + 1] /\ a[k + 1] \in Int /\ b[k + 1] \in Int
      BY <2>1
    <2>. QED  BY <2>1, <2>2, <2>3
  <1>5. n \in S
    <2>1. n \in 0..n
      OBVIOUS
    <2>. HIDE DEF S
    <2>2. 0..n \subseteq S
      BY <1>3, <1>4, Induction
    <2>. QED  BY <2>1, <2>2
  <1>. QED  BY <1>1, <1>2, <1>5 DEF Sums

\* A sum but for its last term.
LEMMA TotalStep ==
    ASSUME NEW n \in Nat, NEW s \in [1..(n + 1) -> Int]
    PROVE  Total(s, n + 1) = Total([i \in 1..n |-> s[i]], n) + s[n + 1]
  <1>1. n + 1 \in 1..(n + 1)
    OBVIOUS
  <1>2. Total(s, n + 1)
            = Total([i \in 1..n |-> s[IF i < n + 1 THEN i ELSE i + 1]], n) + s[n + 1]
    BY <1>1, TotalWithout
  <1>3. [i \in 1..n |-> s[IF i < n + 1 THEN i ELSE i + 1]] = [i \in 1..n |-> s[i]]
    <2>1. \A i \in 1..n : i < n + 1
      OBVIOUS
    <2>. QED  BY <2>1
  <1>. QED  BY <1>2, <1>3

\* An offset is no larger than that of the last position of every axis.
LEMMA DecodeBound ==
    ASSUME NEW n \in Nat, NEW dims \in [1..n -> Positive], NEW strides \in [1..n -> Nat],
           NEW g \in Nat
    PROVE  Decode(g, dims, strides) <= Total([k \in 1..n |-> (dims[k] - 1) * strides[k]], n)
  <1>. DEFINE t == [to_shape |-> dims, perm_strides |-> strides]
  <1>1. t.to_shape = dims /\ t.perm_strides = strides
    OBVIOUS
  <1>. HIDE DEF t
  <1>2. Steppable(t, n) /\ Len(dims) = n /\ Len(strides) = n
    BY <1>1 DEF Steppable
  <1>3. PICK left \in [0..n -> Nat] : Counts(left, t, n, g)
    BY <1>2, OdoUnfolds
  <1>. DEFINE e == [k \in 1..n |-> (left[k] % dims[k]) * strides[k]]
              b == [k \in 1..n |-> (dims[k] - 1) * strides[k]]
  <1>4. OdoInit(t, n, g).base = Total(e, n)
    BY <1>1, <1>3 DEF Counts
  <1>5. SubSeq(dims, 1, n) = dims /\ SubSeq(strides, 1, n) = strides
    <2>1. SubSeq(dims, 1, n) = [i \in 1..n |-> dims[i]]
      BY DEF Positive
    <2>2. SubSeq(strides, 1, n) = [i \in 1..n |-> strides[i]]
      OBVIOUS
    <2>. QED  BY <2>1, <2>2
  <1>6. Decode(g, dims, strides) = Total(e, n)
    BY <1>1, <1>2, <1>4, <1>5, OdometerDecodes
  <1>7. \A k \in 1..n : e[k] \in Int /\ b[k] \in Int /\ e[k] <= b[k]
    <2>. SUFFICES ASSUME NEW k \in 1..n
                  PROVE  /\ (left[k] % dims[k]) * strides[k] \in Int
                         /\ (dims[k] - 1) * strides[k] \in Int
                         /\ (left[k] % dims[k]) * strides[k] <= (dims[k] - 1) * strides[k]
      OBVIOUS
    <2>. DEFINE u == left[k]
                v == dims[k]
                w == strides[k]
                x == u % v
    <2>1. u \in Nat /\ v \in Positive /\ w \in Nat
      OBVIOUS
    <2>. HIDE DEF u, v, w
    <2>2. x \in 0..(v - 1) /\ v - 1 \in Nat
      BY <2>1, Quotient DEF Positive
    <2>. HIDE DEF x
    <2>3. x * w \in Int /\ (v - 1) * w \in Int /\ x * w <= (v - 1) * w
      <3>1. x \in Nat /\ x <= v - 1
        BY <2>2
      <3>2. x * w <= (v - 1) * w
        BY <2>1, <2>2, <3>1, Monotone
      <3>. QED  BY <2>1, <2>2, <3>1, <3>2
    <2>. QED  BY <2>3 DEF x, u, v, w
  <1>8. e \in [1..n -> Int] /\ b \in [1..n -> Int]
    BY <1>7
  <1>. HIDE DEF e, b
  <1>9. Total(e, n) <= Total(b, n)
    BY <1>7, <1>8, TotalGrows
  <1>. QED  BY <1>6, <1>9 DEF b

\* The strides of a shape, axis by axis: that of the last one is 1.
LEMMA RowStridesStep ==
    ASSUME NEW n \in Nat, NEW s \in [1..n -> Positive]
    PROVE  /\ RowStrides(s) \in [1..n -> Positive]
           /\ n # 0 => RowStrides(s)[n] = 1
           /\ \A k \in 1..(n - 1) : RowStrides(s)[k] = s[k + 1] * RowStrides(s)[k + 1]
           /\ n # 0 => Product(s) = s[1] * RowStrides(s)[1]
  <1>. DEFINE R == RowStrides(s)
              tail(k) == SubSeq(s, k + 1, n)
  <1>1. Len(s) = n /\ DOMAIN s = 1..n
    OBVIOUS
  <1>2. R = [k \in 1..n |-> Product(tail(k))]
    BY <1>1 DEF RowStrides
  <1>3. \A k \in 0..n : /\ tail(k) \in [1..(n - k) -> Positive]
                        /\ tail(k) = [i \in 1..(n - k) |-> s[k + i]]
    <2>. SUFFICES ASSUME NEW k \in 0..n
                  PROVE  /\ tail(k) \in [1..(n - k) -> Positive]
                         /\ tail(k) = [i \in 1..(n - k) |-> s[k + i]]
      OBVIOUS
    <2>1. s \in [1..n -> Nat] /\ n - k \in 0..(n - k) /\ k + (n - k) = n
      BY DEF Positive
    <2>2. tail(k) = [i \in 1..(n - k) |-> s[k + i]]
      BY <2>1, Slice
    <2>3. \A i \in 1..(n - k) : k + i \in 1..n
      OBVIOUS
    <2>. QED  BY <2>2, <2>3
  <1>4. \A k \in 0..n : Product(tail(k)) \in Positive
    <2>. SUFFICES ASSUME NEW k \in 0..n PROVE Product(tail(k)) \in Positive
      OBVIOUS
    <2>1. n - k \in Nat
      OBVIOUS
    <2>. HIDE DEF tail
    <2>. QED  BY <1>3, <2>1, ProductPositive
  <1>5. \A k \in 1..n : Product(tail(k - 1)) = s[k] * Product(tail(k))
    <2>. SUFFICES ASSUME NEW k \in 1..n PROVE Product(tail(k - 1)) = s[k] * Product(tail(k))
      OBVIOUS
    <2>. DEFINE m == n - k + 1
                x == tail(k - 1)
    <2>1. /\ k - 1 \in 0..n /\ k \in 0..n /\ n - (k - 1) = m /\ m \in Nat /\ 1 \in 0..m
          /\ m - 1 = n - k /\ 1 \in 1..m /\ (k - 1) + 1 = k /\ m - 1 \in 0..(m - 1) /\ 1 + (m - 1) = m
          /\ 1 \in 0..1 /\ m - 1 \in Nat
      OBVIOUS
    <2>2. x \in [1..m -> Positive] /\ x = [i \in 1..m |-> s[(k - 1) + i]]
      BY <1>3, <2>1
    <2>3. tail(k) = [i \in 1..(m - 1) |-> s[k + i]]
      BY <1>3, <2>1
    <2>. HIDE DEF x, m, tail
    <2>4. x \in [1..m -> Nat]
      BY <2>2 DEF Positive
    <2>5. Product(x) = Product(SubSeq(x, 1, 1)) * Product(SubSeq(x, 1 + 1, m))
      BY <2>1, <2>4, ProductSplit
    <2>6. SubSeq(x, 1, 1) \in [1..1 -> Nat] /\ SubSeq(x, 1, 1) = [i \in 1..1 |-> x[i]]
      BY <2>1, <2>4, Beginning
    <2>7. Product(SubSeq(x, 1, 1)) = s[k]
      <3>1. Product(SubSeq(x, 1, 1)) = SubSeq(x, 1, 1)[1]
        BY <2>6, ProductOne
      <3>2. SubSeq(x, 1, 1)[1] = x[1] /\ x[1] = s[(k - 1) + 1]
        BY <2>1, <2>2, <2>6
      <3>. QED  BY <2>1, <3>1, <3>2
    <2>8. SubSeq(x, 1 + 1, 1 + (m - 1)) = [i \in 1..(m - 1) |-> x[1 + i]]
      BY <2>1, <2>4, Slice
    <2>9. SubSeq(x, 1 + 1, m) = tail(k)
      <3>1. \A i \in 1..(m - 1) : 1 + i \in 1..m /\ (k - 1) + (1 + i) = k + i
        BY <2>1
      <3>. QED  BY <2>1, <2>2, <2>3, <2>8, <3>1
    <2>. QED  BY <2>5, <2>7, <2>9 DEF x
  <1>6. n # 0 => Product(tail(n)) = 1
    <2>1. n \in 0..n /\ n - n = 0
      OBVIOUS
    <2>2. tail(n) \in [1..0 -> Positive]
      BY <1>3, <2>1
    <2>. HIDE DEF tail
    <2>3. tail(n) \in [1..0 -> Nat]
      BY <2>2 DEF Positive
    <2>. QED  BY <2>3, ProductEmpty
  <1>7. tail(0) = s
    BY <1>3
  <1>. HIDE DEF R, tail
  <1>8. R \in [1..n -> Positive] /\ (n # 0 => R[n] = 1)
    BY <1>2, <1>4, <1>6
  <1>9. \A k \in 1..(n - 1) : R[k] = s[k + 1] * R[k + 1]
    <2>. SUFFICES ASSUME NEW k \in 1..(n - 1) PROVE R[k] = s[k + 1] * R[k + 1]
      OBVIOUS
    <2>1. k + 1 \in 1..n /\ k \in 1..n /\ (k + 1) - 1 = k
      OBVIOUS
    <2>. QED  BY <1>2, <1>5, <2>1
  <1>10. n # 0 => Product(s) = s[1] * R[1]
    BY <1>2, <1>5, <1>7
  <1>. QED  BY <1>8, <1>9, <1>10 DEF R

\* The last element of a shape is the last position of every axis.
LEMMA RowStridesTotal ==
    ASSUME NEW n \in Nat, NEW s \in [1..n -> Positive]
    PROVE  Total([k \in 1..n |-> (s[k] - 1) * RowStrides(s)[k]], n) = Product(s) - 1
  <1>. DEFINE R == RowStrides(s)
              e == [k \in 1..n |-> (s[k] - 1) * R[k]]
              P == Product(s)
  <1>1. /\ R \in [1..n -> Positive]
        /\ n # 0 => R[n] = 1
        /\ \A k \in 1..(n - 1) : R[k] = s[k + 1] * R[k + 1]
        /\ n # 0 => P = s[1] * R[1]
    BY RowStridesStep
  <1>2. P \in Positive
    BY ProductPositive
  <1>. HIDE DEF R, P
  <1>3. \A k \in 1..n : e[k] \in Int /\ e[k] = s[k] * R[k] - R[k] /\ s[k] * R[k] \in Nat
    <2>. SUFFICES ASSUME NEW k \in 1..n
                  PROVE  /\ (s[k] - 1) * R[k] \in Int /\ (s[k] - 1) * R[k] = s[k] * R[k] - R[k]
                         /\ s[k] * R[k] \in Nat
      OBVIOUS
    <2>. DEFINE x == s[k]
                y == R[k]
    <2>1. x \in Positive /\ y \in Positive
      BY <1>1
    <2>2. x \in Nat /\ y \in Nat
      BY <2>1 DEF Positive
    <2>. HIDE DEF x, y
    <2>3. (x - 1) * y \in Int /\ (x - 1) * y = x * y - y /\ x * y \in Nat
      BY <2>2
    <2>. QED  BY <2>3 DEF x, y
  <1>4. e \in [1..n -> Int]
    BY <1>3
  <1>. HIDE DEF e
  <1>5. PICK f \in [0..n -> Int] : Sums(f, e, n)
    BY <1>4, TotalUnfolds
  <1>. DEFINE S == {k \in 0..n : k # 0 => f[k] = P - R[k]}
  <1>6. 0 \in S
    OBVIOUS
  <1>7. \A k \in 0..(n - 1) : k \in S => k + 1 \in S
    <2>. SUFFICES ASSUME NEW k \in 0..(n - 1), k \in S PROVE k + 1 \in S
      OBVIOUS
    <2>. DEFINE j == k + 1
    <2>1. j \in 1..n /\ j - 1 = k /\ k \in 0..n /\ j \in 0..n /\ (k # 0 => k \in 1..(n - 1))
      OBVIOUS
    <2>2. k # 0 => f[k] = P - R[k]
      OBVIOUS
    <2>. HIDE DEF j
    <2>3. f[j] = f[k] + e[j] /\ e[j] = s[j] * R[j] - R[j] /\ s[j] * R[j] \in Nat /\ R[j] \in Nat
      <3>1. f[j] = f[k] + e[j]
        BY <1>5, <2>1 DEF Sums
      <3>2. R[j] \in Positive
        BY <1>1, <2>1
      <3>. QED  BY <1>3, <2>1, <3>1, <3>2 DEF Positive
    <2>4. f[k] = P - s[j] * R[j]
      <3>1. CASE k = 0
        <4>1. f[0] = 0 /\ n # 0 /\ j = 1
          BY <1>5, <2>1, <3>1 DEF Sums, j
        <4>2. P = s[j] * R[j]
          BY <1>1, <4>1
        <4>. QED  BY <4>1, <4>2, <2>3, <3>1
      <3>2. CASE k # 0
        <4>1. R[k] = s[j] * R[j]
          BY <1>1, <2>1, <3>2 DEF j
        <4>. QED  BY <4>1, <2>2, <3>2
      <3>. QED  BY <3>1, <3>2
    <2>5. f[j] = P - R[j]
      <3>. DEFINE z == s[j] * R[j]
      <3>1. f[k] = P - z /\ f[j] = f[k] + (z - R[j]) /\ z \in Nat /\ R[j] \in Nat /\ P \in Nat
        BY <1>2, <2>3, <2>4 DEF Positive
      <3>. HIDE DEF z
      <3>. QED  BY <3>1
    <2>. QED  BY <2>1, <2>5 DEF j
  <1>8. n \in S
    <2>1. n \in 0..n
      OBVIOUS
    <2>. HIDE DEF S
    <2>2. 0..n \subseteq S
      BY <1>6, <1>7, Induction
    <2>. QED  BY <2>1, <2>2
  <1>9. CASE n = 0
    <2>1. P = 1
      <3>1. s \in [1..0 -> Nat]
        BY <1>9 DEF Positive
      <3>. QED  BY <3>1, ProductEmpty DEF P
    <2>2. f[n] = 0
      BY <1>5, <1>9 DEF Sums
    <2>. QED  BY <2>1, <2>2, <1>5 DEF Sums, e, P, R
  <1>10. CASE n # 0
    <2>1. f[n] = P - R[n] /\ R[n] = 1
      BY <1>1, <1>8, <1>10
    <2>2. f[n] = P - 1
      BY <2>1
    <2>. QED  BY <2>2, <1>5 DEF Sums, e, P, R
  <1>. QED  BY <1>9, <1>10
\* A transpose can be stepped through, and its strides are those of its axes.
LEMMA TransposeSteps ==
    ASSUME NEW t, IsTranspose(t)
    PROVE  /\ t.perm_strides \in [1..Dimensions(t) -> Positive]
           /\ \A k \in 1..Dimensions(t) :
                 /\ t.to_shape[k] = t.from_shape[t.perm[k]]
                 /\ t.perm_strides[k] = RowStrides(t.from_shape)[t.perm[k]]
           /\ \A n \in 0..Dimensions(t) : Steppable(t, n)
  <1>. DEFINE n == Dimensions(t)
              R == RowStrides(t.from_shape)
  <1>1. /\ n \in Nat /\ t.perm \in [1..n -> 1..n] /\ t.from_shape \in [1..n -> Positive]
        /\ t.to_shape \in [1..n -> Positive] /\ Len(t.to_shape) = n
    BY TransposeAxes
  <1>2. t.perm_strides = Permuted(R, t.perm) /\ t.to_shape = Permuted(t.from_shape, t.perm)
    BY DEF IsTranspose
  <1>. HIDE DEF n
  <1>3. R \in [1..n -> Positive]
    BY <1>1, RowStridesStep
  <1>. HIDE DEF R
  <1>4. DOMAIN t.perm = 1..n /\ \A k \in 1..n : t.perm[k] \in 1..n
    BY <1>1
  <1>5. t.perm_strides = [k \in 1..n |-> R[t.perm[k]]]
        /\ t.to_shape = [k \in 1..n |-> t.from_shape[t.perm[k]]]
    BY <1>2, <1>4 DEF Permuted
  <1>6. t.perm_strides \in [1..n -> Positive] /\ t.perm_strides \in [1..n -> Nat]
    BY <1>3, <1>4, <1>5 DEF Positive
  <1>7. \A k \in 0..n : Steppable(t, k)
    BY <1>1, <1>6 DEF Steppable
  <1>. QED  BY <1>5, <1>6, <1>7 DEF n, R

\* The last element is the last position of every axis, in whatever order.
LEMMA LastElement ==
    ASSUME NEW t, IsTranspose(t)
    PROVE  Total([k \in 1..Dimensions(t) |-> (t.to_shape[k] - 1) * t.perm_strides[k]],
                 Dimensions(t)) = t.N - 1
  <1>. DEFINE n == Dimensions(t)
              s == t.from_shape
              R == RowStrides(s)
              perm == t.perm
              e == [p \in 1..n |-> (s[p] - 1) * R[p]]
              v == [p \in Positive |-> IF p <= n THEN e[p] ELSE 0]
              id == Identity(n)
  <1>1. /\ n \in Nat /\ s \in [1..n -> Positive] /\ perm \in [1..n -> 1..n] /\ Len(s) = n
        /\ Lists(perm, 1..n) /\ t.N = Product(s) /\ Len(perm) = n
    BY TransposeAxes DEF IsTranspose, Turns, Dimensions
  <1>2. /\ \A k \in 1..n : t.to_shape[k] = s[perm[k]] /\ t.perm_strides[k] = R[perm[k]]
    BY TransposeSteps
  <1>. HIDE DEF n, s, perm
  <1>3. R \in [1..n -> Positive] /\ Total(e, n) = Product(s) - 1
    BY <1>1, RowStridesStep, RowStridesTotal
  <1>. HIDE DEF R
  <1>4. \A p \in 1..n : p \in Positive /\ p <= n
    BY <1>1 DEF Positive
  <1>5. \A p \in 1..n : e[p] \in Nat /\ e[p] = (s[p] - 1) * R[p]
    <2>. SUFFICES ASSUME NEW p \in 1..n PROVE (s[p] - 1) * R[p] \in Nat
      OBVIOUS
    <2>1. s[p] \in Positive /\ R[p] \in Positive
      BY <1>1, <1>3
    <2>2. s[p] - 1 \in Nat /\ R[p] \in Nat
      BY <2>1 DEF Positive
    <2>. QED  BY <2>2
  <1>. HIDE DEF e
  <1>6. v \in [Positive -> Nat] /\ \A p \in 1..n : v[p] = e[p]
    <2>1. \A p \in Positive : p <= n => p \in 1..n
      BY <1>1 DEF Positive
    <2>2. \A p \in Positive : v[p] \in Nat
      BY <1>5, <2>1
    <2>. QED  BY <1>4, <2>2
  <1>7. id \in Seq(Positive) /\ Len(id) = n /\ \A i \in 1..n : id[i] = i
    BY <1>1, <1>4 DEF Identity
  <1>8. Lists(id, 1..n)
    BY <1>4, <1>7 DEF Lists
  <1>. HIDE DEF v, id
  <1>9. Total(Along(id, v), Len(id)) = Total(Along(perm, v), Len(id))
    BY <1>1, <1>6, <1>8, ListingsAgree
  <1>10. Along(id, v) = e
    <2>1. Along(id, v) = [i \in 1..n |-> e[i]]
      BY <1>6, <1>7 DEF Along
    <2>. QED  BY <2>1 DEF e
  <1>11. Along(perm, v) = [k \in 1..n |-> (t.to_shape[k] - 1) * t.perm_strides[k]]
    <2>1. \A k \in 1..n : perm[k] \in 1..n
      BY <1>1
    <2>2. \A k \in 1..n : v[perm[k]] = (t.to_shape[k] - 1) * t.perm_strides[k]
      BY <1>2, <1>5, <1>6, <2>1
    <2>. QED  BY <1>1, <2>2 DEF Along
  <1>. QED  BY <1>1, <1>3, <1>7, <1>9, <1>10, <1>11 DEF n

\* With two inner axes addressed apart, every element is one of the tensor's.
LEMMA InnerAxesBound ==
    ASSUME NEW t, IsTranspose(t), NEW b \in Nat, Dimensions(t) = b + 2, NEW g \in Nat,
           NEW x \in 0..(t.to_shape[b + 1] - 1), NEW y \in 0..(t.to_shape[b + 2] - 1)
    PROVE  LET base == Decode(g, SubSeq(t.to_shape, 1, b), SubSeq(t.perm_strides, 1, b))
           IN  /\ base \in Nat
               /\ base + x * t.perm_strides[b + 1] + y * t.perm_strides[b + 2] < t.N
  <1>. DEFINE n == b + 2
              D == t.to_shape
              S == t.perm_strides
              e == [k \in 1..n |-> (D[k] - 1) * S[k]]
              d == SubSeq(D, 1, b)
              w == SubSeq(S, 1, b)
              low == Decode(g, d, w)
  <1>1. D \in [1..n -> Positive] /\ S \in [1..n -> Positive] /\ Dimensions(t) = n
    BY TransposeAxes, TransposeSteps
  <1>2. Total(e, n) = t.N - 1
    BY <1>1, LastElement
  <1>3. /\ n \in Nat /\ b \in 0..n /\ b + 1 \in 1..n /\ b + 2 \in 1..n /\ b + 1 \in Nat
        /\ (b + 1) + 1 = n /\ \A k \in 1..b : k \in 1..n /\ k \in 1..(b + 1)
        /\ \A k \in 1..(b + 1) : k \in 1..n
    OBVIOUS
  <1>. HIDE DEF D, S
  <1>4. \A k \in 1..n : e[k] \in Nat
    <2>. SUFFICES ASSUME NEW k \in 1..n PROVE (D[k] - 1) * S[k] \in Nat
      OBVIOUS
    <2>1. D[k] \in Positive /\ S[k] \in Positive
      BY <1>1
    <2>2. D[k] - 1 \in Nat /\ S[k] \in Nat
      BY <2>1 DEF Positive
    <2>. QED  BY <2>2
  <1>5. d = [k \in 1..b |-> D[k]] /\ w = [k \in 1..b |-> S[k]]
    <2>. HIDE DEF n
    <2>1. D \in [1..n -> Nat] /\ S \in [1..n -> Nat]
      BY <1>1 DEF Positive
    <2>. QED  BY <1>3, <2>1, Beginning
  <1>6. d \in [1..b -> Positive] /\ w \in [1..b -> Nat]
    <2>. HIDE DEF n, d, w
    <2>1. \A k \in 1..b : D[k] \in Positive /\ S[k] \in Positive
      BY <1>1, <1>3
    <2>2. \A k \in 1..b : D[k] \in Positive /\ S[k] \in Nat
      BY <2>1 DEF Positive
    <2>. QED  BY <1>5, <2>2
  <1>. DEFINE e1 == [k \in 1..(b + 1) |-> e[k]]
              e0 == [k \in 1..b |-> e1[k]]
  <1>7. low <= Total(e0, b) /\ low \in Nat
    <2>1. Decode(g, d, w) <= Total([k \in 1..b |-> (d[k] - 1) * w[k]], b) /\ low \in Nat
      <3>. HIDE DEF d, w
      <3>. QED  BY <1>6, DecodeBound, DecodeNat
    <2>2. [k \in 1..b |-> (d[k] - 1) * w[k]] = e0
      <3>. HIDE DEF d, w
      <3>. QED  BY <1>3, <1>5
    <2>. QED  BY <2>1, <2>2
  <1>8. Total(e, n) = Total(e1, b + 1) + e[b + 2] /\ Total(e1, b + 1) = Total(e0, b) + e[b + 1]
    <2>. DEFINE m == b + 1
    <2>1. /\ m \in Nat /\ m + 1 = n /\ m = b + 1 /\ b + 2 = n
          /\ \A k \in 1..m : k \in 1..n
      OBVIOUS
    <2>2. e \in [1..n -> Int] /\ e1 = [k \in 1..m |-> e[k]]
      BY <1>4
    <2>. HIDE DEF e, n, m
    <2>3. e1 \in [1..m -> Int] /\ e1[m] = e[m]
      BY <2>1, <2>2
    <2>. HIDE DEF e1
    <2>4. Total(e, m + 1) = Total([k \in 1..m |-> e[k]], m) + e[m + 1]
      BY <2>1, <2>2, TotalStep
    <2>5. Total(e1, b + 1) = Total([k \in 1..b |-> e1[k]], b) + e1[b + 1]
      BY <2>1, <2>3, TotalStep
    <2>. QED  BY <2>1, <2>2, <2>3, <2>4, <2>5
  <1>9. x * S[b + 1] \in Nat /\ x * S[b + 1] <= e[b + 1]
    <2>. DEFINE u == D[b + 1]
                v == S[b + 1]
    <2>1. u \in Positive /\ v \in Positive /\ e[b + 1] = (u - 1) * v /\ x \in 0..(u - 1)
      BY <1>1, <1>3 DEF D
    <2>. HIDE DEF u, v, e
    <2>2. u - 1 \in Nat /\ v \in Nat /\ x \in Nat /\ x <= u - 1
      BY <2>1 DEF Positive
    <2>3. x * v <= (u - 1) * v
      BY <2>2, Monotone
    <2>. QED  BY <2>1, <2>2, <2>3 DEF v
  <1>10. y * S[b + 2] \in Nat /\ y * S[b + 2] <= e[b + 2]
    <2>. DEFINE u == D[b + 2]
                v == S[b + 2]
    <2>1. u \in Positive /\ v \in Positive /\ e[b + 2] = (u - 1) * v /\ y \in 0..(u - 1)
      BY <1>1, <1>3 DEF D
    <2>. HIDE DEF u, v, e
    <2>2. u - 1 \in Nat /\ v \in Nat /\ y \in Nat /\ y <= u - 1
      BY <2>1 DEF Positive
    <2>3. y * v <= (u - 1) * v
      BY <2>2, Monotone
    <2>. QED  BY <2>1, <2>2, <2>3 DEF v
  <1>11. Total(e0, b) \in Int /\ e[b + 1] \in Nat /\ e[b + 2] \in Nat
    <2>1. e[b + 1] \in Nat /\ e[b + 2] \in Nat
      BY <1>3, <1>4
    <2>2. e0 \in [1..b -> Int]
      <3>1. \A k \in 1..b : e0[k] = e[k] /\ e[k] \in Nat
        BY <1>3, <1>4
      <3>. HIDE DEF e
      <3>2. e0 = [k \in 1..b |-> e0[k]]
        OBVIOUS
      <3>. HIDE DEF e0
      <3>. QED  BY <3>1, <3>2
    <2>. HIDE DEF e0
    <2>3. PICK f \in [0..b -> Int] : Sums(f, e0, b)
      BY <2>2, TotalUnfolds
    <2>4. Total(e0, b) = f[b] /\ b \in 0..b
      BY <2>3 DEF Sums
    <2>. QED  BY <2>1, <2>3, <2>4
  <1>. DEFINE p == x * S[b + 1]
              q == y * S[b + 2]
              tot == Total(e0, b)
  <1>12. /\ p \in Nat /\ q \in Nat /\ tot \in Int /\ low \in Nat
         /\ p <= e[b + 1] /\ q <= e[b + 2] /\ low <= tot
         /\ t.N - 1 = (tot + e[b + 1]) + e[b + 2]
         /\ e[b + 1] \in Nat /\ e[b + 2] \in Nat
    BY <1>2, <1>7, <1>8, <1>9, <1>10, <1>11
  <1>. HIDE DEF p, q, tot, low, e
  <1>13. low \in Nat /\ low + p + q < t.N
    <2>1. t.N \in Int
      BY TransposeAxes DEF Positive
    <2>. QED  BY <1>12, <2>1
  <1>. QED  BY <1>13 DEF low, p, q, D, S, d, w

-----------------------------------------------------------------------------
(* The constants of the device *)

\* The constants are positive.
LEMMA Constants ==
    /\ {Cores, UbBytes, Block, DmaBytes, LaneGrain, TileCap, EltTile, LineElems}
            \subseteq Positive
    /\ Lanes \in Positive
  <1>1. {Cores, UbBytes, Block, DmaBytes, LaneGrain, TileCap, EltTile, LineElems}
            \subseteq Positive
    BY LayoutAssumption DEF Positive
  <1>2. Lanes \in Positive
    BY <1>1 DEF Lanes, Positive
  <1>. QED  BY <1>1, <1>2

\* Rounding up reaches the number, with a multiple.
LEMMA RoundUpReaches ==
    ASSUME NEW a \in Nat, NEW b \in Positive
    PROVE  /\ CeilDiv(a, b) \in Nat
           /\ RoundUp(a, b) \in Nat /\ RoundUp(a, b) >= a
           /\ RoundUp(a, b) = CeilDiv(a, b) * b
  <1>1. CeilDiv(a, b) \in Nat
    BY DEF CeilDiv, Positive
  <1>2. CeilDiv(a, b) * b \in Nat /\ CeilDiv(a, b) * b >= a
    BY DEF CeilDiv, Positive
  <1>. QED  BY <1>1, <1>2 DEF RoundUp

-----------------------------------------------------------------------------
(* The spans of the lanes *)

\* The spans of all lanes are as long as each other and long enough together.
SpansOfLength(chunk, lanes, n, grain) ==
    /\ chunk \in Nat
    /\ chunk * lanes >= n
    /\ \A lane \in Nat :
          SpanOf(lanes, lane, n, grain) =
              (lane * chunk)..(Least((lane + 1) * chunk, n) - 1)

\* They are a multiple of the grain.
LEMMA SpanForm ==
    ASSUME NEW lanes \in Positive, NEW grain \in Positive, NEW n \in Nat
    PROVE  \E q \in Nat : SpansOfLength(q * grain, lanes, n, grain)
  <1>. DEFINE part == CeilDiv(n, lanes)
              q == CeilDiv(part, grain)
              chunk == q * grain
  <1>1. part \in Nat /\ part * lanes >= n
    BY RoundUpReaches DEF RoundUp
  <1>. HIDE DEF part
  <1>2. q \in Nat /\ chunk \in Nat /\ chunk >= part /\ RoundUp(part, grain) = chunk
    BY <1>1, RoundUpReaches
  <1>. HIDE DEF q
  <1>3. chunk * lanes >= n
    <2>. HIDE DEF chunk
    <2>1. chunk * lanes >= part * lanes
      <3>1. chunk - part \in Nat /\ chunk = part + (chunk - part)
        BY <1>1, <1>2
      <3>2. PICK e \in Nat : chunk = part + e
        BY <3>1
      <3>3. e * lanes \in Nat /\ part * lanes \in Nat
        BY <1>1, <3>2 DEF Positive
      <3>4. chunk * lanes = part * lanes + e * lanes
        BY <1>1, <3>2 DEF Positive
      <3>. QED  BY <3>3, <3>4
    <2>. QED  BY <1>1, <1>2, <2>1 DEF Positive
  <1>4. \A lane \in Nat :
            SpanOf(lanes, lane, n, grain) =
                (lane * chunk)..(Least((lane + 1) * chunk, n) - 1)
    BY <1>2 DEF SpanOf, part
  <1>. QED  BY <1>2, <1>3, <1>4 DEF SpansOfLength

\* A span begins where the one before it would end.
LEMMA SpanMember ==
    ASSUME NEW chunk \in Nat, NEW lane \in Nat, NEW n \in Nat,
           NEW x \in (lane * chunk)..(Least((lane + 1) * chunk, n) - 1)
    PROVE  /\ chunk \in Positive /\ x \in 0..(n - 1)
           /\ x \div chunk = lane
  <1>. DEFINE from == lane * chunk
  <1>1. from \in Nat /\ (lane + 1) * chunk = from + chunk
    OBVIOUS
  <1>2. x \in Nat /\ from <= x /\ x < from + chunk /\ x < n
    <2>. HIDE DEF from
    <2>. QED  BY <1>1 DEF Least
  <1>3. chunk \in Positive /\ x - from \in 0..(chunk - 1) /\ x = from + (x - from)
    <2>. HIDE DEF from
    <2>. QED  BY <1>1, <1>2 DEF Positive
  <1>4. PICK r \in 0..(chunk - 1) : x = lane * chunk + r
    BY <1>3
  <1>. QED  BY <1>2, <1>3, <1>4, DivisionUnique

(***************************************************************************)
(* However many lanes there are, and whatever their grain: every one of n  *)
(* units belongs to one lane, and no lane takes anything else.  This is    *)
(* the work split of all routines on the Vector cores (lane * chunk up to  *)
(* the lesser of (lane + 1) * chunk and n, in transpose.h and              *)
(* elementwise.h).                                                         *)
(***************************************************************************)
THEOREM LanesShare ==
    ASSUME NEW lanes \in Positive, NEW grain \in Positive, NEW n \in Nat
    PROVE  /\ \A x \in 0..(n - 1) :
                  \E lane \in 0..(lanes - 1) : x \in SpanOf(lanes, lane, n, grain)
           /\ \A a, b \in 0..(lanes - 1) :
                  \A x \in SpanOf(lanes, a, n, grain) :
                      /\ x \in 0..(n - 1)
                      /\ x \in SpanOf(lanes, b, n, grain) => a = b
  <1>1. PICK q \in Nat : SpansOfLength(q * grain, lanes, n, grain)
    BY SpanForm
  <1>. DEFINE chunk == q * grain
  <1>2. chunk \in Nat /\ chunk * lanes >= n
    BY <1>1 DEF SpansOfLength
  <1>3. \A lane \in 0..(lanes - 1) :
            /\ lane \in Nat
            /\ SpanOf(lanes, lane, n, grain) =
                  (lane * chunk)..(Least((lane + 1) * chunk, n) - 1)
    BY <1>1 DEF SpansOfLength
  <1>. HIDE DEF chunk
  <1>4. ASSUME NEW x \in 0..(n - 1)
        PROVE  \E lane \in 0..(lanes - 1) : x \in SpanOf(lanes, lane, n, grain)
    <2>. DEFINE lane == x \div chunk
    <2>1. x \in Nat /\ chunk \in Positive
      BY <1>2 DEF Positive
    <2>2. /\ lane \in Nat /\ x % chunk \in 0..(chunk - 1)
          /\ x = lane * chunk + (x % chunk)
      BY <2>1, Quotient, Division
    <2>. HIDE DEF lane
    <2>3. lane * chunk \in Nat /\ (lane + 1) * chunk = lane * chunk + chunk
      BY <2>1, <2>2 DEF Positive
    <2>4. lane * chunk <= x /\ x < lane * chunk + chunk
      BY <2>1, <2>2, <2>3 DEF Positive
    <2>5. lane < lanes
      <3>1. SUFFICES ASSUME lane >= lanes PROVE FALSE
        BY <2>2 DEF Positive
      <3>2. lane * chunk >= chunk * lanes
        <4>1. CASE lane = lanes
          BY <4>1, <2>1, <2>2 DEF Positive
        <4>2. CASE lanes < lane
          <5>1. lanes * chunk + chunk <= lane * chunk
            BY <4>2, <2>1, <2>2, SpansApart DEF Positive
          <5>2. lanes * chunk = chunk * lanes /\ chunk * lanes \in Nat
            BY <2>1 DEF Positive
          <5>. QED  BY <5>1, <5>2, <2>1, <2>3 DEF Positive
        <4>. QED  BY <3>1, <4>1, <4>2, <2>2 DEF Positive
      <3>3. chunk * lanes \in Nat
        BY <2>1 DEF Positive
      <3>. QED  BY <3>2, <3>3, <1>2, <2>3, <2>4
    <2>6. lane \in 0..(lanes - 1)
      BY <2>2, <2>5 DEF Positive
    <2>7. x \in (lane * chunk)..(Least((lane + 1) * chunk, n) - 1)
      <3>. DEFINE from == lane * chunk
      <3>1. from \in Nat /\ from <= x /\ x < from + chunk /\ (lane + 1) * chunk = from + chunk
        BY <2>3, <2>4
      <3>. HIDE DEF from
      <3>. QED  BY <3>1, <1>2 DEF Least, from
    <2>. QED  BY <1>3, <2>6, <2>7
  <1>5. ASSUME NEW a \in 0..(lanes - 1), NEW b \in 0..(lanes - 1),
               NEW x \in SpanOf(lanes, a, n, grain)
        PROVE  /\ x \in 0..(n - 1)
               /\ x \in SpanOf(lanes, b, n, grain) => a = b
    <2>1. ASSUME NEW lane \in 0..(lanes - 1), x \in SpanOf(lanes, lane, n, grain)
          PROVE  x \in 0..(n - 1) /\ x \div chunk = lane
      <3>1. lane \in Nat /\ x \in (lane * chunk)..(Least((lane + 1) * chunk, n) - 1)
        BY <1>3, <2>1
      <3>. QED  BY <1>2, <3>1, SpanMember
    <2>. QED  BY <2>1
  <1>. QED  BY <1>4, <1>5

-----------------------------------------------------------------------------
(* The copies and the elementwise product *)

\* A finite set of stores with an address for each stores no address twice.
LEMMA OneAddressEach ==
    ASSUME NEW S, IsFiniteSet(S), \A s, t \in S : s[2] = t[2] => s = t
    PROVE  StoredOnce(S)
  <1>. DEFINE T == {s[2] : s \in S}
              f == [s \in S |-> s[2]]
  <1>1. f \in Surjection(S, T) /\ f \in Injection(S, T)
    BY DEF Surjection, Injection, IsInjective
  <1>. HIDE DEF f
  <1>2. Cardinality(T) = Cardinality(S)
    <2>. HIDE DEF T
    <2>. QED  BY <1>1, FS_Surjection
  <1>. QED  BY <1>2 DEF StoredOnce

\* Nor do two lanes meet in a line, if every line has one lane.
LEMMA OneLaneEach ==
    ASSUME NEW S, IsFiniteSet(S),
           \A s, t \in S : s[2] \div LineElems = t[2] \div LineElems => s[1] = t[1]
    PROVE  LinesApart(S)
  <1>. DEFINE P == {<<s[1], s[2] \div LineElems>> : s \in S}
              T == {s[2] \div LineElems : s \in S}
              e == [s \in S |-> <<s[1], s[2] \div LineElems>>]
              f == [p \in P |-> p[2]]
  <1>1. e \in Surjection(S, P)
    BY DEF Surjection
  <1>2. f \in Surjection(P, T) /\ f \in Injection(P, T)
    <2>1. f \in [P -> T] /\ \A x \in T : \E p \in P : f[p] = x
      <3>1. ASSUME NEW s \in S PROVE <<s[1], s[2] \div LineElems>> \in P
        OBVIOUS
      <3>2. ASSUME NEW p \in P PROVE f[p] \in T
        OBVIOUS
      <3>. QED  BY <3>1, <3>2
    <2>2. ASSUME NEW p \in P, NEW r \in P, f[p] = f[r] PROVE p = r
      <3>1. PICK s \in S : p = <<s[1], s[2] \div LineElems>>
        OBVIOUS
      <3>2. PICK t \in S : r = <<t[1], t[2] \div LineElems>>
        OBVIOUS
      <3>3. s[2] \div LineElems = t[2] \div LineElems
        BY <2>2, <3>1, <3>2
      <3>. QED  BY <3>1, <3>2, <3>3
    <2>. QED  BY <2>1, <2>2 DEF Surjection, Injection, IsInjective
  <1>. HIDE DEF e, f
  <1>3. Cardinality(T) = Cardinality(P)
    <2>. HIDE DEF P, T
    <2>1. IsFiniteSet(P)
      BY <1>1, FS_Surjection
    <2>. QED  BY <1>2, <2>1, FS_Surjection
  <1>. QED  BY <1>3 DEF LinesApart

\* The lanes' units, with their lane, are finitely many.
LEMMA SharedFinite ==
    ASSUME NEW lanes \in Positive, NEW grain \in Positive, NEW n \in Nat
    PROVE  IsFiniteSet({p \in (0..(lanes - 1)) \X (0..(n - 1)) :
                            p[2] \in SpanOf(lanes, p[1], n, grain)})
  <1>1. IsFiniteSet(0..(lanes - 1)) /\ IsFiniteSet(0..(n - 1))
    BY FS_Interval DEF Positive
  <1>2. IsFiniteSet((0..(lanes - 1)) \X (0..(n - 1)))
    BY <1>1, FS_Product
  <1>. QED  BY <1>2, FS_Subset

\* Lanes that store val[x] at every address x of their spans.
SpanStores(lanes, grain, n, val) ==
    UNION {{<<lane, x, val[x]>> : x \in SpanOf(lanes, lane, n, grain)} :
              lane \in 0..(lanes - 1)}

\* They store every element once.
LEMMA SpanStoresRight ==
    ASSUME NEW lanes \in Positive, NEW grain \in Positive, NEW n \in Nat, NEW val
    PROVE  LET S == SpanStores(lanes, grain, n, val)
           IN  /\ IsFiniteSet(S)
               /\ StoredOnce(S)
               /\ Image(S) = {<<x, val[x]>> : x \in 0..(n - 1)}
               /\ \A s \in S : /\ s[1] \in 0..(lanes - 1)
                               /\ s[2] \in SpanOf(lanes, s[1], n, grain)
  <1>. DEFINE D == {p \in (0..(lanes - 1)) \X (0..(n - 1)) :
                        p[2] \in SpanOf(lanes, p[1], n, grain)}
              S == SpanStores(lanes, grain, n, val)
              f == [p \in D |-> <<p[1], p[2], val[p[2]]>>]
  <1>2. /\ \A x \in 0..(n - 1) :
               \E lane \in 0..(lanes - 1) : x \in SpanOf(lanes, lane, n, grain)
        /\ \A a, b \in 0..(lanes - 1) :
               \A x \in SpanOf(lanes, a, n, grain) :
                   /\ x \in 0..(n - 1)
                   /\ x \in SpanOf(lanes, b, n, grain) => a = b
    BY LanesShare
  <1>4. ASSUME NEW s \in S PROVE \E p \in D : s = <<p[1], p[2], val[p[2]]>>
    <2>1. PICK lane \in 0..(lanes - 1) :
              \E x \in SpanOf(lanes, lane, n, grain) : s = <<lane, x, val[x]>>
      BY DEF SpanStores
    <2>2. PICK x \in SpanOf(lanes, lane, n, grain) : s = <<lane, x, val[x]>>
      BY <2>1
    <2>3. <<lane, x>> \in D
      BY <1>2
    <2>. QED  BY <2>2, <2>3
  <1>5. ASSUME NEW p \in D PROVE <<p[1], p[2], val[p[2]]>> \in S
    <2>1. p[1] \in 0..(lanes - 1) /\ p[2] \in SpanOf(lanes, p[1], n, grain)
      OBVIOUS
    <2>2. <<p[1], p[2], val[p[2]]>> \in {<<p[1], x, val[x]>> : x \in SpanOf(lanes, p[1], n, grain)}
      BY <2>1
    <2>. QED  BY <2>1, <2>2 DEF SpanStores
  <1>6. IsFiniteSet(S)
    <2>1. f \in Surjection(D, S)
      BY <1>4, <1>5 DEF Surjection
    <2>2. IsFiniteSet(D)
      BY SharedFinite
    <2>. HIDE DEF D, S, f
    <2>. QED  BY <2>1, <2>2, FS_Surjection
  <1>7. \A s, u \in S : s[2] = u[2] => s = u
    <2>1. SUFFICES ASSUME NEW p \in D, NEW r \in D, p[2] = r[2] PROVE p[1] = r[1]
      BY <1>4
    <2>. QED  BY <1>2, <2>1
  <1>8. Image(S) = {<<x, val[x]>> : x \in 0..(n - 1)}
    <2>1. Image(S) \subseteq {<<x, val[x]>> : x \in 0..(n - 1)}
      BY <1>4 DEF Image
    <2>2. ASSUME NEW x \in 0..(n - 1) PROVE <<x, val[x]>> \in Image(S)
      <3>1. PICK p \in D : p[2] = x
        <4>1. PICK lane \in 0..(lanes - 1) : x \in SpanOf(lanes, lane, n, grain)
          BY <1>2
        <4>2. <<lane, x>> \in D /\ <<lane, x>>[2] = x
          BY <4>1
        <4>. QED  BY <4>2
      <3>2. PICK s \in S : s = <<p[1], p[2], val[p[2]]>>
        BY <1>5
      <3>. QED  BY <3>1, <3>2 DEF Image
    <2>. QED  BY <2>1, <2>2
  <1>9. \A s \in S : s[1] \in 0..(lanes - 1) /\ s[2] \in SpanOf(lanes, s[1], n, grain)
    BY <1>4
  <1>. HIDE DEF S
  <1>. QED  BY <1>6, <1>7, <1>8, <1>9, OneAddressEach DEF S

\* The lines of the lane-th chunk of k lines are the lane-th k lines.
LEMMA LineOfChunk ==
    ASSUME NEW line \in Positive, NEW k \in Positive, NEW lane \in Nat,
           NEW y \in Nat, y < k * line
    PROVE  ((lane * (k * line) + y) \div line) \div k = lane
  <1>1. PICK v \in Nat, o \in 0..(line - 1) : y = v * line + o
    <2>1. /\ y \div line \in Nat /\ y % line \in 0..(line - 1)
          /\ y = (y \div line) * line + (y % line)
      BY Division, Quotient
    <2>. QED  BY <2>1
  <1>2. v < k
    <2>1. SUFFICES ASSUME v >= k PROVE FALSE
      BY <1>1 DEF Positive
    <2>2. PICK e \in Nat : v = k + e
      <3>1. v - k \in Nat /\ v = k + (v - k)
        BY <2>1, <1>1 DEF Positive
      <3>. QED  BY <3>1
    <2>3. v * line = k * line + e * line /\ e * line \in Nat /\ k * line \in Nat
      BY <2>2 DEF Positive
    <2>. QED  BY <2>3, <1>1
  <1>. DEFINE m == lane * k + v
              z == lane * (k * line) + y
  <1>3. m \in Nat /\ z = m * line + o /\ z \in Nat
    <2>1. m \in Nat /\ m * line \in Nat
      BY <1>1 DEF Positive
    <2>2. z = m * line + o
      BY <1>1 DEF Positive
    <2>. HIDE DEF z, m
    <2>. QED  BY <2>1, <2>2, <1>1 DEF Positive
  <1>4. z \div line = m
    <2>. HIDE DEF z, m
    <2>. QED  BY <1>1, <1>3, DivisionUnique
  <1>5. m \div k = lane
    <2>1. v \in 0..(k - 1)
      BY <1>1, <1>2 DEF Positive
    <2>. QED  BY <1>3, <2>1, DivisionUnique
  <1>. QED  BY <1>4, <1>5

\* If a grain of rows of cc elements is made of whole lines, no line holds
\* elements of the rows of two lanes.
LEMMA LinesOfRows ==
    ASSUME NEW lanes \in Positive, NEW grain \in Positive, NEW n \in Nat,
           NEW line \in Positive, NEW cc \in Positive, NEW w \in Nat,
           grain * cc = w * line
    PROVE  \A a, b \in 0..(lanes - 1) :
              \A r \in SpanOf(lanes, a, n, grain), u \in SpanOf(lanes, b, n, grain) :
                 \A i, j \in 0..(cc - 1) :
                    (r * cc + i) \div line = (u * cc + j) \div line => a = b
  <1>1. PICK q \in Nat : SpansOfLength(q * grain, lanes, n, grain)
    BY SpanForm
  <1>. DEFINE k == q * w
              chunk == q * grain
  <1>2. k \in Nat /\ chunk \in Nat /\ chunk * cc = k * line
    BY DEF Positive
  <1>3. \A lane \in 0..(lanes - 1) :
            /\ lane \in Nat
            /\ SpanOf(lanes, lane, n, grain) =
                  (lane * chunk)..(Least((lane + 1) * chunk, n) - 1)
    BY <1>1 DEF SpansOfLength
  <1>. HIDE DEF k, chunk
  <1>4. ASSUME NEW lane \in 0..(lanes - 1), NEW r \in SpanOf(lanes, lane, n, grain),
               NEW i \in 0..(cc - 1)
        PROVE  ((r * cc + i) \div line) \div k = lane
    <2>1. lane \in Nat /\ r \in (lane * chunk)..(Least((lane + 1) * chunk, n) - 1)
      BY <1>3
    <2>2. chunk \in Positive /\ r \in 0..(n - 1) /\ r \div chunk = lane
      BY <1>2, <2>1, SpanMember
    <2>3. PICK p \in 0..(chunk - 1) : r = lane * chunk + p
      <3>1. r \in Nat
        BY <2>2
      <3>2. r % chunk \in 0..(chunk - 1) /\ r = lane * chunk + (r % chunk)
        BY <2>2, <3>1, Division, Quotient
      <3>. QED  BY <3>2
    <2>. DEFINE y == p * cc + i
    <2>4. y \in Nat /\ y < chunk * cc
      <3>1. p * cc \in Nat /\ p * cc + cc <= chunk * cc
        BY <2>2, <2>3, SpansApart DEF Positive
      <3>2. chunk * cc \in Nat
        BY <1>2 DEF Positive
      <3>. DEFINE from == p * cc
                  whole == chunk * cc
      <3>. HIDE DEF from, whole
      <3>3. from \in Nat /\ whole \in Nat /\ from + cc <= whole
        BY <3>1, <3>2 DEF from, whole
      <3>4. from + i \in Nat /\ from + i < whole
        BY <3>3 DEF Positive
      <3>. QED  BY <3>4 DEF from, whole
    <2>5. r * cc + i = lane * (chunk * cc) + y
      BY <2>1, <2>2, <2>3 DEF Positive
    <2>. HIDE DEF y
    <2>6. k \in Positive
      <3>1. k # 0
        BY <1>2, <2>4 DEF Positive
      <3>. QED  BY <1>2, <3>1 DEF Positive
    <2>7. ((lane * (k * line) + y) \div line) \div k = lane
      BY <1>2, <2>1, <2>4, <2>6, LineOfChunk
    <2>. QED  BY <1>2, <2>5, <2>7
  <1>. QED  BY <1>4

(***************************************************************************)
(* transpose_copy_inline, the identity: every element is stored once, at   *)
(* its own place.                                                          *)
(***************************************************************************)
THEOREM CopyRight ==
    ASSUME NEW t, t.N \in Nat
    PROVE  /\ StoredOnce(transpose_copy(t))
           /\ Image(transpose_copy(t)) = {<<x, x>> : x \in 0..(t.N - 1)}
  <1>. DEFINE n == t.N
              val == [x \in 0..(n - 1) |-> x]
  <1>1. Lanes \in Positive /\ LaneGrain \in Positive /\ n \in Nat
    BY Constants
  <1>2. transpose_copy(t) = SpanStores(Lanes, LaneGrain, n, val)
    <2>1. ASSUME NEW lane \in 0..(Lanes - 1)
          PROVE  {<<lane, x, x>> : x \in SpanOf(Lanes, lane, n, LaneGrain)}
                     = {<<lane, x, val[x]>> : x \in SpanOf(Lanes, lane, n, LaneGrain)}
      <3>1. \A x \in SpanOf(Lanes, lane, n, LaneGrain) : x \in 0..(n - 1)
        BY <1>1, LanesShare
      <3>. QED  BY <3>1
    <2>. QED  BY <2>1 DEF transpose_copy, SpanStores, LaneSet
  <1>3. {<<x, val[x]>> : x \in 0..(n - 1)} = {<<x, x>> : x \in 0..(n - 1)}
    OBVIOUS
  <1>. HIDE DEF val
  <1>. QED  BY <1>1, <1>2, <1>3, SpanStoresRight

(***************************************************************************)
(* elementwise_mul_inline: every product is stored once, and as a TILE is  *)
(* made of whole lines no two lanes store into one line of the output,     *)
(* which the comment in front of BCAST_LINE_ELEMS requires of the products.*)
(***************************************************************************)
THEOREM ElementwiseRight ==
    ASSUME NEW n \in Nat
    PROVE  LET S == elementwise_mul(n)
           IN  /\ StoredOnce(S) /\ LinesApart(S)
               /\ Image(S) = {<<x, <<x, x>>>> : x \in 0..(n - 1)}
  <1>. DEFINE val == [x \in 0..(n - 1) |-> <<x, x>>]
              S == elementwise_mul(n)
  <1>1. Cores \in Positive /\ EltTile \in Positive /\ LineElems \in Positive
    BY Constants
  <1>2. S = SpanStores(Cores, EltTile, n, val)
    <2>1. ASSUME NEW lane \in 0..(Cores - 1)
          PROVE  {<<lane, x, <<x, x>>>> : x \in SpanOf(Cores, lane, n, EltTile)}
                     = {<<lane, x, val[x]>> : x \in SpanOf(Cores, lane, n, EltTile)}
      <3>1. \A x \in SpanOf(Cores, lane, n, EltTile) : x \in 0..(n - 1)
        BY <1>1, LanesShare
      <3>. QED  BY <3>1
    <2>. DEFINE Stored(lane) == {<<lane, x, <<x, x>>>> : x \in SpanOf(Cores, lane, n, EltTile)}
                Valued(lane) == {<<lane, x, val[x]>> : x \in SpanOf(Cores, lane, n, EltTile)}
    <2>2. \A lane \in 0..(Cores - 1) : Stored(lane) = Valued(lane)
      BY <2>1
    <2>3. S = UNION {Stored(lane) : lane \in 0..(Cores - 1)}
      BY DEF elementwise_mul
    <2>4. SpanStores(Cores, EltTile, n, val) = UNION {Valued(lane) : lane \in 0..(Cores - 1)}
      BY DEF SpanStores
    <2>. HIDE DEF S, Stored, Valued
    <2>. QED  BY <2>2, <2>3, <2>4
  <1>3. {<<x, val[x]>> : x \in 0..(n - 1)} = {<<x, <<x, x>>>> : x \in 0..(n - 1)}
    OBVIOUS
  <1>. HIDE DEF val
  <1>4. /\ IsFiniteSet(S) /\ StoredOnce(S)
        /\ Image(S) = {<<x, <<x, x>>>> : x \in 0..(n - 1)}
        /\ \A s \in S : s[1] \in 0..(Cores - 1) /\ s[2] \in SpanOf(Cores, s[1], n, EltTile)
    BY <1>1, <1>2, <1>3, SpanStoresRight
  <1>. HIDE DEF S
  <1>5. ASSUME NEW s \in S, NEW u \in S,
               s[2] \div LineElems = u[2] \div LineElems
        PROVE  s[1] = u[1]
    <2>1. PICK w \in Nat : EltTile * 1 = w * LineElems
      <3>. DEFINE w == EltTile \div LineElems
      <3>1. EltTile \in Nat /\ w \in Nat
        BY <1>1, Quotient DEF Positive
      <3>2. EltTile = w * LineElems + (EltTile % LineElems)
        BY <1>1, <3>1, Division
      <3>. HIDE DEF w
      <3>3. w * LineElems \in Nat
        BY <1>1, <3>1 DEF Positive
      <3>4. EltTile = w * LineElems + 0
        BY <3>2, LayoutAssumption
      <3>5. EltTile * 1 = w * LineElems
        BY <3>1, <3>3, <3>4
      <3>. QED  BY <3>1, <3>5
    <2>2. /\ s[2] \in 0..(n - 1) /\ s[2] = s[2] * 1 + 0
          /\ u[2] \in 0..(n - 1) /\ u[2] = u[2] * 1 + 0
      <3>1. \A lane \in 0..(Cores - 1) : \A x \in SpanOf(Cores, lane, n, EltTile) :
                x \in 0..(n - 1)
        BY <1>1, LanesShare
      <3>2. s[2] \in 0..(n - 1) /\ u[2] \in 0..(n - 1)
        BY <1>4, <3>1
      <3>. QED  BY <3>2
    <2>3. \A a, b \in 0..(Cores - 1) :
             \A x \in SpanOf(Cores, a, n, EltTile), y \in SpanOf(Cores, b, n, EltTile) :
                \A i, j \in 0..(1 - 1) :
                   (x * 1 + i) \div LineElems = (y * 1 + j) \div LineElems => a = b
      <3>1. 1 \in Positive
        BY DEF Positive
      <3>. QED  BY <1>1, <2>1, <3>1, LinesOfRows
    <2>. QED  BY <1>4, <1>5, <2>2, <2>3
  <1>. QED  BY <1>4, <1>5, OneLaneEach DEF S

\* A divisor divides without a remainder.
LEMMA Divides ==
    ASSUME NEW a \in Nat, NEW b \in Positive
    PROVE  a % b = 0 => /\ a \div b \in Nat
                        /\ a = (a \div b) * b
  <1>. DEFINE q == a \div b
  <1>1. q \in Nat /\ a = q * b + (a % b)
    BY Division, Quotient
  <1>. HIDE DEF q
  <1>2. q * b \in Nat
    BY <1>1 DEF Positive
  <1>3. a % b = 0 => a = q * b
    BY <1>1, <1>2
  <1>. QED  BY <1>1, <1>3 DEF q

\* ALIGN_ROWS rows of cc elements are a number of whole lines.
LEMMA AlignedRows ==
    ASSUME NEW cc \in Positive
    PROVE  /\ AlignRows(cc) \in Positive
           /\ \E w \in Nat : AlignRows(cc) * cc = w * LineElems
  <1>. DEFINE T == {d \in 1..LineElems : LineElems % d = 0 /\ cc % d = 0}
              g == Max(T)
  <1>1. LineElems \in Positive /\ LineElems \in Nat /\ cc \in Nat
    BY Constants DEF Positive
  <1>2. g \in T
    <2>1. 1 \in T
      BY <1>1 DEF Positive
    <2>2. T \in SUBSET Nat /\ \A d \in T : d <= LineElems
      BY <1>1
    <2>. HIDE DEF T
    <2>3. \E x \in T : \A y \in T : y <= x
      BY <1>1, <2>1, <2>2, LargestExists
    <2>4. \E x \in T : \A y \in T : x >= y
      BY <2>2, <2>3
    <2>. QED  BY <2>4 DEF Max
  <1>3. g \in Positive /\ LineElems % g = 0 /\ cc % g = 0
    <2>. HIDE DEF g
    <2>. QED  BY <1>1, <1>2 DEF Positive
  <1>4. AlignRows(cc) = LineElems \div g
    BY DEF AlignRows
  <1>. HIDE DEF g, T
  <1>. DEFINE x == LineElems \div g
              y == cc \div g
  <1>5. x \in Nat /\ LineElems = x * g /\ y \in Nat /\ cc = y * g
    BY <1>1, <1>3, Divides
  <1>. HIDE DEF x, y
  <1>6. x # 0
    BY <1>1, <1>3, <1>5 DEF Positive
  <1>7. x * cc = y * LineElems
    <2>1. x * (y * g) = y * (x * g)
      BY <1>3, <1>5 DEF Positive
    <2>. QED  BY <1>5, <2>1
  <1>. QED  BY <1>4, <1>5, <1>6, <1>7 DEF x, Positive

(***************************************************************************)
(* bcast_col_inline hands out the rows of all groups in multiples of       *)
(* ALIGN_ROWS: whatever the row length cc, an element of a row of one lane *)
(* and one of a row of another are in different lines of the output.       *)
(***************************************************************************)
THEOREM BroadcastRowsApart ==
    ASSUME NEW total \in Nat, NEW cc \in Positive
    PROVE  \A a, b \in 0..(Cores - 1) :
              \A r \in SpanOf(Cores, a, total, AlignRows(cc)),
                 u \in SpanOf(Cores, b, total, AlignRows(cc)) :
                 \A i, j \in 0..(cc - 1) :
                    (r * cc + i) \div LineElems = (u * cc + j) \div LineElems => a = b
  <1>1. Cores \in Positive /\ LineElems \in Positive
    BY Constants
  <1>2. AlignRows(cc) \in Positive
    BY AlignedRows
  <1>3. PICK w \in Nat : AlignRows(cc) * cc = w * LineElems
    BY AlignedRows
  <1>. QED  BY <1>1, <1>2, <1>3, LinesOfRows

-----------------------------------------------------------------------------
(* The 2D transpose *)

\* Is element (R, C) in block b, which may be cut off at an edge?
InBlock(rows, cols, b, R, C) ==
    LET at == BlockAt(rows, cols, b)
    IN  /\ R \in at.r0..(at.r0 + at.rb - 1)
        /\ C \in at.c0..(at.c0 + at.cb - 1)

\* One dimension of blocks of some size, the last of which is cut off at n.
LEMMA EdgeBlock ==
    ASSUME NEW size \in Positive, NEW n \in Nat, NEW q \in Nat, NEW X \in Nat
    PROVE  X \in (q * size)..(q * size + Least(n - q * size, size) - 1)
              <=> X < n /\ X \div size = q
  <1>. DEFINE from == q * size
  <1>1. size \in Positive /\ from \in Nat
    BY DEF Positive
  <1>2. ASSUME X < n, X \div size = q
        PROVE  from <= X /\ X < from + size
    <2>1. X = q * size + (X % size) /\ X % size \in 0..(size - 1)
      BY <1>1, <1>2, Division, Quotient
    <2>2. X = from + (X % size)
      BY <2>1
    <2>. HIDE DEF from
    <2>. QED  BY <1>1, <2>1, <2>2 DEF Positive
  <1>3. ASSUME from <= X, X < from + size
        PROVE  X \div size = q
    <2>1. PICK o \in 0..(size - 1) : X = from + o
      <3>. HIDE DEF from
      <3>1. X - from \in 0..(size - 1) /\ X = from + (X - from)
        BY <1>1, <1>3 DEF Positive
      <3>. QED  BY <3>1
    <2>2. X = q * size + o
      BY <2>1
    <2>. QED  BY <1>1, <2>1, <2>2, DivisionUnique
  <1>4. X \in from..(from + Least(n - from, size) - 1)
            <=> X < n /\ from <= X /\ X < from + size
    <2>. HIDE DEF from
    <2>. QED  BY <1>1 DEF Least, Positive
  <1>. QED  BY <1>2, <1>3, <1>4

\* Element (R, C) is in the block at its block row and column, in no other.
LEMMA BlocksShare ==
    ASSUME NEW rows \in Positive, NEW cols \in Positive, NEW R \in Nat, NEW C \in Nat
    PROVE  LET nBC == CeilDiv(cols, Block)
               home == (R \div Block) * nBC + (C \div Block)
           IN  /\ R < rows /\ C < cols => /\ home \in 0..(Blocks(rows, cols) - 1)
                                          /\ InBlock(rows, cols, home, R, C)
               /\ \A b \in 0..(Blocks(rows, cols) - 1) :
                     InBlock(rows, cols, b, R, C) => /\ R < rows /\ C < cols
                                                     /\ b = home
  <1>. DEFINE nBR == CeilDiv(rows, Block)
              nBC == CeilDiv(cols, Block)
              p == R \div Block
              q == C \div Block
              home == p * nBC + q
  <1>1. Block \in Positive /\ p \in Nat /\ q \in Nat
    BY Constants, Quotient
  <1>2. nBR \in Nat /\ nBR * Block >= rows /\ nBC \in Nat /\ nBC * Block >= cols
    BY <1>1, RoundUpReaches DEF RoundUp, Positive
  <1>3. nBC \in Positive
    <2>. HIDE DEF nBC
    <2>1. nBC # 0
      BY <1>1, <1>2 DEF Positive
    <2>. QED  BY <1>2, <2>1 DEF Positive
  <1>4. Blocks(rows, cols) = nBR * nBC
    BY DEF Blocks
  <1>5. \A b \in Nat : InBlock(rows, cols, b, R, C) <=>
            /\ R < rows /\ p = b \div nBC
            /\ C < cols /\ q = b % nBC
    <2>1. ASSUME NEW b \in Nat
          PROVE  /\ b \div nBC \in Nat /\ b % nBC \in Nat
                 /\ InBlock(rows, cols, b, R, C) <=>
                      /\ R \in ((b \div nBC) * Block)..((b \div nBC) * Block
                                  + Least(rows - (b \div nBC) * Block, Block) - 1)
                      /\ C \in ((b % nBC) * Block)..((b % nBC) * Block
                                  + Least(cols - (b % nBC) * Block, Block) - 1)
      <3>1. b \div nBC \in Nat /\ b % nBC \in Nat
        BY <1>3, Quotient
      <3>. QED  BY <3>1 DEF InBlock, BlockAt
    <2>. HIDE DEF nBC
    <2>2. Block \in Positive /\ rows \in Nat /\ cols \in Nat
      BY Constants DEF Positive
    <2>3. \A n, k, X \in Nat : X \in (k * Block)..(k * Block + Least(n - k * Block, Block) - 1)
                                  <=> X < n /\ X \div Block = k
      BY <2>2, EdgeBlock
    <2>. QED  BY <2>1, <2>2, <2>3
  <1>6. ASSUME R < rows, C < cols
        PROVE  home \in 0..(nBR * nBC - 1) /\ home \div nBC = p /\ home % nBC = q
    <2>1. p < nBR
      <3>1. R < nBR * Block
        <4>1. nBR * Block \in Nat
          BY <1>1, <1>2 DEF Positive
        <4>. HIDE DEF nBR
        <4>. QED  BY <1>2, <1>6, <4>1 DEF Positive
      <3>. HIDE DEF nBR
      <3>. QED  BY <1>1, <1>2, <3>1, BelowQuotient
    <2>2. q < nBC
      <3>1. C < nBC * Block
        <4>1. nBC * Block \in Nat
          BY <1>1, <1>2 DEF Positive
        <4>. HIDE DEF nBC
        <4>. QED  BY <1>2, <1>6, <4>1 DEF Positive
      <3>. HIDE DEF nBC
      <3>. QED  BY <1>1, <1>2, <3>1, BelowQuotient
    <2>. HIDE DEF p, q, nBR, nBC
    <2>3. q \in 0..(nBC - 1) /\ home \in Nat
      BY <1>1, <1>2, <2>2
    <2>4. home \div nBC = p /\ home % nBC = q
      <3>. DEFINE h == home
      <3>1. h \in Nat /\ h = p * nBC + q
        BY <2>3
      <3>. HIDE DEF h
      <3>2. h \div nBC = p /\ h % nBC = q
        BY <3>1, <1>1, <1>3, <2>3, DivisionUnique
      <3>. QED  BY <3>2 DEF h
    <2>5. home < nBR * nBC
      <3>1. p * nBC + nBC <= nBR * nBC
        BY <1>1, <1>2, <2>1, SpansApart
      <3>2. p * nBC \in Nat /\ nBR * nBC \in Nat
        BY <1>1, <1>2
      <3>. QED  BY <3>1, <3>2, <2>2, <1>1, <1>2
    <2>6. nBR * nBC \in Nat
      BY <1>2
    <2>. QED  BY <2>3, <2>4, <2>5, <2>6
  <1>7. ASSUME NEW b \in 0..(nBR * nBC - 1), InBlock(rows, cols, b, R, C)
        PROVE  R < rows /\ C < cols /\ b = home
    <2>1. b \in Nat
      OBVIOUS
    <2>2. R < rows /\ p = b \div nBC /\ C < cols /\ q = b % nBC
      BY <1>5, <1>7, <2>1
    <2>3. b = (b \div nBC) * nBC + (b % nBC)
      BY <1>3, <2>1, Division
    <2>. QED  BY <2>2, <2>3
  <1>8. ASSUME R < rows, C < cols
        PROVE  home \in 0..(nBR * nBC - 1) /\ InBlock(rows, cols, home, R, C)
    BY <1>5, <1>6, <1>8
  <1>. QED  BY <1>4, <1>7, <1>8

\* Element (R, C) of a matrix with rows of cols elements, stored by a lane to
\* where it is in the transposed matrix with rows of dpad.
Turned(lane, dpad, cols, R, C) == <<lane, C * dpad + R, R * cols + C>>

\* A place in the transposed matrix is that of one element.
LEMMA PlaceUnique ==
    ASSUME NEW dpad \in Nat, NEW R \in 0..(dpad - 1), NEW C \in Nat,
           NEW P \in 0..(dpad - 1), NEW Q \in Nat
    PROVE  C * dpad + R = Q * dpad + P => C = Q /\ R = P
  <1>1. dpad \in Positive
    BY DEF Positive
  <1>. SUFFICES ASSUME C * dpad + R = Q * dpad + P
                PROVE  C = Q /\ R = P
    OBVIOUS
  <1>2. C * dpad + R = Q * dpad + P /\ C * dpad + R \in Nat
    <2>1. C * dpad + R = Q * dpad + P
      OBVIOUS
    <2>2. C * dpad \in Nat /\ R \in Nat
      BY <1>1 DEF Positive
    <2>3. C * dpad + R \in Nat
      <3>. DEFINE from == C * dpad
      <3>1. from \in Nat
        BY <2>2
      <3>. HIDE DEF from
      <3>2. from + R \in Nat
        BY <2>2, <3>1
      <3>. QED  BY <3>2 DEF from
    <2>. QED  BY <2>1, <2>3
  <1>3. C = Q /\ R = P
    <2>. DEFINE z == C * dpad + R
    <2>1. z \in Nat /\ z = C * dpad + R
      BY <1>2
    <2>2. z = Q * dpad + P
      BY <1>2
    <2>. HIDE DEF z
    <2>3. z \div dpad = C /\ z % dpad = R
      BY <2>1, <1>1, DivisionUnique
    <2>4. z \in Nat
      BY <2>1
    <2>5. z \div dpad = Q /\ z % dpad = P
      BY <2>2, <2>4, <1>1, DivisionUnique
    <2>. QED  BY <2>3, <2>5
  <1>. QED  BY <1>3

\* Stores that turn every element, each in one lane, transpose the matrix.
LEMMA TurnedRight ==
    ASSUME NEW rows \in Positive, NEW cols \in Positive,
           NEW dpad \in Nat, dpad >= rows, NEW S,
           \A s \in S : \E lane \in LaneSet, R \in 0..(rows - 1), C \in 0..(cols - 1) :
                            s = Turned(lane, dpad, cols, R, C),
           \A R \in 0..(rows - 1), C \in 0..(cols - 1) :
                \E lane \in LaneSet : Turned(lane, dpad, cols, R, C) \in S,
           \A R \in 0..(rows - 1), C \in 0..(cols - 1) : \A a, b \in LaneSet :
                /\ Turned(a, dpad, cols, R, C) \in S
                /\ Turned(b, dpad, cols, R, C) \in S
                => a = b
    PROVE  /\ StoredOnce(S)
           /\ Image(S) = {<<p[2] * dpad + p[1], p[1] * cols + p[2]>> :
                              p \in (0..(rows - 1)) \X (0..(cols - 1))}
  <1>. DEFINE M == (0..(rows - 1)) \X (0..(cols - 1))
              D == LaneSet \X M
              U == {Turned(p[1], dpad, cols, p[2][1], p[2][2]) : p \in D}
              f == [p \in D |-> Turned(p[1], dpad, cols, p[2][1], p[2][2])]
  <1>1. IsFiniteSet(S)
    <2>1. IsFiniteSet(D)
      <3>1. /\ IsFiniteSet(LaneSet)
            /\ IsFiniteSet(0..(rows - 1)) /\ IsFiniteSet(0..(cols - 1))
        <4>1. Lanes - 1 \in Int /\ rows - 1 \in Int /\ cols - 1 \in Int
          BY Constants DEF Positive
        <4>. QED  BY <4>1, FS_Interval DEF LaneSet
      <3>2. IsFiniteSet(M)
        BY <3>1, FS_Product
      <3>. HIDE DEF M
      <3>. QED  BY <3>1, <3>2, FS_Product
    <2>2. f \in Surjection(D, U)
      BY DEF Surjection
    <2>3. S \subseteq U
      <3>1. ASSUME NEW s \in S PROVE s \in U
        <4>1. PICK lane \in LaneSet, R \in 0..(rows - 1), C \in 0..(cols - 1) :
                  s = Turned(lane, dpad, cols, R, C)
          OBVIOUS
        <4>2. <<lane, <<R, C>>>> \in D
          OBVIOUS
        <4>. QED  BY <4>1, <4>2
      <3>. QED  BY <3>1
    <2>. HIDE DEF D, U, f
    <2>4. IsFiniteSet(U)
      BY <2>1, <2>2, FS_Surjection
    <2>. QED  BY <2>3, <2>4, FS_Subset
  <1>2. ASSUME NEW s \in S, NEW u \in S, s[2] = u[2] PROVE s = u
    <2>1. PICK a \in LaneSet, R \in 0..(rows - 1), C \in 0..(cols - 1) :
              s = Turned(a, dpad, cols, R, C)
      OBVIOUS
    <2>2. PICK b \in LaneSet, P \in 0..(rows - 1), Q \in 0..(cols - 1) :
              u = Turned(b, dpad, cols, P, Q)
      OBVIOUS
    <2>3. C * dpad + R = Q * dpad + P
      BY <1>2, <2>1, <2>2 DEF Turned
    <2>5. C = Q /\ R = P
      <3>1. /\ R \in 0..(dpad - 1) /\ P \in 0..(dpad - 1)
            /\ C \in Nat /\ Q \in Nat
        BY DEF Positive
      <3>. QED  BY <2>3, <3>1, PlaceUnique
    <2>6. a = b
      BY <2>1, <2>2, <2>5
    <2>. QED  BY <2>1, <2>2, <2>5, <2>6
  <1>3. Image(S) = {<<p[2] * dpad + p[1], p[1] * cols + p[2]>> : p \in M}
    <2>1. ASSUME NEW s \in S
          PROVE  \E p \in M : /\ s[2] = p[2] * dpad + p[1]
                              /\ s[3] = p[1] * cols + p[2]
      <3>1. PICK a \in LaneSet, R \in 0..(rows - 1), C \in 0..(cols - 1) :
                s = Turned(a, dpad, cols, R, C)
        OBVIOUS
      <3>2. <<R, C>> \in M
        OBVIOUS
      <3>3. s[2] = C * dpad + R /\ s[3] = R * cols + C
        BY <3>1 DEF Turned
      <3>. QED  BY <3>2, <3>3
    <2>2. ASSUME NEW p \in M
          PROVE  \E s \in S : /\ s[2] = p[2] * dpad + p[1]
                              /\ s[3] = p[1] * cols + p[2]
      <3>1. p[1] \in 0..(rows - 1) /\ p[2] \in 0..(cols - 1)
        OBVIOUS
      <3>2. PICK lane \in LaneSet : Turned(lane, dpad, cols, p[1], p[2]) \in S
        BY <3>1
      <3>. QED  BY <3>2 DEF Turned
    <2>. HIDE DEF M
    <2>3. ASSUME NEW e \in Image(S)
          PROVE  e \in {<<p[2] * dpad + p[1], p[1] * cols + p[2]>> : p \in M}
      <3>1. PICK s \in S : e = <<s[2], s[3]>>
        BY DEF Image
      <3>. QED  BY <2>1, <3>1
    <2>4. ASSUME NEW p \in M
          PROVE  <<p[2] * dpad + p[1], p[1] * cols + p[2]>> \in Image(S)
      BY <2>2 DEF Image
    <2>. QED  BY <2>3, <2>4
  <1>. QED  BY <1>1, <1>2, <1>3, OneAddressEach

\* The greater of two numbers.
LEMMA Greater ==
    ASSUME NEW a \in Nat, NEW b \in Nat
    PROVE  Max({a, b}) \in Nat /\ Max({a, b}) >= a /\ Max({a, b}) >= b
  <1>1. \E x \in {a, b} : \A y \in {a, b} : x >= y
    <2>1. CASE a >= b
      BY <2>1
    <2>2. CASE b >= a
      BY <2>2
    <2>. QED  BY <2>1, <2>2
  <1>2. Max({a, b}) \in {a, b} /\ \A y \in {a, b} : Max({a, b}) >= y
    BY <1>1 DEF Max
  <1>. QED  BY <1>2

\* The offset of a block and that in the block add up.
LEMMA TurnedBlock ==
    ASSUME NEW lane, NEW dpad \in Nat, NEW cols \in Nat,
           NEW r0 \in Nat, NEW c0 \in Nat, NEW r \in Nat, NEW c \in Nat
    PROVE  <<lane, (c0 * dpad + r0) + c * dpad + r, (r0 * cols + c0) + r * cols + c>>
               = Turned(lane, dpad, cols, r0 + r, c0 + c)
  <1>1. (c0 * dpad + r0) + c * dpad + r = (c0 + c) * dpad + (r0 + r)
    OBVIOUS
  <1>2. (r0 * cols + c0) + r * cols + c = (r0 + r) * cols + (c0 + c)
    OBVIOUS
  <1>. QED  BY <1>1, <1>2 DEF Turned

\* S stores a matrix of that many rows and columns transposed, dpad to a row.
TurnsOver(S, rows, cols, dpad) ==
    /\ StoredOnce(S)
    /\ Image(S) = {<<p[2] * dpad + p[1], p[1] * cols + p[2]>> :
                       p \in (0..(rows - 1)) \X (0..(cols - 1))}

(***************************************************************************)
(* transpose_2d_inline: whatever the shape, the padding of the rows it     *)
(* leaves and the size of an element, whole in one lane or in blocks       *)
(* shared by all lanes, every element is stored once, at its place in the  *)
(* transposed matrix.                                                      *)
(***************************************************************************)
THEOREM Transpose2dRight ==
    ASSUME NEW t, NEW ds, NEW dstPad \in Nat,
           t.from_shape[1] \in Positive, t.from_shape[2] \in Positive
    PROVE  TurnsOver(transpose_2d(t, ds, dstPad), t.from_shape[1], t.from_shape[2],
                     Max({dstPad, t.from_shape[1]}))
  <1>. DEFINE rows == t.from_shape[1]
              cols == t.from_shape[2]
              dpad == Max({dstPad, rows})
              S == transpose_2d(t, ds, dstPad)
              n == Blocks(rows, cols)
              whole == Ttrans(0, 0, dpad, 0, cols, rows, cols)
              block(lane, b) ==
                  LET at == BlockAt(rows, cols, b)
                  IN  Ttrans(lane, at.c0 * dpad + at.r0, dpad, at.r0 * cols + at.c0, cols,
                             at.rb, at.cb)
  <1>1. rows \in Positive /\ cols \in Positive /\ dpad \in Nat /\ dpad >= rows
    BY Greater DEF Positive
  <1>2. n \in Nat
    <2>1. CeilDiv(rows, Block) \in Nat /\ CeilDiv(cols, Block) \in Nat
      BY <1>1, Constants, RoundUpReaches DEF Positive
    <2>. QED  BY <2>1 DEF Blocks
  <1>3. S = IF FitsUb(rows, cols, ds) THEN whole
            ELSE UNION {block(s[1], s[2]) : s \in Shared(n)}
    BY DEF transpose_2d
  <1>. HIDE DEF rows, cols, dpad, n
  \* Every store turns an element that is in the matrix,
  <1>4. ASSUME NEW lane, NEW b \in 0..(n - 1), NEW s
        PROVE  s \in block(lane, b) <=>
                  \E R \in 0..(rows - 1), C \in 0..(cols - 1) :
                      /\ InBlock(rows, cols, b, R, C)
                      /\ s = Turned(lane, dpad, cols, R, C)
    <2>. DEFINE at == BlockAt(rows, cols, b)
    <2>1. /\ at.r0 \in Nat /\ at.c0 \in Nat /\ at.rb \in Int /\ at.cb \in Int
      <3>1. Block \in Positive /\ CeilDiv(cols, Block) \in Positive
        <4>1. Block \in Positive /\ CeilDiv(cols, Block) \in Nat
              /\ CeilDiv(cols, Block) * Block >= cols
          BY <1>1, Constants, RoundUpReaches DEF RoundUp, Positive
        <4>2. CeilDiv(cols, Block) # 0
          BY <4>1, <1>1 DEF Positive
        <4>. QED  BY <4>1, <4>2 DEF Positive
      <3>2. b \div CeilDiv(cols, Block) \in Nat /\ b % CeilDiv(cols, Block) \in Nat
        BY <1>2, <3>1, Quotient
      <3>3. at.r0 \in Nat /\ at.c0 \in Nat
        BY <3>1, <3>2 DEF BlockAt, Positive
      <3>4. at.rb = Least(rows - at.r0, Block) /\ at.cb = Least(cols - at.c0, Block)
        BY DEF BlockAt
      <3>. HIDE DEF at
      <3>. QED  BY <1>1, <3>1, <3>3, <3>4 DEF Least, Positive
    <2>2. s \in block(lane, b) <=>
              \E r \in 0..(at.rb - 1), c \in 0..(at.cb - 1) :
                  s = <<lane, (at.c0 * dpad + at.r0) + c * dpad + r,
                              (at.r0 * cols + at.c0) + r * cols + c>>
      BY DEF Ttrans
    <2>3. \A R \in Nat, C \in Nat : InBlock(rows, cols, b, R, C) <=>
              /\ R \in at.r0..(at.r0 + at.rb - 1)
              /\ C \in at.c0..(at.c0 + at.cb - 1)
      BY DEF InBlock
    <2>4. \A R \in Nat, C \in Nat :
              InBlock(rows, cols, b, R, C) => R \in 0..(rows - 1) /\ C \in 0..(cols - 1)
      <3>1. \A R \in Nat, C \in Nat :
                InBlock(rows, cols, b, R, C) => R < rows /\ C < cols
        BY <1>1, BlocksShare DEF n
      <3>. QED  BY <1>1, <3>1 DEF Positive
    <2>. HIDE DEF at, block
    <2>5. ASSUME NEW r \in 0..(at.rb - 1), NEW c \in 0..(at.cb - 1),
                 s = <<lane, (at.c0 * dpad + at.r0) + c * dpad + r,
                             (at.r0 * cols + at.c0) + r * cols + c>>
          PROVE  \E R \in 0..(rows - 1), C \in 0..(cols - 1) :
                     /\ InBlock(rows, cols, b, R, C)
                     /\ s = Turned(lane, dpad, cols, R, C)
      <3>1. r \in Nat /\ c \in Nat /\ at.r0 + r \in Nat /\ at.c0 + c \in Nat
        BY <2>1
      <3>2. s = Turned(lane, dpad, cols, at.r0 + r, at.c0 + c)
        BY <1>1, <2>1, <2>5, <3>1, TurnedBlock DEF Positive
      <3>3. InBlock(rows, cols, b, at.r0 + r, at.c0 + c)
        BY <2>1, <2>3, <3>1
      <3>. QED  BY <2>4, <3>1, <3>2, <3>3
    <2>6. ASSUME NEW R \in 0..(rows - 1), NEW C \in 0..(cols - 1),
                 InBlock(rows, cols, b, R, C), s = Turned(lane, dpad, cols, R, C)
          PROVE  s \in block(lane, b)
      <3>1. /\ R \in at.r0..(at.r0 + at.rb - 1) /\ R \in Nat
            /\ C \in at.c0..(at.c0 + at.cb - 1) /\ C \in Nat
        BY <2>3, <2>6
      <3>2. PICK r \in 0..(at.rb - 1), c \in 0..(at.cb - 1) :
                R = at.r0 + r /\ C = at.c0 + c
        <4>1. R - at.r0 \in 0..(at.rb - 1) /\ R = at.r0 + (R - at.r0)
          BY <2>1, <3>1
        <4>2. C - at.c0 \in 0..(at.cb - 1) /\ C = at.c0 + (C - at.c0)
          BY <2>1, <3>1
        <4>. QED  BY <4>1, <4>2
      <3>3. r \in Nat /\ c \in Nat
        OBVIOUS
      <3>4. s = <<lane, (at.c0 * dpad + at.r0) + c * dpad + r,
                        (at.r0 * cols + at.c0) + r * cols + c>>
        BY <1>1, <2>1, <2>6, <3>2, <3>3, TurnedBlock DEF Positive
      <3>. QED  BY <2>2, <3>4
    <2>. QED  BY <2>2, <2>5, <2>6
  <1>. HIDE DEF block, S
  <1>5. CASE FitsUb(rows, cols, ds)
    <2>1. 0 \in LaneSet
      BY Constants DEF LaneSet, Positive
    <2>2. \A s : s \in S <=>
              \E R \in 0..(rows - 1), C \in 0..(cols - 1) : s = Turned(0, dpad, cols, R, C)
      <3>1. \A R \in 0..(rows - 1), C \in 0..(cols - 1) :
                <<0, 0 + C * dpad + R, 0 + R * cols + C>> = Turned(0, dpad, cols, R, C)
        BY <1>1 DEF Turned, Positive
      <3>2. S = {<<0, 0 + C * dpad + R, 0 + R * cols + C>> :
                     R \in 0..(rows - 1), C \in 0..(cols - 1)}
        BY <1>3, <1>5 DEF Ttrans
      <3>. QED  BY <3>1, <3>2
    <2>3. \A s \in S : \E lane \in LaneSet, R \in 0..(rows - 1), C \in 0..(cols - 1) :
              s = Turned(lane, dpad, cols, R, C)
      BY <2>1, <2>2
    <2>4. \A R \in 0..(rows - 1), C \in 0..(cols - 1) :
              \E lane \in LaneSet : Turned(lane, dpad, cols, R, C) \in S
      BY <2>1, <2>2
    <2>5. \A R \in 0..(rows - 1), C \in 0..(cols - 1) : \A a, b \in LaneSet :
              /\ Turned(a, dpad, cols, R, C) \in S
              /\ Turned(b, dpad, cols, R, C) \in S
              => a = b
      BY <2>2 DEF Turned
    <2>6. /\ StoredOnce(S)
          /\ Image(S) = {<<p[2] * dpad + p[1], p[1] * cols + p[2]>> :
                             p \in (0..(rows - 1)) \X (0..(cols - 1))}
      BY <1>1, <2>3, <2>4, <2>5, TurnedRight
    <2>. QED  BY <2>6 DEF rows, cols, dpad, S, TurnsOver
  <1>6. CASE ~FitsUb(rows, cols, ds)
    <2>1. \A s : s \in S <=>
              \E lane \in LaneSet : \E b \in Span(lane, n) : s \in block(lane, b)
      <3>1. S = UNION {block(u[1], u[2]) : u \in Shared(n)}
        BY <1>3, <1>6
      <3>2. \A u : u \in Shared(n) <=>
                \E lane \in LaneSet : \E b \in Span(lane, n) : u = <<lane, b>>
        BY DEF Shared
      <3>3. ASSUME NEW s \in S
            PROVE  \E lane \in LaneSet : \E b \in Span(lane, n) : s \in block(lane, b)
        <4>1. PICK u \in Shared(n) : s \in block(u[1], u[2])
          BY <3>1
        <4>2. PICK lane \in LaneSet : \E b \in Span(lane, n) : u = <<lane, b>>
          BY <3>2
        <4>3. PICK b \in Span(lane, n) : u = <<lane, b>>
          BY <4>2
        <4>4. u[1] = lane /\ u[2] = b
          BY <4>3
        <4>. QED  BY <4>1, <4>4
      <3>4. ASSUME NEW lane \in LaneSet, NEW b \in Span(lane, n), NEW s \in block(lane, b)
            PROVE  s \in S
        <4>. DEFINE u == <<lane, b>>
        <4>1. u \in Shared(n) /\ u[1] = lane /\ u[2] = b
          BY <3>2
        <4>. HIDE DEF u
        <4>2. block(u[1], u[2]) \in {block(v[1], v[2]) : v \in Shared(n)}
          BY <4>1
        <4>3. s \in block(u[1], u[2])
          BY <4>1
        <4>. QED  BY <3>1, <4>2, <4>3
      <3>. QED  BY <3>3, <3>4
    <2>2. /\ \A b \in 0..(n - 1) : \E lane \in LaneSet : b \in Span(lane, n)
          /\ \A lane, other \in LaneSet : \A b \in Span(lane, n) :
                 b \in 0..(n - 1) /\ (b \in Span(other, n) => lane = other)
      <3>1. Lanes \in Positive /\ 1 \in Positive
        BY Constants DEF Positive
      <3>. QED  BY <1>2, <3>1, LanesShare DEF Span, LaneSet
    <2>3. \A s : s \in S <=>
              \E lane \in LaneSet : \E b \in Span(lane, n) :
                  \E R \in 0..(rows - 1), C \in 0..(cols - 1) :
                      /\ InBlock(rows, cols, b, R, C)
                      /\ s = Turned(lane, dpad, cols, R, C)
      BY <1>4, <2>1, <2>2
    <2>4. \A s \in S : \E lane \in LaneSet, R \in 0..(rows - 1), C \in 0..(cols - 1) :
              s = Turned(lane, dpad, cols, R, C)
      BY <2>3
    <2>5. ASSUME NEW R \in 0..(rows - 1), NEW C \in 0..(cols - 1)
          PROVE  \E lane \in LaneSet : Turned(lane, dpad, cols, R, C) \in S
      <3>1. PICK b \in 0..(n - 1) : InBlock(rows, cols, b, R, C)
        <4>1. R \in Nat /\ C \in Nat /\ R < rows /\ C < cols
          BY <1>1 DEF Positive
        <4>. QED  BY <1>1, <4>1, BlocksShare DEF n
      <3>2. PICK lane \in LaneSet : b \in Span(lane, n)
        BY <2>2
      <3>. QED  BY <2>3, <3>1, <3>2
    <2>6. ASSUME NEW R \in 0..(rows - 1), NEW C \in 0..(cols - 1),
                 NEW a \in LaneSet, NEW b \in LaneSet,
                 Turned(a, dpad, cols, R, C) \in S, Turned(b, dpad, cols, R, C) \in S
          PROVE  a = b
      <3>1. ASSUME NEW lane \in LaneSet, Turned(lane, dpad, cols, R, C) \in S
            PROVE  \E u \in Span(lane, n) : InBlock(rows, cols, u, R, C)
        <4>1. PICK l \in LaneSet :
                  \E u \in Span(l, n) : \E P \in 0..(rows - 1), Q \in 0..(cols - 1) :
                      /\ InBlock(rows, cols, u, P, Q)
                      /\ Turned(lane, dpad, cols, R, C) = Turned(l, dpad, cols, P, Q)
          BY <2>3, <3>1
        <4>2. PICK u \in Span(l, n), P \in 0..(rows - 1), Q \in 0..(cols - 1) :
                  /\ InBlock(rows, cols, u, P, Q)
                  /\ Turned(lane, dpad, cols, R, C) = Turned(l, dpad, cols, P, Q)
          BY <4>1
        <4>3. lane = l /\ C * dpad + R = Q * dpad + P
          BY <4>2 DEF Turned
        <4>4. C = Q /\ R = P
          <5>1. /\ R \in 0..(dpad - 1) /\ P \in 0..(dpad - 1)
                /\ C \in Nat /\ Q \in Nat
            BY <1>1 DEF Positive
          <5>. QED  BY <1>1, <4>3, <5>1, PlaceUnique
        <4>. QED  BY <4>2, <4>3, <4>4
      <3>2. PICK u \in Span(a, n) : InBlock(rows, cols, u, R, C)
        BY <2>6, <3>1
      <3>3. PICK v \in Span(b, n) : InBlock(rows, cols, v, R, C)
        BY <2>6, <3>1
      <3>4. u = v
        <4>1. u \in 0..(n - 1) /\ v \in 0..(n - 1) /\ R \in Nat /\ C \in Nat
          BY <2>2
        <4>. QED  BY <1>1, <3>2, <3>3, <4>1, BlocksShare DEF n
      <3>. QED  BY <2>2, <3>4
    <2>7. /\ StoredOnce(S)
          /\ Image(S) = {<<p[2] * dpad + p[1], p[1] * cols + p[2]>> :
                             p \in (0..(rows - 1)) \X (0..(cols - 1))}
      BY <1>1, <2>4, <2>5, <2>6, TurnedRight
    <2>. QED  BY <2>7 DEF rows, cols, dpad, S, TurnsOver
  <1>. QED  BY <1>5, <1>6
-----------------------------------------------------------------------------
(* Units that have places of their own *)

\* S is what lanes store that share n units in multiples of grain, unit u going
\* to the addresses places[u], with val[a] at address a.
Allots(S, lanes, grain, n, places, val) ==
    /\ \A s \in S : \E lane \in 0..(lanes - 1) : \E u \in SpanOf(lanes, lane, n, grain) :
           s[2] \in places[u] /\ s = <<lane, s[2], val[s[2]]>>
    /\ \A lane \in 0..(lanes - 1) : \A u \in SpanOf(lanes, lane, n, grain) :
           \A a \in places[u] : <<lane, a, val[a]>> \in S

\* No two units share an address, and all are below m.
Apart(places, n, m) ==
    /\ \A u \in 0..(n - 1) : places[u] \subseteq 0..(m - 1)
    /\ \A u, v \in 0..(n - 1) : \A a \in places[u] : a \in places[v] => u = v

Taken(places, n) == UNION {places[u] : u \in 0..(n - 1)}

\* Then every place is stored once, and nothing else.
LEMMA UnitsRight ==
    ASSUME NEW lanes \in Positive, NEW grain \in Positive, NEW n \in Nat, NEW m \in Nat,
           NEW places, NEW val, NEW S,
           Apart(places, n, m), Allots(S, lanes, grain, n, places, val)
    PROVE  /\ IsFiniteSet(S) /\ StoredOnce(S)
           /\ Image(S) = {<<a, val[a]>> : a \in Taken(places, n)}
  <1>. DEFINE Of(s, lane, u) == /\ u \in 0..(n - 1) /\ s[2] \in places[u] /\ s[2] \in 0..(m - 1)
                                /\ s = <<lane, s[2], val[s[2]]>>
  <1>1. \A a, b \in 0..(lanes - 1) : \A x \in SpanOf(lanes, a, n, grain) :
            /\ x \in 0..(n - 1)
            /\ x \in SpanOf(lanes, b, n, grain) => a = b
    BY LanesShare
  <1>2. \A x \in 0..(n - 1) : \E lane \in 0..(lanes - 1) : x \in SpanOf(lanes, lane, n, grain)
    BY LanesShare
  <1>3. ASSUME NEW s \in S
        PROVE  \E lane \in 0..(lanes - 1) : \E u \in SpanOf(lanes, lane, n, grain) : Of(s, lane, u)
    <2>1. PICK lane \in 0..(lanes - 1) : \E u \in SpanOf(lanes, lane, n, grain) :
                  s[2] \in places[u] /\ s = <<lane, s[2], val[s[2]]>>
      BY DEF Allots
    <2>2. PICK u \in SpanOf(lanes, lane, n, grain) :
                  s[2] \in places[u] /\ s = <<lane, s[2], val[s[2]]>>
      BY <2>1
    <2>3. u \in 0..(n - 1)
      BY <1>1
    <2>4. s[2] \in 0..(m - 1)
      BY <2>2, <2>3 DEF Apart
    <2>. QED  BY <2>2, <2>3, <2>4
  <1>4. IsFiniteSet(S)
    <2>. DEFINE D == (0..(lanes - 1)) \X (0..(m - 1))
                f == [p \in D |-> <<p[1], p[2], val[p[2]]>>]
                P == {<<p[1], p[2], val[p[2]]>> : p \in D}
    <2>1. IsFiniteSet(D)
      <3>1. IsFiniteSet(0..(lanes - 1)) /\ IsFiniteSet(0..(m - 1))
        BY FS_Interval DEF Positive
      <3>. QED  BY <3>1, FS_Product
    <2>2. f \in Surjection(D, P)
      BY DEF Surjection
    <2>3. S \subseteq P
      <3>. SUFFICES ASSUME NEW s \in S PROVE s \in P
        OBVIOUS
      <3>1. PICK lane \in 0..(lanes - 1) : s[2] \in 0..(m - 1) /\ s = <<lane, s[2], val[s[2]]>>
        BY <1>3
      <3>2. <<lane, s[2]>> \in D
        BY <3>1
      <3>. QED  BY <3>1, <3>2
    <2>. HIDE DEF D, f, P
    <2>. QED  BY <2>1, <2>2, <2>3, FS_Surjection, FS_Subset
  <1>5. ASSUME NEW s \in S, NEW t \in S, s[2] = t[2] PROVE s = t
    <2>1. PICK a \in 0..(lanes - 1) : \E u \in SpanOf(lanes, a, n, grain) : Of(s, a, u)
      BY <1>3
    <2>2. PICK u \in SpanOf(lanes, a, n, grain) : Of(s, a, u)
      BY <2>1
    <2>3. PICK b \in 0..(lanes - 1) : \E v \in SpanOf(lanes, b, n, grain) : Of(t, b, v)
      BY <1>3
    <2>4. PICK v \in SpanOf(lanes, b, n, grain) : Of(t, b, v)
      BY <2>3
    <2>5. u = v
      BY <1>5, <2>2, <2>4 DEF Apart
    <2>6. a = b
      BY <1>1, <2>5
    <2>. QED  BY <1>5, <2>2, <2>4, <2>6
  <1>6. Image(S) \subseteq {<<a, val[a]>> : a \in Taken(places, n)}
    <2>. SUFFICES ASSUME NEW s \in S
                  PROVE  <<s[2], s[3]>> \in {<<a, val[a]>> : a \in Taken(places, n)}
      BY DEF Image
    <2>1. PICK lane \in 0..(lanes - 1), u \in 0..(n - 1) : Of(s, lane, u)
      BY <1>3
    <2>2. s[3] = val[s[2]]
      <3>. DEFINE a == s[2]
      <3>1. s = <<lane, a, val[a]>>
        BY <2>1
      <3>. HIDE DEF a
      <3>2. s[3] = val[a]
        BY <3>1
      <3>. QED  BY <3>2 DEF a
    <2>. QED  BY <2>1, <2>2 DEF Taken
  <1>7. ASSUME NEW a \in Taken(places, n) PROVE <<a, val[a]>> \in Image(S)
    <2>1. PICK u \in 0..(n - 1) : a \in places[u]
      BY DEF Taken
    <2>2. PICK lane \in 0..(lanes - 1) : u \in SpanOf(lanes, lane, n, grain)
      BY <1>2
    <2>3. <<lane, a, val[a]>> \in S
      BY <2>1, <2>2 DEF Allots
    <2>. QED  BY <2>3 DEF Image
  <1>. QED  BY <1>4, <1>5, <1>6, <1>7, OneAddressEach
-----------------------------------------------------------------------------
(* The broadcast products *)

\* The least of three numbers.
LEMMA LeastOfThree ==
    ASSUME NEW a \in Positive, NEW b \in Positive, NEW c \in Positive
    PROVE  LET m == Min({a, b, c}) IN m \in Positive /\ m <= a /\ m <= b /\ m <= c
  <1>. DEFINE S == {a, b, c}
              m == CHOOSE x \in S : \A y \in S : x <= y
  <1>1. \E x \in S : \A y \in S : x <= y
    <2>1. CASE a <= b /\ a <= c
      BY <2>1 DEF Positive
    <2>2. CASE b <= a /\ b <= c
      BY <2>2 DEF Positive
    <2>3. CASE c <= a /\ c <= b
      BY <2>3 DEF Positive
    <2>. QED  BY <2>1, <2>2, <2>3 DEF Positive
  <1>2. m \in S /\ \A y \in S : m <= y
    <2>. HIDE DEF S
    <2>. QED  BY <1>1
  <1>3. Min({a, b, c}) = m
    BY DEF Min
  <1>. HIDE DEF m
  <1>. QED  BY <1>2, <1>3

\* f gathers blocks by steps of h, forward to an end.
Gathers(f, lo, end, h, block) ==
    /\ \A r \in lo..(end - 1) : /\ h[r] \in Positive /\ r + h[r] <= end
                                /\ f[r] = block[r] \cup f[r + h[r]]
    /\ f[end] = {}

\* Such a recursion is determined from the end back.
LEMMA StepsForward ==
    ASSUME NEW lo \in Nat, NEW end \in Nat, lo <= end, NEW h, NEW block,
           NEW tail, Gathers(tail, lo, end, h, block),
           NEW from, Gathers(from, lo, end, h, block)
    PROVE  from[lo] = tail[lo]
  <1>. DEFINE S == {k \in 0..(end - lo) : \A r \in lo..end : end - r <= k => from[r] = tail[r]}
  <1>1. 0 \in S
    <2>1. from[end] = {} /\ tail[end] = {}
      BY DEF Gathers
    <2>2. 0 \in 0..(end - lo)
      OBVIOUS
    <2>3. \A r \in lo..end : end - r <= 0 => r = end
      OBVIOUS
    <2>. QED  BY <2>1, <2>2, <2>3
  <1>2. ASSUME NEW k \in 0..((end - lo) - 1), k \in S PROVE k + 1 \in S
    <2>. SUFFICES ASSUME NEW r \in lo..end, end - r = k + 1 PROVE from[r] = tail[r]
      BY <1>2
    <2>1. r \in lo..(end - 1)
      OBVIOUS
    <2>2. /\ h[r] \in Positive /\ r + h[r] <= end
          /\ tail[r] = block[r] \cup tail[r + h[r]] /\ from[r] = block[r] \cup from[r + h[r]]
      BY <2>1 DEF Gathers
    <2>3. r + h[r] \in lo..end /\ end - (r + h[r]) <= k
      BY <2>1, <2>2 DEF Positive
    <2>4. from[r + h[r]] = tail[r + h[r]]
      BY <1>2, <2>3
    <2>. QED  BY <2>2, <2>4
  <1>3. 0..(end - lo) \subseteq S
    <2>1. end - lo \in Nat
      OBVIOUS
    <2>. HIDE DEF S
    <2>. QED  BY <1>1, <1>2, <2>1, Induction
  <1>4. end - lo \in 0..(end - lo) /\ lo \in lo..end
    OBVIOUS
  <1>5. end - lo \in S
    <2>. HIDE DEF S
    <2>. QED  BY <1>3, <1>4
  <1>. QED  BY <1>4, <1>5

\* An element of a block of rows is in one of its rows, and they are of one group.
LEMMA RowsOfBlock ==
    ASSUME NEW cc \in Positive, NEW rr \in Positive, NEW r \in Nat, NEW rb \in Nat,
           rb <= rr - (r % rr), NEW w \in 0..(rb * cc - 1)
    PROVE  /\ (r * cc + w) \div cc \in r..(r + rb - 1)
           /\ ((r * cc + w) \div cc) \div rr = r \div rr
           /\ (r * cc + w) % cc = w % cc
  <1>. DEFINE q == w \div cc
              o == w % cc
              g == r \div rr
              i == r % rr
  <1>1. w \in Nat /\ w < rb * cc /\ cc \in Nat /\ rb * cc \in Nat
    BY DEF Positive
  <1>2. q \in Nat /\ o \in 0..(cc - 1) /\ w = q * cc + o
    BY <1>1, Division, Quotient
  <1>3. q < rb
    BY <1>1, BelowQuotient
  <1>4. g \in Nat /\ i \in 0..(rr - 1) /\ r = g * rr + i
    BY Division, Quotient
  <1>5. rb <= rr - i
    OBVIOUS
  <1>. HIDE DEF q, o, g, i
  <1>6. r * cc + w = (r + q) * cc + o /\ r + q \in Nat /\ r * cc + w \in Nat
    <2>1. (r + q) * cc = r * cc + q * cc /\ r * cc \in Nat /\ q * cc \in Nat
      BY <1>1, <1>2
    <2>. QED  BY <1>1, <1>2, <2>1
  <1>7. (r * cc + w) \div cc = r + q /\ (r * cc + w) % cc = o
    BY <1>2, <1>6, DivisionUnique
  <1>8. (r + q) \div rr = g
    <2>1. r + q = g * rr + (i + q) /\ i + q \in 0..(rr - 1)
      <3>1. g * rr \in Nat
        BY <1>4 DEF Positive
      <3>. QED  BY <1>2, <1>3, <1>4, <1>5, <3>1 DEF Positive
    <2>. QED  BY <1>4, <1>6, <2>1, DivisionUnique
  <1>. QED  BY <1>2, <1>3, <1>7, <1>8 DEF o, g

\* What a lane stores of the elements from..(to - 1).
Stretch(lane, val, from, to) == {<<lane, a, val[a]>> : a \in from..(to - 1)}

\* The product of element a of the full operand: a is in row a \div Cc of all
\* groups, and Rr rows are of one group.
ColumnVal(c) ==
    [a \in Nat |-> <<a, bcast_baseB(c, (a \div c.Cc) \div c.Rr) + (a % c.Cc)>>]

\* A block of rows of one group is a run of elements.
LEMMA ColumnBlock ==
    ASSUME NEW c, c.Cc \in Positive, c.Rr \in Positive, NEW lane, NEW r \in Nat, NEW rb \in Nat,
           rb <= c.Rr - (r % c.Rr)
    PROVE  {<<lane, r * c.Cc + w,
              <<r * c.Cc + w, bcast_baseB(c, r \div c.Rr) + (w % c.Cc)>>>> :
               w \in 0..(rb * c.Cc - 1)}
             = Stretch(lane, ColumnVal(c), r * c.Cc, (r + rb) * c.Cc)
  <1>. DEFINE cc == c.Cc
              rr == c.Rr
              base(x) == bcast_baseB(c, x)
              val == ColumnVal(c)
              B == {<<lane, r * cc + w, <<r * cc + w, base(r \div rr) + (w % cc)>>>> :
                       w \in 0..(rb * cc - 1)}
  <1>1. cc \in Positive /\ rr \in Positive /\ rb <= rr - (r % rr)
    OBVIOUS
  <1>2. val = [a \in Nat |-> <<a, base((a \div cc) \div rr) + (a % cc)>>]
    BY DEF ColumnVal
  <1>. HIDE DEF cc, rr, base, val
  <1>3. r * cc \in Nat /\ rb * cc \in Nat /\ (r + rb) * cc = r * cc + rb * cc
    BY <1>1 DEF Positive
  <1>4. ASSUME NEW w \in 0..(rb * cc - 1)
        PROVE  /\ r * cc + w \in (r * cc)..((r + rb) * cc - 1)
               /\ val[r * cc + w] = <<r * cc + w, base(r \div rr) + (w % cc)>>
    <2>1. r * cc + w \in Nat /\ r * cc + w \in (r * cc)..((r + rb) * cc - 1)
      BY <1>3
    <2>2. ((r * cc + w) \div cc) \div rr = r \div rr /\ (r * cc + w) % cc = w % cc
      BY <1>1, RowsOfBlock
    <2>. QED  BY <1>2, <2>1, <2>2
  <1>5. ASSUME NEW a \in (r * cc)..((r + rb) * cc - 1)
        PROVE  a - r * cc \in 0..(rb * cc - 1) /\ r * cc + (a - r * cc) = a
    BY <1>3
  <1>6. B = Stretch(lane, val, r * cc, (r + rb) * cc)
    <2>1. ASSUME NEW s \in B PROVE s \in Stretch(lane, val, r * cc, (r + rb) * cc)
      BY <1>4, <2>1 DEF Stretch
    <2>2. ASSUME NEW s \in Stretch(lane, val, r * cc, (r + rb) * cc) PROVE s \in B
      <3>1. PICK a \in (r * cc)..((r + rb) * cc - 1) : s = <<lane, a, val[a]>>
        BY <2>2 DEF Stretch
      <3>2. PICK w \in 0..(rb * cc - 1) : r * cc + w = a
        BY <1>5
      <3>. QED  BY <1>4, <3>1, <3>2
    <2>. QED  BY <2>1, <2>2
  <1>. QED  BY <1>6 DEF cc, rr, base, val

\* The blocks of at most RB rows that a lane stores of its span.
ColumnBlocks(c, lane, RB, span) ==
    LET height(r, end) == Min({RB, c.Rr - (r % c.Rr), end - r})
        block(r, rb) ==
            {<<lane, r * c.Cc + w,
               <<r * c.Cc + w, bcast_baseB(c, r \div c.Rr) + (w % c.Cc)>>>> :
                w \in 0..(rb * c.Cc - 1)}
        end == Max(span) + 1
        from[r \in span \cup {end}] ==
            IF r = end THEN {}
            ELSE block(r, height(r, end)) \cup from[r + height(r, end)]
    IN  from[Min(span)]

\* The blocks a lane stores of the rows lo..hi are the run of all their elements.
LEMMA ColumnLane ==
    ASSUME NEW c, c.Cc \in Positive, c.Rr \in Positive, NEW lane, NEW RB \in Positive,
           NEW lo \in Nat, NEW hi \in Nat, lo <= hi
    PROVE  ColumnBlocks(c, lane, RB, lo..hi)
               = Stretch(lane, ColumnVal(c), lo * c.Cc, (hi + 1) * c.Cc)
  <1>. DEFINE height(r, end) == Min({RB, c.Rr - (r % c.Rr), end - r})
              block(r, rb) ==
                   {<<lane, r * c.Cc + w,
                      <<r * c.Cc + w, bcast_baseB(c, r \div c.Rr) + (w % c.Cc)>>>> :
                       w \in 0..(rb * c.Cc - 1)}
              end == Max(lo..hi) + 1
              D == (lo..hi) \cup {end}
              def(f) == [r \in D |-> IF r = end THEN {}
                                     ELSE block(r, height(r, end)) \cup f[r + height(r, end)]]
              from == CHOOSE f : f = def(f)
              last == hi + 1
              run(r) == Stretch(lane, ColumnVal(c), r * c.Cc, last * c.Cc)
              tail == [r \in D |-> run(r)]
  <1>1. Max(lo..hi) = hi /\ Min(lo..hi) = lo
    <2>1. \A x \in lo..hi : (\A y \in lo..hi : x >= y) <=> x = hi
      OBVIOUS
    <2>2. \A x \in lo..hi : (\A y \in lo..hi : x <= y) <=> x = lo
      OBVIOUS
    <2>3. hi \in lo..hi /\ lo \in lo..hi
      OBVIOUS
    <2>. QED  BY <2>1, <2>2, <2>3 DEF Max, Min
  <1>2. end = last /\ D = lo..last /\ last \in Nat
    BY <1>1
  <1>. HIDE DEF end, D
  <1>3. ASSUME NEW r \in lo..(last - 1)
        PROVE  /\ height(r, last) \in Positive
               /\ r + height(r, last) <= last
               /\ height(r, last) <= c.Rr - (r % c.Rr)
    <2>1. r \in Nat /\ last - r \in Positive
      BY <1>2 DEF Positive
    <2>2. c.Rr - (r % c.Rr) \in Positive
      <3>1. r % c.Rr \in 0..(c.Rr - 1)
        BY <2>1, Quotient
      <3>. QED  BY <3>1 DEF Positive
    <2>. DEFINE left == last - r
                rows == c.Rr - (r % c.Rr)
    <2>3. height(r, last) = Min({RB, rows, left})
      OBVIOUS
    <2>4. left \in Positive /\ rows \in Positive
      BY <2>1, <2>2
    <2>. HIDE DEF left, rows
    <2>5. height(r, last) \in Positive /\ height(r, last) <= rows /\ height(r, last) <= left
      <3>. HIDE DEF height
      <3>. QED  BY <2>3, <2>4, LeastOfThree
    <2>. QED  BY <2>1, <2>5 DEF left, rows, Positive
  <1>4. ASSUME NEW r \in lo..(last - 1)
        PROVE  run(r) = block(r, height(r, last)) \cup run(r + height(r, last))
    <2>. DEFINE rb == height(r, last)
    <2>1. rb \in Nat /\ r + rb <= last /\ rb <= c.Rr - (r % c.Rr) /\ r \in Nat
      BY <1>3 DEF Positive
    <2>. HIDE DEF height
    <2>2. block(r, rb) = Stretch(lane, ColumnVal(c), r * c.Cc, (r + rb) * c.Cc)
      BY <2>1, ColumnBlock
    <2>. HIDE DEF block, rb
    <2>. DEFINE x == r * c.Cc
                y == (r + rb) * c.Cc
                z == last * c.Cc
    <2>3. x \in Nat /\ y \in Nat /\ z \in Nat /\ x <= y /\ y <= z
      <3>. DEFINE cc == c.Cc
                  q == r + rb
      <3>1. cc \in Nat /\ r <= q /\ q <= last /\ q \in Nat /\ last \in Nat
        BY <1>2, <2>1 DEF Positive
      <3>. HIDE DEF cc, q, last
      <3>2. r * cc \in Nat /\ q * cc \in Nat /\ last * cc \in Nat
        BY <2>1, <3>1
      <3>3. r * cc <= q * cc /\ q * cc <= last * cc
        BY <2>1, <3>1, Monotone
      <3>. QED  BY <3>2, <3>3 DEF cc, q
    <2>4. x..(z - 1) = (x..(y - 1)) \cup (y..(z - 1))
      <3>. HIDE DEF x, y, z
      <3>. QED  BY <2>3
    <2>. HIDE DEF x, y, z
    <2>5. Stretch(lane, ColumnVal(c), x, z)
            = Stretch(lane, ColumnVal(c), x, y) \cup Stretch(lane, ColumnVal(c), y, z)
      BY <2>4 DEF Stretch
    <2>. QED  BY <2>2, <2>5 DEF x, y, z, rb
  <1>5. run(last) = {}
    <2>. DEFINE z == last * c.Cc
    <2>1. z \in Nat
      BY <1>2 DEF Positive
    <2>. HIDE DEF z
    <2>2. Stretch(lane, ColumnVal(c), z, z) = {}
      BY <2>1 DEF Stretch
    <2>. QED  BY <2>2 DEF z
  <1>. HIDE DEF run, height, block, last
  <1>6. \A r \in lo..(last - 1) : /\ r \in D /\ r # last
                                  /\ r + height(r, last) \in D
    <2>. SUFFICES ASSUME NEW r \in lo..(last - 1)
                  PROVE  r \in D /\ r # last /\ r + height(r, last) \in D
      OBVIOUS
    <2>1. height(r, last) \in Positive /\ r + height(r, last) <= last
      BY <1>3
    <2>. QED  BY <1>2, <2>1 DEF Positive
  <1>7. tail = def(tail)
    <2>1. \A r \in D : run(r) = IF r = last THEN {}
                                ELSE block(r, height(r, last)) \cup tail[r + height(r, last)]
      <3>1. \A r \in D : r = last \/ r \in lo..(last - 1)
        BY <1>2
      <3>. QED  BY <1>4, <1>5, <1>6, <3>1
    <2>. QED  BY <1>2, <2>1
  <1>8. from = def(from)
    <2>. HIDE DEF def
    <2>. QED  BY <1>7
  <1>9. from[lo] = tail[lo]
    <2>. HIDE DEF from
    <2>. DEFINE h == [r \in lo..(last - 1) |-> height(r, last)]
                b == [r \in lo..(last - 1) |-> block(r, height(r, last))]
    <2>1. lo <= last /\ last \in D
      BY <1>2 DEF last
    <2>2. \A r \in lo..(last - 1) : h[r] \in Positive /\ r + h[r] <= last
      BY <1>3
    <2>3. tail[last] = {} /\ from[last] = {}
      BY <1>2, <1>5, <1>8, <2>1
    <2>4. \A r \in lo..(last - 1) : tail[r] = b[r] \cup tail[r + h[r]]
      BY <1>4, <1>6
    <2>5. \A r \in lo..(last - 1) : from[r] = b[r] \cup from[r + h[r]]
      BY <1>2, <1>6, <1>8
    <2>. HIDE DEF h, b, tail
    <2>6. Gathers(tail, lo, last, h, b) /\ Gathers(from, lo, last, h, b)
      BY <2>2, <2>3, <2>4, <2>5 DEF Gathers
    <2>. QED  BY <1>2, <2>1, <2>6, StepsForward
  <1>10. tail[lo] = run(lo)
    <2>1. lo \in D
      BY <1>2 DEF last
    <2>. QED  BY <2>1
  <1>. HIDE DEF from, tail
  <1>. QED  BY <1>1, <1>9, <1>10 DEF from, def, D, end, run, last, height, block, ColumnBlocks

\* The elements of rows lo..hi are those whose quotient is in lo..hi.
LEMMA ElementsOfRows ==
    ASSUME NEW cc \in Positive, NEW lo \in Nat, NEW hi \in Nat, NEW a \in Int
    PROVE  a \in (lo * cc)..((hi + 1) * cc - 1) <=> a \in Nat /\ a \div cc \in lo..hi
  <1>1. lo * cc \in Nat /\ (hi + 1) * cc \in Nat /\ cc \in Nat
    BY DEF Positive
  <1>2. CASE a \in Nat
    <2>. DEFINE q == a \div cc
                o == a % cc
    <2>1. q \in Nat /\ o \in 0..(cc - 1) /\ a = q * cc + o
      BY <1>2, Division, Quotient
    <2>2. a < (hi + 1) * cc => q < hi + 1
      BY <1>2, BelowQuotient
    <2>. HIDE DEF q, o
    <2>3. q * cc \in Nat
      BY <1>1, <2>1
    <2>4. q <= hi => q * cc + cc <= (hi + 1) * cc
      BY <1>1, <2>1, SpansApart
    <2>5. lo <= q => lo * cc <= q * cc
      BY <1>1, <2>1, Monotone
    <2>6. q < lo => q * cc + cc <= lo * cc
      BY <1>1, <2>1, SpansApart
    <2>7. CASE lo <= q /\ q <= hi
      BY <1>1, <1>2, <2>1, <2>3, <2>4, <2>5, <2>7 DEF q
    <2>8. CASE q < lo
      BY <1>1, <1>2, <2>1, <2>3, <2>6, <2>8 DEF q
    <2>9. CASE q > hi
      BY <1>1, <1>2, <2>1, <2>2, <2>9 DEF q
    <2>. QED  BY <2>1, <2>7, <2>8, <2>9
  <1>3. CASE a \notin Nat
    BY <1>1, <1>3
  <1>. QED  BY <1>2, <1>3

\* What a lane stores of the column product: the rows of its span.
ColumnRows(c, lane, span) ==
    {<<lane, a, ColumnVal(c)[a]>> : a \in {x \in Nat : x \div c.Cc \in span}}

\* The lanes of the column product store the rows of their spans.
LEMMA ColumnLanes ==
    ASSUME NEW c, c.Cc \in Positive, c.Rr \in Positive, c.Outer \in Nat
    PROVE  bcast_col(c) =
               UNION {ColumnRows(c, lane, SpanOf(Cores, lane, c.Outer * c.Rr, AlignRows(c.Cc))) :
                          lane \in 0..(Cores - 1)}
  <1>. DEFINE RB == Max({TileCap \div c.Cc, 1})
              total == c.Outer * c.Rr
              height(r, end) == Min({RB, c.Rr - (r % c.Rr), end - r})
              block(lane, r, rb) ==
                   {<<lane, r * c.Cc + w,
                      <<r * c.Cc + w, bcast_baseB(c, r \div c.Rr) + (w % c.Cc)>>>> :
                       w \in 0..(rb * c.Cc - 1)}
              lanes(lane) ==
                  LET span == SpanOf(Cores, lane, total, AlignRows(c.Cc))
                      end == Max(span) + 1
                      from[r \in span \cup {end}] ==
                          IF r = end THEN {}
                          ELSE block(lane, r, height(r, end)) \cup from[r + height(r, end)]
                  IN  IF span = {} THEN {} ELSE from[Min(span)]
              rows(lane) == ColumnRows(c, lane, SpanOf(Cores, lane, total, AlignRows(c.Cc)))
  <1>1. bcast_col(c) = UNION {lanes(lane) : lane \in 0..(Cores - 1)}
    BY DEF bcast_col
  <1>2. RB \in Positive
    <2>1. TileCap \div c.Cc \in Nat /\ 1 \in Nat
      BY Constants, Quotient DEF Positive
    <2>2. RB \in Nat /\ RB >= 1
      BY <2>1, Greater
    <2>. QED  BY <2>2 DEF Positive
  <1>3. ASSUME NEW lane \in 0..(Cores - 1) PROVE lanes(lane) = rows(lane)
    <2>. DEFINE span == SpanOf(Cores, lane, total, AlignRows(c.Cc))
                chunk == RoundUp(CeilDiv(total, Cores), AlignRows(c.Cc))
                lo == lane * chunk
                hi == Least((lane + 1) * chunk, total) - 1
    <2>1. span = lo..hi
      BY DEF SpanOf
    <2>2. chunk \in Nat /\ total \in Nat
      <3>1. AlignRows(c.Cc) \in Positive /\ Cores \in Positive /\ total \in Nat
        BY AlignedRows, Constants DEF Positive
      <3>2. CeilDiv(total, Cores) \in Nat
        BY <3>1, RoundUpReaches
      <3>. QED  BY <3>1, <3>2, RoundUpReaches
    <2>. HIDE DEF chunk, total
    <2>3. lo \in Nat /\ hi \in Int
      <3>1. lane \in Nat /\ lane * chunk \in Nat /\ (lane + 1) * chunk \in Nat
        BY <2>2
      <3>. QED  BY <2>2, <3>1 DEF Least
    <2>. HIDE DEF lo, hi
    <2>4. CASE span = {}
      <3>1. rows(lane) = {}
        <4>. HIDE DEF span
        <4>. QED  BY <2>4 DEF ColumnRows, span
      <3>. QED  BY <2>4, <3>1
    <2>5. CASE span # {}
      <3>1. hi \in Nat /\ lo <= hi
        BY <2>1, <2>3, <2>5
      <3>2. lanes(lane) = Stretch(lane, ColumnVal(c), lo * c.Cc, (hi + 1) * c.Cc)
        <4>1. lanes(lane) = ColumnBlocks(c, lane, RB, span)
          BY <2>5 DEF ColumnBlocks, total
        <4>. HIDE DEF lanes, span, RB
        <4>2. ColumnBlocks(c, lane, RB, lo..hi)
                  = Stretch(lane, ColumnVal(c), lo * c.Cc, (hi + 1) * c.Cc)
          BY <1>2, <2>3, <3>1, ColumnLane
        <4>. QED  BY <2>1, <4>1, <4>2
      <3>3. (lo * c.Cc)..((hi + 1) * c.Cc - 1) = {x \in Nat : x \div c.Cc \in span}
        <4>. DEFINE cc == c.Cc
        <4>1. cc \in Positive
          OBVIOUS
        <4>. HIDE DEF cc
        <4>2. \A a \in Int : a \in (lo * cc)..((hi + 1) * cc - 1) <=> a \in Nat /\ a \div cc \in lo..hi
          BY <2>3, <3>1, <4>1, ElementsOfRows
        <4>3. lo * cc \in Int /\ (hi + 1) * cc - 1 \in Int
          BY <2>3, <3>1, <4>1 DEF Positive
        <4>4. (lo * cc)..((hi + 1) * cc - 1) = {x \in Nat : x \div cc \in lo..hi}
          BY <4>2, <4>3
        <4>. QED  BY <2>1, <4>4 DEF cc
      <3>4. Stretch(lane, ColumnVal(c), lo * c.Cc, (hi + 1) * c.Cc) = ColumnRows(c, lane, span)
        <4>. HIDE DEF span
        <4>. QED  BY <3>3 DEF Stretch, ColumnRows
      <3>. QED  BY <3>2, <3>4 DEF total
    <2>. QED  BY <2>4, <2>5
  <1>. HIDE DEF lanes, rows
  <1>4. {lanes(lane) : lane \in 0..(Cores - 1)} = {rows(lane) : lane \in 0..(Cores - 1)}
    BY <1>3
  <1>. QED  BY <1>1, <1>4 DEF rows, total

(***************************************************************************)
(* bcast_col_inline: whatever blocks the rows are moved in, every product  *)
(* is stored once, at its place and with the operand element of its group  *)
(* and column, and no two lanes store into one line of the output.         *)
(***************************************************************************)
THEOREM BroadcastColumnsRight ==
    ASSUME NEW c, c.Cc \in Positive, c.Rr \in Positive, c.Outer \in Nat
    PROVE  LET S == bcast_col(c)
               n == c.Outer * c.Rr * c.Cc
           IN  /\ StoredOnce(S) /\ LinesApart(S)
               /\ Image(S) = {<<a, ColumnVal(c)[a]>> : a \in 0..(n - 1)}
  <1>. DEFINE cc == c.Cc
              total == c.Outer * c.Rr
              S == bcast_col(c)
              grain == AlignRows(cc)
              n == total * cc
              val == ColumnVal(c)
              places == [u \in 0..(total - 1) |-> {x \in Nat : x \div cc = u}]
  <1>1. /\ cc \in Positive /\ total \in Nat /\ grain \in Positive /\ Cores \in Positive
        /\ LineElems \in Positive
    BY AlignedRows, Constants DEF Positive
  <1>2. S = UNION {ColumnRows(c, lane, SpanOf(Cores, lane, total, grain)) : lane \in 0..(Cores - 1)}
    BY ColumnLanes
  <1>3. \A lane, span : ColumnRows(c, lane, span) =
                            {<<lane, a, val[a]>> : a \in {x \in Nat : x \div cc \in span}}
    BY DEF ColumnRows
  <1>. HIDE DEF cc, total, S, grain, val
  <1>4. \A lane \in 0..(Cores - 1) : \A u \in SpanOf(Cores, lane, total, grain) : u \in 0..(total - 1)
    BY <1>1, LanesShare
  <1>5. Allots(S, Cores, grain, total, places, val)
    <2>1. ASSUME NEW s \in S
          PROVE  \E lane \in 0..(Cores - 1) : \E u \in SpanOf(Cores, lane, total, grain) :
                     s[2] \in places[u] /\ s = <<lane, s[2], val[s[2]]>>
      <3>1. PICK lane \in 0..(Cores - 1) :
                s \in ColumnRows(c, lane, SpanOf(Cores, lane, total, grain))
        BY <1>2
      <3>2. PICK a \in Nat : /\ a \div cc \in SpanOf(Cores, lane, total, grain)
                             /\ s = <<lane, a, val[a]>>
        BY <1>3, <3>1
      <3>3. s[2] = a /\ a \in places[a \div cc]
        BY <1>4, <3>2
      <3>. QED  BY <3>2, <3>3
    <2>2. ASSUME NEW lane \in 0..(Cores - 1), NEW u \in SpanOf(Cores, lane, total, grain),
                 NEW a \in places[u]
          PROVE  <<lane, a, val[a]>> \in S
      <3>1. a \in {x \in Nat : x \div cc \in SpanOf(Cores, lane, total, grain)}
        BY <1>4
      <3>2. <<lane, a, val[a]>> \in ColumnRows(c, lane, SpanOf(Cores, lane, total, grain))
        BY <1>3, <3>1
      <3>. QED  BY <1>2, <3>2
    <2>. HIDE DEF places
    <2>. QED  BY <2>1, <2>2 DEF Allots
  <1>6. /\ n \in Nat
        /\ \A x \in Nat : x \div cc < total <=> x < n
    <2>1. n \in Nat
      BY <1>1 DEF Positive
    <2>2. ASSUME NEW x \in Nat PROVE x \div cc < total <=> x < n
      <3>1. x < n => x \div cc < total
        BY <1>1, BelowQuotient
      <3>2. total # 0 => (x \div cc <= total - 1 => x < n)
        <4>. SUFFICES ASSUME total # 0, x \div cc <= total - 1 PROVE x < n
          OBVIOUS
        <4>1. total - 1 \in Nat /\ (total - 1) + 1 = total /\ 0 \in Nat /\ x \in Int
          BY <1>1
        <4>2. x \div cc \in 0..(total - 1)
          BY <1>1, <4>1, Quotient
        <4>3. x \in (0 * cc)..(((total - 1) + 1) * cc - 1)
          <5>. DEFINE hi == total - 1
          <5>. HIDE DEF hi
          <5>1. x \in (0 * cc)..((hi + 1) * cc - 1)
            BY <1>1, <4>1, <4>2, ElementsOfRows DEF hi
          <5>. QED  BY <5>1 DEF hi
        <4>. QED  BY <2>1, <4>1, <4>3
      <3>3. x \div cc \in Nat
        BY <1>1, Quotient
      <3>. QED  BY <1>1, <3>1, <3>2, <3>3
    <2>. QED  BY <2>1, <2>2
  <1>7. ASSUME NEW x \in Nat PROVE x \div cc \in Nat
    BY <1>1, Quotient
  <1>. HIDE DEF n
  <1>8. Apart(places, total, n)
    BY <1>1, <1>6 DEF Apart
  <1>9. Taken(places, total) = 0..(n - 1)
    BY <1>1, <1>6, <1>7 DEF Taken
  <1>10. /\ IsFiniteSet(S) /\ StoredOnce(S)
         /\ Image(S) = {<<a, val[a]>> : a \in 0..(n - 1)}
    <2>. HIDE DEF places
    <2>. QED  BY <1>1, <1>5, <1>6, <1>8, <1>9, UnitsRight
  <1>11. ASSUME NEW s \in S, NEW t \in S, s[2] \div LineElems = t[2] \div LineElems
         PROVE  s[1] = t[1]
    <2>1. \A p \in S : \E lane \in 0..(Cores - 1) :
              /\ p[1] = lane /\ p[2] \in Nat
              /\ p[2] \div cc \in SpanOf(Cores, lane, total, grain)
              /\ p[2] = (p[2] \div cc) * cc + (p[2] % cc)
              /\ p[2] % cc \in 0..(cc - 1)
      <3>. SUFFICES ASSUME NEW p \in S
                    PROVE  \E lane \in 0..(Cores - 1) :
                              /\ p[1] = lane /\ p[2] \in Nat
                              /\ p[2] \div cc \in SpanOf(Cores, lane, total, grain)
                              /\ p[2] = (p[2] \div cc) * cc + (p[2] % cc)
                              /\ p[2] % cc \in 0..(cc - 1)
        OBVIOUS
      <3>1. PICK lane \in 0..(Cores - 1) :
                p \in ColumnRows(c, lane, SpanOf(Cores, lane, total, grain))
        BY <1>2
      <3>2. PICK a \in Nat : /\ a \div cc \in SpanOf(Cores, lane, total, grain)
                             /\ p = <<lane, a, val[a]>>
        BY <1>3, <3>1
      <3>3. p[1] = lane /\ p[2] = a
        BY <3>2
      <3>4. a = (a \div cc) * cc + (a % cc) /\ a % cc \in 0..(cc - 1)
        BY <1>1, Division, Quotient
      <3>. QED  BY <3>2, <3>3, <3>4
    <2>2. PICK a \in 0..(Cores - 1) :
              /\ s[1] = a /\ s[2] \div cc \in SpanOf(Cores, a, total, grain)
              /\ s[2] = (s[2] \div cc) * cc + (s[2] % cc) /\ s[2] % cc \in 0..(cc - 1)
      BY <2>1
    <2>3. PICK b \in 0..(Cores - 1) :
              /\ t[1] = b /\ t[2] \div cc \in SpanOf(Cores, b, total, grain)
              /\ t[2] = (t[2] \div cc) * cc + (t[2] % cc) /\ t[2] % cc \in 0..(cc - 1)
      BY <2>1
    <2>. DEFINE r == s[2] \div cc
                i == s[2] % cc
                u == t[2] \div cc
                j == t[2] % cc
    <2>4. /\ r \in SpanOf(Cores, a, total, grain) /\ u \in SpanOf(Cores, b, total, grain)
          /\ i \in 0..(cc - 1) /\ j \in 0..(cc - 1)
          /\ (r * cc + i) \div LineElems = (u * cc + j) \div LineElems
      BY <1>11, <2>2, <2>3
    <2>. HIDE DEF r, i, u, j
    <2>5. a = b
      BY <1>1, <2>4, BroadcastRowsApart DEF grain
    <2>. QED  BY <2>2, <2>3, <2>5
  <1>12. LinesApart(S)
    BY <1>10, <1>11, OneLaneEach
  <1>. QED  BY <1>10, <1>12 DEF S, n, val, total, cc

\* Element a of the product with a scalar for each group of Inner elements.
ScalarVal(c) == [a \in Nat |-> <<a, bcast_baseB(c, a \div c.Inner)>>]

\* The chunks of a group, and what one stores.
ChunksPerGroup(c) == CeilDiv(c.Inner, TileCap)
ChunkPlaces(c, u) ==
    LET at == (u \div ChunksPerGroup(c)) * c.Inner + (u % ChunksPerGroup(c)) * TileCap
    IN  at..(at + Least(TileCap, c.Inner - (u % ChunksPerGroup(c)) * TileCap) - 1)

\* A group is made of chunks that end with it.
LEMMA ChunkOf ==
    ASSUME NEW c, c.Inner \in Positive, NEW u \in Nat
    PROVE  /\ ChunksPerGroup(c) \in Positive
           /\ \A a \in Int : a \in ChunkPlaces(c, u) <=>
                 /\ a \in Nat /\ a \div c.Inner = u \div ChunksPerGroup(c)
                 /\ (a % c.Inner) \div TileCap = u % ChunksPerGroup(c)
  <1>. DEFINE size == c.Inner
              cpg == ChunksPerGroup(c)
              g == u \div cpg
              k == u % cpg
              from == g * size
              off == k * TileCap
              at == from + off
  <1>1. size \in Positive /\ TileCap \in Positive
    BY Constants
  <1>. HIDE DEF size
  <1>2. cpg \in Positive
    <2>1. CeilDiv(size, TileCap) \in Nat /\ CeilDiv(size, TileCap) * TileCap >= size
      BY <1>1, RoundUpReaches DEF Positive
    <2>2. CeilDiv(size, TileCap) # 0
      BY <1>1, <2>1 DEF Positive
    <2>. QED  BY <2>1, <2>2 DEF ChunksPerGroup, Positive, size
  <1>. HIDE DEF cpg
  <1>3. g \in Nat /\ k \in Nat
    BY <1>2, Quotient
  <1>4. ChunkPlaces(c, u) = at..(at + Least(TileCap, size - off) - 1)
    BY DEF ChunkPlaces, size, cpg
  <1>. HIDE DEF g, k
  <1>5. from \in Nat /\ off \in Nat
    BY <1>1, <1>3 DEF Positive
  <1>6. \A x \in Nat : x \in off..(off + Least(size - off, TileCap) - 1)
                          <=> x < size /\ x \div TileCap = k
    <2>1. size \in Nat
      BY <1>1 DEF Positive
    <2>. QED  BY <1>1, <1>3, <2>1, EdgeBlock
  <1>7. ASSUME NEW a \in Int, a \in ChunkPlaces(c, u)
        PROVE  /\ a \in Nat /\ a \div size = g
               /\ (a % size) \div TileCap = k
    <2>. DEFINE x == a - from
    <2>1. x \in Nat /\ x \in off..(off + Least(size - off, TileCap) - 1) /\ a = from + x /\ a \in Nat
      <3>. HIDE DEF from, off
      <3>. QED  BY <1>1, <1>4, <1>5, <1>7 DEF Least, Positive
    <2>. HIDE DEF x
    <2>2. x < size /\ x \div TileCap = k
      BY <1>6, <2>1
    <2>3. x \in 0..(size - 1)
      BY <1>1, <2>1, <2>2 DEF Positive
    <2>4. a = g * size + x
      BY <2>1
    <2>5. a \div size = g /\ a % size = x
      BY <1>1, <1>3, <2>1, <2>3, <2>4, DivisionUnique
    <2>. QED  BY <2>1, <2>2, <2>5
  <1>8. ASSUME NEW a \in Nat, a \div size = g, (a % size) \div TileCap = k
        PROVE  a \in ChunkPlaces(c, u)
    <2>. DEFINE x == a % size
    <2>1. x \in 0..(size - 1) /\ a = g * size + x
      BY <1>1, <1>8, Division, Quotient
    <2>. HIDE DEF x
    <2>2. x \in off..(off + Least(size - off, TileCap) - 1)
      BY <1>1, <1>6, <1>8, <2>1 DEF x, Positive
    <2>3. a = from + x
      BY <2>1
    <2>. HIDE DEF from, off
    <2>. QED  BY <1>1, <1>4, <1>5, <2>1, <2>2, <2>3 DEF Least, Positive
  <1>. QED  BY <1>2, <1>7, <1>8 DEF size, g, k, cpg

(***************************************************************************)
(* bcast_scalar_inline: every element of every group is stored once, at    *)
(* its place and with the scalar of its group, whatever the size of a      *)
(* group and the number of chunks it is cut into.                          *)
(***************************************************************************)
THEOREM BroadcastScalarsRight ==
    ASSUME NEW c, c.Inner \in Positive, c.Outer \in Nat
    PROVE  LET S == bcast_scalar(c)
               n == c.Outer * c.Inner
           IN  /\ StoredOnce(S)
               /\ Image(S) = {<<a, ScalarVal(c)[a]>> : a \in 0..(n - 1)}
  <1>. DEFINE size == c.Inner
              outer == c.Outer
              cpg == ChunksPerGroup(c)
              units == outer * cpg
              n == outer * size
              val == ScalarVal(c)
              S == bcast_scalar(c)
              places == [u \in 0..(units - 1) |-> ChunkPlaces(c, u)]
              at(u) == (u \div cpg) * size + (u % cpg) * TileCap
              unit(lane, u) ==
                  {<<lane, at(u) + x, <<at(u) + x, bcast_baseB(c, u \div cpg)>>>> :
                      x \in 0..(Least(TileCap, size - (u % cpg) * TileCap) - 1)}
              span(lane) == SpanOf(Cores, lane, units, 1)
  <1>1. /\ size \in Positive /\ outer \in Nat /\ cpg \in Positive
        /\ TileCap \in Positive /\ Cores \in Positive /\ 1 \in Positive
    BY Constants, ChunkOf DEF Positive
  <1>2. S = UNION {UNION {unit(lane, u) : u \in span(lane)} : lane \in 0..(Cores - 1)}
    BY DEF bcast_scalar, ChunksPerGroup
  <1>3. units \in Nat /\ n \in Nat
    BY <1>1 DEF Positive
  <1>4. \A u \in Nat : \A a \in Int : a \in ChunkPlaces(c, u) <=>
            a \in Nat /\ a \div size = u \div cpg /\ (a % size) \div TileCap = u % cpg
    BY ChunkOf
  <1>5. \A u \in Nat : ChunkPlaces(c, u) =
            at(u)..(at(u) + Least(TileCap, size - (u % cpg) * TileCap) - 1)
    BY DEF ChunkPlaces
  <1>6. val = [a \in Nat |-> <<a, bcast_baseB(c, a \div size)>>]
    BY DEF ScalarVal
  <1>. HIDE DEF size, outer, cpg, units, n, val, S
  <1>7. \A lane \in 0..(Cores - 1) : \A u \in span(lane) : u \in 0..(units - 1)
    BY <1>1, <1>3, LanesShare
  <1>8. ASSUME NEW lane \in 0..(Cores - 1), NEW u \in 0..(units - 1)
        PROVE  unit(lane, u) = {<<lane, a, val[a]>> : a \in ChunkPlaces(c, u)}
    <2>. DEFINE w == Least(TileCap, size - (u % cpg) * TileCap)
    <2>1. at(u) \in Nat /\ w \in Int /\ u \in Nat
      <3>1. u \in Nat /\ u \div cpg \in Nat /\ u % cpg \in Nat
        BY <1>1, <1>3, Quotient
      <3>2. (u \div cpg) * size \in Nat /\ (u % cpg) * TileCap \in Nat
        BY <1>1, <3>1 DEF Positive
      <3>. QED  BY <1>1, <3>1, <3>2 DEF Least, Positive
    <2>2. ChunkPlaces(c, u) = at(u)..(at(u) + w - 1)
      BY <1>5, <2>1
    <2>3. ASSUME NEW a \in ChunkPlaces(c, u)
          PROVE  val[a] = <<a, bcast_baseB(c, u \div cpg)>>
      <3>1. a \in Int
        <4>. HIDE DEF at, w
        <4>. QED  BY <2>1, <2>2
      <3>2. a \in Nat /\ a \div size = u \div cpg
        BY <1>4, <2>1, <3>1
      <3>. QED  BY <1>6, <3>2
    <2>. DEFINE b == at(u)
    <2>. HIDE DEF w
    <2>4. unit(lane, u) = {<<lane, b + x, <<b + x, bcast_baseB(c, u \div cpg)>>>> : x \in 0..(w - 1)}
      BY DEF w
    <2>. HIDE DEF b, unit
    <2>5. unit(lane, u) = {<<lane, a, <<a, bcast_baseB(c, u \div cpg)>>>> : a \in b..(b + w - 1)}
      <3>1. b \in Nat
        BY <2>1 DEF b
      <3>2. \A x \in 0..(w - 1) : b + x \in b..(b + w - 1)
        BY <2>1, <3>1
      <3>3. \A a \in b..(b + w - 1) : \E x \in 0..(w - 1) : a = b + x
        <4>. SUFFICES ASSUME NEW a \in b..(b + w - 1) PROVE \E x \in 0..(w - 1) : a = b + x
          OBVIOUS
        <4>1. a - b \in 0..(w - 1) /\ a = b + (a - b)
          BY <2>1, <3>1
        <4>. QED  BY <4>1
      <3>. QED  BY <2>4, <3>2, <3>3
    <2>. QED  BY <2>2, <2>3, <2>5 DEF b
  <1>. HIDE DEF unit, span
  <1>9. Allots(S, Cores, 1, units, places, val)
    <2>1. ASSUME NEW s \in S
          PROVE  \E lane \in 0..(Cores - 1) : \E u \in span(lane) :
                     s[2] \in places[u] /\ s = <<lane, s[2], val[s[2]]>>
      <3>1. PICK lane \in 0..(Cores - 1) : \E u \in span(lane) : s \in unit(lane, u)
        BY <1>2
      <3>2. PICK u \in span(lane) : s \in unit(lane, u)
        BY <3>1
      <3>3. u \in 0..(units - 1)
        BY <1>7
      <3>4. PICK a \in ChunkPlaces(c, u) : s = <<lane, a, val[a]>>
        BY <1>8, <3>2, <3>3
      <3>5. s[2] = a /\ a \in places[u]
        BY <3>3, <3>4
      <3>. QED  BY <3>4, <3>5
    <2>2. ASSUME NEW lane \in 0..(Cores - 1), NEW u \in span(lane), NEW a \in places[u]
          PROVE  <<lane, a, val[a]>> \in S
      <3>1. u \in 0..(units - 1) /\ a \in ChunkPlaces(c, u)
        BY <1>7
      <3>2. <<lane, a, val[a]>> \in unit(lane, u)
        BY <1>8, <3>1
      <3>. QED  BY <1>2, <3>2
    <2>. HIDE DEF places
    <2>. QED  BY <2>1, <2>2 DEF Allots, span
  <1>10. \A a \in Nat : a \in 0..(n - 1) <=> a \div size \in 0..(outer - 1)
    <2>. SUFFICES ASSUME NEW a \in Nat PROVE a < n <=> a \div size < outer
      BY <1>1, <1>3, Quotient
    <2>1. a < n => a \div size < outer
      BY <1>1, BelowQuotient DEF n
    <2>. DEFINE q == a \div size
                o == a % size
    <2>2. q \in Nat /\ o \in 0..(size - 1) /\ a = q * size + o
      BY <1>1, Division, Quotient
    <2>. HIDE DEF q, o
    <2>3. q < outer => q * size + size <= n
      BY <1>1, <2>2, SpansApart DEF n, Positive
    <2>4. q * size \in Nat
      BY <1>1, <2>2 DEF Positive
    <2>5. q < outer => a < n
      BY <1>1, <1>3, <2>2, <2>3, <2>4 DEF Positive
    <2>. QED  BY <2>1, <2>5 DEF q
  <1>11. \A u \in 0..(units - 1) : u \div cpg \in 0..(outer - 1)
    <2>. SUFFICES ASSUME NEW u \in 0..(units - 1) PROVE u \div cpg \in 0..(outer - 1)
      OBVIOUS
    <2>1. u \in Nat /\ u < outer * cpg
      BY <1>3 DEF units
    <2>2. u \div cpg < outer /\ u \div cpg \in Nat
      BY <1>1, <2>1, BelowQuotient, Quotient
    <2>. QED  BY <1>1, <2>2
  <1>12. \A u \in 0..(units - 1) : ChunkPlaces(c, u) \subseteq Int
    <2>. SUFFICES ASSUME NEW u \in 0..(units - 1) PROVE ChunkPlaces(c, u) \subseteq Int
      OBVIOUS
    <2>. DEFINE w == Least(TileCap, size - (u % cpg) * TileCap)
                b == at(u)
    <2>1. u \in Nat
      BY <1>3
    <2>2. ChunkPlaces(c, u) = b..(b + w - 1)
      BY <1>5, <2>1
    <2>. HIDE DEF w, b
    <2>. QED  BY <2>2
  <1>13. Apart(places, units, n)
    <2>1. ASSUME NEW u \in 0..(units - 1) PROVE places[u] \subseteq 0..(n - 1)
      <3>. SUFFICES ASSUME NEW a \in ChunkPlaces(c, u) PROVE a \in 0..(n - 1)
        OBVIOUS
      <3>1. a \in Int /\ u \in Nat
        BY <1>3, <1>12
      <3>2. a \in Nat /\ a \div size = u \div cpg
        BY <1>4, <3>1
      <3>. QED  BY <1>10, <1>11, <3>2
    <2>2. ASSUME NEW u \in 0..(units - 1), NEW v \in 0..(units - 1), NEW a \in places[u],
                 a \in places[v]
          PROVE  u = v
      <3>1. a \in Int /\ u \in Nat /\ v \in Nat /\ a \in ChunkPlaces(c, u) /\ a \in ChunkPlaces(c, v)
        BY <1>3, <1>12, <2>2
      <3>2. u \div cpg = v \div cpg /\ u % cpg = v % cpg
        BY <1>4, <3>1
      <3>3. u = (u \div cpg) * cpg + (u % cpg) /\ v = (v \div cpg) * cpg + (v % cpg)
        BY <1>1, <3>1, Division
      <3>. QED  BY <3>2, <3>3
    <2>. HIDE DEF places
    <2>. QED  BY <2>1, <2>2 DEF Apart
  <1>14. Taken(places, units) = 0..(n - 1)
    <2>1. Taken(places, units) \subseteq 0..(n - 1)
      BY <1>13 DEF Taken, Apart
    <2>2. ASSUME NEW a \in 0..(n - 1) PROVE \E u \in 0..(units - 1) : a \in ChunkPlaces(c, u)
      <3>. DEFINE q == a \div size
                  k == (a % size) \div TileCap
                  u == q * cpg + k
      <3>1. a \in Nat /\ q \in 0..(outer - 1)
        BY <1>3, <1>10
      <3>2. k \in 0..(cpg - 1)
        <4>1. a % size \in 0..(size - 1) /\ a % size \in Nat
          BY <1>1, <3>1, Quotient
        <4>2. cpg * TileCap >= size /\ cpg * TileCap \in Nat
          <5>1. CeilDiv(size, TileCap) * TileCap >= size
            BY <1>1, RoundUpReaches DEF Positive
          <5>2. cpg = CeilDiv(size, TileCap)
            BY DEF cpg, size, ChunksPerGroup
          <5>. QED  BY <1>1, <5>1, <5>2 DEF Positive
        <4>3. a % size < cpg * TileCap
          BY <1>1, <4>1, <4>2 DEF Positive
        <4>4. k < cpg /\ k \in Nat
          BY <1>1, <4>1, <4>3, BelowQuotient, Quotient DEF Positive
        <4>. QED  BY <1>1, <4>4 DEF Positive
      <3>. HIDE DEF q, k
      <3>3. u \in Nat /\ u < units
        <4>1. q \in Nat /\ q < outer /\ cpg \in Nat
          BY <1>1, <3>1 DEF Positive
        <4>2. q * cpg + cpg <= outer * cpg /\ q * cpg \in Nat
          BY <1>1, <4>1, SpansApart
        <4>. QED  BY <1>1, <1>3, <3>2, <4>1, <4>2 DEF units
      <3>4. u \div cpg = q /\ u % cpg = k
        BY <1>1, <3>1, <3>2, <3>3, DivisionUnique
      <3>. HIDE DEF u
      <3>5. a \in ChunkPlaces(c, u)
        BY <1>4, <3>1, <3>3, <3>4 DEF q, k
      <3>6. u \in 0..(units - 1)
        BY <1>3, <3>3
      <3>. QED  BY <3>5, <3>6
    <2>. QED  BY <2>1, <2>2 DEF Taken
  <1>15. /\ StoredOnce(S)
         /\ Image(S) = {<<a, val[a]>> : a \in 0..(n - 1)}
    <2>. HIDE DEF places
    <2>. QED  BY <1>1, <1>3, <1>9, <1>13, <1>14, UnitsRight
  <1>. QED  BY <1>15 DEF S, n, val, size, outer
-----------------------------------------------------------------------------
(* Transposes, row by row of what is stored *)

\* Row q of W elements goes to off[q]; rows do not overlap.
Spaced(off, W, rows) ==
    /\ \A q \in 0..(rows - 1) : off[q] \in Nat
    /\ \A p, q \in 0..(rows - 1) : p < q => off[p] + W <= off[q]

\* Where element j of the result goes.
RowPlace(off, W, j) == off[j \div W] + (j % W)

\* Elements of rows that do not overlap have places of their own.
LEMMA PlacesApart ==
    ASSUME NEW W \in Positive, NEW rows \in Nat, NEW off, Spaced(off, W, rows),
           NEW i \in 0..(rows * W - 1), NEW j \in 0..(rows * W - 1),
           RowPlace(off, W, i) = RowPlace(off, W, j)
    PROVE  i = j
  <1>. DEFINE p == i \div W
              q == j \div W
              x == i % W
              y == j % W
  <1>1. i \in Nat /\ j \in Nat /\ rows * W \in Nat /\ i < rows * W /\ j < rows * W
    BY DEF Positive
  <1>2. /\ p \in Nat /\ q \in Nat /\ x \in 0..(W - 1) /\ y \in 0..(W - 1)
        /\ p < rows /\ q < rows
    BY <1>1, Quotient, BelowQuotient
  <1>3. i = p * W + x /\ j = q * W + y
    BY <1>1, Division
  <1>4. off[p] + x = off[q] + y
    BY DEF RowPlace
  <1>. HIDE DEF p, q, x, y
  <1>5. p \in 0..(rows - 1) /\ q \in 0..(rows - 1)
    BY <1>2
  <1>6. off[p] \in Nat /\ off[q] \in Nat /\ (p < q => off[p] + W <= off[q])
        /\ (q < p => off[q] + W <= off[p])
    BY <1>5 DEF Spaced
  <1>7. p = q
    BY <1>2, <1>4, <1>6 DEF Positive
  <1>8. x = y
    BY <1>2, <1>4, <1>6, <1>7
  <1>. QED  BY <1>3, <1>7, <1>8

\* S is what the lanes store that share n units: element j, in unit[j], is
\* src[j] of the source.
ByUnits(S, n, unit, off, W, src, N) ==
    /\ \A s \in S : \E lane \in LaneSet : \E j \in 0..(N - 1) :
           unit[j] \in Span(lane, n) /\ s = <<lane, RowPlace(off, W, j), src[j]>>
    /\ \A lane \in LaneSet : \A j \in 0..(N - 1) :
           unit[j] \in Span(lane, n) => <<lane, RowPlace(off, W, j), src[j]>> \in S

\* What a routine should leave: every element of the result once, in rows.
LaysRows(S, off, W, src, N) ==
    /\ StoredOnce(S)
    /\ Image(S) = {<<RowPlace(off, W, j), src[j]>> : j \in 0..(N - 1)}

\* Whatever the units, every element is stored once, at its place.
LEMMA RowsRight ==
    ASSUME NEW W \in Positive, NEW rows \in Nat, NEW off, Spaced(off, W, rows),
           NEW n \in Nat, NEW unit, NEW src, NEW S, NEW N, N = rows * W,
           \A j \in 0..(N - 1) : unit[j] \in 0..(n - 1),
           ByUnits(S, n, unit, off, W, src, N)
    PROVE  LaysRows(S, off, W, src, N)
  <1>. DEFINE store(lane, j) == <<lane, RowPlace(off, W, j), src[j]>>
              J == 0..(N - 1)
  <1>. DEFINE m == Lanes
  <1>0. m \in Positive /\ 1 \in Positive
    BY Constants DEF Positive
  <1>1. \A x \in 0..(n - 1) : \E lane \in LaneSet : x \in Span(lane, n)
    <2>. HIDE DEF m
    <2>1. \A x \in 0..(n - 1) : \E lane \in 0..(m - 1) : x \in SpanOf(m, lane, n, 1)
      BY <1>0, LanesShare
    <2>. QED  BY <2>1 DEF LaneSet, Span, m
  <1>2. \A a, b \in LaneSet : \A x \in Span(a, n) : x \in Span(b, n) => a = b
    <2>. HIDE DEF m
    <2>1. \A a, b \in 0..(m - 1) : \A x \in SpanOf(m, a, n, 1) :
              x \in SpanOf(m, b, n, 1) => a = b
      BY <1>0, LanesShare
    <2>. QED  BY <2>1 DEF LaneSet, Span, m
  <1>3. \A i, j \in J : RowPlace(off, W, i) = RowPlace(off, W, j) => i = j
    BY PlacesApart
  <1>4. \A s \in S : \E lane \in LaneSet : \E j \in J :
            unit[j] \in Span(lane, n) /\ s = store(lane, j)
    BY DEF ByUnits
  <1>5. \A lane \in LaneSet : \A j \in J : unit[j] \in Span(lane, n) => store(lane, j) \in S
    BY DEF ByUnits
  <1>6. IsFiniteSet(S)
    <2>. DEFINE D == LaneSet \X J
                f == [p \in D |-> store(p[1], p[2])]
                P == {store(p[1], p[2]) : p \in D}
    <2>1. IsFiniteSet(D)
      <3>1. IsFiniteSet(0..(Lanes - 1)) /\ IsFiniteSet(J)
        <4>1. m - 1 \in Int /\ N - 1 \in Int
          BY <1>0 DEF Positive
        <4>. QED  BY <4>1, FS_Interval DEF m
      <3>. QED  BY <3>1, FS_Product DEF LaneSet
    <2>2. f \in Surjection(D, P)
      <3>. HIDE DEF store
      <3>. QED  BY DEF Surjection
    <2>3. S \subseteq P
      <3>. SUFFICES ASSUME NEW s \in S PROVE s \in P
        OBVIOUS
      <3>1. PICK lane \in LaneSet : \E j \in J : s = store(lane, j)
        BY <1>4
      <3>2. PICK j \in J : s = store(lane, j)
        BY <3>1
      <3>. HIDE DEF store
      <3>3. <<lane, j>> \in D
        OBVIOUS
      <3>. QED  BY <3>2, <3>3
    <2>. HIDE DEF D, f, P
    <2>. QED  BY <2>1, <2>2, <2>3, FS_Surjection, FS_Subset
  <1>7. ASSUME NEW s \in S, NEW t \in S, s[2] = t[2] PROVE s = t
    <2>1. PICK a \in LaneSet : \E i \in J : unit[i] \in Span(a, n) /\ s = store(a, i)
      BY <1>4
    <2>2. PICK i \in J : unit[i] \in Span(a, n) /\ s = store(a, i)
      BY <2>1
    <2>3. PICK b \in LaneSet : \E j \in J : unit[j] \in Span(b, n) /\ t = store(b, j)
      BY <1>4
    <2>4. PICK j \in J : unit[j] \in Span(b, n) /\ t = store(b, j)
      BY <2>3
    <2>5. RowPlace(off, W, i) = RowPlace(off, W, j)
      <3>1. s[2] = RowPlace(off, W, i) /\ t[2] = RowPlace(off, W, j)
        BY <2>2, <2>4
      <3>. QED  BY <1>7, <3>1
    <2>6. i = j
      BY <1>3, <2>5
    <2>7. a = b
      BY <1>2, <2>2, <2>4, <2>6
    <2>. QED  BY <2>2, <2>4, <2>6, <2>7
  <1>8. StoredOnce(S)
    BY <1>6, <1>7, OneAddressEach
  <1>9. Image(S) = {<<RowPlace(off, W, j), src[j]>> : j \in J}
    <2>1. ASSUME NEW s \in S
          PROVE  <<s[2], s[3]>> \in {<<RowPlace(off, W, j), src[j]>> : j \in J}
      <3>1. PICK lane \in LaneSet : \E j \in J : s = store(lane, j)
        BY <1>4
      <3>2. PICK j \in J : s = store(lane, j)
        BY <3>1
      <3>3. s[2] = RowPlace(off, W, j) /\ s[3] = src[j]
        BY <3>2
      <3>. QED  BY <3>3
    <2>2. ASSUME NEW j \in J PROVE <<RowPlace(off, W, j), src[j]>> \in Image(S)
      <3>1. PICK lane \in LaneSet : unit[j] \in Span(lane, n)
        BY <1>1
      <3>2. store(lane, j) \in S
        BY <1>5, <3>1
      <3>3. store(lane, j)[2] = RowPlace(off, W, j) /\ store(lane, j)[3] = src[j]
        OBVIOUS
      <3>. HIDE DEF store
      <3>4. <<store(lane, j)[2], store(lane, j)[3]>> \in Image(S)
        BY <3>2 DEF Image
      <3>. QED  BY <3>3, <3>4
    <2>. QED  BY <2>1, <2>2 DEF Image
  <1>. QED  BY <1>8, <1>9 DEF LaysRows

\* S is what the lanes store that copy runs of W elements, run q from base[q].
Runs(S, rows, off, base, W) ==
    \A s : s \in S <=> \E lane \in LaneSet : \E q \in Span(lane, rows) : \E x \in 0..(W - 1) :
                           s = <<lane, off[q] + x, base[q] + x>>

\* Of what the lanes share, everything is theirs.
LEMMA SpanInside ==
    ASSUME NEW n \in Nat, NEW lane \in LaneSet, NEW u \in Span(lane, n)
    PROVE  u \in 0..(n - 1)
  <1>. DEFINE m == Lanes
  <1>1. m \in Positive /\ 1 \in Positive
    BY Constants DEF Positive
  <1>. HIDE DEF m
  <1>2. \A a \in 0..(m - 1) : \A x \in SpanOf(m, a, n, 1) : x \in 0..(n - 1)
    BY <1>1, LanesShare
  <1>. QED  BY <1>2 DEF LaneSet, Span, m

\* Element x of row q.
LEMMA ElementOfRow ==
    ASSUME NEW W \in Positive, NEW rows \in Nat, NEW q \in 0..(rows - 1), NEW x \in 0..(W - 1)
    PROVE  /\ q * W + x \in 0..(rows * W - 1)
           /\ (q * W + x) \div W = q /\ (q * W + x) % W = x
  <1>1. q \in Nat /\ x \in Nat /\ q * W + x \in Nat
    BY DEF Positive
  <1>2. (q * W + x) \div W = q /\ (q * W + x) % W = x
    BY <1>1, DivisionUnique
  <1>3. q * W + W <= rows * W
    BY SpansApart DEF Positive
  <1>4. q * W \in Nat /\ rows * W \in Nat
    BY DEF Positive
  <1>5. q * W + x \in 0..(rows * W - 1)
    <2>. DEFINE a == q * W
                b == rows * W
    <2>1. a \in Nat /\ b \in Nat /\ a + W <= b
      BY <1>3, <1>4
    <2>. HIDE DEF a, b
    <2>2. a + x \in 0..(b - 1)
      BY <2>1 DEF Positive
    <2>. QED  BY <2>2 DEF a, b
  <1>. QED  BY <1>2, <1>5

\* An element has a row.
LEMMA RowOfElement ==
    ASSUME NEW W \in Positive, NEW rows \in Nat, NEW j \in 0..(rows * W - 1)
    PROVE  /\ j \div W \in 0..(rows - 1) /\ j % W \in 0..(W - 1)
           /\ j = (j \div W) * W + (j % W)
  <1>1. j \in Nat /\ j < rows * W
    BY DEF Positive
  <1>2. j \div W \in Nat /\ j % W \in 0..(W - 1) /\ j \div W < rows
    BY <1>1, Quotient, BelowQuotient
  <1>. QED  BY <1>1, <1>2, Division

\* Runs that are rows of the result leave the result.
LEMMA RunsRight ==
    ASSUME NEW W \in Positive, NEW rows \in Nat, NEW off, Spaced(off, W, rows),
           NEW base, NEW src, NEW S, Runs(S, rows, off, base, W), NEW N, N = rows * W,
           \A q \in 0..(rows - 1) : \A x \in 0..(W - 1) : src[q * W + x] = base[q] + x
    PROVE  LaysRows(S, off, W, src, N)
  <1>. DEFINE unit == [j \in Nat |-> j \div W]
  <1>1. ASSUME NEW j \in 0..(N - 1)
        PROVE  /\ unit[j] = j \div W /\ unit[j] \in 0..(rows - 1) /\ j % W \in 0..(W - 1)
               /\ src[j] = base[j \div W] + (j % W)
    <2>1. /\ j \div W \in 0..(rows - 1) /\ j % W \in 0..(W - 1)
          /\ j = (j \div W) * W + (j % W)
      BY RowOfElement
    <2>2. src[(j \div W) * W + (j % W)] = base[j \div W] + (j % W)
      BY <2>1
    <2>3. j \in Nat
      OBVIOUS
    <2>. QED  BY <2>1, <2>2, <2>3
  <1>2. ASSUME NEW q \in 0..(rows - 1), NEW x \in 0..(W - 1)
        PROVE  LET j == q * W + x
               IN  /\ j \in 0..(N - 1) /\ unit[j] = q
                   /\ RowPlace(off, W, j) = off[q] + x /\ src[j] = base[q] + x
    <2>1. q * W + x \in 0..(N - 1) /\ (q * W + x) \div W = q /\ (q * W + x) % W = x
      BY ElementOfRow
    <2>2. q * W + x \in Nat
      BY <2>1
    <2>. QED  BY <2>1, <2>2 DEF RowPlace
  <1>. HIDE DEF unit
  <1>3. ASSUME NEW s \in S
        PROVE  \E lane \in LaneSet : \E j \in 0..(N - 1) :
                   unit[j] \in Span(lane, rows) /\ s = <<lane, RowPlace(off, W, j), src[j]>>
    <2>1. PICK lane \in LaneSet : \E q \in Span(lane, rows) : \E x \in 0..(W - 1) :
                  s = <<lane, off[q] + x, base[q] + x>>
      BY DEF Runs
    <2>2. PICK q \in Span(lane, rows) : \E x \in 0..(W - 1) :
                  s = <<lane, off[q] + x, base[q] + x>>
      BY <2>1
    <2>3. PICK x \in 0..(W - 1) : s = <<lane, off[q] + x, base[q] + x>>
      BY <2>2
    <2>4. q \in 0..(rows - 1)
      BY SpanInside
    <2>. QED  BY <1>2, <2>3, <2>4
  <1>4. ASSUME NEW lane \in LaneSet, NEW j \in 0..(N - 1), unit[j] \in Span(lane, rows)
        PROVE  <<lane, RowPlace(off, W, j), src[j]>> \in S
    <2>1. <<lane, off[j \div W] + (j % W), base[j \div W] + (j % W)>> \in S
      BY <1>1, <1>4 DEF Runs
    <2>. QED  BY <1>1, <2>1 DEF RowPlace
  <1>5. ByUnits(S, rows, unit, off, W, src, N)
    BY <1>3, <1>4 DEF ByUnits
  <1>. QED  BY <1>1, <1>5, RowsRight

\* Rows a stride apart; batches of A rows, a block apart.
Evenly(stride) == [q \in Nat |-> q * stride]
InBatches(A, block, stride) == [q \in Nat |-> (q \div A) * block + (q % A) * stride]

\* Strides that leave room for a row, and for a batch, keep rows apart.
LEMMA EvenlySpaced ==
    ASSUME NEW W \in Nat, NEW stride \in Nat, W <= stride, NEW rows \in Nat
    PROVE  Spaced(Evenly(stride), W, rows)
  <1>1. ASSUME NEW q \in 0..(rows - 1) PROVE Evenly(stride)[q] = q * stride /\ q * stride \in Nat
    BY DEF Evenly
  <1>2. ASSUME NEW p \in 0..(rows - 1), NEW q \in 0..(rows - 1), p < q
        PROVE  p * stride + W <= q * stride
    <2>. DEFINE a == p * stride
                b == q * stride
    <2>1. a + stride <= b
      BY <1>2, SpansApart
    <2>2. a \in Nat /\ b \in Nat
      BY <1>1
    <2>. HIDE DEF a, b
    <2>3. a + W <= b
      BY <2>1, <2>2
    <2>. QED  BY <2>3 DEF a, b
  <1>. QED  BY <1>1, <1>2 DEF Spaced

\* Rows of a batch, and batches a block apart, have room for a row each.
LEMMA BatchesSpaced ==
    ASSUME NEW W \in Nat, NEW stride \in Nat, W <= stride, NEW A \in Positive, NEW block \in Nat,
           A * stride <= block, NEW rows \in Nat
    PROVE  Spaced(InBatches(A, block, stride), W, rows)
  <1>. DEFINE off == InBatches(A, block, stride)
  <1>1. ASSUME NEW q \in 0..(rows - 1)
        PROVE  /\ off[q] = (q \div A) * block + (q % A) * stride
               /\ q \div A \in Nat /\ q % A \in 0..(A - 1)
               /\ (q \div A) * block \in Nat /\ (q % A) * stride \in Nat
    <2>1. q \div A \in Nat /\ q % A \in 0..(A - 1)
      BY Quotient
    <2>2. q % A \in Nat
      BY <2>1
    <2>. QED  BY <2>1, <2>2 DEF InBatches
  <1>2. ASSUME NEW p \in 0..(rows - 1), NEW q \in 0..(rows - 1), p < q
        PROVE  off[p] + W <= off[q]
    <2>. DEFINE a == p \div A
                b == q \div A
                x == p % A
                y == q % A
    <2>1. /\ a \in Nat /\ b \in Nat /\ x \in 0..(A - 1) /\ y \in 0..(A - 1)
          /\ off[p] = a * block + x * stride /\ off[q] = b * block + y * stride
          /\ a * block \in Nat /\ b * block \in Nat /\ x * stride \in Nat /\ y * stride \in Nat
      BY <1>1
    <2>2. p = a * A + x /\ q = b * A + y
      BY Division
    <2>. HIDE DEF a, b, x, y, off
    <2>3. x \in Nat /\ y \in Nat /\ A \in Nat /\ a * A \in Nat /\ b * A \in Nat
      BY <2>1 DEF Positive
    <2>4. a <= b
      <3>1. CASE b < a
        <4>1. b * A + A <= a * A
          BY <2>1, <2>3, <3>1, SpansApart
        <4>. DEFINE bA == b * A
                    aA == a * A
        <4>. HIDE DEF bA, aA
        <4>2. bA + A <= aA /\ p = aA + x /\ q = bA + y /\ aA \in Nat /\ bA \in Nat
          BY <2>2, <2>3, <4>1 DEF aA, bA
        <4>. QED  BY <1>2, <2>1, <2>3, <4>2
      <3>. QED  BY <2>1, <3>1
    <2>5. CASE a = b
      <3>1. x < y
        BY <1>2, <2>2, <2>3, <2>5
      <3>2. x * stride + stride <= y * stride
        BY <2>3, <3>1, SpansApart
      <3>. DEFINE xs == x * stride
                  ys == y * stride
                  ab == a * block
      <3>3. xs \in Nat /\ ys \in Nat /\ ab \in Nat /\ xs + stride <= ys
            /\ off[p] = ab + xs /\ off[q] = ab + ys
        BY <2>1, <2>5, <3>2
      <3>. HIDE DEF xs, ys, ab
      <3>. QED  BY <3>3
    <2>6. CASE a < b
      <3>1. a * block + block <= b * block
        BY <2>1, <2>6, SpansApart
      <3>2. x * stride + stride <= A * stride
        BY <2>1, <2>3, SpansApart
      <3>. DEFINE xs == x * stride
                  ys == y * stride
                  ab == a * block
                  bb == b * block
                  As == A * stride
      <3>3. /\ xs \in Nat /\ ys \in Nat /\ ab \in Nat /\ bb \in Nat /\ As \in Nat
            /\ ab + block <= bb /\ xs + stride <= As /\ As <= block
            /\ off[p] = ab + xs /\ off[q] = bb + ys
        BY <2>1, <2>3, <3>1, <3>2
      <3>. HIDE DEF xs, ys, ab, bb, As
      <3>. QED  BY <3>3
    <2>. QED  BY <2>1, <2>4, <2>5, <2>6
  <1>. QED  BY <1>1, <1>2 DEF Spaced

\* An operand that keeps its order is read in it.
LEMMA DecodeRowMajor ==
    ASSUME NEW n \in Nat, NEW s \in [1..n -> Positive], NEW j \in Nat, j < Product(s)
    PROVE  Decode(j, s, RowStrides(s)) = j
  <1>. DEFINE R == RowStrides(s)
              P(i) == IF i = n THEN Product(s) ELSE R[n - i]
  <1>1. /\ R \in [1..n -> Positive] /\ (n # 0 => R[n] = 1)
        /\ \A k \in 1..(n - 1) : R[k] = s[k + 1] * R[k + 1]
        /\ (n # 0 => Product(s) = s[1] * R[1])
    BY RowStridesStep
  <1>2. R \in [1..n -> Nat] /\ Product(s) \in Positive
    BY <1>1, ProductPositive DEF Positive
  <1>. HIDE DEF R
  <1>3. PICK f \in [0..n -> Nat \X Nat] : Digits(f, n, s, R, j)
    BY <1>2, DecodeUnfolds
  <1>4. P(0) = 1
    <2>1. CASE n = 0
      <3>1. s \in [1..0 -> Nat]
        BY <2>1
      <3>. QED  BY <2>1, <3>1, ProductEmpty
    <2>2. CASE n # 0
      BY <1>1, <2>2
    <2>. QED  BY <2>1, <2>2
  <1>5. ASSUME NEW i \in 0..(n - 1) PROVE P(i) \in Positive /\ P(i + 1) = s[n - i] * P(i)
    <2>1. n # 0 /\ i # n /\ n - i \in 1..n
      OBVIOUS
    <2>2. P(i) = R[n - i] /\ P(i) \in Positive
      BY <1>1, <2>1
    <2>3. CASE i + 1 = n
      <3>1. P(i + 1) = Product(s) /\ n - i = 1
        BY <2>3
      <3>. QED  BY <1>1, <2>1, <2>2, <3>1
    <2>4. CASE i + 1 # n
      <3>1. P(i + 1) = R[n - (i + 1)] /\ n - (i + 1) \in 1..(n - 1) /\ (n - (i + 1)) + 1 = n - i
        BY <2>4
      <3>. HIDE DEF P
      <3>2. R[n - (i + 1)] = s[(n - (i + 1)) + 1] * R[(n - (i + 1)) + 1]
        BY <1>1, <3>1
      <3>. QED  BY <2>2, <3>1, <3>2
    <2>. QED  BY <2>3, <2>4
  <1>. DEFINE S == {i \in 0..n : f[i][1] + f[i][2] * P(i) = j}
  <1>6. 0 \in S
    <2>1. f[0] = <<0, j>>
      BY <1>3 DEF Digits
    <2>. HIDE DEF P
    <2>. QED  BY <1>4, <2>1
  <1>7. ASSUME NEW i \in 0..(n - 1), i \in S PROVE i + 1 \in S
    <2>. DEFINE d == s[n - i]
                p == P(i)
                a == f[i][1]
                b == f[i][2]
    <2>1. /\ i + 1 \in 1..n /\ (i + 1) - 1 = i /\ n + 1 - (i + 1) = n - i /\ n - i \in 1..n
          /\ i \in 0..n
      OBVIOUS
    <2>2. d \in Positive /\ p \in Positive /\ P(i + 1) = d * p /\ R[n - i] = p
      BY <1>5, <2>1
    <2>3. a \in Nat /\ b \in Nat /\ a + b * p = j
      BY <1>7, <2>1
    <2>4. f[i + 1] = DigitStep(s, R, n, i + 1, f[i])
      BY <1>3, <2>1 DEF Digits
    <2>5. f[i + 1] = <<a + (b % d) * p, b \div d>>
      BY <2>1, <2>2, <2>4 DEF DigitStep
    <2>. HIDE DEF a, b, d, p, P
    <2>. DEFINE x == b % d
                y == b \div d
    <2>6. x \in Nat /\ y \in Nat /\ b = y * d + x
      <3>1. x \in 0..(d - 1) /\ y \in Nat
        BY <2>2, <2>3, Quotient
      <3>. QED  BY <2>2, <2>3, <3>1, Division
    <2>. HIDE DEF x, y
    <2>7. a + x * p + y * (d * p) = a + (y * d + x) * p
      BY <2>2, <2>3, <2>6 DEF Positive
    <2>8. f[i + 1][1] + f[i + 1][2] * P(i + 1) = j
      BY <2>2, <2>3, <2>5, <2>6, <2>7 DEF x, y
    <2>. QED  BY <2>1, <2>8
  <1>8. n \in S
    <2>. HIDE DEF S
    <2>1. 0..n \subseteq S
      BY <1>6, <1>7, Induction
    <2>. QED  BY <2>1
  <1>9. f[n][1] + f[n][2] * Product(s) = j /\ f[n] \in Nat \X Nat /\ f[n][1] = Decode(j, s, R)
    BY <1>3, <1>8 DEF Digits
  <1>10. f[n][2] = 0
    <2>. DEFINE a == f[n][1]
                b == f[n][2]
                q == Product(s)
                bq == b * q
    <2>1. a \in Nat /\ b \in Nat /\ q \in Nat /\ a + bq = j /\ j < q
      BY <1>2, <1>9 DEF Positive
    <2>2. CASE b >= 1
      <3>1. 1 * q <= bq
        BY <2>1, <2>2, Monotone
      <3>2. bq \in Nat
        BY <2>1
      <3>. HIDE DEF a, b, q, bq
      <3>. QED  BY <2>1, <3>1, <3>2
    <2>. HIDE DEF a, q, bq
    <2>. QED  BY <2>1, <2>2
  <1>. QED  BY <1>2, <1>9, <1>10 DEF R, Positive

\* The source of every element of a transpose.
Sources(t) == [j \in Nat |-> Transferred(t, j)]

\* The base of the run or block q of a transpose, over its leading n axes.
BaseOf(t, n, q) == Decode(q, SubSeq(t.to_shape, 1, n), SubSeq(t.perm_strides, 1, n))

\* A transpose that keeps the order reads every element where it is.
LEMMA OrderKept ==
    ASSUME NEW t, IsTranspose(t), IsIdentity(t.perm), NEW j \in 0..(t.N - 1)
    PROVE  Sources(t)[j] = j
  <1>. DEFINE n == Dimensions(t)
              s == t.from_shape
  <1>1. /\ n \in Nat /\ s \in [1..n -> Positive] /\ t.N = Product(s)
        /\ t.perm = [i \in 1..n |-> i] /\ t.N \in Positive
    BY TransposeAxes DEF IsTranspose, IsIdentity, Identity, Dimensions
  <1>2. RowStrides(s) \in [1..n -> Positive]
    BY <1>1, RowStridesStep
  <1>3. \A w \in [1..n -> Positive] : Permuted(w, t.perm) = w
    BY <1>1 DEF Permuted
  <1>4. t.to_shape = s /\ t.perm_strides = RowStrides(s)
    BY <1>1, <1>2, <1>3 DEF IsTranspose
  <1>. HIDE DEF n, s
  <1>5. j \in Nat /\ j < Product(s)
    BY <1>1 DEF Positive
  <1>6. Decode(j, s, RowStrides(s)) = j
    BY <1>1, <1>5, DecodeRowMajor
  <1>. QED  BY <1>4, <1>5, <1>6 DEF Sources, Transferred

\* The innermost axis of a transpose, and what is around it.
LEMMA InnerAxis ==
    ASSUME NEW t, IsTranspose(t), NEW n \in Nat, Dimensions(t) = n + 1
    PROVE  LET W == t.to_shape[n + 1]
           IN  /\ W \in Positive /\ t.N \div W \in Nat /\ t.N = (t.N \div W) * W
               /\ t.N \div W = Product(SubSeq(t.to_shape, 1, n))
               /\ \A q \in Nat : \A x \in 0..(W - 1) :
                     Sources(t)[q * W + x] = BaseOf(t, n, q) + x * t.perm_strides[n + 1]
  <1>. DEFINE W == t.to_shape[n + 1]
              m == n + 1
              d == t.to_shape
              s == t.perm_strides
  <1>1. /\ m \in Positive /\ d \in [1..m -> Positive] /\ s \in [1..m -> Nat]
        /\ m - 1 = n /\ W \in Positive /\ t.N = Product(d)
    <2>1. t.to_shape \in [1..(n + 1) -> Positive] /\ t.N = Product(t.to_shape)
      BY TransposeAxes
    <2>2. t.perm_strides \in [1..(n + 1) -> Nat]
      BY TransposeSteps DEF Positive
    <2>. QED  BY <2>1, <2>2 DEF Positive
  <1>2. d \in [1..m -> Nat]
    BY <1>1 DEF Positive
  <1>. DEFINE rows == Product(SubSeq(d, 1, n))
  <1>3. t.N = rows * W
    <2>. HIDE DEF d, m
    <2>1. Product(d) = Product(SubSeq(d, 1, m - 1)) * d[m]
      BY <1>1, <1>2, ProductStep
    <2>. QED  BY <1>1, <2>1 DEF d, m
  <1>4. rows \in Nat
    <2>1. n \in 0..m
      BY <1>1
    <2>. HIDE DEF d, m
    <2>2. m \in Nat /\ SubSeq(d, 1, n) \in [1..n -> Nat]
      BY <1>1, <1>2, <2>1, Beginning DEF Positive
    <2>. QED  BY <2>2, ProductNat
  <1>5. t.N \div W = rows
    <2>. HIDE DEF rows, W
    <2>. QED  BY <1>1, <1>3, <1>4, ExactDivision
  <1>6. ASSUME NEW q \in Nat, NEW x \in 0..(W - 1)
        PROVE  Sources(t)[q * W + x] = BaseOf(t, n, q) + x * s[m]
    <2>. DEFINE j == q * W + x
    <2>0. W \in Nat
      BY <1>1 DEF Positive
    <2>1. j \in Nat
      <3>. HIDE DEF W
      <3>. QED  BY <2>0
    <2>. HIDE DEF j
    <2>2. j \div W = q /\ j % W = x
      BY <1>1, <2>1, DivisionUnique DEF j
    <2>3. Decode(j, d, s) = (j % d[m]) * s[m]
                            + Decode(j \div d[m], SubSeq(d, 1, m - 1), SubSeq(s, 1, m - 1))
      <3>. HIDE DEF d, s, m
      <3>. QED  BY <1>1, <2>1, DecodeStep
    <2>4. Sources(t)[j] = x * s[m] + BaseOf(t, n, q)
      BY <1>1, <2>1, <2>2, <2>3 DEF Sources, Transferred, BaseOf
    <2>5. BaseOf(t, n, q) \in Nat
      <3>1. n \in 0..m
        BY <1>1
      <3>. DEFINE d0 == SubSeq(d, 1, n)
                  s0 == SubSeq(s, 1, n)
      <3>. HIDE DEF d, s, m
      <3>2. d0 \in [1..n -> Nat] /\ d0 = [i \in 1..n |-> d[i]] /\ s0 \in [1..n -> Nat]
        <4>1. m \in Nat
          BY <1>1 DEF Positive
        <4>. QED  BY <1>1, <1>2, <3>1, <4>1, Beginning
      <3>3. d0 \in [1..n -> Positive]
        <4>1. \A i \in 1..n : d[i] \in Positive
          BY <1>1, <3>1 DEF m
        <4>. QED  BY <3>2, <4>1
      <3>. HIDE DEF d0, s0
      <3>4. Decode(q, d0, s0) \in Nat
        BY <3>2, <3>3, DecodeNat
      <3>. QED  BY <3>4 DEF BaseOf, d0, s0, d, s
    <2>6. x * s[m] \in Nat
      <3>1. x \in Nat /\ s[m] \in Nat
        BY <1>1 DEF Positive
      <3>. QED  BY <3>1
    <2>. HIDE DEF d, s, m
    <2>. QED  BY <2>4, <2>5, <2>6 DEF j
  <1>. QED  BY <1>1, <1>3, <1>4, <1>5, <1>6

\* A transpose that keeps the innermost axis reads its runs as they are.
LEMMA InnermostStep ==
    ASSUME NEW t, IsTranspose(t), NEW n \in Nat, Dimensions(t) = n + 1, InnermostKept(t)
    PROVE  t.perm_strides[n + 1] = 1
  <1>. DEFINE m == n + 1
  <1>1. m \in Nat /\ m # 0 /\ m \in 1..m /\ Dimensions(t) = m
    OBVIOUS
  <1>2. t.perm_strides[m] = RowStrides(t.from_shape)[t.perm[m]] /\ t.perm[m] = m
    BY <1>1, TransposeSteps DEF InnermostKept
  <1>3. t.from_shape \in [1..m -> Positive]
    BY TransposeAxes
  <1>4. RowStrides(t.from_shape)[m] = 1
    BY <1>1, <1>3, RowStridesStep
  <1>. QED  BY <1>2, <1>4

\* A pair of a lane and one of its units.
LEMMA SharedPairs ==
    ASSUME NEW n \in Nat, NEW p
    PROVE  p \in Shared(n) <=> \E lane \in LaneSet : \E u \in Span(lane, n) : p = <<lane, u>>
  BY DEF Shared

\* The identity copy.
LEMMA CopyKeeps ==
    ASSUME NEW t, IsTranspose(t), IsIdentity(t.perm), NEW W \in Positive
    PROVE  LaysRows(transpose_copy(t), Evenly(W), W, Sources(t), t.N)
  <1>. DEFINE N == t.N
  <1>1. N \in Nat
    BY TransposeAxes DEF Positive
  <1>2. /\ StoredOnce(transpose_copy(t))
        /\ Image(transpose_copy(t)) = {<<x, x>> : x \in 0..(N - 1)}
    BY <1>1, CopyRight
  <1>3. ASSUME NEW j \in 0..(N - 1) PROVE RowPlace(Evenly(W), W, j) = j /\ Sources(t)[j] = j
    <2>1. j \in Nat /\ j \div W \in Nat
      BY Quotient
    <2>2. j = (j \div W) * W + (j % W)
      BY <2>1, Division
    <2>3. Evenly(W)[j \div W] = (j \div W) * W
      BY <2>1 DEF Evenly
    <2>. QED  BY <2>2, <2>3, OrderKept DEF RowPlace
  <1>. HIDE DEF N
  <1>4. {<<x, x>> : x \in 0..(N - 1)}
            = {<<RowPlace(Evenly(W), W, j), Sources(t)[j]>> : j \in 0..(N - 1)}
    BY <1>3
  <1>. QED  BY <1>2, <1>4 DEF LaysRows, N

\* The copy that leaves room after every row.
LEMMA PaddedCopyRight ==
    ASSUME NEW t, IsTranspose(t), IsIdentity(t.perm), NEW W \in Positive, NEW rows \in Nat,
           t.N = rows * W, NEW stride \in Nat, W <= stride
    PROVE  LaysRows(padded_copy(rows, W, stride), Evenly(stride), W, Sources(t), t.N)
  <1>. DEFINE S == padded_copy(rows, W, stride)
              off == Evenly(stride)
              base == Evenly(W)
              src == Sources(t)
              N == t.N
              run(p) == CopyRun(p[1], p[2] * stride, p[2] * W, W)
  <1>1. \A q \in Nat : off[q] = q * stride /\ base[q] = q * W
    BY DEF Evenly
  <1>2. Runs(S, rows, off, base, W)
    <2>. SUFFICES ASSUME NEW s
                  PROVE  s \in S <=> \E lane \in LaneSet : \E q \in Span(lane, rows) :
                             \E x \in 0..(W - 1) : s = <<lane, off[q] + x, base[q] + x>>
      BY DEF Runs
    <2>1. s \in S <=> \E p \in Shared(rows) : s \in run(p)
      BY DEF padded_copy
    <2>2. ASSUME NEW lane \in LaneSet, NEW q \in Span(lane, rows)
          PROVE  s \in run(<<lane, q>>)
                     <=> \E x \in 0..(W - 1) : s = <<lane, off[q] + x, base[q] + x>>
      <3>1. q \in Nat
        BY SpanInside
      <3>. QED  BY <1>1, <3>1 DEF CopyRun
    <2>. HIDE DEF S, off, base, run
    <2>3. (\E p \in Shared(rows) : s \in run(p))
              <=> \E lane \in LaneSet : \E q \in Span(lane, rows) : s \in run(<<lane, q>>)
      <3>1. \A p : p \in Shared(rows) <=> \E lane \in LaneSet : \E q \in Span(lane, rows) :
                                               p = <<lane, q>>
        BY SharedPairs
      <3>. QED  BY <3>1
    <2>. QED  BY <2>1, <2>2, <2>3
  <1>3. ASSUME NEW q \in 0..(rows - 1), NEW x \in 0..(W - 1) PROVE src[q * W + x] = base[q] + x
    <2>1. q * W + x \in 0..(rows * W - 1)
      BY ElementOfRow
    <2>2. src[q * W + x] = q * W + x
      BY <2>1, OrderKept
    <2>. QED  BY <1>1, <2>2
  <1>4. Spaced(off, W, rows)
    BY EvenlySpaced DEF Positive
  <1>. HIDE DEF S, off, base, src, N
  <1>5. N = rows * W
    BY DEF N
  <1>6. LaysRows(S, off, W, src, N)
    BY <1>2, <1>3, <1>4, <1>5, RunsRight
  <1>. QED  BY <1>6 DEF S, off, src, N

\* The copy that leaves room after every batch of rows.
LEMMA BatchedPadCopyRight ==
    ASSUME NEW t, IsTranspose(t), IsIdentity(t.perm), NEW W \in Positive, NEW nbatch \in Nat,
           NEW A \in Positive, t.N = (nbatch * A) * W, NEW block \in Nat, A * W <= block
    PROVE  LaysRows(batched_pad_copy(nbatch, A, W, block), InBatches(A, block, W), W,
                    Sources(t), t.N)
  <1>. DEFINE rows == nbatch * A
              S == batched_pad_copy(nbatch, A, W, block)
              off == InBatches(A, block, W)
              base == Evenly(W)
              src == Sources(t)
              N == t.N
              run(p) == CopyRun(p[1], (p[2] \div A) * block + (p[2] % A) * W, p[2] * W, W)
  <1>0. rows \in Nat /\ W \in Nat
    BY DEF Positive
  <1>1. \A q \in Nat : off[q] = (q \div A) * block + (q % A) * W /\ base[q] = q * W
    BY DEF Evenly, InBatches
  <1>2. Runs(S, rows, off, base, W)
    <2>. SUFFICES ASSUME NEW s
                  PROVE  s \in S <=> \E lane \in LaneSet : \E q \in Span(lane, rows) :
                             \E x \in 0..(W - 1) : s = <<lane, off[q] + x, base[q] + x>>
      BY DEF Runs
    <2>1. s \in S <=> \E p \in Shared(rows) : s \in run(p)
      BY DEF batched_pad_copy
    <2>2. ASSUME NEW lane \in LaneSet, NEW q \in Span(lane, rows)
          PROVE  s \in run(<<lane, q>>)
                     <=> \E x \in 0..(W - 1) : s = <<lane, off[q] + x, base[q] + x>>
      <3>. HIDE DEF rows
      <3>1. q \in Nat
        BY <1>0, SpanInside
      <3>. QED  BY <1>1, <3>1 DEF CopyRun
    <2>. HIDE DEF S, off, base, run, rows
    <2>3. (\E p \in Shared(rows) : s \in run(p))
              <=> \E lane \in LaneSet : \E q \in Span(lane, rows) : s \in run(<<lane, q>>)
      <3>1. \A p : p \in Shared(rows) <=> \E lane \in LaneSet : \E q \in Span(lane, rows) :
                                               p = <<lane, q>>
        BY <1>0, SharedPairs
      <3>. QED  BY <3>1
    <2>. QED  BY <2>1, <2>2, <2>3
  <1>. HIDE DEF rows
  <1>3. ASSUME NEW q \in 0..(rows - 1), NEW x \in 0..(W - 1) PROVE src[q * W + x] = base[q] + x
    <2>1. q * W + x \in 0..(rows * W - 1)
      BY <1>0, ElementOfRow
    <2>2. src[q * W + x] = q * W + x
      BY <2>1, OrderKept DEF rows
    <2>. QED  BY <1>0, <1>1, <2>2
  <1>4. Spaced(off, W, rows)
    BY <1>0, BatchesSpaced
  <1>5. N = rows * W
    BY DEF rows
  <1>. HIDE DEF S, off, base, src, N
  <1>6. LaysRows(S, off, W, src, N)
    BY <1>0, <1>2, <1>3, <1>4, <1>5, RunsRight
  <1>. QED  BY <1>6 DEF S, off, src, N

\* A lane's run of the odometer gives the base of every unit it has.
LEMMA LaneBases ==
    ASSUME NEW t, NEW n \in Nat, Steppable(t, n), NEW m \in Nat, NEW lane \in LaneSet
    PROVE  Bases(t, n, Span(lane, m)) = [g \in Span(lane, m) |-> BaseOf(t, n, g)]
  <1>. DEFINE lanes == Lanes
  <1>1. lanes \in Positive /\ 1 \in Positive /\ lane \in Nat
    BY Constants DEF LaneSet, Positive
  <1>. HIDE DEF lanes
  <1>2. PICK q \in Nat : SpansOfLength(q * 1, lanes, m, 1)
    BY <1>1, SpanForm
  <1>3. Span(lane, m) = (lane * (q * 1))..(Least((lane + 1) * (q * 1), m) - 1)
    BY <1>1, <1>2 DEF SpansOfLength, Span, lanes
  <1>4. lane * (q * 1) \in Nat /\ (lane + 1) * (q * 1) \in Nat
    BY <1>1
  <1>5. Least((lane + 1) * (q * 1), m) - 1 \in Int
    BY <1>4 DEF Least
  <1>6. PICK from \in Nat, to \in Int : Span(lane, m) = from..to
    BY <1>3, <1>4, <1>5
  <1>7. Bases(t, n, from..to) = [g \in from..to |-> BaseOf(t, n, g)]
    BY BasesRight DEF BaseOf
  <1>. QED  BY <1>6, <1>7

\* How transpose_nd_copy spaces its runs.
RunPlaces(t, padStride, rows, padBatch) ==
    LET stride == Max({padStride, t.to_shape[Dimensions(t)]})
    IN  IF rows > 0 THEN InBatches(rows, padBatch, stride) ELSE Evenly(stride)

(***************************************************************************)
(* transpose_nd_copy (pto_einsum_transpose.h) leaves every run of a        *)
(* transpose that keeps the innermost axis at its place, once, whatever    *)
(* the other axes do: every lane's odometer begins, carries and wraps      *)
(* around where the division by every axis would.                          *)
(***************************************************************************)
THEOREM NdCopyRight ==
    ASSUME NEW t, IsTranspose(t), NEW n \in Nat, Dimensions(t) = n + 1, InnermostKept(t),
           NEW padStride \in Nat, NEW rows \in Nat, NEW padBatch \in Nat,
           rows > 0 => rows * Max({padStride, t.to_shape[n + 1]}) <= padBatch
    PROVE  LaysRows(transpose_nd_copy(t, padStride, rows, padBatch),
                    RunPlaces(t, padStride, rows, padBatch), t.to_shape[n + 1], Sources(t), t.N)
  <1>. DEFINE W == t.to_shape[n + 1]
              nouter == t.N \div W
              stride == Max({padStride, W})
              S == transpose_nd_copy(t, padStride, rows, padBatch)
              off == RunPlaces(t, padStride, rows, padBatch)
              base == [q \in Nat |-> BaseOf(t, n, q)]
              src == Sources(t)
              N == t.N
              doff(g) == IF rows > 0 THEN (g \div rows) * padBatch + (g % rows) * stride
                                     ELSE g * stride
              stores(lane, bases) ==
                  UNION {CopyRun(lane, doff(g), bases[g], W) : g \in DOMAIN bases}
  <1>1. /\ W \in Positive /\ nouter \in Nat /\ N = nouter * W
        /\ \A q \in Nat : \A x \in 0..(W - 1) :
              src[q * W + x] = BaseOf(t, n, q) + x * t.perm_strides[n + 1]
    BY InnerAxis
  <1>2. t.perm_strides[n + 1] = 1
    BY InnermostStep
  <1>3. stride \in Nat /\ stride >= W /\ W \in Nat
    BY <1>1, Greater DEF Positive
  <1>4. S = UNION {stores(lane, Bases(t, n, Span(lane, nouter))) : lane \in LaneSet}
    <2>1. Dimensions(t) - 1 = n
      OBVIOUS
    <2>. QED  BY <2>1 DEF transpose_nd_copy
  <1>5. \A q \in Nat : off[q] = doff(q) /\ base[q] = BaseOf(t, n, q)
    BY DEF RunPlaces, InBatches, Evenly
  <1>6. Steppable(t, n)
    BY TransposeSteps
  <1>7. Spaced(off, W, nouter)
    <2>1. CASE rows > 0
      <3>1. rows \in Positive /\ off = InBatches(rows, padBatch, stride)
            /\ rows * stride <= padBatch
        BY <2>1 DEF RunPlaces, Positive
      <3>. HIDE DEF off, stride, W, nouter
      <3>. QED  BY <1>1, <1>3, <3>1, BatchesSpaced
    <2>2. CASE ~(rows > 0)
      <3>1. off = Evenly(stride)
        BY <2>2 DEF RunPlaces
      <3>. HIDE DEF off, stride, W, nouter
      <3>. QED  BY <1>1, <1>3, <3>1, EvenlySpaced
    <2>. QED  BY <2>1, <2>2
  <1>. HIDE DEF W, nouter, stride, S, off, base, src, N
  <1>8. \A lane \in LaneSet :
            Bases(t, n, Span(lane, nouter)) = [g \in Span(lane, nouter) |-> BaseOf(t, n, g)]
    BY <1>1, <1>6, LaneBases
  <1>9. Runs(S, nouter, off, base, W)
    <2>. SUFFICES ASSUME NEW s
                  PROVE  s \in S <=> \E lane \in LaneSet : \E q \in Span(lane, nouter) :
                             \E x \in 0..(W - 1) : s = <<lane, off[q] + x, base[q] + x>>
      BY DEF Runs
    <2>1. s \in S <=> \E lane \in LaneSet : s \in stores(lane, Bases(t, n, Span(lane, nouter)))
      <3>. HIDE DEF stores
      <3>. QED  BY <1>4
    <2>2. ASSUME NEW lane \in LaneSet
          PROVE  s \in stores(lane, Bases(t, n, Span(lane, nouter)))
                     <=> \E q \in Span(lane, nouter) : s \in CopyRun(lane, off[q], base[q], W)
      <3>. DEFINE span == Span(lane, nouter)
                  bases == [g \in span |-> BaseOf(t, n, g)]
      <3>1. \A q \in span : q \in Nat
        BY <1>1, SpanInside
      <3>. HIDE DEF span
      <3>2. s \in stores(lane, bases)
                <=> \E q \in span : s \in CopyRun(lane, doff(q), BaseOf(t, n, q), W)
        <4>1. \A q \in span : bases[q] = BaseOf(t, n, q)
          OBVIOUS
        <4>. QED  BY <4>1
      <3>3. \A q \in span : off[q] = doff(q) /\ base[q] = BaseOf(t, n, q)
        BY <1>5, <3>1
      <3>. HIDE DEF stores, doff
      <3>4. Bases(t, n, span) = bases
        BY <1>8 DEF span
      <3>. QED  BY <3>2, <3>3, <3>4 DEF span
    <2>3. \A lane \in LaneSet : \A q \in Span(lane, nouter) :
              s \in CopyRun(lane, off[q], base[q], W)
                  <=> \E x \in 0..(W - 1) : s = <<lane, off[q] + x, base[q] + x>>
      BY DEF CopyRun
    <2>. HIDE DEF stores
    <2>. QED  BY <2>1, <2>2, <2>3
  <1>10. ASSUME NEW q \in 0..(nouter - 1), NEW x \in 0..(W - 1)
         PROVE  src[q * W + x] = base[q] + x
    <2>1. src[q * W + x] = BaseOf(t, n, q) + x * 1
      BY <1>1, <1>2
    <2>. QED  BY <1>5, <2>1
  <1>11. LaysRows(S, off, W, src, N)
    BY <1>1, <1>7, <1>9, <1>10, RunsRight
  <1>. QED  BY <1>11 DEF S, off, W, src, N

\* The axes of a transpose of two that exchanges them.
LEMMA TwoAxes ==
    ASSUME NEW t, IsTranspose(t), Dimensions(t) = 2, ~IsIdentity(t.perm)
    PROVE  LET rows == t.from_shape[1]
               cols == t.from_shape[2]
           IN  /\ rows \in Positive /\ cols \in Positive
               /\ t.to_shape[2] = rows /\ t.N = cols * rows
               /\ \A C \in 0..(cols - 1) : \A R \in 0..(rows - 1) :
                     Sources(t)[C * rows + R] = R * cols + C
  <1>. DEFINE rows == t.from_shape[1]
              cols == t.from_shape[2]
              d == SubSeq(t.to_shape, 1, 1)
              s == SubSeq(t.perm_strides, 1, 1)
  <1>1. /\ t.from_shape \in [1..2 -> Positive] /\ t.perm \in [1..2 -> 1..2] /\ Len(t.perm) = 2
        /\ t.to_shape \in [1..2 -> Positive]
    BY TransposeAxes DEF Dimensions
  <1>2. \A i, j \in 1..2 : t.perm[i] = t.perm[j] => i = j
    BY <1>1 DEF IsTranspose, Turns, Lists
  <1>3. t.perm[1] = 2 /\ t.perm[2] = 1
    <2>1. 1 \in 1..2 /\ 2 \in 1..2 /\ \A x \in 1..2 : x = 1 \/ x = 2
      OBVIOUS
    <2>2. t.perm[1] \in 1..2 /\ t.perm[2] \in 1..2 /\ t.perm[1] # t.perm[2]
      BY <1>1, <1>2, <2>1
    <2>3. CASE t.perm[1] = 1
      <3>1. t.perm[2] = 2
        BY <2>1, <2>2, <2>3
      <3>2. t.perm = [i \in 1..2 |-> i]
        <4>1. \A i \in 1..2 : t.perm[i] = i
          BY <2>1, <2>3, <3>1
        <4>. QED  BY <1>1, <4>1
      <3>. QED  BY <1>1, <3>2 DEF IsIdentity, Identity
    <2>. QED  BY <2>1, <2>2, <2>3
  <1>4. /\ RowStrides(t.from_shape)[2] = 1 /\ RowStrides(t.from_shape)[1] = cols * 1
    <2>. DEFINE w == t.from_shape
                n == 2
    <2>1. w \in [1..n -> Positive] /\ n \in Nat /\ n # 0 /\ 1 \in 1..(n - 1) /\ 1 + 1 = n
      BY <1>1
    <2>. HIDE DEF w, n
    <2>2. RowStrides(w)[n] = 1 /\ RowStrides(w)[1] = w[1 + 1] * RowStrides(w)[1 + 1]
      BY <2>1, RowStridesStep
    <2>3. RowStrides(w)[n] = 1 /\ RowStrides(w)[1] = w[n] * 1
      BY <2>1, <2>2
    <2>. QED  BY <2>3 DEF w, n
  <1>5. /\ t.to_shape[1] = cols /\ t.to_shape[2] = rows
        /\ t.perm_strides[1] = 1 /\ t.perm_strides[2] = cols * 1
        /\ t.perm_strides \in [1..2 -> Nat]
    <2>1. /\ t.perm_strides \in [1..2 -> Positive]
          /\ \A k \in 1..2 : /\ t.to_shape[k] = t.from_shape[t.perm[k]]
                             /\ t.perm_strides[k] = RowStrides(t.from_shape)[t.perm[k]]
      BY TransposeSteps
    <2>2. 1 \in 1..2 /\ 2 \in 1..2
      OBVIOUS
    <2>. QED  BY <1>3, <1>4, <2>1, <2>2 DEF Positive
  <1>6. rows \in Positive /\ cols \in Positive
    BY <1>1
  <1>7. /\ d \in [1..1 -> Nat] /\ d = [i \in 1..1 |-> t.to_shape[i]]
        /\ s \in [1..1 -> Nat] /\ s = [i \in 1..1 |-> t.perm_strides[i]]
    <2>. DEFINE a == t.to_shape
                b == t.perm_strides
    <2>1. a \in [1..2 -> Nat] /\ b \in [1..2 -> Nat] /\ 1 \in 0..2 /\ 2 \in Nat
      BY <1>1, <1>5 DEF Positive
    <2>. HIDE DEF a, b
    <2>2. SubSeq(a, 1, 1) \in [1..1 -> Nat] /\ SubSeq(a, 1, 1) = [i \in 1..1 |-> a[i]]
          /\ SubSeq(b, 1, 1) \in [1..1 -> Nat] /\ SubSeq(b, 1, 1) = [i \in 1..1 |-> b[i]]
      BY <2>1, Beginning
    <2>. QED  BY <2>2 DEF a, b
  <1>8. d[1] = cols /\ s[1] = 1 /\ d \in [1..1 -> Positive]
    <2>1. 1 \in 1..1 /\ \A i \in 1..1 : i = 1
      OBVIOUS
    <2>2. d[1] = cols /\ s[1] = 1
      BY <1>5, <1>7, <2>1
    <2>. HIDE DEF d, s
    <2>3. \A i \in 1..1 : d[i] \in Positive
      BY <1>6, <2>1, <2>2
    <2>. QED  BY <1>7, <2>2, <2>3
  <1>9. /\ t.N = (t.N \div rows) * rows /\ t.N \div rows = Product(d)
        /\ \A q \in Nat : \A x \in 0..(rows - 1) :
              Sources(t)[q * rows + x] = BaseOf(t, 1, q) + x * t.perm_strides[2]
    <2>1. Dimensions(t) = 1 + 1 /\ 1 \in Nat /\ 1 + 1 = 2
      OBVIOUS
    <2>. DEFINE n == 1
    <2>2. Dimensions(t) = n + 1 /\ n \in Nat /\ n + 1 = 2
      BY <2>1
    <2>. HIDE DEF n
    <2>3. LET W == t.to_shape[n + 1]
          IN  /\ t.N = (t.N \div W) * W
              /\ t.N \div W = Product(SubSeq(t.to_shape, 1, n))
              /\ \A q \in Nat : \A x \in 0..(W - 1) :
                    Sources(t)[q * W + x] = BaseOf(t, n, q) + x * t.perm_strides[n + 1]
      BY <2>2, InnerAxis
    <2>. QED  BY <1>5, <2>2, <2>3 DEF n
  <1>10. Product(d) = cols
    <2>. HIDE DEF d
    <2>. QED  BY <1>7, <1>8, ProductOne
  <1>11. ASSUME NEW C \in 0..(cols - 1) PROVE BaseOf(t, 1, C) = C
    <2>1. C \in Nat /\ cols \in Nat
      BY <1>6 DEF Positive
    <2>. HIDE DEF d, s, cols
    <2>. DEFINE n == 1
                d0 == SubSeq(d, 1, n - 1)
                s0 == SubSeq(s, 1, n - 1)
    <2>2. n \in Positive /\ d \in [1..n -> Positive] /\ s \in [1..n -> Nat]
      BY <1>7, <1>8 DEF Positive
    <2>3. Decode(C, d, s) = (C % d[n]) * s[n] + Decode(C \div d[n], d0, s0)
      <3>. HIDE DEF n
      <3>. QED  BY <2>1, <2>2, DecodeStep
    <2>4. C % cols = C /\ C \div cols \in Nat
      <3>1. C = 0 * cols + C
        BY <2>1
      <3>. QED  BY <1>6, <2>1, <3>1, DivisionUnique, Quotient
    <2>5. Decode(C \div cols, d0, s0) = 0
      <3>1. d0 \in [1..0 -> Positive] /\ s0 \in [1..0 -> Nat]
        <4>1. n - 1 = 0 /\ 0 \in 0..1 /\ 1 \in Nat /\ d \in [1..1 -> Nat]
          BY <1>7
        <4>. DEFINE k == n - 1
        <4>2. k \in 0..1 /\ k = 0
          BY <4>1
        <4>. HIDE DEF k, n
        <4>3. SubSeq(d, 1, k) \in [1..k -> Nat] /\ SubSeq(s, 1, k) \in [1..k -> Nat]
          BY <1>7, <4>1, <4>2, Beginning
        <4>4. SubSeq(d, 1, k) \in [1..k -> Positive]
          BY <4>2, <4>3
        <4>. QED  BY <4>2, <4>3, <4>4 DEF k
      <3>. HIDE DEF d0, s0
      <3>. QED  BY <2>4, <3>1, DecodeEmpty
    <2>6. BaseOf(t, 1, C) = Decode(C, d, s)
      BY DEF BaseOf, d, s
    <2>. QED  BY <1>8, <2>1, <2>3, <2>4, <2>5, <2>6
  <1>12. ASSUME NEW C \in 0..(cols - 1), NEW R \in 0..(rows - 1)
         PROVE  Sources(t)[C * rows + R] = R * cols + C
    <2>1. Sources(t)[C * rows + R] = C + R * (cols * 1)
      BY <1>5, <1>9, <1>11
    <2>2. R * (cols * 1) = R * cols /\ R * cols \in Nat
      BY <1>6 DEF Positive
    <2>. QED  BY <2>1, <2>2
  <1>. QED  BY <1>5, <1>6, <1>9, <1>10, <1>12

\* The 2D transpose leaves every column of its source as a row.
LEMMA Transpose2dRows ==
    ASSUME NEW t, IsTranspose(t), Dimensions(t) = 2, ~IsIdentity(t.perm), NEW ds,
           NEW dstPad \in Nat
    PROVE  LaysRows(transpose_2d(t, ds, dstPad), Evenly(Max({dstPad, t.to_shape[2]})),
                    t.to_shape[2], Sources(t), t.N)
  <1>. DEFINE rows == t.from_shape[1]
              cols == t.from_shape[2]
              dpad == Max({dstPad, rows})
              S == transpose_2d(t, ds, dstPad)
              off == Evenly(dpad)
              src == Sources(t)
              N == t.N
              P == (0..(rows - 1)) \X (0..(cols - 1))
  <1>1. /\ rows \in Positive /\ cols \in Positive
        /\ t.to_shape[2] = rows /\ N = cols * rows
        /\ \A C \in 0..(cols - 1) : \A R \in 0..(rows - 1) : src[C * rows + R] = R * cols + C
    BY TwoAxes
  <1>2. /\ StoredOnce(S)
        /\ Image(S) = {<<p[2] * dpad + p[1], p[1] * cols + p[2]>> : p \in P}
    <2>1. t.from_shape[1] \in Positive /\ t.from_shape[2] \in Positive
      BY <1>1
    <2>2. TurnsOver(S, rows, cols, dpad)
      BY <2>1, Transpose2dRight
    <2>. HIDE DEF S, rows, cols, dpad
    <2>. QED  BY <2>2 DEF TurnsOver
  <1>3. cols \in Nat
    BY <1>1 DEF Positive
  <1>. HIDE DEF rows, cols, dpad, src, N, S
  <1>4. ASSUME NEW R \in 0..(rows - 1), NEW C \in 0..(cols - 1)
        PROVE  /\ C * rows + R \in 0..(N - 1) /\ src[C * rows + R] = R * cols + C
               /\ RowPlace(off, rows, C * rows + R) = C * dpad + R
    <2>1. /\ C * rows + R \in 0..(cols * rows - 1)
          /\ (C * rows + R) \div rows = C /\ (C * rows + R) % rows = R
      BY <1>1, <1>3, ElementOfRow
    <2>2. off[C] = C * dpad
      BY DEF Evenly
    <2>. QED  BY <1>1, <2>1, <2>2 DEF RowPlace
  <1>5. ASSUME NEW j \in 0..(N - 1)
        PROVE  \E C \in 0..(cols - 1) : \E R \in 0..(rows - 1) : j = C * rows + R
    <2>1. /\ j \div rows \in 0..(cols - 1) /\ j % rows \in 0..(rows - 1)
          /\ j = (j \div rows) * rows + (j % rows)
      BY <1>1, <1>3, RowOfElement
    <2>. QED  BY <2>1
  <1>. HIDE DEF off
  <1>6. {<<p[2] * dpad + p[1], p[1] * cols + p[2]>> : p \in P}
            = {<<RowPlace(off, rows, j), src[j]>> : j \in 0..(N - 1)}
    <2>. DEFINE D == {<<p[2] * dpad + p[1], p[1] * cols + p[2]>> : p \in P}
                E == {<<RowPlace(off, rows, j), src[j]>> : j \in 0..(N - 1)}
    <2>1. ASSUME NEW p \in P PROVE <<p[2] * dpad + p[1], p[1] * cols + p[2]>> \in E
      <3>1. p[1] \in 0..(rows - 1) /\ p[2] \in 0..(cols - 1)
        OBVIOUS
      <3>. QED  BY <1>4, <3>1
    <2>2. ASSUME NEW j \in 0..(N - 1) PROVE <<RowPlace(off, rows, j), src[j]>> \in D
      <3>1. PICK C \in 0..(cols - 1) : \E R \in 0..(rows - 1) : j = C * rows + R
        BY <1>5
      <3>2. PICK R \in 0..(rows - 1) : j = C * rows + R
        BY <3>1
      <3>3. <<R, C>> \in P /\ <<R, C>>[1] = R /\ <<R, C>>[2] = C
        OBVIOUS
      <3>4. <<RowPlace(off, rows, j), src[j]>> = <<C * dpad + R, R * cols + C>>
        BY <1>4, <3>2
      <3>. HIDE DEF P
      <3>. QED  BY <3>3, <3>4
    <2>. QED  BY <2>1, <2>2
  <1>7. LaysRows(S, off, rows, src, N)
    BY <1>2, <1>6 DEF LaysRows
  <1>. QED  BY <1>1, <1>7 DEF S, off, dpad, src, N

\* One more axis of a base, and of a count.
LEMMA BaseStep ==
    ASSUME NEW t, NEW m \in Nat, t.to_shape \in [1..m -> Positive],
           t.perm_strides \in [1..m -> Nat], NEW k \in 0..(m - 1)
    PROVE  LET A == t.to_shape[k + 1]
           IN  /\ A \in Positive
               /\ Product(SubSeq(t.to_shape, 1, k + 1)) = Product(SubSeq(t.to_shape, 1, k)) * A
               /\ Product(SubSeq(t.to_shape, 1, k)) \in Nat
               /\ \A q \in Nat : BaseOf(t, k, q) \in Nat
               /\ \A q \in Nat : \A x \in 0..(A - 1) :
                     BaseOf(t, k + 1, q * A + x) = BaseOf(t, k, q) + x * t.perm_strides[k + 1]
  <1>. DEFINE A == t.to_shape[k + 1]
              d == t.to_shape
              s == t.perm_strides
              l == k + 1
              d1 == SubSeq(d, 1, l)
              s1 == SubSeq(s, 1, l)
              d0 == SubSeq(d, 1, k)
              s0 == SubSeq(s, 1, k)
  <1>1. /\ l \in 1..m /\ l \in 0..m /\ k \in 0..m /\ k \in 0..l /\ l - 1 = k /\ l \in Positive
        /\ l \in Nat /\ k \in Nat
        /\ d \in [1..m -> Nat] /\ s \in [1..m -> Nat] /\ d \in [1..m -> Positive]
    BY DEF Positive
  <1>2. A = d[l]
    OBVIOUS
  <1>. HIDE DEF A, l, d, s
  <1>3. A \in Positive /\ s[l] \in Nat
    BY <1>1, <1>2
  <1>4. /\ d1 \in [1..l -> Nat] /\ d1 = [i \in 1..l |-> d[i]]
        /\ s1 \in [1..l -> Nat] /\ s1 = [i \in 1..l |-> s[i]]
        /\ d0 \in [1..k -> Nat] /\ d0 = [i \in 1..k |-> d[i]]
        /\ s0 \in [1..k -> Nat] /\ s0 = [i \in 1..k |-> s[i]]
    BY <1>1, Beginning
  <1>5. d1 \in [1..l -> Positive] /\ d0 \in [1..k -> Positive]
    <2>1. \A i \in 1..l : d[i] \in Positive
      BY <1>1
    <2>2. \A i \in 1..k : d[i] \in Positive
      BY <1>1
    <2>. HIDE DEF d1, d0
    <2>. QED  BY <1>4, <2>1, <2>2
  <1>. HIDE DEF d0, s0, d1, s1
  <1>6. SubSeq(d1, 1, l - 1) = d0 /\ SubSeq(s1, 1, l - 1) = s0
    <2>1. /\ SubSeq(d1, 1, k) = [i \in 1..k |-> d1[i]]
          /\ SubSeq(s1, 1, k) = [i \in 1..k |-> s1[i]]
      BY <1>1, <1>4, Beginning
    <2>2. \A i \in 1..k : i \in 1..l
      BY <1>1
    <2>3. \A i \in 1..k : d1[i] = d[i] /\ s1[i] = s[i]
      BY <1>4, <2>2
    <2>. QED  BY <1>1, <1>4, <2>1, <2>3
  <1>7. d1[l] = A /\ s1[l] = s[l]
    BY <1>1, <1>2, <1>4
  <1>8. Product(d1) = Product(d0) * A
    <2>1. Product(d1) = Product(SubSeq(d1, 1, l - 1)) * d1[l]
      BY <1>1, <1>4, ProductStep
    <2>. QED  BY <1>6, <1>7, <2>1
  <1>9. Product(d0) \in Nat
    BY <1>1, <1>4, ProductNat
  <1>10. ASSUME NEW q \in Nat PROVE Decode(q, d0, s0) \in Nat
    BY <1>1, <1>4, <1>5, DecodeNat
  <1>11. ASSUME NEW q \in Nat, NEW x \in 0..(A - 1)
         PROVE  Decode(q * A + x, d1, s1) = Decode(q, d0, s0) + x * s[l]
    <2>. DEFINE j == q * A + x
    <2>1. j \in Nat
      <3>1. A \in Nat /\ x \in Nat
        BY <1>3 DEF Positive
      <3>2. q * A \in Nat
        BY <3>1
      <3>. QED  BY <3>1, <3>2
    <2>2. j \div A = q /\ j % A = x
      <3>1. j = q * A + x
        OBVIOUS
      <3>. HIDE DEF j
      <3>. QED  BY <1>3, <2>1, <3>1, DivisionUnique
    <2>. HIDE DEF j
    <2>3. Decode(j, d1, s1) = (j % d1[l]) * s1[l]
                              + Decode(j \div d1[l], SubSeq(d1, 1, l - 1), SubSeq(s1, 1, l - 1))
      BY <1>1, <1>4, <1>5, <2>1, DecodeStep
    <2>4. Decode(j, d1, s1) = x * s[l] + Decode(q, d0, s0)
      BY <1>6, <1>7, <2>2, <2>3
    <2>. DEFINE xs == x * s[l]
                y == Decode(q, d0, s0)
    <2>5. xs \in Nat /\ y \in Nat
      <3>. DEFINE v == s[l]
      <3>1. x \in Nat /\ v \in Nat /\ xs = x * v
        BY <1>3 DEF Positive
      <3>2. y \in Nat
        BY <1>10
      <3>. HIDE DEF v, xs, y
      <3>. QED  BY <3>1, <3>2
    <2>. HIDE DEF xs, y
    <2>6. xs + y = y + xs
      BY <2>5
    <2>. QED  BY <2>4, <2>6 DEF j, xs, y
  <1>. QED  BY <1>3, <1>8, <1>9, <1>10, <1>11 DEF A, l, d, s, d0, s0, d1, s1, BaseOf

\* Where the elements of the innermost matrices of a transpose come from.
LEMMA InnerMatrices ==
    ASSUME NEW t, IsTranspose(t), NEW n \in Nat, Dimensions(t) = n + 2
    PROVE  LET A == t.to_shape[n + 1]
               Bb == t.to_shape[n + 2]
               nbatch == t.N \div (A * Bb)
           IN  /\ A \in Positive /\ Bb \in Positive /\ nbatch \in Nat
               /\ t.N = (nbatch * A) * Bb
               /\ t.perm_strides[n + 1] \in Nat /\ t.perm_strides[n + 2] \in Nat
               /\ \A b \in Nat : BaseOf(t, n, b) \in Nat
               /\ \A b \in Nat : \A C \in 0..(A - 1) : \A R \in 0..(Bb - 1) :
                     Sources(t)[(b * A + C) * Bb + R]
                         = BaseOf(t, n, b) + C * t.perm_strides[n + 1] + R * t.perm_strides[n + 2]
  <1>. DEFINE m == n + 2
              k == n + 1
              A == t.to_shape[k]
              Bb == t.to_shape[m]
              nb == Product(SubSeq(t.to_shape, 1, n))
  <1>1. /\ k \in Nat /\ Dimensions(t) = k + 1 /\ m \in Nat /\ k + 1 = m /\ n \in 0..(m - 1)
        /\ k \in 1..m /\ m \in 1..m
    OBVIOUS
  <1>2. t.to_shape \in [1..m -> Positive] /\ t.perm_strides \in [1..m -> Nat]
    <2>1. Dimensions(t) = m
      OBVIOUS
    <2>. HIDE DEF m
    <2>2. t.to_shape \in [1..m -> Positive] /\ t.perm_strides \in [1..m -> Positive]
      BY <2>1, TransposeAxes, TransposeSteps
    <2>. QED  BY <2>2 DEF Positive
  <1>3. /\ A \in Positive /\ nb \in Nat
        /\ Product(SubSeq(t.to_shape, 1, k)) = nb * A
        /\ \A b \in Nat : BaseOf(t, n, b) \in Nat
        /\ \A b \in Nat : \A C \in 0..(A - 1) :
              BaseOf(t, k, b * A + C) = BaseOf(t, n, b) + C * t.perm_strides[k]
    <2>. HIDE DEF m
    <2>. QED  BY <1>1, <1>2, BaseStep
  <1>4. /\ Bb \in Positive /\ t.N = (t.N \div Bb) * Bb
        /\ t.N \div Bb = Product(SubSeq(t.to_shape, 1, k))
        /\ \A q \in Nat : \A R \in 0..(Bb - 1) :
              Sources(t)[q * Bb + R] = BaseOf(t, k, q) + R * t.perm_strides[m]
    <2>1. LET W == t.to_shape[k + 1]
          IN  /\ W \in Positive /\ t.N \div W \in Nat /\ t.N = (t.N \div W) * W
              /\ t.N \div W = Product(SubSeq(t.to_shape, 1, k))
              /\ \A q \in Nat : \A x \in 0..(W - 1) :
                    Sources(t)[q * W + x] = BaseOf(t, k, q) + x * t.perm_strides[k + 1]
      <3>. HIDE DEF k
      <3>. QED  BY <1>1, InnerAxis
    <2>. HIDE DEF k, m
    <2>. QED  BY <1>1, <2>1
  <1>5. t.perm_strides[k] \in Nat /\ t.perm_strides[m] \in Nat
    <2>. HIDE DEF k, m
    <2>. QED  BY <1>1, <1>2
  <1>. DEFINE src == Sources(t)
              base == [b \in Nat |-> BaseOf(t, n, b)]
              p == t.perm_strides[k]
              q == t.perm_strides[m]
  <1>. HIDE DEF A, Bb, nb, m, k
  <1>6. t.N = (nb * A) * Bb
    BY <1>3, <1>4
  <1>7. t.N \div (A * Bb) = nb
    <2>. DEFINE AB == A * Bb
    <2>1. AB \in Positive
      BY <1>3, <1>4 DEF Positive
    <2>2. t.N = nb * AB
      BY <1>3, <1>4, <1>6 DEF Positive
    <2>. HIDE DEF AB
    <2>3. (nb * AB) \div AB = nb
      BY <1>3, <2>1, ExactDivision
    <2>. QED  BY <2>2, <2>3 DEF AB
  <1>8. ASSUME NEW b \in Nat, NEW C \in 0..(A - 1), NEW R \in 0..(Bb - 1)
        PROVE  Sources(t)[(b * A + C) * Bb + R]
                   = BaseOf(t, n, b) + C * t.perm_strides[k] + R * t.perm_strides[m]
    <2>. DEFINE w == b * A + C
    <2>1. w \in Nat
      <3>1. A \in Nat /\ C \in Nat
        BY <1>3 DEF Positive
      <3>2. b * A \in Nat
        BY <3>1
      <3>. QED  BY <3>1, <3>2
    <2>2. BaseOf(t, k, w) = BaseOf(t, n, b) + C * t.perm_strides[k]
      BY <1>3
    <2>. HIDE DEF w
    <2>3. Sources(t)[w * Bb + R] = BaseOf(t, k, w) + R * t.perm_strides[m]
      BY <1>4, <2>1
    <2>. QED  BY <2>2, <2>3 DEF w
  <1>. QED  BY <1>3, <1>4, <1>5, <1>6, <1>7, <1>8 DEF A, Bb, k, m

\* What lies where of nb matrices of A rows of Bb: element R of row C of matrix b
\* is stored by the lane that has its unit, the strip of blocks it belongs to.
MatrixStores(S, units, home, nb, A, Bb, D, RS, base, step) ==
    \A s : s \in S <=> \E lane \in LaneSet : \E b \in 0..(nb - 1) : \E C \in 0..(A - 1) :
                       \E R \in 0..(Bb - 1) :
                           /\ home[<<b, C, R>>] \in Span(lane, units)
                           /\ s = <<lane, (b * D + C * RS) + R, base[b] + R * step + C>>

MatrixSources(src, nb, A, Bb, base, step) ==
    \A b \in 0..(nb - 1) : \A C \in 0..(A - 1) : \A R \in 0..(Bb - 1) :
        src[(b * A + C) * Bb + R] = base[b] + R * step + C

\* Row C of matrix b is row b * A + C of all.
LEMMA RowOfMatrix ==
    ASSUME NEW A \in Positive, NEW Bb \in Positive, NEW nb \in Nat,
           NEW b \in 0..(nb - 1), NEW C \in 0..(A - 1), NEW R \in 0..(Bb - 1)
    PROVE  LET j == (b * A + C) * Bb + R
           IN  /\ j \in 0..((nb * A) * Bb - 1)
               /\ (j \div Bb) \div A = b /\ (j \div Bb) % A = C /\ j % Bb = R
  <1>. DEFINE q == b * A + C
              rows == nb * A
  <1>1. q \in 0..(rows - 1) /\ q \div A = b /\ q % A = C
    BY ElementOfRow
  <1>2. rows \in Nat
    <2>1. A \in Nat
      BY DEF Positive
    <2>. QED  BY <2>1
  <1>. HIDE DEF q, rows
  <1>3. /\ q * Bb + R \in 0..(rows * Bb - 1)
        /\ (q * Bb + R) \div Bb = q /\ (q * Bb + R) % Bb = R
    BY <1>1, <1>2, ElementOfRow
  <1>. QED  BY <1>1, <1>3 DEF q, rows

\* Matrices laid one after the other are rows laid in batches.
LEMMA MatricesRight ==
    ASSUME NEW A \in Positive, NEW Bb \in Positive, NEW nb \in Nat, NEW D \in Nat,
           NEW RS \in Nat, Bb <= RS, A * RS <= D, NEW units \in Nat, NEW home,
           \A b \in 0..(nb - 1) : \A C \in 0..(A - 1) : \A R \in 0..(Bb - 1) :
               home[<<b, C, R>>] \in 0..(units - 1),
           NEW base, NEW step, NEW src, MatrixSources(src, nb, A, Bb, base, step),
           NEW S, MatrixStores(S, units, home, nb, A, Bb, D, RS, base, step),
           NEW N, N = (nb * A) * Bb
    PROVE  LaysRows(S, InBatches(A, D, RS), Bb, src, N)
  <1>. DEFINE off == InBatches(A, D, RS)
              rows == nb * A
              unit == [j \in Nat |-> home[<<(j \div Bb) \div A, (j \div Bb) % A, j % Bb>>]]
  <1>1. rows \in Nat /\ Bb \in Nat
    <2>1. A \in Nat /\ Bb \in Nat
      BY DEF Positive
    <2>. QED  BY <2>1
  <1>2. Spaced(off, Bb, rows)
    <2>. HIDE DEF rows
    <2>. QED  BY <1>1, BatchesSpaced
  <1>3. \A q \in Nat : off[q] = (q \div A) * D + (q % A) * RS
    BY DEF InBatches
  <1>4. ASSUME NEW j \in 0..(N - 1)
        PROVE  \E b \in 0..(nb - 1) : \E C \in 0..(A - 1) : \E R \in 0..(Bb - 1) :
                  /\ j = (b * A + C) * Bb + R
    <2>. DEFINE q == j \div Bb
    <2>1. q \in 0..(rows - 1) /\ j % Bb \in 0..(Bb - 1) /\ j = q * Bb + (j % Bb)
      <3>. HIDE DEF rows
      <3>1. j \in 0..(rows * Bb - 1)
        BY DEF rows
      <3>. QED  BY <1>1, <3>1, RowOfElement
    <2>. HIDE DEF q
    <2>2. q \div A \in 0..(nb - 1) /\ q % A \in 0..(A - 1) /\ q = (q \div A) * A + (q % A)
      BY <2>1, RowOfElement
    <2>. DEFINE b == q \div A
                C == q % A
                R == j % Bb
    <2>3. j = (b * A + C) * Bb + R
      BY <2>1, <2>2
    <2>. HIDE DEF b, C, R
    <2>4. b \in 0..(nb - 1) /\ C \in 0..(A - 1) /\ R \in 0..(Bb - 1)
      BY <2>1, <2>2 DEF b, C, R
    <2>. QED  BY <2>3, <2>4
  <1>5. ASSUME NEW b \in 0..(nb - 1), NEW C \in 0..(A - 1), NEW R \in 0..(Bb - 1), NEW j,
               j = (b * A + C) * Bb + R
        PROVE  /\ j \in 0..(N - 1) /\ unit[j] = home[<<b, C, R>>]
               /\ RowPlace(off, Bb, j) = (b * D + C * RS) + R
               /\ src[j] = base[b] + R * step + C
    <2>1. /\ j \in 0..(N - 1) /\ (j \div Bb) \div A = b /\ (j \div Bb) % A = C /\ j % Bb = R
      <3>. DEFINE k == (b * A + C) * Bb + R
                  m == (nb * A) * Bb
      <3>1. /\ k \in 0..(m - 1) /\ (k \div Bb) \div A = b /\ (k \div Bb) % A = C /\ k % Bb = R
        BY RowOfMatrix
      <3>2. k = j /\ m = N
        BY <1>5
      <3>. HIDE DEF k, m
      <3>. QED  BY <3>1, <3>2
    <2>2. unit[j] = home[<<b, C, R>>]
      BY <2>1
    <2>3. RowPlace(off, Bb, j) = (b * D + C * RS) + R
      <3>1. j \div Bb \in Nat
        <4>1. j \in Nat
          BY <2>1
        <4>. QED  BY <4>1, Quotient
      <3>. QED  BY <1>3, <2>1, <3>1 DEF RowPlace
    <2>4. src[j] = base[b] + R * step + C
      <3>1. src[(b * A + C) * Bb + R] = base[b] + R * step + C
        BY Zenon DEF MatrixSources
      <3>2. j = (b * A + C) * Bb + R
        BY <1>5
      <3>. QED  BY <3>1, <3>2, Zenon
    <2>. QED  BY <2>1, <2>2, <2>3, <2>4
  <1>. HIDE DEF off, rows, unit
  <1>6. \A j \in 0..(N - 1) : unit[j] \in 0..(units - 1)
    <2>. SUFFICES ASSUME NEW j \in 0..(N - 1) PROVE unit[j] \in 0..(units - 1)
      OBVIOUS
    <2>1. PICK b \in 0..(nb - 1) : \E C \in 0..(A - 1) : \E R \in 0..(Bb - 1) :
                  j = (b * A + C) * Bb + R
      BY <1>4
    <2>2. PICK C \in 0..(A - 1) : \E R \in 0..(Bb - 1) : j = (b * A + C) * Bb + R
      BY <2>1
    <2>3. PICK R \in 0..(Bb - 1) : j = (b * A + C) * Bb + R
      BY <2>2
    <2>4. unit[j] = home[<<b, C, R>>]
      BY <1>5, <2>3
    <2>5. home[<<b, C, R>>] \in 0..(units - 1)
      BY Zenon
    <2>. QED  BY <2>4, <2>5
  <1>7. ByUnits(S, units, unit, off, Bb, src, N)
    <2>1. ASSUME NEW s \in S
          PROVE  \E lane \in LaneSet : \E j \in 0..(N - 1) :
                    unit[j] \in Span(lane, units) /\ s = <<lane, RowPlace(off, Bb, j), src[j]>>
      <3>1. PICK lane \in LaneSet : \E b \in 0..(nb - 1) : \E C \in 0..(A - 1) :
                       \E R \in 0..(Bb - 1) :
                           /\ home[<<b, C, R>>] \in Span(lane, units)
                           /\ s = <<lane, (b * D + C * RS) + R, base[b] + R * step + C>>
        <4>. DEFINE P(x) == \E lane \in LaneSet : \E b \in 0..(nb - 1) : \E C \in 0..(A - 1) :
                       \E R \in 0..(Bb - 1) :
                           /\ home[<<b, C, R>>] \in Span(lane, units)
                           /\ x = <<lane, (b * D + C * RS) + R, base[b] + R * step + C>>
        <4>1. \A x : x \in S <=> P(x)
          BY DEF MatrixStores
        <4>. HIDE DEF P
        <4>2. P(s)
          BY <4>1
        <4>. QED  BY <4>2 DEF P
      <3>2. PICK b \in 0..(nb - 1) : \E C \in 0..(A - 1) : \E R \in 0..(Bb - 1) :
                           /\ home[<<b, C, R>>] \in Span(lane, units)
                           /\ s = <<lane, (b * D + C * RS) + R, base[b] + R * step + C>>
        BY <3>1
      <3>3. PICK C \in 0..(A - 1) : \E R \in 0..(Bb - 1) :
                           /\ home[<<b, C, R>>] \in Span(lane, units)
                           /\ s = <<lane, (b * D + C * RS) + R, base[b] + R * step + C>>
        BY <3>2
      <3>4. PICK R \in 0..(Bb - 1) :
                           /\ home[<<b, C, R>>] \in Span(lane, units)
                           /\ s = <<lane, (b * D + C * RS) + R, base[b] + R * step + C>>
        BY <3>3
      <3>. DEFINE j == (b * A + C) * Bb + R
      <3>5. j = (b * A + C) * Bb + R
        OBVIOUS
      <3>. HIDE DEF j
      <3>6. j \in 0..(N - 1) /\ unit[j] \in Span(lane, units)
            /\ s = <<lane, RowPlace(off, Bb, j), src[j]>>
        BY <1>5, <3>4, <3>5
      <3>. QED  BY <3>6
    <2>2. ASSUME NEW lane \in LaneSet, NEW j \in 0..(N - 1), unit[j] \in Span(lane, units)
          PROVE  <<lane, RowPlace(off, Bb, j), src[j]>> \in S
      <3>1. PICK b \in 0..(nb - 1) : \E C \in 0..(A - 1) : \E R \in 0..(Bb - 1) :
                    j = (b * A + C) * Bb + R
        BY <1>4
      <3>2. PICK C \in 0..(A - 1) : \E R \in 0..(Bb - 1) : j = (b * A + C) * Bb + R
        BY <3>1
      <3>3. PICK R \in 0..(Bb - 1) : j = (b * A + C) * Bb + R
        BY <3>2
      <3>4. /\ home[<<b, C, R>>] \in Span(lane, units)
            /\ RowPlace(off, Bb, j) = (b * D + C * RS) + R
            /\ src[j] = base[b] + R * step + C
        BY <1>5, <2>2, <3>3
      <3>5. <<lane, (b * D + C * RS) + R, base[b] + R * step + C>> \in S
        BY <3>4 DEF MatrixStores
      <3>. QED  BY <3>4, <3>5
    <2>. QED  BY <2>1, <2>2 DEF ByUnits
  <1>8. N = rows * Bb
    BY DEF rows
  <1>9. LaysRows(S, off, Bb, src, N)
    BY <1>1, <1>2, <1>6, <1>7, <1>8, RowsRight
  <1>. QED  BY <1>9 DEF off

\* Where the element in row R and column C of a matrix goes when it is transposed.
Moved(lane, dst, RS, src, step, R, C) == <<lane, (dst + C * RS) + R, src + R * step + C>>

\* The offset of a block and that in the block add up, whatever the offset of both.
LEMMA MovedBlock ==
    ASSUME NEW lane, NEW dst \in Nat, NEW RS \in Nat, NEW src \in Nat, NEW step \in Nat,
           NEW r0 \in Nat, NEW c0 \in Nat, NEW r \in Nat, NEW c \in Nat
    PROVE  <<lane, (dst + c0 * RS + r0) + c * RS + r, (src + r0 * step + c0) + r * step + c>>
               = Moved(lane, dst, RS, src, step, r0 + r, c0 + c)
  <1>1. (c0 + c) * RS = c0 * RS + c * RS /\ (r0 + r) * step = r0 * step + r * step
    OBVIOUS
  <1>. DEFINE p1 == c0 * RS
              p2 == c * RS
              q1 == r0 * step
              q2 == r * step
  <1>2. p1 \in Nat /\ p2 \in Nat /\ q1 \in Nat /\ q2 \in Nat
    OBVIOUS
  <1>. HIDE DEF p1, p2, q1, q2
  <1>3. (dst + p1 + r0) + p2 + r = (dst + (p1 + p2)) + (r0 + r)
    BY <1>2
  <1>4. (src + q1 + c0) + q2 + c = src + (q1 + q2) + (c0 + c)
    BY <1>2
  <1>. QED  BY <1>1, <1>3, <1>4 DEF Moved, p1, p2, q1, q2

\* Block b of a matrix, transposed.
BlockTtrans(lane, rows, cols, b, dst, RS, src, step) ==
    LET at == BlockAt(rows, cols, b)
    IN  Ttrans(lane, dst + at.c0 * RS + at.r0, RS, src + at.r0 * step + at.c0, step, at.rb, at.cb)

BlockMoved(s, lane, rows, cols, b, dst, RS, src, step) ==
    \E R \in 0..(rows - 1) : \E C \in 0..(cols - 1) :
        InBlock(rows, cols, b, R, C) /\ s = Moved(lane, dst, RS, src, step, R, C)

\* A block of a matrix moves the elements that are in it.
LEMMA BlockMoves ==
    ASSUME NEW rows \in Positive, NEW cols \in Positive, NEW b \in 0..(Blocks(rows, cols) - 1),
           NEW lane, NEW dst \in Nat, NEW RS \in Nat, NEW src \in Nat, NEW step \in Nat, NEW s
    PROVE  s \in BlockTtrans(lane, rows, cols, b, dst, RS, src, step)
               <=> BlockMoved(s, lane, rows, cols, b, dst, RS, src, step)
  <1>. DEFINE at == BlockAt(rows, cols, b)
              T == BlockTtrans(lane, rows, cols, b, dst, RS, src, step)
  <1>1. /\ at.r0 \in Nat /\ at.c0 \in Nat /\ at.rb \in Int /\ at.cb \in Int
    <2>1. CeilDiv(rows, Block) \in Nat /\ CeilDiv(cols, Block) \in Nat /\ Block \in Positive
      BY Constants, RoundUpReaches DEF Positive
    <2>2. CeilDiv(cols, Block) \in Positive
      <3>1. CeilDiv(cols, Block) * Block >= cols
        BY Constants, RoundUpReaches DEF RoundUp, Positive
      <3>2. CeilDiv(cols, Block) # 0
        BY <2>1, <3>1 DEF Positive
      <3>. QED  BY <2>1, <3>2 DEF Positive
    <2>3. b \in Nat
      BY <2>1 DEF Blocks
    <2>4. b \div CeilDiv(cols, Block) \in Nat /\ b % CeilDiv(cols, Block) \in Nat
      BY <2>2, <2>3, Quotient
    <2>5. at.r0 \in Nat /\ at.c0 \in Nat
      BY <2>1, <2>4 DEF BlockAt, Positive
    <2>6. at.rb = Least(rows - at.r0, Block) /\ at.cb = Least(cols - at.c0, Block)
      BY DEF BlockAt
    <2>. HIDE DEF at
    <2>. QED  BY <2>1, <2>5, <2>6 DEF Least, Positive
  <1>2. s \in T <=>
            \E r \in 0..(at.rb - 1), c \in 0..(at.cb - 1) :
                s = <<lane, (dst + at.c0 * RS + at.r0) + c * RS + r,
                            (src + at.r0 * step + at.c0) + r * step + c>>
    BY DEF BlockTtrans, Ttrans
  <1>3. \A R \in Nat, C \in Nat : InBlock(rows, cols, b, R, C) <=>
            /\ R \in at.r0..(at.r0 + at.rb - 1)
            /\ C \in at.c0..(at.c0 + at.cb - 1)
    BY DEF InBlock
  <1>4. \A R \in Nat, C \in Nat :
            InBlock(rows, cols, b, R, C) => R \in 0..(rows - 1) /\ C \in 0..(cols - 1)
    <2>1. \A R \in Nat, C \in Nat :
              InBlock(rows, cols, b, R, C) => R < rows /\ C < cols
      BY BlocksShare
    <2>. QED  BY <2>1 DEF Positive
  <1>. HIDE DEF at, T
  <1>5. ASSUME NEW r \in 0..(at.rb - 1), NEW c \in 0..(at.cb - 1),
               s = <<lane, (dst + at.c0 * RS + at.r0) + c * RS + r,
                           (src + at.r0 * step + at.c0) + r * step + c>>
        PROVE  \E R \in 0..(rows - 1) : \E C \in 0..(cols - 1) :
                   /\ InBlock(rows, cols, b, R, C)
                   /\ s = Moved(lane, dst, RS, src, step, R, C)
    <2>1. r \in Nat /\ c \in Nat /\ at.r0 + r \in Nat /\ at.c0 + c \in Nat
      BY <1>1
    <2>2. s = Moved(lane, dst, RS, src, step, at.r0 + r, at.c0 + c)
      BY <1>1, <1>5, <2>1, MovedBlock
    <2>3. InBlock(rows, cols, b, at.r0 + r, at.c0 + c)
      BY <1>1, <1>3, <2>1
    <2>. QED  BY <1>4, <2>1, <2>2, <2>3
  <1>6. ASSUME NEW R \in 0..(rows - 1), NEW C \in 0..(cols - 1),
               InBlock(rows, cols, b, R, C), s = Moved(lane, dst, RS, src, step, R, C)
        PROVE  s \in T
    <2>1. /\ R \in at.r0..(at.r0 + at.rb - 1) /\ R \in Nat
          /\ C \in at.c0..(at.c0 + at.cb - 1) /\ C \in Nat
      BY <1>3, <1>6
    <2>2. PICK r \in 0..(at.rb - 1), c \in 0..(at.cb - 1) : R = at.r0 + r /\ C = at.c0 + c
      <3>1. R - at.r0 \in 0..(at.rb - 1) /\ R = at.r0 + (R - at.r0)
        BY <1>1, <2>1
      <3>2. C - at.c0 \in 0..(at.cb - 1) /\ C = at.c0 + (C - at.c0)
        BY <1>1, <2>1
      <3>. QED  BY <3>1, <3>2
    <2>3. r \in Nat /\ c \in Nat
      OBVIOUS
    <2>4. s = <<lane, (dst + at.c0 * RS + at.r0) + c * RS + r,
                      (src + at.r0 * step + at.c0) + r * step + c>>
      BY <1>1, <1>6, <2>2, <2>3, MovedBlock
    <2>. QED  BY <1>2, <2>4
  <1>. QED  BY <1>2, <1>5, <1>6 DEF at, T, BlockMoved

\* How transpose_nd_batched_2d spaces its rows, and its batches.
BatchedStride(t, padInner, padStride) ==
    IF padStride > padInner THEN padStride ELSE t.to_shape[Dimensions(t)]
BatchedBlock(t, padInner, padStride, dstBlock) ==
    IF dstBlock # 0 THEN dstBlock
    ELSE t.to_shape[Dimensions(t) - 1] * BatchedStride(t, padInner, padStride)

\* The whole matrices of all lanes, a matrix a unit.
WholeMatrices(t, n, nb, A, Bb, D, RS, step) ==
    LET whole(lane, bases) ==
            UNION {Ttrans(lane, b * D, RS, bases[b], step, Bb, A) : b \in DOMAIN bases}
    IN  UNION {whole(lane, Bases(t, n, Span(lane, nb))) : lane \in LaneSet}

\* All the matrices are stored, each by the lane that has it.
LEMMA WholeStored ==
    ASSUME NEW t, NEW n \in Nat, Steppable(t, n), NEW nb \in Nat, NEW A, NEW Bb, NEW D, NEW RS,
           NEW step, NEW base, \A b \in Nat : base[b] = BaseOf(t, n, b),
           NEW home, \A b \in 0..(nb - 1) : \A C \in 0..(A - 1) : \A R \in 0..(Bb - 1) :
                         home[<<b, C, R>>] = b
    PROVE  MatrixStores(WholeMatrices(t, n, nb, A, Bb, D, RS, step), nb, home, nb, A, Bb, D, RS,
                        base, step)
  <1>. DEFINE S == WholeMatrices(t, n, nb, A, Bb, D, RS, step)
              whole(lane, bases) ==
                  UNION {Ttrans(lane, b * D, RS, bases[b], step, Bb, A) : b \in DOMAIN bases}
  <1>1. S = UNION {whole(lane, Bases(t, n, Span(lane, nb))) : lane \in LaneSet}
    BY DEF WholeMatrices
  <1>. HIDE DEF S
  <1>. SUFFICES ASSUME NEW s
                PROVE  s \in S <=> \E lane \in LaneSet : \E b \in 0..(nb - 1) :
                          \E C \in 0..(A - 1) : \E R \in 0..(Bb - 1) :
                             /\ home[<<b, C, R>>] \in Span(lane, nb)
                             /\ s = <<lane, (b * D + C * RS) + R, base[b] + R * step + C>>
    BY DEF MatrixStores, S
  <1>2. s \in S <=> \E lane \in LaneSet : s \in whole(lane, Bases(t, n, Span(lane, nb)))
    <2>. HIDE DEF whole
    <2>. QED  BY <1>1
  <1>. DEFINE at(lane, b, C, R) ==
                  s = <<lane, (b * D + C * RS) + R, base[b] + R * step + C>>
  <1>3. ASSUME NEW lane \in LaneSet
        PROVE  s \in whole(lane, Bases(t, n, Span(lane, nb)))
                   <=> \E b \in Span(lane, nb) : \E C \in 0..(A - 1) : \E R \in 0..(Bb - 1) :
                           at(lane, b, C, R)
    <2>. DEFINE span == Span(lane, nb)
                bases == [g \in span |-> BaseOf(t, n, g)]
    <2>1. \A b \in span : b \in Nat /\ bases[b] = base[b]
      BY SpanInside
    <2>2. Bases(t, n, span) = bases
      BY LaneBases
    <2>3. DOMAIN bases = span
      OBVIOUS
    <2>. HIDE DEF span, bases
    <2>4. s \in whole(lane, bases)
              <=> \E b \in span : s \in Ttrans(lane, b * D, RS, base[b], step, Bb, A)
      BY <2>1, <2>3
    <2>5. ASSUME NEW b \in span
          PROVE  s \in Ttrans(lane, b * D, RS, base[b], step, Bb, A)
                     <=> \E C \in 0..(A - 1) : \E R \in 0..(Bb - 1) : at(lane, b, C, R)
      BY DEF Ttrans
    <2>. HIDE DEF whole, at
    <2>. QED  BY <2>2, <2>4, <2>5 DEF span
  <1>4. ASSUME NEW lane \in LaneSet
        PROVE  (\E b \in Span(lane, nb) : \E C \in 0..(A - 1) : \E R \in 0..(Bb - 1) :
                    at(lane, b, C, R))
                 <=> \E b \in 0..(nb - 1) : \E C \in 0..(A - 1) : \E R \in 0..(Bb - 1) :
                         home[<<b, C, R>>] \in Span(lane, nb) /\ at(lane, b, C, R)
    <2>. HIDE DEF at
    <2>1. \A b \in Span(lane, nb) : b \in 0..(nb - 1)
      BY SpanInside
    <2>. QED  BY <2>1
  <1>. HIDE DEF whole
  <1>. QED  BY <1>2, <1>3, <1>4

\* The blocks of the matrices of all lanes, a block a unit.
PartMatrices(t, n, nb, A, Bb, D, RS, step) ==
    LET bpb == Blocks(Bb, A)
        part(lane, w) ==
            LET at == BlockAt(Bb, A, w % bpb)
                base == Decode(w \div bpb, SubSeq(t.to_shape, 1, n), SubSeq(t.perm_strides, 1, n))
            IN  Ttrans(lane, (w \div bpb) * D + at.c0 * RS + at.r0, RS,
                       base + at.r0 * step + at.c0, step, at.rb, at.cb)
    IN  UNION {part(s[1], s[2]) : s \in Shared(nb * bpb)}

\* The block that an element of a matrix is in.
BlockOf(cols, R, C) == (R \div Block) * CeilDiv(cols, Block) + (C \div Block)

\* The blocks of all the matrices are stored, each by the lane that has it.
LEMMA PartStored ==
    ASSUME NEW t, NEW n \in Nat, NEW nb \in Nat, NEW A \in Positive, NEW Bb \in Positive,
           NEW D \in Nat, NEW RS \in Nat, NEW step \in Nat,
           NEW base, \A b \in Nat : base[b] = BaseOf(t, n, b) /\ base[b] \in Nat,
           NEW home, \A b \in 0..(nb - 1) : \A C \in 0..(A - 1) : \A R \in 0..(Bb - 1) :
                         home[<<b, C, R>>] = b * Blocks(Bb, A) + BlockOf(A, R, C)
    PROVE  LET units == nb * Blocks(Bb, A)
           IN  /\ units \in Nat
               /\ \A b \in 0..(nb - 1) : \A C \in 0..(A - 1) : \A R \in 0..(Bb - 1) :
                      home[<<b, C, R>>] \in 0..(units - 1)
               /\ MatrixStores(PartMatrices(t, n, nb, A, Bb, D, RS, step), units, home,
                               nb, A, Bb, D, RS, base, step)
  <1>. DEFINE bpb == Blocks(Bb, A)
              units == nb * bpb
              S == PartMatrices(t, n, nb, A, Bb, D, RS, step)
              part(lane, w) ==
                  LET at == BlockAt(Bb, A, w % bpb)
                      from == Decode(w \div bpb, SubSeq(t.to_shape, 1, n),
                                     SubSeq(t.perm_strides, 1, n))
                  IN  Ttrans(lane, (w \div bpb) * D + at.c0 * RS + at.r0, RS,
                             from + at.r0 * step + at.c0, step, at.rb, at.cb)
  <1>1. /\ bpb \in Nat
        /\ \A R \in 0..(Bb - 1) : \A C \in 0..(A - 1) :
              BlockOf(A, R, C) \in 0..(bpb - 1) /\ InBlock(Bb, A, BlockOf(A, R, C), R, C)
        /\ \A u \in 0..(bpb - 1) : \A R \in 0..(Bb - 1) : \A C \in 0..(A - 1) :
              InBlock(Bb, A, u, R, C) => u = BlockOf(A, R, C)
    <2>1. CeilDiv(Bb, Block) \in Nat /\ CeilDiv(A, Block) \in Nat
      BY Constants, RoundUpReaches DEF Positive
    <2>2. bpb \in Nat
      BY <2>1 DEF Blocks
    <2>3. ASSUME NEW R \in 0..(Bb - 1), NEW C \in 0..(A - 1)
          PROVE  /\ BlockOf(A, R, C) \in 0..(bpb - 1) /\ InBlock(Bb, A, BlockOf(A, R, C), R, C)
                 /\ \A u \in 0..(bpb - 1) : InBlock(Bb, A, u, R, C) => u = BlockOf(A, R, C)
      <3>1. R \in Nat /\ C \in Nat /\ R < Bb /\ C < A
        BY DEF Positive
      <3>. QED  BY <3>1, BlocksShare DEF BlockOf
    <2>. QED  BY <2>2, <2>3
  <1>2. \A R \in 0..(Bb - 1) : \A C \in 0..(A - 1) : bpb \in Positive
    BY <1>1 DEF Positive
  <1>3. units \in Nat
    BY <1>1
  <1>4. S = UNION {part(p[1], p[2]) : p \in Shared(units)}
    BY DEF PartMatrices
  <1>. HIDE DEF S, bpb
  <1>5. ASSUME NEW b \in 0..(nb - 1), NEW C \in 0..(A - 1), NEW R \in 0..(Bb - 1)
        PROVE  /\ home[<<b, C, R>>] \in 0..(units - 1)
               /\ home[<<b, C, R>>] \div bpb = b /\ home[<<b, C, R>>] % bpb = BlockOf(A, R, C)
    <2>. DEFINE u == BlockOf(A, R, C)
    <2>1. u \in 0..(bpb - 1) /\ bpb \in Positive /\ home[<<b, C, R>>] = b * bpb + u
      BY <1>1, <1>2 DEF bpb
    <2>. HIDE DEF u
    <2>. QED  BY <2>1, ElementOfRow DEF u
  <1>6. ASSUME NEW lane \in LaneSet, NEW w \in Span(lane, units), NEW s
        PROVE  s \in part(lane, w) <=>
                  \E R \in 0..(Bb - 1) : \E C \in 0..(A - 1) :
                     /\ InBlock(Bb, A, w % bpb, R, C)
                     /\ s = Moved(lane, (w \div bpb) * D, RS, base[w \div bpb], step, R, C)
    <2>1. w \in 0..(units - 1) /\ bpb \in Positive
      <3>1. w \in 0..(units - 1)
        BY <1>3, SpanInside
      <3>2. units # 0
        BY <3>1
      <3>3. bpb # 0
        BY <3>2
      <3>. QED  BY <1>1, <3>1, <3>3 DEF Positive
    <2>2. w \div bpb \in Nat /\ w % bpb \in 0..(bpb - 1)
      BY <2>1, RowOfElement
    <2>. DEFINE b == w \div bpb
                u == w % bpb
                dst == b * D
    <2>3. /\ dst \in Nat /\ base[b] \in Nat /\ base[b] = BaseOf(t, n, b)
          /\ u \in 0..(Blocks(Bb, A) - 1)
      BY <2>2 DEF bpb
    <2>. DEFINE src == base[b]
                T == BlockTtrans(lane, Bb, A, u, dst, RS, src, step)
    <2>4. src \in Nat /\ part(lane, w) = T
      BY <2>3 DEF BaseOf, BlockTtrans
    <2>5. s \in T <=> \E R \in 0..(Bb - 1) : \E C \in 0..(A - 1) :
                          InBlock(Bb, A, u, R, C) /\ s = Moved(lane, dst, RS, src, step, R, C)
      <3>1. u \in 0..(Blocks(Bb, A) - 1) /\ dst \in Nat /\ src \in Nat
        BY <2>3, <2>4
      <3>. HIDE DEF b, u, dst, src, T
      <3>2. s \in BlockTtrans(lane, Bb, A, u, dst, RS, src, step)
               <=> BlockMoved(s, lane, Bb, A, u, dst, RS, src, step)
        BY <3>1, BlockMoves
      <3>. QED  BY <3>2 DEF T, BlockMoved
    <2>. HIDE DEF part, T
    <2>. QED  BY <2>4, <2>5
  <1>. SUFFICES ASSUME NEW s
                PROVE  s \in S <=> \E lane \in LaneSet : \E b \in 0..(nb - 1) :
                          \E C \in 0..(A - 1) : \E R \in 0..(Bb - 1) :
                             /\ home[<<b, C, R>>] \in Span(lane, units)
                             /\ s = <<lane, (b * D + C * RS) + R, base[b] + R * step + C>>
    BY <1>3, <1>5 DEF MatrixStores, S, bpb
  <1>. DEFINE at(lane, b, C, R) ==
                  s = <<lane, (b * D + C * RS) + R, base[b] + R * step + C>>
  <1>7. \A lane, b, C, R : at(lane, b, C, R) <=> s = Moved(lane, b * D, RS, base[b], step, R, C)
    BY DEF Moved
  <1>8. s \in S <=> \E lane \in LaneSet : \E w \in Span(lane, units) : s \in part(lane, w)
    <2>1. \A p : p \in Shared(units) <=> \E lane \in LaneSet : \E w \in Span(lane, units) :
                                             p = <<lane, w>>
      BY <1>3, SharedPairs
    <2>. HIDE DEF part, units
    <2>2. s \in S <=> \E p \in Shared(units) : s \in part(p[1], p[2])
      BY <1>4
    <2>3. ASSUME NEW p \in Shared(units), s \in part(p[1], p[2])
          PROVE  \E lane \in LaneSet : \E w \in Span(lane, units) : s \in part(lane, w)
      <3>1. PICK lane \in LaneSet : \E w \in Span(lane, units) : p = <<lane, w>>
        BY <2>1
      <3>2. PICK w \in Span(lane, units) : p = <<lane, w>>
        BY <3>1
      <3>3. p[1] = lane /\ p[2] = w
        BY <3>2
      <3>. QED  BY <2>3, <3>3
    <2>4. ASSUME NEW lane \in LaneSet, NEW w \in Span(lane, units), s \in part(lane, w)
          PROVE  \E p \in Shared(units) : s \in part(p[1], p[2])
      <3>. DEFINE p == <<lane, w>>
      <3>1. p \in Shared(units) /\ p[1] = lane /\ p[2] = w
        BY <2>1
      <3>. HIDE DEF p
      <3>. QED  BY <2>4, <3>1
    <2>. QED  BY <2>2, <2>3, <2>4
  <1>. HIDE DEF part, at
  <1>9. ASSUME NEW lane \in LaneSet, NEW w \in Span(lane, units), s \in part(lane, w)
        PROVE  \E b \in 0..(nb - 1) : \E C \in 0..(A - 1) : \E R \in 0..(Bb - 1) :
                  home[<<b, C, R>>] \in Span(lane, units) /\ at(lane, b, C, R)
    <2>1. PICK R \in 0..(Bb - 1) : \E C \in 0..(A - 1) :
              /\ InBlock(Bb, A, w % bpb, R, C)
              /\ s = Moved(lane, (w \div bpb) * D, RS, base[w \div bpb], step, R, C)
      BY <1>6, <1>9
    <2>2. PICK C \in 0..(A - 1) :
              /\ InBlock(Bb, A, w % bpb, R, C)
              /\ s = Moved(lane, (w \div bpb) * D, RS, base[w \div bpb], step, R, C)
      BY <2>1
    <2>. DEFINE b == w \div bpb
                u == w % bpb
    <2>3. w \in 0..(units - 1) /\ bpb \in Positive
      BY <1>2, <1>3, SpanInside
    <2>4. b \in 0..(nb - 1) /\ u \in 0..(bpb - 1) /\ w = b * bpb + u
      BY <2>3, RowOfElement
    <2>. HIDE DEF b, u
    <2>5. u = BlockOf(A, R, C)
      BY <1>1, <2>2, <2>4 DEF u
    <2>6. home[<<b, C, R>>] = w
      BY <2>4, <2>5 DEF bpb
    <2>7. at(lane, b, C, R)
      BY <1>7, <2>2 DEF b
    <2>. QED  BY <2>4, <2>6, <2>7
  <1>10. ASSUME NEW lane \in LaneSet, NEW b \in 0..(nb - 1), NEW C \in 0..(A - 1),
                NEW R \in 0..(Bb - 1), home[<<b, C, R>>] \in Span(lane, units),
                at(lane, b, C, R)
         PROVE  \E w \in Span(lane, units) : s \in part(lane, w)
    <2>. DEFINE w == home[<<b, C, R>>]
    <2>1. w \in Span(lane, units) /\ w \div bpb = b /\ w % bpb = BlockOf(A, R, C)
      BY <1>5, <1>10
    <2>2. InBlock(Bb, A, w % bpb, R, C)
      BY <1>1, <2>1
    <2>3. s = Moved(lane, (w \div bpb) * D, RS, base[w \div bpb], step, R, C)
      BY <1>7, <1>10, <2>1
    <2>. HIDE DEF w
    <2>4. s \in part(lane, w)
      BY <1>6, <2>1, <2>2, <2>3
    <2>. QED  BY <2>1, <2>4
  <1>. HIDE DEF units
  <1>. QED  BY <1>8, <1>9, <1>10 DEF at

(***************************************************************************)
(* transpose_nd_batched_2d_inline: whatever the shape, the padding of the  *)
(* rows and of the batches it leaves and the size of an element, with a    *)
(* matrix or a block of one to a lane at a time, every element is stored   *)
(* once, at its place in its row of its batch: the bases the odometer      *)
(* steps through, or the blocks decode, are those of transfer_idx.         *)
(***************************************************************************)
THEOREM Batched2dRight ==
    ASSUME NEW t, IsTranspose(t), NEW n \in Nat, Dimensions(t) = n + 2,
           t.perm_strides[n + 1] = 1, NEW ds,
           NEW padInner \in Nat, NEW padStride \in Nat, NEW dstBlock \in Nat,
           t.to_shape[n + 2] <= BatchedStride(t, padInner, padStride),
           t.to_shape[n + 1] * BatchedStride(t, padInner, padStride)
               <= BatchedBlock(t, padInner, padStride, dstBlock)
    PROVE  LaysRows(transpose_nd_batched_2d(t, ds, padInner, padStride, dstBlock),
                    InBatches(t.to_shape[n + 1], BatchedBlock(t, padInner, padStride, dstBlock),
                              BatchedStride(t, padInner, padStride)),
                    t.to_shape[n + 2], Sources(t), t.N)
  <1>. DEFINE A == t.to_shape[n + 1]
              Bb == t.to_shape[n + 2]
              step == t.perm_strides[n + 2]
              RS == BatchedStride(t, padInner, padStride)
              D == BatchedBlock(t, padInner, padStride, dstBlock)
              nb == t.N \div (A * Bb)
              bpb == Blocks(Bb, A)
              S == transpose_nd_batched_2d(t, ds, padInner, padStride, dstBlock)
              base == [b \in Nat |-> BaseOf(t, n, b)]
              src == Sources(t)
              N == t.N
              inMatrix == [x \in Nat \X Nat \X Nat |-> x[1]]
              inBlock == [x \in Nat \X Nat \X Nat |-> x[1] * bpb + BlockOf(A, x[3], x[2])]
  <1>1. /\ A \in Positive /\ Bb \in Positive /\ nb \in Nat /\ N = (nb * A) * Bb
        /\ t.perm_strides[n + 1] \in Nat /\ step \in Nat
        /\ \A b \in Nat : BaseOf(t, n, b) \in Nat
        /\ \A b \in Nat : \A C \in 0..(A - 1) : \A R \in 0..(Bb - 1) :
              src[(b * A + C) * Bb + R]
                  = BaseOf(t, n, b) + C * t.perm_strides[n + 1] + R * step
    BY InnerMatrices
  <1>2. RS \in Nat /\ D \in Nat /\ Bb <= RS /\ A * RS <= D
    <2>1. n + 2 - 1 = n + 1
      OBVIOUS
    <2>2. RS \in Nat
      BY <1>1 DEF BatchedStride, Positive
    <2>3. D = IF dstBlock # 0 THEN dstBlock ELSE A * RS
      BY <2>1 DEF BatchedBlock
    <2>4. A \in Nat
      BY <1>1 DEF Positive
    <2>5. A * RS \in Nat
      <3>. HIDE DEF A, RS
      <3>. QED  BY <2>2, <2>4
    <2>6. D \in Nat
      <3>. HIDE DEF D
      <3>. QED  BY <2>3, <2>5
    <2>. QED  BY <2>2, <2>6
  <1>3. S = IF FitsUb(Bb, A, ds) THEN WholeMatrices(t, n, nb, A, Bb, D, RS, step)
            ELSE PartMatrices(t, n, nb, A, Bb, D, RS, step)
    <2>. DEFINE k == Dimensions(t) - 2
                A0 == t.to_shape[k + 1]
                B0 == t.to_shape[k + 2]
                RS0 == IF padStride > padInner THEN padStride ELSE B0
                D0 == IF dstBlock # 0 THEN dstBlock ELSE A0 * RS0
                nb0 == t.N \div (A0 * B0)
                step0 == t.perm_strides[k + 2]
    <2>1. S = IF FitsUb(B0, A0, ds) THEN WholeMatrices(t, k, nb0, A0, B0, D0, RS0, step0)
              ELSE PartMatrices(t, k, nb0, A0, B0, D0, RS0, step0)
      BY DEF transpose_nd_batched_2d, WholeMatrices, PartMatrices
    <2>2. k = n
      OBVIOUS
    <2>3. A0 = A /\ B0 = Bb /\ step0 = step
      BY <2>2
    <2>4. RS0 = RS
      BY <2>2 DEF BatchedStride
    <2>5. t.to_shape[Dimensions(t) - 1] = A0
      <3>1. Dimensions(t) - 1 = k + 1
        OBVIOUS
      <3>. QED  BY <3>1
    <2>. HIDE DEF A0, B0, RS0, A, Bb, RS
    <2>6. D0 = D
      BY <2>4, <2>5 DEF BatchedBlock, RS
    <2>7. nb0 = nb
      BY <2>3
    <2>. HIDE DEF k, D0, nb0, step0, D, nb, step, S
    <2>. QED  BY <2>1, <2>2, <2>3, <2>4, <2>6, <2>7
  <1>4. Steppable(t, n)
    <2>1. n \in 0..Dimensions(t)
      OBVIOUS
    <2>. QED  BY <2>1, TransposeSteps
  <1>. HIDE DEF A, Bb, step, RS, D, nb, S
  <1>5. \A b \in Nat : base[b] = BaseOf(t, n, b) /\ base[b] \in Nat
    BY <1>1
  <1>6. \A b \in 0..(nb - 1) : \A C \in 0..(A - 1) : \A R \in 0..(Bb - 1) :
            /\ inMatrix[<<b, C, R>>] = b
            /\ inBlock[<<b, C, R>>] = b * bpb + BlockOf(A, R, C)
    <2>. HIDE DEF inMatrix, inBlock, bpb
    <2>. SUFFICES ASSUME NEW b \in 0..(nb - 1), NEW C \in 0..(A - 1), NEW R \in 0..(Bb - 1)
                  PROVE  /\ inMatrix[<<b, C, R>>] = b
                         /\ inBlock[<<b, C, R>>] = b * bpb + BlockOf(A, R, C)
      BY Zenon
    <2>. DEFINE x == <<b, C, R>>
    <2>0. b \in Nat /\ C \in Nat /\ R \in Nat
      OBVIOUS
    <2>1. x \in Nat \X Nat \X Nat /\ x[1] = b /\ x[2] = C /\ x[3] = R
      BY <2>0
    <2>. HIDE DEF x
    <2>2. inMatrix[x] = b /\ inBlock[x] = b * bpb + BlockOf(A, R, C)
      BY <2>1 DEF inMatrix, inBlock
    <2>. QED  BY <2>2 DEF x
  <1>7. MatrixSources(src, nb, A, Bb, base, step)
    <2>. SUFFICES ASSUME NEW b \in 0..(nb - 1), NEW C \in 0..(A - 1), NEW R \in 0..(Bb - 1)
                  PROVE  src[(b * A + C) * Bb + R] = base[b] + R * step + C
      BY DEF MatrixSources
    <2>. DEFINE v == src[(b * A + C) * Bb + R]
                e == BaseOf(t, n, b)
                q == R * step
    <2>1. v = e + C * 1 + q
      BY <1>1
    <2>2. e \in Nat /\ base[b] = e /\ C \in Nat /\ R \in Nat
      BY <1>1, <1>5
    <2>3. q \in Nat
      BY <1>1, <2>2
    <2>. HIDE DEF v, e, q
    <2>. QED  BY <2>1, <2>2, <2>3 DEF v, q
  <1>. HIDE DEF base, src, N, inMatrix, inBlock, bpb
  <1>8. A \in Positive /\ Bb \in Positive /\ nb \in Nat /\ N = (nb * A) * Bb
    BY <1>1 DEF N
  <1>9. ASSUME FitsUb(Bb, A, ds) PROVE LaysRows(S, InBatches(A, D, RS), Bb, src, N)
    <2>1. \A b \in 0..(nb - 1) : \A C \in 0..(A - 1) : \A R \in 0..(Bb - 1) :
              inMatrix[<<b, C, R>>] = b
      BY <1>6, Zenon
    <2>2. MatrixStores(S, nb, inMatrix, nb, A, Bb, D, RS, base, step)
      <3>1. \A b \in Nat : base[b] = BaseOf(t, n, b)
        BY <1>5
      <3>2. MatrixStores(WholeMatrices(t, n, nb, A, Bb, D, RS, step), nb, inMatrix, nb, A, Bb,
                         D, RS, base, step)
        BY <1>1, <1>4, <2>1, <3>1, WholeStored
      <3>. QED  BY <1>3, <1>9, <3>2
    <2>3. \A b \in 0..(nb - 1) : \A C \in 0..(A - 1) : \A R \in 0..(Bb - 1) :
              inMatrix[<<b, C, R>>] \in 0..(nb - 1)
      <3>. SUFFICES ASSUME NEW b \in 0..(nb - 1), NEW C \in 0..(A - 1), NEW R \in 0..(Bb - 1)
                    PROVE  inMatrix[<<b, C, R>>] \in 0..(nb - 1)
        BY Zenon
      <3>1. inMatrix[<<b, C, R>>] = b
        BY <2>1, Zenon
      <3>. QED  BY <3>1
    <2>. QED  BY <1>8, <1>2, <1>7, <2>2, <2>3, MatricesRight
  <1>10. ASSUME ~FitsUb(Bb, A, ds) PROVE LaysRows(S, InBatches(A, D, RS), Bb, src, N)
    <2>. DEFINE units == nb * bpb
    <2>1. \A b \in 0..(nb - 1) : \A C \in 0..(A - 1) : \A R \in 0..(Bb - 1) :
              inBlock[<<b, C, R>>] = b * Blocks(Bb, A) + BlockOf(A, R, C)
      BY <1>6, Zenon DEF bpb
    <2>2. /\ units \in Nat
          /\ \A b \in 0..(nb - 1) : \A C \in 0..(A - 1) : \A R \in 0..(Bb - 1) :
                 inBlock[<<b, C, R>>] \in 0..(units - 1)
          /\ MatrixStores(PartMatrices(t, n, nb, A, Bb, D, RS, step), units, inBlock,
                          nb, A, Bb, D, RS, base, step)
      BY <1>1, <1>2, <1>5, <2>1, PartStored DEF bpb
    <2>3. MatrixStores(S, units, inBlock, nb, A, Bb, D, RS, base, step)
      BY <1>3, <1>10, <2>2
    <2>. HIDE DEF units
    <2>. QED  BY <1>8, <1>2, <1>7, <2>2, <2>3, MatricesRight
  <1>11. LaysRows(S, InBatches(A, D, RS), Bb, src, N)
    BY <1>9, <1>10
  <1>. QED  BY <1>11 DEF S, A, D, RS, Bb, src, N

\* Rows that follow one another leave an element where it is counted to be, and
\* batches that do leave their rows evenly spaced.
LEMMA EvenPlaces ==
    ASSUME NEW W \in Positive, NEW j \in Nat
    PROVE  /\ RowPlace(Evenly(W), W, j) = j
           /\ \A stride \in Nat : \A A \in Positive :
                 /\ RowPlace(Evenly(stride), W, j) = (j \div W) * stride + (j % W)
                 /\ RowPlace(InBatches(A, A * stride, stride), W, j)
                        = RowPlace(Evenly(stride), W, j)
  <1>. DEFINE q == j \div W
              r == j % W
  <1>1. q \in Nat /\ r \in Nat /\ j = q * W + r
    BY Quotient, Division
  <1>2. ASSUME NEW stride \in Nat
        PROVE  RowPlace(Evenly(stride), W, j) = q * stride + r
    BY <1>1 DEF RowPlace, Evenly
  <1>3. W \in Nat
    BY DEF Positive
  <1>4. RowPlace(Evenly(W), W, j) = j
    <2>1. RowPlace(Evenly(W), W, j) = q * W + r
      BY <1>2, <1>3
    <2>. QED  BY <1>1, <2>1
  <1>5. ASSUME NEW stride \in Nat, NEW A \in Positive
        PROVE  RowPlace(InBatches(A, A * stride, stride), W, j) = q * stride + r
    <2>. DEFINE a == q \div A
                b == q % A
    <2>1. RowPlace(InBatches(A, A * stride, stride), W, j) = (a * (A * stride) + b * stride) + r
      BY <1>1 DEF RowPlace, InBatches
    <2>2. a \in Nat /\ b \in Nat /\ q = a * A + b /\ A \in Nat
      BY <1>1, Quotient, Division DEF Positive
    <2>. HIDE DEF a, b
    <2>3. a * (A * stride) + b * stride = (a * A + b) * stride
      BY <2>2
    <2>. QED  BY <2>1, <2>2, <2>3
  <1>. QED  BY <1>2, <1>4, <1>5

\* What is laid where is all that matters.
LEMMA SameRows ==
    ASSUME NEW S, NEW off, NEW W, NEW off2, NEW W2, NEW src, NEW N,
           \A j \in 0..(N - 1) : RowPlace(off, W, j) = RowPlace(off2, W2, j),
           LaysRows(S, off, W, src, N)
    PROVE  LaysRows(S, off2, W2, src, N)
  <1>1. {<<RowPlace(off, W, j), src[j]>> : j \in 0..(N - 1)}
            = {<<RowPlace(off2, W2, j), src[j]>> : j \in 0..(N - 1)}
    OBVIOUS
  <1>. QED  BY <1>1 DEF LaysRows

\* Rows as wide as they are apart, wider or narrower: the elements follow one another.
LEMMA RowsFollow ==
    ASSUME NEW t, IsTranspose(t), NEW S, NEW W \in Positive, NEW W2 \in Positive,
           LaysRows(S, Evenly(W), W, Sources(t), t.N)
    PROVE  LaysRows(S, Evenly(W2), W2, Sources(t), t.N)
  <1>. DEFINE N == t.N
  <1>1. \A j \in 0..(N - 1) : j \in Nat
    OBVIOUS
  <1>2. \A j \in 0..(N - 1) : RowPlace(Evenly(W), W, j) = RowPlace(Evenly(W2), W2, j)
    BY <1>1, EvenPlaces
  <1>. QED  BY <1>2, SameRows

\* Batches that follow one another: the rows are evenly spaced.
LEMMA BatchesFollow ==
    ASSUME NEW t, IsTranspose(t), NEW S, NEW W \in Positive, NEW A \in Positive,
           NEW stride \in Nat, LaysRows(S, InBatches(A, A * stride, stride), W, Sources(t), t.N)
    PROVE  LaysRows(S, Evenly(stride), W, Sources(t), t.N)
  <1>. DEFINE N == t.N
              block == A * stride
  <1>1. \A j \in 0..(N - 1) : j \in Nat
    OBVIOUS
  <1>2. \A j \in 0..(N - 1) :
            RowPlace(InBatches(A, block, stride), W, j) = RowPlace(Evenly(stride), W, j)
    BY <1>1, EvenPlaces
  <1>. QED  BY <1>2, SameRows

\* The larger of two, one of which is no less.
LEMMA GreaterIs ==
    ASSUME NEW a \in Nat, NEW b \in Nat, b <= a
    PROVE  Max({a, b}) = a /\ Max({b, a}) = a
  <1>1. {a, b} = {b, a}
    OBVIOUS
  <1>2. Max({a, b}) \in {a, b} /\ Max({a, b}) >= a
    <2>1. \E x \in {a, b} : \A y \in {a, b} : y <= x
      OBVIOUS
    <2>. QED  BY <2>1, Greater DEF Max
  <1>3. Max({a, b}) = a
    BY <1>2
  <1>. QED  BY <1>1, <1>3

\* A permutation of at most one axis moves nothing.
LEMMA OneAxisStays ==
    ASSUME NEW t, IsTranspose(t), Dimensions(t) < 2
    PROVE  IsIdentity(t.perm)
  <1>1. /\ Len(t.perm) = Len(t.from_shape) /\ Len(t.from_shape) \in Nat
        /\ t.perm \in [1..Len(t.from_shape) -> 1..Len(t.from_shape)]
    BY PermutedShape DEF IsTranspose
  <1>. DEFINE n == Len(t.from_shape)
              p == t.perm
  <1>2. n \in Nat /\ n < 2 /\ p \in [1..n -> 1..n] /\ Len(p) = n
    BY <1>1 DEF Dimensions
  <1>. HIDE DEF n, p
  <1>3. \A i \in 1..n : p[i] = i
    BY <1>2
  <1>4. p = Identity(n)
    BY <1>2, <1>3 DEF Identity
  <1>. QED  BY <1>2, <1>4 DEF IsIdentity, p

(***************************************************************************)
(* transpose_inline without padding: whatever routine the dispatch picks,  *)
(* the element that transfer_idx names is stored at each index of the      *)
(* transposed tensor, once.                                                *)
(***************************************************************************)
THEOREM InlineRight ==
    ASSUME NEW t, IsTranspose(t), NEW ds, InlineAsserts(t, 0, 0)
    PROVE  LaysRows(transpose_inline(t, ds, 0, 0), Evenly(1), 1, Sources(t), t.N)
  <1>. DEFINE S == transpose_inline(t, ds, 0, 0)
              d == Dimensions(t)
              inner == t.to_shape[d]
  <1>1. 1 \in Positive
    BY DEF Positive
  <1>2. CASE IsIdentity(t.perm)
    <2>1. S = transpose_copy(t)
      BY <1>2 DEF transpose_inline
    <2>. QED  BY <1>1, <1>2, <2>1, CopyKeeps
  <1>3. CASE ~IsIdentity(t.perm)
    <2>1. d \in Nat /\ d >= 2 /\ inner \in Positive
      <3>1. d \in Nat /\ t.to_shape \in [1..d -> Positive]
        BY TransposeAxes
      <3>2. d >= 2
        BY <1>3, <3>1, OneAxisStays
      <3>. QED  BY <3>1, <3>2
    <2>. HIDE DEF inner
    <2>2. inner \in Nat /\ Max({0, inner}) = inner
      <3>1. inner \in Nat /\ 0 <= inner /\ 0 \in Nat
        BY <2>1 DEF Positive
      <3>. QED  BY <3>1, GreaterIs
    <2>3. LaysRows(S, Evenly(inner), inner, Sources(t), t.N)
      <3>1. CASE d = 2
        <4>1. S = transpose_2d(t, ds, 0)
          BY <1>3, <3>1 DEF transpose_inline
        <4>2. LaysRows(transpose_2d(t, ds, 0), Evenly(Max({0, t.to_shape[2]})),
                       t.to_shape[2], Sources(t), t.N)
          BY <1>3, <3>1, Transpose2dRows
        <4>3. t.to_shape[2] = inner
          BY <3>1 DEF inner
        <4>. HIDE DEF S
        <4>. QED  BY <2>2, <4>1, <4>2, <4>3
      <3>2. CASE d # 2 /\ InnermostKept(t)
        <4>. DEFINE n == d - 1
        <4>1. n \in Nat /\ Dimensions(t) = n + 1
          BY <2>1
        <4>2. S = transpose_nd_copy(t, 0, 0, 0)
          BY <1>3, <3>2 DEF transpose_inline
        <4>3. t.to_shape[n + 1] = inner
          BY <4>1 DEF inner
        <4>4. RunPlaces(t, 0, 0, 0) = Evenly(inner)
          BY <2>2 DEF RunPlaces, inner
        <4>. HIDE DEF n, S, d
        <4>5. LaysRows(transpose_nd_copy(t, 0, 0, 0), RunPlaces(t, 0, 0, 0), t.to_shape[n + 1],
                       Sources(t), t.N)
          <5>. DEFINE none == 0
          <5>1. none \in Nat /\ ~(none > 0) /\ none = 0
            OBVIOUS
          <5>. HIDE DEF none
          <5>2. LaysRows(transpose_nd_copy(t, none, none, none), RunPlaces(t, none, none, none),
                         t.to_shape[n + 1], Sources(t), t.N)
            BY <3>2, <4>1, <5>1, NdCopyRight
          <5>. QED  BY <5>1, <5>2
        <4>. QED  BY <4>2, <4>3, <4>4, <4>5
      <3>3. CASE d # 2 /\ ~InnermostKept(t)
        <4>. DEFINE n == d - 2
                    A == t.to_shape[n + 1]
        <4>1. n \in Nat /\ Dimensions(t) = n + 2 /\ d - 1 = n + 1 /\ n + 2 = d /\ d > 2
          BY <2>1, <3>3
        <4>2. S = transpose_nd_batched_2d(t, ds, 0, 0, 0)
          BY <1>3, <3>3 DEF transpose_inline
        <4>3. t.to_shape[n + 2] = inner
          BY <4>1 DEF inner
        <4>4. t.perm_strides[n + 1] = 1
          <5>1. BatchedAsserts(t, 0, 0)
            BY <1>3, <3>3, <4>1 DEF InlineAsserts
          <5>2. t.perm_strides[Dimensions(t) - 1] = 1
            BY <5>1 DEF BatchedAsserts
          <5>. QED  BY <4>1, <5>2
        <4>5. BatchedStride(t, 0, 0) = inner
          BY DEF BatchedStride, inner
        <4>6. BatchedBlock(t, 0, 0, 0) = A * inner
          BY <4>1, <4>5 DEF BatchedBlock
        <4>7. A \in Positive /\ A * inner \in Nat
          <5>1. A \in Positive
            <6>1. t.to_shape \in [1..d -> Positive] /\ n + 1 \in 1..d
              BY <2>1, <4>1, TransposeAxes
            <6>. QED  BY <6>1
          <5>2. A \in Nat
            BY <5>1 DEF Positive
          <5>. HIDE DEF A
          <5>. QED  BY <2>2, <5>1, <5>2
        <4>. HIDE DEF n, S, d
        <4>8. LaysRows(transpose_nd_batched_2d(t, ds, 0, 0, 0),
                       InBatches(t.to_shape[n + 1], BatchedBlock(t, 0, 0, 0),
                                 BatchedStride(t, 0, 0)),
                       t.to_shape[n + 2], Sources(t), t.N)
          <5>1. t.to_shape[n + 2] <= BatchedStride(t, 0, 0)
            BY <2>2, <4>3, <4>5
          <5>2. t.to_shape[n + 1] * BatchedStride(t, 0, 0) <= BatchedBlock(t, 0, 0, 0)
            BY <4>5, <4>6, <4>7
          <5>. QED  BY <4>1, <4>4, <5>1, <5>2, Batched2dRight
        <4>9. LaysRows(S, InBatches(A, A * inner, inner), inner, Sources(t), t.N)
          BY <4>2, <4>3, <4>5, <4>6, <4>8
        <4>. HIDE DEF A
        <4>. QED  BY <2>1, <2>2, <4>7, <4>9, BatchesFollow
      <3>. QED  BY <3>1, <3>2, <3>3
    <2>. HIDE DEF S
    <2>4. LaysRows(S, Evenly(1), 1, Sources(t), t.N)
      BY <1>1, <2>1, <2>3, RowsFollow
    <2>. QED  BY <2>4 DEF S
  <1>. QED  BY <1>2, <1>3

\* The rows a transpose with padding leaves hold one axis, or nothing is left out
\* and the matrices are transposed in batches.
PadsRows(t, W, stride) ==
    \/ IsIdentity(t.perm)
    \/ t.to_shape[Dimensions(t)] = W
    \/ Dimensions(t) > 2 /\ ~InnermostKept(t) /\ stride = W

(***************************************************************************)
(* transpose_inline with padding, of rows that are an axis of the tensor:  *)
(* whatever routine the dispatch picks, rows of W elements are stored a    *)
(* stride apart, each element once, with the one that transfer_idx names.  *)
(***************************************************************************)
THEOREM InlinePads ==
    ASSUME NEW t, IsTranspose(t), NEW ds, NEW W \in Positive, NEW stride \in Nat, W <= stride,
           NEW rows \in Nat, t.N = rows * W, InlineAsserts(t, W, stride), PadsRows(t, W, stride)
    PROVE  LaysRows(transpose_inline(t, ds, W, stride), Evenly(stride), W, Sources(t), t.N)
  <1>. DEFINE S == transpose_inline(t, ds, W, stride)
              d == Dimensions(t)
              inner == t.to_shape[d]
  <1>1. W \in Nat /\ W > 0 /\ stride \in Positive
    BY DEF Positive
  <1>2. CASE IsIdentity(t.perm)
    <2>1. CASE stride > W
      <3>1. S = padded_copy(rows, W, stride)
        <4>1. t.N \div W = rows
          BY ExactDivision
        <4>2. S = padded_copy(t.N \div W, W, stride)
          BY <1>1, <1>2, <2>1 DEF transpose_inline
        <4>. QED  BY <4>1, <4>2
      <3>. HIDE DEF S
      <3>2. LaysRows(S, Evenly(stride), W, Sources(t), t.N)
        BY <1>2, <3>1, PaddedCopyRight
      <3>. QED  BY <3>2 DEF S
    <2>2. CASE ~(stride > W)
      <3>1. S = transpose_copy(t)
        BY <1>2, <2>2 DEF transpose_inline
      <3>2. stride = W
        BY <1>1, <2>2
      <3>. QED  BY <1>2, <3>1, <3>2, CopyKeeps
    <2>. QED  BY <2>1, <2>2
  <1>3. CASE ~IsIdentity(t.perm)
    <2>1. d \in Nat /\ d >= 2 /\ inner \in Positive /\ t.to_shape \in [1..d -> Positive]
      <3>1. d \in Nat /\ t.to_shape \in [1..d -> Positive]
        BY TransposeAxes
      <3>2. d >= 2
        BY <1>3, <3>1, OneAxisStays
      <3>. QED  BY <3>1, <3>2
    <2>. HIDE DEF inner
    <2>2. inner = W \/ (d > 2 /\ ~InnermostKept(t) /\ stride = W)
      BY <1>3 DEF PadsRows, inner
    <2>3. Max({stride, W}) = stride
      BY <1>1, GreaterIs
    <2>4. CASE d = 2
      <3>1. S = transpose_2d(t, ds, stride)
        BY <1>3, <2>4 DEF transpose_inline
      <3>2. LaysRows(transpose_2d(t, ds, stride), Evenly(Max({stride, t.to_shape[2]})),
                     t.to_shape[2], Sources(t), t.N)
        BY <1>3, <2>4, Transpose2dRows
      <3>3. t.to_shape[2] = W
        BY <2>2, <2>4 DEF inner
      <3>. HIDE DEF S
      <3>4. LaysRows(S, Evenly(stride), W, Sources(t), t.N)
        BY <2>3, <3>1, <3>2, <3>3
      <3>. QED  BY <3>4 DEF S
    <2>5. CASE d # 2 /\ InnermostKept(t)
      <3>. DEFINE n == d - 1
                  none == 0
      <3>1. n \in Nat /\ Dimensions(t) = n + 1 /\ none \in Nat /\ ~(none > 0)
        BY <2>1
      <3>2. S = transpose_nd_copy(t, stride, none, none)
        BY <1>3, <2>5 DEF transpose_inline
      <3>3. t.to_shape[n + 1] = W /\ t.to_shape[d] = W
        BY <2>2, <2>5, <3>1 DEF inner
      <3>4. RunPlaces(t, stride, none, none) = Evenly(stride)
        BY <2>3, <3>1, <3>3 DEF RunPlaces
      <3>. HIDE DEF n, S, d, none
      <3>5. LaysRows(transpose_nd_copy(t, stride, none, none), RunPlaces(t, stride, none, none),
                     t.to_shape[n + 1], Sources(t), t.N)
        BY <2>5, <3>1, NdCopyRight
      <3>6. LaysRows(S, Evenly(stride), W, Sources(t), t.N)
        BY <3>2, <3>3, <3>4, <3>5
      <3>. QED  BY <3>6 DEF S
    <2>6. CASE d # 2 /\ ~InnermostKept(t)
      <3>. DEFINE n == d - 2
                  A == t.to_shape[n + 1]
                  RS == BatchedStride(t, W, stride)
      <3>1. n \in Nat /\ Dimensions(t) = n + 2 /\ d - 1 = n + 1 /\ n + 2 = d /\ d > 2
        BY <2>1, <2>6
      <3>2. S = transpose_nd_batched_2d(t, ds, W, stride, 0)
        BY <1>3, <2>6 DEF transpose_inline
      <3>3. t.to_shape[n + 2] = inner
        BY <3>1 DEF inner
      <3>4. t.perm_strides[n + 1] = 1 /\ (stride > W => inner = W)
        <4>1. BatchedAsserts(t, W, stride)
          BY <1>3, <2>6, <3>1 DEF InlineAsserts
        <4>2. /\ t.perm_strides[Dimensions(t) - 1] = 1
              /\ stride > W => t.to_shape[Dimensions(t)] = W
          BY <4>1 DEF BatchedAsserts
        <4>. QED  BY <3>1, <4>2 DEF inner
      <3>5. RS = IF stride > W THEN stride ELSE inner
        BY DEF BatchedStride, inner
      <3>6. RS \in Nat /\ inner <= RS
        BY <1>1, <2>1, <3>4, <3>5 DEF Positive
      <3>7. BatchedBlock(t, W, stride, 0) = A * RS
        BY <3>1 DEF BatchedBlock
      <3>8. A \in Positive /\ A * RS \in Nat
        <4>1. A \in Positive
          <5>1. n + 1 \in 1..d
            BY <2>1, <3>1
          <5>. QED  BY <2>1, <5>1
        <4>2. A \in Nat
          BY <4>1 DEF Positive
        <4>. HIDE DEF A, RS
        <4>. QED  BY <3>6, <4>1, <4>2
      <3>. HIDE DEF n, S, d, RS
      <3>9. LaysRows(transpose_nd_batched_2d(t, ds, W, stride, 0),
                     InBatches(t.to_shape[n + 1], BatchedBlock(t, W, stride, 0),
                               BatchedStride(t, W, stride)),
                     t.to_shape[n + 2], Sources(t), t.N)
        <4>1. t.to_shape[n + 2] <= BatchedStride(t, W, stride)
          BY <3>3, <3>6 DEF RS
        <4>2. t.to_shape[n + 1] * BatchedStride(t, W, stride) <= BatchedBlock(t, W, stride, 0)
          BY <3>7, <3>8 DEF RS
        <4>. QED  BY <1>1, <3>1, <3>4, <4>1, <4>2, Batched2dRight
      <3>10. LaysRows(S, InBatches(A, A * RS, RS), inner, Sources(t), t.N)
        BY <3>2, <3>3, <3>7, <3>9 DEF RS
      <3>. HIDE DEF A
      <3>11. LaysRows(S, Evenly(RS), inner, Sources(t), t.N)
        BY <2>1, <3>6, <3>8, <3>10, BatchesFollow
      <3>12. LaysRows(S, Evenly(stride), W, Sources(t), t.N)
        <4>1. CASE stride > W
          BY <3>4, <3>5, <3>11, <4>1
        <4>2. CASE ~(stride > W)
          <5>1. stride = W /\ RS = inner
            BY <1>1, <3>5, <4>2
          <5>. QED  BY <2>1, <3>11, <5>1, RowsFollow
        <4>. QED  BY <4>1, <4>2
      <3>. QED  BY <3>12 DEF S
    <2>. QED  BY <2>4, <2>5, <2>6
  <1>. QED  BY <1>2, <1>3

(***************************************************************************)
(* transpose_inline_rowpad, of a tensor whose last two axes are the rows   *)
(* and the elements of a batch: each batch begins where the padded one     *)
(* before it ends, each element is stored once, with the one that          *)
(* transfer_idx names.                                                     *)
(***************************************************************************)
THEOREM RowpadRight ==
    ASSUME NEW t, IsTranspose(t), NEW ds, RowpadAsserts(t),
           NEW rows \in Positive, NEW padRows \in Nat, rows <= padRows, NEW inner \in Positive,
           t.to_shape[Dimensions(t)] = inner, t.to_shape[Dimensions(t) - 1] = rows
    PROVE  LaysRows(transpose_inline_rowpad(t, ds, rows, padRows, inner),
                    InBatches(rows, padRows * inner, inner), inner, Sources(t), t.N)
  <1>. DEFINE S == transpose_inline_rowpad(t, ds, rows, padRows, inner)
              d == Dimensions(t)
              block == padRows * inner
  <1>1. /\ inner \in Nat /\ rows \in Nat /\ rows > 0 /\ padRows > 0 /\ inner > 0
        /\ d \in Nat /\ d >= 3
    BY TransposeAxes DEF Positive, RowpadAsserts
  <1>2. block \in Nat /\ rows * inner <= block /\ block # 0
    <2>1. block \in Nat /\ block # 0
      BY <1>1
    <2>2. rows * inner <= padRows * inner
      BY <1>1, Monotone
    <2>. QED  BY <2>1, <2>2
  <1>3. Max({0, inner}) = inner
    <2>1. 0 \in Nat /\ 0 <= inner
      BY <1>1
    <2>. QED  BY <1>1, <2>1, GreaterIs
  <1>. HIDE DEF block
  <1>4. CASE InnermostKept(t)
    <2>. DEFINE n == d - 1
                none == 0
    <2>1. n \in Nat /\ Dimensions(t) = n + 1 /\ none \in Nat
      BY <1>1
    <2>2. S = transpose_nd_copy(t, none, rows, block)
      BY <1>4 DEF transpose_inline_rowpad, block
    <2>3. t.to_shape[n + 1] = inner
      BY <2>1
    <2>4. RunPlaces(t, none, rows, block) = InBatches(rows, block, inner)
      BY <1>1, <1>3 DEF RunPlaces
    <2>5. rows * Max({none, t.to_shape[n + 1]}) <= block
      BY <1>2, <1>3, <2>3
    <2>. HIDE DEF n, S, d, none
    <2>6. LaysRows(transpose_nd_copy(t, none, rows, block), RunPlaces(t, none, rows, block),
                   t.to_shape[n + 1], Sources(t), t.N)
      BY <1>1, <1>2, <1>4, <2>1, <2>5, NdCopyRight
    <2>7. LaysRows(S, InBatches(rows, block, inner), inner, Sources(t), t.N)
      BY <2>2, <2>3, <2>4, <2>6
    <2>. QED  BY <2>7 DEF S, block
  <1>5. CASE ~InnermostKept(t)
    <2>. DEFINE n == d - 2
                none == 0
    <2>1. n \in Nat /\ Dimensions(t) = n + 2 /\ d - 1 = n + 1 /\ n + 2 = d
          /\ none \in Nat /\ ~(none > none)
      BY <1>1
    <2>2. S = transpose_nd_batched_2d(t, ds, none, none, block)
      BY <1>5 DEF transpose_inline_rowpad, block
    <2>3. t.to_shape[n + 2] = inner /\ t.to_shape[n + 1] = rows
      BY <2>1
    <2>4. t.perm_strides[n + 1] = 1
      <3>1. BatchedAsserts(t, 0, 0)
        BY <1>5 DEF RowpadAsserts
      <3>2. t.perm_strides[Dimensions(t) - 1] = 1
        BY <3>1 DEF BatchedAsserts
      <3>. QED  BY <2>1, <3>2
    <2>5. BatchedStride(t, none, none) = inner /\ BatchedBlock(t, none, none, block) = block
      BY <1>2, <2>1 DEF BatchedStride, BatchedBlock
    <2>. HIDE DEF n, S, d, none
    <2>6. LaysRows(transpose_nd_batched_2d(t, ds, none, none, block),
                   InBatches(t.to_shape[n + 1], BatchedBlock(t, none, none, block),
                             BatchedStride(t, none, none)),
                   t.to_shape[n + 2], Sources(t), t.N)
      <3>1. t.to_shape[n + 2] <= BatchedStride(t, none, none)
        BY <1>1, <2>3, <2>5
      <3>2. t.to_shape[n + 1] * BatchedStride(t, none, none)
                <= BatchedBlock(t, none, none, block)
        BY <1>2, <2>3, <2>5
      <3>. QED  BY <1>2, <2>1, <2>4, <3>1, <3>2, Batched2dRight
    <2>7. LaysRows(S, InBatches(rows, block, inner), inner, Sources(t), t.N)
      BY <2>2, <2>3, <2>5, <2>6
    <2>. QED  BY <2>7 DEF S, block
  <1>. QED  BY <1>4, <1>5
=============================================================================
