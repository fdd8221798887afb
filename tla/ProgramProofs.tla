----------------------------- MODULE ProgramProofs -----------------------------
(***************************************************************************)
(* Proofs that the programs of VecPrograms and CubePrograms are            *)
(* synchronized by their text, for any number of units, chunks, phases and *)
(* tiles, and hence (PipesProofs) right in every interleaving of the       *)
(* pipes.                                                                  *)
(*                                                                         *)
(* On a Vector core, where a unit of work begins, the code has usually     *)
(* been waited for by one pipe, which may touch everything (Settled), and  *)
(* no event is on its way (Quiet).  Two loops leave more open from one     *)
(* unit to the next: the double buffer (Owing) and the blocked transpose   *)
(* (Between).                                                              *)
(*                                                                         *)
(* On the Cube core no pipe ever waits for all the others: each buffer and *)
(* each accumulator is handed round with its events, and what is known of  *)
(* it is a state of its own, which the instructions of another part leave  *)
(* as it is (Within, SameOn).                                              *)
(***************************************************************************)
EXTENDS PipesProofs, VecPrograms, CubePrograms

-----------------------------------------------------------------------------
(* Places *)

\* The kinds of places: those of the tiles of a buffer, slots, and lanes.
Slot(s) == \E x, i : s = <<x, i>> /\ x \notin {"ub", "scalar"}

\* A slot is neither a lane nor in a tile of the unified buffer.
LEMMA SlotIs ==
    ASSUME NEW s, Slot(s)
    PROVE  /\ \A p, q, i : s # <<p, q, i>>
           /\ \A from, size : s \notin UB(from, size)
  <1>1. PICK x, i : s = <<x, i>> /\ x \notin {"ub", "scalar"}
    BY DEF Slot
  <1>2. \A p, q, j : <<x, i>> # <<p, q, j>>
    OBVIOUS
  <1>3. ASSUME NEW from, NEW size PROVE s \notin UB(from, size)
    BY <1>1 DEF UB
  <1>. QED  BY <1>1, <1>2, <1>3

\* A tile of the unified buffer has places, none of which is a lane.
LEMMA TileIs ==
    ASSUME NEW from \in Nat, NEW size \in Nat \ {0}
    PROVE  /\ UB(from, size) # {}
           /\ \A x \in UB(from, size) : \A p, q, i : x # <<p, q, i>>
  <1>1. <<"ub", from>> \in UB(from, size)
    BY DEF UB
  <1>2. ASSUME NEW k, NEW p, NEW q, NEW i PROVE <<"ub", k>> # <<p, q, i>>
    OBVIOUS
  <1>. QED  BY <1>1, <1>2 DEF UB

\* Tiles one behind the other have no place in common.
LEMMA TilesApart ==
    ASSUME NEW f \in Nat, NEW g \in Nat, NEW s \in Nat \ {0}, NEW t \in Nat \ {0}, f + s <= g
    PROVE  \A x \in UB(f, s) : x \notin UB(g, t)
  <1>1. ASSUME NEW i \in f..(f + s - 1), NEW j \in g..(g + t - 1) PROVE <<"ub", i>> # <<"ub", j>>
    <2>1. i # j
      OBVIOUS
    <2>. QED  BY <2>1
  <1>. QED  BY <1>1 DEF UB

-----------------------------------------------------------------------------
(* Moves of a settled text *)

AfterLoad(c, t, src, d) ==
    /\ Quiet(d) /\ Settled(d, "MTE2") /\ Holds(d, t, Loaded(src))
    /\ \A x : x \notin t => Kept(c, d, x)

\* A load by MTE2 when it may touch everything.
LEMMA Loads ==
    ASSUME NEW c, Quiet(c), Settled(c, "MTE2"), NEW t, NEW src, NEW d, d = Append(c, TLOAD(t, src))
    PROVE  AfterLoad(c, t, src, d)
  <1>. DEFINE ins == TLOAD(t, src)
  <1>1. /\ ins.kind = "op" /\ ins.pipe = "MTE2" /\ ins.srcs = <<>> /\ ins.dst = t /\ ins.add = FALSE
        /\ ins.tag = <<"TLOAD", src>> /\ "MTE2" \in Pipe /\ Whole("MTE2") = "MTE2"
    BY DEF TLOAD, Op, Pipe, Whole
  <1>. HIDE DEF ins
  <1>2. AfterOp(c, ins, d) /\ Quiet(d) /\ Settled(d, "MTE2")
    <2>1. \A k \in DOMAIN ins.srcs : \A x \in ins.srcs[k] : Filled(c, x)
      BY <1>1
    <2>. QED  BY <1>1, <2>1, SettledOp DEF ins
  <1>3. Holds(d, t, Loaded(src))
    BY <1>1, <1>2, OpLeaves DEF Loaded
  <1>4. ASSUME NEW x, x \notin t PROVE Kept(c, d, x)
    BY <1>1, <1>2, <1>4, OpKeeps
  <1>. QED  BY <1>2, <1>3, <1>4 DEF AfterLoad

AfterStore(c, t, v, gm, d) ==
    /\ Quiet(d) /\ Settled(d, "MTE3") /\ Yielded(d, gm, Stored(v))
    /\ \A x : x # gm /\ x \notin t => Kept(c, d, x)

\* A store by MTE3 when it may.
LEMMA Stores ==
    ASSUME NEW c, Quiet(c), Settled(c, "MTE3"), NEW t, t # {}, NEW v, Holds(c, t, v), NEW gm, Free(c, gm),
           NEW d, d = Append(c, TSTORE("MTE3", gm, t))
    PROVE  AfterStore(c, t, v, gm, d)
  <1>. DEFINE ins == TSTORE("MTE3", gm, t)
  <1>1. /\ ins.kind = "op" /\ ins.pipe = "MTE3" /\ ins.srcs = <<t>> /\ ins.dst = {gm} /\ ins.add = FALSE
        /\ ins.tag = <<"TSTORE">> /\ "MTE3" \in Pipe /\ Whole("MTE3") = "MTE3"
    BY DEF TSTORE, Op, Pipe, Whole
  <1>. HIDE DEF ins
  <1>2. AfterOp(c, ins, d) /\ Quiet(d) /\ Settled(d, "MTE3")
    <2>1. \A k \in DOMAIN ins.srcs : \A x \in ins.srcs[k] : Filled(c, x)
      BY <1>1 DEF Holds
    <2>. QED  BY <1>1, <2>1, SettledOp DEF ins
  <1>3. Holds(d, {gm}, Stored(v))
    BY <1>1, <1>2, OpLeaves DEF Stored
  <1>4. ASSUME NEW x, x # gm, x \notin t PROVE Kept(c, d, x)
    <2>1. \A k \in DOMAIN ins.srcs : x \notin ins.srcs[k]
      BY <1>1, <1>4
    <2>. QED  BY <1>1, <1>2, <1>4, <2>1, OpKeeps
  <1>5. Yielded(d, gm, Mem(d, gm)) /\ Mem(d, gm) = Stored(v)
    BY <1>1, <1>2, <1>3 DEF AfterOp, Holds
  <1>. QED  BY <1>2, <1>4, <1>5 DEF AfterStore

\* One unit of work done: slot s has its value v, and the other slots are as
\* they were.
AfterUnit(c, s, v, d) ==
    /\ Quiet(d) /\ Settled(d, "MTE2") /\ Yielded(d, s, v)
    /\ \A r : Slot(r) /\ r # s => Kept(c, d, r)

\* The slots of the first k units of x are done, the others not.
SlotsDone(c, x, v, n, k, d) ==
    /\ \A i \in 0..(k - 1) : Yielded(d, <<x, i>>, v[i])
    /\ \A i \in k..(n - 1) : Free(d, <<x, i>>)
    /\ \A r : Slot(r) /\ (\A i \in 0..(n - 1) : r # <<x, i>>) => Kept(c, d, r)
UnitsDone(c, x, v, n, k, d) == Quiet(d) /\ Settled(d, "MTE2") /\ SlotsDone(c, x, v, n, k, d)

\* A text keeps what it says.
LEMMA KeptSame ==
    ASSUME NEW c, NEW x
    PROVE  Kept(c, c, x)
  BY DEF Kept, SameAt

\* One slot more is done.
LEMMA NextSlot ==
    ASSUME NEW n \in Nat, NEW k \in 1..n, NEW x, x \notin {"ub", "scalar"}, NEW v, NEW c, NEW b, NEW d,
           SlotsDone(c, x, v, n, k - 1, b), Yielded(d, <<x, k - 1>>, v[k - 1]),
           \A r : Slot(r) /\ r # <<x, k - 1>> => Kept(b, d, r)
    PROVE  SlotsDone(c, x, v, n, k, d)
  <1>1. \A i \in 0..(n - 1) : Slot(<<x, i>>) /\ (i # k - 1 => <<x, i>> # <<x, k - 1>>)
    BY DEF Slot
  <1>2. ASSUME NEW i \in 0..(k - 1) PROVE Yielded(d, <<x, i>>, v[i])
    <2>1. CASE i = k - 1
      BY <2>1
    <2>2. CASE i # k - 1
      <3>1. i \in 0..((k - 1) - 1) /\ i \in 0..(n - 1)
        BY <2>2
      <3>2. Yielded(b, <<x, i>>, v[i])
        BY <3>1 DEF SlotsDone
      <3>3. Kept(b, d, <<x, i>>)
        BY <1>1, <2>2, <3>1
      <3>. QED  BY <3>2, <3>3 DEF Kept, SameAt
    <2>. QED  BY <2>1, <2>2
  <1>3. ASSUME NEW i \in k..(n - 1) PROVE Free(d, <<x, i>>)
    <2>1. i \in (k - 1)..(n - 1) /\ i \in 0..(n - 1) /\ i # k - 1
      OBVIOUS
    <2>2. Kept(b, d, <<x, i>>)
      BY <1>1, <2>1
    <2>. QED  BY <2>1, <2>2 DEF Kept, SlotsDone
  <1>4. ASSUME NEW r, Slot(r), \A i \in 0..(n - 1) : r # <<x, i>> PROVE Kept(c, d, r)
    <2>1. k - 1 \in 0..(n - 1)
      OBVIOUS
    <2>2. Kept(c, b, r)
      BY <1>4 DEF SlotsDone
    <2>3. Kept(b, d, r)
      BY <1>4, <2>1
    <2>. QED  BY <2>2, <2>3, KeptOn
  <1>. QED  BY <1>2, <1>3, <1>4 DEF SlotsDone

\* One unit more is done.
LEMMA NextUnit ==
    ASSUME NEW n \in Nat, NEW k \in 1..n, NEW x, x \notin {"ub", "scalar"}, NEW v, NEW c, NEW b, NEW d,
           UnitsDone(c, x, v, n, k - 1, b), AfterUnit(b, <<x, k - 1>>, v[k - 1], d)
    PROVE  UnitsDone(c, x, v, n, k, d)
  BY NextSlot DEF UnitsDone, AfterUnit

\* A loop over the units.
LEMMA Units ==
    ASSUME NEW n \in Nat, NEW f, Text(f), n = Len(f), \A k \in 1..n : Text(f[k]),
           NEW x, x \notin {"ub", "scalar"}, NEW v, NEW c, Quiet(c), Settled(c, "MTE2"), \A i \in 0..(n - 1) : Free(c, <<x, i>>),
           \A b, k : k \in 1..n /\ Quiet(b) /\ Settled(b, "MTE2") /\ Free(b, <<x, k - 1>>)
                        => AfterUnit(b, <<x, k - 1>>, v[k - 1], b \o f[k])
    PROVE  Text(FlattenSeq(f)) /\ UnitsDone(c, x, v, n, n, c \o FlattenSeq(f))
  <1>1. Text(c)
    BY DEF Quiet, Sound
  <1>2. PICK g : Text(FlattenSeq(f)) /\ Runs(c, f, n, g)
    BY <1>1, Unrolled
  <1>. DEFINE S == {k \in 0..n : UnitsDone(c, x, v, n, k, g[k])}
  <1>3. 0 \in S
    <2>1. g[0] = c
      BY <1>2 DEF Runs
    <2>. QED  BY <2>1, KeptSame DEF UnitsDone, SlotsDone
  <1>4. ASSUME NEW k \in 0..(n - 1), k \in S PROVE k + 1 \in S
    <2>1. k + 1 \in 1..n /\ (k + 1) - 1 = k
      OBVIOUS
    <2>2. g[k + 1] = g[k] \o f[k + 1]
      BY <1>2, <2>1 DEF Runs
    <2>3. UnitsDone(c, x, v, n, k, g[k])
      BY <1>4
    <2>4. Quiet(g[k]) /\ Settled(g[k], "MTE2") /\ Free(g[k], <<x, k>>)
      BY <2>3 DEF UnitsDone, SlotsDone
    <2>5. AfterUnit(g[k], <<x, k>>, v[k], g[k + 1])
      BY <2>1, <2>2, <2>4
    <2>6. UnitsDone(c, x, v, n, k + 1, g[k + 1])
      BY <2>1, <2>3, <2>5, NextUnit
    <2>. QED  BY <2>6
  <1>5. n \in S
    <2>1. 0..n \subseteq S
      <3>. HIDE DEF S
      <3>. QED  BY <1>3, <1>4, Induction
    <2>2. n \in 0..n
      OBVIOUS
    <2>. HIDE DEF S
    <2>. QED  BY <2>1, <2>2
  <1>. QED  BY <1>2, <1>5 DEF Runs

-----------------------------------------------------------------------------
(* From the load to the store *)

\* The code ends with a barrier for everyone.
Drains(d) == \A i \in Ops(d) : i \in Over(d)[Len(d)] /\ d[Len(d)].pipe = "ALL"

\* A tile shares no place with the slots and the lanes.
Tile(t) ==
    /\ t # {} /\ \A y \in t : \A p, q, j : y # <<p, q, j>>
    /\ \A r : Slot(r) => r \notin t

\* Tiles of the unified buffer are apart from slots and lanes.
LEMMA UBTile ==
    ASSUME NEW from \in Nat, NEW size \in Nat \ {0}
    PROVE  Tile(UB(from, size))
  BY TileIs, SlotIs DEF Tile

\* What has been done up to here has come to pipe V, and left the slots alone.
Arrived(c, d) == /\ Quiet(d) /\ Settled(d, "V") /\ Settled(d, "V+")
                 /\ \A r : Slot(r) => Kept(c, d, r)

\* And V has worked on it.
Worked(c, d) == Quiet(d) /\ Settled(d, "V+") /\ \A r : Slot(r) => Kept(c, d, r)

\* The pipes of a Vector core.
LEMMA PipesAre ==
    /\ "MTE2" \in Pipe /\ "MTE3" \in Pipe /\ "V" \in Pipe /\ "S" \in Pipe
    /\ Whole("MTE2") = "MTE2" /\ Whole("MTE3") = "MTE3" /\ Whole("S") = "S" /\ Whole("V") = "V+"
  BY DEF Pipe, Whole

\* The hand-over from the loads to V.
LEMMA Arrives ==
    ASSUME 1 <= MaxPosted, NEW c, NEW b, Quiet(b), Settled(b, "MTE2"), \A r : Slot(r) => Kept(c, b, r),
           NEW d, d = Append(Append(b, set_flag("MTE2", "V", 0)), wait_flag("MTE2", "V", 0))
    PROVE  /\ Arrived(c, d)
           /\ \A t, v : Tile(t) /\ Holds(b, t, v) => Holds(d, t, v)
           /\ \A t : Tile(t) => \A y \in t : Kept(b, d, y)
  <1>1. AfterHandOff(b, "MTE2", "V", <<"MTE2", "V", 0>>, d)
    BY PipesAre, HandOff
  <1>2. /\ Quiet(d) /\ Settled(d, "V") /\ Settled(d, "V+")
        /\ \A y : y # <<"MTE2", "V", 0>> => Kept(b, d, y)
    BY <1>1, PipesAre, HandOffKeeps DEF AfterHandOff
  <1>3. ASSUME NEW r, Slot(r) PROVE Kept(c, d, r)
    <2>1. Kept(b, d, r)
      BY <1>2, <1>3, SlotIs
    <2>. QED  BY <1>3, <2>1, KeptOn
  <1>4. ASSUME NEW t, Tile(t), NEW y \in t PROVE Kept(b, d, y)
    BY <1>2, <1>4 DEF Tile
  <1>. QED  BY <1>2, <1>3, <1>4, HoldsOn DEF Arrived

\* One tile loaded, or two.
LEMMA OneArrives ==
    ASSUME 1 <= MaxPosted, NEW c, Quiet(c), Settled(c, "MTE2"), NEW t, Tile(t), NEW src, NEW d,
           d = Append(Append(Append(c, TLOAD(t, src)), set_flag("MTE2", "V", 0)), wait_flag("MTE2", "V", 0))
    PROVE  Arrived(c, d) /\ Holds(d, t, Loaded(src)) /\ \A u : Tile(u) /\ u \intersect t = {} => \A y \in u : Kept(c, d, y)
  <1>. DEFINE b == Append(c, TLOAD(t, src))
  <1>1. AfterLoad(c, t, src, b)
    BY Loads
  <1>2. d = Append(Append(b, set_flag("MTE2", "V", 0)), wait_flag("MTE2", "V", 0))
    OBVIOUS
  <1>. HIDE DEF b
  <1>3. \A r : Slot(r) => Kept(c, b, r)
    BY <1>1 DEF AfterLoad, Tile
  <1>4. Quiet(b) /\ Settled(b, "MTE2") /\ Holds(b, t, Loaded(src))
    BY <1>1 DEF AfterLoad
  <1>5. /\ Arrived(c, d)
        /\ \A u, v : Tile(u) /\ Holds(b, u, v) => Holds(d, u, v)
        /\ \A u : Tile(u) => \A y \in u : Kept(b, d, y)
    BY <1>2, <1>3, <1>4, Arrives
  <1>6. ASSUME NEW u, Tile(u), u \intersect t = {}, NEW y \in u PROVE Kept(c, d, y)
    <2>1. Kept(c, b, y)
      BY <1>1, <1>6 DEF AfterLoad
    <2>2. Kept(b, d, y)
      BY <1>5, <1>6
    <2>. QED  BY <2>1, <2>2, KeptOn
  <1>. QED  BY <1>4, <1>5, <1>6

\* Both tiles hold what was loaded.
LEMMA TwoArrive ==
    ASSUME 1 <= MaxPosted, NEW c, Quiet(c), Settled(c, "MTE2"), NEW t, Tile(t), NEW src,
           NEW u, Tile(u), t \intersect u = {}, NEW sru, NEW d,
           d = Append(Append(Append(Append(c, TLOAD(t, src)), TLOAD(u, sru)),
                             set_flag("MTE2", "V", 0)), wait_flag("MTE2", "V", 0))
    PROVE  Arrived(c, d) /\ Holds(d, t, Loaded(src)) /\ Holds(d, u, Loaded(sru))
  <1>. DEFINE b == Append(c, TLOAD(t, src))
  <1>1. AfterLoad(c, t, src, b)
    BY Loads
  <1>2. d = Append(Append(Append(b, TLOAD(u, sru)), set_flag("MTE2", "V", 0)), wait_flag("MTE2", "V", 0))
    OBVIOUS
  <1>. HIDE DEF b
  <1>3. \A r : Slot(r) => Kept(c, b, r)
    BY <1>1 DEF AfterLoad, Tile
  <1>4. Quiet(b) /\ Settled(b, "MTE2") /\ Holds(b, t, Loaded(src))
    BY <1>1 DEF AfterLoad
  <1>5. Arrived(b, d) /\ Holds(d, u, Loaded(sru)) /\ \A y \in t : Kept(b, d, y)
    BY <1>2, <1>4, OneArrives
  <1>6. Holds(d, t, Loaded(src))
    BY <1>4, <1>5, HoldsOn
  <1>7. Arrived(c, d)
    BY <1>3, <1>5, KeptOn DEF Arrived
  <1>. QED  BY <1>5, <1>6, <1>7

\* An operation of V on places that V may touch, none of them a slot.
LEMMA Computes ==
    ASSUME NEW c, NEW b, Worked(c, b), NEW ins, ins.kind = "op", ins.pipe = "V", NEW d, d = Append(b, ins),
           \A x \in Footprint(ins) : Owns(b, "V", x) /\ ~ Slot(x),
           \A k \in DOMAIN ins.srcs : \A x \in ins.srcs[k] : Filled(b, x)
    PROVE  /\ AfterOp(b, ins, d) /\ Worked(c, d)
           /\ \A x : x \notin Footprint(ins) => Kept(b, d, x)
  <1>1. AfterOp(b, ins, d)
    BY PipesAre, OpRule DEF Worked, Quiet
  <1>2. \A l : Even(d, l)
    BY <1>1 DEF AfterOp, Worked, Quiet, SameEvents
  <1>3. Settled(d, "V+")
    <2>1. \A x : Owns(d, Whole(ins.pipe), x)
      BY <1>1, PipesAre DEF AfterOp, Worked, Settled
    <2>. QED  BY <2>1, PipesAre DEF Settled
  <1>4. ASSUME NEW x, x \notin Footprint(ins) PROVE Kept(b, d, x)
    <2>1. x \notin ins.dst
      BY <1>4 DEF Footprint
    <2>. QED  BY <1>1, <1>4, <2>1 DEF AfterOp, Kept
  <1>5. ASSUME NEW r, Slot(r) PROVE Kept(c, d, r)
    <2>1. Kept(b, d, r)
      BY <1>4, <1>5
    <2>2. Kept(c, b, r)
      BY <1>5 DEF Worked
    <2>. QED  BY <2>1, <2>2, KeptOn
  <1>6. Quiet(d)
    BY <1>1, <1>2 DEF AfterOp, Quiet
  <1>. QED  BY <1>1, <1>3, <1>4, <1>5, <1>6 DEF Worked

\* From V to the store, and back to the loads.
StoredUnit(c, s, v, e) ==
    /\ Quiet(e) /\ Settled(e, "MTE3") /\ Yielded(e, s, v)
    /\ \A r : Slot(r) /\ r # s => Kept(c, e, r)

\* A store keeps all that it is not about.
StoreKeeps(b, t, s, e) == \A y : y # s /\ y \notin t /\ y # <<"V", "MTE3", 0>> => Kept(b, e, y)

\* The result goes to its slot.
LEMMA StoresAway ==
    ASSUME 1 <= MaxPosted, NEW c, NEW b, Worked(c, b), NEW t, Tile(t), NEW v, Holds(b, t, v),
           NEW s, Slot(s), Free(c, s), NEW e,
           e = Append(Append(Append(b, set_flag("V", "MTE3", 0)), wait_flag("V", "MTE3", 0)), TSTORE("MTE3", s, t))
    PROVE  /\ StoredUnit(c, s, Stored(v), e)
           /\ StoreKeeps(b, t, s, e)
           /\ \A u : Tile(u) /\ u \intersect t = {} => \A y \in u : Kept(b, e, y)
  <1>. DEFINE f == Append(Append(b, set_flag("V", "MTE3", 0)), wait_flag("V", "MTE3", 0))
  <1>1. AfterHandOff(b, "V", "MTE3", <<"V", "MTE3", 0>>, f)
    BY PipesAre, HandOff DEF Worked
  <1>2. e = Append(f, TSTORE("MTE3", s, t))
    OBVIOUS
  <1>. HIDE DEF f
  <1>3. /\ Quiet(f) /\ Settled(f, "MTE3")
        /\ \A y : y # <<"V", "MTE3", 0>> => Kept(b, f, y)
    BY <1>1, PipesAre, HandOffKeeps DEF AfterHandOff
  <1>4. Holds(f, t, v)
    BY <1>3, HoldsOn DEF Tile
  <1>5. ASSUME NEW r, Slot(r) PROVE Kept(c, f, r)
    <2>1. Kept(b, f, r)
      BY <1>3, <1>5, SlotIs
    <2>2. Kept(c, b, r)
      BY <1>5 DEF Worked
    <2>. QED  BY <2>1, <2>2, KeptOn
  <1>6. Free(f, s)
    BY <1>5 DEF Kept
  <1>7. AfterStore(f, t, v, s, e)
    <2>1. t # {}
      BY DEF Tile
    <2>. QED  BY <1>2, <1>3, <1>4, <1>6, <2>1, Stores
  <1>8. ASSUME NEW r, Slot(r), r # s PROVE Kept(c, e, r)
    <2>1. Kept(f, e, r)
      BY <1>7, <1>8 DEF AfterStore, Tile
    <2>. QED  BY <1>5, <1>8, <2>1, KeptOn
  <1>9. ASSUME NEW y, y # s, y \notin t, y # <<"V", "MTE3", 0>> PROVE Kept(b, e, y)
    <2>1. Kept(b, f, y) /\ Kept(f, e, y)
      BY <1>3, <1>7, <1>9 DEF AfterStore
    <2>. QED  BY <2>1, KeptOn
  <1>10. ASSUME NEW u, Tile(u), u \intersect t = {}, NEW y \in u PROVE Kept(b, e, y)
    <2>1. y # s /\ y \notin t /\ y # <<"V", "MTE3", 0>>
      BY <1>10 DEF Tile
    <2>. QED  BY <1>9, <2>1
  <1>. QED  BY <1>7, <1>8, <1>9, <1>10 DEF AfterStore, StoredUnit, StoreKeeps

\* The store done before the next loads, or by a barrier everything.
LEMMA Returns ==
    ASSUME 1 <= MaxPosted, NEW c, NEW e, NEW s, NEW v, Slot(s), StoredUnit(c, s, v, e),
           NEW i, NEW d, d = Append(Append(e, set_flag("MTE3", "MTE2", i)), wait_flag("MTE3", "MTE2", i))
    PROVE  AfterUnit(c, s, v, d) /\ \A t : Tile(t) => \A y \in t : Kept(e, d, y)
  <1>1. AfterHandOff(e, "MTE3", "MTE2", <<"MTE3", "MTE2", i>>, d)
    BY PipesAre, HandOff DEF StoredUnit
  <1>2. /\ Quiet(d) /\ Settled(d, "MTE2")
        /\ \A y : y # <<"MTE3", "MTE2", i>> => Kept(e, d, y)
    BY <1>1, HandOffKeeps DEF AfterHandOff
  <1>3. ASSUME NEW r, Slot(r) PROVE Kept(e, d, r)
    BY <1>2, <1>3, SlotIs
  <1>4. ASSUME NEW r, Slot(r), r # s PROVE Kept(c, d, r)
    BY <1>3, <1>4, KeptOn DEF StoredUnit
  <1>5. Yielded(d, s, v)
    BY <1>3 DEF Kept, SameAt, StoredUnit
  <1>6. ASSUME NEW t, Tile(t), NEW y \in t PROVE Kept(e, d, y)
    BY <1>2, <1>6 DEF Tile
  <1>. QED  BY <1>2, <1>4, <1>5, <1>6 DEF AfterUnit

\* After a barrier for everyone everybody may touch everything.
LEMMA BarrierSettles ==
    ASSUME NEW c, Quiet(c), NEW d, d = Append(c, pipe_barrier("ALL"))
    PROVE  Quiet(d) /\ (\A p : Settled(d, p)) /\ (\A x : Kept(c, d, x)) /\ Drains(d)
  <1>1. AfterBarrier(c, "ALL", d)
    BY BarrierRule DEF Quiet
  <1>. QED  BY <1>1 DEF AfterBarrier, Quiet, Settled, Kept, SameEvents, Drains

-----------------------------------------------------------------------------
(* What V computes *)

\* Pipe V may touch the places of tile t.
Usable(c, t) == Tile(t) /\ \A x \in t : Owns(c, "V", x)

\* V computes a tile from one tile.
LEMMA Converts ==
    ASSUME NEW c, NEW b, Worked(c, b), NEW t, Usable(b, t), NEW u, Usable(b, u), NEW v, Holds(b, t, v), NEW tag,
           NEW d, d = Append(b, Op("V", tag, <<t>>, u))
    PROVE  /\ Worked(c, d) /\ Holds(d, u, Term(tag, <<v>>))
           /\ \A x : x \notin t /\ x \notin u => Kept(b, d, x)
  <1>. DEFINE ins == Op("V", tag, <<t>>, u)
  <1>1. /\ ins.kind = "op" /\ ins.pipe = "V" /\ ins.srcs = <<t>> /\ ins.dst = u /\ ins.add = FALSE /\ ins.tag = tag
    BY DEF Op
  <1>2. d = Append(b, ins)
    OBVIOUS
  <1>. HIDE DEF ins
  <1>3. \A x : x \in Footprint(ins) <=> x \in t \/ x \in u
    BY <1>1 DEF Footprint
  <1>4. \A x \in Footprint(ins) : Owns(b, "V", x) /\ ~ Slot(x)
    BY <1>3 DEF Usable, Tile
  <1>5. \A k \in DOMAIN ins.srcs : \A x \in ins.srcs[k] : Filled(b, x)
    BY <1>1 DEF Holds
  <1>6. /\ AfterOp(b, ins, d) /\ Worked(c, d)
        /\ \A x : x \notin Footprint(ins) => Kept(b, d, x)
    BY <1>1, <1>2, <1>4, <1>5, Computes
  <1>7. Holds(d, u, Term(tag, <<v>>))
    <2>1. t # {}
      BY DEF Usable, Tile
    <2>. QED  BY <1>1, <1>6, <2>1, OpLeaves
  <1>. QED  BY <1>3, <1>6, <1>7

\* V computes a tile from two.
LEMMA Combines ==
    ASSUME NEW c, NEW b, Worked(c, b), NEW t1, Usable(b, t1), NEW t2, Usable(b, t2), NEW u, Usable(b, u),
           NEW v, Holds(b, t1, v), NEW w, Holds(b, t2, w), NEW tag, NEW d, d = Append(b, Op("V", tag, <<t1, t2>>, u))
    PROVE  /\ Worked(c, d) /\ Holds(d, u, Term(tag, <<v, w>>))
           /\ \A x : x \notin t1 /\ x \notin t2 /\ x \notin u => Kept(b, d, x)
  <1>. DEFINE ins == Op("V", tag, <<t1, t2>>, u)
  <1>1. /\ ins.kind = "op" /\ ins.pipe = "V" /\ ins.srcs = <<t1, t2>> /\ ins.dst = u /\ ins.add = FALSE /\ ins.tag = tag
    BY DEF Op
  <1>2. d = Append(b, ins)
    OBVIOUS
  <1>. HIDE DEF ins
  <1>3. \A x : x \in Footprint(ins) <=> x \in t1 \/ x \in t2 \/ x \in u
    BY <1>1 DEF Footprint
  <1>4. \A x \in Footprint(ins) : Owns(b, "V", x) /\ ~ Slot(x)
    BY <1>3 DEF Usable, Tile
  <1>5. \A k \in DOMAIN ins.srcs : \A x \in ins.srcs[k] : Filled(b, x)
    BY <1>1 DEF Holds
  <1>6. /\ AfterOp(b, ins, d) /\ Worked(c, d)
        /\ \A x : x \notin Footprint(ins) => Kept(b, d, x)
    BY <1>1, <1>2, <1>4, <1>5, Computes
  <1>7. Holds(d, u, Term(tag, <<v, w>>))
    <2>1. t1 # {} /\ t2 # {}
      BY DEF Usable, Tile
    <2>. QED  BY <1>1, <1>6, <2>1, OpLeaves
  <1>. QED  BY <1>3, <1>6, <1>7

\* V may go on with what has come to it.
LEMMA WorkGoesOn ==
    ASSUME NEW c, NEW b, Arrived(c, b)
    PROVE  Worked(c, b) /\ \A t : Tile(t) => Usable(b, t)
  BY DEF Arrived, Worked, Usable, Settled

\* After a barrier V may touch what it wrote.
LEMMA BarrierUsable ==
    ASSUME NEW c, NEW b, Worked(c, b), NEW d, d = Append(b, pipe_barrier("V"))
    PROVE  Arrived(c, d) /\ \A x : Kept(b, d, x)
  <1>1. AfterBarrier(b, "V", d)
    BY PipesAre, BarrierRule DEF Worked, Quiet
  <1>2. Settled(d, "V") /\ Settled(d, "V+")
    BY <1>1, PipesAre DEF AfterBarrier, Worked, Settled
  <1>3. \A x : Kept(b, d, x)
    BY <1>1 DEF AfterBarrier, Kept
  <1>4. Quiet(d)
    BY <1>1 DEF AfterBarrier, Worked, Quiet, SameEvents
  <1>5. \A r : Slot(r) => Kept(c, d, r)
    BY <1>3, KeptOn DEF Worked
  <1>. QED  BY <1>2, <1>3, <1>4, <1>5 DEF Arrived

\* Multiply, with its conversions.
LEMMA Multiplies ==
    ASSUME NEW half \in BOOLEAN, NEW c, NEW b, Arrived(c, b),
           NEW dst, NEW t1, NEW t2, NEW f1, NEW f2, Tile(dst), Tile(t1), Tile(t2), Tile(f1), Tile(f2),
           t1 \intersect t2 = {}, t1 \intersect f2 = {}, f1 \intersect t2 = {}, f1 \intersect f2 = {},
           NEW v, NEW w, Holds(b, t1, v), Holds(b, t2, w)
    PROVE  LET d == b \o Multiply(half, dst, t1, t2, f1, f2)
           IN  /\ Text(Multiply(half, dst, t1, t2, f1, f2))
               /\ Worked(c, d) /\ Holds(d, dst, Product(half, v, w))
  <1>0. Text(b)
    BY DEF Arrived, Quiet, Sound
  <1>1. CASE ~ half
    <2>. DEFINE d == Append(b, TMUL(dst, t1, t2))
    <2>1. b \o Multiply(half, dst, t1, t2, f1, f2) = d /\ Text(Multiply(half, dst, t1, t2, f1, f2))
      BY <1>0, <1>1, OneByOne DEF Multiply
    <2>2. Worked(c, b) /\ Usable(b, dst) /\ Usable(b, t1) /\ Usable(b, t2)
      BY WorkGoesOn
    <2>3. d = Append(b, Op("V", <<"TMUL">>, <<t1, t2>>, dst))
      BY DEF TMUL
    <2>. HIDE DEF d
    <2>4. Worked(c, d) /\ Holds(d, dst, Term(<<"TMUL">>, <<v, w>>))
      BY <2>2, <2>3, Combines
    <2>. QED  BY <1>1, <2>1, <2>4 DEF Product, Converted
  <1>2. CASE half
    <2>. DEFINE b1 == Append(b, TCVT(f1, t1))
                b2 == Append(b1, TCVT(f2, t2))
                b3 == Append(b2, pipe_barrier("V"))
                d  == Append(b3, TMUL(dst, f1, f2))
                vf == Term(<<"TCVT">>, <<v>>)
                wf == Term(<<"TCVT">>, <<w>>)
    <2>1. b \o Multiply(half, dst, t1, t2, f1, f2) = d /\ Text(Multiply(half, dst, t1, t2, f1, f2))
      <3>1. \A a, e, f, h : b \o <<a, e, f, h>> = Append(Append(Append(Append(b, a), e), f), h) /\ Text(<<a, e, f, h>>)
        BY <1>0, OneByOne, ZenonT(30)
      <3>. QED  BY <1>2, <3>1 DEF Multiply
    <2>2. Worked(c, b) /\ \A t : Tile(t) => Usable(b, t)
      BY WorkGoesOn
    <2>3. b1 = Append(b, Op("V", <<"TCVT">>, <<t1>>, f1)) /\ b2 = Append(b1, Op("V", <<"TCVT">>, <<t2>>, f2))
          /\ d = Append(b3, Op("V", <<"TMUL">>, <<f1, f2>>, dst)) /\ b3 = Append(b2, pipe_barrier("V"))
      BY DEF TCVT, TMUL
    <2>. HIDE DEF b1, b2, b3, d, vf, wf
    <2>4. Worked(c, b1) /\ Holds(b1, f1, vf) /\ \A x : x \notin t1 /\ x \notin f1 => Kept(b, b1, x)
      BY <2>2, <2>3, Converts DEF vf
    <2>5. Usable(b1, t2) /\ Usable(b1, f2) /\ Holds(b1, t2, w)
      <3>1. \A x \in t2 \union f2 : Kept(b, b1, x)
        BY <2>4
      <3>2. \A x \in t2 : Kept(b, b1, x)
        BY <3>1
      <3>3. Usable(b1, t2) /\ Usable(b1, f2)
        BY <2>2, <3>1 DEF Usable, Kept
      <3>. QED  BY <3>2, <3>3, HoldsOn
    <2>6. Worked(c, b2) /\ Holds(b2, f2, wf) /\ \A x : x \notin t2 /\ x \notin f2 => Kept(b1, b2, x)
      BY <2>3, <2>4, <2>5, Converts DEF wf
    <2>7. Holds(b2, f1, vf)
      <3>1. \A x \in f1 : Kept(b1, b2, x)
        BY <2>6
      <3>. QED  BY <2>4, <3>1, HoldsOn
    <2>8. Arrived(c, b3) /\ \A x : Kept(b2, b3, x)
      BY <2>3, <2>6, BarrierUsable
    <2>9. Holds(b3, f1, vf) /\ Holds(b3, f2, wf)
      BY <2>6, <2>7, <2>8, HoldsOn
    <2>10. Worked(c, b3) /\ Usable(b3, f1) /\ Usable(b3, f2) /\ Usable(b3, dst)
      BY <2>8, WorkGoesOn
    <2>11. Worked(c, d) /\ Holds(d, dst, Term(<<"TMUL">>, <<vf, wf>>))
      BY <2>3, <2>9, <2>10, Combines
    <2>. QED  BY <1>2, <2>1, <2>11 DEF Product, Converted, vf, wf
  <1>. QED  BY <1>1, <1>2

-----------------------------------------------------------------------------
(* One unit of each routine *)

\* Joining texts is associative.
LEMMA Associates ==
    ASSUME NEW r, Text(r), NEW s, Text(s), NEW t, Text(t)
    PROVE  r \o (s \o t) = (r \o s) \o t
  BY Joined

InParts(c, r, s, t, u) == c \o (r \o s \o t \o u) = (((c \o r) \o s) \o t) \o u /\ Text(r \o s \o t \o u)

\* A text of four parts behind another, part by part.
LEMMA InFour ==
    ASSUME NEW c, Text(c), NEW r, Text(r), NEW s, Text(s), NEW t, Text(t), NEW u, Text(u)
    PROVE  InParts(c, r, s, t, u)
  <1>. DEFINE rs == r \o s
              rst == rs \o t
  <1>1. Text(rs) /\ Text(c \o r) /\ c \o rs = (c \o r) \o s
    BY Joined
  <1>. DEFINE crs == c \o rs
  <1>2. Text(crs)
    <2>. HIDE DEF rs
    <2>. QED  BY <1>1, Joined
  <1>3. Text(rst) /\ c \o rst = crs \o t
    <2>1. Text(rst)
      <3>. HIDE DEF rs
      <3>. QED  BY <1>1, Joined
    <2>2. c \o rst = crs \o t
      <3>. HIDE DEF rs
      <3>1. \A p, q : Text(p) /\ Text(q) => c \o (p \o q) = (c \o p) \o q
        BY Associates
      <3>. HIDE DEF rs
      <3>. QED  BY <1>1, <3>1
    <2>. QED  BY <2>1, <2>2
  <1>4. Text(rst \o u) /\ c \o (rst \o u) = (c \o rst) \o u
    <2>. HIDE DEF rs, rst, crs
    <2>1. Text(rst \o u)
      BY <1>3, Joined
    <2>2. c \o (rst \o u) = (c \o rst) \o u
      <3>1. \A p, q : Text(p) /\ Text(q) => c \o (p \o q) = (c \o p) \o q
        BY Associates
      <3>. QED  BY <1>3, <3>1
    <2>. QED  BY <2>1, <2>2
  <1>5. Text(crs \o t)
    <2>. HIDE DEF rs, rst, crs
    <2>. QED  BY <1>2, Joined
  <1>. QED  BY <1>1, <1>2, <1>3, <1>4, <1>5 DEF InParts

\* A chunk copied.
LEMMA CopyChunkDone ==
    ASSUME 1 <= MaxPosted, NEW x, x \notin {"ub", "scalar"}, NEW i,
           NEW c, Quiet(c), Settled(c, "MTE2"), Free(c, <<x, i>>)
    PROVE  Text(CopyChunk(x, i)) /\ AfterUnit(c, <<x, i>>, Stored(Loaded(<<x, i>>)), c \o CopyChunk(x, i))
  <1>. DEFINE t  == UB(0, 2)
              s  == <<x, i>>
              c1 == Append(c, TLOAD(t, s))
              c2 == Append(Append(c1, set_flag("MTE2", "MTE3", 0)), wait_flag("MTE2", "MTE3", 0))
              c3 == Append(c2, TSTORE("MTE3", s, t))
              c4 == Append(Append(c3, set_flag("MTE3", "MTE2", 1)), wait_flag("MTE3", "MTE2", 1))
  <1>1. Text(c)
    BY DEF Quiet, Sound
  <1>2. c4 = c \o CopyChunk(x, i) /\ Text(CopyChunk(x, i))
    <2>1. \A a, b, e, f, g, h : /\ c \o <<a, b, e, f, g, h>> = Append(Append(Append(Append(Append(Append(c, a), b), e), f), g), h)
                               /\ Text(<<a, b, e, f, g, h>>)
      BY <1>1, OneByOne, ZenonT(30)
    <2>. DEFINE i1 == TLOAD(t, s)
                i2 == set_flag("MTE2", "MTE3", 0)
                i3 == wait_flag("MTE2", "MTE3", 0)
                i4 == TSTORE("MTE3", s, t)
                i5 == set_flag("MTE3", "MTE2", 1)
                i6 == wait_flag("MTE3", "MTE2", 1)
    <2>2. CopyChunk(x, i) = <<i1, i2, i3, i4, i5, i6>>
      BY DEF CopyChunk
    <2>3. c4 = Append(Append(Append(Append(Append(Append(c, i1), i2), i3), i4), i5), i6)
      OBVIOUS
    <2>. HIDE DEF i1, i2, i3, i4, i5, i6, c4
    <2>. QED  BY <2>1, <2>2, <2>3
  <1>3. Tile(t) /\ Slot(s) /\ Free(c, s)
    BY UBTile DEF Slot
  <1>. HIDE DEF t, s
  <1>4. AfterLoad(c, t, s, c1)
    BY Loads
  <1>. HIDE DEF c1
  <1>5. AfterHandOff(c1, "MTE2", "MTE3", <<"MTE2", "MTE3", 0>>, c2)
    BY <1>4, PipesAre, HandOff DEF AfterLoad
  <1>. HIDE DEF c2
  <1>6. /\ Quiet(c2) /\ Settled(c2, "MTE3")
        /\ \A y : y # <<"MTE2", "MTE3", 0>> => Kept(c1, c2, y)
    BY <1>5, HandOffKeeps DEF AfterHandOff
  <1>7. ASSUME NEW r, Slot(r) PROVE Kept(c, c2, r)
    <2>1. Kept(c, c1, r)
      BY <1>3, <1>4, <1>7 DEF AfterLoad, Tile
    <2>2. Kept(c1, c2, r)
      BY <1>6, <1>7, SlotIs
    <2>. QED  BY <2>1, <2>2, KeptOn
  <1>8. Holds(c2, t, Loaded(s)) /\ Free(c2, s) /\ t # {}
    <2>1. \A y \in t : Kept(c1, c2, y)
      BY <1>3, <1>6 DEF Tile
    <2>2. Holds(c2, t, Loaded(s))
      BY <1>4, <2>1, HoldsOn DEF AfterLoad
    <2>3. Free(c2, s)
      BY <1>3, <1>7 DEF Kept
    <2>. QED  BY <1>3, <2>2, <2>3 DEF Tile
  <1>9. AfterStore(c2, t, Loaded(s), s, c3)
    BY <1>6, <1>8, Stores
  <1>. HIDE DEF c3
  <1>10. ASSUME NEW r, Slot(r), r # s PROVE Kept(c, c3, r)
    <2>1. Kept(c2, c3, r)
      BY <1>3, <1>9, <1>10 DEF AfterStore, Tile
    <2>. QED  BY <1>7, <1>10, <2>1, KeptOn
  <1>11. StoredUnit(c, s, Stored(Loaded(s)), c3)
    BY <1>9, <1>10 DEF AfterStore, StoredUnit
  <1>12. AfterUnit(c, s, Stored(Loaded(s)), c4)
    BY <1>3, <1>11, Returns
  <1>. QED  BY <1>2, <1>12 DEF s

\* A block transposed: up to its store.
LEMMA TransposingDone ==
    ASSUME 1 <= MaxPosted, NEW x, x \notin {"ub", "scalar"}, NEW i, NEW w \in Nat \ {0},
           NEW c, Quiet(c), Settled(c, "MTE2"), Free(c, <<x, i>>), NEW d, d = c \o Transposing(x, i, w)
    PROVE  /\ Text(Transposing(x, i, w))
           /\ StoredUnit(c, <<x, i>>, Stored(Term(<<"TTRANS">>, <<Loaded(<<x, i>>)>>)), d)
  <1>. DEFINE t  == UB(0, w)
              u  == UB(w, w)
              tt == UB(2 * w, w)
              s  == <<x, i>>
              v  == Term(<<"TTRANS">>, <<Loaded(s)>>)
              c1 == Append(Append(Append(c, TLOAD(t, s)), set_flag("MTE2", "V", 0)), wait_flag("MTE2", "V", 0))
              c2 == Append(c1, TTRANS(u, t, tt))
              c3 == Append(Append(Append(c2, set_flag("V", "MTE3", 0)), wait_flag("V", "MTE3", 0)), TSTORE("MTE3", s, u))
  <1>1. Text(c)
    BY DEF Quiet, Sound
  <1>2. c3 = c \o Transposing(x, i, w) /\ Text(Transposing(x, i, w))
    <2>1. \A a, b, e, f, g, h, k :
             /\ c \o <<a, b, e, f, g, h, k>> = Append(Append(Append(Append(Append(Append(Append(c, a), b), e), f), g), h), k)
             /\ Text(<<a, b, e, f, g, h, k>>)
      BY <1>1, OneByOne, ZenonT(30)
    <2>. DEFINE i1 == TLOAD(t, s)
                i2 == set_flag("MTE2", "V", 0)
                i3 == wait_flag("MTE2", "V", 0)
                i4 == TTRANS(u, t, tt)
                i5 == set_flag("V", "MTE3", 0)
                i6 == wait_flag("V", "MTE3", 0)
                i7 == TSTORE("MTE3", s, u)
    <2>2. Transposing(x, i, w) = <<i1, i2, i3, i4, i5, i6, i7>>
      BY DEF Transposing
    <2>3. c3 = Append(Append(Append(Append(Append(Append(Append(c, i1), i2), i3), i4), i5), i6), i7)
      OBVIOUS
    <2>. HIDE DEF i1, i2, i3, i4, i5, i6, i7, c3
    <2>4. /\ c \o <<i1, i2, i3, i4, i5, i6, i7>> = Append(Append(Append(Append(Append(Append(Append(c, i1), i2), i3), i4), i5), i6), i7)
          /\ Text(<<i1, i2, i3, i4, i5, i6, i7>>)
      BY <2>1
    <2>. QED  BY <2>2, <2>3, <2>4, Zenon
  <1>3. Tile(t) /\ Tile(u) /\ Tile(u \union tt) /\ Slot(s) /\ Free(c, s)
    <2>1. Tile(t) /\ Tile(u) /\ Tile(tt)
      BY UBTile
    <2>. HIDE DEF t, u, tt
    <2>2. Tile(u \union tt)
      BY <2>1 DEF Tile
    <2>. QED  BY <2>1, <2>2 DEF Slot
  <1>. HIDE DEF t, s, u, tt, v
  <1>4. Arrived(c, c1) /\ Holds(c1, t, Loaded(s))
    BY <1>3, OneArrives
  <1>5. c2 = Append(c1, Op("V", <<"TTRANS">>, <<t>>, u \union tt))
    BY DEF TTRANS
  <1>. HIDE DEF c1
  <1>6. Worked(c, c1) /\ Usable(c1, t) /\ Usable(c1, u \union tt)
    BY <1>3, <1>4, WorkGoesOn
  <1>. HIDE DEF c2
  <1>7. Worked(c, c2) /\ Holds(c2, u \union tt, v)
    BY <1>4, <1>5, <1>6, Converts DEF v
  <1>8. Holds(c2, u, v)
    BY <1>7 DEF Holds
  <1>9. StoredUnit(c, s, Stored(v), c3)
    BY <1>3, <1>7, <1>8, StoresAway
  <1>. QED  BY <1>2, <1>9 DEF s, v

\* A block transposed, with its barrier.
LEMMA TtransBlockDone ==
    ASSUME 1 <= MaxPosted, NEW x, x \notin {"ub", "scalar"}, NEW i, NEW w \in Nat \ {0},
           NEW c, Quiet(c), Settled(c, "MTE2"), Free(c, <<x, i>>),
           NEW block, block = Transposing(x, i, w) \o <<pipe_barrier("ALL")>>
    PROVE  /\ Text(block)
           /\ AfterUnit(c, <<x, i>>, Stored(Term(<<"TTRANS">>, <<Loaded(<<x, i>>)>>)), c \o block)
  <1>. DEFINE s == <<x, i>>
              v == Stored(Term(<<"TTRANS">>, <<Loaded(s)>>))
              b == c \o Transposing(x, i, w)
              d == Append(b, pipe_barrier("ALL"))
  <1>1. Text(Transposing(x, i, w)) /\ StoredUnit(c, s, v, b)
    BY TransposingDone
  <1>2. Text(c) /\ Text(<<pipe_barrier("ALL")>>)
    BY DEF Quiet, Sound, Text
  <1>3. Text(block) /\ c \o block = d
    <2>1. block = Append(Transposing(x, i, w), pipe_barrier("ALL"))
      BY <1>1, Spelled
    <2>2. Text(block)
      BY <1>1, <2>1, Spelled
    <2>. QED  BY <1>1, <1>2, <2>1, <2>2, Appending
  <1>. HIDE DEF s, v, b
  <1>4. Quiet(d) /\ (\A p : Settled(d, p)) /\ (\A y : Kept(b, d, y))
    BY <1>1, BarrierSettles DEF StoredUnit
  <1>. HIDE DEF d
  <1>5. Yielded(d, s, v)
    BY <1>1, <1>4 DEF Kept, SameAt, StoredUnit
  <1>6. \A r : Slot(r) /\ r # s => Kept(c, d, r)
    BY <1>1, <1>4, KeptOn DEF StoredUnit
  <1>7. AfterUnit(c, s, v, d)
    BY <1>4, <1>5, <1>6 DEF AfterUnit
  <1>. QED  BY <1>3, <1>7 DEF s, v

\* Two operands loaded, multiplied and stored.
LEMMA StreamDone ==
    ASSUME 1 <= MaxPosted, NEW half \in BOOLEAN, NEW s, Slot(s), NEW c, Quiet(c), Settled(c, "MTE2"), Free(c, s),
           NEW src1, NEW src2, NEW dst, NEW t1, NEW t2, NEW f1, NEW f2,
           Tile(dst), Tile(t1), Tile(t2), Tile(f1), Tile(f2),
           t1 \intersect t2 = {}, t1 \intersect f2 = {}, f1 \intersect t2 = {}, f1 \intersect f2 = {},
           NEW block, block = StreamBlock(<<TLOAD(t1, src1), TLOAD(t2, src2)>>, Multiply(half, dst, t1, t2, f1, f2), s, dst)
    PROVE  Text(block) /\ AfterUnit(c, s, Stored(Product(half, Loaded(src1), Loaded(src2))), c \o block)
  <1>. DEFINE l1 == TLOAD(t1, src1)
              l2 == TLOAD(t2, src2)
              h1 == set_flag("MTE2", "V", 0)
              h2 == wait_flag("MTE2", "V", 0)
              m  == Multiply(half, dst, t1, t2, f1, f2)
              g1 == set_flag("V", "MTE3", 0)
              g2 == wait_flag("V", "MTE3", 0)
              st == TSTORE("MTE3", s, dst)
              e1 == set_flag("MTE3", "MTE2", 1)
              e2 == wait_flag("MTE3", "MTE2", 1)
              c1 == Append(Append(c, l1), l2)
              c2 == Append(Append(c1, h1), h2)
              c3 == c2 \o m
              c4 == Append(Append(Append(c3, g1), g2), st)
              c5 == Append(Append(c4, e1), e2)
              v  == Product(half, Loaded(src1), Loaded(src2))
  <1>1. block = <<l1, l2>> \o <<h1, h2>> \o m \o <<g1, g2, st, e1, e2>>
    BY DEF StreamBlock
  <1>2. Text(c)
    BY DEF Quiet, Sound
  <1>3. c2 = Append(Append(Append(Append(c, l1), l2), h1), h2)
    OBVIOUS
  <1>4. Arrived(c, c2) /\ Holds(c2, t1, Loaded(src1)) /\ Holds(c2, t2, Loaded(src2))
    <2>. HIDE DEF c2
    <2>. QED  BY <1>3, TwoArrive
  <1>5. Text(m) /\ Worked(c, c3) /\ Holds(c3, dst, v)
    <2>. HIDE DEF c2
    <2>. QED  BY <1>4, Multiplies
  <1>6. StoredUnit(c, s, Stored(v), c4)
    <2>. HIDE DEF c3, v
    <2>. QED  BY <1>5, StoresAway
  <1>7. AfterUnit(c, s, Stored(v), c5)
    <2>. HIDE DEF c4, v
    <2>. QED  BY <1>6, Returns
  <1>8. Text(block) /\ c \o block = c5
    <2>. HIDE DEF l1, l2, h1, h2, m, g1, g2, st, e1, e2
    <2>1. /\ c \o <<l1, l2>> = c1 /\ Text(<<l1, l2>>) /\ Text(c1)
      BY <1>2, OneByOne, Appended
    <2>2. /\ c1 \o <<h1, h2>> = c2 /\ Text(<<h1, h2>>) /\ Text(c2)
      <3>. HIDE DEF c1
      <3>. QED  BY <2>1, OneByOne, Appended DEF c2
    <2>3. Text(c3)
      <3>. HIDE DEF c2
      <3>. QED  BY <1>5, <2>2, Joined
    <2>4. c3 \o <<g1, g2, st, e1, e2>> = c5 /\ Text(<<g1, g2, st, e1, e2>>)
      <3>. HIDE DEF c3
      <3>1. \A a, b, p, q, r : /\ c3 \o <<a, b, p, q, r>> = Append(Append(Append(Append(Append(c3, a), b), p), q), r)
                                /\ Text(<<a, b, p, q, r>>)
        BY <2>3, OneByOne, ZenonT(30)
      <3>. QED  BY <3>1
    <2>5. c \o block = ((c1 \o <<h1, h2>>) \o m) \o <<g1, g2, st, e1, e2>> /\ Text(block)
      <3>. DEFINE p1 == <<l1, l2>>
                  p2 == <<h1, h2>>
                  p4 == <<g1, g2, st, e1, e2>>
      <3>1. Text(p1) /\ Text(p2) /\ Text(m) /\ Text(p4) /\ c \o p1 = c1 /\ block = p1 \o p2 \o m \o p4
        BY <1>1, <1>5, <2>1, <2>2, <2>4
      <3>. HIDE DEF p1, p2, p4, c1
      <3>2. /\ c \o (p1 \o p2 \o m \o p4) = (((c \o p1) \o p2) \o m) \o p4
            /\ Text(p1 \o p2 \o m \o p4)
        <4>1. InParts(c, p1, p2, m, p4)
          BY <1>2, <3>1, InFour
        <4>. QED  BY <4>1 DEF InParts
      <3>. QED  BY <3>1, <3>2 DEF p1, p2, p4
    <2>. QED  BY <2>2, <2>4, <2>5
  <1>. QED  BY <1>7, <1>8

-----------------------------------------------------------------------------
(* Routines *)

\* A routine may be started when nothing is in its way, and leaves its part of
\* the workspace right, and the rest of it alone.
Served(c, right, d) ==
    /\ Quiet(d) /\ Settled(d, "MTE2")
    /\ \A s \in DOMAIN right : Yielded(d, s, right[s])
    /\ \A r : Slot(r) /\ r \notin DOMAIN right => Kept(c, d, r)
Ready4(c, right) == Quiet(c) /\ Settled(c, "MTE2") /\ \A s \in DOMAIN right : Free(c, s) /\ Slot(s)
Serves(p) == Text(p.code) /\ \A c : Ready4(c, p.right) => Served(c, p.right, c \o p.code)

\* In front of all the code nothing is in the way of anyone.
LEMMA EmptyText ==
    /\ Text(<<>>) /\ Quiet(<<>>)
    /\ \A x : Free(<<>>, x) /\ \A p : Owns(<<>>, p, x)
  <1>1. Text(<<>>) /\ DOMAIN <<>> = {}
    BY DEF Text
  <1>2. Ops(<<>>) = {} /\ \A x : SetsOf(<<>>, x) = {} /\ WaitsOf(<<>>, x) = {}
    BY DEF Ops, SetsOf, WaitsOf
  <1>3. \A x : Touching(<<>>, x) = {}
    BY <1>2 DEF Touching
  <1>4. Sound(<<>>)
    BY <1>1, <1>2 DEF Sound, Ordered, InOrder, EventsFit, WaitsMatch, Computed
  <1>. QED  BY <1>1, <1>2, <1>3, <1>4 DEF Quiet, Even, Free, Owns

\* When the slots of all units are done the routine has served.
LEMMA AllServed ==
    ASSUME NEW n \in Nat, NEW x, NEW right, DOMAIN right = {x} \X (0..(n - 1)),
           NEW v, \A i \in 0..(n - 1) : v[i] = right[<<x, i>>], NEW c, NEW d,
           Quiet(d), Settled(d, "MTE2"), SlotsDone(c, x, v, n, n, d)
    PROVE  Served(c, right, d)
  <1>1. ASSUME NEW s \in DOMAIN right PROVE Yielded(d, s, right[s])
    <2>1. PICK i \in 0..(n - 1) : s = <<x, i>>
      OBVIOUS
    <2>. QED  BY <2>1 DEF SlotsDone
  <1>2. ASSUME NEW r, Slot(r), r \notin DOMAIN right PROVE Kept(c, d, r)
    <2>1. \A i \in 0..(n - 1) : r # <<x, i>>
      BY <1>2
    <2>. QED  BY <1>2, <2>1 DEF SlotsDone
  <1>. QED  BY <1>1, <1>2 DEF Served

\* A loop serves if each of its units does its slot.
LEMMA UnitsServe ==
    ASSUME NEW n \in Nat, NEW f, Text(f), n = Len(f), \A k \in 1..n : Text(f[k]),
           NEW x, x \notin {"ub", "scalar"}, NEW right, DOMAIN right = {x} \X (0..(n - 1)),
           \A b, k : k \in 1..n /\ Quiet(b) /\ Settled(b, "MTE2") /\ Free(b, <<x, k - 1>>)
                        => AfterUnit(b, <<x, k - 1>>, right[<<x, k - 1>>], b \o f[k]),
           NEW p, p.code = FlattenSeq(f), p.right = right
    PROVE  Serves(p) /\ \A s \in DOMAIN p.right : Slot(s)
  <1>. DEFINE v == [i \in 0..(n - 1) |-> right[<<x, i>>]]
  <1>1. \A s \in DOMAIN right : \E i \in 0..(n - 1) : s = <<x, i>>
    OBVIOUS
  <1>2. \A i \in 0..(n - 1) : <<x, i>> \in DOMAIN right /\ v[i] = right[<<x, i>>]
    OBVIOUS
  <1>3. \A s \in DOMAIN right : Slot(s)
    BY <1>1 DEF Slot
  <1>4. \A b, k : k \in 1..n /\ Quiet(b) /\ Settled(b, "MTE2") /\ Free(b, <<x, k - 1>>)
                     => AfterUnit(b, <<x, k - 1>>, v[k - 1], b \o f[k])
    <2>1. \A k \in 1..n : k - 1 \in 0..(n - 1)
      OBVIOUS
    <2>. QED  BY <1>2, <2>1
  <1>. HIDE DEF v
  <1>5. ASSUME NEW c, Ready4(c, right) PROVE Text(FlattenSeq(f)) /\ UnitsDone(c, x, v, n, n, c \o FlattenSeq(f))
    <2>1. \A i \in 0..(n - 1) : Free(c, <<x, i>>)
      BY <1>2, <1>5 DEF Ready4
    <2>2. Quiet(c) /\ Settled(c, "MTE2")
      BY <1>5 DEF Ready4
    <2>. QED  BY <1>4, <2>1, <2>2, Units
  <1>6. ASSUME NEW c, NEW d, UnitsDone(c, x, v, n, n, d) PROVE Served(c, right, d)
    BY <1>2, <1>6, AllServed DEF UnitsDone
  <1>7. Text(FlattenSeq(f))
    <2>1. Ready4(<<>>, right)
      BY <1>3, EmptyText DEF Ready4, Settled
    <2>. QED  BY <1>5, <2>1
  <1>. QED  BY <1>3, <1>5, <1>6, <1>7 DEF Serves

\* A copy serves, whatever the number of chunks.
LEMMA CopyServes ==
    ASSUME 1 <= MaxPosted, NEW n \in Nat, NEW x, x \notin {"ub", "scalar"}
    PROVE  Serves(Copy(x, n)) /\ \A s \in DOMAIN Copy(x, n).right : Slot(s)
  <1>. DEFINE f == [i \in 1..n |-> CopyChunk(x, i - 1)]
              right == CopiedRight(x, n)
  <1>1. Copy(x, n).code = FlattenSeq(f) /\ Copy(x, n).right = right
    BY DEF Copy, Loop
  <1>2. DOMAIN right = {x} \X (0..(n - 1)) /\ \A k \in 1..n : right[<<x, k - 1>>] = Stored(Loaded(<<x, k - 1>>))
    <2>1. \A k \in 1..n : <<x, k - 1>> \in {x} \X (0..(n - 1))
      OBVIOUS
    <2>. QED  BY <2>1 DEF CopiedRight
  <1>3. \A k \in 1..n : f[k] = CopyChunk(x, k - 1)
    OBVIOUS
  <1>4. Text(f) /\ Len(f) = n
    BY ListIs
  <1>. HIDE DEF f, right
  <1>5. \A k \in 1..n : Text(f[k])
    <2>1. Quiet(<<>>) /\ Settled(<<>>, "MTE2") /\ \A k : Free(<<>>, <<x, k>>)
      BY EmptyText DEF Settled
    <2>. QED  BY <1>3, <2>1, CopyChunkDone
  <1>6. ASSUME NEW b, NEW k \in 1..n, Quiet(b), Settled(b, "MTE2"), Free(b, <<x, k - 1>>)
        PROVE  AfterUnit(b, <<x, k - 1>>, right[<<x, k - 1>>], b \o f[k])
    BY <1>2, <1>3, <1>6, CopyChunkDone
  <1>. QED  BY <1>1, <1>2, <1>4, <1>5, <1>6, UnitsServe

\* A transpose by blocks serves, whatever their number and size.
LEMMA TtransServes ==
    ASSUME 1 <= MaxPosted, NEW n \in Nat, NEW w \in Nat \ {0}, NEW x, x \notin {"ub", "scalar"}
    PROVE  Serves(TtransBlocks(x, n, w)) /\ \A s \in DOMAIN TtransBlocks(x, n, w).right : Slot(s)
  <1>. DEFINE block(i) == Transposing(x, i, w) \o <<pipe_barrier("ALL")>>
              f == [i \in 1..n |-> block(i - 1)]
              right == TransposedRight(x, n)
  <1>1. TtransBlocks(x, n, w).code = FlattenSeq(f) /\ TtransBlocks(x, n, w).right = right
    BY DEF TtransBlocks, Loop
  <1>2. /\ DOMAIN right = {x} \X (0..(n - 1))
        /\ \A k \in 1..n : right[<<x, k - 1>>] = Stored(Term(<<"TTRANS">>, <<Loaded(<<x, k - 1>>)>>))
    <2>1. \A k \in 1..n : <<x, k - 1>> \in {x} \X (0..(n - 1))
      OBVIOUS
    <2>. QED  BY <2>1 DEF TransposedRight
  <1>3. \A k \in 1..n : f[k] = Transposing(x, k - 1, w) \o <<pipe_barrier("ALL")>>
    OBVIOUS
  <1>4. Text(f) /\ Len(f) = n
    <2>. HIDE DEF block
    <2>. QED  BY ListIs
  <1>. HIDE DEF f, right
  <1>5. \A k \in 1..n : Text(f[k])
    <2>1. Quiet(<<>>) /\ Settled(<<>>, "MTE2") /\ \A k : Free(<<>>, <<x, k>>)
      BY EmptyText DEF Settled
    <2>. QED  BY <1>3, <2>1, TtransBlockDone
  <1>6. ASSUME NEW b, NEW k \in 1..n, Quiet(b), Settled(b, "MTE2"), Free(b, <<x, k - 1>>)
        PROVE  AfterUnit(b, <<x, k - 1>>, right[<<x, k - 1>>], b \o f[k])
    BY <1>2, <1>3, <1>6, TtransBlockDone
  <1>. QED  BY <1>1, <1>2, <1>4, <1>5, <1>6, UnitsServe

-----------------------------------------------------------------------------
(* The double buffer *)

\* Buffer b, its event to the stores, and its event back to the loads.
Half(w, b) == UB(b * w, w)
Forth(b)   == <<"MTE2", "MTE3", b>>
Back(b)    == <<"MTE3", "MTE2", 2 + b>>

\* The stores of the buffers in P are still to be waited for.  Pipe MTE2 may
\* touch everything else, and what is missing comes with their events.
Owing(d, w, P) ==
    /\ P \subseteq {0, 1} /\ Sound(d)
    /\ \A l : (\A b \in P : l # Back(b)) => Even(d, l)
    /\ \A b \in P : Pending(d, Back(b))
    /\ \A b \in {0, 1} : Owns(d, "MTE2", Back(b))
    /\ \A y : Owns(d, "MTE2", y) \/ \E b \in P : Passed(d, Back(b), y)
    /\ \A b \in {0, 1} : \A y : y \in Half(w, b) \/ y = Forth(b) =>
         Owns(d, "MTE2", y) \/ (b \in P /\ Passed(d, Back(b), y))

\* When no store is to be waited for, MTE2 may touch everything.
LEMMA NothingOwed ==
    ASSUME NEW d, NEW w
    PROVE  Quiet(d) /\ Settled(d, "MTE2") <=> Owing(d, w, {})
  BY DEF Owing, Quiet, Settled

\* The lanes of the two buffers are four.
LEMMA LanesDiffer ==
    ASSUME NEW b \in {0, 1}, NEW e \in {0, 1}
    PROVE  Forth(b) # Back(e) /\ (b # e => Back(b) # Back(e) /\ Forth(b) # Forth(e))
  BY DEF Forth, Back

\* The store of buffer b has been waited for; or a unit has gone through it.
PaidBack(c, w, P, b, d) == Owing(d, w, P \ {b}) /\ \A r : Slot(r) => Kept(c, d, r)
Borrowed(c, s, w, P, b, d) ==
    /\ Owing(d, w, P \union {b}) /\ Yielded(d, s, Stored(Loaded(s)))
    /\ \A r : Slot(r) /\ r # s => Kept(c, d, r)

\* Waiting for the store of a buffer.
LEMMA PaysBack ==
    ASSUME NEW w, NEW P, NEW b, b \in P, NEW c, Owing(c, w, P),
           NEW d, d = Append(c, wait_flag("MTE3", "MTE2", 2 + b))
    PROVE  PaidBack(c, w, P, b, d)
  <1>. DEFINE l == Back(b)
  <1>1. AfterWait(c, "MTE2", l, d)
    <2>1. Sound(c) /\ Pending(c, l)
      BY DEF Owing
    <2>. QED  BY <2>1, PipesAre, WaitRule DEF Back
  <1>2. \A e \in P : e # b => Back(e) # l
    BY LanesDiffer DEF Owing
  <1>. HIDE DEF l
  <1>3. \A m : (\A e \in P \ {b} : m # Back(e)) => Even(d, m)
    <2>. SUFFICES ASSUME NEW m, \A e \in P \ {b} : m # Back(e) PROVE Even(d, m)
      OBVIOUS
    <2>1. CASE m = l
      BY <1>1, <2>1 DEF AfterWait
    <2>2. CASE m # l
      <3>1. \A e \in P : m # Back(e)
        BY <2>2 DEF l
      <3>. QED  BY <1>1, <2>2, <3>1 DEF AfterWait, Owing, SameEvents
    <2>. QED  BY <2>1, <2>2
  <1>4. \A e \in P \ {b} : Pending(d, Back(e))
    BY <1>1, <1>2 DEF AfterWait, Owing, SameEvents
  <1>5. \A y : Owns(c, "MTE2", y) => Owns(d, "MTE2", y)
    BY <1>1 DEF AfterWait
  <1>6. \A y : Passed(c, l, y) => Owns(d, "MTE2", y)
    BY <1>1 DEF AfterWait
  <1>7. \A y, e : y # l /\ e \in P /\ Passed(c, Back(e), y) => Passed(d, Back(e), y)
    BY <1>1 DEF AfterWait
  <1>8. Owns(d, "MTE2", l)
    BY <1>5 DEF Owing, l
  <1>9. \A e \in {0, 1} : Owns(d, "MTE2", Back(e))
    BY <1>5 DEF Owing
  <1>10. \A y : Owns(d, "MTE2", y) \/ \E e \in P \ {b} : Passed(d, Back(e), y)
    <2>. SUFFICES ASSUME NEW y, y # l PROVE Owns(d, "MTE2", y) \/ \E e \in P \ {b} : Passed(d, Back(e), y)
      BY <1>8
    <2>1. CASE Owns(c, "MTE2", y)
      BY <1>5, <2>1
    <2>2. ASSUME NEW e \in P, Passed(c, Back(e), y) PROVE Owns(d, "MTE2", y) \/ \E f \in P \ {b} : Passed(d, Back(f), y)
      <3>1. CASE e = b
        BY <1>6, <2>2, <3>1 DEF l
      <3>2. CASE e # b
        BY <1>7, <2>2, <3>2
      <3>. QED  BY <3>1, <3>2
    <2>. QED  BY <2>1, <2>2 DEF Owing
  <1>11. ASSUME NEW e \in {0, 1}, NEW y, y \in Half(w, e) \/ y = Forth(e)
         PROVE  Owns(d, "MTE2", y) \/ (e \in P \ {b} /\ Passed(d, Back(e), y))
    <2>1. CASE y = l
      BY <1>8, <2>1
    <2>2. CASE y # l /\ Owns(c, "MTE2", y)
      BY <1>5, <2>2
    <2>3. CASE y # l /\ e \in P /\ Passed(c, Back(e), y)
      <3>1. CASE e = b
        BY <1>6, <2>3, <3>1 DEF l
      <3>2. CASE e # b
        BY <1>7, <2>3, <3>2
      <3>. QED  BY <3>1, <3>2
    <2>. QED  BY <1>11, <2>1, <2>2, <2>3 DEF Owing
  <1>12. Sound(d)
    BY <1>1 DEF AfterWait
  <1>13. ASSUME NEW r, Slot(r) PROVE Kept(c, d, r)
    <2>1. r # l
      BY <1>13, SlotIs DEF l, Back
    <2>. QED  BY <1>1, <2>1 DEF AfterWait, Kept
  <1>14. Owing(d, w, P \ {b})
    BY <1>3, <1>4, <1>9, <1>10, <1>11, <1>12 DEF Owing
  <1>. QED  BY <1>13, <1>14 DEF PaidBack

\* The two buffers have no place in common.
LEMMA HalvesApart ==
    ASSUME NEW w \in Nat \ {0}, NEW b \in {0, 1}
    PROVE  /\ Tile(Half(w, b))
           /\ \A e \in {0, 1} : b # e => \A y \in Half(w, b) : y \notin Half(w, e)
  <1>1. CASE b = 0
    <2>1. b * w = 0
      BY <1>1
    <2>2. Half(w, b) = UB(0, w) /\ Half(w, 1) = UB(w, w)
      BY <2>1 DEF Half
    <2>3. \A y \in UB(0, w) : y \notin UB(w, w)
      BY TilesApart
    <2>. QED  BY <1>1, <2>2, <2>3, UBTile
  <1>2. CASE b = 1
    <2>1. b * w = w
      BY <1>2
    <2>2. Half(w, b) = UB(w, w) /\ Half(w, 0) = UB(0, w)
      BY <2>1 DEF Half
    <2>3. \A y \in UB(0, w) : y \notin UB(w, w)
      BY TilesApart
    <2>. QED  BY <1>2, <2>2, <2>3, UBTile
  <1>. QED  BY <1>1, <1>2

\* A unit through buffer b, whose own store is not waited for.
HalfChunk(s, w, b) ==
    <<TLOAD(Half(w, b), s),
      set_flag("MTE2", "MTE3", b), wait_flag("MTE2", "MTE3", b),
      TSTORE("MTE3", s, Half(w, b)),
      set_flag("MTE3", "MTE2", 2 + b)>>

\* Up to the store: what MTE2 may touch MTE3 may touch as well.
Forwarded(c, t, f, P, v, d) ==
    /\ Sound(d) /\ Holds(d, t, v)
    /\ \A l : SameEvents(c, d, l) \/ (l = f /\ Even(d, l))
    /\ \A y : Owns(c, "MTE2", y) => Owns(d, "MTE3", y) /\ (y # f => Owns(d, "MTE2", y))
    /\ \A y : y \notin t /\ y # f =>
         /\ \A l : l # f => (Passed(c, l, y) => Passed(d, l, y))
         /\ Kept(c, d, y)

\* A load into a buffer that is free, up to the store.
LEMMA Forwards ==
    ASSUME 1 <= MaxPosted, NEW w \in Nat \ {0}, NEW P, NEW b \in {0, 1}, b \notin P, NEW c, Owing(c, w, P),
           NEW s, NEW d, d = Append(Append(Append(c, TLOAD(Half(w, b), s)),
                                           set_flag("MTE2", "MTE3", b)), wait_flag("MTE2", "MTE3", b))
    PROVE  Forwarded(c, Half(w, b), Forth(b), P, Loaded(s), d)
  <1>. DEFINE t   == Half(w, b)
              f   == Forth(b)
              ins == TLOAD(t, s)
              c1  == Append(c, ins)
              c2  == Append(c1, set_flag("MTE2", "MTE3", b))
  <1>1. /\ ins.kind = "op" /\ ins.pipe = "MTE2" /\ ins.srcs = <<>> /\ ins.dst = t /\ ins.add = FALSE
        /\ ins.tag = <<"TLOAD", s>>
    BY DEF TLOAD, Op
  <1>2. \A y \in t : Owns(c, "MTE2", y)
    BY DEF Owing
  <1>3. Owns(c, "MTE2", f) /\ Even(c, f) /\ Sound(c)
    <2>1. \A e \in P : f # Back(e)
      BY LanesDiffer DEF Owing
    <2>. QED  BY <2>1 DEF Owing
  <1>4. Tile(t)
    BY HalvesApart
  <1>5. d = Append(c2, wait_flag("MTE2", "MTE3", b)) /\ f = <<"MTE2", "MTE3", b>>
    BY DEF Forth
  <1>. HIDE DEF ins, t, f
  <1>6. \A y : y \in Footprint(ins) <=> y \in t
    BY <1>1 DEF Footprint
  <1>7. AfterOp(c, ins, c1)
    <2>1. \A k \in DOMAIN ins.srcs : \A x \in ins.srcs[k] : Filled(c, x)
      BY <1>1
    <2>. QED  BY <1>1, <1>2, <1>3, <1>6, <2>1, PipesAre, OpRule
  <1>8. Holds(c1, t, Loaded(s))
    BY <1>1, <1>7, OpLeaves DEF Loaded
  <1>. HIDE DEF c1
  <1>9. /\ Sound(c1) /\ \A l : SameEvents(c, c1, l)
        /\ \A y : Owns(c, "MTE2", y) => Owns(c1, "MTE2", y)
        /\ \A y : y \notin t => Kept(c, c1, y) /\ \A l : Passed(c, l, y) => Passed(c1, l, y)
    BY <1>1, <1>6, <1>7, PipesAre DEF AfterOp, Kept
  <1>10. AfterSet(c1, "MTE2", f, c2)
    <2>1. Even(c1, f) /\ Room(c1, "MTE2", f)
      BY <1>3, <1>9, PipesAre DEF SameEvents, Room
    <2>. QED  BY <1>5, <1>9, <2>1, PipesAre, SetRule
  <1>. HIDE DEF c2
  <1>11. AfterWait(c2, "MTE3", f, d)
    <2>1. Sound(c2) /\ Pending(c2, f)
      BY <1>10 DEF AfterSet
    <2>. QED  BY <1>5, <2>1, PipesAre, WaitRule
  <1>12. \A y : y \in t => y # f
    BY <1>4 DEF Tile, f, Forth
  <1>13. \A y : y # f => Kept(c1, d, y)
    BY <1>10, <1>11 DEF AfterSet, AfterWait, Kept, SameAt
  <1>14. Holds(d, t, Loaded(s))
    BY <1>8, <1>12, <1>13, HoldsOn
  <1>15. \A l : SameEvents(c, d, l) \/ (l = f /\ Even(d, l))
    BY <1>9, <1>10, <1>11 DEF AfterSet, AfterWait, SameEvents
  <1>16. ASSUME NEW y, Owns(c, "MTE2", y) PROVE Owns(d, "MTE3", y) /\ (y # f => Owns(d, "MTE2", y))
    <2>1. Owns(c1, "MTE2", y)
      BY <1>9, <1>16
    <2>2. Passed(c2, f, y)
      BY <1>10, <2>1, PipesAre DEF AfterSet
    <2>3. Owns(d, "MTE3", y)
      BY <1>11, <2>2 DEF AfterWait
    <2>. QED  BY <1>13, <2>1, <2>3 DEF Kept
  <1>17. ASSUME NEW y, y \notin t, y # f, NEW l, l # f, Passed(c, l, y) PROVE Passed(d, l, y)
    <2>1. Passed(c1, l, y)
      BY <1>9, <1>17
    <2>2. Passed(c2, l, y)
      BY <1>10, <1>17, <2>1 DEF AfterSet
    <2>. QED  BY <1>11, <1>17, <2>2 DEF AfterWait
  <1>18. ASSUME NEW y, y \notin t, y # f PROVE Kept(c, d, y)
    BY <1>9, <1>13, <1>18, KeptOn
  <1>19. Sound(d)
    BY <1>11 DEF AfterWait
  <1>. QED  BY <1>14, <1>15, <1>16, <1>17, <1>18, <1>19 DEF Forwarded, t, f

\* A unit goes through a buffer that is free, which is then in use.
LEMMA Borrows ==
    ASSUME 1 <= MaxPosted, NEW w \in Nat \ {0}, NEW P, NEW b \in {0, 1}, b \notin P, NEW c, Owing(c, w, P),
           NEW s, Slot(s), Free(c, s), NEW d, d = c \o HalfChunk(s, w, b)
    PROVE  Text(HalfChunk(s, w, b)) /\ Borrowed(c, s, w, P, b, d)
  <1>. DEFINE t   == Half(w, b)
              f   == Forth(b)
              l   == Back(b)
              ins == TSTORE("MTE3", s, t)
              c3  == Append(Append(Append(c, TLOAD(t, s)), set_flag("MTE2", "MTE3", b)), wait_flag("MTE2", "MTE3", b))
              c4  == Append(c3, ins)
              c5  == Append(c4, set_flag("MTE3", "MTE2", 2 + b))
  <1>1. Text(HalfChunk(s, w, b)) /\ d = c5
    <2>. DEFINE i1 == TLOAD(t, s)
                i2 == set_flag("MTE2", "MTE3", b)
                i3 == wait_flag("MTE2", "MTE3", b)
                i4 == TSTORE("MTE3", s, t)
                i5 == set_flag("MTE3", "MTE2", 2 + b)
    <2>1. Text(c)
      BY DEF Owing, Sound
    <2>2. HalfChunk(s, w, b) = <<i1, i2, i3, i4, i5>> /\ c5 = Append(Append(Append(Append(Append(c, i1), i2), i3), i4), i5)
      BY DEF HalfChunk
    <2>. HIDE DEF i1, i2, i3, i4, i5, c5
    <2>3. /\ c \o <<i1, i2, i3, i4, i5>> = Append(Append(Append(Append(Append(c, i1), i2), i3), i4), i5)
          /\ Text(<<i1, i2, i3, i4, i5>>)
      BY <2>1, OneByOne, ZenonT(30)
    <2>. QED  BY <2>2, <2>3
  <1>2. Forwarded(c, t, f, P, Loaded(s), c3)
    <2>. HIDE DEF c3
    <2>. QED  BY Forwards DEF c3
  <1>3. /\ ins.kind = "op" /\ ins.pipe = "MTE3" /\ ins.srcs = <<t>> /\ ins.dst = {s} /\ ins.add = FALSE
        /\ ins.tag = <<"TSTORE">>
    BY DEF TSTORE, Op
  <1>4. c5 = Append(c4, set_flag("MTE3", "MTE2", 2 + b)) /\ l = <<"MTE3", "MTE2", 2 + b>>
    BY DEF Back
  <1>5. /\ Tile(t) /\ f # l /\ \A y : y \in t \/ y = f => Owns(c, "MTE2", y)
        /\ s \notin t /\ s # f /\ s # l /\ f \notin t /\ l \notin t
        /\ \A r : Slot(r) => r # f /\ r # l
    <2>1. Tile(t) /\ f # l
      BY HalvesApart, LanesDiffer
    <2>2. \A r : Slot(r) => r # f /\ r # l
      BY SlotIs DEF Forth, Back
    <2>3. f \notin t /\ l \notin t
      BY <2>1 DEF Tile, Forth, Back
    <2>4. \A y : y \in t \/ y = f => Owns(c, "MTE2", y)
      BY DEF Owing
    <2>5. s \notin t
      BY <2>1 DEF Tile
    <2>. HIDE DEF t, f, l
    <2>. QED  BY <2>1, <2>2, <2>3, <2>4, <2>5
  <1>. HIDE DEF ins, t, f, l, c3
  <1>6. \A y : y \in Footprint(ins) <=> y \in t \/ y = s
    BY <1>3 DEF Footprint
  <1>7. Free(c3, s) /\ Owns(c3, "MTE3", s)
    <2>1. Free(c3, s)
      BY <1>2, <1>5 DEF Forwarded, Kept
    <2>. QED  BY <2>1 DEF Free, Owns
  <1>8. AfterOp(c3, ins, c4)
    <2>1. \A k \in DOMAIN ins.srcs : \A x \in ins.srcs[k] : Filled(c3, x)
      BY <1>2, <1>3 DEF Forwarded, Holds
    <2>2. \A y \in Footprint(ins) : Owns(c3, "MTE3", y)
      BY <1>2, <1>5, <1>6, <1>7 DEF Forwarded
    <2>. QED  BY <1>2, <1>3, <2>1, <2>2, PipesAre, OpRule DEF Forwarded
  <1>9. Yielded(c4, s, Stored(Loaded(s)))
    <2>1. t # {}
      BY <1>5 DEF Tile
    <2>4. Holds(c3, t, Loaded(s))
      BY <1>2 DEF Forwarded
    <2>5. Holds(c4, ins.dst, Term(ins.tag, <<Loaded(s)>>))
      <3>. HIDE DEF c4
      <3>. QED  BY <1>3, <1>8, <2>1, <2>4, OpLeaves
    <2>2. Holds(c4, {s}, Stored(Loaded(s)))
      BY <1>3, <2>5 DEF Stored
    <2>3. Yielded(c4, s, Mem(c4, s))
      BY <1>3, <1>7, <1>8 DEF AfterOp
    <2>. QED  BY <2>2, <2>3 DEF Holds
  <1>. HIDE DEF c4
  <1>10. /\ Sound(c4) /\ \A m : SameEvents(c3, c4, m)
         /\ \A y : Owns(c3, "MTE3", y) => Owns(c4, "MTE3", y)
         /\ Owns(c4, "MTE3", s)
         /\ \A y : y \notin t /\ y # s => Kept(c3, c4, y) /\ \A m : Passed(c3, m, y) => Passed(c4, m, y)
    BY <1>3, <1>6, <1>8, PipesAre DEF AfterOp, Kept
  <1>11. Owns(c, "MTE2", l)
    BY DEF Owing, l
  <1>12. AfterSet(c4, "MTE3", l, c5)
    <2>1. Owns(c4, "MTE3", l)
      BY <1>2, <1>10, <1>11 DEF Forwarded
    <2>2. Even(c, l)
      <3>1. \A e \in P : l # Back(e)
        BY LanesDiffer DEF l, Owing
      <3>. QED  BY <3>1 DEF Owing
    <2>3. Even(c4, l)
      BY <1>2, <1>5, <1>10, <2>2 DEF Forwarded, SameEvents
    <2>4. Room(c4, "MTE3", l)
      BY <2>1, PipesAre DEF Room
    <2>. QED  BY <1>4, <1>10, <2>3, <2>4, PipesAre, SetRule
  <1>. HIDE DEF c5
  <1>13. \A y : Owns(c, "MTE2", y) => Passed(c5, l, y)
    BY <1>2, <1>10, <1>12, PipesAre DEF Forwarded, AfterSet
  <1>14. Passed(c5, l, s)
    BY <1>10, <1>12, PipesAre DEF AfterSet
  <1>15. \A y : y \notin t /\ y # s /\ y # f => Kept(c, c5, y)
    <2>1. \A y : Kept(c4, c5, y)
      BY <1>12 DEF AfterSet, Kept
    <2>. QED  BY <1>2, <1>10, <2>1, KeptOn DEF Forwarded
  <1>16. ASSUME NEW y, y \notin t, y # s, y # f, NEW e \in P, Passed(c, Back(e), y) PROVE Passed(c5, Back(e), y)
    <2>1. Back(e) # f /\ Back(e) # l
      BY LanesDiffer DEF f, l, Owing
    <2>2. Passed(c3, Back(e), y)
      BY <1>2, <1>16, <2>1 DEF Forwarded
    <2>3. Passed(c4, Back(e), y)
      BY <1>10, <1>16, <2>2
    <2>. QED  BY <1>12, <2>1, <2>3 DEF AfterSet
  <1>17. ASSUME NEW m, \A e \in P \union {b} : m # Back(e) PROVE Even(c5, m)
    <2>1. m # l /\ Even(c, m)
      BY <1>17 DEF Owing, l
    <2>2. Even(c3, m)
      BY <1>2, <2>1 DEF Forwarded, SameEvents
    <2>. QED  BY <1>10, <1>12, <2>1, <2>2 DEF AfterSet, SameEvents
  <1>18. ASSUME NEW e \in P \union {b} PROVE Pending(c5, Back(e))
    <2>1. CASE e = b
      BY <1>12, <2>1 DEF AfterSet, l
    <2>2. CASE e # b
      <3>1. Back(e) # f /\ Back(e) # l /\ Pending(c, Back(e))
        BY <1>18, <2>2, LanesDiffer DEF f, l, Owing
      <3>2. Pending(c3, Back(e))
        BY <1>2, <3>1 DEF Forwarded, SameEvents
      <3>. QED  BY <1>10, <1>12, <3>1, <3>2 DEF AfterSet, SameEvents
    <2>. QED  BY <2>1, <2>2
  <1>19. ASSUME NEW e \in {0, 1} PROVE Owns(c5, "MTE2", Back(e))
    <2>1. Owns(c, "MTE2", Back(e)) /\ Back(e) # f
      BY LanesDiffer DEF Owing, f
    <2>2. Back(e) \notin t /\ Back(e) # s
      BY <1>5, SlotIs DEF Tile, Back
    <2>. QED  BY <1>15, <2>1, <2>2 DEF Kept
  <1>20. ASSUME NEW y PROVE Owns(c5, "MTE2", y) \/ \E e \in P \union {b} : Passed(c5, Back(e), y)
    <2>1. CASE y \in t \/ y = f
      <3>1. Passed(c5, Back(b), y)
        BY <1>5, <1>13, <2>1 DEF l
      <3>. QED  BY <3>1
    <2>2. CASE y = s
      BY <1>14, <2>2 DEF l
    <2>3. CASE y \notin t /\ y # f /\ y # s
      <3>1. CASE Owns(c, "MTE2", y)
        BY <1>15, <2>3, <3>1 DEF Kept
      <3>2. ASSUME NEW e \in P, Passed(c, Back(e), y) PROVE Passed(c5, Back(e), y)
        BY <1>16, <2>3, <3>2
      <3>. QED  BY <3>1, <3>2 DEF Owing
    <2>. QED  BY <2>1, <2>2, <2>3
  <1>21. ASSUME NEW e \in {0, 1}, NEW y, y \in Half(w, e) \/ y = Forth(e)
         PROVE  Owns(c5, "MTE2", y) \/ (e \in P \union {b} /\ Passed(c5, Back(e), y))
    <2>1. CASE e = b
      <3>1. Passed(c5, Back(b), y)
        BY <1>5, <1>13, <1>21, <2>1 DEF l, t, f
      <3>. QED  BY <2>1, <3>1
    <2>2. CASE e # b
      <3>1. Tile(Half(w, e)) /\ Forth(e) # f /\ \A z \in Half(w, e) : z \notin t
        BY <2>2, HalvesApart, LanesDiffer DEF t, f
      <3>2. y \notin t /\ y # f /\ y # s
        <4>1. CASE y \in Half(w, e)
          BY <3>1, <4>1 DEF Tile, f, Forth
        <4>2. CASE y = Forth(e)
          BY <1>5, <3>1, <4>2, SlotIs DEF Tile, Forth
        <4>. QED  BY <1>21, <4>1, <4>2
      <3>3. CASE Owns(c, "MTE2", y)
        BY <1>15, <3>2, <3>3 DEF Kept
      <3>4. CASE e \in P /\ Passed(c, Back(e), y)
        BY <1>16, <3>2, <3>4
      <3>. QED  BY <1>21, <3>3, <3>4 DEF Owing
    <2>. QED  BY <2>1, <2>2
  <1>22. Sound(c5)
    BY <1>12 DEF AfterSet
  <1>23. Owing(c5, w, P \union {b})
    BY <1>17, <1>18, <1>19, <1>20, <1>21, <1>22 DEF Owing
  <1>24. Yielded(c5, s, Stored(Loaded(s)))
    BY <1>9, <1>12 DEF AfterSet, SameAt
  <1>25. ASSUME NEW r, Slot(r), r # s PROVE Kept(c, c5, r)
    BY <1>5, <1>15, <1>25 DEF Tile
  <1>. QED  BY <1>1, <1>23, <1>24, <1>25 DEF Borrowed

\* The buffers whose stores are not waited for after k units.
Open(k) == {b \in {0, 1} : b < k}

\* Which buffers are in use when unit k begins and when it ends.
LEMMA OpenBuffers ==
    ASSUME NEW k \in Nat
    PROVE  /\ k % 2 \in {0, 1} /\ Open(0) = {} /\ Open(1) = {0}
           /\ k < 2 => k % 2 \notin Open(k) /\ Open(k) \union {k % 2} = Open(k + 1)
           /\ k >= 2 => k % 2 \in Open(k) /\ (Open(k) \ {k % 2}) \union {k % 2} = Open(k + 1)
           /\ k >= 2 => (Open(k) \ {(k - 1) % 2}) \ {(k - 2) % 2} = {} /\ (k - 1) % 2 \in Open(k)
                        /\ (k - 2) % 2 \in Open(k) \ {(k - 1) % 2}
  <1>1. k % 2 \in {0, 1}
    OBVIOUS
  <1>2. Open(0) = {} /\ Open(1) = {0}
    BY DEF Open
  <1>3. k < 2 => k % 2 = k /\ (k = 0 \/ k = 1)
    OBVIOUS
  <1>4. k >= 2 => Open(k) = {0, 1} /\ Open(k + 1) = {0, 1}
    BY DEF Open
  <1>5. Open(2) = {0, 1}
    BY DEF Open
  <1>6. k >= 2 => \/ (k - 1) % 2 = 0 /\ (k - 2) % 2 = 1
                  \/ (k - 1) % 2 = 1 /\ (k - 2) % 2 = 0
    OBVIOUS
  <1>. QED  BY <1>1, <1>2, <1>3, <1>4, <1>5, <1>6

\* A unit of the double buffer, after a wait if its buffer is in use.
LEMMA NdChunkDone ==
    ASSUME 1 <= MaxPosted, NEW w \in Nat \ {0}, NEW x, x \notin {"ub", "scalar"}, NEW k \in Nat,
           NEW c, Owing(c, w, Open(k)), Free(c, <<x, k>>), NEW d, d = c \o NdChunk(x, k, w)
    PROVE  /\ Text(NdChunk(x, k, w)) /\ Owing(d, w, Open(k + 1)) /\ Yielded(d, <<x, k>>, Stored(Loaded(<<x, k>>)))
           /\ \A r : Slot(r) /\ r # <<x, k>> => Kept(c, d, r)
  <1>. DEFINE b == k % 2
              s == <<x, k>>
              h == HalfChunk(s, w, b)
  <1>1. NdChunk(x, k, w) = NdReload(k) \o h
    BY DEF NdChunk, HalfChunk, Half
  <1>2. Text(c) /\ Slot(s) /\ b \in {0, 1}
    BY OpenBuffers DEF Owing, Sound, Slot
  <1>3. CASE k < 2
    <2>. DEFINE P == Open(k)
                e == c \o h
    <2>1. NdReload(k) = <<>> /\ P \in SUBSET {0, 1} /\ b \in {0, 1} /\ b \notin P /\ P \union {b} = Open(k + 1)
      <3>1. P \in SUBSET {0, 1}
        BY DEF Open
      <3>. QED  BY <1>2, <1>3, <3>1, OpenBuffers DEF NdReload
    <2>2. e = c \o HalfChunk(s, w, b) /\ Free(c, s) /\ Owing(c, w, P)
      OBVIOUS
    <2>. HIDE DEF b, s, P, e
    <2>3. Text(HalfChunk(s, w, b)) /\ Borrowed(c, s, w, P, b, e)
      BY <1>2, <2>1, <2>2, Borrows
    <2>. HIDE DEF h
    <2>4. NdChunk(x, k, w) = h /\ d = e
      <3>1. Text(h)
        BY <2>3 DEF h
      <3>. QED  BY <1>1, <2>1, <3>1, Joined DEF e
    <2>. QED  BY <2>1, <2>3, <2>4 DEF h, s, Borrowed
  <1>4. CASE k >= 2
    <2>. DEFINE i1 == wait_flag("MTE3", "MTE2", 2 + b)
                e  == Append(c, i1)
                Q  == Open(k)
                P  == Q \ {b}
                g  == e \o h
    <2>1. NdReload(k) = <<i1>> /\ Q \in SUBSET {0, 1} /\ b \in Q /\ P \union {b} = Open(k + 1)
      <3>1. Q \in SUBSET {0, 1}
        BY DEF Open
      <3>. QED  BY <1>2, <1>4, <3>1, OpenBuffers DEF NdReload
    <2>2. P \in SUBSET {0, 1} /\ b \in {0, 1} /\ b \notin P
      BY <2>1
    <2>3. Owing(c, w, Q) /\ Free(c, s) /\ e = Append(c, wait_flag("MTE3", "MTE2", 2 + b))
      OBVIOUS
    <2>. HIDE DEF b, s, Q, e
    <2>4. Owing(e, w, P) /\ \A r : Slot(r) => Kept(c, e, r)
      <3>1. PaidBack(c, w, Q, b, e)
        BY <2>1, <2>3, PaysBack
      <3>. QED  BY <3>1 DEF PaidBack
    <2>. HIDE DEF P
    <2>5. Free(e, s)
      BY <1>2, <2>3, <2>4 DEF Kept
    <2>6. Text(h) /\ Borrowed(e, s, w, P, b, g)
      <3>1. g = e \o HalfChunk(s, w, b)
        OBVIOUS
      <3>. HIDE DEF g
      <3>. QED  BY <1>2, <2>2, <2>4, <2>5, <3>1, Borrows
    <2>7. d = g /\ Text(NdChunk(x, k, w))
      <3>. HIDE DEF h
      <3>1. c \o (<<i1>> \o h) = Append(c, i1) \o h /\ Text(<<i1>>)
        <4>1. Text(h) /\ Text(c)
          BY <1>2, <2>6
        <4>2. Text(<<i1>>) /\ c \o <<i1>> = Append(c, i1)
          <5>. HIDE DEF i1
          <5>. QED  BY <4>1, OneByOne
        <4>. DEFINE q == <<i1>>
        <4>3. Text(q)
          BY <4>2
        <4>. HIDE DEF q
        <4>4. c \o (q \o h) = (c \o q) \o h
          BY <4>1, <4>3, Joined
        <4>. QED  BY <4>2, <4>4 DEF q
      <3>2. Text(<<i1>> \o h)
        <4>. HIDE DEF i1
        <4>. QED  BY <2>6, <3>1, Joined
      <3>. QED  BY <1>1, <2>1, <3>1, <3>2 DEF e
    <2>8. \A r : Slot(r) /\ r # s => Kept(c, g, r)
      BY <2>4, <2>6, KeptOn DEF Borrowed
    <2>. HIDE DEF g
    <2>. QED  BY <2>1, <2>6, <2>7, <2>8 DEF s, Borrowed
  <1>. QED  BY <1>3, <1>4

\* Slots that are kept stay done.
LEMMA SlotsStay ==
    ASSUME NEW n \in Nat, NEW x, x \notin {"ub", "scalar"}, NEW v, NEW c, NEW b, NEW d,
           SlotsDone(c, x, v, n, n, b), \A r : Slot(r) => Kept(b, d, r)
    PROVE  SlotsDone(c, x, v, n, n, d)
  <1>1. \A i : Slot(<<x, i>>)
    BY DEF Slot
  <1>2. ASSUME NEW i \in 0..(n - 1) PROVE Yielded(d, <<x, i>>, v[i])
    <2>1. Yielded(b, <<x, i>>, v[i]) /\ Kept(b, d, <<x, i>>)
      BY <1>1 DEF SlotsDone
    <2>. QED  BY <2>1 DEF Kept, SameAt
  <1>3. \A r : Slot(r) /\ (\A i \in 0..(n - 1) : r # <<x, i>>) => Kept(c, d, r)
    BY KeptOn DEF SlotsDone
  <1>4. \A i \in n..(n - 1) : FALSE
    OBVIOUS
  <1>. QED  BY <1>2, <1>3, <1>4 DEF SlotsDone

\* The last stores are waited for.
LEMMA NdDrainDone ==
    ASSUME NEW w, NEW n \in Nat, NEW c, Owing(c, w, Open(n)), NEW d, d = c \o NdDrain(n)
    PROVE  Text(NdDrain(n)) /\ Owing(d, w, {}) /\ \A r : Slot(r) => Kept(c, d, r)
  <1>1. Text(c) /\ Text(<<>>) /\ c \o <<>> = c
    BY Joined, EmptyText DEF Owing, Sound
  <1>2. CASE n = 0
    <2>1. NdDrain(n) = <<>>
      <3>1. NdDrain(n) = <<>> \o <<>>
        BY <1>2 DEF NdDrain
      <3>. QED  BY <1>1, <3>1, Joined
    <2>2. d = c
      BY <1>1, <2>1
    <2>3. Owing(c, w, {})
      <3>1. Open(0) = {}
        BY OpenBuffers
      <3>. QED  BY <1>2, <3>1
    <2>. QED  BY <1>1, <2>1, <2>2, <2>3, KeptSame
  <1>. DEFINE Q  == Open(n)
              a1 == (n - 1) % 2
              a2 == (n - 2) % 2
              i1 == wait_flag("MTE3", "MTE2", 2 + a1)
              i2 == wait_flag("MTE3", "MTE2", 2 + a2)
              c1 == Append(c, i1)
              c2 == Append(c1, i2)
              P  == Q \ {a1}
  <1>3. Q \subseteq {0, 1}
    BY DEF Open
  <1>4. /\ NdDrain(n) = (IF n >= 1 THEN <<i1>> ELSE <<>>) \o (IF n >= 2 THEN <<i2>> ELSE <<>>)
        /\ c1 = Append(c, wait_flag("MTE3", "MTE2", 2 + a1))
        /\ c2 = Append(c1, wait_flag("MTE3", "MTE2", 2 + a2)) /\ Owing(c, w, Q)
    BY DEF NdDrain
  <1>5. n = 1 => a1 \in Q /\ P = {}
    BY OpenBuffers
  <1>6. n >= 2 => a1 \in Q /\ a2 \in P /\ P \ {a2} = {}
    BY OpenBuffers
  <1>. HIDE DEF Q, a1, a2
  <1>7. a1 \in Q => Owing(c1, w, P) /\ \A r : Slot(r) => Kept(c, c1, r)
    <2>1. a1 \in Q => PaidBack(c, w, Q, a1, c1)
      <3>. HIDE DEF c1
      <3>. QED  BY <1>4, PaysBack
    <2>. QED  BY <2>1 DEF PaidBack
  <1>8. a2 \in P /\ Owing(c1, w, P) => Owing(c2, w, P \ {a2}) /\ \A r : Slot(r) => Kept(c1, c2, r)
    <2>1. a2 \in P /\ Owing(c1, w, P) => PaidBack(c1, w, P, a2, c2)
      <3>. HIDE DEF c2, c1, P
      <3>. QED  BY <1>4, PaysBack
    <2>. QED  BY <2>1 DEF PaidBack
  <1>. HIDE DEF i1, i2, P
  <1>9. Text(<<i1>>) /\ c \o <<i1>> = c1 /\ Text(c1)
    BY <1>1, Spelled, OneByOne
  <1>10. Text(<<i2>>) /\ c1 \o <<i2>> = c2
    <2>. HIDE DEF c1
    <2>. QED  BY <1>9, OneByOne DEF c2
  <1>11. CASE n = 1
    <2>1. NdDrain(n) = <<i1>>
      <3>1. NdDrain(n) = <<i1>> \o <<>>
        BY <1>4, <1>11
      <3>. QED  BY <1>9, <3>1, Joined
    <2>. HIDE DEF c1
    <2>. QED  BY <1>5, <1>7, <1>9, <1>11, <2>1
  <1>12. CASE n >= 2
    <2>1. NdDrain(n) = <<i1>> \o <<i2>>
      BY <1>4, <1>12
    <2>2. d = c2 /\ Text(NdDrain(n))
      <3>1. c \o (<<i1>> \o <<i2>>) = (c \o <<i1>>) \o <<i2>> /\ Text(<<i1>> \o <<i2>>)
        BY <1>1, <1>9, <1>10, Joined
      <3>. HIDE DEF c1, c2
      <3>. QED  BY <1>9, <1>10, <2>1, <3>1
    <2>3. Owing(c2, w, {}) /\ \A r : Slot(r) => Kept(c, c2, r)
      <3>. HIDE DEF c1, c2
      <3>. QED  BY <1>6, <1>7, <1>8, <1>12, KeptOn
    <2>. QED  BY <2>2, <2>3
  <1>. QED  BY <1>2, <1>11, <1>12

\* The units of the double buffer, up to unit k.
Turning(c, x, v, n, w, k, d) == Owing(d, w, Open(k)) /\ SlotsDone(c, x, v, n, k, d)

\* One unit of the double buffer more.
LEMMA NextTurn ==
    ASSUME 1 <= MaxPosted, NEW w \in Nat \ {0}, NEW x, x \notin {"ub", "scalar"}, NEW n \in Nat, NEW k \in 1..n,
           NEW v, v[k - 1] = Stored(Loaded(<<x, k - 1>>)), NEW c, NEW b, Turning(c, x, v, n, w, k - 1, b),
           NEW d, d = b \o NdChunk(x, k - 1, w)
    PROVE  Turning(c, x, v, n, w, k, d)
  <1>1. k - 1 \in Nat /\ (k - 1) + 1 = k /\ k - 1 \in (k - 1)..(n - 1)
    OBVIOUS
  <1>2. Owing(b, w, Open(k - 1)) /\ Free(b, <<x, k - 1>>) /\ SlotsDone(c, x, v, n, k - 1, b)
    BY <1>1 DEF Turning, SlotsDone
  <1>3. /\ Owing(d, w, Open((k - 1) + 1)) /\ Yielded(d, <<x, k - 1>>, Stored(Loaded(<<x, k - 1>>)))
        /\ \A r : Slot(r) /\ r # <<x, k - 1>> => Kept(b, d, r)
    BY <1>1, <1>2, NdChunkDone
  <1>4. SlotsDone(c, x, v, n, k, d)
    BY <1>2, <1>3, NextSlot
  <1>. QED  BY <1>1, <1>3, <1>4 DEF Turning

\* The copy with a double buffer serves, whatever the number of its chunks.
LEMMA NdServes ==
    ASSUME 1 <= MaxPosted, NEW n \in Nat, NEW w \in Nat \ {0}, NEW x, x \notin {"ub", "scalar"}
    PROVE  Serves(NdCopy(x, n, w)) /\ \A s \in DOMAIN NdCopy(x, n, w).right : Slot(s)
  <1>. DEFINE f == [i \in 1..n |-> NdChunk(x, i - 1, w)]
              right == CopiedRight(x, n)
              v == [i \in 0..(n - 1) |-> Stored(Loaded(<<x, i>>))]
              drain == NdDrain(n)
  <1>1. NdCopy(x, n, w).code = FlattenSeq(f) \o drain /\ NdCopy(x, n, w).right = right
    <2>1. (n - 1) - 0 + 1 = n /\ \A i \in 1..n : 0 + i - 1 = i - 1
      OBVIOUS
    <2>2. [i \in 1..((n - 1) - 0 + 1) |-> NdChunk(x, 0 + i - 1, w)] = f
      BY <2>1
    <2>3. NdCopy(x, n, w).code = FlattenSeq([i \in 1..((n - 1) - 0 + 1) |-> NdChunk(x, 0 + i - 1, w)]) \o drain
      BY DEF NdCopy, Loop
    <2>4. NdCopy(x, n, w).right = right
      BY DEF NdCopy
    <2>. HIDE DEF f, drain, right
    <2>. QED  BY <2>2, <2>3, <2>4
  <1>2. DOMAIN right = {x} \X (0..(n - 1)) /\ \A i \in 0..(n - 1) : v[i] = right[<<x, i>>]
    BY DEF CopiedRight
  <1>3. \A k \in 1..n : f[k] = NdChunk(x, k - 1, w) /\ v[k - 1] = Stored(Loaded(<<x, k - 1>>))
    OBVIOUS
  <1>4. Text(f) /\ Len(f) = n
    BY ListIs
  <1>5. \A s \in DOMAIN right : Slot(s)
    BY <1>2 DEF Slot
  <1>. HIDE DEF f, right, v, drain
  <1>6. \A k \in 1..n : Text(f[k])
    <2>. SUFFICES ASSUME NEW k \in 1..n PROVE Text(NdChunk(x, k - 1, w))
      BY <1>3
    <2>. DEFINE i == k - 1
    <2>1. i \in Nat
      OBVIOUS
    <2>. HIDE DEF i
    <2>2. NdChunk(x, i, w) = NdReload(i) \o HalfChunk(<<x, i>>, w, i % 2)
      BY DEF NdChunk, HalfChunk, Half
    <2>3. Text(NdReload(i))
      <3>. DEFINE j == wait_flag("MTE3", "MTE2", 2 + (i % 2))
      <3>1. NdReload(i) = <<>> \/ NdReload(i) = <<j>>
        BY DEF NdReload
      <3>. HIDE DEF j
      <3>. QED  BY <3>1, EmptyText, OneByOne
    <2>4. Text(HalfChunk(<<x, i>>, w, i % 2))
      <3>. DEFINE b  == i % 2
                  i1 == TLOAD(Half(w, b), <<x, i>>)
                  i2 == set_flag("MTE2", "MTE3", b)
                  i3 == wait_flag("MTE2", "MTE3", b)
                  i4 == TSTORE("MTE3", <<x, i>>, Half(w, b))
                  i5 == set_flag("MTE3", "MTE2", 2 + b)
      <3>1. HalfChunk(<<x, i>>, w, b) = <<i1, i2, i3, i4, i5>>
        BY DEF HalfChunk
      <3>. HIDE DEF i1, i2, i3, i4, i5
      <3>2. Text(<<i1, i2, i3, i4, i5>>)
        BY EmptyText, OneByOne
      <3>. QED  BY <3>1, <3>2
    <2>. DEFINE r == NdReload(i)
                h == HalfChunk(<<x, i>>, w, i % 2)
    <2>5. Text(r) /\ Text(h) /\ NdChunk(x, i, w) = r \o h
      BY <2>2, <2>3, <2>4
    <2>. HIDE DEF r, h
    <2>6. Text(r \o h)
      BY <2>5, Joined
    <2>7. Text(NdChunk(x, i, w))
      BY <2>5, <2>6
    <2>. QED  BY <2>7 DEF i
  <1>7. ASSUME NEW c, Ready4(c, right) PROVE Text(FlattenSeq(f)) /\ Turning(c, x, v, n, w, n, c \o FlattenSeq(f))
    <2>1. Text(c) /\ Owing(c, w, {})
      BY <1>7, NothingOwed DEF Ready4, Quiet, Sound
    <2>2. PICK g : Text(FlattenSeq(f)) /\ Runs(c, f, n, g)
      BY <1>4, <1>6, <2>1, Unrolled
    <2>. DEFINE S == {k \in 0..n : Turning(c, x, v, n, w, k, g[k])}
    <2>3. 0 \in S
      <3>1. g[0] = c /\ Open(0) = {}
        BY <2>2, OpenBuffers DEF Runs
      <3>2. \A i \in 0..(n - 1) : Free(c, <<x, i>>)
        BY <1>2, <1>7 DEF Ready4
      <3>3. SlotsDone(c, x, v, n, 0, c)
        BY <3>2, KeptSame DEF SlotsDone
      <3>4. Turning(c, x, v, n, w, 0, g[0])
        BY <2>1, <3>1, <3>3 DEF Turning
      <3>. QED  BY <3>4
    <2>4. ASSUME NEW k \in 0..(n - 1), k \in S PROVE k + 1 \in S
      <3>1. k + 1 \in 1..n /\ (k + 1) - 1 = k
        OBVIOUS
      <3>2. g[k + 1] = g[k] \o NdChunk(x, (k + 1) - 1, w)
        BY <1>3, <2>2, <3>1 DEF Runs
      <3>3. Turning(c, x, v, n, w, (k + 1) - 1, g[k])
        BY <2>4, <3>1
      <3>4. Turning(c, x, v, n, w, k + 1, g[k + 1])
        BY <1>3, <3>1, <3>2, <3>3, NextTurn
      <3>. QED  BY <3>4
    <2>5. n \in S
      <3>1. 0..n \subseteq S
        <4>. HIDE DEF S
        <4>. QED  BY <2>3, <2>4, Induction
      <3>2. n \in 0..n
        OBVIOUS
      <3>. HIDE DEF S
      <3>. QED  BY <3>1, <3>2
    <2>. QED  BY <2>2, <2>5 DEF Runs
  <1>8. ASSUME NEW c, Ready4(c, right) PROVE Text(FlattenSeq(f) \o drain) /\ Served(c, right, c \o (FlattenSeq(f) \o drain))
    <2>. DEFINE e == c \o FlattenSeq(f)
                d == e \o drain
    <2>1. Text(FlattenSeq(f)) /\ Turning(c, x, v, n, w, n, e)
      BY <1>8, <1>7
    <2>. HIDE DEF e
    <2>2. Text(drain) /\ Owing(d, w, {}) /\ \A r : Slot(r) => Kept(e, d, r)
      BY <2>1, NdDrainDone DEF Turning, drain
    <2>. HIDE DEF d
    <2>3. Quiet(d) /\ Settled(d, "MTE2")
      BY <2>2, NothingOwed
    <2>4. SlotsDone(c, x, v, n, n, d)
      BY <2>1, <2>2, SlotsStay DEF Turning
    <2>5. Served(c, right, d)
      BY <1>2, <2>3, <2>4, AllServed
    <2>6. c \o (FlattenSeq(f) \o drain) = d /\ Text(FlattenSeq(f) \o drain)
      <3>1. Text(c)
        BY <1>8 DEF Ready4, Quiet, Sound
      <3>. QED  BY <2>1, <2>2, <3>1, Joined DEF d, e
    <2>. QED  BY <2>5, <2>6
  <1>9. Text(FlattenSeq(f) \o drain)
    <2>1. Ready4(<<>>, right)
      BY <1>5, EmptyText DEF Ready4, Settled
    <2>. QED  BY <1>8, <2>1
  <1>. QED  BY <1>1, <1>5, <1>8, <1>9 DEF Serves

-----------------------------------------------------------------------------
(* The blocked transpose: nobody waits for everything *)

\* Between two blocks, MTE2 or V may touch any place, and MTE2 the tile it
\* loads into and its lane to V: what the other units have done comes with the
\* next block.
Between(d, w) ==
    /\ Quiet(d)
    /\ \A y : Owns(d, "MTE2", y) \/ (Owns(d, "V", y) /\ Owns(d, "V+", y))
    /\ \A y : y \in UB(0, w) \/ y = <<"MTE2", "V", 0>> => Owns(d, "MTE2", y)

\* The two events that go back, crosswise, after a store: V gives MTE2 all but
\* what the store is about, and MTE3 gives V everything.
LEMMA TurnsBack ==
    ASSUME 1 <= MaxPosted, NEW w \in Nat \ {0}, NEW e, Quiet(e), Settled(e, "MTE3"), NEW s, Slot(s),
           \A y : y # s /\ y \notin UB(w, w) /\ y # <<"V", "MTE3", 0>> => Owns(e, "V+", y),
           NEW d, d = e \o Blocked2dWar
    PROVE  Text(Blocked2dWar) /\ Between(d, w) /\ \A r : Slot(r) => Kept(e, d, r)
  <1>. DEFINE l0 == <<"MTE2", "V", 0>>
              l1 == <<"V", "MTE3", 0>>
              l2 == <<"V", "MTE2", 1>>
              l3 == <<"MTE3", "V", 2>>
              i1 == set_flag("V", "MTE2", 1)
              i2 == set_flag("MTE3", "V", 2)
              i3 == wait_flag("V", "MTE2", 1)
              i4 == wait_flag("MTE3", "V", 2)
              e1 == Append(e, i1)
              e2 == Append(e1, i2)
              e3 == Append(e2, i3)
              e4 == Append(e3, i4)
              bad == {s, l1} \union UB(w, w)
  <1>1. Text(e)
    BY DEF Quiet, Sound
  <1>2. Text(Blocked2dWar) /\ d = e4
    <2>1. Blocked2dWar = <<i1, i2, i3, i4>>
      BY DEF Blocked2dWar
    <2>2. \A a, b, f, g : e \o <<a, b, f, g>> = Append(Append(Append(Append(e, a), b), f), g) /\ Text(<<a, b, f, g>>)
      BY <1>1, OneByOne, ZenonT(30)
    <2>. HIDE DEF i1, i2, i3, i4
    <2>3. e \o <<i1, i2, i3, i4>> = e4 /\ Text(<<i1, i2, i3, i4>>)
      BY <2>2
    <2>. HIDE DEF e4
    <2>. QED  BY <2>1, <2>3
  <1>3. /\ l0 # l1 /\ l0 # l2 /\ l0 # l3 /\ l1 # l2 /\ l1 # l3 /\ l2 # l3
        /\ \A r : Slot(r) => r # l0 /\ r # l1 /\ r # l2 /\ r # l3
        /\ l0 \notin bad /\ l2 \notin bad /\ l3 \notin bad
        /\ \A y \in UB(0, w) : y \notin bad /\ y # l2 /\ y # l3
    <2>1. \A r : Slot(r) => r # l0 /\ r # l1 /\ r # l2 /\ r # l3
      BY SlotIs
    <2>2. \A y \in UB(w, w) \union UB(0, w) : y # l0 /\ y # l1 /\ y # l2 /\ y # l3
      BY TileIs
    <2>3. \A y \in UB(0, w) : y # s
      BY SlotIs
    <2>4. \A y \in UB(0, w) : y \notin UB(w, w)
      BY TilesApart
    <2>. QED  BY <2>1, <2>2, <2>3, <2>4
  <1>4. \A y : y \notin bad => Owns(e, "V+", y)
    OBVIOUS
  <1>5. /\ "V" \in Pipe /\ "MTE2" \in Pipe /\ "MTE3" \in Pipe
        /\ Whole("V") = "V+" /\ Whole("MTE2") = "MTE2" /\ Whole("MTE3") = "MTE3"
    BY PipesAre
  <1>. DEFINE Good(y) == y \notin bad
  <1>6. AfterSet(e, "V", l2, e1)
    <2>1. Even(e, l2) /\ Room(e, "V", l2) /\ Sound(e)
      BY <1>3, <1>4, <1>5 DEF Quiet, Room
    <2>. HIDE DEF e1, bad
    <2>. QED  BY <1>5, <2>1, SetRule DEF e1
  <1>7. AfterSet(e1, "MTE3", l3, e2)
    <2>1. Even(e1, l3) /\ Room(e1, "MTE3", l3) /\ Sound(e1)
      BY <1>3, <1>5, <1>6 DEF Quiet, Room, AfterSet, SameEvents, Settled
    <2>. HIDE DEF e1, e2, bad
    <2>. QED  BY <1>5, <2>1, SetRule DEF e2
  <1>8. AfterWait(e2, "MTE2", l2, e3)
    <2>1. Pending(e2, l2) /\ Sound(e2)
      BY <1>3, <1>6, <1>7 DEF AfterSet, SameEvents
    <2>. HIDE DEF e2, e3, bad
    <2>. QED  BY <1>5, <2>1, WaitRule DEF e3
  <1>9. AfterWait(e3, "V", l3, e4)
    <2>1. Pending(e3, l3) /\ Sound(e3)
      BY <1>3, <1>7, <1>8 DEF AfterSet, AfterWait, SameEvents
    <2>. HIDE DEF e3, e4, bad
    <2>. QED  BY <1>5, <2>1, WaitRule DEF e4
  <1>. HIDE DEF e1, e2, e3, e4, l0, l1, l2, l3
  <1>10. Quiet(e4)
    <2>1. ASSUME NEW m PROVE Even(e4, m)
      BY <1>6, <1>7, <1>8, <1>9 DEF AfterSet, AfterWait, SameEvents, Quiet
    <2>. QED  BY <1>9, <2>1 DEF AfterWait, Quiet
  <1>11. ASSUME NEW y, y \notin bad PROVE Owns(e3, "MTE2", y) /\ (y # l3 => Owns(e4, "MTE2", y))
    <2>1. Passed(e1, l2, y)
      BY <1>4, <1>5, <1>6, <1>11 DEF AfterSet
    <2>2. Passed(e2, l2, y)
      BY <1>3, <1>7, <2>1 DEF AfterSet
    <2>3. Owns(e3, "MTE2", y)
      BY <1>8, <2>2 DEF AfterWait
    <2>. QED  BY <1>9, <2>3 DEF AfterWait
  <1>12. ASSUME NEW y, y # l2 PROVE Owns(e4, "V", y) /\ Owns(e4, "V+", y)
    <2>1. Owns(e1, "MTE3", y)
      BY <1>6 DEF AfterSet, Settled
    <2>2. Passed(e2, l3, y)
      BY <1>5, <1>7, <2>1 DEF AfterSet
    <2>3. Passed(e3, l3, y)
      BY <1>8, <1>12, <2>2 DEF AfterWait
    <2>. QED  BY <1>5, <1>9, <2>3 DEF AfterWait
  <1>13. ASSUME NEW r, Slot(r) PROVE Kept(e, e4, r)
    <2>1. r # l2 /\ r # l3
      BY <1>3, <1>13
    <2>2. SameAt(e, e4, r)
      BY <1>6, <1>7, <1>8, <1>9 DEF AfterSet, AfterWait, SameAt
    <2>3. Free(e, r) => Free(e4, r)
      BY <1>6, <1>7, <1>8, <1>9, <2>1 DEF AfterSet, AfterWait
    <2>4. \A q : Owns(e, q, r) => Owns(e4, q, r)
      BY <1>6, <1>7, <1>8, <1>9, <2>1 DEF AfterSet, AfterWait
    <2>. QED  BY <2>2, <2>3, <2>4 DEF Kept
  <1>14. \A y : Owns(e4, "MTE2", y) \/ (Owns(e4, "V", y) /\ Owns(e4, "V+", y))
    BY <1>3, <1>11, <1>12
  <1>15. \A y : y \in UB(0, w) \/ y = l0 => Owns(e4, "MTE2", y)
    BY <1>3, <1>11
  <1>. QED  BY <1>2, <1>10, <1>13, <1>14, <1>15 DEF Between, l0

\* A block's load handed to V, which may then touch everything.
LEMMA BlockArrives ==
    ASSUME 1 <= MaxPosted, NEW w \in Nat \ {0}, NEW c, Between(c, w), NEW src, NEW d,
           d = Append(Append(Append(c, TLOAD(UB(0, w), src)), set_flag("MTE2", "V", 0)), wait_flag("MTE2", "V", 0))
    PROVE  Arrived(c, d) /\ Holds(d, UB(0, w), Loaded(src))
  <1>. DEFINE t  == UB(0, w)
              l  == <<"MTE2", "V", 0>>
              op == TLOAD(t, src)
              b  == Append(c, op)
              e  == Append(b, set_flag("MTE2", "V", 0))
  <1>1. d = Append(e, wait_flag("MTE2", "V", 0))
    OBVIOUS
  <1>2. Tile(t) /\ l \notin t /\ \A r : Slot(r) => r # l /\ r \notin t
    BY UBTile, TileIs, SlotIs
  <1>3. AfterOp(c, op, b) /\ Holds(b, t, Loaded(src))
    <2>1. op.kind = "op" /\ op.pipe = "MTE2" /\ op.srcs = <<>> /\ op.dst = t /\ op.tag = <<"TLOAD", src>> /\ op.add = FALSE
      BY DEF TLOAD, Op
    <2>2. Footprint(op) = t
      BY <2>1 DEF Footprint
    <2>3. \A x \in t : Owns(c, "MTE2", x)
      BY DEF Between
    <2>6. \A k \in DOMAIN op.srcs : \A x \in op.srcs[k] : Filled(c, x)
      BY <2>1
    <2>. HIDE DEF op, t
    <2>4. AfterOp(c, op, b)
      BY <2>1, <2>2, <2>3, <2>6, PipesAre, OpRule DEF Between, Quiet
    <2>5. Holds(b, t, Term(<<"TLOAD", src>>, <<>>))
      <3>. HIDE DEF b
      <3>. QED  BY <2>1, <2>4, OpLeaves
    <2>. QED  BY <2>4, <2>5 DEF Loaded
  <1>4. /\ Sound(b) /\ \A m : Even(b, m)
        /\ \A y : y \notin t => Kept(c, b, y)
        /\ \A y : Owns(c, "MTE2", y) => Owns(b, "MTE2", y)
    <2>1. op.srcs = <<>> /\ op.dst = t /\ op.pipe = "MTE2"
      BY DEF TLOAD, Op
    <2>. HIDE DEF op, t, b
    <2>2. \A y : y \notin t => Kept(c, b, y)
      BY <1>3, <2>1, OpKeeps
    <2>. QED  BY <1>3, <2>1, <2>2, PipesAre DEF AfterOp, Between, Quiet, SameEvents
  <1>5. \A y : Owns(b, "MTE2", y) \/ (Owns(b, "V", y) /\ Owns(b, "V+", y))
    <2>. HIDE DEF b
    <2>1. \A y \in t : Owns(b, "MTE2", y)
      BY <1>4 DEF Between
    <2>2. \A y : y \notin t => Owns(b, "MTE2", y) \/ (Owns(b, "V", y) /\ Owns(b, "V+", y))
      <3>. HIDE DEF t
      <3>. QED  BY <1>4 DEF Between, Kept
    <2>. HIDE DEF t
    <2>. QED  BY <2>1, <2>2
  <1>6. Owns(b, "MTE2", l)
    <2>. HIDE DEF b
    <2>. QED  BY <1>4 DEF Between
  <1>. HIDE DEF b, op, t
  <1>7. AfterSet(b, "MTE2", l, e)
    <2>1. Even(b, l) /\ Room(b, "MTE2", l)
      BY <1>4, <1>6, PipesAre DEF Room
    <2>. HIDE DEF e
    <2>. QED  BY <1>4, <2>1, PipesAre, SetRule DEF e
  <1>8. AfterWait(e, "V", l, d)
    <2>1. Sound(e) /\ Pending(e, l)
      BY <1>7 DEF AfterSet
    <2>. HIDE DEF e
    <2>. QED  BY <1>1, <2>1, PipesAre, WaitRule
  <1>. HIDE DEF e, l
  <1>9. Quiet(d)
    BY <1>4, <1>7, <1>8 DEF AfterSet, AfterWait, SameEvents, Quiet
  <1>10. ASSUME NEW y PROVE Owns(d, "V", y) /\ Owns(d, "V+", y)
    <2>1. CASE Owns(b, "MTE2", y)
      <3>1. Passed(e, l, y)
        BY <1>7, <2>1, PipesAre DEF AfterSet
      <3>. QED  BY <1>8, <3>1, PipesAre DEF AfterWait
    <2>2. CASE Owns(b, "V", y) /\ Owns(b, "V+", y)
      <3>1. Owns(e, "V", y) /\ Owns(e, "V+", y)
        BY <1>7, <2>2 DEF AfterSet
      <3>. QED  BY <1>8, <3>1, PipesAre DEF AfterWait
    <2>. QED  BY <1>5, <2>1, <2>2
  <1>11. ASSUME NEW y, y # l PROVE Kept(b, d, y)
    BY <1>7, <1>8, <1>11 DEF AfterSet, AfterWait, Kept, SameAt
  <1>12. ASSUME NEW r, Slot(r) PROVE Kept(c, d, r)
    <2>1. Kept(c, b, r) /\ Kept(b, d, r)
      BY <1>2, <1>4, <1>11, <1>12
    <2>. QED  BY <2>1, KeptOn
  <1>13. Holds(d, t, Loaded(src))
    <2>1. \A y \in t : Kept(b, d, y)
      BY <1>2, <1>11
    <2>. QED  BY <1>3, <2>1, HoldsOn
  <1>14. Arrived(c, d)
    BY <1>9, <1>10, <1>12 DEF Arrived, Settled
  <1>. QED  BY <1>13, <1>14 DEF t

\* One block.
BlockValue(s) == Stored(Term(<<"TTRANS">>, <<Loaded(s)>>))
Block(x, i, w) == Transposing(x, i, w) \o Blocked2dWar

\* A block takes the units from between two blocks to between two blocks.
LEMMA BlockDone ==
    ASSUME 1 <= MaxPosted, NEW x, x \notin {"ub", "scalar"}, NEW i, NEW w \in Nat \ {0},
           NEW c, Between(c, w), Free(c, <<x, i>>), NEW d, d = c \o Block(x, i, w)
    PROVE  /\ Text(Block(x, i, w)) /\ Between(d, w) /\ Yielded(d, <<x, i>>, BlockValue(<<x, i>>))
           /\ \A r : Slot(r) /\ r # <<x, i>> => Kept(c, d, r)
  <1>. DEFINE t  == UB(0, w)
              u  == UB(w, w)
              tt == UB(2 * w, w)
              s  == <<x, i>>
              v  == Term(<<"TTRANS">>, <<Loaded(s)>>)
              c1 == Append(Append(Append(c, TLOAD(t, s)), set_flag("MTE2", "V", 0)), wait_flag("MTE2", "V", 0))
              c2 == Append(c1, TTRANS(u, t, tt))
              c3 == Append(Append(Append(c2, set_flag("V", "MTE3", 0)), wait_flag("V", "MTE3", 0)), TSTORE("MTE3", s, u))
              c4 == c3 \o Blocked2dWar
  <1>1. Text(c)
    BY DEF Between, Quiet, Sound
  <1>2. c3 = c \o Transposing(x, i, w) /\ Text(Transposing(x, i, w))
    <2>1. \A a, b, e, f, g, h, k :
             /\ c \o <<a, b, e, f, g, h, k>> = Append(Append(Append(Append(Append(Append(Append(c, a), b), e), f), g), h), k)
             /\ Text(<<a, b, e, f, g, h, k>>)
      BY <1>1, OneByOne, ZenonT(30)
    <2>. DEFINE i1 == TLOAD(t, s)
                i2 == set_flag("MTE2", "V", 0)
                i3 == wait_flag("MTE2", "V", 0)
                i4 == TTRANS(u, t, tt)
                i5 == set_flag("V", "MTE3", 0)
                i6 == wait_flag("V", "MTE3", 0)
                i7 == TSTORE("MTE3", s, u)
    <2>2. Transposing(x, i, w) = <<i1, i2, i3, i4, i5, i6, i7>>
      BY DEF Transposing
    <2>3. c3 = Append(Append(Append(Append(Append(Append(Append(c, i1), i2), i3), i4), i5), i6), i7)
      OBVIOUS
    <2>. HIDE DEF i1, i2, i3, i4, i5, i6, i7, c3
    <2>4. /\ c \o <<i1, i2, i3, i4, i5, i6, i7>> = Append(Append(Append(Append(Append(Append(Append(c, i1), i2), i3), i4), i5), i6), i7)
          /\ Text(<<i1, i2, i3, i4, i5, i6, i7>>)
      BY <2>1
    <2>. QED  BY <2>2, <2>3, <2>4, Zenon
  <1>3. Tile(t) /\ Tile(u) /\ Tile(u \union tt) /\ Slot(s) /\ Free(c, s) /\ Tile(tt)
    <2>1. Tile(t) /\ Tile(u) /\ Tile(tt)
      BY UBTile
    <2>. HIDE DEF t, u, tt
    <2>2. Tile(u \union tt)
      BY <2>1 DEF Tile
    <2>. QED  BY <2>1, <2>2 DEF Slot
  <1>. HIDE DEF s, u, tt, v
  <1>4. Arrived(c, c1) /\ Holds(c1, t, Loaded(s))
    BY BlockArrives
  <1>. HIDE DEF t
  <1>5. c2 = Append(c1, Op("V", <<"TTRANS">>, <<t>>, u \union tt))
    BY DEF TTRANS
  <1>. HIDE DEF c1
  <1>6. Worked(c, c1) /\ Usable(c1, t) /\ Usable(c1, u \union tt)
    BY <1>3, <1>4, WorkGoesOn
  <1>. HIDE DEF c2
  <1>7. Worked(c, c2) /\ Holds(c2, u \union tt, v)
    BY <1>4, <1>5, <1>6, Converts DEF v
  <1>8. Holds(c2, u, v)
    BY <1>7 DEF Holds
  <1>9. /\ StoredUnit(c, s, Stored(v), c3)
        /\ \A y : y # s /\ y \notin u /\ y # <<"V", "MTE3", 0>> => Kept(c2, c3, y)
    <2>1. c3 = Append(Append(Append(c2, set_flag("V", "MTE3", 0)), wait_flag("V", "MTE3", 0)), TSTORE("MTE3", s, u))
      OBVIOUS
    <2>. HIDE DEF c3
    <2>2. StoredUnit(c, s, Stored(v), c3) /\ StoreKeeps(c2, u, s, c3)
      BY <1>3, <1>7, <1>8, <2>1, StoresAway
    <2>. QED  BY <2>2 DEF StoreKeeps
  <1>. HIDE DEF c3
  <1>10. /\ Text(Blocked2dWar) /\ Between(c4, w)
         /\ \A r : Slot(r) => Kept(c3, c4, r)
    <2>1. \A y : y # s /\ y \notin UB(w, w) /\ y # <<"V", "MTE3", 0>> => Owns(c3, "V+", y)
      BY <1>7, <1>9 DEF Worked, Settled, Kept, u
    <2>2. Quiet(c3) /\ Settled(c3, "MTE3")
      BY <1>9 DEF StoredUnit
    <2>. QED  BY <1>3, <2>1, <2>2, TurnsBack
  <1>. HIDE DEF c4
  <1>11. Yielded(c4, s, Stored(v))
    BY <1>3, <1>9, <1>10 DEF StoredUnit, Kept, SameAt
  <1>12. ASSUME NEW r, Slot(r), r # s PROVE Kept(c, c4, r)
    <2>1. Kept(c, c3, r)
      BY <1>9, <1>12 DEF StoredUnit
    <2>2. Kept(c3, c4, r)
      BY <1>10, <1>12
    <2>. QED  BY <2>1, <2>2, KeptOn
  <1>13. d = c4 /\ Text(Block(x, i, w))
    <2>. DEFINE a == Transposing(x, i, w)
                b == Blocked2dWar
    <2>1. Text(a) /\ Text(b) /\ c3 = c \o a /\ c4 = c3 \o b /\ Block(x, i, w) = a \o b
      BY <1>2, <1>10 DEF Block, c4
    <2>. HIDE DEF a, b
    <2>2. Text(a \o b) /\ c \o (a \o b) = (c \o a) \o b
      BY <1>1, <2>1, Joined
    <2>. QED  BY <2>1, <2>2
  <1>. QED  BY <1>10, <1>11, <1>12, <1>13 DEF s, v, BlockValue

\* What a routine that is done has delivered.
Delivered(c, right, d) ==
    /\ Quiet(d) /\ \A s \in DOMAIN right : Yielded(d, s, right[s])
    /\ \A r : Slot(r) /\ r \notin DOMAIN right => Kept(c, d, r)

\* The blocks up to block k.
Turned(c, x, v, n, w, k, d) == Between(d, w) /\ SlotsDone(c, x, v, n, k, d)

\* One block more.
LEMMA NextBlock ==
    ASSUME 1 <= MaxPosted, NEW w \in Nat \ {0}, NEW x, x \notin {"ub", "scalar"}, NEW n \in Nat, NEW k \in 1..n,
           NEW v, v[k - 1] = BlockValue(<<x, k - 1>>), NEW c, NEW b, Turned(c, x, v, n, w, k - 1, b),
           NEW d, d = b \o Block(x, k - 1, w)
    PROVE  Turned(c, x, v, n, w, k, d)
  <1>1. k - 1 \in Nat /\ k - 1 \in (k - 1)..(n - 1)
    OBVIOUS
  <1>2. Between(b, w) /\ Free(b, <<x, k - 1>>) /\ SlotsDone(c, x, v, n, k - 1, b)
    BY <1>1 DEF Turned, SlotsDone
  <1>3. /\ Between(d, w) /\ Yielded(d, <<x, k - 1>>, BlockValue(<<x, k - 1>>))
        /\ \A r : Slot(r) /\ r # <<x, k - 1>> => Kept(b, d, r)
    BY <1>2, BlockDone
  <1>4. SlotsDone(c, x, v, n, k, d)
    BY <1>2, <1>3, NextSlot
  <1>. QED  BY <1>3, <1>4 DEF Turned

\* A routine that goes on from between two blocks to between two blocks.
Resumes(p, w) ==
    /\ Text(p.code)
    /\ \A c : Between(c, w) /\ (\A s \in DOMAIN p.right : Free(c, s))
              => Between(c \o p.code, w) /\ Delivered(c, p.right, c \o p.code)

\* The blocked transpose, whatever the number of its blocks.
LEMMA BlockedResumes ==
    ASSUME 1 <= MaxPosted, NEW n \in Nat, NEW w \in Nat \ {0}, NEW x, x \notin {"ub", "scalar"}
    PROVE  Resumes(Blocked2d(x, n, w), w) /\ \A s \in DOMAIN Blocked2d(x, n, w).right : Slot(s)
  <1>. DEFINE f == [i \in 1..n |-> Block(x, i - 1, w)]
              right == TransposedRight(x, n)
              v == [i \in 0..(n - 1) |-> BlockValue(<<x, i>>)]
  <1>1. Blocked2d(x, n, w).code = FlattenSeq(f) /\ Blocked2d(x, n, w).right = right
    <2>1. (n - 1) - 0 + 1 = n /\ \A i \in 1..n : 0 + i - 1 = i - 1
      OBVIOUS
    <2>2. [i \in 1..((n - 1) - 0 + 1) |-> Transposing(x, 0 + i - 1, w) \o Blocked2dWar] = f
      BY <2>1 DEF Block
    <2>3. Blocked2d(x, n, w).code = FlattenSeq([i \in 1..((n - 1) - 0 + 1) |-> Transposing(x, 0 + i - 1, w) \o Blocked2dWar])
      BY DEF Blocked2d, Loop
    <2>4. Blocked2d(x, n, w).right = right
      BY DEF Blocked2d
    <2>. HIDE DEF f, right
    <2>. QED  BY <2>2, <2>3, <2>4
  <1>2. DOMAIN right = {x} \X (0..(n - 1)) /\ \A i \in 0..(n - 1) : v[i] = right[<<x, i>>]
    BY DEF TransposedRight, BlockValue
  <1>3. \A k \in 1..n : f[k] = Block(x, k - 1, w) /\ v[k - 1] = BlockValue(<<x, k - 1>>)
    OBVIOUS
  <1>4. Text(f) /\ Len(f) = n
    BY ListIs
  <1>5. \A s \in DOMAIN right : Slot(s)
    BY <1>2 DEF Slot
  <1>. HIDE DEF f, right, v
  <1>6. \A k \in 1..n : Text(f[k])
    <2>. SUFFICES ASSUME NEW k \in 1..n PROVE Text(Block(x, k - 1, w))
      BY <1>3
    <2>1. Free(<<>>, <<x, k - 1>>) /\ Between(<<>>, w)
      BY EmptyText DEF Between
    <2>. QED  BY <2>1, BlockDone
  <1>7. ASSUME NEW c, Between(c, w), \A s \in DOMAIN right : Free(c, s)
        PROVE  Text(FlattenSeq(f)) /\ Turned(c, x, v, n, w, n, c \o FlattenSeq(f))
    <2>1. Text(c)
      BY <1>7 DEF Between, Quiet, Sound
    <2>2. PICK g : Text(FlattenSeq(f)) /\ Runs(c, f, n, g)
      BY <1>4, <1>6, <2>1, Unrolled
    <2>. DEFINE S == {k \in 0..n : Turned(c, x, v, n, w, k, g[k])}
    <2>3. 0 \in S
      <3>1. g[0] = c
        BY <2>2 DEF Runs
      <3>2. \A i \in 0..(n - 1) : Free(c, <<x, i>>)
        BY <1>2, <1>7
      <3>3. SlotsDone(c, x, v, n, 0, c)
        BY <3>2, KeptSame DEF SlotsDone
      <3>4. Turned(c, x, v, n, w, 0, g[0])
        BY <1>7, <3>1, <3>3 DEF Turned
      <3>. QED  BY <3>4
    <2>4. ASSUME NEW k \in 0..(n - 1), k \in S PROVE k + 1 \in S
      <3>1. k + 1 \in 1..n /\ (k + 1) - 1 = k
        OBVIOUS
      <3>2. g[k + 1] = g[k] \o Block(x, (k + 1) - 1, w)
        BY <1>3, <2>2, <3>1 DEF Runs
      <3>3. Turned(c, x, v, n, w, (k + 1) - 1, g[k])
        BY <2>4, <3>1
      <3>4. Turned(c, x, v, n, w, k + 1, g[k + 1])
        BY <1>3, <3>1, <3>2, <3>3, NextBlock
      <3>. QED  BY <3>4
    <2>5. n \in S
      <3>1. 0..n \subseteq S
        <4>. HIDE DEF S
        <4>. QED  BY <2>3, <2>4, Induction
      <3>2. n \in 0..n
        OBVIOUS
      <3>. HIDE DEF S
      <3>. QED  BY <3>1, <3>2
    <2>. QED  BY <2>2, <2>5 DEF Runs
  <1>8. ASSUME NEW c, Between(c, w), \A s \in DOMAIN right : Free(c, s)
        PROVE  Between(c \o FlattenSeq(f), w) /\ Delivered(c, right, c \o FlattenSeq(f))
    <2>. DEFINE d == c \o FlattenSeq(f)
    <2>1. Turned(c, x, v, n, w, n, d)
      BY <1>7, <1>8
    <2>. HIDE DEF d
    <2>2. Between(d, w) /\ Quiet(d) /\ SlotsDone(c, x, v, n, n, d)
      BY <2>1 DEF Turned, Between
    <2>3. \A s \in DOMAIN right : Yielded(d, s, right[s])
      <3>. SUFFICES ASSUME NEW i \in 0..(n - 1) PROVE Yielded(d, <<x, i>>, right[<<x, i>>])
        BY <1>2
      <3>. QED  BY <1>2, <2>2 DEF SlotsDone
    <2>4. \A r : Slot(r) /\ r \notin DOMAIN right => Kept(c, d, r)
      BY <1>2, <2>2 DEF SlotsDone
    <2>. QED  BY <2>2, <2>3, <2>4 DEF Delivered, d
  <1>9. Text(FlattenSeq(f))
    <2>1. Between(<<>>, w) /\ \A s : Free(<<>>, s)
      BY EmptyText DEF Between
    <2>. QED  BY <1>7, <2>1
  <1>. QED  BY <1>1, <1>5, <1>8, <1>9 DEF Resumes

-----------------------------------------------------------------------------
(* Whole programs *)

\* A text that is quiet and has everything right is Synchronized.
LEMMA Concludes ==
    ASSUME NEW p, Quiet(p.code), \A s \in DOMAIN p.right : Yielded(p.code, s, p.right[s])
    PROVE  Synchronized(p) /\ (Drains(p.code) => Drained(p))
  <1>. DEFINE c == p.code
  <1>1. Sound(c) /\ EventsConsumed(c)
    BY DEF Quiet, Even, EventsConsumed
  <1>2. Yields(c, Values(c), p.right)
    BY DEF Yielded, Yields
  <1>3. Drains(c) => EndsDrained(c, Over(c), p.right)
    <2>. SUFFICES ASSUME Drains(c), NEW i \in Ops(c) PROVE \E j \in DOMAIN c : c[j].pipe \in {"S", "ALL"} /\ i \in Over(c)[j]
      BY DEF EndsDrained
    <2>1. Len(c) \in DOMAIN c
      BY <1>1 DEF Sound, Text, Ops
    <2>. QED  BY <2>1 DEF Drains
  <1>. HIDE DEF c
  <1>4. Synchronized(p)
    BY <1>1, <1>2 DEF Synchronized, Sound, c
  <1>. QED  BY <1>3, <1>4 DEF Drained, c

\* The same with a barrier for everyone at the end.
LEMMA BarrierConcludes ==
    ASSUME NEW c, Quiet(c), NEW p, p.code = c \o <<pipe_barrier("ALL")>>,
           \A s \in DOMAIN p.right : Yielded(c, s, p.right[s])
    PROVE  Synchronized(p) /\ Drained(p)
  <1>. DEFINE d == Append(c, pipe_barrier("ALL"))
  <1>1. p.code = d
    <2>. DEFINE b == pipe_barrier("ALL")
    <2>1. Text(c)
      BY DEF Quiet, Sound
    <2>. HIDE DEF b
    <2>. QED  BY <2>1, OneByOne DEF b
  <1>. HIDE DEF d
  <1>2. Quiet(d) /\ (\A x : Kept(c, d, x)) /\ Drains(d)
    BY BarrierSettles DEF d
  <1>3. \A s \in DOMAIN p.right : Yielded(d, s, p.right[s])
    BY <1>2 DEF Kept, SameAt
  <1>. QED  BY <1>1, <1>2, <1>3, Concludes

\* Phase A brings both operands into the workspace, each by its routine.
LEMMA PhaseASynchronized ==
    ASSUME NEW p0, NEW p1, Text(p0.code), Text(p1.code), DOMAIN p0.right \intersect DOMAIN p1.right = {},
           \A s \in DOMAIN p0.right : Slot(s),
           Delivered(<<>>, p0.right, p0.code), Delivered(p0.code, p1.right, p0.code \o p1.code)
    PROVE  Synchronized(PhaseA(p0, p1)) /\ Drained(PhaseA(p0, p1))
  <1>. DEFINE c == p0.code
              d == c \o p1.code
              r == PhaseA(p0, p1).right
  <1>1. /\ DOMAIN r = DOMAIN p0.right \union DOMAIN p1.right
        /\ \A s \in DOMAIN r : r[s] = IF s \in DOMAIN p0.right THEN p0.right[s] ELSE p1.right[s]
    BY DEF PhaseA
  <1>2. PhaseA(p0, p1).code = d \o <<pipe_barrier("ALL")>> /\ PhaseA(p0, p1).right = r
    BY DEF PhaseA
  <1>3. Delivered(<<>>, p0.right, c) /\ Delivered(c, p1.right, d)
    OBVIOUS
  <1>. HIDE DEF c, d, r
  <1>4. ASSUME NEW s \in DOMAIN r PROVE Yielded(d, s, r[s])
    <2>1. CASE s \in DOMAIN p0.right
      <3>1. Yielded(c, s, p0.right[s])
        BY <1>3, <2>1 DEF Delivered
      <3>2. Kept(c, d, s)
        BY <1>3, <2>1 DEF Delivered
      <3>. QED  BY <1>1, <2>1, <3>1, <3>2 DEF Kept, SameAt
    <2>2. CASE s \notin DOMAIN p0.right
      BY <1>1, <1>3, <2>2 DEF Delivered
    <2>. QED  BY <2>1, <2>2
  <1>5. Quiet(d)
    BY <1>3 DEF Delivered
  <1>. QED  BY <1>2, <1>4, <1>5, BarrierConcludes

\* A routine that may be started where MTE2 may touch everything, and leaves
\* it so, or where the blocked transpose leaves it.
LEMMA DeliversFrom ==
    ASSUME NEW p, \A s \in DOMAIN p.right : Slot(s), NEW c, Quiet(c), \A s \in DOMAIN p.right : Free(c, s)
    PROVE  /\ Serves(p) /\ Settled(c, "MTE2")
                => Text(p.code) /\ Delivered(c, p.right, c \o p.code) /\ Settled(c \o p.code, "MTE2")
           /\ \A w : Resumes(p, w) /\ (Settled(c, "MTE2") \/ Between(c, w))
                => Text(p.code) /\ Delivered(c, p.right, c \o p.code) /\ Between(c \o p.code, w)
  <1>1. ASSUME Serves(p), Settled(c, "MTE2")
        PROVE  Text(p.code) /\ Delivered(c, p.right, c \o p.code) /\ Settled(c \o p.code, "MTE2")
    <2>1. Ready4(c, p.right)
      BY <1>1 DEF Ready4
    <2>2. Served(c, p.right, c \o p.code) /\ Text(p.code)
      BY <1>1, <2>1 DEF Serves
    <2>. QED  BY <2>2 DEF Served, Delivered
  <1>2. ASSUME NEW w, Resumes(p, w), Settled(c, "MTE2") \/ Between(c, w)
        PROVE  Text(p.code) /\ Delivered(c, p.right, c \o p.code) /\ Between(c \o p.code, w)
    <2>1. Between(c, w)
      BY <1>2 DEF Between, Settled
    <2>. QED  BY <1>2, <2>1 DEF Resumes
  <1>. QED  BY <1>1, <1>2

\* The pairs of routines that go together.
Pair(p0, p1) ==
    /\ DOMAIN p0.right \intersect DOMAIN p1.right = {}
    /\ \A s \in DOMAIN p0.right \union DOMAIN p1.right : Slot(s)
    /\ \/ Serves(p0) /\ (Serves(p1) \/ \E w : Resumes(p1, w))
       \/ \E w : Resumes(p0, w) /\ Resumes(p1, w)

\* Phase A with such a pair.
LEMMA PairSynchronized ==
    ASSUME NEW p0, NEW p1, Pair(p0, p1)
    PROVE  Synchronized(PhaseA(p0, p1)) /\ Drained(PhaseA(p0, p1))
  <1>. DEFINE c == p0.code
              d == c \o p1.code
  <1>1. Quiet(<<>>) /\ Settled(<<>>, "MTE2") /\ \A s : Free(<<>>, s)
    BY EmptyText DEF Settled
  <1>2. \A s \in DOMAIN p0.right : Slot(s) /\ Free(<<>>, s)
    BY <1>1 DEF Pair
  <1>3. \A s \in DOMAIN p1.right : Slot(s) /\ s \notin DOMAIN p0.right
    BY DEF Pair
  <1>4. Text(c) => <<>> \o c = c
    BY Joined
  <1>5. ASSUME Delivered(<<>>, p0.right, c) PROVE Quiet(c) /\ \A s \in DOMAIN p1.right : Free(c, s)
    <2>1. \A s \in DOMAIN p1.right : Kept(<<>>, c, s)
      BY <1>3, <1>5 DEF Delivered
    <2>. QED  BY <1>1, <1>5, <2>1 DEF Delivered, Kept
  <1>6. /\ Serves(p0) => Text(c) /\ Delivered(<<>>, p0.right, c) /\ Settled(c, "MTE2")
        /\ \A w : Resumes(p0, w) => Text(c) /\ Delivered(<<>>, p0.right, c) /\ Between(c, w)
    BY <1>1, <1>2, <1>4, DeliversFrom
  <1>. HIDE DEF c
  <1>7. CASE Serves(p0)
    <2>1. Text(c) /\ Delivered(<<>>, p0.right, c) /\ Settled(c, "MTE2") /\ Quiet(c) /\ \A s \in DOMAIN p1.right : Free(c, s)
      BY <1>5, <1>6, <1>7
    <2>2. /\ Serves(p1) => Text(p1.code) /\ Delivered(c, p1.right, d)
          /\ \A w : Resumes(p1, w) => Text(p1.code) /\ Delivered(c, p1.right, d)
      BY <1>3, <2>1, DeliversFrom
    <2>. QED  BY <1>2, <1>3, <1>7, <2>1, <2>2, PhaseASynchronized DEF Pair, c
  <1>8. ASSUME NEW w, Resumes(p0, w), Resumes(p1, w) PROVE Synchronized(PhaseA(p0, p1)) /\ Drained(PhaseA(p0, p1))
    <2>1. Text(c) /\ Delivered(<<>>, p0.right, c) /\ Between(c, w) /\ Quiet(c) /\ \A s \in DOMAIN p1.right : Free(c, s)
      BY <1>5, <1>6, <1>8
    <2>2. Text(p1.code) /\ Delivered(c, p1.right, d)
      BY <1>3, <1>8, <2>1, DeliversFrom
    <2>. QED  BY <1>2, <1>3, <2>1, <2>2, PhaseASynchronized DEF Pair, c
  <1>. QED  BY <1>7, <1>8 DEF Pair

\* A routine alone, or with a barrier behind it.
LEMMA AloneSynchronized ==
    ASSUME NEW p, Serves(p), \A s \in DOMAIN p.right : Slot(s),
           NEW q, q.right = p.right
    PROVE  /\ q.code = p.code => Synchronized(q)
           /\ q.code = p.code \o <<pipe_barrier("ALL")>> => Synchronized(q) /\ Drained(q)
  <1>. DEFINE c == <<>> \o p.code
  <1>1. Ready4(<<>>, p.right)
    BY EmptyText DEF Ready4, Settled
  <1>2. Served(<<>>, p.right, c)
    BY <1>1 DEF Serves
  <1>3. c = p.code
    <2>1. Text(p.code)
      BY DEF Serves
    <2>. QED  BY <2>1, Joined
  <1>. HIDE DEF c
  <1>4. Quiet(c) /\ \A s \in DOMAIN q.right : Yielded(c, s, q.right[s])
    BY <1>2 DEF Served
  <1>5. q.code = c => Synchronized(q)
    BY <1>4, Concludes
  <1>6. q.code = c \o <<pipe_barrier("ALL")>> => Synchronized(q) /\ Drained(q)
    BY <1>4, BarrierConcludes
  <1>. QED  BY <1>3, <1>5, <1>6

\* The tiles of a product; its blocks, one after the other; and its results.
TilesFit(dst, t1, t2, f1, f2) ==
    /\ Tile(dst) /\ Tile(t1) /\ Tile(t2) /\ Tile(f1) /\ Tile(f2)
    /\ t1 \intersect t2 = {} /\ t1 \intersect f2 = {} /\ f1 \intersect t2 = {} /\ f1 \intersect f2 = {}
Streams(f, half, n, dst, t1, t2, f1, f2) ==
    /\ Text(f) /\ Len(f) = n
    /\ \A k \in 1..n : f[k] = StreamBlock(<<TLOAD(t1, <<"in0", k - 1>>), TLOAD(t2, <<"in1", k - 1>>)>>,
                                        Multiply(half, dst, t1, t2, f1, f2), <<"res", k - 1>>, dst)
Products(right, half, n) ==
    /\ DOMAIN right = {"res"} \X (0..(n - 1))
    /\ \A k \in 1..n : right[<<"res", k - 1>>]
                         = Stored(Product(half, Loaded(<<"in0", k - 1>>), Loaded(<<"in1", k - 1>>)))

\* The blocks of a product serve, whatever their number.
LEMMA StreamsServe ==
    ASSUME 1 <= MaxPosted, NEW half \in BOOLEAN, NEW n \in Nat,
           NEW dst, NEW t1, NEW t2, NEW f1, NEW f2, TilesFit(dst, t1, t2, f1, f2),
           NEW f, Streams(f, half, n, dst, t1, t2, f1, f2),
           NEW p, p.code = FlattenSeq(f), Products(p.right, half, n)
    PROVE  Serves(p) /\ \A s \in DOMAIN p.right : Slot(s)
  <1>1. ASSUME NEW b, NEW k \in 1..n, Quiet(b), Settled(b, "MTE2"), Free(b, <<"res", k - 1>>)
        PROVE  Text(f[k]) /\ AfterUnit(b, <<"res", k - 1>>, p.right[<<"res", k - 1>>], b \o f[k])
    <2>. DEFINE s    == <<"res", k - 1>>
                src1 == <<"in0", k - 1>>
                src2 == <<"in1", k - 1>>
                g    == f[k]
    <2>1. /\ g = StreamBlock(<<TLOAD(t1, src1), TLOAD(t2, src2)>>, Multiply(half, dst, t1, t2, f1, f2), s, dst)
          /\ p.right[s] = Stored(Product(half, Loaded(src1), Loaded(src2)))
          /\ Free(b, s)
      BY <1>1 DEF Streams, Products
    <2>2. Slot(s)
      BY DEF Slot
    <2>. HIDE DEF s, src1, src2, g
    <2>3. Text(g) /\ AfterUnit(b, s, Stored(Product(half, Loaded(src1), Loaded(src2))), b \o g)
      BY <1>1, <2>1, <2>2, StreamDone DEF TilesFit
    <2>. QED  BY <2>1, <2>3 DEF s, g
  <1>2. \A k \in 1..n : Text(f[k])
    <2>1. Quiet(<<>>) /\ Settled(<<>>, "MTE2") /\ \A k : Free(<<>>, <<"res", k>>)
      BY EmptyText DEF Settled
    <2>. QED  BY <1>1, <2>1
  <1>3. Text(f) /\ n = Len(f) /\ DOMAIN p.right = {"res"} \X (0..(n - 1))
    BY DEF Streams, Products
  <1>. QED  BY <1>1, <1>2, <1>3, UnitsServe

\* The elementwise kernel on a lane.
LEMMA ElementwiseSynchronized ==
    ASSUME 1 <= MaxPosted, NEW half \in BOOLEAN, NEW n \in Nat
    PROVE  Synchronized(Elementwise(half, n))
  <1>. DEFINE a  == UB(0, 1)
              b  == UB(1, 1)
              af == UB(2, 2)
              bf == UB(4, 2)
              dst == IF half THEN af ELSE a
              f == [k \in 1..n |-> ElementwiseBlock(half, k - 1)]
              p == Elementwise(half, n)
  <1>1. /\ Tile(a) /\ Tile(b) /\ Tile(af) /\ Tile(bf)
        /\ a \intersect b = {} /\ a \intersect bf = {} /\ af \intersect b = {} /\ af \intersect bf = {}
    <2>1. Tile(a) /\ Tile(b) /\ Tile(af) /\ Tile(bf)
      BY UBTile
    <2>2. /\ \A x \in UB(0, 1) : x \notin UB(1, 1)
          /\ \A x \in UB(0, 1) : x \notin UB(4, 2)
          /\ \A x \in UB(1, 1) : x \notin UB(2, 2)
          /\ \A x \in UB(2, 2) : x \notin UB(4, 2)
      BY TilesApart
    <2>. QED  BY <2>1, <2>2
  <1>2. ASSUME NEW k \in 1..n
        PROVE  f[k] = StreamBlock(<<TLOAD(a, <<"in0", k - 1>>), TLOAD(b, <<"in1", k - 1>>)>>,
                                 Multiply(half, dst, a, b, af, bf), <<"res", k - 1>>, dst)
    BY DEF ElementwiseBlock
  <1>3. Text(f) /\ Len(f) = n
    BY ListIs
  <1>4. p.code = FlattenSeq(f)
    <2>1. [i \in 1..((n - 1) - 0 + 1) |-> ElementwiseBlock(half, 0 + i - 1)] = f
      OBVIOUS
    <2>2. p.code = FlattenSeq([i \in 1..((n - 1) - 0 + 1) |-> ElementwiseBlock(half, 0 + i - 1)])
      BY DEF Elementwise, Loop
    <2>. HIDE DEF f, p
    <2>. QED  BY <2>1, <2>2
  <1>5. /\ DOMAIN p.right = {"res"} \X (0..(n - 1))
        /\ \A k \in 1..n : p.right[<<"res", k - 1>>]
                             = Stored(Product(half, Loaded(<<"in0", k - 1>>), Loaded(<<"in1", k - 1>>)))
    <2>1. \A k \in 1..n : <<"res", k - 1>> \in {"res"} \X (0..(n - 1))
      OBVIOUS
    <2>. QED  BY <2>1 DEF Elementwise, ProductRight
  <1>6. Tile(dst)
    BY <1>1
  <1>. HIDE DEF a, b, af, bf, dst, f, p
  <1>9. TilesFit(dst, a, b, af, bf) /\ Streams(f, half, n, dst, a, b, af, bf) /\ Products(p.right, half, n)
    BY <1>1, <1>2, <1>3, <1>5, <1>6 DEF TilesFit, Streams, Products
  <1>7. Serves(p) /\ \A s \in DOMAIN p.right : Slot(s)
    BY <1>4, <1>9, StreamsServe
  <1>8. Synchronized(p)
    BY <1>7, AloneSynchronized
  <1>. QED  BY <1>8 DEF p

\* The broadcast kernel on a lane, when b is a row.
LEMMA BroadcastColSynchronized ==
    ASSUME 1 <= MaxPosted, NEW half \in BOOLEAN, NEW n \in Nat
    PROVE  Synchronized(BroadcastCol(half, n)) /\ Drained(BroadcastCol(half, n))
  <1>. DEFINE a  == UB(0, 1)
              b  == UB(1, 1)
              dst == UB(2, 2)
              af == UB(4, 2)
              bf == UB(6, 1)
              f == [k \in 1..n |-> ColBlock(half, k - 1)]
              p == BroadcastCol(half, n)
              q == [code |-> FlattenSeq(f), right |-> p.right]
  <1>1. /\ Tile(a) /\ Tile(b) /\ Tile(af) /\ Tile(bf) /\ Tile(dst)
        /\ a \intersect b = {} /\ a \intersect bf = {} /\ af \intersect b = {} /\ af \intersect bf = {}
    <2>1. Tile(a) /\ Tile(b) /\ Tile(af) /\ Tile(bf) /\ Tile(dst)
      BY UBTile
    <2>2. /\ \A x \in UB(0, 1) : x \notin UB(1, 1)
          /\ \A x \in UB(0, 1) : x \notin UB(6, 1)
          /\ \A x \in UB(1, 1) : x \notin UB(4, 2)
          /\ \A x \in UB(4, 2) : x \notin UB(6, 1)
      BY TilesApart
    <2>. QED  BY <2>1, <2>2
  <1>2. ASSUME NEW k \in 1..n
        PROVE  f[k] = StreamBlock(<<TLOAD(a, <<"in0", k - 1>>), TLOAD(b, <<"in1", k - 1>>)>>,
                                 Multiply(half, dst, a, b, af, bf), <<"res", k - 1>>, dst)
    BY DEF ColBlock
  <1>3. Text(f) /\ Len(f) = n
    BY ListIs
  <1>4. p.code = FlattenSeq(f) \o <<pipe_barrier("ALL")>>
    <2>1. [i \in 1..((n - 1) - 0 + 1) |-> ColBlock(half, 0 + i - 1)] = f
      OBVIOUS
    <2>2. p.code = FlattenSeq([i \in 1..((n - 1) - 0 + 1) |-> ColBlock(half, 0 + i - 1)]) \o <<pipe_barrier("ALL")>>
      BY DEF BroadcastCol, Loop, BroadcastEnd
    <2>. HIDE DEF f, p
    <2>. QED  BY <2>1, <2>2
  <1>5. /\ DOMAIN p.right = {"res"} \X (0..(n - 1))
        /\ \A k \in 1..n : p.right[<<"res", k - 1>>]
                             = Stored(Product(half, Loaded(<<"in0", k - 1>>), Loaded(<<"in1", k - 1>>)))
    <2>1. \A k \in 1..n : <<"res", k - 1>> \in {"res"} \X (0..(n - 1))
      OBVIOUS
    <2>. QED  BY <2>1 DEF BroadcastCol, ProductRight
  <1>. HIDE DEF a, b, af, bf, dst, f, p
  <1>6. q.code = FlattenSeq(f) /\ q.right = p.right
    OBVIOUS
  <1>. HIDE DEF q
  <1>9. TilesFit(dst, a, b, af, bf) /\ Streams(f, half, n, dst, a, b, af, bf) /\ Products(q.right, half, n)
    BY <1>1, <1>2, <1>3, <1>5, <1>6 DEF TilesFit, Streams, Products
  <1>7. Serves(q) /\ \A s \in DOMAIN q.right : Slot(s)
    BY <1>6, <1>9, StreamsServe
  <1>8. Synchronized(p) /\ Drained(p)
    BY <1>4, <1>6, <1>7, AloneSynchronized
  <1>. QED  BY <1>8 DEF p

-----------------------------------------------------------------------------
(* The scalar of a broadcast product *)

BTile     == UB(0, 1)
ScalarOf  == Term(<<"GetValue">>, <<Loaded(<<"b", 0>>)>>)
Place(i)  == {<<"scalar", i>>}

\* b's tile is there for the scalar unit, and unit i and those after it have
\* not read it.
ScalarReady(d, i) ==
    /\ Quiet(d) /\ Settled(d, "MTE2") /\ Holds(d, BTile, Loaded(<<"b", 0>>))
    /\ \A y \in BTile : Owns(d, "S", y)
    /\ \A j \in Nat : j >= i => Free(d, <<"scalar", j>>)

\* The scalar's place is apart from tiles, slots and lanes.
LEMMA PlaceIs ==
    ASSUME NEW i
    PROVE  /\ Tile(Place(i)) /\ \A from, size : Place(i) \intersect UB(from, size) = {}
           /\ \A r : Slot(r) => r # <<"scalar", i>>
  <1>1. \A r : Slot(r) => r # <<"scalar", i>>
    BY DEF Slot
  <1>2. \A p, q, j : <<"scalar", i>> # <<p, q, j>>
    OBVIOUS
  <1>3. \A from, size : <<"scalar", i>> \notin UB(from, size)
    BY DEF UB
  <1>. QED  BY <1>1, <1>2, <1>3 DEF Tile, Place

\* The scalar of b is loaded and handed to the scalar unit.
LEMMA LoadsB ==
    ASSUME 1 <= MaxPosted, NEW d, d = <<>> \o LoadB
    PROVE  Text(LoadB) /\ ScalarReady(d, 0) /\ \A r : Slot(r) => Free(d, r)
  <1>. DEFINE i1 == TLOAD(BTile, <<"b", 0>>)
              i2 == set_flag("MTE2", "S", 2)
              i3 == wait_flag("MTE2", "S", 2)
              l  == <<"MTE2", "S", 2>>
              c1 == Append(<<>>, i1)
              c2 == Append(Append(c1, i2), i3)
  <1>1. Text(<<>>) /\ Quiet(<<>>) /\ Settled(<<>>, "MTE2")
    BY EmptyText DEF Settled
  <1>2. LoadB = <<i1, i2, i3>>
    BY DEF LoadB, BTile
  <1>3. d = c2 /\ Text(LoadB)
    <2>. HIDE DEF i1, i2, i3
    <2>1. <<>> \o <<i1, i2, i3>> = Append(Append(Append(<<>>, i1), i2), i3) /\ Text(<<i1, i2, i3>>)
      BY <1>1, OneByOne, ZenonT(30)
    <2>. QED  BY <1>2, <2>1
  <1>4. AfterLoad(<<>>, BTile, <<"b", 0>>, c1)
    <2>. HIDE DEF c1
    <2>. QED  BY <1>1, Loads DEF c1
  <1>. HIDE DEF c1
  <1>5. AfterHandOff(c1, "MTE2", "S", l, c2)
    <2>1. "MTE2" \in Pipe /\ "S" \in Pipe /\ Whole("MTE2") = "MTE2"
      BY DEF Pipe, Whole
    <2>. QED  BY <1>4, <2>1, HandOff DEF AfterLoad
  <1>6. \A x : x # l => Kept(c1, c2, x)
    BY <1>5, HandOffKeeps
  <1>. HIDE DEF c2
  <1>7. \A y \in BTile : y # l
    BY TileIs DEF BTile
  <1>8. Holds(c2, BTile, Loaded(<<"b", 0>>))
    <2>1. \A y \in BTile : Kept(c1, c2, y)
      BY <1>6, <1>7
    <2>. QED  BY <1>4, <2>1, HoldsOn DEF AfterLoad
  <1>9. ASSUME NEW x, x \notin BTile, x # l PROVE Free(c2, x)
    <2>1. Kept(<<>>, c1, x) /\ Kept(c1, c2, x) /\ Free(<<>>, x)
      BY <1>4, <1>6, <1>9, EmptyText DEF AfterLoad
    <2>. QED  BY <2>1 DEF Kept
  <1>10. \A j : Free(c2, <<"scalar", j>>)
    <2>1. \A j : <<"scalar", j>> \notin BTile /\ <<"scalar", j>> # l
      BY PlaceIs DEF Tile, Place, BTile
    <2>. HIDE DEF l
    <2>2. ASSUME NEW j PROVE Free(c2, <<"scalar", j>>)
      <3>. DEFINE y == <<"scalar", j>>
      <3>1. y \notin BTile /\ y # l
        BY <2>1
      <3>. HIDE DEF y
      <3>2. Free(c2, y)
        BY <1>9, <3>1
      <3>. QED  BY <3>2 DEF y
    <2>. QED  BY <2>2
  <1>11. \A r : Slot(r) => Free(c2, r)
    <2>1. \A r : Slot(r) => r \notin BTile /\ r # l
      BY SlotIs DEF BTile
    <2>. QED  BY <1>9, <2>1
  <1>12. Quiet(c2) /\ Settled(c2, "MTE2") /\ Settled(c2, "S")
    BY <1>4, <1>5 DEF AfterHandOff, AfterLoad
  <1>. QED  BY <1>3, <1>8, <1>10, <1>11, <1>12 DEF ScalarReady, Settled

\* The scalar unit reads the scalar of unit i.
LEMMA ReadsScalar ==
    ASSUME NEW i \in Nat, NEW c, ScalarReady(c, i), NEW d, d = Append(c, Op("S", <<"GetValue">>, <<BTile>>, Place(i)))
    PROVE  /\ ScalarReady(d, i + 1) /\ Holds(d, Place(i), ScalarOf)
           /\ \A r : Slot(r) => Kept(c, d, r)
  <1>. DEFINE ins == Op("S", <<"GetValue">>, <<BTile>>, Place(i))
  <1>1. /\ ins.kind = "op" /\ ins.pipe = "S" /\ ins.srcs = <<BTile>> /\ ins.dst = Place(i) /\ ins.add = FALSE
        /\ ins.tag = <<"GetValue">> /\ "S" \in Pipe
    BY DEF Op, Pipe
  <1>. HIDE DEF ins
  <1>2. \A x : x \in Footprint(ins) <=> x \in BTile \/ x = <<"scalar", i>>
    BY <1>1 DEF Footprint, Place
  <1>3. Free(c, <<"scalar", i>>) /\ Quiet(c) /\ Sound(c)
    BY DEF ScalarReady, Quiet
  <1>4. \A x \in Footprint(ins) : Owns(c, "S", x)
    <2>1. Owns(c, "S", <<"scalar", i>>)
      BY <1>3 DEF Free, Owns
    <2>. QED  BY <1>2, <2>1 DEF ScalarReady
  <1>5. AfterOp(c, ins, d)
    <2>1. \A k \in DOMAIN ins.srcs : \A x \in ins.srcs[k] : Filled(c, x)
      BY <1>1 DEF ScalarReady, Holds
    <2>. QED  BY <1>1, <1>3, <1>4, <2>1, OpRule DEF ins
  <1>6. Quiet(d) /\ Settled(d, "MTE2") /\ \A y \in BTile : Owns(d, "S", y)
    BY <1>1, <1>5 DEF AfterOp, ScalarReady, Quiet, Settled, SameEvents
  <1>7. Holds(d, Place(i), ScalarOf)
    <2>1. Holds(c, BTile, Loaded(<<"b", 0>>)) /\ BTile # {}
      BY TileIs DEF ScalarReady, BTile
    <2>2. Holds(d, ins.dst, Term(ins.tag, <<Loaded(<<"b", 0>>)>>))
      BY <1>1, <1>5, <2>1, OpLeaves
    <2>. QED  BY <1>1, <2>2 DEF ScalarOf
  <1>8. Holds(d, BTile, Loaded(<<"b", 0>>))
    <2>1. \A y \in BTile : y \notin ins.dst
      BY <1>1, PlaceIs DEF BTile
    <2>. QED  BY <1>5, <2>1 DEF AfterOp, SameAt, Holds, ScalarReady
  <1>9. ASSUME NEW x, x \notin Footprint(ins) PROVE Kept(c, d, x)
    <2>1. x \notin ins.dst
      BY <1>9 DEF Footprint
    <2>. QED  BY <1>5, <1>9, <2>1 DEF AfterOp, Kept
  <1>10. \A r : Slot(r) => Kept(c, d, r)
    <2>1. \A r : Slot(r) => r \notin BTile /\ r # <<"scalar", i>>
      BY SlotIs, PlaceIs DEF BTile
    <2>. QED  BY <1>2, <1>9, <2>1
  <1>11. ASSUME NEW j \in Nat, j >= i + 1 PROVE Free(d, <<"scalar", j>>)
    <2>1. <<"scalar", j>> # <<"scalar", i>>
      BY <1>11
    <2>2. <<"scalar", j>> \notin BTile
      BY PlaceIs DEF Place, BTile
    <2>3. Kept(c, d, <<"scalar", j>>)
      BY <1>2, <1>9, <2>1, <2>2
    <2>. QED  BY <1>11, <2>3 DEF Kept, ScalarReady
  <1>. QED  BY <1>6, <1>7, <1>8, <1>10, <1>11 DEF ScalarReady

\* The operand multiplied by the scalar, with its conversion.
Scaling(half, dst, t, f, sc) ==
    IF half THEN <<TCVT(f, t), pipe_barrier("V"), TMUL(dst, f, sc)>> ELSE <<TMUL(dst, t, sc)>>
Scaled(half, v) == Term(<<"TMUL">>, <<Converted(half, v), ScalarOf>>)

\* What a computation of V has done, and which places it has kept.
Computed4(c, b, used, dst, v, d) ==
    Worked(c, d) /\ Holds(d, dst, v) /\ \A x : x \notin used => Kept(b, d, x)

\* V multiplies by the scalar.
LEMMA Scales ==
    ASSUME NEW half \in BOOLEAN, NEW c, NEW b, Arrived(c, b),
           NEW dst, NEW t, NEW f, NEW sc, Tile(dst), Tile(t), Tile(f), Tile(sc),
           sc \intersect t = {}, sc \intersect f = {},
           NEW v, Holds(b, t, v), Holds(b, sc, ScalarOf), NEW d, d = b \o Scaling(half, dst, t, f, sc)
    PROVE  /\ Text(Scaling(half, dst, t, f, sc))
           /\ Computed4(c, b, t \union f \union sc \union dst, dst, Scaled(half, v), d)
  <1>. DEFINE u == ScalarOf
  <1>0. Text(b)
    BY DEF Arrived, Quiet, Sound
  <1>1. CASE ~ half
    <2>. DEFINE e == Append(b, TMUL(dst, t, sc))
    <2>1. d = e /\ Text(Scaling(half, dst, t, f, sc))
      BY <1>0, <1>1, OneByOne DEF Scaling
    <2>2. Worked(c, b) /\ Usable(b, dst) /\ Usable(b, t) /\ Usable(b, sc)
      BY WorkGoesOn
    <2>3. e = Append(b, Op("V", <<"TMUL">>, <<t, sc>>, dst)) /\ Holds(b, sc, u)
      BY DEF TMUL
    <2>. HIDE DEF e, u
    <2>4. /\ Worked(c, e) /\ Holds(e, dst, Term(<<"TMUL">>, <<v, u>>))
          /\ \A x : x \notin t /\ x \notin sc /\ x \notin dst => Kept(b, e, x)
      BY <2>2, <2>3, Combines
    <2>. QED  BY <1>1, <2>1, <2>4 DEF Scaled, Converted, Computed4, u
  <1>2. CASE half
    <2>. DEFINE b1 == Append(b, TCVT(f, t))
                b2 == Append(b1, pipe_barrier("V"))
                e  == Append(b2, TMUL(dst, f, sc))
                vf == Term(<<"TCVT">>, <<v>>)
    <2>1. d = e /\ Text(Scaling(half, dst, t, f, sc))
      <3>1. \A p, q, r : b \o <<p, q, r>> = Append(Append(Append(b, p), q), r) /\ Text(<<p, q, r>>)
        BY <1>0, OneByOne, ZenonT(30)
      <3>. QED  BY <1>2, <3>1 DEF Scaling
    <2>2. Worked(c, b) /\ \A z : Tile(z) => Usable(b, z)
      BY WorkGoesOn
    <2>3. b1 = Append(b, Op("V", <<"TCVT">>, <<t>>, f)) /\ b2 = Append(b1, pipe_barrier("V"))
          /\ e = Append(b2, Op("V", <<"TMUL">>, <<f, sc>>, dst)) /\ Holds(b, sc, u)
      BY DEF TCVT, TMUL
    <2>. HIDE DEF b1, b2, e, vf, u
    <2>4. Worked(c, b1) /\ Holds(b1, f, vf) /\ \A x : x \notin t /\ x \notin f => Kept(b, b1, x)
      BY <2>2, <2>3, Converts DEF vf
    <2>5. Arrived(c, b2) /\ \A x : Kept(b1, b2, x)
      BY <2>3, <2>4, BarrierUsable
    <2>6. Holds(b2, f, vf) /\ Holds(b2, sc, u)
      <3>1. \A x \in sc : Kept(b, b1, x)
        BY <2>4
      <3>2. Holds(b1, sc, u)
        BY <2>3, <3>1, HoldsOn
      <3>. QED  BY <2>4, <2>5, <3>2, HoldsOn
    <2>7. Worked(c, b2) /\ Usable(b2, f) /\ Usable(b2, sc) /\ Usable(b2, dst)
      BY <2>5, WorkGoesOn
    <2>8. /\ Worked(c, e) /\ Holds(e, dst, Term(<<"TMUL">>, <<vf, u>>))
          /\ \A x : x \notin f /\ x \notin sc /\ x \notin dst => Kept(b2, e, x)
      BY <2>3, <2>6, <2>7, Combines, ZenonT(60)
    <2>9. \A x : x \notin t /\ x \notin f /\ x \notin sc /\ x \notin dst => Kept(b, e, x)
      BY <2>4, <2>5, <2>8, KeptOn
    <2>. QED  BY <1>2, <2>1, <2>8, <2>9 DEF Scaled, Converted, Computed4, vf, u
  <1>. QED  BY <1>1, <1>2

\* A tile that a unit does not use is kept by it.
LEMMA ScalarUnitDone ==
    ASSUME 1 <= MaxPosted, NEW half \in BOOLEAN, NEW i \in Nat, NEW c, ScalarReady(c, i), Free(c, <<"res", i>>),
           NEW d, d = c \o ScalarBlock(half, i)
    PROVE  /\ Text(ScalarBlock(half, i)) /\ ScalarReady(d, i + 1)
           /\ AfterUnit(c, <<"res", i>>, Stored(Scaled(half, Loaded(<<"in0", i>>))), d)
  <1>. DEFINE t   == UB(1, 1)
              dst == UB(2, 2)
              f   == UB(4, 2)
              sc  == Place(i)
              s   == <<"res", i>>
              src == <<"in0", i>>
              v   == Scaled(half, Loaded(src))
              i1  == Op("S", <<"GetValue">>, <<BTile>>, sc)
              i2  == TLOAD(t, src)
              h1  == set_flag("MTE2", "V", 0)
              h2  == wait_flag("MTE2", "V", 0)
              m   == Scaling(half, dst, t, f, sc)
              g1  == set_flag("V", "MTE3", 0)
              g2  == wait_flag("V", "MTE3", 0)
              st  == TSTORE("MTE3", s, dst)
              e1  == set_flag("MTE3", "MTE2", 1)
              e2  == wait_flag("MTE3", "MTE2", 1)
              c1  == Append(c, i1)
              c2  == Append(Append(Append(c1, i2), h1), h2)
              c3  == c2 \o m
              c4  == Append(Append(Append(c3, g1), g2), st)
              c5  == Append(Append(c4, e1), e2)
  <1>1. ScalarBlock(half, i) = <<i1>> \o (<<i2>> \o <<h1, h2>> \o m \o <<g1, g2, st, e1, e2>>)
    BY DEF ScalarBlock, StreamBlock, Scaling, BTile, Place
  <1>2. /\ Tile(t) /\ Tile(dst) /\ Tile(f) /\ Tile(sc) /\ Tile(BTile) /\ Slot(s)
        /\ sc \intersect t = {} /\ sc \intersect f = {}
        /\ BTile \intersect t = {} /\ BTile \intersect dst = {} /\ BTile \intersect f = {} /\ BTile \intersect sc = {}
    <2>1. Tile(t) /\ Tile(dst) /\ Tile(f) /\ Tile(BTile)
      BY UBTile DEF BTile
    <2>2. \A z \in BTile : z \notin UB(1, 1) /\ z \notin UB(2, 2) /\ z \notin UB(4, 2)
      BY TilesApart DEF BTile
    <2>3. Tile(sc) /\ sc \intersect UB(1, 1) = {} /\ sc \intersect UB(4, 2) = {} /\ sc \intersect UB(0, 1) = {}
      BY PlaceIs
    <2>. QED  BY <2>1, <2>2, <2>3 DEF Slot, BTile
  <1>3. Text(c)
    BY DEF ScalarReady, Quiet, Sound
  <1>. HIDE DEF t, dst, f, sc, s, src, m
  <1>4. /\ ScalarReady(c1, i + 1) /\ Holds(c1, sc, ScalarOf)
        /\ \A r : Slot(r) => Kept(c, c1, r)
    <2>. HIDE DEF c1
    <2>. QED  BY ReadsScalar DEF c1, sc
  <1>5. Free(c1, s)
    BY <1>2, <1>4 DEF Kept, s
  <1>. HIDE DEF c1
  <1>6. /\ Arrived(c1, c2) /\ Holds(c2, t, Loaded(src))
        /\ \A u : Tile(u) /\ u \intersect t = {} => \A y \in u : Kept(c1, c2, y)
    <2>. HIDE DEF c2
    <2>. QED  BY <1>2, <1>4, OneArrives DEF c2, ScalarReady
  <1>. HIDE DEF c2
  <1>7. Holds(c2, sc, ScalarOf)
    <2>1. \A y \in sc : Kept(c1, c2, y)
      BY <1>2, <1>6
    <2>. QED  BY <1>4, <2>1, HoldsOn
  <1>. HIDE DEF v
  <1>8. Text(m) /\ Computed4(c1, c2, t \union f \union sc \union dst, dst, v, c3)
    <2>. HIDE DEF c3
    <2>. QED  BY <1>2, <1>6, <1>7, Scales DEF m, c3, v
  <1>. HIDE DEF c3
  <1>9. Worked(c1, c3) /\ Holds(c3, dst, v)
    BY <1>8 DEF Computed4
  <1>10. /\ StoredUnit(c1, s, Stored(v), c4)
         /\ \A u : Tile(u) /\ u \intersect dst = {} => \A y \in u : Kept(c3, c4, y)
    <2>. HIDE DEF c4
    <2>. QED  BY <1>2, <1>5, <1>9, StoresAway DEF c4
  <1>. HIDE DEF c4
  <1>11. AfterUnit(c1, s, Stored(v), c5) /\ \A u : Tile(u) => \A y \in u : Kept(c4, c5, y)
    <2>. HIDE DEF c5
    <2>. QED  BY <1>2, <1>10, Returns DEF c5
  <1>. HIDE DEF c5
  <1>12. ASSUME NEW u, Tile(u), u \intersect t = {}, u \intersect f = {}, u \intersect sc = {}, u \intersect dst = {}, NEW y \in u
         PROVE  Kept(c1, c5, y)
    <2>1. Kept(c1, c2, y) /\ Kept(c3, c4, y) /\ Kept(c4, c5, y)
      BY <1>6, <1>10, <1>11, <1>12
    <2>2. Kept(c2, c3, y)
      BY <1>8, <1>12 DEF Computed4
    <2>. QED  BY <2>1, <2>2, KeptOn
  <1>13. ScalarReady(c5, i + 1)
    <2>1. \A y \in BTile : Kept(c1, c5, y)
      BY <1>2, <1>12
    <2>2. Holds(c5, BTile, Loaded(<<"b", 0>>)) /\ \A y \in BTile : Owns(c5, "S", y)
      <3>1. \A y \in BTile : Owns(c5, "S", y)
        BY <1>4, <2>1 DEF ScalarReady, Kept
      <3>2. Holds(c1, BTile, Loaded(<<"b", 0>>))
        BY <1>4 DEF ScalarReady
      <3>3. Holds(c5, BTile, Loaded(<<"b", 0>>))
        BY <2>1, <3>2, HoldsOn
      <3>. QED  BY <3>1, <3>3
    <2>3. ASSUME NEW j \in Nat, j >= i + 1 PROVE Free(c5, <<"scalar", j>>)
      <3>1. /\ Tile(Place(j)) /\ Place(j) \intersect t = {} /\ Place(j) \intersect f = {}
            /\ Place(j) \intersect dst = {}
        BY PlaceIs DEF t, f, dst
      <3>2. Place(j) \intersect sc = {} /\ <<"scalar", j>> \in Place(j)
        <4>1. <<"scalar", j>> # <<"scalar", i>>
          BY <2>3
        <4>. QED  BY <4>1 DEF Place, sc
      <3>3. Kept(c1, c5, <<"scalar", j>>)
        BY <1>12, <3>1, <3>2
      <3>4. Free(c1, <<"scalar", j>>)
        BY <1>4, <2>3 DEF ScalarReady
      <3>. QED  BY <3>3, <3>4 DEF Kept
    <2>4. Quiet(c5) /\ Settled(c5, "MTE2")
      BY <1>11 DEF AfterUnit
    <2>. QED  BY <2>2, <2>3, <2>4 DEF ScalarReady
  <1>14. AfterUnit(c, s, Stored(v), c5)
    <2>1. \A r : Slot(r) /\ r # s => Kept(c, c5, r)
      BY <1>4, <1>11, KeptOn DEF AfterUnit
    <2>. QED  BY <1>11, <2>1 DEF AfterUnit
  <1>15. d = c5 /\ Text(ScalarBlock(half, i))
    <2>. DEFINE p1 == <<i2>>
                p2 == <<h1, h2>>
                p4 == <<g1, g2, st, e1, e2>>
                p  == p1 \o p2 \o m \o p4
                p0 == <<i1>>
    <2>1. ScalarBlock(half, i) = p0 \o p
      BY <1>1
    <2>2. Text(c1) /\ Text(c3) /\ Text(c2)
      BY <1>4, <1>6, <1>9 DEF ScalarReady, Arrived, Worked, Quiet, Sound
    <2>. HIDE DEF i1, i2, h1, h2, g1, g2, st, e1, e2
    <2>3. Text(p0) /\ c \o p0 = c1
      BY <1>3, OneByOne DEF c1
    <2>4. Text(p1) /\ Text(p2) /\ Text(p4)
      BY EmptyText, OneByOne
    <2>5. (c1 \o p1) \o p2 = c2
      <3>1. c1 \o p1 = Append(c1, i2) /\ Text(Append(c1, i2))
        BY <2>2, OneByOne, Appended
      <3>. DEFINE q == Append(c1, i2)
      <3>. HIDE DEF q
      <3>2. q \o p2 = Append(Append(q, h1), h2)
        BY <3>1, OneByOne DEF q
      <3>. QED  BY <3>1, <3>2 DEF q, c2
    <2>6. c3 \o p4 = c5
      <3>1. \A a, b, x, y, z : /\ c3 \o <<a, b, x, y, z>> = Append(Append(Append(Append(Append(c3, a), b), x), y), z)
                                /\ Text(<<a, b, x, y, z>>)
        <4>1. Text(c3)
          BY <2>2
        <4>. QED  BY <4>1, OneByOne, ZenonT(30)
      <3>. QED  BY <3>1 DEF c4, c5
    <2>. HIDE DEF p0, p1, p2, p4
    <2>7. c1 \o p = (((c1 \o p1) \o p2) \o m) \o p4 /\ Text(p)
      <3>1. Text(c1) /\ Text(p1) /\ Text(p2) /\ Text(m) /\ Text(p4)
        BY <1>8, <2>2, <2>4
      <3>2. InParts(c1, p1, p2, m, p4)
        BY <3>1, InFour
      <3>. QED  BY <3>2 DEF InParts
    <2>8. c1 \o p = c5
      BY <2>5, <2>6, <2>7 DEF c3
    <2>. HIDE DEF p
    <2>9. c \o (p0 \o p) = (c \o p0) \o p /\ Text(p0 \o p)
      <3>1. \A x, y : Text(x) /\ Text(y) => c \o (x \o y) = (c \o x) \o y
        BY <1>3, Associates
      <3>2. Text(p0 \o p)
        BY <2>3, <2>7, Joined
      <3>. QED  BY <2>3, <2>7, <3>1, <3>2
    <2>. QED  BY <2>1, <2>3, <2>8, <2>9
  <1>. QED  BY <1>13, <1>14, <1>15 DEF s, v, src

\* The broadcast kernel on a lane, when b is a scalar.
LEMMA BroadcastScalarSynchronized ==
    ASSUME 1 <= MaxPosted, NEW half \in BOOLEAN, NEW n \in Nat
    PROVE  Synchronized(BroadcastScalar(half, n)) /\ Drained(BroadcastScalar(half, n))
  <1>. DEFINE f == [k \in 1..n |-> ScalarBlock(half, k - 1)]
              v == [i \in 0..(n - 1) |-> Stored(Scaled(half, Loaded(<<"in0", i>>)))]
              p == BroadcastScalar(half, n)
              c == <<>> \o LoadB
              Inv(k, d) == ScalarReady(d, k) /\ SlotsDone(c, "res", v, n, k, d)
              e == c \o FlattenSeq(f)
  <1>1. /\ p.code = LoadB \o FlattenSeq(f) \o <<pipe_barrier("ALL")>>
        /\ \A i \in 0..(n - 1) : p.right[<<"res", i>>] = v[i]
        /\ \A s \in DOMAIN p.right : \E i \in 0..(n - 1) : s = <<"res", i>>
    <2>1. [i \in 1..((n - 1) - 0 + 1) |-> ScalarBlock(half, 0 + i - 1)] = f
      OBVIOUS
    <2>2. p.code = LoadB \o FlattenSeq([i \in 1..((n - 1) - 0 + 1) |-> ScalarBlock(half, 0 + i - 1)]) \o <<pipe_barrier("ALL")>>
      BY DEF BroadcastScalar, Loop, BroadcastEnd
    <2>3. \A i \in 0..(n - 1) : p.right[<<"res", i>>] = v[i]
      <3>1. \A i \in 0..(n - 1) : <<"res", i>> \in {"res"} \X (0..(n - 1))
        OBVIOUS
      <3>. QED  BY <3>1 DEF BroadcastScalar, Scaled, ScalarOf
    <2>4. \A s \in DOMAIN p.right : \E i \in 0..(n - 1) : s = <<"res", i>>
      BY DEF BroadcastScalar
    <2>. HIDE DEF f, p, v
    <2>. QED  BY <2>1, <2>2, <2>3, <2>4
  <1>2. Text(f) /\ Len(f) = n
    BY ListIs
  <1>3. \A k \in 1..n : f[k] = ScalarBlock(half, k - 1) /\ v[k - 1] = Stored(Scaled(half, Loaded(<<"in0", k - 1>>)))
    OBVIOUS
  <1>. HIDE DEF f, v, p
  <1>4. Text(LoadB) /\ ScalarReady(c, 0) /\ \A r : Slot(r) => Free(c, r)
    <2>. HIDE DEF c
    <2>. QED  BY LoadsB DEF c
  <1>5. Text(c) /\ c = LoadB
    BY <1>4, EmptyText, Joined
  <1>. HIDE DEF c
  <1>6. ASSUME NEW k \in 1..n, NEW b, Inv(k - 1, b) PROVE Text(f[k]) /\ Inv(k, b \o f[k])
    <2>. DEFINE i == k - 1
                d == b \o f[k]
    <2>1. i \in Nat /\ i + 1 = k /\ i \in i..(n - 1)
      OBVIOUS
    <2>2. ScalarReady(b, i) /\ SlotsDone(c, "res", v, n, i, b)
      BY <1>6
    <2>3. f[k] = ScalarBlock(half, i) /\ v[i] = Stored(Scaled(half, Loaded(<<"in0", i>>)))
      BY <1>3
    <2>. HIDE DEF i
    <2>4. Free(b, <<"res", i>>)
      BY <2>1, <2>2 DEF SlotsDone
    <2>5. d = b \o ScalarBlock(half, i)
      BY <2>3
    <2>. HIDE DEF d
    <2>6. /\ Text(ScalarBlock(half, i)) /\ ScalarReady(d, i + 1)
          /\ AfterUnit(b, <<"res", i>>, v[i], d)
      BY <2>1, <2>2, <2>3, <2>4, <2>5, ScalarUnitDone
    <2>7. SlotsDone(c, "res", v, n, k, d)
      <3>1. Yielded(d, <<"res", k - 1>>, v[k - 1]) /\ \A r : Slot(r) /\ r # <<"res", k - 1>> => Kept(b, d, r)
        BY <2>6 DEF AfterUnit, i
      <3>2. SlotsDone(c, "res", v, n, k - 1, b)
        BY <2>2 DEF i
      <3>. QED  BY <3>1, <3>2, NextSlot
    <2>. QED  BY <2>1, <2>3, <2>6, <2>7 DEF d
  <1>7. Inv(0, c)
    <2>1. \A i : Slot(<<"res", i>>)
      BY DEF Slot
    <2>. QED  BY <1>4, <2>1, KeptSame DEF SlotsDone
  <1>8. \A k \in 1..n : Text(f[k])
    <2>. SUFFICES ASSUME NEW k \in 1..n PROVE Text(f[k])
      OBVIOUS
    <2>1. Text(ScalarBlock(half, k - 1))
      <3>. DEFINE i   == k - 1
                  i1  == Op("S", <<"GetValue">>, <<BTile>>, Place(i))
                  i2  == TLOAD(UB(1, 1), <<"in0", i>>)
                  h1  == set_flag("MTE2", "V", 0)
                  h2  == wait_flag("MTE2", "V", 0)
                  m   == Scaling(half, UB(2, 2), UB(1, 1), UB(4, 2), Place(i))
                  g1  == set_flag("V", "MTE3", 0)
                  g2  == wait_flag("V", "MTE3", 0)
                  st  == TSTORE("MTE3", <<"res", i>>, UB(2, 2))
                  e1  == set_flag("MTE3", "MTE2", 1)
                  e2  == wait_flag("MTE3", "MTE2", 1)
      <3>. HIDE DEF i
      <3>1. ScalarBlock(half, i) = <<i1>> \o (<<i2>> \o <<h1, h2>> \o m \o <<g1, g2, st, e1, e2>>)
        BY DEF ScalarBlock, StreamBlock, Scaling, BTile, Place
      <3>2. Text(m)
        <4>. DEFINE m1 == TCVT(UB(4, 2), UB(1, 1))
                    m2 == pipe_barrier("V")
                    m3 == TMUL(UB(2, 2), UB(4, 2), Place(i))
                    m4 == TMUL(UB(2, 2), UB(1, 1), Place(i))
        <4>1. m = <<m1, m2, m3>> \/ m = <<m4>>
          BY DEF Scaling
        <4>. HIDE DEF m, m1, m2, m3, m4
        <4>. QED  BY <4>1, EmptyText, OneByOne
      <3>. HIDE DEF i1, i2, h1, h2, m, g1, g2, st, e1, e2
      <3>. DEFINE p0 == <<i1>>
                  p1 == <<i2>>
                  p2 == <<h1, h2>>
                  p4 == <<g1, g2, st, e1, e2>>
                  q  == p1 \o p2 \o m \o p4
      <3>3. Text(p0) /\ Text(p1) /\ Text(p2) /\ Text(p4)
        BY EmptyText, OneByOne
      <3>. HIDE DEF p0, p1, p2, p4
      <3>4. Text(q)
        <4>1. InParts(p0, p1, p2, m, p4)
          BY <3>2, <3>3, InFour
        <4>. QED  BY <4>1 DEF InParts
      <3>. HIDE DEF q
      <3>5. Text(p0 \o q)
        BY <3>3, <3>4, Joined
      <3>6. Text(ScalarBlock(half, i))
        BY <3>1, <3>5 DEF p0, p1, p2, p4, q
      <3>. QED  BY <3>6 DEF i
    <2>. QED  BY <1>3, <2>1
  <1>9. Text(FlattenSeq(f)) /\ Inv(n, e)
    <2>1. PICK g : Text(FlattenSeq(f)) /\ Runs(c, f, n, g)
      BY <1>2, <1>5, <1>8, Unrolled
    <2>. HIDE DEF Inv
    <2>. DEFINE S == {k \in 0..n : Inv(k, g[k])}
    <2>2. 0 \in S
      BY <1>7, <2>1 DEF Runs
    <2>3. ASSUME NEW k \in 0..(n - 1), k \in S PROVE k + 1 \in S
      <3>1. k + 1 \in 1..n /\ (k + 1) - 1 = k
        OBVIOUS
      <3>2. g[k + 1] = g[k] \o f[k + 1]
        BY <2>1, <3>1 DEF Runs
      <3>3. Inv((k + 1) - 1, g[k])
        BY <2>3, <3>1
      <3>4. Inv(k + 1, g[k] \o f[k + 1])
        BY <1>6, <3>1, <3>3
      <3>5. Inv(k + 1, g[k + 1])
        BY <3>2, <3>4
      <3>6. k + 1 \in 0..n
        BY <3>1
      <3>. QED  BY <3>5, <3>6
    <2>4. n \in S
      <3>. HIDE DEF S
      <3>1. 0..n \subseteq S
        BY <2>2, <2>3, Induction
      <3>. QED  BY <3>1
    <2>. QED  BY <2>1, <2>4 DEF Runs
  <1>10. Quiet(e) /\ \A s \in DOMAIN p.right : Yielded(e, s, p.right[s])
    <2>1. Quiet(e) /\ \A i \in 0..(n - 1) : Yielded(e, <<"res", i>>, v[i])
      BY <1>9 DEF ScalarReady, SlotsDone
    <2>. HIDE DEF e
    <2>. QED  BY <1>1, <2>1
  <1>11. p.code = e \o <<pipe_barrier("ALL")>>
    BY <1>1, <1>5
  <1>. HIDE DEF e
  <1>12. Synchronized(p) /\ Drained(p)
    BY <1>10, <1>11, BarrierConcludes
  <1>. QED  BY <1>12 DEF p

-----------------------------------------------------------------------------
(* Any number of units *)

\* The routines of operand x that leave the unified buffer free.
IsRoutine(p, x) == \E n \in Nat, w \in Nat \ {0} : p \in {Copy(x, n), NdCopy(x, n, w), TtransBlocks(x, n, w)}

\* Phase A on a lane: a blocked transpose comes last, or behind another one,
\* whose tiles lie at the same places.
IsPhaseA(p) ==
    \/ \E p0, p1 : IsRoutine(p0, "ws0") /\ IsRoutine(p1, "ws1") /\ p = PhaseA(p0, p1)
    \/ \E p0 : \E n \in Nat, w \in Nat \ {0} : IsRoutine(p0, "ws0") /\ p = PhaseA(p0, Blocked2d("ws1", n, w))
    \/ \E m \in Nat, n \in Nat, w \in Nat \ {0} : p = PhaseA(Blocked2d("ws0", m, w), Blocked2d("ws1", n, w))

\* What a Vector core runs, for any number of units.
IsVecKernel(p) ==
    \/ IsPhaseA(p)
    \/ \E half \in BOOLEAN, n \in Nat : p \in {BroadcastCol(half, n), BroadcastScalar(half, n), Elementwise(half, n)}

\* A routine serves its own slots.
LEMMA RoutineServes ==
    ASSUME 1 <= MaxPosted, NEW x \in {"ws0", "ws1"}, NEW p, IsRoutine(p, x)
    PROVE  Serves(p) /\ \A s \in DOMAIN p.right : Slot(s) /\ s[1] = x
  <1>1. PICK n \in Nat, w \in Nat \ {0} : p \in {Copy(x, n), NdCopy(x, n, w), TtransBlocks(x, n, w)}
    BY DEF IsRoutine
  <1>2. x \notin {"ub", "scalar"}
    OBVIOUS
  <1>3. /\ DOMAIN CopiedRight(x, n) = {x} \X (0..(n - 1))
        /\ DOMAIN TransposedRight(x, n) = {x} \X (0..(n - 1))
    BY DEF CopiedRight, TransposedRight
  <1>4. \A s \in {x} \X (0..(n - 1)) : s[1] = x
    OBVIOUS
  <1>5. CASE p = Copy(x, n)
    <2>1. p.right = CopiedRight(x, n)
      BY <1>5 DEF Copy
    <2>2. Serves(p) /\ \A s \in DOMAIN p.right : Slot(s)
      BY <1>2, <1>5, CopyServes
    <2>. QED  BY <1>3, <1>4, <2>1, <2>2
  <1>6. CASE p = NdCopy(x, n, w)
    <2>1. p.right = CopiedRight(x, n)
      BY <1>6 DEF NdCopy
    <2>2. Serves(p) /\ \A s \in DOMAIN p.right : Slot(s)
      BY <1>2, <1>6, NdServes
    <2>. QED  BY <1>3, <1>4, <2>1, <2>2
  <1>7. CASE p = TtransBlocks(x, n, w)
    <2>1. p.right = TransposedRight(x, n)
      BY <1>7 DEF TtransBlocks
    <2>2. Serves(p) /\ \A s \in DOMAIN p.right : Slot(s)
      BY <1>2, <1>7, TtransServes
    <2>. QED  BY <1>3, <1>4, <2>1, <2>2
  <1>. QED  BY <1>1, <1>5, <1>6, <1>7

\* And so does the blocked transpose.
LEMMA BlockedSlots ==
    ASSUME 1 <= MaxPosted, NEW x \in {"ws0", "ws1"}, NEW n \in Nat, NEW w \in Nat \ {0}, NEW p, p = Blocked2d(x, n, w)
    PROVE  Resumes(p, w) /\ \A s \in DOMAIN p.right : Slot(s) /\ s[1] = x
  <1>1. p.right = TransposedRight(x, n)
    BY DEF Blocked2d
  <1>2. DOMAIN TransposedRight(x, n) = {x} \X (0..(n - 1))
    BY DEF TransposedRight
  <1>3. x \notin {"ub", "scalar"}
    OBVIOUS
  <1>4. Resumes(p, w) /\ \A s \in DOMAIN p.right : Slot(s)
    BY <1>3, BlockedResumes
  <1>5. \A s \in {x} \X (0..(n - 1)) : s[1] = x
    OBVIOUS
  <1>. QED  BY <1>1, <1>2, <1>4, <1>5

\* Phase A, whatever the routines and the numbers of their units.
LEMMA PhaseAsSynchronized ==
    ASSUME 1 <= MaxPosted, NEW p, IsPhaseA(p)
    PROVE  Synchronized(p) /\ Drained(p)
  <1>1. "ws0" # "ws1" /\ "ws0" \in {"ws0", "ws1"} /\ "ws1" \in {"ws0", "ws1"}
    OBVIOUS
  <1>2. ASSUME NEW p0, IsRoutine(p0, "ws0"), NEW p1, IsRoutine(p1, "ws1") PROVE Pair(p0, p1)
    <2>1. /\ Serves(p0) /\ \A s \in DOMAIN p0.right : Slot(s) /\ s[1] = "ws0"
          /\ Serves(p1) /\ \A s \in DOMAIN p1.right : Slot(s) /\ s[1] = "ws1"
      BY <1>1, <1>2, RoutineServes
    <2>. QED  BY <1>1, <2>1 DEF Pair
  <1>3. ASSUME NEW p0, IsRoutine(p0, "ws0"), NEW n \in Nat, NEW w \in Nat \ {0} PROVE Pair(p0, Blocked2d("ws1", n, w))
    <2>. DEFINE p1 == Blocked2d("ws1", n, w)
    <2>0. p1 = Blocked2d("ws1", n, w)
      OBVIOUS
    <2>. HIDE DEF p1
    <2>1. Serves(p0) /\ \A s \in DOMAIN p0.right : Slot(s) /\ s[1] = "ws0"
      BY <1>1, <1>3, RoutineServes
    <2>2. Resumes(p1, w) /\ \A s \in DOMAIN p1.right : Slot(s) /\ s[1] = "ws1"
      BY <1>1, <2>0, BlockedSlots
    <2>3. Pair(p0, p1)
      BY <1>1, <2>1, <2>2 DEF Pair
    <2>. QED  BY <2>0, <2>3
  <1>4. ASSUME NEW m \in Nat, NEW n \in Nat, NEW w \in Nat \ {0} PROVE Pair(Blocked2d("ws0", m, w), Blocked2d("ws1", n, w))
    <2>. DEFINE p0 == Blocked2d("ws0", m, w)
                p1 == Blocked2d("ws1", n, w)
    <2>0. p0 = Blocked2d("ws0", m, w) /\ p1 = Blocked2d("ws1", n, w)
      OBVIOUS
    <2>. HIDE DEF p0, p1
    <2>1. Resumes(p0, w) /\ \A s \in DOMAIN p0.right : Slot(s) /\ s[1] = "ws0"
      BY <1>1, <2>0, BlockedSlots
    <2>2. Resumes(p1, w) /\ \A s \in DOMAIN p1.right : Slot(s) /\ s[1] = "ws1"
      BY <1>1, <2>0, BlockedSlots
    <2>3. Pair(p0, p1)
      BY <1>1, <2>1, <2>2 DEF Pair
    <2>. QED  BY <2>0, <2>3
  <1>5. \E p0, p1 : Pair(p0, p1) /\ p = PhaseA(p0, p1)
    BY <1>2, <1>3, <1>4 DEF IsPhaseA
  <1>. QED  BY <1>5, PairSynchronized

\* The elementwise kernel is recognized by its results.
LEMMA ElementwiseIs ==
    ASSUME NEW half \in BOOLEAN, NEW n \in Nat
    PROVE  IsElementwise(Elementwise(half, n))
  <1>. DEFINE S == 0..(n - 1)
              right == Elementwise(half, n).right
  <1>1. DOMAIN right = {"res"} \X S
    BY DEF Elementwise, ProductRight
  <1>2. IsFiniteSet(S) /\ Cardinality(S) = n
    <2>1. 0 \in Int /\ n - 1 \in Int
      OBVIOUS
    <2>. QED  BY <2>1, FS_Interval
  <1>3. IsFiniteSet({"res"}) /\ Cardinality({"res"}) = 1
    BY FS_Singleton
  <1>4. Cardinality({"res"} \X S) = n
    <2>. HIDE DEF S
    <2>1. Cardinality({"res"} \X S) = Cardinality({"res"}) * Cardinality(S)
      BY <1>2, <1>3, FS_Product
    <2>. QED  BY <1>2, <1>3, <2>1
  <1>. HIDE DEF S
  <1>5. Cardinality(DOMAIN Elementwise(half, n).right) = n
    BY <1>1, <1>4
  <1>. QED  BY <1>5 DEF IsElementwise

\* Flags and barriers keep every one of these kernels in order by its text, and
\* all but the elementwise one make the scalar unit wait for their stores.
LEMMA KernelSynchronized ==
    ASSUME 1 <= MaxPosted, NEW p, IsVecKernel(p)
    PROVE  Synchronized(p) /\ (Drained(p) \/ IsElementwise(p))
  <1>1. CASE IsPhaseA(p)
    BY <1>1, PhaseAsSynchronized
  <1>2. ASSUME NEW half \in BOOLEAN, NEW n \in Nat,
               p \in {BroadcastCol(half, n), BroadcastScalar(half, n), Elementwise(half, n)}
        PROVE  Synchronized(p) /\ (Drained(p) \/ IsElementwise(p))
    BY <1>2, BroadcastColSynchronized, BroadcastScalarSynchronized, ElementwiseSynchronized, ElementwiseIs
  <1>. QED  BY <1>1, <1>2 DEF IsVecKernel

OnlyVecKernels == 1 <= MaxPosted /\ \A p \in Programs : IsVecKernel(p)

\* The order that all the theorems of PipesProofs ask for is there: with at
\* most one event on a lane, for every kernel of a Vector core, whatever the
\* routines of Phase A, the precision and the number of chunks, runs and blocks
\* on the lane.
THEOREM VecSynchronized == OnlyVecKernels => (Spec => []ProgramsSynchronized)
  <1>. SUFFICES ASSUME OnlyVecKernels PROVE Spec => []ProgramsSynchronized
    OBVIOUS
  <1>1. AllSynchronized
    BY KernelSynchronized DEF OnlyVecKernels, AllSynchronized
  <1>2. Init => ProgramsSynchronized
    BY <1>1 DEF Init, ProgramsSynchronized
  <1>3. ProgramsSynchronized /\ [Next]_vars => ProgramsSynchronized'
    <2>1. [Next]_vars => program' = program
      BY DEF Next, Step, SetFlag, WaitFlag, Barrier, Start, Finish, Terminated, vars
    <2>. QED  BY <1>1, <2>1 DEF ProgramsSynchronized
  <1>. QED  BY <1>2, <1>3, PTL DEF Spec

\* Hence no interleaving of the pipes has a race in them, lets events pile up
\* or leaves one behind, or is stuck, and each produces its results.
THEOREM VecKernelsRight ==
    OnlyVecKernels => (Spec => /\ []NoRace /\ []FlagDepth /\ []NoFlagLeak
                               /\ ImplementsProduce
                               /\ [](Done => Out = Right)
                               /\ [](Done \/ \E p \in Pipe : CanGoOn(p)))
  <1>. SUFFICES ASSUME OnlyVecKernels
                PROVE  Spec => /\ []NoRace /\ []FlagDepth /\ []NoFlagLeak
                               /\ ImplementsProduce
                               /\ [](Done => Out = Right)
                               /\ [](Done \/ \E p \in Pipe : CanGoOn(p))
    OBVIOUS
  <1>1. AllSynchronized
    BY KernelSynchronized DEF OnlyVecKernels, AllSynchronized
  <1>. QED  BY <1>1, RaceFree, EventsStayFew, NoEventLeaks, CodeProduces, EndsRight, NeverStuck

\* When a core may retire from the broadcast kernel, or enter the barrier after
\* Phase A, its stores are in memory.
THEOREM VecRetiresDrained == OnlyVecKernels => (Spec => []VecStoresDrained)
  <1>. SUFFICES ASSUME OnlyVecKernels PROVE Spec => []VecStoresDrained
    OBVIOUS
  <1>1. AllSynchronized
    BY KernelSynchronized DEF OnlyVecKernels, AllSynchronized
  <1>2. Spec => []ProgramsSynchronized /\ [](Drained(program) => StoresDrained)
    BY <1>1, VecSynchronized, RetiresDrained
  <1>3. ProgramsSynchronized /\ (Drained(program) => StoresDrained) => VecStoresDrained
    BY KernelSynchronized DEF OnlyVecKernels, ProgramsSynchronized, VecStoresDrained
  <1>. QED  BY <1>2, <1>3, PTL

-----------------------------------------------------------------------------
(* Pipes that hand places round *)

\* What makes places differ.
LEMMA PlacesDiffer ==
    /\ \A x, i, p, q, j : <<x, i>> # <<p, q, j>>
    /\ \A x, i, y, j : <<x, i>> = <<y, j>> <=> x = y /\ i = j
    /\ \A p, q, i, r, s, j : <<p, q, i>> = <<r, s, j>> <=> p = r /\ q = s /\ i = j
  OBVIOUS

\* What c says of x, as a place and as a lane whose waits but the last count,
\* is so of d; but for what the events of the lanes of L bring.
StillSo(c, d, x, L) ==
    /\ Kept(c, d, x)
    /\ \A l : l \notin L => (Passed(c, l, x) => Passed(d, l, x))
OlderSo(c, d, x, L) ==
    /\ \A q : OwnsOlder(c, q, x) => OwnsOlder(d, q, x)
    /\ \A l : l \notin L => (PassedOlder(c, l, x) => PassedOlder(d, l, x))

\* A buffer is no lane.
PairsStay(c, d) == \A x, i : SameEvents(c, d, <<x, i>>)

\* From c to d nothing changes but for the places of X and the events of the
\* lanes of L.
Frame(c, d, X, L) ==
    /\ Sound(d) /\ PairsStay(c, d)
    /\ \A x : x \notin X => StillSo(c, d, x, L) /\ OlderSo(c, d, x, L)
    /\ \A l : l \notin L => SameEvents(c, d, l)

\* Nothing changes on the spot,
LEMMA FrameSame ==
    ASSUME NEW c, Sound(c)
    PROVE  Frame(c, c, {}, {})
  BY KeptSame DEF Frame, StillSo, OlderSo, SameEvents, PairsStay

\* changes add up,
LEMMA FrameOn ==
    ASSUME NEW c, NEW d, NEW e, NEW X, NEW L, NEW Y, NEW M, Frame(c, d, X, L), Frame(d, e, Y, M)
    PROVE  Frame(c, e, X \union Y, L \union M)
  <1>1. ASSUME NEW x, x \notin X \union Y PROVE StillSo(c, e, x, L \union M)
    <2>1. StillSo(c, d, x, L) /\ StillSo(d, e, x, M)
      BY <1>1 DEF Frame
    <2>2. Kept(c, e, x)
      BY <2>1, KeptOn DEF StillSo
    <2>3. \A l : l \notin L \union M => (Passed(c, l, x) => Passed(e, l, x))
      BY <2>1 DEF StillSo
    <2>. QED  BY <2>2, <2>3 DEF StillSo
  <1>2. ASSUME NEW x, x \notin X \union Y PROVE OlderSo(c, e, x, L \union M)
    <2>1. OlderSo(c, d, x, L) /\ OlderSo(d, e, x, M)
      BY <1>2 DEF Frame
    <2>. QED  BY <2>1 DEF OlderSo
  <1>3. ASSUME NEW l, l \notin L \union M PROVE SameEvents(c, e, l)
    <2>1. SameEvents(c, d, l) /\ SameEvents(d, e, l)
      BY <1>3 DEF Frame
    <2>. QED  BY <2>1 DEF SameEvents
  <1>4. Sound(e) /\ PairsStay(c, e)
    <2>1. Sound(e) /\ PairsStay(c, d) /\ PairsStay(d, e)
      BY DEF Frame
    <2>2. \A x, i : SameEvents(c, e, <<x, i>>)
      BY <2>1 DEF PairsStay, SameEvents
    <2>. QED  BY <2>1, <2>2 DEF PairsStay
  <1>. QED  BY <1>1, <1>2, <1>3, <1>4 DEF Frame

\* and may be overstated.
LEMMA FrameWide ==
    ASSUME NEW c, NEW d, NEW X, NEW L, Frame(c, d, X, L), NEW Y, NEW M, X \subseteq Y, L \subseteq M
    PROVE  Frame(c, d, Y, M)
  BY DEF Frame, StillSo, OlderSo

\* The pipes of the Cube core's schedules: each does one thing at a time.
CubePipe == {"MTE2", "MTE1", "M", "FIX"}
\* None of them is one of several threads of a pipe.
LEMMA CubePipes ==
    ASSUME NEW p \in CubePipe
    PROVE  p \in Pipe /\ Whole(p) = p
  BY DEF CubePipe, Pipe, Whole

\* A pipe that posts an event passes on what it owns.
Posts(c, p, l, d) ==
    /\ Frame(c, d, {}, {l}) /\ Pending(d, l)
    /\ \A x : Owns(c, p, x) => Passed(d, l, x) /\ Owns(d, p, x)
    /\ \A x : OwnsOlder(c, p, x) => PassedOlder(d, l, x)
\* A set_flag does so, if its lane has room.
LEMMA Post ==
    ASSUME NEW c, Sound(c), NEW p \in CubePipe, NEW q, NEW i, NEW l, l = <<p, q, i>>,
           Even(c, l), Room(c, p, l), NEW d, d = Append(c, set_flag(p, q, i))
    PROVE  Posts(c, p, l, d)
  <1>1. AfterSet(c, p, l, d) /\ Whole(p) = p
    BY CubePipes, SetRule
  <1>2. ASSUME NEW x PROVE StillSo(c, d, x, {l}) /\ OlderSo(c, d, x, {l})
    BY <1>1 DEF AfterSet, StillSo, OlderSo, Kept
  <1>3. Frame(c, d, {}, {l})
    <2>1. \A l1 : l1 # l => SameEvents(c, d, l1)
      BY <1>1 DEF AfterSet
    <2>2. \A x, j : <<x, j>> # l
      BY PlacesDiffer
    <2>3. PairsStay(c, d)
      BY <2>1, <2>2 DEF PairsStay
    <2>. QED  BY <1>1, <1>2, <2>1, <2>3 DEF Frame, AfterSet
  <1>. QED  BY <1>1, <1>3 DEF Posts, AfterSet

\* A pipe that waits for an event gets what comes with it.
Takes(c, q, l, d) ==
    /\ Frame(c, d, {l}, {l}) /\ Even(d, l)
    /\ \A x : Passed(c, l, x) \/ Owns(c, q, x) => Owns(d, q, x)
    /\ \A x : x # l /\ PassedOlder(c, l, x) => OwnsOlder(d, q, x)
    /\ \A r : Owns(c, r, l) => OwnsOlder(d, r, l)
    /\ \A k : Passed(c, k, l) => PassedOlder(d, k, l)
    /\ \A t, v : Holds(c, t, v) => Holds(d, t, v)
\* A wait_flag does so, behind the set_flag it matches.
LEMMA Take ==
    ASSUME NEW c, Sound(c), NEW q \in CubePipe, NEW p, NEW i, NEW l, l = <<p, q, i>>,
           Pending(c, l), NEW d, d = Append(c, wait_flag(p, q, i))
    PROVE  Takes(c, q, l, d)
  <1>1. AfterWait(c, q, l, d) /\ Whole(q) = q
    BY CubePipes, WaitRule
  <1>2. ASSUME NEW x, x # l PROVE StillSo(c, d, x, {l}) /\ OlderSo(c, d, x, {l})
    BY <1>1, <1>2 DEF AfterWait, StillSo, OlderSo, Kept
  <1>3. Frame(c, d, {l}, {l})
    <2>1. \A l1 : l1 # l => SameEvents(c, d, l1)
      BY <1>1 DEF AfterWait
    <2>2. \A x, j : <<x, j>> # l
      BY PlacesDiffer
    <2>3. PairsStay(c, d)
      BY <2>1, <2>2 DEF PairsStay
    <2>. QED  BY <1>1, <1>2, <2>1, <2>3 DEF Frame, AfterWait
  <1>4. ASSUME NEW t, NEW v, Holds(c, t, v) PROVE Holds(d, t, v)
    BY <1>1, <1>4 DEF AfterWait, Holds, SameAt
  <1>. QED  BY <1>1, <1>3, <1>4 DEF Takes, AfterWait

\* What a pipe posts and another one takes at once goes from the one to the
\* other.
HandsOver(c, p, q, l, d) ==
    /\ Frame(c, d, {l}, {l}) /\ Even(d, l)
    /\ \A x : Owns(c, p, x) \/ Owns(c, q, x) => Owns(d, q, x)
    /\ \A x : x # l /\ Owns(c, p, x) => Owns(d, p, x)
    /\ \A k : k # l /\ Passed(c, k, l) => PassedOlder(d, k, l)
    /\ \A t, v : Holds(c, t, v) => Holds(d, t, v)
\* A set_flag with its wait_flag right behind does so.
LEMMA HandOver ==
    ASSUME NEW c, Sound(c), NEW p \in CubePipe, NEW q \in CubePipe, NEW i, NEW l, l = <<p, q, i>>,
           Even(c, l), Room(c, p, l), NEW d, d = Append(Append(c, set_flag(p, q, i)), wait_flag(p, q, i))
    PROVE  HandsOver(c, p, q, l, d)
  <1>. DEFINE e == Append(c, set_flag(p, q, i))
  <1>1. Posts(c, p, l, e)
    BY Post
  <1>. HIDE DEF e
  <1>2. Takes(e, q, l, d)
    <2>1. Sound(e) /\ Pending(e, l)
      BY <1>1 DEF Posts, Frame
    <2>. QED  BY <2>1, Take DEF e
  <1>3. Frame(c, d, {l}, {l})
    <2>1. Frame(c, d, {} \union {l}, {l} \union {l})
      BY <1>1, <1>2, FrameOn DEF Posts, Takes
    <2>2. {} \union {l} = {l} /\ {l} \union {l} = {l}
      OBVIOUS
    <2>. QED  BY <2>1, <2>2
  <1>4. ASSUME NEW x, Owns(c, p, x) \/ Owns(c, q, x) PROVE Owns(d, q, x)
    <2>1. Passed(e, l, x) \/ Owns(e, q, x)
      BY <1>1, <1>4 DEF Posts, Frame, StillSo, Kept
    <2>. QED  BY <1>2, <2>1 DEF Takes
  <1>5. ASSUME NEW k, k # l, Passed(c, k, l) PROVE PassedOlder(d, k, l)
    <2>1. Passed(e, k, l)
      BY <1>1, <1>5 DEF Posts, Frame, StillSo
    <2>. QED  BY <1>2, <2>1 DEF Takes
  <1>6. ASSUME NEW t, NEW v, Holds(c, t, v) PROVE Holds(d, t, v)
    <2>1. Holds(e, t, v)
      BY <1>1, <1>6, HoldsOn DEF Posts, Frame, StillSo
    <2>. QED  BY <1>2, <2>1 DEF Takes
  <1>7. ASSUME NEW x, x # l, Owns(c, p, x) PROVE Owns(d, p, x)
    BY <1>3, <1>7 DEF Frame, StillSo, Kept
  <1>. QED  BY <1>2, <1>3, <1>4, <1>5, <1>6, <1>7 DEF HandsOver, Takes

\* A pipe works on places it owns.
Does(c, ins, d) ==
    /\ Frame(c, d, Footprint(ins), {})
    /\ \A x : Owns(c, ins.pipe, x) => Owns(d, ins.pipe, x)
    /\ \A t, v : Holds(c, t, v) /\ t \intersect ins.dst = {} => Holds(d, t, v)
\* An operation does so, and fills the places it writes.
LEMMA Do ==
    ASSUME NEW c, Sound(c), NEW ins, ins.kind = "op", ins.pipe \in CubePipe,
           \A x \in Footprint(ins) : Owns(c, ins.pipe, x),
           \A k \in DOMAIN ins.srcs : \A x \in ins.srcs[k] : Filled(c, x),
           NEW d, d = Append(c, ins)
    PROVE  Does(c, ins, d) /\ AfterOp(c, ins, d)
  <1>1. AfterOp(c, ins, d) /\ Whole(ins.pipe) = ins.pipe
    <2>1. AfterOp(c, ins, d)
      BY CubePipes, OpRule
    <2>. QED  BY <2>1, CubePipes
  <1>2. ins.dst \subseteq Footprint(ins)
    BY DEF Footprint
  <1>3. ASSUME NEW x, x \notin Footprint(ins) PROVE StillSo(c, d, x, {}) /\ OlderSo(c, d, x, {})
    BY <1>1, <1>2, <1>3 DEF AfterOp, StillSo, OlderSo, Kept
  <1>4. Frame(c, d, Footprint(ins), {})
    BY <1>1, <1>3 DEF Frame, AfterOp, PairsStay
  <1>5. ASSUME NEW t, NEW v, Holds(c, t, v), t \intersect ins.dst = {} PROVE Holds(d, t, v)
    BY <1>1, <1>5 DEF AfterOp, Holds, SameAt
  <1>6. \A x : Owns(c, ins.pipe, x) => Owns(d, ins.pipe, x)
    BY <1>1 DEF AfterOp
  <1>. QED  BY <1>1, <1>4, <1>5, <1>6 DEF Does

\* A load into place x,
LoadsInto(c, x, src, d) ==
    /\ Frame(c, d, {x}, {}) /\ Holds(d, {x}, Loaded(src))
    /\ \A y : Owns(c, "MTE2", y) => Owns(d, "MTE2", y)
\* is what TLOAD does, by the pipe MTE2,
LEMMA LoadInto ==
    ASSUME NEW c, Sound(c), NEW x, Owns(c, "MTE2", x), NEW src, NEW d, d = Append(c, TLOAD({x}, src))
    PROVE  LoadsInto(c, x, src, d)
  <1>. DEFINE ins == TLOAD({x}, src)
  <1>1. /\ ins.kind = "op" /\ ins.pipe = "MTE2" /\ ins.srcs = <<>> /\ ins.dst = {x} /\ ins.tag = <<"TLOAD", src>>
        /\ ins.add = FALSE /\ "MTE2" \in CubePipe
    BY DEF TLOAD, Op, CubePipe
  <1>2. d = Append(c, ins)
    OBVIOUS
  <1>. HIDE DEF ins
  <1>3. Footprint(ins) = {x}
    BY <1>1 DEF Footprint
  <1>4. Does(c, ins, d) /\ AfterOp(c, ins, d)
    <2>1. \A k \in DOMAIN ins.srcs : \A y \in ins.srcs[k] : Filled(c, y)
      BY <1>1
    <2>. QED  BY <1>1, <1>2, <1>3, <2>1, Do
  <1>5. Holds(d, {x}, Loaded(src))
    BY <1>1, <1>4, OpLeaves DEF Loaded
  <1>. QED  BY <1>1, <1>3, <1>4, <1>5 DEF Does, LoadsInto

\* a move of place y to x,
Extracted(p, v) == Term(<<"TEXTRACT", p>>, <<v>>)
Extracts(c, x, y, p, v, d) ==
    /\ Frame(c, d, {x, y}, {}) /\ Holds(d, {x}, Extracted(p, v))
    /\ \A z : Owns(c, "MTE1", z) => Owns(d, "MTE1", z)
    /\ \A t, w : Holds(c, t, w) /\ x \notin t => Holds(d, t, w)
\* is what TEXTRACT does, by MTE1,
LEMMA Extract ==
    ASSUME NEW c, Sound(c), NEW x, NEW y, Owns(c, "MTE1", x), Owns(c, "MTE1", y), NEW v, Holds(c, {y}, v), NEW p,
           NEW d, d = Append(c, TEXTRACT({x}, {y}, p))
    PROVE  Extracts(c, x, y, p, v, d)
  <1>. DEFINE ins == TEXTRACT({x}, {y}, p)
              t   == {y}
  <1>1. /\ ins.kind = "op" /\ ins.pipe = "MTE1" /\ ins.srcs = <<t>> /\ ins.dst = {x} /\ ins.tag = <<"TEXTRACT", p>>
        /\ ins.add = FALSE /\ "MTE1" \in CubePipe
    BY DEF TEXTRACT, Op, CubePipe
  <1>2. d = Append(c, ins) /\ Holds(c, t, v) /\ t # {}
    OBVIOUS
  <1>3. \A z : z \in t <=> z = y
    OBVIOUS
  <1>. HIDE DEF ins, t
  <1>4. \A z : z \in Footprint(ins) <=> z \in {x, y}
    BY <1>1, <1>3 DEF Footprint
  <1>5. Footprint(ins) = {x, y}
    BY <1>4
  <1>6. Does(c, ins, d) /\ AfterOp(c, ins, d)
    <2>1. \A k \in DOMAIN ins.srcs : \A z \in ins.srcs[k] : Filled(c, z)
      BY <1>1, <1>2 DEF Holds
    <2>. QED  BY <1>1, <1>2, <1>5, <2>1, Do
  <1>7. Holds(d, {x}, Extracted(p, v))
    BY <1>1, <1>2, <1>6, OpLeaves DEF Extracted
  <1>. QED  BY <1>1, <1>5, <1>6, <1>7 DEF Does, Extracts

\* and a product of places x and y, in place z or added to it.
Multiplied(v, w) == Term(<<"TMATMUL">>, <<v, w>>)
MatmulOp(init, z, x, y) == IF init THEN TMATMUL({z}, {x}, {y}) ELSE TMATMUL_ACC({z}, {x}, {y})
Accumulates(c, init, z, x, y, u, v, w, d) ==
    /\ Frame(c, d, {z, x, y}, {})
    /\ \A r : Owns(c, "M", r) => Owns(d, "M", r)
    /\ Holds(d, {z}, IF init THEN Multiplied(v, w) ELSE u \union Multiplied(v, w))
\* is what TMATMUL and TMATMUL_ACC do.
LEMMA Accumulate ==
    ASSUME NEW c, Sound(c), NEW x, NEW y, NEW z, Owns(c, "M", x), Owns(c, "M", y), Owns(c, "M", z),
           NEW v, NEW w, NEW u, Holds(c, {x}, v), Holds(c, {y}, w), NEW init \in BOOLEAN, init \/ Holds(c, {z}, u),
           NEW d, d = Append(c, MatmulOp(init, z, x, y))
    PROVE  Accumulates(c, init, z, x, y, u, v, w, d)
  <1>. DEFINE ins == MatmulOp(init, z, x, y)
              s   == {x}
              t   == {y}
  <1>1. /\ ins.kind = "op" /\ ins.pipe = "M" /\ ins.srcs = <<s, t>> /\ ins.dst = {z} /\ ins.tag = <<"TMATMUL">>
        /\ ins.add = ~init /\ "M" \in CubePipe
    <2>1. CASE init
      BY <2>1 DEF MatmulOp, TMATMUL, Op, CubePipe
    <2>2. CASE ~init
      BY <2>2 DEF MatmulOp, TMATMUL_ACC, OpAdd, Op, CubePipe
    <2>. QED  BY <2>1, <2>2
  <1>2. d = Append(c, ins) /\ Holds(c, s, v) /\ Holds(c, t, w) /\ s # {} /\ t # {}
    OBVIOUS
  <1>3. \A r : (r \in s <=> r = x) /\ (r \in t <=> r = y)
    OBVIOUS
  <1>. HIDE DEF ins, s, t
  <1>4. \A r : r \in Footprint(ins) <=> r \in {z, x, y}
    BY <1>1, <1>3 DEF Footprint
  <1>5. Footprint(ins) = {z, x, y}
    BY <1>4
  <1>6. Does(c, ins, d) /\ AfterOp(c, ins, d)
    <2>1. \A k \in DOMAIN ins.srcs : \A r \in ins.srcs[k] : Filled(c, r)
      BY <1>1, <1>2 DEF Holds
    <2>. QED  BY <1>1, <1>2, <1>5, <2>1, Do
  <1>7. Holds(d, {z}, IF init THEN Multiplied(v, w) ELSE u \union Multiplied(v, w))
    <2>1. Reads(c, ins.srcs) = <<v, w>>
      BY <1>1, <1>2, ReadsTwo
    <2>2. \A r \in ins.dst : Filled(d, r) /\ Mem(d, r) = IF ins.add THEN Mem(c, r) \union Term(ins.tag, Reads(c, ins.srcs))
                                                                    ELSE Term(ins.tag, Reads(c, ins.srcs))
      BY <1>6 DEF AfterOp, Reads
    <2>3. ~init => Mem(c, z) = u
      BY DEF Holds
    <2>. QED  BY <1>1, <2>1, <2>2, <2>3 DEF Holds, Multiplied
  <1>. QED  BY <1>1, <1>5, <1>6, <1>7 DEF Does, Accumulates

\* A few instructions more.
LEMMA Spell2 ==
    ASSUME NEW s, Text(s), NEW x, NEW y, NEW d, d = Append(Append(s, x), y)
    PROVE  s \o <<x, y>> = d /\ Text(<<x, y>>) /\ Text(d)
  <1>1. \A a, b : s \o <<a, b>> = Append(Append(s, a), b) /\ Text(<<a, b>>)
    BY OneByOne, ZenonT(30)
  <1>2. s \o <<x, y>> = d /\ Text(<<x, y>>)
    BY <1>1
  <1>. QED  BY <1>2, Joined
\* Three instructions more.
LEMMA Spell3 ==
    ASSUME NEW s, Text(s), NEW x, NEW y, NEW z, NEW d, d = Append(Append(Append(s, x), y), z)
    PROVE  s \o <<x, y, z>> = d /\ Text(<<x, y, z>>) /\ Text(d)
  <1>1. \A a, b, e : s \o <<a, b, e>> = Append(Append(Append(s, a), b), e) /\ Text(<<a, b, e>>)
    BY OneByOne, ZenonT(30)
  <1>2. s \o <<x, y, z>> = d /\ Text(<<x, y, z>>)
    BY <1>1
  <1>. QED  BY <1>2, Joined
\* Four instructions more.
LEMMA Spell4 ==
    ASSUME NEW s, Text(s), NEW x, NEW y, NEW z, NEW w, NEW d, d = Append(Append(Append(Append(s, x), y), z), w)
    PROVE  s \o <<x, y, z, w>> = d /\ Text(<<x, y, z, w>>) /\ Text(d)
  <1>1. \A a, b, e, f : s \o <<a, b, e, f>> = Append(Append(Append(Append(s, a), b), e), f) /\ Text(<<a, b, e, f>>)
    BY OneByOne, ZenonT(30)
  <1>2. s \o <<x, y, z, w>> = d /\ Text(<<x, y, z, w>>)
    BY <1>1
  <1>. QED  BY <1>2, Joined

-----------------------------------------------------------------------------
(* The places of the Cube core *)

\* Buffers 0 and 1 of A, and of B as 2 and 3, with the event of their loads
\* and the one that frees them.
L1(h) == IF h < 2 THEN <<"a_l1", h>> ELSE <<"b_l1", h - 2>>
Ld(h) == <<"MTE2", "MTE1", h>>
Fr(h) == <<"MTE1", "MTE2", h>>

\* Buffer r of L0, its event back to the moves, and those to the products.
A0(r) == <<"a_l0", r>>
B0(r) == <<"b_l0", r>>
Rd(r) == <<"M", "MTE1", r>>
Mu(i) == <<"MTE1", "M", i>>

\* Accumulator q, its event to the stores and the one back.
C0(q) == <<"c_l0", q>>
MF(q) == <<"M", "FIX", q>>
FM(q) == <<"FIX", "M", q>>

\* The parts of the core that are handed round together.
L1Half(h) == {L1(h), Ld(h), Fr(h)}
L0Both    == {A0(0), A0(1), B0(0), B0(1), Rd(0), Rd(1), Mu(0)}
AccOf(q)  == {C0(q), MF(q), FM(q)}
L1Four    == L1Half(0) \union L1Half(1) \union L1Half(2) \union L1Half(3)
Core      == L1Four \union L0Both \union AccOf(0) \union AccOf(1)

\* No place of a part is one of another part.
LEMMA HalvesDiffer ==
    ASSUME NEW h \in 0..3, NEW g \in 0..3, h # g
    PROVE  L1Half(h) \intersect L1Half(g) = {}
  <1>1. L1(h) # L1(g)
    BY PlacesDiffer DEF L1
  <1>2. Ld(h) # Ld(g) /\ Fr(h) # Fr(g)
    BY PlacesDiffer DEF Ld, Fr
  <1>3. Ld(h) # Fr(g) /\ Fr(h) # Ld(g)
    BY PlacesDiffer DEF Ld, Fr
  <1>4. L1(h) # Ld(g) /\ L1(h) # Fr(g) /\ L1(g) # Ld(h) /\ L1(g) # Fr(h)
    BY PlacesDiffer DEF L1, Ld, Fr
  <1>. QED  BY <1>1, <1>2, <1>3, <1>4 DEF L1Half

\* The places of one part differ from one another.
LEMMA HalfDiffers ==
    ASSUME NEW h \in 0..3
    PROVE  L1(h) # Ld(h) /\ L1(h) # Fr(h) /\ Ld(h) # Fr(h)
  BY PlacesDiffer DEF L1, Ld, Fr

\* So do those of L0,
LEMMA L0Differs ==
    ASSUME NEW r \in {0, 1}
    PROVE  /\ A0(r) # B0(r) /\ A0(r) # Rd(r) /\ B0(r) # Rd(r) /\ A0(r) # Mu(0) /\ B0(r) # Mu(0) /\ Rd(r) # Mu(0)
           /\ \A s \in {0, 1} : /\ s # r => A0(r) # A0(s) /\ B0(r) # B0(s) /\ Rd(r) # Rd(s)
                                /\ A0(r) # B0(s) /\ A0(r) # Rd(s) /\ B0(r) # Rd(s)
  BY PlacesDiffer DEF A0, B0, Rd, Mu

\* and those of an accumulator.
LEMMA AccDiffers ==
    ASSUME NEW q
    PROVE  C0(q) # MF(q) /\ C0(q) # FM(q) /\ MF(q) # FM(q)
  BY PlacesDiffer DEF C0, MF, FM

\* The buffers of L1, L0 and the accumulators share no place.
LEMMA PartsApart ==
    /\ \A h \in 0..3 : L1Half(h) \intersect L0Both = {}
    /\ \A h \in 0..3 : \A q : L1Half(h) \intersect AccOf(q) = {}
    /\ \A q : L0Both \intersect AccOf(q) = {}
    /\ AccOf(0) \intersect AccOf(1) = {}
  <1>1. ASSUME NEW h \in 0..3 PROVE L1Half(h) \intersect L0Both = {}
    <2>1. ASSUME NEW r PROVE L1(h) # A0(r) /\ L1(h) # B0(r) /\ L1(h) # Rd(r) /\ L1(h) # Mu(r)
      BY PlacesDiffer DEF L1, A0, B0, Rd, Mu
    <2>2. ASSUME NEW r PROVE Ld(h) # A0(r) /\ Ld(h) # B0(r) /\ Ld(h) # Rd(r) /\ Ld(h) # Mu(r)
      BY PlacesDiffer DEF Ld, A0, B0, Rd, Mu
    <2>3. ASSUME NEW r PROVE Fr(h) # A0(r) /\ Fr(h) # B0(r) /\ Fr(h) # Rd(r) /\ Fr(h) # Mu(r)
      BY PlacesDiffer DEF Fr, A0, B0, Rd, Mu
    <2>. QED  BY <2>1, <2>2, <2>3 DEF L1Half, L0Both
  <1>2. ASSUME NEW h \in 0..3, NEW q PROVE L1Half(h) \intersect AccOf(q) = {}
    <2>1. L1(h) # C0(q) /\ L1(h) # MF(q) /\ L1(h) # FM(q)
      BY PlacesDiffer DEF L1, C0, MF, FM
    <2>2. Ld(h) # C0(q) /\ Ld(h) # MF(q) /\ Ld(h) # FM(q)
      BY PlacesDiffer DEF Ld, C0, MF, FM
    <2>3. Fr(h) # C0(q) /\ Fr(h) # MF(q) /\ Fr(h) # FM(q)
      BY PlacesDiffer DEF Fr, C0, MF, FM
    <2>. QED  BY <2>1, <2>2, <2>3 DEF L1Half, AccOf
  <1>3. ASSUME NEW q PROVE L0Both \intersect AccOf(q) = {}
    <2>1. ASSUME NEW r PROVE /\ A0(r) # C0(q) /\ A0(r) # MF(q) /\ A0(r) # FM(q)
                             /\ B0(r) # C0(q) /\ B0(r) # MF(q) /\ B0(r) # FM(q)
      BY PlacesDiffer DEF A0, B0, C0, MF, FM
    <2>2. ASSUME NEW r PROVE /\ Rd(r) # C0(q) /\ Rd(r) # MF(q) /\ Rd(r) # FM(q)
                             /\ Mu(r) # C0(q) /\ Mu(r) # MF(q) /\ Mu(r) # FM(q)
      BY PlacesDiffer DEF Rd, Mu, C0, MF, FM
    <2>. QED  BY <2>1, <2>2 DEF L0Both, AccOf
  <1>4. AccOf(0) \intersect AccOf(1) = {}
    BY PlacesDiffer DEF AccOf, C0, MF, FM
  <1>. QED  BY <1>1, <1>2, <1>3, <1>4

\* No place of the output is one of the core's.
LEMMA ResApart ==
    ASSUME NEW t
    PROVE  /\ Res(t) \notin Core
           /\ \A s : Res(t) = Res(s) <=> t = s
  <1>1. \A h \in 0..3 : Res(t) \notin L1Half(h)
    BY PlacesDiffer DEF Res, L1Half, L1, Ld, Fr
  <1>2. Res(t) \notin L0Both
    BY PlacesDiffer DEF Res, L0Both, A0, B0, Rd, Mu
  <1>3. \A q : Res(t) \notin AccOf(q)
    BY PlacesDiffer DEF Res, AccOf, C0, MF, FM
  <1>4. \A s : Res(t) = Res(s) <=> t = s
    BY PlacesDiffer DEF Res
  <1>. QED  BY <1>1, <1>2, <1>3, <1>4 DEF Core, L1Four

\* From c to d nothing changes outside the parts in S.
Within(c, d, S) == Frame(c, d, S, S)

\* What c says of the places and lanes of a part K holds of d.
SameOn(c, d, K) ==
    /\ Sound(d)
    /\ \A x \in K : /\ Kept(c, d, x) /\ SameEvents(c, d, x)
                    /\ \A q : OwnsOlder(c, q, x) => OwnsOlder(d, q, x)
                    /\ \A l \in K : /\ Passed(c, l, x) => Passed(d, l, x)
                                    /\ PassedOlder(c, l, x) => PassedOlder(d, l, x)
\* A part outside of what changes stays as it is.
LEMMA WithinKeeps ==
    ASSUME NEW c, NEW d, NEW S, Within(c, d, S), NEW K, K \intersect S = {}
    PROVE  SameOn(c, d, K)
  <1>1. \A x \in K : x \notin S
    OBVIOUS
  <1>. QED  BY <1>1 DEF Within, Frame, StillSo, OlderSo, SameOn

\* One after the other.
LEMMA WithinOn ==
    ASSUME NEW c, NEW d, NEW e, NEW S, Within(c, d, S), Within(d, e, S)
    PROVE  Within(c, e, S)
  <1>1. Frame(c, e, S \union S, S \union S)
    BY FrameOn DEF Within
  <1>2. S \union S = S
    OBVIOUS
  <1>. QED  BY <1>1, <1>2 DEF Within

\* A change to less is a change within more.
LEMMA WithinWide ==
    ASSUME NEW c, NEW d, NEW X, NEW L, Frame(c, d, X, L), NEW S, X \subseteq S, L \subseteq S
    PROVE  Within(c, d, S)
  BY FrameWide DEF Within

-----------------------------------------------------------------------------
(* The buffers in L1 *)

\* A buffer free to be loaded, loaded, taken over, and at rest between tiles.
Freed(d, h) ==
    /\ Even(d, Ld(h)) /\ Pending(d, Fr(h))
    /\ Passed(d, Fr(h), L1(h)) /\ Passed(d, Fr(h), Ld(h))
    /\ Owns(d, "MTE2", Fr(h)) /\ Owns(d, "MTE1", L1(h)) /\ Owns(d, "MTE1", Ld(h))
Full(d, h, v) ==
    /\ Even(d, Fr(h)) /\ Pending(d, Ld(h))
    /\ Passed(d, Ld(h), L1(h)) /\ Passed(d, Ld(h), Fr(h))
    /\ Owns(d, "MTE2", Fr(h)) /\ Owns(d, "MTE1", Ld(h))
    /\ Holds(d, {L1(h)}, v)
Opened(d, h, v) ==
    /\ Even(d, Fr(h)) /\ Even(d, Ld(h))
    /\ Owns(d, "MTE2", Fr(h)) /\ Owns(d, "MTE1", L1(h)) /\ Owns(d, "MTE1", Ld(h)) /\ Owns(d, "MTE1", Fr(h))
    /\ Holds(d, {L1(h)}, v)
Known(d, h) == Owns(d, "MTE1", Fr(h))
Rested(d, h) ==
    /\ Even(d, Fr(h)) /\ Even(d, Ld(h))
    /\ Owns(d, "MTE2", Fr(h)) /\ Owns(d, "MTE1", L1(h)) /\ Owns(d, "MTE1", Ld(h)) /\ OwnsOlder(d, "MTE1", Fr(h))

\* They stay so as long as only other parts change.
LEMMA HalfStays ==
    ASSUME NEW c, NEW d, NEW h, SameOn(c, d, L1Half(h))
    PROVE  /\ Freed(c, h) => Freed(d, h)
           /\ \A v : Full(c, h, v) => Full(d, h, v)
           /\ \A v : Opened(c, h, v) => Opened(d, h, v)
           /\ Known(c, h) => Known(d, h)
           /\ Rested(c, h) => Rested(d, h)
  <1>1. L1(h) \in L1Half(h) /\ Ld(h) \in L1Half(h) /\ Fr(h) \in L1Half(h)
    BY DEF L1Half
  <1>2. /\ Even(c, Ld(h)) => Even(d, Ld(h))
        /\ Even(c, Fr(h)) => Even(d, Fr(h))
        /\ Pending(c, Ld(h)) => Pending(d, Ld(h))
        /\ Pending(c, Fr(h)) => Pending(d, Fr(h))
    BY <1>1 DEF SameOn, SameEvents
  <1>3. \A q : /\ Owns(c, q, L1(h)) => Owns(d, q, L1(h))
               /\ Owns(c, q, Ld(h)) => Owns(d, q, Ld(h))
               /\ Owns(c, q, Fr(h)) => Owns(d, q, Fr(h))
               /\ OwnsOlder(c, q, Fr(h)) => OwnsOlder(d, q, Fr(h))
    BY <1>1 DEF SameOn, Kept
  <1>4. /\ Passed(c, Fr(h), L1(h)) => Passed(d, Fr(h), L1(h))
        /\ Passed(c, Fr(h), Ld(h)) => Passed(d, Fr(h), Ld(h))
        /\ Passed(c, Ld(h), L1(h)) => Passed(d, Ld(h), L1(h))
        /\ Passed(c, Ld(h), Fr(h)) => Passed(d, Ld(h), Fr(h))
    BY <1>1 DEF SameOn
  <1>5. \A v : Holds(c, {L1(h)}, v) => Holds(d, {L1(h)}, v)
    BY <1>1, HoldsOn DEF SameOn
  <1>. QED  BY <1>2, <1>3, <1>4, <1>5 DEF Freed, Full, Opened, Known, Rested

\* Loading a buffer.
Fills(c, h, src, d) ==
    /\ Within(c, d, L1Half(h)) /\ Full(d, h, Loaded(src))
    /\ \A x : Owns(c, "MTE2", x) => Passed(d, Ld(h), x) /\ Owns(d, "MTE2", x)
\* LoadL1 does so for each of its two buffers.
LEMMA FillHalf ==
    ASSUME 1 <= MaxPosted, NEW h \in 0..3, NEW c, Sound(c), Freed(c, h), NEW src, NEW d,
           d = Append(Append(Append(c, wait_flag("MTE1", "MTE2", h)), TLOAD({L1(h)}, src)), set_flag("MTE2", "MTE1", h))
    PROVE  Fills(c, h, src, d)
  <1>. DEFINE e == Append(c, wait_flag("MTE1", "MTE2", h))
              f == Append(e, TLOAD({L1(h)}, src))
  <1>0. "MTE2" \in CubePipe /\ "MTE1" \in CubePipe /\ L1(h) # Ld(h) /\ L1(h) # Fr(h) /\ Ld(h) # Fr(h)
    BY HalfDiffers DEF CubePipe
  <1>1. Takes(c, "MTE2", Fr(h), e)
    BY <1>0, Take DEF Freed, Fr
  <1>2. Owns(e, "MTE2", L1(h)) /\ Owns(e, "MTE2", Ld(h)) /\ Owns(e, "MTE2", Fr(h)) /\ Sound(e)
    BY <1>1 DEF Freed, Takes, Frame
  <1>3. LoadsInto(e, L1(h), src, f)
    <2>. HIDE DEF e
    <2>. QED  BY <1>2, LoadInto
  <1>4. d = Append(f, set_flag("MTE2", "MTE1", h))
    OBVIOUS
  <1>5. Even(e, Fr(h)) /\ Even(e, Ld(h)) /\ Owns(e, "MTE1", Ld(h))
    BY <1>0, <1>1 DEF Freed, Takes, Frame, SameEvents, StillSo, Kept
  <1>. HIDE DEF e, f
  <1>6. Even(f, Fr(h)) /\ Even(f, Ld(h)) /\ Sound(f) /\ Owns(f, "MTE1", Ld(h))
    BY <1>0, <1>3, <1>5 DEF LoadsInto, Frame, SameEvents, StillSo, Kept
  <1>7. \A x : Owns(c, "MTE2", x) => Owns(f, "MTE2", x)
    BY <1>1, <1>3 DEF Takes, LoadsInto
  <1>8. Owns(f, "MTE2", L1(h)) /\ Owns(f, "MTE2", Ld(h)) /\ Owns(f, "MTE2", Fr(h))
    BY <1>2, <1>3 DEF LoadsInto
  <1>9. Posts(f, "MTE2", Ld(h), d)
    <2>1. Whole("MTE2") = "MTE2" /\ Room(f, "MTE2", Ld(h))
      BY <1>0, <1>8, CubePipes DEF Room
    <2>. QED  BY <1>0, <1>4, <1>6, <2>1, Post DEF Ld
  <1>10. Even(d, Fr(h)) /\ Pending(d, Ld(h))
    BY <1>0, <1>6, <1>9 DEF Posts, Frame, SameEvents
  <1>11. Passed(d, Ld(h), L1(h)) /\ Passed(d, Ld(h), Fr(h)) /\ Owns(d, "MTE2", Fr(h)) /\ Owns(d, "MTE1", Ld(h))
    BY <1>6, <1>8, <1>9 DEF Posts, Frame, StillSo, Kept
  <1>12. Holds(d, {L1(h)}, Loaded(src))
    <2>1. Holds(f, {L1(h)}, Loaded(src))
      BY <1>3 DEF LoadsInto
    <2>2. \A x \in {L1(h)} : Kept(f, d, x)
      BY <1>9 DEF Posts, Frame, StillSo
    <2>. QED  BY <2>1, <2>2, HoldsOn
  <1>13. \A x : Owns(c, "MTE2", x) => Passed(d, Ld(h), x) /\ Owns(d, "MTE2", x)
    BY <1>7, <1>9 DEF Posts
  <1>14. Within(c, d, L1Half(h))
    <2>1. {Fr(h)} \subseteq L1Half(h) /\ {L1(h)} \subseteq L1Half(h) /\ {Ld(h)} \subseteq L1Half(h) /\ {} \subseteq L1Half(h)
      BY DEF L1Half
    <2>2. Within(c, e, L1Half(h)) /\ Within(e, f, L1Half(h)) /\ Within(f, d, L1Half(h))
      BY <1>1, <1>3, <1>9, <2>1, WithinWide DEF Takes, LoadsInto, Posts
    <2>. QED  BY <2>2, WithinOn
  <1>. QED  BY <1>10, <1>11, <1>12, <1>13, <1>14 DEF Fills, Full

\* Taking a loaded buffer over, with all that its load has known.
Opens(c, h, v, d) ==
    /\ Within(c, d, L1Half(h)) /\ Opened(d, h, v)
    /\ \A x : Owns(c, "MTE1", x) \/ Passed(c, Ld(h), x) => Owns(d, "MTE1", x)
\* AwaitL1 does so for each of its two buffers.
LEMMA OpenHalf ==
    ASSUME NEW h \in 0..3, NEW c, Sound(c), NEW v, Full(c, h, v), NEW d, d = Append(c, wait_flag("MTE2", "MTE1", h))
    PROVE  Opens(c, h, v, d)
  <1>0. "MTE1" \in CubePipe /\ L1(h) # Ld(h) /\ L1(h) # Fr(h) /\ Ld(h) # Fr(h)
    BY HalfDiffers DEF CubePipe
  <1>1. Takes(c, "MTE1", Ld(h), d)
    BY <1>0, Take DEF Full, Ld
  <1>2. Even(d, Fr(h)) /\ Even(d, Ld(h)) /\ Owns(d, "MTE2", Fr(h))
    BY <1>0, <1>1 DEF Full, Takes, Frame, SameEvents, StillSo, Kept
  <1>3. Owns(d, "MTE1", L1(h)) /\ Owns(d, "MTE1", Ld(h)) /\ Owns(d, "MTE1", Fr(h)) /\ Holds(d, {L1(h)}, v)
    BY <1>1 DEF Full, Takes
  <1>4. Within(c, d, L1Half(h))
    <2>1. {Ld(h)} \subseteq L1Half(h)
      BY DEF L1Half
    <2>. QED  BY <1>1, <2>1, WithinWide DEF Takes
  <1>. QED  BY <1>1, <1>2, <1>3, <1>4 DEF Opens, Opened, Takes

\* Freeing a buffer that was taken over.
Frees(c, h, d) ==
    /\ Within(c, d, L1Half(h)) /\ Freed(d, h) /\ Known(d, h)
    /\ \A x : Owns(c, "MTE1", x) => Owns(d, "MTE1", x)
\* FreeL1 does so for each of its two buffers.
LEMMA FreeHalf ==
    ASSUME 1 <= MaxPosted, NEW h \in 0..3, NEW c, Sound(c), NEW v, Opened(c, h, v),
           NEW d, d = Append(c, set_flag("MTE1", "MTE2", h))
    PROVE  Frees(c, h, d)
  <1>0. "MTE1" \in CubePipe /\ L1(h) # Ld(h) /\ L1(h) # Fr(h) /\ Ld(h) # Fr(h)
    BY HalfDiffers DEF CubePipe
  <1>1. Posts(c, "MTE1", Fr(h), d)
    <2>1. Room(c, "MTE1", Fr(h))
      BY <1>0, CubePipes DEF Room, Opened
    <2>. QED  BY <1>0, <2>1, Post DEF Opened, Fr
  <1>2. Even(d, Ld(h)) /\ Pending(d, Fr(h)) /\ Owns(d, "MTE2", Fr(h))
    BY <1>0, <1>1 DEF Opened, Posts, Frame, SameEvents, StillSo, Kept
  <1>3. /\ Passed(d, Fr(h), L1(h)) /\ Passed(d, Fr(h), Ld(h))
        /\ Owns(d, "MTE1", L1(h)) /\ Owns(d, "MTE1", Ld(h)) /\ Owns(d, "MTE1", Fr(h))
    BY <1>1 DEF Opened, Posts
  <1>4. Within(c, d, L1Half(h))
    <2>1. {Fr(h)} \subseteq L1Half(h) /\ {} \subseteq L1Half(h)
      BY DEF L1Half
    <2>. QED  BY <1>1, <2>1, WithinWide DEF Posts
  <1>. QED  BY <1>1, <1>2, <1>3, <1>4 DEF Frees, Freed, Known, Posts

\* The first free event of a tile, and the last.
LEMMA PrimeHalf ==
    ASSUME 2 <= MaxPosted, NEW h \in 0..3, NEW c, Sound(c), Rested(c, h), NEW d, d = Append(c, set_flag("MTE1", "MTE2", h))
    PROVE  Within(c, d, L1Half(h)) /\ Freed(d, h)
  <1>0. "MTE1" \in CubePipe /\ L1(h) # Ld(h) /\ L1(h) # Fr(h) /\ Ld(h) # Fr(h)
    BY HalfDiffers DEF CubePipe
  <1>1. Posts(c, "MTE1", Fr(h), d)
    <2>1. Room(c, "MTE1", Fr(h))
      BY <1>0, CubePipes DEF Room, Rested
    <2>. QED  BY <1>0, <2>1, Post DEF Rested, Fr
  <1>2. Even(d, Ld(h)) /\ Pending(d, Fr(h)) /\ Owns(d, "MTE2", Fr(h))
    BY <1>0, <1>1 DEF Rested, Posts, Frame, SameEvents, StillSo, Kept
  <1>3. /\ Passed(d, Fr(h), L1(h)) /\ Passed(d, Fr(h), Ld(h))
        /\ Owns(d, "MTE1", L1(h)) /\ Owns(d, "MTE1", Ld(h))
    BY <1>1 DEF Rested, Posts
  <1>4. Within(c, d, L1Half(h))
    <2>1. {Fr(h)} \subseteq L1Half(h) /\ {} \subseteq L1Half(h)
      BY DEF L1Half
    <2>. QED  BY <1>1, <2>1, WithinWide DEF Posts
  <1>. QED  BY <1>2, <1>3, <1>4 DEF Freed

\* After the last wait the buffer rests again.
LEMMA RestHalf ==
    ASSUME NEW h \in 0..3, NEW c, Sound(c), Freed(c, h), Known(c, h), NEW d, d = Append(c, wait_flag("MTE1", "MTE2", h))
    PROVE  Within(c, d, L1Half(h)) /\ Rested(d, h)
  <1>0. "MTE2" \in CubePipe /\ L1(h) # Ld(h) /\ L1(h) # Fr(h) /\ Ld(h) # Fr(h)
    BY HalfDiffers DEF CubePipe
  <1>1. Takes(c, "MTE2", Fr(h), d)
    BY <1>0, Take DEF Freed, Fr
  <1>2. Even(d, Ld(h)) /\ Even(d, Fr(h)) /\ Owns(d, "MTE1", L1(h)) /\ Owns(d, "MTE1", Ld(h))
    BY <1>0, <1>1 DEF Freed, Takes, Frame, SameEvents, StillSo, Kept
  <1>3. Owns(d, "MTE2", Fr(h)) /\ OwnsOlder(d, "MTE1", Fr(h))
    BY <1>1 DEF Freed, Known, Takes
  <1>4. Within(c, d, L1Half(h))
    <2>1. {Fr(h)} \subseteq L1Half(h)
      BY DEF L1Half
    <2>. QED  BY <1>1, <2>1, WithinWide DEF Takes
  <1>. QED  BY <1>2, <1>3, <1>4 DEF Rested

-----------------------------------------------------------------------------
(* From L1 to the accumulator *)

\* Pieces of two tiles go to L0.
Unpacked(c, x, y, s, t, p, v, w, d) ==
    /\ Frame(c, d, {x, y, s, t}, {})
    /\ Holds(d, {x}, Extracted(p, v)) /\ Holds(d, {y}, Extracted(p, w)) /\ Holds(d, {s}, v) /\ Holds(d, {t}, w)
    /\ \A z : Owns(c, "MTE1", z) => Owns(d, "MTE1", z)
\* The two TEXTRACT of a phase do so.
LEMMA Unpack ==
    ASSUME NEW c, Sound(c), NEW x, NEW y, NEW s, NEW t, x \notin {y, s, t}, y \notin {s, t}, \A z \in {x, y, s, t} : Owns(c, "MTE1", z),
           NEW v, NEW w, Holds(c, {s}, v), Holds(c, {t}, w), NEW p,
           NEW d, d = Append(Append(c, TEXTRACT({x}, {s}, p)), TEXTRACT({y}, {t}, p))
    PROVE  Unpacked(c, x, y, s, t, p, v, w, d)
  <1>. DEFINE e == Append(c, TEXTRACT({x}, {s}, p))
  <1>1. Extracts(c, x, s, p, v, e)
    BY Extract
  <1>2. d = Append(e, TEXTRACT({y}, {t}, p))
    OBVIOUS
  <1>. HIDE DEF e
  <1>3. Sound(e) /\ Owns(e, "MTE1", y) /\ Owns(e, "MTE1", t) /\ Holds(e, {t}, w) /\ Holds(e, {s}, v)
    BY <1>1 DEF Extracts, Frame
  <1>4. Extracts(e, y, t, p, w, d)
    BY <1>2, <1>3, Extract
  <1>5. Frame(c, d, {x, y, s, t}, {})
    <2>1. {x, s} \union {y, t} = {x, y, s, t} /\ {} \union {} = {}
      OBVIOUS
    <2>2. Frame(c, d, {x, s} \union {y, t}, {} \union {})
      BY <1>1, <1>4, FrameOn DEF Extracts
    <2>. QED  BY <2>1, <2>2
  <1>6. Holds(d, {x}, Extracted(p, v)) /\ Holds(d, {s}, v) /\ Holds(d, {t}, w)
    <2>1. y \notin {x} /\ y \notin {s} /\ y \notin {t} /\ Holds(e, {x}, Extracted(p, v))
      BY <1>1 DEF Extracts
    <2>. QED  BY <1>3, <1>4, <2>1 DEF Extracts
  <1>. QED  BY <1>1, <1>4, <1>5, <1>6 DEF Unpacked, Extracts

\* They are handed to M, multiplied into place z, and handed back.
UsedUp(c, x, y, z, mu, rd, init, u, v, w, d) ==
    /\ Frame(c, d, {x, y, z, mu}, {mu, rd})
    /\ Even(d, mu) /\ Pending(d, rd)
    /\ \A r : Owns(c, "MTE1", r) \/ Owns(c, "M", r) => Owns(d, "M", r) /\ Passed(d, rd, r)
    /\ \A k : k # mu /\ k # rd /\ Passed(c, k, mu) => PassedOlder(d, k, mu)
    /\ Holds(d, {z}, IF init THEN Multiplied(v, w) ELSE u \union Multiplied(v, w))
\* The rest of a phase does so.
LEMMA Consume ==
    ASSUME 1 <= MaxPosted, NEW c, Sound(c), NEW x, NEW y, NEW z, NEW i, NEW j, NEW mu, NEW rd, mu = Mu(i), rd = Rd(j),
           Owns(c, "MTE1", x), Owns(c, "MTE1", y), Owns(c, "MTE1", rd), Owns(c, "M", z),
           Even(c, mu), Even(c, rd), Room(c, "MTE1", mu), mu \notin {x, y, z}, rd \notin {x, y, z},
           NEW v, NEW w, NEW u, Holds(c, {x}, v), Holds(c, {y}, w), NEW init \in BOOLEAN, init \/ Holds(c, {z}, u),
           NEW d, d = Append(Append(Append(Append(c, set_flag("MTE1", "M", i)), wait_flag("MTE1", "M", i)),
                                    MatmulOp(init, z, x, y)), set_flag("M", "MTE1", j))
    PROVE  UsedUp(c, x, y, z, mu, rd, init, u, v, w, d)
  <1>. DEFINE e == Append(Append(c, set_flag("MTE1", "M", i)), wait_flag("MTE1", "M", i))
              f == Append(e, MatmulOp(init, z, x, y))
  <1>0. "M" \in CubePipe /\ "MTE1" \in CubePipe /\ mu # rd
    BY PlacesDiffer DEF CubePipe, Mu, Rd
  <1>1. HandsOver(c, "MTE1", "M", mu, e)
    BY <1>0, HandOver DEF Mu
  <1>2. d = Append(f, set_flag("M", "MTE1", j))
    OBVIOUS
  <1>3. /\ Sound(e) /\ Owns(e, "M", x) /\ Owns(e, "M", y) /\ Owns(e, "M", z) /\ Owns(e, "M", rd)
        /\ Holds(e, {x}, v) /\ Holds(e, {y}, w) /\ (init \/ Holds(e, {z}, u))
        /\ Even(e, mu) /\ Even(e, rd)
    BY <1>0, <1>1 DEF HandsOver, Frame, SameEvents
  <1>4. Accumulates(e, init, z, x, y, u, v, w, f)
    <2>. HIDE DEF e
    <2>. QED  BY <1>3, Accumulate
  <1>. HIDE DEF e, f
  <1>5. Sound(f) /\ Owns(f, "M", rd) /\ Even(f, mu) /\ Even(f, rd)
    BY <1>3, <1>4 DEF Accumulates, Frame, SameEvents
  <1>6. Posts(f, "M", rd, d)
    <2>1. Room(f, "M", rd)
      BY <1>0, <1>5, CubePipes DEF Room
    <2>. QED  BY <1>0, <1>2, <1>5, <2>1, Post DEF Rd
  <1>7. Frame(c, d, {x, y, z, mu}, {mu, rd})
    <2>1. Frame(c, f, {mu} \union {z, x, y}, {mu} \union {})
      BY <1>1, <1>4, FrameOn DEF HandsOver, Accumulates
    <2>2. Frame(c, d, ({mu} \union {z, x, y}) \union {}, ({mu} \union {}) \union {rd})
      BY <1>6, <2>1, FrameOn DEF Posts
    <2>3. ({mu} \union {z, x, y}) \union {} = {x, y, z, mu} /\ ({mu} \union {}) \union {rd} = {mu, rd}
      OBVIOUS
    <2>. QED  BY <2>2, <2>3
  <1>8. Even(d, mu) /\ Pending(d, rd)
    BY <1>0, <1>5, <1>6 DEF Posts, Frame, SameEvents
  <1>9. ASSUME NEW r, Owns(c, "MTE1", r) \/ Owns(c, "M", r) PROVE Owns(d, "M", r) /\ Passed(d, rd, r)
    <2>1. Owns(e, "M", r)
      BY <1>1, <1>9 DEF HandsOver
    <2>2. Owns(f, "M", r)
      BY <1>4, <2>1 DEF Accumulates
    <2>. QED  BY <1>6, <2>2 DEF Posts
  <1>10. ASSUME NEW k, k # mu, k # rd, Passed(c, k, mu) PROVE PassedOlder(d, k, mu)
    <2>1. PassedOlder(e, k, mu)
      BY <1>1, <1>10 DEF HandsOver
    <2>2. PassedOlder(f, k, mu)
      BY <1>4, <2>1 DEF Accumulates, Frame, OlderSo
    <2>. QED  BY <1>6, <1>10, <2>2 DEF Posts, Frame, OlderSo
  <1>11. Holds(d, {z}, IF init THEN Multiplied(v, w) ELSE u \union Multiplied(v, w))
    <2>1. \A r \in {z} : Kept(f, d, r)
      BY <1>6 DEF Posts, Frame, StillSo
    <2>2. Holds(f, {z}, IF init THEN Multiplied(v, w) ELSE u \union Multiplied(v, w))
      BY <1>4 DEF Accumulates
    <2>. QED  BY <2>1, <2>2, HoldsOn
  <1>. QED  BY <1>7, <1>8, <1>9, <1>10, <1>11 DEF UsedUp

\* The buffers of L0 in turn, r next: each comes back with its event, and so
\* does the news that the other has been taken up.  Between tiles they rest.
BackTo(d, r) ==
    /\ Pending(d, Rd(r)) /\ Passed(d, Rd(r), A0(r)) /\ Passed(d, Rd(r), B0(r)) /\ Owns(d, "MTE1", Rd(r))
    /\ Owns(d, "M", A0(r)) /\ Owns(d, "M", B0(r))
Turn(d, r) ==
    /\ BackTo(d, 0) /\ BackTo(d, 1) /\ Even(d, Mu(0)) /\ Owns(d, "M", Mu(0))
    /\ PassedOlder(d, Rd(r), Mu(0)) /\ Passed(d, Rd(1 - r), Mu(0))
TurnKnown(d, r) == Turn(d, r) /\ Owns(d, "M", Rd(0)) /\ Owns(d, "M", Rd(1))
RestsAt(d, r) ==
    /\ Even(d, Rd(r)) /\ Owns(d, "MTE1", Rd(r)) /\ OwnsOlder(d, "M", Rd(r))
    /\ Owns(d, "M", A0(r)) /\ Owns(d, "M", B0(r))
L0Rests(d) == RestsAt(d, 0) /\ RestsAt(d, 1) /\ Even(d, Mu(0)) /\ Owns(d, "M", Mu(0))

\* They stay so as long as only other parts change.
LEMMA L0Stays ==
    ASSUME NEW c, NEW d, SameOn(c, d, L0Both), NEW r \in {0, 1}
    PROVE  /\ Turn(c, r) => Turn(d, r)
           /\ TurnKnown(c, r) => TurnKnown(d, r)
           /\ L0Rests(c) => L0Rests(d)
  <1>1. /\ A0(0) \in L0Both /\ A0(1) \in L0Both /\ B0(0) \in L0Both /\ B0(1) \in L0Both
        /\ Rd(0) \in L0Both /\ Rd(1) \in L0Both /\ Mu(0) \in L0Both
    BY DEF L0Both
  <1>2. ASSUME NEW s \in {0, 1} PROVE /\ BackTo(c, s) => BackTo(d, s)
                                      /\ RestsAt(c, s) => RestsAt(d, s)
    <2>1. A0(s) \in L0Both /\ B0(s) \in L0Both /\ Rd(s) \in L0Both
      BY <1>1
    <2>2. BackTo(c, s) => BackTo(d, s)
      BY <2>1 DEF SameOn, SameEvents, Kept, BackTo
    <2>3. RestsAt(c, s) => RestsAt(d, s)
      BY <2>1 DEF SameOn, SameEvents, Kept, RestsAt
    <2>. QED  BY <2>2, <2>3
  <1>3. Rd(r) \in L0Both /\ Rd(1 - r) \in L0Both
    BY <1>1
  <1>4. Turn(c, r) => Turn(d, r)
    BY <1>1, <1>2, <1>3 DEF SameOn, SameEvents, Kept, Turn
  <1>5. Owns(c, "M", Rd(0)) => Owns(d, "M", Rd(0))
    BY <1>1 DEF SameOn, Kept
  <1>6. Owns(c, "M", Rd(1)) => Owns(d, "M", Rd(1))
    BY <1>1 DEF SameOn, Kept
  <1>7. L0Rests(c) => L0Rests(d)
    BY <1>1, <1>2 DEF SameOn, SameEvents, Kept, L0Rests
  <1>. QED  BY <1>4, <1>5, <1>6, <1>7 DEF TurnKnown

\* What a phase changes: its buffers of L1, and L0.
Halves(b) == L1Half(b) \union L1Half(b + 2)
\* It is two of the buffers of L1, and nothing of the other two.
LEMMA HalvesApartFrom ==
    ASSUME NEW b \in {0, 1}
    PROVE  /\ b \in 0..3 /\ b + 2 \in 0..3 /\ b # b + 2
           /\ Halves(b) \intersect L0Both = {} /\ \A q : Halves(b) \intersect AccOf(q) = {}
           /\ Halves(b) \intersect Halves(1 - b) = {}
           /\ L1Half(b) \intersect L1Half(b + 2) = {}
  <1>1. b \in 0..3 /\ b + 2 \in 0..3 /\ 1 - b \in 0..3 /\ (1 - b) + 2 \in 0..3
    OBVIOUS
  <1>2. b # b + 2 /\ b # 1 - b /\ b # (1 - b) + 2 /\ b + 2 # 1 - b /\ b + 2 # (1 - b) + 2
    OBVIOUS
  <1>3. /\ L1Half(b) \intersect L1Half(1 - b) = {} /\ L1Half(b) \intersect L1Half((1 - b) + 2) = {}
        /\ L1Half(b + 2) \intersect L1Half(1 - b) = {} /\ L1Half(b + 2) \intersect L1Half((1 - b) + 2) = {}
        /\ L1Half(b) \intersect L1Half(b + 2) = {}
    BY <1>1, <1>2, HalvesDiffer
  <1>4. /\ L1Half(b) \intersect L0Both = {} /\ L1Half(b + 2) \intersect L0Both = {}
        /\ \A q : L1Half(b) \intersect AccOf(q) = {} /\ L1Half(b + 2) \intersect AccOf(q) = {}
    BY <1>1, PartsApart
  <1>. QED  BY <1>1, <1>2, <1>3, <1>4 DEF Halves

\* In the middle of a phase MTE1 has filled buffer r of L0.
Taken(e, r) ==
    /\ Owns(e, "MTE1", A0(r)) /\ Owns(e, "MTE1", B0(r)) /\ Owns(e, "MTE1", Rd(r)) /\ Even(e, Rd(r))
    /\ BackTo(e, 1 - r) /\ Even(e, Mu(0)) /\ Owns(e, "M", Mu(0))
    /\ OwnsOlder(e, "MTE1", Mu(0)) /\ Passed(e, Rd(1 - r), Mu(0))
Loaded2(e, r, v, w) == Holds(e, {A0(r)}, v) /\ Holds(e, {B0(r)}, w)
\* It stays so as long as only other parts change.
LEMMA TakenStays ==
    ASSUME NEW c, NEW d, SameOn(c, d, L0Both), NEW r \in {0, 1}
    PROVE  /\ Taken(c, r) => Taken(d, r)
           /\ \A v, w : Loaded2(c, r, v, w) => Loaded2(d, r, v, w)
  <1>1. /\ A0(r) \in L0Both /\ B0(r) \in L0Both /\ Rd(r) \in L0Both /\ Mu(0) \in L0Both
        /\ A0(1 - r) \in L0Both /\ B0(1 - r) \in L0Both /\ Rd(1 - r) \in L0Both
    BY DEF L0Both
  <1>2. BackTo(c, 1 - r) => BackTo(d, 1 - r)
    BY <1>1 DEF SameOn, SameEvents, Kept, BackTo
  <1>3. Taken(c, r) => Taken(d, r)
    BY <1>1, <1>2 DEF SameOn, SameEvents, Kept, Taken
  <1>4. ASSUME NEW v, NEW w, Loaded2(c, r, v, w) PROVE Loaded2(d, r, v, w)
    <2>1. Kept(c, d, A0(r)) /\ Kept(c, d, B0(r))
      BY <1>1 DEF SameOn
    <2>. QED  BY <1>4, <2>1, HoldsOn DEF Loaded2
  <1>. QED  BY <1>3, <1>4

\* Buffer r of L0 is taken up again.
LEMMA TakeUp ==
    ASSUME NEW r \in {0, 1}, NEW c, Sound(c), Turn(c, r), NEW d, d = Append(c, wait_flag("M", "MTE1", r))
    PROVE  Within(c, d, L0Both) /\ Taken(d, r)
  <1>0. /\ "MTE1" \in CubePipe /\ Rd(r) # Mu(0) /\ Rd(1 - r) # Rd(r) /\ A0(1 - r) # Rd(r) /\ B0(1 - r) # Rd(r)
        /\ 1 - r \in {0, 1}
    BY L0Differs DEF CubePipe
  <1>1. BackTo(c, r) /\ BackTo(c, 1 - r) /\ Even(c, Mu(0)) /\ Owns(c, "M", Mu(0))
        /\ PassedOlder(c, Rd(r), Mu(0)) /\ Passed(c, Rd(1 - r), Mu(0))
    BY DEF Turn
  <1>2. Takes(c, "MTE1", Rd(r), d)
    BY <1>0, <1>1, Take DEF BackTo, Rd
  <1>3. /\ Owns(d, "MTE1", A0(r)) /\ Owns(d, "MTE1", B0(r)) /\ Owns(d, "MTE1", Rd(r)) /\ Even(d, Rd(r))
        /\ OwnsOlder(d, "MTE1", Mu(0))
    BY <1>0, <1>1, <1>2 DEF Takes, BackTo
  <1>4. Even(d, Mu(0)) /\ Owns(d, "M", Mu(0)) /\ Passed(d, Rd(1 - r), Mu(0))
    BY <1>0, <1>1, <1>2 DEF Takes, Frame, SameEvents, StillSo, Kept
  <1>5. BackTo(d, 1 - r)
    BY <1>0, <1>1, <1>2 DEF Takes, Frame, SameEvents, StillSo, Kept, BackTo
  <1>6. Within(c, d, L0Both)
    <2>1. {Rd(r)} \subseteq L0Both
      BY DEF L0Both
    <2>. QED  BY <1>2, <2>1, WithinWide DEF Takes
  <1>. QED  BY <1>3, <1>4, <1>5, <1>6 DEF Taken

\* It is filled from buffers b of L1.
PhaseBegun(c, b, r, p, v, w, d) ==
    /\ Within(c, d, Halves(b) \union L0Both)
    /\ Taken(d, r) /\ Loaded2(d, r, Extracted(p, v), Extracted(p, w))
    /\ Opened(d, b, v) /\ Opened(d, b + 2, w)
\* The first half of a phase does so.
LEMMA PhaseHead ==
    ASSUME NEW b \in {0, 1}, NEW r \in {0, 1}, NEW c, Sound(c), Turn(c, r), NEW v, NEW w, Opened(c, b, v), Opened(c, b + 2, w),
           NEW p, NEW d, d = Append(Append(Append(c, wait_flag("M", "MTE1", r)), TEXTRACT({A0(r)}, {L1(b)}, p)),
                                    TEXTRACT({B0(r)}, {L1(b + 2)}, p))
    PROVE  PhaseBegun(c, b, r, p, v, w, d)
  <1>. DEFINE e == Append(c, wait_flag("M", "MTE1", r))
  <1>1. Within(c, e, L0Both) /\ Taken(e, r)
    BY TakeUp
  <1>2. d = Append(Append(e, TEXTRACT({A0(r)}, {L1(b)}, p)), TEXTRACT({B0(r)}, {L1(b + 2)}, p))
    OBVIOUS
  <1>. HIDE DEF e
  <1>3. /\ b \in 0..3 /\ b + 2 \in 0..3 /\ 1 - r \in {0, 1} /\ 1 - r # r
        /\ L1Half(b) \intersect L0Both = {} /\ L1Half(b + 2) \intersect L0Both = {}
        /\ L1Half(b) \intersect L1Half(b + 2) = {}
    BY HalvesApartFrom, PartsApart
  <1>4. Opened(e, b, v) /\ Opened(e, b + 2, w)
    <2>1. SameOn(c, e, L1Half(b)) /\ SameOn(c, e, L1Half(b + 2))
      BY <1>1, <1>3, WithinKeeps
    <2>. QED  BY <2>1, HalfStays
  <1>5. /\ L1(b) \in L1Half(b) /\ L1(b + 2) \in L1Half(b + 2) /\ Fr(b) \in L1Half(b) /\ Fr(b + 2) \in L1Half(b + 2)
        /\ A0(r) \in L0Both /\ B0(r) \in L0Both /\ Rd(r) \in L0Both /\ Mu(0) \in L0Both
        /\ A0(1 - r) \in L0Both /\ B0(1 - r) \in L0Both /\ Rd(1 - r) \in L0Both
    BY DEF L1Half, L0Both
  <1>6. A0(r) \notin {B0(r), L1(b), L1(b + 2)} /\ B0(r) \notin {L1(b), L1(b + 2)}
    BY <1>3, <1>5, L0Differs
  <1>7. Unpacked(e, A0(r), B0(r), L1(b), L1(b + 2), p, v, w, d)
    <2>1. Sound(e)
      BY <1>1 DEF Within, Frame
    <2>2. \A z \in {A0(r), B0(r), L1(b), L1(b + 2)} : Owns(e, "MTE1", z)
      BY <1>1, <1>4 DEF Taken, Opened
    <2>. QED  BY <1>2, <1>4, <1>6, <2>1, <2>2, Unpack DEF Opened
  <1>8. Within(c, d, Halves(b) \union L0Both)
    <2>. DEFINE S == Halves(b) \union L0Both
                X == {A0(r), B0(r), L1(b), L1(b + 2)}
                L == {}
    <2>1. X \subseteq S /\ L \subseteq S /\ L0Both \subseteq S
      BY <1>5 DEF Halves
    <2>2. Frame(e, d, X, L)
      BY <1>7 DEF Unpacked
    <2>. HIDE DEF S, X, L
    <2>3. Within(e, d, S)
      BY <2>1, <2>2, WithinWide
    <2>4. Within(c, e, S)
      BY <1>1, <2>1, WithinWide DEF Within
    <2>5. Within(c, d, S)
      BY <2>3, <2>4, WithinOn
    <2>. QED  BY <2>5 DEF S
  <1>9. Loaded2(d, r, Extracted(p, v), Extracted(p, w))
    BY <1>7 DEF Unpacked, Loaded2
  <1>10. /\ Fr(b) \notin {A0(r), B0(r), L1(b), L1(b + 2)} /\ Fr(b + 2) \notin {A0(r), B0(r), L1(b), L1(b + 2)}
    BY <1>3, <1>5, HalfDiffers
  <1>11. Opened(d, b, v)
    BY <1>4, <1>7, <1>10 DEF Opened, Unpacked, Frame, SameEvents, StillSo, Kept
  <1>12. Opened(d, b + 2, w)
    BY <1>4, <1>7, <1>10 DEF Opened, Unpacked, Frame, SameEvents, StillSo, Kept
  <1>13. Taken(d, r)
    <2>1. \A z \in {A0(1 - r), B0(1 - r), Rd(1 - r), Rd(r), Mu(0)} : z \notin {A0(r), B0(r), L1(b), L1(b + 2)}
      BY <1>3, <1>5, L0Differs
    <2>2. BackTo(d, 1 - r)
      BY <1>1, <1>7, <2>1 DEF Taken, BackTo, Unpacked, Frame, SameEvents, StillSo, Kept
    <2>3. Owns(d, "MTE1", A0(r)) /\ Owns(d, "MTE1", B0(r)) /\ Owns(d, "MTE1", Rd(r))
      BY <1>1, <1>7 DEF Taken, Unpacked
    <2>4. Even(d, Rd(r)) /\ Even(d, Mu(0))
      BY <1>1, <1>7 DEF Taken, Unpacked, Frame, SameEvents
    <2>5. Owns(d, "M", Mu(0)) /\ OwnsOlder(d, "MTE1", Mu(0)) /\ Passed(d, Rd(1 - r), Mu(0))
      BY <1>1, <1>7, <2>1 DEF Taken, Unpacked, Frame, StillSo, OlderSo, Kept
    <2>. QED  BY <2>2, <2>3, <2>4, <2>5 DEF Taken
  <1>. QED  BY <1>8, <1>9, <1>11, <1>12, <1>13 DEF PhaseBegun

\* M multiplies and gives buffer r back.
PhaseEnded(c, q, r, u, init, v, w, d) ==
    /\ Within(c, d, L0Both \union {C0(q)})
    /\ TurnKnown(d, 1 - r) /\ Owns(d, "M", C0(q))
    /\ Holds(d, {C0(q)}, IF init THEN Multiplied(v, w) ELSE u \union Multiplied(v, w))
\* The second half of a phase does so, with an event to spare on the lane.
LEMMA PhaseTail ==
    ASSUME 2 <= MaxPosted, MaxPosted \in Nat, NEW q, NEW r \in {0, 1}, NEW c, Sound(c), Taken(c, r), NEW v, NEW w, Loaded2(c, r, v, w),
           Owns(c, "M", C0(q)), NEW u, NEW init \in BOOLEAN, init \/ Holds(c, {C0(q)}, u),
           NEW d, d = Append(Append(Append(Append(c, set_flag("MTE1", "M", 0)), wait_flag("MTE1", "M", 0)),
                                    MatmulOp(init, C0(q), A0(r), B0(r))), set_flag("M", "MTE1", r))
    PROVE  PhaseEnded(c, q, r, u, init, v, w, d)
  <1>. DEFINE mu == Mu(0)
              rd == Rd(r)
  <1>1. mu = Mu(0) /\ rd = Rd(r)
    OBVIOUS
  <1>. HIDE DEF mu, rd
  <1>2. /\ 1 - r \in {0, 1} /\ 1 - (1 - r) = r /\ 1 - r # r /\ 1 <= MaxPosted
        /\ mu \notin {A0(r), B0(r), C0(q)} /\ rd \notin {A0(r), B0(r), C0(q)} /\ mu # rd
        /\ \A z \in {A0(1 - r), B0(1 - r), Rd(1 - r)} : z \notin {A0(r), B0(r), C0(q), mu, rd}
    <2>1. L0Both \intersect AccOf(q) = {}
      BY PartsApart
    <2>2. /\ C0(q) \in AccOf(q) /\ A0(r) \in L0Both /\ B0(r) \in L0Both /\ Rd(r) \in L0Both /\ Mu(0) \in L0Both
          /\ A0(1 - r) \in L0Both /\ B0(1 - r) \in L0Both /\ Rd(1 - r) \in L0Both
      BY DEF AccOf, L0Both
    <2>3. C0(q) \notin L0Both
      BY <2>1, <2>2
    <2>4. 1 - r \in {0, 1} /\ 1 - (1 - r) = r /\ 1 - r # r /\ 1 <= MaxPosted
      OBVIOUS
    <2>. QED  BY <1>1, <2>2, <2>3, <2>4, L0Differs
  <1>3. UsedUp(c, A0(r), B0(r), C0(q), mu, rd, init, u, v, w, d)
    <2>1. Room(c, "MTE1", mu)
      <3>1. Whole("MTE1") = "MTE1" /\ OwnsOlder(c, "MTE1", mu)
        BY <1>1, CubePipes DEF Taken, CubePipe
      <3>. QED  BY <3>1 DEF Room
    <2>2. Owns(c, "MTE1", A0(r)) /\ Owns(c, "MTE1", B0(r)) /\ Owns(c, "MTE1", rd) /\ Even(c, mu) /\ Even(c, rd)
      BY <1>1 DEF Taken
    <2>3. Holds(c, {A0(r)}, v) /\ Holds(c, {B0(r)}, w)
      BY DEF Loaded2
    <2>. QED  BY <1>1, <1>2, <2>1, <2>2, <2>3, Consume
  <1>4. /\ Even(d, mu) /\ Pending(d, rd) /\ Holds(d, {C0(q)}, IF init THEN Multiplied(v, w) ELSE u \union Multiplied(v, w))
        /\ Owns(d, "M", C0(q)) /\ Owns(d, "M", mu) /\ Passed(d, rd, mu)
        /\ Owns(d, "M", A0(r)) /\ Owns(d, "M", B0(r)) /\ Passed(d, rd, A0(r)) /\ Passed(d, rd, B0(r))
        /\ Owns(d, "M", rd) /\ Owns(d, "M", Rd(1 - r)) /\ PassedOlder(d, Rd(1 - r), mu)
    <2>1. Owns(c, "M", mu) /\ Owns(c, "MTE1", A0(r)) /\ Owns(c, "MTE1", B0(r)) /\ Owns(c, "MTE1", rd) /\ Owns(c, "MTE1", Rd(1 - r))
          /\ Passed(c, Rd(1 - r), mu)
      BY <1>1 DEF Taken, BackTo
    <2>2. Rd(1 - r) # mu /\ Rd(1 - r) # rd
      BY <1>2
    <2>. QED  BY <1>3, <2>1, <2>2 DEF UsedUp
  <1>5. BackTo(d, 1 - r)
    <2>1. BackTo(c, 1 - r)
      BY DEF Taken
    <2>2. \A z \in {A0(1 - r), B0(1 - r), Rd(1 - r)} : Kept(c, d, z) /\ (z \notin {mu, rd} => \A l : l \notin {mu, rd} => (Passed(c, l, z) => Passed(d, l, z)))
      BY <1>2, <1>3 DEF UsedUp, Frame, StillSo
    <2>3. SameEvents(c, d, Rd(1 - r))
      BY <1>2, <1>3 DEF UsedUp, Frame
    <2>. QED  BY <1>2, <2>1, <2>2, <2>3 DEF BackTo, Kept, SameEvents
  <1>6. BackTo(d, r)
    <2>1. Owns(d, "MTE1", rd)
      BY <1>1, <1>2, <1>3 DEF UsedUp, Frame, StillSo, Kept, Taken
    <2>. QED  BY <1>1, <1>4, <2>1 DEF BackTo
  <1>7. TurnKnown(d, 1 - r)
    <2>1. BackTo(d, 0) /\ BackTo(d, 1) /\ Owns(d, "M", Rd(0)) /\ Owns(d, "M", Rd(1))
      BY <1>1, <1>4, <1>5, <1>6
    <2>. QED  BY <1>1, <1>2, <1>4, <2>1 DEF TurnKnown, Turn
  <1>8. Within(c, d, L0Both \union {C0(q)})
    <2>1. {A0(r), B0(r), C0(q), mu} \subseteq L0Both \union {C0(q)} /\ {mu, rd} \subseteq L0Both \union {C0(q)}
      BY <1>1 DEF L0Both
    <2>. QED  BY <1>3, <2>1, WithinWide DEF UsedUp
  <1>. QED  BY <1>4, <1>7, <1>8 DEF PhaseEnded

\* A whole phase.
OpenedBoth(d, b, v, w) == Opened(d, b, v) /\ Opened(d, b + 2, w)
FreedBoth(d, b) == Freed(d, b) /\ Freed(d, b + 2) /\ Known(d, b) /\ Known(d, b + 2)
FreedIf(last, d, b, v, w) == IF last THEN FreedBoth(d, b) ELSE OpenedBoth(d, b, v, w)
\* The tiles of the schedules have one place each.
LEMMA TilesAre ==
    ASSUME NEW b \in {0, 1}
    PROVE  a_l1(b) = {L1(b)} /\ b_l1(b) = {L1(b + 2)} /\ a_l0(b) = {A0(b)} /\ b_l0(b) = {B0(b)} /\ c_l0(b) = {C0(b)}
  BY DEF a_l1, b_l1, a_l0, b_l0, c_l0, L1, A0, B0, C0

\* The buffers of L1 are freed with the last phase.
LEMMA FreesAfter ==
    ASSUME 1 <= MaxPosted, NEW b \in {0, 1}, NEW last \in BOOLEAN, NEW c, Sound(c), NEW v, NEW w, OpenedBoth(c, b, v, w),
           NEW d, d = c \o (IF last THEN FreeL1(b) ELSE <<>>)
    PROVE  Within(c, d, Halves(b)) /\ FreedIf(last, d, b, v, w)
  <1>0. Text(c) /\ b \in 0..3 /\ b + 2 \in 0..3 /\ L1Half(b) \intersect L1Half(b + 2) = {}
    BY HalvesApartFrom DEF Sound
  <1>1. CASE ~ last
    <2>1. d = c
      BY <1>0, <1>1, Joined, EmptyText
    <2>2. Within(c, c, Halves(b))
      <3>1. {} \subseteq Halves(b)
        OBVIOUS
      <3>. QED  BY <3>1, FrameSame, WithinWide
    <2>. QED  BY <1>1, <2>1, <2>2 DEF FreedIf
  <1>2. CASE last
    <2>. DEFINE e == Append(c, set_flag("MTE1", "MTE2", b))
                S == Halves(b)
    <2>1. d = Append(e, set_flag("MTE1", "MTE2", b + 2))
      <3>. QED  BY <1>0, <1>2, Spell2 DEF FreeL1
    <2>2. Frees(c, b, e)
      BY <1>0, FreeHalf DEF OpenedBoth
    <2>3. L1Half(b) \subseteq S /\ L1Half(b + 2) \subseteq S
      BY DEF Halves
    <2>. HIDE DEF e, S
    <2>4. Sound(e) /\ Opened(e, b + 2, w)
      <3>1. SameOn(c, e, L1Half(b + 2))
        BY <1>0, <2>2, WithinKeeps DEF Frees
      <3>. QED  BY <3>1, HalfStays DEF SameOn, OpenedBoth
    <2>5. Frees(e, b + 2, d)
      BY <1>0, <2>1, <2>4, FreeHalf
    <2>6. Freed(d, b) /\ Known(d, b)
      <3>1. SameOn(e, d, L1Half(b))
        BY <1>0, <2>5, WithinKeeps DEF Frees
      <3>. QED  BY <2>2, <3>1, HalfStays DEF Frees
    <2>7. Within(c, d, S)
      <3>1. Within(c, e, S) /\ Within(e, d, S)
        BY <2>2, <2>3, <2>5, WithinWide DEF Frees, Within
      <3>. QED  BY <3>1, WithinOn
    <2>. QED  BY <1>2, <2>5, <2>6, <2>7 DEF Frees, FreedIf, FreedBoth, S
  <1>. QED  BY <1>1, <1>2

PhaseCore(b, q) == Halves(b) \union L0Both \union {C0(q)}
PhaseDone(c, b, q, r, last, u, init, v, w, p, d) ==
    /\ Within(c, d, PhaseCore(b, q))
    /\ TurnKnown(d, 1 - r) /\ Owns(d, "M", C0(q)) /\ FreedIf(last, d, b, v, w)
    /\ Holds(d, {C0(q)}, IF init THEN Multiplied(Extracted(p, v), Extracted(p, w))
                                 ELSE u \union Multiplied(Extracted(p, v), Extracted(p, w)))
PhaseStart(c, b, r, p) ==
    Append(Append(Append(c, wait_flag("M", "MTE1", r)), TEXTRACT({A0(r)}, {L1(b)}, p)), TEXTRACT({B0(r)}, {L1(b + 2)}, p))
PhaseFinish(f, q, r, init) ==
    Append(Append(Append(Append(f, set_flag("MTE1", "M", 0)), wait_flag("MTE1", "M", 0)),
                  MatmulOp(init, C0(q), A0(r), B0(r))), set_flag("M", "MTE1", r))
AfterPhase(c, b, q, p, nP, r, init, d) == d = PhaseFinish(PhaseStart(c, b, r, p) \o FreeAfter(b, p, nP), q, r, init)
\* The text of a phase is its two halves with FreeAfter in between.
LEMMA PhaseIs ==
    ASSUME NEW b \in {0, 1}, NEW q \in {0, 1}, NEW p, NEW nP, NEW r \in {0, 1}, NEW init, NEW g, g % 2 = r,
           NEW c, Text(c), NEW d, d = c \o Phase(b, q, p, nP, g, init)
    PROVE  Text(Phase(b, q, p, nP, g, init)) /\ AfterPhase(c, b, q, p, nP, r, init, d)
  <1>. DEFINE i1 == wait_flag("M", "MTE1", r)
              i2 == TEXTRACT({A0(r)}, {L1(b)}, p)
              i3 == TEXTRACT({B0(r)}, {L1(b + 2)}, p)
              i4 == set_flag("MTE1", "M", 0)
              i5 == wait_flag("MTE1", "M", 0)
              i6 == MatmulOp(init, C0(q), A0(r), B0(r))
              i7 == set_flag("M", "MTE1", r)
              t == FreeAfter(b, p, nP)
              e == PhaseStart(c, b, r, p)
              f == e \o t
  <1>1. Phase(b, q, p, nP, g, init) = (<<i1, i2, i3>> \o t) \o <<i4, i5, i6, i7>>
    <2>2. /\ a_l1(b) = {L1(b)} /\ b_l1(b) = {L1(b + 2)} /\ a_l0(r) = {A0(r)} /\ b_l0(r) = {B0(r)}
          /\ c_l0(q) = {C0(q)}
      BY TilesAre
    <2>3. /\ i2 = TEXTRACT(a_l0(r), a_l1(b), p) /\ i3 = TEXTRACT(b_l0(r), b_l1(b), p)
          /\ i6 = IF init THEN TMATMUL(c_l0(q), a_l0(r), b_l0(r)) ELSE TMATMUL_ACC(c_l0(q), a_l0(r), b_l0(r))
      BY <2>2 DEF MatmulOp
    <2>. HIDE DEF i2, i3, i6, t
    <2>. QED  BY <2>3 DEF Phase, t, i1, i7
  <1>2. Text(t)
    <2>1. \A x, y : Text(<<x, y>>)
      BY Spell2, EmptyText
    <2>2. Text(FreeL1(b))
      BY <2>1 DEF FreeL1
    <2>. QED  BY <2>2, EmptyText DEF FreeAfter
  <1>3. e = Append(Append(Append(c, i1), i2), i3)
    BY DEF PhaseStart
  <1>. HIDE DEF i1, i2, i3, i4, i5, i6, i7, t, e
  <1>4. e = c \o <<i1, i2, i3>> /\ Text(<<i1, i2, i3>>) /\ Text(e)
    BY <1>3, Spell3
  <1>5. Text(<<i1, i2, i3>> \o t) /\ Text(f)
    BY <1>2, <1>4, Joined
  <1>. HIDE DEF f
  <1>6. f \o <<i4, i5, i6, i7>> = Append(Append(Append(Append(f, i4), i5), i6), i7) /\ Text(<<i4, i5, i6, i7>>)
    BY <1>5, Spell4
  <1>7. c \o ((<<i1, i2, i3>> \o t) \o <<i4, i5, i6, i7>>) = f \o <<i4, i5, i6, i7>>
    <2>1. c \o ((<<i1, i2, i3>> \o t) \o <<i4, i5, i6, i7>>) = (c \o (<<i1, i2, i3>> \o t)) \o <<i4, i5, i6, i7>>
      BY <1>5, <1>6, Associates, SMTT(30)
    <2>2. c \o (<<i1, i2, i3>> \o t) = (c \o <<i1, i2, i3>>) \o t
      BY <1>2, <1>4, Associates, SMTT(30)
    <2>. QED  BY <1>4, <2>1, <2>2 DEF f
  <1>8. Text((<<i1, i2, i3>> \o t) \o <<i4, i5, i6, i7>>)
    BY <1>5, <1>6, Joined
  <1>9. PhaseFinish(f, q, r, init) = Append(Append(Append(Append(f, i4), i5), i6), i7)
    BY DEF PhaseFinish, i4, i5, i6, i7
  <1>. QED  BY <1>1, <1>6, <1>7, <1>8, <1>9 DEF f, t, e, AfterPhase

\* A phase adds one product to its accumulator, and leaves the other buffer of
\* L0 to be the next.
LEMMA PhaseRuns ==
    ASSUME 2 <= MaxPosted, MaxPosted \in Nat, NEW b \in {0, 1}, NEW q \in {0, 1}, NEW p, NEW nP, NEW init \in BOOLEAN,
           NEW r \in {0, 1}, NEW last \in BOOLEAN, last <=> p = nP - 1,
           NEW c, Sound(c), Turn(c, r), NEW v, NEW w, OpenedBoth(c, b, v, w), Owns(c, "M", C0(q)),
           NEW u, init \/ Holds(c, {C0(q)}, u),
           NEW d, AfterPhase(c, b, q, p, nP, r, init, d)
    PROVE  PhaseDone(c, b, q, r, last, u, init, v, w, p, d)
  <1>. DEFINE e == PhaseStart(c, b, r, p)
              f == e \o FreeAfter(b, p, nP)
  <1>0. r \in {0, 1} /\ 1 <= MaxPosted /\ Text(c)
    BY DEF Sound
  <1>1. d = PhaseFinish(f, q, r, init)
    BY DEF AfterPhase
  <1>2. PhaseBegun(c, b, r, p, v, w, e)
    BY <1>0, PhaseHead DEF OpenedBoth, PhaseStart
  <1>3. f = e \o (IF last THEN FreeL1(b) ELSE <<>>)
    BY DEF FreeAfter
  <1>. HIDE DEF e, f
  <1>4. Sound(e) /\ OpenedBoth(e, b, v, w)
    BY <1>2 DEF PhaseBegun, OpenedBoth, Within, Frame
  <1>5. Within(e, f, Halves(b)) /\ FreedIf(last, f, b, v, w)
    BY <1>0, <1>3, <1>4, FreesAfter
  <1>6. /\ Halves(b) \intersect L0Both = {} /\ Halves(b) \intersect AccOf(q) = {} /\ L0Both \intersect AccOf(q) = {}
        /\ C0(q) \in AccOf(q)
    BY HalvesApartFrom, PartsApart DEF AccOf
  <1>7. Sound(f) /\ Taken(f, r) /\ Loaded2(f, r, Extracted(p, v), Extracted(p, w))
    <2>1. SameOn(e, f, L0Both)
      BY <1>5, <1>6, WithinKeeps
    <2>. QED  BY <1>0, <1>2, <2>1, TakenStays DEF PhaseBegun, SameOn
  <1>8. Kept(c, f, C0(q))
    <2>1. C0(q) \notin Halves(b) /\ C0(q) \notin L0Both
      BY <1>6
    <2>2. Kept(c, e, C0(q))
      BY <1>2, <2>1 DEF PhaseBegun, Within, Frame, StillSo
    <2>3. Kept(e, f, C0(q))
      BY <1>5, <2>1 DEF Within, Frame, StillSo
    <2>. QED  BY <2>2, <2>3, KeptOn
  <1>9. Owns(f, "M", C0(q)) /\ (init \/ Holds(f, {C0(q)}, u))
    <2>1. Owns(f, "M", C0(q))
      BY <1>8 DEF Kept
    <2>2. Holds(c, {C0(q)}, u) => Holds(f, {C0(q)}, u)
      BY <1>8, HoldsOn
    <2>. QED  BY <2>1, <2>2
  <1>10. PhaseEnded(f, q, r, u, init, Extracted(p, v), Extracted(p, w), d)
    BY <1>0, <1>1, <1>7, <1>9, PhaseTail DEF PhaseFinish
  <1>11. FreedIf(last, d, b, v, w)
    <2>1. /\ L1Half(b) \intersect (L0Both \union {C0(q)}) = {}
          /\ L1Half(b + 2) \intersect (L0Both \union {C0(q)}) = {}
      BY <1>6 DEF Halves
    <2>2. SameOn(f, d, L1Half(b)) /\ SameOn(f, d, L1Half(b + 2))
      BY <1>10, <2>1, WithinKeeps DEF PhaseEnded
    <2>. QED  BY <1>5, <2>2, HalfStays DEF FreedIf, FreedBoth, OpenedBoth
  <1>12. Within(c, d, PhaseCore(b, q))
    <2>. DEFINE S == PhaseCore(b, q)
                X == Halves(b) \union L0Both
                Y == Halves(b)
                Z == L0Both \union {C0(q)}
    <2>1. X \subseteq S /\ Y \subseteq S /\ Z \subseteq S
      BY DEF PhaseCore
    <2>2. Within(c, e, X) /\ Within(e, f, Y) /\ Within(f, d, Z)
      BY <1>2, <1>5, <1>10 DEF PhaseBegun, PhaseEnded
    <2>. HIDE DEF S, X, Y, Z
    <2>3. Within(c, e, S) /\ Within(e, f, S) /\ Within(f, d, S)
      BY <2>1, <2>2, WithinWide DEF Within
    <2>4. Within(c, d, S)
      BY <2>3, WithinOn
    <2>. QED  BY <2>4 DEF S
  <1>. QED  BY <1>10, <1>11, <1>12 DEF PhaseEnded, PhaseDone

\* The sum of the products of some pieces of tile t.
Sum(t, S) == UNION {Multiplied(Piece("A", t, kp), Piece("B", t, kp)) : kp \in S}
Pieces(c, p, nP) == ((0..(c - 1)) \X (0..(nP - 1))) \union ({c} \X (0..(p - 1)))
\* The sum grows by the product of each piece.
LEMMA SumAdds ==
    ASSUME NEW t, NEW k, NEW p
    PROVE  /\ Piece("A", t, <<k, p>>) = Extracted(p, Loaded(<<"A", t, k>>))
           /\ Piece("B", t, <<k, p>>) = Extracted(p, Loaded(<<"B", t, k>>))
           /\ \A S : Sum(t, S \union {<<k, p>>})
                       = Sum(t, S) \union Multiplied(Extracted(p, Loaded(<<"A", t, k>>)), Extracted(p, Loaded(<<"B", t, k>>)))
           /\ Sum(t, {<<k, p>>}) = Multiplied(Extracted(p, Loaded(<<"A", t, k>>)), Extracted(p, Loaded(<<"B", t, k>>)))
  <1>1. /\ Piece("A", t, <<k, p>>) = Extracted(p, Loaded(<<"A", t, k>>))
        /\ Piece("B", t, <<k, p>>) = Extracted(p, Loaded(<<"B", t, k>>))
    BY DEF Piece, Extracted, Loaded
  <1>. DEFINE kq == <<k, p>>
              m(kp) == Multiplied(Piece("A", t, kp), Piece("B", t, kp))
  <1>2. /\ \A S : UNION {m(kp) : kp \in S \union {kq}} = (UNION {m(kp) : kp \in S}) \union m(kq)
        /\ UNION {m(kp) : kp \in {kq}} = m(kq)
    <2>. HIDE DEF m, kq
    <2>. QED  OBVIOUS
  <1>. QED  BY <1>1, <1>2 DEF Sum
\* The pieces of the chunks in front of c, and of the first p phases of c.
LEMMA PiecesAre ==
    ASSUME NEW c \in Nat, NEW nP \in Nat
    PROVE  /\ Pieces(0, 0, nP) = {} /\ Pieces(c, nP, nP) = Pieces(c + 1, 0, nP)
           /\ Pieces(c, 0, nP) = (0..(c - 1)) \X (0..(nP - 1))
           /\ \A p \in Nat : Pieces(c, p + 1, nP) = Pieces(c, p, nP) \union {<<c, p>>}
  <1>1. \A i, j, k : k \in Nat => /\ k \in (0..(k + 1 - 1))
                                  /\ (0..(k + 1 - 1)) = (0..(k - 1)) \union {k}
                                  /\ 0..(0 - 1) = {}
    OBVIOUS
  <1>2. \A X, Y, x : (X \union {x}) \X Y = (X \X Y) \union ({x} \X Y) /\ {x} \X {} = {} /\ {} \X Y = {}
    OBVIOUS
  <1>3. \A X, x, y : {x} \X (X \union {y}) = ({x} \X X) \union {<<x, y>>}
    OBVIOUS
  <1>4. Pieces(0, 0, nP) = {} /\ Pieces(c, 0, nP) = (0..(c - 1)) \X (0..(nP - 1))
    BY <1>1, <1>2 DEF Pieces
  <1>5. Pieces(c, nP, nP) = Pieces(c + 1, 0, nP)
    BY <1>1, <1>2 DEF Pieces
  <1>6. ASSUME NEW p \in Nat PROVE Pieces(c, p + 1, nP) = Pieces(c, p, nP) \union {<<c, p>>}
    BY <1>1, <1>3 DEF Pieces
  <1>. QED  BY <1>4, <1>5, <1>6

\* The buffers of L0 alternate.
LEMMA Alternates ==
    ASSUME NEW g \in Nat
    PROVE  g % 2 \in {0, 1} /\ (g + 1) % 2 = 1 - (g % 2) /\ (g + 1) % 2 \in {0, 1}
  OBVIOUS

\* The phases of chunk ch of tile t, from buffers b into accumulator q.
PieceA(t, ch) == Loaded(<<"A", t, ch>>)
PieceB(t, ch) == Loaded(<<"B", t, ch>>)
InPhases(c, b, q, t, ch, nP, g, k, d) ==
    /\ Within(c, d, PhaseCore(b, q)) /\ Turn(d, (g + k) % 2) /\ Owns(d, "M", C0(q))
    /\ k > 0 => TurnKnown(d, (g + k) % 2)
    /\ ch > 0 \/ k > 0 => Holds(d, {C0(q)}, Sum(t, Pieces(ch, k, nP)))
    /\ FreedIf(k = nP, d, b, PieceA(t, ch), PieceB(t, ch))
\* Each phase adds its piece,
LEMMA NextPhase ==
    ASSUME 2 <= MaxPosted, MaxPosted \in Nat, NEW b \in {0, 1}, NEW q \in {0, 1}, NEW t, NEW ch \in Nat,
           NEW nP \in Nat, NEW g \in Nat, NEW k \in 0..(nP - 1), NEW c, NEW e, InPhases(c, b, q, t, ch, nP, g, k, e),
           NEW init \in BOOLEAN, init <=> ch = 0 /\ k = 0,
           NEW d, d = e \o Phase(b, q, k, nP, g + k, init)
    PROVE  InPhases(c, b, q, t, ch, nP, g, k + 1, d)
  <1>. DEFINE r == (g + k) % 2
              last == k = nP - 1
              v == PieceA(t, ch)
              w == PieceB(t, ch)
              u == Sum(t, Pieces(ch, k, nP))
              S == PhaseCore(b, q)
              m == Multiplied(Extracted(k, v), Extracted(k, w))
  <1>1. g + k \in Nat /\ r \in {0, 1} /\ (g + k) + 1 = g + (k + 1) /\ ((g + k) + 1) % 2 = 1 - r
    BY Alternates
  <1>2. last \in BOOLEAN /\ (last <=> k = nP - 1) /\ (last <=> k + 1 = nP) /\ k # nP /\ k + 1 > 0 /\ k \in Nat
    OBVIOUS
  <1>3. Sound(e) /\ Turn(e, r) /\ OpenedBoth(e, b, v, w) /\ Owns(e, "M", C0(q)) /\ (init \/ Holds(e, {C0(q)}, u)) /\ Within(c, e, S)
    BY <1>2 DEF InPhases, Within, Frame, FreedIf
  <1>. HIDE DEF r, last, v, w, u, S
  <1>4. AfterPhase(e, b, q, k, nP, r, init, d)
    <2>1. Text(e)
      BY <1>3 DEF Sound
    <2>. QED  BY <1>1, <2>1, PhaseIs DEF r
  <1>5. PhaseDone(e, b, q, r, last, u, init, v, w, k, d)
    BY <1>1, <1>2, <1>3, <1>4, PhaseRuns, ZenonT(30)
  <1>6. Sum(t, Pieces(ch, k + 1, nP)) = IF init THEN m ELSE u \union m
    <2>1. Pieces(ch, k + 1, nP) = Pieces(ch, k, nP) \union {<<ch, k>>}
      <3>1. \A p \in Nat : Pieces(ch, p + 1, nP) = Pieces(ch, p, nP) \union {<<ch, p>>}
        BY PiecesAre
      <3>. QED  BY <1>2, <3>1
    <2>2. init => Pieces(ch, k, nP) = {}
      BY PiecesAre
    <2>3. Sum(t, Pieces(ch, k, nP) \union {<<ch, k>>}) = u \union m
      BY SumAdds DEF u, v, w, PieceA, PieceB
    <2>4. init => Sum(t, Pieces(ch, k, nP) \union {<<ch, k>>}) = m
      <3>1. \A X : X = {} => X \union {<<ch, k>>} = {<<ch, k>>}
        OBVIOUS
      <3>2. Sum(t, {<<ch, k>>}) = m
        BY SumAdds DEF v, w, PieceA, PieceB
      <3>. QED  BY <2>2, <3>1, <3>2
    <2>. HIDE DEF m
    <2>. QED  BY <2>1, <2>3, <2>4
  <1>7. Within(c, d, S)
    BY <1>3, <1>5, WithinOn DEF PhaseDone, S
  <1>8. TurnKnown(d, (g + (k + 1)) % 2)
    BY <1>1, <1>5 DEF PhaseDone
  <1>9. Turn(d, (g + (k + 1)) % 2)
    BY <1>8 DEF TurnKnown
  <1>10. Holds(d, {C0(q)}, Sum(t, Pieces(ch, k + 1, nP)))
    BY <1>5, <1>6 DEF PhaseDone
  <1>11. FreedIf(k + 1 = nP, d, b, PieceA(t, ch), PieceB(t, ch))
    BY <1>2, <1>5 DEF PhaseDone, v, w, FreedIf
  <1>. QED  BY <1>5, <1>7, <1>8, <1>9, <1>10, <1>11 DEF PhaseDone, InPhases, S

\* The phases of a chunk, one by one.
PhaseList(f, b, q, ch, nP, g) ==
    /\ Text(f) /\ Len(f) = nP
    /\ \A k \in 1..nP : \E init \in BOOLEAN : (init <=> ch = 0 /\ k = 1) /\ f[k] = Phase(b, q, k - 1, nP, g + (k - 1), init)
\* and the loop of them adds all the pieces of the chunk.
LEMMA AllPhases ==
    ASSUME 2 <= MaxPosted, MaxPosted \in Nat, NEW b \in {0, 1}, NEW q \in {0, 1}, NEW t, NEW ch \in Nat,
           NEW nP \in Nat \ {0}, NEW g \in Nat,
           NEW f, PhaseList(f, b, q, ch, nP, g),
           NEW c, Sound(c), Turn(c, g % 2), OpenedBoth(c, b, PieceA(t, ch), PieceB(t, ch)), Owns(c, "M", C0(q)),
           ch > 0 => Holds(c, {C0(q)}, Sum(t, Pieces(ch, 0, nP))), NEW d, d = c \o FlattenSeq(f)
    PROVE  InPhases(c, b, q, t, ch, nP, g, nP, d)
  <1>0. /\ Text(c) /\ Text(f) /\ Len(f) = nP
        /\ \A k \in 1..nP : \E init \in BOOLEAN : (init <=> ch = 0 /\ k = 1) /\ f[k] = Phase(b, q, k - 1, nP, g + (k - 1), init)
    BY DEF PhaseList, Sound
  <1>1. \A k \in 1..nP : Text(f[k])
    <2>. SUFFICES ASSUME NEW k \in 1..nP PROVE Text(f[k])
      OBVIOUS
    <2>1. PICK init \in BOOLEAN : f[k] = Phase(b, q, k - 1, nP, g + (k - 1), init)
      BY <1>0
    <2>2. g + (k - 1) \in Nat /\ (g + (k - 1)) % 2 \in {0, 1}
      OBVIOUS
    <2>. DEFINE r == (g + (k - 1)) % 2
                h == g + (k - 1)
    <2>3. r \in {0, 1} /\ r = h % 2
      BY <2>2
    <2>. HIDE DEF r, h
    <2>4. Text(Phase(b, q, k - 1, nP, h, init))
      BY <1>0, <2>3, PhaseIs
    <2>. QED  BY <2>1, <2>4 DEF h
  <1>2. PICK w : Text(FlattenSeq(f)) /\ Runs(c, f, nP, w)
    BY <1>0, <1>1, Unrolled
  <1>. DEFINE S == {k \in 0..nP : InPhases(c, b, q, t, ch, nP, g, k, w[k])}
  <1>3. 0 \in S
    <2>1. w[0] = c
      BY <1>2 DEF Runs
    <2>2. Within(c, c, PhaseCore(b, q))
      <3>1. {} \subseteq PhaseCore(b, q)
        OBVIOUS
      <3>. QED  BY <3>1, FrameSame, WithinWide
    <2>3. (g + 0) = g /\ ~ (0 > 0) /\ 0 # nP /\ 0 \in 0..nP
      OBVIOUS
    <2>4. InPhases(c, b, q, t, ch, nP, g, 0, c)
      BY <2>2, <2>3 DEF InPhases, FreedIf
    <2>. QED  BY <2>1, <2>3, <2>4
  <1>4. ASSUME NEW k \in 0..(nP - 1), k \in S PROVE k + 1 \in S
    <2>1. k + 1 \in 1..nP /\ (k + 1) - 1 = k /\ (k + 1 = 1 <=> k = 0) /\ k + 1 \in 0..nP
      OBVIOUS
    <2>2. w[k + 1] = w[k] \o f[k + 1]
      BY <1>2, <2>1 DEF Runs
    <2>3. PICK init \in BOOLEAN : (init <=> ch = 0 /\ k + 1 = 1) /\ f[k + 1] = Phase(b, q, (k + 1) - 1, nP, g + ((k + 1) - 1), init)
      BY <1>0, <2>1
    <2>4. (init <=> ch = 0 /\ k = 0) /\ w[k + 1] = w[k] \o Phase(b, q, k, nP, g + k, init)
      BY <2>1, <2>2, <2>3
    <2>5. InPhases(c, b, q, t, ch, nP, g, k, w[k])
      BY <1>4
    <2>6. InPhases(c, b, q, t, ch, nP, g, k + 1, w[k + 1])
      <3>. DEFINE e == w[k]
                  h == w[k + 1]
      <3>1. h = e \o Phase(b, q, k, nP, g + k, init) /\ InPhases(c, b, q, t, ch, nP, g, k, e)
        BY <2>4, <2>5
      <3>2. (init <=> ch = 0 /\ k = 0) /\ nP \in Nat
        BY <2>4
      <3>. HIDE DEF h, e
      <3>3. InPhases(c, b, q, t, ch, nP, g, k + 1, h)
        BY <3>1, <3>2, NextPhase
      <3>. QED  BY <3>3 DEF h
    <2>. QED  BY <2>1, <2>6
  <1>5. nP \in S
    <2>1. 0..nP \subseteq S
      <3>. HIDE DEF S
      <3>. QED  BY <1>3, <1>4, Induction
    <2>2. nP \in 0..nP
      OBVIOUS
    <2>. HIDE DEF S
    <2>. QED  BY <2>1, <2>2
  <1>. QED  BY <1>2, <1>5 DEF Runs

\* When they are over.
ChunkDone(c, b, q, t, ch, nP, r, d) ==
    /\ Within(c, d, PhaseCore(b, q)) /\ TurnKnown(d, r) /\ Owns(d, "M", C0(q)) /\ FreedBoth(d, b)
    /\ Holds(d, {C0(q)}, Sum(t, Pieces(ch + 1, 0, nP)))
\* Its buffers of L1 are free then.
LEMMA PhasesEnd ==
    ASSUME NEW nP \in Nat \ {0}, NEW ch \in Nat, NEW b, NEW q, NEW t, NEW g \in Nat, NEW c, NEW d,
           InPhases(c, b, q, t, ch, nP, g, nP, d)
    PROVE  ChunkDone(c, b, q, t, ch, nP, (g + nP) % 2, d)
  <1>1. nP > 0 /\ nP = nP /\ nP \in Nat
    OBVIOUS
  <1>2. Pieces(ch, nP, nP) = Pieces(ch + 1, 0, nP)
    BY PiecesAre
  <1>. QED  BY <1>1, <1>2 DEF InPhases, ChunkDone, FreedIf

-----------------------------------------------------------------------------
(* Loading ahead *)

\* Both tiles of a chunk are loaded.
FullBoth(d, b, v, w) == Full(d, b, v) /\ Full(d, b + 2, w)
\* They stay so as long as only other parts change,
LEMMA BothStay ==
    ASSUME NEW c, NEW d, NEW b, SameOn(c, d, L1Half(b)), SameOn(c, d, L1Half(b + 2))
    PROVE  /\ \A v, w : FullBoth(c, b, v, w) => FullBoth(d, b, v, w)
           /\ \A v, w : OpenedBoth(c, b, v, w) => OpenedBoth(d, b, v, w)
           /\ FreedBoth(c, b) => FreedBoth(d, b)
           /\ Freed(c, b) /\ Freed(c, b + 2) => Freed(d, b) /\ Freed(d, b + 2)
  BY HalfStays DEF FullBoth, OpenedBoth, FreedBoth

\* as they do if what changes has no place of these buffers.
LEMMA HalvesKeep ==
    ASSUME NEW c, NEW d, NEW S, Within(c, d, S), NEW b, Halves(b) \intersect S = {}
    PROVE  SameOn(c, d, L1Half(b)) /\ SameOn(c, d, L1Half(b + 2))
  <1>1. L1Half(b) \intersect S = {} /\ L1Half(b + 2) \intersect S = {}
    BY DEF Halves
  <1>. QED  BY <1>1, WithinKeeps

LoadsBoth(c, b, t, k, d) ==
    /\ Within(c, d, Halves(b)) /\ FullBoth(d, b, PieceA(t, k), PieceB(t, k))
    /\ \A x : Owns(c, "MTE2", x) => Owns(d, "MTE2", x) /\ (x \notin Halves(b) => Passed(d, Ld(b), x))
\* LoadL1 loads them, and posts what MTE2 owns with the first.
LEMMA LoadBoth ==
    ASSUME 1 <= MaxPosted, NEW b \in {0, 1}, NEW c, Sound(c), Freed(c, b), Freed(c, b + 2), NEW t, NEW k,
           NEW d, d = c \o LoadL1(b, t, k)
    PROVE  Text(LoadL1(b, t, k)) /\ LoadsBoth(c, b, t, k, d)
  <1>. DEFINE i1 == wait_flag("MTE1", "MTE2", b)
              i2 == TLOAD({L1(b)}, <<"A", t, k>>)
              i3 == set_flag("MTE2", "MTE1", b)
              i4 == wait_flag("MTE1", "MTE2", b + 2)
              i5 == TLOAD({L1(b + 2)}, <<"B", t, k>>)
              i6 == set_flag("MTE2", "MTE1", b + 2)
              e == Append(Append(Append(c, i1), i2), i3)
              S == Halves(b)
  <1>0. Text(c) /\ b \in 0..3 /\ b + 2 \in 0..3 /\ L1Half(b) \intersect L1Half(b + 2) = {}
    BY HalvesApartFrom DEF Sound
  <1>1. LoadL1(b, t, k) = <<i1, i2, i3, i4, i5, i6>>
    BY TilesAre DEF LoadL1
  <1>2. Fills(c, b, <<"A", t, k>>, e)
    BY <1>0, FillHalf
  <1>3. L1Half(b) \subseteq S /\ L1Half(b + 2) \subseteq S
    BY DEF Halves
  <1>. HIDE DEF i1, i2, i3, i4, i5, i6, S
  <1>4. Text(LoadL1(b, t, k)) /\ d = Append(Append(Append(e, i4), i5), i6)
    <2>1. \A x1, x2, x3, x4, x5, x6 : /\ c \o <<x1, x2, x3, x4, x5, x6>> = Append(Append(Append(Append(Append(Append(c, x1), x2), x3), x4), x5), x6)
                                      /\ Text(<<x1, x2, x3, x4, x5, x6>>)
      BY <1>0, OneByOne, ZenonT(60)
    <2>2. c \o LoadL1(b, t, k) = Append(Append(Append(e, i4), i5), i6) /\ Text(LoadL1(b, t, k))
      BY <1>1, <2>1
    <2>. QED  BY <2>2
  <1>. HIDE DEF e
  <1>5. Sound(e) /\ Freed(e, b + 2)
    <2>1. SameOn(c, e, L1Half(b + 2))
      BY <1>0, <1>2, WithinKeeps DEF Fills
    <2>. QED  BY <2>1, HalfStays DEF SameOn
  <1>6. Fills(e, b + 2, <<"B", t, k>>, d)
    BY <1>0, <1>4, <1>5, FillHalf DEF i4, i5, i6
  <1>7. Full(d, b, PieceA(t, k)) /\ Full(d, b + 2, PieceB(t, k))
    <2>1. SameOn(e, d, L1Half(b))
      BY <1>0, <1>6, WithinKeeps DEF Fills
    <2>. QED  BY <1>2, <1>6, <2>1, HalfStays DEF Fills, PieceA, PieceB
  <1>8. ASSUME NEW x, Owns(c, "MTE2", x) PROVE Owns(d, "MTE2", x) /\ (x \notin Halves(b) => Passed(d, Ld(b), x))
    <2>1. Owns(e, "MTE2", x) /\ Passed(e, Ld(b), x)
      BY <1>2, <1>8 DEF Fills
    <2>2. Ld(b) \notin L1Half(b + 2)
      <3>1. Ld(b) \in L1Half(b)
        BY DEF L1Half
      <3>. QED  BY <1>0, <3>1
    <2>3. x \notin Halves(b) => x \notin L1Half(b + 2)
      BY DEF Halves
    <2>4. x \notin Halves(b) => Passed(d, Ld(b), x)
      BY <1>6, <2>1, <2>2, <2>3 DEF Fills, Within, Frame, StillSo
    <2>. QED  BY <1>6, <2>1, <2>4 DEF Fills
  <1>9. Within(c, d, S)
    <2>1. Within(c, e, S) /\ Within(e, d, S)
      BY <1>2, <1>3, <1>6, WithinWide DEF Fills, Within
    <2>. QED  BY <2>1, WithinOn
  <1>. QED  BY <1>4, <1>7, <1>8, <1>9 DEF LoadsBoth, FullBoth, S

\* They are taken over.
OpensBoth(c, b, v, w, d) ==
    /\ Within(c, d, Halves(b)) /\ OpenedBoth(d, b, v, w)
    /\ \A x : Owns(c, "MTE1", x) \/ Passed(c, Ld(b), x) => Owns(d, "MTE1", x)
\* AwaitL1 takes them over, and what came with the first.
LEMMA AwaitBoth ==
    ASSUME NEW b \in {0, 1}, NEW c, Sound(c), NEW v, NEW w, FullBoth(c, b, v, w), NEW d, d = c \o AwaitL1(b)
    PROVE  Text(AwaitL1(b)) /\ OpensBoth(c, b, v, w, d)
  <1>. DEFINE e == Append(c, wait_flag("MTE2", "MTE1", b))
              S == Halves(b)
  <1>0. Text(c) /\ b \in 0..3 /\ b + 2 \in 0..3 /\ L1Half(b) \intersect L1Half(b + 2) = {}
    BY HalvesApartFrom DEF Sound
  <1>1. Text(AwaitL1(b)) /\ d = Append(e, wait_flag("MTE2", "MTE1", b + 2))
    BY <1>0, Spell2, SMTT(30) DEF AwaitL1
  <1>2. Opens(c, b, v, e)
    BY <1>0, OpenHalf DEF FullBoth
  <1>3. L1Half(b) \subseteq S /\ L1Half(b + 2) \subseteq S
    BY DEF Halves
  <1>. HIDE DEF e, S
  <1>5. Sound(e) /\ Full(e, b + 2, w)
    <2>1. SameOn(c, e, L1Half(b + 2))
      BY <1>0, <1>2, WithinKeeps DEF Opens
    <2>. QED  BY <2>1, HalfStays DEF SameOn, FullBoth
  <1>6. Opens(e, b + 2, w, d)
    BY <1>0, <1>1, <1>5, OpenHalf
  <1>7. Opened(d, b, v)
    <2>1. SameOn(e, d, L1Half(b))
      BY <1>0, <1>6, WithinKeeps DEF Opens
    <2>. QED  BY <1>2, <2>1, HalfStays DEF Opens
  <1>8. \A x : Owns(c, "MTE1", x) \/ Passed(c, Ld(b), x) => Owns(d, "MTE1", x)
    BY <1>2, <1>6 DEF Opens
  <1>9. Within(c, d, S)
    <2>1. Within(c, e, S) /\ Within(e, d, S)
      BY <1>2, <1>3, <1>6, WithinWide DEF Opens, Within
    <2>. QED  BY <2>1, WithinOn
  <1>. QED  BY <1>1, <1>6, <1>7, <1>8, <1>9 DEF OpensBoth, OpenedBoth, Opens, S

\* While chunk k + 1 is being loaded, if there is one, chunk k is taken over:
\* it brings the news that the other buffers have been taken up.
Waiting(d, o, b) ==
    /\ Freed(d, o) /\ Freed(d, o + 2)
    /\ Known(d, o) \/ Passed(d, Ld(b), Fr(o))
    /\ Known(d, o + 2) \/ Passed(d, Ld(b), Fr(o + 2))
Ahead(d, b, v, w) == FullBoth(d, b, v, w) /\ Waiting(d, 1 - b, b)
Both(b) == Halves(b) \union Halves(1 - b)
LoadedAhead(c, b, v, w, more, t, k, d) ==
    /\ Within(c, d, Both(b)) /\ OpenedBoth(d, b, v, w)
    /\ IF more THEN FullBoth(d, 1 - b, PieceA(t, k), PieceB(t, k)) ELSE FreedBoth(d, 1 - b)
\* The head of a chunk or tile does so, with or without a next one.
LEMMA LoadAhead ==
    ASSUME 1 <= MaxPosted, NEW b \in {0, 1}, NEW c, Sound(c), NEW v, NEW w, Ahead(c, b, v, w), NEW more \in BOOLEAN, NEW t, NEW k,
           NEW l, l = (IF more THEN LoadL1(1 - b, t, k) ELSE <<>>), NEW d, d = (c \o l) \o AwaitL1(b)
    PROVE  Text(l) /\ Text(AwaitL1(b)) /\ LoadedAhead(c, b, v, w, more, t, k, d)
  <1>. DEFINE e == c \o l
              S == Both(b)
  <1>0. Text(c) /\ 1 - b \in {0, 1} /\ 1 - (1 - b) = b /\ Halves(b) \intersect Halves(1 - b) = {}
    BY HalvesApartFrom DEF Sound
  <1>1. Halves(b) \subseteq S /\ Halves(1 - b) \subseteq S
    BY DEF Both
  <1>2. d = e \o AwaitL1(b)
    OBVIOUS
  <1>3. CASE more
    <2>1. Text(l) /\ LoadsBoth(c, 1 - b, t, k, e)
      <3>1. l = LoadL1(1 - b, t, k) /\ e = c \o LoadL1(1 - b, t, k)
        BY <1>3
      <3>2. Freed(c, 1 - b) /\ Freed(c, (1 - b) + 2)
        BY DEF Ahead, Waiting
      <3>3. Text(LoadL1(1 - b, t, k)) /\ LoadsBoth(c, 1 - b, t, k, c \o LoadL1(1 - b, t, k))
        BY <1>0, <3>2, LoadBoth
      <3>. QED  BY <3>1, <3>3
    <2>. HIDE DEF e, S
    <2>2. Sound(e) /\ FullBoth(e, b, v, w)
      <3>1. SameOn(c, e, L1Half(b)) /\ SameOn(c, e, L1Half(b + 2))
        BY <1>0, <2>1, HalvesKeep DEF LoadsBoth
      <3>. QED  BY <3>1, BothStay DEF Ahead, SameOn
    <2>3. Text(AwaitL1(b)) /\ OpensBoth(e, b, v, w, d)
      BY <1>2, <2>2, AwaitBoth
    <2>4. FullBoth(d, 1 - b, PieceA(t, k), PieceB(t, k))
      <3>1. SameOn(e, d, L1Half(1 - b)) /\ SameOn(e, d, L1Half((1 - b) + 2))
        BY <1>0, <2>3, HalvesKeep DEF OpensBoth
      <3>. QED  BY <2>1, <3>1, BothStay DEF LoadsBoth
    <2>5. Within(c, d, S)
      <3>1. Within(c, e, S) /\ Within(e, d, S)
        BY <1>1, <2>1, <2>3, WithinWide DEF LoadsBoth, OpensBoth, Within
      <3>. QED  BY <3>1, WithinOn
    <2>. QED  BY <1>3, <2>1, <2>3, <2>4, <2>5 DEF OpensBoth, LoadedAhead, S
  <1>4. CASE ~ more
    <2>1. l = <<>> /\ e = c /\ Text(l)
      BY <1>0, <1>4, EmptyText, Joined
    <2>. HIDE DEF e, S
    <2>2. Text(AwaitL1(b)) /\ OpensBoth(c, b, v, w, d)
      BY <1>2, <2>1, AwaitBoth DEF Ahead
    <2>3. Freed(d, 1 - b) /\ Freed(d, (1 - b) + 2)
      <3>1. SameOn(c, d, L1Half(1 - b)) /\ SameOn(c, d, L1Half((1 - b) + 2))
        BY <1>0, <2>2, HalvesKeep DEF OpensBoth
      <3>. QED  BY <3>1, BothStay DEF Ahead, Waiting
    <2>4. Known(d, 1 - b) /\ Known(d, (1 - b) + 2)
      BY <2>2 DEF OpensBoth, Ahead, Waiting, Known
    <2>5. Within(c, d, S)
      BY <1>1, <2>2, WithinWide DEF OpensBoth, Within
    <2>. QED  BY <1>4, <2>1, <2>2, <2>3, <2>4, <2>5 DEF OpensBoth, LoadedAhead, FreedBoth, S
  <1>. QED  BY <1>3, <1>4

-----------------------------------------------------------------------------
(* The accumulators *)

\* Accumulator q is with the products, or on its way back from a store.
Mine(d, q) == Even(d, MF(q)) /\ Even(d, FM(q)) /\ Owns(d, "M", C0(q)) /\ Owns(d, "M", MF(q)) /\ Owns(d, "M", FM(q))
Lent(d, q) ==
    /\ Even(d, MF(q)) /\ Pending(d, FM(q))
    /\ Passed(d, FM(q), C0(q)) /\ Passed(d, FM(q), MF(q)) /\ Owns(d, "M", FM(q))
\* They stay so as long as only other parts change.
LEMMA AccStays ==
    ASSUME NEW c, NEW d, NEW q, SameOn(c, d, AccOf(q))
    PROVE  (Mine(c, q) => Mine(d, q)) /\ (Lent(c, q) => Lent(d, q))
  <1>1. C0(q) \in AccOf(q) /\ MF(q) \in AccOf(q) /\ FM(q) \in AccOf(q)
    BY DEF AccOf
  <1>2. Mine(c, q) => Mine(d, q)
    BY <1>1 DEF SameOn, SameEvents, Kept, Mine
  <1>3. Lent(c, q) => Lent(d, q)
    BY <1>1 DEF SameOn, SameEvents, Kept, Lent
  <1>. QED  BY <1>2, <1>3

\* A store from place x to a place of the output nothing was written to, over
\* or added to what is there.
StoreOp(add, gm, x) == IF add THEN TSTORE_ADD(gm, {x}) ELSE TSTORE("FIX", gm, {x})
StoredInto(c, gm, x, v, d) ==
    /\ Frame(c, d, {gm, x}, {}) /\ Yielded(d, gm, Stored(v))
    /\ \A y : Owns(c, "FIX", y) => Owns(d, "FIX", y)
\* Nothing was there, so that either leaves what is stored.
LEMMA StoreInto ==
    ASSUME NEW c, Sound(c), NEW gm, Free(c, gm), NEW x, Owns(c, "FIX", x), NEW v, Holds(c, {x}, v), NEW add \in BOOLEAN,
           NEW d, d = Append(c, StoreOp(add, gm, x))
    PROVE  StoredInto(c, gm, x, v, d)
  <1>. DEFINE ins == StoreOp(add, gm, x)
              t   == {x}
  <1>1. /\ ins.kind = "op" /\ ins.pipe = "FIX" /\ ins.srcs = <<t>> /\ ins.dst = {gm} /\ ins.tag = <<"TSTORE">>
        /\ ins.add = add /\ "FIX" \in CubePipe
    <2>1. CASE add
      BY <2>1 DEF StoreOp, TSTORE_ADD, OpAdd, Op, CubePipe
    <2>2. CASE ~ add
      BY <2>2 DEF StoreOp, TSTORE, Op, CubePipe
    <2>. QED  BY <2>1, <2>2
  <1>2. d = Append(c, ins) /\ Holds(c, t, v) /\ t # {}
    OBVIOUS
  <1>3. \A y : y \in t <=> y = x
    OBVIOUS
  <1>. HIDE DEF ins, t
  <1>4. \A y : y \in Footprint(ins) <=> y \in {gm, x}
    BY <1>1, <1>3 DEF Footprint
  <1>5. Footprint(ins) = {gm, x}
    BY <1>4
  <1>6. Does(c, ins, d) /\ AfterOp(c, ins, d)
    <2>1. \A k \in DOMAIN ins.srcs : \A y \in ins.srcs[k] : Filled(c, y)
      BY <1>1, <1>2 DEF Holds
    <2>2. Owns(c, "FIX", gm)
      BY DEF Free, Owns
    <2>. QED  BY <1>1, <1>2, <1>5, <2>1, <2>2, Do
  <1>7. Mem(c, gm) = {}
    <2>1. WritersOf(c, gm) = {}
      BY DEF Free, Touching, WritersOf, Footprint
    <2>. QED  BY <2>1 DEF Mem, Left
  <1>8. Mem(d, gm) = Stored(v)
    <2>1. Reads(c, ins.srcs) = <<v>>
      BY <1>1, <1>2, ReadsOne
    <2>2. \A y \in ins.dst : Mem(d, y) = IF ins.add THEN Mem(c, y) \union Term(ins.tag, Reads(c, ins.srcs))
                                                    ELSE Term(ins.tag, Reads(c, ins.srcs))
      BY <1>6 DEF AfterOp, Reads
    <2>3. Mem(d, gm) = Term(<<"TSTORE">>, <<v>>)
      BY <1>1, <1>7, <2>1, <2>2
    <2>. QED  BY <2>3 DEF Stored
  <1>9. Yielded(d, gm, Mem(d, gm))
    BY <1>1, <1>6 DEF AfterOp
  <1>. QED  BY <1>1, <1>5, <1>6, <1>8, <1>9 DEF Does, StoredInto

\* An accumulator is stored, and lent back.
StoreDone(c, q, t, v, d) ==
    Within(c, d, AccOf(q) \union {Res(t)}) /\ Lent(d, q) /\ Yielded(d, Res(t), Stored(v))
\* The store of a tile does so.
LEMMA StoreLends ==
    ASSUME 1 <= MaxPosted, NEW q, NEW c, Sound(c), Mine(c, q), NEW v, Holds(c, {C0(q)}, v),
           NEW t, Free(c, Res(t)), NEW add \in BOOLEAN,
           NEW d, d = Append(Append(Append(Append(c, set_flag("M", "FIX", q)), wait_flag("M", "FIX", q)),
                                    StoreOp(add, Res(t), C0(q))), set_flag("FIX", "M", q))
    PROVE  StoreDone(c, q, t, v, d)
  <1>. DEFINE e == Append(Append(c, set_flag("M", "FIX", q)), wait_flag("M", "FIX", q))
              f == Append(e, StoreOp(add, Res(t), C0(q)))
  <1>0. /\ "M" \in CubePipe /\ "FIX" \in CubePipe /\ MF(q) # FM(q) /\ C0(q) # MF(q) /\ C0(q) # FM(q)
        /\ Res(t) \notin {C0(q), MF(q), FM(q)}
    BY AccDiffers, PlacesDiffer DEF CubePipe, Res, C0, MF, FM
  <1>1. HandsOver(c, "M", "FIX", MF(q), e)
    <2>1. Room(c, "M", MF(q)) /\ Even(c, MF(q))
      BY <1>0, CubePipes DEF Room, Mine
    <2>. QED  BY <1>0, <2>1, HandOver DEF MF
  <1>2. d = Append(f, set_flag("FIX", "M", q))
    OBVIOUS
  <1>. HIDE DEF e
  <1>3. /\ Sound(e) /\ Even(e, MF(q)) /\ Even(e, FM(q)) /\ Owns(e, "FIX", C0(q)) /\ Owns(e, "FIX", MF(q))
        /\ Owns(e, "FIX", FM(q)) /\ Owns(e, "M", FM(q)) /\ Holds(e, {C0(q)}, v)
    BY <1>0, <1>1 DEF HandsOver, Frame, SameEvents, Mine
  <1>4. Free(e, Res(t))
    BY <1>0, <1>1 DEF HandsOver, Frame, StillSo, Kept
  <1>5. StoredInto(e, Res(t), C0(q), v, f)
    BY <1>3, <1>4, StoreInto
  <1>. HIDE DEF f
  <1>6. /\ Sound(f) /\ Even(f, MF(q)) /\ Even(f, FM(q)) /\ Owns(f, "FIX", C0(q)) /\ Owns(f, "FIX", MF(q))
        /\ Owns(f, "FIX", FM(q)) /\ Owns(f, "M", FM(q))
    BY <1>0, <1>3, <1>5 DEF StoredInto, Frame, SameEvents, StillSo, Kept
  <1>7. Posts(f, "FIX", FM(q), d)
    <2>1. Room(f, "FIX", FM(q))
      BY <1>0, <1>6, CubePipes DEF Room
    <2>. QED  BY <1>0, <1>2, <1>6, <2>1, Post DEF FM
  <1>8. Lent(d, q)
    <2>1. Passed(d, FM(q), C0(q)) /\ Passed(d, FM(q), MF(q)) /\ Pending(d, FM(q))
      BY <1>6, <1>7 DEF Posts
    <2>2. Even(d, MF(q)) /\ Owns(d, "M", FM(q))
      BY <1>0, <1>6, <1>7 DEF Posts, Frame, SameEvents, StillSo, Kept
    <2>. QED  BY <2>1, <2>2 DEF Lent
  <1>9. Yielded(d, Res(t), Stored(v))
    BY <1>5, <1>7 DEF StoredInto, Posts, Frame, StillSo, Kept, SameAt
  <1>10. Within(c, d, AccOf(q) \union {Res(t)})
    <2>. DEFINE S == AccOf(q) \union {Res(t)}
                X == {MF(q)}
                Y == {Res(t), C0(q)}
                Z == {}
                W == {FM(q)}
    <2>1. X \subseteq S /\ Y \subseteq S /\ Z \subseteq S /\ W \subseteq S
      BY DEF AccOf
    <2>2. Frame(c, e, X, X) /\ Frame(e, f, Y, Z) /\ Frame(f, d, Z, W)
      BY <1>1, <1>5, <1>7 DEF HandsOver, StoredInto, Posts
    <2>. HIDE DEF S, X, Y, Z, W
    <2>3. Within(c, e, S) /\ Within(e, f, S) /\ Within(f, d, S)
      BY <2>1, <2>2, WithinWide
    <2>4. Within(c, d, S)
      BY <2>3, WithinOn
    <2>. QED  BY <2>4 DEF S
  <1>. QED  BY <1>8, <1>9, <1>10 DEF StoreDone

\* The products get it back.
LEMMA TakeBack ==
    ASSUME NEW q, NEW c, Sound(c), Lent(c, q), NEW d, d = Append(c, wait_flag("FIX", "M", q))
    PROVE  Within(c, d, AccOf(q)) /\ Mine(d, q)
  <1>0. "M" \in CubePipe /\ MF(q) # FM(q) /\ C0(q) # MF(q) /\ C0(q) # FM(q)
    BY AccDiffers DEF CubePipe
  <1>1. Takes(c, "M", FM(q), d)
    BY <1>0, Take DEF Lent, FM
  <1>2. Even(d, FM(q)) /\ Even(d, MF(q)) /\ Owns(d, "M", C0(q)) /\ Owns(d, "M", MF(q)) /\ Owns(d, "M", FM(q))
    BY <1>0, <1>1 DEF Lent, Takes, Frame, SameEvents
  <1>3. Within(c, d, AccOf(q))
    <2>1. {FM(q)} \subseteq AccOf(q)
      BY DEF AccOf
    <2>. QED  BY <1>1, <2>1, WithinWide DEF Takes
  <1>. QED  BY <1>2, <1>3 DEF Mine

-----------------------------------------------------------------------------
(* Before the first chunk and after the last *)

\* A pipe that may touch a lane knows of its waits.
LEMMA OlderToo ==
    ASSUME NEW c, NEW x
    PROVE  /\ \A p : Owns(c, p, x) => OwnsOlder(c, p, x)
           /\ \A l : Passed(c, l, x) => PassedOlder(c, l, x)
  <1>1. Older(c, x) \subseteq Touching(c, x)
    BY DEF Older, Touching
  <1>. QED  BY <1>1 DEF Owns, OwnsOlder, Passed, PassedOlder

\* Buffers of L1 up to h are freed, or rest again, the others not yet.
FreedTo(c, h, d) ==
    /\ Within(c, d, L1Four)
    /\ \A g \in 0..3 : IF g < h THEN Freed(d, g) ELSE Rested(d, g)
RestedTo(c, h, d) ==
    /\ Within(c, d, L1Four)
    /\ \A g \in 0..3 : IF g < h THEN Rested(d, g) ELSE Freed(d, g) /\ Known(d, g)

\* Another buffer does not disturb the ones before and behind it.
LEMMA OtherHalves ==
    ASSUME NEW h \in 0..3, NEW c, NEW e, NEW d, Within(c, e, L1Four), Within(e, d, L1Half(h))
    PROVE  /\ Within(c, d, L1Four)
           /\ \A g \in 0..3 : g # h => SameOn(e, d, L1Half(g))
  <1>. DEFINE S == L1Four
  <1>1. L1Half(h) \subseteq S
    BY DEF L1Four
  <1>2. Within(c, e, S)
    OBVIOUS
  <1>. HIDE DEF S
  <1>3. Within(e, d, S)
    BY <1>1, WithinWide DEF Within
  <1>4. Within(c, d, S)
    BY <1>2, <1>3, WithinOn
  <1>5. ASSUME NEW g \in 0..3, g # h PROVE SameOn(e, d, L1Half(g))
    <2>1. L1Half(g) \intersect L1Half(h) = {}
      BY <1>5, HalvesDiffer
    <2>. QED  BY <2>1, WithinKeeps
  <1>. QED  BY <1>4, <1>5 DEF S

\* One buffer more is freed,
LEMMA FreesNext ==
    ASSUME 2 <= MaxPosted, NEW h \in 0..3, NEW c, NEW e, FreedTo(c, h, e), NEW d, d = Append(e, set_flag("MTE1", "MTE2", h))
    PROVE  FreedTo(c, h + 1, d)
  <1>1. Sound(e) /\ Rested(e, h) /\ Within(c, e, L1Four)
    BY DEF FreedTo, Within, Frame
  <1>2. Within(e, d, L1Half(h)) /\ Freed(d, h)
    BY <1>1, PrimeHalf
  <1>3. Within(c, d, L1Four) /\ \A g \in 0..3 : g # h => SameOn(e, d, L1Half(g))
    BY <1>1, <1>2, OtherHalves
  <1>4. ASSUME NEW g \in 0..3, g # h PROVE IF g < h + 1 THEN Freed(d, g) ELSE Rested(d, g)
    <2>1. SameOn(e, d, L1Half(g))
      BY <1>3, <1>4
    <2>2. (Freed(e, g) => Freed(d, g)) /\ (Rested(e, g) => Rested(d, g))
      BY <2>1, HalfStays
    <2>3. IF g < h THEN Freed(e, g) ELSE Rested(e, g)
      BY DEF FreedTo
    <2>4. g < h + 1 <=> g < h
      BY <1>4
    <2>. QED  BY <2>2, <2>3, <2>4
  <1>5. IF h < h + 1 THEN Freed(d, h) ELSE Rested(d, h)
    BY <1>2
  <1>. QED  BY <1>3, <1>4, <1>5 DEF FreedTo

\* or rests.
LEMMA RestsNext ==
    ASSUME NEW h \in 0..3, NEW c, NEW e, RestedTo(c, h, e), NEW d, d = Append(e, wait_flag("MTE1", "MTE2", h))
    PROVE  RestedTo(c, h + 1, d)
  <1>1. Sound(e) /\ Freed(e, h) /\ Known(e, h) /\ Within(c, e, L1Four)
    BY DEF RestedTo, Within, Frame
  <1>2. Within(e, d, L1Half(h)) /\ Rested(d, h)
    BY <1>1, RestHalf
  <1>3. Within(c, d, L1Four) /\ \A g \in 0..3 : g # h => SameOn(e, d, L1Half(g))
    BY <1>1, <1>2, OtherHalves
  <1>4. ASSUME NEW g \in 0..3, g # h PROVE IF g < h + 1 THEN Rested(d, g) ELSE Freed(d, g) /\ Known(d, g)
    <2>1. SameOn(e, d, L1Half(g))
      BY <1>3, <1>4
    <2>2. (Freed(e, g) => Freed(d, g)) /\ (Rested(e, g) => Rested(d, g)) /\ (Known(e, g) => Known(d, g))
      BY <2>1, HalfStays
    <2>3. IF g < h THEN Rested(e, g) ELSE Freed(e, g) /\ Known(e, g)
      BY DEF RestedTo
    <2>4. g < h + 1 <=> g < h
      BY <1>4
    <2>. QED  BY <2>2, <2>3, <2>4
  <1>5. IF h < h + 1 THEN Rested(d, h) ELSE Freed(d, h) /\ Known(d, h)
    BY <1>2
  <1>. QED  BY <1>3, <1>4, <1>5 DEF RestedTo

\* The two events of L0, before and after.
LEMMA PrimeTurn ==
    ASSUME 2 <= MaxPosted, NEW c, Sound(c), L0Rests(c),
           NEW d, d = Append(Append(c, set_flag("M", "MTE1", 0)), set_flag("M", "MTE1", 1))
    PROVE  Within(c, d, L0Both) /\ Turn(d, 0) /\ Turn(d, 1)
  <1>. DEFINE e == Append(c, set_flag("M", "MTE1", 0))
  <1>0. /\ "M" \in CubePipe /\ "MTE1" \in CubePipe /\ Rd(0) # Rd(1) /\ Rd(0) # Mu(0) /\ Rd(1) # Mu(0)
        /\ Rd(0) \in L0Both /\ Rd(1) \in L0Both
    BY L0Differs DEF CubePipe, L0Both
  <1>1. Posts(c, "M", Rd(0), e)
    <2>1. Room(c, "M", Rd(0))
      BY <1>0, CubePipes DEF Room, L0Rests, RestsAt
    <2>. QED  BY <1>0, <2>1, Post DEF L0Rests, RestsAt, Rd
  <1>2. d = Append(e, set_flag("M", "MTE1", 1))
    OBVIOUS
  <1>. HIDE DEF e
  <1>3. /\ Sound(e) /\ RestsAt(e, 1) /\ Even(e, Mu(0)) /\ Owns(e, "M", Mu(0)) /\ Owns(e, "M", A0(0)) /\ Owns(e, "M", B0(0))
        /\ Pending(e, Rd(0)) /\ Passed(e, Rd(0), Mu(0)) /\ Passed(e, Rd(0), A0(0)) /\ Passed(e, Rd(0), B0(0))
        /\ Owns(e, "MTE1", Rd(0))
    BY <1>0, <1>1 DEF Posts, Frame, SameEvents, StillSo, OlderSo, Kept, L0Rests, RestsAt
  <1>4. Posts(e, "M", Rd(1), d)
    <2>1. Room(e, "M", Rd(1))
      BY <1>0, <1>3, CubePipes DEF Room, RestsAt
    <2>. QED  BY <1>0, <1>2, <1>3, <2>1, Post DEF RestsAt, Rd
  <1>5. BackTo(d, 0)
    BY <1>0, <1>3, <1>4 DEF Posts, Frame, SameEvents, StillSo, Kept, BackTo
  <1>6. BackTo(d, 1)
    BY <1>0, <1>3, <1>4 DEF Posts, Frame, SameEvents, StillSo, Kept, BackTo, RestsAt
  <1>7. Even(d, Mu(0)) /\ Owns(d, "M", Mu(0)) /\ Passed(d, Rd(0), Mu(0)) /\ Passed(d, Rd(1), Mu(0))
    BY <1>0, <1>3, <1>4 DEF Posts, Frame, SameEvents, StillSo, Kept
  <1>8. PassedOlder(d, Rd(0), Mu(0)) /\ PassedOlder(d, Rd(1), Mu(0))
    BY <1>7, OlderToo
  <1>9. Turn(d, 0) /\ Turn(d, 1)
    <2>1. 1 - 0 = 1 /\ 1 - 1 = 0
      OBVIOUS
    <2>. QED  BY <1>5, <1>6, <1>7, <1>8, <2>1 DEF Turn
  <1>10. Within(c, d, L0Both)
    <2>. DEFINE S == L0Both
                X == {Rd(0)}
                Y == {Rd(1)}
                Z == {}
    <2>1. X \subseteq S /\ Y \subseteq S /\ Z \subseteq S
      BY <1>0
    <2>2. Frame(c, e, Z, X) /\ Frame(e, d, Z, Y)
      BY <1>1, <1>4 DEF Posts
    <2>. HIDE DEF S, X, Y, Z
    <2>3. Within(c, e, S) /\ Within(e, d, S)
      BY <2>1, <2>2, WithinWide
    <2>4. Within(c, d, S)
      BY <2>3, WithinOn
    <2>. QED  BY <2>4 DEF S
  <1>. QED  BY <1>9, <1>10

\* Both are waited for, whichever would be the next.
LEMMA DrainTurn ==
    ASSUME NEW c, Sound(c), NEW r \in {0, 1}, TurnKnown(c, r),
           NEW d, d = Append(Append(c, wait_flag("M", "MTE1", 0)), wait_flag("M", "MTE1", 1))
    PROVE  Within(c, d, L0Both) /\ L0Rests(d)
  <1>. DEFINE e == Append(c, wait_flag("M", "MTE1", 0))
  <1>0. /\ "M" \in CubePipe /\ "MTE1" \in CubePipe /\ Rd(0) # Rd(1) /\ Rd(0) # Mu(0) /\ Rd(1) # Mu(0)
        /\ Rd(0) \notin {A0(0), A0(1), B0(0), B0(1)} /\ Rd(1) \notin {A0(0), A0(1), B0(0), B0(1)}
        /\ Rd(0) \in L0Both /\ Rd(1) \in L0Both
    BY L0Differs DEF CubePipe, L0Both
  <1>1. /\ BackTo(c, 0) /\ BackTo(c, 1) /\ Even(c, Mu(0)) /\ Owns(c, "M", Mu(0)) /\ Owns(c, "M", Rd(0)) /\ Owns(c, "M", Rd(1))
    BY DEF TurnKnown, Turn
  <1>2. Takes(c, "MTE1", Rd(0), e)
    BY <1>0, <1>1, Take DEF BackTo, Rd
  <1>3. d = Append(e, wait_flag("M", "MTE1", 1))
    OBVIOUS
  <1>. HIDE DEF e
  <1>4. /\ Sound(e) /\ BackTo(e, 1) /\ Even(e, Mu(0)) /\ Owns(e, "M", Mu(0)) /\ Owns(e, "M", Rd(1))
        /\ Owns(e, "M", A0(0)) /\ Owns(e, "M", B0(0))
        /\ Even(e, Rd(0)) /\ Owns(e, "MTE1", Rd(0)) /\ OwnsOlder(e, "M", Rd(0))
    BY <1>0, <1>1, <1>2 DEF Takes, Frame, SameEvents, StillSo, Kept, BackTo
  <1>5. Takes(e, "MTE1", Rd(1), d)
    BY <1>0, <1>3, <1>4, Take DEF BackTo, Rd
  <1>6. RestsAt(d, 0)
    BY <1>0, <1>4, <1>5 DEF Takes, Frame, SameEvents, StillSo, OlderSo, Kept, RestsAt
  <1>7. RestsAt(d, 1)
    BY <1>0, <1>4, <1>5 DEF Takes, Frame, SameEvents, StillSo, Kept, RestsAt, BackTo
  <1>8. Even(d, Mu(0)) /\ Owns(d, "M", Mu(0))
    BY <1>0, <1>4, <1>5 DEF Takes, Frame, SameEvents, StillSo, Kept
  <1>9. Within(c, d, L0Both)
    <2>. DEFINE S == L0Both
                X == {Rd(0)}
                Y == {Rd(1)}
    <2>1. X \subseteq S /\ Y \subseteq S
      BY <1>0
    <2>2. Frame(c, e, X, X) /\ Frame(e, d, Y, Y)
      BY <1>2, <1>5 DEF Takes
    <2>. HIDE DEF S, X, Y
    <2>3. Within(c, e, S) /\ Within(e, d, S)
      BY <2>1, <2>2, WithinWide
    <2>4. Within(c, d, S)
      BY <2>3, WithinOn
    <2>. QED  BY <2>4 DEF S
  <1>. QED  BY <1>6, <1>7, <1>8, <1>9 DEF L0Rests

\* Between tiles all is at rest.
AtRest(d) == (\A h \in 0..3 : Rested(d, h)) /\ L0Rests(d)
Buffers == L1Four \union L0Both

\* Four instructions and two, behind a text.
SixBehind(c, f, g) ==
    Append(Append(Append(Append(Append(Append(c, f[1]), f[2]), f[3]), f[4]), g[1]), g[2])
\* That is what appending the two sequences does.
LEMMA FourAndTwo ==
    ASSUME NEW c, Text(c), NEW f, f = [i \in 1..4 |-> f[i]], NEW g, g = [i \in 1..2 |-> g[i]]
    PROVE  Text(f \o g) /\ c \o (f \o g) = SixBehind(c, f, g)
  <1>1. f = <<f[1], f[2], f[3], f[4]>> /\ g = <<g[1], g[2]>>
    <2>1. \A a, b, k, l : [i \in 1..4 |-> IF i = 1 THEN a ELSE IF i = 2 THEN b ELSE IF i = 3 THEN k ELSE l] = <<a, b, k, l>>
      OBVIOUS
    <2>2. \A a, b : [i \in 1..2 |-> IF i = 1 THEN a ELSE b] = <<a, b>>
      OBVIOUS
    <2>3. [i \in 1..4 |-> IF i = 1 THEN f[1] ELSE IF i = 2 THEN f[2] ELSE IF i = 3 THEN f[3] ELSE f[4]] = [i \in 1..4 |-> f[i]]
      OBVIOUS
    <2>4. [i \in 1..2 |-> IF i = 1 THEN g[1] ELSE g[2]] = [i \in 1..2 |-> g[i]]
      OBVIOUS
    <2>5. [i \in 1..4 |-> f[i]] = <<f[1], f[2], f[3], f[4]>>
      BY <2>1, <2>3
    <2>6. [i \in 1..2 |-> g[i]] = <<g[1], g[2]>>
      BY <2>2, <2>4
    <2>. QED  BY <2>5, <2>6
  <1>. DEFINE x1 == f[1]
              x2 == f[2]
              x3 == f[3]
              x4 == f[4]
              y1 == g[1]
              y2 == g[2]
              d  == Append(Append(Append(Append(c, x1), x2), x3), x4)
  <1>2. f = <<x1, x2, x3, x4>> /\ g = <<y1, y2>> /\ SixBehind(c, f, g) = Append(Append(d, y1), y2)
    BY <1>1 DEF SixBehind
  <1>. HIDE DEF x1, x2, x3, x4, y1, y2
  <1>3. d = c \o f /\ Text(f) /\ Text(d)
    BY <1>2, Spell4, ZenonT(30)
  <1>. HIDE DEF d
  <1>4. d \o g = Append(Append(d, y1), y2) /\ Text(g)
    <2>1. d \o <<y1, y2>> = Append(Append(d, y1), y2) /\ Text(<<y1, y2>>)
      BY <1>3, Spell2
    <2>. QED  BY <1>2, <2>1
  <1>5. c \o (f \o g) = (c \o f) \o g
    BY <1>3, <1>4, Associates
  <1>. QED  BY <1>2, <1>3, <1>4, <1>5, Joined

Primed(c, d) == Within(c, d, Buffers) /\ (\A h \in 0..3 : Freed(d, h)) /\ Turn(d, 0) /\ Turn(d, 1)
\* PrimeL1L0 frees every buffer of L1 and of L0.
LEMMA PrimeBuffers ==
    ASSUME 2 <= MaxPosted, NEW c, Sound(c), AtRest(c), NEW d, d = c \o PrimeL1L0
    PROVE  Text(PrimeL1L0) /\ Primed(c, d)
  <1>. DEFINE f == [b \in 1..4 |-> set_flag("MTE1", "MTE2", b - 1)]
              g == [b \in 1..2 |-> set_flag("M", "MTE1", b - 1)]
              e1 == Append(c, set_flag("MTE1", "MTE2", 0))
              e2 == Append(e1, set_flag("MTE1", "MTE2", 1))
              e3 == Append(e2, set_flag("MTE1", "MTE2", 2))
              e4 == Append(e3, set_flag("MTE1", "MTE2", 3))
  <1>1. Text(PrimeL1L0) /\ d = SixBehind(c, f, g)
    <2>1. PrimeL1L0 = f \o g
      BY DEF PrimeL1L0
    <2>2. f = [i \in 1..4 |-> f[i]] /\ g = [i \in 1..2 |-> g[i]] /\ Text(c)
      BY DEF Sound
    <2>. HIDE DEF f, g
    <2>3. Text(f \o g) /\ c \o (f \o g) = SixBehind(c, f, g)
      BY <2>2, FourAndTwo
    <2>. QED  BY <2>1, <2>3
  <1>2. d = Append(Append(e4, set_flag("M", "MTE1", 0)), set_flag("M", "MTE1", 1))
    <2>1. /\ f[1] = set_flag("MTE1", "MTE2", 0) /\ f[2] = set_flag("MTE1", "MTE2", 1)
          /\ f[3] = set_flag("MTE1", "MTE2", 2) /\ f[4] = set_flag("MTE1", "MTE2", 3)
          /\ g[1] = set_flag("M", "MTE1", 0) /\ g[2] = set_flag("M", "MTE1", 1)
      OBVIOUS
    <2>. HIDE DEF f, g
    <2>. QED  BY <1>1, <2>1 DEF SixBehind
  <1>3. FreedTo(c, 0, c)
    <2>1. Within(c, c, L1Four)
      <3>1. {} \subseteq L1Four
        OBVIOUS
      <3>. QED  BY <3>1, FrameSame, WithinWide
    <2>. QED  BY <2>1 DEF FreedTo, AtRest
  <1>4. FreedTo(c, 4, e4)
    <2>0. 0 + 1 = 1 /\ 1 + 1 = 2 /\ 2 + 1 = 3 /\ 3 + 1 = 4 /\ 0 \in 0..3 /\ 1 \in 0..3 /\ 2 \in 0..3 /\ 3 \in 0..3
      OBVIOUS
    <2>1. FreedTo(c, 1, e1)
      <3>1. FreedTo(c, 0 + 1, e1)
        BY <1>3, <2>0, FreesNext
      <3>. QED  BY <2>0, <3>1
    <2>. HIDE DEF e1
    <2>2. FreedTo(c, 2, e2)
      <3>1. FreedTo(c, 1 + 1, e2)
        BY <2>0, <2>1, FreesNext
      <3>. QED  BY <2>0, <3>1
    <2>. HIDE DEF e2
    <2>3. FreedTo(c, 3, e3)
      <3>1. FreedTo(c, 2 + 1, e3)
        BY <2>0, <2>2, FreesNext
      <3>. QED  BY <2>0, <3>1
    <2>. HIDE DEF e3
    <2>4. FreedTo(c, 3 + 1, e4)
      BY <2>0, <2>3, FreesNext
    <2>. QED  BY <2>0, <2>4
  <1>. HIDE DEF e4
  <1>5. Sound(e4) /\ Within(c, e4, L1Four) /\ \A h \in 0..3 : Freed(e4, h)
    <2>1. Within(c, e4, L1Four) /\ \A h \in 0..3 : IF h < 4 THEN Freed(e4, h) ELSE Rested(e4, h)
      BY <1>4 DEF FreedTo
    <2>2. \A h \in 0..3 : h < 4
      OBVIOUS
    <2>. QED  BY <2>1, <2>2 DEF Within, Frame
  <1>6. L1Four \intersect L0Both = {}
    BY PartsApart DEF L1Four
  <1>7. L0Rests(e4)
    <2>1. SameOn(c, e4, L0Both)
      BY <1>5, <1>6, WithinKeeps
    <2>. QED  BY <2>1, L0Stays DEF AtRest
  <1>8. Within(e4, d, L0Both) /\ Turn(d, 0) /\ Turn(d, 1)
    BY <1>2, <1>5, <1>7, PrimeTurn
  <1>9. ASSUME NEW h \in 0..3 PROVE Freed(d, h)
    <2>1. SameOn(e4, d, L1Half(h))
      BY <1>8, PartsApart, WithinKeeps
    <2>. QED  BY <1>5, <2>1, HalfStays
  <1>10. Within(c, d, Buffers)
    <2>. DEFINE S == Buffers
                X == L1Four
                Y == L0Both
    <2>1. X \subseteq S /\ Y \subseteq S /\ Within(c, e4, X) /\ Within(e4, d, Y)
      BY <1>5, <1>8 DEF Buffers
    <2>. HIDE DEF S, X, Y
    <2>2. Within(c, e4, S) /\ Within(e4, d, S)
      BY <2>1, WithinWide DEF Within
    <2>3. Within(c, d, S)
      BY <2>2, WithinOn
    <2>. QED  BY <2>3 DEF S
  <1>. QED  BY <1>1, <1>8, <1>9, <1>10 DEF Primed

\* DrainL1L0 puts them all at rest.
LEMMA DrainBuffers ==
    ASSUME NEW c, Sound(c), FreedBoth(c, 0), FreedBoth(c, 1), NEW r \in {0, 1}, TurnKnown(c, r), NEW d, d = c \o DrainL1L0
    PROVE  Text(DrainL1L0) /\ Within(c, d, Buffers) /\ AtRest(d)
  <1>. DEFINE f == [b \in 1..4 |-> wait_flag("MTE1", "MTE2", b - 1)]
              g == [b \in 1..2 |-> wait_flag("M", "MTE1", b - 1)]
              e1 == Append(c, wait_flag("MTE1", "MTE2", 0))
              e2 == Append(e1, wait_flag("MTE1", "MTE2", 1))
              e3 == Append(e2, wait_flag("MTE1", "MTE2", 2))
              e4 == Append(e3, wait_flag("MTE1", "MTE2", 3))
  <1>1. Text(DrainL1L0) /\ d = SixBehind(c, f, g)
    <2>1. DrainL1L0 = f \o g
      BY DEF DrainL1L0
    <2>2. f = [i \in 1..4 |-> f[i]] /\ g = [i \in 1..2 |-> g[i]] /\ Text(c)
      BY DEF Sound
    <2>. HIDE DEF f, g
    <2>3. Text(f \o g) /\ c \o (f \o g) = SixBehind(c, f, g)
      BY <2>2, FourAndTwo
    <2>. QED  BY <2>1, <2>3
  <1>2. d = Append(Append(e4, wait_flag("M", "MTE1", 0)), wait_flag("M", "MTE1", 1))
    <2>1. /\ f[1] = wait_flag("MTE1", "MTE2", 0) /\ f[2] = wait_flag("MTE1", "MTE2", 1)
          /\ f[3] = wait_flag("MTE1", "MTE2", 2) /\ f[4] = wait_flag("MTE1", "MTE2", 3)
          /\ g[1] = wait_flag("M", "MTE1", 0) /\ g[2] = wait_flag("M", "MTE1", 1)
      OBVIOUS
    <2>. HIDE DEF f, g
    <2>. QED  BY <1>1, <2>1 DEF SixBehind
  <1>3. RestedTo(c, 0, c)
    <2>1. Within(c, c, L1Four)
      <3>1. {} \subseteq L1Four
        OBVIOUS
      <3>. QED  BY <3>1, FrameSame, WithinWide
    <2>2. \A h \in 0..3 : Freed(c, h) /\ Known(c, h)
      <3>1. \A h \in 0..3 : h = 0 \/ h = 1 \/ h = 0 + 2 \/ h = 1 + 2
        OBVIOUS
      <3>. QED  BY <3>1 DEF FreedBoth
    <2>. QED  BY <2>1, <2>2 DEF RestedTo
  <1>4. RestedTo(c, 4, e4)
    <2>0. 0 + 1 = 1 /\ 1 + 1 = 2 /\ 2 + 1 = 3 /\ 3 + 1 = 4 /\ 0 \in 0..3 /\ 1 \in 0..3 /\ 2 \in 0..3 /\ 3 \in 0..3
      OBVIOUS
    <2>1. RestedTo(c, 1, e1)
      <3>1. RestedTo(c, 0 + 1, e1)
        BY <1>3, <2>0, RestsNext
      <3>. QED  BY <2>0, <3>1
    <2>. HIDE DEF e1
    <2>2. RestedTo(c, 2, e2)
      <3>1. RestedTo(c, 1 + 1, e2)
        BY <2>0, <2>1, RestsNext
      <3>. QED  BY <2>0, <3>1
    <2>. HIDE DEF e2
    <2>3. RestedTo(c, 3, e3)
      <3>1. RestedTo(c, 2 + 1, e3)
        BY <2>0, <2>2, RestsNext
      <3>. QED  BY <2>0, <3>1
    <2>. HIDE DEF e3
    <2>4. RestedTo(c, 3 + 1, e4)
      BY <2>0, <2>3, RestsNext
    <2>. QED  BY <2>0, <2>4
  <1>. HIDE DEF e4
  <1>5. Sound(e4) /\ Within(c, e4, L1Four) /\ \A h \in 0..3 : Rested(e4, h)
    <2>1. Within(c, e4, L1Four) /\ \A h \in 0..3 : h < 4 => Rested(e4, h)
      BY <1>4 DEF RestedTo
    <2>2. \A h \in 0..3 : h < 4
      OBVIOUS
    <2>. QED  BY <2>1, <2>2 DEF Within, Frame
  <1>6. L1Four \intersect L0Both = {}
    BY PartsApart DEF L1Four
  <1>7. TurnKnown(e4, r)
    <2>1. SameOn(c, e4, L0Both)
      BY <1>5, <1>6, WithinKeeps
    <2>. QED  BY <2>1, L0Stays
  <1>8. Within(e4, d, L0Both) /\ L0Rests(d)
    BY <1>2, <1>5, <1>7, DrainTurn
  <1>9. ASSUME NEW h \in 0..3 PROVE Rested(d, h)
    <2>1. SameOn(e4, d, L1Half(h))
      BY <1>8, PartsApart, WithinKeeps
    <2>. QED  BY <1>5, <2>1, HalfStays
  <1>10. Within(c, d, Buffers)
    <2>. DEFINE S == Buffers
                X == L1Four
                Y == L0Both
    <2>1. X \subseteq S /\ Y \subseteq S /\ Within(c, e4, X) /\ Within(e4, d, Y)
      BY <1>5, <1>8 DEF Buffers
    <2>. HIDE DEF S, X, Y
    <2>2. Within(c, e4, S) /\ Within(e4, d, S)
      BY <2>1, WithinWide DEF Within
    <2>3. Within(c, d, S)
      BY <2>2, WithinOn
    <2>. QED  BY <2>3 DEF S
  <1>. QED  BY <1>1, <1>8, <1>9, <1>10 DEF AtRest

\* The first chunk is loaded.
LEMMA LoadFirst ==
    ASSUME 1 <= MaxPosted, NEW b \in {0, 1}, NEW c, Sound(c), \A h \in 0..3 : Freed(c, h), NEW t, NEW k,
           NEW d, d = c \o LoadL1(b, t, k)
    PROVE  Within(c, d, Halves(b)) /\ Ahead(d, b, PieceA(t, k), PieceB(t, k))
  <1>. DEFINE o == 1 - b
  <1>0. /\ b \in 0..3 /\ b + 2 \in 0..3 /\ o \in 0..3 /\ o + 2 \in 0..3 /\ o = 1 - b
        /\ Halves(b) \intersect Halves(o) = {}
    BY HalvesApartFrom
  <1>. HIDE DEF o
  <1>3. Freed(c, b) /\ Freed(c, b + 2) /\ Freed(c, o) /\ Freed(c, o + 2)
    BY <1>0
  <1>4. LoadsBoth(c, b, t, k, d)
    BY <1>3, LoadBoth
  <1>5. Freed(d, o) /\ Freed(d, o + 2)
    <2>1. SameOn(c, d, L1Half(o)) /\ SameOn(c, d, L1Half(o + 2))
      <3>1. Halves(o) \intersect Halves(b) = {}
        BY <1>0
      <3>. QED  BY <1>4, <3>1, HalvesKeep DEF LoadsBoth
    <2>. QED  BY <1>3, <2>1, BothStay
  <1>6. Passed(d, Ld(b), Fr(o)) /\ Passed(d, Ld(b), Fr(o + 2))
    <2>1. Owns(c, "MTE2", Fr(o)) /\ Owns(c, "MTE2", Fr(o + 2))
      BY <1>3 DEF Freed
    <2>2. Fr(o) \in Halves(o) /\ Fr(o + 2) \in Halves(o)
      BY DEF Halves, L1Half
    <2>3. Fr(o) \notin Halves(b) /\ Fr(o + 2) \notin Halves(b)
      BY <1>0, <2>2
    <2>. QED  BY <1>4, <2>1, <2>3 DEF LoadsBoth
  <1>7. Ahead(d, b, PieceA(t, k), PieceB(t, k))
    BY <1>0, <1>4, <1>5, <1>6 DEF LoadsBoth, Ahead, Waiting
  <1>. QED  BY <1>4, <1>7 DEF LoadsBoth

-----------------------------------------------------------------------------
(* A chunk *)

\* They are texts.
LEMMA PhaseTexts ==
    ASSUME NEW b \in {0, 1}, NEW q \in {0, 1}, NEW ch, NEW nP \in Nat, NEW g \in Nat, NEW f, PhaseList(f, b, q, ch, nP, g)
    PROVE  Text(FlattenSeq(f))
  <1>1. ASSUME NEW k \in 1..nP PROVE Text(f[k])
    <2>1. PICK init \in BOOLEAN : f[k] = Phase(b, q, k - 1, nP, g + (k - 1), init)
      BY DEF PhaseList
    <2>. DEFINE r == (g + (k - 1)) % 2
                h == g + (k - 1)
    <2>2. h \in Nat
      OBVIOUS
    <2>3. r \in {0, 1} /\ h % 2 = r
      BY <2>2
    <2>. HIDE DEF r, h
    <2>4. Text(Phase(b, q, k - 1, nP, h, init))
      BY <2>3, EmptyText, PhaseIs
    <2>. QED  BY <2>1, <2>4 DEF h
  <1>2. Text(f) /\ Len(f) = nP /\ Text(<<>>)
    BY EmptyText DEF PhaseList
  <1>3. \A i \in 1..nP : Text(f[i])
    BY <1>1
  <1>. QED  BY <1>2, <1>3, Unrolled

\* The chunk in buffers b is used up, and the other buffers have been loaded,
\* if there is more.
Loaded4(more, d, b, v, w) == IF more THEN FullBoth(d, b, v, w) ELSE FreedBoth(d, b)
GoesOn(more, d, b, v, w) == IF more THEN Ahead(d, b, v, w) ELSE FreedBoth(d, 0) /\ FreedBoth(d, 1)
ChunkOver(c, b, q, t, ch, nP, r, more, v, w, d) ==
    /\ Within(c, d, PhaseCore(b, q)) /\ TurnKnown(d, r) /\ Owns(d, "M", C0(q))
    /\ Holds(d, {C0(q)}, Sum(t, Pieces(ch + 1, 0, nP)))
    /\ GoesOn(more, d, 1 - b, v, w)
\* The phases of a chunk do so, and what they free is known by then.
LEMMA ChunkRuns ==
    ASSUME 2 <= MaxPosted, MaxPosted \in Nat, NEW b \in {0, 1}, NEW q \in {0, 1}, NEW t, NEW ch \in Nat,
           NEW nP \in Nat \ {0}, NEW g \in Nat, NEW f, PhaseList(f, b, q, ch, nP, g),
           NEW c, Sound(c), Turn(c, g % 2), OpenedBoth(c, b, PieceA(t, ch), PieceB(t, ch)), Owns(c, "M", C0(q)),
           ch > 0 => Holds(c, {C0(q)}, Sum(t, Pieces(ch, 0, nP))),
           NEW more \in BOOLEAN, NEW v, NEW w, Loaded4(more, c, 1 - b, v, w),
           NEW d, d = c \o FlattenSeq(f)
    PROVE  ChunkOver(c, b, q, t, ch, nP, (g + nP) % 2, more, v, w, d)
  <1>. DEFINE o == 1 - b
  <1>0. o \in {0, 1} /\ o = 1 - b /\ 1 - o = b /\ Halves(o) \intersect PhaseCore(b, q) = {}
    <2>1. o \in {0, 1} /\ 1 - o = b
      OBVIOUS
    <2>2. /\ Halves(o) \intersect L0Both = {} /\ Halves(o) \intersect AccOf(q) = {} /\ Halves(o) \intersect Halves(b) = {}
          /\ C0(q) \in AccOf(q)
      BY <2>1, HalvesApartFrom DEF AccOf
    <2>. QED  BY <2>1, <2>2 DEF PhaseCore
  <1>1. InPhases(c, b, q, t, ch, nP, g, nP, d)
    BY AllPhases
  <1>2. ChunkDone(c, b, q, t, ch, nP, (g + nP) % 2, d)
    BY <1>1, PhasesEnd
  <1>. HIDE DEF o
  <1>3. Loaded4(more, d, o, v, w)
    <2>1. SameOn(c, d, L1Half(o)) /\ SameOn(c, d, L1Half(o + 2))
      BY <1>0, <1>2, HalvesKeep DEF ChunkDone
    <2>. QED  BY <1>0, <2>1, BothStay DEF Loaded4
  <1>4. GoesOn(more, d, o, v, w)
    <2>1. CASE more
      BY <1>0, <1>2, <1>3, <2>1 DEF Loaded4, GoesOn, Ahead, Waiting, ChunkDone, FreedBoth
    <2>2. CASE ~ more
      <3>1. FreedBoth(d, b) /\ FreedBoth(d, o)
        BY <1>2, <1>3, <2>2 DEF Loaded4, ChunkDone
      <3>2. (b = 0 /\ o = 1) \/ (b = 1 /\ o = 0)
        BY <1>0
      <3>. QED  BY <2>2, <3>1, <3>2 DEF GoesOn
    <2>. QED  BY <2>1, <2>2
  <1>. QED  BY <1>0, <1>2, <1>4 DEF ChunkDone, ChunkOver

\* The pieces of the schedules' texts are texts.
LEMMA CubeTexts ==
    /\ \A b, t, k : Text(LoadL1(b, t, k))
    /\ \A b : Text(AwaitL1(b))
    /\ \A q, t : Text(StoreAcc(q, t))
    /\ Text(PrimeL1L0) /\ Text(DrainL1L0) /\ Text(PrimeAcc) /\ Text(DrainAcc)
    /\ \A i : Text(<<i>>)
  <1>1. /\ \A x1, x2 : Text(<<x1, x2>>)
        /\ \A x1, x2, x3, x4 : Text(<<x1, x2, x3, x4>>)
        /\ \A x1, x2, x3, x4, x5, x6 : Text(<<x1, x2, x3, x4, x5, x6>>)
        /\ \A x1 : Text(<<x1>>)
    BY EmptyText, OneByOne, ZenonT(60)
  <1>2. ASSUME NEW b, NEW t, NEW k PROVE Text(LoadL1(b, t, k))
    BY <1>1, Zenon DEF LoadL1
  <1>3. ASSUME NEW b PROVE Text(AwaitL1(b))
    BY <1>1, Zenon DEF AwaitL1
  <1>4. ASSUME NEW q, NEW t PROVE Text(StoreAcc(q, t))
    BY <1>1, Zenon DEF StoreAcc
  <1>5. Text(PrimeAcc) /\ Text(DrainAcc)
    BY <1>1, Zenon DEF PrimeAcc, DrainAcc
  <1>6. Text(PrimeL1L0)
    <2>. DEFINE f == [b \in 1..4 |-> set_flag("MTE1", "MTE2", b - 1)]
                g == [b \in 1..2 |-> set_flag("M", "MTE1", b - 1)]
    <2>1. f = [i \in 1..4 |-> f[i]] /\ g = [i \in 1..2 |-> g[i]] /\ PrimeL1L0 = f \o g
      BY DEF PrimeL1L0
    <2>. HIDE DEF f, g
    <2>. QED  BY <2>1, EmptyText, FourAndTwo
  <1>7. Text(DrainL1L0)
    <2>. DEFINE f == [b \in 1..4 |-> wait_flag("MTE1", "MTE2", b - 1)]
                g == [b \in 1..2 |-> wait_flag("M", "MTE1", b - 1)]
    <2>1. f = [i \in 1..4 |-> f[i]] /\ g = [i \in 1..2 |-> g[i]] /\ DrainL1L0 = f \o g
      BY DEF DrainL1L0
    <2>. HIDE DEF f, g
    <2>. QED  BY <2>1, EmptyText, FourAndTwo
  <1>. QED  BY <1>1, <1>2, <1>3, <1>4, <1>5, <1>6, <1>7

\* The load of the next chunk, if there is one.
LEMMA IfLoads ==
    ASSUME NEW more, NEW b, NEW t, NEW k
    PROVE  Text(IF more THEN LoadL1(b, t, k) ELSE <<>>)
  BY CubeTexts, EmptyText

-----------------------------------------------------------------------------
(* Tiles of several chunks *)

\* Before chunk k of a tile.
DeepCore == Buffers \union {C0(0)}
AtChunk(c, t, nKd, nP, k, d) ==
    /\ Within(c, d, DeepCore) /\ Owns(d, "M", C0(0))
    /\ Turn(d, (k * nP) % 2)
    /\ k > 0 => TurnKnown(d, (k * nP) % 2) /\ Holds(d, {C0(0)}, Sum(t, Pieces(k, 0, nP)))
    /\ IF k < nKd THEN Ahead(d, k % 2, PieceA(t, k), PieceB(t, k)) ELSE FreedBoth(d, 0) /\ FreedBoth(d, 1)

\* The phases of chunk k.
DeepPhases(k, nP) == [i \in 1..((nP - 1) - 0 + 1) |-> Phase(k % 2, 0, 0 + i - 1, nP, k * nP + (0 + i - 1), StartAnew(k, 0 + i - 1))]
\* They are the phases AllPhases speaks of.
LEMMA DeepPhasesAre ==
    ASSUME NEW k \in Nat, NEW nP \in Nat \ {0}, NEW f, f = DeepPhases(k, nP)
    PROVE  PhaseList(f, k % 2, 0, k, nP, k * nP)
  <1>1. (nP - 1) - 0 + 1 = nP /\ k * nP \in Nat /\ \A i \in 1..nP : 0 + i - 1 = i - 1
    OBVIOUS
  <1>2. f = [i \in 1..nP |-> Phase(k % 2, 0, i - 1, nP, k * nP + (i - 1), StartAnew(k, i - 1))]
    BY <1>1 DEF DeepPhases
  <1>3. Text(f) /\ Len(f) = nP
    <2>1. f = [i \in 1..nP |-> f[i]]
      BY <1>2
    <2>. QED  BY <2>1, ListIs
  <1>4. ASSUME NEW i \in 1..nP
        PROVE  \E init \in BOOLEAN : (init <=> k = 0 /\ i = 1) /\ f[i] = Phase(k % 2, 0, i - 1, nP, k * nP + (i - 1), init)
    <2>1. StartAnew(k, i - 1) \in BOOLEAN /\ (StartAnew(k, i - 1) <=> k = 0 /\ i = 1)
      BY DEF StartAnew
    <2>2. f[i] = Phase(k % 2, 0, i - 1, nP, k * nP + (i - 1), StartAnew(k, i - 1))
      BY <1>2
    <2>. QED  BY <2>1, <2>2
  <1>. QED  BY <1>3, <1>4 DEF PhaseList

NextLoad(t, k, nKd) == IF k + 1 < nKd THEN LoadL1(1 - (k % 2), t, k + 1) ELSE <<>>
\* The text of a chunk is its load ahead, its wait and its phases.
LEMMA DeepChunkIs ==
    ASSUME NEW t, NEW k \in Nat, NEW nKd \in Nat, NEW nP \in Nat \ {0}
    PROVE  /\ Text(NextLoad(t, k, nKd)) /\ Text(FlattenSeq(DeepPhases(k, nP))) /\ Text(DeepChunk(t, k, nKd, nP))
           /\ DeepChunk(t, k, nKd, nP) = (NextLoad(t, k, nKd) \o AwaitL1(k % 2)) \o FlattenSeq(DeepPhases(k, nP))
  <1>. DEFINE l == NextLoad(t, k, nKd)
              f == DeepPhases(k, nP)
  <1>1. Text(l) /\ Text(AwaitL1(k % 2))
    BY IfLoads, CubeTexts DEF NextLoad
  <1>2. Text(FlattenSeq(f))
    <2>1. PhaseList(f, k % 2, 0, k, nP, k * nP)
      BY DeepPhasesAre
    <2>2. k % 2 \in {0, 1} /\ k * nP \in Nat /\ nP \in Nat
      OBVIOUS
    <2>. QED  BY <2>1, <2>2, PhaseTexts
  <1>3. DeepChunk(t, k, nKd, nP) = (l \o AwaitL1(k % 2)) \o FlattenSeq(f)
    BY DEF DeepChunk, Loop, DeepPhases, NextLoad
  <1>. DEFINE a == AwaitL1(k % 2)
              e == FlattenSeq(f)
  <1>4. Text((l \o a) \o e)
    <2>. HIDE DEF a, e
    <2>1. Text(a) /\ Text(e)
      BY <1>1, <1>2 DEF a, e
    <2>. QED  BY <1>1, <2>1, Joined
  <1>. QED  BY <1>1, <1>2, <1>3, <1>4

\* Each chunk of a tile makes way for the next,
LEMMA NextChunk ==
    ASSUME 2 <= MaxPosted, MaxPosted \in Nat, NEW t, NEW nKd \in Nat, NEW nP \in Nat \ {0}, NEW k \in 0..(nKd - 1),
           NEW c, NEW e, AtChunk(c, t, nKd, nP, k, e), NEW d, d = e \o DeepChunk(t, k, nKd, nP)
    PROVE  AtChunk(c, t, nKd, nP, k + 1, d)
  <1>. DEFINE b    == k % 2
              g    == k * nP
              more == k + 1 < nKd
              l    == NextLoad(t, k, nKd)
              f    == DeepPhases(k, nP)
              e1   == (e \o l) \o AwaitL1(b)
              v    == PieceA(t, k + 1)
              w    == PieceB(t, k + 1)
              S    == DeepCore
  <1>0. /\ k \in Nat /\ k < nKd /\ b \in {0, 1} /\ g \in Nat /\ more \in BOOLEAN /\ 1 <= MaxPosted
        /\ (k + 1) % 2 = 1 - b /\ (k + 1) * nP = g + nP /\ (more <=> k + 1 < nKd) /\ nP \in Nat
    BY Alternates
  <1>1. /\ Text(l) /\ Text(FlattenSeq(f)) /\ DeepChunk(t, k, nKd, nP) = (l \o AwaitL1(b)) \o FlattenSeq(f)
        /\ Text(AwaitL1(b)) /\ Sound(e) /\ Text(e)
    <2>1. Sound(e) /\ Text(e)
      BY DEF AtChunk, Within, Frame, Sound
    <2>2. Text(l) /\ Text(FlattenSeq(f)) /\ DeepChunk(t, k, nKd, nP) = (l \o AwaitL1(b)) \o FlattenSeq(f)
      BY <1>0, DeepChunkIs
    <2>3. Text(AwaitL1(b))
      BY CubeTexts
    <2>. QED  BY <2>1, <2>2, <2>3
  <1>2. d = e1 \o FlattenSeq(f)
    <2>. DEFINE a == AwaitL1(b)
                z == FlattenSeq(f)
    <2>1. Text(l) /\ Text(a) /\ Text(z) /\ Text(e) /\ d = e \o ((l \o a) \o z)
      BY <1>1
    <2>. HIDE DEF l, a, z
    <2>2. e \o (l \o a) = (e \o l) \o a /\ Text(l \o a)
      BY <2>1, Joined, Associates
    <2>3. e \o ((l \o a) \o z) = (e \o (l \o a)) \o z
      BY <2>1, <2>2, Associates
    <2>4. d = ((e \o l) \o a) \o z
      BY <2>1, <2>2, <2>3
    <2>. QED  BY <2>4 DEF a, z
  <1>3. LoadedAhead(e, b, PieceA(t, k), PieceB(t, k), more, t, k + 1, e1)
    <2>1. Ahead(e, b, PieceA(t, k), PieceB(t, k))
      BY <1>0 DEF AtChunk
    <2>2. l = (IF more THEN LoadL1(1 - b, t, k + 1) ELSE <<>>)
      BY DEF NextLoad
    <2>. HIDE DEF b, more, l
    <2>. QED  BY <1>0, <2>1, <1>1, <2>2, LoadAhead
  <1>4. PhaseList(f, b, 0, k, nP, g)
    BY <1>0, DeepPhasesAre
  <1>. HIDE DEF b, g, more, l, f, e1, v, w
  <1>5. /\ Sound(e1) /\ OpenedBoth(e1, b, PieceA(t, k), PieceB(t, k)) /\ Loaded4(more, e1, 1 - b, v, w)
        /\ Within(e, e1, Both(b))
    BY <1>3 DEF LoadedAhead, Loaded4, Within, Frame, v, w
  <1>6. /\ Both(b) \intersect L0Both = {} /\ Both(b) \intersect AccOf(0) = {} /\ C0(0) \in AccOf(0)
        /\ Halves(b) \union Halves(1 - b) \subseteq Buffers
    <2>1. 1 - b \in {0, 1}
      BY <1>0
    <2>2. \A a \in {0, 1} : Halves(a) \intersect L0Both = {} /\ Halves(a) \intersect AccOf(0) = {}
      BY HalvesApartFrom
    <2>3. \A a \in {0, 1} : Halves(a) \subseteq Buffers
      <3>1. \A a \in {0, 1} : (a = 0 \/ a = 1) /\ 0 + 2 = 2 /\ 1 + 2 = 3
        OBVIOUS
      <3>. QED  BY <3>1 DEF Halves, Buffers, L1Four
    <2>. QED  BY <1>0, <2>1, <2>2, <2>3 DEF Both, AccOf
  <1>7. Turn(e1, g % 2)
    <2>1. SameOn(e, e1, L0Both)
      BY <1>5, <1>6, WithinKeeps
    <2>2. Turn(e, g % 2) /\ g % 2 \in {0, 1}
      BY <1>0 DEF AtChunk, g
    <2>. QED  BY <2>1, <2>2, L0Stays
  <1>8. Owns(e1, "M", C0(0)) /\ (k > 0 => Holds(e1, {C0(0)}, Sum(t, Pieces(k, 0, nP))))
    <2>1. \A x \in {C0(0)} : Kept(e, e1, x)
      BY <1>5, <1>6 DEF Within, Frame, StillSo
    <2>. QED  BY <2>1, HoldsOn DEF AtChunk, Kept
  <1>9. ChunkOver(e1, b, 0, t, k, nP, (g + nP) % 2, more, v, w, d)
    <2>1. 0 \in {0, 1}
      OBVIOUS
    <2>. QED  BY <1>0, <1>2, <1>4, <1>5, <1>7, <1>8, <2>1, ChunkRuns, ZenonT(30)
  <1>10. Within(c, d, S)
    <2>. DEFINE X == Both(b)
                Y == PhaseCore(b, 0)
    <2>1. X \subseteq S /\ Y \subseteq S /\ Within(c, e, S) /\ Within(e, e1, X) /\ Within(e1, d, Y)
      BY <1>5, <1>6, <1>9 DEF AtChunk, ChunkOver, Both, PhaseCore, DeepCore, Buffers
    <2>. HIDE DEF X, Y, S
    <2>2. Within(e, e1, S) /\ Within(e1, d, S)
      BY <2>1, WithinWide DEF Within
    <2>3. Within(c, e1, S)
      BY <2>1, <2>2, WithinOn
    <2>. QED  BY <2>2, <2>3, WithinOn
  <1>11. Turn(d, ((k + 1) * nP) % 2) /\ TurnKnown(d, ((k + 1) * nP) % 2)
    BY <1>0, <1>9 DEF ChunkOver, TurnKnown
  <1>12. IF k + 1 < nKd THEN Ahead(d, (k + 1) % 2, PieceA(t, k + 1), PieceB(t, k + 1)) ELSE FreedBoth(d, 0) /\ FreedBoth(d, 1)
    BY <1>0, <1>9 DEF ChunkOver, GoesOn, v, w
  <1>. QED  BY <1>9, <1>10, <1>11, <1>12 DEF ChunkOver, AtChunk, S

\* The chunks of a tile, one after the other.
DeepChunks(t, nKd, nP) == [i \in 1..((nKd - 1) - 0 + 1) |-> DeepChunk(t, 0 + i - 1, nKd, nP)]
\* They are texts, and so is what they make.
LEMMA DeepChunksAre ==
    ASSUME NEW t, NEW nKd \in Nat \ {0}, NEW nP \in Nat \ {0}, NEW f, f = DeepChunks(t, nKd, nP)
    PROVE  /\ Text(f) /\ Len(f) = nKd /\ Text(FlattenSeq(f))
           /\ \A i \in 1..nKd : f[i] = DeepChunk(t, i - 1, nKd, nP) /\ Text(f[i])
  <1>1. (nKd - 1) - 0 + 1 = nKd /\ \A i \in 1..nKd : 0 + i - 1 = i - 1 /\ i - 1 \in Nat
    OBVIOUS
  <1>2. f = [i \in 1..nKd |-> DeepChunk(t, i - 1, nKd, nP)]
    BY <1>1 DEF DeepChunks
  <1>3. Text(f) /\ Len(f) = nKd
    <2>1. f = [i \in 1..nKd |-> f[i]]
      BY <1>2
    <2>. QED  BY <2>1, ListIs
  <1>4. ASSUME NEW i \in 1..nKd PROVE f[i] = DeepChunk(t, i - 1, nKd, nP) /\ Text(f[i])
    <2>. DEFINE k == i - 1
    <2>1. k \in Nat /\ nKd \in Nat /\ f[i] = DeepChunk(t, k, nKd, nP)
      BY <1>1, <1>2
    <2>. HIDE DEF k
    <2>2. Text(f[i])
      BY <2>1, DeepChunkIs, ZenonT(30)
    <2>. QED  BY <2>1, <2>2 DEF k
  <1>5. Text(FlattenSeq(f))
    BY <1>3, <1>4, EmptyText, Unrolled
  <1>. QED  BY <1>3, <1>4, <1>5

\* All of them leave the sum of the tile.
LEMMA AllChunks ==
    ASSUME 2 <= MaxPosted, MaxPosted \in Nat, NEW t, NEW nKd \in Nat \ {0}, NEW nP \in Nat \ {0},
           NEW f, f = DeepChunks(t, nKd, nP),
           NEW c, AtChunk(c, t, nKd, nP, 0, c), NEW d, d = c \o FlattenSeq(f)
    PROVE  AtChunk(c, t, nKd, nP, nKd, d)
  <1>1. /\ Text(f) /\ Len(f) = nKd /\ Text(FlattenSeq(f))
        /\ \A i \in 1..nKd : f[i] = DeepChunk(t, i - 1, nKd, nP) /\ Text(f[i])
    BY DeepChunksAre
  <1>2. Text(c) /\ nKd \in Nat
    BY DEF AtChunk, Within, Frame, Sound
  <1>3. PICK w : Runs(c, f, nKd, w)
    BY <1>1, <1>2, Unrolled
  <1>. DEFINE S == {k \in 0..nKd : AtChunk(c, t, nKd, nP, k, w[k])}
  <1>4. 0 \in S
    BY <1>2, <1>3 DEF Runs
  <1>5. ASSUME NEW k \in 0..(nKd - 1), k \in S PROVE k + 1 \in S
    <2>. DEFINE e == w[k]
                h == w[k + 1]
    <2>1. k + 1 \in 1..nKd /\ (k + 1) - 1 = k /\ k + 1 \in 0..nKd
      OBVIOUS
    <2>2. w[k + 1] = w[k] \o f[k + 1] /\ f[k + 1] = DeepChunk(t, k, nKd, nP)
      BY <1>1, <1>3, <2>1 DEF Runs
    <2>3. h = e \o DeepChunk(t, k, nKd, nP) /\ AtChunk(c, t, nKd, nP, k, e)
      BY <1>5, <2>2
    <2>. HIDE DEF e, h
    <2>4. AtChunk(c, t, nKd, nP, k + 1, h)
      BY <1>2, <2>3, NextChunk
    <2>. QED  BY <2>1, <2>4 DEF h
  <1>6. nKd \in S
    <2>1. 0..nKd \subseteq S
      <3>. HIDE DEF S
      <3>. QED  BY <1>2, <1>4, <1>5, Induction
    <2>2. nKd \in 0..nKd
      BY <1>2
    <2>. HIDE DEF S
    <2>. QED  BY <2>1, <2>2
  <1>. QED  BY <1>3, <1>6 DEF Runs

\* What holds of a part holds of what is in it, and what is at rest stays so.
LEMMA SamePart ==
    ASSUME NEW c, NEW d, NEW K, SameOn(c, d, K), NEW M, M \subseteq K
    PROVE  SameOn(c, d, M)
  BY DEF SameOn

\* Buffers at rest stay at rest while only other parts change.
LEMMA RestStays ==
    ASSUME NEW c, NEW d, SameOn(c, d, Buffers), AtRest(c)
    PROVE  AtRest(d)
  <1>1. \A h \in 0..3 : L1Half(h) \subseteq Buffers
    <2>1. \A h \in 0..3 : h = 0 \/ h = 1 \/ h = 2 \/ h = 3
      OBVIOUS
    <2>. QED  BY <2>1 DEF Buffers, L1Four
  <1>2. L0Both \subseteq Buffers
    BY DEF Buffers
  <1>3. ASSUME NEW h \in 0..3 PROVE Rested(d, h)
    <2>1. SameOn(c, d, L1Half(h))
      BY <1>1, SamePart
    <2>. QED  BY <2>1, HalfStays DEF AtRest
  <1>4. L0Rests(d)
    <2>1. SameOn(c, d, L0Both)
      BY <1>2, SamePart
    <2>. QED  BY <2>1, L0Stays DEF AtRest
  <1>. QED  BY <1>3, <1>4 DEF AtRest

\* The buffers are no part of an accumulator or of the output.
LEMMA BuffersApart ==
    /\ \A q : Buffers \intersect AccOf(q) = {}
    /\ \A t : Res(t) \notin Buffers /\ \A q : Res(t) \notin AccOf(q)
    /\ \A b \in {0, 1} : Halves(b) \subseteq Buffers
  <1>1. \A q : Buffers \intersect AccOf(q) = {}
    BY PartsApart DEF Buffers, L1Four
  <1>2. ASSUME NEW t PROVE Res(t) \notin Buffers
    BY ResApart DEF Core, Buffers
  <1>3. ASSUME NEW t, NEW q PROVE Res(t) \notin AccOf(q)
    BY PlacesDiffer DEF Res, AccOf, C0, MF, FM
  <1>4. \A b \in {0, 1} : Halves(b) \subseteq Buffers
    <2>1. \A a \in {0, 1} : (a = 0 \/ a = 1) /\ 0 + 2 = 2 /\ 1 + 2 = 3
      OBVIOUS
    <2>. QED  BY <2>1 DEF Halves, Buffers, L1Four
  <1>. QED  BY <1>1, <1>2, <1>3, <1>4

\* An accumulator is stored as the schedules do.
LEMMA StoreAccDone ==
    ASSUME 1 <= MaxPosted, NEW q \in {0, 1}, NEW c, Sound(c), Mine(c, q), NEW v, Holds(c, {C0(q)}, v),
           NEW t, Free(c, Res(t)), NEW d, d = c \o StoreAcc(q, t)
    PROVE  StoreDone(c, q, t, v, d)
  <1>. DEFINE i1 == set_flag("M", "FIX", q)
              i2 == wait_flag("M", "FIX", q)
              i3 == StoreOp(FALSE, Res(t), C0(q))
              i4 == set_flag("FIX", "M", q)
              e  == Append(Append(Append(Append(c, i1), i2), i3), i4)
  <1>1. StoreAcc(q, t) = <<i1, i2, i3, i4>>
    BY TilesAre DEF StoreAcc, StoreOp
  <1>2. StoreDone(c, q, t, v, e)
    <2>1. FALSE \in BOOLEAN
      OBVIOUS
    <2>. QED  BY <2>1, StoreLends
  <1>. HIDE DEF i1, i2, i3, i4
  <1>3. Text(c)
    BY DEF Sound
  <1>4. c \o <<i1, i2, i3, i4>> = e
    BY <1>3, Spell4
  <1>. QED  BY <1>1, <1>2, <1>4

\* A text of six parts behind another, part by part.
InSix(c, r, s, t, u, v, w) ==
    /\ c \o (r \o s \o t \o u \o v \o w) = (((((c \o r) \o s) \o t) \o u) \o v) \o w
    /\ Text(r \o s \o t \o u \o v \o w)
\* The six parts can be run one by one.
LEMMA SixParts ==
    ASSUME NEW c, Text(c), NEW r, Text(r), NEW s, Text(s), NEW t, Text(t), NEW u, Text(u), NEW v, Text(v), NEW w, Text(w)
    PROVE  InSix(c, r, s, t, u, v, w)
  <1>. DEFINE x == r \o s \o t \o u
              y == (((c \o r) \o s) \o t) \o u
  <1>0. \A p, q : Text(p) /\ Text(q) => c \o (p \o q) = (c \o p) \o q
    BY Associates, SMTT(30)
  <1>1. c \o x = y /\ Text(x)
    <2>1. InParts(c, r, s, t, u)
      BY InFour
    <2>. QED  BY <2>1 DEF InParts
  <1>2. r \o s \o t \o u \o v \o w = (x \o v) \o w /\ (((((c \o r) \o s) \o t) \o u) \o v) \o w = (y \o v) \o w
    OBVIOUS
  <1>. HIDE DEF x, y
  <1>3. c \o (x \o v) = y \o v /\ Text(x \o v)
    <2>1. c \o (x \o v) = (c \o x) \o v
      BY <1>1, <1>0
    <2>. QED  BY <1>1, <2>1, Joined
  <1>4. c \o ((x \o v) \o w) = (y \o v) \o w /\ Text((x \o v) \o w)
    <2>. DEFINE z == x \o v
    <2>1. Text(z) /\ c \o z = y \o v
      BY <1>3
    <2>. HIDE DEF z
    <2>2. c \o (z \o w) = (c \o z) \o w
      BY <2>1, <1>0
    <2>3. Text(z \o w)
      BY <2>1, Joined
    <2>. QED  BY <2>1, <2>2, <2>3 DEF z
  <1>. QED  BY <1>2, <1>4 DEF InSix

\* A tile: from rest to rest, with its result.
TilePart(t) == Buffers \union AccOf(0) \union {Res(t)}
TileDone(c, t, v, d) ==
    Within(c, d, TilePart(t)) /\ AtRest(d) /\ Mine(d, 0) /\ Yielded(d, Res(t), v)
\* The text of a tile in its six parts.
LEMMA DeepTileIs ==
    ASSUME NEW t, NEW nKd \in Nat \ {0}, NEW nP \in Nat \ {0}, NEW c, Text(c)
    PROVE  /\ Text(DeepTile(t, nKd, nP))
           /\ c \o DeepTile(t, nKd, nP)
                = (((((c \o PrimeL1L0) \o LoadL1(0, t, 0)) \o FlattenSeq(DeepChunks(t, nKd, nP)))
                     \o DrainL1L0) \o StoreAcc(0, t)) \o <<wait_flag("FIX", "M", 0)>>
  <1>. DEFINE r == PrimeL1L0
              s == LoadL1(0, t, 0)
              f == FlattenSeq(DeepChunks(t, nKd, nP))
              u == DrainL1L0
              v == StoreAcc(0, t)
              w == <<wait_flag("FIX", "M", 0)>>
  <1>1. Text(r) /\ Text(s) /\ Text(f) /\ Text(u) /\ Text(v) /\ Text(w)
    BY CubeTexts, DeepChunksAre
  <1>2. DeepTile(t, nKd, nP) = r \o s \o f \o u \o v \o w
    BY DEF DeepTile, Loop, DeepChunks
  <1>3. InSix(c, r, s, f, u, v, w)
    <2>. HIDE DEF r, s, f, u, v, w
    <2>. QED  BY <1>1, SixParts
  <1>. QED  BY <1>2, <1>3 DEF InSix

\* matmul_one_tile_deep does so, whatever ran in front of it.
LEMMA DeepTileDone ==
    ASSUME 2 <= MaxPosted, MaxPosted \in Nat, NEW t, NEW nKd \in Nat \ {0}, NEW nP \in Nat \ {0},
           NEW c, Sound(c), AtRest(c), Mine(c, 0), Free(c, Res(t)), NEW d, d = c \o DeepTile(t, nKd, nP)
    PROVE  TileDone(c, t, Stored(Sum(t, Pieces(nKd, 0, nP))), d)
  <1>. DEFINE f  == DeepChunks(t, nKd, nP)
              c1 == c \o PrimeL1L0
              c2 == c1 \o LoadL1(0, t, 0)
              c3 == c2 \o FlattenSeq(f)
              c4 == c3 \o DrainL1L0
              c5 == c4 \o StoreAcc(0, t)
              m  == Sum(t, Pieces(nKd, 0, nP))
              S  == TilePart(t)
  <1>0. /\ 1 <= MaxPosted /\ 0 \in {0, 1} /\ 0 * nP = 0 /\ 0 % 2 = 0 /\ ~ (0 > 0) /\ 0 < nKd /\ nKd > 0 /\ ~ (nKd < nKd)
        /\ (nKd * nP) % 2 \in {0, 1}
    <2>1. nKd * nP \in Nat
      OBVIOUS
    <2>2. \A g \in Nat : g % 2 \in {0, 1}
      OBVIOUS
    <2>. QED  BY <2>1, <2>2
  <1>1. Text(c) /\ d = c5 \o <<wait_flag("FIX", "M", 0)>>
    BY DeepTileIs DEF Sound
  <1>2. Primed(c, c1)
    BY PrimeBuffers
  <1>. HIDE DEF c1
  <1>3. Sound(c1) /\ (\A h \in 0..3 : Freed(c1, h)) /\ Turn(c1, 0) /\ Within(c, c1, Buffers)
    BY <1>2 DEF Primed, Within, Frame
  <1>4. Within(c1, c2, Halves(0)) /\ Ahead(c2, 0, PieceA(t, 0), PieceB(t, 0))
    BY <1>0, <1>3, LoadFirst
  <1>. HIDE DEF c2
  <1>5. Turn(c2, 0)
    <2>1. Halves(0) \intersect L0Both = {}
      BY HalvesApartFrom
    <2>2. L0Both \intersect Halves(0) = {}
      BY <2>1
    <2>3. SameOn(c1, c2, L0Both)
      BY <1>4, <2>2, WithinKeeps
    <2>. QED  BY <1>0, <1>3, <2>3, L0Stays
  <1>6. Within(c, c2, Buffers)
    <2>. DEFINE X == Buffers
                Y == Halves(0)
    <2>1. Y \subseteq X /\ Within(c, c1, X) /\ Within(c1, c2, Y)
      BY <1>0, <1>3, <1>4, BuffersApart
    <2>. HIDE DEF X, Y
    <2>2. Within(c1, c2, X)
      BY <2>1, WithinWide DEF Within
    <2>3. Within(c, c2, X)
      BY <2>1, <2>2, WithinOn
    <2>. QED  BY <2>3 DEF X
  <1>7. Mine(c2, 0)
    <2>1. AccOf(0) \intersect Buffers = {}
      BY BuffersApart
    <2>2. SameOn(c, c2, AccOf(0))
      BY <1>6, <2>1, WithinKeeps
    <2>. QED  BY <2>2, AccStays
  <1>8. AtChunk(c2, t, nKd, nP, 0, c2)
    <2>1. Within(c2, c2, DeepCore)
      <3>1. {} \subseteq DeepCore /\ Sound(c2)
        BY <1>6 DEF Within, Frame
      <3>. QED  BY <3>1, FrameSame, WithinWide
    <2>. QED  BY <1>0, <1>4, <1>5, <1>7, <2>1 DEF AtChunk, Mine
  <1>9. AtChunk(c2, t, nKd, nP, nKd, c3)
    <2>. HIDE DEF f
    <2>. QED  BY <1>8, AllChunks DEF f
  <1>. HIDE DEF c3, m, S
  <1>10. /\ Within(c2, c3, DeepCore) /\ TurnKnown(c3, (nKd * nP) % 2) /\ Holds(c3, {C0(0)}, m)
         /\ FreedBoth(c3, 0) /\ FreedBoth(c3, 1) /\ Owns(c3, "M", C0(0)) /\ Sound(c3)
    BY <1>0, <1>9 DEF AtChunk, Within, Frame, m
  <1>11. Mine(c3, 0)
    <2>1. MF(0) \notin DeepCore /\ FM(0) \notin DeepCore
      <3>1. MF(0) \in AccOf(0) /\ FM(0) \in AccOf(0)
        BY DEF AccOf
      <3>. QED  BY <3>1, BuffersApart, AccDiffers DEF DeepCore
    <2>2. Kept(c2, c3, MF(0)) /\ Kept(c2, c3, FM(0)) /\ SameEvents(c2, c3, MF(0)) /\ SameEvents(c2, c3, FM(0))
      BY <1>10, <2>1 DEF Within, Frame, StillSo
    <2>. QED  BY <1>7, <1>10, <2>2 DEF Mine, Kept, SameEvents
  <1>12. Within(c3, c4, Buffers) /\ AtRest(c4)
    BY <1>0, <1>10, DrainBuffers
  <1>. HIDE DEF c4
  <1>13. Mine(c4, 0) /\ Holds(c4, {C0(0)}, m) /\ Sound(c4)
    <2>1. AccOf(0) \intersect Buffers = {}
      BY BuffersApart
    <2>2. SameOn(c3, c4, AccOf(0))
      BY <1>12, <2>1, WithinKeeps
    <2>3. \A x \in {C0(0)} : Kept(c3, c4, x)
      BY <2>2 DEF SameOn, AccOf
    <2>. QED  BY <1>10, <1>11, <2>2, <2>3, AccStays, HoldsOn DEF SameOn
  <1>14. Within(c, c4, S)
    <2>. DEFINE X == Buffers
                Y == DeepCore
    <2>1. X \subseteq S /\ Y \subseteq S /\ Within(c, c2, X) /\ Within(c2, c3, Y) /\ Within(c3, c4, X)
      BY <1>6, <1>10, <1>12 DEF S, TilePart, DeepCore, AccOf
    <2>. HIDE DEF X, Y
    <2>2. Within(c, c2, S) /\ Within(c2, c3, S) /\ Within(c3, c4, S)
      BY <2>1, WithinWide DEF Within
    <2>3. Within(c, c3, S)
      BY <2>2, WithinOn
    <2>. QED  BY <2>2, <2>3, WithinOn
  <1>15. Free(c4, Res(t))
    <2>1. Res(t) \notin Buffers /\ Res(t) \notin DeepCore
      BY BuffersApart DEF DeepCore, AccOf
    <2>2. Kept(c, c2, Res(t)) /\ Kept(c2, c3, Res(t)) /\ Kept(c3, c4, Res(t))
      BY <1>6, <1>10, <1>12, <2>1 DEF Within, Frame, StillSo
    <2>. QED  BY <2>2 DEF Kept
  <1>16. StoreDone(c4, 0, t, m, c5)
    BY <1>0, <1>13, <1>15, StoreAccDone
  <1>. HIDE DEF c5
  <1>17. Sound(c5) /\ Lent(c5, 0) /\ Yielded(c5, Res(t), Stored(m)) /\ Within(c4, c5, AccOf(0) \union {Res(t)})
    BY <1>16 DEF StoreDone, Within, Frame
  <1>18. Within(c5, d, AccOf(0)) /\ Mine(d, 0)
    <2>1. d = Append(c5, wait_flag("FIX", "M", 0))
      <3>. DEFINE i == wait_flag("FIX", "M", 0)
      <3>1. Text(c5) /\ d = c5 \o <<i>>
        BY <1>1, <1>17 DEF Sound
      <3>. HIDE DEF i
      <3>2. d = Append(c5, i)
        BY <3>1, OneByOne
      <3>. QED  BY <3>2 DEF i
    <2>. QED  BY <1>17, <2>1, TakeBack
  <1>19. AtRest(d)
    <2>1. Buffers \intersect (AccOf(0) \union {Res(t)}) = {} /\ Buffers \intersect AccOf(0) = {}
      BY BuffersApart
    <2>2. SameOn(c4, c5, Buffers) /\ SameOn(c5, d, Buffers)
      BY <1>17, <1>18, <2>1, WithinKeeps
    <2>. QED  BY <1>12, <2>2, RestStays
  <1>20. Yielded(d, Res(t), Stored(m))
    <2>1. Res(t) \notin AccOf(0)
      BY BuffersApart
    <2>. QED  BY <1>17, <1>18, <2>1 DEF Within, Frame, StillSo, Kept, SameAt
  <1>21. Within(c, d, S)
    <2>. DEFINE X == AccOf(0) \union {Res(t)}
                Y == AccOf(0)
    <2>1. X \subseteq S /\ Y \subseteq S /\ Within(c4, c5, X) /\ Within(c5, d, Y)
      BY <1>17, <1>18 DEF S, TilePart
    <2>. HIDE DEF X, Y
    <2>2. Within(c4, c5, S) /\ Within(c5, d, S)
      BY <2>1, WithinWide DEF Within
    <2>3. Within(c, c5, S)
      BY <1>14, <2>2, WithinOn
    <2>. QED  BY <2>2, <2>3, WithinOn
  <1>. QED  BY <1>18, <1>19, <1>20, <1>21 DEF TileDone, m, S

-----------------------------------------------------------------------------
(* All the tiles of a core *)

\* The outputs from tile start on, the first k of them done and the others
\* not begun.
Outputs(start, n) == {Res(start + i) : i \in 0..(n - 1)}
OutSoFar(d, start, n, P, k) ==
    \A i \in 0..(n - 1) : IF i < k THEN Yielded(d, Res(start + i), RightTile(start + i, P)) ELSE Free(d, Res(start + i))

\* At first none is begun, code that is not about them leaves them,
LEMMA OutFirst ==
    ASSUME NEW start, NEW n \in Nat, NEW P
    PROVE  OutSoFar(<<>>, start, n, P, 0)
  BY EmptyText DEF OutSoFar

\* as the buffers and accumulators are,
LEMMA OutStays ==
    ASSUME NEW start, NEW n \in Nat, NEW P, NEW k, NEW c, OutSoFar(c, start, n, P, k), NEW d, NEW S, Within(c, d, S),
           \A t : Res(t) \notin S
    PROVE  OutSoFar(d, start, n, P, k)
  <1>1. ASSUME NEW i \in 0..(n - 1)
        PROVE  IF i < k THEN Yielded(d, Res(start + i), RightTile(start + i, P)) ELSE Free(d, Res(start + i))
    <2>1. Kept(c, d, Res(start + i))
      BY DEF Within, Frame, StillSo
    <2>2. IF i < k THEN Yielded(c, Res(start + i), RightTile(start + i, P)) ELSE Free(c, Res(start + i))
      BY DEF OutSoFar
    <2>. QED  BY <2>1, <2>2 DEF Kept, SameAt
  <1>. QED  BY <1>1 DEF OutSoFar

\* and code that does one moves on to the next.
LEMMA OutGrows ==
    ASSUME NEW start \in Nat, NEW n \in Nat, NEW P, NEW k \in 0..(n - 1), NEW c, OutSoFar(c, start, n, P, k),
           NEW d, NEW S, Within(c, d, S \union {Res(start + k)}), \A t : Res(t) \notin S,
           Yielded(d, Res(start + k), RightTile(start + k, P))
    PROVE  OutSoFar(d, start, n, P, k + 1)
  <1>1. ASSUME NEW i \in 0..(n - 1)
        PROVE  IF i < k + 1 THEN Yielded(d, Res(start + i), RightTile(start + i, P)) ELSE Free(d, Res(start + i))
    <2>1. CASE i = k
      BY <2>1
    <2>2. CASE i # k
      <3>1. Res(start + i) \notin S \union {Res(start + k)}
        <4>1. start + i # start + k
          BY <2>2
        <4>. QED  BY <4>1, ResApart
      <3>2. Kept(c, d, Res(start + i))
        BY <3>1 DEF Within, Frame, StillSo
      <3>3. IF i < k THEN Yielded(c, Res(start + i), RightTile(start + i, P)) ELSE Free(c, Res(start + i))
        BY DEF OutSoFar
      <3>4. i < k + 1 <=> i < k
        BY <2>2
      <3>. QED  BY <3>2, <3>3, <3>4 DEF Kept, SameAt
    <2>. QED  BY <2>1, <2>2
  <1>. QED  BY <1>1 DEF OutSoFar

\* A core is at rest in front of all the code,
CorePart(start, n) == Buffers \union AccOf(0) \union AccOf(1) \union Outputs(start, n)
\* with nothing written and no event posted,
LEMMA CoreIdle ==
    ASSUME NEW c, c = <<>>
    PROVE  /\ Sound(c) /\ AtRest(c) /\ \A q : Mine(c, q)
           /\ \A S : Within(c, c, S)
  <1>1. Quiet(c) /\ Sound(c) /\ (\A x : Free(c, x) /\ \A p : Owns(c, p, x))
    BY EmptyText DEF Quiet
  <1>2. \A p, x : OwnsOlder(c, p, x)
    BY <1>1, OlderToo
  <1>3. AtRest(c)
    BY <1>1, <1>2 DEF AtRest, Rested, L0Rests, RestsAt, Quiet
  <1>4. \A q : Mine(c, q)
    BY <1>1 DEF Mine, Quiet
  <1>5. \A S : Within(c, c, S)
    <2>1. \A S : {} \subseteq S
      OBVIOUS
    <2>. QED  BY <1>1, <2>1, FrameSame, WithinWide
  <1>. QED  BY <1>1, <1>3, <1>4, <1>5

\* and if it is behind it no event is left.
LEMMA CoreQuiet ==
    ASSUME NEW start, NEW n, NEW d, Within(<<>>, d, CorePart(start, n)), AtRest(d), Mine(d, 0), Mine(d, 1)
    PROVE  Quiet(d)
  <1>1. Sound(d) /\ PairsStay(<<>>, d) /\ (\A l : l \notin CorePart(start, n) => SameEvents(<<>>, d, l)) /\ \A l : Even(<<>>, l)
    <2>1. \A l : Even(<<>>, l)
      BY EmptyText DEF Quiet
    <2>2. Frame(<<>>, d, CorePart(start, n), CorePart(start, n))
      BY DEF Within
    <2>. QED  BY <2>1, <2>2, Zenon DEF Frame
  <1>2. \A x, i : Even(d, <<x, i>>)
    BY <1>1 DEF PairsStay, SameEvents
  <1>3. ASSUME NEW h \in 0..3, NEW l \in L1Half(h) PROVE Even(d, l)
    BY <1>2, <1>3 DEF AtRest, Rested, L1Half, L1
  <1>4. ASSUME NEW l \in L0Both PROVE Even(d, l)
    BY <1>2, <1>4 DEF AtRest, L0Rests, RestsAt, L0Both, A0, B0
  <1>5. ASSUME NEW q \in {0, 1}, NEW l \in AccOf(q) PROVE Even(d, l)
    BY <1>2, <1>5 DEF Mine, AccOf, C0
  <1>6. ASSUME NEW l \in Outputs(start, n) PROVE Even(d, l)
    BY <1>2, <1>6 DEF Outputs, Res
  <1>7. ASSUME NEW l PROVE Even(d, l)
    <2>1. CASE l \notin CorePart(start, n)
      BY <1>1, <2>1 DEF SameEvents
    <2>2. CASE l \in CorePart(start, n)
      <3>1. 0 \in 0..3 /\ 1 \in 0..3 /\ 2 \in 0..3 /\ 3 \in 0..3 /\ 0 \in {0, 1} /\ 1 \in {0, 1}
        OBVIOUS
      <3>. QED  BY <1>3, <1>4, <1>5, <1>6, <2>2, <3>1 DEF CorePart, Buffers, L1Four
    <2>. QED  BY <2>1, <2>2
  <1>. QED  BY <1>1, <1>7 DEF Quiet

\* Then it has done all there is to do.
LEMMA CoreConcludes ==
    ASSUME NEW start \in Nat, NEW end \in Nat, NEW n \in Nat, n = (IF start < end THEN end - start ELSE 0), NEW P,
           NEW p, p.right = RightTiles(start..(end - 1), P), Quiet(p.code), OutSoFar(p.code, start, n, P, n)
    PROVE  Synchronized(p)
  <1>1. ASSUME NEW s \in DOMAIN p.right PROVE Yielded(p.code, s, p.right[s])
    <2>1. PICK t \in start..(end - 1) : s = <<"res", t>>
      BY DEF RightTiles
    <2>2. p.right[s] = RightTile(t, P)
      BY <2>1 DEF RightTiles
    <2>3. t - start \in 0..(n - 1) /\ start + (t - start) = t /\ t - start < n
      BY <2>1
    <2>4. Yielded(p.code, Res(start + (t - start)), RightTile(start + (t - start), P))
      BY <2>3 DEF OutSoFar
    <2>. QED  BY <2>1, <2>2, <2>3, <2>4 DEF Res
  <1>. QED  BY <1>1, Concludes

\* The result of a tile of deep chunks.
DeepPieces(nKd, nP) == (0..(nKd - 1)) \X (0..(nP - 1))
\* The sum of its pieces, stored, is what it is to hold.
LEMMA DeepRight ==
    ASSUME NEW t, NEW nKd \in Nat, NEW nP
    PROVE  Stored(Sum(t, Pieces(nKd, 0, nP))) = RightTile(t, DeepPieces(nKd, nP))
  <1>1. Pieces(nKd, 0, nP) = DeepPieces(nKd, nP)
    <2>1. 0..(0 - 1) = {}
      OBVIOUS
    <2>2. {nKd} \X (0..(0 - 1)) = {}
      BY <2>1
    <2>. QED  BY <2>2 DEF Pieces, DeepPieces
  <1>. QED  BY <1>1 DEF Stored, RightTile, Sum, Multiplied

\* How many tiles there are.
TilesOf(start, end) == IF start < end THEN end - start ELSE 0
DeepTiles(start, end, nKd, nP) == [i \in 1..((end - 1) - start + 1) |-> DeepTile(start + i - 1, nKd, nP)]
\* The loop is so many tiles, and each of them is a text.
LEMMA DeepTilesAre ==
    ASSUME NEW start \in Nat, NEW end \in Nat, NEW nKd \in Nat \ {0}, NEW nP \in Nat \ {0},
           NEW n, n = TilesOf(start, end), NEW f, f = DeepTiles(start, end, nKd, nP)
    PROVE  /\ n \in Nat /\ Text(f) /\ Len(f) = n
           /\ \A i \in 1..n : f[i] = DeepTile(start + (i - 1), nKd, nP) /\ Text(f[i])
  <1>1. n \in Nat /\ 1..((end - 1) - start + 1) = 1..n
    BY DEF TilesOf
  <1>2. \A i \in 1..n : start + i - 1 = start + (i - 1)
    BY <1>1
  <1>3. f = [i \in 1..n |-> DeepTile(start + (i - 1), nKd, nP)]
    BY <1>1, <1>2 DEF DeepTiles
  <1>4. Text(f) /\ Len(f) = n
    <2>1. f = [i \in 1..n |-> f[i]]
      BY <1>3
    <2>. QED  BY <1>1, <2>1, ListIs
  <1>5. ASSUME NEW i \in 1..n PROVE f[i] = DeepTile(start + (i - 1), nKd, nP) /\ Text(f[i])
    <2>. DEFINE t == start + (i - 1)
    <2>1. f[i] = DeepTile(t, nKd, nP)
      BY <1>3
    <2>. HIDE DEF t
    <2>2. Text(DeepTile(t, nKd, nP))
      BY EmptyText, DeepTileIs
    <2>. QED  BY <2>1, <2>2 DEF t
  <1>. QED  BY <1>1, <1>4, <1>5

\* Between two tiles the core is at rest.
AfterTiles(start, n, P, k, d) ==
    Within(<<>>, d, CorePart(start, n)) /\ AtRest(d) /\ Mine(d, 0) /\ Mine(d, 1) /\ OutSoFar(d, start, n, P, k)
\* Each tile of the loop adds its result.
LEMMA NextTile ==
    ASSUME 2 <= MaxPosted, MaxPosted \in Nat, NEW start \in Nat, NEW n \in Nat, NEW nKd \in Nat \ {0}, NEW nP \in Nat \ {0},
           NEW k \in 0..(n - 1), NEW P, P = DeepPieces(nKd, nP), NEW c, AfterTiles(start, n, P, k, c),
           NEW d, d = c \o DeepTile(start + k, nKd, nP)
    PROVE  AfterTiles(start, n, P, k + 1, d)
  <1>. DEFINE t == start + k
              S == Buffers \union AccOf(0)
              Q == CorePart(start, n)
              v == Stored(Sum(t, Pieces(nKd, 0, nP)))
  <1>1. Sound(c) /\ AtRest(c) /\ Mine(c, 0) /\ Free(c, Res(t)) /\ Within(<<>>, c, Q) /\ OutSoFar(c, start, n, P, k)
    <2>1. k \in 0..(n - 1) /\ ~ (k < k)
      OBVIOUS
    <2>2. Free(c, Res(t))
      BY <2>1 DEF AfterTiles, OutSoFar
    <2>3. Sound(c)
      BY DEF AfterTiles, Within, Frame
    <2>. QED  BY <2>2, <2>3 DEF AfterTiles
  <1>2. Res(t) \in Outputs(start, n) /\ d = c \o DeepTile(t, nKd, nP) /\ v = RightTile(t, P)
    BY DeepRight DEF Outputs
  <1>3. TilePart(t) = S \union {Res(t)} /\ TilePart(t) \subseteq Q
    BY <1>2 DEF TilePart, CorePart
  <1>4. \A s : Res(s) \notin S
    BY BuffersApart
  <1>5. TileDone(c, t, v, d)
    <2>. HIDE DEF t, S, Q
    <2>. QED  BY <1>1, <1>2, DeepTileDone
  <1>6. Within(<<>>, d, Q)
    <2>. DEFINE X == TilePart(t)
    <2>1. X \subseteq Q /\ Within(c, d, X) /\ Within(<<>>, c, Q)
      BY <1>1, <1>3, <1>5 DEF TileDone
    <2>. HIDE DEF X, Q
    <2>2. Within(c, d, Q)
      BY <2>1, WithinWide DEF Within
    <2>. QED  BY <2>1, <2>2, WithinOn
  <1>7. OutSoFar(d, start, n, P, k + 1)
    <2>1. Within(c, d, S \union {Res(start + k)}) /\ Yielded(d, Res(start + k), RightTile(start + k, P))
      BY <1>2, <1>3, <1>5 DEF TileDone
    <2>. HIDE DEF S
    <2>. QED  BY <1>1, <1>4, <2>1, OutGrows
  <1>8. Mine(d, 1)
    <2>1. AccOf(1) \intersect TilePart(t) = {}
      <3>1. AccOf(1) \intersect AccOf(0) = {} /\ AccOf(1) \intersect Buffers = {}
        BY PartsApart, BuffersApart
      <3>2. Res(t) \notin AccOf(1)
        BY BuffersApart
      <3>. QED  BY <3>1, <3>2 DEF TilePart
    <2>2. SameOn(c, d, AccOf(1))
      BY <1>5, <2>1, WithinKeeps DEF TileDone
    <2>3. Mine(c, 1)
      BY DEF AfterTiles
    <2>. QED  BY <2>2, <2>3, AccStays
  <1>. QED  BY <1>5, <1>6, <1>7, <1>8 DEF AfterTiles, TileDone

\* The loop of deep tiles is Synchronized.
LEMMA DeepSynchronized ==
    ASSUME 2 <= MaxPosted, MaxPosted \in Nat, NEW start \in Nat, NEW end \in Nat, NEW nKd \in Nat \ {0}, NEW nP \in Nat \ {0}
    PROVE  Synchronized(DeepLoop(start, end, nKd, nP))
  <1>. DEFINE p == DeepLoop(start, end, nKd, nP)
              n == TilesOf(start, end)
              P == DeepPieces(nKd, nP)
              f == DeepTiles(start, end, nKd, nP)
              c == <<>>
              d == FlattenSeq(f)
  <1>1. /\ n \in Nat /\ Text(f) /\ Len(f) = n
        /\ \A i \in 1..n : f[i] = DeepTile(start + (i - 1), nKd, nP) /\ Text(f[i])
    BY DeepTilesAre
  <1>2. p.code = d /\ p.right = RightTiles(start..(end - 1), P)
    BY DEF DeepLoop, Loop, DeepTiles, DeepPieces
  <1>. HIDE DEF p
  <1>3. Text(c) /\ Sound(c) /\ AtRest(c) /\ Mine(c, 0) /\ Mine(c, 1) /\ \A S : Within(c, c, S)
    BY EmptyText, CoreIdle
  <1>4. PICK w : Text(FlattenSeq(f)) /\ Runs(c, f, n, w)
    <2>. HIDE DEF n, f, c
    <2>. QED  BY <1>1, <1>3, Unrolled
  <1>. DEFINE S == {k \in 0..n : AfterTiles(start, n, P, k, w[k])}
  <1>5. 0 \in S
    <2>1. OutSoFar(c, start, n, P, 0)
      <3>. HIDE DEF n, P
      <3>. QED  BY <1>1, OutFirst
    <2>2. AfterTiles(start, n, P, 0, c)
      BY <1>3, <2>1 DEF AfterTiles
    <2>. HIDE DEF c, n, P
    <2>3. w[0] = c
      BY <1>4 DEF Runs
    <2>. QED  BY <1>1, <2>2, <2>3
  <1>6. ASSUME NEW k \in 0..(n - 1), k \in S PROVE k + 1 \in S
    <2>. DEFINE e == w[k]
                h == w[k + 1]
    <2>. HIDE DEF n, c, f
    <2>1. k + 1 \in 1..n /\ (k + 1) - 1 = k /\ k + 1 \in 0..n
      BY <1>1
    <2>2. w[k + 1] = w[k] \o f[k + 1] /\ f[k + 1] = DeepTile(start + k, nKd, nP)
      BY <1>1, <1>4, <2>1 DEF Runs
    <2>3. h = e \o DeepTile(start + k, nKd, nP) /\ AfterTiles(start, n, P, k, e)
      BY <1>6, <2>2
    <2>. HIDE DEF e, h
    <2>4. AfterTiles(start, n, P, k + 1, h)
      BY <1>1, <2>3, NextTile
    <2>. QED  BY <2>1, <2>4 DEF h
  <1>7. AfterTiles(start, n, P, n, d)
    <2>1. n \in S
      <3>1. 0..n \subseteq S
        <4>. HIDE DEF S, n
        <4>. QED  BY <1>1, <1>5, <1>6, Induction
      <3>2. n \in 0..n
        BY <1>1
      <3>. HIDE DEF S, n
      <3>. QED  BY <3>1, <3>2
    <2>. HIDE DEF n, f
    <2>2. w[n] = c \o d
      BY <1>4 DEF Runs
    <2>. HIDE DEF d
    <2>3. c \o d = d
      BY <1>4, <1>3, Joined DEF d
    <2>. QED  BY <2>1, <2>2, <2>3
  <1>8. Quiet(d)
    <2>. HIDE DEF n, d, P
    <2>1. Within(<<>>, d, CorePart(start, n)) /\ AtRest(d) /\ Mine(d, 0) /\ Mine(d, 1)
      BY <1>7 DEF AfterTiles
    <2>. QED  BY <2>1, CoreQuiet
  <1>9. OutSoFar(d, start, n, P, n)
    BY <1>7 DEF AfterTiles
  <1>10. Synchronized(p)
    <2>1. n = IF start < end THEN end - start ELSE 0
      BY DEF TilesOf
    <2>. HIDE DEF n, d, P
    <2>. QED  BY <1>1, <1>2, <1>8, <1>9, <2>1, CoreConcludes
  <1>. QED  BY <1>10 DEF p

-----------------------------------------------------------------------------
(* Tiles of one chunk, each loaded during the one before *)

\* What is loaded ahead stays so as long as the buffers do.
LEMMA AheadStays ==
    ASSUME NEW c, NEW d, SameOn(c, d, Buffers), NEW b \in {0, 1}
    PROVE  /\ \A v, w : Ahead(c, b, v, w) => Ahead(d, b, v, w)
           /\ FreedBoth(c, b) => FreedBoth(d, b)
  <1>1. ASSUME NEW a \in {0, 1} PROVE SameOn(c, d, L1Half(a)) /\ SameOn(c, d, L1Half(a + 2))
    <2>1. L1Half(a) \subseteq Buffers /\ L1Half(a + 2) \subseteq Buffers
      BY BuffersApart DEF Halves
    <2>. QED  BY <2>1, SamePart
  <1>2. 1 - b \in {0, 1}
    OBVIOUS
  <1>3. /\ \A v, w : FullBoth(c, b, v, w) => FullBoth(d, b, v, w)
        /\ FreedBoth(c, b) => FreedBoth(d, b)
    BY <1>1, BothStay
  <1>4. Waiting(c, 1 - b, b) => Waiting(d, 1 - b, b)
    <2>. DEFINE o == 1 - b
    <2>1. /\ Freed(c, o) => Freed(d, o)
          /\ Freed(c, o + 2) => Freed(d, o + 2)
          /\ Known(c, o) => Known(d, o)
          /\ Known(c, o + 2) => Known(d, o + 2)
      <3>. HIDE DEF o
      <3>. QED  BY <1>1, <1>2, HalfStays DEF o
    <2>2. Ld(b) \in Buffers /\ Fr(o) \in Buffers /\ Fr(o + 2) \in Buffers
      <3>. HIDE DEF o
      <3>. QED  BY <1>2, BuffersApart DEF Halves, L1Half, o
    <2>3. /\ Passed(c, Ld(b), Fr(o)) => Passed(d, Ld(b), Fr(o))
          /\ Passed(c, Ld(b), Fr(o + 2)) => Passed(d, Ld(b), Fr(o + 2))
      <3>. HIDE DEF o
      <3>. QED  BY <2>2 DEF SameOn
    <2>. HIDE DEF o
    <2>4. Waiting(c, o, b) => Waiting(d, o, b)
      BY <2>1, <2>3 DEF Waiting
    <2>. QED  BY <2>4 DEF o
  <1>. QED  BY <1>3, <1>4 DEF Ahead

\* So does what there is behind the last tile.
LEMMA GoesOnStays ==
    ASSUME NEW c, NEW d, SameOn(c, d, Buffers), NEW b \in {0, 1}, NEW more \in BOOLEAN, NEW v, NEW w, GoesOn(more, c, b, v, w)
    PROVE  GoesOn(more, d, b, v, w)
  <1>1. 0 \in {0, 1} /\ 1 \in {0, 1}
    OBVIOUS
  <1>2. more => Ahead(d, b, v, w)
    BY AheadStays DEF GoesOn
  <1>3. ~ more => FreedBoth(d, 0) /\ FreedBoth(d, 1)
    BY <1>1, AheadStays DEF GoesOn
  <1>. QED  BY <1>2, <1>3 DEF GoesOn

\* An accumulator nobody uses is lent to the products before the first tile.
AccIdle(c, q) ==
    /\ Even(c, MF(q)) /\ Even(c, FM(q))
    /\ Owns(c, "FIX", C0(q)) /\ Owns(c, "FIX", MF(q)) /\ Owns(c, "FIX", FM(q)) /\ Owns(c, "M", FM(q))
\* The first set_flag of an accumulator does so.
LEMMA LendAcc ==
    ASSUME 1 <= MaxPosted, NEW q, NEW c, Sound(c), AccIdle(c, q), NEW d, d = Append(c, set_flag("FIX", "M", q))
    PROVE  Within(c, d, AccOf(q)) /\ Lent(d, q)
  <1>0. "FIX" \in CubePipe /\ "M" \in CubePipe /\ MF(q) # FM(q) /\ C0(q) # MF(q) /\ C0(q) # FM(q)
    BY AccDiffers DEF CubePipe
  <1>1. Posts(c, "FIX", FM(q), d)
    <2>1. Even(c, FM(q)) /\ Room(c, "FIX", FM(q))
      BY <1>0, CubePipes DEF AccIdle, Room
    <2>. QED  BY <1>0, <2>1, Post DEF FM
  <1>2. Even(d, MF(q)) /\ Pending(d, FM(q)) /\ Owns(d, "M", FM(q))
    BY <1>0, <1>1 DEF AccIdle, Posts, Frame, SameEvents, StillSo, Kept
  <1>3. Passed(d, FM(q), C0(q)) /\ Passed(d, FM(q), MF(q))
    BY <1>1 DEF AccIdle, Posts
  <1>4. Within(c, d, AccOf(q))
    <2>1. {FM(q)} \subseteq AccOf(q) /\ {} \subseteq AccOf(q)
      BY DEF AccOf
    <2>. QED  BY <1>1, <2>1, WithinWide DEF Posts
  <1>. QED  BY <1>2, <1>3, <1>4 DEF Lent

\* An accumulator stays idle while only other parts change.
LEMMA IdleStays ==
    ASSUME NEW c, NEW d, NEW q, SameOn(c, d, AccOf(q)), AccIdle(c, q)
    PROVE  AccIdle(d, q)
  <1>1. C0(q) \in AccOf(q) /\ MF(q) \in AccOf(q) /\ FM(q) \in AccOf(q)
    BY DEF AccOf
  <1>. QED  BY <1>1 DEF SameOn, SameEvents, Kept, AccIdle

\* Both are, and are taken back at the end.
BothAccs == AccOf(0) \union AccOf(1)
\* PrimeAcc lends both,
LEMMA PrimeAccs ==
    ASSUME 1 <= MaxPosted, NEW c, Sound(c), AccIdle(c, 0), AccIdle(c, 1), NEW d, d = c \o PrimeAcc
    PROVE  Within(c, d, BothAccs) /\ Lent(d, 0) /\ Lent(d, 1)
  <1>. DEFINE e == Append(c, set_flag("FIX", "M", 0))
              S == BothAccs
              X == AccOf(0)
              Y == AccOf(1)
  <1>1. d = Append(e, set_flag("FIX", "M", 1))
    BY Spell2 DEF PrimeAcc, Sound
  <1>2. X \intersect Y = {} /\ Y \intersect X = {} /\ X \subseteq S /\ Y \subseteq S
    BY PartsApart DEF BothAccs
  <1>3. Within(c, e, X) /\ Lent(e, 0)
    BY LendAcc
  <1>. HIDE DEF e, S
  <1>4. Sound(e) /\ AccIdle(e, 1)
    <2>1. SameOn(c, e, Y)
      BY <1>2, <1>3, WithinKeeps
    <2>. QED  BY <1>3, <2>1, IdleStays DEF Within, Frame
  <1>5. Within(e, d, Y) /\ Lent(d, 1)
    BY <1>1, <1>4, LendAcc
  <1>6. Lent(d, 0)
    <2>1. SameOn(e, d, X)
      BY <1>2, <1>5, WithinKeeps
    <2>. QED  BY <1>3, <2>1, AccStays
  <1>7. Within(c, d, S)
    <2>. HIDE DEF X, Y
    <2>1. Within(c, e, S) /\ Within(e, d, S)
      BY <1>2, <1>3, <1>5, WithinWide DEF Within
    <2>. QED  BY <2>1, WithinOn
  <1>. QED  BY <1>5, <1>6, <1>7 DEF S

\* and DrainAcc takes both back.
LEMMA DrainAccs ==
    ASSUME NEW c, Sound(c), Lent(c, 0), Lent(c, 1), NEW d, d = c \o DrainAcc
    PROVE  Within(c, d, BothAccs) /\ Mine(d, 0) /\ Mine(d, 1)
  <1>. DEFINE e == Append(c, wait_flag("FIX", "M", 0))
              S == BothAccs
              X == AccOf(0)
              Y == AccOf(1)
  <1>1. d = Append(e, wait_flag("FIX", "M", 1))
    BY Spell2 DEF DrainAcc, Sound
  <1>2. X \intersect Y = {} /\ Y \intersect X = {} /\ X \subseteq S /\ Y \subseteq S
    BY PartsApart DEF BothAccs
  <1>3. Within(c, e, X) /\ Mine(e, 0)
    BY TakeBack
  <1>. HIDE DEF e, S
  <1>4. Sound(e) /\ Lent(e, 1)
    <2>1. SameOn(c, e, Y)
      BY <1>2, <1>3, WithinKeeps
    <2>. QED  BY <1>3, <2>1, AccStays DEF Within, Frame
  <1>5. Within(e, d, Y) /\ Mine(d, 1)
    BY <1>1, <1>4, TakeBack
  <1>6. Mine(d, 0)
    <2>1. SameOn(e, d, X)
      BY <1>2, <1>5, WithinKeeps
    <2>. QED  BY <1>3, <2>1, AccStays
  <1>7. Within(c, d, S)
    <2>. HIDE DEF X, Y
    <2>1. Within(c, e, S) /\ Within(e, d, S)
      BY <1>2, <1>3, <1>5, WithinWide DEF Within
    <2>. QED  BY <2>1, WithinOn
  <1>. QED  BY <1>5, <1>6, <1>7 DEF S

\* A tile begins: the next one is loaded, its buffers and its accumulator are
\* taken over,
TileOpen(c, q, t, more, v, w, r, e) ==
    /\ Within(c, e, Both(q) \union AccOf(q)) /\ Mine(e, q) /\ Turn(e, r)
    /\ OpenedBoth(e, q, PieceA(t, 0), PieceB(t, 0)) /\ Loaded4(more, e, 1 - q, v, w)
\* The head of PipelinedTile does so,
LEMMA TileOpens ==
    ASSUME 1 <= MaxPosted, NEW q \in {0, 1}, NEW t, NEW u, NEW c, Sound(c), Ahead(c, q, PieceA(t, 0), PieceB(t, 0)), Lent(c, q),
           NEW r \in {0, 1}, Turn(c, r), NEW more \in BOOLEAN,
           NEW l, l = (IF more THEN LoadL1(1 - q, u, 0) ELSE <<>>),
           NEW e, e = ((c \o l) \o AwaitL1(q)) \o <<wait_flag("FIX", "M", q)>>
    PROVE  TileOpen(c, q, t, more, PieceA(u, 0), PieceB(u, 0), r, e)
  <1>. DEFINE b == (c \o l) \o AwaitL1(q)
              X == Both(q)
              Y == AccOf(q)
              S == X \union Y
              v == PieceA(u, 0)
              w == PieceB(u, 0)
  <1>1. LoadedAhead(c, q, PieceA(t, 0), PieceB(t, 0), more, u, 0, b)
    BY LoadAhead
  <1>2. e = b \o <<wait_flag("FIX", "M", q)>>
    OBVIOUS
  <1>. HIDE DEF b
  <1>3. /\ Sound(b) /\ Within(c, b, X) /\ OpenedBoth(b, q, PieceA(t, 0), PieceB(t, 0)) /\ Loaded4(more, b, 1 - q, v, w)
    BY <1>1 DEF LoadedAhead, Loaded4, Within, Frame
  <1>. HIDE DEF v, w
  <1>4. 1 - q \in {0, 1} /\ X \intersect L0Both = {} /\ X \intersect Y = {} /\ Y \intersect L0Both = {}
        /\ Halves(q) \intersect Y = {} /\ Halves(1 - q) \intersect Y = {}
    <2>1. 1 - q \in {0, 1}
      OBVIOUS
    <2>2. \A a \in {0, 1} : Halves(a) \intersect L0Both = {} /\ Halves(a) \intersect AccOf(q) = {}
      BY HalvesApartFrom
    <2>3. AccOf(q) \intersect L0Both = {}
      BY PartsApart
    <2>. QED  BY <2>1, <2>2, <2>3 DEF Both
  <1>5. Lent(b, q)
    <2>1. SameOn(c, b, Y)
      BY <1>3, <1>4, WithinKeeps
    <2>. QED  BY <2>1, AccStays
  <1>6. Within(b, e, Y) /\ Mine(e, q)
    <2>1. e = Append(b, wait_flag("FIX", "M", q))
      <3>. DEFINE i == wait_flag("FIX", "M", q)
      <3>1. Text(b) /\ e = b \o <<i>>
        BY <1>2, <1>3 DEF Sound
      <3>. HIDE DEF i
      <3>2. e = Append(b, i)
        BY <3>1, OneByOne
      <3>. QED  BY <3>2 DEF i
    <2>. QED  BY <1>3, <1>5, <2>1, TakeBack
  <1>7. Turn(e, r)
    <2>1. SameOn(c, b, L0Both) /\ SameOn(b, e, L0Both)
      BY <1>3, <1>4, <1>6, WithinKeeps
    <2>. QED  BY <2>1, L0Stays
  <1>8. OpenedBoth(e, q, PieceA(t, 0), PieceB(t, 0)) /\ Loaded4(more, e, 1 - q, v, w)
    <2>1. /\ SameOn(b, e, L1Half(q)) /\ SameOn(b, e, L1Half(q + 2))
          /\ SameOn(b, e, L1Half(1 - q)) /\ SameOn(b, e, L1Half((1 - q) + 2))
      <3>. HIDE DEF Y
      <3>. QED  BY <1>4, <1>6, HalvesKeep
    <2>. QED  BY <1>3, <2>1, BothStay DEF Loaded4
  <1>9. Within(c, e, S)
    <2>1. X \subseteq S /\ Y \subseteq S
      OBVIOUS
    <2>. HIDE DEF X, Y, S
    <2>2. Within(c, b, S) /\ Within(b, e, S)
      BY <1>3, <1>6, <2>1, WithinWide DEF Within
    <2>. QED  BY <2>2, WithinOn
  <1>. QED  BY <1>6, <1>7, <1>8, <1>9 DEF TileOpen, v, w

\* and it ends with its accumulator stored.
TileClosed(c, q, t, nP, r, more, v, w, d) ==
    /\ Within(c, d, PhaseCore(q, q) \union AccOf(q) \union {Res(t)}) /\ Lent(d, q) /\ TurnKnown(d, r)
    /\ Yielded(d, Res(t), Stored(Sum(t, Pieces(1, 0, nP)))) /\ GoesOn(more, d, 1 - q, v, w)
\* and so does StoreAcc behind its phases.
LEMMA TileCloses ==
    ASSUME 1 <= MaxPosted, NEW q \in {0, 1}, NEW t, NEW nP, NEW r \in {0, 1}, NEW more \in BOOLEAN, NEW v, NEW w,
           NEW c, Mine(c, q), Free(c, Res(t)), NEW e, ChunkOver(c, q, q, t, 0, nP, r, more, v, w, e),
           NEW d, d = e \o StoreAcc(q, t)
    PROVE  TileClosed(c, q, t, nP, r, more, v, w, d)
  <1>. DEFINE X == PhaseCore(q, q)
              Y == AccOf(q) \union {Res(t)}
              S == PhaseCore(q, q) \union AccOf(q) \union {Res(t)}
              m == Sum(t, Pieces(1, 0, nP))
  <1>1. /\ Within(c, e, X) /\ Sound(e) /\ TurnKnown(e, r) /\ Owns(e, "M", C0(q)) /\ Holds(e, {C0(q)}, m)
        /\ GoesOn(more, e, 1 - q, v, w)
    <2>1. 0 + 1 = 1
      OBVIOUS
    <2>. QED  BY <2>1 DEF ChunkOver, Within, Frame
  <1>. HIDE DEF m
  <1>2. MF(q) \notin X /\ FM(q) \notin X /\ Res(t) \notin X
    <2>1. MF(q) \in AccOf(q) /\ FM(q) \in AccOf(q) /\ C0(q) \in AccOf(q)
      BY DEF AccOf
    <2>2. Halves(q) \subseteq Buffers /\ L0Both \subseteq Buffers
      BY BuffersApart DEF Buffers
    <2>3. MF(q) \notin Buffers /\ FM(q) \notin Buffers /\ Res(t) \notin Buffers /\ Res(t) \notin AccOf(q)
      BY <2>1, BuffersApart
    <2>. QED  BY <2>1, <2>2, <2>3, AccDiffers DEF PhaseCore
  <1>3. Mine(e, q) /\ Free(e, Res(t))
    <2>1. Kept(c, e, MF(q)) /\ Kept(c, e, FM(q)) /\ SameEvents(c, e, MF(q)) /\ SameEvents(c, e, FM(q)) /\ Kept(c, e, Res(t))
      <3>. HIDE DEF X
      <3>. QED  BY <1>1, <1>2 DEF Within, Frame, StillSo
    <2>. QED  BY <1>1, <2>1 DEF Mine, Kept, SameEvents
  <1>4. Within(e, d, Y) /\ Lent(d, q) /\ Yielded(d, Res(t), Stored(m))
    BY <1>1, <1>3, StoreAccDone DEF StoreDone
  <1>5. SameOn(e, d, Buffers)
    <2>1. Buffers \intersect Y = {}
      BY BuffersApart
    <2>. HIDE DEF Y
    <2>. QED  BY <1>4, <2>1, WithinKeeps
  <1>6. TurnKnown(d, r)
    <2>1. L0Both \subseteq Buffers
      BY DEF Buffers
    <2>2. SameOn(e, d, L0Both)
      BY <1>5, <2>1, SamePart
    <2>. QED  BY <1>1, <2>2, L0Stays
  <1>7. GoesOn(more, d, 1 - q, v, w)
    <2>1. 1 - q \in {0, 1}
      OBVIOUS
    <2>. QED  BY <1>1, <1>5, <2>1, GoesOnStays
  <1>8. Within(c, d, S)
    <2>1. X \subseteq S /\ Y \subseteq S
      OBVIOUS
    <2>. HIDE DEF X, Y, S
    <2>2. Within(c, e, S) /\ Within(e, d, S)
      BY <1>1, <1>4, <2>1, WithinWide DEF Within
    <2>. QED  BY <2>2, WithinOn
  <1>. QED  BY <1>4, <1>6, <1>7, <1>8 DEF TileClosed, m

\* The phases of a tile.
PipePhases(t, start, nP) ==
    [i \in 1..((nP - 1) - 0 + 1) |-> Phase(t % 2, t % 2, 0 + i - 1, nP, (t - start) * nP + (0 + i - 1), 0 + i - 1 = 0)]
\* They are the phases AllPhases speaks of.
LEMMA PipePhasesAre ==
    ASSUME NEW start \in Nat, NEW k \in Nat, NEW t, t = start + k, NEW nP \in Nat \ {0}, NEW f, f = PipePhases(t, start, nP)
    PROVE  PhaseList(f, t % 2, t % 2, 0, nP, k * nP)
  <1>1. (nP - 1) - 0 + 1 = nP /\ t - start = k /\ \A i \in 1..nP : 0 + i - 1 = i - 1
    OBVIOUS
  <1>2. f = [i \in 1..nP |-> Phase(t % 2, t % 2, i - 1, nP, k * nP + (i - 1), i - 1 = 0)]
    BY <1>1 DEF PipePhases
  <1>3. Text(f) /\ Len(f) = nP
    <2>1. f = [i \in 1..nP |-> f[i]]
      BY <1>2
    <2>. QED  BY <2>1, ListIs
  <1>4. ASSUME NEW i \in 1..nP
        PROVE  \E init \in BOOLEAN : (init <=> 0 = 0 /\ i = 1) /\ f[i] = Phase(t % 2, t % 2, i - 1, nP, k * nP + (i - 1), init)
    <2>. DEFINE init == i - 1 = 0
    <2>1. init \in BOOLEAN /\ (init <=> 0 = 0 /\ i = 1)
      OBVIOUS
    <2>2. f[i] = Phase(t % 2, t % 2, i - 1, nP, k * nP + (i - 1), init)
      BY <1>2
    <2>. HIDE DEF init
    <2>. QED  BY <2>1, <2>2
  <1>. QED  BY <1>3, <1>4 DEF PhaseList

\* A text of five parts behind another, part by part.
InFive(c, r, s, t, u, v) ==
    /\ c \o (r \o s \o t \o u \o v) = ((((c \o r) \o s) \o t) \o u) \o v
    /\ Text(r \o s \o t \o u \o v)
\* The five parts can be run one by one.
LEMMA FiveParts ==
    ASSUME NEW c, Text(c), NEW r, Text(r), NEW s, Text(s), NEW t, Text(t), NEW u, Text(u), NEW v, Text(v)
    PROVE  InFive(c, r, s, t, u, v)
  <1>. DEFINE x == r \o s \o t \o u
              y == (((c \o r) \o s) \o t) \o u
  <1>0. \A p, q : Text(p) /\ Text(q) => c \o (p \o q) = (c \o p) \o q
    BY Associates, SMTT(30)
  <1>1. c \o x = y /\ Text(x)
    <2>1. InParts(c, r, s, t, u)
      BY InFour
    <2>. QED  BY <2>1 DEF InParts
  <1>2. r \o s \o t \o u \o v = x \o v /\ ((((c \o r) \o s) \o t) \o u) \o v = y \o v
    OBVIOUS
  <1>. HIDE DEF x, y
  <1>3. c \o (x \o v) = y \o v /\ Text(x \o v)
    <2>1. c \o (x \o v) = (c \o x) \o v
      BY <1>1, <1>0
    <2>. QED  BY <1>1, <2>1, Joined
  <1>. QED  BY <1>2, <1>3 DEF InFive

PipeLoad(t, end) == IF t + 1 < end THEN LoadL1((t + 1) % 2, t + 1, 0) ELSE <<>>
TileSplit(c, t, start, end, nP) ==
    c \o PipelinedTile(t, start, end, nP)
      = ((((c \o PipeLoad(t, end)) \o AwaitL1(t % 2)) \o <<wait_flag("FIX", "M", t % 2)>>)
            \o FlattenSeq(PipePhases(t, start, nP))) \o StoreAcc(t % 2, t)
\* The text of a tile in its five parts.
LEMMA PipelinedTileIs ==
    ASSUME NEW start \in Nat, NEW k \in Nat, NEW t, t = start + k, NEW end, NEW nP \in Nat \ {0}, NEW c, Text(c)
    PROVE  Text(PipelinedTile(t, start, end, nP)) /\ TileSplit(c, t, start, end, nP)
  <1>. DEFINE r == PipeLoad(t, end)
              s == AwaitL1(t % 2)
              i == <<wait_flag("FIX", "M", t % 2)>>
              f == FlattenSeq(PipePhases(t, start, nP))
              v == StoreAcc(t % 2, t)
  <1>1. Text(r) /\ Text(s) /\ Text(i) /\ Text(v)
    BY IfLoads, CubeTexts DEF PipeLoad
  <1>2. Text(f)
    <2>1. PhaseList(PipePhases(t, start, nP), t % 2, t % 2, 0, nP, k * nP)
      BY PipePhasesAre
    <2>2. t % 2 \in {0, 1} /\ k * nP \in Nat /\ nP \in Nat
      OBVIOUS
    <2>. QED  BY <2>1, <2>2, PhaseTexts
  <1>3. PipelinedTile(t, start, end, nP) = r \o s \o i \o f \o v
    BY DEF PipelinedTile, Loop, PipePhases, PipeLoad
  <1>4. InFive(c, r, s, i, f, v)
    <2>. HIDE DEF r, s, i, f, v
    <2>. QED  BY <1>1, <1>2, FiveParts
  <1>. QED  BY <1>3, <1>4 DEF InFive, TileSplit

\* Before the k-th tile.
AtTile(start, n, nP, P, k, d) ==
    /\ Within(<<>>, d, CorePart(start, n)) /\ Lent(d, 0) /\ Lent(d, 1)
    /\ Turn(d, (k * nP) % 2) /\ (k > 0 => TurnKnown(d, (k * nP) % 2))
    /\ IF k < n THEN Ahead(d, (start + k) % 2, PieceA(start + k, 0), PieceB(start + k, 0)) ELSE FreedBoth(d, 0) /\ FreedBoth(d, 1)
    /\ OutSoFar(d, start, n, P, k)

OnePiece(nP) == {0} \X (0..(nP - 1))
\* The sum of the pieces of a tile, stored, is what it is to hold.
LEMMA PipeRight ==
    ASSUME NEW t, NEW nP
    PROVE  Stored(Sum(t, Pieces(1, 0, nP))) = RightTile(t, OnePiece(nP))
  <1>1. Pieces(1, 0, nP) = OnePiece(nP)
    <2>1. 0..(0 - 1) = {} /\ 0..(1 - 1) = {0}
      OBVIOUS
    <2>2. {1} \X (0..(0 - 1)) = {}
      BY <2>1
    <2>. QED  BY <2>1, <2>2 DEF Pieces, OnePiece
  <1>. QED  BY <1>1 DEF Stored, RightTile, Sum, Multiplied

\* What is true of a place outside the part that changes.
PipePart(q) == Buffers \union AccOf(q)
\* A tile changes the buffers and its own accumulator, and its own result.
LEMMA PipePartIs ==
    ASSUME NEW q \in {0, 1}
    PROVE  /\ Both(q) \union AccOf(q) \subseteq PipePart(q) /\ PhaseCore(q, q) \union AccOf(q) \subseteq PipePart(q)
           /\ \A t : Res(t) \notin PipePart(q)
           /\ \A t : AccOf(1 - q) \intersect (PipePart(q) \union {Res(t)}) = {}
  <1>1. q \in {0, 1} /\ 1 - q \in {0, 1} /\ ((q = 0 /\ 1 - q = 1) \/ (q = 1 /\ 1 - q = 0))
    <2>1. 1 - q \in {0, 1}
      OBVIOUS
    <2>2. CASE q = 0
      BY <2>1, <2>2
    <2>3. CASE q = 1
      BY <2>1, <2>3
    <2>. QED  BY <2>2, <2>3
  <1>2. Halves(q) \subseteq Buffers /\ Halves(1 - q) \subseteq Buffers /\ L0Both \subseteq Buffers /\ C0(q) \in AccOf(q)
    BY <1>1, BuffersApart DEF Buffers, AccOf
  <1>3. AccOf(1 - q) \intersect AccOf(q) = {}
    BY <1>1, PartsApart
  <1>4. AccOf(1 - q) \intersect Buffers = {}
    BY BuffersApart
  <1>5. \A t : Res(t) \notin PipePart(q) /\ Res(t) \notin AccOf(1 - q)
    BY BuffersApart DEF PipePart
  <1>. QED  BY <1>2, <1>3, <1>4, <1>5 DEF PipePart, Both, PhaseCore

\* Each tile makes way for the next, whose chunk is loaded by then.
LEMMA NextPiped ==
    ASSUME 2 <= MaxPosted, MaxPosted \in Nat, NEW start \in Nat, NEW n \in Nat, NEW end, end = start + n, NEW nP \in Nat \ {0},
           NEW k \in 0..(n - 1), NEW P, P = OnePiece(nP), NEW c, AtTile(start, n, nP, P, k, c),
           NEW d, d = c \o PipelinedTile(start + k, start, end, nP)
    PROVE  AtTile(start, n, nP, P, k + 1, d)
  <1>. DEFINE t    == start + k
              q    == t % 2
              g    == k * nP
              r    == g % 2
              s    == (g + nP) % 2
              u    == t + 1
              more == u < end
              l    == PipeLoad(t, end)
              e    == ((c \o l) \o AwaitL1(q)) \o <<wait_flag("FIX", "M", q)>>
              f    == PipePhases(t, start, nP)
              h    == e \o FlattenSeq(f)
              v    == PieceA(u, 0)
              w    == PieceB(u, 0)
              Q    == CorePart(start, n)
              S    == PipePart(q)
  <1>0. /\ 1 <= MaxPosted /\ k \in Nat /\ k < n /\ ~ (k < k) /\ t \in Nat /\ g \in Nat /\ q \in {0, 1} /\ r \in {0, 1} /\ s \in {0, 1}
        /\ u % 2 = 1 - q /\ more \in BOOLEAN /\ (more <=> k + 1 < n) /\ (k + 1) * nP = g + nP /\ u = start + (k + 1)
        /\ 1 - q \in {0, 1} /\ k + 1 > 0 /\ ~ (0 > 0)
    <2>1. 1 <= MaxPosted /\ k \in Nat /\ k < n /\ t \in Nat /\ g \in Nat /\ g + nP \in Nat
      OBVIOUS
    <2>2. q \in {0, 1} /\ u % 2 = 1 - q /\ u % 2 \in {0, 1} /\ r \in {0, 1} /\ s \in {0, 1}
      <3>. HIDE DEF t, g
      <3>. QED  BY <2>1, Alternates
    <2>3. u = start + (k + 1) /\ (more <=> k + 1 < n) /\ (k + 1) * nP = g + nP /\ more \in BOOLEAN /\ k + 1 > 0
      OBVIOUS
    <2>. HIDE DEF t, g, q, u, more
    <2>. QED  BY <2>1, <2>2, <2>3
  <1>1. Sound(c) /\ Text(c) /\ Within(<<>>, c, Q) /\ Lent(c, q) /\ Lent(c, 1 - q) /\ Turn(c, r) /\ OutSoFar(c, start, n, P, k)
    <2>1. (q = 0 /\ 1 - q = 1) \/ (q = 1 /\ 1 - q = 0)
      <3>. HIDE DEF q
      <3>1. CASE q = 0
        BY <3>1
      <3>2. CASE q = 1
        BY <3>2
      <3>. QED  BY <1>0, <3>1, <3>2
    <2>2. Lent(c, 0) /\ Lent(c, 1) /\ Within(<<>>, c, Q) /\ Turn(c, r) /\ OutSoFar(c, start, n, P, k)
      BY DEF AtTile
    <2>3. Sound(c) /\ Text(c)
      BY <2>2 DEF Within, Frame, Sound
    <2>. HIDE DEF q
    <2>. QED  BY <2>1, <2>2, <2>3
  <1>2. Ahead(c, q, PieceA(t, 0), PieceB(t, 0)) /\ Free(c, Res(t))
    <2>1. Ahead(c, q, PieceA(t, 0), PieceB(t, 0))
      BY <1>0 DEF AtTile
    <2>2. Free(c, Res(t))
      BY <1>0, <1>1 DEF OutSoFar
    <2>. QED  BY <2>1, <2>2
  <1>3. l = (IF more THEN LoadL1(1 - q, u, 0) ELSE <<>>)
    BY <1>0 DEF PipeLoad
  <1>4. d = h \o StoreAcc(q, t)
    <2>1. t = start + k /\ k \in Nat /\ Text(c) /\ d = c \o PipelinedTile(t, start, end, nP)
      BY <1>0, <1>1
    <2>. HIDE DEF t
    <2>2. TileSplit(c, t, start, end, nP)
      BY <2>1, PipelinedTileIs
    <2>. QED  BY <2>1, <2>2 DEF TileSplit
  <1>5. PhaseList(f, q, q, 0, nP, g)
    <2>1. t = start + k
      OBVIOUS
    <2>. HIDE DEF t
    <2>. QED  BY <1>0, <2>1, PipePhasesAre
  <1>6. TileOpen(c, q, t, more, v, w, r, e)
    <2>. HIDE DEF l, more, q, u, r, t
    <2>. QED  BY <1>0, <1>1, <1>2, <1>3, TileOpens
  <1>. HIDE DEF e, l, f
  <1>7. /\ Sound(e) /\ Within(c, e, Both(q) \union AccOf(q)) /\ Mine(e, q) /\ Turn(e, r) /\ OpenedBoth(e, q, PieceA(t, 0), PieceB(t, 0))
        /\ Loaded4(more, e, 1 - q, v, w) /\ Owns(e, "M", C0(q))
    BY <1>6 DEF TileOpen, Within, Frame, Mine
  <1>8. ChunkOver(e, q, q, t, 0, nP, s, more, v, w, h)
    <2>. HIDE DEF q, t, g, more, v, w
    <2>1. /\ Turn(e, g % 2) /\ 0 \in Nat /\ q \in {0, 1} /\ g \in Nat /\ more \in BOOLEAN /\ Sound(e)
          /\ OpenedBoth(e, q, PieceA(t, 0), PieceB(t, 0)) /\ Owns(e, "M", C0(q)) /\ Loaded4(more, e, 1 - q, v, w)
      BY <1>0, <1>7
    <2>2. 0 > 0 => Holds(e, {C0(q)}, Sum(t, Pieces(0, 0, nP)))
      OBVIOUS
    <2>3. h = e \o FlattenSeq(f)
      OBVIOUS
    <2>. HIDE DEF h
    <2>. QED  BY <1>5, <2>1, <2>2, <2>3, ChunkRuns, ZenonT(30)
  <1>. HIDE DEF h
  <1>9. Free(e, Res(t))
    <2>. HIDE DEF t, q
    <2>1. Res(t) \notin Both(q) \union AccOf(q)
      BY <1>0, PipePartIs
    <2>. QED  BY <1>2, <1>7, <2>1 DEF Within, Frame, StillSo, Kept
  <1>10. TileClosed(e, q, t, nP, s, more, v, w, d)
    <2>. HIDE DEF t, q, s, more, v, w
    <2>. QED  BY <1>0, <1>4, <1>7, <1>8, <1>9, TileCloses
  <1>11. Within(c, d, S \union {Res(t)})
    <2>. DEFINE X == Both(q) \union AccOf(q)
                Y == PhaseCore(q, q) \union AccOf(q) \union {Res(t)}
                Z == S \union {Res(t)}
    <2>1. X \subseteq Z /\ Y \subseteq Z /\ Within(c, e, X) /\ Within(e, d, Y)
      <3>1. Both(q) \union AccOf(q) \subseteq S /\ PhaseCore(q, q) \union AccOf(q) \subseteq S
        BY <1>0, PipePartIs
      <3>. HIDE DEF S
      <3>. QED  BY <1>7, <1>10, <3>1 DEF TileClosed
    <2>. HIDE DEF X, Y, Z
    <2>2. Within(c, e, Z) /\ Within(e, d, Z)
      BY <2>1, WithinWide DEF Within
    <2>3. Within(c, d, Z)
      BY <2>2, WithinOn
    <2>. QED  BY <2>3 DEF Z
  <1>12. Lent(d, 0) /\ Lent(d, 1)
    <2>. HIDE DEF t, S
    <2>1. AccOf(1 - q) \intersect (S \union {Res(t)}) = {}
      BY <1>0, PipePartIs DEF S
    <2>2. Lent(d, 1 - q) /\ Lent(d, q)
      <3>1. SameOn(c, d, AccOf(1 - q))
        BY <1>11, <2>1, WithinKeeps
      <3>. QED  BY <1>1, <1>10, <3>1, AccStays DEF TileClosed
    <2>. HIDE DEF q
    <2>3. CASE q = 0
      BY <2>2, <2>3
    <2>4. CASE q = 1
      BY <2>2, <2>4
    <2>. QED  BY <1>0, <2>3, <2>4
  <1>13. Within(<<>>, d, Q)
    <2>. DEFINE X == S \union {Res(t)}
    <2>1. X \subseteq Q
      <3>1. Res(t) \in Outputs(start, n)
        BY DEF Outputs
      <3>2. AccOf(q) \subseteq AccOf(0) \union AccOf(1)
        <4>. HIDE DEF q
        <4>. QED  BY <1>0
      <3>. QED  BY <3>1, <3>2 DEF CorePart, PipePart
    <2>2. Within(c, d, X)
      BY <1>11
    <2>. HIDE DEF X, Q
    <2>3. Within(c, d, Q)
      BY <2>1, <2>2, WithinWide DEF Within
    <2>. QED  BY <1>1, <2>3, WithinOn
  <1>14. OutSoFar(d, start, n, P, k + 1)
    <2>1. Within(c, d, S \union {Res(start + k)}) /\ \A x : Res(x) \notin S
      <3>1. \A x : Res(x) \notin S
        BY <1>0, PipePartIs
      <3>. QED  BY <1>11, <3>1
    <2>2. Yielded(d, Res(start + k), RightTile(start + k, P))
      BY <1>10, PipeRight DEF TileClosed
    <2>. HIDE DEF S
    <2>. QED  BY <1>1, <2>1, <2>2, OutGrows
  <1>15. Turn(d, ((k + 1) * nP) % 2) /\ TurnKnown(d, ((k + 1) * nP) % 2)
    <2>1. TurnKnown(d, s)
      BY <1>10 DEF TileClosed
    <2>. HIDE DEF g
    <2>. QED  BY <1>0, <2>1 DEF TurnKnown
  <1>16. IF k + 1 < n THEN Ahead(d, (start + (k + 1)) % 2, PieceA(start + (k + 1), 0), PieceB(start + (k + 1), 0))
                      ELSE FreedBoth(d, 0) /\ FreedBoth(d, 1)
    <2>1. GoesOn(more, d, 1 - q, PieceA(u, 0), PieceB(u, 0))
      BY <1>10 DEF TileClosed
    <2>. HIDE DEF more, u, q
    <2>. QED  BY <1>0, <2>1 DEF GoesOn
  <1>. QED  BY <1>12, <1>13, <1>14, <1>15, <1>16 DEF AtTile

\* All the tiles.
PipeTiles(start, end, nP) == [i \in 1..((end - 1) - start + 1) |-> PipelinedTile(start + i - 1, start, end, nP)]
PipeList(f, start, n, end, nP) ==
    /\ Text(f) /\ Len(f) = n /\ Text(FlattenSeq(f))
    /\ \A i \in 1..n : f[i] = PipelinedTile(start + (i - 1), start, end, nP) /\ Text(f[i])
\* The loop is so many tiles, and each of them is a text.
LEMMA PipeTilesAre ==
    ASSUME NEW start \in Nat, NEW n \in Nat, NEW end, end = start + n, NEW nP \in Nat \ {0}, NEW f, f = PipeTiles(start, end, nP)
    PROVE  PipeList(f, start, n, end, nP)
  <1>1. (end - 1) - start + 1 = n /\ \A i \in 1..n : start + i - 1 = start + (i - 1)
    OBVIOUS
  <1>2. f = [i \in 1..n |-> PipelinedTile(start + (i - 1), start, end, nP)]
    BY <1>1 DEF PipeTiles
  <1>3. Text(f) /\ Len(f) = n
    <2>1. f = [i \in 1..n |-> f[i]]
      BY <1>2
    <2>. QED  BY <2>1, ListIs
  <1>4. ASSUME NEW i \in 1..n PROVE f[i] = PipelinedTile(start + (i - 1), start, end, nP) /\ Text(f[i])
    <2>. DEFINE k == i - 1
                t == start + k
    <2>1. k \in Nat /\ t = start + k /\ f[i] = PipelinedTile(t, start, end, nP)
      BY <1>2
    <2>. HIDE DEF k, t
    <2>2. Text(PipelinedTile(t, start, end, nP))
      BY <2>1, EmptyText, PipelinedTileIs
    <2>. QED  BY <2>1, <2>2 DEF k, t
  <1>5. Text(FlattenSeq(f))
    BY <1>3, <1>4, EmptyText, Unrolled
  <1>. QED  BY <1>3, <1>4, <1>5 DEF PipeList

\* Behind all of them every result is there.
LEMMA AllPiped ==
    ASSUME 2 <= MaxPosted, MaxPosted \in Nat, NEW start \in Nat, NEW n \in Nat, NEW end, end = start + n, NEW nP \in Nat \ {0},
           NEW P, P = OnePiece(nP), NEW f, f = PipeTiles(start, end, nP),
           NEW c, AtTile(start, n, nP, P, 0, c), NEW d, d = c \o FlattenSeq(f)
    PROVE  AtTile(start, n, nP, P, n, d)
  <1>1. /\ Text(f) /\ Len(f) = n /\ Text(FlattenSeq(f))
        /\ \A i \in 1..n : f[i] = PipelinedTile(start + (i - 1), start, end, nP) /\ Text(f[i])
    <2>1. PipeList(f, start, n, end, nP)
      BY PipeTilesAre
    <2>. QED  BY <2>1 DEF PipeList
  <1>2. Text(c)
    BY DEF AtTile, Within, Frame, Sound
  <1>3. PICK w : Runs(c, f, n, w)
    BY <1>1, <1>2, Unrolled
  <1>. DEFINE S == {k \in 0..n : AtTile(start, n, nP, P, k, w[k])}
  <1>4. 0 \in S
    BY <1>3 DEF Runs
  <1>5. ASSUME NEW k \in 0..(n - 1), k \in S PROVE k + 1 \in S
    <2>. DEFINE e == w[k]
                h == w[k + 1]
    <2>1. k + 1 \in 1..n /\ (k + 1) - 1 = k /\ k + 1 \in 0..n
      OBVIOUS
    <2>2. w[k + 1] = w[k] \o f[k + 1] /\ f[k + 1] = PipelinedTile(start + k, start, end, nP)
      BY <1>1, <1>3, <2>1 DEF Runs
    <2>3. h = e \o PipelinedTile(start + k, start, end, nP) /\ AtTile(start, n, nP, P, k, e)
      BY <1>5, <2>2
    <2>. HIDE DEF e, h
    <2>4. AtTile(start, n, nP, P, k + 1, h)
      BY <2>3, NextPiped
    <2>. QED  BY <2>1, <2>4 DEF h
  <1>6. n \in S
    <2>1. 0..n \subseteq S
      <3>. HIDE DEF S
      <3>. QED  BY <1>4, <1>5, Induction
    <2>2. n \in 0..n
      OBVIOUS
    <2>. HIDE DEF S
    <2>. QED  BY <2>1, <2>2
  <1>. QED  BY <1>3, <1>6 DEF Runs

\* The pipelined loop as text,
IsPiped(start, end, nP, c, f) ==
    PipelinedLoop(start, end, nP).code
      = (((((c \o PrimeL1L0) \o PrimeAcc) \o LoadL1(start % 2, start, 0)) \o FlattenSeq(f)) \o DrainL1L0) \o DrainAcc
\* split into its parts,
LEMMA PipedText ==
    ASSUME NEW start \in Nat, NEW n \in Nat \ {0}, NEW end, end = start + n, NEW nP \in Nat \ {0},
           NEW f, f = PipeTiles(start, end, nP), NEW c, c = <<>>
    PROVE  IsPiped(start, end, nP, c, f)
  <1>. DEFINE r == PrimeL1L0
              s == PrimeAcc
              t == LoadL1(start % 2, start, 0)
              g == FlattenSeq(f)
              u == DrainL1L0
              v == DrainAcc
  <1>1. Text(r) /\ Text(s) /\ Text(t) /\ Text(g) /\ Text(u) /\ Text(v) /\ Text(c)
    <2>1. PipeList(f, start, n, end, nP)
      BY PipeTilesAre
    <2>. QED  BY <2>1, EmptyText, CubeTexts DEF PipeList
  <1>2. PipelinedLoop(start, end, nP).code = r \o s \o t \o g \o u \o v
    <2>1. ~ (start >= end)
      OBVIOUS
    <2>. QED  BY <2>1 DEF PipelinedLoop, Loop, PipeTiles
  <1>. HIDE DEF r, s, t, g, u, v
  <1>. DEFINE z == r \o s \o t \o g \o u \o v
  <1>3. c \o z = (((((c \o r) \o s) \o t) \o g) \o u) \o v /\ Text(z)
    <2>1. InSix(c, r, s, t, g, u, v)
      BY <1>1, SixParts
    <2>. QED  BY <2>1 DEF InSix
  <1>. HIDE DEF z
  <1>4. c \o z = z
    BY <1>3, Joined
  <1>5. z = (((((c \o r) \o s) \o t) \o g) \o u) \o v
    BY <1>3, <1>4
  <1>. QED  BY <1>2, <1>5 DEF r, s, t, g, u, v, z, IsPiped

\* up to the first tile
LEMMA PipedStart ==
    ASSUME 2 <= MaxPosted, MaxPosted \in Nat, NEW start \in Nat, NEW n \in Nat \ {0}, NEW nP \in Nat, NEW P, NEW c, c = <<>>,
           NEW d, d = ((c \o PrimeL1L0) \o PrimeAcc) \o LoadL1(start % 2, start, 0)
    PROVE  AtTile(start, n, nP, P, 0, d)
  <1>. DEFINE c1 == c \o PrimeL1L0
              c2 == c1 \o PrimeAcc
              q  == start % 2
              Q  == CorePart(start, n)
              X  == Buffers
              Y  == BothAccs
              Z  == Halves(q)
  <1>0. /\ 1 <= MaxPosted /\ q \in {0, 1} /\ (0 * nP) % 2 = 0 /\ start + 0 = start /\ 0 < n /\ ~ (0 > 0) /\ 0 \in {0, 1}
        /\ d = c2 \o LoadL1(q, start, 0) /\ n \in Nat
    <2>0. (0 * nP) % 2 = 0
      OBVIOUS
    <2>1. 1 <= MaxPosted /\ start + 0 = start /\ 0 < n /\ n \in Nat
      OBVIOUS
    <2>2. q \in {0, 1}
      BY Alternates
    <2>3. d = c2 \o LoadL1(q, start, 0)
      OBVIOUS
    <2>. QED  BY <2>0, <2>1, <2>2, <2>3
  <1>1. Sound(c) /\ AtRest(c) /\ (\A S : Within(c, c, S)) /\ \A q1 : AccIdle(c, q1)
    <2>1. Quiet(c) /\ \A x : \A p : Owns(c, p, x)
      BY EmptyText
    <2>2. \A q1 : AccIdle(c, q1)
      BY <2>1 DEF AccIdle, Quiet
    <2>. QED  BY <2>2, CoreIdle
  <1>. HIDE DEF q
  <1>2. Within(c, c1, X) /\ (\A h \in 0..3 : Freed(c1, h)) /\ Turn(c1, 0)
    BY <1>1, PrimeBuffers DEF Primed
  <1>. HIDE DEF c1
  <1>3. /\ X \intersect AccOf(0) = {} /\ X \intersect AccOf(1) = {} /\ X \intersect Y = {}
        /\ Z \subseteq X /\ Z \intersect L0Both = {} /\ Z \intersect Y = {} /\ L0Both \subseteq X
        /\ AccOf(0) \subseteq Y /\ AccOf(1) \subseteq Y /\ X \subseteq Q /\ Y \subseteq Q
        /\ \A t : Res(t) \notin Q \/ Res(t) \in Outputs(start, n)
    <2>1. X \intersect AccOf(0) = {} /\ X \intersect AccOf(1) = {} /\ Z \subseteq X
      BY <1>0, BuffersApart
    <2>2. Z \intersect L0Both = {}
      BY <1>0, HalvesApartFrom
    <2>3. L0Both \subseteq X
      BY DEF Buffers
    <2>. HIDE DEF X, Z
    <2>4. X \subseteq Q
      BY DEF CorePart, X
    <2>5. \A t : Res(t) \notin Q \/ Res(t) \in Outputs(start, n)
      BY BuffersApart DEF CorePart
    <2>. QED  BY <2>1, <2>2, <2>3, <2>4, <2>5 DEF CorePart, BothAccs
  <1>4. AccIdle(c1, 0) /\ AccIdle(c1, 1) /\ Sound(c1)
    <2>1. SameOn(c, c1, AccOf(0)) /\ SameOn(c, c1, AccOf(1))
      <3>1. AccOf(0) \intersect X = {} /\ AccOf(1) \intersect X = {}
        BY <1>3
      <3>. HIDE DEF X
      <3>. QED  BY <1>2, <3>1, WithinKeeps
    <2>. QED  BY <1>1, <2>1, IdleStays DEF SameOn
  <1>5. Within(c1, c2, Y) /\ Lent(c2, 0) /\ Lent(c2, 1)
    BY <1>0, <1>4, PrimeAccs
  <1>. HIDE DEF c2, Y, Z, Q
  <1>6. SameOn(c1, c2, X)
    <2>. HIDE DEF X
    <2>. QED  BY <1>3, <1>5, WithinKeeps
  <1>7. Sound(c2) /\ (\A h \in 0..3 : Freed(c2, h)) /\ Turn(c2, 0)
    <2>1. ASSUME NEW h \in 0..3 PROVE Freed(c2, h)
      <3>1. L1Half(h) \subseteq X
        <4>1. h = 0 \/ h = 1 \/ h = 2 \/ h = 3
          OBVIOUS
        <4>. QED  BY <4>1 DEF Buffers, L1Four
      <3>2. SameOn(c1, c2, L1Half(h))
        BY <1>6, <3>1, SamePart
      <3>. QED  BY <1>2, <3>2, HalfStays
    <2>2. Turn(c2, 0)
      <3>1. SameOn(c1, c2, L0Both)
        BY <1>3, <1>6, SamePart
      <3>. QED  BY <1>0, <1>2, <3>1, L0Stays
    <2>. QED  BY <1>6, <2>1, <2>2 DEF SameOn
  <1>8. Within(c2, d, Z) /\ Ahead(d, q, PieceA(start, 0), PieceB(start, 0))
    BY <1>0, <1>7, LoadFirst DEF Z
  <1>9. Turn(d, 0) /\ Lent(d, 0) /\ Lent(d, 1)
    <2>1. SameOn(c2, d, L0Both) /\ SameOn(c2, d, AccOf(0)) /\ SameOn(c2, d, AccOf(1))
      <3>1. L0Both \intersect Z = {} /\ AccOf(0) \intersect Z = {} /\ AccOf(1) \intersect Z = {}
        BY <1>3
      <3>. QED  BY <1>8, <3>1, WithinKeeps
    <2>. QED  BY <1>0, <1>5, <1>7, <2>1, L0Stays, AccStays
  <1>10. Within(c, d, Q)
    <2>. HIDE DEF X
    <2>1. Within(c, c1, Q) /\ Within(c1, c2, Q) /\ Within(c2, d, Q)
      <3>1. Z \subseteq Q
        BY <1>3
      <3>. QED  BY <1>2, <1>3, <1>5, <1>8, <3>1, WithinWide DEF Within
    <2>2. Within(c, c2, Q)
      BY <2>1, WithinOn
    <2>. QED  BY <2>1, <2>2, WithinOn
  <1>11. OutSoFar(d, start, n, P, 0)
    <2>1. OutSoFar(c, start, n, P, 0)
      BY <1>0, OutFirst
    <2>2. Within(c, d, X \union Y)
      <3>1. Z \subseteq X \union Y /\ X \subseteq X \union Y /\ Y \subseteq X \union Y
        BY <1>3
      <3>. DEFINE R == X \union Y
      <3>. HIDE DEF X, R
      <3>2. Within(c, c1, R) /\ Within(c1, c2, R) /\ Within(c2, d, R)
        BY <1>2, <1>5, <1>8, <3>1, WithinWide DEF Within, R
      <3>3. Within(c, c2, R)
        BY <3>2, WithinOn
      <3>4. Within(c, d, R)
        BY <3>2, <3>3, WithinOn
      <3>. QED  BY <3>4 DEF R
    <2>3. \A t : Res(t) \notin X \union Y
      BY BuffersApart DEF Y, BothAccs
    <2>. HIDE DEF X
    <2>. QED  BY <1>0, <2>1, <2>2, <2>3, OutStays
  <1>. QED  BY <1>0, <1>8, <1>9, <1>10, <1>11 DEF AtTile, q, Q

\* and as a whole.
LEMMA PipelinedSynchronized ==
    ASSUME 2 <= MaxPosted, MaxPosted \in Nat, NEW start \in Nat, NEW end \in Nat, NEW nP \in Nat \ {0}
    PROVE  Synchronized(PipelinedLoop(start, end, nP))
  <1>. DEFINE p == PipelinedLoop(start, end, nP)
              n == TilesOf(start, end)
              P == OnePiece(nP)
              f == PipeTiles(start, end, nP)
              c == <<>>
              d == p.code
  <1>1. n \in Nat /\ n = (IF start < end THEN end - start ELSE 0) /\ p.right = RightTiles(start..(end - 1), P)
    BY DEF PipelinedLoop, TilesOf, OnePiece
  <1>2. Quiet(c) /\ OutSoFar(c, start, n, P, 0)
    BY <1>1, EmptyText, OutFirst
  <1>3. CASE ~ (start < end)
    <2>1. d = c /\ n = 0
      BY <1>1, <1>3 DEF PipelinedLoop
    <2>2. Quiet(d) /\ OutSoFar(d, start, n, P, n)
      <3>. HIDE DEF d, c, n
      <3>. QED  BY <1>2, <2>1
    <2>. HIDE DEF d, n, P
    <2>3. Synchronized(p)
      <3>. HIDE DEF p
      <3>. QED  BY <1>1, <2>2, CoreConcludes DEF d
    <2>. QED  BY <2>3
  <1>4. CASE start < end
    <2>. DEFINE c3 == ((c \o PrimeL1L0) \o PrimeAcc) \o LoadL1(start % 2, start, 0)
                c4 == c3 \o FlattenSeq(f)
                c5 == c4 \o DrainL1L0
                Q  == CorePart(start, n)
                X  == Buffers
                Y  == BothAccs
    <2>0. n \in Nat \ {0} /\ end = start + n /\ ~ (n < n) /\ n > 0 /\ (n * nP) % 2 \in {0, 1}
      <3>1. n \in Nat \ {0} /\ end = start + n /\ ~ (n < n) /\ n > 0
        BY <1>1, <1>4
      <3>2. n * nP \in Nat
        BY <3>1
      <3>. DEFINE g == n * nP
      <3>. HIDE DEF n, g
      <3>3. g % 2 \in {0, 1}
        BY <3>2, Alternates DEF g
      <3>. QED  BY <3>1, <3>3 DEF g
    <2>1. d = c5 \o DrainAcc
      <3>. HIDE DEF n, p
      <3>1. n \in Nat \ {0} /\ end = start + n
        BY <2>0
      <3>2. f = PipeTiles(start, end, nP) /\ c = <<>>
        OBVIOUS
      <3>. HIDE DEF f, c
      <3>3. IsPiped(start, end, nP, c, f)
        BY <3>1, <3>2, PipedText
      <3>. QED  BY <3>3 DEF p, IsPiped
    <2>. HIDE DEF n, P
    <2>2. AtTile(start, n, nP, P, 0, c3)
      <3>. HIDE DEF c3
      <3>. QED  BY <2>0, PipedStart DEF c3
    <2>. HIDE DEF c3, d
    <2>3. AtTile(start, n, nP, P, n, c4)
      <3>. HIDE DEF c4, f
      <3>. QED  BY <2>0, <2>2, AllPiped DEF P, c4, f
    <2>. HIDE DEF c4, c, Q
    <2>4. /\ Within(c, c4, Q) /\ Sound(c4) /\ Lent(c4, 0) /\ Lent(c4, 1) /\ TurnKnown(c4, (n * nP) % 2)
          /\ FreedBoth(c4, 0) /\ FreedBoth(c4, 1) /\ OutSoFar(c4, start, n, P, n)
      BY <2>0, <2>3 DEF AtTile, Within, Frame, c, Q
    <2>5. Within(c4, c5, X) /\ AtRest(c5)
      BY <2>0, <2>4, DrainBuffers
    <2>. HIDE DEF c5
    <2>6. /\ X \intersect AccOf(0) = {} /\ X \intersect AccOf(1) = {} /\ X \intersect Y = {}
          /\ X \subseteq Q /\ Y \subseteq Q /\ (\A t : Res(t) \notin X) /\ \A t : Res(t) \notin Y
      BY BuffersApart DEF CorePart, BothAccs, Q
    <2>. HIDE DEF X, Y
    <2>7. Sound(c5) /\ Lent(c5, 0) /\ Lent(c5, 1)
      <3>1. AccOf(0) \intersect X = {} /\ AccOf(1) \intersect X = {}
        BY <2>6
      <3>2. SameOn(c4, c5, AccOf(0)) /\ SameOn(c4, c5, AccOf(1))
        BY <2>5, <3>1, WithinKeeps
      <3>. QED  BY <2>4, <3>2, AccStays DEF SameOn
    <2>8. Within(c5, d, Y) /\ Mine(d, 0) /\ Mine(d, 1)
      BY <2>1, <2>7, DrainAccs DEF Y
    <2>9. AtRest(d)
      <3>1. SameOn(c5, d, X)
        BY <2>6, <2>8, WithinKeeps
      <3>. QED  BY <2>5, <3>1, RestStays DEF X
    <2>10. Within(c, d, Q)
      <3>1. Within(c4, c5, Q) /\ Within(c5, d, Q)
        BY <2>5, <2>6, <2>8, WithinWide DEF Within
      <3>2. Within(c, c5, Q)
        BY <2>4, <3>1, WithinOn
      <3>. QED  BY <3>1, <3>2, WithinOn
    <2>11. Quiet(d)
      BY <2>8, <2>9, <2>10, CoreQuiet DEF c, Q
    <2>12. OutSoFar(d, start, n, P, n)
      <3>1. OutSoFar(c5, start, n, P, n)
        BY <2>0, <2>4, <2>5, <2>6, OutStays
      <3>. QED  BY <2>0, <2>6, <2>8, <3>1, OutStays
    <2>13. Synchronized(p)
      <3>. HIDE DEF p
      <3>. QED  BY <1>1, <2>0, <2>11, <2>12, CoreConcludes DEF d
    <2>. QED  BY <2>13
  <1>. QED  BY <1>3, <1>4

-----------------------------------------------------------------------------
(* Slices of the contraction *)

\* Buffers p of A and B in L1, with the event of their loads and the one that
\* frees them both, and buffer 0 of L0 with its two.
SliceHalf(p) == {L1(p), L1(p + 2), Ld(p), Fr(p + 2)}
SliceL0      == {A0(0), B0(0), Mu(4), Rd(5)}

\* They have no place in common, with one another or with the accumulator and
\* the output.
LEMMA SlicesDiffer ==
    ASSUME NEW p \in {0, 1}
    PROVE  /\ L1(p) # L1(p + 2) /\ L1(p) # Ld(p) /\ L1(p) # Fr(p + 2)
           /\ L1(p + 2) # Ld(p) /\ L1(p + 2) # Fr(p + 2) /\ Ld(p) # Fr(p + 2)
           /\ A0(0) # B0(0) /\ A0(0) # Mu(4) /\ A0(0) # Rd(5) /\ B0(0) # Mu(4) /\ B0(0) # Rd(5) /\ Mu(4) # Rd(5)
  BY PlacesDiffer DEF L1, Ld, Fr, A0, B0, Mu, Rd
\* The two halves of L1, L0, the accumulator and the output are apart.
LEMMA SlicesApart ==
    ASSUME NEW p \in {0, 1}
    PROVE  /\ SliceHalf(p) \intersect SliceHalf(1 - p) = {} /\ SliceHalf(p) \intersect SliceL0 = {}
           /\ SliceHalf(p) \intersect AccOf(0) = {} /\ SliceL0 \intersect AccOf(0) = {}
           /\ \A t : Res(t) \notin SliceHalf(p) /\ Res(t) \notin SliceL0
  <1>1. /\ L1(0) = <<"a_l1", 0>> /\ L1(1) = <<"a_l1", 1>> /\ L1(0 + 2) = <<"b_l1", 0>> /\ L1(1 + 2) = <<"b_l1", 1>>
        /\ Fr(0 + 2) = <<"MTE1", "MTE2", 2>> /\ Fr(1 + 2) = <<"MTE1", "MTE2", 3>>
    BY DEF L1, Fr
  <1>2. SliceHalf(0) \intersect SliceHalf(1) = {}
    BY <1>1, PlacesDiffer DEF SliceHalf, Ld
  <1>3. SliceHalf(p) \intersect SliceHalf(1 - p) = {}
    <2>1. CASE p = 0
      BY <1>2, <2>1
    <2>2. CASE p = 1
      BY <1>2, <2>2
    <2>. QED  BY <2>1, <2>2
  <1>4. ASSUME NEW q \in {0, 1} PROVE SliceHalf(q) \intersect SliceL0 = {} /\ SliceHalf(q) \intersect AccOf(0) = {}
    <2>1. CASE q = 0
      BY <1>1, <2>1, PlacesDiffer DEF SliceHalf, Ld, SliceL0, A0, B0, Mu, Rd, AccOf, C0, MF, FM
    <2>2. CASE q = 1
      BY <1>1, <2>2, PlacesDiffer DEF SliceHalf, Ld, SliceL0, A0, B0, Mu, Rd, AccOf, C0, MF, FM
    <2>. QED  BY <2>1, <2>2
  <1>5. SliceL0 \intersect AccOf(0) = {}
    BY PlacesDiffer DEF SliceL0, A0, B0, Mu, Rd, AccOf, C0, MF, FM
  <1>6. ASSUME NEW t PROVE Res(t) \notin SliceHalf(p) /\ Res(t) \notin SliceL0
    BY PlacesDiffer DEF Res, SliceHalf, L1, Ld, Fr, SliceL0, A0, B0, Mu, Rd
  <1>. QED  BY <1>3, <1>4, <1>5, <1>6

\* Buffers ready to be loaded, moved to L0 and on their way back, and loaded.
Vacant(d, p) ==
    /\ Even(d, Ld(p)) /\ Even(d, Fr(p + 2))
    /\ \A x \in SliceHalf(p) : Owns(d, "MTE2", x)
Spent(d, p) ==
    /\ Even(d, Ld(p)) /\ Pending(d, Fr(p + 2)) /\ Owns(d, "MTE2", Fr(p + 2))
    /\ \A x \in SliceHalf(p) : x # Fr(p + 2) => Passed(d, Fr(p + 2), x)
Brought(d, p, v, w) ==
    /\ Even(d, Ld(p)) /\ Even(d, Fr(p + 2)) /\ Owns(d, "MTE2", Fr(p + 2))
    /\ \A x \in SliceHalf(p) : Owns(d, "MTE1", x)
    /\ Holds(d, {L1(p)}, v) /\ Holds(d, {L1(p + 2)}, w)
VacantAfter(d, p, used) == IF used THEN Spent(d, p) ELSE Vacant(d, p)

\* Buffer 0 of L0 for the moves to fill, and multiplied.
Clear(d) == Even(d, Mu(4)) /\ Even(d, Rd(5)) /\ \A x \in SliceL0 : Owns(d, "MTE1", x)
Multiplying(d) ==
    /\ Even(d, Mu(4)) /\ Pending(d, Rd(5)) /\ Owns(d, "MTE1", Rd(5))
    /\ \A x \in SliceL0 : x # Rd(5) => Passed(d, Rd(5), x)
L0After(d, used) == IF used THEN Multiplying(d) ELSE Clear(d)

\* They stay so as long as only other parts change.
LEMMA SliceStays ==
    ASSUME NEW c, NEW d, NEW p, SameOn(c, d, SliceHalf(p))
    PROVE  /\ \A used : VacantAfter(c, p, used) => VacantAfter(d, p, used)
           /\ \A v, w : Brought(c, p, v, w) => Brought(d, p, v, w)
  <1>1. L1(p) \in SliceHalf(p) /\ L1(p + 2) \in SliceHalf(p) /\ Ld(p) \in SliceHalf(p) /\ Fr(p + 2) \in SliceHalf(p)
    BY DEF SliceHalf
  <1>2. /\ Even(c, Ld(p)) => Even(d, Ld(p))
        /\ Even(c, Fr(p + 2)) => Even(d, Fr(p + 2))
        /\ Pending(c, Fr(p + 2)) => Pending(d, Fr(p + 2))
    BY <1>1 DEF SameOn, SameEvents
  <1>3. \A x \in SliceHalf(p) : /\ \A q : Owns(c, q, x) => Owns(d, q, x)
                                /\ Passed(c, Fr(p + 2), x) => Passed(d, Fr(p + 2), x)
    BY <1>1 DEF SameOn, Kept
  <1>4. Vacant(c, p) => Vacant(d, p)
    BY <1>2, <1>3 DEF Vacant
  <1>5. Spent(c, p) => Spent(d, p)
    BY <1>1, <1>2, <1>3 DEF Spent
  <1>6. ASSUME NEW v, NEW w, Brought(c, p, v, w) PROVE Brought(d, p, v, w)
    <2>1. Kept(c, d, L1(p)) /\ Kept(c, d, L1(p + 2))
      BY <1>1 DEF SameOn
    <2>2. Holds(d, {L1(p)}, v) /\ Holds(d, {L1(p + 2)}, w)
      BY <1>6, <2>1, HoldsOn DEF Brought
    <2>. QED  BY <1>1, <1>2, <1>3, <1>6, <2>2 DEF Brought
  <1>. QED  BY <1>4, <1>5, <1>6 DEF VacantAfter

\* So does L0.
LEMMA SliceL0Stays ==
    ASSUME NEW c, NEW d, SameOn(c, d, SliceL0)
    PROVE  \A used : L0After(c, used) => L0After(d, used)
  <1>1. Mu(4) \in SliceL0 /\ Rd(5) \in SliceL0
    BY DEF SliceL0
  <1>2. Clear(c) => Clear(d)
    BY <1>1 DEF SameOn, SameEvents, Kept, Clear
  <1>3. Multiplying(c) => Multiplying(d)
    BY <1>1 DEF SameOn, SameEvents, Kept, Multiplying
  <1>. QED  BY <1>2, <1>3 DEF L0After

\* Buffers used before are waited for.
LEMMA NothingChanges ==
    ASSUME NEW c, Sound(c), NEW S
    PROVE  Within(c, c, S)
  <1>1. {} \subseteq S
    OBVIOUS
  <1>. QED  BY <1>1, FrameSame, WithinWide

\* The wait at the head of a step, from the third step on,
LEMMA Reclaims ==
    ASSUME NEW p \in {0, 1}, NEW used \in BOOLEAN, NEW c, Sound(c), VacantAfter(c, p, used),
           NEW d, d = c \o (IF used THEN <<wait_flag("MTE1", "MTE2", p + 2)>> ELSE <<>>)
    PROVE  Within(c, d, SliceHalf(p)) /\ Vacant(d, p)
  <1>0. Text(c) /\ "MTE2" \in CubePipe /\ Fr(p + 2) \in SliceHalf(p) /\ Ld(p) # Fr(p + 2)
    BY SlicesDiffer DEF Sound, CubePipe, SliceHalf
  <1>1. CASE ~ used
    <2>1. d = c
      BY <1>0, <1>1, Joined, EmptyText
    <2>. QED  BY <1>1, <2>1, NothingChanges DEF VacantAfter
  <1>2. CASE used
    <2>1. d = Append(c, wait_flag("MTE1", "MTE2", p + 2))
      BY <1>0, <1>2, OneByOne
    <2>2. Spent(c, p)
      BY <1>2 DEF VacantAfter
    <2>3. Takes(c, "MTE2", Fr(p + 2), d)
      BY <1>0, <2>1, <2>2, Take DEF Spent, Fr
    <2>4. Even(d, Ld(p)) /\ Even(d, Fr(p + 2))
      BY <1>0, <2>2, <2>3 DEF Takes, Frame, SameEvents, Spent
    <2>5. \A x \in SliceHalf(p) : Owns(d, "MTE2", x)
      BY <2>2, <2>3 DEF Takes, Spent
    <2>6. Within(c, d, SliceHalf(p))
      <3>1. {Fr(p + 2)} \subseteq SliceHalf(p)
        BY <1>0
      <3>. QED  BY <2>3, <3>1, WithinWide DEF Takes
    <2>. QED  BY <2>4, <2>5, <2>6 DEF Vacant
  <1>. QED  BY <1>1, <1>2

\* and the one in front of the moves, from the second step on.
LEMMA Clears ==
    ASSUME NEW used \in BOOLEAN, NEW c, Sound(c), L0After(c, used),
           NEW d, d = c \o (IF used THEN <<wait_flag("M", "MTE1", 5)>> ELSE <<>>)
    PROVE  Within(c, d, SliceL0) /\ Clear(d)
  <1>0. Text(c) /\ "MTE1" \in CubePipe /\ Rd(5) \in SliceL0 /\ Mu(4) # Rd(5)
    BY SlicesDiffer DEF Sound, CubePipe, SliceL0
  <1>1. CASE ~ used
    <2>1. d = c
      BY <1>0, <1>1, Joined, EmptyText
    <2>. QED  BY <1>1, <2>1, NothingChanges DEF L0After
  <1>2. CASE used
    <2>1. d = Append(c, wait_flag("M", "MTE1", 5))
      BY <1>0, <1>2, OneByOne
    <2>2. Multiplying(c)
      BY <1>2 DEF L0After
    <2>3. Takes(c, "MTE1", Rd(5), d)
      BY <1>0, <2>1, <2>2, Take DEF Multiplying, Rd
    <2>4. Even(d, Mu(4)) /\ Even(d, Rd(5))
      BY <1>0, <2>2, <2>3 DEF Takes, Frame, SameEvents, Multiplying
    <2>5. \A x \in SliceL0 : Owns(d, "MTE1", x)
      BY <2>2, <2>3 DEF Takes, Multiplying
    <2>6. Within(c, d, SliceL0)
      <3>1. {Rd(5)} \subseteq SliceL0
        BY <1>0
      <3>. QED  BY <2>3, <3>1, WithinWide DEF Takes
    <2>. QED  BY <2>4, <2>5, <2>6 DEF Clear
  <1>. QED  BY <1>1, <1>2

\* Both are loaded, and handed to the moves.
SliceLoad(p, t, k) ==
    <<TLOAD({L1(p)}, <<"A", t, k>>), TLOAD({L1(p + 2)}, <<"B", t, k>>), set_flag("MTE2", "MTE1", p), wait_flag("MTE2", "MTE1", p)>>
\* A step does so when they are vacant.
LEMMA BringSlices ==
    ASSUME 1 <= MaxPosted, NEW p \in {0, 1}, NEW c, Sound(c), Vacant(c, p), NEW t, NEW k, NEW d, d = c \o SliceLoad(p, t, k)
    PROVE  Within(c, d, SliceHalf(p)) /\ Brought(d, p, PieceA(t, k), PieceB(t, k))
  <1>. DEFINE i1 == TLOAD({L1(p)}, <<"A", t, k>>)
              i2 == TLOAD({L1(p + 2)}, <<"B", t, k>>)
              i3 == set_flag("MTE2", "MTE1", p)
              i4 == wait_flag("MTE2", "MTE1", p)
              e  == Append(c, i1)
              f  == Append(e, i2)
              x  == L1(p)
              y  == L1(p + 2)
              l  == Ld(p)
              r  == Fr(p + 2)
  <1>0. /\ "MTE2" \in CubePipe /\ "MTE1" \in CubePipe /\ Text(c)
        /\ x # y /\ x # l /\ x # r /\ y # l /\ y # r /\ l # r /\ l = <<"MTE2", "MTE1", p>>
    BY SlicesDiffer DEF Sound, CubePipe, Ld
  <1>1. SliceHalf(p) = {x, y, l, r}
    BY DEF SliceHalf
  <1>2. /\ Even(c, l) /\ Even(c, r) /\ Owns(c, "MTE2", x) /\ Owns(c, "MTE2", y) /\ Owns(c, "MTE2", l) /\ Owns(c, "MTE2", r)
    BY <1>1 DEF Vacant
  <1>3. d = Append(Append(f, i3), i4)
    <2>1. SliceLoad(p, t, k) = <<i1, i2, i3, i4>>
      BY DEF SliceLoad
    <2>. HIDE DEF i1, i2, i3, i4
    <2>. QED  BY <1>0, <2>1, Spell4
  <1>. HIDE DEF x, y, l, r
  <1>4. LoadsInto(c, x, <<"A", t, k>>, e)
    BY <1>2, LoadInto DEF x
  <1>. HIDE DEF e
  <1>5. /\ Sound(e) /\ Even(e, l) /\ Even(e, r) /\ Holds(e, {x}, Loaded(<<"A", t, k>>))
        /\ Owns(e, "MTE2", x) /\ Owns(e, "MTE2", y) /\ Owns(e, "MTE2", l) /\ Owns(e, "MTE2", r)
    BY <1>2, <1>4 DEF LoadsInto, Frame, SameEvents
  <1>6. LoadsInto(e, y, <<"B", t, k>>, f)
    BY <1>5, LoadInto DEF y
  <1>. HIDE DEF f
  <1>7. /\ Sound(f) /\ Even(f, l) /\ Even(f, r) /\ Holds(f, {y}, Loaded(<<"B", t, k>>))
        /\ Owns(f, "MTE2", x) /\ Owns(f, "MTE2", y) /\ Owns(f, "MTE2", l) /\ Owns(f, "MTE2", r)
    BY <1>5, <1>6 DEF LoadsInto, Frame, SameEvents
  <1>8. Holds(f, {x}, Loaded(<<"A", t, k>>))
    <2>1. Kept(e, f, x)
      BY <1>0, <1>6 DEF LoadsInto, Frame, StillSo
    <2>. QED  BY <1>5, <2>1, HoldsOn
  <1>9. HandsOver(f, "MTE2", "MTE1", l, d)
    <2>1. Room(f, "MTE2", l)
      BY <1>0, <1>7, CubePipes DEF Room
    <2>. QED  BY <1>0, <1>3, <1>7, <2>1, HandOver
  <1>10. /\ Even(d, l) /\ Even(d, r) /\ Owns(d, "MTE2", r)
         /\ Owns(d, "MTE1", x) /\ Owns(d, "MTE1", y) /\ Owns(d, "MTE1", l) /\ Owns(d, "MTE1", r)
    BY <1>0, <1>7, <1>9 DEF HandsOver, Frame, SameEvents
  <1>11. Holds(d, {x}, PieceA(t, k)) /\ Holds(d, {y}, PieceB(t, k))
    BY <1>7, <1>8, <1>9 DEF HandsOver, PieceA, PieceB
  <1>12. Brought(d, p, PieceA(t, k), PieceB(t, k))
    BY <1>1, <1>10, <1>11 DEF Brought, x, y, l, r
  <1>13. Within(c, d, SliceHalf(p))
    <2>. DEFINE S == SliceHalf(p)
                X == {x}
                Y == {y}
                L == {l}
                Z == {}
    <2>1. X \subseteq S /\ Y \subseteq S /\ L \subseteq S /\ Z \subseteq S
      BY <1>1
    <2>2. Frame(c, e, X, Z) /\ Frame(e, f, Y, Z) /\ Frame(f, d, L, L)
      BY <1>4, <1>6, <1>9 DEF LoadsInto, HandsOver
    <2>. HIDE DEF S, X, Y, L, Z
    <2>3. Within(c, e, S) /\ Within(e, f, S) /\ Within(f, d, S)
      BY <2>1, <2>2, WithinWide
    <2>4. Within(c, d, S)
      BY <2>3, WithinOn
    <2>. QED  BY <2>4 DEF S
  <1>. QED  BY <1>12, <1>13

\* They are moved to L0, and freed,
SliceMove(c, p) ==
    Append(Append(Append(c, TEXTRACT({A0(0)}, {L1(p)}, 0)), TEXTRACT({B0(0)}, {L1(p + 2)}, 0)), set_flag("MTE1", "MTE2", p + 2))
Both0(p) == SliceHalf(p) \union SliceL0
\* The two TMOV do so, when L0 is clear,
LEMMA MoveSlices ==
    ASSUME 1 <= MaxPosted, NEW p \in {0, 1}, NEW c, Sound(c), NEW v, NEW w, Brought(c, p, v, w), Clear(c), NEW d, d = SliceMove(c, p)
    PROVE  Within(c, d, Both0(p)) /\ Spent(d, p) /\ Clear(d) /\ Loaded2(d, 0, Extracted(0, v), Extracted(0, w))
  <1>. DEFINE e == Append(Append(c, TEXTRACT({A0(0)}, {L1(p)}, 0)), TEXTRACT({B0(0)}, {L1(p + 2)}, 0))
              x == A0(0)
              y == B0(0)
              s == L1(p)
              t == L1(p + 2)
              r == Fr(p + 2)
  <1>0. /\ "MTE1" \in CubePipe /\ x # y /\ s # r /\ t # r /\ x # r /\ y # r /\ x # s /\ x # t /\ y # s /\ y # t
        /\ Ld(p) # r /\ r = <<"MTE1", "MTE2", p + 2>>
        /\ x \in SliceL0 /\ y \in SliceL0 /\ s \in SliceHalf(p) /\ t \in SliceHalf(p) /\ r \in SliceHalf(p)
        /\ \A z \in SliceL0 : z # s /\ z # t /\ z # r
        /\ \A z \in SliceHalf(p) : z # x /\ z # y
        /\ Mu(4) \in SliceL0 /\ Rd(5) \in SliceL0 /\ Ld(p) \in SliceHalf(p)
        /\ Mu(4) # r /\ Rd(5) # r
    <2>1. x \in SliceL0 /\ y \in SliceL0 /\ s \in SliceHalf(p) /\ t \in SliceHalf(p) /\ r \in SliceHalf(p)
          /\ Mu(4) \in SliceL0 /\ Rd(5) \in SliceL0 /\ Ld(p) \in SliceHalf(p)
      BY DEF SliceL0, SliceHalf
    <2>2. SliceHalf(p) \intersect SliceL0 = {}
      BY SlicesApart
    <2>. QED  BY <2>1, <2>2, SlicesDiffer DEF CubePipe, Fr
  <1>1. /\ \A z \in {x, y, s, t} : Owns(c, "MTE1", z)
        /\ Holds(c, {s}, v) /\ Holds(c, {t}, w)
    BY <1>0 DEF Brought, Clear
  <1>2. x \notin {y, s, t} /\ y \notin {s, t}
    BY <1>0
  <1>3. Unpacked(c, x, y, s, t, 0, v, w, e)
    <2>0. e = Append(Append(c, TEXTRACT({x}, {s}, 0)), TEXTRACT({y}, {t}, 0))
      OBVIOUS
    <2>. HIDE DEF e, x, y, s, t
    <2>. QED  BY <1>1, <1>2, <2>0, Unpack
  <1>4. d = Append(e, set_flag("MTE1", "MTE2", p + 2))
    BY DEF SliceMove
  <1>. HIDE DEF e
  <1>5. /\ Sound(e) /\ Even(e, r) /\ Even(e, Ld(p)) /\ Even(e, Mu(4)) /\ Even(e, Rd(5))
        /\ Owns(e, "MTE2", r)
    BY <1>0, <1>3 DEF Brought, Clear, Unpacked, Frame, SameEvents, StillSo, Kept
  <1>6. \A z : z \in SliceHalf(p) \/ z \in SliceL0 => Owns(e, "MTE1", z)
    BY <1>3 DEF Brought, Clear, Unpacked
  <1>7. Posts(e, "MTE1", r, d)
    <2>1. Room(e, "MTE1", r)
      BY <1>0, <1>6, CubePipes DEF Room
    <2>. QED  BY <1>0, <1>4, <1>5, <2>1, Post
  <1>8. Spent(d, p)
    <2>1. Even(d, Ld(p)) /\ Pending(d, r) /\ Owns(d, "MTE2", r)
      BY <1>0, <1>5, <1>7 DEF Posts, Frame, SameEvents, StillSo, Kept
    <2>2. \A z \in SliceHalf(p) : Passed(d, r, z)
      BY <1>6, <1>7 DEF Posts
    <2>. QED  BY <2>1, <2>2 DEF Spent
  <1>9. Clear(d)
    <2>1. Even(d, Mu(4)) /\ Even(d, Rd(5))
      BY <1>0, <1>5, <1>7 DEF Posts, Frame, SameEvents
    <2>2. \A z \in SliceL0 : Owns(d, "MTE1", z)
      BY <1>6, <1>7 DEF Posts
    <2>. QED  BY <2>1, <2>2 DEF Clear
  <1>10. Loaded2(d, 0, Extracted(0, v), Extracted(0, w))
    <2>1. Kept(e, d, x) /\ Kept(e, d, y)
      BY <1>7 DEF Posts, Frame, StillSo
    <2>2. Holds(e, {x}, Extracted(0, v)) /\ Holds(e, {y}, Extracted(0, w))
      BY <1>3 DEF Unpacked
    <2>. HIDE DEF x, y
    <2>3. Holds(d, {x}, Extracted(0, v)) /\ Holds(d, {y}, Extracted(0, w))
      BY <2>1, <2>2, HoldsOn
    <2>. QED  BY <2>3 DEF Loaded2, x, y
  <1>11. Within(c, d, Both0(p))
    <2>. DEFINE S == Both0(p)
                X == {x, y, s, t}
                Y == {r}
                Z == {}
    <2>1. X \subseteq S /\ Y \subseteq S /\ Z \subseteq S
      BY <1>0 DEF Both0
    <2>2. Frame(c, e, X, Z) /\ Frame(e, d, Z, Y)
      BY <1>3, <1>7 DEF Unpacked, Posts
    <2>. HIDE DEF S, X, Y, Z
    <2>3. Within(c, e, S) /\ Within(e, d, S)
      BY <2>1, <2>2, WithinWide
    <2>4. Within(c, d, S)
      BY <2>3, WithinOn
    <2>. QED  BY <2>4 DEF S
  <1>. QED  BY <1>8, <1>9, <1>10, <1>11

\* and multiplied.
SliceMul(c, init) ==
    Append(Append(Append(Append(c, set_flag("MTE1", "M", 4)), wait_flag("MTE1", "M", 4)), MatmulOp(init, C0(0), A0(0), B0(0))),
           set_flag("M", "MTE1", 5))
\* The product is in the accumulator, or added to it.
LEMMA MultiplySlices ==
    ASSUME 1 <= MaxPosted, NEW c, Sound(c), NEW v, NEW w, Clear(c), Loaded2(c, 0, v, w), Mine(c, 0),
           NEW init \in BOOLEAN, NEW u, init \/ Holds(c, {C0(0)}, u), NEW d, d = SliceMul(c, init)
    PROVE  /\ Within(c, d, SliceL0 \union {C0(0)}) /\ Multiplying(d) /\ Mine(d, 0)
           /\ Holds(d, {C0(0)}, IF init THEN Multiplied(v, w) ELSE u \union Multiplied(v, w))
  <1>. DEFINE x  == A0(0)
              y  == B0(0)
              z  == C0(0)
              mu == Mu(4)
              rd == Rd(5)
  <1>0. /\ x # y /\ x # mu /\ x # rd /\ y # mu /\ y # rd /\ mu # rd /\ z # mu /\ z # rd /\ z # x /\ z # y
        /\ SliceL0 = {x, y, mu, rd} /\ "MTE1" \in CubePipe
        /\ MF(0) \notin {x, y, z, mu, rd} /\ FM(0) \notin {x, y, z, mu, rd}
    <2>1. SliceL0 = {x, y, mu, rd}
      BY DEF SliceL0
    <2>2. SliceL0 \intersect AccOf(0) = {} /\ z \in AccOf(0) /\ MF(0) \in AccOf(0) /\ FM(0) \in AccOf(0)
      BY SlicesApart DEF AccOf
    <2>3. x # y /\ x # mu /\ x # rd /\ y # mu /\ y # rd /\ mu # rd
      BY SlicesDiffer
    <2>4. z # MF(0) /\ z # FM(0)
      BY AccDiffers
    <2>. HIDE DEF x, y, z, mu, rd
    <2>. QED  BY <2>1, <2>2, <2>3, <2>4 DEF CubePipe
  <1>1. /\ Owns(c, "MTE1", x) /\ Owns(c, "MTE1", y) /\ Owns(c, "MTE1", mu) /\ Owns(c, "MTE1", rd) /\ Owns(c, "M", z)
        /\ Even(c, mu) /\ Even(c, rd) /\ Holds(c, {x}, v) /\ Holds(c, {y}, w)
    BY <1>0 DEF Clear, Loaded2, Mine
  <1>2. Room(c, "MTE1", mu)
    BY <1>0, <1>1, CubePipes DEF Room
  <1>3. UsedUp(c, x, y, z, mu, rd, init, u, v, w, d)
    <2>1. mu \notin {x, y, z} /\ rd \notin {x, y, z} /\ mu = Mu(4) /\ rd = Rd(5)
      BY <1>0
    <2>2. d = Append(Append(Append(Append(c, set_flag("MTE1", "M", 4)), wait_flag("MTE1", "M", 4)), MatmulOp(init, z, x, y)),
                     set_flag("M", "MTE1", 5))
      BY DEF SliceMul
    <2>3. init \/ Holds(c, {z}, u)
      OBVIOUS
    <2>. HIDE DEF x, y, z, mu, rd
    <2>. QED  BY <1>1, <1>2, <2>1, <2>2, <2>3, Consume
  <1>4. Multiplying(d)
    <2>1. Even(d, mu) /\ Pending(d, rd)
      BY <1>3 DEF UsedUp
    <2>2. Passed(d, rd, x) /\ Passed(d, rd, y) /\ Passed(d, rd, mu)
      BY <1>1, <1>3 DEF UsedUp
    <2>3. Owns(d, "MTE1", rd)
      <3>1. rd \notin {x, y, z, mu}
        BY <1>0
      <3>. HIDE DEF x, y, z, mu, rd
      <3>. QED  BY <1>1, <1>3, <3>1 DEF UsedUp, Frame, StillSo, Kept
    <2>. QED  BY <1>0, <2>1, <2>2, <2>3 DEF Multiplying
  <1>5. Mine(d, 0)
    <2>1. Owns(d, "M", z) /\ Owns(d, "M", MF(0)) /\ Owns(d, "M", FM(0))
      BY <1>3 DEF UsedUp, Mine
    <2>2. MF(0) \notin {mu, rd} /\ FM(0) \notin {mu, rd}
      BY <1>0
    <2>3. Even(d, MF(0)) /\ Even(d, FM(0))
      <3>. HIDE DEF x, y, z, mu, rd
      <3>. QED  BY <1>3, <2>2 DEF UsedUp, Frame, SameEvents, Mine
    <2>. QED  BY <2>1, <2>3 DEF Mine
  <1>6. Within(c, d, SliceL0 \union {C0(0)})
    <2>1. {x, y, z, mu} \subseteq SliceL0 \union {C0(0)} /\ {mu, rd} \subseteq SliceL0 \union {C0(0)}
      BY <1>0
    <2>. QED  BY <1>3, <2>1, WithinWide DEF UsedUp
  <1>7. Holds(d, {C0(0)}, IF init THEN Multiplied(v, w) ELSE u \union Multiplied(v, w))
    BY <1>3 DEF UsedUp
  <1>. QED  BY <1>4, <1>5, <1>6, <1>7

\* Seven instructions more.
LEMMA Spell7 ==
    ASSUME NEW s, Text(s), NEW x1, NEW x2, NEW x3, NEW x4, NEW x5, NEW x6, NEW x7,
           NEW d, d = Append(Append(Append(Append(Append(Append(Append(s, x1), x2), x3), x4), x5), x6), x7)
    PROVE  s \o <<x1, x2, x3, x4, x5, x6, x7>> = d /\ Text(<<x1, x2, x3, x4, x5, x6, x7>>)
  <1>1. \A a, b, e, f, g, h, k :
           s \o <<a, b, e, f, g, h, k>> = Append(Append(Append(Append(Append(Append(Append(s, a), b), e), f), g), h), k)
           /\ Text(<<a, b, e, f, g, h, k>>)
    BY OneByOne, ZenonT(30)
  <1>. QED  BY <1>1

\* A step of the schedule, part by part.
SliceWait(used, p) == IF used THEN <<wait_flag("MTE1", "MTE2", p + 2)>> ELSE <<>>
L0Wait(used)       == IF used THEN <<wait_flag("M", "MTE1", 5)>> ELSE <<>>
SliceSplit(c, t, kStart, j) ==
    c \o SplitKStep(t, kStart, j)
      = SliceMul(SliceMove(((c \o SliceWait(j >= 2, j % 2)) \o SliceLoad(j % 2, t, kStart + j)) \o L0Wait(j >= 1), j % 2), j = 0)
\* SplitKStep is these parts, those that wait only from some step on.
LEMMA SplitKStepIs ==
    ASSUME NEW t, NEW kStart, NEW j \in Nat, NEW c, Text(c)
    PROVE  Text(SplitKStep(t, kStart, j)) /\ SliceSplit(c, t, kStart, j)
  <1>. DEFINE p  == j % 2
              k  == kStart + j
              r  == SliceWait(j >= 2, p)
              s  == SliceLoad(p, t, k)
              l  == L0Wait(j >= 1)
              i1 == TEXTRACT({A0(0)}, {L1(p)}, 0)
              i2 == TEXTRACT({B0(0)}, {L1(p + 2)}, 0)
              i3 == set_flag("MTE1", "MTE2", p + 2)
              i4 == set_flag("MTE1", "M", 4)
              i5 == wait_flag("MTE1", "M", 4)
              i6 == MatmulOp(j = 0, C0(0), A0(0), B0(0))
              i7 == set_flag("M", "MTE1", 5)
              v  == <<i1, i2, i3, i4, i5, i6, i7>>
              x  == ((c \o r) \o s) \o l
              y  == Append(Append(Append(Append(Append(Append(Append(x, i1), i2), i3), i4), i5), i6), i7)
  <1>1. /\ a_l1(p) = {L1(p)} /\ b_l1(p) = {L1(p + 2)}
        /\ a_l0(0) = {A0(0)} /\ b_l0(0) = {B0(0)} /\ c_l0(0) = {C0(0)}
    <2>1. p \in {0, 1} /\ 0 \in {0, 1}
      OBVIOUS
    <2>. HIDE DEF p
    <2>. QED  BY <2>1, TilesAre
  <1>2. SplitKStep(t, kStart, j) = r \o s \o l \o v
    BY <1>1 DEF SplitKStep, SliceWait, L0Wait, SliceLoad, TMOV, MatmulOp
  <1>3. y = SliceMul(SliceMove(x, p), j = 0)
    BY DEF SliceMul, SliceMove
  <1>4. Text(r) /\ Text(l)
    BY EmptyText, CubeTexts DEF SliceWait, L0Wait
  <1>5. Text(s)
    <2>. DEFINE a == TLOAD({L1(p)}, <<"A", t, k>>)
                b == TLOAD({L1(p + 2)}, <<"B", t, k>>)
                e == set_flag("MTE2", "MTE1", p)
                f == wait_flag("MTE2", "MTE1", p)
    <2>1. s = <<a, b, e, f>>
      BY DEF SliceLoad
    <2>. HIDE DEF a, b, e, f
    <2>2. Text(<<a, b, e, f>>)
      BY EmptyText, Spell4
    <2>. QED  BY <2>1, <2>2
  <1>. HIDE DEF r, s, l, i1, i2, i3, i4, i5, i6, i7
  <1>6. Text(v)
    BY EmptyText, Spell7
  <1>7. Text(x)
    <2>1. Text(c \o r)
      BY <1>4, Joined
    <2>2. Text((c \o r) \o s)
      BY <1>5, <2>1, Joined
    <2>. QED  BY <1>4, <2>2, Joined
  <1>. HIDE DEF x
  <1>8. x \o v = y
    BY <1>7, Spell7
  <1>. HIDE DEF v, y
  <1>9. InParts(c, r, s, l, v)
    BY <1>4, <1>5, <1>6, InFour
  <1>10. Text(r \o s \o l \o v) /\ c \o (r \o s \o l \o v) = x \o v
    BY <1>9 DEF InParts, x
  <1>. QED  BY <1>2, <1>3, <1>8, <1>10 DEF SliceSplit, x, r, s, l, p, k

\* Before step j.
SlicePart  == SliceHalf(0) \union SliceHalf(1) \union SliceL0 \union AccOf(0)
SliceSum(t, kStart, j) == Sum(t, (kStart..(kStart + j - 1)) \X {0})
AtSlice(t, kStart, j, d) ==
    /\ Within(<<>>, d, SlicePart)
    /\ \A p \in {0, 1} : VacantAfter(d, p, j > p)
    /\ L0After(d, j > 0) /\ Mine(d, 0)
    /\ j > 0 => Holds(d, {C0(0)}, SliceSum(t, kStart, j))

\* A piece more in the sum.
SliceMore(t, kStart, j) == Multiplied(Extracted(0, PieceA(t, kStart + j)), Extracted(0, PieceB(t, kStart + j)))
SliceGrows(t, kStart, j) ==
    SliceSum(t, kStart, j + 1) = IF j = 0 THEN SliceMore(t, kStart, j)
                                          ELSE SliceSum(t, kStart, j) \union SliceMore(t, kStart, j)
\* Each step adds its own product.
LEMMA SlicesAre ==
    ASSUME NEW t, NEW kStart \in Nat, NEW j \in Nat
    PROVE  SliceGrows(t, kStart, j)
  <1>. DEFINE m == SliceMore(t, kStart, j)
              k == kStart + j
              S == (kStart..(k - 1)) \X {0}
  <1>1. kStart..(kStart + (j + 1) - 1) = (kStart..(k - 1)) \union {k}
    OBVIOUS
  <1>2. (kStart..(kStart + (j + 1) - 1)) \X {0} = S \union {<<k, 0>>}
    BY <1>1
  <1>3. j = 0 => S = {}
    <2>1. j = 0 => kStart..(k - 1) = {}
      OBVIOUS
    <2>. QED  BY <2>1
  <1>4. SliceSum(t, kStart, j) = Sum(t, S)
    BY DEF SliceSum
  <1>. HIDE DEF S
  <1>5. Sum(t, S \union {<<k, 0>>}) = Sum(t, S) \union m /\ Sum(t, {<<k, 0>>}) = m
    BY SumAdds DEF PieceA, PieceB, SliceMore
  <1>6. SliceSum(t, kStart, j + 1) = Sum(t, S \union {<<k, 0>>})
    BY <1>2 DEF SliceSum
  <1>7. j = 0 => S \union {<<k, 0>>} = {<<k, 0>>}
    BY <1>3
  <1>. HIDE DEF k, m
  <1>8. SliceSum(t, kStart, j + 1) = IF j = 0 THEN m ELSE SliceSum(t, kStart, j) \union m
    BY <1>4, <1>5, <1>6, <1>7
  <1>. QED  BY <1>8 DEF SliceGrows, m

\* Buffers in turn.
LEMMA SliceTurns ==
    ASSUME NEW j \in Nat, NEW p, p = j % 2
    PROVE  /\ p \in {0, 1} /\ 1 - p \in {0, 1} /\ p # 1 - p /\ (j >= 2 <=> j > p) /\ j + 1 > p
           /\ (j + 1 > 1 - p <=> j > 1 - p) /\ (j >= 1 <=> j > 0) /\ j + 1 > 0
           /\ \A q \in {0, 1} : q = p \/ q = 1 - p
  OBVIOUS
\* What each part of a step changes, and what it leaves alone.
LEMMA SliceParts ==
    ASSUME NEW p \in {0, 1}
    PROVE  /\ SliceHalf(p) \subseteq SlicePart /\ SliceL0 \subseteq SlicePart /\ AccOf(0) \subseteq SlicePart
           /\ Both0(p) \subseteq SlicePart /\ SliceL0 \union {C0(0)} \subseteq SlicePart
           /\ SliceHalf(1 - p) \intersect SliceHalf(p) = {} /\ SliceHalf(1 - p) \intersect SliceL0 = {}
           /\ SliceHalf(1 - p) \intersect Both0(p) = {} /\ SliceHalf(1 - p) \intersect (SliceL0 \union {C0(0)}) = {}
           /\ SliceHalf(p) \intersect SliceL0 = {} /\ SliceL0 \intersect SliceHalf(p) = {}
           /\ SliceHalf(p) \intersect (SliceL0 \union {C0(0)}) = {}
           /\ AccOf(0) \intersect SliceHalf(p) = {} /\ AccOf(0) \intersect SliceL0 = {} /\ AccOf(0) \intersect Both0(p) = {}
  <1>1. 1 - p \in {0, 1} /\ C0(0) \in AccOf(0) /\ (p = 0 \/ p = 1)
    BY DEF AccOf
  <1>2. /\ SliceHalf(p) \intersect SliceHalf(1 - p) = {} /\ SliceHalf(p) \intersect SliceL0 = {}
        /\ SliceHalf(p) \intersect AccOf(0) = {} /\ SliceL0 \intersect AccOf(0) = {}
        /\ SliceHalf(1 - p) \intersect SliceL0 = {} /\ SliceHalf(1 - p) \intersect AccOf(0) = {}
    BY <1>1, SlicesApart
  <1>3. SliceHalf(p) \subseteq SlicePart
    BY <1>1 DEF SlicePart
  <1>. QED  BY <1>1, <1>2, <1>3 DEF SlicePart, Both0

\* A step done.
LEMMA NextSlice ==
    ASSUME 1 <= MaxPosted, NEW t, NEW kStart \in Nat, NEW j \in Nat, NEW c, AtSlice(t, kStart, j, c),
           NEW d, d = c \o SplitKStep(t, kStart, j)
    PROVE  AtSlice(t, kStart, j + 1, d)
  <1>. DEFINE p    == j % 2
              o    == 1 - p
              w2   == j >= 2
              w1   == j >= 1
              init == j = 0
              a    == PieceA(t, kStart + j)
              b    == PieceB(t, kStart + j)
              u    == SliceSum(t, kStart, j)
              m    == Multiplied(Extracted(0, a), Extracted(0, b))
              c1   == c \o SliceWait(w2, p)
              c2   == c1 \o SliceLoad(p, t, kStart + j)
              c3   == c2 \o L0Wait(w1)
              c4   == SliceMove(c3, p)
              H    == SliceHalf(p)
              Z    == SliceL0
              B    == Both0(p)
              M    == SliceL0 \union {C0(0)}
              S    == SlicePart
  <1>1. /\ p \in {0, 1} /\ o \in {0, 1} /\ p # o /\ (w2 <=> j > p) /\ j + 1 > p
        /\ (j + 1 > o <=> j > o) /\ (w1 <=> j > 0) /\ j + 1 > 0 /\ (init <=> ~ (j > 0))
        /\ \A q \in {0, 1} : q = p \/ q = o
    <2>1. p = j % 2 /\ (init <=> ~ (j > 0))
      OBVIOUS
    <2>. HIDE DEF p, init
    <2>. QED  BY <2>1, SliceTurns
  <1>2. w2 \in BOOLEAN /\ w1 \in BOOLEAN /\ init \in BOOLEAN
    OBVIOUS
  <1>3. /\ H \subseteq S /\ B \subseteq S /\ M \subseteq S /\ H \subseteq B /\ Z \subseteq B
        /\ SliceHalf(o) \intersect B = {} /\ SliceHalf(o) \intersect M = {}
        /\ H \intersect Z = {} /\ Z \intersect H = {} /\ H \intersect M = {}
        /\ AccOf(0) \intersect B = {}
    BY <1>1, SliceParts DEF Both0
  <1>4. SliceSum(t, kStart, j + 1) = IF init THEN m ELSE u \union m
    <2>1. SliceGrows(t, kStart, j)
      BY SlicesAre
    <2>. QED  BY <2>1 DEF SliceGrows, SliceMore
  <1>5. d = SliceMul(c4, init)
    <2>1. Text(c)
      BY DEF AtSlice, Within, Frame, Sound
    <2>2. SliceSplit(c, t, kStart, j)
      BY <2>1, SplitKStepIs
    <2>. QED  BY <2>2 DEF SliceSplit
  <1>6. /\ Sound(c) /\ Within(<<>>, c, S) /\ Mine(c, 0) /\ VacantAfter(c, o, j > o)
        /\ VacantAfter(c, p, w2) /\ L0After(c, w1) /\ (~ init => Holds(c, {C0(0)}, u))
    <2>1. Sound(c)
      BY DEF AtSlice, Within, Frame
    <2>2. (w2 = (j > p)) /\ (w1 = (j > 0))
      BY <1>1
    <2>3. /\ \A q \in {0, 1} : VacantAfter(c, q, j > q)
          /\ L0After(c, j > 0) /\ Mine(c, 0) /\ Within(<<>>, c, S)
          /\ j > 0 => Holds(c, {C0(0)}, u)
      BY DEF AtSlice
    <2>. HIDE DEF p, o, w1, w2, init, u, S
    <2>. QED  BY <1>1, <2>1, <2>2, <2>3
  <1>. HIDE DEF p, o, w1, w2, init, a, b, u, m, H, Z, B, M, S
  <1>7. Within(c, c1, H) /\ Vacant(c1, p)
    <2>1. c1 = c \o (IF w2 THEN <<wait_flag("MTE1", "MTE2", p + 2)>> ELSE <<>>)
      BY DEF SliceWait
    <2>. HIDE DEF c1
    <2>. QED  BY <1>1, <1>2, <1>6, <2>1, Reclaims DEF H
  <1>. HIDE DEF c1
  <1>8. Within(c1, c2, H) /\ Brought(c2, p, a, b)
    <2>1. Sound(c1)
      BY <1>7 DEF Within, Frame
    <2>. QED  BY <1>1, <1>7, <2>1, BringSlices DEF H, a, b
  <1>9. Within(c, c2, H)
    BY <1>7, <1>8, WithinOn
  <1>. HIDE DEF c2
  <1>10. Within(c2, c3, Z) /\ Clear(c3)
    <2>1. L0After(c2, w1) /\ Sound(c2)
      <3>1. SameOn(c, c2, SliceL0)
        BY <1>3, <1>9, WithinKeeps DEF Z
      <3>. QED  BY <1>6, <3>1, SliceL0Stays DEF SameOn
    <2>2. c3 = c2 \o (IF w1 THEN <<wait_flag("M", "MTE1", 5)>> ELSE <<>>)
      BY DEF L0Wait
    <2>. HIDE DEF c3
    <2>. QED  BY <1>2, <2>1, <2>2, Clears DEF Z
  <1>. HIDE DEF c3
  <1>11. Brought(c3, p, a, b) /\ Sound(c3)
    <2>1. SameOn(c2, c3, SliceHalf(p))
      BY <1>3, <1>10, WithinKeeps DEF H
    <2>. QED  BY <1>8, <2>1, SliceStays DEF SameOn
  <1>12. Within(c3, c4, B) /\ Spent(c4, p) /\ Clear(c4) /\ Loaded2(c4, 0, Extracted(0, a), Extracted(0, b))
    <2>1. c4 = SliceMove(c3, p)
      OBVIOUS
    <2>. HIDE DEF c4
    <2>. QED  BY <1>1, <1>10, <1>11, <2>1, MoveSlices DEF B
  <1>. HIDE DEF c4
  <1>13. Within(c, c4, B)
    <2>1. Within(c, c2, B) /\ Within(c2, c3, B)
      BY <1>3, <1>9, <1>10, WithinWide DEF Within
    <2>. QED  BY <1>12, <2>1, WithinOn
  <1>14. /\ Sound(c4) /\ Mine(c4, 0) /\ VacantAfter(c4, o, j > o) /\ (init \/ Holds(c4, {C0(0)}, u))
    <2>1. SameOn(c, c4, SliceHalf(o)) /\ SameOn(c, c4, AccOf(0))
      BY <1>3, <1>13, WithinKeeps
    <2>2. VacantAfter(c4, o, j > o)
      BY <1>6, <2>1, SliceStays
    <2>3. Mine(c4, 0)
      BY <1>6, <2>1, AccStays
    <2>4. ~ init => Holds(c4, {C0(0)}, u)
      <3>1. Kept(c, c4, C0(0))
        BY <2>1 DEF SameOn, AccOf
      <3>. QED  BY <1>6, <3>1, HoldsOn
    <2>. QED  BY <2>1, <2>2, <2>3, <2>4 DEF SameOn
  <1>15. /\ Within(c4, d, M) /\ Multiplying(d) /\ Mine(d, 0)
         /\ Holds(d, {C0(0)}, IF init THEN m ELSE u \union m)
    <2>. DEFINE v == Extracted(0, a)
                w == Extracted(0, b)
    <2>1. Loaded2(c4, 0, v, w) /\ m = Multiplied(v, w)
      BY <1>12 DEF m
    <2>. HIDE DEF v, w
    <2>2. /\ Within(c4, d, SliceL0 \union {C0(0)}) /\ Multiplying(d) /\ Mine(d, 0)
          /\ Holds(d, {C0(0)}, IF init THEN Multiplied(v, w) ELSE u \union Multiplied(v, w))
      BY <1>2, <1>5, <1>12, <1>14, <2>1, MultiplySlices
    <2>. QED  BY <2>1, <2>2 DEF M
  <1>16. VacantAfter(d, o, j > o) /\ VacantAfter(d, p, TRUE)
    <2>1. SameOn(c4, d, SliceHalf(o)) /\ SameOn(c4, d, SliceHalf(p))
      BY <1>3, <1>15, WithinKeeps DEF H
    <2>2. VacantAfter(c4, p, TRUE)
      BY <1>12 DEF VacantAfter
    <2>. QED  BY <1>14, <2>1, <2>2, SliceStays
  <1>17. Within(<<>>, d, S)
    <2>1. Within(c, c4, S) /\ Within(c4, d, S)
      BY <1>3, <1>13, <1>15, WithinWide DEF Within
    <2>2. Within(<<>>, c4, S)
      BY <1>6, <2>1, WithinOn
    <2>. QED  BY <2>1, <2>2, WithinOn
  <1>18. ASSUME NEW q \in {0, 1} PROVE VacantAfter(d, q, j + 1 > q)
    <2>1. CASE q = p
      <3>1. (j + 1 > q) = TRUE
        BY <1>1, <2>1
      <3>. QED  BY <1>16, <2>1, <3>1
    <2>2. CASE q = o
      <3>1. (j + 1 > q) = (j > o)
        BY <1>1, <2>2
      <3>. QED  BY <1>16, <2>2, <3>1
    <2>. QED  BY <1>1, <2>1, <2>2
  <1>19. L0After(d, j + 1 > 0)
    <2>1. L0After(d, TRUE) /\ (j + 1 > 0) = TRUE
      BY <1>1, <1>15 DEF L0After
    <2>. QED  BY <2>1
  <1>20. Holds(d, {C0(0)}, SliceSum(t, kStart, j + 1))
    BY <1>4, <1>15
  <1>. QED  BY <1>15, <1>17, <1>18, <1>19, <1>20 DEF AtSlice, S

\* The steps are a loop.
SliceSteps(t, kStart, n) == [i \in 1..((n - 1) - 0 + 1) |-> SplitKStep(t, kStart, 0 + i - 1)]
\* Its steps are those of the code.
LEMMA SliceStepsAre ==
    ASSUME NEW t, NEW kStart, NEW n \in Nat, NEW f, f = SliceSteps(t, kStart, n)
    PROVE  /\ Text(f) /\ Len(f) = n
           /\ \A i \in 1..n : f[i] = SplitKStep(t, kStart, i - 1) /\ Text(f[i])
  <1>1. 1..((n - 1) - 0 + 1) = 1..n /\ \A i \in 1..n : 0 + i - 1 = i - 1
    OBVIOUS
  <1>2. f = [i \in 1..n |-> SplitKStep(t, kStart, i - 1)]
    BY <1>1 DEF SliceSteps
  <1>3. Text(f) /\ Len(f) = n
    <2>1. f = [i \in 1..n |-> f[i]]
      BY <1>2
    <2>. QED  BY <2>1, ListIs
  <1>4. ASSUME NEW i \in 1..n PROVE f[i] = SplitKStep(t, kStart, i - 1) /\ Text(f[i])
    <2>. DEFINE j == i - 1
    <2>1. j \in Nat /\ f[i] = SplitKStep(t, kStart, j)
      BY <1>2
    <2>. HIDE DEF j
    <2>2. Text(SplitKStep(t, kStart, j))
      BY <2>1, EmptyText, SplitKStepIs
    <2>. QED  BY <2>1, <2>2 DEF j
  <1>. QED  BY <1>3, <1>4

\* All the steps.
LEMMA AllSlices ==
    ASSUME 1 <= MaxPosted, NEW t, NEW kStart \in Nat, NEW n \in Nat, NEW d, d = FlattenSeq(SliceSteps(t, kStart, n))
    PROVE  AtSlice(t, kStart, n, d)
  <1>. DEFINE f == SliceSteps(t, kStart, n)
              c == <<>>
  <1>1. /\ Text(f) /\ Len(f) = n
        /\ \A i \in 1..n : f[i] = SplitKStep(t, kStart, i - 1) /\ Text(f[i])
    BY SliceStepsAre
  <1>2. Text(c)
    BY EmptyText
  <1>3. AtSlice(t, kStart, 0, c)
    <2>1. Within(<<>>, c, SlicePart)
      BY CoreIdle
    <2>2. Quiet(c) /\ \A x, q : Owns(c, q, x)
      BY EmptyText
    <2>3. Vacant(c, 0) /\ Vacant(c, 1) /\ Clear(c) /\ Mine(c, 0)
      BY <2>2 DEF Vacant, Clear, Mine, Quiet
    <2>4. ~ (0 > 0) /\ ~ (0 > 1)
      OBVIOUS
    <2>. HIDE DEF c
    <2>5. \A p \in {0, 1} : VacantAfter(c, p, 0 > p)
      BY <2>3, <2>4 DEF VacantAfter
    <2>6. L0After(c, 0 > 0)
      BY <2>3, <2>4 DEF L0After
    <2>. QED  BY <2>1, <2>3, <2>4, <2>5, <2>6 DEF AtSlice
  <1>4. d = FlattenSeq(f)
    OBVIOUS
  <1>. HIDE DEF f
  <1>5. PICK w : Text(FlattenSeq(f)) /\ Runs(c, f, n, w)
    <2>. HIDE DEF c
    <2>. QED  BY <1>1, <1>2, Unrolled
  <1>. DEFINE S == {k \in 0..n : AtSlice(t, kStart, k, w[k])}
  <1>6. 0 \in S
    <2>. HIDE DEF c
    <2>1. w[0] = c
      BY <1>5 DEF Runs
    <2>. QED  BY <1>3, <2>1
  <1>7. ASSUME NEW k \in 0..(n - 1), k \in S PROVE k + 1 \in S
    <2>. DEFINE e == w[k]
                h == w[k + 1]
    <2>. HIDE DEF c
    <2>1. k + 1 \in 1..n /\ (k + 1) - 1 = k /\ k + 1 \in 0..n /\ k \in Nat
      OBVIOUS
    <2>2. w[k + 1] = w[k] \o f[k + 1] /\ f[k + 1] = SplitKStep(t, kStart, k)
      BY <1>1, <1>5, <2>1 DEF Runs
    <2>3. h = e \o SplitKStep(t, kStart, k) /\ AtSlice(t, kStart, k, e)
      BY <1>7, <2>2
    <2>. HIDE DEF e, h
    <2>4. AtSlice(t, kStart, k + 1, h)
      BY <2>1, <2>3, NextSlice
    <2>. QED  BY <2>1, <2>4 DEF h
  <1>8. n \in S
    <2>1. 0..n \subseteq S
      <3>. HIDE DEF S
      <3>. QED  BY <1>6, <1>7, Induction
    <2>2. n \in 0..n
      OBVIOUS
    <2>. HIDE DEF S
    <2>. QED  BY <2>1, <2>2
  <1>9. w[n] = d
    <2>. HIDE DEF c
    <2>1. w[n] = c \o d /\ Text(d)
      BY <1>4, <1>5 DEF Runs
    <2>. QED  BY <1>2, <2>1, Joined DEF c
  <1>. QED  BY <1>8, <1>9

\* The end of the schedule.
SliceStore(t) == <<set_flag("M", "FIX", 0), wait_flag("M", "FIX", 0), TSTORE_ADD(Res(t), c_l0(0)),
                   set_flag("FIX", "M", 0), wait_flag("FIX", "M", 0)>>
\* It adds the accumulator to an output nothing was added to, and takes it back.
LEMMA StoreSlices ==
    ASSUME 1 <= MaxPosted, NEW c, Sound(c), Mine(c, 0), NEW v, Holds(c, {C0(0)}, v), NEW t, Free(c, Res(t)),
           NEW d, d = c \o SliceStore(t)
    PROVE  Within(c, d, AccOf(0) \union {Res(t)}) /\ Mine(d, 0) /\ Yielded(d, Res(t), Stored(v))
  <1>. DEFINE i1 == set_flag("M", "FIX", 0)
              i2 == wait_flag("M", "FIX", 0)
              i3 == StoreOp(TRUE, Res(t), C0(0))
              i4 == set_flag("FIX", "M", 0)
              i5 == wait_flag("FIX", "M", 0)
              e  == Append(Append(Append(Append(c, i1), i2), i3), i4)
              S  == AccOf(0) \union {Res(t)}
  <1>1. SliceStore(t) = <<i1, i2, i3, i4, i5>>
    <2>1. c_l0(0) = {C0(0)}
      BY DEF c_l0, C0
    <2>. QED  BY <2>1 DEF SliceStore, StoreOp
  <1>2. StoreDone(c, 0, t, v, e)
    <2>1. TRUE \in BOOLEAN
      OBVIOUS
    <2>. QED  BY <2>1, StoreLends
  <1>3. d = Append(e, i5)
    <2>. HIDE DEF i1, i2, i3, i4, i5
    <2>1. Text(c)
      BY DEF Sound
    <2>2. \A a, b, f, g, h : c \o <<a, b, f, g, h>> = Append(Append(Append(Append(Append(c, a), b), f), g), h)
                              /\ Text(<<a, b, f, g, h>>)
      BY <2>1, OneByOne, ZenonT(30)
    <2>. QED  BY <1>1, <2>2
  <1>. HIDE DEF e, S
  <1>4. Sound(e) /\ Lent(e, 0) /\ Within(c, e, S) /\ Yielded(e, Res(t), Stored(v))
    BY <1>2 DEF StoreDone, Within, Frame, S
  <1>5. Within(e, d, AccOf(0)) /\ Mine(d, 0)
    BY <1>3, <1>4, TakeBack
  <1>6. Yielded(d, Res(t), Stored(v))
    <2>1. Res(t) \notin AccOf(0)
      BY BuffersApart
    <2>. QED  BY <1>4, <1>5, <2>1 DEF Within, Frame, StillSo, Kept, SameAt
  <1>7. Within(c, d, S)
    <2>1. AccOf(0) \subseteq S
      BY DEF S
    <2>2. Within(e, d, S)
      BY <1>5, <2>1, WithinWide DEF Within
    <2>. QED  BY <1>4, <2>2, WithinOn
  <1>. QED  BY <1>5, <1>6, <1>7 DEF S

\* No event is left.
LEMMA SliceQuiet ==
    ASSUME NEW t, NEW d, Within(<<>>, d, SlicePart \union {Res(t)}), Vacant(d, 0), Vacant(d, 1), Clear(d), Mine(d, 0)
    PROVE  Quiet(d)
  <1>. DEFINE S == SlicePart \union {Res(t)}
  <1>1. Sound(d) /\ PairsStay(<<>>, d) /\ (\A l : l \notin S => SameEvents(<<>>, d, l)) /\ \A l : Even(<<>>, l)
    <2>1. \A l : Even(<<>>, l)
      BY EmptyText DEF Quiet
    <2>2. Frame(<<>>, d, S, S)
      BY DEF Within
    <2>. HIDE DEF S
    <2>. QED  BY <2>1, <2>2, Zenon DEF Frame
  <1>2. \A x, i : Even(d, <<x, i>>)
    BY <1>1 DEF PairsStay, SameEvents
  <1>3. ASSUME NEW p \in {0, 1}, NEW l \in SliceHalf(p) PROVE Even(d, l)
    BY <1>2, <1>3 DEF Vacant, SliceHalf, L1
  <1>4. ASSUME NEW l \in SliceL0 PROVE Even(d, l)
    BY <1>2, <1>4 DEF Clear, SliceL0, A0, B0
  <1>5. ASSUME NEW l \in AccOf(0) PROVE Even(d, l)
    BY <1>2, <1>5 DEF Mine, AccOf, C0
  <1>6. Even(d, Res(t))
    BY <1>2 DEF Res
  <1>7. ASSUME NEW l PROVE Even(d, l)
    <2>1. CASE l \notin S
      BY <1>1, <2>1 DEF SameEvents
    <2>2. CASE l \in S
      <3>1. 0 \in {0, 1} /\ 1 \in {0, 1}
        OBVIOUS
      <3>. QED  BY <1>3, <1>4, <1>5, <1>6, <2>2, <3>1 DEF SlicePart
    <2>. QED  BY <2>1, <2>2
  <1>. QED  BY <1>1, <1>7 DEF Quiet

\* A slice of the contraction is Synchronized.
LEMMA SplitKSynchronized ==
    ASSUME 1 <= MaxPosted, NEW t, NEW kStart \in Nat, NEW kCount \in Nat \ {0}
    PROVE  Synchronized(SplitKTile(t, kStart, kCount))
  <1>. DEFINE p  == SplitKTile(t, kStart, kCount)
              c0 == FlattenSeq(SliceSteps(t, kStart, kCount))
              c1 == c0 \o <<wait_flag("MTE1", "MTE2", 2)>>
              c2 == c1 \o (IF kCount >= 2 THEN <<wait_flag("MTE1", "MTE2", 3)>> ELSE <<>>)
              c3 == c2 \o <<wait_flag("M", "MTE1", 5)>>
              d  == c3 \o SliceStore(t)
              v  == SliceSum(t, kStart, kCount)
              P  == (kStart..(kStart + kCount - 1)) \X {0}
              w2 == kCount >= 2
              S  == SlicePart
  <1>1. p.code = d /\ p.right = RightTiles({t}, P)
    BY DEF SplitKTile, Loop, SliceSteps, SliceStore
  <1>2. /\ TRUE \in BOOLEAN /\ w2 \in BOOLEAN /\ kCount > 0 /\ (kCount > 0) = TRUE /\ (kCount > 1) = w2
        /\ 0 \in {0, 1} /\ 1 \in {0, 1} /\ 0 + 2 = 2 /\ 1 + 2 = 3 /\ 1 - 0 = 1 /\ 1 - 1 = 0 /\ kCount \in Nat
    OBVIOUS
  <1>3. AtSlice(t, kStart, kCount, c0)
    <2>0. c0 = FlattenSeq(SliceSteps(t, kStart, kCount))
      OBVIOUS
    <2>. HIDE DEF c0
    <2>. QED  BY <1>2, <2>0, AllSlices
  <1>. HIDE DEF c0, p, v, P
  <1>4. /\ Sound(c0) /\ Within(<<>>, c0, S) /\ VacantAfter(c0, 0, TRUE) /\ VacantAfter(c0, 1, w2) /\ L0After(c0, TRUE)
        /\ Mine(c0, 0) /\ Holds(c0, {C0(0)}, v)
    <2>1. VacantAfter(c0, 0, kCount > 0) /\ VacantAfter(c0, 1, kCount > 1) /\ L0After(c0, kCount > 0)
      BY <1>2, <1>3 DEF AtSlice
    <2>2. Mine(c0, 0) /\ Holds(c0, {C0(0)}, v) /\ Within(<<>>, c0, S)
      BY <1>2, <1>3 DEF AtSlice, v
    <2>3. Sound(c0)
      BY <2>2 DEF Within, Frame
    <2>. HIDE DEF w2, S
    <2>. QED  BY <1>2, <2>1, <2>2, <2>3
  <1>5. /\ \A q \in {0, 1} : SliceHalf(q) \subseteq S /\ SliceHalf(q) \intersect SliceL0 = {} /\ AccOf(0) \intersect SliceHalf(q) = {}
        /\ SliceHalf(1) \intersect SliceHalf(0) = {} /\ SliceHalf(0) \intersect SliceHalf(1) = {}
        /\ SliceL0 \subseteq S /\ AccOf(0) \subseteq S /\ AccOf(0) \intersect SliceL0 = {}
        /\ Res(t) \notin S /\ Res(t) \notin SliceL0 /\ SliceL0 \intersect AccOf(0) = {}
    <2>1. \A q \in {0, 1} : /\ SliceHalf(q) \subseteq S /\ SliceHalf(q) \intersect SliceL0 = {} /\ AccOf(0) \intersect SliceHalf(q) = {}
                            /\ SliceL0 \subseteq S /\ AccOf(0) \subseteq S /\ AccOf(0) \intersect SliceL0 = {}
      BY SliceParts
    <2>2. SliceHalf(0) \intersect SliceHalf(1) = {}
      <3>1. SliceHalf(0) \intersect SliceHalf(1 - 0) = {}
        BY <1>2, SlicesApart
      <3>. QED  BY <1>2, <3>1
    <2>3. Res(t) \notin SliceHalf(0) /\ Res(t) \notin SliceHalf(1) /\ Res(t) \notin SliceL0 /\ Res(t) \notin AccOf(0)
      BY <1>2, SlicesApart, BuffersApart
    <2>. QED  BY <1>2, <2>1, <2>2, <2>3 DEF SlicePart
  <1>. HIDE DEF w2, S
  <1>6. Within(c0, c1, SliceHalf(0)) /\ Vacant(c1, 0)
    <2>1. c1 = c0 \o (IF TRUE THEN <<wait_flag("MTE1", "MTE2", 0 + 2)>> ELSE <<>>)
      BY <1>2
    <2>. HIDE DEF c1
    <2>. QED  BY <1>2, <1>4, <2>1, Reclaims
  <1>. HIDE DEF c1
  <1>7. Sound(c1) /\ VacantAfter(c1, 1, w2)
    <2>1. SameOn(c0, c1, SliceHalf(1))
      BY <1>5, <1>6, WithinKeeps
    <2>. QED  BY <1>4, <2>1, SliceStays DEF SameOn
  <1>8. Within(c1, c2, SliceHalf(1)) /\ Vacant(c2, 1)
    <2>1. c2 = c1 \o (IF w2 THEN <<wait_flag("MTE1", "MTE2", 1 + 2)>> ELSE <<>>)
      BY <1>2 DEF w2
    <2>. HIDE DEF c2
    <2>. QED  BY <1>2, <1>7, <2>1, Reclaims
  <1>. HIDE DEF c2
  <1>9. Vacant(c2, 0) /\ Sound(c2)
    <2>1. SameOn(c1, c2, SliceHalf(0))
      BY <1>5, <1>8, WithinKeeps
    <2>2. VacantAfter(c1, 0, FALSE)
      BY <1>6 DEF VacantAfter
    <2>3. VacantAfter(c2, 0, FALSE)
      BY <2>1, <2>2, SliceStays
    <2>. QED  BY <2>1, <2>3 DEF VacantAfter, SameOn
  <1>10. L0After(c2, TRUE)
    <2>1. SliceL0 \intersect SliceHalf(0) = {} /\ SliceL0 \intersect SliceHalf(1) = {}
      BY <1>2, <1>5
    <2>2. SameOn(c0, c1, SliceL0) /\ SameOn(c1, c2, SliceL0)
      BY <1>6, <1>8, <2>1, WithinKeeps
    <2>3. L0After(c1, TRUE)
      BY <1>4, <2>2, SliceL0Stays
    <2>. QED  BY <2>2, <2>3, SliceL0Stays
  <1>11. Within(c2, c3, SliceL0) /\ Clear(c3)
    <2>1. c3 = c2 \o (IF TRUE THEN <<wait_flag("M", "MTE1", 5)>> ELSE <<>>)
      OBVIOUS
    <2>. HIDE DEF c3
    <2>. QED  BY <1>2, <1>9, <1>10, <2>1, Clears
  <1>. HIDE DEF c3
  <1>12. Within(<<>>, c3, S) /\ Within(c0, c3, S)
    <2>1. Within(c0, c1, S) /\ Within(c1, c2, S) /\ Within(c2, c3, S)
      BY <1>2, <1>5, <1>6, <1>8, <1>11, WithinWide DEF Within
    <2>2. Within(c0, c2, S)
      BY <2>1, WithinOn
    <2>3. Within(c0, c3, S)
      BY <2>1, <2>2, WithinOn
    <2>. QED  BY <1>4, <2>3, WithinOn
  <1>13. Sound(c3) /\ Mine(c3, 0) /\ Holds(c3, {C0(0)}, v)
    <2>1. SameOn(c0, c1, AccOf(0)) /\ SameOn(c1, c2, AccOf(0)) /\ SameOn(c2, c3, AccOf(0))
      BY <1>2, <1>5, <1>6, <1>8, <1>11, WithinKeeps
    <2>2. Mine(c1, 0) /\ Mine(c2, 0) /\ Mine(c3, 0)
      BY <1>4, <2>1, AccStays
    <2>3. C0(0) \in AccOf(0)
      BY DEF AccOf
    <2>4. Holds(c1, {C0(0)}, v)
      <3>1. Kept(c0, c1, C0(0))
        BY <2>1, <2>3 DEF SameOn
      <3>. QED  BY <1>4, <3>1, HoldsOn
    <2>5. Holds(c2, {C0(0)}, v)
      <3>1. Kept(c1, c2, C0(0))
        BY <2>1, <2>3 DEF SameOn
      <3>. QED  BY <2>4, <3>1, HoldsOn
    <2>6. Holds(c3, {C0(0)}, v)
      <3>1. Kept(c2, c3, C0(0))
        BY <2>1, <2>3 DEF SameOn
      <3>. QED  BY <2>5, <3>1, HoldsOn
    <2>. QED  BY <2>1, <2>2, <2>6 DEF SameOn
  <1>14. Vacant(c3, 0) /\ Vacant(c3, 1)
    <2>1. SameOn(c2, c3, SliceHalf(0)) /\ SameOn(c2, c3, SliceHalf(1))
      BY <1>2, <1>5, <1>11, WithinKeeps
    <2>2. VacantAfter(c2, 0, FALSE) /\ VacantAfter(c2, 1, FALSE)
      BY <1>8, <1>9 DEF VacantAfter
    <2>3. VacantAfter(c3, 0, FALSE) /\ VacantAfter(c3, 1, FALSE)
      BY <2>1, <2>2, SliceStays
    <2>. QED  BY <2>3 DEF VacantAfter
  <1>15. Free(c3, Res(t))
    <2>1. Kept(<<>>, c3, Res(t))
      BY <1>5, <1>12 DEF Within, Frame, StillSo
    <2>2. Free(<<>>, Res(t))
      BY EmptyText
    <2>. QED  BY <2>1, <2>2 DEF Kept
  <1>16. Within(c3, d, AccOf(0) \union {Res(t)}) /\ Mine(d, 0) /\ Yielded(d, Res(t), Stored(v))
    <2>1. d = c3 \o SliceStore(t)
      OBVIOUS
    <2>. HIDE DEF d
    <2>. QED  BY <1>13, <1>15, <2>1, StoreSlices
  <1>. HIDE DEF d
  <1>17. Vacant(d, 0) /\ Vacant(d, 1) /\ Clear(d)
    <2>. DEFINE X == AccOf(0) \union {Res(t)}
    <2>1. SliceHalf(0) \intersect X = {} /\ SliceHalf(1) \intersect X = {} /\ SliceL0 \intersect X = {}
      <3>1. SliceHalf(0) \intersect AccOf(0) = {} /\ SliceHalf(1) \intersect AccOf(0) = {}
        BY <1>2, <1>5
      <3>2. Res(t) \notin SliceHalf(0) /\ Res(t) \notin SliceHalf(1)
        BY <1>2, <1>5
      <3>. QED  BY <1>5, <3>1, <3>2
    <2>. HIDE DEF X
    <2>2. Within(c3, d, X)
      BY <1>16 DEF X
    <2>3. SameOn(c3, d, SliceHalf(0)) /\ SameOn(c3, d, SliceHalf(1)) /\ SameOn(c3, d, SliceL0)
      BY <2>1, <2>2, WithinKeeps
    <2>4. VacantAfter(c3, 0, FALSE) /\ VacantAfter(c3, 1, FALSE) /\ L0After(c3, FALSE)
      BY <1>11, <1>14 DEF VacantAfter, L0After
    <2>5. VacantAfter(d, 0, FALSE) /\ VacantAfter(d, 1, FALSE) /\ L0After(d, FALSE)
      BY <2>3, <2>4, SliceStays, SliceL0Stays
    <2>. QED  BY <2>5 DEF VacantAfter, L0After
  <1>18. Within(<<>>, d, S \union {Res(t)})
    <2>. DEFINE X == AccOf(0) \union {Res(t)}
                Y == S \union {Res(t)}
    <2>1. X \subseteq Y /\ S \subseteq Y
      BY <1>5
    <2>2. Within(c3, d, X)
      BY <1>16
    <2>. HIDE DEF X, Y
    <2>3. Within(<<>>, c3, Y) /\ Within(c3, d, Y)
      BY <1>12, <2>1, <2>2, WithinWide DEF Within
    <2>4. Within(<<>>, d, Y)
      BY <2>3, WithinOn
    <2>. QED  BY <2>4 DEF Y
  <1>19. Quiet(d)
    BY <1>16, <1>17, <1>18, SliceQuiet DEF S
  <1>20. \A s \in DOMAIN p.right : Yielded(p.code, s, p.right[s])
    <2>1. \A s \in DOMAIN p.right : s = Res(t) /\ p.right[s] = RightTile(t, P)
      BY <1>1 DEF RightTiles, Res
    <2>2. Stored(v) = RightTile(t, P)
      BY DEF Stored, RightTile, SliceSum, Sum, Multiplied, v, P
    <2>. QED  BY <1>1, <1>16, <2>1, <2>2
  <1>21. Quiet(p.code)
    BY <1>1, <1>19
  <1>22. Synchronized(p)
    BY <1>20, <1>21, Concludes
  <1>. QED  BY <1>22 DEF p

-----------------------------------------------------------------------------
(* Any number of chunks, phases and tiles *)

\* The matmul schedules: a core's tiles of several chunks, its tiles of one
\* chunk, none of either among them, and one slice of the contraction.
IsDeep(p) == \E start, end \in Nat, nKd, nP \in Nat \ {0} : p = DeepLoop(start, end, nKd, nP)
IsPipelined(p) == \E start, end \in Nat, nP \in Nat \ {0} : p = PipelinedLoop(start, end, nP)
IsSplitK(p) == \E t, kStart \in Nat, kCount \in Nat \ {0} : p = SplitKTile(t, kStart, kCount)

IsCubeKernel(p) == IsDeep(p) \/ IsPipelined(p) \/ IsSplitK(p)

\* Flags keep every one of these schedules in order by its text.
LEMMA CubeKernelSynchronized ==
    ASSUME 2 <= MaxPosted, MaxPosted \in Nat, NEW p, IsCubeKernel(p)
    PROVE  Synchronized(p)
  <1>1. CASE IsDeep(p)
    BY <1>1, DeepSynchronized DEF IsDeep
  <1>2. CASE IsPipelined(p)
    BY <1>2, PipelinedSynchronized DEF IsPipelined
  <1>3. CASE IsSplitK(p)
    <2>1. 1 <= MaxPosted
      OBVIOUS
    <2>. QED  BY <1>3, <2>1, SplitKSynchronized DEF IsSplitK
  <1>. QED  BY <1>1, <1>2, <1>3 DEF IsCubeKernel

\* Two events of a lane may be on their way at a time.
OnlyCubeKernels == 2 <= MaxPosted /\ \A p \in Programs : IsCubeKernel(p)

\* The matmul schedules are synchronized by their text too: with at most two
\* events on a lane, whatever the counts of tiles, chunks and phases, the tile a
\* core starts with and the slice of the contraction it is given.
THEOREM CubeSynchronized == OnlyCubeKernels => (Spec => []ProgramsSynchronized)
  <1>. SUFFICES ASSUME OnlyCubeKernels PROVE Spec => []ProgramsSynchronized
    OBVIOUS
  <1>1. AllSynchronized
    BY ProgramsAssumption, CubeKernelSynchronized DEF OnlyCubeKernels, AllSynchronized
  <1>2. Init => ProgramsSynchronized
    BY <1>1 DEF Init, ProgramsSynchronized
  <1>3. ProgramsSynchronized /\ [Next]_vars => ProgramsSynchronized'
    <2>1. [Next]_vars => program' = program
      BY DEF Next, Step, SetFlag, WaitFlag, Barrier, Start, Finish, Terminated, vars
    <2>. QED  BY <1>1, <2>1 DEF ProgramsSynchronized
  <1>. QED  BY <1>2, <1>3, PTL DEF Spec

\* Hence no interleaving of the pipes of a Cube core has a race, lets events
\* pile up or leaves one behind, or is stuck, and every tile comes out as the
\* whole sum of its products.
THEOREM CubeKernelsRight ==
    OnlyCubeKernels => (Spec => /\ []NoRace /\ []FlagDepth /\ []NoFlagLeak
                                /\ ImplementsProduce
                                /\ [](Done => Out = Right)
                                /\ [](Done \/ \E p \in Pipe : CanGoOn(p)))
  <1>. SUFFICES ASSUME OnlyCubeKernels
                PROVE  Spec => /\ []NoRace /\ []FlagDepth /\ []NoFlagLeak
                               /\ ImplementsProduce
                               /\ [](Done => Out = Right)
                               /\ [](Done \/ \E p \in Pipe : CanGoOn(p))
    OBVIOUS
  <1>1. AllSynchronized
    BY ProgramsAssumption, CubeKernelSynchronized DEF OnlyCubeKernels, AllSynchronized
  <1>. QED  BY <1>1, RaceFree, EventsStayFew, NoEventLeaks, CodeProduces, EndsRight, NeverStuck
=============================================================================
