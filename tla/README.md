# Verification of pto-einsum

This directory holds TLA+ models of pto-einsum, the TLC configurations that
check them on small instances, and proofs checked by TLAPS. pto-einsum compiles
an einsum equation into one fused kernel for an Ascend NPU. Its correctness
rests on a hand-written cross-core barrier, on events between asynchronous
pipelines, and on a workspace that asynchronous launches share: none of these can
be tested by comparing results, because a result is wrong only under the timing
that goes wrong. It also rests on some twenty paths from an equation to a result,
which are chosen on the host, by the templates and in the kernel separately, and
on a build directory that builders of several processes share without a lock.

## Inventory

Paths are below `src/pto_einsum/`.

| Component | State | Operations | What makes it hard, what makes it correct |
|---|---|---|---|
| Cross-core barrier, `include/pto_einsum_utils.h` (`SyncAll`) | FFTS flags 11, 12, 13 on every core | `SyncAll<false>()` on Cube cores (AIC) and Vector cores (AIV) | All cores of all blocks interleave; the same flags serve every round and launch. No core leaves a round before all have entered it drained; flags neither overflow nor survive a round; it never hangs. |
| Fused kernel and host side, `include/pto_einsum.h` | workspace (`ws0`, `ws1`, `ws_res`), the output of each launch | `einsum_setup`, `einsum_exec`, `einsum_teardown`, `einsum`; Phases A, B, C on every core | Cores communicate through global memory only; launches are asynchronous and share the workspace; phases are compiled in or out. Each launch's output is the product of its own inputs. |
| Matmul schedules, `include/pto_einsum_matmul.h` | L1, L0 and accumulator buffers, events between the pipes of a Cube core | split-K tile, deep tile, pipelined tile loop; sharing of tiles and k-slices among cores | Loads, extracts, matmuls and stores overlap; buffers are reused under events. No buffer is overwritten too early, no event leaks, each tile sums the whole contraction once. |
| Transposes, `include/pto_einsum_transpose.h` | tiles in the unified buffer (UB), events of a Vector core | identity, padded and batched copies, N-D strided gather, 2D and batched `TTRANS`, blocked variants, dispatch | As above; and one routine follows another on the same UB. The layout arithmetic has many cases. |
| Products without contraction, `include/pto_einsum_elementwise.h` | UB tiles, events | elementwise product, column and scalar broadcast | Converting and multiplying overlap in the V pipe; the last store; lanes writing neighbouring output. |
| Tile geometry, `MatmulGeom`, `MatmulPipeline`, `deep_pick_*`, `builder._tile_k`, `_splitk_eligible` | none | compile-time and host arithmetic | The searches end on divisors that fit the buffers; host and kernel agree on partial tiles and on split-K. |
| Recipe, `builder.py` (`parse_recipe`, `_try_broadcast`, `parse_equation`, `generate_code`) | `recipe`, `_exec_shapes`, `_swap_operands`, the generated configuration | from an equation, shapes and environment to permutations, strides, gates and a template | Every path computes the same einsum, reads nothing outside its operands, and compiles; what cannot be computed raises. |
| Builder life cycle, `builder.py` (`compile`, `load_library`, `build`, `run`, `cleanup`, `__del__`) | `.cpp` and `.so` files, what `dlopen` has mapped, `lib`, `_workspace` | see left | Builders of the same code share files, processes die, compilers fail. A builder runs its own library on a workspace it owns, leaks none, and the cache does not poison itself. |
| Templates, `templates.py` | none | text of four kinds of library | They export what is looked up and pass operands in the right order. |
| CPU backend, `include/cpu_einsum.h` | none | reference loops | It computes the einsum. |
| Permutation helpers, `IsIdentityPerm`, `align_up`, `PermOdometer` | digits and base of an odometer | `init`, `advance` | The odometer agrees with a division at every step. |
| Tests, benchmarks, scripts | none | clients of the library | not modelled |

The builder generates a configuration, compiles it with the headers, loads the
library and calls `run_einsum_setup` once and `run_einsum_exec` per call. `exec`
enqueues the fused kernel on a stream. On the device each block has a Cube core
and two Vector cores; each core's scalar unit feeds asynchronous pipes (MTE2, MTE1,
M, FIX, V, MTE3). So there are three levels of concurrency: pipes in a core,
cores in a launch, launches against the host.

## Modules

| Module | Models | Level |
|---|---|---|
| `Barrier` | what `SyncAll` promises | abstract |
| `SyncAll` | `SyncAll<false>()`, one action per instruction, and the FFTS unit | cores |
| `SyncAllProofs` | theorems about `SyncAll` | |
| `EinsumStream` | what a built runner promises its caller | abstract |
| `FusedKernel` | kernel and host side on one stream; composes `SyncAll` by `INSTANCE` | cores, launches |
| `Produce` | what a stretch of kernel code promises: each output place goes once from nothing to its right value | abstract |
| `Pipes` | one AI core executing a program of operations, events and barriers | pipes |
| `CubePrograms` | the three matmul schedules as `Pipes` programs | pipes |
| `VecPrograms` | transposes and products as `Pipes` programs | pipes |
| `PipeOrder` | what the text of such a program promises about order and results | program text |
| `PipesProofs` | theorems about `Pipes` and `PipeOrder`, and rules for reading a text | |
| `ProgramProofs` | theorems about the programs of `VecPrograms` and `CubePrograms`, whatever their lengths | |
| `FusedKernelProofs` | theorems about `FusedKernel` | |
| `Geometry` | tiles and granularities of host and kernel, as operators | arithmetic |
| `Layout` | the stores of every Vector lane: transposes and products; the odometer | offsets |
| `LayoutProofs`, `Arithmetic` | theorems about `Geometry` and `Layout`: granularities, strides, the odometer, stores; facts about division | |
| `Recipe` | from an equation to a result: build, load, run; composes `Geometry` and `Layout` | offsets |
| `RecipeProofs` | theorems about `Recipe` and the results its kernels compute | |
| `Builder` | builders, processes and files of one build directory | host processes |
| `BuilderProofs` | theorems about `Builder` | |
| `MC...` | the instances TLC checks | |

### SyncAll

State: `pc` (where a core is between the instructions of `SyncAll`), `inflight`
(its pipelines hold work), and per flag and core the counters `sent`
(`ffts_cross_core_sync`), `raised` (by the FFTS unit) and `waited`
(`wait_flag_dev`). `Group` translates the mode field of the message: mode 0 joins
all AICs, mode 2 joins the cores of a block. `Raise` is hardware: a flag goes up
on a core when every core of the group has signalled once more. `arrived` and
`left` count the rounds and are what `Barrier` is about.

### FusedKernel

One configuration is a record of what the kernel's `constexpr` gates are computed
from; the gates (`Skip0`, `NtIn`, `OutDirect`, `SplitKEligible`, ...) are the
code's. Host actions: `Setup`, `Exec` (with the output zeroed if the host expects
split-K), `Teardown`. Core actions: `Begin` (issue the phase's work), `Finish`
(one unit of it takes effect, in any order), `Barrier` (a step of `SyncAll`),
`Exit`. A workspace cell holds the number of the launch whose input it was copied
from, a tile the set of partial products in it; a matmul that reads a cell of
another launch, a pad that is not zero, or an accumulator that was not zeroed
yields `Junk`. `Chunk`, `KSplit` and `SplitWork` are the code's work split.

### Pipes, CubePrograms, VecPrograms

`Pipes` is the execution model the kernels are written against (hardware, outside
the repository): pipes run their own instructions in order, `set_flag` posts when
the pipe's earlier work is done, `wait_flag` consumes an event, `pipe_barrier`
waits. An operation occupies its tiles from its start to its finish, and V may
start one operation before the previous one has finished, which is what the code's
`pipe_barrier(PIPE_V)` is for. Programs are the C++ loops unrolled. A tile is a
set of places, so the overlap of one routine's tiles with another's is
represented; a value is the term that computed it, so a tile that sums the wrong
pieces, one piece twice, or a reused buffer's new contents, shows.

`PipeOrder` does not run a program, it reads it. `Over(c)[j]` is what is over when
instruction `j` is issued: by what pipe and scalar unit do in order (`Direct`), by
what was over at earlier instructions of the pipe (`Earlier`), and by the `set_flag`
with the number of a `wait_flag` (`Matching`). `Synchronized(p)` says that
operations which share a place are in this order, that events fit their lane and
come out even, and that the operations, done in the order of the text, compute
`right`. This takes a pass over the text instead of all interleavings.

### Geometry, Layout, Recipe

`Recipe` follows one problem, an equation with shapes and an environment, from
`EinsumBuilder(...)` to the tensor `run()` returns. Its actions are the steps of
`build()` and the ways they fail: `ValidateFails`, `ParseEquation` (validation,
the operand swap, `parse_recipe` with `_try_broadcast`, the rejection of partial
tiles under batching), `GenerateCode`/`GenerateFails`, `Compile` (where the
`static_assert`s of the kernels hold or fail), `LoadLibrary` (the functions that
are looked up against those exported) and `Run`. Labels are numbers, tensors are
flat, and an element of a result is the set of products of operand elements that
were summed in it, so two results are equal exactly if they sum the same products.

`Geometry` holds the arithmetic host and kernel share, with the fractal size and
the buffer capacities as constants. What the kernel computes is taken apart as the
code does it: which of the operands is read in place (`RD0`, `RD1`), what the
matmul expects in `ws0` and `ws1` (`Ws0`, `Ws1`), the addresses it loads and
stores (`AddrA`, `AddrB`, `AddrC`) and the extents of a tile (`Loaded`, `Stored`),
the output's transpose.

`Layout` is the other side of `Ws0`, `Ws1` and the output's transpose: the stores
`<<lane, address, element>>` of every routine of `pto_einsum_transpose.h`, with
its dispatch, blocks, paddings and odometer, and of the products without
contraction. `StoresInp0`, `StoresInp1`, `StoresOut` call them as the phases of
the fused kernel do, and `TransposesRight` compares both sides. What Phase A does
is thereby checked twice: as an event program by `VecPrograms`, as a set of
stores here.

### Builder

A builder's job is its generated code and its extra defines; the job names a file
in a directory named by the code alone (`FileOf`). The steps of `compile()` are
actions of their own, because files are shared: the check for the `.so`, opening
and writing the `.cpp`, the compiler's reading and the linker's opening and
writing. A file is absent, half written, or built from an empty or a full source.
`attached` says whether a file somebody is writing is still the one of that name.
`mapped` is what `dlopen` answers from without looking at the file. `Drop` is
`__del__`; `Crash` kills a process between any two steps. `disturbed` is a history
variable: the codes at which builders met, or a process died, since the directory
was last removed.

## Runs

| Run | Instance | Question |
|---|---|---|
| `sync_all` | 3 blocks (9 cores), 2 rounds, symmetric blocks | is it a barrier, are the events on its flags bounded, does it implement `Barrier` |
| `sync_all_live` | 2 blocks, 2 rounds, fair, no symmetry | does work stay within its phase, do the flags come out clean, does every core return |
| `fused_kernel` | 2 blocks, 2 launches, 7 configurations | races over global memory; right outputs; are the flags handed over clean from launch to launch; does it implement `EinsumStream` |
| `fused_kernel_live` | 2 blocks, 2 launches, an idle Cube core, fair | does every launch end |
| `matmul_schedules` | 1-4 chunks of 1-3 phases over 2 deep tiles; 0-3 pipelined tiles; 1-5 split-K k-tiles; fair | buffer reuse, events, products, termination; are these schedules `Synchronized` |
| `vector_routines` | lanes with 0-4 units, both precisions, every pair of routines; fair | the same on the Vector core |
| `recipe` | every equation of up to 3 axes and 4 labels, 5 shapes, 5 environments, and 12 others; sizes scaled down | is every accepted equation computed, does its code compile, load and fit, do the lanes store what is read |
| `builder` | 3 builders of one code (one with other defines, one in another process), 2 device addresses, 2 builds of one, 1 crash | right library, right workspace, no leak, whose fault is a failure |
| `pipelined_partial` | violation, real sizes | see Findings |
| `operands_misplaced` | violation, real sizes | see Findings |
| `elementwise_drain` | violation | see Findings |
| `blocked_then_copy` | violation | see Findings |

The type invariants of `SyncAll`, `FusedKernel`, `Pipes` and `Builder` are proved
(each `TypeCorrect`) and not checked by a run: their variables are counters of the
FFTS unit, of a stream, of pipes and of a toolchain, and a slip of the code shows
in the other properties long before it shows in a type. The type invariant of
`Recipe`, whose fields the code computes, is checked as well.

Why the bounds suffice. Two rounds let a core be a round ahead of another, and
the proofs of `SyncAllProofs` cover any number of blocks and rounds. Three blocks
are the first number at which a group of AICs has more than a pair. Uneven splits
of the contraction, with idle blocks, are left to the theorem `OutputsRight`, which
covers every number of blocks and every split. Two launches are enough to reuse the
workspace and the flags. Every schedule is double-buffered, so three units use
each buffer, reuse one and leave an odd remainder, and the fourth repeats the
pattern; all parities of chunks and phases occur. `ProgramProofs` covers the programs
of every length, of Vector and Cube cores alike, and with the theorems of `PipesProofs`
every interleaving of them. `MaxPosted` is the number of
events a lane has to hold: 2 for the Cube programs and 1 for the Vector programs.

`FusedKernel` checks races at the level of work units that read all of an operand,
the most any layout can make them depend on.

`recipe` scales every granule and buffer together: a fractal of 2 instead of 16,
blocks of 2 instead of 64, L0 of 64 bytes, six Vector lanes, and so on. What
counts is which comparisons hold, and on small tensors all of them then go both
ways: contractions padded or not, tiles partial, full and several, split-K on and
off, the pipelined loop, both broadcast modes and operands too large for either,
lanes with many units, one, or none, transposes whole and in blocks. TLC's
coverage of the run shows every expression of `Layout` evaluated, and of `Recipe`
all but the failure branch of `LoadLibrary`. Up to four labels on three axes
per operand give every role an axis can have (batch, free, contracted) in every
order; the problems on four axes are those of attention and of broadcasts with
gaps. The problems of `pipelined_partial` and `operands_misplaced` are checked
with the real sizes, so that neither finding is an artefact of the scaling. In
`builder` two builders suffice for any two steps to interleave, and the third adds
a second process and other defines; one builder builds twice, so that
its library, workspace and files of the first time are there at the second.

Deadlock is checked in every run but `recipe`, `builder` and the violations of
`Recipe`: there a build ends, and the builds are bounded. `SyncAll` and
`FusedKernel` do not stop short of their bounds because an issuing core or a
calling host can always do something; `Pipes` has an explicit end, `Terminated`.

### Fairness

Weak fairness, and only of the device: a core that can execute its next
instruction does, a pipe finishes what it started, the FFTS unit delivers, the
stream starts the next launch. Nothing forces the host to call, and nothing forces
a kernel to issue work. Hardware that stops is not modelled. `Recipe` and `Builder`
state safety only: no fairness is assumed of compilers or processes.

## Findings

* `blocked_then_copy`. A blocked 2D transpose (`transpose_2d_inline`, operand 0
  larger than the UB) leaves its last `TSTORE` in flight with no event towards
  MTE2. The routine for operand 1 starts at once and its first load overlaps the
  tile being stored. The other routines either wait (`MTE3 -> MTE2`) or end in a
  full barrier. `vector_routines` therefore checks every other pair, and blocked
  transposes after which nothing or another blocked transpose (with its tiles at
  the same places) follows.
* `elementwise_drain`. The elementwise kernel ends without the
  `pipe_barrier(PIPE_ALL)` that the broadcast kernel, of the same block structure,
  has and that `IMPLEMENTATION.md` explains. `VecStoresDrained` states the property
  for all other programs.
* `pipelined_partial`. `PIPELINE_TILES` asks for `!A_PADDED && !B_PADDED`, which
  compare dimensions padded to 16 already. A free dimension below one tile that is
  not a multiple of 16 passes, and its tile is not full: `bik,bkj->bij` with 32
  batches of 20 rows loads and stores 32 rows of each batch, 12 of them of the
  next. `RunRight` and `ReadsInBounds` exempt such problems (`PartialPipelined`).
* `operands_misplaced`. The transposes take the innermost axis of a permuted
  operand for a row of the matmul layout. A contraction of several axes, or of
  none (`ij,j->ji`), makes a row several such runs, or part of one: each lands a
  padded row apart, in pads, past the workspace of operand 0 and in that of
  operand 1. Operand 1 has the same trouble where its rows or columns are padded.
  Depending on the path a `static_assert` fails instead. `Regular` says which
  operands are laid out right; `RunRight`, `Compiles` and `TransposesRight` hold
  for exactly these.
* Documented, hence not a finding: a permutation whose second-innermost output axis
  is not source-contiguous does not compile (`IMPLEMENTATION.md:255`; `Guarded`).
* Not a finding but worth knowing: in scalar mode the broadcast kernel does not
  align the spans of its lanes, so that lanes share lines of the output, which the
  comment at `pto_einsum_elementwise.h:153-155` forbids. `ProductsApart` leaves
  scalar mode out of its second half; what the memory system makes of it is not in
  the repository. And the lane MTE1 -> M needs to hold two events
  (`FlagDepth` with `MaxPosted = 2`), and an AIC's signal can be two rounds ahead
  of what another AIC's flag shows (`FlagDepth` in `SyncAll`).

## Proofs

`SyncAllProofs` proves, for every set of blocks and every number of rounds, from
`NRoundsAssumption` (`NRounds \in Nat`): `TypeOK`, `BarrierSafe`, `WorkContained`,
`FlagDepth`, `FlagsClean`, and that `SyncAll` implements
`Barrier`.

The inductive invariant `IInv` is needed because `BarrierSafe` compares `left`
and `arrived`, which no single step relates. `IInv` says that a core's place
in `SyncAll` determines its counters relative to the rounds it has left
(`CubeCounts`, `VecCounts`), that a flag is consumed at most as often as raised
and raised at most as often as each member of the group has sent (`FlagOrder`),
and that a core inside `SyncAll` has drained pipelines (`Drained`). `BarrierSafe`
then is a chain of inequalities (lemma `Chain`): rounds left by an AIV, its
`AIC_AIV` waits, its AIC's signals, that AIC's `AIC` waits, every AIC's signals,
their `AIV` waits, every AIV's signals, their arrivals. `WorkContained` adds that work in
flight belongs to a core outside `SyncAll`; `FlagDepth` and `FlagsClean` bound the
differences of the same counters; the refinement proof shows that only two steps
move `arrived` and `left`.

`FusedKernelProofs` proves `NoRace` for any number of blocks, launches and work
units and any configurations, from `ConstantsAssumption`. Its invariant `KInv` says
that the phase a core is in fixes the rounds of `SyncAll` it has left (`Place`), and that a
core has work in its pipelines only between issuing it and calling `SyncAll`
(`Local`). Every step of the kernel is a step of `SyncAll` or leaves it alone
(`UsesSyncAll`), so the theorems of `SyncAllProofs` hold of the kernel, and
`BarrierSafe` puts cores with unfinished work into the same phase. Within one phase
lanes have disjoint chunks and blocks have disjoint tiles or slices. By `KInv` cores
that are off have all left the same round, so that `FlagsClean` of `SyncAll` becomes
`FlagsHandedOver` (`FlagsAlwaysHandedOver`): a launch leaves no event to the next,
whether it was compiled with one barrier or with two.

Its second half adds the contents of memory: `DInv` says that every cell
holds what the finished units of the current launch put there, on buffers that the
host prepared (zeroed pads, and a zeroed output if the contraction may be split).
With lemmas that chunks and split-K slices cover their totals, a launch that is over has the
whole product of its own inputs (`OutputsRight`), and kernel and host implement
`EinsumStream` (`ImplementsEinsumStream`).

`LayoutProofs` begins with every problem and tile size. Its hypotheses: the
configuration is one the builder generates (`Generated`), and one granule of a
tile fits twice into L0, L0 twice into L1, a tile of accumulators into L0C
(`GranuleFits`), which the defaults satisfy and nothing checks when
`EINSUM_TILE_SIZE` is set. The search shared by `_tile_k` and `deep_pick_*` divides
(`SearchesDivide`), host and kernel agree on partial tiles and split-K
(`PartialTilesAgree`, `SplitKAgrees`), and the `static_assert`s and capacities
hold (`StaticAssertsHold`, `CapacitiesHold`).

Its last part, about the stores, is for every shape and number of cores, from
`LayoutAssumption`.
Every unit of a routine belongs to one lane, whatever the grain (`LanesShare`: the
quotient by the chunk is the lane). So the identity copy and the elementwise
product store every element once, at its place (`CopyRight`, `ElementwiseRight`),
and where a lane's grain is a number of lines, which is what `ALIGN_ROWS` computes,
no two lanes meet in a line of the output (`ElementwiseRight`,
`BroadcastRowsApart`). `Transpose2dRight` says that `transpose_2d_inline` stores
the transposed matrix, in one lane or in blocks: an element is in the block of its
quotients only, that block belongs to one lane, and no two elements go to one place
because a row leaves room for `dpad >= rows` of them.
The broadcast products store every product once, at its place, and in column mode
no two lanes share a line (`BroadcastColumnsRight`, `BroadcastScalarsRight`): units
that have places of their own leave what they should (`UnitsRight`), and the blocks
a lane steps through, of whatever height `bcast_col` picks, add up to its rows.

The transposes with a permutation are stated by rows (`LaysRows`): the lanes store
rows that do not overlap, and each element of a row once, with the source that
`transfer_idx` gives it; nothing else is stored. Runs are copied right by `transpose_nd_copy_inline`
(`NdCopyRight`), because every base is the source of its run (`BasesRight`) and every
unit has places of its own. The batched transpose is right whole or in blocks, with
or without padded rows (`Batched2dRight`): an element is in one matrix, and there in
one block (`BlockOf`). `InlineRight` puts together the dispatch of `transpose_nd`,
`InlinePads` and `RowpadRight` the dispatches that pad, where rows are an axis of the
tensor, or nothing is permuted, or (`InlinePads`) the batched transpose pads nothing.

The middle of `LayoutProofs` is about products of sizes, digits of an offset and
the odometer, for any number of axes. These are recursive functions over the axes, and each proof by
induction goes over the set of the indices at which the claim holds
(`Arithmetic!Induction`), which the provers can instantiate where they cannot
instantiate the induction theorems of the library. `OdometerSteps`: `advance`
leaves what `init` would have set up for the next flat index. `OdometerDecodes`:
its base is the offset a division by every axis finds. `BasesRight`: therefore
every base a lane reads is the source offset of that run. The lemmas on listings say
that a product over the axes, and the offset of an element, do not depend on the order
in which axes are listed (`ListingsAgree`), which is what a permutation does.

`RecipeProofs` is about every problem of `RecipeAssumption`: any number of labels and
axes, any sizes, any environment. The invariant `IInv` says that recipe,
configuration and library are functions of the problem, by `pc`, and that the
problem was valid. `SymbolsResolve` and `SplitKInStep` follow by the cases of the
template and from the first part of `LayoutProofs`; `KernelFits` and `Compiles` need that one
granule of a tile fits the buffers (`TilesFit`, which the defaults satisfy and the
code checks nowhere). The arguments behind `Compiles` and `ReadsInBounds` are about
the recipe: the index lists of an operand are a permutation of its axes, because in-place,
free and contracted labels list them all and each once (`Orders`, `MatmulTurns`), so
that sizes multiply to the operand's, and an operand read in place is read at the
offset that digits of its own axes have (`DirectReads`), which is below its size
(`DecodeBound`). `ProductsApart` (`ProductsAlwaysApart`) follows
from the theorems of `LayoutProofs`, once the sizes of a broadcast configuration are
known to be positive. `TransposesRight` (`TransposesAlwaysRight`) is about whole
workspaces: rows a stride apart that hold the rows of an operand are what
`Ws0` and `Ws1` say, zeroes in the pads included, and nothing more (`RowsFill`). It
needs that the code compiled: with a partial tile there is one batch (`I = 1`), and the
batched transpose reads contiguous rows. `TypeOK`
(`TypeCorrect`) is not inductive for the result: that `run()` returned one
(`Returned`) needs that every kernel stores something for a recipe of `IInv`
(`RunReturns`).

The second half of `RecipeProofs` proves `RunRight` (`RunAlwaysRight`): whatever the equation, sizes and
path, the result has every element of the output and in it just the products the
equation names. No invariant beyond `IInv`, `SplitKInStep` and `Answered` (the output is
what the kernel of the library in `IInv` computes) is needed; what is hard is that
each kernel computes the sum over valuations of the labels by which `Einsum` is
defined, while counting in flat offsets. The argument:

* A label has a stride in a tensor, and the offset of an element is the sum over its
  labels, wherever the axes were moved (`ElementTurned`). The valuations of a group of
  labels are numbered by the offset within the group, each number once
  (`ElementReaches`, `ElementDecodes`).
* For a matrix product there are four groups, hence four indices `i`, `m`, `n`, `k`. Each
  of `AddrA`, `AddrB` and `AddrC`, through a workspace, a transposed tensor or strides of
  an operand read in place, is the element at those four numbers; the tiles of
  all cores cover rows and columns once, and the padded part of the contraction
  reads `Zero` on one side (`NpuRight`). An atomic store is preceded by a zeroed
  output because of `SplitKInStep`. `CpuRight` is the same without padding.
* A broadcast configuration cuts the axes of the output into outer axes, rows and
  columns; a stride of 0 is an axis the smaller operand lacks, and the remaining ones
  are its own (`BroadcastComputes`, which covers both modes, and either operand as the
  full one).
* With swapped operands the kernel's equation names the same terms crosswise
  (`SwapRight`), which is how the caller's result reads them.

Left out are, as in the run, the tiles of `PartialPipelined`. That the workspaces hold
what `Ws0` and `Ws1` say is `TransposesAlwaysRight`, for operands that are `Regular`,
so that `RunRight` says nothing of the others.

`BuilderProofs` is about any builders, processes, jobs and addresses, from
`BuilderAssumption`. The invariant is `TInv` (`TypeOK`, and a linking compiler has
read its source), `Faithful` and `Owned`. `LoadedRight` alone is not inductive: a
library goes from one builder's compiler to a file, from there to a process and to
another builder, so `Faithful` says of all three that they hold a library of the
job their name stands for. `NoLeak` needs that a workspace is never without the
library that frees it (`Owned`).

`CachePoisonsNothing` is `FailsOnFilesOnlyIfDisturbed`, from an invariant about each
code of its own (`CacheStaysCalm`, `Undisturbed`): while a code is not disturbed it is
`Calm`, that is, one builder at most is at work on it, a `.so` that is there was built
from a full source or is just being linked, no process has mapped one built from an
empty source, and the builder at work finds at every step what it left at the one
before (`Underway`). Two steps carry the argument: a builder that starts without
disturbing is alone (`CalmCompiles`, `CalmIdles`), and `rmtree` takes a code out of
`disturbed` only when it leaves nothing, on disk or mapped, that could make a later
builder fail (`CalmRemoves`). That is why `RemoveDir` looks for hollow mappings: a
process keeps what it mapped when the directory goes.

`PipesProofs` is about programs of any length, from `ProgramsAssumption`. `TypeOK`
holds of all of them; the rest has the hypothesis `AllSynchronized`, about the text of
the programs only, which the runs evaluate (`ProgramsSynchronized`) and `ProgramProofs`
proves of every Vector and Cube program.
(`MCBlockedThenCopy` of the findings is not synchronized.) The
invariant `IInv` says that

* a lane holds the events that were posted and not consumed (`Counted`), so that a
  `wait_flag` that was passed had its own `set_flag` before it (`MatchIsPosted`);
* what the text says is over when an instruction is issued, is over (`OverInv`), since
  each of the three reasons in `Follows` is a guard of the step that issues it, or was
  one of a step before (`DirectIsThrough`, `EarlierIsThrough`, `MatchIsThrough`);
* a place holds what the last of its writers that are through leaves there when the
  operations are done in the order of the text (`MemInv`). An operation finds the
  same (`LeavesResult`), because writers before it are through and later ones have not
  begun (`InTextOrder`), which is where races are excluded.

From it follow `NoRace` (`RaceFree`), `FlagDepth` (`EventsStayFew`), `NoFlagLeak`
(`NoEventLeaks`), the refinement of `Produce` (`CodeProduces`), right results at the end
(`EndsRight`), and results in memory when the core retires, if the text makes the
scalar unit wait for them (`RetiresDrained`).
`NeverStuck` is the absence of deadlock: of the pipes without work in progress, the one
that is furthest behind can go on, and if it is at a `wait_flag`, its event was posted.

`ProgramProofs` shows that every kernel of a Vector core is `Synchronized`
(`VecSynchronized`), hence right in every interleaving (`VecKernelsRight`), and drained
where it should be (`VecRetiresDrained`): any pair of the routines of `IsPhaseA`, both
kinds of broadcast and the elementwise product, for any number of units on the lane,
tile size and precision, given lanes that hold one event. `Over` and `Values` are
recursive functions over the text, and the second half of `PipesProofs` turns them into
rules that read a text one instruction at a time (`OpRule`, `SetRule`, `WaitRule`,
`BarrierRule`). A text is `Sound` as far as it is read when it has no conflict,
unmatched wait or overfull lane so far. What the rest of it may rely on:

* a pipe `Owns` a place, or a lane, when everything that touched it so far is over for
  whatever that pipe is issued next;
* an event carries this over: what the poster owns is `Passed` to whoever waits for the
  event, and the wait turns `Passed` into `Owns`;
* a place that is written `Holds` a value, which a later operation of the owner reads.

A loop is then one invariant of these over the number of units read, by induction over
the unrolled text (`Unrolled`). Routines that wait for their own stores leave every
lane even (`Quiet`) and MTE2 the owner of everything (`Settled`, `Serves`); two tiles that take turns hand each
its own event from a store to the reload two units later (`NdCopy`); the blocked
transpose leaves its tiles between units in a state of their own, the load's tile free
for MTE2 and the other two for V (`Between`), in which only a routine can go on that has
tiles at the same places. That is why `IsPhaseA` has a blocked transpose only
last or before another one, and what `blocked_then_copy` fails at.

The second part of `ProgramProofs` does the same for the Cube core (`CubeSynchronized`,
`CubeKernelsRight`): `matmul_one_tile_deep` for any tiles, chunks and phases,
`matmul_tile_loop_pipelined` for any tiles and phases, none included, and from any first
tile on, and split-K for any slice, given lanes that hold two events (for split-K one
would do). No pipe
of these schedules ever waits for all the others, so that nothing is ever `Settled`. Each
part of the core has a state instead: a buffer of L1 is freed, filled or taken over
(`Freed`, `Full`, `Opened`), the two buffers of L0 go round with the next one
named (`Turn`), an accumulator is with the products or lent to the store (`Mine`, `Lent`).
A stretch of text that touches some parts only leaves the state of the others as
it is (`Within`, `SameOn`). Two facts are needed beside these states:

* an event may be posted again only when its wait is known to be over, and a pipe
  may know of all waits but the last (`OwnsOlder`, `PassedOlder`). That is why a lane
  needs room for two events: the one from MTE1 to M, which every phase uses, and
  those that free buffers, where one deep tile follows another;
* the loops load one chunk or tile ahead: `Waiting` and `Ahead` say of the other buffers that
  they are free and that the news of it comes with the chunk that is loaded.

The induction is over phases within a chunk (`InPhases`), chunks within a deep tile
(`AtChunk`), tiles (`AfterTiles`, `AtTile`) and k-tiles of a slice (`AtSlice`). The values are
carried along: the accumulator holds the sum of the pieces multiplied so far
(`Sum`, `Pieces`), and each tile is stored once (`OutSoFar`).

Only model-checked: liveness (`AllReturn`, `EveryLaunchEnds`, `Completes`), since
TLAPS does not reason about fairness and `ENABLED`. Every other property is proved.

## Assumptions about what is outside the repository

* FFTS flags are counted, and a group's flag is raised once per complete set of
  signals.
* A stream runs its launches one after the other, and a launch is over when its
  cores' pipelines are empty. (`pto_einsum_elementwise.h:340-345` says that a
  core may retire earlier. `FusedKernel` does not follow this up: it would apply
  to the last stores of Phase C or of a direct Phase B as well; it is in the list
  of hazards.)
* Scalar instructions of a core execute in program order, and hand instructions
  to the pipes in that order.
* `aclrtFree` waits for the launches that use the memory. Without this
  `LaunchOwnsWorkspace` fails at once, because `cleanup` and `__del__` do not wait.
  So no property here speaks for that hazard: `LaunchOwnsWorkspace` and `NoLeak` are
  about handles that outlive `cleanup()` and allocations nobody knows of.
* A builder is used by one thread, and a runner on one stream.
* MD5 has no collisions. A linker unlinks an output of the same name before it
  writes. `dlopen` answers by name, and `ctypes` never closes a library. A killed
  process takes its compilers with it. A source file cut short is empty or whole.
* The environment variables are constant during a builder's life, and headers and
  toolchain during that of the build directory.
* Sizes are at least 1. Allocation does not fail: in `Builder` a first call waits
  for a free address.

## Not modelled

* Offsets of 32 bits: `Layout` and `Recipe` count in unbounded integers.
* The standalone launchers (`transpose`, `batched_matmul`), which only the exported
  debugging functions call; their `static_assert`s are part of `Compile`.
* A builder that is built again under a changed environment, two streams on one
  runner, threads, failing allocation.
* The C++ text of the templates, the profiling builds (`EINSUM_PHASE_STOP`),
  numerical accuracy, and what the memory system does with a shared line.
* Tests, benchmarks and scripts: clients of the library without state of their own.

## Plan

Everything planned is modelled and checked, and every safety property is proved. What
would add most: the liveness of a build whose compilers terminate; offsets of 32 bits in
`Layout`; and a second stream, once the code says what it should do.
