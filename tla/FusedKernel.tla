---------------------------- MODULE FusedKernel ----------------------------
(***************************************************************************)
(* The fused einsum kernel of pto_einsum.h and its host side: one mix      *)
(* launch runs the whole pipeline on every block's Cube and Vector cores,  *)
(*                                                                         *)
(*   [Vec ] Phase A   data0 -> ws0, data1 -> ws1   (input transposes)      *)
(*   SyncAll                                                               *)
(*   [Cube] Phase B   ws0 @ ws1 -> ws_res or res   (batched matmul)        *)
(*   SyncAll          only if the output is not written directly           *)
(*   [Vec ] Phase C   ws_res -> res                (output transpose)      *)
(*                                                                         *)
(* on a workspace that the host sets up once and the launches of a stream  *)
(* share.  The cores synchronise only through SyncAll.                     *)
(*                                                                         *)
(* Data is abstracted to what decides whether an output is right: a        *)
(* workspace cell holds the launch whose input it was copied from, and an  *)
(* output tile the set of partial products <<launch, k-tile>> summed in    *)
(* it.  A matmul unit reads all of both operands and an output-transpose   *)
(* unit all of ws_res, the most any layout can make them depend on.        *)
(***************************************************************************)
EXTENDS Integers, FiniteSets, FiniteSetsExt

CONSTANTS NBlocks,      \* get_block_num(): blocks of the launch
          MaxLaunches,  \* launches enqueued on the stream (bounds the runs)
          Units,        \* work units of each input transpose
          Configs       \* the compile-time configurations (CONFIG_T) to check

(***************************************************************************)
(* A configuration keeps of CONFIG_T what gates the kernel:                *)
(*   id0, id1, idOut  the transposes that are the identity                 *)
(*   kc               n_contract is a multiple of 16 (K == C)              *)
(*   aPad, bPad       MatmulGeom::A_PADDED, B_PADDED                       *)
(*   inNt             in_nt # 0: the host chose a strided-input read       *)
(*   fusible          out_fusible # 0: the Cube can store permuted         *)
(*   tiles, nK        MatmulGeom::total_tiles and nK                       *)
(***************************************************************************)
ConfigT == [id0 : BOOLEAN, id1 : BOOLEAN, idOut : BOOLEAN, kc : BOOLEAN,
            aPad : BOOLEAN, bPad : BOOLEAN, inNt : BOOLEAN, fusible : BOOLEAN,
            tiles : Nat \ {0}, nK : Nat \ {0}]

ASSUME ConstantsAssumption == /\ NBlocks \in Nat \ {0}
                              /\ MaxLaunches \in Nat
                              /\ Units \in Nat
                              /\ Configs \subseteq ConfigT

\* EinsumSkip, NtInput, and the constexpr gates of einsum_fused_kernel.
Skip0(g) == g.id0 /\ g.kc /\ ~g.aPad
Skip1(g) == g.id1 /\ g.kc /\ ~g.bPad
NtIn(g)  == g.inNt /\ g.kc /\ ~g.aPad /\ ~g.bPad
ReadDirect0(g) == Skip0(g) \/ NtIn(g)
ReadDirect1(g) == Skip1(g) \/ NtIn(g)
FuseOut(g)     == g.fusible /\ ~g.idOut
OutDirect(g)   == g.idOut \/ FuseOut(g)
SplitKEligible(g) == g.idOut /\ g.nK >= 2 /\ g.tiles < 16 /\ ~NtIn(g)

\* The matmul reads a padded tail of an operand it takes from the workspace: of
\* the contraction up to K, of the rows of A up to Ma or columns of B up to Na.
Padded0(g) == ~g.kc \/ g.aPad
Padded1(g) == ~g.kc \/ g.bPad

\* einsum_setup's ZERO0 / ZERO1: the operand buffers the host zeroes.  A slip:
\* only the contraction pad is thought of.
Zero0_KOnly(g) == ~g.kc
Zero0(g) == ~g.kc \/ g.aPad
Zero1(g) == ~g.kc \/ g.bPad

\* builder._splitk_eligible: when run() allocates a zeroed output.  A slip: a
\* grid bound out of step with the kernel's.
HostSplitK_OneTileOnly(g) == g.idOut /\ g.nK >= 2 /\ g.tiles < 1
HostSplitK(g) == g.idOut /\ g.nK >= 2 /\ g.tiles < 16

-----------------------------------------------------------------------------
Block == 0..(NBlocks - 1)
Launch == 1..MaxLaunches

VARIABLES cfg,       \* the configuration the kernel was compiled for
          \* the host
          workspace, \* "none" or "ready"
          enqueued,  \* launches put on the stream
          current,   \* launches the stream has started
          \* the cores
          phase,     \* phase[c]: "off", or the phase the core is in
          begun,     \* begun[c]: the core has issued its work of the phase
          pending,   \* pending[c]: the units issued and not finished
          \* global memory
          ws0, ws1,  \* per unit, the launch whose input it holds (0: none)
          pad0, pad1,\* the padded tails: TRUE when zero
          wsRes,     \* per tile, the partial products summed
          res,       \* per launch, its output tensor, like wsRes
          \* the barrier
          pc, arrived, left, sent, raised, waited

S == INSTANCE SyncAll WITH
       NRounds  <- 2 * MaxLaunches,
       inflight <- [c \in Block \X {"aic", "aiv0", "aiv1"} |-> pending[c] # {}]

Core == S!Core

host   == <<workspace, enqueued, current>>
memory == <<ws0, ws1, pad0, pad1, wsRes, res>>
sync   == <<pc, arrived, left, sent, raised, waited>>
vars   == <<cfg, host, phase, begun, pending, memory, sync>>

Tile  == 0..(cfg.tiles - 1)
KTile == 0..(cfg.nK - 1)

Term == (0..MaxLaunches) \X Nat   \* a launch and a k-tile of it
Junk == {<<0, 0>>}           \* what uninitialised memory or a bad sum holds
Complete(n) == {n} \X KTile  \* the whole contraction, of launch n's inputs

\* Adding partial products; one of them twice is not a product any more.
Sum(old, new) == IF old \intersect new = {} THEN old \union new ELSE Junk

-----------------------------------------------------------------------------
(***************************************************************************)
(* How work is split over lanes and cores.                                 *)
(***************************************************************************)
Lane(c) == c[1] * 2 + (IF c[2] = "aiv1" THEN 1 ELSE 0)
Lanes == NBlocks * 2

\* Contiguous chunks of ceil(total / n), the last ones short or empty.
Chunk(total, who, n) ==
  LET chunk == (total + n - 1) \div n
      start == who * chunk
  IN  start..((IF start + chunk < total THEN start + chunk ELSE total) - 1)

\* batched_matmul_inline: how many cores share a tile's contraction.
KSplit ==
  LET most == Min({NBlocks \div cfg.tiles, cfg.nK})
  IN  Max({0} \union {k \in 1..most : cfg.nK % k = 0})

Splitting == SplitKEligible(cfg) /\ KSplit >= 2

\* The tiles, and of each the k-tiles, block b contracts.
SplitWork(b) ==
  LET kpc == cfg.nK \div KSplit
      s == b % KSplit
  IN  IF b < cfg.tiles * KSplit
      THEN {<<"mm", b \div KSplit, (s * kpc)..(s * kpc + kpc - 1)>>}
      ELSE {}

CubeWork(b) == IF Splitting THEN SplitWork(b)
               ELSE {<<"mm", t, KTile>> : t \in Chunk(cfg.tiles, b, NBlocks)}

VecWork(c) ==
  CASE phase[c] = "A" ->
         (IF ReadDirect0(cfg) THEN {} ELSE {"in0"} \X Chunk(Units, Lane(c), Lanes))
         \union
         (IF ReadDirect1(cfg) THEN {} ELSE {"in1"} \X Chunk(Units, Lane(c), Lanes))
    [] phase[c] = "C" -> {"out"} \X Chunk(cfg.tiles, Lane(c), Lanes)
    [] OTHER -> {}

Work(c) == IF c \in S!Vec THEN VecWork(c)
           ELSE IF phase[c] = "B" THEN CubeWork(c[1]) ELSE {}

\* What a unit of work touches in global memory.
Reads(u) ==
  CASE u[1] = "mm" ->
         (IF ReadDirect0(cfg) THEN {} ELSE {"ws0"} \X (0..(Units - 1)))
         \union (IF ReadDirect1(cfg) THEN {} ELSE {"ws1"} \X (0..(Units - 1)))
    [] u[1] = "out" -> {"wsRes"} \X Tile
    [] OTHER -> {}
Writes(u) ==
  CASE u[1] = "in0" -> {<<"ws0", u[2]>>}
    [] u[1] = "in1" -> {<<"ws1", u[2]>>}
    [] u[1] = "mm"  -> {<<IF OutDirect(cfg) THEN "res" ELSE "wsRes", u[2]>>}
    [] u[1] = "out" -> {<<"res", u[2]>>}

-----------------------------------------------------------------------------
Init == /\ cfg \in Configs
        /\ workspace = "none"
        /\ enqueued = 0
        /\ current = 0
        /\ phase = [c \in Core |-> "off"]
        /\ begun = [c \in Core |-> FALSE]
        /\ pending = [c \in Core |-> {}]
        /\ ws0 = [u \in 0..(Units - 1) |-> 0]
        /\ ws1 = [u \in 0..(Units - 1) |-> 0]
        /\ pad0 = FALSE
        /\ pad1 = FALSE
        /\ wsRes = [t \in Tile |-> Junk]
        /\ res = [n \in Launch |-> [t \in Tile |-> Junk]]
        /\ S!Init

\* The stream runs its launches in order: n is over when it has been started
\* and no core is still in it.
Idle == \A c \in Core : phase[c] = "off"
Over(n) == n < current \/ (n = current /\ Idle)

(***************************************************************************)
(* The host.                                                               *)
(***************************************************************************)

\* einsum_setup: allocate, zero the padded operand buffers, and wait for it.
\* Fresh memory holds no input, and junk where it was not zeroed.
Setup == /\ workspace = "none"
         /\ workspace' = "ready"
         /\ ws0' = [u \in DOMAIN ws0 |-> 0]
         /\ ws1' = [u \in DOMAIN ws1 |-> 0]
         /\ pad0' = Zero0(cfg)
         /\ pad1' = Zero1(cfg)
         /\ wsRes' = [t \in Tile |-> Junk]
         /\ UNCHANGED <<cfg, enqueued, current, phase, begun, pending, res, sync>>

\* run() and einsum_exec: allocate the output (zeroed for split-K, else
\* uninitialised) and enqueue the kernel, without waiting.
Exec == /\ workspace = "ready"
        /\ enqueued < MaxLaunches
        /\ enqueued' = enqueued + 1
        /\ res' = [res EXCEPT ![enqueued + 1] =
                     [t \in Tile |-> IF HostSplitK(cfg) THEN {} ELSE Junk]]
        /\ UNCHANGED <<cfg, workspace, current, phase, begun, pending,
                       ws0, ws1, pad0, pad1, wsRes, sync>>

\* The end of the one-shot einsum(): synchronise the stream, then free.
Teardown == /\ workspace = "ready"
            /\ Over(enqueued)
            /\ workspace' = "none"
            /\ UNCHANGED <<cfg, enqueued, current, phase, begun, pending, memory, sync>>

\* The stream (external): a launch starts when the previous one is over.
Start == /\ current < enqueued
         /\ Idle
         /\ current' = current + 1
         /\ phase' = [c \in Core |-> "A"]
         /\ begun' = [c \in Core |-> FALSE]
         /\ UNCHANGED <<cfg, workspace, enqueued, pending, memory, sync>>

(***************************************************************************)
(* The cores.                                                              *)
(***************************************************************************)

\* Issue the work of the phase to the pipelines.
Begin(c) == /\ phase[c] # "off"
            /\ ~begun[c]
            /\ pc[c] = "run"
            /\ begun' = [begun EXCEPT ![c] = TRUE]
            /\ pending' = [pending EXCEPT ![c] = Work(c)]
            /\ UNCHANGED <<cfg, host, phase, memory, sync>>

\* Is what a matmul reads the current launch's, and its padded tail zero?
Operand0Good == ReadDirect0(cfg) \/ (/\ \A u \in DOMAIN ws0 : ws0[u] = current
                                     /\ Padded0(cfg) => pad0)
Operand1Good == ReadDirect1(cfg) \/ (/\ \A u \in DOMAIN ws1 : ws1[u] = current
                                     /\ Padded1(cfg) => pad1)

Product(ks) == IF Operand0Good /\ Operand1Good THEN {current} \X ks ELSE Junk

\* TSTORE of a tile: atomic add under split-K, else overwrite.
Store(old, ks) == IF Splitting THEN Sum(old, Product(ks)) ELSE Product(ks)

\* A unit of work takes effect.
CopyInput(u) == /\ u[1] \in {"in0", "in1"}
                /\ ws0' = IF u[1] = "in0" THEN [ws0 EXCEPT ![u[2]] = current] ELSE ws0
                /\ ws1' = IF u[1] = "in1" THEN [ws1 EXCEPT ![u[2]] = current] ELSE ws1
                /\ UNCHANGED <<pad0, pad1, wsRes, res>>

MatmulTile(u) == /\ u[1] = "mm"
                 /\ IF OutDirect(cfg)
                    THEN /\ res' = [res EXCEPT ![current][u[2]] = Store(@, u[3])]
                         /\ UNCHANGED wsRes
                    ELSE /\ wsRes' = [wsRes EXCEPT ![u[2]] = Store(@, u[3])]
                         /\ UNCHANGED res
                 /\ UNCHANGED <<ws0, ws1, pad0, pad1>>

CopyOutput(u) == /\ u[1] = "out"
                 /\ res' = [res EXCEPT ![current][u[2]] =
                              IF \A t \in Tile : wsRes[t] = Complete(current)
                              THEN wsRes[u[2]] ELSE Junk]
                 /\ UNCHANGED <<ws0, ws1, pad0, pad1, wsRes>>

Finish(c) == \E u \in pending[c] :
               /\ pending' = [pending EXCEPT ![c] = @ \ {u}]
               /\ CopyInput(u) \/ MatmulTile(u) \/ CopyOutput(u)
               /\ UNCHANGED <<cfg, host, phase, begun, sync>>

\* The last phase of the kernel; it ends with the core's pipelines drained.
LastPhase == IF OutDirect(cfg) THEN "B" ELSE "C"

\* A slip: a core without work leaves the kernel before its barriers.
Exit_Empty(c) == /\ phase[c] = LastPhase \/ (phase[c] = "B" /\ Work(c) = {} /\ c \in S!Cube)
                 /\ begun[c]
                 /\ pending[c] = {}
                 /\ phase' = [phase EXCEPT ![c] = "off"]
                 /\ UNCHANGED <<cfg, host, begun, pending, memory, sync>>

Exit(c) == /\ phase[c] = LastPhase
           /\ begun[c]
           /\ pending[c] = {}
           /\ phase' = [phase EXCEPT ![c] = "off"]
           /\ UNCHANGED <<cfg, host, begun, pending, memory, sync>>

\* A slip: no second SyncAll before the output transpose.
Barrier_First(c) ==
  /\ phase[c] \notin {"off", LastPhase}
  /\ begun[c]
  /\ UNCHANGED <<cfg, host, pending, memory>>
  /\ IF phase[c] = "A" THEN S!CoreStep(c) ELSE UNCHANGED sync
  /\ LET back == phase[c] = "B" \/ left'[c] # left[c]
     IN  /\ phase' = [phase EXCEPT ![c] = IF ~back THEN @ ELSE IF @ = "A" THEN "B" ELSE "C"]
         /\ begun' = [begun EXCEPT ![c] = IF back THEN FALSE ELSE @]

\* A step of SyncAll; returning from it starts the next phase.
Barrier(c) == /\ phase[c] \notin {"off", LastPhase}
              /\ begun[c]
              /\ UNCHANGED <<cfg, host, pending, memory>>
              /\ S!CoreStep(c)
              /\ LET next == IF phase[c] = "A" THEN "B" ELSE "C"
                     back == left'[c] # left[c]
                 IN  /\ phase' = [phase EXCEPT ![c] = IF back THEN next ELSE @]
                     /\ begun' = [begun EXCEPT ![c] = IF back THEN FALSE ELSE @]

\* The FFTS unit.
Raise(f, c) == /\ UNCHANGED <<cfg, host, phase, begun, pending, memory>>
               /\ S!Raise(f, c)

Next == \/ Setup \/ Exec \/ Teardown \/ Start
        \/ \E c \in Core : Begin(c) \/ Finish(c) \/ Barrier(c) \/ Exit(c)
        \/ \E f \in S!Flag : \E c \in S!Waiter(f) : Raise(f, c)

Spec == Init /\ [][Next]_vars

\* The device makes progress; the host calls or does not.
Fairness == /\ WF_vars(Start)
            /\ \A c \in Core : WF_vars(Begin(c) \/ Finish(c) \/ Barrier(c) \/ Exit(c))
            /\ \A f \in S!Flag : \A c \in S!Waiter(f) : WF_vars(Raise(f, c))

FairSpec == Spec /\ Fairness

-----------------------------------------------------------------------------
(***************************************************************************)
(* Properties.                                                             *)
(***************************************************************************)
\* The types of the variables; what a core has pending is work of its phase.
\* FusedKernelProofs proves them (TypeCorrect).
TypeOK == /\ cfg \in Configs
          /\ workspace \in {"none", "ready"}
          /\ enqueued \in 0..MaxLaunches
          /\ current \in 0..enqueued
          /\ phase \in [Core -> {"off", "A", "B", "C"}]
          /\ begun \in [Core -> BOOLEAN]
          /\ \A c \in Core : pending[c] \subseteq Work(c)
          /\ ws0 \in [0..(Units - 1) -> 0..MaxLaunches]
          /\ ws1 \in [0..(Units - 1) -> 0..MaxLaunches]
          /\ pad0 \in BOOLEAN
          /\ pad1 \in BOOLEAN
          /\ wsRes \in [Tile -> SUBSET Term]
          /\ res \in [Launch -> [Tile -> SUBSET Term]]
          /\ S!TypeOK

\* No unit of work is unfinished on one core while another core has work that
\* writes what it reads or writes, whatever the phases the two are in; the
\* split-K adds to one tile are atomic and do not count.
Conflict(u, v) == /\ Writes(u) \intersect (Reads(v) \union Writes(v)) # {}
                  /\ ~(u[1] = "mm" /\ v[1] = "mm" /\ Splitting)

NoRace == \A c, d \in Core :
             c # d => \A u \in pending[c], v \in pending[d] : ~Conflict(u, v)

\* A launch that is over left in its output the whole contraction of its own
\* two inputs, each k-tile once, in every tile: nothing of an earlier launch's
\* workspace, of an uninitialised or unpadded buffer, or of a part of K only.
OutputRight == \A n \in Launch :
                  Over(n) => \A t \in Tile : res[n][t] = Complete(n)

\* Between two launches no flag is up and none is on its way, although the two
\* share the flag ids and nobody resets them, and whether the kernel was
\* compiled with one barrier or with two: no core of the next launch can be
\* released by what the last one left behind.
FlagsHandedOver == Idle => \A f \in S!Flag : \A c \in S!Waiter(f) :
                              /\ waited[f][c] = raised[f][c]
                              /\ \A d \in S!Group(f, c) : sent[f][d] = raised[f][c]

\* The kernel and its host side implement EinsumStream: results appear in the
\* order of the calls, right, and do not change any more (no straggling core).
Stream == INSTANCE EinsumStream WITH
  finished <- IF Idle THEN current ELSE current - 1,
  output   <- [n \in Launch |->
                 IF ~Over(n) THEN "open"
                 ELSE IF \A t \in Tile : res[n][t] = Complete(n) THEN "right"
                 ELSE "wrong"]
ImplementsStream == Stream!Spec

\* Every launch put on the stream gets over.
EveryLaunchEnds == \A n \in Launch : (enqueued >= n) ~> Over(n)
=============================================================================
