------------------------- MODULE FusedKernelProofs -------------------------
(***************************************************************************)
(* Proofs about FusedKernel for any number of blocks, launches, work units *)
(* and any configurations.                                                 *)
(***************************************************************************)
EXTENDS FusedKernel, Arithmetic, TLAPS

\* The theorems about SyncAll, for the kernel's use of it.
SP == INSTANCE SyncAllProofs WITH
        NRounds  <- 2 * MaxLaunches,
        inflight <- [c \in Block \X {"aic", "aiv0", "aiv1"} |-> pending[c] # {}]

-----------------------------------------------------------------------------
(***************************************************************************)
(* The inductive invariant: the phase a core is in fixes the rounds of     *)
(* SyncAll it has left (Place), and it has work in its pipelines only      *)
(* between issuing it and calling SyncAll (Local).                         *)
(***************************************************************************)
Rounds == IF OutDirect(cfg) THEN 1 ELSE 2

Types == /\ cfg \in Configs
         /\ current \in Nat
         /\ phase \in [Core -> {"off", "A", "B", "C"}]
         /\ begun \in [Core -> BOOLEAN]
         /\ pending = [c \in Core |-> pending[c]]
         /\ pc \in [Core -> S!PC]
         /\ left \in [Core -> Nat]

Place(c) == /\ phase[c] = "off" => left[c] = Rounds * current
            /\ phase[c] = "A" => left[c] = Rounds * (current - 1)
            /\ phase[c] = "B" => left[c] = Rounds * (current - 1) + 1
            /\ phase[c] = "C" => left[c] = Rounds * (current - 1) + 2
            /\ phase[c] = "C" => ~OutDirect(cfg)

Local(c) == /\ phase[c] = "off" => pending[c] = {} /\ pc[c] = "run"
            /\ phase[c] = LastPhase => pc[c] = "run"
            /\ ~begun[c] => pending[c] = {}
            /\ pc[c] # "run" => pending[c] = {} /\ begun[c]
            /\ pending[c] \subseteq Work(c)

KInv == Types /\ \A c \in Core : Place(c) /\ Local(c)

\* Cores of the kernel are those of the barrier, each either AIC or AIV.
LEMMA Cores == /\ Core = Block \X {"aic", "aiv0", "aiv1"}
               /\ SP!Core = Core /\ S!Cube = SP!Cube /\ S!Vec = SP!Vec
               /\ S!Cube \subseteq Core /\ S!Vec \subseteq Core
               /\ \A c \in Core : c \in S!Cube \/ c \in S!Vec
               /\ \A c \in S!Cube : c \notin S!Vec
BY DEF Core, S!Core, S!Unit, S!Cube, S!Vec, SP!Core, SP!Unit, SP!Cube, SP!Vec

\* The barrier's own assumption, for the rounds of all launches together.
LEMMA RoundsNat == 2 * MaxLaunches \in Nat
BY ConstantsAssumption

\* A step of SyncAll moves its own core only; the call drains the core's
\* pipelines, and the return is counted.
LEMMA CoreSteps ==
  ASSUME Types, NEW c \in Core, S!CoreStep(c)
  PROVE  /\ pc' \in [Core -> S!PC]
         /\ \A d \in Core \ {c} : pc'[d] = pc[d]
         /\ pc[c] = "run" => pending[c] = {} /\ left' = left
         /\ \/ left' = left
            \/ left' = [left EXCEPT ![c] = @ + 1] /\ pc'[c] = "run"
<1> USE Cores DEF Types, S!PC, S!Goto
<1>1. CASE S!Arrive(c)
  <2>1. ~[d \in Block \X {"aic", "aiv0", "aiv1"} |-> pending[d] # {}][c]
    BY <1>1 DEF S!Arrive, S!PipeBarrierAll
  <2> QED
    BY <1>1, <2>1 DEF S!Arrive
<1>2. CASE S!WaitAiv(c) \/ S!SyncAic(c) \/ S!WaitAic(c) \/ S!SyncAiv(c)
  BY <1>2 DEF S!WaitAiv, S!SyncAic, S!WaitAic, S!SyncAiv
<1>3. CASE S!SyncAicAiv(c) \/ S!WaitAicAiv(c)
  BY <1>3 DEF S!SyncAicAiv, S!WaitAicAiv, S!Return
<1> QED
  BY <1>1, <1>2, <1>3 DEF S!CoreStep

\* The work of a core changes with its phase only.
LEMMA WorkSame ==
  ASSUME NEW c \in Core, cfg' = cfg, phase'[c] = phase[c]
  PROVE  Work(c)' = Work(c)
BY DEF Work, VecWork, CubeWork, Splitting, SplitWork, KSplit, KTile

\* Nothing has been started, and every core is out of the kernel.
LEMMA KInit == Init => KInv
BY Cores, ConstantsAssumption
   DEF Init, S!Init, KInv, Types, Place, Local, LastPhase, Rounds, S!PC

\* The invariant holds of a core that a step leaves alone.
LEMMA Kept ==
  ASSUME NEW c \in Core, Place(c), Local(c), cfg' = cfg, current' = current,
         phase'[c] = phase[c], begun'[c] = begun[c], pending'[c] = pending[c],
         pc'[c] = pc[c], left'[c] = left[c]
  PROVE  Place(c)' /\ Local(c)'
<1>1. Work(c)' = Work(c)
  BY WorkSame
<1> QED
  BY <1>1 DEF Place, Local, Rounds, LastPhase

\* Every step of the host, the stream and the cores preserves it.
LEMMA KStep ==
  ASSUME KInv, [Next]_vars
  PROVE  KInv'
<1> USE DEF KInv
<1>1. CASE Setup \/ Exec \/ Teardown \/ UNCHANGED vars
  BY <1>1, Kept DEF Setup, Exec, Teardown, vars, host, memory, sync, Types
<1>2. CASE Start
  <2> USE <1>2 DEF Start, sync
  <2>1. Types'
    BY DEF Types
  <2>2. ASSUME NEW c \in Core
        PROVE  Place(c)' /\ Local(c)'
    <3>1. phase[c] = "off" /\ phase'[c] = "A"
      BY DEF Idle, Types
    <3>2. Place(c)'
      BY <3>1 DEF Place, Rounds, Types
    <3>3. pending'[c] = {} /\ pc'[c] = "run"
      BY <3>1 DEF Local
    <3>4. Local(c)'
      BY <3>1, <3>3 DEF Local, LastPhase
    <3> QED
      BY <3>2, <3>4
  <2> QED
    BY <2>1, <2>2
<1>3. ASSUME NEW c \in Core, Begin(c)
      PROVE  KInv'
  <2> USE <1>3 DEF Begin, host, memory, sync
  <2>1. Work(c)' = Work(c)
    BY WorkSame
  <2>2. Types'
    BY DEF Types
  <2>3. \A d \in Core \ {c} : Place(d)' /\ Local(d)'
    BY Kept DEF Types
  <2>4. Place(c)' /\ Local(c)'
    BY <2>1 DEF Types, Place, Local, Rounds, LastPhase
  <2> QED
    BY <2>2, <2>3, <2>4
<1>4. ASSUME NEW c \in Core, Finish(c)
      PROVE  KInv'
  <2> USE <1>4 DEF Finish, host, sync
  <2>1. Work(c)' = Work(c)
    BY WorkSame
  <2>2. Types'
    BY DEF Types
  <2>3. \A d \in Core \ {c} : Place(d)' /\ Local(d)'
    BY Kept DEF Types
  <2>4. Place(c)' /\ Local(c)'
    BY <2>1 DEF Types, Place, Local, Rounds, LastPhase
  <2> QED
    BY <2>2, <2>3, <2>4
<1>5. ASSUME NEW c \in Core, Barrier(c)
      PROVE  KInv'
  <2> USE <1>5 DEF Barrier, host, memory
  <2>1. S!CoreStep(c)
    OBVIOUS
  <2>2. Types'
    BY <2>1, CoreSteps DEF Types
  <2>3. \A d \in Core \ {c} : Place(d)' /\ Local(d)'
    BY <2>1, CoreSteps, Kept DEF Types
  <2>4. CASE left' = left
    <3>1. Work(c)' = Work(c)
      BY <2>4, WorkSame DEF Types
    <3> QED
      BY <2>1, <2>2, <2>3, <2>4, <3>1, CoreSteps DEF Types, Place, Local, Rounds, LastPhase
  <2>5. CASE left' # left
    <3>1. /\ left' = [left EXCEPT ![c] = @ + 1] /\ pc'[c] = "run"
          /\ pc[c] # "run" /\ pending[c] = {}
      BY <2>1, <2>5, CoreSteps DEF Types, Local
    <3>2. left'[c] # left[c]
      BY <3>1 DEF Types
    <3>3. /\ phase' = [phase EXCEPT ![c] = IF phase[c] = "A" THEN "B" ELSE "C"]
          /\ begun'[c] = FALSE
      BY <3>2 DEF Types
    <3>4. phase[c] = "A" \/ (phase[c] = "B" /\ ~OutDirect(cfg))
      BY DEF Types, LastPhase, Place
    <3>5. Place(c)'
      BY <3>1, <3>3, <3>4 DEF Types, Place, Rounds
    <3>6. Local(c)'
      BY <3>1, <3>3, <3>4 DEF Types, Local
    <3> QED
      BY <2>2, <2>3, <3>5, <3>6
  <2> QED
    BY <2>4, <2>5
<1>6. ASSUME NEW c \in Core, Exit(c)
      PROVE  KInv'
  <2> USE <1>6 DEF Exit, host, memory, sync
  <2>1. Types'
    BY DEF Types
  <2>2. \A d \in Core \ {c} : Place(d)' /\ Local(d)'
    BY Kept DEF Types
  <2>3. Place(c)' /\ Local(c)'
    BY DEF Types, Place, Local, Rounds, LastPhase
  <2> QED
    BY <2>1, <2>2, <2>3
<1>7. ASSUME NEW f \in S!Flag, NEW c \in S!Waiter(f), Raise(f, c)
      PROVE  KInv'
  BY <1>7, Kept DEF Raise, S!Raise, S!core, host, memory, Types
<1> QED
  BY <1>1, <1>2, <1>3, <1>4, <1>5, <1>6, <1>7 DEF Next

\* The cores' places and works, in every state of the kernel.
THEOREM Invariance == Spec => []KInv
<1>1. KInv /\ [Next]_vars => KInv'
  BY KStep
<1> QED
  BY <1>1, KInit, PTL DEF Spec

-----------------------------------------------------------------------------
\* The kernel begins with the barrier's initial state.
LEMMA SyncInit == Init => SP!Init
BY DEF Init, S!Init, SP!Init, Core, S!Core, S!Unit, S!Flag, SP!Core, SP!Unit, SP!Flag

\* Issuing the first unit of work and finishing the last one are the barrier's
\* Issue and Finish; what the host does, the barrier does not notice.
LEMMA SyncStep ==
  ASSUME KInv, [Next]_vars
  PROVE  [SP!Next]_SP!vars
<1> DEFINE Busy == [c \in Block \X {"aic", "aiv0", "aiv1"} |-> pending[c] # {}]
<1> USE DEF KInv, Types
<1>1. CASE Setup \/ Exec \/ Teardown \/ Start \/ UNCHANGED vars
  BY <1>1 DEF Setup, Exec, Teardown, Start, vars, sync, SP!vars
<1>2. ASSUME NEW c \in Core, Begin(c)
      PROVE  [SP!Next]_SP!vars
  <2>1. CASE Work(c) = {}
    <3>1. pending' = pending
      BY <1>2, <2>1 DEF Begin, Local
    <3> QED
      BY <1>2, <3>1 DEF Begin, sync, SP!vars
  <2>2. CASE Work(c) # {}
    <3>1. ~Busy[c] /\ Busy' = [Busy EXCEPT ![c] = TRUE]
      BY <1>2, <2>2, Cores DEF Begin, Local
    <3>2. SP!Issue(c)
      BY <1>2, <3>1 DEF Begin, sync, SP!Issue, SP!core
    <3> QED
      BY <3>2, Cores DEF SP!Next
  <2> QED
    BY <2>1, <2>2
<1>3. ASSUME NEW c \in Core, Finish(c)
      PROVE  [SP!Next]_SP!vars
  <2>1. Busy[c]
    BY <1>3, Cores DEF Finish
  <2>2. CASE pending'[c] = {}
    <3>1. Busy' = [Busy EXCEPT ![c] = FALSE]
      BY <1>3, <2>2, Cores DEF Finish
    <3>2. SP!Finish(c)
      BY <1>3, <2>1, <3>1 DEF Finish, sync, SP!Finish, SP!core
    <3> QED
      BY <3>2, Cores DEF SP!Next
  <2>3. CASE pending'[c] # {}
    <3>1. Busy' = Busy
      BY <1>3, <2>1, <2>3, Cores DEF Finish
    <3> QED
      BY <1>3, <3>1 DEF Finish, sync, SP!vars
  <2> QED
    BY <2>2, <2>3
<1>4. ASSUME NEW c \in Core, Barrier(c)
      PROVE  [SP!Next]_SP!vars
  <2>1. S!CoreStep(c)
    BY <1>4 DEF Barrier
  <2>2. SP!CoreStep(c)
    <3> USE Cores DEF S!Goto, SP!Goto, SP!CoreStep
    <3>1. CASE S!Arrive(c)
      BY <3>1 DEF S!Arrive, S!PipeBarrierAll, SP!Arrive, SP!PipeBarrierAll
    <3>2. CASE S!WaitAiv(c)
      BY <3>2 DEF S!WaitAiv, S!WaitFlag, SP!WaitAiv, SP!WaitFlag
    <3>3. CASE S!SyncAic(c)
      BY <3>3 DEF S!SyncAic, S!Signal, SP!SyncAic, SP!Signal
    <3>4. CASE S!WaitAic(c)
      BY <3>4 DEF S!WaitAic, S!WaitFlag, SP!WaitAic, SP!WaitFlag
    <3>5. CASE S!SyncAicAiv(c)
      BY <3>5 DEF S!SyncAicAiv, S!Signal, S!Return, SP!SyncAicAiv, SP!Signal, SP!Return
    <3>6. CASE S!SyncAiv(c)
      BY <3>6 DEF S!SyncAiv, S!Signal, SP!SyncAiv, SP!Signal
    <3>7. CASE S!WaitAicAiv(c)
      BY <3>7 DEF S!WaitAicAiv, S!WaitFlag, S!Return, SP!WaitAicAiv, SP!WaitFlag, SP!Return
    <3> QED
      BY <2>1, <3>1, <3>2, <3>3, <3>4, <3>5, <3>6, <3>7 DEF S!CoreStep
  <2> QED
    BY <2>2, Cores DEF SP!Next
<1>5. ASSUME NEW c \in Core, Exit(c)
      PROVE  [SP!Next]_SP!vars
  BY <1>5 DEF Exit, sync, SP!vars
<1>6. ASSUME NEW f \in S!Flag, NEW c \in S!Waiter(f), Raise(f, c)
      PROVE  [SP!Next]_SP!vars
  <2>1. f \in SP!Flag /\ c \in SP!Waiter(f)
    BY Cores DEF S!Flag, SP!Flag, S!Waiter, SP!Waiter
  <2>2. SP!Raise(f, c)
    BY <1>6, Cores
       DEF Raise, S!Raise, SP!Raise, S!Group, SP!Group, S!core, SP!core
  <2> QED
    BY <2>1, <2>2 DEF SP!Next
<1> QED
  BY <1>1, <1>2, <1>3, <1>4, <1>5, <1>6 DEF Next

(***************************************************************************)
(* The fused kernel uses the barrier as SyncAll describes: every theorem   *)
(* about SyncAll is one about the kernel.                                  *)
(***************************************************************************)
THEOREM UsesSyncAll == Spec => SP!Spec
<1>1. KInv /\ [Next]_vars => [SP!Next]_SP!vars
  BY SyncStep
<1> QED
  BY <1>1, SyncInit, Invariance, PTL DEF Spec, SP!Spec

-----------------------------------------------------------------------------
\* Chunks of different lanes do not overlap.
LEMMA ChunksApart ==
  ASSUME NEW total \in Nat, NEW n \in Nat \ {0}, NEW a \in Nat, NEW b \in Nat, a # b
  PROVE  Chunk(total, a, n) \intersect Chunk(total, b, n) = {}
<1> DEFINE chunk == (total + n - 1) \div n
           span(i) == (i * chunk)..((IF i * chunk + chunk < total
                                     THEN i * chunk + chunk ELSE total) - 1)
<1>1. chunk \in Nat
  OBVIOUS
<1>2. Chunk(total, a, n) = span(a) /\ Chunk(total, b, n) = span(b)
  BY DEF Chunk
<1> HIDE DEF chunk
<1>3. a * chunk \in Nat /\ b * chunk \in Nat
  BY <1>1
<1>4. a * chunk + chunk <= b * chunk \/ b * chunk + chunk <= a * chunk
  BY <1>1, SpansApart
<1>5. span(a) \intersect span(b) = {}
  BY <1>1, <1>3, <1>4
<1> QED
  BY <1>2, <1>5

\* Two Vector cores are two lanes.
LEMMA LanesApart ==
  ASSUME NEW c \in S!Vec, NEW d \in S!Vec, c # d
  PROVE  Lane(c) \in Nat /\ Lane(d) \in Nat /\ Lane(c) # Lane(d)
BY ConstantsAssumption DEF Lane, S!Vec, Block

\* Cores with work in their pipelines are in the same phase of a launch: each
\* has called SyncAll as often as it has returned, and no other more often.
LEMMA SamePhase ==
  ASSUME KInv, SP!IInv, SP!BarrierSafe, NEW c \in Core, NEW d \in Core,
         pending[c] # {}, pending[d] # {}
  PROVE  phase[c] = phase[d] /\ phase[c] \in {"A", "B", "C"}
<1>1. ASSUME NEW e \in Core, pending[e] # {}
      PROVE  arrived[e] = left[e] /\ phase[e] \in {"A", "B", "C"}
  BY <1>1, Cores
     DEF KInv, Types, Local, SP!IInv, SP!CubeCounts, SP!VecCounts, SP!Ahead
<1>2. left[c] = left[d]
  <2>1. left[c] <= left[d] /\ left[d] <= left[c]
    BY <1>1, Cores DEF SP!BarrierSafe
  <2> QED
    BY <2>1 DEF KInv, Types
<1> QED
  BY <1>1, <1>2 DEF KInv, Types, Place, Rounds

\* Within a phase, cores share nothing but the tiles that they add to.
LEMMA SameVecPhase ==
  ASSUME KInv, NEW c \in S!Vec, NEW d \in S!Vec, c # d, phase[c] = phase[d],
         NEW u \in VecWork(c), NEW v \in VecWork(d)
  PROVE  ~Conflict(u, v)
<1> USE ConstantsAssumption
<1>1. Lanes \in Nat \ {0} /\ cfg.tiles \in Nat
  BY DEF Lanes, KInv, Types, ConfigT
<1>2. /\ Chunk(Units, Lane(c), Lanes) \intersect Chunk(Units, Lane(d), Lanes) = {}
      /\ Chunk(cfg.tiles, Lane(c), Lanes) \intersect Chunk(cfg.tiles, Lane(d), Lanes) = {}
  BY <1>1, LanesApart, ChunksApart
<1>3. CASE phase[c] = "A"
  <2>1. /\ u \in {"in0", "in1"} \X Chunk(Units, Lane(c), Lanes)
        /\ v \in {"in0", "in1"} \X Chunk(Units, Lane(d), Lanes)
    BY <1>3 DEF VecWork
  <2>2. Writes(u) \intersect Writes(v) = {} /\ Reads(v) = {}
    BY <1>2, <2>1 DEF Writes, Reads
  <2> QED
    BY <2>2 DEF Conflict
<1>4. CASE phase[c] = "C"
  <2>1. /\ u \in {"out"} \X Chunk(cfg.tiles, Lane(c), Lanes)
        /\ v \in {"out"} \X Chunk(cfg.tiles, Lane(d), Lanes)
    BY <1>4 DEF VecWork
  <2>2. Writes(u) \intersect (Reads(v) \union Writes(v)) = {}
    BY <1>2, <2>1 DEF Writes, Reads
  <2> QED
    BY <2>2 DEF Conflict
<1>5. CASE phase[c] \notin {"A", "C"}
  BY <1>5 DEF VecWork
<1> QED
  BY <1>3, <1>4, <1>5

\* What two blocks' Cube cores multiply does not conflict: disjoint tiles, or
\* slices of one tile that are added atomically.
LEMMA SameCubePhase ==
  ASSUME KInv, NEW b \in Block, NEW d \in Block, b # d,
         NEW u \in CubeWork(b), NEW v \in CubeWork(d)
  PROVE  ~Conflict(u, v)
<1> USE ConstantsAssumption
<1>1. cfg.tiles \in Nat /\ b \in Nat /\ d \in Nat
  BY DEF KInv, Types, ConfigT, Block
<1>2. Chunk(cfg.tiles, b, NBlocks) \intersect Chunk(cfg.tiles, d, NBlocks) = {}
  BY <1>1, ChunksApart
<1>3. CASE Splitting
  <2>1. u[1] = "mm" /\ v[1] = "mm"
    BY <1>3 DEF CubeWork, SplitWork
  <2> QED
    BY <1>3, <2>1 DEF Conflict
<1>4. CASE ~Splitting
  <2>1. PICK t \in Chunk(cfg.tiles, b, NBlocks) : u = <<"mm", t, KTile>>
    BY <1>4 DEF CubeWork
  <2>2. PICK s \in Chunk(cfg.tiles, d, NBlocks) : v = <<"mm", s, KTile>>
    BY <1>4 DEF CubeWork
  <2>3. Writes(u) \intersect (Reads(v) \union Writes(v)) = {}
    BY <1>2, <2>1, <2>2 DEF Writes, Reads
  <2> QED
    BY <2>3 DEF Conflict
<1> QED
  BY <1>3, <1>4

\* The barrier keeps cores with unfinished work in one phase, and within a
\* phase their work is apart: the code has no race over global memory.
LEMMA NoConflict == KInv /\ SP!IInv /\ SP!BarrierSafe => NoRace
<1> SUFFICES ASSUME KInv, SP!IInv, SP!BarrierSafe, NEW c \in Core, NEW d \in Core, c # d,
                    NEW u \in pending[c], NEW v \in pending[d]
             PROVE  ~Conflict(u, v)
  BY DEF NoRace
<1>1. phase[c] = phase[d] /\ phase[c] \in {"A", "B", "C"}
  BY SamePhase
<1>2. u \in Work(c) /\ v \in Work(d)
  BY DEF KInv, Local
<1>3. CASE c \in S!Vec /\ d \in S!Vec
  BY <1>1, <1>2, <1>3, SameVecPhase DEF Work
<1>4. CASE c \in S!Cube /\ d \in S!Cube
  <2>1. c[1] \in Block /\ d[1] \in Block /\ c[1] # d[1]
    BY <1>4 DEF S!Cube
  <2>2. u \in CubeWork(c[1]) /\ v \in CubeWork(d[1])
    BY <1>2, <1>4, Cores DEF Work
  <2> QED
    BY <2>1, <2>2, SameCubePhase
<1>5. CASE (c \in S!Vec /\ d \in S!Cube) \/ (c \in S!Cube /\ d \in S!Vec)
  <2>1. phase[c] = "B" /\ phase[c] # "B"
    BY <1>1, <1>2, <1>5, Cores DEF Work, VecWork
  <2> QED
    BY <2>1
<1> QED
  BY <1>3, <1>4, <1>5, Cores

(***************************************************************************)
(* No two cores ever have unfinished work of which one writes what the     *)
(* other reads or writes, however many blocks and launches there are.      *)
(***************************************************************************)
THEOREM RaceFree == Spec => []NoRace
<1>1. SP!Spec => []SP!IInv
  BY SP!Invariance, RoundsNat
<1>2. SP!Spec => []SP!BarrierSafe
  BY SP!BarrierSafety, RoundsNat
<1> QED
  BY <1>1, <1>2, UsesSyncAll, Invariance, NoConflict, PTL

(***************************************************************************)
(* Between two launches the FFTS unit is empty, whatever the number of     *)
(* blocks and launches: cores that are off have all left the same round.   *)
(***************************************************************************)
THEOREM FlagsAlwaysHandedOver == Spec => []FlagsHandedOver
<1>1. SP!Spec => []SP!FlagsClean
  BY SP!FlagsLeftClean, RoundsNat
<1>2. KInv /\ SP!FlagsClean => FlagsHandedOver
  <2> SUFFICES ASSUME KInv, SP!FlagsClean, Idle
               PROVE  FlagsHandedOver
    BY DEF FlagsHandedOver
  <2>1. \A c, d \in SP!Core : pc[c] = "run" /\ left[c] = left[d]
    BY Cores DEF KInv, Place, Local, Idle
  <2> QED
    BY <2>1 DEF SP!FlagsClean, FlagsHandedOver, S!Flag, SP!Flag, S!Waiter, SP!Waiter,
                S!Group, SP!Group, S!Cube, SP!Cube, S!Vec, SP!Vec
<1> QED
  BY <1>1, <1>2, UsesSyncAll, Invariance, PTL

-----------------------------------------------------------------------------
(***************************************************************************)
(* The output: every launch's output holds the whole contraction of its    *)
(* own inputs once it is over.                                             *)
(***************************************************************************)

(***************************************************************************)
(* The work of a core in each of the three phases.                         *)
(***************************************************************************)
PhaseWork(c, p) ==
  CASE p = "A" /\ c \in S!Vec ->
         (IF ReadDirect0(cfg) THEN {} ELSE {"in0"} \X Chunk(Units, Lane(c), Lanes))
         \union
         (IF ReadDirect1(cfg) THEN {} ELSE {"in1"} \X Chunk(Units, Lane(c), Lanes))
    [] p = "B" /\ c \in S!Cube -> CubeWork(c[1])
    [] p = "C" /\ c \in S!Vec -> {"out"} \X Chunk(cfg.tiles, Lane(c), Lanes)
    [] OTHER -> {}

\* The work a core issues is the work of its phase.
LEMMA WorkIsPhaseWork == \A c \in Core : Work(c) = PhaseWork(c, phase[c])
BY Cores DEF Work, VecWork, PhaseWork

-----------------------------------------------------------------------------
(***************************************************************************)
(* The split of the work covers it.                                        *)
(***************************************************************************)

\* Every unit is in some lane's chunk.
LEMMA ChunksCover ==
  ASSUME NEW total \in Nat, NEW n \in Nat \ {0}, NEW x \in 0..(total - 1)
  PROVE  \E who \in 0..(n - 1) : x \in Chunk(total, who, n)
<1> DEFINE chunk == (total + n - 1) \div n
<1>1. chunk \in Nat /\ chunk * n >= total
  OBVIOUS
<1>2. chunk # 0
  BY <1>1
<1>3. \A who \in Nat : Chunk(total, who, n) =
          (who * chunk)..((IF who * chunk + chunk < total
                           THEN who * chunk + chunk ELSE total) - 1)
  BY DEF Chunk
<1> HIDE DEF chunk
<1> DEFINE who == x \div chunk
<1>4. chunk \in Positive /\ x \in Nat
  BY <1>1, <1>2 DEF Positive
<1>5. who \in Nat /\ x % chunk \in 0..(chunk - 1) /\ x = who * chunk + (x % chunk)
  BY <1>4, Quotient, Division
<1> HIDE DEF who
<1>6. who * chunk \in Nat
  BY <1>4, <1>5 DEF Positive
<1>7. who * chunk <= x /\ x < who * chunk + chunk
  BY <1>4, <1>5, <1>6 DEF Positive
<1>8. x \in Chunk(total, who, n)
  <2> DEFINE from == who * chunk
  <2>1. Chunk(total, who, n) =
          from..((IF from + chunk < total THEN from + chunk ELSE total) - 1)
    BY <1>3, <1>5
  <2>2. from \in Nat /\ from <= x /\ x < from + chunk
    BY <1>6, <1>7
  <2> HIDE DEF from
  <2> QED
    BY <2>1, <2>2, <1>4 DEF Positive
<1>9. who < n
  <2>1. SUFFICES ASSUME who >= n PROVE FALSE
    BY <1>5
  <2>2. who * chunk >= n * chunk
    <3>1. CASE who = n
      BY <3>1, <1>4, <1>5 DEF Positive
    <3>2. CASE n < who
      BY <3>2, <1>4, <1>5, SpansApart DEF Positive
    <3> QED
      BY <2>1, <3>1, <3>2, <1>5
  <2> QED
    <3>1. n * chunk = chunk * n /\ chunk * n \in Nat
      BY <1>4 DEF Positive
    <3>2. who * chunk >= total
      BY <2>2, <3>1, <1>1, <1>6
    <3> QED
      BY <3>2, <1>6, <1>7
<1> QED
  BY <1>5, <1>8, <1>9

\* Every lane is a Vector core.
LEMMA LanesAreCores ==
  ASSUME NEW who \in 0..(Lanes - 1)
  PROVE  \E c \in S!Vec : Lane(c) = who
<1> DEFINE b == who \div 2
           u == IF who % 2 = 1 THEN "aiv1" ELSE "aiv0"
<1> USE ConstantsAssumption
<1>1. b \in Block
  BY DEF Lanes, Block
<1>2. <<b, u>> \in S!Vec
  BY <1>1 DEF S!Vec
<1>3. Lane(<<b, u>>) = b * 2 + (who % 2)
  <2>1. who % 2 \in {0, 1}
    BY DEF Lanes
  <2>2. CASE who % 2 = 1
    BY <2>2 DEF Lane
  <2>3. CASE who % 2 = 0
    BY <2>3 DEF Lane
  <2> QED
    BY <2>1, <2>2, <2>3
<1>4. who = b * 2 + (who % 2)
  BY DEF Lanes
<1> QED
  BY <1>2, <1>3, <1>4

\* How split-K shares the contraction: KSplit slices of equal length cover it,
\* and there is a block for every slice of every tile.
LEMMA KSplitDivides ==
  ASSUME Splitting, cfg \in ConfigT
  PROVE  /\ KSplit \in Nat /\ KSplit >= 2 /\ cfg.nK % KSplit = 0
         /\ cfg.tiles * KSplit <= NBlocks
<1> USE ConstantsAssumption DEF ConfigT
<1> DEFINE share == NBlocks \div cfg.tiles
           most == Min({share, cfg.nK})
           T == {0} \union {k \in 1..most : cfg.nK % k = 0}
<1>1. share \in Nat /\ share * cfg.tiles <= NBlocks
  <2>1. NBlocks \in Nat /\ cfg.tiles \in Positive
    BY DEF Positive
  <2>2. share \in Nat
    BY <2>1, Quotient
  <2>3. share * cfg.tiles <= NBlocks
    BY <2>1, <2>2, FactorFits
  <2> QED
    BY <2>2, <2>3
<1>2. most \in Nat /\ most <= share
  <2>1. \E x \in {share, cfg.nK} : \A y \in {share, cfg.nK} : x <= y
    BY <1>1
  <2>2. most \in {share, cfg.nK} /\ \A y \in {share, cfg.nK} : most <= y
    BY <2>1 DEF Min
  <2> QED
    BY <1>1, <2>2
<1>3. KSplit = Max(T)
  BY DEF KSplit
<1> HIDE DEF most
<1>4. T \in SUBSET Nat /\ T # {} /\ \A x \in T : x <= most
  BY <1>2
<1>5. \E x \in T : \A y \in T : x >= y
  <2> HIDE DEF T
  <2>1. \E x \in T : \A y \in T : y <= x
    BY <1>2, <1>4, LargestExists
  <2> QED
    BY <2>1, <1>4
<1>6. KSplit \in T
  <2> HIDE DEF T
  <2> QED
    BY <1>3, <1>5 DEF Max
<1>7. KSplit >= 2
  BY DEF Splitting
<1>8. KSplit \in Nat /\ KSplit <= most /\ cfg.nK % KSplit = 0
  BY <1>2, <1>6, <1>7
<1>9. cfg.tiles * KSplit <= NBlocks
  <2>1. KSplit <= share
    BY <1>1, <1>2, <1>8
  <2>2. share * cfg.tiles = cfg.tiles * share
    BY <1>1
  <2>3. cfg.tiles * KSplit <= cfg.tiles * share
    <3> HIDE DEF share
    <3> QED
      BY <1>1, <1>8, <2>1
  <2> QED
    <3>1. cfg.tiles * KSplit \in Nat /\ cfg.tiles * share \in Nat
      <4> HIDE DEF share
      <4> QED
        BY <1>1, <1>8
    <3> HIDE DEF share
    <3> QED
      BY <1>1, <2>2, <2>3, <3>1
<1> QED
  BY <1>7, <1>8, <1>9

\* A chunk is part of the whole.
LEMMA ChunksInside ==
  ASSUME NEW total \in Nat, NEW n \in Nat \ {0}, NEW who \in Nat
  PROVE  Chunk(total, who, n) \subseteq 0..(total - 1)
<1> DEFINE chunk == (total + n - 1) \div n
           from == who * chunk
<1>1. chunk \in Nat
  OBVIOUS
<1>2. Chunk(total, who, n) =
        from..((IF from + chunk < total THEN from + chunk ELSE total) - 1)
  BY DEF Chunk
<1> HIDE DEF chunk
<1>3. from \in Nat
  BY <1>1
<1> HIDE DEF from
<1> QED
  BY <1>1, <1>2, <1>3

\* The slice of a tile's contraction that a block takes.
Slice(b) == LET kpc == cfg.nK \div KSplit
                s == b % KSplit
            IN  (s * kpc)..(s * kpc + kpc - 1)

\* A block's split-K work in terms of its slice of k-tiles.
LEMMA SliceWork ==
  ASSUME NEW b \in Block
  PROVE  SplitWork(b) = IF b < cfg.tiles * KSplit
                        THEN {<<"mm", b \div KSplit, Slice(b)>>} ELSE {}
BY DEF SplitWork, Slice

\* Slices have one length and there is no remainder: ksplit divides nK.
LEMMA SliceLength ==
  ASSUME Splitting, cfg \in ConfigT
  PROVE  /\ cfg.nK \div KSplit \in Positive
         /\ cfg.nK = KSplit * (cfg.nK \div KSplit)
<1> DEFINE kpc == cfg.nK \div KSplit
<1>1. KSplit \in Positive /\ cfg.nK \in Positive /\ cfg.nK % KSplit = 0
  BY KSplitDivides DEF ConfigT, Positive
<1>2. kpc \in Nat /\ cfg.nK = kpc * KSplit + 0
  BY <1>1, Quotient, Division DEF Positive
<1> HIDE DEF kpc
<1>3. kpc # 0
  BY <1>1, <1>2 DEF Positive
<1>4. kpc * KSplit = KSplit * kpc /\ kpc * KSplit \in Nat
  BY <1>1, <1>2 DEF Positive
<1> QED
  BY <1>2, <1>3, <1>4 DEF kpc, Positive

\* A block's tile is one of the tiles, and its slice part of the contraction.
LEMMA SliceInside ==
  ASSUME Splitting, cfg \in ConfigT, NEW b \in Block, b < cfg.tiles * KSplit
  PROVE  b \div KSplit \in Tile /\ Slice(b) \subseteq KTile
<1> USE ConstantsAssumption
<1> DEFINE kpc == cfg.nK \div KSplit
           s == b % KSplit
           t == b \div KSplit
<1>1. KSplit \in Positive /\ b \in Nat /\ cfg.tiles \in Positive
  BY KSplitDivides DEF Block, ConfigT, Positive
<1>2. kpc \in Positive /\ cfg.nK = KSplit * kpc
  BY SliceLength
<1>3. s \in 0..(KSplit - 1) /\ t \in Nat /\ t * KSplit <= b
  BY <1>1, Quotient, FactorFits
<1>4. Slice(b) = (s * kpc)..(s * kpc + kpc - 1)
  BY DEF Slice
<1> HIDE DEF kpc, s, t
<1>5. t < cfg.tiles
  <2> SUFFICES ASSUME t >= cfg.tiles PROVE FALSE
    BY <1>1, <1>3 DEF Positive
  <2>1. t * KSplit >= cfg.tiles * KSplit
    <3>1. CASE t = cfg.tiles
      BY <1>1, <3>1 DEF Positive
    <3>2. CASE cfg.tiles < t
      <4>1. cfg.tiles * KSplit + KSplit <= t * KSplit
        BY <1>1, <1>3, <3>2, SpansApart DEF Positive
      <4>2. cfg.tiles * KSplit \in Nat /\ t * KSplit \in Nat
        BY <1>1, <1>3 DEF Positive
      <4> QED
        BY <1>1, <4>1, <4>2 DEF Positive
    <3> QED
      BY <1>1, <1>3, <3>1, <3>2 DEF Positive
  <2>2. cfg.tiles * KSplit \in Nat /\ t * KSplit \in Nat
    BY <1>1, <1>3 DEF Positive
  <2> QED
    BY <1>1, <1>3, <2>1, <2>2
<1>6. s * kpc \in Nat /\ s * kpc + kpc <= cfg.nK
  <2>1. s \in Nat /\ s < KSplit
    BY <1>1, <1>3 DEF Positive
  <2>2. s * kpc + kpc <= KSplit * kpc
    BY <1>1, <1>2, <2>1, SpansApart DEF Positive
  <2> QED
    BY <1>2, <2>1, <2>2 DEF Positive
<1>7. cfg.nK \in Nat
  BY DEF ConfigT
<1>8. b \div KSplit \in Tile
  BY <1>1, <1>3, <1>5 DEF Tile, t, Positive
<1>9. Slice(b) \subseteq KTile
  <2> DEFINE from == s * kpc
  <2>1. from \in Nat /\ from + kpc <= cfg.nK
    BY <1>6
  <2>2. Slice(b) = from..(from + kpc - 1)
    BY <1>4
  <2> HIDE DEF from
  <2> QED
    BY <1>2, <1>7, <2>1, <2>2 DEF KTile, Positive
<1> QED
  BY <1>8, <1>9

\* Blocks that share a tile take different parts of its contraction.
LEMMA SlicesApart ==
  ASSUME Splitting, cfg \in ConfigT, NEW b \in Block, NEW d \in Block, b # d,
         b \div KSplit = d \div KSplit
  PROVE  Slice(b) \intersect Slice(d) = {}
<1> USE ConstantsAssumption
<1> DEFINE kpc == cfg.nK \div KSplit
           s == b % KSplit
           r == d % KSplit
<1>1. KSplit \in Positive /\ b \in Nat /\ d \in Nat
  BY KSplitDivides DEF Block, Positive
<1>2. kpc \in Positive
  BY SliceLength
<1>3. s \in Nat /\ r \in Nat
  BY <1>1, Quotient DEF Positive
<1>4. s # r
  <2>1. b = (b \div KSplit) * KSplit + s /\ d = (d \div KSplit) * KSplit + r
    BY <1>1, Division
  <2> HIDE DEF s, r
  <2> QED
    BY <1>1, <1>3, <2>1
<1>5. Slice(b) = (s * kpc)..(s * kpc + kpc - 1) /\ Slice(d) = (r * kpc)..(r * kpc + kpc - 1)
  BY DEF Slice
<1> HIDE DEF kpc, s, r
<1> DEFINE x == s * kpc
           y == r * kpc
<1>6. x \in Nat /\ y \in Nat
  BY <1>2, <1>3 DEF Positive
<1>7. x + kpc <= y \/ y + kpc <= x
  BY <1>2, <1>3, <1>4, SpansApart DEF Positive
<1> HIDE DEF x, y
<1>8. Slice(b) = x..(x + kpc - 1) /\ Slice(d) = y..(y + kpc - 1)
  BY <1>5 DEF x, y
<1> QED
  BY <1>2, <1>6, <1>7, <1>8 DEF Positive

\* Some block takes every k-tile of every tile.
LEMMA SlicesCover ==
  ASSUME Splitting, cfg \in ConfigT, NEW t \in Tile, NEW k \in KTile
  PROVE  \E b \in Block : b < cfg.tiles * KSplit /\ b \div KSplit = t /\ k \in Slice(b)
<1> USE ConstantsAssumption
<1> DEFINE kpc == cfg.nK \div KSplit
           s == k \div kpc
           b == t * KSplit + s
<1>1. KSplit \in Positive /\ cfg.tiles \in Positive /\ t \in Nat /\ t < cfg.tiles
  BY KSplitDivides DEF ConfigT, Positive, Tile
<1>2. kpc \in Positive /\ cfg.nK = KSplit * kpc
  BY SliceLength
<1>3. k \in Nat /\ k < cfg.nK /\ cfg.nK \in Nat
  BY DEF KTile, ConfigT
<1>4. s \in Nat /\ s * kpc <= k /\ k = s * kpc + (k % kpc) /\ k % kpc \in 0..(kpc - 1)
  BY <1>2, <1>3, Quotient, FactorFits, Division
<1> HIDE DEF kpc, s
<1>5. s * kpc \in Nat
  BY <1>2, <1>4 DEF Positive
<1>6. s < KSplit
  <2> SUFFICES ASSUME s >= KSplit PROVE FALSE
    BY <1>1, <1>4 DEF Positive
  <2>1. KSplit * kpc \in Nat
    BY <1>1, <1>2 DEF Positive
  <2>2. s * kpc >= KSplit * kpc
    <3>1. CASE s = KSplit
      BY <3>1, <1>5
    <3>2. CASE KSplit < s
      <4>1. KSplit * kpc + kpc <= s * kpc
        BY <3>2, <1>1, <1>2, <1>4, SpansApart DEF Positive
      <4> QED
        BY <4>1, <1>2, <1>5, <2>1 DEF Positive
    <3> QED
      BY <3>1, <3>2, <1>1, <1>4 DEF Positive
  <2> QED
    BY <2>1, <2>2, <1>2, <1>3, <1>4, <1>5
<1>7. b \in Nat /\ b \div KSplit = t /\ b % KSplit = s
  <2>1. t * KSplit \in Nat
    BY <1>1 DEF Positive
  <2>2. b \in Nat /\ s \in 0..(KSplit - 1)
    BY <2>1, <1>1, <1>4, <1>6 DEF Positive
  <2> QED
    BY <2>2, <1>1, DivisionUnique
<1>8. b < cfg.tiles * KSplit
  <2>1. t * KSplit + KSplit <= cfg.tiles * KSplit
    BY <1>1, SpansApart DEF Positive
  <2>2. t * KSplit \in Nat /\ cfg.tiles * KSplit \in Nat
    BY <1>1 DEF Positive
  <2> QED
    BY <2>1, <2>2, <1>1, <1>4, <1>6 DEF Positive
<1>9. b \in Block
  <2>1. cfg.tiles * KSplit <= NBlocks
    BY KSplitDivides
  <2>2. cfg.tiles * KSplit \in Nat
    BY <1>1 DEF Positive
  <2> HIDE DEF b
  <2> QED
    BY <2>1, <2>2, <1>7, <1>8 DEF Block
<1>10. k \in Slice(b)
  <2>1. Slice(b) = (s * kpc)..(s * kpc + kpc - 1)
    BY <1>7 DEF Slice, kpc
  <2> DEFINE from == s * kpc
  <2>2. from \in Nat /\ from <= k /\ k < from + kpc
    BY <1>2, <1>3, <1>4, <1>5 DEF Positive
  <2> HIDE DEF from
  <2>3. Slice(b) = from..(from + kpc - 1)
    BY <2>1 DEF from
  <2> QED
    BY <2>2, <2>3, <1>2, <1>3 DEF Positive
<1> QED
  BY <1>7, <1>8, <1>9, <1>10

\* What the units of the three phases are.
LEMMA InputUnits ==
  ASSUME NEW c \in Core, NEW u \in PhaseWork(c, "A")
  PROVE  /\ u[1] \in {"in0", "in1"} /\ u = <<u[1], u[2]>> /\ u[2] \in 0..(Units - 1)
         /\ u[1] = "in0" => ~ReadDirect0(cfg)
         /\ u[1] = "in1" => ~ReadDirect1(cfg)
<1>1. c \in S!Vec /\ u \in {"in0", "in1"} \X Chunk(Units, Lane(c), Lanes)
  BY DEF PhaseWork
<1>2. Lane(c) \in Nat /\ Lanes \in Nat \ {0}
  BY <1>1, ConstantsAssumption DEF Lane, Lanes, S!Vec, Block
<1>3. Chunk(Units, Lane(c), Lanes) \subseteq 0..(Units - 1)
  BY <1>2, ChunksInside, ConstantsAssumption
<1>4. /\ u[1] = "in0" => ~ReadDirect0(cfg)
      /\ u[1] = "in1" => ~ReadDirect1(cfg)
  BY DEF PhaseWork
<1> QED
  BY <1>1, <1>3, <1>4

\* A unit of Phase B is a tile with k-tiles of the contraction, all of them
\* unless the contraction is split.
LEMMA MatmulUnits ==
  ASSUME cfg \in ConfigT, NEW c \in Core, NEW u \in PhaseWork(c, "B")
  PROVE  /\ c \in S!Cube /\ u[1] = "mm" /\ u[2] \in Tile /\ u[3] \subseteq KTile
         /\ u = <<"mm", u[2], u[3]>>
         /\ ~Splitting => u[3] = KTile
<1>1. c \in S!Cube /\ c[1] \in Block /\ u \in CubeWork(c[1])
  BY DEF PhaseWork, S!Cube
<1>2. CASE Splitting
  <2>1. /\ c[1] < cfg.tiles * KSplit
        /\ u = <<"mm", c[1] \div KSplit, Slice(c[1])>>
    BY <1>1, <1>2, SliceWork DEF CubeWork
  <2> QED
    BY <1>1, <1>2, <2>1, SliceInside
<1>3. CASE ~Splitting
  <2>1. PICK t \in Chunk(cfg.tiles, c[1], NBlocks) : u = <<"mm", t, KTile>>
    BY <1>1, <1>3 DEF CubeWork
  <2>2. t \in Tile
    BY <1>1, ChunksInside, ConstantsAssumption DEF Tile, Block, ConfigT
  <2> QED
    BY <1>1, <2>1, <2>2
<1> QED
  BY <1>2, <1>3

\* A unit of Phase C is a tile of the output.
LEMMA OutputUnits ==
  ASSUME cfg \in ConfigT, NEW c \in Core, NEW u \in PhaseWork(c, "C")
  PROVE  u[1] = "out" /\ u = <<"out", u[2]>> /\ u[2] \in Tile
<1>1. c \in S!Vec /\ u \in {"out"} \X Chunk(cfg.tiles, Lane(c), Lanes)
  BY DEF PhaseWork
<1>2. Lane(c) \in Nat /\ Lanes \in Nat \ {0}
  BY <1>1, ConstantsAssumption DEF Lane, Lanes, S!Vec, Block
<1>3. Chunk(cfg.tiles, Lane(c), Lanes) \subseteq Tile
  BY <1>2, ChunksInside DEF Tile, ConfigT
<1> QED
  BY <1>1, <1>3

\* The units of each phase cover its operands, products or outputs.
LEMMA InputsCover ==
  ASSUME NEW x \in 0..(Units - 1)
  PROVE  /\ ~ReadDirect0(cfg) => \E c \in Core : <<"in0", x>> \in PhaseWork(c, "A")
         /\ ~ReadDirect1(cfg) => \E c \in Core : <<"in1", x>> \in PhaseWork(c, "A")
<1>1. Lanes \in Nat \ {0} /\ Units \in Nat
  BY ConstantsAssumption DEF Lanes
<1>2. PICK who \in 0..(Lanes - 1) : x \in Chunk(Units, who, Lanes)
  BY <1>1, ChunksCover
<1>3. PICK c \in S!Vec : Lane(c) = who
  BY LanesAreCores
<1> QED
  BY <1>2, <1>3, Cores DEF PhaseWork

\* Every k-tile of every tile is multiplied by some Cube core.
LEMMA MatmulsCover ==
  ASSUME cfg \in ConfigT, NEW t \in Tile, NEW k \in KTile
  PROVE  \E c \in Core : \E u \in PhaseWork(c, "B") : u[2] = t /\ k \in u[3]
<1>1. \E b \in Block : \E u \in CubeWork(b) : u[2] = t /\ k \in u[3]
  <2>1. CASE Splitting
    <3>1. PICK b \in Block : /\ b < cfg.tiles * KSplit
                             /\ b \div KSplit = t /\ k \in Slice(b)
      BY <2>1, SlicesCover
    <3>2. <<"mm", t, Slice(b)>> \in CubeWork(b)
      BY <2>1, <3>1, SliceWork DEF CubeWork
    <3> QED
      BY <3>1, <3>2
  <2>2. CASE ~Splitting
    <3>1. PICK b \in 0..(NBlocks - 1) : t \in Chunk(cfg.tiles, b, NBlocks)
      BY ChunksCover, ConstantsAssumption DEF Tile, ConfigT
    <3>2. <<"mm", t, KTile>> \in CubeWork(b)
      BY <2>2, <3>1 DEF CubeWork
    <3> QED
      BY <3>1, <3>2 DEF Block
  <2> QED
    BY <2>1, <2>2
<1>2. PICK b \in Block : \E u \in CubeWork(b) : u[2] = t /\ k \in u[3]
  BY <1>1
<1>3. /\ <<b, "aic">> \in S!Cube
      /\ PhaseWork(<<b, "aic">>, "B") = CubeWork(b)
  BY DEF S!Cube, PhaseWork
<1> QED
  BY <1>2, <1>3, Cores

\* Every tile of the output is copied by some Vector core.
LEMMA OutputsCover ==
  ASSUME cfg \in ConfigT, NEW t \in Tile
  PROVE  \E c \in Core : <<"out", t>> \in PhaseWork(c, "C")
<1>1. Lanes \in Nat \ {0} /\ cfg.tiles \in Nat
  BY ConstantsAssumption DEF Lanes, ConfigT
<1>2. PICK who \in 0..(Lanes - 1) : t \in Chunk(cfg.tiles, who, Lanes)
  BY <1>1, ChunksCover DEF Tile
<1>3. PICK c \in S!Vec : Lane(c) = who
  BY LanesAreCores
<1> QED
  BY <1>2, <1>3, Cores DEF PhaseWork

\* Under split-K, no two units add the same product.
LEMMA MatmulsApart ==
  ASSUME cfg \in ConfigT, Splitting, NEW c \in Core, NEW d \in Core,
         NEW u \in PhaseWork(c, "B"), NEW v \in PhaseWork(d, "B"),
         u[2] = v[2], c # d \/ u # v
  PROVE  u[3] \intersect v[3] = {}
<1>1. /\ c \in S!Cube /\ d \in S!Cube
      /\ u \in SplitWork(c[1]) /\ v \in SplitWork(d[1])
  BY DEF PhaseWork, CubeWork
<1>2. c[1] \in Block /\ d[1] \in Block /\ (c # d => c[1] # d[1])
  BY <1>1 DEF S!Cube
<1>3. /\ u = <<"mm", c[1] \div KSplit, Slice(c[1])>>
      /\ v = <<"mm", d[1] \div KSplit, Slice(d[1])>>
  BY <1>1, <1>2, SliceWork
<1>4. c # d
  BY <1>3
<1> QED
  BY <1>2, <1>3, <1>4, SlicesApart

-----------------------------------------------------------------------------
(***************************************************************************)
(* Type correctness.                                                       *)
(***************************************************************************)
Memory == /\ workspace \in {"none", "ready"}
          /\ enqueued \in 0..MaxLaunches
          /\ current \in 0..enqueued
          /\ ws0 \in [0..(Units - 1) -> 0..MaxLaunches]
          /\ ws1 \in [0..(Units - 1) -> 0..MaxLaunches]
          /\ pad0 \in BOOLEAN
          /\ pad1 \in BOOLEAN
          /\ wsRes \in [Tile -> SUBSET Term]
          /\ res \in [Launch -> [Tile -> SUBSET Term]]

\* A bad value is a value of memory.
LEMMA JunkIsTerm == Junk \subseteq Term
BY ConstantsAssumption DEF Junk, Term

\* Memory is typed before the host has set it up.
LEMMA MemoryInit == Init => Memory
<1> SUFFICES ASSUME Init PROVE Memory
  OBVIOUS
<1>1. [t \in Tile |-> Junk] \in [Tile -> SUBSET Term]
  BY JunkIsTerm
<1>2. 0 \in 0..MaxLaunches /\ 0 \in 0..0
  BY ConstantsAssumption
<1> QED
  BY <1>1, <1>2 DEF Init, Memory

\* A store leaves terms of the current launch, or junk.
LEMMA StoreIsTerm ==
  ASSUME Memory, NEW old \in SUBSET Term, NEW ks \in SUBSET KTile
  PROVE  Store(old, ks) \in SUBSET Term
<1>1. KTile \subseteq Nat
  BY DEF KTile
<1>2. current \in 0..MaxLaunches
  BY ConstantsAssumption DEF Memory
<1>3. Product(ks) \in SUBSET Term
  BY <1>1, <1>2, JunkIsTerm DEF Product, Term
<1> QED
  BY <1>3, JunkIsTerm DEF Store, Sum

\* Every step of host, cores and barrier keeps memory typed.
LEMMA MemoryStep ==
  ASSUME KInv, Memory, [Next]_vars
  PROVE  Memory'
<1> USE ConstantsAssumption DEF Memory, KInv, Types
<1>0. cfg \in ConfigT
  OBVIOUS
<1>1. CASE Setup
  BY <1>1, JunkIsTerm DEF Setup, Zero0, Zero1, Tile, ConfigT
<1>2. CASE Exec
  <2>1. enqueued + 1 \in 0..MaxLaunches /\ current \in 0..(enqueued + 1)
    BY <1>2 DEF Exec
  <2>2. [t \in Tile |-> IF HostSplitK(cfg) THEN {} ELSE Junk] \in [Tile -> SUBSET Term]
    BY JunkIsTerm
  <2>3. res' \in [Launch -> [Tile -> SUBSET Term]]
    BY <1>2, <2>2 DEF Exec
  <2> QED
    BY <1>2, <2>1, <2>3 DEF Exec, Tile
<1>3. CASE Teardown \/ UNCHANGED vars
  BY <1>3 DEF Teardown, vars, host, memory, Tile
<1>4. CASE Start
  BY <1>4 DEF Start, memory, Tile
<1>5. ASSUME NEW c \in Core, Begin(c) \/ Barrier(c) \/ Exit(c)
      PROVE  Memory'
  BY <1>5 DEF Begin, Barrier, Exit, host, memory, Tile
<1>6. ASSUME NEW c \in Core, Finish(c)
      PROVE  Memory'
  <2>1. PICK u \in pending[c] : CopyInput(u) \/ MatmulTile(u) \/ CopyOutput(u)
    BY <1>6 DEF Finish
  <2>2. u \in PhaseWork(c, phase[c])
    BY WorkIsPhaseWork DEF Local
  <2>3. UNCHANGED <<cfg, workspace, enqueued, current>> /\ Tile' = Tile
    BY <1>6 DEF Finish, host, Tile
  <2>4. CASE CopyInput(u)
    <3>1. current \in 0..MaxLaunches
      OBVIOUS
    <3> QED
      BY <2>3, <2>4, <3>1 DEF CopyInput
  <2>5. CASE MatmulTile(u)
    <3>1. u[2] \in Tile /\ u[3] \in SUBSET KTile
      <4>1. phase[c] = "B"
        BY <2>2, <2>5, InputUnits, OutputUnits, <1>0 DEF MatmulTile, PhaseWork
      <4> QED
        BY <1>0, <2>2, <4>1, MatmulUnits
    <3>2. CASE OutDirect(cfg)
      <4>1. res' = [res EXCEPT ![current][u[2]] = Store(@, u[3])]
        BY <2>5, <3>2 DEF MatmulTile
      <4>2. res' \in [Launch -> [Tile -> SUBSET Term]]
        <5>1. CASE current \in Launch
          <6>1. res[current][u[2]] \in SUBSET Term
            BY <3>1, <5>1
          <6>2. Store(res[current][u[2]], u[3]) \in SUBSET Term
            BY <3>1, <6>1, StoreIsTerm
          <6> QED
            BY <4>1, <5>1, <6>2, <3>1
        <5>2. CASE current \notin Launch
          BY <4>1, <5>2
        <5> QED
          BY <5>1, <5>2
      <4> QED
        BY <2>3, <2>5, <3>2, <4>2 DEF MatmulTile
    <3>3. CASE ~OutDirect(cfg)
      <4>1. wsRes' = [wsRes EXCEPT ![u[2]] = Store(@, u[3])]
        BY <2>5, <3>3 DEF MatmulTile
      <4>2. Store(wsRes[u[2]], u[3]) \in SUBSET Term
        BY <3>1, StoreIsTerm
      <4> QED
        BY <2>3, <2>5, <3>3, <4>1, <4>2 DEF MatmulTile
    <3> QED
      BY <3>2, <3>3
  <2>6. CASE CopyOutput(u)
    <3>1. u[2] \in Tile
      <4>1. phase[c] = "C"
        BY <2>2, <2>6, InputUnits, MatmulUnits, <1>0 DEF CopyOutput, PhaseWork
      <4> QED
        BY <1>0, <2>2, <4>1, OutputUnits
    <3> DEFINE new == IF \A t \in Tile : wsRes[t] = Complete(current)
                      THEN wsRes[u[2]] ELSE Junk
    <3>2. new \in SUBSET Term
      BY <3>1, JunkIsTerm
    <3>3. res' = [res EXCEPT ![current][u[2]] = new]
      BY <2>6 DEF CopyOutput
    <3> HIDE DEF new
    <3>4. res' \in [Launch -> [Tile -> SUBSET Term]]
      <4>1. CASE current \in Launch
        BY <3>1, <3>2, <3>3, <4>1
      <4>2. CASE current \notin Launch
        BY <3>3, <4>2
      <4> QED
        BY <4>1, <4>2
    <3> QED
      BY <2>3, <2>6, <3>4 DEF CopyOutput
  <2> QED
    BY <2>1, <2>4, <2>5, <2>6
<1>7. ASSUME NEW f \in S!Flag, NEW c \in S!Waiter(f), Raise(f, c)
      PROVE  Memory'
  BY <1>7 DEF Raise, host, memory, Tile
<1> QED
  BY <1>1, <1>2, <1>3, <1>4, <1>5, <1>6, <1>7 DEF Next

\* Every variable keeps its type, and a core's unfinished work is part of the
\* work of its phase.
THEOREM TypeCorrect == Spec => []TypeOK
<1>1. KInv /\ Memory /\ [Next]_vars => Memory'
  BY MemoryStep
<1>2. SP!Spec => []SP!TypeOK
  BY SP!TypeCorrect, RoundsNat
<1>3. KInv /\ Memory /\ SP!TypeOK => TypeOK
  BY Cores
     DEF KInv, Types, Local, Memory, TypeOK, S!TypeOK, SP!TypeOK, S!PC, SP!PC, S!Flag, SP!Flag,
         Core
<1> QED
  BY <1>1, <1>2, <1>3, MemoryInit, Invariance, UsesSyncAll, PTL DEF Spec

-----------------------------------------------------------------------------
(***************************************************************************)
(* The inductive invariant: while a launch runs, global memory holds what  *)
(* the finished units of the launch put there (Contents), and the host     *)
(* prepared what they rely on (Prepared).                                  *)
(***************************************************************************)
After(q, p) == \/ q = "off"
               \/ p = "A" /\ q \in {"B", "C"}
               \/ p = "B" /\ q = "C"

\* Core c has finished unit u of its work of phase p of the current launch.
Done(c, p, u) == \/ After(phase[c], p)
                 \/ phase[c] = p /\ begun[c] /\ u \notin pending[c]

InputsCopied ==
  \A c \in Core : \A u \in PhaseWork(c, "A") :
     Done(c, "A", u) => /\ u[1] = "in0" => ws0[u[2]] = current
                        /\ u[1] = "in1" => ws1[u[2]] = current

\* The k-tiles of tile t that have been contracted.
Summed(t) == {k \in KTile : \E c \in Core : \E u \in PhaseWork(c, "B") :
                               Done(c, "B", u) /\ u[2] = t /\ k \in u[3]}

Result(t) == IF OutDirect(cfg) THEN res[current][t] ELSE wsRes[t]

TilesMultiplied ==
  IF Splitting
  THEN \A t \in Tile : res[current][t] = {current} \X Summed(t)
  ELSE \A c \in Core : \A u \in PhaseWork(c, "B") :
          Done(c, "B", u) => Result(u[2]) = Complete(current)

OutputsCopied ==
  ~OutDirect(cfg) =>
     \A c \in Core : \A u \in PhaseWork(c, "C") :
        Done(c, "C", u) => res[current][u[2]] = Complete(current)

Contents == InputsCopied /\ TilesMultiplied /\ OutputsCopied

Prepared == /\ workspace = "none" => Idle /\ current = enqueued
            /\ workspace = "ready" => pad0 = Zero0(cfg) /\ pad1 = Zero1(cfg)
            /\ ~Idle => current \in Launch
            /\ HostSplitK(cfg) =>
                 \A n \in Launch : current < n /\ n <= enqueued =>
                    \A t \in Tile : res[n][t] = {}

DInv == /\ KInv /\ Memory /\ Prepared
        /\ ~Idle => Contents
        /\ OutputRight

\* The data invariant holds before the first setup.
LEMMA DataInit == Init => DInv
<1> SUFFICES ASSUME Init PROVE DInv
  OBVIOUS
<1>1. Idle
  BY DEF Init, Idle
<1>2. Prepared
  BY <1>1, ConstantsAssumption DEF Init, Prepared, Launch
<1>3. OutputRight
  BY ConstantsAssumption DEF Init, OutputRight, Over, Launch
<1> QED
  BY <1>1, <1>2, <1>3, KInit, MemoryInit DEF DInv

\* The split of the work is the configuration's.
LEMMA SplitSame ==
  ASSUME cfg' = cfg
  PROVE  /\ \A c \in Core : \A p \in {"A", "B", "C"} : PhaseWork(c, p)' = PhaseWork(c, p)
         /\ Splitting' = Splitting /\ Tile' = Tile /\ KTile' = KTile
         /\ OutDirect(cfg)' = OutDirect(cfg)
<1>1. /\ Splitting' = Splitting /\ Tile' = Tile /\ KTile' = KTile
      /\ OutDirect(cfg)' = OutDirect(cfg)
  BY DEF Splitting, KSplit, Tile, KTile
<1>2. \A b \in Block : CubeWork(b)' = CubeWork(b)
  BY <1>1 DEF CubeWork, SplitWork, KSplit
<1>3. ASSUME NEW c \in Core, NEW p \in {"A", "B", "C"}
      PROVE  PhaseWork(c, p)' = PhaseWork(c, p)
  <2>1. c \in S!Cube => c[1] \in Block
    BY DEF S!Cube
  <2> QED
    BY <1>2, <2>1 DEF PhaseWork
<1> QED
  BY <1>1, <1>3

\* A step that finishes no unit, and leaves the launch's memory alone, keeps
\* the contents.
LEMMA ContentsKept ==
  ASSUME Contents, cfg' = cfg, current' = current,
         ws0' = ws0, ws1' = ws1, wsRes' = wsRes, res'[current] = res[current],
         \A c \in Core : \A p \in {"A", "B", "C"} : \A u \in PhaseWork(c, p) :
            (p = "C" => ~OutDirect(cfg)) => Done(c, p, u)' = Done(c, p, u)
  PROVE  Contents'
<1>1. InputsCopied'
  BY SplitSame DEF Contents, InputsCopied
<1>2. OutputsCopied'
  BY SplitSame DEF Contents, OutputsCopied, Complete
<1>3. TilesMultiplied'
  <2>1. CASE Splitting
    <3>1. \A t \in Tile : Summed(t)' = Summed(t)
      BY SplitSame DEF Summed
    <3> QED
      BY <2>1, <3>1, SplitSame DEF Contents, TilesMultiplied
  <2>2. CASE ~Splitting
    BY <2>2, SplitSame DEF Contents, TilesMultiplied, Result, Complete
  <2> QED
    BY <2>1, <2>2
<1> QED
  BY <1>1, <1>2, <1>3 DEF Contents

\* Issuing work, moving through the barrier and leaving the kernel finish no
\* unit: a core moves on when it has none left.
LEMMA DoneKept ==
  ASSUME KInv, NEW c \in Core, Begin(c) \/ Barrier(c) \/ Exit(c),
         NEW d \in Core, NEW p \in {"A", "B", "C"}, NEW u \in PhaseWork(d, p),
         p = "C" => ~OutDirect(cfg)
  PROVE  Done(d, p, u)' = Done(d, p, u)
<1> USE DEF KInv, Types
<1>1. CASE d # c
  <2>1. phase'[d] = phase[d] /\ begun'[d] = begun[d] /\ pending'[d] = pending[d]
    BY <1>1 DEF Begin, Barrier, Exit
  <2> QED
    BY <2>1 DEF Done, After
<1>2. CASE d = c /\ Begin(c)
  <2>1. phase'[c] = phase[c] /\ begun'[c] /\ pending'[c] = Work(c) /\ ~begun[c]
    BY <1>2 DEF Begin
  <2>2. phase[c] = p => u \in pending'[c]
    BY <1>2, <2>1, WorkIsPhaseWork
  <2> QED
    BY <1>2, <2>1, <2>2 DEF Done, After
<1>3. CASE d = c /\ Barrier(c)
  <2>1. S!CoreStep(c) /\ pending' = pending /\ begun[c]
    BY <1>3 DEF Barrier
  <2>2. CASE left' = left
    <3>1. phase'[c] = phase[c] /\ begun'[c] = begun[c]
      BY <1>3, <2>2 DEF Barrier
    <3> QED
      BY <1>3, <2>1, <3>1 DEF Done, After
  <2>3. CASE left' # left
    <3>1. /\ left' = [left EXCEPT ![c] = @ + 1] /\ pending[c] = {}
      BY <2>1, <2>3, CoreSteps DEF Local
    <3>2. /\ phase'[c] = (IF phase[c] = "A" THEN "B" ELSE "C") /\ ~begun'[c]
      BY <1>3, <3>1 DEF Barrier
    <3>3. phase[c] = "A" \/ phase[c] = "B"
      BY <1>3 DEF Barrier, LastPhase, Place
    <3> QED
      BY <1>3, <2>1, <3>1, <3>2, <3>3 DEF Done, After
  <2> QED
    BY <2>2, <2>3
<1>4. CASE d = c /\ Exit(c)
  <2>1. phase'[c] = "off" /\ begun[c] /\ pending[c] = {} /\ phase[c] = LastPhase
    BY <1>4 DEF Exit
  <2> QED
    BY <1>4, <2>1 DEF Done, After, LastPhase
<1> QED
  BY <1>1, <1>2, <1>3, <1>4

\* What the barrier gives: a core in phase B finds the inputs copied, and one in
\* phase C the tiles multiplied.
LEMMA LaterPhases ==
  ASSUME KInv, SP!IInv, SP!BarrierSafe, NEW c \in Core, NEW d \in Core, NEW u
  PROVE  /\ phase[c] = "B" => Done(d, "A", u)
         /\ phase[c] = "C" => Done(d, "B", u)
<1> USE DEF KInv, Types
<1>1. arrived[d] = left[d] \/ (arrived[d] = left[d] + 1 /\ pending[d] = {} /\ begun[d])
  BY Cores DEF SP!IInv, SP!CubeCounts, SP!VecCounts, SP!Ahead, Local
<1>2. left[c] <= arrived[d]
  BY Cores DEF SP!BarrierSafe
<1>3. Rounds * (current - 1) \in Int
  BY DEF Rounds
<1>4. CASE phase[c] = "B"
  <2>1. left[c] = Rounds * (current - 1) + 1
    BY <1>4 DEF Place
  <2>2. CASE phase[d] = "A"
    <3>1. left[d] = Rounds * (current - 1)
      BY <2>2 DEF Place
    <3>2. pending[d] = {} /\ begun[d]
      BY <1>1, <1>2, <1>3, <2>1, <3>1
    <3> QED
      BY <2>2, <3>2, <1>4 DEF Done
  <2> QED
    BY <1>4, <2>2 DEF Done, After
<1>5. CASE phase[c] = "C"
  <2>1. left[c] = Rounds * (current - 1) + 2
    BY <1>5 DEF Place
  <2>2. CASE phase[d] = "A"
    <3>1. left[d] = Rounds * (current - 1)
      BY <2>2 DEF Place
    <3> QED
      BY <1>1, <1>2, <1>3, <2>1, <3>1
  <2>3. CASE phase[d] = "B"
    <3>1. left[d] = Rounds * (current - 1) + 1
      BY <2>3 DEF Place
    <3>2. pending[d] = {} /\ begun[d]
      BY <1>1, <1>2, <1>3, <2>1, <3>1
    <3> QED
      BY <2>3, <3>2, <1>5 DEF Done
  <2> QED
    BY <1>5, <2>2, <2>3 DEF Done, After
<1> QED
  BY <1>4, <1>5

\* A matmul reads nothing but the launch's own inputs and zeroed padding.
LEMMA OperandsGood ==
  ASSUME DInv, SP!IInv, SP!BarrierSafe, NEW c \in Core, phase[c] = "B"
  PROVE  Operand0Good /\ Operand1Good
<1> USE DEF DInv
<1>1. ~Idle /\ workspace = "ready"
  BY DEF Idle, Prepared, Memory
<1>2. pad0 = Zero0(cfg) /\ pad1 = Zero1(cfg)
  BY <1>1 DEF Prepared
<1>3. DOMAIN ws0 = 0..(Units - 1) /\ DOMAIN ws1 = 0..(Units - 1)
  BY DEF Memory
<1>4. ASSUME NEW x \in 0..(Units - 1)
      PROVE  /\ ~ReadDirect0(cfg) => ws0[x] = current
             /\ ~ReadDirect1(cfg) => ws1[x] = current
  <2>1. ~ReadDirect0(cfg) => ws0[x] = current
    <3>1. CASE ~ReadDirect0(cfg)
      <4>1. PICK d \in Core : <<"in0", x>> \in PhaseWork(d, "A")
        BY <3>1, InputsCover
      <4>2. Done(d, "A", <<"in0", x>>)
        BY LaterPhases
      <4> QED
        BY <1>1, <4>1, <4>2 DEF Contents, InputsCopied
    <3> QED
      BY <3>1
  <2>2. ~ReadDirect1(cfg) => ws1[x] = current
    <3>1. CASE ~ReadDirect1(cfg)
      <4>1. PICK d \in Core : <<"in1", x>> \in PhaseWork(d, "A")
        BY <3>1, InputsCover
      <4>2. Done(d, "A", <<"in1", x>>)
        BY LaterPhases
      <4> QED
        BY <1>1, <4>1, <4>2 DEF Contents, InputsCopied
    <3> QED
      BY <3>1
  <2> QED
    BY <2>1, <2>2
<1>5. (Padded0(cfg) => pad0) /\ (Padded1(cfg) => pad1)
  BY <1>2 DEF Padded0, Padded1, Zero0, Zero1
<1> QED
  BY <1>3, <1>4, <1>5 DEF Operand0Good, Operand1Good

\* Finishing a unit is what makes it done.
LEMMA DoneByFinish ==
  ASSUME KInv, NEW c \in Core, NEW u \in pending[c],
         pending' = [pending EXCEPT ![c] = @ \ {u}], phase' = phase, begun' = begun
  PROVE  \A d \in Core : \A p \in {"A", "B", "C"} : \A v :
            Done(d, p, v)' <=> Done(d, p, v) \/ (d = c /\ p = phase[c] /\ v = u)
<1> USE DEF KInv, Types
<1> SUFFICES ASSUME NEW d \in Core, NEW p \in {"A", "B", "C"}, NEW v
             PROVE  Done(d, p, v)' <=> Done(d, p, v) \/ (d = c /\ p = phase[c] /\ v = u)
  OBVIOUS
<1>1. begun[c] /\ phase[c] # "off"
  BY DEF Local
<1>2. CASE d = c
  <2>1. v \notin pending'[d] <=> v \notin pending[d] \/ v = u
    BY <1>2
  <2> QED
    BY <1>1, <1>2, <2>1 DEF Done
<1>3. CASE d # c
  <2>1. pending'[d] = pending[d]
    BY <1>3
  <2> QED
    BY <1>3, <2>1 DEF Done
<1> QED
  BY <1>2, <1>3

\* An input unit that takes effect adds its own cell to what was copied, and
\* disturbs nothing that is there.
LEMMA FinishInput ==
  ASSUME DInv, Contents, NEW c \in Core, NEW u \in pending[c], CopyInput(u),
         pending' = [pending EXCEPT ![c] = @ \ {u}],
         UNCHANGED <<cfg, host, phase, begun, sync>>
  PROVE  Contents'
<1>0. \A d \in Core : \A p \in {"A", "B", "C"} : \A v :
         Done(d, p, v)' <=> Done(d, p, v) \/ (d = c /\ p = phase[c] /\ v = u)
  <2>1. KInv /\ phase' = phase /\ begun' = begun
    BY DEF DInv
  <2> QED
    BY <2>1, DoneByFinish
<1> USE DEF DInv, KInv, Memory
<1>1. cfg' = cfg /\ current' = current /\ phase' = phase /\ begun' = begun
  BY DEF host
<1>2. phase[c] = "A"
  <2>1. u \in PhaseWork(c, phase[c]) /\ cfg \in ConfigT
    BY WorkIsPhaseWork, ConstantsAssumption DEF Local, Types
  <2> QED
    BY <2>1, MatmulUnits, OutputUnits DEF CopyInput, Types, PhaseWork
<1>3. u \in PhaseWork(c, "A")
  BY <1>2, WorkIsPhaseWork DEF Local
<1>4. u[1] \in {"in0", "in1"} /\ u = <<u[1], u[2]>> /\ u[2] \in 0..(Units - 1)
  BY <1>3, InputUnits
<1>5. InputsCopied'
  <2> SUFFICES ASSUME NEW d \in Core, NEW v \in PhaseWork(d, "A"), Done(d, "A", v)'
               PROVE  /\ v[1] = "in0" => ws0'[v[2]] = current
                      /\ v[1] = "in1" => ws1'[v[2]] = current
    BY <1>1, SplitSame DEF InputsCopied
  <2>1. v = <<v[1], v[2]>> /\ v[2] \in 0..(Units - 1)
    BY InputUnits
  <2>2. CASE v = u
    BY <2>1, <2>2, <1>4 DEF CopyInput
  <2>3. CASE v # u
    <3>1. Done(d, "A", v)
      BY <1>0, <2>3
    <3>2. /\ v[1] = "in0" => ws0[v[2]] = current
          /\ v[1] = "in1" => ws1[v[2]] = current
      BY <3>1 DEF Contents, InputsCopied
    <3> QED
      BY <2>1, <3>2, <1>4 DEF CopyInput
  <2> QED
    BY <2>2, <2>3
<1>6. \A d \in Core : \A p \in {"B", "C"} : \A v \in PhaseWork(d, p) :
         Done(d, p, v)' <=> Done(d, p, v)
  BY <1>0, <1>2
<1>7. wsRes' = wsRes /\ res' = res
  BY DEF CopyInput
<1>8. OutputsCopied'
  BY <1>1, <1>6, <1>7, SplitSame DEF Contents, OutputsCopied, Complete
<1>9. TilesMultiplied'
  <2>1. CASE Splitting
    <3>1. \A t \in Tile : Summed(t)' = Summed(t)
      BY <1>1, <1>6, SplitSame DEF Summed
    <3> QED
      BY <2>1, <3>1, <1>1, <1>7, SplitSame DEF Contents, TilesMultiplied
  <2>2. CASE ~Splitting
    BY <2>2, <1>1, <1>6, <1>7, SplitSame DEF Contents, TilesMultiplied, Result, Complete
  <2> QED
    BY <2>1, <2>2
<1> QED
  BY <1>5, <1>8, <1>9 DEF Contents

\* A matmul unit that takes effect adds its k-tiles to its tile once, from
\* operands that are complete by then.
LEMMA FinishMatmul ==
  ASSUME DInv, Contents, SP!IInv, SP!BarrierSafe,
         NEW c \in Core, NEW u \in pending[c], MatmulTile(u),
         pending' = [pending EXCEPT ![c] = @ \ {u}],
         UNCHANGED <<cfg, host, phase, begun, sync>>
  PROVE  Contents'
<1>0. \A d \in Core : \A p \in {"A", "B", "C"} : \A v :
         Done(d, p, v)' <=> Done(d, p, v) \/ (d = c /\ p = phase[c] /\ v = u)
  <2>1. KInv /\ phase' = phase /\ begun' = begun
    BY DEF DInv
  <2> QED
    BY <2>1, DoneByFinish
<1> USE DEF DInv, KInv, Memory
<1>1. cfg' = cfg /\ current' = current /\ phase' = phase /\ begun' = begun
  BY DEF host
<1>12. cfg \in ConfigT
  BY ConstantsAssumption DEF Types
<1>2. phase[c] = "B"
  <2>1. u \in PhaseWork(c, phase[c])
    BY WorkIsPhaseWork DEF Local
  <2> QED
    BY <1>12, <2>1, InputUnits, OutputUnits DEF MatmulTile, Types, PhaseWork
<1>3. u \in PhaseWork(c, "B")
  BY <1>2, WorkIsPhaseWork DEF Local
<1>4. u[2] \in Tile /\ u[3] \subseteq KTile /\ (~Splitting => u[3] = KTile)
  BY <1>12, <1>3, MatmulUnits
<1>5. Product(u[3]) = {current} \X u[3]
  BY <1>2, OperandsGood DEF Product
<1>6. current \in Launch /\ ~Idle
  BY <1>2 DEF Prepared, Idle
<1>7. ws0' = ws0 /\ ws1' = ws1
  BY DEF MatmulTile
<1>8. \A d \in Core : \A p \in {"A", "C"} : \A v \in PhaseWork(d, p) :
         Done(d, p, v)' <=> Done(d, p, v)
  BY <1>0, <1>2
<1>9. InputsCopied'
  BY <1>1, <1>7, <1>8, SplitSame DEF Contents, InputsCopied
<1>10. OutputsCopied'
  <2>1. CASE OutDirect(cfg)
    BY <2>1, <1>1 DEF OutputsCopied
  <2>2. CASE ~OutDirect(cfg)
    <3>1. res' = res
      BY <2>2 DEF MatmulTile
    <3> QED
      BY <3>1, <1>1, <1>8, SplitSame DEF Contents, OutputsCopied, Complete
  <2> QED
    BY <2>1, <2>2
<1>11. TilesMultiplied'
  <2>1. CASE Splitting
    <3>1. OutDirect(cfg)
      BY <2>1 DEF Splitting, SplitKEligible, OutDirect
    <3>2. res' = [res EXCEPT ![current][u[2]] = Sum(@, {current} \X u[3])]
      BY <2>1, <3>1, <1>5 DEF MatmulTile, Store
    <3>3. \A t \in Tile : res[current][t] = {current} \X Summed(t)
      BY <2>1 DEF Contents, TilesMultiplied
    <3>4. ASSUME NEW t \in Tile
          PROVE  Summed(t)' = IF t = u[2] THEN Summed(t) \union u[3] ELSE Summed(t)
      <4>1. ASSUME NEW k \in KTile
            PROVE  k \in Summed(t)' <=> k \in Summed(t) \/ (t = u[2] /\ k \in u[3])
        <5>1. k \in Summed(t)' <=> \E d \in Core : \E v \in PhaseWork(d, "B") :
                                      Done(d, "B", v)' /\ v[2] = t /\ k \in v[3]
          BY <1>1, SplitSame DEF Summed
        <5>2. k \in Summed(t) <=> \E d \in Core : \E v \in PhaseWork(d, "B") :
                                     Done(d, "B", v) /\ v[2] = t /\ k \in v[3]
          BY DEF Summed
        <5>3. \A d \in Core : \A v \in PhaseWork(d, "B") :
                 Done(d, "B", v)' <=> Done(d, "B", v) \/ (d = c /\ v = u)
          BY <1>0, <1>2
        <5> QED
          BY <5>1, <5>2, <5>3, <1>3
      <4>2. Summed(t)' \subseteq KTile /\ Summed(t) \subseteq KTile
        BY <1>1, SplitSame DEF Summed
      <4> QED
        BY <4>1, <4>2, <1>4
    <3>5. Summed(u[2]) \intersect u[3] = {}
      <4> SUFFICES ASSUME NEW k \in Summed(u[2]), k \in u[3] PROVE FALSE
        OBVIOUS
      <4>1. PICK d \in Core : \E v \in PhaseWork(d, "B") :
                                 Done(d, "B", v) /\ v[2] = u[2] /\ k \in v[3]
        BY DEF Summed
      <4>2. PICK v \in PhaseWork(d, "B") : Done(d, "B", v) /\ v[2] = u[2] /\ k \in v[3]
        BY <4>1
      <4>3. c = d /\ u = v
        <5> SUFFICES ASSUME c # d \/ u # v PROVE FALSE
          OBVIOUS
        <5>1. u[3] \intersect v[3] = {}
          BY <1>12, <1>3, <2>1, <4>2, MatmulsApart
        <5> QED
          BY <4>2, <5>1
      <4>4. ~Done(c, "B", u)
        BY <1>2 DEF Done, After
      <4> QED
        BY <4>2, <4>3, <4>4
    <3>6. ASSUME NEW t \in Tile
          PROVE  res'[current][t] = {current} \X Summed(t)'
      <4>1. CASE t = u[2]
        <5>1. ({current} \X Summed(t)) \intersect ({current} \X u[3]) = {}
          BY <3>5, <4>1
        <5>2. Sum(res[current][t], {current} \X u[3])
                = ({current} \X Summed(t)) \union ({current} \X u[3])
          BY <3>3, <5>1 DEF Sum
        <5>3. res'[current][t] = Sum(res[current][t], {current} \X u[3])
          BY <1>4, <1>6, <3>2, <4>1
        <5> QED
          BY <3>4, <4>1, <5>2, <5>3
      <4>2. CASE t # u[2]
        BY <3>2, <3>3, <3>4, <4>2, <1>6
      <4> QED
        BY <4>1, <4>2
    <3> QED
      BY <2>1, <3>6, <1>1, SplitSame DEF TilesMultiplied
  <2>2. CASE ~Splitting
    <3>1. Store(Result(u[2]), u[3]) = Complete(current)
      BY <2>2, <1>4, <1>5 DEF Store, Complete
    <3>2. \A t \in Tile : Result(t)' = IF t = u[2] THEN Complete(current) ELSE Result(t)
      <4>1. CASE OutDirect(cfg)
        <5>1. res' = [res EXCEPT ![current][u[2]] = Complete(current)]
          BY <2>2, <4>1, <1>4, <1>5 DEF MatmulTile, Store, Complete
        <5> QED
          BY <4>1, <5>1, <1>1, <1>4, <1>6 DEF Result
      <4>2. CASE ~OutDirect(cfg)
        <5>1. wsRes' = [wsRes EXCEPT ![u[2]] = Complete(current)]
          BY <2>2, <4>2, <1>4, <1>5 DEF MatmulTile, Store, Complete
        <5> QED
          BY <4>2, <5>1, <1>1, <1>4 DEF Result
      <4> QED
        BY <4>1, <4>2
    <3>3. ASSUME NEW d \in Core, NEW v \in PhaseWork(d, "B"), Done(d, "B", v)'
          PROVE  Result(v[2])' = Complete(current)
      <4>1. v[2] \in Tile
        BY <1>12, MatmulUnits
      <4>2. CASE v[2] = u[2]
        BY <4>1, <4>2, <3>2
      <4>3. CASE v[2] # u[2]
        <5>1. Done(d, "B", v)
          BY <1>0, <3>3, <4>3
        <5>2. Result(v[2]) = Complete(current)
          BY <2>2, <5>1 DEF Contents, TilesMultiplied
        <5> QED
          BY <4>1, <4>3, <5>2, <3>2
      <4> QED
        BY <4>2, <4>3
    <3> QED
      BY <2>2, <3>3, <1>1, SplitSame DEF TilesMultiplied, Complete
  <2> QED
    BY <2>1, <2>2
<1> QED
  BY <1>9, <1>10, <1>11 DEF Contents

\* A core in phase C finds every tile whole.
LEMMA TilesWhole ==
  ASSUME DInv, Contents, SP!IInv, SP!BarrierSafe, NEW c \in Core, phase[c] = "C"
  PROVE  /\ ~OutDirect(cfg) /\ ~Splitting
         /\ \A t \in Tile : wsRes[t] = Complete(current)
<1> USE DEF DInv, KInv
<1>1. ~OutDirect(cfg) /\ ~Splitting
  BY DEF Place, Splitting, SplitKEligible, OutDirect
<1>2. ASSUME NEW t \in Tile
      PROVE  wsRes[t] = Complete(current)
  <2>1. cfg \in ConfigT /\ 0 \in KTile
    BY ConstantsAssumption DEF Types, ConfigT, KTile
  <2>2. PICK d \in Core : \E u \in PhaseWork(d, "B") : u[2] = t /\ 0 \in u[3]
    BY <2>1, MatmulsCover
  <2>3. PICK u \in PhaseWork(d, "B") : u[2] = t
    BY <2>2
  <2>4. Done(d, "B", u)
    BY LaterPhases
  <2> QED
    BY <1>1, <2>3, <2>4 DEF Contents, TilesMultiplied, Result
<1> QED
  BY <1>1, <1>2

\* An output unit that takes effect copies a tile that holds the whole
\* contraction by then.
LEMMA FinishOutput ==
  ASSUME DInv, Contents, SP!IInv, SP!BarrierSafe,
         NEW c \in Core, NEW u \in pending[c], CopyOutput(u),
         pending' = [pending EXCEPT ![c] = @ \ {u}],
         UNCHANGED <<cfg, host, phase, begun, sync>>
  PROVE  Contents'
<1>0. \A d \in Core : \A p \in {"A", "B", "C"} : \A v :
         Done(d, p, v)' <=> Done(d, p, v) \/ (d = c /\ p = phase[c] /\ v = u)
  <2>1. KInv /\ phase' = phase /\ begun' = begun
    BY DEF DInv
  <2> QED
    BY <2>1, DoneByFinish
<1> USE DEF DInv, KInv, Memory
<1>1. cfg' = cfg /\ current' = current /\ phase' = phase /\ begun' = begun
  BY DEF host
<1>2. cfg \in ConfigT
  BY ConstantsAssumption DEF Types
<1>3. phase[c] = "C"
  <2>1. u \in PhaseWork(c, phase[c])
    BY WorkIsPhaseWork DEF Local
  <2> QED
    BY <1>2, <2>1, InputUnits, MatmulUnits DEF CopyOutput, Types, PhaseWork
<1>4. u \in PhaseWork(c, "C")
  BY <1>3, WorkIsPhaseWork DEF Local
<1>5. u[2] \in Tile
  BY <1>2, <1>4, OutputUnits
<1>6. current \in Launch
  BY <1>3 DEF Prepared, Idle
<1>7. ~OutDirect(cfg) /\ ~Splitting /\ \A t \in Tile : wsRes[t] = Complete(current)
  BY <1>3, TilesWhole
<1>8. res' = [res EXCEPT ![current][u[2]] = Complete(current)]
  BY <1>5, <1>7 DEF CopyOutput
<1>9. ws0' = ws0 /\ ws1' = ws1 /\ wsRes' = wsRes
  BY DEF CopyOutput
<1>10. \A d \in Core : \A p \in {"A", "B"} : \A v \in PhaseWork(d, p) :
         Done(d, p, v)' <=> Done(d, p, v)
  BY <1>0, <1>3
<1>11. InputsCopied'
  BY <1>1, <1>9, <1>10, SplitSame DEF Contents, InputsCopied
<1>12. TilesMultiplied'
  BY <1>1, <1>7, <1>9, <1>10, SplitSame DEF Contents, TilesMultiplied, Result, Complete
<1>13. OutputsCopied'
  <2> SUFFICES ASSUME NEW d \in Core, NEW v \in PhaseWork(d, "C"), Done(d, "C", v)'
               PROVE  res'[current][v[2]] = Complete(current)
    BY <1>1, SplitSame DEF OutputsCopied, Complete
  <2>1. v[2] \in Tile
    BY <1>2, OutputUnits
  <2>2. CASE v[2] = u[2]
    BY <2>1, <2>2, <1>6, <1>8
  <2>3. CASE v[2] # u[2]
    <3>1. Done(d, "C", v)
      BY <1>0, <2>3
    <3>2. res[current][v[2]] = Complete(current)
      BY <3>1, <1>7 DEF Contents, OutputsCopied
    <3> QED
      BY <2>1, <2>3, <3>2, <1>6, <1>8
  <2> QED
    BY <2>2, <2>3
<1> QED
  BY <1>11, <1>12, <1>13 DEF Contents

\* When all work of the launch is done, its output is right.
LEMMA AllDone ==
  ASSUME cfg \in ConfigT, Contents,
         \A d \in Core : \A p \in {"A", "B", "C"} : \A u \in PhaseWork(d, p) :
            (p = "C" => ~OutDirect(cfg)) => Done(d, p, u)
  PROVE  \A t \in Tile : res[current][t] = Complete(current)
<1> SUFFICES ASSUME NEW t \in Tile
             PROVE  res[current][t] = Complete(current)
  OBVIOUS
<1>1. CASE ~OutDirect(cfg)
  <2>1. PICK d \in Core : <<"out", t>> \in PhaseWork(d, "C")
    BY OutputsCover
  <2> QED
    BY <1>1, <2>1 DEF Contents, OutputsCopied
<1>2. CASE Splitting
  <2>1. ASSUME NEW k \in KTile
        PROVE  k \in Summed(t)
    <3>1. PICK d \in Core : \E u \in PhaseWork(d, "B") : u[2] = t /\ k \in u[3]
      BY MatmulsCover
    <3> QED
      BY <3>1 DEF Summed
  <2>2. Summed(t) = KTile
    BY <2>1 DEF Summed
  <2> QED
    BY <1>2, <2>2 DEF Contents, TilesMultiplied, Complete
<1>3. CASE OutDirect(cfg) /\ ~Splitting
  <2>1. 0 \in KTile
    BY DEF KTile, ConfigT
  <2>2. PICK d \in Core : \E u \in PhaseWork(d, "B") : u[2] = t /\ 0 \in u[3]
    BY <2>1, MatmulsCover
  <2> QED
    BY <1>3, <2>2 DEF Contents, TilesMultiplied, Result
<1> QED
  BY <1>1, <1>2, <1>3

\* Outputs stay right that a step does not touch.
LEMMA RightKept ==
  ASSUME OutputRight, cfg' = cfg,
         \A n \in Launch : Over(n)' => Over(n) /\ res'[n] = res[n]
  PROVE  OutputRight'
BY SplitSame DEF OutputRight, Complete

\* Where nothing but the barrier moves, nothing changes.
LEMMA DataSame ==
  ASSUME DInv, KInv', Memory', UNCHANGED <<cfg, host, phase, begun, pending, memory>>
  PROVE  DInv'
<1> USE DEF host, memory
<1>1. \A d \in Core : \A p \in {"A", "B", "C"} : \A u : Done(d, p, u)' = Done(d, p, u)
  BY DEF Done
<1>2. Idle' = Idle
  BY DEF Idle
<1>3. Idle \/ Contents'
  BY <1>1, ContentsKept DEF DInv
<1>4. OutputRight'
  BY <1>2, RightKept DEF DInv, Over
<1>5. Prepared'
  BY <1>2, SplitSame DEF DInv, Prepared
<1> QED
  BY <1>2, <1>3, <1>4, <1>5 DEF DInv

\* Neither setting up nor freeing the workspace reaches a launch that runs, and
\* a call prepares an output that no launch before it writes.
LEMMA DataHost ==
  ASSUME DInv, KInv', Memory', Setup \/ Exec \/ Teardown
  PROVE  DInv'
<1> USE DEF Memory
<1>1. CASE Setup
  <2> USE <1>1 DEF Setup
  <2>1. Idle /\ Idle' /\ current = enqueued
    BY DEF DInv, Prepared, Idle
  <2>2. OutputRight'
    BY <2>1, RightKept DEF DInv, Over
  <2>3. Prepared'
    BY <2>1 DEF DInv, Prepared, Zero0, Zero1
  <2> QED
    BY <2>1, <2>2, <2>3 DEF DInv
<1>2. CASE Exec
  <2> USE <1>2 DEF Exec
  <2>0. current \in Nat /\ enqueued \in Nat /\ current <= enqueued
    BY ConstantsAssumption DEF DInv
  <2>1. Idle' = Idle
    BY DEF Idle
  <2>2. \A n \in Launch : n # enqueued + 1 => res'[n] = res[n]
    BY DEF DInv
  <2>3. OutputRight'
    <3>1. \A n \in Launch : Over(n)' = Over(n) /\ (Over(n) => n # enqueued + 1)
      BY <2>0, <2>1 DEF Over, Launch
    <3> QED
      BY <2>2, <3>1, RightKept DEF DInv
  <2>4. Prepared'
    <3>1. ASSUME HostSplitK(cfg), NEW n \in Launch, current < n, n <= enqueued + 1,
                 NEW t \in Tile
          PROVE  res'[n][t] = {}
      <4>1. CASE n = enqueued + 1
        BY <3>1, <4>1 DEF DInv
      <4>2. CASE n # enqueued + 1
        BY <2>0, <2>2, <3>1, <4>2 DEF DInv, Prepared, Launch
      <4> QED
        BY <4>1, <4>2
    <3> QED
      BY <2>1, <3>1 DEF DInv, Prepared, Tile
  <2>5. Idle \/ Contents'
    <3>1. CASE ~Idle
      <4>1. res'[current] = res[current]
        BY <3>1, <2>0, <2>2 DEF DInv, Prepared
      <4>2. \A d \in Core : \A p \in {"A", "B", "C"} : \A u : Done(d, p, u)' = Done(d, p, u)
        BY DEF Done
      <4> QED
        BY <3>1, <4>1, <4>2, ContentsKept DEF DInv
    <3> QED
      BY <3>1
  <2> QED
    BY <2>1, <2>3, <2>4, <2>5 DEF DInv
<1>3. CASE Teardown
  <2> USE <1>3 DEF Teardown, memory
  <2>1. Idle /\ Idle' /\ current = enqueued
    BY ConstantsAssumption DEF DInv, Over, Idle
  <2>2. OutputRight'
    BY <2>1, RightKept DEF DInv, Over
  <2>3. Prepared'
    BY <2>1 DEF DInv, Prepared, Tile
  <2> QED
    BY <2>1, <2>2, <2>3 DEF DInv
<1> QED
  BY <1>1, <1>2, <1>3

\* A launch starts when the one before it is over, on a workspace that is ready.
LEMMA DataStart ==
  ASSUME DInv, KInv', Memory', Start
  PROVE  DInv'
<1> USE DEF Start, memory, Memory
<1>1. current \in Nat /\ enqueued \in Nat /\ enqueued <= MaxLaunches
  BY ConstantsAssumption DEF DInv
<1>2. ~Idle'
  <2>1. <<0, "aic">> \in Core
    BY Cores, ConstantsAssumption DEF Block
  <2> QED
    BY <2>1 DEF Idle
<1>3. current + 1 \in Launch
  BY <1>1, ConstantsAssumption DEF Launch
<1>4. OutputRight'
  <2>1. \A n \in Launch : Over(n)' => Over(n)
    BY <1>1, <1>2 DEF Over, Launch
  <2> QED
    BY <2>1, RightKept DEF DInv
<1>5. Prepared'
  <2>1. workspace = "ready"
    BY <1>1 DEF DInv, Prepared
  <2>2. \A n \in Launch : current + 1 < n => current < n
    BY <1>1 DEF Launch
  <2> QED
    BY <1>2, <1>3, <2>1, <2>2 DEF DInv, Prepared, Tile
<1>6. Contents'
  <2>1. \A d \in Core : \A p \in {"A", "B", "C"} : \A u : ~Done(d, p, u)'
    BY DEF Done, After
  <2>2. InputsCopied'
    BY <2>1 DEF InputsCopied
  <2>3. OutputsCopied'
    BY <2>1 DEF OutputsCopied
  <2>4. TilesMultiplied'
    <3>1. CASE Splitting
      <4>1. \A t \in Tile : Summed(t)' = {}
        BY <2>1 DEF Summed
      <4>2. HostSplitK(cfg)
        BY <3>1 DEF Splitting, SplitKEligible, HostSplitK
      <4>3. \A t \in Tile : res[current + 1][t] = {}
        BY <1>1, <1>3, <4>2 DEF DInv, Prepared
      <4> QED
        BY <3>1, <4>1, <4>3, SplitSame DEF TilesMultiplied
    <3>2. CASE ~Splitting
      BY <2>1, <3>2, SplitSame DEF TilesMultiplied
    <3> QED
      BY <3>1, <3>2
  <2> QED
    BY <2>2, <2>3, <2>4 DEF Contents
<1> QED
  BY <1>2, <1>4, <1>5, <1>6 DEF DInv

\* A core that issues its work, moves through the barrier or leaves the kernel
\* writes nothing; when the last one leaves, the launch's output is right.
LEMMA DataMove ==
  ASSUME DInv, KInv', Memory', NEW c \in Core, Begin(c) \/ Barrier(c) \/ Exit(c)
  PROVE  DInv'
<1>1. ~Idle
  BY DEF Begin, Barrier, Exit, Idle, LastPhase
<1>2. UNCHANGED <<cfg, host, memory>>
  BY DEF Begin, Barrier, Exit
<1>3. /\ cfg' = cfg /\ workspace' = workspace /\ enqueued' = enqueued /\ current' = current
      /\ ws0' = ws0 /\ ws1' = ws1 /\ pad0' = pad0 /\ pad1' = pad1
      /\ wsRes' = wsRes /\ res' = res
  BY <1>2 DEF host, memory
<1>4. \A d \in Core : \A p \in {"A", "B", "C"} : \A u \in PhaseWork(d, p) :
         (p = "C" => ~OutDirect(cfg)) => Done(d, p, u)' = Done(d, p, u)
  BY DoneKept DEF DInv
<1>5. Contents'
  BY <1>1, <1>3, <1>4, ContentsKept DEF DInv
<1>6. OutputRight'
  <2>1. CASE ~Idle'
    <3>1. \A n \in Launch : Over(n)' => Over(n)
      BY <1>3, <2>1 DEF Over
    <3> QED
      BY <1>3, <3>1, RightKept DEF DInv
  <2>2. CASE Idle'
    <3>1. \A d \in Core : \A p \in {"A", "B", "C"} : \A u \in PhaseWork(d, p) :
             (p = "C" => ~OutDirect(cfg)) => Done(d, p, u)
      <4>1. \A d \in Core : \A p, u : Done(d, p, u)'
        BY <2>2 DEF Idle, Done, After
      <4> QED
        BY <1>4, <4>1
    <3>2. \A t \in Tile : res[current][t] = Complete(current)
      <4>1. cfg \in ConfigT /\ Contents
        BY <1>1, ConstantsAssumption DEF DInv, KInv, Types
      <4> QED
        BY <3>1, <4>1, AllDone
    <3>3. \A n \in Launch : n < current => \A t \in Tile : res[n][t] = Complete(n)
      BY DEF DInv, OutputRight, Over
    <3>4. \A n \in Launch : Over(n)' => n = current \/ n < current
      BY <1>3 DEF Over
    <3>5. \A n : Complete(n)' = Complete(n)
      BY <1>3, SplitSame DEF Complete
    <3> QED
      BY <1>3, <3>2, <3>3, <3>4, <3>5, SplitSame DEF OutputRight
  <2> QED
    BY <2>1, <2>2
<1>7. Prepared'
  <2>1. workspace = "ready" /\ current \in Launch
    BY <1>1 DEF DInv, Prepared, Memory
  <2> QED
    BY <1>3, <2>1, SplitSame DEF DInv, Prepared
<1> QED
  BY <1>5, <1>6, <1>7 DEF DInv

\* A unit that takes effect touches no launch but the current one.
LEMMA DataFinish ==
  ASSUME DInv, SP!IInv, SP!BarrierSafe, KInv', Memory', NEW c \in Core, Finish(c)
  PROVE  DInv'
<1>1. PICK u \in pending[c] : /\ pending' = [pending EXCEPT ![c] = @ \ {u}]
                              /\ CopyInput(u) \/ MatmulTile(u) \/ CopyOutput(u)
                              /\ UNCHANGED <<cfg, host, phase, begun, sync>>
  BY DEF Finish
<1>2. /\ cfg' = cfg /\ workspace' = workspace /\ enqueued' = enqueued /\ current' = current
      /\ phase' = phase
  BY <1>1 DEF host
<1>3. ~Idle /\ ~Idle'
  <2>1. phase[c] # "off"
    BY <1>1 DEF DInv, KInv, Local
  <2> QED
    BY <1>2, <2>1 DEF Idle
<1>4. Contents'
  BY <1>1, <1>3, FinishInput, FinishMatmul, FinishOutput DEF DInv
<1>5. \A n \in Launch : n # current => res'[n] = res[n]
  BY <1>1 DEF CopyInput, MatmulTile, CopyOutput, DInv, Memory
<1>6. pad0' = pad0 /\ pad1' = pad1
  BY <1>1 DEF CopyInput, MatmulTile, CopyOutput
<1>7. current \in Nat
  BY DEF DInv, KInv, Types
<1>8. OutputRight'
  <2>1. \A n \in Launch : Over(n)' => Over(n) /\ n # current
    BY <1>2, <1>3, <1>7 DEF Over, Launch
  <2> QED
    BY <1>2, <1>5, <2>1, RightKept DEF DInv
<1>9. Prepared'
  <2>1. workspace = "ready" /\ current \in Launch
    BY <1>3 DEF DInv, Prepared, Memory
  <2>2. \A n \in Launch : current < n => n # current
    BY <1>7 DEF Launch
  <2> QED
    BY <1>2, <1>3, <1>5, <1>6, <2>1, <2>2, SplitSame DEF DInv, Prepared
<1> QED
  BY <1>4, <1>8, <1>9 DEF DInv

\* Every step of the kernel and its host keeps the data invariant.
LEMMA DataStep ==
  ASSUME DInv, SP!IInv, SP!BarrierSafe, [Next]_vars
  PROVE  DInv'
<1>1. KInv' /\ Memory'
  BY KStep, MemoryStep DEF DInv
<1>2. CASE Setup \/ Exec \/ Teardown
  BY <1>1, <1>2, DataHost
<1>3. CASE Start
  BY <1>1, <1>3, DataStart
<1>4. CASE UNCHANGED vars
  BY <1>1, <1>4, DataSame DEF vars
<1>5. ASSUME NEW c \in Core, Begin(c) \/ Barrier(c) \/ Exit(c)
      PROVE  DInv'
  BY <1>1, <1>5, DataMove
<1>6. ASSUME NEW c \in Core, Finish(c)
      PROVE  DInv'
  BY <1>1, <1>6, DataFinish
<1>7. ASSUME NEW f \in S!Flag, NEW c \in S!Waiter(f), Raise(f, c)
      PROVE  DInv'
  BY <1>1, <1>7, DataSame DEF Raise
<1> QED
  BY <1>2, <1>3, <1>4, <1>5, <1>6, <1>7 DEF Next

\* What the launches of a stream leave in the shared workspace and in their
\* outputs, in every state of the kernel.
THEOREM DataInvariance == Spec => []DInv
<1>1. DInv /\ SP!IInv /\ SP!BarrierSafe /\ [Next]_vars => DInv'
  BY DataStep
<1>2. SP!Spec => []SP!IInv
  BY SP!Invariance, RoundsNat
<1>3. SP!Spec => []SP!BarrierSafe
  BY SP!BarrierSafety, RoundsNat
<1> QED
  BY <1>1, <1>2, <1>3, DataInit, UsesSyncAll, PTL DEF Spec

(***************************************************************************)
(* Every launch that is over left the whole contraction of its own inputs  *)
(* in every tile of its output, however many launches share the workspace  *)
(* and however the work is split over the cores.                           *)
(***************************************************************************)
THEOREM OutputsRight == Spec => []OutputRight
<1>1. DInv => OutputRight
  BY DEF DInv
<1> QED
  BY <1>1, DataInvariance, PTL

-----------------------------------------------------------------------------
(***************************************************************************)
(* The refinement of EinsumStream.                                         *)
(***************************************************************************)
Finished == IF Idle THEN current ELSE current - 1

\* What a caller sees: the outputs of the finished launches are right.
Seen == [n \in Launch |->
           IF ~Over(n) THEN "open"
           ELSE IF \A t \in Tile : res[n][t] = Complete(n) THEN "right"
           ELSE "wrong"]
AllRight == Seen = [n \in Launch |-> IF n <= Finished THEN "right" ELSE "open"]

\* Initially no result is to be seen, as EinsumStream has it.
LEMMA StreamInit == Init => Stream!Init
<1> SUFFICES ASSUME Init PROVE Stream!Init
  OBVIOUS
<1>1. Idle /\ Launch = 1..MaxLaunches
  BY DEF Init, Idle, Launch
<1>2. \A n \in Launch : ~Over(n)
  BY ConstantsAssumption DEF Init, Over, Launch
<1> QED
  BY <1>1, <1>2 DEF Init, Stream!Init

\* In every state the outputs seen are right up to the last finished launch
\* and open beyond.
LEMMA SeenRight ==
  ASSUME DInv
  PROVE  AllRight
<1>1. \A n \in Launch : Over(n) <=> n <= Finished
  BY DEF Over, Finished, Launch, DInv, KInv, Types
<1>2. \A n \in Launch : Over(n) => \A t \in Tile : res[n][t] = Complete(n)
  BY DEF DInv, OutputRight
<1> QED
  BY <1>1, <1>2 DEF AllRight, Seen

\* A call is a Call, the last core to leave works a launch off, and nothing else
\* can be seen.
LEMMA StreamStep ==
  ASSUME DInv, AllRight, AllRight', [Next]_vars
  PROVE  [Stream!Next]_Stream!vars
<1>1. /\ Launch = 1..MaxLaunches
      /\ current \in Nat /\ enqueued \in Nat /\ current <= enqueued
      /\ ~Idle => current \in Launch
  BY ConstantsAssumption DEF Launch, DInv, Memory, Prepared
<1>2. ASSUME enqueued' = enqueued, Finished' = Finished
      PROVE  [Stream!Next]_Stream!vars
  <2>1. Seen' = Seen
    BY <1>2 DEF AllRight
  <2> QED
    BY <1>2, <2>1, <1>1 DEF Stream!vars, Seen, Finished
<1>3. CASE Exec
  <2>1. Finished' = Finished
    BY <1>3 DEF Exec, Finished, Idle
  <2>2. Seen' = Seen
    BY <2>1 DEF AllRight
  <2>3. Stream!Call
    BY <1>1, <1>3, <2>1, <2>2 DEF Exec, Stream!Call, Seen, Finished
  <2> QED
    BY <2>3 DEF Stream!Next
<1>4. CASE Start
  <2>1. Idle /\ ~Idle'
    <3>1. <<0, "aic">> \in Core
      BY Cores, ConstantsAssumption DEF Block
    <3> QED
      BY <1>4, <3>1 DEF Start, Idle
  <2>2. Finished' = Finished /\ enqueued' = enqueued
    BY <1>1, <1>4, <2>1 DEF Start, Finished
  <2> QED
    BY <1>2, <2>2
<1>5. CASE Setup \/ Teardown \/ UNCHANGED vars
  <2>1. Finished' = Finished /\ enqueued' = enqueued
    BY <1>5 DEF Setup, Teardown, vars, host, Finished, Idle
  <2> QED
    BY <1>2, <2>1
<1>6. ASSUME NEW c \in Core, Begin(c) \/ Finish(c) \/ Barrier(c)
      PROVE  [Stream!Next]_Stream!vars
  <2>1. ~Idle /\ ~Idle'
    <3>1. phase[c] # "off"
      BY <1>6 DEF Begin, Finish, Barrier, DInv, KInv, Local
    <3>2. phase'[c] # "off"
      BY <1>6, <3>1 DEF Begin, Finish, Barrier, DInv, KInv, Types
    <3> QED
      BY <3>1, <3>2 DEF Idle
  <2>2. current' = current /\ enqueued' = enqueued
    BY <1>6 DEF Begin, Finish, Barrier, host
  <2> QED
    BY <1>2, <2>1, <2>2 DEF Finished
<1>7. ASSUME NEW c \in Core, Exit(c)
      PROVE  [Stream!Next]_Stream!vars
  <2>1. current' = current /\ enqueued' = enqueued
    BY <1>7 DEF Exit, host
  <2>2. ~Idle
    BY <1>7 DEF Exit, Idle, LastPhase
  <2>3. CASE ~Idle'
    BY <1>2, <2>1, <2>2, <2>3 DEF Finished
  <2>4. CASE Idle'
    <3>1. Finished = current - 1 /\ Finished' = Finished + 1 /\ current \in Launch
      BY <1>1, <2>1, <2>2, <2>4 DEF Finished
    <3>2. Seen' = [Seen EXCEPT ![Finished + 1] = "right"]
      <4>1. \A n \in Launch : n <= Finished' <=> n <= Finished \/ n = Finished + 1
        BY <1>1, <3>1 DEF Launch
      <4>2. /\ Seen = [n \in Launch |-> IF n <= Finished THEN "right" ELSE "open"]
            /\ Seen' = [n \in Launch |-> IF n <= Finished' THEN "right" ELSE "open"]
        BY DEF AllRight
      <4> QED
        BY <3>1, <4>1, <4>2
    <3>3. Stream!WorkOff
      BY <1>1, <2>1, <3>1, <3>2 DEF Stream!WorkOff, Seen, Finished
    <3> QED
      BY <3>3 DEF Stream!Next
  <2> QED
    BY <2>3, <2>4
<1>8. ASSUME NEW f \in S!Flag, NEW c \in S!Waiter(f), Raise(f, c)
      PROVE  [Stream!Next]_Stream!vars
  <2>1. Finished' = Finished /\ enqueued' = enqueued
    BY <1>8 DEF Raise, host, Finished, Idle
  <2> QED
    BY <1>2, <2>1
<1> QED
  BY <1>3, <1>4, <1>5, <1>6, <1>7, <1>8 DEF Next

(***************************************************************************)
(* The kernel and its host side implement EinsumStream: the launches are   *)
(* worked off in the order of the calls, and each leaves the right result  *)
(* in its own output for good.                                             *)
(***************************************************************************)
THEOREM ImplementsEinsumStream == Spec => ImplementsStream
<1>1. DInv => AllRight
  BY SeenRight
<1>2. DInv /\ AllRight /\ AllRight' /\ [Next]_vars => [Stream!Next]_Stream!vars
  BY StreamStep
<1> QED
  BY <1>1, <1>2, StreamInit, DataInvariance, PTL DEF Spec, ImplementsStream, Stream!Spec

=============================================================================
