--------------------------- MODULE SyncAllProofs ---------------------------
(***************************************************************************)
(* Proofs about SyncAll for any set of blocks and any number of rounds.    *)
(***************************************************************************)
EXTENDS SyncAll, TLAPS

(***************************************************************************)
(* The inductive invariant.  Where a core is in SyncAll fixes how often it *)
(* has arrived, signalled and waited, relative to the rounds it has left   *)
(* (CubeCounts, VecCounts), and the FFTS unit keeps each flag between what *)
(* its core consumed and what its group sent (FlagOrder).  A core's        *)
(* pipelines hold work only while it is outside SyncAll (Drained).         *)
(***************************************************************************)
Ahead(c, labels) == IF pc[c] \in labels THEN left[c] + 1 ELSE left[c]

CubeCounts(c) ==
  /\ pc[c] \in {"run", "wait_AIV", "sync_AIC", "wait_AIC", "sync_AIC_AIV"}
  /\ arrived[c] = Ahead(c, {"wait_AIV", "sync_AIC", "wait_AIC", "sync_AIC_AIV"})
  /\ waited["AIV"][c] = Ahead(c, {"sync_AIC", "wait_AIC", "sync_AIC_AIV"})
  /\ sent["AIC"][c] = Ahead(c, {"wait_AIC", "sync_AIC_AIV"})
  /\ waited["AIC"][c] = Ahead(c, {"sync_AIC_AIV"})
  /\ sent["AIC_AIV"][c] = left[c]

VecCounts(c) ==
  /\ pc[c] \in {"run", "sync_AIV", "wait_AIC_AIV"}
  /\ arrived[c] = Ahead(c, {"sync_AIV", "wait_AIC_AIV"})
  /\ sent["AIV"][c] = Ahead(c, {"wait_AIC_AIV"})
  /\ waited["AIC_AIV"][c] = left[c]

FlagOrder == \A f \in Flag : \A c \in Waiter(f) :
                /\ waited[f][c] <= raised[f][c]
                /\ \A d \in Group(f, c) : raised[f][c] <= sent[f][d]

Drained == \A c \in Core : inflight[c] => pc[c] = "run"

IInv == /\ TypeOK
        /\ \A c \in Cube : CubeCounts(c)
        /\ \A c \in Vec : VecCounts(c)
        /\ FlagOrder
        /\ Drained

-----------------------------------------------------------------------------
\* Every core is of one of two kinds, and flags are about cores.
LEMMA CoreKinds ==
  /\ Cube \subseteq Core /\ Vec \subseteq Core
  /\ \A c \in Core : c \in Cube \/ c \in Vec
  /\ \A c \in Cube : c \notin Vec
  /\ \A f \in Flag : Waiter(f) \subseteq Core
  /\ \A f \in Flag : \A c \in Waiter(f) : Group(f, c) \subseteq Core
BY DEF Core, Cube, Vec, Unit, Flag, Waiter, Group

\* Which cores a flag links.
LEMMA Links ==
  /\ \A c \in Cube : Group("AIV", c) \subseteq Vec /\ Group("AIC", c) = Cube
  /\ \A c \in Vec : Group("AIC_AIV", c) \subseteq Cube
  /\ \A v \in Vec : \E d \in Cube : d \in Group("AIC_AIV", v) /\ v \in Group("AIV", d)
  /\ \A c \in Cube : \A v \in Group("AIV", c) : c \in Group("AIC_AIV", v)
<1>1. \A c \in Cube : Group("AIV", c) \subseteq Vec /\ Group("AIC", c) = Cube
  BY DEF Cube, Vec, Group
<1>2. \A c \in Vec : Group("AIC_AIV", c) \subseteq Cube
  BY DEF Cube, Vec, Group
<1>3. ASSUME NEW v \in Vec
      PROVE  \E d \in Cube : d \in Group("AIC_AIV", v) /\ v \in Group("AIV", d)
  <2>1. PICK b \in Block, u \in {"aiv0", "aiv1"} : v = <<b, u>>
    BY DEF Vec
  <2>2. <<b, "aic">> \in Cube
    BY DEF Cube
  <2>3. <<b, "aic">> \in Group("AIC_AIV", v)
    BY <2>1 DEF Group
  <2>4. v \in Group("AIV", <<b, "aic">>)
    BY <2>1 DEF Group
  <2> QED
    BY <2>2, <2>3, <2>4
<1>4. ASSUME NEW c \in Cube, NEW v \in Group("AIV", c)
      PROVE  c \in Group("AIC_AIV", v)
  <2>1. PICK b \in Block : c = <<b, "aic">>
    BY DEF Cube
  <2>2. v[1] = b
    BY <2>1 DEF Group
  <2> QED
    BY <2>1, <2>2 DEF Group
<1> QED
  BY <1>1, <1>2, <1>3, <1>4

\* The variables of the barrier keep their types: the counters never go
\* negative and no core reaches a place outside its branch of SyncAll.
THEOREM TypeCorrect == Spec => []TypeOK
<1>1. Init => TypeOK
  BY DEF Init, TypeOK, PC
<1>2. TypeOK /\ [Next]_vars => TypeOK'
  <2> SUFFICES ASSUME TypeOK, [Next]_vars PROVE TypeOK'
    OBVIOUS
  <2> USE CoreKinds DEF TypeOK, PC
  <2>1. ASSUME NEW c \in Core, Issue(c) PROVE TypeOK'
    BY <2>1 DEF Issue, core
  <2>2. ASSUME NEW c \in Core, Finish(c) PROVE TypeOK'
    BY <2>2 DEF Finish, core
  <2>3. ASSUME NEW c \in Core, Arrive(c) PROVE TypeOK'
    BY <2>3 DEF Arrive, Goto
  <2>4. ASSUME NEW c \in Core, WaitAiv(c) PROVE TypeOK'
    BY <2>4 DEF WaitAiv, Goto, WaitFlag, Flag
  <2>5. ASSUME NEW c \in Core, SyncAic(c) PROVE TypeOK'
    BY <2>5 DEF SyncAic, Goto, Signal, Flag
  <2>6. ASSUME NEW c \in Core, WaitAic(c) PROVE TypeOK'
    BY <2>6 DEF WaitAic, Goto, WaitFlag, Flag
  <2>7. ASSUME NEW c \in Core, SyncAicAiv(c) PROVE TypeOK'
    BY <2>7 DEF SyncAicAiv, Goto, Signal, Return, Flag
  <2>8. ASSUME NEW c \in Core, SyncAiv(c) PROVE TypeOK'
    BY <2>8 DEF SyncAiv, Goto, Signal, Flag
  <2>9. ASSUME NEW c \in Core, WaitAicAiv(c) PROVE TypeOK'
    BY <2>9 DEF WaitAicAiv, Goto, WaitFlag, Return, Flag
  <2>10. ASSUME NEW f \in Flag, NEW c \in Waiter(f), Raise(f, c) PROVE TypeOK'
    BY <2>10 DEF Raise, core
  <2>11. CASE UNCHANGED vars
    BY <2>11 DEF vars
  <2> QED
    BY <2>1, <2>2, <2>3, <2>4, <2>5, <2>6, <2>7, <2>8, <2>9, <2>10, <2>11
       DEF Next, CoreStep
<1> QED
  BY <1>1, <1>2, PTL DEF Spec

-----------------------------------------------------------------------------
\* Before the first call nothing has been counted.
LEMMA InvInit == Init => IInv
BY CoreKinds, Links
   DEF Init, IInv, TypeOK, PC, CubeCounts, VecCounts, Ahead, FlagOrder, Drained,
       Flag

\* The counters of each core keep in step with its place in SyncAll.
LEMMA CountsStep ==
  ASSUME IInv, TypeOK', [Next]_vars
  PROVE  (\A c \in Cube : CubeCounts(c))' /\ (\A c \in Vec : VecCounts(c))'
<1> USE CoreKinds DEF IInv, TypeOK, CubeCounts, VecCounts, Ahead, Flag
<1>1. ASSUME NEW c \in Core, Issue(c) \/ Finish(c)
      PROVE  (\A d \in Cube : CubeCounts(d))' /\ (\A d \in Vec : VecCounts(d))'
  BY <1>1 DEF Issue, Finish, core
<1>2. ASSUME NEW c \in Core, Arrive(c)
      PROVE  (\A d \in Cube : CubeCounts(d))' /\ (\A d \in Vec : VecCounts(d))'
  BY <1>2 DEF Arrive, Goto
<1>3. ASSUME NEW c \in Core, WaitAiv(c)
      PROVE  (\A d \in Cube : CubeCounts(d))' /\ (\A d \in Vec : VecCounts(d))'
  BY <1>3 DEF WaitAiv, Goto, WaitFlag
<1>4. ASSUME NEW c \in Core, SyncAic(c)
      PROVE  (\A d \in Cube : CubeCounts(d))' /\ (\A d \in Vec : VecCounts(d))'
  BY <1>4 DEF SyncAic, Goto, Signal
<1>5. ASSUME NEW c \in Core, WaitAic(c)
      PROVE  (\A d \in Cube : CubeCounts(d))' /\ (\A d \in Vec : VecCounts(d))'
  BY <1>5 DEF WaitAic, Goto, WaitFlag
<1>6. ASSUME NEW c \in Core, SyncAicAiv(c)
      PROVE  (\A d \in Cube : CubeCounts(d))' /\ (\A d \in Vec : VecCounts(d))'
  BY <1>6 DEF SyncAicAiv, Goto, Signal, Return
<1>7. ASSUME NEW c \in Core, SyncAiv(c)
      PROVE  (\A d \in Cube : CubeCounts(d))' /\ (\A d \in Vec : VecCounts(d))'
  BY <1>7 DEF SyncAiv, Goto, Signal
<1>8. ASSUME NEW c \in Core, WaitAicAiv(c)
      PROVE  (\A d \in Cube : CubeCounts(d))' /\ (\A d \in Vec : VecCounts(d))'
  BY <1>8 DEF WaitAicAiv, Goto, WaitFlag, Return
<1>9. ASSUME NEW f \in Flag, NEW c \in Waiter(f), Raise(f, c)
      PROVE  (\A d \in Cube : CubeCounts(d))' /\ (\A d \in Vec : VecCounts(d))'
  BY <1>9 DEF Raise, core
<1>10. CASE UNCHANGED vars
  BY <1>10 DEF vars
<1> QED
  BY <1>1, <1>2, <1>3, <1>4, <1>5, <1>6, <1>7, <1>8, <1>9, <1>10
     DEF Next, CoreStep

\* A wait consumes only what was raised, the FFTS unit raises only what the
\* whole group sent, and signals only grow.
LEMMA FlagOrderStep ==
  ASSUME IInv, TypeOK', [Next]_vars
  PROVE  FlagOrder'
<1> USE CoreKinds DEF IInv, TypeOK, FlagOrder
<1>1. ASSUME NEW c \in Core,
             Issue(c) \/ Finish(c) \/ Arrive(c)
      PROVE  FlagOrder'
  BY <1>1 DEF Issue, Finish, Arrive, core
<1>2. ASSUME NEW c \in Core, NEW f \in Flag, WaitFlag(c, f), UNCHANGED <<sent, raised>>
      PROVE  FlagOrder'
  BY <1>2 DEF WaitFlag
<1>3. ASSUME NEW c \in Core, NEW f \in Flag, Signal(c, f), UNCHANGED <<raised, waited>>
      PROVE  FlagOrder'
  BY <1>3 DEF Signal
<1>4. ASSUME NEW c \in Core,
             WaitAiv(c) \/ WaitAic(c) \/ WaitAicAiv(c)
      PROVE  FlagOrder'
  BY <1>2, <1>4 DEF WaitAiv, WaitAic, WaitAicAiv, Flag
<1>5. ASSUME NEW c \in Core,
             SyncAic(c) \/ SyncAicAiv(c) \/ SyncAiv(c)
      PROVE  FlagOrder'
  BY <1>3, <1>5 DEF SyncAic, SyncAicAiv, SyncAiv, Flag
<1>6. ASSUME NEW f \in Flag, NEW c \in Waiter(f), Raise(f, c)
      PROVE  FlagOrder'
  BY <1>6 DEF Raise
<1>7. CASE UNCHANGED vars
  BY <1>7 DEF vars
<1> QED
  BY <1>1, <1>4, <1>5, <1>6, <1>7 DEF Next, CoreStep

\* pipe_barrier(PIPE_ALL) lets no core into SyncAll with work in flight.
LEMMA DrainedStep ==
  ASSUME IInv, [Next]_vars
  PROVE  Drained'
<1> USE CoreKinds DEF IInv, TypeOK, Drained
<1>1. ASSUME NEW c \in Core, Issue(c) \/ Finish(c)
      PROVE  Drained'
  BY <1>1 DEF Issue, Finish, core
<1>2. ASSUME NEW c \in Core, Arrive(c)
      PROVE  Drained'
  BY <1>2 DEF Arrive, Goto, PipeBarrierAll
<1>3. ASSUME NEW c \in Core,
             WaitAiv(c) \/ SyncAic(c) \/ WaitAic(c) \/ SyncAicAiv(c)
             \/ SyncAiv(c) \/ WaitAicAiv(c)
      PROVE  Drained'
  BY <1>3 DEF WaitAiv, SyncAic, WaitAic, SyncAicAiv, SyncAiv, WaitAicAiv, Goto
<1>4. ASSUME NEW f \in Flag, NEW c \in Waiter(f), Raise(f, c)
      PROVE  Drained'
  BY <1>4 DEF Raise, core
<1>5. CASE UNCHANGED vars
  BY <1>5 DEF vars
<1> QED
  BY <1>1, <1>2, <1>3, <1>4, <1>5 DEF Next, CoreStep

\* The inductive invariant holds throughout: a core's place in SyncAll tells
\* its counters, and no flag is consumed that was not raised, or raised that
\* was not sent.
THEOREM Invariance == Spec => []IInv
<1>1. TypeOK' /\ IInv /\ [Next]_vars => IInv'
  BY CountsStep, FlagOrderStep, DrainedStep DEF IInv
<1> QED
  BY <1>1, InvInit, TypeCorrect, PTL DEF Spec

-----------------------------------------------------------------------------
\* The chain of flags: a core that has left r rounds is behind an AIC_AIV
\* event of its block's AIC, that AIC behind an AIC event of every AIC, and
\* each of those behind an AIV event of both its AIVs.
LEMMA Chain == IInv => BarrierSafe
<1> SUFFICES ASSUME IInv PROVE BarrierSafe
  OBVIOUS
<1> USE DEF IInv, TypeOK, Ahead
<1>1. \A c, d \in Cube : left[c] <= sent["AIC"][d]
  <2> SUFFICES ASSUME NEW c \in Cube, NEW d \in Cube PROVE left[c] <= sent["AIC"][d]
    OBVIOUS
  <2>1. /\ waited["AIC"][c] <= raised["AIC"][c]
        /\ raised["AIC"][c] <= sent["AIC"][d]
    BY Links DEF FlagOrder, Flag, Waiter
  <2>2. left[c] <= waited["AIC"][c]
    BY CoreKinds DEF CubeCounts
  <2> QED
    BY <2>1, <2>2, CoreKinds DEF Flag
<1>2. \A d \in Cube : sent["AIC"][d] <= arrived[d]
  <2> SUFFICES ASSUME NEW d \in Cube PROVE sent["AIC"][d] <= arrived[d]
    OBVIOUS
  <2>1. CubeCounts(d) /\ left[d] \in Nat
    BY CoreKinds
  <2> QED
    BY <2>1 DEF CubeCounts
<1>3. \A d \in Cube : \A v \in Group("AIV", d) : sent["AIC"][d] <= arrived[v]
  <2> SUFFICES ASSUME NEW d \in Cube, NEW v \in Group("AIV", d)
               PROVE  sent["AIC"][d] <= arrived[v]
    OBVIOUS
  <2>1. /\ waited["AIV"][d] <= raised["AIV"][d]
        /\ raised["AIV"][d] <= sent["AIV"][v]
    BY DEF FlagOrder, Flag, Waiter
  <2>2. sent["AIC"][d] <= waited["AIV"][d]
    BY CoreKinds DEF CubeCounts
  <2>3. v \in Vec /\ sent["AIV"][v] <= arrived[v]
    BY CoreKinds, Links DEF VecCounts
  <2> QED
    BY <2>1, <2>2, <2>3, CoreKinds DEF Flag
<1>4. \A v \in Vec : \E d \in Cube : v \in Group("AIV", d)
  BY Links
<1>5. \A v \in Vec : \E c \in Cube : left[v] <= left[c]
  <2> SUFFICES ASSUME NEW v \in Vec PROVE \E c \in Cube : left[v] <= left[c]
    OBVIOUS
  <2>1. PICK c \in Cube : c \in Group("AIC_AIV", v)
    BY Links
  <2>2. /\ waited["AIC_AIV"][v] <= raised["AIC_AIV"][v]
        /\ raised["AIC_AIV"][v] <= sent["AIC_AIV"][c]
    BY <2>1 DEF FlagOrder, Flag, Waiter
  <2>3. left[v] = waited["AIC_AIV"][v] /\ sent["AIC_AIV"][c] = left[c]
    BY DEF CubeCounts, VecCounts
  <2> QED
    BY <2>2, <2>3, CoreKinds DEF Flag
<1>6. \A c \in Cube : \A d \in Core : left[c] <= arrived[d]
  <2> SUFFICES ASSUME NEW c \in Cube, NEW d \in Core PROVE left[c] <= arrived[d]
    OBVIOUS
  <2>1. CASE d \in Cube
    BY <1>1, <1>2, <2>1, CoreKinds DEF Flag
  <2>2. CASE d \in Vec
    <3>1. PICK e \in Cube : d \in Group("AIV", e)
      BY <1>4, <2>2
    <3> QED
      BY <1>1, <1>3, <3>1, CoreKinds DEF Flag
  <2> QED
    BY <2>1, <2>2, CoreKinds
<1> QED
  <2> SUFFICES ASSUME NEW c \in Core, NEW d \in Core PROVE left[c] <= arrived[d]
    BY DEF BarrierSafe
  <2>1. CASE c \in Cube
    BY <2>1, <1>6
  <2>2. CASE c \in Vec
    <3>1. PICK e \in Cube : left[c] <= left[e]
      BY <1>5, <2>2
    <3> QED
      BY <3>1, <1>6, CoreKinds
  <2> QED
    BY <2>1, <2>2, CoreKinds

\* For any number of blocks and rounds, no core returns from its r-th SyncAll
\* before every core has called it for the r-th time, drained.
THEOREM BarrierSafety == Spec => []BarrierSafe
BY Invariance, Chain, PTL

\* Work in flight belongs to the phase its core is in, which no other core can
\* have left without this core's arrival, hence without its drain.
LEMMA Contained == IInv /\ BarrierSafe => WorkContained
<1> SUFFICES ASSUME IInv, BarrierSafe,
                    NEW c \in Core, NEW d \in Core, inflight[c]
             PROVE  left[d] <= left[c]
  BY DEF WorkContained
<1>1. pc[c] = "run"
  BY DEF IInv, Drained
<1>2. arrived[c] = left[c]
  BY <1>1, CoreKinds DEF IInv, CubeCounts, VecCounts, Ahead
<1> QED
  BY <1>2 DEF BarrierSafe

\* For any number of blocks and rounds, no core gets ahead of work another core
\* still has in its pipelines.
THEOREM Containment == Spec => []WorkContained
BY Invariance, Chain, Contained, PTL

\* A block's AIV is never ahead of its AIC.
LEMMA OwnAic ==
  ASSUME IInv, NEW v \in Vec, NEW c \in Group("AIC_AIV", v)
  PROVE  left[v] <= left[c]
<1>1. c \in Cube /\ v \in Core /\ c \in Core
  BY CoreKinds, Links
<1>2. /\ waited["AIC_AIV"][v] <= raised["AIC_AIV"][v]
      /\ raised["AIC_AIV"][v] <= sent["AIC_AIV"][c]
  BY DEF IInv, FlagOrder, Flag, Waiter
<1>3. left[v] = waited["AIC_AIV"][v] /\ sent["AIC_AIV"][c] = left[c]
  BY <1>1 DEF IInv, CubeCounts, VecCounts
<1> QED
  BY <1>1, <1>2, <1>3 DEF IInv, TypeOK, Flag

\* A core is at most one arrival, signal or wait ahead of the rounds it left.
LEMMA Steps ==
  ASSUME IInv
  PROVE  /\ \A c \in Core : left[c] \in Nat /\ arrived[c] \in Nat
         /\ \A f \in Flag : \A c \in Core : /\ sent[f][c] \in Nat
                                            /\ raised[f][c] \in Nat
                                            /\ waited[f][c] \in Nat
         /\ \A c \in Core : arrived[c] <= left[c] + 1
         /\ \A c \in Cube : /\ left[c] <= waited["AIV"][c]
                            /\ left[c] <= waited["AIC"][c]
                            /\ sent["AIC"][c] <= left[c] + 1
                            /\ sent["AIC_AIV"][c] = left[c]
         /\ \A v \in Vec : /\ sent["AIV"][v] <= left[v] + 1
                           /\ waited["AIC_AIV"][v] = left[v]
<1>1. /\ \A c \in Core : left[c] \in Nat /\ arrived[c] \in Nat
      /\ \A f \in Flag : \A c \in Core : /\ sent[f][c] \in Nat
                                         /\ raised[f][c] \in Nat
                                         /\ waited[f][c] \in Nat
  BY DEF IInv, TypeOK
<1>2. ASSUME NEW c \in Cube
      PROVE  /\ arrived[c] <= left[c] + 1
             /\ left[c] <= waited["AIV"][c]
             /\ left[c] <= waited["AIC"][c]
             /\ sent["AIC"][c] <= left[c] + 1
             /\ sent["AIC_AIV"][c] = left[c]
  <2>1. CubeCounts(c) /\ left[c] \in Nat
    BY <1>1, CoreKinds DEF IInv
  <2> QED
    BY <2>1 DEF CubeCounts, Ahead
<1>3. ASSUME NEW v \in Vec
      PROVE  /\ arrived[v] <= left[v] + 1
             /\ sent["AIV"][v] <= left[v] + 1
             /\ waited["AIC_AIV"][v] = left[v]
  <2>1. VecCounts(v) /\ left[v] \in Nat
    BY <1>1, CoreKinds DEF IInv
  <2> QED
    BY <2>1 DEF VecCounts, Ahead
<1> QED
  BY <1>1, <1>2, <1>3, CoreKinds

\* Bounds on the flags follow from how far apart the barrier lets cores be.
LEMMA Depth == IInv /\ BarrierSafe => FlagDepth
<1> SUFFICES ASSUME IInv, BarrierSafe PROVE FlagDepth
  OBVIOUS
<1> DEFINE Bounded(f, c, n) ==
      /\ raised[f][c] <= waited[f][c] + 1
      /\ \A d \in Group(f, c) : sent[f][d] <= raised[f][c] + n
<1> HIDE DEF Bounded
<1>1. ASSUME NEW c \in Cube PROVE Bounded("AIV", c, 1)
  <2>1. PICK v \in Vec : v \in Group("AIV", c)
    <3>1. PICK b \in Block : c = <<b, "aic">>
      BY DEF Cube
    <3>2. <<b, "aiv0">> \in Vec /\ <<b, "aiv0">> \in Group("AIV", c)
      BY <3>1 DEF Vec, Group
    <3> QED
      BY <3>2
  <2>2. /\ waited["AIV"][c] <= raised["AIV"][c]
        /\ \A d \in Group("AIV", c) : raised["AIV"][c] <= sent["AIV"][d]
    BY DEF IInv, FlagOrder, Flag, Waiter
  <2>3. ASSUME NEW d \in Group("AIV", c)
        PROVE  sent["AIV"][d] <= left[c] + 1 /\ d \in Core
    <3>1. d \in Vec /\ c \in Group("AIC_AIV", d)
      BY Links
    <3>2. left[d] <= left[c]
      BY <3>1, OwnAic
    <3> QED
      BY <3>1, <3>2, Steps, CoreKinds DEF Flag
  <2> QED
    BY <2>1, <2>2, <2>3, Steps, CoreKinds DEF Bounded, Flag
<1>2. ASSUME NEW c \in Cube PROVE Bounded("AIC", c, 2)
  <2>1. /\ waited["AIC"][c] <= raised["AIC"][c]
        /\ \A d \in Cube : raised["AIC"][c] <= sent["AIC"][d]
    BY Links DEF IInv, FlagOrder, Flag, Waiter
  <2>2. ASSUME NEW d \in Cube PROVE sent["AIC"][d] <= left[c] + 2
    <3>1. left[d] <= arrived[c] /\ arrived[c] <= left[c] + 1
      BY Steps, CoreKinds DEF BarrierSafe
    <3> QED
      BY <3>1, Steps, CoreKinds DEF Flag
  <2> QED
    BY <2>1, <2>2, Links, Steps, CoreKinds DEF Bounded, Flag
<1>3. ASSUME NEW v \in Vec PROVE Bounded("AIC_AIV", v, 1)
  <2>1. PICK c \in Cube : c \in Group("AIC_AIV", v)
    BY Links
  <2>2. /\ waited["AIC_AIV"][v] <= raised["AIC_AIV"][v]
        /\ \A d \in Group("AIC_AIV", v) : raised["AIC_AIV"][v] <= sent["AIC_AIV"][d]
    BY DEF IInv, FlagOrder, Flag, Waiter
  <2>3. ASSUME NEW d \in Group("AIC_AIV", v)
        PROVE  sent["AIC_AIV"][d] <= left[v] + 1 /\ d \in Core
    <3>1. d \in Cube
      BY Links
    <3>2. left[d] <= arrived[v]
      BY <3>1, CoreKinds DEF BarrierSafe
    <3> QED
      BY <3>1, <3>2, Steps, CoreKinds DEF Flag
  <2> QED
    BY <2>1, <2>2, <2>3, Steps, CoreKinds DEF Bounded, Flag
<1> QED
  BY <1>1, <1>2, <1>3 DEF FlagDepth, Bounded, Flag, Waiter

\* For any number of blocks and rounds, a core holds at most one event of a
\* flag, and a signaller is at most one event ahead of it, two among AICs.
THEOREM FlagDepthBound == Spec => []FlagDepth
BY Invariance, Chain, Depth, PTL

\* With all cores out of the same round, the chain of counters has closed.
LEMMA Clean == IInv => FlagsClean
<1> SUFFICES ASSUME IInv, \A c, d \in Core : pc[c] = "run" /\ left[c] = left[d],
                    NEW f \in Flag, NEW c \in Waiter(f)
             PROVE  /\ waited[f][c] = raised[f][c]
                    /\ \A d \in Group(f, c) : sent[f][d] = raised[f][c]
  BY DEF FlagsClean
<1>1. waited[f][c] = left[c]
  BY CoreKinds DEF IInv, CubeCounts, VecCounts, Ahead, Flag, Waiter
<1>2. \A d \in Group(f, c) : d \in Core /\ sent[f][d] = left[d]
  BY CoreKinds, Links DEF IInv, CubeCounts, VecCounts, Ahead, Flag, Waiter
<1>3. /\ waited[f][c] <= raised[f][c]
      /\ \A d \in Group(f, c) : raised[f][c] <= sent[f][d]
  BY DEF IInv, FlagOrder
<1>4. c \in Core /\ \E d \in Core : d \in Group(f, c)
  <2>1. CASE f = "AIV"
    <3>1. PICK b \in Block : c = <<b, "aic">>
      BY <2>1 DEF Waiter, Cube
    <3>2. <<b, "aiv0">> \in Core /\ <<b, "aiv0">> \in Group(f, c)
      BY <2>1, <3>1 DEF Core, Unit, Group
    <3> QED
      BY <3>2, CoreKinds
  <2>2. CASE f = "AIC"
    BY <2>2, CoreKinds, Links DEF Waiter
  <2>3. CASE f = "AIC_AIV"
    BY <2>3, CoreKinds, Links DEF Waiter
  <2> QED
    BY <2>1, <2>2, <2>3 DEF Flag
<1>5. raised[f][c] = left[c]
  BY <1>1, <1>2, <1>3, <1>4, Steps
<1> QED
  BY <1>1, <1>2, <1>4, <1>5

\* For any number of blocks and rounds, a round leaves no event behind for the
\* next one, or for the next launch.
THEOREM FlagsLeftClean == Spec => []FlagsClean
BY Invariance, Clean, PTL

-----------------------------------------------------------------------------
\* Which steps move the two counters the abstract barrier is made of.
LEMMA Visible ==
  ASSUME IInv, [Next]_vars
  PROVE  \/ UNCHANGED <<arrived, left>>
         \/ \E c \in Core : /\ pc[c] = "run" /\ left[c] < NRounds
                            /\ arrived' = [arrived EXCEPT ![c] = @ + 1]
                            /\ UNCHANGED left
         \/ \E c \in Core : /\ pc[c] # "run"
                            /\ left' = [left EXCEPT ![c] = @ + 1]
                            /\ UNCHANGED <<arrived, inflight>>
BY DEF Next, CoreStep, Issue, Finish, Arrive, WaitAiv, SyncAic, WaitAic,
       SyncAicAiv, SyncAiv, WaitAicAiv, Raise, Goto, Return, core, vars

\* SyncAll implements Barrier: the two counters are its state, Arrive is its
\* Arrive, the last instruction of each branch its Leave, the rest stutters.
THEOREM Refinement == Spec => ImplementsBarrier
<1>1. Init => AbstractBarrier!Init
  BY DEF Init, AbstractBarrier!Init
<1>2. IInv /\ BarrierSafe' /\ [Next]_vars => [AbstractBarrier!Next]_AbstractBarrier!vars
  <2> SUFFICES ASSUME IInv, BarrierSafe', [Next]_vars
               PROVE  [AbstractBarrier!Next]_AbstractBarrier!vars
    OBVIOUS
  <2>1. CASE UNCHANGED <<arrived, left>>
    BY <2>1 DEF AbstractBarrier!vars
  <2>2. ASSUME NEW c \in Core, pc[c] = "run", left[c] < NRounds,
               arrived' = [arrived EXCEPT ![c] = @ + 1], UNCHANGED left
        PROVE  AbstractBarrier!Arrive(c)
    <3>1. arrived[c] = left[c]
      BY <2>2, CoreKinds DEF IInv, CubeCounts, VecCounts, Ahead
    <3> QED
      BY <2>2, <3>1 DEF AbstractBarrier!Arrive
  <2>3. ASSUME NEW c \in Core, pc[c] # "run",
               left' = [left EXCEPT ![c] = @ + 1], UNCHANGED arrived
        PROVE  AbstractBarrier!Leave(c)
    <3>1. arrived[c] = left[c] + 1
      BY <2>3, CoreKinds DEF IInv, CubeCounts, VecCounts, Ahead
    <3>2. left'[c] = left[c] + 1 /\ \A d \in Core : arrived'[d] = arrived[d]
      BY <2>3 DEF IInv, TypeOK
    <3>3. \A d \in Core : arrived[d] >= arrived[c]
      <4> SUFFICES ASSUME NEW d \in Core PROVE arrived[d] >= arrived[c]
        OBVIOUS
      <4>1. left'[c] <= arrived'[d]
        BY DEF BarrierSafe
      <4> QED
        BY <3>1, <3>2, <4>1, Steps
    <3>4. left[c] < arrived[c]
      BY <3>1, Steps
    <3> QED
      BY <2>3, <3>3, <3>4 DEF AbstractBarrier!Leave
  <2> QED
    BY <2>1, <2>2, <2>3, Visible DEF AbstractBarrier!Next
<1> QED
  BY <1>1, <1>2, Invariance, BarrierSafety, PTL
     DEF Spec, ImplementsBarrier, AbstractBarrier!Spec
=============================================================================
