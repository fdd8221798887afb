------------------------------ MODULE SyncAll ------------------------------
(***************************************************************************)
(* SyncAll<false>() of pto_einsum_utils.h: the full cross-core barrier the *)
(* fused kernel calls between its phases.  Each block has one Cube core    *)
(* (AIC) and two Vector cores (AIV, its sub-blocks).  The cores talk only  *)
(* through FFTS flags:                                                     *)
(*                                                                         *)
(*   AIV  ffts mode 2 AIV_FLAG;  wait AIC_AIV_FLAG                         *)
(*   AIC  wait AIV_FLAG;  ffts mode 0 AIC_FLAG;  wait AIC_FLAG;            *)
(*        ffts mode 2 AIC_AIV_FLAG                                         *)
(*                                                                         *)
(* after a pipe_barrier(PIPE_ALL) that drains the core's own pipelines.    *)
(* The FFTS unit itself is hardware: it raises a flag on a core, some time *)
(* later, once every core of the flag's group has signalled once more than *)
(* the flag was raised.  A flag is a counter: raised - waited.             *)
(***************************************************************************)
EXTENDS Naturals

CONSTANTS Block,     \* the blocks of the launch
          NRounds    \* barrier calls per core (bounds the runs)

ASSUME NRoundsAssumption == NRounds \in Nat

Unit == {"aic", "aiv0", "aiv1"}
Core == Block \X Unit
Cube == Block \X {"aic"}
Vec  == Block \X {"aiv0", "aiv1"}

Flag == {"AIV", "AIC", "AIC_AIV"}

\* Slips in the group of a flag: AIC_FLAG sent in mode 2, to the own block
\* only; AIV_FLAG raised on the first of the two sub-blocks.
Group_AicOwnBlock(f, c) ==
  {c[1]} \X (IF f = "AIV" THEN {"aiv0", "aiv1"} ELSE {"aic"})
Group_OneAiv(f, c) == IF f = "AIC" THEN Cube
                      ELSE {c[1]} \X {IF f = "AIV" THEN "aiv0" ELSE "aic"}

\* The cores whose signals gate flag f on core c: the block's two AIVs (mode
\* 2, towards the AIC), every AIC (mode 0), the block's AIC (mode 2, towards
\* its AIVs).
Group(f, c) == IF f = "AIC" THEN Cube
               ELSE {c[1]} \X (IF f = "AIV" THEN {"aiv0", "aiv1"} ELSE {"aic"})

\* The cores that wait for flag f.
Waiter(f) == IF f = "AIC_AIV" THEN Vec ELSE Cube

VARIABLES pc,        \* pc[c]: where core c is in SyncAll; "run" outside it
          inflight,  \* inflight[c]: its pipelines hold unfinished work
          arrived,   \* arrived[c]: times it has passed pipe_barrier(PIPE_ALL)
          left,      \* left[c]: times it has returned from SyncAll
          sent,      \* sent[f][c]: ffts_cross_core_sync calls of c for flag f
          raised,    \* raised[f][c]: times the FFTS unit raised f on c
          waited     \* waited[f][c]: wait_flag_dev(f) calls c got past

core == <<pc, arrived, left>>
vars == <<pc, inflight, arrived, left, sent, raised, waited>>

PC == {"run", "wait_AIV", "sync_AIC", "wait_AIC", "sync_AIC_AIV",
       "sync_AIV", "wait_AIC_AIV"}

\* The types of the variables, for every core, whether AIC or AIV; SyncAllProofs
\* proves them (TypeCorrect) and builds on them.
TypeOK == /\ pc \in [Core -> PC]
          /\ inflight \in [Core -> BOOLEAN]
          /\ arrived \in [Core -> Nat]
          /\ left \in [Core -> Nat]
          /\ sent \in [Flag -> [Core -> Nat]]
          /\ raised \in [Flag -> [Core -> Nat]]
          /\ waited \in [Flag -> [Core -> Nat]]

Init == /\ pc = [c \in Core |-> "run"]
        /\ inflight = [c \in Core |-> FALSE]
        /\ arrived = [c \in Core |-> 0]
        /\ left = [c \in Core |-> 0]
        /\ sent = [f \in Flag |-> [c \in Core |-> 0]]
        /\ raised = [f \in Flag |-> [c \in Core |-> 0]]
        /\ waited = [f \in Flag |-> [c \in Core |-> 0]]

-----------------------------------------------------------------------------
\* The kernel around the barrier: a core issues work to its asynchronous
\* pipelines, which finish it in their own time.
Issue(c) == /\ pc[c] = "run"
            /\ ~inflight[c]
            /\ inflight' = [inflight EXCEPT ![c] = TRUE]
            /\ UNCHANGED <<core, sent, raised, waited>>

Finish(c) == /\ inflight[c]
             /\ inflight' = [inflight EXCEPT ![c] = FALSE]
             /\ UNCHANGED <<core, sent, raised, waited>>

\* The three instructions SyncAll is made of.
Goto(c, from, to) == /\ pc[c] = from
                     /\ pc' = [pc EXCEPT ![c] = to]

Signal(c, f) == sent' = [sent EXCEPT ![f][c] = @ + 1]

\* A slip: the wait looks at the flag without consuming it.
WaitFlag_Peek(c, f) == waited[f][c] < raised[f][c] /\ UNCHANGED waited
WaitFlag(c, f) == /\ waited[f][c] < raised[f][c]
                  /\ waited' = [waited EXCEPT ![f][c] = @ + 1]

Return(c) == left' = [left EXCEPT ![c] = @ + 1]

\* The call: pipe_barrier(PIPE_ALL) lets the core on when its pipelines are
\* empty.  The slip: leave it out.
PipeBarrierAll_Missing(c) == TRUE
PipeBarrierAll(c) == ~inflight[c]

Arrive(c) == /\ left[c] < NRounds
             /\ PipeBarrierAll(c)
             /\ Goto(c, "run", IF c \in Cube THEN "wait_AIV" ELSE "sync_AIV")
             /\ arrived' = [arrived EXCEPT ![c] = @ + 1]
             /\ UNCHANGED <<inflight, left, sent, raised, waited>>

\* The AIC branch.
\* A slip: no wait for the block's own AIVs.
WaitAiv_Dropped(c) == /\ c \in Cube
                      /\ Goto(c, "wait_AIV", "sync_AIC")
                      /\ UNCHANGED <<inflight, arrived, left, sent, raised, waited>>
WaitAiv(c) == /\ c \in Cube
              /\ Goto(c, "wait_AIV", "sync_AIC")
              /\ WaitFlag(c, "AIV")
              /\ UNCHANGED <<inflight, arrived, left, sent, raised>>

\* A slip: the AIC waits for the others before it has signalled itself.
SyncAic_Late(c) == /\ c \in Cube
                   /\ Goto(c, "sync_AIC", "wait_AIC")
                   /\ \E d \in Cube : sent["AIC"][d] > sent["AIC"][c]
                   /\ Signal(c, "AIC")
                   /\ UNCHANGED <<inflight, arrived, left, raised, waited>>
SyncAic(c) == /\ c \in Cube
              /\ Goto(c, "sync_AIC", "wait_AIC")
              /\ Signal(c, "AIC")
              /\ UNCHANGED <<inflight, arrived, left, raised, waited>>

\* A slip: no wait for the other blocks' AICs.
WaitAic_Dropped(c) == /\ c \in Cube
                      /\ Goto(c, "wait_AIC", "sync_AIC_AIV")
                      /\ UNCHANGED <<inflight, arrived, left, sent, raised, waited>>
WaitAic(c) == /\ c \in Cube
              /\ Goto(c, "wait_AIC", "sync_AIC_AIV")
              /\ WaitFlag(c, "AIC")
              /\ UNCHANGED <<inflight, arrived, left, sent, raised>>

SyncAicAiv(c) == /\ c \in Cube
                 /\ Goto(c, "sync_AIC_AIV", "run")
                 /\ Signal(c, "AIC_AIV")
                 /\ Return(c)
                 /\ UNCHANGED <<inflight, arrived, raised, waited>>

\* The AIV branch.
SyncAiv(c) == /\ c \in Vec
              /\ Goto(c, "sync_AIV", "wait_AIC_AIV")
              /\ Signal(c, "AIV")
              /\ UNCHANGED <<inflight, arrived, left, raised, waited>>

WaitAicAiv(c) == /\ c \in Vec
                 /\ Goto(c, "wait_AIC_AIV", "run")
                 /\ WaitFlag(c, "AIC_AIV")
                 /\ Return(c)
                 /\ UNCHANGED <<inflight, arrived, sent, raised>>

\* The FFTS unit (hardware).
Raise(f, c) == /\ \A d \in Group(f, c) : raised[f][c] < sent[f][d]
               /\ raised' = [raised EXCEPT ![f][c] = @ + 1]
               /\ UNCHANGED <<core, inflight, sent, waited>>

CoreStep(c) == \/ Arrive(c)
               \/ WaitAiv(c) \/ SyncAic(c) \/ WaitAic(c) \/ SyncAicAiv(c)
               \/ SyncAiv(c) \/ WaitAicAiv(c)

Next == \/ \E c \in Core : Issue(c) \/ Finish(c) \/ CoreStep(c)
        \/ \E f \in Flag : \E c \in Waiter(f) : Raise(f, c)

Spec == Init /\ [][Next]_vars

\* A core that can execute its next instruction does; a pipeline finishes
\* what it was given; the FFTS unit delivers.  Issuing work is the kernel's
\* choice and is not forced.
Fairness == /\ \A c \in Core : WF_vars(Finish(c)) /\ WF_vars(CoreStep(c))
            /\ \A f \in Flag : \A c \in Waiter(f) : WF_vars(Raise(f, c))

FairSpec == Spec /\ Fairness

-----------------------------------------------------------------------------
(***************************************************************************)
(* Properties.                                                             *)
(***************************************************************************)

\* No core returns from its r-th SyncAll before every core, of every block and
\* of both kinds, has drained its pipelines and called it for the r-th time
\* (the three flags chain all the AIVs to all the AICs and back).
BarrierSafe == \A c, d \in Core : left[c] <= arrived[d]

\* What the kernel needs of it: while a core's pipelines still hold work of
\* the phase it is in, no core has moved on to a later phase.
WorkContained == \A c, d \in Core : inflight[c] => left[d] <= left[c]

\* The barrier reuses three flag ids round after round.  No flag ever holds
\* more than one event its core has not consumed; and no core signals further
\* ahead of a receiver than one event, except towards another block's AIC,
\* whose event may still be on its way when the fast block's AIC, released by
\* its own, signals the next round: two.
FlagDepth == \A f \in Flag : \A c \in Waiter(f) :
                /\ raised[f][c] <= waited[f][c] + 1
                /\ \A d \in Group(f, c) :
                      sent[f][d] <= raised[f][c] + (IF f = "AIC" THEN 2 ELSE 1)

\* Nothing is left in the FFTS unit when the cores have all come out of the
\* same round, which is how one launch hands the flags over to the next.
FlagsClean == (\A c, d \in Core : pc[c] = "run" /\ left[c] = left[d]) =>
                 \A f \in Flag : \A c \in Waiter(f) :
                    /\ waited[f][c] = raised[f][c]
                    /\ \A d \in Group(f, c) : sent[f][d] = raised[f][c]

\* The barrier implements the abstract one.
AbstractBarrier == INSTANCE Barrier
ImplementsBarrier == AbstractBarrier!Spec

\* Once every core has called SyncAll for the r-th time, all of them return:
\* the flag chain never leaves two cores waiting on each other.
AllReturn == \A r \in 1..NRounds :
                (\A c \in Core : arrived[c] >= r) ~> (\A c \in Core : left[c] >= r)
=============================================================================
