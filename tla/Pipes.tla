------------------------------- MODULE Pipes -------------------------------
(***************************************************************************)
(* One AI core as the kernels of this repository program it: the scalar    *)
(* unit S hands a straight line of instructions to asynchronous pipes      *)
(* (MTE2 loads from global memory, MTE1 moves L1 to L0, M and V compute,   *)
(* FIX and MTE3 store).  A pipe takes its own instructions in order; only  *)
(*                                                                         *)
(*   set_flag(src, dst, id)   src, when its work so far is done: post      *)
(*   wait_flag(src, dst, id)  dst: consume an event, or block              *)
(*   pipe_barrier(PIPE_V)     V goes on when its work so far is done       *)
(*   pipe_barrier(PIPE_ALL)   nobody goes on before all work so far is     *)
(*                                                                         *)
(* order the work of different pipes.  An operation takes time: it         *)
(* occupies the tiles it reads and writes from its start to its finish,    *)
(* and V may start one before the one in front of it has finished.         *)
(* The hardware is external to the repository; this is the contract its    *)
(* code is written against.  Programs are given by CubePrograms and        *)
(* VecPrograms, which unroll the C++ loops.                                *)
(*                                                                         *)
(* A tile is a set of places in a buffer, so that tiles can overlap.  The  *)
(* value of a place records how it was computed, as a set of terms         *)
(* <<tag, values read>>; {} is a place nothing was written to.             *)
(***************************************************************************)
EXTENDS Integers, SequencesExt

CONSTANTS Programs,  \* the programs to run: each [code |-> sequence of
                     \* instructions, right |-> what each place of global
                     \* memory it writes is to hold]
          MaxPosted  \* the events a lane has to be able to hold

\* Instructions.
set_flag(src, dst, id)  == [kind |-> "set",  pipe |-> src, lane |-> <<src, dst, id>>]
wait_flag(src, dst, id) == [kind |-> "wait", pipe |-> dst, lane |-> <<src, dst, id>>]
pipe_barrier(pipe)      == [kind |-> "barrier", pipe |-> pipe]
\* An operation of a pipe reads the tiles of the sequence srcs and writes tile
\* dst, or adds to what it holds.
Op(pipe, tag, srcs, dst) ==
  [kind |-> "op", pipe |-> pipe, tag |-> tag, srcs |-> srcs, dst |-> dst, add |-> FALSE]
OpAdd(pipe, tag, srcs, dst) == [Op(pipe, tag, srcs, dst) EXCEPT !.add = TRUE]

\* What every kernel does: load a tile, and store one to a place of the output.
TLOAD(tile, src)        == Op("MTE2", <<"TLOAD", src>>, <<>>, tile)
TSTORE(pipe, gm, tile)  == Op(pipe, <<"TSTORE">>, <<tile>>, {gm})

\* Steps lo, lo+1, ..., hi of a loop.
Loop(lo, hi, body(_)) == FlattenSeq([i \in 1..(hi - lo + 1) |-> body(lo + i - 1)])

\* What an operation leaves in dst, given the values of its sources.
Term(tag, srcs) == {<<tag, srcs>>}

Pipe == {"S", "MTE2", "MTE1", "M", "FIX", "V", "MTE3"}
Depth(p) == IF p = "V" THEN 2 ELSE 1

\* Code is a sequence of instructions of pipes, a lane joins the pipes whose
\* instructions name it.
IsCode(code) ==
  /\ code \in Seq({code[i] : i \in DOMAIN code})
  /\ \A i \in DOMAIN code :
       \/ code[i].kind = "op" /\ code[i].pipe \in Pipe
       \/ code[i].kind = "set" /\ code[i].pipe \in Pipe /\ code[i].lane[1] = code[i].pipe
       \/ code[i].kind = "wait" /\ code[i].pipe \in Pipe /\ code[i].lane[2] = code[i].pipe
       \/ code[i].kind = "barrier" /\ code[i].pipe \in Pipe \union {"ALL"}

ASSUME ProgramsAssumption ==
  /\ \A p \in Programs : /\ DOMAIN p = {"code", "right"} /\ IsCode(p.code)
                         /\ p.right = [x \in DOMAIN p.right |-> p.right[x]]
  /\ MaxPosted \in Nat

VARIABLES program,  \* the program that runs
          at,       \* at[p]: the next instruction of pipe p
          busy,     \* busy[p]: the operations it has started, oldest first
          flag,     \* flag[l]: events posted and not consumed on lane l
          mem       \* mem[x]: the value of place x

vars == <<program, at, busy, flag, mem>>

Code == program.code
Right == program.right

\* The first instruction of pipe p from i on.
From(p, i) == Min({j \in i..Len(Code) : Code[j].pipe \in {p, "ALL"}} \union {Len(Code) + 1})

\* Everything of pipe r in front of instruction i is done.
DoneBefore(r, i) == at[r] >= i /\ \A k \in DOMAIN busy[r] : busy[r][k] > i

\* Pipe p has come to an instruction of this kind, and S has handed it out.
Instr(p) == Code[at[p]]
Is(p, kind) == /\ at[p] <= Len(Code)
               /\ Instr(p).kind = kind
               /\ p # "S" => DoneBefore("S", at[p])
Advance(p) == at' = [at EXCEPT ![p] = From(p, @ + 1)]
Done == \A p \in Pipe : at[p] > Len(Code) /\ busy[p] = <<>>

Lanes == {Code[i].lane : i \in {j \in 1..Len(Code) : Code[j].kind \in {"set", "wait"}}}
Places == UNION {Code[i].dst : i \in {j \in 1..Len(Code) : Code[j].kind = "op"}}

Init == /\ program \in Programs
        /\ at = [p \in Pipe |-> From(p, 1)]
        /\ busy = [p \in Pipe |-> <<>>]
        /\ flag = [l \in Lanes |-> 0]
        /\ mem = [x \in Places |-> {}]

SetFlag(p) == /\ Is(p, "set")
              /\ busy[p] = <<>>
              /\ flag' = [flag EXCEPT ![Instr(p).lane] = @ + 1]
              /\ Advance(p)
              /\ UNCHANGED <<program, busy, mem>>

WaitFlag(p) == /\ Is(p, "wait")
               /\ flag[Instr(p).lane] > 0
               /\ flag' = [flag EXCEPT ![Instr(p).lane] = @ - 1]
               /\ Advance(p)
               /\ UNCHANGED <<program, busy, mem>>

Barrier(p) == /\ Is(p, "barrier")
              /\ IF Instr(p).pipe = "ALL" THEN \A r \in Pipe : DoneBefore(r, at[p])
                 ELSE DoneBefore(p, at[p])
              /\ Advance(p)
              /\ UNCHANGED <<program, busy, flag, mem>>

Start(p) == /\ Is(p, "op")
            /\ Len(busy[p]) < Depth(p)
            /\ busy' = [busy EXCEPT ![p] = Append(@, at[p])]
            /\ Advance(p)
            /\ UNCHANGED <<program, flag, mem>>

Value(tile) == UNION {mem[x] : x \in tile}

Finish(p) ==
  /\ busy[p] # <<>>
  /\ LET o == Code[Head(busy[p])]
         new == Term(o.tag, [i \in DOMAIN o.srcs |-> Value(o.srcs[i])])
     IN  mem' = [x \in Places |-> IF x \notin o.dst THEN mem[x]
                                  ELSE IF o.add THEN mem[x] \union new ELSE new]
  /\ busy' = [busy EXCEPT ![p] = Tail(@)]
  /\ UNCHANGED <<program, at, flag>>

Step(p) == SetFlag(p) \/ WaitFlag(p) \/ Barrier(p) \/ Start(p) \/ Finish(p)

\* The code is through; any other end is a deadlock.
Terminated == Done /\ UNCHANGED vars

Next == (\E p \in Pipe : Step(p)) \/ Terminated

Spec == Init /\ [][Next]_vars

\* The pipes are hardware: each goes on when it can.
FairSpec == Spec /\ \A p \in Pipe : WF_vars(Step(p))

-----------------------------------------------------------------------------
(***************************************************************************)
(* Properties.                                                             *)
(***************************************************************************)
\* The types of the variables: a pipe holds instructions of its own, no more
\* than its depth.  PipesProofs proves them of any program (TypeCorrect).
TypeOK == /\ DOMAIN program = {"code", "right"}
          /\ at \in [Pipe -> 1..(Len(Code) + 1)]
          /\ \A p \in Pipe : /\ Len(busy[p]) <= Depth(p)
                             /\ \A i \in DOMAIN busy[p] : Code[busy[p][i]].pipe = p
          /\ DOMAIN flag = Lanes /\ \A l \in Lanes : flag[l] \in Nat
          /\ DOMAIN mem = Places

\* No operation writes a tile that another one in progress reads or writes:
\* every reuse of a buffer is ordered by the flags, whatever time the loads,
\* the computations and the stores take.
InProgress == UNION {{busy[p][i] : i \in DOMAIN busy[p]} : p \in Pipe}
Footprint(o) == o.dst \union UNION {o.srcs[i] : i \in DOMAIN o.srcs}
NoRace == \A i, j \in InProgress :
             i # j => Code[i].dst \intersect Footprint(Code[j]) = {}

\* The events that pile up on a lane stay within what the code has buffers
\* for: one, so that it does not even matter whether the hardware counts them,
\* or two where a pipe may post again before the last event is consumed.
FlagDepth == \A l \in Lanes : flag[l] <= MaxPosted

\* No flag state leaks out of the code into what runs next on the core.
NoFlagLeak == Done => \A l \in Lanes : flag[l] = 0

\* Every place of global memory the code writes gets its right value, once,
\* and keeps it: the code implements Produce.
Out == [x \in DOMAIN Right |-> mem[x]]
Produces == INSTANCE Produce WITH
              Rights <- {p.right : p \in Programs},
              right <- Right, out <- Out
ImplementsProduce == Produces!Spec

\* The code runs to its end, and then everything has been produced.
Completes == <>(Done /\ Out = Right)

\* When the scalar unit has come to the end of the kernel, which is all that
\* keeps the core from retiring, the results are in memory.
StoresDrained == at["S"] > Len(Code) => Out = Right
=============================================================================
