------------------------------ MODULE MCRecipe ------------------------------
(***************************************************************************)
(* Recipe on every shape of equation with up to four labels, for a few     *)
(* sizes each, with the kernel's granule of 16 scaled down to 2 and its    *)
(* buffers with it.                                                        *)
(***************************************************************************)
EXTENDS Recipe

CONSTANTS MaxRank,    \* axes of an operand
          MaxLabel,   \* distinct labels of an equation
          Sizes,      \* the sizes of the labels, one sequence per choice
          Envs        \* dtype, device and environment variables of a build

Labelings == UNION {{s \in [1..k -> 1..MaxLabel] : IsInjective(s)} : k \in 0..MaxRank}

\* Labels are named in the order they appear: operand 0 is <<1, .., n>>.
Named(n, in1) ==
    LET fresh == SelectSeq(in1, LAMBDA a : a > n)
    IN  fresh = [i \in DOMAIN fresh |-> n + i]

Build(in0, in1, out, size, env) ==
    [in0 |-> in0, in1 |-> in1, out |-> out,
     shape0 |-> Permuted(size, in0), shape1 |-> Permuted(size, in1)] @@ env

\* Whether build() accepts an equation does not depend on sizes or environment.
Buildable(e) ==
    LET p == Build(e[1], e[2], e[3], CHOOSE size \in Sizes : TRUE, CHOOSE env \in Envs : TRUE)
    IN  Valid(Equation(p)) /\ Solo(Equation(p)) = {}

Equations ==
    {e \in {Identity(n) : n \in 0..MaxRank} \X Labelings \X Labelings :
        Named(Len(e[1]), e[2]) /\ Buildable(e)}

\* Every equation that build() accepts ...
Accepted == {Build(e[1], e[2], e[3], size, env) :
                e \in Equations, size \in Sizes, env \in Envs}

\* ... products on four axes each, those of attention first ...
FourAxes ==
    {Build(e[1], e[2], e[3], <<2, 4, 2, 4, 3>>, env) :
        e \in {<<<<1, 2, 3, 4>>, <<1, 5, 3, 4>>, <<1, 3, 2, 5>>>>,
               <<<<1, 3, 2, 5>>, <<1, 5, 3, 4>>, <<1, 2, 3, 4>>>>,
               <<<<1, 3, 4, 2>>, <<1, 3, 4, 5>>, <<1, 3, 2, 5>>>>,
               <<<<1, 2, 3, 4>>, <<3, 4>>, <<1, 2, 3, 4>>>>,
               <<<<1, 2, 3, 4>>, <<1, 3>>, <<1, 2, 3, 4>>>>,
               <<<<1, 2, 4>>, <<1, 2, 3, 4>>, <<1, 2, 3, 4>>>>,
               <<<<1, 2, 3, 4>>, <<2, 4>>, <<1, 2, 3, 4>>>>},
        env \in Envs}

\* ... and equations it refuses: a label twice, an unknown label, a shape of
\* another rank, sizes that disagree, a label of one operand summed away.
Refused ==
    {[in0 |-> <<1, 1>>, in1 |-> <<1>>, out |-> <<1>>, shape0 |-> <<2, 2>>, shape1 |-> <<2>>],
     [in0 |-> <<1, 2>>, in1 |-> <<2>>, out |-> <<3>>, shape0 |-> <<2, 2>>, shape1 |-> <<2>>],
     [in0 |-> <<1, 2>>, in1 |-> <<2>>, out |-> <<1>>, shape0 |-> <<2>>, shape1 |-> <<2>>],
     [in0 |-> <<1, 2>>, in1 |-> <<2>>, out |-> <<1>>, shape0 |-> <<2, 3>>, shape1 |-> <<2>>],
     [in0 |-> <<1, 2>>, in1 |-> <<1>>, out |-> <<1>>, shape0 |-> <<2, 3>>, shape1 |-> <<2>>]}

On(dtype, device, enabled) ==
    [dtype |-> dtype, device |-> device, tile |-> 4, nt |-> enabled, swap |-> enabled]

MCSizes == {<<2, 3, 4, 2>>, <<3, 2, 1, 4>>, <<1, 4, 6, 3>>, <<5, 1, 2, 8>>, <<4, 6, 2, 4>>}

MCEnvs == {On("float32", "npu", TRUE), On("float32", "npu", FALSE), On("float16", "npu", TRUE),
           On("float32", "cpu", TRUE), On("float16", "cpu", TRUE)}

MCProblems == Accepted \cup FourAxes \cup {p @@ env : p \in Refused, env \in MCEnvs}

-----------------------------------------------------------------------------
(* The real granule and buffers: bik,bkj->bij with 32 batches of 20 rows.  *)

ThinRows ==
    {Build(<<1, 2, 3>>, <<1, 3, 4>>, <<1, 2, 4>>, <<32, rows, 16, 16>>,
           [On("float32", "npu", TRUE) EXCEPT !.tile = 128]) : rows \in {16, 20}}

\* pbq,pqc->bc with 16 rows, a contraction of 8 * p and a transposed operand 0.
SeveralAxes ==
    {Build(<<1, 2, 3>>, <<1, 3, 4>>, <<2, 4>>, <<p, 16, 8, 16>>,
           [On("float32", "npu", TRUE) EXCEPT !.tile = 128]) : p \in {1, 4}}
=============================================================================
