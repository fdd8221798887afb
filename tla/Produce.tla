------------------------------ MODULE Produce ------------------------------
(***************************************************************************)
(* What a stretch of kernel code promises to the phases around it: each    *)
(* slot of global memory it is responsible for goes once from its old      *)
(* value to its right one, in any order, and nothing else happens to it.   *)
(***************************************************************************)
CONSTANT Rights    \* the functions from slots to right values that some
                   \* stretch of code is to produce

VARIABLES right,   \* the one this code is to produce
          out      \* out[s]: what slot s holds; {} until it is written

vars == <<right, out>>

Init == /\ right \in Rights
        /\ out = [s \in DOMAIN right |-> {}]

Write(s) == /\ out[s] = {}
            /\ out' = [out EXCEPT ![s] = right[s]]
            /\ UNCHANGED right

Next == \E s \in DOMAIN right : Write(s)

Spec == Init /\ [][Next]_vars
=============================================================================
