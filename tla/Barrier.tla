------------------------------ MODULE Barrier ------------------------------
(***************************************************************************)
(* What SyncAll<false>() promises the fused kernel: a reusable barrier     *)
(* over all the cores of a launch.  A core arrives with the work of its    *)
(* phase drained, and leaves a round only when every core has arrived at   *)
(* it.  SyncAll implements this with the FFTS cross-core flags.            *)
(***************************************************************************)
EXTENDS Naturals

CONSTANTS Core,      \* the cores that take part
          NRounds    \* how many rounds each of them goes through

VARIABLES arrived,   \* arrived[c]: rounds core c has arrived at
          left       \* left[c]: rounds core c has left

vars == <<arrived, left>>

Init == /\ arrived = [c \in Core |-> 0]
        /\ left    = [c \in Core |-> 0]

Arrive(c) == /\ arrived[c] = left[c]
             /\ left[c] < NRounds
             /\ arrived' = [arrived EXCEPT ![c] = @ + 1]
             /\ UNCHANGED left

Leave(c) == /\ left[c] < arrived[c]
            /\ \A d \in Core : arrived[d] >= arrived[c]
            /\ left' = [left EXCEPT ![c] = @ + 1]
            /\ UNCHANGED arrived

Next == \E c \in Core : Arrive(c) \/ Leave(c)

Spec == Init /\ [][Next]_vars
=============================================================================
