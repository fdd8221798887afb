---------------------------- MODULE EinsumStream ----------------------------
(***************************************************************************)
(* What a caller of a built einsum runner may count on: calls are          *)
(* asynchronous, the device works them off in the order they were made,    *)
(* and each leaves the right result in its own output, for good.           *)
(***************************************************************************)
EXTENDS Naturals

CONSTANT MaxLaunches

VARIABLES enqueued,  \* calls made
          finished,  \* calls worked off
          output     \* output[n]: "open" until call n is finished, then "right"

vars == <<enqueued, finished, output>>

Init == /\ enqueued = 0
        /\ finished = 0
        /\ output = [n \in 1..MaxLaunches |-> "open"]

Call == /\ enqueued < MaxLaunches
        /\ enqueued' = enqueued + 1
        /\ UNCHANGED <<finished, output>>

WorkOff == /\ finished < enqueued
           /\ finished' = finished + 1
           /\ output' = [output EXCEPT ![finished + 1] = "right"]
           /\ UNCHANGED enqueued

Next == Call \/ WorkOff

Spec == Init /\ [][Next]_vars
=============================================================================
