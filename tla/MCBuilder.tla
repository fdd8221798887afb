----------------------------- MODULE MCBuilder -----------------------------
(***************************************************************************)
(* Three builders of the same code: two in one process, one of them with   *)
(* other defines, and one in another process.                              *)
(***************************************************************************)
EXTENDS Builder

MCProcessOf == [b \in Builders |-> IF b = "b3" THEN "q" ELSE "p"]
MCMaxBuilds == [b \in Builders |-> IF b = "b1" THEN 2 ELSE 1]
MCJobOf == [b \in Builders |-> [code |-> "c", defs |-> IF b = "b2" THEN "stop" ELSE "none"]]
=============================================================================
