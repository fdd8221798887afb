------------------------------ MODULE PipeOrder ------------------------------
(***************************************************************************)
(* What makes a program of the Pipes machine correct, read off its text:   *)
(* which instructions are over when another one is issued, by the order    *)
(* that flags and barriers make, and what its operations compute if they   *)
(* are done in the order of the text.  Nothing here runs the program, so   *)
(* that it can be evaluated for programs much longer than those that can   *)
(* be run in every interleaving.  PipesProofs shows that it is enough.     *)
(***************************************************************************)
EXTENDS Pipes

Ops(c)            == {i \in DOMAIN c : c[i].kind = "op"}
SetsOf(c, lane)   == {i \in DOMAIN c : c[i].kind = "set" /\ c[i].lane = lane}
WaitsOf(c, lane)  == {i \in DOMAIN c : c[i].kind = "wait" /\ c[i].lane = lane}
WritersOf(c, x)   == {i \in Ops(c) : x \in c[i].dst}
UpTo(is, n)       == {i \in is : i <= n}

-----------------------------------------------------------------------------
(* Order *)

\* The machine itself has i over when it issues j.
Direct(c, i, j) ==
  /\ c[i].kind # "barrier"
  /\ \/ c[j].pipe = "ALL"
     \/ c[i].pipe = "S" /\ c[j].pipe # "S"
     \/ /\ c[i].pipe = c[j].pipe
        /\ \/ c[i].kind # "op"
           \/ c[j].kind \in {"set", "barrier"}
           \/ c[j].kind = "op" /\ Depth(c[j].pipe) = 1

\* The instructions in front of j that are issued before it.
Earlier(c, j) ==
  {k \in 1..(j - 1) : c[j].pipe = "ALL" \/ c[k].pipe \in {c[j].pipe, "S", "ALL"}}

\* The set_flag whose event wait_flag j consumes: the one with its number.
Matching(c, j) ==
  IF c[j].kind # "wait" THEN {}
  ELSE {s \in UpTo(SetsOf(c, c[j].lane), j) :
          Cardinality(UpTo(SetsOf(c, c[j].lane), s)) = Cardinality(UpTo(WaitsOf(c, c[j].lane), j))}

\* What is over when j is issued, if over[k] is when k is.
Follows(c, over, j) ==
  {i \in 1..(j - 1) : Direct(c, i, j)}
  \union (UNION {over[k] : k \in Earlier(c, j)})
  \union (UNION {{s} \union over[s] : s \in Matching(c, j)})

Over(c) ==
  LET upTo[j \in 0..Len(c)] ==
        IF j = 0 THEN <<>> ELSE LET over == upTo[j - 1] IN Append(over, Follows(c, over, j))
  IN  upTo[Len(c)]

Ordered(c, over) == \A j \in DOMAIN c : over[j] \subseteq Follows(c, over, j)

\* Operations that share a place are in order, unless both only read it.
InOrder(c, over) ==
  \A i, j \in Ops(c) :
     i < j /\ (c[i].dst \intersect Footprint(c[j]) # {} \/ c[j].dst \intersect Footprint(c[i]) # {})
       => i \in over[j]

\* An event is posted only when enough of those before it are consumed, and
\* all of them are consumed in the end.
EventsFit(c, over) ==
  \A s \in {s \in DOMAIN c : c[s].kind = "set"} :
     Cardinality(UpTo(SetsOf(c, c[s].lane), s))
       - Cardinality(WaitsOf(c, c[s].lane) \intersect over[s]) <= MaxPosted
EventsConsumed(c) ==
  \A i \in {i \in DOMAIN c : c[i].kind \in {"set", "wait"}} :
     Cardinality(SetsOf(c, c[i].lane)) = Cardinality(WaitsOf(c, c[i].lane))

\* No event is waited for in front of the instruction that posts it.
WaitsMatch(c) == \A j \in DOMAIN c : c[j].kind = "wait" => Matching(c, j) # {}

-----------------------------------------------------------------------------
(* Values *)

\* What the last of these writers of place x left there.
Left(values, writers, x) == IF writers = {} THEN {} ELSE values[Max(writers)][x]

\* What operation j finds in place x, and what it leaves where it writes.
Found(c, values, j, x) == Left(values, UpTo(WritersOf(c, x), j - 1), x)
Result(c, values, j) ==
  LET new == Term(c[j].tag, [k \in DOMAIN c[j].srcs |->
                                UNION {Found(c, values, j, x) : x \in c[j].srcs[k]}])
  IN  [x \in c[j].dst |-> IF c[j].add THEN Found(c, values, j, x) \union new ELSE new]

Values(c) ==
  LET upTo[j \in 0..Len(c)] ==
        IF j = 0 THEN <<>>
        ELSE LET values == upTo[j - 1]
             IN  Append(values, IF j \in Ops(c) THEN Result(c, values, j) ELSE <<>>)
  IN  upTo[Len(c)]

Computed(c, values) ==
  \A j \in Ops(c) : /\ values[j] = Result(c, values, j)
                    /\ \A k \in DOMAIN c[j].srcs : \A x \in c[j].srcs[k] : WritersOf(c, x) # {}

\* Every place that the program is to produce is written once, by an operation
\* that writes nothing else, and gets its right value.
Yields(c, values, right) ==
  \A x \in DOMAIN right : \E i \in Ops(c) :
     c[i].dst = {x} /\ WritersOf(c, x) = {i} /\ values[i][x] = right[x]

\* The scalar unit waits for what writes them before it comes to the end.
EndsDrained(c, over, right) ==
  \A x \in DOMAIN right, i \in Ops(c) :
     x \in c[i].dst => \E j \in DOMAIN c : c[j].pipe \in {"S", "ALL"} /\ i \in over[j]

-----------------------------------------------------------------------------
Synchronized(p) ==
  LET c == p.code  over == Over(c)  values == Values(c)
  IN  /\ Ordered(c, over) /\ InOrder(c, over)
      /\ EventsFit(c, over) /\ EventsConsumed(c) /\ WaitsMatch(c)
      /\ Computed(c, values) /\ Yields(c, values, p.right)

Drained(p) == EndsDrained(p.code, Over(p.code), p.right)

AllSynchronized == \A p \in Programs : Synchronized(p)

\* The texts of the programs, whichever of them runs, keep them in order.
ProgramsSynchronized == program \in Programs /\ AllSynchronized
=============================================================================
