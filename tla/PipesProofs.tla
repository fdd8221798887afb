----------------------------- MODULE PipesProofs -----------------------------
(***************************************************************************)
(* Proofs about Pipes.                                                     *)
(*                                                                         *)
(* For programs of any length: one that is synchronized by its text        *)
(* (PipeOrder) does the same in every interleaving, whatever time its      *)
(* operations take.                                                        *)
(*                                                                         *)
(* And how a text is shown to be synchronized, instruction by instruction: *)
(* who may touch a place (Owns), which event brings that with it (Passed), *)
(* which events are to be waited for, what the places hold, and the rule   *)
(* of each kind of instruction for all of these.  ProgramProofs applies    *)
(* the rules to the kernels' loops.                                        *)
(***************************************************************************)
EXTENDS PipeOrder, Arithmetic, TLAPS, FiniteSetTheorems, SequenceTheorems, WellFoundedInduction

Indices == 1..Len(Code)

\* The operations pipe p has started and not finished.
Busy(p) == {busy[p][k] : k \in DOMAIN busy[p]}

\* Pipe p goes by instruction i.
Its(p, i) == Code[i].pipe \in {p, "ALL"}

(***************************************************************************)
(* Types: a pipe stands at an instruction of its own or at the end, and    *)
(* what it has in progress are operations of its own in front of it, in    *)
(* the order of the text.                                                  *)
(***************************************************************************)
TInv ==
    /\ program \in Programs
    /\ at \in [Pipe -> 1..(Len(Code) + 1)]
    /\ busy \in [Pipe -> Seq(Nat)]
    /\ flag \in [Lanes -> Nat]
    /\ mem = [x \in Places |-> mem[x]]
    /\ \A p \in Pipe :
          /\ at[p] <= Len(Code) => Its(p, at[p])
          /\ Len(busy[p]) <= Depth(p)
          /\ \A i \in Busy(p) : i \in Ops(Code) /\ Code[i].pipe = p /\ i < at[p]
          /\ \A k, m \in DOMAIN busy[p] : k < m => busy[p][k] < busy[p][m]

-----------------------------------------------------------------------------
(* The text *)

\* The smallest of some natural numbers.
LEMMA MinIs ==
    ASSUME NEW T \in SUBSET Nat, T # {}
    PROVE  Min(T) \in T /\ \A y \in T : Min(T) <= y
  <1>. DEFINE Below == {ss \in Nat \X Nat : ss[1] < ss[2]}
  <1>1. IsWellFoundedOn(Below, Nat)
    BY NatLessThanWellFounded DEF OpToRel
  <1>2. PICK m \in T : \A k \in T : ~ (<<k, m>> \in Below)
    <2>. HIDE DEF Below
    <2>. QED  BY <1>1, WFMin
  <1>3. ASSUME NEW k \in T PROVE m <= k
    <2>1. k \in Nat /\ m \in Nat /\ (k < m => <<k, m>> \in Below)
      OBVIOUS
    <2>. HIDE DEF Below
    <2>. QED  BY <1>2, <2>1
  <1>. QED  BY <1>3 DEF Min

\* The largest of some natural numbers, when it is known.
LEMMA MaxIs ==
    ASSUME NEW T \in SUBSET Nat, NEW m \in T, \A k \in T : k <= m
    PROVE  Max(T) = m
  <1>1. \A y \in T : m >= y
    OBVIOUS
  <1>2. ASSUME NEW x \in T, \A y \in T : x >= y PROVE x = m
    <2>1. x >= m /\ m >= x /\ x \in Nat /\ m \in Nat
      BY <1>1, <1>2
    <2>. QED  BY <2>1
  <1>. QED  BY <1>1, <1>2 DEF Max

\* Code is a finite sequence, its pipes are pipes.
LEMMA CodeIs ==
    ASSUME program \in Programs
    PROVE  /\ Len(Code) \in Nat /\ DOMAIN Code = Indices /\ IsCode(Code)
           /\ \A i \in Indices : Code[i].kind # "barrier" => Code[i].pipe \in Pipe
           /\ Ops(Code) \subseteq Indices /\ "ALL" \notin Pipe
  <1>1. IsCode(Code)
    BY ProgramsAssumption DEF Code
  <1>2. Code \in Seq({Code[i] : i \in DOMAIN Code})
    BY <1>1 DEF IsCode
  <1>3. Len(Code) \in Nat /\ DOMAIN Code = Indices
    BY <1>2, LenProperties DEF Indices
  <1>4. \A i \in Indices : Code[i].kind # "barrier" => Code[i].pipe \in Pipe
    BY <1>1, <1>3 DEF IsCode
  <1>. QED  BY <1>1, <1>3, <1>4 DEF Ops, Pipe

\* Where a pipe goes next.
LEMMA FromIs ==
    ASSUME program \in Programs, NEW p, NEW i \in 1..(Len(Code) + 1)
    PROVE  /\ From(p, i) \in i..(Len(Code) + 1)
           /\ From(p, i) <= Len(Code) => Its(p, From(p, i))
           /\ \A j \in Indices : i <= j /\ j < From(p, i) => ~Its(p, j)
  <1>. DEFINE T == {j \in i..Len(Code) : Code[j].pipe \in {p, "ALL"}} \union {Len(Code) + 1}
  <1>1. Len(Code) \in Nat
    BY CodeIs
  <1>2. T \subseteq Nat /\ T # {}
    BY <1>1
  <1>3. From(p, i) = Min(T)
    BY DEF From
  <1>4. Min(T) \in T /\ \A y \in T : Min(T) <= y
    <2>. HIDE DEF T
    <2>. QED  BY <1>2, MinIs
  <1>5. From(p, i) \in i..(Len(Code) + 1)
    BY <1>1, <1>3, <1>4
  <1>6. From(p, i) <= Len(Code) => Its(p, From(p, i))
    BY <1>1, <1>3, <1>4 DEF Its
  <1>7. ASSUME NEW j \in Indices, i <= j, j < From(p, i), Its(p, j) PROVE FALSE
    <2>1. j \in T
      BY <1>7 DEF Its, Indices
    <2>2. Min(T) <= j
      BY <1>4, <2>1
    <2>. QED  BY <1>3, <1>5, <1>7, <2>2 DEF Indices
  <1>. QED  BY <1>5, <1>6, <1>7

-----------------------------------------------------------------------------
(* Steps *)

\* A pipe goes past the instruction it is at, and starts it if it is an operation.
Issues(p) ==
    /\ at[p] \in Indices /\ (p # "S" => DoneBefore("S", at[p]))
    /\ at' = [at EXCEPT ![p] = From(p, at[p] + 1)]
    /\ program' = program /\ mem' = mem
    /\ \/ Instr(p).kind = "op" /\ busy' = [busy EXCEPT ![p] = Append(@, at[p])]
       \/ Instr(p).kind # "op" /\ busy' = busy

\* What it waited for.
Ready(p) ==
    /\ Instr(p).kind = "set" => SetFlag(p) /\ busy[p] = <<>>
    /\ Instr(p).kind = "wait" => WaitFlag(p) /\ flag[Instr(p).lane] > 0
    /\ Instr(p).kind = "op" => UNCHANGED flag /\ Len(busy[p]) < Depth(p)
    /\ Instr(p).kind = "barrier" =>
          /\ UNCHANGED flag
          /\ IF Instr(p).pipe = "ALL" THEN \A r \in Pipe : DoneBefore(r, at[p])
             ELSE DoneBefore(p, at[p])

\* Every step issues an instruction or finishes an operation.
LEMMA StepIs ==
    ASSUME TInv, NEW p \in Pipe, Step(p)
    PROVE  (Issues(p) /\ Ready(p)) \/ Finish(p)
  <1>1. ASSUME Is(p, "set") \/ Is(p, "wait") \/ Is(p, "barrier") \/ Is(p, "op")
        PROVE  at[p] \in Indices /\ (p # "S" => DoneBefore("S", at[p]))
    BY <1>1, CodeIs DEF Is, TInv, Indices
  <1>2. CASE SetFlag(p)
    BY <1>1, <1>2 DEF SetFlag, Issues, Ready, Advance, Is
  <1>3. CASE WaitFlag(p)
    BY <1>1, <1>3 DEF WaitFlag, Issues, Ready, Advance, Is
  <1>4. CASE Barrier(p)
    BY <1>1, <1>4 DEF Barrier, Issues, Ready, Advance, Is
  <1>5. CASE Start(p)
    BY <1>1, <1>5 DEF Start, Issues, Ready, Advance, Is
  <1>. QED  BY <1>2, <1>3, <1>4, <1>5 DEF Step

\* What is in progress when an operation starts ...
LEMMA Started ==
    ASSUME TInv, NEW p \in Pipe, at[p] \in Indices, busy' = [busy EXCEPT ![p] = Append(@, at[p])]
    PROVE  /\ Busy(p)' = Busy(p) \union {at[p]}
           /\ busy'[p] \in Seq(Nat) /\ Len(busy'[p]) = Len(busy[p]) + 1
           /\ \A k, m \in DOMAIN busy'[p] : k < m => busy'[p][k] < busy'[p][m]
  <1>1. busy[p] \in Seq(Nat) /\ at[p] \in Nat /\ busy'[p] = Append(busy[p], at[p])
    BY CodeIs DEF TInv, Indices
  <1>2. Len(busy[p]) \in Nat /\ DOMAIN busy[p] = 1..Len(busy[p])
    BY <1>1, LenProperties
  <1>3. /\ busy'[p] \in Seq(Nat) /\ Len(busy'[p]) = Len(busy[p]) + 1
        /\ DOMAIN busy'[p] = 1..(Len(busy[p]) + 1)
        /\ \A k \in 1..Len(busy[p]) : busy'[p][k] = busy[p][k]
        /\ busy'[p][Len(busy[p]) + 1] = at[p]
    BY <1>1, <1>2, AppendProperties, LenProperties
  <1>4. Busy(p)' = Busy(p) \union {at[p]}
    BY <1>2, <1>3 DEF Busy
  <1>5. ASSUME NEW k \in DOMAIN busy'[p], NEW m \in DOMAIN busy'[p], k < m
        PROVE  busy'[p][k] < busy'[p][m]
    <2>1. k \in 1..Len(busy[p]) /\ busy'[p][k] = busy[p][k] /\ busy[p][k] \in Busy(p)
      BY <1>2, <1>3, <1>5 DEF Busy
    <2>2. busy[p][k] < at[p]
      BY <2>1 DEF TInv
    <2>3. CASE m = Len(busy[p]) + 1
      BY <1>3, <2>1, <2>2, <2>3
    <2>4. CASE m \in 1..Len(busy[p])
      BY <1>2, <1>3, <1>5, <2>1, <2>4 DEF TInv
    <2>. QED  BY <1>2, <1>3, <2>3, <2>4
  <1>. QED  BY <1>3, <1>4, <1>5

\* ... and when one finishes.
LEMMA Finished ==
    ASSUME TInv, NEW p \in Pipe, Finish(p)
    PROVE  /\ Head(busy[p]) \in Busy(p) /\ Busy(p)' = Busy(p) \ {Head(busy[p])}
           /\ busy'[p] \in Seq(Nat) /\ Len(busy'[p]) <= Len(busy[p])
           /\ \A k, m \in DOMAIN busy'[p] : k < m => busy'[p][k] < busy'[p][m]
  <1>1. busy[p] \in Seq(Nat) /\ busy[p] # <<>> /\ busy'[p] = Tail(busy[p])
    BY DEF Finish, TInv
  <1>2. Len(busy[p]) \in Nat \ {0} /\ DOMAIN busy[p] = 1..Len(busy[p]) /\ Head(busy[p]) = busy[p][1]
    BY <1>1, LenProperties, EmptySeq
  <1>3. /\ busy'[p] \in Seq(Nat) /\ Len(busy'[p]) = Len(busy[p]) - 1
        /\ DOMAIN busy'[p] = 1..(Len(busy[p]) - 1)
        /\ \A k \in 1..(Len(busy[p]) - 1) : busy'[p][k] = busy[p][k + 1]
    BY <1>1, <1>2, HeadTailProperties, LenProperties
  <1>0. \A k, m \in DOMAIN busy[p] : k < m => busy[p][k] < busy[p][m]
    BY DEF TInv
  <1>4. ASSUME NEW k \in DOMAIN busy[p], k # 1 PROVE busy[p][1] < busy[p][k]
    <2>1. 1 \in DOMAIN busy[p] /\ 1 < k
      BY <1>2, <1>4
    <2>. QED  BY <1>0, <2>1
  <1>5. Busy(p)' = Busy(p) \ {Head(busy[p])}
    <2>1. ASSUME NEW i \in Busy(p)' PROVE i \in Busy(p) /\ i # Head(busy[p])
      <3>1. PICK k \in 1..(Len(busy[p]) - 1) : i = busy[p][k + 1]
        BY <1>3 DEF Busy
      <3>2. k + 1 \in DOMAIN busy[p] /\ k + 1 # 1
        BY <1>2
      <3>3. busy[p][1] < busy[p][k + 1] /\ busy[p][1] \in Nat
        BY <1>1, <1>2, <1>4, <3>2
      <3>. QED  BY <1>2, <3>1, <3>2, <3>3 DEF Busy
    <2>2. ASSUME NEW i \in Busy(p), i # Head(busy[p]) PROVE i \in Busy(p)'
      <3>1. PICK k \in DOMAIN busy[p] : i = busy[p][k]
        BY DEF Busy
      <3>2. k - 1 \in 1..(Len(busy[p]) - 1) /\ busy'[p][k - 1] = busy[p][k]
        BY <1>2, <1>3, <2>2, <3>1
      <3>. QED  BY <1>3, <3>1, <3>2 DEF Busy
    <2>. QED  BY <2>1, <2>2
  <1>6. ASSUME NEW k \in DOMAIN busy'[p], NEW m \in DOMAIN busy'[p], k < m
        PROVE  busy'[p][k] < busy'[p][m]
    <2>1. k + 1 \in DOMAIN busy[p] /\ m + 1 \in DOMAIN busy[p] /\ k + 1 < m + 1
      BY <1>2, <1>3, <1>6
    <2>2. busy[p][k + 1] < busy[p][m + 1]
      BY <1>0, <2>1
    <2>3. busy'[p][k] = busy[p][k + 1] /\ busy'[p][m] = busy[p][m + 1]
      BY <1>3, <1>6
    <2>. QED  BY <2>2, <2>3
  <1>7. Head(busy[p]) \in Busy(p)
    BY <1>2 DEF Busy
  <1>. QED  BY <1>2, <1>3, <1>5, <1>6, <1>7

\* Events are counted.
LEMMA FlagTyped ==
    ASSUME TInv, NEW p \in Pipe, Step(p)
    PROVE  flag' \in [Lanes -> Nat]
  <1>1. CASE SetFlag(p)
    <2>1. flag' = [flag EXCEPT ![Instr(p).lane] = @ + 1]
      BY <1>1 DEF SetFlag
    <2>2. Instr(p).lane \in Lanes
      <3>1. at[p] \in 1..Len(Code) /\ Code[at[p]].kind = "set"
        BY <1>1, CodeIs DEF SetFlag, Is, Instr, TInv
      <3>. QED  BY <3>1 DEF Lanes, Instr
    <2>3. flag[Instr(p).lane] + 1 \in Nat
      BY <2>2 DEF TInv
    <2>. QED  BY <2>1, <2>3 DEF TInv
  <1>2. CASE WaitFlag(p)
    <2>1. flag' = [flag EXCEPT ![Instr(p).lane] = @ - 1] /\ flag[Instr(p).lane] > 0
      BY <1>2 DEF WaitFlag
    <2>2. Instr(p).lane \in Lanes
      <3>1. at[p] \in 1..Len(Code) /\ Code[at[p]].kind = "wait"
        BY <1>2, CodeIs DEF WaitFlag, Is, Instr, TInv
      <3>. QED  BY <3>1 DEF Lanes, Instr
    <2>3. flag[Instr(p).lane] - 1 \in Nat
      BY <2>1, <2>2 DEF TInv
    <2>. QED  BY <2>1, <2>3 DEF TInv
  <1>3. CASE ~SetFlag(p) /\ ~WaitFlag(p)
    BY <1>3 DEF Step, Barrier, Start, Finish, TInv
  <1>. QED  BY <1>1, <1>2, <1>3

\* Every step keeps the types.
LEMMA TypedStep ==
    ASSUME TInv, NEW p \in Pipe, Step(p)
    PROVE  TInv'
  <1>. USE DEF TInv
  <1>1. program' = program
    BY DEF Step, SetFlag, WaitFlag, Barrier, Start, Finish
  <1>2. /\ Code' = Code /\ Lanes' = Lanes /\ Places' = Places
        /\ \A q, i : Its(q, i)' = Its(q, i)
    BY <1>1 DEF Code, Lanes, Places, Its
  <1>3. flag' \in [Lanes -> Nat]
    BY FlagTyped
  <1>4. CASE Issues(p)
    <2>1. at[p] + 1 \in 1..(Len(Code) + 1) /\ Len(Code) \in Nat
      BY <1>4, CodeIs DEF Issues, Indices
    <2>2. /\ From(p, at[p] + 1) \in (at[p] + 1)..(Len(Code) + 1)
          /\ From(p, at[p] + 1) <= Len(Code) => Its(p, From(p, at[p] + 1))
      BY <2>1, FromIs
    <2>3. /\ at' = [at EXCEPT ![p] = From(p, at[p] + 1)] /\ mem' = mem
          /\ at' \in [Pipe -> 1..(Len(Code) + 1)]
      BY <1>4, <2>1, <2>2 DEF Issues
    <2>4. \A q \in Pipe : at'[q] <= Len(Code) => Its(q, at'[q])
      BY <2>2, <2>3
    <2>5. \A q \in Pipe : at[q] <= at'[q]
      BY <2>1, <2>2, <2>3
    <2>6. CASE busy' = busy
      <3>1. \A q \in Pipe : Busy(q)' = Busy(q)
        BY <2>6 DEF Busy
      <3>2. ASSUME NEW q \in Pipe, NEW i \in Busy(q)'
            PROVE  i \in Ops(Code) /\ Code[i].pipe = q /\ i < at'[q]
        <4>1. i \in Ops(Code) /\ Code[i].pipe = q /\ i < at[q] /\ i \in Indices
          BY <3>1, <3>2, CodeIs
        <4>. QED  BY <2>3, <2>5, <4>1 DEF Indices
      <3>. QED  BY <1>1, <1>2, <1>3, <2>3, <2>4, <2>6, <3>2
    <2>7. CASE Instr(p).kind = "op" /\ busy' = [busy EXCEPT ![p] = Append(@, at[p])]
      <3>1. /\ Busy(p)' = Busy(p) \union {at[p]}
            /\ busy'[p] \in Seq(Nat) /\ Len(busy'[p]) = Len(busy[p]) + 1
            /\ \A k, m \in DOMAIN busy'[p] : k < m => busy'[p][k] < busy'[p][m]
        BY <1>4, <2>7, Started DEF Issues
      <3>2. \A q \in Pipe \ {p} : busy'[q] = busy[q] /\ Busy(q)' = Busy(q)
        BY <2>7 DEF Busy
      <3>3. busy' \in [Pipe -> Seq(Nat)]
        BY <2>7, <3>1, <3>2
      <3>4. Start(p)
        BY <2>7, <1>4, StepIs, SMTT(30) DEF Step, SetFlag, WaitFlag, Barrier, Start, Finish, Is, Issues
      <3>5. Len(busy'[p]) <= Depth(p)
        BY <3>1, <3>4, LenProperties DEF Start, Depth
      <3>6. ASSUME NEW q \in Pipe, NEW i \in Busy(q)'
            PROVE  i \in Ops(Code) /\ Code[i].pipe = q /\ i < at'[q]
        <4>1. CASE i \in Busy(q)
          <5>1. i \in Ops(Code) /\ Code[i].pipe = q /\ i < at[q] /\ i \in Indices
            BY <4>1, CodeIs
          <5>. QED  BY <2>3, <2>5, <5>1 DEF Indices
        <4>2. CASE i \notin Busy(q)
          <5>1. q = p /\ i = at[p]
            BY <3>1, <3>2, <3>6, <4>2
          <5>2. i \in Indices /\ Code[i].kind = "op" /\ Its(p, i)
            BY <1>4, <2>7, <5>1 DEF Issues, Instr, Indices
          <5>3. Code[i].pipe = p
            BY <5>2, CodeIs DEF Its
          <5>4. i < at'[p]
            BY <2>1, <2>2, <2>3, <5>1
          <5>. QED  BY <5>1, <5>2, <5>3, <5>4, CodeIs DEF Ops
        <4>. QED  BY <4>1, <4>2
      <3>. QED  BY <1>1, <1>2, <1>3, <2>3, <2>4, <3>1, <3>2, <3>3, <3>5, <3>6
    <2>. QED  BY <1>4, <2>6, <2>7 DEF Issues
  <1>5. CASE Finish(p)
    <2>1. /\ Busy(p)' \subseteq Busy(p)
          /\ busy'[p] \in Seq(Nat) /\ Len(busy'[p]) <= Len(busy[p])
          /\ \A k, m \in DOMAIN busy'[p] : k < m => busy'[p][k] < busy'[p][m]
      BY <1>5, Finished
    <2>2. /\ busy' = [busy EXCEPT ![p] = Tail(@)] /\ at' = at
          /\ mem' = [x \in Places |-> mem'[x]]
      BY <1>5 DEF Finish
    <2>3. \A q \in Pipe \ {p} : busy'[q] = busy[q] /\ Busy(q)' = Busy(q)
      BY <2>2 DEF Busy
    <2>4. busy' \in [Pipe -> Seq(Nat)]
      BY <2>1, <2>2, <2>3
    <2>5. Len(busy'[p]) <= Depth(p)
      <3>1. Len(busy'[p]) \in Nat /\ Len(busy[p]) \in Nat /\ Len(busy[p]) <= Depth(p)
        BY <2>1, LenProperties
      <3>. QED  BY <2>1, <3>1 DEF Depth
    <2>. QED  BY <1>1, <1>2, <1>3, <2>1, <2>2, <2>3, <2>4, <2>5, SMTT(30)
  <1>. QED  BY <1>4, <1>5, StepIs

\* The first state.
LEMMA InitTyped == Init => TInv
  <1>. SUFFICES ASSUME Init PROVE TInv
    OBVIOUS
  <1>1. program \in Programs /\ Len(Code) \in Nat
    BY CodeIs DEF Init
  <1>2. \A p \in Pipe : /\ From(p, 1) \in 1..(Len(Code) + 1)
                        /\ From(p, 1) <= Len(Code) => Its(p, From(p, 1))
    BY <1>1, FromIs
  <1>3. \A p \in Pipe : Busy(p) = {} /\ busy[p] = <<>>
    BY DEF Init, Busy
  <1>4. at \in [Pipe -> 1..(Len(Code) + 1)] /\ \A p \in Pipe : at[p] = From(p, 1)
    BY <1>2 DEF Init
  <1>5. busy \in [Pipe -> Seq(Nat)] /\ \A p \in Pipe : Len(busy[p]) <= Depth(p)
    BY <1>3, EmptySeq DEF Init, Depth
  <1>. QED  BY <1>1, <1>2, <1>3, <1>4, <1>5 DEF Init, TInv

-----------------------------------------------------------------------------
(* What is over *)

\* Instruction i was issued, and has finished if it is an operation.
Through(i) ==
    /\ i \in Indices /\ Code[i].kind # "barrier"
    /\ i < at[Code[i].pipe] /\ i \notin Busy(Code[i].pipe)

\* What is over stays so, and what is issued stays issued.
LEMMA StaysThrough ==
    ASSUME TInv, NEW p \in Pipe, Step(p)
    PROVE  /\ Code' = Code /\ Indices' = Indices /\ \A q \in Pipe : at[q] <= at'[q]
           /\ \A i : Through(i) => Through(i)'
  <1>1. Code' = Code
    BY DEF Step, SetFlag, WaitFlag, Barrier, Start, Finish, Code
  <1>2. Indices' = Indices
    BY <1>1 DEF Indices
  <1>3. CASE Issues(p)
    <2>1. at[p] + 1 \in 1..(Len(Code) + 1) /\ Len(Code) \in Nat /\ at[p] \in Nat
      BY <1>3, CodeIs DEF Issues, Indices, TInv
    <2>2. From(p, at[p] + 1) \in (at[p] + 1)..(Len(Code) + 1)
      BY <2>1, FromIs DEF TInv
    <2>3. \A q \in Pipe : at[q] <= at'[q]
      BY <1>3, <2>1, <2>2 DEF Issues, TInv
    <2>4. ASSUME NEW i, Through(i) PROVE Through(i)'
      <3>1. i \in Indices /\ Code[i].pipe \in Pipe /\ i \in Nat
        BY <2>4, CodeIs DEF Through, TInv, Indices
      <3>2. i < at'[Code[i].pipe]
        BY <2>1, <2>3, <2>4, <3>1, TypedStep, SMTT(30) DEF Through, TInv
      <3>3. i \notin Busy(Code[i].pipe)'
        <4>1. CASE busy' = busy
          BY <1>1, <2>4, <4>1 DEF Busy, Through
        <4>2. CASE busy' = [busy EXCEPT ![p] = Append(@, at[p])]
          <5>1. Busy(p)' = Busy(p) \union {at[p]}
            BY <1>3, <4>2, Started DEF Issues
          <5>2. \A q \in Pipe \ {p} : Busy(q)' = Busy(q)
            BY <4>2 DEF Busy, TInv
          <5>. QED  BY <1>1, <2>1, <2>4, <3>1, <5>1, <5>2 DEF Through
        <4>. QED  BY <1>3, <4>1, <4>2 DEF Issues
      <3>. QED  BY <1>1, <1>2, <2>4, <3>2, <3>3 DEF Through
    <2>. QED  BY <1>1, <1>2, <2>3, <2>4
  <1>4. CASE Finish(p)
    <2>1. at' = at /\ \A q \in Pipe \ {p} : Busy(q)' = Busy(q)
      BY <1>4 DEF Finish, Busy, TInv
    <2>2. Busy(p)' \subseteq Busy(p)
      BY <1>4, Finished
    <2>3. ASSUME NEW i, Through(i) PROVE Through(i)'
      <3>1. i \in Indices /\ Code[i].pipe \in Pipe
        BY <2>3, CodeIs DEF Through, TInv
      <3>. QED  BY <1>1, <1>2, <2>1, <2>2, <2>3, <3>1 DEF Through
    <2>4. \A q \in Pipe : at[q] <= at'[q]
      BY <2>1, CodeIs DEF TInv
    <2>. QED  BY <1>1, <1>2, <2>3, <2>4
  <1>. QED  BY <1>3, <1>4, StepIs

\* An issue passes by one instruction.
LEMMA PassesOne ==
    ASSUME TInv, NEW p \in Pipe, Issues(p)
    PROVE  /\ at[p] \in Indices /\ Its(p, at[p])
           /\ \A q \in Pipe, i \in Indices : Its(q, i) => (i < at'[q] <=> i < at[q] \/ (q = p /\ i = at[p]))
           /\ \A i \in Indices : Code[i].kind # "barrier" =>
                 (i < at'[Code[i].pipe] <=> i < at[Code[i].pipe] \/ i = at[p])
  <1>1. at[p] + 1 \in 1..(Len(Code) + 1) /\ Len(Code) \in Nat /\ at[p] \in Indices /\ Indices \subseteq Nat
    BY CodeIs DEF Issues, Indices, TInv
  <1>2. /\ From(p, at[p] + 1) \in (at[p] + 1)..(Len(Code) + 1)
        /\ \A j \in Indices : at[p] + 1 <= j /\ j < From(p, at[p] + 1) => ~Its(p, j)
    BY <1>1, FromIs DEF TInv
  <1>3. at'[p] = From(p, at[p] + 1) /\ \A q \in Pipe \ {p} : at'[q] = at[q]
    BY DEF Issues, TInv
  <1>4. Its(p, at[p])
    BY <1>1 DEF TInv, Indices
  <1>5. ASSUME NEW i \in Indices, Its(p, i)
        PROVE  i < at'[p] <=> i < at[p] \/ i = at[p]
    BY <1>1, <1>2, <1>3, <1>5
  <1>6. ASSUME NEW i \in Indices, Code[i].kind # "barrier"
        PROVE  i < at'[Code[i].pipe] <=> i < at[Code[i].pipe] \/ i = at[p]
    <2>1. Code[i].pipe \in Pipe /\ Its(Code[i].pipe, i)
      BY <1>6, CodeIs DEF TInv, Its
    <2>2. CASE Code[i].pipe = p
      BY <1>5, <2>1, <2>2
    <2>3. CASE Code[i].pipe # p
      <3>1. i # at[p]
        BY <1>4, <2>1, <2>3, CodeIs DEF Its, TInv
      <3>. QED  BY <1>3, <2>1, <2>3, <3>1
    <2>. QED  BY <2>2, <2>3
  <1>. QED  BY <1>1, <1>3, <1>4, <1>5, <1>6

-----------------------------------------------------------------------------
(* Events *)

Posted(l)   == {i \in SetsOf(Code, l) : i < at[Code[i].pipe]}
Consumed(l) == {i \in WaitsOf(Code, l) : i < at[Code[i].pipe]}

\* A lane holds the events that were posted and not consumed.
Counted == \A l \in Lanes : flag[l] = Cardinality(Posted(l)) - Cardinality(Consumed(l))

\* Indices are finite.
LEMMA Counting ==
    ASSUME program \in Programs, NEW T \in SUBSET Indices
    PROVE  IsFiniteSet(T) /\ Cardinality(T) \in Nat
  <1>1. IsFiniteSet(Indices)
    BY CodeIs, FS_Interval DEF Indices
  <1>2. IsFiniteSet(T)
    BY <1>1, FS_Subset
  <1>. QED  BY <1>2, FS_CardinalityType

\* Sets and waits are instructions, of one pipe each.
LEMMA LaneIs ==
    ASSUME program \in Programs, NEW l
    PROVE  /\ SetsOf(Code, l) \subseteq Indices /\ WaitsOf(Code, l) \subseteq Indices
           /\ \A i \in SetsOf(Code, l) : Code[i].pipe = l[1] /\ Code[i].pipe \in Pipe
           /\ \A i \in WaitsOf(Code, l) : Code[i].pipe = l[2] /\ Code[i].pipe \in Pipe
  <1>1. DOMAIN Code = Indices /\ IsCode(Code)
    BY CodeIs
  <1>. QED  BY <1>1 DEF IsCode, SetsOf, WaitsOf

\* An issue posts or consumes at most the event of its instruction.
LEMMA Events ==
    ASSUME TInv, NEW p \in Pipe, Issues(p), NEW l
    PROVE  /\ at[p] \notin Posted(l) /\ at[p] \notin Consumed(l)
           /\ at[p] \in SetsOf(Code, l) => Posted(l)' = Posted(l) \union {at[p]}
           /\ at[p] \notin SetsOf(Code, l) => Posted(l)' = Posted(l)
           /\ at[p] \in WaitsOf(Code, l) => Consumed(l)' = Consumed(l) \union {at[p]}
           /\ at[p] \notin WaitsOf(Code, l) => Consumed(l)' = Consumed(l)
  <1>1. Code' = Code /\ at[p] \in Indices /\ at[p] \in Nat /\ Its(p, at[p])
    BY PassesOne, CodeIs DEF Issues, Code, TInv, Indices
  <1>2. \A i \in SetsOf(Code, l) \union WaitsOf(Code, l) :
           i < at'[Code[i].pipe] <=> i < at[Code[i].pipe] \/ i = at[p]
    <2>. SUFFICES ASSUME NEW i \in SetsOf(Code, l) \union WaitsOf(Code, l)
                  PROVE  i \in Indices /\ Code[i].kind # "barrier"
      BY PassesOne
    <2>. QED  BY LaneIs DEF SetsOf, WaitsOf, TInv
  <1>3. SetsOf(Code, l)' = SetsOf(Code, l) /\ WaitsOf(Code, l)' = WaitsOf(Code, l)
    BY <1>1 DEF SetsOf, WaitsOf
  <1>4. at[p] \notin Posted(l) /\ at[p] \notin Consumed(l)
    <2>1. ASSUME at[p] \in SetsOf(Code, l) \union WaitsOf(Code, l) PROVE Code[at[p]].pipe = p
      BY <1>1, <2>1, LaneIs, CodeIs DEF Its, TInv
    <2>. QED  BY <1>1, <2>1 DEF Posted, Consumed
  <1>5. Posted(l)' = {i \in SetsOf(Code, l) : i < at'[Code[i].pipe]}
    BY <1>1, <1>3 DEF Posted
  <1>6. Consumed(l)' = {i \in WaitsOf(Code, l) : i < at'[Code[i].pipe]}
    BY <1>1, <1>3 DEF Consumed
  <1>. QED  BY <1>2, <1>4, <1>5, <1>6 DEF Posted, Consumed

\* So a lane counts them.
LEMMA CountStep ==
    ASSUME TInv, Counted, NEW p \in Pipe, Step(p)
    PROVE  Counted'
  <1>1. Code' = Code /\ program \in Programs /\ flag \in [Lanes -> Nat]
    BY StaysThrough DEF TInv
  <1>2. Lanes' = Lanes
    BY <1>1 DEF Lanes
  <1>. SUFFICES ASSUME NEW l \in Lanes
                PROVE  flag'[l] = Cardinality(Posted(l)') - Cardinality(Consumed(l)')
    BY <1>2 DEF Counted
  <1>3. flag[l] = Cardinality(Posted(l)) - Cardinality(Consumed(l)) /\ flag[l] \in Nat
    BY <1>1 DEF Counted
  <1>4. /\ IsFiniteSet(Posted(l)) /\ Cardinality(Posted(l)) \in Nat
        /\ IsFiniteSet(Consumed(l)) /\ Cardinality(Consumed(l)) \in Nat
    BY <1>1, LaneIs, Counting DEF Posted, Consumed
  <1>5. CASE Issues(p) /\ Ready(p)
    <2>1. at[p] \in Indices /\ DOMAIN Code = Indices
      BY <1>1, <1>5, CodeIs DEF Issues
    <2>2. CASE Instr(p).kind = "set"
      <3>1. flag' = [flag EXCEPT ![Instr(p).lane] = @ + 1]
        BY <1>5, <2>2 DEF Ready, SetFlag
      <3>2. at[p] \notin WaitsOf(Code, l) /\ (at[p] \in SetsOf(Code, l) <=> Instr(p).lane = l)
        BY <2>1, <2>2 DEF SetsOf, WaitsOf, Instr
      <3>3. CASE Instr(p).lane = l
        <4>1. /\ Cardinality(Posted(l)') = Cardinality(Posted(l)) + 1
              /\ Cardinality(Consumed(l)') = Cardinality(Consumed(l))
          BY <1>4, <1>5, <3>2, <3>3, Events, FS_AddElement
        <4>. QED  BY <1>1, <1>3, <1>4, <3>1, <3>3, <4>1
      <3>4. CASE Instr(p).lane # l
        BY <1>1, <1>3, <1>5, <3>1, <3>2, <3>4, Events
      <3>. QED  BY <3>3, <3>4
    <2>3. CASE Instr(p).kind = "wait"
      <3>1. flag' = [flag EXCEPT ![Instr(p).lane] = @ - 1]
        BY <1>5, <2>3 DEF Ready, WaitFlag
      <3>2. at[p] \notin SetsOf(Code, l) /\ (at[p] \in WaitsOf(Code, l) <=> Instr(p).lane = l)
        BY <2>1, <2>3 DEF SetsOf, WaitsOf, Instr
      <3>3. CASE Instr(p).lane = l
        <4>1. /\ Cardinality(Consumed(l)') = Cardinality(Consumed(l)) + 1
              /\ Cardinality(Posted(l)') = Cardinality(Posted(l))
          BY <1>4, <1>5, <3>2, <3>3, Events, FS_AddElement
        <4>. QED  BY <1>1, <1>3, <1>4, <3>1, <3>3, <4>1
      <3>4. CASE Instr(p).lane # l
        BY <1>1, <1>3, <1>5, <3>1, <3>2, <3>4, Events
      <3>. QED  BY <3>3, <3>4
    <2>4. CASE Instr(p).kind \notin {"set", "wait"}
      <3>1. flag' = flag
        <4>1. Instr(p).kind \in {"op", "barrier"}
          BY <1>1, <2>1, <2>4, CodeIs DEF Instr, IsCode
        <4>. QED  BY <1>5, <4>1 DEF Ready
      <3>2. at[p] \notin SetsOf(Code, l) /\ at[p] \notin WaitsOf(Code, l)
        BY <2>4 DEF SetsOf, WaitsOf, Instr
      <3>. QED  BY <1>3, <1>5, <3>1, <3>2, Events
    <2>. QED  BY <2>2, <2>3, <2>4
  <1>6. CASE Finish(p)
    <2>1. at' = at /\ flag' = flag
      BY <1>6 DEF Finish
    <2>2. Posted(l)' = Posted(l) /\ Consumed(l)' = Consumed(l)
      BY <1>1, <2>1 DEF Posted, Consumed, SetsOf, WaitsOf
    <2>. QED  BY <1>3, <2>1, <2>2
  <1>. QED  BY <1>5, <1>6, StepIs

\* The event a pipe consumes was posted: the set_flag of that number is through.
LEMMA MatchIsPosted ==
    ASSUME TInv, Counted, NEW p \in Pipe, Issues(p), Ready(p), NEW s \in Matching(Code, at[p])
    PROVE  /\ s \in Indices /\ s < at[Code[s].pipe]
           /\ Code[s].kind = "set" /\ Code[s].pipe \in Pipe
  <1>. DEFINE l == Instr(p).lane
              waits == UpTo(WaitsOf(Code, l), at[p])
              sets == UpTo(SetsOf(Code, l), s)
  <1>1. Instr(p).kind = "wait" /\ s \in SetsOf(Code, l) /\ Cardinality(sets) = Cardinality(waits)
    BY DEF Matching, Instr, UpTo
  <1>2. program \in Programs /\ at[p] \in Indices /\ Indices \subseteq Nat /\ DOMAIN Code = Indices
    BY CodeIs DEF TInv, Issues, Indices
  <1>3. /\ s \in Indices /\ Code[s].kind = "set" /\ Code[s].pipe \in Pipe
        /\ at[Code[s].pipe] \in Nat
    BY <1>1, <1>2, LaneIs, CodeIs DEF SetsOf, TInv
  <1>4. at[p] \in WaitsOf(Code, l) /\ l \in Lanes
    BY <1>1, <1>2 DEF WaitsOf, Instr, Lanes, Indices
  <1>5. Code[at[p]].pipe = p
    <2>1. Code[at[p]].pipe \in Pipe /\ Its(p, at[p])
      BY <1>2, <1>4, LaneIs, PassesOne
    <2>. QED  BY <2>1, CodeIs, <1>2 DEF Its
  <1>6. waits = Consumed(l) \union {at[p]} /\ at[p] \notin Consumed(l)
    <2>1. \A w \in WaitsOf(Code, l) : Code[w].pipe = p /\ w \in Nat
      BY <1>2, <1>4, <1>5, LaneIs, ZenonT(60)
    <2>. QED  BY <1>2, <1>4, <2>1 DEF UpTo, Consumed
  <1>7. /\ IsFiniteSet(Consumed(l)) /\ Cardinality(Consumed(l)) \in Nat
        /\ Cardinality(waits) = Cardinality(Consumed(l)) + 1
    <2>1. IsFiniteSet(Consumed(l)) /\ Cardinality(Consumed(l)) \in Nat
      BY <1>2, LaneIs, Counting DEF Consumed
    <2>. HIDE DEF waits
    <2>. QED  BY <1>6, <2>1, FS_AddElement
  <1>8. Cardinality(Posted(l)) > Cardinality(Consumed(l)) /\ Cardinality(Posted(l)) \in Nat
    <2>1. flag[l] > 0 /\ flag[l] = Cardinality(Posted(l)) - Cardinality(Consumed(l))
      BY <1>1, <1>4 DEF Ready, Counted
    <2>2. Cardinality(Posted(l)) \in Nat
      BY <1>2, LaneIs, Counting DEF Posted
    <2>. QED  BY <1>7, <2>1, <2>2
  <1>9. ASSUME ~(s < at[Code[s].pipe]) PROVE FALSE
    <2>1. Posted(l) \subseteq sets /\ s \in sets /\ s \notin Posted(l)
      <3>1. \A t \in SetsOf(Code, l) : Code[t].pipe = Code[s].pipe /\ t \in Nat
        BY <1>1, <1>2, LaneIs
      <3>. QED  BY <1>1, <1>2, <1>3, <1>9, <3>1 DEF Posted, UpTo
    <2>2. sets \subseteq Indices
      BY <1>2, LaneIs DEF UpTo
    <2>3. IsFiniteSet(sets) /\ Cardinality(sets) \in Nat
      BY <1>2, <2>2, Counting
    <2>4. Cardinality(Posted(l)) <= Cardinality(sets) /\ Cardinality(Posted(l)) # Cardinality(sets)
      <3>. HIDE DEF sets
      <3>. QED  BY <2>1, <2>3, FS_Subset
    <2>. QED  BY <1>1, <1>7, <1>8, <2>3, <2>4
  <1>. QED  BY <1>3, <1>9

-----------------------------------------------------------------------------
(* Order *)

(***************************************************************************)
(* What the text says is over when an instruction is issued is over.       *)
(***************************************************************************)
OverInv ==
    \A p \in Pipe, j \in Indices : j < at[p] /\ Its(p, j) => \A i \in Over(Code)[j] : Through(i)

\* Of what the machine has over itself.
LEMMA DirectIsThrough ==
    ASSUME TInv, NEW p \in Pipe, Issues(p), Ready(p), NEW i \in Indices, i < at[p],
           Direct(Code, i, at[p])
    PROVE  Through(i)
  <1>1. /\ at[p] \in Indices /\ Its(p, at[p]) /\ Code[i].kind # "barrier" /\ Code[i].pipe \in Pipe
        /\ Instr(p) = Code[at[p]]
    BY PassesOne, CodeIs DEF Direct, TInv, Instr
  <1>2. ASSUME NEW r \in Pipe, Code[i].pipe = r, DoneBefore(r, at[p]) PROVE Through(i)
    <2>1. at[r] >= at[p] /\ at[r] \in Nat /\ at[p] \in Nat /\ i \in Nat
      BY <1>1, <1>2, CodeIs DEF DoneBefore, TInv, Indices
    <2>2. i \notin Busy(r)
      <3>1. \A k \in DOMAIN busy[r] : busy[r][k] > at[p] /\ busy[r][k] \in Indices
        BY <1>2, CodeIs DEF DoneBefore, TInv, Busy
      <3>. QED  BY <2>1, <3>1 DEF Busy, Indices
    <2>. QED  BY <1>1, <1>2, <2>1, <2>2 DEF Through
  <1>3. CASE Code[at[p]].pipe = "ALL"
    <2>1. Code[at[p]].kind = "barrier"
      BY <1>1, <1>3, CodeIs DEF TInv
    <2>2. DoneBefore(Code[i].pipe, at[p])
      BY <1>1, <1>3, <2>1 DEF Ready
    <2>. QED  BY <1>1, <1>2, <2>2
  <1>4. CASE Code[at[p]].pipe # "ALL" /\ Code[i].pipe = "S" /\ Code[at[p]].pipe # "S"
    <2>1. p # "S" /\ "S" \in Pipe
      BY <1>1, <1>4 DEF Its, Pipe
    <2>2. DoneBefore("S", at[p])
      BY <2>1 DEF Issues
    <2>. QED  BY <1>2, <1>4, <2>1, <2>2
  <1>5. CASE /\ Code[at[p]].pipe # "ALL" /\ Code[i].pipe = Code[at[p]].pipe
             /\ \/ Code[i].kind # "op"
                \/ Code[at[p]].kind \in {"set", "barrier"}
                \/ Code[at[p]].kind = "op" /\ Depth(Code[at[p]].pipe) = 1
    <2>1. Code[i].pipe = p /\ i < at[p]
      BY <1>1, <1>5 DEF Its
    <2>2. CASE Code[i].kind # "op"
      <3>1. i \notin Busy(p)
        BY <2>2 DEF TInv, Ops
      <3>. QED  BY <1>1, <2>1, <3>1 DEF Through
    <2>3. CASE Code[at[p]].kind = "set" \/ (Code[at[p]].kind = "op" /\ Depth(Code[at[p]].pipe) = 1)
      <3>1. busy[p] = <<>>
        <4>1. CASE Code[at[p]].kind = "set"
          BY <1>1, <4>1 DEF Ready
        <4>2. CASE Code[at[p]].kind = "op" /\ Depth(Code[at[p]].pipe) = 1
          <5>1. Len(busy[p]) < 1 /\ busy[p] \in Seq(Nat)
            BY <1>1, <1>5, <2>1, <4>2 DEF Ready, TInv
          <5>. QED  BY <5>1, EmptySeq
        <4>. QED  BY <2>3, <4>1, <4>2
      <3>2. Busy(p) = {}
        BY <3>1 DEF Busy
      <3>. QED  BY <1>1, <2>1, <3>2 DEF Through
    <2>4. CASE Code[at[p]].kind = "barrier"
      <3>1. DoneBefore(p, at[p])
        BY <1>1, <1>5, <2>4 DEF Ready
      <3>. QED  BY <1>2, <2>1, <3>1
    <2>. QED  BY <1>5, <2>2, <2>3, <2>4
  <1>. QED  BY <1>3, <1>4, <1>5 DEF Direct

\* Of what was over before.
LEMMA EarlierIsThrough ==
    ASSUME TInv, OverInv, NEW p \in Pipe, Issues(p), Ready(p),
           NEW k \in Earlier(Code, at[p]), NEW i \in Over(Code)[k]
    PROVE  Through(i)
  <1>1. at[p] \in Indices /\ Its(p, at[p]) /\ Instr(p) = Code[at[p]] /\ Len(Code) \in Nat
    BY PassesOne, CodeIs DEF Instr, TInv
  <1>2. k \in Indices /\ k < at[p]
    BY <1>1 DEF Earlier, Indices
  <1>3. "S" \in Pipe /\ \A q \in Pipe : at[q] \in Nat
    BY <1>1, SMTT(30) DEF TInv, Pipe
  <1>4. ASSUME NEW q \in Pipe, Its(q, k), at[p] <= at[q] PROVE Through(i)
    <2>1. k < at[q]
      BY <1>1, <1>2, <1>3, <1>4 DEF Indices
    <2>. QED  BY <1>2, <1>4, <2>1 DEF OverInv
  <1>5. CASE Its(p, k)
    BY <1>3, <1>4, <1>5
  <1>6. CASE Code[at[p]].pipe = "ALL" /\ ~Its(p, k)
    <2>1. Code[at[p]].kind = "barrier"
      BY <1>1, <1>6, CodeIs DEF TInv
    <2>2. \A r \in Pipe : DoneBefore(r, at[p])
      BY <1>1, <1>6, <2>1 DEF Ready
    <2>3. Code[k].pipe \in Pipe
      <3>1. IsCode(Code) /\ DOMAIN Code = Indices
        BY CodeIs DEF TInv
      <3>. QED  BY <1>2, <1>6, <3>1 DEF IsCode, Its
    <2>4. at[p] <= at[Code[k].pipe]
      BY <1>3, <2>2, <2>3 DEF DoneBefore
    <2>. QED  BY <1>4, <2>3, <2>4 DEF Its
  <1>7. CASE Code[at[p]].pipe # "ALL" /\ ~Its(p, k)
    <2>1. Code[k].pipe = "S" /\ p # "S"
      BY <1>1, <1>7 DEF Earlier, Its
    <2>2. at[p] <= at["S"]
      BY <1>3, <2>1 DEF Issues, DoneBefore
    <2>. QED  BY <1>3, <1>4, <2>1, <2>2 DEF Its
  <1>. QED  BY <1>5, <1>6, <1>7

\* Of what was over when the event was posted.
LEMMA MatchIsThrough ==
    ASSUME TInv, Counted, OverInv, NEW p \in Pipe, Issues(p), Ready(p),
           NEW s \in Matching(Code, at[p]), NEW i \in {s} \union Over(Code)[s]
    PROVE  Through(i)
  <1>1. s \in Indices /\ s < at[Code[s].pipe] /\ Code[s].kind = "set" /\ Code[s].pipe \in Pipe
    BY MatchIsPosted
  <1>2. Through(s)
    BY <1>1 DEF Through, TInv, Ops
  <1>. QED  BY <1>1, <1>2 DEF OverInv, Its

\* The three reasons for an instruction to be over.
LEMMA FollowsFrom ==
    ASSUME NEW c, NEW over, NEW j, NEW i \in Follows(c, over, j)
    PROVE  \/ i \in 1..(j - 1) /\ Direct(c, i, j)
           \/ \E k \in Earlier(c, j) : i \in over[k]
           \/ \E s \in Matching(c, j) : i \in {s} \union over[s]
  <1>. DEFINE own == {n \in 1..(j - 1) : Direct(c, n, j)}
              before == UNION {over[k] : k \in Earlier(c, j)}
              awaited == UNION {{s} \union over[s] : s \in Matching(c, j)}
  <1>1. Follows(c, over, j) = own \union before \union awaited
    BY DEF Follows
  <1>2. i \in own \/ i \in before \/ i \in awaited
    <2>. HIDE DEF own, before, awaited
    <2>. QED  BY <1>1
  <1>3. i \in own => i \in 1..(j - 1) /\ Direct(c, i, j)
    OBVIOUS
  <1>4. i \in before => \E k \in Earlier(c, j) : i \in over[k]
    OBVIOUS
  <1>5. i \in awaited => \E s \in Matching(c, j) : i \in {s} \union over[s]
    OBVIOUS
  <1>. QED
    <2>. HIDE DEF own, before, awaited
    <2>. QED  BY <1>2, <1>3, <1>4, <1>5

\* Every step keeps the order of the text.
LEMMA OverStep ==
    ASSUME TInv, Counted, OverInv, Ordered(Code, Over(Code)), NEW p \in Pipe, Step(p)
    PROVE  OverInv'
  <1>1. Code' = Code /\ Indices' = Indices /\ \A i : Through(i) => Through(i)'
    BY StaysThrough
  <1>. SUFFICES ASSUME NEW q \in Pipe, NEW j \in Indices, j < at'[q], Its(q, j), NEW i \in Over(Code)[j]
                PROVE  Through(i)
    BY <1>1 DEF OverInv, Its
  <1>2. CASE j < at[q]
    BY <1>2 DEF OverInv
  <1>3. CASE Issues(p) /\ Ready(p) /\ ~(j < at[q])
    <2>1. q = p /\ j = at[p] /\ at[p] \in Indices
      BY <1>3, PassesOne
    <2>2. i \in Follows(Code, Over(Code), at[p])
      BY <2>1, CodeIs DEF Ordered, TInv
    <2>3. CASE i \in 1..(at[p] - 1) /\ Direct(Code, i, at[p])
      <3>1. i \in Indices /\ i < at[p]
        BY <2>1, <2>3, CodeIs DEF TInv, Indices
      <3>. QED  BY <1>3, <2>3, <3>1, DirectIsThrough
    <2>4. CASE \E k \in Earlier(Code, at[p]) : i \in Over(Code)[k]
      BY <1>3, <2>4, EarlierIsThrough
    <2>5. CASE \E s \in Matching(Code, at[p]) : i \in {s} \union Over(Code)[s]
      BY <1>3, <2>5, MatchIsThrough
    <2>6. \/ i \in 1..(at[p] - 1) /\ Direct(Code, i, at[p])
          \/ \E k \in Earlier(Code, at[p]) : i \in Over(Code)[k]
          \/ \E s \in Matching(Code, at[p]) : i \in {s} \union Over(Code)[s]
      BY <2>2, FollowsFrom
    <2>. QED  BY <2>3, <2>4, <2>5, <2>6
  <1>4. CASE Finish(p)
    BY <1>2, <1>4 DEF Finish
  <1>. QED  BY <1>2, <1>3, <1>4, StepIs

-----------------------------------------------------------------------------
(* What order gives *)

\* What AllSynchronized says of the program that runs.
LEMMA TextIs ==
    ASSUME AllSynchronized, program \in Programs
    PROVE  /\ Ordered(Code, Over(Code)) /\ InOrder(Code, Over(Code))
           /\ EventsFit(Code, Over(Code)) /\ EventsConsumed(Code) /\ WaitsMatch(Code)
           /\ Computed(Code, Values(Code)) /\ Yields(Code, Values(Code), Right)
  BY DEF AllSynchronized, Synchronized, Code, Right

\* Of two operations that share a place, the second waits for the first.
LEMMA Exclusive ==
    ASSUME TInv, OverInv, InOrder(Code, Over(Code)),
           NEW a \in Ops(Code), NEW b \in Ops(Code), a < b, b < at[Code[b].pipe],
           \/ Code[a].dst \intersect Footprint(Code[b]) # {}
           \/ Code[b].dst \intersect Footprint(Code[a]) # {}
    PROVE  Through(a)
  <1>1. a \in Over(Code)[b]
    BY DEF InOrder
  <1>2. b \in Indices /\ Code[b].pipe \in Pipe
    BY CodeIs DEF TInv, Ops
  <1>. QED  BY <1>1, <1>2 DEF OverInv, Its

\* So no two of them are in progress at once.
LEMMA OrderedRaceFree ==
    ASSUME TInv, OverInv, InOrder(Code, Over(Code))
    PROVE  NoRace
  <1>1. ASSUME NEW i \in InProgress
        PROVE  i \in Ops(Code) /\ i \in Busy(Code[i].pipe) /\ i < at[Code[i].pipe] /\ i \in Nat
    <2>1. PICK p \in Pipe : i \in Busy(p)
      BY DEF InProgress, Busy
    <2>2. i \in Ops(Code) /\ Code[i].pipe = p /\ i < at[p]
      BY <2>1 DEF TInv
    <2>. QED  BY <2>1, <2>2, CodeIs DEF TInv, Indices
  <1>2. ASSUME NEW i \in InProgress, NEW j \in InProgress, i < j
        PROVE  /\ Code[i].dst \intersect Footprint(Code[j]) = {}
               /\ Code[j].dst \intersect Footprint(Code[i]) = {}
    <2>. SUFFICES ASSUME \/ Code[i].dst \intersect Footprint(Code[j]) # {}
                         \/ Code[j].dst \intersect Footprint(Code[i]) # {}
                  PROVE  FALSE
      OBVIOUS
    <2>1. Through(i)
      BY <1>1, <1>2, Exclusive
    <2>. QED  BY <1>1, <2>1 DEF Through
  <1>3. ASSUME NEW i \in InProgress, NEW j \in InProgress, i # j
        PROVE  Code[i].dst \intersect Footprint(Code[j]) = {}
    <2>1. i < j \/ j < i
      BY <1>1, <1>3
    <2>. QED  BY <1>2, <2>1
  <1>. QED  BY <1>3 DEF NoRace

\* An event that does not fit is not posted.
LEMMA DepthStep ==
    ASSUME TInv, Counted', OverInv', EventsFit(Code, Over(Code)), FlagDepth, NEW p \in Pipe, Step(p)
    PROVE  FlagDepth'
  <1>1. /\ Code' = Code /\ program \in Programs /\ flag \in [Lanes -> Nat] /\ MaxPosted \in Nat
        /\ DOMAIN Code = Indices /\ Indices \subseteq Nat /\ Indices' = Indices
    BY StaysThrough, ProgramsAssumption, CodeIs DEF TInv, Indices
  <1>2. Lanes' = Lanes
    BY <1>1 DEF Lanes
  <1>. SUFFICES ASSUME NEW l \in Lanes PROVE flag'[l] <= MaxPosted
    BY <1>2 DEF FlagDepth
  <1>3. flag[l] <= MaxPosted /\ flag[l] \in Nat
    BY <1>1 DEF FlagDepth
  <1>4. CASE Issues(p) /\ Ready(p) /\ Instr(p).kind = "set" /\ Instr(p).lane = l
    <2>. DEFINE sets == UpTo(SetsOf(Code, l), at[p])
                waits == WaitsOf(Code, l) \intersect Over(Code)[at[p]]
    <2>1. at[p] \in Indices /\ Its(p, at[p]) /\ at[p] \in SetsOf(Code, l)
      BY <1>1, <1>4, PassesOne DEF SetsOf, Instr
    <2>2. Code[at[p]].pipe = p
      BY <1>1, <2>1, LaneIs, CodeIs DEF Its
    <2>3. Cardinality(sets) - Cardinality(waits) <= MaxPosted
      BY <1>1, <1>4, <2>1 DEF EventsFit, Instr
    <2>4. Posted(l)' \subseteq sets
      <3>. SUFFICES ASSUME NEW t \in SetsOf(Code, l), t < at'[Code[t].pipe] PROVE t <= at[p]
        BY <1>1 DEF Posted, SetsOf, UpTo
      <3>1. Code[t].pipe = p /\ t \in Indices /\ Code[t].kind # "barrier"
        BY <1>1, <2>1, <2>2, LaneIs DEF SetsOf
      <3>2. t < at[p] \/ t = at[p]
        BY <1>4, <3>1, PassesOne
      <3>3. t \in Nat /\ at[p] \in Nat
        BY <1>1, <2>1, <3>1
      <3>. QED  BY <3>2, <3>3
    <2>5. waits \subseteq Consumed(l)'
      <3>0. PICK j \in Indices : j = at[p]
        BY <2>1
      <3>1. j < at'[p]
        BY <1>4, <2>1, <3>0, PassesOne
      <3>2. Its(p, j)'
        BY <1>1, <2>1, <3>0 DEF Its
      <3>3. \A i \in Over(Code)[j] : Through(i)'
        BY <1>1, <3>1, <3>2 DEF OverInv
      <3>. QED  BY <1>1, <3>0, <3>3 DEF Consumed, Through, WaitsOf
    <2>6. flag'[l] = Cardinality(Posted(l)') - Cardinality(Consumed(l)')
      BY <1>2 DEF Counted
    <2>7. /\ IsFiniteSet(sets) /\ Cardinality(sets) \in Nat
          /\ Cardinality(waits) \in Nat
          /\ IsFiniteSet(Posted(l)') /\ Cardinality(Posted(l)') \in Nat
          /\ IsFiniteSet(Consumed(l)') /\ Cardinality(Consumed(l)') \in Nat
      <3>1. sets \subseteq Indices /\ waits \subseteq Indices
        BY <1>1, LaneIs DEF UpTo
      <3>2. Posted(l)' \subseteq Indices /\ Consumed(l)' \subseteq Indices
        BY <1>1, LaneIs DEF Posted, Consumed, SetsOf, WaitsOf
      <3>. HIDE DEF sets, waits
      <3>. QED  BY <1>1, <3>1, <3>2, Counting
    <2>8. Cardinality(Posted(l)') <= Cardinality(sets) /\ Cardinality(waits) <= Cardinality(Consumed(l)')
      <3>. HIDE DEF sets, waits
      <3>. QED  BY <2>4, <2>5, <2>7, FS_Subset
    <2>. HIDE DEF sets, waits
    <2>. QED  BY <1>1, <2>3, <2>6, <2>7, <2>8
  <1>5. CASE Issues(p) /\ Ready(p) /\ ~(Instr(p).kind = "set" /\ Instr(p).lane = l)
    <2>1. Instr(p).kind \in {"op", "set", "wait", "barrier"}
      BY <1>1, <1>5, CodeIs DEF Issues, Instr, IsCode
    <2>2. flag'[l] <= flag[l] /\ flag'[l] \in Int
      <3>1. CASE Instr(p).kind = "set"
        BY <1>1, <1>5, <3>1 DEF Ready, SetFlag
      <3>2. CASE Instr(p).kind = "wait"
        <4>1. flag' = [flag EXCEPT ![Instr(p).lane] = @ - 1]
          BY <1>5, <3>2 DEF Ready, WaitFlag
        <4>. QED  BY <1>1, <4>1
      <3>3. CASE Instr(p).kind \in {"op", "barrier"}
        BY <1>1, <1>5, <3>3 DEF Ready
      <3>. QED  BY <2>1, <3>1, <3>2, <3>3
    <2>. QED  BY <1>1, <1>3, <2>2
  <1>6. CASE Finish(p)
    BY <1>3, <1>6 DEF Finish
  <1>. QED  BY <1>4, <1>5, <1>6, StepIs

\* At the end every event was posted and consumed.
LEMMA NothingLeft ==
    ASSUME TInv, Counted, EventsConsumed(Code)
    PROVE  NoFlagLeak
  <1>. SUFFICES ASSUME Done, NEW l \in Lanes PROVE flag[l] = 0
    BY DEF NoFlagLeak
  <1>1. program \in Programs /\ DOMAIN Code = Indices /\ Len(Code) \in Nat
    BY CodeIs DEF TInv
  <1>2. Posted(l) = SetsOf(Code, l) /\ Consumed(l) = WaitsOf(Code, l)
    <2>1. ASSUME NEW i \in SetsOf(Code, l) \union WaitsOf(Code, l) PROVE i < at[Code[i].pipe]
      <3>1. i \in Indices /\ Code[i].pipe \in Pipe
        BY <1>1, LaneIs
      <3>2. at[Code[i].pipe] > Len(Code) /\ at[Code[i].pipe] \in Nat
        BY <1>1, <3>1 DEF Done, TInv
      <3>. QED  BY <1>1, <3>1, <3>2 DEF Indices
    <2>. QED  BY <2>1 DEF Posted, Consumed
  <1>3. PICK i \in Indices : Code[i].kind \in {"set", "wait"} /\ Code[i].lane = l
    BY DEF Lanes, Indices
  <1>4. Cardinality(SetsOf(Code, l)) = Cardinality(WaitsOf(Code, l))
    BY <1>1, <1>3 DEF EventsConsumed
  <1>5. Cardinality(Posted(l)) \in Nat
    BY <1>1, LaneIs, Counting DEF Posted
  <1>. QED  BY <1>2, <1>4, <1>5 DEF Counted

-----------------------------------------------------------------------------
(* What the operations compute *)

\* The operations that have written a place.
Written(x) == {i \in WritersOf(Code, x) : Through(i)}

(***************************************************************************)
(* A place holds what the last of them leaves there in the order of the    *)
(* text, in whatever order they were done.                                 *)
(***************************************************************************)
MemInv == \A x \in Places : mem[x] = Left(Values(Code), Written(x), x)

\* Only finishing an operation puts it through.
LEMMA ThroughNow ==
    ASSUME TInv, NEW p \in Pipe, Step(p), NEW i \in Ops(Code)
    PROVE  /\ Issues(p) => (Through(i)' <=> Through(i))
           /\ Finish(p) => (Through(i)' <=> Through(i) \/ i = Head(busy[p]))
  <1>1. /\ Code' = Code /\ Indices' = Indices /\ (Through(i) => Through(i)')
        /\ i \in Indices /\ Code[i].kind = "op" /\ Code[i].pipe \in Pipe
    BY StaysThrough, CodeIs DEF TInv, Ops
  <1>2. ASSUME Issues(p), Through(i)' PROVE Through(i)
    <2>1. i < at'[Code[i].pipe] /\ i \notin Busy(Code[i].pipe)'
      BY <1>1, <1>2 DEF Through
    <2>2. i < at[Code[i].pipe] \/ i = at[p]
      BY <1>1, <1>2, <2>1, PassesOne
    <2>3. CASE Instr(p).kind = "op" /\ busy' = [busy EXCEPT ![p] = Append(@, at[p])]
      <3>1. Busy(p)' = Busy(p) \union {at[p]} /\ at[p] \in Indices /\ Its(p, at[p])
        BY <1>2, <2>3, Started, PassesOne
      <3>2. Code[at[p]].pipe = p
        BY <2>3, <3>1, CodeIs DEF TInv, Its, Instr
      <3>3. i # at[p]
        BY <1>1, <2>1, <3>1, <3>2
      <3>4. i \notin Busy(Code[i].pipe)
        <4>1. \A q \in Pipe \ {p} : busy'[q] = busy[q]
          BY <2>3 DEF TInv
        <4>2. CASE Code[i].pipe = p
          BY <1>1, <2>1, <3>1, <4>2
        <4>3. CASE Code[i].pipe # p
          BY <1>1, <2>1, <4>1, <4>3 DEF Busy
        <4>. QED  BY <4>2, <4>3
      <3>. QED  BY <1>1, <2>2, <3>3, <3>4 DEF Through
    <2>4. CASE Instr(p).kind # "op" /\ busy' = busy
      <3>1. i # at[p]
        BY <1>1, <2>4 DEF Instr
      <3>. QED  BY <1>1, <2>1, <2>2, <2>4, <3>1 DEF Through, Busy
    <2>. QED  BY <1>2, <2>3, <2>4 DEF Issues
  <1>3. ASSUME Finish(p) PROVE Through(i)' <=> Through(i) \/ i = Head(busy[p])
    <2>0. at' = at /\ \A q \in Pipe \ {p} : Busy(q)' = Busy(q)
      BY <1>3 DEF Finish, Busy, TInv
    <2>1. Head(busy[p]) \in Busy(p) /\ Busy(p)' = Busy(p) \ {Head(busy[p])}
      BY <1>3, Finished
    <2>2. i = Head(busy[p]) => Code[i].pipe = p /\ i < at[p]
      BY <2>1 DEF TInv
    <2>. QED  BY <1>1, <2>0, <2>1, <2>2 DEF Through
  <1>. QED  BY <1>2, <1>3, <1>1

\* While an operation is in progress, those in front of it and no others have
\* written what it reads and writes.
LEMMA InTextOrder ==
    ASSUME TInv, OverInv, InOrder(Code, Over(Code)), NEW p \in Pipe, NEW o \in Busy(p),
           NEW x \in Footprint(Code[o])
    PROVE  Written(x) = UpTo(WritersOf(Code, x), o - 1)
  <1>1. /\ o \in Ops(Code) /\ Code[o].pipe = p /\ o < at[p] /\ ~Through(o) /\ o \in Nat
        /\ Ops(Code) \subseteq Nat
    BY CodeIs DEF TInv, Through, Indices
  <1>2. ASSUME NEW i \in WritersOf(Code, x), i < o PROVE Through(i)
    <2>1. i \in Ops(Code) /\ Code[i].dst \intersect Footprint(Code[o]) # {}
      BY DEF WritersOf
    <2>. QED  BY <1>1, <1>2, <2>1, Exclusive
  <1>3. ASSUME NEW i \in WritersOf(Code, x), Through(i), o < i PROVE FALSE
    <2>1. i \in Ops(Code) /\ Code[i].dst \intersect Footprint(Code[o]) # {}
      BY DEF WritersOf
    <2>2. i < at[Code[i].pipe]
      BY <1>3 DEF Through
    <2>. QED  BY <1>1, <1>3, <2>1, <2>2, Exclusive
  <1>4. ASSUME NEW i \in WritersOf(Code, x) PROVE Through(i) <=> i <= o - 1
    <2>1. i \in Nat
      BY <1>1 DEF WritersOf
    <2>2. i < o \/ i = o \/ o < i
      BY <1>1, <2>1
    <2>3. i < o => Through(i)
      BY <1>2
    <2>4. o < i => ~Through(i)
      BY <1>3
    <2>. QED  BY <1>1, <2>1, <2>2, <2>3, <2>4
  <1>. QED  BY <1>4 DEF Written, UpTo

\* An operation that finishes leaves its result.
LEMMA LeavesResult ==
    ASSUME TInv, OverInv, MemInv, InOrder(Code, Over(Code)), Computed(Code, Values(Code)),
           NEW p \in Pipe, Finish(p), NEW x \in Places
    PROVE  mem'[x] = IF x \in Code[Head(busy[p])].dst THEN Values(Code)[Head(busy[p])][x] ELSE mem[x]
  <1>. DEFINE j == Head(busy[p])
              values == Values(Code)
              o == Code[j]
              read == [k \in DOMAIN o.srcs |-> Value(o.srcs[k])]
              found == [k \in DOMAIN o.srcs |-> UNION {Found(Code, values, j, y) : y \in o.srcs[k]}]
  <1>1. j \in Busy(p) /\ j \in Ops(Code)
    BY Finished DEF TInv
  <1>2. ASSUME NEW y \in Places, y \in Footprint(o) PROVE mem[y] = Found(Code, values, j, y)
    <2>1. Written(y) = UpTo(WritersOf(Code, y), j - 1)
      BY <1>1, <1>2, InTextOrder
    <2>. QED  BY <2>1 DEF MemInv, Found
  <1>3. read = found
    <2>. SUFFICES ASSUME NEW k \in DOMAIN o.srcs
                  PROVE  Value(o.srcs[k]) = UNION {Found(Code, values, j, y) : y \in o.srcs[k]}
      OBVIOUS
    <2>1. ASSUME NEW y \in o.srcs[k] PROVE mem[y] = Found(Code, values, j, y)
      <3>1. WritersOf(Code, y) # {} /\ y \in Footprint(o)
        BY <1>1, <2>1 DEF Computed, Footprint
      <3>2. y \in Places
        BY <3>1, CodeIs DEF WritersOf, Ops, Places, TInv, Indices
      <3>. QED  BY <1>2, <3>1, <3>2
    <2>2. {mem[y] : y \in o.srcs[k]} = {Found(Code, values, j, y) : y \in o.srcs[k]}
      BY <2>1
    <2>. QED  BY <2>2 DEF Value
  <1>4. mem'[x] = IF x \notin o.dst THEN mem[x]
                  ELSE IF o.add THEN mem[x] \union Term(o.tag, read) ELSE Term(o.tag, read)
    BY DEF Finish
  <1>5. CASE x \in o.dst
    <2>1. values[j] = Result(Code, values, j)
      BY <1>1 DEF Computed
    <2>2. values[j][x] = IF o.add THEN Found(Code, values, j, x) \union Term(o.tag, found)
                         ELSE Term(o.tag, found)
      BY <1>5, <2>1 DEF Result
    <2>3. mem[x] = Found(Code, values, j, x)
      BY <1>2, <1>5 DEF Footprint
    <2>4. mem'[x] = values[j][x]
      <3>. HIDE DEF read, found, values, j
      <3>. QED  BY <1>3, <1>4, <1>5, <2>2, <2>3
    <2>. QED  BY <1>5, <2>4
  <1>6. CASE x \notin o.dst
    BY <1>4, <1>6
  <1>. QED  BY <1>5, <1>6

\* Every step leaves in memory what the order of the text would.
LEMMA MemStep ==
    ASSUME TInv, OverInv, MemInv, InOrder(Code, Over(Code)), Computed(Code, Values(Code)),
           NEW p \in Pipe, Step(p)
    PROVE  MemInv'
  <1>1. Code' = Code /\ Ops(Code) \subseteq Nat
    BY StaysThrough, CodeIs DEF TInv, Indices
  <1>2. Places' = Places /\ \A x : WritersOf(Code, x)' = WritersOf(Code, x)
    BY <1>1 DEF Places, WritersOf, Ops
  <1>. SUFFICES ASSUME NEW x \in Places PROVE mem'[x] = Left(Values(Code), Written(x)', x)
    BY <1>1, <1>2 DEF MemInv
  <1>3. CASE Issues(p)
    <2>1. \A i \in WritersOf(Code, x) : Through(i)' <=> Through(i)
      BY <1>3, ThroughNow DEF WritersOf
    <2>2. Written(x)' = Written(x)
      BY <1>2, <2>1 DEF Written
    <2>. QED  BY <1>3, <2>2 DEF Issues, MemInv
  <1>4. CASE Finish(p)
    <2>1. PICK o \in Busy(p) : o = Head(busy[p])
      BY <1>4, Finished
    <2>2. o \in Ops(Code) /\ o \in Nat
      BY <1>1, <2>1 DEF TInv
    <2>3. \A i \in WritersOf(Code, x) : Through(i)' <=> Through(i) \/ i = o
      BY <1>4, <2>1, ThroughNow DEF WritersOf
    <2>4. CASE x \notin Code[o].dst
      <3>1. o \notin WritersOf(Code, x)
        BY <2>4 DEF WritersOf
      <3>2. Written(x)' = Written(x)
        BY <1>2, <2>3, <3>1 DEF Written
      <3>. QED  BY <1>4, <2>1, <2>4, <3>2, LeavesResult DEF MemInv
    <2>5. CASE x \in Code[o].dst
      <3>1. o \in WritersOf(Code, x) /\ x \in Footprint(Code[o])
        BY <2>2, <2>5 DEF WritersOf, Footprint
      <3>2. Written(x) = UpTo(WritersOf(Code, x), o - 1)
        BY <2>1, <3>1, InTextOrder
      <3>3. Written(x)' = Written(x) \union {o}
        BY <1>2, <2>3, <3>1 DEF Written
      <3>4. Written(x)' \subseteq Nat /\ o \in Written(x)' /\ \A k \in Written(x)' : k <= o
        BY <1>1, <2>2, <3>1, <3>2, <3>3 DEF UpTo, WritersOf
      <3>5. Max(Written(x)') = o /\ Written(x)' # {}
        BY <3>4, MaxIs
      <3>. QED  BY <1>4, <2>1, <2>5, <3>5, LeavesResult DEF Left
    <2>. QED  BY <2>4, <2>5
  <1>. QED  BY <1>3, <1>4, StepIs

-----------------------------------------------------------------------------
(***************************************************************************)
(* The inductive invariant and what follows from it.                       *)
(***************************************************************************)
IInv == TInv /\ Counted /\ OverInv /\ MemInv /\ FlagDepth

\* At first nothing is issued.
LEMMA InitHolds == Init => IInv
  <1>. SUFFICES ASSUME Init PROVE IInv
    OBVIOUS
  <1>1. TInv /\ program \in Programs /\ Len(Code) \in Nat
    BY InitTyped, CodeIs DEF Init
  <1>2. ASSUME NEW p \in Pipe, NEW i \in Indices, Its(p, i) PROVE ~(i < at[p])
    <2>1. \A j \in Indices : 1 <= j /\ j < From(p, 1) => ~Its(p, j)
      BY <1>1, FromIs
    <2>2. at[p] = From(p, 1) /\ 1 <= i
      BY <1>1 DEF Init, Indices
    <2>. QED  BY <1>2, <2>1, <2>2
  <1>3. ASSUME NEW i \in Indices, Code[i].kind # "barrier" PROVE ~(i < at[Code[i].pipe])
    <2>1. Code[i].pipe \in Pipe /\ Its(Code[i].pipe, i)
      BY <1>1, <1>3, CodeIs DEF Its
    <2>. QED  BY <1>2, <2>1
  <1>4. Counted
    <2>. SUFFICES ASSUME NEW l \in Lanes
                  PROVE  flag[l] = Cardinality(Posted(l)) - Cardinality(Consumed(l))
      BY DEF Counted
    <2>1. \A i \in SetsOf(Code, l) \union WaitsOf(Code, l) : i \in Indices /\ Code[i].kind # "barrier"
      BY <1>1, LaneIs DEF SetsOf, WaitsOf
    <2>2. Posted(l) = {} /\ Consumed(l) = {}
      BY <1>3, <2>1 DEF Posted, Consumed
    <2>3. flag[l] = 0
      BY DEF Init
    <2>. QED  BY <2>2, <2>3, FS_EmptySet
  <1>5. OverInv
    BY <1>2 DEF OverInv
  <1>6. MemInv
    <2>1. \A i : ~Through(i)
      BY <1>3 DEF Through
    <2>. QED  BY <2>1 DEF MemInv, Written, Left, Init
  <1>7. FlagDepth
    BY ProgramsAssumption DEF Init, FlagDepth
  <1>. QED  BY <1>1, <1>4, <1>5, <1>6, <1>7 DEF IInv

\* Nothing of it depends on a step that changes nothing.
LEMMA StutterHolds == ASSUME IInv, UNCHANGED vars PROVE IInv'
  <1>1. UNCHANGED <<Code, Indices, Lanes, Places>> /\ UNCHANGED <<program, at, busy, flag, mem>>
    BY DEF vars, Code, Indices, Lanes, Places
  <1>2. \A p : Busy(p)' = Busy(p)
    BY <1>1 DEF Busy
  <1>3. TInv'
    BY <1>1, <1>2 DEF IInv, TInv, Its, Ops
  <1>4. Counted' /\ FlagDepth'
    BY <1>1 DEF IInv, Counted, FlagDepth, Posted, Consumed, SetsOf, WaitsOf
  <1>5. \A i : Through(i)' <=> Through(i)
    BY <1>1, <1>2 DEF Through
  <1>6. OverInv'
    BY <1>1, <1>5 DEF IInv, OverInv, Its
  <1>7. \A x : Written(x)' = Written(x)
    BY <1>1, <1>5 DEF Written, WritersOf, Ops
  <1>8. MemInv'
    BY <1>1, <1>7 DEF IInv, MemInv
  <1>. QED  BY <1>3, <1>4, <1>6, <1>8 DEF IInv

(***************************************************************************)
(* The variables keep their types, whatever the program is: a pipe never   *)
(* has more in progress than it can, nor an instruction of another one.    *)
(***************************************************************************)
THEOREM TypeCorrect == Spec => []TypeOK
  <1>1. Init => TInv
    BY InitTyped
  <1>2. TInv /\ [Next]_vars => TInv'
    <2>1. ASSUME TInv, UNCHANGED vars PROVE TInv'
      <3>1. UNCHANGED <<Code, Lanes, Places>> /\ UNCHANGED <<program, at, busy, flag, mem>>
        BY <2>1 DEF vars, Code, Lanes, Places
      <3>2. \A p : Busy(p)' = Busy(p)
        BY <3>1 DEF Busy
      <3>. QED  BY <2>1, <3>1, <3>2 DEF TInv, Its, Ops
    <2>. QED  BY <2>1, TypedStep DEF Next, Terminated
  <1>3. TInv => TypeOK
    <2>. SUFFICES ASSUME TInv PROVE TypeOK
      OBVIOUS
    <2>1. DOMAIN program = {"code", "right"}
      BY ProgramsAssumption DEF TInv
    <2>2. \A p \in Pipe : \A i \in DOMAIN busy[p] : Code[busy[p][i]].pipe = p
      BY DEF TInv, Busy
    <2>3. DOMAIN mem = Places
      BY DEF TInv
    <2>. QED  BY <2>1, <2>2, <2>3 DEF TInv, TypeOK
  <1>. QED  BY <1>1, <1>2, <1>3, PTL DEF Spec

\* The inductive invariant holds of every reachable state.
THEOREM Invariance == AllSynchronized => (Spec => []IInv)
  <1>. SUFFICES ASSUME AllSynchronized PROVE Spec => []IInv
    OBVIOUS
  <1>1. IInv /\ [Next]_vars => IInv'
    <2>. SUFFICES ASSUME IInv, NEW p \in Pipe, Step(p) PROVE IInv'
      BY StutterHolds DEF Next, Terminated
    <2>1. /\ Ordered(Code, Over(Code)) /\ InOrder(Code, Over(Code))
          /\ EventsFit(Code, Over(Code)) /\ Computed(Code, Values(Code))
      BY TextIs DEF IInv, TInv
    <2>2. TInv' /\ Counted' /\ OverInv'
      BY <2>1, TypedStep, CountStep, OverStep DEF IInv
    <2>3. MemInv' /\ FlagDepth'
      BY <2>1, <2>2, MemStep, DepthStep DEF IInv
    <2>. QED  BY <2>2, <2>3 DEF IInv
  <1>. QED  BY <1>1, InitHolds, PTL DEF Spec

(***************************************************************************)
(* No operation writes a tile that another one in progress reads or        *)
(* writes.                                                                 *)
(***************************************************************************)
THEOREM RaceFree == AllSynchronized => (Spec => []NoRace)
  <1>. SUFFICES ASSUME AllSynchronized PROVE Spec => []NoRace
    OBVIOUS
  <1>1. IInv => NoRace
    BY TextIs, OrderedRaceFree DEF IInv, TInv
  <1>. QED  BY <1>1, Invariance, PTL

\* The events that pile up on a lane are as many as the text says at most.
THEOREM EventsStayFew == AllSynchronized => (Spec => []FlagDepth)
  <1>. SUFFICES ASSUME AllSynchronized PROVE Spec => []FlagDepth
    OBVIOUS
  <1>. QED  BY Invariance, PTL DEF IInv

\* None is left at the end.
THEOREM NoEventLeaks == AllSynchronized => (Spec => []NoFlagLeak)
  <1>. SUFFICES ASSUME AllSynchronized PROVE Spec => []NoFlagLeak
    OBVIOUS
  <1>1. IInv => NoFlagLeak
    BY TextIs, NothingLeft DEF IInv, TInv
  <1>. QED  BY <1>1, Invariance, PTL

-----------------------------------------------------------------------------
(* The code implements Produce *)

\* The operation that writes a place that the program is to produce.
LEMMA OneWriter ==
    ASSUME TInv, MemInv, Yields(Code, Values(Code), Right), NEW x \in DOMAIN Right
    PROVE  /\ x \in Places
           /\ \E i \in Ops(Code) :
                 /\ Code[i].dst = {x} /\ WritersOf(Code, x) = {i}
                 /\ \A n \in Ops(Code) : x \in Code[n].dst => n = i
                 /\ Left(Values(Code), {i}, x) = Right[x]
                 /\ mem[x] = IF Through(i) THEN Right[x] ELSE {}
  <1>1. PICK i \in Ops(Code) :
           Code[i].dst = {x} /\ WritersOf(Code, x) = {i} /\ Values(Code)[i][x] = Right[x]
    BY DEF Yields
  <1>2. i \in Nat /\ Code[i].kind = "op" /\ i \in 1..Len(Code)
    BY CodeIs DEF TInv, Ops, Indices
  <1>3. x \in Places
    BY <1>1, <1>2 DEF Places
  <1>4. mem[x] = Left(Values(Code), Written(x), x)
    BY <1>3 DEF MemInv
  <1>5. Left(Values(Code), {i}, x) = Right[x]
    <2>1. {i} \subseteq Nat /\ i \in {i} /\ \A k \in {i} : k <= i
      BY <1>2
    <2>2. Max({i}) = i
      BY <2>1, MaxIs
    <2>. QED  BY <1>1, <2>2 DEF Left
  <1>6. Written(x) = IF Through(i) THEN {i} ELSE {}
    BY <1>1 DEF Written
  <1>7. mem[x] = IF Through(i) THEN Right[x] ELSE {}
    <2>1. CASE Through(i)
      BY <1>4, <1>5, <1>6, <2>1
    <2>2. CASE ~Through(i)
      BY <1>4, <1>6, <2>2 DEF Left
    <2>. QED  BY <2>1, <2>2
  <1>8. \A n \in Ops(Code) : x \in Code[n].dst => n = i
    BY <1>1 DEF WritersOf
  <1>. QED  BY <1>1, <1>3, <1>5, <1>7, <1>8

(***************************************************************************)
(* Every place of global memory that the code writes gets its right value, *)
(* once, and keeps it.                                                     *)
(***************************************************************************)
THEOREM CodeProduces == AllSynchronized => (Spec => ImplementsProduce)
  <1>. SUFFICES ASSUME AllSynchronized PROVE Spec => ImplementsProduce
    OBVIOUS
  <1>1. Init => Produces!Init
    <2>. SUFFICES ASSUME Init PROVE Produces!Init
      OBVIOUS
    <2>1. program \in Programs /\ TInv /\ MemInv
      BY InitHolds DEF Init, IInv
    <2>2. \A x \in DOMAIN Right : x \in Places
      BY <2>1, TextIs, OneWriter
    <2>3. Out = [x \in DOMAIN Right |-> {}]
      BY <2>2 DEF Init, Out
    <2>. QED  BY <2>1, <2>3 DEF Produces!Init, Right
  <1>2. IInv /\ IInv' /\ [Next]_vars => [Produces!Next]_Produces!vars
    <2>. SUFFICES ASSUME IInv, IInv', [Next]_vars PROVE [Produces!Next]_Produces!vars
      OBVIOUS
    <2>1. CASE UNCHANGED <<program, mem>>
      <3>1. Right' = Right /\ Out' = Out
        BY <2>1 DEF Right, Out
      <3>. QED  BY <3>1 DEF Produces!vars
    <2>2. ASSUME NEW p \in Pipe, Step(p), Finish(p) PROVE [Produces!Next]_Produces!vars
      <3>. DEFINE o == Head(busy[p])
      <3>1. /\ program' = program /\ Right' = Right /\ Code' = Code /\ o \in Ops(Code) /\ ~Through(o)
            /\ \A i \in Ops(Code) : Through(i)' <=> Through(i) \/ i = o
        <4>1. o \in Busy(p) /\ o \in Ops(Code) /\ Code[o].pipe = p
          BY <2>2, Finished DEF IInv, TInv
        <4>2. program' = program
          BY <2>2 DEF Finish
        <4>3. \A i \in Ops(Code) : Through(i)' <=> Through(i) \/ i = o
          BY <2>2, ThroughNow DEF IInv
        <4>. HIDE DEF o
        <4>. QED  BY <4>1, <4>2, <4>3 DEF Right, Code, Through
      <3>. HIDE DEF o
      <3>2. Yields(Code, Values(Code), Right) /\ Yields(Code, Values(Code), Right)'
        BY <3>1, TextIs DEF IInv, TInv
      <3>3. ASSUME NEW x \in DOMAIN Right
            PROVE  \E i \in Ops(Code) :
                      /\ Code[i].dst = {x} /\ (\A n \in Ops(Code) : x \in Code[n].dst => n = i)
                      /\ mem[x] = IF Through(i) THEN Right[x] ELSE {}
                      /\ mem'[x] = IF Through(i) \/ i = o THEN Right[x] ELSE {}
        <4>1. x \in Places
          BY <3>2, OneWriter DEF IInv
        <4>2. PICK i \in Ops(Code) :
                 /\ Code[i].dst = {x} /\ WritersOf(Code, x) = {i}
                 /\ \A n \in Ops(Code) : x \in Code[n].dst => n = i
                 /\ Left(Values(Code), {i}, x) = Right[x]
                 /\ mem[x] = IF Through(i) THEN Right[x] ELSE {}
          BY <3>2, OneWriter DEF IInv
        <4>3. Places' = Places /\ WritersOf(Code, x)' = WritersOf(Code, x)
          BY <3>1 DEF Places, WritersOf, Ops
        <4>4. mem'[x] = Left(Values(Code), Written(x)', x)
          BY <3>1, <4>1, <4>3 DEF IInv, MemInv
        <4>5. Written(x)' = IF Through(i) \/ i = o THEN {i} ELSE {}
          BY <3>1, <4>2, <4>3 DEF Written
        <4>6. mem'[x] = IF Through(i) \/ i = o THEN Right[x] ELSE {}
          <5>1. CASE Through(i) \/ i = o
            BY <4>2, <4>4, <4>5, <5>1
          <5>2. CASE ~(Through(i) \/ i = o)
            BY <4>4, <4>5, <5>2 DEF Left
          <5>. QED  BY <5>1, <5>2
        <4>. QED  BY <4>2, <4>6
      <3>4. CASE \E x \in DOMAIN Right : Code[o].dst = {x} /\ mem[x] = {} /\ mem'[x] = Right[x]
        <4>1. PICK x \in DOMAIN Right : Code[o].dst = {x} /\ mem[x] = {} /\ mem'[x] = Right[x]
          BY <3>4
        <4>2. ASSUME NEW y \in DOMAIN Right, y # x PROVE mem'[y] = mem[y]
          BY <3>1, <3>3, <4>1, <4>2
        <4>3. Out[x] = {} /\ Out' = [Out EXCEPT ![x] = Right[x]]
          BY <3>1, <4>1, <4>2 DEF Out
        <4>. QED  BY <3>1, <4>1, <4>3 DEF Produces!Next, Produces!Write
      <3>5. CASE ~\E x \in DOMAIN Right : Code[o].dst = {x} /\ mem[x] = {} /\ mem'[x] = Right[x]
        <4>1. ASSUME NEW x \in DOMAIN Right PROVE mem'[x] = mem[x]
          BY <3>1, <3>3, <3>5, <4>1
        <4>2. Out' = Out
          BY <3>1, <4>1 DEF Out
        <4>. QED  BY <3>1, <4>2 DEF Produces!vars
      <3>. QED  BY <3>4, <3>5
    <2>3. ASSUME NEW p \in Pipe, Issues(p) PROVE UNCHANGED <<program, mem>>
      BY <2>3 DEF Issues
    <2>4. CASE UNCHANGED vars
      BY <2>1, <2>4 DEF vars
    <2>5. ASSUME NEW p \in Pipe, Step(p) PROVE Issues(p) \/ Finish(p)
      BY <2>5, StepIs DEF IInv
    <2>. QED  BY <2>1, <2>2, <2>3, <2>4, <2>5 DEF Next, Terminated
  <1>. QED
    BY <1>1, <1>2, Invariance, PTL DEF Spec, ImplementsProduce, Produces!Spec

\* A place has its right value when what writes it is through.
LEMMA RightWhenThrough ==
    ASSUME TInv, MemInv, Yields(Code, Values(Code), Right),
           \A x \in DOMAIN Right, i \in Ops(Code) : x \in Code[i].dst => Through(i)
    PROVE  Out = Right
  <1>1. ASSUME NEW x \in DOMAIN Right PROVE mem[x] = Right[x]
    <2>1. PICK i \in Ops(Code) : Code[i].dst = {x} /\ mem[x] = IF Through(i) THEN Right[x] ELSE {}
      BY OneWriter
    <2>. QED  BY <2>1
  <1>2. Right = [x \in DOMAIN Right |-> Right[x]]
    BY ProgramsAssumption DEF TInv, Right
  <1>. QED  BY <1>1, <1>2 DEF Out

(***************************************************************************)
(* When the code is through every result is there, and right: none was     *)
(* lost to another store, or computed from a tile that was not complete.   *)
(***************************************************************************)
THEOREM EndsRight == AllSynchronized => (Spec => [](Done => Out = Right))
  <1>. SUFFICES ASSUME AllSynchronized PROVE Spec => [](Done => Out = Right)
    OBVIOUS
  <1>1. ASSUME IInv, Done PROVE Out = Right
    <2>1. ASSUME NEW i \in Ops(Code) PROVE Through(i)
      <3>1. i \in Indices /\ Code[i].kind = "op" /\ Code[i].pipe \in Pipe /\ Len(Code) \in Nat
        BY <1>1, CodeIs DEF IInv, TInv, Ops
      <3>2. /\ at[Code[i].pipe] > Len(Code) /\ at[Code[i].pipe] \in Nat
            /\ Busy(Code[i].pipe) = {}
        BY <1>1, <3>1 DEF Done, Busy, IInv, TInv
      <3>. QED  BY <3>1, <3>2 DEF Through, Indices
    <2>. QED  BY <1>1, <2>1, TextIs, RightWhenThrough DEF IInv, TInv
  <1>. QED  BY <1>1, Invariance, PTL

(***************************************************************************)
(* If the text of the program makes the scalar unit wait for its stores,   *)
(* the results are in memory when the core retires.                        *)
(***************************************************************************)
THEOREM RetiresDrained == AllSynchronized => (Spec => [](Drained(program) => StoresDrained))
  <1>. SUFFICES ASSUME AllSynchronized PROVE Spec => [](Drained(program) => StoresDrained)
    OBVIOUS
  <1>1. ASSUME IInv, Drained(program), at["S"] > Len(Code) PROVE Out = Right
    <2>1. ASSUME NEW x \in DOMAIN Right, NEW i \in Ops(Code), x \in Code[i].dst PROVE Through(i)
      <3>1. PICK j \in DOMAIN Code : Code[j].pipe \in {"S", "ALL"} /\ i \in Over(Code)[j]
        BY <1>1, <2>1 DEF Drained, EndsDrained, Code, Right
      <3>2. "S" \in Pipe /\ Its("S", j)
        BY <3>1 DEF Pipe, Its
      <3>3. j \in Indices /\ j < at["S"]
        BY <1>1, <3>2, CodeIs DEF IInv, TInv, Indices
      <3>. QED  BY <1>1, <3>1, <3>2, <3>3 DEF IInv, OverInv
    <2>. QED  BY <1>1, <2>1, TextIs, RightWhenThrough DEF IInv, TInv
  <1>2. IInv => (Drained(program) => StoresDrained)
    BY <1>1 DEF StoresDrained
  <1>. QED  BY <1>2, Invariance, PTL

-----------------------------------------------------------------------------
(* No deadlock *)

\* Pipe p can go on: finish an operation, or issue its next instruction.
CanGoOn(p) ==
    \/ busy[p] # <<>>
    \/ Is(p, "set") /\ busy[p] = <<>>
    \/ Is(p, "wait") /\ flag[Instr(p).lane] > 0
    \/ Is(p, "barrier") /\ IF Instr(p).pipe = "ALL" THEN \A r \in Pipe : DoneBefore(r, at[p])
                           ELSE DoneBefore(p, at[p])
    \/ Is(p, "op") /\ Len(busy[p]) < Depth(p)

\* The event of the wait_flag that every pipe has come up to was posted.
LEMMA EventIsThere ==
    ASSUME TInv, Counted, WaitsMatch(Code), NEW p \in Pipe, at[p] \in Indices,
           \A q \in Pipe : at[p] <= at[q], Instr(p).kind = "wait"
    PROVE  flag[Instr(p).lane] > 0
  <1>. DEFINE l == Instr(p).lane
              waits == UpTo(WaitsOf(Code, l), at[p])
              sets(t) == UpTo(SetsOf(Code, l), t)
  <1>1. /\ program \in Programs /\ Indices \subseteq Nat /\ DOMAIN Code = Indices
        /\ \A q \in Pipe : at[q] \in Nat
    BY CodeIs DEF TInv, Indices
  <1>2. PICK s \in sets(at[p]) : Cardinality(sets(s)) = Cardinality(waits)
    BY <1>1 DEF WaitsMatch, Matching, Instr
  <1>3. at[p] \in WaitsOf(Code, l) /\ l \in Lanes
    BY <1>1 DEF WaitsOf, Instr, Lanes, Indices
  <1>4. Its(p, at[p]) /\ Code[at[p]].pipe \in Pipe
    BY <1>1, <1>3, LaneIs DEF TInv, Indices
  <1>5. Code[at[p]].pipe = p
    BY <1>1, <1>4, CodeIs DEF Its
  <1>6. waits = Consumed(l) \union {at[p]} /\ at[p] \notin Consumed(l)
    <2>1. \A w \in WaitsOf(Code, l) : Code[w].pipe = p /\ w \in Nat
      BY <1>1, <1>3, <1>5, LaneIs
    <2>. QED  BY <1>1, <1>3, <2>1 DEF UpTo, Consumed
  <1>7. /\ Cardinality(Consumed(l)) \in Nat
        /\ Cardinality(waits) = Cardinality(Consumed(l)) + 1
    <2>1. IsFiniteSet(Consumed(l)) /\ Cardinality(Consumed(l)) \in Nat
      BY <1>1, LaneIs, Counting DEF Consumed
    <2>. HIDE DEF waits
    <2>. QED  BY <1>6, <2>1, FS_AddElement
  <1>8. s \in SetsOf(Code, l) /\ s \in Nat /\ s <= at[p] /\ s # at[p]
    BY <1>1, <1>2, <1>3, LaneIs DEF UpTo, SetsOf, WaitsOf
  <1>9. sets(s) \subseteq Posted(l)
    <2>1. ASSUME NEW t \in sets(s) PROVE t < at[Code[t].pipe]
      <3>1. t \in Nat /\ t <= s /\ Code[t].pipe \in Pipe
        BY <1>1, LaneIs DEF UpTo
      <3>2. at[p] <= at[Code[t].pipe] /\ at[Code[t].pipe] \in Nat /\ at[p] \in Nat
        BY <1>1, <3>1
      <3>. QED  BY <1>8, <3>1, <3>2
    <2>. QED  BY <2>1 DEF UpTo, Posted
  <1>10. Cardinality(sets(s)) <= Cardinality(Posted(l)) /\ Cardinality(Posted(l)) \in Nat
    <2>1. IsFiniteSet(Posted(l)) /\ Cardinality(Posted(l)) \in Nat
      BY <1>1, LaneIs, Counting DEF Posted
    <2>. HIDE DEF sets
    <2>. QED  BY <1>9, <2>1, FS_Subset
  <1>11. flag[l] = Cardinality(Posted(l)) - Cardinality(Consumed(l))
    BY <1>3 DEF Counted
  <1>. QED  BY <1>2, <1>7, <1>10, <1>11

(***************************************************************************)
(* The pipes never wait for each other in a circle: until the code is      *)
(* through, one of them can go on.                                         *)
(***************************************************************************)
THEOREM NeverStuck == AllSynchronized => (Spec => [](Done \/ \E p \in Pipe : CanGoOn(p)))
  <1>. SUFFICES ASSUME AllSynchronized PROVE Spec => [](Done \/ \E p \in Pipe : CanGoOn(p))
    OBVIOUS
  <1>1. ASSUME IInv, ~Done, \A p \in Pipe : busy[p] = <<>> PROVE \E p \in Pipe : CanGoOn(p)
    <2>1. /\ \A q \in Pipe : at[q] \in Nat
          /\ Len(Code) \in Nat /\ program \in Programs
      BY <1>1, CodeIs DEF IInv, TInv
    <2>2. PICK p \in Pipe : \A q \in Pipe : at[p] <= at[q]
      <3>. DEFINE T == {at[q] : q \in Pipe}
      <3>1. T \subseteq Nat /\ T # {}
        BY <2>1 DEF Pipe
      <3>2. Min(T) \in T /\ \A y \in T : Min(T) <= y
        <4>. HIDE DEF T
        <4>. QED  BY <3>1, MinIs
      <3>. QED  BY <3>2
    <2>3. at[p] \in Indices
      <3>1. PICK q \in Pipe : ~(at[q] > Len(Code))
        BY <1>1 DEF Done
      <3>2. at[p] <= at[q] /\ at[p] \in 1..(Len(Code) + 1)
        BY <1>1, <2>2 DEF IInv, TInv
      <3>. QED  BY <2>1, <3>1, <3>2 DEF Indices
    <2>4. \A q \in Pipe : DoneBefore(q, at[p])
      <3>1. \A q \in Pipe : DOMAIN busy[q] = {}
        BY <1>1
      <3>. QED  BY <2>1, <2>2, <3>1 DEF DoneBefore
    <2>5. \A k : Is(p, k) <=> Instr(p).kind = k
      BY <2>1, <2>3, <2>4 DEF Is, Pipe, Indices
    <2>6. Instr(p).kind \in {"set", "wait", "barrier", "op"}
      BY <2>1, <2>3, CodeIs DEF IsCode, Instr
    <2>7. Instr(p).kind = "wait" => flag[Instr(p).lane] > 0
      BY <1>1, <2>1, <2>2, <2>3, TextIs, EventIsThere DEF IInv
    <2>8. busy[p] = <<>> /\ Len(busy[p]) < Depth(p)
      BY <1>1 DEF Depth
    <2>. QED  BY <2>4, <2>5, <2>6, <2>7, <2>8 DEF CanGoOn
  <1>2. IInv => Done \/ \E p \in Pipe : CanGoOn(p)
    BY <1>1 DEF CanGoOn
  <1>. QED  BY <1>2, Invariance, PTL

-----------------------------------------------------------------------------
(* Texts *)

\* A sequence.
Text(s) == Len(s) \in Nat /\ s = [i \in 1..Len(s) |-> s[i]]

\* A text is what Sequences calls one.
LEMMA TextIsSeq ==
    ASSUME NEW s
    PROVE  /\ Text(s) => s \in Seq({s[i] : i \in 1..Len(s)}) /\ DOMAIN s = 1..Len(s)
           /\ \A S : s \in Seq(S) => Text(s)
  <1>1. ASSUME Text(s) PROVE s \in Seq({s[i] : i \in 1..Len(s)}) /\ DOMAIN s = 1..Len(s)
    <2>. DEFINE n == Len(s)
                S == {s[i] : i \in 1..n}
    <2>1. n \in Nat /\ s = [i \in 1..n |-> s[i]]
      BY <1>1 DEF Text
    <2>2. s \in [1..n -> S]
      <3>. HIDE DEF n
      <3>. QED  BY <2>1
    <2>3. s \in Seq(S)
      <3>. HIDE DEF n, S
      <3>. QED  BY <2>1, <2>2, SeqDef
    <2>4. DOMAIN s = 1..n
      <3>. HIDE DEF n
      <3>. QED  BY <2>1
    <2>. QED  BY <2>3, <2>4
  <1>2. ASSUME NEW S, s \in Seq(S) PROVE Text(s)
    BY <1>2 DEF Text
  <1>. QED  BY <1>1, <1>2

\* A text with an instruction more.
LEMMA Appended ==
    ASSUME NEW s, Text(s), NEW e
    PROVE  /\ Text(Append(s, e)) /\ Len(Append(s, e)) = Len(s) + 1
           /\ DOMAIN s = 1..Len(s) /\ DOMAIN Append(s, e) = 1..(Len(s) + 1)
           /\ \A i \in 1..Len(s) : Append(s, e)[i] = s[i]
           /\ Append(s, e)[Len(s) + 1] = e
  <1>. DEFINE S == {s[i] : i \in 1..Len(s)} \union {e}
              d == Append(s, e)
  <1>1. s \in Seq(S) /\ e \in S /\ DOMAIN s = 1..Len(s)
    <2>. DEFINE R == {s[i] : i \in 1..Len(s)}
    <2>1. s \in Seq(R) /\ DOMAIN s = 1..Len(s)
      BY TextIsSeq
    <2>2. R \subseteq S
      OBVIOUS
    <2>3. s \in Seq(S)
      <3>. HIDE DEF R, S
      <3>. QED  BY <2>1, <2>2
    <2>. QED  BY <2>1, <2>3
  <1>. HIDE DEF S
  <1>2. /\ d \in Seq(S) /\ Len(d) = Len(s) + 1
        /\ \A i \in 1..Len(s) : d[i] = s[i]
        /\ d[Len(s) + 1] = e
    BY <1>1, AppendProperties
  <1>3. Text(d)
    BY <1>2, TextIsSeq
  <1>4. DOMAIN d = 1..(Len(s) + 1)
    BY <1>2
  <1>. QED  BY <1>1, <1>2, <1>3, <1>4

\* Texts with the same instructions are the same.
LEMMA SameText ==
    ASSUME NEW s, NEW t, Text(s), Text(t), Len(s) = Len(t), \A i \in 1..Len(s) : s[i] = t[i]
    PROVE  s = t
  BY DEF Text

-----------------------------------------------------------------------------
(* What is over, and what is computed, instruction by instruction *)

OverIs(c, n, f) ==
    /\ f = [j \in 0..n |-> f[j]] /\ f[0] = <<>>
    /\ \A j \in 1..n : f[j] = Append(f[j - 1], Follows(c, f[j - 1], j))

\* The recursion of Over computes what it says for every prefix of the text.
LEMMA OverExists ==
    ASSUME NEW c, NEW n \in Nat
    PROVE  \E f : OverIs(c, n, f)
  <1>. DEFINE S == {k \in 0..n : \E f : OverIs(c, k, f)}
  <1>1. 0 \in S
    <2>. DEFINE f == [j \in 0..0 |-> <<>>]
    <2>1. OverIs(c, 0, f)
      BY DEF OverIs
    <2>. QED  BY <2>1
  <1>2. ASSUME NEW k \in 0..(n - 1), k \in S PROVE k + 1 \in S
    <2>1. PICK f : OverIs(c, k, f)
      BY <1>2
    <2>. DEFINE g == [j \in 0..(k + 1) |-> IF j = k + 1 THEN Append(f[k], Follows(c, f[k], k + 1)) ELSE f[j]]
    <2>4. g[k + 1] = Append(f[k], Follows(c, f[k], k + 1)) /\ \A j \in 0..k : g[j] = f[j]
      OBVIOUS
    <2>2. g[0] = <<>> /\ \A j \in 1..(k + 1) : g[j] = Append(g[j - 1], Follows(c, g[j - 1], j))
      <3>. HIDE DEF g
      <3>1. g[0] = <<>>
        BY <2>1, <2>4 DEF OverIs
      <3>2. ASSUME NEW j \in 1..(k + 1) PROVE g[j] = Append(g[j - 1], Follows(c, g[j - 1], j))
        <4>1. CASE j = k + 1
          <5>1. j - 1 = k /\ g[k] = f[k]
            BY <2>4, <4>1
          <5>. QED  BY <2>4, <4>1, <5>1
        <4>2. CASE j # k + 1
          <5>1. j \in 1..k /\ j \in 0..k /\ j - 1 \in 0..k
            BY <4>2
          <5>. QED  BY <2>1, <2>4, <5>1 DEF OverIs
        <4>. QED  BY <4>1, <4>2
      <3>. QED  BY <3>1, <3>2
    <2>3. OverIs(c, k + 1, g)
      <3>1. g = [j \in 0..(k + 1) |-> g[j]]
        OBVIOUS
      <3>. HIDE DEF g
      <3>. QED  BY <2>2, <3>1 DEF OverIs
    <2>. HIDE DEF g
    <2>. QED  BY <2>3
  <1>. HIDE DEF S
  <1>3. n \in S
    BY <1>1, <1>2, Induction
  <1>. QED  BY <1>3 DEF S

\* Over of a text with an instruction more: one entry more.
LEMMA OverUnfolds ==
    ASSUME NEW c, Len(c) \in Nat
    PROVE  \E f : OverIs(c, Len(c), f) /\ Over(c) = f[Len(c)]
  <1>. DEFINE n == Len(c)
              body(f) == [j \in 0..n |-> IF j = 0 THEN <<>> ELSE Append(f[j - 1], Follows(c, f[j - 1], j))]
              F == CHOOSE f : f = body(f)
  <1>1. PICK f : OverIs(c, n, f)
    BY OverExists
  <1>2. f = body(f)
    <2>1. f[0] = <<>> /\ \A j \in 1..n : f[j] = Append(f[j - 1], Follows(c, f[j - 1], j))
      BY <1>1 DEF OverIs
    <2>2. \A j \in 0..n : f[j] = IF j = 0 THEN <<>> ELSE Append(f[j - 1], Follows(c, f[j - 1], j))
      <3>. n \in Nat
        OBVIOUS
      <3>. HIDE DEF n
      <3>1. ASSUME NEW j \in 0..n, j # 0 PROVE f[j] = Append(f[j - 1], Follows(c, f[j - 1], j))
        <4>1. j \in 1..n
          BY <3>1
        <4>. QED  BY <2>1, <4>1
      <3>. QED  BY <2>1, <3>1
    <2>3. f = [j \in 0..n |-> f[j]]
      BY <1>1 DEF OverIs
    <2>. QED  BY <2>2, <2>3
  <1>3. F = body(F)
    <2>. HIDE DEF body
    <2>. QED  BY <1>2
  <1>4. OverIs(c, n, F)
    <2>. HIDE DEF F
    <2>1. n \in Nat
      OBVIOUS
    <2>. HIDE DEF n
    <2>2. F = [j \in 0..n |-> F[j]]
      BY <1>3
    <2>3. F[0] = <<>>
      BY <1>3, <2>1
    <2>4. ASSUME NEW j \in 1..n PROVE F[j] = Append(F[j - 1], Follows(c, F[j - 1], j))
      <3>1. j \in 0..n /\ j # 0
        BY <2>1
      <3>2. body(F)[j] = Append(F[j - 1], Follows(c, F[j - 1], j))
        BY <3>1
      <3>. HIDE DEF body
      <3>. QED  BY <1>3, <3>2
    <2>. QED  BY <2>2, <2>3, <2>4 DEF OverIs
  <1>5. Over(c) = F[n]
    BY DEF Over
  <1>. HIDE DEF F
  <1>. QED  BY <1>4, <1>5

\* Over has an entry for every instruction.
LEMMA OverLength ==
    ASSUME NEW c, NEW n \in Nat, NEW f, OverIs(c, n, f), NEW k \in 0..n
    PROVE  Text(f[k]) /\ Len(f[k]) = k
  <1>. DEFINE S == {j \in 0..n : Text(f[j]) /\ Len(f[j]) = j}
  <1>1. 0 \in S
    BY DEF OverIs, Text
  <1>2. ASSUME NEW j \in 0..(n - 1), j \in S PROVE j + 1 \in S
    <2>1. j + 1 \in 1..n /\ j + 1 \in 0..n /\ (j + 1) - 1 = j
      OBVIOUS
    <2>2. f[j + 1] = Append(f[j], Follows(c, f[j], j + 1))
      BY <2>1 DEF OverIs
    <2>3. Text(f[j]) /\ Len(f[j]) = j
      BY <1>2
    <2>4. Text(f[j + 1]) /\ Len(f[j + 1]) = j + 1
      BY <2>2, <2>3, Appended
    <2>. QED  BY <2>1, <2>4
  <1>3. k \in S
    <2>. HIDE DEF S
    <2>. QED  BY <1>1, <1>2, Induction
  <1>. QED  BY <1>3

\* What an instruction follows depends on what is in front of it only.
LEMMA FrontOnly ==
    ASSUME NEW c, Text(c), NEW ins, NEW over, NEW j \in 1..Len(c)
    PROVE  Follows(Append(c, ins), over, j) = Follows(c, over, j)
  <1>. DEFINE d == Append(c, ins)
  <1>1. /\ DOMAIN c = 1..Len(c) /\ DOMAIN d = 1..(Len(c) + 1) /\ Len(c) \in Nat
        /\ \A i \in 1..Len(c) : d[i] = c[i]
    BY Appended DEF Text
  <1>. HIDE DEF d
  <1>2. \A k \in 1..j : k \in 1..Len(c) /\ d[k] = c[k]
    BY <1>1
  <1>3. \A i \in 1..(j - 1) : Direct(d, i, j) = Direct(c, i, j)
    BY <1>2 DEF Direct
  <1>4. Earlier(d, j) = Earlier(c, j)
    BY <1>2 DEF Earlier
  <1>5. \A l, k : k \in 1..j => /\ UpTo(SetsOf(d, l), k) = UpTo(SetsOf(c, l), k)
                               /\ UpTo(WaitsOf(d, l), k) = UpTo(WaitsOf(c, l), k)
    BY <1>1, <1>2 DEF UpTo, SetsOf, WaitsOf
  <1>6. Matching(d, j) = Matching(c, j)
    <2>1. d[j] = c[j]
      BY <1>2
    <2>2. \A s \in UpTo(SetsOf(c, c[j].lane), j) : s \in 1..j
      BY <1>1 DEF UpTo, SetsOf
    <2>3. UpTo(SetsOf(d, c[j].lane), j) = UpTo(SetsOf(c, c[j].lane), j)
      BY <1>5
    <2>4. \A s \in UpTo(SetsOf(c, c[j].lane), j) :
             /\ UpTo(SetsOf(d, c[j].lane), s) = UpTo(SetsOf(c, c[j].lane), s)
             /\ UpTo(WaitsOf(d, c[j].lane), j) = UpTo(WaitsOf(c, c[j].lane), j)
      BY <1>5, <2>2
    <2>. QED  BY <2>1, <2>3, <2>4 DEF Matching
  <1>7. Follows(d, over, j) = Follows(c, over, j)
    BY <1>3, <1>4, <1>6 DEF Follows
  <1>. QED  BY <1>7 DEF d

\* What is over for an instruction stays so when the text goes on.
LEMMA OverExtends ==
    ASSUME NEW c, Text(c), NEW ins
    PROVE  /\ Text(Over(c)) /\ Len(Over(c)) = Len(c)
           /\ Over(Append(c, ins)) = Append(Over(c), Follows(Append(c, ins), Over(c), Len(c) + 1))
  <1>. DEFINE d == Append(c, ins)
              n == Len(c)
  <1>1. n \in Nat /\ Len(d) = n + 1 /\ Text(d)
    BY Appended DEF Text
  <1>2. PICK f : OverIs(c, n, f) /\ Over(c) = f[n]
    BY <1>1, OverUnfolds
  <1>3. PICK g : OverIs(d, n + 1, g) /\ Over(d) = g[n + 1]
    <2>1. PICK g : OverIs(d, Len(d), g) /\ Over(d) = g[Len(d)]
      <3>. HIDE DEF d
      <3>. QED  BY <1>1, OverUnfolds
    <2>. QED  BY <1>1, <2>1
  <1>. DEFINE S == {k \in 0..n : g[k] = f[k]}
  <1>4. 0 \in S
    BY <1>1, <1>2, <1>3 DEF OverIs
  <1>5. ASSUME NEW k \in 0..(n - 1), k \in S PROVE k + 1 \in S
    <2>1. k + 1 \in 1..n /\ k + 1 \in 1..(n + 1) /\ (k + 1) - 1 = k
      BY <1>1
    <2>2. f[k + 1] = Append(f[k], Follows(c, f[k], k + 1))
      BY <1>2, <2>1 DEF OverIs
    <2>3. g[k + 1] = Append(g[k], Follows(d, g[k], k + 1))
      BY <1>3, <2>1 DEF OverIs
    <2>4. Follows(d, g[k], k + 1) = Follows(c, g[k], k + 1)
      BY <2>1, FrontOnly
    <2>5. g[k] = f[k]
      BY <1>5
    <2>6. g[k + 1] = f[k + 1] /\ k + 1 \in 0..n
      <3>. HIDE DEF d
      <3>. QED  BY <2>1, <2>2, <2>3, <2>4, <2>5
    <2>. QED  BY <2>6
  <1>6. g[n] = f[n]
    <2>1. n \in S
      <3>. HIDE DEF S, n
      <3>1. 0..n \subseteq S
        BY <1>1, <1>4, <1>5, Induction
      <3>. QED  BY <1>1, <3>1
    <2>. QED  BY <2>1
  <1>7. g[n + 1] = Append(g[n], Follows(d, g[n], n + 1))
    BY <1>1, <1>3 DEF OverIs
  <1>8. Text(f[n]) /\ Len(f[n]) = n
    BY <1>1, <1>2, OverLength
  <1>. QED  BY <1>2, <1>3, <1>6, <1>7, <1>8

Item(c, values, j) == IF j \in Ops(c) THEN Result(c, values, j) ELSE <<>>

ValuesIs(c, n, f) ==
    /\ f = [j \in 0..n |-> f[j]] /\ f[0] = <<>>
    /\ \A j \in 1..n : f[j] = Append(f[j - 1], Item(c, f[j - 1], j))

\* The recursion of Values computes what it says for every prefix of the text.
LEMMA ValuesExist ==
    ASSUME NEW c, NEW n \in Nat
    PROVE  \E f : ValuesIs(c, n, f)
  <1>. DEFINE S == {k \in 0..n : \E f : ValuesIs(c, k, f)}
  <1>1. 0 \in S
    <2>. DEFINE f == [j \in 0..0 |-> <<>>]
    <2>1. ValuesIs(c, 0, f)
      BY DEF ValuesIs
    <2>. QED  BY <2>1
  <1>2. ASSUME NEW k \in 0..(n - 1), k \in S PROVE k + 1 \in S
    <2>1. PICK f : ValuesIs(c, k, f)
      BY <1>2
    <2>. DEFINE g == [j \in 0..(k + 1) |-> IF j = k + 1 THEN Append(f[k], Item(c, f[k], k + 1)) ELSE f[j]]
    <2>4. g[k + 1] = Append(f[k], Item(c, f[k], k + 1)) /\ \A j \in 0..k : g[j] = f[j]
      OBVIOUS
    <2>2. g[0] = <<>> /\ \A j \in 1..(k + 1) : g[j] = Append(g[j - 1], Item(c, g[j - 1], j))
      <3>. HIDE DEF g
      <3>1. g[0] = <<>>
        BY <2>1, <2>4 DEF ValuesIs
      <3>2. ASSUME NEW j \in 1..(k + 1) PROVE g[j] = Append(g[j - 1], Item(c, g[j - 1], j))
        <4>1. CASE j = k + 1
          <5>1. j - 1 = k /\ g[k] = f[k]
            BY <2>4, <4>1
          <5>. QED  BY <2>4, <4>1, <5>1
        <4>2. CASE j # k + 1
          <5>1. j \in 1..k /\ j \in 0..k /\ j - 1 \in 0..k
            BY <4>2
          <5>. QED  BY <2>1, <2>4, <5>1 DEF ValuesIs
        <4>. QED  BY <4>1, <4>2
      <3>. QED  BY <3>1, <3>2
    <2>3. ValuesIs(c, k + 1, g)
      <3>1. g = [j \in 0..(k + 1) |-> g[j]]
        OBVIOUS
      <3>. HIDE DEF g
      <3>. QED  BY <2>2, <3>1 DEF ValuesIs
    <2>. HIDE DEF g
    <2>. QED  BY <2>3
  <1>. HIDE DEF S
  <1>3. n \in S
    BY <1>1, <1>2, Induction
  <1>. QED  BY <1>3 DEF S

\* Values of a text with an instruction more: one entry more.
LEMMA ValuesUnfold ==
    ASSUME NEW c, Len(c) \in Nat
    PROVE  \E f : ValuesIs(c, Len(c), f) /\ Values(c) = f[Len(c)]
  <1>. DEFINE n == Len(c)
              body(f) == [j \in 0..n |-> IF j = 0 THEN <<>> ELSE Append(f[j - 1], Item(c, f[j - 1], j))]
              F == CHOOSE f : f = body(f)
  <1>1. PICK f : ValuesIs(c, n, f)
    BY ValuesExist
  <1>2. f = body(f)
    <2>1. f[0] = <<>> /\ \A j \in 1..n : f[j] = Append(f[j - 1], Item(c, f[j - 1], j))
      BY <1>1 DEF ValuesIs
    <2>2. \A j \in 0..n : f[j] = IF j = 0 THEN <<>> ELSE Append(f[j - 1], Item(c, f[j - 1], j))
      <3>. n \in Nat
        OBVIOUS
      <3>. HIDE DEF n
      <3>1. ASSUME NEW j \in 0..n, j # 0 PROVE f[j] = Append(f[j - 1], Item(c, f[j - 1], j))
        <4>1. j \in 1..n
          BY <3>1
        <4>. QED  BY <2>1, <4>1
      <3>. QED  BY <2>1, <3>1
    <2>3. f = [j \in 0..n |-> f[j]]
      BY <1>1 DEF ValuesIs
    <2>. QED  BY <2>2, <2>3
  <1>3. F = body(F)
    <2>. HIDE DEF body
    <2>. QED  BY <1>2
  <1>4. ValuesIs(c, n, F)
    <2>. HIDE DEF F
    <2>1. n \in Nat
      OBVIOUS
    <2>. HIDE DEF n
    <2>2. F = [j \in 0..n |-> F[j]]
      BY <1>3
    <2>3. F[0] = <<>>
      BY <1>3, <2>1
    <2>4. ASSUME NEW j \in 1..n PROVE F[j] = Append(F[j - 1], Item(c, F[j - 1], j))
      <3>1. j \in 0..n /\ j # 0
        BY <2>1
      <3>2. body(F)[j] = Append(F[j - 1], Item(c, F[j - 1], j))
        BY <3>1
      <3>. HIDE DEF body
      <3>. QED  BY <1>3, <3>2
    <2>. QED  BY <2>2, <2>3, <2>4 DEF ValuesIs
  <1>5. Values(c) = F[n]
    BY DEF Values, Item
  <1>. HIDE DEF F
  <1>. QED  BY <1>4, <1>5

\* Values has an entry for every instruction.
LEMMA ValuesLength ==
    ASSUME NEW c, NEW n \in Nat, NEW f, ValuesIs(c, n, f), NEW k \in 0..n
    PROVE  Text(f[k]) /\ Len(f[k]) = k
  <1>. DEFINE S == {j \in 0..n : Text(f[j]) /\ Len(f[j]) = j}
  <1>1. 0 \in S
    BY DEF ValuesIs, Text
  <1>2. ASSUME NEW j \in 0..(n - 1), j \in S PROVE j + 1 \in S
    <2>1. j + 1 \in 1..n /\ j + 1 \in 0..n /\ (j + 1) - 1 = j
      OBVIOUS
    <2>2. f[j + 1] = Append(f[j], Item(c, f[j], j + 1))
      BY <2>1 DEF ValuesIs
    <2>3. Text(f[j]) /\ Len(f[j]) = j
      BY <1>2
    <2>4. Text(f[j + 1]) /\ Len(f[j + 1]) = j + 1
      BY <2>2, <2>3, Appended
    <2>. QED  BY <2>1, <2>4
  <1>3. k \in S
    <2>. HIDE DEF S
    <2>. QED  BY <1>1, <1>2, Induction
  <1>. QED  BY <1>3

\* What an operation computes depends on what is in front of it only.
LEMMA ItemOfFront ==
    ASSUME NEW c, Text(c), NEW ins, NEW values, NEW j \in 1..Len(c)
    PROVE  Item(Append(c, ins), values, j) = Item(c, values, j)
  <1>. DEFINE d == Append(c, ins)
  <1>1. /\ DOMAIN c = 1..Len(c) /\ DOMAIN d = 1..(Len(c) + 1) /\ Len(c) \in Nat
        /\ \A i \in 1..Len(c) : d[i] = c[i]
    BY Appended DEF Text
  <1>. HIDE DEF d
  <1>2. d[j] = c[j] /\ (j \in Ops(d) <=> j \in Ops(c))
    BY <1>1 DEF Ops
  <1>3. \A x : UpTo(WritersOf(d, x), j - 1) = UpTo(WritersOf(c, x), j - 1)
    BY <1>1 DEF UpTo, WritersOf, Ops
  <1>4. \A x : Found(d, values, j, x) = Found(c, values, j, x)
    BY <1>3 DEF Found
  <1>5. Result(d, values, j) = Result(c, values, j)
    BY <1>2, <1>4 DEF Result
  <1>6. Item(d, values, j) = Item(c, values, j)
    BY <1>2, <1>5 DEF Item
  <1>. QED  BY <1>6 DEF d

\* What an operation has computed stays so when the text goes on.
LEMMA ValuesExtend ==
    ASSUME NEW c, Text(c), NEW ins
    PROVE  /\ Text(Values(c)) /\ Len(Values(c)) = Len(c)
           /\ Values(Append(c, ins)) = Append(Values(c), Item(Append(c, ins), Values(c), Len(c) + 1))
  <1>. DEFINE d == Append(c, ins)
              n == Len(c)
  <1>1. n \in Nat /\ Len(d) = n + 1 /\ Text(d)
    BY Appended DEF Text
  <1>2. PICK f : ValuesIs(c, n, f) /\ Values(c) = f[n]
    BY <1>1, ValuesUnfold
  <1>3. PICK g : ValuesIs(d, n + 1, g) /\ Values(d) = g[n + 1]
    <2>1. PICK g : ValuesIs(d, Len(d), g) /\ Values(d) = g[Len(d)]
      <3>. HIDE DEF d
      <3>. QED  BY <1>1, ValuesUnfold
    <2>. QED  BY <1>1, <2>1
  <1>. DEFINE S == {k \in 0..n : g[k] = f[k]}
  <1>4. 0 \in S
    BY <1>1, <1>2, <1>3 DEF ValuesIs
  <1>5. ASSUME NEW k \in 0..(n - 1), k \in S PROVE k + 1 \in S
    <2>1. k + 1 \in 1..n /\ k + 1 \in 1..(n + 1) /\ (k + 1) - 1 = k
      BY <1>1
    <2>2. f[k + 1] = Append(f[k], Item(c, f[k], k + 1))
      BY <1>2, <2>1 DEF ValuesIs
    <2>3. g[k + 1] = Append(g[k], Item(d, g[k], k + 1))
      BY <1>3, <2>1 DEF ValuesIs
    <2>4. Item(d, g[k], k + 1) = Item(c, g[k], k + 1)
      BY <2>1, ItemOfFront
    <2>5. g[k] = f[k]
      BY <1>5
    <2>6. g[k + 1] = f[k + 1] /\ k + 1 \in 0..n
      <3>. HIDE DEF d
      <3>. QED  BY <2>1, <2>2, <2>3, <2>4, <2>5
    <2>. QED  BY <2>6
  <1>6. g[n] = f[n]
    <2>1. n \in S
      <3>. HIDE DEF S, n
      <3>1. 0..n \subseteq S
        BY <1>1, <1>4, <1>5, Induction
      <3>. QED  BY <1>1, <3>1
    <2>. QED  BY <2>1
  <1>7. g[n + 1] = Append(g[n], Item(d, g[n], n + 1))
    BY <1>1, <1>3 DEF ValuesIs
  <1>8. Text(f[n]) /\ Len(f[n]) = n
    BY <1>1, <1>2, ValuesLength
  <1>. QED  BY <1>2, <1>3, <1>6, <1>7, <1>8

-----------------------------------------------------------------------------
(* Who knows what to be over *)

\* A pipe about to start an operation; "V+" is V when its operations are done.
Knower  == Pipe \union {"V+"}
Unit(p) == IF p = "V+" THEN "V" ELSE p
Whole(p) == IF p = "V" THEN "V+" ELSE p

KnowsItself(c, p) ==
    {i \in DOMAIN c : /\ c[i].kind # "barrier"
                      /\ \/ c[i].pipe = "S"
                         \/ c[i].pipe = Unit(p) /\ (p = "V" => c[i].kind # "op")}
Heeded(c, p) == {k \in DOMAIN c : c[k].pipe \in {Unit(p), "S", "ALL"}}
Knows(c, p) == KnowsItself(c, p) \union UNION {Over(c)[k] : k \in Heeded(c, p)}

\* What is over when the last event of a lane has come.
LastSet(c, l) == {s \in SetsOf(c, l) : \A r \in SetsOf(c, l) : r <= s}
Sent(c, l) == UNION {{s} \union Over(c)[s] : s \in LastSet(c, l)}

\* The instruction added to c and what is over with it.
New(c) == Len(c) + 1
NewOver(c, ins) == Follows(Append(c, ins), Over(c), New(c))

\* c with instruction ins added is d.
Adds(c, ins, d) ==
    /\ Text(d) /\ Len(c) \in Nat /\ Len(d) = New(c) /\ New(c) \in Nat /\ New(c) \in DOMAIN d
    /\ DOMAIN c = 1..Len(c) /\ DOMAIN d = DOMAIN c \union {New(c)}
    /\ \A i \in DOMAIN c : i # New(c) /\ i < New(c) /\ i \in Nat /\ i \in DOMAIN d /\ d[i] = c[i]
    /\ d[New(c)] = ins
    /\ \A i \in DOMAIN c : Over(d)[i] = Over(c)[i] /\ Values(d)[i] = Values(c)[i]
    /\ Over(d)[New(c)] = NewOver(c, ins)
    /\ Values(d)[New(c)] = Item(d, Values(c), New(c))

\* A text with an instruction more: the indices, what is over, and the values.
LEMMA WithNew ==
    ASSUME NEW c, Text(c), NEW ins, NEW d, d = Append(c, ins)
    PROVE  Adds(c, ins, d)
  <1>1. /\ Text(d) /\ Len(d) = Len(c) + 1
        /\ DOMAIN c = 1..Len(c) /\ DOMAIN d = 1..(Len(c) + 1)
        /\ \A i \in 1..Len(c) : d[i] = c[i]
        /\ d[Len(c) + 1] = ins
    BY Appended
  <1>2. Len(c) \in Nat
    BY DEF Text
  <1>3. Text(Over(c)) /\ Len(Over(c)) = Len(c) /\ Over(d) = Append(Over(c), NewOver(c, ins))
    BY OverExtends DEF NewOver, New
  <1>4. Text(Values(c)) /\ Len(Values(c)) = Len(c) /\ Values(d) = Append(Values(c), Item(d, Values(c), New(c)))
    BY ValuesExtend DEF New
  <1>5. /\ \A i \in 1..Len(c) : Over(d)[i] = Over(c)[i]
        /\ Over(d)[Len(c) + 1] = NewOver(c, ins) /\ Text(Over(d)) /\ Len(Over(d)) = Len(d)
    BY <1>1, <1>3, Appended
  <1>6. /\ \A i \in 1..Len(c) : Values(d)[i] = Values(c)[i]
        /\ Values(d)[Len(c) + 1] = Item(d, Values(c), New(c)) /\ Text(Values(d)) /\ Len(Values(d)) = Len(d)
    BY <1>1, <1>4, Appended
  <1>8. /\ Len(d) = New(c) /\ New(c) \in Nat /\ New(c) \in DOMAIN d /\ New(c) = Len(c) + 1
        /\ DOMAIN d = DOMAIN c \union {New(c)}
        /\ \A i \in DOMAIN c : i # New(c) /\ i < New(c) /\ i \in Nat /\ i \in DOMAIN d /\ i \in 1..Len(c)
    BY <1>1, <1>2 DEF New
  <1>. QED  BY <1>1, <1>2, <1>5, <1>6, <1>8 DEF Adds

\* Nothing known is forgotten.
LEMMA KnowledgeGrows ==
    ASSUME NEW c, Text(c), NEW ins, NEW d, Adds(c, ins, d)
    PROVE  /\ \A q : Knows(c, q) \subseteq Knows(d, q)
           /\ \A l : ~ (ins.kind = "set" /\ ins.lane = l) => Sent(d, l) = Sent(c, l)
  <1>1. ASSUME NEW q PROVE Knows(c, q) \subseteq Knows(d, q)
    <2>1. KnowsItself(c, q) \subseteq KnowsItself(d, q)
      BY DEF Adds, KnowsItself
    <2>2. Heeded(c, q) \subseteq Heeded(d, q) /\ Heeded(c, q) \subseteq DOMAIN c
      BY DEF Adds, Heeded
    <2>3. \A k \in Heeded(c, q) : Over(d)[k] = Over(c)[k]
      <3>1. \A k \in DOMAIN c : Over(d)[k] = Over(c)[k]
        BY DEF Adds
      <3>. QED  BY <2>2, <3>1
    <2>. QED  BY <2>1, <2>2, <2>3 DEF Knows
  <1>2. ASSUME NEW l, ~ (ins.kind = "set" /\ ins.lane = l) PROVE Sent(d, l) = Sent(c, l)
    <2>1. SetsOf(d, l) = SetsOf(c, l)
      BY <1>2 DEF Adds, SetsOf
    <2>2. LastSet(d, l) = LastSet(c, l) /\ LastSet(c, l) \subseteq DOMAIN c
      BY <2>1 DEF LastSet, SetsOf
    <2>3. \A k \in LastSet(c, l) : Over(d)[k] = Over(c)[k]
      <3>1. \A k \in DOMAIN c : Over(d)[k] = Over(c)[k]
        BY DEF Adds
      <3>. QED  BY <2>2, <3>1
    <2>. QED  BY <2>2, <2>3 DEF Sent
  <1>. QED  BY <1>1, <1>2

\* What those who heed an instruction learn from it.
LEMMA Learned ==
    ASSUME NEW c, Text(c), NEW ins, NEW d, Adds(c, ins, d), NEW q,
           ins.pipe \in {Unit(q), "S", "ALL"}
    PROVE  /\ NewOver(c, ins) \subseteq Knows(d, q)
           /\ ins.kind # "barrier" /\ ins.pipe # "ALL" /\ (q = "V" => ins.kind # "op" \/ ins.pipe = "S")
                => New(c) \in Knows(d, q)
  <1>1. New(c) \in Heeded(d, q) /\ Over(d)[New(c)] = NewOver(c, ins)
    <2>1. New(c) \in DOMAIN d /\ d[New(c)] = ins /\ Over(d)[New(c)] = NewOver(c, ins)
      BY DEF Adds
    <2>. QED  BY <2>1 DEF Heeded
  <1>2. NewOver(c, ins) \subseteq Knows(d, q)
    BY <1>1 DEF Knows
  <1>3. ASSUME ins.kind # "barrier" /\ ins.pipe # "ALL" /\ (q = "V" => ins.kind # "op" \/ ins.pipe = "S")
        PROVE  New(c) \in Knows(d, q)
    <2>1. New(c) \in KnowsItself(d, q)
      <3>1. New(c) \in DOMAIN d /\ d[New(c)] = ins
        BY DEF Adds
      <3>. QED  BY <1>3, <3>1 DEF KnowsItself
    <2>. QED  BY <2>1 DEF Knows
  <1>. QED  BY <1>2, <1>3

\* An instruction follows what its pipe knows.
LEMMA FollowsKnown ==
    ASSUME NEW c, Text(c), NEW ins, NEW p \in Pipe, ins.pipe = p
    PROVE  /\ ins.kind \in {"set", "barrier"} => Knows(c, Whole(p)) \subseteq NewOver(c, ins)
           /\ ins.kind = "op" => Knows(c, p) \subseteq NewOver(c, ins)
  <1>. DEFINE d == Append(c, ins)
              n == New(c)
  <1>0. Adds(c, ins, d)
    BY WithNew
  <1>1. /\ DOMAIN c = 1..(n - 1) /\ d[n] = ins /\ \A i \in DOMAIN c : d[i] = c[i]
    BY <1>0 DEF Adds, New
  <1>2. p \in {"S", "MTE2", "MTE1", "M", "FIX", "V", "MTE3"}
    BY DEF Pipe
  <1>. HIDE DEF d, n
  <1>3. ASSUME NEW q, Unit(q) = p, ins.kind \in {"set", "barrier", "op"}, ins.kind = "op" => q = p,
               ins.kind # "op" => q = Whole(p)
        PROVE  Knows(c, q) \subseteq Follows(d, Over(c), n)
    <2>1. ASSUME NEW i \in KnowsItself(c, q) PROVE i \in 1..(n - 1) /\ Direct(d, i, n)
      <3>1. i \in 1..(n - 1) /\ d[i] = c[i] /\ c[i].kind # "barrier" /\ d[n].pipe = p
        BY <1>1, <2>1 DEF KnowsItself
      <3>2. \/ c[i].pipe = "S" /\ p # "S"
            \/ c[i].pipe = p /\ (q = "V" => c[i].kind # "op")
        BY <1>2, <1>3, <2>1 DEF KnowsItself, Unit
      <3>3. CASE c[i].pipe = "S" /\ p # "S"
        BY <3>1, <3>3 DEF Direct
      <3>4. CASE c[i].pipe = p /\ (q = "V" => c[i].kind # "op")
        <4>1. CASE ins.kind = "op"
          <5>1. p # "V" => Depth(p) = 1
            BY DEF Depth
          <5>. QED  BY <1>1, <1>3, <3>1, <3>4, <4>1, <5>1 DEF Direct
        <4>2. CASE ins.kind # "op"
          BY <1>1, <1>3, <3>1, <3>4, <4>2 DEF Direct
        <4>. QED  BY <4>1, <4>2
      <3>. QED  BY <3>2, <3>3, <3>4
    <2>2. Heeded(c, q) = Earlier(d, n)
      <3>1. p # "ALL"
        BY <1>2
      <3>. QED  BY <1>1, <1>3, <3>1 DEF Heeded, Earlier
    <2>. QED  BY <2>1, <2>2 DEF Knows, Follows
  <1>4. Unit(p) = p /\ Unit(Whole(p)) = p
    BY <1>2 DEF Unit, Whole
  <1>. QED  BY <1>3, <1>4 DEF NewOver, d, n

\* A barrier for everyone follows all that is in front of it.
LEMMA FollowsAll ==
    ASSUME NEW c, Text(c), NEW ins, ins.pipe = "ALL"
    PROVE  {i \in DOMAIN c : c[i].kind # "barrier"} \subseteq NewOver(c, ins)
  <1>. DEFINE d == Append(c, ins)
              n == New(c)
  <1>0. Adds(c, ins, d)
    BY WithNew
  <1>1. /\ DOMAIN c = 1..(n - 1) /\ d[n] = ins /\ \A i \in DOMAIN c : d[i] = c[i]
    BY <1>0 DEF Adds, New
  <1>. HIDE DEF d, n
  <1>2. ASSUME NEW i \in DOMAIN c, c[i].kind # "barrier" PROVE i \in 1..(n - 1) /\ Direct(d, i, n)
    BY <1>1, <1>2 DEF Direct
  <1>. QED  BY <1>2 DEF NewOver, d, n, Follows

-----------------------------------------------------------------------------
(* Events *)

\* Every event of lane l is waited for, or all but the last one.
Even(c, l)    == Cardinality(SetsOf(c, l)) = Cardinality(WaitsOf(c, l))
Pending(c, l) == Cardinality(SetsOf(c, l)) = Cardinality(WaitsOf(c, l)) + 1

\* Sets of instructions are finite, and can be counted and compared.
LEMMA Countable ==
    ASSUME NEW c, Text(c), NEW T \in SUBSET DOMAIN c
    PROVE  /\ T \subseteq Nat /\ IsFiniteSet(T) /\ Cardinality(T) \in Nat
           /\ T # {} => Max(T) \in T /\ \A k \in T : k <= Max(T)
           /\ \A k : k \in T => Cardinality(T \ {k}) = Cardinality(T) - 1
           /\ \A k : k \notin T => Cardinality(T \union {k}) = Cardinality(T) + 1
  <1>1. DOMAIN c = 1..Len(c) /\ Len(c) \in Nat
    BY TextIsSeq DEF Text
  <1>2. IsFiniteSet(1..Len(c))
    BY <1>1, FS_Interval
  <1>3. T \subseteq Nat /\ IsFiniteSet(T) /\ Cardinality(T) \in Nat
    BY <1>1, <1>2, FS_Subset, FS_CardinalityType
  <1>4. ASSUME T # {} PROVE Max(T) \in T /\ \A k \in T : k <= Max(T)
    <2>1. PICK x \in T : \A y \in T : y <= x
      <3>1. \A x \in T : x <= Len(c)
        BY <1>1
      <3>. QED  BY <1>1, <1>3, <1>4, <3>1, LargestExists
    <2>2. Max(T) = x
      BY <1>3, <2>1, MaxIs
    <2>. QED  BY <2>1, <2>2
  <1>5. ASSUME NEW k, k \in T PROVE Cardinality(T \ {k}) = Cardinality(T) - 1
    BY <1>3, <1>5, FS_RemoveElement
  <1>6. ASSUME NEW k, k \notin T PROVE Cardinality(T \union {k}) = Cardinality(T) + 1
    BY <1>3, <1>6, FS_AddElement
  <1>. QED  BY <1>3, <1>4, <1>5, <1>6

\* The events of c and those of c with ins added.
LEMMA NewEvents ==
    ASSUME NEW c, Text(c), NEW ins, NEW d, Adds(c, ins, d), NEW l
    PROVE  /\ SetsOf(c, l) \subseteq DOMAIN c /\ WaitsOf(c, l) \subseteq DOMAIN c
           /\ SetsOf(d, l) = IF ins.kind = "set" /\ ins.lane = l THEN SetsOf(c, l) \union {New(c)} ELSE SetsOf(c, l)
           /\ WaitsOf(d, l) = IF ins.kind = "wait" /\ ins.lane = l THEN WaitsOf(c, l) \union {New(c)} ELSE WaitsOf(c, l)
           /\ New(c) \notin SetsOf(c, l) /\ New(c) \notin WaitsOf(c, l)
  BY DEF Adds, SetsOf, WaitsOf

\* How an instruction more changes the counts of a lane.
LEMMA NewCounts ==
    ASSUME NEW c, Text(c), NEW ins, NEW d, Adds(c, ins, d), NEW l
    PROVE  /\ ins.kind = "set" /\ ins.lane = l /\ Even(c, l) => Pending(d, l)
           /\ ins.kind = "wait" /\ ins.lane = l /\ Pending(c, l) => Even(d, l)
           /\ ~ (ins.kind \in {"set", "wait"} /\ ins.lane = l)
                => (Even(d, l) <=> Even(c, l)) /\ (Pending(d, l) <=> Pending(c, l))
  <1>1. /\ SetsOf(c, l) \subseteq DOMAIN c /\ WaitsOf(c, l) \subseteq DOMAIN c
        /\ SetsOf(d, l) = IF ins.kind = "set" /\ ins.lane = l THEN SetsOf(c, l) \union {New(c)} ELSE SetsOf(c, l)
        /\ WaitsOf(d, l) = IF ins.kind = "wait" /\ ins.lane = l THEN WaitsOf(c, l) \union {New(c)} ELSE WaitsOf(c, l)
        /\ New(c) \notin SetsOf(c, l) /\ New(c) \notin WaitsOf(c, l)
    BY NewEvents
  <1>2. /\ Cardinality(SetsOf(c, l)) \in Nat /\ Cardinality(WaitsOf(c, l)) \in Nat
        /\ Cardinality(SetsOf(c, l) \union {New(c)}) = Cardinality(SetsOf(c, l)) + 1
        /\ Cardinality(WaitsOf(c, l) \union {New(c)}) = Cardinality(WaitsOf(c, l)) + 1
    BY <1>1, Countable
  <1>3. CASE ins.kind = "set" /\ ins.lane = l
    <2>1. SetsOf(d, l) = SetsOf(c, l) \union {New(c)} /\ WaitsOf(d, l) = WaitsOf(c, l)
      BY <1>1, <1>3
    <2>. QED  BY <1>2, <1>3, <2>1 DEF Even, Pending
  <1>4. CASE ins.kind = "wait" /\ ins.lane = l
    <2>1. SetsOf(d, l) = SetsOf(c, l) /\ WaitsOf(d, l) = WaitsOf(c, l) \union {New(c)}
      BY <1>1, <1>4
    <2>. QED  BY <1>2, <1>4, <2>1 DEF Even, Pending
  <1>5. CASE ~ (ins.kind \in {"set", "wait"} /\ ins.lane = l)
    <2>1. SetsOf(d, l) = SetsOf(c, l) /\ WaitsOf(d, l) = WaitsOf(c, l)
      BY <1>1, <1>5
    <2>. QED  BY <1>5, <2>1 DEF Even, Pending
  <1>. QED  BY <1>3, <1>4, <1>5

\* A wait_flag waits for the event that is pending.
LEMMA AwaitsLast ==
    ASSUME NEW c, Text(c), NEW ins, NEW d, Adds(c, ins, d), d = Append(c, ins),
           ins.kind = "wait", Pending(c, ins.lane)
    PROVE  Matching(d, New(c)) # {} /\ Sent(c, ins.lane) \subseteq NewOver(c, ins)
  <1>. DEFINE l == ins.lane
              n == New(c)
              X == SetsOf(c, l)
              W == WaitsOf(c, l)
  <1>1. /\ X \subseteq DOMAIN c /\ W \subseteq DOMAIN c /\ n \notin X /\ n \notin W
        /\ SetsOf(d, l) = X /\ WaitsOf(d, l) = W \union {n}
    BY NewEvents
  <1>2. /\ Cardinality(X) \in Nat /\ Cardinality(W) \in Nat /\ Cardinality(W \union {n}) = Cardinality(W) + 1
        /\ Cardinality(X) = Cardinality(W) + 1
    BY <1>1, Countable DEF Pending
  <1>3. X # {}
    <2>1. IsFiniteSet(X)
      BY <1>1, Countable
    <2>2. Cardinality(X) # 0
      <3>. HIDE DEF X, W
      <3>. QED  BY <1>2
    <2>. QED  BY <2>1, <2>2, FS_EmptySet
  <1>4. Max(X) \in X /\ \A k \in X : k <= Max(X)
    BY <1>1, <1>3, Countable
  <1>5. /\ \A i \in DOMAIN c : i < n /\ i \in Nat
        /\ n \in Nat /\ d[n] = ins
    BY DEF Adds
  <1>. HIDE DEF X, W, n
  <1>6. ASSUME NEW s \in LastSet(c, l) PROVE s \in Matching(d, n)
    <2>1. s \in X /\ \A k \in X : k <= s
      BY <1>6 DEF LastSet, X
    <2>2. UpTo(X, s) = X /\ s \in UpTo(X, n)
      BY <1>1, <1>5, <2>1 DEF UpTo
    <2>3. UpTo(W \union {n}, n) = W \union {n}
      BY <1>1, <1>5 DEF UpTo
    <2>. QED  BY <1>1, <1>2, <1>5, <2>2, <2>3 DEF Matching
  <1>7. Max(X) \in LastSet(c, l)
    BY <1>4 DEF LastSet, X
  <1>8. Sent(c, l) \subseteq Follows(d, Over(c), n)
    BY <1>6 DEF Sent, Follows
  <1>. QED  BY <1>6, <1>7, <1>8 DEF NewOver, n

-----------------------------------------------------------------------------
(* Places *)

\* The instructions that have to do with place x, or consume an event of lane x.
Touching(c, x) == {i \in Ops(c) : x \in Footprint(c[i])} \union WaitsOf(c, x)
Free(c, x)     == Touching(c, x) = {}
Filled(c, x)   == WritersOf(c, x) # {}

\* All of them are over for pipe p, or for whom the event of lane l reaches.
Owns(c, p, x)   == Touching(c, x) \subseteq Knows(c, p)
Passed(c, l, x) == Touching(c, x) \subseteq Sent(c, l)

\* All waits for lane l but the last one are.
Older(c, l)          == {i \in WaitsOf(c, l) : \E k \in WaitsOf(c, l) : i < k}
OwnsOlder(c, p, l)      == Older(c, l) \subseteq Knows(c, p)
PassedOlder(c, k, l)    == Older(c, l) \subseteq Sent(c, k)

\* The value of place x in the order of the text.
Mem(c, x) == Left(Values(c), WritersOf(c, x), x)

\* Place x has been written once, with value v.
Yielded(c, x, v) ==
    \E i \in Ops(c) : c[i].dst = {x} /\ WritersOf(c, x) = {i} /\ Values(c)[i][x] = v

\* There is room for one more event on lane l when p posts it.
Room(c, p, l) ==
    \/ 1 <= MaxPosted /\ Owns(c, Whole(p), l)
    \/ 2 <= MaxPosted /\ OwnsOlder(c, Whole(p), l)

Sound(c) == /\ Text(c) /\ Ordered(c, Over(c)) /\ InOrder(c, Over(c))
            /\ EventsFit(c, Over(c)) /\ WaitsMatch(c) /\ Computed(c, Values(c))

\* What an instruction more has to do with each place.
LEMMA NewOp ==
    ASSUME NEW c, Text(c), NEW ins, NEW d, Adds(c, ins, d)
    PROVE  /\ ins.kind = "op" => Ops(d) = Ops(c) \union {New(c)}
           /\ ins.kind # "op" => Ops(d) = Ops(c)
           /\ Ops(c) \subseteq DOMAIN c /\ New(c) \notin Ops(c)
           /\ \A x : IF ins.kind = "op" /\ x \in ins.dst THEN WritersOf(d, x) = WritersOf(c, x) \union {New(c)}
                                                        ELSE WritersOf(d, x) = WritersOf(c, x)
           /\ \A x : IF \/ ins.kind = "op" /\ x \in Footprint(ins)
                        \/ ins.kind = "wait" /\ x = ins.lane
                     THEN Touching(d, x) = Touching(c, x) \union {New(c)}
                     ELSE Touching(d, x) = Touching(c, x)
  <1>1. /\ ins.kind = "op" => Ops(d) = Ops(c) \union {New(c)}
        /\ ins.kind # "op" => Ops(d) = Ops(c)
        /\ Ops(c) \subseteq DOMAIN c /\ New(c) \notin Ops(c)
    BY DEF Adds, Ops
  <1>2. d[New(c)] = ins /\ \A i \in DOMAIN c : d[i] = c[i]
    BY DEF Adds
  <1>3. \A x : IF ins.kind = "op" /\ x \in ins.dst THEN WritersOf(d, x) = WritersOf(c, x) \union {New(c)}
                                                  ELSE WritersOf(d, x) = WritersOf(c, x)
    BY <1>1, <1>2 DEF WritersOf
  <1>4. ASSUME NEW x
        PROVE  IF \/ ins.kind = "op" /\ x \in Footprint(ins)
                  \/ ins.kind = "wait" /\ x = ins.lane
               THEN Touching(d, x) = Touching(c, x) \union {New(c)}
               ELSE Touching(d, x) = Touching(c, x)
    <2>1. /\ WaitsOf(d, x) = IF ins.kind = "wait" /\ ins.lane = x THEN WaitsOf(c, x) \union {New(c)} ELSE WaitsOf(c, x)
      BY NewEvents
    <2>. DEFINE T(s) == {i \in Ops(s) : x \in Footprint(s[i])}
    <2>2. IF ins.kind = "op" /\ x \in Footprint(ins) THEN T(d) = T(c) \union {New(c)} ELSE T(d) = T(c)
      BY <1>1, <1>2
    <2>3. Touching(d, x) = T(d) \union WaitsOf(d, x) /\ Touching(c, x) = T(c) \union WaitsOf(c, x)
      BY DEF Touching
    <2>. HIDE DEF T
    <2>. QED  BY <2>1, <2>2, <2>3
  <1>. QED  BY <1>1, <1>3, <1>4

\* What the new instruction finds and leaves.
LEMMA NewMem ==
    ASSUME NEW c, Text(c), NEW ins, NEW d, Adds(c, ins, d)
    PROVE  /\ \A x : Found(d, Values(c), New(c), x) = Mem(c, x)
           /\ \A x : ~ (ins.kind = "op" /\ x \in ins.dst) => Mem(d, x) = Mem(c, x)
           /\ \A x : ins.kind = "op" /\ x \in ins.dst => Mem(d, x) = Values(d)[New(c)][x]
  <1>0. /\ DOMAIN c \subseteq Nat /\ New(c) \in Nat /\ \A i \in DOMAIN c : i < New(c)
        /\ \A i \in DOMAIN c : Values(d)[i] = Values(c)[i]
    BY DEF Adds
  <1>1. \A x : WritersOf(c, x) \subseteq DOMAIN c
    BY NewOp DEF WritersOf
  <1>2. \A x : IF ins.kind = "op" /\ x \in ins.dst THEN WritersOf(d, x) = WritersOf(c, x) \union {New(c)}
                                                  ELSE WritersOf(d, x) = WritersOf(c, x)
    BY NewOp
  <1>3. ASSUME NEW x PROVE Found(d, Values(c), New(c), x) = Mem(c, x)
    <2>1. UpTo(WritersOf(d, x), New(c) - 1) = WritersOf(c, x)
      BY <1>0, <1>1, <1>2 DEF UpTo
    <2>. QED  BY <2>1 DEF Found, Mem
  <1>4. ASSUME NEW x, ~ (ins.kind = "op" /\ x \in ins.dst) PROVE Mem(d, x) = Mem(c, x)
    <2>1. WritersOf(d, x) = WritersOf(c, x)
      BY <1>2, <1>4
    <2>2. WritersOf(c, x) # {} => Max(WritersOf(c, x)) \in DOMAIN c
      BY <1>1, Countable
    <2>. QED  BY <1>0, <2>1, <2>2 DEF Mem, Left
  <1>5. ASSUME NEW x, ins.kind = "op", x \in ins.dst PROVE Mem(d, x) = Values(d)[New(c)][x]
    <2>1. WritersOf(d, x) = WritersOf(c, x) \union {New(c)}
      BY <1>2, <1>5
    <2>2. Max(WritersOf(d, x)) = New(c)
      <3>1. WritersOf(d, x) \in SUBSET Nat /\ New(c) \in WritersOf(d, x) /\ \A k \in WritersOf(d, x) : k <= New(c)
        BY <1>0, <1>1, <2>1
      <3>. QED  BY <3>1, MaxIs
    <2>. QED  BY <2>1, <2>2 DEF Mem, Left
  <1>. QED  BY <1>3, <1>4, <1>5

-----------------------------------------------------------------------------
(* A synchronized text stays so *)

\* The order of the instructions in front is as it was.
LEMMA FollowsSame ==
    ASSUME NEW d, Text(d), NEW over, NEW more, NEW j \in DOMAIN d, \A i \in 1..(j - 1) : over[i] = more[i]
    PROVE  Follows(d, over, j) = Follows(d, more, j)
  <1>1. DOMAIN d = 1..Len(d) /\ Len(d) \in Nat
    BY TextIsSeq DEF Text
  <1>2. \A k \in Earlier(d, j) : over[k] = more[k]
    BY DEF Earlier
  <1>3. \A s \in Matching(d, j) : s \in 1..(j - 1)
    <2>1. \A s \in Matching(d, j) : s \in DOMAIN d /\ s <= j /\ d[s].kind = "set" /\ d[j].kind = "wait"
      BY DEF Matching, UpTo, SetsOf
    <2>. QED  BY <1>1, <2>1
  <1>4. \A s \in Matching(d, j) : over[s] = more[s]
    BY <1>3
  <1>. QED  BY <1>2, <1>4 DEF Follows

\* A text with an instruction more is ordered as before.
LEMMA OrderedStill ==
    ASSUME NEW c, Sound(c), NEW ins, NEW d, Adds(c, ins, d), d = Append(c, ins)
    PROVE  Ordered(d, Over(d))
  <1>1. /\ Text(c) /\ Text(d) /\ DOMAIN d = DOMAIN c \union {New(c)} /\ DOMAIN c = 1..Len(c) /\ Len(c) \in Nat
        /\ New(c) = Len(c) + 1 /\ \A i \in DOMAIN c : Over(d)[i] = Over(c)[i]
        /\ Over(d)[New(c)] = Follows(d, Over(c), New(c))
    BY DEF Adds, Sound, NewOver, New
  <1>2. ASSUME NEW j \in DOMAIN c PROVE Over(d)[j] \subseteq Follows(d, Over(d), j)
    <2>1. Over(c)[j] \subseteq Follows(c, Over(c), j)
      BY DEF Sound, Ordered
    <2>2. Follows(d, Over(c), j) = Follows(c, Over(c), j)
      BY <1>1, FrontOnly
    <2>3. \A i \in 1..(j - 1) : Over(c)[i] = Over(d)[i]
      BY <1>1
    <2>4. Follows(d, Over(c), j) = Follows(d, Over(d), j)
      <3>1. j \in DOMAIN d
        BY <1>1
      <3>. QED  BY <1>1, <2>3, <3>1, FollowsSame
    <2>. QED  BY <1>1, <2>1, <2>2, <2>4
  <1>3. Over(d)[New(c)] \subseteq Follows(d, Over(d), New(c))
    <2>1. \A i \in 1..(New(c) - 1) : Over(c)[i] = Over(d)[i]
      BY <1>1
    <2>2. New(c) \in DOMAIN d
      BY <1>1
    <2>3. Follows(d, Over(c), New(c)) = Follows(d, Over(d), New(c))
      BY <1>1, <2>1, <2>2, FollowsSame
    <2>. QED  BY <1>1, <2>3
  <1>. QED  BY <1>1, <1>2, <1>3 DEF Ordered

\* Its operations are in order if the new one follows those it shares a place with.
LEMMA InOrderStill ==
    ASSUME NEW c, Sound(c), NEW ins, NEW d, Adds(c, ins, d),
           ins.kind = "op" => \A x \in Footprint(ins) : Touching(c, x) \subseteq NewOver(c, ins)
    PROVE  InOrder(d, Over(d))
  <1>1. /\ Text(c) /\ New(c) \in Nat /\ \A i \in DOMAIN c : d[i] = c[i] /\ Over(d)[i] = Over(c)[i] /\ i < New(c) /\ i \in Nat
        /\ d[New(c)] = ins /\ Over(d)[New(c)] = NewOver(c, ins)
    BY DEF Adds, Sound
  <1>2. /\ ins.kind = "op" => Ops(d) = Ops(c) \union {New(c)}
        /\ ins.kind # "op" => Ops(d) = Ops(c)
        /\ Ops(c) \subseteq DOMAIN c
    BY <1>1, NewOp
  <1>3. ASSUME NEW i \in Ops(d), NEW j \in Ops(d), i < j,
               d[i].dst \intersect Footprint(d[j]) # {} \/ d[j].dst \intersect Footprint(d[i]) # {}
        PROVE  i \in Over(d)[j]
    <2>1. CASE j \in Ops(c)
      <3>1. i \in Ops(c)
        BY <1>1, <1>2, <1>3, <2>1
      <3>2. d[i] = c[i] /\ d[j] = c[j] /\ Over(d)[j] = Over(c)[j]
        BY <1>1, <1>2, <2>1, <3>1
      <3>3. InOrder(c, Over(c))
        BY DEF Sound
      <3>. QED  BY <1>3, <2>1, <3>1, <3>2, <3>3 DEF InOrder
    <2>2. CASE j \notin Ops(c)
      <3>1. ins.kind = "op" /\ j = New(c)
        BY <1>2, <2>2
      <3>2. i \in Ops(c) /\ d[i] = c[i]
        BY <1>1, <1>2, <1>3, <3>1
      <3>3. PICK x : x \in Footprint(c[i]) /\ x \in Footprint(ins)
        BY <1>1, <1>3, <3>1, <3>2 DEF Footprint
      <3>4. i \in Touching(c, x)
        BY <3>2, <3>3 DEF Touching
      <3>. QED  BY <1>1, <3>1, <3>3, <3>4
    <2>. QED  BY <2>1, <2>2
  <1>. QED  BY <1>3 DEF InOrder

\* Its events fit if the new one does.
LEMMA EventsFitStill ==
    ASSUME NEW c, Sound(c), NEW ins, NEW d, Adds(c, ins, d),
           ins.kind = "set" =>
             Cardinality(SetsOf(d, ins.lane)) - Cardinality(WaitsOf(d, ins.lane) \intersect NewOver(c, ins)) <= MaxPosted
    PROVE  EventsFit(d, Over(d))
  <1>1. /\ Text(c) /\ Text(d) /\ New(c) \in Nat /\ d[New(c)] = ins /\ Over(d)[New(c)] = NewOver(c, ins)
        /\ \A i \in DOMAIN c : d[i] = c[i] /\ Over(d)[i] = Over(c)[i] /\ i < New(c) /\ i \in Nat
        /\ DOMAIN d = DOMAIN c \union {New(c)} /\ MaxPosted \in Nat
    BY ProgramsAssumption DEF Adds, Sound
  <1>2. ASSUME NEW s \in DOMAIN d, d[s].kind = "set"
        PROVE  Cardinality(UpTo(SetsOf(d, d[s].lane), s))
                 - Cardinality(WaitsOf(d, d[s].lane) \intersect Over(d)[s]) <= MaxPosted
    <2>. DEFINE l == d[s].lane
    <2>1. /\ SetsOf(c, l) \subseteq DOMAIN c /\ WaitsOf(c, l) \subseteq DOMAIN c
          /\ SetsOf(d, l) = IF ins.kind = "set" /\ ins.lane = l THEN SetsOf(c, l) \union {New(c)} ELSE SetsOf(c, l)
          /\ WaitsOf(d, l) = IF ins.kind = "wait" /\ ins.lane = l THEN WaitsOf(c, l) \union {New(c)} ELSE WaitsOf(c, l)
      <3>. HIDE DEF l
      <3>. QED  BY <1>1, NewEvents
    <2>2. CASE s \in DOMAIN c
      <3>. DEFINE A == WaitsOf(c, l) \intersect Over(c)[s]
                  B == WaitsOf(d, l) \intersect Over(d)[s]
                  U == UpTo(SetsOf(c, l), s)
      <3>1. UpTo(SetsOf(d, l), s) = U
        BY <1>1, <2>1, <2>2 DEF UpTo
      <3>2. A \subseteq B /\ A \subseteq DOMAIN d /\ B \subseteq DOMAIN d /\ U \subseteq DOMAIN c
        BY <1>1, <2>1, <2>2 DEF UpTo
      <3>3. Cardinality(A) <= Cardinality(B) /\ Cardinality(A) \in Nat /\ Cardinality(B) \in Nat /\ Cardinality(U) \in Nat
        <4>. HIDE DEF A, B, U
        <4>1. IsFiniteSet(B)
          BY <1>1, <3>2, Countable
        <4>. QED  BY <1>1, <3>2, <4>1, FS_Subset, Countable
      <3>4. Cardinality(U) - Cardinality(A) <= MaxPosted
        <4>1. c[s].kind = "set" /\ c[s].lane = l
          BY <1>1, <1>2, <2>2
        <4>2. EventsFit(c, Over(c))
          BY DEF Sound
        <4>. QED  BY <2>2, <4>1, <4>2 DEF EventsFit
      <3>. HIDE DEF A, U
      <3>5. Cardinality(UpTo(SetsOf(d, l), s)) - Cardinality(B) <= MaxPosted
        <4>. HIDE DEF B
        <4>. QED  BY <1>1, <3>1, <3>3, <3>4
      <3>. QED  BY <3>5
    <2>3. CASE s \notin DOMAIN c
      <3>1. s = New(c) /\ ins.kind = "set" /\ l = ins.lane
        BY <1>1, <1>2, <2>3
      <3>2. UpTo(SetsOf(d, l), s) = SetsOf(d, l)
        <4>1. SetsOf(d, l) \subseteq DOMAIN d
          BY DEF SetsOf
        <4>. QED  BY <1>1, <3>1, <4>1 DEF UpTo
      <3>. QED  BY <1>1, <3>1, <3>2
    <2>. QED  BY <2>2, <2>3
  <1>. QED  BY <1>2 DEF EventsFit

\* Its waits have their events if the new one has.
LEMMA WaitsMatchStill ==
    ASSUME NEW c, Sound(c), NEW ins, NEW d, Adds(c, ins, d), d = Append(c, ins),
           ins.kind = "wait" => Matching(d, New(c)) # {}
    PROVE  WaitsMatch(d)
  <1>1. /\ Text(c) /\ d[New(c)] = ins /\ \A i \in DOMAIN c : d[i] = c[i]
        /\ DOMAIN d = DOMAIN c \union {New(c)} /\ DOMAIN c = 1..Len(c) /\ Len(c) \in Nat /\ WaitsMatch(c)
    BY DEF Adds, Sound
  <1>2. ASSUME NEW j \in DOMAIN c, d[j].kind = "wait" PROVE Matching(d, j) # {}
    <2>1. \A k \in 1..j : k \in DOMAIN c
      BY <1>1
    <2>2. \A l, k : k \in 1..j => /\ UpTo(SetsOf(d, l), k) = UpTo(SetsOf(c, l), k)
                                 /\ UpTo(WaitsOf(d, l), k) = UpTo(WaitsOf(c, l), k)
      <3>1. \A i \in DOMAIN c : i < New(c) /\ i \in Nat
        BY DEF Adds
      <3>2. New(c) \in Nat
        BY DEF Adds
      <3>3. ASSUME NEW l, NEW k \in 1..j
            PROVE  /\ UpTo(SetsOf(d, l), k) = UpTo(SetsOf(c, l), k)
                   /\ UpTo(WaitsOf(d, l), k) = UpTo(WaitsOf(c, l), k)
        <4>1. k < New(c) /\ k \in Nat
          BY <2>1, <3>1
        <4>2. /\ SetsOf(c, l) \subseteq DOMAIN c /\ WaitsOf(c, l) \subseteq DOMAIN c
              /\ SetsOf(d, l) \in {SetsOf(c, l), SetsOf(c, l) \union {New(c)}}
              /\ WaitsOf(d, l) \in {WaitsOf(c, l), WaitsOf(c, l) \union {New(c)}}
          BY <1>1, NewEvents
        <4>. QED  BY <3>2, <4>1, <4>2 DEF UpTo
      <3>. QED  BY <3>3
    <2>3. d[j] = c[j] /\ Matching(c, j) # {}
      BY <1>1, <1>2 DEF WaitsMatch
    <2>4. PICK s \in UpTo(SetsOf(c, c[j].lane), j) :
             Cardinality(UpTo(SetsOf(c, c[j].lane), s)) = Cardinality(UpTo(WaitsOf(c, c[j].lane), j))
      BY <1>2, <2>3 DEF Matching
    <2>5. s \in 1..j
      BY <1>1, <2>4 DEF UpTo, SetsOf
    <2>6. j \in 1..j
      BY <1>1
    <2>7. s \in Matching(d, j)
      BY <1>2, <2>2, <2>3, <2>4, <2>5, <2>6 DEF Matching
    <2>. QED  BY <2>7
  <1>. QED  BY <1>1, <1>2 DEF WaitsMatch

\* Its values are computed if what the new operation reads was written.
LEMMA ComputedStill ==
    ASSUME NEW c, Sound(c), NEW ins, NEW d, Adds(c, ins, d), d = Append(c, ins),
           ins.kind = "op" => \A k \in DOMAIN ins.srcs : \A x \in ins.srcs[k] : Filled(c, x)
    PROVE  /\ Computed(d, Values(d))
           /\ ins.kind = "op" => Values(d)[New(c)] = Result(d, Values(d), New(c))
           /\ \A x : Found(d, Values(d), New(c), x) = Mem(c, x)
  <1>1. /\ Text(c) /\ d[New(c)] = ins /\ \A i \in DOMAIN c : d[i] = c[i] /\ i < New(c) /\ i \in Nat
        /\ DOMAIN d = DOMAIN c \union {New(c)} /\ DOMAIN c = 1..Len(c) /\ Len(c) \in Nat /\ Computed(c, Values(c))
        /\ \A i \in DOMAIN c : Values(d)[i] = Values(c)[i]
        /\ Values(d)[New(c)] = Item(d, Values(c), New(c)) /\ New(c) \in Nat
    BY DEF Adds, Sound
  <1>2. /\ ins.kind = "op" => Ops(d) = Ops(c) \union {New(c)}
        /\ ins.kind # "op" => Ops(d) = Ops(c)
        /\ Ops(c) \subseteq DOMAIN c /\ \A x : WritersOf(c, x) \subseteq DOMAIN c
        /\ \A x : WritersOf(d, x) \in {WritersOf(c, x), WritersOf(c, x) \union {New(c)}}
    BY <1>1, NewOp DEF WritersOf
  <1>3. ASSUME NEW j \in DOMAIN d, NEW x PROVE Found(d, Values(d), j, x) = Found(d, Values(c), j, x)
    <2>. DEFINE U == UpTo(WritersOf(d, x), j - 1)
    <2>1. U \subseteq DOMAIN c
      BY <1>1, <1>2 DEF UpTo
    <2>2. U # {} => Max(U) \in DOMAIN c
      <3>. HIDE DEF U
      <3>. QED  BY <1>1, <2>1, Countable
    <2>. HIDE DEF U
    <2>3. Left(Values(d), U, x) = Left(Values(c), U, x)
      BY <1>1, <2>2 DEF Left
    <2>. QED  BY <2>3 DEF Found, U
  <1>4. ASSUME NEW j \in DOMAIN d PROVE Result(d, Values(d), j) = Result(d, Values(c), j)
    <2>1. \A x : Found(d, Values(d), j, x) = Found(d, Values(c), j, x)
      BY <1>3
    <2>. QED  BY <2>1 DEF Result
  <1>5. ASSUME NEW j \in Ops(c) PROVE Values(d)[j] = Result(d, Values(d), j)
    <2>1. Values(c)[j] = Result(c, Values(c), j)
      BY <1>1 DEF Computed
    <2>2. Item(d, Values(c), j) = Item(c, Values(c), j)
      BY <1>1, <1>2, ItemOfFront
    <2>3. j \in Ops(d) /\ j \in DOMAIN d /\ j \in DOMAIN c
      BY <1>1, <1>2
    <2>4. Result(d, Values(c), j) = Result(c, Values(c), j)
      BY <2>2, <2>3 DEF Item
    <2>. QED  BY <1>1, <1>4, <2>1, <2>3, <2>4
  <1>6. ins.kind = "op" => Values(d)[New(c)] = Result(d, Values(d), New(c))
    BY <1>1, <1>2, <1>4 DEF Item
  <1>7. \A x : Filled(c, x) => WritersOf(d, x) # {}
    BY <1>2 DEF Filled
  <1>8. ASSUME NEW j \in Ops(d), NEW k \in DOMAIN d[j].srcs, NEW x \in d[j].srcs[k] PROVE WritersOf(d, x) # {}
    <2>1. CASE j \in Ops(c)
      <3>1. WritersOf(c, x) # {}
        BY <1>1, <1>2, <1>8, <2>1 DEF Computed
      <3>. QED  BY <1>7, <3>1 DEF Filled
    <2>2. CASE j \notin Ops(c)
      <3>1. ins.kind = "op" /\ j = New(c)
        BY <1>2, <2>2
      <3>. QED  BY <1>1, <1>7, <1>8, <3>1
    <2>. QED  BY <2>1, <2>2
  <1>9. \A x : Found(d, Values(d), New(c), x) = Mem(c, x)
    <2>1. New(c) \in DOMAIN d
      BY <1>1
    <2>. QED  BY <1>1, <1>3, <2>1, NewMem
  <1>. QED  BY <1>2, <1>5, <1>6, <1>8, <1>9 DEF Computed

-----------------------------------------------------------------------------
(* What each kind of instruction does to a text *)

\* What stays as it was: values, and events.
SameAt(c, d, x) ==
    /\ Mem(d, x) = Mem(c, x)
    /\ Filled(c, x) => Filled(d, x)
    /\ \A v : Yielded(c, x, v) => Yielded(d, x, v)
SameEvents(c, d, l) == (Even(d, l) <=> Even(c, l)) /\ (Pending(d, l) <=> Pending(c, l))

\* The pipe and its two ways of knowing.
LEMMA WholeIs ==
    ASSUME NEW p \in Pipe
    PROVE  /\ Unit(p) = p /\ Unit(Whole(p)) = p /\ p # "ALL" /\ Whole(p) # "V" /\ p # "V+"
           /\ p \in Knower /\ Whole(p) \in Knower /\ (p # "V" => Whole(p) = p)
  BY DEF Pipe, Unit, Whole, Knower

\* A pipe whose operations are done knows what it knew before.
LEMMA WholeKnows ==
    ASSUME NEW c, NEW p \in Pipe
    PROVE  Knows(c, p) \subseteq Knows(c, Whole(p))
  <1>1. KnowsItself(c, p) \subseteq KnowsItself(c, Whole(p))
    BY WholeIs DEF KnowsItself
  <1>2. Heeded(c, p) = Heeded(c, Whole(p))
    BY WholeIs DEF Heeded
  <1>. QED  BY <1>1, <1>2 DEF Knows

\* An instruction that writes nothing to x.
LEMMA SameThere ==
    ASSUME NEW c, Text(c), NEW ins, NEW d, Adds(c, ins, d), NEW x, ~ (ins.kind = "op" /\ x \in ins.dst)
    PROVE  SameAt(c, d, x)
  <1>1. /\ WritersOf(d, x) = WritersOf(c, x) /\ Ops(c) \subseteq Ops(d) /\ Ops(c) \subseteq DOMAIN c
    BY NewOp
  <1>2. Mem(d, x) = Mem(c, x)
    BY NewMem
  <1>3. \A i \in DOMAIN c : d[i] = c[i] /\ Values(d)[i] = Values(c)[i]
    BY DEF Adds
  <1>4. ASSUME NEW v, Yielded(c, x, v) PROVE Yielded(d, x, v)
    <2>1. PICK i \in Ops(c) : c[i].dst = {x} /\ WritersOf(c, x) = {i} /\ Values(c)[i][x] = v
      BY <1>4 DEF Yielded
    <2>2. i \in Ops(d) /\ d[i].dst = {x} /\ WritersOf(d, x) = {i} /\ Values(d)[i][x] = v
      BY <1>1, <1>3, <2>1
    <2>. QED  BY <2>2 DEF Yielded
  <1>. QED  BY <1>1, <1>2, <1>4 DEF SameAt, Filled

\* An instruction that has nothing to do with x.
LEMMA Untouched ==
    ASSUME NEW c, Text(c), NEW ins, NEW d, Adds(c, ins, d), NEW x,
           ~ (ins.kind = "op" /\ x \in Footprint(ins)), ~ (ins.kind = "wait" /\ x = ins.lane)
    PROVE  /\ Free(c, x) => Free(d, x)
           /\ \A q : Owns(c, q, x) => Owns(d, q, x)
           /\ \A l : ~ (ins.kind = "set" /\ ins.lane = l) => (Passed(c, l, x) => Passed(d, l, x))
  <1>1. Touching(d, x) = Touching(c, x)
    BY NewOp
  <1>2. /\ \A q : Knows(c, q) \subseteq Knows(d, q)
        /\ \A l : ~ (ins.kind = "set" /\ ins.lane = l) => Sent(d, l) = Sent(c, l)
    BY KnowledgeGrows
  <1>. QED  BY <1>1, <1>2 DEF Free, Owns, Passed

\* What is known of the older events of a lane stays known.
LEMMA OlderStill ==
    ASSUME NEW c, Text(c), NEW ins, NEW d, Adds(c, ins, d), NEW l
    PROVE  /\ ~ (ins.kind = "wait" /\ ins.lane = l) =>
                /\ Older(d, l) = Older(c, l)
                /\ \A q : OwnsOlder(c, q, l) => OwnsOlder(d, q, l)
                /\ \A k : ~ (ins.kind = "set" /\ ins.lane = k) => (PassedOlder(c, k, l) => PassedOlder(d, k, l))
           /\ Older(d, l) \subseteq Touching(c, l)
  <1>1. /\ \A q : Knows(c, q) \subseteq Knows(d, q)
        /\ \A k : ~ (ins.kind = "set" /\ ins.lane = k) => Sent(d, k) = Sent(c, k)
    BY KnowledgeGrows
  <1>2. /\ WaitsOf(d, l) = IF ins.kind = "wait" /\ ins.lane = l THEN WaitsOf(c, l) \union {New(c)} ELSE WaitsOf(c, l)
        /\ WaitsOf(c, l) \subseteq DOMAIN c
    BY NewEvents
  <1>3. New(c) \in Nat /\ \A i \in DOMAIN c : i < New(c) /\ i \in Nat
    BY DEF Adds
  <1>4. Older(d, l) \subseteq WaitsOf(c, l)
    BY <1>2, <1>3 DEF Older
  <1>5. ~ (ins.kind = "wait" /\ ins.lane = l) => Older(d, l) = Older(c, l)
    BY <1>2 DEF Older
  <1>. QED  BY <1>1, <1>4, <1>5 DEF OwnsOlder, PassedOlder, Touching

AfterOp(c, ins, d) ==
    /\ Sound(d)
    /\ \A x : x \notin Footprint(ins) =>
         /\ Free(c, x) => Free(d, x)
         /\ \A q : Owns(c, q, x) => Owns(d, q, x)
         /\ \A l : Passed(c, l, x) => Passed(d, l, x)
    /\ \A x : Owns(c, Whole(ins.pipe), x) => Owns(d, Whole(ins.pipe), x)
    /\ \A x \in Footprint(ins) : Owns(d, Whole(ins.pipe), x)
    /\ ins.pipe = "S" => \A x, q : Owns(c, q, x) => Owns(d, q, x)
    /\ \A l : /\ \A q : OwnsOlder(c, q, l) => OwnsOlder(d, q, l)
              /\ \A k : PassedOlder(c, k, l) => PassedOlder(d, k, l)
              /\ SameEvents(c, d, l)
    /\ \A x : x \notin ins.dst => SameAt(c, d, x)
    /\ \A x : Filled(c, x) => Filled(d, x)
    /\ LET new == Term(ins.tag, [k \in DOMAIN ins.srcs |-> UNION {Mem(c, x) : x \in ins.srcs[k]}])
       IN  \A x \in ins.dst : Filled(d, x) /\ Mem(d, x) = IF ins.add THEN Mem(c, x) \union new ELSE new
    /\ \A x : ins.dst = {x} /\ Free(c, x) => Yielded(d, x, Mem(d, x))

\* An operation of a pipe that may use the places it touches.
LEMMA OpRule ==
    ASSUME NEW c, Sound(c), NEW ins, NEW d, d = Append(c, ins),
           ins.kind = "op", ins.pipe \in Pipe,
           \A x \in Footprint(ins) : Owns(c, ins.pipe, x),
           \A k \in DOMAIN ins.srcs : \A x \in ins.srcs[k] : Filled(c, x)
    PROVE  AfterOp(c, ins, d)
  <1>. DEFINE p == ins.pipe
              n == New(c)
  <1>1. Text(c) /\ Adds(c, ins, d)
    BY WithNew DEF Sound
  <1>2. Knows(c, p) \subseteq NewOver(c, ins)
    BY <1>1, FollowsKnown
  <1>3. Sound(d)
    <2>1. \A x \in Footprint(ins) : Touching(c, x) \subseteq NewOver(c, ins)
      BY <1>2 DEF Owns
    <2>2. Ordered(d, Over(d)) /\ InOrder(d, Over(d)) /\ EventsFit(d, Over(d)) /\ WaitsMatch(d) /\ Computed(d, Values(d))
      BY <1>1, <2>1, OrderedStill, InOrderStill, EventsFitStill, WaitsMatchStill, ComputedStill
    <2>. QED  BY <1>1, <2>2 DEF Sound, Adds
  <1>4. \A x : x \notin Footprint(ins) =>
           /\ Free(c, x) => Free(d, x)
           /\ \A q : Owns(c, q, x) => Owns(d, q, x)
           /\ \A l : Passed(c, l, x) => Passed(d, l, x)
    BY <1>1, Untouched
  <1>5. /\ \A q : Knows(c, q) \subseteq Knows(d, q)
        /\ \A x : Touching(d, x) \subseteq Touching(c, x) \union {n}
    BY <1>1, KnowledgeGrows, NewOp
  <1>6. n \in Knows(d, Whole(p))
    <2>1. p \in {Unit(Whole(p)), "S", "ALL"} /\ p # "ALL" /\ Whole(p) # "V"
      BY WholeIs
    <2>. QED  BY <1>1, <2>1, Learned
  <1>7. \A x : Owns(c, Whole(p), x) => Owns(d, Whole(p), x)
    BY <1>5, <1>6 DEF Owns
  <1>8. \A x \in Footprint(ins) : Owns(d, Whole(p), x)
    BY <1>7, WholeKnows DEF Owns
  <1>9. ASSUME p = "S" PROVE \A x, q : Owns(c, q, x) => Owns(d, q, x)
    <2>1. \A q : n \in Knows(d, q)
      BY <1>1, <1>9, Learned
    <2>. QED  BY <1>5, <2>1 DEF Owns
  <1>10. \A l : /\ \A q : OwnsOlder(c, q, l) => OwnsOlder(d, q, l)
                /\ \A k : PassedOlder(c, k, l) => PassedOlder(d, k, l)
                /\ SameEvents(c, d, l)
    BY <1>1, OlderStill, NewCounts DEF SameEvents
  <1>11. \A x : x \notin ins.dst => SameAt(c, d, x)
    BY <1>1, SameThere
  <1>12. \A x : IF x \in ins.dst THEN WritersOf(d, x) = WritersOf(c, x) \union {n}
                                 ELSE WritersOf(d, x) = WritersOf(c, x)
    BY <1>1, NewOp
  <1>13. \A x : Filled(c, x) => Filled(d, x)
    BY <1>12 DEF Filled
  <1>. DEFINE new == Term(ins.tag, [k \in DOMAIN ins.srcs |-> UNION {Mem(c, x) : x \in ins.srcs[k]}])
  <1>14. ASSUME NEW x \in ins.dst
         PROVE  /\ Filled(d, x) /\ Mem(d, x) = Values(d)[n][x]
                /\ Mem(d, x) = IF ins.add THEN Mem(c, x) \union new ELSE new
    <2>1. Filled(d, x)
      BY <1>12 DEF Filled
    <2>2. Mem(d, x) = Values(d)[n][x]
      BY <1>1, NewMem
    <2>3. Values(d)[n] = Result(d, Values(d), n) /\ \A y : Found(d, Values(d), n, y) = Mem(c, y)
      BY <1>1, ComputedStill
    <2>4. d[n] = ins
      BY <1>1 DEF Adds
    <2>5. Result(d, Values(d), n)[x] = IF ins.add THEN Mem(c, x) \union new ELSE new
      <3>1. [k \in DOMAIN ins.srcs |-> UNION {Found(d, Values(d), n, y) : y \in ins.srcs[k]}]
              = [k \in DOMAIN ins.srcs |-> UNION {Mem(c, y) : y \in ins.srcs[k]}]
        BY <2>3
      <3>2. Found(d, Values(d), n, x) = Mem(c, x)
        BY <2>3
      <3>. QED  BY <2>4, <3>1, <3>2 DEF Result
    <2>. QED  BY <2>1, <2>2, <2>3, <2>5
  <1>15. ASSUME NEW x, ins.dst = {x}, Free(c, x) PROVE Yielded(d, x, Mem(d, x))
    <2>1. WritersOf(c, x) = {}
      BY <1>15 DEF Free, Touching, WritersOf, Footprint
    <2>2. WritersOf(d, x) = {n} /\ n \in Ops(d) /\ d[n] = ins
      <3>1. WritersOf(d, x) = {n}
        BY <1>12, <1>15, <2>1
      <3>2. d[n] = ins
        BY <1>1 DEF Adds
      <3>3. n \in Ops(d)
        BY <1>1, NewOp
      <3>. QED  BY <3>1, <3>2, <3>3
    <2>. QED  BY <1>14, <1>15, <2>2 DEF Yielded
  <1>. HIDE DEF new
  <1>16. \A x \in ins.dst : Filled(d, x) /\ Mem(d, x) = IF ins.add THEN Mem(c, x) \union new ELSE new
    BY <1>14
  <1>. QED  BY <1>3, <1>4, <1>7, <1>8, <1>9, <1>10, <1>11, <1>13, <1>15, <1>16 DEF AfterOp, new

AfterSet(c, p, l, d) ==
    /\ Sound(d)
    /\ \A x : /\ SameAt(c, d, x)
              /\ Free(c, x) => Free(d, x)
              /\ \A q : Owns(c, q, x) => Owns(d, q, x)
              /\ Owns(c, Whole(p), x) => Passed(d, l, x) /\ Owns(d, p, x)
              /\ \A k : k # l => (Passed(c, k, x) => Passed(d, k, x))
    /\ \A m : /\ \A q : OwnsOlder(c, q, m) => OwnsOlder(d, q, m)
              /\ OwnsOlder(c, Whole(p), m) => PassedOlder(d, l, m)
              /\ \A k : k # l => (PassedOlder(c, k, m) => PassedOlder(d, k, m))
    /\ Pending(d, l)
    /\ \A k : k # l => SameEvents(c, d, k)

\* Posting an event.
LEMMA SetRule ==
    ASSUME NEW c, Sound(c), NEW p \in Pipe, NEW q, NEW i, NEW l, l = <<p, q, i>>, NEW d, d = Append(c, set_flag(p, q, i)),
           Even(c, l), Room(c, p, l)
    PROVE  AfterSet(c, p, l, d)
  <1>. DEFINE ins == set_flag(p, q, i)
              n == New(c)
              over == NewOver(c, ins)
  <1>1. Text(c) /\ Adds(c, ins, d) /\ ins.kind = "set" /\ ins.pipe = p /\ ins.lane = l
    BY WithNew DEF Sound, set_flag
  <1>2. d = Append(c, ins)
    OBVIOUS
  <1>. HIDE DEF ins
  <1>3. Knows(c, Whole(p)) \subseteq over
    BY <1>1, FollowsKnown
  <1>4. Cardinality(SetsOf(d, l)) - Cardinality(WaitsOf(d, l) \intersect over) <= MaxPosted
    <2>. DEFINE X == SetsOf(c, l)
                W == WaitsOf(c, l)
    <2>1. X \subseteq DOMAIN c /\ W \subseteq DOMAIN c /\ SetsOf(d, l) = X \union {n} /\ WaitsOf(d, l) = W /\ n \notin X
      BY <1>1, NewEvents, SMTT(30)
    <2>2. Cardinality(X) \in Nat /\ Cardinality(W) = Cardinality(X) /\ Cardinality(X \union {n}) = Cardinality(X) + 1
      BY <1>1, <2>1, Countable DEF Even
    <2>3. MaxPosted \in Nat
      BY ProgramsAssumption
    <2>6. /\ Cardinality(SetsOf(d, l)) = Cardinality(W) + 1 /\ Cardinality(W) \in Nat
          /\ Cardinality(WaitsOf(d, l) \intersect over) = Cardinality(W \intersect over)
      <3>. HIDE DEF X, W, over, n
      <3>. QED  BY <2>1, <2>2
    <2>4. CASE 1 <= MaxPosted /\ Owns(c, Whole(p), l)
      <3>2. W \intersect over = W
        BY <1>3, <2>4 DEF Owns, Touching
      <3>1. Cardinality(W \intersect over) = Cardinality(W)
        BY <3>2
      <3>. HIDE DEF X, W, over
      <3>. QED  BY <2>3, <2>4, <2>6, <3>1
    <2>5. CASE 2 <= MaxPosted /\ OwnsOlder(c, Whole(p), l)
      <3>1. CASE W = {}
        <4>2. W \intersect over = W
          BY <3>1
        <4>1. Cardinality(W \intersect over) = Cardinality(W)
          BY <4>2
        <4>. HIDE DEF X, W, over
        <4>. QED  BY <2>3, <2>5, <2>6, <4>1
      <3>2. CASE W # {}
        <4>. DEFINE m == Max(W)
        <4>1. m \in W /\ \A k \in W : k <= m
          BY <1>1, <2>1, <3>2, Countable
        <4>2. W \subseteq Nat /\ Cardinality(W \ {m}) = Cardinality(W) - 1 /\ IsFiniteSet(W)
          BY <1>1, <2>1, <4>1, Countable
        <4>. HIDE DEF m
        <4>3. W \ {m} \subseteq over
          <5>1. ASSUME NEW k \in W, k # m PROVE k \in Older(c, l)
            <6>1. k < m
              <7>. HIDE DEF W
              <7>1. k \in Nat /\ m \in Nat /\ k <= m
                BY <4>1, <4>2, <5>1
              <7>. QED  BY <5>1, <7>1
            <6>. QED  BY <4>1, <5>1, <6>1 DEF Older
          <5>. QED  BY <1>3, <2>5, <5>1 DEF OwnsOlder
        <4>4. Cardinality(W \ {m}) <= Cardinality(W \intersect over) /\ Cardinality(W \intersect over) \in Nat
          <5>. HIDE DEF W, over
          <5>1. W \ {m} \subseteq W \intersect over /\ W \intersect over \subseteq W
            BY <4>3
          <5>2. IsFiniteSet(W \intersect over)
            BY <4>2, <5>1, FS_Subset
          <5>. QED  BY <5>1, <5>2, FS_Subset, FS_CardinalityType
        <4>. HIDE DEF X, W, over
        <4>. QED  BY <2>3, <2>5, <2>6, <4>2, <4>4
      <3>. QED  BY <3>1, <3>2
    <2>. QED  BY <2>4, <2>5 DEF Room
  <1>5. Sound(d)
    <2>1. Ordered(d, Over(d)) /\ InOrder(d, Over(d)) /\ EventsFit(d, Over(d)) /\ WaitsMatch(d) /\ Computed(d, Values(d))
      BY <1>1, <1>2, <1>4, OrderedStill, InOrderStill, EventsFitStill, WaitsMatchStill, ComputedStill
    <2>. QED  BY <1>1, <2>1 DEF Sound, Adds
  <1>6. Knows(c, Whole(p)) \subseteq Sent(d, l)
    <2>1. /\ n \in DOMAIN d /\ DOMAIN d = DOMAIN c \union {n} /\ n \in Nat
          /\ \A k \in DOMAIN c : k < n /\ k \in Nat
          /\ d[n] = ins /\ Over(d)[n] = over
      BY <1>1 DEF Adds
    <2>2. n \in LastSet(d, l)
      BY <1>1, <2>1 DEF LastSet, SetsOf
    <2>. QED  BY <1>3, <2>1, <2>2 DEF Sent
  <1>7. Knows(c, Whole(p)) \subseteq Knows(d, p)
    <2>1. ins.pipe \in {Unit(p), "S", "ALL"}
      BY <1>1, WholeIs
    <2>. QED  BY <1>1, <1>3, <2>1, Learned
  <1>8. \A x : /\ SameAt(c, d, x)
               /\ Free(c, x) => Free(d, x)
               /\ \A r : Owns(c, r, x) => Owns(d, r, x)
               /\ \A k : k # l => (Passed(c, k, x) => Passed(d, k, x))
    BY <1>1, <1>2, SameThere, Untouched
  <1>9. \A x : Owns(c, Whole(p), x) => Passed(d, l, x) /\ Owns(d, p, x)
    <2>1. \A x : Touching(d, x) = Touching(c, x)
      BY <1>1, NewOp
    <2>. QED  BY <1>6, <1>7, <2>1 DEF Owns, Passed
  <1>10. \A m : /\ \A r : OwnsOlder(c, r, m) => OwnsOlder(d, r, m)
                /\ \A k : k # l => (PassedOlder(c, k, m) => PassedOlder(d, k, m))
    BY <1>1, <1>2, OlderStill
  <1>11. \A m : OwnsOlder(c, Whole(p), m) => PassedOlder(d, l, m)
    <2>1. ASSUME NEW m PROVE Older(d, m) = Older(c, m)
      <3>1. ~ (ins.kind = "wait" /\ ins.lane = m)
        BY <1>1
      <3>. QED  BY <1>1, <1>2, <3>1, OlderStill
    <2>. QED  BY <1>6, <2>1 DEF OwnsOlder, PassedOlder
  <1>12. Pending(d, l) /\ \A k : k # l => SameEvents(c, d, k)
    BY <1>1, NewCounts DEF SameEvents
  <1>. QED  BY <1>5, <1>8, <1>9, <1>10, <1>11, <1>12 DEF AfterSet

AfterWait(c, p, l, d) ==
    /\ Sound(d)
    /\ \A x : /\ SameAt(c, d, x)
              /\ Passed(c, l, x) => Owns(d, p, x) /\ Owns(d, Whole(p), x)
              /\ \A q \in {p, Whole(p)} : Owns(c, q, x) => Owns(d, q, x)
              /\ x # l => /\ Free(c, x) => Free(d, x)
                          /\ \A q : Owns(c, q, x) => Owns(d, q, x)
                          /\ \A k : Passed(c, k, x) => Passed(d, k, x)
    /\ \A m : m # l => /\ \A q : OwnsOlder(c, q, m) => OwnsOlder(d, q, m)
                       /\ \A k : PassedOlder(c, k, m) => PassedOlder(d, k, m)
                       /\ PassedOlder(c, l, m) => OwnsOlder(d, p, m) /\ OwnsOlder(d, Whole(p), m)
    /\ \A q : Owns(c, q, l) => OwnsOlder(d, q, l)
    /\ \A k : Passed(c, k, l) => PassedOlder(d, k, l)
    /\ Even(d, l)
    /\ \A k : k # l => SameEvents(c, d, k)
    /\ p = "S" => \A x, q : Owns(c, q, x) => Owns(d, q, x)

\* Consuming the event that is pending.
LEMMA WaitRule ==
    ASSUME NEW c, Sound(c), NEW p \in Pipe, NEW q, NEW i, NEW l, l = <<q, p, i>>, NEW d, d = Append(c, wait_flag(q, p, i)),
           Pending(c, l)
    PROVE  AfterWait(c, p, l, d)
  <1>. DEFINE ins == wait_flag(q, p, i)
              n == New(c)
              over == NewOver(c, ins)
  <1>1. Text(c) /\ Adds(c, ins, d) /\ ins.kind = "wait" /\ ins.pipe = p /\ ins.lane = l
    BY WithNew DEF Sound, wait_flag
  <1>2. d = Append(c, ins)
    OBVIOUS
  <1>. HIDE DEF ins
  <1>3. Matching(d, n) # {} /\ Sent(c, l) \subseteq over
    BY <1>1, <1>2, AwaitsLast
  <1>4. Sound(d)
    <2>1. Ordered(d, Over(d)) /\ InOrder(d, Over(d)) /\ EventsFit(d, Over(d)) /\ WaitsMatch(d) /\ Computed(d, Values(d))
      BY <1>1, <1>2, <1>3, OrderedStill, InOrderStill, EventsFitStill, WaitsMatchStill, ComputedStill
    <2>. QED  BY <1>1, <2>1 DEF Sound, Adds
  <1>5. \A r \in {p, Whole(p)} : Sent(c, l) \subseteq Knows(d, r) /\ n \in Knows(d, r) /\ Knows(c, r) \subseteq Knows(d, r)
    <2>1. \A r \in {p, Whole(p)} : ins.pipe \in {Unit(r), "S", "ALL"} /\ ins.pipe # "ALL"
      BY <1>1, WholeIs
    <2>2. \A r \in {p, Whole(p)} : over \subseteq Knows(d, r) /\ n \in Knows(d, r)
      BY <1>1, <2>1, Learned
    <2>. QED  BY <1>1, <1>3, <2>2, KnowledgeGrows
  <1>6. \A x : Touching(d, x) \subseteq Touching(c, x) \union {n}
    BY <1>1, NewOp
  <1>7. \A x : /\ Passed(c, l, x) => Owns(d, p, x) /\ Owns(d, Whole(p), x)
               /\ \A r \in {p, Whole(p)} : Owns(c, r, x) => Owns(d, r, x)
    BY <1>5, <1>6 DEF Owns, Passed
  <1>8. \A x : /\ SameAt(c, d, x)
               /\ x # l => /\ Free(c, x) => Free(d, x)
                           /\ \A r : Owns(c, r, x) => Owns(d, r, x)
                           /\ \A k : Passed(c, k, x) => Passed(d, k, x)
    BY <1>1, <1>2, SameThere, Untouched
  <1>9. ASSUME NEW m, m # l
        PROVE  /\ \A r : OwnsOlder(c, r, m) => OwnsOlder(d, r, m)
               /\ \A k : PassedOlder(c, k, m) => PassedOlder(d, k, m)
               /\ PassedOlder(c, l, m) => OwnsOlder(d, p, m) /\ OwnsOlder(d, Whole(p), m)
    <2>1. /\ Older(d, m) = Older(c, m)
          /\ \A r : OwnsOlder(c, r, m) => OwnsOlder(d, r, m)
          /\ \A k : PassedOlder(c, k, m) => PassedOlder(d, k, m)
      <3>1. ~ (ins.kind = "wait" /\ ins.lane = m) /\ \A k : ~ (ins.kind = "set" /\ ins.lane = k)
        BY <1>1, <1>9
      <3>. QED  BY <1>1, <1>2, <3>1, OlderStill
    <2>. QED  BY <1>5, <2>1 DEF OwnsOlder, PassedOlder
  <1>10. /\ \A r : Owns(c, r, l) => OwnsOlder(d, r, l)
         /\ \A k : Passed(c, k, l) => PassedOlder(d, k, l)
    <2>1. Older(d, l) \subseteq Touching(c, l)
      BY <1>1, <1>2, OlderStill
    <2>2. \A r : Knows(c, r) \subseteq Knows(d, r)
      BY <1>1, KnowledgeGrows
    <2>3. \A k : Sent(d, k) = Sent(c, k)
      BY <1>1, KnowledgeGrows
    <2>. QED  BY <2>1, <2>2, <2>3 DEF Owns, Passed, OwnsOlder, PassedOlder
  <1>11. Even(d, l) /\ \A k : k # l => SameEvents(c, d, k)
    BY <1>1, NewCounts DEF SameEvents
  <1>12. ASSUME p = "S", NEW x, NEW r, Owns(c, r, x) PROVE Owns(d, r, x)
    <2>1. n \in Knows(d, r) /\ Knows(c, r) \subseteq Knows(d, r)
      <3>1. ins.pipe \in {Unit(r), "S", "ALL"} /\ ins.pipe # "ALL" /\ ins.kind \notin {"barrier", "op"}
        BY <1>1, <1>12
      <3>. QED  BY <1>1, <3>1, Learned, KnowledgeGrows
    <2>. QED  BY <1>6, <1>12, <2>1 DEF Owns
  <1>. QED  BY <1>4, <1>7, <1>8, <1>9, <1>10, <1>11, <1>12 DEF AfterWait

AfterBarrier(c, p, d) ==
    /\ Sound(d)
    /\ \A x : /\ SameAt(c, d, x)
              /\ Free(c, x) => Free(d, x)
              /\ \A q : Owns(c, q, x) => Owns(d, q, x)
              /\ p # "ALL" /\ Owns(c, Whole(p), x) => Owns(d, p, x)
              /\ p = "ALL" => \A q : Owns(d, q, x)
              /\ \A k : Passed(c, k, x) => Passed(d, k, x)
    /\ \A m : /\ \A q : OwnsOlder(c, q, m) => OwnsOlder(d, q, m)
              /\ \A k : PassedOlder(c, k, m) => PassedOlder(d, k, m)
              /\ SameEvents(c, d, m)
    /\ p = "ALL" => \A i \in Ops(d) : i \in Over(d)[Len(d)] /\ d[Len(d)].pipe = "ALL"

\* A barrier.
LEMMA BarrierRule ==
    ASSUME NEW c, Sound(c), NEW p \in Pipe \union {"ALL"}, NEW d, d = Append(c, pipe_barrier(p))
    PROVE  AfterBarrier(c, p, d)
  <1>. DEFINE ins == pipe_barrier(p)
              n == New(c)
              over == NewOver(c, ins)
  <1>1. Text(c) /\ Adds(c, ins, d) /\ ins.kind = "barrier" /\ ins.pipe = p
    BY WithNew DEF Sound, pipe_barrier
  <1>2. d = Append(c, ins)
    OBVIOUS
  <1>. HIDE DEF ins
  <1>3. Sound(d)
    <2>1. Ordered(d, Over(d)) /\ InOrder(d, Over(d)) /\ EventsFit(d, Over(d)) /\ WaitsMatch(d) /\ Computed(d, Values(d))
      BY <1>1, <1>2, OrderedStill, InOrderStill, EventsFitStill, WaitsMatchStill, ComputedStill
    <2>. QED  BY <1>1, <2>1 DEF Sound, Adds
  <1>4. \A x : /\ SameAt(c, d, x)
               /\ Free(c, x) => Free(d, x)
               /\ \A r : Owns(c, r, x) => Owns(d, r, x)
               /\ \A k : Passed(c, k, x) => Passed(d, k, x)
    BY <1>1, <1>2, SameThere, Untouched
  <1>5. \A x : Touching(d, x) = Touching(c, x)
    BY <1>1, NewOp
  <1>6. ASSUME p # "ALL", NEW x, Owns(c, Whole(p), x) PROVE Owns(d, p, x)
    <2>1. p \in Pipe /\ ins.pipe \in {Unit(p), "S", "ALL"}
      BY <1>1, <1>6, WholeIs
    <2>2. Knows(c, Whole(p)) \subseteq over
      BY <1>1, <2>1, FollowsKnown
    <2>3. over \subseteq Knows(d, p)
      BY <1>1, <2>1, Learned
    <2>. QED  BY <1>5, <1>6, <2>2, <2>3 DEF Owns
  <1>7. ASSUME p = "ALL" PROVE {i \in DOMAIN c : c[i].kind # "barrier"} \subseteq over
    BY <1>1, <1>7, FollowsAll
  <1>8. ASSUME p = "ALL", NEW x, NEW q PROVE Owns(d, q, x)
    <2>1. over \subseteq Knows(d, q)
      BY <1>1, <1>8, Learned
    <2>2. Touching(c, x) \subseteq {i \in DOMAIN c : c[i].kind # "barrier"}
      BY DEF Touching, Ops, WaitsOf
    <2>. QED  BY <1>5, <1>7, <1>8, <2>1, <2>2 DEF Owns
  <1>9. \A m : /\ \A r : OwnsOlder(c, r, m) => OwnsOlder(d, r, m)
               /\ \A k : PassedOlder(c, k, m) => PassedOlder(d, k, m)
               /\ SameEvents(c, d, m)
    BY <1>1, <1>2, OlderStill, NewCounts DEF SameEvents
  <1>10. p = "ALL" => \A i \in Ops(d) : i \in Over(d)[Len(d)] /\ d[Len(d)].pipe = "ALL"
    <2>1. Ops(d) = Ops(c) /\ Ops(c) \subseteq {i \in DOMAIN c : c[i].kind # "barrier"}
      <3>1. Ops(d) = Ops(c)
        BY <1>1, NewOp
      <3>. QED  BY <3>1 DEF Ops
    <2>2. Len(d) = n /\ Over(d)[n] = over /\ d[n] = ins
      BY <1>1 DEF Adds
    <2>. QED  BY <1>1, <1>7, <2>1, <2>2
  <1>. QED  BY <1>3, <1>4, <1>6, <1>8, <1>9, <1>10 DEF AfterBarrier

-----------------------------------------------------------------------------
(* Instructions and loops behind a text *)

\* Programs run their loops step by step.
Runs(c, f, n, g) ==
    /\ g[0] = c /\ g[n] = c \o FlattenSeq(f)
    /\ \A k \in 1..n : g[k] = g[k - 1] \o f[k] /\ Text(g[k])

\* Texts one behind the other.
LEMMA Joined ==
    ASSUME NEW s, NEW t, Text(s), Text(t)
    PROVE  /\ Text(s \o t) /\ s \o <<>> = s /\ <<>> \o s = s
           /\ \A u : Text(u) => s \o (t \o u) = (s \o t) \o u
  <1>. DEFINE R(u) == {u[i] : i \in 1..Len(u)}
  <1>1. ASSUME NEW u, Text(u)
        PROVE  \E S : s \in Seq(S) /\ t \in Seq(S) /\ u \in Seq(S)
    <2>1. s \in Seq(R(s)) /\ t \in Seq(R(t)) /\ u \in Seq(R(u))
      BY <1>1, TextIsSeq
    <2>. HIDE DEF R
    <2>2. s \in Seq(R(s) \union R(t) \union R(u)) /\ t \in Seq(R(s) \union R(t) \union R(u))
          /\ u \in Seq(R(s) \union R(t) \union R(u))
      BY <2>1
    <2>. QED  BY <2>2
  <1>2. PICK S : s \in Seq(S) /\ t \in Seq(S)
    BY <1>1
  <1>3. s \o t \in Seq(S) /\ s \o <<>> = s /\ <<>> \o s = s
    BY <1>2, ConcatProperties, ConcatEmptySeq
  <1>4. Text(s \o t)
    BY <1>3, TextIsSeq
  <1>5. ASSUME NEW u, Text(u) PROVE s \o (t \o u) = (s \o t) \o u
    <2>1. PICK T : s \in Seq(T) /\ t \in Seq(T) /\ u \in Seq(T)
      BY <1>1, <1>5
    <2>. QED  BY <2>1, ConcatAssociative
  <1>. QED  BY <1>3, <1>4, <1>5

\* A text that begins with an instruction.
LEMMA Spelled ==
    ASSUME NEW s, Text(s), NEW a, NEW t, Text(t)
    PROVE  /\ s \o <<a>> = Append(s, a) /\ Text(<<a>>) /\ Text(Append(s, a))
           /\ s \o (<<a>> \o t) = Append(s, a) \o t
  <1>1. Text(<<a>>)
    BY DEF Text
  <1>2. s \o <<a>> = Append(s, a)
    <2>. DEFINE S == {s[i] : i \in 1..Len(s)} \union {a}
    <2>1. s \in Seq(S) /\ a \in S
      <3>. DEFINE R == {s[i] : i \in 1..Len(s)}
      <3>1. s \in Seq(R)
        BY TextIsSeq
      <3>2. R \subseteq S
        OBVIOUS
      <3>. HIDE DEF R, S
      <3>. QED  BY <3>1, <3>2 DEF S
    <2>. HIDE DEF S
    <2>. QED  BY <2>1, AppendIsConcat
  <1>3. s \o (<<a>> \o t) = (s \o <<a>>) \o t
    BY <1>1, Joined
  <1>. QED  BY <1>1, <1>2, <1>3, Appended


\* An instruction behind two texts.
LEMMA Appending ==
    ASSUME NEW s, NEW t, Text(s), Text(t), NEW a
    PROVE  s \o Append(t, a) = Append(s \o t, a)
  <1>1. Text(<<a>>)
    BY DEF Text
  <1>2. Append(t, a) = t \o <<a>> /\ Append(s \o t, a) = (s \o t) \o <<a>>
    BY Joined, Spelled, <1>1
  <1>. QED  BY <1>1, <1>2, Joined

\* Tuples, an element at a time.
LEMMA Tuple2 ==
    ASSUME NEW a, NEW b
    PROVE  <<a, b>> = Append(<<a>>, b)
  OBVIOUS

\* The same for three.
LEMMA Tuple3 ==
    ASSUME NEW a, NEW b, NEW d
    PROVE  <<a, b, d>> = Append(<<a, b>>, d)
  OBVIOUS

\* For four.
LEMMA Tuple4 ==
    ASSUME NEW a, NEW b, NEW d, NEW e
    PROVE  <<a, b, d, e>> = Append(<<a, b, d>>, e)
  OBVIOUS

\* For five.
LEMMA Tuple5 ==
    ASSUME NEW a, NEW b, NEW d, NEW e, NEW f
    PROVE  <<a, b, d, e, f>> = Append(<<a, b, d, e>>, f)
  OBVIOUS

\* For six.
LEMMA Tuple6 ==
    ASSUME NEW a, NEW b, NEW d, NEW e, NEW f, NEW h
    PROVE  <<a, b, d, e, f, h>> = Append(<<a, b, d, e, f>>, h)
  OBVIOUS

\* For seven.
LEMMA Tuple7 ==
    ASSUME NEW a, NEW b, NEW d, NEW e, NEW f, NEW h, NEW k
    PROVE  <<a, b, d, e, f, h, k>> = Append(<<a, b, d, e, f, h>>, k)
  OBVIOUS

\* Instructions are added one by one.
LEMMA OneByOne ==
    ASSUME NEW s, Text(s)
    PROVE  /\ \A a : s \o <<a>> = Append(s, a) /\ Text(<<a>>)
           /\ \A a, b : s \o <<a, b>> = Append(Append(s, a), b) /\ Text(<<a, b>>)
           /\ \A a, b, d : s \o <<a, b, d>> = Append(Append(Append(s, a), b), d) /\ Text(<<a, b, d>>)
           /\ \A a, b, d, e : s \o <<a, b, d, e>> = Append(Append(Append(Append(s, a), b), d), e) /\ Text(<<a, b, d, e>>)
           /\ \A a, b, d, e, f : s \o <<a, b, d, e, f>> = Append(Append(Append(Append(Append(s, a), b), d), e), f) /\ Text(<<a, b, d, e, f>>)
           /\ \A a, b, d, e, f, h : s \o <<a, b, d, e, f, h>> = Append(Append(Append(Append(Append(Append(s, a), b), d), e), f), h) /\ Text(<<a, b, d, e, f, h>>)
           /\ \A a, b, d, e, f, h, k : s \o <<a, b, d, e, f, h, k>> = Append(Append(Append(Append(Append(Append(Append(s, a), b), d), e), f), h), k) /\ Text(<<a, b, d, e, f, h, k>>)
  <1>1. ASSUME NEW a PROVE s \o <<a>> = Append(s, a) /\ Text(<<a>>)
    BY Spelled DEF Text
  <1>2. ASSUME NEW a, NEW b PROVE s \o <<a, b>> = Append(Append(s, a), b) /\ Text(<<a, b>>)
    <2>1. Text(<<a>>) /\ s \o <<a>> = Append(s, a)
      BY <1>1
    <2>2. <<a, b>> = Append(<<a>>, b)
      BY Tuple2
    <2>3. s \o Append(<<a>>, b) = Append(s \o <<a>>, b) /\ Text(Append(<<a>>, b))
      BY <2>1, Appending, Appended
    <2>. QED  BY <2>1, <2>2, <2>3
  <1>3. ASSUME NEW a, NEW b, NEW d PROVE s \o <<a, b, d>> = Append(Append(Append(s, a), b), d) /\ Text(<<a, b, d>>)
    <2>1. Text(<<a, b>>) /\ s \o <<a, b>> = Append(Append(s, a), b)
      BY <1>2
    <2>2. <<a, b, d>> = Append(<<a, b>>, d)
      BY Tuple3
    <2>3. s \o Append(<<a, b>>, d) = Append(s \o <<a, b>>, d) /\ Text(Append(<<a, b>>, d))
      BY <2>1, Appending, Appended
    <2>. QED  BY <2>1, <2>2, <2>3
  <1>4. ASSUME NEW a, NEW b, NEW d, NEW e PROVE s \o <<a, b, d, e>> = Append(Append(Append(Append(s, a), b), d), e) /\ Text(<<a, b, d, e>>)
    <2>1. Text(<<a, b, d>>) /\ s \o <<a, b, d>> = Append(Append(Append(s, a), b), d)
      BY <1>3
    <2>2. <<a, b, d, e>> = Append(<<a, b, d>>, e)
      BY Tuple4
    <2>3. s \o Append(<<a, b, d>>, e) = Append(s \o <<a, b, d>>, e) /\ Text(Append(<<a, b, d>>, e))
      BY <2>1, Appending, Appended
    <2>. QED  BY <2>1, <2>2, <2>3
  <1>5. ASSUME NEW a, NEW b, NEW d, NEW e, NEW f PROVE s \o <<a, b, d, e, f>> = Append(Append(Append(Append(Append(s, a), b), d), e), f) /\ Text(<<a, b, d, e, f>>)
    <2>1. Text(<<a, b, d, e>>) /\ s \o <<a, b, d, e>> = Append(Append(Append(Append(s, a), b), d), e)
      BY <1>4
    <2>2. <<a, b, d, e, f>> = Append(<<a, b, d, e>>, f)
      BY Tuple5
    <2>3. s \o Append(<<a, b, d, e>>, f) = Append(s \o <<a, b, d, e>>, f) /\ Text(Append(<<a, b, d, e>>, f))
      BY <2>1, Appending, Appended
    <2>. QED  BY <2>1, <2>2, <2>3
  <1>6. ASSUME NEW a, NEW b, NEW d, NEW e, NEW f, NEW h PROVE s \o <<a, b, d, e, f, h>> = Append(Append(Append(Append(Append(Append(s, a), b), d), e), f), h) /\ Text(<<a, b, d, e, f, h>>)
    <2>1. Text(<<a, b, d, e, f>>) /\ s \o <<a, b, d, e, f>> = Append(Append(Append(Append(Append(s, a), b), d), e), f)
      BY <1>5
    <2>2. <<a, b, d, e, f, h>> = Append(<<a, b, d, e, f>>, h)
      BY Tuple6
    <2>3. s \o Append(<<a, b, d, e, f>>, h) = Append(s \o <<a, b, d, e, f>>, h) /\ Text(Append(<<a, b, d, e, f>>, h))
      BY <2>1, Appending, Appended
    <2>. QED  BY <2>1, <2>2, <2>3
  <1>7. ASSUME NEW a, NEW b, NEW d, NEW e, NEW f, NEW h, NEW k PROVE s \o <<a, b, d, e, f, h, k>> = Append(Append(Append(Append(Append(Append(Append(s, a), b), d), e), f), h), k) /\ Text(<<a, b, d, e, f, h, k>>)
    <2>1. Text(<<a, b, d, e, f, h>>) /\ s \o <<a, b, d, e, f, h>> = Append(Append(Append(Append(Append(Append(s, a), b), d), e), f), h)
      BY <1>6
    <2>2. <<a, b, d, e, f, h, k>> = Append(<<a, b, d, e, f, h>>, k)
      BY Tuple7
    <2>3. s \o Append(<<a, b, d, e, f, h>>, k) = Append(s \o <<a, b, d, e, f, h>>, k) /\ Text(Append(<<a, b, d, e, f, h>>, k))
      BY <2>1, Appending, Appended
    <2>. QED  BY <2>1, <2>2, <2>3
  <1>. QED  BY <1>1, <1>2, <1>3, <1>4, <1>5, <1>6, <1>7

FlatIs(f, k, h) == h = [i \in 1..k |-> IF i = 1 THEN f[i] ELSE h[i - 1] \o f[i]]

\* h gives the first pieces of f joined.
Joins(f, n, h) == h[1] = f[1] /\ FlattenSeq(f) = h[n] /\ \A i \in 2..n : h[i] = h[i - 1] \o f[i]

\* FlattenSeq joins the pieces from the first to the last.
LEMMA FlattenUnfolds ==
    ASSUME NEW n \in Nat, n # 0, NEW f, Len(f) = n
    PROVE  \E h : Joins(f, n, h)
  <1>. DEFINE body(h) == [i \in 1..n |-> IF i = 1 THEN f[i] ELSE h[i - 1] \o f[i]]
              S == {k \in 0..n : \E h : FlatIs(f, k, h)}
              H == CHOOSE h : h = body(h)
  <1>1. 0 \in S
    <2>. DEFINE h == [i \in 1..0 |-> f[i]]
    <2>1. FlatIs(f, 0, h)
      BY DEF FlatIs
    <2>. HIDE DEF h
    <2>. QED  BY <2>1
  <1>2. ASSUME NEW k \in 0..(n - 1), k \in S PROVE k + 1 \in S
    <2>1. PICK h : h = [i \in 1..k |-> IF i = 1 THEN f[i] ELSE h[i - 1] \o f[i]]
      BY <1>2 DEF FlatIs
    <2>. DEFINE e == [i \in 1..(k + 1) |-> IF i = 1 THEN f[i] ELSE h[i - 1] \o f[i]]
    <2>2. \A i \in 1..k : e[i] = h[i]
      <3>1. ASSUME NEW i \in 1..k PROVE e[i] = h[i]
        <4>1. e[i] = IF i = 1 THEN f[i] ELSE h[i - 1] \o f[i]
          OBVIOUS
        <4>2. h[i] = IF i = 1 THEN f[i] ELSE h[i - 1] \o f[i]
          BY <2>1
        <4>. QED  BY <4>1, <4>2
      <3>. QED  BY <3>1
    <2>3. e = [i \in 1..(k + 1) |-> IF i = 1 THEN f[i] ELSE e[i - 1] \o f[i]]
      <3>1. ASSUME NEW i \in 1..(k + 1), i # 1 PROVE h[i - 1] = e[i - 1]
        <4>1. i - 1 \in 1..k
          BY <3>1
        <4>. HIDE DEF e
        <4>. QED  BY <2>2, <4>1
      <3>. QED  BY <3>1
    <2>. HIDE DEF e
    <2>4. FlatIs(f, k + 1, e)
      BY <2>3 DEF FlatIs
    <2>. QED  BY <2>4
  <1>3. n \in S
    <2>1. 0..n \subseteq S
      <3>. HIDE DEF S
      <3>. QED  BY <1>1, <1>2, Induction
    <2>2. n \in 0..n
      OBVIOUS
    <2>. HIDE DEF S
    <2>. QED  BY <2>1, <2>2
  <1>4. H = body(H)
    <2>1. \E h : h = body(h)
      BY <1>3 DEF FlatIs
    <2>. HIDE DEF body
    <2>. QED  BY <2>1
  <1>5. FlattenSeq(f) = H[n]
    BY DEF FlattenSeq
  <1>6. H[1] = f[1] /\ \A i \in 2..n : H[i] = H[i - 1] \o f[i]
    <2>. HIDE DEF H
    <2>1. \A i \in 1..n : H[i] = IF i = 1 THEN f[i] ELSE H[i - 1] \o f[i]
      BY <1>4
    <2>2. \A i \in 2..n : i \in 1..n /\ i # 1
      OBVIOUS
    <2>3. H[1] = f[1]
      BY <2>1
    <2>. QED  BY <2>1, <2>2, <2>3
  <1>. HIDE DEF H
  <1>7. Joins(f, n, H)
    BY <1>5, <1>6 DEF Joins
  <1>. QED  BY <1>7

\* A list given by its elements.
LEMMA ListIs ==
    ASSUME NEW n \in Nat, NEW f, f = [i \in 1..n |-> f[i]]
    PROVE  Text(f) /\ Len(f) = n
  <1>1. Len(f) = n /\ DOMAIN f = 1..n
    <2>. DEFINE S == {f[i] : i \in 1..n}
    <2>1. f \in [1..n -> S]
      OBVIOUS
    <2>2. f \in Seq(S)
      <3>. HIDE DEF S
      <3>. QED  BY <2>1, SeqDef
    <2>3. DOMAIN f = 1..n
      OBVIOUS
    <2>. QED  BY <2>2, <2>3, LenProperties
  <1>. QED  BY <1>1 DEF Text

\* A loop behind c, step by step.
LEMMA Unrolled ==
    ASSUME NEW f, Text(f), NEW n, n = Len(f), \A i \in 1..n : Text(f[i]), NEW c, Text(c)
    PROVE  Text(FlattenSeq(f)) /\ \E g : Runs(c, f, n, g)
  <1>1. Len(f) = n /\ n \in Nat
    BY DEF Text
  <1>2. CASE n = 0
    <2>1. FlattenSeq(f) = f
      BY <1>1, <1>2 DEF FlattenSeq
    <2>2. f = <<>>
      BY <1>1, <1>2 DEF Text
    <2>. DEFINE g == [k \in 0..0 |-> c]
    <2>3. Text(<<>>)
      BY DEF Text
    <2>4. g[0] = c /\ g[n] = c \o FlattenSeq(f)
      <3>1. g[0] = c /\ g[n] = c
        BY <1>2
      <3>2. c \o <<>> = c
        BY <2>3, Joined
      <3>. QED  BY <2>1, <2>2, <3>1, <3>2
    <2>5. Runs(c, f, n, g)
      <3>. HIDE DEF g
      <3>. QED  BY <1>2, <2>4 DEF Runs
    <2>. QED  BY <2>1, <2>2, <2>3, <2>5
  <1>3. CASE n # 0
    <2>0. PICK h : Joins(f, n, h)
      BY <1>1, <1>3, FlattenUnfolds
    <2>1. h[1] = f[1] /\ FlattenSeq(f) = h[n] /\ \A i \in 2..n : h[i] = h[i - 1] \o f[i]
      BY <2>0 DEF Joins
    <2>. DEFINE S == {k \in 0..n : k # 0 => Text(h[k])}
    <2>2. 0..n \subseteq S
      <3>1. 0 \in S
        OBVIOUS
      <3>2. ASSUME NEW k \in 0..(n - 1), k \in S PROVE k + 1 \in S
        <4>1. CASE k = 0
          <5>1. k + 1 = 1 /\ 1 \in 1..n
            BY <4>1
          <5>2. Text(h[k + 1])
            BY <2>1, <5>1
          <5>. QED  BY <5>2
        <4>2. CASE k # 0
          <5>1. k + 1 \in 2..n /\ k + 1 \in 1..n /\ (k + 1) - 1 = k
            BY <4>2
          <5>2. Text(h[k])
            BY <3>2, <4>2
          <5>3. h[k + 1] = h[k] \o f[k + 1] /\ Text(f[k + 1])
            BY <2>1, <5>1
          <5>4. Text(h[k + 1])
            BY <5>2, <5>3, Joined
          <5>. QED  BY <5>4
        <4>. QED  BY <4>1, <4>2
      <3>. HIDE DEF S
      <3>. QED  BY <3>1, <3>2, Induction
    <2>. DEFINE g == [k \in 0..n |-> IF k = 0 THEN c ELSE c \o h[k]]
    <2>3. g[0] = c /\ g[n] = c \o FlattenSeq(f)
      <3>1. g[0] = c /\ g[n] = c \o h[n]
        BY <1>3
      <3>. QED  BY <2>1, <3>1
    <2>4. ASSUME NEW k \in 1..n PROVE g[k] = g[k - 1] \o f[k] /\ Text(g[k])
      <3>1. k \in 0..n /\ k # 0 /\ k - 1 \in 0..n
        OBVIOUS
      <3>2. Text(h[k])
        BY <2>2, <3>1
      <3>3. g[k] = c \o h[k]
        BY <3>1
      <3>4. Text(c \o h[k])
        BY <3>2, Joined
      <3>5. CASE k = 1
        <4>1. g[k - 1] = c /\ h[k] = f[k]
          BY <2>1, <3>5
        <4>. HIDE DEF g
        <4>. QED  BY <3>3, <3>4, <4>1
      <3>6. CASE k # 1
        <4>1. k \in 2..n /\ k - 1 # 0
          BY <3>6
        <4>2. g[k - 1] = c \o h[k - 1]
          BY <3>1, <4>1
        <4>3. Text(h[k - 1])
          BY <2>2, <3>1, <4>1
        <4>4. h[k] = h[k - 1] \o f[k]
          BY <2>1, <4>1
        <4>5. c \o (h[k - 1] \o f[k]) = (c \o h[k - 1]) \o f[k]
          <5>1. Text(f[k])
            OBVIOUS
          <5>2. \A s, t, u : Text(s) /\ Text(t) /\ Text(u) => s \o (t \o u) = (s \o t) \o u
            BY Joined
          <5>3. \A s, t : Text(c) /\ Text(s) /\ Text(t) => c \o (s \o t) = (c \o s) \o t
            BY <5>2
          <5>. HIDE DEF g
          <5>. QED  BY <4>3, <5>1, <5>3
        <4>. HIDE DEF g
        <4>. QED  BY <3>3, <3>4, <4>2, <4>4, <4>5
      <3>. QED  BY <3>5, <3>6
    <2>5. Runs(c, f, n, g)
      <3>. HIDE DEF g
      <3>. QED  BY <2>3, <2>4 DEF Runs
    <2>6. Text(FlattenSeq(f))
      <3>1. n \in S
        <4>. HIDE DEF S
        <4>1. n \in 0..n
          OBVIOUS
        <4>. QED  BY <2>2, <4>1
      <3>. QED  BY <1>3, <2>1, <3>1
    <2>. HIDE DEF g
    <2>. QED  BY <2>5, <2>6
  <1>. QED  BY <1>2, <1>3

-----------------------------------------------------------------------------
(* Settled texts: what is done in one go, by pipes that take turns *)

\* Every event is waited for, and pipe p may touch every place.
Quiet(c)      == Sound(c) /\ \A l : Even(c, l)
Settled(c, p) == \A x : Owns(c, p, x)

\* The places of tile t hold value v.
Holds(c, t, v) == \A x \in t : Filled(c, x) /\ Mem(c, x) = v

\* What an operation reads, given what its source tiles hold.
Reads(c, srcs) == [k \in DOMAIN srcs |-> UNION {Mem(c, x) : x \in srcs[k]}]

\* An operation that reads one tile finds its value,
LEMMA ReadsOne ==
    ASSUME NEW c, NEW t, NEW v, t # {}, Holds(c, t, v)
    PROVE  Reads(c, <<t>>) = <<v>>
  <1>. DEFINE R(s) == UNION {Mem(c, x) : x \in s}
  <1>1. R(t) = v
    BY DEF Holds
  <1>. HIDE DEF R
  <1>2. [k \in DOMAIN <<t>> |-> R(<<t>>[k])] = <<v>>
    BY <1>1
  <1>. QED  BY <1>2 DEF R, Reads

\* and one that reads two tiles both.
LEMMA ReadsTwo ==
    ASSUME NEW c, NEW t, NEW v, t # {}, Holds(c, t, v), NEW u, NEW w, u # {}, Holds(c, u, w)
    PROVE  Reads(c, <<t, u>>) = <<v, w>>
  <1>. DEFINE R(s) == UNION {Mem(c, x) : x \in s}
  <1>1. R(t) = v /\ R(u) = w
    BY DEF Holds
  <1>. HIDE DEF R
  <1>2. [k \in DOMAIN <<t, u>> |-> R(<<t, u>>[k])] = <<v, w>>
    BY <1>1
  <1>. QED  BY <1>2 DEF R, Reads

\* The value that an operation leaves.
LEMMA OpLeaves ==
    ASSUME NEW c, NEW ins, NEW d, AfterOp(c, ins, d), ins.add = FALSE
    PROVE  /\ ins.srcs = <<>> => Holds(d, ins.dst, Term(ins.tag, <<>>))
           /\ \A t, v : ins.srcs = <<t>> /\ t # {} /\ Holds(c, t, v) => Holds(d, ins.dst, Term(ins.tag, <<v>>))
           /\ \A t, v, u, w : ins.srcs = <<t, u>> /\ t # {} /\ Holds(c, t, v) /\ u # {} /\ Holds(c, u, w)
                 => Holds(d, ins.dst, Term(ins.tag, <<v, w>>))
  <1>1. Holds(d, ins.dst, Term(ins.tag, Reads(c, ins.srcs)))
    BY DEF AfterOp, Reads, Holds
  <1>2. Reads(c, <<>>) = <<>>
    BY DEF Reads
  <1>. QED  BY <1>1, <1>2, ReadsOne, ReadsTwo

\* An operation of a pipe that may touch everything.
LEMMA SettledOp ==
    ASSUME NEW c, Quiet(c), NEW ins, NEW d, d = Append(c, ins),
           ins.kind = "op", ins.pipe \in Pipe, Settled(c, ins.pipe),
           \A k \in DOMAIN ins.srcs : \A x \in ins.srcs[k] : Filled(c, x)
    PROVE  AfterOp(c, ins, d) /\ Quiet(d) /\ Settled(d, Whole(ins.pipe))
  <1>1. AfterOp(c, ins, d)
    BY OpRule DEF Quiet, Settled
  <1>2. \A l : Even(d, l)
    BY <1>1 DEF AfterOp, Quiet, SameEvents
  <1>3. ASSUME NEW x PROVE Owns(d, Whole(ins.pipe), x)
    <2>1. Owns(c, Whole(ins.pipe), x)
      BY WholeKnows DEF Settled, Owns
    <2>. QED  BY <1>1, <2>1 DEF AfterOp
  <1>. QED  BY <1>1, <1>2, <1>3 DEF Quiet, Settled, AfterOp

AfterHandOff(c, p, q, l, d) ==
    /\ Quiet(d) /\ Settled(d, q) /\ Settled(d, Whole(q))
    /\ \A x : /\ SameAt(c, d, x)
              /\ x # l => /\ Free(c, x) => Free(d, x)
                          /\ \A r : Owns(c, r, x) => Owns(d, r, x)
    /\ q = "S" => \A r : Settled(c, r) => Settled(d, r)

\* A pipe that is done hands over to another one.
LEMMA HandOff ==
    ASSUME 1 <= MaxPosted, NEW c, Quiet(c), NEW p \in Pipe, NEW q \in Pipe, NEW i, Settled(c, Whole(p)),
           NEW d, d = Append(Append(c, set_flag(p, q, i)), wait_flag(p, q, i))
    PROVE  AfterHandOff(c, p, q, <<p, q, i>>, d)
  <1>. DEFINE l == <<p, q, i>>
              e == Append(c, set_flag(p, q, i))
  <1>1. AfterSet(c, p, l, e)
    BY SetRule DEF Quiet, Settled, Room
  <1>2. AfterWait(e, q, l, d)
    <2>. HIDE DEF l
    <2>1. Sound(e) /\ Pending(e, l) /\ d = Append(e, wait_flag(p, q, i))
      BY <1>1 DEF AfterSet
    <2>. HIDE DEF e
    <2>. QED  BY <2>1, WaitRule DEF l
  <1>. HIDE DEF l, e
  <1>3. \A m : Even(d, m)
    BY <1>1, <1>2 DEF AfterSet, AfterWait, SameEvents, Quiet
  <1>4. ASSUME NEW x PROVE Owns(d, q, x) /\ Owns(d, Whole(q), x)
    BY <1>1, <1>2 DEF AfterSet, AfterWait, Settled
  <1>5. ASSUME NEW x
        PROVE  /\ SameAt(c, d, x)
               /\ x # l => /\ Free(c, x) => Free(d, x)
                           /\ \A r : Owns(c, r, x) => Owns(d, r, x)
    BY <1>1, <1>2 DEF AfterSet, AfterWait, SameAt
  <1>6. Sound(d)
    BY <1>2 DEF AfterWait
  <1>7. q = "S" => \A r : Settled(c, r) => Settled(d, r)
    BY <1>1, <1>2 DEF AfterSet, AfterWait, Settled
  <1>. QED  BY <1>3, <1>4, <1>5, <1>6, <1>7 DEF AfterHandOff, Quiet, Settled, l

-----------------------------------------------------------------------------
(* What is kept, and moves of one tile *)

\* What c says of place x is so of d.
Kept(c, d, x) ==
    /\ SameAt(c, d, x)
    /\ Free(c, x) => Free(d, x)
    /\ \A p : Owns(c, p, x) => Owns(d, p, x)

\* What is kept twice is kept.
LEMMA KeptOn ==
    ASSUME NEW c, NEW d, NEW e, NEW x, Kept(c, d, x), Kept(d, e, x)
    PROVE  Kept(c, e, x)
  BY DEF Kept, SameAt

\* A tile whose places are kept holds what it held.
LEMMA HoldsOn ==
    ASSUME NEW c, NEW d, NEW t, NEW v, Holds(c, t, v), \A x \in t : Kept(c, d, x)
    PROVE  Holds(d, t, v)
  BY DEF Holds, Kept, SameAt

\* What an operation does not touch, or a hand-over not use as a lane, is kept.
LEMMA OpKeeps ==
    ASSUME NEW c, NEW ins, NEW d, AfterOp(c, ins, d), NEW x,
           x \notin ins.dst, \A k \in DOMAIN ins.srcs : x \notin ins.srcs[k]
    PROVE  Kept(c, d, x)
  <1>1. x \notin Footprint(ins)
    BY DEF Footprint
  <1>. QED  BY <1>1 DEF AfterOp, Kept

\* And a hand-over keeps all but its lane.
LEMMA HandOffKeeps ==
    ASSUME NEW c, NEW p, NEW q, NEW i, NEW d, AfterHandOff(c, p, q, <<p, q, i>>, d), NEW x, x # <<p, q, i>>
    PROVE  Kept(c, d, x)
  BY DEF AfterHandOff, Kept
=============================================================================
