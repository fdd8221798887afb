---------------------------- MODULE RecipeProofs ----------------------------
(***************************************************************************)
(* Proofs about Recipe, for every problem: any equation, sizes, tile size  *)
(* and device.                                                             *)
(***************************************************************************)
EXTENDS Recipe, LayoutProofs

-----------------------------------------------------------------------------
(* The fields of a recipe *)

\* Of a matrix product.
LEMMA MatmulFields ==
    ASSUME NEW e, NEW env
    PROVE  LET r == MatmulRecipe(e, env)
               natural == inplace(e) \o invariant0(e) \o invariant1(e)
           IN  /\ r.elementwise = FALSE /\ r.broadcast = FALSE
               /\ r.in_transpose_idxs =
                      <<Indices(e.in0, inplace(e) \o invariant0(e) \o contract(e)),
                        Indices(e.in1, inplace(e) \o contract(e) \o invariant1(e))>>
               /\ r.out_interpret_shape = Dims(e, natural)
               /\ r.out_transpose_idxs = Indices(natural, e.out)
               /\ r.L0 = Product(Dims(e, invariant0(e)))
               /\ r.L1 = Product(Dims(e, invariant1(e)))
               /\ r.I = Product(Dims(e, inplace(e)))
               /\ r.C = Product(Dims(e, contract(e)))
               /\ r.out_shape = OutShape(e) /\ r.n_elem = Product(OutShape(e))
  <1>. DEFINE natural == inplace(e) \o invariant0(e) \o invariant1(e)
              mode == DirectMode(e, env.tile, env.nt)
              fuse == IF Fusible(e) THEN FuseFields(e) ELSE NoFuse
              nt == IF mode # 0 THEN NtFields(e, mode) ELSE NoNt
              rest == Merged(NoBcast, Merged(fuse, nt))
  <1>1. rest.broadcast = FALSE /\ "broadcast" \in DOMAIN rest
    <2>. HIDE DEF fuse, nt
    <2>. QED  BY DEF NoBcast, Merged
  <1>. HIDE DEF rest
  <1>2. MatmulRecipe(e, env) = Merged(
            [in_transpose_idxs |->
                <<Indices(e.in0, inplace(e) \o invariant0(e) \o contract(e)),
                  Indices(e.in1, inplace(e) \o contract(e) \o invariant1(e))>>,
             out_interpret_shape |-> Dims(e, natural),
             out_transpose_idxs |-> Indices(natural, e.out),
             out_shape |-> OutShape(e),
             L0 |-> Product(Dims(e, invariant0(e))), L1 |-> Product(Dims(e, invariant1(e))),
             I |-> Product(Dims(e, inplace(e))), C |-> Product(Dims(e, contract(e))),
             elementwise |-> FALSE, n_elem |-> Product(OutShape(e))], rest)
    BY DEF MatmulRecipe, rest
  <1>. QED  BY <1>1, <1>2 DEF Merged

\* Of an elementwise product.
LEMMA ElementwiseFields ==
    ASSUME NEW e
    PROVE  LET r == Merged(Unmultiplied(e, TRUE), NoBcast)
           IN  /\ r.elementwise = TRUE /\ r.broadcast = FALSE
               /\ r.out_shape = OutShape(e) /\ r.n_elem = Product(OutShape(e))
  BY DEF Unmultiplied, Merged, NoBcast, NoFuse, NoNt

\* Of a broadcast product.
LEMMA BroadcastFields ==
    ASSUME NEW e
    PROVE  LET r == BroadcastRecipe(e)
           IN  /\ r.elementwise = FALSE /\ r.broadcast = TRUE
               /\ r.out_shape = OutShape(e) /\ r.n_elem = Product(OutShape(e))
  BY DEF BroadcastRecipe, Unmultiplied, Merged, NoBcast, NoFuse, NoNt

\* Of any: the sizes of the result, and the path it takes.
LEMMA RecipeFields ==
    ASSUME NEW e, NEW env
    PROVE  LET r == ParseRecipe(e, env)
           IN  /\ r.elementwise \in BOOLEAN /\ r.broadcast \in BOOLEAN
               /\ r.out_shape = OutShape(e) /\ r.n_elem = Product(OutShape(e))
               /\ r.broadcast => env.device = "npu"
               /\ IsMatmul(r) => r = MatmulRecipe(e, env)
  <1>1. CASE Elementwise(e)
    <2>1. ParseRecipe(e, env) = Merged(Unmultiplied(e, TRUE), NoBcast)
      BY <1>1 DEF ParseRecipe
    <2>. QED  BY <2>1, ElementwiseFields DEF IsMatmul
  <1>2. CASE ~Elementwise(e) /\ TryBroadcast(e, env.device)
    <2>1. ParseRecipe(e, env) = BroadcastRecipe(e) /\ env.device = "npu"
      BY <1>2 DEF ParseRecipe, TryBroadcast
    <2>. QED  BY <2>1, BroadcastFields DEF IsMatmul
  <1>3. CASE ~Elementwise(e) /\ ~TryBroadcast(e, env.device)
    <2>1. ParseRecipe(e, env) = MatmulRecipe(e, env)
      BY <1>3 DEF ParseRecipe
    <2>. QED  BY <2>1, MatmulFields
  <1>. QED  BY <1>1, <1>2, <1>3

-----------------------------------------------------------------------------
(* Sequences of labels *)

\* The labels picked from the first ones of s.
Picked(f, S, s) ==
    /\ f \in [0..Len(s) -> Seq(Positive)] /\ f[0] = <<>> /\ f[Len(s)] = InOrder(S, s)
    /\ \A i \in 1..Len(s) : f[i] = IF s[i] \in S THEN Append(f[i - 1], s[i]) ELSE f[i - 1]

\* InOrder goes through the sequence once.
LEMMA InOrderUnfolds ==
    ASSUME NEW S, NEW s \in Seq(Positive)
    PROVE  \E f : Picked(f, S, s)
  <1>. DEFINE n == Len(s)
              V == Seq(Positive)
              step == [x \in (1..n) \X V |-> IF s[x[1]] \in S THEN Append(x[2], s[x[1]]) ELSE x[2]]
              def(f) == [i \in 0..Len(s) |-> IF i = 0 THEN <<>>
                                             ELSE IF s[i] \in S THEN Append(f[i - 1], s[i])
                                             ELSE f[i - 1]]
              upTo == CHOOSE f : f = def(f)
  <1>1. n \in Nat /\ \A i \in 1..n : s[i] \in Positive
    OBVIOUS
  <1>2. step \in [(1..n) \X V -> V] /\ <<>> \in V
    <2>1. ASSUME NEW x \in (1..n) \X V PROVE step[x] \in V
      <3>1. x[1] \in 1..n /\ x[2] \in V
        OBVIOUS
      <3>2. Append(x[2], s[x[1]]) \in V
        BY <1>1, <3>1
      <3>. QED  BY <3>1, <3>2
    <2>2. step = [x \in (1..n) \X V |-> step[x]]
      OBVIOUS
    <2>. HIDE DEF step
    <2>. QED  BY <2>1, <2>2
  <1>3. Recursive(n, V, <<>>, step)
    <2>. HIDE DEF step, V, n
    <2>. QED  BY <1>1, <1>2, Recursion, Zenon
  <1>4. PICK f \in [0..n -> V] : Unfolds(f, n, <<>>, step)
    BY <1>3 DEF Recursive
  <1>5. ASSUME NEW i \in 1..n
        PROVE  f[i] = IF s[i] \in S THEN Append(f[i - 1], s[i]) ELSE f[i - 1]
    <2>1. i - 1 \in 0..n
      OBVIOUS
    <2>. HIDE DEF V
    <2>2. <<i, f[i - 1]>> \in (1..n) \X V
      BY <2>1
    <2>. QED  BY <2>2, <1>4 DEF Unfolds
  <1>6. f = def(f)
    <2>1. f[0] = <<>>
      BY <1>4 DEF Unfolds
    <2>2. \A i \in 0..n : i # 0 => i \in 1..n
      OBVIOUS
    <2>3. \A i \in 0..n : f[i] = def(f)[i]
      BY <1>5, <2>1, <2>2
    <2>. QED  BY <2>3
  <1>7. upTo = def(upTo)
    BY <1>6
  <1>8. InOrder(S, s) = upTo[n]
    BY DEF InOrder
  <1>. HIDE DEF upTo
  <1>9. upTo = [i \in 0..n |-> upTo[i]] /\ upTo[0] = <<>>
    BY <1>7
  <1>10. ASSUME NEW i \in 1..n
        PROVE  upTo[i] = IF s[i] \in S THEN Append(upTo[i - 1], s[i]) ELSE upTo[i - 1]
    <2>1. i \in 0..n /\ i # 0
      OBVIOUS
    <2>. QED  BY <1>7, <2>1
  <1>11. upTo \in [0..n -> V] /\ Unfolds(upTo, n, <<>>, step)
    <2>1. \A i \in 1..n : upTo[i - 1] \in V => upTo[i] = step[<<i, upTo[i - 1]>>]
      <3>. SUFFICES ASSUME NEW i \in 1..n, upTo[i - 1] \in V
                    PROVE  upTo[i] = step[<<i, upTo[i - 1]>>]
        OBVIOUS
      <3>. HIDE DEF V
      <3>1. <<i, upTo[i - 1]>> \in (1..n) \X V
        OBVIOUS
      <3>. QED  BY <3>1, <1>10
    <2>. HIDE DEF step, V, n
    <2>. QED  BY <1>1, <1>2, <1>9, <2>1, RecursionStays, Zenon
  <1>. HIDE DEF step
  <1>12. Picked(upTo, S, s)
    BY <1>9, <1>10, <1>8, <1>11 DEF Picked
  <1>. QED  BY <1>12

\* The labels of s up to the i-th.
UpTo(s, i) == {s[j] : j \in 1..i}

\* InOrder lists the labels of s that are in S.
LEMMA InOrderLists ==
    ASSUME NEW S, NEW s \in Seq(Positive), IsInjective(s)
    PROVE  Lists(InOrder(S, s), ToSet(s) \cap S)
  <1>. DEFINE n == Len(s)
  <1>1. n \in Nat /\ s \in [1..n -> Positive] /\ DOMAIN s = 1..n
    OBVIOUS
  <1>2. PICK f : Picked(f, S, s)
    BY InOrderUnfolds
  <1>3. /\ f \in [0..n -> Seq(Positive)] /\ f[0] = <<>> /\ f[n] = InOrder(S, s)
        /\ \A i \in 1..n : f[i] = IF s[i] \in S THEN Append(f[i - 1], s[i]) ELSE f[i - 1]
    BY <1>2 DEF Picked
  <1>. DEFINE T == {k \in 0..n : Lists(f[k], UpTo(s, k) \cap S)}
  <1>4. 0 \in T
    <2>1. f[0] = <<>> /\ UpTo(s, 0) = {}
      BY <1>3 DEF UpTo
    <2>2. 0 \in 0..n /\ UpTo(s, 0) \cap S = {} /\ <<>> \in Seq(Positive) /\ Len(<<>>) = 0
      BY <2>1, <1>1
    <2>3. Lists(<<>>, {})
      BY <2>2 DEF Lists
    <2>. QED  BY <2>1, <2>2, <2>3
  <1>5. \A k \in 0..(n - 1) : k \in T => k + 1 \in T
    <2>. SUFFICES ASSUME NEW k \in 0..(n - 1), k \in T PROVE k + 1 \in T
      OBVIOUS
    <2>. DEFINE w == f[k]
                a == s[k + 1]
                A == UpTo(s, k) \cap S
    <2>1. k + 1 \in 1..n /\ (k + 1) - 1 = k /\ k \in 0..n
      BY <1>1
    <2>2. Lists(w, A)
      OBVIOUS
    <2>3. UpTo(s, k + 1) = UpTo(s, k) \cup {a}
      <3>1. \A j \in 1..(k + 1) : j \in 1..k \/ j = k + 1
        BY <1>1
      <3>2. \A j \in 1..k : j \in 1..(k + 1)
        BY <1>1
      <3>3. k + 1 \in 1..(k + 1)
        BY <1>1
      <3>. QED  BY <3>1, <3>2, <3>3 DEF UpTo
    <2>4. f[k + 1] = IF a \in S THEN Append(w, a) ELSE w
      BY <1>3, <2>1
    <2>5. CASE a \notin S
      <3>1. UpTo(s, k + 1) \cap S = A /\ f[k + 1] = w
        BY <2>3, <2>4, <2>5
      <3>2. Lists(f[k + 1], UpTo(s, k + 1) \cap S)
        BY <2>2, <3>1, Zenon
      <3>3. k + 1 \in 0..n
        BY <2>1
      <3>. QED  BY <3>2, <3>3
    <2>6. CASE a \in S
      <3>1. UpTo(s, k + 1) \cap S = A \cup {a}
        BY <2>3, <2>6
      <3>2. a \notin A /\ a \in Positive
        <4>1. \A j \in 1..k : j \in 1..n /\ j # k + 1
          BY <1>1
        <4>2. \A i, j \in 1..n : s[i] = s[j] => i = j
          BY <1>1 DEF IsInjective
        <4>. QED  BY <4>1, <4>2, <2>1, <1>1 DEF UpTo
      <3>3. f[k + 1] = Append(w, a)
        BY <2>4, <2>6
      <3>. HIDE DEF w, A, a
      <3>4. Lists(Append(w, a), A \cup {a})
        <4>1. /\ w \in Seq(Positive) /\ A \subseteq Positive
              /\ \A i \in 1..Len(w) : w[i] \in A
              /\ \A b \in A : \E i \in 1..Len(w) : w[i] = b
              /\ \A i, j \in 1..Len(w) : w[i] = w[j] => i = j
          BY <2>2 DEF Lists
        <4>. DEFINE x == Append(w, a)
        <4>2. x \in Seq(Positive) /\ Len(x) = Len(w) + 1 /\ Len(w) \in Nat
          BY <4>1, <3>2
        <4>3. x[Len(w) + 1] = a /\ \A i \in 1..Len(w) : x[i] = w[i]
          BY <4>1, <3>2
        <4>. HIDE DEF x
        <4>4. \A i \in 1..Len(x) : i \in 1..Len(w) \/ i = Len(w) + 1
          BY <4>2
        <4>5. \A i \in 1..Len(w) : i \in 1..Len(x)
          BY <4>2
        <4>6. Len(w) + 1 \in 1..Len(x)
          BY <4>2
        <4>7. \A i \in 1..Len(x) : x[i] \in A \cup {a}
          BY <4>1, <4>3, <4>4
        <4>8. \A b \in A \cup {a} : \E i \in 1..Len(x) : x[i] = b
          <5>. SUFFICES ASSUME NEW b \in A \cup {a} PROVE \E i \in 1..Len(x) : x[i] = b
            OBVIOUS
          <5>1. CASE b = a
            BY <5>1, <4>3, <4>6
          <5>2. CASE b \in A
            <6>1. PICK i \in 1..Len(w) : w[i] = b
              BY <5>2, <4>1
            <6>. QED  BY <6>1, <4>3, <4>5
          <5>. QED  BY <5>1, <5>2
        <4>9. \A i, j \in 1..Len(x) : x[i] = x[j] => i = j
          BY <4>1, <4>3, <4>4, <3>2
        <4>. QED  BY <4>1, <4>2, <4>7, <4>8, <4>9, <3>2 DEF Lists, x
      <3>5. Lists(f[k + 1], UpTo(s, k + 1) \cap S)
        BY <3>1, <3>3, <3>4, Zenon
      <3>6. k + 1 \in 0..n
        BY <2>1
      <3>. QED  BY <3>5, <3>6
    <2>. QED  BY <2>5, <2>6
  <1>6. n \in T
    <2>. HIDE DEF T
    <2>1. 0..n \subseteq T
      BY <1>1, <1>4, <1>5, Induction
    <2>. QED  BY <2>1, <1>1
  <1>7. UpTo(s, n) = ToSet(s)
    BY <1>1 DEF UpTo, ToSet
  <1>. QED  BY <1>3, <1>6, <1>7

\* One listing after another.
LEMMA ListsJoined ==
    ASSUME NEW u, NEW v, NEW A, NEW B, Lists(u, A), Lists(v, B), A \cap B = {}
    PROVE  Lists(u \o v, A \cup B)
  <1>. DEFINE x == u \o v
              n == Len(u)
              m == Len(v)
  <1>1. /\ u \in Seq(Positive) /\ A \subseteq Positive
        /\ \A i \in 1..n : u[i] \in A
        /\ \A a \in A : \E i \in 1..n : u[i] = a
        /\ \A i, j \in 1..n : u[i] = u[j] => i = j
    BY DEF Lists
  <1>2. /\ v \in Seq(Positive) /\ B \subseteq Positive
        /\ \A i \in 1..m : v[i] \in B
        /\ \A a \in B : \E i \in 1..m : v[i] = a
        /\ \A i, j \in 1..m : v[i] = v[j] => i = j
    BY DEF Lists
  <1>3. /\ x \in Seq(Positive) /\ Len(x) = n + m /\ n \in Nat /\ m \in Nat
        /\ \A i \in 1..n : x[i] = u[i]
        /\ \A i \in 1..m : x[n + i] = v[i]
    BY <1>1, <1>2
  <1>. HIDE DEF x, n, m
  <1>4. \A i \in 1..Len(x) : i \in 1..n \/ (i - n \in 1..m /\ i = n + (i - n))
    BY <1>3
  <1>5. /\ \A i \in 1..n : i \in 1..Len(x)
        /\ \A i \in 1..m : n + i \in 1..Len(x)
    BY <1>3
  <1>6. \A i \in 1..Len(x) : /\ i \in 1..n => x[i] \in A
                             /\ i \notin 1..n => x[i] \in B /\ x[i] = v[i - n]
    <2>. SUFFICES ASSUME NEW i \in 1..Len(x)
                  PROVE  /\ i \in 1..n => x[i] \in A
                         /\ i \notin 1..n => x[i] \in B /\ x[i] = v[i - n]
      OBVIOUS
    <2>1. CASE i \in 1..n
      BY <2>1, <1>1, <1>3
    <2>2. CASE i \notin 1..n
      <3>. DEFINE j == i - n
      <3>1. j \in 1..m /\ i = n + j
        BY <2>2, <1>4
      <3>. HIDE DEF j
      <3>2. x[i] = v[j] /\ v[j] \in B
        BY <3>1, <1>2, <1>3
      <3>. QED  BY <3>2, <2>2 DEF j
    <2>. QED  BY <2>1, <2>2
  <1>7. \A i \in 1..Len(x) : x[i] \in A \cup B
    BY <1>6
  <1>8. \A b \in A \cup B : \E i \in 1..Len(x) : x[i] = b
    <2>. SUFFICES ASSUME NEW b \in A \cup B PROVE \E i \in 1..Len(x) : x[i] = b
      OBVIOUS
    <2>1. CASE b \in A
      <3>1. PICK i \in 1..n : u[i] = b
        BY <2>1, <1>1
      <3>. QED  BY <3>1, <1>3, <1>5
    <2>2. CASE b \in B
      <3>1. PICK i \in 1..m : v[i] = b
        BY <2>2, <1>2
      <3>2. x[n + i] = b /\ n + i \in 1..Len(x)
        BY <3>1, <1>3, <1>5
      <3>. QED  BY <3>2
    <2>. QED  BY <2>1, <2>2
  <1>9. ASSUME NEW i \in 1..Len(x), NEW j \in 1..Len(x), x[i] = x[j] PROVE i = j
    <2>1. i \in 1..n <=> j \in 1..n
      BY <1>6, <1>9
    <2>2. CASE i \in 1..n
      <3>1. u[i] = u[j] /\ j \in 1..n
        BY <1>3, <1>9, <2>1, <2>2
      <3>. QED  BY <3>1, <2>2, <1>1
    <2>3. CASE i \notin 1..n
      <3>1. v[i - n] = v[j - n] /\ i - n \in 1..m /\ j - n \in 1..m
        BY <1>4, <1>6, <1>9, <2>1, <2>3
      <3>2. i - n = j - n
        BY <3>1, <1>2
      <3>. QED  BY <3>2, <1>3
    <2>. QED  BY <2>2, <2>3
  <1>10. A \cup B \subseteq Positive
    BY <1>1, <1>2
  <1>11. Lists(x, A \cup B)
    BY <1>3, <1>7, <1>8, <1>9, <1>10 DEF Lists
  <1>. QED  BY <1>11 DEF x

-----------------------------------------------------------------------------
(* Sizes *)

\* An equation that build() accepts.
Sized(e) == /\ {e.in0, e.in1, e.out, e.shape0, e.shape1} \subseteq Seq(Positive)
            /\ Valid(e) /\ Solo(e) = {}

Labels(e) == ToSet(e.in0) \cup ToSet(e.in1)

\* The position of a label.
LEMMA IndexOfLabel ==
    ASSUME NEW s \in Seq(Positive), NEW a \in ToSet(s)
    PROVE  IndexOf(s, a) \in 1..Len(s) /\ s[IndexOf(s, a)] = a
  BY DEF IndexOf, ToSet

\* Every label has a size.
LEMMA DimPositive ==
    ASSUME NEW e, Sized(e), NEW a \in Labels(e)
    PROVE  /\ Dim(e, a) \in Positive
           /\ a \in ToSet(e.in0) => Dim(e, a) = e.shape0[IndexOf(e.in0, a)]
           /\ a \in ToSet(e.in1) => Dim(e, a) = e.shape1[IndexOf(e.in1, a)]
  <1>1. /\ e.in0 \in Seq(Positive) /\ e.in1 \in Seq(Positive)
        /\ e.shape0 \in Seq(Positive) /\ e.shape1 \in Seq(Positive)
        /\ Len(e.shape0) = Len(e.in0) /\ Len(e.shape1) = Len(e.in1)
        /\ \A b \in ToSet(e.in0) \cap ToSet(e.in1) :
              e.shape0[IndexOf(e.in0, b)] = e.shape1[IndexOf(e.in1, b)]
    BY DEF Sized, Valid, Common
  <1>2. CASE a \in ToSet(e.in0)
    <2>1. Dim(e, a) = e.shape0[IndexOf(e.in0, a)]
      BY <1>2 DEF Dim
    <2>2. IndexOf(e.in0, a) \in 1..Len(e.shape0)
      BY <1>1, <1>2, IndexOfLabel
    <2>3. e.shape0[IndexOf(e.in0, a)] \in Positive
      BY <1>1, <2>2
    <2>. QED  BY <2>1, <2>3, <1>1, <1>2
  <1>3. CASE a \notin ToSet(e.in0)
    <2>1. Dim(e, a) = e.shape1[IndexOf(e.in1, a)] /\ a \in ToSet(e.in1)
      BY <1>3 DEF Dim, Labels
    <2>2. IndexOf(e.in1, a) \in 1..Len(e.shape1)
      BY <1>1, <2>1, IndexOfLabel
    <2>3. e.shape1[IndexOf(e.in1, a)] \in Positive
      BY <1>1, <2>2
    <2>. QED  BY <2>1, <2>3, <1>3
  <1>. QED  BY <1>2, <1>3

\* And a list of labels a shape.
LEMMA DimsPositive ==
    ASSUME NEW e, Sized(e), NEW w, NEW T \in SUBSET Labels(e), Lists(w, T)
    PROVE  Dims(e, w) \in [1..Len(w) -> Positive] /\ Product(Dims(e, w)) \in Positive
  <1>1. w \in Seq(Positive) /\ \A i \in 1..Len(w) : w[i] \in Labels(e)
    BY DEF Lists
  <1>2. DOMAIN w = 1..Len(w) /\ Len(w) \in Nat
    BY <1>1
  <1>3. \A i \in 1..Len(w) : Dim(e, w[i]) \in Positive
    BY <1>1, DimPositive
  <1>4. Dims(e, w) \in [1..Len(w) -> Positive]
    BY <1>2, <1>3 DEF Dims
  <1>. HIDE DEF Dims
  <1>. QED  BY <1>2, <1>4, ProductPositive

Inplaces(e) == Common(e) \cap ToSet(e.out)
Invariants0(e) == ToSet(e.in0) \ Common(e)
Invariants1(e) == ToSet(e.in1) \ Common(e)

\* The four groups of labels, and what they make of the operands: a label of
\* one operand only is in the output.
LEMMA Groups ==
    ASSUME NEW e, Sized(e)
    PROVE  /\ Lists(inplace(e), Inplaces(e)) /\ Lists(contract(e), Contracted(e))
           /\ Lists(invariant0(e), Invariants0(e)) /\ Lists(invariant1(e), Invariants1(e))
           /\ Lists(e.out, ToSet(e.out))
           /\ ToSet(e.in0) = (Inplaces(e) \cup Invariants0(e)) \cup Contracted(e)
           /\ ToSet(e.in1) = (Inplaces(e) \cup Contracted(e)) \cup Invariants1(e)
           /\ ToSet(e.out) = (Inplaces(e) \cup Invariants0(e)) \cup Invariants1(e)
  <1>1. /\ e.in0 \in Seq(Positive) /\ e.in1 \in Seq(Positive) /\ e.out \in Seq(Positive)
        /\ IsInjective(e.in0) /\ IsInjective(e.in1) /\ IsInjective(e.out)
        /\ ToSet(e.out) \subseteq ToSet(e.in0) \cup ToSet(e.in1)
    BY DEF Sized, Valid
  <1>2. \A a \in ToSet(e.in0) \cup ToSet(e.in1) : a \in Common(e) \/ a \in ToSet(e.out)
    BY DEF Sized, Solo
  <1>. DEFINE free == ToSet(e.out) \ Common(e)
  <1>3. /\ Lists(InOrder(Contracted(e), e.in1), ToSet(e.in1) \cap Contracted(e))
        /\ Lists(InOrder(Inplaces(e), e.in1), ToSet(e.in1) \cap Inplaces(e))
        /\ Lists(InOrder(free, e.in0), ToSet(e.in0) \cap free)
        /\ Lists(InOrder(free, e.in1), ToSet(e.in1) \cap free)
    BY <1>1, InOrderLists
  <1>4. /\ ToSet(e.in1) \cap Contracted(e) = Contracted(e)
        /\ ToSet(e.in1) \cap Inplaces(e) = Inplaces(e)
        /\ ToSet(e.in0) \cap free = Invariants0(e)
        /\ ToSet(e.in1) \cap free = Invariants1(e)
    BY <1>1, <1>2 DEF Contracted, Inplaces, Common, Invariants0, Invariants1
  <1>5. /\ Lists(InOrder(Contracted(e), e.in1), Contracted(e))
        /\ Lists(InOrder(Inplaces(e), e.in1), Inplaces(e))
        /\ Lists(InOrder(free, e.in0), Invariants0(e))
        /\ Lists(InOrder(free, e.in1), Invariants1(e))
    BY <1>3, <1>4, Zenon
  <1>6. /\ Lists(inplace(e), Inplaces(e)) /\ Lists(contract(e), Contracted(e))
        /\ Lists(invariant0(e), Invariants0(e)) /\ Lists(invariant1(e), Invariants1(e))
    BY <1>5, Zenon DEF inplace, contract, invariant0, invariant1, Inplaces
  <1>7. Lists(e.out, ToSet(e.out))
    BY <1>1 DEF Lists, ToSet, IsInjective
  <1>8. /\ ToSet(e.in0) = (Inplaces(e) \cup Invariants0(e)) \cup Contracted(e)
        /\ ToSet(e.in1) = (Inplaces(e) \cup Contracted(e)) \cup Invariants1(e)
        /\ ToSet(e.out) = (Inplaces(e) \cup Invariants0(e)) \cup Invariants1(e)
    BY <1>1, <1>2 DEF Contracted, Inplaces, Common, Invariants0, Invariants1
  <1>. QED  BY <1>6, <1>7, <1>8

\* Their sizes are positive.
LEMMA SizesPositive ==
    ASSUME NEW e, Sized(e)
    PROVE  /\ Product(Dims(e, inplace(e))) \in Positive
           /\ Product(Dims(e, contract(e))) \in Positive
           /\ Product(Dims(e, invariant0(e))) \in Positive
           /\ Product(Dims(e, invariant1(e))) \in Positive
           /\ Product(OutShape(e)) \in Positive
  <1>1. /\ Inplaces(e) \in SUBSET Labels(e) /\ Contracted(e) \in SUBSET Labels(e)
        /\ Invariants0(e) \in SUBSET Labels(e) /\ Invariants1(e) \in SUBSET Labels(e)
        /\ ToSet(e.out) \in SUBSET Labels(e)
    <2>1. ToSet(e.out) \subseteq Labels(e)
      BY DEF Sized, Valid, Labels
    <2>. QED  BY <2>1 DEF Inplaces, Contracted, Invariants0, Invariants1, Labels, Common
  <1>. QED  BY <1>1, Groups, DimsPositive DEF OutShape

-----------------------------------------------------------------------------
(* The inductive invariant *)

Phases == {"new", "rejected", "parsed", "generated", "uncompilable", "compiled",
           "broken", "built", "done"}

\* The phases in which there is a configuration, and a library.
Later == {"generated", "uncompilable", "compiled", "built", "done"}

Accepted == Valid(Equation(problem)) /\ Solo(Equation(problem)) = {}

\* The equation as the kernel sees it.
Run0 == Exec(problem, swapped)

Parsed == Accepted /\ recipe = ParseRecipe(Run0, problem)

\* What the generated source says follows from the recipe.
Written ==
    /\ config = IF recipe.elementwise THEN [N |-> recipe.n_elem]
                ELSE IF recipe.broadcast THEN BroadcastConfig(recipe)
                ELSE EinsumConfig(Run0, recipe, problem)
    /\ library = Template(recipe, problem)

\* The compiler's checks of the code.
Checks ==
    /\ library.backend = problem.device
    /\ library.kind = "einsum" /\ library.backend = "npu" =>
           /\ StaticAsserts(config, KernelSplits(config, OutIdentity(config),
                                                 NtIn(config, Geom(config))))
           /\ TransposeAsserts(config, Geom(config))

HostZeroes ==
    /\ IsMatmul(recipe)
    /\ HostSplits([n_free0 |-> recipe.L0, n_free1 |-> recipe.L1,
                   n_contract |-> recipe.C, n_inplace |-> recipe.I,
                   tile_m |-> problem.tile, tile_n |-> problem.tile,
                   ds |-> ElementBytes(problem.dtype)],
                  IsIdentity(recipe.out_transpose_idxs))

IInv ==
    /\ problem \in Problems
    /\ pc \in Phases \ {"broken"}
    /\ swapped \in BOOLEAN /\ splitk \in BOOLEAN
    /\ recipe = None \/ Parsed
    /\ pc \in Later \cup {"parsed"} => Parsed /\ ~BatchedPartial(recipe, problem.tile)
    /\ pc \notin Later => library = None
    /\ pc \in Later => Written
    /\ pc = "uncompilable" => ~Checks
    /\ pc \in {"compiled", "built", "done"} => Checks
    /\ pc \in {"built", "done"} => splitk = HostZeroes
    /\ pc # "done" => output = {}

\* Every function that is looked up is exported.
LEMMA Resolved ==
    ASSUME NEW r, NEW env, r.elementwise \in BOOLEAN, r.broadcast \in BOOLEAN,
           env.device \in {"npu", "cpu"}, Template(r, env).backend = env.device
    PROVE  LookedUp(r, env) \subseteq Exports(Template(r, env))
  <1>1. CASE r.elementwise
    BY <1>1 DEF LookedUp, Exports, Template, IsMatmul
  <1>2. CASE ~r.elementwise /\ r.broadcast
    BY <1>2 DEF LookedUp, Exports, Template, IsMatmul
  <1>3. CASE ~r.elementwise /\ ~r.broadcast
    BY <1>3 DEF LookedUp, Exports, Template, IsMatmul
  <1>. QED  BY <1>1, <1>2, <1>3

(***************************************************************************)
(* The invariant holds of every build: what is compiled, loaded and run    *)
(* follows from the recipe of the problem's own equation.                  *)
(***************************************************************************)
THEOREM Invariance == Spec => []IInv
  <1>1. Init => IInv
    <2>. SUFFICES ASSUME Init PROVE IInv
      OBVIOUS
    <2>1. /\ problem \in Problems /\ pc = "new" /\ recipe = None /\ library = None
          /\ output = {} /\ swapped \in BOOLEAN /\ splitk \in BOOLEAN
      BY DEF Init
    <2>. QED  BY <2>1 DEF IInv, Phases, Later
  <1>2. IInv /\ [Next]_vars => IInv'
    <2>. SUFFICES ASSUME IInv, [Next]_vars PROVE IInv'
      OBVIOUS
    <2>1. CASE ValidateFails
      BY <2>1 DEF IInv, ValidateFails, Phases, Later, Parsed, Accepted, Run0, None
    <2>2. CASE ParseEquation
      <3>1. pc = "new" /\ pc' \in {"rejected", "parsed"} /\ Accepted
        BY <2>2 DEF ParseEquation, Accepted
      <3>2. Parsed' /\ swapped' \in BOOLEAN
        BY <2>2 DEF ParseEquation, Parsed, Accepted, Run0, SwapPays, OutDirect, IsMatmul
      <3>3. pc' = "parsed" => ~BatchedPartial(recipe, problem.tile)'
        BY <2>2 DEF ParseEquation
      <3>. QED  BY <2>2, <3>1, <3>2, <3>3 DEF IInv, ParseEquation, Phases, Later
    <2>3. CASE GenerateCode
      BY <2>3 DEF IInv, GenerateCode, Phases, Later, Parsed, Accepted, Run0, None, Written
    <2>4. CASE GenerateFails
      BY <2>4 DEF IInv, GenerateFails, Phases, Later, Parsed, Accepted, Run0, None
    <2>5. CASE Compile
      BY <2>5 DEF IInv, Compile, Phases, Later, Parsed, Accepted, Run0, None, Written, Checks
    <2>6. CASE LoadLibrary
      <3>1. pc = "compiled" /\ Parsed /\ Written /\ Checks
        BY <2>6 DEF IInv, LoadLibrary, Later
      <3>2. LookedUp(recipe, problem) \subseteq Exports(library)
        BY <3>1, RecipeFields, Resolved, RecipeAssumption DEF IInv, Parsed, Written, Checks
      <3>3. pc' = "built" /\ splitk' = HostZeroes
        BY <2>6, <3>2 DEF LoadLibrary, HostZeroes
      <3>. QED  BY <2>6, <3>1, <3>3 DEF IInv, LoadLibrary, Phases, Later, Parsed, Accepted, Run0, Written, Checks, HostZeroes
    <2>7. CASE Run
      BY <2>7 DEF IInv, Run, Phases, Later, Parsed, Accepted, Run0, None, Written, Checks, HostZeroes
    <2>8. CASE UNCHANGED vars
      BY <2>8 DEF IInv, vars, Phases, Later, Parsed, Accepted, Run0, None, Written, Checks, HostZeroes
    <2>. QED  BY <2>1, <2>2, <2>3, <2>4, <2>5, <2>6, <2>7, <2>8 DEF Next
  <1>. QED  BY <1>1, <1>2, PTL DEF Spec

(***************************************************************************)
(* No function that load_library or run() look up is missing from the      *)
(* library that was generated, whatever the equation and the device.       *)
(***************************************************************************)
THEOREM SymbolsAlwaysResolve == Spec => []SymbolsResolve
  <1>1. IInv => SymbolsResolve
    BY DEF IInv, SymbolsResolve
  <1>. QED  BY <1>1, Invariance, PTL

-----------------------------------------------------------------------------
(* The configuration of a matrix product *)

\* The kernel's equation, swapped or not, is one that build() accepts.
LEMMA ExecSized ==
    ASSUME IInv, Parsed
    PROVE  Sized(Run0)
  <1>. DEFINE e == Equation(problem)
  <1>1. problem \in Problems /\ swapped \in BOOLEAN /\ Valid(e) /\ Solo(e) = {}
    BY DEF IInv, Parsed, Accepted
  <1>2. /\ {problem.in0, problem.in1, problem.out, problem.shape0, problem.shape1}
               \subseteq Seq(Positive)
        /\ e.in0 = problem.in0 /\ e.in1 = problem.in1 /\ e.out = problem.out
        /\ e.shape0 = problem.shape0 /\ e.shape1 = problem.shape1
    BY <1>1, RecipeAssumption DEF Equation, Positive
  <1>3. {e.in0, e.in1, e.out, e.shape0, e.shape1} \subseteq Seq(Positive)
    BY <1>2
  <1>4. Sized(e)
    BY <1>1, <1>3 DEF Sized
  <1>5. Sized(Swap(e))
    <2>. DEFINE w == Swap(e)
    <2>1. /\ w.in0 = e.in1 /\ w.in1 = e.in0 /\ w.out = e.out
          /\ w.shape0 = e.shape1 /\ w.shape1 = e.shape0
      BY DEF Swap, Equation
    <2>. HIDE DEF w, e
    <2>2. Common(w) = Common(e) /\ ToSet(w.in0) \cup ToSet(w.in1) = ToSet(e.in0) \cup ToSet(e.in1)
      BY <2>1 DEF Common
    <2>3. Solo(w) = Solo(e)
      BY <2>1, <2>2 DEF Solo
    <2>4. Valid(w)
      BY <1>1, <2>1, <2>2 DEF Valid
    <2>5. {w.in0, w.in1, w.out, w.shape0, w.shape1} \subseteq Seq(Positive)
      BY <1>3, <2>1
    <2>6. Sized(w)
      BY <1>1, <2>3, <2>4, <2>5 DEF Sized
    <2>. QED  BY <2>6 DEF w
  <1>6. Run0 = e \/ Run0 = Swap(e)
    BY DEF Run0, Exec
  <1>. QED  BY <1>4, <1>5, <1>6

\* What the generated source says of a matrix product.
LEMMA MatmulWritten ==
    ASSUME IInv, MatmulLibrary
    PROVE  /\ pc \in Later /\ Parsed /\ Sized(Run0)
           /\ IsMatmul(recipe) /\ recipe = MatmulRecipe(Run0, problem)
           /\ config = EinsumConfig(Run0, recipe, problem)
           /\ library.backend = problem.device
  <1>1. pc \in Later /\ library.kind = "einsum"
    BY DEF MatmulLibrary, IInv, Phases, Later
  <1>2. Parsed /\ Written
    BY <1>1 DEF IInv
  <1>3. IsMatmul(recipe) /\ library.backend = problem.device
    BY <1>1, <1>2 DEF Written, Template, IsMatmul
  <1>4. config = EinsumConfig(Run0, recipe, problem)
    BY <1>2, <1>3 DEF Written, IsMatmul
  <1>5. recipe = MatmulRecipe(Run0, problem)
    BY <1>2, <1>3, RecipeFields DEF Parsed
  <1>. QED  BY <1>1, <1>2, <1>3, <1>4, <1>5, ExecSized

\* It is a configuration that the theorems about the geometry are about.
LEMMA MatmulGenerated ==
    ASSUME IInv, MatmulLibrary
    PROVE  /\ Generated(config)
           /\ config.n_free0 = recipe.L0 /\ config.n_free1 = recipe.L1
           /\ config.n_contract = recipe.C /\ config.n_inplace = recipe.I
           /\ config.tile_m = problem.tile /\ config.tile_n = problem.tile
           /\ config.ds = ElementBytes(problem.dtype)
           /\ config.tposeOut.perm = recipe.out_transpose_idxs
  <1>1. /\ Sized(Run0) /\ recipe = MatmulRecipe(Run0, problem)
        /\ config = EinsumConfig(Run0, recipe, problem)
    BY MatmulWritten
  <1>2. /\ recipe.L0 \in Positive /\ recipe.L1 \in Positive
        /\ recipe.C \in Positive /\ recipe.I \in Positive
    BY <1>1, MatmulFields, SizesPositive
  <1>3. problem.tile \in Positive
    BY RecipeAssumption DEF IInv, Positive
  <1>4. ElementBytes(problem.dtype) \in Positive
    BY DEF ElementBytes, Positive
  <1>5. /\ config.n_free0 = recipe.L0 /\ config.n_free1 = recipe.L1
        /\ config.n_contract = recipe.C /\ config.n_inplace = recipe.I
        /\ config.tile_m = problem.tile /\ config.tile_n = problem.tile
        /\ config.ds = ElementBytes(problem.dtype)
        /\ config.tile_k = TileK(problem.tile, recipe.L0, recipe.L1, recipe.C,
                                 ElementBytes(problem.dtype))
        /\ config.tposeOut.perm = recipe.out_transpose_idxs
    BY <1>1 DEF EinsumConfig, TransposeConfig
  <1>. QED  BY <1>2, <1>3, <1>4, <1>5 DEF Generated

(***************************************************************************)
(* Whenever cores may add their slices of a contraction to what the output *)
(* held, run() hands the kernel a zeroed output, for every equation, every *)
(* size and every tile size.                                               *)
(***************************************************************************)
THEOREM SplitKAlwaysInStep == Spec => []SplitKInStep
  <1>1. IInv => SplitKInStep
    <2>. SUFFICES ASSUME IInv, OnNpu, pc \in {"built", "done"},
                         KernelSplits(config, OutIdentity(config), NtIn(config, Geom(config)))
                  PROVE  splitk
      BY DEF SplitKInStep
    <2>. DEFINE host == [n_free0 |-> recipe.L0, n_free1 |-> recipe.L1,
                         n_contract |-> recipe.C, n_inplace |-> recipe.I,
                         tile_m |-> problem.tile, tile_n |-> problem.tile,
                         ds |-> ElementBytes(problem.dtype)]
    <2>1. MatmulLibrary
      BY DEF OnNpu
    <2>2. Generated(config)
      BY <2>1, MatmulGenerated
    <2>3. OutIdentity(config) \in BOOLEAN /\ NtIn(config, Geom(config)) \in BOOLEAN
      BY DEF OutIdentity, IsIdentity, NtIn
    <2>4. HostSplits(config, OutIdentity(config))
      BY <2>2, <2>3, SplitKAgrees
    <2>5. HostSplits(host, IsIdentity(recipe.out_transpose_idxs))
      BY <2>1, <2>4, MatmulGenerated DEF HostSplits, OutIdentity
    <2>6. splitk = HostZeroes /\ IsMatmul(recipe)
      BY <2>1, MatmulWritten DEF IInv
    <2>. QED  BY <2>5, <2>6 DEF HostZeroes
  <1>. QED  BY <1>1, Invariance, PTL

(***************************************************************************)
(* The tile size leaves room for a granule in every buffer: true of the    *)
(* default, and checked nowhere when EINSUM_TILE_SIZE says otherwise.      *)
(***************************************************************************)
TilesFit ==
    \A p \in Problems : GranuleFits([tile_m |-> p.tile, ds |-> ElementBytes(p.dtype)])

\* Then the configuration's granule fits.
LEMMA MatmulFits ==
    ASSUME IInv, MatmulLibrary, TilesFit
    PROVE  GranuleFits(config)
  <1>1. GranuleFits([tile_m |-> problem.tile, ds |-> ElementBytes(problem.dtype)])
    BY DEF TilesFit, IInv
  <1>. QED  BY <1>1, MatmulGenerated DEF GranuleFits

(***************************************************************************)
(* The tiles fit the buffers that no static_assert guards, and the chunks  *)
(* and phases of a tile cover its contraction exactly, for every equation  *)
(* and size whose tile size leaves room for a granule.                     *)
(***************************************************************************)
THEOREM KernelAlwaysFits ==
    ASSUME TilesFit
    PROVE  Spec => []KernelFits
  <1>1. IInv => KernelFits
    <2>. SUFFICES ASSUME IInv, OnNpu
                  PROVE  Capacities(config, KernelSplits(config, OutIdentity(config),
                                                         NtIn(config, Geom(config))))
      BY DEF KernelFits
    <2>1. MatmulLibrary
      BY DEF OnNpu
    <2>2. Generated(config) /\ GranuleFits(config)
      BY <2>1, MatmulGenerated, MatmulFits
    <2>3. KernelSplits(config, OutIdentity(config), NtIn(config, Geom(config))) \in BOOLEAN
      BY DEF KernelSplits, OutIdentity, IsIdentity, NtIn
    <2>. QED  BY <2>2, <2>3, CapacitiesHold
  <1>. QED  BY <1>1, Invariance, PTL

-----------------------------------------------------------------------------
(* The transposes of a matrix product *)

\* The positions that a listing of s's labels has in s.
LEMMA IndicesTurn ==
    ASSUME NEW s \in Seq(Positive), IsInjective(s), NEW w, Lists(w, ToSet(s))
    PROVE  /\ Lists(Indices(s, w), 1..Len(s))
           /\ Len(Indices(s, w)) = Len(w) /\ Len(w) \in Nat
           /\ \A i \in 1..Len(w) : Indices(s, w)[i] = IndexOf(s, w[i])
  <1>. DEFINE x == Indices(s, w)
  <1>1. /\ w \in Seq(Positive) /\ \A i \in 1..Len(w) : w[i] \in ToSet(s)
        /\ \A a \in ToSet(s) : \E i \in 1..Len(w) : w[i] = a
        /\ \A i, j \in 1..Len(w) : w[i] = w[j] => i = j
    BY DEF Lists
  <1>2. Len(w) \in Nat /\ DOMAIN w = 1..Len(w) /\ Len(s) \in Nat /\ DOMAIN s = 1..Len(s)
    BY <1>1
  <1>3. \A a \in ToSet(s) : IndexOf(s, a) \in 1..Len(s) /\ s[IndexOf(s, a)] = a
    BY IndexOfLabel
  <1>4. x = [i \in 1..Len(w) |-> IndexOf(s, w[i])]
    BY <1>2 DEF Indices
  <1>. HIDE DEF x
  <1>5. \A i \in 1..Len(w) : x[i] \in 1..Len(s) /\ s[x[i]] = w[i]
    BY <1>1, <1>3, <1>4
  <1>6. \A p \in 1..Len(s) : p \in Positive
    BY <1>2 DEF Positive
  <1>7. x \in Seq(Positive) /\ Len(x) = Len(w)
    BY <1>2, <1>4, <1>5, <1>6
  <1>8. \A p \in 1..Len(s) : \E i \in 1..Len(w) : x[i] = p
    <2>. SUFFICES ASSUME NEW p \in 1..Len(s) PROVE \E i \in 1..Len(w) : x[i] = p
      OBVIOUS
    <2>1. s[p] \in ToSet(s)
      BY <1>2 DEF ToSet
    <2>2. PICK i \in 1..Len(w) : w[i] = s[p]
      BY <1>1, <2>1
    <2>3. x[i] \in DOMAIN s /\ s[x[i]] = s[p] /\ p \in DOMAIN s
      BY <1>2, <1>5, <2>2
    <2>4. x[i] = p
      BY <2>3, Zenon DEF IsInjective
    <2>. QED  BY <2>4
  <1>9. \A i, j \in 1..Len(w) : x[i] = x[j] => i = j
    <2>. SUFFICES ASSUME NEW i \in 1..Len(w), NEW j \in 1..Len(w), x[i] = x[j] PROVE i = j
      OBVIOUS
    <2>1. w[i] = w[j]
      BY <1>5
    <2>. QED  BY <1>1, <2>1
  <1>10. Lists(x, 1..Len(s))
    BY <1>5, <1>6, <1>7, <1>8, <1>9 DEF Lists
  <1>. QED  BY <1>2, <1>4, <1>7, <1>10 DEF x

\* One that lists the labels w of an operand has their sizes in w's order.
LEMMA OperandTurn ==
    ASSUME NEW s \in Seq(Positive), IsInjective(s), NEW w, Lists(w, ToSet(s)),
           NEW shape \in Seq(Positive), Len(shape) = Len(s)
    PROVE  LET t == TransposeConfig(shape, Indices(s, w))
           IN  /\ IsTranspose(t) /\ t.from_shape = shape /\ t.perm = Indices(s, w)
               /\ Dimensions(t) = Len(w)
               /\ t.to_shape = [i \in 1..Len(w) |-> shape[IndexOf(s, w[i])]]
  <1>. DEFINE perm == Indices(s, w)
              t == TransposeConfig(shape, perm)
  <1>1. /\ Lists(perm, 1..Len(s)) /\ Len(perm) = Len(w) /\ Len(w) \in Nat
        /\ \A i \in 1..Len(w) : perm[i] = IndexOf(s, w[i])
    BY IndicesTurn
  <1>2. Turns(shape, perm)
    BY <1>1 DEF Turns
  <1>3. DOMAIN perm = 1..Len(w)
    BY <1>1 DEF Lists
  <1>. HIDE DEF perm
  <1>4. /\ t.from_shape = shape /\ t.perm = perm /\ t.N = Product(shape)
        /\ t.to_shape = Permuted(shape, perm)
        /\ t.perm_strides = Permuted(RowStrides(shape), perm)
    BY DEF TransposeConfig
  <1>5. Permuted(shape, perm) = [i \in 1..Len(w) |-> shape[IndexOf(s, w[i])]]
    BY <1>1, <1>3 DEF Permuted
  <1>. HIDE DEF t
  <1>. QED  BY <1>1, <1>2, <1>4, <1>5 DEF IsTranspose, Dimensions, t, perm

\* The sizes of two groups of labels, one after the other.
LEMMA DimsJoined ==
    ASSUME NEW e, Sized(e), NEW u, NEW A \in SUBSET Labels(e), Lists(u, A),
           NEW v, NEW B \in SUBSET Labels(e), Lists(v, B)
    PROVE  /\ Dims(e, u \o v) = Dims(e, u) \o Dims(e, v)
           /\ Product(Dims(e, u \o v)) = Product(Dims(e, u)) * Product(Dims(e, v))
           /\ Dims(e, u \o v) \in [1..(Len(u) + Len(v)) -> Positive]
  <1>1. /\ u \in Seq(Positive) /\ v \in Seq(Positive)
        /\ Len(u) \in Nat /\ Len(v) \in Nat
    BY DEF Lists
  <1>2. /\ Dims(e, u) \in [1..Len(u) -> Positive]
        /\ Dims(e, v) \in [1..Len(v) -> Positive]
    BY DimsPositive
  <1>4. DOMAIN u = 1..Len(u) /\ DOMAIN v = 1..Len(v)
    BY <1>1
  <1>5. Dims(e, u \o v) = Dims(e, u) \o Dims(e, v)
    BY <1>1, <1>4 DEF Dims
  <1>. HIDE DEF Dims
  <1>. DEFINE a == Dims(e, u)
              b == Dims(e, v)
              n == Len(u)
              m == Len(v)
  <1>. HIDE DEF a, b, n, m
  <1>6. a \o b \in [1..(n + m) -> Positive] /\ Product(a \o b) = Product(a) * Product(b)
    <2>1. n \in Nat /\ m \in Nat /\ a \in [1..n -> Positive] /\ b \in [1..m -> Positive]
      BY <1>1, <1>2 DEF a, b, n, m
    <2>. QED  BY <2>1, PositiveJoined
  <1>. QED  BY <1>5, <1>6 DEF a, b, n, m

\* The orders in which a matrix product takes the labels of its operands, and
\* those of the result before its transpose.
Order0(e) == inplace(e) \o invariant0(e) \o contract(e)
Order1(e) == inplace(e) \o contract(e) \o invariant1(e)
OrderOut(e) == inplace(e) \o invariant0(e) \o invariant1(e)

\* They list those labels, and their sizes multiply to the matrices'.
LEMMA Orders ==
    ASSUME NEW e, Sized(e)
    PROVE  LET I == Product(Dims(e, inplace(e)))
               C == Product(Dims(e, contract(e)))
               L0 == Product(Dims(e, invariant0(e)))
               L1 == Product(Dims(e, invariant1(e)))
           IN  /\ Lists(Order0(e), ToSet(e.in0)) /\ Product(Dims(e, Order0(e))) = (I * L0) * C
               /\ Lists(Order1(e), ToSet(e.in1)) /\ Product(Dims(e, Order1(e))) = (I * C) * L1
               /\ Lists(OrderOut(e), ToSet(e.out))
               /\ Product(Dims(e, OrderOut(e))) = (I * L0) * L1
               /\ Dims(e, Order0(e)) = (Dims(e, inplace(e)) \o Dims(e, invariant0(e)))
                                           \o Dims(e, contract(e))
               /\ Dims(e, Order1(e)) = (Dims(e, inplace(e)) \o Dims(e, contract(e)))
                                           \o Dims(e, invariant1(e))
               /\ Dims(e, OrderOut(e)) = (Dims(e, inplace(e)) \o Dims(e, invariant0(e)))
                                             \o Dims(e, invariant1(e))
  <1>. DEFINE A == Inplaces(e)
              B == Contracted(e)
              F0 == Invariants0(e)
              F1 == Invariants1(e)
  <1>1. /\ A \in SUBSET Labels(e) /\ B \in SUBSET Labels(e)
        /\ F0 \in SUBSET Labels(e) /\ F1 \in SUBSET Labels(e)
        /\ A \cup F0 \in SUBSET Labels(e) /\ A \cup B \in SUBSET Labels(e)
        /\ A \cap F0 = {} /\ A \cap B = {} /\ (A \cup F0) \cap B = {}
        /\ (A \cup B) \cap F1 = {} /\ (A \cup F0) \cap F1 = {}
    <2>1. ToSet(e.out) \subseteq Labels(e)
      BY DEF Sized, Valid, Labels
    <2>. QED  BY <2>1 DEF Inplaces, Contracted, Invariants0, Invariants1, Labels, Common
  <1>2. /\ Lists(inplace(e), A) /\ Lists(contract(e), B)
        /\ Lists(invariant0(e), F0) /\ Lists(invariant1(e), F1)
        /\ ToSet(e.in0) = (A \cup F0) \cup B
        /\ ToSet(e.in1) = (A \cup B) \cup F1
        /\ ToSet(e.out) = (A \cup F0) \cup F1
    BY Groups
  <1>. HIDE DEF A, B, F0, F1
  <1>3. /\ Lists(inplace(e) \o invariant0(e), A \cup F0)
        /\ Lists(inplace(e) \o contract(e), A \cup B)
    BY <1>1, <1>2, ListsJoined
  <1>4. /\ Lists(Order0(e), (A \cup F0) \cup B)
        /\ Lists(Order1(e), (A \cup B) \cup F1)
        /\ Lists(OrderOut(e), (A \cup F0) \cup F1)
    BY <1>1, <1>2, <1>3, ListsJoined DEF Order0, Order1, OrderOut
  <1>5. /\ Lists(Order0(e), ToSet(e.in0)) /\ Lists(Order1(e), ToSet(e.in1))
        /\ Lists(OrderOut(e), ToSet(e.out))
    BY <1>2, <1>4, Zenon
  <1>6. /\ Dims(e, inplace(e) \o invariant0(e)) = Dims(e, inplace(e)) \o Dims(e, invariant0(e))
        /\ Product(Dims(e, inplace(e) \o invariant0(e)))
             = Product(Dims(e, inplace(e))) * Product(Dims(e, invariant0(e)))
        /\ Dims(e, inplace(e) \o contract(e)) = Dims(e, inplace(e)) \o Dims(e, contract(e))
        /\ Product(Dims(e, inplace(e) \o contract(e)))
             = Product(Dims(e, inplace(e))) * Product(Dims(e, contract(e)))
    BY <1>1, <1>2, DimsJoined
  <1>7. /\ Dims(e, Order0(e)) = Dims(e, inplace(e) \o invariant0(e)) \o Dims(e, contract(e))
        /\ Product(Dims(e, Order0(e)))
             = Product(Dims(e, inplace(e) \o invariant0(e))) * Product(Dims(e, contract(e)))
    BY <1>1, <1>2, <1>3, DimsJoined DEF Order0
  <1>8. /\ Dims(e, Order1(e)) = Dims(e, inplace(e) \o contract(e)) \o Dims(e, invariant1(e))
        /\ Product(Dims(e, Order1(e)))
             = Product(Dims(e, inplace(e) \o contract(e))) * Product(Dims(e, invariant1(e)))
    BY <1>1, <1>2, <1>3, DimsJoined DEF Order1
  <1>9. /\ Dims(e, OrderOut(e)) = Dims(e, inplace(e) \o invariant0(e)) \o Dims(e, invariant1(e))
        /\ Product(Dims(e, OrderOut(e)))
             = Product(Dims(e, inplace(e) \o invariant0(e))) * Product(Dims(e, invariant1(e)))
    BY <1>1, <1>2, <1>3, DimsJoined DEF OrderOut
  <1>. QED  BY <1>5, <1>6, <1>7, <1>8, <1>9

\* The three transposes of a configuration.
LEMMA MatmulTurns ==
    ASSUME NEW e, Sized(e), NEW env
    PROVE  LET r == MatmulRecipe(e, env)
               c == EinsumConfig(e, r, env)
           IN  /\ IsTranspose(c.tpose0) /\ IsTranspose(c.tpose1) /\ IsTranspose(c.tposeOut)
               /\ c.tpose0.N = (r.I * r.L0) * r.C /\ c.tpose1.N = (r.I * r.C) * r.L1
               /\ c.tposeOut.N = (r.I * r.L0) * r.L1
               /\ c.tpose0.from_shape = e.shape0 /\ c.tpose1.from_shape = e.shape1
               /\ c.tposeOut.from_shape = Dims(e, OrderOut(e))
               /\ c.tpose0.perm = Indices(e.in0, Order0(e))
               /\ c.tpose1.perm = Indices(e.in1, Order1(e))
               /\ c.tposeOut.perm = Indices(OrderOut(e), e.out)
               /\ c.tpose0.to_shape = Dims(e, Order0(e))
               /\ c.tpose1.to_shape = Dims(e, Order1(e))
               /\ c.tposeOut.to_shape = Dims(e, e.out)
               /\ Dimensions(c.tpose0) = Len(Order0(e)) /\ Dimensions(c.tpose1) = Len(Order1(e))
               /\ Dimensions(c.tposeOut) = Len(e.out)
  <1>. DEFINE r == MatmulRecipe(e, env)
              c == EinsumConfig(e, r, env)
              I == Product(Dims(e, inplace(e)))
              C == Product(Dims(e, contract(e)))
              L0 == Product(Dims(e, invariant0(e)))
              L1 == Product(Dims(e, invariant1(e)))
  <1>1. /\ c.tpose0 = TransposeConfig(e.shape0, r.in_transpose_idxs[1])
        /\ c.tpose1 = TransposeConfig(e.shape1, r.in_transpose_idxs[2])
        /\ c.tposeOut = TransposeConfig(r.out_interpret_shape, r.out_transpose_idxs)
    <2>. HIDE DEF r
    <2>. QED  BY DEF EinsumConfig
  <1>2. /\ r.in_transpose_idxs[1] = Indices(e.in0, Order0(e))
        /\ r.in_transpose_idxs[2] = Indices(e.in1, Order1(e))
        /\ r.out_interpret_shape = Dims(e, OrderOut(e))
        /\ r.out_transpose_idxs = Indices(OrderOut(e), e.out)
        /\ r.I = I /\ r.C = C /\ r.L0 = L0 /\ r.L1 = L1
    <2>1. /\ r.in_transpose_idxs =
                 <<Indices(e.in0, inplace(e) \o invariant0(e) \o contract(e)),
                   Indices(e.in1, inplace(e) \o contract(e) \o invariant1(e))>>
          /\ r.out_interpret_shape = Dims(e, inplace(e) \o invariant0(e) \o invariant1(e))
          /\ r.out_transpose_idxs = Indices(inplace(e) \o invariant0(e) \o invariant1(e), e.out)
      BY MatmulFields
    <2>2. r.I = I /\ r.C = C /\ r.L0 = L0 /\ r.L1 = L1
      BY MatmulFields
    <2>. HIDE DEF r
    <2>. QED  BY <2>1, <2>2 DEF Order0, Order1, OrderOut
  <1>. HIDE DEF r, c, I, C, L0, L1
  <1>3. /\ Lists(Order0(e), ToSet(e.in0)) /\ Product(Dims(e, Order0(e))) = (I * L0) * C
        /\ Lists(Order1(e), ToSet(e.in1)) /\ Product(Dims(e, Order1(e))) = (I * C) * L1
        /\ Lists(OrderOut(e), ToSet(e.out)) /\ Product(Dims(e, OrderOut(e))) = (I * L0) * L1
    BY Orders DEF I, C, L0, L1
  <1>4. /\ e.in0 \in Seq(Positive) /\ e.in1 \in Seq(Positive) /\ e.out \in Seq(Positive)
        /\ e.shape0 \in Seq(Positive) /\ e.shape1 \in Seq(Positive)
        /\ IsInjective(e.in0) /\ IsInjective(e.in1) /\ IsInjective(e.out)
        /\ Len(e.shape0) = Len(e.in0) /\ Len(e.shape1) = Len(e.in1)
        /\ ToSet(e.out) \subseteq Labels(e)
    BY DEF Sized, Valid, Labels
  <1>5. /\ IsTranspose(c.tpose0) /\ c.tpose0.from_shape = e.shape0
        /\ c.tpose0.perm = Indices(e.in0, Order0(e)) /\ Dimensions(c.tpose0) = Len(Order0(e))
        /\ c.tpose0.to_shape = [i \in 1..Len(Order0(e)) |-> e.shape0[IndexOf(e.in0, Order0(e)[i])]]
    <2>. DEFINE w == Order0(e)
                s == e.in0
                shape == e.shape0
    <2>1. c.tpose0 = TransposeConfig(shape, Indices(s, w))
      BY <1>1, <1>2
    <2>. HIDE DEF w, s, shape
    <2>2. /\ s \in Seq(Positive) /\ IsInjective(s) /\ Lists(w, ToSet(s))
          /\ shape \in Seq(Positive) /\ Len(shape) = Len(s)
      BY <1>3, <1>4 DEF w, s, shape
    <2>3. /\ IsTranspose(c.tpose0) /\ c.tpose0.from_shape = shape
          /\ c.tpose0.perm = Indices(s, w) /\ Dimensions(c.tpose0) = Len(w)
          /\ c.tpose0.to_shape = [i \in 1..Len(w) |-> shape[IndexOf(s, w[i])]]
      BY <2>1, <2>2, OperandTurn
    <2>. QED  BY <2>3 DEF w, s, shape
  <1>6. /\ IsTranspose(c.tpose1) /\ c.tpose1.from_shape = e.shape1
        /\ c.tpose1.perm = Indices(e.in1, Order1(e)) /\ Dimensions(c.tpose1) = Len(Order1(e))
        /\ c.tpose1.to_shape = [i \in 1..Len(Order1(e)) |-> e.shape1[IndexOf(e.in1, Order1(e)[i])]]
    <2>. DEFINE w == Order1(e)
                s == e.in1
                shape == e.shape1
    <2>1. c.tpose1 = TransposeConfig(shape, Indices(s, w))
      BY <1>1, <1>2
    <2>. HIDE DEF w, s, shape
    <2>2. /\ s \in Seq(Positive) /\ IsInjective(s) /\ Lists(w, ToSet(s))
          /\ shape \in Seq(Positive) /\ Len(shape) = Len(s)
      BY <1>3, <1>4 DEF w, s, shape
    <2>3. /\ IsTranspose(c.tpose1) /\ c.tpose1.from_shape = shape
          /\ c.tpose1.perm = Indices(s, w) /\ Dimensions(c.tpose1) = Len(w)
          /\ c.tpose1.to_shape = [i \in 1..Len(w) |-> shape[IndexOf(s, w[i])]]
      BY <2>1, <2>2, OperandTurn
    <2>. QED  BY <2>3 DEF w, s, shape
  <1>7. c.tpose0.to_shape = Dims(e, Order0(e))
    <2>. DEFINE w == Order0(e)
    <2>1. /\ DOMAIN w = 1..Len(w) /\ \A i \in 1..Len(w) : w[i] \in ToSet(e.in0)
      BY <1>3 DEF Lists
    <2>. HIDE DEF w
    <2>2. \A i \in 1..Len(w) : Dim(e, w[i]) = e.shape0[IndexOf(e.in0, w[i])]
      BY <2>1, DimPositive DEF Labels
    <2>3. c.tpose0.to_shape = [i \in 1..Len(w) |-> e.shape0[IndexOf(e.in0, w[i])]]
      BY <1>5 DEF w
    <2>. QED  BY <2>1, <2>2, <2>3 DEF Dims, w
  <1>8. c.tpose1.to_shape = Dims(e, Order1(e))
    <2>. DEFINE w == Order1(e)
    <2>1. /\ DOMAIN w = 1..Len(w) /\ \A i \in 1..Len(w) : w[i] \in ToSet(e.in1)
      BY <1>3 DEF Lists
    <2>. HIDE DEF w
    <2>2. \A i \in 1..Len(w) : Dim(e, w[i]) = e.shape1[IndexOf(e.in1, w[i])]
      BY <2>1, DimPositive DEF Labels
    <2>3. c.tpose1.to_shape = [i \in 1..Len(w) |-> e.shape1[IndexOf(e.in1, w[i])]]
      BY <1>6 DEF w
    <2>. QED  BY <2>1, <2>2, <2>3 DEF Dims, w
  <1>9. /\ IsTranspose(c.tposeOut) /\ c.tposeOut.from_shape = Dims(e, OrderOut(e))
        /\ c.tposeOut.perm = Indices(OrderOut(e), e.out) /\ Dimensions(c.tposeOut) = Len(e.out)
        /\ c.tposeOut.to_shape = Dims(e, e.out)
    <2>. DEFINE s == OrderOut(e)
                shape == Dims(e, s)
                w == e.out
    <2>1. Lists(s, ToSet(w)) /\ s \in Seq(Positive) /\ DOMAIN s = 1..Len(s)
      BY <1>3 DEF Lists
    <2>2. IsInjective(s) /\ ToSet(s) = ToSet(w)
      <3>. HIDE DEF s, w
      <3>1. /\ \A i \in 1..Len(s) : s[i] \in ToSet(w)
            /\ \A a \in ToSet(w) : \E i \in 1..Len(s) : s[i] = a
            /\ \A i, j \in 1..Len(s) : s[i] = s[j] => i = j
        BY <2>1 DEF Lists
      <3>2. IsInjective(s)
        BY <2>1, <3>1 DEF IsInjective
      <3>3. ToSet(s) = {s[i] : i \in 1..Len(s)}
        BY <2>1 DEF ToSet
      <3>. QED  BY <3>1, <3>2, <3>3
    <2>3. ToSet(w) \in SUBSET Labels(e)
      BY <1>4
    <2>4. shape \in [1..Len(s) -> Positive]
      BY <2>1, <2>3, DimsPositive
    <2>5. shape \in Seq(Positive) /\ Len(shape) = Len(s)
      <3>. HIDE DEF shape, s
      <3>. QED  BY <2>1, <2>4
    <2>6. Lists(w, ToSet(w))
      BY Groups
    <2>7. Lists(w, ToSet(s))
      BY <2>2, <2>6, Zenon
    <2>8. c.tposeOut = TransposeConfig(shape, Indices(s, w))
      BY <1>1, <1>2
    <2>9. \A i \in 1..Len(s) : shape[i] = Dim(e, s[i])
      BY <2>1 DEF Dims
    <2>. HIDE DEF s, shape
    <2>10. /\ IsTranspose(c.tposeOut) /\ c.tposeOut.from_shape = shape
           /\ c.tposeOut.perm = Indices(s, w) /\ Dimensions(c.tposeOut) = Len(w)
           /\ c.tposeOut.to_shape = [i \in 1..Len(w) |-> shape[IndexOf(s, w[i])]]
      <3>. HIDE DEF w
      <3>. QED  BY <2>1, <2>2, <2>5, <2>7, <2>8, OperandTurn
    <2>11. \A i \in 1..Len(w) : w[i] \in ToSet(s)
      BY <2>7 DEF Lists
    <2>12. \A i \in 1..Len(w) : IndexOf(s, w[i]) \in 1..Len(s) /\ s[IndexOf(s, w[i])] = w[i]
      BY <2>1, <2>11, IndexOfLabel
    <2>13. \A i \in 1..Len(w) : shape[IndexOf(s, w[i])] = Dim(e, w[i])
      BY <2>9, <2>12
    <2>14. c.tposeOut.to_shape = Dims(e, w)
      BY <1>4, <2>10, <2>13 DEF Dims
    <2>. QED  BY <2>10, <2>14 DEF s, shape
  <1>10. ASSUME NEW t, IsTranspose(t) PROVE t.N = Product(t.to_shape)
    BY <1>10, PermutedShape DEF IsTranspose
  <1>11. /\ c.tpose0.N = (r.I * r.L0) * r.C /\ c.tpose1.N = (r.I * r.C) * r.L1
    BY <1>2, <1>3, <1>5, <1>6, <1>7, <1>8, <1>10
  <1>12. c.tposeOut.N = (r.I * r.L0) * r.L1
    BY <1>2, <1>3, <1>9 DEF IsTranspose
  <1>. QED  BY <1>5, <1>6, <1>7, <1>8, <1>9, <1>11, <1>12 DEF r, c
-----------------------------------------------------------------------------
(* The generated code compiles *)

\* With several batches operand 1 has more than a row and a column of axes.
LEMMA SeveralBatches ==
    ASSUME NEW t, IsTranspose(t), Dimensions(t) = 2,
           NEW I \in Positive, NEW C \in Positive, NEW L \in Positive,
           t.N = (I * C) * L, t.to_shape[2] = L, t.to_shape[1] = C
    PROVE  I = 1
  <1>. DEFINE s == t.to_shape
  <1>1. s \in [1..2 -> Positive] /\ Product(s) = t.N
    <2>. DEFINE shape == t.from_shape
                perm == t.perm
    <2>1. Turns(shape, perm) /\ s = Permuted(shape, perm) /\ t.N = Product(shape) /\ Len(perm) = 2
      BY DEF IsTranspose, Dimensions
    <2>. HIDE DEF shape, perm, s
    <2>2. /\ Len(perm) = Len(shape) /\ Permuted(shape, perm) \in [1..Len(shape) -> Positive]
          /\ Product(Permuted(shape, perm)) = Product(shape)
      BY <2>1, PermutedShape
    <2>. QED  BY <2>1, <2>2
  <1>. HIDE DEF s
  <1>2. Product(s) = s[1] * s[2]
    BY <1>1, ProductTwo DEF Positive
  <1>3. (I * C) * L = C * L
    BY <1>1, <1>2 DEF s
  <1>4. (I * C) * L = I * (C * L) /\ C * L \in Positive
    <2>1. \A a, b, d \in Nat : (a * b) * d = a * (b * d)
      OBVIOUS
    <2>2. \A a, b \in Nat : a # 0 /\ b # 0 => a * b # 0
      OBVIOUS
    <2>. QED  BY <2>1, <2>2 DEF Positive
  <1>5. \A x, y \in Nat : x * y = y /\ y # 0 => x = 1
    OBVIOUS
  <1>. QED  BY <1>3, <1>4, <1>5 DEF Positive

(***************************************************************************)
(* No static_assert of the kernels fails on the code of an equation that   *)
(* build() accepts, but for the documented guard and operands that are not *)
(* regular, and no template is handed to the wrong compiler: for every     *)
(* equation and size whose tile size leaves room for a granule.            *)
(***************************************************************************)
THEOREM AlwaysCompiles ==
    ASSUME TilesFit
    PROVE  Spec => []Compiles
  <1>1. IInv => Compiles
    <2>. SUFFICES ASSUME IInv, pc = "uncompilable",
                         ~(OnNpu /\ (Guarded(config) \/ ~Regular(config, Geom(config))))
                  PROVE  FALSE
      BY DEF Compiles
    <2>1. Parsed /\ Written /\ ~Checks /\ ~BatchedPartial(recipe, problem.tile)
      BY DEF IInv, Later
    <2>2. library.backend = problem.device
      <3>1. /\ recipe.elementwise \in BOOLEAN /\ recipe.broadcast \in BOOLEAN
            /\ recipe.broadcast => problem.device = "npu"
        BY <2>1, RecipeFields DEF Parsed
      <3>2. library = Template(recipe, problem)
        BY <2>1 DEF Written
      <3>. QED  BY <3>1, <3>2 DEF Template
    <2>3. library.kind = "einsum" /\ library.backend = "npu"
      BY <2>1, <2>2 DEF Checks
    <2>4. OnNpu /\ MatmulLibrary
      BY <2>3 DEF OnNpu, MatmulLibrary
    <2>5. Regular(config, Geom(config)) /\ ~Guarded(config)
      BY <2>4
    <2>. DEFINE c == config
                g == Geom(config)
    <2>6. StaticAsserts(c, KernelSplits(c, OutIdentity(c), NtIn(c, g)))
      <3>1. /\ Generated(c) /\ c.n_free0 = recipe.L0 /\ c.n_free1 = recipe.L1
            /\ c.n_inplace = recipe.I /\ c.tile_m = problem.tile /\ IsMatmul(recipe)
            /\ GranuleFits(c)
        BY <2>4, MatmulGenerated, MatmulWritten, MatmulFits
      <3>2. c.n_inplace = 1 \/ ~PartialTiles(c.tile_m, c.n_free0, c.n_free1)
        <4>1. c.n_inplace \in Positive
          BY <3>1 DEF Generated
        <4>2. ~(c.n_inplace > 1 /\ PartialTiles(c.tile_m, c.n_free0, c.n_free1))
          BY <2>1, <3>1 DEF BatchedPartial
        <4>. QED  BY <4>1, <4>2 DEF Positive
      <3>3. KernelSplits(c, OutIdentity(c), NtIn(c, g)) \in BOOLEAN
        BY DEF KernelSplits, OutIdentity, IsIdentity, NtIn
      <3>. QED  BY <3>1, <3>2, <3>3, StaticAssertsHold
    <2>7. ~TransposeAsserts(c, g)
      BY <2>1, <2>2, <2>6 DEF Checks
    <2>8. /\ Sized(Run0) /\ recipe = MatmulRecipe(Run0, problem)
          /\ c = EinsumConfig(Run0, recipe, problem)
      BY <2>4, MatmulWritten
    <2>9. /\ IsTranspose(c.tpose1) /\ c.tpose1.N = (recipe.I * recipe.C) * recipe.L1
      BY <2>8, MatmulTurns
    <2>10. /\ g.C = recipe.C /\ g.I = recipe.I /\ g.L1 = recipe.L1
           /\ g.C \in Positive /\ g.I \in Positive /\ g.L1 \in Positive
      BY <2>4, MatmulGenerated DEF Geom, Generated
    <2>. HIDE DEF c, g
    <2>11. \A t \in {c.tpose0, c.tpose1, c.tposeOut} :
              \A padInner, padStride :
                /\ padStride > padInner /\ ~IsIdentity(t.perm)
                     /\ Dimensions(t) > 2 /\ ~InnermostKept(t) => t.to_shape[Dimensions(t)] = padInner
                => InlineAsserts(t, padInner, padStride)
      BY <2>5 DEF InlineAsserts, BatchedAsserts, Guarded, c
    <2>12. \A t \in {c.tpose0, c.tpose1, c.tposeOut} : InlineAsserts(t, 0, 0)
      <3>1. ~(0 > 0)
        OBVIOUS
      <3>. QED  BY <2>11, <3>1
    <2>13. RD0(c, g) \/ InlineAsserts(c.tpose0, g.C, g.K)
      <3>1. g.K = g.C => ~(g.K > g.C)
        BY <2>10 DEF Positive
      <3>. QED  BY <2>5, <2>11, <3>1 DEF Regular, PadsOneAxis0, Innermost, c, g
    <2>14. ASSUME ~RD1(c, g), RowPadded(g), ~IsIdentity(c.tpose1.perm)
           PROVE  RowpadAsserts(c.tpose1)
      <3>1. /\ c.tpose1.to_shape[Dimensions(c.tpose1)] = g.L1
            /\ c.tpose1.to_shape[Dimensions(c.tpose1) - 1] = g.C
        BY <2>5, <2>14 DEF Regular, PadsOneAxis1, Innermost, c, g
      <3>2. Dimensions(c.tpose1) \in Nat
        BY <2>9, PermutedShape DEF IsTranspose, Dimensions
      <3>3. ~(Dimensions(c.tpose1) < 2)
        BY <2>9, <2>14, OneAxisStays
      <3>4. Dimensions(c.tpose1) # 2
        <4>. SUFFICES ASSUME Dimensions(c.tpose1) = 2 PROVE FALSE
          OBVIOUS
        <4>1. c.tpose1.to_shape[2] = g.L1 /\ c.tpose1.to_shape[1] = g.C
          BY <3>1
        <4>2. g.I = 1
          BY <4>1, <2>9, <2>10, SeveralBatches
        <4>. QED  BY <4>2, <2>14 DEF RowPadded
      <3>5. Dimensions(c.tpose1) >= 3 /\ Dimensions(c.tpose1) > 2
        BY <3>2, <3>3, <3>4
      <3>6. ~InnermostKept(c.tpose1) => BatchedAsserts(c.tpose1, 0, 0)
        BY <2>12, <2>14, <3>5 DEF InlineAsserts
      <3>. QED  BY <3>5, <3>6 DEF RowpadAsserts
    <2>15. ASSUME ~RD1(c, g), ~RowPadded(g), g.B_PADDED
           PROVE  InlineAsserts(c.tpose1, g.L1, g.Na)
      BY <2>5, <2>11, <2>15 DEF Regular, PadsOneAxis1, Innermost, InlineAsserts, c, g
    <2>. QED  BY <2>7, <2>12, <2>13, <2>14, <2>15 DEF TransposeAsserts
  <1>. QED  BY <1>1, Invariance, PTL
-----------------------------------------------------------------------------
(* What the matrix product reads *)

\* The last row and column of a tile that are loaded are of the operands.
LEMMA LoadedInside ==
    ASSUME NEW c, Generated(c), ~PartialPipelined(c), NEW tile \in Tiles(Geom(c))
    PROVE  LET g == Geom(c)
               load == Loaded(c, g, tile)
           IN  /\ tile.i \in 0..(g.I - 1)
               /\ tile.row0 + load.m - 1 \in 0..(g.Arows - 1)
               /\ tile.col0 + load.n - 1 \in 0..(g.Bcols - 1)
  <1>. DEFINE g == Geom(c)
              load == Loaded(c, g, tile)
              L0 == c.n_free0
              L1 == c.n_free1
  <1>1. PICK t \in 0..(g.total_tiles - 1) : tile = Tile(g, t)
    BY DEF Tiles
  <1>2. /\ tile.i \in 0..(g.I - 1)
        /\ tile.row0 \in Nat /\ tile.row0 + g.Mt <= g.Ma
        /\ tile.col0 \in Nat /\ tile.col0 + g.Nt <= g.Na
    BY <1>1, TileBounds
  <1>3. tile.validM = Least(g.L0 - tile.row0, g.Mt) /\ tile.validN = Least(g.L1 - tile.col0, g.Nt)
    BY <1>1 DEF Tile
  <1>4. /\ g.L0 = L0 /\ g.L1 = L1 /\ L0 \in Positive /\ L1 \in Positive
        /\ g.Arows = IF g.A_PADDED THEN g.Ma ELSE L0
        /\ g.Bcols = IF g.B_PADDED THEN g.Na ELSE L1
    BY DEF Geom, Generated
  <1>5. g.Ma \in Int /\ g.Na \in Int
    <2>1. PadUp(L0) \in Nat /\ PadUp(L1) \in Nat
      BY <1>4, Padded DEF Positive
    <2>2. /\ g.Mt \in Positive /\ g.Ma = CeilDiv(PadUp(L0), g.Mt) * g.Mt
          /\ g.Nt \in Positive /\ g.Na = CeilDiv(PadUp(L1), g.Nt) * g.Nt
      BY TileSizes
    <2>. HIDE DEF g, L0, L1
    <2>3. CeilDiv(PadUp(L0), g.Mt) \in Nat /\ CeilDiv(PadUp(L1), g.Nt) \in Nat
      BY <2>1, <2>2, RoundedUp
    <2>. QED  BY <2>2, <2>3 DEF Positive
  <1>6. g.Mt \in Positive /\ g.Nt \in Positive
    BY TileSizes
  <1>7. Stored(c, g, tile) = Inside(tile)
    BY DEF PartialPipelined, Overhangs
  <1>. HIDE DEF g, L0, L1
  <1>8. ASSUME NEW a \in Positive, NEW x \in Nat, NEW m \in Positive
        PROVE  /\ x + Least(a - x, m) - 1 \in 0..(a - 1)
               /\ Least(a - x, m) = m => x + m <= a
    BY <1>8 DEF Least, Positive
  <1>9. ASSUME NEW x \in Nat, NEW m \in Positive, NEW a \in Int, x + m <= a
        PROVE  x + m - 1 \in 0..(a - 1)
    BY <1>9 DEF Positive
  <1>10. CASE PIPELINE_TILES(c)
    <2>1. load.m = g.Mt /\ load.n = g.Nt
      BY <1>10 DEF Loaded
    <2>2. tile.validM = g.Mt /\ tile.validN = g.Nt
      BY <1>7, <1>10 DEF Stored, Inside
    <2>3. ~g.A_PADDED /\ ~g.B_PADDED
      BY <1>10 DEF PIPELINE_TILES, g
    <2>. HIDE DEF load
    <2>4. tile.row0 + g.Mt <= L0 /\ tile.col0 + g.Nt <= L1
      BY <1>2, <1>3, <1>4, <1>6, <1>8, <2>2
    <2>5. L0 \in Int /\ L1 \in Int /\ g.Arows = L0 /\ g.Bcols = L1
      BY <1>4, <2>3 DEF Positive
    <2>6. /\ tile.row0 + g.Mt - 1 \in 0..(L0 - 1)
          /\ tile.col0 + g.Nt - 1 \in 0..(L1 - 1)
      BY <1>2, <1>6, <1>9, <2>4, <2>5
    <2>7. /\ tile.row0 + load.m - 1 \in 0..(g.Arows - 1)
          /\ tile.col0 + load.n - 1 \in 0..(g.Bcols - 1)
      BY <2>1, <2>5, <2>6
    <2>. QED  BY <1>2, <2>7 DEF g, load
  <1>11. CASE ~PIPELINE_TILES(c)
    <2>1. /\ load.m = IF g.A_PADDED THEN g.Mt ELSE tile.validM
          /\ load.n = IF g.B_PADDED THEN g.Nt ELSE tile.validN
      BY <1>11 DEF Loaded
    <2>. HIDE DEF load
    <2>2. tile.row0 + load.m - 1 \in 0..(g.Arows - 1)
      <3>1. CASE g.A_PADDED
        <4>1. load.m = g.Mt /\ g.Arows = g.Ma
          BY <1>4, <2>1, <3>1
        <4>. QED  BY <1>2, <1>6, <1>9, <1>5, <4>1
      <3>2. CASE ~g.A_PADDED
        <4>1. load.m = Least(L0 - tile.row0, g.Mt) /\ g.Arows = L0
          BY <1>3, <1>4, <2>1, <3>2
        <4>. QED  BY <1>2, <1>4, <1>6, <1>8, <4>1
      <3>. QED  BY <3>1, <3>2
    <2>3. tile.col0 + load.n - 1 \in 0..(g.Bcols - 1)
      <3>1. CASE g.B_PADDED
        <4>1. load.n = g.Nt /\ g.Bcols = g.Na
          BY <1>4, <2>1, <3>1
        <4>. QED  BY <1>2, <1>6, <1>9, <1>5, <4>1
      <3>2. CASE ~g.B_PADDED
        <4>1. load.n = Least(L1 - tile.col0, g.Nt) /\ g.Bcols = L1
          BY <1>3, <1>4, <2>1, <3>2
        <4>. QED  BY <1>2, <1>4, <1>6, <1>8, <4>1
      <3>. QED  BY <3>1, <3>2
    <2>. QED  BY <1>2, <2>2, <2>3 DEF g, load
  <1>. QED  BY <1>10, <1>11

\* The fields that say how operands are read in place, of any record.
NtNames == {"in_nt", "in_n_batch", "in0_row_stride", "in0_k_stride", "in1_col_stride",
            "in1_k_stride", "in_batch_sizes", "in0_batch_strides", "in1_batch_strides"}

\* In a recipe they are what DirectMode chose.
LEMMA NtRecipe ==
    ASSUME NEW e, NEW env
    PROVE  LET mode == DirectMode(e, env.tile, env.nt)
           IN  \A x \in NtNames : MatmulRecipe(e, env)[x]
                                     = (IF mode # 0 THEN NtFields(e, mode) ELSE NoNt)[x]
  <1>. DEFINE natural == inplace(e) \o invariant0(e) \o invariant1(e)
              mode == DirectMode(e, env.tile, env.nt)
              fuse == IF Fusible(e) THEN FuseFields(e) ELSE NoFuse
              nt == IF mode # 0 THEN NtFields(e, mode) ELSE NoNt
              rest == Merged(fuse, nt)
              head == [in_transpose_idxs |->
                <<Indices(e.in0, inplace(e) \o invariant0(e) \o contract(e)),
                  Indices(e.in1, inplace(e) \o contract(e) \o invariant1(e))>>,
             out_interpret_shape |-> Dims(e, natural),
             out_transpose_idxs |-> Indices(natural, e.out),
             out_shape |-> OutShape(e),
             L0 |-> Product(Dims(e, invariant0(e))), L1 |-> Product(Dims(e, invariant1(e))),
             I |-> Product(Dims(e, inplace(e))), C |-> Product(Dims(e, contract(e))),
             elementwise |-> FALSE, n_elem |-> Product(OutShape(e))]
  <1>1. MatmulRecipe(e, env) = Merged(head, Merged(NoBcast, rest))
    BY DEF MatmulRecipe
  <1>2. NtNames \subseteq DOMAIN nt
    BY DEF NtFields, NoNt, NtNames
  <1>3. \A x \in NtNames : x \notin DOMAIN head
    BY DEF NtNames
  <1>4. \A x \in NtNames : x \notin DOMAIN NoBcast
    BY DEF NtNames, NoBcast
  <1>5. \A x \in NtNames : x \notin DOMAIN fuse
    BY DEF NtNames, FuseFields, NoFuse
  <1>. HIDE DEF head, fuse, nt, mode
  <1>6. \A x \in NtNames : rest[x] = nt[x] /\ x \in DOMAIN rest
    BY <1>2, <1>5 DEF Merged
  <1>. HIDE DEF rest
  <1>. DEFINE more == Merged(NoBcast, rest)
  <1>7. \A x \in NtNames : more[x] = rest[x] /\ x \in DOMAIN more
    BY <1>4, <1>6 DEF Merged
  <1>. HIDE DEF more
  <1>8. \A x \in NtNames : Merged(head, more)[x] = more[x]
    BY <1>3, <1>7 DEF Merged
  <1>9. \A x \in NtNames : MatmulRecipe(e, env)[x] = nt[x]
    BY <1>1, <1>6, <1>7, <1>8 DEF more
  <1>. QED  BY <1>9 DEF nt, mode

\* The strides of labels in an operand.
Strides(s, shape, labels) == [i \in DOMAIN labels |-> RowStrides(shape)[IndexOf(s, labels[i])]]

\* An operand is read in place only if each free group, and the contraction,
\* is one axis; the kernel is told the strides of its labels.
LEMMA DirectRecipe ==
    ASSUME NEW e, NEW env, MatmulRecipe(e, env).in_nt # 0
    PROVE  LET r == MatmulRecipe(e, env)
           IN  /\ Len(contract(e)) = 1 /\ Len(invariant0(e)) = 1 /\ Len(invariant1(e)) = 1
               /\ r.in_n_batch = Len(inplace(e)) /\ r.in_batch_sizes = Dims(e, inplace(e))
               /\ r.in0_batch_strides = Strides(e.in0, e.shape0, inplace(e))
               /\ r.in1_batch_strides = Strides(e.in1, e.shape1, inplace(e))
               /\ r.in0_row_stride = RowStrides(e.shape0)[IndexOf(e.in0, invariant0(e)[1])]
               /\ r.in0_k_stride = RowStrides(e.shape0)[IndexOf(e.in0, contract(e)[1])]
               /\ r.in1_col_stride = RowStrides(e.shape1)[IndexOf(e.in1, invariant1(e)[1])]
               /\ r.in1_k_stride = RowStrides(e.shape1)[IndexOf(e.in1, contract(e)[1])]
               /\ r.in_nt = 1 => e.in1[Len(e.in1)] = contract(e)[1]
  <1>. DEFINE r == MatmulRecipe(e, env)
              mode == DirectMode(e, env.tile, env.nt)
  <1>1. \A x \in NtNames : r[x] = (IF mode # 0 THEN NtFields(e, mode) ELSE NoNt)[x]
    BY NtRecipe
  <1>2. r.in_nt # 0
    OBVIOUS
  <1>. HIDE DEF r
  <1>3. mode # 0
    <2>. HIDE DEF mode
    <2>. SUFFICES ASSUME mode = 0 PROVE FALSE
      OBVIOUS
    <2>1. r.in_nt = NoNt.in_nt
      BY <1>1 DEF NtNames
    <2>. QED  BY <1>2, <2>1 DEF NoNt
  <1>4. \A x \in NtNames : r[x] = NtFields(e, mode)[x]
    BY <1>1, <1>3
  <1>5. /\ Len(contract(e)) = 1 /\ Len(invariant0(e)) = 1 /\ Len(invariant1(e)) = 1
        /\ mode = 1 => e.in1[Len(e.in1)] = contract(e)[1]
    BY <1>3 DEF DirectMode
  <1>. HIDE DEF mode
  <1>6. /\ r.in_nt = NtFields(e, mode).in_nt
        /\ r.in_n_batch = NtFields(e, mode).in_n_batch
        /\ r.in0_row_stride = NtFields(e, mode).in0_row_stride
        /\ r.in0_k_stride = NtFields(e, mode).in0_k_stride
        /\ r.in1_col_stride = NtFields(e, mode).in1_col_stride
        /\ r.in1_k_stride = NtFields(e, mode).in1_k_stride
        /\ r.in_batch_sizes = NtFields(e, mode).in_batch_sizes
        /\ r.in0_batch_strides = NtFields(e, mode).in0_batch_strides
        /\ r.in1_batch_strides = NtFields(e, mode).in1_batch_strides
    BY <1>4 DEF NtNames
  <1>7. /\ r.in_nt = mode
        /\ r.in_n_batch = Len(inplace(e)) /\ r.in_batch_sizes = Dims(e, inplace(e))
        /\ r.in0_batch_strides = Strides(e.in0, e.shape0, inplace(e))
        /\ r.in1_batch_strides = Strides(e.in1, e.shape1, inplace(e))
        /\ r.in0_row_stride = RowStrides(e.shape0)[IndexOf(e.in0, invariant0(e)[1])]
        /\ r.in0_k_stride = RowStrides(e.shape0)[IndexOf(e.in0, contract(e)[1])]
        /\ r.in1_col_stride = RowStrides(e.shape1)[IndexOf(e.in1, invariant1(e)[1])]
        /\ r.in1_k_stride = RowStrides(e.shape1)[IndexOf(e.in1, contract(e)[1])]
    BY <1>6 DEF NtFields, Strides
  <1>. QED  BY <1>5, <1>7 DEF r

\* The dummy of an empty array is not read.
LEMMA DummyUnread ==
    ASSUME NEW b \in Nat, NEW s \in [1..b -> Nat], NEW d \in Nat
    PROVE  SubSeq(NonEmpty(s, d), 1, b) = s
  <1>1. s = [i \in 1..b |-> s[i]]
    OBVIOUS
  <1>2. CASE b = 0
    <2>1. s = <<>>
      BY <1>2
    <2>2. NonEmpty(s, d) = <<d>>
      BY <2>1 DEF NonEmpty
    <2>3. <<d>> \in [1..1 -> Nat] /\ 0 \in 0..1 /\ 1 \in Nat
      OBVIOUS
    <2>4. SubSeq(<<d>>, 1, 0) = [i \in 1..0 |-> <<d>>[i]]
      BY <2>3, Beginning
    <2>. QED  BY <1>2, <2>1, <2>2, <2>4
  <1>3. CASE b # 0
    <2>1. s # <<>>
      <3>1. 1 \in DOMAIN s
        BY <1>3
      <3>. QED  BY <3>1
    <2>2. NonEmpty(s, d) = s
      BY <2>1 DEF NonEmpty
    <2>3. SubSeq(s, 1, b) = [i \in 1..b |-> s[i]]
      BY Beginning
    <2>. QED  BY <1>1, <2>2, <2>3
  <1>. QED  BY <1>2, <1>3

\* What is where in two sequences, one after the other.
LEMMA Joining ==
    ASSUME NEW u \in Seq(Positive), NEW v \in Seq(Positive)
    PROVE  /\ u \o v \in Seq(Positive) /\ Len(u) \in Nat /\ Len(v) \in Nat
           /\ Len(u \o v) = Len(u) + Len(v)
           /\ \A i \in 1..Len(u) : (u \o v)[i] = u[i]
           /\ \A i \in 1..Len(v) : (u \o v)[Len(u) + i] = v[i]
  OBVIOUS

\* An operand whose labels are those of its batches, and two more.
DirectAxes(e, s, shape, u, v, x, t) ==
    LET b == Len(u)
        R(a) == RowStrides(shape)[IndexOf(s, a)]
    IN  /\ b \in Nat /\ Dimensions(t) = b + 2
        /\ Dims(e, u) \in [1..b -> Nat] /\ Strides(s, shape, u) \in [1..b -> Nat]
        /\ SubSeq(t.to_shape, 1, b) = Dims(e, u)
        /\ SubSeq(t.perm_strides, 1, b) = Strides(s, shape, u)
        /\ t.to_shape[b + 1] = Dims(e, v)[1] /\ t.to_shape[b + 2] = Dims(e, x)[1]
        /\ t.perm_strides[b + 1] = R(v[1]) /\ t.perm_strides[b + 2] = R(x[1])
        /\ R(v[1]) \in Nat /\ R(x[1]) \in Nat

\* Its transpose has their sizes, and their strides.
LEMMA DirectTurn ==
    ASSUME NEW e, Sized(e), NEW s \in Seq(Positive), NEW shape \in Seq(Positive),
           Len(shape) = Len(s),
           NEW u \in Seq(Positive), NEW v \in Seq(Positive), NEW x \in Seq(Positive),
           Len(v) = 1, Len(x) = 1, NEW w, w = (u \o v) \o x, Lists(w, ToSet(s)),
           NEW t, IsTranspose(t), t.from_shape = shape, t.perm = Indices(s, w),
           t.to_shape = Dims(e, w)
    PROVE  DirectAxes(e, s, shape, u, v, x, t)
  <1>. DEFINE b == Len(u)
              n == b + 2
              D == t.to_shape
              S == t.perm_strides
  <1>1. /\ b \in Nat /\ w \in Seq(Positive) /\ Len(w) = n
        /\ \A i \in 1..b : w[i] = u[i]
        /\ w[b + 1] = v[1] /\ w[b + 2] = x[1]
    <2>. DEFINE uv == u \o v
    <2>1. /\ b \in Nat /\ uv \in Seq(Positive) /\ Len(uv) = b + 1
          /\ \A i \in 1..b : uv[i] = u[i]
          /\ uv[b + 1] = v[1]
      <3>1. /\ uv \in Seq(Positive) /\ Len(uv) = b + Len(v) /\ b \in Nat
            /\ \A i \in 1..b : uv[i] = u[i]
            /\ \A i \in 1..Len(v) : uv[b + i] = v[i]
        BY Joining
      <3>. HIDE DEF uv, b
      <3>2. 1 \in 1..Len(v)
        OBVIOUS
      <3>. QED  BY <3>1, <3>2
    <2>2. w = uv \o x
      OBVIOUS
    <2>. HIDE DEF uv, b
    <2>3. (b + 1) + 1 = n /\ b + 1 \in 1..(b + 1) /\ \A i \in 1..b : i \in 1..(b + 1)
      BY <2>1
    <2>4. /\ w \in Seq(Positive) /\ Len(w) = (b + 1) + 1
          /\ \A i \in 1..(b + 1) : w[i] = uv[i]
          /\ w[(b + 1) + 1] = x[1]
      <3>. DEFINE m == Len(uv)
      <3>1. /\ w \in Seq(Positive) /\ Len(w) = m + Len(x)
            /\ \A i \in 1..m : w[i] = uv[i]
            /\ \A i \in 1..Len(x) : w[m + i] = x[i]
        <4>1. uv \in Seq(Positive) /\ x \in Seq(Positive)
          BY <2>1
        <4>2. /\ uv \o x \in Seq(Positive) /\ Len(uv \o x) = m + Len(x)
              /\ \A i \in 1..m : (uv \o x)[i] = uv[i]
              /\ \A i \in 1..Len(x) : (uv \o x)[m + i] = x[i]
          BY <4>1, Joining, Zenon
        <4>. QED  BY <2>2, <4>2
      <3>2. 1 \in 1..Len(x) /\ m = b + 1
        BY <2>1
      <3>. HIDE DEF m
      <3>. QED  BY <3>1, <3>2
    <2>. QED  BY <2>1, <2>3, <2>4
  <1>2. DOMAIN w = 1..n /\ b \in Nat /\ Len(w) = n
    BY <1>1
  <1>3. /\ \A i \in 1..b : w[i] = u[i]
        /\ w[b + 1] = v[1] /\ w[b + 2] = x[1]
    BY <1>1
  <1>4. /\ DOMAIN u = 1..b /\ DOMAIN v = 1..1 /\ DOMAIN x = 1..1
    OBVIOUS
  <1>5. \A i \in 1..n : w[i] \in ToSet(s)
    BY <1>2 DEF Lists
  <1>6. \A i \in 1..n : /\ t.perm[i] = IndexOf(s, w[i])
                        /\ IndexOf(s, w[i]) \in 1..Len(s)
    BY <1>2, <1>5, IndexOfLabel DEF Indices
  <1>7. Dimensions(t) = n
    BY <1>2 DEF Indices, Dimensions
  <1>8. /\ S \in [1..n -> Positive] /\ D \in [1..n -> Positive]
        /\ \A k \in 1..n : S[k] = RowStrides(shape)[t.perm[k]]
    BY <1>7, TransposeSteps, TransposeAxes
  <1>9. \A k \in 1..n : S[k] = RowStrides(shape)[IndexOf(s, w[k])]
    BY <1>6, <1>8
  <1>10. \A k \in 1..n : D[k] = Dim(e, w[k])
    BY <1>2 DEF Dims
  <1>. HIDE DEF D, S
  <1>11. /\ D \in [1..n -> Nat] /\ S \in [1..n -> Nat] /\ n \in Nat /\ b \in 0..n
         /\ b + 1 \in 1..n /\ b + 2 \in 1..n /\ \A i \in 1..b : i \in 1..n
    BY <1>2, <1>8 DEF Positive
  <1>12. SubSeq(D, 1, b) = [i \in 1..b |-> D[i]] /\ SubSeq(S, 1, b) = [i \in 1..b |-> S[i]]
    <2>. HIDE DEF n, b
    <2>. QED  BY <1>11, Beginning
  <1>. HIDE DEF n, b
  <1>13. Dims(e, u) = [i \in 1..b |-> D[i]]
    BY <1>3, <1>4, <1>10, <1>11 DEF Dims
  <1>14. Strides(s, shape, u) = [i \in 1..b |-> S[i]]
    BY <1>3, <1>4, <1>9, <1>11 DEF Strides
  <1>15. [i \in 1..b |-> D[i]] \in [1..b -> Nat] /\ [i \in 1..b |-> S[i]] \in [1..b -> Nat]
    BY <1>11
  <1>16. Dims(e, v)[1] = Dim(e, v[1]) /\ Dims(e, x)[1] = Dim(e, x[1])
    BY <1>4 DEF Dims
  <1>17. D[b + 1] = Dims(e, v)[1] /\ D[b + 2] = Dims(e, x)[1]
    BY <1>3, <1>10, <1>11, <1>16
  <1>18. /\ S[b + 1] = RowStrides(shape)[IndexOf(s, v[1])]
         /\ S[b + 2] = RowStrides(shape)[IndexOf(s, x[1])]
    BY <1>3, <1>9, <1>11
  <1>19. S[b + 1] \in Nat /\ S[b + 2] \in Nat
    BY <1>11
  <1>. QED  BY <1>2, <1>7, <1>12, <1>13, <1>14, <1>15, <1>17, <1>18, <1>19 DEF n, b, D, S, DirectAxes

\* An element is an element, not the mark of a pad.
LEMMA SourcesNat ==
    ASSUME NEW t, IsTranspose(t), NEW j \in Nat
    PROVE  Sources(t)[j] = Transferred(t, j) /\ Sources(t)[j] \in Nat /\ Sources(t)[j] # Zero
  <1>. DEFINE d == Dimensions(t)
  <1>1. /\ d \in Nat /\ t.to_shape \in [1..d -> Positive]
        /\ t.perm_strides \in [1..d -> Positive]
    BY TransposeAxes, TransposeSteps
  <1>. HIDE DEF d
  <1>2. t.perm_strides \in [1..d -> Nat]
    BY <1>1 DEF Positive
  <1>3. Decode(j, t.to_shape, t.perm_strides) \in Nat
    BY <1>1, <1>2, DecodeNat
  <1>. QED  BY <1>3 DEF Sources, Transferred, Zero

\* Reads in place stay inside the operands, and read what the transposes would move.
LEMMA DirectReads ==
    ASSUME NEW e, Sized(e), NEW env, NEW g,
           NtIn(EinsumConfig(e, MatmulRecipe(e, env), env), g),
           NEW i \in Nat, NEW m \in 0..(MatmulRecipe(e, env).L0 - 1),
           NEW n \in 0..(MatmulRecipe(e, env).L1 - 1), NEW k \in 0..(MatmulRecipe(e, env).C - 1)
    PROVE  LET r == MatmulRecipe(e, env)
               c == EinsumConfig(e, r, env)
           IN  /\ AddrA(c, g, i, m, k) < c.tpose0.N /\ AddrB(c, g, i, n, k) < c.tpose1.N
               /\ AddrA(c, g, i, m, k) = Transferred(c.tpose0, (i * r.L0 + m) * r.C + k)
               /\ AddrB(c, g, i, n, k) = Transferred(c.tpose1, (i * r.C + k) * r.L1 + n)
  <1>. DEFINE r == MatmulRecipe(e, env)
              c == EinsumConfig(e, r, env)
              t0 == c.tpose0
              t1 == c.tpose1
              b == Len(inplace(e))
              R0(a) == RowStrides(e.shape0)[IndexOf(e.in0, a)]
              R1(a) == RowStrides(e.shape1)[IndexOf(e.in1, a)]
              f0 == invariant0(e)[1]
              f1 == invariant1(e)[1]
              k1 == contract(e)[1]
  <1>1. /\ c.in_nt = r.in_nt /\ c.in_n_batch = r.in_n_batch
        /\ c.in0_row_stride = r.in0_row_stride /\ c.in0_k_stride = r.in0_k_stride
        /\ c.in1_col_stride = r.in1_col_stride /\ c.in1_k_stride = r.in1_k_stride
        /\ c.in_batch_sizes = NonEmpty(r.in_batch_sizes, 0)
        /\ c.in0_batch_strides = NonEmpty(r.in0_batch_strides, 0)
        /\ c.in1_batch_strides = NonEmpty(r.in1_batch_strides, 0)
    <2>. HIDE DEF r
    <2>. QED  BY DEF EinsumConfig
  <1>2. NtIn(c, g) /\ r.in_nt # 0
    BY <1>1 DEF NtIn
  <1>3. /\ Len(contract(e)) = 1 /\ Len(invariant0(e)) = 1 /\ Len(invariant1(e)) = 1
        /\ r.in_n_batch = b /\ r.in_batch_sizes = Dims(e, inplace(e))
        /\ r.in0_batch_strides = Strides(e.in0, e.shape0, inplace(e))
        /\ r.in1_batch_strides = Strides(e.in1, e.shape1, inplace(e))
        /\ r.in0_row_stride = R0(f0) /\ r.in0_k_stride = R0(k1)
        /\ r.in1_col_stride = R1(f1) /\ r.in1_k_stride = R1(k1)
        /\ r.in_nt = 1 => e.in1[Len(e.in1)] = k1
    BY <1>2, DirectRecipe
  <1>4. /\ IsTranspose(t0) /\ t0.from_shape = e.shape0 /\ t0.perm = Indices(e.in0, Order0(e))
        /\ t0.to_shape = Dims(e, Order0(e))
        /\ IsTranspose(t1) /\ t1.from_shape = e.shape1 /\ t1.perm = Indices(e.in1, Order1(e))
        /\ t1.to_shape = Dims(e, Order1(e))
    BY MatmulTurns
  <1>5. /\ m \in 0..(r.L0 - 1) /\ n \in 0..(r.L1 - 1) /\ k \in 0..(r.C - 1)
        /\ r.L0 = Product(Dims(e, invariant0(e))) /\ r.L1 = Product(Dims(e, invariant1(e)))
        /\ r.C = Product(Dims(e, contract(e)))
    BY MatmulFields
  <1>. HIDE DEF r, c
  <1>6. /\ inplace(e) \in Seq(Positive) /\ contract(e) \in Seq(Positive)
        /\ invariant0(e) \in Seq(Positive) /\ invariant1(e) \in Seq(Positive)
        /\ Lists(Order0(e), ToSet(e.in0)) /\ Lists(Order1(e), ToSet(e.in1))
    <2>1. /\ Lists(inplace(e), Inplaces(e)) /\ Lists(contract(e), Contracted(e))
          /\ Lists(invariant0(e), Invariants0(e)) /\ Lists(invariant1(e), Invariants1(e))
      BY Groups
    <2>2. Lists(Order0(e), ToSet(e.in0)) /\ Lists(Order1(e), ToSet(e.in1))
      BY Orders
    <2>. QED  BY <2>1, <2>2 DEF Lists
  <1>7. /\ e.in0 \in Seq(Positive) /\ e.in1 \in Seq(Positive)
        /\ e.shape0 \in Seq(Positive) /\ e.shape1 \in Seq(Positive)
        /\ Len(e.shape0) = Len(e.in0) /\ Len(e.shape1) = Len(e.in1) /\ IsInjective(e.in1)
    BY DEF Sized, Valid
  <1>8. /\ b \in Nat /\ Dimensions(t0) = b + 2
        /\ Dims(e, inplace(e)) \in [1..b -> Nat]
        /\ Strides(e.in0, e.shape0, inplace(e)) \in [1..b -> Nat]
        /\ SubSeq(t0.to_shape, 1, b) = Dims(e, inplace(e))
        /\ SubSeq(t0.perm_strides, 1, b) = Strides(e.in0, e.shape0, inplace(e))
        /\ t0.to_shape[b + 1] = Dims(e, invariant0(e))[1]
        /\ t0.to_shape[b + 2] = Dims(e, contract(e))[1]
        /\ t0.perm_strides[b + 1] = R0(f0) /\ t0.perm_strides[b + 2] = R0(k1)
        /\ R0(f0) \in Nat /\ R0(k1) \in Nat
    <2>. DEFINE s == e.in0
                shape == e.shape0
                u == inplace(e)
                v == invariant0(e)
                x == contract(e)
                w == Order0(e)
    <2>1. w = (u \o v) \o x
      BY DEF Order0
    <2>2. /\ s \in Seq(Positive) /\ shape \in Seq(Positive) /\ Len(shape) = Len(s)
          /\ u \in Seq(Positive) /\ v \in Seq(Positive) /\ x \in Seq(Positive)
          /\ Len(v) = 1 /\ Len(x) = 1 /\ Lists(w, ToSet(s))
          /\ IsTranspose(t0) /\ t0.from_shape = shape /\ t0.perm = Indices(s, w)
          /\ t0.to_shape = Dims(e, w)
      BY <1>3, <1>4, <1>6, <1>7
    <2>. HIDE DEF s, shape, u, v, x, w, t0
    <2>3. DirectAxes(e, s, shape, u, v, x, t0)
      BY <2>1, <2>2, DirectTurn
    <2>. QED  BY <2>3 DEF DirectAxes, s, shape, u, v, x
  <1>9. /\ Dimensions(t1) = b + 2
        /\ Strides(e.in1, e.shape1, inplace(e)) \in [1..b -> Nat]
        /\ SubSeq(t1.to_shape, 1, b) = Dims(e, inplace(e))
        /\ SubSeq(t1.perm_strides, 1, b) = Strides(e.in1, e.shape1, inplace(e))
        /\ t1.to_shape[b + 1] = Dims(e, contract(e))[1]
        /\ t1.to_shape[b + 2] = Dims(e, invariant1(e))[1]
        /\ t1.perm_strides[b + 1] = R1(k1) /\ t1.perm_strides[b + 2] = R1(f1)
        /\ R1(k1) \in Nat /\ R1(f1) \in Nat
    <2>. DEFINE s == e.in1
                shape == e.shape1
                u == inplace(e)
                v == contract(e)
                x == invariant1(e)
                w == Order1(e)
    <2>1. w = (u \o v) \o x
      BY DEF Order1
    <2>2. /\ s \in Seq(Positive) /\ shape \in Seq(Positive) /\ Len(shape) = Len(s)
          /\ u \in Seq(Positive) /\ v \in Seq(Positive) /\ x \in Seq(Positive)
          /\ Len(v) = 1 /\ Len(x) = 1 /\ Lists(w, ToSet(s))
          /\ IsTranspose(t1) /\ t1.from_shape = shape /\ t1.perm = Indices(s, w)
          /\ t1.to_shape = Dims(e, w)
      BY <1>3, <1>4, <1>6, <1>7
    <2>. HIDE DEF s, shape, u, v, x, w, t1
    <2>3. DirectAxes(e, s, shape, u, v, x, t1)
      BY <2>1, <2>2, DirectTurn
    <2>. QED  BY <2>3 DEF DirectAxes, s, shape, u, v, x
  <1>10. /\ Dims(e, invariant0(e))[1] = r.L0 /\ Dims(e, invariant1(e))[1] = r.L1
         /\ Dims(e, contract(e))[1] = r.C
    <2>1. ASSUME NEW w, NEW T \in SUBSET Labels(e), Lists(w, T), Len(w) = 1
          PROVE  Product(Dims(e, w)) = Dims(e, w)[1]
      <3>1. Dims(e, w) \in [1..1 -> Positive]
        BY <2>1, DimsPositive
      <3>2. Dims(e, w) \in [1..1 -> Nat]
        BY <3>1 DEF Positive
      <3>. QED  BY <3>2, ProductOne
    <2>2. /\ Invariants0(e) \in SUBSET Labels(e) /\ Invariants1(e) \in SUBSET Labels(e)
          /\ Contracted(e) \in SUBSET Labels(e)
      BY DEF Invariants0, Invariants1, Contracted, Labels, Common
    <2>. QED  BY <1>3, <1>5, <2>1, <2>2, Groups
  <1>11. r.in_nt = 1 => R1(k1) = 1
    <2>. SUFFICES ASSUME r.in_nt = 1 PROVE R1(k1) = 1
      OBVIOUS
    <2>. DEFINE s == e.in1
                p == Len(s)
    <2>1. s[p] = k1 /\ s \in Seq(Positive) /\ p \in Nat /\ DOMAIN s = 1..p
      BY <1>3, <1>7
    <2>2. k1 \in ToSet(s)
      <3>1. 1 \in DOMAIN contract(e) /\ contract(e)[1] \in Contracted(e)
        <4>1. Lists(contract(e), Contracted(e))
          BY Groups
        <4>. DEFINE x == contract(e)
        <4>. HIDE DEF x
        <4>2. x \in Seq(Positive) /\ Len(x) = 1 /\ \A j \in 1..Len(x) : x[j] \in Contracted(e)
          BY <1>3, <4>1 DEF Lists, x
        <4>. QED  BY <4>2 DEF x
      <3>. QED  BY <3>1 DEF Contracted, Common
    <2>. HIDE DEF s
    <2>3. IndexOf(s, k1) \in 1..p /\ s[IndexOf(s, k1)] = k1
      BY <2>1, <2>2, IndexOfLabel
    <2>4. IndexOf(s, k1) = p /\ p # 0
      <3>1. p \in 1..p
        BY <2>1, <2>3
      <3>2. IndexOf(s, k1) \in DOMAIN s /\ p \in DOMAIN s /\ s[IndexOf(s, k1)] = s[p]
        BY <2>1, <2>3, <3>1
      <3>3. IsInjective(s)
        BY <1>7 DEF s
      <3>4. IndexOf(s, k1) = p
        BY <3>2, <3>3, Zenon DEF IsInjective
      <3>. QED  BY <3>1, <3>4
    <2>5. e.shape1 \in [1..p -> Positive]
      BY <1>7 DEF s
    <2>. HIDE DEF p
    <2>6. RowStrides(e.shape1)[p] = 1
      BY <2>1, <2>4, <2>5, RowStridesStep
    <2>. QED  BY <2>4, <2>6 DEF s
  <1>12. /\ SubSeq(c.in_batch_sizes, 1, b) = SubSeq(t0.to_shape, 1, b)
         /\ SubSeq(c.in_batch_sizes, 1, b) = SubSeq(t1.to_shape, 1, b)
         /\ SubSeq(c.in0_batch_strides, 1, b) = SubSeq(t0.perm_strides, 1, b)
         /\ SubSeq(c.in1_batch_strides, 1, b) = SubSeq(t1.perm_strides, 1, b)
         /\ c.in_n_batch = b
    <2>. DEFINE d == Dims(e, inplace(e))
                s0 == Strides(e.in0, e.shape0, inplace(e))
                s1 == Strides(e.in1, e.shape1, inplace(e))
    <2>. HIDE DEF t0, t1, b, d, s0, s1
    <2>1. b \in Nat /\ d \in [1..b -> Nat] /\ s0 \in [1..b -> Nat] /\ s1 \in [1..b -> Nat]
      BY <1>8, <1>9 DEF d, s0, s1
    <2>2. /\ SubSeq(NonEmpty(d, 0), 1, b) = d /\ SubSeq(NonEmpty(s0, 0), 1, b) = s0
          /\ SubSeq(NonEmpty(s1, 0), 1, b) = s1
      BY <2>1, DummyUnread
    <2>3. /\ c.in_batch_sizes = NonEmpty(d, 0) /\ c.in0_batch_strides = NonEmpty(s0, 0)
          /\ c.in1_batch_strides = NonEmpty(s1, 0) /\ c.in_n_batch = b
      BY <1>1, <1>3 DEF d, s0, s1
    <2>4. /\ SubSeq(t0.to_shape, 1, b) = d /\ SubSeq(t1.to_shape, 1, b) = d
          /\ SubSeq(t0.perm_strides, 1, b) = s0 /\ SubSeq(t1.perm_strides, 1, b) = s1
      BY <1>8, <1>9 DEF d, s0, s1
    <2>. QED  BY <2>2, <2>3, <2>4
  <1>. HIDE DEF b, t0, t1, f0, f1, k1
  <1>13. (i * r.L0 + m) * r.C + k \in Nat /\ (i * r.C + k) * r.L1 + n \in Nat
    <2>1. r.L0 \in Nat /\ r.L1 \in Nat /\ r.C \in Nat
      BY <1>5, SizesPositive DEF Positive
    <2>2. m \in Nat /\ n \in Nat /\ k \in Nat
      BY <1>5, <2>1
    <2>. QED  BY <2>1, <2>2
  <1>14. /\ AddrA(c, g, i, m, k) < t0.N
         /\ AddrA(c, g, i, m, k) = Transferred(t0, (i * r.L0 + m) * r.C + k)
    <2>. DEFINE low == Decode(i, SubSeq(t0.to_shape, 1, b), SubSeq(t0.perm_strides, 1, b))
                j == (i * r.L0 + m) * r.C + k
    <2>1. AddrA(c, g, i, m, k) = low + m * c.in0_row_stride + k * c.in0_k_stride
      BY <1>2, <1>12 DEF AddrA, Batch
    <2>2. c.in0_row_stride = t0.perm_strides[b + 1] /\ c.in0_k_stride = t0.perm_strides[b + 2]
      BY <1>1, <1>3, <1>8
    <2>3. m \in 0..(t0.to_shape[b + 1] - 1) /\ k \in 0..(t0.to_shape[b + 2] - 1)
      BY <1>5, <1>8, <1>10
    <2>4. low + m * t0.perm_strides[b + 1] + k * t0.perm_strides[b + 2] < t0.N
      BY <1>4, <1>8, <2>3, InnerAxesBound
    <2>5. Transferred(t0, j) = low + m * t0.perm_strides[b + 1] + k * t0.perm_strides[b + 2]
      <3>1. Sources(t0)[(i * t0.to_shape[b + 1] + m) * t0.to_shape[b + 2] + k]
                = BaseOf(t0, b, i) + m * t0.perm_strides[b + 1] + k * t0.perm_strides[b + 2]
        <4>1. \A p \in Nat : \A x \in 0..(t0.to_shape[b + 1] - 1) :
                  \A y \in 0..(t0.to_shape[b + 2] - 1) :
                      Sources(t0)[(p * t0.to_shape[b + 1] + x) * t0.to_shape[b + 2] + y]
                          = BaseOf(t0, b, p) + x * t0.perm_strides[b + 1]
                                              + y * t0.perm_strides[b + 2]
          BY <1>4, <1>8, InnerMatrices
        <4>. QED  BY <2>3, <4>1
      <3>2. t0.to_shape[b + 1] = r.L0 /\ t0.to_shape[b + 2] = r.C /\ BaseOf(t0, b, i) = low
        BY <1>8, <1>10 DEF BaseOf
      <3>3. j \in Nat
        BY <1>13
      <3>4. Sources(t0)[j] = Transferred(t0, j)
        BY <1>4, <3>3, SourcesNat
      <3>. HIDE DEF low
      <3>. QED  BY <3>1, <3>2, <3>4
    <2>. HIDE DEF low, j
    <2>6. AddrA(c, g, i, m, k) = Transferred(t0, j) /\ AddrA(c, g, i, m, k) < t0.N
      BY <2>1, <2>2, <2>4, <2>5
    <2>. QED  BY <2>6 DEF j
  <1>15. /\ AddrB(c, g, i, n, k) < t1.N
         /\ AddrB(c, g, i, n, k) = Transferred(t1, (i * r.C + k) * r.L1 + n)
    <2>. DEFINE low == Decode(i, SubSeq(t1.to_shape, 1, b), SubSeq(t1.perm_strides, 1, b))
                j == (i * r.C + k) * r.L1 + n
                kstride == IF c.in_nt = 1 THEN 1 ELSE c.in1_k_stride
    <2>1. AddrB(c, g, i, n, k) = low + n * c.in1_col_stride + k * kstride
      BY <1>2, <1>12 DEF AddrB, Batch
    <2>2. c.in1_col_stride = t1.perm_strides[b + 2] /\ kstride = t1.perm_strides[b + 1]
      BY <1>1, <1>3, <1>9, <1>11
    <2>3. k \in 0..(t1.to_shape[b + 1] - 1) /\ n \in 0..(t1.to_shape[b + 2] - 1)
      BY <1>5, <1>9, <1>10
    <2>4. low + k * t1.perm_strides[b + 1] + n * t1.perm_strides[b + 2] < t1.N
      BY <1>4, <1>8, <1>9, <2>3, InnerAxesBound
    <2>5. c.in1_col_stride \in Nat /\ kstride \in Nat /\ low \in Nat
      BY <1>4, <1>8, <1>9, <2>2, <2>3, InnerAxesBound
    <2>6. Transferred(t1, j) = low + k * t1.perm_strides[b + 1] + n * t1.perm_strides[b + 2]
      <3>1. Sources(t1)[(i * t1.to_shape[b + 1] + k) * t1.to_shape[b + 2] + n]
                = BaseOf(t1, b, i) + k * t1.perm_strides[b + 1] + n * t1.perm_strides[b + 2]
        <4>1. \A p \in Nat : \A x \in 0..(t1.to_shape[b + 1] - 1) :
                  \A y \in 0..(t1.to_shape[b + 2] - 1) :
                      Sources(t1)[(p * t1.to_shape[b + 1] + x) * t1.to_shape[b + 2] + y]
                          = BaseOf(t1, b, p) + x * t1.perm_strides[b + 1]
                                              + y * t1.perm_strides[b + 2]
          BY <1>4, <1>8, <1>9, InnerMatrices
        <4>. QED  BY <2>3, <4>1
      <3>2. t1.to_shape[b + 1] = r.C /\ t1.to_shape[b + 2] = r.L1 /\ BaseOf(t1, b, i) = low
        BY <1>9, <1>10 DEF BaseOf
      <3>3. j \in Nat
        BY <1>13
      <3>4. Sources(t1)[j] = Transferred(t1, j)
        BY <1>4, <3>3, SourcesNat
      <3>. HIDE DEF low
      <3>. QED  BY <3>1, <3>2, <3>4
    <2>. HIDE DEF low, j, kstride
    <2>7. AddrB(c, g, i, n, k) = Transferred(t1, j) /\ AddrB(c, g, i, n, k) < t1.N
      BY <2>1, <2>2, <2>4, <2>5, <2>6
    <2>. QED  BY <2>7 DEF j
  <1>. QED  BY <1>14, <1>15 DEF r, c, t0, t1

\* Reads of a workspace, or of an operand in its own order, stay inside it.
LEMMA RowMajorInside ==
    ASSUME NEW p \in Nat, NEW q \in Nat, NEW r \in Nat,
           NEW i \in 0..(p - 1), NEW j \in 0..(q - 1), NEW k \in 0..(r - 1)
    PROVE  i * q * r + j * r + k < p * q * r
  <1>. DEFINE u == i * q + j
              v == p * q
  <1>1. i \in Nat /\ i < p /\ j \in Nat /\ j < q /\ k \in Nat /\ k < r
    OBVIOUS
  <1>2. i * q + q <= p * q
    BY <1>1, SpansApart
  <1>3. u \in Nat /\ v \in Nat /\ u < v
    <2>. DEFINE a == i * q
    <2>1. a \in Nat /\ v \in Nat /\ a + q <= v
      BY <1>1, <1>2
    <2>. HIDE DEF a, v
    <2>2. a + j \in Nat /\ a + j < v
      BY <1>1, <2>1
    <2>. QED  BY <2>1, <2>2 DEF a
  <1>4. (i * q + j) * r = i * q * r + j * r
    <2>. DEFINE a == i * q
    <2>1. a \in Nat
      BY <1>1
    <2>. HIDE DEF a
    <2>2. (a + j) * r = a * r + j * r
      BY <1>1, <2>1
    <2>. QED  BY <2>2 DEF a
  <1>5. u * r = i * q * r + j * r
    BY <1>4
  <1>. HIDE DEF u, v
  <1>6. u * r + r <= v * r
    BY <1>3, SpansApart
  <1>7. u * r + k < v * r
    <2>. DEFINE a == u * r
                b == v * r
    <2>1. a \in Nat /\ b \in Nat /\ a + r <= b
      BY <1>3, <1>6
    <2>. HIDE DEF a, b
    <2>2. a + k < b
      BY <1>1, <2>1
    <2>. QED  BY <2>2 DEF a, b
  <1>. QED  BY <1>5, <1>7 DEF v

\* The matrices of a kernel are not empty.
LEMMA MatrixSizes ==
    ASSUME NEW c, Generated(c)
    PROVE  LET g == Geom(c)
           IN  /\ g.I \in Positive /\ g.K \in Positive /\ g.C \in Positive
               /\ g.Arows \in Nat /\ g.Bcols \in Nat
               /\ ~g.A_PADDED => g.Arows = c.n_free0
               /\ ~g.B_PADDED => g.Bcols = c.n_free1
               /\ g.C = c.n_contract /\ g.I = c.n_inplace
  <1>. DEFINE g == Geom(c)
              L0 == c.n_free0
              L1 == c.n_free1
  <1>1. /\ L0 \in Positive /\ L1 \in Positive /\ c.n_contract \in Positive
        /\ c.n_inplace \in Positive
    BY DEF Generated
  <1>2. /\ g.Arows = IF g.A_PADDED THEN g.Ma ELSE L0
        /\ g.Bcols = IF g.B_PADDED THEN g.Na ELSE L1
        /\ g.C = c.n_contract /\ g.I = c.n_inplace
    BY DEF Geom
  <1>3. /\ g.Mt \in Positive /\ g.Ma = CeilDiv(PadUp(L0), g.Mt) * g.Mt
        /\ g.Nt \in Positive /\ g.Na = CeilDiv(PadUp(L1), g.Nt) * g.Nt
        /\ g.K = PadUp(c.n_contract)
    BY TileSizes
  <1>. HIDE DEF g, L0, L1
  <1>4. PadUp(L0) \in Nat /\ PadUp(L1) \in Nat /\ g.K \in Positive
    BY <1>1, <1>3, Padded DEF Positive
  <1>5. CeilDiv(PadUp(L0), g.Mt) \in Nat /\ CeilDiv(PadUp(L1), g.Nt) \in Nat
    BY <1>3, <1>4, RoundedUp
  <1>6. g.Ma \in Nat /\ g.Na \in Nat
    BY <1>3, <1>5 DEF Positive
  <1>. QED  BY <1>1, <1>2, <1>4, <1>6 DEF g, L0, L1, Positive

(***************************************************************************)
(* The matrix product reads inside its operands, or inside the workspace   *)
(* that einsum_setup sized for them, for every equation, size and tile     *)
(* size, whatever is skipped, padded or read in place; the exception is    *)
(* the pipelined loop's partial tiles, a finding of their own.             *)
(***************************************************************************)
THEOREM AlwaysReadsInBounds == Spec => []ReadsInBounds
  <1>1. IInv => ReadsInBounds
    <2>. SUFFICES ASSUME IInv, OnNpu, ~PartialPipelined(config), NEW tile \in Tiles(Geom(config))
                  PROVE  LoadInBounds(config, Geom(config), tile)
      BY DEF ReadsInBounds
    <2>. DEFINE e == Run0
                c == EinsumConfig(e, MatmulRecipe(e, problem), problem)
                g == Geom(c)
                load == Loaded(c, g, tile)
                m == tile.row0 + load.m - 1
                n == tile.col0 + load.n - 1
                k == g.K - 1
    <2>1. MatmulLibrary
      BY DEF OnNpu
    <2>2. /\ Sized(e) /\ recipe = MatmulRecipe(e, problem) /\ config = c
          /\ Generated(config)
          /\ config.n_free0 = recipe.L0 /\ config.n_free1 = recipe.L1
          /\ config.n_contract = recipe.C /\ config.n_inplace = recipe.I
      BY <2>1, MatmulWritten, MatmulGenerated
    <2>3. /\ c.tpose0.N = (recipe.I * recipe.L0) * recipe.C
          /\ c.tpose1.N = (recipe.I * recipe.C) * recipe.L1
      BY <2>2, MatmulTurns
    <2>. HIDE DEF c, e
    <2>4. Generated(c) /\ ~PartialPipelined(c) /\ tile \in Tiles(g)
      BY <2>2
    <2>5. /\ tile.i \in 0..(g.I - 1) /\ m \in 0..(g.Arows - 1) /\ n \in 0..(g.Bcols - 1)
      BY <2>4, LoadedInside
    <2>6. /\ g.I \in Positive /\ g.K \in Positive /\ g.C \in Positive
          /\ g.Arows \in Nat /\ g.Bcols \in Nat
          /\ ~g.A_PADDED => g.Arows = c.n_free0
          /\ ~g.B_PADDED => g.Bcols = c.n_free1
          /\ g.C = c.n_contract /\ g.I = c.n_inplace
      BY <2>4, MatrixSizes
    <2>7. tile.i \in Nat /\ k \in 0..(g.K - 1) /\ g.I \in Nat /\ g.K \in Nat
      BY <2>5, <2>6 DEF Positive
    <2>8. LoadInBounds(c, g, tile) = (AddrA(c, g, tile.i, m, k) < SizeA(c, g)
                                      /\ AddrB(c, g, tile.i, n, k) < SizeB(c, g))
      BY DEF LoadInBounds
    <2>9. CASE NtIn(c, g)
      <3>1. g.K = g.C /\ ~g.A_PADDED /\ ~g.B_PADDED
        BY <2>9 DEF NtIn
      <3>2. SizeA(c, g) = c.tpose0.N /\ SizeB(c, g) = c.tpose1.N
        BY <2>9 DEF SizeA, SizeB, RD0, RD1
      <3>. DEFINE r == MatmulRecipe(e, problem)
      <3>3. r = recipe
        BY <2>2
      <3>4. m \in 0..(r.L0 - 1) /\ n \in 0..(r.L1 - 1) /\ k \in 0..(r.C - 1)
        BY <2>2, <2>5, <2>6, <2>7, <3>1, <3>3
      <3>5. NtIn(EinsumConfig(e, r, problem), g)
        BY <2>9 DEF c
      <3>. HIDE DEF g, m, n, k
      <3>6. AddrA(c, g, tile.i, m, k) < c.tpose0.N /\ AddrB(c, g, tile.i, n, k) < c.tpose1.N
        BY <2>2, <2>7, <3>4, <3>5, DirectReads DEF c
      <3>. QED  BY <2>2, <2>8, <3>2, <3>6 DEF g
    <2>10. CASE ~NtIn(c, g)
      <3>1. /\ AddrA(c, g, tile.i, m, k) = tile.i * g.Arows * g.K + m * g.K + k
            /\ AddrB(c, g, tile.i, n, k) = tile.i * g.K * g.Bcols + k * g.Bcols + n
        BY <2>10 DEF AddrA, AddrB
      <3>2. SizeA(c, g) = g.I * g.Arows * g.K
        <4>1. CASE RD0(c, g)
          <5>1. g.K = g.C /\ ~g.A_PADDED
            BY <2>10, <4>1 DEF RD0, Skip0
          <5>2. g.Arows = recipe.L0 /\ g.K = recipe.C /\ g.I = recipe.I
            BY <2>2, <2>6, <5>1
          <5>. QED  BY <2>3, <4>1, <5>2 DEF SizeA
        <4>2. CASE ~RD0(c, g)
          BY <4>2 DEF SizeA
        <4>. QED  BY <4>1, <4>2
      <3>3. SizeB(c, g) = g.I * g.K * g.Bcols
        <4>1. CASE RD1(c, g)
          <5>1. g.K = g.C /\ ~g.B_PADDED
            BY <2>10, <4>1 DEF RD1, Skip1
          <5>2. g.Bcols = recipe.L1 /\ g.K = recipe.C /\ g.I = recipe.I
            BY <2>2, <2>6, <5>1
          <5>. QED  BY <2>3, <4>1, <5>2 DEF SizeB
        <4>2. CASE ~RD1(c, g)
          BY <4>2 DEF SizeB
        <4>. QED  BY <4>1, <4>2
      <3>. HIDE DEF g, m, n, k
      <3>4. /\ tile.i * g.Arows * g.K + m * g.K + k < g.I * g.Arows * g.K
            /\ tile.i * g.K * g.Bcols + k * g.Bcols + n < g.I * g.K * g.Bcols
        BY <2>5, <2>6, <2>7, RowMajorInside
      <3>. QED  BY <2>2, <2>8, <3>1, <3>2, <3>3, <3>4 DEF g
    <2>. QED  BY <2>9, <2>10
  <1>. QED  BY <1>1, Invariance, PTL
-----------------------------------------------------------------------------
(* The broadcast products *)

\* The last of some positions before one, or 0.
LEMMA LastPosition ==
    ASSUME NEW below \in Positive, NEW P \in SUBSET Positive
    PROVE  /\ Max({0} \cup {p \in P : p < below}) \in 0..(below - 1)
           /\ \A p \in P : p < below => p <= Max({0} \cup {q \in P : q < below})
  <1>. DEFINE T == {0} \cup {p \in P : p < below}
              m == CHOOSE x \in T : \A y \in T : x >= y
  <1>1. T \in SUBSET Nat /\ T # {} /\ below - 1 \in Nat /\ \A x \in T : x <= below - 1
    <2>1. below \in Nat /\ below - 1 \in Nat /\ \A p \in P : p \in Nat
      BY DEF Positive
    <2>2. \A x \in T : x = 0 \/ (x \in P /\ x < below)
      OBVIOUS
    <2>. HIDE DEF T
    <2>3. ASSUME NEW x \in T PROVE x \in Nat /\ x <= below - 1
      <3>1. CASE x = 0
        BY <2>1, <3>1
      <3>2. CASE x \in P /\ x < below
        BY <2>1, <3>2
      <3>. QED  BY <2>2, <3>1, <3>2
    <2>4. 0 \in T
      BY DEF T
    <2>. QED  BY <2>1, <2>3, <2>4
  <1>. HIDE DEF T
  <1>2. \E x \in T : \A y \in T : y <= x
    BY <1>1, LargestExists
  <1>3. \E x \in T : \A y \in T : x >= y
    BY <1>1, <1>2
  <1>4. m \in T /\ \A y \in T : m >= y
    BY <1>3
  <1>5. Max(T) = m
    BY DEF Max
  <1>. HIDE DEF m
  <1>6. Max(T) \in 0..(below - 1)
    BY <1>1, <1>4, <1>5
  <1>7. ASSUME NEW p \in P, p < below PROVE p <= Max(T)
    <2>1. p \in T
      BY <1>7 DEF T
    <2>. QED  BY <1>1, <1>4, <1>5, <2>1
  <1>. QED  BY <1>6, <1>7 DEF T

\* A part of a shape has a positive size.
LEMMA PartPositive ==
    ASSUME NEW n \in Nat, NEW s \in [1..n -> Positive],
           NEW a \in 1..(n + 1), NEW b \in 0..n, a <= b + 1
    PROVE  Product(SubSeq(s, a, b)) \in Positive
  <1>. DEFINE m == a - 1
              k == b - m
              part == SubSeq(s, m + 1, m + k)
  <1>1. m \in 0..n /\ k \in 0..(n - m) /\ m + 1 = a /\ m + k = b
    OBVIOUS
  <1>2. s \in [1..n -> Nat]
    BY DEF Positive
  <1>. HIDE DEF m, k
  <1>3. part \in [1..k -> Nat] /\ part = [i \in 1..k |-> s[m + i]]
    BY <1>1, <1>2, Slice
  <1>. HIDE DEF part
  <1>4. part \in [1..k -> Positive] /\ k \in Nat
    <2>1. \A i \in 1..k : m + i \in 1..n
      BY <1>1
    <2>. QED  BY <1>1, <1>3, <2>1
  <1>5. Product(part) \in Positive
    BY <1>4, ProductPositive
  <1>. QED  BY <1>1, <1>5 DEF part

\* The sizes of a broadcast product's configuration are positive.
LEMMA BroadcastSizes ==
    ASSUME NEW e, Sized(e)
    PROVE  LET c == BroadcastConfig(BroadcastRecipe(e))
           IN  {c.Cc, c.Rr, c.Inner, c.Outer} \subseteq Positive
  <1>. DEFINE n == Len(e.out)
              sizes == OutShape(e)
              present == {p \in 1..n : e.out[p] \in ToSet(BcOperand(e))}
              lastBefore(P, below) == Max({0} \cup {p \in P : p < below})
              mode == IF n \in present THEN 0 ELSE 1
              cols == IF mode = 0 THEN lastBefore((1..n) \ present, n + 1) + 1 ELSE n + 1
              inner == lastBefore(present, cols) + 1
              c == BroadcastConfig(BroadcastRecipe(e))
              Cc == Product(SubSeq(sizes, cols, n))
              Rr == IF mode = 0 THEN Product(SubSeq(sizes, inner, cols - 1)) ELSE 1
              Inner == Product(SubSeq(sizes, inner, n))
              Outer == Product(SubSeq(sizes, 1, inner - 1))
  <1>1. c.Cc = Cc /\ c.Rr = Rr /\ c.Inner = Inner /\ c.Outer = Outer
    <2>1. \A x : BroadcastConfig(x).Cc = x.bc_Cc /\ BroadcastConfig(x).Rr = x.bc_Rr
                 /\ BroadcastConfig(x).Inner = x.bc_Inner /\ BroadcastConfig(x).Outer = x.bc_Outer
      BY DEF BroadcastConfig
    <2>2. LET r == BroadcastRecipe(e) IN
             r.bc_Cc = Cc /\ r.bc_Rr = Rr /\ r.bc_Inner = Inner /\ r.bc_Outer = Outer
      BY DEF BroadcastRecipe, Merged
    <2>. HIDE DEF Cc, Rr, Inner, Outer
    <2>. QED  BY <2>1, <2>2
  <1>2. n \in Nat /\ sizes \in [1..n -> Positive]
    <2>1. Lists(e.out, ToSet(e.out)) /\ ToSet(e.out) \in SUBSET Labels(e)
      BY Groups DEF Sized, Valid, Labels
    <2>. DEFINE w == e.out
                T == ToSet(w)
    <2>2. Lists(w, T) /\ T \in SUBSET Labels(e)
      BY <2>1
    <2>. HIDE DEF w, T
    <2>3. Dims(e, w) \in [1..Len(w) -> Positive]
      BY <2>2, DimsPositive
    <2>4. Len(w) \in Nat
      BY <2>2 DEF Lists
    <2>. QED  BY <2>3, <2>4 DEF OutShape, w
  <1>3. present \in SUBSET Positive /\ (1..n) \ present \in SUBSET Positive /\ n + 1 \in Positive
    BY <1>2 DEF Positive
  <1>. HIDE DEF n, sizes, present
  <1>4. cols \in 1..(n + 1)
    <2>1. lastBefore((1..n) \ present, n + 1) \in 0..((n + 1) - 1)
      BY <1>3, LastPosition
    <2>. HIDE DEF lastBefore
    <2>. QED  BY <1>2, <2>1
  <1>. HIDE DEF cols
  <1>5. inner \in 1..cols
    <2>1. cols \in Positive
      BY <1>2, <1>4 DEF Positive
    <2>2. lastBefore(present, cols) \in 0..(cols - 1)
      BY <1>3, <2>1, LastPosition
    <2>. HIDE DEF lastBefore
    <2>. QED  BY <2>1, <2>2 DEF Positive
  <1>. HIDE DEF inner, mode
  <1>6. /\ cols \in 1..(n + 1) /\ cols - 1 \in 0..n /\ n \in 0..n
        /\ inner \in 1..(n + 1) /\ inner - 1 \in 0..n /\ 1 \in 1..(n + 1)
        /\ cols <= n + 1 /\ inner <= n + 1 /\ inner <= (cols - 1) + 1 /\ 1 <= (inner - 1) + 1
    BY <1>2, <1>4, <1>5
  <1>7. /\ Cc \in Positive /\ Inner \in Positive /\ Outer \in Positive
        /\ Product(SubSeq(sizes, inner, cols - 1)) \in Positive
    BY <1>2, <1>6, PartPositive
  <1>8. Rr \in Positive
    BY <1>7 DEF Positive
  <1>. QED  BY <1>1, <1>7, <1>8

(***************************************************************************)
(* Whatever the equation, the lanes of a product without contraction store *)
(* each element of the output once, and no line of it is stored to by two  *)
(* lanes; in scalar mode lanes do share lines, see the findings.           *)
(***************************************************************************)
THEOREM ProductsAlwaysApart == Spec => []ProductsApart
  <1>1. IInv => ProductsApart
    <2>. SUFFICES ASSUME IInv, pc = "compiled", library.backend = "npu", library.kind # "einsum"
                  PROVE  LET stores == IF library.kind = "elementwise"
                                       THEN elementwise_mul(config.N) ELSE broadcast_mul(config)
                         IN  /\ StoredOnce(stores)
                             /\ library.kind = "elementwise" \/ config.mode = 0
                                  => LinesApart(stores)
      BY DEF ProductsApart
    <2>1. Parsed /\ Written
      BY DEF IInv, Later
    <2>2. Sized(Run0)
      BY <2>1, ExecSized
    <2>3. /\ recipe.elementwise \in BOOLEAN /\ recipe.broadcast \in BOOLEAN
          /\ recipe.n_elem = Product(OutShape(Run0))
      BY <2>1, RecipeFields DEF Parsed
    <2>4. CASE recipe.elementwise
      <3>1. library.kind = "elementwise" /\ config = [N |-> recipe.n_elem]
        BY <2>1, <2>4 DEF Written, Template
      <3>2. config.N \in Nat
        BY <2>2, <2>3, <3>1, SizesPositive DEF Positive
      <3>3. StoredOnce(elementwise_mul(config.N)) /\ LinesApart(elementwise_mul(config.N))
        BY <3>2, ElementwiseRight
      <3>. QED  BY <3>1, <3>3
    <2>5. CASE ~recipe.elementwise
      <3>1. recipe.broadcast /\ library.kind = "broadcast" /\ config = BroadcastConfig(recipe)
        BY <2>1, <2>5 DEF Written, Template
      <3>2. recipe = BroadcastRecipe(Run0)
        BY <2>1, <2>5, <3>1, RecipeFields, MatmulFields, ElementwiseFields DEF Parsed, ParseRecipe
      <3>3. {config.Cc, config.Rr, config.Inner, config.Outer} \subseteq Positive
        BY <2>2, <3>1, <3>2, BroadcastSizes
      <3>4. /\ config.Cc \in Positive /\ config.Rr \in Positive
            /\ config.Inner \in Positive /\ config.Outer \in Nat
        BY <3>3 DEF Positive
      <3>5. CASE config.mode = 0
        <4>1. StoredOnce(bcast_col(config)) /\ LinesApart(bcast_col(config))
          BY <3>4, BroadcastColumnsRight
        <4>. QED  BY <3>1, <3>5, <4>1 DEF broadcast_mul
      <3>6. CASE config.mode # 0
        <4>1. StoredOnce(bcast_scalar(config))
          BY <3>4, BroadcastScalarsRight
        <4>. QED  BY <3>1, <3>6, <4>1 DEF broadcast_mul
      <3>. QED  BY <3>5, <3>6
    <2>. QED  BY <2>3, <2>4, <2>5
  <1>. QED  BY <1>1, Invariance, PTL
-----------------------------------------------------------------------------
(* Types, and results that are there *)

\* The operands' order does not matter to the shape of the result.
LEMMA ShapeOfResult ==
    ASSUME IInv, Parsed
    PROVE  OutShape(Equation(problem)) = OutShape(Run0)
  <1>. DEFINE e == Equation(problem)
              f == Swap(e)
  <1>1. /\ \A a \in Common(e) : e.shape0[IndexOf(e.in0, a)] = e.shape1[IndexOf(e.in1, a)]
        /\ ToSet(e.out) \subseteq ToSet(e.in0) \cup ToSet(e.in1)
    BY DEF Parsed, Accepted, Valid
  <1>2. /\ f.in0 = e.in1 /\ f.in1 = e.in0 /\ f.out = e.out
        /\ f.shape0 = e.shape1 /\ f.shape1 = e.shape0
    BY DEF Swap, Equation
  <1>. HIDE DEF e, f
  <1>3. ASSUME NEW a \in ToSet(e.out) PROVE Dim(f, a) = Dim(e, a)
    <2>1. CASE a \in ToSet(e.in0) /\ a \in ToSet(e.in1)
      BY <1>1, <1>2, <2>1 DEF Common, Dim
    <2>2. CASE ~(a \in ToSet(e.in0) /\ a \in ToSet(e.in1))
      BY <1>1, <1>2, <2>2 DEF Dim
    <2>. QED  BY <2>1, <2>2
  <1>4. \A i \in DOMAIN e.out : e.out[i] \in ToSet(e.out)
    BY DEF ToSet
  <1>5. OutShape(f) = OutShape(e)
    BY <1>2, <1>3, <1>4 DEF OutShape, Dims
  <1>. QED  BY <1>5 DEF Run0, Exec, e, f

\* The first element is read from offset 0, whatever the axes.
LEMMA DecodeZero ==
    ASSUME NEW n \in Nat, NEW dims \in [1..n -> Positive], NEW strides \in [1..n -> Nat]
    PROVE  Decode(0, dims, strides) = 0
  <1>1. PICK f \in [0..n -> Nat \X Nat] : Digits(f, n, dims, strides, 0)
    BY DecodeUnfolds
  <1>. DEFINE S == {i \in 0..n : f[i] = <<0, 0>>}
  <1>2. 0 \in S
    BY <1>1 DEF Digits
  <1>3. ASSUME NEW k \in 0..(n - 1), k \in S PROVE k + 1 \in S
    <2>1. k + 1 \in 1..n /\ (k + 1) - 1 = k /\ n + 1 - (k + 1) \in 1..n
      OBVIOUS
    <2>2. f[k + 1] = DigitStep(dims, strides, n, k + 1, <<0, 0>>)
      BY <1>1, <1>3, <2>1 DEF Digits
    <2>. DEFINE d == dims[n + 1 - (k + 1)]
                s == strides[n + 1 - (k + 1)]
    <2>3. d \in Positive /\ s \in Nat
      BY <2>1
    <2>4. f[k + 1] = <<0 + (0 % d) * s, 0 \div d>>
      BY <2>2 DEF DigitStep
    <2>. HIDE DEF d, s
    <2>5. 0 % d = 0 /\ 0 \div d = 0
      BY <2>3 DEF Positive
    <2>6. 0 + 0 * s = 0
      BY <2>3
    <2>. QED  BY <2>1, <2>4, <2>5, <2>6
  <1>. HIDE DEF S
  <1>4. 0..n \subseteq S
    BY <1>2, <1>3, Induction
  <1>5. f[n] = <<0, 0>>
    BY <1>4 DEF S
  <1>. QED  BY <1>1, <1>5 DEF Digits

\* What is stored at 0 is transposed to 0.
LEMMA FirstTransposed ==
    ASSUME NEW t, IsTranspose(t), NEW stores, NEW s \in stores, s[1] = 0
    PROVE  Transpose(t, stores) # {}
  <1>. DEFINE n == Dimensions(t)
  <1>1. n \in Nat /\ t.to_shape \in [1..n -> Positive] /\ t.N \in Positive
    BY TransposeAxes
  <1>2. t.perm_strides \in [1..n -> Nat]
    BY TransposeSteps DEF Positive
  <1>. HIDE DEF n
  <1>3. Transferred(t, 0) = 0
    BY <1>1, <1>2, DecodeZero DEF Transferred
  <1>4. 0 \in 0..(t.N - 1)
    BY <1>1 DEF Positive
  <1>. DEFINE moved(j) == {<<j, x[2]>> : x \in {x \in stores : x[1] = Transferred(t, j)}}
  <1>5. <<0, s[2]>> \in moved(0)
    BY <1>3
  <1>6. Transpose(t, stores) = UNION {moved(j) : j \in 0..(t.N - 1)}
    BY DEF Transpose
  <1>. HIDE DEF moved
  <1>7. moved(0) \subseteq UNION {moved(j) : j \in 0..(t.N - 1)}
    BY <1>4
  <1>. QED  BY <1>5, <1>6, <1>7

\* A matrix product stores something, at 0 unless the output is fused.
LEMMA ProductsStored ==
    ASSUME NEW c, Generated(c)
    PROVE  \E s \in Products(c, Geom(c)) : FuseOut(c) \/ s[1] = 0
  <1>. DEFINE g == Geom(c)
              tile == Tile(g, 0)
              size == Stored(c, g, tile)
  <1>1. /\ g.Mt \in Positive /\ g.Nt \in Positive /\ g.I = c.n_inplace
        /\ g.Ma = CeilDiv(PadUp(c.n_free0), g.Mt) * g.Mt
        /\ g.Na = CeilDiv(PadUp(c.n_free1), g.Nt) * g.Nt
        /\ g.total_tiles = c.n_inplace * ((g.Ma \div g.Mt) * (g.Na \div g.Nt))
    BY TileSizes
  <1>2. /\ c.n_free0 \in Positive /\ c.n_free1 \in Positive /\ c.n_inplace \in Positive
        /\ g.L0 = c.n_free0 /\ g.L1 = c.n_free1
        /\ g.nN = g.Na \div g.Nt /\ g.tiles_per_batch = (g.Ma \div g.Mt) * (g.Na \div g.Nt)
    BY DEF Generated, Geom
  <1>. DEFINE mt == g.Mt
              nt == g.Nt
              a == CeilDiv(PadUp(c.n_free0), mt)
              b == CeilDiv(PadUp(c.n_free1), nt)
  <1>3. a \in Positive /\ b \in Positive
    <2>1. PadUp(c.n_free0) \in Positive /\ PadUp(c.n_free1) \in Positive
      BY <1>2, Padded
    <2>2. /\ a \in Nat /\ a * mt >= PadUp(c.n_free0)
          /\ b \in Nat /\ b * nt >= PadUp(c.n_free1)
      BY <1>1, <2>1, RoundedUp DEF Positive
    <2>. HIDE DEF a, b, mt, nt
    <2>3. mt \in Nat /\ nt \in Nat /\ PadUp(c.n_free0) > 0 /\ PadUp(c.n_free1) > 0
      BY <1>1, <2>1 DEF Positive, mt, nt
    <2>4. a # 0 /\ b # 0
      BY <2>1, <2>2, <2>3 DEF Positive
    <2>. QED  BY <2>2, <2>4 DEF Positive
  <1>4. g.Ma \div mt = a /\ g.Na \div nt = b
    <2>1. a \in Nat /\ b \in Nat /\ mt \in Positive /\ nt \in Positive
      BY <1>1, <1>3 DEF Positive
    <2>2. g.Ma = a * mt /\ g.Na = b * nt
      BY <1>1
    <2>. HIDE DEF a, b, mt, nt
    <2>. QED  BY <2>1, <2>2, ExactDivision
  <1>5. g.total_tiles = c.n_inplace * (a * b) /\ g.nN = b /\ g.tiles_per_batch = a * b
    BY <1>1, <1>2, <1>4
  <1>. HIDE DEF a, b
  <1>6. a * b \in Positive /\ c.n_inplace * (a * b) \in Positive
    BY <1>2, <1>3 DEF Positive
  <1>7. 0 \in TilesOf(g)
    BY <1>5, <1>6 DEF TilesOf, Positive
  <1>8. tile.i = 0 /\ tile.row0 = 0 /\ tile.col0 = 0
        /\ tile.validM = Least(g.L0 - 0, g.Mt) /\ tile.validN = Least(g.L1 - 0, g.Nt)
    <2>. DEFINE ab == a * b
                rem == 0 % ab
    <2>1. ab \in Positive
      BY <1>6
    <2>. HIDE DEF ab
    <2>2. 0 % ab = 0 /\ 0 \div ab = 0 /\ 0 \div b = 0 /\ 0 % b = 0
      BY <1>3, <2>1 DEF Positive
    <2>3. 0 * g.Mt = 0 /\ 0 * g.Nt = 0
      BY <1>1 DEF Positive
    <2>4. g.tiles_per_batch = ab /\ g.nN = b
      BY <1>5 DEF ab
    <2>. HIDE DEF g
    <2>. QED  BY <2>2, <2>3, <2>4 DEF Tile
  <1>9. size.m \in Positive /\ size.n \in Positive
    BY <1>1, <1>2, <1>8 DEF Stored, Inside, Least, Positive
  <1>10. 0 \in 0..(size.m - 1) /\ 0 \in 0..(size.n - 1) /\ tile \in {Tile(g, t) : t \in TilesOf(g)}
    BY <1>7, <1>9 DEF Positive
  <1>11. \E x : <<AddrC(c, g, tile.i, tile.row0 + 0, tile.col0 + 0), x>> \in Products(c, g)
    <2>. HIDE DEF g
    <2>. DEFINE pairs(i, m, n) == {<<ReadA(c, g, AddrA(c, g, i, m, k)),
                                     ReadB(c, g, AddrB(c, g, i, n, k))>> : k \in 0..(g.K - 1)}
                terms(i, m, n) == {p \in pairs(i, m, n) : p[1] # Zero /\ p[2] # Zero}
                stores(x, y) ==
                    {<<AddrC(c, g, x.i, x.row0 + m, x.col0 + n),
                       terms(x.i, x.row0 + m, x.col0 + n)>> :
                        m \in 0..(y.m - 1), n \in 0..(y.n - 1)}
                tiles == {Tile(g, t) : t \in TilesOf(g)}
    <2>1. Products(c, g) = UNION {stores(x, Stored(c, g, x)) : x \in tiles}
      BY DEF Products
    <2>2. <<AddrC(c, g, tile.i, tile.row0 + 0, tile.col0 + 0),
            terms(tile.i, tile.row0 + 0, tile.col0 + 0)>> \in stores(tile, size)
      <3>. HIDE DEF terms, tile, size
      <3>. QED  BY <1>10
    <2>3. stores(tile, size) \subseteq Products(c, g)
      <3>. HIDE DEF stores, tile
      <3>. QED  BY <1>10, <2>1 DEF size
    <2>4. \A w, x, T : <<w, x>> \in T /\ T \subseteq Products(c, g)
                         => \E y : <<w, y>> \in Products(c, g)
      OBVIOUS
    <2>. HIDE DEF terms, stores, tile, size
    <2>. QED  BY <2>2, <2>3, <2>4
  <1>12. ~FuseOut(c) => AddrC(c, g, tile.i, tile.row0 + 0, tile.col0 + 0) = 0
    <2>1. 0 * g.L0 * g.L1 + (0 + 0) * g.L1 + (0 + 0) = 0
      BY <1>2 DEF Positive
    <2>. HIDE DEF g, tile
    <2>. QED  BY <1>8, <2>1 DEF AddrC
  <1>. HIDE DEF g, tile
  <1>. QED  BY <1>11, <1>12 DEF g

\* So a matrix product leaves something, on either device.
LEMMA MatmulLeaves ==
    ASSUME NEW c, Generated(c), IsTranspose(c.tposeOut)
    PROVE  EinsumCpu(c) # {} /\ \A z \in BOOLEAN : EinsumNpu(c, z) # {}
  <1>1. EinsumCpu(c) # {}
    <2>. DEFINE terms(i, l0, l1) ==
                    {<<Transferred(c.tpose0, (i * c.n_free0 + l0) * c.n_contract + k),
                       Transferred(c.tpose1, i * c.n_free1 * c.n_contract + k * c.n_free1 + l1)>> :
                        k \in 0..(c.n_contract - 1)}
                stores == {<<(i * c.n_free0 + l0) * c.n_free1 + l1, terms(i, l0, l1)>> :
                              i \in 0..(c.n_inplace - 1), l0 \in 0..(c.n_free0 - 1),
                              l1 \in 0..(c.n_free1 - 1)}
    <2>1. 0 \in 0..(c.n_inplace - 1) /\ 0 \in 0..(c.n_free0 - 1) /\ 0 \in 0..(c.n_free1 - 1)
          /\ (0 * c.n_free0 + 0) * c.n_free1 + 0 = 0
      BY DEF Generated, Positive
    <2>2. <<(0 * c.n_free0 + 0) * c.n_free1 + 0, terms(0, 0, 0)>> \in stores
      <3>. HIDE DEF terms
      <3>. QED  BY <2>1
    <2>3. EinsumCpu(c) = Transpose(c.tposeOut, stores)
      BY DEF EinsumCpu
    <2>. DEFINE first == <<(0 * c.n_free0 + 0) * c.n_free1 + 0, terms(0, 0, 0)>>
    <2>4. first \in stores /\ first[1] = 0
      <3>. HIDE DEF terms, stores
      <3>. QED  BY <2>1, <2>2
    <2>. HIDE DEF stores, first
    <2>. QED  BY <2>3, <2>4, FirstTransposed
  <1>2. ASSUME NEW z \in BOOLEAN PROVE EinsumNpu(c, z) # {}
    <2>. DEFINE stores == Products(c, Geom(c))
    <2>1. PICK s \in stores : FuseOut(c) \/ s[1] = 0
      BY ProductsStored
    <2>. HIDE DEF stores
    <2>2. CASE Atomic(c, Geom(c)) /\ ~z
      BY <2>1, <2>2 DEF EinsumNpu, stores
    <2>3. CASE ~(Atomic(c, Geom(c)) /\ ~z) /\ (OutIdentity(c) \/ FuseOut(c))
      BY <2>1, <2>3 DEF EinsumNpu, stores
    <2>4. CASE ~(Atomic(c, Geom(c)) /\ ~z) /\ ~(OutIdentity(c) \/ FuseOut(c))
      <3>1. EinsumNpu(c, z) = Transpose(c.tposeOut, stores)
        BY <2>4 DEF EinsumNpu, stores
      <3>. QED  BY <2>1, <2>4, <3>1, FirstTransposed
    <2>. QED  BY <2>2, <2>3, <2>4
  <1>. QED  BY <1>1, <1>2

\* A product without contraction leaves something too.
LEMMA ProductLeaves ==
    ASSUME NEW stores, NEW n \in Positive, NEW val,
           Image(stores) = {<<a, val[a]>> : a \in 0..(n - 1)}
    PROVE  stores # {}
  <1>1. 0 \in 0..(n - 1)
    BY DEF Positive
  <1>2. <<0, val[0]>> \in Image(stores)
    BY <1>1
  <1>. QED  BY <1>2 DEF Image

\* What run() returns is never empty.
LEMMA RunReturns ==
    ASSUME IInv, pc = "built"
    PROVE  ForCaller(swapped, RunEinsum(library, config, splitk)) # {}
  <1>1. Parsed /\ Written /\ Checks /\ splitk \in BOOLEAN /\ problem \in Problems
    BY DEF IInv, Later
  <1>2. Sized(Run0)
    BY <1>1, ExecSized
  <1>3. /\ recipe.elementwise \in BOOLEAN /\ recipe.broadcast \in BOOLEAN
        /\ recipe.n_elem = Product(OutShape(Run0))
    BY <1>1, RecipeFields DEF Parsed
  <1>4. RunEinsum(library, config, splitk) # {}
    <2>1. CASE recipe.elementwise
      <3>1. library.kind = "elementwise" /\ config = [N |-> recipe.n_elem]
        BY <1>1, <2>1 DEF Written, Template
      <3>2. config.N \in Positive /\ config.N \in Nat
        BY <1>2, <1>3, <3>1, SizesPositive DEF Positive
      <3>3. ElementwiseCpu(config.N) # {}
        <4>1. 0 \in 0..(config.N - 1)
          BY <3>2 DEF Positive
        <4>. QED  BY <4>1 DEF ElementwiseCpu
      <3>4. Results(elementwise_mul(config.N)) # {}
        <4>. DEFINE S == elementwise_mul(config.N)
                    val == [x \in Nat |-> <<x, x>>]
        <4>1. Image(S) = {<<x, <<x, x>>>> : x \in 0..(config.N - 1)}
          BY <3>2, ElementwiseRight
        <4>2. Image(S) = {<<a, val[a]>> : a \in 0..(config.N - 1)}
          BY <3>2, <4>1
        <4>. HIDE DEF S, val
        <4>3. S # {}
          BY <3>2, <4>2, ProductLeaves
        <4>. QED  BY <4>3 DEF Results, S
      <3>. QED  BY <3>1, <3>3, <3>4 DEF RunEinsum
    <2>2. CASE ~recipe.elementwise /\ recipe.broadcast
      <3>1. library.kind = "broadcast" /\ config = BroadcastConfig(recipe)
        BY <1>1, <2>2 DEF Written, Template
      <3>2. recipe = BroadcastRecipe(Run0)
        BY <1>1, <2>2, RecipeFields, MatmulFields, ElementwiseFields DEF Parsed, ParseRecipe
      <3>3. {config.Cc, config.Rr, config.Inner, config.Outer} \subseteq Positive
        BY <1>2, <3>1, <3>2, BroadcastSizes
      <3>4. /\ config.Cc \in Positive /\ config.Rr \in Positive
            /\ config.Inner \in Positive /\ config.Outer \in Nat
            /\ config.Outer * config.Rr * config.Cc \in Positive
            /\ config.Outer * config.Inner \in Positive
        BY <3>3 DEF Positive
      <3>5. bcast_col(config) # {}
        BY <3>4, BroadcastColumnsRight, ProductLeaves
      <3>6. bcast_scalar(config) # {}
        BY <3>4, BroadcastScalarsRight, ProductLeaves
      <3>7. broadcast_mul(config) # {}
        BY <3>5, <3>6 DEF broadcast_mul
      <3>8. BroadcastResult(config) # {}
        <4>. DEFINE turned == {<<s[1], s[2], <<s[3][2], s[3][1]>>>> : s \in broadcast_mul(config)}
        <4>1. turned # {}
          BY <3>7
        <4>2. \A S : S # {} => Results(S) # {}
          BY DEF Results
        <4>. QED  BY <3>7, <4>1, <4>2 DEF BroadcastResult
      <3>. QED  BY <3>1, <3>8 DEF RunEinsum
    <2>3. CASE ~recipe.elementwise /\ ~recipe.broadcast
      <3>1. library.kind = "einsum" /\ MatmulLibrary
        BY <1>1, <2>3 DEF Written, Template, MatmulLibrary
      <3>2. Generated(config) /\ config = EinsumConfig(Run0, MatmulRecipe(Run0, problem), problem)
        BY <3>1, MatmulGenerated, MatmulWritten
      <3>3. IsTranspose(config.tposeOut)
        BY <1>2, <3>2, MatmulTurns
      <3>4. EinsumCpu(config) # {} /\ EinsumNpu(config, splitk) # {}
        BY <1>1, <3>2, <3>3, MatmulLeaves
      <3>. QED  BY <3>1, <3>4 DEF RunEinsum
    <2>. QED  BY <1>3, <2>1, <2>2, <2>3
  <1>. QED  BY <1>4 DEF ForCaller

\* A run that is over has left a result.
Returned == pc = "done" => output # {}

(***************************************************************************)
(* The fields of a build keep their types: shape and size of the recipe    *)
(* are the caller's, whether or not operands were swapped, and there is a  *)
(* result when run() has returned, and only then.                          *)
(***************************************************************************)
THEOREM TypeCorrect == Spec => []TypeOK
  <1>1. Init => Returned
    BY DEF Init, Returned
  <1>2. IInv /\ Returned /\ [Next]_vars => Returned'
    <2>. SUFFICES ASSUME IInv, Returned, [Next]_vars PROVE Returned'
      OBVIOUS
    <2>1. CASE Run
      <3>1. ForCaller(swapped, RunEinsum(library, config, splitk)) # {}
        BY <2>1, RunReturns DEF Run
      <3>. QED  BY <2>1, <3>1 DEF Run, Returned
    <2>2. CASE ~Run
      BY <2>2 DEF Next, ValidateFails, ParseEquation, GenerateCode, GenerateFails, Compile,
                  LoadLibrary, Returned, vars
    <2>. QED  BY <2>1, <2>2
  <1>3. IInv /\ Returned => TypeOK
    <2>. SUFFICES ASSUME IInv, Returned PROVE TypeOK
      OBVIOUS
    <2>1. recipe # None => /\ OutShape(Equation(problem)) = recipe.out_shape
                           /\ recipe.n_elem = Product(recipe.out_shape)
      <3>. SUFFICES ASSUME Parsed PROVE /\ OutShape(Equation(problem)) = recipe.out_shape
                                        /\ recipe.n_elem = Product(recipe.out_shape)
        BY DEF IInv
      <3>1. recipe.out_shape = OutShape(Run0) /\ recipe.n_elem = Product(OutShape(Run0))
        BY RecipeFields DEF Parsed
      <3>. QED  BY <3>1, ShapeOfResult
    <2>2. library = None \/ library \in [backend : {"npu", "cpu"},
                                         kind : {"elementwise", "broadcast", "einsum"}]
      <3>1. problem.device \in {"npu", "cpu"}
        BY RecipeAssumption DEF IInv
      <3>. QED  BY <3>1 DEF IInv, Written, Template
    <2>. QED  BY <2>1, <2>2 DEF IInv, Returned, TypeOK, Phases
  <1>. QED  BY <1>1, <1>2, <1>3, Invariance, PTL DEF Spec
-----------------------------------------------------------------------------
(* What the transposes leave is what is read *)

\* What the matrix product expects of rows of W elements a stride apart: element j at
\* its place, nothing elsewhere.
Expected(ws, size, W, stride, src, N) ==
    \A w \in 0..(size - 1) :
        LET j == (w \div stride) * W + (w % stride)
        IN  ws[w] = IF w % stride < W /\ j < N THEN src[j] ELSE Zero

\* What a set of stores leaves is a workspace of that size.
Fills(S, ws, size) ==
    /\ StoredOnce(S)
    /\ Image(S) = {<<w, ws[w]>> : w \in {w \in 0..(size - 1) : ws[w] # Zero}}

\* Rows that are laid a stride apart leave what is expected, and no pad is written.
LEMMA RowsFill ==
    ASSUME NEW W \in Positive, NEW stride \in Nat, W <= stride, NEW rows \in Nat,
           NEW size \in Nat, rows * stride <= size, NEW N, N = rows * W,
           NEW src, \A j \in Nat : src[j] # Zero,
           NEW ws, Expected(ws, size, W, stride, src, N),
           NEW S, LaysRows(S, Evenly(stride), W, src, N)
    PROVE  Fills(S, ws, size)
  <1>. DEFINE place(j) == RowPlace(Evenly(stride), W, j)
              elem(w) == (w \div stride) * W + (w % stride)
              T == {<<w, ws[w]>> : w \in {w \in 0..(size - 1) : ws[w] # Zero}}
  <1>1. W \in Nat /\ stride \in Positive /\ N \in Nat
    <2>1. W \in Nat /\ stride \in Positive
      BY DEF Positive
    <2>2. rows * W \in Nat
      BY <2>1
    <2>. QED  BY <2>1, <2>2
  <1>2. ASSUME NEW j \in 0..(N - 1)
        PROVE  /\ j \in Nat /\ place(j) \in 0..(size - 1)
               /\ place(j) % stride < W /\ elem(place(j)) = j
    <2>. DEFINE q == j \div W
                r == j % W
                p == q * stride + r
    <2>1. q \in 0..(rows - 1) /\ r \in 0..(W - 1) /\ j = q * W + r
      BY RowOfElement
    <2>2. j \in Nat /\ q \in Nat /\ r \in Nat
      BY <1>1, <2>1
    <2>3. place(j) = p
      BY <2>2, EvenPlaces
    <2>4. r \in 0..(stride - 1)
      BY <1>1, <2>1
    <2>. HIDE DEF q, r
    <2>5. p \in Nat /\ p \div stride = q /\ p % stride = r /\ p \in 0..(rows * stride - 1)
      BY <1>1, <2>1, <2>4, ElementOfRow
    <2>6. rows * stride \in Nat
      OBVIOUS
    <2>. DEFINE full == rows * stride
    <2>7. p \in 0..(size - 1)
      <3>1. p \in 0..(full - 1) /\ full <= size /\ full \in Nat
        BY <2>5, <2>6
      <3>. HIDE DEF p, full
      <3>. QED  BY <3>1
    <2>8. elem(p) = j
      BY <2>1, <2>5
    <2>9. p % stride < W
      BY <1>1, <2>1, <2>5
    <2>. HIDE DEF p, place, elem
    <2>. QED  BY <2>2, <2>3, <2>7, <2>8, <2>9
  <1>3. ASSUME NEW w \in 0..(size - 1), w % stride < W
        PROVE  place(elem(w)) = w /\ elem(w) \in Nat
    <2>. DEFINE q == w \div stride
                r == w % stride
                j == q * W + r
    <2>1. w \in Nat /\ q \in Nat /\ r \in Nat /\ w = q * stride + r
      <3>1. w \in Nat
        OBVIOUS
      <3>2. q \in Nat /\ r \in 0..(stride - 1)
        BY <1>1, <3>1, Quotient
      <3>3. w = q * stride + r
        BY <1>1, <3>1, Division
      <3>4. r \in Nat
        BY <3>2
      <3>. HIDE DEF q, r
      <3>. QED  BY <3>1, <3>2, <3>3, <3>4
    <2>2. r \in 0..(W - 1)
      BY <1>1, <1>3, <2>1
    <2>. HIDE DEF q, r
    <2>3. j \in Nat
      <3>1. q * W \in Nat
        BY <1>1, <2>1
      <3>. QED  BY <2>1, <3>1
    <2>4. j \div W = q /\ j % W = r
      <3>1. j = q * W + r
        OBVIOUS
      <3>. HIDE DEF j
      <3>. QED  BY <2>1, <2>2, <2>3, <3>1, DivisionUnique
    <2>. HIDE DEF j
    <2>5. place(j) = w
      <3>1. place(j) = (j \div W) * stride + (j % W)
        BY <2>3, EvenPlaces
      <3>. QED  BY <2>1, <2>4, <3>1
    <2>6. elem(w) = j
      BY DEF j, q, r
    <2>. HIDE DEF place, elem
    <2>. QED  BY <2>3, <2>5, <2>6
  <1>. HIDE DEF place, elem
  <1>4. \A w \in 0..(size - 1) :
            ws[w] = IF w % stride < W /\ elem(w) < N THEN src[elem(w)] ELSE Zero
    BY DEF Expected, elem
  <1>5. ASSUME NEW j \in 0..(N - 1) PROVE <<place(j), src[j]>> \in T
    <2>. DEFINE w == place(j)
    <2>1. w \in 0..(size - 1) /\ w % stride < W /\ elem(w) = j /\ j \in Nat /\ j < N
      BY <1>1, <1>2
    <2>. HIDE DEF w
    <2>2. ws[w] = src[j] /\ src[j] # Zero
      BY <1>4, <2>1
    <2>3. <<w, ws[w]>> \in T
      BY <2>1, <2>2
    <2>. QED  BY <2>2, <2>3 DEF w
  <1>6. ASSUME NEW w \in 0..(size - 1), ws[w] # Zero
        PROVE  \E j \in 0..(N - 1) : <<w, ws[w]>> = <<place(j), src[j]>>
    <2>1. w % stride < W /\ elem(w) < N /\ ws[w] = src[elem(w)]
      BY <1>4, <1>6
    <2>2. place(elem(w)) = w /\ elem(w) \in 0..(N - 1)
      BY <1>1, <1>3, <2>1
    <2>. QED  BY <2>1, <2>2
  <1>7. StoredOnce(S) /\ Image(S) = {<<place(j), src[j]>> : j \in 0..(N - 1)}
    BY DEF LaysRows, place
  <1>8. Image(S) = T
    BY <1>5, <1>6, <1>7
  <1>. QED  BY <1>7, <1>8 DEF Fills

\* The sizes of what is padded and of what it is padded to.
LEMMA PaddedSizes ==
    ASSUME NEW c, Generated(c), NEW splitK, StaticAsserts(c, splitK)
    PROVE  LET g == Geom(c)
           IN  /\ g.L0 = c.n_free0 /\ g.L0 \in Positive /\ g.L1 = c.n_free1 /\ g.L1 \in Positive
               /\ g.C = c.n_contract /\ g.C \in Positive /\ g.I = c.n_inplace /\ g.I \in Positive
               /\ g.K \in Positive /\ g.C <= g.K
               /\ g.Arows \in Nat /\ g.L0 <= g.Arows
               /\ g.B_PADDED => g.Na \in Nat /\ g.L1 <= g.Na /\ g.Bcols = g.Na
               /\ ~g.B_PADDED => g.Bcols = g.L1
               /\ RowPadded(g) => ~g.B_PADDED
  <1>. DEFINE g == Geom(c)
              L0 == c.n_free0
              L1 == c.n_free1
              C == c.n_contract
  <1>1. L0 \in Positive /\ L1 \in Positive /\ C \in Positive /\ c.n_inplace \in Positive
    BY DEF Generated
  <1>2. /\ g.L0 = L0 /\ g.L1 = L1 /\ g.C = C /\ g.I = c.n_inplace
        /\ g.Arows = IF g.A_PADDED THEN g.Ma ELSE L0
        /\ g.Bcols = IF g.B_PADDED THEN g.Na ELSE L1
    BY DEF Geom
  <1>3. /\ g.A_PADDED = (g.Ma > PadUp(L0)) /\ g.B_PADDED = (g.Na > PadUp(L1))
        /\ g.K = PadUp(C)
    BY TileSizes
  <1>4. g.Arows \in Nat /\ g.Bcols \in Nat
    BY MatrixSizes
  <1>5. g.I = 1 \/ (~g.A_PADDED /\ ~g.B_PADDED)
    BY DEF StaticAsserts
  <1>. HIDE DEF g, L0, L1, C
  <1>6. /\ PadUp(L0) \in Nat /\ L0 <= PadUp(L0) /\ PadUp(L1) \in Nat /\ L1 <= PadUp(L1)
        /\ PadUp(C) \in Positive /\ C <= PadUp(C)
    BY <1>1, Padded DEF Positive
  <1>7. L0 <= g.Arows
    <2>1. CASE g.A_PADDED
      <3>1. g.Ma > PadUp(L0)
        BY <1>3, <2>1
      <3>2. g.Arows = g.Ma
        BY <1>2, <2>1
      <3>. QED  BY <1>1, <1>4, <1>6, <3>1, <3>2 DEF Positive
    <2>2. CASE ~g.A_PADDED
      BY <1>1, <1>2, <2>2 DEF Positive
    <2>. QED  BY <2>1, <2>2
  <1>8. g.B_PADDED => g.Na \in Nat /\ L1 <= g.Na /\ g.Bcols = g.Na
    <2>. HAVE g.B_PADDED
    <2>1. g.Na > PadUp(L1)
      BY <1>3
    <2>. QED  BY <1>1, <1>2, <1>4, <1>6, <2>1 DEF Positive
  <1>9. ~g.B_PADDED => g.Bcols = L1
    BY <1>2
  <1>10. RowPadded(g) => ~g.B_PADDED
    <2>. HAVE RowPadded(g)
    <2>1. g.I > 1
      BY DEF RowPadded
    <2>. QED  BY <1>5, <2>1
  <1>. QED  BY <1>1, <1>2, <1>3, <1>4, <1>6, <1>7, <1>8, <1>9, <1>10 DEF g, L0, L1, C

\* Phase A of operand 0: ws0 holds its rows of the contraction, padded to K.
LEMMA FirstLaid ==
    ASSUME NEW c, Generated(c), NEW splitK, StaticAsserts(c, splitK),
           IsTranspose(c.tpose0), c.tpose0.N = (c.n_inplace * c.n_free0) * c.n_contract,
           NEW g, g = Geom(c), TransposeAsserts(c, g), Regular(c, g), ~RD0(c, g)
    PROVE  Laid0(c, g)
  <1>. DEFINE t == c.tpose0
              S == StoresInp0(c, g)
              C == g.C
              K == g.K
              rows == g.I * g.L0
              size == (g.I * g.Arows) * K
              ws == [w \in Nat |-> Ws0(c, g, w)]
              src == Sources(t)
              N == t.N
  <1>1. /\ C \in Positive /\ K \in Nat /\ C <= K /\ g.I \in Nat /\ g.L0 \in Nat
        /\ g.Arows \in Nat /\ g.L0 <= g.Arows
        /\ g.C = c.n_contract /\ g.I = c.n_inplace /\ g.L0 = c.n_free0
    BY PaddedSizes DEF Positive
  <1>2. S = transpose_inline(t, c.ds, C, K)
    BY DEF StoresInp0
  <1>3. InlineAsserts(t, C, K)
    BY DEF TransposeAsserts
  <1>4. PadsRows(t, C, K)
    <2>1. IsIdentity(t.perm) \/ PadsOneAxis0(c, g)
      BY DEF Regular
    <2>. QED  BY <2>1 DEF PadsRows, PadsOneAxis0, Innermost
  <1>5. \A w \in Nat : ws[w] = Ws0(c, g, w)
    OBVIOUS
  <1>6. \A j \in Nat : src[j] = Transferred(t, j) /\ src[j] # Zero
    BY SourcesNat
  <1>7. N = rows * C
    BY <1>1
  <1>8. SizeA(c, g) = size
    BY DEF SizeA
  <1>9. rows \in Nat /\ size \in Nat /\ rows * K <= size
    <2>. DEFINE I == g.I
                L == g.L0
                M == g.Arows
    <2>1. I \in Nat /\ L \in Nat /\ M \in Nat /\ L <= M /\ K \in Nat
      BY <1>1
    <2>. HIDE DEF I, L, M, K
    <2>2. I * L \in Nat /\ I * M \in Nat /\ I * L <= I * M
      BY <2>1, Monotone
    <2>3. (I * L) * K <= (I * M) * K /\ (I * M) * K \in Nat
      BY <2>1, <2>2, Monotone
    <2>. QED  BY <2>2, <2>3 DEF I, L, M
  <1>10. Expected(ws, size, C, K, src, N)
    <2>. SUFFICES ASSUME NEW w \in 0..(size - 1)
                  PROVE  LET j == (w \div K) * C + (w % K)
                         IN  ws[w] = IF w % K < C /\ j < N THEN src[j] ELSE Zero
      BY DEF Expected
    <2>. DEFINE j == (w \div K) * C + (w % K)
    <2>1. w \in Nat
      OBVIOUS
    <2>2. Ws0(c, g, w) = IF w % K < C /\ j < N THEN Transferred(t, j) ELSE Zero
      BY DEF Ws0
    <2>3. w % K < C => j \in Nat
      <3>1. K \in Positive /\ C \in Nat
        BY <1>1 DEF Positive
      <3>2. w \div K \in Nat /\ w % K \in Nat
        BY <2>1, <3>1, Quotient
      <3>. DEFINE q == w \div K
                  r == w % K
      <3>. HIDE DEF q, r, C
      <3>3. q * C + r \in Nat
        BY <3>1, <3>2 DEF q, r
      <3>. QED  BY <3>3 DEF q, r, C
    <2>. HIDE DEF j, src
    <2>. QED  BY <1>5, <1>6, <2>1, <2>2, <2>3 DEF j
  <1>. HIDE DEF t, S, C, K, rows, size, ws, src, N
  <1>11. LaysRows(S, Evenly(K), C, src, N)
    BY <1>1, <1>2, <1>3, <1>4, <1>7, <1>9, InlinePads DEF t, src, N
  <1>12. Fills(S, ws, size)
    BY <1>1, <1>6, <1>7, <1>9, <1>10, <1>11, RowsFill
  <1>13. Image(S) = Workspace(LAMBDA w : Ws0(c, g, w), size)
    <2>1. \A w \in 0..(size - 1) : ws[w] = Ws0(c, g, w)
      BY <1>5
    <2>. QED  BY <1>12, <2>1 DEF Fills, Workspace
  <1>. QED  BY <1>8, <1>12, <1>13 DEF Laid0, Fills, S

\* Batches of rows that follow one another are rows of their own, as wide as a batch.
LEMMA BatchesWide ==
    ASSUME NEW W \in Positive, NEW A \in Positive, NEW block \in Nat, NEW src, NEW N \in Nat,
           NEW S, LaysRows(S, InBatches(A, block, W), W, src, N)
    PROVE  LaysRows(S, Evenly(block), A * W, src, N)
  <1>. DEFINE AW == A * W
  <1>1. AW \in Positive /\ W \in Nat /\ A \in Nat
    BY DEF Positive
  <1>2. ASSUME NEW j \in 0..(N - 1)
        PROVE  RowPlace(InBatches(A, block, W), W, j) = RowPlace(Evenly(block), AW, j)
    <2>. DEFINE q == j \div W
                r == j % W
                a == q \div A
                b == q % A
                x == b * W + r
    <2>1. j \in Nat
      OBVIOUS
    <2>2. q \in Nat /\ r \in 0..(W - 1) /\ j = q * W + r
      BY <2>1, Quotient, Division
    <2>3. a \in Nat /\ b \in 0..(A - 1) /\ q = a * A + b
      <3>. HIDE DEF q
      <3>. QED  BY <2>2, Quotient, Division
    <2>4. RowPlace(InBatches(A, block, W), W, j) = (a * block + b * W) + r
      BY <2>2 DEF RowPlace, InBatches
    <2>. HIDE DEF q, r, a, b
    <2>5. x \in 0..(AW - 1)
      BY <1>1, <2>2, <2>3, ElementOfRow
    <2>6. j = a * AW + x
      BY <1>1, <2>2, <2>3
    <2>7. j \div AW = a /\ j % AW = x
      <3>. HIDE DEF AW, x
      <3>. QED  BY <1>1, <2>1, <2>3, <2>5, <2>6, DivisionUnique
    <2>8. RowPlace(Evenly(block), AW, j) = a * block + x
      <3>. HIDE DEF AW, x
      <3>1. RowPlace(Evenly(block), AW, j) = (j \div AW) * block + (j % AW)
        BY <1>1, <2>1, EvenPlaces
      <3>. QED  BY <2>7, <3>1
    <2>9. (a * block + b * W) + r = a * block + x
      <3>. DEFINE u == a * block
                  v == b * W
      <3>1. u \in Nat /\ v \in Nat /\ r \in Nat
        BY <1>1, <2>2, <2>3
      <3>2. x = v + r
        OBVIOUS
      <3>. HIDE DEF u, v, x
      <3>3. (u + v) + r = u + x
        BY <3>1, <3>2
      <3>. QED  BY <3>3 DEF u, v
    <2>. QED  BY <2>4, <2>8, <2>9
  <1>. HIDE DEF AW
  <1>3. LaysRows(S, Evenly(block), AW, src, N)
    BY <1>2, SameRows
  <1>. QED  BY <1>3 DEF AW

\* Phase A of operand 1 with padded rows: each batch of ws1 begins in a slot of its own.
LEMMA SlotsLaid ==
    ASSUME NEW c, Generated(c), NEW splitK, StaticAsserts(c, splitK),
           IsTranspose(c.tpose1), c.tpose1.N = (c.n_inplace * c.n_contract) * c.n_free1,
           NEW g, g = Geom(c), TransposeAsserts(c, g), Regular(c, g), ~RD1(c, g), RowPadded(g)
    PROVE  Laid1(c, g)
  <1>. DEFINE t == c.tpose1
              S == StoresInp1(c, g)
              C == g.C
              K == g.K
              L == g.L1
              I == g.I
              slot == K * L
              W == C * L
              size == (I * K) * L
              ws == [w \in Nat |-> Ws1(c, g, w)]
              src == Sources(t)
              N == t.N
  <1>1. /\ C \in Positive /\ K \in Nat /\ C <= K /\ I \in Nat /\ L \in Positive /\ L \in Nat
        /\ C \in Nat /\ C = c.n_contract /\ I = c.n_inplace /\ L = c.n_free1 /\ g.Bcols = L
    BY PaddedSizes DEF Positive
  <1>2. /\ S = IF IsIdentity(t.perm) THEN batched_pad_copy(I, C, L, slot)
               ELSE transpose_inline_rowpad(t, c.ds, C, K, L)
    BY DEF StoresInp1
  <1>3. IsIdentity(t.perm) \/ RowpadAsserts(t)
    BY DEF TransposeAsserts
  <1>4. IsIdentity(t.perm) \/ /\ t.to_shape[Dimensions(t)] = L
                              /\ t.to_shape[Dimensions(t) - 1] = C
    BY DEF Regular, PadsOneAxis1, Innermost
  <1>5. \A w \in Nat : ws[w] = Ws1(c, g, w)
    OBVIOUS
  <1>6. \A j \in Nat : src[j] = Transferred(t, j) /\ src[j] # Zero
    BY SourcesNat
  <1>7. N = (I * C) * L
    BY <1>1
  <1>8. SizeB(c, g) = size
    BY <1>1 DEF SizeB
  <1>9. \A w \in Nat : Ws1(c, g, w)
            = IF w % slot < W /\ (w \div slot) * C * L + (w % slot) < N
              THEN Transferred(t, (w \div slot) * C * L + (w % slot)) ELSE Zero
    BY DEF Ws1
  <1>. HIDE DEF t, S, C, K, L, I, src, N, ws
  <1>10. slot \in Nat /\ W <= slot /\ W \in Positive
    <2>1. C * L <= K * L /\ K * L \in Nat
      BY <1>1, Monotone
    <2>2. C * L \in Positive
      BY <1>1 DEF Positive
    <2>. QED  BY <2>1, <2>2
  <1>11. N = I * W /\ I * slot = size /\ size \in Nat /\ N \in Nat
    <2>1. I * W = (I * C) * L /\ I * slot = (I * K) * L
      BY <1>1
    <2>2. I * slot \in Nat
      BY <1>1, <1>10
    <2>3. I * W \in Nat
      BY <1>1
    <2>. QED  BY <1>7, <2>1, <2>2, <2>3
  <1>. HIDE DEF slot, size
  <1>12. LaysRows(S, InBatches(C, slot, L), L, src, N)
    <2>1. CASE IsIdentity(t.perm)
      <3>1. LaysRows(batched_pad_copy(I, C, L, slot), InBatches(C, slot, L), L, Sources(t), t.N)
        BY <1>1, <1>7, <1>10, <2>1, BatchedPadCopyRight DEF t, N
      <3>. QED  BY <1>2, <2>1, <3>1 DEF src, N
    <2>2. CASE ~IsIdentity(t.perm)
      <3>1. /\ RowpadAsserts(t) /\ t.to_shape[Dimensions(t)] = L
            /\ t.to_shape[Dimensions(t) - 1] = C
        BY <1>3, <1>4, <2>2
      <3>2. IsTranspose(t)
        BY DEF t
      <3>3. LaysRows(transpose_inline_rowpad(t, c.ds, C, K, L), InBatches(C, K * L, L), L,
                     Sources(t), t.N)
        BY <1>1, <3>1, <3>2, RowpadRight
      <3>. QED  BY <1>2, <2>2, <3>3 DEF src, N, slot
    <2>. QED  BY <2>1, <2>2
  <1>13. LaysRows(S, Evenly(slot), W, src, N)
    BY <1>1, <1>10, <1>11, <1>12, BatchesWide
  <1>14. Expected(ws, size, W, slot, src, N)
    <2>. SUFFICES ASSUME NEW w \in 0..(size - 1)
                  PROVE  LET j == (w \div slot) * W + (w % slot)
                         IN  ws[w] = IF w % slot < W /\ j < N THEN src[j] ELSE Zero
      BY DEF Expected
    <2>. DEFINE q == w \div slot
                r == w % slot
                j == q * W + r
                k == q * C * L + r
    <2>1. w \in Nat /\ slot \in Positive
      <3>1. slot # 0
        BY <1>1, <1>10 DEF Positive
      <3>. QED  BY <1>10, <3>1 DEF Positive
    <2>2. q \in Nat /\ r \in Nat
      <3>1. q \in Nat /\ r \in 0..(slot - 1)
        BY <2>1, Quotient
      <3>. QED  BY <3>1
    <2>3. ws[w] = IF r < W /\ k < N THEN Transferred(t, k) ELSE Zero
      BY <1>5, <1>9, <2>1
    <2>. HIDE DEF q, r
    <2>4. k = j /\ j \in Nat
      BY <1>1, <2>2
    <2>. HIDE DEF j, k
    <2>5. ws[w] = IF r < W /\ j < N THEN src[j] ELSE Zero
      BY <1>6, <2>3, <2>4
    <2>. QED  BY <2>5 DEF q, r, j
  <1>15. Fills(S, ws, size)
    <2>1. \A j \in Nat : src[j] # Zero
      BY <1>6
    <2>. HIDE DEF W
    <2>. QED  BY <1>1, <1>10, <1>11, <1>13, <1>14, <2>1, RowsFill
  <1>16. Image(S) = Workspace(LAMBDA w : Ws1(c, g, w), size)
    <2>1. \A w \in 0..(size - 1) : ws[w] = Ws1(c, g, w)
      BY <1>5
    <2>. QED  BY <1>15, <2>1 DEF Fills, Workspace
  <1>. QED  BY <1>8, <1>15, <1>16 DEF Laid1, Fills, S

\* Phase A of operand 1 with a partial tile: its rows, Na apart.
LEMMA ColumnsLaid ==
    ASSUME NEW c, Generated(c), NEW splitK, StaticAsserts(c, splitK),
           IsTranspose(c.tpose1), c.tpose1.N = (c.n_inplace * c.n_contract) * c.n_free1,
           NEW g, g = Geom(c), TransposeAsserts(c, g), Regular(c, g), ~RD1(c, g),
           ~RowPadded(g), g.B_PADDED
    PROVE  Laid1(c, g)
  <1>. DEFINE t == c.tpose1
              S == StoresInp1(c, g)
              C == g.C
              K == g.K
              L == g.L1
              I == g.I
              M == g.Na
              rows == I * C
              size == (I * K) * M
              ws == [w \in Nat |-> Ws1(c, g, w)]
              src == Sources(t)
              N == t.N
  <1>1. /\ C \in Nat /\ K \in Nat /\ C <= K /\ I \in Nat /\ L \in Positive
        /\ M \in Nat /\ L <= M /\ C = c.n_contract /\ I = c.n_inplace /\ L = c.n_free1
        /\ g.Bcols = M
    BY PaddedSizes DEF Positive
  <1>2. S = transpose_inline(t, c.ds, L, M)
    BY DEF StoresInp1
  <1>3. InlineAsserts(t, L, M)
    BY DEF TransposeAsserts
  <1>4. PadsRows(t, L, M)
    BY DEF Regular, PadsRows, PadsOneAxis1, Innermost
  <1>5. \A w \in Nat : ws[w] = Ws1(c, g, w)
    OBVIOUS
  <1>6. \A j \in Nat : src[j] = Transferred(t, j) /\ src[j] # Zero
    BY SourcesNat
  <1>7. N = rows * L
    BY <1>1
  <1>8. SizeB(c, g) = size
    BY <1>1 DEF SizeB
  <1>9. \A w \in Nat : Ws1(c, g, w)
            = IF w % M < L /\ (w \div M) * L + (w % M) < N
              THEN Transferred(t, (w \div M) * L + (w % M)) ELSE Zero
    BY DEF Ws1
  <1>. HIDE DEF t, S, C, K, L, I, M, src, N, ws
  <1>10. rows \in Nat /\ size \in Nat /\ rows * M <= size
    <2>1. I * C \in Nat /\ I * K \in Nat /\ I * C <= I * K
      BY <1>1, Monotone
    <2>2. (I * C) * M <= (I * K) * M /\ (I * K) * M \in Nat
      BY <1>1, <2>1, Monotone
    <2>. QED  BY <2>1, <2>2
  <1>. HIDE DEF rows, size
  <1>11. LaysRows(S, Evenly(M), L, src, N)
    BY <1>1, <1>2, <1>3, <1>4, <1>7, <1>10, InlinePads DEF t, src, N
  <1>12. Expected(ws, size, L, M, src, N)
    <2>. SUFFICES ASSUME NEW w \in 0..(size - 1)
                  PROVE  LET j == (w \div M) * L + (w % M)
                         IN  ws[w] = IF w % M < L /\ j < N THEN src[j] ELSE Zero
      BY DEF Expected
    <2>. DEFINE q == w \div M
                r == w % M
                j == q * L + r
    <2>1. w \in Nat /\ M \in Positive /\ L \in Nat
      BY <1>1 DEF Positive
    <2>2. q \in Nat /\ r \in Nat
      <3>1. q \in Nat /\ r \in 0..(M - 1)
        BY <2>1, Quotient
      <3>. QED  BY <3>1
    <2>3. ws[w] = IF r < L /\ j < N THEN Transferred(t, j) ELSE Zero
      BY <1>5, <1>9, <2>1
    <2>. HIDE DEF q, r
    <2>4. j \in Nat
      BY <2>1, <2>2
    <2>. HIDE DEF j
    <2>5. ws[w] = IF r < L /\ j < N THEN src[j] ELSE Zero
      BY <1>6, <2>3, <2>4
    <2>. QED  BY <2>5 DEF q, r, j
  <1>13. Fills(S, ws, size)
    <2>1. \A j \in Nat : src[j] # Zero
      BY <1>6
    <2>. QED  BY <1>1, <1>7, <1>10, <1>11, <1>12, <2>1, RowsFill
  <1>14. Image(S) = Workspace(LAMBDA w : Ws1(c, g, w), size)
    <2>1. \A w \in 0..(size - 1) : ws[w] = Ws1(c, g, w)
      BY <1>5
    <2>. QED  BY <1>13, <2>1 DEF Fills, Workspace
  <1>. QED  BY <1>8, <1>13, <1>14 DEF Laid1, Fills, S

\* Phase A of operand 1 with nothing padded: ws1 is the transposed tensor.
LEMMA FlatLaid ==
    ASSUME NEW c, Generated(c), NEW splitK, StaticAsserts(c, splitK),
           IsTranspose(c.tpose1), c.tpose1.N = (c.n_inplace * c.n_contract) * c.n_free1,
           NEW g, g = Geom(c), TransposeAsserts(c, g), ~RD1(c, g), ~RowPadded(g), ~g.B_PADDED
    PROVE  Laid1(c, g)
  <1>. DEFINE t == c.tpose1
              S == StoresInp1(c, g)
              C == g.C
              K == g.K
              L == g.L1
              I == g.I
              size == (I * K) * L
              ws == [w \in Nat |-> Ws1(c, g, w)]
              src == Sources(t)
              N == t.N
  <1>1. /\ C \in Nat /\ K \in Nat /\ C <= K /\ I \in Nat /\ L \in Nat
        /\ C = c.n_contract /\ I = c.n_inplace /\ L = c.n_free1 /\ g.Bcols = L
    BY PaddedSizes DEF Positive
  <1>2. S = transpose_inline(t, c.ds, 0, 0)
    BY DEF StoresInp1
  <1>3. InlineAsserts(t, 0, 0)
    BY DEF TransposeAsserts
  <1>4. \A w \in Nat : ws[w] = Ws1(c, g, w)
    OBVIOUS
  <1>5. \A j \in Nat : src[j] = Transferred(t, j) /\ src[j] # Zero
    BY SourcesNat
  <1>6. N = (I * C) * L
    BY <1>1
  <1>7. SizeB(c, g) = size
    BY <1>1 DEF SizeB
  <1>8. \A w \in Nat : Ws1(c, g, w) = IF w < N THEN Transferred(t, w) ELSE Zero
    BY DEF Ws1
  <1>. HIDE DEF t, S, C, K, L, I, src, N, ws
  <1>9. N \in Nat /\ size \in Nat /\ N <= size
    <2>1. I * C \in Nat /\ I * K \in Nat /\ I * C <= I * K
      BY <1>1, Monotone
    <2>2. (I * C) * L <= (I * K) * L /\ (I * K) * L \in Nat /\ (I * C) * L \in Nat
      BY <1>1, <2>1, Monotone
    <2>. QED  BY <1>6, <2>2
  <1>. HIDE DEF size
  <1>10. LaysRows(S, Evenly(1), 1, src, N)
    BY <1>2, <1>3, InlineRight DEF t, src, N
  <1>11. Expected(ws, size, 1, 1, src, N)
    <2>. SUFFICES ASSUME NEW w \in 0..(size - 1)
                  PROVE  LET j == (w \div 1) * 1 + (w % 1)
                         IN  ws[w] = IF w % 1 < 1 /\ j < N THEN src[j] ELSE Zero
      BY DEF Expected
    <2>1. w \in Nat /\ w \div 1 = w /\ w % 1 = 0
      OBVIOUS
    <2>2. ws[w] = IF w < N THEN src[w] ELSE Zero
      BY <1>4, <1>5, <1>8, <2>1
    <2>. QED  BY <2>1, <2>2
  <1>12. Fills(S, ws, size)
    <2>. DEFINE one == 1
    <2>1. \A j \in Nat : src[j] # Zero
      BY <1>5
    <2>2. one \in Positive /\ one \in Nat /\ one <= one /\ N * one <= size /\ N = N * one
      BY <1>9 DEF Positive
    <2>3. Expected(ws, size, one, one, src, N) /\ LaysRows(S, Evenly(one), one, src, N)
      BY <1>10, <1>11
    <2>. HIDE DEF one
    <2>. QED  BY <1>9, <2>1, <2>2, <2>3, RowsFill
  <1>13. Image(S) = Workspace(LAMBDA w : Ws1(c, g, w), size)
    <2>1. \A w \in 0..(size - 1) : ws[w] = Ws1(c, g, w)
      BY <1>4
    <2>. QED  BY <1>12, <2>1 DEF Fills, Workspace
  <1>. QED  BY <1>7, <1>12, <1>13 DEF Laid1, Fills, S

\* Phase C: the output holds the transposed result.
LEMMA OutLaid ==
    ASSUME NEW c, IsTranspose(c.tposeOut), InlineAsserts(c.tposeOut, 0, 0)
    PROVE  LaidOut(c)
  <1>. DEFINE t == c.tposeOut
              S == StoresOut(c)
              N == t.N
              src == Sources(t)
              one == 1
  <1>1. LaysRows(S, Evenly(one), one, src, N)
    BY InlineRight DEF StoresOut
  <1>2. \A j \in 0..(N - 1) : RowPlace(Evenly(one), one, j) = j /\ src[j] = Transferred(t, j)
    <2>1. one \in Positive
      BY DEF Positive
    <2>2. \A j \in 0..(N - 1) : j \in Nat
      OBVIOUS
    <2>3. \A j \in Nat : src[j] = Transferred(t, j)
      BY SourcesNat
    <2>. HIDE DEF one, src
    <2>. QED  BY <2>1, <2>2, <2>3, EvenPlaces
  <1>. HIDE DEF one, src, N, S, t
  <1>3. /\ StoredOnce(S)
        /\ Image(S) = {<<RowPlace(Evenly(one), one, j), src[j]>> : j \in 0..(N - 1)}
    BY <1>1 DEF LaysRows
  <1>4. Image(S) = {<<j, Transferred(t, j)>> : j \in 0..(N - 1)}
    BY <1>2, <1>3
  <1>. QED  BY <1>3, <1>4 DEF LaidOut, S, N, t

(***************************************************************************)
(* The lanes of the Vector cores together leave what the matrix product,   *)
(* and the caller, read afterwards, for every equation, size and tile      *)
(* size: each place is stored once, by one lane of all, with the element   *)
(* that belongs there, and nothing is stored in the pads or beyond the     *)
(* workspace.  That the code compiled is used: with several batches the    *)
(* matrix product admits no partial tile, and the batched transpose reads  *)
(* along an axis that is contiguous.                                       *)
(***************************************************************************)
THEOREM TransposesAlwaysRight == Spec => []TransposesRight
  <1>1. IInv => TransposesRight
    <2>. SUFFICES ASSUME IInv, OnNpu, pc = "compiled", Regular(config, Geom(config))
                  PROVE  Laid(config, Geom(config))
      BY DEF TransposesRight
    <2>. DEFINE c == config
                g == Geom(c)
                splitK == KernelSplits(c, OutIdentity(c), NtIn(c, g))
    <2>1. MatmulLibrary /\ library.backend = "npu" /\ library.kind = "einsum"
      BY DEF OnNpu, MatmulLibrary
    <2>2. /\ Sized(Run0) /\ recipe = MatmulRecipe(Run0, problem)
          /\ c = EinsumConfig(Run0, recipe, problem)
      BY <2>1, MatmulWritten
    <2>3. /\ Generated(c)
          /\ c.n_free0 = recipe.L0 /\ c.n_free1 = recipe.L1
          /\ c.n_contract = recipe.C /\ c.n_inplace = recipe.I
      BY <2>1, MatmulGenerated
    <2>4. StaticAsserts(c, splitK) /\ TransposeAsserts(c, g)
      <3>1. Checks
        BY DEF IInv
      <3>. QED  BY <2>1, <3>1 DEF Checks
    <2>5. /\ IsTranspose(c.tpose0) /\ IsTranspose(c.tpose1) /\ IsTranspose(c.tposeOut)
          /\ c.tpose0.N = (recipe.I * recipe.L0) * recipe.C
          /\ c.tpose1.N = (recipe.I * recipe.C) * recipe.L1
      BY <2>2, MatmulTurns
    <2>6. /\ c.tpose0.N = (c.n_inplace * c.n_free0) * c.n_contract
          /\ c.tpose1.N = (c.n_inplace * c.n_contract) * c.n_free1
      BY <2>3, <2>5
    <2>. HIDE DEF splitK, g
    <2>7. g = Geom(c) /\ Regular(c, g)
      BY DEF g
    <2>. HIDE DEF c
    <2>8. RD0(c, g) \/ Laid0(c, g)
      BY <2>3, <2>4, <2>5, <2>6, <2>7, FirstLaid
    <2>9. RD1(c, g) \/ Laid1(c, g)
      BY <2>3, <2>4, <2>5, <2>6, <2>7, SlotsLaid, ColumnsLaid, FlatLaid
    <2>10. LaidOut(c)
      BY <2>4, <2>5, OutLaid DEF TransposeAsserts
    <2>. QED  BY <2>8, <2>9, <2>10 DEF Laid, c, g
  <1>. QED  BY <1>1, Invariance, PTL

-----------------------------------------------------------------------------
(***************************************************************************)
(* The result of run(): it is the equation's, for every problem and        *)
(* whatever path its recipe takes.  Every path comes down to two facts: a  *)
(* label has a size and a stride in every tensor, so that the offset of an *)
(* element is the sum of its labels' strides, wherever its axes were       *)
(* moved; and the valuations of a group of labels are numbered, one by     *)
(* one, by the offset within the group.                                    *)
(***************************************************************************)
-----------------------------------------------------------------------------
(* Offsets in row-major order *)

\* The offsets over the first axes, one after the other.
LEMMA OffsetUnfolds ==
    ASSUME NEW n \in Nat, NEW d \in [1..n -> Positive], NEW x \in [1..n -> Nat]
    PROVE  \E f \in [0..n -> Nat] : /\ f[0] = 0 /\ f[n] = Offset(d, x)
                                    /\ \A i \in 1..n : f[i] = f[i - 1] * d[i] + x[i]
  <1>. DEFINE step == [y \in (1..n) \X Nat |-> y[2] * d[y[1]] + x[y[1]]]
              def(f) == [i \in 0..Len(d) |-> IF i = 0 THEN 0 ELSE f[i - 1] * d[i] + x[i]]
              upTo == CHOOSE f : f = def(f)
  <1>1. Len(d) = n
    OBVIOUS
  <1>2. step \in [(1..n) \X Nat -> Nat] /\ 0 \in Nat
    <2>1. \A y \in (1..n) \X Nat : d[y[1]] \in Nat /\ x[y[1]] \in Nat /\ y[2] \in Nat
      BY DEF Positive
    <2>. QED  BY <2>1
  <1>3. Recursive(n, Nat, 0, step)
    <2>. HIDE DEF step
    <2>. QED  BY <1>2, Recursion, Zenon
  <1>4. PICK f \in [0..n -> Nat] : Unfolds(f, n, 0, step)
    BY <1>3 DEF Recursive
  <1>5. ASSUME NEW i \in 1..n PROVE f[i] = f[i - 1] * d[i] + x[i]
    <2>1. <<i, f[i - 1]>> \in (1..n) \X Nat
      OBVIOUS
    <2>. QED  BY <2>1, <1>4 DEF Unfolds
  <1>6. f = def(f)
    <2>1. f[0] = 0
      BY <1>4 DEF Unfolds
    <2>. HIDE DEF step
    <2>. QED  BY <2>1, <1>1, <1>5
  <1>7. upTo = def(upTo)
    <2>. HIDE DEF def
    <2>. QED  BY <1>6
  <1>8. Offset(d, x) = upTo[n]
    BY <1>1 DEF Offset
  <1>9. upTo \in [0..n -> Nat] /\ Unfolds(upTo, n, 0, step)
    <2>. HIDE DEF upTo
    <2>1. upTo = [i \in 0..n |-> upTo[i]] /\ upTo[0] = 0
      BY <1>7, <1>1
    <2>2. ASSUME NEW i \in 1..n, upTo[i - 1] \in Nat
          PROVE  upTo[i] = step[<<i, upTo[i - 1]>>]
      <3>1. i \in 0..n /\ i # 0
        OBVIOUS
      <3>2. <<i, upTo[i - 1]>> \in (1..n) \X Nat
        BY <2>2
      <3>3. upTo[i] = upTo[i - 1] * d[i] + x[i]
        BY <1>7, <1>1, <3>1
      <3>. QED  BY <3>2, <3>3
    <2>. HIDE DEF step
    <2>. QED  BY <1>2, <2>1, <2>2, RecursionStays, Zenon
  <1>10. ASSUME NEW i \in 1..n PROVE upTo[i] = upTo[i - 1] * d[i] + x[i]
    <2>. HIDE DEF upTo
    <2>1. <<i, upTo[i - 1]>> \in (1..n) \X Nat
      BY <1>9
    <2>. QED  BY <2>1, <1>9 DEF Unfolds
  <1>. HIDE DEF upTo, step
  <1>. QED  BY <1>8, <1>9, <1>10 DEF Unfolds

\* One axis more: its size, and the place on it.
LEMMA OffsetStep ==
    ASSUME NEW n \in Nat, NEW d \in [1..(n + 1) -> Positive], NEW x \in [1..(n + 1) -> Nat]
    PROVE  LET e == SubSeq(d, 1, n)
               y == SubSeq(x, 1, n)
           IN  /\ e \in [1..n -> Positive] /\ y \in [1..n -> Nat]
               /\ e = [i \in 1..n |-> d[i]] /\ y = [i \in 1..n |-> x[i]]
               /\ Offset(d, x) = Offset(e, y) * d[n + 1] + x[n + 1]
  <1>. DEFINE e == SubSeq(d, 1, n)
              y == SubSeq(x, 1, n)
  <1>1. n + 1 \in Nat /\ n \in 0..(n + 1) /\ n + 1 \in 1..(n + 1) /\ (n + 1) - 1 = n
    OBVIOUS
  <1>2. y \in [1..n -> Nat] /\ y = [i \in 1..n |-> x[i]]
    BY <1>1, Beginning
  <1>3. e \in [1..n -> Positive] /\ e = [i \in 1..n |-> d[i]]
    <2>1. d \in [1..(n + 1) -> Nat]
      BY DEF Positive
    <2>2. e = [i \in 1..n |-> d[i]]
      BY <1>1, <2>1, Beginning
    <2>. HIDE DEF e
    <2>. QED  BY <2>2
  <1>. HIDE DEF e, y
  <1>4. PICK f \in [0..(n + 1) -> Nat] :
            /\ f[0] = 0 /\ f[n + 1] = Offset(d, x)
            /\ \A i \in 1..(n + 1) : f[i] = f[i - 1] * d[i] + x[i]
    BY <1>1, OffsetUnfolds
  <1>5. PICK h \in [0..n -> Nat] : /\ h[0] = 0 /\ h[n] = Offset(e, y)
                                   /\ \A i \in 1..n : h[i] = h[i - 1] * e[i] + y[i]
    BY <1>2, <1>3, OffsetUnfolds
  <1>. DEFINE S == {k \in 0..n : f[k] = h[k]}
  <1>6. 0 \in S
    BY <1>4, <1>5
  <1>7. ASSUME NEW k \in 0..(n - 1), k \in S PROVE k + 1 \in S
    <2>1. k + 1 \in 1..n /\ k + 1 \in 1..(n + 1) /\ (k + 1) - 1 = k
      OBVIOUS
    <2>2. f[k + 1] = f[k] * d[k + 1] + x[k + 1] /\ h[k + 1] = h[k] * e[k + 1] + y[k + 1]
      BY <1>4, <1>5, <2>1
    <2>3. e[k + 1] = d[k + 1] /\ y[k + 1] = x[k + 1] /\ f[k] = h[k]
      BY <1>2, <1>3, <1>7, <2>1
    <2>. QED  BY <2>1, <2>2, <2>3
  <1>8. n \in S
    <2>. HIDE DEF S
    <2>1. 0..n \subseteq S
      BY <1>6, <1>7, Induction
    <2>. QED  BY <2>1
  <1>9. f[n + 1] = f[n] * d[n + 1] + x[n + 1]
    BY <1>1, <1>4
  <1>. QED  BY <1>2, <1>3, <1>4, <1>5, <1>8, <1>9 DEF e, y

\* Without axes there is one element.
LEMMA OffsetEmpty ==
    ASSUME NEW d \in [1..0 -> Positive], NEW x \in [1..0 -> Nat]
    PROVE  Offset(d, x) = 0
  <1>1. 0 \in Nat
    OBVIOUS
  <1>2. PICK f \in [0..0 -> Nat] : f[0] = 0 /\ f[0] = Offset(d, x)
    BY <1>1, OffsetUnfolds
  <1>. QED  BY <1>2
\* A place of an array of sizes d.
Places(n, d, x) == d \in [1..n -> Positive] /\ x \in [1..n -> Nat] /\ \A i \in 1..n : x[i] < d[i]

\* What an offset says: it lies in the array, and its digits are the place.
Locates(n, d, x) ==
    /\ Offset(d, x) \in Nat /\ Offset(d, x) < Product(d)
    /\ \A s \in [1..n -> Nat] :
          Decode(Offset(d, x), d, s) = Total([i \in 1..n |-> x[i] * s[i]], n)

\* One axis more.
LEMMA LocatesStep ==
    ASSUME NEW n \in Nat, NEW d, NEW x, Places(n + 1, d, x),
           Locates(n, SubSeq(d, 1, n), SubSeq(x, 1, n))
    PROVE  Locates(n + 1, d, x)
  <1>. DEFINE e == SubSeq(d, 1, n)
              y == SubSeq(x, 1, n)
              o == Offset(e, y)
              D == d[n + 1]
              X == x[n + 1]
  <1>1. d \in [1..(n + 1) -> Positive] /\ x \in [1..(n + 1) -> Nat] /\ n + 1 \in 1..(n + 1)
    BY DEF Places
  <1>2. /\ e \in [1..n -> Positive] /\ y \in [1..n -> Nat]
        /\ y = [i \in 1..n |-> x[i]] /\ Offset(d, x) = o * D + X
    BY <1>1, OffsetStep
  <1>3. o \in Nat /\ o < Product(e) /\ D \in Positive /\ X \in 0..(D - 1) /\ X \in Nat
    BY <1>1 DEF Locates, Places, Positive
  <1>4. Product(d) = Product(e) * D /\ Product(e) \in Nat
    <2>1. n + 1 \in Positive /\ (n + 1) - 1 = n /\ d \in [1..(n + 1) -> Nat] /\ e \in [1..n -> Nat]
      BY <1>1, <1>2 DEF Positive
    <2>2. Product(d) = Product(SubSeq(d, 1, (n + 1) - 1)) * d[n + 1]
      <3>. DEFINE m == n + 1
      <3>1. m \in Positive /\ d \in [1..m -> Nat]
        BY <2>1
      <3>. HIDE DEF m
      <3>2. Product(d) = Product(SubSeq(d, 1, m - 1)) * d[m]
        BY <3>1, ProductStep
      <3>. QED  BY <3>2 DEF m
    <2>3. Product(e) \in Nat
      BY <2>1, ProductNat
    <2>. QED  BY <2>1, <2>2, <2>3
  <1>. DEFINE off == o * D + X
              P == Product(e)
  <1>. HIDE DEF o, D, X, e, y, P
  <1>5. off \in Nat /\ off < Product(d) /\ off \div D = o /\ off % D = X
    <2>1. off \in Nat
      BY <1>3 DEF Positive
    <2>2. off \div D = o /\ off % D = X
      BY <1>3, <2>1, DivisionUnique
    <2>3. o * D + D <= P * D
      BY <1>3, <1>4, SpansApart DEF Positive, P
    <2>4. o * D \in Nat /\ P * D \in Nat /\ D \in Nat
      BY <1>3, <1>4 DEF Positive, P
    <2>5. off < Product(d)
      <3>. DEFINE oD == o * D
                  PD == P * D
      <3>1. oD \in Nat /\ PD \in Nat /\ oD + D <= PD /\ Product(d) = PD /\ off = oD + X
        BY <1>4, <2>3, <2>4 DEF P
      <3>. HIDE DEF oD, PD, off
      <3>. QED  BY <1>3, <2>4, <3>1
    <2>. QED  BY <2>1, <2>2, <2>5
  <1>6. ASSUME NEW s \in [1..(n + 1) -> Nat]
        PROVE  Decode(off, d, s) = Total([i \in 1..(n + 1) |-> x[i] * s[i]], n + 1)
    <2>. DEFINE m == n + 1
                t == SubSeq(s, 1, n)
                terms == [i \in 1..(n + 1) |-> x[i] * s[i]]
                front == [i \in 1..n |-> terms[i]]
    <2>1. m \in Positive /\ m - 1 = n /\ d \in [1..m -> Positive] /\ s \in [1..m -> Nat]
      BY <1>1 DEF Positive
    <2>2. t \in [1..n -> Nat] /\ t = [i \in 1..n |-> s[i]]
      <3>1. n + 1 \in Nat /\ n \in 0..(n + 1)
        OBVIOUS
      <3>. QED  BY <3>1, Beginning
    <2>3. Decode(off, d, s) = X * s[n + 1] + Decode(o, e, t)
      <3>. HIDE DEF m, t, off
      <3>1. Decode(off, d, s) = (off % d[m]) * s[m]
                + Decode(off \div d[m], SubSeq(d, 1, m - 1), SubSeq(s, 1, m - 1))
        BY <1>5, <2>1, DecodeStep
      <3>2. d[m] = D /\ s[m] = s[n + 1] /\ SubSeq(d, 1, m - 1) = e /\ SubSeq(s, 1, m - 1) = t
        BY <2>1 DEF m, D, e, t
      <3>. QED  BY <1>5, <3>1, <3>2
    <2>4. Decode(o, e, t) = Total([i \in 1..n |-> y[i] * t[i]], n)
      <3>. HIDE DEF t
      <3>. QED  BY <2>2 DEF Locates, o, e, y
    <2>5. front = [i \in 1..n |-> y[i] * t[i]]
      <3>1. \A i \in 1..n : i \in 1..(n + 1) /\ y[i] = x[i] /\ t[i] = s[i]
        BY <1>2, <2>2
      <3>. HIDE DEF t
      <3>. QED  BY <3>1
    <2>6. terms \in [1..(n + 1) -> Int]
      <3>1. \A i \in 1..(n + 1) : x[i] \in Nat /\ s[i] \in Nat
        BY <1>1
      <3>2. \A i \in 1..(n + 1) : x[i] * s[i] \in Int
        BY <3>1
      <3>. QED  BY <3>2
    <2>7. terms[n + 1] = X * s[n + 1]
      BY <1>1 DEF X
    <2>. HIDE DEF terms
    <2>8. Total(terms, n + 1) = Total(front, n) + terms[n + 1]
      BY <2>6, TotalStep
    <2>9. Total(front, n) \in Int /\ terms[n + 1] \in Int
      <3>1. Decode(o, e, t) \in Nat
        <4>. HIDE DEF t
        <4>. QED  BY <1>2, <1>3, <2>2, DecodeNat
      <3>2. Total(front, n) \in Int
        <4>. HIDE DEF front, t
        <4>. QED  BY <2>4, <2>5, <3>1
      <3>. QED  BY <1>1, <2>6, <3>2
    <2>10. Decode(off, d, s) = terms[n + 1] + Total(front, n)
      BY <2>3, <2>4, <2>5, <2>7
    <2>. HIDE DEF front, off
    <2>11. Total(terms, n + 1) = Decode(off, d, s)
      BY <2>8, <2>9, <2>10
    <2>. QED  BY <2>11 DEF terms
  <1>7. Offset(d, x) = off
    BY <1>2
  <1>. HIDE DEF off
  <1>. QED  BY <1>5, <1>6, <1>7 DEF Locates

\* The offset of a place lies in the array, and the place is what its digits are.
LEMMA OffsetLocates ==
    ASSUME NEW n \in Nat, NEW d, NEW x, Places(n, d, x)
    PROVE  Locates(n, d, x)
  <1>. DEFINE S == {k \in 0..n : \A e, y : Places(k, e, y) => Locates(k, e, y)}
  <1>1. 0 \in S
    <2>. SUFFICES ASSUME NEW e, NEW y, Places(0, e, y) PROVE Locates(0, e, y)
      OBVIOUS
    <2>1. e \in [1..0 -> Positive] /\ y \in [1..0 -> Nat] /\ e \in [1..0 -> Nat] /\ 0 \in Nat
      BY DEF Places, Positive
    <2>2. Offset(e, y) = 0 /\ Product(e) = 1
      BY <2>1, OffsetEmpty, ProductEmpty
    <2>3. ASSUME NEW s \in [1..0 -> Nat]
          PROVE  Decode(0, e, s) = Total([i \in 1..0 |-> y[i] * s[i]], 0)
      <3>. DEFINE terms == [i \in 1..0 |-> y[i] * s[i]]
      <3>1. terms \in [1..0 -> Int]
        OBVIOUS
      <3>. HIDE DEF terms
      <3>2. PICK f \in [0..0 -> Int] : Sums(f, terms, 0)
        BY <2>1, <3>1, TotalUnfolds
      <3>3. Total(terms, 0) = 0
        BY <3>2 DEF Sums
      <3>4. Decode(0, e, s) = 0
        BY <2>1, DecodeEmpty
      <3>. QED  BY <3>3, <3>4 DEF terms
    <2>. QED  BY <2>2, <2>3 DEF Locates
  <1>2. ASSUME NEW k \in 0..(n - 1), k \in S PROVE k + 1 \in S
    <2>. SUFFICES ASSUME NEW e, NEW y, Places(k + 1, e, y) PROVE Locates(k + 1, e, y)
      OBVIOUS
    <2>1. k \in Nat /\ e \in [1..(k + 1) -> Positive] /\ y \in [1..(k + 1) -> Nat]
      BY DEF Places
    <2>. DEFINE e0 == SubSeq(e, 1, k)
                y0 == SubSeq(y, 1, k)
    <2>2. /\ e0 \in [1..k -> Positive] /\ y0 \in [1..k -> Nat]
          /\ e0 = [i \in 1..k |-> e[i]] /\ y0 = [i \in 1..k |-> y[i]]
      BY <2>1, OffsetStep
    <2>. HIDE DEF e0, y0
    <2>3. Places(k, e0, y0)
      <3>1. \A i \in 1..k : i \in 1..(k + 1) /\ e0[i] = e[i] /\ y0[i] = y[i]
        BY <2>1, <2>2
      <3>. QED  BY <2>2, <3>1 DEF Places
    <2>4. Locates(k, e0, y0)
      BY <1>2, <2>3
    <2>. QED  BY <2>1, <2>4, LocatesStep DEF e0, y0
  <1>3. n \in S
    <2>. HIDE DEF S
    <2>1. 0..n \subseteq S
      BY <1>1, <1>2, Induction
    <2>. QED  BY <2>1
  <1>. QED  BY <1>3
\* An offset is the sum of the places times the row-major strides.
LEMMA OffsetTotal ==
    ASSUME NEW n \in Nat, NEW d, NEW x, Places(n, d, x)
    PROVE  Offset(d, x) = Total([i \in 1..n |-> x[i] * RowStrides(d)[i]], n)
  <1>1. d \in [1..n -> Positive] /\ RowStrides(d) \in [1..n -> Positive]
    BY RowStridesStep DEF Places
  <1>2. RowStrides(d) \in [1..n -> Nat]
    BY <1>1 DEF Positive
  <1>3. /\ Offset(d, x) \in Nat /\ Offset(d, x) < Product(d)
        /\ Decode(Offset(d, x), d, RowStrides(d)) = Total([i \in 1..n |-> x[i] * RowStrides(d)[i]], n)
    BY <1>2, OffsetLocates DEF Locates
  <1>. QED  BY <1>1, <1>3, DecodeRowMajor

\* Every element has a place.
Reached(n, d) == \A j \in Nat : j < Product(d) => \E x : Places(n, d, x) /\ Offset(d, x) = j

\* One axis more.
LEMMA ReachedStep ==
    ASSUME NEW n \in Nat, NEW d \in [1..(n + 1) -> Positive], Reached(n, SubSeq(d, 1, n))
    PROVE  Reached(n + 1, d)
  <1>. DEFINE e == SubSeq(d, 1, n)
              D == d[n + 1]
              P == Product(e)
  <1>1. e \in [1..n -> Positive] /\ e = [i \in 1..n |-> d[i]]
    <2>. DEFINE zero == [i \in 1..(n + 1) |-> 0]
    <2>1. zero \in [1..(n + 1) -> Nat]
      OBVIOUS
    <2>. HIDE DEF zero
    <2>. QED  BY <2>1, OffsetStep
  <1>2. D \in Positive /\ P \in Nat /\ Product(d) = P * D
    <2>. DEFINE m == n + 1
    <2>1. m \in Positive /\ m - 1 = n /\ d \in [1..m -> Nat] /\ e \in [1..n -> Nat]
      BY <1>1 DEF Positive
    <2>2. P \in Nat
      BY <2>1, ProductNat
    <2>. HIDE DEF m, e
    <2>3. Product(d) = Product(SubSeq(d, 1, m - 1)) * d[m]
      BY <2>1, ProductStep
    <2>. QED  BY <2>1, <2>2, <2>3 DEF m, e
  <1>. HIDE DEF e, D, P
  <1>. SUFFICES ASSUME NEW j \in Nat, j < Product(d)
                PROVE  \E x : Places(n + 1, d, x) /\ Offset(d, x) = j
    BY DEF Reached
  <1>. DEFINE q == j \div D
              r == j % D
  <1>3. q \in Nat /\ r \in 0..(D - 1) /\ j = q * D + r /\ q < P
    BY <1>2, Quotient, Division, BelowQuotient
  <1>. HIDE DEF q, r
  <1>4. PICK y : Places(n, e, y) /\ Offset(e, y) = q
    BY <1>2, <1>3 DEF Reached, e, P
  <1>. DEFINE x == [i \in 1..(n + 1) |-> IF i = n + 1 THEN r ELSE y[i]]
  <1>5. /\ \A i \in 1..(n + 1) : i # n + 1 => i \in 1..n
        /\ n + 1 \in 1..(n + 1) /\ n + 1 \notin 1..n
        /\ \A i \in 1..n : i \in 1..(n + 1) /\ i # n + 1
    OBVIOUS
  <1>6. y \in [1..n -> Nat] /\ \A i \in 1..n : y[i] < e[i]
    BY <1>4 DEF Places
  <1>7. x \in [1..(n + 1) -> Nat] /\ \A i \in 1..(n + 1) : x[i] < d[i]
    <2>1. r \in Nat /\ r < D
      BY <1>2, <1>3 DEF Positive
    <2>2. ASSUME NEW i \in 1..(n + 1) PROVE x[i] \in Nat /\ x[i] < d[i]
      <3>1. CASE i = n + 1
        BY <2>1, <3>1 DEF D
      <3>2. CASE i # n + 1
        BY <1>1, <1>5, <1>6, <3>2
      <3>. QED  BY <3>1, <3>2
    <2>. QED  BY <2>2
  <1>8. SubSeq(x, 1, n) = y
    <2>. HIDE DEF x
    <2>1. SubSeq(x, 1, n) = [i \in 1..n |-> x[i]]
      <3>1. n + 1 \in Nat /\ n \in 0..(n + 1)
        OBVIOUS
      <3>. QED  BY <1>7, <3>1, Beginning
    <2>2. \A i \in 1..n : x[i] = y[i]
      BY <1>5 DEF x
    <2>. QED  BY <1>6, <2>1, <2>2
  <1>9. Offset(d, x) = j
    <2>1. x[n + 1] = r
      BY <1>5
    <2>. HIDE DEF x
    <2>2. Offset(d, x) = Offset(e, SubSeq(x, 1, n)) * d[n + 1] + x[n + 1]
      BY <1>7, OffsetStep DEF e
    <2>. QED  BY <1>3, <1>4, <1>8, <2>1, <2>2 DEF D
  <1>10. Places(n + 1, d, x)
    <2>. HIDE DEF x
    <2>. QED  BY <1>7 DEF Places
  <1>. HIDE DEF x
  <1>. QED  BY <1>9, <1>10

\* Every offset below the size of an array is that of a place.
LEMMA OffsetReaches ==
    ASSUME NEW n \in Nat, NEW d \in [1..n -> Positive]
    PROVE  Reached(n, d)
  <1>. DEFINE S == {k \in 0..n : \A e \in [1..k -> Positive] : Reached(k, e)}
  <1>1. 0 \in S
    <2>. SUFFICES ASSUME NEW e \in [1..0 -> Positive], NEW j \in Nat, j < Product(e)
                  PROVE  \E x : Places(0, e, x) /\ Offset(e, x) = j
      BY DEF Reached
    <2>. DEFINE x == [i \in 1..0 |-> 0]
    <2>1. e \in [1..0 -> Nat] /\ x \in [1..0 -> Nat]
      OBVIOUS
    <2>2. Places(0, e, x)
      BY <2>1 DEF Places
    <2>. HIDE DEF x
    <2>3. Product(e) = 1 /\ Offset(e, x) = 0
      BY <2>1, ProductEmpty, OffsetEmpty
    <2>4. j = 0
      BY <2>3
    <2>. QED  BY <2>2, <2>3, <2>4
  <1>2. ASSUME NEW k \in 0..(n - 1), k \in S PROVE k + 1 \in S
    <2>. SUFFICES ASSUME NEW e \in [1..(k + 1) -> Positive] PROVE Reached(k + 1, e)
      OBVIOUS
    <2>1. k \in Nat
      OBVIOUS
    <2>2. SubSeq(e, 1, k) \in [1..k -> Positive]
      <3>. DEFINE zero == [i \in 1..(k + 1) |-> 0]
      <3>1. zero \in [1..(k + 1) -> Nat]
        OBVIOUS
      <3>. HIDE DEF zero
      <3>. QED  BY <2>1, <3>1, OffsetStep
    <2>3. Reached(k, SubSeq(e, 1, k))
      BY <1>2, <2>2
    <2>. QED  BY <2>1, <2>3, ReachedStep
  <1>3. n \in S
    <2>. HIDE DEF S
    <2>1. 0..n \subseteq S
      BY <1>1, <1>2, Induction
    <2>. QED  BY <2>1
  <1>. QED  BY <1>3
\* What a sequence and its continuation hold.
LEMMA JoinedPlaces ==
    ASSUME NEW n \in Nat, NEW u \in [1..n -> Nat], NEW m \in Nat, NEW v \in [1..m -> Nat]
    PROVE  /\ u \o v \in [1..(n + m) -> Nat]
           /\ \A i \in 1..n : (u \o v)[i] = u[i]
           /\ \A i \in 1..m : (u \o v)[n + i] = v[i]
  <1>1. u \in Seq(Nat) /\ v \in Seq(Nat) /\ Len(u) = n /\ Len(v) = m
    OBVIOUS
  <1>2. /\ u \o v \in Seq(Nat) /\ Len(u \o v) = n + m
        /\ \A i \in 1..n : (u \o v)[i] = u[i]
        /\ \A i \in 1..m : (u \o v)[n + i] = v[i]
    BY <1>1, Joined
  <1>3. u \o v \in [1..(n + m) -> Nat]
    <2>. DEFINE w == u \o v
    <2>. HIDE DEF w
    <2>1. w \in Seq(Nat) /\ Len(w) = n + m
      BY <1>2 DEF w
    <2>2. w \in [1..(n + m) -> Nat]
      BY <2>1
    <2>. QED  BY <2>2 DEF w
  <1>. QED  BY <1>2, <1>3

\* All but the last element of a sequence that is continued.
LEMMA JoinedFront ==
    ASSUME NEW n \in Nat, NEW u \in [1..n -> Nat], NEW k \in Nat, NEW v \in [1..(k + 1) -> Nat]
    PROVE  /\ SubSeq(u \o v, 1, n + k) = u \o SubSeq(v, 1, k)
           /\ (u \o v)[n + (k + 1)] = v[k + 1]
  <1>. DEFINE w == SubSeq(v, 1, k)
              uv == u \o v
              uw == u \o w
  <1>1. k + 1 \in Nat /\ k \in 0..(k + 1) /\ n + (k + 1) \in Nat /\ n + k \in 0..(n + (k + 1))
        /\ k + 1 \in 1..(k + 1) /\ n + k \in Nat
    OBVIOUS
  <1>2. w \in [1..k -> Nat] /\ w = [i \in 1..k |-> v[i]]
    BY <1>1, Beginning
  <1>. HIDE DEF w
  <1>3. /\ uv \in [1..(n + (k + 1)) -> Nat] /\ \A i \in 1..n : uv[i] = u[i]
        /\ \A i \in 1..(k + 1) : uv[n + i] = v[i]
    BY <1>1, JoinedPlaces, ZenonT(30)
  <1>4. /\ uw \in [1..(n + k) -> Nat] /\ \A i \in 1..n : uw[i] = u[i]
        /\ \A i \in 1..k : uw[n + i] = w[i]
    BY <1>2, JoinedPlaces, ZenonT(30)
  <1>. HIDE DEF uv, uw
  <1>5. SubSeq(uv, 1, n + k) = [i \in 1..(n + k) |-> uv[i]]
    BY <1>1, <1>3, Beginning
  <1>6. ASSUME NEW i \in 1..(n + k) PROVE uv[i] = uw[i]
    <2>1. CASE i \in 1..n
      BY <1>3, <1>4, <2>1
    <2>2. CASE i \notin 1..n
      <3>1. i - n \in 1..k /\ i - n \in 1..(k + 1) /\ n + (i - n) = i
        BY <2>2
      <3>2. uv[n + (i - n)] = v[i - n] /\ uw[n + (i - n)] = w[i - n] /\ w[i - n] = v[i - n]
        BY <1>2, <1>3, <1>4, <3>1
      <3>. QED  BY <3>1, <3>2
    <2>. QED  BY <2>1, <2>2
  <1>7. SubSeq(uv, 1, n + k) = uw
    BY <1>4, <1>5, <1>6
  <1>. QED  BY <1>1, <1>3, <1>7 DEF uv, uw, w

\* Over two groups of axes: the offset in the first in units of the second.
LEMMA OffsetJoined ==
    ASSUME NEW n \in Nat, NEW d \in [1..n -> Positive], NEW x \in [1..n -> Nat],
           NEW m \in Nat, NEW e \in [1..m -> Positive], NEW y \in [1..m -> Nat]
    PROVE  Offset(d \o e, x \o y) = Offset(d, x) * Product(e) + Offset(e, y)
  <1>. DEFINE a == Offset(d, x)
              Splits(k) == \A f \in [1..k -> Positive], z \in [1..k -> Nat] :
                               Offset(d \o f, x \o z) = a * Product(f) + Offset(f, z)
              S == {k \in 0..m : Splits(k)}
  <1>1. a \in Nat /\ d \in [1..n -> Nat]
    <2>1. \E f \in [0..n -> Nat] : f[n] = a
      BY OffsetUnfolds
    <2>. QED  BY <2>1 DEF Positive
  <1>. HIDE DEF a
  <1>2. 0 \in S
    <2>. SUFFICES ASSUME NEW f \in [1..0 -> Positive], NEW z \in [1..0 -> Nat]
                  PROVE  Offset(d \o f, x \o z) = a * Product(f) + Offset(f, z)
      OBVIOUS
    <2>1. f \in [1..0 -> Nat] /\ 0 \in Nat
      <3>1. [1..0 -> Positive] \subseteq [1..0 -> Nat]
        BY DEF Positive
      <3>. QED  BY <3>1
    <2>2. Product(f) = 1 /\ Offset(f, z) = 0
      BY <2>1, ProductEmpty, OffsetEmpty
    <2>3. \A u \in [1..n -> Nat], v \in [1..0 -> Nat] : u \o v = u
      <3>. SUFFICES ASSUME NEW u \in [1..n -> Nat], NEW v \in [1..0 -> Nat] PROVE u \o v = u
        OBVIOUS
      <3>1. u \o v \in [1..(n + 0) -> Nat] /\ \A i \in 1..n : (u \o v)[i] = u[i]
        BY <2>1, JoinedPlaces
      <3>. QED  BY <3>1
    <2>4. d \o f = d /\ x \o z = x
      BY <1>1, <2>1, <2>3
    <2>. QED  BY <1>1, <2>2, <2>4 DEF a
  <1>3. ASSUME NEW k \in 0..(m - 1), k \in S PROVE k + 1 \in S
    <2>0. k + 1 \in 0..m
      OBVIOUS
    <2>. SUFFICES ASSUME NEW f \in [1..(k + 1) -> Positive], NEW z \in [1..(k + 1) -> Nat]
                  PROVE  Offset(d \o f, x \o z) = a * Product(f) + Offset(f, z)
      <3>. HIDE DEF Splits
      <3>1. Splits(k + 1) => k + 1 \in S
        BY <2>0
      <3>. QED  BY <3>1 DEF Splits
    <2>. DEFINE g == SubSeq(f, 1, k)
                w == SubSeq(z, 1, k)
                N == n + k
                D == f[k + 1]
                Z == z[k + 1]
                df == d \o f
                xz == x \o z
    <2>1. k \in Nat /\ k + 1 \in Nat /\ N \in Nat /\ n + (k + 1) = N + 1 /\ f \in [1..(k + 1) -> Nat]
          /\ k + 1 \in 1..(k + 1)
      BY DEF Positive
    <2>2. /\ g \in [1..k -> Positive] /\ w \in [1..k -> Nat]
          /\ Offset(f, z) = Offset(g, w) * D + Z
      BY <2>1, OffsetStep
    <2>3. Product(f) = Product(g) * D /\ Product(g) \in Nat /\ D \in Nat /\ Z \in Nat
      <3>. DEFINE j == k + 1
      <3>1. j \in Positive /\ j - 1 = k /\ f \in [1..j -> Nat]
        BY <2>1 DEF Positive
      <3>. HIDE DEF j
      <3>2. Product(f) = Product(SubSeq(f, 1, j - 1)) * f[j]
        BY <3>1, ProductStep
      <3>3. g \in [1..k -> Nat]
        <4>. HIDE DEF g
        <4>. QED  BY <2>2 DEF Positive
      <3>4. Product(g) \in Nat
        BY <2>1, <3>3, ProductNat
      <3>5. f[k + 1] \in Nat /\ z[k + 1] \in Nat
        BY <2>1
      <3>. QED  BY <3>1, <3>2, <3>4, <3>5 DEF j
    <2>4. Offset(d \o g, x \o w) = a * Product(g) + Offset(g, w)
      <3>. HIDE DEF g, w
      <3>. QED  BY <1>3, <2>2
    <2>5. /\ SubSeq(df, 1, N) = d \o g /\ df[n + (k + 1)] = D
          /\ SubSeq(xz, 1, N) = x \o w /\ xz[n + (k + 1)] = Z
      BY <1>1, <2>1, JoinedFront
    <2>6. df \in [1..(N + 1) -> Positive] /\ xz \in [1..(N + 1) -> Nat]
      <3>1. df \in [1..(n + (k + 1)) -> Positive]
        BY <2>1, PositiveJoined
      <3>2. xz \in [1..(n + (k + 1)) -> Nat]
        BY <2>1, JoinedPlaces
      <3>. HIDE DEF df, xz
      <3>. QED  BY <2>1, <3>1, <3>2
    <2>. HIDE DEF g, w, N, D, Z, df, xz
    <2>7. Offset(df, xz) = Offset(SubSeq(df, 1, N), SubSeq(xz, 1, N)) * df[N + 1] + xz[N + 1]
      BY <2>1, <2>6, OffsetStep
    <2>. DEFINE b == Offset(g, w)
                p == Product(g)
    <2>8. b \in Nat
      <3>1. \E h \in [0..k -> Nat] : h[k] = b
        BY <2>1, <2>2, OffsetUnfolds
      <3>. QED  BY <3>1
    <2>. HIDE DEF b
    <2>9. (a * p + b) * D + Z = a * (p * D) + (b * D + Z)
      <3>. HIDE DEF p
      <3>1. \A r, s, t, q \in Nat : (r * s + t) * q = r * (s * q) + t * q
        OBVIOUS
      <3>2. p \in Nat
        BY <2>3 DEF p
      <3>3. (a * p + b) * D = a * (p * D) + b * D
        BY <1>1, <2>3, <2>8, <3>1, <3>2
      <3>4. a * (p * D) \in Nat /\ b * D \in Nat
        BY <1>1, <2>3, <2>8, <3>2
      <3>. QED  BY <2>3, <3>3, <3>4
    <2>. QED  BY <2>1, <2>2, <2>3, <2>4, <2>5, <2>7, <2>9 DEF b, df, xz
  <1>4. m \in S
    <2>. HIDE DEF S
    <2>1. 0..m \subseteq S
      BY <1>2, <1>3, Induction
    <2>. QED  BY <2>1
  <1>. QED  BY <1>4 DEF a
-----------------------------------------------------------------------------
(* Elements *)

\* f gives every label of T a place on its axis.
Values(e, T, f) == T \subseteq DOMAIN f /\ \A a \in T : f[a] \in Nat /\ f[a] < Dim(e, a)

\* The places along a list of labels.
PlaceOf(w, f) == [i \in DOMAIN w |-> f[w[i]]]

\* A valuation selects a place of the array over a list of labels.
LEMMA ElementPlace ==
    ASSUME NEW e, Sized(e), NEW w, NEW T \in SUBSET Labels(e), Lists(w, T), NEW f, Values(e, T, f)
    PROVE  /\ Len(w) \in Nat /\ DOMAIN w = 1..Len(w)
           /\ Places(Len(w), Dims(e, w), PlaceOf(w, f))
           /\ Element(e, w, f) = Offset(Dims(e, w), PlaceOf(w, f))
  <1>1. w \in Seq(Positive) /\ Len(w) \in Nat /\ DOMAIN w = 1..Len(w) /\ \A i \in 1..Len(w) : w[i] \in T
    BY DEF Lists
  <1>2. Dims(e, w) \in [1..Len(w) -> Positive]
    BY DimsPositive
  <1>3. ASSUME NEW i \in 1..Len(w)
        PROVE  /\ PlaceOf(w, f)[i] = f[w[i]] /\ PlaceOf(w, f)[i] \in Nat
               /\ Dims(e, w)[i] = Dim(e, w[i]) /\ f[w[i]] < Dim(e, w[i])
    BY <1>1 DEF PlaceOf, Dims, Values
  <1>4. PlaceOf(w, f) \in [1..Len(w) -> Nat]
    <2>1. PlaceOf(w, f) = [i \in 1..Len(w) |-> PlaceOf(w, f)[i]]
      BY <1>1 DEF PlaceOf
    <2>. QED  BY <1>3, <2>1
  <1>5. Places(Len(w), Dims(e, w), PlaceOf(w, f))
    BY <1>2, <1>3, <1>4 DEF Places
  <1>. QED  BY <1>1, <1>5 DEF Element, PlaceOf

\* An element lies in the array over its labels.
LEMMA ElementInside ==
    ASSUME NEW e, Sized(e), NEW w, NEW T \in SUBSET Labels(e), Lists(w, T), NEW f, Values(e, T, f)
    PROVE  Element(e, w, f) \in Nat /\ Element(e, w, f) < Product(Dims(e, w))
  BY ElementPlace, OffsetLocates DEF Locates

\* An element's offset is the sum of its places times the strides.
LEMMA ElementTotal ==
    ASSUME NEW e, Sized(e), NEW w, NEW T \in SUBSET Labels(e), Lists(w, T), NEW f, Values(e, T, f)
    PROVE  Element(e, w, f) = Total([i \in 1..Len(w) |-> f[w[i]] * RowStrides(Dims(e, w))[i]], Len(w))
  <1>. DEFINE n == Len(w)
              x == PlaceOf(w, f)
              d == Dims(e, w)
  <1>1. n \in Nat /\ Places(n, d, x) /\ Element(e, w, f) = Offset(d, x) /\ DOMAIN w = 1..n
    BY ElementPlace
  <1>2. \A i \in 1..n : x[i] = f[w[i]]
    BY <1>1 DEF PlaceOf
  <1>. HIDE DEF n, x, d
  <1>3. Offset(d, x) = Total([i \in 1..n |-> x[i] * RowStrides(d)[i]], n)
    BY <1>1, OffsetTotal
  <1>4. [i \in 1..n |-> x[i] * RowStrides(d)[i]] = [i \in 1..n |-> f[w[i]] * RowStrides(d)[i]]
    BY <1>2
  <1>. QED  BY <1>1, <1>3, <1>4 DEF n, d

\* Decoding the offset of an element under any strides gives the sum over its places.
LEMMA ElementDecodes ==
    ASSUME NEW e, Sized(e), NEW w, NEW T \in SUBSET Labels(e), Lists(w, T), NEW f, Values(e, T, f),
           NEW s \in [1..Len(w) -> Nat]
    PROVE  Decode(Element(e, w, f), Dims(e, w), s) = Total([i \in 1..Len(w) |-> f[w[i]] * s[i]], Len(w))
  <1>. DEFINE n == Len(w)
              x == PlaceOf(w, f)
              d == Dims(e, w)
  <1>1. n \in Nat /\ Places(n, d, x) /\ Element(e, w, f) = Offset(d, x) /\ DOMAIN w = 1..n
    BY ElementPlace
  <1>2. \A i \in 1..n : x[i] = f[w[i]]
    BY <1>1 DEF PlaceOf
  <1>3. s \in [1..n -> Nat]
    OBVIOUS
  <1>. HIDE DEF n, x, d
  <1>4. Decode(Offset(d, x), d, s) = Total([i \in 1..n |-> x[i] * s[i]], n)
    BY <1>1, <1>3, OffsetLocates DEF Locates
  <1>5. [i \in 1..n |-> x[i] * s[i]] = [i \in 1..n |-> f[w[i]] * s[i]]
    BY <1>2
  <1>. QED  BY <1>1, <1>4, <1>5 DEF n, d

\* The offset of an element depends on its own labels only.
LEMMA ElementAgrees ==
    ASSUME NEW e, NEW w, NEW f, NEW h, \A i \in DOMAIN w : f[w[i]] = h[w[i]]
    PROVE  Element(e, w, f) = Element(e, w, h)
  <1>1. [i \in DOMAIN w |-> f[w[i]]] = [i \in DOMAIN w |-> h[w[i]]]
    OBVIOUS
  <1>. QED  BY <1>1 DEF Element

\* Over two groups of labels: the element of the first in units of the second.
LEMMA ElementJoined ==
    ASSUME NEW e, Sized(e), NEW u, NEW A \in SUBSET Labels(e), Lists(u, A),
           NEW v, NEW B \in SUBSET Labels(e), Lists(v, B), Lists(u \o v, A \cup B),
           NEW f, Values(e, A \cup B, f)
    PROVE  Element(e, u \o v, f) = Element(e, u, f) * Product(Dims(e, v)) + Element(e, v, f)
  <1>1. A \cup B \in SUBSET Labels(e)
    OBVIOUS
  <1>2. Values(e, A, f) /\ Values(e, B, f)
    BY DEF Values
  <1>. DEFINE n == Len(u)
              m == Len(v)
              x == PlaceOf(u, f)
              y == PlaceOf(v, f)
              uv == u \o v
  <1>3. n \in Nat /\ Places(n, Dims(e, u), x) /\ Element(e, u, f) = Offset(Dims(e, u), x)
        /\ DOMAIN u = 1..n
    BY <1>2, ElementPlace
  <1>4. m \in Nat /\ Places(m, Dims(e, v), y) /\ Element(e, v, f) = Offset(Dims(e, v), y)
        /\ DOMAIN v = 1..m
    BY <1>2, ElementPlace
  <1>5. /\ DOMAIN uv = 1..Len(uv) /\ Element(e, uv, f) = Offset(Dims(e, uv), PlaceOf(uv, f))
    BY <1>1, ElementPlace
  <1>6. Dims(e, uv) = Dims(e, u) \o Dims(e, v)
    BY DimsJoined
  <1>7. /\ Len(uv) = n + m /\ \A i \in 1..n : uv[i] = u[i]
        /\ \A i \in 1..m : uv[n + i] = v[i]
    <2>1. u \in Seq(Positive) /\ v \in Seq(Positive)
      BY DEF Lists
    <2>. QED  BY <2>1, Joining
  <1>. HIDE DEF n, m, uv
  <1>8. PlaceOf(uv, f) = x \o y
    <2>. DEFINE p == PlaceOf(uv, f)
                xy == x \o y
    <2>1. x \in [1..n -> Nat] /\ y \in [1..m -> Nat] /\ n \in Nat /\ m \in Nat
      BY <1>3, <1>4 DEF Places
    <2>. HIDE DEF x, y
    <2>2. /\ xy \in [1..(n + m) -> Nat] /\ \A i \in 1..n : xy[i] = x[i]
          /\ \A i \in 1..m : xy[n + i] = y[i]
      BY <2>1, JoinedPlaces
    <2>. HIDE DEF xy
    <2>3. p = [i \in 1..(n + m) |-> f[uv[i]]]
      BY <1>5, <1>7 DEF PlaceOf
    <2>4. ASSUME NEW i \in 1..(n + m) PROVE f[uv[i]] = xy[i]
      <3>1. CASE i \in 1..n
        <4>1. x[i] = f[u[i]]
          BY <1>3, <3>1 DEF x, PlaceOf
        <4>. QED  BY <1>7, <2>2, <3>1, <4>1
      <3>2. CASE i \notin 1..n
        <4>. DEFINE j == i - n
        <4>1. j \in 1..m /\ n + j = i
          BY <1>3, <1>4, <3>2
        <4>. HIDE DEF j
        <4>2. y[j] = f[v[j]]
          BY <1>4, <4>1 DEF y, PlaceOf
        <4>3. uv[i] = v[j] /\ xy[i] = y[j]
          BY <1>7, <2>2, <4>1
        <4>. QED  BY <4>2, <4>3
      <3>. QED  BY <3>1, <3>2
    <2>5. p = xy
      BY <2>2, <2>3, <2>4
    <2>. QED  BY <2>5 DEF xy
  <1>. HIDE DEF x, y
  <1>9. Offset(Dims(e, u) \o Dims(e, v), x \o y)
            = Offset(Dims(e, u), x) * Product(Dims(e, v)) + Offset(Dims(e, v), y)
    <2>. DEFINE d == Dims(e, u)
                b == Dims(e, v)
    <2>1. /\ n \in Nat /\ d \in [1..n -> Positive] /\ x \in [1..n -> Nat]
          /\ m \in Nat /\ b \in [1..m -> Positive] /\ y \in [1..m -> Nat]
      BY <1>3, <1>4 DEF Places
    <2>. HIDE DEF d, b
    <2>2. Offset(d \o b, x \o y) = Offset(d, x) * Product(b) + Offset(b, y)
      BY <2>1, OffsetJoined
    <2>. QED  BY <2>2 DEF d, b
  <1>. QED  BY <1>3, <1>4, <1>5, <1>6, <1>8, <1>9 DEF uv
-----------------------------------------------------------------------------
(* Valuations *)

\* Some natural number bounds the elements of a sequence.
LEMMA SequenceBounded ==
    ASSUME NEW s \in Seq(Positive)
    PROVE  \E cap \in Nat : \A a \in ToSet(s) : a <= cap
  <1>. DEFINE n == Len(s)
              Caps(k) == \E cap \in Nat : \A i \in 1..k : s[i] <= cap
              S == {k \in 0..n : Caps(k)}
  <1>1. n \in Nat /\ \A i \in 1..n : s[i] \in Nat
    BY DEF Positive
  <1>2. 0 \in S
    BY <1>1
  <1>3. ASSUME NEW k \in 0..(n - 1), k \in S PROVE k + 1 \in S
    <2>1. PICK cap \in Nat : \A i \in 1..k : s[i] <= cap
      BY <1>3
    <2>. DEFINE more == cap + s[k + 1]
    <2>2. k + 1 \in 0..n /\ k + 1 \in 1..n /\ s[k + 1] \in Nat
      BY <1>1
    <2>3. more \in Nat /\ \A i \in 1..(k + 1) : s[i] <= more
      <3>1. ASSUME NEW i \in 1..(k + 1) PROVE s[i] <= more
        <4>1. CASE i = k + 1
          BY <2>2, <4>1
        <4>2. CASE i \in 1..k
          <5>1. s[i] <= cap /\ s[i] \in Nat
            BY <1>1, <2>1, <2>2, <4>2
          <5>. QED  BY <2>2, <5>1
        <4>. QED  BY <4>1, <4>2
      <3>. QED  BY <2>2, <3>1
    <2>. QED  BY <2>2, <2>3
  <1>4. n \in S
    <2>. HIDE DEF S
    <2>1. 0..n \subseteq S
      BY <1>1, <1>2, <1>3, Induction
    <2>2. n \in 0..n
      BY <1>1
    <2>. QED  BY <2>1, <2>2
  <1>5. PICK cap \in Nat : \A i \in 1..n : s[i] <= cap
    BY <1>4
  <1>6. \A a \in ToSet(s) : \E i \in 1..n : a = s[i]
    BY DEF ToSet
  <1>. HIDE DEF n
  <1>. QED  BY <1>5, <1>6

\* No axis is longer than MaxDim.
LEMMA MaxDimBounds ==
    ASSUME NEW e, Sized(e)
    PROVE  MaxDim(e) \in Nat /\ \A a \in Labels(e) : Dim(e, a) <= MaxDim(e)
  <1>. DEFINE T == ToSet(e.shape0) \cup ToSet(e.shape1) \cup {1}
              m == CHOOSE x \in T : \A y \in T : x >= y
  <1>1. /\ e.shape0 \in Seq(Positive) /\ e.shape1 \in Seq(Positive)
        /\ e.in0 \in Seq(Positive) /\ e.in1 \in Seq(Positive)
        /\ Len(e.shape0) = Len(e.in0) /\ Len(e.shape1) = Len(e.in1)
    BY DEF Sized, Valid
  <1>2. T \in SUBSET Nat /\ T # {}
    BY <1>1 DEF ToSet, Positive
  <1>3. \E cap \in Nat : \A x \in T : x <= cap
    <2>1. PICK p \in Nat : \A x \in ToSet(e.shape0) : x <= p
      BY <1>1, SequenceBounded
    <2>2. PICK q \in Nat : \A x \in ToSet(e.shape1) : x <= q
      BY <1>1, SequenceBounded
    <2>3. \A x \in T : x <= p + q + 1
      <3>1. ASSUME NEW x \in T PROVE x <= p + q + 1
        <4>1. x \in Nat /\ (x <= p \/ x <= q \/ x = 1)
          BY <1>2, <2>1, <2>2
        <4>. QED  BY <4>1
      <3>. QED  BY <3>1
    <2>. QED  BY <2>3
  <1>. HIDE DEF T
  <1>4. \E x \in T : \A y \in T : y <= x
    BY <1>2, <1>3, LargestExists
  <1>5. \E x \in T : \A y \in T : x >= y
    BY <1>2, <1>4
  <1>6. m \in T /\ \A y \in T : m >= y
    BY <1>5
  <1>7. MaxDim(e) = m
    BY DEF Max, MaxDim, T
  <1>. HIDE DEF m
  <1>8. ASSUME NEW a \in Labels(e) PROVE Dim(e, a) \in T
    <2>1. CASE a \in ToSet(e.in0)
      <3>1. Dim(e, a) = e.shape0[IndexOf(e.in0, a)] /\ IndexOf(e.in0, a) \in 1..Len(e.shape0)
        BY <1>1, <2>1, DimPositive, IndexOfLabel
      <3>. QED  BY <1>1, <3>1 DEF T, ToSet
    <2>2. CASE a \in ToSet(e.in1)
      <3>1. Dim(e, a) = e.shape1[IndexOf(e.in1, a)] /\ IndexOf(e.in1, a) \in 1..Len(e.shape1)
        BY <1>1, <2>2, DimPositive, IndexOfLabel
      <3>. QED  BY <1>1, <3>1 DEF T, ToSet
    <2>. QED  BY <2>1, <2>2 DEF Labels
  <1>. QED  BY <1>2, <1>6, <1>7, <1>8

\* The valuations of some labels give each a place on its axis, and nothing else.
LEMMA ValuationsAre ==
    ASSUME NEW e, Sized(e), NEW T \in SUBSET Labels(e), NEW f
    PROVE  f \in Valuations(e, T) <=> f \in [T -> Nat] /\ Values(e, T, f)
  <1>1. MaxDim(e) \in Nat /\ \A a \in T : Dim(e, a) <= MaxDim(e) /\ Dim(e, a) \in Positive
    BY MaxDimBounds, DimPositive
  <1>2. ASSUME f \in Valuations(e, T) PROVE f \in [T -> Nat] /\ Values(e, T, f)
    <2>1. f \in [T -> 0..(MaxDim(e) - 1)] /\ \A a \in T : f[a] < Dim(e, a)
      BY <1>2 DEF Valuations
    <2>. QED  BY <2>1 DEF Values
  <1>3. ASSUME f \in [T -> Nat], Values(e, T, f) PROVE f \in Valuations(e, T)
    <2>1. \A a \in T : f[a] \in Nat /\ f[a] < Dim(e, a)
      BY <1>3
       DEF Values
    <2>2. \A a \in T : f[a] \in 0..(MaxDim(e) - 1)
      BY <1>1, <2>1 DEF Positive
    <2>3. f \in [T -> 0..(MaxDim(e) - 1)]
      BY <1>3, <2>2
    <2>. QED  BY <2>1, <2>3 DEF Valuations
  <1>. QED  BY <1>2, <1>3

\* A valuation of the output and one of what is contracted make one of all labels.
LEMMA ValuationsJoin ==
    ASSUME NEW e, Sized(e), NEW f \in Valuations(e, ToSet(e.out)),
           NEW g \in Valuations(e, Contracted(e))
    PROVE  /\ Values(e, Labels(e), Merged(f, g))
           /\ \A a \in ToSet(e.out) : Merged(f, g)[a] = f[a]
           /\ \A a \in Contracted(e) : Merged(f, g)[a] = g[a]
  <1>1. /\ ToSet(e.out) \in SUBSET Labels(e) /\ Contracted(e) \in SUBSET Labels(e)
        /\ Labels(e) = ToSet(e.out) \cup Contracted(e)
        /\ \A a \in Contracted(e) : a \notin ToSet(e.out)
    BY DEF Sized, Valid, Solo, Labels, Contracted, Common
  <1>2. /\ f \in [ToSet(e.out) -> Nat] /\ Values(e, ToSet(e.out), f)
        /\ g \in [Contracted(e) -> Nat] /\ Values(e, Contracted(e), g)
    BY <1>1, ValuationsAre
  <1>3. Merged(f, g) = [a \in Labels(e) |-> IF a \in ToSet(e.out) THEN f[a] ELSE g[a]]
    BY <1>1, <1>2 DEF Merged
  <1>. DEFINE h == Merged(f, g)
  <1>4. /\ \A a \in ToSet(e.out) : h[a] = f[a]
        /\ \A a \in Contracted(e) : h[a] = g[a]
        /\ DOMAIN h = Labels(e)
    BY <1>1, <1>3
  <1>. HIDE DEF h
  <1>5. Values(e, Labels(e), h)
    BY <1>1, <1>2, <1>4 DEF Values
  <1>. QED  BY <1>4, <1>5 DEF h
\* The position of a listed label.
LEMMA IndexOfListed ==
    ASSUME NEW w, NEW T, Lists(w, T)
    PROVE  /\ \A i \in 1..Len(w) : IndexOf(w, w[i]) = i
           /\ \A a \in T : IndexOf(w, a) \in 1..Len(w) /\ w[IndexOf(w, a)] = a
  <1>1. /\ DOMAIN w = 1..Len(w)
        /\ \A a \in T : \E i \in 1..Len(w) : w[i] = a
        /\ \A i, j \in 1..Len(w) : w[i] = w[j] => i = j
    BY DEF Lists
  <1>. QED  BY <1>1 DEF IndexOf

\* Every element is that of some valuation.
LEMMA ElementReaches ==
    ASSUME NEW e, Sized(e), NEW w, NEW T \in SUBSET Labels(e), Lists(w, T),
           NEW j \in Nat, j < Product(Dims(e, w))
    PROVE  \E f \in Valuations(e, T) : Element(e, w, f) = j
  <1>. DEFINE n == Len(w)
              d == Dims(e, w)
  <1>1. /\ n \in Nat /\ DOMAIN w = 1..n /\ d \in [1..n -> Positive]
        /\ \A i \in 1..n : d[i] = Dim(e, w[i]) /\ w[i] \in T
    <2>1. w \in Seq(Positive) /\ \A i \in 1..Len(w) : w[i] \in T
      BY DEF Lists
    <2>2. \A i \in 1..n : Dims(e, w)[i] = Dim(e, w[i])
      BY <2>1 DEF Dims
    <2>. QED  BY <2>1, <2>2, DimsPositive
  <1>. HIDE DEF n, d
  <1>2. PICK x : Places(n, d, x) /\ Offset(d, x) = j
    <2>1. Reached(n, d)
      BY <1>1, OffsetReaches
    <2>. QED  BY <2>1 DEF Reached, d
  <1>3. x \in [1..n -> Nat] /\ \A i \in 1..n : x[i] < d[i]
    BY <1>2 DEF Places
  <1>. DEFINE f == [a \in T |-> x[IndexOf(w, a)]]
  <1>4. /\ \A i \in 1..n : IndexOf(w, w[i]) = i
        /\ \A a \in T : IndexOf(w, a) \in 1..n /\ w[IndexOf(w, a)] = a
    BY IndexOfListed DEF n
  <1>5. f \in [T -> Nat] /\ Values(e, T, f)
    <2>1. ASSUME NEW a \in T PROVE f[a] \in Nat /\ f[a] < Dim(e, a)
      <3>1. f[a] = x[IndexOf(w, a)] /\ IndexOf(w, a) \in 1..n /\ w[IndexOf(w, a)] = a
        BY <1>4
      <3>2. d[IndexOf(w, a)] = Dim(e, a)
        BY <1>1, <3>1
      <3>. QED  BY <1>3, <3>1, <3>2
    <2>2. f = [a \in T |-> f[a]] /\ DOMAIN f = T
      OBVIOUS
    <2>. HIDE DEF f
    <2>. QED  BY <2>1, <2>2 DEF Values
  <1>6. PlaceOf(w, f) = x
    <2>1. \A i \in 1..n : f[w[i]] = x[i]
      BY <1>1, <1>4
    <2>2. PlaceOf(w, f) = [i \in 1..n |-> f[w[i]]]
      BY <1>1 DEF PlaceOf
    <2>. HIDE DEF f
    <2>. QED  BY <1>3, <2>1, <2>2
  <1>. HIDE DEF f
  <1>7. f \in Valuations(e, T)
    BY <1>5, ValuationsAre
  <1>8. Element(e, w, f) = Offset(Dims(e, w), PlaceOf(w, f))
    BY <1>5, ElementPlace
  <1>. QED  BY <1>2, <1>6, <1>7, <1>8 DEF d

\* Transferred takes an element of the transposed operand to where it is in the
\* operand: the transposition by the positions of the labels w in s.
LEMMA ElementTurned ==
    ASSUME NEW e, Sized(e), NEW s, NEW w, NEW T \in SUBSET Labels(e), Lists(s, T), Lists(w, T),
           NEW t, t = TransposeConfig(Dims(e, s), Indices(s, w)), NEW f, Values(e, T, f)
    PROVE  Transferred(t, Element(e, w, f)) = Element(e, s, f)
  <1>. DEFINE n == Len(w)
              R == RowStrides(Dims(e, s))
              v == [a \in Positive |-> IF a \in T THEN f[a] * R[IndexOf(s, a)] ELSE 0]
  <1>1. /\ s \in Seq(Positive) /\ w \in Seq(Positive) /\ n \in Nat
        /\ DOMAIN s = 1..Len(s) /\ DOMAIN w = 1..n /\ Len(s) \in Nat
        /\ \A i \in 1..n : w[i] \in T
        /\ \A i \in 1..Len(s) : s[i] \in T
        /\ T \subseteq Positive
    BY DEF Lists
  <1>2. R \in [1..Len(s) -> Nat]
    <2>1. Dims(e, s) \in [1..Len(s) -> Positive]
      BY DimsPositive
    <2>2. RowStrides(Dims(e, s)) \in [1..Len(s) -> Positive]
      BY <1>1, <2>1, RowStridesStep
    <2>. QED  BY <2>2 DEF Positive
  <1>. HIDE DEF R
  <1>3. /\ \A i \in 1..Len(s) : IndexOf(s, s[i]) = i
        /\ \A a \in T : IndexOf(s, a) \in 1..Len(s) /\ s[IndexOf(s, a)] = a
    BY IndexOfListed
  <1>4. v \in [Positive -> Nat]
    <2>1. ASSUME NEW a \in T PROVE f[a] * R[IndexOf(s, a)] \in Nat
      <3>1. f[a] \in Nat /\ R[IndexOf(s, a)] \in Nat
        BY <1>2, <1>3 DEF Values
      <3>. QED  BY <3>1
    <2>. QED  BY <2>1
  <1>5. /\ t.to_shape = Dims(e, w)
        /\ t.perm_strides = [i \in 1..n |-> R[IndexOf(s, w[i])]]
    <2>1. Indices(s, w) = [i \in 1..n |-> IndexOf(s, w[i])]
      BY <1>1 DEF Indices
    <2>2. /\ t.to_shape = Permuted(Dims(e, s), Indices(s, w))
          /\ t.perm_strides = Permuted(R, Indices(s, w))
      BY DEF TransposeConfig, R
    <2>3. /\ t.to_shape = [i \in 1..n |-> Dims(e, s)[IndexOf(s, w[i])]]
          /\ t.perm_strides = [i \in 1..n |-> R[IndexOf(s, w[i])]]
      <3>1. DOMAIN Indices(s, w) = 1..n /\ \A i \in 1..n : Indices(s, w)[i] = IndexOf(s, w[i])
        BY <2>1
      <3>. QED  BY <2>2, <3>1 DEF Permuted
    <2>4. \A i \in 1..n : Dims(e, s)[IndexOf(s, w[i])] = Dim(e, w[i])
      BY <1>1, <1>3 DEF Dims
    <2>5. Dims(e, w) = [i \in 1..n |-> Dim(e, w[i])]
      BY <1>1 DEF Dims
    <2>. QED  BY <2>3, <2>4, <2>5
  <1>6. t.perm_strides \in [1..n -> Nat]
    BY <1>1, <1>2, <1>3, <1>5
  <1>7. Transferred(t, Element(e, w, f)) = Total([i \in 1..n |-> f[w[i]] * t.perm_strides[i]], n)
    <2>1. Transferred(t, Element(e, w, f)) = Decode(Element(e, w, f), Dims(e, w), t.perm_strides)
      BY <1>5 DEF Transferred
    <2>. QED  BY <1>6, <2>1, ElementDecodes
  <1>8. [i \in 1..n |-> f[w[i]] * t.perm_strides[i]] = Along(w, v)
    <2>1. \A i \in 1..n : v[w[i]] = f[w[i]] * t.perm_strides[i]
      BY <1>1, <1>5
    <2>. HIDE DEF v
    <2>. QED  BY <2>1 DEF Along
  <1>9. Element(e, s, f) = Total([i \in 1..Len(s) |-> f[s[i]] * R[i]], Len(s))
    BY ElementTotal DEF R
  <1>10. [i \in 1..Len(s) |-> f[s[i]] * R[i]] = Along(s, v)
    <2>1. \A i \in 1..Len(s) : v[s[i]] = f[s[i]] * R[i]
      BY <1>1, <1>3
    <2>. HIDE DEF v
    <2>. QED  BY <2>1 DEF Along
  <1>. HIDE DEF v
  <1>11. Len(s) = n /\ Total(Along(w, v), n) = Total(Along(s, v), n)
    BY <1>4, ListingsAgree
  <1>. QED  BY <1>7, <1>8, <1>9, <1>10, <1>11
-----------------------------------------------------------------------------
(* The four indices of a matrix product *)

\* The place of a valuation among the batches, rows, columns and steps.
BatchOf(e, f) == Element(e, inplace(e), f)
RowOf(e, f) == Element(e, invariant0(e), f)
ColOf(e, f) == Element(e, invariant1(e), f)
StepOf(e, f) == Element(e, contract(e), f)

Batches(e) == Product(Dims(e, inplace(e)))
Rows(e) == Product(Dims(e, invariant0(e)))
Columns(e) == Product(Dims(e, invariant1(e)))
Steps(e) == Product(Dims(e, contract(e)))

\* The groups list labels, and so do the orders and what they begin with.
LEMMA Halves ==
    ASSUME NEW e, Sized(e)
    PROVE  /\ {Inplaces(e), Contracted(e), Invariants0(e), Invariants1(e), ToSet(e.in0),
               ToSet(e.in1), ToSet(e.out), Inplaces(e) \cup Invariants0(e),
               Inplaces(e) \cup Contracted(e)} \subseteq SUBSET Labels(e)
           /\ Lists(inplace(e) \o invariant0(e), Inplaces(e) \cup Invariants0(e))
           /\ Lists(inplace(e) \o contract(e), Inplaces(e) \cup Contracted(e))
           /\ Lists(e.in0, ToSet(e.in0)) /\ Lists(e.in1, ToSet(e.in1))
  <1>. DEFINE A == Inplaces(e)
              B == Contracted(e)
              F0 == Invariants0(e)
  <1>1. /\ A \in SUBSET Labels(e) /\ B \in SUBSET Labels(e)
        /\ F0 \in SUBSET Labels(e) /\ Invariants1(e) \in SUBSET Labels(e)
        /\ ToSet(e.in0) \in SUBSET Labels(e) /\ ToSet(e.in1) \in SUBSET Labels(e)
        /\ ToSet(e.out) \in SUBSET Labels(e)
        /\ A \cap F0 = {} /\ A \cap B = {}
    BY DEF Sized, Valid, Inplaces, Contracted, Invariants0, Invariants1, Labels, Common
  <1>2. Lists(inplace(e), A) /\ Lists(contract(e), B) /\ Lists(invariant0(e), F0)
    BY Groups
  <1>. HIDE DEF A, B, F0
  <1>3. /\ Lists(inplace(e) \o invariant0(e), A \cup F0)
        /\ Lists(inplace(e) \o contract(e), A \cup B)
    BY <1>1, <1>2, ListsJoined
  <1>4. Lists(e.in0, ToSet(e.in0)) /\ Lists(e.in1, ToSet(e.in1))
    BY DEF Sized, Valid, Lists, ToSet, IsInjective
  <1>. QED  BY <1>1, <1>3, <1>4 DEF A, B, F0

\* Three groups of labels u, v and x, listed by w one after the other, and a
\* valuation of them.
Thrice(e, u, A, v, B, x, X, w, T, f) ==
    /\ {A, B, X, A \cup B} \subseteq SUBSET Labels(e)
    /\ Lists(u, A) /\ Lists(v, B) /\ Lists(x, X) /\ Lists(u \o v, A \cup B)
    /\ w = (u \o v) \o x /\ T = (A \cup B) \cup X /\ Lists(w, T) /\ Values(e, T, f)

\* Over three groups of labels.
LEMMA ElementThrice ==
    ASSUME NEW e, Sized(e), NEW u, NEW A, NEW v, NEW B, NEW x, NEW X, NEW w, NEW T, NEW f,
           Thrice(e, u, A, v, B, x, X, w, T, f)
    PROVE  Element(e, w, f)
               = (Element(e, u, f) * Product(Dims(e, v)) + Element(e, v, f)) * Product(Dims(e, x))
                 + Element(e, x, f)
  <1>. DEFINE uv == u \o v
              Y == A \cup B
  <1>1. /\ A \in SUBSET Labels(e) /\ B \in SUBSET Labels(e) /\ X \in SUBSET Labels(e)
        /\ Y \in SUBSET Labels(e) /\ Lists(u, A) /\ Lists(v, B) /\ Lists(x, X) /\ Lists(uv, Y)
        /\ w = uv \o x /\ T = Y \cup X /\ Lists(w, T) /\ Values(e, T, f)
    BY DEF Thrice
  <1>2. Values(e, Y, f)
    BY <1>1 DEF Values
  <1>3. Element(e, u \o v, f) = Element(e, u, f) * Product(Dims(e, v)) + Element(e, v, f)
    BY <1>1, <1>2, ElementJoined
  <1>. HIDE DEF uv, Y
  <1>4. Lists(uv \o x, Y \cup X) /\ Values(e, Y \cup X, f)
    BY <1>1
  <1>5. Element(e, uv \o x, f) = Element(e, uv, f) * Product(Dims(e, x)) + Element(e, x, f)
    BY <1>1, <1>4, ElementJoined
  <1>. QED  BY <1>1, <1>3, <1>5 DEF uv

\* The element of each operand, in the order of its matrix, and of the result.
LEMMA GroupOffsets ==
    ASSUME NEW e, Sized(e), NEW f
    PROVE  /\ Values(e, ToSet(e.in0), f) =>
                  Element(e, Order0(e), f)
                      = (BatchOf(e, f) * Rows(e) + RowOf(e, f)) * Steps(e) + StepOf(e, f)
           /\ Values(e, ToSet(e.in1), f) =>
                  Element(e, Order1(e), f)
                      = (BatchOf(e, f) * Steps(e) + StepOf(e, f)) * Columns(e) + ColOf(e, f)
           /\ Values(e, ToSet(e.out), f) =>
                  Element(e, OrderOut(e), f)
                      = (BatchOf(e, f) * Rows(e) + RowOf(e, f)) * Columns(e) + ColOf(e, f)
  <1>. DEFINE A == Inplaces(e)
              B == Contracted(e)
              F0 == Invariants0(e)
              F1 == Invariants1(e)
  <1>1. /\ Lists(inplace(e), A) /\ Lists(contract(e), B)
        /\ Lists(invariant0(e), F0) /\ Lists(invariant1(e), F1)
        /\ ToSet(e.in0) = (A \cup F0) \cup B
        /\ ToSet(e.in1) = (A \cup B) \cup F1
        /\ ToSet(e.out) = (A \cup F0) \cup F1
    BY Groups
  <1>2. /\ A \in SUBSET Labels(e) /\ B \in SUBSET Labels(e)
        /\ F0 \in SUBSET Labels(e) /\ F1 \in SUBSET Labels(e)
        /\ A \cup F0 \in SUBSET Labels(e) /\ A \cup B \in SUBSET Labels(e)
        /\ Lists(inplace(e) \o invariant0(e), A \cup F0)
        /\ Lists(inplace(e) \o contract(e), A \cup B)
    BY Halves
  <1>3. /\ Lists(Order0(e), ToSet(e.in0)) /\ Lists(Order1(e), ToSet(e.in1))
        /\ Lists(OrderOut(e), ToSet(e.out))
    BY Orders
  <1>. HIDE DEF A, B, F0, F1
  <1>. DEFINE u == inplace(e)
              v == invariant0(e)
              x == invariant1(e)
              y == contract(e)
              w0 == Order0(e)
              w1 == Order1(e)
              w2 == OrderOut(e)
              T0 == ToSet(e.in0)
              T1 == ToSet(e.in1)
              T2 == ToSet(e.out)
  <1>4. w0 = (u \o v) \o y /\ w1 = (u \o y) \o x /\ w2 = (u \o v) \o x
    BY DEF Order0, Order1, OrderOut
  <1>5. /\ Lists(w0, T0) /\ Lists(w1, T1) /\ Lists(w2, T2)
        /\ T0 = (A \cup F0) \cup B /\ T1 = (A \cup B) \cup F1 /\ T2 = (A \cup F0) \cup F1
        /\ Lists(u, A) /\ Lists(y, B) /\ Lists(v, F0) /\ Lists(x, F1)
        /\ Lists(u \o v, A \cup F0) /\ Lists(u \o y, A \cup B)
    BY <1>1, <1>2, <1>3
  <1>. HIDE DEF u, v, x, y, w0, w1, w2, T0, T1, T2
  <1>6. ASSUME Values(e, T0, f)
        PROVE  Element(e, w0, f) = (Element(e, u, f) * Product(Dims(e, v)) + Element(e, v, f))
                                       * Product(Dims(e, y)) + Element(e, y, f)
    <2>1. /\ A \in SUBSET Labels(e) /\ F0 \in SUBSET Labels(e) /\ B \in SUBSET Labels(e)
          /\ A \cup F0 \in SUBSET Labels(e)
          /\ Lists(u, A) /\ Lists(v, F0) /\ Lists(y, B) /\ Lists(u \o v, A \cup F0)
      BY <1>2, <1>5
    <2>2. w0 = (u \o v) \o y /\ T0 = (A \cup F0) \cup B /\ Lists(w0, T0) /\ Values(e, T0, f)
      BY <1>4, <1>5, <1>6
    <2>3. Thrice(e, u, A, v, F0, y, B, w0, T0, f)
      BY <2>1, <2>2, Zenon DEF Thrice
    <2>. QED  BY <2>3, ElementThrice
  <1>7. ASSUME Values(e, T1, f)
        PROVE  Element(e, w1, f) = (Element(e, u, f) * Product(Dims(e, y)) + Element(e, y, f))
                                       * Product(Dims(e, x)) + Element(e, x, f)
    <2>1. /\ A \in SUBSET Labels(e) /\ B \in SUBSET Labels(e) /\ F1 \in SUBSET Labels(e)
          /\ A \cup B \in SUBSET Labels(e)
          /\ Lists(u, A) /\ Lists(y, B) /\ Lists(x, F1) /\ Lists(u \o y, A \cup B)
      BY <1>2, <1>5
    <2>2. w1 = (u \o y) \o x /\ T1 = (A \cup B) \cup F1 /\ Lists(w1, T1) /\ Values(e, T1, f)
      BY <1>4, <1>5, <1>7
    <2>3. Thrice(e, u, A, y, B, x, F1, w1, T1, f)
      BY <2>1, <2>2, Zenon DEF Thrice
    <2>. QED  BY <2>3, ElementThrice
  <1>8. ASSUME Values(e, T2, f)
        PROVE  Element(e, w2, f) = (Element(e, u, f) * Product(Dims(e, v)) + Element(e, v, f))
                                       * Product(Dims(e, x)) + Element(e, x, f)
    <2>1. /\ A \in SUBSET Labels(e) /\ F0 \in SUBSET Labels(e) /\ F1 \in SUBSET Labels(e)
          /\ A \cup F0 \in SUBSET Labels(e)
          /\ Lists(u, A) /\ Lists(v, F0) /\ Lists(x, F1) /\ Lists(u \o v, A \cup F0)
      BY <1>2, <1>5
    <2>2. w2 = (u \o v) \o x /\ T2 = (A \cup F0) \cup F1 /\ Lists(w2, T2) /\ Values(e, T2, f)
      BY <1>4, <1>5, <1>8
    <2>3. Thrice(e, u, A, v, F0, x, F1, w2, T2, f)
      BY <2>1, <2>2, Zenon DEF Thrice
    <2>. QED  BY <2>3, ElementThrice
  <1>. QED  BY <1>6, <1>7, <1>8
         DEF u, v, x, y, w0, w1, w2, T0, T1, T2, BatchOf, RowOf, ColOf, StepOf, Rows, Columns, Steps
\* Two numbers in the same units are equal if their digits are.
LEMMA DigitsUnique ==
    ASSUME NEW D \in Positive, NEW a \in Nat, NEW x \in 0..(D - 1),
           NEW b \in Nat, NEW y \in 0..(D - 1), a * D + x = b * D + y
    PROVE  a = b /\ x = y
  <1>. DEFINE s == a * D + x
  <1>1. s \in Nat
    BY DEF Positive
  <1>2. s \div D = a /\ s % D = x
    <2>1. s = a * D + x
      OBVIOUS
    <2>. HIDE DEF s
    <2>. QED  BY <1>1, <2>1, DivisionUnique
  <1>3. s \div D = b /\ s % D = y
    <2>1. s = b * D + y
      OBVIOUS
    <2>. HIDE DEF s
    <2>. QED  BY <1>1, <2>1, DivisionUnique
  <1>. QED  BY <1>2, <1>3

\* A row of a batch lies in the matrix, and an element of the row.
LEMMA MatrixInside ==
    ASSUME NEW I \in Positive, NEW R \in Positive, NEW D \in Positive,
           NEW i \in 0..(I - 1), NEW m \in 0..(R - 1), NEW n \in 0..(D - 1)
    PROVE  /\ i * R + m \in 0..(I * R - 1)
           /\ (i * R + m) * D + n \in Nat /\ (i * R + m) * D + n < (I * R) * D
  <1>1. i \in Nat /\ I \in Nat /\ R \in Nat /\ D \in Nat /\ m \in Nat /\ n \in Nat
        /\ i < I /\ m < R /\ n < D
    BY DEF Positive
  <1>2. i * R + R <= I * R /\ i * R \in Nat /\ I * R \in Nat
    BY <1>1, SpansApart
  <1>. DEFINE j == i * R + m
              J == I * R
  <1>3. j \in Nat /\ j < J /\ J \in Nat
    BY <1>1, <1>2
  <1>. HIDE DEF j, J
  <1>4. j * D + D <= J * D /\ j * D \in Nat /\ J * D \in Nat
    BY <1>1, <1>3, SpansApart
  <1>5. j * D + n \in Nat /\ j * D + n < J * D
    BY <1>1, <1>4
  <1>. QED  BY <1>3, <1>5 DEF j, J

\* No two rows of batches, and elements of rows, are at the same place.
LEMMA MatrixUnique ==
    ASSUME NEW I \in Positive, NEW R \in Positive, NEW D \in Positive,
           NEW b \in 0..(I - 1), NEW r \in 0..(R - 1), NEW d \in 0..(D - 1),
           NEW i \in 0..(I - 1), NEW m \in 0..(R - 1), NEW n \in 0..(D - 1),
           (b * R + r) * D + d = (i * R + m) * D + n
    PROVE  b = i /\ r = m /\ d = n
  <1>1. b * R + r \in Nat /\ i * R + m \in Nat
    <2>1. b * R + r \in 0..(I * R - 1) /\ i * R + m \in 0..(I * R - 1)
      BY MatrixInside
    <2>. QED  BY <2>1
  <1>2. b * R + r = i * R + m /\ d = n
    <2>. DEFINE p == b * R + r
                q == i * R + m
    <2>1. p \in Nat /\ q \in Nat /\ p * D + d = q * D + n
      BY <1>1
    <2>. HIDE DEF p, q
    <2>2. p = q /\ d = n
      BY <2>1, DigitsUnique
    <2>. QED  BY <2>2 DEF p, q
  <1>3. b \in Nat /\ i \in Nat
    BY DEF Positive
  <1>. QED  BY <1>2, <1>3, DigitsUnique

\* The indices of a valuation lie within the sizes.
LEMMA IndicesInside ==
    ASSUME NEW e, Sized(e), NEW f
    PROVE  /\ Batches(e) \in Positive /\ Rows(e) \in Positive
           /\ Columns(e) \in Positive /\ Steps(e) \in Positive
           /\ Values(e, ToSet(e.out), f) =>
                  /\ BatchOf(e, f) \in 0..(Batches(e) - 1) /\ RowOf(e, f) \in 0..(Rows(e) - 1)
                  /\ ColOf(e, f) \in 0..(Columns(e) - 1)
           /\ Values(e, Contracted(e), f) => StepOf(e, f) \in 0..(Steps(e) - 1)
  <1>1. /\ Batches(e) \in Positive /\ Rows(e) \in Positive
        /\ Columns(e) \in Positive /\ Steps(e) \in Positive
    BY SizesPositive DEF Batches, Rows, Columns, Steps
  <1>2. ASSUME NEW w, NEW T \in SUBSET Labels(e), Lists(w, T), Values(e, T, f)
        PROVE  Element(e, w, f) \in 0..(Product(Dims(e, w)) - 1)
    <2>1. Product(Dims(e, w)) \in Nat
      BY <1>2, DimsPositive DEF Positive
    <2>. QED  BY <1>2, <2>1, ElementInside
  <1>3. /\ Inplaces(e) \in SUBSET Labels(e) /\ Invariants0(e) \in SUBSET Labels(e)
        /\ Invariants1(e) \in SUBSET Labels(e) /\ Contracted(e) \in SUBSET Labels(e)
    BY Halves
  <1>4. /\ Lists(inplace(e), Inplaces(e)) /\ Lists(contract(e), Contracted(e))
        /\ Lists(invariant0(e), Invariants0(e)) /\ Lists(invariant1(e), Invariants1(e))
        /\ ToSet(e.out) = (Inplaces(e) \cup Invariants0(e)) \cup Invariants1(e)
    BY Groups
  <1>5. ASSUME Values(e, ToSet(e.out), f)
        PROVE  Values(e, Inplaces(e), f) /\ Values(e, Invariants0(e), f)
               /\ Values(e, Invariants1(e), f)
    BY <1>4, <1>5 DEF Values
  <1>6. ASSUME Values(e, ToSet(e.out), f)
        PROVE  /\ BatchOf(e, f) \in 0..(Batches(e) - 1) /\ RowOf(e, f) \in 0..(Rows(e) - 1)
               /\ ColOf(e, f) \in 0..(Columns(e) - 1)
    BY <1>2, <1>3, <1>4, <1>5, <1>6 DEF BatchOf, RowOf, ColOf, Batches, Rows, Columns
  <1>7. ASSUME Values(e, Contracted(e), f) PROVE StepOf(e, f) \in 0..(Steps(e) - 1)
    BY <1>2, <1>3, <1>4, <1>7 DEF StepOf, Steps
  <1>. QED  BY <1>1, <1>6, <1>7

\* Every batch, row and column is that of some valuation of the output.
LEMMA IndicesReached ==
    ASSUME NEW e, Sized(e), NEW i \in 0..(Batches(e) - 1), NEW m \in 0..(Rows(e) - 1),
           NEW n \in 0..(Columns(e) - 1)
    PROVE  \E f \in Valuations(e, ToSet(e.out)) :
               BatchOf(e, f) = i /\ RowOf(e, f) = m /\ ColOf(e, f) = n
  <1>. DEFINE I == Batches(e)
              R == Rows(e)
              D == Columns(e)
              j == (i * R + m) * D + n
  <1>1. I \in Positive /\ R \in Positive /\ D \in Positive
    BY IndicesInside
  <1>2. Lists(OrderOut(e), ToSet(e.out)) /\ Product(Dims(e, OrderOut(e))) = (I * R) * D
    BY Orders DEF Batches, Rows, Columns
  <1>3. ToSet(e.out) \in SUBSET Labels(e)
    BY Halves
  <1>4. i \in 0..(I - 1) /\ m \in 0..(R - 1) /\ n \in 0..(D - 1)
    OBVIOUS
  <1>. HIDE DEF I, R, D
  <1>5. j \in Nat /\ j < (I * R) * D
    BY <1>1, <1>4, MatrixInside
  <1>. HIDE DEF j
  <1>6. PICK f \in Valuations(e, ToSet(e.out)) : Element(e, OrderOut(e), f) = j
    BY <1>2, <1>3, <1>5, ElementReaches
  <1>7. Values(e, ToSet(e.out), f)
    BY <1>3, ValuationsAre
  <1>. DEFINE b == BatchOf(e, f)
              r == RowOf(e, f)
              d == ColOf(e, f)
  <1>8. b \in 0..(I - 1) /\ r \in 0..(R - 1) /\ d \in 0..(D - 1)
    BY <1>7, IndicesInside DEF I, R, D
  <1>9. (b * R + r) * D + d = (i * R + m) * D + n
    BY <1>6, <1>7, GroupOffsets DEF j, I, R, D
  <1>. HIDE DEF b, r, d
  <1>10. b = i /\ r = m /\ d = n
    BY <1>1, <1>4, <1>8, <1>9, MatrixUnique
  <1>. QED  BY <1>10 DEF b, r, d
\* A configuration of the matrix product that e asks for.
Prepared(c, e) ==
    /\ c.n_inplace = Batches(e) /\ c.n_free0 = Rows(e)
    /\ c.n_free1 = Columns(e) /\ c.n_contract = Steps(e)
    /\ c.tpose0 = TransposeConfig(Dims(e, e.in0), Indices(e.in0, Order0(e)))
    /\ c.tpose1 = TransposeConfig(Dims(e, e.in1), Indices(e.in1, Order1(e)))
    /\ c.tposeOut = TransposeConfig(Dims(e, OrderOut(e)), Indices(OrderOut(e), e.out))
    /\ c.tpose0.N = (Batches(e) * Rows(e)) * Steps(e)
    /\ c.tpose1.N = (Batches(e) * Steps(e)) * Columns(e)
    /\ c.tposeOut.N = Product(OutShape(e))

\* The product of step k in row m and column n of batch i, and all of a place.
TermAt(c, i, m, n, k) ==
    <<Transferred(c.tpose0, (i * c.n_free0 + m) * c.n_contract + k),
      Transferred(c.tpose1, (i * c.n_contract + k) * c.n_free1 + n)>>
TermsAt(c, i, m, n) == {TermAt(c, i, m, n, k) : k \in 0..(c.n_contract - 1)}

\* The elements that a valuation of all labels multiplies are that product.
LEMMA TermOf ==
    ASSUME NEW e, Sized(e), NEW c, Prepared(c, e), NEW h, Values(e, Labels(e), h)
    PROVE  <<Element(e, e.in0, h), Element(e, e.in1, h)>>
               = TermAt(c, BatchOf(e, h), RowOf(e, h), ColOf(e, h), StepOf(e, h))
  <1>1. /\ ToSet(e.in0) \in SUBSET Labels(e) /\ ToSet(e.in1) \in SUBSET Labels(e)
        /\ Lists(e.in0, ToSet(e.in0)) /\ Lists(e.in1, ToSet(e.in1))
    BY Halves
  <1>2. Lists(Order0(e), ToSet(e.in0)) /\ Lists(Order1(e), ToSet(e.in1))
    BY Orders
  <1>3. Values(e, ToSet(e.in0), h) /\ Values(e, ToSet(e.in1), h)
    BY <1>1 DEF Values
  <1>4. Transferred(c.tpose0, Element(e, Order0(e), h)) = Element(e, e.in0, h)
    <2>1. c.tpose0 = TransposeConfig(Dims(e, e.in0), Indices(e.in0, Order0(e)))
      BY DEF Prepared
    <2>. QED  BY <1>1, <1>2, <1>3, <2>1, ElementTurned
  <1>5. Transferred(c.tpose1, Element(e, Order1(e), h)) = Element(e, e.in1, h)
    <2>1. c.tpose1 = TransposeConfig(Dims(e, e.in1), Indices(e.in1, Order1(e)))
      BY DEF Prepared
    <2>. QED  BY <1>1, <1>2, <1>3, <2>1, ElementTurned
  <1>6. /\ Element(e, Order0(e), h)
             = (BatchOf(e, h) * Rows(e) + RowOf(e, h)) * Steps(e) + StepOf(e, h)
        /\ Element(e, Order1(e), h)
             = (BatchOf(e, h) * Steps(e) + StepOf(e, h)) * Columns(e) + ColOf(e, h)
    BY <1>3, GroupOffsets
  <1>7. c.n_free0 = Rows(e) /\ c.n_free1 = Columns(e) /\ c.n_contract = Steps(e)
    BY DEF Prepared
  <1>. QED  BY <1>4, <1>5, <1>6, <1>7 DEF TermAt

\* The indices of a joint valuation: those of the output's and of the contracted one.
LEMMA JointIndices ==
    ASSUME NEW e, Sized(e), NEW f \in Valuations(e, ToSet(e.out)),
           NEW g \in Valuations(e, Contracted(e))
    PROVE  /\ BatchOf(e, Merged(f, g)) = BatchOf(e, f) /\ RowOf(e, Merged(f, g)) = RowOf(e, f)
           /\ ColOf(e, Merged(f, g)) = ColOf(e, f) /\ StepOf(e, Merged(f, g)) = StepOf(e, g)
           /\ Values(e, Labels(e), Merged(f, g))
  <1>. DEFINE h == Merged(f, g)
  <1>1. /\ Values(e, Labels(e), h)
        /\ \A a \in ToSet(e.out) : h[a] = f[a]
        /\ \A a \in Contracted(e) : h[a] = g[a]
    BY ValuationsJoin
  <1>. HIDE DEF h
  <1>2. ASSUME NEW w, NEW T, Lists(w, T), NEW x, NEW y, \A a \in T : x[a] = y[a]
        PROVE  Element(e, w, x) = Element(e, w, y)
    <2>1. DOMAIN w = 1..Len(w) /\ \A i \in 1..Len(w) : w[i] \in T
      BY <1>2 DEF Lists
    <2>. QED  BY <1>2, <2>1, ElementAgrees
  <1>3. /\ Lists(inplace(e), Inplaces(e)) /\ Lists(contract(e), Contracted(e))
        /\ Lists(invariant0(e), Invariants0(e)) /\ Lists(invariant1(e), Invariants1(e))
        /\ ToSet(e.out) = (Inplaces(e) \cup Invariants0(e)) \cup Invariants1(e)
    BY Groups
  <1>4. /\ \A a \in Inplaces(e) : h[a] = f[a]
        /\ \A a \in Invariants0(e) : h[a] = f[a]
        /\ \A a \in Invariants1(e) : h[a] = f[a]
    BY <1>1, <1>3
  <1>5. /\ Element(e, inplace(e), h) = Element(e, inplace(e), f)
        /\ Element(e, invariant0(e), h) = Element(e, invariant0(e), f)
        /\ Element(e, invariant1(e), h) = Element(e, invariant1(e), f)
        /\ Element(e, contract(e), h) = Element(e, contract(e), g)
    BY <1>1, <1>2, <1>3, <1>4
  <1>. QED  BY <1>1, <1>5 DEF h, BatchOf, RowOf, ColOf, StepOf

\* What the equation sums in an element of the result are the products there.
LEMMA EinsumTerms ==
    ASSUME NEW e, Sized(e), NEW c, Prepared(c, e), NEW f \in Valuations(e, ToSet(e.out))
    PROVE  {<<Element(e, e.in0, Merged(f, g)), Element(e, e.in1, Merged(f, g))>> :
                g \in Valuations(e, Contracted(e))}
               = TermsAt(c, BatchOf(e, f), RowOf(e, f), ColOf(e, f))
  <1>. DEFINE G == Valuations(e, Contracted(e))
              pair(g) == <<Element(e, e.in0, Merged(f, g)), Element(e, e.in1, Merged(f, g))>>
              term(k) == TermAt(c, BatchOf(e, f), RowOf(e, f), ColOf(e, f), k)
              C == c.n_contract
  <1>1. C = Steps(e) /\ Contracted(e) \in SUBSET Labels(e) /\ Lists(contract(e), Contracted(e))
    BY Halves, Groups DEF Prepared
  <1>2. ASSUME NEW g \in G PROVE pair(g) = term(StepOf(e, g)) /\ StepOf(e, g) \in 0..(C - 1)
    <2>1. Values(e, Contracted(e), g)
      BY <1>1, ValuationsAre
    <2>2. StepOf(e, g) \in 0..(C - 1)
      BY <1>1, <2>1, IndicesInside
    <2>. DEFINE h == Merged(f, g)
    <2>3. /\ BatchOf(e, h) = BatchOf(e, f) /\ RowOf(e, h) = RowOf(e, f)
          /\ ColOf(e, h) = ColOf(e, f) /\ StepOf(e, h) = StepOf(e, g)
          /\ Values(e, Labels(e), h)
      BY JointIndices
    <2>. HIDE DEF h
    <2>4. <<Element(e, e.in0, h), Element(e, e.in1, h)>>
              = TermAt(c, BatchOf(e, h), RowOf(e, h), ColOf(e, h), StepOf(e, h))
      BY <2>3, TermOf
    <2>. QED  BY <2>2, <2>3, <2>4 DEF h
  <1>3. ASSUME NEW k \in 0..(C - 1) PROVE \E g \in G : StepOf(e, g) = k
    <2>1. k \in Nat /\ k < Product(Dims(e, contract(e)))
      <3>1. C \in Positive
        BY <1>1, IndicesInside
      <3>2. k \in Nat /\ k < C
        BY <3>1 DEF Positive
      <3>. QED  BY <1>1, <3>2 DEF Steps
    <2>. QED  BY <1>1, <2>1, ElementReaches DEF StepOf
  <1>. HIDE DEF G, pair, term, C
  <1>4. {pair(g) : g \in G} = {term(k) : k \in 0..(C - 1)}
    BY <1>2, <1>3
  <1>. QED  BY <1>4 DEF G, pair, term, C, TermsAt
-----------------------------------------------------------------------------
(* Results *)

\* The products of a configuration, stored wherever place says.
Placed(c, place) ==
    {<<place[<<i, m, n>>], TermsAt(c, i, m, n)>> :
        i \in 0..(c.n_inplace - 1), m \in 0..(c.n_free0 - 1), n \in 0..(c.n_free1 - 1)}

\* ... in row-major order of batch, row and column.
RowMajorPlace(c) ==
    [p \in Nat \X Nat \X Nat |-> (p[1] * c.n_free0 + p[2]) * c.n_free1 + p[3]]

\* The products are what the equation asks for if each is stored at the element
\* of the result whose labels have its indices.
LEMMA PlacedIsEinsum ==
    ASSUME NEW e, Sized(e), NEW c, Prepared(c, e), NEW place,
           \A f \in Valuations(e, ToSet(e.out)) :
               place[<<BatchOf(e, f), RowOf(e, f), ColOf(e, f)>>] = Element(e, e.out, f)
    PROVE  Placed(c, place) = Einsum(e)
  <1>. DEFINE F == Valuations(e, ToSet(e.out))
              I == c.n_inplace
              R == c.n_free0
              D == c.n_free1
              stored(i, m, n) == <<place[<<i, m, n>>], TermsAt(c, i, m, n)>>
              of(f) == stored(BatchOf(e, f), RowOf(e, f), ColOf(e, f))
  <1>1. I = Batches(e) /\ R = Rows(e) /\ D = Columns(e)
    BY DEF Prepared
  <1>2. ASSUME NEW f \in F
        PROVE  /\ BatchOf(e, f) \in 0..(I - 1) /\ RowOf(e, f) \in 0..(R - 1)
               /\ ColOf(e, f) \in 0..(D - 1)
    <2>1. ToSet(e.out) \in SUBSET Labels(e)
      BY Halves
    <2>2. Values(e, ToSet(e.out), f)
      BY <2>1, ValuationsAre
    <2>. QED  BY <1>1, <2>2, IndicesInside
  <1>3. Einsum(e) = {of(f) : f \in F}
    <2>1. ASSUME NEW f \in F
          PROVE  <<Element(e, e.out, f),
                   {<<Element(e, e.in0, Merged(f, g)), Element(e, e.in1, Merged(f, g))>> :
                        g \in Valuations(e, Contracted(e))}>> = of(f)
      BY EinsumTerms
    <2>. HIDE DEF of
    <2>. QED  BY <2>1 DEF Einsum
  <1>4. ASSUME NEW i \in 0..(I - 1), NEW m \in 0..(R - 1), NEW n \in 0..(D - 1)
        PROVE  \E f \in F : BatchOf(e, f) = i /\ RowOf(e, f) = m /\ ColOf(e, f) = n
    BY <1>1, IndicesReached
  <1>5. Placed(c, place) = {stored(i, m, n) : i \in 0..(I - 1), m \in 0..(R - 1), n \in 0..(D - 1)}
    BY DEF Placed
  <1>. HIDE DEF F, I, R, D, stored
  <1>6. Placed(c, place) \subseteq Einsum(e)
    <2>. SUFFICES ASSUME NEW i \in 0..(I - 1), NEW m \in 0..(R - 1), NEW n \in 0..(D - 1)
                  PROVE  stored(i, m, n) \in Einsum(e)
      BY <1>5
    <2>1. PICK f \in F : BatchOf(e, f) = i /\ RowOf(e, f) = m /\ ColOf(e, f) = n
      BY <1>4
    <2>. QED  BY <1>3, <2>1
  <1>7. Einsum(e) \subseteq Placed(c, place)
    <2>. SUFFICES ASSUME NEW f \in F PROVE of(f) \in Placed(c, place)
      BY <1>3
    <2>. QED  BY <1>2, <1>5
  <1>. QED  BY <1>6, <1>7

\* The products in row-major order, transposed, are what the equation asks for.
LEMMA TurnedIsEinsum ==
    ASSUME NEW e, Sized(e), NEW c, Prepared(c, e)
    PROVE  Transpose(c.tposeOut, Placed(c, RowMajorPlace(c))) = Einsum(e)
  <1>. DEFINE F == Valuations(e, ToSet(e.out))
              t == c.tposeOut
              I == c.n_inplace
              R == c.n_free0
              D == c.n_free1
              at(i, m, n) == (i * R + m) * D + n
              stored(i, m, n) == <<at(i, m, n), TermsAt(c, i, m, n)>>
              S == Placed(c, RowMajorPlace(c))
              value(f) == <<Element(e, e.out, f),
                            TermsAt(c, BatchOf(e, f), RowOf(e, f), ColOf(e, f))>>
  <1>1. /\ I = Batches(e) /\ R = Rows(e) /\ D = Columns(e)
        /\ t = TransposeConfig(Dims(e, OrderOut(e)), Indices(OrderOut(e), e.out))
    BY DEF Prepared
  <1>2. /\ ToSet(e.out) \in SUBSET Labels(e) /\ Lists(e.out, ToSet(e.out))
        /\ Lists(OrderOut(e), ToSet(e.out))
    BY Halves, Groups, Orders
  <1>3. ASSUME NEW f \in F
        PROVE  /\ BatchOf(e, f) \in 0..(I - 1) /\ RowOf(e, f) \in 0..(R - 1)
               /\ ColOf(e, f) \in 0..(D - 1)
               /\ Element(e, e.out, f) \in Nat /\ Element(e, e.out, f) < Product(OutShape(e))
               /\ Transferred(t, Element(e, e.out, f))
                      = at(BatchOf(e, f), RowOf(e, f), ColOf(e, f))
    <2>1. Values(e, ToSet(e.out), f)
      BY <1>2, ValuationsAre
    <2>2. Element(e, OrderOut(e), f)
              = (BatchOf(e, f) * Rows(e) + RowOf(e, f)) * Columns(e) + ColOf(e, f)
      BY <2>1, GroupOffsets
    <2>3. Transferred(t, Element(e, e.out, f)) = Element(e, OrderOut(e), f)
      BY <1>1, <1>2, <2>1, ElementTurned
    <2>4. Element(e, e.out, f) \in Nat /\ Element(e, e.out, f) < Product(OutShape(e))
      BY <1>2, <2>1, ElementInside DEF OutShape
    <2>. QED  BY <1>1, <2>1, <2>2, <2>3, <2>4, IndicesInside
  <1>4. Einsum(e) = {value(f) : f \in F}
    <2>1. ASSUME NEW f \in F
          PROVE  <<Element(e, e.out, f),
                   {<<Element(e, e.in0, Merged(f, g)), Element(e, e.in1, Merged(f, g))>> :
                        g \in Valuations(e, Contracted(e))}>> = value(f)
      BY EinsumTerms
    <2>. HIDE DEF value
    <2>. QED  BY <2>1 DEF Einsum
  <1>5. S = {stored(i, m, n) : i \in 0..(I - 1), m \in 0..(R - 1), n \in 0..(D - 1)}
    <2>1. \A i, m, n \in Nat : RowMajorPlace(c)[<<i, m, n>>] = at(i, m, n)
      BY DEF RowMajorPlace
    <2>2. \A k \in Nat : 0..(k - 1) \subseteq Nat
      OBVIOUS
    <2>3. I \in Nat /\ R \in Nat /\ D \in Nat
      BY <1>1, IndicesInside DEF Positive
    <2>. DEFINE placed(i, m, n) == <<RowMajorPlace(c)[<<i, m, n>>], TermsAt(c, i, m, n)>>
    <2>4. ASSUME NEW i \in 0..(I - 1), NEW m \in 0..(R - 1), NEW n \in 0..(D - 1)
          PROVE  placed(i, m, n) = stored(i, m, n)
      BY <2>1, <2>2, <2>3
    <2>5. S = {placed(i, m, n) : i \in 0..(I - 1), m \in 0..(R - 1), n \in 0..(D - 1)}
      BY DEF Placed
    <2>. HIDE DEF S, placed, stored, at, I, R, D
    <2>. QED  BY <2>4, <2>5
  <1>6. t.N = Product(OutShape(e)) /\ t.N \in Nat
    <2>1. OutShape(e) \in [1..Len(e.out) -> Positive] /\ Product(OutShape(e)) \in Positive
      BY <1>2, DimsPositive DEF OutShape
    <2>. QED  BY <2>1 DEF Prepared, Positive
  <1>. HIDE DEF S
  <1>7. Transpose(t, S) \subseteq Einsum(e)
    <2>. SUFFICES ASSUME NEW j \in 0..(t.N - 1), NEW s \in S, s[1] = Transferred(t, j)
                  PROVE  <<j, s[2]>> \in Einsum(e)
      BY DEF Transpose
    <2>1. PICK i \in 0..(I - 1), m \in 0..(R - 1), n \in 0..(D - 1) : s = stored(i, m, n)
      BY <1>5
    <2>2. j \in Nat /\ j < Product(Dims(e, e.out))
      BY <1>6 DEF OutShape
    <2>3. PICK f \in F : Element(e, e.out, f) = j
      BY <1>2, <2>2, ElementReaches
    <2>. DEFINE b == BatchOf(e, f)
                r == RowOf(e, f)
                d == ColOf(e, f)
    <2>4. /\ b \in 0..(I - 1) /\ r \in 0..(R - 1) /\ d \in 0..(D - 1)
          /\ at(i, m, n) = at(b, r, d)
      BY <1>3, <2>1, <2>3
    <2>5. I \in Positive /\ R \in Positive /\ D \in Positive
      BY <1>1, IndicesInside
    <2>6. i = b /\ m = r /\ n = d
      <3>. HIDE DEF I, R, D, b, r, d
      <3>. QED  BY <2>4, <2>5, MatrixUnique
    <2>. QED  BY <1>4, <2>1, <2>3, <2>6
  <1>8. Einsum(e) \subseteq Transpose(t, S)
    <2>. SUFFICES ASSUME NEW f \in F PROVE value(f) \in Transpose(t, S)
      BY <1>4
    <2>. DEFINE j == Element(e, e.out, f)
                s == stored(BatchOf(e, f), RowOf(e, f), ColOf(e, f))
    <2>1. s \in S /\ j \in 0..(t.N - 1) /\ s[1] = Transferred(t, j) /\ value(f) = <<j, s[2]>>
      BY <1>3, <1>5, <1>6
    <2>. HIDE DEF s, j, value
    <2>. QED  BY <2>1 DEF Transpose
  <1>. QED  BY <1>7, <1>8 DEF S
\* The shape of an operand is the sizes of its labels.
LEMMA ShapeIsDims ==
    ASSUME NEW e, Sized(e)
    PROVE  e.shape0 = Dims(e, e.in0) /\ e.shape1 = Dims(e, e.in1)
  <1>1. /\ e.in0 \in Seq(Positive) /\ e.in1 \in Seq(Positive)
        /\ e.shape0 \in Seq(Positive) /\ e.shape1 \in Seq(Positive)
        /\ Len(e.shape0) = Len(e.in0) /\ Len(e.shape1) = Len(e.in1)
    BY DEF Sized, Valid
  <1>2. Lists(e.in0, ToSet(e.in0)) /\ Lists(e.in1, ToSet(e.in1))
    BY Halves
  <1>3. ASSUME NEW i \in 1..Len(e.in0) PROVE Dim(e, e.in0[i]) = e.shape0[i]
    <2>1. e.in0[i] \in ToSet(e.in0)
      BY <1>1 DEF ToSet
    <2>2. IndexOf(e.in0, e.in0[i]) = i
      BY <1>2, IndexOfListed
    <2>. QED  BY <2>1, <2>2, DimPositive DEF Labels
  <1>4. ASSUME NEW i \in 1..Len(e.in1) PROVE Dim(e, e.in1[i]) = e.shape1[i]
    <2>1. e.in1[i] \in ToSet(e.in1)
      BY <1>1 DEF ToSet
    <2>2. IndexOf(e.in1, e.in1[i]) = i
      BY <1>2, IndexOfListed
    <2>. QED  BY <2>1, <2>2, DimPositive DEF Labels
  <1>5. /\ DOMAIN e.in0 = 1..Len(e.in0) /\ e.shape0 = [i \in 1..Len(e.in0) |-> e.shape0[i]]
        /\ DOMAIN e.in1 = 1..Len(e.in1) /\ e.shape1 = [i \in 1..Len(e.in1) |-> e.shape1[i]]
    BY <1>1
  <1>. QED  BY <1>3, <1>4, <1>5 DEF Dims

\* The builder prepares that product.
LEMMA MatmulPrepared ==
    ASSUME NEW e, Sized(e), NEW env
    PROVE  Prepared(EinsumConfig(e, MatmulRecipe(e, env), env), e)
  <1>. DEFINE r == MatmulRecipe(e, env)
              c == EinsumConfig(e, r, env)
              natural == inplace(e) \o invariant0(e) \o invariant1(e)
  <1>1. /\ r.in_transpose_idxs[1] = Indices(e.in0, Order0(e))
        /\ r.in_transpose_idxs[2] = Indices(e.in1, Order1(e))
        /\ r.out_interpret_shape = Dims(e, OrderOut(e))
        /\ r.out_transpose_idxs = Indices(OrderOut(e), e.out)
        /\ r.L0 = Rows(e) /\ r.L1 = Columns(e) /\ r.I = Batches(e) /\ r.C = Steps(e)
    <2>1. /\ r.in_transpose_idxs =
                 <<Indices(e.in0, inplace(e) \o invariant0(e) \o contract(e)),
                   Indices(e.in1, inplace(e) \o contract(e) \o invariant1(e))>>
          /\ r.out_interpret_shape = Dims(e, natural)
          /\ r.out_transpose_idxs = Indices(natural, e.out)
          /\ r.L0 = Product(Dims(e, invariant0(e)))
          /\ r.L1 = Product(Dims(e, invariant1(e)))
          /\ r.I = Product(Dims(e, inplace(e)))
          /\ r.C = Product(Dims(e, contract(e)))
      BY MatmulFields
    <2>. HIDE DEF r
    <2>. QED  BY <2>1 DEF Order0, Order1, OrderOut, Rows, Columns, Batches, Steps
  <1>2. /\ c.tpose0.N = (r.I * r.L0) * r.C /\ c.tpose1.N = (r.I * r.C) * r.L1
        /\ c.tposeOut.N = (r.I * r.L0) * r.L1
        /\ IsTranspose(c.tposeOut) /\ c.tposeOut.to_shape = Dims(e, e.out)
    BY MatmulTurns
  <1>3. c.tposeOut.N = Product(OutShape(e))
    <2>. HIDE DEF c
    <2>. QED  BY <1>2, TransposeAxes DEF OutShape
  <1>4. /\ c.tpose0 = TransposeConfig(e.shape0, r.in_transpose_idxs[1])
        /\ c.tpose1 = TransposeConfig(e.shape1, r.in_transpose_idxs[2])
        /\ c.tposeOut = TransposeConfig(r.out_interpret_shape, r.out_transpose_idxs)
        /\ c.n_free0 = r.L0 /\ c.n_free1 = r.L1 /\ c.n_contract = r.C /\ c.n_inplace = r.I
    <2>. HIDE DEF r
    <2>. QED  BY DEF EinsumConfig
  <1>5. e.shape0 = Dims(e, e.in0) /\ e.shape1 = Dims(e, e.in1)
    BY ShapeIsDims
  <1>. HIDE DEF r, c
  <1>6. Prepared(c, e)
    BY <1>1, <1>2, <1>3, <1>4, <1>5 DEF Prepared
  <1>. QED  BY <1>6 DEF c, r

\* The three loops of cpu::einsum store the products in row-major order.
LEMMA CpuPlaced ==
    ASSUME NEW c, {c.n_inplace, c.n_free0, c.n_free1, c.n_contract} \subseteq Nat
    PROVE  EinsumCpu(c) = Transpose(c.tposeOut, Placed(c, RowMajorPlace(c)))
  <1>. DEFINE I == c.n_inplace
              L0 == c.n_free0
              L1 == c.n_free1
              C == c.n_contract
              terms(i, l0, l1) ==
                  {<<Transferred(c.tpose0, (i * L0 + l0) * C + k),
                     Transferred(c.tpose1, i * L1 * C + k * L1 + l1)>> : k \in 0..(C - 1)}
              cpu(i, l0, l1) == <<(i * L0 + l0) * L1 + l1, terms(i, l0, l1)>>
              placed(i, m, n) == <<RowMajorPlace(c)[<<i, m, n>>], TermsAt(c, i, m, n)>>
              S == {cpu(i, l0, l1) : i \in 0..(I - 1), l0 \in 0..(L0 - 1), l1 \in 0..(L1 - 1)}
  <1>1. I \in Nat /\ L0 \in Nat /\ L1 \in Nat /\ C \in Nat
    OBVIOUS
  <1>2. ASSUME NEW i \in 0..(I - 1), NEW m \in 0..(L0 - 1), NEW n \in 0..(L1 - 1)
        PROVE  cpu(i, m, n) = placed(i, m, n)
    <2>1. i \in Nat /\ m \in Nat /\ n \in Nat
      BY <1>1
    <2>2. ASSUME NEW k \in 0..(C - 1) PROVE i * L1 * C + k * L1 + n = (i * C + k) * L1 + n
      <3>1. k \in Nat
        BY <1>1
      <3>2. \A x, y, z, w, u \in Nat : x * y * z + w * y + u = (x * z + w) * y + u
        OBVIOUS
      <3>. QED  BY <1>1, <2>1, <3>1, <3>2
    <2>3. terms(i, m, n) = TermsAt(c, i, m, n)
      <3>1. ASSUME NEW k \in 0..(C - 1)
            PROVE  <<Transferred(c.tpose0, (i * L0 + m) * C + k),
                     Transferred(c.tpose1, i * L1 * C + k * L1 + n)>> = TermAt(c, i, m, n, k)
        BY <2>2 DEF TermAt
      <3>. QED  BY <3>1 DEF TermsAt
    <2>4. RowMajorPlace(c)[<<i, m, n>>] = (i * L0 + m) * L1 + n
      BY <2>1 DEF RowMajorPlace
    <2>. QED  BY <2>3, <2>4
  <1>3. Placed(c, RowMajorPlace(c))
            = {placed(i, m, n) : i \in 0..(I - 1), m \in 0..(L0 - 1), n \in 0..(L1 - 1)}
    BY DEF Placed
  <1>4. EinsumCpu(c) = Transpose(c.tposeOut, S)
    BY DEF EinsumCpu
  <1>5. S = Placed(c, RowMajorPlace(c))
    <2>. HIDE DEF cpu, placed, I, L0, L1
    <2>. QED  BY <1>2, <1>3
  <1>. HIDE DEF S
  <1>. QED  BY <1>4, <1>5
-----------------------------------------------------------------------------
(* What the Cube stores *)

\* The rows of a tile that begins at x, of tiles of m rows among a.
LEMMA TileRows ==
    ASSUME NEW a \in Positive, NEW x \in Nat, NEW m \in Positive,
           NEW k \in 0..(Least(a - x, m) - 1)
    PROVE  x + k \in 0..(a - 1)
  BY DEF Least, Positive

\* Each of a rows is one of the m rows of a tile.
LEMMA RowInTile ==
    ASSUME NEW a \in Positive, NEW m \in Positive, NEW q \in Positive, a <= q * m,
           NEW x \in 0..(a - 1)
    PROVE  /\ x \div m \in 0..(q - 1) /\ (x \div m) * m \in Nat
           /\ x % m \in 0..(Least(a - (x \div m) * m, m) - 1)
           /\ (x \div m) * m + (x % m) = x
  <1>1. x \in Nat /\ x < q * m /\ q \in Nat /\ m \in Nat
    BY DEF Positive
  <1>2. x \div m \in Nat /\ x % m \in 0..(m - 1)
    BY <1>1, Quotient
  <1>3. x \div m < q
    BY <1>1, BelowQuotient
  <1>4. x = (x \div m) * m + (x % m)
    BY <1>1, Division
  <1>. DEFINE y == x \div m
              r == x % m
  <1>5. y \in Nat /\ y < q /\ r \in 0..(m - 1) /\ x = y * m + r
    BY <1>2, <1>3, <1>4
  <1>. HIDE DEF y, r
  <1>6. y * m \in Nat
    BY <1>1, <1>5
  <1>7. r \in 0..(Least(a - y * m, m) - 1)
    <2>. DEFINE z == y * m
    <2>1. z \in Nat /\ x = z + r
      BY <1>5, <1>6
    <2>. HIDE DEF z
    <2>2. r \in 0..(Least(a - z, m) - 1)
      BY <1>1, <1>5, <2>1 DEF Least, Positive
    <2>. QED  BY <2>2 DEF z
  <1>8. y \in 0..(q - 1) /\ y * m + r = x
    BY <1>5 DEF Positive
  <1>. QED  BY <1>6, <1>7, <1>8 DEF y, r

\* The grid of tiles of a batch.
LEMMA Grid ==
    ASSUME NEW c, Generated(c)
    PROVE  LET g == Geom(c)
               p == CeilDiv(PadUp(c.n_free0), g.Mt)
               q == CeilDiv(PadUp(c.n_free1), g.Nt)
           IN  /\ p \in Positive /\ q \in Positive
               /\ g.tiles_per_batch = p * q /\ g.nN = q /\ g.total_tiles = c.n_inplace * (p * q)
               /\ c.n_free0 <= p * g.Mt /\ c.n_free1 <= q * g.Nt
  <1>. DEFINE g == Geom(c)
              m == g.Mt
              n == g.Nt
              p == CeilDiv(PadUp(c.n_free0), m)
              q == CeilDiv(PadUp(c.n_free1), n)
  <1>1. /\ m \in Positive /\ n \in Positive /\ g.Ma = p * m /\ g.Na = q * n
        /\ g.total_tiles = c.n_inplace * ((g.Ma \div m) * (g.Na \div n))
    BY TileSizes
  <1>2. /\ g.tiles_per_batch = (g.Ma \div m) * (g.Na \div n) /\ g.nN = g.Na \div n
    BY DEF Geom
  <1>3. c.n_free0 \in Positive /\ c.n_free1 \in Positive
    BY DEF Generated
  <1>4. /\ PadUp(c.n_free0) \in Positive /\ PadUp(c.n_free1) \in Positive
        /\ PadUp(c.n_free0) >= c.n_free0 /\ PadUp(c.n_free1) >= c.n_free1
    BY <1>3, Padded
  <1>. HIDE DEF g, m, n
  <1>5. p \in Nat /\ p * m >= PadUp(c.n_free0) /\ q \in Nat /\ q * n >= PadUp(c.n_free1)
    BY <1>1, <1>4, RoundedUp DEF Positive
  <1>. HIDE DEF p, q
  <1>6. p # 0 /\ q # 0
    BY <1>1, <1>4, <1>5 DEF Positive
  <1>7. p \in Positive /\ q \in Positive
    BY <1>5, <1>6 DEF Positive
  <1>8. g.Ma \div m = p /\ g.Na \div n = q
    BY <1>1, <1>5, ExactDivision
  <1>9. p * m \in Nat /\ q * n \in Nat
    BY <1>1, <1>5 DEF Positive
  <1>10. c.n_free0 <= p * m /\ c.n_free1 <= q * n
    BY <1>3, <1>4, <1>5, <1>9 DEF Positive
  <1>11. g.tiles_per_batch = p * q /\ g.nN = q /\ g.total_tiles = c.n_inplace * (p * q)
    BY <1>1, <1>2, <1>8
  <1>. QED  BY <1>7, <1>10, <1>11 DEF g, m, n, p, q

\* Where full tiles stay inside the output: what is stored of a tile is in it.
LEMMA TilesInside ==
    ASSUME NEW c, Generated(c), ~PartialPipelined(c), NEW tile \in Tiles(Geom(c)),
           NEW a \in 0..(Stored(c, Geom(c), tile).m - 1),
           NEW b \in 0..(Stored(c, Geom(c), tile).n - 1)
    PROVE  /\ tile.i \in 0..(c.n_inplace - 1)
           /\ tile.row0 + a \in 0..(c.n_free0 - 1) /\ tile.col0 + b \in 0..(c.n_free1 - 1)
  <1>. DEFINE g == Geom(c)
  <1>1. PICK t \in 0..(g.total_tiles - 1) : tile = Tile(g, t)
    BY DEF Tiles
  <1>2. /\ tile.i \in 0..(g.I - 1) /\ tile.row0 \in Nat /\ tile.col0 \in Nat
        /\ g.Mt \in Positive /\ g.Nt \in Positive /\ g.I = c.n_inplace
    BY <1>1, TileBounds, TileSizes
  <1>3. tile.validM = Least(g.L0 - tile.row0, g.Mt) /\ tile.validN = Least(g.L1 - tile.col0, g.Nt)
    BY <1>1 DEF Tile
  <1>4. /\ g.L0 = c.n_free0 /\ g.L1 = c.n_free1
        /\ c.n_free0 \in Positive /\ c.n_free1 \in Positive
    BY DEF Geom, Generated
  <1>5. Stored(c, g, tile) = Inside(tile)
    BY DEF PartialPipelined, Overhangs
  <1>6. /\ a \in 0..(Least(c.n_free0 - tile.row0, g.Mt) - 1)
        /\ b \in 0..(Least(c.n_free1 - tile.col0, g.Nt) - 1)
    <2>. HIDE DEF g
    <2>1. Inside(tile).m = tile.validM /\ Inside(tile).n = tile.validN
      BY DEF Inside
    <2>. QED  BY <1>3, <1>4, <1>5, <2>1 DEF g
  <1>. HIDE DEF g
  <1>7. tile.row0 + a \in 0..(c.n_free0 - 1)
    BY <1>2, <1>4, <1>6, TileRows
  <1>8. tile.col0 + b \in 0..(c.n_free1 - 1)
    BY <1>2, <1>4, <1>6, TileRows
  <1>. QED  BY <1>2, <1>7, <1>8

\* ... and each row and column of each batch is stored, as part of a tile.
LEMMA TilesReach ==
    ASSUME NEW c, Generated(c), ~PartialPipelined(c), NEW i \in 0..(c.n_inplace - 1),
           NEW m \in 0..(c.n_free0 - 1), NEW n \in 0..(c.n_free1 - 1)
    PROVE  \E tile \in Tiles(Geom(c)) :
               \E a \in 0..(Stored(c, Geom(c), tile).m - 1),
                  b \in 0..(Stored(c, Geom(c), tile).n - 1) :
                     tile.i = i /\ tile.row0 + a = m /\ tile.col0 + b = n
  <1>. DEFINE g == Geom(c)
              p == CeilDiv(PadUp(c.n_free0), g.Mt)
              q == CeilDiv(PadUp(c.n_free1), g.Nt)
              x == m \div g.Mt
              y == n \div g.Nt
              t == i * (p * q) + (x * q + y)
              tile == Tile(g, t)
  <1>1. /\ p \in Positive /\ q \in Positive
        /\ g.tiles_per_batch = p * q /\ g.nN = q /\ g.total_tiles = c.n_inplace * (p * q)
        /\ c.n_free0 <= p * g.Mt /\ c.n_free1 <= q * g.Nt
    BY Grid
  <1>2. g.Mt \in Positive /\ g.Nt \in Positive
    BY TileSizes
  <1>3. /\ g.L0 = c.n_free0 /\ g.L1 = c.n_free1 /\ c.n_inplace \in Positive
        /\ c.n_free0 \in Positive /\ c.n_free1 \in Positive
    BY DEF Geom, Generated
  <1>4. /\ tile.i = t \div g.tiles_per_batch
        /\ tile.row0 = ((t % g.tiles_per_batch) \div g.nN) * g.Mt
        /\ tile.col0 = ((t % g.tiles_per_batch) % g.nN) * g.Nt
        /\ tile.validM = Least(g.L0 - tile.row0, g.Mt)
        /\ tile.validN = Least(g.L1 - tile.col0, g.Nt)
    BY DEF Tile
  <1>. HIDE DEF p, q, tile
  <1>5. t \in 0..(g.total_tiles - 1) => Stored(c, g, tile) = Inside(tile) /\ tile \in Tiles(g)
    BY DEF PartialPipelined, Overhangs, Tiles, tile
  <1>. HIDE DEF g
  <1>6. /\ x \in 0..(p - 1) /\ x * g.Mt \in Nat
        /\ m % g.Mt \in 0..(Least(c.n_free0 - x * g.Mt, g.Mt) - 1)
        /\ x * g.Mt + (m % g.Mt) = m
    BY <1>1, <1>2, <1>3, RowInTile
  <1>7. /\ y \in 0..(q - 1) /\ y * g.Nt \in Nat
        /\ n % g.Nt \in 0..(Least(c.n_free1 - y * g.Nt, g.Nt) - 1)
        /\ y * g.Nt + (n % g.Nt) = n
    BY <1>1, <1>2, <1>3, RowInTile
  <1>. HIDE DEF x, y
  <1>8. x * q + y \in Nat /\ x * q + y < p * q
    <2>1. x \in Nat /\ x < p /\ p \in Nat /\ q \in Nat /\ y \in 0..(q - 1)
      BY <1>1, <1>6, <1>7 DEF Positive
    <2>2. x * q + q <= p * q
      BY <2>1, SpansApart
    <2>3. x * q \in Nat /\ p * q \in Nat
      BY <2>1
    <2>. QED  BY <2>1, <2>2, <2>3
  <1>. DEFINE pq == p * q
              r == x * q + y
  <1>9. pq \in Positive /\ r \in 0..(pq - 1) /\ r \in Nat
    <2>1. p * q \in Positive
      BY <1>1 DEF Positive
    <2>. HIDE DEF pq
    <2>2. pq \in Positive /\ r \in Nat /\ r < pq
      BY <1>8, <2>1 DEF pq
    <2>. HIDE DEF r
    <2>. QED  BY <2>2 DEF Positive
  <1>10. r \div q = x /\ r % q = y
    BY <1>1, <1>6, <1>7, <1>9, DivisionUnique
  <1>11. t = i * pq + r
    OBVIOUS
  <1>. HIDE DEF pq, r, t
  <1>12. i \in Nat /\ i * pq \in Nat /\ t \in Nat
    <2>1. i \in Nat /\ pq \in Nat
      BY <1>3, <1>9 DEF Positive
    <2>2. i * pq \in Nat
      BY <2>1
    <2>. QED  BY <1>9, <1>11, <2>1, <2>2
  <1>13. t \div pq = i /\ t % pq = r
    BY <1>9, <1>11, <1>12, DivisionUnique
  <1>14. t \in 0..(g.total_tiles - 1)
    <2>1. i < c.n_inplace /\ c.n_inplace \in Nat /\ pq \in Nat
      BY <1>3, <1>9 DEF Positive
    <2>2. i * pq + pq <= c.n_inplace * pq
      BY <1>12, <2>1, SpansApart
    <2>. DEFINE z == i * pq
                w == c.n_inplace * pq
    <2>3. z \in Nat /\ w \in Nat /\ t = z + r /\ z + pq <= w
      BY <1>11, <1>12, <2>1, <2>2
    <2>. HIDE DEF z, w
    <2>4. t \in 0..(w - 1)
      BY <1>9, <2>1, <2>3
    <2>. QED  BY <1>1, <2>4 DEF w, pq
  <1>15. tile.i = i /\ tile.row0 = x * g.Mt /\ tile.col0 = y * g.Nt
    <2>1. g.tiles_per_batch = pq /\ g.nN = q
      BY <1>1 DEF pq
    <2>. QED  BY <1>4, <1>10, <1>13, <2>1
  <1>16. Stored(c, g, tile).m = tile.validM /\ Stored(c, g, tile).n = tile.validN
    BY <1>5, <1>14 DEF Inside
  <1>17. /\ m % g.Mt \in 0..(Stored(c, g, tile).m - 1)
         /\ n % g.Nt \in 0..(Stored(c, g, tile).n - 1)
    BY <1>3, <1>4, <1>6, <1>7, <1>15, <1>16
  <1>18. tile.row0 + (m % g.Mt) = m /\ tile.col0 + (n % g.Nt) = n /\ tile \in Tiles(g)
    BY <1>5, <1>6, <1>7, <1>14, <1>15
  <1>. QED  BY <1>15, <1>17, <1>18 DEF g
\* The terms that the Cube sums for batch i, row m and column n.
Fetched(c, g, i, m, n) ==
    LET pairs == {<<ReadA(c, g, AddrA(c, g, i, m, k)),
                    ReadB(c, g, AddrB(c, g, i, n, k))>> : k \in 0..(g.K - 1)}
    IN  {p \in pairs : p[1] # Zero /\ p[2] # Zero}

\* If it fetches the terms of a row and a column, it stores them all.
LEMMA ProductsPlaced ==
    ASSUME NEW c, Generated(c), ~PartialPipelined(c), NEW g, g = Geom(c),
           \A i \in 0..(c.n_inplace - 1), m \in 0..(c.n_free0 - 1), n \in 0..(c.n_free1 - 1) :
               Fetched(c, g, i, m, n) = TermsAt(c, i, m, n),
           NEW place,
           \A i \in 0..(c.n_inplace - 1), m \in 0..(c.n_free0 - 1), n \in 0..(c.n_free1 - 1) :
               place[<<i, m, n>>] = AddrC(c, g, i, m, n)
    PROVE  Products(c, g) = Placed(c, place)
  <1>. DEFINE I == 0..(c.n_inplace - 1)
              L0 == 0..(c.n_free0 - 1)
              L1 == 0..(c.n_free1 - 1)
              stored(i, m, n) == <<AddrC(c, g, i, m, n), Fetched(c, g, i, m, n)>>
              placed(i, m, n) == <<place[<<i, m, n>>], TermsAt(c, i, m, n)>>
              rows(tile) == 0..(Stored(c, g, tile).m - 1)
              columns(tile) == 0..(Stored(c, g, tile).n - 1)
              stores(tile) == {stored(tile.i, tile.row0 + m, tile.col0 + n) :
                                   m \in rows(tile), n \in columns(tile)}
              P == Placed(c, place)
  <1>1. Products(c, g) = UNION {stores(tile) : tile \in Tiles(g)}
    BY DEF Products, Fetched, Tiles, TilesOf
  <1>2. P = {placed(i, m, n) : i \in I, m \in L0, n \in L1}
    BY DEF Placed
  <1>3. ASSUME NEW i \in I, NEW m \in L0, NEW n \in L1 PROVE stored(i, m, n) = placed(i, m, n)
    OBVIOUS
  <1>4. ASSUME NEW tile \in Tiles(g), NEW a \in rows(tile), NEW b \in columns(tile)
        PROVE  tile.i \in I /\ tile.row0 + a \in L0 /\ tile.col0 + b \in L1
    BY TilesInside
  <1>5. ASSUME NEW i \in I, NEW m \in L0, NEW n \in L1
        PROVE  \E tile \in Tiles(g) : \E a \in rows(tile), b \in columns(tile) :
                   tile.i = i /\ tile.row0 + a = m /\ tile.col0 + b = n
    BY TilesReach
  <1>. HIDE DEF I, L0, L1, stored, placed, rows, columns, P
  <1>6. Products(c, g) \subseteq P
    <2>. SUFFICES ASSUME NEW tile \in Tiles(g), NEW z \in stores(tile) PROVE z \in P
      BY <1>1
    <2>1. PICK a \in rows(tile), b \in columns(tile) :
              z = stored(tile.i, tile.row0 + a, tile.col0 + b)
      OBVIOUS
    <2>. QED  BY <1>2, <1>3, <1>4, <2>1
  <1>7. P \subseteq Products(c, g)
    <2>. SUFFICES ASSUME NEW i \in I, NEW m \in L0, NEW n \in L1
                  PROVE  placed(i, m, n) \in Products(c, g)
      BY <1>2
    <2>1. PICK tile \in Tiles(g) : \E a \in rows(tile), b \in columns(tile) :
              tile.i = i /\ tile.row0 + a = m /\ tile.col0 + b = n
      BY <1>5
    <2>2. stored(i, m, n) \in stores(tile)
      BY <2>1
    <2>. HIDE DEF stores
    <2>. QED  BY <1>1, <1>3, <2>2
  <1>. QED  BY <1>6, <1>7 DEF P
\* Rows of K in a workspace hold rows of C: which one, and where in it.
LEMMA RowOfWorkspace ==
    ASSUME NEW I \in Positive, NEW L \in Positive, NEW A \in Nat, I = 1 \/ A = L,
           NEW K \in Positive, NEW i \in 0..(I - 1), NEW m \in 0..(L - 1), NEW k \in 0..(K - 1)
    PROVE  LET w == i * A * K + m * K + k
           IN  w % K = k /\ w \div K = i * L + m /\ w \in Nat
  <1>1. i \in Nat /\ m \in Nat /\ k \in Nat /\ K \in Nat
    BY DEF Positive
  <1>2. i * A = i * L
    <2>1. CASE I = 1
      <3>1. i = 0
        BY <2>1
      <3>2. 0 * A = 0 /\ 0 * L = 0
        BY DEF Positive
      <3>. QED  BY <3>1, <3>2
    <2>2. CASE A = L
      BY <2>2
    <2>. QED  BY <2>1, <2>2
  <1>. DEFINE x == i * L
  <1>3. x \in Nat
    BY <1>1 DEF Positive
  <1>4. i * A * K + m * K + k = x * K + m * K + k
    BY <1>2
  <1>. HIDE DEF x
  <1>5. x + m \in Nat /\ x * K + m * K + k = (x + m) * K + k
    BY <1>1, <1>3
  <1>. DEFINE y == x + m
              w == y * K + k
  <1>6. y \in Nat /\ w = y * K + k /\ w \in Nat
    BY <1>1, <1>5
  <1>. HIDE DEF y, w
  <1>7. w \div K = y /\ w % K = k
    BY <1>6, DivisionUnique
  <1>. QED  BY <1>4, <1>5, <1>6, <1>7 DEF w, y, x

\* A configuration that the builder writes and the compiler accepts.
Handed(e, env, c, g, splitK) ==
    /\ Sized(e) /\ c = EinsumConfig(e, MatmulRecipe(e, env), env)
    /\ Generated(c) /\ g = Geom(c) /\ StaticAsserts(c, splitK)

\* What such a configuration holds.
LEMMA HandedFields ==
    ASSUME NEW e, NEW env, NEW c, NEW g, NEW splitK, Handed(e, env, c, g, splitK)
    PROVE  /\ IsTranspose(c.tpose0) /\ IsTranspose(c.tpose1) /\ IsTranspose(c.tposeOut)
           /\ c.tpose0.N = (c.n_inplace * c.n_free0) * c.n_contract
           /\ c.tpose1.N = (c.n_inplace * c.n_contract) * c.n_free1
           /\ g.L0 = c.n_free0 /\ c.n_free0 \in Positive /\ g.L1 = c.n_free1 /\ c.n_free1 \in Positive
           /\ g.C = c.n_contract /\ c.n_contract \in Positive
           /\ g.I = c.n_inplace /\ c.n_inplace \in Positive
           /\ g.K \in Positive /\ c.n_contract <= g.K
           /\ g.Arows \in Nat /\ g.Bcols \in Nat
           /\ c.n_inplace = 1 \/ (~g.A_PADDED /\ ~g.B_PADDED)
           /\ ~g.A_PADDED => g.Arows = c.n_free0
           /\ ~g.B_PADDED => g.Bcols = c.n_free1
           /\ g.B_PADDED => g.Na \in Nat /\ c.n_free1 <= g.Na /\ g.Bcols = g.Na
  <1>. DEFINE r == MatmulRecipe(e, env)
  <1>1. /\ IsTranspose(c.tpose0) /\ IsTranspose(c.tpose1) /\ IsTranspose(c.tposeOut)
        /\ c.tpose0.N = (r.I * r.L0) * r.C /\ c.tpose1.N = (r.I * r.C) * r.L1
    BY MatmulTurns DEF Handed
  <1>2. r.I = c.n_inplace /\ r.L0 = c.n_free0 /\ r.L1 = c.n_free1 /\ r.C = c.n_contract
    <2>. HIDE DEF r
    <2>1. c = EinsumConfig(e, r, env)
      BY DEF Handed, r
    <2>. QED  BY <2>1 DEF EinsumConfig
  <1>3. /\ g.L0 = c.n_free0 /\ g.L0 \in Positive /\ g.L1 = c.n_free1 /\ g.L1 \in Positive
        /\ g.C = c.n_contract /\ g.C \in Positive /\ g.I = c.n_inplace /\ g.I \in Positive
        /\ g.K \in Positive /\ g.C <= g.K /\ g.Arows \in Nat
        /\ g.B_PADDED => g.Na \in Nat /\ g.L1 <= g.Na /\ g.Bcols = g.Na
        /\ ~g.B_PADDED => g.Bcols = g.L1
    BY PaddedSizes DEF Handed
  <1>4. g.Bcols \in Nat /\ (~g.A_PADDED => g.Arows = c.n_free0)
    BY MatrixSizes DEF Handed
  <1>5. g.I = 1 \/ (~g.A_PADDED /\ ~g.B_PADDED)
    BY DEF Handed, StaticAsserts
  <1>. HIDE DEF r
  <1>. QED  BY <1>1, <1>2, <1>3, <1>4, <1>5

\* Operand 0, wherever it is read: row m of batch i, and zeroes from C on.
LEMMA ReadsFirst ==
    ASSUME NEW e, NEW env, NEW c, NEW g, NEW splitK, Handed(e, env, c, g, splitK),
           NEW i \in 0..(c.n_inplace - 1), NEW m \in 0..(c.n_free0 - 1), NEW k \in 0..(g.K - 1)
    PROVE  ReadA(c, g, AddrA(c, g, i, m, k))
               = IF k < c.n_contract
                 THEN Transferred(c.tpose0, (i * c.n_free0 + m) * c.n_contract + k) ELSE Zero
  <1>. DEFINE t == c.tpose0
              I == c.n_inplace
              L == c.n_free0
              C == c.n_contract
              K == g.K
              w == i * g.Arows * K + m * K + k
              j == (i * L + m) * C + k
  <1>1. /\ IsTranspose(t) /\ t.N = (I * L) * C
        /\ L \in Positive /\ C \in Positive /\ I \in Positive /\ K \in Positive /\ C <= K
        /\ g.Arows \in Nat /\ g.C = C /\ c.n_free1 \in Positive
    BY HandedFields
  <1>2. I = 1 \/ g.Arows = L
    BY HandedFields
  <1>3. /\ i \in 0..(I - 1) /\ m \in 0..(L - 1) /\ k \in 0..(K - 1) /\ k \in Nat
    BY <1>1 DEF Positive
  <1>4. k < C => j \in Nat /\ j < t.N /\ j \in 0..(t.N - 1)
    <2>. HAVE k < C
    <2>1. k \in 0..(C - 1)
      BY <1>1, <1>3 DEF Positive
    <2>. HIDE DEF I, L, C, j
    <2>2. (i * L + m) * C + k \in Nat /\ (i * L + m) * C + k < (I * L) * C
      BY <1>1, <1>3, <2>1, MatrixInside
    <2>3. j \in Nat /\ j < t.N
      BY <1>1, <2>2 DEF j
    <2>4. t.N \in Nat
      BY <1>1, TransposeAxes DEF Positive
    <2>. QED  BY <2>3, <2>4
  <1>5. CASE NtIn(c, g)
    <2>1. RD0(c, g) /\ K = C
      BY <1>1, <1>5 DEF RD0, NtIn
    <2>2. k < C
      BY <1>1, <1>3, <2>1 DEF Positive
    <2>3. AddrA(c, g, i, m, k) = Transferred(t, j)
      <3>. DEFINE r == MatmulRecipe(e, env)
      <3>1. Sized(e) /\ c = EinsumConfig(e, r, env)
        BY DEF Handed
      <3>2. L = r.L0 /\ C = r.C /\ c.n_free1 = r.L1
        <4>. HIDE DEF r
        <4>. QED  BY <3>1 DEF EinsumConfig
      <3>3. /\ NtIn(EinsumConfig(e, MatmulRecipe(e, env), env), g) /\ i \in Nat
            /\ m \in 0..(r.L0 - 1) /\ 0 \in 0..(r.L1 - 1) /\ k \in 0..(r.C - 1)
        <4>1. 0 \in 0..(c.n_free1 - 1) /\ k \in 0..(C - 1) /\ i \in Nat
          BY <1>1, <1>3, <2>2 DEF Positive
        <4>. HIDE DEF r, L, C
        <4>. QED  BY <1>3, <1>5, <3>1, <3>2, <4>1 DEF r
      <3>4. AddrA(EinsumConfig(e, r, env), g, i, m, k)
                = Transferred(EinsumConfig(e, r, env).tpose0, (i * r.L0 + m) * r.C + k)
        BY <3>1, <3>3, DirectReads
      <3>. HIDE DEF r
      <3>. QED  BY <3>1, <3>2, <3>4
    <2>. QED  BY <2>1, <2>2, <2>3 DEF ReadA
  <1>6. CASE ~NtIn(c, g)
    <2>1. AddrA(c, g, i, m, k) = w
      BY <1>6 DEF AddrA
    <2>2. w % K = k /\ w \div K = i * L + m /\ w \in Nat
      <3>. HIDE DEF I, L, C, K
      <3>. QED  BY <1>1, <1>2, <1>3, RowOfWorkspace
    <2>3. CASE Skip0(c, g)
      <3>1. RD0(c, g) /\ K = C /\ ~g.A_PADDED /\ IsIdentity(t.perm)
        BY <1>1, <2>3 DEF RD0, Skip0
      <3>2. k < C
        BY <1>1, <1>3, <3>1 DEF Positive
      <3>3. w = j
        <4>1. g.Arows = L
          BY HandedFields, <3>1
        <4>2. i \in Nat /\ L \in Nat /\ C \in Nat /\ m \in Nat
          BY <1>1, <1>3 DEF Positive
        <4>3. i * L * C + m * C + k = (i * L + m) * C + k
          <5>. HIDE DEF L, C
          <5>1. \A p, q, u, v \in Nat : p * q * u + v * u = (p * q + v) * u
            OBVIOUS
          <5>. QED  BY <4>2, <5>1
        <4>4. w = i * L * C + m * C + k
          BY <3>1, <4>1
        <4>. QED  BY <4>3, <4>4
      <3>4. Transferred(t, j) = j
        BY <1>1, <1>4, <3>1, <3>2, OrderKept, SourcesNat
      <3>. QED  BY <2>1, <3>1, <3>2, <3>3, <3>4 DEF ReadA
    <2>4. CASE ~Skip0(c, g)
      <3>1. ~RD0(c, g)
        BY <1>6, <2>4 DEF RD0
      <3>2. Ws0(c, g, w) = IF k < C /\ j < t.N THEN Transferred(t, j) ELSE Zero
        <4>1. (w \div g.K) * g.C + (w % g.K) = j /\ w % g.K = k
          BY <1>1, <2>2
        <4>. HIDE DEF w, j
        <4>. QED  BY <1>1, <4>1 DEF Ws0
      <3>3. ReadA(c, g, AddrA(c, g, i, m, k)) = IF k < C THEN Transferred(t, j) ELSE Zero
        <4>. HIDE DEF w, j
        <4>. QED  BY <1>4, <2>1, <3>1, <3>2 DEF ReadA
      <3>. QED  BY <3>3
    <2>. QED  BY <2>3, <2>4
  <1>. QED  BY <1>5, <1>6
\* Operand 1 where it is laid: each batch in a slot of K rows, rows Na apart, or as it is.
LEMMA ReadsLaid ==
    ASSUME NEW e, NEW env, NEW c, NEW g, NEW splitK, Handed(e, env, c, g, splitK),
           NEW i \in 0..(c.n_inplace - 1), NEW n \in 0..(c.n_free1 - 1),
           NEW k \in 0..(c.n_contract - 1)
    PROVE  Ws1(c, g, i * g.K * g.Bcols + k * g.Bcols + n)
               = Transferred(c.tpose1, (i * c.n_contract + k) * c.n_free1 + n)
  <1>. DEFINE t == c.tpose1
              I == c.n_inplace
              L == c.n_free1
              C == c.n_contract
              K == g.K
              w == i * K * g.Bcols + k * g.Bcols + n
              j == (i * C + k) * L + n
              slot == K * L
  <1>1. /\ IsTranspose(t) /\ t.N = (I * C) * L
        /\ L \in Positive /\ C \in Positive /\ I \in Positive /\ K \in Positive /\ C <= K
        /\ g.C = C /\ g.L1 = L /\ g.I = I
        /\ ~g.B_PADDED => g.Bcols = L
        /\ g.B_PADDED => g.Na \in Nat /\ L <= g.Na /\ g.Bcols = g.Na
    BY HandedFields
  <1>2. I = 1 \/ ~g.B_PADDED
    BY HandedFields
  <1>3. i \in 0..(I - 1) /\ n \in 0..(L - 1) /\ k \in 0..(C - 1)
    OBVIOUS
  <1>4. i \in Nat /\ n \in Nat /\ k \in Nat /\ L \in Nat /\ C \in Nat /\ K \in Nat
    BY <1>1, <1>3 DEF Positive
  <1>5. j \in Nat /\ j < t.N
    <2>. HIDE DEF I, L, C, j
    <2>1. (i * C + k) * L + n \in Nat /\ (i * C + k) * L + n < (I * C) * L
      BY <1>1, <1>3, MatrixInside
    <2>. QED  BY <1>1, <2>1 DEF j
  <1>6. \A p, q, u, v, x \in Nat : p * q * u + v * u + x = (p * q + v) * u + x
    OBVIOUS
  <1>7. CASE RowPadded(g)
    <2>1. ~g.B_PADDED /\ g.Bcols = L
      BY <1>1, <1>2, <1>7 DEF RowPadded
    <2>. DEFINE x == k * L + n
    <2>2. x \in Nat /\ x < C * L /\ C * L <= slot /\ slot \in Positive
      <3>. HIDE DEF L, C, K
      <3>1. k * L + L <= C * L /\ k * L \in Nat /\ C * L \in Nat
        BY <1>3, <1>4, SpansApart
      <3>2. C * L <= K * L
        BY <1>1, <1>4, Monotone
      <3>3. K * L \in Positive
        BY <1>1 DEF Positive
      <3>. DEFINE kl == k * L
                  cl == C * L
      <3>4. kl + n \in Nat /\ kl + n < cl
        <4>1. kl \in Nat /\ cl \in Nat /\ kl + L <= cl
          BY <3>1
        <4>. HIDE DEF kl, cl
        <4>. QED  BY <1>3, <1>4, <4>1
      <3>. QED  BY <3>2, <3>3, <3>4
    <2>3. x \in 0..(slot - 1)
      <3>. HIDE DEF slot, x, L, C
      <3>1. C * L \in Nat
        BY <1>4
      <3>. QED  BY <2>2, <3>1 DEF Positive
    <2>4. w = i * slot + x /\ w \in Nat
      <3>. HIDE DEF L, K
      <3>1. i * K * L + k * L + n = i * (K * L) + (k * L + n)
        BY <1>4
      <3>2. i * (K * L) + (k * L + n) \in Nat
        BY <1>4
      <3>. QED  BY <2>1, <3>1, <3>2
    <2>5. w \div slot = i /\ w % slot = x
      <3>. HIDE DEF slot, x, w
      <3>. QED  BY <1>4, <2>2, <2>3, <2>4, DivisionUnique
    <2>6. i * C * L + x = j
      <3>. HIDE DEF L, C
      <3>1. i * C * L + (k * L + n) = (i * C + k) * L + n
        BY <1>4
      <3>. QED  BY <3>1
    <2>7. (w \div (g.K * g.L1)) * g.C * g.L1 + (w % (g.K * g.L1)) = j
      BY <1>1, <2>5, <2>6
    <2>8. w % (g.K * g.L1) < g.C * g.L1
      BY <1>1, <2>2, <2>5
    <2>9. ~(~RowPadded(g) /\ g.B_PADDED)
      BY <1>7
    <2>. HIDE DEF w, j, x, slot
    <2>10. Ws1(c, g, w) = Transferred(t, j)
      BY <1>5, <1>7, <2>7, <2>8, <2>9 DEF Ws1
    <2>. QED  BY <2>10 DEF w, j
  <1>8. CASE ~RowPadded(g) /\ g.B_PADDED
    <2>1. I = 1 /\ i = 0 /\ g.Bcols = g.Na /\ g.Na \in Nat /\ L <= g.Na
      BY <1>1, <1>2, <1>3, <1>8
    <2>2. n \in 0..(g.Na - 1) /\ g.Na \in Positive
      BY <1>1, <1>3, <2>1 DEF Positive
    <2>3. w = k * g.Na + n /\ w \in Nat
      <3>. DEFINE Na == g.Na
      <3>. HIDE DEF Na, K
      <3>1. 0 * K * Na + k * Na + n = k * Na + n /\ k * Na + n \in Nat
        BY <1>4, <2>1 DEF Na
      <3>. QED  BY <2>1, <3>1 DEF Na
    <2>4. w \div g.Na = k /\ w % g.Na = n
      <3>. HIDE DEF w
      <3>. QED  BY <1>4, <2>2, <2>3, DivisionUnique
    <2>5. (w \div g.Na) * g.L1 + (w % g.Na) = j /\ w % g.Na < g.L1
      <3>1. (0 * C + k) * L + n = k * L + n /\ n < L
        <4>. HIDE DEF L, C
        <4>. QED  BY <1>3, <1>4
      <3>. QED  BY <1>1, <2>1, <2>4, <3>1
    <2>. HIDE DEF w, j
    <2>6. Ws1(c, g, w) = Transferred(t, j)
      BY <1>5, <1>8, <2>5 DEF Ws1
    <2>. QED  BY <2>6 DEF w, j
  <1>9. CASE ~RowPadded(g) /\ ~g.B_PADDED
    <2>1. g.Bcols = L /\ (K = C \/ (I = 1 /\ i = 0))
      BY <1>1, <1>3, <1>9 DEF RowPadded, Positive
    <2>2. w = j
      <3>. HIDE DEF L, C, K
      <3>1. i * K * L + k * L + n = (i * C + k) * L + n
        <4>1. CASE K = C
          BY <1>4, <4>1, <1>6
        <4>2. CASE i = 0
          <5>1. 0 * K * L + k * L + n = (0 * C + k) * L + n
            BY <1>4
          <5>. QED  BY <4>2, <5>1
        <4>. QED  BY <2>1, <4>1, <4>2
      <3>. QED  BY <2>1, <3>1
    <2>. HIDE DEF w, j
    <2>3. Ws1(c, g, w) = Transferred(t, j)
      BY <1>5, <1>9, <2>2 DEF Ws1
    <2>. QED  BY <2>3 DEF w, j
  <1>. QED  BY <1>7, <1>8, <1>9

\* Operand 1, wherever it is read: column n of batch i.
LEMMA ReadsSecond ==
    ASSUME NEW e, NEW env, NEW c, NEW g, NEW splitK, Handed(e, env, c, g, splitK),
           NEW i \in 0..(c.n_inplace - 1), NEW n \in 0..(c.n_free1 - 1),
           NEW k \in 0..(c.n_contract - 1)
    PROVE  ReadB(c, g, AddrB(c, g, i, n, k))
               = Transferred(c.tpose1, (i * c.n_contract + k) * c.n_free1 + n)
  <1>. DEFINE t == c.tpose1
              I == c.n_inplace
              L == c.n_free1
              C == c.n_contract
              K == g.K
              w == i * K * g.Bcols + k * g.Bcols + n
              j == (i * C + k) * L + n
  <1>1. /\ IsTranspose(t) /\ t.N = (I * C) * L
        /\ L \in Positive /\ C \in Positive /\ I \in Positive /\ K \in Positive
        /\ g.C = C /\ c.n_free0 \in Positive
        /\ ~g.B_PADDED => g.Bcols = L
    BY HandedFields
  <1>2. i \in 0..(I - 1) /\ n \in 0..(L - 1) /\ k \in 0..(C - 1)
    OBVIOUS
  <1>3. i \in Nat /\ n \in Nat /\ k \in Nat /\ L \in Nat /\ C \in Nat /\ K \in Nat
    BY <1>1, <1>2 DEF Positive
  <1>4. j \in Nat /\ j < t.N /\ j \in 0..(t.N - 1)
    <2>. HIDE DEF I, L, C, j
    <2>1. (i * C + k) * L + n \in Nat /\ (i * C + k) * L + n < (I * C) * L
      BY <1>1, <1>2, MatrixInside
    <2>2. j \in Nat /\ j < t.N
      BY <1>1, <2>1 DEF j
    <2>3. t.N \in Nat
      BY <1>1, TransposeAxes DEF Positive
    <2>. QED  BY <2>2, <2>3
  <1>5. CASE NtIn(c, g)
    <2>1. RD1(c, g)
      BY <1>5 DEF RD1
    <2>2. AddrB(c, g, i, n, k) = Transferred(t, j)
      <3>. DEFINE r == MatmulRecipe(e, env)
      <3>1. Sized(e) /\ c = EinsumConfig(e, r, env)
        BY DEF Handed
      <3>2. L = r.L1 /\ C = r.C /\ c.n_free0 = r.L0
        <4>. HIDE DEF r
        <4>. QED  BY <3>1 DEF EinsumConfig
      <3>3. /\ NtIn(EinsumConfig(e, MatmulRecipe(e, env), env), g) /\ i \in Nat
            /\ 0 \in 0..(r.L0 - 1) /\ n \in 0..(r.L1 - 1) /\ k \in 0..(r.C - 1)
        <4>1. 0 \in 0..(c.n_free0 - 1)
          BY <1>1 DEF Positive
        <4>. HIDE DEF r, L, C
        <4>. QED  BY <1>2, <1>3, <1>5, <3>1, <3>2, <4>1 DEF r
      <3>4. AddrB(EinsumConfig(e, r, env), g, i, n, k)
                = Transferred(EinsumConfig(e, r, env).tpose1, (i * r.C + k) * r.L1 + n)
        BY <3>1, <3>3, DirectReads
      <3>. HIDE DEF r
      <3>. QED  BY <3>1, <3>2, <3>4
    <2>. QED  BY <2>1, <2>2 DEF ReadB
  <1>6. CASE ~NtIn(c, g)
    <2>1. AddrB(c, g, i, n, k) = w
      BY <1>6 DEF AddrB
    <2>2. CASE Skip1(c, g)
      <3>1. RD1(c, g) /\ K = C /\ g.Bcols = L /\ IsIdentity(t.perm)
        BY <1>1, <2>2 DEF RD1, Skip1
      <3>2. w = j
        <4>. HIDE DEF L, C, K
        <4>1. i * C * L + k * L + n = (i * C + k) * L + n
          BY <1>3
        <4>. QED  BY <3>1, <4>1
      <3>3. Transferred(t, j) = j
        BY <1>1, <1>4, <3>1, OrderKept, SourcesNat
      <3>. QED  BY <2>1, <3>1, <3>2, <3>3 DEF ReadB
    <2>3. CASE ~Skip1(c, g)
      <3>1. ~RD1(c, g)
        BY <1>6, <2>3 DEF RD1
      <3>2. Ws1(c, g, w) = Transferred(t, j)
        BY ReadsLaid
      <3>. QED  BY <2>1, <3>1, <3>2 DEF ReadB
    <2>. QED  BY <2>2, <2>3
  <1>. QED  BY <1>5, <1>6
\* So the Cube fetches the terms of each element, and no others.
LEMMA FetchesTerms ==
    ASSUME NEW e, NEW env, NEW c, NEW g, NEW splitK, Handed(e, env, c, g, splitK),
           NEW i \in 0..(c.n_inplace - 1), NEW m \in 0..(c.n_free0 - 1),
           NEW n \in 0..(c.n_free1 - 1)
    PROVE  Fetched(c, g, i, m, n) = TermsAt(c, i, m, n)
  <1>. DEFINE C == c.n_contract
              pair(k) == <<ReadA(c, g, AddrA(c, g, i, m, k)), ReadB(c, g, AddrB(c, g, i, n, k))>>
              term(k) == TermAt(c, i, m, n, k)
  <1>1. /\ IsTranspose(c.tpose0) /\ IsTranspose(c.tpose1)
        /\ C \in Nat /\ g.K \in Nat /\ C <= g.K
        /\ c.n_free0 \in Nat /\ c.n_free1 \in Nat
    BY HandedFields DEF Positive
  <1>2. \A k \in 0..(C - 1) : k \in 0..(g.K - 1) /\ k < C
    BY <1>1
  <1>3. ASSUME NEW k \in 0..(C - 1)
        PROVE  pair(k) = term(k) /\ term(k)[1] # Zero /\ term(k)[2] # Zero
    <2>1. k \in 0..(g.K - 1) /\ k < C
      BY <1>2
    <2>2. ReadA(c, g, AddrA(c, g, i, m, k))
              = Transferred(c.tpose0, (i * c.n_free0 + m) * c.n_contract + k)
      BY <2>1, ReadsFirst
    <2>3. ReadB(c, g, AddrB(c, g, i, n, k))
              = Transferred(c.tpose1, (i * c.n_contract + k) * c.n_free1 + n)
      BY ReadsSecond
    <2>4. /\ (i * c.n_free0 + m) * c.n_contract + k \in Nat
          /\ (i * c.n_contract + k) * c.n_free1 + n \in Nat
      <3>1. i \in Nat /\ m \in Nat /\ n \in Nat /\ k \in Nat
        BY <1>1
      <3>. QED  BY <1>1, <3>1
    <2>5. /\ Transferred(c.tpose0, (i * c.n_free0 + m) * c.n_contract + k) # Zero
          /\ Transferred(c.tpose1, (i * c.n_contract + k) * c.n_free1 + n) # Zero
      BY <1>1, <2>4, SourcesNat
    <2>. QED  BY <2>2, <2>3, <2>5 DEF TermAt
  <1>4. ASSUME NEW k \in 0..(g.K - 1), k \notin 0..(C - 1) PROVE pair(k)[1] = Zero
    <2>1. ~(k < C)
      BY <1>1, <1>4
    <2>. QED  BY <2>1, ReadsFirst
  <1>5. Fetched(c, g, i, m, n)
            = {p \in {pair(k) : k \in 0..(g.K - 1)} : p[1] # Zero /\ p[2] # Zero}
    BY DEF Fetched
  <1>6. TermsAt(c, i, m, n) = {term(k) : k \in 0..(C - 1)}
    BY DEF TermsAt
  <1>. HIDE DEF pair, term, C
  <1>. QED  BY <1>2, <1>3, <1>4, <1>5, <1>6
-----------------------------------------------------------------------------
(* Where the Cube stores *)

\* The fields that say how an output is stored in its order, of any record.
FuseNames == {"out_fusible", "out_row_stride", "out_n_batch", "out_batch_sizes",
              "out_batch_strides"}

\* In a recipe they are those of an output that is fusible, or of one that is not.
LEMMA FuseRecipe ==
    ASSUME NEW e, NEW env
    PROVE  \A x \in FuseNames : MatmulRecipe(e, env)[x]
                                   = (IF Fusible(e) THEN FuseFields(e) ELSE NoFuse)[x]
  <1>. DEFINE natural == inplace(e) \o invariant0(e) \o invariant1(e)
              mode == DirectMode(e, env.tile, env.nt)
              fuse == IF Fusible(e) THEN FuseFields(e) ELSE NoFuse
              nt == IF mode # 0 THEN NtFields(e, mode) ELSE NoNt
              rest == Merged(fuse, nt)
              head == [in_transpose_idxs |->
                <<Indices(e.in0, inplace(e) \o invariant0(e) \o contract(e)),
                  Indices(e.in1, inplace(e) \o contract(e) \o invariant1(e))>>,
             out_interpret_shape |-> Dims(e, natural),
             out_transpose_idxs |-> Indices(natural, e.out),
             out_shape |-> OutShape(e),
             L0 |-> Product(Dims(e, invariant0(e))), L1 |-> Product(Dims(e, invariant1(e))),
             I |-> Product(Dims(e, inplace(e))), C |-> Product(Dims(e, contract(e))),
             elementwise |-> FALSE, n_elem |-> Product(OutShape(e))]
  <1>1. MatmulRecipe(e, env) = Merged(head, Merged(NoBcast, rest))
    BY DEF MatmulRecipe
  <1>2. FuseNames \subseteq DOMAIN fuse
    BY DEF FuseFields, NoFuse, FuseNames
  <1>3. \A x \in FuseNames : x \notin DOMAIN head
    BY DEF FuseNames
  <1>4. \A x \in FuseNames : x \notin DOMAIN NoBcast
    BY DEF FuseNames, NoBcast
  <1>. HIDE DEF head, fuse, nt, mode
  <1>5. \A x \in FuseNames : rest[x] = fuse[x] /\ x \in DOMAIN rest
    BY <1>2 DEF Merged
  <1>. HIDE DEF rest
  <1>. DEFINE more == Merged(NoBcast, rest)
  <1>6. \A x \in FuseNames : more[x] = rest[x] /\ x \in DOMAIN more
    BY <1>4, <1>5 DEF Merged
  <1>. HIDE DEF more
  <1>7. \A x \in FuseNames : Merged(head, more)[x] = more[x]
    BY <1>3, <1>6 DEF Merged
  <1>8. \A x \in FuseNames : MatmulRecipe(e, env)[x] = fuse[x]
    BY <1>1, <1>5, <1>6, <1>7 DEF more
  <1>. QED  BY <1>8 DEF fuse

\* An output is stored in its order only if each free group is one axis, that of
\* operand 1 innermost; the kernel is told the strides of its labels.
LEMMA FusedFields ==
    ASSUME NEW e, NEW env, NEW c, c = EinsumConfig(e, MatmulRecipe(e, env), env), FuseOut(c)
    PROVE  /\ Len(invariant0(e)) = 1 /\ Len(invariant1(e)) = 1
           /\ e.out[Len(e.out)] = invariant1(e)[1]
           /\ c.out_row_stride = RowStrides(OutShape(e))[IndexOf(e.out, invariant0(e)[1])]
           /\ c.out_n_batch = Len(inplace(e))
           /\ c.out_batch_sizes = NonEmpty(Dims(e, inplace(e)), 0)
           /\ c.out_batch_strides = NonEmpty(Strides(e.out, OutShape(e), inplace(e)), 0)
  <1>. DEFINE r == MatmulRecipe(e, env)
              fields == IF Fusible(e) THEN FuseFields(e) ELSE NoFuse
  <1>1. \A x \in FuseNames : r[x] = fields[x]
    BY FuseRecipe
  <1>. HIDE DEF r
  <1>2. /\ c.out_fusible = r.out_fusible /\ c.out_row_stride = r.out_row_stride
        /\ c.out_n_batch = r.out_n_batch
        /\ c.out_batch_sizes = NonEmpty(r.out_batch_sizes, 0)
        /\ c.out_batch_strides = NonEmpty(r.out_batch_strides, 0)
    <2>1. c = EinsumConfig(e, r, env)
      BY DEF r
    <2>. QED  BY <2>1 DEF EinsumConfig
  <1>. HIDE DEF fields
  <1>3. /\ r.out_fusible = fields.out_fusible /\ r.out_row_stride = fields.out_row_stride
        /\ r.out_n_batch = fields.out_n_batch /\ r.out_batch_sizes = fields.out_batch_sizes
        /\ r.out_batch_strides = fields.out_batch_strides
    BY <1>1 DEF FuseNames
  <1>4. Fusible(e)
    <2>. SUFFICES ASSUME ~Fusible(e) PROVE FALSE
      OBVIOUS
    <2>1. fields.out_fusible = FALSE
      BY DEF fields, NoFuse
    <2>2. r.out_fusible
      BY <1>2 DEF FuseOut
    <2>. QED  BY <1>3, <2>1, <2>2
  <1>5. fields = FuseFields(e)
    BY <1>4 DEF fields
  <1>6. /\ FuseFields(e).out_row_stride = RowStrides(OutShape(e))[IndexOf(e.out, invariant0(e)[1])]
        /\ FuseFields(e).out_n_batch = Len(inplace(e))
        /\ FuseFields(e).out_batch_sizes = Dims(e, inplace(e))
        /\ FuseFields(e).out_batch_strides = Strides(e.out, OutShape(e), inplace(e))
    BY DEF FuseFields, Strides, ResStride
  <1>. QED  BY <1>2, <1>3, <1>4, <1>5, <1>6 DEF Fusible
\* The transposition of the output into the order of the product.
OutTurned(e) == TransposeConfig(OutShape(e), Indices(e.out, OrderOut(e)))

\* It is one of the transpositions.
LEMMA OutTurns ==
    ASSUME NEW e, Sized(e)
    PROVE  LET t == OutTurned(e)
           IN  /\ IsTranspose(t) /\ t.from_shape = OutShape(e) /\ t.perm = Indices(e.out, OrderOut(e))
               /\ t.to_shape = Dims(e, OrderOut(e))
               /\ OutShape(e) \in Seq(Positive) /\ Len(OutShape(e)) = Len(e.out)
  <1>. DEFINE t == OutTurned(e)
              w == OrderOut(e)
  <1>1. e.out \in Seq(Positive) /\ IsInjective(e.out) /\ ToSet(e.out) \in SUBSET Labels(e)
    <2>1. e.out \in Seq(Positive) /\ IsInjective(e.out)
      BY DEF Sized, Valid
    <2>. QED  BY <2>1, Halves
  <1>2. Lists(w, ToSet(e.out)) /\ Lists(e.out, ToSet(e.out))
    BY Orders, Groups
  <1>3. OutShape(e) \in [1..Len(e.out) -> Positive]
    BY <1>1, <1>2, DimsPositive DEF OutShape
  <1>4. OutShape(e) \in Seq(Positive) /\ Len(OutShape(e)) = Len(e.out)
    <2>1. Len(e.out) \in Nat
      BY <1>1
    <2>. QED  BY <1>3, <2>1
  <1>5. /\ IsTranspose(t) /\ t.from_shape = OutShape(e) /\ t.perm = Indices(e.out, w)
        /\ t.to_shape = [i \in 1..Len(w) |-> OutShape(e)[IndexOf(e.out, w[i])]]
    <2>. HIDE DEF w
    <2>1. t = TransposeConfig(OutShape(e), Indices(e.out, w))
      BY DEF OutTurned, w
    <2>. HIDE DEF t
    <2>. QED  BY <1>1, <1>2, <1>4, <2>1, OperandTurn
  <1>6. t.to_shape = Dims(e, w)
    <2>. HIDE DEF t, w
    <2>1. DOMAIN w = 1..Len(w) /\ \A i \in 1..Len(w) : w[i] \in ToSet(e.out)
      BY <1>2 DEF Lists
    <2>2. \A a \in ToSet(e.out) : IndexOf(e.out, a) \in DOMAIN e.out /\ e.out[IndexOf(e.out, a)] = a
      BY <1>1, IndexOfLabel
    <2>3. \A i \in 1..Len(w) : OutShape(e)[IndexOf(e.out, w[i])] = Dim(e, w[i])
      BY <2>1, <2>2 DEF OutShape, Dims
    <2>4. Dims(e, w) = [i \in 1..Len(w) |-> Dim(e, w[i])]
      BY <2>1 DEF Dims
    <2>. QED  BY <1>5, <2>3, <2>4
  <1>. QED  BY <1>4, <1>5, <1>6

\* A fused store of a row and a column goes where the element belongs.
LEMMA FusedPlaces ==
    ASSUME NEW e, Sized(e), NEW env, NEW c, c = EinsumConfig(e, MatmulRecipe(e, env), env),
           NEW g, FuseOut(c), NEW f, Values(e, ToSet(e.out), f)
    PROVE  AddrC(c, g, BatchOf(e, f), RowOf(e, f), ColOf(e, f)) = Element(e, e.out, f)
  <1>. DEFINE s == e.out
              shape == OutShape(e)
              u == inplace(e)
              v == invariant0(e)
              x == invariant1(e)
              w == OrderOut(e)
              b == Len(u)
              t == OutTurned(e)
              R(a) == RowStrides(shape)[IndexOf(s, a)]
              i == BatchOf(e, f)
              m == RowOf(e, f)
              n == ColOf(e, f)
              low == Decode(i, SubSeq(t.to_shape, 1, b), SubSeq(t.perm_strides, 1, b))
  <1>1. /\ Len(v) = 1 /\ Len(x) = 1 /\ s[Len(s)] = x[1]
        /\ c.out_row_stride = R(v[1]) /\ c.out_n_batch = b
        /\ c.out_batch_sizes = NonEmpty(Dims(e, u), 0)
        /\ c.out_batch_strides = NonEmpty(Strides(s, shape, u), 0)
    BY FusedFields
  <1>2. /\ IsTranspose(t) /\ t.from_shape = shape /\ t.perm = Indices(s, w)
        /\ t.to_shape = Dims(e, w) /\ shape \in Seq(Positive) /\ Len(shape) = Len(s)
        /\ w = (u \o v) \o x /\ Lists(w, ToSet(s))
    <2>. HIDE DEF shape, t
    <2>1. /\ IsTranspose(t) /\ t.from_shape = shape /\ t.perm = Indices(s, w)
          /\ t.to_shape = Dims(e, w) /\ shape \in Seq(Positive) /\ Len(shape) = Len(s)
      BY OutTurns DEF shape, t
    <2>2. Lists(w, ToSet(s))
      BY Orders
    <2>. QED  BY <2>1, <2>2 DEF OrderOut
  <1>3. /\ s \in Seq(Positive) /\ u \in Seq(Positive) /\ v \in Seq(Positive) /\ x \in Seq(Positive)
    <2>1. /\ Lists(u, Inplaces(e)) /\ Lists(v, Invariants0(e)) /\ Lists(x, Invariants1(e))
          /\ Lists(s, ToSet(s))
      BY Groups
    <2>. HIDE DEF u, v, x
    <2>. QED  BY <2>1 DEF Lists
  <1>4. DirectAxes(e, s, shape, u, v, x, t)
    <2>. HIDE DEF s, shape, u, v, x, w, t
    <2>. QED  BY <1>1, <1>2, <1>3, DirectTurn
  <1>5. /\ b \in Nat /\ Dimensions(t) = b + 2
        /\ Dims(e, u) \in [1..b -> Nat] /\ Strides(s, shape, u) \in [1..b -> Nat]
        /\ SubSeq(t.to_shape, 1, b) = Dims(e, u)
        /\ SubSeq(t.perm_strides, 1, b) = Strides(s, shape, u)
        /\ t.to_shape[b + 1] = Dims(e, v)[1] /\ t.to_shape[b + 2] = Dims(e, x)[1]
        /\ t.perm_strides[b + 1] = R(v[1]) /\ t.perm_strides[b + 2] = R(x[1])
    BY <1>4 DEF DirectAxes
  <1>6. Dims(e, v)[1] = Rows(e) /\ Dims(e, x)[1] = Columns(e)
    <2>1. ASSUME NEW y, NEW T \in SUBSET Labels(e), Lists(y, T), Len(y) = 1
          PROVE  Product(Dims(e, y)) = Dims(e, y)[1]
      <3>1. Dims(e, y) \in [1..1 -> Positive]
        BY <2>1, DimsPositive
      <3>2. Dims(e, y) \in [1..1 -> Nat]
        BY <3>1 DEF Positive
      <3>. QED  BY <3>2, ProductOne
    <2>2. Invariants0(e) \in SUBSET Labels(e) /\ Invariants1(e) \in SUBSET Labels(e)
      BY Halves
    <2>. QED  BY <1>1, <2>1, <2>2, Groups DEF Rows, Columns
  <1>7. R(x[1]) = 1
    <2>. DEFINE p == Len(s)
    <2>1. x[1] \in ToSet(s)
      <3>1. 1 \in 1..Len(x) /\ Lists(x, Invariants1(e)) /\ Invariants1(e) \subseteq ToSet(s)
        BY <1>1, Groups
      <3>. HIDE DEF x
      <3>. QED  BY <3>1 DEF Lists
    <2>2. IndexOf(s, x[1]) \in 1..p /\ s[IndexOf(s, x[1])] = x[1] /\ p \in Nat /\ DOMAIN s = 1..p
      BY <1>3, <2>1, IndexOfLabel
    <2>3. IndexOf(s, x[1]) = p /\ p # 0
      <3>1. p \in 1..p
        BY <2>2
      <3>2. IsInjective(s)
        BY DEF Sized, Valid
      <3>. HIDE DEF s, x
      <3>3. IndexOf(s, x[1]) \in DOMAIN s /\ p \in DOMAIN s /\ s[IndexOf(s, x[1])] = s[p]
        BY <1>1, <2>2, <3>1
      <3>4. IndexOf(s, x[1]) = p
        BY <3>2, <3>3, Zenon DEF IsInjective
      <3>. QED  BY <3>1, <3>4
    <2>4. shape \in [1..p -> Positive]
      BY <1>2
    <2>. HIDE DEF p, shape
    <2>5. RowStrides(shape)[p] = 1
      BY <2>2, <2>3, <2>4, RowStridesStep
    <2>. QED  BY <2>3, <2>5
  <1>8. AddrC(c, g, i, m, n) = low + m * R(v[1]) + n
    <2>. DEFINE d == Dims(e, u)
                z == Strides(s, shape, u)
    <2>. HIDE DEF b, d, z, i, m, n, t, s, shape
    <2>1. b \in Nat /\ d \in [1..b -> Nat] /\ z \in [1..b -> Nat]
      BY <1>5 DEF d, z
    <2>2. SubSeq(NonEmpty(d, 0), 1, b) = d /\ SubSeq(NonEmpty(z, 0), 1, b) = z
      BY <2>1, DummyUnread
    <2>3. /\ c.out_batch_sizes = NonEmpty(d, 0) /\ c.out_batch_strides = NonEmpty(z, 0)
          /\ c.out_n_batch = b /\ c.out_row_stride = R(v[1])
      BY <1>1 DEF d, z
    <2>4. SubSeq(t.to_shape, 1, b) = d /\ SubSeq(t.perm_strides, 1, b) = z
      BY <1>5 DEF d, z
    <2>. QED  BY <2>2, <2>3, <2>4 DEF AddrC, Batch
  <1>9. /\ i \in Nat /\ m \in 0..(Rows(e) - 1) /\ n \in 0..(Columns(e) - 1) /\ m \in Nat /\ n \in Nat
        /\ Rows(e) \in Nat /\ Columns(e) \in Nat
    <2>1. /\ Batches(e) \in Positive /\ Rows(e) \in Positive /\ Columns(e) \in Positive
          /\ i \in 0..(Batches(e) - 1) /\ m \in 0..(Rows(e) - 1) /\ n \in 0..(Columns(e) - 1)
      BY IndicesInside
    <2>. HIDE DEF i, m, n
    <2>. QED  BY <2>1 DEF Positive
  <1>10. Element(e, w, f) = (i * Rows(e) + m) * Columns(e) + n
    BY GroupOffsets
  <1>11. Transferred(t, Element(e, w, f)) = Element(e, s, f)
    <2>1. /\ Lists(s, ToSet(s)) /\ Lists(w, ToSet(s)) /\ ToSet(s) \in SUBSET Labels(e)
      BY Groups, Orders, Halves
    <2>2. t = TransposeConfig(Dims(e, s), Indices(s, w))
      BY DEF OutTurned, OutShape
    <2>. HIDE DEF t, w, s
    <2>3. Values(e, ToSet(s), f)
      BY DEF s
    <2>. QED  BY <2>1, <2>2, <2>3, ElementTurned
  <1>. HIDE DEF t, i, m, n, u, v, x, w, s, shape, b
  <1>12. Sources(t)[(i * Rows(e) + m) * Columns(e) + n] = low + m * R(v[1]) + n
    <2>1. \A p \in Nat : \A y \in 0..(t.to_shape[b + 1] - 1) : \A z \in 0..(t.to_shape[b + 2] - 1) :
              Sources(t)[(p * t.to_shape[b + 1] + y) * t.to_shape[b + 2] + z]
                  = BaseOf(t, b, p) + y * t.perm_strides[b + 1] + z * t.perm_strides[b + 2]
      BY <1>2, <1>5, InnerMatrices
    <2>2. m \in 0..(t.to_shape[b + 1] - 1) /\ n \in 0..(t.to_shape[b + 2] - 1)
      BY <1>5, <1>6, <1>9
    <2>3. Sources(t)[(i * t.to_shape[b + 1] + m) * t.to_shape[b + 2] + n]
              = BaseOf(t, b, i) + m * t.perm_strides[b + 1] + n * t.perm_strides[b + 2]
      BY <1>9, <2>1, <2>2
    <2>4. BaseOf(t, b, i) = low
      BY DEF BaseOf
    <2>5. n * 1 = n
      BY <1>9
    <2>. HIDE DEF low
    <2>. QED  BY <1>5, <1>6, <1>7, <2>3, <2>4, <2>5
  <1>13. Element(e, w, f) \in Nat
    BY <1>9, <1>10
  <1>14. Sources(t)[Element(e, w, f)] = Transferred(t, Element(e, w, f))
    BY <1>2, <1>13, SourcesNat
  <1>15. AddrC(c, g, i, m, n) = Element(e, s, f)
    BY <1>8, <1>10, <1>11, <1>12, <1>14
  <1>. QED  BY <1>15 DEF i, m, n, s
\* A place of the product, in row-major order.
LEMMA RowMajorAddress ==
    ASSUME NEW c, NEW g, g.L0 = c.n_free0, g.L1 = c.n_free1, ~FuseOut(c),
           NEW i \in Nat, NEW m \in Nat, NEW n \in Nat, c.n_free0 \in Nat, c.n_free1 \in Nat
    PROVE  RowMajorPlace(c)[<<i, m, n>>] = AddrC(c, g, i, m, n)
  <1>. DEFINE L0 == c.n_free0
              L1 == c.n_free1
  <1>1. RowMajorPlace(c)[<<i, m, n>>] = (i * L0 + m) * L1 + n
    BY DEF RowMajorPlace
  <1>2. AddrC(c, g, i, m, n) = i * L0 * L1 + m * L1 + n
    BY DEF AddrC
  <1>3. L0 \in Nat /\ L1 \in Nat
    OBVIOUS
  <1>. HIDE DEF L0, L1
  <1>4. i * L0 * L1 + m * L1 + n = (i * L0 + m) * L1 + n
    BY <1>3
  <1>. QED  BY <1>1, <1>2, <1>4

\* An output in the order of the product is where the product puts it.
LEMMA KeptPlaces ==
    ASSUME NEW e, Sized(e), NEW c, Prepared(c, e), IsTranspose(c.tposeOut), OutIdentity(c),
           NEW f, Values(e, ToSet(e.out), f)
    PROVE  Element(e, OrderOut(e), f) = Element(e, e.out, f)
  <1>. DEFINE t == c.tposeOut
              w == OrderOut(e)
              s == e.out
  <1>1. /\ Lists(s, ToSet(s)) /\ Lists(w, ToSet(s)) /\ ToSet(s) \in SUBSET Labels(e)
    BY Groups, Orders, Halves
  <1>2. t = TransposeConfig(Dims(e, w), Indices(w, s)) /\ t.N = Product(Dims(e, s))
    BY DEF Prepared, OutShape
  <1>3. Transferred(t, Element(e, s, f)) = Element(e, w, f)
    BY <1>1, <1>2, ElementTurned
  <1>4. Element(e, s, f) \in Nat /\ Element(e, s, f) < t.N
    BY <1>1, <1>2, ElementInside
  <1>5. t.N \in Nat /\ IsIdentity(t.perm)
    BY TransposeAxes DEF OutIdentity, Positive
  <1>6. Element(e, s, f) \in 0..(t.N - 1)
    <2>. DEFINE j == Element(e, s, f)
    <2>. HIDE DEF j, t
    <2>1. j \in Nat /\ j < t.N
      BY <1>4 DEF j
    <2>. QED  BY <1>5, <2>1 DEF j
  <1>7. Sources(t)[Element(e, s, f)] = Element(e, s, f)
    BY <1>5, <1>6, OrderKept
  <1>8. Sources(t)[Element(e, s, f)] = Transferred(t, Element(e, s, f))
    BY <1>4, SourcesNat
  <1>. QED  BY <1>3, <1>7, <1>8

\* The fused kernel computes the einsum, as long as its slices are added to zeroes.
LEMMA NpuRight ==
    ASSUME NEW e, NEW env, NEW c, NEW g, NEW splitK, Handed(e, env, c, g, splitK),
           ~PartialPipelined(c), NEW zeroed, Atomic(c, g) => zeroed
    PROVE  EinsumNpu(c, zeroed) = Einsum(e)
  <1>. DEFINE I == 0..(c.n_inplace - 1)
              L0 == 0..(c.n_free0 - 1)
              L1 == 0..(c.n_free1 - 1)
              S == Products(c, g)
              Fs == Valuations(e, ToSet(e.out))
  <1>1. Sized(e) /\ Generated(c) /\ g = Geom(c) /\ c = EinsumConfig(e, MatmulRecipe(e, env), env)
    BY DEF Handed
  <1>2. Prepared(c, e)
    BY <1>1, MatmulPrepared
  <1>3. /\ g.L0 = c.n_free0 /\ c.n_free0 \in Nat /\ g.L1 = c.n_free1 /\ c.n_free1 \in Nat
        /\ c.n_inplace \in Nat /\ IsTranspose(c.tposeOut)
    BY HandedFields DEF Positive
  <1>4. I \subseteq Nat /\ L0 \subseteq Nat /\ L1 \subseteq Nat
    BY <1>3
  <1>5. \A i \in I, m \in L0, n \in L1 : Fetched(c, g, i, m, n) = TermsAt(c, i, m, n)
    BY FetchesTerms
  <1>6. \A f \in Fs : Values(e, ToSet(e.out), f)
    <2>1. ToSet(e.out) \in SUBSET Labels(e)
      BY <1>1, Halves
    <2>. QED  BY <1>1, <2>1, ValuationsAre
  <1>7. EinsumNpu(c, zeroed)
            = IF OutIdentity(c) \/ FuseOut(c) THEN S ELSE Transpose(c.tposeOut, S)
    BY <1>1 DEF EinsumNpu
  <1>8. CASE FuseOut(c)
    <2>. DEFINE place == [p \in Nat \X Nat \X Nat |-> AddrC(c, g, p[1], p[2], p[3])]
    <2>1. \A i \in I, m \in L0, n \in L1 : place[<<i, m, n>>] = AddrC(c, g, i, m, n)
      BY <1>4
    <2>2. ASSUME NEW f \in Fs
          PROVE  place[<<BatchOf(e, f), RowOf(e, f), ColOf(e, f)>>] = Element(e, e.out, f)
      <3>1. BatchOf(e, f) \in Nat /\ RowOf(e, f) \in Nat /\ ColOf(e, f) \in Nat
        <4>1. /\ Batches(e) \in Nat /\ Rows(e) \in Nat /\ Columns(e) \in Nat
              /\ BatchOf(e, f) \in 0..(Batches(e) - 1) /\ RowOf(e, f) \in 0..(Rows(e) - 1)
              /\ ColOf(e, f) \in 0..(Columns(e) - 1)
          BY <1>1, <1>6, IndicesInside DEF Positive
        <4>. QED  BY <4>1
      <3>2. AddrC(c, g, BatchOf(e, f), RowOf(e, f), ColOf(e, f)) = Element(e, e.out, f)
        BY <1>1, <1>6, <1>8, FusedPlaces
      <3>. QED  BY <3>1, <3>2
    <2>. HIDE DEF place
    <2>3. S = Placed(c, place)
      BY <1>1, <1>5, <2>1, ProductsPlaced
    <2>4. Placed(c, place) = Einsum(e)
      BY <1>1, <1>2, <2>2, PlacedIsEinsum
    <2>. QED  BY <1>7, <1>8, <2>3, <2>4
  <1>9. CASE ~FuseOut(c)
    <2>. DEFINE place == RowMajorPlace(c)
    <2>1. \A i \in I, m \in L0, n \in L1 : place[<<i, m, n>>] = AddrC(c, g, i, m, n)
      <3>1. ASSUME NEW i \in I, NEW m \in L0, NEW n \in L1
            PROVE  place[<<i, m, n>>] = AddrC(c, g, i, m, n)
        <4>1. i \in Nat /\ m \in Nat /\ n \in Nat
          BY <1>4
        <4>. HIDE DEF I, L0, L1
        <4>. QED  BY <1>3, <1>9, <4>1, RowMajorAddress
      <3>. HIDE DEF I, L0, L1, place
      <3>. QED  BY <3>1, Zenon
    <2>. HIDE DEF place
    <2>2. S = Placed(c, place)
      BY <1>1, <1>5, <2>1, ProductsPlaced
    <2>3. CASE OutIdentity(c)
      <3>1. ASSUME NEW f \in Fs
            PROVE  place[<<BatchOf(e, f), RowOf(e, f), ColOf(e, f)>>] = Element(e, e.out, f)
        <4>1. /\ Batches(e) \in Nat /\ Rows(e) \in Nat /\ Columns(e) \in Nat
              /\ BatchOf(e, f) \in 0..(Batches(e) - 1) /\ RowOf(e, f) \in 0..(Rows(e) - 1)
              /\ ColOf(e, f) \in 0..(Columns(e) - 1)
          BY <1>1, <1>6, IndicesInside DEF Positive
        <4>2. place[<<BatchOf(e, f), RowOf(e, f), ColOf(e, f)>>]
                  = (BatchOf(e, f) * Rows(e) + RowOf(e, f)) * Columns(e) + ColOf(e, f)
          <5>1. BatchOf(e, f) \in Nat /\ RowOf(e, f) \in Nat /\ ColOf(e, f) \in Nat
            BY <4>1
          <5>2. c.n_free0 = Rows(e) /\ c.n_free1 = Columns(e)
            BY <1>2 DEF Prepared
          <5>. QED  BY <5>1, <5>2 DEF place, RowMajorPlace
        <4>3. Element(e, OrderOut(e), f)
                  = (BatchOf(e, f) * Rows(e) + RowOf(e, f)) * Columns(e) + ColOf(e, f)
          BY <1>1, <1>6, GroupOffsets
        <4>4. Element(e, OrderOut(e), f) = Element(e, e.out, f)
          BY <1>1, <1>2, <1>3, <1>6, <2>3, KeptPlaces
        <4>. QED  BY <4>2, <4>3, <4>4
      <3>2. Placed(c, place) = Einsum(e)
        BY <1>1, <1>2, <3>1, PlacedIsEinsum
      <3>. QED  BY <1>7, <2>2, <2>3, <3>2
    <2>4. CASE ~OutIdentity(c)
      <3>1. Transpose(c.tposeOut, Placed(c, RowMajorPlace(c))) = Einsum(e)
        BY <1>1, <1>2, TurnedIsEinsum
      <3>. QED  BY <1>7, <1>9, <2>2, <2>4, <3>1 DEF place
    <2>. QED  BY <2>3, <2>4
  <1>. QED  BY <1>8, <1>9

\* And so does the CPU.
LEMMA CpuRight ==
    ASSUME NEW e, Sized(e), NEW c, Prepared(c, e)
    PROVE  EinsumCpu(c) = Einsum(e)
  <1>1. {c.n_inplace, c.n_free0, c.n_free1, c.n_contract} \subseteq Nat
    <2>1. /\ Batches(e) \in Nat /\ Rows(e) \in Nat /\ Columns(e) \in Nat /\ Steps(e) \in Nat
      <3>1. /\ Batches(e) \in Positive /\ Rows(e) \in Positive
            /\ Columns(e) \in Positive /\ Steps(e) \in Positive
        BY SizesPositive DEF Batches, Rows, Columns, Steps
      <3>. QED  BY <3>1 DEF Positive
    <2>. QED  BY <2>1 DEF Prepared
  <1>2. EinsumCpu(c) = Transpose(c.tposeOut, Placed(c, RowMajorPlace(c)))
    BY <1>1, CpuPlaced
  <1>. QED  BY <1>2, TurnedIsEinsum
-----------------------------------------------------------------------------
(* Equations without a contraction *)

\* Their elements are single products.
LEMMA PointwiseEinsum ==
    ASSUME NEW e, Sized(e), Contracted(e) = {}
    PROVE  Einsum(e) = {<<Element(e, e.out, f), {<<Element(e, e.in0, f), Element(e, e.in1, f)>>}>> :
                            f \in Valuations(e, ToSet(e.out))}
  <1>. DEFINE Fs == Valuations(e, ToSet(e.out))
              Gs == Valuations(e, Contracted(e))
              pair(f) == <<Element(e, e.in0, f), Element(e, e.in1, f)>>
              sum(f) == {pair(Merged(f, g)) : g \in Gs}
  <1>1. Gs # {}
    <2>. DEFINE h == [x \in {} |-> 0]
    <2>1. h \in [Contracted(e) -> Nat] /\ Values(e, Contracted(e), h)
      BY DEF Values
    <2>. HIDE DEF h
    <2>2. Contracted(e) \in SUBSET Labels(e)
      BY Halves
    <2>3. h \in Valuations(e, Contracted(e))
      BY <2>1, <2>2, ValuationsAre
    <2>. QED  BY <2>3
  <1>2. ToSet(e.in0) \subseteq ToSet(e.out) /\ ToSet(e.in1) \subseteq ToSet(e.out)
    BY Groups
  <1>3. ASSUME NEW f \in Fs, NEW g \in Gs PROVE pair(Merged(f, g)) = pair(f)
    <2>1. \A a \in ToSet(e.out) : Merged(f, g)[a] = f[a]
      BY ValuationsJoin
    <2>2. \A i \in DOMAIN e.in0 : Merged(f, g)[e.in0[i]] = f[e.in0[i]]
      BY <1>2, <2>1 DEF ToSet
    <2>3. \A i \in DOMAIN e.in1 : Merged(f, g)[e.in1[i]] = f[e.in1[i]]
      BY <1>2, <2>1 DEF ToSet
    <2>4. Element(e, e.in0, Merged(f, g)) = Element(e, e.in0, f)
      BY <2>2, ElementAgrees
    <2>5. Element(e, e.in1, Merged(f, g)) = Element(e, e.in1, f)
      BY <2>3, ElementAgrees
    <2>. QED  BY <2>4, <2>5
  <1>4. Einsum(e) = {<<Element(e, e.out, f), sum(f)>> : f \in Fs}
    BY DEF Einsum
  <1>. HIDE DEF pair, Gs, Fs
  <1>5. \A f \in Fs : sum(f) = {pair(f)}
    BY <1>1, <1>3
  <1>. HIDE DEF sum
  <1>6. Einsum(e) = {<<Element(e, e.out, f), {pair(f)}>> : f \in Fs}
    BY <1>4, <1>5
  <1>. QED  BY <1>6 DEF pair, Fs

\* What a place of such a result holds, if each place holds the right product.
LEMMA PointwiseRight ==
    ASSUME NEW e, Sized(e), Contracted(e) = {}, NEW val,
           \A f \in Valuations(e, ToSet(e.out)) :
               val[Element(e, e.out, f)] = <<Element(e, e.in0, f), Element(e, e.in1, f)>>
    PROVE  {<<a, {val[a]}>> : a \in 0..(Product(OutShape(e)) - 1)} = Einsum(e)
  <1>. DEFINE Fs == Valuations(e, ToSet(e.out))
              pair(f) == <<Element(e, e.in0, f), Element(e, e.in1, f)>>
              at(f) == Element(e, e.out, f)
              N == Product(OutShape(e))
  <1>1. Lists(e.out, ToSet(e.out)) /\ ToSet(e.out) \in SUBSET Labels(e)
    BY Groups, Halves
  <1>2. N \in Positive
    BY SizesPositive
  <1>3. ASSUME NEW f \in Fs PROVE at(f) \in 0..(N - 1)
    <2>1. Values(e, ToSet(e.out), f)
      BY <1>1, ValuationsAre
    <2>2. at(f) \in Nat /\ at(f) < N
      BY <1>1, <2>1, ElementInside DEF OutShape
    <2>. HIDE DEF at, N
    <2>. QED  BY <1>2, <2>2 DEF Positive
  <1>4. ASSUME NEW j \in 0..(N - 1) PROVE \E f \in Fs : at(f) = j
    <2>1. j \in Nat /\ j < N
      <3>. HIDE DEF N
      <3>. QED  BY <1>2 DEF Positive
    <2>. QED  BY <1>1, <2>1, ElementReaches DEF OutShape
  <1>5. Einsum(e) = {<<at(f), {pair(f)}>> : f \in Fs}
    BY PointwiseEinsum
  <1>6. \A f \in Fs : val[at(f)] = pair(f)
    OBVIOUS
  <1>. HIDE DEF at, pair, Fs, N
  <1>7. {<<a, {val[a]}>> : a \in 0..(N - 1)} = {<<at(f), {pair(f)}>> : f \in Fs}
    <2>1. ASSUME NEW a \in 0..(N - 1) PROVE <<a, {val[a]}>> \in {<<at(f), {pair(f)}>> : f \in Fs}
      BY <1>4, <1>6
    <2>2. ASSUME NEW f \in Fs PROVE <<at(f), {pair(f)}>> \in {<<a, {val[a]}>> : a \in 0..(N - 1)}
      BY <1>3, <1>6
    <2>. QED  BY <2>1, <2>2
  <1>. QED  BY <1>5, <1>7 DEF N

\* Stores of one element each, and what they leave.
LEMMA ResultsOfImage ==
    ASSUME NEW S, NEW val, NEW D, Image(S) = {<<a, val[a]>> : a \in D}
    PROVE  Results(S) = {<<a, {val[a]}>> : a \in D}
  <1>1. \A s \in S : \E a \in D : <<s[2], s[3]>> = <<a, val[a]>>
    BY DEF Image
  <1>2. \A a \in D : \E s \in S : <<s[2], s[3]>> = <<a, val[a]>>
    BY DEF Image
  <1>3. \A s \in S : \E a \in D : s[2] = a /\ s[3] = val[a]
    BY <1>1
  <1>4. \A a \in D : \E s \in S : s[2] = a /\ s[3] = val[a]
    BY <1>2
  <1>. QED  BY <1>3, <1>4 DEF Results

\* An elementwise product is the einsum, on either device.
LEMMA ElementwiseComputes ==
    ASSUME NEW e, Sized(e), Elementwise(e), NEW n, n = Product(OutShape(e))
    PROVE  ElementwiseCpu(n) = Einsum(e) /\ Results(elementwise_mul(n)) = Einsum(e)
  <1>. DEFINE val == [j \in Nat |-> <<j, j>>]
              D == 0..(n - 1)
  <1>1. n \in Nat
    BY SizesPositive DEF Positive
  <1>2. Contracted(e) = {}
    BY DEF Contracted, Common, Elementwise
  <1>3. ASSUME NEW f \in Valuations(e, ToSet(e.out))
        PROVE  val[Element(e, e.out, f)] = <<Element(e, e.in0, f), Element(e, e.in1, f)>>
    <2>1. Lists(e.out, ToSet(e.out)) /\ ToSet(e.out) \in SUBSET Labels(e)
      BY Groups, Halves
    <2>2. Values(e, ToSet(e.out), f)
      BY <2>1, ValuationsAre
    <2>3. Element(e, e.out, f) \in Nat
      BY <2>1, <2>2, ElementInside
    <2>. QED  BY <2>3 DEF Elementwise
  <1>4. \A j \in D : val[j] = <<j, j>>
    BY <1>1
  <1>. HIDE DEF val
  <1>5. {<<a, {val[a]}>> : a \in D} = Einsum(e)
    BY <1>2, <1>3, PointwiseRight
  <1>. HIDE DEF D
  <1>6. ElementwiseCpu(n) = {<<a, {val[a]}>> : a \in D}
    <2>1. ElementwiseCpu(n) = {<<j, {<<j, j>>}>> : j \in D}
      BY DEF ElementwiseCpu, D
    <2>. QED  BY <1>4, <2>1
  <1>7. Image(elementwise_mul(n)) = {<<a, val[a]>> : a \in D}
    <2>1. Image(elementwise_mul(n)) = {<<j, <<j, j>>>> : j \in D}
      BY <1>1, ElementwiseRight DEF D
    <2>. QED  BY <1>4, <2>1
  <1>8. Results(elementwise_mul(n)) = {<<a, {val[a]}>> : a \in D}
    <2>. DEFINE S == elementwise_mul(n)
    <2>1. Image(S) = {<<a, val[a]>> : a \in D}
      BY <1>7
    <2>. HIDE DEF S
    <2>2. Results(S) = {<<a, {val[a]}>> : a \in D}
      BY <2>1, ResultsOfImage, SMTT(30)
    <2>. QED  BY <2>2 DEF S
  <1>. QED  BY <1>5, <1>6, <1>8
-----------------------------------------------------------------------------
(* The broadcast products *)

\* A label appended to two groups is appended to the second.
LEMMA AppendJoined ==
    ASSUME NEW x \in Seq(Positive), NEW y \in Seq(Positive), NEW a \in Positive
    PROVE  Append(x \o y, a) = x \o Append(y, a)
  <1>1. Len(x) \in Nat /\ Len(y) \in Nat /\ x \o y \in Seq(Positive) /\ Len(x \o y) = Len(x) + Len(y)
    OBVIOUS
  <1>2. Append(y, a) \in Seq(Positive) /\ Len(Append(y, a)) = Len(y) + 1
    OBVIOUS
  <1>. DEFINE l == Append(x \o y, a)
              r == x \o Append(y, a)
  <1>3. l \in Seq(Positive) /\ Len(l) = Len(x) + Len(y) + 1
    BY <1>1
  <1>4. r \in Seq(Positive) /\ Len(r) = Len(x) + Len(y) + 1
    BY <1>1, <1>2
  <1>5. ASSUME NEW i \in 1..(Len(x) + Len(y) + 1) PROVE l[i] = r[i]
    <2>1. CASE i \in 1..Len(x)
      BY <1>1, <1>2, <2>1
    <2>2. CASE i \notin 1..Len(x) /\ i \in 1..(Len(x) + Len(y))
      BY <1>1, <1>2, <2>2
    <2>3. CASE i = Len(x) + Len(y) + 1
      BY <1>1, <1>2, <2>3
    <2>. QED  BY <1>1, <2>1, <2>2, <2>3
  <1>. HIDE DEF l, r
  <1>6. l = r
    BY <1>1, <1>3, <1>4, <1>5
  <1>. QED  BY <1>6 DEF l, r

\* InOrder of two groups of labels, one after the other.
LEMMA InOrderJoined ==
    ASSUME NEW S, NEW u \in Seq(Positive), NEW v \in Seq(Positive)
    PROVE  InOrder(S, u \o v) = InOrder(S, u) \o InOrder(S, v)
  <1>. DEFINE n == Len(u)
              m == Len(v)
              w == u \o v
  <1>1. /\ w \in Seq(Positive) /\ n \in Nat /\ m \in Nat /\ Len(w) = n + m
        /\ \A i \in 1..n : w[i] = u[i]
        /\ \A i \in 1..m : w[n + i] = v[i]
    BY Joining
  <1>2. PICK g : Picked(g, S, u)
    BY InOrderUnfolds
  <1>3. PICK h : Picked(h, S, v)
    BY InOrderUnfolds
  <1>4. PICK f : Picked(f, S, w)
    BY <1>1, InOrderUnfolds
  <1>5. /\ g \in [0..n -> Seq(Positive)] /\ g[0] = <<>> /\ g[n] = InOrder(S, u)
        /\ \A i \in 1..n : g[i] = IF u[i] \in S THEN Append(g[i - 1], u[i]) ELSE g[i - 1]
    BY <1>2 DEF Picked
  <1>6. /\ h \in [0..m -> Seq(Positive)] /\ h[0] = <<>> /\ h[m] = InOrder(S, v)
        /\ \A i \in 1..m : h[i] = IF v[i] \in S THEN Append(h[i - 1], v[i]) ELSE h[i - 1]
    BY <1>3 DEF Picked
  <1>. HIDE DEF n, m, w
  <1>7. /\ f[0] = <<>> /\ f[n + m] = InOrder(S, w)
        /\ \A i \in 1..(n + m) : f[i] = IF w[i] \in S THEN Append(f[i - 1], w[i]) ELSE f[i - 1]
    BY <1>1, <1>4 DEF Picked
  <1>. DEFINE Start == {k \in 0..n : f[k] = g[k]}
              Back == {k \in 0..m : f[n + k] = g[n] \o h[k]}
  <1>8. 0..n \subseteq Start
    <2>1. 0 \in Start
      BY <1>1, <1>5, <1>7
    <2>2. ASSUME NEW k \in 0..(n - 1), k \in Start PROVE k + 1 \in Start
      <3>1. k + 1 \in 1..n /\ k + 1 \in 1..(n + m) /\ (k + 1) - 1 = k
        BY <1>1
      <3>2. w[k + 1] = u[k + 1]
        BY <1>1, <3>1
      <3>3. f[k] = g[k]
        BY <2>2
      <3>4. g[k + 1] = IF u[k + 1] \in S THEN Append(g[k], u[k + 1]) ELSE g[k]
        BY <1>5, <3>1
      <3>5. f[k + 1] = IF w[k + 1] \in S THEN Append(f[k], w[k + 1]) ELSE f[k]
        BY <1>7, <3>1
      <3>6. f[k + 1] = g[k + 1]
        BY <3>2, <3>3, <3>4, <3>5
      <3>. QED  BY <1>1, <3>6
    <2>. HIDE DEF Start
    <2>. QED  BY <1>1, <2>1, <2>2, Induction
  <1>9. f[n] = g[n] /\ g[n] \in Seq(Positive)
    <2>1. n \in 0..n
      BY <1>1
    <2>. QED  BY <1>5, <1>8, <2>1
  <1>10. 0..m \subseteq Back
    <2>1. 0 \in Back
      <3>1. g[n] \o <<>> = g[n] /\ n + 0 = n /\ 0 \in 0..m
        BY <1>1, <1>9
      <3>. QED  BY <1>6, <1>9, <3>1
    <2>2. ASSUME NEW k \in 0..(m - 1), k \in Back PROVE k + 1 \in Back
      <3>1. /\ k + 1 \in 1..m /\ n + (k + 1) \in 1..(n + m) /\ (k + 1) - 1 = k
            /\ (n + (k + 1)) - 1 = n + k /\ k \in 0..m
        BY <1>1
      <3>2. w[n + (k + 1)] = v[k + 1] /\ v[k + 1] \in Positive
        BY <1>1, <3>1 DEF m
      <3>3. f[n + k] = g[n] \o h[k] /\ h[k] \in Seq(Positive)
        BY <1>6, <2>2, <3>1
      <3>4. h[k + 1] = IF v[k + 1] \in S THEN Append(h[k], v[k + 1]) ELSE h[k]
        BY <1>6, <3>1
      <3>5. f[n + (k + 1)] = IF v[k + 1] \in S THEN Append(f[n + k], v[k + 1]) ELSE f[n + k]
        BY <1>7, <3>1, <3>2
      <3>6. f[n + (k + 1)] = g[n] \o h[k + 1]
        <4>2. Append(g[n] \o h[k], v[k + 1]) = g[n] \o Append(h[k], v[k + 1])
          BY <1>9, <3>2, <3>3, AppendJoined
        <4>. QED  BY <3>3, <3>4, <3>5, <4>2
      <3>7. k + 1 \in 0..m
        BY <1>1
      <3>. QED  BY <3>6, <3>7
    <2>. HIDE DEF Back
    <2>. QED  BY <1>1, <2>1, <2>2, Induction
  <1>11. f[n + m] = g[n] \o h[m]
    <2>1. m \in 0..m
      BY <1>1
    <2>. QED  BY <1>10, <2>1
  <1>. QED  BY <1>5, <1>6, <1>7, <1>11 DEF w

\* InOrder keeps a list of labels of the set, and nothing of a list of others.
LEMMA InOrderKeeps ==
    ASSUME NEW S, NEW s \in Seq(Positive)
    PROVE  /\ (\A i \in 1..Len(s) : s[i] \in S) => InOrder(S, s) = s
           /\ (\A i \in 1..Len(s) : s[i] \notin S) => InOrder(S, s) = <<>>
  <1>. DEFINE n == Len(s)
  <1>1. n \in Nat /\ \A i \in 1..n : s[i] \in Positive
    OBVIOUS
  <1>2. PICK f : Picked(f, S, s)
    BY InOrderUnfolds
  <1>3. /\ f[0] = <<>> /\ f[n] = InOrder(S, s)
        /\ \A i \in 1..n : f[i] = IF s[i] \in S THEN Append(f[i - 1], s[i]) ELSE f[i - 1]
    BY <1>2 DEF Picked
  <1>. DEFINE All == {k \in 0..n : f[k] = SubSeq(s, 1, k)}
              None0 == {k \in 0..n : f[k] = <<>>}
  <1>4. ASSUME \A i \in 1..n : s[i] \in S PROVE InOrder(S, s) = s
    <2>1. 0 \in All
      <3>1. SubSeq(s, 1, 0) = <<>> /\ 0 \in 0..n
        BY <1>1
      <3>. HIDE DEF n
      <3>. QED  BY <1>3, <3>1
    <2>2. ASSUME NEW k \in 0..(n - 1), k \in All PROVE k + 1 \in All
      <3>1. k + 1 \in 1..n /\ (k + 1) - 1 = k
        BY <1>1
      <3>2. f[k + 1] = Append(SubSeq(s, 1, k), s[k + 1])
        BY <1>3, <1>4, <2>2, <3>1
      <3>3. Append(SubSeq(s, 1, k), s[k + 1]) = SubSeq(s, 1, k + 1)
        BY <1>1, <3>1
      <3>4. k + 1 \in 0..n
        BY <1>1
      <3>. HIDE DEF n
      <3>. QED  BY <3>2, <3>3, <3>4
    <2>3. n \in 0..n
      BY <1>1
    <2>4. SubSeq(s, 1, n) = s
      OBVIOUS
    <2>. HIDE DEF n
    <2>5. n \in All
      <3>. HIDE DEF All
      <3>1. 0..n \subseteq All
        BY <1>1, <2>1, <2>2, Induction
      <3>. QED  BY <2>3, <3>1
    <2>. QED  BY <1>3, <2>4, <2>5
  <1>5. ASSUME \A i \in 1..n : s[i] \notin S PROVE InOrder(S, s) = <<>>
    <2>1. 0 \in None0
      BY <1>1, <1>3
    <2>2. ASSUME NEW k \in 0..(n - 1), k \in None0 PROVE k + 1 \in None0
      <3>1. k + 1 \in 1..n /\ (k + 1) - 1 = k
        BY <1>1
      <3>2. f[k + 1] = <<>>
        BY <1>3, <1>5, <2>2, <3>1
      <3>. QED  BY <1>1, <3>2
    <2>3. n \in 0..n
      BY <1>1
    <2>. HIDE DEF n
    <2>4. n \in None0
      <3>. HIDE DEF None0
      <3>1. 0..n \subseteq None0
        BY <1>1, <2>1, <2>2, Induction
      <3>. QED  BY <2>3, <3>1
    <2>. QED  BY <1>3, <2>4
  <1>. QED  BY <1>4, <1>5

\* A part of a list of labels, and two parts next to each other.
LEMMA PartLists ==
    ASSUME NEW w, NEW T, Lists(w, T), NEW n, n = Len(w), NEW a \in 1..(n + 1), NEW b \in 0..n, a <= b + 1
    PROVE  LET p == SubSeq(w, a, b)
           IN  /\ Lists(p, ToSet(p)) /\ ToSet(p) \subseteq T /\ p \in Seq(Positive)
               /\ IsInjective(p) /\ Len(p) = b + 1 - a
               /\ \A i \in 1..Len(p) : p[i] = w[a + i - 1]
               /\ \A m \in b..n : p \o SubSeq(w, b + 1, m) = SubSeq(w, a, m)
  <1>. DEFINE p == SubSeq(w, a, b)
  <1>1. /\ w \in Seq(Positive) /\ n \in Nat /\ \A i \in 1..n : w[i] \in T
        /\ \A i, j \in 1..n : w[i] = w[j] => i = j
    BY DEF Lists
  <1>2. /\ p \in Seq(Positive) /\ Len(p) = b + 1 - a /\ Len(p) \in Nat
        /\ \A i \in 1..Len(p) : p[i] = w[a + i - 1]
    BY <1>1
  <1>3. \A i \in 1..Len(p) : a + i - 1 \in 1..n
    BY <1>1, <1>2
  <1>4. ASSUME NEW m \in b..n PROVE p \o SubSeq(w, b + 1, m) = SubSeq(w, a, m)
    <2>. DEFINE q == SubSeq(w, b + 1, m)
                r == SubSeq(w, a, m)
    <2>1. /\ q \in Seq(Positive) /\ Len(q) = m - b /\ Len(q) \in Nat
          /\ \A i \in 1..Len(q) : q[i] = w[b + i]
      BY <1>1
    <2>2. /\ r \in Seq(Positive) /\ Len(r) = m + 1 - a /\ Len(r) \in Nat
          /\ \A i \in 1..Len(r) : r[i] = w[a + i - 1]
      BY <1>1
    <2>. HIDE DEF p, q, r
    <2>5. Len(p) + Len(q) = Len(r)
      BY <1>1, <1>2, <2>1, <2>2
    <2>3. /\ p \o q \in Seq(Positive) /\ Len(p \o q) = Len(r)
          /\ \A i \in 1..Len(p) : (p \o q)[i] = p[i]
          /\ \A i \in 1..Len(q) : (p \o q)[Len(p) + i] = q[i]
      BY <1>2, <2>1, <2>5, Joining
    <2>4. ASSUME NEW i \in 1..Len(r) PROVE (p \o q)[i] = r[i]
      <3>1. CASE i \in 1..Len(p)
        BY <1>2, <2>2, <2>3, <3>1
      <3>2. CASE i \notin 1..Len(p)
        <4>. DEFINE j == i - Len(p)
        <4>1. j \in 1..Len(q) /\ Len(p) + j = i /\ b + j = a + i - 1
          BY <1>1, <1>2, <2>1, <2>2, <3>2
        <4>. HIDE DEF j
        <4>2. (p \o q)[Len(p) + j] = w[b + j]
          BY <2>1, <2>3, <4>1
        <4>. QED  BY <2>2, <4>1, <4>2
      <3>. QED  BY <3>1, <3>2
    <2>. QED  BY <2>2, <2>3, <2>4 DEF p, q, r
  <1>. HIDE DEF p
  <1>5. DOMAIN p = 1..Len(p) /\ ToSet(p) = {p[i] : i \in 1..Len(p)}
    BY <1>2 DEF ToSet
  <1>6. \A i, j \in 1..Len(p) : p[i] = p[j] => i = j
    <2>. SUFFICES ASSUME NEW i \in 1..Len(p), NEW j \in 1..Len(p), p[i] = p[j] PROVE i = j
      OBVIOUS
    <2>1. a + i - 1 = a + j - 1
      BY <1>1, <1>2, <1>3
    <2>. QED  BY <2>1
  <1>7. ToSet(p) \subseteq T /\ ToSet(p) \subseteq Positive
    BY <1>1, <1>2, <1>3, <1>5
  <1>8. Lists(p, ToSet(p)) /\ IsInjective(p)
    BY <1>2, <1>5, <1>6, <1>7 DEF Lists, IsInjective
  <1>. QED  BY <1>2, <1>4, <1>7, <1>8 DEF p
\* The strides of _try_broadcast along the labels w: bc has those of S, in this order.
KeptStrides(e, S, w) ==
    [p \in 1..Len(w) |-> IF w[p] \in S THEN Product(Dims(e, InOrder(S, SubSeq(w, p + 1, Len(w)))))
                                       ELSE 0]

\* What the labels of S up to position k, and those behind it, list.
KeptBefore(S, w, k) == InOrder(S, SubSeq(w, 1, k))
KeptAfter(S, w, k) == InOrder(S, SubSeq(w, k + 1, Len(w)))

\* The labels of S on both sides of a position.
LEMMA KeptLists ==
    ASSUME NEW e, Sized(e), NEW w, NEW T \in SUBSET Labels(e), Lists(w, T), NEW S, NEW k \in 0..Len(w)
    PROVE  \E A, B \in SUBSET Labels(e) :
              /\ A \subseteq T /\ Lists(KeptBefore(S, w, k), A)
              /\ B \subseteq T /\ Lists(KeptAfter(S, w, k), B)
  <1>. DEFINE n == Len(w)
              p == SubSeq(w, 1, k)
              q == SubSeq(w, k + 1, n)
  <1>1. n \in Nat /\ k \in 0..n /\ 1 \in 1..(n + 1) /\ k + 1 \in 1..(n + 1) /\ n \in 0..n
        /\ 1 <= k + 1 /\ k + 1 <= n + 1
    BY DEF Lists
  <1>2. ToSet(p) \subseteq T /\ p \in Seq(Positive) /\ IsInjective(p)
    BY <1>1, PartLists
  <1>3. ToSet(q) \subseteq T /\ q \in Seq(Positive) /\ IsInjective(q)
    BY <1>1, PartLists
  <1>. HIDE DEF p, q
  <1>4. Lists(InOrder(S, p), ToSet(p) \cap S) /\ Lists(InOrder(S, q), ToSet(q) \cap S)
    BY <1>2, <1>3, InOrderLists
  <1>5. ToSet(p) \cap S \in SUBSET Labels(e) /\ ToSet(q) \cap S \in SUBSET Labels(e)
        /\ ToSet(p) \cap S \subseteq T /\ ToSet(q) \cap S \subseteq T
    BY <1>2, <1>3
  <1>. QED  BY <1>4, <1>5 DEF KeptBefore, KeptAfter, p, q

\* The label a, if S has it.
Kept(S, a) == IF a \in S THEN <<a>> ELSE <<>>

\* One position on: its label moves from one side to the other, if S has it.
LEMMA KeptStep ==
    ASSUME NEW w, NEW T, Lists(w, T), NEW S, NEW k \in 0..(Len(w) - 1)
    PROVE  /\ KeptBefore(S, w, k + 1) = KeptBefore(S, w, k) \o Kept(S, w[k + 1])
           /\ KeptAfter(S, w, k) = Kept(S, w[k + 1]) \o KeptAfter(S, w, k + 1)
  <1>. DEFINE n == Len(w)
              a == <<w[k + 1]>>
              p == SubSeq(w, 1, k)
              q == SubSeq(w, k + 2, n)
              one == IF w[k + 1] \in S THEN <<w[k + 1]>> ELSE <<>>
  <1>1. /\ n \in Nat /\ k \in 0..n /\ k \in Nat /\ 1 \in 1..(n + 1) /\ k + 1 \in 1..(n + 1) /\ n \in 0..n
        /\ k + 2 \in 1..(n + 1) /\ k + 1 \in 0..n /\ 1 <= k + 1 /\ k + 1 <= n + 1 /\ k + 2 <= n + 1
        /\ k + 1 <= (k + 1) + 1 /\ k + 1 \in k..n /\ n \in (k + 1)..n /\ (k + 1) + 1 = k + 2
        /\ k + 1 \in 1..n
    BY DEF Lists
  <1>2. w \in Seq(Positive) /\ w[k + 1] \in Positive
    BY <1>1 DEF Lists
  <1>3. SubSeq(w, k + 1, k + 1) = a /\ a \in Seq(Positive) /\ Len(a) = 1 /\ a[1] = w[k + 1]
    <2>. DEFINE x == SubSeq(w, k + 1, k + 1)
    <2>1. a \in Seq(Positive) /\ Len(a) = 1 /\ a[1] = w[k + 1]
      BY <1>2
    <2>2. x \in Seq(Positive) /\ Len(x) = 1 /\ x[1] = w[k + 1]
      BY <1>1, <1>2
    <2>. HIDE DEF x, a
    <2>3. x = a
      BY <2>1, <2>2
    <2>. QED  BY <2>1, <2>3 DEF x
  <1>4. p \in Seq(Positive) /\ p \o a = SubSeq(w, 1, k + 1)
    BY <1>1, <1>3, PartLists
  <1>5. q \in Seq(Positive)
    BY <1>1, PartLists
  <1>6. a \o q = SubSeq(w, k + 1, n)
    <2>1. SubSeq(w, k + 1, k + 1) \o SubSeq(w, (k + 1) + 1, n) = SubSeq(w, k + 1, n)
      BY <1>1, PartLists
    <2>. QED  BY <1>1, <1>3, <2>1
  <1>. HIDE DEF p, q
  <1>7. InOrder(S, a) = one
    <2>1. CASE w[k + 1] \in S
      <3>1. \A i \in 1..Len(a) : a[i] \in S
        BY <1>3, <2>1
      <3>. HIDE DEF a
      <3>2. InOrder(S, a) = a
        BY <1>3, <3>1, InOrderKeeps
      <3>. QED  BY <2>1, <3>2 DEF a
    <2>2. CASE w[k + 1] \notin S
      <3>1. \A i \in 1..Len(a) : a[i] \notin S
        BY <1>3, <2>2
      <3>. HIDE DEF a
      <3>2. InOrder(S, a) = <<>>
        BY <1>3, <3>1, InOrderKeeps
      <3>. QED  BY <2>2, <3>2
    <2>. QED  BY <2>1, <2>2
  <1>. HIDE DEF a, one
  <1>8. InOrder(S, p \o a) = InOrder(S, p) \o one
    BY <1>3, <1>4, <1>7, InOrderJoined
  <1>9. InOrder(S, a \o q) = one \o InOrder(S, q)
    BY <1>3, <1>5, <1>7, InOrderJoined
  <1>10. /\ KeptBefore(S, w, k + 1) = InOrder(S, p \o a) /\ KeptBefore(S, w, k) = InOrder(S, p)
         /\ KeptAfter(S, w, k) = InOrder(S, a \o q) /\ KeptAfter(S, w, k + 1) = InOrder(S, q)
    BY <1>1, <1>4, <1>6 DEF KeptBefore, KeptAfter, p, q, n
  <1>. QED  BY <1>8, <1>9, <1>10 DEF one, Kept

\* The empty list and a list of one label, as groups of axes.
LEMMA SmallGroups ==
    ASSUME NEW e, Sized(e), NEW a \in Labels(e), NEW f, Values(e, {a}, f)
    PROVE  /\ Lists(<<a>>, {a}) /\ Element(e, <<a>>, f) = f[a] /\ Product(Dims(e, <<a>>)) = Dim(e, a)
           /\ Dim(e, a) \in Positive /\ f[a] \in Nat
  <1>1. Dim(e, a) \in Positive /\ a \in Positive
    <2>1. Lists(e.in0, ToSet(e.in0)) /\ Lists(e.in1, ToSet(e.in1))
      BY Halves
    <2>2. Labels(e) \subseteq Positive
      BY <2>1 DEF Lists, Labels
    <2>. QED  BY <2>2, DimPositive
  <1>. DEFINE w == <<a>>
  <1>2. w \in Seq(Positive) /\ Len(w) = 1 /\ w[1] = a /\ DOMAIN w = 1..1
    BY <1>1
  <1>3. Lists(w, {a})
    <2>. HIDE DEF w
    <2>1. \A i \in 1..1 : i = 1
      OBVIOUS
    <2>2. 1 \in 1..1
      OBVIOUS
    <2>. QED  BY <1>1, <1>2, <2>1, <2>2 DEF Lists
  <1>4. {a} \in SUBSET Labels(e) /\ f[a] \in Nat
    BY DEF Values
  <1>. HIDE DEF w
  <1>5. Dims(e, w) \in [1..1 -> Positive] /\ Dims(e, w)[1] = Dim(e, a)
    <2>1. Dims(e, w) \in [1..Len(w) -> Positive]
      BY <1>3, <1>4, DimsPositive
    <2>. QED  BY <1>2, <2>1 DEF Dims
  <1>6. Dims(e, w) \in [1..1 -> Nat]
    BY <1>5 DEF Positive
  <1>7. Product(Dims(e, w)) = Dim(e, a)
    BY <1>5, <1>6, ProductOne
  <1>8. Element(e, w, f) = Total([i \in 1..1 |-> f[w[i]] * RowStrides(Dims(e, w))[i]], 1)
    BY <1>2, <1>3, <1>4, ElementTotal
  <1>9. RowStrides(Dims(e, w))[1] = 1
    <2>. DEFINE d == Dims(e, w)
    <2>1. d \in [1..1 -> Positive] /\ 1 \in Nat /\ 1 # 0
      BY <1>5
    <2>. HIDE DEF d
    <2>. QED  BY <2>1, RowStridesStep DEF d
  <1>. DEFINE terms == [i \in 1..1 |-> f[w[i]] * RowStrides(Dims(e, w))[i]]
  <1>10. terms \in [1..1 -> Int] /\ terms[1] = f[a]
    <2>1. terms[1] = f[a] * 1
      BY <1>2, <1>9
    <2>2. \A i \in 1..1 : i = 1
      OBVIOUS
    <2>. QED  BY <1>4, <2>1, <2>2
  <1>11. Total(terms, 1) = f[a]
    <2>. HIDE DEF terms
    <2>1. PICK s \in [0..1 -> Int] : Sums(s, terms, 1)
      BY <1>10, TotalUnfolds
    <2>2. s[1] = s[1 - 1] + terms[1] /\ s[0] = 0 /\ s[1] = Total(terms, 1)
      BY <2>1 DEF Sums
    <2>. QED  BY <1>4, <1>10, <2>2
  <1>. QED  BY <1>1, <1>3, <1>4, <1>7, <1>8, <1>11 DEF w
\* Up to position k the strides reach the element of the labels before it.
KeptReach(e, S, w, f, k) ==
    Total([i \in 1..k |-> f[w[i]] * KeptStrides(e, S, w)[i]], k)
        = Element(e, KeptBefore(S, w, k), f) * Product(Dims(e, KeptAfter(S, w, k)))

\* The strides are natural numbers.
LEMMA KeptStridesNat ==
    ASSUME NEW e, Sized(e), NEW w, NEW T \in SUBSET Labels(e), Lists(w, T), NEW S
    PROVE  KeptStrides(e, S, w) \in [1..Len(w) -> Nat]
  <1>1. Len(w) \in Nat
    BY DEF Lists
  <1>2. ASSUME NEW p \in 1..Len(w) PROVE Product(Dims(e, InOrder(S, SubSeq(w, p + 1, Len(w))))) \in Nat
    <2>1. p \in 0..Len(w)
      BY <1>1
    <2>2. PICK B \in SUBSET Labels(e) : Lists(KeptAfter(S, w, p), B)
      BY <2>1, KeptLists
    <2>3. Product(Dims(e, KeptAfter(S, w, p))) \in Positive
      BY <2>2, DimsPositive
    <2>. QED  BY <2>3 DEF KeptAfter, Positive
  <1>. QED  BY <1>2 DEF KeptStrides

\* One position on.
LEMMA KeptReachStep ==
    ASSUME NEW e, Sized(e), NEW w, NEW T \in SUBSET Labels(e), Lists(w, T), NEW S,
           NEW f, Values(e, T, f), NEW k \in 0..(Len(w) - 1), KeptReach(e, S, w, f, k)
    PROVE  KeptReach(e, S, w, f, k + 1)
  <1>. DEFINE n == Len(w)
              a == w[k + 1]
              st == KeptStrides(e, S, w)
              terms == [i \in 1..(k + 1) |-> f[w[i]] * st[i]]
              u == KeptBefore(S, w, k)
              v == KeptAfter(S, w, k + 1)
  <1>1. n \in Nat /\ k \in Nat /\ k + 1 \in 1..n /\ k \in 0..n /\ k + 1 \in 0..n
        /\ \A i \in 1..(k + 1) : i \in 1..n
    BY DEF Lists
  <1>2. a \in T /\ \A i \in 1..n : f[w[i]] \in Nat
    BY <1>1 DEF Lists, Values
  <1>3. st \in [1..n -> Nat]
    BY KeptStridesNat
  <1>4. st[k + 1] = IF a \in S THEN Product(Dims(e, v)) ELSE 0
    BY <1>1 DEF KeptStrides, KeptAfter
  <1>5. terms \in [1..(k + 1) -> Int] /\ terms[k + 1] = f[a] * st[k + 1]
    <2>. HIDE DEF st
    <2>1. \A i \in 1..(k + 1) : f[w[i]] * st[i] \in Int
      BY <1>1, <1>2, <1>3, SMTT(20)
    <2>. QED  BY <1>1, <2>1
  <1>6. Total(terms, k + 1) = Total([i \in 1..k |-> terms[i]], k) + terms[k + 1]
    <2>. HIDE DEF terms
    <2>. QED  BY <1>1, <1>5, TotalStep
  <1>7. [i \in 1..k |-> terms[i]] = [i \in 1..k |-> f[w[i]] * st[i]]
    BY <1>1
  <1>8. Total(terms, k + 1) = Element(e, u, f) * Product(Dims(e, KeptAfter(S, w, k))) + f[a] * st[k + 1]
    BY <1>5, <1>6, <1>7 DEF KeptReach
  <1>9. PICK A \in SUBSET Labels(e) : A \subseteq T /\ Lists(u, A)
    BY <1>1, KeptLists
  <1>10. PICK B \in SUBSET Labels(e) : B \subseteq T /\ Lists(v, B)
    BY <1>1, KeptLists
  <1>11. PICK A1 \in SUBSET Labels(e) : A1 \subseteq T /\ Lists(KeptBefore(S, w, k + 1), A1)
    BY <1>1, KeptLists
  <1>12. Element(e, u, f) \in Nat /\ Product(Dims(e, v)) \in Nat
    <2>1. Values(e, A, f)
      BY <1>9 DEF Values
    <2>. HIDE DEF u, v
    <2>. QED  BY <1>9, <1>10, <2>1, ElementInside, DimsPositive DEF Positive
  <1>. DEFINE one == IF a \in S THEN <<a>> ELSE <<>>
  <1>13. KeptBefore(S, w, k + 1) = u \o one /\ KeptAfter(S, w, k) = one \o v
    <2>1. one = Kept(S, a)
      BY DEF Kept
    <2>. HIDE DEF one
    <2>. QED  BY <2>1, KeptStep
  <1>14. CASE a \in S
    <2>1. KeptBefore(S, w, k + 1) = u \o <<a>> /\ KeptAfter(S, w, k) = <<a>> \o v
      BY <1>13, <1>14
    <2>2. Values(e, {a}, f) /\ a \in Labels(e) /\ {a} \in SUBSET Labels(e)
      BY <1>2 DEF Values
    <2>. HIDE DEF a, u, v, st, terms
    <2>3. /\ Lists(<<a>>, {a}) /\ Element(e, <<a>>, f) = f[a] /\ Product(Dims(e, <<a>>)) = Dim(e, a)
          /\ Dim(e, a) \in Positive /\ f[a] \in Nat
      BY <2>2, SmallGroups
    <2>. DEFINE s == <<a>>
    <2>4. Lists(s, {a}) /\ Element(e, s, f) = f[a] /\ Product(Dims(e, s)) = Dim(e, a)
      BY <2>3
    <2>5. Lists(u \o s, A1)
      BY <1>11, <2>1
    <2>6. Product(Dims(e, s \o v)) = Dim(e, a) * Product(Dims(e, v))
      <3>. HIDE DEF s
      <3>. QED  BY <1>10, <2>2, <2>4, DimsJoined
    <2>7. Lists(u \o s, A \cup {a})
      <3>. HIDE DEF s
      <3>1. u \in Seq(Positive) /\ s \in Seq(Positive) /\ u \o s \in Seq(Positive)
            /\ Len(u) \in Nat /\ Len(s) \in Nat /\ Len(u \o s) = Len(u) + Len(s)
            /\ (\A i \in 1..Len(u) : (u \o s)[i] = u[i])
            /\ (\A i \in 1..Len(s) : (u \o s)[Len(u) + i] = s[i])
        <4>1. u \in Seq(Positive) /\ s \in Seq(Positive)
          BY <1>9, <2>4 DEF Lists
        <4>. QED  BY <4>1, Joining
      <3>2. A1 = A \cup {a}
        <4>1. ASSUME NEW x \in A \cup {a} PROVE x \in A1
          <5>1. CASE x \in A
            <6>1. PICK i \in 1..Len(u) : u[i] = x
              BY <1>9, <5>1 DEF Lists
            <6>2. i \in 1..Len(u \o s) /\ (u \o s)[i] = x
              BY <3>1, <6>1
            <6>. QED  BY <2>5, <6>2 DEF Lists
          <5>2. CASE x = a
            <6>1. PICK i \in 1..Len(s) : s[i] = x
              BY <2>4, <5>2 DEF Lists
            <6>2. Len(u) + i \in 1..Len(u \o s) /\ (u \o s)[Len(u) + i] = x
              BY <3>1, <6>1
            <6>. QED  BY <2>5, <6>2 DEF Lists
          <5>. QED  BY <4>1, <5>1, <5>2
        <4>2. ASSUME NEW x \in A1 PROVE x \in A \cup {a}
          <5>1. PICK i \in 1..Len(u \o s) : (u \o s)[i] = x
            BY <2>5 DEF Lists
          <5>2. CASE i \in 1..Len(u)
            BY <1>9, <3>1, <5>1, <5>2 DEF Lists
          <5>3. CASE i \notin 1..Len(u)
            <6>. DEFINE j == i - Len(u)
            <6>1. j \in 1..Len(s) /\ Len(u) + j = i
              BY <3>1, <5>1, <5>3
            <6>. HIDE DEF j
            <6>2. x = s[j]
              BY <3>1, <5>1, <6>1
            <6>. QED  BY <2>4, <6>1, <6>2 DEF Lists
          <5>. QED  BY <5>2, <5>3
        <4>. QED  BY <4>1, <4>2
      <3>. QED  BY <2>5, <3>2
    <2>8. Values(e, A \cup {a}, f)
      BY <1>9, <2>2 DEF Values
    <2>9. Element(e, u \o s, f) = Element(e, u, f) * Product(Dims(e, s)) + Element(e, s, f)
      <3>. HIDE DEF s
      <3>. QED  BY <1>9, <2>2, <2>4, <2>7, <2>8, ElementJoined
    <2>. DEFINE E == Element(e, u, f)
                R == Product(Dims(e, v))
                D == Dim(e, a)
                x == f[a]
    <2>10. Total(terms, k + 1) = E * (D * R) + x * R
      BY <1>4, <1>8, <1>14, <2>1, <2>6 DEF v
    <2>11. Element(e, KeptBefore(S, w, k + 1), f) = E * D + x
      BY <2>1, <2>4, <2>9
    <2>12. E \in Nat /\ R \in Nat /\ D \in Nat /\ x \in Nat
      BY <1>12, <2>3 DEF Positive
    <2>. HIDE DEF E, R, D, x
    <2>13. E * (D * R) + x * R = (E * D + x) * R
      BY <2>12
    <2>14. Total(terms, k + 1) = Element(e, KeptBefore(S, w, k + 1), f) * R
      BY <2>10, <2>11, <2>13
    <2>. QED  BY <2>14 DEF KeptReach, terms, st, v, R
  <1>15. CASE a \notin S
    <2>1. one = <<>>
      BY <1>15
    <2>2. u \in Seq(Positive) /\ v \in Seq(Positive)
      BY <1>9, <1>10 DEF Lists
    <2>. HIDE DEF u, v, a, st, terms
    <2>3. u \o <<>> = u /\ <<>> \o v = v
      BY <2>2
    <2>4. KeptBefore(S, w, k + 1) = u /\ KeptAfter(S, w, k) = v
      BY <1>13, <2>1, <2>3
    <2>5. f[a] * st[k + 1] = 0
      BY <1>2, <1>4, <1>15 DEF a, n
    <2>6. Total(terms, k + 1) = Element(e, u, f) * Product(Dims(e, v)) + 0
      BY <1>8, <2>4, <2>5
    <2>7. Total(terms, k + 1) = Element(e, u, f) * Product(Dims(e, v))
      BY <1>12, <2>6
    <2>. QED  BY <2>4, <2>7 DEF KeptReach, terms, st, v
  <1>. QED  BY <1>14, <1>15

\* The strides reach, from the places along the first k axes, the element of the
\* labels that are kept of them.
LEMMA KeptReaches ==
    ASSUME NEW e, Sized(e), NEW w, NEW T \in SUBSET Labels(e), Lists(w, T), NEW S,
           NEW f, Values(e, T, f), NEW k \in 0..Len(w)
    PROVE  KeptReach(e, S, w, f, k)
  <1>. DEFINE n == Len(w)
              R == {j \in 0..n : KeptReach(e, S, w, f, j)}
  <1>1. n \in Nat /\ w \in Seq(Positive)
    BY DEF Lists
  <1>2. 0 \in R
    <2>. DEFINE terms == [i \in 1..0 |-> f[w[i]] * KeptStrides(e, S, w)[i]]
    <2>1. terms \in [1..0 -> Int] /\ 0 \in 0..n
      BY <1>1
    <2>2. Total(terms, 0) = 0
      <3>. HIDE DEF terms
      <3>1. PICK s \in [0..0 -> Int] : Sums(s, terms, 0)
        BY <2>1, TotalUnfolds
      <3>. QED  BY <3>1 DEF Sums
    <2>3. KeptBefore(S, w, 0) = <<>>
      <3>1. SubSeq(w, 1, 0) = <<>> /\ <<>> \in Seq(Positive) /\ \A i \in 1..Len(<<>>) : FALSE
        BY <1>1
      <3>2. InOrder(S, <<>>) = <<>>
        BY <3>1, InOrderKeeps
      <3>. QED  BY <3>1, <3>2 DEF KeptBefore
    <2>4. Element(e, <<>>, f) = 0
      <3>1. Lists(<<>>, {}) /\ Values(e, {}, f)
        <4>1. <<>> \in Seq(Positive) /\ Len(<<>>) = 0
          OBVIOUS
        <4>. QED  BY <4>1 DEF Lists, Values
      <3>. DEFINE z == <<>>
      <3>2. Lists(z, {}) /\ Len(z) = 0
        BY <3>1
      <3>. HIDE DEF z
      <3>3. Element(e, z, f) = Total([i \in 1..0 |-> f[z[i]] * RowStrides(Dims(e, z))[i]], 0)
        BY <3>1, <3>2, ElementTotal
      <3>. DEFINE t == [i \in 1..0 |-> f[z[i]] * RowStrides(Dims(e, z))[i]]
      <3>4. t \in [1..0 -> Int]
        OBVIOUS
      <3>5. Total(t, 0) = 0
        <4>. HIDE DEF t
        <4>1. PICK s \in [0..0 -> Int] : Sums(s, t, 0)
          BY <3>4, TotalUnfolds
        <4>. QED  BY <4>1 DEF Sums
      <3>. QED  BY <3>3, <3>5 DEF z
    <2>5. Product(Dims(e, KeptAfter(S, w, 0))) \in Nat
      <3>1. PICK B \in SUBSET Labels(e) : Lists(KeptAfter(S, w, 0), B)
        BY <2>1, KeptLists
      <3>. QED  BY <3>1, DimsPositive DEF Positive
    <2>. QED  BY <2>1, <2>2, <2>3, <2>4, <2>5 DEF KeptReach
  <1>3. ASSUME NEW j \in 0..(n - 1), j \in R PROVE j + 1 \in R
    <2>1. j + 1 \in 0..n
      BY <1>1
    <2>2. KeptReach(e, S, w, f, j + 1)
      BY <1>3, KeptReachStep
    <2>. QED  BY <2>1, <2>2
  <1>. HIDE DEF R
  <1>4. 0..n \subseteq R
    BY <1>1, <1>2, <1>3, Induction
  <1>. QED  BY <1>4 DEF R
\* What _try_broadcast makes of the output's axes: those before inner are walked
\* group by group, bc has none of inner..(cols - 1) and all from cols on.
SplitsAt(e, c, cols, inner) ==
    LET n == Len(e.out)
        sizes == OutShape(e)
        S == ToSet(BcOperand(e))
    IN  /\ cols \in 1..(n + 1) /\ inner \in 1..cols
        /\ \A p \in cols..n : e.out[p] \in S
        /\ \A p \in inner..(cols - 1) : e.out[p] \notin S
        /\ c.mode # 0 => cols = n + 1
        /\ c.Cc = Product(SubSeq(sizes, cols, n))
        /\ c.mode = 0 => c.Rr = Product(SubSeq(sizes, inner, cols - 1))
        /\ c.Inner = Product(SubSeq(sizes, inner, n))
        /\ c.Outer = Product(SubSeq(sizes, 1, inner - 1))
        /\ c.outer_rank = Len(SubSeq(sizes, 1, inner - 1))
        /\ c.outer_dims = NonEmpty(SubSeq(sizes, 1, inner - 1), 1)
        /\ c.outer_bstride = NonEmpty(SubSeq(KeptStrides(e, S, e.out), 1, inner - 1), 0)
        /\ c.full_is_in0 = FullIs0(e)

\* Every configuration of a broadcast product splits the axes so.
LEMMA BroadcastSplits ==
    ASSUME NEW e, Sized(e), NEW c, c = BroadcastConfig(BroadcastRecipe(e))
    PROVE  \E cols, inner : SplitsAt(e, c, cols, inner)
  <1>. DEFINE n == Len(e.out)
              sizes == OutShape(e)
              S == ToSet(BcOperand(e))
              present == {p \in 1..n : e.out[p] \in S}
              lastBefore(P, below) == Max({0} \cup {p \in P : p < below})
              bstride == [p \in 1..n |->
                             IF p \in present
                             THEN Product(Dims(e, InOrder(S, SubSeq(e.out, p + 1, n))))
                             ELSE 0]
              mode == IF n \in present THEN 0 ELSE 1
              cols == IF mode = 0 THEN lastBefore((1..n) \ present, n + 1) + 1 ELSE n + 1
              inner == lastBefore(present, cols) + 1
              Cc == Product(SubSeq(sizes, cols, n))
              Rr == IF mode = 0 THEN Product(SubSeq(sizes, inner, cols - 1)) ELSE 1
              Inner == Product(SubSeq(sizes, inner, n))
              Outer == Product(SubSeq(sizes, 1, inner - 1))
              dims == SubSeq(sizes, 1, inner - 1)
              strides == SubSeq(bstride, 1, inner - 1)
  <1>1. /\ c.mode = mode /\ c.Cc = Cc /\ c.Rr = Rr /\ c.Inner = Inner /\ c.Outer = Outer
        /\ c.outer_rank = Len(dims) /\ c.outer_dims = NonEmpty(dims, 1)
        /\ c.outer_bstride = NonEmpty(strides, 0) /\ c.full_is_in0 = FullIs0(e)
    <2>1. \A x : /\ BroadcastConfig(x).mode = x.bc_mode
                 /\ BroadcastConfig(x).Cc = x.bc_Cc /\ BroadcastConfig(x).Rr = x.bc_Rr
                 /\ BroadcastConfig(x).Inner = x.bc_Inner /\ BroadcastConfig(x).Outer = x.bc_Outer
                 /\ BroadcastConfig(x).outer_rank = Len(x.bc_outer_dims)
                 /\ BroadcastConfig(x).outer_dims = NonEmpty(x.bc_outer_dims, 1)
                 /\ BroadcastConfig(x).outer_bstride = NonEmpty(x.bc_outer_bstride, 0)
                 /\ BroadcastConfig(x).full_is_in0 = x.bc_full_is_in0
      BY DEF BroadcastConfig
    <2>. DEFINE r == BroadcastRecipe(e)
                sizeB == Product(Dims(e, BcOperand(e)))
                own == [broadcast |-> TRUE, bc_mode |-> mode, bc_Cc |-> Cc, bc_Rr |-> Rr,
                        bc_Inner |-> Inner, bc_Outer |-> Outer, bc_sizeB |-> sizeB,
                        bc_full_is_in0 |-> FullIs0(e), bc_outer_dims |-> dims,
                        bc_outer_bstride |-> strides]
    <2>2. r = Merged(own, Unmultiplied(e, FALSE))
      BY DEF BroadcastRecipe
    <2>3. /\ r.bc_mode = mode /\ r.bc_Cc = Cc /\ r.bc_Rr = Rr /\ r.bc_Inner = Inner
          /\ r.bc_Outer = Outer /\ r.bc_outer_dims = dims /\ r.bc_outer_bstride = strides
          /\ r.bc_full_is_in0 = FullIs0(e)
      <3>. HIDE DEF r, sizeB, mode, Cc, Rr, Inner, Outer, dims, strides
      <3>. QED  BY <2>2 DEF Merged
    <2>. HIDE DEF r, mode, Cc, Rr, Inner, Outer, dims, strides
    <2>. QED  BY <2>1, <2>3 DEF r
  <1>2. n \in Nat
    <2>1. Lists(e.out, ToSet(e.out))
      BY Groups
    <2>. QED  BY <2>1 DEF Lists
  <1>3. present \in SUBSET Positive /\ (1..n) \ present \in SUBSET Positive /\ n + 1 \in Positive
    BY <1>2 DEF Positive
  <1>4. bstride = KeptStrides(e, S, e.out)
    <2>1. \A p \in 1..n : p \in present <=> e.out[p] \in S
      OBVIOUS
    <2>. HIDE DEF present
    <2>. QED  BY <2>1 DEF KeptStrides
  <1>5. \A p \in 1..n : p \notin present => e.out[p] \notin S
    OBVIOUS
  <1>6. \A p \in present : e.out[p] \in S
    OBVIOUS
  <1>. HIDE DEF present, bstride
  <1>7. /\ mode \in {0, 1} /\ cols \in 1..(n + 1) /\ (mode # 0 => cols = n + 1)
        /\ \A p \in cols..n : p \in present
    <2>. DEFINE last == lastBefore((1..n) \ present, n + 1)
    <2>1. last \in 0..((n + 1) - 1) /\ \A p \in (1..n) \ present : p < n + 1 => p <= last
      BY <1>3, LastPosition
    <2>. HIDE DEF last
    <2>2. CASE mode = 0
      <3>1. cols = last + 1
        BY <2>2 DEF last
      <3>. HIDE DEF cols, mode
      <3>2. ASSUME NEW p \in cols..n PROVE p \in present
        <4>1. p \in 1..n /\ p < n + 1 /\ ~(p <= last)
          BY <1>2, <2>1, <3>1
        <4>. QED  BY <2>1, <4>1
      <3>. QED  BY <1>2, <2>1, <2>2, <3>1, <3>2
    <2>3. CASE mode # 0
      <3>1. cols = n + 1 /\ mode = 1
        BY <2>3
      <3>. HIDE DEF cols, mode
      <3>. QED  BY <1>2, <3>1
    <2>. QED  BY <2>2, <2>3
  <1>. HIDE DEF cols, mode
  <1>8. inner \in 1..cols /\ \A p \in inner..(cols - 1) : p \notin present
    <2>. DEFINE last == lastBefore(present, cols)
    <2>1. cols \in Positive /\ cols \in Nat
      BY <1>2, <1>7 DEF Positive
    <2>2. last \in 0..(cols - 1) /\ \A p \in present : p < cols => p <= last
      BY <1>3, <2>1, LastPosition
    <2>3. inner = last + 1
      OBVIOUS
    <2>. HIDE DEF last, inner
    <2>4. ASSUME NEW p \in inner..(cols - 1), p \in present PROVE FALSE
      <3>1. p < cols /\ ~(p <= last)
        BY <2>1, <2>2, <2>3
      <3>. QED  BY <2>2, <2>4, <3>1
    <2>. QED  BY <2>1, <2>2, <2>3, <2>4
  <1>. HIDE DEF inner
  <1>9. /\ \A p \in cols..n : e.out[p] \in S
        /\ \A p \in inner..(cols - 1) : e.out[p] \notin S
    <2>1. \A p \in inner..(cols - 1) : p \in 1..n
      BY <1>2, <1>7, <1>8
    <2>. QED  BY <1>5, <1>6, <1>7, <1>8, <2>1
  <1>. QED  BY <1>1, <1>4, <1>7, <1>8, <1>9 DEF SplitsAt
\* The labels of two groups.
LEMMA LabelsJoined ==
    ASSUME NEW u \in Seq(Positive), NEW v \in Seq(Positive)
    PROVE  ToSet(u \o v) = ToSet(u) \cup ToSet(v)
  <1>. DEFINE w == u \o v
  <1>1. /\ w \in Seq(Positive) /\ Len(u) \in Nat /\ Len(v) \in Nat /\ Len(w) = Len(u) + Len(v)
        /\ \A i \in 1..Len(u) : w[i] = u[i]
        /\ \A i \in 1..Len(v) : w[Len(u) + i] = v[i]
    BY Joining
  <1>. HIDE DEF w
  <1>2. \A s \in Seq(Positive) : ToSet(s) = {s[i] : i \in 1..Len(s)}
    BY DEF ToSet
  <1>3. ASSUME NEW i \in 1..Len(w) PROVE w[i] \in ToSet(u) \cup ToSet(v)
    <2>1. CASE i \in 1..Len(u)
      BY <1>1, <1>2, <2>1
    <2>2. CASE i \notin 1..Len(u)
      <3>. DEFINE j == i - Len(u)
      <3>1. j \in 1..Len(v) /\ Len(u) + j = i
        BY <1>1, <2>2
      <3>. HIDE DEF j
      <3>. QED  BY <1>1, <1>2, <3>1
    <2>. QED  BY <2>1, <2>2
  <1>4. ASSUME NEW i \in 1..Len(u) PROVE u[i] \in ToSet(w)
    <2>1. i \in 1..Len(w)
      BY <1>1
    <2>. QED  BY <1>1, <1>2, <2>1
  <1>5. ASSUME NEW i \in 1..Len(v) PROVE v[i] \in ToSet(w)
    <2>1. Len(u) + i \in 1..Len(w)
      BY <1>1
    <2>. QED  BY <1>1, <1>2, <2>1
  <1>6. ToSet(w) = {w[i] : i \in 1..Len(w)} /\ ToSet(u) = {u[i] : i \in 1..Len(u)}
        /\ ToSet(v) = {v[i] : i \in 1..Len(v)}
    BY <1>1, <1>2
  <1>7. ToSet(w) \subseteq ToSet(u) \cup ToSet(v)
    BY <1>3, <1>6
  <1>8. ToSet(u) \subseteq ToSet(w) /\ ToSet(v) \subseteq ToSet(w)
    BY <1>4, <1>5, <1>6
  <1>. QED  BY <1>7, <1>8 DEF w

\* A list of labels lists the set of its elements only.
LEMMA ListedSet ==
    ASSUME NEW w, NEW T, Lists(w, T)
    PROVE  T = ToSet(w) /\ w \in Seq(Positive) /\ Len(w) \in Nat
  BY DEF Lists, ToSet

\* The labels of w cut in three: S has none of the middle ones, and all of the last.
Cut(w, S, inner, cols) ==
    /\ cols \in 1..(Len(w) + 1) /\ inner \in 1..cols
    /\ \A p \in cols..Len(w) : w[p] \in S
    /\ \A p \in inner..(cols - 1) : w[p] \notin S

Lead(w, inner) == SubSeq(w, 1, inner - 1)
Middle(w, inner, cols) == SubSeq(w, inner, cols - 1)
Tail0(w, cols) == SubSeq(w, cols, Len(w))

\* p, m and q are the three parts.
Parted(w, T, S, inner, p, m, q) ==
    /\ Lists(p, ToSet(p)) /\ Lists(m, ToSet(m)) /\ Lists(q, ToSet(q))
    /\ Lists(p \o m, ToSet(p) \cup ToSet(m)) /\ w = (p \o m) \o q /\ w = p \o (m \o q)
    /\ T = (ToSet(p) \cup ToSet(m)) \cup ToSet(q)
    /\ Len(p) = inner - 1 /\ \A i \in 1..Len(p) : p[i] = w[i]
    /\ \A i \in 1..Len(m) : m[i] \notin S
    /\ \A i \in 1..Len(q) : q[i] \in S
    /\ m \o q = SubSeq(w, inner, Len(w))
    /\ p \in Seq(Positive) /\ m \in Seq(Positive) /\ q \in Seq(Positive)

\* The three parts of the labels.
LEMMA CutParts ==
    ASSUME NEW w, NEW T, Lists(w, T), NEW S, NEW inner, NEW cols, Cut(w, S, inner, cols)
    PROVE  Parted(w, T, S, inner, Lead(w, inner), Middle(w, inner, cols), Tail0(w, cols))
  <1>. DEFINE n == Len(w)
              p == SubSeq(w, 1, inner - 1)
              m == SubSeq(w, inner, cols - 1)
              q == SubSeq(w, cols, n)
              pm == SubSeq(w, 1, cols - 1)
              mq == SubSeq(w, inner, n)
  <1>1. /\ n \in Nat /\ n \in 0..n /\ 1 \in 1..(n + 1) /\ inner \in 1..(n + 1) /\ cols \in 1..(n + 1)
        /\ inner - 1 \in 0..n /\ cols - 1 \in 0..n /\ 1 <= (inner - 1) + 1 /\ 1 <= (cols - 1) + 1
        /\ inner <= (cols - 1) + 1 /\ inner <= n + 1 /\ cols <= n + 1 /\ inner <= cols
        /\ (inner - 1) + 1 = inner /\ (cols - 1) + 1 = cols
        /\ cols - 1 \in (inner - 1)..n /\ n \in (inner - 1)..n /\ n \in (cols - 1)..n
        /\ inner \in Int /\ cols \in Int
    BY DEF Cut, Lists
  <1>2. /\ Lists(p, ToSet(p)) /\ p \in Seq(Positive) /\ Len(p) = inner - 1
        /\ \A i \in 1..Len(p) : p[i] = w[1 + i - 1]
        /\ \A k \in (inner - 1)..n : p \o SubSeq(w, (inner - 1) + 1, k) = SubSeq(w, 1, k)
    <2>1. (inner - 1) + 1 - 1 = inner - 1
      BY <1>1
    <2>. HIDE DEF n
    <2>. QED  BY <1>1, <2>1, PartLists DEF n
  <1>3. /\ Lists(m, ToSet(m)) /\ m \in Seq(Positive) /\ Len(m) = cols - inner
        /\ \A i \in 1..Len(m) : m[i] = w[inner + i - 1]
        /\ \A k \in (cols - 1)..n : m \o SubSeq(w, (cols - 1) + 1, k) = SubSeq(w, inner, k)
    <2>1. (cols - 1) + 1 - inner = cols - inner
      BY <1>1
    <2>. QED  BY <1>1, <2>1, PartLists
  <1>4. /\ Lists(q, ToSet(q)) /\ q \in Seq(Positive) /\ Len(q) = n + 1 - cols
        /\ \A i \in 1..Len(q) : q[i] = w[cols + i - 1]
    BY <1>1, PartLists
  <1>5. /\ Lists(pm, ToSet(pm)) /\ pm \o SubSeq(w, (cols - 1) + 1, n) = SubSeq(w, 1, n)
    <2>1. n = Len(w)
      OBVIOUS
    <2>2. \A k \in (cols - 1)..n : pm \o SubSeq(w, (cols - 1) + 1, k) = SubSeq(w, 1, k)
      <3>. HIDE DEF n
      <3>. QED  BY <1>1, <2>1, PartLists
    <2>3. Lists(pm, ToSet(pm))
      <3>. HIDE DEF n
      <3>. QED  BY <1>1, <2>1, PartLists
    <2>. QED  BY <1>1, <2>2, <2>3
  <1>6. SubSeq(w, 1, n) = w
    BY DEF Lists
  <1>7. p \o m = pm /\ m \o q = mq /\ pm \o q = w /\ p \o mq = w
    <2>1. p \o SubSeq(w, inner, cols - 1) = SubSeq(w, 1, cols - 1)
      BY <1>1, <1>2
    <2>2. p \o SubSeq(w, inner, n) = SubSeq(w, 1, n)
      BY <1>1, <1>2
    <2>3. m \o SubSeq(w, cols, n) = SubSeq(w, inner, n)
      BY <1>1, <1>3
    <2>4. pm \o SubSeq(w, cols, n) = SubSeq(w, 1, n)
      BY <1>1, <1>5
    <2>. QED  BY <1>6, <2>1, <2>2, <2>3, <2>4
  <1>8. \A i \in 1..Len(p) : p[i] = w[i]
    <2>1. \A i \in Int : 1 + i - 1 = i
      OBVIOUS
    <2>. QED  BY <1>2, <2>1
  <1>9. \A i \in 1..Len(m) : inner + i - 1 \in inner..(cols - 1)
    <2>. DEFINE l == Len(m)
    <2>1. l = cols - inner
      BY <1>3
    <2>. HIDE DEF l
    <2>2. \A i \in 1..l : inner + i - 1 \in inner..(cols - 1)
      BY <1>1, <2>1
    <2>. QED  BY <2>2 DEF l
  <1>10. \A i \in 1..Len(q) : cols + i - 1 \in cols..n
    BY <1>1, <1>4
  <1>11. (\A i \in 1..Len(m) : m[i] \notin S) /\ (\A i \in 1..Len(q) : q[i] \in S)
    BY <1>3, <1>4, <1>9, <1>10 DEF Cut
  <1>. HIDE DEF p, m, q, pm, mq
  <1>12. ToSet(pm) = ToSet(p) \cup ToSet(m)
    BY <1>2, <1>3, <1>7, LabelsJoined
  <1>13. pm \in Seq(Positive)
    BY <1>5, ListedSet
  <1>14. T = ToSet(w) /\ ToSet(w) = ToSet(pm) \cup ToSet(q)
    BY <1>4, <1>7, <1>13, LabelsJoined, ListedSet
  <1>15. p = Lead(w, inner) /\ m = Middle(w, inner, cols) /\ q = Tail0(w, cols)
         /\ mq = SubSeq(w, inner, Len(w))
    BY DEF Lead, Middle, Tail0, p, m, q, mq
  <1>. HIDE DEF n
  <1>16. Lists(p \o m, ToSet(p) \cup ToSet(m)) /\ w = (p \o m) \o q /\ w = p \o (m \o q)
    BY <1>5, <1>7, <1>12
  <1>. QED  BY <1>2, <1>3, <1>4, <1>7, <1>8, <1>11, <1>12, <1>14, <1>15, <1>16 DEF Parted

\* The element over labels cut in three.
LEMMA CutElement ==
    ASSUME NEW e, Sized(e), NEW w, NEW T \in SUBSET Labels(e), Lists(w, T),
           NEW S, NEW inner, NEW cols, Cut(w, S, inner, cols), NEW f, Values(e, T, f)
    PROVE  LET p == Lead(w, inner)
               m == Middle(w, inner, cols)
               q == Tail0(w, cols)
           IN  /\ Element(e, w, f) = (Element(e, p, f) * Product(Dims(e, m)) + Element(e, m, f))
                                         * Product(Dims(e, q)) + Element(e, q, f)
               /\ Element(e, p, f) \in Nat
               /\ Element(e, m, f) \in Nat /\ Element(e, m, f) < Product(Dims(e, m))
               /\ Element(e, q, f) \in Nat /\ Element(e, q, f) < Product(Dims(e, q))
               /\ Product(Dims(e, m)) \in Positive /\ Product(Dims(e, q)) \in Positive
  <1>. DEFINE p == Lead(w, inner)
              m == Middle(w, inner, cols)
              q == Tail0(w, cols)
  <1>1. /\ Lists(p, ToSet(p)) /\ Lists(m, ToSet(m)) /\ Lists(q, ToSet(q))
        /\ Lists(p \o m, ToSet(p) \cup ToSet(m)) /\ w = (p \o m) \o q
        /\ T = (ToSet(p) \cup ToSet(m)) \cup ToSet(q)
    <2>1. Parted(w, T, S, inner, p, m, q)
      BY CutParts
    <2>. HIDE DEF p, m, q
    <2>. QED  BY <2>1 DEF Parted
  <1>. HIDE DEF p, m, q
  <1>2. /\ ToSet(p) \in SUBSET Labels(e) /\ ToSet(m) \in SUBSET Labels(e)
        /\ ToSet(q) \in SUBSET Labels(e) /\ ToSet(p) \cup ToSet(m) \in SUBSET Labels(e)
    BY <1>1
  <1>3. Values(e, ToSet(p), f) /\ Values(e, ToSet(m), f) /\ Values(e, ToSet(q), f)
    BY <1>1 DEF Values
  <1>4. Thrice(e, p, ToSet(p), m, ToSet(m), q, ToSet(q), w, T, f)
    BY <1>1, <1>2 DEF Thrice
  <1>5. Element(e, w, f) = (Element(e, p, f) * Product(Dims(e, m)) + Element(e, m, f))
                               * Product(Dims(e, q)) + Element(e, q, f)
    BY <1>4, ElementThrice
  <1>6. Product(Dims(e, m)) \in Positive /\ Product(Dims(e, q)) \in Positive
    BY <1>1, <1>2, DimsPositive
  <1>7. /\ Element(e, p, f) \in Nat
        /\ Element(e, m, f) \in Nat /\ Element(e, m, f) < Product(Dims(e, m))
        /\ Element(e, q, f) \in Nat /\ Element(e, q, f) < Product(Dims(e, q))
    BY <1>1, <1>2, <1>3, ElementInside
  <1>. QED  BY <1>5, <1>6, <1>7 DEF p, m, q

\* What is kept of labels cut in three.
LEMMA CutKept ==
    ASSUME NEW w, NEW T, Lists(w, T), NEW S, NEW inner, NEW cols, Cut(w, S, inner, cols)
    PROVE  /\ KeptAfter(S, w, inner - 1) = Tail0(w, cols)
           /\ InOrder(S, w) = KeptBefore(S, w, inner - 1) \o Tail0(w, cols)
  <1>. DEFINE p == Lead(w, inner)
              m == Middle(w, inner, cols)
              q == Tail0(w, cols)
  <1>1. /\ w = p \o (m \o q) /\ p \in Seq(Positive) /\ m \in Seq(Positive) /\ q \in Seq(Positive)
        /\ \A i \in 1..Len(m) : m[i] \notin S
        /\ \A i \in 1..Len(q) : q[i] \in S
        /\ m \o q = SubSeq(w, inner, Len(w))
    <2>1. Parted(w, T, S, inner, p, m, q)
      BY CutParts
    <2>. HIDE DEF p, m, q
    <2>. QED  BY <2>1 DEF Parted
  <1>2. p = SubSeq(w, 1, inner - 1) /\ (inner - 1) + 1 = inner
    BY DEF Lead, Cut
  <1>. HIDE DEF p, m, q
  <1>3. InOrder(S, m) = <<>> /\ InOrder(S, q) = q
    BY <1>1, InOrderKeeps
  <1>4. InOrder(S, m \o q) = <<>> \o q
    BY <1>1, <1>3, InOrderJoined, ZenonT(30)
  <1>5. <<>> \o q = q /\ m \o q \in Seq(Positive)
    <2>1. <<>> \o q = q
      BY <1>1
    <2>2. m \o q \in Seq(Positive)
      BY <1>1, Joining
    <2>. QED  BY <2>1, <2>2
  <1>6. InOrder(S, p \o (m \o q)) = InOrder(S, p) \o q
    <2>. DEFINE mq == m \o q
    <2>1. mq \in Seq(Positive) /\ InOrder(S, mq) = q
      BY <1>4, <1>5
    <2>. HIDE DEF mq
    <2>2. InOrder(S, p \o mq) = InOrder(S, p) \o q
      BY <1>1, <2>1, InOrderJoined
    <2>. QED  BY <2>2 DEF mq
  <1>7. KeptBefore(S, w, inner - 1) = InOrder(S, p)
    BY <1>2 DEF KeptBefore
  <1>8. KeptAfter(S, w, inner - 1) = InOrder(S, m \o q)
    BY <1>1, <1>2 DEF KeptAfter
  <1>. QED  BY <1>1, <1>4, <1>5, <1>6, <1>7, <1>8 DEF q
\* The dimensions of a part of the output are that part of its shape.
LEMMA PartDims ==
    ASSUME NEW e, Sized(e), NEW n, n = Len(e.out), NEW a \in 1..(n + 1), NEW b \in 0..n, a <= b + 1
    PROVE  Dims(e, SubSeq(e.out, a, b)) = SubSeq(OutShape(e), a, b)
  <1>. DEFINE w == e.out
              p == SubSeq(w, a, b)
              s == OutShape(e)
              l == b + 1 - a
  <1>1. Lists(w, ToSet(w)) /\ ToSet(w) \in SUBSET Labels(e)
    BY Groups, Halves
  <1>2. n \in Nat /\ w \in Seq(Positive) /\ DOMAIN w = 1..n
    BY <1>1 DEF Lists
  <1>3. p \in Seq(Positive) /\ Len(p) = l /\ \A i \in 1..Len(p) : p[i] = w[a + i - 1]
    BY <1>1, PartLists
  <1>4. s \in [1..n -> Positive]
    <2>. HIDE DEF w
    <2>1. Dims(e, w) \in [1..Len(w) -> Positive]
      BY <1>1, DimsPositive
    <2>. QED  BY <2>1 DEF OutShape, w
  <1>5. \A i \in 1..n : s[i] = Dim(e, w[i])
    BY <1>2 DEF OutShape, Dims
  <1>6. l \in Nat /\ \A i \in 1..l : a + i - 1 \in 1..n
    BY <1>2
  <1>7. SubSeq(s, a, b) = [i \in 1..l |-> s[a + i - 1]]
    <2>. DEFINE m == a - 1
    <2>1. m \in 0..n /\ l \in 0..(n - m) /\ m + 1 = a /\ m + l = b
      BY <1>2
    <2>2. s \in [1..n -> Nat]
      BY <1>4 DEF Positive
    <2>. HIDE DEF m, l, s
    <2>3. SubSeq(s, m + 1, m + l) = [i \in 1..l |-> s[m + i]]
      BY <1>2, <2>1, <2>2, Slice
    <2>4. \A i \in 1..l : m + i = a + i - 1
      BY <1>6, <2>1
    <2>5. [i \in 1..l |-> s[m + i]] = [i \in 1..l |-> s[a + i - 1]]
      BY <2>4
    <2>. QED  BY <2>1, <2>3, <2>5
  <1>. HIDE DEF l, s, p
  <1>8. DOMAIN p = 1..l
    BY <1>3
  <1>9. \A i \in 1..l : Dim(e, p[i]) = s[a + i - 1]
    BY <1>3, <1>5, <1>6
  <1>10. Dims(e, p) = [i \in 1..l |-> s[a + i - 1]]
    BY <1>8, <1>9 DEF Dims
  <1>. QED  BY <1>7, <1>10 DEF p, s

\* The operand with less axes is one of the two, in the output's order.
LEMMA BcListed ==
    ASSUME NEW e, Sized(e), Broadcastable(e)
    PROVE  /\ Lists(BcOperand(e), ToSet(BcOperand(e))) /\ ToSet(BcOperand(e)) \in SUBSET Labels(e)
           /\ BcOperand(e) = InOrder(ToSet(BcOperand(e)), e.out)
           /\ IF FullIs0(e) THEN e.in0 = e.out /\ e.in1 = BcOperand(e)
              ELSE e.in1 = e.out /\ e.in0 = BcOperand(e)
  <1>1. /\ Lists(e.in0, ToSet(e.in0)) /\ Lists(e.in1, ToSet(e.in1))
        /\ ToSet(e.in0) \in SUBSET Labels(e) /\ ToSet(e.in1) \in SUBSET Labels(e)
    BY Halves
  <1>2. FullOperand(e) = e.out /\ BcOperand(e) = InOrder(ToSet(BcOperand(e)), e.out)
    BY DEF Broadcastable
  <1>. QED  BY <1>1, <1>2 DEF FullOperand, BcOperand

(***************************************************************************)
(* bcast_baseB and the column together are where the operand with less     *)
(* axes has its element.                                                   *)
(***************************************************************************)
LEMMA BroadcastBase ==
    ASSUME NEW e, Sized(e), Broadcastable(e), NEW c, NEW cols, NEW inner,
           SplitsAt(e, c, cols, inner), NEW f, Values(e, ToSet(e.out), f)
    PROVE  /\ bcast_baseB(c, Element(e, Lead(e.out, inner), f)) \in Nat
           /\ bcast_baseB(c, Element(e, Lead(e.out, inner), f)) + Element(e, Tail0(e.out, cols), f)
                  = Element(e, BcOperand(e), f)
  <1>. DEFINE w == e.out
              T == ToSet(w)
              S == ToSet(BcOperand(e))
              n == Len(w)
              k == inner - 1
              p == Lead(w, inner)
              m == Middle(w, inner, cols)
              q == Tail0(w, cols)
              st == KeptStrides(e, S, w)
              u == KeptBefore(S, w, k)
              dims == SubSeq(OutShape(e), 1, k)
              sub == SubSeq(st, 1, k)
  <1>1. Lists(w, T) /\ T \in SUBSET Labels(e) /\ n \in Nat
    <2>1. Lists(w, T) /\ T \in SUBSET Labels(e)
      BY Groups, Halves
    <2>. QED  BY <2>1 DEF Lists
  <1>2. Cut(w, S, inner, cols)
    BY DEF SplitsAt, Cut
  <1>3. /\ k \in 0..n /\ k \in Nat /\ inner \in Int
    BY <1>1, <1>2 DEF Cut
  <1>4. Parted(w, T, S, inner, p, m, q)
    BY <1>1, <1>2, CutParts
  <1>5. /\ c.outer_rank = Len(dims) /\ c.outer_dims = NonEmpty(dims, 1)
        /\ c.outer_bstride = NonEmpty(sub, 0)
    BY DEF SplitsAt
  <1>6. Dims(e, p) = dims
    <2>1. Dims(e, SubSeq(w, 1, k)) = dims
      BY <1>1, <1>3, PartDims
    <2>. QED  BY <2>1 DEF Lead
  <1>7. KeptReach(e, S, w, f, k)
    <2>. HIDE DEF w, T, S
    <2>1. Values(e, T, f)
      BY DEF T, w
    <2>. QED  BY <1>1, <1>3, <2>1, KeptReaches DEF n
  <1>8. KeptAfter(S, w, k) = q /\ BcOperand(e) = u \o q
    <2>1. BcOperand(e) = InOrder(S, w)
      BY BcListed
    <2>2. KeptAfter(S, w, inner - 1) = q /\ InOrder(S, w) = KeptBefore(S, w, inner - 1) \o q
      <3>. HIDE DEF w, T, S
      <3>. QED  BY <1>1, <1>2, CutKept
    <2>. QED  BY <2>1, <2>2
  <1>9. PICK A \in SUBSET Labels(e) : A \subseteq T /\ Lists(u, A)
    <2>. HIDE DEF w, T, S
    <2>. QED  BY <1>1, <1>3, KeptLists DEF n
  <1>10. st \in [1..n -> Nat]
    <2>. HIDE DEF w, T, S
    <2>. QED  BY <1>1, KeptStridesNat DEF n
  <1>11. Lists(u \o q, S) /\ S \in SUBSET Labels(e)
    BY <1>8, BcListed
  <1>12. /\ Lists(p, ToSet(p)) /\ ToSet(p) \subseteq T /\ Len(p) = k /\ p \in Seq(Positive)
         /\ \A i \in 1..Len(p) : p[i] = w[i]
         /\ Lists(q, ToSet(q)) /\ ToSet(q) \subseteq T /\ q \in Seq(Positive)
    <2>. HIDE DEF p, m, q, w, T, S
    <2>. QED  BY <1>4 DEF Parted
  <1>13. sub \in [1..k -> Nat] /\ sub = [i \in 1..k |-> st[i]]
    <2>. HIDE DEF st, k
    <2>. QED  BY <1>1, <1>3, <1>10, Beginning
  <1>. HIDE DEF w, T, S, n, k, p, m, q, st, u, dims, sub
  <1>14. Values(e, T, f) /\ Values(e, ToSet(p), f) /\ Values(e, ToSet(q), f) /\ Values(e, A, f)
    <2>1. Values(e, T, f)
      BY DEF T, w
    <2>. QED  BY <1>9, <1>12, <2>1 DEF Values
  <1>15. dims \in [1..k -> Nat] /\ Len(dims) = k /\ dims \in [1..k -> Positive]
    <2>1. Dims(e, p) \in [1..Len(p) -> Positive] /\ ToSet(p) \in SUBSET Labels(e)
      BY <1>1, <1>12, DimsPositive
    <2>2. dims \in [1..k -> Positive]
      BY <1>6, <1>12, <2>1
    <2>. QED  BY <1>3, <2>2 DEF Positive
  <1>16. bcast_baseB(c, Element(e, p, f)) = Decode(Element(e, p, f), dims, sub)
    <2>1. SubSeq(NonEmpty(dims, 1), 1, k) = dims /\ SubSeq(NonEmpty(sub, 0), 1, k) = sub
      BY <1>3, <1>13, <1>15, DummyUnread
    <2>. QED  BY <1>5, <1>15, <2>1 DEF bcast_baseB
  <1>17. Decode(Element(e, p, f), Dims(e, p), sub) = Total([i \in 1..k |-> f[p[i]] * sub[i]], k)
    <2>. DEFINE P == ToSet(p)
    <2>1. sub \in [1..Len(p) -> Nat] /\ P \in SUBSET Labels(e) /\ Lists(p, P) /\ Values(e, P, f)
      BY <1>1, <1>12, <1>13, <1>14
    <2>. HIDE DEF P
    <2>2. Decode(Element(e, p, f), Dims(e, p), sub) = Total([i \in 1..Len(p) |-> f[p[i]] * sub[i]], Len(p))
      BY <2>1, ElementDecodes
    <2>. QED  BY <1>12, <2>2
  <1>18. [i \in 1..k |-> f[p[i]] * sub[i]] = [i \in 1..k |-> f[w[i]] * st[i]]
    <2>1. \A i \in 1..k : p[i] = w[i] /\ sub[i] = st[i]
      BY <1>12, <1>13
    <2>. QED  BY <2>1
  <1>19. Total([i \in 1..k |-> f[w[i]] * st[i]], k) = Element(e, u, f) * Product(Dims(e, q))
    BY <1>7, <1>8 DEF KeptReach, u, st
  <1>20. Element(e, u \o q, f) = Element(e, u, f) * Product(Dims(e, q)) + Element(e, q, f)
    <2>1. S = A \cup ToSet(q)
      <3>1. A = ToSet(u) /\ u \in Seq(Positive)
        BY <1>9, ListedSet
      <3>2. S = ToSet(u \o q)
        BY <1>11, ListedSet
      <3>. QED  BY <1>12, <3>1, <3>2, LabelsJoined
    <2>2. Values(e, A \cup ToSet(q), f) /\ ToSet(q) \in SUBSET Labels(e)
      BY <1>1, <1>12, <1>14 DEF Values
    <2>3. Lists(u \o q, A \cup ToSet(q))
      BY <1>11, <2>1
    <2>. QED  BY <1>9, <1>12, <2>2, <2>3, ElementJoined
  <1>21. bcast_baseB(c, Element(e, p, f)) + Element(e, q, f) = Element(e, BcOperand(e), f)
    BY <1>6, <1>8, <1>16, <1>17, <1>18, <1>19, <1>20
  <1>22. bcast_baseB(c, Element(e, p, f)) \in Nat
    <2>1. Element(e, p, f) \in Nat
      <3>. DEFINE P == ToSet(p)
      <3>1. Lists(p, P) /\ P \in SUBSET Labels(e) /\ Values(e, P, f)
        BY <1>1, <1>12, <1>14
      <3>. HIDE DEF P
      <3>. QED  BY <3>1, ElementInside
    <2>. QED  BY <1>3, <1>13, <1>15, <1>16, <2>1, DecodeNat
  <1>. QED  BY <1>21, <1>22 DEF p, q, w
\* The sizes of labels cut in three, and of the configuration.
LEMMA SplitSizes ==
    ASSUME NEW e, Sized(e), NEW c, NEW cols, NEW inner, SplitsAt(e, c, cols, inner)
    PROVE  LET p == Product(Dims(e, Lead(e.out, inner)))
               m == Product(Dims(e, Middle(e.out, inner, cols)))
               q == Product(Dims(e, Tail0(e.out, cols)))
           IN  /\ p \in Positive /\ m \in Positive /\ q \in Positive
               /\ Product(OutShape(e)) = (p * m) * q
               /\ c.Outer = p /\ c.Cc = q
               /\ c.mode = 0 => c.Rr = m
               /\ c.mode # 0 => q = 1 /\ c.Inner = m
  <1>. DEFINE w == e.out
              T == ToSet(w)
              S == ToSet(BcOperand(e))
              n == Len(w)
              u == Lead(w, inner)
              v == Middle(w, inner, cols)
              x == Tail0(w, cols)
  <1>1. Lists(w, T) /\ T \in SUBSET Labels(e) /\ n \in Nat
    <2>1. Lists(w, T) /\ T \in SUBSET Labels(e)
      BY Groups, Halves
    <2>. QED  BY <2>1 DEF Lists
  <1>2. Cut(w, S, inner, cols)
    BY DEF SplitsAt, Cut
  <1>3. /\ n \in 0..n /\ 1 \in 1..(n + 1) /\ inner \in 1..(n + 1) /\ cols \in 1..(n + 1)
        /\ inner - 1 \in 0..n /\ cols - 1 \in 0..n /\ 1 <= (inner - 1) + 1
        /\ inner <= (cols - 1) + 1 /\ cols <= n + 1 /\ (cols = n + 1 => cols - 1 = n)
    BY <1>1, <1>2 DEF Cut
  <1>4. /\ Dims(e, u) = SubSeq(OutShape(e), 1, inner - 1)
        /\ Dims(e, v) = SubSeq(OutShape(e), inner, cols - 1)
        /\ Dims(e, x) = SubSeq(OutShape(e), cols, n)
    BY <1>1, <1>3, PartDims DEF Lead, Middle, Tail0
  <1>5. /\ c.Outer = Product(Dims(e, u)) /\ c.Cc = Product(Dims(e, x))
        /\ c.mode = 0 => c.Rr = Product(Dims(e, v))
        /\ c.mode # 0 => cols = n + 1 /\ c.Inner = Product(Dims(e, v))
    <2>1. /\ c.Outer = Product(SubSeq(OutShape(e), 1, inner - 1))
          /\ c.Cc = Product(SubSeq(OutShape(e), cols, n))
          /\ c.mode = 0 => c.Rr = Product(SubSeq(OutShape(e), inner, cols - 1))
          /\ c.mode # 0 => cols = n + 1
          /\ c.Inner = Product(SubSeq(OutShape(e), inner, n))
      BY DEF SplitsAt
    <2>. HIDE DEF u, v, x, n, w
    <2>. QED  BY <1>3, <1>4, <2>1
  <1>6. Parted(w, T, S, inner, u, v, x)
    BY <1>1, <1>2, CutParts
  <1>7. x = SubSeq(w, cols, n)
    BY DEF Tail0
  <1>. HIDE DEF w, T, S, u, v, x
  <1>8. /\ Lists(u, ToSet(u)) /\ Lists(v, ToSet(v)) /\ Lists(x, ToSet(x))
        /\ Lists(u \o v, ToSet(u) \cup ToSet(v)) /\ w = (u \o v) \o x
        /\ T = (ToSet(u) \cup ToSet(v)) \cup ToSet(x)
    BY <1>6 DEF Parted
  <1>9. /\ ToSet(u) \in SUBSET Labels(e) /\ ToSet(v) \in SUBSET Labels(e)
        /\ ToSet(x) \in SUBSET Labels(e) /\ ToSet(u) \cup ToSet(v) \in SUBSET Labels(e)
    BY <1>1, <1>8
  <1>10. /\ Product(Dims(e, u)) \in Positive /\ Product(Dims(e, v)) \in Positive
         /\ Product(Dims(e, x)) \in Positive
    BY <1>8, <1>9, DimsPositive
  <1>11. Product(Dims(e, u \o v)) = Product(Dims(e, u)) * Product(Dims(e, v))
    BY <1>8, <1>9, DimsJoined
  <1>12. Product(Dims(e, w)) = Product(Dims(e, u \o v)) * Product(Dims(e, x))
    <2>. DEFINE uv == u \o v
                A == ToSet(u) \cup ToSet(v)
    <2>1. Lists(uv, A) /\ A \in SUBSET Labels(e) /\ w = uv \o x
      BY <1>8, <1>9
    <2>. HIDE DEF uv, A
    <2>2. Product(Dims(e, uv \o x)) = Product(Dims(e, uv)) * Product(Dims(e, x))
      BY <1>8, <1>9, <2>1, DimsJoined
    <2>. QED  BY <2>1, <2>2 DEF uv
  <1>13. cols = n + 1 => Product(Dims(e, x)) = 1
    <2>. SUFFICES ASSUME cols = n + 1 PROVE Product(Dims(e, x)) = 1
      OBVIOUS
    <2>1. Len(x) = 0
      <3>1. w \in Seq(Positive)
        BY <1>1, ListedSet
      <3>2. x = SubSeq(w, n + 1, n) /\ n \in Nat
        BY <1>1, <1>7
      <3>. HIDE DEF n
      <3>. QED  BY <3>1, <3>2
    <2>2. Dims(e, x) \in [1..Len(x) -> Positive]
      BY <1>8, <1>9, DimsPositive
    <2>3. Dims(e, x) \in [1..0 -> Nat]
      BY <2>1, <2>2 DEF Positive
    <2>. QED  BY <2>3, ProductEmpty
  <1>14. Product(OutShape(e)) = Product(Dims(e, w))
    BY DEF OutShape, w
  <1>. QED  BY <1>5, <1>10, <1>11, <1>12, <1>13, <1>14 DEF u, v, x, w

(***************************************************************************)
(* What the two modes store at an element of the output: the product of    *)
(* the element of the full operand and that of the other.                  *)
(***************************************************************************)
LEMMA BroadcastValues ==
    ASSUME NEW e, Sized(e), Broadcastable(e), NEW c, NEW cols, NEW inner,
           SplitsAt(e, c, cols, inner), NEW f, Values(e, ToSet(e.out), f)
    PROVE  LET a == Element(e, e.out, f)
               b == Element(e, BcOperand(e), f)
           IN  /\ c.mode = 0 => ColumnVal(c)[a] = <<a, b>>
               /\ c.mode # 0 => ScalarVal(c)[a] = <<a, b>>
  <1>. DEFINE w == e.out
              T == ToSet(w)
              S == ToSet(BcOperand(e))
              m == Product(Dims(e, Middle(w, inner, cols)))
              q == Product(Dims(e, Tail0(w, cols)))
              x == Element(e, Lead(w, inner), f)
              y == Element(e, Middle(w, inner, cols), f)
              z == Element(e, Tail0(w, cols), f)
              a == Element(e, w, f)
              b == Element(e, BcOperand(e), f)
  <1>1. Lists(w, T) /\ T \in SUBSET Labels(e) /\ Cut(w, S, inner, cols)
    BY Groups, Halves DEF SplitsAt, Cut
  <1>2. /\ a = (x * m + y) * q + z /\ x \in Nat /\ y \in Nat /\ y < m /\ z \in Nat /\ z < q
        /\ m \in Positive /\ q \in Positive
    <2>. HIDE DEF w, T, S
    <2>1. Values(e, T, f)
      BY DEF T, w
    <2>. QED  BY <1>1, <2>1, CutElement
  <1>3. /\ c.Cc = q /\ (c.mode = 0 => c.Rr = m) /\ (c.mode # 0 => q = 1 /\ c.Inner = m)
    BY SplitSizes
  <1>4. bcast_baseB(c, x) + z = b /\ bcast_baseB(c, x) \in Nat
    BY BroadcastBase
  <1>. HIDE DEF w, m, q, x, y, z, a, b
  <1>5. a \in Nat
    BY <1>2 DEF Positive
  <1>6. CASE c.mode = 0
    <2>. DEFINE r == x * m + y
    <2>1. r \in Nat /\ z \in 0..(q - 1) /\ y \in 0..(m - 1) /\ a = r * q + z
      BY <1>2 DEF Positive
    <2>2. a \div q = r /\ a % q = z
      <3>. HIDE DEF r
      <3>. QED  BY <1>2, <1>5, <2>1, DivisionUnique
    <2>3. r \div m = x
      <3>1. r = x * m + y
        OBVIOUS
      <3>. HIDE DEF r
      <3>. QED  BY <1>2, <2>1, <3>1, DivisionUnique
    <2>. HIDE DEF r
    <2>4. ColumnVal(c)[a] = <<a, bcast_baseB(c, x) + z>>
      BY <1>3, <1>5, <1>6, <2>2, <2>3 DEF ColumnVal
    <2>. QED  BY <1>4, <1>6, <2>4 DEF a, b, w
  <1>7. CASE c.mode # 0
    <2>1. q = 1 /\ z = 0 /\ y \in 0..(m - 1)
      BY <1>2, <1>3, <1>7 DEF Positive
    <2>2. a = x * m + y
      <3>1. x * m + y \in Int
        BY <1>2 DEF Positive
      <3>. DEFINE r == x * m + y
      <3>2. a = r * q + z /\ r \in Int
        BY <1>2, <3>1
      <3>. HIDE DEF r
      <3>3. a = r
        BY <2>1, <3>2
      <3>. QED  BY <3>3 DEF r
    <2>3. a \div m = x
      BY <1>2, <1>5, <2>1, <2>2, DivisionUnique
    <2>4. ScalarVal(c)[a] = <<a, bcast_baseB(c, x)>>
      BY <1>3, <1>5, <1>7, <2>3 DEF ScalarVal
    <2>5. bcast_baseB(c, x) = b
      BY <1>4, <2>1
    <2>. QED  BY <1>7, <2>4, <2>5 DEF a, b, w
  <1>. QED  BY <1>6, <1>7

\* Stores whose terms name the operands the other way round.
Crossed(S) == {<<s[1], s[2], <<s[3][2], s[3][1]>>>> : s \in S}

\* The stores of S are those of the values of val in D; other has them crossed.
Leaves(S, val, D) == Image(S) = {<<a, val[a]>> : a \in D}
Crosses(other, val, D) == \A a \in D : other[a] = <<val[a][2], val[a][1]>>

\* What they leave.
LEMMA ResultsTurned ==
    ASSUME NEW S, NEW val, NEW D, Leaves(S, val, D), NEW turned, Crosses(turned, val, D)
    PROVE  Results(Crossed(S)) = {<<a, {turned[a]}>> : a \in D}
  <1>. DEFINE R == {<<s[1], s[2], <<s[3][2], s[3][1]>>>> : s \in S}
              L == {<<a, {turned[a]}>> : a \in D}
  <1>1. \A s \in S : \E a \in D : <<s[2], s[3]>> = <<a, val[a]>>
    BY DEF Image, Leaves
  <1>2. \A a \in D : \E s \in S : <<s[2], s[3]>> = <<a, val[a]>>
    BY DEF Image, Leaves
  <1>3. ASSUME NEW r \in R PROVE <<r[2], {r[3]}>> \in L
    <2>1. PICK s \in S : r = <<s[1], s[2], <<s[3][2], s[3][1]>>>>
      OBVIOUS
    <2>2. PICK a \in D : s[2] = a /\ s[3] = val[a]
      BY <1>1
    <2>3. r[2] = a /\ r[3] = turned[a]
      BY <2>1, <2>2 DEF Crosses
    <2>. QED  BY <2>3
  <1>4. ASSUME NEW a \in D PROVE \E r \in R : <<r[2], {r[3]}>> = <<a, {turned[a]}>>
    <2>1. PICK s \in S : s[2] = a /\ s[3] = val[a]
      BY <1>2
    <2>. DEFINE r == <<s[1], s[2], <<s[3][2], s[3][1]>>>>
    <2>2. r \in R
      OBVIOUS
    <2>3. r[2] = a /\ r[3] = turned[a]
      BY <2>1 DEF Crosses
    <2>. QED  BY <2>2, <2>3
  <1>. HIDE DEF R
  <1>5. Results(R) = L
    <2>1. Results(R) = {<<r[2], {r[3]}>> : r \in R}
      BY DEF Results
    <2>2. \A a \in D : <<a, {turned[a]}>> \in Results(R)
      BY <1>4, <2>1
    <2>3. L \subseteq Results(R)
      BY <2>2
    <2>. HIDE DEF L
    <2>4. Results(R) \subseteq L
      BY <1>3, <2>1
    <2>. QED  BY <2>3, <2>4
  <1>. QED  BY <1>5 DEF R, Crossed

\* What the broadcast kernel stores is the values of its mode.
LEMMA BroadcastImage ==
    ASSUME NEW e, Sized(e), NEW c, NEW cols, NEW inner, SplitsAt(e, c, cols, inner)
    PROVE  LET val == IF c.mode = 0 THEN ColumnVal(c) ELSE ScalarVal(c)
           IN  Image(broadcast_mul(c)) = {<<a, val[a]>> : a \in 0..(Product(OutShape(e)) - 1)}
  <1>. DEFINE p == Product(Dims(e, Lead(e.out, inner)))
              m == Product(Dims(e, Middle(e.out, inner, cols)))
              q == Product(Dims(e, Tail0(e.out, cols)))
              n == Product(OutShape(e))
              C == ColumnVal(c)
              V == ScalarVal(c)
  <1>1. /\ p \in Positive /\ m \in Positive /\ q \in Positive
        /\ n = (p * m) * q /\ c.Outer = p /\ c.Cc = q
        /\ c.mode = 0 => c.Rr = m
        /\ c.mode # 0 => q = 1 /\ c.Inner = m
    BY SplitSizes
  <1>. HIDE DEF p, m, q, n
  <1>2. CASE c.mode = 0
    <2>1. c.Cc \in Positive /\ c.Rr \in Positive /\ c.Outer \in Nat /\ c.Outer * c.Rr * c.Cc = n
      BY <1>1, <1>2 DEF Positive
    <2>2. Image(bcast_col(c)) = {<<a, ColumnVal(c)[a]>> : a \in 0..(c.Outer * c.Rr * c.Cc - 1)}
      BY <2>1, BroadcastColumnsRight
    <2>3. Image(bcast_col(c)) = {<<a, C[a]>> : a \in 0..(n - 1)}
      BY <2>1, <2>2
    <2>. HIDE DEF C
    <2>. QED  BY <1>2, <2>3 DEF broadcast_mul, C, n
  <1>3. CASE c.mode # 0
    <2>1. c.Inner \in Positive /\ c.Outer \in Nat /\ c.Outer * c.Inner = n
      <3>1. (p * m) * 1 = p * m
        BY <1>1 DEF Positive
      <3>. QED  BY <1>1, <1>3, <3>1 DEF Positive
    <2>2. Image(bcast_scalar(c)) = {<<a, ScalarVal(c)[a]>> : a \in 0..(c.Outer * c.Inner - 1)}
      BY <2>1, BroadcastScalarsRight
    <2>3. Image(bcast_scalar(c)) = {<<a, V[a]>> : a \in 0..(n - 1)}
      BY <2>1, <2>2
    <2>. HIDE DEF V
    <2>. QED  BY <1>3, <2>3 DEF broadcast_mul, V, n
  <1>. QED  BY <1>2, <1>3

(***************************************************************************)
(* A broadcast product is the einsum: in either mode, with either operand  *)
(* the full one, whatever axes the other lacks.                            *)
(***************************************************************************)
LEMMA BroadcastComputes ==
    ASSUME NEW e, Sized(e), Contracted(e) = {}, Broadcastable(e),
           NEW c, c = BroadcastConfig(BroadcastRecipe(e))
    PROVE  BroadcastResult(c) = Einsum(e)
  <1>1. PICK cols, inner : SplitsAt(e, c, cols, inner)
    BY BroadcastSplits
  <1>. DEFINE n == Product(OutShape(e))
              D == 0..(n - 1)
              S == broadcast_mul(c)
              val == IF c.mode = 0 THEN ColumnVal(c) ELSE ScalarVal(c)
              w == e.out
              b == BcOperand(e)
              turned == [d \in D |-> <<val[d][2], val[d][1]>>]
              R == Crossed(S)
  <1>2. Image(S) = {<<a, val[a]>> : a \in D}
    BY <1>1, BroadcastImage
  <1>3. ASSUME NEW f \in Valuations(e, ToSet(w))
        PROVE  val[Element(e, w, f)] = <<Element(e, w, f), Element(e, b, f)>>
    <2>1. Lists(w, ToSet(w)) /\ ToSet(w) \in SUBSET Labels(e)
      BY Groups, Halves
    <2>2. Values(e, ToSet(w), f)
      BY <2>1, ValuationsAre
    <2>3. /\ c.mode = 0 => ColumnVal(c)[Element(e, w, f)] = <<Element(e, w, f), Element(e, b, f)>>
          /\ c.mode # 0 => ScalarVal(c)[Element(e, w, f)] = <<Element(e, w, f), Element(e, b, f)>>
      BY <1>1, <2>2, BroadcastValues
    <2>. QED  BY <2>3
  <1>4. ASSUME NEW f \in Valuations(e, ToSet(w)) PROVE Element(e, w, f) \in D
    <2>1. Lists(w, ToSet(w)) /\ ToSet(w) \in SUBSET Labels(e)
      BY Groups, Halves
    <2>2. Values(e, ToSet(w), f)
      BY <2>1, ValuationsAre
    <2>3. Element(e, w, f) \in Nat /\ Element(e, w, f) < Product(Dims(e, w))
      <3>. DEFINE T == ToSet(w)
      <3>1. Lists(w, T) /\ T \in SUBSET Labels(e) /\ Values(e, T, f)
        BY <2>1, <2>2
      <3>. HIDE DEF w, T
      <3>. QED  BY <3>1, ElementInside
    <2>4. n = Product(Dims(e, w)) /\ n \in Nat
      BY SizesPositive DEF OutShape, Positive
    <2>. HIDE DEF n
    <2>. QED  BY <2>3, <2>4
  <1>5. c.full_is_in0 = FullIs0(e)
    BY <1>1 DEF SplitsAt
  <1>6. IF FullIs0(e) THEN e.in0 = w /\ e.in1 = b ELSE e.in1 = w /\ e.in0 = b
    BY BcListed
  <1>. HIDE DEF val, D, S, w, b
  <1>7. CASE FullIs0(e)
    <2>1. BroadcastResult(c) = Results(S)
      BY <1>5, <1>7 DEF BroadcastResult, S
    <2>2. Results(S) = {<<a, {val[a]}>> : a \in D}
      BY <1>2, ResultsOfImage, SMTT(30)
    <2>3. \A f \in Valuations(e, ToSet(e.out)) :
             val[Element(e, e.out, f)] = <<Element(e, e.in0, f), Element(e, e.in1, f)>>
      BY <1>3, <1>6, <1>7 DEF w
    <2>4. {<<a, {val[a]}>> : a \in 0..(Product(OutShape(e)) - 1)} = Einsum(e)
      BY <2>3, PointwiseRight
    <2>. QED  BY <2>1, <2>2, <2>4 DEF D, n
  <1>8. CASE ~FullIs0(e)
    <2>1. BroadcastResult(c) = Results(R)
      BY <1>5, <1>8 DEF BroadcastResult, S, Crossed
    <2>3. \A f \in Valuations(e, ToSet(e.out)) :
             turned[Element(e, e.out, f)] = <<Element(e, e.in0, f), Element(e, e.in1, f)>>
      <3>. SUFFICES ASSUME NEW f \in Valuations(e, ToSet(w))
                    PROVE  turned[Element(e, w, f)] = <<Element(e, e.in0, f), Element(e, e.in1, f)>>
        BY DEF w
      <3>1. val[Element(e, w, f)] = <<Element(e, w, f), Element(e, b, f)>> /\ Element(e, w, f) \in D
        BY <1>3, <1>4
      <3>2. turned[Element(e, w, f)] = <<Element(e, b, f), Element(e, w, f)>>
        BY <3>1
      <3>. QED  BY <1>6, <1>8, <3>2
    <2>. HIDE DEF turned, R
    <2>4. Results(R) = {<<a, {turned[a]}>> : a \in D}
      <3>1. Crosses(turned, val, D) /\ Leaves(S, val, D)
        BY <1>2 DEF turned, Crosses, Leaves
      <3>. QED  BY <3>1, ResultsTurned DEF R
    <2>5. {<<a, {turned[a]}>> : a \in 0..(Product(OutShape(e)) - 1)} = Einsum(e)
      BY <2>3, PointwiseRight
    <2>. QED  BY <2>1, <2>4, <2>5 DEF D, n
  <1>. QED  BY <1>7, <1>8
-----------------------------------------------------------------------------
(* The order of the operands *)

\* Both orders of the operands name the same axes, with the same sizes.
LEMMA SwapSame ==
    ASSUME NEW e, Sized(e), NEW x, x = Swap(e)
    PROVE  /\ x.in0 = e.in1 /\ x.in1 = e.in0 /\ x.out = e.out
           /\ Contracted(x) = Contracted(e)
           /\ \A T \in SUBSET Labels(e) : Valuations(x, T) = Valuations(e, T)
           /\ \A w, f : ToSet(w) \subseteq Labels(e) => Element(x, w, f) = Element(e, w, f)
  <1>1. /\ x.in0 = e.in1 /\ x.in1 = e.in0 /\ x.out = e.out
        /\ x.shape0 = e.shape1 /\ x.shape1 = e.shape0
    BY DEF Swap, Sized
  <1>2. ASSUME NEW a \in Labels(e) PROVE Dim(x, a) = Dim(e, a)
    <2>1. CASE a \in ToSet(e.in0) /\ a \in ToSet(e.in1)
      <3>1. e.shape0[IndexOf(e.in0, a)] = e.shape1[IndexOf(e.in1, a)]
        BY <2>1 DEF Sized, Valid, Common
      <3>. QED  BY <1>1, <2>1, <3>1 DEF Dim
    <2>2. CASE a \in ToSet(e.in0) /\ a \notin ToSet(e.in1)
      BY <1>1, <2>2 DEF Dim
    <2>3. CASE a \notin ToSet(e.in0) /\ a \in ToSet(e.in1)
      BY <1>1, <2>3 DEF Dim
    <2>. QED  BY <2>1, <2>2, <2>3 DEF Labels
  <1>3. Contracted(x) = Contracted(e)
    BY <1>1 DEF Contracted, Common
  <1>4. MaxDim(x) = MaxDim(e)
    <2>1. ToSet(e.shape1) \cup ToSet(e.shape0) \cup {1} = ToSet(e.shape0) \cup ToSet(e.shape1) \cup {1}
      OBVIOUS
    <2>. QED  BY <1>1, <2>1 DEF MaxDim
  <1>5. ASSUME NEW T \in SUBSET Labels(e) PROVE Valuations(x, T) = Valuations(e, T)
    <2>. DEFINE F == [T -> 0..(MaxDim(e) - 1)]
    <2>1. Valuations(x, T) = {f \in F : \A a \in T : f[a] < Dim(x, a)}
      BY <1>4 DEF Valuations
    <2>2. Valuations(e, T) = {f \in F : \A a \in T : f[a] < Dim(e, a)}
      BY DEF Valuations
    <2>3. \A a \in T : Dim(x, a) = Dim(e, a)
      BY <1>2
    <2>. HIDE DEF F
    <2>. QED  BY <2>1, <2>2, <2>3
  <1>6. ASSUME NEW w, NEW f, ToSet(w) \subseteq Labels(e) PROVE Element(x, w, f) = Element(e, w, f)
    <2>1. \A i \in DOMAIN w : Dim(x, w[i]) = Dim(e, w[i])
      BY <1>2, <1>6 DEF ToSet
    <2>2. Dims(x, w) = Dims(e, w)
      BY <2>1 DEF Dims
    <2>. QED  BY <2>2 DEF Element
  <1>. QED  BY <1>1, <1>3, <1>5, <1>6

\* The term of a valuation, and the terms summed at a place of the result.
Term(e, h) == <<Element(e, e.in0, h), Element(e, e.in1, h)>>
Sum0(e, f) == {Term(e, Merged(f, g)) : g \in Valuations(e, Contracted(e))}

\* Einsum in these words.
LEMMA EinsumSums ==
    ASSUME NEW e
    PROVE  Einsum(e) = {<<Element(e, e.out, f), Sum0(e, f)>> : f \in Valuations(e, ToSet(e.out))}
  BY DEF Einsum, Sum0, Term

(***************************************************************************)
(* A result computed with the operands the other way round is handed to    *)
(* the caller as the result of the equation.                               *)
(***************************************************************************)
LEMMA SwapRight ==
    ASSUME NEW e, Sized(e)
    PROVE  ForCaller(TRUE, Einsum(Swap(e))) = Einsum(e)
  <1>. DEFINE x == Swap(e)
              cross(P) == {<<t[2], t[1]>> : t \in P}
              Fs == Valuations(e, ToSet(e.out))
              Gs == Valuations(e, Contracted(e))
  <1>1. /\ x.in0 = e.in1 /\ x.in1 = e.in0 /\ x.out = e.out
        /\ Contracted(x) = Contracted(e)
        /\ \A T \in SUBSET Labels(e) : Valuations(x, T) = Valuations(e, T)
        /\ \A w, f : ToSet(w) \subseteq Labels(e) => Element(x, w, f) = Element(e, w, f)
    BY SwapSame
  <1>. HIDE DEF x
  <1>2. /\ ToSet(e.in0) \subseteq Labels(e) /\ ToSet(e.in1) \subseteq Labels(e)
        /\ ToSet(e.out) \subseteq Labels(e) /\ Contracted(e) \subseteq Labels(e)
    BY Halves
  <1>3. Valuations(x, ToSet(x.out)) = Fs /\ Valuations(x, Contracted(x)) = Gs
    BY <1>1, <1>2
  <1>4. \A f : Element(x, x.out, f) = Element(e, e.out, f)
    BY <1>1, <1>2
  <1>5. \A h : Term(x, h) = <<Term(e, h)[2], Term(e, h)[1]>>
    BY <1>1, <1>2 DEF Term
  <1>6. \A h : Term(e, h) = <<Term(x, h)[2], Term(x, h)[1]>>
    BY <1>5 DEF Term
  <1>7. ASSUME NEW f PROVE cross(Sum0(x, f)) = Sum0(e, f)
    <2>1. Sum0(x, f) = {Term(x, Merged(f, g)) : g \in Gs}
      BY <1>3 DEF Sum0
    <2>2. cross(Sum0(x, f)) = {<<Term(x, Merged(f, g))[2], Term(x, Merged(f, g))[1]>> : g \in Gs}
      BY <2>1
    <2>3. \A g \in Gs : Term(e, Merged(f, g)) = <<Term(x, Merged(f, g))[2], Term(x, Merged(f, g))[1]>>
      BY <1>6
    <2>4. Sum0(e, f) = {Term(e, Merged(f, g)) : g \in Gs}
      BY DEF Sum0
    <2>. HIDE DEF Gs
    <2>. QED  BY <2>2, <2>3, <2>4
  <1>8. Einsum(x) = {<<Element(e, e.out, f), Sum0(x, f)>> : f \in Fs}
    <2>1. Einsum(x) = {<<Element(x, x.out, f), Sum0(x, f)>> : f \in Fs}
      BY <1>3, EinsumSums
    <2>. HIDE DEF Fs
    <2>. QED  BY <1>4, <2>1
  <1>9. ForCaller(TRUE, Einsum(x)) = {<<s[1], cross(s[2])>> : s \in Einsum(x)}
    BY DEF ForCaller
  <1>. HIDE DEF cross, Fs
  <1>10. {<<s[1], cross(s[2])>> : s \in Einsum(x)} = {<<Element(e, e.out, f), cross(Sum0(x, f))>> : f \in Fs}
    <2>. DEFINE E == Einsum(x)
    <2>1. ASSUME NEW s \in E
          PROVE  \E f \in Fs : s[1] = Element(e, e.out, f) /\ s[2] = Sum0(x, f)
      <3>1. PICK f \in Fs : s = <<Element(e, e.out, f), Sum0(x, f)>>
        BY <1>8
      <3>. QED  BY <3>1
    <2>2. ASSUME NEW f \in Fs
          PROVE  \E s \in E : s[1] = Element(e, e.out, f) /\ s[2] = Sum0(x, f)
      <3>1. <<Element(e, e.out, f), Sum0(x, f)>> \in E
        BY <1>8
      <3>. QED  BY <3>1
    <2>. HIDE DEF E
    <2>3. ASSUME NEW u \in {<<s[1], cross(s[2])>> : s \in E}
          PROVE  u \in {<<Element(e, e.out, f), cross(Sum0(x, f))>> : f \in Fs}
      <3>1. PICK s \in E : u = <<s[1], cross(s[2])>>
        OBVIOUS
      <3>2. PICK f \in Fs : s[1] = Element(e, e.out, f) /\ s[2] = Sum0(x, f)
        BY <2>1
      <3>3. u = <<Element(e, e.out, f), cross(Sum0(x, f))>>
        BY <3>1, <3>2
      <3>. QED  BY <3>3
    <2>4. ASSUME NEW u \in {<<Element(e, e.out, f), cross(Sum0(x, f))>> : f \in Fs}
          PROVE  u \in {<<s[1], cross(s[2])>> : s \in E}
      <3>1. PICK f \in Fs : u = <<Element(e, e.out, f), cross(Sum0(x, f))>>
        OBVIOUS
      <3>2. PICK s \in E : s[1] = Element(e, e.out, f) /\ s[2] = Sum0(x, f)
        BY <2>2
      <3>3. u = <<s[1], cross(s[2])>>
        BY <3>1, <3>2
      <3>. QED  BY <3>3
    <2>5. {<<s[1], cross(s[2])>> : s \in E} = {<<Element(e, e.out, f), cross(Sum0(x, f))>> : f \in Fs}
      BY <2>3, <2>4
    <2>. QED  BY <2>5 DEF E
  <1>11. {<<Element(e, e.out, f), cross(Sum0(x, f))>> : f \in Fs} = {<<Element(e, e.out, f), Sum0(e, f)>> : f \in Fs}
    BY <1>7
  <1>. QED  BY <1>9, <1>10, <1>11, EinsumSums DEF x, Fs
-----------------------------------------------------------------------------
(* What run() returns *)

(***************************************************************************)
(* The kernel of every build computes the equation it was generated for,   *)
(* but for the tiles of PartialPipelined.                                  *)
(***************************************************************************)
LEMMA RunComputes ==
    ASSUME IInv, SplitKInStep, pc \in {"built", "done"}, ~(OnNpu /\ PartialPipelined(config))
    PROVE  RunEinsum(library, config, splitk) = Einsum(Run0)
  <1>1. Parsed /\ Written /\ Checks /\ problem \in Problems
    BY DEF IInv, Later
  <1>2. Sized(Run0)
    BY <1>1, ExecSized
  <1>3. /\ recipe.elementwise \in BOOLEAN /\ recipe.broadcast \in BOOLEAN
        /\ recipe.n_elem = Product(OutShape(Run0))
    BY <1>1, RecipeFields DEF Parsed
  <1>4. CASE recipe.elementwise
    <2>1. library.kind = "elementwise" /\ config = [N |-> recipe.n_elem]
      BY <1>1, <1>4 DEF Written, Template
    <2>2. Elementwise(Run0)
      <3>1. CASE TryBroadcast(Run0, problem.device)
        BY <1>1, <1>4, <3>1, BroadcastFields DEF Parsed, ParseRecipe
      <3>2. CASE ~TryBroadcast(Run0, problem.device)
        BY <1>1, <1>4, <3>2, MatmulFields DEF Parsed, ParseRecipe
      <3>. QED  BY <3>1, <3>2
    <2>3. /\ ElementwiseCpu(config.N) = Einsum(Run0)
          /\ Results(elementwise_mul(config.N)) = Einsum(Run0)
      BY <1>2, <1>3, <2>1, <2>2, ElementwiseComputes
    <2>. QED  BY <2>1, <2>3 DEF RunEinsum
  <1>5. CASE ~recipe.elementwise /\ recipe.broadcast
    <2>1. library.kind = "broadcast" /\ config = BroadcastConfig(recipe)
      BY <1>1, <1>5 DEF Written, Template
    <2>2. recipe = BroadcastRecipe(Run0) /\ TryBroadcast(Run0, problem.device)
      BY <1>1, <1>5, RecipeFields, MatmulFields, ElementwiseFields DEF Parsed, ParseRecipe
    <2>3. Contracted(Run0) = {} /\ Broadcastable(Run0)
      BY <2>2 DEF TryBroadcast
    <2>4. BroadcastResult(config) = Einsum(Run0)
      BY <1>2, <2>1, <2>2, <2>3, BroadcastComputes
    <2>. QED  BY <2>1, <2>4 DEF RunEinsum
  <1>6. CASE ~recipe.elementwise /\ ~recipe.broadcast
    <2>1. library.kind = "einsum" /\ MatmulLibrary
      BY <1>1, <1>6 DEF Written, Template, MatmulLibrary
    <2>2. config = EinsumConfig(Run0, MatmulRecipe(Run0, problem), problem) /\ Generated(config)
      BY <2>1, MatmulWritten, MatmulGenerated
    <2>3. CASE library.backend = "cpu"
      <3>1. EinsumCpu(config) = Einsum(Run0)
        BY <1>2, <2>2, MatmulPrepared, CpuRight
      <3>. QED  BY <2>1, <2>3, <3>1 DEF RunEinsum
    <2>4. CASE library.backend # "cpu"
      <3>. DEFINE g == Geom(config)
                  split == KernelSplits(config, OutIdentity(config), NtIn(config, g))
      <3>1. library.backend = "npu" /\ OnNpu
        BY <1>1, <2>1, <2>4, RecipeAssumption DEF Checks, OnNpu
      <3>2. StaticAsserts(config, split)
        BY <1>1, <2>1, <3>1 DEF Checks
      <3>3. Handed(Run0, problem, config, g, split)
        BY <1>2, <2>2, <3>2 DEF Handed
      <3>4. Atomic(config, g) => splitk
        BY <3>1 DEF Atomic, SplitKInStep
      <3>5. ~PartialPipelined(config)
        BY <3>1
      <3>6. EinsumNpu(config, splitk) = Einsum(Run0)
        BY <3>3, <3>4, <3>5, NpuRight
      <3>. QED  BY <2>1, <2>4, <3>6 DEF RunEinsum
    <2>. QED  BY <2>3, <2>4
  <1>. QED  BY <1>3, <1>4, <1>5, <1>6

\* What run() returned is what the kernel left, operands back in the caller's order.
Answered == pc = "done" => output = ForCaller(swapped, RunEinsum(library, config, splitk))

(***************************************************************************)
(* Whatever the equation, the shapes, the tile size, the device and the    *)
(* path the recipe takes, the result of an accepted equation is the one    *)
(* einsum defines: every element of it is stored, and is the sum of just   *)
(* the products the equation names.  PartialPipelined is a finding; for    *)
(* operands that are not Regular, ws0 and ws1 do not hold what is assumed  *)
(* of them here (TransposesRight).                                         *)
(***************************************************************************)
THEOREM RunAlwaysRight == Spec => []RunRight
  <1>1. Init => Answered
    BY DEF Init, Answered
  <1>2. IInv /\ Answered /\ [Next]_vars => Answered'
    <2>. SUFFICES ASSUME IInv, Answered, [Next]_vars PROVE Answered'
      OBVIOUS
    <2>1. CASE Run
      BY <2>1 DEF Run, Answered
    <2>2. CASE UNCHANGED vars
      BY <2>2 DEF vars, Answered
    <2>3. CASE ~Run /\ ~UNCHANGED vars
      <3>1. pc' # "done"
        BY <2>3 DEF Next, ValidateFails, ParseEquation, GenerateCode, GenerateFails, Compile,
                    LoadLibrary
      <3>. QED  BY <3>1 DEF Answered
    <2>. QED  BY <2>1, <2>2, <2>3
  <1>3. IInv /\ SplitKInStep /\ Answered => RunRight
    <2>. SUFFICES ASSUME IInv, SplitKInStep, Answered, pc = "done",
                         ~(OnNpu /\ PartialPipelined(config))
                  PROVE  output = Einsum(Equation(problem))
      BY DEF RunRight
    <2>. DEFINE e == Equation(problem)
    <2>1. output = ForCaller(swapped, Einsum(Run0)) /\ swapped \in BOOLEAN
      BY RunComputes DEF Answered, IInv
    <2>2. CASE ~swapped
      BY <2>1, <2>2 DEF Run0, Exec, ForCaller
    <2>3. CASE swapped
      <3>1. Run0 = Swap(e)
        BY <2>3 DEF Run0, Exec
      <3>2. Sized(e)
        <4>1. problem \in Problems /\ Valid(e) /\ Solo(e) = {}
          BY DEF IInv, Later, Parsed, Accepted
        <4>2. {e.in0, e.in1, e.out, e.shape0, e.shape1} \subseteq Seq(Positive)
          BY <4>1, RecipeAssumption DEF Equation, Positive
        <4>. QED  BY <4>1, <4>2 DEF Sized
      <3>. HIDE DEF e
      <3>3. ForCaller(TRUE, Einsum(Swap(e))) = Einsum(e)
        BY <3>2, SwapRight, Zenon
      <3>4. swapped = TRUE
        BY <2>1, <2>3
      <3>5. output = ForCaller(TRUE, Einsum(Swap(e)))
        BY <2>1, <3>1, <3>4, Zenon
      <3>6. output = Einsum(e)
        BY <3>3, <3>5, Zenon
      <3>. QED  BY <3>6 DEF e
    <2>. QED  BY <2>1, <2>2, <2>3
  <1>. QED  BY <1>1, <1>2, <1>3, Invariance, SplitKAlwaysInStep, PTL DEF Spec
=============================================================================
