------------------------------ MODULE Induction ------------------------------
(***************************************************************************)
(* Induction over the natural numbers, as a fact about sets, and what      *)
(* FoldLeft computes, for any operator, any start and any sequence.  The   *)
(* theorems of NaturalsInduction take the formula as an operator, which    *)
(* the provers that are used here cannot instantiate; a set of numbers     *)
(* they can.  A module that folds instantiates this one with its operator. *)
(***************************************************************************)
EXTENDS Integers, Sequences, Folds, WellFoundedInduction, TLAPS

CONSTANT Op(_, _)      \* what is folded along a sequence

\* A set of natural numbers that has an element has a least one.
LEMMA LeastNumber ==
  ASSUME NEW T \in SUBSET Nat, T # {}
  PROVE  \E m \in T : \A k \in T : m <= k
<1>1. IsWellFoundedOn({ss \in Nat \X Nat : ss[1] < ss[2]}, Nat)
  BY NatLessThanWellFounded DEF OpToRel
<1>2. PICK m \in T : \A k \in T : ~(<<k, m>> \in {ss \in Nat \X Nat : ss[1] < ss[2]})
  BY <1>1, WFMin
<1>3. ASSUME NEW k \in T PROVE m <= k
  <2>1. <<k, m>> \in Nat \X Nat /\ ~(<<k, m>>[1] < <<k, m>>[2])
    BY <1>2
  <2> QED
    BY <2>1
<1> QED
  BY <1>3

\* A set with 0 that has the successor of each of its elements is Nat.
THEOREM SetInduction ==
  ASSUME NEW T \in SUBSET Nat, 0 \in T, \A n \in T : n + 1 \in T
  PROVE  T = Nat
<1> SUFFICES ASSUME Nat \ T # {} PROVE FALSE
  OBVIOUS
<1>1. PICK m \in Nat \ T : \A k \in Nat \ T : m <= k
  BY LeastNumber
<1>2. m - 1 \in Nat /\ ~(m <= m - 1)
  BY <1>1
<1>3. m - 1 \in T
  BY <1>1, <1>2
<1>4. (m - 1) + 1 \in T
  BY <1>3
<1> QED
  BY <1>1, <1>4

-----------------------------------------------------------------------------
(* Folds *)

\* FoldLeft of the community modules, which this module does without: a module
\* that instantiates this one several times would have them as many times.
Greatest(S) == CHOOSE x \in S : \A y \in S : x >= y
Fold(b, s) ==
  MapThenFoldSet(LAMBDA x, y : Op(y, x), b, LAMBDA i : s[i], LAMBDA S : Greatest(S), DOMAIN s)

\* The recursive function that the definition of FoldLeft chooses, for a
\* sequence with the elements f[1], ... over the indices up to n.
Iterates(b, g, f, n) ==
  g = [x \in SUBSET (1 .. n) |->
         IF x = {} THEN b ELSE Op(g[x \ {Greatest(x)}], f[Greatest(x)])]

\* The fold is what such a function gives for all indices.
LEMMA FoldIterates ==
  ASSUME NEW b, NEW S, NEW s \in Seq(S)
  PROVE  Fold(b, s) = (CHOOSE g : Iterates(b, g, s, Len(s)))[1 .. Len(s)]
<1>1. DOMAIN s = 1 .. Len(s)
  OBVIOUS
<1>2. Fold(b, s) = (CHOOSE g : g = [x \in SUBSET (DOMAIN s) |->
         IF x = {} THEN b ELSE Op(g[x \ {Greatest(x)}], s[Greatest(x)])])[DOMAIN s]
  BY Zenon DEF Fold, MapThenFoldSet
<1> QED
  BY <1>1, <1>2, Zenon DEF Iterates

\* The last index of a set that has it is its maximum.
LEMMA LastIsMax ==
  ASSUME NEW n \in Nat, NEW x \in SUBSET (1 .. n), n \in x
  PROVE  Greatest(x) = n
<1>1. n \in x /\ \A y \in x : n >= y
  OBVIOUS
<1>2. \A m \in x : (\A y \in x : m >= y) => m = n
  OBVIOUS
<1> QED
  BY <1>1, <1>2 DEF Greatest

\* There is such a function: it can always be extended by one index.
LEMMA IteratesExists ==
  ASSUME NEW b, NEW f, NEW n \in Nat
  PROVE  \E g : Iterates(b, g, f, n)
<1> DEFINE T == {k \in Nat : \E g : Iterates(b, g, f, k)}
<1>1. 0 \in T
  <2>1. Iterates(b, [x \in SUBSET (1 .. 0) |-> b], f, 0)
    BY DEF Iterates
  <2> QED
    BY <2>1
<1>2. ASSUME NEW k \in T PROVE k + 1 \in T
  <2>1. PICK g : Iterates(b, g, f, k)
    OBVIOUS
  <2> DEFINE h == [x \in SUBSET (1 .. k + 1) |->
                     IF k + 1 \in x THEN Op(g[x \ {k + 1}], f[k + 1]) ELSE g[x]]
  <2>2. ASSUME NEW x \in SUBSET (1 .. k + 1)
        PROVE  h[x] = IF x = {} THEN b ELSE Op(h[x \ {Greatest(x)}], f[Greatest(x)])
    <3>1. CASE k + 1 \in x
      <4>1. Greatest(x) = k + 1
        BY <3>1, LastIsMax
      <4>2. x \ {k + 1} \in SUBSET (1 .. k + 1) /\ k + 1 \notin x \ {k + 1}
        OBVIOUS
      <4>3. h[x \ {k + 1}] = g[x \ {k + 1}]
        BY <4>2
      <4> QED
        BY <3>1, <4>1, <4>3
    <3>2. CASE k + 1 \notin x
      <4>1. x \in SUBSET (1 .. k)
        BY <3>2
      <4>2. h[x] = g[x]
        BY <3>2
      <4>3. g[x] = IF x = {} THEN b ELSE Op(g[x \ {Greatest(x)}], f[Greatest(x)])
        BY <2>1, <4>1 DEF Iterates
      <4>4. x \ {Greatest(x)} \in SUBSET (1 .. k + 1) /\ k + 1 \notin x \ {Greatest(x)}
        BY <3>2
      <4>5. h[x \ {Greatest(x)}] = g[x \ {Greatest(x)}]
        BY <4>4
      <4> QED
        BY <4>2, <4>3, <4>5
    <3> QED
      BY <3>1, <3>2
  <2>3. Iterates(b, h, f, k + 1)
    BY <2>2 DEF Iterates
  <2> QED
    BY <2>3
<1>3. T = Nat
  BY <1>1, <1>2, SetInduction
<1> QED
  BY <1>3

\* On the first k indices it is the fold of the first k elements.
LEMMA IteratesPrefix ==
  ASSUME NEW b, NEW f, NEW n \in Nat, NEW g, Iterates(b, g, f, n), NEW k \in 1 .. n
  PROVE  g[1 .. k] = Op(g[1 .. k - 1], f[k])
<1>1. 1 .. k \in SUBSET (1 .. n) /\ k \in 1 .. k
  OBVIOUS
<1>2. Greatest(1 .. k) = k
  BY LastIsMax
<1>3. (1 .. k) \ {k} = 1 .. k - 1
  OBVIOUS
<1>4. g[1 .. k] = Op(g[(1 .. k) \ {Greatest(1 .. k)}], f[Greatest(1 .. k)])
  BY <1>1 DEF Iterates
<1> QED
  BY <1>2, <1>3, <1>4

\* Where there are no indices, it gives the base.
LEMMA IteratesEmpty ==
  ASSUME NEW b, NEW f, NEW n \in Nat, NEW g, Iterates(b, g, f, n)
  PROVE  g[1 .. 0] = b
<1>1. 1 .. 0 \in SUBSET (1 .. n) /\ 1 .. 0 = {}
  OBVIOUS
<1> QED
  BY <1>1 DEF Iterates

\* Two sequences with the same first k elements have the same fold of these.
LEMMA IteratesAgree ==
  ASSUME NEW b, NEW f, NEW n \in Nat, NEW g, Iterates(b, g, f, n),
         NEW e, NEW m \in Nat, NEW h, Iterates(b, h, e, m),
         n <= m, \A i \in 1 .. n : f[i] = e[i]
  PROVE  g[1 .. n] = h[1 .. n]
<1> DEFINE T == {k \in Nat : k <= n => g[1 .. k] = h[1 .. k]}
<1>1. 0 \in T
  BY IteratesEmpty
<1>2. ASSUME NEW k \in T PROVE k + 1 \in T
  <2> SUFFICES ASSUME k + 1 <= n PROVE g[1 .. k + 1] = h[1 .. k + 1]
    OBVIOUS
  <2>1. k + 1 \in 1 .. n /\ k + 1 \in 1 .. m /\ (k + 1) - 1 = k
    OBVIOUS
  <2>2. g[1 .. k + 1] = Op(g[1 .. k], f[k + 1])
    <3>1. Iterates(b, g, f, n)
      OBVIOUS
    <3>2. \A i \in 1 .. n : g[1 .. i] = Op(g[1 .. i - 1], f[i])
      BY <3>1, IteratesPrefix
    <3> QED
      BY <2>1, <3>2
  <2>3. h[1 .. k + 1] = Op(h[1 .. k], e[k + 1])
    <3>1. Iterates(b, h, e, m)
      OBVIOUS
    <3>2. \A i \in 1 .. m : h[1 .. i] = Op(h[1 .. i - 1], e[i])
      BY <3>1, IteratesPrefix
    <3> QED
      BY <2>1, <3>2
  <2> QED
    BY <2>1, <2>2, <2>3
<1>3. T = Nat
  BY <1>1, <1>2, SetInduction
<1> QED
  BY <1>3

\* Nothing is folded into the base.
THEOREM FoldEmpty ==
  ASSUME NEW b
  PROVE  Fold(b, <<>>) = b
<1>1. Fold(b, <<>>) = (CHOOSE g : Iterates(b, g, <<>>, 0))[1 .. 0]
  <2>1. <<>> \in Seq({}) /\ Len(<<>>) = 0
    OBVIOUS
  <2> QED
    BY <2>1, FoldIterates
<1>2. Iterates(b, CHOOSE g : Iterates(b, g, <<>>, 0), <<>>, 0)
  BY IteratesExists
<1> QED
  BY <1>1, <1>2, IteratesEmpty

\* The last element is folded last.
THEOREM FoldAppend ==
  ASSUME NEW b, NEW S, NEW s \in Seq(S), NEW e \in S
  PROVE  Fold(b, Append(s, e)) = Op(Fold(b, s), e)
<1> DEFINE t == Append(s, e)
           g == CHOOSE x : Iterates(b, x, s, Len(s))
           h == CHOOSE x : Iterates(b, x, t, Len(t))
<1>1. t \in Seq(S) /\ Len(t) = Len(s) + 1 /\ t[Len(s) + 1] = e
      /\ \A i \in 1 .. Len(s) : s[i] = t[i]
  OBVIOUS
<1>2. Len(s) \in Nat /\ Len(t) \in Nat
  OBVIOUS
<1>3. Fold(b, s) = g[1 .. Len(s)] /\ Fold(b, t) = h[1 .. Len(t)]
  BY <1>1, FoldIterates
<1>4. Iterates(b, g, s, Len(s)) /\ Iterates(b, h, t, Len(t))
  BY <1>2, IteratesExists
<1> HIDE DEF g, h, t
<1>5. g[1 .. Len(s)] = h[1 .. Len(s)]
  BY <1>1, <1>2, <1>4, IteratesAgree
<1>6. h[1 .. Len(t)] = Op(h[1 .. Len(t) - 1], t[Len(t)])
  BY <1>1, <1>2, <1>4, IteratesPrefix
<1> QED
  BY <1>1, <1>2, <1>3, <1>5, <1>6 DEF t

\* What the operator keeps, the fold has.
THEOREM FoldType ==
  ASSUME NEW b, NEW S, NEW T, b \in T, \A a \in T, e \in S : Op(a, e) \in T,
         NEW s \in Seq(S)
  PROVE  Fold(b, s) \in T
<1> DEFINE N == {n \in Nat : \A t \in Seq(S) : Len(t) = n => Fold(b, t) \in T}
<1>1. 0 \in N
  BY FoldEmpty
<1>2. ASSUME NEW n \in N PROVE n + 1 \in N
  <2> SUFFICES ASSUME NEW t \in Seq(S), Len(t) = n + 1 PROVE Fold(b, t) \in T
    OBVIOUS
  <2> DEFINE r == SubSeq(t, 1, n)
  <2>1. r \in Seq(S) /\ Len(r) = n /\ t[n + 1] \in S /\ t = Append(r, t[n + 1])
    OBVIOUS
  <2>2. Fold(b, t) = Op(Fold(b, r), t[n + 1])
    <3>1. \A q \in Seq(S), x \in S : Fold(b, Append(q, x)) = Op(Fold(b, q), x)
      BY FoldAppend
    <3> QED
      BY <2>1, <3>1
  <2> QED
    BY <2>1, <2>2
<1>3. N = Nat
  BY <1>1, <1>2, SetInduction
<1> QED
  BY <1>3
=============================================================================
