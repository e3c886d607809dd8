-------------------------- MODULE EventLoop_proofs --------------------------
(***************************************************************************)
(* For every number of events, cells and calls: what a walk of a list      *)
(* meets, as a path through the next pointers; what adding and removing do *)
(* to paths; and that the two mutexes let every call find, when it changes *)
(* a list, the place that its walk found.  A list that broke has its mutex *)
(* locked for good, so that no call gets at it again.                      *)
(***************************************************************************)
EXTENDS EventLoop, FiniteSetTheorems, TLAPS

Numbers == INSTANCE Induction WITH Op <- +

------------------------------------------------------------------------------
(* Walks and paths.                                                         *)

\* The cells that a walk from c meets along pointers nx, as Following says it
\* for the pointers there are.
Reach(nx, c, k) ==
  CHOOSE g : g = [n \in 0..k |->
                    IF n = 0 THEN {c} \ {NULL}
                    ELSE g[n - 1] \cup ({nx[d] : d \in g[n - 1]} \ {NULL})]
Along(nx, c) == Reach(nx, c, Cardinality(Cells))[Cardinality(Cells)]

\* p names the cells from c in their order, each once, and the last has no next.
Path(nx, c, n, p) ==
  /\ n \in Nat /\ p \in [1..n -> Cells]
  /\ c = IF n = 0 THEN NULL ELSE p[1]
  /\ \A i \in 1..n : nx[p[i]] = IF i = n THEN NULL ELSE p[i + 1]
  /\ \A i, j \in 1..n : p[i] = p[j] => i = j
Ends(nx, c) == \E n, p : Path(nx, c, n, p)

\* A walk is the one that Following makes.
LEMMA FollowingAlong ==
  ASSUME NEW c
  PROVE  Following(c) = Along(next, c)
BY Zenon DEF Following, Along, Reach

\* The recursion has a solution for every number of steps.
LEMMA ReachExists ==
  ASSUME NEW nx, NEW c, NEW k \in Nat
  PROVE  Reach(nx, c, k) = [n \in 0..k |->
           IF n = 0 THEN {c} \ {NULL}
           ELSE Reach(nx, c, k)[n - 1]
                \cup ({nx[d] : d \in Reach(nx, c, k)[n - 1]} \ {NULL})]
<1> DEFINE Step(g, n) == IF n = 0 THEN {c} \ {NULL}
                         ELSE g[n - 1] \cup ({nx[d] : d \in g[n - 1]} \ {NULL})
           T == {j \in Nat : \E g : g = [n \in 0..j |-> Step(g, n)]}
<1>1. 0 \in T
  <2> DEFINE g == [n \in 0..0 |-> {c} \ {NULL}]
  <2>1. g = [n \in 0..0 |-> Step(g, n)]
    OBVIOUS
  <2> QED
    BY <2>1
<1>2. ASSUME NEW j \in T PROVE j + 1 \in T
  <2>1. PICK g : g = [n \in 0..j |-> Step(g, n)]
    OBVIOUS
  <2>a. \A n \in 0..j : g[n] = Step(g, n)
    <3> TAKE n \in 0..j
    <3> DEFINE f == [i \in 0..j |-> Step(g, i)]
    <3>1. f[n] = Step(g, n)
      OBVIOUS
    <3>2. g = f
      BY <2>1, Zenon
    <3> HIDE DEF f, Step
    <3> QED
      BY <3>1, <3>2
  <2> DEFINE h == [n \in 0..j + 1 |-> IF n = j + 1 THEN Step(g, j + 1) ELSE g[n]]
  <2>2. ASSUME NEW n \in 0..j + 1 PROVE h[n] = Step(h, n)
    <3>1. CASE n = 0
      <4>1. h[0] = g[0] /\ g[0] = Step(g, 0)
        BY <2>1
      <4> QED
        BY <3>1, <4>1
    <3>2. CASE n = j + 1
      <4>1. h[n - 1] = g[n - 1]
        BY <3>2
      <4> QED
        BY <3>2, <4>1
    <3>3. CASE n \in 1..j
      <4>1. h[n] = g[n] /\ h[n - 1] = g[n - 1]
        BY <3>3
      <4>2. g[n] = Step(g, n)
        <5>1. n \in 0..j
          BY <3>3
        <5> QED
          BY <2>a, <5>1, Zenon
      <4> QED
        BY <3>3, <4>1, <4>2
    <3> QED
      BY <3>1, <3>2, <3>3
  <2>3. h = [n \in 0..j + 1 |-> Step(h, n)]
    BY <2>2
  <2> HIDE DEF h, Step
  <2>4. j + 1 \in Nat /\ \E f : f = [n \in 0..j + 1 |-> Step(f, n)]
    BY <2>3
  <2> QED
    BY <2>4
<1>3. T = Nat
  BY <1>1, <1>2, Numbers!SetInduction
<1>4. \E g : g = [n \in 0..k |-> Step(g, n)]
  BY <1>3
<1> QED
  BY <1>4 DEF Reach

\* The first cells of a path.
First(p, n, l) == {p[i] : i \in {j \in 1..n : j <= l}}

\* After n steps a walk has met the first n + 1 cells of the path.
LEMMA ReachPath ==
  ASSUME NEW nx, NEW c, NEW m \in Nat, NEW p, Path(nx, c, m, p), NEW k \in Nat, NEW n \in 0..k
  PROVE  Reach(nx, c, k)[n] = First(p, m, n + 1)
<1> USE DEF First
<1> DEFINE g == Reach(nx, c, k)
           Met(j) == First(p, m, j + 1)
           T == {j \in Nat : j <= k => g[j] = Met(j)}
<1> USE EventLoopAssumption
<1>a. g = [j \in 0..k |-> IF j = 0 THEN {c} \ {NULL}
                         ELSE g[j - 1] \cup ({nx[d] : d \in g[j - 1]} \ {NULL})]
  BY ReachExists
<1> HIDE DEF g
<1>1. \A j \in 0..k : g[j] = IF j = 0 THEN {c} \ {NULL}
                              ELSE g[j - 1] \cup ({nx[d] : d \in g[j - 1]} \ {NULL})
  BY <1>a
<1>2. 0 \in T
  <2>1. g[0] = {c} \ {NULL}
    <3>1. 0 \in 0..k
      OBVIOUS
    <3> QED
      BY <1>1, <3>1
  <2>2. CASE m = 0
    BY <2>1, <2>2 DEF Path
  <2>3. CASE m # 0
    <3>1. {l \in 1..m : l <= 0 + 1} = {1} /\ c = p[1] /\ p[1] # NULL
      BY <2>3 DEF Path
    <3> QED
      BY <2>1, <3>1
  <2> QED
    BY <2>2, <2>3
<1>3. ASSUME NEW j \in T PROVE j + 1 \in T
  <2> SUFFICES ASSUME j + 1 <= k PROVE g[j + 1] = Met(j + 1)
    OBVIOUS
  <2>1. g[j + 1] = g[j] \cup ({nx[d] : d \in g[j]} \ {NULL})
    <3>1. j + 1 \in 0..k /\ j + 1 # 0 /\ (j + 1) - 1 = j
      OBVIOUS
    <3> QED
      BY <1>1, <3>1
  <2>2. g[j] = Met(j)
    OBVIOUS
  <2>3. ASSUME NEW d, d \in g[j + 1] PROVE d \in Met(j + 1)
    <3>1. CASE d \in g[j]
      BY <2>2, <3>1
    <3>2. CASE d \notin g[j]
      <4>1. PICK i \in 1..m : i <= j + 1 /\ d = nx[p[i]] /\ d # NULL
        BY <2>1, <2>2, <2>3, <3>2
      <4>2. i # m /\ d = p[i + 1]
        BY <4>1 DEF Path
      <4>3. i + 1 \in {l \in 1..m : l <= (j + 1) + 1}
        BY <4>1, <4>2
      <4> QED
        BY <4>2, <4>3
    <3> QED
      BY <3>1, <3>2
  <2>4. ASSUME NEW i \in 1..m, i <= (j + 1) + 1 PROVE p[i] \in g[j + 1]
    <3>1. CASE i <= j + 1
      BY <2>1, <2>2, <3>1
    <3>2. CASE i = j + 2
      <4>1. i - 1 \in {l \in 1..m : l <= j + 1}
        BY <2>4, <3>2
      <4>2. nx[p[i - 1]] = p[i] /\ p[i] # NULL
        BY <4>1 DEF Path
      <4>3. p[i - 1] \in g[j]
        BY <2>2, <4>1
      <4> QED
        BY <2>1, <4>2, <4>3
    <3> QED
      BY <2>4, <3>1, <3>2
  <2> QED
    BY <2>3, <2>4
<1>4. T = Nat
  BY <1>2, <1>3, Numbers!SetInduction
<1>5. n \in T /\ n <= k
  BY <1>4
<1>6. g[n] = Met(n)
  BY <1>5
<1> QED
  BY <1>6 DEF g

\* There are cells enough for the walk to meet all of them.
LEMMA AlongPath ==
  ASSUME NEW nx, NEW c, NEW n, NEW p, Path(nx, c, n, p)
  PROVE  Along(nx, c) = {p[i] : i \in 1..n}
<1>1. Cardinality(Cells) \in Nat
  BY EventLoopAssumption, FS_CardinalityType
<1>2. n \in Nat /\ p \in Injection(1..n, Cells)
  BY DEF Path, Injection, IsInjective
<1>3. Cardinality(1..n) <= Cardinality(Cells)
  BY <1>2, EventLoopAssumption, FS_Injection
<1>4. n <= Cardinality(Cells)
  <2>1. Cardinality(1..n) = n
    BY <1>2, FS_Interval
  <2> QED
    BY <1>3, <2>1
<1>5. Along(nx, c) = First(p, n, Cardinality(Cells) + 1)
  <2>1. Cardinality(Cells) \in 0..Cardinality(Cells)
    BY <1>1
  <2> QED
    <3> DEFINE K == Cardinality(Cells)
    <3>1. K \in Nat /\ K \in 0..K /\ n \in Nat /\ Along(nx, c) = Reach(nx, c, K)[K]
      BY <1>1, <1>2, <2>1 DEF Along
    <3> HIDE DEF K
    <3>2. Reach(nx, c, K)[K] = First(p, n, K + 1)
      BY <3>1, ReachPath
    <3> QED
      BY <3>1, <3>2 DEF K
<1>6. {j \in 1..n : j <= Cardinality(Cells) + 1} = 1..n
  BY <1>1, <1>2, <1>4
<1> QED
  BY <1>5, <1>6 DEF First

\* The empty list is a path, and only it has no cells.
LEMMA AlongEmpty ==
  ASSUME NEW nx, NEW c, Ends(nx, c)
  PROVE  /\ Along(nx, c) \subseteq Cells
         /\ c = NULL <=> Along(nx, c) = {}
         /\ c # NULL => c \in Along(nx, c)
<1> USE EventLoopAssumption
<1>1. PICK n, p : Path(nx, c, n, p)
  BY DEF Ends
<1>2. Along(nx, c) = {p[i] : i \in 1..n}
  BY <1>1, AlongPath
<1>3. CASE n = 0
  BY <1>1, <1>2, <1>3 DEF Path
<1>4. CASE n # 0
  <2>1. 1 \in 1..n /\ p[1] \in Cells /\ c = p[1]
    BY <1>1, <1>4 DEF Path
  <2> QED
    BY <1>1, <1>2, <2>1 DEF Path
<1> QED
  BY <1>3, <1>4

\* The null pointer ends a list.
LEMMA EndsNull ==
  ASSUME NEW nx
  PROVE  Ends(nx, NULL) /\ Along(nx, NULL) = {}
<1>1. Path(nx, NULL, 0, [i \in 1..0 |-> NULL])
  BY DEF Path
<1>2. Ends(nx, NULL)
  BY <1>1 DEF Ends
<1> QED
  BY <1>2, AlongEmpty

\* What follows a cell of a list is a list without it.
LEMMA EndsBehind ==
  ASSUME NEW nx, NEW h, Ends(nx, h), NEW c \in Along(nx, h)
  PROVE  /\ Ends(nx, nx[c])
         /\ Along(nx, nx[c]) \subseteq Along(nx, h)
         /\ c \notin Along(nx, nx[c])
         /\ c = h => Along(nx, nx[c]) = Along(nx, h) \ {h}
         /\ nx[c] # NULL => nx[c] \in Along(nx, h) /\ nx[c] # c /\ nx[c] # h
<1> USE EventLoopAssumption
<1>1. PICK n, p : Path(nx, h, n, p)
  BY DEF Ends
<1>2. Along(nx, h) = {p[i] : i \in 1..n}
  BY <1>1, AlongPath
<1>3. PICK k \in 1..n : c = p[k]
  BY <1>2
<1> DEFINE q == [i \in 1..n - k |-> p[i + k]]
<1>4. Path(nx, nx[c], n - k, q)
  <2>1. n - k \in Nat /\ \A i \in 1..n - k : i + k \in 1..n
    BY <1>1 DEF Path
  <2>2. q \in [1..n - k -> Cells]
    BY <1>1, <2>1 DEF Path
  <2>3. nx[c] = IF n - k = 0 THEN NULL ELSE q[1]
    <3>1. nx[c] = IF k = n THEN NULL ELSE p[k + 1]
      BY <1>1, <1>3 DEF Path
    <3>2. k # n => 1 \in 1..n - k /\ 1 + k = k + 1
      BY <1>1, <2>1 DEF Path
    <3>3. n - k = 0 <=> k = n
      BY <1>1 DEF Path
    <3> QED
      BY <3>1, <3>2, <3>3
  <2>4. ASSUME NEW i \in 1..n - k PROVE nx[q[i]] = IF i = n - k THEN NULL ELSE q[i + 1]
    <3>1. nx[q[i]] = IF i + k = n THEN NULL ELSE p[(i + k) + 1]
      BY <1>1, <2>1 DEF Path
    <3>2. i # n - k => i + 1 \in 1..n - k /\ (i + 1) + k = (i + k) + 1
      BY <2>1
    <3>3. i + k = n <=> i = n - k
      BY <1>1 DEF Path
    <3> QED
      BY <3>1, <3>2, <3>3
  <2>5. ASSUME NEW i \in 1..n - k, NEW j \in 1..n - k, q[i] = q[j] PROVE i = j
    <3>1. i + k = j + k
      BY <1>1, <2>1, <2>5 DEF Path
    <3> QED
      BY <3>1
  <2> HIDE DEF q
  <2> QED
    BY <2>1, <2>2, <2>3, <2>4, <2>5 DEF Path
<1> HIDE DEF q
<1>5. Along(nx, nx[c]) = {q[i] : i \in 1..n - k}
  BY <1>4, AlongPath
<1>6. Ends(nx, nx[c])
  BY <1>4 DEF Ends
<1>7. Along(nx, nx[c]) = {p[i] : i \in k + 1..n}
  <2>1. \A i \in 1..n - k : i + k \in k + 1..n
    BY <1>1 DEF Path
  <2>2. \A i \in k + 1..n : i - k \in 1..n - k /\ q[i - k] = p[i]
    BY <1>1 DEF Path, q
  <2> QED
    BY <1>5, <2>1, <2>2 DEF q
<1>8. \A i \in k + 1..n : i \in 1..n /\ i # k
  BY <1>1 DEF Path
<1>9. c \notin Along(nx, nx[c]) /\ Along(nx, nx[c]) \subseteq Along(nx, h)
  BY <1>1, <1>2, <1>3, <1>7, <1>8 DEF Path
<1>10. ASSUME c = h PROVE Along(nx, nx[c]) = Along(nx, h) \ {h}
  <2>1. k = 1
    <3>1. h = p[1] /\ 1 \in 1..n
      BY <1>1 DEF Path
    <3> QED
      BY <1>1, <1>3, <1>10, <3>1 DEF Path
  <2>2. \A i \in 1..n : i # 1 => i \in k + 1..n
    BY <1>1, <2>1 DEF Path
  <2>3. \A i \in 1..n : p[i] = h => i = 1
    BY <1>1, <1>3, <1>10, <2>1 DEF Path
  <2> QED
    BY <1>2, <1>3, <1>7, <1>9, <1>10, <2>2, <2>3
<1>11. ASSUME nx[c] # NULL PROVE nx[c] \in Along(nx, h) /\ nx[c] # c /\ nx[c] # h
  <2>1. k + 1 \in 1..n /\ nx[c] = p[k + 1]
    BY <1>1, <1>3, <1>11 DEF Path
  <2>2. 1 \in 1..n /\ h = p[1] /\ k + 1 # k /\ k + 1 # 1
    BY <1>1 DEF Path
  <2> QED
    BY <1>1, <1>2, <1>3, <2>1, <2>2 DEF Path
<1> QED
  BY <1>6, <1>9, <1>10, <1>11

\* Pointers of other cells do not matter to a list.
LEMMA EndsElsewhere ==
  ASSUME NEW nx, NEW ny, NEW h, Ends(nx, h), \A c \in Along(nx, h) : ny[c] = nx[c]
  PROVE  Ends(ny, h) /\ Along(ny, h) = Along(nx, h)
<1>1. PICK n, p : Path(nx, h, n, p)
  BY DEF Ends
<1>2. Along(nx, h) = {p[i] : i \in 1..n}
  BY <1>1, AlongPath
<1>3. Path(ny, h, n, p)
  BY <1>1, <1>2 DEF Path
<1> QED
  BY <1>2, <1>3, AlongPath DEF Ends

\* A new cell behind the last one joins the list.
LEMMA EndsAppended ==
  ASSUME NEW nx, NEW h, Ends(nx, h), NEW q \in Cells, q \notin Along(nx, h),
         NEW a \in OrNull({c \in Along(nx, h) : nx[c] = NULL}),
         NEW ny, ny = [c \in Cells |-> IF c = q THEN NULL ELSE IF c = a THEN q ELSE nx[c]]
  PROVE  LET g == IF a = NULL THEN q ELSE h
         IN  Ends(ny, g) /\ Along(ny, g) = Along(nx, h) \cup {q}
<1> DEFINE g == IF a = NULL THEN q ELSE h
<1> USE EventLoopAssumption
<1>1. PICK n, p : Path(nx, h, n, p)
  BY DEF Ends
<1>2. Along(nx, h) = {p[i] : i \in 1..n}
  BY <1>1, AlongPath
<1> DEFINE r == [i \in 1..n + 1 |-> IF i = n + 1 THEN q ELSE p[i]]
<1>3. n \in Nat /\ \A i \in 1..n + 1 : i # n + 1 => i \in 1..n
  BY <1>1 DEF Path
<1>4. IF n = 0 THEN a = NULL ELSE a = p[n]
  <2>1. \A i \in 1..n : nx[p[i]] = NULL <=> i = n
    BY <1>1, <1>3 DEF Path
  <2> QED
    BY <1>1, <1>2, <1>3, <2>1, AlongEmpty DEF OrNull, Path
<1>5. r \in [1..n + 1 -> Cells]
  BY <1>1, <1>3 DEF Path
<1>6. g = IF n + 1 = 0 THEN NULL ELSE r[1]
  <2>1. 1 \in 1..n + 1 /\ n + 1 # 0
    BY <1>3
  <2>2. CASE n = 0
    BY <1>4, <2>1, <2>2
  <2>3. CASE n # 0
    <3>1. n \in 1..n /\ 1 # n + 1 /\ p[n] # NULL /\ h = p[1]
      BY <1>1, <1>3, <2>3 DEF Path
    <3> QED
      BY <1>4, <2>1, <2>3, <3>1
  <2> QED
    BY <2>2, <2>3
<1>7. ASSUME NEW i \in 1..n + 1 PROVE ny[r[i]] = IF i = n + 1 THEN NULL ELSE r[i + 1]
  <2>1. CASE i = n + 1
    BY <1>5, <2>1
  <2>2. CASE i = n
    <3>1. i # n + 1 /\ i + 1 = n + 1 /\ n # 0 /\ i + 1 \in 1..n + 1 /\ i \in 1..n
      BY <1>3, <2>2
    <3>2. r[i] = a /\ a # q /\ a \in Cells
      BY <1>1, <1>2, <1>4, <2>2, <3>1 DEF Path
    <3>3. ny[a] = q
      BY <3>2
    <3> QED
      BY <3>1, <3>2, <3>3
  <2>3. CASE i # n + 1 /\ i # n
    <3>1. i \in 1..n /\ i + 1 \in 1..n /\ i + 1 \in 1..n + 1 /\ i + 1 # n + 1 /\ n # 0
      BY <1>3, <2>3
    <3>2. r[i] = p[i] /\ r[i + 1] = p[i + 1] /\ nx[p[i]] = p[i + 1] /\ p[i] \in Cells
      BY <1>1, <2>3, <3>1 DEF Path
    <3>3. p[i] # q
      BY <1>2, <3>1
    <3>4. p[i] # a
      BY <1>1, <1>3, <1>4, <2>3, <3>1 DEF Path
    <3>5. ny[p[i]] = nx[p[i]]
      BY <3>2, <3>3, <3>4
    <3> QED
      BY <2>3, <3>2, <3>5
  <2> QED
    BY <2>1, <2>2, <2>3
<1>8. ASSUME NEW i \in 1..n + 1, NEW j \in 1..n + 1, r[i] = r[j] PROVE i = j
  BY <1>1, <1>2, <1>3, <1>8 DEF Path
<1> HIDE DEF r, g
<1>9. Path(ny, g, n + 1, r)
  <2>1. n + 1 \in Nat
    BY <1>3
  <2>2. \A i \in 1..n + 1 : ny[r[i]] = IF i = n + 1 THEN NULL ELSE r[i + 1]
    BY <1>7
  <2>3. \A i, j \in 1..n + 1 : r[i] = r[j] => i = j
    BY <1>8
  <2> QED
    BY <1>5, <1>6, <2>1, <2>2, <2>3, Zenon DEF Path
<1>10. {r[i] : i \in 1..n + 1} = {p[i] : i \in 1..n} \cup {q}
  <2>1. \A i \in 1..n : i \in 1..n + 1 /\ r[i] = p[i]
    BY <1>3 DEF r
  <2>2. n + 1 \in 1..n + 1 /\ r[n + 1] = q
    BY <1>3 DEF r
  <2> QED
    BY <1>3, <2>1, <2>2
<1>11. Along(ny, g) = Along(nx, h) \cup {q}
  <2>1. Along(ny, g) = {r[i] : i \in 1..n + 1}
    BY <1>9, AlongPath
  <2> QED
    BY <1>2, <1>10, <2>1
<1> QED
  BY <1>9, <1>11 DEF Ends, g

\* A cell behind another leaves the list when that one points past it.
LEMMA EndsUnlinked ==
  ASSUME NEW nx \in [Cells -> Cells \cup {NULL}], NEW h, Ends(nx, h),
         NEW d \in Along(nx, h), nx[d] # NULL,
         NEW ny, ny = [nx EXCEPT ![d] = nx[nx[d]]]
  PROVE  Ends(ny, h) /\ Along(ny, h) = Along(nx, h) \ {nx[d]}
<1> USE EventLoopAssumption
<1>1. PICK n, p : Path(nx, h, n, p)
  BY DEF Ends
<1>2. Along(nx, h) = {p[i] : i \in 1..n}
  BY <1>1, AlongPath
<1>3. PICK k \in 1..n : d = p[k]
  BY <1>2
<1>4. n \in Nat /\ n - 1 \in Nat /\ k # n /\ k + 1 \in 1..n /\ nx[d] = p[k + 1]
  BY <1>1, <1>3 DEF Path
<1> DEFINE r == [i \in 1..n - 1 |-> IF i <= k THEN p[i] ELSE p[i + 1]]
<1>5. \A i \in 1..n - 1 : i \in 1..n /\ i + 1 \in 1..n
  BY <1>4
<1>6. r \in [1..n - 1 -> Cells]
  BY <1>1, <1>5 DEF Path
<1>7. h = IF n - 1 = 0 THEN NULL ELSE r[1]
  <2>1. n - 1 # 0 /\ 1 \in 1..n - 1 /\ 1 <= k /\ n # 0
    BY <1>3, <1>4
  <2> QED
    BY <1>1, <2>1 DEF Path
<1>8. nx[nx[d]] = IF k + 1 = n THEN NULL ELSE p[k + 2]
  <2>1. (k + 1) + 1 = k + 2
    BY <1>4
  <2> QED
    BY <1>1, <1>4, <2>1 DEF Path
<1>9. ASSUME NEW i \in 1..n - 1 PROVE ny[r[i]] = IF i = n - 1 THEN NULL ELSE r[i + 1]
  <2>1. CASE i = k
    <3>1. r[i] = d /\ ny[d] = nx[nx[d]] /\ (k + 1 = n <=> i = n - 1)
      BY <1>1, <1>3, <1>4, <2>1 DEF Path
    <3>2. i # n - 1 => i + 1 \in 1..n - 1 /\ ~(i + 1 <= k) /\ (i + 1) + 1 = k + 2
      BY <1>4, <2>1
    <3> QED
      BY <1>8, <3>1, <3>2
  <2>2. CASE i < k
    <3>1. i # n - 1 /\ i + 1 \in 1..n - 1 /\ i + 1 <= k /\ i <= k /\ i # n /\ i # k
      BY <1>4, <2>2
    <3>2. r[i] = p[i] /\ r[i + 1] = p[i + 1] /\ nx[p[i]] = p[i + 1]
      BY <1>1, <1>5, <3>1 DEF Path
    <3>3. p[i] # d /\ p[i] \in Cells
      BY <1>1, <1>3, <1>5, <3>1 DEF Path
    <3> QED
      BY <3>1, <3>2, <3>3
  <2>3. CASE i > k
    <3>1. ~(i <= k) /\ i + 1 # k /\ (i = n - 1 <=> i + 1 = n)
      BY <1>4, <2>3
    <3>2. i # n - 1 => i + 1 \in 1..n - 1 /\ ~(i + 1 <= k)
      BY <1>4, <2>3
    <3>3. r[i] = p[i + 1] /\ nx[p[i + 1]] = IF i = n - 1 THEN NULL ELSE p[(i + 1) + 1]
      BY <1>1, <1>5, <3>1 DEF Path
    <3>4. p[i + 1] # d /\ p[i + 1] \in Cells
      BY <1>1, <1>3, <1>5, <3>1 DEF Path
    <3>5. i # n - 1 => r[i + 1] = p[(i + 1) + 1]
      BY <3>2
    <3> QED
      BY <3>3, <3>4, <3>5
  <2> QED
    BY <1>4, <2>1, <2>2, <2>3
<1>10. ASSUME NEW i \in 1..n - 1, NEW j \in 1..n - 1, r[i] = r[j] PROVE i = j
  <2> DEFINE s(x) == IF x <= k THEN x ELSE x + 1
  <2>1. \A x \in 1..n - 1 : s(x) \in 1..n /\ r[x] = p[s(x)]
    BY <1>4, <1>5
  <2>2. s(i) = s(j)
    BY <1>1, <1>10, <2>1 DEF Path
  <2> QED
    BY <1>4, <2>2
<1>11. {r[i] : i \in 1..n - 1} = {p[i] : i \in {j \in 1..n : j # k + 1}}
  <2>1. ASSUME NEW i \in 1..n - 1
        PROVE  \E j \in 1..n : j # k + 1 /\ r[i] = p[j]
    <3>1. CASE i <= k
      <4>1. i \in 1..n /\ i # k + 1 /\ r[i] = p[i]
        BY <1>4, <1>5, <3>1
      <4> QED
        BY <4>1
    <3>2. CASE ~(i <= k)
      <4>1. i + 1 \in 1..n /\ i + 1 # k + 1 /\ r[i] = p[i + 1]
        BY <1>4, <1>5, <3>2
      <4> QED
        BY <4>1
    <3> QED
      BY <3>1, <3>2
  <2>2. ASSUME NEW j \in 1..n, j # k + 1
        PROVE  \E i \in 1..n - 1 : r[i] = p[j]
    <3>1. CASE j <= k
      <4>1. j \in 1..n - 1 /\ r[j] = p[j]
        BY <1>4, <3>1
      <4> QED
        BY <4>1
    <3>2. CASE ~(j <= k)
      <4>1. j - 1 \in 1..n - 1 /\ ~(j - 1 <= k) /\ (j - 1) + 1 = j
        BY <1>4, <2>2, <3>2
      <4> QED
        BY <4>1
    <3> QED
      BY <3>1, <3>2
  <2> HIDE DEF r
  <2> QED
    BY <2>1, <2>2
<1> HIDE DEF r
<1>12. Path(ny, h, n - 1, r)
  BY <1>4, <1>6, <1>7, <1>9, <1>10 DEF Path
<1>13. Along(ny, h) = {r[i] : i \in 1..n - 1}
  BY <1>12, AlongPath
<1>14. {p[i] : i \in {j \in 1..n : j # k + 1}} = {p[i] : i \in 1..n} \ {p[k + 1]}
  BY <1>1, <1>4 DEF Path
<1> QED
  BY <1>2, <1>4, <1>11, <1>12, <1>13, <1>14 DEF Ends

\* Every cell of a list but the first follows another one.
LEMMA CellBefore ==
  ASSUME NEW nx, NEW h, Ends(nx, h), NEW c \in Along(nx, h), c # h
  PROVE  \E d \in Along(nx, h) : nx[d] = c
<1>1. PICK n, p : Path(nx, h, n, p)
  BY DEF Ends
<1>2. Along(nx, h) = {p[i] : i \in 1..n}
  BY <1>1, AlongPath
<1>3. PICK k \in 1..n : c = p[k]
  BY <1>2
<1>4. k # 1 /\ k - 1 \in 1..n /\ k - 1 # n /\ (k - 1) + 1 = k
  BY <1>1, <1>3 DEF Path
<1>5. nx[p[k - 1]] = c
  BY <1>1, <1>3, <1>4 DEF Path
<1> QED
  BY <1>2, <1>4, <1>5

\* Of any cells of a list one is the first, which the others follow.
LEMMA FirstCell ==
  ASSUME NEW nx, NEW h, Ends(nx, h), NEW S, S \subseteq Along(nx, h), S # {}
  PROVE  \E c \in S : S \subseteq Along(nx, c)
<1> USE EventLoopAssumption
<1>1. PICK n, p : Path(nx, h, n, p)
  BY DEF Ends
<1>2. Along(nx, h) = {p[i] : i \in 1..n}
  BY <1>1, AlongPath
<1> DEFINE T == {i \in 1..n : p[i] \in S}
<1>3. T \subseteq Nat /\ T # {}
  BY <1>2
<1>4. PICK k \in T : \A i \in T : k <= i
  <2> HIDE DEF T
  <2> QED
    BY <1>3, Numbers!LeastNumber
<1>5. k \in 1..n /\ n \in Nat
  BY <1>1 DEF Path
<1> DEFINE q == [i \in 1..n - k + 1 |-> p[i + k - 1]]
<1>6. Path(nx, p[k], n - k + 1, q)
  <2>1. n - k + 1 \in Nat /\ n - k + 1 # 0 /\ \A i \in 1..n - k + 1 : i + k - 1 \in 1..n
    BY <1>5
  <2>2. q \in [1..n - k + 1 -> Cells]
    BY <1>1, <2>1 DEF Path
  <2>3. p[k] = q[1]
    <3>1. 1 \in 1..n - k + 1 /\ 1 + k - 1 = k
      BY <1>5
    <3> QED
      BY <3>1
  <2>4. ASSUME NEW i \in 1..n - k + 1
        PROVE  nx[q[i]] = IF i = n - k + 1 THEN NULL ELSE q[i + 1]
    <3>1. nx[q[i]] = IF i + k - 1 = n THEN NULL ELSE p[(i + k - 1) + 1]
      BY <1>1, <2>1 DEF Path
    <3>2. i # n - k + 1 => i + 1 \in 1..n - k + 1 /\ (i + 1) + k - 1 = (i + k - 1) + 1
      BY <1>5
    <3>3. i + k - 1 = n <=> i = n - k + 1
      BY <1>5
    <3> QED
      BY <3>1, <3>2, <3>3
  <2>5. ASSUME NEW i \in 1..n - k + 1, NEW j \in 1..n - k + 1, q[i] = q[j] PROVE i = j
    <3>1. i + k - 1 = j + k - 1
      BY <1>1, <2>1, <2>5 DEF Path
    <3> QED
      BY <1>5, <3>1
  <2> HIDE DEF q
  <2> QED
    BY <2>1, <2>2, <2>3, <2>4, <2>5 DEF Path
<1> HIDE DEF q
<1>7. Along(nx, p[k]) = {q[i] : i \in 1..n - k + 1}
  BY <1>6, AlongPath
<1>8. ASSUME NEW c \in S PROVE c \in Along(nx, p[k])
  <2>1. PICK i \in T : c = p[i]
    BY <1>2
  <2>2. i - k + 1 \in 1..n - k + 1 /\ (i - k + 1) + k - 1 = i
    BY <1>4, <1>5
  <2>3. q[i - k + 1] = p[i]
    BY <2>2 DEF q
  <2> QED
    BY <1>7, <2>1, <2>2, <2>3
<1> QED
  BY <1>4, <1>8

------------------------------------------------------------------------------
(* The invariant of the lists.                                              *)

\* The cells of a list.
OnList(m) == Along(next, head[m])

\* A list that did not break ends.  Its cells exist, and so do the events, which
\* are of the list's mode.
ListsInv ==
  \A m \in Modes \ broken :
    /\ Ends(next, head[m])
    /\ \A c \in OnList(m) : c \in cells /\ of[c] \in events /\ Mode(of[c]) = m

\* A list that broke stays locked, by a call that is over.
Locked ==
  \A m \in broken :
    /\ mutex[m] # "free"
    /\ \A t \in Threads : call[t].walked => Mode(call[t].event) # m

\* Where a walked call may have stopped: at any place that its change fits.
Stops(t) ==
  LET e == call[t].event
  IN  OrNull({n \in OnList(Mode(e)) :
                IF call[t].op = "add" THEN next[n] = NULL
                ELSE next[n] # NULL /\ of[next[n]] = e})

\* What a thread's call may rely on: its event is known and in no other call; after
\* its walk it holds the mutex of the list, and where it stopped is still a place
\* for its change, which none means that there was none.
CallInv(t) ==
  /\ call[t].op = "none" => call[t] = NoCall
  /\ call[t].op # "none" =>
       /\ call[t].event \in known
       /\ \A u \in Threads : u # t => call[u].event # call[t].event
  /\ call[t].walked => mutex[Mode(call[t].event)] = t /\ call[t].at \in Stops(t)
CallsInv == \A t \in Threads : CallInv(t)

IInv == TypeOK /\ ListsInv /\ CallsInv /\ Locked

\* The lists are the ones that the definitions of the module walk.
LEMMA ListOnList ==
  ASSUME NEW m
  PROVE  List(m) = OnList(m) /\ List(m)' = OnList(m)'
BY Zenon DEF List, OnList, Following, Along, Reach

\* The events of the lists.
LEMMA RegisteredOnList ==
  /\ Registered = {of[c] : c \in OnList("in")} \cup {of[c] : c \in OnList("out")}
  /\ Registered' = {of'[c] : c \in OnList("in")'} \cup {of'[c] : c \in OnList("out")'}
<1>1. \A m : Listed(m) = {of[c] : c \in OnList(m)}
  BY ListOnList, Zenon DEF Listed
<1>2. \A m : Listed(m)' = {of'[c] : c \in OnList(m)'}
  <2> TAKE m
  <2>1. Listed(m)' = {of'[c] : c \in List(m)'}
    BY Zenon DEF Listed
  <2> QED
    BY <2>1, ListOnList, Zenon
<1> QED
  BY <1>1, <1>2, Zenon DEF Registered

\* A walk stops at such a place, or at none when there is none.
LEMMA StopsWalk ==
  ASSUME NEW t, Ends(next, head[Mode(call[t].event)])
  PROVE  OrNull(IF call[t].op = "add" THEN AddAfter(call[t].event)
                ELSE RemoveAfter(call[t].event)) \subseteq Stops(t)
<1> DEFINE e == call[t].event
           m == Mode(e)
<1>1. CASE call[t].op = "add"
  BY <1>1, ListOnList DEF Stops, AddAfter
<1>2. CASE call[t].op # "add"
  <2>1. Before(e) = {n \in OnList(m) : next[n] # NULL /\ of[next[n]] = e}
    BY ListOnList DEF Before
  <2>2. Stops(t) = OrNull(Before(e))
    BY <1>2, <2>1 DEF Stops
  <2>3. RemoveAfter(e) \subseteq Before(e)
    BY DEF RemoveAfter
  <2>4. ASSUME Before(e) # {} PROVE RemoveAfter(e) # {}
    <3>1. Ends(next, head[m]) /\ Before(e) \subseteq Along(next, head[m])
      BY <2>1 DEF OnList
    <3>2. PICK n \in Before(e) : Before(e) \subseteq Along(next, n)
      <4> HIDE DEF e, m
      <4> QED
        BY <2>4, <3>1, FirstCell
    <3> QED
      BY <3>2, FollowingAlong DEF RemoveAfter
  <2> QED
    BY <1>2, <2>2, <2>3, <2>4 DEF OrNull
<1> QED
  BY <1>1, <1>2

\* The lists keep what holds of them when events are made.
LEMMA ListsKept ==
  ASSUME ListsInv, UNCHANGED listVars, events \subseteq events'
  PROVE  ListsInv'
BY DEF ListsInv, listVars, OnList

\* A call's places are the same in the same lists.
LEMMA StopsSame ==
  ASSUME NEW t, UNCHANGED listVars, call'[t] = call[t]
  PROVE  Stops(t)' = Stops(t)
BY DEF Stops, OnList, listVars

\* A broken list stays locked when its mutex and the calls stay as they are.
LEMMA LockedKept ==
  ASSUME Locked, broken' = broken, call' = call, TypeOK,
         \A m \in Modes : mutex'[m] = mutex[m]
  PROVE  Locked'
BY DEF Locked, TypeOK

\* The calls keep what they rely on when neither they nor the lists change.
LEMMA CallsKept ==
  ASSUME CallsInv, UNCHANGED <<listVars, call>>, known \subseteq known',
         TypeOK, \A m \in Modes : mutex'[m] = mutex[m]
  PROVE  CallsInv'
<1>1. ASSUME NEW t \in Threads PROVE CallInv(t)'
  <2>1. CallInv(t) /\ Mode(call[t].event) \in Modes
    BY DEF CallsInv, Mode, Modes
  <2>2. Stops(t)' = Stops(t)
    BY StopsSame
  <2> QED
    BY <2>1, <2>2 DEF CallInv
<1> QED
  BY <1>1 DEF CallsInv

\* Two calls that have walked do not work on one list.
LEMMA OtherList ==
  ASSUME IInv, NEW t \in Threads, NEW u \in Threads, t # u, call[t].walked, call[u].walked
  PROVE  Mode(call[t].event) # Mode(call[u].event)
BY DEF IInv, CallsInv, CallInv

\* A call that has walked works on a list that did not break.
LEMMA WorksOnIntact ==
  ASSUME IInv, NEW t \in Threads, call[t].walked
  PROVE  Mode(call[t].event) \in Modes \ broken
BY DEF IInv, Locked, Mode, Modes

\* What socketAddEvent does to the lists: the event's list has the new cell, the
\* other list is as it was.
LEMMA AddLists ==
  ASSUME IInv, NEW t \in Threads, Add(t), NEW e, e = call[t].event, NEW m, m = Mode(e)
  PROVE  \E q \in Cells \ cells :
           /\ cells' = cells \cup {q}
           /\ of' = [of EXCEPT ![q] = e]
           /\ broken' = broken /\ m \notin broken
           /\ head' \in [Modes -> Cells \cup {NULL}]
           /\ next' \in [Cells -> Cells \cup {NULL}]
           /\ Ends(next', head'[m])
           /\ OnList(m)' = OnList(m) \cup {q}
           /\ \A k \in (Modes \ broken) \ {m} :
                /\ Ends(next', head'[k]) /\ OnList(k)' = OnList(k)
                /\ \A c \in OnList(k) : next'[c] = next[c]
<1> DEFINE a == call[t].at
           q == CHOOSE c \in Cells : c \notin cells
<1>1. /\ call[t].walked /\ call[t].op = "add" /\ cells # Cells
      /\ cells' = cells \cup {q}
      /\ of' = [of EXCEPT ![q] = e] /\ broken' = broken
      /\ next' = [c \in Cells |-> IF c = q THEN NULL ELSE IF c = a THEN q ELSE next[c]]
      /\ head' = IF a = NULL THEN [head EXCEPT ![m] = q] ELSE head
  BY DEF Add
<1>2. q \in Cells /\ q \notin cells
  <2>1. cells \subseteq Cells
    BY DEF IInv, TypeOK
  <2>2. \E c \in Cells : c \notin cells
    BY <1>1, <2>1
  <2> QED
    BY <2>2
<1>3. m \in Modes \ broken
  BY <1>1, WorksOnIntact
<1>4. a \in OrNull({c \in OnList(m) : next[c] = NULL})
  <2>1. a \in Stops(t)
    BY <1>1 DEF IInv, CallsInv, CallInv
  <2> QED
    BY <1>1, <2>1 DEF Stops
<1>5. \A k \in Modes \ broken : Ends(next, head[k]) /\ q \notin OnList(k)
  BY <1>2 DEF IInv, ListsInv
<1> HIDE DEF a, q
<1>6. a \in Cells \cup {NULL} /\ (a # NULL => a \in OnList(m))
  <2>1. OnList(m) \subseteq Cells
    BY <1>3, <1>5, AlongEmpty DEF OnList
  <2> QED
    BY <1>4, <2>1 DEF OrNull
<1>7. /\ head' \in [Modes -> Cells \cup {NULL}] /\ next' \in [Cells -> Cells \cup {NULL}]
      /\ head'[m] = IF a = NULL THEN q ELSE head[m]
      /\ \A k \in Modes \ {m} : head'[k] = head[k]
  BY <1>1, <1>2, <1>3 DEF IInv, TypeOK
<1>8. Ends(next', head'[m]) /\ OnList(m)' = OnList(m) \cup {q}
  BY <1>1, <1>2, <1>3, <1>4, <1>5, <1>7, EndsAppended DEF OnList
<1>9. ASSUME NEW k \in (Modes \ broken) \ {m}
      PROVE  Ends(next', head'[k]) /\ OnList(k)' = OnList(k) /\ \A c \in OnList(k) : next'[c] = next[c]
  <2>1. OnList(k) \subseteq Cells
    BY <1>5, AlongEmpty DEF OnList
  <2>2. ASSUME NEW c \in OnList(k) PROVE next'[c] = next[c]
    <3>1. c # a
      BY <1>3, <1>6, <2>1, EventLoopAssumption DEF IInv, ListsInv
    <3> QED
      BY <1>1, <1>5, <2>1, <3>1
  <2> QED
    BY <1>5, <1>7, <2>2, EndsElsewhere DEF OnList
<1> QED
  BY <1>1, <1>2, <1>3, <1>7, <1>8, <1>9 DEF q

\* What socketRemoveEvent does to the lists: cells of the event leave its list, all of
\* them when the event is freed, unless that breaks the list, which then held the
\* event and stays locked.  The other list is as it was.
LEMMA RemoveLists ==
  ASSUME IInv, NEW t \in Threads, Remove(t), NEW e, e = call[t].event, NEW m, m = Mode(e)
  PROVE  \E Z \in SUBSET {c \in OnList(m) : of[c] = e} :
           /\ cells' \subseteq cells /\ cells \ Z \subseteq cells'
           /\ of' = of
           /\ m \notin broken /\ broken' \in {broken, broken \cup {m}}
           /\ head' \in [Modes -> Cells \cup {NULL}]
           /\ next' \in [Cells -> Cells \cup {NULL}]
           /\ m \in broken' => mutex' = mutex /\ Z # {}
           /\ m \notin broken' =>
                /\ Ends(next', head'[m]) /\ OnList(m)' = OnList(m) \ Z
                /\ call[t].op = "free" => Z = {c \in OnList(m) : of[c] = e}
           /\ \A k \in (Modes \ broken) \ {m} :
                /\ Ends(next', head'[k]) /\ OnList(k)' = OnList(k)
                /\ \A c \in OnList(k) : next'[c] = next[c]
<1> DEFINE a == call[t].at
           o == call[t].op
           h == head[m]
           R == {c \in OnList(m) : of[c] = e}
           B == Breaks(o, e, a)
           P(Z) ==
           /\ cells' \subseteq cells /\ cells \ Z \subseteq cells'
           /\ of' = of
           /\ m \notin broken /\ broken' \in {broken, broken \cup {m}}
           /\ head' \in [Modes -> Cells \cup {NULL}]
           /\ next' \in [Cells -> Cells \cup {NULL}]
           /\ m \in broken' => mutex' = mutex /\ Z # {}
           /\ m \notin broken' =>
                /\ Ends(next', head'[m]) /\ OnList(m)' = OnList(m) \ Z
                /\ call[t].op = "free" => Z = {c \in OnList(m) : of[c] = e}
           /\ \A k \in (Modes \ broken) \ {m} :
                /\ Ends(next', head'[k]) /\ OnList(k)' = OnList(k)
                /\ \A c \in OnList(k) : next'[c] = next[c]
<1>1. /\ call[t].walked /\ o \in {"remove", "free"} /\ Unregister(e, a) /\ of' = of
      /\ broken' = IF B THEN broken \cup {m} ELSE broken
  BY DEF Remove
<1>2. m \in Modes \ broken
  BY <1>1, WorksOnIntact
<1>3. a \in OrNull({n \in OnList(m) : next[n] # NULL /\ of[next[n]] = e})
  <2>1. a \in Stops(t)
    BY <1>1 DEF IInv, CallsInv, CallInv
  <2> QED
    BY <1>1, <2>1 DEF Stops
<1>4. /\ head \in [Modes -> Cells \cup {NULL}] /\ next \in [Cells -> Cells \cup {NULL}]
      /\ \A k \in Modes \ broken :
           /\ Ends(next, head[k]) /\ OnList(k) \subseteq Cells
           /\ \A c \in OnList(k) : Mode(of[c]) = k
      /\ \A c : c \in R <=> c \in OnList(m) /\ of[c] = e
  BY AlongEmpty DEF IInv, TypeOK, ListsInv, OnList
<1>5. /\ B <=> /\ h # NULL /\ a # NULL
               /\ \/ a = h /\ of[h] = e
                  \/ o = "free" /\ \E c \in OnList(m) \ {h, next[a]} : of[c] = e
  BY ListOnList DEF Breaks
<1>6. ASSUME h = NULL PROVE \E Z \in SUBSET R : P(Z)
  <2>1. UNCHANGED <<head, next, cells>> /\ broken' = broken
    BY <1>1, <1>5, <1>6 DEF Unregister
  <2>2. OnList(m) = {}
    BY <1>2, <1>4, <1>6, AlongEmpty DEF OnList
  <2>3. \A k \in Modes : OnList(k)' = OnList(k)
    BY <2>1 DEF OnList
  <2>4. {} \in SUBSET R /\ R = {}
    BY <2>2
  <2>5. P({})
    <3> HIDE DEF B
    <3> QED
      BY <1>1, <1>2, <1>4, <2>1, <2>2, <2>3, <2>4
  <2> HIDE DEF R, P
  <2> QED
    BY <2>4, <2>5
<1>7. ASSUME h # NULL, a = NULL PROVE \E Z \in SUBSET R : P(Z)
  <2>1. head' = Behead(e) /\ UNCHANGED <<next, cells>> /\ broken' = broken
    BY <1>1, <1>5, <1>7 DEF Unregister
  <2>2. h \in OnList(m)
    BY <1>2, <1>4, <1>7, AlongEmpty DEF OnList
  <2>3. ASSUME NEW c \in R PROVE c = h
    <3>1. CASE c # h
      <4>1. PICK d \in OnList(m) : next[d] = c
        BY <1>2, <1>4, <3>1, CellBefore DEF OnList
      <4>2. c # NULL /\ d # NULL
        BY <1>2, <1>4, <4>1, EventLoopAssumption
      <4>3. NULL \notin {n \in OnList(m) : next[n] # NULL /\ of[next[n]] = e}
        BY <1>2, <1>4, EventLoopAssumption
      <4> QED
        BY <1>3, <1>4, <1>7, <4>1, <4>2, <4>3 DEF OrNull
    <3> QED
      BY <3>1
  <2>4. CASE of[h] = e
    <3>1. head' = [head EXCEPT ![m] = next[h]] /\ R = {h}
      BY <2>1, <2>2, <2>3, <2>4 DEF Behead
    <3>2. head'[m] = next[h] /\ head' \in [Modes -> Cells \cup {NULL}]
          /\ \A k \in Modes \ {m} : head'[k] = head[k]
      BY <1>2, <1>4, <2>2, <3>1
    <3>3. Ends(next, next[h]) /\ Along(next, next[h]) = OnList(m) \ {h}
      BY <1>2, <1>4, <2>2, EndsBehind DEF OnList
    <3>4. Ends(next', head'[m]) /\ OnList(m)' = OnList(m) \ R
      BY <2>1, <3>1, <3>2, <3>3 DEF OnList
    <3>5. \A k \in Modes \ {m} : OnList(k)' = OnList(k)
      BY <2>1, <3>2 DEF OnList
    <3>6. R \in SUBSET R
      OBVIOUS
    <3>7. P(R)
      <4> HIDE DEF B
      <4> QED
        BY <1>1, <1>2, <1>4, <2>1, <3>2, <3>4, <3>5
    <3> HIDE DEF R, P
    <3> QED
      BY <3>6, <3>7
  <2>5. CASE of[h] # e
    <3>1. head' = head /\ R = {}
      BY <2>1, <2>3, <2>5 DEF Behead
    <3>2. \A k \in Modes : OnList(k)' = OnList(k)
      BY <2>1, <3>1 DEF OnList
    <3>3. {} \in SUBSET R
      OBVIOUS
    <3>4. P({})
      <4> HIDE DEF B
      <4> QED
        BY <1>1, <1>2, <1>4, <2>1, <3>1, <3>2
    <3> HIDE DEF R, P
    <3> QED
      BY <3>3, <3>4
  <2> QED
    BY <2>4, <2>5
<1>8. ASSUME h # NULL, a # NULL PROVE \E Z \in SUBSET R : P(Z)
  <2>1. /\ head' = Behead(e) /\ next' = Unlink(a) /\ cells' = cells \ {next[a]}
        /\ mutex' = mutex
    BY <1>1, <1>8 DEF Unregister
  <2>2. a \in OnList(m) /\ next[a] # NULL /\ of[next[a]] = e
    BY <1>3, <1>8 DEF OrNull
  <2>3. next[a] \in OnList(m) /\ next[a] # a /\ next[a] # h
    BY <1>2, <1>4, <2>2, EndsBehind DEF OnList
  <2>4. next' = [next EXCEPT ![a] = next[next[a]]] /\ next' \in [Cells -> Cells \cup {NULL}]
    BY <1>2, <1>4, <2>1, <2>2, <2>3 DEF Unlink
  <2>5. h \in OnList(m) /\ next[h] \in Cells \cup {NULL}
    BY <1>2, <1>4, <1>8, AlongEmpty DEF OnList
  <2> DEFINE g == IF of[h] = e THEN next[h] ELSE h
             Z == {next[a]} \cup (IF of[h] = e THEN {h} ELSE {})
  <2>6. head' = [head EXCEPT ![m] = g]
    BY <1>2, <1>4, <2>1 DEF Behead
  <2>7. head' \in [Modes -> Cells \cup {NULL}] /\ head'[m] = g
        /\ \A k \in Modes \ {m} : head'[k] = head[k]
    BY <1>2, <1>4, <2>5, <2>6
  <2>8. Z \in SUBSET R /\ Z # {} /\ next[a] \in Z
    BY <2>2, <2>3, <2>5
  <2>9. ASSUME ~(a = h /\ of[h] = e)
        PROVE  Ends(next', head'[m]) /\ OnList(m)' = OnList(m) \ Z
    <3>1. Ends(next, g) /\ Along(next, g) = OnList(m) \ (Z \ {next[a]})
      <4>1. CASE of[h] = e
        <5>1. Ends(next, next[h]) /\ Along(next, next[h]) = OnList(m) \ {h}
          BY <1>2, <1>4, <2>5, EndsBehind DEF OnList
        <5> QED
          BY <2>3, <4>1, <5>1
      <4>2. CASE of[h] # e
        BY <1>2, <1>4, <4>2 DEF OnList
      <4> QED
        BY <4>1, <4>2
    <3>2. a \in Along(next, g) /\ Ends(next, g) /\ next[a] # NULL
      BY <2>2, <2>3, <2>9, <3>1
    <3>3. next \in [Cells -> Cells \cup {NULL}]
      BY <1>4
    <3> HIDE DEF g, Z
    <3>4. \A ny : ny = [next EXCEPT ![a] = next[next[a]]]
                   => Ends(ny, g) /\ Along(ny, g) = Along(next, g) \ {next[a]}
      <4> HIDE DEF a
      <4> QED
        BY <3>2, <3>3, EndsUnlinked
    <3>5. Ends(next', g) /\ Along(next', g) = Along(next, g) \ {next[a]}
      BY <2>4, <3>4, Zenon
    <3> QED
      BY <2>7, <2>8, <3>1, <3>5 DEF OnList
  <2>10. ASSUME NEW k \in (Modes \ broken) \ {m}
         PROVE  Ends(next', head'[k]) /\ OnList(k)' = OnList(k)
                /\ \A c \in OnList(k) : next'[c] = next[c]
    <3>1. a \notin OnList(k)
      BY <1>2, <1>4, <2>2
    <3>2. \A c \in OnList(k) : next'[c] = next[c]
      BY <1>4, <2>4, <3>1
    <3> QED
      BY <1>4, <2>7, <3>2, EndsElsewhere DEF OnList
  <2>11. ASSUME m \notin broken' PROVE ~(a = h /\ of[h] = e) /\ (o = "free" => Z = R)
    <3>1. ~B
      BY <1>1, <2>11
    <3>2. ~(a = h /\ of[h] = e)
      BY <1>5, <1>8, <3>1
    <3>3. ASSUME o = "free" PROVE R \subseteq {h, next[a]}
      BY <1>5, <1>8, <3>1, <3>3
    <3>4. o = "free" => Z = R
      BY <2>8, <3>3
    <3> QED
      BY <3>2, <3>4
  <2>12. cells' \subseteq cells /\ cells \ Z \subseteq cells'
    BY <2>1, <2>8
  <2>13. m \notin broken /\ broken' \in {broken, broken \cup {m}}
    BY <1>1, <1>2
  <2>14. P(Z)
    <3> HIDE DEF Z, B, g
    <3> QED
      BY <1>1, <2>1, <2>4, <2>7, <2>8, <2>9, <2>10, <2>11, <2>12, <2>13
  <2> HIDE DEF R, P, Z
  <2> QED
    BY <2>8, <2>14
<1>9. \E Z \in SUBSET R : P(Z)
  <2> HIDE DEF P, R
  <2> QED
    BY <1>6, <1>7, <1>8
<1> QED
  BY <1>9

\* A step that changes neither lists nor calls need only keep the types.
LEMMA NotACall ==
  ASSUME IInv, TypeOK', UNCHANGED <<listVars, call>>,
         events \subseteq events', known \subseteq known',
         \A m \in Modes : mutex'[m] = mutex[m]
  PROVE  IInv'
<1>1. ListsInv' /\ CallsInv'
  BY ListsKept, CallsKept DEF IInv
<1>2. Locked'
  BY LockedKept DEF IInv, listVars
<1> QED
  BY <1>1, <1>2 DEF IInv

\* Creating an event and ending the loop keep the types, and so does the end of
\* what the program does.
LEMMA OtherTypes ==
  ASSUME TypeOK,
         \/ \E e \in Events : Create(e)
         \/ \E t \in Threads : CallUnset(t)
         \/ Exit
         \/ UNCHANGED vars
  PROVE  TypeOK'
<1>1. ASSUME NEW e \in Events, Create(e) PROVE TypeOK'
  BY <1>1 DEF TypeOK, Create, eventVars, listVars, callVars, netVars
<1>2. ASSUME NEW t \in Threads, CallUnset(t) PROVE TypeOK'
  BY <1>2 DEF TypeOK, CallUnset, Crash, eventVars, listVars, callVars, netVars
<1>3. CASE Exit
  BY <1>3 DEF TypeOK, Exit, eventVars, listVars, callVars, netVars
<1>4. CASE UNCHANGED vars
  BY <1>4 DEF TypeOK, vars, eventVars, listVars, callVars, netVars
<1> QED
  BY <1>1, <1>2, <1>3, <1>4

\* So do the steps of the network thread.
LEMMA NetTypes ==
  ASSUME TypeOK,
         \/ Start \/ Select \/ SelectFails \/ \E s \in Sockets : Handle(s)
         \/ Returned \/ Handled \/ Check
  PROVE  TypeOK'
<1>1. CASE Start
  <2>1. CASE Released(List("in") \cup List("out"))
    BY <1>1, <2>1 DEF TypeOK, Start, Crash, eventVars, listVars, callVars, netVars
  <2>2. CASE ~Released(List("in") \cup List("out"))
    <3>1. \A m \in Modes : {Socket[e] : e \in Listed(m)} \subseteq Sockets
      BY <2>2 DEF Released, Listed, Sockets, Modes, TypeOK
    <3>2. active' = [m \in Modes |-> {Socket[e] : e \in Listed(m)}]
          /\ pc' = "select"
          /\ UNCHANGED <<eventVars, listVars, mutex, callVars, term, ready, set, from, crash>>
      BY <1>1, <2>2 DEF Start
    <3>3. active' \in [Modes -> SUBSET Sockets]
      BY <3>1, <3>2
    <3> QED
      BY <3>2, <3>3 DEF TypeOK, eventVars, listVars, callVars
  <2> QED
    BY <2>1, <2>2
<1>2. CASE Select
  <2>1. PICK i \in SUBSET active["in"], o \in SUBSET active["out"] :
          /\ ready' = [m \in Modes |-> IF m = "in" THEN i ELSE o]
          /\ pc' = IF i \cup o = {} THEN "check" ELSE "handle"
    BY <1>2 DEF Select
  <2>2. ready' \in [Modes -> SUBSET Sockets]
    BY <2>1 DEF TypeOK, Modes
  <2>3. set' \in Modes /\ from' \in Cells \cup {NULL}
    BY <1>2 DEF TypeOK, Modes, Select
  <2> QED
    BY <1>2, <2>1, <2>2, <2>3 DEF TypeOK, Select, eventVars, listVars, callVars
<1>3. CASE SelectFails
  BY <1>3 DEF TypeOK, SelectFails, eventVars, listVars, callVars
<1>4. ASSUME NEW s \in Sockets, Handle(s) PROVE TypeOK'
  <2>1. CASE Released(Searched(s))
    BY <1>4, <2>1 DEF TypeOK, Handle, Crash, eventVars, listVars, callVars, netVars
  <2>2. CASE ~Released(Searched(s))
    <3>1. /\ ready' = [ready EXCEPT ![set] = @ \ {s}]
          /\ active' = [active EXCEPT ![set] = @ \ {s}]
          /\ pc' \in {pc, "called"}
          /\ UNCHANGED <<eventVars, listVars, mutex, callVars, term, set, from, crash>>
      BY <1>4, <2>2 DEF Handle, Served
    <3>2. ready' \in [Modes -> SUBSET Sockets] /\ active' \in [Modes -> SUBSET Sockets]
      BY <3>1 DEF TypeOK
    <3> QED
      BY <3>1, <3>2 DEF TypeOK, eventVars, listVars, callVars
  <2> QED
    BY <2>1, <2>2
<1>5. CASE Returned
  BY <1>5 DEF TypeOK, Returned, eventVars, listVars, callVars
<1>6. CASE Handled
  BY <1>6 DEF TypeOK, Handled, Modes, eventVars, listVars, callVars
<1>7. CASE Check
  <2>1. mutex' \in [Modes \cup {"cond"} -> Threads \cup {"free"}]
    BY <1>7 DEF TypeOK, Check, Threads
  <2> QED
    BY <1>7, <2>1 DEF TypeOK, Check, AfterCheck, eventVars, listVars, callVars
<1> QED
  BY <1>1, <1>2, <1>3, <1>4, <1>5, <1>6, <1>7

\* None of these steps touches a list, a call or the mutex of a list.
LEMMA OtherSteps ==
  ASSUME IInv,
         \/ \E e \in Events : Create(e)
         \/ \E t \in Threads : CallUnset(t)
         \/ Exit
         \/ Start \/ Select \/ SelectFails \/ \E s \in Sockets : Handle(s)
         \/ Returned \/ Handled \/ Check
         \/ UNCHANGED vars
  PROVE  IInv' /\ UNCHANGED listVars
<1>1. TypeOK'
  BY OtherTypes, NetTypes DEF IInv
<1>2. UNCHANGED <<listVars, call>> /\ events \subseteq events' /\ known \subseteq known'
  BY DEF Create, CallUnset, Exit, Start, Select, SelectFails, Handle, Returned, Handled,
         Check, Crash, vars, eventVars, callVars
<1>3. \A m \in Modes : mutex'[m] = mutex[m]
  <2>1. CASE Check
    BY <2>1 DEF Check, Modes, IInv, TypeOK
  <2>2. CASE ~Check
    <3>1. mutex' = mutex
      BY <2>2 DEF Create, CallUnset, Exit, Start, Select, SelectFails, Handle, Returned,
                  Handled, Crash, vars
    <3> QED
      BY <3>1
  <2> QED
    BY <2>1, <2>2
<1> QED
  BY <1>1, <1>2, <1>3, NotACall

\* Where another thread's call stopped is still the place when its list is as it
\* was.
LEMMA StopsKept ==
  ASSUME IInv, NEW u \in Threads, call'[u] = call[u],
         NEW k \in Modes \ broken, k = Mode(call[u].event), OnList(k)' = OnList(k),
         \A c \in OnList(k) : next'[c] = next[c] /\ of'[c] = of[c]
  PROVE  Stops(u)' = Stops(u)
<1> DEFINE e == call[u].event
           S == {n \in OnList(k) : IF call[u].op = "add" THEN next[n] = NULL
                                   ELSE next[n] # NULL /\ of[next[n]] = e}
           Z == {n \in OnList(k) : IF call[u].op = "add" THEN next'[n] = NULL
                                   ELSE next'[n] # NULL /\ of'[next'[n]] = e}
<1>1. Stops(u) = OrNull(S)
  BY DEF Stops
<1>2. Stops(u)' = OrNull(Z)
  <2>1. Stops(u)' = OrNull({n \in Along(next', head'[Mode(call'[u].event)]) :
                             IF call'[u].op = "add" THEN next'[n] = NULL
                             ELSE next'[n] # NULL /\ of'[next'[n]] = call'[u].event})
    BY Zenon DEF Stops, OrNull, OnList, Mode
  <2>2. Along(next', head'[Mode(call'[u].event)]) = OnList(k)
    BY DEF OnList
  <2> QED
    BY <2>1, <2>2
<1>3. \A c \in OnList(k) : next[c] # NULL => next[c] \in OnList(k)
  BY EndsBehind DEF IInv, ListsInv, OnList
<1>4. S = Z
  BY <1>3
<1> QED
  BY <1>1, <1>2, <1>4

\* The types of a call that goes on or is over.
LEMMA CallTypes ==
  ASSUME TypeOK, NEW t \in Threads, NEW r, call' = [call EXCEPT ![t] = r],
         r \in [op : {"none", "add", "remove", "free"}, event : Events \cup {NULL},
                walked : BOOLEAN, at : Cells \cup {NULL}]
  PROVE  /\ call' \in [Threads -> [op : {"none", "add", "remove", "free"},
                                   event : Events \cup {NULL},
                                   walked : BOOLEAN, at : Cells \cup {NULL}]]
         /\ call'[t] = r /\ \A u \in Threads \ {t} : call'[u] = call[u]
BY DEF TypeOK

\* A call that is made relies on nothing that its caller does not see to.
LEMMA CallStep ==
  ASSUME IInv, NEW t \in Threads, NEW op \in {"add", "remove", "free"}, NEW e \in Events,
         Call(t, op, e)
  PROVE  IInv' /\ UNCHANGED listVars
<1> DEFINE r == [op |-> op, event |-> e, walked |-> FALSE, at |-> NULL]
<1>1. /\ call[t] = NoCall /\ calls[t] < CallsMax /\ e \in known
      /\ \A u \in Threads : call[u].event # e
      /\ calls' = [calls EXCEPT ![t] = @ + 1]
      /\ UNCHANGED <<eventVars, listVars, mutex, term, netVars, crash>>
  BY DEF Call, MayCall
<1>2. call' = [call EXCEPT ![t] = r]
  <2> DEFINE T == [op : {"none", op}, event : {NULL, e}, walked : {FALSE}, at : {NULL}]
             n == [NoCall EXCEPT !.op = op, !.event = e]
  <2>a. NoCall \in T
    BY DEF NoCall
  <2>b. n \in T /\ n.op = op /\ n.event = e
    BY <2>a
  <2>1. n = r
    <3> HIDE DEF n
    <3> QED
      BY <2>b
  <2> QED
    BY <2>1, Zenon DEF Call
<1>3. r \in [op : {"none", "add", "remove", "free"}, event : Events \cup {NULL},
             walked : BOOLEAN, at : Cells \cup {NULL}]
  OBVIOUS
<1> HIDE DEF r
<1>4. /\ call' \in [Threads -> [op : {"none", "add", "remove", "free"},
                                event : Events \cup {NULL},
                                walked : BOOLEAN, at : Cells \cup {NULL}]]
      /\ call'[t] = r /\ \A u \in Threads \ {t} : call'[u] = call[u]
  BY <1>2, <1>3, CallTypes DEF IInv
<1>5. TypeOK'
  <2>1. calls' \in [Threads -> 0..CallsMax]
    BY <1>1, EventLoopAssumption DEF IInv, TypeOK
  <2> QED
    BY <1>1, <1>4, <2>1 DEF IInv, TypeOK, eventVars, listVars, netVars
<1>6. ListsInv'
  BY <1>1, ListsKept DEF IInv, eventVars
<1>7. Locked'
  <2>1. broken' = broken /\ \A m \in broken : mutex'[m] # "free"
    BY <1>1 DEF IInv, Locked, listVars
  <2>2. ~call'[t].walked
    BY <1>4 DEF r
  <2>3. ASSUME NEW m \in broken, NEW u \in Threads, call'[u].walked
        PROVE  Mode(call'[u].event) # m
    <3>1. u # t /\ call'[u] = call[u]
      BY <1>4, <2>2, <2>3
    <3> QED
      BY <2>3, <3>1 DEF IInv, Locked
  <2>4. \A m \in broken' : /\ mutex'[m] # "free"
                          /\ \A u \in Threads : call'[u].walked => Mode(call'[u].event) # m
    BY <2>1, <2>3
  <2> QED
    BY <2>4, Zenon DEF Locked, Mode
<1>8. CallInv(t)'
  BY <1>1, <1>4 DEF CallInv, r, eventVars
<1>9. ASSUME NEW u \in Threads \ {t} PROVE CallInv(u)'
  <2>1. CallInv(u) /\ Mode(call[u].event) \in Modes
    BY DEF IInv, CallsInv, Mode, Modes
  <2>2. call'[u] = call[u]
    BY <1>4
  <2>3. Stops(u)' = Stops(u)
    BY <1>1, <2>2, StopsSame
  <2>4. \A w \in Threads : w # u => (call[u].op # "none" => call'[w].event # call[u].event)
    BY <1>1, <1>4, <2>1 DEF CallInv, r
  <2> QED
    BY <1>1, <2>1, <2>2, <2>3, <2>4 DEF CallInv, eventVars
<1> QED
  BY <1>1, <1>5, <1>6, <1>7, <1>8, <1>9 DEF IInv, CallsInv

\* A call that walked its list has the mutex and the place for the change.
LEMMA WalkStep ==
  ASSUME IInv, NEW t \in Threads, Walk(t)
  PROVE  IInv' /\ UNCHANGED listVars
<1> DEFINE e == call[t].event
           m == Mode(e)
<1>1. /\ call[t] # NoCall /\ ~call[t].walked
      /\ mutex[m] = "free" /\ mutex' = [mutex EXCEPT ![m] = t]
      /\ UNCHANGED <<eventVars, listVars, calls, term, netVars, crash>>
  BY DEF Walk, GetMutex
<1>3. m \in Modes \ broken /\ m # "cond"
  BY <1>1 DEF Mode, Modes, IInv, Locked
<1>2. PICK n \in Stops(t) : call' = [call EXCEPT ![t].walked = TRUE, ![t].at = n]
  <2>1. Ends(next, head[m])
    BY <1>3 DEF IInv, ListsInv
  <2> QED
    BY <2>1, StopsWalk DEF Walk
<1>4. n \in Cells \cup {NULL}
  <2>1. OnList(m) \subseteq Cells
    BY <1>3, AlongEmpty DEF IInv, ListsInv, OnList
  <2> QED
    BY <2>1 DEF Stops, OrNull
<1> DEFINE r == [call[t] EXCEPT !.walked = TRUE, !.at = n]
<1>5. call' = [call EXCEPT ![t] = r]
  BY <1>2 DEF IInv, TypeOK
<1>6. /\ r \in [op : {"none", "add", "remove", "free"}, event : Events \cup {NULL},
                walked : BOOLEAN, at : Cells \cup {NULL}]
      /\ r.op = call[t].op /\ r.event = e /\ r.walked /\ r.at = n /\ r.op # "none"
  <2>1. call[t] \in [op : {"none", "add", "remove", "free"}, event : Events \cup {NULL},
                     walked : BOOLEAN, at : Cells \cup {NULL}]
    BY DEF IInv, TypeOK
  <2>2. call[t].op # "none"
    BY <1>1 DEF IInv, CallsInv, CallInv
  <2> QED
    BY <1>4, <2>1, <2>2
<1> HIDE DEF r
<1>7. /\ call' \in [Threads -> [op : {"none", "add", "remove", "free"},
                                event : Events \cup {NULL},
                                walked : BOOLEAN, at : Cells \cup {NULL}]]
      /\ call'[t] = r /\ \A u \in Threads \ {t} : call'[u] = call[u]
  BY <1>5, <1>6, CallTypes DEF IInv
<1>8. TypeOK'
  <2>1. mutex' \in [Modes \cup {"cond"} -> Threads \cup {"free"}]
    BY <1>1 DEF IInv, TypeOK
  <2> QED
    BY <1>1, <1>7, <2>1 DEF IInv, TypeOK, eventVars, listVars, netVars
<1>9. ListsInv'
  BY <1>1, ListsKept DEF IInv, eventVars
<1>10. Locked'
  <2>1. broken' = broken /\ m \notin broken /\ \A k \in broken : mutex'[k] # "free"
    BY <1>1, <1>3 DEF IInv, TypeOK, Locked, listVars
  <2>2. ASSUME NEW k \in broken, NEW u \in Threads, call'[u].walked
        PROVE  Mode(call'[u].event) # k
    <3>1. CASE u = t
      BY <1>6, <1>7, <2>1, <3>1
    <3>2. CASE u # t
      BY <1>7, <2>2, <3>2 DEF IInv, Locked
    <3> QED
      BY <3>1, <3>2
  <2>3. \A k \in broken' : /\ mutex'[k] # "free"
                          /\ \A u \in Threads : call'[u].walked => Mode(call'[u].event) # k
    BY <2>1, <2>2
  <2> QED
    BY <2>3, Zenon DEF Locked, Mode
<1>11. mutex'[m] = t /\ \A k \in Modes \ {m} : mutex'[k] = mutex[k]
  BY <1>1, <1>3 DEF IInv, TypeOK
<1>12. CallInv(t)'
  <2>1. CallInv(t)
    BY DEF IInv, CallsInv
  <2>2. Stops(t)' = Stops(t)
    <3>1. call'[t].op = call[t].op /\ call'[t].event = e
      BY <1>6, <1>7
    <3>2. Along(next', head'[Mode(call'[t].event)]) = OnList(m)
      BY <1>1, <3>1 DEF OnList, listVars
    <3>3. Stops(t)' = OrNull({c \in Along(next', head'[Mode(call'[t].event)]) :
                                IF call'[t].op = "add" THEN next'[c] = NULL
                                ELSE next'[c] # NULL /\ of'[next'[c]] = call'[t].event})
      BY Zenon DEF Stops, OrNull, OnList, Mode
    <3> QED
      BY <1>1, <3>1, <3>2, <3>3 DEF Stops, listVars
  <2>3. \A u \in Threads : u # t => call'[u].event # e
    BY <1>6, <1>7, <2>1 DEF CallInv
  <2> QED
    BY <1>1, <1>6, <1>7, <1>11, <2>1, <2>2, <2>3 DEF CallInv, eventVars
<1>13. ASSUME NEW u \in Threads \ {t} PROVE CallInv(u)'
  <2>1. CallInv(u) /\ Mode(call[u].event) \in Modes
    BY DEF IInv, CallsInv, Mode, Modes
  <2>2. call'[u] = call[u]
    BY <1>7
  <2>3. Stops(u)' = Stops(u)
    BY <1>1, <2>2, StopsSame
  <2>4. \A w \in Threads : w # u => (call[u].op # "none" => call'[w].event # call[u].event)
    BY <1>6, <1>7, <2>1 DEF CallInv
  <2>5. call[u].walked => Mode(call[u].event) # m
    BY <1>1, <2>1 DEF CallInv, Threads
  <2> QED
    BY <1>1, <1>11, <2>1, <2>2, <2>3, <2>4, <2>5 DEF CallInv, eventVars
<1> QED
  BY <1>1, <1>8, <1>9, <1>10, <1>12, <1>13 DEF IInv, CallsInv

\* When a call returns, the lists that had broken stay locked, and so does its own if
\* the call broke it, for then it keeps the mutex.
LEMMA ReturnLocks ==
  ASSUME IInv, NEW t \in Threads, NEW m, m = Mode(call[t].event), call[t].walked,
         Return(t), broken' \in {broken, broken \cup {m}},
         m \in broken' => mutex' = mutex,
         \A k \in Modes \ {m} : mutex'[k] = mutex[k]
  PROVE  Locked'
<1>1. call'[t] = NoCall /\ \A u \in Threads \ {t} : call'[u] = call[u]
  BY DEF Return, IInv, TypeOK
<1>2. m \in Modes \ broken /\ mutex[m] # "free" /\ broken \subseteq Modes
  BY WorksOnIntact DEF IInv, TypeOK, CallsInv, CallInv, Threads
<1>3. \A k \in broken' : mutex'[k] # "free"
  BY <1>2 DEF IInv, Locked
<1>4. ASSUME NEW k \in broken', NEW u \in Threads, call'[u].walked
      PROVE  Mode(call'[u].event) # k
  <2>1. u # t /\ call'[u] = call[u]
    BY <1>1, <1>4 DEF NoCall
  <2>2. CASE k = m
    BY <1>4, <2>1, <2>2, OtherList
  <2>3. CASE k # m
    BY <1>4, <2>1, <2>3 DEF IInv, Locked
  <2> QED
    BY <2>2, <2>3
<1>5. \A k \in broken' : /\ mutex'[k] # "free"
                        /\ \A u \in Threads : call'[u].walked => Mode(call'[u].event) # k
  BY <1>3, <1>4
<1> QED
  BY <1>5, Zenon DEF Locked, Mode

\* When a call returns, the others keep what they rely on: its change was to its
\* own list, whose mutex it held, and to its own event.
LEMMA ReturnStep ==
  ASSUME IInv, NEW t \in Threads, NEW e, e = call[t].event, NEW m, m = Mode(e),
         call[t].walked, TypeOK', Return(t), known \ {e} \subseteq known',
         \A k \in Modes \ {m} : mutex'[k] = mutex[k],
         \A k \in (Modes \ broken) \ {m} :
           /\ OnList(k)' = OnList(k)
           /\ \A c \in OnList(k) : next'[c] = next[c] /\ of'[c] = of[c]
  PROVE  CallsInv'
<1>1. call'[t] = NoCall /\ \A u \in Threads \ {t} : call'[u] = call[u]
  BY DEF Return, IInv, TypeOK
<1>2. call[t].op # "none" /\ e \in Events /\ m \in Modes
        /\ \A u \in Threads \ {t} : call[u].event # e
  BY DEF IInv, TypeOK, CallsInv, CallInv, NoCall, Mode, Modes
<1>3. CallInv(t)'
  BY <1>1 DEF CallInv, NoCall
<1>4. ASSUME NEW u \in Threads \ {t} PROVE CallInv(u)'
  <2>1. CallInv(u) /\ Mode(call[u].event) \in Modes /\ call'[u] = call[u]
    BY <1>1 DEF IInv, CallsInv, Mode, Modes
  <2>2. call[u].op # "none" => call[u].event \in known'
    BY <1>2, <2>1 DEF CallInv
  <2>3. call[u].op # "none" => call[u].event # NULL
    BY <2>1, EventLoopAssumption DEF CallInv, IInv, TypeOK
  <2>4. call[u].op # "none" => \A w \in Threads : w # u => call'[w].event # call[u].event
    BY <1>1, <2>1, <2>3 DEF CallInv, NoCall
  <2>6. call[u].walked => mutex'[Mode(call[u].event)] = u /\ call[u].at \in Stops(u)'
    <3> SUFFICES ASSUME call[u].walked
                 PROVE  mutex'[Mode(call[u].event)] = u /\ call[u].at \in Stops(u)'
      OBVIOUS
    <3>1. Mode(call[u].event) \in (Modes \ broken) \ {m}
      BY <2>1, OtherList, WorksOnIntact
    <3>2. Stops(u)' = Stops(u)
      BY <2>1, <3>1, StopsKept
    <3> QED
      BY <2>1, <3>1, <3>2 DEF CallInv
  <2>7. call[u].op = "none" => call[u] = NoCall
    BY <2>1 DEF CallInv
  <2> QED
    BY <2>1, <2>2, <2>4, <2>6, <2>7 DEF CallInv
<1> QED
  BY <1>3, <1>4 DEF CallsInv

\* The call that has walked: its event exists and its record is one of a call.
LEMMA Walked ==
  ASSUME IInv, NEW t \in Threads, call[t].walked
  PROVE  /\ call[t].event \in known /\ call[t].event \in events /\ call[t].event \in Events
         /\ call[t].at \in Cells \cup {NULL}
         /\ mutex[Mode(call[t].event)] = t
         /\ Mode(call[t].event) \in Modes /\ Mode(call[t].event) # "cond"
BY DEF IInv, TypeOK, CallsInv, CallInv, NoCall, Mode, Modes

\* A call that returns is of its type.
LEMMA ReturnTypes ==
  ASSUME TypeOK, NEW t \in Threads, Return(t)
  PROVE  call' \in [Threads -> [op : {"none", "add", "remove", "free"},
                               event : Events \cup {NULL},
                               walked : BOOLEAN, at : Cells \cup {NULL}]]
<1>1. NoCall \in [op : {"none", "add", "remove", "free"}, event : Events \cup {NULL},
                 walked : BOOLEAN, at : Cells \cup {NULL}]
  BY DEF NoCall
<1> QED
  BY <1>1, CallTypes DEF Return

\* socketAddEvent: the list has one more cell, and the event is registered.
LEMMA AddStep ==
  ASSUME IInv, NEW t \in Threads, Add(t)
  PROVE  /\ IInv'
         /\ call[t].event \in Events
         /\ broken' = broken
         /\ broken = {} => Registered' = Registered \cup {call[t].event}
<1> DEFINE e == call[t].event
           m == Mode(e)
<1>1. /\ call[t].walked /\ call[t].op = "add" /\ Return(t) /\ Unlock(m)
      /\ UNCHANGED <<eventVars, calls, term, netVars, crash>>
  BY DEF Add
<1>2. e \in known /\ e \in events /\ e \in Events /\ m \in Modes /\ m # "cond"
  BY <1>1, Walked
<1> HIDE DEF e, m
<1>e. e = call[t].event /\ m = Mode(e)
  BY DEF e, m
<1>3. \E x, k : x = e /\ k = m
  OBVIOUS
<1>4. PICK x, k : x = e /\ k = m
  BY <1>3
<1>5. PICK q \in Cells \ cells :
           /\ cells' = cells \cup {q}
           /\ of' = [of EXCEPT ![q] = x]
           /\ broken' = broken /\ k \notin broken
           /\ head' \in [Modes -> Cells \cup {NULL}]
           /\ next' \in [Cells -> Cells \cup {NULL}]
           /\ Ends(next', head'[k])
           /\ OnList(k)' = OnList(k) \cup {q}
           /\ \A j \in (Modes \ broken) \ {k} :
                /\ Ends(next', head'[j]) /\ OnList(j)' = OnList(j)
                /\ \A c \in OnList(j) : next'[c] = next[c]
  BY <1>e, <1>4, AddLists
<1>6. TypeOK'
  <2>1. mutex' = [mutex EXCEPT ![m] = "free"]
    BY <1>1 DEF Unlock
  <2>2. mutex' \in [Modes \cup {"cond"} -> Threads \cup {"free"}]
    BY <2>1 DEF IInv, TypeOK
  <2>3. of' \in [Cells -> Events \cup {NULL}] /\ cells' \subseteq Cells
    BY <1>2, <1>4, <1>5 DEF IInv, TypeOK
  <2> QED
    BY <1>1, <1>5, <2>2, <2>3, ReturnTypes DEF IInv, TypeOK, eventVars, netVars
<1>7. /\ \A j \in Modes \ broken : q \notin OnList(j) /\ \A c \in OnList(j) : of'[c] = of[c]
      /\ of'[q] = x
  BY <1>5 DEF IInv, ListsInv, TypeOK
<1>8. ListsInv'
  <2>1. ASSUME NEW j \in Modes \ broken, NEW c \in OnList(j)'
        PROVE  c \in cells' /\ of'[c] \in events' /\ Mode(of'[c]) = j
    BY <1>1, <1>2, <1>e, <1>4, <1>5, <1>7, <2>1 DEF IInv, ListsInv, eventVars
  <2>3. \A j \in Modes \ broken : Ends(next', head'[j])
    BY <1>5
  <2> QED
    BY <1>5, <2>1, <2>3 DEF ListsInv
<1>9. CallsInv'
  <2>1. \A j \in Modes \ {k} : mutex'[j] = mutex[j]
    BY <1>1, <1>4 DEF Unlock, IInv, TypeOK
  <2>3. known' = known
    BY <1>1 DEF eventVars
  <2> QED
    BY <1>1, <1>e, <1>4, <1>5, <1>6, <1>7, <2>1, <2>3, ReturnStep
<1>11. Locked'
  <2>1. \A j \in Modes \ {k} : mutex'[j] = mutex[j]
    BY <1>1, <1>4 DEF Unlock, IInv, TypeOK
  <2> QED
    BY <1>1, <1>e, <1>4, <1>5, <2>1, ReturnLocks
<1>10. broken = {} => Registered' = Registered \cup {e}
  <2> SUFFICES ASSUME broken = {} PROVE Registered' = Registered \cup {e}
    OBVIOUS
  <2>1. \A j \in Modes \ {k} : {of'[c] : c \in OnList(j)'} = {of[c] : c \in OnList(j)}
    BY <1>5, <1>7
  <2>2. {of'[c] : c \in OnList(k)'} = {of[c] : c \in OnList(k)} \cup {x}
    BY <1>2, <1>4, <1>5, <1>7
  <2> QED
    BY <1>2, <1>4, <2>1, <2>2, RegisteredOnList DEF Modes
<1> QED
  BY <1>2, <1>5, <1>6, <1>8, <1>9, <1>10, <1>11 DEF IInv, e

\* socketRemoveEvent and socketFreeEvent: the event is registered no more or still,
\* whether it was or not, unless its list breaks, on which it then was.
LEMMA RemoveStep ==
  ASSUME IInv, NEW t \in Threads, Remove(t)
  PROVE  /\ IInv'
         /\ call[t].event \in Events
         /\ broken' = {} => Registered' \in {Registered, Registered \ {call[t].event}}
         /\ broken = {} /\ broken' # {} => call[t].event \in Registered
<1> DEFINE e == call[t].event
           m == Mode(e)
<1>1. /\ call[t].walked /\ Return(t) /\ Unregister(e, call[t].at)
      /\ events' = IF call[t].op = "free" THEN events \ {e} ELSE events
      /\ known' = IF call[t].op = "free" THEN known \ {e} ELSE known
      /\ UNCHANGED <<of, calls, term, netVars, crash>>
  BY DEF Remove, Forget
<1>2. e \in known /\ e \in events /\ e \in Events /\ m \in Modes /\ m # "cond"
  BY <1>1, Walked
<1>3. mutex' = mutex \/ mutex' = [mutex EXCEPT ![m] = "free"]
  BY <1>1 DEF Unregister, Unlock
<1> HIDE DEF e, m
<1>e. e = call[t].event /\ m = Mode(e)
  BY DEF e, m
<1>4. PICK x, k : x = e /\ k = m
  OBVIOUS
<1> DEFINE R == {c \in OnList(k) : of[c] = x}
<1>5. PICK Z \in SUBSET R :
        /\ cells' \subseteq cells /\ cells \ Z \subseteq cells'
        /\ k \notin broken /\ broken' \in {broken, broken \cup {k}}
        /\ head' \in [Modes -> Cells \cup {NULL}]
        /\ next' \in [Cells -> Cells \cup {NULL}]
        /\ k \in broken' => mutex' = mutex /\ Z # {}
        /\ k \notin broken' =>
             /\ Ends(next', head'[k]) /\ OnList(k)' = OnList(k) \ Z
             /\ call[t].op = "free" => Z = R
        /\ \A j \in (Modes \ broken) \ {k} :
             /\ Ends(next', head'[j]) /\ OnList(j)' = OnList(j)
             /\ \A c \in OnList(j) : next'[c] = next[c]
  BY <1>e, <1>4, RemoveLists
<1>6. TypeOK'
  <2>1. mutex' \in [Modes \cup {"cond"} -> Threads \cup {"free"}]
    BY <1>3 DEF IInv, TypeOK
  <2>2. /\ events' \subseteq Events /\ known' \subseteq events' /\ cells' \subseteq Cells
        /\ broken' \subseteq Modes
    BY <1>1, <1>2, <1>4, <1>5 DEF IInv, TypeOK
  <2> QED
    BY <1>1, <1>5, <2>1, <2>2, ReturnTypes DEF IInv, TypeOK, netVars
<1>7. \A j \in (Modes \ broken) \ {k} : \A c \in OnList(j) : of[c] # x
  BY <1>e, <1>4 DEF IInv, ListsInv
<1>8. \A j \in Modes \ broken' : j \in Modes \ broken
  BY <1>5
<1>9. ListsInv'
  <2>1. ASSUME NEW j \in Modes \ broken', NEW c \in OnList(j)'
        PROVE  c \in cells' /\ of'[c] \in events' /\ Mode(of'[c]) = j
    <3>1. c \in OnList(j) /\ c \notin Z
      BY <1>5, <1>7, <1>8
    <3>2. call[t].op = "free" => of[c] # x
      BY <1>5, <1>7, <1>8, <3>1
    <3> QED
      BY <1>1, <1>4, <1>5, <1>8, <3>1, <3>2 DEF IInv, ListsInv
  <2>2. \A j \in Modes \ broken' : Ends(next', head'[j])
    BY <1>5, <1>8
  <2> QED
    BY <2>1, <2>2 DEF ListsInv
<1>10. CallsInv'
  <2>1. \A j \in Modes \ {k} : mutex'[j] = mutex[j]
    BY <1>3, <1>4 DEF IInv, TypeOK
  <2>3. known \ {x} \subseteq known'
    BY <1>1, <1>4
  <2>4. \A j \in (Modes \ broken) \ {k} : \A c \in OnList(j) : of'[c] = of[c]
    BY <1>1
  <2> QED
    BY <1>1, <1>e, <1>4, <1>5, <1>6, <2>1, <2>3, <2>4, ReturnStep
<1>11. Locked'
  <2>1. \A j \in Modes \ {k} : mutex'[j] = mutex[j]
    BY <1>3, <1>4 DEF IInv, TypeOK
  <2> QED
    BY <1>1, <1>e, <1>4, <1>5, <2>1, ReturnLocks
<1>12. ASSUME broken' = {} PROVE Registered' \in {Registered, Registered \ {e}}
  <2>1. \A j \in Modes \ {k} : {of'[c] : c \in OnList(j)'} = {of[c] : c \in OnList(j)}
                               /\ x \notin {of[c] : c \in OnList(j)}
    <3> TAKE j \in Modes \ {k}
    <3>1. broken = {} /\ j \in (Modes \ broken) \ {k}
      BY <1>5, <1>12
    <3> QED
      BY <1>1, <1>5, <1>7, <3>1
  <2> DEFINE Old == {of[c] : c \in OnList(k)}
             New == {of'[c] : c \in OnList(k)'}
  <2>2. OnList(k)' = OnList(k) \ Z
    BY <1>5, <1>12
  <2>3. New \subseteq Old /\ \A f \in Old : f # x => f \in New
    BY <1>1, <2>2
  <2>4. New = Old \/ New = Old \ {x}
    <3> HIDE DEF Old, New
    <3> QED
      BY <2>3
  <2> DEFINE l == CHOOSE j \in Modes : j # k
  <2>5. Modes = {k, l} /\ l \in Modes \ {k}
    BY <1>2, <1>4 DEF Modes
  <2>6. Registered = Old \cup {of[c] : c \in OnList(l)}
        /\ Registered' = New \cup {of'[c] : c \in OnList(l)'}
    <3>1. (k = "in" /\ l = "out") \/ (k = "out" /\ l = "in")
      BY <1>2, <1>4, <2>5 DEF Modes
    <3> HIDE DEF l
    <3> QED
      BY <3>1, RegisteredOnList
  <2> HIDE DEF Old, New, l
  <2> QED
    BY <1>4, <2>1, <2>4, <2>5, <2>6
<1>13. ASSUME broken = {}, broken' # {} PROVE e \in Registered
  <2>1. PICK c \in OnList(k) : of[c] = x
    BY <1>5, <1>13
  <2> QED
    BY <1>2, <1>4, <2>1, RegisteredOnList DEF Modes
<1> QED
  BY <1>2, <1>6, <1>9, <1>10, <1>11, <1>12, <1>13 DEF IInv, e

\* A new loop has two empty lists, no call and every mutex free.
LEMMA InitInv ==
  ASSUME Init
  PROVE  IInv
<1>1. TypeOK
  <2>1. NoCall \in [op : {"none", "add", "remove", "free"}, event : Events \cup {NULL},
                   walked : BOOLEAN, at : Cells \cup {NULL}]
    BY DEF NoCall
  <2>2. call \in [Threads -> [op : {"none", "add", "remove", "free"},
                             event : Events \cup {NULL},
                             walked : BOOLEAN, at : Cells \cup {NULL}]]
    BY <2>1 DEF Init
  <2>3. calls \in [Threads -> 0..CallsMax]
    BY EventLoopAssumption DEF Init
  <2>4. /\ head \in [Modes -> Cells \cup {NULL}]
        /\ next \in [Cells -> Cells \cup {NULL}]
        /\ of \in [Cells -> Events \cup {NULL}]
        /\ mutex \in [Modes \cup {"cond"} -> Threads \cup {"free"}]
        /\ active \in [Modes -> SUBSET Sockets] /\ ready \in [Modes -> SUBSET Sockets]
    BY DEF Init
  <2> QED
    BY <2>2, <2>3, <2>4 DEF Init, TypeOK, Modes
<1>2. \A m \in Modes : Ends(next, head[m]) /\ OnList(m) = {}
  BY EndsNull DEF Init, OnList
<1>3. ListsInv
  BY <1>2 DEF ListsInv
<1>4. CallsInv /\ Locked
  BY DEF Init, CallsInv, CallInv, NoCall, Locked
<1> QED
  BY <1>1, <1>3, <1>4 DEF IInv

\* Every step keeps the invariant, and as long as no list broke, no step but a change
\* of the lists changes which events are registered.
LEMMA NextInv ==
  ASSUME IInv, [Next]_vars
  PROVE  /\ IInv'
         /\ broken = {} =>
              \/ Registered' = Registered /\ broken' = {}
              \/ \E e \in Events : Registry!Register(e) \/ Registry!Unregister(e)
                                   \/ Registry!Break(e)
<1>1. UNCHANGED listVars => Registered' = Registered /\ broken' = broken
  BY RegisteredOnList DEF OnList, listVars
<1>2. ASSUME NEW t \in Threads, NEW op \in {"add", "remove", "free"}, NEW e \in Events,
             Call(t, op, e)
      PROVE  IInv' /\ UNCHANGED listVars
  BY <1>2, CallStep
<1>3. ASSUME NEW t \in Threads, Walk(t) PROVE IInv' /\ UNCHANGED listVars
  BY <1>3, WalkStep
<1>4. ASSUME NEW t \in Threads, Add(t)
      PROVE  /\ IInv'
             /\ broken = {} => \/ Registered' = Registered /\ broken' = {}
                              \/ \E e \in Events : Registry!Register(e)
  <2>1. /\ IInv' /\ call[t].event \in Events /\ broken' = broken
        /\ broken = {} => Registered' = Registered \cup {call[t].event}
    BY <1>4, AddStep
  <2>2. CASE call[t].event \in Registered
    BY <2>1, <2>2
  <2>3. CASE call[t].event \notin Registered
    BY <2>1, <2>3 DEF Registry!Register
  <2> QED
    BY <2>2, <2>3
<1>5. ASSUME NEW t \in Threads, Remove(t)
      PROVE  /\ IInv'
             /\ broken = {} => \/ Registered' = Registered /\ broken' = {}
                              \/ \E e \in Events : Registry!Unregister(e) \/ Registry!Break(e)
  <2>1. /\ IInv' /\ call[t].event \in Events
        /\ broken' = {} => Registered' \in {Registered, Registered \ {call[t].event}}
        /\ broken = {} /\ broken' # {} => call[t].event \in Registered
    BY <1>5, RemoveStep
  <2>2. CASE broken' = {} /\ Registered' = Registered
    BY <2>1, <2>2
  <2>3. CASE broken' = {} /\ Registered' # Registered
    BY <2>1, <2>3 DEF Registry!Unregister
  <2>4. CASE broken' # {}
    BY <2>1, <2>4 DEF Registry!Break
  <2> QED
    BY <2>2, <2>3, <2>4
<1>6. CASE \/ \E e \in Events : Create(e)
           \/ \E t \in Threads : CallUnset(t)
           \/ Exit
           \/ Start \/ Select \/ SelectFails \/ \E s \in Sockets : Handle(s)
           \/ Returned \/ Handled \/ Check
           \/ UNCHANGED vars
  BY <1>1, <1>6, OtherSteps
<1> QED
  BY <1>1, <1>2, <1>3, <1>4, <1>5, <1>6 DEF Next

\* The invariant says what the runs check of the lists: no walk is endless.
LEMMA InvIntact ==
  ASSUME IInv
  PROVE  ListsIntact
<1>1. ASSUME NEW m \in Modes \ broken, NEW c \in OnList(m)
      PROVE  /\ c \in cells /\ of[c] \in events
             /\ c \notin Following(next[c])
             /\ Mode(of[c]) = m
  <2>1. c \notin Along(next, next[c])
    BY EndsBehind DEF IInv, ListsInv, OnList
  <2> QED
    BY <2>1, FollowingAlong DEF IInv, ListsInv
<1> QED
  BY <1>1, ListOnList DEF ListsIntact

\* The invariant holds throughout.
LEMMA IInvHolds == Spec => []IInv
<1>1. Init => IInv
  BY InitInv
<1>2. IInv /\ [Next]_vars => IInv'
  BY NextInv
<1> QED
  BY <1>1, <1>2, PTL DEF Spec

\* Every variable keeps its type, for every number of events, cells and calls.
THEOREM LoopTyped == Spec => []TypeOK
<1>1. IInv => TypeOK
  BY DEF IInv
<1> QED
  BY <1>1, IInvHolds, PTL

\* Whatever the two threads add, remove and free, and however their steps mix, both
\* lists stay free of cycles, of freed cells, of freed events and of events of the
\* other mode, unless an event that was twice in front of its list was removed or one
\* that was twice on it was freed (socketAddEvent, socketRemoveEvent).
THEOREM ListsStayIntact == Spec => []ListsIntact
<1>1. IInv => ListsIntact
  BY InvIntact
<1> QED
  BY <1>1, IInvHolds, PTL

\* The two lists and their mutexes implement a set of events to which one call adds
\* and from which one call removes a single event or none, until a removal of a
\* registered event breaks a list.
THEOREM LoopImplementsRegistry == Spec => RegistrySpec
<1>1. Init => Registry!Init
  <2> SUFFICES ASSUME Init PROVE Registry!Init
    OBVIOUS
  <2>1. \A m \in Modes : OnList(m) = {}
    BY EndsNull DEF Init, OnList
  <2>2. Registered = {} /\ broken = {}
    BY <2>1, RegisteredOnList DEF Modes, Init
  <2> QED
    BY <2>2 DEF Registry!Init
<1>2. IInv /\ [Next]_vars
        => [(broken = {}) => Registry!Next]_<<Registered, broken = {}>>
  BY NextInv DEF Registry!Next
<1> QED
  BY <1>1, <1>2, IInvHolds, PTL DEF Spec, RegistrySpec, Registry!Spec
==============================================================================
