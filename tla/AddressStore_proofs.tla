------------------------- MODULE AddressStore_proofs -------------------------
(***************************************************************************)
(* That the address store is sound in every state, and what a selection of *)
(* addresses has, for any buckets, keys, times and finite memory.          *)
(***************************************************************************)
EXTENDS AddressStore, Induction, FiniteSetTheorems, SequenceTheorems

\* The objects a bucket points to; it points to none of them twice.
ObjsIn(s) == {s[i].obj : i \in 1 .. Len(s)}
Once(s)   == \A i, j \in 1 .. Len(s) : s[i].obj = s[j].obj => i = j

\* An object is in one slot, or the communicator holds its address, or neither.
Apart ==
  /\ \A b \in Buckets : Once(buckets[b])
  /\ \A b, c \in Buckets : b # c => ObjsIn(buckets[b]) \cap ObjsIn(buckets[c]) = {}
  /\ \A e, f \in out : e.obj = f.obj => e = f
  /\ \A e \in out, b \in Buckets : e.obj \notin ObjsIn(buckets[b])

\* Each object counts the locators that point to it, and who has its address.
Named(o) == (\E e \in out : e.obj = o) \/ (\E b \in Buckets : o \in ObjsIn(buckets[b]))
RefsCover == \A o \in Objs : Cardinality(Held(o)) + (IF Named(o) THEN 1 ELSE 0) <= refs[o]

\* Of two locators into one bucket the later points below the earlier, so that
\* the removal of what the earlier points to does not move it.
Descending ==
  start # 0 => \A i, j \in 1 .. Len(locs) :
    i < j /\ locs[i].bucket = locs[j].bucket => locs[j].at < locs[i].at

IInv == TypeOK /\ Ordered /\ Apart /\ RefsCover /\ Pointing /\ Descending

-----------------------------------------------------------------------------
(* Sequences *)

\* The least number of a set.
LEMMA MinIsLeast ==
  ASSUME NEW I \in SUBSET Nat, I # {}
  PROVE  Min(I) \in I /\ \A k \in I : Min(I) <= k
<1>1. \E x \in I : \A y \in I : x =< y
  BY LeastNumber
<1> QED
  BY <1>1 DEF Min

\* A sequence into which e was put.
LEMMA InsertAtIs ==
  ASSUME NEW S, NEW s \in Seq(S), NEW e \in S, NEW i \in 1 .. Len(s) + 1
  PROVE  /\ InsertAt(s, i, e) \in Seq(S) /\ Len(InsertAt(s, i, e)) = Len(s) + 1
         /\ \A j \in 1 .. Len(s) + 1 :
              InsertAt(s, i, e)[j] = IF j < i THEN s[j] ELSE IF j = i THEN e ELSE s[j - 1]
<1> DEFINE l == SubSeq(s, 1, i - 1)
           r == SubSeq(s, i, Len(s))
<1>1. /\ l \in Seq(S) /\ Len(l) = i - 1 /\ \A j \in 1 .. i - 1 : l[j] = s[j]
  OBVIOUS
<1>2. /\ r \in Seq(S) /\ Len(r) = Len(s) - i + 1
      /\ \A j \in 1 .. Len(s) - i + 1 : r[j] = s[i + j - 1]
  OBVIOUS
<1> DEFINE m == l \o <<e>>
           t == m \o r
<1> HIDE DEF l, r
<1>3. /\ m \in Seq(S) /\ Len(m) = i /\ m[i] = e /\ \A j \in 1 .. i - 1 : m[j] = s[j]
  BY <1>1
<1> HIDE DEF m
<1>4. /\ t \in Seq(S) /\ Len(t) = Len(s) + 1
      /\ \A j \in 1 .. i : t[j] = m[j]
      /\ \A j \in 1 .. Len(s) - i + 1 : t[i + j] = r[j]
  BY <1>2, <1>3
<1>5. t = InsertAt(s, i, e)
  BY DEF InsertAt, l, r, m
<1> HIDE DEF t
<1>6. ASSUME NEW j \in 1 .. Len(s) + 1
      PROVE  t[j] = IF j < i THEN s[j] ELSE IF j = i THEN e ELSE s[j - 1]
  <2>1. CASE j < i
    BY <1>3, <1>4, <2>1
  <2>2. CASE j = i
    BY <1>3, <1>4, <2>2
  <2>3. CASE j > i
    <3>1. j - i \in 1 .. Len(s) - i + 1 /\ i + (j - i) = j /\ i + (j - i) - 1 = j - 1
      BY <2>3
    <3>2. t[i + (j - i)] = r[j - i] /\ r[j - i] = s[i + (j - i) - 1]
      BY <1>2, <1>4, <3>1
    <3> QED
      BY <2>3, <3>1, <3>2
  <2> QED
    BY <2>1, <2>2, <2>3
<1> QED
  BY <1>4, <1>5, <1>6

\* A sequence from which an element was taken.
LEMMA RemoveAtIs ==
  ASSUME NEW S, NEW s \in Seq(S), NEW i \in 1 .. Len(s)
  PROVE  /\ RemoveAt(s, i) \in Seq(S) /\ Len(RemoveAt(s, i)) = Len(s) - 1
         /\ \A j \in 1 .. Len(s) - 1 : RemoveAt(s, i)[j] = IF j < i THEN s[j] ELSE s[j + 1]
<1> DEFINE l == SubSeq(s, 1, i - 1)
           r == SubSeq(s, i + 1, Len(s))
<1>1. /\ l \in Seq(S) /\ Len(l) = i - 1 /\ \A j \in 1 .. i - 1 : l[j] = s[j]
  OBVIOUS
<1>2. /\ r \in Seq(S) /\ Len(r) = Len(s) - i
      /\ \A j \in 1 .. Len(s) - i : r[j] = s[i + j]
  OBVIOUS
<1> DEFINE t == l \o r
<1> HIDE DEF l, r
<1>3. /\ t \in Seq(S) /\ Len(t) = Len(s) - 1
      /\ \A j \in 1 .. i - 1 : t[j] = l[j]
      /\ \A j \in 1 .. Len(s) - i : t[i - 1 + j] = r[j]
  <2>0. Len(s) \in Nat
    OBVIOUS
  <2>1. t \in Seq(S) /\ Len(t) = Len(l) + Len(r)
    BY <1>1, <1>2, ConcatProperties, Zenon
  <2>4. Len(l) + Len(r) = Len(s) - 1
    BY <1>1, <1>2, <2>0
  <2>2. \A j \in 1 .. Len(l) : t[j] = l[j]
    BY <1>1, <1>2
  <2>3. \A j \in 1 .. Len(r) : t[Len(l) + j] = r[j]
    BY <1>1, <1>2
  <2> QED
    BY <1>1, <1>2, <2>1, <2>2, <2>3, <2>4
<1>4. t = RemoveAt(s, i)
  BY DEF RemoveAt, l, r
<1> HIDE DEF t
<1>5. ASSUME NEW j \in 1 .. Len(s) - 1
      PROVE  t[j] = IF j < i THEN s[j] ELSE s[j + 1]
  <2>1. CASE j < i
    BY <1>1, <1>3, <2>1
  <2>2. CASE ~(j < i)
    <3>1. j - i + 1 \in 1 .. Len(s) - i /\ i - 1 + (j - i + 1) = j /\ i + (j - i + 1) = j + 1
      BY <2>2
    <3>2. t[i - 1 + (j - i + 1)] = r[j - i + 1] /\ r[j - i + 1] = s[i + (j - i + 1)]
      BY <1>2, <1>3, <3>1
    <3> QED
      BY <2>2, <3>1, <3>2
  <2> QED
    BY <2>1, <2>2
<1> QED
  BY <1>3, <1>4, <1>5

-----------------------------------------------------------------------------
(* One bucket *)

\* The addresses of a bucket are ordered by time and belong in it.
InOrder(s, b) ==
  \A i \in 1 .. Len(s) :
    /\ BucketOf[s[i].key] = b
    /\ \A j \in i .. Len(s) : s[i].time <= s[j].time

\* An address of time t may go to place `at' of s.
Fits(s, at, t) ==
  /\ at \in 1 .. Len(s) + 1
  /\ \A i \in 1 .. Len(s) : IF i < at THEN s[i].time <= t ELSE t <= s[i].time

\* What a bucket points to.
LEMMA AddressTypes ==
  ASSUME NEW s \in Seq(Address)
  PROVE  /\ Len(s) \in Nat
         /\ \A i \in 1 .. Len(s) : s[i] \in Address /\ s[i].time \in Nat /\ s[i].obj \in Objs
<1>1. Times \subseteq Nat
  BY StoreAssumption
<1>2. \A a \in Address : a.time \in Times /\ a.obj \in Objs
  BY DEF Address
<1>3. Len(s) \in Nat /\ \A i \in 1 .. Len(s) : s[i] \in Address
  OBVIOUS
<1> QED
  BY <1>1, <1>2, <1>3

\* The place that is searched for fits.
LEMMA PlaceFits ==
  ASSUME NEW s \in Seq(Address), NEW b, InOrder(s, b), NEW t \in Times
  PROVE  Fits(s, Place(s, t), t)
<1> DEFINE I == {i \in 1 .. Len(s) : s[i].time > t}
           later == SelectInSeq(s, LAMBDA e : e.time > t)
<1>0. /\ Len(s) \in Nat /\ t \in Nat
      /\ \A i \in 1 .. Len(s) : s[i].time \in Nat
  <2>1. t \in Nat
    BY StoreAssumption
  <2> QED
    BY <2>1, AddressTypes
<1>1. later = IF I # {} THEN Min(I) ELSE 0
  BY DEF SelectInSeq
<1>2. I \in SUBSET Nat
  OBVIOUS
<1>3. CASE I = {}
  <2>1. Place(s, t) = Len(s) + 1
    BY <1>1, <1>3 DEF Place
  <2>2. \A i \in 1 .. Len(s) : s[i].time <= t
    BY <1>0, <1>3
  <2> HIDE DEF I, later
  <2> QED
    BY <1>0, <2>1, <2>2 DEF Fits
<1>4. CASE I # {}
  <2> DEFINE m == Min(I)
  <2>1. m \in I /\ \A k \in I : m <= k
    BY <1>2, <1>4, MinIsLeast
  <2>2. Place(s, t) = m
    <3>1. later = m
      BY <1>1, <1>4
    <3>2. m # 0
      BY <2>1
    <3> HIDE DEF later, m
    <3> QED
      BY <3>1, <3>2 DEF Place, later
  <2> HIDE DEF m
  <2>3. ASSUME NEW i \in 1 .. Len(s)
        PROVE  IF i < m THEN s[i].time <= t ELSE t <= s[i].time
    <3>1. CASE i < m
      <4>1. i \notin I
        BY <2>1, <3>1
      <4> QED
        BY <1>0, <3>1, <4>1
    <3>2. CASE ~(i < m)
      <4>1. m \in 1 .. Len(s) /\ i \in m .. Len(s) /\ s[m].time > t
        BY <2>1, <3>2
      <4>2. s[m].time <= s[i].time
        BY <4>1 DEF InOrder
      <4> QED
        BY <1>0, <3>2, <4>1, <4>2
    <3> QED
      BY <3>1, <3>2
  <2>4. m \in 1 .. Len(s) + 1
    BY <2>1
  <2> QED
    BY <2>2, <2>3, <2>4 DEF Fits
<1> QED
  BY <1>3, <1>4

\* A bucket is still ordered with an address at a place that fits, and points to
\* one object more.
LEMMA InsertKeeps ==
  ASSUME NEW s \in Seq(Address), NEW b, InOrder(s, b), NEW e \in Address, BucketOf[e.key] = b,
         NEW at, Fits(s, at, e.time)
  PROVE  /\ InsertAt(s, at, e) \in Seq(Address)
         /\ InOrder(InsertAt(s, at, e), b)
         /\ ObjsIn(InsertAt(s, at, e)) = ObjsIn(s) \cup {e.obj}
         /\ Once(s) /\ e.obj \notin ObjsIn(s) => Once(InsertAt(s, at, e))
<1> DEFINE n == Len(s)
           t == InsertAt(s, at, e)
           was(j) == IF j < at THEN j ELSE j - 1
<1>1. n \in Nat /\ at \in 1 .. n + 1
  BY DEF Fits
<1>2. /\ t \in Seq(Address) /\ Len(t) = n + 1
      /\ \A j \in 1 .. n + 1 : t[j] = IF j < at THEN s[j] ELSE IF j = at THEN e ELSE s[j - 1]
  <2>1. at \in 1 .. Len(s) + 1
    BY <1>1
  <2>2. /\ InsertAt(s, at, e) \in Seq(Address) /\ Len(InsertAt(s, at, e)) = Len(s) + 1
        /\ \A j \in 1 .. Len(s) + 1 :
             InsertAt(s, at, e)[j] = IF j < at THEN s[j] ELSE IF j = at THEN e ELSE s[j - 1]
    BY <2>1, InsertAtIs, SMTT(20)
  <2> HIDE DEF t, n
  <2> QED
    BY <2>2, Zenon DEF t, n
<1> HIDE DEF t
<1>3. \A j \in 1 .. n + 1 : j = at \/ (j # at /\ was(j) \in 1 .. n /\ t[j] = s[was(j)])
  BY <1>1, <1>2
<1>4. t[at] = e
  BY <1>1, <1>2
<1>5. /\ e.time \in Nat
      /\ \A i \in 1 .. n : s[i].time \in Nat
  <2>1. e.time \in Nat
    BY StoreAssumption DEF Address
  <2> QED
    BY <2>1, AddressTypes
<1>6. \A i, j \in 1 .. n : i <= j => s[i].time <= s[j].time
  BY <1>1 DEF InOrder
<1>7. \A i \in 1 .. n : BucketOf[s[i].key] = b
  BY DEF InOrder
<1>8. \A i \in 1 .. n : IF i < at THEN s[i].time <= e.time ELSE e.time <= s[i].time
  BY DEF Fits
<1> HIDE DEF n
<1>9. ASSUME NEW i \in 1 .. n + 1 PROVE BucketOf[t[i].key] = b
  BY <1>3, <1>4, <1>7
<1>10. ASSUME NEW i \in 1 .. n + 1, NEW j \in i .. n + 1 PROVE t[i].time <= t[j].time
  <2>0. j \in 1 .. n + 1 /\ i <= j
    BY <1>1
  <2>1. CASE i = at /\ j = at
    BY <1>4, <1>5, <2>1
  <2>2. CASE i = at /\ j # at
    <3>1. was(j) \in 1 .. n /\ t[j] = s[was(j)] /\ ~(was(j) < at)
      BY <1>1, <1>3, <2>0, <2>2
    <3> HIDE DEF was
    <3> QED
      BY <1>4, <1>8, <2>2, <3>1
  <2>3. CASE i # at /\ j = at
    <3>1. was(i) \in 1 .. n /\ t[i] = s[was(i)] /\ was(i) < at
      BY <1>1, <1>3, <2>0, <2>3
    <3> HIDE DEF was
    <3> QED
      BY <1>4, <1>8, <2>3, <3>1
  <2>4. CASE i # at /\ j # at
    <3>1. was(i) \in 1 .. n /\ t[i] = s[was(i)] /\ was(j) \in 1 .. n /\ t[j] = s[was(j)]
      BY <1>3, <2>0, <2>4
    <3>2. was(i) <= was(j)
      BY <1>1, <2>0
    <3> HIDE DEF was
    <3> QED
      BY <1>6, <3>1, <3>2
  <2> QED
    BY <2>1, <2>2, <2>3, <2>4
<1>11. InOrder(t, b)
  BY <1>2, <1>9, <1>10 DEF InOrder
<1> DEFINE now(i) == IF i < at THEN i ELSE i + 1
<1>12. \A i \in 1 .. n : now(i) \in 1 .. n + 1 /\ t[now(i)] = s[i]
  BY <1>1, <1>2
<1>13. ObjsIn(t) = ObjsIn(s) \cup {e.obj}
  <2>1. ASSUME NEW o \in ObjsIn(t) PROVE o \in ObjsIn(s) \cup {e.obj}
    <3>1. PICK j \in 1 .. n + 1 : o = t[j].obj
      BY <1>2 DEF ObjsIn
    <3> HIDE DEF was
    <3> QED
      BY <1>3, <1>4, <3>1 DEF ObjsIn, n
  <2>2. ASSUME NEW o \in ObjsIn(s) PROVE o \in ObjsIn(t)
    <3>1. PICK i \in 1 .. n : o = s[i].obj
      BY DEF ObjsIn, n
    <3> HIDE DEF now
    <3> QED
      BY <1>2, <1>12, <3>1 DEF ObjsIn
  <2>3. e.obj \in ObjsIn(t)
    BY <1>1, <1>2, <1>4 DEF ObjsIn
  <2> QED
    BY <2>1, <2>2, <2>3
<1>14. ASSUME Once(s), e.obj \notin ObjsIn(s) PROVE Once(t)
  <2>1. \A i \in 1 .. n : s[i].obj # e.obj
    BY <1>14 DEF ObjsIn, n
  <2>2. ASSUME NEW i \in 1 .. n + 1, NEW j \in 1 .. n + 1, t[i].obj = t[j].obj PROVE i = j
    <3>1. CASE i # at /\ j # at
      <4>1. was(i) = was(j)
        <5>1. was(i) \in 1 .. n /\ t[i] = s[was(i)] /\ was(j) \in 1 .. n /\ t[j] = s[was(j)]
          BY <1>3, <3>1
        <5> HIDE DEF was
        <5> QED
          BY <1>14, <2>2, <5>1 DEF Once, n
      <4> QED
        BY <1>1, <3>1, <4>1
    <3>2. CASE i = at \/ j = at
      <4> HIDE DEF was
      <4> QED
        BY <1>3, <1>4, <2>1, <2>2, <3>2
    <3> QED
      BY <3>1, <3>2
  <2> QED
    BY <1>2, <2>2 DEF Once
<1> QED
  BY <1>2, <1>11, <1>13, <1>14 DEF t

\* A bucket is still ordered without one of its addresses, and points to one
\* object less.
LEMMA RemoveKeeps ==
  ASSUME NEW s \in Seq(Address), NEW b, InOrder(s, b), Once(s), NEW gone \in 1 .. Len(s)
  PROVE  /\ RemoveAt(s, gone) \in Seq(Address)
         /\ InOrder(RemoveAt(s, gone), b)
         /\ ObjsIn(RemoveAt(s, gone)) = ObjsIn(s) \ {s[gone].obj}
         /\ Once(RemoveAt(s, gone))
<1> DEFINE n == Len(s)
           t == RemoveAt(s, gone)
           was(j) == IF j < gone THEN j ELSE j + 1
<1>1. n \in Nat /\ gone \in 1 .. n
  OBVIOUS
<1>2. /\ t \in Seq(Address) /\ Len(t) = n - 1
      /\ \A j \in 1 .. n - 1 : t[j] = IF j < gone THEN s[j] ELSE s[j + 1]
  BY RemoveAtIs, Zenon
<1> HIDE DEF t
<1>3. \A j \in 1 .. n - 1 : was(j) \in 1 .. n /\ was(j) # gone /\ t[j] = s[was(j)]
  BY <1>1, <1>2
<1>4. \A i, j \in 1 .. n : i <= j => s[i].time <= s[j].time
  BY <1>1 DEF InOrder
<1>5. \A i \in 1 .. n : BucketOf[s[i].key] = b
  BY DEF InOrder
<1>6. \A i, j \in 1 .. n : s[i].obj = s[j].obj => i = j
  BY DEF Once
<1> HIDE DEF n
<1>7. InOrder(t, b)
  <2>1. ASSUME NEW i \in 1 .. n - 1 PROVE BucketOf[t[i].key] = b
    BY <1>3, <1>5
  <2>2. ASSUME NEW i \in 1 .. n - 1, NEW j \in i .. n - 1 PROVE t[i].time <= t[j].time
    <3>1. j \in 1 .. n - 1 /\ was(i) <= was(j)
      BY <1>1
    <3> HIDE DEF was
    <3> QED
      BY <1>3, <1>4, <3>1
  <2> QED
    BY <1>2, <2>1, <2>2 DEF InOrder
<1>8. ObjsIn(t) = ObjsIn(s) \ {s[gone].obj}
  <2>1. ASSUME NEW o \in ObjsIn(t) PROVE o \in ObjsIn(s) /\ o # s[gone].obj
    <3>1. PICK j \in 1 .. n - 1 : o = t[j].obj
      BY <1>2 DEF ObjsIn
    <3> HIDE DEF was
    <3> QED
      BY <1>1, <1>3, <1>6, <3>1 DEF ObjsIn, n
  <2>2. ASSUME NEW o \in ObjsIn(s), o # s[gone].obj PROVE o \in ObjsIn(t)
    <3>1. PICK i \in 1 .. n : o = s[i].obj
      BY DEF ObjsIn, n
    <3>2. i # gone
      BY <2>2, <3>1
    <3> DEFINE j == IF i < gone THEN i ELSE i - 1
    <3>3. j \in 1 .. n - 1 /\ t[j] = s[i]
      BY <1>1, <1>2, <3>2
    <3> HIDE DEF j
    <3> QED
      BY <1>2, <3>1, <3>3 DEF ObjsIn
  <2> QED
    BY <2>1, <2>2
<1>9. Once(t)
  <2>1. ASSUME NEW i \in 1 .. n - 1, NEW j \in 1 .. n - 1, t[i].obj = t[j].obj PROVE i = j
    <3>1. was(i) = was(j)
      <4> HIDE DEF was
      <4> QED
        BY <1>3, <1>6, <2>1
    <3> QED
      BY <1>1, <3>1
  <2> QED
    BY <1>2, <2>1 DEF Once
<1> QED
  BY <1>2, <1>7, <1>8, <1>9 DEF t

\* A full bucket is still ordered after an address made room for another one, and
\* points to the object of that in place of the one that is gone.
LEMMA ReplaceKeeps ==
  ASSUME NEW s \in Seq(Address), NEW b, InOrder(s, b), Once(s), NEW gone \in 1 .. Len(s),
         NEW e \in Address, BucketOf[e.key] = b, e.obj \notin ObjsIn(s)
  PROVE  /\ Replaced(s, gone, e) \in Seq(Address)
         /\ InOrder(Replaced(s, gone, e), b)
         /\ ObjsIn(Replaced(s, gone, e)) = (ObjsIn(s) \ {s[gone].obj}) \cup {e.obj}
         /\ Once(Replaced(s, gone, e))
<1> DEFINE n == Len(s)
           r == RemoveAt(s, gone)
           at == Place(s, e.time)
           new == IF at > gone THEN at - 1 ELSE at
<1>1. /\ r \in Seq(Address) /\ InOrder(r, b) /\ Once(r)
      /\ ObjsIn(r) = ObjsIn(s) \ {s[gone].obj}
  BY RemoveKeeps
<1>2. Len(r) = n - 1 /\ \A j \in 1 .. n - 1 : r[j] = IF j < gone THEN s[j] ELSE s[j + 1]
  BY RemoveAtIs
<1>3. e.time \in Times
  BY DEF Address
<1>4. Fits(s, at, e.time)
  BY <1>3, PlaceFits
<1>5. Replaced(s, gone, e) = InsertAt(r, new, e)
  BY DEF Replaced
<1>6. n \in Nat /\ gone \in 1 .. n
  OBVIOUS
<1> HIDE DEF r, at
<1>7. Fits(r, new, e.time)
  <2>1. new \in 1 .. Len(r) + 1
    BY <1>2, <1>4, <1>6 DEF Fits
  <2>2. ASSUME NEW j \in 1 .. Len(r)
        PROVE  IF j < new THEN r[j].time <= e.time ELSE e.time <= r[j].time
    <3> DEFINE i == IF j < gone THEN j ELSE j + 1
    <3>1. i \in 1 .. n /\ r[j] = s[i]
      BY <1>2, <1>6
    <3>2. (j < new) <=> (i < at)
      BY <1>2, <1>4, <1>6 DEF Fits
    <3> HIDE DEF i, new
    <3> QED
      BY <1>4, <3>1, <3>2 DEF Fits
  <2> QED
    BY <2>1, <2>2 DEF Fits
<1> HIDE DEF new
<1>8. e.obj \notin ObjsIn(r)
  BY <1>1
<1>9. /\ InsertAt(r, new, e) \in Seq(Address)
      /\ InOrder(InsertAt(r, new, e), b)
      /\ ObjsIn(InsertAt(r, new, e)) = ObjsIn(r) \cup {e.obj}
      /\ Once(InsertAt(r, new, e))
  BY <1>1, <1>7, <1>8, InsertKeeps, Zenon
<1> QED
  BY <1>1, <1>5, <1>9, Zenon

\* The square of an index over the size is an index.
LEMMA GoneInRange ==
  ASSUME NEW n \in Nat, NEW r \in 0 .. n - 1
  PROVE  (r * r) \div n + 1 \in 1 .. n
<1>1. n > 0 /\ r * r >= 0 /\ r * r < n * n
  <2>1. n > 0 /\ 0 <= r /\ r <= n - 1 /\ r \in Int
    OBVIOUS
  <2>2. r * r <= r * (n - 1) /\ r * (n - 1) <= (n - 1) * (n - 1)
    BY <2>1
  <2>3. (n - 1) * (n - 1) < n * n
    BY <2>1
  <2> QED
    BY <2>1, <2>2, <2>3
<1> DEFINE q == r * r
<1>2. q \in Nat
  BY <1>1
<1> HIDE DEF q
<1>3. n * (q \div n) <= q /\ q \div n \in Nat
  BY <1>1, <1>2
<1>4. q \div n < n
  <2> DEFINE d == q \div n
  <2>1. d \in Nat /\ n * d < n * n
    BY <1>1, <1>3, <1>2 DEF q
  <2> HIDE DEF d
  <2>2. d < n
    BY <1>1, <2>1
  <2> QED
    BY <2>2 DEF d
<1> QED
  BY <1>3, <1>4 DEF q

-----------------------------------------------------------------------------
(* A bucket among the others *)

\* Where one bucket is another sequence.
LEMMA BucketChanged ==
  ASSUME IInv, NEW b \in Buckets, NEW s \in Seq(Address), InOrder(s, b), Once(s),
         buckets' = [buckets EXCEPT ![b] = s]
  PROVE  /\ buckets' \in [Buckets -> Seq(Address)]
         /\ Ordered'
         /\ \A c \in Buckets : Once(buckets'[c])
         /\ \A c \in Buckets : ObjsIn(buckets'[c]) = IF c = b THEN ObjsIn(s) ELSE ObjsIn(buckets[c])
<1>1. /\ buckets \in [Buckets -> Seq(Address)]
      /\ \A c \in Buckets : InOrder(buckets[c], c) /\ Once(buckets[c])
  BY DEF IInv, TypeOK, Ordered, InOrder, Apart
<1>2. /\ buckets' \in [Buckets -> Seq(Address)]
      /\ \A c \in Buckets : buckets'[c] = IF c = b THEN s ELSE buckets[c]
  BY <1>1
<1>3. \A c \in Buckets : InOrder(buckets'[c], c)
  BY <1>1, <1>2
<1>4. Ordered'
  BY <1>3 DEF Ordered, InOrder
<1> QED
  BY <1>1, <1>2, <1>4

\* As long as there are no locators, none is held.
LEMMA NoneHeld ==
  ASSUME NEW o, locs' = <<>>
  PROVE  Cardinality(Held(o)') = 0
<1>1. Held(o)' = {}
  BY DEF Held
<1> QED
  BY <1>1, FS_EmptySet

\* An address that nobody had, or that the communicator gives back, is added.
LEMMA InsertSafe ==
  ASSUME IInv, locs' = <<>>, NEW e \in Address, NEW n \in Nat, n >= 1, Insert(e, n),
         \A b \in Buckets : e.obj \notin ObjsIn(buckets[b]),
         out' \subseteq out, \A f \in out' : f.obj # e.obj
  PROVE  /\ buckets' \in [Buckets -> Seq(Address)] /\ refs' \in [Objs -> Nat]
         /\ Ordered' /\ Apart' /\ RefsCover'
<1> DEFINE b == BucketOf[e.key]
           s == buckets[b]
<1>1. b \in Buckets /\ e.obj \in Objs /\ e.time \in Times
  BY StoreAssumption DEF Address
<1>2. /\ buckets \in [Buckets -> Seq(Address)] /\ refs \in [Objs -> Nat]
      /\ s \in Seq(Address) /\ InOrder(s, b) /\ Once(s)
  BY <1>1 DEF IInv, TypeOK, Ordered, InOrder, Apart
<1>3. PICK x, gone :
        /\ \/ x = {} /\ refs' = [refs EXCEPT ![e.obj] = n]
           \/ x = {gone} /\ gone \in ObjsIn(s) /\ refs' = [refs EXCEPT ![e.obj] = n, ![gone] = @ - 1]
        /\ \E t \in Seq(Address) :
             /\ buckets' = [buckets EXCEPT ![b] = t] /\ InOrder(t, b) /\ Once(t)
             /\ ObjsIn(t) = (ObjsIn(s) \ x) \cup {e.obj}
  <2>1. CASE Len(s) = maxAddresses
    <3>1. PICK r \in 0 .. Len(s) - 1 :
            LET gone == (r * r) \div Len(s) + 1
            IN /\ buckets' = [buckets EXCEPT ![b] = Replaced(s, gone, e)]
               /\ refs' = [refs EXCEPT ![e.obj] = n, ![s[gone].obj] = @ - 1]
      BY <2>1 DEF Insert
    <3> DEFINE g == (r * r) \div Len(s) + 1
    <3>2. Len(s) \in Nat
      BY <1>2
    <3>3. g \in 1 .. Len(s)
      BY <3>2, GoneInRange
    <3>4. buckets' = [buckets EXCEPT ![b] = Replaced(s, g, e)]
          /\ refs' = [refs EXCEPT ![e.obj] = n, ![s[g].obj] = @ - 1]
      BY <3>1
    <3> HIDE DEF g
    <3>5. e.obj \notin ObjsIn(s)
      BY <1>1
    <3>6. /\ Replaced(s, g, e) \in Seq(Address) /\ InOrder(Replaced(s, g, e), b)
          /\ ObjsIn(Replaced(s, g, e)) = (ObjsIn(s) \ {s[g].obj}) \cup {e.obj}
          /\ Once(Replaced(s, g, e))
      BY <1>2, <3>3, <3>5, ReplaceKeeps
    <3>7. s[g].obj \in ObjsIn(s)
      BY <3>3 DEF ObjsIn
    <3> QED
      BY <3>4, <3>6, <3>7
  <2>2. CASE Len(s) # maxAddresses
    <3> DEFINE t == InsertAt(s, Place(s, e.time), e)
    <3>1. buckets' = [buckets EXCEPT ![b] = t] /\ refs' = [refs EXCEPT ![e.obj] = n]
      BY <2>2 DEF Insert
    <3>2. Fits(s, Place(s, e.time), e.time)
      BY <1>1, <1>2, PlaceFits
    <3>3. e.obj \notin ObjsIn(s)
      BY <1>1
    <3>4. t \in Seq(Address) /\ InOrder(t, b) /\ Once(t) /\ ObjsIn(t) = ObjsIn(s) \cup {e.obj}
      BY <1>2, <3>2, <3>3, InsertKeeps
    <3> HIDE DEF t
    <3>5. \/ {} = {} /\ refs' = [refs EXCEPT ![e.obj] = n]
          \/ {} = {e} /\ e \in ObjsIn(s) /\ refs' = [refs EXCEPT ![e.obj] = n, ![e] = @ - 1]
      BY <3>1
    <3>6. /\ buckets' = [buckets EXCEPT ![b] = t] /\ InOrder(t, b) /\ Once(t)
          /\ ObjsIn(t) = (ObjsIn(s) \ {}) \cup {e.obj}
      BY <3>1, <3>4
    <3> HIDE DEF s, b
    <3> QED
      BY <3>4, <3>5, <3>6, Zenon
  <2> QED
    BY <2>1, <2>2
<1>4. PICK t \in Seq(Address) :
        /\ buckets' = [buckets EXCEPT ![b] = t] /\ InOrder(t, b) /\ Once(t)
        /\ ObjsIn(t) = (ObjsIn(s) \ x) \cup {e.obj}
  BY <1>3
<1>5. /\ buckets' \in [Buckets -> Seq(Address)] /\ Ordered'
      /\ \A c \in Buckets : Once(buckets'[c])
      /\ \A c \in Buckets : ObjsIn(buckets'[c]) = IF c = b THEN ObjsIn(t) ELSE ObjsIn(buckets[c])
  BY <1>1, <1>4, BucketChanged
<1>6. /\ \A c, d \in Buckets : c # d => ObjsIn(buckets[c]) \cap ObjsIn(buckets[d]) = {}
      /\ \A f, g \in out : f.obj = g.obj => f = g
      /\ \A f \in out, c \in Buckets : f.obj \notin ObjsIn(buckets[c])
  BY DEF IInv, Apart
<1>7. Apart'
  <2>1. \A c, d \in Buckets : c # d => ObjsIn(buckets'[c]) \cap ObjsIn(buckets'[d]) = {}
    BY <1>4, <1>5, <1>6
  <2>2. \A f \in out', c \in Buckets : f.obj \notin ObjsIn(buckets'[c])
    BY <1>4, <1>5, <1>6
  <2> QED
    BY <1>5, <1>6, <2>1, <2>2 DEF Apart
<1>8. x # {} => gone \in Objs /\ gone # e.obj /\ Named(gone)
  <2>1. \A i \in 1 .. Len(s) : s[i].obj \in Objs
    BY <1>2, AddressTypes
  <2>2. ObjsIn(s) \subseteq Objs
    BY <2>1 DEF ObjsIn
  <2> QED
    BY <1>1, <1>3, <2>2 DEF Named
<1>9. \A o \in Objs : Cardinality(Held(o)) \in Nat /\ (Named(o) => 1 <= refs[o])
  <2> SUFFICES ASSUME NEW o \in Objs PROVE Cardinality(Held(o)) \in Nat /\ (Named(o) => 1 <= refs[o])
    OBVIOUS
  <2>1. IsFiniteSet(1 .. Len(locs)) /\ Held(o) \in SUBSET (1 .. Len(locs))
    <3>1. Len(locs) \in Nat
      BY DEF IInv, TypeOK
    <3> QED
      BY <3>1, FS_Interval DEF Held
  <2>2. Cardinality(Held(o)) \in Nat
    BY <2>1, FS_Subset, FS_CardinalityType
  <2> QED
    BY <1>2, <2>2 DEF IInv, RefsCover
<1>10. refs' \in [Objs -> Nat]
  <2>1. CASE x = {}
    BY <1>1, <1>2, <1>3, <2>1
  <2>2. CASE x # {}
    <3>1. refs' = [refs EXCEPT ![e.obj] = n, ![gone] = @ - 1] /\ refs[gone] - 1 \in Nat
      BY <1>2, <1>3, <1>8, <1>9, <2>2
    <3> QED
      BY <1>1, <1>2, <1>8, <2>2, <3>1
  <2> QED
    BY <2>1, <2>2
<1>11. RefsCover'
  <2> SUFFICES ASSUME NEW o \in Objs, Named(o)' PROVE 1 <= refs'[o]
    BY <1>10, NoneHeld DEF RefsCover
  <2>1. o = e.obj \/ (Named(o) /\ o \notin x)
    BY <1>3, <1>4, <1>5, <1>6, <1>1 DEF Named
  <2>2. CASE o = e.obj
    BY <1>1, <1>2, <1>3, <1>8, <2>2
  <2>3. CASE o # e.obj /\ Named(o) /\ o \notin x
    <3>1. refs'[o] = refs[o]
      BY <1>2, <1>3, <2>3
    <3> QED
      BY <1>9, <2>3, <3>1
  <2> QED
    BY <2>1, <2>2, <2>3
<1> QED
  BY <1>5, <1>7, <1>10, <1>11

-----------------------------------------------------------------------------
(* The loop that selects addresses *)

SelType == [at : 0 .. BucketCount, index : Nat, firstEmpty : Buckets \cup {-1}, found : Seq(Locator)]

\* A locator points to the object in its slot.
Points(l) == l.at \in 1 .. Len(buckets[l.bucket]) /\ buckets[l.bucket][l.at].obj = l.obj

\* Bucket c was passed between f, which was empty, and b, going round.
Between(f, b, c) == IF f < b THEN f <= c /\ c < b ELSE f <= c \/ c < b
\* The buckets that had nothing left, and how many turns they took.
Empties(sel) == {c \in Buckets : sel.firstEmpty # -1 /\ Between(sel.firstEmpty, BucketAt(sel), c)}
EmptyTurns(sel) ==
  IF sel.firstEmpty = -1 THEN 0
  ELSE IF sel.firstEmpty < BucketAt(sel) THEN BucketAt(sel) - sel.firstEmpty
  ELSE BucketCount - sel.firstEmpty + BucketAt(sel)

\* How often bucket c was looked at when the round began at bucket first, unless
\* it is 0, and is at b for the index-th time.
Visits(first, b, index, c) ==
  IF (first <= b /\ first <= c /\ c < b) \/ (b < first /\ (first <= c \/ c < b)) THEN index + 1 ELSE index

\* What holds of the variables of the loop wherever it began.
Selecting(sel, num) ==
  /\ sel \in SelType /\ Len(sel.found) <= num
  /\ \A i \in 1 .. Len(sel.found) : Points(sel.found[i])
  /\ \A c \in Empties(sel) : Len(buckets[c]) <= sel.index

\* What holds when it did not begin at bucket 0: the newest of each bucket were
\* found, as many as the visits to it, in descending order.
Rounds(sel, first) ==
  /\ \A c \in Buckets : \A a \in 1 .. Len(buckets[c]) :
       (\E i \in 1 .. Len(sel.found) : sel.found[i].bucket = c /\ sel.found[i].at = a)
         <=> a > Len(buckets[c]) - Visits(first, BucketAt(sel), sel.index, c)
  /\ \A i, j \in 1 .. Len(sel.found) :
       i < j /\ sel.found[i].bucket = sel.found[j].bucket => sel.found[j].at < sel.found[i].at

\* What holds when it did: it never gets deeper.
Flat(sel) ==
  /\ sel.index = 0
  /\ \A i \in 1 .. Len(sel.found) : sel.found[i].at = Len(buckets[sel.found[i].bucket])

\* A bucket has no more addresses than there are objects.
LEMMA BucketFits ==
  ASSUME NEW s \in Seq(Address), Once(s)
  PROVE  Len(s) <= Cardinality(Objs)
<1> DEFINE f == [i \in 1 .. Len(s) |-> s[i].obj]
<1>1. Len(s) \in Nat /\ \A i \in 1 .. Len(s) : s[i].obj \in Objs
  BY AddressTypes
<1>2. f \in Injection(1 .. Len(s), Objs)
  BY <1>1 DEF Injection, IsInjective, Once
<1>3. IsFiniteSet(Objs) /\ IsFiniteSet(1 .. Len(s)) /\ Cardinality(1 .. Len(s)) = Len(s)
  <2>1. 1 \in Int /\ Len(s) \in Int /\ (IF 1 > Len(s) THEN 0 ELSE Len(s) - 1 + 1) = Len(s)
    BY <1>1
  <2>2. IsFiniteSet(1 .. Len(s)) /\ Cardinality(1 .. Len(s)) = Len(s)
    BY <2>1, FS_Interval
  <2> QED
    BY <2>2, StoreAssumption
<1> HIDE DEF f
<1> QED
  BY <1>2, <1>3, FS_Injection

\* A turn visits the bucket it is at and no other.
LEMMA VisitsTurn ==
  ASSUME NEW b \in Buckets, NEW index \in Nat, NEW first \in Buckets \ {0}, NEW c \in Buckets
  PROVE  LET next  == IF b + 1 = BucketCount THEN 0 ELSE b + 1
             index2 == IF b + 1 = first THEN index + 1 ELSE index
         IN  Visits(first, next, index2, c)
               = IF c = b THEN index + 1 ELSE Visits(first, b, index, c)
<1>1. BucketCount \in Nat
  BY StoreAssumption
<1> QED
  BY <1>1 DEF Visits, Buckets

\* The bucket that is looked at was not yet in this round, and no other was more
\* than once.
LEMMA VisitsAt ==
  ASSUME NEW b \in Buckets, NEW index \in Nat, NEW first \in Buckets \ {0}, NEW c \in Buckets
  PROVE  /\ Visits(first, b, index, b) = index
         /\ Visits(first, b, index, c) \in {index, index + 1}
BY StoreAssumption DEF Visits, Buckets

\* The next turn passes one bucket more.
LEMMA BetweenTurn ==
  ASSUME NEW b \in Buckets, NEW f \in Buckets, NEW c \in Buckets,
         Between(f, IF b + 1 = BucketCount THEN 0 ELSE b + 1, c), f # b
  PROVE  c = b \/ Between(f, b, c)
<1>1. BucketCount \in Nat
  BY StoreAssumption
<1> QED
  BY <1>1 DEF Between, Buckets

\* A bucket that had nothing left is the first that was passed.
LEMMA BetweenFirst ==
  ASSUME NEW b \in Buckets, NEW c \in Buckets,
         Between(b, IF b + 1 = BucketCount THEN 0 ELSE b + 1, c)
  PROVE  c = b
<1>1. BucketCount \in Nat
  BY StoreAssumption
<1> QED
  BY <1>1 DEF Between, Buckets

\* Where a turn leaves the variables.
LEMMA TurnIs ==
  ASSUME NEW sel \in SelType, NEW num, NEW first \in Buckets, ~Over(sel, num)
  PROVE  LET b == BucketAt(sel)
             t == Turn(sel, num, first)
         IN  /\ b \in Buckets
             /\ t.at = b + 1 /\ t.at \in 0 .. BucketCount
             /\ BucketAt(t) = IF b + 1 = BucketCount THEN 0 ELSE b + 1
             /\ t.index = IF b + 1 = first THEN sel.index + 1 ELSE sel.index
             /\ t.firstEmpty = IF Deep(sel) THEN -1 ELSE IF sel.firstEmpty = -1 THEN b ELSE sel.firstEmpty
             /\ t.found = IF Deep(sel) THEN Found(sel) ELSE sel.found
             /\ t = [at |-> t.at, index |-> t.index, firstEmpty |-> t.firstEmpty, found |-> t.found]
             /\ sel.firstEmpty # b /\ Len(sel.found) # num
<1> DEFINE b == BucketAt(sel)
           t == Turn(sel, num, first)
<1>1. BucketCount \in Nat \ {0} /\ sel.at \in 0 .. BucketCount
  BY StoreAssumption DEF SelType
<1>2. b \in Buckets
  BY <1>1 DEF BucketAt, Buckets
<1>3. t = [at         |-> b + 1,
           index      |-> IF b + 1 = first THEN sel.index + 1 ELSE sel.index,
           firstEmpty |-> IF Deep(sel) THEN -1 ELSE IF sel.firstEmpty = -1 THEN b ELSE sel.firstEmpty,
           found      |-> IF Deep(sel) THEN Found(sel) ELSE sel.found]
  BY DEF Turn
<1>4. sel.firstEmpty # b /\ Len(sel.found) # num
  BY DEF Over
<1> HIDE DEF b, t
<1>5. /\ t.at = b + 1
      /\ t.index = IF b + 1 = first THEN sel.index + 1 ELSE sel.index
      /\ t.firstEmpty = IF Deep(sel) THEN -1 ELSE IF sel.firstEmpty = -1 THEN b ELSE sel.firstEmpty
      /\ t.found = IF Deep(sel) THEN Found(sel) ELSE sel.found
      /\ t = [at |-> t.at, index |-> t.index, firstEmpty |-> t.firstEmpty, found |-> t.found]
  BY <1>3
<1>6. t.at \in 0 .. BucketCount /\ BucketAt(t) = IF b + 1 = BucketCount THEN 0 ELSE b + 1
  BY <1>1, <1>2, <1>5 DEF BucketAt, Buckets
<1> QED
  BY <1>2, <1>4, <1>5, <1>6 DEF b, t

\* What a turn finds where the bucket is deep enough.
LEMMA FoundIs ==
  ASSUME IInv, NEW sel \in SelType, Deep(sel)
  PROVE  LET b == BucketAt(sel)
             at == Len(buckets[b]) - sel.index
             l == [obj |-> buckets[b][at].obj, bucket |-> b, at |-> at]
         IN  /\ l \in Locator /\ Points(l) /\ l.bucket = b /\ l.at = at
             /\ Found(sel) \in Seq(Locator) /\ Len(Found(sel)) = Len(sel.found) + 1
             /\ Found(sel)[Len(sel.found) + 1] = l
             /\ \A i \in 1 .. Len(sel.found) : Found(sel)[i] = sel.found[i]
<1> DEFINE b == BucketAt(sel)
           s == buckets[b]
           at == Len(s) - sel.index
           l == [obj |-> s[at].obj, bucket |-> b, at |-> at]
<1>1. b \in Buckets
  BY StoreAssumption DEF SelType, BucketAt, Buckets
<1>2. s \in Seq(Address) /\ Once(s)
  BY <1>1 DEF IInv, TypeOK, Apart
<1>3. Len(s) \in Nat /\ sel.index \in Nat /\ Len(s) > sel.index
  BY <1>2 DEF SelType, Deep
<1>4. at \in 1 .. Len(s) /\ Cardinality(Objs) \in Nat /\ Len(s) <= Cardinality(Objs)
  BY <1>2, <1>3, BucketFits, StoreAssumption, FS_CardinalityType
<1>5. s[at].obj \in Objs
  BY <1>2, <1>4, AddressTypes
<1>6. Found(sel) = Append(sel.found, l)
  BY DEF Found
<1> HIDE DEF b, s, at
<1>7. l \in Locator
  BY <1>1, <1>3, <1>4, <1>5 DEF Locator
<1>8. Points(l)
  BY <1>4 DEF Points, s
<1>9. l.bucket = b /\ l.at = at
  OBVIOUS
<1>10. sel.found \in Seq(Locator)
  BY DEF SelType
<1> HIDE DEF l
<1>11. /\ Found(sel) \in Seq(Locator) /\ Len(Found(sel)) = Len(sel.found) + 1
       /\ Found(sel)[Len(sel.found) + 1] = l
       /\ \A i \in 1 .. Len(sel.found) : Found(sel)[i] = sel.found[i]
  BY <1>6, <1>7, <1>10
<1> QED
  BY <1>7, <1>8, <1>9, <1>11 DEF l, b, s, at

\* A turn keeps what holds of the variables wherever the loop began.
LEMMA TurnSelecting ==
  ASSUME IInv, NEW num \in Nat, NEW first \in Buckets, NEW sel, Selecting(sel, num)
  PROVE  Selecting(Turn(sel, num, first), num)
<1> DEFINE b == BucketAt(sel)
           t == Turn(sel, num, first)
<1>1. CASE Over(sel, num)
  BY <1>1 DEF Turn
<1>2. CASE ~Over(sel, num)
  <2>1. sel \in SelType /\ Len(sel.found) \in Nat /\ Len(sel.found) <= num /\ sel.index \in Nat
    BY DEF Selecting, SelType
  <2>2. /\ b \in Buckets
        /\ t.at = b + 1 /\ t.at \in 0 .. BucketCount
        /\ BucketAt(t) = IF b + 1 = BucketCount THEN 0 ELSE b + 1
        /\ t.index = IF b + 1 = first THEN sel.index + 1 ELSE sel.index
        /\ t.firstEmpty = IF Deep(sel) THEN -1 ELSE IF sel.firstEmpty = -1 THEN b ELSE sel.firstEmpty
        /\ t.found = IF Deep(sel) THEN Found(sel) ELSE sel.found
        /\ t = [at |-> t.at, index |-> t.index, firstEmpty |-> t.firstEmpty, found |-> t.found]
        /\ sel.firstEmpty # b /\ Len(sel.found) # num
    BY <1>2, <2>1, TurnIs
  <2> HIDE DEF t
  <2>3. t.index \in Nat /\ sel.index <= t.index
    BY <2>1, <2>2
  <2>4. sel.firstEmpty \in Buckets \cup {-1} /\ t.firstEmpty \in Buckets \cup {-1}
    BY <2>1, <2>2 DEF SelType
  <2>5. /\ t.found \in Seq(Locator) /\ Len(t.found) <= num
        /\ \A i \in 1 .. Len(t.found) : Points(t.found[i])
    <3>1. CASE Deep(sel)
      <4> DEFINE l == Found(sel)[Len(sel.found) + 1]
      <4>1. /\ Points(l) /\ Found(sel) \in Seq(Locator) /\ Len(Found(sel)) = Len(sel.found) + 1
            /\ \A i \in 1 .. Len(sel.found) : Found(sel)[i] = sel.found[i]
        BY <2>1, <3>1, FoundIs
      <4>2. t.found = Found(sel)
        BY <2>2, <3>1
      <4> HIDE DEF l
      <4>3. ASSUME NEW i \in 1 .. Len(t.found) PROVE Points(t.found[i])
        <5>1. i \in 1 .. Len(sel.found) \/ i = Len(sel.found) + 1
          BY <2>1, <4>1, <4>2
        <5> QED
          BY <4>1, <4>2, <5>1 DEF Selecting, l
      <4> QED
        BY <2>1, <2>2, <4>1, <4>2, <4>3
    <3>2. CASE ~Deep(sel)
      <4>1. t.found = sel.found
        BY <2>2, <3>2
      <4> QED
        BY <2>1, <4>1 DEF Selecting, SelType
    <3> QED
      BY <3>1, <3>2
  <2>6. t \in SelType
    BY <2>2, <2>3, <2>4, <2>5 DEF SelType
  <2>7. \A c \in Empties(t) : Len(buckets[c]) <= t.index
    <3> SUFFICES ASSUME NEW c \in Empties(t) PROVE Len(buckets[c]) <= t.index
      OBVIOUS
    <3>1. c \in Buckets /\ t.firstEmpty # -1 /\ Between(t.firstEmpty, BucketAt(t), c)
      BY DEF Empties
    <3>2. Len(buckets[c]) \in Nat /\ Len(buckets[b]) \in Nat
      BY <2>2, <3>1 DEF IInv, TypeOK
    <3>3. ~Deep(sel) /\ Len(buckets[b]) <= sel.index
      BY <2>1, <2>2, <3>1, <3>2 DEF Deep
    <3>4. c = b \/ (sel.firstEmpty # -1 /\ Between(sel.firstEmpty, b, c))
      <4>1. CASE sel.firstEmpty = -1
        BY <2>2, <3>1, <3>3, <4>1, BetweenFirst
      <4>2. CASE sel.firstEmpty # -1
        <5>1. sel.firstEmpty \in Buckets /\ t.firstEmpty = sel.firstEmpty
          BY <2>2, <2>4, <3>3, <4>2
        <5> QED
          BY <2>2, <3>1, <4>2, <5>1, BetweenTurn
      <4> QED
        BY <4>1, <4>2
    <3>5. CASE c = b
      BY <2>1, <2>3, <3>2, <3>3, <3>5
    <3>6. CASE c # b
      <4>1. c \in Empties(sel)
        BY <3>1, <3>4, <3>6 DEF Empties
      <4> QED
        BY <2>1, <2>3, <3>2, <4>1 DEF Selecting
    <3> QED
      BY <3>5, <3>6
  <2> QED
    BY <2>5, <2>6, <2>7 DEF Selecting, t
<1> QED
  BY <1>1, <1>2

\* A turn of a loop that did not begin at bucket 0 finds the next of the bucket.
LEMMA TurnRounds ==
  ASSUME IInv, NEW num \in Nat, NEW first \in Buckets \ {0}, NEW sel, Selecting(sel, num),
         Rounds(sel, first)
  PROVE  Rounds(Turn(sel, num, first), first)
<1> DEFINE b == BucketAt(sel)
           n == Len(sel.found)
           t == Turn(sel, num, first)
<1>1. CASE Over(sel, num)
  BY <1>1 DEF Turn
<1>2. CASE ~Over(sel, num)
  <2>1. sel \in SelType /\ n \in Nat /\ sel.index \in Nat
    BY DEF Selecting, SelType
  <2>2. /\ b \in Buckets
        /\ BucketAt(t) = IF b + 1 = BucketCount THEN 0 ELSE b + 1
        /\ t.index = IF b + 1 = first THEN sel.index + 1 ELSE sel.index
        /\ t.found = IF Deep(sel) THEN Found(sel) ELSE sel.found
    BY <1>2, <2>1, TurnIs
  <2> HIDE DEF t
  <2> DEFINE v(c) == Visits(first, b, sel.index, c)
             w(c) == Visits(first, BucketAt(t), t.index, c)
  <2>3. \A c \in Buckets : w(c) = IF c = b THEN sel.index + 1 ELSE v(c)
    BY <2>1, <2>2, VisitsTurn
  <2>4. v(b) = sel.index
    BY <2>1, <2>2, VisitsAt
  <2>5. \A c \in Buckets : v(c) \in Nat /\ Len(buckets[c]) \in Nat
    <3> SUFFICES ASSUME NEW c \in Buckets PROVE v(c) \in Nat /\ Len(buckets[c]) \in Nat
      OBVIOUS
    <3>1. v(c) \in {sel.index, sel.index + 1}
      BY <2>1, <2>2, VisitsAt
    <3> QED
      BY <2>1, <3>1 DEF IInv, TypeOK
  <2>6. /\ \A c \in Buckets : \A a \in 1 .. Len(buckets[c]) :
             (\E i \in 1 .. n : sel.found[i].bucket = c /\ sel.found[i].at = a)
               <=> a > Len(buckets[c]) - v(c)
        /\ \A i, j \in 1 .. n : i < j /\ sel.found[i].bucket = sel.found[j].bucket
             => sel.found[j].at < sel.found[i].at
    BY DEF Rounds
  <2>7. \A i \in 1 .. n : sel.found[i] \in Locator /\ sel.found[i].at \in 1 .. Len(buckets[sel.found[i].bucket])
    BY DEF Selecting, SelType, Points
  <2> HIDE DEF v, w, n, b
  <2>8. CASE Deep(sel)
    <3> DEFINE at == Len(buckets[b]) - sel.index
               l == Found(sel)[n + 1]
    <3>1. /\ l \in Locator /\ l.bucket = b /\ l.at = at /\ at \in 1 .. Len(buckets[b])
          /\ t.found = Found(sel) /\ Len(t.found) = n + 1
          /\ \A i \in 1 .. n : t.found[i] = sel.found[i]
      BY <2>1, <2>2, <2>8, FoundIs DEF n, b, Points
    <3>2. t.found[n + 1] = l
      BY <3>1
    <3> HIDE DEF l, at
    <3>3. ASSUME NEW c \in Buckets, NEW a \in 1 .. Len(buckets[c])
          PROVE  (\E i \in 1 .. n + 1 : t.found[i].bucket = c /\ t.found[i].at = a)
                   <=> a > Len(buckets[c]) - w(c)
      <4>1. (\E i \in 1 .. n + 1 : t.found[i].bucket = c /\ t.found[i].at = a)
              <=> (\E i \in 1 .. n : sel.found[i].bucket = c /\ sel.found[i].at = a)
                    \/ (c = b /\ a = at)
        BY <2>1, <3>1, <3>2
      <4>2. CASE c = b
        <5>1. w(c) = v(c) + 1 /\ at = Len(buckets[c]) - v(c)
          BY <2>3, <2>4, <4>2 DEF at
        <5>2. (a > Len(buckets[c]) - v(c) \/ a = at) <=> a > Len(buckets[c]) - w(c)
          BY <2>5, <5>1
        <5> QED
          BY <2>6, <4>1, <4>2, <5>2
      <4>3. CASE c # b
        BY <2>3, <2>6, <4>1, <4>3
      <4> QED
        BY <4>2, <4>3
    <3>4. ASSUME NEW i \in 1 .. n + 1, NEW j \in 1 .. n + 1, i < j,
                 t.found[i].bucket = t.found[j].bucket
          PROVE  t.found[j].at < t.found[i].at
      <4>1. CASE j \in 1 .. n
        <5>1. i \in 1 .. n
          BY <2>1, <3>4, <4>1
        <5> QED
          BY <2>6, <3>1, <3>4, <4>1, <5>1
      <4>2. CASE j \notin 1 .. n
        <5>1. j = n + 1 /\ i \in 1 .. n
          BY <2>1, <3>4, <4>2
        <5>2. sel.found[i].bucket = b /\ t.found[i].at = sel.found[i].at
          BY <3>1, <3>2, <3>4, <5>1
        <5>3. sel.found[i].at \in 1 .. Len(buckets[b])
          BY <2>7, <5>1, <5>2
        <5>4. sel.found[i].at > Len(buckets[b]) - v(b)
          BY <2>2, <2>6, <5>1, <5>2, <5>3
        <5>5. t.found[j].at = at
          BY <3>1, <3>2, <5>1
        <5>6. at = Len(buckets[b]) - v(b)
          BY <2>4 DEF at
        <5> QED
          BY <5>2, <5>4, <5>5, <5>6
      <4> QED
        BY <4>1, <4>2
    <3> QED
      BY <3>1, <3>3, <3>4 DEF Rounds, w, t
  <2>9. CASE ~Deep(sel)
    <3>1. t.found = sel.found
      BY <2>2, <2>9
    <3>2. Len(buckets[b]) <= sel.index
      BY <2>1, <2>2, <2>5, <2>9 DEF Deep, b
    <3>3. ASSUME NEW c \in Buckets, NEW a \in 1 .. Len(buckets[c])
          PROVE  (a > Len(buckets[c]) - v(c)) <=> (a > Len(buckets[c]) - w(c))
      <4>1. CASE c = b
        BY <2>1, <2>3, <2>4, <2>5, <3>2, <4>1
      <4>2. CASE c # b
        BY <2>3, <4>2
      <4> QED
        BY <4>1, <4>2
    <3>4. ASSUME NEW c \in Buckets, NEW a \in 1 .. Len(buckets[c])
          PROVE  (\E i \in 1 .. n : sel.found[i].bucket = c /\ sel.found[i].at = a)
                   <=> a > Len(buckets[c]) - w(c)
      BY <2>6, <3>3
    <3>5. \A c \in Buckets : \A a \in 1 .. Len(buckets[c]) :
            (\E i \in 1 .. Len(t.found) : t.found[i].bucket = c /\ t.found[i].at = a)
              <=> a > Len(buckets[c]) - w(c)
      BY <3>1, <3>4 DEF n
    <3>6. \A i, j \in 1 .. Len(t.found) : i < j /\ t.found[i].bucket = t.found[j].bucket
            => t.found[j].at < t.found[i].at
      BY <2>6, <3>1 DEF n
    <3>7. Rounds(t, first)
      BY <3>5, <3>6, Zenon DEF Rounds, w
    <3> QED
      BY <3>7 DEF t
  <2> QED
    BY <2>8, <2>9 DEF t
<1> QED
  BY <1>1, <1>2

\* A turn of a loop that began at bucket 0 finds the newest.
LEMMA TurnFlat ==
  ASSUME IInv, NEW num \in Nat, NEW sel, Selecting(sel, num), Flat(sel)
  PROVE  Flat(Turn(sel, num, 0))
<1> DEFINE b == BucketAt(sel)
           n == Len(sel.found)
           t == Turn(sel, num, 0)
<1>1. CASE Over(sel, num)
  BY <1>1 DEF Turn
<1>2. CASE ~Over(sel, num)
  <2>1. sel \in SelType /\ n \in Nat /\ sel.index = 0 /\ 0 \in Buckets
    BY StoreAssumption DEF Selecting, SelType, Flat, Buckets
  <2>2. /\ b \in Buckets
        /\ t.index = IF b + 1 = 0 THEN sel.index + 1 ELSE sel.index
        /\ t.found = IF Deep(sel) THEN Found(sel) ELSE sel.found
    BY <1>2, <2>1, TurnIs
  <2> HIDE DEF t
  <2>3. t.index = 0
    BY <2>1, <2>2 DEF Buckets
  <2>4. CASE Deep(sel)
    <3> DEFINE l == Found(sel)[n + 1]
    <3>1. /\ l.bucket = b /\ l.at = Len(buckets[b]) - sel.index
          /\ t.found = Found(sel) /\ Len(t.found) = n + 1
          /\ \A i \in 1 .. n : t.found[i] = sel.found[i]
      BY <2>1, <2>2, <2>4, FoundIs
    <3>2. t.found[n + 1] = l /\ Len(buckets[b]) \in Nat
      BY <2>2, <3>1 DEF IInv, TypeOK
    <3> HIDE DEF l, b
    <3>3. ASSUME NEW i \in 1 .. n + 1 PROVE t.found[i].at = Len(buckets[t.found[i].bucket])
      <4>1. CASE i \in 1 .. n
        BY <3>1, <4>1 DEF Flat
      <4>2. CASE i \notin 1 .. n
        <5>1. i = n + 1
          BY <2>1, <4>2
        <5> QED
          BY <2>1, <3>1, <3>2, <5>1
      <4> QED
        BY <4>1, <4>2
    <3> QED
      BY <2>3, <3>1, <3>3 DEF Flat, t
  <2>5. CASE ~Deep(sel)
    BY <2>2, <2>3, <2>5 DEF Flat, t
  <2> QED
    BY <2>4, <2>5 DEF t
<1> QED
  BY <1>1, <1>2

\* A product with the next number.
LEMMA NextProduct ==
  ASSUME NEW n \in Nat, NEW k \in Nat
  PROVE  n * k \in Nat /\ (n + 1) * k = n * k + k
OBVIOUS

\* The loop ends in time: every turn finds an address or passes an empty bucket,
\* and no bucket is passed twice between two addresses.
LEMMA TurnCounts ==
  ASSUME IInv, NEW num \in Nat, NEW first \in Buckets, NEW sel, Selecting(sel, num), NEW i \in Nat,
         Over(sel, num) \/ i <= Len(sel.found) * (BucketCount + 1) + EmptyTurns(sel)
  PROVE  LET t == Turn(sel, num, first)
         IN  Over(t, num) \/ i + 1 <= Len(t.found) * (BucketCount + 1) + EmptyTurns(t)
<1> DEFINE b == BucketAt(sel)
           f == sel.firstEmpty
           n == Len(sel.found)
           t == Turn(sel, num, first)
<1>1. CASE Over(sel, num)
  BY <1>1 DEF Turn
<1>2. CASE ~Over(sel, num)
  <2>1. sel \in SelType /\ n \in Nat /\ f \in Buckets \cup {-1} /\ BucketCount \in Nat \ {0}
    BY StoreAssumption DEF Selecting, SelType
  <2>2. /\ b \in Buckets
        /\ BucketAt(t) = IF b + 1 = BucketCount THEN 0 ELSE b + 1
        /\ t.firstEmpty = IF Deep(sel) THEN -1 ELSE IF f = -1 THEN b ELSE f
        /\ t.found = IF Deep(sel) THEN Found(sel) ELSE sel.found
        /\ f # b
    BY <1>2, <2>1, TurnIs
  <2>3. i <= n * (BucketCount + 1) + EmptyTurns(sel)
    BY <1>2
  <2> HIDE DEF t
  <2>4. EmptyTurns(sel) \in 0 .. BucketCount - 1
    BY <2>1, <2>2 DEF EmptyTurns, Buckets
  <2>5. CASE Deep(sel)
    <3>1. Len(t.found) = n + 1 /\ EmptyTurns(t) = 0
      BY <2>1, <2>2, <2>5, FoundIs DEF EmptyTurns
    <3> DEFINE k == BucketCount + 1
    <3>2. k \in Nat /\ k = BucketCount + 1
      BY <2>1
    <3> HIDE DEF k
    <3>3. n * k \in Nat /\ (n + 1) * k = n * k + k
      BY <2>1, <3>2, NextProduct
    <3>6. i <= n * k + EmptyTurns(sel)
      BY <2>3 DEF k
    <3> DEFINE p == n * k
               q == (n + 1) * k
               e == EmptyTurns(sel)
    <3>7. p \in Nat /\ q = p + k /\ e \in 0 .. BucketCount - 1 /\ i <= p + e
      BY <2>4, <3>3, <3>6
    <3> HIDE DEF p, q, e
    <3>8. i + 1 <= q
      BY <2>1, <3>2, <3>7
    <3>4. i + 1 <= (n + 1) * k
      BY <3>8 DEF q
    <3>5. (n + 1) * k + 0 = (n + 1) * k
      BY <3>2, <3>3
    <3> QED
      BY <3>1, <3>4, <3>5 DEF t, k
  <2>6. CASE ~Deep(sel)
    <3>1. t.found = sel.found
      BY <2>2, <2>6
    <3>2. EmptyTurns(t) = EmptyTurns(sel) + 1
      <4>1. CASE f = -1
        <5>1. t.firstEmpty = b /\ EmptyTurns(sel) = 0
          BY <2>2, <2>6, <4>1 DEF EmptyTurns
        <5>2. EmptyTurns(t) = 1
          BY <2>1, <2>2, <5>1 DEF EmptyTurns, Buckets
        <5> QED
          BY <5>1, <5>2
      <4>2. CASE f # -1
        <5>1. t.firstEmpty = f /\ f \in Buckets
          BY <2>1, <2>2, <2>6, <4>2
        <5> QED
          BY <2>1, <2>2, <4>2, <5>1 DEF EmptyTurns, Buckets
      <4> QED
        BY <4>1, <4>2
    <3>3. n * (BucketCount + 1) \in Nat
      <4>1. BucketCount + 1 \in Nat
        BY <2>1
      <4> QED
        BY <2>1, <4>1, NextProduct, Zenon
    <3> QED
      BY <2>3, <2>4, <3>1, <3>2, <3>3 DEF t
  <2> QED
    BY <2>5, <2>6
<1> QED
  BY <1>1, <1>2

\* The turns of the loop up to the n-th.
IsTurns(turn, num, first, n) ==
  turn = [i \in 0 .. n |->
            IF i = 0 THEN [at |-> first, index |-> 0, firstEmpty |-> -1, found |-> <<>>]
            ELSE Turn(turn[i - 1], num, first)]

\* There are such turns.
LEMMA TurnsExist ==
  ASSUME NEW num, NEW first, NEW n \in Nat
  PROVE  \E turn : IsTurns(turn, num, first, n)
<1> DEFINE T == {k \in Nat : \E turn : IsTurns(turn, num, first, k)}
           begun == [at |-> first, index |-> 0, firstEmpty |-> -1, found |-> <<>>]
<1>1. 0 \in T
  <2>1. IsTurns([i \in 0 .. 0 |-> begun], num, first, 0)
    BY DEF IsTurns
  <2> QED
    BY <2>1
<1>2. ASSUME NEW k \in T PROVE k + 1 \in T
  <2>1. PICK turn : IsTurns(turn, num, first, k)
    OBVIOUS
  <2> DEFINE more == [i \in 0 .. k + 1 |-> IF i = k + 1 THEN Turn(turn[k], num, first) ELSE turn[i]]
  <2>2. ASSUME NEW i \in 0 .. k + 1
        PROVE  more[i] = IF i = 0 THEN begun ELSE Turn(more[i - 1], num, first)
    <3>1. CASE i = k + 1
      <4>1. more[i] = Turn(turn[k], num, first) /\ more[k] = turn[k] /\ i - 1 = k /\ i # 0
        BY <3>1
      <4> HIDE DEF more
      <4> QED
        BY <4>1
    <3>2. CASE i # k + 1
      <4>1. i \in 0 .. k /\ more[i] = turn[i] /\ (i # 0 => i - 1 \in 0 .. k /\ more[i - 1] = turn[i - 1])
        BY <3>2
      <4>2. turn[i] = IF i = 0 THEN begun ELSE Turn(turn[i - 1], num, first)
        BY <2>1, <4>1 DEF IsTurns
      <4> HIDE DEF more, begun
      <4> QED
        BY <4>1, <4>2
    <3> QED
      BY <3>1, <3>2
  <2>3. IsTurns(more, num, first, k + 1)
    BY <2>2 DEF IsTurns
  <2> QED
    BY <2>3
<1>3. T = Nat
  BY <1>1, <1>2, SetInduction
<1> QED
  BY <1>3

\* The addresses that are selected are those of the last turn.
LEMMA AddressesAre ==
  ASSUME NEW num \in Nat, NEW first
  PROVE  \E turn : /\ IsTurns(turn, num, first, TurnsFor(num))
                   /\ Addresses(num, first) = turn[TurnsFor(num)].found
<1> DEFINE n == TurnsFor(num)
           g == CHOOSE turn : turn = [i \in 0 .. n |->
                  IF i = 0 THEN [at |-> first, index |-> 0, firstEmpty |-> -1, found |-> <<>>]
                  ELSE Turn(turn[i - 1], num, first)]
<1>1. n \in Nat
  BY StoreAssumption DEF TurnsFor
<1>2. Addresses(num, first) = g[n].found
  BY Zenon DEF Addresses
<1>3. IsTurns(g, num, first, n)
  <2>1. \E turn : IsTurns(turn, num, first, n)
    BY <1>1, TurnsExist
  <2> QED
    BY <2>1, Zenon DEF IsTurns
<1> QED
  BY <1>2, <1>3

\* A product is not larger than that with the number before, and one factor more.
LEMMA ProductsGrow ==
  ASSUME NEW m \in Nat, NEW n \in Nat, NEW k \in Nat, m < n
  PROVE  m * k + k <= n * k
<1>1. (m + 1) * k = m * k + k
  BY NextProduct
<1>2. m + 1 <= n /\ m + 1 \in Nat
  OBVIOUS
<1> DEFINE p == m + 1
<1>3. p * k <= n * k
  <2>1. p \in Nat /\ p <= n
    BY <1>2
  <2> HIDE DEF p
  <2> QED
    BY <2>1
<1> QED
  BY <1>1, <1>3

\* The selection ends because it has enough or no bucket has an address left.
LEMMA SelectionEnds ==
  ASSUME IInv, NEW num \in Nat, NEW first \in Buckets
  PROVE  \E sel : /\ Addresses(num, first) = sel.found
                  /\ Over(sel, num) /\ Selecting(sel, num)
                  /\ first # 0 => Rounds(sel, first)
                  /\ first = 0 => Flat(sel)
<1> DEFINE n == TurnsFor(num)
           begun == [at |-> first, index |-> 0, firstEmpty |-> -1, found |-> <<>>]
           P(i, sel) == /\ Selecting(sel, num)
                        /\ first # 0 => Rounds(sel, first)
                        /\ first = 0 => Flat(sel)
                        /\ Over(sel, num) \/ i <= Len(sel.found) * (BucketCount + 1) + EmptyTurns(sel)
<1>1. n \in Nat /\ BucketCount \in Nat \ {0}
  BY StoreAssumption DEF TurnsFor
<1>2. PICK turn : IsTurns(turn, num, first, n) /\ Addresses(num, first) = turn[n].found
  BY AddressesAre
<1>3. turn[0] = begun /\ \A i \in 0 .. n : i + 1 \in 0 .. n => turn[i + 1] = Turn(turn[i], num, first)
  <2>1. \A i \in 0 .. n : turn[i] = IF i = 0 THEN begun ELSE Turn(turn[i - 1], num, first)
    BY <1>2 DEF IsTurns
  <2> HIDE DEF begun, n
  <2>2. ASSUME NEW i \in 0 .. n, i + 1 \in 0 .. n PROVE turn[i + 1] = Turn(turn[i], num, first)
    <3>1. turn[i + 1] = IF i + 1 = 0 THEN begun ELSE Turn(turn[(i + 1) - 1], num, first)
      BY <2>1, <2>2
    <3>2. (i + 1) - 1 = i /\ i + 1 # 0
      BY <1>1
    <3> QED
      BY <3>1, <3>2
  <2> QED
    BY <1>1, <2>1, <2>2
<1>4. P(0, begun)
  <2>1. /\ begun.at = first /\ begun.index = 0 /\ begun.firstEmpty = -1 /\ begun.found = <<>>
        /\ begun \in SelType
    BY <1>1 DEF SelType, Buckets
  <2> HIDE DEF begun
  <2>2. Len(begun.found) = 0 /\ EmptyTurns(begun) = 0 /\ Empties(begun) = {} /\ BucketAt(begun) = first
    BY <1>1, <2>1 DEF EmptyTurns, Empties, BucketAt, Buckets
  <2>3. Selecting(begun, num)
    BY <2>1, <2>2 DEF Selecting
  <2>4. ASSUME first # 0 PROVE Rounds(begun, first)
    <3>1. ASSUME NEW c \in Buckets PROVE Visits(first, first, 0, c) = 0
      BY <1>1 DEF Visits, Buckets
    <3>2. \A c \in Buckets : Len(buckets[c]) \in Nat
      BY DEF IInv, TypeOK
    <3>3. \A c \in Buckets : \A a \in 1 .. Len(buckets[c]) :
            ~(a > Len(buckets[c]) - Visits(first, BucketAt(begun), begun.index, c))
      BY <2>1, <2>2, <3>1, <3>2
    <3> QED
      BY <2>2, <3>3 DEF Rounds
  <2>5. Flat(begun)
    BY <2>1, <2>2 DEF Flat
  <2>6. 0 <= Len(begun.found) * (BucketCount + 1) + EmptyTurns(begun)
    BY <1>1, <2>2
  <2> QED
    BY <2>3, <2>4, <2>5, <2>6
<1>5. ASSUME NEW i \in Nat, NEW sel, P(i, sel) PROVE P(i + 1, Turn(sel, num, first))
  <2>1. Selecting(Turn(sel, num, first), num)
    BY <1>5, TurnSelecting
  <2>2. first # 0 => Rounds(Turn(sel, num, first), first)
    BY <1>5, TurnRounds
  <2>3. first = 0 => Flat(Turn(sel, num, first))
    BY <1>5, TurnFlat
  <2>4. LET t == Turn(sel, num, first)
        IN  Over(t, num) \/ i + 1 <= Len(t.found) * (BucketCount + 1) + EmptyTurns(t)
    BY <1>5, TurnCounts
  <2> QED
    BY <2>1, <2>2, <2>3, <2>4
<1>6. P(n, turn[n])
  <2> DEFINE T == {i \in Nat : i <= n => P(i, turn[i])}
  <2> HIDE DEF P, n, begun
  <2>1. 0 \in T
    BY <1>3, <1>4
  <2>2. ASSUME NEW i \in T PROVE i + 1 \in T
    <3>1. ASSUME i + 1 <= n PROVE P(i + 1, turn[i + 1])
      <4>1. i \in 0 .. n /\ i + 1 \in 0 .. n /\ i \in Nat
        BY <1>1, <3>1
      <4>2. P(i, turn[i])
        BY <4>1
      <4>3. turn[i + 1] = Turn(turn[i], num, first)
        BY <1>3, <4>1
      <4> QED
        BY <1>5, <4>1, <4>2, <4>3
    <3> QED
      BY <3>1
  <2>3. T = Nat
    BY <2>1, <2>2, SetInduction
  <2>4. n \in T /\ n <= n
    BY <1>1, <2>3
  <2> QED
    BY <2>4
<1>7. Over(turn[n], num)
  <2> SUFFICES ASSUME ~Over(turn[n], num) PROVE FALSE
    OBVIOUS
  <2> DEFINE sel == turn[n]
             k == BucketCount + 1
  <2>1. /\ sel \in SelType /\ Len(sel.found) \in Nat /\ Len(sel.found) < num
        /\ BucketAt(sel) \in Buckets /\ sel.firstEmpty # BucketAt(sel)
    BY <1>1, <1>6 DEF Over, Selecting, SelType, BucketAt, Buckets
  <2>2. n <= Len(sel.found) * k + EmptyTurns(sel)
    BY <1>6
  <2>3. EmptyTurns(sel) \in 0 .. BucketCount - 1
    <3>1. sel.firstEmpty \in Buckets \cup {-1}
      BY <2>1 DEF SelType
    <3>2. BucketAt(sel) \in Buckets /\ sel.firstEmpty # BucketAt(sel)
      BY <2>1
    <3> DEFINE f == sel.firstEmpty
               b == BucketAt(sel)
    <3>3. EmptyTurns(sel) = IF f = -1 THEN 0 ELSE IF f < b THEN b - f ELSE BucketCount - f + b
      BY DEF EmptyTurns
    <3> HIDE DEF sel, f, b
    <3> QED
      <4>1. f \in Buckets \cup {-1} /\ b \in Buckets /\ f # b
        BY <3>1, <3>2 DEF f, b
      <4> QED
        BY <1>1, <3>3, <4>1 DEF Buckets
  <2>4. n = (num + 1) * k
    BY DEF TurnsFor
  <2>5. k \in Nat /\ k = BucketCount + 1
    BY <1>1
  <2> HIDE DEF k, n
  <2>6. (num + 1) * k = num * k + k /\ num * k \in Nat
    BY <2>5, NextProduct
  <2>7. Len(sel.found) * k + k <= num * k /\ Len(sel.found) * k \in Nat
    BY <2>1, <2>5, ProductsGrow, NextProduct
  <2> DEFINE p == Len(sel.found) * k
             q == num * k
             e == EmptyTurns(sel)
  <2>8. p \in Nat /\ q \in Nat /\ e \in 0 .. BucketCount - 1 /\ p + k <= q /\ q + k <= p + e
    BY <2>2, <2>3, <2>4, <2>6, <2>7
  <2> HIDE DEF p, q, e
  <2> QED
    BY <1>1, <2>5, <2>8
<1> QED
  BY <1>2, <1>6, <1>7

-----------------------------------------------------------------------------
(* The steps *)

\* How many of some locators point to o.
HeldIn(s, o) == {i \in 1 .. Len(s) : s[i].obj = o}

\* They are finitely many.
LEMMA HeldFinite ==
  ASSUME NEW s \in Seq(Locator), NEW o
  PROVE  IsFiniteSet(HeldIn(s, o)) /\ Cardinality(HeldIn(s, o)) \in Nat
<1>1. Len(s) \in Nat
  OBVIOUS
<1>2. IsFiniteSet(1 .. Len(s)) /\ HeldIn(s, o) \in SUBSET (1 .. Len(s))
  BY <1>1, FS_Interval DEF HeldIn
<1> QED
  BY <1>2, FS_Subset, FS_CardinalityType

\* A step that changes nothing the invariant speaks of.
LEMMA StandSafe ==
  ASSUME IInv, UNCHANGED <<buckets, out, refs, locs, start, maxAddresses>>, undefined' \in BOOLEAN
  PROVE  IInv'
<1>1. TypeOK' /\ Ordered' /\ Pointing' /\ Descending'
  BY DEF IInv, TypeOK, Ordered, Pointing, Descending
<1>2. Apart'
  BY DEF IInv, Apart
<1>3. RefsCover'
  BY DEF IInv, RefsCover, Held, Named
<1> QED
  BY <1>1, <1>2, <1>3 DEF IInv

\* Without locators there is nothing to point.
LEMMA NothingPoints ==
  ASSUME locs' = <<>>
  PROVE  Pointing' /\ Descending'
BY DEF Pointing, Descending

\* What is looked up is in its bucket.
LEMMA LookUpIs ==
  ASSUME IInv, NEW k \in Keys
  PROVE  /\ BucketOf[k] \in Buckets
         /\ LookUp(k) # 0 => LookUp(k) \in 1 .. Len(buckets[BucketOf[k]])
<1>1. BucketOf[k] \in Buckets
  BY StoreAssumption
<1> DEFINE s == buckets[BucketOf[k]]
           I == {i \in 1 .. Len(s) : s[i].lost \/ Matches(s[i].key, k)}
<1>2. LookUp(k) = IF I # {} THEN Min(I) ELSE 0
  BY DEF LookUp, SelectInSeq
<1>3. I \in SUBSET Nat /\ I \subseteq 1 .. Len(s)
  OBVIOUS
<1> HIDE DEF I
<1>4. LookUp(k) # 0 => LookUp(k) \in I
  BY <1>2, <1>3, MinIsLeast
<1> QED
  BY <1>1, <1>3, <1>4

\* A free object is not named, and a received address gets one.
LEMMA ReceiveSafe ==
  ASSUME IInv, NEW k \in Keys, NEW t \in Times, Receive(k, t)
  PROVE  IInv'
<1>1. CASE Undefined
  BY <1>1, StandSafe DEF Undefined
<1>2. CASE ~Undefined
  <2>1. PICK o \in Objs :
          refs[o] = 0 /\ Insert([obj |-> o, key |-> k, time |-> t, lost |-> FALSE], 1)
    BY <1>2 DEF Receive
  <2>2. UNCHANGED <<out, locs, start, maxAddresses, undefined>> /\ locs = <<>>
    BY <1>2 DEF Receive
  <2> DEFINE e == [obj |-> o, key |-> k, time |-> t, lost |-> FALSE]
  <2>3. e \in Address /\ e.obj = o
    BY DEF Address
  <2>4. Insert(e, 1)
    BY <2>1
  <2> HIDE DEF e
  <2>5. ~Named(o)
    <3>1. Cardinality(Held(o)) \in Nat
      <4>1. Held(o) = HeldIn(locs, o) /\ locs \in Seq(Locator)
        BY DEF Held, HeldIn, IInv, TypeOK
      <4> QED
        BY <4>1, HeldFinite
    <3>2. Cardinality(Held(o)) + (IF Named(o) THEN 1 ELSE 0) <= refs[o]
      BY DEF IInv, RefsCover
    <3> QED
      BY <2>1, <3>1, <3>2
  <2>6. (\A b \in Buckets : e.obj \notin ObjsIn(buckets[b])) /\ (\A f \in out' : f.obj # e.obj)
    BY <2>2, <2>3, <2>5 DEF Named
  <2>7. locs' = <<>> /\ out' \subseteq out
    BY <2>2
  <2>8. /\ buckets' \in [Buckets -> Seq(Address)] /\ refs' \in [Objs -> Nat]
        /\ Ordered' /\ Apart' /\ RefsCover'
    <3>1. 1 \in Nat /\ 1 >= 1
      OBVIOUS
    <3> QED
      BY <2>3, <2>4, <2>6, <2>7, <3>1, InsertSafe
  <2>9. TypeOK'
    BY <2>2, <2>8 DEF IInv, TypeOK
  <2> QED
    BY <2>7, <2>8, <2>9, NothingPoints DEF IInv
<1> QED
  BY <1>1, <1>2

\* The communicator gives an address back that it alone has.
LEMMA ReturnSafe ==
  ASSUME IInv, NEW from, NEW e \in Address, NEW extra \in {0, 1}, e.obj = from.obj,
         Return(from, e, extra)
  PROVE  IInv'
<1>1. CASE Undefined
  BY <1>1, StandSafe DEF Undefined
<1>2. CASE ~Undefined
  <2>1. /\ locs = <<>> /\ from \in out /\ Insert(e, refs[e.obj] + extra) /\ out' = out \ {from}
        /\ UNCHANGED <<locs, start, maxAddresses, undefined>>
    BY <1>2 DEF Return
  <2>2. Apart /\ refs \in [Objs -> Nat] /\ e.obj \in Objs
    BY DEF IInv, TypeOK, Address
  <2>3. (\A b \in Buckets : e.obj \notin ObjsIn(buckets[b])) /\ (\A f \in out' : f.obj # e.obj)
    BY <2>1, <2>2 DEF Apart
  <2>4. refs[e.obj] >= 1
    <3>1. Named(e.obj)
      BY <2>1 DEF Named
    <3>2. Cardinality(Held(e.obj)) \in Nat
      <4>1. Held(e.obj) = HeldIn(locs, e.obj) /\ locs \in Seq(Locator)
        BY DEF Held, HeldIn, IInv, TypeOK
      <4> QED
        BY <4>1, HeldFinite
    <3>3. Cardinality(Held(e.obj)) + (IF Named(e.obj) THEN 1 ELSE 0) <= refs[e.obj]
      BY <2>2 DEF IInv, RefsCover
    <3> QED
      BY <2>2, <3>1, <3>2, <3>3
  <2> DEFINE n == refs[e.obj] + extra
  <2>5. n \in Nat /\ n >= 1
    BY <2>2, <2>4
  <2>6. Insert(e, n)
    BY <2>1
  <2>7. locs' = <<>> /\ out' \subseteq out
    BY <2>1
  <2> HIDE DEF n
  <2>8. /\ buckets' \in [Buckets -> Seq(Address)] /\ refs' \in [Objs -> Nat]
        /\ Ordered' /\ Apart' /\ RefsCover'
    BY <2>3, <2>5, <2>6, <2>7, InsertSafe
  <2>9. TypeOK'
    BY <2>1, <2>7, <2>8 DEF IInv, TypeOK
  <2> QED
    BY <2>7, <2>8, <2>9, NothingPoints DEF IInv
<1> QED
  BY <1>1, <1>2

\* The communicator lets an address go that it alone has.
LEMMA ReleaseSafe ==
  ASSUME IInv, NEW e, Release(e)
  PROVE  IInv'
<1>1. /\ locs = <<>> /\ e \in out /\ out' = out \ {e}
      /\ refs' = [refs EXCEPT ![e.obj] = @ - 1]
      /\ UNCHANGED <<buckets, locs, start, maxAddresses, undefined>>
  BY DEF Release
<1>2. Apart /\ refs \in [Objs -> Nat] /\ out \subseteq Address /\ e.obj \in Objs
  BY <1>1 DEF IInv, TypeOK, Address
<1>3. \A o \in Objs : Named(o) => 1 <= refs[o]
  <2> SUFFICES ASSUME NEW o \in Objs, Named(o) PROVE 1 <= refs[o]
    OBVIOUS
  <2>1. Cardinality(Held(o)) \in Nat
    <3>1. Held(o) = HeldIn(locs, o) /\ locs \in Seq(Locator)
      BY DEF Held, HeldIn, IInv, TypeOK
    <3> QED
      BY <3>1, HeldFinite
  <2>2. Cardinality(Held(o)) + (IF Named(o) THEN 1 ELSE 0) <= refs[o]
    BY DEF IInv, RefsCover
  <2> QED
    BY <1>2, <2>1, <2>2
<1>4. Named(e.obj)
  BY <1>1 DEF Named
<1>5. refs' \in [Objs -> Nat]
  BY <1>1, <1>2, <1>3, <1>4
<1>6. TypeOK' /\ Ordered'
  BY <1>1, <1>5 DEF IInv, TypeOK, Ordered
<1>7. Apart'
  BY <1>1, <1>2 DEF Apart
<1>8. RefsCover'
  <2> SUFFICES ASSUME NEW o \in Objs, Named(o)' PROVE 1 <= refs'[o]
    BY <1>1, <1>5, NoneHeld DEF RefsCover
  <2>1. o # e.obj /\ Named(o)
    BY <1>1, <1>2 DEF Named, Apart
  <2> QED
    BY <1>1, <1>2, <1>3, <2>1
<1> QED
  BY <1>1, <1>6, <1>7, <1>8, NothingPoints DEF IInv

\* A removal: the object is not released.
LEMMA RemoveAddressSafe ==
  ASSUME IInv, NEW k \in Keys, RemoveAddress(k)
  PROVE  IInv'
<1>1. CASE Undefined
  BY <1>1, StandSafe DEF Undefined
<1>2. CASE ~Undefined
  <2> DEFINE b == BucketOf[k]
             s == buckets[b]
             at == LookUp(k)
             rest == RemoveAt(s, at)
             t == IF at <= Len(rest) THEN [rest EXCEPT ![at].lost = TRUE] ELSE rest
  <2>1. /\ locs = <<>> /\ at # 0 /\ buckets' = [buckets EXCEPT ![b] = t]
        /\ UNCHANGED <<out, refs, locs, start, maxAddresses, undefined>>
    BY <1>2 DEF RemoveAddress
  <2>2. b \in Buckets /\ at \in 1 .. Len(s)
    BY <2>1, LookUpIs
  <2>3. s \in Seq(Address) /\ InOrder(s, b) /\ Once(s)
    BY <2>2 DEF IInv, TypeOK, Ordered, InOrder, Apart
  <2> HIDE DEF s, at, b
  <2>4. /\ rest \in Seq(Address) /\ InOrder(rest, b) /\ Once(rest)
        /\ ObjsIn(rest) = ObjsIn(s) \ {s[at].obj}
    BY <2>2, <2>3, RemoveKeeps
  <2> HIDE DEF rest
  <2>5. /\ t \in Seq(Address) /\ Len(t) = Len(rest)
        /\ \A i \in 1 .. Len(rest) : t[i].key = rest[i].key /\ t[i].time = rest[i].time /\ t[i].obj = rest[i].obj
    <3>1. CASE at <= Len(rest)
      <4>1. at \in 1 .. Len(rest) /\ rest[at] \in Address
        BY <2>2, <2>4, <3>1
      <4> DEFINE a == [rest[at] EXCEPT !.lost = TRUE]
      <4>2. a \in Address /\ a.key = rest[at].key /\ a.time = rest[at].time /\ a.obj = rest[at].obj
        BY <4>1 DEF Address
      <4>3. t = [rest EXCEPT ![at] = a]
        BY <3>1
      <4> HIDE DEF a, t
      <4> QED
        BY <2>4, <4>1, <4>2, <4>3
    <3>2. CASE ~(at <= Len(rest))
      BY <2>4, <3>2
    <3> QED
      BY <3>1, <3>2
  <2> HIDE DEF t
  <2>6. InOrder(t, b) /\ Once(t) /\ ObjsIn(t) = ObjsIn(rest)
    <3>1. Len(rest) \in Nat
      BY <2>4
    <3>2. InOrder(t, b)
      BY <2>4, <2>5, <3>1 DEF InOrder
    <3> QED
      BY <2>4, <2>5, <3>2 DEF Once, ObjsIn
  <2>7. /\ buckets' \in [Buckets -> Seq(Address)] /\ Ordered'
        /\ \A c \in Buckets : Once(buckets'[c])
        /\ \A c \in Buckets : ObjsIn(buckets'[c]) = IF c = b THEN ObjsIn(t) ELSE ObjsIn(buckets[c])
    BY <2>1, <2>2, <2>5, <2>6, BucketChanged
  <2>8. \A c \in Buckets : ObjsIn(buckets'[c]) \subseteq ObjsIn(buckets[c])
    BY <2>4, <2>6, <2>7 DEF s
  <2>9. TypeOK'
    BY <2>1, <2>7 DEF IInv, TypeOK
  <2>10. Apart'
    BY <2>1, <2>7, <2>8 DEF IInv, Apart
  <2>11. RefsCover'
    <3> SUFFICES ASSUME NEW o \in Objs
                 PROVE  Cardinality(Held(o)') + (IF Named(o)' THEN 1 ELSE 0) <= refs'[o]
      BY DEF RefsCover
    <3>1. Cardinality(Held(o)') = 0 /\ Cardinality(Held(o)) = 0
      <4>1. Held(o) = {} /\ Held(o)' = {}
        BY <2>1 DEF Held
      <4> QED
        BY <4>1, FS_EmptySet
    <3>2. Named(o)' => Named(o)
      BY <2>1, <2>8 DEF Named
    <3>3. Cardinality(Held(o)) + (IF Named(o) THEN 1 ELSE 0) <= refs[o] /\ refs[o] \in Nat
      BY DEF IInv, RefsCover, TypeOK
    <3> QED
      BY <2>1, <3>1, <3>2, <3>3
  <2> QED
    BY <2>1, <2>7, <2>9, <2>10, <2>11, NothingPoints DEF IInv
<1> QED
  BY <1>1, <1>2

\* The locators that are left: the last of those that were found, and of each
\* object no more than there were.
LEMMA ListedHeld ==
  ASSUME NEW s \in Seq(Locator)
  PROVE  \E k \in Nat :
           /\ Listed(s) \in Seq(Locator) /\ Len(Listed(s)) \in Nat /\ Len(Listed(s)) + k = Len(s)
           /\ \A i \in 1 .. Len(Listed(s)) : i + k \in 1 .. Len(s) /\ Listed(s)[i] = s[i + k]
           /\ \A o : Cardinality(HeldIn(Listed(s), o)) <= Cardinality(HeldIn(s, o))
<1> DEFINE n == Len(s)
           left == n % (CountMax + 1)
           k == n - left
           t == Listed(s)
<1>1. n \in Nat /\ CountMax \in Nat
  BY StoreAssumption
<1>2. left \in Nat /\ left <= n
  <2> HIDE DEF n
  <2>1. \A m, d \in Nat : d # 0 => m % d \in Nat /\ m % d <= m
    OBVIOUS
  <2>2. CountMax + 1 \in Nat /\ CountMax + 1 # 0
    BY <1>1
  <2> QED
    BY <1>1, <2>1, <2>2
<1>3. t = SubSeq(s, k + 1, n)
  BY <1>1, <1>2 DEF Listed
<1> HIDE DEF left
<1>4. k \in Nat /\ k <= n
  BY <1>1, <1>2
<1> HIDE DEF k, t
<1>5. /\ t \in Seq(Locator) /\ Len(t) = n - k
      /\ \A i \in 1 .. n - k : t[i] = s[i + k]
  <2>1. CASE k = n
    BY <1>1, <1>3, <1>4, <2>1
  <2>2. CASE k # n
    <3>1. k + 1 \in 1 .. n
      BY <1>1, <1>4, <2>2
    <3> QED
      BY <1>1, <1>3, <1>4, <3>1
  <2> QED
    BY <2>1, <2>2
<1> HIDE DEF n
<1>6. \A i \in 1 .. n - k : i + k \in 1 .. n
  BY <1>1, <1>4
<1>7. ASSUME NEW o PROVE Cardinality(HeldIn(t, o)) <= Cardinality(HeldIn(s, o))
  <2> DEFINE A == HeldIn(t, o)
             B == HeldIn(s, o)
             f == [i \in A |-> i + k]
  <2>1. IsFiniteSet(A) /\ IsFiniteSet(B)
    BY <1>5, HeldFinite
  <2>2. A = {i \in 1 .. n - k : t[i].obj = o} /\ B = {i \in 1 .. n : s[i].obj = o}
    BY <1>5 DEF HeldIn, n
  <2>3. \A i \in A : i \in Nat /\ i + k \in B
    BY <1>5, <1>6, <2>2
  <2> HIDE DEF A, B
  <2>4. f \in Injection(A, B)
    <3>1. f \in [A -> B]
      BY <2>3
    <3>2. \A i, j \in A : f[i] = f[j] => i = j
      BY <1>4, <2>3
    <3> HIDE DEF f
    <3> QED
      BY <3>1, <3>2 DEF Injection, IsInjective
  <2>5. Cardinality(A) <= Cardinality(B)
    BY <2>1, <2>4, FS_Injection DEF ExistsInjection
  <2> QED
    BY <2>5 DEF A, B
<1> QED
  <2>1. Len(t) \in Nat /\ Len(t) + k = n
    BY <1>1, <1>4, <1>5
  <2> QED
    BY <1>4, <1>5, <1>6, <1>7, <2>1 DEF n, t

\* The loop takes its locators, with a reference each.
LEMMA BeginSafe ==
  ASSUME IInv, NEW num \in Nat, NEW first \in Buckets, Begin(num, first)
  PROVE  IInv'
<1>0. CASE Undefined
  BY <1>0, StandSafe DEF Undefined
<1> SUFFICES ASSUME ~Undefined PROVE IInv'
  BY <1>0
<1> DEFINE got == Addresses(Asked(num), first)
<1>1. /\ locs = <<>> /\ locs' = Listed(got)
      /\ start' = IF locs' = <<>> THEN 0 ELSE first
      /\ refs' = [o \in Objs |-> refs[o] + Cardinality({i \in DOMAIN got : got[i].obj = o})]
      /\ UNCHANGED <<buckets, out, maxAddresses, undefined>>
  BY Zenon DEF Begin
<1>2. PICK sel : /\ got = sel.found /\ Selecting(sel, Asked(num))
                 /\ first # 0 => Rounds(sel, first)
  <2>1. Asked(num) \in Nat
    BY StoreAssumption, FS_CardinalityType DEF Asked
  <2> QED
    BY <2>1, SelectionEnds
<1> HIDE DEF got
<1>3. /\ got \in Seq(Locator) /\ Len(got) \in Nat
      /\ \A i \in 1 .. Len(got) : Points(got[i])
      /\ first # 0 => \A i, j \in 1 .. Len(got) :
           i < j /\ got[i].bucket = got[j].bucket => got[j].at < got[i].at
  <2>1. sel.found \in Seq(Locator) /\ \A i \in 1 .. Len(sel.found) : Points(sel.found[i])
    BY <1>2 DEF Selecting, SelType
  <2> QED
    BY <1>2, <2>1 DEF Rounds
<1>13. PICK k \in Nat :
         /\ locs' \in Seq(Locator) /\ Len(locs') \in Nat
         /\ \A i \in 1 .. Len(locs') : i + k \in 1 .. Len(got) /\ locs'[i] = got[i + k]
         /\ \A o : Cardinality(HeldIn(locs', o)) <= Cardinality(HeldIn(got, o))
  BY <1>1, <1>3, ListedHeld
<1>14. \A i \in 1 .. Len(locs') : Points(locs'[i])
  BY <1>3, <1>13
<1>4. ASSUME NEW o \in Objs
      PROVE  /\ Held(o)' = HeldIn(locs', o) /\ Cardinality(Held(o)') \in Nat
             /\ Cardinality(HeldIn(got, o)) \in Nat
             /\ Cardinality(Held(o)') <= Cardinality(HeldIn(got, o))
             /\ refs'[o] = refs[o] + Cardinality(HeldIn(got, o))
  <2>1. Held(o)' = HeldIn(locs', o)
    BY DEF Held, HeldIn
  <2>2. DOMAIN got = 1 .. Len(got)
    BY <1>3
  <2>3. refs'[o] = refs[o] + Cardinality(HeldIn(got, o))
    BY <1>1, <2>2 DEF HeldIn
  <2>4. Cardinality(HeldIn(locs', o)) \in Nat /\ Cardinality(HeldIn(got, o)) \in Nat
    BY <1>3, <1>13, HeldFinite
  <2> QED
    BY <1>13, <2>1, <2>3, <2>4
<1>5. refs \in [Objs -> Nat]
  BY DEF IInv, TypeOK
<1>6. refs' \in [Objs -> Nat]
  <2> DEFINE more(o) == refs[o] + Cardinality({i \in DOMAIN got : got[i].obj = o})
  <2>1. refs' = [o \in Objs |-> more(o)]
    BY <1>1
  <2>2. \A o \in Objs : more(o) \in Nat
    <3>1. \A o \in Objs : more(o) = refs'[o]
      BY <2>1
    <3>2. \A o \in Objs : refs'[o] \in Nat
      BY <1>4, <1>5
    <3> HIDE DEF more
    <3> QED
      BY <3>1, <3>2
  <2> HIDE DEF more
  <2> QED
    BY <2>1, <2>2
<1>7. start' \in Buckets
  BY <1>1, StoreAssumption DEF Buckets
<1>8. TypeOK' /\ Ordered'
  BY <1>1, <1>6, <1>7, <1>13 DEF IInv, TypeOK, Ordered
<1>9. Apart'
  BY <1>1 DEF IInv, Apart
<1>10. RefsCover'
  <2> SUFFICES ASSUME NEW o \in Objs
               PROVE  Cardinality(Held(o)') + (IF Named(o)' THEN 1 ELSE 0) <= refs'[o]
    BY DEF RefsCover
  <2>1. Cardinality(Held(o)) \in Nat
    <3>1. Held(o) = HeldIn(locs, o) /\ locs \in Seq(Locator)
      BY DEF Held, HeldIn, IInv, TypeOK
    <3> QED
      BY <3>1, HeldFinite
  <2>2. Cardinality(Held(o)) + (IF Named(o) THEN 1 ELSE 0) <= refs[o]
    BY DEF IInv, RefsCover
  <2>3. Named(o)' <=> Named(o)
    BY <1>1 DEF Named
  <2> QED
    BY <1>4, <1>5, <2>1, <2>2, <2>3
<1>11. Pointing'
  <2>1. \A i \in 1 .. Len(locs') : locs'[i] \in Locator
    BY <1>13
  <2> QED
    BY <1>1, <1>14, <2>1 DEF Pointing, Points
<1>12. Descending'
  <2>1. CASE start' = 0
    BY <2>1 DEF Descending
  <2>2. CASE start' # 0
    <3>1. first # 0
      BY <1>1, <2>2
    <3>2. ASSUME NEW i \in 1 .. Len(locs'), NEW j \in 1 .. Len(locs'), i < j,
                 locs'[i].bucket = locs'[j].bucket
          PROVE  locs'[j].at < locs'[i].at
      <4>1. /\ i + k \in 1 .. Len(got) /\ locs'[i] = got[i + k]
            /\ j + k \in 1 .. Len(got) /\ locs'[j] = got[j + k]
        BY <1>13
      <4>2. i + k < j + k
        BY <1>13, <3>2
      <4> QED
        BY <1>3, <3>1, <3>2, <4>1, <4>2
    <3> QED
      BY <3>2 DEF Descending
  <2> QED
    BY <2>1, <2>2
<1> QED
  BY <1>8, <1>9, <1>10, <1>11, <1>12 DEF IInv

\* Another run reads the buckets back: what they point to has one reference.
LEMMA ReloadSafe ==
  ASSUME IInv, Reload
  PROVE  IInv'
<1> DEFINE stored == UNION {ToSet(buckets[b]) : b \in Buckets}
<1>1. CASE Undefined
  BY <1>1, StandSafe DEF Undefined
<1>2. CASE ~Undefined
  <2>1. /\ locs = <<>> /\ maxAddresses' \in MaxSizes /\ out' = {}
        /\ refs' = [o \in Objs |-> IF \E e \in stored : e.obj = o THEN 1 ELSE 0]
        /\ UNCHANGED <<buckets, locs, start, undefined>>
    BY <1>2 DEF Reload
  <2>2. ASSUME NEW b \in Buckets, NEW o \in ObjsIn(buckets[b]) PROVE \E e \in stored : e.obj = o
    <3>1. buckets[b] \in Seq(Address)
      BY DEF IInv, TypeOK
    <3>2. PICK i \in 1 .. Len(buckets[b]) : o = buckets[b][i].obj
      BY DEF ObjsIn
    <3>3. buckets[b][i] \in ToSet(buckets[b])
      BY <3>1, <3>2 DEF ToSet
    <3> QED
      BY <3>2, <3>3
  <2> HIDE DEF stored
  <2>3. refs' \in [Objs -> Nat]
    BY <2>1
  <2>4. TypeOK' /\ Ordered'
    BY <2>1, <2>3 DEF IInv, TypeOK, Ordered
  <2>5. Apart'
    BY <2>1 DEF IInv, Apart
  <2>6. RefsCover'
    <3> SUFFICES ASSUME NEW o \in Objs, Named(o)' PROVE 1 <= refs'[o]
      BY <2>1, <2>3, NoneHeld DEF RefsCover
    <3>1. PICK b \in Buckets : o \in ObjsIn(buckets[b])
      BY <2>1 DEF Named
    <3> QED
      BY <2>1, <2>2, <3>1
  <2> QED
    BY <2>1, <2>4, <2>5, <2>6, NothingPoints DEF IInv
<1> QED
  BY <1>1, <1>2

\* A locator fewer: its object is held once less.
LEMMA TailHeld ==
  ASSUME NEW s \in Seq(Locator), s # <<>>, NEW o
  PROVE  /\ Tail(s) \in Seq(Locator) /\ Len(Tail(s)) = Len(s) - 1
         /\ \A i \in 1 .. Len(s) - 1 : Tail(s)[i] = s[i + 1]
         /\ Cardinality(HeldIn(Tail(s), o))
              = Cardinality(HeldIn(s, o)) - (IF Head(s).obj = o THEN 1 ELSE 0)
<1> DEFINE t == Tail(s)
           n == Len(s)
           A == HeldIn(s, o) \ {1}
           B == HeldIn(t, o)
           f == [i \in A |-> i - 1]
<1>1. /\ n \in Nat /\ n >= 1 /\ t \in Seq(Locator) /\ Len(t) = n - 1 /\ Head(s) = s[1]
      /\ \A i \in 1 .. n - 1 : t[i] = s[i + 1]
  OBVIOUS
<1> HIDE DEF n, t
<1>2. IsFiniteSet(HeldIn(s, o)) /\ Cardinality(HeldIn(s, o)) \in Nat
  BY HeldFinite
<1>3. (1 \in HeldIn(s, o)) <=> (Head(s).obj = o)
  BY <1>1 DEF HeldIn, n
<1>4. IsFiniteSet(A) /\ Cardinality(A) = IF 1 \in HeldIn(s, o) THEN Cardinality(HeldIn(s, o)) - 1
                                         ELSE Cardinality(HeldIn(s, o))
  BY <1>2, FS_RemoveElement
<1>5. \A i \in A : i \in 2 .. n /\ s[i].obj = o
  BY <1>1 DEF HeldIn, n
<1>6. \A i : i \in B <=> i \in 1 .. n - 1 /\ s[i + 1].obj = o
  BY <1>1 DEF HeldIn
<1>7. \A i \in 2 .. n : s[i].obj = o => i \in A
  BY <1>1 DEF HeldIn, n
<1> HIDE DEF A, B
<1>8. f \in Bijection(A, B)
  <2>1. f \in [A -> B]
    <3>1. ASSUME NEW i \in A PROVE i - 1 \in B
      <4>0. i \in 2 .. n /\ s[i].obj = o
        BY <1>5
      <4>1. (i - 1) + 1 = i /\ i - 1 \in 1 .. n - 1
        BY <1>1, <4>0
      <4> QED
        BY <1>6, <4>0, <4>1
    <3> QED
      BY <3>1
  <2>2. \A i, j \in A : f[i] = f[j] => i = j
    BY <1>1, <1>5
  <2>3. ASSUME NEW k \in B PROVE \E i \in A : f[i] = k
    <3>1. k + 1 \in 2 .. n /\ s[k + 1].obj = o /\ (k + 1) - 1 = k
      BY <1>1, <1>6
    <3>2. k + 1 \in A
      BY <1>7, <3>1
    <3> QED
      BY <3>1, <3>2
  <2> HIDE DEF f
  <2> QED
    BY <2>1, <2>2, <2>3 DEF Bijection, Injection, Surjection, IsInjective
<1>9. Cardinality(B) = Cardinality(A)
  <2>1. ExistsBijection(A, B)
    BY <1>8 DEF ExistsBijection
  <2> QED
    BY <1>4, <2>1, FS_Bijection
<1> QED
  BY <1>1, <1>2, <1>3, <1>4, <1>9 DEF t, n, B

\* The next locator is tried: the removal of its slot moves none of those that
\* the others point to, and takes the reference of the slot and that of the
\* locator, or leaves the first to the connection.
LEMMA TrySafe ==
  ASSUME IInv, NEW outcome \in {"kept", "dropped", "connecting"}, Try(outcome)
  PROVE  IInv'
<1> DEFINE l == Head(locs)
           b == l.bucket
           s == buckets[b]
<1>1. CASE Undefined
  BY <1>1, StandSafe DEF Undefined
<1>2. CASE ~Undefined
  <2>0. /\ locs # <<>> /\ ~(l.at > Len(s) \/ (l.at <= Len(s) /\ s[l.at].obj # l.obj))
        /\ buckets' = IF outcome = "kept" THEN buckets ELSE [buckets EXCEPT ![b] = RemoveAt(s, l.at)]
        /\ out' = IF outcome = "connecting" THEN out \union {s[l.at]} ELSE out
        /\ refs' = [refs EXCEPT ![l.obj] = IF outcome = "dropped" THEN @ - 2 ELSE @ - 1]
        /\ locs' = Tail(locs) /\ start' = IF Len(locs) = 1 THEN 0 ELSE start
        /\ UNCHANGED <<maxAddresses, undefined>>
    BY <1>2, Zenon DEF Try
  <2>2. locs \in Seq(Locator) /\ Len(locs) \in Nat /\ Len(locs) >= 1 /\ l = locs[1] /\ l \in Locator
    BY <2>0 DEF IInv, TypeOK
  <2>3. b \in Buckets /\ l.obj \in Objs /\ l.at \in Nat \ {0}
    <3>1. l.at \in 1 .. Cardinality(Objs)
      BY <2>2 DEF Locator
    <3> QED
      BY <2>2, <3>1 DEF Locator
  <2>1. /\ locs # <<>> /\ ~(l.at > Len(s)) /\ s[l.at].obj = l.obj
        /\ buckets' = IF outcome = "kept" THEN buckets ELSE [buckets EXCEPT ![b] = RemoveAt(s, l.at)]
        /\ out' = IF outcome = "connecting" THEN out \union {s[l.at]} ELSE out
        /\ refs' = [refs EXCEPT ![l.obj] = IF outcome = "dropped" THEN @ - 2 ELSE @ - 1]
        /\ locs' = Tail(locs) /\ start' = IF Len(locs) = 1 THEN 0 ELSE start
        /\ UNCHANGED <<maxAddresses, undefined>>
    <3>1. Len(s) \in Nat
      BY <2>3 DEF IInv, TypeOK
    <3>2. l.at > Len(s) \/ l.at <= Len(s)
      BY <2>3, <3>1
    <3> HIDE DEF l, s, b
    <3> QED
      BY <2>0, <3>2
  <2>4. /\ Len(locs') = Len(locs) - 1 /\ locs' \in Seq(Locator)
        /\ \A i \in 1 .. Len(locs) - 1 : locs'[i] = locs[i + 1]
    BY <2>1, <2>2, TailHeld
  <2>5. ASSUME NEW o \in Objs
        PROVE  /\ Cardinality(Held(o)) \in Nat /\ Cardinality(Held(o)') \in Nat
               /\ Cardinality(Held(o)') = Cardinality(Held(o)) - (IF l.obj = o THEN 1 ELSE 0)
               /\ Cardinality(Held(o)) + (IF Named(o) THEN 1 ELSE 0) <= refs[o]
    <3>1. Held(o) = HeldIn(locs, o) /\ Held(o)' = HeldIn(locs', o)
      BY DEF Held, HeldIn
    <3>2. Cardinality(HeldIn(locs', o)) = Cardinality(HeldIn(locs, o)) - (IF l.obj = o THEN 1 ELSE 0)
      BY <2>1, <2>2, TailHeld
    <3>3. Cardinality(HeldIn(locs, o)) \in Nat /\ Cardinality(HeldIn(locs', o)) \in Nat
      BY <2>2, <2>4, HeldFinite
    <3>4. Cardinality(Held(o)) + (IF Named(o) THEN 1 ELSE 0) <= refs[o]
      BY DEF IInv, RefsCover
    <3> QED
      BY <3>1, <3>2, <3>3, <3>4
  <2>6. /\ refs \in [Objs -> Nat] /\ buckets \in [Buckets -> Seq(Address)] /\ out \subseteq Address
        /\ start \in Buckets /\ s \in Seq(Address) /\ InOrder(s, b) /\ Once(s) /\ Apart
    BY <2>3 DEF IInv, TypeOK, Ordered, InOrder, Apart
  <2> HIDE DEF l
  <2> HIDE DEF b, s
  <2>7. l.at \in 1 .. Len(s) /\ s[l.at] \in Address /\ l.obj \in ObjsIn(s)
    <3>1. Len(s) \in Nat
      BY <2>6
    <3>2. l.at \in 1 .. Len(s)
      BY <2>1, <2>3, <3>1
    <3> QED
      BY <2>1, <2>6, <3>2 DEF ObjsIn
  <2>8. Named(l.obj)
    BY <2>3, <2>7 DEF Named, s
  <2> DEFINE t == IF outcome = "kept" THEN s ELSE RemoveAt(s, l.at)
  <2>9. /\ t \in Seq(Address) /\ InOrder(t, b) /\ Once(t)
        /\ ObjsIn(t) = IF outcome = "kept" THEN ObjsIn(s) ELSE ObjsIn(s) \ {l.obj}
        /\ \A i \in 1 .. l.at - 1 : i \in 1 .. Len(t) /\ t[i] = s[i]
    <3>1. CASE outcome = "kept"
      BY <2>3, <2>6, <2>7, <3>1
    <3>2. CASE outcome # "kept"
      <4> DEFINE r == RemoveAt(s, l.at)
      <4>1. r \in Seq(Address) /\ InOrder(r, b) /\ Once(r) /\ ObjsIn(r) = ObjsIn(s) \ {l.obj}
        BY <2>1, <2>6, <2>7, RemoveKeeps
      <4>2. Len(r) = Len(s) - 1 /\ \A j \in 1 .. Len(s) - 1 : r[j] = IF j < l.at THEN s[j] ELSE s[j + 1]
        BY <2>6, <2>7, RemoveAtIs
      <4> HIDE DEF r
      <4>3. \A i \in 1 .. l.at - 1 : i \in 1 .. Len(r) /\ r[i] = s[i]
        <5>1. Len(s) \in Nat
          BY <2>6
        <5> QED
          BY <2>7, <4>2, <5>1
      <4>4. t = r
        BY <3>2 DEF r
      <4> HIDE DEF t
      <4> QED
        BY <3>2, <4>1, <4>3, <4>4
    <3> QED
      BY <3>1, <3>2
  <2>10. buckets' = [buckets EXCEPT ![b] = t]
    <3>1. CASE outcome = "kept"
      BY <2>1, <2>3, <2>6, <3>1 DEF s
    <3>2. CASE outcome # "kept"
      BY <2>1, <3>2
    <3> QED
      BY <3>1, <3>2
  <2> HIDE DEF t
  <2>11. /\ buckets' \in [Buckets -> Seq(Address)] /\ Ordered'
         /\ \A c \in Buckets : Once(buckets'[c])
         /\ \A c \in Buckets : ObjsIn(buckets'[c]) = IF c = b THEN ObjsIn(t) ELSE ObjsIn(buckets[c])
    <3>1. b \in Buckets
      BY <2>3 DEF b
    <3> QED
      BY <2>9, <2>10, <3>1, BucketChanged
  <2>12. start' \in Buckets
    BY <2>1, <2>6, StoreAssumption DEF Buckets
  <2>13. refs' \in [Objs -> Nat]
    <3>1. Cardinality(Held(l.obj)) >= 1
      <4>1. PICK o \in Objs : o = l.obj
        BY <2>3
      <4>2. /\ Cardinality(Held(o)) \in Nat /\ Cardinality(Held(o)') \in Nat
            /\ Cardinality(Held(o)') = Cardinality(Held(o)) - 1
        BY <2>5, <4>1
      <4>3. Cardinality(Held(o)) >= 1
        BY <4>2
      <4> QED
        BY <4>1, <4>3
    <3>2. Cardinality(Held(l.obj)) + 1 <= refs[l.obj] /\ Cardinality(Held(l.obj)) \in Nat
      BY <2>3, <2>5, <2>8
    <3>3. refs[l.obj] - 1 \in Nat /\ refs[l.obj] - 2 \in Nat
      BY <2>3, <2>6, <3>1, <3>2
    <3> QED
      BY <2>1, <2>3, <2>6, <3>3
  <2>14. TypeOK'
    <3>1. out' \subseteq Address
      BY <2>1, <2>6, <2>7
    <3> QED
      BY <2>1, <2>4, <2>11, <2>12, <2>13, <3>1 DEF IInv, TypeOK
  <2>15. b \in Buckets /\ \A c \in Buckets : c # b => l.obj \notin ObjsIn(buckets[c])
    BY <2>3, <2>6, <2>7 DEF Apart, s, b
  <2>16. Apart'
    <3>1. \A c, d \in Buckets : c # d => ObjsIn(buckets'[c]) \cap ObjsIn(buckets'[d]) = {}
      <4>1. \A c \in Buckets : ObjsIn(buckets'[c]) \subseteq ObjsIn(buckets[c])
        BY <2>9, <2>11 DEF s
      <4> QED
        BY <2>6, <4>1 DEF Apart
    <3>2. \A e \in out : e.obj # l.obj
      BY <2>6, <2>7, <2>15 DEF Apart, s
    <3>3. \A e, f \in out' : e.obj = f.obj => e = f
      BY <2>1, <2>6, <3>2 DEF Apart
    <3>4. \A e \in out', c \in Buckets : e.obj \notin ObjsIn(buckets'[c])
      BY <2>1, <2>6, <2>9, <2>11, <2>15 DEF Apart, s
    <3> QED
      BY <2>11, <3>1, <3>3, <3>4 DEF Apart
  <2>17. RefsCover'
    <3> SUFFICES ASSUME NEW o \in Objs
                 PROVE  Cardinality(Held(o)') + (IF Named(o)' THEN 1 ELSE 0) <= refs'[o]
      BY DEF RefsCover
    <3>1. CASE o = l.obj
      <4>1. outcome = "dropped" => ~Named(o)'
        BY <2>1, <2>9, <2>11, <2>15, <2>6, <2>7, <3>1 DEF Named, Apart, s
      <4>2. refs'[o] = IF outcome = "dropped" THEN refs[o] - 2 ELSE refs[o] - 1
        BY <2>1, <2>3, <2>6, <3>1
      <4>3. Cardinality(Held(o)) + 1 <= refs[o] /\ Cardinality(Held(o)') = Cardinality(Held(o)) - 1
            /\ Cardinality(Held(o)) \in Nat /\ refs[o] \in Nat
        BY <2>3, <2>5, <2>6, <2>8, <3>1
      <4> QED
        BY <4>1, <4>2, <4>3
    <3>2. CASE o # l.obj
      <4>1. Named(o)' => Named(o)
        <5>1. \A c \in Buckets : ObjsIn(buckets'[c]) \subseteq ObjsIn(buckets[c])
          BY <2>9, <2>11 DEF s
        <5> QED
          BY <2>1, <3>2, <5>1 DEF Named
      <4>2. refs'[o] = refs[o]
        BY <2>1, <2>3, <2>6, <3>2
      <4>3. Cardinality(Held(o)') = Cardinality(Held(o)) /\ Cardinality(Held(o)) \in Nat
            /\ Cardinality(Held(o)) + (IF Named(o) THEN 1 ELSE 0) <= refs[o] /\ refs[o] \in Nat
        BY <2>5, <2>6, <3>2
      <4> QED
        BY <4>1, <4>2, <4>3
    <3> QED
      BY <3>1, <3>2
  <2>18. ASSUME start' # 0
         PROVE  /\ start # 0
                /\ \A i \in 1 .. Len(locs) - 1 : locs[i + 1] \in Locator /\ Points(locs[i + 1])
                /\ \A i \in 1 .. Len(locs) - 1 : locs[i + 1].bucket = b => locs[i + 1].at < l.at
    <3>1. start # 0
      BY <2>1, <2>18
    <3>2. \A i \in 1 .. Len(locs) - 1 : i + 1 \in 1 .. Len(locs) /\ 1 < i + 1 /\ locs[i + 1] \in Locator
      BY <2>2
    <3>3. \A i \in 1 .. Len(locs) : locs[i].at \in 1 .. Cardinality(Objs) /\ locs[i].bucket \in Buckets
      <4>1. \A i \in 1 .. Len(locs) : locs[i] \in Locator
        BY <2>2
      <4>2. \A m \in Locator : m.at \in 1 .. Cardinality(Objs) /\ m.bucket \in Buckets
        BY DEF Locator
      <4> QED
        BY <4>1, <4>2
    <3>4. \A i \in 1 .. Len(locs) : Points(locs[i])
      <4>1. \A i \in 1 .. Len(locs) : locs[i].at >= 1 /\ locs[i].at \in Nat /\ Len(buckets[locs[i].bucket]) \in Nat
        <5>1. \A c \in Buckets : Len(buckets[c]) \in Nat
          BY <2>6
        <5> QED
          BY <3>3, <5>1
      <4> QED
        BY <3>1, <4>1 DEF IInv, Pointing, Points
    <3>5. \A i \in 1 .. Len(locs) - 1 : locs[i + 1].bucket = b => locs[i + 1].at < l.at
      <4>1. 1 \in 1 .. Len(locs)
        BY <2>2
      <4> QED
        BY <2>2, <3>1, <3>2, <4>1 DEF IInv, Descending, b
    <3> QED
      BY <3>1, <3>2, <3>4, <3>5
  <2>19. Pointing'
    <3> SUFFICES ASSUME start' # 0, NEW i \in 1 .. Len(locs')
                 PROVE  /\ locs'[i].at <= Len(buckets'[locs'[i].bucket])
                        /\ buckets'[locs'[i].bucket][locs'[i].at].obj = locs'[i].obj
      BY DEF Pointing
    <3> DEFINE m == locs[i + 1]
    <3>1. i \in 1 .. Len(locs) - 1 /\ locs'[i] = m
      BY <2>4
    <3>2. m \in Locator /\ Points(m) /\ (m.bucket = b => m.at < l.at)
      BY <2>18, <3>1
    <3> HIDE DEF m
    <3>3. m.bucket \in Buckets /\ m.at \in Nat \ {0}
      <4>1. m.at \in 1 .. Cardinality(Objs)
        BY <3>2 DEF Locator
      <4> QED
        BY <3>2, <4>1 DEF Locator
    <3>4. CASE m.bucket = b
      <4>1. m.at \in 1 .. l.at - 1
        BY <2>7, <3>2, <3>3, <3>4
      <4>2. buckets'[m.bucket] = t
        BY <2>6, <2>10, <3>3, <3>4
      <4>3. Len(t) \in Nat /\ m.at \in 1 .. Len(t) /\ t[m.at] = s[m.at]
        BY <2>9, <4>1
      <4> QED
        BY <3>1, <3>2, <3>4, <4>2, <4>3 DEF Points, s
    <3>5. CASE m.bucket # b
      <4>1. buckets'[m.bucket] = buckets[m.bucket] /\ Len(buckets[m.bucket]) \in Nat
        BY <2>6, <2>10, <3>3, <3>5
      <4> QED
        BY <3>1, <3>2, <4>1 DEF Points
    <3> QED
      BY <3>4, <3>5
  <2>20. Descending'
    <3> SUFFICES ASSUME start' # 0, NEW i \in 1 .. Len(locs'), NEW j \in 1 .. Len(locs'),
                        i < j, locs'[i].bucket = locs'[j].bucket
                 PROVE  locs'[j].at < locs'[i].at
      BY DEF Descending
    <3>0. Len(locs) \in Nat /\ i \in 1 .. Len(locs) - 1 /\ j \in 1 .. Len(locs) - 1
      BY <2>2, <2>4
    <3>1. /\ i + 1 \in 1 .. Len(locs) /\ j + 1 \in 1 .. Len(locs) /\ i + 1 < j + 1
          /\ locs'[i] = locs[i + 1] /\ locs'[j] = locs[j + 1]
      BY <2>4, <3>0
    <3>2. start # 0
      BY <2>18
    <3> QED
      BY <3>1, <3>2 DEF IInv, Descending
  <2> QED
    BY <2>11, <2>14, <2>16, <2>17, <2>19, <2>20 DEF IInv
<1> QED
  BY <1>1, <1>2

-----------------------------------------------------------------------------
(* The store is sound *)

\* A set without two elements.
LEMMA AtMostOne ==
  ASSUME NEW S, \A x, y \in S : x = y
  PROVE  Cardinality(S) = (IF S = {} THEN 0 ELSE 1)
<1>1. CASE S = {}
  BY <1>1, FS_EmptySet
<1>2. CASE S # {}
  <2>1. PICK x \in S : TRUE
    BY <1>2
  <2>2. S = {x}
    BY <2>1
  <2> QED
    BY <1>2, <2>2, FS_Singleton
<1> QED
  BY <1>1, <1>2

\* Initially the store is empty.
LEMMA InitSafe ==
  ASSUME Init
  PROVE  IInv
<1>1. /\ buckets = [b \in Buckets |-> <<>>] /\ out = {} /\ refs = [o \in Objs |-> 0]
      /\ locs = <<>> /\ start = 0 /\ maxAddresses \in MaxSizes /\ undefined = FALSE
  BY DEF Init
<1>2. \A b \in Buckets : buckets[b] = <<>> /\ Len(buckets[b]) = 0 /\ ObjsIn(buckets[b]) = {}
  BY <1>1 DEF ObjsIn
<1>3. 0 \in Buckets
  BY StoreAssumption DEF Buckets
<1>4. buckets \in [Buckets -> Seq(Address)] /\ locs \in Seq(Locator) /\ refs \in [Objs -> Nat]
  BY <1>1
<1>5. TypeOK
  BY <1>1, <1>3, <1>4 DEF TypeOK
<1>6. Ordered
  BY <1>2 DEF Ordered
<1>7. Apart
  BY <1>1, <1>2 DEF Apart, Once
<1>8. RefsCover
  <2> SUFFICES ASSUME NEW o \in Objs
               PROVE  Cardinality(Held(o)) + (IF Named(o) THEN 1 ELSE 0) <= refs[o]
    BY DEF RefsCover
  <2>1. Held(o) = {} /\ ~Named(o)
    BY <1>1, <1>2 DEF Held, Named
  <2>2. Cardinality(Held(o)) = 0
    BY <2>1, FS_EmptySet
  <2> QED
    BY <1>1, <2>1, <2>2
<1> QED
  BY <1>1, <1>5, <1>6, <1>7, <1>8 DEF IInv, Pointing, Descending

\* Every step keeps the invariant.
LEMMA NextSafe ==
  ASSUME IInv, [Next]_vars
  PROVE  IInv'
<1>1. CASE \E k \in Keys, t \in Times : Receive(k, t)
  BY <1>1, ReceiveSafe
<1>2. CASE \E e \in out : AttemptFails(e) \/ PeerEnds(e) \/ Release(e)
  <2>1. PICK e \in out : AttemptFails(e) \/ PeerEnds(e) \/ Release(e)
    BY <1>2
  <2>2. e \in Address
    BY DEF IInv, TypeOK
  <2>3. CASE AttemptFails(e)
    BY <2>2, <2>3, ReturnSafe DEF AttemptFails
  <2>4. CASE PeerEnds(e)
    <3>1. CASE Return(e, e, 0)
      BY <2>2, <3>1, ReturnSafe
    <3>2. ASSUME NEW k \in Keys, NEW f, f = [e EXCEPT !.key = k, !.lost = FALSE], Return(e, f, 0)
          PROVE  IInv'
      <4>1. f \in Address /\ f.obj = e.obj
        BY <2>2, <3>2 DEF Address
      <4> QED
        BY <3>2, <4>1, ReturnSafe
    <3>3. \/ Return(e, e, 0)
          \/ \E k \in Keys : Return(e, [e EXCEPT !.key = k, !.lost = FALSE], 0)
      BY <2>4, Zenon DEF PeerEnds
    <3> QED
      BY <3>1, <3>2, <3>3, Zenon
  <2>5. CASE Release(e)
    BY <2>5, ReleaseSafe
  <2> QED
    BY <2>1, <2>3, <2>4, <2>5
<1>3. CASE \E k \in Keys : RemoveAddress(k)
  BY <1>3, RemoveAddressSafe
<1>4. CASE \E num \in 1 .. MaxNum, first \in Buckets : Begin(num, first)
  <2>1. \A num \in 1 .. MaxNum : num \in Nat
    BY StoreAssumption
  <2> QED
    BY <1>4, <2>1, BeginSafe
<1>5. CASE \E outcome \in {"kept", "dropped", "connecting"} : Try(outcome)
  BY <1>5, TrySafe
<1>6. CASE Reload
  BY <1>6, ReloadSafe
<1>7. CASE UNCHANGED vars
  <2>1. undefined \in BOOLEAN
    BY DEF IInv, TypeOK
  <2> QED
    BY <1>7, <2>1, StandSafe DEF vars
<1> QED
  BY <1>1, <1>2, <1>3, <1>4, <1>5, <1>6, <1>7 DEF Next

\* Who points to an object is counted by it.
LEMMA CountedHolds ==
  ASSUME IInv
  PROVE  Counted
<1> SUFFICES ASSUME NEW o \in Objs
             PROVE  /\ Cardinality(Slots(o)) <= 1
                    /\ Cardinality({e \in out : e.obj = o}) + Cardinality(Slots(o)) + Cardinality(Held(o))
                         <= refs[o]
  BY DEF Counted
<1> DEFINE had == {e \in out : e.obj = o}
<1>1. Apart /\ buckets \in [Buckets -> Seq(Address)] /\ refs \in [Objs -> Nat] /\ locs \in Seq(Locator)
  BY DEF IInv, TypeOK
<1>2. \A p \in Slots(o) : /\ p = <<p[1], p[2]>> /\ p[1] \in Buckets /\ p[2] \in 1 .. Len(buckets[p[1]])
                          /\ buckets[p[1]][p[2]].obj = o /\ o \in ObjsIn(buckets[p[1]])
  <2> SUFFICES ASSUME NEW p \in Slots(o)
               PROVE  /\ p = <<p[1], p[2]>> /\ p[1] \in Buckets /\ p[2] \in 1 .. Len(buckets[p[1]])
                      /\ buckets[p[1]][p[2]].obj = o /\ o \in ObjsIn(buckets[p[1]])
    OBVIOUS
  <2>1. /\ p \in Buckets \X (1 .. Cardinality(Objs))
        /\ p[2] <= Len(buckets[p[1]]) /\ buckets[p[1]][p[2]].obj = o
    BY DEF Slots
  <2>2. p = <<p[1], p[2]>> /\ p[1] \in Buckets /\ p[2] \in 1 .. Cardinality(Objs)
    BY <2>1
  <2>3. Len(buckets[p[1]]) \in Nat /\ Cardinality(Objs) \in Nat
    BY <1>1, <2>2, StoreAssumption, FS_CardinalityType
  <2>4. p[2] \in 1 .. Len(buckets[p[1]])
    BY <2>1, <2>2, <2>3
  <2> QED
    BY <2>1, <2>2, <2>4 DEF ObjsIn
<1>3. \A p, q \in Slots(o) : p = q
  <2> SUFFICES ASSUME NEW p \in Slots(o), NEW q \in Slots(o) PROVE p = q
    OBVIOUS
  <2>1. p[1] = q[1]
    BY <1>1, <1>2 DEF Apart
  <2>2. p[2] = q[2]
    <3> DEFINE s == buckets[p[1]]
               a == p[2]
               c == q[2]
    <3>1. Once(s)
      BY <1>1, <1>2 DEF Apart
    <3>2. a \in 1 .. Len(s) /\ s[a].obj = o /\ c \in 1 .. Len(s) /\ s[c].obj = o
      BY <1>2, <2>1
    <3> HIDE DEF s, a, c
    <3>3. a = c
      BY <3>1, <3>2 DEF Once
    <3> QED
      BY <3>3 DEF a, c
  <2>3. p = <<p[1], p[2]>> /\ q = <<q[1], q[2]>>
    BY <1>2
  <2> QED
    BY <2>1, <2>2, <2>3
<1>4. \A e, f \in had : e = f
  BY <1>1 DEF Apart
<1>5. Cardinality(Slots(o)) = (IF Slots(o) = {} THEN 0 ELSE 1) /\ Cardinality(had) = (IF had = {} THEN 0 ELSE 1)
  BY <1>3, <1>4, AtMostOne
<1>6. Slots(o) = {} \/ had = {}
  BY <1>1, <1>2 DEF Apart
<1>7. Slots(o) # {} \/ had # {} => Named(o)
  BY <1>2 DEF Named
<1>8. Cardinality(Held(o)) \in Nat
  <2>1. Held(o) = HeldIn(locs, o)
    BY DEF Held, HeldIn
  <2> QED
    BY <1>1, <2>1, HeldFinite
<1>9. Cardinality(Held(o)) + (IF Named(o) THEN 1 ELSE 0) <= refs[o] /\ refs[o] \in Nat
  BY <1>1 DEF IInv, RefsCover
<1> HIDE DEF had
<1>10. Cardinality(had) + Cardinality(Slots(o)) <= (IF Named(o) THEN 1 ELSE 0)
  BY <1>5, <1>6, <1>7
<1>11. Cardinality(had) \in Nat /\ Cardinality(Slots(o)) \in Nat /\ Cardinality(Slots(o)) <= 1
  BY <1>5
<1>12. Cardinality(had) + Cardinality(Slots(o)) + Cardinality(Held(o)) <= refs[o]
  BY <1>8, <1>9, <1>10, <1>11
<1> QED
  BY <1>11, <1>12 DEF had

\* AddressManager.c:317-343, 446-485 and NetworkCommunicator.c:1760-1813: the
\* invariant holds in every state.
THEOREM StoreInvariant == Spec => []IInv
<1>1. Init => IInv
  BY InitSafe
<1>2. IInv /\ [Next]_vars => IInv'
  BY NextSafe
<1> QED
  BY <1>1, <1>2, PTL DEF Spec

\* The store stays ordered, holds what it points to, and the locators of a
\* selection that does not start at bucket 0 survive the removals of the loop.
THEOREM StoreStaysSound == Spec => []StoreSound
<1>1. IInv => StoreSound
  BY CountedHolds DEF IInv, StoreSound
<1> QED
  BY <1>1, StoreInvariant, PTL

-----------------------------------------------------------------------------
(* A selection is fair *)

\* The slots of the buckets before b.
Places(b) == {p \in Buckets \X Nat : p[1] < b /\ p[2] \in 1 .. Len(buckets[p[1]])}

\* A bucket adds its length to the places.
LEMMA PlacesOfBucket ==
  ASSUME IInv, NEW b \in Buckets, IsFiniteSet(Places(b))
  PROVE  /\ IsFiniteSet(Places(b + 1))
         /\ Cardinality(Places(b + 1)) = Cardinality(Places(b)) + Len(buckets[b])
<1> DEFINE n == Len(buckets[b])
           I == 1 .. n
           T == {p \in Buckets \X Nat : p[1] = b /\ p[2] \in I}
           f == [i \in I |-> <<b, i>>]
<1>1. n \in Nat /\ b \in Int
  <2>1. buckets[b] \in Seq(Address)
    BY DEF IInv, TypeOK
  <2> QED
    BY <2>1, StoreAssumption DEF Buckets
<1>2. IsFiniteSet(I) /\ Cardinality(I) = n
  <2>1. 1 \in Int /\ n \in Int /\ (IF 1 > n THEN 0 ELSE n - 1 + 1) = n
    BY <1>1
  <2> QED
    BY <2>1, FS_Interval
<1>3. \A i \in I : <<b, i>> \in T
  BY <1>1
<1>4. \A p \in T : p = <<b, p[2]>> /\ p[2] \in I
  OBVIOUS
<1>5. T \cap Places(b) = {} /\ Places(b + 1) = Places(b) \cup T
  <2>1. \A c \in Buckets : (c < b + 1 <=> c < b \/ c = b) /\ ~(b < b)
    BY <1>1 DEF Buckets
  <2> QED
    BY <2>1 DEF Places
<1> HIDE DEF T, I
<1>6. f \in Bijection(I, T)
  <2>1. f \in [I -> T]
    BY <1>3
  <2>2. \A i, j \in I : f[i] = f[j] => i = j
    OBVIOUS
  <2>3. \A p \in T : \E i \in I : f[i] = p
    BY <1>4
  <2> HIDE DEF f
  <2> QED
    BY <2>1, <2>2, <2>3 DEF Bijection, Injection, Surjection, IsInjective
<1>7. IsFiniteSet(T) /\ Cardinality(T) = n
  <2>1. ExistsBijection(I, T)
    BY <1>6 DEF ExistsBijection
  <2> QED
    BY <1>2, <2>1, FS_Bijection
<1>8. IsFiniteSet(Places(b) \cup T)
      /\ Cardinality(Places(b) \cup T) = Cardinality(Places(b)) + Cardinality(T) - Cardinality(Places(b) \cap T)
  BY <1>7, FS_Union
<1>9. Places(b) \cap T = {}
  BY <1>5
<1>10. Cardinality(Places(b) \cap T) = 0
  BY <1>9, FS_EmptySet
<1>11. Cardinality(Places(b)) \in Nat
  BY FS_CardinalityType
<1> DEFINE both == Places(b) \cup T
<1>12. Places(b + 1) = both
  BY <1>5
<1>13. Cardinality(both) = Cardinality(Places(b)) + n
  BY <1>1, <1>7, <1>8, <1>10, <1>11
<1>14. IsFiniteSet(both)
  BY <1>8
<1> HIDE DEF both
<1> QED
  BY <1>12, <1>13, <1>14

\* The places of the buckets are finitely many.
LEMMA PlacesFinite ==
  ASSUME IInv
  PROVE  /\ Places(0) = {}
         /\ \A b \in 0 .. BucketCount : IsFiniteSet(Places(b)) /\ Cardinality(Places(b)) \in Nat
<1>1. BucketCount \in Nat
  BY StoreAssumption
<1>2. Places(0) = {}
  BY DEF Places, Buckets
<1> DEFINE K == {b \in Nat : b <= BucketCount => IsFiniteSet(Places(b))}
<1>3. 0 \in K
  BY <1>2, FS_EmptySet
<1>4. ASSUME NEW b \in K PROVE b + 1 \in K
  <2>1. ASSUME b + 1 <= BucketCount PROVE IsFiniteSet(Places(b + 1))
    <3>1. b \in Buckets /\ IsFiniteSet(Places(b))
      BY <1>1, <2>1 DEF Buckets
    <3> QED
      BY <3>1, PlacesOfBucket
  <2> QED
    BY <2>1
<1>5. K = Nat
  BY <1>3, <1>4, SetInduction
<1>6. \A b \in 0 .. BucketCount : b \in K /\ b <= BucketCount
  BY <1>1, <1>5
<1> QED
  BY <1>2, <1>6, FS_CardinalityType

\* Total counts the places of all buckets.
LEMMA TotalIs ==
  ASSUME IInv
  PROVE  Total = Cardinality(Places(BucketCount))
<1> DEFINE B == BucketCount
           Sums(f) == f = [b \in 0 .. B |-> IF b = 0 THEN 0 ELSE f[b - 1] + Len(buckets[b - 1])]
           g == CHOOSE total : total = [b \in 0 .. B |->
                  IF b = 0 THEN 0 ELSE total[b - 1] + Len(buckets[b - 1])]
           h == [b \in 0 .. B |-> Cardinality(Places(b))]
<1>1. B \in Nat
  BY StoreAssumption
<1>2. Total = g[B]
  BY Zenon DEF Total
<1>3. ASSUME NEW b \in 0 .. B, b # 0
      PROVE  /\ b - 1 \in Buckets /\ b - 1 \in 0 .. B
             /\ Cardinality(Places(b)) = Cardinality(Places(b - 1)) + Len(buckets[b - 1])
  <2>1. b - 1 \in Buckets /\ b - 1 \in 0 .. B /\ (b - 1) + 1 = b
    BY <1>1, <1>3 DEF Buckets
  <2>2. IsFiniteSet(Places(b - 1))
    BY <2>1, PlacesFinite
  <2> DEFINE a == b - 1
  <2>3. a \in Buckets /\ IsFiniteSet(Places(a)) /\ a + 1 = b
    BY <2>1, <2>2
  <2> HIDE DEF a
  <2>4. Cardinality(Places(a + 1)) = Cardinality(Places(a)) + Len(buckets[a])
    BY <2>3, PlacesOfBucket
  <2>5. Cardinality(Places(b)) = Cardinality(Places(a)) + Len(buckets[a])
    BY <2>3, <2>4
  <2> QED
    BY <2>1, <2>5 DEF a
<1>4. Cardinality(Places(0)) = 0
  BY PlacesFinite, FS_EmptySet
<1>5. Sums(h)
  <2>1. ASSUME NEW b \in 0 .. B
        PROVE  h[b] = IF b = 0 THEN 0 ELSE h[b - 1] + Len(buckets[b - 1])
    <3>1. h[b] = Cardinality(Places(b))
      OBVIOUS
    <3>2. CASE b = 0
      BY <1>4, <3>1, <3>2
    <3>3. CASE b # 0
      <4>1. /\ b - 1 \in 0 .. B
            /\ Cardinality(Places(b)) = Cardinality(Places(b - 1)) + Len(buckets[b - 1])
        BY <1>3, <3>3
      <4>2. h[b - 1] = Cardinality(Places(b - 1))
        BY <4>1
      <4> HIDE DEF h
      <4> QED
        BY <3>1, <3>3, <4>1, <4>2
    <3> QED
      BY <3>2, <3>3
  <2>2. h = [b \in 0 .. B |-> h[b]]
    OBVIOUS
  <2> HIDE DEF h
  <2> QED
    BY <2>1, <2>2
<1>6. Sums(g)
  <2>1. \E f : Sums(f)
    BY <1>5
  <2> HIDE DEF h, B
  <2> QED
    BY <2>1, Zenon
<1>7. \A b \in 0 .. B : g[b] = IF b = 0 THEN 0 ELSE g[b - 1] + Len(buckets[b - 1])
  <2> HIDE DEF g, B, h
  <2> QED
    BY <1>6
<1> HIDE DEF g, h
<1> DEFINE K == {b \in Nat : b <= B => g[b] = Cardinality(Places(b))}
<1>8. 0 \in K
  BY <1>1, <1>4, <1>7
<1>9. ASSUME NEW a \in K PROVE a + 1 \in K
  <2>1. ASSUME a + 1 <= B PROVE g[a + 1] = Cardinality(Places(a + 1))
    <3>1. a + 1 \in 0 .. B /\ a + 1 # 0 /\ (a + 1) - 1 = a /\ a <= B
      BY <1>1, <2>1
    <3>2. g[a] = Cardinality(Places(a))
      BY <3>1
    <3>3. g[a + 1] = IF a + 1 = 0 THEN 0 ELSE g[(a + 1) - 1] + Len(buckets[(a + 1) - 1])
      BY <1>7, <3>1
    <3>4. Cardinality(Places(a + 1)) = Cardinality(Places((a + 1) - 1)) + Len(buckets[(a + 1) - 1])
      BY <1>3, <3>1
    <3> QED
      BY <3>1, <3>2, <3>3, <3>4
  <2> QED
    BY <2>1
<1>10. K = Nat
  BY <1>8, <1>9, SetInduction
<1>11. B \in K /\ B <= B
  BY <1>1, <1>10
<1> QED
  BY <1>2, <1>11

\* What is selected from a bucket that is not bucket 0 on, and from that one.
FromOther(got, num) ==
  LET of(b) == {got[i].at : i \in {j \in 1 .. Len(got) : got[j].bucket = b}}
      top(b, n) == Len(buckets[b]) - n + 1 .. Len(buckets[b])
  IN /\ Len(got) = IF num < Total THEN num ELSE Total
     /\ \A i, j \in 1 .. Len(got) : got[i].obj = got[j].obj => i = j
     /\ \A b, c \in Buckets :
          /\ of(b) = top(b, Cardinality(of(b)))
          /\ Cardinality(of(c)) < Len(buckets[c])
               => Cardinality(of(b)) <= Cardinality(of(c)) + 1
FromFirst(got, num) ==
  LET of(b) == {got[i].at : i \in {j \in 1 .. Len(got) : got[j].bucket = b}}
      top(b, n) == Len(buckets[b]) - n + 1 .. Len(buckets[b])
  IN /\ Len(got) = IF Total = 0 THEN 0 ELSE num
     /\ \A b \in Buckets : of(b) \subseteq top(b, 1)

\* A selection that does not start at bucket 0: everything the visits reached.
LEMMA RoundsSelect ==
  ASSUME IInv, NEW num \in Nat, NEW first \in Buckets \ {0}, NEW sel,
         Over(sel, num), Selecting(sel, num), Rounds(sel, first)
  PROVE  FromOther(sel.found, num)
<1> DEFINE got == sel.found
           N == Len(got)
           I == 1 .. N
           L(b) == Len(buckets[b])
           V(b) == Visits(first, BucketAt(sel), sel.index, b)
           of(b) == {got[i].at : i \in {j \in 1 .. Len(got) : got[j].bucket = b}}
           top(b, n) == Len(buckets[b]) - n + 1 .. Len(buckets[b])
           m(b) == IF V(b) < L(b) THEN V(b) ELSE L(b)
<1>1. sel \in SelType /\ got \in Seq(Locator) /\ N \in Nat /\ N <= num /\ sel.index \in Nat
  BY DEF Selecting, SelType
<1>2. \A i \in I : got[i].bucket \in Buckets /\ got[i].at \in 1 .. L(got[i].bucket)
                   /\ buckets[got[i].bucket][got[i].at].obj = got[i].obj
  <2>1. \A i \in I : got[i] \in Locator /\ Points(got[i])
    BY <1>1 DEF Selecting
  <2>2. \A l \in Locator : l.bucket \in Buckets
    BY DEF Locator
  <2> QED
    BY <2>1, <2>2 DEF Points
<1>3. BucketAt(sel) \in Buckets
  BY <1>1, StoreAssumption DEF SelType, BucketAt, Buckets
<1>4. \A b \in Buckets : L(b) \in Nat /\ V(b) \in {sel.index, sel.index + 1} /\ V(b) \in Nat
  <2>1. \A b \in Buckets : L(b) \in Nat
    BY DEF IInv, TypeOK
  <2>2. \A b \in Buckets : V(b) \in {sel.index, sel.index + 1}
    BY <1>1, <1>3, VisitsAt
  <2> HIDE DEF V
  <2> QED
    BY <1>1, <2>1, <2>2
<1>5. \A b \in Buckets : \A a \in 1 .. L(b) :
        (\E i \in I : got[i].bucket = b /\ got[i].at = a) <=> a > L(b) - V(b)
  BY DEF Rounds
<1>6. \A i, j \in I : i < j /\ got[i].bucket = got[j].bucket => got[j].at < got[i].at
  BY DEF Rounds
<1>7. \A i, j \in I : got[i].bucket = got[j].bucket /\ got[i].at = got[j].at => i = j
  <2> SUFFICES ASSUME NEW i \in I, NEW j \in I, got[i].bucket = got[j].bucket, got[i].at = got[j].at
               PROVE  i = j
    OBVIOUS
  <2>1. got[i].at \in Int
    <3>1. L(got[i].bucket) \in Nat
      BY <1>2, <1>4
    <3> QED
      BY <1>2, <3>1
  <2>2. ~(i < j) /\ ~(j < i)
    <3>1. (i < j => got[j].at < got[i].at) /\ (j < i => got[i].at < got[j].at)
      BY <1>6
    <3> DEFINE a == got[i].at
    <3>2. a \in Int /\ (i < j => a < a) /\ (j < i => a < a)
      BY <2>1, <3>1
    <3> HIDE DEF a
    <3> QED
      BY <3>2
  <2> QED
    BY <1>1, <2>2
<1> HIDE DEF V, got
<1>8. \A i, j \in I : got[i].obj = got[j].obj => i = j
  <2> SUFFICES ASSUME NEW i \in I, NEW j \in I, got[i].obj = got[j].obj PROVE i = j
    OBVIOUS
  <2>1. /\ \A b \in Buckets : Once(buckets[b])
        /\ \A b, c \in Buckets : b # c => ObjsIn(buckets[b]) \cap ObjsIn(buckets[c]) = {}
    BY DEF IInv, Apart
  <2>2. got[i].obj \in ObjsIn(buckets[got[i].bucket]) /\ got[j].obj \in ObjsIn(buckets[got[j].bucket])
    BY <1>2 DEF ObjsIn
  <2>3. got[i].bucket = got[j].bucket
    BY <1>2, <2>1, <2>2
  <2>4. got[i].at = got[j].at
    <3> DEFINE s == buckets[got[i].bucket]
    <3>1. Once(s)
      BY <1>2, <2>1
    <3>2. /\ got[i].at \in 1 .. Len(s) /\ s[got[i].at].obj = got[i].obj
          /\ got[j].at \in 1 .. Len(s) /\ s[got[j].at].obj = got[j].obj
      BY <1>2, <2>3
    <3> HIDE DEF s
    <3> QED
      BY <3>1, <3>2 DEF Once
  <2> QED
    BY <1>7, <2>3, <2>4
<1>9. ASSUME NEW b \in Buckets
      PROVE  of(b) = L(b) - m(b) + 1 .. L(b) /\ Cardinality(of(b)) = m(b) /\ m(b) \in Nat
  <2>1. m(b) \in Nat /\ m(b) <= L(b) /\ L(b) \in Nat /\ V(b) \in Nat
    BY <1>4
  <2>2. ASSUME NEW a \in of(b) PROVE a \in L(b) - m(b) + 1 .. L(b)
    <3>1. PICK i \in I : got[i].bucket = b /\ a = got[i].at
      OBVIOUS
    <3>2. a \in 1 .. L(b) /\ a > L(b) - V(b)
      BY <1>2, <1>5, <3>1
    <3> QED
      BY <2>1, <3>2
  <2>3. ASSUME NEW a \in L(b) - m(b) + 1 .. L(b) PROVE a \in of(b)
    <3>1. a \in 1 .. L(b) /\ a > L(b) - V(b)
      BY <2>1
    <3>2. PICK i \in I : got[i].bucket = b /\ got[i].at = a
      BY <1>5, <3>1
    <3> QED
      BY <3>2
  <2>4. of(b) = L(b) - m(b) + 1 .. L(b)
    BY <2>2, <2>3
  <2> DEFINE lo == L(b) - m(b) + 1
             hi == L(b)
  <2>5. lo \in Int /\ hi \in Int /\ (IF lo > hi THEN 0 ELSE hi - lo + 1) = m(b)
    BY <2>1
  <2>6. of(b) = lo .. hi
    BY <2>4
  <2> HIDE DEF lo, hi, of
  <2>7. Cardinality(lo .. hi) = IF lo > hi THEN 0 ELSE hi - lo + 1
    BY <2>5, FS_Interval
  <2>8. Cardinality(of(b)) = m(b)
    BY <2>5, <2>6, <2>7
  <2> QED
    BY <2>1, <2>4, <2>8
<1> HIDE DEF of
<1>10. \A b, c \in Buckets :
         /\ of(b) = top(b, Cardinality(of(b)))
         /\ Cardinality(of(c)) < Len(buckets[c]) => Cardinality(of(b)) <= Cardinality(of(c)) + 1
  <2> SUFFICES ASSUME NEW b \in Buckets, NEW c \in Buckets
               PROVE  /\ of(b) = top(b, Cardinality(of(b)))
                      /\ Cardinality(of(c)) < L(c) => Cardinality(of(b)) <= Cardinality(of(c)) + 1
    OBVIOUS
  <2>1. of(b) = top(b, Cardinality(of(b)))
    BY <1>9
  <2>2. Cardinality(of(b)) = m(b) /\ Cardinality(of(c)) = m(c)
    BY <1>9
  <2>3. /\ L(b) \in Nat /\ V(b) \in {sel.index, sel.index + 1} /\ V(b) \in Nat
        /\ L(c) \in Nat /\ V(c) \in {sel.index, sel.index + 1} /\ V(c) \in Nat
    BY <1>4
  <2>4. m(c) < L(c) => m(b) <= m(c) + 1
    <3> DEFINE x == V(b)
               y == V(c)
               k == L(b)
               n == L(c)
    <3>1. x \in Nat /\ y \in Nat /\ k \in Nat /\ n \in Nat /\ x <= y + 1
      <4>1. sel.index \in Nat
        BY <1>1
      <4> HIDE DEF L
      <4> QED
        BY <2>3, <4>1
    <3> HIDE DEF x, y, k, n
    <3>2. (IF y < n THEN y ELSE n) < n => (IF x < k THEN x ELSE k) <= (IF y < n THEN y ELSE n) + 1
      BY <3>1
    <3> QED
      BY <3>2 DEF x, y, k, n
  <2> QED
    BY <2>1, <2>2, <2>4
<1> DEFINE S == Places(BucketCount)
           f == [i \in I |-> <<got[i].bucket, got[i].at>>]
<1>11. \A p : p \in S <=> (p \in Buckets \X Nat /\ p[2] \in 1 .. L(p[1]))
  <2>1. \A b \in Buckets : b < BucketCount
    BY StoreAssumption DEF Buckets
  <2> QED
    BY <2>1 DEF Places
<1>12. IsFiniteSet(S) /\ Cardinality(S) \in Nat /\ Total = Cardinality(S)
  <2>1. BucketCount \in 0 .. BucketCount
    BY StoreAssumption
  <2> QED
    BY <2>1, PlacesFinite, TotalIs
<1> HIDE DEF S
<1>13. f \in Injection(I, S)
  <2>1. ASSUME NEW i \in I PROVE <<got[i].bucket, got[i].at>> \in S
    <3>1. got[i].bucket \in Buckets /\ got[i].at \in 1 .. L(got[i].bucket) /\ got[i].at \in Nat
      BY <1>2, <1>4
    <3> QED
      BY <1>11, <3>1
  <2>2. f \in [I -> S]
    BY <2>1
  <2>3. \A i, j \in I : f[i] = f[j] => i = j
    BY <1>7
  <2> HIDE DEF f
  <2> QED
    BY <2>2, <2>3 DEF Injection, IsInjective
<1>14. IsFiniteSet(I) /\ Cardinality(I) = N
  <2>1. 1 \in Int /\ N \in Int /\ (IF 1 > N THEN 0 ELSE N - 1 + 1) = N
    BY <1>1
  <2> QED
    BY <2>1, FS_Interval
<1> HIDE DEF I, N
<1>15. N <= Total /\ (N = Total <=> f \in Surjection(I, S))
  <2> HIDE DEF f
  <2> QED
    BY <1>12, <1>13, <1>14, FS_Injection
<1>16. N = num \/ N = Total
  <2> SUFFICES ASSUME N # num PROVE f \in Surjection(I, S)
    BY <1>15
  <2>1. BucketAt(sel) = sel.firstEmpty
    BY DEF Over, N, got
  <2>2. \A b \in Buckets : L(b) <= sel.index
    <3>1. \A b \in Buckets : b \in Empties(sel)
      <4>1. \A b \in Buckets : Between(sel.firstEmpty, BucketAt(sel), b)
        BY <1>3, <2>1, StoreAssumption DEF Between, Buckets
      <4>2. sel.firstEmpty # -1
        BY <1>3, <2>1, StoreAssumption DEF Buckets
      <4> QED
        BY <4>1, <4>2 DEF Empties
    <3> QED
      BY <3>1 DEF Selecting
  <2>3. ASSUME NEW p \in S PROVE \E i \in I : f[i] = p
    <3>1. p \in Buckets \X Nat /\ p[2] \in 1 .. L(p[1]) /\ p = <<p[1], p[2]>> /\ p[1] \in Buckets
      BY <1>11
    <3>2. p[2] > L(p[1]) - V(p[1])
      <4>1. L(p[1]) \in Nat /\ V(p[1]) \in {sel.index, sel.index + 1} /\ L(p[1]) <= sel.index
        BY <1>4, <2>2, <3>1
      <4> HIDE DEF L
      <4> QED
        BY <1>1, <3>1, <4>1
    <3>3. PICK i \in I : got[i].bucket = p[1] /\ got[i].at = p[2]
      BY <1>5, <3>1, <3>2
    <3> QED
      BY <3>1, <3>3
  <2> HIDE DEF f
  <2> QED
    BY <1>13, <2>3 DEF Injection, Surjection
<1>17. N = IF num < Total THEN num ELSE Total
  BY <1>1, <1>12, <1>15, <1>16
<1> QED
  BY <1>8, <1>10, <1>17 DEF I, N, got, of, FromOther

\* A selection that starts at bucket 0: only the newest of each bucket, until
\* there are enough.
LEMMA FlatSelects ==
  ASSUME IInv, NEW num \in Nat \ {0}, NEW sel, Over(sel, num), Selecting(sel, num), Flat(sel)
  PROVE  FromFirst(sel.found, num)
<1> DEFINE got == sel.found
           N == Len(got)
           L(b) == Len(buckets[b])
           of(b) == {got[i].at : i \in {j \in 1 .. Len(got) : got[j].bucket = b}}
           top(b, n) == Len(buckets[b]) - n + 1 .. Len(buckets[b])
           S == Places(BucketCount)
<1>1. sel \in SelType /\ got \in Seq(Locator) /\ N \in Nat /\ N <= num /\ sel.index = 0
  BY DEF Selecting, SelType, Flat
<1>2. \A b \in Buckets : L(b) \in Nat
  BY DEF IInv, TypeOK
<1>3. \A i \in 1 .. N : got[i].bucket \in Buckets /\ got[i].at \in 1 .. L(got[i].bucket)
                        /\ got[i].at = L(got[i].bucket)
  <2>1. \A i \in 1 .. N : got[i] \in Locator /\ Points(got[i])
    BY <1>1 DEF Selecting
  <2>2. \A l \in Locator : l.bucket \in Buckets
    BY DEF Locator
  <2> QED
    BY <2>1, <2>2 DEF Points, Flat
<1>4. \A b \in Buckets : of(b) \subseteq top(b, 1)
  <2> SUFFICES ASSUME NEW b \in Buckets, NEW a \in of(b) PROVE a \in top(b, 1)
    OBVIOUS
  <2>1. a = L(b) /\ L(b) \in Nat
    BY <1>2, <1>3
  <2> QED
    BY <2>1
<1>5. /\ IsFiniteSet(S) /\ Total = Cardinality(S)
      /\ \A p : p \in S <=> (p \in Buckets \X Nat /\ p[2] \in 1 .. L(p[1]))
  <2>1. BucketCount \in 0 .. BucketCount
    BY StoreAssumption
  <2>2. \A b \in Buckets : b < BucketCount
    BY StoreAssumption DEF Buckets
  <2>3. \A p : p \in S <=> (p \in Buckets \X Nat /\ p[2] \in 1 .. L(p[1]))
    BY <2>2 DEF Places
  <2>4. IsFiniteSet(S) /\ Total = Cardinality(S)
    BY <2>1, PlacesFinite, TotalIs
  <2> QED
    BY <2>3, <2>4
<1> HIDE DEF got, S
<1>6. Total = 0 <=> S = {}
  BY <1>5, FS_EmptySet
<1>7. CASE N = num
  <2>1. 1 \in 1 .. N /\ N # 0
    BY <1>1, <1>7
  <2>2. <<got[1].bucket, got[1].at>> \in S
    <3>1. got[1].bucket \in Buckets /\ got[1].at \in 1 .. L(got[1].bucket) /\ got[1].at \in Nat
      BY <1>2, <1>3, <2>1
    <3> QED
      BY <1>5, <3>1
  <2> QED
    BY <1>4, <1>6, <1>7, <2>2 DEF got, FromFirst
<1>8. CASE N # num
  <2>1. BucketAt(sel) = sel.firstEmpty
    BY <1>8 DEF Over, got
  <2>2. BucketAt(sel) \in Buckets
    BY <1>1, StoreAssumption DEF SelType, BucketAt, Buckets
  <2>3. \A b \in Buckets : b \in Empties(sel)
    <3>1. \A b \in Buckets : Between(sel.firstEmpty, BucketAt(sel), b)
      BY <2>1, <2>2, StoreAssumption DEF Between, Buckets
    <3>2. sel.firstEmpty # -1
      BY <2>1, <2>2, StoreAssumption DEF Buckets
    <3> QED
      BY <3>1, <3>2 DEF Empties
  <2>4. \A b \in Buckets : L(b) = 0
    <3>1. \A b \in Buckets : L(b) <= 0
      BY <1>1, <2>3 DEF Selecting
    <3> QED
      BY <1>2, <3>1
  <2>5. S = {}
    <3>1. \A p \in S : p[1] \in Buckets /\ p[2] \in 1 .. L(p[1])
      BY <1>5
    <3>2. \A p \in S : p[2] \in 1 .. 0
      BY <2>4, <3>1
    <3> QED
      BY <3>2
  <2>6. N = 0
    <3> SUFFICES ASSUME N # 0 PROVE FALSE
      OBVIOUS
    <3>1. 1 \in 1 .. N
      BY <1>1
    <3>2. got[1].bucket \in Buckets /\ got[1].at \in 1 .. L(got[1].bucket)
      BY <1>3, <3>1
    <3>3. got[1].at \in 1 .. 0
      BY <2>4, <3>2
    <3> QED
      BY <3>3
  <2> QED
    BY <1>4, <1>6, <2>5, <2>6 DEF got, FromFirst
<1> QED
  BY <1>7, <1>8

\* AddressManager.c:181-222: what a selection of no more addresses than a uint8_t
\* counts has, in every state and from every bucket it may begin at.
THEOREM SelectionStaysFair == Spec => []Selection
<1>1. IInv => Selection
  <2> SUFFICES ASSUME IInv PROVE Selection
    OBVIOUS
  <2>1. ASSUME NEW num \in 1 .. MaxNum, NEW first \in Buckets
        PROVE  num <= CountMax => IF first # 0 THEN FromOther(Addresses(num, first), num)
                                  ELSE FromFirst(Addresses(num, first), num)
    <3>1. num \in Nat \ {0} /\ num \in Nat
      BY StoreAssumption
    <3>2. PICK sel : /\ Addresses(num, first) = sel.found
                     /\ Over(sel, num) /\ Selecting(sel, num)
                     /\ first # 0 => Rounds(sel, first)
                     /\ first = 0 => Flat(sel)
      BY <3>1, SelectionEnds
    <3>3. CASE first # 0
      <4>1. first \in Buckets \ {0} /\ Rounds(sel, first)
        BY <3>2, <3>3
      <4>2. FromOther(sel.found, num)
        BY <3>1, <3>2, <4>1, RoundsSelect
      <4> QED
        BY <3>2, <3>3, <4>2
    <3>4. CASE first = 0
      <4>1. FromFirst(sel.found, num)
        BY <3>1, <3>2, <3>4, FlatSelects
      <4> QED
        BY <3>2, <3>4, <4>1
    <3> QED
      BY <3>3, <3>4
  <2> QED
    BY <2>1, Zenon DEF Selection, FromOther, FromFirst
<1> QED
  BY <1>1, StoreInvariant, PTL
=============================================================================
