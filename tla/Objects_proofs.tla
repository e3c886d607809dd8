--------------------------- MODULE Objects_proofs ---------------------------
(***************************************************************************)
(* What holds of the reference counts for any number of arrays, parts,     *)
(* messages and objects: CountsAccounted and NothingFreedUsed.             *)
(*                                                                         *)
(* A count is the number of tokens for an object.  A pointer in a live     *)
(* object has a token, a lost reference has one, and so has everybody who  *)
(* acts: the caller, and an operation between its steps.  The function     *)
(* `ext' says how many tokens of each object are with those who act; each  *)
(* step of an operation hands tokens on.                                   *)
(***************************************************************************)
EXTENDS Objects, FiniteSetTheorems, SequenceTheorems, TLAPS

Arrays  == 1 .. MaxObjects
Leaves  == MaxObjects + 1 .. 2 * MaxObjects
Parents == 2 * MaxObjects + 1 .. 3 * MaxObjects

\* An input has a hash and a script, the other parts have one array.
Arity(class) == IF class = "TransactionInput" THEN 2 ELSE 1

Records == [class : {"ByteArray"} \cup LeafClasses \cup ParentClasses, count : Nat \ {0}, bytes : Int,
            fields : Seq(Int), data : Int, destroy : BOOLEAN]

ArrayOK(object) ==
  /\ object.class = "ByteArray" /\ object.destroy
  /\ object.bytes = Null /\ object.fields = <<>> /\ object.data \in 1 .. MaxObjects
LeafOK(object) ==
  /\ object.class \in LeafClasses /\ object.destroy /\ object.data = Null
  /\ object.bytes \in Arrays \cup {Null, Garbage}
  /\ object.fields \in Seq(Arrays \cup {Null}) /\ Len(object.fields) = Arity(object.class)
ParentOK(object) ==
  /\ object.class \in ParentClasses /\ object.data = Null
  /\ object.bytes \in Arrays \cup {Null}
  /\ object.fields \in Seq(Leaves \cup {Garbage})
ObjectOK(o, object) ==
  /\ object \in Records
  /\ o \in Arrays => ArrayOK(object)
  /\ o \in Leaves => LeafOK(object)
  /\ o \in Parents => ParentOK(object)

HeapOK(heap) == DOMAIN heap \subseteq Addresses /\ \A o \in DOMAIN heap : ObjectOK(o, heap[o])

IsMemory(m) ==
  m = [heap |-> m.heap, shared |-> m.shared, lost |-> m.lost, lostShared |-> m.lostShared,
       undefined |-> m.undefined]

Shaped(m) ==
  /\ IsMemory(m)
  /\ HeapOK(m.heap) /\ m.heap = [o \in DOMAIN m.heap |-> m.heap[o]]
  /\ DOMAIN m.shared \subseteq 1 .. MaxObjects /\ m.shared \in [DOMAIN m.shared -> Nat \ {0}]
  /\ m.lost \in [Addresses -> Nat] /\ m.lostShared \in [1 .. MaxObjects -> Nat]

\* How many pointers to o there are in the heap, and how many arrays over d.
Refs(heap, o) == Cardinality(PointersTo(heap, o))
Viewers(heap, d) == {o \in DOMAIN heap : heap[o].data = d}

CountOf(heap, o) == IF o \in DOMAIN heap THEN heap[o].count ELSE 0
SharesOf(shared, d) == IF d \in DOMAIN shared THEN shared[d] ELSE 0

\* Every token is with a pointer, lost, or with those who act.
Accounted(m, ext) ==
  \A o \in Addresses : CountOf(m.heap, o) = Refs(m.heap, o) + m.lost[o] + ext[o]
SharesAccounted(m) ==
  \A d \in 1 .. MaxObjects : SharesOf(m.shared, d) = m.lostShared[d] + Cardinality(Viewers(m.heap, d))

\* Nobody but a part has a reference to its bytes; while the part e is being read
\* the one who reads it has another one.
Private(m, e) ==
  \A l \in DOMAIN m.heap \cap Leaves :
    m.heap[l].bytes \in Arrays => CountOf(m.heap, m.heap[l].bytes) = IF l = e THEN 2 ELSE 1

\* Nothing is missing in the objects but in the part that is being read.
TidyObject(object) ==
  /\ object.bytes # Garbage
  /\ \A i \in 1 .. Len(object.fields) : object.fields[i] # Garbage
  /\ object.class = "InventoryVector" => object.fields[1] # Null
Tidy(m, e) == \A o \in DOMAIN m.heap : o # e => TidyObject(m.heap[o])

Sound(m, ext, e) == Shaped(m) /\ Accounted(m, ext) /\ SharesAccounted(m) /\ Private(m, e)

\* What holds between the steps; `tidy' says that nothing was refused.
Good(m, ext, e, tidy) == m.undefined = "no" /\ Sound(m, ext, e) /\ (tidy => Tidy(m, e))
State(m, ext, tidy) ==
  Good(m, ext, Null, tidy) \/ (m.undefined = "unset" /\ Shaped(m) /\ ~tidy)

\* The caller has a token of each object it holds.
Callers(set) == [o \in Addresses |-> IF o \in set THEN 1 ELSE 0]

Kept(m, h, r) ==
  /\ h \subseteq Addresses /\ r \in BOOLEAN
  /\ State(m, Callers(h), FALSE)
  /\ m.undefined = "no" /\ ~r => Tidy(m, Null)
  /\ m.undefined = "unset" => r \/ \E o \in DOMAIN m.heap : ~m.heap[o].destroy
IInv == Kept(memory, held, refused)

-----------------------------------------------------------------------------
(* The folds of the model. *)

Lowering   == INSTANCE Induction WITH Op <- LowerLeaf
Reading    == INSTANCE Induction WITH Op <- ReadNext
Writing    == INSTANCE Induction WITH Op <- WriteNext
Freeing    == INSTANCE Induction WITH Op <- FreeBytes
GivingBack == INSTANCE Induction WITH Op <- DecrementBytes

-----------------------------------------------------------------------------
(* Addresses *)

\* Each kind of object has addresses of its own, none of which is Null or Garbage.
LEMMA Kinds ==
  /\ Addresses = Arrays \cup Leaves \cup Parents
  /\ Arrays \cap Leaves = {} /\ Arrays \cap Parents = {} /\ Leaves \cap Parents = {}
  /\ Null \notin Addresses /\ Garbage \notin Addresses /\ Null # Garbage
  /\ AddressesOf("ByteArray") = Arrays
  /\ \A class \in LeafClasses : AddressesOf(class) = Leaves
  /\ \A class \in ParentClasses : AddressesOf(class) = Parents
  /\ IsFiniteSet(Addresses) /\ Addresses \subseteq Int
<1>1. MaxObjects \in Nat
  BY ObjectsAssumption
<1>2. IsFiniteSet(Addresses)
  BY <1>1, FS_Interval, 1 \in Int, 3 * MaxObjects \in Int DEF Addresses
<1>3. Addresses = Arrays \cup Leaves \cup Parents
  BY <1>1 DEF Addresses, Arrays, Leaves, Parents
<1>4. AddressesOf("ByteArray") = Arrays
  BY <1>1 DEF AddressesOf, Arrays
<1>5. ASSUME NEW class \in LeafClasses PROVE AddressesOf(class) = Leaves
  BY <1>1 DEF AddressesOf, Leaves, LeafClasses
<1>6. ASSUME NEW class \in ParentClasses PROVE AddressesOf(class) = Parents
  BY <1>1 DEF AddressesOf, Parents, LeafClasses, ParentClasses
<1>7. Arrays \cap Leaves = {} /\ Arrays \cap Parents = {} /\ Leaves \cap Parents = {}
  BY <1>1 DEF Arrays, Leaves, Parents
<1>8. Null \notin Addresses /\ Garbage \notin Addresses /\ Null # Garbage /\ Addresses \subseteq Int
  BY <1>1 DEF Addresses, Null, Garbage
<1> QED
  BY <1>2, <1>3, <1>4, <1>5, <1>6, <1>7, <1>8

\* The lowest address of a set that is not empty is in it.
LEMMA MinIn ==
  ASSUME NEW S \in SUBSET Nat, S # {}
  PROVE  Min(S) \in S
<1>1. PICK x \in S : \A y \in S : x <= y
  BY Lowering!LeastNumber
<1> QED
  BY <1>1 DEF Min

\* Where there is room there is a fresh address.
LEMMA FreshIsFree ==
  ASSUME NEW m, NEW class \in {"ByteArray"} \cup LeafClasses \cup ParentClasses,
         IsFiniteSet(DOMAIN m.heap), Room(m, class, 1)
  PROVE  FreshFor(m, class) \in AddressesOf(class) \ DOMAIN m.heap
<1> DEFINE A == AddressesOf(class)
           D == DOMAIN m.heap
<1>1. A \subseteq Nat /\ IsFiniteSet(A) /\ Cardinality(A) = MaxObjects
  <2>1. MaxObjects \in Nat
    BY ObjectsAssumption
  <2>2. PICK k \in Nat : A = k + 1 .. k + MaxObjects
    BY <2>1 DEF AddressesOf
  <2>3. k + 1 \in Int /\ k + MaxObjects \in Int /\ k + 1 <= k + MaxObjects + 1
    BY <2>1
  <2> QED
    BY <2>1, <2>2, <2>3, FS_Interval
<1> HIDE DEF A, D
<1>2. Cardinality(D \cap A) + 1 <= MaxObjects
  BY DEF Room, A, D
<1>3. A \ D # {}
  <2> SUFFICES ASSUME A \subseteq D PROVE FALSE
    OBVIOUS
  <2>1. D \cap A = A
    OBVIOUS
  <2> QED
    BY <1>1, <1>2, <2>1, ObjectsAssumption
<1>4. Min(A \ D) \in A \ D
  BY <1>1, <1>3, MinIn
<1> QED
  BY <1>4 DEF FreshFor, A, D

\* Where there is room for data there is a fresh piece.
LEMMA FreshDataIsFree ==
  ASSUME NEW m, DOMAIN m.shared \subseteq 1 .. MaxObjects, RoomForData(m)
  PROVE  FreshData(m) \in (1 .. MaxObjects) \ DOMAIN m.shared
<1> DEFINE A == 1 .. MaxObjects
           D == DOMAIN m.shared
<1>1. A \subseteq Nat /\ Cardinality(A) = MaxObjects /\ MaxObjects \in Nat /\ D \subseteq A
  <2>1. MaxObjects \in Nat /\ MaxObjects \in Int /\ 1 \in Int /\ 1 <= MaxObjects + 1
    BY ObjectsAssumption
  <2> QED
    BY <2>1, FS_Interval
<1> HIDE DEF A, D
<1>2. Cardinality(D) < MaxObjects
  BY DEF RoomForData, D
<1>3. A \ D # {}
  <2> SUFFICES ASSUME A \ D = {} PROVE FALSE
    OBVIOUS
  <2>1. D = A
    BY <1>1
  <2> QED
    BY <1>1, <1>2, <2>1
<1>4. Min(A \ D) \in A \ D
  BY <1>1, <1>3, MinIn
<1> QED
  BY <1>4 DEF FreshData, A, D

-----------------------------------------------------------------------------
(* Counting pointers *)

Ind(x, y) == IF x = y THEN 1 ELSE 0

\* Where x is in a sequence, and how often.
Places(s, x) == {i \in 1 .. Len(s) : s[i] = x}
Occ(s, x) == Cardinality(Places(s, x))

\* The pointers to o in an object.
Pointing(object, o) == Ind(object.bytes, o) + Occ(object.fields, o)

\* The places are among the first numbers.
LEMMA PlacesFinite ==
  ASSUME NEW s \in Seq(Int), NEW x
  PROVE  IsFiniteSet(Places(s, x)) /\ Occ(s, x) \in Nat
<1>1. Len(s) \in Nat /\ Len(s) \in Int /\ 1 \in Int
  OBVIOUS
<1>2. IsFiniteSet(1 .. Len(s))
  BY <1>1, FS_Interval
<1>3. IsFiniteSet(Places(s, x))
  BY <1>2, FS_Subset DEF Places
<1> QED
  BY <1>3, FS_CardinalityType DEF Occ

\* In the empty sequence there is nothing.
LEMMA OccEmpty ==
  ASSUME NEW x
  PROVE  Occ(<<>>, x) = 0
BY FS_EmptySet DEF Occ, Places

\* What is at some place occurs.
LEMMA OccPositive ==
  ASSUME NEW s \in Seq(Int), NEW i \in 1 .. Len(s)
  PROVE  Occ(s, s[i]) >= 1
<1>1. IsFiniteSet(Places(s, s[i])) /\ Occ(s, s[i]) \in Nat
  BY PlacesFinite
<1>2. Places(s, s[i]) # {}
  BY DEF Places
<1> QED
  BY <1>1, <1>2, FS_EmptySet DEF Occ

\* What occurs is at some place.
LEMMA OccPlace ==
  ASSUME NEW s \in Seq(Int), NEW x, Occ(s, x) # 0
  PROVE  \E i \in 1 .. Len(s) : s[i] = x
BY FS_EmptySet DEF Occ, Places

\* One more element.
LEMMA OccAppend ==
  ASSUME NEW s \in Seq(Int), NEW e \in Int, NEW x
  PROVE  Occ(Append(s, e), x) = Occ(s, x) + Ind(e, x)
<1> DEFINE n == Len(s) + 1
<1>1. Len(s) \in Nat /\ Len(Append(s, e)) = n /\ Append(s, e)[n] = e
      /\ \A i \in 1 .. Len(s) : Append(s, e)[i] = s[i]
  OBVIOUS
<1>2. IsFiniteSet(Places(s, x)) /\ Occ(s, x) \in Nat /\ n \notin Places(s, x)
  <2>1. n \notin Places(s, x)
    BY <1>1 DEF Places
  <2> QED
    BY <2>1, PlacesFinite
<1>3. CASE e = x
  <2>1. Places(Append(s, e), x) = Places(s, x) \cup {n}
    BY <1>1, <1>3 DEF Places
  <2> QED
    BY <1>2, <1>3, <2>1, FS_AddElement DEF Occ, Ind
<1>4. CASE e # x
  <2>1. Places(Append(s, e), x) = Places(s, x)
    BY <1>1, <1>4 DEF Places
  <2> QED
    BY <1>2, <1>4, <2>1 DEF Occ, Ind
<1> QED
  BY <1>3, <1>4

\* Another element at the place i.
LEMMA OccExcept ==
  ASSUME NEW s \in Seq(Int), NEW i \in 1 .. Len(s), NEW e \in Int, NEW x
  PROVE  Occ([s EXCEPT ![i] = e], x) + Ind(s[i], x) = Occ(s, x) + Ind(e, x)
<1> DEFINE t == [s EXCEPT ![i] = e]
           P == Places(s, x) \ {i}
<1>1. t \in Seq(Int) /\ Len(t) = Len(s) /\ t[i] = e /\ \A j \in 1 .. Len(s) : j # i => t[j] = s[j]
  OBVIOUS
<1> HIDE DEF t
<1>2. IsFiniteSet(Places(s, x)) /\ IsFiniteSet(P) /\ Cardinality(P) \in Nat
  BY PlacesFinite, FS_Subset, FS_CardinalityType
<1>3. Occ(s, x) = Cardinality(P) + Ind(s[i], x)
  <2>1. CASE s[i] = x
    <3>1. Places(s, x) = P \cup {i} /\ i \notin P
      BY <2>1 DEF Places
    <3> HIDE DEF P
    <3> QED
      BY <1>2, <2>1, <3>1, FS_AddElement DEF Occ, Ind
  <2>2. CASE s[i] # x
    <3>1. Places(s, x) = P
      BY <2>2 DEF Places
    <3> HIDE DEF P
    <3> QED
      BY <1>2, <2>2, <3>1 DEF Occ, Ind
  <2> QED
    BY <2>1, <2>2
<1>4. Occ(t, x) = Cardinality(P) + Ind(e, x)
  <2>1. CASE e = x
    <3>1. Places(t, x) = P \cup {i} /\ i \notin P
      BY <1>1, <2>1 DEF Places
    <3> HIDE DEF P
    <3> QED
      BY <1>2, <2>1, <3>1, FS_AddElement DEF Occ, Ind
  <2>2. CASE e # x
    <3>1. Places(t, x) = P
      BY <1>1, <2>2 DEF Places
    <3> HIDE DEF P
    <3> QED
      BY <1>2, <2>2, <3>1 DEF Occ, Ind
  <2> QED
    BY <2>1, <2>2
<1> QED
  BY <1>2, <1>3, <1>4 DEF Ind, t

\* Two sequences one behind the other.
LEMMA OccConcat ==
  ASSUME NEW s \in Seq(Int), NEW r \in Seq(Int), NEW x
  PROVE  Occ(s \o r, x) = Occ(s, x) + Occ(r, x)
<1> DEFINE T == {n \in Nat : \A t \in Seq(Int) : Len(t) = n => Occ(s \o t, x) = Occ(s, x) + Occ(t, x)}
<1>1. 0 \in T
  <2> SUFFICES ASSUME NEW t \in Seq(Int), Len(t) = 0 PROVE Occ(s \o t, x) = Occ(s, x) + Occ(t, x)
    OBVIOUS
  <2>1. t = <<>> /\ s \o t = s /\ Occ(s, x) \in Nat
    BY PlacesFinite
  <2> QED
    BY <2>1, OccEmpty
<1>2. ASSUME NEW n \in T PROVE n + 1 \in T
  <2> SUFFICES ASSUME NEW t \in Seq(Int), Len(t) = n + 1 PROVE Occ(s \o t, x) = Occ(s, x) + Occ(t, x)
    OBVIOUS
  <2> DEFINE q == SubSeq(t, 1, n)
             e == t[n + 1]
  <2>1. q \in Seq(Int) /\ Len(q) = n /\ e \in Int /\ t = Append(q, e)
    OBVIOUS
  <2>2. s \o t = Append(s \o q, e) /\ s \o q \in Seq(Int)
    <3> HIDE DEF q, e
    <3>1. t = q \o <<e>> /\ <<e>> \in Seq(Int) /\ s \o q \in Seq(Int)
      BY <2>1, AppendIsConcat
    <3>2. s \o (q \o <<e>>) = (s \o q) \o <<e>>
      BY <2>1, <3>1, ConcatAssociative
    <3>3. Append(s \o q, e) = (s \o q) \o <<e>>
      BY <2>1, <3>1, AppendIsConcat
    <3> QED
      BY <3>1, <3>2, <3>3
  <2>3. Occ(s \o q, x) = Occ(s, x) + Occ(q, x)
    BY <2>1
  <2> HIDE DEF T, q, e
  <2>4. Occ(Append(s \o q, e), x) = Occ(s \o q, x) + Ind(e, x) /\ Occ(Append(q, e), x) = Occ(q, x) + Ind(e, x)
    BY <2>1, <2>2, OccAppend
  <2>5. Occ(s, x) \in Nat /\ Occ(q, x) \in Nat /\ Ind(e, x) \in Nat
    BY <2>1, PlacesFinite DEF Ind
  <2> QED
    BY <2>1, <2>2, <2>3, <2>4, <2>5
<1>3. T = Nat
  BY <1>1, <1>2, Lowering!SetInduction
<1> QED
  BY <1>3

\* A sequence of one and of two elements.
LEMMA OccShort ==
  ASSUME NEW a \in Int, NEW x
  PROVE  /\ Occ(<<a>>, x) = Ind(a, x)
         /\ \A b \in Int : Occ(<<a, b>>, x) = Ind(a, x) + Ind(b, x)
<1>1. <<a>> = Append(<<>>, a) /\ <<>> \in Seq(Int) /\ <<a>> \in Seq(Int)
  OBVIOUS
<1>2. Occ(<<a>>, x) = Ind(a, x)
  <2>1. Occ(Append(<<>>, a), x) = Occ(<<>>, x) + Ind(a, x)
    BY <1>1, OccAppend
  <2>2. Occ(<<>>, x) = 0 /\ Ind(a, x) \in Nat
    BY OccEmpty DEF Ind
  <2> QED
    BY <1>1, <2>1, <2>2
<1>3. ASSUME NEW b \in Int PROVE Occ(<<a, b>>, x) = Ind(a, x) + Ind(b, x)
  <2>1. <<a, b>> = Append(<<a>>, b)
    OBVIOUS
  <2> QED
    BY <1>1, <1>2, <2>1, OccAppend
<1> QED
  BY <1>2, <1>3

\* The elements from the place n on are that at n and those behind.
LEMMA OccRest ==
  ASSUME NEW s \in Seq(Int), NEW n \in 1 .. Len(s), NEW x
  PROVE  Occ(SubSeq(s, n, Len(s)), x) = Ind(s[n], x) + Occ(SubSeq(s, n + 1, Len(s)), x)
<1> DEFINE r == SubSeq(s, n + 1, Len(s))
<1>1. s[n] \in Int /\ <<s[n]>> \in Seq(Int) /\ r \in Seq(Int) /\ SubSeq(s, n, Len(s)) = <<s[n]>> \o r
  OBVIOUS
<1> HIDE DEF r
<1>2. Occ(<<s[n]>> \o r, x) = Occ(<<s[n]>>, x) + Occ(r, x)
  BY <1>1, OccConcat
<1>3. Occ(<<s[n]>>, x) = Ind(s[n], x)
  BY <1>1, OccShort
<1> QED
  BY <1>1, <1>2, <1>3 DEF r

\* The numbers of the pointers are 0 for the bytes and the places of the fields.
LEMMA UsesCounted ==
  ASSUME NEW object, object.fields \in Seq(Int), NEW o
  PROVE  IsFiniteSet(Uses(object, o)) /\ Cardinality(Uses(object, o)) = Pointing(object, o)
         /\ Pointing(object, o) \in Nat
<1> DEFINE P == Places(object.fields, o)
<1>1. IsFiniteSet(P) /\ Cardinality(P) \in Nat /\ Occ(object.fields, o) = Cardinality(P) /\ 0 \notin P
  <2>1. IsFiniteSet(P) /\ Occ(object.fields, o) \in Nat
    BY PlacesFinite
  <2>2. Occ(object.fields, o) = Cardinality(P)
    BY DEF Occ
  <2>3. 0 \notin P
    BY DEF Places
  <2> QED
    BY <2>1, <2>2, <2>3
<1>2. CASE object.bytes = o
  <2>1. Uses(object, o) = P \cup {0}
    BY <1>2 DEF Uses, Places
  <2> HIDE DEF P
  <2>2. IsFiniteSet(P \cup {0}) /\ Cardinality(P \cup {0}) = Cardinality(P) + 1
    BY <1>1, FS_AddElement
  <2>3. Pointing(object, o) = Cardinality(P) + 1
    BY <1>1, <1>2 DEF Pointing, Ind
  <2> QED
    BY <1>1, <2>1, <2>2, <2>3
<1>3. CASE object.bytes # o
  <2>1. Uses(object, o) = P
    BY <1>3 DEF Uses, Places
  <2> HIDE DEF P
  <2> QED
    BY <1>1, <1>3, <2>1 DEF Pointing, Ind
<1> QED
  BY <1>2, <1>3

-----------------------------------------------------------------------------
(* The pointers and the views of a heap *)

Heap(heap) == IsFiniteSet(DOMAIN heap) /\ \A o \in DOMAIN heap : heap[o].fields \in Seq(Int)

\* The pointers in a part of a heap are finitely many.
LEMMA RefsFinite ==
  ASSUME NEW heap, Heap(heap), NEW o
  PROVE  IsFiniteSet(PointersTo(heap, o)) /\ Refs(heap, o) \in Nat
<1> DEFINE U(p) == {p} \X Uses(heap[p], o)
           f == [p \in DOMAIN heap |-> U(p)]
           F == {f[p] : p \in DOMAIN heap}
<1>1. IsFiniteSet(F) /\ F = {U(p) : p \in DOMAIN heap}
  <2>1. F = {U(p) : p \in DOMAIN heap}
    OBVIOUS
  <2>2. f \in Surjection(DOMAIN heap, F)
    BY DEF Surjection
  <2> HIDE DEF f, F
  <2> QED
    BY <2>1, <2>2, FS_Surjection DEF Heap
<1>2. ASSUME NEW p \in DOMAIN heap PROVE IsFiniteSet(U(p))
  BY UsesCounted, FS_Singleton, FS_Product DEF Heap
<1> HIDE DEF U
<1>3. IsFiniteSet(UNION F)
  BY <1>1, <1>2, FS_UNION
<1>4. IsFiniteSet(PointersTo(heap, o))
  BY <1>3 DEF PointersTo, U
<1> QED
  BY <1>4, FS_CardinalityType DEF Refs

\* The pointers of a heap are those of one object and those of the others.
LEMMA RefsSplit ==
  ASSUME NEW heap, Heap(heap), NEW p \in DOMAIN heap, NEW rest, NEW o,
         DOMAIN rest = DOMAIN heap \ {p}, \A q \in DOMAIN rest : rest[q] = heap[q]
  PROVE  Refs(heap, o) = Refs(rest, o) + Pointing(heap[p], o) /\ Heap(rest)
<1> DEFINE A == {p} \X Uses(heap[p], o)
           B == PointersTo(rest, o)
<1>1. Heap(rest)
  BY FS_Subset DEF Heap
<1>2. IsFiniteSet(B) /\ Refs(rest, o) = Cardinality(B)
  BY <1>1, RefsFinite DEF Refs
<1>3. IsFiniteSet(A) /\ Cardinality(A) = Pointing(heap[p], o)
  <2>1. IsFiniteSet(Uses(heap[p], o)) /\ Cardinality(Uses(heap[p], o)) = Pointing(heap[p], o)
        /\ Pointing(heap[p], o) \in Nat
    BY UsesCounted DEF Heap
  <2>2. IsFiniteSet({p}) /\ Cardinality({p}) = 1
    BY FS_Singleton
  <2> QED
    BY <2>1, <2>2, FS_Product
<1>4. A \cap B = {}
  BY DEF PointersTo
<1>5. PointersTo(heap, o) = A \cup B
  BY DEF PointersTo
<1> HIDE DEF A, B
<1>6. Cardinality(A \cup B) = Cardinality(A) + Cardinality(B)
  <2>1. Cardinality(A \cap B) = 0
    BY <1>4, FS_EmptySet
  <2>2. Cardinality(A \cup B) = Cardinality(A) + Cardinality(B) - Cardinality(A \cap B)
    BY <1>2, <1>3, FS_Union
  <2> QED
    BY <1>2, <1>3, <2>1, <2>2, FS_CardinalityType
<1>7. Cardinality(A) \in Nat /\ Cardinality(B) \in Nat
  BY <1>2, <1>3, FS_CardinalityType
<1> QED
  BY <1>1, <1>2, <1>3, <1>5, <1>6, <1>7 DEF Refs

\* The same for the arrays over a piece of data.
LEMMA ViewersSplit ==
  ASSUME NEW heap, IsFiniteSet(DOMAIN heap), NEW p \in DOMAIN heap, NEW rest, NEW d,
         DOMAIN rest = DOMAIN heap \ {p}, \A q \in DOMAIN rest : rest[q] = heap[q]
  PROVE  /\ Cardinality(Viewers(heap, d)) = Cardinality(Viewers(rest, d)) + Ind(heap[p].data, d)
         /\ Cardinality(Viewers(rest, d)) \in Nat
<1> DEFINE B == Viewers(rest, d)
<1>1. IsFiniteSet(B) /\ Cardinality(B) \in Nat
  <2>1. B \subseteq DOMAIN heap
    BY DEF Viewers
  <2> QED
    BY <2>1, FS_Subset, FS_CardinalityType
<1>2. p \notin B
  BY DEF Viewers
<1>3. CASE heap[p].data = d
  <2>1. Viewers(heap, d) = B \cup {p}
    BY <1>3 DEF Viewers
  <2> HIDE DEF B
  <2>2. Cardinality(B \cup {p}) = Cardinality(B) + 1
    BY <1>1, <1>2, FS_AddElement
  <2> QED
    BY <1>1, <1>3, <2>1, <2>2 DEF Ind, B
<1>4. CASE heap[p].data # d
  <2>1. Viewers(heap, d) = B
    BY <1>4 DEF Viewers
  <2> QED
    BY <1>1, <1>4, <2>1 DEF Ind
<1> QED
  BY <1>3, <1>4

\* What an object p of a heap has; it has nothing where it is not in the heap.
PointingFrom(heap, p, o) == IF p \in DOMAIN heap THEN Pointing(heap[p], o) ELSE 0
ViewingFrom(heap, p, d)  == IF p \in DOMAIN heap THEN Ind(heap[p].data, d) ELSE 0

\* Two heaps that differ in the object p differ in its pointers.
LEMMA RefsDiffer ==
  ASSUME NEW heap, NEW other, Heap(heap), Heap(other), NEW p,
         DOMAIN heap \ {p} = DOMAIN other \ {p},
         \A q \in DOMAIN heap \ {p} : heap[q] = other[q]
  PROVE  /\ \A o : /\ Refs(other, o) + PointingFrom(heap, p, o) = Refs(heap, o) + PointingFrom(other, p, o)
                   /\ Refs(other, o) \in Nat /\ Refs(heap, o) \in Nat
                   /\ PointingFrom(heap, p, o) \in Nat /\ PointingFrom(other, p, o) \in Nat
         /\ \A d : /\ Cardinality(Viewers(other, d)) + ViewingFrom(heap, p, d)
                        = Cardinality(Viewers(heap, d)) + ViewingFrom(other, p, d)
                   /\ Cardinality(Viewers(other, d)) \in Nat /\ Cardinality(Viewers(heap, d)) \in Nat
<1> DEFINE D == DOMAIN heap \ {p}
           rest == [q \in D |-> heap[q]]
<1>1. DOMAIN rest = D /\ \A q \in D : rest[q] = heap[q] /\ rest[q] = other[q]
  OBVIOUS
<1> HIDE DEF rest
<1>2. Heap(rest)
  BY <1>1, FS_Subset DEF Heap
<1>3. ASSUME NEW h, Heap(h), DOMAIN h \ {p} = D, \A q \in D : rest[q] = h[q]
      PROVE  /\ \A o : Refs(h, o) = Refs(rest, o) + PointingFrom(h, p, o) /\ PointingFrom(h, p, o) \in Nat
             /\ \A d : Cardinality(Viewers(h, d)) = Cardinality(Viewers(rest, d)) + ViewingFrom(h, p, d)
  <2>1. CASE p \in DOMAIN h
    <3>1. \A o : Refs(h, o) = Refs(rest, o) + Pointing(h[p], o)
      BY <1>1, <1>3, <2>1, RefsSplit
    <3>2. \A o : Pointing(h[p], o) \in Nat
      BY <1>3, <2>1, UsesCounted DEF Heap
    <3>3. ASSUME NEW d PROVE Cardinality(Viewers(h, d)) = Cardinality(Viewers(rest, d)) + Ind(h[p].data, d)
      <4>1. IsFiniteSet(DOMAIN h) /\ DOMAIN rest = DOMAIN h \ {p} /\ \A q \in DOMAIN rest : rest[q] = h[q]
        BY <1>1, <1>3 DEF Heap
      <4> HIDE DEF D
      <4> QED
        <5>1. \A x : Cardinality(Viewers(h, x)) = Cardinality(Viewers(rest, x)) + Ind(h[p].data, x)
          BY <2>1, <4>1, ViewersSplit
        <5> QED
          BY <5>1
    <3> QED
      BY <2>1, <3>1, <3>2, <3>3 DEF PointingFrom, ViewingFrom
  <2>2. CASE p \notin DOMAIN h
    <3>1. DOMAIN h = DOMAIN rest /\ \A q \in DOMAIN h : h[q] = rest[q]
      BY <1>1, <1>3, <2>2
    <3>2. \A o : PointersTo(h, o) = PointersTo(rest, o)
      BY <3>1 DEF PointersTo
    <3>3. \A d : Viewers(h, d) = Viewers(rest, d)
      BY <3>1 DEF Viewers
    <3>4. \A o : Refs(rest, o) \in Nat
      BY <1>2, RefsFinite
    <3>5. \A d : Cardinality(Viewers(rest, d)) \in Nat
      <4>1. \A d : Viewers(rest, d) \subseteq DOMAIN rest
        BY DEF Viewers
      <4> QED
        BY <1>2, <4>1, FS_Subset, FS_CardinalityType DEF Heap
    <3> QED
      BY <2>2, <3>2, <3>3, <3>4, <3>5 DEF PointingFrom, ViewingFrom, Refs
  <2> QED
    BY <2>1, <2>2
<1>4. /\ \A o : Refs(heap, o) = Refs(rest, o) + PointingFrom(heap, p, o) /\ PointingFrom(heap, p, o) \in Nat
      /\ \A d : Cardinality(Viewers(heap, d)) = Cardinality(Viewers(rest, d)) + ViewingFrom(heap, p, d)
  BY <1>1, <1>3
<1>5. /\ \A o : Refs(other, o) = Refs(rest, o) + PointingFrom(other, p, o) /\ PointingFrom(other, p, o) \in Nat
      /\ \A d : Cardinality(Viewers(other, d)) = Cardinality(Viewers(rest, d)) + ViewingFrom(other, p, d)
  BY <1>1, <1>3
<1>6. \A o : Refs(rest, o) \in Nat
  BY <1>2, RefsFinite
<1>7. \A d : Cardinality(Viewers(rest, d)) \in Nat
  <2>1. \A d : Viewers(rest, d) \subseteq DOMAIN rest
    BY DEF Viewers
  <2> QED
    BY <1>2, <2>1, FS_Subset, FS_CardinalityType DEF Heap
<1>8. \A d : ViewingFrom(heap, p, d) \in Nat /\ ViewingFrom(other, p, d) \in Nat
  BY DEF ViewingFrom, Ind
<1>9. ASSUME NEW o
      PROVE  /\ Refs(other, o) + PointingFrom(heap, p, o) = Refs(heap, o) + PointingFrom(other, p, o)
             /\ Refs(other, o) \in Nat /\ Refs(heap, o) \in Nat
             /\ PointingFrom(heap, p, o) \in Nat /\ PointingFrom(other, p, o) \in Nat
  BY <1>4, <1>5, <1>6
<1>10. ASSUME NEW d
       PROVE  /\ Cardinality(Viewers(other, d)) + ViewingFrom(heap, p, d)
                   = Cardinality(Viewers(heap, d)) + ViewingFrom(other, p, d)
              /\ Cardinality(Viewers(other, d)) \in Nat /\ Cardinality(Viewers(heap, d)) \in Nat
  BY <1>4, <1>5, <1>7, <1>8
<1> QED
  BY <1>9, <1>10

\* An object's pointers are among those of its heap, and so are those of two objects.
LEMMA RefsBound ==
  ASSUME NEW heap, Heap(heap), NEW p \in DOMAIN heap, NEW o
  PROVE  /\ Refs(heap, o) >= Pointing(heap[p], o) /\ Refs(heap, o) \in Nat /\ Pointing(heap[p], o) \in Nat
         /\ \A q \in DOMAIN heap : q # p => Refs(heap, o) >= Pointing(heap[p], o) + Pointing(heap[q], o)
<1> DEFINE rest == [q \in DOMAIN heap \ {p} |-> heap[q]]
<1>1. DOMAIN rest = DOMAIN heap \ {p} /\ \A q \in DOMAIN rest : rest[q] = heap[q]
  OBVIOUS
<1> HIDE DEF rest
<1>2. Refs(heap, o) = Refs(rest, o) + Pointing(heap[p], o) /\ Heap(rest)
  BY <1>1, RefsSplit
<1>3. Refs(rest, o) \in Nat
  BY <1>2, RefsFinite
<1>4. \A q \in DOMAIN heap : Pointing(heap[q], o) \in Nat
  BY UsesCounted DEF Heap
<1>5. ASSUME NEW q \in DOMAIN heap, q # p PROVE Refs(rest, o) >= Pointing(heap[q], o)
  <2> DEFINE less == [x \in DOMAIN rest \ {q} |-> rest[x]]
  <2>1. DOMAIN less = DOMAIN rest \ {q} /\ \A x \in DOMAIN less : less[x] = rest[x]
    OBVIOUS
  <2> HIDE DEF less
  <2>2. q \in DOMAIN rest /\ rest[q] = heap[q]
    BY <1>1, <1>5
  <2>3. Refs(rest, o) = Refs(less, o) + Pointing(rest[q], o) /\ Heap(less)
    BY <1>2, <2>1, <2>2, RefsSplit
  <2>4. Refs(less, o) \in Nat
    BY <2>3, RefsFinite
  <2> QED
    BY <1>4, <2>2, <2>3, <2>4
<1> QED
  BY <1>2, <1>3, <1>4, <1>5

-----------------------------------------------------------------------------
(* One object changes *)

Booked(m, ext) == Shaped(m) /\ Accounted(m, ext) /\ SharesAccounted(m)

Tokens == [Addresses -> Nat]

\* What is known of an object of a sound heap.
LEMMA ShapedHeap ==
  ASSUME NEW m, Shaped(m)
  PROVE  /\ Heap(m.heap) /\ DOMAIN m.heap \subseteq Addresses
         /\ \A o \in DOMAIN m.heap : ObjectOK(o, m.heap[o]) /\ m.heap[o] \in Records
<1>1. DOMAIN m.heap \subseteq Addresses /\ \A o \in DOMAIN m.heap : ObjectOK(o, m.heap[o])
  BY DEF Shaped, HeapOK
<1>2. IsFiniteSet(DOMAIN m.heap)
  BY <1>1, Kinds, FS_Subset
<1>3. \A o \in DOMAIN m.heap : m.heap[o] \in Records
  BY <1>1 DEF ObjectOK
<1>4. \A o \in DOMAIN m.heap : m.heap[o].fields \in Seq(Int)
  BY <1>3 DEF Records
<1> QED
  BY <1>1, <1>2, <1>3, <1>4 DEF Heap

\* One object p is made, changed or taken away, and tokens change hands: if they
\* balance, the books are right again.
LEMMA Stepped ==
  ASSUME NEW m, NEW x, NEW ext \in Tokens, NEW new \in Tokens, NEW p,
         Booked(m, ext), Shaped(x),
         DOMAIN m.heap \ {p} = DOMAIN x.heap \ {p},
         \A q \in DOMAIN m.heap \ {p} : m.heap[q] = x.heap[q],
         \A a \in Addresses :
           (IF a = p THEN CountOf(x.heap, p) - CountOf(m.heap, p) ELSE 0)
             = PointingFrom(x.heap, p, a) - PointingFrom(m.heap, p, a)
               + (x.lost[a] - m.lost[a]) + (new[a] - ext[a]),
         \A d \in 1 .. MaxObjects :
           SharesOf(x.shared, d) - SharesOf(m.shared, d)
             = ViewingFrom(x.heap, p, d) - ViewingFrom(m.heap, p, d) + (x.lostShared[d] - m.lostShared[d])
  PROVE  Booked(x, new)
<1>1. Heap(m.heap) /\ Heap(x.heap)
  BY ShapedHeap DEF Booked
<1>2. /\ \A o : /\ Refs(x.heap, o) + PointingFrom(m.heap, p, o) = Refs(m.heap, o) + PointingFrom(x.heap, p, o)
                /\ Refs(x.heap, o) \in Nat /\ Refs(m.heap, o) \in Nat
                /\ PointingFrom(m.heap, p, o) \in Nat /\ PointingFrom(x.heap, p, o) \in Nat
      /\ \A d : /\ Cardinality(Viewers(x.heap, d)) + ViewingFrom(m.heap, p, d)
                     = Cardinality(Viewers(m.heap, d)) + ViewingFrom(x.heap, p, d)
                /\ Cardinality(Viewers(x.heap, d)) \in Nat /\ Cardinality(Viewers(m.heap, d)) \in Nat
  BY <1>1, RefsDiffer
<1>3. ASSUME NEW a \in Addresses
      PROVE  CountOf(x.heap, a) = Refs(x.heap, a) + x.lost[a] + new[a]
  <2>1. CountOf(m.heap, a) = Refs(m.heap, a) + m.lost[a] + ext[a]
    BY DEF Booked, Accounted
  <2>2. a # p => CountOf(x.heap, a) = CountOf(m.heap, a)
    BY DEF CountOf
  <2>3. x.lost[a] \in Nat /\ m.lost[a] \in Nat /\ new[a] \in Nat /\ ext[a] \in Nat
    BY DEF Booked, Shaped, Tokens
  <2>4. CountOf(x.heap, a) \in Int
    <3>1. a \in DOMAIN x.heap => x.heap[a].count \in Nat
      BY ShapedHeap DEF Records
    <3> QED
      BY <3>1 DEF CountOf
  <2> HIDE DEF Tokens
  <2> QED
    BY <1>2, <2>1, <2>2, <2>3, <2>4
<1>4. ASSUME NEW d \in 1 .. MaxObjects
      PROVE  SharesOf(x.shared, d) = x.lostShared[d] + Cardinality(Viewers(x.heap, d))
  <2>1. SharesOf(m.shared, d) = m.lostShared[d] + Cardinality(Viewers(m.heap, d))
    BY DEF Booked, SharesAccounted
  <2>2. x.lostShared[d] \in Nat /\ m.lostShared[d] \in Nat
    BY DEF Booked, Shaped
  <2>3. ViewingFrom(m.heap, p, d) \in Nat /\ ViewingFrom(x.heap, p, d) \in Nat
    BY DEF ViewingFrom, Ind
  <2>4. SharesOf(x.shared, d) \in Int
    BY DEF SharesOf, Shaped
  <2>5. SharesOf(x.shared, d) - SharesOf(m.shared, d)
          = ViewingFrom(x.heap, p, d) - ViewingFrom(m.heap, p, d) + (x.lostShared[d] - m.lostShared[d])
    OBVIOUS
  <2>6. /\ Cardinality(Viewers(x.heap, d)) + ViewingFrom(m.heap, p, d)
             = Cardinality(Viewers(m.heap, d)) + ViewingFrom(x.heap, p, d)
        /\ Cardinality(Viewers(x.heap, d)) \in Nat /\ Cardinality(Viewers(m.heap, d)) \in Nat
    BY <1>2
  <2> QED
    BY <2>1, <2>2, <2>3, <2>4, <2>5, <2>6
<1> QED
  BY <1>3, <1>4 DEF Booked, Accounted, SharesAccounted

\* What a live object of a sound memory points to is alive.
LEMMA PointersAlive ==
  ASSUME NEW m, NEW ext \in Tokens, Booked(m, ext), NEW p \in DOMAIN m.heap
  PROVE  /\ m.heap[p].bytes \in Addresses => m.heap[p].bytes \in DOMAIN m.heap
         /\ \A i \in 1 .. Len(m.heap[p].fields) :
              m.heap[p].fields[i] \in Addresses => m.heap[p].fields[i] \in DOMAIN m.heap
<1>1. Heap(m.heap) /\ m.heap[p].fields \in Seq(Int)
  BY ShapedHeap DEF Booked, Records
<1>2. ASSUME NEW a \in Addresses, Pointing(m.heap[p], a) >= 1 PROVE a \in DOMAIN m.heap
  <2>1. Refs(m.heap, a) >= 1 /\ Refs(m.heap, a) \in Nat
    BY <1>1, <1>2, RefsBound
  <2>2. m.lost[a] \in Nat /\ ext[a] \in Nat
    BY DEF Booked, Shaped, Tokens
  <2>3. CountOf(m.heap, a) = Refs(m.heap, a) + m.lost[a] + ext[a]
    BY DEF Booked, Accounted
  <2> QED
    BY <2>1, <2>2, <2>3 DEF CountOf
<1>3. \A a : Occ(m.heap[p].fields, a) \in Nat
  BY <1>1, PlacesFinite
<1>4. ASSUME m.heap[p].bytes \in Addresses PROVE m.heap[p].bytes \in DOMAIN m.heap
  <2>1. Pointing(m.heap[p], m.heap[p].bytes) >= 1
    BY <1>3 DEF Pointing, Ind
  <2> QED
    BY <1>2, <1>4, <2>1
<1>5. ASSUME NEW i \in 1 .. Len(m.heap[p].fields), m.heap[p].fields[i] \in Addresses
      PROVE  m.heap[p].fields[i] \in DOMAIN m.heap
  <2>1. Occ(m.heap[p].fields, m.heap[p].fields[i]) >= 1
    BY <1>1, OccPositive
  <2>2. Pointing(m.heap[p], m.heap[p].fields[i]) >= 1
    BY <1>3, <2>1 DEF Pointing, Ind
  <2> QED
    BY <1>2, <1>5, <2>2
<1> QED
  BY <1>4, <1>5

\* Who has a token of an object has it alive.
LEMMA TokenAlive ==
  ASSUME NEW m, NEW ext \in Tokens, Booked(m, ext), NEW o \in Addresses, ext[o] >= 1
  PROVE  o \in DOMAIN m.heap
<1>1. Refs(m.heap, o) \in Nat
  BY ShapedHeap, RefsFinite DEF Booked
<1>2. m.lost[o] \in Nat /\ ext[o] \in Nat
  BY DEF Booked, Shaped, Tokens
<1>3. CountOf(m.heap, o) = Refs(m.heap, o) + m.lost[o] + ext[o]
  BY DEF Booked, Accounted
<1> QED
  BY <1>1, <1>2, <1>3 DEF CountOf

\* The bytes of a part are not those of another, and nobody has a token of them.
LEMMA BytesAlone ==
  ASSUME NEW m, NEW ext \in Tokens, NEW e, Booked(m, ext), Private(m, e),
         NEW l \in DOMAIN m.heap \cap Leaves, l # e, m.heap[l].bytes \in Arrays
  PROVE  /\ m.heap[l].bytes \in DOMAIN m.heap /\ CountOf(m.heap, m.heap[l].bytes) = 1
         /\ ext[m.heap[l].bytes] = 0 /\ m.lost[m.heap[l].bytes] = 0
         /\ \A q \in DOMAIN m.heap : q # l => Pointing(m.heap[q], m.heap[l].bytes) = 0
         /\ Pointing(m.heap[l], m.heap[l].bytes) = 1
<1> DEFINE b == m.heap[l].bytes
<1>1. Heap(m.heap) /\ m.heap[l].fields \in Seq(Int)
  BY ShapedHeap DEF Booked, Records
<1>2. b \in Addresses /\ b \in DOMAIN m.heap
  BY Kinds, PointersAlive
<1>3. CountOf(m.heap, b) = 1
  BY DEF Private
<1>4. CountOf(m.heap, b) = Refs(m.heap, b) + m.lost[b] + ext[b]
  BY <1>2 DEF Booked, Accounted
<1>5. m.lost[b] \in Nat /\ ext[b] \in Nat
  BY <1>2 DEF Booked, Shaped, Tokens
<1>6. Pointing(m.heap[l], b) >= 1
  <2>1. Occ(m.heap[l].fields, b) \in Nat
    BY <1>1, PlacesFinite
  <2> QED
    BY <2>1 DEF Pointing, Ind
<1>7. /\ Refs(m.heap, b) >= Pointing(m.heap[l], b) /\ Refs(m.heap, b) \in Nat /\ Pointing(m.heap[l], b) \in Nat
      /\ \A q \in DOMAIN m.heap : q # l => Refs(m.heap, b) >= Pointing(m.heap[l], b) + Pointing(m.heap[q], b)
  BY <1>1, RefsBound
<1>8. \A q \in DOMAIN m.heap : Pointing(m.heap[q], b) \in Nat
  BY <1>1, UsesCounted DEF Heap
<1> HIDE DEF b
<1>9. Refs(m.heap, b) = 1 /\ m.lost[b] = 0 /\ ext[b] = 0 /\ Pointing(m.heap[l], b) = 1
  BY <1>3, <1>4, <1>5, <1>6, <1>7
<1>10. \A q \in DOMAIN m.heap : q # l => Pointing(m.heap[q], b) = 0
  BY <1>7, <1>8, <1>9
<1> QED
  BY <1>2, <1>3, <1>9, <1>10 DEF b

-----------------------------------------------------------------------------
(* The first steps *)

\* The tokens with one more of o, which is no object when it is Null or Garbage.
Plus(ext, o) == [a \in Addresses |-> ext[a] + Ind(o, a)]

\* One more token is a function of tokens, and of no object it is none.
LEMMA PlusTokens ==
  ASSUME NEW ext \in Tokens, NEW o
  PROVE  /\ Plus(ext, o) \in Tokens
         /\ \A a \in Addresses : Plus(ext, o)[a] = ext[a] + Ind(o, a) /\ ext[a] \in Nat
         /\ o \notin Addresses => Plus(ext, o) = ext
<1>1. \A a \in Addresses : ext[a] + Ind(o, a) \in Nat /\ ext[a] \in Nat
  BY DEF Tokens, Ind
<1>2. Plus(ext, o) \in Tokens
  BY <1>1 DEF Plus, Tokens
<1>3. ASSUME o \notin Addresses PROVE Plus(ext, o) = ext
  <2>1. \A a \in Addresses : ext[a] + Ind(o, a) = ext[a]
    BY <1>1, <1>3 DEF Ind
  <2>2. ext = [a \in Addresses |-> ext[a]]
    BY DEF Tokens
  <2> QED
    BY <2>1, <2>2 DEF Plus
<1> QED
  BY <1>1, <1>2, <1>3 DEF Plus

\* In x the object o is obj, and no other object is another than in m.
Puts(m, x, o, obj) ==
  /\ IsMemory(x) /\ x.heap = [q \in DOMAIN m.heap \cup {o} |-> IF q = o THEN obj ELSE m.heap[q]]
  /\ x.shared = m.shared /\ x.lostShared = m.lostShared /\ x.undefined = m.undefined

\* What o counts more is what it and the tokens have more.
Balanced(m, x, ext, new, o, obj) ==
  \A a \in Addresses :
    (IF a = o THEN obj.count - CountOf(m.heap, o) ELSE 0)
      = Pointing(obj, a) - PointingFrom(m.heap, o, a) + (x.lost[a] - m.lost[a]) + (new[a] - ext[a])

\* An object is made or rewritten, and the tokens balance.
LEMMA PutBooked ==
  ASSUME NEW m, NEW x, NEW ext \in Tokens, NEW new \in Tokens, NEW o \in Addresses, NEW obj,
         Booked(m, ext), ObjectOK(o, obj), Puts(m, x, o, obj), x.lost \in [Addresses -> Nat],
         obj.data = IF o \in DOMAIN m.heap THEN m.heap[o].data ELSE Null,
         Balanced(m, x, ext, new, o, obj)
  PROVE  Booked(x, new)
<1>1. Shaped(m) /\ DOMAIN x.heap = DOMAIN m.heap \cup {o} /\ x.heap[o] = obj
      /\ \A q \in DOMAIN m.heap \ {o} : x.heap[q] = m.heap[q]
  BY DEF Booked, Puts
<1>2. HeapOK(x.heap)
  BY <1>1 DEF Shaped, HeapOK
<1>3. x.heap = [q \in DOMAIN x.heap |-> x.heap[q]]
  BY DEF Puts
<1>4. Shaped(x)
  BY <1>1, <1>2, <1>3 DEF Shaped, Puts
<1>5. CountOf(x.heap, o) = obj.count /\ \A a : PointingFrom(x.heap, o, a) = Pointing(obj, a)
  BY <1>1 DEF CountOf, PointingFrom
<1>6. ASSUME NEW d \in 1 .. MaxObjects
      PROVE  SharesOf(x.shared, d) - SharesOf(m.shared, d)
               = ViewingFrom(x.heap, o, d) - ViewingFrom(m.heap, o, d) + (x.lostShared[d] - m.lostShared[d])
  <2>1. x.shared = m.shared /\ x.lostShared = m.lostShared
    BY DEF Puts
  <2>2. SharesOf(m.shared, d) \in Int /\ m.lostShared[d] \in Int
    <3>1. d \in DOMAIN m.shared => m.shared[d] \in Nat
      BY <1>1 DEF Shaped
    <3>2. m.lostShared[d] \in Nat
      BY <1>1 DEF Shaped
    <3> QED
      BY <3>1, <3>2 DEF SharesOf
  <2>3. ViewingFrom(x.heap, o, d) = ViewingFrom(m.heap, o, d) /\ ViewingFrom(m.heap, o, d) \in Int
    <3>1. CASE o \in DOMAIN m.heap
      BY <1>1, <3>1 DEF ViewingFrom, Ind
    <3>2. CASE o \notin DOMAIN m.heap
      <4>1. Null # d
        BY ObjectsAssumption DEF Null
      <4> QED
        BY <1>1, <3>2, <4>1 DEF ViewingFrom, Ind
    <3> QED
      BY <3>1, <3>2
  <2> QED
    BY <2>1, <2>2, <2>3
<1>7. DOMAIN m.heap \ {o} = DOMAIN x.heap \ {o}
  BY <1>1
<1>8. \A a \in Addresses :
        (IF a = o THEN CountOf(x.heap, o) - CountOf(m.heap, o) ELSE 0)
          = PointingFrom(x.heap, o, a) - PointingFrom(m.heap, o, a) + (x.lost[a] - m.lost[a]) + (new[a] - ext[a])
  BY <1>5 DEF Balanced
<1> QED
  BY <1>1, <1>4, <1>6, <1>7, <1>8, Stepped

WithCount(object, n) == [object EXCEPT !.count = n]

\* An object with another count is otherwise the same.
LEMMA Recounted ==
  ASSUME NEW object \in Records, NEW n \in Nat \ {0}
  PROVE  LET obj == WithCount(object, n)
         IN  /\ obj \in Records /\ obj.count = n
             /\ obj.class = object.class /\ obj.bytes = object.bytes /\ obj.fields = object.fields
             /\ obj.data = object.data /\ obj.destroy = object.destroy
             /\ \A o : ObjectOK(o, object) => ObjectOK(o, obj)
             /\ \A o : Pointing(obj, o) = Pointing(object, o) /\ Pointing(object, o) \in Nat
             /\ TidyObject(object) => TidyObject(obj)
<1> DEFINE obj == WithCount(object, n)
<1>1. /\ obj \in Records /\ obj.count = n
      /\ obj.class = object.class /\ obj.bytes = object.bytes /\ obj.fields = object.fields
      /\ obj.data = object.data /\ obj.destroy = object.destroy
  BY DEF Records, WithCount
<1>2. object.fields \in Seq(Int)
  BY DEF Records
<1> HIDE DEF obj
<1>3. \A o : ObjectOK(o, object) => ObjectOK(o, obj)
  BY <1>1 DEF ObjectOK, ArrayOK, LeafOK, ParentOK
<1>4. ASSUME NEW o PROVE Pointing(obj, o) = Pointing(object, o) /\ Pointing(object, o) \in Nat
  BY <1>1, <1>2, UsesCounted DEF Pointing
<1>5. TidyObject(object) => TidyObject(obj)
  BY <1>1 DEF TidyObject
<1> QED
  BY <1>1, <1>3, <1>4, <1>5 DEF obj

\* Another count for an object, and as many tokens.
LEMMA RecountBooked ==
  ASSUME NEW m, NEW ext \in Tokens, NEW new \in Tokens, Booked(m, ext),
         NEW o \in DOMAIN m.heap, NEW n \in Nat \ {0},
         \A a \in Addresses : new[a] = ext[a] + (IF a = o THEN n - m.heap[o].count ELSE 0)
  PROVE  LET x == [m EXCEPT !.heap[o].count = n]
         IN  Booked(x, new) /\ Puts(m, x, o, WithCount(m.heap[o], n)) /\ x.lost = m.lost
<1> DEFINE x == [m EXCEPT !.heap[o].count = n]
           obj == WithCount(m.heap[o], n)
<1>1. ObjectOK(o, m.heap[o]) /\ m.heap[o] \in Records /\ o \in Addresses /\ Shaped(m)
  BY ShapedHeap DEF Booked
<1>2. /\ obj.count = n /\ ObjectOK(o, obj) /\ obj.data = m.heap[o].data
      /\ \A a : Pointing(obj, a) = Pointing(m.heap[o], a) /\ Pointing(obj, a) \in Nat
  BY <1>1, Recounted
<1>3. Puts(m, x, o, obj) /\ x.lost = m.lost
  <2>1. IsMemory(m) /\ m.heap = [q \in DOMAIN m.heap |-> m.heap[q]]
    BY <1>1 DEF Shaped
  <2>2. x = [heap |-> [m.heap EXCEPT ![o] = obj], shared |-> m.shared, lost |-> m.lost, lostShared |-> m.lostShared,
             undefined |-> m.undefined]
    BY <2>1 DEF IsMemory, WithCount
  <2>3. [m.heap EXCEPT ![o] = obj] = [q \in DOMAIN m.heap \cup {o} |-> IF q = o THEN obj ELSE m.heap[q]]
    BY <2>1
  <2> HIDE DEF x, obj
  <2> QED
    BY <2>2, <2>3 DEF Puts, IsMemory
<1> HIDE DEF x, obj
<1>4. Balanced(m, x, ext, new, o, obj)
  <2> SUFFICES ASSUME NEW a \in Addresses
               PROVE  (IF a = o THEN obj.count - CountOf(m.heap, o) ELSE 0)
                        = Pointing(obj, a) - PointingFrom(m.heap, o, a) + (x.lost[a] - m.lost[a]) + (new[a] - ext[a])
    BY DEF Balanced
  <2>1. Pointing(obj, a) = PointingFrom(m.heap, o, a) /\ Pointing(obj, a) \in Int
    BY <1>2 DEF PointingFrom
  <2>2. m.lost[a] \in Int /\ x.lost[a] = m.lost[a] /\ ext[a] \in Int
    BY <1>1, <1>3 DEF Shaped, Tokens
  <2>3. CountOf(m.heap, o) = m.heap[o].count /\ m.heap[o].count \in Int
    BY <1>1 DEF CountOf, Records
  <2>4. new[a] = ext[a] + (IF a = o THEN n - m.heap[o].count ELSE 0)
    OBVIOUS
  <2> QED
    BY <1>2, <2>1, <2>2, <2>3, <2>4
<1>5. obj.data = IF o \in DOMAIN m.heap THEN m.heap[o].data ELSE Null
  BY <1>2
<1>6. x.lost \in [Addresses -> Nat]
  BY <1>1, <1>3 DEF Shaped
<1>7. Booked(x, new)
  BY <1>1, <1>2, <1>3, <1>4, <1>5, <1>6, PutBooked
<1> QED
  BY <1>3, <1>7 DEF x, obj

\* The object with another count is as tidy, and its heap keeps the bytes of parts
\* private when it is not among them.
LEMMA RecountKeeps ==
  ASSUME NEW m, NEW x, NEW o \in DOMAIN m.heap, NEW n \in Nat \ {0}, Shaped(m),
         Puts(m, x, o, WithCount(m.heap[o], n))
  PROVE  /\ \A e : Tidy(m, e) => Tidy(x, e)
         /\ \A e : Private(m, e) /\ (\A l \in DOMAIN m.heap \cap Leaves : m.heap[l].bytes # o) => Private(x, e)
         /\ DOMAIN x.heap = DOMAIN m.heap /\ x.heap[o].count = n
         /\ \A q \in DOMAIN m.heap : x.heap[q].bytes = m.heap[q].bytes
         /\ \A q \in DOMAIN m.heap \ {o} : x.heap[q] = m.heap[q]
<1> DEFINE obj == WithCount(m.heap[o], n)
<1>1. m.heap[o] \in Records
  BY ShapedHeap
<1>2. obj.count = n /\ obj.bytes = m.heap[o].bytes /\ (TidyObject(m.heap[o]) => TidyObject(obj))
  BY <1>1, Recounted
<1> HIDE DEF obj
<1>3. DOMAIN x.heap = DOMAIN m.heap /\ x.heap[o] = obj /\ \A q \in DOMAIN m.heap \ {o} : x.heap[q] = m.heap[q]
  BY DEF Puts, obj
<1>4. \A q \in DOMAIN m.heap : x.heap[q].bytes = m.heap[q].bytes
  BY <1>2, <1>3
<1>5. \A e : Tidy(m, e) => Tidy(x, e)
  BY <1>2, <1>3 DEF Tidy
<1>6. ASSUME NEW e, Private(m, e), \A l \in DOMAIN m.heap \cap Leaves : m.heap[l].bytes # o PROVE Private(x, e)
  <2> SUFFICES ASSUME NEW l \in DOMAIN x.heap \cap Leaves, x.heap[l].bytes \in Arrays
               PROVE  CountOf(x.heap, x.heap[l].bytes) = IF l = e THEN 2 ELSE 1
    BY DEF Private
  <2>1. x.heap[l].bytes = m.heap[l].bytes /\ m.heap[l].bytes # o
    BY <1>3, <1>4, <1>6
  <2>2. CountOf(m.heap, m.heap[l].bytes) = IF l = e THEN 2 ELSE 1
    BY <1>3, <1>6, <2>1 DEF Private
  <2> QED
    BY <1>3, <2>1, <2>2 DEF CountOf
<1> QED
  BY <1>2, <1>3, <1>4, <1>5, <1>6

\* A reference more to an object of which one has a token.
LEMMA IncrementGood ==
  ASSUME NEW m, NEW ext \in Tokens, NEW tidy \in BOOLEAN, Good(m, ext, Null, tidy),
         NEW o \in Addresses, ext[o] >= 1
  PROVE  /\ Good(Increment(m, o), Plus(ext, o), Null, tidy)
         /\ Puts(m, Increment(m, o), o, WithCount(m.heap[o], m.heap[o].count + 1))
         /\ o \in DOMAIN m.heap
<1> DEFINE n == m.heap[o].count + 1
           x == [m EXCEPT !.heap[o].count = n]
<1>1. Booked(m, ext) /\ Shaped(m) /\ Private(m, Null) /\ m.undefined = "no" /\ (tidy => Tidy(m, Null))
  BY DEF Good, Sound, Booked
<1>2. o \in DOMAIN m.heap
  BY <1>1, TokenAlive
<1>3. m.heap[o].count \in Nat /\ n \in Nat \ {0} /\ n - m.heap[o].count = 1
  <2>1. m.heap[o].count \in Nat
    BY <1>1, <1>2, ShapedHeap DEF Records
  <2> QED
    BY <2>1
<1>4. Increment(m, o) = x
  BY <1>2 DEF Increment, Live
<1> HIDE DEF n
<1>5. \A a \in Addresses : Plus(ext, o)[a] = ext[a] + (IF a = o THEN n - m.heap[o].count ELSE 0)
  BY <1>3, PlusTokens DEF Ind
<1>6. Booked(x, Plus(ext, o)) /\ Puts(m, x, o, WithCount(m.heap[o], n))
  <2>1. Plus(ext, o) \in Tokens
    BY PlusTokens
  <2> QED
    BY <1>1, <1>2, <1>3, <1>5, <2>1, RecountBooked, Zenon
<1> HIDE DEF x
<1>7. \A l \in DOMAIN m.heap \cap Leaves : m.heap[l].bytes # o
  <2> SUFFICES ASSUME NEW l \in DOMAIN m.heap \cap Leaves, m.heap[l].bytes = o PROVE FALSE
    OBVIOUS
  <2>1. l # Null /\ l \notin Arrays
    BY Kinds
  <2>2. o \in Arrays
    <3>1. ObjectOK(l, m.heap[l])
      BY <1>1, ShapedHeap
    <3> QED
      BY <3>1, Kinds DEF ObjectOK, LeafOK
  <2>3. ext[m.heap[l].bytes] = 0
    BY <1>1, <2>1, <2>2, BytesAlone
  <2> QED
    BY <2>3
<1>8. Private(x, Null) /\ (tidy => Tidy(x, Null))
  BY <1>1, <1>2, <1>3, <1>6, <1>7, RecountKeeps
<1>9. x.undefined = "no"
  BY <1>1, <1>6 DEF Puts
<1> QED
  BY <1>2, <1>4, <1>6, <1>8, <1>9 DEF Good, Sound, Booked, n

\* Created puts the object where it says.
LEMMA CreatedPuts ==
  ASSUME NEW m, Shaped(m), NEW o, o \notin DOMAIN m.heap, NEW class, NEW bytes, NEW fields
  PROVE  /\ Puts(m, Created(m, o, class, bytes, fields), o, NewObject(class, bytes, fields, Null))
         /\ Created(m, o, class, bytes, fields).lost = m.lost
<1> DEFINE obj == NewObject(class, bytes, fields, Null)
           x == Created(m, o, class, bytes, fields)
           h == With(m.heap, o, obj)
<1>1. IsMemory(m)
  BY DEF Shaped
<1>2. x = [m EXCEPT !.heap = h]
  BY DEF Created
<1>3. h = [q \in DOMAIN m.heap \cup {o} |-> IF q = o THEN obj ELSE m.heap[q]]
  BY DEF With
<1> HIDE DEF h, obj, x
<1>4. x = [heap |-> h, shared |-> m.shared, lost |-> m.lost, lostShared |-> m.lostShared, undefined |-> m.undefined]
  BY <1>1, <1>2 DEF IsMemory
<1>5. Puts(m, x, o, obj) /\ x.lost = m.lost
  BY <1>3, <1>4 DEF Puts, IsMemory
<1> QED
  BY <1>5 DEF x, obj

\* A new part or message with one reference takes the tokens of what it points
\* to; e is the part itself while it is read.
LEMMA PutNewGood ==
  ASSUME NEW m, NEW x, NEW ext \in Tokens, NEW new \in Tokens, NEW tidy \in BOOLEAN, NEW e,
         Good(m, ext, Null, tidy),
         NEW o \in Leaves \cup Parents, o \notin DOMAIN m.heap, NEW obj, ObjectOK(o, obj), obj.count = 1,
         Puts(m, x, o, obj), x.lost = m.lost,
         \A a \in Addresses : ext[a] = new[a] + Pointing(obj, a),
         \/ e = Null /\ (o \in Leaves => obj.bytes \notin Arrays) /\ (tidy => TidyObject(obj))
         \/ e = o /\ CountOf(m.heap, obj.bytes) = 2
  PROVE  Good(x, Plus(new, o), e, tidy)
<1>1. Booked(m, ext) /\ Shaped(m) /\ Private(m, Null) /\ m.undefined = "no" /\ (tidy => Tidy(m, Null))
  BY DEF Good, Sound, Booked
<1>2. o \in Addresses /\ o # Null /\ o \notin Arrays /\ DOMAIN m.heap \subseteq Addresses
  BY <1>1, Kinds, ShapedHeap
<1>3. obj \in Records /\ obj.fields \in Seq(Int) /\ obj.data = Null
  BY Kinds DEF ObjectOK, LeafOK, ParentOK, Records
<1>4. Balanced(m, x, ext, Plus(new, o), o, obj)
  <2> SUFFICES ASSUME NEW a \in Addresses
               PROVE  (IF a = o THEN obj.count - CountOf(m.heap, o) ELSE 0)
                        = Pointing(obj, a) - PointingFrom(m.heap, o, a) + (x.lost[a] - m.lost[a])
                          + (Plus(new, o)[a] - ext[a])
    BY DEF Balanced
  <2>1. PointingFrom(m.heap, o, a) = 0 /\ CountOf(m.heap, o) = 0
    BY DEF PointingFrom, CountOf
  <2>2. Pointing(obj, a) \in Nat
    BY <1>3, UsesCounted
  <2>3. m.lost[a] \in Nat /\ x.lost[a] = m.lost[a]
    BY <1>1 DEF Shaped
  <2>4. Plus(new, o)[a] = new[a] + Ind(o, a) /\ new[a] \in Nat
    BY PlusTokens
  <2>5. ext[a] = new[a] + Pointing(obj, a)
    OBVIOUS
  <2> QED
    BY <2>1, <2>2, <2>3, <2>4, <2>5 DEF Ind
<1>5. Booked(x, Plus(new, o))
  <2>1. obj.data = IF o \in DOMAIN m.heap THEN m.heap[o].data ELSE Null
    BY <1>3
  <2>2. Plus(new, o) \in Tokens /\ x.lost \in [Addresses -> Nat]
    BY <1>1, PlusTokens DEF Shaped
  <2> QED
    BY <1>1, <1>2, <1>4, <2>1, <2>2, PutBooked
<1>6. DOMAIN x.heap = DOMAIN m.heap \cup {o} /\ x.heap[o] = obj
      /\ \A q \in DOMAIN m.heap : x.heap[q] = m.heap[q]
  BY DEF Puts
<1>7. Private(x, e)
  <2> SUFFICES ASSUME NEW l \in DOMAIN x.heap \cap Leaves, x.heap[l].bytes \in Arrays
               PROVE  CountOf(x.heap, x.heap[l].bytes) = IF l = e THEN 2 ELSE 1
    BY DEF Private
  <2>1. x.heap[l].bytes # o
    BY <1>2
  <2>2. CountOf(x.heap, x.heap[l].bytes) = CountOf(m.heap, x.heap[l].bytes)
    BY <1>6, <2>1 DEF CountOf
  <2>3. CASE l = o
    BY <1>6, <2>2, <2>3
  <2>4. CASE l # o
    <3>1. l \in DOMAIN m.heap \cap Leaves /\ x.heap[l] = m.heap[l] /\ l # e /\ l # Null
      BY <1>2, <1>6, <2>4, Kinds
    <3>2. CountOf(m.heap, m.heap[l].bytes) = 1
      BY <1>1, <3>1 DEF Private
    <3> QED
      BY <2>2, <3>1, <3>2
  <2> QED
    BY <2>3, <2>4
<1>8. ASSUME tidy PROVE Tidy(x, e)
  <2>1. \A q \in DOMAIN m.heap : TidyObject(m.heap[q])
    BY <1>1, <1>2, <1>8, Kinds DEF Tidy
  <2> QED
    BY <1>6, <1>8, <2>1 DEF Tidy
<1>9. x.undefined = "no"
  BY <1>1 DEF Puts
<1> QED
  BY <1>5, <1>7, <1>8, <1>9 DEF Good, Sound, Booked

-----------------------------------------------------------------------------
(* Arrays and their data *)

\* In x there is a new array o over d, and one more array looks into d.
PutsArray(m, x, o, d) ==
  /\ IsMemory(x)
  /\ x.heap = [q \in DOMAIN m.heap \cup {o} |-> IF q = o THEN ArrayOver(d) ELSE m.heap[q]]
  /\ x.shared = [k \in DOMAIN m.shared \cup {d} |-> IF k = d THEN SharesOf(m.shared, d) + 1 ELSE m.shared[k]]
  /\ x.lost = m.lost /\ x.lostShared = m.lostShared /\ x.undefined = m.undefined

\* Who makes the array has the token.
LEMMA PutArrayGood ==
  ASSUME NEW m, NEW x, NEW ext \in Tokens, NEW tidy \in BOOLEAN, NEW e,
         Good(m, ext, e, tidy), e \in DOMAIN m.heap \cup {Null},
         NEW o \in Arrays, o \notin DOMAIN m.heap, NEW d \in 1 .. MaxObjects, PutsArray(m, x, o, d)
  PROVE  Good(x, Plus(ext, o), e, tidy)
<1> DEFINE obj == ArrayOver(d)
<1>1. Booked(m, ext) /\ Shaped(m) /\ Private(m, e) /\ m.undefined = "no" /\ (tidy => Tidy(m, e))
  BY DEF Good, Sound, Booked
<1>2. o \in Addresses /\ o # Null /\ o \notin Leaves /\ o \notin Parents /\ DOMAIN m.heap \subseteq Addresses
  BY <1>1, Kinds, ShapedHeap
<1>3. obj \in Records /\ ArrayOK(obj)
  BY DEF Records, ArrayOK, Null, ArrayOver, NewObject
<1>4. obj.count = 1 /\ obj.data = d /\ obj.bytes = Null /\ TidyObject(obj)
  <2>1. Len(<<>>) = 0 /\ Null # Garbage
    BY Kinds
  <2> QED
    BY <2>1 DEF TidyObject, ArrayOver, NewObject
<1>5. ASSUME NEW a \in Addresses PROVE Pointing(obj, a) = 0
  BY <1>5, OccEmpty, Kinds DEF Pointing, Ind, ArrayOver, NewObject
<1>6. /\ DOMAIN x.heap = DOMAIN m.heap \cup {o} /\ x.heap[o] = obj
      /\ \A q \in DOMAIN m.heap : x.heap[q] = m.heap[q]
      /\ DOMAIN x.shared = DOMAIN m.shared \cup {d} /\ x.shared[d] = SharesOf(m.shared, d) + 1
      /\ \A k \in DOMAIN m.shared : k # d => x.shared[k] = m.shared[k]
      /\ x.lost = m.lost /\ x.lostShared = m.lostShared /\ x.undefined = m.undefined
  BY DEF PutsArray
<1>7. \A k \in 1 .. MaxObjects : SharesOf(m.shared, k) \in Nat
  BY <1>1 DEF SharesOf, Shaped
<1> HIDE DEF obj
<1>8. Shaped(x)
  <2>1. HeapOK(x.heap) /\ x.heap = [q \in DOMAIN x.heap |-> x.heap[q]]
    <3>1. x.heap = [q \in DOMAIN x.heap |-> x.heap[q]]
      BY DEF PutsArray
    <3>2. \A q \in DOMAIN m.heap : ObjectOK(q, m.heap[q])
      BY <1>1, ShapedHeap
    <3>3. ObjectOK(o, obj)
      BY <1>2, <1>3 DEF ObjectOK
    <3> QED
      BY <1>2, <1>6, <3>1, <3>2, <3>3 DEF HeapOK
  <2>2. DOMAIN x.shared \subseteq 1 .. MaxObjects
    BY <1>1, <1>6 DEF Shaped
  <2>3. \A k \in DOMAIN x.shared : x.shared[k] \in Nat \ {0}
    BY <1>1, <1>6, <1>7 DEF Shaped
  <2>4. x.shared \in [DOMAIN x.shared -> Nat \ {0}]
    <3>1. x.shared = [k \in DOMAIN x.shared |-> x.shared[k]]
      BY DEF PutsArray
    <3> QED
      BY <2>3, <3>1
  <2> QED
    BY <1>1, <1>6, <2>1, <2>2, <2>4 DEF Shaped, PutsArray
<1>9. Booked(x, Plus(ext, o))
  <2>1. ASSUME NEW a \in Addresses
        PROVE  (IF a = o THEN CountOf(x.heap, o) - CountOf(m.heap, o) ELSE 0)
                 = PointingFrom(x.heap, o, a) - PointingFrom(m.heap, o, a) + (x.lost[a] - m.lost[a])
                   + (Plus(ext, o)[a] - ext[a])
    <3>1. PointingFrom(m.heap, o, a) = 0 /\ CountOf(m.heap, o) = 0 /\ PointingFrom(x.heap, o, a) = 0
          /\ CountOf(x.heap, o) = 1
      BY <1>4, <1>5, <1>6 DEF PointingFrom, CountOf
    <3>2. Plus(ext, o)[a] = ext[a] + Ind(o, a) /\ ext[a] \in Nat /\ m.lost[a] \in Nat
      BY <1>1, PlusTokens DEF Shaped
    <3> QED
      BY <1>6, <3>1, <3>2 DEF Ind
  <2>2. ASSUME NEW k \in 1 .. MaxObjects
        PROVE  SharesOf(x.shared, k) - SharesOf(m.shared, k)
                 = ViewingFrom(x.heap, o, k) - ViewingFrom(m.heap, o, k) + (x.lostShared[k] - m.lostShared[k])
    <3>1. ViewingFrom(m.heap, o, k) = 0 /\ ViewingFrom(x.heap, o, k) = Ind(d, k)
      BY <1>4, <1>6 DEF ViewingFrom
    <3>2. SharesOf(x.shared, k) = SharesOf(m.shared, k) + Ind(d, k)
      <4>1. CASE k = d
        BY <1>6, <4>1 DEF SharesOf, Ind
      <4>2. CASE k # d
        <5>1. SharesOf(x.shared, k) = SharesOf(m.shared, k)
          BY <1>6, <4>2 DEF SharesOf
        <5>2. SharesOf(m.shared, k) \in Nat
          BY <1>7
        <5> QED
          BY <4>2, <5>1, <5>2 DEF Ind
      <4> QED
        BY <4>1, <4>2
    <3>3. SharesOf(m.shared, k) \in Nat /\ m.lostShared[k] \in Nat /\ x.lostShared = m.lostShared /\ Ind(d, k) \in Nat
      BY <1>1, <1>6, <1>7 DEF Shaped, Ind
    <3> QED
      BY <3>1, <3>2, <3>3
  <2>3. Plus(ext, o) \in Tokens /\ DOMAIN m.heap \ {o} = DOMAIN x.heap \ {o}
        /\ \A q \in DOMAIN m.heap \ {o} : m.heap[q] = x.heap[q]
    BY <1>6, PlusTokens
  <2> QED
    BY <1>1, <1>8, <2>1, <2>2, <2>3, Stepped
<1>10. Private(x, e)
  <2> SUFFICES ASSUME NEW l \in DOMAIN x.heap \cap Leaves, x.heap[l].bytes \in Arrays
               PROVE  CountOf(x.heap, x.heap[l].bytes) = IF l = e THEN 2 ELSE 1
    BY DEF Private
  <2>1. l \in DOMAIN m.heap \cap Leaves /\ x.heap[l] = m.heap[l]
    BY <1>2, <1>6
  <2>2. CountOf(m.heap, m.heap[l].bytes) = IF l = e THEN 2 ELSE 1
    BY <1>1, <2>1 DEF Private
  <2>3. m.heap[l].bytes # o
    BY <2>2 DEF CountOf
  <2> QED
    BY <1>6, <2>1, <2>2, <2>3 DEF CountOf
<1>11. tidy => Tidy(x, e)
  BY <1>1, <1>4, <1>6 DEF Tidy
<1> QED
  BY <1>1, <1>6, <1>9, <1>10, <1>11 DEF Good, Sound, Booked

\* An array is alive over data that is shared.
LEMMA DataAlive ==
  ASSUME NEW m, NEW ext, Booked(m, ext), NEW a \in DOMAIN m.heap \cap Arrays
  PROVE  m.heap[a].data \in DOMAIN m.shared /\ m.heap[a].data \in 1 .. MaxObjects
<1> DEFINE d == m.heap[a].data
<1>1. Shaped(m) /\ d \in 1 .. MaxObjects /\ Heap(m.heap)
  BY ShapedHeap DEF Booked, ObjectOK, ArrayOK
<1>2. a \in Viewers(m.heap, d)
  BY DEF Viewers
<1>3. IsFiniteSet(Viewers(m.heap, d))
  <2>1. Viewers(m.heap, d) \subseteq DOMAIN m.heap
    BY DEF Viewers
  <2> QED
    BY <1>1, <2>1, FS_Subset DEF Heap
<1> HIDE DEF d
<1>4. Cardinality(Viewers(m.heap, d)) \in Nat \ {0}
  BY <1>2, <1>3, FS_EmptySet, FS_CardinalityType
<1>5. SharesOf(m.shared, d) = m.lostShared[d] + Cardinality(Viewers(m.heap, d)) /\ m.lostShared[d] \in Nat
  BY <1>1 DEF Booked, SharesAccounted, Shaped
<1> QED
  BY <1>1, <1>4, <1>5 DEF SharesOf, d

\* A section of an array is a new array over the same data.
LEMMA SubsectionPuts ==
  ASSUME NEW m, NEW ext, Booked(m, ext), NEW o, o \notin DOMAIN m.heap, NEW ref \in DOMAIN m.heap \cap Arrays
  PROVE  PutsArray(m, Subsection(m, o, ref), o, m.heap[ref].data) /\ m.heap[ref].data \in 1 .. MaxObjects
<1> DEFINE d == m.heap[ref].data
           x == Subsection(m, o, ref)
           h == With(m.heap, o, ArrayOver(d))
           s == [m.shared EXCEPT ![d] = @ + 1]
<1>1. d \in DOMAIN m.shared /\ d \in 1 .. MaxObjects /\ Shaped(m) /\ IsMemory(m)
  BY DataAlive DEF Booked, Shaped
<1>2. x = [m EXCEPT !.heap = h, !.shared = s]
  BY DEF Subsection, Live
<1>3. h = [q \in DOMAIN m.heap \cup {o} |-> IF q = o THEN ArrayOver(d) ELSE m.heap[q]]
  BY DEF With
<1>4. s = [k \in DOMAIN m.shared \cup {d} |-> IF k = d THEN SharesOf(m.shared, d) + 1 ELSE m.shared[k]]
  <2>1. m.shared = [k \in DOMAIN m.shared |-> m.shared[k]] /\ SharesOf(m.shared, d) = m.shared[d]
    BY <1>1 DEF Shaped, SharesOf
  <2> QED
    BY <1>1, <2>1
<1> HIDE DEF d, x, h, s
<1>5. x = [heap |-> h, shared |-> s, lost |-> m.lost, lostShared |-> m.lostShared, undefined |-> m.undefined]
  BY <1>1, <1>2 DEF IsMemory
<1>6. PutsArray(m, x, o, d)
  BY <1>3, <1>4, <1>5 DEF PutsArray, IsMemory
<1> QED
  BY <1>1, <1>6 DEF d, x

\* A new array is one over new data.
LEMMA NewByteArrayPuts ==
  ASSUME NEW m, Shaped(m), NEW o, o \notin DOMAIN m.heap, RoomForData(m)
  PROVE  PutsArray(m, NewByteArray(m, o), o, FreshData(m)) /\ FreshData(m) \in 1 .. MaxObjects
<1> DEFINE d == FreshData(m)
           x == NewByteArray(m, o)
           h == With(m.heap, o, ArrayOver(d))
           s == With(m.shared, d, 1)
<1>1. d \in (1 .. MaxObjects) \ DOMAIN m.shared /\ IsMemory(m)
  BY FreshDataIsFree DEF Shaped
<1>2. x = [m EXCEPT !.heap = h, !.shared = s]
  BY DEF NewByteArray
<1>3. h = [q \in DOMAIN m.heap \cup {o} |-> IF q = o THEN ArrayOver(d) ELSE m.heap[q]]
  BY DEF With
<1> HIDE DEF d
<1>4. s = [k \in DOMAIN m.shared \cup {d} |-> IF k = d THEN SharesOf(m.shared, d) + 1 ELSE m.shared[k]]
  <2>1. SharesOf(m.shared, d) + 1 = 1
    BY <1>1 DEF SharesOf
  <2> QED
    BY <2>1 DEF With
<1> HIDE DEF x, h, s
<1>5. x = [heap |-> h, shared |-> s, lost |-> m.lost, lostShared |-> m.lostShared, undefined |-> m.undefined]
  BY <1>1, <1>2 DEF IsMemory
<1>6. PutsArray(m, x, o, d)
  BY <1>3, <1>4, <1>5 DEF PutsArray, IsMemory
<1> QED
  BY <1>1, <1>6 DEF d, x

\* The messages and their parts are the same in two memories.
SameMessages(m, x) ==
  /\ DOMAIN x.heap \ Arrays = DOMAIN m.heap \ Arrays
  /\ \A q \in DOMAIN m.heap \ Arrays : x.heap[q] = m.heap[q]

\* One array less looks into d.
Fewer(shared, d) ==
  IF shared[d] > 1 THEN [shared EXCEPT ![d] = @ - 1] ELSE [k \in DOMAIN shared \ {d} |-> shared[k]]
Releases(m, x, o, d) ==
  /\ IsMemory(x) /\ x.heap = [q \in DOMAIN m.heap \ {o} |-> m.heap[q]]
  /\ x.shared = Fewer(m.shared, d)
  /\ x.lost = m.lost /\ x.lostShared = m.lostShared /\ x.undefined = m.undefined

\* The shares when one array less looks into d.
LEMMA LessShares ==
  ASSUME NEW m, Shaped(m), NEW d \in DOMAIN m.shared, NEW g, g = Fewer(m.shared, d)
  PROVE  /\ DOMAIN g \subseteq 1 .. MaxObjects /\ g \in [DOMAIN g -> Nat \ {0}]
         /\ \A k \in 1 .. MaxObjects : SharesOf(m.shared, k) = SharesOf(g, k) + Ind(d, k) /\ SharesOf(g, k) \in Nat
<1>1. /\ m.shared[d] \in Nat \ {0} /\ m.shared = [k \in DOMAIN m.shared |-> m.shared[k]]
      /\ \A k \in DOMAIN m.shared : m.shared[k] \in Nat \ {0}
      /\ DOMAIN m.shared \subseteq 1 .. MaxObjects
  BY DEF Shaped
<1>2. CASE m.shared[d] > 1
  <2>1. g = [m.shared EXCEPT ![d] = @ - 1]
    BY <1>2 DEF Fewer
  <2>2. DOMAIN g = DOMAIN m.shared /\ g[d] = m.shared[d] - 1 /\ \A k \in DOMAIN m.shared : k # d => g[k] = m.shared[k]
    BY <1>1, <2>1
  <2> QED
    BY <1>1, <1>2, <2>1, <2>2 DEF SharesOf, Ind
<1>3. CASE m.shared[d] = 1
  <2>1. g = [k \in DOMAIN m.shared \ {d} |-> m.shared[k]]
    BY <1>3 DEF Fewer
  <2> QED
    BY <1>1, <1>3, <2>1 DEF SharesOf, Ind
<1> QED
  BY <1>1, <1>2, <1>3

\* The last token of an array is given back: it leaves the heap and its data.
LEMMA ReleasedBooked ==
  ASSUME NEW m, NEW x, NEW ext \in Tokens, NEW new \in Tokens, Booked(m, ext),
         NEW o \in DOMAIN m.heap \cap Arrays, m.heap[o].count = 1,
         \A a \in Addresses : ext[a] = new[a] + Ind(o, a),
         Releases(m, x, o, m.heap[o].data)
  PROVE  Booked(x, new)
<1> DEFINE d == m.heap[o].data
<1>1. Shaped(m) /\ d \in DOMAIN m.shared /\ d \in 1 .. MaxObjects /\ o \in Addresses
  BY DataAlive, Kinds DEF Booked
<1>2. ArrayOK(m.heap[o])
  BY <1>1, ShapedHeap DEF ObjectOK
<1> HIDE DEF d
<1>3. DOMAIN x.heap = DOMAIN m.heap \ {o} /\ (\A q \in DOMAIN x.heap : x.heap[q] = m.heap[q])
      /\ x.lost = m.lost /\ x.lostShared = m.lostShared
      /\ x.heap = [q \in DOMAIN x.heap |-> x.heap[q]]
  BY DEF Releases
<1>5. /\ DOMAIN x.shared \subseteq 1 .. MaxObjects /\ x.shared \in [DOMAIN x.shared -> Nat \ {0}]
      /\ \A k \in 1 .. MaxObjects : SharesOf(m.shared, k) = SharesOf(x.shared, k) + Ind(d, k) /\ SharesOf(x.shared, k) \in Nat
  <2>1. x.shared = Fewer(m.shared, d)
    BY DEF Releases, d
  <2> QED
    BY <1>1, <2>1, LessShares
<1>6. Shaped(x)
  <2>1. HeapOK(x.heap)
    BY <1>1, <1>3 DEF Shaped, HeapOK
  <2>2. IsMemory(x)
    BY DEF Releases
  <2> QED
    BY <1>1, <1>3, <1>5, <2>1, <2>2 DEF Shaped
<1>7. ASSUME NEW a \in Addresses
      PROVE  (IF a = o THEN CountOf(x.heap, o) - CountOf(m.heap, o) ELSE 0)
               = PointingFrom(x.heap, o, a) - PointingFrom(m.heap, o, a) + (x.lost[a] - m.lost[a]) + (new[a] - ext[a])
  <2>1. PointingFrom(x.heap, o, a) = 0 /\ PointingFrom(m.heap, o, a) = 0
    <3>1. m.heap[o].bytes # a
      BY <1>2, Kinds DEF ArrayOK
    <3>2. Occ(m.heap[o].fields, a) = 0
      BY <1>2, OccEmpty DEF ArrayOK
    <3> QED
      BY <1>3, <3>1, <3>2 DEF PointingFrom, Pointing, Ind
  <2>2. CountOf(x.heap, o) = 0 /\ CountOf(m.heap, o) = 1
    BY <1>3 DEF CountOf
  <2>3. x.lost[a] = m.lost[a] /\ m.lost[a] \in Nat /\ new[a] \in Nat
    BY <1>1, <1>3 DEF Shaped, Tokens
  <2>4. ext[a] = new[a] + Ind(o, a)
    OBVIOUS
  <2> QED
    BY <2>1, <2>2, <2>3, <2>4 DEF Ind
<1>8. ASSUME NEW k \in 1 .. MaxObjects
      PROVE  SharesOf(x.shared, k) - SharesOf(m.shared, k)
               = ViewingFrom(x.heap, o, k) - ViewingFrom(m.heap, o, k) + (x.lostShared[k] - m.lostShared[k])
  <2>1. ViewingFrom(x.heap, o, k) = 0 /\ ViewingFrom(m.heap, o, k) = Ind(d, k)
    BY <1>3 DEF ViewingFrom, d
  <2>2. m.lostShared[k] \in Nat /\ Ind(d, k) \in Nat
    BY <1>1 DEF Shaped, Ind
  <2>3. SharesOf(m.shared, k) = SharesOf(x.shared, k) + Ind(d, k) /\ SharesOf(x.shared, k) \in Nat
    BY <1>5
  <2> QED
    BY <1>3, <2>1, <2>2, <2>3
<1>9. DOMAIN m.heap \ {o} = DOMAIN x.heap \ {o} /\ \A q \in DOMAIN m.heap \ {o} : m.heap[q] = x.heap[q]
  BY <1>3
<1> QED
  BY <1>6, <1>7, <1>8, <1>9, Stepped

\* ReleaseSharedData changes the shares and nothing else.
LEMMA SharesReleased ==
  ASSUME NEW m, IsMemory(m), NEW d \in DOMAIN m.shared, NEW x, x = ReleaseSharedData(m, d)
  PROVE  /\ IsMemory(x) /\ x.heap = m.heap /\ x.shared = Fewer(m.shared, d)
         /\ x.lost = m.lost /\ x.lostShared = m.lostShared /\ x.undefined = m.undefined
<1>1. CASE m.shared[d] > 1
  <2> DEFINE g == [m.shared EXCEPT ![d] = @ - 1]
  <2>1. x = [m EXCEPT !.shared = g] /\ Fewer(m.shared, d) = g
    BY <1>1 DEF ReleaseSharedData, Fewer
  <2> HIDE DEF g
  <2> QED
    BY <2>1 DEF IsMemory
<1>2. CASE ~(m.shared[d] > 1)
  <2> DEFINE g == [k \in DOMAIN m.shared \ {d} |-> m.shared[k]]
  <2>1. x = [m EXCEPT !.shared = g] /\ Fewer(m.shared, d) = g
    BY <1>2 DEF ReleaseSharedData, Fewer, Without, Restrict
  <2> HIDE DEF g
  <2> QED
    BY <2>1 DEF IsMemory
<1> QED
  BY <1>1, <1>2

\* In the memory without o the other objects are as before.
LEMMA RemovedIs ==
  ASSUME NEW m, IsMemory(m), NEW o, NEW x, x = Removed(m, o)
  PROVE  /\ IsMemory(x) /\ x.heap = [q \in DOMAIN m.heap \ {o} |-> m.heap[q]]
         /\ x.shared = m.shared /\ x.lost = m.lost /\ x.lostShared = m.lostShared /\ x.undefined = m.undefined
<1> DEFINE h == [q \in DOMAIN m.heap \ {o} |-> m.heap[q]]
<1>1. x = [m EXCEPT !.heap = h]
  BY DEF Removed, Without, Restrict
<1> HIDE DEF h
<1>2. IsMemory(x) /\ x.heap = h
      /\ x.shared = m.shared /\ x.lost = m.lost /\ x.lostShared = m.lostShared /\ x.undefined = m.undefined
  BY <1>1 DEF IsMemory
<1> QED
  BY <1>2 DEF h

\* The last reference to an array: it leaves the heap and its data.
LEMMA DestroyByteArrayReleases ==
  ASSUME NEW m, NEW ext, Booked(m, ext), NEW o \in DOMAIN m.heap \cap Arrays
  PROVE  Releases(m, DestroyByteArray(Removed(m, o), m.heap[o]), o, m.heap[o].data)
<1> DEFINE d == m.heap[o].data
           x == Removed(m, o)
           y == ReleaseSharedData(x, d)
<1>1. IsMemory(m) /\ d \in DOMAIN m.shared
  BY DataAlive DEF Booked, Shaped
<1>2. /\ IsMemory(x) /\ x.heap = [q \in DOMAIN m.heap \ {o} |-> m.heap[q]]
      /\ x.shared = m.shared /\ x.lost = m.lost /\ x.lostShared = m.lostShared /\ x.undefined = m.undefined
  BY <1>1, RemovedIs
<1> HIDE DEF d, x
<1>3. /\ IsMemory(y) /\ y.heap = x.heap /\ y.shared = Fewer(x.shared, d)
      /\ y.lost = x.lost /\ y.lostShared = x.lostShared /\ y.undefined = x.undefined
  BY <1>1, <1>2, SharesReleased
<1>4. Releases(m, y, o, d)
  BY <1>2, <1>3 DEF Releases
<1> QED
  BY <1>4 DEF DestroyByteArray, d, x

\* Whoever has a token of an array gives it back.  It is nobody's bytes but those of
\* the part that is being read, whose reading then ends.
LEMMA LowerArrayGood ==
  ASSUME NEW m, NEW ext \in Tokens, NEW tidy \in BOOLEAN, NEW e \in {Null} \cup (DOMAIN m.heap \cap Leaves),
         NEW o \in Arrays, Good(m, Plus(ext, o), e, tidy),
         e # Null => m.heap[e].bytes = o /\ (tidy => TidyObject(m.heap[e]))
  PROVE  /\ Good(LowerArray(m, o), ext, Null, tidy)
         /\ SameMessages(m, LowerArray(m, o)) /\ DOMAIN LowerArray(m, o).heap \subseteq DOMAIN m.heap
<1> DEFINE n == m.heap[o].count - 1
           y == LowerArray(m, o)
<1>1. Booked(m, Plus(ext, o)) /\ Shaped(m) /\ IsMemory(m) /\ Private(m, e) /\ m.undefined = "no" /\ (tidy => Tidy(m, Null))
  BY DEF Good, Sound, Booked, Shaped, Tidy
<1>2. Plus(ext, o) \in Tokens /\ \A a \in Addresses : Plus(ext, o)[a] = ext[a] + Ind(o, a) /\ ext[a] \in Nat
  BY PlusTokens
<1>3. o \in Addresses /\ o \in DOMAIN m.heap
  <2>1. o \in Addresses
    BY Kinds
  <2>2. Plus(ext, o)[o] >= 1
    BY <1>2, <2>1 DEF Ind
  <2> QED
    BY <1>1, <1>2, <2>1, <2>2, TokenAlive
<1>4. m.heap[o].count \in Nat \ {0} /\ m.heap[o].destroy
  BY <1>1, <1>3, ShapedHeap DEF Records, ObjectOK, ArrayOK
<1>5. ASSUME NEW l \in DOMAIN m.heap \cap Leaves, l # e, m.heap[l].bytes \in Arrays PROVE m.heap[l].bytes # o
  <2>1. Plus(ext, o)[m.heap[l].bytes] = 0
    BY <1>1, <1>2, <1>5, BytesAlone
  <2>2. Plus(ext, o)[o] >= 1
    BY <1>2, <1>3 DEF Ind
  <2> QED
    BY <2>1, <2>2
<1>6. CASE m.heap[o].count > 1
  <2>1. n \in Nat \ {0}
    BY <1>4, <1>6
  <2>2. y = [m EXCEPT !.heap[o].count = n]
    BY <1>1, <1>3, <1>6 DEF LowerArray, Lower, Live
  <2>3. \A a \in Addresses : ext[a] = Plus(ext, o)[a] + (IF a = o THEN n - m.heap[o].count ELSE 0)
    BY <1>2, <1>4 DEF Ind
  <2> HIDE DEF n, y
  <2>4. Booked(y, ext) /\ Puts(m, y, o, WithCount(m.heap[o], n)) /\ y.lost = m.lost
    BY <1>1, <1>2, <1>3, <2>1, <2>2, <2>3, RecountBooked
  <2>5. /\ (tidy => Tidy(y, Null)) /\ DOMAIN y.heap = DOMAIN m.heap /\ y.heap[o].count = n
        /\ \A q \in DOMAIN m.heap : y.heap[q].bytes = m.heap[q].bytes
        /\ \A q \in DOMAIN m.heap \ {o} : y.heap[q] = m.heap[q]
    <3>0. Puts(m, y, o, WithCount(m.heap[o], n)) /\ Shaped(m) /\ o \in DOMAIN m.heap /\ n \in Nat \ {0}
      BY <1>1, <1>3, <2>1, <2>4
    <3>1. \A f : Tidy(m, f) => Tidy(y, f)
      BY <3>0, RecountKeeps
    <3>2. \A q \in DOMAIN m.heap : y.heap[q].bytes = m.heap[q].bytes
      BY <3>0, RecountKeeps
    <3>3. WithCount(m.heap[o], n).count = n
      BY <1>1, <1>3, <2>1, ShapedHeap, Recounted
    <3>4. DOMAIN y.heap = DOMAIN m.heap /\ y.heap[o].count = n /\ \A q \in DOMAIN m.heap \ {o} : y.heap[q] = m.heap[q]
      BY <3>0, <3>3 DEF Puts
    <3> QED
      BY <1>1, <3>1, <3>2, <3>4
  <2>6. Private(y, Null)
    <3> SUFFICES ASSUME NEW l \in DOMAIN m.heap \cap Leaves, m.heap[l].bytes \in Arrays
                 PROVE  CountOf(y.heap, m.heap[l].bytes) = 1
      BY <2>5, Kinds DEF Private
    <3>1. CountOf(m.heap, m.heap[l].bytes) = IF l = e THEN 2 ELSE 1
      BY <1>1 DEF Private
    <3>2. CASE l = e
      <4>1. m.heap[l].bytes = o
        BY <3>2, Kinds
      <4>2. m.heap[o].count = 2
        BY <1>3, <3>1, <3>2, <4>1 DEF CountOf
      <4> QED
        BY <1>3, <2>5, <4>1, <4>2 DEF CountOf, n
    <3>3. CASE l # e
      BY <1>5, <2>5, <3>1, <3>3 DEF CountOf
    <3> QED
      BY <3>2, <3>3
  <2>7. y.undefined = "no"
    BY <1>1, <2>4 DEF Puts
  <2>8. SameMessages(m, y)
    BY <2>5 DEF SameMessages
  <2> QED
    BY <2>4, <2>5, <2>6, <2>7, <2>8 DEF Good, Sound, Booked, y
<1>7. CASE ~(m.heap[o].count > 1)
  <2>1. y = DestroyByteArray(Removed(m, o), m.heap[o])
    BY <1>1, <1>3, <1>4, <1>7 DEF LowerArray, Lower, Live
  <2> HIDE DEF y
  <2>2. Releases(m, y, o, m.heap[o].data)
    BY <1>1, <1>3, <2>1, DestroyByteArrayReleases
  <2>3. m.heap[o].count = 1
    BY <1>4, <1>7
  <2>4. Booked(y, ext)
    BY <1>1, <1>2, <1>3, <2>2, <2>3, ReleasedBooked
  <2>5. DOMAIN y.heap = DOMAIN m.heap \ {o} /\ (\A q \in DOMAIN y.heap : y.heap[q] = m.heap[q])
        /\ y.undefined = "no"
    BY <1>1, <2>2 DEF Releases
  <2>6. Private(y, Null)
    <3> SUFFICES ASSUME NEW l \in DOMAIN m.heap \cap Leaves, m.heap[l].bytes \in Arrays
                 PROVE  CountOf(y.heap, m.heap[l].bytes) = 1
      BY <2>5, Kinds DEF Private
    <3>1. CountOf(m.heap, m.heap[l].bytes) = IF l = e THEN 2 ELSE 1
      BY <1>1 DEF Private
    <3>2. l # e
      BY <1>3, <2>3, <3>1, Kinds DEF CountOf
    <3> QED
      BY <1>5, <2>5, <3>1, <3>2 DEF CountOf
  <2>7. tidy => Tidy(y, Null)
    BY <1>1, <2>5 DEF Tidy
  <2>8. SameMessages(m, y)
    BY <2>5 DEF SameMessages
  <2> QED
    BY <2>4, <2>5, <2>6, <2>7, <2>8 DEF Good, Sound, Booked, y
<1> QED
  BY <1>6, <1>7

\* Following a pointer that was never set leaves everything in place.
LEMMA UnsetUndefined ==
  ASSUME NEW m, Shaped(m), NEW o \in {Null, Garbage}, NEW ext
  PROVE  State(Undefined(m, o), ext, FALSE) /\ SameMessages(m, Undefined(m, o))
<1> DEFINE x == Undefined(m, o)
<1>1. x = [m EXCEPT !.undefined = "unset"] /\ IsMemory(m)
  BY DEF Undefined, Shaped
<1> HIDE DEF x
<1>2. /\ IsMemory(x) /\ x.heap = m.heap /\ x.shared = m.shared
      /\ x.lost = m.lost /\ x.lostShared = m.lostShared /\ x.undefined = "unset"
  BY <1>1 DEF IsMemory
<1>3. Shaped(x)
  BY <1>2 DEF Shaped
<1> QED
  BY <1>2, <1>3 DEF State, SameMessages, x

\* An array is let go of; when nothing was refused there is one.
LEMMA LowerArrayState ==
  ASSUME NEW m, NEW ext \in Tokens, NEW tidy \in BOOLEAN, NEW o \in Arrays \cup {Null, Garbage},
         State(m, Plus(ext, o), tidy), tidy => o \in Arrays
  PROVE  State(LowerArray(m, o), ext, tidy) /\ SameMessages(m, LowerArray(m, o))
<1>1. CASE m.undefined # "no"
  <2>1. LowerArray(m, o) = m
    BY <1>1 DEF LowerArray, Lower
  <2>2. m.undefined = "unset" /\ Shaped(m) /\ ~tidy
    BY <1>1 DEF State, Good
  <2> QED
    BY <2>1, <2>2 DEF State, SameMessages
<1>2. CASE m.undefined = "no" /\ o \in Arrays
  <2>1. Good(m, Plus(ext, o), Null, tidy)
    BY <1>2 DEF State
  <2>2. Good(LowerArray(m, o), ext, Null, tidy) /\ SameMessages(m, LowerArray(m, o))
    BY <1>2, <2>1, LowerArrayGood
  <2> QED
    BY <2>2 DEF State
<1>3. CASE m.undefined = "no" /\ o \notin Arrays
  <2>1. o \in {Null, Garbage} /\ tidy = FALSE
    BY <1>3
  <2>2. Shaped(m) /\ o \notin DOMAIN m.heap
    <3>1. Shaped(m)
      BY DEF State, Good, Sound
    <3> QED
      BY <2>1, <3>1, ShapedHeap, Kinds
  <2>3. LowerArray(m, o) = Undefined(m, o)
    BY <1>3, <2>2 DEF LowerArray, Lower, Live
  <2> QED
    BY <2>1, <2>2, <2>3, UnsetUndefined
<1> QED
  BY <1>1, <1>2, <1>3

\* The same where the code passes over an array that is missing.
LEMMA LowerIfAnyState ==
  ASSUME NEW m, NEW ext \in Tokens, NEW tidy \in BOOLEAN, NEW o \in Arrays \cup {Null, Garbage},
         State(m, Plus(ext, o), tidy), tidy => o # Garbage
  PROVE  State(LowerIfAny(m, o), ext, tidy)
<1>1. CASE o = Null
  <2>1. Plus(ext, o) = ext
    BY <1>1, PlusTokens, Kinds
  <2> QED
    BY <1>1, <2>1 DEF LowerIfAny
<1>2. CASE o # Null
  BY <1>2, LowerArrayState DEF LowerIfAny
<1> QED
  BY <1>1, <1>2

\* The tokens with one more for each element of s.
PlusAll(ext, s) == [a \in Addresses |-> ext[a] + Occ(s, a)]

\* They are tokens; the elements can be taken one by one.
LEMMA PlusAllTokens ==
  ASSUME NEW ext \in Tokens
  PROVE  /\ \A s \in Seq(Int) : PlusAll(ext, s) \in Tokens
         /\ PlusAll(ext, <<>>) = ext
         /\ \A s \in Seq(Int), e \in Int : PlusAll(ext, Append(s, e)) = PlusAll(Plus(ext, e), s)
         /\ \A e \in Int : PlusAll(ext, <<e>>) = Plus(ext, e)
         /\ \A d, e \in Int : PlusAll(ext, <<d, e>>) = Plus(Plus(ext, e), d)
<1>1. \A o : \A a \in Addresses : Plus(ext, o)[a] = ext[a] + Ind(o, a) /\ ext[a] \in Nat
  BY PlusTokens
<1>2. \A s \in Seq(Int) : \A a : Occ(s, a) \in Nat
  BY PlacesFinite
<1>3. \A s \in Seq(Int) : PlusAll(ext, s) \in Tokens
  BY <1>1, <1>2 DEF PlusAll, Tokens
<1>4. PlusAll(ext, <<>>) = ext
  <2>1. ASSUME NEW a \in Addresses PROVE ext[a] + Occ(<<>>, a) = ext[a]
    <3>1. Occ(<<>>, a) = 0 /\ ext[a] \in Nat
      BY <1>1, OccEmpty
    <3> QED
      BY <3>1
  <2>2. ext = [a \in Addresses |-> ext[a]]
    BY DEF Tokens
  <2> QED
    BY <2>1, <2>2 DEF PlusAll
<1>5. ASSUME NEW s \in Seq(Int), NEW e \in Int PROVE PlusAll(ext, Append(s, e)) = PlusAll(Plus(ext, e), s)
  <2>1. ASSUME NEW a \in Addresses PROVE ext[a] + Occ(Append(s, e), a) = Plus(ext, e)[a] + Occ(s, a)
    <3>1. Occ(Append(s, e), a) = Occ(s, a) + Ind(e, a) /\ Occ(s, a) \in Nat /\ Ind(e, a) \in Nat
      BY <1>2, OccAppend DEF Ind
    <3> QED
      BY <1>1, <3>1
  <2> QED
    BY <2>1 DEF PlusAll
<1>6. ASSUME NEW e \in Int PROVE PlusAll(ext, <<e>>) = Plus(ext, e)
  <2>1. \A a \in Addresses : Occ(<<e>>, a) = Ind(e, a)
    BY OccShort
  <2> QED
    BY <2>1 DEF PlusAll, Plus
<1>7. ASSUME NEW d \in Int, NEW e \in Int PROVE PlusAll(ext, <<d, e>>) = Plus(Plus(ext, e), d)
  <2>1. ASSUME NEW a \in Addresses PROVE ext[a] + Occ(<<d, e>>, a) = Plus(ext, e)[a] + Ind(d, a)
    <3>1. Occ(<<d, e>>, a) = Ind(d, a) + Ind(e, a) /\ Ind(d, a) \in Nat /\ Ind(e, a) \in Nat
      BY OccShort DEF Ind
    <3> QED
      BY <1>1, <3>1
  <2> QED
    BY <2>1 DEF PlusAll, Plus
<1> QED
  BY <1>3, <1>4, <1>5, <1>6, <1>7

\* Shares are natural numbers.
LEMMA SharesNatural ==
  ASSUME NEW m, Shaped(m), NEW d \in 1 .. MaxObjects
  PROVE  SharesOf(m.shared, d) \in Nat /\ m.lostShared[d] \in Nat
<1>1. d \in DOMAIN m.shared => m.shared[d] \in Nat
  BY DEF Shaped
<1>2. m.lostShared[d] \in Nat
  BY DEF Shaped
<1> QED
  BY <1>1, <1>2 DEF SharesOf

\* A part or a message whose last token is given back leaves its tokens behind.
LEMMA RemovedGood ==
  ASSUME NEW m, NEW ext \in Tokens, NEW tidy \in BOOLEAN, NEW o \in DOMAIN m.heap \cap (Leaves \cup Parents),
         Good(m, Plus(ext, o), Null, tidy), m.heap[o].count = 1
  PROVE  /\ Good(Removed(m, o), PlusAll(Plus(ext, m.heap[o].bytes), m.heap[o].fields), Null, tidy)
         /\ Plus(ext, m.heap[o].bytes) \in Tokens
<1> DEFINE x == Removed(m, o)
           new == PlusAll(Plus(ext, m.heap[o].bytes), m.heap[o].fields)
<1>1. Booked(m, Plus(ext, o)) /\ Shaped(m) /\ IsMemory(m) /\ Private(m, Null) /\ m.undefined = "no" /\ (tidy => Tidy(m, Null))
  BY DEF Good, Sound, Booked, Shaped
<1>2. o \in Addresses /\ o \notin Arrays /\ m.heap[o].fields \in Seq(Int) /\ m.heap[o].data = Null
  BY <1>1, Kinds, ShapedHeap DEF Records, ObjectOK, LeafOK, ParentOK
<1>3. /\ IsMemory(x) /\ x.heap = [q \in DOMAIN m.heap \ {o} |-> m.heap[q]]
      /\ x.shared = m.shared /\ x.lost = m.lost /\ x.lostShared = m.lostShared /\ x.undefined = m.undefined
  BY <1>1, RemovedIs
<1>4. Plus(ext, m.heap[o].bytes) \in Tokens /\ new \in Tokens
      /\ \A a \in Addresses : Plus(ext, m.heap[o].bytes)[a] = ext[a] + Ind(m.heap[o].bytes, a) /\ ext[a] \in Nat
  BY <1>2, PlusTokens, PlusAllTokens
<1>5. \A a \in Addresses : new[a] = ext[a] + Pointing(m.heap[o], a) /\ Pointing(m.heap[o], a) \in Nat
  <2>1. \A a \in Addresses : Pointing(m.heap[o], a) \in Nat
    BY <1>2, UsesCounted
  <2>2. \A a \in Addresses : Occ(m.heap[o].fields, a) \in Nat /\ Ind(m.heap[o].bytes, a) \in Nat
    BY <1>2, PlacesFinite DEF Ind
  <2>3. \A a \in Addresses : new[a] = Plus(ext, m.heap[o].bytes)[a] + Occ(m.heap[o].fields, a)
    BY DEF PlusAll
  <2> QED
    BY <1>4, <2>1, <2>2, <2>3 DEF Pointing
<1> HIDE DEF x, new
<1>6. DOMAIN x.heap = DOMAIN m.heap \ {o} /\ (\A q \in DOMAIN x.heap : x.heap[q] = m.heap[q])
      /\ x.heap = [q \in DOMAIN x.heap |-> x.heap[q]]
  BY <1>3
<1>7. Shaped(x)
  <2>1. HeapOK(x.heap)
    BY <1>1, <1>6 DEF Shaped, HeapOK
  <2> QED
    BY <1>1, <1>3, <1>6, <2>1 DEF Shaped
<1>8. Booked(x, new)
  <2>1. ASSUME NEW a \in Addresses
        PROVE  (IF a = o THEN CountOf(x.heap, o) - CountOf(m.heap, o) ELSE 0)
                 = PointingFrom(x.heap, o, a) - PointingFrom(m.heap, o, a) + (x.lost[a] - m.lost[a])
                   + (new[a] - Plus(ext, o)[a])
    <3>1. PointingFrom(x.heap, o, a) = 0 /\ PointingFrom(m.heap, o, a) = Pointing(m.heap[o], a)
          /\ CountOf(x.heap, o) = 0 /\ CountOf(m.heap, o) = 1
      BY <1>6 DEF PointingFrom, CountOf
    <3>2. x.lost[a] = m.lost[a] /\ m.lost[a] \in Nat /\ Plus(ext, o)[a] = ext[a] + Ind(o, a) /\ ext[a] \in Nat
      BY <1>1, <1>3, PlusTokens DEF Shaped
    <3>3. new[a] = ext[a] + Pointing(m.heap[o], a) /\ Pointing(m.heap[o], a) \in Nat
      BY <1>5
    <3> QED
      BY <3>1, <3>2, <3>3 DEF Ind
  <2>2. ASSUME NEW k \in 1 .. MaxObjects
        PROVE  SharesOf(x.shared, k) - SharesOf(m.shared, k)
                 = ViewingFrom(x.heap, o, k) - ViewingFrom(m.heap, o, k) + (x.lostShared[k] - m.lostShared[k])
    <3>1. Null # k
      BY ObjectsAssumption DEF Null
    <3>2. ViewingFrom(m.heap, o, k) = 0 /\ ViewingFrom(x.heap, o, k) = 0
      BY <1>2, <1>6, <3>1 DEF ViewingFrom, Ind
    <3>3. SharesOf(m.shared, k) \in Int /\ m.lostShared[k] \in Int
      BY <1>1, SharesNatural
    <3> QED
      BY <1>3, <3>2, <3>3
  <2>3. DOMAIN m.heap \ {o} = DOMAIN x.heap \ {o} /\ \A q \in DOMAIN m.heap \ {o} : m.heap[q] = x.heap[q]
    BY <1>6
  <2> DEFINE old == Plus(ext, o)
  <2>4. old \in Tokens /\ Booked(m, old)
    BY <1>1, PlusTokens
  <2>5. \A a \in Addresses :
          (IF a = o THEN CountOf(x.heap, o) - CountOf(m.heap, o) ELSE 0)
            = PointingFrom(x.heap, o, a) - PointingFrom(m.heap, o, a) + (x.lost[a] - m.lost[a]) + (new[a] - old[a])
    BY <2>1
  <2> HIDE DEF old
  <2> QED
    <3>1. new \in Tokens
      BY <1>4
    <3> QED
      BY <3>1, <1>7, <2>2, <2>3, <2>4, <2>5, Stepped
<1>9. Private(x, Null)
  <2> SUFFICES ASSUME NEW l \in DOMAIN m.heap \cap Leaves, l \in DOMAIN x.heap, x.heap[l].bytes \in Arrays
               PROVE  CountOf(x.heap, x.heap[l].bytes) = IF l = Null THEN 2 ELSE 1
    BY <1>6 DEF Private
  <2>1. CountOf(m.heap, m.heap[l].bytes) = IF l = Null THEN 2 ELSE 1
    BY <1>1, <1>6 DEF Private
  <2> QED
    BY <1>2, <1>6, <2>1 DEF CountOf
<1>10. tidy => Tidy(x, Null)
  BY <1>1, <1>6 DEF Tidy
<1> QED
  BY <1>1, <1>3, <1>4, <1>8, <1>9, <1>10 DEF Good, Sound, Booked, x, new

\* Who has a token of a part or a message has it alive.
LEMMA HeldAlive ==
  ASSUME NEW m, NEW ext \in Tokens, NEW tidy, NEW o \in Addresses, NEW e, Good(m, Plus(ext, o), e, tidy)
  PROVE  o \in DOMAIN m.heap /\ m.heap[o] \in Records /\ ObjectOK(o, m.heap[o])
<1>1. Booked(m, Plus(ext, o)) /\ Shaped(m) /\ Plus(ext, o) \in Tokens
  BY PlusTokens DEF Good, Sound, Booked
<1>2. Plus(ext, o)[o] >= 1
  <2>1. Plus(ext, o)[o] = ext[o] + Ind(o, o) /\ ext[o] \in Nat
    BY PlusTokens
  <2> QED
    BY <2>1 DEF Ind
<1>3. o \in DOMAIN m.heap
  <2> DEFINE all == Plus(ext, o)
  <2>1. Booked(m, all) /\ all \in Tokens /\ all[o] >= 1
    BY <1>1, <1>2
  <2> HIDE DEF all
  <2> QED
    BY <2>1, TokenAlive
<1> QED
  BY <1>1, <1>3, ShapedHeap

\* One reference less to a part or a message that has others.
LEMMA LowerCountGood ==
  ASSUME NEW m, NEW ext \in Tokens, NEW tidy \in BOOLEAN, NEW o \in Leaves \cup Parents,
         Good(m, Plus(ext, o), Null, tidy), m.heap[o].count > 1
  PROVE  Good([m EXCEPT !.heap[o].count = @ - 1], ext, Null, tidy)
<1> DEFINE n == m.heap[o].count - 1
           y == [m EXCEPT !.heap[o].count = n]
<1>1. Booked(m, Plus(ext, o)) /\ Shaped(m) /\ Private(m, Null) /\ m.undefined = "no" /\ (tidy => Tidy(m, Null))
      /\ Plus(ext, o) \in Tokens
  BY PlusTokens DEF Good, Sound, Booked
<1>2. o \in DOMAIN m.heap /\ m.heap[o] \in Records /\ o \notin Arrays /\ o \in Addresses
  BY HeldAlive, Kinds
<1>3. n \in Nat \ {0} /\ m.heap[o].count \in Nat
  BY <1>2 DEF Records
<1>4. \A a \in Addresses : ext[a] = Plus(ext, o)[a] + (IF a = o THEN n - m.heap[o].count ELSE 0)
  <2>1. \A a \in Addresses : Plus(ext, o)[a] = ext[a] + Ind(o, a) /\ ext[a] \in Nat
    BY PlusTokens
  <2> QED
    BY <1>3, <2>1 DEF Ind
<1> HIDE DEF n
<1>5. Booked(y, ext) /\ Puts(m, y, o, WithCount(m.heap[o], n)) /\ y.lost = m.lost
  BY <1>1, <1>2, <1>3, <1>4, RecountBooked
<1> HIDE DEF y
<1>6. \A l \in DOMAIN m.heap \cap Leaves : m.heap[l].bytes # o
  <2> SUFFICES ASSUME NEW l \in DOMAIN m.heap \cap Leaves PROVE m.heap[l].bytes # o
    OBVIOUS
  <2>1. m.heap[l].bytes \in Arrays \cup {Null, Garbage}
    BY <1>1, ShapedHeap DEF ObjectOK, LeafOK
  <2> QED
    BY <1>2, <2>1, Kinds
<1>7. (\A e : Tidy(m, e) => Tidy(y, e)) /\ Private(y, Null)
  BY <1>1, <1>2, <1>3, <1>5, <1>6, RecountKeeps
<1>8. y.undefined = "no"
  BY <1>1, <1>5 DEF Puts
<1> QED
  BY <1>1, <1>5, <1>7, <1>8 DEF Good, Sound, Booked, y, n

\* What the destructor of a part leaves.
LEMMA DestroyLeafState ==
  ASSUME NEW m, NEW ext \in Tokens, NEW tidy \in BOOLEAN, NEW object, LeafOK(object),
         Plus(ext, object.bytes) \in Tokens,
         State(m, PlusAll(Plus(ext, object.bytes), object.fields), tidy), tidy => TidyObject(object)
  PROVE  State(DestroyLeaf(m, object), ext, tidy)
<1> DEFINE b == object.bytes
           s == object.fields
<1>1. /\ b \in Arrays \cup {Null, Garbage} /\ s \in Seq(Arrays \cup {Null}) /\ Len(s) = Arity(object.class)
      /\ tidy => b # Garbage
      /\ tidy /\ object.class = "InventoryVector" => s[1] # Null
  BY DEF LeafOK, TidyObject
<1>2. Arrays \cup {Null} \subseteq Int /\ Null \notin Arrays
  BY Kinds DEF Null
<1>3. s[1] \in Arrays \cup {Null} /\ s[1] \in Int
  BY <1>1, <1>2 DEF Arity
<1>4. CASE object.class = "TransactionInput"
  <2>1. s[2] \in Arrays \cup {Null} /\ s[2] \in Int /\ s = <<s[1], s[2]>>
    BY <1>1, <1>2, <1>4 DEF Arity
  <2>2. PlusAll(Plus(ext, b), <<s[1], s[2]>>) = Plus(Plus(Plus(ext, b), s[2]), s[1])
    BY <1>3, <2>1, PlusAllTokens
  <2>3. Plus(Plus(ext, b), s[2]) \in Tokens
    BY PlusTokens
  <2>4. State(m, Plus(Plus(Plus(ext, b), s[2]), s[1]), tidy)
    BY <2>1, <2>2
  <2> HIDE DEF b, s
  <2> DEFINE x == LowerIfAny(m, s[1])
             y == LowerIfAny(x, s[2])
  <2>5. State(x, Plus(Plus(ext, b), s[2]), tidy)
    <3> DEFINE e1 == Plus(Plus(ext, b), s[2])
    <3>1. State(m, Plus(e1, s[1]), tidy) /\ e1 \in Tokens /\ s[1] # Garbage /\ s[1] \in Arrays \cup {Null, Garbage}
      BY <1>3, <2>3, <2>4, Kinds
    <3> HIDE DEF e1
    <3>2. State(x, e1, tidy)
      BY <3>1, LowerIfAnyState
    <3> QED
      BY <3>2 DEF e1
  <2> HIDE DEF x
  <2>6. State(y, Plus(ext, b), tidy)
    <3> DEFINE e2 == Plus(ext, b)
    <3>1. State(x, Plus(e2, s[2]), tidy) /\ e2 \in Tokens /\ s[2] # Garbage /\ s[2] \in Arrays \cup {Null, Garbage}
      BY <2>1, <2>5, Kinds DEF b
    <3> HIDE DEF e2
    <3>2. State(y, e2, tidy)
      BY <3>1, LowerIfAnyState
    <3> QED
      BY <3>2 DEF e2
  <2> HIDE DEF y
  <2>7. State(LowerIfAny(y, b), ext, tidy)
    BY <1>1, <2>6, LowerIfAnyState DEF b
  <2> QED
    BY <1>4, <2>7 DEF DestroyLeaf, DestroyInput, DestroyMessage, x, y, b, s
<1>5. CASE object.class # "TransactionInput"
  <2>1. s = <<s[1]>>
    BY <1>1, <1>2, <1>5 DEF Arity
  <2>2. PlusAll(Plus(ext, b), <<s[1]>>) = Plus(Plus(ext, b), s[1])
    BY <1>3, PlusAllTokens
  <2>3. State(m, Plus(Plus(ext, b), s[1]), tidy)
    BY <2>1, <2>2
  <2> DEFINE x == IF object.class = "TransactionOutput" THEN LowerIfAny(m, s[1]) ELSE LowerArray(m, s[1])
             all == Plus(ext, b)
  <2>4. State(m, Plus(all, s[1]), tidy) /\ all \in Tokens /\ s[1] # Garbage /\ s[1] \in Arrays \cup {Null, Garbage}
    BY <1>3, <2>3, Kinds
  <2>5. object.class \in {"TransactionOutput", "InventoryVector"}
    BY <1>5 DEF LeafOK, LeafClasses
  <2> HIDE DEF s, all
  <2>6. State(x, all, tidy)
    <3>1. CASE object.class = "TransactionOutput"
      BY <2>4, <3>1, LowerIfAnyState
    <3>2. CASE object.class = "InventoryVector"
      <4>1. tidy => s[1] \in Arrays
        BY <1>1, <1>3, <3>2 DEF s
      <4> QED
        BY <2>4, <3>2, <4>1, LowerArrayState
    <3> QED
      BY <2>5, <3>1, <3>2
  <2> HIDE DEF x
  <2>7. State(LowerIfAny(x, b), ext, tidy)
    BY <1>1, <2>6, LowerIfAnyState DEF all
  <2> QED
    BY <2>5, <2>7 DEF DestroyLeaf, DestroyOutput, DestroyVector, DestroyMessage, x, s
<1> QED
  BY <1>4, <1>5

\* A part is let go of; when nothing was refused there is one.
LEMMA LowerLeafState ==
  ASSUME NEW m, NEW ext \in Tokens, NEW tidy \in BOOLEAN, NEW o \in Leaves \cup {Garbage},
         State(m, Plus(ext, o), tidy), tidy => o # Garbage
  PROVE  State(LowerLeaf(m, o), ext, tidy)
<1>1. CASE m.undefined # "no"
  <2>1. LowerLeaf(m, o) = m
    BY <1>1 DEF LowerLeaf, Lower
  <2>2. m.undefined = "unset" /\ Shaped(m) /\ ~tidy
    BY <1>1 DEF State, Good
  <2> QED
    BY <2>1, <2>2 DEF State
<1>2. CASE m.undefined = "no" /\ o = Garbage
  <2>1. Shaped(m) /\ tidy = FALSE
    BY <1>2 DEF State, Good, Sound
  <2>2. o \notin DOMAIN m.heap
    BY <1>2, <2>1, ShapedHeap, Kinds
  <2>3. LowerLeaf(m, o) = Undefined(m, o)
    BY <1>2, <2>2 DEF LowerLeaf, Lower, Live
  <2>4. o \in {Null, Garbage}
    BY <1>2
  <2> QED
    BY <2>1, <2>3, <2>4, UnsetUndefined
<1>3. CASE m.undefined = "no" /\ o \in Leaves
  <2>1. Good(m, Plus(ext, o), Null, tidy) /\ o \in Addresses /\ o # Null
    BY <1>3, Kinds DEF State
  <2>2. o \in DOMAIN m.heap /\ m.heap[o] \in Records /\ LeafOK(m.heap[o])
    BY <1>3, <2>1, HeldAlive DEF ObjectOK
  <2>3. CASE m.heap[o].count > 1
    <3>1. LowerLeaf(m, o) = [m EXCEPT !.heap[o].count = @ - 1]
      BY <1>3, <2>2, <2>3 DEF LowerLeaf, Lower, Live
    <3>2. Good([m EXCEPT !.heap[o].count = @ - 1], ext, Null, tidy)
      BY <1>3, <2>1, <2>3, LowerCountGood
    <3> QED
      BY <3>1, <3>2 DEF State
  <2>4. CASE ~(m.heap[o].count > 1)
    <3>1. m.heap[o].count = 1 /\ m.heap[o].destroy
      BY <2>2, <2>4 DEF Records, LeafOK
    <3>2. LowerLeaf(m, o) = DestroyLeaf(Removed(m, o), m.heap[o])
      BY <1>3, <2>2, <2>4, <3>1 DEF LowerLeaf, Lower, Live
    <3>3. /\ Good(Removed(m, o), PlusAll(Plus(ext, m.heap[o].bytes), m.heap[o].fields), Null, tidy)
          /\ Plus(ext, m.heap[o].bytes) \in Tokens
      BY <1>3, <2>1, <2>2, <3>1, RemovedGood
    <3>4. tidy => TidyObject(m.heap[o])
      BY <2>1, <2>2 DEF Good, Tidy
    <3>5. State(Removed(m, o), PlusAll(Plus(ext, m.heap[o].bytes), m.heap[o].fields), tidy)
      BY <3>3 DEF State
    <3> QED
      BY <2>2, <3>2, <3>3, <3>4, <3>5, DestroyLeafState
  <2> QED
    BY <2>3, <2>4
<1> QED
  BY <1>1, <1>2, <1>3

\* The folds of the model are those of the instances.
LEMMA FoldsAre ==
  ASSUME NEW m, NEW s
  PROVE  /\ FoldLeft(LowerLeaf, m, s) = Lowering!Fold(m, s)
         /\ FoldLeft(ReadNext, m, s) = Reading!Fold(m, s)
         /\ FoldLeft(WriteNext, m, s) = Writing!Fold(m, s)
         /\ FoldLeft(FreeBytes, m, s) = Freeing!Fold(m, s)
         /\ FoldLeft(DecrementBytes, m, s) = GivingBack!Fold(m, s)
<1>1. FoldLeft(LowerLeaf, m, s) = Lowering!Fold(m, s)
  BY DEF Lowering!Fold, FoldLeft, MapThenFoldSet, Lowering!MapThenFoldSet, Max, Lowering!Greatest
<1>2. FoldLeft(ReadNext, m, s) = Reading!Fold(m, s)
  BY DEF Reading!Fold, FoldLeft, MapThenFoldSet, Reading!MapThenFoldSet, Max, Reading!Greatest
<1>3. FoldLeft(WriteNext, m, s) = Writing!Fold(m, s)
  BY DEF Writing!Fold, FoldLeft, MapThenFoldSet, Writing!MapThenFoldSet, Max, Writing!Greatest
<1>4. FoldLeft(FreeBytes, m, s) = Freeing!Fold(m, s)
  BY DEF Freeing!Fold, FoldLeft, MapThenFoldSet, Freeing!MapThenFoldSet, Max, Freeing!Greatest
<1>5. FoldLeft(DecrementBytes, m, s) = GivingBack!Fold(m, s)
  BY DEF GivingBack!Fold, FoldLeft, MapThenFoldSet, GivingBack!MapThenFoldSet, Max, GivingBack!Greatest
<1> QED
  BY <1>1, <1>2, <1>3, <1>4, <1>5

\* The parts of a message are let go of, one after the other.
LEMMA LowerLeavesState ==
  ASSUME NEW tidy \in BOOLEAN, NEW m, NEW s \in Seq(Leaves \cup {Garbage}), NEW ext \in Tokens,
         State(m, PlusAll(ext, s), tidy), tidy => \A i \in 1 .. Len(s) : s[i] # Garbage
  PROVE  State(FoldLeft(LowerLeaf, m, s), ext, tidy)
<1> DEFINE S == Leaves \cup {Garbage}
           Lowered(t, e) == State(Lowering!Fold(m, t), e, tidy)
           T == {n \in Nat : \A t \in Seq(S) : \A e \in Tokens :
                   Len(t) = n /\ State(m, PlusAll(e, t), tidy) /\ (tidy => \A i \in 1 .. Len(t) : t[i] # Garbage)
                     => Lowered(t, e)}
<1>0. S \subseteq Int
  BY Kinds DEF Garbage
<1>1. 0 \in T
  <2> SUFFICES ASSUME NEW t \in Seq(S), NEW e \in Tokens, Len(t) = 0, State(m, PlusAll(e, t), tidy)
               PROVE  Lowered(t, e)
    OBVIOUS
  <2>1. t = <<>>
    OBVIOUS
  <2>2. PlusAll(e, t) = e
    BY <2>1, PlusAllTokens
  <2> QED
    BY <2>1, <2>2, Lowering!FoldEmpty
<1>2. ASSUME NEW n \in T PROVE n + 1 \in T
  <2> SUFFICES ASSUME NEW t \in Seq(S), NEW e \in Tokens, Len(t) = n + 1, State(m, PlusAll(e, t), tidy),
                      tidy => \A i \in 1 .. Len(t) : t[i] # Garbage
               PROVE  Lowered(t, e)
    OBVIOUS
  <2> DEFINE q == SubSeq(t, 1, n)
             f == t[n + 1]
  <2>1. q \in Seq(S) /\ Len(q) = n /\ f \in S /\ t = Append(q, f) /\ \A i \in 1 .. n : q[i] = t[i]
    OBVIOUS
  <2>2. (tidy => f # Garbage) /\ (tidy => \A i \in 1 .. Len(q) : q[i] # Garbage)
    BY <2>1
  <2>3. n \in Nat
    OBVIOUS
  <2> HIDE DEF q, f
  <2>4. PlusAll(e, t) = PlusAll(Plus(e, f), q) /\ Plus(e, f) \in Tokens
    <3>1. q \in Seq(Int) /\ f \in Int
      BY <1>0, <2>1
    <3> QED
      BY <2>1, <3>1, PlusAllTokens, PlusTokens
  <2>5. Lowered(q, Plus(e, f))
    <3> HIDE DEF Lowered
    <3> QED
      BY <2>1, <2>2, <2>4
  <2>6. State(LowerLeaf(Lowering!Fold(m, q), f), e, tidy)
    <3> DEFINE x == Lowering!Fold(m, q)
    <3>1. State(x, Plus(e, f), tidy)
      BY <2>5
    <3> HIDE DEF x, T, S
    <3>2. f \in Leaves \cup {Garbage}
      BY <2>1 DEF S
    <3>3. State(LowerLeaf(x, f), e, tidy)
      BY <2>2, <3>1, <3>2, LowerLeafState
    <3> QED
      BY <3>3 DEF x
  <2>7. Lowering!Fold(m, t) = LowerLeaf(Lowering!Fold(m, q), f)
    BY <2>1, Lowering!FoldAppend
  <2> QED
    BY <2>6, <2>7
<1> HIDE DEF Lowered
<1>3. T = Nat
  <2>1. T \subseteq Nat
    OBVIOUS
  <2> HIDE DEF T
  <2> QED
    BY <1>1, <1>2, <2>1, Lowering!SetInduction
<1>4. Lowered(s, ext)
  <2>1. Len(s) \in T
    BY <1>3
  <2> QED
    BY <2>1
<1> QED
  BY <1>4, FoldsAre DEF Lowered

\* What the destructor of a message leaves.
LEMMA DestroyParentState ==
  ASSUME NEW m, NEW ext \in Tokens, NEW tidy \in BOOLEAN, NEW object, ParentOK(object),
         Plus(ext, object.bytes) \in Tokens,
         State(m, PlusAll(Plus(ext, object.bytes), object.fields), tidy), tidy => TidyObject(object)
  PROVE  State(DestroyParent(m, object), ext, tidy)
<1> DEFINE b == object.bytes
           s == object.fields
           all == Plus(ext, b)
           x == FoldLeft(LowerLeaf, m, s)
<1>1. /\ b \in Arrays \cup {Null, Garbage} /\ s \in Seq(Leaves \cup {Garbage})
      /\ tidy => b # Garbage
      /\ tidy => \A i \in 1 .. Len(s) : s[i] # Garbage
      /\ all \in Tokens /\ State(m, PlusAll(all, s), tidy)
  BY DEF ParentOK, TidyObject
<1>2. DestroyParent(m, object) = LowerIfAny(x, b)
  BY DEF DestroyParent, DestroyMessage
<1> HIDE DEF b, s, all
<1>3. State(x, all, tidy)
  BY <1>1, LowerLeavesState
<1> HIDE DEF x
<1>4. State(LowerIfAny(x, b), ext, tidy)
  BY <1>1, <1>3, LowerIfAnyState DEF all
<1> QED
  BY <1>2, <1>4

\* The destructor is missing: the program jumps to where nothing was set.
Jumps(m, x, o) == o \in DOMAIN m.heap /\ ~m.heap[o].destroy /\ x = Undefined(m, Garbage)

\* Any object is let go of.
LEMMA DecrementState ==
  ASSUME NEW m, NEW ext \in Tokens, NEW tidy \in BOOLEAN, NEW o \in Addresses,
         Good(m, Plus(ext, o), Null, tidy)
  PROVE  State(Decrement(m, o), ext, tidy) \/ Jumps(m, Decrement(m, o), o)
<1>1. /\ o \in DOMAIN m.heap /\ m.heap[o] \in Records /\ ObjectOK(o, m.heap[o])
      /\ m.undefined = "no" /\ (tidy => Tidy(m, Null)) /\ o # Null
  <2>1. o \in DOMAIN m.heap /\ m.heap[o] \in Records /\ ObjectOK(o, m.heap[o])
    BY HeldAlive
  <2> QED
    BY <2>1, Kinds DEF Good
<1>2. State(m, Plus(ext, o), tidy)
  BY DEF State
<1>3. CASE o \in Arrays
  <2>1. m.heap[o].destroy /\ m.heap[o].class = "ByteArray"
    BY <1>1, <1>3 DEF ObjectOK, ArrayOK
  <2>2. Destroy(Removed(m, o), m.heap[o]) = DestroyByteArray(Removed(m, o), m.heap[o])
    BY <2>1 DEF Destroy, LeafClasses, ParentClasses
  <2>3. Decrement(m, o) = LowerArray(m, o)
    BY <1>1, <2>1, <2>2 DEF Decrement, Lower, LowerArray, Live
  <2> QED
    BY <1>2, <1>3, <2>3, LowerArrayState
<1>4. CASE o \in Leaves
  <2>1. m.heap[o].destroy /\ m.heap[o].class \in LeafClasses /\ m.heap[o].class # "ByteArray"
    BY <1>1, <1>4 DEF ObjectOK, LeafOK, LeafClasses
  <2>2. Destroy(Removed(m, o), m.heap[o]) = DestroyLeaf(Removed(m, o), m.heap[o])
    BY <2>1 DEF Destroy, LeafClasses, ParentClasses
  <2>3. Decrement(m, o) = LowerLeaf(m, o)
    BY <1>1, <2>1, <2>2 DEF Decrement, Lower, LowerLeaf, Live
  <2>4. o # Garbage
    BY Kinds
  <2> QED
    BY <1>2, <1>4, <2>3, <2>4, LowerLeafState
<1>5. CASE o \in Parents
  <2>1. m.heap[o].class \in ParentClasses /\ m.heap[o].class # "ByteArray" /\ m.heap[o].class \notin LeafClasses
        /\ ParentOK(m.heap[o])
    BY <1>1, <1>5 DEF ObjectOK, ParentOK, ParentClasses, LeafClasses
  <2>2. Destroy(Removed(m, o), m.heap[o]) = DestroyParent(Removed(m, o), m.heap[o])
    BY <2>1 DEF Destroy, ParentClasses, LeafClasses
  <2>3. CASE m.heap[o].count > 1
    <3>1. Decrement(m, o) = [m EXCEPT !.heap[o].count = @ - 1]
      BY <1>1, <2>3 DEF Decrement, Lower, Live
    <3>2. Good([m EXCEPT !.heap[o].count = @ - 1], ext, Null, tidy)
      BY <1>5, <2>3, LowerCountGood
    <3> QED
      BY <3>1, <3>2 DEF State
  <2>4. CASE ~(m.heap[o].count > 1) /\ ~m.heap[o].destroy
    BY <1>1, <2>4 DEF Decrement, Lower, Live, Jumps
  <2>5. CASE ~(m.heap[o].count > 1) /\ m.heap[o].destroy
    <3>1. m.heap[o].count = 1
      BY <1>1, <2>5 DEF Records
    <3>2. Decrement(m, o) = DestroyParent(Removed(m, o), m.heap[o])
      BY <1>1, <2>2, <2>5 DEF Decrement, Lower, Live
    <3>3. /\ Good(Removed(m, o), PlusAll(Plus(ext, m.heap[o].bytes), m.heap[o].fields), Null, tidy)
          /\ Plus(ext, m.heap[o].bytes) \in Tokens
      BY <1>1, <1>5, <3>1, RemovedGood
    <3>4. tidy => TidyObject(m.heap[o])
      BY <1>1 DEF Tidy
    <3>5. State(Removed(m, o), PlusAll(Plus(ext, m.heap[o].bytes), m.heap[o].fields), tidy)
      BY <3>3 DEF State
    <3>6. State(DestroyParent(Removed(m, o), m.heap[o]), ext, tidy)
      BY <2>1, <3>3, <3>4, <3>5, DestroyParentState
    <3> QED
      BY <3>2, <3>6
  <2> QED
    BY <2>3, <2>4, <2>5
<1> QED
  BY <1>3, <1>4, <1>5, Kinds

-----------------------------------------------------------------------------
(* What points where is changed *)

WithFields(object, s) == [object EXCEPT !.fields = s]
WithBytes(object, b)  == [object EXCEPT !.bytes = b]
WithField(object, i, a) == WithFields(object, [object.fields EXCEPT ![i] = a])

\* An object with other fields or other bytes is otherwise the same.
LEMMA Refielded ==
  ASSUME NEW object \in Records, NEW s \in Seq(Int)
  PROVE  LET obj == WithFields(object, s)
         IN  /\ obj \in Records /\ obj.fields = s
             /\ obj.class = object.class /\ obj.bytes = object.bytes /\ obj.count = object.count
             /\ obj.data = object.data /\ obj.destroy = object.destroy
             /\ \A o : Pointing(obj, o) = Ind(object.bytes, o) + Occ(s, o)
             /\ \A o : Pointing(object, o) = Ind(object.bytes, o) + Occ(object.fields, o)
<1> DEFINE obj == WithFields(object, s)
<1>1. /\ obj \in Records /\ obj.fields = s
      /\ obj.class = object.class /\ obj.bytes = object.bytes /\ obj.count = object.count
      /\ obj.data = object.data /\ obj.destroy = object.destroy
  BY DEF Records, WithFields
<1> HIDE DEF obj
<1>2. \A o : Pointing(obj, o) = Ind(object.bytes, o) + Occ(s, o)
  BY <1>1 DEF Pointing
<1>3. \A o : Pointing(object, o) = Ind(object.bytes, o) + Occ(object.fields, o)
  BY DEF Pointing
<1> QED
  BY <1>1, <1>2, <1>3 DEF obj

\* The same for other bytes.
LEMMA Rebyted ==
  ASSUME NEW object \in Records, NEW b \in Int
  PROVE  LET obj == WithBytes(object, b)
         IN  /\ obj \in Records /\ obj.bytes = b
             /\ obj.class = object.class /\ obj.fields = object.fields /\ obj.count = object.count
             /\ obj.data = object.data /\ obj.destroy = object.destroy
             /\ \A o : Pointing(obj, o) = Ind(b, o) + Occ(object.fields, o)
             /\ \A o : Pointing(object, o) = Ind(object.bytes, o) + Occ(object.fields, o)
<1> DEFINE obj == WithBytes(object, b)
<1>1. /\ obj \in Records /\ obj.bytes = b
      /\ obj.class = object.class /\ obj.fields = object.fields /\ obj.count = object.count
      /\ obj.data = object.data /\ obj.destroy = object.destroy
  BY DEF Records, WithBytes
<1> HIDE DEF obj
<1>2. \A o : Pointing(obj, o) = Ind(b, o) + Occ(object.fields, o)
  BY <1>1 DEF Pointing
<1>3. \A o : Pointing(object, o) = Ind(object.bytes, o) + Occ(object.fields, o)
  BY DEF Pointing
<1> QED
  BY <1>1, <1>2, <1>3 DEF obj

\* How many pointers more there are when an array is put where there was none, when
\* something is appended, and when the bytes are others.
LEMMA PointingChanged ==
  ASSUME NEW object \in Records, NEW e \in Int, NEW q \in Addresses
  PROVE  /\ Pointing(object, q) \in Nat /\ Ind(e, q) \in Nat
         /\ \A i \in 1 .. Len(object.fields) : object.fields[i] = Null =>
              Pointing(WithFields(object, [object.fields EXCEPT ![i] = e]), q) = Pointing(object, q) + Ind(e, q)
         /\ Pointing(WithFields(object, Append(object.fields, e)), q) = Pointing(object, q) + Ind(e, q)
         /\ Pointing(WithBytes(object, e), q) + Ind(object.bytes, q) = Pointing(object, q) + Ind(e, q)
<1> DEFINE s == object.fields
<1>1. s \in Seq(Int)
  BY DEF Records
<1>2. Pointing(object, q) = Ind(object.bytes, q) + Occ(s, q) /\ Pointing(object, q) \in Nat
  BY <1>1, UsesCounted DEF Pointing
<1>3. Ind(e, q) \in Nat /\ Ind(object.bytes, q) \in Nat /\ Ind(Null, q) = 0 /\ Occ(s, q) \in Nat
  BY <1>1, PlacesFinite, Kinds DEF Ind
<1> HIDE DEF s
<1>4. ASSUME NEW i \in 1 .. Len(s), s[i] = Null
      PROVE  Pointing(WithFields(object, [s EXCEPT ![i] = e]), q) = Pointing(object, q) + Ind(e, q)
  <2> DEFINE t == [s EXCEPT ![i] = e]
  <2>1. t \in Seq(Int)
    BY <1>1
  <2>2. Occ(t, q) + Ind(s[i], q) = Occ(s, q) + Ind(e, q) /\ Occ(t, q) \in Nat
    BY <1>1, <2>1, OccExcept, PlacesFinite
  <2> HIDE DEF t
  <2>3. Occ(t, q) = Occ(s, q) + Ind(e, q)
    BY <1>3, <1>4, <2>2
  <2>4. Pointing(WithFields(object, t), q) = Ind(object.bytes, q) + Occ(t, q)
    BY <2>1, Refielded
  <2> QED
    BY <1>2, <1>3, <2>3, <2>4 DEF t
<1>5. Pointing(WithFields(object, Append(s, e)), q) = Pointing(object, q) + Ind(e, q)
  <2>1. Append(s, e) \in Seq(Int) /\ Occ(Append(s, e), q) = Occ(s, q) + Ind(e, q)
    BY <1>1, OccAppend
  <2>2. Pointing(WithFields(object, Append(s, e)), q) = Ind(object.bytes, q) + Occ(Append(s, e), q)
    BY <2>1, Refielded
  <2> QED
    BY <1>2, <1>3, <2>1, <2>2
<1>6. Pointing(WithBytes(object, e), q) + Ind(object.bytes, q) = Pointing(object, q) + Ind(e, q)
  <2>1. Pointing(WithBytes(object, e), q) = Ind(e, q) + Occ(s, q)
    BY Rebyted DEF s
  <2> QED
    BY <1>2, <1>3, <2>1
<1> QED
  BY <1>2, <1>3, <1>4, <1>5, <1>6 DEF s

Rewritten(m, o, obj) == [m EXCEPT !.heap[o] = obj]

\* One object is written anew.
LEMMA RewrittenPuts ==
  ASSUME NEW m, Shaped(m), NEW o \in DOMAIN m.heap, NEW obj
  PROVE  Puts(m, Rewritten(m, o, obj), o, obj) /\ Rewritten(m, o, obj).lost = m.lost
<1> DEFINE x == Rewritten(m, o, obj)
           h == [m.heap EXCEPT ![o] = obj]
<1>1. IsMemory(m) /\ m.heap = [q \in DOMAIN m.heap |-> m.heap[q]]
  BY DEF Shaped
<1>2. x = [m EXCEPT !.heap = h]
  BY DEF Rewritten
<1>3. h = [q \in DOMAIN m.heap \cup {o} |-> IF q = o THEN obj ELSE m.heap[q]]
  BY <1>1
<1> HIDE DEF h, x
<1>4. x = [heap |-> h, shared |-> m.shared, lost |-> m.lost, lostShared |-> m.lostShared, undefined |-> m.undefined]
  BY <1>1, <1>2 DEF IsMemory
<1>5. Puts(m, x, o, obj) /\ x.lost = m.lost
  BY <1>3, <1>4 DEF Puts, IsMemory
<1> QED
  BY <1>5 DEF x

\* What an object has, what is lost and what is held are as much as before.
Handing(m, x, ext, new, o, obj) ==
  \A a \in Addresses :
    Pointing(m.heap[o], a) + m.lost[a] + ext[a] = Pointing(obj, a) + x.lost[a] + new[a]

\* Tokens move between an object and those who act; a part gets bytes that nobody
\* else has.
LEMMA RewriteGood ==
  ASSUME NEW m, NEW x, NEW ext \in Tokens, NEW new \in Tokens, NEW tidy \in BOOLEAN, NEW e,
         Good(m, ext, e, tidy), NEW o \in DOMAIN m.heap, NEW obj, ObjectOK(o, obj),
         obj.count = m.heap[o].count, obj.data = m.heap[o].data,
         Puts(m, x, o, obj), x.lost \in [Addresses -> Nat], Handing(m, x, ext, new, o, obj),
         o \in Leaves /\ obj.bytes \in Arrays
           => obj.bytes = m.heap[o].bytes \/ (o # e /\ CountOf(m.heap, obj.bytes) = 1),
         tidy /\ o # e => TidyObject(obj)
  PROVE  Good(x, new, e, tidy)
<1>1. Booked(m, ext) /\ Shaped(m) /\ Private(m, e) /\ m.undefined = "no" /\ (tidy => Tidy(m, e))
  BY DEF Good, Sound, Booked
<1>2. o \in Addresses /\ m.heap[o] \in Records /\ obj \in Records
  BY <1>1, ShapedHeap DEF ObjectOK
<1>3. Balanced(m, x, ext, new, o, obj)
  <2> SUFFICES ASSUME NEW a \in Addresses
               PROVE  (IF a = o THEN obj.count - CountOf(m.heap, o) ELSE 0)
                        = Pointing(obj, a) - PointingFrom(m.heap, o, a) + (x.lost[a] - m.lost[a]) + (new[a] - ext[a])
    BY DEF Balanced
  <2>1. PointingFrom(m.heap, o, a) = Pointing(m.heap[o], a) /\ CountOf(m.heap, o) = obj.count
    BY DEF PointingFrom, CountOf
  <2>2. Pointing(m.heap[o], a) \in Nat /\ Pointing(obj, a) \in Nat
    BY <1>2, UsesCounted DEF Records
  <2>3. m.lost[a] \in Nat /\ x.lost[a] \in Nat /\ ext[a] \in Nat /\ new[a] \in Nat /\ obj.count \in Nat
    BY <1>1, <1>2 DEF Shaped, Tokens, Records
  <2>4. Pointing(m.heap[o], a) + m.lost[a] + ext[a] = Pointing(obj, a) + x.lost[a] + new[a]
    BY DEF Handing
  <2> QED
    BY <2>1, <2>2, <2>3, <2>4
<1>4. Booked(x, new)
  <2>1. obj.data = IF o \in DOMAIN m.heap THEN m.heap[o].data ELSE Null
    OBVIOUS
  <2> QED
    BY <1>1, <1>2, <1>3, <2>1, PutBooked
<1>5. DOMAIN x.heap = DOMAIN m.heap /\ x.heap[o] = obj /\ (\A q \in DOMAIN m.heap \ {o} : x.heap[q] = m.heap[q])
      /\ x.undefined = m.undefined
  BY DEF Puts
<1>6. \A a : CountOf(x.heap, a) = CountOf(m.heap, a)
  BY <1>5 DEF CountOf
<1>7. Private(x, e)
  <2> SUFFICES ASSUME NEW l \in DOMAIN m.heap \cap Leaves, x.heap[l].bytes \in Arrays
               PROVE  CountOf(x.heap, x.heap[l].bytes) = IF l = e THEN 2 ELSE 1
    BY <1>5 DEF Private
  <2>1. CASE x.heap[l].bytes = m.heap[l].bytes
    BY <1>1, <1>6, <2>1 DEF Private
  <2>2. CASE x.heap[l].bytes # m.heap[l].bytes
    BY <1>5, <1>6, <2>2
  <2> QED
    BY <2>1, <2>2
<1>8. tidy => Tidy(x, e)
  BY <1>1, <1>5 DEF Tidy
<1> QED
  BY <1>1, <1>4, <1>5, <1>7, <1>8 DEF Good, Sound, Booked

-----------------------------------------------------------------------------
(* Sections and room *)

Used(m, A) == Cardinality(DOMAIN m.heap \cap A)
RoomIn(m, A, n) == Used(m, A) + n <= MaxObjects

\* The room among the arrays, the parts and the messages.
LEMMA Rooms ==
  ASSUME NEW m, NEW n
  PROVE  /\ Room(m, "ByteArray", n) <=> Used(m, Arrays) + n <= MaxObjects
         /\ \A class \in LeafClasses : Room(m, class, n) <=> Used(m, Leaves) + n <= MaxObjects
         /\ \A class \in ParentClasses : Room(m, class, n) <=> Used(m, Parents) + n <= MaxObjects
BY Kinds DEF Room, Used

\* Objects that go make room, and one that comes takes it from its own kind.
LEMMA UsedLeft ==
  ASSUME NEW m, NEW x, Shaped(m), NEW A, NEW o, DOMAIN x.heap \subseteq DOMAIN m.heap \cup {o}
  PROVE  /\ Used(m, A) \in Nat /\ Used(x, A) \in Nat /\ Used(x, A) <= Used(m, A) + 1
         /\ o \notin A \/ o \in DOMAIN m.heap => Used(x, A) <= Used(m, A)
<1> DEFINE D == DOMAIN m.heap \cap A
           E == DOMAIN x.heap \cap A
<1>1. IsFiniteSet(D) /\ Cardinality(D) \in Nat
  <2>1. IsFiniteSet(D)
    BY ShapedHeap, FS_Subset DEF Heap
  <2> QED
    BY <2>1, FS_CardinalityType
<1>2. IsFiniteSet(D \cup {o}) /\ Cardinality(D \cup {o}) <= Cardinality(D) + 1 /\ Cardinality(D \cup {o}) \in Nat
  <2> HIDE DEF D
  <2>1. IsFiniteSet(D \cup {o}) /\ Cardinality(D \cup {o}) = IF o \in D THEN Cardinality(D) ELSE Cardinality(D) + 1
    BY <1>1, FS_AddElement
  <2> QED
    BY <1>1, <2>1
<1>3. ASSUME NEW F, E \subseteq F, IsFiniteSet(F) PROVE Cardinality(E) <= Cardinality(F) /\ Cardinality(E) \in Nat
  <2> HIDE DEF E
  <2>1. IsFiniteSet(E) /\ Cardinality(E) <= Cardinality(F)
    BY <1>3, FS_Subset
  <2> QED
    BY <2>1, FS_CardinalityType
<1>4. E \subseteq D \cup {o} /\ (o \notin A \/ o \in DOMAIN m.heap => E \subseteq D)
  OBVIOUS
<1>5. Used(m, A) = Cardinality(D) /\ Used(x, A) = Cardinality(E)
  BY DEF Used
<1> HIDE DEF D, E
<1>6. Cardinality(E) <= Cardinality(D \cup {o}) /\ Cardinality(E) \in Nat
  BY <1>2, <1>3, <1>4
<1>7. o \notin A \/ o \in DOMAIN m.heap => Cardinality(E) <= Cardinality(D)
  BY <1>1, <1>3, <1>4
<1> QED
  BY <1>1, <1>2, <1>5, <1>6, <1>7

\* The object o came, and the others are as before.
Adds(m, x, o) ==
  /\ DOMAIN x.heap = DOMAIN m.heap \cup {o}
  /\ \A q \in DOMAIN m.heap : x.heap[q] = m.heap[q]

\* The same, and the object p changed.
AddsTo(m, x, o, p) ==
  /\ DOMAIN x.heap = DOMAIN m.heap \cup {o}
  /\ \A q \in DOMAIN m.heap \ {p} : x.heap[q] = m.heap[q]

\* There is room for a section of a live array; who takes it has the token.
LEMMA SectionGood ==
  ASSUME NEW m, NEW ext \in Tokens, NEW tidy \in BOOLEAN, NEW e \in {Null} \cup DOMAIN m.heap,
         Good(m, ext, e, tidy), NEW ref, ref \in DOMAIN m.heap, ref \in Arrays, RoomIn(m, Arrays, 1),
         NEW a, a = FreshFor(m, "ByteArray"), NEW x, x = Subsection(m, a, ref)
  PROVE  /\ a \in Arrays /\ a \notin DOMAIN m.heap
         /\ Good(x, Plus(ext, a), e, tidy) /\ Adds(m, x, a) /\ x.heap[a].count = 1 /\ x.lost = m.lost
<1>1. Booked(m, ext) /\ Shaped(m)
  BY DEF Good, Sound, Booked
<1>2. a \in Arrays /\ a \notin DOMAIN m.heap
  <2>1. IsFiniteSet(DOMAIN m.heap)
    BY <1>1, ShapedHeap DEF Heap
  <2>2. Room(m, "ByteArray", 1)
    BY Rooms DEF RoomIn
  <2> QED
    BY <2>1, <2>2, FreshIsFree, Kinds
<1>3. PutsArray(m, x, a, m.heap[ref].data) /\ m.heap[ref].data \in 1 .. MaxObjects
  BY <1>1, <1>2, SubsectionPuts
<1>4. Good(x, Plus(ext, a), e, tidy)
  BY <1>2, <1>3, PutArrayGood
<1>5. Adds(m, x, a)
  BY <1>2, <1>3 DEF PutsArray, Adds
<1>6. x.heap[a].count = 1 /\ x.lost = m.lost
  BY <1>3 DEF PutsArray, ArrayOver, NewObject
<1> QED
  BY <1>2, <1>4, <1>5, <1>6

FieldRead(m, x, o, i, a) ==
  /\ a \in Arrays /\ a \notin DOMAIN m.heap /\ AddsTo(m, x, a, o)
  /\ x.heap[o] = WithField(m.heap[o], i, a)

\* Another array at a place that had none: a part being read gets a section.
LEMMA ReadFieldGood ==
  ASSUME NEW m, NEW ext \in Tokens, NEW tidy \in BOOLEAN, NEW o \in DOMAIN m.heap \cap Leaves,
         Good(m, ext, o, tidy), m.heap[o].bytes \in Arrays, RoomIn(m, Arrays, 1),
         NEW i \in 1 .. Len(m.heap[o].fields), m.heap[o].fields[i] = Null,
         NEW a, a = FreshFor(m, "ByteArray"), NEW x, x = ReadField(m, o, i)
  PROVE  Good(x, ext, o, tidy) /\ FieldRead(m, x, o, i, a)
<1> DEFINE y == Subsection(m, a, m.heap[o].bytes)
           s == m.heap[o].fields
           t == [s EXCEPT ![i] = a]
           obj == WithFields(m.heap[o], t)
<1>1. Booked(m, ext) /\ Shaped(m) /\ m.heap[o].bytes \in DOMAIN m.heap \cap Arrays
  <2>1. Booked(m, ext) /\ Shaped(m)
    BY DEF Good, Sound, Booked
  <2> QED
    BY <2>1, PointersAlive, Kinds
<1>2. /\ a \in Arrays /\ a \notin DOMAIN m.heap
      /\ Good(y, Plus(ext, a), o, tidy) /\ Adds(m, y, a) /\ y.lost = m.lost
  <2> HIDE DEF y
  <2>1. o \in {Null} \cup DOMAIN m.heap /\ y = Subsection(m, a, m.heap[o].bytes)
    BY DEF y
  <2> QED
    <3> DEFINE ref == m.heap[o].bytes
    <3>1. ref \in DOMAIN m.heap /\ ref \in Arrays /\ y = Subsection(m, a, ref)
      BY <1>1, <2>1
    <3> HIDE DEF ref
    <3>2. Good(y, Plus(ext, a), o, tidy)
      BY <2>1, <3>1, SectionGood
    <3>3. a \in Arrays /\ a \notin DOMAIN m.heap /\ Adds(m, y, a) /\ y.lost = m.lost
      BY <2>1, <3>1, <3>2, SectionGood
    <3> QED
      BY <3>2, <3>3
<1> HIDE DEF y
<1>3. o \in DOMAIN y.heap /\ y.heap[o] = m.heap[o] /\ Shaped(y) /\ o \in Addresses /\ o \notin Arrays /\ o \notin Parents
  BY <1>2, Kinds DEF Adds, Good, Sound
<1>4. m.heap[o] \in Records /\ LeafOK(m.heap[o])
  BY <1>1, ShapedHeap DEF ObjectOK
<1>5. s \in Seq(Int) /\ s \in Seq(Arrays \cup {Null}) /\ a \in Int /\ Null \in Int /\ s[i] = Null
  BY <1>2, <1>4, Kinds DEF Records, LeafOK, Null
<1>6. t \in Seq(Int) /\ t \in Seq(Arrays \cup {Null}) /\ Len(t) = Len(s)
  <2> HIDE DEF s
  <2> QED
    BY <1>2, <1>5 DEF s
<1>7. x = Rewritten(y, o, obj)
  <2>1. x = [y EXCEPT !.heap[o].fields[i] = a]
    BY DEF ReadField, y
  <2>2. x = Rewritten(y, o, WithFields(y.heap[o], [y.heap[o].fields EXCEPT ![i] = a]))
    BY <2>1 DEF Rewritten, WithFields
  <2> QED
    BY <1>3, <2>2
<1>8. /\ obj \in Records /\ obj.fields = t
      /\ obj.class = m.heap[o].class /\ obj.bytes = m.heap[o].bytes /\ obj.count = m.heap[o].count
      /\ obj.data = m.heap[o].data /\ obj.destroy = m.heap[o].destroy
      /\ \A q : Pointing(obj, q) = Ind(m.heap[o].bytes, q) + Occ(t, q)
      /\ \A q : Pointing(m.heap[o], q) = Ind(m.heap[o].bytes, q) + Occ(s, q)
  <2> HIDE DEF t, s
  <2> QED
    BY <1>4, <1>6, Refielded DEF s
<1>9. Handing(y, x, Plus(ext, a), ext, o, obj)
  <2> HIDE DEF obj
  <2> SUFFICES ASSUME NEW q \in Addresses
               PROVE  Pointing(m.heap[o], q) + y.lost[q] + Plus(ext, a)[q] = Pointing(obj, q) + x.lost[q] + ext[q]
    BY <1>3 DEF Handing
  <2>1. Pointing(obj, q) = Pointing(m.heap[o], q) + Ind(a, q) /\ Pointing(m.heap[o], q) \in Nat /\ Ind(a, q) \in Nat
    BY <1>4, <1>5, PointingChanged DEF obj
  <2>4. Plus(ext, a)[q] = ext[q] + Ind(a, q) /\ ext[q] \in Nat
    BY PlusTokens
  <2>5. x.lost[q] = y.lost[q] /\ y.lost[q] \in Nat
    BY <1>3, <1>7, RewrittenPuts DEF Shaped
  <2> QED
    BY <2>1, <2>4, <2>5
<1> HIDE DEF obj, s, t
<1>10. Puts(y, x, o, obj) /\ x.lost = y.lost
  BY <1>3, <1>7, RewrittenPuts
<1>11. ObjectOK(o, obj)
  BY <1>3, <1>4, <1>6, <1>8 DEF ObjectOK, LeafOK, s
<1>12. Good(x, ext, o, tidy)
  <2>1. x.lost \in [Addresses -> Nat]
    BY <1>3, <1>10 DEF Shaped
  <2> DEFINE all == Plus(ext, a)
  <2>2. all \in Tokens /\ Good(y, all, o, tidy) /\ Handing(y, x, all, ext, o, obj)
    BY <1>2, <1>9, PlusTokens
  <2> HIDE DEF all
  <2> QED
    <3>1. o \in DOMAIN y.heap /\ obj.count = y.heap[o].count /\ obj.data = y.heap[o].data
          /\ obj.bytes = y.heap[o].bytes
      BY <1>3, <1>8
    <3> QED
      BY <1>10, <1>11, <2>1, <2>2, <3>1, RewriteGood
<1>13. AddsTo(m, x, a, o) /\ x.heap[o] = obj
  BY <1>2, <1>3, <1>10 DEF Puts, Adds, AddsTo
<1> QED
  BY <1>2, <1>12, <1>13 DEF obj, t, s, WithField, FieldRead

-----------------------------------------------------------------------------
(* Reading a part *)

\* A part that was not read has none of its arrays.
Empties(class) == IF class = "TransactionInput" THEN <<Null, Null>> ELSE <<Null>>

\* A new part gets bytes that the reader has a section of; both look into it.
LEMMA NewLeafGood ==
  ASSUME NEW m, NEW ext \in Tokens, NEW tidy \in BOOLEAN, NEW data \in Arrays,
         Good(m, Plus(ext, data), Null, tidy), m.heap[data].count = 1,
         NEW part \in Leaves, part \notin DOMAIN m.heap, NEW class \in LeafClasses,
         NEW z, z = NewLeafFromData(m, part, class, data)
  PROVE  /\ Good(z, Plus(Plus(ext, data), part), part, tidy) /\ AddsTo(m, z, part, data)
         /\ z.heap[part] = NewObject(class, data, Empties(class), Null)
<1> DEFINE all == Plus(ext, data)
           w == Increment(m, data)
           obj == NewObject(class, data, Empties(class), Null)
<1>1. z = Created(w, part, class, data, Empties(class))
  BY DEF NewLeafFromData, NewInputFromData, NewOutputFromData, NewVectorFromData, Empties, LeafClasses
<1>2. data \in Addresses /\ data # Null /\ data \in Int /\ data # part /\ part \in Addresses /\ part \notin Arrays
      /\ part \notin Parents
  BY Kinds
<1>3. all \in Tokens /\ all[data] >= 1 /\ Good(m, all, Null, tidy)
  BY <1>2, PlusTokens DEF Ind
<1> HIDE DEF all
<1>4. /\ Good(w, Plus(all, data), Null, tidy)
      /\ Puts(m, w, data, WithCount(m.heap[data], m.heap[data].count + 1))
      /\ data \in DOMAIN m.heap
  BY <1>2, <1>3, IncrementGood
<1> HIDE DEF w
<1>5. DOMAIN w.heap = DOMAIN m.heap /\ (\A q \in DOMAIN m.heap \ {data} : w.heap[q] = m.heap[q])
      /\ w.heap[data] = WithCount(m.heap[data], m.heap[data].count + 1)
  BY <1>4 DEF Puts
<1>6. CountOf(w.heap, data) = 2
  <2>1. m.heap[data] \in Records
    BY <1>3, <1>4, ShapedHeap DEF Good, Sound
  <2> QED
    BY <1>4, <1>5, <2>1, Recounted DEF CountOf
<1>7. Puts(w, z, part, obj) /\ z.lost = w.lost
  <2>1. Shaped(w)
    BY <1>4 DEF Good, Sound
  <2> QED
    BY <1>1, <1>5, <2>1, CreatedPuts
<1>8. Empties(class) \in Seq(Arrays \cup {Null}) /\ Empties(class) \in Seq(Int) /\ Len(Empties(class)) = Arity(class)
      /\ \A q \in Addresses : Occ(Empties(class), q) = 0
  <2>1. Null \in Int /\ <<Null>> \in Seq(Arrays \cup {Null}) /\ <<Null, Null>> \in Seq(Arrays \cup {Null})
        /\ <<Null>> \in Seq(Int) /\ <<Null, Null>> \in Seq(Int)
    BY DEF Null
  <2>2. \A q \in Addresses : Occ(<<Null>>, q) = 0 /\ Occ(<<Null, Null>>, q) = 0
    <3> SUFFICES ASSUME NEW q \in Addresses PROVE Occ(<<Null>>, q) = 0 /\ Occ(<<Null, Null>>, q) = 0
      OBVIOUS
    <3>1. Ind(Null, q) = 0
      BY Kinds DEF Ind
    <3> QED
      BY <2>1, <3>1, OccShort
  <2> QED
    BY <2>1, <2>2 DEF Empties, Arity
<1>9. /\ obj \in Records /\ obj.class = class /\ obj.bytes = data /\ obj.fields = Empties(class)
      /\ obj.count = 1 /\ obj.data = Null /\ obj.destroy
  <2>1. Null \in Int
    BY DEF Null
  <2> QED
    BY <1>2, <1>8, <2>1 DEF NewObject, Records
<1> HIDE DEF obj
<1>10. ObjectOK(part, obj)
  BY <1>2, <1>8, <1>9 DEF ObjectOK, LeafOK
<1>11. \A a \in Addresses : Plus(all, data)[a] = all[a] + Pointing(obj, a)
  <2> SUFFICES ASSUME NEW a \in Addresses PROVE Plus(all, data)[a] = all[a] + Pointing(obj, a)
    OBVIOUS
  <2>1. Pointing(obj, a) = Ind(data, a) + Occ(Empties(class), a)
    BY <1>9 DEF Pointing
  <2> QED
    BY <1>3, <1>8, <2>1, PlusTokens DEF Ind
<1>12. Good(z, Plus(all, part), part, tidy)
  <2> DEFINE more == Plus(all, data)
  <2>1. more \in Tokens /\ Good(w, more, Null, tidy) /\ \A a \in Addresses : more[a] = all[a] + Pointing(obj, a)
    BY <1>3, <1>4, <1>11, PlusTokens
  <2> HIDE DEF more
  <2>2. part \in Leaves \cup Parents /\ part \notin DOMAIN w.heap /\ CountOf(w.heap, obj.bytes) = 2
    BY <1>5, <1>6, <1>9
  <2> QED
    BY <1>3, <1>7, <1>9, <1>10, <2>1, <2>2, PutNewGood
<1>13. AddsTo(m, z, part, data) /\ z.heap[part] = obj
  <2>1. DOMAIN z.heap = DOMAIN m.heap \cup {part} /\ z.heap[part] = obj
        /\ \A q \in DOMAIN m.heap : z.heap[q] = w.heap[q]
    BY <1>5, <1>7 DEF Puts
  <2> QED
    BY <1>5, <2>1 DEF AddsTo
<1> QED
  BY <1>12, <1>13 DEF all, obj

\* At most n arrays came, and of the others only o changed.
Grows(m, x, o, n) ==
  /\ DOMAIN m.heap \subseteq DOMAIN x.heap /\ DOMAIN x.heap \ Arrays = DOMAIN m.heap \ Arrays
  /\ \A q \in DOMAIN m.heap \ {o} : x.heap[q] = m.heap[q]
  /\ Used(m, Arrays) \in Nat /\ Used(x, Arrays) \in Nat /\ Used(x, Arrays) <= Used(m, Arrays) + n

\* One array came.
LEMMA AddedGrows ==
  ASSUME NEW m, NEW x, Shaped(m), NEW a \in Arrays, NEW o, AddsTo(m, x, a, o)
  PROVE  Grows(m, x, o, 1)
<1>1. DOMAIN x.heap = DOMAIN m.heap \cup {a} /\ \A q \in DOMAIN m.heap \ {o} : x.heap[q] = m.heap[q]
  BY DEF AddsTo
<1>2. Used(m, Arrays) \in Nat /\ Used(x, Arrays) \in Nat /\ Used(x, Arrays) <= Used(m, Arrays) + 1
  <2>1. DOMAIN x.heap \subseteq DOMAIN m.heap \cup {a}
    BY <1>1
  <2> QED
    BY <2>1, UsedLeft
<1> QED
  BY <1>1, <1>2 DEF Grows

\* Arrays come and arrays come.
LEMMA GrowsTwice ==
  ASSUME NEW m, NEW x, NEW y, NEW o, NEW k \in Nat, NEW n \in Nat, Grows(m, x, o, k), Grows(x, y, o, n)
  PROVE  Grows(m, y, o, k + n)
<1>1. Used(m, Arrays) \in Nat /\ Used(y, Arrays) \in Nat /\ Used(y, Arrays) <= Used(m, Arrays) + (k + n)
  BY DEF Grows
<1>2. /\ DOMAIN m.heap \subseteq DOMAIN y.heap /\ DOMAIN y.heap \ Arrays = DOMAIN m.heap \ Arrays
      /\ \A q \in DOMAIN m.heap \ {o} : y.heap[q] = m.heap[q]
  BY DEF Grows
<1> QED
  BY <1>1, <1>2 DEF Grows

\* Where there is less there is still room.
LEMMA RoomLeft ==
  ASSUME NEW m, NEW x, NEW o, NEW k \in Nat, NEW n \in Nat, Grows(m, x, o, k), RoomIn(m, Arrays, k + n)
  PROVE  RoomIn(x, Arrays, n)
BY ObjectsAssumption DEF Grows, RoomIn

\* All arrays of a new part become sections of its bytes.
LEMMA ReadLeafGood ==
  ASSUME NEW m, NEW ext \in Tokens, NEW tidy \in BOOLEAN, NEW o \in DOMAIN m.heap \cap Leaves,
         Good(m, ext, o, tidy), m.heap[o].bytes \in Arrays, RoomIn(m, Arrays, 2),
         m.heap[o].fields = Empties(m.heap[o].class), NEW x, x = ReadLeaf(m, o)
  PROVE  /\ Good(x, ext, o, tidy) /\ Grows(m, x, o, 2)
         /\ o \in DOMAIN x.heap /\ TidyObject(x.heap[o]) /\ x.heap[o].bytes = m.heap[o].bytes
<1> DEFINE a == FreshFor(m, "ByteArray")
           y == ReadField(m, o, 1)
           b == FreshFor(y, "ByteArray")
           z == ReadField(y, o, 2)
<1>1. Shaped(m) /\ m.heap[o] \in Records /\ m.heap[o].fields \in Seq(Int) /\ 1 \in 1 .. Len(m.heap[o].fields)
      /\ m.heap[o].fields[1] = Null
  <2>1. Shaped(m) /\ m.heap[o] \in Records
    BY ShapedHeap DEF Good, Sound
  <2>2. m.heap[o].fields \in Seq(Int)
    BY <2>1 DEF Records
  <2> QED
    BY <2>1, <2>2 DEF Empties
<1>2. RoomIn(m, Arrays, 1)
  <2>1. Used(m, Arrays) \in Nat
    BY <1>1, UsedLeft
  <2> QED
    BY <2>1, ObjectsAssumption DEF RoomIn
<1>a. a = FreshFor(m, "ByteArray") /\ y = ReadField(m, o, 1)
  OBVIOUS
<1> HIDE DEF a, y
<1>3. Good(y, ext, o, tidy) /\ FieldRead(m, y, o, 1, a)
  BY <1>a, <1>1, <1>2, ReadFieldGood
<1>4. /\ a \in Arrays /\ a \notin DOMAIN m.heap /\ AddsTo(m, y, a, o)
      /\ y.heap[o] = WithField(m.heap[o], 1, a)
  BY <1>3 DEF FieldRead
<1>5. Grows(m, y, o, 1) /\ o \in DOMAIN y.heap /\ Shaped(y)
  <2>1. o \in DOMAIN y.heap
    BY <1>4 DEF AddsTo
  <2> QED
    BY <1>1, <1>3, <1>4, <2>1, AddedGrows DEF Good, Sound
<1>6. a \in Int /\ a # Null /\ a # Garbage
  BY <1>4, Kinds DEF Null, Garbage
<1>7. /\ y.heap[o].fields = [m.heap[o].fields EXCEPT ![1] = a]
      /\ y.heap[o].class = m.heap[o].class /\ y.heap[o].bytes = m.heap[o].bytes
      /\ y.heap[o] \in Records
  <2> DEFINE t == [m.heap[o].fields EXCEPT ![1] = a]
  <2>1. t \in Seq(Int)
    BY <1>1, <1>6
  <2> HIDE DEF t
  <2>2. y.heap[o] = WithFields(m.heap[o], t)
    BY <1>4 DEF t, WithField
  <2> QED
    BY <1>1, <2>1, <2>2, Refielded DEF t
<1>8. m.heap[o].bytes # Garbage
  BY Kinds DEF Garbage
<1>9. CASE m.heap[o].class # "TransactionInput"
  <2>1. x = y
    BY <1>9 DEF ReadLeaf, y
  <2>2. m.heap[o].fields = <<Null>>
    BY <1>9 DEF Empties
  <2>3. y.heap[o].fields = <<a>>
    BY <1>7, <2>2
  <2>4. TidyObject(y.heap[o])
    BY <1>6, <1>7, <1>8, <2>3 DEF TidyObject
  <2>5. Grows(m, y, o, 2)
    BY <1>5 DEF Grows
  <2> QED
    BY <1>3, <1>5, <1>7, <2>1, <2>4, <2>5
<1>10. CASE m.heap[o].class = "TransactionInput"
  <2>1. x = z
    BY <1>10 DEF ReadLeaf, y
  <2>2. m.heap[o].fields = <<Null, Null>>
    BY <1>10 DEF Empties
  <2>3. y.heap[o].fields = <<a, Null>>
    BY <1>7, <2>2
  <2>4. RoomIn(y, Arrays, 1)
    <3>1. RoomIn(m, Arrays, 1 + 1)
      OBVIOUS
    <3> QED
      BY <1>5, <3>1, RoomLeft
  <2>5. o \in DOMAIN y.heap \cap Leaves /\ y.heap[o].bytes \in Arrays /\ 2 \in 1 .. Len(y.heap[o].fields)
        /\ y.heap[o].fields[2] = Null
    BY <1>5, <1>7, <2>3
  <2>a. b = FreshFor(y, "ByteArray") /\ z = ReadField(y, o, 2)
    OBVIOUS
  <2> HIDE DEF b, z
  <2>6. Good(z, ext, o, tidy) /\ FieldRead(y, z, o, 2, b)
    BY <1>3, <2>a, <2>4, <2>5, ReadFieldGood
  <2>7. /\ b \in Arrays /\ b \notin DOMAIN y.heap /\ AddsTo(y, z, b, o)
        /\ z.heap[o] = WithField(y.heap[o], 2, b)
    BY <2>6 DEF FieldRead
  <2>8. b \in Int /\ b # Null /\ b # Garbage
    BY <2>7, Kinds DEF Null, Garbage
  <2>9. Grows(m, z, o, 2) /\ o \in DOMAIN z.heap
    <3>1. Grows(y, z, o, 1)
      BY <1>5, <2>7, AddedGrows
    <3>2. Grows(m, z, o, 1 + 1)
      BY <1>5, <3>1, GrowsTwice
    <3> QED
      BY <1>5, <2>7, <3>2 DEF AddsTo
  <2>10. <<a, b>> \in Seq(Int) /\ z.heap[o] = WithFields(y.heap[o], <<a, b>>)
    BY <1>6, <2>3, <2>7, <2>8 DEF WithField
  <2>11. z.heap[o].fields = <<a, b>> /\ z.heap[o].class = m.heap[o].class /\ z.heap[o].bytes = m.heap[o].bytes
    <3> DEFINE t == <<a, b>>
    <3>1. t \in Seq(Int) /\ z.heap[o] = WithFields(y.heap[o], t)
      BY <2>10
    <3> HIDE DEF t
    <3>2. z.heap[o].fields = t /\ z.heap[o].class = y.heap[o].class /\ z.heap[o].bytes = y.heap[o].bytes
      BY <1>7, <3>1, Refielded
    <3> QED
      BY <1>7, <3>2 DEF t
  <2>12. TidyObject(z.heap[o])
    BY <1>6, <1>8, <1>10, <2>8, <2>11 DEF TidyObject
  <2> QED
    BY <2>1, <2>6, <2>9, <2>11, <2>12
<1> QED
  BY <1>9, <1>10

-----------------------------------------------------------------------------
(* Reading a message *)

\* The list of parts of a message changes.
Refields(m, x, p, s) == Puts(m, x, p, WithFields(m.heap[p], s)) /\ x.lost \in [Addresses -> Nat]

\* What the lists and the lost references have more, the others have less.
HandingParts(m, x, ext, new, p, s) ==
  \A a \in Addresses : Occ(m.heap[p].fields, a) + m.lost[a] + ext[a] = Occ(s, a) + x.lost[a] + new[a]

\* The same number added on both sides.
LEMMA AddedToBoth ==
  ASSUME NEW i \in Nat, NEW a \in Nat, NEW b \in Nat, NEW c \in Nat, NEW u \in Nat, NEW v \in Nat, NEW w \in Nat,
         a + b + c = u + v + w
  PROVE  (i + a) + b + c = (i + u) + v + w
OBVIOUS

\* The list of a message takes tokens of parts, or gives them.
LEMMA RefieldGood ==
  ASSUME NEW m, NEW x, NEW ext \in Tokens, NEW new \in Tokens, NEW tidy \in BOOLEAN,
         Good(m, ext, Null, tidy), NEW p \in DOMAIN m.heap \cap Parents, NEW s \in Seq(Leaves \cup {Garbage}),
         Refields(m, x, p, s), HandingParts(m, x, ext, new, p, s),
         tidy => \A i \in 1 .. Len(s) : s[i] # Garbage
  PROVE  Good(x, new, Null, tidy)
<1> DEFINE obj == WithFields(m.heap[p], s)
<1>1. Shaped(m) /\ m.heap[p] \in Records /\ ParentOK(m.heap[p]) /\ p \in Addresses /\ p \notin Arrays /\ p \notin Leaves
  <2>1. Shaped(m) /\ p \in Addresses /\ p \notin Arrays /\ p \notin Leaves
    BY Kinds DEF Good, Sound
  <2> QED
    BY <2>1, ShapedHeap DEF ObjectOK
<1>2. s \in Seq(Int)
  <2>1. Leaves \cup {Garbage} \subseteq Int
    BY Kinds DEF Garbage
  <2> QED
    BY <2>1
<1>3. /\ obj \in Records /\ obj.fields = s
      /\ obj.class = m.heap[p].class /\ obj.bytes = m.heap[p].bytes /\ obj.count = m.heap[p].count
      /\ obj.data = m.heap[p].data /\ obj.destroy = m.heap[p].destroy
      /\ \A o : Pointing(obj, o) = Ind(m.heap[p].bytes, o) + Occ(s, o)
      /\ \A o : Pointing(m.heap[p], o) = Ind(m.heap[p].bytes, o) + Occ(m.heap[p].fields, o)
  BY <1>1, <1>2, Refielded
<1>4. Handing(m, x, ext, new, p, obj)
  <2> HIDE DEF obj
  <2> SUFFICES ASSUME NEW a \in Addresses
               PROVE  Pointing(m.heap[p], a) + m.lost[a] + ext[a] = Pointing(obj, a) + x.lost[a] + new[a]
    BY DEF Handing
  <2>1. Occ(m.heap[p].fields, a) + m.lost[a] + ext[a] = Occ(s, a) + x.lost[a] + new[a]
    BY DEF HandingParts
  <2>2. Occ(m.heap[p].fields, a) \in Nat /\ Occ(s, a) \in Nat /\ Ind(m.heap[p].bytes, a) \in Nat
    <3>1. m.heap[p].fields \in Seq(Int)
      BY <1>1 DEF Records
    <3> QED
      BY <1>2, <3>1, PlacesFinite DEF Ind
  <2>3. m.lost[a] \in Nat /\ x.lost[a] \in Nat /\ ext[a] \in Nat /\ new[a] \in Nat
    BY <1>1 DEF Shaped, Tokens, Refields
  <2>4. /\ Pointing(obj, a) = Ind(m.heap[p].bytes, a) + Occ(s, a)
        /\ Pointing(m.heap[p], a) = Ind(m.heap[p].bytes, a) + Occ(m.heap[p].fields, a)
    BY <1>3
  <2>5. (Ind(m.heap[p].bytes, a) + Occ(m.heap[p].fields, a)) + m.lost[a] + ext[a]
          = (Ind(m.heap[p].bytes, a) + Occ(s, a)) + x.lost[a] + new[a]
    <3> DEFINE i == Ind(m.heap[p].bytes, a)
               u == Occ(m.heap[p].fields, a)
               v == Occ(s, a)
               b == m.lost[a]
               c == ext[a]
               d == x.lost[a]
               e == new[a]
    <3>1. i \in Nat /\ u \in Nat /\ v \in Nat /\ b \in Nat /\ c \in Nat /\ d \in Nat /\ e \in Nat
      BY <2>2, <2>3
    <3>2. u + b + c = v + d + e
      BY <2>1
    <3> HIDE DEF i, u, v, b, c, d, e
    <3>3. (i + u) + b + c = (i + v) + d + e
      BY <3>1, <3>2, AddedToBoth
    <3> QED
      BY <3>3 DEF i, u, v, b, c, d, e
  <2> QED
    BY <2>4, <2>5
<1>5. Puts(m, x, p, obj) /\ x.lost \in [Addresses -> Nat]
  BY DEF Refields
<1> HIDE DEF obj
<1>6. ObjectOK(p, obj)
  BY <1>1, <1>3 DEF ObjectOK, ParentOK
<1>7. tidy => TidyObject(obj)
  <2>1. obj.bytes # Garbage /\ obj.class # "InventoryVector"
    BY <1>1, <1>3, Kinds DEF ParentOK, ParentClasses, Garbage
  <2> QED
    BY <1>3, <2>1 DEF TidyObject
<1> QED
  BY <1>1, <1>3, <1>4, <1>5, <1>6, <1>7, RewriteGood

\* What changed is a list of parts.
LEMMA RefieldsIs ==
  ASSUME NEW m, Shaped(m), NEW p \in DOMAIN m.heap, NEW s, NEW x, x = [m EXCEPT !.heap[p].fields = s]
  PROVE  Refields(m, x, p, s) /\ x.lost = m.lost
<1>1. x = Rewritten(m, p, WithFields(m.heap[p], s))
  BY DEF Rewritten, WithFields
<1>2. Puts(m, x, p, WithFields(m.heap[p], s)) /\ x.lost = m.lost
  BY <1>1, RewrittenPuts
<1> QED
  BY <1>2 DEF Refields, Shaped

SameBut(m, x, p, s) ==
  /\ DOMAIN x.heap = DOMAIN m.heap /\ \A q \in DOMAIN m.heap \ {p} : x.heap[q] = m.heap[q]
  /\ x.heap[p].fields = s /\ x.heap[p].bytes = m.heap[p].bytes /\ x.heap[p].class = m.heap[p].class
  /\ \A A : Used(x, A) = Used(m, A)

\* The list of the message p is another one and its bytes are the same.
LEMMA RefieldsKeeps ==
  ASSUME NEW m, Shaped(m), NEW p \in DOMAIN m.heap, NEW s \in Seq(Int), NEW x, Refields(m, x, p, s)
  PROVE  SameBut(m, x, p, s)
<1>1. m.heap[p] \in Records
  BY ShapedHeap
<1>2. DOMAIN x.heap = DOMAIN m.heap /\ x.heap[p] = WithFields(m.heap[p], s)
      /\ \A q \in DOMAIN m.heap \ {p} : x.heap[q] = m.heap[q]
  BY DEF Refields, Puts
<1>3. x.heap[p].fields = s /\ x.heap[p].bytes = m.heap[p].bytes /\ x.heap[p].class = m.heap[p].class
  BY <1>1, <1>2, Refielded
<1>4. \A A : Used(x, A) = Used(m, A)
  BY <1>2 DEF Used
<1> QED
  BY <1>2, <1>3, <1>4 DEF SameBut

\* A part was made for the message p, and who reads it has a section of the bytes.
PartStarted(m, z, p, class, data, part) ==
  /\ data \in Arrays /\ part \in Leaves /\ {p, part, data} \subseteq DOMAIN z.heap
  /\ z.heap[p] = m.heap[p] /\ z.heap[part] = NewObject(class, data, Empties(class), Null)
  /\ Used(m, Arrays) \in Nat /\ Used(z, Arrays) \in Nat /\ Used(z, Arrays) <= Used(m, Arrays) + 1
  /\ Used(m, Leaves) \in Nat /\ Used(z, Leaves) \in Nat /\ Used(z, Leaves) <= Used(m, Leaves) + 1

\* The order of tokens does not matter.
LEMMA PlusCommutes ==
  ASSUME NEW ext \in Tokens, NEW a, NEW b
  PROVE  Plus(Plus(ext, a), b) = Plus(Plus(ext, b), a)
<1>1. \A q \in Addresses : Plus(Plus(ext, a), b)[q] = Plus(Plus(ext, b), a)[q]
  <2> SUFFICES ASSUME NEW q \in Addresses PROVE Plus(Plus(ext, a), b)[q] = Plus(Plus(ext, b), a)[q]
    OBVIOUS
  <2>1. /\ Plus(Plus(ext, a), b)[q] = ext[q] + Ind(a, q) + Ind(b, q)
        /\ Plus(Plus(ext, b), a)[q] = ext[q] + Ind(b, q) + Ind(a, q)
    BY DEF Plus
  <2>2. ext[q] \in Nat /\ Ind(a, q) \in Nat /\ Ind(b, q) \in Nat
    BY DEF Tokens, Ind
  <2> QED
    BY <2>1, <2>2
<1> QED
  BY <1>1, Zenon DEF Plus

\* A part is made of a section of the message's bytes.
LEMMA StartPartGood ==
  ASSUME NEW m, NEW ext \in Tokens, NEW tidy \in BOOLEAN, Good(m, ext, Null, tidy),
         NEW p \in DOMAIN m.heap \cap Parents, m.heap[p].bytes # Null, NEW class \in LeafClasses,
         RoomIn(m, Arrays, 1), RoomIn(m, Leaves, 1),
         NEW data, data = FreshFor(m, "ByteArray"),
         NEW x, x = Subsection(m, data, m.heap[p].bytes),
         NEW part, part = FreshFor(x, class),
         NEW z, z = NewLeafFromData(x, part, class, data)
  PROVE  Good(z, Plus(Plus(ext, part), data), part, tidy) /\ PartStarted(m, z, p, class, data, part)
<1> DEFINE ref == m.heap[p].bytes
<1>1. Booked(m, ext) /\ Shaped(m) /\ p \in Addresses /\ p \notin Arrays /\ p \notin Leaves /\ p # Null
  BY Kinds DEF Good, Sound, Booked
<1>2. ref \in DOMAIN m.heap /\ ref \in Arrays
  <2>1. ref \in Arrays
    BY <1>1, ShapedHeap DEF ObjectOK, ParentOK
  <2> QED
    BY <1>1, <2>1, PointersAlive, Kinds
<1>3. x = Subsection(m, data, ref)
  OBVIOUS
<1> HIDE DEF ref
<1>4. Good(x, Plus(ext, data), Null, tidy)
  BY <1>2, <1>3, SectionGood
<1>5. data \in Arrays /\ data \notin DOMAIN m.heap /\ Adds(m, x, data) /\ x.heap[data].count = 1
  BY <1>2, <1>3, <1>4, SectionGood
<1>6. Shaped(x) /\ DOMAIN x.heap = DOMAIN m.heap \cup {data} /\ data \notin Leaves
  BY <1>4, <1>5, Kinds DEF Good, Sound, Adds
<1>7. /\ Used(m, Arrays) \in Nat /\ Used(x, Arrays) \in Nat /\ Used(x, Arrays) <= Used(m, Arrays) + 1
      /\ Used(m, Leaves) \in Nat /\ Used(x, Leaves) \in Nat /\ Used(x, Leaves) <= Used(m, Leaves)
  <2>1. DOMAIN x.heap \subseteq DOMAIN m.heap \cup {data}
    BY <1>6
  <2> QED
    BY <1>1, <1>6, <2>1, UsedLeft
<1>8. part \in Leaves /\ part \notin DOMAIN x.heap
  <2>1. Room(x, class, 1)
    <3>1. Used(x, Leaves) + 1 <= MaxObjects
      BY <1>7, ObjectsAssumption DEF RoomIn
    <3> QED
      BY <3>1, Rooms
  <2>2. IsFiniteSet(DOMAIN x.heap)
    BY <1>6, ShapedHeap DEF Heap
  <2>3. FreshFor(x, class) \in AddressesOf(class) \ DOMAIN x.heap
    BY <2>1, <2>2, FreshIsFree
  <2> QED
    BY <2>3, Kinds
<1>9. /\ Good(z, Plus(Plus(ext, data), part), part, tidy) /\ AddsTo(x, z, part, data)
      /\ z.heap[part] = NewObject(class, data, Empties(class), Null)
  BY <1>4, <1>5, <1>8, NewLeafGood
<1>10. Good(z, Plus(Plus(ext, part), data), part, tidy)
  BY <1>9, PlusCommutes
<1>11. DOMAIN z.heap = DOMAIN x.heap \cup {part} /\ \A q \in DOMAIN x.heap \ {data} : z.heap[q] = x.heap[q]
  BY <1>9 DEF AddsTo
<1>12. {p, part, data} \subseteq DOMAIN z.heap /\ z.heap[p] = m.heap[p]
  <2>1. p # data /\ p \in DOMAIN x.heap /\ x.heap[p] = m.heap[p]
    BY <1>1, <1>5, <1>6 DEF Adds
  <2> QED
    BY <1>6, <1>11, <2>1
<1>13. /\ Used(z, Arrays) \in Nat /\ Used(z, Arrays) <= Used(x, Arrays)
       /\ Used(z, Leaves) \in Nat /\ Used(z, Leaves) <= Used(x, Leaves) + 1
  <2>1. DOMAIN z.heap \subseteq DOMAIN x.heap \cup {part} /\ part \notin Arrays
    BY <1>8, <1>11, Kinds
  <2> QED
    BY <1>6, <2>1, UsedLeft
<1>14. Used(z, Arrays) <= Used(m, Arrays) + 1 /\ Used(z, Leaves) <= Used(m, Leaves) + 1
  BY <1>7, <1>13
<1> QED
  BY <1>5, <1>7, <1>8, <1>9, <1>10, <1>12, <1>13, <1>14 DEF PartStarted

\* At most n parts came, with three arrays each; the message p has its bytes.
Reads(m, x, p, n) ==
  /\ p \in DOMAIN x.heap /\ x.heap[p].bytes = m.heap[p].bytes
  /\ Used(m, Arrays) \in Nat /\ Used(x, Arrays) \in Nat /\ Used(x, Arrays) <= Used(m, Arrays) + 3 * n
  /\ Used(m, Leaves) \in Nat /\ Used(x, Leaves) \in Nat /\ Used(x, Leaves) <= Used(m, Leaves) + n

\* What n parts and one more take: three arrays and a part for each.
LEMMA ReadsAddUp ==
  ASSUME NEW a \in Nat, NEW b \in Nat, NEW n \in Nat
  PROVE  /\ b <= a + 3 * n => \A most \in Nat : a + 3 * (n + 1) <= most => b + 3 <= most
         /\ b <= a + n => \A most \in Nat : a + (n + 1) <= most => b + 1 <= most
         /\ b <= a + 3 * n => \A c \in Nat : c <= b + 3 * 1 => c <= a + 3 * (n + 1)
         /\ b <= a + n => \A c \in Nat : c <= b + 1 => c <= a + (n + 1)
OBVIOUS

\* One more part is read and joins the list of the message.
LEMMA ReadPartGood ==
  ASSUME NEW m, NEW ext \in Tokens, NEW tidy \in BOOLEAN, Good(m, ext, Null, tidy),
         NEW p \in DOMAIN m.heap \cap Parents, m.heap[p].bytes # Null, NEW class \in LeafClasses,
         RoomIn(m, Arrays, 3), RoomIn(m, Leaves, 1), NEW x, x = ReadPart(m, p, class)
  PROVE  Good(x, ext, Null, tidy) /\ Reads(m, x, p, 1)
<1> DEFINE data == FreshFor(m, "ByteArray")
           w == Subsection(m, data, m.heap[p].bytes)
           part == FreshFor(w, class)
           z == NewLeafFromData(w, part, class, data)
           l == ReadLeaf(z, part)
           y == LowerArray(l, data)
           s == Append(m.heap[p].fields, part)
<1>1. data = FreshFor(m, "ByteArray") /\ w = Subsection(m, data, m.heap[p].bytes)
      /\ part = FreshFor(w, class) /\ z = NewLeafFromData(w, part, class, data)
  OBVIOUS
<1>2. l = ReadLeaf(z, part)
  OBVIOUS
<1>3. x = [y EXCEPT !.heap[p].fields = Append(@, part)]
  BY DEF ReadPart
<1> HIDE DEF data, w, part, z, l
<1>4. Good(z, Plus(Plus(ext, part), data), part, tidy) /\ PartStarted(m, z, p, class, data, part)
  <2>1. RoomIn(m, Arrays, 1)
    <3>1. Used(m, Arrays) \in Nat
      BY UsedLeft DEF Good, Sound
    <3> QED
      BY <3>1, ObjectsAssumption DEF RoomIn
  <2> QED
    BY <1>1, <2>1, StartPartGood
<1>5. /\ data \in Arrays /\ part \in Leaves /\ {p, part, data} \subseteq DOMAIN z.heap
      /\ z.heap[p] = m.heap[p] /\ z.heap[part] = NewObject(class, data, Empties(class), Null)
      /\ Used(m, Arrays) \in Nat /\ Used(z, Arrays) \in Nat /\ Used(z, Arrays) <= Used(m, Arrays) + 1
      /\ Used(m, Leaves) \in Nat /\ Used(z, Leaves) \in Nat /\ Used(z, Leaves) <= Used(m, Leaves) + 1
  BY <1>4 DEF PartStarted
<1> DEFINE all == Plus(ext, part)
           more == Plus(all, data)
<1>6. all \in Tokens /\ more \in Tokens /\ more = Plus(all, data) /\ Good(z, more, part, tidy)
  BY <1>4, PlusTokens
<1> HIDE DEF more
<1>7. part \in Int /\ part # Null /\ part # Garbage /\ part \notin Arrays /\ part \notin Parents /\ part # p
      /\ part \in Addresses /\ p \notin Arrays /\ data # p
  BY <1>5, Kinds DEF Null, Garbage
<1> HIDE DEF all
<1>8. Good(l, more, part, tidy) /\ Grows(z, l, part, 2)
      /\ part \in DOMAIN l.heap /\ TidyObject(l.heap[part]) /\ l.heap[part].bytes = z.heap[part].bytes
  <2>1. z.heap[part].bytes = data /\ z.heap[part].fields = Empties(z.heap[part].class)
    BY <1>5 DEF NewObject
  <2>2. RoomIn(z, Arrays, 2)
    BY <1>5, ObjectsAssumption DEF RoomIn
  <2>3. part \in DOMAIN z.heap \cap Leaves /\ z.heap[part].bytes \in Arrays
    BY <1>5, <2>1
  <2>4. Good(l, more, part, tidy)
    BY <1>2, <1>6, <2>1, <2>2, <2>3, ReadLeafGood
  <2> QED
    BY <1>2, <1>6, <2>1, <2>2, <2>3, <2>4, ReadLeafGood
<1>9. Good(y, all, Null, tidy) /\ SameMessages(l, y) /\ DOMAIN y.heap \subseteq DOMAIN l.heap
  <2>1. part \in {Null} \cup (DOMAIN l.heap \cap Leaves) /\ l.heap[part].bytes = data
    BY <1>5, <1>8 DEF NewObject
  <2>2. Good(l, Plus(all, data), part, tidy)
    BY <1>6, <1>8
  <2>3. Good(LowerArray(l, data), all, Null, tidy)
    BY <1>5, <1>6, <1>8, <2>1, <2>2, LowerArrayGood
  <2>4. SameMessages(l, LowerArray(l, data))
    BY <1>5, <1>6, <1>8, <2>1, <2>2, LowerArrayGood
  <2>5. DOMAIN LowerArray(l, data).heap \subseteq DOMAIN l.heap
    BY <1>5, <1>6, <1>8, <2>1, <2>2, LowerArrayGood
  <2> QED
    BY <2>3, <2>4, <2>5
<1> HIDE DEF y
<1>10. p \in DOMAIN y.heap /\ y.heap[p] = m.heap[p]
  <2>1. p \in DOMAIN l.heap /\ l.heap[p] = z.heap[p]
    BY <1>5, <1>7, <1>8 DEF Grows
  <2> QED
    BY <1>5, <1>7, <1>9, <2>1 DEF SameMessages
<1>11. Shaped(y) /\ m.heap[p].fields \in Seq(Leaves \cup {Garbage}) /\ m.heap[p].fields \in Seq(Int)
       /\ m.heap[p].bytes \in Int
  <2>1. Shaped(y) /\ Shaped(m) /\ p \in Addresses
    BY <1>9, Kinds DEF Good, Sound
  <2> QED
    BY <2>1, ShapedHeap DEF ObjectOK, ParentOK, Records
<1>12. s \in Seq(Leaves \cup {Garbage}) /\ s \in Seq(Int)
       /\ \A a \in Addresses : Occ(s, a) = Occ(m.heap[p].fields, a) + Ind(part, a) /\ Occ(m.heap[p].fields, a) \in Nat
  <2>1. s \in Seq(Leaves \cup {Garbage}) /\ s \in Seq(Int)
    BY <1>5, <1>7, <1>11
  <2> QED
    BY <1>7, <1>11, <2>1, OccAppend, PlacesFinite
<1>13. Refields(y, x, p, s) /\ x.lost = y.lost
  <2>1. x = [y EXCEPT !.heap[p].fields = s]
    BY <1>3, <1>10
  <2> HIDE DEF s
  <2> QED
    BY <1>10, <1>11, <2>1, RefieldsIs
<1>14. HandingParts(y, x, all, ext, p, s)
  <2> HIDE DEF s
  <2> SUFFICES ASSUME NEW a \in Addresses
               PROVE  Occ(y.heap[p].fields, a) + y.lost[a] + all[a] = Occ(s, a) + x.lost[a] + ext[a]
    BY DEF HandingParts
  <2>1. all[a] = ext[a] + Ind(part, a) /\ ext[a] \in Nat /\ Ind(part, a) \in Nat
    BY PlusTokens DEF all, Ind
  <2>2. x.lost[a] = y.lost[a] /\ y.lost[a] \in Nat
    BY <1>11, <1>13 DEF Shaped
  <2>3. Occ(y.heap[p].fields, a) = Occ(m.heap[p].fields, a) /\ Occ(m.heap[p].fields, a) \in Nat
        /\ Occ(s, a) = Occ(m.heap[p].fields, a) + Ind(part, a)
    BY <1>10, <1>12
  <2> QED
    BY <2>1, <2>2, <2>3
<1>15. tidy => \A i \in 1 .. Len(s) : s[i] # Garbage
  <2> SUFFICES ASSUME tidy, NEW i \in 1 .. Len(s) PROVE s[i] # Garbage
    OBVIOUS
  <2>1. TidyObject(m.heap[p])
    BY <1>7, Kinds DEF Good, Tidy
  <2>2. s[i] = part \/ (i \in 1 .. Len(m.heap[p].fields) /\ s[i] = m.heap[p].fields[i])
    BY <1>7, <1>11
  <2> QED
    BY <1>7, <2>1, <2>2 DEF TidyObject
<1>16. Good(x, ext, Null, tidy)
  <2> HIDE DEF s
  <2>1. p \in DOMAIN y.heap \cap Parents
    BY <1>10
  <2> QED
    BY <1>6, <1>9, <1>12, <1>13, <1>14, <1>15, <2>1, RefieldGood
<1>17. Reads(m, x, p, 1)
  <2> HIDE DEF s
  <2>1. DOMAIN x.heap = DOMAIN y.heap /\ x.heap[p].bytes = y.heap[p].bytes /\ \A A : Used(x, A) = Used(y, A)
    <3>1. SameBut(y, x, p, s)
      BY <1>10, <1>11, <1>12, <1>13, RefieldsKeeps
    <3> QED
      BY <3>1 DEF SameBut
  <2>2. Used(y, Arrays) \in Nat /\ Used(y, Arrays) <= Used(l, Arrays)
        /\ Used(y, Leaves) \in Nat /\ Used(y, Leaves) <= Used(l, Leaves) /\ Used(l, Leaves) \in Nat
    <3>1. Shaped(l)
      BY <1>8 DEF Good, Sound
    <3>2. DOMAIN y.heap \subseteq DOMAIN l.heap \cup {p} /\ p \in DOMAIN l.heap
      BY <1>9, <1>10
    <3> QED
      BY <3>1, <3>2, UsedLeft
  <2>3. Used(l, Arrays) \in Nat /\ Used(l, Arrays) <= Used(z, Arrays) + 2
    BY <1>8 DEF Grows
  <2>4. Used(l, Leaves) = Used(z, Leaves)
    <3>1. DOMAIN l.heap \cap Leaves = DOMAIN z.heap \cap Leaves
      BY <1>8, Kinds DEF Grows
    <3> QED
      BY <3>1 DEF Used
  <2>5. Used(x, Arrays) \in Nat /\ Used(x, Arrays) <= Used(m, Arrays) + 3 * 1
    BY <1>5, <2>1, <2>2, <2>3
  <2>6. Used(x, Leaves) \in Nat /\ Used(x, Leaves) <= Used(m, Leaves) + 1
    BY <1>5, <2>1, <2>2, <2>4
  <2> QED
    BY <1>5, <1>10, <2>1, <2>5, <2>6 DEF Reads
<1> QED
  BY <1>16, <1>17

Appends(t, s, e) == t = Append(s, e)

\* What is done for each of the elements is done for the last one last.
LEMMA EachAppend ==
  ASSUME NEW p, NEW S, NEW s \in Seq(S), NEW e \in S, NEW t, t = Append(s, e)
  PROVE  /\ Each(p, s) \in Seq({p} \X S) /\ <<p, e>> \in {p} \X S
         /\ Appends(Each(p, t), Each(p, s), <<p, e>>)
<1>1. Each(p, s) \in Seq({p} \X S) /\ Len(Each(p, s)) = Len(s)
  BY DEF Each
<1>2. <<p, e>> \in {p} \X S
  OBVIOUS
<1>3. t \in Seq(S) /\ Len(t) = Len(s) + 1 /\ t[Len(s) + 1] = e /\ \A i \in 1 .. Len(s) : t[i] = s[i]
  OBVIOUS
<1>4. Each(p, t) \in Seq({p} \X S) /\ Len(Each(p, t)) = Len(s) + 1
  BY <1>3 DEF Each
<1>5. /\ \A i \in 1 .. Len(s) : Each(p, t)[i] = Each(p, s)[i]
      /\ Each(p, t)[Len(s) + 1] = <<p, e>>
  <2>1. DOMAIN t = 1 .. Len(s) + 1 /\ DOMAIN s = 1 .. Len(s) /\ Len(s) \in Nat
    BY <1>3
  <2>2. ASSUME NEW i \in 1 .. Len(s) PROVE Each(p, t)[i] = <<p, t[i]>> /\ Each(p, s)[i] = <<p, s[i]>>
    BY <2>1 DEF Each
  <2>3. Each(p, t)[Len(s) + 1] = <<p, t[Len(s) + 1]>>
    BY <2>1 DEF Each
  <2> QED
    BY <1>3, <2>2, <2>3
<1>6. Each(p, t) = Append(Each(p, s), <<p, e>>)
  <2> DEFINE a == Each(p, t)
             b == Each(p, s)
             f == <<p, e>>
  <2>1. /\ a \in Seq({p} \X S) /\ b \in Seq({p} \X S) /\ f \in {p} \X S
        /\ Len(b) = Len(s) /\ Len(a) = Len(b) + 1
        /\ (\A i \in 1 .. Len(b) : a[i] = b[i]) /\ a[Len(b) + 1] = f
    BY <1>1, <1>2, <1>4, <1>5
  <2> HIDE DEF a, b, f
  <2>2. a = Append(b, f)
    BY <2>1
  <2> QED
    BY <2>2 DEF a, b, f
<1> QED
  BY <1>1, <1>2, <1>6 DEF Appends

\* Nothing for no element.
LEMMA EachEmpty ==
  ASSUME NEW p
  PROVE  Each(p, <<>>) = <<>>
BY DEF Each

\* A message reads any number of parts.
LEMMA ReadPartsGood ==
  ASSUME NEW m, NEW ext \in Tokens, NEW tidy \in BOOLEAN, Good(m, ext, Null, tidy),
         NEW p \in DOMAIN m.heap \cap Parents, m.heap[p].bytes # Null, NEW cs \in Seq(LeafClasses),
         RoomIn(m, Arrays, 3 * Len(cs)), RoomIn(m, Leaves, Len(cs)),
         NEW x, x = FoldLeft(ReadNext, m, Each(p, cs))
  PROVE  Good(x, ext, Null, tidy) /\ Reads(m, x, p, Len(cs))
<1> DEFINE After(s) == Reading!Fold(m, Each(p, s))
           Done(s) == Good(After(s), ext, Null, tidy) /\ Reads(m, After(s), p, Len(s))
           T == {n \in Nat : \A s \in Seq(LeafClasses) :
                   Len(s) = n /\ RoomIn(m, Arrays, 3 * n) /\ RoomIn(m, Leaves, n) => Done(s)}
<1>1. Shaped(m) /\ Used(m, Arrays) \in Nat /\ Used(m, Leaves) \in Nat /\ MaxObjects \in Nat
  BY UsedLeft, ObjectsAssumption DEF Good, Sound
<1>2. 0 \in T
  <2> SUFFICES ASSUME NEW s \in Seq(LeafClasses), Len(s) = 0 PROVE Done(s)
    OBVIOUS
  <2>1. s = <<>>
    OBVIOUS
  <2>2. After(s) = m
    BY <2>1, EachEmpty, Reading!FoldEmpty
  <2>3. Reads(m, m, p, Len(s))
    BY <1>1 DEF Reads
  <2> HIDE DEF After
  <2> QED
    BY <2>2, <2>3
<1>3. ASSUME NEW n \in T PROVE n + 1 \in T
  <2> SUFFICES ASSUME NEW s \in Seq(LeafClasses), Len(s) = n + 1,
                      RoomIn(m, Arrays, 3 * (n + 1)), RoomIn(m, Leaves, n + 1)
               PROVE  Done(s)
    OBVIOUS
  <2> DEFINE q == SubSeq(s, 1, n)
             c == s[n + 1]
  <2>1. q \in Seq(LeafClasses) /\ Len(q) = n /\ c \in LeafClasses /\ s = Append(q, c)
    OBVIOUS
  <2>2. n \in Nat
    OBVIOUS
  <2> HIDE DEF q, c
  <2>3. RoomIn(m, Arrays, 3 * n) /\ RoomIn(m, Leaves, n)
    BY <1>1, <2>2 DEF RoomIn
  <2>4. Done(q)
    <3> HIDE DEF Done
    <3> QED
      BY <2>1, <2>3
  <2> DEFINE y == After(q)
             z == ReadPart(y, p, c)
  <2>5. Good(y, ext, Null, tidy) /\ Reads(m, y, p, n)
    BY <2>1, <2>4
  <2>6. After(s) = z
    <3>a. Each(p, q) \in Seq({p} \X LeafClasses) /\ <<p, c>> \in {p} \X LeafClasses
      BY <2>1, EachAppend
    <3>b. Appends(Each(p, s), Each(p, q), <<p, c>>)
      BY <2>1, EachAppend
    <3>1. /\ Each(p, q) \in Seq({p} \X LeafClasses) /\ <<p, c>> \in {p} \X LeafClasses
          /\ Each(p, s) = Append(Each(p, q), <<p, c>>)
      BY <3>a, <3>b DEF Appends
    <3>2. After(s) = ReadNext(y, <<p, c>>)
      BY <3>1, Reading!FoldAppend
    <3> HIDE DEF After
    <3> QED
      BY <3>2 DEF ReadNext
  <2> HIDE DEF y
  <2>7. /\ p \in DOMAIN y.heap /\ y.heap[p].bytes = m.heap[p].bytes
        /\ Used(y, Arrays) \in Nat /\ Used(y, Arrays) <= Used(m, Arrays) + 3 * n
        /\ Used(y, Leaves) \in Nat /\ Used(y, Leaves) <= Used(m, Leaves) + n
    BY <2>5 DEF Reads
  <2>8. RoomIn(y, Arrays, 3) /\ RoomIn(y, Leaves, 1)
    <3>1. Used(m, Arrays) + 3 * (n + 1) <= MaxObjects /\ Used(m, Leaves) + (n + 1) <= MaxObjects
      BY DEF RoomIn
    <3>2. Used(m, Arrays) \in Nat /\ Used(m, Leaves) \in Nat /\ MaxObjects \in Nat
      BY <1>1, ObjectsAssumption
    <3>3. Used(y, Arrays) + 3 <= MaxObjects /\ Used(y, Leaves) + 1 <= MaxObjects
      BY <2>2, <2>7, <3>1, <3>2, ReadsAddUp
    <3> QED
      BY <3>3 DEF RoomIn
  <2>9. p \in DOMAIN y.heap \cap Parents /\ y.heap[p].bytes # Null /\ z = ReadPart(y, p, c)
    BY <2>7
  <2> HIDE DEF z, T
  <2>10. Good(z, ext, Null, tidy) /\ Reads(y, z, p, 1)
    BY <2>1, <2>5, <2>8, <2>9, ReadPartGood
  <2>11. Reads(m, z, p, Len(s))
    <3>1. /\ p \in DOMAIN z.heap /\ z.heap[p].bytes = y.heap[p].bytes
          /\ Used(z, Arrays) \in Nat /\ Used(z, Arrays) <= Used(y, Arrays) + 3 * 1
          /\ Used(z, Leaves) \in Nat /\ Used(z, Leaves) <= Used(y, Leaves) + 1
      BY <2>10 DEF Reads
    <3>2. Used(z, Arrays) <= Used(m, Arrays) + 3 * (n + 1)
      BY <1>1, <2>2, <2>7, <3>1, ReadsAddUp
    <3>3. Used(z, Leaves) <= Used(m, Leaves) + (n + 1)
      BY <1>1, <2>2, <2>7, <3>1, ReadsAddUp
    <3> QED
      BY <1>1, <2>7, <3>1, <3>2, <3>3 DEF Reads
  <2> HIDE DEF After
  <2> QED
    BY <2>6, <2>10, <2>11
<1> HIDE DEF Done
<1>4. T = Nat
  <2>1. T \subseteq Nat
    OBVIOUS
  <2> HIDE DEF T
  <2> QED
    BY <1>2, <1>3, <2>1, Lowering!SetInduction
<1>5. Done(cs)
  <2>1. Len(cs) \in T
    BY <1>4
  <2> QED
    BY <2>1
<1>6. x = After(cs)
  BY FoldsAre
<1> HIDE DEF After
<1> QED
  BY <1>5, <1>6 DEF Done

\* A reference to the part k is lost, and the message p has the list s.
Loses(m, p, s, k) == [m EXCEPT !.lost[k] = @ + 1, !.heap[p].fields = s]

\* Counting a lost reference and rewriting the list of a message.
LEMMA LosesIs ==
  ASSUME NEW m, Shaped(m), NEW p \in DOMAIN m.heap, NEW s, NEW k \in Addresses,
         NEW x, x = Loses(m, p, s, k)
  PROVE  /\ Refields(m, x, p, s)
         /\ \A a \in Addresses : x.lost[a] = m.lost[a] + Ind(k, a) /\ m.lost[a] \in Nat
<1> DEFINE h == [m.heap EXCEPT ![p] = WithFields(m.heap[p], s)]
           g == [m.lost EXCEPT ![k] = @ + 1]
<1>1. IsMemory(m) /\ m.heap = [q \in DOMAIN m.heap |-> m.heap[q]] /\ m.lost \in [Addresses -> Nat]
  BY DEF Shaped
<1>2. x = [m EXCEPT !.lost = g, !.heap = h]
  BY DEF WithFields, Loses
<1>3. h = [q \in DOMAIN m.heap \cup {p} |-> IF q = p THEN WithFields(m.heap[p], s) ELSE m.heap[q]]
  BY <1>1
<1>4. g \in [Addresses -> Nat] /\ \A a \in Addresses : g[a] = m.lost[a] + Ind(k, a) /\ m.lost[a] \in Nat
  BY <1>1 DEF Ind
<1> HIDE DEF h, g
<1>5. x = [heap |-> h, shared |-> m.shared, lost |-> g, lostShared |-> m.lostShared, undefined |-> m.undefined]
  BY <1>1, <1>2 DEF IsMemory
<1>6. x.heap = h /\ x.lost = g /\ x.shared = m.shared /\ x.lostShared = m.lostShared /\ x.undefined = m.undefined
  BY <1>5
<1>7. IsMemory(x)
  BY <1>5, <1>6, Zenon DEF IsMemory
<1> QED
  BY <1>3, <1>4, <1>6, <1>7 DEF Refields, Puts

\* Bytes that are too short for a part: the message does not have it, or has it unread.
LEMMA FailPartGood ==
  ASSUME NEW m, NEW ext \in Tokens, Good(m, ext, Null, FALSE),
         NEW p \in DOMAIN m.heap \cap Parents, m.heap[p].bytes # Null, NEW class \in LeafClasses,
         NEW last \in BOOLEAN, RoomIn(m, Arrays, 1), RoomIn(m, Leaves, 1),
         NEW x, x = FailPart(m, p, class, last)
  PROVE  Good(x, ext, Null, FALSE)
<1> DEFINE data == FreshFor(m, "ByteArray")
           w == Subsection(m, data, m.heap[p].bytes)
           part == FreshFor(w, class)
           z == NewLeafFromData(w, part, class, data)
           y == LowerArray(z, data)
           fields == m.heap[p].fields
           all == Plus(ext, part)
<1>1. data = FreshFor(m, "ByteArray") /\ w = Subsection(m, data, m.heap[p].bytes)
      /\ part = FreshFor(w, class) /\ z = NewLeafFromData(w, part, class, data)
  OBVIOUS
<1>2. x = IF Class(m, p) = "Transaction"
          THEN [y EXCEPT !.lost[part] = @ + 1, !.heap[p].fields = Append(@, Garbage)]
          ELSE [y EXCEPT !.heap[p].fields = @ \o (IF last THEN <<part>> ELSE <<part, Garbage>>)]
  BY Zenon DEF FailPart
<1> HIDE DEF data, w, part, z, fields
<1>3. Good(z, Plus(Plus(ext, part), data), part, FALSE) /\ PartStarted(m, z, p, class, data, part)
  <2>1. \A t \in BOOLEAN : Good(m, ext, Null, t) =>
          Good(z, Plus(Plus(ext, part), data), part, t) /\ PartStarted(m, z, p, class, data, part)
    BY <1>1, StartPartGood
  <2> QED
    BY <2>1
<1>4. /\ data \in Arrays /\ part \in Leaves /\ {p, part, data} \subseteq DOMAIN z.heap
      /\ z.heap[p] = m.heap[p] /\ z.heap[part].bytes = data
  BY <1>3 DEF PartStarted, NewObject
<1>5. part \in Int /\ part # Null /\ part # Garbage /\ part # p /\ part \in Addresses /\ p \notin Arrays
      /\ Garbage \in Int /\ \A a \in Addresses : Ind(Garbage, a) = 0
  BY <1>4, Kinds DEF Null, Garbage, Ind
<1>6. all \in Tokens /\ Good(z, Plus(all, data), part, FALSE)
      /\ \A a \in Addresses : all[a] = ext[a] + Ind(part, a) /\ ext[a] \in Nat
  BY <1>3, PlusTokens
<1> HIDE DEF all
<1>7. Good(y, all, Null, FALSE) /\ SameMessages(z, y)
  <2>1. part \in {Null} \cup (DOMAIN z.heap \cap Leaves) /\ FALSE \in BOOLEAN
    BY <1>4
  <2>2. Good(LowerArray(z, data), all, Null, FALSE)
    BY <1>4, <1>6, <2>1, LowerArrayGood
  <2>3. SameMessages(z, LowerArray(z, data))
    BY <1>4, <1>6, <2>1, <2>2, LowerArrayGood
  <2> QED
    BY <2>2, <2>3
<1> HIDE DEF y
<1>8. p \in DOMAIN y.heap /\ y.heap[p] = m.heap[p] /\ Shaped(y)
  BY <1>4, <1>5, <1>7 DEF SameMessages, Good, Sound
<1>9. fields \in Seq(Leaves \cup {Garbage}) /\ fields \in Seq(Int) /\ y.heap[p].fields = fields
  <2>1. Shaped(m) /\ p \in Addresses
    BY Kinds DEF Good, Sound
  <2> QED
    BY <1>8, <2>1, ShapedHeap DEF ObjectOK, ParentOK, Records, fields
<1>10. ASSUME NEW s \in Seq(Leaves \cup {Garbage}), Refields(y, x, p, s),
              \A a \in Addresses : Occ(s, a) + x.lost[a] = Occ(fields, a) + y.lost[a] + Ind(part, a)
       PROVE  Good(x, ext, Null, FALSE)
  <2>1. HandingParts(y, x, all, ext, p, s)
    <3> SUFFICES ASSUME NEW a \in Addresses
                 PROVE  Occ(fields, a) + y.lost[a] + all[a] = Occ(s, a) + x.lost[a] + ext[a]
      BY <1>9 DEF HandingParts
    <3>1. all[a] = ext[a] + Ind(part, a) /\ ext[a] \in Nat /\ Ind(part, a) \in Nat
      BY <1>6 DEF Ind
    <3>2. Occ(fields, a) \in Nat /\ Occ(s, a) \in Nat
      <4>1. s \in Seq(Int)
        BY <1>5, Kinds
      <4> QED
        BY <1>9, <4>1, PlacesFinite
    <3>3. y.lost[a] \in Nat /\ x.lost[a] \in Nat
      BY <1>8, <1>10 DEF Shaped, Refields
    <3>4. Occ(s, a) + x.lost[a] = Occ(fields, a) + y.lost[a] + Ind(part, a)
      BY <1>10
    <3> QED
      BY <3>1, <3>2, <3>3, <3>4
  <2>2. p \in DOMAIN y.heap \cap Parents /\ FALSE \in BOOLEAN
    BY <1>8
  <2> QED
    BY <1>6, <1>7, <1>10, <2>1, <2>2, RefieldGood
<1>11. CASE Class(m, p) = "Transaction"
  <2> DEFINE s == Append(fields, Garbage)
  <2>1. x = Loses(y, p, s, part)
    BY <1>2, <1>9, <1>11 DEF Loses
  <2>2. s \in Seq(Leaves \cup {Garbage}) /\ \A a \in Addresses : Occ(s, a) = Occ(fields, a) + Ind(Garbage, a)
    BY <1>5, <1>9, OccAppend
  <2> HIDE DEF s
  <2>3. Refields(y, x, p, s) /\ \A a \in Addresses : x.lost[a] = y.lost[a] + Ind(part, a) /\ y.lost[a] \in Nat
    <3>1. Refields(y, x, p, s)
      BY <1>5, <1>8, <2>1, LosesIs
    <3> QED
      BY <1>5, <1>8, <2>1, <3>1, LosesIs
  <2>4. ASSUME NEW a \in Addresses PROVE Occ(s, a) + x.lost[a] = Occ(fields, a) + y.lost[a] + Ind(part, a)
    <3>1. Occ(fields, a) \in Nat /\ Ind(part, a) \in Nat
      BY <1>9, PlacesFinite DEF Ind
    <3> QED
      BY <1>5, <2>2, <2>3, <3>1
  <2> QED
    BY <1>10, <2>2, <2>3, <2>4
<1>12. CASE Class(m, p) # "Transaction"
  <2> DEFINE r == IF last THEN <<part>> ELSE <<part, Garbage>>
             s == fields \o r
  <2>1. x = [y EXCEPT !.heap[p].fields = s]
    BY <1>2, <1>9, <1>12
  <2>2. r \in Seq(Leaves \cup {Garbage}) /\ r \in Seq(Int) /\ \A a \in Addresses : Occ(r, a) = Ind(part, a)
    <3>1. r \in Seq(Leaves \cup {Garbage}) /\ r \in Seq(Int)
      <4>1. <<part>> \in Seq(Leaves \cup {Garbage}) /\ <<part>> \in Seq(Int)
        BY <1>4, <1>5
      <4>2. <<part, Garbage>> \in Seq(Leaves \cup {Garbage}) /\ <<part, Garbage>> \in Seq(Int)
        BY <1>4, <1>5
      <4> QED
        BY <4>1, <4>2
    <3>2. ASSUME NEW a \in Addresses PROVE Occ(<<part>>, a) = Ind(part, a) /\ Occ(<<part, Garbage>>, a) = Ind(part, a)
      <4>1. Ind(part, a) \in Nat /\ Ind(Garbage, a) = 0
        BY <1>5 DEF Ind
      <4> QED
        BY <1>5, <4>1, OccShort
    <3> QED
      BY <3>1, <3>2
  <2> HIDE DEF r
  <2>3. s \in Seq(Leaves \cup {Garbage}) /\ \A a \in Addresses : Occ(s, a) = Occ(fields, a) + Ind(part, a)
    BY <1>9, <2>2, OccConcat
  <2> HIDE DEF s
  <2>4. Refields(y, x, p, s) /\ x.lost = y.lost
    BY <1>8, <2>1, RefieldsIs
  <2>5. ASSUME NEW a \in Addresses PROVE Occ(s, a) + x.lost[a] = Occ(fields, a) + y.lost[a] + Ind(part, a)
    <3>1. Occ(fields, a) \in Nat /\ Ind(part, a) \in Nat /\ y.lost[a] \in Nat
      BY <1>8, <1>9, PlacesFinite DEF Ind, Shaped
    <3> QED
      BY <2>3, <2>4, <3>1
  <2> QED
    BY <1>10, <2>3, <2>4, <2>5
<1> QED
  BY <1>11, <1>12

\* The first elements of a sequence are a sequence of them.
LEMMA FirstPart ==
  ASSUME NEW S, NEW s \in Seq(S), NEW n \in Nat, n <= Len(s), NEW t, t = SubSeq(s, 1, n)
  PROVE  /\ t \in Seq(S) /\ Len(t) = n
         /\ \A i \in 1 .. n : t[i] = s[i]
OBVIOUS

\* Some of the indices are not more than all.
LEMMA SomeIndices ==
  ASSUME NEW s, NEW n \in Nat, DOMAIN s = 1 .. n, NEW I, I \subseteq DOMAIN s
  PROVE  Cardinality(I) \in Nat /\ Cardinality(I) <= n
<1>1. IsFiniteSet(1 .. n) /\ Cardinality(1 .. n) = n
  <2>1. n \in Int /\ 1 \in Int /\ 1 <= n + 1
    OBVIOUS
  <2> QED
    BY <2>1, FS_Interval
<1>2. IsFiniteSet(I) /\ Cardinality(I) <= Cardinality(1 .. n)
  BY <1>1, FS_Subset
<1> QED
  BY <1>1, <1>2, FS_CardinalityType

\* A message is read, or reading stops; after it was read nothing is missing.
LEMMA ReadParentGood ==
  ASSUME NEW m, NEW ext \in Tokens, NEW tidy \in BOOLEAN, Good(m, ext, Null, FALSE),
         NEW p \in DOMAIN m.heap \cap Parents, m.heap[p].bytes # Null, tidy => Tidy(m, p),
         \A a \in Addresses : Occ(m.heap[p].fields, a) = 0,
         NEW class, NEW classes \in Seq(LeafClasses), NEW stop \in ReadStops(class, classes), tidy => stop = Never,
         RoomIn(m, Arrays, 3 * Len(classes) + 1), RoomIn(m, Leaves, Len(classes)),
         NEW x, x = ReadParent(m, p, classes, stop)
  PROVE  Good(x, ext, Null, tidy)
<1> DEFINE started == [m EXCEPT !.heap[p].fields = <<>>]
           n == Cardinality({k \in DOMAIN classes : classes[k] = "TransactionInput"})
           Read(cs) == FoldLeft(ReadNext, started, Each(p, cs))
           old == m.heap[p].fields
<1>1. Shaped(m) /\ p \in Addresses /\ p \notin Arrays /\ p \notin Leaves
      /\ Used(m, Arrays) \in Nat /\ Used(m, Leaves) \in Nat /\ MaxObjects \in Nat
  BY Kinds, UsedLeft, ObjectsAssumption DEF Good, Sound
<1>2. m.heap[p] \in Records /\ ParentOK(m.heap[p]) /\ old \in Seq(Leaves \cup {Garbage}) /\ old \in Seq(Int)
  BY <1>1, ShapedHeap DEF ObjectOK, ParentOK, Records
<1>3. /\ stop.at = "part" => stop.part \in 1 .. Len(classes)
      /\ stop = Start => stop.at # "part" /\ stop # BeforeOutputs
      /\ stop.at = "part" => stop # BeforeOutputs
      /\ stop = Never => stop.at # "part" /\ stop # BeforeOutputs /\ stop # Start
  <2>1. DOMAIN classes = 1 .. Len(classes)
    OBVIOUS
  <2>2. stop \in {Start, Never, BeforeOutputs, BeforeLockTime} \/ \E k \in 1 .. Len(classes) : stop = Part(k)
    BY <2>1 DEF ReadStops
  <2>3. /\ Start.at = "start" /\ Never.at = "never" /\ BeforeOutputs.at = "outputs" /\ BeforeLockTime.at = "lock time"
        /\ \A k \in 1 .. Len(classes) : Part(k).at = "part" /\ Part(k).part = k
    BY DEF Start, Never, Part, BeforeOutputs, BeforeLockTime
  <2> QED
    BY <2>2, <2>3
<1>4. x = CASE stop = Start -> m
            [] stop.at = "part" -> FailPart(Read(SubSeq(classes, 1, stop.part - 1)), p, classes[stop.part],
                                            stop.part = Len(classes))
            [] stop = BeforeOutputs -> [Read(SubSeq(classes, 1, n)) EXCEPT !.heap[p].fields = @ \o old]
            [] OTHER -> Read(classes)
  BY Zenon DEF ReadParent
<1>5. Refields(m, started, p, <<>>) /\ started.lost = m.lost /\ <<>> \in Seq(Int)
  BY <1>1, RefieldsIs
<1> HIDE DEF started
<1>6. /\ DOMAIN started.heap = DOMAIN m.heap /\ (\A q \in DOMAIN m.heap \ {p} : started.heap[q] = m.heap[q])
      /\ started.heap[p].fields = <<>> /\ started.heap[p].bytes = m.heap[p].bytes
      /\ started.heap[p].class = m.heap[p].class
      /\ Used(started, Arrays) = Used(m, Arrays) /\ Used(started, Leaves) = Used(m, Leaves)
  <2>1. SameBut(m, started, p, <<>>)
    BY <1>1, <1>5, RefieldsKeeps
  <2> QED
    BY <2>1 DEF SameBut
<1>7. HandingParts(m, started, ext, ext, p, <<>>)
  BY <1>5, OccEmpty DEF HandingParts
<1>8. Good(started, ext, Null, FALSE)
  <2>1. <<>> \in Seq(Leaves \cup {Garbage}) /\ FALSE \in BOOLEAN
    OBVIOUS
  <2> QED
    BY <1>5, <1>7, <2>1, RefieldGood
<1>9. Good(started, ext, Null, tidy)
  <2>1. ASSUME tidy, NEW q \in DOMAIN started.heap PROVE TidyObject(started.heap[q])
    <3>1. CASE q = p
      <4>1. started.heap[p].bytes # Garbage /\ started.heap[p].class # "InventoryVector"
        BY <1>2, <1>6, Kinds DEF ParentOK, ParentClasses, Garbage
      <4> QED
        BY <1>6, <3>1, <4>1 DEF TidyObject
    <3>2. CASE q # p
      BY <1>6, <2>1, <3>2 DEF Tidy
    <3> QED
      BY <3>1, <3>2
  <2> QED
    BY <1>8, <2>1 DEF Good, Tidy
<1>10. ASSUME NEW cs \in Seq(LeafClasses), NEW r \in Nat, Len(cs) + r = Len(classes)
       PROVE  /\ Good(Read(cs), ext, Null, tidy) /\ p \in DOMAIN Read(cs).heap
              /\ Read(cs).heap[p].bytes = m.heap[p].bytes
              /\ RoomIn(Read(cs), Arrays, 1) /\ RoomIn(Read(cs), Leaves, r)
  <2> DEFINE y == Read(cs)
             k == Len(cs)
  <2>1. y = FoldLeft(ReadNext, started, Each(p, cs)) /\ k \in Nat /\ k <= Len(classes) /\ Len(classes) \in Nat
    BY <1>10
  <2> HIDE DEF y
  <2>2. RoomIn(started, Arrays, 3 * k) /\ RoomIn(started, Leaves, k)
    BY <1>1, <1>6, <2>1 DEF RoomIn
  <2>3. p \in DOMAIN started.heap \cap Parents /\ started.heap[p].bytes # Null
    BY <1>6
  <2>4. Good(y, ext, Null, tidy)
    BY <1>9, <2>1, <2>2, <2>3, ReadPartsGood
  <2>5. Reads(started, y, p, k)
    BY <1>9, <2>1, <2>2, <2>3, <2>4, ReadPartsGood
  <2> HIDE DEF k
  <2>6. /\ p \in DOMAIN y.heap /\ y.heap[p].bytes = started.heap[p].bytes
        /\ Used(y, Arrays) \in Nat /\ Used(y, Arrays) <= Used(started, Arrays) + 3 * k
        /\ Used(y, Leaves) \in Nat /\ Used(y, Leaves) <= Used(started, Leaves) + k
    BY <2>5 DEF Reads
  <2>7. k + r = Len(classes)
    BY <1>10 DEF k
  <2>8. RoomIn(y, Arrays, 1)
    BY <1>1, <1>6, <2>1, <2>6, <2>7 DEF RoomIn
  <2>9. RoomIn(y, Leaves, r)
    BY <1>1, <1>6, <2>1, <2>6, <2>7 DEF RoomIn
  <2> QED
    BY <1>6, <2>4, <2>6, <2>8, <2>9 DEF y
<1> HIDE DEF Read, old, n
<1>11. CASE stop = Start
  <2>1. x = m /\ ~tidy
    BY <1>3, <1>4, <1>11
  <2> QED
    BY <2>1
<1>12. CASE stop.at = "part"
  <2> DEFINE k == stop.part
             cs == SubSeq(classes, 1, k - 1)
             y == Read(cs)
             c == classes[k]
             last == (k = Len(classes))
  <2>1. x = FailPart(y, p, c, last) /\ ~tidy
    BY <1>3, <1>4, <1>12
  <2>2. k \in 1 .. Len(classes) /\ c \in LeafClasses /\ Len(classes) \in Nat /\ last \in BOOLEAN
    BY <1>3, <1>12
  <2>3. cs \in Seq(LeafClasses) /\ Len(cs) + (Len(classes) - (k - 1)) = Len(classes)
        /\ Len(classes) - (k - 1) \in Nat /\ 1 <= Len(classes) - (k - 1)
    <3> HIDE DEF k
    <3>1. cs = SubSeq(classes, 1, k - 1) /\ k - 1 \in Nat /\ k - 1 <= Len(classes)
      BY <2>2
    <3> HIDE DEF cs
    <3>2. cs \in Seq(LeafClasses) /\ Len(cs) = k - 1
      BY <3>1, FirstPart
    <3> QED
      BY <2>2, <3>2
  <2> DEFINE r == Len(classes) - (k - 1)
  <2> HIDE DEF k, cs, c, last
  <2>4. r \in Nat /\ Len(cs) + r = Len(classes) /\ 1 <= r
    BY <2>3
  <2> HIDE DEF r
  <2>5. /\ Good(y, ext, Null, tidy) /\ p \in DOMAIN y.heap /\ y.heap[p].bytes = m.heap[p].bytes
        /\ RoomIn(y, Arrays, 1) /\ RoomIn(y, Leaves, r)
    BY <1>10, <2>3, <2>4
  <2> HIDE DEF y
  <2>6. RoomIn(y, Leaves, 1)
    <3>1. Used(y, Leaves) \in Nat
      BY <2>5, UsedLeft DEF Good, Sound
    <3> QED
      BY <1>1, <2>4, <2>5, <3>1 DEF RoomIn
  <2>7. p \in DOMAIN y.heap \cap Parents /\ y.heap[p].bytes # Null /\ Good(y, ext, Null, FALSE)
    BY <2>5 DEF Good
  <2>8. Good(x, ext, Null, FALSE)
    BY <2>1, <2>2, <2>5, <2>6, <2>7, FailPartGood
  <2> QED
    BY <2>1, <2>8
<1>13. CASE stop = BeforeOutputs
  <2> DEFINE cs == SubSeq(classes, 1, n)
             y == Read(cs)
             s == y.heap[p].fields \o old
  <2>1. x = [y EXCEPT !.heap[p].fields = s] /\ ~tidy
    BY <1>3, <1>4, <1>13
  <2>2. cs \in Seq(LeafClasses) /\ Len(cs) + (Len(classes) - n) = Len(classes) /\ Len(classes) - n \in Nat
    <3>1. n \in Nat /\ n <= Len(classes)
      <4>1. DOMAIN classes = 1 .. Len(classes) /\ Len(classes) \in Nat
        OBVIOUS
      <4> DEFINE I == {k \in DOMAIN classes : classes[k] = "TransactionInput"}
      <4>2. I \subseteq DOMAIN classes
        OBVIOUS
      <4> HIDE DEF I
      <4>3. Cardinality(I) \in Nat /\ Cardinality(I) <= Len(classes)
        BY <4>1, <4>2, SomeIndices
      <4> QED
        BY <4>3 DEF I, n
    <3>2. cs = SubSeq(classes, 1, n)
      OBVIOUS
    <3> HIDE DEF cs
    <3>3. cs \in Seq(LeafClasses) /\ Len(cs) = n
      BY <3>1, <3>2, FirstPart
    <3> QED
      BY <3>1, <3>3
  <2> HIDE DEF cs
  <2>3. Good(y, ext, Null, tidy) /\ p \in DOMAIN y.heap
    BY <1>10, <2>2
  <2> HIDE DEF y
  <2>4. Shaped(y) /\ y.heap[p].fields \in Seq(Leaves \cup {Garbage}) /\ y.heap[p].fields \in Seq(Int)
    <3>1. Shaped(y)
      BY <2>3 DEF Good, Sound
    <3> QED
      BY <1>1, <2>3, <3>1, ShapedHeap DEF ObjectOK, ParentOK, Records
  <2>5. s \in Seq(Leaves \cup {Garbage}) /\ s \in Seq(Int)
        /\ \A a \in Addresses : Occ(s, a) = Occ(y.heap[p].fields, a) /\ Occ(s, a) \in Nat
    <3>1. s \in Seq(Leaves \cup {Garbage}) /\ s \in Seq(Int)
      BY <1>2, <2>4
    <3>2. ASSUME NEW a \in Addresses PROVE Occ(s, a) = Occ(y.heap[p].fields, a) /\ Occ(s, a) \in Nat
      <4>1. Occ(s, a) = Occ(y.heap[p].fields, a) + Occ(old, a)
        BY <1>2, <2>4, OccConcat
      <4>2. Occ(old, a) = 0
        BY DEF old
      <4>3. Occ(y.heap[p].fields, a) \in Nat
        BY <2>4, PlacesFinite
      <4> HIDE DEF s
      <4> QED
        BY <4>1, <4>2, <4>3
    <3> QED
      BY <3>1, <3>2
  <2> HIDE DEF s
  <2>6. Refields(y, x, p, s) /\ x.lost = y.lost
    BY <2>1, <2>3, <2>4, RefieldsIs
  <2>7. HandingParts(y, x, ext, ext, p, s)
    BY <2>5, <2>6 DEF HandingParts
  <2>8. p \in DOMAIN y.heap \cap Parents
    BY <2>3
  <2> QED
    BY <2>1, <2>3, <2>5, <2>6, <2>7, <2>8, RefieldGood
<1>14. CASE stop # Start /\ stop.at # "part" /\ stop # BeforeOutputs
  <2>1. x = Read(classes)
    BY <1>4, <1>14
  <2>2. Len(classes) + 0 = Len(classes) /\ 0 \in Nat
    OBVIOUS
  <2> QED
    BY <1>10, <2>1, <2>2
<1> QED
  BY <1>11, <1>12, <1>13, <1>14

-----------------------------------------------------------------------------
(* Writing a part *)

WithData(object, d) == [object EXCEPT !.data = d]

\* Nothing but the data of the array a is different.
DataMoved(m, x, a) ==
  /\ DOMAIN x.heap = DOMAIN m.heap
  /\ \A q \in DOMAIN m.heap \ {a} : x.heap[q] = m.heap[q]

\* Two arrays over the same data are counted twice.
LEMMA TwoViewers ==
  ASSUME NEW m, NEW ext, Booked(m, ext), NEW a \in DOMAIN m.heap, NEW b \in DOMAIN m.heap, a # b,
         m.heap[a].data = m.heap[b].data, m.heap[a].data \in DOMAIN m.shared
  PROVE  m.shared[m.heap[a].data] >= 2
<1> DEFINE d == m.heap[a].data
           V == Viewers(m.heap, d)
<1>1. IsFiniteSet(V) /\ Cardinality(V) \in Nat /\ {a, b} \subseteq V
  <2>1. Heap(m.heap)
    BY ShapedHeap DEF Booked
  <2>2. V \subseteq DOMAIN m.heap /\ {a, b} \subseteq V
    BY DEF Viewers
  <2> HIDE DEF V
  <2>3. IsFiniteSet(V)
    BY <2>1, <2>2, FS_Subset DEF Heap
  <2> QED
    BY <2>2, <2>3, FS_CardinalityType
<1> HIDE DEF V
<1>2. Cardinality(V) >= 2
  <2> DEFINE one == {a}
             both == {a, b}
  <2>1. Cardinality(one) = 1 /\ IsFiniteSet(one)
    BY FS_Singleton
  <2>a. b \notin one /\ both = one \cup {b}
    OBVIOUS
  <2> HIDE DEF one, both
  <2>b. Cardinality(one \cup {b}) = Cardinality(one) + 1
    BY <2>1, <2>a, FS_AddElement
  <2> USE DEF both
  <2>2. Cardinality({a, b}) = 2
    BY <2>1, <2>a, <2>b
  <2>3. Cardinality({a, b}) <= Cardinality(V)
    BY <1>1, FS_Subset
  <2> QED
    BY <1>1, <2>2, <2>3
<1>3. d \in 1 .. MaxObjects /\ SharesOf(m.shared, d) = m.lostShared[d] + Cardinality(V) /\ m.lostShared[d] \in Nat
  BY DEF Booked, Shaped, SharesAccounted, V
<1> QED
  BY <1>1, <1>2, <1>3 DEF SharesOf

\* An array looks into other data.
LEMMA ChangeDataReferenceGood ==
  ASSUME NEW m, NEW ext \in Tokens, NEW tidy \in BOOLEAN, Good(m, ext, Null, tidy),
         NEW a \in DOMAIN m.heap \cap Arrays, NEW ref \in DOMAIN m.heap \cap Arrays, a # ref,
         NEW x, x = ChangeDataReference(m, a, ref)
  PROVE  Good(x, ext, Null, tidy) /\ DataMoved(m, x, a)
<1> DEFINE d1 == m.heap[a].data
           d2 == m.heap[ref].data
           u == ReleaseSharedData(m, d1)
           g == Fewer(m.shared, d1)
           obj == WithData(m.heap[a], d2)
           h == [m.heap EXCEPT ![a] = obj]
           s == [g EXCEPT ![d2] = @ + 1]
<1>1. Booked(m, ext) /\ Shaped(m) /\ IsMemory(m) /\ Private(m, Null) /\ m.undefined = "no" /\ (tidy => Tidy(m, Null))
  BY DEF Good, Sound, Booked, Shaped
<1>2. d1 \in DOMAIN m.shared /\ d2 \in DOMAIN m.shared /\ d1 \in 1 .. MaxObjects /\ d2 \in 1 .. MaxObjects
  BY <1>1, DataAlive
<1>3. /\ IsMemory(u) /\ u.heap = m.heap /\ u.shared = g
      /\ u.lost = m.lost /\ u.lostShared = m.lostShared /\ u.undefined = m.undefined
  <2> HIDE DEF d1
  <2> QED
    BY <1>1, <1>2, SharesReleased
<1>4. d2 \in DOMAIN g
  <2>1. CASE d1 = d2
    <3>1. m.shared[d1] >= 2
      BY <1>1, <1>2, <2>1, TwoViewers
    <3>2. m.shared[d1] > 1
      <4>1. m.shared[d1] \in Nat
        BY <1>1, <1>2 DEF Shaped
      <4> HIDE DEF d1
      <4> QED
        BY <3>1, <4>1
    <3> HIDE DEF d1, d2
    <3> QED
      BY <1>2, <2>1, <3>2 DEF Fewer
  <2>2. CASE d1 # d2
    <3> HIDE DEF d1, d2
    <3> QED
      BY <1>2, <2>2 DEF Fewer
  <2> QED
    BY <2>1, <2>2
<1>5. x = [u EXCEPT !.heap[a].data = d2, !.shared[d2] = @ + 1]
  BY <1>3, <1>4 DEF ChangeDataReference, Live
<1>6. x = [u EXCEPT !.heap = h, !.shared = s]
  BY <1>3, <1>5 DEF WithData
<1> HIDE DEF u
<1>7. m.heap[a] \in Records /\ ArrayOK(m.heap[a]) /\ a \in Addresses /\ a \notin Leaves /\ a \notin Parents
  <2>1. a \in Addresses /\ a \notin Leaves /\ a \notin Parents
    BY Kinds
  <2> QED
    BY <1>1, <2>1, ShapedHeap DEF ObjectOK
<1>8. /\ obj \in Records /\ obj.data = d2 /\ obj.class = m.heap[a].class /\ obj.bytes = m.heap[a].bytes
      /\ obj.fields = m.heap[a].fields /\ obj.count = m.heap[a].count /\ obj.destroy = m.heap[a].destroy
  <2>1. d2 \in Int
    BY <1>2
  <2> HIDE DEF d2
  <2> QED
    BY <1>7, <2>1 DEF WithData, Records
<1>9. ObjectOK(a, obj)
  <2> HIDE DEF obj
  <2> QED
    BY <1>2, <1>7, <1>8 DEF ObjectOK, ArrayOK
<1>10. DOMAIN h = DOMAIN m.heap /\ h = [q \in DOMAIN h |-> h[q]] /\ h[a] = obj
       /\ \A q \in DOMAIN m.heap \ {a} : h[q] = m.heap[q]
  BY <1>1 DEF Shaped
<1>11. /\ DOMAIN g \subseteq 1 .. MaxObjects /\ g \in [DOMAIN g -> Nat \ {0}]
       /\ \A k \in 1 .. MaxObjects : SharesOf(m.shared, k) = SharesOf(g, k) + Ind(d1, k) /\ SharesOf(g, k) \in Nat
  <2> HIDE DEF d1, g
  <2>1. g = Fewer(m.shared, d1)
    BY DEF g
  <2> QED
    BY <1>1, <1>2, <2>1, LessShares
<1> HIDE DEF g, h, obj
<1>12. /\ DOMAIN s = DOMAIN g /\ s \in [DOMAIN s -> Nat \ {0}]
       /\ \A k \in 1 .. MaxObjects : SharesOf(s, k) = SharesOf(g, k) + Ind(d2, k) /\ SharesOf(g, k) \in Nat
  <2> HIDE DEF d2
  <2>1. DOMAIN s = DOMAIN g /\ s \in [DOMAIN s -> Nat \ {0}]
    BY <1>4, <1>11
  <2>2. ASSUME NEW k \in 1 .. MaxObjects PROVE SharesOf(s, k) = SharesOf(g, k) + Ind(d2, k)
    BY <1>4, <1>11 DEF SharesOf, Ind
  <2> QED
    BY <1>11, <2>1, <2>2
<1> HIDE DEF s
<1>13. x = [heap |-> h, shared |-> s, lost |-> m.lost, lostShared |-> m.lostShared, undefined |-> m.undefined]
  BY <1>3, <1>6 DEF IsMemory
<1>14. x.heap = h /\ x.shared = s /\ x.lost = m.lost /\ x.lostShared = m.lostShared /\ x.undefined = m.undefined
  BY <1>13
<1>15. IsMemory(x)
  BY <1>13, <1>14, Zenon DEF IsMemory
<1> HIDE DEF d1, d2
<1>16. Shaped(x)
  <2>1. HeapOK(x.heap)
    <3> SUFFICES ASSUME NEW q \in DOMAIN m.heap PROVE ObjectOK(q, h[q])
      BY <1>1, <1>10, <1>14 DEF HeapOK, Shaped
    <3> QED
      BY <1>1, <1>9, <1>10, ShapedHeap
  <2>2. x.lost \in [Addresses -> Nat] /\ x.lostShared \in [1 .. MaxObjects -> Nat]
    BY <1>1, <1>14 DEF Shaped
  <2> QED
    BY <1>10, <1>11, <1>12, <1>14, <1>15, <2>1, <2>2 DEF Shaped
<1>17. Booked(x, ext)
  <2>1. ASSUME NEW q \in Addresses
        PROVE  (IF q = a THEN CountOf(x.heap, a) - CountOf(m.heap, a) ELSE 0)
                 = PointingFrom(x.heap, a, q) - PointingFrom(m.heap, a, q)
                   + (x.lost[q] - m.lost[q]) + (ext[q] - ext[q])
    <3>1. CountOf(x.heap, a) = m.heap[a].count /\ CountOf(m.heap, a) = m.heap[a].count /\ m.heap[a].count \in Nat
      BY <1>7, <1>8, <1>10, <1>14 DEF CountOf, Records
    <3>2. PointingFrom(x.heap, a, q) = PointingFrom(m.heap, a, q)
      BY <1>8, <1>10, <1>14 DEF PointingFrom, Pointing
    <3>3. PointingFrom(m.heap, a, q) \in Nat
      BY <1>7, UsesCounted DEF PointingFrom, Records
    <3>4. x.lost[q] = m.lost[q] /\ m.lost[q] \in Nat /\ ext[q] \in Nat
      BY <1>1, <1>14 DEF Shaped, Tokens
    <3> QED
      BY <3>1, <3>2, <3>3, <3>4
  <2>2. ASSUME NEW k \in 1 .. MaxObjects
        PROVE  SharesOf(x.shared, k) - SharesOf(m.shared, k)
                 = ViewingFrom(x.heap, a, k) - ViewingFrom(m.heap, a, k) + (x.lostShared[k] - m.lostShared[k])
    <3>1. ViewingFrom(x.heap, a, k) = Ind(d2, k) /\ ViewingFrom(m.heap, a, k) = Ind(d1, k)
      BY <1>8, <1>10, <1>14 DEF ViewingFrom, d1
    <3>2. x.lostShared[k] = m.lostShared[k] /\ m.lostShared[k] \in Nat
      BY <1>1, <1>14 DEF Shaped
    <3>3. SharesOf(x.shared, k) = SharesOf(g, k) + Ind(d2, k) /\ SharesOf(m.shared, k) = SharesOf(g, k) + Ind(d1, k)
          /\ SharesOf(g, k) \in Nat /\ Ind(d1, k) \in Nat /\ Ind(d2, k) \in Nat
      BY <1>11, <1>12, <1>14 DEF Ind
    <3> QED
      BY <3>1, <3>2, <3>3
  <2>3. DOMAIN m.heap \ {a} = DOMAIN x.heap \ {a} /\ \A q \in DOMAIN m.heap \ {a} : m.heap[q] = x.heap[q]
    BY <1>10, <1>14
  <2> QED
    BY <1>1, <1>16, <2>1, <2>2, <2>3, Stepped
<1>18. DataMoved(m, x, a)
  BY <1>10, <1>14 DEF DataMoved
<1>19. Private(x, Null)
  <2> SUFFICES ASSUME NEW l \in DOMAIN m.heap \cap Leaves, x.heap[l].bytes \in Arrays
               PROVE  CountOf(x.heap, x.heap[l].bytes) = IF l = Null THEN 2 ELSE 1
    BY <1>10, <1>14 DEF Private
  <2>1. x.heap[l] = m.heap[l]
    BY <1>7, <1>10, <1>14
  <2>2. \A q : CountOf(x.heap, q) = CountOf(m.heap, q)
    BY <1>8, <1>10, <1>14 DEF CountOf
  <2> QED
    BY <1>1, <2>1, <2>2 DEF Private
<1>20. tidy => Tidy(x, Null)
  <2>1. tidy => TidyObject(obj)
    <3>1. a # Null
      BY <1>7, Kinds
    <3> QED
      BY <1>1, <1>8, <3>1 DEF Tidy, TidyObject
  <2> QED
    BY <1>1, <1>10, <1>14, <2>1 DEF Tidy
<1> QED
  BY <1>1, <1>14, <1>17, <1>18, <1>19, <1>20 DEF Good, Sound, Booked

\* The messages and the parts are the same, and so is what is alive.
SameObjects(m, x) == DOMAIN x.heap = DOMAIN m.heap /\ SameMessages(m, x)

\* An array of a part moves into its bytes; a vector may have no hash.
LEMMA WriteFieldState ==
  ASSUME NEW m, NEW ext \in Tokens, NEW tidy \in BOOLEAN, Good(m, ext, Null, tidy),
         NEW o \in DOMAIN m.heap \cap Leaves, m.heap[o].bytes \in Arrays, NEW i \in 1 .. Len(m.heap[o].fields),
         NEW x, x = WriteField(m, o, i)
  PROVE  /\ m.heap[o].fields[i] # Null => Good(x, ext, Null, tidy) /\ SameObjects(m, x)
         /\ m.heap[o].class = "InventoryVector" => State(x, ext, tidy) /\ SameObjects(m, x)
<1> DEFINE a == m.heap[o].fields[i]
           ref == m.heap[o].bytes
<1>1. Booked(m, ext) /\ Shaped(m) /\ Private(m, Null) /\ m.undefined = "no" /\ (tidy => Tidy(m, Null))
      /\ o \in Addresses /\ o # Null
  BY Kinds DEF Good, Sound, Booked
<1>2. LeafOK(m.heap[o]) /\ m.heap[o] \in Records
  BY <1>1, ShapedHeap DEF ObjectOK
<1>3. /\ ref \in DOMAIN m.heap /\ Pointing(m.heap[o], ref) = 1
      /\ ref # Null
  BY <1>1, BytesAlone, Kinds
<1>4. a \in Arrays \cup {Null} /\ (a \in Arrays => a \in DOMAIN m.heap)
  <2>1. a \in Arrays \cup {Null}
    BY <1>2 DEF LeafOK
  <2> QED
    BY <1>1, <2>1, PointersAlive, Kinds
<1>5. a # ref
  <2> SUFFICES ASSUME a = ref PROVE FALSE
    OBVIOUS
  <2>1. m.heap[o].fields \in Seq(Int)
    BY <1>2 DEF Records
  <2>2. Occ(m.heap[o].fields, m.heap[o].fields[i]) >= 1
    BY <2>1, OccPositive
  <2>3. Occ(m.heap[o].fields, ref) >= 1 /\ Occ(m.heap[o].fields, ref) \in Nat
    BY <2>1, <2>2, PlacesFinite
  <2>4. Pointing(m.heap[o], ref) = 1 + Occ(m.heap[o].fields, ref)
    BY DEF Pointing, Ind
  <2> HIDE DEF ref
  <2> QED
    BY <1>3, <2>3, <2>4
<1>6. x = ChangeDataReference(m, a, ref)
  BY DEF WriteField
<1>7. ASSUME a # Null PROVE Good(x, ext, Null, tidy) /\ SameObjects(m, x)
  <2>1. a \in DOMAIN m.heap \cap Arrays /\ ref \in DOMAIN m.heap \cap Arrays
    BY <1>3, <1>4, <1>7
  <2> HIDE DEF a, ref
  <2>2. Good(x, ext, Null, tidy) /\ DataMoved(m, x, a)
    BY <1>5, <1>6, <2>1, ChangeDataReferenceGood
  <2>3. SameObjects(m, x)
    BY <2>1, <2>2 DEF DataMoved, SameObjects, SameMessages
  <2> QED
    BY <2>2, <2>3
<1>8. ASSUME a = Null, m.heap[o].class = "InventoryVector" PROVE State(x, ext, tidy) /\ SameObjects(m, x)
  <2>1. ~tidy
    <3>1. m.heap[o].fields[1] = Null
      <4>1. Len(m.heap[o].fields) = 1
        BY <1>2, <1>8 DEF LeafOK, Arity
      <4> QED
        BY <1>8, <4>1
    <3> QED
      BY <1>1, <1>8, <3>1 DEF Tidy, TidyObject
  <2>2. Null \notin DOMAIN m.heap
    BY <1>1, ShapedHeap, Kinds
  <2>3. x = Undefined(m, Null)
    BY <1>3, <1>6, <1>8, <2>2 DEF ChangeDataReference, Live
  <2>4. State(x, ext, FALSE) /\ SameMessages(m, x)
    BY <1>1, <2>3, UnsetUndefined
  <2>5. DOMAIN x.heap = DOMAIN m.heap
    BY <1>1, <2>3 DEF Undefined, Shaped, IsMemory
  <2> QED
    BY <2>1, <2>4, <2>5 DEF State, SameObjects
<1> QED
  BY <1>7, <1>8 DEF State

\* All arrays of a part move into its bytes.
LEMMA WriteLeafState ==
  ASSUME NEW m, NEW ext \in Tokens, NEW tidy \in BOOLEAN, Good(m, ext, Null, tidy),
         NEW o \in DOMAIN m.heap \cap Leaves, m.heap[o].bytes \in Arrays, Writable(m, o),
         NEW x, x = WriteLeaf(m, o)
  PROVE  State(x, ext, tidy) /\ SameObjects(m, x)
<1> DEFINE y == WriteField(m, o, 1)
           z == WriteField(y, o, 2)
<1>1. Shaped(m) /\ m.undefined = "no" /\ o \notin Arrays
  BY Kinds DEF Good, Sound
<1>2. LeafOK(m.heap[o])
  BY <1>1, ShapedHeap DEF ObjectOK
<1>3. 1 \in 1 .. Len(m.heap[o].fields) /\ y = WriteField(m, o, 1)
  BY <1>2 DEF LeafOK, Arity
<1>4. \/ m.heap[o].class = "InventoryVector"
      \/ \A i \in 1 .. Len(m.heap[o].fields) : m.heap[o].fields[i] # Null
  BY <1>2 DEF Writable, Range, LeafOK
<1> HIDE DEF y
<1>5. CASE m.heap[o].class # "TransactionInput"
  <2>1. x = y
    BY <1>1, <1>5 DEF WriteLeaf, y
  <2>2. \/ Good(y, ext, Null, tidy) /\ SameObjects(m, y)
        \/ State(y, ext, tidy) /\ SameObjects(m, y)
    <3>1. m.heap[o].class = "InventoryVector" \/ m.heap[o].fields[1] # Null
      BY <1>3, <1>4
    <3> QED
      BY <1>3, <3>1, WriteFieldState
  <2> QED
    BY <2>1, <2>2 DEF State
<1>6. CASE m.heap[o].class = "TransactionInput"
  <2>1. x = z
    BY <1>1, <1>6 DEF WriteLeaf, y
  <2>2. Len(m.heap[o].fields) = 2 /\ m.heap[o].fields[1] # Null /\ m.heap[o].fields[2] # Null
    BY <1>2, <1>4, <1>6 DEF LeafOK, Arity
  <2>3. Good(y, ext, Null, tidy) /\ SameObjects(m, y)
    BY <1>3, <2>2, WriteFieldState
  <2>4. o \in DOMAIN y.heap \cap Leaves /\ y.heap[o] = m.heap[o]
    BY <1>1, <2>3 DEF SameObjects, SameMessages
  <2>5. 2 \in 1 .. Len(y.heap[o].fields) /\ z = WriteField(y, o, 2) /\ y.heap[o].fields[2] # Null
        /\ y.heap[o].bytes \in Arrays
    BY <2>2, <2>4
  <2> HIDE DEF z
  <2>6. Good(z, ext, Null, tidy) /\ SameObjects(y, z)
    BY <2>3, <2>4, <2>5, WriteFieldState
  <2>7. SameObjects(m, z)
    BY <2>3, <2>6 DEF SameObjects, SameMessages
  <2> QED
    BY <2>1, <2>6, <2>7 DEF State
<1> QED
  BY <1>5, <1>6

\* At most n arrays came, or some went; the messages and what the parts are made of
\* are as before.
Writes(m, x, n) ==
  /\ DOMAIN x.heap \ Arrays = DOMAIN m.heap \ Arrays
  /\ \A q \in DOMAIN m.heap \cap Leaves : x.heap[q].fields = m.heap[q].fields /\ x.heap[q].class = m.heap[q].class
  /\ \A q \in DOMAIN m.heap \cap Parents : x.heap[q] = m.heap[q]
  /\ Used(m, Arrays) \in Nat /\ Used(x, Arrays) \in Nat /\ Used(x, Arrays) <= Used(m, Arrays) + n

\* One after the other.
LEMMA WritesTwice ==
  ASSUME NEW m, NEW x, NEW y, NEW k \in Nat, NEW n \in Nat, Writes(m, x, k), Writes(x, y, n)
  PROVE  Writes(m, y, k + n)
<1>1. Used(m, Arrays) \in Nat /\ Used(y, Arrays) \in Nat /\ Used(y, Arrays) <= Used(m, Arrays) + (k + n)
  BY DEF Writes
<1>2. DOMAIN x.heap \cap Leaves = DOMAIN m.heap \cap Leaves /\ DOMAIN x.heap \cap Parents = DOMAIN m.heap \cap Parents
      /\ DOMAIN y.heap \ Arrays = DOMAIN m.heap \ Arrays
  BY Kinds DEF Writes
<1>3. /\ \A q \in DOMAIN m.heap \cap Leaves : y.heap[q].fields = m.heap[q].fields /\ y.heap[q].class = m.heap[q].class
      /\ \A q \in DOMAIN m.heap \cap Parents : y.heap[q] = m.heap[q]
  BY <1>2 DEF Writes
<1> QED
  BY <1>1, <1>2, <1>3 DEF Writes

\* Where messages and parts are the same and no array came, nothing was written but arrays.
LEMMA SameWrites ==
  ASSUME NEW m, NEW x, Shaped(m), SameMessages(m, x), DOMAIN x.heap \subseteq DOMAIN m.heap
  PROVE  Writes(m, x, 0)
<1>1. Used(m, Arrays) \in Nat /\ Used(x, Arrays) \in Nat /\ Used(x, Arrays) <= Used(m, Arrays) + 0
  <2>1. DOMAIN x.heap \subseteq DOMAIN m.heap \cup {Null} /\ Null \notin Arrays
    BY Kinds
  <2>2. Used(m, Arrays) \in Nat /\ Used(x, Arrays) \in Nat /\ Used(x, Arrays) <= Used(m, Arrays)
    BY <2>1, UsedLeft
  <2> QED
    BY <2>2
<1>2. \A q : q \in Leaves \/ q \in Parents => q \notin Arrays
  BY Kinds
<1> QED
  BY <1>1, <1>2 DEF Writes, SameMessages

\* A part gets a section of the message's bytes, whatever bytes it had.
LEMMA GiveSectionGood ==
  ASSUME NEW m, NEW ext \in Tokens, NEW tidy \in BOOLEAN, Good(m, ext, Null, tidy),
         NEW p \in DOMAIN m.heap \cap Parents, m.heap[p].bytes # Null, NEW part \in DOMAIN m.heap \cap Leaves,
         RoomIn(m, Arrays, 1), NEW x, x = GiveSection(m, p, part)
  PROVE  Good(x, ext, Null, tidy) /\ Writes(m, x, 1) /\ x.heap[part].bytes \in Arrays
<1> DEFINE ref == m.heap[p].bytes
           old == m.heap[part].bytes
           new == FreshFor(m, "ByteArray")
           u == Subsection(m, new, ref)
           obj == WithBytes(m.heap[part], new)
           all == Plus(ext, new)
           lost == Forgotten(u.lost, old)
           h == [u.heap EXCEPT ![part] = obj]
<1>1. Booked(m, ext) /\ Shaped(m) /\ m.undefined = "no" /\ p \in Addresses /\ part \in Addresses
      /\ part \notin Arrays /\ part \notin Parents /\ p \notin Arrays /\ p \notin Leaves
  BY Kinds DEF Good, Sound, Booked
<1>2. LeafOK(m.heap[part]) /\ m.heap[part] \in Records /\ ParentOK(m.heap[p])
  BY <1>1, ShapedHeap DEF ObjectOK
<1>3. ref \in DOMAIN m.heap /\ ref \in Arrays
  <2>1. ref \in Arrays
    BY <1>2 DEF ParentOK
  <2> QED
    BY <1>1, <2>1, PointersAlive, Kinds
<1>4. x = [u EXCEPT !.heap[part].bytes = new, !.lost = Forgotten(@, old)]
  BY <1>1, Zenon DEF GiveSection
<1>5. new = FreshFor(m, "ByteArray") /\ u = Subsection(m, new, ref)
  OBVIOUS
<1> HIDE DEF new, u, ref, old
<1>6. Good(u, all, Null, tidy)
  BY <1>3, <1>5, SectionGood
<1>7. new \in Arrays /\ new \notin DOMAIN m.heap /\ Adds(m, u, new) /\ u.heap[new].count = 1
  BY <1>3, <1>5, <1>6, SectionGood
<1>8. /\ DOMAIN u.heap = DOMAIN m.heap \cup {new} /\ \A q \in DOMAIN m.heap : u.heap[q] = m.heap[q]
      /\ Shaped(u) /\ new \in Int /\ new # Garbage
  BY <1>6, <1>7, Kinds DEF Adds, Good, Sound, Garbage
<1>9. x = [u EXCEPT !.heap = h, !.lost = lost]
  <2>1. obj = [u.heap[part] EXCEPT !.bytes = new]
    BY <1>8 DEF WithBytes
  <2>2. h = [u.heap EXCEPT ![part].bytes = new]
    BY <2>1
  <2> HIDE DEF obj, h
  <2> QED
    BY <1>4, <2>2
<1>10. lost \in [Addresses -> Nat] /\ \A a \in Addresses : lost[a] = u.lost[a] + Ind(old, a) /\ u.lost[a] \in Nat
  <2>1. u.lost \in [Addresses -> Nat]
    BY <1>8 DEF Shaped
  <2> QED
    BY <2>1 DEF Ind, Forgotten
<1>11. h = [q \in DOMAIN u.heap \cup {part} |-> IF q = part THEN obj ELSE u.heap[q]]
  <2>1. u.heap = [q \in DOMAIN u.heap |-> u.heap[q]] /\ part \in DOMAIN u.heap
    BY <1>8 DEF Shaped
  <2> HIDE DEF obj
  <2> QED
    BY <2>1
<1>12. /\ obj \in Records /\ obj.bytes = new
       /\ obj.class = m.heap[part].class /\ obj.fields = m.heap[part].fields /\ obj.count = m.heap[part].count
       /\ obj.data = m.heap[part].data /\ obj.destroy = m.heap[part].destroy
  BY <1>2, <1>8, Rebyted
<1>13. \A a \in Addresses : /\ Pointing(obj, a) + Ind(old, a) = Pointing(m.heap[part], a) + Ind(new, a)
                            /\ Pointing(m.heap[part], a) \in Nat /\ Ind(new, a) \in Nat /\ Ind(old, a) \in Nat
                            /\ Pointing(obj, a) \in Nat
  <2> SUFFICES ASSUME NEW a \in Addresses
               PROVE  /\ Pointing(obj, a) + Ind(old, a) = Pointing(m.heap[part], a) + Ind(new, a)
                      /\ Pointing(m.heap[part], a) \in Nat /\ Ind(new, a) \in Nat /\ Ind(old, a) \in Nat
                      /\ Pointing(obj, a) \in Nat
    OBVIOUS
  <2>1. Pointing(obj, a) + Ind(old, a) = Pointing(m.heap[part], a) + Ind(new, a)
    BY <1>2, <1>8, PointingChanged DEF old
  <2>2. Pointing(m.heap[part], a) \in Nat /\ Pointing(obj, a) \in Nat
    BY <1>2, <1>12, UsesCounted DEF Records
  <2> HIDE DEF obj
  <2> QED
    BY <2>1, <2>2 DEF Ind
<1> HIDE DEF obj, h, lost
<1>14. x = [heap |-> h, shared |-> u.shared, lost |-> lost, lostShared |-> u.lostShared, undefined |-> u.undefined]
  <2>1. IsMemory(u)
    BY <1>8 DEF Shaped
  <2> QED
    BY <1>9, <2>1 DEF IsMemory
<1>15. x.heap = h /\ x.shared = u.shared /\ x.lost = lost /\ x.lostShared = u.lostShared /\ x.undefined = u.undefined
  BY <1>14
<1>16. IsMemory(x)
  BY <1>14, <1>15, Zenon DEF IsMemory
<1>17. Puts(u, x, part, obj)
  BY <1>11, <1>15, <1>16 DEF Puts
<1>18. all \in Tokens /\ \A a \in Addresses : all[a] = ext[a] + Ind(new, a) /\ ext[a] \in Nat
  BY PlusTokens
<1> HIDE DEF all
<1>19. Handing(u, x, all, ext, part, obj)
  <2> SUFFICES ASSUME NEW a \in Addresses
               PROVE  Pointing(m.heap[part], a) + u.lost[a] + all[a] = Pointing(obj, a) + lost[a] + ext[a]
    BY <1>8, <1>15 DEF Handing
  <2> DEFINE b == u.lost[a]
             c == ext[a]
             i == Ind(new, a)
             j == Ind(old, a)
             v == Pointing(m.heap[part], a)
             w == Pointing(obj, a)
  <2>1. b \in Nat /\ c \in Nat /\ i \in Nat /\ j \in Nat /\ v \in Nat /\ w \in Nat
        /\ w + j = v + i
    BY <1>10, <1>13, <1>18
  <2>2. lost[a] = b + j /\ all[a] = c + i
    BY <1>10, <1>18
  <2> HIDE DEF b, c, i, j, v, w
  <2>3. v + b + (c + i) = w + (b + j) + c
    BY <2>1
  <2> QED
    BY <2>2, <2>3 DEF b, c, i, j, v, w
<1>20. ObjectOK(part, obj)
  BY <1>1, <1>2, <1>7, <1>12 DEF ObjectOK, LeafOK
<1>21. tidy => TidyObject(obj)
  <2>1. tidy => TidyObject(m.heap[part])
    <3>1. part # Null
      BY <1>1, Kinds
    <3> QED
      BY <3>1 DEF Good, Tidy
  <2> QED
    BY <1>8, <1>12, <2>1 DEF TidyObject
<1>22. Good(x, ext, Null, tidy)
  <2>1. part \in DOMAIN u.heap /\ obj.count = u.heap[part].count /\ obj.data = u.heap[part].data
    BY <1>8, <1>12
  <2>2. CountOf(u.heap, obj.bytes) = 1 /\ part # Null
    BY <1>1, <1>7, <1>8, <1>12, Kinds DEF CountOf
  <2>3. x.lost \in [Addresses -> Nat]
    BY <1>10, <1>15
  <2> QED
    BY <1>6, <1>17, <1>18, <1>19, <1>20, <1>21, <2>1, <2>2, <2>3, RewriteGood
<1>23. DOMAIN x.heap = DOMAIN m.heap \cup {new} /\ x.heap[part] = obj
       /\ \A q \in DOMAIN m.heap \ {part} : x.heap[q] = m.heap[q]
  BY <1>8, <1>11, <1>15
<1>24. Writes(m, x, 1)
  <2>1. Used(m, Arrays) \in Nat /\ Used(x, Arrays) \in Nat /\ Used(x, Arrays) <= Used(m, Arrays) + 1
    <3>1. DOMAIN x.heap \subseteq DOMAIN m.heap \cup {new}
      BY <1>23
    <3> QED
      BY <1>1, <3>1, UsedLeft
  <2> QED
    BY <1>1, <1>7, <1>12, <1>23, <2>1 DEF Writes
<1> QED
  BY <1>7, <1>12, <1>22, <1>23, <1>24

\* A bound may be larger than what came.
LEMMA WritesMore ==
  ASSUME NEW m, NEW x, NEW k \in Nat, NEW n \in Nat, k <= n, Writes(m, x, k)
  PROVE  Writes(m, x, n)
<1>1. Used(m, Arrays) \in Nat /\ Used(x, Arrays) \in Nat /\ Used(x, Arrays) <= Used(m, Arrays) + k
  BY DEF Writes
<1>2. Used(x, Arrays) <= Used(m, Arrays) + n
  BY <1>1
<1> QED
  BY <1>1, <1>2 DEF Writes

\* Where nothing is done nothing was written.
LEMMA IdleWrites ==
  ASSUME NEW m, Shaped(m)
  PROVE  Writes(m, m, 0)
<1>1. SameMessages(m, m) /\ DOMAIN m.heap \subseteq DOMAIN m.heap
  BY DEF SameMessages
<1> QED
  BY <1>1, SameWrites

\* When the program is not defined any more nothing is done.
LEMMA NotDefined ==
  ASSUME NEW m, NEW ext, NEW tidy, State(m, ext, tidy)
  PROVE  Shaped(m) /\ (m.undefined = "no" => Good(m, ext, Null, tidy))
         /\ (m.undefined # "no" => m.undefined = "unset" /\ ~tidy)
BY DEF State, Good, Sound

\* A part gets its section and its arrays move into it.
LEMMA WriteNextState ==
  ASSUME NEW m, NEW ext \in Tokens, NEW tidy \in BOOLEAN, State(m, ext, tidy),
         NEW p \in DOMAIN m.heap \cap Parents, m.heap[p].bytes # Null, NEW part \in DOMAIN m.heap \cap Leaves,
         Writable(m, part), RoomIn(m, Arrays, 1), NEW x, x = WriteLeaf(GiveSection(m, p, part), part)
  PROVE  State(x, ext, tidy) /\ Writes(m, x, 1)
<1> DEFINE y == GiveSection(m, p, part)
<1>1. Shaped(m) /\ part \notin Arrays
  BY NotDefined, Kinds
<1>2. CASE m.undefined # "no"
  <2>1. x = m
    <3>1. y = m
      BY <1>2 DEF GiveSection
    <3> HIDE DEF y
    <3>2. WriteLeaf(m, part) = m
      BY <1>2 DEF WriteLeaf
    <3> QED
      BY <3>1, <3>2 DEF y
  <2>2. Writes(m, m, 0)
    BY <1>1, IdleWrites
  <2>3. Writes(m, m, 1)
    BY <2>2, WritesMore
  <2> QED
    BY <2>1, <2>3
<1>3. CASE m.undefined = "no"
  <2>1. Good(m, ext, Null, tidy)
    BY <1>3, NotDefined
  <2>2. Good(y, ext, Null, tidy) /\ Writes(m, y, 1) /\ y.heap[part].bytes \in Arrays
    BY <2>1, GiveSectionGood
  <2>3. x = WriteLeaf(y, part)
    OBVIOUS
  <2> HIDE DEF y
  <2>4. part \in DOMAIN y.heap \cap Leaves
    BY <1>1, <2>2 DEF Writes
  <2>5. Writable(y, part)
    BY <2>2 DEF Writable, Writes
  <2>6. State(x, ext, tidy) /\ SameObjects(y, x)
    BY <2>2, <2>3, <2>4, <2>5, WriteLeafState
  <2>7. Writes(y, x, 0)
    <3>1. Shaped(y)
      BY <2>2 DEF Good, Sound
    <3> QED
      BY <2>6, <3>1, SameWrites DEF SameObjects
  <2>8. Writes(m, x, 1 + 0)
    BY <2>2, <2>7, WritesTwice
  <2> QED
    BY <2>6, <2>8
<1> QED
  BY <1>2, <1>3

\* A message writes any number of its parts.
LEMMA WritePartsState ==
  ASSUME NEW m, NEW ext \in Tokens, NEW tidy \in BOOLEAN, State(m, ext, tidy),
         NEW p \in DOMAIN m.heap \cap Parents, m.heap[p].bytes # Null,
         NEW parts \in Seq(DOMAIN m.heap \cap Leaves), \A i \in 1 .. Len(parts) : Writable(m, parts[i]),
         RoomIn(m, Arrays, Len(parts)), NEW x, x = FoldLeft(WriteNext, m, Each(p, parts))
  PROVE  State(x, ext, tidy) /\ Writes(m, x, Len(parts))
<1> DEFINE S == DOMAIN m.heap \cap Leaves
           After(s) == Writing!Fold(m, Each(p, s))
           Done(s) == State(After(s), ext, tidy) /\ Writes(m, After(s), Len(s))
           T == {n \in Nat : \A s \in Seq(S) :
                   Len(s) = n /\ RoomIn(m, Arrays, n) /\ (\A i \in 1 .. Len(s) : Writable(m, s[i])) => Done(s)}
<1> HIDE DEF S
<1>1. Shaped(m) /\ Used(m, Arrays) \in Nat /\ MaxObjects \in Nat
  BY NotDefined, UsedLeft, ObjectsAssumption
<1>2. 0 \in T
  <2> SUFFICES ASSUME NEW s \in Seq(S), Len(s) = 0 PROVE Done(s)
    OBVIOUS
  <2>1. s = <<>>
    OBVIOUS
  <2>2. After(s) = m
    BY <2>1, EachEmpty, Writing!FoldEmpty
  <2>3. Writes(m, m, Len(s))
    BY <1>1, IdleWrites
  <2> HIDE DEF After
  <2> QED
    BY <2>2, <2>3
<1>3. ASSUME NEW n \in T PROVE n + 1 \in T
  <2> SUFFICES ASSUME NEW s \in Seq(S), Len(s) = n + 1,
                      RoomIn(m, Arrays, n + 1), \A i \in 1 .. Len(s) : Writable(m, s[i])
               PROVE  Done(s)
    OBVIOUS
  <2> DEFINE q == SubSeq(s, 1, n)
             c == s[n + 1]
  <2>a. q \in Seq(S) /\ Len(q) = n /\ c \in S /\ s = Append(q, c) /\ (\A i \in 1 .. n : q[i] = s[i])
        /\ n + 1 \in 1 .. Len(s)
    OBVIOUS
  <2>b. Writable(m, c)
    BY <2>a
  <2>c. ASSUME NEW i \in 1 .. n PROVE Writable(m, q[i])
    <3>1. q[i] = s[i] /\ i \in 1 .. Len(s)
      BY <2>a
    <3> HIDE DEF q
    <3> QED
      BY <3>1
  <2>1. q \in Seq(S) /\ Len(q) = n /\ c \in S /\ s = Append(q, c) /\ Writable(m, c)
        /\ \A i \in 1 .. Len(q) : Writable(m, q[i])
    BY <2>a, <2>b, <2>c
  <2>2. n \in Nat
    OBVIOUS
  <2> HIDE DEF q, c
  <2>3. RoomIn(m, Arrays, n)
    BY <1>1, <2>2 DEF RoomIn
  <2>4. Done(q)
    <3> HIDE DEF Done
    <3> QED
      BY <2>1, <2>3
  <2> DEFINE y == After(q)
             z == WriteLeaf(GiveSection(y, p, c), c)
  <2>5. State(y, ext, tidy) /\ Writes(m, y, n)
    BY <2>1, <2>4
  <2>6. After(s) = z
    <3>a. Each(p, q) \in Seq({p} \X S) /\ <<p, c>> \in {p} \X S
      BY <2>1, EachAppend
    <3>b. Appends(Each(p, s), Each(p, q), <<p, c>>)
      BY <2>1, EachAppend
    <3>1. /\ Each(p, q) \in Seq({p} \X S) /\ <<p, c>> \in {p} \X S
          /\ Each(p, s) = Append(Each(p, q), <<p, c>>)
      BY <3>a, <3>b DEF Appends
    <3>2. After(s) = WriteNext(y, <<p, c>>)
      BY <3>1, Writing!FoldAppend
    <3>3. <<p, c>>[1] = p /\ <<p, c>>[2] = c
      OBVIOUS
    <3> HIDE DEF After, y
    <3> QED
      BY <3>2, <3>3, Zenon DEF WriteNext
  <2> HIDE DEF y
  <2>7. /\ p \in DOMAIN y.heap \cap Parents /\ y.heap[p].bytes # Null
        /\ c \in DOMAIN y.heap \cap Leaves
        /\ Used(y, Arrays) \in Nat /\ Used(y, Arrays) <= Used(m, Arrays) + n
    BY <2>1, <2>5, Kinds DEF Writes, S
  <2>8. RoomIn(y, Arrays, 1)
    BY <1>1, <2>2, <2>7 DEF RoomIn
  <2>9. Writable(y, c) /\ z = WriteLeaf(GiveSection(y, p, c), c)
    BY <2>1, <2>5 DEF Writable, Writes, S
  <2> HIDE DEF z, T
  <2>10. State(z, ext, tidy) /\ Writes(y, z, 1)
    BY <2>5, <2>7, <2>8, <2>9, WriteNextState
  <2>11. Writes(m, z, n + 1)
    BY <2>2, <2>5, <2>10, WritesTwice
  <2> HIDE DEF After
  <2> QED
    BY <2>6, <2>10, <2>11
<1> HIDE DEF Done
<1>4. T = Nat
  <2>1. T \subseteq Nat
    OBVIOUS
  <2> HIDE DEF T
  <2> QED
    BY <1>2, <1>3, <2>1, Writing!SetInduction
<1>5. Done(parts)
  <2>1. Len(parts) \in T /\ parts \in Seq(S)
    BY <1>4 DEF S
  <2> QED
    BY <2>1
<1> QED
  BY <1>5, FoldsAre DEF Done

\* The messages and the parts that are alive stay alive.
KeepsMessages(m, x) == DOMAIN x.heap \ Arrays = DOMAIN m.heap \ Arrays

\* free() takes the array o, and nobody counts that its data lost a reference.
Frees(m, x, o, d) ==
  /\ IsMemory(x) /\ x.heap = [q \in DOMAIN m.heap \ {o} |-> m.heap[q]]
  /\ x.shared = m.shared /\ x.lostShared = [m.lostShared EXCEPT ![d] = @ + 1]
  /\ x.lost = m.lost /\ x.undefined = m.undefined

\* An array that had one reference, given up by its owner, is freed.
LEMMA FreesGood ==
  ASSUME NEW m, NEW x, NEW ext \in Tokens, NEW o \in DOMAIN m.heap \cap Arrays,
         Good(m, Plus(ext, o), Null, FALSE), m.heap[o].count = 1,
         \A l \in DOMAIN m.heap \cap Leaves : m.heap[l].bytes # o,
         Frees(m, x, o, m.heap[o].data)
  PROVE  Good(x, ext, Null, FALSE)
<1> DEFINE d == m.heap[o].data
           all == Plus(ext, o)
<1>1. Booked(m, all) /\ Shaped(m) /\ Private(m, Null) /\ m.undefined = "no" /\ o \in Addresses
  BY Kinds DEF Good, Sound, Booked
<1>2. ArrayOK(m.heap[o]) /\ d \in DOMAIN m.shared /\ d \in 1 .. MaxObjects
  <2>1. ArrayOK(m.heap[o])
    BY <1>1, ShapedHeap DEF ObjectOK
  <2> HIDE DEF all
  <2> QED
    BY <1>1, <2>1, DataAlive
<1>3. all \in Tokens /\ \A a \in Addresses : all[a] = ext[a] + Ind(o, a) /\ ext[a] \in Nat
  BY PlusTokens
<1> HIDE DEF d, all
<1>4. DOMAIN x.heap = DOMAIN m.heap \ {o} /\ (\A q \in DOMAIN x.heap : x.heap[q] = m.heap[q])
      /\ x.lost = m.lost /\ x.shared = m.shared /\ x.undefined = "no"
      /\ x.heap = [q \in DOMAIN x.heap |-> x.heap[q]]
  BY <1>1 DEF Frees
<1>5. x.lostShared \in [1 .. MaxObjects -> Nat]
      /\ \A k \in 1 .. MaxObjects : x.lostShared[k] = m.lostShared[k] + Ind(d, k) /\ m.lostShared[k] \in Nat
  <2>1. x.lostShared = [m.lostShared EXCEPT ![d] = @ + 1] /\ m.lostShared \in [1 .. MaxObjects -> Nat]
    BY <1>1 DEF Frees, d, Shaped
  <2> DEFINE f == m.lostShared
             g == x.lostShared
  <2>2. g = [f EXCEPT ![d] = @ + 1] /\ f \in [1 .. MaxObjects -> Nat] /\ d \in 1 .. MaxObjects
    BY <1>2, <2>1
  <2> HIDE DEF f, g
  <2>3. g \in [1 .. MaxObjects -> Nat]
    BY <2>2
  <2>4. ASSUME NEW k \in 1 .. MaxObjects PROVE g[k] = f[k] + Ind(d, k) /\ f[k] \in Nat
    BY <2>2 DEF Ind
  <2> QED
    BY <2>3, <2>4 DEF f, g
<1>6. Shaped(x)
  <2>1. HeapOK(x.heap)
    BY <1>1, <1>4 DEF Shaped, HeapOK
  <2>2. IsMemory(x)
    BY DEF Frees
  <2> QED
    BY <1>1, <1>4, <1>5, <2>1, <2>2 DEF Shaped
<1>7. ASSUME NEW a \in Addresses
      PROVE  (IF a = o THEN CountOf(x.heap, o) - CountOf(m.heap, o) ELSE 0)
               = PointingFrom(x.heap, o, a) - PointingFrom(m.heap, o, a) + (x.lost[a] - m.lost[a]) + (ext[a] - all[a])
  <2>1. PointingFrom(x.heap, o, a) = 0 /\ PointingFrom(m.heap, o, a) = 0
    <3>1. m.heap[o].bytes # a
      BY <1>2, Kinds DEF ArrayOK
    <3>2. Occ(m.heap[o].fields, a) = 0
      BY <1>2, OccEmpty DEF ArrayOK
    <3> QED
      BY <1>4, <3>1, <3>2 DEF PointingFrom, Pointing, Ind
  <2>2. CountOf(x.heap, o) = 0 /\ CountOf(m.heap, o) = 1
    BY <1>4 DEF CountOf
  <2>3. x.lost[a] = m.lost[a] /\ m.lost[a] \in Nat
    BY <1>1, <1>4 DEF Shaped
  <2> QED
    BY <1>3, <2>1, <2>2, <2>3 DEF Ind
<1>8. ASSUME NEW k \in 1 .. MaxObjects
      PROVE  SharesOf(x.shared, k) - SharesOf(m.shared, k)
               = ViewingFrom(x.heap, o, k) - ViewingFrom(m.heap, o, k) + (x.lostShared[k] - m.lostShared[k])
  <2>1. ViewingFrom(x.heap, o, k) = 0 /\ ViewingFrom(m.heap, o, k) = Ind(d, k)
    BY <1>4 DEF ViewingFrom, d
  <2>2. x.lostShared[k] = m.lostShared[k] + Ind(d, k) /\ m.lostShared[k] \in Nat /\ Ind(d, k) \in Nat
    BY <1>5 DEF Ind
  <2>3. SharesOf(x.shared, k) = SharesOf(m.shared, k) /\ SharesOf(m.shared, k) \in Nat
    BY <1>1, <1>4, SharesNatural
  <2> QED
    BY <2>1, <2>2, <2>3
<1>9. DOMAIN m.heap \ {o} = DOMAIN x.heap \ {o} /\ \A q \in DOMAIN m.heap \ {o} : m.heap[q] = x.heap[q]
  BY <1>4
<1>10. Booked(x, ext)
  BY <1>1, <1>3, <1>6, <1>7, <1>8, <1>9, Stepped
<1>11. Private(x, Null)
  BY <1>1, <1>4 DEF Private, CountOf
<1> QED
  BY <1>4, <1>10, <1>11 DEF Good, Sound, Booked

\* u is m without the pointer of a part to its bytes.
Detached(m, u, part) == u = [m EXCEPT !.heap[part].bytes = Garbage]

\* The bytes of a part are given up: the pointer goes, the reference is in our hands.
LEMMA DetachGood ==
  ASSUME NEW m, NEW ext \in Tokens, Good(m, ext, Null, FALSE), NEW part \in DOMAIN m.heap \cap Leaves,
         NEW u, Detached(m, u, part)
  PROVE  /\ Good(u, Plus(ext, m.heap[part].bytes), Null, FALSE)
         /\ Puts(m, u, part, WithBytes(m.heap[part], Garbage)) /\ u.lost = m.lost
<1> DEFINE old == m.heap[part].bytes
           obj == WithBytes(m.heap[part], Garbage)
           all == Plus(ext, old)
<1>1. Shaped(m) /\ part \in Addresses /\ part \notin Arrays /\ part \notin Parents /\ Garbage \in Int
      /\ Garbage \notin Arrays
  BY Kinds DEF Good, Sound, Garbage
<1>2. LeafOK(m.heap[part]) /\ m.heap[part] \in Records
  BY <1>1, ShapedHeap DEF ObjectOK
<1>3. u = Rewritten(m, part, obj)
  BY DEF Detached, Rewritten, WithBytes
<1>4. /\ obj \in Records /\ obj.bytes = Garbage
      /\ obj.class = m.heap[part].class /\ obj.fields = m.heap[part].fields /\ obj.count = m.heap[part].count
      /\ obj.data = m.heap[part].data /\ obj.destroy = m.heap[part].destroy
  BY <1>1, <1>2, Rebyted
<1>5. \A a \in Addresses : /\ Pointing(obj, a) + Ind(old, a) = Pointing(m.heap[part], a) + Ind(Garbage, a)
                           /\ Pointing(m.heap[part], a) \in Nat
  BY <1>1, <1>2, PointingChanged
<1>6. \A a \in Addresses : Pointing(obj, a) \in Nat
  BY <1>4, UsesCounted DEF Records
<1>7. Puts(m, u, part, obj) /\ u.lost = m.lost
  <2> HIDE DEF obj
  <2> QED
    BY <1>1, <1>3, RewrittenPuts
<1>8. all \in Tokens /\ \A a \in Addresses : all[a] = ext[a] + Ind(old, a) /\ ext[a] \in Nat
  BY PlusTokens
<1> HIDE DEF obj, all, old
<1>9. Handing(m, u, ext, all, part, obj)
  <2> SUFFICES ASSUME NEW a \in Addresses
               PROVE  Pointing(m.heap[part], a) + m.lost[a] + ext[a] = Pointing(obj, a) + m.lost[a] + all[a]
    BY <1>7 DEF Handing
  <2> DEFINE b == m.lost[a]
             c == ext[a]
             j == Ind(old, a)
             v == Pointing(m.heap[part], a)
             w == Pointing(obj, a)
  <2>1. Ind(Garbage, a) = 0
    BY Kinds DEF Ind
  <2>2. b \in Nat /\ c \in Nat /\ j \in Nat /\ v \in Nat /\ w \in Nat /\ w + j = v
    <3>1. b \in Nat
      BY <1>1 DEF Shaped
    <3>2. j \in Nat
      BY DEF Ind
    <3> QED
      BY <1>5, <1>6, <1>8, <2>1, <3>1, <3>2
  <2>3. all[a] = c + j
    BY <1>8
  <2> HIDE DEF b, c, j, v, w
  <2>4. v + b + c = w + b + (c + j)
    BY <2>2
  <2> QED
    BY <2>3, <2>4 DEF b, c, v, w
<1>10. ObjectOK(part, obj)
  BY <1>1, <1>2, <1>4 DEF ObjectOK, LeafOK
<1>11. Good(u, all, Null, FALSE)
  <2>1. u.lost \in [Addresses -> Nat]
    BY <1>1, <1>7 DEF Shaped
  <2>2. FALSE \in BOOLEAN /\ obj.bytes \notin Arrays
    BY <1>1, <1>4
  <2> QED
    BY <1>4, <1>7, <1>8, <1>9, <1>10, <2>1, <2>2, RewriteGood
<1> QED
  BY <1>7, <1>11 DEF all, old, obj

\* The bytes of a part are freed without a count, as a transaction does that cannot be written.
LEMMA FreeBytesState ==
  ASSUME NEW m, NEW ext \in Tokens, State(m, ext, FALSE),
         NEW part \in (DOMAIN m.heap \cap Leaves) \cup {Garbage}, NEW x, x = FreeBytes(m, part)
  PROVE  State(x, ext, FALSE) /\ KeepsMessages(m, x)
<1>1. Shaped(m) /\ (m.undefined = "no" => Good(m, ext, Null, FALSE))
  BY NotDefined
<1>2. CASE m.undefined # "no"
  BY <1>2 DEF FreeBytes, KeepsMessages
<1>3. CASE m.undefined = "no" /\ part = Garbage
  <2>1. x = Undefined(m, Garbage)
    BY <1>3 DEF FreeBytes
  <2>2. State(x, ext, FALSE) /\ SameMessages(m, x)
    BY <1>1, <2>1, UnsetUndefined
  <2> QED
    BY <2>2 DEF SameMessages, KeepsMessages
<1>4. CASE m.undefined = "no" /\ part # Garbage
  <2> DEFINE b == m.heap[part].bytes
             d == m.heap[b].data
             u == [m EXCEPT !.heap[part].bytes = Garbage]
  <2>1. Good(m, ext, Null, FALSE) /\ Booked(m, ext) /\ Private(m, Null) /\ IsMemory(m)
        /\ part \in DOMAIN m.heap \cap Leaves
        /\ part \in Addresses /\ part \notin Arrays /\ part # Null
    BY <1>1, <1>4, Kinds DEF Good, Sound, Booked, Shaped
  <2>2. LeafOK(m.heap[part])
    BY <1>1, <2>1, ShapedHeap DEF ObjectOK
  <2>3. CASE b \notin Arrays
    <3>1. b \in {Null, Garbage} /\ b \notin DOMAIN m.heap
      <4>1. b \in {Null, Garbage}
        BY <2>2, <2>3 DEF LeafOK
      <4> QED
        BY <1>1, <4>1, ShapedHeap, Kinds
    <3>2. x = Undefined(m, b)
      BY <1>4, <3>1 DEF FreeBytes, Live
    <3>3. State(x, ext, FALSE) /\ SameMessages(m, x)
      BY <1>1, <3>1, <3>2, UnsetUndefined
    <3> QED
      BY <3>3 DEF SameMessages, KeepsMessages
  <2>4. CASE b \in Arrays
    <3>1. /\ b \in DOMAIN m.heap /\ CountOf(m.heap, b) = 1
          /\ \A q \in DOMAIN m.heap : q # part => Pointing(m.heap[q], b) = 0
      BY <2>1, <2>4, BytesAlone
    <3>2. Good(u, Plus(ext, b), Null, FALSE) /\ Puts(m, u, part, WithBytes(m.heap[part], Garbage)) /\ u.lost = m.lost
      BY <2>1, DetachGood DEF Detached
    <3>3. DOMAIN u.heap = DOMAIN m.heap /\ u.heap[part] = WithBytes(m.heap[part], Garbage)
          /\ \A q \in DOMAIN m.heap \ {part} : u.heap[q] = m.heap[q]
      <4> HIDE DEF u
      <4> QED
        BY <2>1, <3>2 DEF Puts
    <3>4. u.heap[b] = m.heap[b] /\ u.heap[b].count = 1 /\ b # part /\ u.heap[b].data = d
      <4> HIDE DEF u
      <4> QED
        BY <2>1, <2>4, <3>1, <3>3 DEF CountOf
    <3>5. x = [m EXCEPT !.heap = [Without(@, b) EXCEPT ![part].bytes = Garbage], !.lostShared[d] = @ + 1]
      BY <1>4, <3>1, Zenon DEF FreeBytes, Live
    <3> DEFINE h == [q \in DOMAIN m.heap \ {b} |-> u.heap[q]]
               f == [m.lostShared EXCEPT ![d] = @ + 1]
    <3>6. [Without(m.heap, b) EXCEPT ![part].bytes = Garbage] = h
      <4>1. Without(m.heap, b) = [q \in DOMAIN m.heap \ {b} |-> m.heap[q]]
        BY DEF Without, Restrict
      <4> HIDE DEF u
      <4> QED
        BY <2>1, <3>3, <3>4, <4>1 DEF WithBytes
    <3>7. x = [m EXCEPT !.heap = h, !.lostShared = f]
      <4> HIDE DEF h
      <4> QED
        BY <3>5, <3>6
    <3> HIDE DEF h, f
    <3>8. x = [heap |-> h, shared |-> m.shared, lost |-> m.lost, lostShared |-> f, undefined |-> m.undefined]
      BY <2>1, <3>7 DEF IsMemory
    <3>9. x.heap = h /\ x.shared = m.shared /\ x.lost = m.lost /\ x.lostShared = f /\ x.undefined = m.undefined
      BY <3>8
    <3>10. IsMemory(x)
      BY <3>8, <3>9, Zenon DEF IsMemory
    <3>11. Frees(u, x, b, u.heap[b].data)
      <4>1. u.shared = m.shared /\ u.lostShared = m.lostShared /\ u.undefined = m.undefined
        BY <3>2 DEF Puts
      <4> HIDE DEF u, b, d
      <4> QED
        BY <3>2, <3>3, <3>4, <3>9, <3>10, <4>1 DEF Frees, h, f
    <3> HIDE DEF u
    <3>12. \A l \in DOMAIN u.heap \cap Leaves : u.heap[l].bytes # b
      <4> SUFFICES ASSUME NEW l \in DOMAIN m.heap \cap Leaves, u.heap[l].bytes = b PROVE FALSE
        BY <3>3
      <4>1. CASE l = part
        <5>1. WithBytes(m.heap[part], Garbage).bytes = Garbage
          BY <2>1, <1>1, ShapedHeap, Rebyted, Kinds DEF Garbage
        <5> HIDE DEF b
        <5> QED
          BY <2>4, <3>3, <4>1, <5>1, Kinds
      <4>2. CASE l # part
        <5>1. m.heap[l].bytes = b /\ Pointing(m.heap[l], b) = 0 /\ m.heap[l] \in Records
          BY <1>1, <3>1, <3>3, <4>2, ShapedHeap
        <5>2. Occ(m.heap[l].fields, b) \in Nat
          BY <5>1, PlacesFinite DEF Records
        <5> HIDE DEF b
        <5> QED
          BY <5>1, <5>2 DEF Pointing, Ind
      <4> QED
        BY <4>1, <4>2
    <3>13. Good(x, ext, Null, FALSE)
      <4>1. b \in DOMAIN u.heap \cap Arrays
        BY <2>4, <3>1, <3>3
      <4> HIDE DEF b, d
      <4> QED
        BY <3>2, <3>4, <3>11, <3>12, <4>1, FreesGood
    <3>14. KeepsMessages(m, x)
      <4>1. DOMAIN x.heap = DOMAIN m.heap \ {b}
        BY <3>9 DEF h
      <4> QED
        BY <2>4, <4>1 DEF KeepsMessages
    <3> QED
      BY <3>13, <3>14 DEF State
  <2> QED
    BY <2>3, <2>4
<1> QED
  BY <1>2, <1>3, <1>4

\* The bytes of a part are given back properly.
LEMMA DecrementBytesState ==
  ASSUME NEW m, NEW ext \in Tokens, State(m, ext, FALSE),
         NEW part \in (DOMAIN m.heap \cap Leaves) \cup {Garbage}, NEW x, x = DecrementBytes(m, part)
  PROVE  State(x, ext, FALSE) /\ KeepsMessages(m, x)
<1>1. Shaped(m) /\ (m.undefined = "no" => Good(m, ext, Null, FALSE))
  BY NotDefined
<1>2. CASE m.undefined # "no"
  BY <1>2 DEF DecrementBytes, KeepsMessages
<1>3. CASE m.undefined = "no" /\ part = Garbage
  <2>1. x = Undefined(m, Garbage)
    BY <1>3 DEF DecrementBytes
  <2>2. State(x, ext, FALSE) /\ SameMessages(m, x)
    BY <1>1, <2>1, UnsetUndefined
  <2> QED
    BY <2>2 DEF SameMessages, KeepsMessages
<1>4. CASE m.undefined = "no" /\ part # Garbage
  <2> DEFINE b == m.heap[part].bytes
             u == [m EXCEPT !.heap[part].bytes = Garbage]
  <2>1. Good(m, ext, Null, FALSE) /\ part \in DOMAIN m.heap \cap Leaves /\ part \in Addresses
    BY <1>1, <1>4, Kinds
  <2>2. LeafOK(m.heap[part])
    BY <1>1, <2>1, ShapedHeap DEF ObjectOK
  <2>3. Good(u, Plus(ext, b), Null, FALSE) /\ Puts(m, u, part, WithBytes(m.heap[part], Garbage))
    BY <2>1, DetachGood DEF Detached
  <2>4. x = LowerArray(u, b) /\ b \in Arrays \cup {Null, Garbage}
    BY <1>4, <2>2 DEF DecrementBytes, LeafOK
  <2> HIDE DEF u, b
  <2>5. State(u, Plus(ext, b), FALSE) /\ FALSE \in BOOLEAN
    BY <2>3 DEF State
  <2>6. State(LowerArray(u, b), ext, FALSE) /\ SameMessages(u, LowerArray(u, b))
    BY <2>4, <2>5, LowerArrayState
  <2>7. DOMAIN u.heap = DOMAIN m.heap
    BY <2>1, <2>3 DEF Puts
  <2> QED
    BY <2>4, <2>6, <2>7 DEF SameMessages, KeepsMessages
<1> QED
  BY <1>2, <1>3, <1>4

\* The bytes of any number of parts are freed.
LEMMA FreeAllState ==
  ASSUME NEW m, NEW ext \in Tokens, State(m, ext, FALSE),
         NEW parts \in Seq((DOMAIN m.heap \cap Leaves) \cup {Garbage}), NEW x, x = FoldLeft(FreeBytes, m, parts)
  PROVE  State(x, ext, FALSE) /\ KeepsMessages(m, x)
<1> DEFINE S == (DOMAIN m.heap \cap Leaves) \cup {Garbage}
           After(s) == Freeing!Fold(m, s)
           Done(s) == State(After(s), ext, FALSE) /\ KeepsMessages(m, After(s))
           T == {n \in Nat : \A s \in Seq(S) : Len(s) = n => Done(s)}
<1> HIDE DEF S
<1>1. 0 \in T
  <2> SUFFICES ASSUME NEW s \in Seq(S), Len(s) = 0 PROVE Done(s)
    OBVIOUS
  <2>1. s = <<>>
    OBVIOUS
  <2>2. After(s) = m
    BY <2>1, Freeing!FoldEmpty
  <2>3. KeepsMessages(m, m)
    BY DEF KeepsMessages
  <2> HIDE DEF After
  <2> QED
    BY <2>2, <2>3
<1>2. ASSUME NEW n \in T PROVE n + 1 \in T
  <2> SUFFICES ASSUME NEW s \in Seq(S), Len(s) = n + 1 PROVE Done(s)
    <3>1. n + 1 \in Nat
      OBVIOUS
    <3> HIDE DEF Done
    <3> QED
      BY <3>1
  <2> DEFINE q == SubSeq(s, 1, n)
             c == s[n + 1]
  <2>1. q \in Seq(S) /\ Len(q) = n /\ c \in S /\ s = Append(q, c)
    OBVIOUS
  <2> HIDE DEF q, c
  <2>2. Done(q)
    <3> HIDE DEF Done
    <3> QED
      BY <2>1
  <2> DEFINE y == After(q)
             z == FreeBytes(y, c)
  <2>3. State(y, ext, FALSE) /\ KeepsMessages(m, y)
    BY <2>1, <2>2
  <2>4. After(s) = z
    BY <2>1, Freeing!FoldAppend
  <2> HIDE DEF y
  <2>5. c \in (DOMAIN y.heap \cap Leaves) \cup {Garbage} /\ z = FreeBytes(y, c)
    BY <2>1, <2>3, Kinds DEF KeepsMessages, S
  <2> HIDE DEF z, T
  <2>6. State(z, ext, FALSE) /\ KeepsMessages(y, z)
    BY <2>3, <2>5, FreeBytesState
  <2>7. KeepsMessages(m, z)
    BY <2>3, <2>6 DEF KeepsMessages
  <2> HIDE DEF After
  <2> QED
    BY <2>4, <2>6, <2>7
<1> HIDE DEF Done
<1>3. T = Nat
  <2>1. T \subseteq Nat
    OBVIOUS
  <2> HIDE DEF T
  <2> QED
    BY <1>1, <1>2, <2>1, Freeing!SetInduction
<1>4. Done(parts)
  <2>1. Len(parts) \in T /\ parts \in Seq(S)
    BY <1>3 DEF S
  <2> QED
    BY <2>1
<1> QED
  BY <1>4, FoldsAre DEF Done

\* The bytes of any number of parts are given back.
LEMMA GiveBackAllState ==
  ASSUME NEW m, NEW ext \in Tokens, State(m, ext, FALSE),
         NEW parts \in Seq((DOMAIN m.heap \cap Leaves) \cup {Garbage}), NEW x, x = FoldLeft(DecrementBytes, m, parts)
  PROVE  State(x, ext, FALSE) /\ KeepsMessages(m, x)
<1> DEFINE S == (DOMAIN m.heap \cap Leaves) \cup {Garbage}
           After(s) == GivingBack!Fold(m, s)
           Done(s) == State(After(s), ext, FALSE) /\ KeepsMessages(m, After(s))
           T == {n \in Nat : \A s \in Seq(S) : Len(s) = n => Done(s)}
<1> HIDE DEF S
<1>1. 0 \in T
  <2> SUFFICES ASSUME NEW s \in Seq(S), Len(s) = 0 PROVE Done(s)
    OBVIOUS
  <2>1. s = <<>>
    OBVIOUS
  <2>2. After(s) = m
    BY <2>1, GivingBack!FoldEmpty
  <2>3. KeepsMessages(m, m)
    BY DEF KeepsMessages
  <2> HIDE DEF After
  <2> QED
    BY <2>2, <2>3
<1>2. ASSUME NEW n \in T PROVE n + 1 \in T
  <2> SUFFICES ASSUME NEW s \in Seq(S), Len(s) = n + 1 PROVE Done(s)
    <3>1. n + 1 \in Nat
      OBVIOUS
    <3> HIDE DEF Done
    <3> QED
      BY <3>1
  <2> DEFINE q == SubSeq(s, 1, n)
             c == s[n + 1]
  <2>1. q \in Seq(S) /\ Len(q) = n /\ c \in S /\ s = Append(q, c)
    OBVIOUS
  <2> HIDE DEF q, c
  <2>2. Done(q)
    <3> HIDE DEF Done
    <3> QED
      BY <2>1
  <2> DEFINE y == After(q)
             z == DecrementBytes(y, c)
  <2>3. State(y, ext, FALSE) /\ KeepsMessages(m, y)
    BY <2>1, <2>2
  <2>4. After(s) = z
    BY <2>1, GivingBack!FoldAppend
  <2> HIDE DEF y
  <2>5. c \in (DOMAIN y.heap \cap Leaves) \cup {Garbage} /\ z = DecrementBytes(y, c)
    BY <2>1, <2>3, Kinds DEF KeepsMessages, S
  <2> HIDE DEF z, T
  <2>6. State(z, ext, FALSE) /\ KeepsMessages(y, z)
    BY <2>3, <2>5, DecrementBytesState
  <2>7. KeepsMessages(m, z)
    BY <2>3, <2>6 DEF KeepsMessages
  <2> HIDE DEF After
  <2> QED
    BY <2>4, <2>6, <2>7
<1> HIDE DEF Done
<1>3. T = Nat
  <2>1. T \subseteq Nat
    OBVIOUS
  <2> HIDE DEF T
  <2> QED
    BY <1>1, <1>2, <2>1, GivingBack!SetInduction
<1>4. Done(parts)
  <2>1. Len(parts) \in T /\ parts \in Seq(S)
    BY <1>3 DEF S
  <2> QED
    BY <2>1
<1> QED
  BY <1>4, FoldsAre DEF Done

\* A part of a list, also behind its end, where there is garbage.
LEMMA FirstOfList ==
  ASSUME NEW S, NEW s \in Seq(S), NEW n \in Nat
  PROVE  FirstOf(s, n) \in Seq(S \cup {Garbage})
<1>1. FirstOf(s, n) \in [1 .. n -> S \cup {Garbage}]
  BY DEF FirstOf
<1> QED
  BY <1>1

\* The inputs and the outputs are parts of the message.
LEMMA InputsOutputs ==
  ASSUME NEW m, NEW p, NEW S, m.heap[p].fields \in Seq(S)
  PROVE  Inputs(m, p) \in Seq(S) /\ Outputs(m, p) \in Seq(S)
         /\ InputsNum(m, p) \in Nat /\ InputsNum(m, p) <= Len(m.heap[p].fields)
<1> DEFINE s == m.heap[p].fields
           I == {k \in DOMAIN m.heap[p].fields : Class(m, m.heap[p].fields[k]) = "TransactionInput"}
           n == InputsNum(m, p)
<1>1. n \in Nat /\ n <= Len(s)
  <2>1. I \subseteq DOMAIN s /\ Len(s) \in Nat /\ DOMAIN s = 1 .. Len(s) /\ n = Cardinality(I)
    BY DEF InputsNum
  <2> HIDE DEF I, n, s
  <2> QED
    BY <2>1, SomeIndices
<1>2. Inputs(m, p) = SubSeq(s, 1, n) /\ Outputs(m, p) = SubSeq(s, n + 1, Len(s)) /\ s \in Seq(S)
  BY DEF Inputs, Outputs
<1> HIDE DEF s, n
<1>3. SubSeq(s, 1, n) \in Seq(S) /\ SubSeq(s, n + 1, Len(s)) \in Seq(S)
  BY <1>1, <1>2
<1> QED
  BY <1>1, <1>2, <1>3 DEF s, n

\* What a transaction undoes when a part cannot be written.
LEMMA UndoWritingState ==
  ASSUME NEW m, NEW ext \in Tokens, State(m, ext, FALSE), NEW p, m.heap[p].fields \in Seq(DOMAIN m.heap \cap Leaves),
         NEW k \in Nat, NEW x, x = UndoWriting(m, p, k)
  PROVE  State(x, ext, FALSE) /\ KeepsMessages(m, x)
<1> DEFINE S == DOMAIN m.heap \cap Leaves
           G == S \cup {Garbage}
           inputs == Inputs(m, p)
           outputs == Outputs(m, p)
           n == IF k <= Len(inputs) THEN k ELSE k - Len(inputs)
           first == FirstOf(inputs, n)
           rest == IF k <= Len(inputs) THEN <<>> ELSE FirstOf(outputs, n)
<1>1. inputs \in Seq(S) /\ outputs \in Seq(S)
  BY InputsOutputs
<1>2. x = FoldLeft(FreeBytes, m, first \o rest)
  BY Zenon DEF UndoWriting
<1> HIDE DEF inputs, outputs, S
<1>3. n \in Nat
  BY <1>1
<1> HIDE DEF n
<1>4. first \in Seq(G) /\ FirstOf(outputs, n) \in Seq(G)
  BY <1>1, <1>3, FirstOfList
<1>5. first \o rest \in Seq(G)
  <2>1. rest \in Seq(G)
    BY <1>4
  <2> HIDE DEF first, rest, G
  <2> QED
    BY <1>4, <2>1
<1> HIDE DEF first, rest
<1> QED
  BY <1>2, <1>5, FreeAllState DEF S

\* What it undoes when there is no room for the lock time.
LEMMA UndoAtLockTimeState ==
  ASSUME NEW m, NEW ext \in Tokens, State(m, ext, FALSE), NEW p, m.heap[p].fields \in Seq(DOMAIN m.heap \cap Leaves),
         NEW x, x = UndoAtLockTime(m, p)
  PROVE  State(x, ext, FALSE) /\ KeepsMessages(m, x)
<1> DEFINE S == DOMAIN m.heap \cap Leaves
           G == S \cup {Garbage}
           inputs == Inputs(m, p)
           outputs == Outputs(m, p)
           first == FirstOf(outputs, Len(inputs))
           y == FoldLeft(FreeBytes, m, inputs)
<1>1. inputs \in Seq(S) /\ outputs \in Seq(S)
  BY InputsOutputs
<1>2. x = FoldLeft(DecrementBytes, y, first)
  BY DEF UndoAtLockTime
<1>3. y = FoldLeft(FreeBytes, m, inputs)
  OBVIOUS
<1> HIDE DEF inputs, outputs, S, y
<1>4. inputs \in Seq(G) /\ first \in Seq(G)
  <2>1. inputs \in Seq(G)
    BY <1>1
  <2>2. Len(inputs) \in Nat
    BY <1>1
  <2> QED
    BY <1>1, <2>1, <2>2, FirstOfList
<1> HIDE DEF first
<1>5. State(y, ext, FALSE) /\ KeepsMessages(m, y)
  BY <1>3, <1>4, FreeAllState DEF S
<1>6. first \in Seq((DOMAIN y.heap \cap Leaves) \cup {Garbage})
  <2>1. DOMAIN y.heap \cap Leaves = S
    BY <1>5, Kinds DEF KeepsMessages, S
  <2> QED
    BY <1>4, <2>1
<1>7. State(x, ext, FALSE) /\ KeepsMessages(y, x)
  BY <1>2, <1>5, <1>6, GiveBackAllState
<1> QED
  BY <1>5, <1>7 DEF KeepsMessages

\* The least element of a set is below every one.
LEMMA MinLeast ==
  ASSUME NEW S \in SUBSET Nat, NEW y \in S
  PROVE  Min(S) \in S /\ Min(S) <= y
<1>1. PICK x \in S : \A z \in S : x <= z
  BY Lowering!LeastNumber
<1> QED
  BY <1>1 DEF Min

\* A message is written: all of it, or what a refusal undoes is undone.
LEMMA WriteParentState ==
  ASSUME NEW m, NEW ext \in Tokens, NEW tidy \in BOOLEAN, Good(m, ext, Null, tidy),
         NEW p \in DOMAIN m.heap \cap Parents, m.heap[p].bytes # Null,
         \A i \in 1 .. Len(m.heap[p].fields) : m.heap[p].fields[i] # Garbage,
         RoomIn(m, Arrays, Len(m.heap[p].fields)),
         NEW stop, tidy => ~WriteRefused(m, p, stop), NEW x, x = WriteParent(m, p, stop)
  PROVE  State(x, ext, tidy)
<1> DEFINE parts == m.heap[p].fields
           upTo == IF stop = BeforeOutputs THEN InputsNum(m, p) ELSE Len(parts)
           fails == {k \in 1 .. upTo : stop = Part(k) \/ ~Writable(m, parts[k])}
           Write(n) == FoldLeft(WriteNext, m, Each(p, SubSeq(parts, 1, n)))
           S == DOMAIN m.heap \cap Leaves
           j == Min(fails)
           y == Write(j - 1)
           z == GiveSection(y, p, parts[j])
           w == Write(upTo)
<1>1. Shaped(m) /\ Booked(m, ext) /\ p \in Addresses /\ p \notin Arrays /\ p \notin Leaves
      /\ Used(m, Arrays) \in Nat /\ MaxObjects \in Nat /\ State(m, ext, tidy) /\ FALSE \in BOOLEAN
  BY Kinds, UsedLeft, ObjectsAssumption DEF Good, Sound, Booked, State
<1>2. parts \in Seq(S) /\ Len(parts) \in Nat
  <2>1. ParentOK(m.heap[p])
    BY <1>1, ShapedHeap DEF ObjectOK
  <2>2. parts \in Seq(Leaves \cup {Garbage})
    BY <2>1 DEF ParentOK
  <2>3. ASSUME NEW i \in 1 .. Len(parts) PROVE parts[i] \in S
    <3>1. parts[i] \in Leaves /\ parts[i] \in Addresses
      BY <2>2, Kinds
    <3> QED
      BY <1>1, <3>1, PointersAlive
  <2> HIDE DEF parts, S
  <2> QED
    BY <2>2, <2>3
<1>3. upTo \in Nat /\ upTo <= Len(parts)
  <2>1. InputsNum(m, p) \in Nat /\ InputsNum(m, p) <= Len(parts)
    BY <1>2, InputsOutputs
  <2> HIDE DEF parts
  <2> QED
    BY <1>2, <2>1
<1>4. ASSUME NEW n \in Nat, n <= Len(parts), \A i \in 1 .. n : Writable(m, parts[i])
      PROVE  State(Write(n), ext, tidy) /\ Writes(m, Write(n), n)
  <2> DEFINE t == SubSeq(parts, 1, n)
  <2>1. t \in Seq(S) /\ Len(t) = n /\ \A i \in 1 .. n : t[i] = parts[i]
    BY <1>2, <1>4, FirstPart
  <2>2. Write(n) = FoldLeft(WriteNext, m, Each(p, t))
    OBVIOUS
  <2>3. RoomIn(m, Arrays, n)
    <3> HIDE DEF parts
    <3>1. RoomIn(m, Arrays, Len(parts))
      BY DEF parts
    <3> QED
      BY <1>1, <1>2, <1>4, <3>1 DEF RoomIn
  <2> HIDE DEF t, Write, parts
  <2>4. \A i \in 1 .. Len(t) : Writable(m, t[i])
    BY <1>4, <2>1
  <2>5. t \in Seq(DOMAIN m.heap \cap Leaves) /\ RoomIn(m, Arrays, Len(t))
    BY <2>1, <2>3 DEF S
  <2>6. State(Write(n), ext, tidy) /\ Writes(m, Write(n), Len(t))
    BY <1>1, <2>2, <2>4, <2>5, WritePartsState
  <2> QED
    BY <2>1, <2>6
<1>5. ASSUME NEW v, NEW n \in Nat, Writes(m, v, n)
      PROVE  p \in DOMAIN v.heap \cap Parents /\ v.heap[p] = m.heap[p] /\ S = DOMAIN v.heap \cap Leaves
  BY <1>1, <1>5, Kinds DEF Writes
<1>6. x = CASE stop = Start -> m
            [] stop # Start /\ fails # {} -> UndoWriting(z, p, j)
            [] stop = BeforeLockTime /\ fails = {} -> UndoAtLockTime(w, p)
            [] OTHER -> w
  BY Zenon DEF WriteParent
<1>7. stop = Start => stop # BeforeLockTime
  <2>1. Start.at = "start" /\ BeforeLockTime.at = "lock time"
    BY DEF Start, BeforeLockTime
  <2> QED
    BY <2>1
<1>8. fails # {} => ~tidy
  <2> SUFFICES ASSUME NEW k \in fails PROVE ~tidy
    OBVIOUS
  <2>1. k \in 1 .. Len(parts) /\ (stop = Part(k) \/ ~Writable(m, parts[k]))
    <3> HIDE DEF parts
    <3> QED
      BY <1>2, <1>3
  <2>2. k \in DOMAIN m.heap[p].fields
    BY <1>2, <2>1
  <2>3. Part(k) # Never
    BY DEF Part, Never
  <2> QED
    BY <2>1, <2>2, <2>3 DEF WriteRefused
<1>9. fails \in SUBSET Nat /\ \A k \in 1 .. upTo : k \notin fails => Writable(m, parts[k])
  BY <1>3
<1>10. \A k \in fails : k \in 1 .. upTo
  OBVIOUS
<1>11. CASE stop = Start
  <2>1. x = m
    BY <1>6, <1>7, <1>11, Zenon
  <2> QED
    BY <1>1, <2>1
<1>12. CASE stop # Start /\ fails # {}
  <2>1. x = UndoWriting(z, p, j)
    BY <1>6, <1>12, Zenon
  <2> HIDE DEF fails
  <2>2. j \in fails /\ \A k \in fails : j <= k
    BY <1>9, <1>12, MinLeast
  <2>3. j \in 1 .. upTo /\ j \in Nat /\ j - 1 \in Nat /\ j <= Len(parts)
    <3> HIDE DEF j, parts, upTo
    <3> QED
      BY <1>2, <1>3, <1>10, <2>2
  <2>4. \A i \in 1 .. j - 1 : Writable(m, parts[i])
    <3> SUFFICES ASSUME NEW i \in 1 .. j - 1 PROVE Writable(m, parts[i])
      OBVIOUS
    <3> HIDE DEF j, parts, upTo
    <3>1. i \in 1 .. upTo /\ ~(j <= i)
      BY <1>3, <2>3
    <3> QED
      BY <1>9, <2>2, <3>1
  <2>5. State(y, ext, tidy) /\ Writes(m, y, j - 1)
    <3> HIDE DEF j, parts, upTo, Write
    <3>1. j - 1 <= Len(parts)
      BY <1>2, <2>3
    <3> QED
      BY <1>4, <2>3, <2>4, <3>1
  <2>6. z = GiveSection(y, p, parts[j]) /\ ~tidy
    BY <1>8, <1>12 DEF fails
  <2> HIDE DEF j, y, z, upTo, Write
  <2>7. parts[j] \in S
    <3> HIDE DEF parts, S
    <3> QED
      BY <1>2, <2>3
  <2>8. State(z, ext, FALSE) /\ DOMAIN z.heap \ Arrays = DOMAIN m.heap \ Arrays /\ z.heap[p] = m.heap[p]
    <3>1. p \in DOMAIN y.heap \cap Parents /\ y.heap[p] = m.heap[p] /\ S = DOMAIN y.heap \cap Leaves
      BY <1>5, <2>3, <2>5
    <3>2. CASE y.undefined # "no"
      <4>1. z = y
        BY <2>6, <3>2 DEF GiveSection
      <4>2. State(y, ext, FALSE)
        BY <2>5, <2>6
      <4> QED
        BY <2>5, <3>1, <4>1, <4>2 DEF Writes
    <3>3. CASE y.undefined = "no"
      <4>1. Good(y, ext, Null, FALSE)
        BY <2>5, <2>6, <3>3, NotDefined
      <4>2. RoomIn(y, Arrays, 1)
        <5> HIDE DEF parts
        <5>1. RoomIn(m, Arrays, Len(parts))
          BY DEF parts
        <5>2. Used(y, Arrays) \in Nat /\ Used(y, Arrays) <= Used(m, Arrays) + (j - 1)
          BY <2>5 DEF Writes
        <5> QED
          BY <1>1, <1>2, <2>3, <5>1, <5>2 DEF RoomIn
      <4>3. parts[j] \in DOMAIN y.heap \cap Leaves /\ y.heap[p].bytes # Null
        BY <2>7, <3>1
      <4> HIDE DEF parts
      <4>4. Good(z, ext, Null, FALSE) /\ Writes(y, z, 1)
        BY <1>1, <2>6, <3>1, <4>1, <4>2, <4>3, GiveSectionGood
      <4>5. Writes(m, z, (j - 1) + 1)
        BY <2>3, <2>5, <4>4, WritesTwice
      <4>6. (j - 1) + 1 \in Nat
        BY <2>3
      <4> QED
        BY <1>5, <4>4, <4>5, <4>6 DEF State, Writes
    <3> QED
      BY <3>2, <3>3
  <2>9. z.heap[p].fields \in Seq(DOMAIN z.heap \cap Leaves)
    <3>1. DOMAIN z.heap \cap Leaves = S
      BY <2>8, Kinds
    <3> HIDE DEF S
    <3> QED
      BY <1>2, <2>8, <3>1
  <2>10. State(UndoWriting(z, p, j), ext, FALSE)
    BY <2>3, <2>8, <2>9, UndoWritingState
  <2> QED
    BY <2>1, <2>6, <2>10
<1>13. CASE stop # Start /\ fails = {}
  <2>1. \A i \in 1 .. upTo : Writable(m, parts[i])
    BY <1>9, <1>13
  <2>2. State(w, ext, tidy) /\ Writes(m, w, upTo)
    <3> HIDE DEF parts, upTo, Write
    <3> QED
      BY <1>3, <1>4, <2>1
  <2>3. CASE stop = BeforeLockTime
    <3>1. x = UndoAtLockTime(w, p)
      BY <1>6, <1>13, <2>3, Zenon
    <3>2. ~tidy
      BY <2>3 DEF WriteRefused, BeforeLockTime, Never
    <3>3. w.heap[p] = m.heap[p] /\ DOMAIN w.heap \cap Leaves = S
      <4> HIDE DEF w, upTo
      <4> QED
        BY <1>3, <1>5, <2>2
    <3>4. w.heap[p].fields \in Seq(DOMAIN w.heap \cap Leaves)
      BY <1>2, <3>3
    <3> HIDE DEF w
    <3>5. State(w, ext, FALSE)
      BY <2>2, <3>2
    <3>6. State(UndoAtLockTime(w, p), ext, FALSE)
      BY <3>4, <3>5, UndoAtLockTimeState
    <3> QED
      BY <3>1, <3>2, <3>6
  <2>4. CASE stop # BeforeLockTime
    <3>1. x = w
      BY <1>6, <1>13, <2>4, Zenon
    <3> QED
      BY <2>2, <3>1
  <2> QED
    BY <2>3, <2>4
<1> QED
  BY <1>11, <1>12, <1>13

-----------------------------------------------------------------------------
(* The calls *)

\* What kind of object it is says where it is.
LEMMA KindsOf ==
  ASSUME NEW m, Shaped(m), NEW o \in DOMAIN m.heap
  PROVE  /\ m.heap[o].class = "ByteArray" => o \in Arrays
         /\ m.heap[o].class \in LeafClasses => o \in Leaves
         /\ m.heap[o].class \in ParentClasses => o \in Parents
<1>1. o \in Arrays \/ o \in Leaves \/ o \in Parents
  BY ShapedHeap, Kinds
<1>2. ObjectOK(o, m.heap[o])
  BY ShapedHeap
<1> QED
  BY <1>1, <1>2 DEF ObjectOK, ArrayOK, LeafOK, ParentOK, LeafClasses, ParentClasses

\* The caller has one token for each object held.
LEMMA CallersAre ==
  ASSUME NEW h \in SUBSET Addresses
  PROVE  /\ Callers(h) \in Tokens
         /\ \A o \in Addresses \ h : Callers(h \cup {o}) = Plus(Callers(h), o)
         /\ \A o \in h : Callers(h) = Plus(Callers(h \ {o}), o) /\ Callers(h)[o] >= 1
         /\ Callers({}) = [o \in Addresses |-> 0]
<1>1. Callers(h) \in Tokens
  BY DEF Callers, Tokens
<1>2. ASSUME NEW o \in Addresses \ h PROVE Callers(h \cup {o}) = Plus(Callers(h), o)
  BY DEF Callers, Plus, Ind
<1>3. ASSUME NEW o \in h PROVE Callers(h) = Plus(Callers(h \ {o}), o) /\ Callers(h)[o] >= 1
  BY DEF Callers, Plus, Ind
<1>4. Callers({}) = [o \in Addresses |-> 0]
  BY DEF Callers
<1> QED
  BY <1>1, <1>2, <1>3, <1>4

\* What is held is alive.
LEMMA HeldAreAlive ==
  ASSUME NEW m, NEW h \in SUBSET Addresses, NEW tidy, Good(m, Callers(h), Null, tidy)
  PROVE  h \subseteq DOMAIN m.heap
<1> SUFFICES ASSUME NEW o \in h PROVE o \in DOMAIN m.heap
  OBVIOUS
<1>1. Callers(h) \in Tokens /\ Callers(h)[o] >= 1
  BY CallersAre
<1>2. Booked(m, Callers(h)) /\ o \in Addresses
  BY DEF Good, Sound, Booked
<1> QED
  BY <1>1, <1>2, TokenAlive

\* Where there is room, the fresh address is of its kind and free.
LEMMA FreshHere ==
  ASSUME NEW m, Shaped(m), NEW class \in {"ByteArray"} \cup LeafClasses \cup ParentClasses, Room(m, class, 1),
         NEW o, o = FreshFor(m, class)
  PROVE  /\ o \in Addresses /\ o \notin DOMAIN m.heap
         /\ class = "ByteArray" => o \in Arrays
         /\ class \in LeafClasses => o \in Leaves
         /\ class \in ParentClasses => o \in Parents
<1>1. IsFiniteSet(DOMAIN m.heap)
  BY ShapedHeap DEF Heap
<1>2. o \in AddressesOf(class) /\ o \notin DOMAIN m.heap
  BY <1>1, FreshIsFree
<1> QED
  BY <1>2, Kinds

\* A new array over new data.
LEMMA ArrayMade ==
  ASSUME NEW m, NEW ext \in Tokens, NEW tidy \in BOOLEAN, Good(m, ext, Null, tidy), RoomForData(m),
         NEW o \in Arrays, o \notin DOMAIN m.heap, NEW x, x = NewByteArray(m, o)
  PROVE  Good(x, Plus(ext, o), Null, tidy) /\ Adds(m, x, o) /\ x.heap[o].count = 1
<1>1. Shaped(m)
  BY DEF Good, Sound
<1>2. PutsArray(m, x, o, FreshData(m)) /\ FreshData(m) \in 1 .. MaxObjects
  BY <1>1, NewByteArrayPuts
<1>3. Good(x, Plus(ext, o), Null, tidy)
  BY <1>2, PutArrayGood
<1>4. Adds(m, x, o) /\ x.heap[o].count = 1
  BY <1>2 DEF PutsArray, Adds, ArrayOver, NewObject
<1> QED
  BY <1>3, <1>4

\* A new part takes the references that were counted for it.
LEMMA LeafMade ==
  ASSUME NEW m, NEW ext \in Tokens, NEW tidy \in BOOLEAN, NEW fields \in Seq(Arrays \cup {Null}),
         Good(m, PlusAll(ext, fields), Null, tidy), NEW class \in LeafClasses, Len(fields) = Arity(class),
         class = "InventoryVector" => fields[1] # Null,
         NEW o \in Leaves, o \notin DOMAIN m.heap, NEW x, x = Created(m, o, class, Null, fields)
  PROVE  Good(x, Plus(ext, o), Null, tidy)
<1> DEFINE obj == NewObject(class, Null, fields, Null)
           all == PlusAll(ext, fields)
<1>1. Shaped(m) /\ o \in Addresses /\ o \notin Arrays /\ o \notin Parents
  BY Kinds DEF Good, Sound
<1>2. Puts(m, x, o, obj) /\ x.lost = m.lost
  BY <1>1, CreatedPuts
<1>3. fields \in Seq(Int)
  <2>1. Arrays \cup {Null} \subseteq Int
    BY DEF Null, Arrays
  <2> QED
    BY <2>1
<1>4. obj \in Records /\ LeafOK(obj) /\ obj.count = 1 /\ obj.bytes = Null /\ obj.fields = fields
  BY <1>3 DEF NewObject, Records, LeafOK, Null
<1>5. ObjectOK(o, obj)
  <2> HIDE DEF obj
  <2> QED
    BY <1>1, <1>4 DEF ObjectOK
<1>6. TidyObject(obj)
  <2>1. \A i \in 1 .. Len(fields) : fields[i] # Garbage
    BY Kinds DEF Garbage, Arrays
  <2>2. obj.class = class
    BY DEF NewObject
  <2> HIDE DEF obj
  <2> QED
    BY <1>4, <2>1, <2>2, Kinds DEF TidyObject
<1>7. all \in Tokens /\ \A a \in Addresses : all[a] = ext[a] + Occ(fields, a)
  BY <1>3, PlusAllTokens DEF PlusAll
<1>8. \A a \in Addresses : Pointing(obj, a) = Occ(fields, a)
  <2> SUFFICES ASSUME NEW a \in Addresses PROVE Pointing(obj, a) = Occ(fields, a)
    OBVIOUS
  <2>1. Occ(fields, a) \in Nat /\ Ind(Null, a) = 0
    BY <1>3, PlacesFinite, Kinds DEF Ind
  <2> HIDE DEF obj
  <2> QED
    BY <1>4, <2>1 DEF Pointing
<1> HIDE DEF obj, all
<1>9. Good(m, all, Null, tidy) /\ obj.bytes \notin Arrays /\ \A a \in Addresses : all[a] = ext[a] + Pointing(obj, a)
  BY <1>4, <1>7, <1>8, Kinds DEF all, Arrays, Null
<1> QED
  BY <1>2, <1>4, <1>5, <1>6, <1>7, <1>9, PutNewGood

\* A new message takes the reference to its bytes that was counted for it.
LEMMA ParentMade ==
  ASSUME NEW m, NEW ext \in Tokens, NEW tidy \in BOOLEAN, NEW bytes \in Arrays \cup {Null},
         Good(m, Plus(ext, bytes), Null, tidy), NEW fields \in {<<>>, <<Garbage>>}, tidy => fields = <<>>,
         NEW o \in Parents, o \notin DOMAIN m.heap, NEW obj, ParentOK(obj), obj \in Records, obj.count = 1,
         obj.bytes = bytes, obj.fields = fields, NEW x, Puts(m, x, o, obj), x.lost = m.lost
  PROVE  Good(x, Plus(ext, o), Null, tidy) /\ AddsTo(m, x, o, o) /\ x.heap[o] = obj
<1> DEFINE all == Plus(ext, bytes)
<1>1. o \in Addresses /\ o \notin Arrays /\ o \notin Leaves
  BY Kinds
<1>2. ObjectOK(o, obj)
  BY <1>1 DEF ObjectOK
<1>3. tidy => TidyObject(obj)
  BY Kinds DEF TidyObject, ParentOK, ParentClasses
<1>4. all \in Tokens /\ \A a \in Addresses : all[a] = ext[a] + Ind(bytes, a)
  BY PlusTokens
<1>5. \A a \in Addresses : Pointing(obj, a) = Ind(bytes, a)
  <2> SUFFICES ASSUME NEW a \in Addresses PROVE Pointing(obj, a) = Ind(bytes, a)
    OBVIOUS
  <2>1. Occ(<<>>, a) = 0 /\ Occ(<<Garbage>>, a) = 0
    <3>1. Occ(<<Garbage>>, a) = Ind(Garbage, a) /\ Ind(Garbage, a) = 0
      BY OccShort, Kinds DEF Ind, Garbage
    <3> QED
      BY <3>1, OccEmpty
  <2> QED
    BY <2>1 DEF Pointing, Ind
<1> HIDE DEF all
<1>6. Good(m, all, Null, tidy) /\ \A a \in Addresses : all[a] = ext[a] + Pointing(obj, a)
  BY <1>4, <1>5 DEF all
<1>7. Good(x, Plus(ext, o), Null, tidy)
  BY <1>1, <1>2, <1>3, <1>4, <1>6, PutNewGood
<1>8. AddsTo(m, x, o, o) /\ x.heap[o] = obj
  BY DEF Puts, AddsTo
<1> QED
  BY <1>7, <1>8

\* A list is its beginning and its rest.
LEMMA ListSplit ==
  ASSUME NEW S, NEW s \in Seq(S), NEW n \in Nat, n <= Len(s)
  PROVE  s = SubSeq(s, 1, n) \o SubSeq(s, n + 1, Len(s))
<1> DEFINE a == SubSeq(s, 1, n)
           b == SubSeq(s, n + 1, Len(s))
<1>1. a \in Seq(S) /\ Len(a) = n /\ \A i \in 1 .. n : a[i] = s[i]
  BY FirstPart
<1>2. b \in Seq(S) /\ Len(b) = Len(s) - n /\ \A i \in 1 .. Len(s) - n : b[i] = s[n + i]
  OBVIOUS
<1> HIDE DEF a, b
<1>3. a \o b \in Seq(S) /\ Len(a \o b) = Len(s)
      /\ \A i \in 1 .. Len(s) : (a \o b)[i] = IF i <= n THEN a[i] ELSE b[i - n]
  <2>1. /\ a \o b \in Seq(S) /\ Len(a \o b) = Len(a) + Len(b)
        /\ \A i \in 1 .. Len(a) + Len(b) : (a \o b)[i] = IF i <= Len(a) THEN a[i] ELSE b[i - Len(a)]
    BY <1>1, <1>2, ConcatProperties
  <2>2. Len(a) + Len(b) = Len(s)
    BY <1>1, <1>2
  <2> QED
    BY <1>1, <2>1, <2>2
<1>4. ASSUME NEW i \in 1 .. Len(s) PROVE (a \o b)[i] = s[i]
  <2>1. CASE i <= n
    <3>1. (a \o b)[i] = a[i] /\ i \in 1 .. n
      BY <1>3, <2>1
    <3> QED
      BY <1>1, <3>1
  <2>2. CASE ~(i <= n)
    <3>1. (a \o b)[i] = b[i - n] /\ i - n \in 1 .. Len(s) - n /\ n + (i - n) = i
      BY <1>3, <2>2
    <3>2. b[i - n] = s[n + (i - n)]
      BY <1>2, <3>1
    <3> QED
      BY <3>1, <3>2
  <2> QED
    BY <2>1, <2>2
<1>5. a \o b = s
  <2> DEFINE c == a \o b
  <2>1. c \in Seq(S) /\ Len(c) = Len(s) /\ \A i \in 1 .. Len(s) : c[i] = s[i]
    BY <1>3, <1>4
  <2> HIDE DEF c
  <2>2. c = s
    BY <2>1
  <2> QED
    BY <2>2 DEF c
<1> QED
  BY <1>5 DEF a, b

\* A part comes into the list of a message, an input before the outputs.
LEMMA BeforeOthersCounted ==
  ASSUME NEW m, NEW p, m.heap[p].fields \in Seq(Leaves \cup {Garbage}), NEW f \in Leaves,
         NEW s, s = BeforeOthers(m, p, f)
  PROVE  s \in Seq(Leaves \cup {Garbage}) /\ \A a : Occ(s, a) = Occ(m.heap[p].fields, a) + Ind(f, a)
<1> DEFINE fields == m.heap[p].fields
           n == InputsNum(m, p)
           inputs == Inputs(m, p)
           outputs == Outputs(m, p)
           S == Leaves \cup {Garbage}
<1>1. S \subseteq Int /\ f \in Int /\ f \in S
  BY DEF Leaves, Garbage
<1>2. inputs \in Seq(S) /\ outputs \in Seq(S) /\ n \in Nat /\ n <= Len(fields) /\ fields \in Seq(S)
  BY InputsOutputs
<1>3. fields = inputs \o outputs
  <2>1. inputs = SubSeq(fields, 1, n) /\ outputs = SubSeq(fields, n + 1, Len(fields))
    BY DEF Inputs, Outputs
  <2> HIDE DEF inputs, outputs, fields, n, S
  <2> QED
    BY <1>2, <2>1, ListSplit
<1>4. s = inputs \o <<f>> \o outputs \/ s = Append(fields, f)
  BY DEF BeforeOthers
<1> HIDE DEF inputs, outputs, fields, n, S
<1> DEFINE one == <<f>>
<1>5. inputs \in Seq(Int) /\ outputs \in Seq(Int) /\ fields \in Seq(Int) /\ one \in Seq(Int) /\ one \in Seq(S)
      /\ \A a : Occ(one, a) = Ind(f, a)
  <2>1. inputs \in Seq(Int) /\ outputs \in Seq(Int) /\ fields \in Seq(Int)
    <3>1. ASSUME NEW t \in Seq(S) PROVE t \in Seq(Int)
      <4>1. ASSUME NEW i \in 1 .. Len(t) PROVE t[i] \in S
        OBVIOUS
      <4>2. S \subseteq Int
        BY <1>1
      <4>3. \A i \in 1 .. Len(t) : t[i] \in Int
        BY <4>1, <4>2
      <4> QED
        BY <4>3
    <3> QED
      BY <1>2, <3>1
  <2>2. one \in Seq(Int) /\ one \in Seq(S)
    BY <1>1
  <2>3. \A a : Occ(one, a) = Ind(f, a)
    BY <1>1, OccShort
  <2> QED
    BY <2>1, <2>2, <2>3
<1>6. CASE s = Append(fields, f)
  <2>1. \A a : Occ(s, a) = Occ(fields, a) + Ind(f, a)
    BY <1>1, <1>5, <1>6, OccAppend
  <2>2. s \in Seq(S)
    BY <1>1, <1>2, <1>6
  <2> QED
    BY <2>1, <2>2 DEF fields, S
<1>7. CASE s = inputs \o <<f>> \o outputs
  <2> DEFINE first == inputs \o one
  <2>0. s = first \o outputs
    BY <1>7
  <2> HIDE DEF one
  <2>1. first \in Seq(Int) /\ first \in Seq(S)
    BY <1>2, <1>5, ConcatProperties
  <2>2. ASSUME NEW a PROVE Occ(s, a) = Occ(fields, a) + Ind(f, a)
    <3>1. Occ(fields, a) = Occ(inputs, a) + Occ(outputs, a)
      BY <1>3, <1>5, OccConcat
    <3>2. Occ(first, a) = Occ(inputs, a) + Occ(one, a)
      BY <1>5, OccConcat
    <3>3. Occ(one, a) = Ind(f, a)
      BY <1>5
    <3>4. s = first \o outputs
      BY <2>0
    <3> HIDE DEF first
    <3>5. Occ(s, a) = Occ(first, a) + Occ(outputs, a)
      BY <1>5, <2>1, <3>4, OccConcat
    <3>6. Occ(inputs, a) \in Nat /\ Occ(outputs, a) \in Nat /\ Ind(f, a) \in Nat
      BY <1>5, PlacesFinite DEF Ind
    <3> QED
      BY <3>1, <3>2, <3>3, <3>5, <3>6
  <2>3. s \in Seq(S)
    <3>1. s = first \o outputs
      BY <2>0
    <3> HIDE DEF first
    <3> QED
      BY <1>2, <2>1, <3>1, ConcatProperties
  <2> QED
    BY <2>2, <2>3 DEF fields, S
<1> QED
  BY <1>4, <1>6, <1>7

\* The message takes over a reference to the part.
LEMMA AttachGood ==
  ASSUME NEW m, NEW ext \in Tokens, NEW tidy \in BOOLEAN, NEW f \in Leaves, Good(m, Plus(ext, f), Null, tidy),
         NEW p \in DOMAIN m.heap \cap Parents, NEW x, x = Attach(m, p, f)
  PROVE  Good(x, ext, Null, tidy)
<1> DEFINE fields == m.heap[p].fields
           s == BeforeOthers(m, p, f)
           all == Plus(ext, f)
<1>1. Shaped(m) /\ p \in Addresses /\ p \notin Arrays /\ p \notin Leaves /\ p # Null /\ f # Garbage
  BY Kinds DEF Good, Sound, Leaves, Garbage
<1>2. fields \in Seq(Leaves \cup {Garbage}) /\ fields \in Seq(Int)
  <2>1. ParentOK(m.heap[p]) /\ m.heap[p] \in Records
    BY <1>1, ShapedHeap DEF ObjectOK
  <2> QED
    BY <2>1 DEF ParentOK, Records
<1>3. s \in Seq(Leaves \cup {Garbage}) /\ \A a : Occ(s, a) = Occ(fields, a) + Ind(f, a)
  BY <1>2, BeforeOthersCounted
<1>4. x = [m EXCEPT !.heap[p].fields = s]
  BY DEF Attach
<1> HIDE DEF s
<1>5. Refields(m, x, p, s) /\ x.lost = m.lost
  BY <1>1, <1>4, RefieldsIs
<1>6. all \in Tokens /\ \A a \in Addresses : all[a] = ext[a] + Ind(f, a) /\ ext[a] \in Nat
  BY PlusTokens
<1>7. Good(m, all, Null, tidy)
  OBVIOUS
<1> HIDE DEF all
<1>8. HandingParts(m, x, all, ext, p, s)
  <2> SUFFICES ASSUME NEW a \in Addresses
               PROVE  Occ(fields, a) + m.lost[a] + all[a] = Occ(s, a) + m.lost[a] + ext[a]
    BY <1>5 DEF HandingParts
  <2> DEFINE b == m.lost[a]
             c == ext[a]
             i == Ind(f, a)
             v == Occ(fields, a)
  <2>1. b \in Nat /\ c \in Nat /\ i \in Nat /\ v \in Nat
    <3>1. b \in Nat
      BY <1>1 DEF Shaped
    <3>2. v \in Nat
      BY <1>2, PlacesFinite
    <3> QED
      BY <1>6, <3>1, <3>2 DEF Ind
  <2>2. all[a] = c + i /\ Occ(s, a) = v + i
    BY <1>3, <1>6
  <2> HIDE DEF b, c, i, v
  <2>3. v + b + (c + i) = (v + i) + b + c
    BY <2>1
  <2> QED
    BY <2>2, <2>3 DEF b, c, v
<1>9. tidy => \A i \in 1 .. Len(s) : s[i] # Garbage
  <2> SUFFICES ASSUME tidy, NEW i \in 1 .. Len(s), s[i] = Garbage PROVE FALSE
    OBVIOUS
  <2>1. s \in Seq(Int)
    <3>1. Leaves \cup {Garbage} \subseteq Int
      BY DEF Leaves, Garbage
    <3> QED
      BY <1>3, <3>1
  <2>2. Occ(s, Garbage) >= 1 /\ Occ(s, Garbage) \in Nat
    BY <2>1, OccPositive, PlacesFinite
  <2>3. Occ(fields, Garbage) = 0
    <3>1. \A k \in 1 .. Len(fields) : fields[k] # Garbage
      BY <1>1, <1>7 DEF Good, Tidy, TidyObject
    <3> HIDE DEF fields
    <3> QED
      BY <1>2, <3>1, OccPlace
  <2>4. Occ(s, Garbage) = Occ(fields, Garbage) + Ind(f, Garbage)
    BY <1>3
  <2> QED
    BY <1>1, <2>2, <2>3, <2>4 DEF Ind
<1> QED
  BY <1>3, <1>5, <1>6, <1>7, <1>8, <1>9, RefieldGood

\* The memory before a call: defined, accounted for the caller, and tidy as long as
\* nothing was refused, which is what t says.
Standing(m, h, t) ==
  Good(m, Callers(h), Null, t) /\ h \in SUBSET Addresses /\ h \subseteq DOMAIN m.heap /\ t \in BOOLEAN

\* It is what the invariant says of a program that is defined.
LEMMA StandingHere ==
  ASSUME IInv, memory.undefined = "no"
  PROVE  \E t \in BOOLEAN : (t <=> ~refused) /\ Standing(memory, held, t)
<1>1. Good(memory, Callers(held), Null, FALSE) /\ held \in SUBSET Addresses /\ refused \in BOOLEAN
  BY DEF IInv, Kept, State
<1>2. held \subseteq DOMAIN memory.heap
  BY <1>1, HeldAreAlive
<1>3. CASE refused
  <2>1. (FALSE <=> ~refused) /\ Standing(memory, held, FALSE)
    BY <1>1, <1>2, <1>3 DEF Standing
  <2> QED
    BY <2>1
<1>4. CASE ~refused
  <2>1. Tidy(memory, Null)
    BY <1>4 DEF IInv, Kept
  <2>2. Good(memory, Callers(held), Null, TRUE)
    BY <1>1, <2>1 DEF Good
  <2>3. (TRUE <=> ~refused) /\ Standing(memory, held, TRUE)
    BY <1>1, <1>2, <1>4, <2>2 DEF Standing
  <2> QED
    BY <2>3
<1> QED
  BY <1>1, <1>3, <1>4

\* What a call leaves is the invariant again.
LEMMA StateKept ==
  ASSUME NEW x, NEW h \in SUBSET Addresses, NEW r \in BOOLEAN, NEW t \in BOOLEAN, t <=> ~r,
         State(x, Callers(h), t)
  PROVE  Kept(x, h, r)
<1>1. State(x, Callers(h), FALSE)
  BY DEF State, Good
<1>2. x.undefined = "no" /\ ~r => Tidy(x, Null)
  BY DEF State, Good
<1>3. x.undefined = "unset" => r
  BY DEF State, Good
<1> QED
  BY <1>1, <1>2, <1>3 DEF Kept

\* The caller gets a new object.
LEMMA HandedKept ==
  ASSUME NEW x, NEW h \in SUBSET Addresses, NEW r \in BOOLEAN, NEW t \in BOOLEAN, t <=> ~r,
         NEW o \in Addresses, o \notin h, State(x, Plus(Callers(h), o), t), NEW g, g = h \cup {o}
  PROVE  Kept(x, g, r)
<1>1. Callers(g) = Plus(Callers(h), o) /\ g \in SUBSET Addresses
  BY CallersAre
<1> QED
  BY <1>1, StateKept

\* One more reference to an object that has a token, if there is one at all.
LEMMA CountedGood ==
  ASSUME NEW m, NEW ext \in Tokens, NEW tidy \in BOOLEAN, Good(m, ext, Null, tidy),
         NEW o \in Arrays \cup {Null}, o # Null => ext[o] >= 1,
         NEW x, x = IF o = Null THEN m ELSE Increment(m, o)
  PROVE  /\ Good(x, Plus(ext, o), Null, tidy) /\ DOMAIN x.heap = DOMAIN m.heap
         /\ Plus(ext, o) \in Tokens /\ \A a \in Addresses : ext[a] >= 1 => Plus(ext, o)[a] >= 1
<1>1. /\ Plus(ext, o) \in Tokens /\ \A a \in Addresses : ext[a] >= 1 => Plus(ext, o)[a] >= 1
      /\ o \notin Addresses => Plus(ext, o) = ext
  <2>1. Plus(ext, o) \in Tokens /\ \A a \in Addresses : Plus(ext, o)[a] = ext[a] + Ind(o, a) /\ ext[a] \in Nat
    BY PlusTokens
  <2>2. o \notin Addresses => Plus(ext, o) = ext
    BY PlusTokens
  <2> QED
    BY <2>1, <2>2 DEF Ind
<1>2. CASE o = Null
  BY <1>1, <1>2, Kinds
<1>3. CASE o # Null
  <2>1. o \in Addresses /\ x = Increment(m, o)
    BY <1>3, Kinds
  <2>2. Good(Increment(m, o), Plus(ext, o), Null, tidy)
    BY <1>3, <2>1, IncrementGood
  <2>3. Puts(m, Increment(m, o), o, WithCount(m.heap[o], m.heap[o].count + 1)) /\ o \in DOMAIN m.heap
    BY <1>3, <2>1, IncrementGood
  <2>4. DOMAIN x.heap = DOMAIN m.heap
    BY <2>1, <2>3 DEF Puts
  <2> QED
    BY <1>1, <2>1, <2>2, <2>4
<1> QED
  BY <1>2, <1>3

\* createNewByteArrayOfSize, and the others that copy, keep the invariant.
LEMMA CreateByteArrayKeeps ==
  ASSUME NEW t \in BOOLEAN, t <=> ~refused, refused \in BOOLEAN, Standing(memory, held, t), CreateByteArray
  PROVE  IInv'
<1> DEFINE o == FreshFor(memory, "ByteArray")
<1>1. /\ memory' = NewByteArray(memory, o) /\ held' = held \cup {o} /\ refused' = refused
      /\ Room(memory, "ByteArray", 1) /\ RoomForData(memory)
  BY DEF CreateByteArray, Handed
<1>2. Good(memory, Callers(held), Null, t) /\ held \in SUBSET Addresses /\ held \subseteq DOMAIN memory.heap
      /\ Shaped(memory) /\ Callers(held) \in Tokens
  BY CallersAre DEF Standing, Good, Sound
<1>3. o \in Addresses /\ o \notin DOMAIN memory.heap /\ o \in Arrays
  BY <1>1, <1>2, FreshHere
<1> HIDE DEF o
<1>4. Good(memory', Plus(Callers(held), o), Null, t)
  BY <1>1, <1>2, <1>3, ArrayMade
<1>5. Kept(memory', held', refused')
  <2>1. State(memory', Plus(Callers(held), o), t) /\ o \notin held
    BY <1>2, <1>3, <1>4 DEF State
  <2> QED
    BY <1>1, <1>2, <1>3, <2>1, HandedKept
<1> QED
  BY <1>5 DEF IInv

\* getByteArraySubsectionReference and createNewScriptFromReference keep the invariant.
LEMMA CreateSubsectionKeeps ==
  ASSUME NEW t \in BOOLEAN, t <=> ~refused, refused \in BOOLEAN, Standing(memory, held, t),
         NEW a \in HeldOf({"ByteArray"}), CreateSubsection(a)
  PROVE  IInv'
<1> DEFINE o == FreshFor(memory, "ByteArray")
<1>1. /\ memory' = Subsection(memory, o, a) /\ held' = held \cup {o} /\ refused' = refused
      /\ Room(memory, "ByteArray", 1) /\ o = FreshFor(memory, "ByteArray")
  BY DEF CreateSubsection, Handed
<1>2. Good(memory, Callers(held), Null, t) /\ held \in SUBSET Addresses /\ held \subseteq DOMAIN memory.heap
      /\ Shaped(memory) /\ Callers(held) \in Tokens
  BY CallersAre DEF Standing, Good, Sound
<1>3. a \in DOMAIN memory.heap /\ a \in Arrays /\ RoomIn(memory, Arrays, 1)
  BY <1>1, <1>2, KindsOf, Rooms DEF HeldOf, RoomIn
<1>4. o \in Addresses /\ o \notin DOMAIN memory.heap
  BY <1>1, <1>2, FreshHere
<1> HIDE DEF o
<1>5. Good(memory', Plus(Callers(held), o), Null, t)
  BY <1>1, <1>2, <1>3, SectionGood
<1>6. Kept(memory', held', refused')
  <2>1. State(memory', Plus(Callers(held), o), t) /\ o \notin held
    BY <1>2, <1>4, <1>5 DEF State
  <2> QED
    BY <1>1, <1>2, <1>4, <2>1, HandedKept
<1> QED
  BY <1>6 DEF IInv

\* A part that refers to a hash and perhaps to a script.
LEMMA NewInputGood ==
  ASSUME NEW m, NEW ext \in Tokens, NEW tidy \in BOOLEAN, Good(m, ext, Null, tidy),
         NEW hash \in Arrays, ext[hash] >= 1, NEW script \in Arrays \cup {Null}, script # Null => ext[script] >= 1,
         NEW o \in Leaves, o \notin DOMAIN m.heap, NEW x, x = NewInput(m, o, hash, script)
  PROVE  Good(x, Plus(ext, o), Null, tidy)
<1> DEFINE y == IF script = Null THEN m ELSE Increment(m, script)
           z == Increment(y, hash)
           fields == <<hash, script>>
           one == Plus(ext, script)
           both == Plus(one, hash)
<1>1. y = IF script = Null THEN m ELSE Increment(m, script)
  OBVIOUS
<1>2. z = Increment(y, hash)
  OBVIOUS
<1>3. x = Created(z, o, "TransactionInput", Null, fields)
  BY DEF NewInput
<1>4. hash \in Arrays \cup {Null} /\ hash \in Addresses /\ hash \in Int /\ script \in Int
  BY Kinds DEF Null
<1> HIDE DEF y, z
<1>5. Good(y, one, Null, tidy) /\ DOMAIN y.heap = DOMAIN m.heap
  BY <1>1, CountedGood
<1>6. one \in Tokens /\ one[hash] >= 1
  BY <1>1, <1>4, <1>5, CountedGood
<1> HIDE DEF one
<1>7. Good(z, both, Null, tidy) /\ DOMAIN z.heap = DOMAIN y.heap
  <2>1. Good(Increment(y, hash), Plus(one, hash), Null, tidy)
    BY <1>4, <1>5, <1>6, IncrementGood
  <2>2. Puts(y, Increment(y, hash), hash, WithCount(y.heap[hash], y.heap[hash].count + 1)) /\ hash \in DOMAIN y.heap
    BY <1>4, <1>5, <1>6, IncrementGood
  <2> QED
    BY <1>2, <2>1, <2>2 DEF Puts
<1>8. PlusAll(ext, fields) = both
  BY <1>4, PlusAllTokens DEF one
<1> HIDE DEF both
<1>9. fields \in Seq(Arrays \cup {Null}) /\ Len(fields) = Arity("TransactionInput")
  BY <1>4 DEF Arity
<1>10. "TransactionInput" \in LeafClasses /\ "TransactionInput" # "InventoryVector"
  BY DEF LeafClasses
<1> HIDE DEF fields
<1>11. Good(z, PlusAll(ext, fields), Null, tidy) /\ o \notin DOMAIN z.heap
  BY <1>5, <1>7, <1>8
<1> QED
  BY <1>3, <1>9, <1>10, <1>11, LeafMade

\* A part that refers to one array.
LEMMA NewSingleGood ==
  ASSUME NEW m, NEW ext \in Tokens, NEW tidy \in BOOLEAN, Good(m, ext, Null, tidy),
         NEW a \in Arrays, ext[a] >= 1, NEW class \in LeafClasses, class # "TransactionInput",
         NEW o \in Leaves, o \notin DOMAIN m.heap, NEW x, x = Created(Increment(m, a), o, class, Null, <<a>>)
  PROVE  Good(x, Plus(ext, o), Null, tidy)
<1> DEFINE z == Increment(m, a)
           fields == <<a>>
           one == Plus(ext, a)
<1>1. z = IF a = Null THEN m ELSE Increment(m, a)
  BY Kinds
<1>2. x = Created(z, o, class, Null, fields)
  OBVIOUS
<1>3. a \in Arrays \cup {Null} /\ a \in Addresses /\ a \in Int /\ a # Null
  BY Kinds
<1> HIDE DEF z
<1>4. Good(z, one, Null, tidy) /\ DOMAIN z.heap = DOMAIN m.heap
  BY <1>1, <1>3, CountedGood
<1>5. PlusAll(ext, fields) = one
  BY <1>3, PlusAllTokens
<1> HIDE DEF one
<1>6. fields \in Seq(Arrays \cup {Null}) /\ Len(fields) = Arity(class) /\ fields[1] # Null
  BY <1>3 DEF Arity
<1> HIDE DEF fields
<1>7. Good(z, PlusAll(ext, fields), Null, tidy) /\ o \notin DOMAIN z.heap
  BY <1>4, <1>5
<1> QED
  BY <1>2, <1>6, <1>7, LeafMade

\* The constructor of an input keeps the invariant.
LEMMA CreateInputKeeps ==
  ASSUME NEW t \in BOOLEAN, t <=> ~refused, refused \in BOOLEAN, Standing(memory, held, t),
         NEW hash \in HeldOf({"ByteArray"}), NEW script \in HeldOf({"ByteArray"}) \cup {Null},
         CreateInput(hash, script)
  PROVE  IInv'
<1> DEFINE o == FreshFor(memory, "TransactionInput")
<1>1. /\ memory' = NewInput(memory, o, hash, script) /\ held' = held \cup {o} /\ refused' = refused
      /\ Room(memory, "TransactionInput", 1) /\ o = FreshFor(memory, "TransactionInput")
  BY DEF CreateInput, Handed
<1>2. Good(memory, Callers(held), Null, t) /\ held \in SUBSET Addresses /\ held \subseteq DOMAIN memory.heap
      /\ Shaped(memory) /\ Callers(held) \in Tokens
  BY CallersAre DEF Standing, Good, Sound
<1>3. hash \in Arrays /\ Callers(held)[hash] >= 1
  <2>1. hash \in held /\ memory.heap[hash].class = "ByteArray"
    BY DEF HeldOf
  <2> QED
    BY <1>2, <2>1, KindsOf, CallersAre
<1>4. script \in Arrays \cup {Null} /\ (script # Null => Callers(held)[script] >= 1)
  <2> SUFFICES ASSUME script # Null PROVE script \in Arrays /\ Callers(held)[script] >= 1
    OBVIOUS
  <2>1. script \in held /\ memory.heap[script].class = "ByteArray"
    BY DEF HeldOf
  <2> QED
    BY <1>2, <2>1, KindsOf, CallersAre
<1>5. o \in Addresses /\ o \notin DOMAIN memory.heap /\ o \in Leaves
  BY <1>1, <1>2, FreshHere DEF LeafClasses
<1> HIDE DEF o
<1>6. Good(memory', Plus(Callers(held), o), Null, t)
  BY <1>1, <1>2, <1>3, <1>4, <1>5, NewInputGood
<1>7. Kept(memory', held', refused')
  <2>1. State(memory', Plus(Callers(held), o), t) /\ o \notin held
    BY <1>2, <1>5, <1>6 DEF State
  <2> QED
    BY <1>1, <1>2, <1>5, <2>1, HandedKept
<1> QED
  BY <1>7 DEF IInv

\* The constructors of outputs and vectors keep the invariant.
LEMMA CreateOutputVectorKeep ==
  ASSUME NEW t \in BOOLEAN, t <=> ~refused, refused \in BOOLEAN, Standing(memory, held, t),
         NEW a \in HeldOf({"ByteArray"}), CreateOutput(a) \/ CreateVector(a)
  PROVE  IInv'
<1>1. PICK class \in {"TransactionOutput", "InventoryVector"} :
        /\ memory' = Created(Increment(memory, a), FreshFor(memory, class), class, Null, <<a>>)
        /\ held' = held \cup {FreshFor(memory, class)} /\ refused' = refused
        /\ Room(memory, class, 1)
  BY DEF CreateOutput, CreateVector, Handed, NewOutput, NewVector
<1> DEFINE o == FreshFor(memory, class)
<1>2. Good(memory, Callers(held), Null, t) /\ held \in SUBSET Addresses /\ held \subseteq DOMAIN memory.heap
      /\ Shaped(memory) /\ Callers(held) \in Tokens
  BY CallersAre DEF Standing, Good, Sound
<1>3. a \in Arrays /\ Callers(held)[a] >= 1
  <2>1. a \in held /\ memory.heap[a].class = "ByteArray"
    BY DEF HeldOf
  <2> QED
    BY <1>2, <2>1, KindsOf, CallersAre
<1>4. class \in LeafClasses /\ class # "TransactionInput"
  BY DEF LeafClasses
<1>5. o \in Addresses /\ o \notin DOMAIN memory.heap /\ o \in Leaves
  BY <1>1, <1>2, <1>4, FreshHere
<1>6. /\ memory' = Created(Increment(memory, a), o, class, Null, <<a>>)
      /\ held' = held \cup {o} /\ refused' = refused
  BY <1>1
<1> HIDE DEF o
<1>7. Good(memory', Plus(Callers(held), o), Null, t)
  BY <1>2, <1>3, <1>4, <1>5, <1>6, NewSingleGood
<1>8. Kept(memory', held', refused')
  <2>1. State(memory', Plus(Callers(held), o), t) /\ o \notin held
    BY <1>2, <1>5, <1>7 DEF State
  <2> QED
    BY <1>2, <1>5, <1>6, <2>1, HandedKept
<1> QED
  BY <1>8 DEF IInv

\* A new message has the shape of one, and one reference.
LEMMA NewParentIs ==
  ASSUME NEW class \in ParentClasses, NEW bytes \in Arrays \cup {Null}, NEW fields \in {<<>>, <<Garbage>>},
         NEW obj, \/ obj = NewObject(class, bytes, fields, Null)
                  \/ obj = [NewObject(class, bytes, fields, Null) EXCEPT !.destroy = FALSE]
  PROVE  ParentOK(obj) /\ obj \in Records /\ obj.count = 1 /\ obj.bytes = bytes /\ obj.fields = fields
<1>1. PICK d \in BOOLEAN : obj = [class |-> class, count |-> 1, bytes |-> bytes, fields |-> fields,
                                  data |-> Null, destroy |-> d]
  BY DEF NewObject
<1>2. bytes \in Int /\ fields \in Seq(Int) /\ fields \in Seq(Leaves \cup {Garbage}) /\ Null \in Int
  <2>1. Garbage \in Int /\ Null \in Int /\ bytes \in Int
    BY DEF Null, Garbage, Arrays
  <2>2. <<>> \in Seq(Int) /\ <<>> \in Seq(Leaves \cup {Garbage})
    OBVIOUS
  <2>3. <<Garbage>> \in Seq(Int) /\ <<Garbage>> \in Seq(Leaves \cup {Garbage})
    BY <2>1
  <2> QED
    BY <2>1, <2>2, <2>3
<1>3. obj.class = class /\ obj.count = 1 /\ obj.bytes = bytes /\ obj.fields = fields /\ obj.data = Null
  BY <1>1
<1>4. obj \in Records
  BY <1>1, <1>2 DEF Records
<1> QED
  BY <1>2, <1>3, <1>4 DEF ParentOK

\* The constructors of messages without bytes keep the invariant.
LEMMA CreateParentKeeps ==
  ASSUME NEW t \in BOOLEAN, t <=> ~refused, refused \in BOOLEAN, Standing(memory, held, t),
         CreateTransaction \/ CreateInventory
  PROVE  IInv'
<1>1. PICK class \in ParentClasses :
        /\ memory' = Created(memory, FreshFor(memory, class), class, Null, <<>>)
        /\ held' = held \cup {FreshFor(memory, class)} /\ refused' = refused
        /\ Room(memory, class, 1)
  BY DEF CreateTransaction, CreateInventory, Handed, ParentClasses
<1> DEFINE o == FreshFor(memory, class)
           obj == NewObject(class, Null, <<>>, Null)
<1>2. Good(memory, Callers(held), Null, t) /\ held \in SUBSET Addresses /\ held \subseteq DOMAIN memory.heap
      /\ Shaped(memory) /\ Callers(held) \in Tokens
  BY CallersAre DEF Standing, Good, Sound
<1>3. o \in Addresses /\ o \notin DOMAIN memory.heap /\ o \in Parents
  BY <1>1, <1>2, FreshHere
<1>4. memory' = Created(memory, o, class, Null, <<>>) /\ held' = held \cup {o} /\ refused' = refused
  BY <1>1
<1> HIDE DEF o
<1>5. Puts(memory, memory', o, obj) /\ memory'.lost = memory.lost
  BY <1>2, <1>3, <1>4, CreatedPuts
<1>6. ParentOK(obj) /\ obj \in Records /\ obj.count = 1 /\ obj.bytes = Null /\ obj.fields = <<>>
  BY NewParentIs
<1>7. Good(memory, Plus(Callers(held), Null), Null, t)
  BY <1>2, PlusTokens, Kinds
<1> HIDE DEF obj
<1>8. Good(memory', Plus(Callers(held), o), Null, t)
  BY <1>2, <1>3, <1>5, <1>6, <1>7, ParentMade
<1>9. Kept(memory', held', refused')
  <2>1. State(memory', Plus(Callers(held), o), t) /\ o \notin held
    BY <1>2, <1>3, <1>8 DEF State
  <2> QED
    BY <1>2, <1>3, <1>4, <2>1, HandedKept
<1> QED
  BY <1>9 DEF IInv

\* A message over bytes that the caller has, with a destructor or without.
LEMMA NewParentGood ==
  ASSUME NEW m, NEW ext \in Tokens, NEW tidy \in BOOLEAN, Good(m, ext, Null, tidy),
         NEW a \in Arrays, ext[a] >= 1, NEW class \in ParentClasses,
         NEW o \in Parents, o \notin DOMAIN m.heap,
         NEW x, \/ x = Created(Increment(m, a), o, class, a, <<>>)
                \/ x = [Created(Increment(m, a), o, class, a, <<>>) EXCEPT !.heap[o].destroy = FALSE]
  PROVE  Good(x, Plus(ext, o), Null, tidy)
<1> DEFINE z == Increment(m, a)
           y == Created(z, o, class, a, <<>>)
           obj == NewObject(class, a, <<>>, Null)
           other == [obj EXCEPT !.destroy = FALSE]
<1>1. a \in Arrays \cup {Null} /\ a \in Addresses /\ o \in Addresses
  BY Kinds
<1>2. Good(z, Plus(ext, a), Null, tidy)
  BY <1>1, IncrementGood
<1>3. DOMAIN z.heap = DOMAIN m.heap /\ Shaped(z)
  <2>1. Puts(m, z, a, WithCount(m.heap[a], m.heap[a].count + 1)) /\ a \in DOMAIN m.heap
    BY <1>1, IncrementGood
  <2>2. Shaped(z)
    BY <1>2 DEF Good, Sound
  <2> HIDE DEF z
  <2> QED
    BY <2>1, <2>2 DEF Puts
<1> HIDE DEF z
<1>4. Puts(z, y, o, obj) /\ y.lost = z.lost
  BY <1>3, CreatedPuts
<1>5. x = y \/ x = [y EXCEPT !.heap[o].destroy = FALSE]
  BY DEF z
<1> HIDE DEF y
<1>6. PICK new : (new = obj \/ new = other) /\ Puts(z, x, o, new) /\ x.lost = z.lost
  <2>1. CASE x = y
    BY <1>4, <2>1
  <2>2. CASE x = [y EXCEPT !.heap[o].destroy = FALSE]
    <3> HIDE DEF obj
    <3>1. /\ IsMemory(y) /\ y.heap = [q \in DOMAIN z.heap \cup {o} |-> IF q = o THEN obj ELSE z.heap[q]]
          /\ y.shared = z.shared /\ y.lostShared = z.lostShared /\ y.undefined = z.undefined
      BY <1>4 DEF Puts
    <3> DEFINE h == [y.heap EXCEPT ![o] = other]
    <3>2. y.heap[o] = obj /\ h = [q \in DOMAIN z.heap \cup {o} |-> IF q = o THEN other ELSE z.heap[q]]
      <4>1. y.heap[o] = obj
        BY <3>1
      <4> HIDE DEF other
      <4> QED
        BY <3>1, <4>1
    <3>3. x = [y EXCEPT !.heap = h]
      BY <2>2, <3>2
    <3> HIDE DEF h, other
    <3>4. /\ IsMemory(x) /\ x.heap = h /\ x.shared = y.shared /\ x.lost = y.lost
          /\ x.lostShared = y.lostShared /\ x.undefined = y.undefined
      BY <3>1, <3>3 DEF IsMemory
    <3>5. Puts(z, x, o, other) /\ x.lost = z.lost
      BY <1>4, <3>1, <3>2, <3>4 DEF Puts
    <3> QED
      BY <3>5
  <2> QED
    BY <1>5, <2>1, <2>2
<1>7. ParentOK(new) /\ new \in Records /\ new.count = 1 /\ new.bytes = a /\ new.fields = <<>>
  BY <1>1, <1>6, NewParentIs
<1> HIDE DEF obj, other
<1>8. Good(x, Plus(ext, o), Null, tidy)
  BY <1>1, <1>2, <1>3, <1>6, <1>7, ParentMade
<1> QED
  BY <1>8

\* The constructors of messages over bytes keep the invariant.
LEMMA CreateParentFromBytesKeeps ==
  ASSUME NEW t \in BOOLEAN, t <=> ~refused, refused \in BOOLEAN, Standing(memory, held, t),
         NEW a \in HeldOf({"ByteArray"}), CreateTransactionFromByteArray(a) \/ CreateInventoryFromData(a)
  PROVE  IInv'
<1>1. PICK class \in ParentClasses :
        /\ \/ memory' = Created(Increment(memory, a), FreshFor(memory, class), class, a, <<>>)
           \/ memory' = [Created(Increment(memory, a), FreshFor(memory, class), class, a, <<>>)
                           EXCEPT !.heap[FreshFor(memory, class)].destroy = FALSE]
        /\ held' = held \cup {FreshFor(memory, class)} /\ refused' = refused
        /\ Room(memory, class, 1)
  <2>1. CASE CreateTransactionFromByteArray(a)
    <3> DEFINE o == FreshFor(memory, "Transaction")
    <3>1. /\ memory' = [Created(Increment(memory, a), o, "Transaction", a, <<>>) EXCEPT !.heap[o].destroy = FALSE]
          /\ held' = held \cup {o} /\ refused' = refused /\ Room(memory, "Transaction", 1)
      BY <2>1 DEF CreateTransactionFromByteArray, Handed
    <3>2. "Transaction" \in ParentClasses
      BY DEF ParentClasses
    <3> QED
      BY <3>1, <3>2
  <2>2. CASE CreateInventoryFromData(a)
    <3> DEFINE o == FreshFor(memory, "Inventory")
    <3>1. /\ memory' = Created(Increment(memory, a), o, "Inventory", a, <<>>)
          /\ held' = held \cup {o} /\ refused' = refused /\ Room(memory, "Inventory", 1)
      BY <2>2 DEF CreateInventoryFromData, Handed
    <3>2. "Inventory" \in ParentClasses
      BY DEF ParentClasses
    <3> QED
      BY <3>1, <3>2
  <2> QED
    BY <2>1, <2>2
<1> DEFINE o == FreshFor(memory, class)
<1>2. Good(memory, Callers(held), Null, t) /\ held \in SUBSET Addresses /\ held \subseteq DOMAIN memory.heap
      /\ Shaped(memory) /\ Callers(held) \in Tokens
  BY CallersAre DEF Standing, Good, Sound
<1>3. a \in Arrays /\ Callers(held)[a] >= 1
  <2>1. a \in held /\ memory.heap[a].class = "ByteArray"
    BY DEF HeldOf
  <2> QED
    BY <1>2, <2>1, KindsOf, CallersAre
<1>4. o \in Addresses /\ o \notin DOMAIN memory.heap /\ o \in Parents
  BY <1>1, <1>2, FreshHere
<1>5. \/ memory' = Created(Increment(memory, a), o, class, a, <<>>)
      \/ memory' = [Created(Increment(memory, a), o, class, a, <<>>) EXCEPT !.heap[o].destroy = FALSE]
  BY <1>1
<1>6. held' = held \cup {o} /\ refused' = refused
  BY <1>1
<1> HIDE DEF o
<1>7. Good(memory', Plus(Callers(held), o), Null, t)
  BY <1>2, <1>3, <1>4, <1>5, NewParentGood
<1>8. Kept(memory', held', refused')
  <2>1. State(memory', Plus(Callers(held), o), t) /\ o \notin held
    BY <1>2, <1>4, <1>7 DEF State
  <2> QED
    BY <1>2, <1>4, <1>6, <2>1, HandedKept
<1> QED
  BY <1>8 DEF IInv

\* x is m with b as the bytes of the message p.
Given(m, x, p, b) == x = [m EXCEPT !.heap[p].bytes = b]

\* A message without bytes gets an array with one reference.
LEMMA GiveBytesGood ==
  ASSUME NEW m, NEW ext \in Tokens, NEW tidy \in BOOLEAN, NEW b \in Arrays, Good(m, Plus(ext, b), Null, tidy),
         NEW p \in DOMAIN m.heap \cap Parents, m.heap[p].bytes = Null, NEW x, Given(m, x, p, b)
  PROVE  Good(x, ext, Null, tidy)
<1> DEFINE obj == WithBytes(m.heap[p], b)
           all == Plus(ext, b)
<1>1. Shaped(m) /\ p \in Addresses /\ p \notin Arrays /\ p \notin Leaves /\ p # Null /\ b \in Int /\ b # Garbage
  BY Kinds DEF Good, Sound, Arrays, Garbage
<1>2. ParentOK(m.heap[p]) /\ m.heap[p] \in Records
  BY <1>1, ShapedHeap DEF ObjectOK
<1>3. x = Rewritten(m, p, obj)
  BY DEF Rewritten, WithBytes, Given
<1>4. /\ obj \in Records /\ obj.bytes = b
      /\ obj.class = m.heap[p].class /\ obj.fields = m.heap[p].fields /\ obj.count = m.heap[p].count
      /\ obj.data = m.heap[p].data /\ obj.destroy = m.heap[p].destroy
  BY <1>1, <1>2, Rebyted
<1>5. \A a \in Addresses : /\ Pointing(obj, a) + Ind(m.heap[p].bytes, a) = Pointing(m.heap[p], a) + Ind(b, a)
                           /\ Pointing(m.heap[p], a) \in Nat
  BY <1>1, <1>2, PointingChanged
<1>6. \A a \in Addresses : Pointing(obj, a) \in Nat
  BY <1>4, UsesCounted DEF Records
<1>7. Puts(m, x, p, obj) /\ x.lost = m.lost
  <2> HIDE DEF obj
  <2> QED
    BY <1>1, <1>3, RewrittenPuts
<1>8. all \in Tokens /\ \A a \in Addresses : all[a] = ext[a] + Ind(b, a) /\ ext[a] \in Nat
  BY PlusTokens
<1>9. Good(m, all, Null, tidy)
  OBVIOUS
<1> HIDE DEF obj, all
<1>10. Handing(m, x, all, ext, p, obj)
  <2> SUFFICES ASSUME NEW a \in Addresses
               PROVE  Pointing(m.heap[p], a) + m.lost[a] + all[a] = Pointing(obj, a) + m.lost[a] + ext[a]
    BY <1>7 DEF Handing
  <2> DEFINE l == m.lost[a]
             c == ext[a]
             i == Ind(b, a)
             v == Pointing(m.heap[p], a)
             w == Pointing(obj, a)
  <2>1. Ind(m.heap[p].bytes, a) = 0
    BY Kinds DEF Ind
  <2>2. l \in Nat /\ c \in Nat /\ i \in Nat /\ v \in Nat /\ w \in Nat /\ w = v + i
    <3>1. l \in Nat
      BY <1>1 DEF Shaped
    <3>2. i \in Nat
      BY DEF Ind
    <3> QED
      BY <1>5, <1>6, <1>8, <2>1, <3>1, <3>2
  <2>3. all[a] = c + i
    BY <1>8
  <2> HIDE DEF l, c, i, v, w
  <2>4. v + l + (c + i) = w + l + c
    BY <2>2
  <2> QED
    BY <2>3, <2>4 DEF l, c, v, w
<1>11. ObjectOK(p, obj)
  BY <1>1, <1>2, <1>4 DEF ObjectOK, ParentOK
<1>12. tidy => TidyObject(obj)
  <2>1. tidy => TidyObject(m.heap[p])
    BY <1>1 DEF Good, Tidy
  <2> QED
    BY <1>1, <1>4, <2>1 DEF TidyObject
<1>13. x.lost \in [Addresses -> Nat] /\ p \in DOMAIN m.heap /\ Puts(m, x, p, obj)
       /\ obj.count = m.heap[p].count /\ obj.data = m.heap[p].data /\ p \notin Leaves
  BY <1>1, <1>4, <1>7 DEF Shaped
<1>14. all \in Tokens
  BY <1>8
<1> QED
  BY <1>9, <1>10, <1>11, <1>12, <1>13, <1>14, RewriteGood

\* Giving bytes to a message keeps the invariant.
LEMMA GiveBytesKeeps ==
  ASSUME NEW t \in BOOLEAN, t <=> ~refused, refused \in BOOLEAN, Standing(memory, held, t),
         NEW p \in HeldOf(ParentClasses), GiveBytes(p)
  PROVE  IInv'
<1> DEFINE b == FreshFor(memory, "ByteArray")
           y == NewByteArray(memory, b)
<1>1. /\ memory' = [y EXCEPT !.heap[p].bytes = b] /\ held' = held /\ refused' = refused
      /\ Room(memory, "ByteArray", 1) /\ RoomForData(memory) /\ memory.heap[p].bytes = Null
  BY DEF GiveBytes
<1>2. Good(memory, Callers(held), Null, t) /\ held \in SUBSET Addresses /\ held \subseteq DOMAIN memory.heap
      /\ Shaped(memory) /\ Callers(held) \in Tokens
  BY CallersAre DEF Standing, Good, Sound
<1>3. b \in Addresses /\ b \notin DOMAIN memory.heap /\ b \in Arrays
  BY <1>1, <1>2, FreshHere
<1>4. p \in DOMAIN memory.heap /\ p \in Parents
  <2>1. p \in held /\ memory.heap[p].class \in ParentClasses
    BY DEF HeldOf
  <2> QED
    BY <1>2, <2>1, KindsOf
<1>5. y = NewByteArray(memory, b)
  OBVIOUS
<1> HIDE DEF b, y
<1>6. Good(y, Plus(Callers(held), b), Null, t) /\ Adds(memory, y, b)
  BY <1>1, <1>2, <1>3, <1>5, ArrayMade
<1>7. p \in DOMAIN y.heap \cap Parents /\ y.heap[p].bytes = Null
  BY <1>1, <1>4, <1>6 DEF Adds
<1>8. Good(memory', Callers(held), Null, t)
  BY <1>1, <1>2, <1>3, <1>6, <1>7, GiveBytesGood DEF Given
<1>9. Kept(memory', held', refused')
  <2>1. State(memory', Callers(held), t)
    BY <1>8 DEF State
  <2> QED
    BY <1>1, <1>2, <2>1, StateKept
<1> QED
  BY <1>9 DEF IInv

\* addTransactionInput and addTransactionOutput keep the invariant.
LEMMA AddKeeps ==
  ASSUME NEW t \in BOOLEAN, t <=> ~refused, refused \in BOOLEAN, Standing(memory, held, t),
         NEW p \in HeldOf(ParentClasses), NEW f \in HeldOf(LeafClasses), Add(p, f)
  PROVE  IInv'
<1> DEFINE y == Increment(memory, f)
<1>1. memory' = Attach(y, p, f) /\ held' = held /\ refused' = refused
  BY DEF Add
<1>2. Good(memory, Callers(held), Null, t) /\ held \in SUBSET Addresses /\ held \subseteq DOMAIN memory.heap
      /\ Shaped(memory) /\ Callers(held) \in Tokens
  BY CallersAre DEF Standing, Good, Sound
<1>3. p \in DOMAIN memory.heap /\ p \in Parents
  <2>1. p \in held /\ memory.heap[p].class \in ParentClasses
    BY DEF HeldOf
  <2> QED
    BY <1>2, <2>1, KindsOf
<1>4. f \in Leaves /\ f \in Addresses /\ Callers(held)[f] >= 1
  <2>1. f \in held /\ memory.heap[f].class \in LeafClasses
    BY DEF HeldOf
  <2> QED
    BY <1>2, <2>1, KindsOf, CallersAre
<1>5. Good(y, Plus(Callers(held), f), Null, t)
  BY <1>2, <1>4, IncrementGood
<1>6. p \in DOMAIN y.heap
  <2>1. Puts(memory, y, f, WithCount(memory.heap[f], memory.heap[f].count + 1))
    BY <1>2, <1>4, IncrementGood
  <2> HIDE DEF y
  <2> QED
    BY <1>3, <2>1 DEF Puts
<1> HIDE DEF y
<1>7. Good(memory', Callers(held), Null, t)
  BY <1>1, <1>2, <1>3, <1>4, <1>5, <1>6, AttachGood
<1>8. Kept(memory', held', refused')
  <2>1. State(memory', Callers(held), t)
    BY <1>7 DEF State
  <2> QED
    BY <1>1, <1>2, <2>1, StateKept
<1> QED
  BY <1>8 DEF IInv

\* takeTransactionInput, takeTransactionOutput and filling an inventory keep the invariant.
LEMMA TakeKeeps ==
  ASSUME NEW t \in BOOLEAN, t <=> ~refused, refused \in BOOLEAN, Standing(memory, held, t),
         NEW p \in HeldOf(ParentClasses), NEW f \in HeldOf(LeafClasses), Take(p, f)
  PROVE  IInv'
<1> DEFINE less == held \ {f}
<1>1. memory' = Attach(memory, p, f) /\ held' = less /\ refused' = refused
  BY DEF Take
<1>2. Good(memory, Callers(held), Null, t) /\ held \in SUBSET Addresses /\ held \subseteq DOMAIN memory.heap
      /\ Shaped(memory) /\ less \in SUBSET Addresses
  BY DEF Standing, Good, Sound
<1>3. p \in DOMAIN memory.heap /\ p \in Parents
  <2>1. p \in held /\ memory.heap[p].class \in ParentClasses
    BY DEF HeldOf
  <2> QED
    BY <1>2, <2>1, KindsOf
<1>4. f \in Leaves /\ f \in held
  <2>1. f \in held /\ memory.heap[f].class \in LeafClasses
    BY DEF HeldOf
  <2> QED
    BY <1>2, <2>1, KindsOf
<1>5. Callers(held) = Plus(Callers(less), f)
  BY <1>2, <1>4, CallersAre
<1> HIDE DEF less
<1>6. Callers(less) \in Tokens
  BY <1>2, CallersAre
<1>7. Good(memory, Plus(Callers(less), f), Null, t)
  BY <1>2, <1>5
<1>8. Good(memory', Callers(less), Null, t)
  BY <1>1, <1>3, <1>4, <1>6, <1>7, AttachGood
<1>9. Kept(memory', held', refused')
  <2>1. State(memory', Callers(less), t)
    BY <1>8 DEF State
  <2> QED
    BY <1>1, <1>2, <2>1, StateKept
<1> QED
  BY <1>9 DEF IInv

\* The classes of what is read are those of parts.
LEMMA ListsOfClasses ==
  ASSUME NEW class, NEW classes \in ClassLists(class)
  PROVE  classes \in Seq(LeafClasses) /\ Len(classes) \in Nat
<1>1. PICK n \in 0 .. MaxParts : classes \in [1 .. n -> LeavesOf(class)]
  BY DEF ClassLists, SeqOf
<1>2. LeavesOf(class) \subseteq LeafClasses
  BY DEF LeavesOf, LeafClasses
<1>3. classes \in [1 .. n -> LeafClasses] /\ n \in Nat
  BY <1>1, <1>2
<1> QED
  BY <1>3

\* Reading a message keeps the invariant, wherever its bytes prove too short.
LEMMA DeserializeKeeps ==
  ASSUME NEW t \in BOOLEAN, t <=> ~refused, refused \in BOOLEAN, Standing(memory, held, t),
         NEW p \in HeldOf(ParentClasses), NEW classes \in ClassLists(memory.heap[p].class),
         NEW stop \in ReadStops(memory.heap[p].class, classes), Deserialize(p, classes, stop)
  PROVE  IInv'
<1> DEFINE class == memory.heap[p].class
<1>1. /\ memory.heap[p].bytes # Null /\ memory.heap[p].fields = <<>> /\ RoomToRead(Len(classes))
      /\ memory' = ReadParent(memory, p, classes, stop) /\ refused' = (refused \/ stop # Never) /\ held' = held
  BY DEF Deserialize
<1>2. /\ Good(memory, Callers(held), Null, t) /\ Good(memory, Callers(held), Null, FALSE)
      /\ held \in SUBSET Addresses /\ held \subseteq DOMAIN memory.heap
      /\ Shaped(memory) /\ Callers(held) \in Tokens
  BY CallersAre DEF Standing, Good, Sound
<1>3. p \in DOMAIN memory.heap \cap Parents
  <2>1. p \in held /\ memory.heap[p].class \in ParentClasses
    BY DEF HeldOf
  <2> QED
    BY <1>2, <2>1, KindsOf
<1>4. classes \in Seq(LeafClasses) /\ Len(classes) \in Nat
  BY ListsOfClasses
<1>5. RoomIn(memory, Arrays, 3 * Len(classes) + 1) /\ RoomIn(memory, Leaves, Len(classes))
  <2>1. Room(memory, "ByteArray", 3 * Len(classes) + 1) /\ Room(memory, "TransactionInput", Len(classes))
        /\ "TransactionInput" \in LeafClasses
    BY <1>1 DEF RoomToRead, LeafClasses
  <2> QED
    BY <2>1, Rooms DEF RoomIn
<1>6. PICK u \in BOOLEAN : u <=> t /\ stop = Never
  OBVIOUS
<1>7. (u => Tidy(memory, p)) /\ (u => stop = Never)
  <2>1. u => Tidy(memory, Null)
    BY <1>2, <1>6 DEF Good
  <2>2. u => Tidy(memory, p)
    <3>1. Null \notin DOMAIN memory.heap
      BY <1>2, Kinds DEF Shaped, HeapOK
    <3> QED
      BY <2>1, <3>1 DEF Tidy
  <2> QED
    BY <1>6, <2>2
<1>8. \A a \in Addresses : Occ(memory.heap[p].fields, a) = 0
  BY <1>1, OccEmpty
<1>9. stop \in ReadStops(class, classes)
  OBVIOUS
<1> HIDE DEF class
<1>10. Good(memory', Callers(held), Null, u)
  BY <1>1, <1>2, <1>3, <1>4, <1>5, <1>7, <1>8, <1>9, ReadParentGood
<1>11. Kept(memory', held', refused')
  <2>1. State(memory', Callers(held), u) /\ (u <=> ~refused') /\ refused' \in BOOLEAN
    BY <1>1, <1>6, <1>10 DEF State
  <2> QED
    BY <1>1, <1>2, <2>1, StateKept
<1> QED
  BY <1>11 DEF IInv

\* Receiving a message from a connection keeps the invariant.
LEMMA ReceiveKeeps ==
  ASSUME NEW t \in BOOLEAN, t <=> ~refused, refused \in BOOLEAN, Standing(memory, held, t),
         NEW class \in ParentClasses, NEW a \in HeldOf({"ByteArray"}), NEW classes \in ClassLists(class),
         NEW stop \in ReadStops(class, classes), Receive(class, a, classes, stop)
  PROVE  IInv'
<1> DEFINE o == FreshFor(memory, class)
           y == Created(memory, o, class, a, <<Garbage>>)
           obj == NewObject(class, a, <<Garbage>>, Null)
           less == held \ {a}
           all == Plus(Callers(less), o)
<1>1. /\ memory' = ReadParent(y, o, classes, stop) /\ refused' = (refused \/ stop # Never)
      /\ held' = (held \cup {o}) \ {a} /\ Room(memory, class, 1) /\ RoomToRead(Len(classes))
      /\ o = FreshFor(memory, class)
  BY DEF Receive
<1>2. /\ Good(memory, Callers(held), Null, t) /\ Good(memory, Callers(held), Null, FALSE)
      /\ held \in SUBSET Addresses /\ held \subseteq DOMAIN memory.heap
      /\ Shaped(memory) /\ less \in SUBSET Addresses /\ FALSE \in BOOLEAN
  BY DEF Standing, Good, Sound
<1>3. a \in Arrays /\ a \in held
  <2>1. a \in held /\ memory.heap[a].class = "ByteArray"
    BY DEF HeldOf
  <2> QED
    BY <1>2, <2>1, KindsOf
<1>4. o \in Addresses /\ o \notin DOMAIN memory.heap /\ o \in Parents
  BY <1>1, <1>2, FreshHere
<1>5. o \notin less /\ o # a /\ held' = less \cup {o} /\ less \cup {o} \in SUBSET Addresses
  BY <1>1, <1>2, <1>3, <1>4, Kinds
<1>6. Callers(held) = Plus(Callers(less), a)
  BY <1>2, <1>3, CallersAre
<1>7. Puts(memory, y, o, obj) /\ y.lost = memory.lost
  BY <1>2, <1>4, CreatedPuts
<1>8. a \in Arrays \cup {Null} /\ a # Null
  BY <1>3, Kinds
<1>9. ParentOK(obj) /\ obj \in Records /\ obj.count = 1 /\ obj.bytes = a /\ obj.fields = <<Garbage>>
  BY <1>8, NewParentIs
<1> HIDE DEF o, y, obj, less
<1>10. Callers(less) \in Tokens /\ Callers(less \cup {o}) = all
  BY <1>2, <1>4, <1>5, CallersAre
<1>11. Good(memory, Plus(Callers(less), a), Null, FALSE)
  BY <1>2, <1>6
<1>12. Good(y, all, Null, FALSE)
  BY <1>2, <1>4, <1>7, <1>8, <1>9, <1>10, <1>11, ParentMade
<1>13. AddsTo(memory, y, o, o) /\ y.heap[o] = obj
  BY <1>7 DEF Puts, AddsTo
<1>14. all \in Tokens
  BY <1>10, PlusTokens
<1> HIDE DEF all
<1>15. o \in DOMAIN y.heap \cap Parents /\ y.heap[o].bytes # Null /\ y.heap[o].fields = <<Garbage>>
  BY <1>4, <1>8, <1>9, <1>13 DEF AddsTo
<1>16. classes \in Seq(LeafClasses) /\ Len(classes) \in Nat
  BY ListsOfClasses
<1>17. RoomIn(y, Arrays, 3 * Len(classes) + 1) /\ RoomIn(y, Leaves, Len(classes))
  <2>1. Room(memory, "ByteArray", 3 * Len(classes) + 1) /\ Room(memory, "TransactionInput", Len(classes))
        /\ "TransactionInput" \in LeafClasses
    BY <1>1 DEF RoomToRead, LeafClasses
  <2>2. Used(memory, Arrays) + (3 * Len(classes) + 1) <= MaxObjects /\ Used(memory, Leaves) + Len(classes) <= MaxObjects
    BY <2>1, Rooms
  <2>3. /\ Used(memory, Arrays) \in Nat /\ Used(y, Arrays) \in Nat /\ Used(y, Arrays) <= Used(memory, Arrays)
        /\ Used(memory, Leaves) \in Nat /\ Used(y, Leaves) \in Nat /\ Used(y, Leaves) <= Used(memory, Leaves)
    <3>1. DOMAIN y.heap \subseteq DOMAIN memory.heap \cup {o} /\ o \notin Arrays /\ o \notin Leaves
      BY <1>4, <1>13, Kinds DEF AddsTo
    <3> QED
      BY <1>2, <3>1, UsedLeft
  <2> QED
    BY <1>16, <2>2, <2>3, ObjectsAssumption DEF RoomIn
<1>18. PICK u \in BOOLEAN : u <=> t /\ stop = Never
  OBVIOUS
<1>19. (u => Tidy(y, o)) /\ (u => stop = Never)
  <2>1. u => Tidy(memory, Null)
    BY <1>2, <1>18 DEF Good
  <2>2. o # Null /\ Null \notin DOMAIN memory.heap
    BY <1>2, <1>4, ShapedHeap, Kinds
  <2>3. u => Tidy(y, o)
    BY <1>13, <2>1, <2>2 DEF AddsTo, Tidy
  <2> QED
    BY <1>18, <2>3
<1>20. \A b \in Addresses : Occ(y.heap[o].fields, b) = 0
  <2> SUFFICES ASSUME NEW b \in Addresses PROVE Occ(<<Garbage>>, b) = 0
    BY <1>15
  <2>1. Garbage \in Int /\ Ind(Garbage, b) = 0
    BY Kinds DEF Garbage, Ind
  <2> QED
    BY <2>1, OccShort
<1>21. Good(memory', all, Null, u)
  BY <1>1, <1>12, <1>14, <1>15, <1>16, <1>17, <1>19, <1>20, ReadParentGood
<1>22. Kept(memory', held', refused')
  <2>1. State(memory', Callers(less \cup {o}), u) /\ (u <=> ~refused') /\ refused' \in BOOLEAN
    BY <1>1, <1>10, <1>18, <1>21 DEF State
  <2> QED
    BY <1>5, <2>1, StateKept
<1> QED
  BY <1>22 DEF IInv

\* Writing a message keeps the invariant, also where it is undone.
LEMMA SerializeKeeps ==
  ASSUME NEW t \in BOOLEAN, t <=> ~refused, refused \in BOOLEAN, Standing(memory, held, t),
         NEW p \in HeldOf(ParentClasses), NEW stop, Serialize(p, stop)
  PROVE  IInv'
<1>1. /\ memory.heap[p].bytes # Null /\ Complete(p) /\ Room(memory, "ByteArray", Len(memory.heap[p].fields))
      /\ memory' = WriteParent(memory, p, stop) /\ refused' = (refused \/ WriteRefused(memory, p, stop)) /\ held' = held
  BY DEF Serialize
<1>2. /\ Good(memory, Callers(held), Null, t)
      /\ held \in SUBSET Addresses /\ held \subseteq DOMAIN memory.heap
      /\ Shaped(memory) /\ Callers(held) \in Tokens
  BY CallersAre DEF Standing, Good, Sound
<1>3. p \in DOMAIN memory.heap \cap Parents
  <2>1. p \in held /\ memory.heap[p].class \in ParentClasses
    BY DEF HeldOf
  <2> QED
    BY <1>2, <2>1, KindsOf
<1>4. RoomIn(memory, Arrays, Len(memory.heap[p].fields))
  BY <1>1, Rooms DEF RoomIn
<1>5. \A i \in 1 .. Len(memory.heap[p].fields) : memory.heap[p].fields[i] # Garbage
  <2>1. memory.heap[p].fields \in Seq(Int)
    BY <1>2, <1>3, ShapedHeap DEF Records
  <2> QED
    BY <1>1, <2>1 DEF Complete, Range
<1>6. PICK u \in BOOLEAN : u <=> t /\ ~WriteRefused(memory, p, stop)
  OBVIOUS
<1>7. Good(memory, Callers(held), Null, u) /\ (u => ~WriteRefused(memory, p, stop))
  BY <1>2, <1>6 DEF Good
<1>8. State(memory', Callers(held), u)
  BY <1>1, <1>2, <1>3, <1>4, <1>5, <1>7, WriteParentState
<1>9. (u <=> ~refused') /\ refused' \in BOOLEAN
  <2> DEFINE w == WriteRefused(memory, p, stop)
  <2>1. refused' = (refused \/ w) /\ (u <=> t /\ ~w)
    BY <1>1, <1>6
  <2> HIDE DEF w
  <2> QED
    BY <2>1
<1>10. Kept(memory', held', refused')
  BY <1>1, <1>2, <1>8, <1>9, StateKept
<1> QED
  BY <1>10 DEF IInv

\* decrementReferenceCount on what the caller holds keeps the invariant.
LEMMA ReleaseKeeps ==
  ASSUME NEW t \in BOOLEAN, t <=> ~refused, refused \in BOOLEAN, Standing(memory, held, t),
         NEW o \in held, Release(o)
  PROVE  IInv'
<1> DEFINE less == held \ {o}
           x == Decrement(memory, o)
<1>1. memory' = x /\ held' = less /\ refused' = refused
  BY DEF Release
<1>2. /\ Good(memory, Callers(held), Null, t) /\ held \in SUBSET Addresses /\ o \in Addresses
      /\ Shaped(memory) /\ less \in SUBSET Addresses
  BY DEF Standing, Good, Sound
<1>3. Callers(held) = Plus(Callers(less), o)
  BY <1>2, CallersAre
<1> HIDE DEF less
<1>4. Callers(less) \in Tokens
  BY <1>2, CallersAre
<1>5. Good(memory, Plus(Callers(less), o), Null, t)
  BY <1>2, <1>3
<1>6. State(x, Callers(less), t) \/ Jumps(memory, x, o)
  BY <1>2, <1>4, <1>5, DecrementState
<1> HIDE DEF x
<1>7. CASE State(x, Callers(less), t)
  <2>1. Kept(x, less, refused)
    BY <1>2, <1>7, StateKept
  <2> QED
    BY <1>1, <2>1 DEF IInv
<1>8. CASE Jumps(memory, x, o)
  <2>1. x = Undefined(memory, Garbage) /\ o \in DOMAIN memory.heap /\ ~memory.heap[o].destroy
    BY <1>8 DEF Jumps
  <2>2. State(x, Callers(less), FALSE) /\ SameMessages(memory, x)
    BY <1>2, <2>1, UnsetUndefined
  <2>3. x.undefined = "unset"
    BY <1>2, <2>1 DEF Undefined, Shaped, IsMemory
  <2>4. o \notin Arrays
    BY <1>2, <2>1, ShapedHeap DEF ObjectOK, ArrayOK
  <2>5. o \in DOMAIN x.heap /\ ~x.heap[o].destroy
    BY <2>1, <2>2, <2>4 DEF SameMessages
  <2>6. Kept(x, less, refused)
    BY <1>2, <2>2, <2>3, <2>5 DEF Kept
  <2> QED
    BY <1>1, <2>6 DEF IInv
<1> QED
  BY <1>6, <1>7, <1>8

-----------------------------------------------------------------------------
(* The invariant *)

\* Before anything was made there is nothing to count.
LEMMA InitKeeps ==
  ASSUME Init
  PROVE  IInv
<1> DEFINE ext == [o \in Addresses |-> 0]
<1>1. memory = Nothing /\ held = {} /\ refused = FALSE
  BY DEF Init
<1>2. /\ memory.heap = <<>> /\ memory.shared = <<>> /\ memory.undefined = "no"
      /\ memory.lost = [o \in Addresses |-> 0] /\ memory.lostShared = [d \in 1 .. MaxObjects |-> 0]
      /\ IsMemory(memory)
  BY <1>1 DEF Nothing, IsMemory
<1>3. DOMAIN memory.heap = {} /\ DOMAIN memory.shared = {}
  BY <1>2
<1>4. memory.heap = [o \in DOMAIN memory.heap |-> memory.heap[o]] /\ memory.shared \in [DOMAIN memory.shared -> Nat \ {0}]
  <2> DEFINE f == [i \in 1 .. 0 |-> memory.heap[i]]
  <2>1. f \in Seq({}) /\ Len(f) = 0
    OBVIOUS
  <2> HIDE DEF f
  <2>2. f = <<>>
    BY <2>1, EmptySeq
  <2>3. 1 .. 0 = {}
    OBVIOUS
  <2>4. f = [o \in DOMAIN memory.heap |-> memory.heap[o]]
    BY <1>3, <2>3 DEF f
  <2>5. <<>> = [i \in {} |-> 0]
    <3> DEFINE g == [i \in {} |-> 0]
    <3>1. g = [i \in 1 .. 0 |-> 0]
      BY <2>3
    <3>2. g \in Seq({}) /\ Len(g) = 0
      BY <3>1
    <3> HIDE DEF g
    <3>3. g = <<>>
      BY <3>2, EmptySeq
    <3> QED
      BY <3>3 DEF g
  <2>6. memory.shared \in [DOMAIN memory.shared -> Nat \ {0}]
    BY <1>2, <1>3, <2>5
  <2> QED
    BY <1>2, <2>2, <2>4, <2>6
<1>5. Shaped(memory)
  <2>1. HeapOK(memory.heap)
    BY <1>3 DEF HeapOK
  <2>2. memory.lost \in [Addresses -> Nat] /\ memory.lostShared \in [1 .. MaxObjects -> Nat]
    BY <1>2
  <2>3. DOMAIN memory.shared \subseteq 1 .. MaxObjects
    BY <1>3
  <2> QED
    BY <1>2, <1>4, <2>1, <2>2, <2>3 DEF Shaped
<1>6. Callers(held) = ext
  <2>1. {} \in SUBSET Addresses
    OBVIOUS
  <2> QED
    BY <1>1, <2>1, CallersAre
<1>7. Accounted(memory, ext)
  <2> SUFFICES ASSUME NEW o \in Addresses
               PROVE  CountOf(memory.heap, o) = Refs(memory.heap, o) + memory.lost[o] + ext[o]
    BY DEF Accounted
  <2>1. CountOf(memory.heap, o) = 0 /\ memory.lost[o] = 0 /\ ext[o] = 0
    BY <1>2, <1>3 DEF CountOf
  <2>2. PointersTo(memory.heap, o) = {}
    BY <1>3 DEF PointersTo
  <2>3. Refs(memory.heap, o) = 0
    BY <2>2, FS_EmptySet DEF Refs
  <2> QED
    BY <2>1, <2>3
<1>8. SharesAccounted(memory)
  <2> SUFFICES ASSUME NEW d \in 1 .. MaxObjects
               PROVE  SharesOf(memory.shared, d) = memory.lostShared[d] + Cardinality(Viewers(memory.heap, d))
    BY DEF SharesAccounted
  <2>1. SharesOf(memory.shared, d) = 0 /\ memory.lostShared[d] = 0
    BY <1>2, <1>3 DEF SharesOf
  <2>2. Viewers(memory.heap, d) = {}
    BY <1>3 DEF Viewers
  <2>3. Cardinality(Viewers(memory.heap, d)) = 0
    BY <2>2, FS_EmptySet
  <2> QED
    BY <2>1, <2>3
<1>9. Private(memory, Null) /\ Tidy(memory, Null)
  BY <1>3 DEF Private, Tidy
<1>10. State(memory, Callers(held), TRUE)
  BY <1>2, <1>5, <1>6, <1>7, <1>8, <1>9 DEF State, Good, Sound
<1>11. held \in SUBSET Addresses /\ refused \in BOOLEAN /\ TRUE \in BOOLEAN /\ (TRUE <=> ~refused)
  BY <1>1
<1> HIDE DEF ext
<1>12. Kept(memory, held, refused)
  BY <1>10, <1>11, StateKept
<1> QED
  BY <1>12 DEF IInv

\* Every step of the caller keeps the invariant.
LEMMA NextKeeps ==
  ASSUME IInv, [Next]_vars
  PROVE  IInv'
<1>1. CASE UNCHANGED vars
  BY <1>1 DEF vars, IInv
<1>2. CASE Next
  <2>1. memory.undefined = "no"
    BY <1>2 DEF Next
  <2>2. PICK t \in BOOLEAN : (t <=> ~refused) /\ Standing(memory, held, t)
    BY <2>1, StandingHere
  <2>3. refused \in BOOLEAN
    BY DEF IInv, Kept
  <2>4. CASE CreateByteArray
    BY <2>2, <2>3, <2>4, CreateByteArrayKeeps
  <2>5. ASSUME NEW a \in HeldOf({"ByteArray"}), CreateSubsection(a) PROVE IInv'
    BY <2>2, <2>3, <2>5, CreateSubsectionKeeps
  <2>6. ASSUME NEW hash \in HeldOf({"ByteArray"}), NEW script \in HeldOf({"ByteArray"}) \cup {Null},
               CreateInput(hash, script)
        PROVE  IInv'
    BY <2>2, <2>3, <2>6, CreateInputKeeps
  <2>7. ASSUME NEW script \in HeldOf({"ByteArray"}), CreateOutput(script) PROVE IInv'
    BY <2>2, <2>3, <2>7, CreateOutputVectorKeep
  <2>8. ASSUME NEW hash \in HeldOf({"ByteArray"}), CreateVector(hash) PROVE IInv'
    BY <2>2, <2>3, <2>8, CreateOutputVectorKeep
  <2>9. CASE CreateTransaction \/ CreateInventory
    BY <2>2, <2>3, <2>9, CreateParentKeeps
  <2>10. ASSUME NEW bytes \in HeldOf({"ByteArray"}), CreateTransactionFromByteArray(bytes) PROVE IInv'
    BY <2>2, <2>3, <2>10, CreateParentFromBytesKeeps
  <2>11. ASSUME NEW data \in HeldOf({"ByteArray"}), CreateInventoryFromData(data) PROVE IInv'
    BY <2>2, <2>3, <2>11, CreateParentFromBytesKeeps
  <2>12. ASSUME NEW class \in ParentClasses, NEW a \in HeldOf({"ByteArray"}), NEW classes \in ClassLists(class),
                NEW stop \in ReadStops(class, classes), Receive(class, a, classes, stop)
         PROVE  IInv'
    BY <2>2, <2>3, <2>12, ReceiveKeeps
  <2>13. ASSUME NEW p \in HeldOf(ParentClasses), GiveBytes(p) PROVE IInv'
    BY <2>2, <2>3, <2>13, GiveBytesKeeps
  <2>14. ASSUME NEW p \in HeldOf(ParentClasses), NEW f \in HeldOf(LeafClasses), Add(p, f) PROVE IInv'
    BY <2>2, <2>3, <2>14, AddKeeps
  <2>15. ASSUME NEW p \in HeldOf(ParentClasses), NEW f \in HeldOf(LeafClasses), Take(p, f) PROVE IInv'
    BY <2>2, <2>3, <2>15, TakeKeeps
  <2>16. ASSUME NEW p \in HeldOf(ParentClasses), NEW classes \in ClassLists(memory.heap[p].class),
                NEW stop \in ReadStops(memory.heap[p].class, classes), Deserialize(p, classes, stop)
         PROVE  IInv'
    BY <2>2, <2>3, <2>16, DeserializeKeeps
  <2>17. ASSUME NEW p \in HeldOf(ParentClasses),
                NEW stop \in WriteStops(memory.heap[p].class, Len(memory.heap[p].fields)), Serialize(p, stop)
         PROVE  IInv'
    BY <2>2, <2>3, <2>17, SerializeKeeps
  <2>18. ASSUME NEW o \in held, Release(o) PROVE IInv'
    BY <2>2, <2>3, <2>18, ReleaseKeeps
  <2> QED
    BY <1>2, <2>4, <2>5, <2>6, <2>7, <2>8, <2>9, <2>10, <2>11, <2>12, <2>13, <2>14, <2>15, <2>16, <2>17, <2>18 DEF Next
<1> QED
  BY <1>1, <1>2

\* The invariant has the types.
LEMMA InvariantTypes ==
  ASSUME IInv
  PROVE  TypeOK /\ Shaped(memory)
<1>1. Shaped(memory) /\ memory.undefined \in {"no", "unset", "freed"}
  BY DEF IInv, Kept, State, Good, Sound
<1>2. DOMAIN memory.heap \subseteq Addresses /\ DOMAIN memory.shared \subseteq 1 .. MaxObjects
  BY <1>1 DEF Shaped, HeapOK
<1> QED
  BY <1>1, <1>2 DEF TypeOK, IInv, Kept

\* The counts of objects: the tokens of the caller are what it holds.
LEMMA InvariantCounts ==
  ASSUME NEW h \in SUBSET Addresses, NEW m, Good(m, Callers(h), Null, FALSE)
  PROVE  /\ h \subseteq DOMAIN m.heap
         /\ \A o \in DOMAIN m.heap :
              /\ m.heap[o].count = Cardinality(PointersTo(m.heap, o)) + m.lost[o] + (IF o \in h THEN 1 ELSE 0)
              /\ Range(m.heap[o].fields) \cup {m.heap[o].bytes} \subseteq DOMAIN m.heap \cup {Null, Garbage}
<1>1. Booked(m, Callers(h)) /\ Shaped(m) /\ Accounted(m, Callers(h)) /\ Callers(h) \in Tokens
  BY CallersAre DEF Good, Sound, Booked
<1>2. h \subseteq DOMAIN m.heap
  BY HeldAreAlive
<1>3. ASSUME NEW o \in DOMAIN m.heap
      PROVE  /\ m.heap[o].count = Cardinality(PointersTo(m.heap, o)) + m.lost[o] + (IF o \in h THEN 1 ELSE 0)
             /\ Range(m.heap[o].fields) \cup {m.heap[o].bytes} \subseteq DOMAIN m.heap \cup {Null, Garbage}
  <2>1. o \in Addresses /\ ObjectOK(o, m.heap[o]) /\ m.heap[o] \in Records
    BY <1>1, ShapedHeap
  <2>2. m.heap[o].count = Refs(m.heap, o) + m.lost[o] + Callers(h)[o]
    BY <1>1, <2>1 DEF Accounted, CountOf
  <2>3. Callers(h)[o] = IF o \in h THEN 1 ELSE 0
    BY <2>1 DEF Callers
  <2>4. Refs(m.heap, o) = Cardinality(PointersTo(m.heap, o))
    BY DEF Refs
  <2>5. m.heap[o].bytes \in Addresses \cup {Null, Garbage}
    BY <2>1, Kinds DEF ObjectOK, ArrayOK, LeafOK, ParentOK
  <2>6. m.heap[o].fields \in Seq(Addresses \cup {Null, Garbage})
    <3>1. CASE o \in Arrays
      <4>1. m.heap[o].fields = <<>>
        BY <2>1, <3>1 DEF ObjectOK, ArrayOK
      <4>2. <<>> \in Seq(Addresses \cup {Null, Garbage})
        OBVIOUS
      <4> QED
        BY <4>1, <4>2
    <3>2. CASE o \in Leaves
      <4>1. m.heap[o].fields \in Seq(Arrays \cup {Null}) /\ Arrays \cup {Null} \subseteq Addresses \cup {Null, Garbage}
        BY <2>1, <3>2, Kinds DEF ObjectOK, LeafOK
      <4> QED
        BY <4>1
    <3>3. CASE o \in Parents
      <4>1. m.heap[o].fields \in Seq(Leaves \cup {Garbage}) /\ Leaves \cup {Garbage} \subseteq Addresses \cup {Null, Garbage}
        BY <2>1, <3>3, Kinds DEF ObjectOK, ParentOK
      <4> QED
        BY <4>1
    <3>4. o \in Arrays \/ o \in Leaves \/ o \in Parents
      BY <2>1, Kinds
    <3> QED
      BY <3>1, <3>2, <3>3, <3>4
  <2>7. m.heap[o].bytes \in DOMAIN m.heap \cup {Null, Garbage}
    BY <1>1, <2>5, PointersAlive
  <2>8. ASSUME NEW f \in Range(m.heap[o].fields) PROVE f \in DOMAIN m.heap \cup {Null, Garbage}
    <3>1. PICK i \in DOMAIN m.heap[o].fields : f = m.heap[o].fields[i]
      BY DEF Range
    <3>2. i \in 1 .. Len(m.heap[o].fields) /\ f \in Addresses \cup {Null, Garbage}
      BY <2>6, <3>1
    <3> QED
      BY <1>1, <3>1, <3>2, PointersAlive
  <2>9. m.heap[o].count = Cardinality(PointersTo(m.heap, o)) + m.lost[o] + (IF o \in h THEN 1 ELSE 0)
    BY <2>2, <2>3, <2>4
  <2> QED
    BY <2>7, <2>8, <2>9
<1> QED
  BY <1>2, <1>3

\* The counts of shared data: an array looks into data that is there.
LEMMA InvariantShares ==
  ASSUME NEW m, NEW ext \in Tokens, Good(m, ext, Null, FALSE)
  PROVE  /\ \A o \in DOMAIN m.heap : m.heap[o].class = "ByteArray" => m.heap[o].data \in DOMAIN m.shared
         /\ \A d \in DOMAIN m.shared :
              m.shared[d] = m.lostShared[d] + Cardinality({o \in DOMAIN m.heap : m.heap[o].data = d})
<1>1. Booked(m, ext) /\ Shaped(m) /\ SharesAccounted(m)
  BY DEF Good, Sound, Booked
<1>2. ASSUME NEW o \in DOMAIN m.heap, m.heap[o].class = "ByteArray" PROVE m.heap[o].data \in DOMAIN m.shared
  <2>1. o \in Arrays
    BY <1>1, <1>2, KindsOf
  <2> QED
    BY <1>1, <2>1, DataAlive
<1>3. ASSUME NEW d \in DOMAIN m.shared
      PROVE  m.shared[d] = m.lostShared[d] + Cardinality({o \in DOMAIN m.heap : m.heap[o].data = d})
  <2>1. d \in 1 .. MaxObjects
    BY <1>1 DEF Shaped
  <2> QED
    BY <1>1, <2>1 DEF SharesAccounted, SharesOf, Viewers
<1> QED
  BY <1>2, <1>3

\* Exactly those that keep an object are counted, and nothing is freed that can be reached.
LEMMA InvariantAccounts ==
  ASSUME IInv
  PROVE  CountsAccounted
<1>1. TypeOK
  BY InvariantTypes
<1>2. ASSUME memory.undefined = "no" PROVE ObjectsAccounted /\ SharedDataAccounted
  <2>1. Good(memory, Callers(held), Null, FALSE) /\ held \in SUBSET Addresses
    BY <1>2 DEF IInv, Kept, State
  <2>2. Callers(held) \in Tokens
    BY <2>1, CallersAre
  <2>3. ObjectsAccounted
    BY <2>1, InvariantCounts DEF ObjectsAccounted
  <2>4. SharedDataAccounted
    BY <2>1, <2>2, InvariantShares DEF SharedDataAccounted, Class
  <2> QED
    BY <2>3, <2>4
<1> QED
  BY <1>1, <1>2 DEF CountsAccounted

\* Nothing that was freed is used.
LEMMA InvariantSafe ==
  ASSUME IInv
  PROVE  NothingFreedUsed
BY DEF IInv, Kept, State, Good, NothingFreedUsed

\* The invariant holds of every order of calls.
THEOREM MemoryInvariant == Spec => []IInv
<1>1. Init => IInv
  BY InitKeeps
<1>2. IInv /\ [Next]_vars => IInv'
  BY NextKeeps
<1> QED
  BY <1>1, <1>2, PTL DEF Spec

\* While the program is defined every count is what keeps the object, and nothing
\* that can be reached has been freed: CountsAccounted, for any number of objects.
THEOREM CountsAreExact == Spec => []CountsAccounted
<1>1. IInv => CountsAccounted
  BY InvariantAccounts
<1> QED
  BY <1>1, MemoryInvariant, PTL

\* No order of calls follows a pointer to what was freed, and only refused bytes or a
\* transaction made from bytes lead to a pointer that was never set: NothingFreedUsed.
THEOREM FreedIsNotUsed == Spec => []NothingFreedUsed
<1>1. IInv => NothingFreedUsed
  BY InvariantSafe
<1> QED
  BY <1>1, MemoryInvariant, PTL
=============================================================================
