----------------------------- MODULE Script_proofs -----------------------------
(***************************************************************************)
(* What holds of the interpreter for every script, every stack it starts   *)
(* with and every limit: the types, the blocks, the memory of the          *)
(* elements, each of which owns its bytes, and the values that operations  *)
(* leave.                                                                  *)
(*                                                                         *)
(* Operations rebuild the top of the stack and leave what is below it.  So *)
(* the argument is about the addresses of the elements that stay, Below:   *)
(* their bytes are not changed, and no element that is new on the stack    *)
(* has one of them.  What malloc gives out is free and therefore different *)
(* from all of them (NewInOwn), and two elements of a stack that owns its  *)
(* memory are apart (Apart).  The values below the top stay for the same   *)
(* reason, and those on the top are compared with the comments.            *)
(***************************************************************************)
EXTENDS Script, Induction, FiniteSetTheorems, SequenceTheorems

Byte == 0..255
Elem == [at : 0..MaxAt, len : Nat]
Memory == [1..MaxAt -> Seq(Byte)]

\* The bytes of e are there and as many as it says.
Holds(m, e) ==
  /\ e \in Elem
  /\ Len(Bytes(m, e)) = e.len
  /\ e.at # 0 => m[e.at] # <<>>

\* No two elements of s and a have bytes in common.
Owns(s, a, m) ==
  /\ s \in Seq(Elem) /\ a \in Seq(Elem) /\ m \in Memory
  /\ \A i \in 1..Len(s) : Holds(m, s[i])
  /\ \A i \in 1..Len(a) : Holds(m, a[i])
  /\ \A i, j \in 1..Len(s) : s[i].at = s[j].at /\ s[i].at # 0 => i = j
  /\ \A i, j \in 1..Len(a) : a[i].at = a[j].at /\ a[i].at # 0 => i = j
  /\ \A i \in 1..Len(s), j \in 1..Len(a) : s[i].at = a[j].at => s[i].at = 0

\* The address b belongs to one of the first n elements of s or to one of a.
Below(s, a, n, b) ==
  /\ b # 0
  /\ \/ \E i \in 1..n : s[i].at = b
     \/ \E i \in 1..Len(a) : a[i].at = b

Spare(m) == \E b \in 1..MaxAt : m[b] = <<>>

Owned == Owns(stack, alt, mem)

\* The results of an operation, and what it leaves.
Going == {"running", "bad", "error", "assertion", "null", "undefined"}
Leaves == Owns(stack', alt', mem') /\ status' \in Going

------------------------------------------------------------------------------
(* Elements and addresses.                                                   *)

\* The two stacks may change their roles.
LEMMA OwnsSwapped ==
  ASSUME NEW s, NEW a, NEW m, Owns(s, a, m)
  PROVE  Owns(a, s, m)
BY DEF Owns

\* Where the top of a stack is replaced by t, what is below stays, and t has other
\* bytes, which are there, the stack still owns its memory.
LEMMA OwnsRebuilt ==
  ASSUME NEW s, NEW a, NEW m, Owns(s, a, m), NEW n \in 0..Len(s),
         NEW w \in Memory, NEW t \in Seq(Elem),
         \A b : Below(s, a, n, b) => w[b] = m[b],
         \A i \in 1..Len(t) : Holds(w, t[i]) /\ ~Below(s, a, n, t[i].at),
         \A i, j \in 1..Len(t) : t[i].at = t[j].at /\ t[i].at # 0 => i = j
  PROVE  Owns(SubSeq(s, 1, n) \o t, a, w)
<1> DEFINE r == SubSeq(s, 1, n) \o t
<1>1. /\ s \in Seq(Elem) /\ a \in Seq(Elem) /\ m \in Memory /\ n \in Nat /\ n <= Len(s)
  BY DEF Owns
<1>2. /\ r \in Seq(Elem) /\ Len(r) = n + Len(t)
      /\ \A i \in 1..n : r[i] = s[i]
      /\ \A i \in 1..Len(t) : r[n + i] = t[i]
  BY <1>1
<1>3. \A i \in 1..Len(r) : i \in 1..n \/ (i - n \in 1..Len(t) /\ r[i] = t[i - n])
  <2> SUFFICES ASSUME NEW i \in 1..Len(r), i \notin 1..n
               PROVE  i - n \in 1..Len(t) /\ r[i] = t[i - n]
    OBVIOUS
  <2>1. i - n \in 1..Len(t) /\ n + (i - n) = i
    BY <1>1, <1>2
  <2> QED
    BY <1>2, <2>1
<1>4. \A i \in 1..n : s[i].at # 0 => Below(s, a, n, s[i].at)
  BY DEF Below
<1>5. \A i \in 1..Len(a) : a[i].at # 0 => Below(s, a, n, a[i].at)
  BY DEF Below
<1>6. \A i \in 1..n : i \in 1..Len(s)
  BY <1>1
<1>a. ASSUME NEW e, Holds(m, e), e.at # 0 => w[e.at] = m[e.at] PROVE Holds(w, e)
  <2>1. CASE e.at = 0
    BY <1>a, <2>1 DEF Holds, Bytes
  <2>2. CASE e.at # 0
    BY <1>a, <2>2 DEF Holds, Bytes
  <2> QED
    BY <2>1, <2>2
<1>7. \A i \in 1..n : Holds(w, s[i])
  <2> TAKE i \in 1..n
  <2>1. Holds(m, s[i])
    BY <1>6 DEF Owns
  <2>2. s[i].at # 0 => w[s[i].at] = m[s[i].at]
    BY <1>4
  <2> QED
    BY <1>a, <2>1, <2>2
<1>8. \A i \in 1..Len(a) : Holds(w, a[i])
  <2> TAKE i \in 1..Len(a)
  <2>1. Holds(m, a[i])
    BY DEF Owns
  <2>2. a[i].at # 0 => w[a[i].at] = m[a[i].at]
    BY <1>5
  <2> QED
    BY <1>a, <2>1, <2>2
<1>b. \A i \in 1..Len(r) : i \notin 1..n => ~Below(s, a, n, r[i].at)
  BY <1>3
<1> HIDE DEF r
<1>9. \A i \in 1..Len(r) : Holds(w, r[i])
  BY <1>2, <1>3, <1>7
<1>10. \A i, j \in 1..Len(r) : r[i].at = r[j].at /\ r[i].at # 0 => i = j
  <2> SUFFICES ASSUME NEW i \in 1..Len(r), NEW j \in 1..Len(r),
                      r[i].at = r[j].at, r[i].at # 0
               PROVE  i = j
    OBVIOUS
  <2>1. CASE i \in 1..n /\ j \in 1..n
    BY <2>1, <1>2, <1>6 DEF Owns
  <2>2. CASE i \in 1..n /\ j \notin 1..n
    BY <2>2, <1>2, <1>b, <1>4
  <2>3. CASE i \notin 1..n /\ j \in 1..n
    BY <2>3, <1>2, <1>b, <1>4
  <2>4. CASE i \notin 1..n /\ j \notin 1..n
    <3>1. i - n \in 1..Len(t) /\ r[i] = t[i - n]
      BY <2>4, <1>3
    <3>2. j - n \in 1..Len(t) /\ r[j] = t[j - n]
      BY <2>4, <1>3
    <3>3. i - n = j - n
      BY <3>1, <3>2
    <3> QED
      BY <3>3, <1>1, <1>2
  <2> QED
    BY <2>1, <2>2, <2>3, <2>4
<1>11. \A i \in 1..Len(r), j \in 1..Len(a) : r[i].at = a[j].at => r[i].at = 0
  <2> SUFFICES ASSUME NEW i \in 1..Len(r), NEW j \in 1..Len(a), r[i].at = a[j].at
               PROVE  r[i].at = 0
    OBVIOUS
  <2>1. CASE i \in 1..n
    BY <2>1, <1>2, <1>6 DEF Owns
  <2>2. CASE i \notin 1..n
    BY <2>2, <1>b, <1>5
  <2> QED
    BY <2>1, <2>2
<1>12. Owns(r, a, w)
  BY <1>1, <1>2, <1>8, <1>9, <1>10, <1>11 DEF Owns
<1> QED
  BY <1>12 DEF r

\* A single element on the top.
LEMMA OwnsAppended ==
  ASSUME NEW s, NEW a, NEW m, Owns(s, a, m), NEW n \in 0..Len(s),
         NEW w \in Memory, NEW e, Holds(w, e),
         \A b : Below(s, a, n, b) => w[b] = m[b] /\ b # e.at
  PROVE  Owns(Append(SubSeq(s, 1, n), e), a, w)
<1>1. s \in Seq(Elem) /\ e \in Elem
  BY DEF Owns, Holds
<1> DEFINE t == <<e>>
<1>2. t \in Seq(Elem) /\ Len(t) = 1 /\ \A i \in 1..Len(t) : t[i] = e
  BY <1>1
<1>3. SubSeq(s, 1, n) \o t = Append(SubSeq(s, 1, n), e)
  BY <1>1
<1>4. \A i, j \in 1..Len(t) : i = j
  BY <1>2
<1> HIDE DEF t
<1>5. Owns(SubSeq(s, 1, n) \o t, a, w)
  BY <1>2, <1>4, OwnsRebuilt
<1> QED
  BY <1>3, <1>5

\* No element on the top.
LEMMA OwnsDropped ==
  ASSUME NEW s, NEW a, NEW m, Owns(s, a, m), NEW n \in 0..Len(s), NEW w \in Memory,
         \A b : Below(s, a, n, b) => w[b] = m[b]
  PROVE  Owns(SubSeq(s, 1, n), a, w)
<1>1. s \in Seq(Elem)
  BY DEF Owns
<1> DEFINE t == <<>>
<1>2. t \in Seq(Elem) /\ 1..Len(t) = {}
  OBVIOUS
<1>3. SubSeq(s, 1, n) \o t = SubSeq(s, 1, n)
  BY <1>1
<1> HIDE DEF t
<1>4. Owns(SubSeq(s, 1, n) \o t, a, w)
  BY <1>2, OwnsRebuilt
<1> QED
  BY <1>3, <1>4

\* The elements on the top have other addresses than those below.
LEMMA Apart ==
  ASSUME Owned, NEW k \in 0..Len(stack), NEW b, Below(stack, alt, Len(stack) - k, b)
  PROVE  /\ b \in 1..MaxAt /\ mem[b] # <<>>
         /\ \A i \in 1..k : Top(i).at # b
<1>1. stack \in Seq(Elem) /\ alt \in Seq(Elem)
  BY DEF Owned, Owns
<1>2. CASE \E j \in 1..Len(stack) - k : stack[j].at = b
  <2>1. PICK j \in 1..Len(stack) - k : stack[j].at = b
    BY <1>2
  <2>2. j \in 1..Len(stack) /\ stack[j] \in Elem
    BY <1>1
  <2>3. b \in 1..MaxAt /\ mem[b] # <<>>
    <3>1. Holds(mem, stack[j]) /\ b # 0
      BY <2>2 DEF Owned, Owns, Below
    <3> QED
      BY <2>1, <2>2, <3>1, ScriptAssumption DEF Holds, Elem
  <2>4. ASSUME NEW i \in 1..k PROVE Top(i).at # b
    <3>1. Len(stack) - i + 1 \in 1..Len(stack) /\ Len(stack) - i + 1 # j
      BY <1>1
    <3> QED
      BY <2>1, <2>2, <3>1 DEF Owned, Owns, Below, Top
  <2> QED
    BY <2>3, <2>4
<1>3. CASE \E j \in 1..Len(alt) : alt[j].at = b
  <2>1. PICK j \in 1..Len(alt) : alt[j].at = b
    BY <1>3
  <2>2. alt[j] \in Elem
    BY <1>1
  <2>3. b \in 1..MaxAt /\ mem[b] # <<>>
    <3>1. Holds(mem, alt[j]) /\ b # 0
      BY DEF Owned, Owns, Below
    <3> QED
      BY <2>1, <2>2, <3>1, ScriptAssumption DEF Holds, Elem
  <2>4. ASSUME NEW i \in 1..k PROVE Top(i).at # b
    <3>1. Len(stack) - i + 1 \in 1..Len(stack)
      BY <1>1
    <3> QED
      BY <2>1, <3>1 DEF Owned, Owns, Below, Top
  <2> QED
    BY <2>3, <2>4
<1> QED
  BY <1>2, <1>3 DEF Below

\* The elements on the top, their bytes and their distance.
LEMMA TopHolds ==
  ASSUME Owned, NEW i \in 1..Len(stack)
  PROVE  /\ Holds(mem, Top(i)) /\ Top(i) \in Elem /\ Value(i) \in Seq(Byte)
         /\ \A j \in 1..Len(stack) : Top(i).at = Top(j).at /\ Top(i).at # 0 => i = j
<1>1. stack \in Seq(Elem) /\ Len(stack) - i + 1 \in 1..Len(stack) /\ mem \in Memory
  BY DEF Owned, Owns
<1>2. Holds(mem, Top(i)) /\ Top(i) \in Elem
  BY <1>1 DEF Owned, Owns, Holds, Top
<1>3. Value(i) \in Seq(Byte)
  BY <1>1, <1>2 DEF Value, Bytes, Memory, Elem
<1>4. ASSUME NEW j \in 1..Len(stack), Top(i).at = Top(j).at, Top(i).at # 0 PROVE i = j
  <2>1. Len(stack) - j + 1 \in 1..Len(stack)
    BY <1>1
  <2>2. Len(stack) - i + 1 = Len(stack) - j + 1
    BY <1>1, <1>4, <2>1 DEF Owned, Owns, Top
  <2> QED
    BY <1>1, <2>2
<1> QED
  BY <1>2, <1>3, <1>4

------------------------------------------------------------------------------
(* The memory.                                                               *)

\* malloc gives an address that is free.
LEMMA FreshIsFree ==
  ASSUME NEW m, Spare(m)
  PROVE  Fresh(m) \in 1..MaxAt /\ m[Fresh(m)] = <<>>
<1> DEFINE T == {b \in 1..MaxAt : m[b] = <<>>}
<1>1. T \in SUBSET Nat /\ T # {}
  BY ScriptAssumption DEF Spare
<1>2. PICK b \in T : \A c \in T : b <= c
  BY <1>1, LeastNumber
<1>3. \E x \in 1..MaxAt : m[x] = <<>> /\ \A c \in 1..MaxAt : m[c] = <<>> => x <= c
  BY <1>2
<1> QED
  BY <1>3 DEF Fresh

\* A new element has free memory, and its bytes are put there.
LEMMA NewInOwn ==
  ASSUME NEW m \in Memory, NEW v \in Seq(Byte), Spare(m)
  PROVE  LET n == NewIn(m, v)
         IN  /\ n.mem \in Memory /\ Holds(n.mem, n.elem) /\ Bytes(n.mem, n.elem) = v
             /\ n.elem.at # 0 => m[n.elem.at] = <<>>
             /\ \A b : b \in 1..MaxAt /\ b # n.elem.at => n.mem[b] = m[b]
             /\ \A b : b \in 1..MaxAt /\ m[b] # <<>> => n.mem[b] = m[b]
<1>1. CASE v = <<>>
  <2>1. NewIn(m, v) = [elem |-> Null, mem |-> m]
    BY <1>1 DEF NewIn
  <2>2. Holds(m, Null) /\ Bytes(m, Null) = v
    BY <1>1, ScriptAssumption DEF Holds, Null, Elem, Bytes
  <2> QED
    BY <2>1, <2>2 DEF Null
<1>2. CASE v # <<>>
  <2> DEFINE f == Fresh(m)
             e == [at |-> f, len |-> Len(v)]
             w == [m EXCEPT ![f] = v]
  <2>1. f \in 1..MaxAt /\ m[f] = <<>>
    BY FreshIsFree
  <2>2. NewIn(m, v) = [elem |-> e, mem |-> w]
    BY <1>2 DEF NewIn
  <2> HIDE DEF f
  <2>3. w \in Memory /\ w[f] = v /\ \A b : b \in 1..MaxAt /\ b # f => w[b] = m[b]
    BY <2>1 DEF Memory
  <2>4. Holds(w, e) /\ Bytes(w, e) = v
    BY <1>2, <2>1, <2>3, ScriptAssumption DEF Holds, Elem, Bytes
  <2> QED
    BY <2>1, <2>2, <2>3, <2>4
<1> QED
  BY <1>1, <1>2

\* free leaves the rest of the memory as it is.
LEMMA FreeInKeeps ==
  ASSUME NEW m \in Memory, NEW e \in Elem
  PROVE  /\ FreeIn(m, e) \in Memory
         /\ \A b : b \in 1..MaxAt /\ b # e.at => FreeIn(m, e)[b] = m[b]
         /\ \A b : b \in 1..MaxAt /\ m[b] = <<>> => FreeIn(m, e)[b] = <<>>
<1>1. e.at \in 0..MaxAt /\ <<>> \in Seq(Byte)
  BY DEF Elem
<1>2. CASE e.at = 0
  BY <1>2 DEF FreeIn
<1>3. CASE e.at # 0
  <2>1. FreeIn(m, e) = [m EXCEPT ![e.at] = <<>>]
    BY <1>3 DEF FreeIn
  <2> QED
    BY <1>1, <2>1 DEF Memory
<1> QED
  BY <1>2, <1>3

\* What realloc puts in place of an element's bytes is there, at the same address
\* or at a free one, or it is zero.
LEMMA PlacedOwn ==
  ASSUME NEW m \in Memory, NEW e \in Elem, NEW v \in Seq(Byte), Spare(m)
  PROVE  LET p == Placed(m, e, v)
         IN  /\ p.mem \in Memory /\ Holds(p.mem, p.elem) /\ Bytes(p.mem, p.elem) = v
             /\ p.elem.at # 0 => p.elem.at = e.at \/ m[p.elem.at] = <<>>
             /\ \A b : b \in 1..MaxAt /\ m[b] # <<>> /\ b # e.at => p.mem[b] = m[b]
<1>1. CASE v = <<>>
  <2>1. Placed(m, e, v) = [elem |-> Null, mem |-> FreeIn(m, e)]
    BY <1>1 DEF Placed
  <2>2. Holds(FreeIn(m, e), Null) /\ Bytes(FreeIn(m, e), Null) = v
    BY <1>1, ScriptAssumption DEF Holds, Null, Elem, Bytes
  <2> QED
    BY <2>1, <2>2, FreeInKeeps DEF Null
<1>2. CASE v # <<>> /\ e.at = 0
  <2>1. Placed(m, e, v) = NewIn(m, v)
    BY <1>2 DEF Placed
  <2> QED
    BY <2>1, NewInOwn
<1>3. CASE v # <<>> /\ e.at # 0
  <2> DEFINE n == [at |-> e.at, len |-> Len(v)]
             w == [m EXCEPT ![e.at] = v]
  <2>1. Placed(m, e, v) = [elem |-> n, mem |-> w]
    BY <1>3 DEF Placed
  <2>2. e.at \in 1..MaxAt
    BY <1>3, ScriptAssumption DEF Elem
  <2>3. w \in Memory /\ w[e.at] = v /\ \A b : b \in 1..MaxAt /\ b # e.at => w[b] = m[b]
    BY <2>2 DEF Memory
  <2>4. Holds(w, n) /\ Bytes(w, n) = v
    BY <1>3, <2>2, <2>3, ScriptAssumption DEF Holds, Elem, Bytes
  <2> QED
    BY <2>1, <2>3, <2>4
<1> QED
  BY <1>1, <1>2, <1>3

\* Room is more than one free address.
LEMMA RoomSpares == Room => Spare(mem)
<1> SUFFICES ASSUME Room, {a \in 1..MaxAt : mem[a] = <<>>} = {} PROVE FALSE
  BY DEF Spare
<1> QED
  BY FS_EmptySet DEF Room

------------------------------------------------------------------------------
(* Numbers.                                                                  *)

Sums(f, v) ==
  f = [i \in 0..Len(v) |->
         IF i = 0 THEN 0
         ELSE 256 * f[i - 1] + (v[Len(v) + 1 - i] % (IF i = 1 THEN 128 ELSE 256))]

\* An element of any length is a number.
LEMMA ToIntIsInt ==
  ASSUME NEW v \in Seq(Byte)
  PROVE  ToInt(v) \in Int
<1> DEFINE Term(g, i) == IF i = 0 THEN 0
                         ELSE 256 * g[i - 1] + (v[Len(v) + 1 - i] % (IF i = 1 THEN 128 ELSE 256))
           T == {j \in Nat : \E g : g = [i \in 0..j |-> Term(g, i)]}
<1>1. 0 \in T
  <2> DEFINE g == [i \in 0..0 |-> 0]
  <2>1. g = [i \in 0..0 |-> Term(g, i)]
    OBVIOUS
  <2> QED
    BY <2>1
<1>2. ASSUME NEW j \in T PROVE j + 1 \in T
  <2>1. PICK g : g = [i \in 0..j |-> Term(g, i)]
    OBVIOUS
  <2> DEFINE h == [i \in 0..j + 1 |-> IF i = j + 1 THEN Term(g, j + 1) ELSE g[i]]
  <2>2. \A i \in 0..j : g[i] = Term(g, i)
    <3> TAKE i \in 0..j
    <3> DEFINE f == [k \in 0..j |-> Term(g, k)]
    <3>1. f[i] = Term(g, i)
      OBVIOUS
    <3>2. g = f
      BY <2>1, Zenon
    <3> HIDE DEF f, Term
    <3> QED
      BY <3>1, <3>2
  <2>3. ASSUME NEW i \in 0..j + 1 PROVE h[i] = Term(h, i)
    <3>1. CASE i = 0
      BY <2>2, <3>1
    <3>2. CASE i # 0 /\ i # j + 1
      <4>1. i \in 0..j /\ i - 1 \in 0..j + 1 /\ i - 1 # j + 1
        BY <3>2
      <4>2. h[i] = g[i] /\ h[i - 1] = g[i - 1]
        BY <3>2, <4>1
      <4> QED
        BY <2>2, <4>1, <4>2
    <3>3. CASE i = j + 1
      <4>1. j \in 0..j + 1 /\ j # j + 1 /\ i - 1 = j /\ i # 0
        BY <3>3
      <4>2. h[i] = Term(g, i) /\ h[i - 1] = g[i - 1]
        BY <3>3, <4>1
      <4> QED
        BY <4>1, <4>2
    <3> QED
      BY <3>1, <3>2, <3>3
  <2>4. h = [i \in 0..j + 1 |-> Term(h, i)]
    <3> HIDE DEF Term
    <3> QED
      BY <2>3
  <2>5. \E f : f = [i \in 0..j + 1 |-> Term(f, i)]
    <3> HIDE DEF h, Term
    <3> QED
      BY <2>4, Zenon
  <2> HIDE DEF h, Term
  <2> QED
    BY <2>5
<1>3. T = Nat
  <2> HIDE DEF T
  <2> QED
    BY <1>1, <1>2, SetInduction DEF T
<1>4. \E f : Sums(f, v)
  <2>1. Len(v) \in T
    BY <1>3
  <2> QED
    BY <2>1, Zenon DEF Sums
<1> DEFINE s == CHOOSE f : Sums(f, v)
<1>5. Sums(s, v)
  BY <1>4
<1>6. ToInt(v) = IF v # <<>> /\ v[Len(v)] >= 128 THEN -s[Len(v)] ELSE s[Len(v)]
  BY Zenon DEF ToInt, Sums
<1> HIDE DEF s
<1> DEFINE U == {j \in Nat : j <= Len(v) => s[j] \in Nat}
<1>7. \A i \in 0..Len(v) :
        s[i] = IF i = 0 THEN 0
               ELSE 256 * s[i - 1] + (v[Len(v) + 1 - i] % (IF i = 1 THEN 128 ELSE 256))
  BY <1>5, SMTT(30) DEF Sums
<1>8. 0 \in U
  BY <1>7
<1>9. ASSUME NEW j \in U PROVE j + 1 \in U
  <2> SUFFICES ASSUME j + 1 <= Len(v) PROVE s[j + 1] \in Nat
    OBVIOUS
  <2>1. j + 1 \in 0..Len(v) /\ j + 1 # 0 /\ (j + 1) - 1 = j /\ s[j] \in Nat
    OBVIOUS
  <2>2. Len(v) + 1 - (j + 1) \in 1..Len(v)
    OBVIOUS
  <2>3. v[Len(v) + 1 - (j + 1)] \in Byte
    BY <2>2
  <2>4. s[j + 1] = 256 * s[j] + (v[Len(v) + 1 - (j + 1)] % (IF j + 1 = 1 THEN 128 ELSE 256))
    BY <1>7, <2>1
  <2>5. \A x \in Byte : x % 128 \in Nat /\ x % 256 \in Nat
    BY DEF Byte
  <2> DEFINE x == v[Len(v) + 1 - (j + 1)]
             y == x % (IF j + 1 = 1 THEN 128 ELSE 256)
  <2>6. y \in Nat
    <3> HIDE DEF x
    <3>1. x \in Byte
      BY <2>3 DEF x
    <3>2. x % 128 \in Nat /\ x % 256 \in Nat
      BY <2>5, <3>1
    <3>3. CASE j + 1 = 1
      BY <3>2, <3>3
    <3>4. CASE j + 1 # 1
      BY <3>2, <3>4
    <3> QED
      BY <3>3, <3>4
  <2>7. s[j + 1] = 256 * s[j] + y
    BY <2>4
  <2> HIDE DEF y
  <2> QED
    BY <2>1, <2>6, <2>7
<1>10. U = Nat
  <2> HIDE DEF U
  <2> QED
    BY <1>8, <1>9, SetInduction DEF U
<1>11. s[Len(v)] \in Nat
  BY <1>10
<1> QED
  BY <1>6, <1>11

Digits(f, n) ==
  f = [m \in 0..n |->
         IF m = 0 THEN <<>>
         ELSE <<m % 256>> \o (IF m < 256 /\ m > 127 THEN <<0>> ELSE f[m \div 256])]

\* A number that is not negative is a vector of bytes.
LEMMA FromNatIsBytes ==
  ASSUME NEW n \in Nat
  PROVE  FromNat(n) \in Seq(Byte)
<1> DEFINE Term(g, m) == IF m = 0 THEN <<>>
                         ELSE <<m % 256>> \o (IF m < 256 /\ m > 127 THEN <<0>> ELSE g[m \div 256])
           T == {j \in Nat : \E g : g = [m \in 0..j |-> Term(g, m)]}
<1>0. \A m \in Nat : m # 0 => m \div 256 \in Nat /\ m \div 256 < m
  OBVIOUS
<1>1. 0 \in T
  <2> DEFINE g == [m \in 0..0 |-> <<>>]
  <2>1. g = [m \in 0..0 |-> Term(g, m)]
    OBVIOUS
  <2> QED
    BY <2>1
<1>2. ASSUME NEW j \in T PROVE j + 1 \in T
  <2>1. PICK g : g = [m \in 0..j |-> Term(g, m)]
    OBVIOUS
  <2> DEFINE h == [m \in 0..j + 1 |-> IF m = j + 1 THEN Term(g, j + 1) ELSE g[m]]
  <2>2. \A m \in 0..j : g[m] = Term(g, m)
    <3> TAKE m \in 0..j
    <3> DEFINE f == [k \in 0..j |-> Term(g, k)]
    <3>1. f[m] = Term(g, m)
      OBVIOUS
    <3>2. g = f
      BY <2>1, Zenon
    <3> HIDE DEF f, Term
    <3> QED
      BY <3>1, <3>2
  <2>3. ASSUME NEW m \in 0..j + 1 PROVE h[m] = Term(h, m)
    <3>1. h[m] = Term(g, m)
      <4>1. CASE m = j + 1
        BY <4>1
      <4>2. CASE m # j + 1
        <5>1. m \in 0..j
          BY <4>2
        <5> HIDE DEF Term
        <5> QED
          BY <2>2, <4>2, <5>1
      <4> QED
        BY <4>1, <4>2
    <3>2. m # 0 => h[m \div 256] = g[m \div 256]
      <4> HAVE m # 0
      <4> DEFINE d == m \div 256
      <4>1. d \in Nat /\ d < m
        BY <1>0
      <4> HIDE DEF d
      <4>2. d \in 0..j + 1 /\ d # j + 1
        BY <4>1
      <4>3. h[d] = g[d]
        BY <4>2
      <4> QED
        BY <4>3 DEF d
    <3> HIDE DEF h
    <3> QED
      BY <3>1, <3>2
  <2>4. h = [m \in 0..j + 1 |-> Term(h, m)]
    <3> HIDE DEF Term
    <3> QED
      BY <2>3
  <2>5. \E f : f = [m \in 0..j + 1 |-> Term(f, m)]
    <3> HIDE DEF h, Term
    <3> QED
      BY <2>4, Zenon
  <2> HIDE DEF h, Term
  <2> QED
    BY <2>5
<1>3. T = Nat
  <2> HIDE DEF T
  <2> QED
    BY <1>1, <1>2, SetInduction DEF T
<1>4. \E f : Digits(f, n)
  <2>1. n \in T
    BY <1>3
  <2> QED
    BY <2>1, Zenon DEF Digits
<1> DEFINE s == CHOOSE f : Digits(f, n)
<1>5. Digits(s, n)
  BY <1>4
<1>6. FromNat(n) = s[n]
  BY Zenon DEF FromNat, Digits
<1> HIDE DEF s
<1> DEFINE U == {j \in Nat : \A m \in 0..j : m <= n => s[m] \in Seq(Byte)}
<1>7. \A m \in 0..n :
        s[m] = IF m = 0 THEN <<>>
               ELSE <<m % 256>> \o (IF m < 256 /\ m > 127 THEN <<0>> ELSE s[m \div 256])
  BY <1>5, ZenonT(30) DEF Digits
<1>8. 0 \in U
  <2>1. 0 \in 0..n /\ \A m \in 0..0 : m = 0
    OBVIOUS
  <2>2. s[0] = <<>>
    BY <1>7, <2>1
  <2>3. s[0] \in Seq(Byte)
    BY <2>2
  <2> QED
    BY <2>1, <2>3
<1>9. ASSUME NEW j \in U PROVE j + 1 \in U
  <2> SUFFICES ASSUME j + 1 <= n PROVE s[j + 1] \in Seq(Byte)
    OBVIOUS
  <2> DEFINE m == j + 1
             d == m \div 256
             b == m % 256
  <2>1. m \in 0..n /\ m # 0 /\ m \in Nat
    OBVIOUS
  <2>2. s[m] = <<b>> \o (IF m < 256 /\ m > 127 THEN <<0>> ELSE s[d])
    BY <1>7, <2>1, ZenonT(30)
  <2>3. d \in Nat /\ d < m
    BY <1>0, <2>1
  <2>4. b \in Byte
    BY <2>1 DEF Byte
  <2> HIDE DEF b, d
  <2>5. s[d] \in Seq(Byte)
    BY <2>1, <2>3
  <2>6. <<0>> \in Seq(Byte) /\ <<b>> \in Seq(Byte)
    BY <2>4 DEF Byte
  <2> HIDE DEF m
  <2>7. s[m] \in Seq(Byte)
    BY <2>2, <2>5, <2>6
  <2> QED
    BY <2>7 DEF m
<1>10. U = Nat
  <2> HIDE DEF U
  <2> QED
    BY <1>8, <1>9, SetInduction DEF U
<1> QED
  BY <1>6, <1>10

\* So is every number.
LEMMA FromIntIsBytes ==
  ASSUME NEW n \in Int
  PROVE  FromInt(n) \in Seq(Byte)
<1>1. ASSUME NEW v \in Seq(Byte) PROVE Negative(v) \in Seq(Byte)
  <2>1. Len(v) \in Nat /\ \A i \in 1..Len(v) : v[i] \in Byte
    OBVIOUS
  <2>2. ASSUME NEW i \in 1..Len(v)
        PROVE  (IF i = Len(v) THEN (v[i] + 128) % 256 ELSE v[i]) \in Byte
    <3> DEFINE b == v[i]
    <3>1. b \in Byte
      BY <2>1
    <3> HIDE DEF b
    <3>2. (b + 128) % 256 \in Byte
      BY <3>1 DEF Byte
    <3> QED
      BY <3>1, <3>2 DEF b
  <2>3. [i \in 1..Len(v) |-> IF i = Len(v) THEN (v[i] + 128) % 256 ELSE v[i]] \in [1..Len(v) -> Byte]
    BY <2>2
  <2>4. Negative(v) \in [1..Len(v) -> Byte]
    BY <2>3 DEF Negative
  <2> HIDE DEF Negative
  <2> QED
    BY <2>1, <2>4
<1>2. CASE n < 0
  <2>1. -n \in Nat
    BY <1>2
  <2>2. FromNat(-n) \in Seq(Byte)
    BY <2>1, FromNatIsBytes
  <2>3. FromInt(n) = Negative(FromNat(-n))
    BY <1>2 DEF FromInt
  <2> QED
    BY <1>1, <2>2, <2>3
<1>3. CASE ~(n < 0)
  <2>1. n \in Nat
    BY <1>3
  <2>2. FromInt(n) = FromNat(n)
    BY <1>3 DEF FromInt
  <2> QED
    BY <2>1, <2>2, FromNatIsBytes
<1> QED
  BY <1>2, <1>3

\* A digest is a vector of bytes.
LEMMA DigestIsBytes ==
  ASSUME NEW op, NEW v \in Seq(Byte)
  PROVE  Digest(op, v) \in Seq(Byte)
<1> DEFINE n == IF op \in {"SHA256", "HASH256"} THEN 32 ELSE 20
           x == 1 + Len(v) + (IF op \in {"HASH160", "HASH256"} THEN 8 ELSE 0)
                  + (IF v = <<>> THEN 0 ELSE v[1] % 64)
<1>1. x \in Nat
  <2>1. (IF op \in {"HASH160", "HASH256"} THEN 8 ELSE 0) \in Nat
    OBVIOUS
  <2>2. (IF v = <<>> THEN 0 ELSE v[1] % 64) \in Nat
    <3>1. CASE v = <<>>
      BY <3>1
    <3>2. CASE v # <<>>
      <4>1. v[1] \in Byte
        BY <3>2
      <4>2. \A y \in Byte : y % 64 \in Nat
        BY DEF Byte
      <4> QED
        BY <3>2, <4>1, <4>2
    <3> QED
      BY <3>1, <3>2
  <2> QED
    BY <2>1, <2>2
<1>2. n \in Nat
  OBVIOUS
<1>3. Digest(op, v) = [i \in 1..n |-> x % 256]
  BY DEF Digest
<1> HIDE DEF x, n
<1>4. x % 256 \in Byte
  BY <1>1 DEF Byte
<1> QED
  BY <1>2, <1>3, <1>4

------------------------------------------------------------------------------
(* Several new elements.                                                     *)

Roomy(m, k) == Cardinality({b \in 1..MaxAt : m[b] = <<>>}) >= k

\* The first j elements of c were made for those of vs where m is free, and m stays.
Grown(m, c, vs, j) ==
  /\ c.elems \in Seq(Elem) /\ Len(c.elems) = j /\ c.mem \in Memory
  /\ \A i \in 1..j : Holds(c.mem, c.elems[i]) /\ Bytes(c.mem, c.elems[i]) = vs[i]
  /\ \A i \in 1..j : c.elems[i].at # 0 => m[c.elems[i].at] = <<>>
  /\ \A i, k \in 1..j : c.elems[i].at = c.elems[k].at /\ c.elems[i].at # 0 => i = k
  /\ \A b \in 1..MaxAt : m[b] # <<>> => c.mem[b] = m[b]

\* An element takes at most one free address.
LEMMA NewInRoom ==
  ASSUME NEW m \in Memory, NEW v \in Seq(Byte), NEW k \in Nat, Roomy(m, k + 1)
  PROVE  Spare(m) /\ Roomy(NewIn(m, v).mem, k)
<1> DEFINE F == {b \in 1..MaxAt : m[b] = <<>>}
           n == NewIn(m, v)
           G == {b \in 1..MaxAt : n.mem[b] = <<>>}
<1>1. IsFiniteSet(1..MaxAt)
  BY FS_Interval, ScriptAssumption
<1>2. IsFiniteSet(F) /\ Cardinality(F) \in Nat /\ Cardinality(F) >= k + 1
  BY <1>1, FS_Subset, FS_CardinalityType DEF Roomy
<1>3. F # {}
  BY <1>2, FS_EmptySet
<1>4. Spare(m)
  BY <1>3 DEF Spare
<1>5. F \ {n.elem.at} \subseteq G
  BY <1>4, NewInOwn
<1>6. IsFiniteSet(G) /\ Cardinality(G) \in Nat
  BY <1>1, FS_Subset, FS_CardinalityType
<1>7. Cardinality(F \ {n.elem.at}) >= k /\ IsFiniteSet(F \ {n.elem.at})
  <2> DEFINE x == n.elem.at
  <2> HIDE DEF F, n, x
  <2>1. IsFiniteSet(F \ {x}) /\ Cardinality(F \ {x}) \in Nat
    BY <1>2, FS_RemoveElement, FS_CardinalityType
  <2>2. Cardinality(F \ {x}) = IF x \in F THEN Cardinality(F) - 1 ELSE Cardinality(F)
    BY <1>2, FS_RemoveElement
  <2>3. Cardinality(F \ {x}) >= k
    BY <1>2, <2>1, <2>2
  <2> QED
    BY <2>1, <2>3 DEF x
<1>8. Cardinality(F \ {n.elem.at}) <= Cardinality(G)
  BY <1>5, <1>6, FS_Subset
<1>9. Cardinality(F \ {n.elem.at}) \in Nat
  BY <1>7, FS_CardinalityType
<1>10. Cardinality(G) >= k
  <2> HIDE DEF F, G, n
  <2> QED
    BY <1>6, <1>7, <1>8, <1>9
<1> QED
  BY <1>4, <1>10 DEF Roomy

\* One more element.
LEMMA GrownByOne ==
  ASSUME NEW m \in Memory, NEW c, NEW vs, NEW j \in Nat, Grown(m, c, vs, j), Spare(c.mem),
         vs[j + 1] \in Seq(Byte), NEW d,
         d.elems = Append(c.elems, NewIn(c.mem, vs[j + 1]).elem),
         d.mem = NewIn(c.mem, vs[j + 1]).mem
  PROVE  Grown(m, d, vs, j + 1)
<1> DEFINE n == NewIn(c.mem, vs[j + 1])
<1>1. /\ n.mem \in Memory /\ Holds(n.mem, n.elem) /\ Bytes(n.mem, n.elem) = vs[j + 1]
      /\ n.elem.at # 0 => c.mem[n.elem.at] = <<>>
      /\ \A b : b \in 1..MaxAt /\ c.mem[b] # <<>> => n.mem[b] = c.mem[b]
  BY NewInOwn DEF Grown
<1>2. d.elems = Append(c.elems, n.elem) /\ d.mem = n.mem
  OBVIOUS
<1> HIDE DEF n
<1>3. n.elem \in Elem
  BY <1>1 DEF Holds
<1>4. /\ d.elems \in Seq(Elem) /\ Len(d.elems) = j + 1
      /\ \A i \in 1..j : d.elems[i] = c.elems[i]
      /\ d.elems[j + 1] = n.elem
  BY <1>2, <1>3 DEF Grown
<1>5. \A i \in 1..j : /\ c.elems[i] \in Elem /\ Holds(c.mem, c.elems[i])
                      /\ Bytes(c.mem, c.elems[i]) = vs[i]
                      /\ c.elems[i].at # 0 => /\ c.elems[i].at \in 1..MaxAt
                                              /\ c.mem[c.elems[i].at] # <<>>
  BY ScriptAssumption, SMTT(30) DEF Grown, Holds, Elem
<1>6. \A i \in 1..j : Holds(n.mem, c.elems[i]) /\ Bytes(n.mem, c.elems[i]) = vs[i]
  <2> TAKE i \in 1..j
  <2>1. CASE c.elems[i].at = 0
    BY <1>5, <2>1 DEF Holds, Bytes
  <2>2. CASE c.elems[i].at # 0
    <3>1. n.mem[c.elems[i].at] = c.mem[c.elems[i].at]
      BY <1>1, <1>5, <2>2
    <3> QED
      BY <1>5, <2>2, <3>1 DEF Holds, Bytes
  <2> QED
    BY <2>1, <2>2
<1>7. \A b \in 1..MaxAt : m[b] # <<>> => n.mem[b] = m[b]
  BY <1>1 DEF Grown
<1>8. n.elem.at # 0 => n.elem.at \in 1..MaxAt /\ m[n.elem.at] = <<>>
  <2> HAVE n.elem.at # 0
  <2>1. n.elem.at \in 1..MaxAt
    BY <1>3, ScriptAssumption DEF Elem
  <2> QED
    BY <1>1, <2>1 DEF Grown
<1>9. \A i \in 1..j : n.elem.at # 0 => c.elems[i].at # n.elem.at
  BY <1>1, <1>5
<1>10. \A i \in 1..(j + 1) : i \in 1..j \/ i = j + 1
  OBVIOUS
<1>11. \A i \in 1..(j + 1) : Holds(d.mem, d.elems[i]) /\ Bytes(d.mem, d.elems[i]) = vs[i]
  BY <1>1, <1>2, <1>4, <1>6, <1>10
<1>12. \A i \in 1..(j + 1) : d.elems[i].at # 0 => m[d.elems[i].at] = <<>>
  BY <1>4, <1>8, <1>10 DEF Grown
<1>13. \A i, k \in 1..(j + 1) : d.elems[i].at = d.elems[k].at /\ d.elems[i].at # 0 => i = k
  <2> SUFFICES ASSUME NEW i \in 1..(j + 1), NEW k \in 1..(j + 1),
                      d.elems[i].at = d.elems[k].at, d.elems[i].at # 0
               PROVE  i = k
    OBVIOUS
  <2>1. CASE i \in 1..j /\ k \in 1..j
    BY <2>1, <1>4 DEF Grown
  <2>2. CASE i = j + 1 /\ k \in 1..j
    BY <2>2, <1>4, <1>9
  <2>3. CASE i \in 1..j /\ k = j + 1
    BY <2>3, <1>4, <1>9
  <2> QED
    BY <2>1, <2>2, <2>3, <1>10
<1> QED
  BY <1>1, <1>2, <1>4, <1>7, <1>11, <1>12, <1>13 DEF Grown

Growth(f, vs, m) ==
  f = [n \in 0..Len(vs) |->
         IF n = 0 THEN [elems |-> <<>>, mem |-> m]
         ELSE [elems |-> Append(f[n - 1].elems, NewIn(f[n - 1].mem, vs[n]).elem),
               mem   |-> NewIn(f[n - 1].mem, vs[n]).mem]]

\* Where there is room for all, each vector gets its element.
LEMMA MadeOwn ==
  ASSUME NEW m \in Memory, NEW vs \in Seq(Seq(Byte)), Roomy(m, Len(vs))
  PROVE  Grown(m, Made(vs, m), vs, Len(vs))
<1> DEFINE Term(g, i) == IF i = 0 THEN [elems |-> <<>>, mem |-> m]
                         ELSE [elems |-> Append(g[i - 1].elems, NewIn(g[i - 1].mem, vs[i]).elem),
                               mem   |-> NewIn(g[i - 1].mem, vs[i]).mem]
           T == {j \in Nat : \E g : g = [i \in 0..j |-> Term(g, i)]}
<1>1. 0 \in T
  <2> DEFINE g == [i \in 0..0 |-> [elems |-> <<>>, mem |-> m]]
  <2>1. g = [i \in 0..0 |-> Term(g, i)]
    OBVIOUS
  <2>2. \E f : f = [i \in 0..0 |-> Term(f, i)]
    <3> HIDE DEF g, Term
    <3> QED
      BY <2>1, Zenon
  <2> HIDE DEF Term
  <2> QED
    BY <2>2
<1>2. ASSUME NEW j \in T PROVE j + 1 \in T
  <2>1. PICK g : g = [i \in 0..j |-> Term(g, i)]
    <3> HIDE DEF Term
    <3> QED
      OBVIOUS
  <2> DEFINE h == [i \in 0..j + 1 |-> IF i = j + 1 THEN Term(g, j + 1) ELSE g[i]]
  <2>2. \A i \in 0..j : g[i] = Term(g, i)
    <3> TAKE i \in 0..j
    <3> DEFINE f == [k \in 0..j |-> Term(g, k)]
    <3> HIDE DEF Term
    <3>1. f[i] = Term(g, i)
      OBVIOUS
    <3>2. g = f
      BY <2>1, Zenon
    <3> HIDE DEF f
    <3> QED
      BY <3>1, <3>2
  <2>3. ASSUME NEW i \in 0..j + 1 PROVE h[i] = Term(h, i)
    <3>1. h[i] = Term(g, i)
      <4> HIDE DEF Term
      <4>1. CASE i = j + 1
        BY <4>1
      <4>2. CASE i # j + 1
        <5>1. i \in 0..j
          BY <4>2
        <5> QED
          BY <2>2, <4>2, <5>1
      <4> QED
        BY <4>1, <4>2
    <3>2. i # 0 => h[i - 1] = g[i - 1]
      <4> HIDE DEF Term
      <4> QED
        OBVIOUS
    <3> HIDE DEF h
    <3> QED
      BY <3>1, <3>2
  <2>4. h = [i \in 0..j + 1 |-> Term(h, i)]
    <3> HIDE DEF Term
    <3> QED
      BY <2>3
  <2>5. \E f : f = [i \in 0..j + 1 |-> Term(f, i)]
    <3> HIDE DEF h, Term
    <3> QED
      BY <2>4, Zenon
  <2> HIDE DEF h, Term
  <2> QED
    BY <2>5
<1>3. T = Nat
  <2> HIDE DEF T
  <2> QED
    BY <1>1, <1>2, SetInduction DEF T
<1>4. \E f : Growth(f, vs, m)
  <2> HIDE DEF T, Term
  <2>1. Len(vs) \in T
    <3>1. Len(vs) \in Nat
      OBVIOUS
    <3> QED
      BY <1>3, <3>1
  <2> USE DEF T
  <2>2. \E g : g = [i \in 0..Len(vs) |-> Term(g, i)]
    BY <2>1
  <2> HIDE DEF T
  <2> USE DEF Term
  <2> QED
    BY <2>2, Zenon DEF Growth
<1> HIDE DEF T
<1> DEFINE s == CHOOSE f : Growth(f, vs, m)
<1>5. Growth(s, vs, m)
  BY <1>4
<1>6. Made(vs, m) = s[Len(vs)]
  BY Zenon DEF Made, Growth
<1> HIDE DEF s
<1>7. \A i \in 0..Len(vs) : s[i] = Term(s, i)
  BY <1>5 DEF Growth
<1> DEFINE U == {j \in Nat : j <= Len(vs) => Grown(m, s[j], vs, j) /\ Roomy(s[j].mem, Len(vs) - j)}
<1>8. 0 \in U
  <2>1. s[0] = [elems |-> <<>>, mem |-> m]
    <3> HIDE DEF Term
    <3>1. 0 \in 0..Len(vs)
      OBVIOUS
    <3>2. s[0] = Term(s, 0)
      BY <1>7, <3>1
    <3> USE DEF Term
    <3> QED
      BY <3>2, Zenon
  <2>2. Grown(m, s[0], vs, 0)
    BY <2>1 DEF Grown
  <2>3. Roomy(s[0].mem, Len(vs) - 0)
    BY <2>1
  <2> QED
    BY <2>2, <2>3
<1>9. ASSUME NEW j \in U PROVE j + 1 \in U
  <2> SUFFICES ASSUME j + 1 <= Len(vs)
               PROVE  Grown(m, s[j + 1], vs, j + 1) /\ Roomy(s[j + 1].mem, Len(vs) - (j + 1))
    OBVIOUS
  <2>1. Grown(m, s[j], vs, j) /\ Roomy(s[j].mem, Len(vs) - j)
    OBVIOUS
  <2>2. j \in Nat /\ j + 1 \in 0..Len(vs) /\ j + 1 # 0 /\ (j + 1) - 1 = j
    OBVIOUS
  <2>3. /\ s[j + 1].elems = Append(s[j].elems, NewIn(s[j].mem, vs[j + 1]).elem)
        /\ s[j + 1].mem = NewIn(s[j].mem, vs[j + 1]).mem
    <3> HIDE DEF Term
    <3>1. s[j + 1] = Term(s, j + 1)
      BY <1>7, <2>2
    <3> DEFINE d == [elems |-> Append(s[j].elems, NewIn(s[j].mem, vs[j + 1]).elem),
                     mem   |-> NewIn(s[j].mem, vs[j + 1]).mem]
    <3>2. Term(s, j + 1) = d
      <4>1. Term(s, j + 1) = [elems |-> Append(s[(j + 1) - 1].elems, NewIn(s[(j + 1) - 1].mem, vs[j + 1]).elem),
                              mem   |-> NewIn(s[(j + 1) - 1].mem, vs[j + 1]).mem]
        BY <2>2, Zenon DEF Term
      <4> QED
        BY <2>2, <4>1, Zenon
    <3>3. s[j + 1] = d
      BY <3>1, <3>2, Zenon
    <3> QED
      <4> HIDE DEF d
      <4> DEFINE el == Append(s[j].elems, NewIn(s[j].mem, vs[j + 1]).elem)
             me == NewIn(s[j].mem, vs[j + 1]).mem
      <4>1. s[j + 1] = [elems |-> el, mem |-> me]
        BY <3>3 DEF d
      <4> HIDE DEF el, me
      <4>2. s[j + 1].elems = el /\ s[j + 1].mem = me
        BY <4>1
      <4> QED
        BY <4>2 DEF el, me
  <2>4. vs[j + 1] \in Seq(Byte) /\ s[j].mem \in Memory
    BY <2>1, <2>2 DEF Grown
  <2>5. Len(vs) - (j + 1) \in Nat /\ (Len(vs) - (j + 1)) + 1 = Len(vs) - j
    BY <2>2
  <2>6. Spare(s[j].mem) /\ Roomy(NewIn(s[j].mem, vs[j + 1]).mem, Len(vs) - (j + 1))
    BY <2>1, <2>4, <2>5, NewInRoom
  <2>7. Grown(m, s[j + 1], vs, j + 1)
    BY <2>1, <2>2, <2>3, <2>4, <2>6, GrownByOne
  <2> QED
    BY <2>3, <2>6, <2>7
<1>10. U = Nat
  <2> HIDE DEF U
  <2> QED
    BY <1>8, <1>9, SetInduction DEF U
<1>11. Grown(m, s[Len(vs)], vs, Len(vs))
  BY <1>10
<1> QED
  BY <1>6, <1>11

------------------------------------------------------------------------------
(* The values on the stack.                                                  *)

\* The values on the stack before an operation.
Before == Values(stack, mem)

\* The values of elements are vectors of bytes.
LEMMA ValuesType ==
  ASSUME NEW s \in Seq(Elem), NEW m \in Memory
  PROVE  /\ Values(s, m) \in Seq(Seq(Byte)) /\ Len(Values(s, m)) = Len(s)
         /\ \A i \in 1..Len(s) : Values(s, m)[i] = Bytes(m, s[i])
<1>1. \A e \in Elem : Bytes(m, e) \in Seq(Byte)
  <2> SUFFICES ASSUME NEW e \in Elem PROVE Bytes(m, e) \in Seq(Byte)
    OBVIOUS
  <2>1. CASE e.at = 0
    BY <2>1 DEF Bytes
  <2>2. CASE e.at # 0
    BY <2>2, ScriptAssumption DEF Bytes, Elem, Memory
  <2> QED
    BY <2>1, <2>2
<1> DEFINE f(i) == Bytes(m, s[i])
<1>2. Len(s) \in Nat /\ \A i \in 1..Len(s) : f(i) \in Seq(Byte)
  BY <1>1
<1> HIDE DEF f
<1>3. LET g == [i \in 1..Len(s) |-> f(i)]
      IN  g \in Seq(Seq(Byte)) /\ Len(g) = Len(s) /\ \A i \in 1..Len(s) : g[i] = f(i)
  BY <1>2
<1> QED
  BY <1>3 DEF f, Values

\* Two sequences are the same if their elements are.
LEMMA SameSequence ==
  ASSUME NEW S, NEW s \in Seq(S), NEW t \in Seq(S), Len(s) = Len(t),
         \A i \in 1..Len(s) : s[i] = t[i]
  PROVE  s = t
OBVIOUS

\* Where the top k elements are replaced by t, the values below stay.
LEMMA ValuesRebuilt ==
  ASSUME Owned, NEW k \in 0..Len(stack), NEW m \in Memory, NEW t \in Seq(Elem),
         \A b : Below(stack, alt, Len(stack) - k, b) => m[b] = mem[b]
  PROVE  Values(Under(k) \o t, m) = SubSeq(Before, 1, Len(Before) - k) \o Values(t, m)
<1> DEFINE n == Len(stack) - k
           u == SubSeq(stack, 1, n)
           r == u \o t
           x == SubSeq(Before, 1, n) \o Values(t, m)
<1>1. /\ stack \in Seq(Elem) /\ mem \in Memory /\ n \in 0..Len(stack) /\ n \in Nat
  BY DEF Owned, Owns
<1>2. Before \in Seq(Seq(Byte)) /\ Len(Before) = Len(stack)
      /\ \A i \in 1..Len(stack) : Before[i] = Bytes(mem, stack[i])
  BY <1>1, ValuesType DEF Before
<1>3. Values(t, m) \in Seq(Seq(Byte)) /\ Len(Values(t, m)) = Len(t)
      /\ \A i \in 1..Len(t) : Values(t, m)[i] = Bytes(m, t[i])
  BY ValuesType
<1>4. \A i \in 1..n : stack[i] \in Elem /\ Bytes(m, stack[i]) = Bytes(mem, stack[i])
  <2> TAKE i \in 1..n
  <2>1. i \in 1..Len(stack)
    BY <1>1
  <2>2. CASE stack[i].at = 0
    BY <1>1, <2>1, <2>2 DEF Bytes
  <2>3. CASE stack[i].at # 0
    <3>1. Below(stack, alt, n, stack[i].at)
      BY <2>3 DEF Below
    <3> QED
      BY <1>1, <2>1, <2>3, <3>1 DEF Bytes
  <2> QED
    BY <2>2, <2>3
<1> HIDE DEF n
<1>5. u \in Seq(Elem) /\ Len(u) = n /\ \A i \in 1..n : u[i] = stack[i]
  BY <1>1
<1>6. SubSeq(Before, 1, n) \in Seq(Seq(Byte)) /\ Len(SubSeq(Before, 1, n)) = n
      /\ \A i \in 1..n : SubSeq(Before, 1, n)[i] = Before[i]
  BY <1>1, <1>2
<1> HIDE DEF u
<1>7. /\ r \in Seq(Elem) /\ Len(r) = n + Len(t)
      /\ \A i \in 1..Len(r) : r[i] = IF i <= n THEN stack[i] ELSE t[i - n]
  <2>1. /\ r \in Seq(Elem) /\ Len(r) = Len(u) + Len(t)
        /\ \A i \in 1..Len(u) + Len(t) : r[i] = IF i <= Len(u) THEN u[i] ELSE t[i - Len(u)]
    BY <1>5, ConcatProperties, Zenon
  <2> HIDE DEF r
  <2>2. \A i \in 1..Len(r) : r[i] = IF i <= n THEN u[i] ELSE t[i - n]
    BY <1>5, <2>1
  <2>3. \A i \in 1..Len(r) : i <= n => i \in 1..n
    BY <1>1, <1>5, <2>1
  <2> QED
    BY <1>5, <2>1, <2>2, <2>3
<1>8. /\ x \in Seq(Seq(Byte)) /\ Len(x) = n + Len(t)
      /\ \A i \in 1..Len(r) : x[i] = IF i <= n THEN Before[i] ELSE Values(t, m)[i - n]
  <2> DEFINE y == SubSeq(Before, 1, n)
  <2> HIDE DEF y, r
  <2>1. y \in Seq(Seq(Byte)) /\ Len(y) = n /\ \A i \in 1..n : y[i] = Before[i]
    BY <1>6 DEF y
  <2> DEFINE z == y \o Values(t, m)
  <2>2. /\ z \in Seq(Seq(Byte)) /\ Len(z) = Len(y) + Len(Values(t, m))
        /\ \A i \in 1..Len(y) + Len(Values(t, m)) :
             z[i] = IF i <= Len(y) THEN y[i] ELSE Values(t, m)[i - Len(y)]
    <3> DEFINE a == Values(t, m)
    <3>1. a \in Seq(Seq(Byte)) /\ y \in Seq(Seq(Byte))
      BY <1>3, <2>1, Zenon
    <3> HIDE DEF a
    <3>2. /\ y \o a \in Seq(Seq(Byte)) /\ Len(y \o a) = Len(y) + Len(a)
          /\ \A i \in 1..Len(y) + Len(a) : (y \o a)[i] = IF i <= Len(y) THEN y[i] ELSE a[i - Len(y)]
      BY <3>1, ConcatProperties, Zenon
    <3> QED
      BY <3>2, Zenon DEF a
  <2> HIDE DEF z
  <2>3. \A i \in 1..Len(r) : z[i] = IF i <= n THEN y[i] ELSE Values(t, m)[i - n]
    BY <1>3, <1>7, <2>1, <2>2
  <2>4. \A i \in 1..Len(r) : i <= n => i \in 1..n
    BY <1>1, <1>7
  <2>5. \A i \in 1..Len(r) : z[i] = IF i <= n THEN Before[i] ELSE Values(t, m)[i - n]
    BY <2>1, <2>3, <2>4
  <2> QED
    BY <1>3, <2>1, <2>2, <2>5 DEF y, z
<1> HIDE DEF r, x
<1>9. Values(r, m) \in Seq(Seq(Byte)) /\ Len(Values(r, m)) = Len(r)
      /\ \A i \in 1..Len(r) : Values(r, m)[i] = Bytes(m, r[i])
  BY <1>7, ValuesType
<1>10. ASSUME NEW i \in 1..Len(r) PROVE Values(r, m)[i] = x[i]
  <2>1. CASE i <= n
    <3>1. i \in 1..n /\ i \in 1..Len(stack)
      BY <1>1, <1>7, <2>1
    <3> QED
      BY <1>2, <1>4, <1>7, <1>8, <1>9, <2>1, <3>1
  <2>2. CASE ~(i <= n)
    <3>1. i - n \in 1..Len(t)
      BY <1>1, <1>7, <2>2
    <3> QED
      BY <1>3, <1>7, <1>8, <1>9, <2>2, <3>1
  <2> QED
    BY <2>1, <2>2
<1>11. Values(r, m) = x
  BY <1>7, <1>8, <1>9, <1>10, SameSequence
<1> QED
  BY <1>2, <1>11 DEF r, x, u, n, Under

\* One element on the top.
LEMMA ValueOnTop ==
  ASSUME Owned, NEW k \in 0..Len(stack), NEW m \in Memory, NEW e \in Elem,
         \A b : Below(stack, alt, Len(stack) - k, b) => m[b] = mem[b]
  PROVE  Values(Append(Under(k), e), m) = SubSeq(Before, 1, Len(Before) - k) \o <<Bytes(m, e)>>
<1> DEFINE t == <<e>>
<1>1. t \in Seq(Elem)
  OBVIOUS
<1>2. Append(Under(k), e) = Under(k) \o t
  BY DEF Owned, Owns, Under
<1>3. Values(t, m) = <<Bytes(m, e)>>
  BY DEF Values
<1> HIDE DEF t
<1>4. Values(Under(k) \o t, m) = SubSeq(Before, 1, Len(Before) - k) \o Values(t, m)
  BY <1>1, ValuesRebuilt
<1> QED
  BY <1>2, <1>3, <1>4

\* The values before an operation, from the top.
LEMMA BeforeTop ==
  ASSUME Owned
  PROVE  /\ Before \in Seq(Seq(Byte)) /\ Len(Before) = Len(stack) /\ Len(stack) \in Nat
         /\ \A i \in 1..Len(stack) : Before[Len(Before) - i + 1] = Value(i)
<1>1. stack \in Seq(Elem) /\ mem \in Memory
  BY DEF Owned, Owns
<1>2. /\ Before \in Seq(Seq(Byte)) /\ Len(Before) = Len(stack)
      /\ \A i \in 1..Len(stack) : Before[i] = Bytes(mem, stack[i])
  BY <1>1, ValuesType DEF Before
<1>3. Len(stack) \in Nat
  BY <1>1
<1>4. ASSUME NEW i \in 1..Len(stack) PROVE Before[Len(Before) - i + 1] = Value(i)
  <2>1. Len(stack) - i + 1 \in 1..Len(stack)
    BY <1>3
  <2> QED
    BY <1>2, <2>1 DEF Value, Top
<1> QED
  BY <1>2, <1>3, <1>4

------------------------------------------------------------------------------
(* The ends of an operation.                                                 *)

\* Memory that agrees with what is below the top k elements, and has free addresses.
Keeps(k, m) ==
  /\ m \in Memory
  /\ \A b : Below(stack, alt, Len(stack) - k, b) => m[b] = mem[b]

\* What is below the top is on the stack.
LEMMA StackTypes ==
  ASSUME Owned
  PROVE  /\ stack \in Seq(Elem) /\ alt \in Seq(Elem) /\ mem \in Memory
         /\ Len(stack) \in Nat /\ Len(alt) \in Nat
         /\ Under(0) = stack
         /\ \A k : Keeps(k, mem)
BY DEF Owned, Owns, Under, Keeps

\* An operation that stops leaves everything as it is.
LEMMA Stopped ==
  ASSUME Owned, NEW r \in Going, Stop(r)
  PROVE  Leaves
BY DEF Owned, Leaves, Stop, memVars

\* An operation that goes on.
LEMMA Continued ==
  ASSUME NEW s, NEW a, NEW m, Owns(s, a, m), Continue(s, a, m)
  PROVE  Leaves
<1>1. status' \in Going
  BY DEF Continue, Going
<1> QED
  BY <1>1 DEF Leaves, Continue

\* The top k elements go.
LEMMA Drops ==
  ASSUME Owned, NEW k \in 0..Len(stack), NEW m, Keeps(k, m), Continue(Under(k), alt, m)
  PROVE  Leaves
<1>1. Len(stack) - k \in 0..Len(stack)
  BY StackTypes
<1>2. Owns(Under(k), alt, m)
  BY <1>1, OwnsDropped DEF Owned, Under, Keeps
<1> QED
  BY <1>2, Continued

\* Nothing changes but memory that belongs to no element.
LEMMA Stays ==
  ASSUME Owned, NEW m, Keeps(0, m), Continue(stack, alt, m)
  PROVE  Leaves
BY Drops, StackTypes

\* One element takes the place of the top k.
LEMMA Puts ==
  ASSUME Owned, NEW k \in 0..Len(stack), NEW m, Keeps(k, m), NEW e, Holds(m, e),
         \A b : Below(stack, alt, Len(stack) - k, b) => e.at # b,
         Continue(Append(Under(k), e), alt, m)
  PROVE  Leaves
<1>1. Len(stack) - k \in 0..Len(stack)
  BY StackTypes
<1>2. Owns(Append(Under(k), e), alt, m)
  BY <1>1, OwnsAppended DEF Owned, Under, Keeps
<1> QED
  BY <1>2, Continued

\* What is below the top is not changed by a new element.
LEMMA NewKeeps ==
  ASSUME Owned, NEW k \in 0..Len(stack), NEW m, Keeps(k, m), Spare(m), NEW v \in Seq(Byte)
  PROVE  LET n == NewIn(m, v)
         IN  /\ Keeps(k, n.mem) /\ Holds(n.mem, n.elem)
             /\ \A b : Below(stack, alt, Len(stack) - k, b) => n.elem.at # b
<1> DEFINE n == NewIn(m, v)
<1>1. /\ n.mem \in Memory /\ Holds(n.mem, n.elem)
      /\ n.elem.at # 0 => m[n.elem.at] = <<>>
      /\ \A b : b \in 1..MaxAt /\ m[b] # <<>> => n.mem[b] = m[b]
  BY NewInOwn DEF Keeps
<1> HIDE DEF n
<1>2. ASSUME NEW b, Below(stack, alt, Len(stack) - k, b)
      PROVE  n.mem[b] = mem[b] /\ n.elem.at # b
  <2>1. b \in 1..MaxAt /\ mem[b] # <<>> /\ b # 0
    BY <1>2, Apart DEF Below
  <2>2. m[b] = mem[b]
    BY <1>2 DEF Keeps
  <2> QED
    BY <1>1, <2>1, <2>2
<1>3. Keeps(k, n.mem)
  BY <1>1, <1>2 DEF Keeps
<1> QED
  BY <1>1, <1>2, <1>3 DEF n

\* A new element takes the place of the top k.
LEMMA PutsNew ==
  ASSUME Owned, NEW k \in 0..Len(stack), NEW m, Keeps(k, m), Spare(m), NEW v \in Seq(Byte),
         Continue(Append(Under(k), NewIn(m, v).elem), alt, NewIn(m, v).mem)
  PROVE  Leaves
<1> DEFINE n == NewIn(m, v)
<1>1. /\ Keeps(k, n.mem) /\ Holds(n.mem, n.elem)
      /\ \A b : Below(stack, alt, Len(stack) - k, b) => n.elem.at # b
  BY NewKeeps
<1>2. Continue(Append(Under(k), n.elem), alt, n.mem)
  OBVIOUS
<1> HIDE DEF n
<1> QED
  BY <1>1, <1>2, Puts

\* A new element comes to the top.
LEMMA Pushes ==
  ASSUME Owned, Room, NEW v \in Seq(Byte),
         Continue(Append(stack, NewIn(mem, v).elem), alt, NewIn(mem, v).mem)
  PROVE  Leaves
BY PutsNew, StackTypes, RoomSpares

\* What replaces the bytes of an element e of the top takes the place of the top k.
LEMMA PutsPlaced ==
  ASSUME Owned, NEW k \in 0..Len(stack), NEW m, Keeps(k, m), Spare(m), NEW v \in Seq(Byte),
         NEW i \in 1..k,
         Continue(Append(Under(k), Placed(m, Top(i), v).elem), alt, Placed(m, Top(i), v).mem)
  PROVE  Leaves
<1> DEFINE p == Placed(m, Top(i), v)
<1>1. Top(i) \in Elem
  <2>1. i \in 1..Len(stack)
    BY StackTypes
  <2> QED
    BY <2>1, TopHolds
<1>2. /\ p.mem \in Memory /\ Holds(p.mem, p.elem)
      /\ p.elem.at # 0 => p.elem.at = Top(i).at \/ m[p.elem.at] = <<>>
      /\ \A b : b \in 1..MaxAt /\ m[b] # <<>> /\ b # Top(i).at => p.mem[b] = m[b]
  BY <1>1, PlacedOwn DEF Keeps
<1>3. Continue(Append(Under(k), p.elem), alt, p.mem)
  OBVIOUS
<1> HIDE DEF p
<1>4. ASSUME NEW b, Below(stack, alt, Len(stack) - k, b)
      PROVE  p.mem[b] = mem[b] /\ p.elem.at # b
  <2>1. b \in 1..MaxAt /\ mem[b] # <<>> /\ b # 0 /\ Top(i).at # b
    BY <1>4, Apart DEF Below
  <2>2. m[b] = mem[b]
    BY <1>4 DEF Keeps
  <2> QED
    BY <1>2, <2>1, <2>2
<1>5. Keeps(k, p.mem)
  BY <1>2, <1>4 DEF Keeps
<1> QED
  BY <1>2, <1>3, <1>4, <1>5, Puts

\* A number takes the place of the top k.
LEMMA PutsNumber ==
  ASSUME Owned, NEW k \in 0..Len(stack), NEW m, Keeps(k, m), Spare(m), NEW n \in Int,
         NEW i \in 1..k, PutNumber(k, Top(i), m, n)
  PROVE  Leaves
<1>1. CASE Stop("assertion")
  BY <1>1, Stopped DEF Going
<1>2. CASE Continue(Append(Under(k), Placed(m, Top(i), FromInt(n)).elem), alt,
                    Placed(m, Top(i), FromInt(n)).mem)
  <2>1. FromInt(n) \in Seq(Byte)
    BY FromIntIsBytes
  <2> QED
    BY <1>2, <2>1, PutsPlaced
<1> QED
  BY <1>1, <1>2, Zenon DEF PutNumber

\* A depth taken as a byte is still a place in the stack.
LEMMA ByteOfDepth ==
  ASSUME NEW l \in Nat, NEW n \in 0..l - 2
  PROVE  /\ (n % 256) + 2 \in 1..l
         /\ n < 256 => n % 256 = n
OBVIOUS

\* Elements of the top may be freed.
LEMMA FreeKeeps ==
  ASSUME Owned, NEW k \in 0..Len(stack), NEW m, Keeps(k, m), NEW i \in 1..k
  PROVE  Keeps(k, FreeIn(m, Top(i))) /\ (Spare(m) => Spare(FreeIn(m, Top(i))))
<1>1. Top(i) \in Elem
  <2>1. i \in 1..Len(stack)
    BY StackTypes
  <2> QED
    BY <2>1, TopHolds
<1>2. /\ FreeIn(m, Top(i)) \in Memory
      /\ \A b : b \in 1..MaxAt /\ b # Top(i).at => FreeIn(m, Top(i))[b] = m[b]
      /\ \A b : b \in 1..MaxAt /\ m[b] = <<>> => FreeIn(m, Top(i))[b] = <<>>
  BY <1>1, FreeInKeeps DEF Keeps
<1>3. ASSUME NEW b, Below(stack, alt, Len(stack) - k, b)
      PROVE  FreeIn(m, Top(i))[b] = mem[b]
  <2>1. b \in 1..MaxAt /\ Top(i).at # b
    BY <1>3, Apart
  <2> QED
    BY <1>2, <1>3, <2>1 DEF Keeps
<1> QED
  BY <1>2, <1>3 DEF Keeps, Spare

------------------------------------------------------------------------------
(* The operations.                                                           *)

\* The three results of a comparison of two bits are vectors.
LEMMA Bits ==
  /\ <<>> \in Seq(Byte) /\ <<0>> \in Seq(Byte) /\ <<1>> \in Seq(Byte) /\ <<128>> \in Seq(Byte)
  /\ \A b : (IF b THEN <<1>> ELSE <<>>) \in Seq(Byte)
  /\ \A b : (IF b THEN <<1>> ELSE <<0>>) \in Seq(Byte)
<1>1. 0 \in Byte /\ 1 \in Byte /\ 128 \in Byte
  BY DEF Byte
<1>2. <<>> \in Seq(Byte) /\ <<0>> \in Seq(Byte) /\ <<1>> \in Seq(Byte) /\ <<128>> \in Seq(Byte)
  BY <1>1
<1> HIDE DEF Byte
<1> QED
  BY <1>2

\* A push.
LEMMA PushLeaves ==
  ASSUME Owned, Room, NEW op, NEW v \in Seq(Byte), Push(op, v)
  PROVE  Leaves
<1>1. CASE Stop("bad")
  BY <1>1, Stopped DEF Going
<1>2. CASE Continue(Append(stack, NewIn(mem, v).elem), alt, NewIn(mem, v).mem)
  BY <1>2, Pushes
<1> QED
  BY <1>1, <1>2 DEF Push

\* The top of one stack moves to the other.
LEMMA Moved ==
  ASSUME NEW s, NEW a, NEW m, Owns(s, a, m), Len(s) # 0
  PROVE  Owns(SubSeq(s, 1, Len(s) - 1), Append(a, s[Len(s)]), m)
<1>1. /\ s \in Seq(Elem) /\ a \in Seq(Elem) /\ m \in Memory
      /\ Len(s) \in Nat /\ Len(s) - 1 \in 0..Len(s) /\ Len(s) \in 1..Len(s)
  BY DEF Owns
<1> DEFINE u == SubSeq(s, 1, Len(s) - 1)
           e == s[Len(s)]
<1>2. Owns(u, a, m)
  BY <1>1, OwnsDropped
<1>3. Owns(a, u, m)
  BY <1>2, OwnsSwapped
<1>4. Len(u) = Len(s) - 1 /\ \A i \in 1..Len(u) : u[i] = s[i] /\ i \in 1..Len(s) /\ i # Len(s)
  <2> DEFINE n == Len(s) - 1
  <2> HIDE DEF n
  <2>1. n \in 0..Len(s)
    BY <1>1 DEF n
  <2>2. Len(SubSeq(s, 1, n)) = n /\ \A i \in 1..n : SubSeq(s, 1, n)[i] = s[i]
    BY <1>1, <2>1
  <2>3. Len(u) = Len(s) - 1
    BY <2>2 DEF n
  <2>4. \A i \in 1..Len(s) - 1 : u[i] = s[i]
    BY <2>2 DEF n
  <2>5. \A i \in 1..Len(s) - 1 : i \in 1..Len(s) /\ i # Len(s)
    BY <1>1
  <2> HIDE DEF u
  <2> QED
    BY <2>3, <2>4, <2>5
<1>5. Holds(m, e)
  BY <1>1 DEF Owns
<1>6. ASSUME NEW b, Below(a, u, Len(a), b) PROVE b # e.at
  <2>1. CASE \E i \in 1..Len(a) : a[i].at = b
    BY <1>1, <1>6, <2>1 DEF Owns, Below
  <2>2. CASE \E i \in 1..Len(u) : u[i].at = b
    BY <1>1, <1>4, <1>6, <2>2 DEF Owns, Below
  <2> QED
    BY <1>6, <2>1, <2>2 DEF Below
<1> HIDE DEF u, e
<1>7. Len(a) \in 0..Len(a) /\ SubSeq(a, 1, Len(a)) = a
  BY <1>1
<1>8. Owns(Append(SubSeq(a, 1, Len(a)), e), u, m)
  BY <1>1, <1>3, <1>5, <1>6, <1>7, OwnsAppended
<1>9. Owns(u, Append(a, e), m)
  BY <1>7, <1>8, OwnsSwapped
<1> QED
  BY <1>9 DEF u, e

\* OP_TOALTSTACK and OP_FROMALTSTACK.
LEMMA AltStackLeaves ==
  ASSUME Owned, NEW op, Len(stack) >= Needs(op), AltStack(op)
  PROVE  Leaves
<1>1. CASE op = "TOALTSTACK" /\ Continue(Under(1), Append(alt, Top(1)), mem)
  <2>1. Len(stack) # 0
    BY <1>1, StackTypes DEF Needs
  <2>2. Top(1) = stack[Len(stack)]
    BY StackTypes DEF Top
  <2>3. Owns(Under(1), Append(alt, Top(1)), mem)
    BY <2>1, <2>2, Moved DEF Owned, Under
  <2> QED
    BY <1>1, <2>3, Continued
<1>2. CASE alt = <<>> /\ Stop("bad")
  BY <1>2, Stopped DEF Going
<1>3. CASE /\ alt # <<>>
           /\ Continue(Append(stack, alt[Len(alt)]), SubSeq(alt, 1, Len(alt) - 1), mem)
  <2>1. Len(alt) # 0
    BY <1>3, StackTypes
  <2>2. Owns(SubSeq(alt, 1, Len(alt) - 1), Append(stack, alt[Len(alt)]), mem)
    BY <2>1, OwnsSwapped, Moved DEF Owned
  <2>3. Owns(Append(stack, alt[Len(alt)]), SubSeq(alt, 1, Len(alt) - 1), mem)
    BY <2>2, OwnsSwapped
  <2> QED
    BY <1>3, <2>3, Continued
<1> QED
  BY <1>1, <1>2, <1>3 DEF AltStack

\* The operations of Simple.
LEMMA SimpleLeaves ==
  ASSUME Owned, Room, NEW op, Len(stack) >= Needs(op), Simple(op)
  PROVE  Leaves
<1>0. Keeps(0, mem) /\ Keeps(1, mem) /\ Spare(mem) /\ 0 \in 0..Len(stack)
  BY StackTypes, RoomSpares
<1>1. CASE Stop("bad")
  BY <1>1, Stopped DEF Going
<1>2. CASE Continue(stack, alt, mem)
  BY <1>0, <1>2, Stays
<1>3. CASE op = "VERIFY" /\ Continue(Under(1), alt, FreeIn(mem, Top(1)))
  <2>1. 1 \in 0..Len(stack) /\ 1 \in 1..1
    BY <1>3, StackTypes DEF Needs
  <2> QED
    BY <1>0, <1>3, <2>1, FreeKeeps, Drops
<1>4. CASE /\ op = "IFDUP"
           /\ Continue(Append(stack, NewIn(mem, Value(1)).elem), alt, NewIn(mem, Value(1)).mem)
  <2>1. 1 \in 1..Len(stack)
    BY <1>4, StackTypes DEF Needs
  <2> QED
    BY <1>4, <2>1, TopHolds, Pushes
<1>5. CASE Continue(Append(stack, NewIn(mem, FromInt(Len(stack))).elem), alt,
                    NewIn(mem, FromInt(Len(stack))).mem)
  <2>1. FromInt(Len(stack)) \in Seq(Byte)
    BY StackTypes, FromIntIsBytes
  <2> QED
    BY <1>5, <2>1, Pushes
<1>6. CASE op = "SIZE" /\ Continue(stack, alt, NewIn(mem, FromInt(Top(1).len)).mem)
  <2>1. 1 \in 1..Len(stack)
    BY <1>6, StackTypes DEF Needs
  <2>2. Top(1).len \in Nat
    BY <2>1, TopHolds DEF Elem
  <2>3. Keeps(0, NewIn(mem, FromInt(Top(1).len)).mem)
    BY <1>0, <2>2, FromIntIsBytes, NewKeeps
  <2> QED
    BY <1>6, <2>3, Stays
<1> QED
  BY <1>1, <1>2, <1>3, <1>4, <1>5, <1>6, Zenon DEF Simple

\* OP_PICK and OP_ROLL.
LEMMA PickOrRollLeaves ==
  ASSUME Owned, Room, NEW op, Len(stack) >= Needs(op), PickOrRoll(op)
  PROVE  Leaves
<1> DEFINE n == ToInt(Value(1))
           place == (n % 256) + 2
           c == NewIn(mem, Value(place))
<1>0. Len(stack) \in Nat /\ Len(stack) >= 2 /\ Keeps(1, mem) /\ Keeps(2, mem) /\ Spare(mem)
  <2>1. op \in {"PICK", "ROLL"}
    BY Zenon DEF PickOrRoll
  <2> QED
    BY <2>1, StackTypes, RoomSpares DEF Needs
<1>1. CASE Stop("bad") \/ Stop("undefined")
  BY <1>1, Stopped DEF Going
<1>2. CASE n \in 0..Len(stack) - 2 /\ Continue(Append(Under(1), c.elem), alt, c.mem)
  <2> HIDE DEF n
  <2>1. place \in 1..Len(stack) /\ 1 \in 0..Len(stack)
    BY <1>0, <1>2, ByteOfDepth
  <2> HIDE DEF place
  <2>2. Value(place) \in Seq(Byte)
    BY <2>1, TopHolds
  <2> QED
    BY <1>0, <1>2, <2>1, <2>2, PutsNew
<1>3. CASE /\ n \in 0..Len(stack) - 2 /\ (n = 0 \/ Top(n + 2).at = 0)
           /\ Continue(Append(Under(2), Top(n + 2)), alt, mem)
  <2> HIDE DEF n
  <2>1. n + 2 \in 1..Len(stack) /\ 2 \in 0..Len(stack)
    BY <1>0, <1>3
  <2>2. Holds(mem, Top(n + 2))
    BY <2>1, TopHolds
  <2>3. ASSUME NEW b, Below(stack, alt, Len(stack) - 2, b) PROVE Top(n + 2).at # b
    <3>1. b # 0
      BY <2>3 DEF Below
    <3>2. n = 0 => n + 2 \in 1..2
      OBVIOUS
    <3> QED
      BY <1>3, <2>1, <2>3, <3>1, <3>2, Apart
  <2> QED
    BY <1>0, <1>3, <2>1, <2>2, <2>3, Puts
<1> QED
  BY <1>1, <1>2, <1>3, Zenon DEF PickOrRoll

\* OP_EQUAL and OP_EQUALVERIFY.
LEMMA EqualLeaves ==
  ASSUME Owned, Room, NEW op, Len(stack) >= Needs(op), Equal(op)
  PROVE  Leaves
<1> DEFINE ok == Top(1).len = Top(2).len /\ Value(1) = Value(2)
           v  == IF ok THEN <<1>> ELSE <<>>
<1>1. op \in {"EQUAL", "EQUALVERIFY"}
  BY Zenon DEF Equal
<1>2. Keeps(2, mem) /\ Spare(mem) /\ 2 \in 0..Len(stack)
  BY <1>1, StackTypes, RoomSpares DEF Needs
<1>3. v \in Seq(Byte)
  BY Bits
<1>4. CASE Stop("bad")
  BY <1>4, Stopped DEF Going
<1>5. CASE Continue(Append(Under(2), NewIn(mem, v).elem), alt, NewIn(mem, v).mem)
  <2> HIDE DEF v
  <2> QED
    BY <1>2, <1>3, <1>5, PutsNew
<1> QED
  BY <1>4, <1>5, Zenon DEF Equal

\* The numeric operations with one operand.
LEMMA UnaryLeaves ==
  ASSUME Owned, Room, NEW op, Len(stack) >= Needs(op), Unary(op)
  PROVE  Leaves
<1> DEFINE n == ToInt(Value(1))
           v == IF Truth(Value(1)) = (op = "0NOTEQUAL") THEN <<1>> ELSE <<>>
<1>1. op \in {"1ADD", "1SUB", "NOT", "0NOTEQUAL"}
  BY Zenon DEF Unary
<1>2. Keeps(1, mem) /\ Spare(mem) /\ 1 \in 0..Len(stack) /\ 1 \in 1..Len(stack) /\ 1 \in 1..1
  BY <1>1, StackTypes, RoomSpares DEF Needs
<1>3. v \in Seq(Byte)
  BY Bits
<1>4. n \in Int
  BY <1>2, TopHolds, ToIntIsInt
<1>5. CASE Stop("bad")
  BY <1>5, Stopped DEF Going
<1>6. CASE PutNumber(1, Top(1), mem, n + 1) \/ PutNumber(1, Top(1), mem, n - 1)
  <2> HIDE DEF n
  <2>1. n + 1 \in Int /\ n - 1 \in Int
    BY <1>4
  <2> QED
    BY <1>2, <1>6, <2>1, PutsNumber
<1>7. CASE Continue(Append(Under(1), Placed(mem, Top(1), v).elem), alt, Placed(mem, Top(1), v).mem)
  <2> HIDE DEF v
  <2> QED
    BY <1>2, <1>3, <1>7, PutsPlaced
<1> QED
  BY <1>5, <1>6, <1>7, Zenon DEF Unary

\* OP_NEGATE and OP_ABS: bytes are changed where they are.
LEMMA InPlaceLeaves ==
  ASSUME Owned, Room, NEW op, Len(stack) >= Needs(op), InPlace(op)
  PROVE  Leaves
<1> DEFINE v == Value(1)
           sign == IF op = "NEGATE" /\ v[Len(v)] < 128 THEN 128 ELSE 0
           e == Top(1)
           w == [mem EXCEPT ![e.at][Len(v)] = (@ % 128) + sign]
<1>1. op \in {"NEGATE", "ABS"}
  BY Zenon DEF InPlace
<1>2. /\ Keeps(0, mem) /\ Keeps(1, mem) /\ Spare(mem)
      /\ 0 \in 0..Len(stack) /\ 1 \in 0..Len(stack) /\ 1 \in 1..Len(stack) /\ 1 \in 1..1
      /\ stack \in Seq(Elem) /\ mem \in Memory
  BY <1>1, StackTypes, RoomSpares DEF Needs
<1>3. Holds(mem, e) /\ e \in Elem /\ v \in Seq(Byte)
  BY <1>2, TopHolds
<1>4. CASE Stop("bad") \/ Stop("undefined")
  BY <1>4, Stopped DEF Going
<1>5. CASE Continue(stack, alt, mem)
  BY <1>2, <1>5, Stays
<1>6. CASE Continue(stack, alt, NewIn(mem, <<128>>).mem)
  BY <1>2, <1>6, Bits, NewKeeps, Stays
<1>7. CASE e.at # 0 /\ Continue(stack, alt, w)
  <2>1. e.at \in 1..MaxAt /\ v = mem[e.at] /\ v # <<>>
    BY <1>3, <1>7, ScriptAssumption DEF Holds, Elem, Value, Bytes
  <2>2. sign \in {0, 128} /\ Len(v) \in 1..Len(v) /\ v[Len(v)] \in Byte
    BY <1>3, <2>1
  <2>3. (v[Len(v)] % 128) + sign \in Byte
    <3> DEFINE y == v[Len(v)]
    <3>1. \A x \in Byte : x % 128 \in 0..127
      BY SMTT(30) DEF Byte
    <3>2. y % 128 \in 0..127
      BY <2>2, <3>1, ZenonT(30)
    <3> HIDE DEF y, sign
    <3> DEFINE z == y % 128
    <3> HIDE DEF z
    <3>3. z \in 0..127
      BY <3>2 DEF z
    <3>4. z + sign \in Byte
      BY <2>2, <3>3 DEF Byte
    <3> QED
      BY <3>4 DEF y, z
  <2> DEFINE x == [v EXCEPT ![Len(v)] = (v[Len(v)] % 128) + sign]
  <2>4. x \in Seq(Byte) /\ Len(x) = Len(v)
    <3> DEFINE y == (v[Len(v)] % 128) + sign
    <3> HIDE DEF y, v
    <3>1. [v EXCEPT ![Len(v)] = y] \in Seq(Byte) /\ Len([v EXCEPT ![Len(v)] = y]) = Len(v)
      BY <1>3, <2>2, <2>3 DEF y
    <3> QED
      BY <3>1 DEF y
  <2>5. w = [mem EXCEPT ![e.at] = x]
    BY <2>1
  <2> HIDE DEF x, v, w
  <2>6. w \in Memory /\ w[e.at] = x /\ \A b : b \in 1..MaxAt /\ b # e.at => w[b] = mem[b]
    BY <1>2, <2>1, <2>4, <2>5 DEF Memory
  <2>7. Holds(w, e)
    <3>1. Len(v) = e.len /\ Len(v) # 0
      BY <1>3, <1>7, <2>1 DEF Holds, Bytes
    <3>2. w[e.at] # <<>> /\ Len(w[e.at]) = e.len
      BY <2>4, <2>6, <3>1
    <3> QED
      BY <1>3, <1>7, <3>2 DEF Holds, Bytes
  <2>8. Keeps(1, w) /\ \A b : Below(stack, alt, Len(stack) - 1, b) => e.at # b
    BY <1>2, <2>6, Apart DEF Keeps
  <2>9. Append(Under(1), e) = stack
    BY <1>2 DEF Under, Top
  <2>10. Continue(Append(Under(1), e), alt, w)
    BY <1>7, <2>9
  <2> QED
    BY <1>2, <2>7, <2>8, <2>10, Puts
<1> QED
  BY <1>4, <1>5, <1>6, <1>7, Zenon DEF InPlace

\* The numeric operations give numbers.
LEMMA ResultIsInt ==
  ASSUME NEW op \in Binaries, NEW a \in Int, NEW b \in Int
  PROVE  BinaryResult(op, a, b) \in Int
<1>1. \A c : ToBit(c) \in Int
  BY DEF ToBit
<1>2. a + b \in Int /\ a - b \in Int /\ (IF a > b THEN b ELSE a) \in Int
      /\ (IF a < b THEN b ELSE a) \in Int
  OBVIOUS
<1> QED
  BY <1>1, <1>2 DEF BinaryResult, Binaries

\* The numeric operations with two operands.
LEMMA BinaryLeaves ==
  ASSUME Owned, Room, NEW op, Len(stack) >= Needs(op), Binary(op)
  PROVE  Leaves
<1> DEFINE r == BinaryResult(op, ToInt(Value(2)), ToInt(Value(1)))
           m == FreeIn(mem, Top(1))
<1>1. op \in Binaries
  BY Zenon DEF Binary
<1>2. /\ Keeps(2, mem) /\ Spare(mem)
      /\ 2 \in 0..Len(stack) /\ 1 \in 1..Len(stack) /\ 2 \in 1..Len(stack)
      /\ 1 \in 1..2 /\ 2 \in 1..2
  BY <1>1, StackTypes, RoomSpares DEF Needs, Binaries, Hashes
<1>3. r \in Int
  BY <1>1, <1>2, TopHolds, ToIntIsInt, ResultIsInt
<1>4. Keeps(2, m) /\ Spare(m)
  BY <1>2, FreeKeeps
<1>5. CASE Stop("bad")
  BY <1>5, Stopped DEF Going
<1>6. CASE PutNumber(2, Top(2), m, r)
  <2> HIDE DEF r, m
  <2> QED
    BY <1>2, <1>3, <1>4, <1>6, PutsNumber
<1>7. CASE Continue(Under(2), alt, FreeIn(m, Top(2)))
  <2> HIDE DEF m
  <2> QED
    BY <1>2, <1>4, <1>7, FreeKeeps, Drops
<1> QED
  BY <1>5, <1>6, <1>7, Zenon DEF Binary

\* OP_BOOLAND, OP_BOOLOR and OP_WITHIN.
LEMMA LogicalLeaves ==
  ASSUME Owned, Room, NEW op, Len(stack) >= Needs(op), Logical(op)
  PROVE  Leaves
<1> DEFINE used == Needs(op)
           yes  == CASE op = "BOOLAND" -> Truth(Value(2)) /\ Truth(Value(1))
                     [] op = "BOOLOR" -> Truth(Value(2)) \/ Truth(Value(1))
                     [] op = "WITHIN" -> ToInt(Value(2)) <= ToInt(Value(3)) /\ ToInt(Value(3)) < ToInt(Value(1))
           m == IF used = 2 THEN FreeIn(mem, Top(1)) ELSE FreeIn(FreeIn(mem, Top(1)), Top(2))
           v == IF yes THEN <<1>> ELSE <<0>>
<1>1. op \in {"BOOLAND", "BOOLOR", "WITHIN"}
  BY Zenon DEF Logical
<1>2. used \in 2..3
  BY <1>1 DEF Needs, Binaries, Hashes
<1> HIDE DEF used
<1>3. /\ Keeps(used, mem) /\ Spare(mem) /\ used \in 0..Len(stack)
      /\ 1 \in 1..used /\ 2 \in 1..used /\ used \in 1..used
  BY <1>2, StackTypes, RoomSpares DEF used
<1>4. Keeps(used, m) /\ Spare(m)
  BY <1>3, FreeKeeps
<1>5. v \in Seq(Byte)
  BY Bits
<1>6. CASE Stop("bad")
  BY <1>6, Stopped DEF Going
<1>7. CASE Continue(Append(Under(used), Placed(m, Top(used), v).elem), alt, Placed(m, Top(used), v).mem)
  <2> HIDE DEF v, m
  <2> QED
    BY <1>3, <1>4, <1>5, <1>7, PutsPlaced
<1> QED
  BY <1>6, <1>7, Zenon DEF Logical, used

\* The hashes.
LEMMA HashLeaves ==
  ASSUME Owned, Room, NEW op, Len(stack) >= Needs(op), Hash(op)
  PROVE  Leaves
<1> DEFINE n == NewIn(mem, Digest(op, Value(1)))
           w == FreeIn(n.mem, Top(1))
<1>1. op \in Hashes
  BY Zenon DEF Hash
<1>2. /\ Keeps(1, mem) /\ Spare(mem) /\ mem \in Memory
      /\ 1 \in 0..Len(stack) /\ 1 \in 1..Len(stack) /\ 1 \in 1..1
  BY <1>1, StackTypes, RoomSpares DEF Needs, Hashes
<1>3. Digest(op, Value(1)) \in Seq(Byte) /\ Top(1) \in Elem /\ Holds(mem, Top(1))
  BY <1>2, TopHolds, DigestIsBytes
<1>4. /\ Keeps(1, n.mem) /\ Holds(n.mem, n.elem)
      /\ \A b : Below(stack, alt, Len(stack) - 1, b) => n.elem.at # b
  BY <1>2, <1>3, NewKeeps
<1>5. n.elem.at # 0 => mem[n.elem.at] = <<>>
  BY <1>2, <1>3, NewInOwn
<1>6. Continue(Append(Under(1), n.elem), alt, w)
  BY Zenon DEF Hash
<1> HIDE DEF n
<1>7. Keeps(1, w)
  BY <1>2, <1>4, FreeKeeps
<1>8. Holds(w, n.elem)
  <2>1. CASE n.elem.at = 0
    BY <1>4, <2>1 DEF Holds, Bytes
  <2>2. CASE n.elem.at # 0
    <3>1. n.elem.at \in 1..MaxAt /\ n.elem.at # Top(1).at
      BY <1>3, <1>4, <1>5, <2>2, ScriptAssumption DEF Holds, Elem
    <3>2. w[n.elem.at] = n.mem[n.elem.at]
      BY <1>3, <1>4, <3>1, FreeInKeeps DEF Keeps
    <3> QED
      BY <1>4, <2>2, <3>2 DEF Holds, Bytes
  <2> QED
    BY <2>1, <2>2
<1> HIDE DEF w
<1> QED
  BY <1>2, <1>4, <1>6, <1>7, <1>8, Puts

\* The end of the operations with signatures.
LEMMA CheckedLeaves ==
  ASSUME Owned, Room, NEW op, NEW used \in 0..Len(stack), NEW result, Checked(op, used, result)
  PROVE  Leaves
<1> DEFINE m == [a \in 1..MaxAt |-> IF \E i \in 1..used : Top(i).at = a THEN <<>> ELSE mem[a]]
           v == IF result THEN <<1>> ELSE <<>>
<1>1. m \in Memory
  <2>1. \A a \in 1..MaxAt : mem[a] \in Seq(Byte)
    BY StackTypes DEF Memory
  <2> QED
    BY <2>1, Bits DEF Memory
<1>2. Keeps(used, m)
  <2> SUFFICES ASSUME NEW b, Below(stack, alt, Len(stack) - used, b) PROVE m[b] = mem[b]
    BY <1>1 DEF Keeps
  <2> QED
    BY Apart
<1>3. Spare(m)
  BY RoomSpares DEF Spare
<1>4. v \in Seq(Byte)
  BY Bits
<1>5. CASE Stop("bad")
  BY <1>5, Stopped DEF Going
<1>6. CASE Continue(Under(used), alt, m)
  <2> HIDE DEF m
  <2> QED
    BY <1>2, <1>6, Drops
<1>7. CASE Continue(Append(Under(used), NewIn(m, v).elem), alt, NewIn(m, v).mem)
  <2> HIDE DEF m, v
  <2> QED
    BY <1>2, <1>3, <1>4, <1>7, PutsNew
<1> QED
  BY <1>5, <1>6, <1>7, Zenon DEF Checked

\* OP_CHECKSIG and OP_CHECKSIGVERIFY.
LEMMA CheckSigLeaves ==
  ASSUME Owned, Room, NEW op, Len(stack) >= Needs(op), CheckSig(op)
  PROVE  Leaves
<1>1. op \in {"CHECKSIG", "CHECKSIGVERIFY"}
  BY Zenon DEF CheckSig
<1>2. 2 \in 0..Len(stack)
  BY <1>1, StackTypes DEF Needs
<1>3. CASE Stop("error")
  BY <1>3, Stopped DEF Going
<1>4. CASE \E result \in BOOLEAN : Checked(op, 2, result)
  BY <1>2, <1>4, CheckedLeaves
<1> QED
  BY <1>3, <1>4, Zenon DEF CheckSig

\* OP_CHECKMULTISIG and OP_CHECKMULTISIGVERIFY.
LEMMA CheckMultisigLeaves ==
  ASSUME Owned, Room, NEW op, CheckMultisig(op)
  PROVE  Leaves
<1> DEFINE keys == ToInt(Value(1))
           sigs == ToInt(Value(2 + keys))
           r(good) == Multisig(good, {k \in 1..keys : Top(1 + k).at = 0}, sigs, keys)
<1>1. CASE \E x \in {"bad", "undefined", "error", "null"} : Stop(x)
  BY <1>1, Stopped DEF Going
<1>2. CASE /\ keys \in 0..20 /\ sigs \in 0..keys /\ ~(Len(stack) < 3 + keys + sigs)
           /\ \E good : Checked(op, 3 + keys + sigs, r(good).result)
  <2> HIDE DEF keys, sigs, r
  <2>1. 3 + keys + sigs \in 0..Len(stack)
    BY <1>2, StackTypes
  <2> DEFINE n == 3 + keys + sigs
  <2> HIDE DEF n
  <2>2. PICK good : Checked(op, n, r(good).result)
    BY <1>2 DEF n
  <2>3. n \in 0..Len(stack)
    BY <2>1 DEF n
  <2> QED
    BY <2>2, <2>3, CheckedLeaves
<1> QED
  BY <1>1, <1>2, Zenon DEF CheckMultisig

\* The tables of the operations that move elements: what is copied, freed and
\* arranged is in reach, what is arranged is not freed, and is there once.
LEMMA Tables ==
  ASSUME NEW op \in Shuffles
  PROVE  /\ Needs(op) \in 1..6
         /\ Copied(op) \in Seq(1..Needs(op)) /\ Len(Copied(op)) \in 0..3
         /\ Dropped(op) \subseteq 1..Needs(op)
         /\ Arranged(op) \in Seq(Int)
         /\ \A i \in 1..Len(Arranged(op)) :
              IF Arranged(op)[i] > 0 THEN Arranged(op)[i] \in (1..Needs(op)) \ Dropped(op)
              ELSE 1 - Arranged(op)[i] \in 1..Len(Copied(op))
         /\ \A i, j \in 1..Len(Arranged(op)) : Arranged(op)[i] = Arranged(op)[j] => i = j
<1>1. CASE op = "DROP"
  BY <1>1 DEF Needs, Copied, Dropped, Arranged, Hashes, Binaries
<1>2. CASE op = "DUP"
  BY <1>2 DEF Needs, Copied, Dropped, Arranged, Hashes, Binaries
<1>3. CASE op = "NIP"
  BY <1>3 DEF Needs, Copied, Dropped, Arranged, Hashes, Binaries
<1>4. CASE op = "OVER"
  BY <1>4 DEF Needs, Copied, Dropped, Arranged, Hashes, Binaries
<1>5. CASE op = "ROT"
  BY <1>5 DEF Needs, Copied, Dropped, Arranged, Hashes, Binaries
<1>6. CASE op = "SWAP"
  BY <1>6 DEF Needs, Copied, Dropped, Arranged, Hashes, Binaries
<1>7. CASE op = "TUCK"
  BY <1>7 DEF Needs, Copied, Dropped, Arranged, Hashes, Binaries
<1>8. CASE op = "2DROP"
  BY <1>8 DEF Needs, Copied, Dropped, Arranged, Hashes, Binaries
<1>9. CASE op = "2DUP"
  BY <1>9 DEF Needs, Copied, Dropped, Arranged, Hashes, Binaries
<1>10. CASE op = "3DUP"
  BY <1>10 DEF Needs, Copied, Dropped, Arranged, Hashes, Binaries
<1>11. CASE op = "2OVER"
  BY <1>11 DEF Needs, Copied, Dropped, Arranged, Hashes, Binaries
<1>12. CASE op = "2ROT"
  BY <1>12 DEF Needs, Copied, Dropped, Arranged, Hashes, Binaries
<1>13. CASE op = "2SWAP"
  BY <1>13 DEF Needs, Copied, Dropped, Arranged, Hashes, Binaries
<1> QED
  BY <1>1, <1>2, <1>3, <1>4, <1>5, <1>6, <1>7, <1>8, <1>9, <1>10, <1>11, <1>12, <1>13
     DEF Shuffles

\* Where, counted from the top, the i-th value of those that are arranged was before.
Source(op, i) ==
  IF Arranged(op)[i] > 0 THEN Arranged(op)[i] ELSE Copied(op)[1 - Arranged(op)[i]]

\* What the tables do to a sequence of values.
Rearranged(op, s) ==
  SubSeq(s, 1, Len(s) - Needs(op))
    \o [i \in 1..Len(Arranged(op)) |-> s[Len(s) - Source(op, i) + 1]]

\* The operations that move elements, and the values they leave.
LEMMA ShuffleLeaves ==
  ASSUME Owned, Room, NEW op, Len(stack) >= Needs(op), Shuffle(op)
  PROVE  Leaves /\ Values(stack', mem') = Rearranged(op, Before)
<1> DEFINE need == Needs(op)
           vs   == [i \in 1..Len(Copied(op)) |-> Value(Copied(op)[i])]
           c    == Made(vs, mem)
           arr  == Arranged(op)
           take == [i \in 1..Len(arr) |-> IF arr[i] > 0 THEN Top(arr[i]) ELSE c.elems[1 - arr[i]]]
           left == [a \in 1..MaxAt |-> IF \E i \in Dropped(op) : Top(i).at = a THEN <<>> ELSE c.mem[a]]
           n    == Len(stack) - need
           k    == Len(Copied(op))
<1>1. op \in Shuffles /\ Continue(Under(need) \o take, alt, left)
  BY Zenon DEF Shuffle
<1>2. /\ need \in 1..6
      /\ Copied(op) \in Seq(1..need) /\ k \in 0..3
      /\ Dropped(op) \subseteq 1..need
      /\ arr \in Seq(Int)
      /\ \A i \in 1..Len(arr) : IF arr[i] > 0 THEN arr[i] \in (1..need) \ Dropped(op)
                                ELSE 1 - arr[i] \in 1..k
      /\ \A i, j \in 1..Len(arr) : arr[i] = arr[j] => i = j
  BY <1>1, Tables
<1> HIDE DEF need, arr
<1>3. /\ need \in 0..Len(stack) /\ n \in 0..Len(stack)
      /\ \A i \in 1..need : i \in 1..Len(stack)
      /\ stack \in Seq(Elem) /\ alt \in Seq(Elem) /\ mem \in Memory
  <2>1. need \in 1..6
    BY <1>2
  <2>2. stack \in Seq(Elem) /\ alt \in Seq(Elem) /\ mem \in Memory /\ Len(stack) \in Nat
    BY StackTypes
  <2>3. Len(stack) >= need
    BY DEF need
  <2> DEFINE l == Len(stack)
  <2>4. l \in Nat /\ l >= need
    BY <2>2, <2>3
  <2> HIDE DEF l
  <2>5. need \in 0..l /\ l - need \in 0..l /\ \A i \in 1..need : i \in 1..l
    BY <2>1, <2>4
  <2> QED
    BY <2>2, <2>5, Zenon DEF l
<1>4. vs \in Seq(Seq(Byte)) /\ Len(vs) = k
  <2>1. \A i \in 1..k : Copied(op)[i] \in 1..need
    BY <1>2
  <2>2. \A i \in 1..k : Value(Copied(op)[i]) \in Seq(Byte)
    BY <1>3, <2>1, TopHolds
  <2>3. k \in Nat
    BY <1>2
  <2> DEFINE f(i) == Value(Copied(op)[i])
  <2> HIDE DEF f, k
  <2>4. [i \in 1..k |-> f(i)] \in Seq(Seq(Byte)) /\ Len([i \in 1..k |-> f(i)]) = k
    BY <2>2, <2>3 DEF f
  <2> QED
    BY <2>4 DEF f, k
<1>5. Grown(mem, c, vs, k)
  <2> HIDE DEF vs, k
  <2>1. Roomy(mem, Len(vs))
    <3> DEFINE F == {a \in 1..MaxAt : mem[a] = <<>>}
               R == Cardinality(F)
    <3>1. R \in Nat
      <4>1. IsFiniteSet(1..MaxAt)
        BY FS_Interval, ScriptAssumption
      <4>2. F \subseteq 1..MaxAt
        OBVIOUS
      <4> HIDE DEF F
      <4>3. IsFiniteSet(F)
        BY <4>1, <4>2, FS_Subset
      <4> QED
        BY <4>3, FS_CardinalityType
    <3>2. R >= 3
      BY DEF Room
    <3> HIDE DEF R
    <3>3. R >= Len(vs)
      BY <1>2, <1>4, <3>1, <3>2
    <3> QED
      BY <3>3 DEF R, Roomy
  <2> QED
    BY <1>3, <1>4, <2>1, MadeOwn
<1> HIDE DEF c, vs, n, k
<1>6. /\ c.elems \in Seq(Elem) /\ Len(c.elems) = k /\ c.mem \in Memory
      /\ \A i \in 1..k : Holds(c.mem, c.elems[i]) /\ Bytes(c.mem, c.elems[i]) = vs[i]
      /\ \A i \in 1..k : c.elems[i].at # 0 => mem[c.elems[i].at] = <<>>
      /\ \A i, j \in 1..k : c.elems[i].at = c.elems[j].at /\ c.elems[i].at # 0 => i = j
      /\ \A b \in 1..MaxAt : mem[b] # <<>> => c.mem[b] = mem[b]
  BY <1>5 DEF Grown
<1>7. /\ left \in Memory
      /\ \A a \in 1..MaxAt : (\A i \in Dropped(op) : Top(i).at # a) => left[a] = c.mem[a]
  <2>1. \A a \in 1..MaxAt : c.mem[a] \in Seq(Byte)
    BY <1>6 DEF Memory
  <2> QED
    BY <2>1, Bits DEF Memory
<1> HIDE DEF left
<1>8. ASSUME NEW i \in 1..need
      PROVE  /\ Holds(mem, Top(i)) /\ Top(i) \in Elem
             /\ Top(i).at # 0 => Top(i).at \in 1..MaxAt /\ mem[Top(i).at] # <<>>
             /\ \A j \in 1..need : Top(i).at = Top(j).at /\ Top(i).at # 0 => i = j
             /\ ~Below(stack, alt, n, Top(i).at)
  <2>1. /\ Holds(mem, Top(i)) /\ Top(i) \in Elem
        /\ \A j \in 1..need : Top(i).at = Top(j).at /\ Top(i).at # 0 => i = j
    BY <1>3, TopHolds
  <2>2. Top(i).at # 0 => Top(i).at \in 1..MaxAt /\ mem[Top(i).at] # <<>>
    BY <2>1, ScriptAssumption DEF Elem, Holds
  <2>3. ~Below(stack, alt, n, Top(i).at)
    BY <1>3, Apart DEF n
  <2> QED
    BY <2>1, <2>2, <2>3
<1>9. ASSUME NEW i \in (1..need) \ Dropped(op)
      PROVE  Holds(left, Top(i)) /\ Bytes(left, Top(i)) = Value(i)
  <2>1. CASE Top(i).at = 0
    BY <1>8, <2>1 DEF Holds, Bytes, Value
  <2>2. CASE Top(i).at # 0
    <3>1. \A j \in Dropped(op) : Top(j).at # Top(i).at
      BY <1>2, <1>8, <2>2
    <3>2. left[Top(i).at] = mem[Top(i).at]
      BY <1>6, <1>7, <1>8, <2>2, <3>1
    <3> QED
      BY <1>8, <2>2, <3>2 DEF Holds, Bytes, Value
  <2> QED
    BY <2>1, <2>2
<1>10. ASSUME NEW i \in 1..k
       PROVE  /\ Holds(left, c.elems[i]) /\ c.elems[i] \in Elem
              /\ Bytes(left, c.elems[i]) = vs[i]
              /\ \A j \in 1..need : c.elems[i].at = Top(j).at => c.elems[i].at = 0
              /\ ~Below(stack, alt, n, c.elems[i].at)
  <2>1. Holds(c.mem, c.elems[i]) /\ c.elems[i] \in Elem /\ Bytes(c.mem, c.elems[i]) = vs[i]
    BY <1>6 DEF Holds
  <2>2. \A j \in 1..need : c.elems[i].at = Top(j).at => c.elems[i].at = 0
    BY <1>6, <1>8
  <2>3. ~Below(stack, alt, n, c.elems[i].at)
    <3> SUFFICES ASSUME Below(stack, alt, n, c.elems[i].at) PROVE FALSE
      OBVIOUS
    <3>1. c.elems[i].at # 0 /\ mem[c.elems[i].at] # <<>>
      BY <1>3, Apart DEF Below, n
    <3> QED
      BY <1>6, <3>1
  <2>4. Holds(left, c.elems[i]) /\ Bytes(left, c.elems[i]) = vs[i]
    <3>1. CASE c.elems[i].at = 0
      BY <2>1, <3>1 DEF Holds, Bytes
    <3>2. CASE c.elems[i].at # 0
      <4>1. c.elems[i].at \in 1..MaxAt
        BY <2>1, <3>2, ScriptAssumption DEF Elem
      <4>2. left[c.elems[i].at] = c.mem[c.elems[i].at]
        BY <1>2, <1>7, <2>2, <3>2, <4>1
      <4> QED
        BY <2>1, <3>2, <4>2 DEF Holds, Bytes
    <3> QED
      BY <3>1, <3>2
  <2> QED
    BY <2>1, <2>2, <2>3, <2>4
<1>11. Len(arr) \in Nat /\ \A i \in 1..Len(arr) : arr[i] \in Int
  BY <1>2
<1>12. /\ \A i \in 1..Len(arr) : arr[i] > 0 => take[i] = Top(arr[i])
       /\ \A i \in 1..Len(arr) : ~(arr[i] > 0) => take[i] = c.elems[1 - arr[i]]
  OBVIOUS
<1>13. Len(take) = Len(arr) /\ take \in Seq(Elem)
  <2>1. \A i \in 1..Len(arr) : take[i] \in Elem
    BY <1>2, <1>8, <1>10, <1>12
  <2> DEFINE f(i) == IF arr[i] > 0 THEN Top(arr[i]) ELSE c.elems[1 - arr[i]]
  <2>2. \A i \in 1..Len(arr) : f(i) \in Elem
    BY <2>1, <1>12
  <2> HIDE DEF f
  <2>3. [i \in 1..Len(arr) |-> f(i)] \in Seq(Elem)
        /\ Len([i \in 1..Len(arr) |-> f(i)]) = Len(arr)
    BY <1>11, <2>2
  <2> QED
    BY <2>3 DEF f
<1> HIDE DEF take
<1>14. ASSUME NEW i \in 1..Len(take)
       PROVE  Holds(left, take[i]) /\ ~Below(stack, alt, n, take[i].at)
  <2>1. CASE arr[i] > 0
    BY <1>2, <1>8, <1>9, <1>12, <1>13, <2>1
  <2>2. CASE ~(arr[i] > 0)
    BY <1>2, <1>10, <1>12, <1>13, <2>2
  <2> QED
    BY <2>1, <2>2
<1>15. ASSUME NEW i \in 1..Len(take), NEW j \in 1..Len(take),
              take[i].at = take[j].at, take[i].at # 0
       PROVE  i = j
  <2>0. /\ i \in 1..Len(arr) /\ j \in 1..Len(arr) /\ (arr[i] = arr[j] => i = j)
        /\ arr[i] \in Int /\ arr[j] \in Int
    BY <1>2, <1>11, <1>13
  <2>1. CASE arr[i] > 0 /\ arr[j] > 0
    <3>1. /\ arr[i] \in 1..need /\ arr[j] \in 1..need
          /\ take[i] = Top(arr[i]) /\ take[j] = Top(arr[j])
      BY <1>2, <1>12, <2>0, <2>1
    <3> QED
      BY <1>8, <1>15, <2>0, <3>1
  <2>2. CASE arr[i] > 0 /\ ~(arr[j] > 0)
    <3>1. /\ arr[i] \in 1..need /\ 1 - arr[j] \in 1..k
          /\ take[i] = Top(arr[i]) /\ take[j] = c.elems[1 - arr[j]]
      BY <1>2, <1>12, <2>0, <2>2
    <3> QED
      BY <1>10, <1>15, <3>1
  <2>3. CASE ~(arr[i] > 0) /\ arr[j] > 0
    <3>1. /\ 1 - arr[i] \in 1..k /\ arr[j] \in 1..need
          /\ take[i] = c.elems[1 - arr[i]] /\ take[j] = Top(arr[j])
      BY <1>2, <1>12, <2>0, <2>3
    <3> QED
      BY <1>10, <1>15, <3>1
  <2>4. CASE ~(arr[i] > 0) /\ ~(arr[j] > 0)
    <3>1. /\ 1 - arr[i] \in 1..k /\ 1 - arr[j] \in 1..k
          /\ take[i] = c.elems[1 - arr[i]] /\ take[j] = c.elems[1 - arr[j]]
      BY <1>2, <1>12, <2>0, <2>4
    <3>2. 1 - arr[i] = 1 - arr[j]
      BY <1>6, <1>15, <3>1
    <3> QED
      BY <2>0, <3>2
  <2> QED
    BY <2>1, <2>2, <2>3, <2>4
<1>16. ASSUME NEW b, Below(stack, alt, n, b) PROVE left[b] = mem[b]
  <2>1. b \in 1..MaxAt /\ mem[b] # <<>> /\ \A i \in 1..need : Top(i).at # b
    BY <1>3, <1>16, Apart DEF n
  <2> QED
    BY <1>2, <1>6, <1>7, <2>1
<1>17. Owns(SubSeq(stack, 1, n) \o take, alt, left)
  BY <1>3, <1>7, <1>13, <1>14, <1>15, <1>16, OwnsRebuilt DEF Owned
<1>18. Leaves
  BY <1>1, <1>17, Continued DEF Under, n
<1>19. ASSUME NEW i \in 1..Len(take)
       PROVE  Bytes(left, take[i]) = Before[Len(Before) - Source(op, i) + 1]
  <2>1. CASE arr[i] > 0
    <3>1. arr[i] \in (1..need) \ Dropped(op) /\ take[i] = Top(arr[i]) /\ Source(op, i) = arr[i]
      BY <1>2, <1>12, <1>13, <2>1 DEF Source, arr
    <3>2. arr[i] \in 1..Len(stack)
      BY <1>3, <3>1
    <3> QED
      BY <1>9, <3>1, <3>2, BeforeTop
  <2>2. CASE ~(arr[i] > 0)
    <3> DEFINE j == 1 - arr[i]
    <3>1. j \in 1..k /\ take[i] = c.elems[j] /\ Source(op, i) = Copied(op)[j]
      BY <1>2, <1>12, <1>13, <2>2 DEF Source, arr
    <3> HIDE DEF j
    <3>2. Bytes(left, take[i]) = vs[j]
      BY <1>10, <3>1
    <3>3. vs[j] = Value(Copied(op)[j])
      BY <3>1 DEF vs, k
    <3>4. Copied(op)[j] \in 1..Len(stack)
      BY <1>2, <1>3, <3>1 DEF k
    <3> QED
      BY <3>1, <3>2, <3>3, <3>4, BeforeTop
  <2> QED
    BY <2>1, <2>2
<1>20. Values(Under(need) \o take, left) = SubSeq(Before, 1, Len(Before) - need) \o Values(take, left)
  BY <1>3, <1>7, <1>13, <1>16, ValuesRebuilt DEF n
<1>21. Values(take, left) = [i \in 1..Len(arr) |-> Before[Len(Before) - Source(op, i) + 1]]
  BY <1>13, <1>19 DEF Values
<1>22. stack' = Under(need) \o take /\ mem' = left
  BY <1>1 DEF Continue
<1>23. Values(stack', mem') = Values(Under(need) \o take, left)
  BY <1>22 DEF Values
<1> QED
  BY <1>18, <1>20, <1>21, <1>23 DEF Rearranged, need, arr

------------------------------------------------------------------------------
(* The steps.                                                                *)

\* Whatever an operation on elements does, the stacks own their memory.
LEMMA DataLeaves ==
  ASSUME Owned, Room, NEW op, NEW v \in Seq(Byte), Len(stack) >= Needs(op), Data(op, v)
  PROVE  Leaves
<1>1. CASE Push(op, v)
  BY <1>1, PushLeaves
<1>2. CASE AltStack(op)
  BY <1>2, AltStackLeaves
<1>3. CASE Simple(op)
  BY <1>3, SimpleLeaves
<1>4. CASE Shuffle(op)
  BY <1>4, ShuffleLeaves
<1>5. CASE PickOrRoll(op)
  BY <1>5, PickOrRollLeaves
<1>6. CASE Equal(op)
  BY <1>6, EqualLeaves
<1>7. CASE Unary(op)
  BY <1>7, UnaryLeaves
<1>8. CASE InPlace(op)
  BY <1>8, InPlaceLeaves
<1>9. CASE Binary(op)
  BY <1>9, BinaryLeaves
<1>10. CASE Logical(op)
  BY <1>10, LogicalLeaves
<1>11. CASE Hash(op)
  BY <1>11, HashLeaves
<1>12. CASE CheckSig(op)
  BY <1>12, CheckSigLeaves
<1>13. CASE CheckMultisig(op)
  BY <1>13, CheckMultisigLeaves
<1>14. CASE NoMemory(op)
  <2>1. Stop("error") \/ Stop("undefined")
    BY <1>14, Zenon DEF NoMemory
  <2> QED
    BY <2>1, Stopped DEF Going
<1> QED
  BY <1>1, <1>2, <1>3, <1>4, <1>5, <1>6, <1>7, <1>8, <1>9, <1>10, <1>11, <1>12, <1>13, <1>14,
     Zenon DEF Data

\* An OP_IF or OP_NOTIF frees its condition with the element, or leaves both.
LEMMA IfLeaves ==
  ASSUME Owned, NEW op, Len(stack) >= Needs(op), If(op), status = "running"
  PROVE  Leaves
<1> DEFINE runs == Truth(Value(1)) = (op = "IF")
<1>1. /\ op \in {"IF", "NOTIF"} /\ status' = status /\ alt' = alt
      /\ stack' = IF runs THEN stack ELSE Under(1)
      /\ mem' = IF runs THEN mem ELSE FreeIn(mem, Top(1))
  BY Zenon DEF If
<1>2. /\ Keeps(1, mem) /\ 1 \in 0..Len(stack) /\ 1 \in 1..1
      /\ Len(stack) - 1 \in 0..Len(stack)
  BY <1>1, StackTypes DEF Needs
<1> HIDE DEF runs
<1>3. status' \in Going
  BY <1>1 DEF Going
<1>4. CASE runs
  BY <1>1, <1>3, <1>4 DEF Leaves, Owned
<1>5. CASE ~runs
  <2>1. Keeps(1, FreeIn(mem, Top(1)))
    BY <1>2, FreeKeeps
  <2>2. Owns(Under(1), alt, FreeIn(mem, Top(1)))
    BY <1>2, <2>1, OwnsDropped DEF Owned, Under, Keeps
  <2> QED
    BY <1>1, <1>3, <1>5, <2>2 DEF Leaves
<1> QED
  BY <1>4, <1>5

\* A step that reads an operation leaves stacks that own their memory.
LEMMA ExecuteLeaves ==
  ASSUME Owned, Room, NEW op, NEW v \in Seq(Byte), status = "running", Execute(op, v)
  PROVE  Leaves
<1>1. CASE Len(stack) < Needs(op)
  BY <1>1, Stopped DEF Execute, Going
<1>2. CASE ~(Len(stack) < Needs(op))
  <2>1. Len(stack) >= Needs(op)
    <3>1. Needs(op) \in Nat
      BY DEF Needs
    <3> QED
      BY <1>2, <3>1, StackTypes
  <2>2. CASE If(op)
    BY <2>1, <2>2, IfLeaves
  <2>3. CASE ElseOrEndIf(op)
    <3>1. UNCHANGED memVars /\ status' \in {"bad", status}
      BY <2>3 DEF ElseOrEndIf
    <3> QED
      BY <3>1 DEF Leaves, Going, Owned, memVars
  <2>4. CASE Data(op, v)
    BY <2>1, <2>4, DataLeaves
  <2> QED
    BY <1>2, <2>2, <2>3, <2>4 DEF Execute
<1> QED
  BY <1>1, <1>2

\* The blocks: ifElseSize is a number, and counts those that are open.
Balanced ==
  /\ depth \in Nat /\ skip \in Nat /\ open \in Int
  /\ inside \in Nat /\ lost \in BOOLEAN
  /\ ~lost => depth = open /\ (inside > 0 => Skipping)

\* An operation that is executed keeps the balance.  Where it is in the data of a
\* push, the skipping ended there.
LEMMA ExecuteBalanced ==
  ASSUME Balanced, ~Skipping, NEW op, NEW v, Execute(op, v)
  PROVE  Balanced'
<1>1. /\ depth \in Nat /\ skip \in Nat /\ open \in Int /\ inside \in Nat /\ lost \in BOOLEAN
      /\ ~lost => depth = open /\ inside = 0
  BY DEF Balanced
<1>2. CASE UNCHANGED controlVars
  <2>1. /\ depth' = depth /\ skip' = skip /\ open' = open /\ inside' = inside /\ lost' = lost
    BY <1>2 DEF controlVars
  <2> QED
    BY <1>1, <2>1 DEF Balanced
<1>3. CASE If(op)
  <2>1. /\ depth' = depth + 1 /\ open' \in {open, open + 1} /\ skip' \in {0, depth + 1}
        /\ inside = 0 => open' = open + 1
        /\ inside' = inside /\ lost' = lost
    BY <1>3 DEF If, Opened
  <2> QED
    BY <1>1, <2>1 DEF Balanced
<1>4. CASE ElseOrEndIf(op) /\ depth # 0
  <2>1. /\ op = "ENDIF" => depth' = depth - 1 /\ (inside = 0 => open' = open - 1)
        /\ op = "ELSE" => depth' = depth /\ open' = open
        /\ op \in {"ELSE", "ENDIF"} /\ skip' \in {depth, skip} /\ open' \in {open, open - 1}
        /\ inside' = inside /\ lost' = lost
    BY <1>4 DEF ElseOrEndIf, Opened
  <2> QED
    BY <1>1, <1>4, <2>1 DEF Balanced
<1> QED
  BY <1>2, <1>3, <1>4 DEF Execute, ElseOrEndIf

\* An operation that is skipped keeps it too: an OP_ENDIF in a block that is
\* skipped finds one open.
LEMMA SkipBalanced ==
  ASSUME Balanced, NEW op, NEW v \in Seq(Byte), Skipping, Skip(op, v)
  PROVE  Balanced'
<1>1. /\ depth \in Nat /\ skip \in Nat /\ open \in Int /\ inside \in Nat /\ lost \in BOOLEAN
      /\ depth # 0 /\ depth >= skip /\ skip # 0
      /\ ~lost => depth = open
  BY DEF Balanced, Skipping
<1>2. /\ depth' = Skipped(op) /\ open' = Opened(op) /\ inside' \in StillInside(op, v)
      /\ skip' = IF op \in {"ELSE", "ENDIF"} /\ depth = skip THEN 0 ELSE skip
      /\ lost' = (lost \/ op = "NOTIF" \/ (inside > 0 /\ op \in Branches))
  BY Zenon DEF Skip
<1>3. lost' \in BOOLEAN /\ (lost \/ op = "NOTIF" \/ (inside > 0 /\ op \in Branches) => lost')
  BY <1>2, Zenon
<1>4. inside' \in Nat /\ (inside = 0 /\ op \notin {"PUSH", "short"} => inside' = 0)
  <2>1. Len(v) \in Nat /\ MaxRead \in Nat
    BY ScriptAssumption
  <2>2. Behind(v) \subseteq Nat
    <3> DEFINE l == Len(v)
    <3>1. l \in Nat
      BY <2>1
    <3> HIDE DEF l
    <3>2. {l + n : n \in {0, 1, 2, 4}} \subseteq Nat
      BY <3>1
    <3>3. {n \in {0} : l = 1} \subseteq Nat
      OBVIOUS
    <3> QED
      BY <3>2, <3>3 DEF Behind, l
  <2> QED
    BY <1>1, <1>2, <2>1, <2>2 DEF StillInside
<1>5. /\ depth' \in Nat /\ open' \in Int /\ skip' \in {0, skip}
  BY <1>1, <1>2 DEF Skipped, Opened
<1>6. ASSUME ~lost' PROVE depth' = open' /\ (inside' > 0 => Skipping')
  <2>1. ~lost /\ op # "NOTIF" /\ ~(inside > 0 /\ op \in Branches)
    BY <1>3, <1>6
  <2>2. CASE op \in Branches
    <3>1. inside = 0 /\ op \in {"IF", "ELSE", "ENDIF"}
      BY <1>1, <2>1, <2>2 DEF Branches
    <3>2. inside' = 0
      BY <1>4, <3>1
    <3>3. depth' = open'
      BY <1>1, <1>2, <2>1, <3>1 DEF Skipped, Opened
    <3> QED
      BY <3>2, <3>3
  <2>3. CASE op \notin Branches
    <3>1. depth' = depth /\ open' = open /\ skip' = skip
      BY <1>2, <2>3 DEF Skipped, Opened, Branches
    <3> QED
      BY <1>1, <2>1, <3>1 DEF Skipping
  <2> QED
    BY <2>2, <2>3
<1> HIDE DEF Skipping
<1>7. skip' \in Nat
  BY <1>1, <1>5
<1> QED
  BY <1>3, <1>4, <1>5, <1>6, <1>7 DEF Balanced

\* The counters.  A script that goes on has executed no more than MaxOps
\* operations and the keys of the last one.
Counted ==
  /\ opCount \in 0..MaxOps + 21 /\ read \in 0..MaxRead
  /\ status = "running" => opCount \in 0..MaxOps + 20
  /\ p2sh \in {"no", "hash", "named"}

\* At most 20 keys are counted.
LEMMA KeyOpsBounded ==
  ASSUME NEW op
  PROVE  KeyOps(op) \in 0..20
BY DEF KeyOps

\* The inductive invariant: the memory of the stacks, the balance of the blocks and
\* the counters.
IInv ==
  /\ Owned /\ Balanced /\ Counted
  /\ status \in Going \cup {"good"}
  /\ status = "good" => depth = 0

\* A script starts with stacks that own their memory.
LEMMA Starts == Init => IInv
<1> SUFFICES ASSUME Init PROVE IInv
  OBVIOUS
<1> DEFINE empty == [a \in 1..MaxAt |-> <<>>]
<1>1. PICK s \in Stacks : stack = Made(s, empty).elems /\ mem = Made(s, empty).mem
  BY Zenon DEF Init
<1>2. empty \in Memory /\ s \in Seq(Seq(Byte)) /\ Len(s) <= MaxAt /\ Len(s) \in Nat
  BY ScriptAssumption DEF Memory, Byte
<1>3. Roomy(empty, Len(s))
  <2>1. {b \in 1..MaxAt : empty[b] = <<>>} = 1..MaxAt
    OBVIOUS
  <2>2. Cardinality(1..MaxAt) = MaxAt
    BY FS_Interval, ScriptAssumption
  <2> QED
    BY <1>2, <2>1, <2>2, ScriptAssumption DEF Roomy
<1> HIDE DEF empty
<1>4. Grown(empty, Made(s, empty), s, Len(s))
  BY <1>2, <1>3, MadeOwn
<1>5. alt = <<>> /\ alt \in Seq(Elem) /\ 1..Len(alt) = {}
  BY DEF Init
<1>6. Owned
  BY <1>1, <1>4, <1>5 DEF Grown, Owned, Owns
<1>7. /\ depth = 0 /\ skip = 0 /\ opCount = 0 /\ read = 0
      /\ p2sh \in {"no", "hash"} /\ status = "running" /\ open = 0 /\ inside = 0
  BY DEF Init
<1>8. lost \in BOOLEAN
  <2>1. lost = FALSE
    BY Zenon DEF Init
  <2> QED
    BY <2>1, Zenon
<1>9. Balanced
  BY <1>7, <1>8 DEF Balanced
<1>10. Counted
  BY <1>7, ScriptAssumption DEF Counted
<1> QED
  BY <1>6, <1>7, <1>9, <1>10 DEF IInv, Going

\* A round of the loop keeps the invariant.
LEMMA ReadKeeps ==
  ASSUME IInv, NEW op, NEW v \in Seq(Byte), Read(op, v)
  PROVE  IInv'
<1>1. /\ status = "running" /\ read < MaxRead /\ Room
      /\ read' = read + 1 /\ p2sh' = p2sh
  BY DEF Read
<1>2. Owned /\ Balanced /\ Counted
  BY DEF IInv
<1>3. opCount \in Nat /\ opCount <= MaxOps + 20 /\ Count(op) \in {opCount, opCount + 1}
  BY <1>1, <1>2, ScriptAssumption DEF Counted, Count
<1>4. read' \in 0..MaxRead
  BY <1>1, <1>2, ScriptAssumption DEF Counted
<1>5. CASE opCount' = Count(op) /\ Stop("bad") /\ UNCHANGED controlVars
  <2>1. Leaves /\ status' = "bad"
    BY <1>2, <1>5, Stopped DEF Going, Stop
  <2>2. Balanced'
    BY <1>2, <1>5 DEF Balanced, controlVars, Skipping
  <2> QED
    BY <1>1, <1>2, <1>3, <1>4, <1>5, <2>1, <2>2, ScriptAssumption
       DEF IInv, Leaves, Owned, Counted
<1>6. CASE Count(op) <= MaxOps /\ Skipping /\ opCount' = Count(op) /\ Skip(op, v)
  <2>1. Owned' /\ status' = status
    BY <1>2, <1>6 DEF Skip, Owned, memVars
  <2>2. Balanced'
    BY <1>2, <1>6, SkipBalanced
  <2> QED
    BY <1>1, <1>2, <1>3, <1>4, <1>6, <2>1, <2>2, ScriptAssumption DEF IInv, Going, Counted
<1>7. CASE Count(op) <= MaxOps /\ ~Skipping /\ opCount' = Count(op) + KeyOps(op)
           /\ Execute(op, v)
  <2>1. Leaves
    BY <1>1, <1>2, <1>7, ExecuteLeaves
  <2>2. Balanced'
    BY <1>2, <1>7, ExecuteBalanced
  <2>3. opCount' \in 0..MaxOps + 20
    <3> DEFINE x == Count(op)
               y == KeyOps(op)
    <3>1. x \in Nat /\ x <= MaxOps /\ y \in 0..20 /\ opCount' = x + y
      BY <1>3, <1>7, KeyOpsBounded
    <3> HIDE DEF x, y
    <3> QED
      BY <3>1, ScriptAssumption
  <2>4. Counted'
    BY <1>1, <1>2, <1>4, <2>3, ScriptAssumption DEF Counted
  <2> QED
    BY <2>1, <2>2, <2>4 DEF IInv, Leaves, Owned, Going
<1> QED
  <2>1. ~(Count(op) > MaxOps) => Count(op) <= MaxOps
    BY <1>3, ScriptAssumption
  <2> QED
    BY <1>5, <1>6, <1>7, <2>1 DEF Read

\* The end of a script keeps the invariant.
LEMMA FinishKeeps ==
  ASSUME IInv, Finish
  PROVE  IInv'
<1> DEFINE yes == depth = 0 /\ stack # <<>> /\ Truth(Value(1))
<1>1. Owned /\ Balanced /\ Counted /\ status = "running"
  BY DEF IInv, Finish
<1>2. CASE Result("bad") \/ (depth = 0 /\ Result("good"))
  <2>1. Owned' /\ Balanced' /\ opCount' = opCount /\ read' = read /\ p2sh' = p2sh
        /\ depth' = depth
    BY <1>1, <1>2 DEF Result, Owned, memVars, Balanced, controlVars, Skipping
  <2>2. status' = "bad" \/ (status' = "good" /\ depth = 0)
    BY <1>2 DEF Result
  <2> QED
    BY <1>1, <2>1, <2>2 DEF IInv, Counted, Going
<1>3. CASE /\ stack # <<>>
           /\ stack' = Under(1) /\ mem' = FreeIn(mem, Top(1)) /\ alt' = <<>>
           /\ depth' = 0 /\ skip' = 0 /\ open' = 0 /\ inside' = 0 /\ lost' = FALSE
           /\ opCount' = 0 /\ read' = 0 /\ p2sh' = "named" /\ status' = status
  <2>1. /\ Keeps(1, mem) /\ 1 \in 0..Len(stack) /\ 1 \in 1..1
        /\ Len(stack) - 1 \in 0..Len(stack)
        /\ alt \in Seq(Elem) /\ 0 \in 0..Len(alt)
    BY <1>1, <1>3, StackTypes
  <2> DEFINE w == FreeIn(mem, Top(1))
  <2>2. Keeps(1, w)
    BY <1>1, <2>1, FreeKeeps
  <2> HIDE DEF w
  <2>3. Owns(Under(1), alt, w) /\ w \in Memory
    BY <1>1, <2>1, <2>2, OwnsDropped DEF Owned, Under, Keeps
  <2>4. Owns(SubSeq(alt, 1, 0), Under(1), w)
    BY <2>1, <2>3, OwnsSwapped, OwnsDropped
  <2>5. Owns(Under(1), <<>>, w)
    <3>1. SubSeq(alt, 1, 0) = <<>>
      BY <2>1
    <3> QED
      BY <2>4, <3>1, OwnsSwapped
  <2>6. Owned'
    BY <1>3, <2>5 DEF Owned, w
  <2>7. Balanced'
    <3>1. depth' = 0 /\ skip' = 0 /\ open' = 0 /\ inside' = 0
      BY <1>3
    <3>2. lost' \in BOOLEAN
      <4>1. lost' = FALSE
        BY <1>3, Zenon
      <4> QED
        BY <4>1, Zenon
    <3> QED
      BY <3>1, <3>2 DEF Balanced
  <2>8. Counted'
    BY <1>3, ScriptAssumption DEF Counted
  <2>9. status' = "running"
    BY <1>1, <1>3
  <2> QED
    BY <2>6, <2>7, <2>8, <2>9 DEF IInv, Going
<1> QED
  BY <1>2, <1>3, Zenon DEF Finish

\* The invariant holds in every state.
LEMMA Invariant == Spec => []IInv
<1>1. ASSUME IInv, Next PROVE IInv'
  <2>1. <<>> \in Seq(Byte) /\ \A v \in Vectors : v \in Seq(Byte)
    BY ScriptAssumption DEF Byte
  <2>2. CASE \E op \in Operations : Read(op, <<>>)
    BY <1>1, <2>1, <2>2, ReadKeeps
  <2>3. CASE \E v \in Vectors : Read("PUSH", v)
    BY <1>1, <2>1, <2>3, ReadKeeps
  <2>4. CASE Finish
    BY <1>1, <2>4, FinishKeeps
  <2> QED
    BY <1>1, <2>2, <2>3, <2>4 DEF Next
<1>2. ASSUME IInv, UNCHANGED vars PROVE IInv'
  BY <1>2 DEF vars, memVars, controlVars, IInv, Owned, Balanced, Skipping, Counted
<1> QED
  BY Starts, <1>1, <1>2, PTL DEF Spec

------------------------------------------------------------------------------
(* What the comments in the code say.                                        *)

\* Parts of one to four elements.
LEMMA Parts ==
  ASSUME NEW S, NEW s \in Seq(S), NEW i \in 1..Len(s)
  PROVE  /\ SubSeq(s, i, i) = <<s[i]>>
         /\ i + 1 <= Len(s) => SubSeq(s, i, i + 1) = <<s[i], s[i + 1]>>
         /\ i + 2 <= Len(s) => SubSeq(s, i, i + 2) = <<s[i], s[i + 1], s[i + 2]>>
         /\ i + 3 <= Len(s) => SubSeq(s, i, i + 3) = <<s[i], s[i + 1], s[i + 2], s[i + 3]>>
<1>1. ASSUME NEW k \in 0..3, i + k <= Len(s)
      PROVE  /\ SubSeq(s, i, i + k) \in Seq(S) /\ Len(SubSeq(s, i, i + k)) = k + 1
             /\ \A j \in 1..(k + 1) : SubSeq(s, i, i + k)[j] = s[i + j - 1] /\ s[i + j - 1] \in S
  <2> DEFINE n == i + k
             t == SubSeq(s, i, n)
  <2>1. n \in Int /\ i \in Int /\ i <= n /\ n - i + 1 = k + 1 /\ \A j \in i..n : s[j] \in S
    BY <1>1
  <2> HIDE DEF n
  <2>2. /\ t \in Seq(S) /\ Len(t) = IF i <= n THEN n - i + 1 ELSE 0
        /\ \A j \in 1..(n - i + 1) : t[j] = s[i + j - 1]
    BY <2>1, SubSeqProperties
  <2> HIDE DEF t
  <2>3. \A j \in 1..(k + 1) : i + j - 1 \in i..n
    BY <2>1 DEF n
  <2>4. \A j \in 1..(k + 1) : t[j] = s[i + j - 1] /\ s[i + j - 1] \in S
    BY <2>1, <2>2, <2>3
  <2> QED
    BY <2>1, <2>2, <2>4 DEF t, n
<1>2. SubSeq(s, i, i) = <<s[i]>>
  <2> DEFINE t == SubSeq(s, i, i)
  <2>1. i + 0 = i /\ 0 \in 0..3 /\ i <= Len(s)
    OBVIOUS
  <2>2. t \in Seq(S) /\ Len(t) = 1 /\ t[1] = s[i] /\ s[i] \in S
    BY <1>1, <2>1
  <2> HIDE DEF t
  <2>3. t = <<s[i]>>
    BY <2>2
  <2> QED
    BY <2>3 DEF t
<1>3. ASSUME i + 1 <= Len(s) PROVE SubSeq(s, i, i + 1) = <<s[i], s[i + 1]>>
  <2> DEFINE t == SubSeq(s, i, i + 1)
  <2>1. t \in Seq(S) /\ Len(t) = 2 /\ \A j \in 1..2 : t[j] = s[i + j - 1] /\ s[i + j - 1] \in S
    BY <1>1, <1>3
  <2> HIDE DEF t
  <2>2. t[1] = s[i] /\ t[2] = s[i + 1] /\ s[i] \in S /\ s[i + 1] \in S
    BY <2>1
  <2>3. t = <<s[i], s[i + 1]>>
    BY <2>1, <2>2
  <2> QED
    BY <2>3 DEF t
<1>4. ASSUME i + 2 <= Len(s) PROVE SubSeq(s, i, i + 2) = <<s[i], s[i + 1], s[i + 2]>>
  <2> DEFINE t == SubSeq(s, i, i + 2)
  <2>1. t \in Seq(S) /\ Len(t) = 3 /\ \A j \in 1..3 : t[j] = s[i + j - 1] /\ s[i + j - 1] \in S
    BY <1>1, <1>4
  <2> HIDE DEF t
  <2>2. /\ t[1] = s[i] /\ t[2] = s[i + 1] /\ t[3] = s[i + 2]
        /\ s[i] \in S /\ s[i + 1] \in S /\ s[i + 2] \in S
    BY <2>1
  <2>3. t = <<s[i], s[i + 1], s[i + 2]>>
    BY <2>1, <2>2
  <2> QED
    BY <2>3 DEF t
<1>5. ASSUME i + 3 <= Len(s) PROVE SubSeq(s, i, i + 3) = <<s[i], s[i + 1], s[i + 2], s[i + 3]>>
  <2> DEFINE t == SubSeq(s, i, i + 3)
  <2>1. t \in Seq(S) /\ Len(t) = 4 /\ \A j \in 1..4 : t[j] = s[i + j - 1] /\ s[i + j - 1] \in S
    BY <1>1, <1>5
  <2> HIDE DEF t
  <2>2. /\ t[1] = s[i] /\ t[2] = s[i + 1] /\ t[3] = s[i + 2] /\ t[4] = s[i + 3]
        /\ s[i] \in S /\ s[i + 1] \in S /\ s[i + 2] \in S /\ s[i + 3] \in S
    BY <2>1
  <2>3. t = <<s[i], s[i + 1], s[i + 2], s[i + 3]>>
    BY <2>1, <2>2
  <2> QED
    BY <2>3 DEF t
<1> QED
  BY <1>2, <1>3, <1>4, <1>5

\* The top k elements and those below them.
LEMMA Tops ==
  ASSUME NEW S, NEW s \in Seq(S), NEW k \in 1..Len(s)
  PROVE  /\ SubSeq(s, 1, Len(s) - k) \in Seq(S)
         /\ s = SubSeq(s, 1, Len(s) - k) \o SubSeq(s, Len(s) - k + 1, Len(s))
         /\ \A i \in 0..(k - 1) : Len(s) - i \in 1..Len(s) /\ s[Len(s) - i] \in S
<1> DEFINE n == Len(s)
           m == n - k
<1>1. n \in Nat /\ m \in 0..n /\ m \in Nat /\ n \in m..n /\ 1 \in 1..(n + 1) /\ m \in (1 - 1)..n
  OBVIOUS
<1>2. SubSeq(s, 1, m) \o SubSeq(s, m + 1, n) = SubSeq(s, 1, n)
  <2> HIDE DEF m
  <2> QED
    BY <1>1, ConcatAdjacentSubSeq
<1>3. SubSeq(s, 1, n) = s
  BY SubSeqFull
<1>4. \A i \in 1..n : s[i] \in S
  OBVIOUS
<1>5. \A i \in 0..(k - 1) : n - i \in 1..n
  BY <1>1
<1>6. SubSeq(s, 1, m) \in Seq(S)
  <2>1. \A i \in 1..m : s[i] \in S
    BY <1>1, <1>4
  <2> HIDE DEF m
  <2> QED
    BY <1>1, <2>1, SubSeqProperties
<1>7. s = SubSeq(s, 1, m) \o SubSeq(s, m + 1, n)
  BY <1>2, <1>3, Zenon
<1>8. \A i \in 0..(k - 1) : n - i \in 1..n /\ s[n - i] \in S
  BY <1>4, <1>5
<1> QED
  BY <1>6, <1>7, <1>8, Zenon

\* The i-th element of a sequence, counted from its end.
FromTop(s, i) == s[Len(s) - i + 1]

\* The last elements of a sequence, by their place from the end.
LEMMA PlacesFromTop ==
  ASSUME NEW S, NEW s \in Seq(S)
  PROVE  /\ FromTop(s, 1) = s[Len(s)]
         /\ FromTop(s, 2) = s[Len(s) - 1]
         /\ FromTop(s, 3) = s[Len(s) - 2]
         /\ \A k \in 1..Len(s) : FromTop(s, k) \in S
<1>1. /\ Len(s) \in Nat /\ Len(s) - 1 + 1 = Len(s) /\ Len(s) - 2 + 1 = Len(s) - 1
      /\ Len(s) - 3 + 1 = Len(s) - 2
      /\ \A k \in 1..Len(s) : Len(s) - k + 1 \in 1..Len(s)
  OBVIOUS
<1>2. \A i \in 1..Len(s) : s[i] \in S
  OBVIOUS
<1>3. \A k \in 1..Len(s) : FromTop(s, k) \in S
  BY <1>1, <1>2 DEF FromTop
<1> QED
  BY <1>1, <1>3, Zenon DEF FromTop

\* Parts at the end of a sequence.
LEMMA PartsFromTop ==
  ASSUME NEW S, NEW s \in Seq(S), NEW k \in 1..Len(s)
  PROVE  LET i == Len(s) - k + 1
         IN  /\ SubSeq(s, i, i) = <<FromTop(s, k)>>
             /\ k > 1 => SubSeq(s, i, i + 1) = <<FromTop(s, k), FromTop(s, k - 1)>>
             /\ k > 2 => SubSeq(s, i, i + 2) = <<FromTop(s, k), FromTop(s, k - 1), FromTop(s, k - 2)>>
             /\ k > 3 => SubSeq(s, i, i + 3) =
                           <<FromTop(s, k), FromTop(s, k - 1), FromTop(s, k - 2), FromTop(s, k - 3)>>
<1> DEFINE i == Len(s) - k + 1
<1>1. i \in 1..Len(s)
  OBVIOUS
<1>2. /\ k > 1 => i + 1 <= Len(s) /\ i + 1 = Len(s) - (k - 1) + 1
      /\ k > 2 => i + 2 <= Len(s) /\ i + 2 = Len(s) - (k - 2) + 1
      /\ k > 3 => i + 3 <= Len(s) /\ i + 3 = Len(s) - (k - 3) + 1
  OBVIOUS
<1>3. k > 3 => k > 2 /\ k > 1
  OBVIOUS
<1>4. k > 2 => k > 1
  OBVIOUS
<1>5. /\ FromTop(s, k) = s[i]
      /\ k > 1 => FromTop(s, k - 1) = s[i + 1]
      /\ k > 2 => FromTop(s, k - 2) = s[i + 2]
      /\ k > 3 => FromTop(s, k - 3) = s[i + 3]
  <2>1. /\ FromTop(s, k) = s[i]
        /\ FromTop(s, k - 1) = s[Len(s) - (k - 1) + 1]
        /\ FromTop(s, k - 2) = s[Len(s) - (k - 2) + 1]
        /\ FromTop(s, k - 3) = s[Len(s) - (k - 3) + 1]
    BY Zenon DEF FromTop
  <2> HIDE DEF i
  <2> QED
    BY <1>2, <2>1, Zenon
<1> HIDE DEF i
<1>6. /\ SubSeq(s, i, i) = <<s[i]>>
      /\ i + 1 <= Len(s) => SubSeq(s, i, i + 1) = <<s[i], s[i + 1]>>
      /\ i + 2 <= Len(s) => SubSeq(s, i, i + 2) = <<s[i], s[i + 1], s[i + 2]>>
      /\ i + 3 <= Len(s) => SubSeq(s, i, i + 3) = <<s[i], s[i + 1], s[i + 2], s[i + 3]>>
  BY <1>1, Parts, Zenon
<1>7. /\ SubSeq(s, i, i) = <<FromTop(s, k)>>
      /\ k > 1 => SubSeq(s, i, i + 1) = <<FromTop(s, k), FromTop(s, k - 1)>>
      /\ k > 2 => SubSeq(s, i, i + 2) = <<FromTop(s, k), FromTop(s, k - 1), FromTop(s, k - 2)>>
      /\ k > 3 => SubSeq(s, i, i + 3) =
                    <<FromTop(s, k), FromTop(s, k - 1), FromTop(s, k - 2), FromTop(s, k - 3)>>
  BY <1>2, <1>3, <1>4, <1>5, <1>6, Zenon
<1> QED
  BY <1>7, Zenon DEF i

\* The parts at the end that the comments name.
LEMMA NamedParts ==
  ASSUME NEW S, NEW s \in Seq(S)
  PROVE  LET n == Len(s)
             x(i) == FromTop(s, i)
         IN  /\ n >= 1 => s = SubSeq(s, 1, n - 1) \o <<x(1)>>
             /\ n >= 2 => s = SubSeq(s, 1, n - 2) \o <<x(2), x(1)>>
             /\ n >= 3 => s = SubSeq(s, 1, n - 3) \o <<x(3), x(2), x(1)>>
             /\ n >= 2 => SubSeq(s, n - 1, n) = <<x(2), x(1)>>
             /\ n >= 3 => SubSeq(s, n - 2, n) = <<x(3), x(2), x(1)>>
             /\ n >= 4 => SubSeq(s, n - 3, n) = <<x(4), x(3), x(2), x(1)>>
             /\ n >= 4 => SubSeq(s, n - 3, n - 2) = <<x(4), x(3)>>
             /\ n >= 6 => SubSeq(s, n - 5, n - 4) = <<x(6), x(5)>>
<1> DEFINE n == Len(s)
           x(i) == FromTop(s, i)
<1>1. n \in Nat
  OBVIOUS
<1>2. \A k \in 1..n : s = SubSeq(s, 1, n - k) \o SubSeq(s, n - k + 1, n)
  BY Tops
<1>3. ASSUME NEW k \in 1..n
      PROVE  /\ SubSeq(s, n - k + 1, n - k + 1) = <<x(k)>>
             /\ k > 1 => SubSeq(s, n - k + 1, n - k + 1 + 1) = <<x(k), x(k - 1)>>
             /\ k > 2 => SubSeq(s, n - k + 1, n - k + 1 + 2) = <<x(k), x(k - 1), x(k - 2)>>
             /\ k > 3 => SubSeq(s, n - k + 1, n - k + 1 + 3) = <<x(k), x(k - 1), x(k - 2), x(k - 3)>>
  BY PartsFromTop, Zenon
<1> HIDE DEF n, x
<1>4. ASSUME n >= 1 PROVE s = SubSeq(s, 1, n - 1) \o <<x(1)>>
  <2>1. 1 \in 1..n /\ n - 1 + 1 = n
    BY <1>1, <1>4
  <2> QED
    BY <1>2, <1>3, <2>1, Zenon
<1>5. ASSUME n >= 2
      PROVE  SubSeq(s, n - 1, n) = <<x(2), x(1)>> /\ s = SubSeq(s, 1, n - 2) \o <<x(2), x(1)>>
  <2>1. 2 \in 1..n /\ n - 2 + 1 = n - 1 /\ n - 1 + 1 = n /\ 2 > 1 /\ 2 - 1 = 1
    BY <1>1, <1>5
  <2>2. SubSeq(s, n - 1, n) = <<x(2), x(1)>>
    BY <1>3, <2>1, Zenon
  <2> QED
    BY <1>2, <2>1, <2>2, Zenon
<1>6. ASSUME n >= 3
      PROVE  /\ SubSeq(s, n - 2, n) = <<x(3), x(2), x(1)>>
             /\ s = SubSeq(s, 1, n - 3) \o <<x(3), x(2), x(1)>>
  <2>1. 3 \in 1..n /\ n - 3 + 1 = n - 2 /\ n - 2 + 2 = n /\ 3 > 2 /\ 3 - 1 = 2 /\ 3 - 2 = 1
    BY <1>1, <1>6
  <2>2. SubSeq(s, n - 2, n) = <<x(3), x(2), x(1)>>
    BY <1>3, <2>1, Zenon
  <2> QED
    BY <1>2, <2>1, <2>2, Zenon
<1>7. ASSUME n >= 4
      PROVE  SubSeq(s, n - 3, n) = <<x(4), x(3), x(2), x(1)>> /\ SubSeq(s, n - 3, n - 2) = <<x(4), x(3)>>
  <2>1. /\ 4 \in 1..n /\ n - 4 + 1 = n - 3 /\ n - 3 + 3 = n /\ n - 3 + 1 = n - 2
        /\ 4 > 3 /\ 4 > 1 /\ 4 - 1 = 3 /\ 4 - 2 = 2 /\ 4 - 3 = 1
    BY <1>1, <1>7
  <2> QED
    BY <1>3, <2>1, Zenon
<1>8. ASSUME n >= 6 PROVE SubSeq(s, n - 5, n - 4) = <<x(6), x(5)>>
  <2>1. 6 \in 1..n /\ n - 6 + 1 = n - 5 /\ n - 5 + 1 = n - 4 /\ 6 > 1 /\ 6 - 1 = 5
    BY <1>1, <1>8
  <2> QED
    BY <1>3, <2>1, Zenon
<1> QED
  BY <1>4, <1>5, <1>6, <1>7, <1>8, Zenon DEF n, x


\* The table of op, its copies looked up, takes the places p from the top.
TakesPlaces(op, p) == Len(Arranged(op)) = Len(p) /\ \A i \in 1..Len(p) : Source(op, i) = p[i]

\* A table whose copies are looked up, and the places from the top it amounts to.
LEMMA RearrangedByPlaces ==
  ASSUME NEW s, NEW op, NEW p, TakesPlaces(op, p)
  PROVE  Rearranged(op, s) = SubSeq(s, 1, Len(s) - Needs(op)) \o [i \in 1..Len(p) |-> FromTop(s, p[i])]
<1>1. [i \in 1..Len(Arranged(op)) |-> s[Len(s) - Source(op, i) + 1]]
        = [i \in 1..Len(p) |-> FromTop(s, p[i])]
  BY DEF FromTop, TakesPlaces
<1> QED
  BY <1>1 DEF Rearranged

\* r is t and u joined.
Joins(t, u, r) ==
  /\ Len(r) = Len(t) + Len(u)
  /\ \A i \in 1..Len(t) : r[i] = t[i]
  /\ \A i \in 1..Len(u) : r[Len(t) + i] = u[i]

\* It is the same to join t and u to w as to join r.
SameOnto(w, t, u, r) == (w \o t) \o u = w \o r

\* A sequence is known by its elements when it is two joined.
LEMMA JoinsIs ==
  ASSUME NEW S, NEW t \in Seq(S), NEW u \in Seq(S), NEW r \in Seq(S), Joins(t, u, r)
  PROVE  t \o u = r
<1> DEFINE e == t \o u
<1>1. /\ e \in Seq(S) /\ Len(e) = Len(t) + Len(u)
      /\ \A i \in 1..Len(t) + Len(u) : e[i] = IF i <= Len(t) THEN t[i] ELSE u[i - Len(t)]
  BY ConcatProperties, Zenon
<1>2. Len(t) \in Nat /\ Len(u) \in Nat
  OBVIOUS
<1> HIDE DEF e
<1>3. ASSUME NEW i \in 1..Len(r) PROVE e[i] = r[i]
  <2>1. CASE i <= Len(t)
    BY <1>1, <1>2, <2>1 DEF Joins
  <2>2. CASE ~(i <= Len(t))
    <3>1. i - Len(t) \in 1..Len(u) /\ Len(t) + (i - Len(t)) = i
      BY <1>2, <2>2 DEF Joins
    <3>2. r[Len(t) + (i - Len(t))] = u[i - Len(t)]
      BY <3>1 DEF Joins
    <3> QED
      BY <1>1, <1>2, <2>2, <3>1, <3>2
  <2> QED
    BY <2>1, <2>2
<1>4. e = r
  BY <1>1, <1>3, SameSequence DEF Joins
<1> QED
  BY <1>4 DEF e

\* What is joined to two sequences is joined to them as one.
LEMMA JoinedOnto ==
  ASSUME NEW S
  PROVE  \A w \in Seq(S), t \in Seq(S), u \in Seq(S), r \in Seq(S) :
           Joins(t, u, r) => SameOnto(w, t, u, r)
<1>1. ASSUME NEW w \in Seq(S), NEW t \in Seq(S), NEW u \in Seq(S), NEW r \in Seq(S), Joins(t, u, r)
      PROVE  SameOnto(w, t, u, r)
  <2> DEFINE a == w \o t
             b == w \o r
  <2>1. /\ a \in Seq(S) /\ Len(a) = Len(w) + Len(t)
        /\ \A i \in 1..Len(w) + Len(t) : a[i] = IF i <= Len(w) THEN w[i] ELSE t[i - Len(w)]
    BY ConcatProperties, Zenon
  <2>2. /\ b \in Seq(S) /\ Len(b) = Len(w) + Len(r)
        /\ \A i \in 1..Len(w) + Len(r) : b[i] = IF i <= Len(w) THEN w[i] ELSE r[i - Len(w)]
    BY ConcatProperties, Zenon
  <2> HIDE DEF a, b
  <2>3. Len(w) \in Nat /\ Len(t) \in Nat /\ Len(u) \in Nat
    OBVIOUS
  <2>4. Len(b) = Len(a) + Len(u) /\ Len(r) = Len(t) + Len(u)
    BY <1>1, <2>1, <2>2, <2>3 DEF Joins
  <2>5. ASSUME NEW i \in 1..Len(a) PROVE b[i] = a[i]
    <3>1. CASE i <= Len(w)
      <4>1. i \in 1..Len(w) + Len(t) /\ i \in 1..Len(w) + Len(r)
        BY <2>1, <2>3, <2>4, <3>1
      <4>2. b[i] = w[i]
        BY <2>2, <3>1, <4>1, Zenon
      <4>3. a[i] = w[i]
        BY <2>1, <3>1, <4>1, Zenon
      <4> QED
        BY <4>2, <4>3
    <3>2. CASE ~(i <= Len(w))
      <4>1. i - Len(w) \in 1..Len(t) /\ i \in 1..Len(w) + Len(t) /\ i \in 1..Len(w) + Len(r)
        BY <2>1, <2>3, <2>4, <3>2
      <4>2. r[i - Len(w)] = t[i - Len(w)]
        BY <1>1, <4>1 DEF Joins
      <4> QED
        BY <2>1, <2>2, <3>2, <4>1, <4>2
    <3> QED
      BY <3>1, <3>2
  <2>6. ASSUME NEW i \in 1..Len(u) PROVE b[Len(a) + i] = u[i]
    <3>1. /\ Len(a) + i \in 1..Len(w) + Len(r) /\ ~(Len(a) + i <= Len(w))
          /\ Len(a) + i - Len(w) = Len(t) + i
      BY <2>1, <2>3, <2>4
    <3>2. b[Len(a) + i] = r[Len(t) + i]
      BY <2>2, <3>1
    <3>3. r[Len(t) + i] = u[i]
      BY <1>1 DEF Joins
    <3> QED
      BY <3>2, <3>3
  <2>7. Joins(a, u, b)
    BY <2>4, <2>5, <2>6 DEF Joins
  <2>8. a \o u = b
    BY <2>1, <2>2, <2>7, JoinsIs, Zenon
  <2> QED
    BY <2>8, Zenon DEF SameOnto, a, b
<1> QED
  BY <1>1, Zenon

\* The comments of the operations that move elements describe what the tables do.
LEMMA ShufflesDocumented ==
  ASSUME NEW S, NEW s \in Seq(S), NEW op \in Shuffles \ {"DROP", "2OVER"}, Len(s) >= Needs(op)
  PROVE  Documented(op, s) = Rearranged(op, s)
<1> DEFINE n        == Len(s)
           under(k) == SubSeq(s, 1, n - k)
           x(i)     == FromTop(s, i)
           taken(p) == [i \in 1..Len(p) |-> FromTop(s, p[i])]
<1>1. n \in Nat
  OBVIOUS
<1>2. \A k \in 1..n : under(k) \in Seq(S) /\ x(k) \in S
  BY Tops, PlacesFromTop, Zenon
<1>3. x(1) = s[n] /\ x(2) = s[n - 1] /\ x(3) = s[n - 2]
  BY PlacesFromTop, Zenon
<1>4. \A w \in Seq(S), t \in Seq(S), u \in Seq(S), r \in Seq(S) :
         Joins(t, u, r) => SameOnto(w, t, u, r)
  BY JoinedOnto, Zenon
<1>5. CASE op = "DUP"
  <2>1. Needs(op) = 1 /\ Arranged(op) = <<1, 0>> /\ Copied(op) = <<1>>
    BY <1>5 DEF Needs, Arranged, Copied, Hashes, Binaries
  <2>2. 1 \in 1..n
    BY <1>1, <2>1
  <2>3. Rearranged(op, s) = under(1) \o <<x(1), x(1)>>
    <3> DEFINE p == <<1, 1>>
    <3>1. TakesPlaces(op, p)
      BY <2>1 DEF Source, TakesPlaces
    <3>2. taken(<<1, 1>>) = <<x(1), x(1)>>
      <4>1. x(1) \in S
        BY <1>2, <2>2, Zenon
      <4> HIDE DEF x
      <4>2. [i \in 1..Len(<<1, 1>>) |-> x(<<1, 1>>[i])] = <<x(1), x(1)>>
        BY <4>1, SMTT(30)
      <4> QED
        BY <4>2 DEF x
    <3> HIDE DEF p
    <3>3. Rearranged(op, s) = under(Needs(op)) \o taken(p)
      BY <3>1, RearrangedByPlaces, Zenon
    <3> HIDE DEF under, taken, x
    <3> QED
      BY <2>1, <3>2, <3>3, Zenon DEF p
  <2>4. Documented(op, s) = s \o <<s[n]>>
    <3> HIDE DEF n
    <3> QED
      BY <1>5 DEF Documented, n, Hashes, Binaries
  <2>5. 1 <= n /\ n >= 1
    BY <1>1, <2>1
  <2>6. s = under(1) \o <<x(1)>>
    BY <2>5, NamedParts, Zenon
  <2> HIDE DEF n, x, under
  <2>7. under(1) \in Seq(S) /\ x(1) \in S
    BY <1>2, <2>2, Zenon
  <2>8. (under(1) \o <<x(1)>>) \o <<x(1)>> = under(1) \o <<x(1), x(1)>>
    <3> DEFINE t == <<x(1)>>
               u == <<x(1)>>
               r == <<x(1), x(1)>>
    <3>1. /\ t \in Seq(S) /\ u \in Seq(S) /\ r \in Seq(S)
          /\ Len(t) = 1 /\ Len(u) = 1 /\ Len(r) = 2
      BY <2>7
    <3>2. r[1] = t[1] /\ r[2] = u[1]
      OBVIOUS
    <3> HIDE DEF t, u, r
    <3>3. Joins(t, u, r)
      BY <3>1, <3>2 DEF Joins
    <3> DEFINE w == under(1)
    <3>4. w \in Seq(S) /\ t \in Seq(S) /\ u \in Seq(S) /\ r \in Seq(S)
      BY <2>7, <3>1, Zenon DEF w
    <3> HIDE DEF w
    <3>5. SameOnto(w, t, u, r)
      BY <1>4, <3>3, <3>4, Zenon
    <3> QED
      BY <3>5, Zenon DEF SameOnto, t, u, r, w
  <2> QED
    BY <1>3, <2>3, <2>4, <2>6, <2>8, Zenon
<1>6. CASE op = "NIP"
  <2>1. Needs(op) = 2 /\ Arranged(op) = <<1>> /\ Copied(op) = <<>>
    BY <1>6 DEF Needs, Arranged, Copied, Hashes, Binaries
  <2>2. 1 \in 1..n /\ 2 \in 1..n
    BY <1>1, <2>1
  <2>3. Rearranged(op, s) = under(2) \o <<x(1)>>
    <3> DEFINE p == <<1>>
    <3>1. TakesPlaces(op, p)
      BY <2>1 DEF Source, TakesPlaces
    <3>2. taken(<<1>>) = <<x(1)>>
      <4>1. x(1) \in S
        BY <1>2, <2>2, Zenon
      <4> HIDE DEF x
      <4>2. [i \in 1..Len(<<1>>) |-> x(<<1>>[i])] = <<x(1)>>
        BY <4>1, SMTT(30)
      <4> QED
        BY <4>2 DEF x
    <3> HIDE DEF p
    <3>3. Rearranged(op, s) = under(Needs(op)) \o taken(p)
      BY <3>1, RearrangedByPlaces, Zenon
    <3> HIDE DEF under, taken, x
    <3> QED
      BY <2>1, <3>2, <3>3, Zenon DEF p
  <2>4. Documented(op, s) = under(2) \o <<s[n]>>
    <3> HIDE DEF n
    <3> QED
      BY <1>6 DEF Documented, n, Hashes, Binaries
  <2> HIDE DEF n, x, under
  <2> QED
    BY <1>3, <2>3, <2>4, Zenon
<1>7. CASE op = "OVER"
  <2>1. Needs(op) = 2 /\ Arranged(op) = <<2, 1, 0>> /\ Copied(op) = <<2>>
    BY <1>7 DEF Needs, Arranged, Copied, Hashes, Binaries
  <2>2. 1 \in 1..n /\ 2 \in 1..n
    BY <1>1, <2>1
  <2>3. Rearranged(op, s) = under(2) \o <<x(2), x(1), x(2)>>
    <3> DEFINE p == <<2, 1, 2>>
    <3>1. TakesPlaces(op, p)
      BY <2>1 DEF Source, TakesPlaces
    <3>2. taken(<<2, 1, 2>>) = <<x(2), x(1), x(2)>>
      <4>1. x(1) \in S /\ x(2) \in S
        BY <1>2, <2>2, Zenon
      <4> HIDE DEF x
      <4>2. [i \in 1..Len(<<2, 1, 2>>) |-> x(<<2, 1, 2>>[i])] = <<x(2), x(1), x(2)>>
        BY <4>1, SMTT(30)
      <4> QED
        BY <4>2 DEF x
    <3> HIDE DEF p
    <3>3. Rearranged(op, s) = under(Needs(op)) \o taken(p)
      BY <3>1, RearrangedByPlaces, Zenon
    <3> HIDE DEF under, taken, x
    <3> QED
      BY <2>1, <3>2, <3>3, Zenon DEF p
  <2>4. Documented(op, s) = s \o <<s[n - 1]>>
    <3> HIDE DEF n
    <3> QED
      BY <1>7 DEF Documented, n, Hashes, Binaries
  <2>5. 2 <= n /\ n >= 2
    BY <1>1, <2>1
  <2>6. s = under(2) \o <<x(2), x(1)>>
    BY <2>5, NamedParts, Zenon
  <2> HIDE DEF n, x, under
  <2>7. under(2) \in Seq(S) /\ x(1) \in S /\ x(2) \in S
    BY <1>2, <2>2, Zenon
  <2>8. (under(2) \o <<x(2), x(1)>>) \o <<x(2)>> = under(2) \o <<x(2), x(1), x(2)>>
    <3> DEFINE t == <<x(2), x(1)>>
               u == <<x(2)>>
               r == <<x(2), x(1), x(2)>>
    <3>1. /\ t \in Seq(S) /\ u \in Seq(S) /\ r \in Seq(S)
          /\ Len(t) = 2 /\ Len(u) = 1 /\ Len(r) = 3
      BY <2>7
    <3>2. r[1] = t[1] /\ r[2] = t[2] /\ r[3] = u[1]
      OBVIOUS
    <3> HIDE DEF t, u, r
    <3>3. Joins(t, u, r)
      BY <3>1, <3>2 DEF Joins
    <3> DEFINE w == under(2)
    <3>4. w \in Seq(S) /\ t \in Seq(S) /\ u \in Seq(S) /\ r \in Seq(S)
      BY <2>7, <3>1, Zenon DEF w
    <3> HIDE DEF w
    <3>5. SameOnto(w, t, u, r)
      BY <1>4, <3>3, <3>4, Zenon
    <3> QED
      BY <3>5, Zenon DEF SameOnto, t, u, r, w
  <2> QED
    BY <1>3, <2>3, <2>4, <2>6, <2>8, Zenon
<1>8. CASE op = "ROT"
  <2>1. Needs(op) = 3 /\ Arranged(op) = <<2, 1, 3>> /\ Copied(op) = <<>>
    BY <1>8 DEF Needs, Arranged, Copied, Hashes, Binaries
  <2>2. 1 \in 1..n /\ 2 \in 1..n /\ 3 \in 1..n
    BY <1>1, <2>1
  <2>3. Rearranged(op, s) = under(3) \o <<x(2), x(1), x(3)>>
    <3> DEFINE p == <<2, 1, 3>>
    <3>1. TakesPlaces(op, p)
      BY <2>1 DEF Source, TakesPlaces
    <3>2. taken(<<2, 1, 3>>) = <<x(2), x(1), x(3)>>
      <4>1. x(1) \in S /\ x(2) \in S /\ x(3) \in S
        BY <1>2, <2>2, Zenon
      <4> HIDE DEF x
      <4>2. [i \in 1..Len(<<2, 1, 3>>) |-> x(<<2, 1, 3>>[i])] = <<x(2), x(1), x(3)>>
        BY <4>1, SMTT(30)
      <4> QED
        BY <4>2 DEF x
    <3> HIDE DEF p
    <3>3. Rearranged(op, s) = under(Needs(op)) \o taken(p)
      BY <3>1, RearrangedByPlaces, Zenon
    <3> HIDE DEF under, taken, x
    <3> QED
      BY <2>1, <3>2, <3>3, Zenon DEF p
  <2>4. Documented(op, s) = under(3) \o <<s[n - 1], s[n], s[n - 2]>>
    <3> HIDE DEF n
    <3> QED
      BY <1>8 DEF Documented, n, Hashes, Binaries
  <2> HIDE DEF n, x, under
  <2> QED
    BY <1>3, <2>3, <2>4, Zenon
<1>9. CASE op = "SWAP"
  <2>1. Needs(op) = 2 /\ Arranged(op) = <<1, 2>> /\ Copied(op) = <<>>
    BY <1>9 DEF Needs, Arranged, Copied, Hashes, Binaries
  <2>2. 1 \in 1..n /\ 2 \in 1..n
    BY <1>1, <2>1
  <2>3. Rearranged(op, s) = under(2) \o <<x(1), x(2)>>
    <3> DEFINE p == <<1, 2>>
    <3>1. TakesPlaces(op, p)
      BY <2>1 DEF Source, TakesPlaces
    <3>2. taken(<<1, 2>>) = <<x(1), x(2)>>
      <4>1. x(1) \in S /\ x(2) \in S
        BY <1>2, <2>2, Zenon
      <4> HIDE DEF x
      <4>2. [i \in 1..Len(<<1, 2>>) |-> x(<<1, 2>>[i])] = <<x(1), x(2)>>
        BY <4>1, SMTT(30)
      <4> QED
        BY <4>2 DEF x
    <3> HIDE DEF p
    <3>3. Rearranged(op, s) = under(Needs(op)) \o taken(p)
      BY <3>1, RearrangedByPlaces, Zenon
    <3> HIDE DEF under, taken, x
    <3> QED
      BY <2>1, <3>2, <3>3, Zenon DEF p
  <2>4. Documented(op, s) = under(2) \o <<s[n], s[n - 1]>>
    <3> HIDE DEF n
    <3> QED
      BY <1>9 DEF Documented, n, Hashes, Binaries
  <2> HIDE DEF n, x, under
  <2> QED
    BY <1>3, <2>3, <2>4, Zenon
<1>10. CASE op = "TUCK"
  <2>1. Needs(op) = 2 /\ Arranged(op) = <<0, 2, 1>> /\ Copied(op) = <<1>>
    BY <1>10 DEF Needs, Arranged, Copied, Hashes, Binaries
  <2>2. 1 \in 1..n /\ 2 \in 1..n
    BY <1>1, <2>1
  <2>3. Rearranged(op, s) = under(2) \o <<x(1), x(2), x(1)>>
    <3> DEFINE p == <<1, 2, 1>>
    <3>1. TakesPlaces(op, p)
      BY <2>1 DEF Source, TakesPlaces
    <3>2. taken(<<1, 2, 1>>) = <<x(1), x(2), x(1)>>
      <4>1. x(1) \in S /\ x(2) \in S
        BY <1>2, <2>2, Zenon
      <4> HIDE DEF x
      <4>2. [i \in 1..Len(<<1, 2, 1>>) |-> x(<<1, 2, 1>>[i])] = <<x(1), x(2), x(1)>>
        BY <4>1, SMTT(30)
      <4> QED
        BY <4>2 DEF x
    <3> HIDE DEF p
    <3>3. Rearranged(op, s) = under(Needs(op)) \o taken(p)
      BY <3>1, RearrangedByPlaces, Zenon
    <3> HIDE DEF under, taken, x
    <3> QED
      BY <2>1, <3>2, <3>3, Zenon DEF p
  <2>4. Documented(op, s) = under(2) \o <<s[n], s[n - 1], s[n]>>
    <3> HIDE DEF n
    <3> QED
      BY <1>10 DEF Documented, n, Hashes, Binaries
  <2> HIDE DEF n, x, under
  <2> QED
    BY <1>3, <2>3, <2>4, Zenon
<1>11. CASE op = "2DUP"
  <2>1. Needs(op) = 2 /\ Arranged(op) = <<2, 1, 0, -1>> /\ Copied(op) = <<2, 1>>
    BY <1>11 DEF Needs, Arranged, Copied, Hashes, Binaries
  <2>2. 1 \in 1..n /\ 2 \in 1..n
    BY <1>1, <2>1
  <2>3. Rearranged(op, s) = under(2) \o <<x(2), x(1), x(2), x(1)>>
    <3> DEFINE p == <<2, 1, 2, 1>>
    <3>1. TakesPlaces(op, p)
      BY <2>1 DEF Source, TakesPlaces
    <3>2. taken(<<2, 1, 2, 1>>) = <<x(2), x(1), x(2), x(1)>>
      <4>1. x(1) \in S /\ x(2) \in S
        BY <1>2, <2>2, Zenon
      <4> HIDE DEF x
      <4>2. [i \in 1..Len(<<2, 1, 2, 1>>) |-> x(<<2, 1, 2, 1>>[i])] = <<x(2), x(1), x(2), x(1)>>
        BY <4>1, SMTT(30)
      <4> QED
        BY <4>2 DEF x
    <3> HIDE DEF p
    <3>3. Rearranged(op, s) = under(Needs(op)) \o taken(p)
      BY <3>1, RearrangedByPlaces, Zenon
    <3> HIDE DEF under, taken, x
    <3> QED
      BY <2>1, <3>2, <3>3, Zenon DEF p
  <2>4. Documented(op, s) = s \o SubSeq(s, n - 1, n)
    <3> HIDE DEF n
    <3> QED
      BY <1>11 DEF Documented, n, Hashes, Binaries
  <2>5. 2 <= n /\ n >= 2
    BY <1>1, <2>1
  <2>6. s = under(2) \o <<x(2), x(1)>> /\ SubSeq(s, n - 1, n) = <<x(2), x(1)>>
    BY <2>5, NamedParts, Zenon
  <2> HIDE DEF n, x, under
  <2>7. under(2) \in Seq(S) /\ x(1) \in S /\ x(2) \in S
    BY <1>2, <2>2, Zenon
  <2>8. (under(2) \o <<x(2), x(1)>>) \o <<x(2), x(1)>> = under(2) \o <<x(2), x(1), x(2), x(1)>>
    <3> DEFINE t == <<x(2), x(1)>>
               u == <<x(2), x(1)>>
               r == <<x(2), x(1), x(2), x(1)>>
    <3>1. /\ t \in Seq(S) /\ u \in Seq(S) /\ r \in Seq(S)
          /\ Len(t) = 2 /\ Len(u) = 2 /\ Len(r) = 4
      BY <2>7
    <3>2. r[1] = t[1] /\ r[2] = t[2] /\ r[3] = u[1] /\ r[4] = u[2]
      OBVIOUS
    <3> HIDE DEF t, u, r
    <3>3. Joins(t, u, r)
      BY <3>1, <3>2 DEF Joins
    <3> DEFINE w == under(2)
    <3>4. w \in Seq(S) /\ t \in Seq(S) /\ u \in Seq(S) /\ r \in Seq(S)
      BY <2>7, <3>1, Zenon DEF w
    <3> HIDE DEF w
    <3>5. SameOnto(w, t, u, r)
      BY <1>4, <3>3, <3>4, Zenon
    <3> QED
      BY <3>5, Zenon DEF SameOnto, t, u, r, w
  <2> QED
    BY <1>3, <2>3, <2>4, <2>6, <2>8, Zenon
<1>12. CASE op = "3DUP"
  <2>1. Needs(op) = 3 /\ Arranged(op) = <<3, 2, 1, 0, -1, -2>> /\ Copied(op) = <<3, 2, 1>>
    BY <1>12 DEF Needs, Arranged, Copied, Hashes, Binaries
  <2>2. 1 \in 1..n /\ 2 \in 1..n /\ 3 \in 1..n
    BY <1>1, <2>1
  <2>3. Rearranged(op, s) = under(3) \o <<x(3), x(2), x(1), x(3), x(2), x(1)>>
    <3> DEFINE p == <<3, 2, 1, 3, 2, 1>>
    <3>1. TakesPlaces(op, p)
      BY <2>1 DEF Source, TakesPlaces
    <3>2. taken(<<3, 2, 1, 3, 2, 1>>) = <<x(3), x(2), x(1), x(3), x(2), x(1)>>
      <4>1. x(1) \in S /\ x(2) \in S /\ x(3) \in S
        BY <1>2, <2>2, Zenon
      <4> HIDE DEF x
      <4>2. [i \in 1..Len(<<3, 2, 1, 3, 2, 1>>) |-> x(<<3, 2, 1, 3, 2, 1>>[i])] = <<x(3), x(2), x(1), x(3), x(2), x(1)>>
        BY <4>1, SMTT(30)
      <4> QED
        BY <4>2 DEF x
    <3> HIDE DEF p
    <3>3. Rearranged(op, s) = under(Needs(op)) \o taken(p)
      BY <3>1, RearrangedByPlaces, Zenon
    <3> HIDE DEF under, taken, x
    <3> QED
      BY <2>1, <3>2, <3>3, Zenon DEF p
  <2>4. Documented(op, s) = s \o SubSeq(s, n - 2, n)
    <3> HIDE DEF n
    <3> QED
      BY <1>12 DEF Documented, n, Hashes, Binaries
  <2>5. 3 <= n /\ n >= 3
    BY <1>1, <2>1
  <2>6. s = under(3) \o <<x(3), x(2), x(1)>> /\ SubSeq(s, n - 2, n) = <<x(3), x(2), x(1)>>
    BY <2>5, NamedParts, Zenon
  <2> HIDE DEF n, x, under
  <2>7. under(3) \in Seq(S) /\ x(1) \in S /\ x(2) \in S /\ x(3) \in S
    BY <1>2, <2>2, Zenon
  <2>8. (under(3) \o <<x(3), x(2), x(1)>>) \o <<x(3), x(2), x(1)>> = under(3) \o <<x(3), x(2), x(1), x(3), x(2), x(1)>>
    <3> DEFINE t == <<x(3), x(2), x(1)>>
               u == <<x(3), x(2), x(1)>>
               r == <<x(3), x(2), x(1), x(3), x(2), x(1)>>
    <3>1. /\ t \in Seq(S) /\ u \in Seq(S) /\ r \in Seq(S)
          /\ Len(t) = 3 /\ Len(u) = 3 /\ Len(r) = 6
      BY <2>7
    <3>2. r[1] = t[1] /\ r[2] = t[2] /\ r[3] = t[3] /\ r[4] = u[1] /\ r[5] = u[2] /\ r[6] = u[3]
      OBVIOUS
    <3> HIDE DEF t, u, r
    <3>3. Joins(t, u, r)
      BY <3>1, <3>2 DEF Joins
    <3> DEFINE w == under(3)
    <3>4. w \in Seq(S) /\ t \in Seq(S) /\ u \in Seq(S) /\ r \in Seq(S)
      BY <2>7, <3>1, Zenon DEF w
    <3> HIDE DEF w
    <3>5. SameOnto(w, t, u, r)
      BY <1>4, <3>3, <3>4, Zenon
    <3> QED
      BY <3>5, Zenon DEF SameOnto, t, u, r, w
  <2> QED
    BY <1>3, <2>3, <2>4, <2>6, <2>8, Zenon
<1>13. CASE op = "2ROT"
  <2>1. Needs(op) = 6 /\ Arranged(op) = <<4, 3, 2, 1, 6, 5>> /\ Copied(op) = <<>>
    BY <1>13 DEF Needs, Arranged, Copied, Hashes, Binaries
  <2>2. 1 \in 1..n /\ 2 \in 1..n /\ 3 \in 1..n /\ 4 \in 1..n /\ 5 \in 1..n /\ 6 \in 1..n
    BY <1>1, <2>1
  <2>3. Rearranged(op, s) = under(6) \o <<x(4), x(3), x(2), x(1), x(6), x(5)>>
    <3> DEFINE p == <<4, 3, 2, 1, 6, 5>>
    <3>1. TakesPlaces(op, p)
      BY <2>1 DEF Source, TakesPlaces
    <3>2. taken(<<4, 3, 2, 1, 6, 5>>) = <<x(4), x(3), x(2), x(1), x(6), x(5)>>
      <4>1. x(1) \in S /\ x(2) \in S /\ x(3) \in S /\ x(4) \in S /\ x(5) \in S /\ x(6) \in S
        BY <1>2, <2>2, Zenon
      <4> HIDE DEF x
      <4>2. [i \in 1..Len(<<4, 3, 2, 1, 6, 5>>) |-> x(<<4, 3, 2, 1, 6, 5>>[i])] = <<x(4), x(3), x(2), x(1), x(6), x(5)>>
        BY <4>1, SMTT(30)
      <4> QED
        BY <4>2 DEF x
    <3> HIDE DEF p
    <3>3. Rearranged(op, s) = under(Needs(op)) \o taken(p)
      BY <3>1, RearrangedByPlaces, Zenon
    <3> HIDE DEF under, taken, x
    <3> QED
      BY <2>1, <3>2, <3>3, Zenon DEF p
  <2>4. Documented(op, s) = (under(6) \o SubSeq(s, n - 3, n)) \o SubSeq(s, n - 5, n - 4)
    <3> HIDE DEF n
    <3> QED
      BY <1>13 DEF Documented, n, Hashes, Binaries
  <2>5. 6 <= n /\ n >= 6 /\ n >= 4 /\ n >= 2
    BY <1>1, <2>1
  <2>6. SubSeq(s, n - 3, n) = <<x(4), x(3), x(2), x(1)>> /\ SubSeq(s, n - 5, n - 4) = <<x(6), x(5)>>
    BY <2>5, NamedParts, Zenon
  <2> HIDE DEF n, x, under
  <2>7. under(6) \in Seq(S) /\ x(1) \in S /\ x(2) \in S /\ x(3) \in S /\ x(4) \in S /\ x(5) \in S /\ x(6) \in S
    BY <1>2, <2>2, Zenon
  <2>8. (under(6) \o <<x(4), x(3), x(2), x(1)>>) \o <<x(6), x(5)>> = under(6) \o <<x(4), x(3), x(2), x(1), x(6), x(5)>>
    <3> DEFINE t == <<x(4), x(3), x(2), x(1)>>
               u == <<x(6), x(5)>>
               r == <<x(4), x(3), x(2), x(1), x(6), x(5)>>
    <3>1. /\ t \in Seq(S) /\ u \in Seq(S) /\ r \in Seq(S)
          /\ Len(t) = 4 /\ Len(u) = 2 /\ Len(r) = 6
      BY <2>7
    <3>2. r[1] = t[1] /\ r[2] = t[2] /\ r[3] = t[3] /\ r[4] = t[4] /\ r[5] = u[1] /\ r[6] = u[2]
      OBVIOUS
    <3> HIDE DEF t, u, r
    <3>3. Joins(t, u, r)
      BY <3>1, <3>2 DEF Joins
    <3> DEFINE w == under(6)
    <3>4. w \in Seq(S) /\ t \in Seq(S) /\ u \in Seq(S) /\ r \in Seq(S)
      BY <2>7, <3>1, Zenon DEF w
    <3> HIDE DEF w
    <3>5. SameOnto(w, t, u, r)
      BY <1>4, <3>3, <3>4, Zenon
    <3> QED
      BY <3>5, Zenon DEF SameOnto, t, u, r, w
  <2> QED
    BY <1>3, <2>3, <2>4, <2>6, <2>8, Zenon
<1>14. CASE op = "2SWAP"
  <2>1. Needs(op) = 4 /\ Arranged(op) = <<2, 1, 4, 3>> /\ Copied(op) = <<>>
    BY <1>14 DEF Needs, Arranged, Copied, Hashes, Binaries
  <2>2. 1 \in 1..n /\ 2 \in 1..n /\ 3 \in 1..n /\ 4 \in 1..n
    BY <1>1, <2>1
  <2>3. Rearranged(op, s) = under(4) \o <<x(2), x(1), x(4), x(3)>>
    <3> DEFINE p == <<2, 1, 4, 3>>
    <3>1. TakesPlaces(op, p)
      BY <2>1 DEF Source, TakesPlaces
    <3>2. taken(<<2, 1, 4, 3>>) = <<x(2), x(1), x(4), x(3)>>
      <4>1. x(1) \in S /\ x(2) \in S /\ x(3) \in S /\ x(4) \in S
        BY <1>2, <2>2, Zenon
      <4> HIDE DEF x
      <4>2. [i \in 1..Len(<<2, 1, 4, 3>>) |-> x(<<2, 1, 4, 3>>[i])] = <<x(2), x(1), x(4), x(3)>>
        BY <4>1, SMTT(30)
      <4> QED
        BY <4>2 DEF x
    <3> HIDE DEF p
    <3>3. Rearranged(op, s) = under(Needs(op)) \o taken(p)
      BY <3>1, RearrangedByPlaces, Zenon
    <3> HIDE DEF under, taken, x
    <3> QED
      BY <2>1, <3>2, <3>3, Zenon DEF p
  <2>4. Documented(op, s) = (under(4) \o SubSeq(s, n - 1, n)) \o SubSeq(s, n - 3, n - 2)
    <3> HIDE DEF n
    <3> QED
      BY <1>14 DEF Documented, n, Hashes, Binaries
  <2>5. 4 <= n /\ n >= 4 /\ n >= 4 /\ n >= 2
    BY <1>1, <2>1
  <2>6. SubSeq(s, n - 1, n) = <<x(2), x(1)>> /\ SubSeq(s, n - 3, n - 2) = <<x(4), x(3)>>
    BY <2>5, NamedParts, Zenon
  <2> HIDE DEF n, x, under
  <2>7. under(4) \in Seq(S) /\ x(1) \in S /\ x(2) \in S /\ x(3) \in S /\ x(4) \in S
    BY <1>2, <2>2, Zenon
  <2>8. (under(4) \o <<x(2), x(1)>>) \o <<x(4), x(3)>> = under(4) \o <<x(2), x(1), x(4), x(3)>>
    <3> DEFINE t == <<x(2), x(1)>>
               u == <<x(4), x(3)>>
               r == <<x(2), x(1), x(4), x(3)>>
    <3>1. /\ t \in Seq(S) /\ u \in Seq(S) /\ r \in Seq(S)
          /\ Len(t) = 2 /\ Len(u) = 2 /\ Len(r) = 4
      BY <2>7
    <3>2. r[1] = t[1] /\ r[2] = t[2] /\ r[3] = u[1] /\ r[4] = u[2]
      OBVIOUS
    <3> HIDE DEF t, u, r
    <3>3. Joins(t, u, r)
      BY <3>1, <3>2 DEF Joins
    <3> DEFINE w == under(4)
    <3>4. w \in Seq(S) /\ t \in Seq(S) /\ u \in Seq(S) /\ r \in Seq(S)
      BY <2>7, <3>1, Zenon DEF w
    <3> HIDE DEF w
    <3>5. SameOnto(w, t, u, r)
      BY <1>4, <3>3, <3>4, Zenon
    <3> QED
      BY <3>5, Zenon DEF SameOnto, t, u, r, w
  <2> QED
    BY <1>3, <2>3, <2>4, <2>6, <2>8, Zenon
<1>15. CASE op = "2DROP"
  <2>1. Needs(op) = 2 /\ Arranged(op) = <<>>
    BY <1>15 DEF Needs, Arranged, Hashes, Binaries
  <2>2. Documented(op, s) = under(2)
    <3> HIDE DEF n
    <3> QED
      BY <1>15 DEF Documented, n, Hashes, Binaries
  <2>3. 2 \in 1..n
    BY <1>1, <2>1
  <2>4. Rearranged(op, s) = under(2) \o <<>>
    <3> DEFINE t == [i \in 1..Len(Arranged(op)) |-> s[n - Source(op, i) + 1]]
    <3>1. t = <<>>
      BY <2>1
    <3>2. Rearranged(op, s) = under(2) \o t
      BY <2>1 DEF Rearranged
    <3> HIDE DEF t, under, n
    <3> QED
      BY <3>1, <3>2
  <2> HIDE DEF n, under
  <2>5. under(2) \in Seq(S)
    BY <1>2, <2>3
  <2> QED
    BY <2>2, <2>4, <2>5, ConcatEmptySeq, Zenon
<1> QED
  BY <1>5, <1>6, <1>7, <1>8, <1>9, <1>10, <1>11, <1>12, <1>13, <1>14, <1>15 DEF Shuffles

------------------------------------------------------------------------------
(* The operations that compute a value.                                      *)

\* The values of the two elements at the top.
LEMMA BeforeEnds ==
  ASSUME Owned, Len(stack) >= 1
  PROVE  /\ Before[Len(Before)] = Value(1) /\ Before[Len(Before) - 1 + 1] = Value(1)
         /\ Len(stack) >= 2 => Before[Len(Before) - 2 + 1] = Value(2)
<1>1. /\ Len(Before) = Len(stack) /\ Len(stack) \in Nat
      /\ \A i \in 1..Len(stack) : Before[Len(Before) - i + 1] = Value(i)
  BY BeforeTop
<1>2. 1 \in 1..Len(stack) /\ Len(Before) - 1 + 1 = Len(Before)
  BY <1>1
<1>3. Before[Len(Before) - 1 + 1] = Value(1)
  BY <1>1, <1>2
<1>4. Len(stack) >= 2 => 2 \in 1..Len(stack)
  BY <1>1
<1> QED
  BY <1>1, <1>2, <1>3, <1>4

\* The value of an element that takes the place of the top k.
LEMMA PutsValue ==
  ASSUME Owned, NEW k \in 0..Len(stack), NEW m, Keeps(k, m), NEW e, Holds(m, e),
         Continue(Append(Under(k), e), alt, m)
  PROVE  Values(stack', mem') = SubSeq(Before, 1, Len(Before) - k) \o <<Bytes(m, e)>>
<1>1. Values(Append(Under(k), e), m) = SubSeq(Before, 1, Len(Before) - k) \o <<Bytes(m, e)>>
  BY ValueOnTop DEF Keeps, Holds
<1>2. stack' = Append(Under(k), e) /\ mem' = m
  BY DEF Continue
<1>3. Values(stack', mem') = Values(Append(Under(k), e), m)
  BY <1>2 DEF Values
<1> QED
  BY <1>1, <1>3

\* OP_PICK leaves a copy of the element its number names.
LEMMA PickFollows ==
  ASSUME Owned, Room, Len(stack) >= Needs("PICK"), PickOrRoll("PICK"), status' = "running",
         ToInt(Value(1)) < 256
  PROVE  Values(stack', mem') = Documented("PICK", Before)
<1> DEFINE n == ToInt(Value(1))
           c == NewIn(mem, Value(n + 2))
           d == NewIn(mem, Value((n % 256) + 2))
<1>1. Len(stack) \in Nat /\ Len(stack) >= 2 /\ Len(stack) >= 1 /\ Keeps(1, mem) /\ Spare(mem) /\ mem \in Memory
  <2>1. Needs("PICK") = 2
    BY DEF Needs, Hashes, Binaries
  <2> QED
    BY <2>1, StackTypes, RoomSpares
<1>2. n \in 0..Len(stack) - 2 /\ Continue(Append(Under(1), c.elem), alt, c.mem)
  <2>1. ~Stop("bad")
    BY DEF Stop
  <2>2. n \in 0..Len(stack) - 2 /\ Continue(Append(Under(1), d.elem), alt, d.mem) /\ n < 256
    BY <2>1, Zenon DEF PickOrRoll
  <2> HIDE DEF n
  <2>3. n % 256 = n
    BY <1>1, <2>2, ByteOfDepth
  <2>4. c = d
    BY <2>3
  <2> HIDE DEF c, d
  <2> QED
    BY <2>2, <2>4
<1>3. Documented("PICK", Before)
        = SubSeq(Before, 1, Len(Before) - 1)
            \o <<Before[Len(Before) - 1 - ToInt(Before[Len(Before) - 1 + 1])]>>
  BY DEF Documented, Hashes, Binaries
<1>4. Before[Len(Before) - 1 + 1] = Value(1)
  BY <1>1, BeforeEnds
<1> HIDE DEF n
<1>5. n + 2 \in 1..Len(stack) /\ 1 \in 0..Len(stack)
  BY <1>1, <1>2
<1>6. Before[Len(Before) - 1 - n] = Value(n + 2)
  <2>1. /\ Len(Before) = Len(stack)
        /\ Before[Len(Before) - (n + 2) + 1] = Value(n + 2)
    BY <1>5, BeforeTop
  <2>2. Len(Before) - (n + 2) + 1 = Len(Before) - 1 - n
    BY <1>1, <1>2, <2>1
  <2> QED
    BY <2>1, <2>2
<1>7. Value(n + 2) \in Seq(Byte)
  BY <1>5, TopHolds
<1>8. Keeps(1, c.mem) /\ Holds(c.mem, c.elem) /\ Bytes(c.mem, c.elem) = Value(n + 2)
  BY <1>1, <1>5, <1>7, NewKeeps, NewInOwn
<1> HIDE DEF c
<1>9. Values(stack', mem') = SubSeq(Before, 1, Len(Before) - 1) \o <<Bytes(c.mem, c.elem)>>
  BY <1>2, <1>5, <1>8, PutsValue
<1> QED
  BY <1>3, <1>4, <1>6, <1>8, <1>9, Zenon DEF n

\* The hashes leave the digest of the element at the top.
LEMMA HashFollows ==
  ASSUME Owned, Room, NEW op \in Hashes, Len(stack) >= Needs(op), Hash(op)
  PROVE  Values(stack', mem') = Documented(op, Before)
<1> DEFINE d == Digest(op, Value(1))
           n == NewIn(mem, d)
           w == FreeIn(n.mem, Top(1))
<1>1. /\ Keeps(1, mem) /\ Spare(mem) /\ mem \in Memory
      /\ 1 \in 0..Len(stack) /\ 1 \in 1..Len(stack) /\ 1 \in 1..1 /\ Len(stack) >= 1
  BY StackTypes, RoomSpares DEF Needs, Hashes
<1>2. d \in Seq(Byte) /\ Top(1) \in Elem /\ Holds(mem, Top(1))
  BY <1>1, TopHolds, DigestIsBytes
<1>3. Continue(Append(Under(1), n.elem), alt, w)
  BY Zenon DEF Hash
<1>4. Documented(op, Before) = SubSeq(Before, 1, Len(Before) - 1) \o <<Digest(op, Before[Len(Before)])>>
  BY DEF Documented, Hashes, Binaries
<1>5. Documented(op, Before) = SubSeq(Before, 1, Len(Before) - 1) \o <<d>>
  BY <1>1, <1>4, BeforeEnds
<1> HIDE DEF d
<1>6. Keeps(1, n.mem) /\ Holds(n.mem, n.elem)
  BY <1>1, <1>2, NewKeeps
<1>7. Bytes(n.mem, n.elem) = d /\ (n.elem.at # 0 => mem[n.elem.at] = <<>>)
  BY <1>1, <1>2, NewInOwn
<1> HIDE DEF n
<1>8. Keeps(1, w)
  BY <1>1, <1>6, FreeKeeps
<1>9. Holds(w, n.elem) /\ Bytes(w, n.elem) = d
  <2>1. CASE n.elem.at = 0
    BY <1>6, <1>7, <2>1 DEF Holds, Bytes
  <2>2. CASE n.elem.at # 0
    <3>1. n.elem.at \in 1..MaxAt /\ n.elem.at # Top(1).at
      BY <1>2, <1>6, <1>7, <2>2, ScriptAssumption DEF Holds, Elem
    <3>2. w[n.elem.at] = n.mem[n.elem.at]
      BY <1>2, <1>6, <3>1, FreeInKeeps DEF Keeps
    <3> QED
      BY <1>6, <1>7, <2>2, <3>2 DEF Holds, Bytes
  <2> QED
    BY <2>1, <2>2
<1> HIDE DEF w
<1>10. Values(stack', mem') = SubSeq(Before, 1, Len(Before) - 1) \o <<Bytes(w, n.elem)>>
  BY <1>1, <1>3, <1>8, <1>9, PutsValue
<1> QED
  BY <1>5, <1>9, <1>10, Zenon

\* The numeric operations with two operands leave their result, or nothing.
LEMMA BinaryFollows ==
  ASSUME Owned, Room, NEW op \in Binaries, Len(stack) >= Needs(op), Binary(op), status' = "running"
  PROVE  Values(stack', mem') = Documented(op, Before)
<1> DEFINE r == BinaryResult(op, ToInt(Value(2)), ToInt(Value(1)))
           m == FreeIn(mem, Top(1))
<1>1. /\ Keeps(2, mem) /\ Spare(mem) /\ Len(stack) >= 1 /\ Len(stack) >= 2
      /\ 2 \in 0..Len(stack) /\ 1 \in 1..Len(stack) /\ 2 \in 1..Len(stack)
      /\ 1 \in 1..2 /\ 2 \in 1..2
  BY StackTypes, RoomSpares DEF Needs, Binaries, Hashes
<1>2. r \in Int
  BY <1>1, TopHolds, ToIntIsInt, ResultIsInt
<1>3. Keeps(2, m) /\ Spare(m)
  BY <1>1, FreeKeeps
<1>4. ~Stop("bad") /\ ~Stop("assertion")
  BY DEF Stop
<1>5. CASE op = "NUMEQUALVERIFY"
  <2>1. Documented(op, Before) = SubSeq(Before, 1, Len(Before) - 2)
    BY <1>5 DEF Documented, Binaries, Hashes
  <2> DEFINE w == FreeIn(m, Top(2))
  <2>2. Continue(Under(2), alt, w)
    BY <1>4, <1>5, Zenon DEF Binary
  <2>3. Keeps(2, w)
    <3> HIDE DEF m
    <3> QED
      BY <1>1, <1>3, FreeKeeps
  <2> HIDE DEF w
  <2>4. Under(2) \o <<>> = Under(2) /\ Values(<<>>, w) = <<>> /\ <<>> \in Seq(Elem)
    <3>1. Under(2) \in Seq(Elem)
      BY <1>1, StackTypes DEF Under
    <3>2. Values(<<>>, w) = <<>>
      BY DEF Values
    <3> QED
      BY <3>1, <3>2
  <2>5. Values(Under(2) \o <<>>, w) = SubSeq(Before, 1, Len(Before) - 2) \o Values(<<>>, w)
    BY <1>1, <2>3, <2>4, ValuesRebuilt DEF Keeps
  <2>6. SubSeq(Before, 1, Len(Before) - 2) \in Seq(Seq(Byte))
    BY <1>1, BeforeTop
  <2>7. SubSeq(Before, 1, Len(Before) - 2) \o <<>> = SubSeq(Before, 1, Len(Before) - 2)
    BY <2>6
  <2>8. stack' = Under(2) /\ mem' = w
    BY <2>2 DEF Continue
  <2>9. Values(stack', mem') = Values(Under(2), w)
    BY <2>8 DEF Values
  <2> QED
    BY <2>1, <2>4, <2>5, <2>7, <2>9, Zenon
<1>6. CASE op # "NUMEQUALVERIFY"
  <2> DEFINE p == Placed(m, Top(2), FromInt(r))
  <2>1. Continue(Append(Under(2), p.elem), alt, p.mem)
    BY <1>4, <1>6, Zenon DEF Binary, PutNumber
  <2>2. Documented(op, Before)
          = SubSeq(Before, 1, Len(Before) - 2)
              \o <<FromInt(BinaryResult(op, ToInt(Before[Len(Before) - 2 + 1]), ToInt(Before[Len(Before) - 1 + 1])))>>
    BY <1>6 DEF Documented, Binaries, Hashes
  <2>3. Documented(op, Before) = SubSeq(Before, 1, Len(Before) - 2) \o <<FromInt(r)>>
    <3>1. Before[Len(Before) - 2 + 1] = Value(2) /\ Before[Len(Before) - 1 + 1] = Value(1)
      BY <1>1, BeforeEnds
    <3> QED
      BY <2>2, <3>1, Zenon
  <2> HIDE DEF r
  <2>4. FromInt(r) \in Seq(Byte)
    BY <1>2, FromIntIsBytes
  <2>5. Top(2) \in Elem
    BY <1>1, TopHolds
  <2> HIDE DEF m
  <2>6. /\ p.mem \in Memory /\ Holds(p.mem, p.elem) /\ Bytes(p.mem, p.elem) = FromInt(r)
        /\ \A b : b \in 1..MaxAt /\ m[b] # <<>> /\ b # Top(2).at => p.mem[b] = m[b]
    BY <1>3, <2>4, <2>5, PlacedOwn DEF Keeps
  <2> HIDE DEF p
  <2>7. ASSUME NEW b, Below(stack, alt, Len(stack) - 2, b) PROVE p.mem[b] = mem[b]
    <3>1. b \in 1..MaxAt /\ mem[b] # <<>> /\ b # 0 /\ Top(2).at # b
      BY <1>1, <2>7, Apart DEF Below
    <3>2. m[b] = mem[b]
      BY <1>3, <2>7 DEF Keeps
    <3> QED
      BY <2>6, <3>1, <3>2
  <2>8. Keeps(2, p.mem)
    BY <2>6, <2>7 DEF Keeps
  <2>9. Values(stack', mem') = SubSeq(Before, 1, Len(Before) - 2) \o <<Bytes(p.mem, p.elem)>>
    BY <1>1, <2>1, <2>6, <2>8, PutsValue
  <2> QED
    BY <2>3, <2>6, <2>9, Zenon
<1> QED
  BY <1>5, <1>6

\* What is said of an operation that was executed.
Computed == (Shuffles \ {"DROP", "2OVER"}) \cup {"PICK"} \cup Binaries \cup Hashes

\* Each of them is one of the operations on elements.
LEMMA ComputedData ==
  ASSUME NEW op \in Computed, NEW v, Data(op, v), status' = "running"
  PROVE  \/ op \in Shuffles \ {"DROP", "2OVER"} /\ Shuffle(op)
         \/ op = "PICK" /\ PickOrRoll(op)
         \/ op \in Binaries /\ Binary(op)
         \/ op \in Hashes /\ Hash(op)
<1>1. ~Stop("error") /\ ~Stop("undefined") /\ ~Stop("bad")
  BY DEF Stop
<1>2. /\ op \notin {"short", "PUSH", "TOALTSTACK", "FROMALTSTACK", "VERIFY", "IFDUP", "DEPTH", "SIZE"}
      /\ op \notin {"RETURN", "RESERVED", "unknown"} /\ op \notin {"NOP", "CODESEPARATOR"}
      /\ op \notin {"EQUAL", "EQUALVERIFY"} /\ op \notin {"1ADD", "1SUB", "NOT", "0NOTEQUAL"}
      /\ op \notin {"NEGATE", "ABS"} /\ op \notin {"BOOLAND", "BOOLOR", "WITHIN"}
      /\ op \notin {"CHECKSIG", "CHECKSIGVERIFY"}
      /\ op \notin {"CHECKMULTISIG", "CHECKMULTISIGVERIFY"}
  BY DEF Computed, Shuffles, Binaries, Hashes
<1>3. ~Push(op, v) /\ ~AltStack(op) /\ ~Simple(op) /\ ~Equal(op) /\ ~Unary(op) /\ ~InPlace(op)
  BY <1>2 DEF Push, AltStack, Simple, Equal, Unary, InPlace
<1>4. ~Logical(op) /\ ~CheckSig(op) /\ ~CheckMultisig(op)
  BY <1>2, Zenon DEF Logical, CheckSig, CheckMultisig
<1>5. ~NoMemory(op)
  BY <1>1, Zenon DEF NoMemory
<1>6. Shuffle(op) \/ PickOrRoll(op) \/ Binary(op) \/ Hash(op)
  BY <1>3, <1>4, <1>5, Zenon DEF Data
<1>7. CASE Shuffle(op)
  <2>1. op \in Shuffles
    BY <1>7, Zenon DEF Shuffle
  <2>2. op \notin {"DROP", "2OVER"}
    BY DEF Computed, Shuffles, Binaries, Hashes
  <2> QED
    BY <1>7, <2>1, <2>2
<1>8. CASE PickOrRoll(op)
  <2>1. op \in {"PICK", "ROLL"}
    BY <1>8, Zenon DEF PickOrRoll
  <2>2. op # "ROLL"
    BY DEF Computed, Shuffles, Binaries, Hashes
  <2> QED
    BY <1>8, <2>1, <2>2
<1>9. CASE Binary(op)
  BY <1>9, Zenon DEF Binary
<1>10. CASE Hash(op)
  BY <1>10, Zenon DEF Hash
<1> QED
  BY <1>6, <1>7, <1>8, <1>9, <1>10

\* They leave the values that the comments describe.
LEMMA DataFollows ==
  ASSUME Owned, Room, NEW op \in Computed, NEW v, Len(stack) >= Needs(op), Data(op, v),
         status' = "running", op = "PICK" => ToInt(Value(1)) < 256
  PROVE  Values(stack', mem') = Documented(op, Before)
<1>1. CASE op \in Shuffles \ {"DROP", "2OVER"} /\ Shuffle(op)
  <2>1. Values(stack', mem') = Rearranged(op, Before)
    BY <1>1, ShuffleLeaves
  <2>2. Before \in Seq(Seq(Byte)) /\ Len(Before) >= Needs(op)
    BY BeforeTop
  <2>3. Documented(op, Before) = Rearranged(op, Before)
    BY <1>1, <2>2, ShufflesDocumented
  <2> QED
    BY <2>1, <2>3
<1>2. CASE op = "PICK" /\ PickOrRoll(op)
  BY <1>2, PickFollows
<1>3. CASE op \in Binaries /\ Binary(op)
  BY <1>3, BinaryFollows
<1>4. CASE op \in Hashes /\ Hash(op)
  BY <1>4, HashFollows
<1> QED
  BY <1>1, <1>2, <1>3, <1>4, ComputedData

\* A round of the loop in which one of them was executed.
LEMMA ReadFollows ==
  ASSUME IInv, NEW op \in Computed, NEW v, Read(op, v), ~Skipping, status' = "running",
         op = "PICK" => ToInt(Value(1)) < 256
  PROVE  Values(stack', mem') = Documented(op, Before)
<1>1. Owned /\ Room
  BY DEF IInv, Read
<1>2. ~Stop("bad")
  BY DEF Stop
<1>3. Execute(op, v)
  BY <1>2, Zenon DEF Read
<1>4. ~(Len(stack) < Needs(op)) /\ (If(op) \/ ElseOrEndIf(op) \/ Data(op, v))
  BY <1>2, <1>3, Zenon DEF Execute
<1>5. op \notin {"IF", "NOTIF"} /\ op \notin {"ELSE", "ENDIF"}
  BY DEF Computed, Shuffles, Binaries, Hashes
<1>6. ~If(op) /\ ~ElseOrEndIf(op)
  BY <1>5, Zenon DEF If, ElseOrEndIf
<1>7. Len(stack) >= Needs(op)
  <2>1. Needs(op) \in Nat
    BY DEF Needs
  <2> QED
    BY <1>1, <1>4, <2>1, StackTypes
<1> QED
  BY <1>1, <1>4, <1>6, <1>7, DataFollows

\* The types of the variables, for every script (executeScript).
THEOREM ScriptTyped == Spec => []TypeOK
<1>1. ASSUME IInv PROVE TypeOK
  <2>1. Owned /\ Balanced /\ Counted /\ status \in Going \cup {"good"}
    BY <1>1 DEF IInv
  <2>2. stack \in Seq(Elem) /\ alt \in Seq(Elem) /\ mem \in Memory
    BY <2>1, StackTypes
  <2>3. \A e \in {stack[i] : i \in DOMAIN stack} \cup {alt[i] : i \in DOMAIN alt} :
          e.at \in 0..MaxAt /\ e.len \in Nat
    <3>1. \A i \in DOMAIN stack : stack[i] \in Elem
      BY <2>2
    <3>2. \A i \in DOMAIN alt : alt[i] \in Elem
      BY <2>2
    <3> QED
      BY <3>1, <3>2 DEF Elem
  <2>4. DOMAIN mem = 1..MaxAt /\ \A a \in 1..MaxAt : \A i \in DOMAIN mem[a] : mem[a][i] \in 0..255
    <3>1. DOMAIN mem = 1..MaxAt /\ \A a \in 1..MaxAt : mem[a] \in Seq(Byte)
      BY <2>2 DEF Memory
    <3>2. \A a \in 1..MaxAt : \A i \in DOMAIN mem[a] : mem[a][i] \in Byte
      BY <3>1
    <3> QED
      BY <3>1, <3>2 DEF Byte
  <2> QED
    BY <2>1, <2>3, <2>4 DEF TypeOK, Balanced, Counted, Going
<1> QED
  BY Invariant, <1>1, PTL

\* While a script runs and when it is accepted, every element of both stacks owns
\* its bytes, whatever operations copied, moved, reallocated and freed (the stacks
\* and the free and realloc calls of executeScript).
THEOREM ElementsOwnTheirBytes == Spec => []OwnedOnce
<1>1. ASSUME IInv PROVE OwnedOnce
  <2>1. Owns(stack, alt, mem)
    BY <1>1 DEF IInv, Owned
  <2>2. /\ stack \in Seq(Elem) /\ alt \in Seq(Elem)
        /\ Len(stack) \in Nat /\ Len(alt) \in Nat
    BY <2>1 DEF Owns
  <2>3. /\ Both \in Seq(Elem) /\ DOMAIN Both = 1..Len(stack) + Len(alt)
        /\ \A i \in 1..Len(stack) : Both[i] = stack[i]
        /\ \A i \in 1..Len(alt) : Both[Len(stack) + i] = alt[i]
    BY <2>2 DEF Both
  <2>4. \A i \in DOMAIN Both : i \in 1..Len(stack)
          \/ (i - Len(stack) \in 1..Len(alt) /\ Both[i] = alt[i - Len(stack)])
    <3> SUFFICES ASSUME NEW i \in DOMAIN Both, i \notin 1..Len(stack)
                 PROVE  i - Len(stack) \in 1..Len(alt) /\ Both[i] = alt[i - Len(stack)]
      OBVIOUS
    <3>1. i - Len(stack) \in 1..Len(alt) /\ Len(stack) + (i - Len(stack)) = i
      BY <2>2, <2>3
    <3> QED
      BY <2>3, <3>1
  <2> HIDE DEF Both
  <2>5. \A i \in DOMAIN Both : Len(Bytes(mem, Both[i])) = Both[i].len
    BY <2>1, <2>3, <2>4 DEF Owns, Holds
  <2>6. ASSUME NEW i \in DOMAIN Both, NEW j \in DOMAIN Both,
               Both[i].at = Both[j].at, Both[i].at # 0
        PROVE  i = j
    <3>1. CASE i \in 1..Len(stack) /\ j \in 1..Len(stack)
      BY <2>1, <2>3, <2>6, <3>1, SMTT(30) DEF Owns
    <3>2. CASE i \in 1..Len(stack) /\ j \notin 1..Len(stack)
      BY <2>1, <2>3, <2>4, <2>6, <3>2, SMTT(30) DEF Owns
    <3>3. CASE i \notin 1..Len(stack) /\ j \in 1..Len(stack)
      BY <2>1, <2>3, <2>4, <2>6, <3>3, ZenonT(30) DEF Owns
    <3>4. CASE i \notin 1..Len(stack) /\ j \notin 1..Len(stack)
      <4>1. i - Len(stack) = j - Len(stack)
        BY <2>1, <2>4, <2>6, <3>4 DEF Owns
      <4> QED
        BY <2>2, <2>3, <4>1
    <3> QED
      BY <3>1, <3>2, <3>3, <3>4
  <2> QED
    BY <2>5, <2>6 DEF OwnedOnce
<1> QED
  BY Invariant, <1>1, PTL

\* ifElseSize counts the blocks that are open, in code that is executed and in code
\* that is skipped, and a script is accepted with all of them closed, unless the code
\* that was skipped held an OP_NOTIF or, in the data of a push, a byte that is an
\* OP_IF, OP_NOTIF, OP_ELSE or OP_ENDIF (the branches of executeScript).
THEOREM BlocksStayBalanced == Spec => []BlocksBalance
<1>1. ASSUME IInv PROVE BlocksBalance
  BY <1>1 DEF IInv, Balanced, BlocksBalance
<1> QED
  BY Invariant, <1>1, PTL

\* An operation that moves elements, computes a number or hashes leaves on the stack
\* the values that the comments describe, whatever happens to addresses and memory,
\* for every script and every stack, except an OP_PICK of the depth 256 or more,
\* which copies an element nearer to the top (the cases of executeScript).
THEOREM OperationsLeaveTheirValues == Spec => ValuesFollow
<1> DEFINE Follows == read' > read /\ ~Skipping /\ status' = "running"
                      /\ last' \in (Shuffles \ {"DROP", "2OVER"}) \cup {"PICK"} \cup Binaries \cup Hashes
                      /\ (last' = "PICK" => ToInt(Value(1)) < 256)
                      => Values(stack', mem') = Documented(last', Values(stack, mem))
<1>1. ASSUME IInv, Next PROVE Follows
  <2> SUFFICES ASSUME read' > read, ~Skipping, status' = "running", last' \in Computed,
                      last' = "PICK" => ToInt(Value(1)) < 256
               PROVE  Values(stack', mem') = Documented(last', Before)
    BY Zenon DEF Before, Computed
  <2>1. ASSUME NEW op, NEW v, Read(op, v)
        PROVE  Values(stack', mem') = Documented(last', Before)
    <3>1. last' = op
      BY <2>1 DEF Read
    <3>2. op \in Computed
      BY <3>1
    <3> QED
      BY <1>1, <2>1, <3>1, <3>2, ReadFollows
  <2>2. ~Finish
    <3>1. read \in Nat
      BY <1>1, ScriptAssumption DEF IInv, Counted
    <3>2. \A r : Result(r) => read' = read
      BY DEF Result
    <3>3. Finish => read' = read \/ read' = 0
      BY <3>2, Zenon DEF Finish
    <3> QED
      BY <3>1, <3>3
  <2> QED
    BY <1>1, <2>1, <2>2, Zenon DEF Next
<1> QED
  BY Invariant, <1>1, PTL DEF Spec, ValuesFollow
==============================================================================
