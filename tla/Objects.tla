-------------------------------- MODULE Objects --------------------------------
(***************************************************************************)
(* Who keeps an object alive (Object.c, ByteArray.c, Message/Message.c,    *)
(* Transaction.c, TransactionInput.c, TransactionOutput.c, Inventory.c,    *)
(* InventoryVector.c).  Objects count the references to them; byte arrays, *)
(* and scripts, which are byte arrays, look into shared data that counts   *)
(* the arrays.  A caller builds messages, reads them from bytes, writes    *)
(* them into bytes and lets go of what it holds, in any order.  Lengths    *)
(* are left out: bytes may prove too short wherever the code looks.        *)
(***************************************************************************)
EXTENDS SequencesExt, FiniteSetsExt, Functions, Integers, TLC

CONSTANTS MaxArrays,   \* bound: the byte arrays a caller makes
          MaxLeaves,   \* bound: the parts a caller makes
          MaxParents,  \* bound: the messages a caller makes
          MaxParts,    \* bound: the parts of a message
          MaxLost,     \* bound: the references that were lost before a message is written again
          MaxObjects   \* bound: the objects of a kind, and the pieces of data, alive at once

ASSUME ObjectsAssumption ==
  {MaxArrays, MaxLeaves, MaxParents, MaxParts, MaxLost, MaxObjects} \subseteq Nat

VARIABLES memory,      \* the objects, the shared data and what was done to them
          held,        \* the objects the caller holds a reference to
          made,        \* how many arrays, parts and messages the caller has made
          refused      \* whether bytes were refused, or a part had nothing to write

vars == <<memory, held, made, refused>>

Null    == 0           \* no object
Garbage == -1          \* a pointer that was never set, or to what free() took

LeafClasses   == {"TransactionInput", "TransactionOutput", "InventoryVector"}
ParentClasses == {"Transaction", "Inventory"}
LeavesOf(class) == IF class = "Transaction" THEN {"TransactionInput", "TransactionOutput"} ELSE {"InventoryVector"}

----------------------------------------------------------------------------
(* Memory: `heap' has the live objects, `shared' the arrays over each live *)
(* piece of data.  `lost' counts the references nobody keeps a pointer for *)
(* any more, to objects and to data.                                       *)

\* Where an object is put: memory for each kind of object, the lowest free.
AddressesOf(class) == LET base == (IF class = "ByteArray" THEN 0 ELSE IF class \in LeafClasses THEN MaxObjects ELSE 2 * MaxObjects)
                      IN  base + 1 .. base + MaxObjects
Addresses == 1..3 * MaxObjects

Nothing == [heap |-> <<>>, shared |-> <<>>, lost |-> [o \in Addresses |-> 0],
            lostShared |-> [d \in 1..MaxObjects |-> 0], undefined |-> "no"]

Live(m, o) == o \in DOMAIN m.heap
FreshFor(m, class) == Min(AddressesOf(class) \ DOMAIN m.heap)
FreshData(m) == Min((1..MaxObjects) \ DOMAIN m.shared)
Room(m, class, n) == Cardinality(DOMAIN m.heap \cap AddressesOf(class)) + n <= MaxObjects
RoomForData(m) == Cardinality(DOMAIN m.shared) < MaxObjects

\* The program does what C does not define: it follows a bad pointer.
Undefined(m, o) == [m EXCEPT !.undefined = IF o \in {Null, Garbage} THEN "unset" ELSE "freed"]

With(f, o, value) == [q \in DOMAIN f \cup {o} |-> IF q = o THEN value ELSE f[q]]
Without(f, o) == Restrict(f, DOMAIN f \ {o})
Removed(m, o) == [m EXCEPT !.heap = Without(@, o)]

\* A new object, with one reference to it.
NewObject(class, bytes, fields, data) ==
  [class |-> class, count |-> 1, bytes |-> bytes, fields |-> fields, data |-> data, destroy |-> TRUE]
Created(m, o, class, bytes, fields) == [m EXCEPT !.heap = With(@, o, NewObject(class, bytes, fields, Null))]
ArrayOver(d) == NewObject("ByteArray", Null, <<>>, d)

Increment(m, o) == IF Live(m, o) THEN [m EXCEPT !.heap[o].count = @ + 1] ELSE Undefined(m, o)

\* An array gives up the data d; the last one frees it.
ReleaseSharedData(m, d) ==
  IF d \notin DOMAIN m.shared THEN Undefined(m, d)
  ELSE IF m.shared[d] > 1 THEN [m EXCEPT !.shared[d] = @ - 1]
  ELSE [m EXCEPT !.shared = Without(@, d)]

\* One reference less; with the last one the object's destructor lets go of what
\* it refers to.  Nobody looks at an object that is destroyed: it leaves first.
Lower(m, o, Destructor(_, _)) ==
  IF m.undefined # "no" THEN m
  ELSE IF ~Live(m, o) THEN Undefined(m, o)
  ELSE IF m.heap[o].count > 1 THEN [m EXCEPT !.heap[o].count = @ - 1]
  ELSE IF ~m.heap[o].destroy THEN Undefined(m, Garbage)
  ELSE Destructor(Removed(m, o), m.heap[o])

(* The destructors, which get the object after it left the heap. *)

DestroyByteArray(m, object) == ReleaseSharedData(m, object.data)
LowerArray(m, o) == Lower(m, o, DestroyByteArray)
LowerIfAny(m, o) == IF o = Null THEN m ELSE LowerArray(m, o)

DestroyMessage(m, object) == LowerIfAny(m, object.bytes)
\* An input passes over a hash and a script it has not got, an output over a script,
DestroyInput(m, object) ==
  DestroyMessage(LowerIfAny(LowerIfAny(m, object.fields[1]), object.fields[2]), object)
DestroyOutput(m, object) == DestroyMessage(LowerIfAny(m, object.fields[1]), object)
\* a vector does not look.
DestroyVector(m, object) == DestroyMessage(LowerArray(m, object.fields[1]), object)
DestroyLeaf(m, object) ==
  CASE object.class = "TransactionInput"  -> DestroyInput(m, object)
    [] object.class = "TransactionOutput" -> DestroyOutput(m, object)
    [] object.class = "InventoryVector"   -> DestroyVector(m, object)
LowerLeaf(m, o) == Lower(m, o, DestroyLeaf)

\* A message lets go of its parts, one after the other.
DestroyParent(m, object) == DestroyMessage(FoldLeft(LowerLeaf, m, object.fields), object)

Destroy(m, object) ==
  CASE object.class = "ByteArray"      -> DestroyByteArray(m, object)
    [] object.class \in LeafClasses   -> DestroyLeaf(m, object)
    [] object.class \in ParentClasses -> DestroyParent(m, object)
Decrement(m, o) == Lower(m, o, Destroy)

NewByteArray(m, o) ==
  LET d == FreshData(m)
  IN  [m EXCEPT !.heap = With(@, o, ArrayOver(d)), !.shared = With(@, d, 1)]

\* A second array over the data of `ref'.
Subsection(m, o, ref) ==
  IF ~Live(m, ref) THEN Undefined(m, ref)
  ELSE LET d == m.heap[ref].data
       IN  [m EXCEPT !.heap = With(@, o, ArrayOver(d)), !.shared[d] = @ + 1]

\* Mutant: the new data does not learn of the array.
ChangeDataReferenceUncounted(m, a, ref) ==
  [ReleaseSharedData(m, m.heap[a].data) EXCEPT !.heap[a].data = m.heap[ref].data]

\* An array gives up its data and looks into that of `ref'.
ChangeDataReference(m, a, ref) ==
  IF ~Live(m, ref) THEN Undefined(m, ref)
  ELSE IF ~Live(m, a) THEN Undefined(m, a)
  ELSE LET x == ReleaseSharedData(m, m.heap[a].data)
           d == m.heap[ref].data
       IN  IF d \notin DOMAIN x.shared THEN Undefined(x, d)
           ELSE [x EXCEPT !.heap[a].data = d, !.shared[d] = @ + 1]

----------------------------------------------------------------------------
(* Parts of messages *)

\* A part made of what the caller has; an input may have no script.
NewInput(m, o, hash, script) ==
  Created(Increment(IF script = Null THEN m ELSE Increment(m, script), hash), o, "TransactionInput", Null, <<hash, script>>)
NewOutput(m, o, script) == Created(Increment(m, script), o, "TransactionOutput", Null, <<script>>)
NewVector(m, o, hash)   == Created(Increment(m, hash), o, "InventoryVector", Null, <<hash>>)

\* A part that will be read from `data'.
NewInputFromData(m, o, data)  == Created(Increment(m, data), o, "TransactionInput", data, <<Null, Null>>)
NewOutputFromData(m, o, data) == Created(Increment(m, data), o, "TransactionOutput", data, <<Null>>)
NewVectorFromData(m, o, data) == Created(Increment(m, data), o, "InventoryVector", data, <<Null>>)
NewLeafFromData(m, o, class, data) ==
  CASE class = "TransactionInput"  -> NewInputFromData(m, o, data)
    [] class = "TransactionOutput" -> NewOutputFromData(m, o, data)
    [] class = "InventoryVector"   -> NewVectorFromData(m, o, data)

\* Reading a part makes every array of it a section of its bytes.
ReadField(m, o, i) ==
  LET a == FreshFor(m, "ByteArray")
  IN  [Subsection(m, a, m.heap[o].bytes) EXCEPT !.heap[o].fields[i] = a]
ReadLeaf(m, o) ==
  IF m.heap[o].class = "TransactionInput" THEN ReadField(ReadField(m, o, 1), o, 2) ELSE ReadField(m, o, 1)

\* An input or an output without its arrays is not written.
Writable(m, o) == m.heap[o].class = "InventoryVector" \/ Null \notin Range(m.heap[o].fields)

\* Writing a part moves its arrays into its bytes.
WriteField(m, o, i) == ChangeDataReference(m, m.heap[o].fields[i], m.heap[o].bytes)
WriteLeaf(m, o) ==
  IF m.undefined # "no" THEN m
  ELSE IF m.heap[o].class = "TransactionInput" THEN WriteField(WriteField(m, o, 1), o, 2)
  ELSE WriteField(m, o, 1)

----------------------------------------------------------------------------
(* Messages with parts.  What can stop a reading or a writing: the bytes   *)
(* are too short at the start, at part k, before the outputs, or before    *)
(* the lock time.                                                          *)

Start == [at |-> "start", part |-> 0]
Part(k) == [at |-> "part", part |-> k]
BeforeOutputs == [at |-> "outputs", part |-> 0]
BeforeLockTime == [at |-> "lock time", part |-> 0]
Never == [at |-> "never", part |-> 0]

\* Where a message with parts of these classes can be stopped.
ReadStops(class, classes) ==
  {Start, Never} \cup {Part(k) : k \in DOMAIN classes}
  \cup (IF class = "Transaction" THEN {BeforeOutputs, BeforeLockTime} ELSE {})
\* An inventory looks at its length only once before it writes.
WriteStops(class, n) ==
  {Start, Never} \cup (IF class = "Transaction" THEN {Part(k) : k \in 1..n} \cup {BeforeOutputs, BeforeLockTime} ELSE {})

Class(m, o) == m.heap[o].class
\* A transaction has its inputs first.
InputsNum(m, p) ==
  Cardinality({k \in DOMAIN m.heap[p].fields : Class(m, m.heap[p].fields[k]) = "TransactionInput"})
Inputs(m, p)  == SubSeq(m.heap[p].fields, 1, InputsNum(m, p))
Outputs(m, p) == SubSeq(m.heap[p].fields, InputsNum(m, p) + 1, Len(m.heap[p].fields))
BeforeOthers(m, p, f) == IF Class(m, f) = "TransactionInput" THEN Inputs(m, p) \o <<f>> \o Outputs(m, p)
                         ELSE Append(m.heap[p].fields, f)
Attach(m, p, f) == [m EXCEPT !.heap[p].fields = BeforeOthers(m, p, f)]

\* One part is read from a section of the bytes; the array is let go of, the part keeps it.
ReadPart(m, p, class) ==
  LET data == FreshFor(m, "ByteArray")
      x    == Subsection(m, data, m.heap[p].bytes)
      part == FreshFor(x, class)
      y    == LowerArray(ReadLeaf(NewLeafFromData(x, part, class, data), part), data)
  IN  [y EXCEPT !.heap[p].fields = Append(@, part)]

\* A part that could not be read: a transaction forgets it, an inventory has it in
\* its list.  One Garbage stands for what the list was not given.
FailPart(m, p, class, last) ==
  LET data == FreshFor(m, "ByteArray")
      x    == Subsection(m, data, m.heap[p].bytes)
      part == FreshFor(x, class)
      y    == LowerArray(NewLeafFromData(x, part, class, data), data)
  IN  IF Class(m, p) = "Transaction"
      THEN [y EXCEPT !.lost[part] = @ + 1, !.heap[p].fields = Append(@, Garbage)]
      ELSE [y EXCEPT !.heap[p].fields = @ \o (IF last THEN <<part>> ELSE <<part, Garbage>>)]

\* What is done for each part of the message p, one after the other.
Each(p, s) == [k \in DOMAIN s |-> <<p, s[k]>>]
ReadNext(m, next) == ReadPart(m, next[1], next[2])

ReadParent(m, p, classes, stop) ==
  LET started == [m EXCEPT !.heap[p].fields = <<>>]
      inputs  == SubSeq(classes, 1, Cardinality({k \in DOMAIN classes : classes[k] = "TransactionInput"}))
      Read(cs) == FoldLeft(ReadNext, started, Each(p, cs))
  IN  CASE stop = Start -> m
        [] stop.at = "part" -> FailPart(Read(SubSeq(classes, 1, stop.part - 1)), p, classes[stop.part],
                                        stop.part = Len(classes))
        [] stop = BeforeOutputs -> [Read(inputs) EXCEPT !.heap[p].fields = @ \o m.heap[p].fields]
        [] OTHER -> Read(classes)

\* A part gets a section of the bytes; whatever bytes it had are forgotten.
Forgotten(lost, o) == IF o \in Addresses THEN [lost EXCEPT ![o] = @ + 1] ELSE lost
GiveSection(m, p, part) ==
  IF m.undefined # "no" THEN m
  ELSE LET old == m.heap[part].bytes
           new == FreshFor(m, "ByteArray")
           x   == Subsection(m, new, m.heap[p].bytes)
       IN  [x EXCEPT !.heap[part].bytes = new, !.lost = Forgotten(@, old)]

\* destroyObject on an array: free() and nothing else.
FreeBytes(m, part) ==
  IF m.undefined # "no" THEN m
  ELSE IF part = Garbage THEN Undefined(m, part)
  ELSE LET b == m.heap[part].bytes
       IN  IF ~Live(m, b) THEN Undefined(m, b)
           ELSE [m EXCEPT !.heap = [Without(@, b) EXCEPT ![part].bytes = Garbage],
                          !.lostShared[m.heap[b].data] = @ + 1]
\* The same with a reference given back properly.
DecrementBytes(m, part) ==
  IF m.undefined # "no" THEN m
  ELSE IF part = Garbage THEN Undefined(m, part)
  ELSE LowerArray([m EXCEPT !.heap[part].bytes = Garbage], m.heap[part].bytes)

\* The first n of a list, and Garbage for what is behind its end.
FirstOf(s, n) == [k \in 1..n |-> IF k <= Len(s) THEN s[k] ELSE Garbage]

\* What a transaction undoes when part k cannot be written: the bytes of as many
\* inputs as there are parts in the list of k up to it.
UndoWriting(m, p, k) ==
  LET inputs  == Inputs(m, p)
      outputs == Outputs(m, p)
      n       == IF k <= Len(inputs) THEN k ELSE k - Len(inputs)
      freed   == FirstOf(inputs, n) \o (IF k <= Len(inputs) THEN <<>> ELSE FirstOf(outputs, n))
  IN  FoldLeft(FreeBytes, m, freed)
\* When there is no room for the lock time: the outputs are counted like the inputs.
UndoAtLockTime(m, p) ==
  FoldLeft(DecrementBytes, FoldLeft(FreeBytes, m, Inputs(m, p)), FirstOf(Outputs(m, p), Len(Inputs(m, p))))

WriteNext(m, next) == WriteLeaf(GiveSection(m, next[1], next[2]), next[2])

WriteParent(m, p, stop) ==
  LET parts == m.heap[p].fields
      upTo  == IF stop = BeforeOutputs THEN InputsNum(m, p) ELSE Len(parts)
      fails == {k \in 1..upTo : stop = Part(k) \/ ~Writable(m, parts[k])}
      Write(n) == FoldLeft(WriteNext, m, Each(p, SubSeq(parts, 1, n)))
  IN  CASE stop = Start -> m
        [] stop # Start /\ fails # {} ->
             UndoWriting(GiveSection(Write(Min(fails) - 1), p, parts[Min(fails)]), p, Min(fails))
        [] stop = BeforeLockTime /\ fails = {} -> UndoAtLockTime(Write(upTo), p)
        [] OTHER -> Write(upTo)
WriteRefused(m, p, stop) ==
  stop # Never \/ \E k \in DOMAIN m.heap[p].fields : ~Writable(m, m.heap[p].fields[k])

----------------------------------------------------------------------------
(* The caller *)

HeldOf(classes) == {o \in held : memory.heap[o].class \in classes}
MadeOne(kind, most) == made[kind] < most /\ made' = [made EXCEPT ![kind] = @ + 1]
\* The caller gets the only reference to a new object.
Handed(o, result) ==
  /\ memory' = result
  /\ held' = held \cup {o}
  /\ UNCHANGED refused
\* A message whose parts can be looked at.
Complete(p) == Garbage \notin Range(memory.heap[p].fields)

\* createNewByteArrayOfSize, ...FromData, ...UsingDataCopy, copyByteArray, createNewByteArrayFromSubsection
CreateByteArray ==
  /\ MadeOne("array", MaxArrays) /\ Room(memory, "ByteArray", 1) /\ RoomForData(memory)
  /\ LET o == FreshFor(memory, "ByteArray") IN Handed(o, NewByteArray(memory, o))

\* getByteArraySubsectionReference, createNewScriptFromReference
CreateSubsection(a) ==
  /\ MadeOne("array", MaxArrays) /\ Room(memory, "ByteArray", 1)
  /\ LET o == FreshFor(memory, "ByteArray") IN Handed(o, Subsection(memory, o, a))

CreateInput(hash, script) ==
  /\ MadeOne("leaf", MaxLeaves) /\ Room(memory, "TransactionInput", 1)
  /\ LET o == FreshFor(memory, "TransactionInput") IN Handed(o, NewInput(memory, o, hash, script))
CreateOutput(script) ==
  /\ MadeOne("leaf", MaxLeaves) /\ Room(memory, "TransactionOutput", 1)
  /\ LET o == FreshFor(memory, "TransactionOutput") IN Handed(o, NewOutput(memory, o, script))
CreateVector(hash) ==
  /\ MadeOne("leaf", MaxLeaves) /\ Room(memory, "InventoryVector", 1)
  /\ LET o == FreshFor(memory, "InventoryVector") IN Handed(o, NewVector(memory, o, hash))

CreateTransaction ==
  /\ MadeOne("parent", MaxParents) /\ Room(memory, "Transaction", 1)
  /\ LET o == FreshFor(memory, "Transaction") IN Handed(o, Created(memory, o, "Transaction", Null, <<>>))
CreateInventory ==
  /\ MadeOne("parent", MaxParents) /\ Room(memory, "Inventory", 1)
  /\ LET o == FreshFor(memory, "Inventory") IN Handed(o, Created(memory, o, "Inventory", Null, <<>>))

\* A transaction made from bytes gets no destructor.
CreateTransactionFromByteArray(bytes) ==
  /\ MadeOne("parent", MaxParents) /\ Room(memory, "Transaction", 1)
  /\ LET o == FreshFor(memory, "Transaction")
     IN  Handed(o, [Created(Increment(memory, bytes), o, "Transaction", bytes, <<>>) EXCEPT !.heap[o].destroy = FALSE])
CreateInventoryFromData(data) ==
  /\ MadeOne("parent", MaxParents) /\ Room(memory, "Inventory", 1)
  /\ LET o == FreshFor(memory, "Inventory")
     IN  Handed(o, Created(Increment(memory, data), o, "Inventory", data, <<>>))

\* The message gets new bytes to be written into.
GiveBytes(p) ==
  /\ memory.heap[p].bytes = Null /\ Room(memory, "ByteArray", 1) /\ RoomForData(memory)
  /\ LET b == FreshFor(memory, "ByteArray")
     IN  memory' = [NewByteArray(memory, b) EXCEPT !.heap[p].bytes = b]
  /\ UNCHANGED <<held, made, refused>>

Attachable(p, f) ==
  /\ memory.heap[f].class \in LeavesOf(memory.heap[p].class)
  /\ Complete(p) /\ f \notin Range(memory.heap[p].fields)
  /\ Len(memory.heap[p].fields) < MaxParts

\* Mutant: the transaction does not count its reference.
AddUncounted(p, f) ==
  /\ Attachable(p, f) /\ memory.heap[p].class = "Transaction"
  /\ memory' = Attach(memory, p, f)
  /\ UNCHANGED <<held, made, refused>>

\* addTransactionInput, addTransactionOutput
Add(p, f) ==
  /\ Attachable(p, f) /\ memory.heap[p].class = "Transaction"
  /\ memory' = Attach(Increment(memory, f), p, f)
  /\ UNCHANGED <<held, made, refused>>

\* takeTransactionInput, takeTransactionOutput; an inventory is filled by hand.
Take(p, f) ==
  /\ Attachable(p, f)
  /\ memory' = Attach(memory, p, f)
  /\ held' = held \ {f}
  /\ UNCHANGED <<made, refused>>

\* Bound: a message has at most MaxParts parts.
ClassLists(class) ==
  {s \in SeqOf(LeavesOf(class), MaxParts) : \A j, k \in DOMAIN s : j < k /\ s[k] = "TransactionInput" => s[j] = s[k]}

RoomToRead(n) == Room(memory, "ByteArray", 3 * n + 1) /\ Room(memory, "TransactionInput", n)

\* Read once.
Deserialize(p, classes, stop) ==
  /\ memory.heap[p].bytes # Null /\ memory.heap[p].fields = <<>>
  /\ RoomToRead(Len(classes))
  /\ memory' = ReadParent(memory, p, classes, stop)
  /\ refused' = (refused \/ stop # Never)
  /\ UNCHANGED <<held, made>>

\* The connection makes a larger message of the one that has the bytes, sets its
\* destructor but not its list of parts, and reads it.
Receive(class, bytes, classes, stop) ==
  /\ MadeOne("parent", MaxParents) /\ Room(memory, class, 1) /\ RoomToRead(Len(classes))
  /\ LET o == FreshFor(memory, class)
     IN  /\ memory' = ReadParent(Created(memory, o, class, bytes, <<Garbage>>), o, classes, stop)
         /\ held' = (held \cup {o}) \ {bytes}
  /\ refused' = (refused \/ stop # Never)

Lost == FoldFunction(+, 0, memory.lost) + FoldFunction(+, 0, memory.lostShared)

Serialize(p, stop) ==
  /\ memory.heap[p].bytes # Null /\ Complete(p)
  /\ Room(memory, "ByteArray", Len(memory.heap[p].fields)) /\ Lost <= MaxLost
  /\ memory' = WriteParent(memory, p, stop)
  /\ refused' = (refused \/ WriteRefused(memory, p, stop))
  /\ UNCHANGED <<held, made>>

\* decrementReferenceCount
Release(o) ==
  /\ memory' = Decrement(memory, o)
  /\ held' = held \ {o}
  /\ UNCHANGED <<made, refused>>

Init == memory = Nothing /\ held = {} /\ made = [array |-> 0, leaf |-> 0, parent |-> 0] /\ refused = FALSE

Next ==
  /\ memory.undefined = "no"
  /\ \/ CreateByteArray
     \/ \E a \in HeldOf({"ByteArray"}) : CreateSubsection(a)
     \/ \E hash \in HeldOf({"ByteArray"}) : \E script \in HeldOf({"ByteArray"}) \cup {Null} : CreateInput(hash, script)
     \/ \E script \in HeldOf({"ByteArray"}) : CreateOutput(script)
     \/ \E hash \in HeldOf({"ByteArray"}) : CreateVector(hash)
     \/ CreateTransaction
     \/ CreateInventory
     \/ \E bytes \in HeldOf({"ByteArray"}) : CreateTransactionFromByteArray(bytes)
     \/ \E data \in HeldOf({"ByteArray"}) : CreateInventoryFromData(data)
     \/ \E class \in ParentClasses, a \in HeldOf({"ByteArray"}) : \E classes \in ClassLists(class) :
          \E stop \in ReadStops(class, classes) : Receive(class, a, classes, stop)
     \/ \E p \in HeldOf(ParentClasses) : GiveBytes(p)
     \/ \E p \in HeldOf(ParentClasses), f \in HeldOf(LeafClasses) : Add(p, f)
     \/ \E p \in HeldOf(ParentClasses), f \in HeldOf(LeafClasses) : Take(p, f)
     \/ \E p \in HeldOf(ParentClasses) : \E classes \in ClassLists(memory.heap[p].class) :
          \E stop \in ReadStops(memory.heap[p].class, classes) : Deserialize(p, classes, stop)
     \/ \E p \in HeldOf(ParentClasses) :
          \E stop \in WriteStops(memory.heap[p].class, Len(memory.heap[p].fields)) : Serialize(p, stop)
     \/ \E o \in held : Release(o)

Spec == Init /\ [][Next]_vars

----------------------------------------------------------------------------
(* Properties *)

\* The pointers to o in an object, which are numbered, and in the objects of a heap.
Uses(object, o) == {i \in 0..Len(object.fields) : o = (IF i = 0 THEN object.bytes ELSE object.fields[i])}
PointersTo(heap, o) == UNION {{p} \X Uses(heap[p], o) : p \in DOMAIN heap}

TypeOK ==
  /\ DOMAIN memory.heap \subseteq Addresses /\ DOMAIN memory.shared \subseteq 1..MaxObjects
  /\ held \subseteq Addresses /\ refused \in BOOLEAN
  /\ memory.undefined \in {"no", "unset", "freed"}

\* A count is the number of the caller's references, the pointers and the
\* references that were lost; what is pointed to is alive.
ObjectsAccounted ==
  /\ held \subseteq DOMAIN memory.heap
  /\ \A o \in DOMAIN memory.heap :
       /\ memory.heap[o].count = Cardinality(PointersTo(memory.heap, o)) + memory.lost[o] + (IF o \in held THEN 1 ELSE 0)
       /\ Range(memory.heap[o].fields) \cup {memory.heap[o].bytes} \subseteq DOMAIN memory.heap \cup {Null, Garbage}
SharedDataAccounted ==
  /\ \A o \in DOMAIN memory.heap : Class(memory, o) = "ByteArray" => memory.heap[o].data \in DOMAIN memory.shared
  /\ \A d \in DOMAIN memory.shared :
       memory.shared[d] = memory.lostShared[d] + Cardinality({o \in DOMAIN memory.heap : memory.heap[o].data = d})

\* As long as the program is defined, every object and every piece of shared data
\* counts exactly those that keep it, and nothing is freed that can be reached:
\* after any order of building, reading, writing, sharing and releasing.
CountsAccounted == TypeOK /\ (memory.undefined = "no" => ObjectsAccounted /\ SharedDataAccounted)

\* No order of calls follows a pointer to what was freed, and one that was never
\* set is followed only after bytes were refused or to destroy a transaction made from bytes.
NothingFreedUsed ==
  /\ memory.undefined # "freed"
  /\ memory.undefined = "unset" => refused \/ \E o \in DOMAIN memory.heap : ~memory.heap[o].destroy
================================================================================
