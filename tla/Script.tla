-------------------------------- MODULE Script --------------------------------
(***************************************************************************)
(* executeScript (Object/Script.c): the interpreter of a transaction's     *)
(* scripts, with the memory behind the elements of its stacks.             *)
(*                                                                         *)
(* The script has no jumps, so it is chosen while it is read: a step reads *)
(* one operation.  A push is a vector of bytes, or the word "short" when   *)
(* the script ends inside it or the vector is too long.  Hashes and        *)
(* signatures are external.  An element is the address of its bytes (0 is  *)
(* the null pointer) and its length, because some operations copy it, some *)
(* move it and some lose it.  Where one leaves two elements with the same  *)
(* bytes, or one with bytes that were freed, the behaviour is not followed *)
(* any further: the result is "undefined".                                   *)
(***************************************************************************)
EXTENDS Integers, Sequences, FiniteSets, ScriptValues

CONSTANTS
  Vectors,     \* byte vectors that scripts push
  Stacks,      \* stacks of vectors that the script starts with
  Operations,  \* the other operations that scripts are made of, by name
  MaxRead,     \* operations in a script
  MaxOps,      \* 201: operations above OP_16 that may be executed
  MaxStack,    \* 1000: elements on both stacks
  MaxAt        \* addresses, of which every operation finds three free

ASSUME ScriptAssumption ==
  /\ Vectors \subseteq Seq(0..255) /\ Stacks \subseteq Seq(Seq(0..255))
  /\ MaxRead \in Nat /\ MaxOps \in Nat /\ MaxStack \in Nat /\ MaxAt \in Nat
  /\ \A s \in Stacks : Len(s) <= MaxAt
  /\ "PUSH" \notin Operations

VARIABLES
  stack, alt,  \* stack and altStack, the bottom first
  mem,         \* the bytes at each address, <<>> where nothing is allocated
  depth,       \* ifElseSize
  skip,        \* skipIfElseBlock, 0 for 0xffff
  opCount,     \* opCount
  last, read,  \* the operation that was read last, and how many were
  p2sh,        \* "no", or which script runs: the one that names a hash, or the named one
  status,      \* the result
  open,        \* history: blocks that were opened and not closed
  inside,      \* history: bytes to come of a push that is skipped
  lost         \* history: skipped code held an OP_NOTIF, or data like a branch

memVars == <<stack, alt, mem>>
controlVars == <<depth, skip, open, inside, lost>>
vars == <<memVars, controlVars, opCount, last, read, p2sh, status>>

Null == [at |-> 0, len |-> 0]
Bytes(m, e) == IF e.at = 0 THEN <<>> ELSE m[e.at]

\* malloc takes the first address that is free.
Fresh(m) == CHOOSE a \in 1..MaxAt : m[a] = <<>> /\ \A b \in 1..MaxAt : m[b] = <<>> => a <= b
Room == Cardinality({a \in 1..MaxAt : mem[a] = <<>>}) >= 3

\* A new element with the bytes v; zero is the null pointer.
NewIn(m, v) ==
  IF v = <<>> THEN [elem |-> Null, mem |-> m]
  ELSE [elem |-> [at |-> Fresh(m), len |-> Len(v)], mem |-> [m EXCEPT ![Fresh(m)] = v]]

FreeIn(m, e) == IF e.at = 0 THEN m ELSE [m EXCEPT ![e.at] = <<>>]

\* The element that is i-th from the top, counted from 1, and the stack below.
Top(i) == stack[Len(stack) - i + 1]
Under(i) == SubSeq(stack, 1, Len(stack) - i)
Value(i) == Bytes(mem, Top(i))
Values(s, m) == [i \in 1..Len(s) |-> Bytes(m, s[i])]

\* New elements with the bytes of each vector of vs, made one after the other.
Made(vs, m) ==
  LET made[n \in 0..Len(vs)] ==
        IF n = 0 THEN [elems |-> <<>>, mem |-> m]
        ELSE LET done == made[n - 1]
                 new  == NewIn(done.mem, vs[n])
             IN  [elems |-> Append(done.elems, new.elem), mem |-> new.mem]
  IN  made[Len(vs)]

Init ==
  /\ \E s \in Stacks :
       LET l == Made(s, [a \in 1..MaxAt |-> <<>>])
       IN  stack = l.elems /\ mem = l.mem
  /\ p2sh \in {"no", "hash"}
  /\ p2sh = "hash" => stack # <<>>
  /\ alt = <<>>
  /\ depth = 0 /\ skip = 0 /\ opCount = 0 /\ last = "none" /\ read = 0
  /\ status = "running"
  /\ open = 0 /\ inside = 0 /\ lost = FALSE

Stop(result) == status' = result /\ UNCHANGED memVars

\* The end of an operation that was executed.
Continue(s, a, m) ==
  /\ stack' = s /\ alt' = a /\ mem' = m
  /\ status' = IF Len(s) + Len(a) > MaxStack THEN "bad" ELSE "running"

------------------------------------------------------------------------------
(* Operations that only read, copy, move and drop elements.                  *)

Shuffles == {"DROP", "DUP", "NIP", "OVER", "ROT", "SWAP", "TUCK", "2DROP", "2DUP", "3DUP",
             "2OVER", "2ROT", "2SWAP"}

\* Mutant: OP_2DUP copies the top twice.
CopiedTop(op) ==
  CASE op \in {"DUP", "TUCK"} -> <<1>>
    [] op = "OVER"            -> <<2>>
    [] op = "2DUP"            -> <<1, 1>>
    [] op = "3DUP"            -> <<3, 2, 1>>
    [] op = "2OVER"           -> <<4, 4>>
    [] OTHER                  -> <<>>

\* Elements, from the top, that are copied before the others change places.
Copied(op) ==
  CASE op \in {"DUP", "TUCK"} -> <<1>>
    [] op = "OVER"            -> <<2>>
    [] op = "2DUP"            -> <<2, 1>>
    [] op = "3DUP"            -> <<3, 2, 1>>
    [] op = "2OVER"           -> <<4, 4>>
    [] OTHER                  -> <<>>

\* Mutant: OP_NIP frees the element that stays.
DroppedTop(op) ==
  CASE op \in {"DROP", "NIP"} -> {1} [] op = "2DROP" -> {1, 2} [] OTHER -> {}

\* Elements that are freed.
Dropped(op) ==
  CASE op = "DROP" -> {1} [] op = "2DROP" -> {1, 2} [] op = "NIP" -> {2} [] OTHER -> {}

\* What the top elements are replaced by, the copies counted from 0 down.  The
\* copies of OP_2OVER are not pushed.
Arranged(op) ==
  CASE op \in {"DROP", "2DROP"} -> <<>>
    [] op = "DUP"   -> <<1, 0>>
    [] op = "NIP"   -> <<1>>
    [] op = "OVER"  -> <<2, 1, 0>>
    [] op = "ROT"   -> <<2, 1, 3>>
    [] op = "SWAP"  -> <<1, 2>>
    [] op = "TUCK"  -> <<0, 2, 1>>
    [] op = "2DUP"  -> <<2, 1, 0, -1>>
    [] op = "3DUP"  -> <<3, 2, 1, 0, -1, -2>>
    [] op = "2OVER" -> <<4, 3, 2, 1>>
    [] op = "2ROT"  -> <<4, 3, 2, 1, 6, 5>>
    [] op = "2SWAP" -> <<2, 1, 4, 3>>

\* How many elements an operation needs.
Needs(op) ==
  CASE op \in {"IF", "NOTIF", "VERIFY", "TOALTSTACK", "IFDUP", "DROP", "DUP", "SIZE", "1ADD",
               "1SUB", "NEGATE", "ABS", "NOT", "0NOTEQUAL"} \cup Hashes -> 1
    [] op \in {"NIP", "OVER", "PICK", "ROLL", "SWAP", "TUCK", "2DROP", "2DUP", "EQUAL",
               "EQUALVERIFY", "BOOLAND", "BOOLOR", "CHECKSIG", "CHECKSIGVERIFY"}
              \cup Binaries -> 2
    [] op \in {"ROT", "3DUP", "WITHIN"} -> 3
    [] op \in {"2OVER", "2SWAP"} -> 4
    [] op \in {"CHECKMULTISIG", "CHECKMULTISIGVERIFY"} -> 5
    [] op = "2ROT" -> 6
    [] OTHER -> 0

Shuffle(op) ==
  LET need == Needs(op)
      c    == Made([i \in 1..Len(Copied(op)) |-> Value(Copied(op)[i])], mem)
      take == [i \in 1..Len(Arranged(op)) |->
                 IF Arranged(op)[i] > 0 THEN Top(Arranged(op)[i]) ELSE c.elems[1 - Arranged(op)[i]]]
      left == [a \in 1..MaxAt |-> IF \E i \in Dropped(op) : Top(i).at = a THEN <<>> ELSE c.mem[a]]
  IN  /\ op \in Shuffles
      /\ Continue(Under(need) \o take, alt, left)
 
------------------------------------------------------------------------------
(* Pushes and the other operations on elements.                              *)

\* The vector v is pushed, or what is pushed exceeds the script.
Push(op, v) ==
  \/ op = "short" /\ Stop("bad")
  \/ /\ op = "PUSH"
     /\ LET n == NewIn(mem, v) IN Continue(Append(stack, n.elem), alt, n.mem)

\* OP_TOALTSTACK, OP_FROMALTSTACK: elements move.
AltStack(op) ==
  \/ /\ op = "TOALTSTACK"
     /\ Continue(Under(1), Append(alt, Top(1)), mem)
  \/ /\ op = "FROMALTSTACK"
     /\ IF alt = <<>> THEN Stop("bad")
        ELSE /\ Continue(Append(stack, alt[Len(alt)]), SubSeq(alt, 1, Len(alt) - 1), mem)
        
\* OP_VERIFY, OP_IFDUP, OP_DEPTH, OP_SIZE, OP_RETURN and what does nothing.  The
\* number that OP_SIZE makes is not pushed.
Simple(op) ==
  \/ /\ op = "VERIFY"
     /\ IF Truth(Value(1)) THEN Continue(Under(1), alt, FreeIn(mem, Top(1)))
        ELSE Stop("bad")
  \/ /\ op = "IFDUP"
     /\ LET n == NewIn(mem, Value(1))
        IN  IF Truth(Value(1)) THEN Continue(Append(stack, n.elem), alt, n.mem)
            ELSE Continue(stack, alt, mem)
  \/ /\ op = "DEPTH"
     /\ LET n == NewIn(mem, FromInt(Len(stack))) IN Continue(Append(stack, n.elem), alt, n.mem)
  \/ /\ op = "SIZE"
     /\ Continue(stack, alt, NewIn(mem, FromInt(Top(1).len)).mem)
  \/ /\ op \in {"RETURN", "RESERVED", "unknown"}
     /\ Stop("bad")
  \/ /\ op \in {"NOP", "CODESEPARATOR"}
     /\ Continue(stack, alt, mem)

\* OP_PICK copies an element to the top: the one at its number modulo 256, which
\* copyByteVectorFromScriptStack takes as a byte.  OP_ROLL puts its address there
\* instead of the element that was on the top, and moves nothing.  The number is
\* not freed.
PickOrRoll(op) ==
  LET n == ToInt(Value(1))
      c == NewIn(mem, Value((n % 256) + 2))
  IN  /\ op \in {"PICK", "ROLL"}
      /\ IF Top(1).len > 4 \/ ~(n \in 0..Len(stack) - 2) THEN Stop("bad")
         ELSE IF op = "PICK" THEN Continue(Append(Under(1), c.elem), alt, c.mem)
         ELSE IF n = 0 \/ Top(n + 2).at = 0 THEN Continue(Append(Under(2), Top(n + 2)), alt, mem)
         ELSE Stop("undefined")

\* OP_EQUAL and OP_EQUALVERIFY, which pushes as well; nothing is freed.
Equal(op) ==
  LET ok == Top(1).len = Top(2).len /\ Value(1) = Value(2)
      n  == NewIn(mem, IF ok THEN <<1>> ELSE <<>>)
  IN  /\ op \in {"EQUAL", "EQUALVERIFY"}
      /\ IF op = "EQUALVERIFY" /\ ~ok THEN Stop("bad")
         ELSE Continue(Append(Under(2), n.elem), alt, n.mem)

\* A number in place of an element: realloc, or free for zero.
Placed(m, e, v) ==
  IF v = <<>> THEN [elem |-> Null, mem |-> FreeIn(m, e)]
  ELSE IF e.at = 0 THEN NewIn(m, v)
  ELSE [elem |-> [at |-> e.at, len |-> Len(v)], mem |-> [m EXCEPT ![e.at] = v]]

\* A number goes to the stack under the top `used' elements.  When it is negative
\* the assertion of convertInt64ToScriptByteVector stops the program, if it was
\* built with assertions: make dev does that, make does not.
PutNumber(used, e, m, n) ==
  LET p == Placed(m, e, FromInt(n))
  IN  \/ n < 0 /\ Stop("assertion")
      \/ Continue(Append(Under(used), p.elem), alt, p.mem)

\* OP_1ADD, OP_1SUB, OP_NOT, OP_0NOTEQUAL
Unary(op) ==
  LET n == ToInt(Value(1))
      b == Placed(mem, Top(1), IF Truth(Value(1)) = (op = "0NOTEQUAL") THEN <<1>> ELSE <<>>)
  IN  /\ op \in {"1ADD", "1SUB", "NOT", "0NOTEQUAL"}
      /\ IF Top(1).len > 4 THEN Stop("bad")
         ELSE IF op = "1ADD" THEN PutNumber(1, Top(1), mem, n + 1)
         ELSE IF op = "1SUB" THEN PutNumber(1, Top(1), mem, n - 1)
         ELSE Continue(Append(Under(1), b.elem), alt, b.mem)

\* OP_NEGATE and OP_ABS change the bytes in place.  OP_NEGATE keeps the address of
\* the bytes that it frees, and loses those that it makes for zero.
InPlace(op) ==
  LET v == Value(1)
      sign == IF op = "NEGATE" /\ v[Len(v)] < 128 THEN 128 ELSE 0
  IN  /\ op \in {"NEGATE", "ABS"}
      /\ IF Top(1).len > 4 THEN Stop("bad")
         ELSE IF Top(1).at = 0
         THEN Continue(stack, alt, IF op = "NEGATE" THEN NewIn(mem, <<128>>).mem ELSE mem)
         ELSE IF op = "NEGATE" /\ v[1] = 128 THEN Stop("undefined")
         ELSE Continue(stack, alt, [mem EXCEPT ![Top(1).at][Len(v)] = (@ % 128) + sign])

\* The numeric operations with two operands.  The second one is freed, the result
\* takes the place of the first.
Binary(op) ==
  LET r == BinaryResult(op, ToInt(Value(2)), ToInt(Value(1)))
      m == FreeIn(mem, Top(1))
  IN  /\ op \in Binaries
      /\ IF Top(1).len > 4 \/ Top(2).len > 4 THEN Stop("bad")
         ELSE IF op # "NUMEQUALVERIFY" THEN PutNumber(2, Top(2), m, r)
         ELSE IF r = 0 THEN Stop("bad") ELSE Continue(Under(2), alt, FreeIn(m, Top(2)))

\* OP_BOOLAND, OP_BOOLOR and OP_WITHIN leave the one byte 0 for false.
Logical(op) ==
  LET used == Needs(op)
      yes  == CASE op = "BOOLAND" -> Truth(Value(2)) /\ Truth(Value(1))
                [] op = "BOOLOR" -> Truth(Value(2)) \/ Truth(Value(1))
                [] op = "WITHIN" -> ToInt(Value(2)) <= ToInt(Value(3)) /\ ToInt(Value(3)) < ToInt(Value(1))
      m    == IF used = 2 THEN FreeIn(mem, Top(1)) ELSE FreeIn(FreeIn(mem, Top(1)), Top(2))
      p    == Placed(m, Top(used), IF yes THEN <<1>> ELSE <<0>>)
  IN  /\ op \in {"BOOLAND", "BOOLOR", "WITHIN"}
      /\ IF \E i \in 1..used : Top(i).len > 4 THEN Stop("bad")
         ELSE Continue(Append(Under(used), p.elem), alt, p.mem)

\* The hashes: the digest is new memory, the element's is freed.
Hash(op) ==
  LET n == NewIn(mem, Digest(op, Value(1)))
  IN  /\ op \in Hashes
      /\ Continue(Append(Under(1), n.elem), alt, FreeIn(n.mem, Top(1)))
 
------------------------------------------------------------------------------
(* Signatures.                                                               *)

\* The end of the four operations: the result is pushed, or has to be true.
Checked(op, used, result) ==
  LET m == [a \in 1..MaxAt |-> IF \E i \in 1..used : Top(i).at = a THEN <<>> ELSE mem[a]]
      n == NewIn(m, IF result THEN <<1>> ELSE <<>>)
  IN  IF op \in {"CHECKSIG", "CHECKMULTISIG"}
      THEN Continue(Append(Under(used), n.elem), alt, n.mem)
      ELSE IF result THEN Continue(Under(used), alt, m)
      ELSE Stop("bad")

\* OP_CHECKSIG, OP_CHECKSIGVERIFY: a zero is no signature and no key.
CheckSig(op) ==
  /\ op \in {"CHECKSIG", "CHECKSIGVERIFY"}
  /\ \/ \E result \in BOOLEAN :
          /\ result => Top(1).at # 0 /\ Top(2).at # 0
          /\ Checked(op, 2, result)
     \/ Top(1).at # 0 /\ Top(2).at # 0 /\ Stop("error")

\* OP_CHECKMULTISIG, OP_CHECKMULTISIGVERIFY, for any answers of ECDSAVerify.  A
\* signature is read although it may be zero.
CheckMultisig(op) ==
  LET keys == ToInt(Value(1))
      sigs == ToInt(Value(2 + keys))
  IN  /\ op \in {"CHECKMULTISIG", "CHECKMULTISIGVERIFY"}
      /\ IF Top(1).len > 4 THEN Stop("undefined")
         ELSE IF keys \notin 0..20 \/ opCount + 1 + keys > MaxOps \/ Len(stack) < keys + 4
         THEN Stop("bad")
         ELSE IF Top(2 + keys).len > 4 THEN Stop("undefined")
         ELSE IF sigs \notin 0..keys \/ Len(stack) < 3 + keys + sigs THEN Stop("bad")
         ELSE \/ sigs > 0 /\ Stop("error")
              \/ \E good \in SUBSET ((1..sigs) \X (1..keys)) :
                   LET r == Multisig(good, {k \in 1..keys : Top(1 + k).at = 0}, sigs, keys)
                   IN  IF \E s \in 1..r.tried : Top(2 + keys + s).at = 0 THEN Stop("null")
                       ELSE Checked(op, 3 + keys + sigs, r.result)

\* Mutant: the keys are counted before their number is checked.
KeyOpsUnchecked(op) ==
  IF op \in {"CHECKMULTISIG", "CHECKMULTISIGVERIFY"} /\ Len(stack) >= 5 /\ Top(1).len <= 4
  THEN ToInt(Value(1)) ELSE 0

\* What CHECKMULTISIG adds to opCount for its keys.
KeyOps(op) ==
  IF op \in {"CHECKMULTISIG", "CHECKMULTISIGVERIFY"} /\ Len(stack) >= 5
     /\ Top(1).len <= 4 /\ ToInt(Value(1)) \in 0..20
  THEN ToInt(Value(1)) ELSE 0

------------------------------------------------------------------------------
(* Branches.                                                                 *)

\* Blocks that are really open: an OP_ENDIF closes the last one, and what is in the
\* data of a push opens and closes none.
Opened(op) ==
  CASE inside = 0 /\ op \in {"IF", "NOTIF"} -> open + 1
    [] inside = 0 /\ op = "ENDIF" -> open - 1
    [] OTHER -> open

\* OP_IF and OP_NOTIF leave their condition on the stack when the block runs.
If(op) ==
  LET runs == Truth(Value(1)) = (op = "IF")
  IN  /\ op \in {"IF", "NOTIF"}
      /\ depth' = depth + 1 /\ open' = Opened(op)
      /\ skip' = IF runs THEN 0 ELSE depth + 1
      /\ stack' = IF runs THEN stack ELSE Under(1)
      /\ mem' = IF runs THEN mem ELSE FreeIn(mem, Top(1))
      /\ UNCHANGED <<alt, inside, lost, status>>

ElseOrEndIf(op) ==
  /\ op \in {"ELSE", "ENDIF"}
  /\ IF depth = 0 THEN status' = "bad" /\ UNCHANGED controlVars
     ELSE /\ depth' = IF op = "ENDIF" THEN depth - 1 ELSE depth
          /\ skip' = IF op = "ELSE" THEN depth ELSE skip
          /\ open' = Opened(op)
          /\ UNCHANGED <<inside, lost, status>>
  /\ UNCHANGED memVars

\* Mutant: a block inside a skipped one is not counted.
SkippedUncounted(op) ==
  CASE op = "ENDIF" -> depth - 1 [] OTHER -> depth

\* ifElseSize after a skipped operation: OP_NOTIF does not count.
Skipped(op) ==
  CASE op = "ENDIF" -> depth - 1 [] op = "IF" -> depth + 1 [] OTHER -> depth

\* The bytes behind the opcode of a push of v: its length, where that has bytes of
\* its own, and the data; none behind that of a number.
Behind(v) == {Len(v) + n : n \in {0, 1, 2, 4}} \cup {n \in {0} : Len(v) = 1}

\* How many of them are to come after a byte of skipped code.
StillInside(op, v) ==
  CASE inside > 0    -> {inside - 1}
    [] inside = 0 /\ op = "PUSH"  -> Behind(v)
    [] inside = 0 /\ op = "short" -> {MaxRead}
    [] OTHER -> {0}

Branches == {"IF", "NOTIF", "ELSE", "ENDIF"}

\* A byte of a block that is skipped.  The walk goes from byte to byte: those of a
\* push are taken for operations.
Skip(op, v) ==
  /\ depth' = Skipped(op) /\ open' = Opened(op)
  /\ skip' = IF op \in {"ELSE", "ENDIF"} /\ depth = skip THEN 0 ELSE skip
  /\ inside' \in StillInside(op, v)
  /\ lost' = (lost \/ op = "NOTIF" \/ (inside > 0 /\ op \in Branches))
  /\ UNCHANGED <<memVars, status>>

------------------------------------------------------------------------------
(* The loop.                                                                 *)

\* Operations that may find no memory for an element.  OP_2OVER and OP_SIZE push
\* what they got in that case only.
Allocating == Hashes \cup
  {"PUSH", "DUP", "OVER", "TUCK", "2DUP", "3DUP", "PICK", "EQUAL", "1ADD", "1SUB", "ADD", "SUB",
   "BOOLAND", "BOOLOR", "WITHIN", "IFDUP", "CHECKSIG", "CHECKMULTISIG", "DEPTH"}
NoMemory(op) ==
  \/ op \in Allocating /\ Stop("error")
  \/ op \in {"2OVER", "SIZE"} /\ Stop("undefined")

Data(op, v) ==
  \/ Push(op, v) \/ AltStack(op) \/ Simple(op) \/ Shuffle(op) \/ PickOrRoll(op) \/ Equal(op)
  \/ Unary(op) \/ InPlace(op) \/ Binary(op) \/ Logical(op) \/ Hash(op)
  \/ CheckSig(op) \/ CheckMultisig(op) \/ NoMemory(op)

Execute(op, v) ==
  IF Len(stack) < Needs(op) THEN Stop("bad") /\ UNCHANGED controlVars
  ELSE If(op) \/ ElseOrEndIf(op) \/ (Data(op, v) /\ UNCHANGED controlVars)

Skipping == skip # 0 /\ depth >= skip

\* Operations up to OP_16 are pushes and are not counted.
Count(op) == IF op \in {"PUSH", "short", "RESERVED"} THEN opCount ELSE opCount + 1

\* A script that names the hash of another one.
NamesHash(n, op, v) ==
  CASE n = 0 -> op = "HASH160"
    [] n = 1 -> op = "PUSH" /\ Len(v) = 20
    [] n = 2 -> op = "EQUAL"
    [] OTHER -> FALSE

\* One round: an operation is counted, refused, skipped or executed.
Read(op, v) ==
  /\ status = "running" /\ read < MaxRead /\ Room
  /\ p2sh = "hash" => NamesHash(read, op, v)
  /\ read' = read + 1 /\ last' = op
  /\ UNCHANGED p2sh
  /\ IF Count(op) > MaxOps \/ op = "disabled"
     THEN opCount' = Count(op) /\ Stop("bad") /\ UNCHANGED controlVars
     ELSE IF Skipping THEN opCount' = Count(op) /\ Skip(op, v)
     ELSE opCount' = Count(op) + KeyOps(op) /\ Execute(op, v)

Result(s) == status' = s /\ UNCHANGED <<memVars, controlVars, opCount, last, read, p2sh>>

\* The end of the script.  One that names the hash of another one is followed by
\* that one, with the stack as it is left and everything else new.
Finish ==
  LET yes == depth = 0 /\ stack # <<>> /\ Truth(Value(1))
  IN  /\ status = "running"
      /\ p2sh = "hash" => read = 3
      /\ \/ ~yes /\ Result("bad")
         \/ yes /\ p2sh # "hash" /\ Result("good")
         \/ /\ yes /\ p2sh = "hash"
            /\ stack' = Under(1) /\ mem' = FreeIn(mem, Top(1)) /\ alt' = <<>>
            /\ depth' = 0 /\ skip' = 0 /\ open' = 0 /\ inside' = 0 /\ lost' = FALSE
            /\ opCount' = 0 /\ last' = "none" /\ read' = 0 /\ p2sh' = "named"
            /\ UNCHANGED status

Next == (\E op \in Operations : Read(op, <<>>)) \/ (\E v \in Vectors : Read("PUSH", v)) \/ Finish

Spec == Init /\ [][Next]_vars

------------------------------------------------------------------------------
(* Properties.                                                              *)

\* The types of the variables.
TypeOK ==
  /\ \A e \in {stack[i] : i \in DOMAIN stack} \cup {alt[i] : i \in DOMAIN alt} :
       e.at \in 0..MaxAt /\ e.len \in Nat
  /\ DOMAIN mem = 1..MaxAt /\ \A a \in 1..MaxAt : \A i \in DOMAIN mem[a] : mem[a][i] \in 0..255
  /\ depth \in Nat /\ skip \in Nat /\ open \in Int /\ inside \in Nat /\ lost \in BOOLEAN
  /\ opCount \in 0..MaxOps + 21 /\ read \in 0..MaxRead
  /\ p2sh \in {"no", "hash", "named"}
  /\ status \in {"running", "good", "bad", "error", "assertion", "null", "undefined"}

\* While a script runs every element of both stacks owns its bytes: they are
\* allocated, have the element's length and belong to no other element, through
\* all copies, moves, reallocations and frees of the operations.
Both == stack \o alt
OwnedOnce ==
  status \in {"running", "good"} =>
    \A i \in DOMAIN Both :
      /\ Len(Bytes(mem, Both[i])) = Both[i].len
      /\ \A j \in DOMAIN Both : Both[i].at = Both[j].at /\ Both[i].at # 0 => i = j

\* A script is accepted with every block closed, and ifElseSize counts the open
\* blocks in executed and in skipped code, unless the code that was skipped held
\* an OP_NOTIF or, in the data of a push, a byte that is an OP_IF, OP_NOTIF,
\* OP_ELSE or OP_ENDIF: the branch that skips looks at every byte.  The script
\* 51 00 63 01 68 is accepted although its OP_IF is never closed.
BlocksBalance ==
  /\ ~lost /\ status = "running" => depth = open
  /\ ~lost /\ status = "good" => open = 0

\* What the comments in the code say of the order of elements, by their values.
Documented(op, s) ==
  LET n == Len(s)
      under(k) == SubSeq(s, 1, n - k)
      num(i) == ToInt(s[n - i + 1])
  IN  CASE op = "DUP"   -> s \o <<s[n]>>
        [] op = "NIP"   -> under(2) \o <<s[n]>>
        [] op = "OVER"  -> s \o <<s[n - 1]>>
        [] op = "PICK"  -> under(1) \o <<s[n - 1 - num(1)]>>
        [] op = "ROT"   -> under(3) \o <<s[n - 1], s[n], s[n - 2]>>
        [] op = "SWAP"  -> under(2) \o <<s[n], s[n - 1]>>
        [] op = "TUCK"  -> under(2) \o <<s[n], s[n - 1], s[n]>>
        [] op = "2DROP" -> under(2)
        [] op = "2DUP"  -> s \o SubSeq(s, n - 1, n)
        [] op = "3DUP"  -> s \o SubSeq(s, n - 2, n)
        [] op = "2ROT"  -> under(6) \o SubSeq(s, n - 3, n) \o SubSeq(s, n - 5, n - 4)
        [] op = "2SWAP" -> under(4) \o SubSeq(s, n - 1, n) \o SubSeq(s, n - 3, n - 2)
        [] op \in Binaries \ {"NUMEQUALVERIFY"} ->
             under(2) \o <<FromInt(BinaryResult(op, num(2), num(1)))>>
        [] op = "NUMEQUALVERIFY" -> under(2)
        [] op \in Hashes -> under(1) \o <<Digest(op, s[n])>>

\* Whatever happens to addresses and memory, these operations leave the values on
\* the stack that their comments describe, except an OP_PICK of the depth 256 or
\* more, which copies an element nearer to the top.
ValuesFollow ==
  [][read' > read /\ ~Skipping /\ status' = "running"
       /\ last' \in (Shuffles \ {"DROP", "2OVER"}) \cup {"PICK"} \cup Binaries \cup Hashes
       /\ (last' = "PICK" => ToInt(Value(1)) < 256)
     => Values(stack', mem') = Documented(last', Values(stack, mem))]_vars
==============================================================================
