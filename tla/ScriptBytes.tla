----------------------------- MODULE ScriptBytes ------------------------------
(***************************************************************************)
(* The functions that walk through the bytes of a script (Object/Script.c) *)
(* each in its own way: the interpreter, the count of signature            *)
(* operations, the test for a script hash, and the two that make what a    *)
(* signature signs of a script.  Positions count from zero.                *)
(***************************************************************************)
EXTENDS ByteArrays, ScriptText

At(script, i) == script[i + 1]

\* The bytes behind an operation that give the length of its data.
LengthWidth(op) == CASE op = PushData1 -> 1 [] op = PushData2 -> 2 [] op = PushData4 -> 4 [] OTHER -> 0

DataLength(script, i) ==
  LET op == At(script, i)
  IN  IF op < PushData1 THEN op
      ELSE IF op > PushData4 THEN 0 ELSE Quantity(Slice(script, i + 1, LengthWidth(op)))

\* The operation that the interpreter executes at a position, and where the next one is.
Operation(script, i) ==
  LET op     == At(script, i)
      behind == i + 1 + LengthWidth(op)
      n      == DataLength(script, i)
  IN  [op |-> op, data |-> Slice(script, behind, IF op > PushData4 THEN 0 ELSE n), next |-> behind + n,
       ok |-> /\ behind <= Len(script)
              /\ op \in PushData1..PushData4 => n <= 520
              /\ n <= Len(script) - behind]

\* All operations of a script, while it can be read.
OperationsOf(script) ==
  LET from[i \in 0..Len(script)] ==
        IF i = Len(script) THEN <<>>
        ELSE LET o == Operation(script, i)
             IN  IF ~o.ok THEN <<[op |-> 0, data |-> <<>>, bad |-> TRUE]>>
                 ELSE <<[op |-> o.op, data |-> o.data, bad |-> FALSE]>> \o from[o.next]
  IN  from[0]

Readable(script) == \A i \in DOMAIN OperationsOf(script) : ~OperationsOf(script)[i].bad

\* Mutant: the length of two bytes is not skipped.
SkippedByCountShort(script, i) == i + 1 + (IF LengthWidth(At(script, i)) = 2 THEN 0 ELSE LengthWidth(At(script, i))) + DataLength(script, i)

\* Where ScriptGetSigOpCount goes on.
SkippedByCount(script, i) == i + 1 + LengthWidth(At(script, i)) + DataLength(script, i)

CheckSigs     == {Opcode("CHECKSIG"), Opcode("CHECKSIGVERIFY")}
CheckMultisigs == {Opcode("CHECKMULTISIG"), Opcode("CHECKMULTISIGVERIFY")}

\* ScriptGetSigOpCount: a signature of several keys counts as the number that is
\* pushed before it when the script is named by its hash, else as twenty.
SigOpCount(script, inP2SH) ==
  LET Count(op, last) ==
        CASE op \in CheckSigs -> 1
          [] op \in CheckMultisigs -> IF inP2SH /\ last \in 81..96 THEN last - 80 ELSE 20
          [] OTHER -> 0
      FoldFrom[i \in 0..Len(script) + 1] ==
        [last \in 0..255 |->
          IF i >= Len(script) THEN 0
          ELSE IF LengthWidth(At(script, i)) > 0 /\ Len(script) - (i + 1) < LengthWidth(At(script, i)) THEN 0
          ELSE Count(At(script, i), last)
               + (IF SkippedByCount(script, i) >= Len(script) THEN 0
                  ELSE FoldFrom[SkippedByCount(script, i)][At(script, i)])]
  IN  FoldFrom[0][255]

\* isP2SHScript: a hash of twenty bytes and nothing else.
IsP2SH(script) ==
  Len(script) = 23 /\ At(script, 0) = Opcode("HASH160") /\ At(script, 1) = 20 /\ At(script, 22) = Opcode("EQUAL")

----------------------------------------------------------------------------
(* What a signature signs of a script *)

\* Mutant: data is walked over byte by byte.
WithoutSeparatorsByByte(script) == SelectSeq(script, LAMBDA b : b # Opcode("CODESEPARATOR"))

\* Separators go.  The walk moves over data by its length but not over the byte
\* that gives the length, and lengths of several bytes are not read.
WithoutSeparators(script) ==
  LET from[i \in 0..Len(script) + PushData4] ==
        IF i >= Len(script) THEN <<>>
        ELSE LET op   == At(script, i)
                 move == IF op \in 1..PushData2 THEN op ELSE 1
                 kept == SubSeq(script, i + 1, IF i + move < Len(script) THEN i + move ELSE Len(script))
             IN  (IF op = Opcode("CODESEPARATOR") THEN <<>> ELSE kept) \o from[i + move]
  IN  from[0]

\* removeSignatureFromStackScript: data that is not the signature goes, as many
\* bytes of it as the signature has; the walk ends where the signature does not fit.
WithoutSignature(script, signature) ==
  LET RECURSIVE From(_, _)
      From(bytes, i) ==
        IF i >= Len(bytes) THEN bytes
        ELSE LET op   == At(bytes, i)
                 data == i + 1 + LengthWidth(op)
                 n    == Len(signature)
                 found == Slice(bytes, data, n) = signature
                 rest == IF found THEN bytes ELSE SubSeq(bytes, 1, data) \o SubSeq(bytes, data + n + 1, Len(bytes))
             IN  IF op \notin 1..PushData4 THEN From(bytes, i + 1)
                 ELSE IF data + n >= Len(bytes) THEN bytes
                 ELSE From(rest, data + DataLength(bytes, i))
  IN  IF signature = <<>> THEN script ELSE From(script, 0)

SubScript(script, signature) == WithoutSignature(WithoutSeparators(script), signature)
==============================================================================
