---------------------------- MODULE SignatureData ----------------------------
(***************************************************************************)
(* The bytes that a signature of a transaction signs                       *)
(* (getTransactionInputHashForVerification, Object/Message/Transaction.c). *)
(* A transaction is the sequence of its fields, as in Encoding; inputs are *)
(* numbered from one.  The hash over the bytes is left out.                *)
(***************************************************************************)
EXTENDS Encoding

AnyoneCanPay(type) == type >= 128
Signs(type) == CASE type % 32 = 2 -> "NONE" [] type % 32 = 3 -> "SINGLE" [] OTHER -> "ALL"

\* The transaction has the input, and the output that it is paired with.
Signable(t, input, type) ==
  /\ input <= Len(t[2])
  /\ Signs(type) = "SINGLE" => input <= Len(t[3])

\* sizeOfData, before anything is written.
SignedSize(t, script, input, type) ==
  LET outputSize(o) == 8 + Size(Len(o[2])) + Len(o[2])
  IN  12 + Len(script)
      + (IF AnyoneCanPay(type) THEN 41 ELSE Size(Len(t[2])) + 40 * Len(t[2]))
      + CASE Signs(type) = "NONE"   -> 1
          [] Signs(type) = "SINGLE" -> Size(input) + (input - 1) * 9 + outputSize(t[3][input])
          [] Signs(type) = "ALL"    -> Size(Len(t[3])) + TotalOf([i \in DOMAIN t[3] |-> outputSize(t[3][i])])

\* Mutant: other inputs keep their sequence numbers.
SignedInputsSequenced(t, script, input, type) ==
  LET written(i) == t[2][i][1] \o LittleEndian(t[2][i][2], 4) \o (IF i = input THEN script ELSE <<>>)
                      \o LittleEndian(t[2][i][4], 4)
  IN  IF AnyoneCanPay(type) THEN <<1>> \o written(input)
      ELSE EncodeVarLenInt(UInt64(Len(t[2]))) \o FlattenSeq([i \in DOMAIN t[2] |-> written(i)])

\* The inputs; only the one that is signed has the script, and the sequence
\* numbers of others are zero where the type is exactly NONE or SINGLE.
SignedInputs(t, script, input, type) ==
  LET written(i) == t[2][i][1] \o LittleEndian(t[2][i][2], 4) \o (IF i = input THEN script ELSE <<>>)
                      \o LittleEndian(IF type \in {2, 3} /\ i # input THEN 0 ELSE t[2][i][4], 4)
  IN  IF AnyoneCanPay(type) THEN <<1>> \o written(input)
      ELSE EncodeVarLenInt(UInt64(Len(t[2]))) \o FlattenSeq([i \in DOMAIN t[2] |-> written(i)])

SignedOutputs(t, input, type) ==
  LET written(o) == LittleEndian(o[1], 8) \o VarBytes(o[2])
      blank      == [i \in 1..8 |-> 255] \o <<0>>
  IN  CASE Signs(type) = "NONE"   -> <<0>>
        [] Signs(type) = "SINGLE" -> EncodeVarLenInt(UInt64(input))
                                       \o FlattenSeq([i \in 1..input - 1 |-> blank]) \o written(t[3][input])
        [] Signs(type) = "ALL"    -> EncodeVarLenInt(UInt64(Len(t[3])))
                                       \o FlattenSeq([i \in DOMAIN t[3] |-> written(t[3][i])])

SignedData(t, script, input, type) ==
  LittleEndian(t[1], 4) \o SignedInputs(t, script, input, type) \o SignedOutputs(t, input, type)
    \o LittleEndian(t[4], 4) \o LittleEndian(type, 4)
==============================================================================
