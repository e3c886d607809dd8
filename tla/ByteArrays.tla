------------------------------ MODULE ByteArrays ------------------------------
(***************************************************************************)
(* Numbers in byte arrays (Object/ByteArray.c) and numbers of variable     *)
(* length (Utils/VariableLengthInteger/VarLenInt.c).  Bytes are 0..255 and *)
(* a uint64_t is the sequence of its eight bytes, the lowest first.        *)
(***************************************************************************)
EXTENDS Integers, Sequences

\* writeIntNAsLittleEndianIntoByteArray for n below 2^31.
LittleEndian(n, width) ==
  [i \in 1..width |-> IF i > 4 THEN 0 ELSE (n \div 256 ^ (i - 1)) % 256]

\* The number of a sequence of bytes; 2^31 - 1 stands for all that is larger.
Number(bytes) ==
  LET from[i \in 1..Len(bytes) + 1] == IF i > Len(bytes) THEN 0 ELSE bytes[i] + 256 * from[i + 1]
      large == \E i \in 4..Len(bytes) : bytes[i] >= (IF i = 4 THEN 128 ELSE 1)
  IN  IF large THEN 2147483647 ELSE from[1]

\* A number to compare with a limit; none of the limits is above 10000.
Quantity(bytes) == IF Number(bytes) > 65536 THEN 65536 ELSE Number(bytes)

\* The bytes at an offset; what lies behind the memory reads as zeros.
Slice(memory, offset, length) ==
  [i \in 1..length |-> IF offset + i <= Len(memory) THEN memory[offset + i] ELSE 0]

UInt64(n) == LittleEndian(n, 8)

\* getSizeOfVarLenInt: one byte up to 252, else a marker and two, four or eight bytes.
SizeOfVarLenInt(v) ==
  CASE \E i \in 5..8 : v[i] > 0 -> 9
    [] v[3] + v[4] > 0 /\ \A i \in 5..8 : v[i] = 0 -> 5
    [] \A i \in 3..8 : v[i] = 0 -> IF v[2] > 0 \/ v[1] >= 253 THEN 3 ELSE 1

EncodeVarLenInt(v) ==
  CASE SizeOfVarLenInt(v) = 1 -> <<v[1]>>
    [] SizeOfVarLenInt(v) = 3 -> <<253>> \o SubSeq(v, 1, 2)
    [] SizeOfVarLenInt(v) = 5 -> <<254>> \o SubSeq(v, 1, 4)
    [] SizeOfVarLenInt(v) = 9 -> <<255>> \o v

DecodeVarLenInt(memory, offset) ==
  LET first == Slice(memory, offset, 1)[1]
      width == CASE first < 253 -> 0 [] first = 253 -> 2 [] first = 254 -> 4 [] first = 255 -> 8
      low   == IF width = 0 THEN <<first>> ELSE Slice(memory, offset + 1, width)
  IN  [value |-> low \o [i \in 1..8 - Len(low) |-> 0], size |-> width + 1]
==============================================================================
