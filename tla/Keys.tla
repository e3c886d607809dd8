--------------------------------- MODULE Keys ---------------------------------
(***************************************************************************)
(* Addresses as text: numbers of any size (BigInt/BigInt.c), the base 58   *)
(* code with its checksum (Base58/Base58.c) and the addresses made of them *)
(* (Object/VersionChecksumBytes.c, Network/Address.c).  A BigInt is the    *)
(* sequence of its bytes, the lowest first; a string is the sequence of    *)
(* its characters.                                                         *)
(***************************************************************************)
EXTENDS Integers, SequencesExt

\* BigIntNormalise: zeros at the high end go, but for one.
Normalised(a) ==
  LET used == {i \in DOMAIN a : a[i] # 0}
  IN  IF used = {} THEN <<0>> ELSE SubSeq(a, 1, CHOOSE i \in used : \A j \in used : j <= i)

\* BigIntEqualsAdditionByBigInt.  The memory does not grow with a sum that has a
\* byte more than its parts: BigIntRealloc compares with the length that was
\* already raised.  That byte, a 1, is written behind the memory; what is found
\* there afterwards is `behind'.
Plus(a, b, behind) ==
  LET n == IF Len(a) < Len(b) THEN Len(b) ELSE Len(a)
      digit(s, i) == IF i <= Len(s) THEN s[i] ELSE 0
      sum == FoldLeft(LAMBDA s, i : LET v == digit(a, i) + digit(b, i) + s.carry
                                    IN  [bytes |-> Append(s.bytes, v % 256), carry |-> v \div 256],
                      [bytes |-> <<>>, carry |-> 0], [i \in 1..n |-> i])
  IN  IF sum.carry = 1 THEN Append(sum.bytes, behind) ELSE sum.bytes

\* BigIntEqualsMultiplicationByUInt8
Times(a, n) ==
  LET product == FoldLeft(LAMBDA s, d : LET v == d * n + s.carry
                                        IN  [bytes |-> Append(s.bytes, v % 256), carry |-> v \div 256],
                          [bytes |-> <<>>, carry |-> 0], a)
  IN  CASE n = 0 -> <<0>>
        [] n # 0 /\ a = <<0>> -> a
        [] OTHER -> IF product.carry = 0 THEN product.bytes ELSE Append(product.bytes, product.carry)

\* BigIntEqualsSubtractionByUInt8
Minus(a, n) ==
  LET rest == FoldLeft(LAMBDA s, d : [bytes |-> Append(s.bytes, (d - s.borrow) % 256),
                                      borrow |-> IF d < s.borrow THEN 1 ELSE 0],
                       [bytes |-> <<>>, borrow |-> n], a)
  IN  Normalised(rest.bytes)

\* BigIntFromPowUInt8 of 58; its first step has one byte for a product of two, which
\* are read before anything else is written.
PowerOf58(n) == FoldLeft(LAMBDA a, i : Times(a, 58), <<1>>, [i \in 1..n |-> i])

\* BigIntModuloWith58
Modulo58(a) == FoldRight(LAMBDA d, r : (r * (256 % 58) + (d % 58)) % 58, a, 0)

\* BigIntEqualsDivisionBy58
DividedBy58(a) ==
  LET q == FoldRight(LAMBDA d, s : LET t == s.rest * 256 + d
                                   IN  [bytes |-> <<t \div 58>> \o s.bytes, rest |-> t % 58],
                     a, [bytes |-> <<>>, rest |-> 0]).bytes
  IN  IF a = <<0>> THEN a ELSE IF Last(q) = 0 THEN Front(q) ELSE q

\* BigIntCompareTo58
Below58(a) == Len(a) = 1 /\ a[1] < 58

----------------------------------------------------------------------------
(* Base 58 *)

OneCharacter == 49 \* The character 1, which stands for zero.

\* base58Characters: digits and letters but for 0, I, O and l.
Characters == [i \in 1..58 |-> CASE i <= 9  -> 48 + i [] i > 9 /\ i <= 17 -> 55 + i [] i > 17 /\ i <= 22 -> 56 + i
                                 [] i > 22 /\ i <= 33 -> 57 + i [] i > 33 /\ i <= 44 -> 63 + i [] i > 44 -> 64 + i]

\* The number of a character, without a table.
AlphaIndex(c) ==
  CASE c < 58 -> c - 49 [] c >= 58 /\ c < 73 -> c - 56 [] c >= 73 /\ c < 79 -> c - 57
    [] c >= 79 /\ c < 91 -> c - 58 [] c >= 91 /\ c < 108 -> c - 64 [] c >= 108 -> c - 65

Repeated(v, n) == [i \in 1..n |-> v]

\* How many members at the start of a sequence are v.
Leading(s, v) ==
  LET others == {i \in DOMAIN s : s[i] # v}
  IN  IF others = {} THEN Len(s) ELSE (CHOOSE i \in others : \A j \in others : i <= j) - 1

\* decodeBase58: the sum of what each character stands for, from the last on, and
\* a byte of zeros at the high end for each 1 at the start.
DecodeBase58(str, behind) ==
  LET n == Len(str)
      value == FoldRight(LAMBDA i, a : IF str[i] = OneCharacter THEN a ELSE Plus(a, Times(PowerOf58(n - i), AlphaIndex(str[i])), behind),
                         [i \in 1..n |-> i], <<0>>)
  IN  value \o Repeated(0, Leading(str, OneCharacter))

\* Mutant: zeros at the high end are not written.
EncodeBase58Short(bytes) ==
  LET characters[a \in Seq(0..255)] ==
        IF Below58(a) THEN <<Characters[Last(a) + 1]>>
        ELSE Append(characters[DividedBy58(Minus(a, Modulo58(a)))], Characters[Modulo58(a) + 1])
  IN  characters[Normalised(bytes)]

\* encodeBase58: a 1 for each byte of zeros at the high end, then the number.
EncodeBase58(bytes) ==
  LET characters[a \in Seq(0..255)] ==
        IF Below58(a) THEN <<Characters[Last(a) + 1]>>
        ELSE Append(characters[DividedBy58(Minus(a, Modulo58(a)))], Characters[Modulo58(a) + 1])
  IN  Repeated(OneCharacter, Leading(Reverse(bytes), 0)) \o characters[Normalised(bytes)]

\* The first four bytes of SHA256 twice: they depend on every byte.
CheckSum(bytes) ==
  LET h == FoldLeft(LAMBDA a, b : (a * 257 + b + 1) % 65521, 1, bytes)
  IN  <<h % 256, h \div 256, (h * 7) % 256, (h * 11) % 256>>

\* decodeBase58Checked: the four lowest bytes are the checksum of the others.
DecodeBase58Checked(str, behind) ==
  LET bi == DecodeBase58(str, behind)
  IN  CASE Len(bi) < 4 -> <<>>
        [] Len(bi) >= 4 ->
             IF CheckSum(Reverse(SubSeq(bi, 5, Len(bi)))) = Reverse(SubSeq(bi, 1, 4)) THEN bi ELSE <<0>>

----------------------------------------------------------------------------
(* Addresses: a version byte, the hash of a key, and their checksum *)

\* initializeAddressFromRIPEMD160Hash
AddressFromHash(version, hash) == <<version>> \o hash \o CheckSum(<<version>> \o hash)

\* initializeVersionChecksumBytesFromString: what cannot be decoded is not refused.
BytesFromString(str, behind) == Reverse(DecodeBase58Checked(str, behind))

\* getStringForVersionChecksumBytes
StringOf(bytes) == EncodeBase58(Reverse(bytes))
==============================================================================
