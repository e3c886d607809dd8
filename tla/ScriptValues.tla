----------------------------- MODULE ScriptValues -----------------------------
(***************************************************************************)
(* What the script interpreter (Object/Script.c) computes from the bytes   *)
(* of the elements on its stack: truth, numbers of up to four bytes with   *)
(* the sign in the highest bit, the numeric operations, and which          *)
(* signatures of OP_CHECKMULTISIG are good.                                *)
(***************************************************************************)
EXTENDS Integers, Sequences

\* topElementEvaluatesToTrue: some byte is not zero, and it is not the sign alone.
Truth(v) == \E i \in 1..Len(v) : v[i] # 0 /\ ~(i = Len(v) /\ v[i] = 128)

\* convertScriptByteVectorToInt64, for up to four bytes.
ToInt(v) ==
  LET sum[i \in 0..Len(v)] == IF i = 0 THEN 0
                              ELSE 256 * sum[i - 1] + (v[Len(v) + 1 - i] % (IF i = 1 THEN 128 ELSE 256))
  IN  IF v # <<>> /\ v[Len(v)] >= 128 THEN -sum[Len(v)] ELSE sum[Len(v)]

\* The bytes of a number from the lowest on, and one more when the last has its
\* highest bit set.
FromNat(n) ==
  LET bytes[m \in 0..n] == IF m = 0 THEN <<>>
                           ELSE <<m % 256>> \o (IF m < 256 /\ m > 127 THEN <<0>> ELSE bytes[m \div 256])
  IN  bytes[n]

\* The highest bit of the last byte is set.
Negative(v) == [i \in 1..Len(v) |-> IF i = Len(v) THEN (v[i] + 128) % 256 ELSE v[i]]

\* convertInt64ToScriptByteVector; a negative number gets there where assertions are
\* not compiled in.
FromInt(n) == IF n < 0 THEN Negative(FromNat(-n)) ELSE FromNat(n)

Binaries == {"ADD", "SUB", "NUMEQUAL", "NUMEQUALVERIFY", "NUMNOTEQUAL", "LESSTHAN",
             "LESSTHANOREQUAL", "GREATERTHAN", "GREATERTHANOREQUAL", "MIN", "MAX"}

ToBit(b) == IF b THEN 1 ELSE 0

\* The switch over the numeric operations.
BinaryResult(op, a, b) ==
  CASE op = "ADD" -> a + b
    [] op = "SUB" -> a - b
    [] op \in {"NUMEQUAL", "NUMEQUALVERIFY"} -> ToBit(a = b)
    [] op = "NUMNOTEQUAL"        -> ToBit(a # b)
    [] op = "LESSTHAN"           -> ToBit(a < b)
    [] op = "LESSTHANOREQUAL"    -> ToBit(a <= b)
    [] op = "GREATERTHAN"        -> ToBit(a > b)
    [] op = "GREATERTHANOREQUAL" -> ToBit(a >= b)
    [] op = "MIN" -> IF a > b THEN b ELSE a
    [] op = "MAX" -> IF a < b THEN b ELSE a

Hashes == {"RIPEMD160", "SHA1", "HASH160", "SHA256", "HASH256"}

\* A digest has the right length and depends on the hash and the bytes.
Digest(op, v) ==
  [i \in 1..(IF op \in {"SHA256", "HASH256"} THEN 32 ELSE 20) |->
     (1 + Len(v) + (IF op \in {"HASH160", "HASH256"} THEN 8 ELSE 0) + (IF v = <<>> THEN 0 ELSE v[1] % 64)) % 256]

\* Mutant: a signature that is good leaves the next one the same key.
MultisigSameKey(good, zeros, sigs, keys) ==
  LET from[s \in 1..sigs + 1, k \in 1..keys + 1] ==
        CASE s > sigs -> [result |-> TRUE, tried |-> sigs]
          [] s <= sigs /\ k \in zeros -> [result |-> FALSE, tried |-> s - 1]
          [] s <= sigs /\ k > keys -> [result |-> FALSE, tried |-> s]
          [] OTHER -> IF <<s, k>> \in good THEN from[s + 1, k] ELSE from[s, k + 1]
  IN  from[1, 1]

\* The loop of OP_CHECKMULTISIG over `sigs' signatures and `keys' keys, of which
\* some are zeros; `good' are the pairs that ECDSAVerify accepts.  A key is used
\* once.  Which signatures were tried matters because none is compared with null.
Multisig(good, zeros, sigs, keys) ==
  LET from[s \in 1..sigs + 1, k \in 1..keys + 1] ==
        CASE s > sigs -> [result |-> TRUE, tried |-> sigs]
          [] s <= sigs /\ k \in zeros -> [result |-> FALSE, tried |-> s - 1]
          [] OTHER ->
               LET t == IF <<s, k>> \in good THEN s + 1 ELSE s
               IN  IF sigs - t + 1 > keys - k THEN [result |-> FALSE, tried |-> s]
                   ELSE from[t, k + 1]
  IN  from[1, 1]
==============================================================================
