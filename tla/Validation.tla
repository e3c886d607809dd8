------------------------------ MODULE Validation ------------------------------
(***************************************************************************)
(* The rules for blocks and transactions (Core/BlockValidationFunction.c)  *)
(* and the Merkle tree (MerkleNode/MerkleNode.c).  A target is its         *)
(* exponent and its mantissa of three bytes; a hash is its 32 bytes, the   *)
(* lowest first, or in a Merkle tree a number.                             *)
(***************************************************************************)
EXTENDS ScriptBytes, Keys

----------------------------------------------------------------------------
(* Targets *)

Target(exponent, mantissa) == [exponent |-> exponent, mantissa |-> mantissa]
MaxTarget == Target(29, 65535)

\* Two compact targets are compared as numbers of 32 bits.
Above(s, t) == s.exponent > t.exponent \/ (s.exponent = t.exponent /\ s.mantissa > t.mantissa)

\* Mutant: a mantissa of which the highest bit is set stays as it is.
LowBitUnmoved(t) == t

\* The highest bit of a mantissa is its sign: it must be clear.
LowBit(t) == IF t.mantissa > 8388607 THEN Target(t.exponent + 1, t.mantissa \div 256) ELSE t

\* calculateTarget, for a time of so many quarters of the interval.  The product
\* of 256 mantissas and the time is kept as high * 256 + low.
CalculateTarget(old, quarters) ==
  LET time == IF quarters < 1 THEN 1 ELSE IF quarters > 16 THEN 16 ELSE quarters
      high == (old.mantissa * time) \div 4
      low  == 64 * ((old.mantissa * time) % 4)
      new  == CASE high >= 16777216 -> Target(old.exponent + 1, high \div 256)
                [] high >= 65536 /\ high < 16777216 -> Target(old.exponent, high)
                [] high < 65536 -> Target(old.exponent - 1, high * 256 + low)
  IN  IF Above(LowBit(new), MaxTarget) THEN MaxTarget ELSE LowBit(new)

\* Long division of 2^256 by the target.
Quotient(t) ==
  LET first == 16777216 \div t.mantissa
      more  == FoldLeft(LAMBDA s, i : [bytes |-> <<(s.rest * 256) \div t.mantissa>> \o s.bytes,
                                       rest |-> (s.rest * 256) % t.mantissa],
                        [bytes |-> Reverse(<<0, first \div 65536, (first \div 256) % 256, first % 256>>),
                         rest |-> 16777216 % t.mantissa], [i \in 1..32 - t.exponent |-> i])
  IN  more.bytes

\* calculateBlockWork: the quotient is written into 32 bytes that were allocated;
\* those above it stay what they were, here `rest', and count as digits.
CalculateBlockWork(t, rest) == Normalised(Quotient(t) \o Repeated(rest, t.exponent - 4))

\* validateProofOfWork: all bytes above the significant part are zero, and the
\* three of that part are not above the mantissa.  The bytes below do not count.
ValidateProofOfWork(hash, t) ==
  /\ ~Above(t, MaxTarget)
  /\ t.mantissa <= 8388607
  /\ \A i \in t.exponent + 1..32 : hash[i] = 0
  /\ hash[t.exponent] * 65536 + hash[t.exponent - 1] * 256 + hash[t.exponent - 2] <= t.mantissa

----------------------------------------------------------------------------
(* Merkle trees *)

\* SHA256 twice, of two hashes.
HashOfTwo(a, b) == (a * 1021 + b * 37 + 11) % 1000003

\* Mutant: the last of an odd number of hashes goes up as it is.
NextLevelLone(level) ==
  [i \in 1..(Len(level) + 1) \div 2 |->
    IF 2 * i > Len(level) THEN level[2 * i - 1] ELSE HashOfTwo(level[2 * i - 1], level[2 * i])]

\* The level above a level; the last of an odd number of hashes is its own sibling.
NextLevel(level) ==
  [i \in 1..(Len(level) + 1) \div 2 |->
    HashOfTwo(level[2 * i - 1], level[IF 2 * i > Len(level) THEN 2 * i - 1 ELSE 2 * i])]

\* createMerkleTree: the levels, from the root down.  There is always one above the hashes.
RECURSIVE CreateMerkleTree(_)
CreateMerkleTree(hashes) ==
  LET up == NextLevel(hashes)
  IN  IF Len(up) = 1 THEN <<up, hashes>> ELSE Append(CreateMerkleTree(up), hashes)

\* getHashListForLevel: below the hashes there is nothing to go to.
HashListForLevel(tree, level) == tree[IF level < Len(tree) THEN level + 1 ELSE Len(tree)]

\* One pass of calculateMerkleRoot over the hashes in their own memory: the hash of
\* the pair at x is stored in place x/2, before the pairs behind are read.
RECURSIVE Pass(_, _, _)
Pass(memory, n, x) ==
  IF x >= n THEN memory
  ELSE Pass([memory EXCEPT ![x \div 2 + 1] = HashOfTwo(memory[x + 1], memory[IF x = n - 1 THEN x + 1 ELSE x + 2])], n, x + 2)

\* calculateMerkleRoot: a single hash is the root itself.
RECURSIVE RootOf(_, _)
RootOf(memory, n) == IF n = 1 THEN memory[1] ELSE RootOf(Pass(memory, n, 0), (n + 1) \div 2)

CalculateMerkleRoot(hashes) == RootOf(hashes, Len(hashes))

----------------------------------------------------------------------------
(* Transactions.  An input has the hash of the transaction and the number of  *)
(* the output it spends, a script and whether its sequence number is final; an *)
(* output has a value and a script.  Amounts are in units of 512 satoshis: all *)
(* that matter here are multiples of it, and TLC has no numbers of 64 bits.    *)

Unit == 512
\* MAX_MONEY: the product of 21000000 and ONE_BITCOIN is one of two ints and is
\* kept modulo 2^32: not 21 million bitcoins but a little more than 15.
MaxMoney == 1510424576 \div Unit

\* calculateBlockReward: so is fifty times ONE_BITCOIN, which makes 7.
CalculateBlockReward(height) == (705032704 \div 2 ^ (height \div 210000)) \div Unit

\* transactionIsFinal: a time of the lock below the threshold is a height.
TransactionIsFinal(tx, time, height) ==
  \/ tx.lockTime = 0
  \/ tx.lockTime < (IF tx.lockTime < 500000000 THEN height ELSE time)
  \/ \A i \in DOMAIN tx.inputs : tx.inputs[i].final

\* transactionGetSigOps
TransactionGetSigOps(tx) ==
  FoldLeft(LAMBDA n, p : n + SigOpCount(p.script, FALSE), 0, tx.inputs \o tx.outputs)

\* Mutant: each value is checked, their sum is not.
OutputsInRangeEach(outputs) == \A i \in DOMAIN outputs : outputs[i].value <= MaxMoney

\* The values and every sum of those up to one are in range.
OutputsInRange(outputs) ==
  FoldLeft(LAMBDA s, o : [ok |-> s.ok /\ o.value <= MaxMoney /\ o.value <= MaxMoney - s.sum,
                          sum |-> IF s.ok /\ o.value <= MaxMoney - s.sum THEN s.sum + o.value ELSE s.sum],
           [ok |-> TRUE, sum |-> 0], outputs).ok

\* isNullByteArray: the place of each byte is added before it is looked at, so
\* that no array of more than one byte is null.
IsNullByteArray(bytes) == \A i \in DOMAIN bytes : bytes[i] + i - 1 = 0

\* The output that an input spends.
Spent(input) == <<input.hash, input.index>>

\* transactionValidateBasic, of a transaction that is not too long.
TransactionValidateBasic(tx, coinbase) ==
  /\ tx.inputs # <<>> /\ tx.outputs # <<>>
  /\ OutputsInRange(tx.outputs)
  /\ IF coinbase THEN Len(tx.inputs[1].script) \in 2..100
     ELSE \A i \in DOMAIN tx.inputs : ~IsNullByteArray(tx.inputs[i].hash)
  /\ \A i \in DOMAIN tx.inputs : \A j \in 1..i - 1 : Spent(tx.inputs[i]) # Spent(tx.inputs[j])
==============================================================================
