-------------------------------- MODULE MCData --------------------------------
(***************************************************************************)
(* The algorithms that keep no state between calls, each computed for a    *)
(* choice of inputs, and the B-tree, which is filled in several orders and *)
(* then loses elements.  A task is one such computation.                   *)
(***************************************************************************)
EXTENDS SignatureData, AssociativeArray, ScriptValues, Validation

VARIABLE task

vars == <<task, nodes, root, held>>

----------------------------------------------------------------------------
(* Inputs *)

Hash32(n) == Repeated(n, 32)
Content(n) == [i \in 1..n |-> i % 251]
AnInput(n, size)  == <<Hash32(n), n, Content(size), 9>>
AnOutput(n, size) == <<300 * n, Content(size)>>
Tx1 == <<1, <<AnInput(1, 3), AnInput(2, 2)>>, <<AnOutput(1, 1), AnOutput(2, 4)>>, 77>>
Tx2 == <<2, <<AnInput(3, 253)>>, <<AnOutput(3, 1)>>, 0>>
Tx3 == <<1, <<AnInput(4, 1)>>, [i \in 1..5 |-> AnOutput(i, 1)], 5>>
Address(n)      == <<n, Repeated(n, 16), 8333>>
TimedAddress(n) == <<3, n, Repeated(n, 16), 8333>>
ABlock(last)    == <<1, Hash32(1), Hash32(2), 5, 6, 7, last>>

\* The messages: class and fields.
Messages == <<
  <<"PingPong", <<5>>>>,
  <<"InventoryVector", <<1, Hash32(3)>>>>,
  <<"NetworkAddress", Address(3)>>,
  <<"TimedAddress", TimedAddress(3)>>,
  <<"ChainDescriptor", <<<<<<Hash32(1)>>, <<Hash32(2)>>>>>>>>,
  <<"GetBlocks", <<210, <<<<<<Hash32(1)>>, <<Hash32(2)>>>>>>, Hash32(3)>>>>,
  <<"GetBlocks", <<70001, <<<<<<Hash32(1)>>>>>>, Hash32(3)>>>>,
  <<"TransactionInput", AnInput(1, 3)>>,
  <<"TransactionOutput", AnOutput(1, 1)>>,
  <<"Transaction", Tx1>>,
  <<"Transaction", Tx2>>,
  <<"Transaction", Tx3>>,
  <<"Block", ABlock(<<Tx1, Tx2>>)>>,
  <<"BlockHeader", ABlock(2)>>,
  <<"Alert", <<1, 2, 3, 4, 5, <<>>, 6, 7, <<<<Content(3)>>, <<Content(2)>>>>, 8,
               Content(2), Content(3), Content(1), Content(70)>>>>,
  <<"Inventory", <<<<<<1, Hash32(3)>>, <<2, Hash32(4)>>>>>>>>,
  <<"BlockHeaders", <<<<ABlock(1), ABlock(2)>>>>>>,
  <<"AddressBroadcast", <<<<TimedAddress(1), TimedAddress(2)>>>>>>,
  <<"OldBroadcast", <<<<Address(1)>>>>>>,
  <<"Version", <<209, 1, 2, Address(1), 3, Content(20), 4>>>> >>

\* The number of those that can be read back as they were: an address broadcast
\* writes its addresses into copies of its bytes, and a version cannot be read.
ReadBack == 17

\* Numbers of eight bytes around the limits of the four lengths.
Numbers == {[i \in 1..8 |-> IF i < place THEN low ELSE IF i = place THEN at ELSE 0] :
              low \in {0, 255}, at \in {0, 1, 252, 253, 255}, place \in 1..8}

SignatureTypes == {1, 2, 3, 129, 130, 131}
Code == <<1, 7, 172>>

TextTokens == <<Named("NOP10"), Hex(<<1, 2, 3>>), Space, Line>>
LongHex == {Hex(Repeated(10, n)) : n \in {0, 1, 2, 150, 151, 152, 510, 512, 1039, 1040}}
Texts == {[i \in DOMAIN picks |-> TextTokens[picks[i]]] : picks \in BoundedSeq(1..4, 4)}
           \cup {<<Named(name), Space, Named("NOP")>> : name \in ToSet(Names)}
           \cup {<<h, Line, Named("IF")>> : h \in LongHex}

ScriptsOfBytes == BoundedSeq({0, 1, 2, 76, 77, 81, 96, 171, 172, 174}, 4)

\* Amounts: one unit, the reward and the limit of the code, and 50 bitcoins.
FiftyBitcoins == 9765625
Values == {0, 1, CalculateBlockReward(0), MaxMoney, FiftyBitcoins}
\* Inputs 0 and 1 spend two outputs of one transaction, whose hash is all zeros.
AccountInput(n)  == [hash |-> Hash32(n \div 2), index |-> n % 2, script |-> Repeated(172, n), final |-> n = 1]
AccountOutput(v) == [value |-> v, script |-> <<174>>]
Accounts == {[inputs |-> [i \in DOMAIN ins |-> AccountInput(ins[i])], outputs |-> [i \in DOMAIN outs |-> AccountOutput(outs[i])],
              lockTime |-> lock] : ins \in BoundedSeq(0..3, 2) \cup {<<1, 2, 1>>, <<1, 2, 3>>}, outs \in BoundedSeq(Values, 3), lock \in {0, 500}}

Targets == {Target(e, m) : e \in {5, 28, 29}, m \in {32768, 65535, 100000, 8388607}} \ {Target(29, 100000), Target(29, 8388607)}

ShortBytes == [1..3 -> {0, 1, 57, 58, 255}]
KeyHashes == {[i \in 1..20 |-> IF i <= zeros THEN 0 ELSE (first + 12 * i) % 256] : zeros \in {0, 1, 20}, first \in {3, 255}}

\* The orders in which keys 0 to 19 get into the array.
Orders == <<[i \in 1..20 |-> i - 1], [i \in 1..20 |-> 20 - i], [i \in 1..20 |-> (7 * i) % 20]>>
Deletions == 4

----------------------------------------------------------------------------

Idle == [kind |-> "idle"]

Tasks ==
  {[kind |-> "message", n |-> n] : n \in DOMAIN Messages}
    \cup {[kind |-> "number", bytes |-> bytes] : bytes \in Numbers}
    \cup {[kind |-> "signature", type |-> type, input |-> input] : type \in SignatureTypes, input \in 1..2}
    \cup {[kind |-> "text", text |-> text] : text \in Texts}
    \cup {[kind |-> "script", script |-> script] : script \in ScriptsOfBytes}
    \cup {[kind |-> "account", tx |-> tx] : tx \in Accounts}
    \cup {[kind |-> "target", target |-> target, quarters |-> quarters] : target \in Targets, quarters \in 0..17}
    \cup {[kind |-> "tree", hashes |-> hashes] : hashes \in BoundedSeq(1..3, 5) \ {<<>>}}
    \cup {[kind |-> "bytes", bytes |-> bytes] : bytes \in ShortBytes}
    \cup {[kind |-> "address", version |-> version, hash |-> hash] : version \in {0, 111, 255}, hash \in KeyHashes}
    \cup {[kind |-> "multisig", good |-> good, zeros |-> zeros, sigs |-> sigs, keys |-> 3] :
            good \in SUBSET ((1..2) \X (1..3)), zeros \in SUBSET (1..3), sigs \in 0..2}

Init == task = Idle /\ InitArray

Compute ==
  /\ task = Idle
  /\ task' \in Tasks
  /\ UNCHANGED arrayVars

FillArray ==
  /\ task = Idle
  /\ \E order \in DOMAIN Orders : task' = [kind |-> "array", order |-> order, left |-> Deletions, filled |-> 0]
  /\ UNCHANGED arrayVars

InsertNext ==
  /\ task.kind = "array" /\ task.filled < 20
  /\ Insert(Orders[task.order][task.filled + 1])
  /\ task' = [task EXCEPT !.filled = @ + 1]

DeleteNext ==
  /\ task.kind = "array" /\ task.filled = 20 /\ task.left > 0
  /\ \E key \in held : Delete(key)
  /\ task' = [task EXCEPT !.left = @ - 1]

Done ==
  /\ task # Idle
  /\ task.kind = "array" => task.left = 0
  /\ task' = Idle
  /\ IF task.kind = "array"
     THEN nodes' = (1 :> [elements |-> <<>>, children |-> <<Null>>, parent |-> Null]) /\ root' = 1 /\ held' = {}
     ELSE UNCHANGED arrayVars

Next == Compute \/ FillArray \/ InsertNext \/ DeleteNext \/ Done

Spec == Init /\ [][Next]_vars

----------------------------------------------------------------------------
(* Properties *)

\* What a serialiser writes, the deserialiser of the class reads as the same
\* message, to its last byte; so is every number of variable length.  Of the
\* version of a getblocks message (GetBlocks.c:138) only the lowest byte is
\* written, here into an array of zeros: a version of today comes back as another.
RoundTrip ==
  /\ (task.kind = "message" /\ task.n <= ReadBack) =>
       LET class == Messages[task.n][1]
           o     == Messages[task.n][2]
           bytes == Write(class, o, 2000).out
           read  == Read(class, bytes, 0, Len(bytes))
       IN  /\ Write(class, o, 2000).ok /\ read.ok /\ read.at = Len(bytes)
           /\ read.fields = IF class = "GetBlocks" THEN [o EXCEPT ![1] = @ % 256] ELSE o
  /\ task.kind = "number" =>
       LET bytes == EncodeVarLenInt(task.bytes)
       IN  DecodeVarLenInt(bytes, 0) = [value |-> task.bytes, size |-> Len(bytes)]

\* The classes with a function that calculates the length.
CalculatedLength(class, o) ==
  CASE class = "Inventory"    -> InventoryLength(o)
    [] class = "GetBlocks"    -> GetBlocksLength(o)
    [] class = "Transaction"  -> TransactionLength(o)
    [] class = "Block"        -> BlockLength(o)
    [] class = "AddressBroadcast" -> BroadcastLength(TRUE, o)
    [] class = "OldBroadcast"     -> BroadcastLength(FALSE, o)
    [] class = "Version"      -> VersionLength(o)
    [] class = "BlockHeaders" -> HeadersLength(o)
    [] class = "Alert"        -> AlertLength(o)
Calculated == {"Inventory", "GetBlocks", "Transaction", "Block", "AddressBroadcast", "OldBroadcast", "Version",
               "BlockHeaders", "Alert"}

\* What a calculated length lacks: a byte for each header (BlockHeaders.c:86), the
\* lengths of the texts of an alert that are not empty (Alert.c:140).
Missing(class, o) ==
  CASE class = "BlockHeaders" -> Len(o[1])
    [] class = "Alert"        -> Cardinality({i \in 11..13 : o[i] # <<>>})
    [] OTHER -> 0

\* An array of the length that is calculated for a message is filled to its last
\* byte, but one that is calculated for headers or an alert is too short and
\* refused.  In an array that is a byte shorter than the message nothing is
\* written beyond the end, and a message that lost its last byte is refused.
LengthsAgree ==
  task.kind = "message" =>
    LET class  == Messages[task.n][1]
        o      == Messages[task.n][2]
        length == Len(Write(class, o, 2000).out)
        broadcast == class \in {"AddressBroadcast", "OldBroadcast"}
    IN  /\ class \in Calculated =>
             /\ CalculatedLength(class, o) = length - Missing(class, o)
             /\ Write(class, o, CalculatedLength(class, o)).ok <=> Missing(class, o) = 0
        /\ Write(class, o, length).ok
        /\ ~broadcast => ~Write(class, o, length - 1).ok
        /\ (task.n <= ReadBack /\ class \notin {"Inventory", "BlockHeaders"}) =>
             ~Read(class, Write(class, o, 2000).out, 0, length - 1).ok

\* The hash types mean what the protocol says: a signature covers the other
\* inputs unless anyone can pay, their sequence numbers only if it covers all
\* outputs, all outputs, the one that is paired, or none.  As many bytes are
\* written as were allocated.
SignatureCovers ==
  (task.kind = "signature" /\ Signable(Tx1, task.input, task.type)) =>
    LET Data(t)   == SignedData(t, Code, task.input, task.type)
        changed(t) == Data(t) # Data(Tx1)
        other     == 3 - task.input
        kind      == Signs(task.type)
    IN  /\ Len(Data(Tx1)) = SignedSize(Tx1, Code, task.input, task.type)
        /\ changed([Tx1 EXCEPT ![1] = 5]) /\ changed([Tx1 EXCEPT ![4] = 5])
        /\ changed([Tx1 EXCEPT ![2][task.input][4] = 5])
        /\ ~changed([Tx1 EXCEPT ![2][task.input][3] = <<5>>])
        /\ changed([Tx1 EXCEPT ![2][other][2] = 5]) <=> ~AnyoneCanPay(task.type)
        /\ changed([Tx1 EXCEPT ![2][other][4] = 5]) <=> (task.type = 1)
        /\ changed([Tx1 EXCEPT ![3][task.input][1] = 5]) <=> (kind # "NONE")
        /\ changed([Tx1 EXCEPT ![3][other][1] = 5]) <=> (kind = "ALL")

\* After any insertions and deletions, with the splits, loans and merges they
\* cause, the array has the elements put in and not deleted, each once and in
\* order; a search finds them; and its nodes are balanced, none is below half
\* its order but the root, and each points to its parent.
ArrayIntact == ArrayIsSorted /\ ArrayIsBalanced

\* OP_CHECKMULTISIG succeeds just when the signatures can be given to keys that
\* accept them in the same order, no key twice, and no key up to the last of
\* those is a zero: the greedy loop misses no way and invents none.
MultisigInOrder ==
  task.kind = "multisig" =>
    (Multisig(task.good, task.zeros, task.sigs, task.keys).result <=>
       \E keyOf \in [1..task.sigs -> 1..task.keys] :
         /\ \A s \in 1..task.sigs : <<s, keyOf[s]>> \in task.good
         /\ \A s \in 2..task.sigs : keyOf[s - 1] < keyOf[s]
         /\ \A s \in 1..task.sigs, zero \in task.zeros : keyOf[s] < zero)

IsItem(token) == token.is \in {"name", "hex"}

\* Every item but the last is followed by one space or by ends of lines only.
Separated(text) ==
  \A i \in DOMAIN text :
    /\ IsItem(text[i]) /\ i < Len(text) => ~IsItem(text[i + 1])
    /\ text[i] = Space => i > 1 /\ IsItem(text[i - 1]) /\ (i < Len(text) => IsItem(text[i + 1]))

\* The grammar of Script.h:155-168.
Derived(text) == Separated(text) /\ \A i \in DOMAIN text : text[i].is = "hex" => text[i].digits # <<>>

\* What else is taken: 0x without digits, and behind the last item one space
\* among any ends of lines.
Tolerated(text) ==
  LET items == {i \in DOMAIN text : IsItem(text[i])}
      last  == IF items = {} THEN 0 ELSE CHOOSE i \in items : \A j \in items : j <= i
  IN  /\ Separated(SubSeq(text, 1, last))
      /\ Cardinality({i \in last + 1..Len(text) : text[i] = Space}) <= 1

\* The operation of the interpreter that an item of a text stands for.
Meant(item) ==
  CASE item.is = "name" -> [op |-> Opcode(item.name), data |-> <<>>, bad |-> FALSE]
    [] item.is = "hex"  -> LET b == HexBytes(item.digits)
                           IN  [op |-> CASE Len(b) < 76 -> Len(b) [] Len(b) \in 76..255 -> PushData1 [] OTHER -> PushData2,
                                data |-> b, bad |-> FALSE]

\* Script.h:155-168, Script.c:1349: every text of the grammar is compiled, and none
\* but those and the ones of Tolerated, which the grammar does not derive; the
\* interpreter reads exactly the operations and data of the text: no name is taken
\* for a shorter one that it begins with, and data of every length is announced
\* as it is read.
TextReadsBack ==
  task.kind = "text" =>
    LET compiled == FromString(task.text)
        items    == SelectSeq(task.text, IsItem)
    IN  /\ compiled.ok <=> Derived(task.text) \/ Tolerated(task.text)
        /\ compiled.ok => OperationsOf(compiled.data) = [i \in DOMAIN items |-> Meant(items[i])]

\* The signature operations that the interpreter would meet.
SigOpsMet(script, inP2SH) ==
  LET ops == OperationsOf(script)
      worth(i) == CASE ops[i].op \in CheckSigs -> 1
                    [] ops[i].op \in CheckMultisigs ->
                         IF inP2SH /\ i > 1 /\ ops[i - 1].op \in 81..96 THEN ops[i - 1].op - 80 ELSE 20
                    [] OTHER -> 0
  IN  TotalOf([i \in DOMAIN ops |-> worth(i)])

\* The count of signature operations meets the operations that the interpreter
\* executes, data is never counted.  BlockValidationFunction.c:145-201: of the
\* transactions with inputs and outputs, those are let pass that spend no output
\* twice and create, all their outputs together, no more than MAX_MONEY.  That
\* is not what Constants.h:453 says of it, 21 million bitcoins: a transaction of
\* 50 bitcoins, as Block_tests.c:212 makes one, is refused; nor is an input
\* refused that spends the null hash, as BlockValidationFunction.h says.
TransactionRules ==
  /\ (task.kind = "script" /\ Readable(task.script)) =>
       \A inP2SH \in BOOLEAN : SigOpCount(task.script, inP2SH) = SigOpsMet(task.script, inP2SH)
  /\ task.kind = "account" =>
       LET tx    == task.tx
           total == TotalOf([i \in DOMAIN tx.outputs |-> tx.outputs[i].value])
           once  == \A i, j \in DOMAIN tx.inputs : Spent(tx.inputs[i]) = Spent(tx.inputs[j]) => i = j
       IN  /\ TransactionGetSigOps(tx) =
                TotalOf([i \in DOMAIN tx.inputs |-> Len(tx.inputs[i].script)]) + 20 * Len(tx.outputs)
           /\ TransactionValidateBasic(tx, FALSE) <=>
                tx.inputs # <<>> /\ tx.outputs # <<>> /\ once /\ total <= MaxMoney
           /\ \A height \in {499, 500, 501} :
                (TransactionIsFinal(tx, 0, height) /\ height <= tx.lockTime) => \A i \in DOMAIN tx.inputs : tx.inputs[i].final

\* The sum of the last characters from the i-th on, and what the i-th stands for.
SumFrom(str, i) == Normalised(DecodeBase58(SubSeq(str, i, Len(str)), 1))
StandsFor(str, i) == Times(PowerOf58(Len(str) - i), AlphaIndex(str[i]))

\* An addition has a result of more bytes than its parts, the last of which is
\* written behind its memory.
CarriesOut(str) ==
  \E i \in 1..Len(str) - 1 :
    Len(SumFrom(str, i)) > Len(SumFrom(str, i + 1)) /\ Len(SumFrom(str, i)) > Len(StandsFor(str, i))

\* Base58.c:13-104, 200-292: bytes and addresses read back from their text as they
\* were, whatever zeros they begin with, unless all are zeros: of n zeros, n + 2
\* come back.  Where an addition carries out of its memory (BigInt.c:113-123)
\* this is so only if the byte written behind it is still there.
AddressesReadBack ==
  \A behind \in {0, 1} :
    /\ task.kind = "bytes" =>
         LET text == EncodeBase58(task.bytes)
             back == DecodeBase58(text, behind)
         IN  IF task.bytes = <<0, 0, 0>> THEN back = <<0, 0, 0, 0, 0>>
             ELSE back = task.bytes <=> (behind = 1 \/ ~CarriesOut(text))
    /\ task.kind = "address" =>
         LET a    == AddressFromHash(task.version, task.hash)
             text == StringOf(a)
         IN  /\ Len(a) = 25
             /\ BytesFromString(text, behind) = a <=> (behind = 1 \/ ~CarriesOut(text))

\* A target as the 32 bytes of a hash, the lowest first.
AsHash(t) ==
  [i \in 1..32 |-> CASE i = t.exponent -> t.mantissa \div 65536
                     [] i = t.exponent - 1 -> (t.mantissa \div 256) % 256
                     [] i = t.exponent - 2 -> t.mantissa % 256
                     [] OTHER -> 0]

\* The bytes of a number times another of 23 bits.
Product(bytes, n) ==
  LET p == FoldLeft(LAMBDA s, d : LET v == d * n + s.carry
                                  IN  [bytes |-> Append(s.bytes, v % 256), carry |-> v \div 256],
                    [bytes |-> <<>>, carry |-> 0], bytes)
  IN  p.bytes \o LittleEndian(p.carry, 4)

\* Whether one number is below another of as many bytes.
Less(a, b) == \E i \in DOMAIN a : a[i] < b[i] /\ \A j \in i + 1..Len(a) : a[j] = b[j]

\* A new target is one that proofs of work are accepted for, and follows the
\* time: more time never makes it lower, and it stays within a factor of four.
\* The hash that is the target itself is accepted for it and for any higher
\* one, and not for a lower one.  The work (BlockValidationFunction.c:19-47) has
\* the quotient of 2^256 and the target in its low bytes, not of 256^31 as
\* BlockValidationFunction.h:26 says; it is the quotient only if the memory for
\* the work held zeros, and has 32 bytes if the last of that memory was not zero.
TargetsOrdered ==
  task.kind = "target" =>
    LET t    == task.target
        new  == CalculateTarget(t, task.quarters)
        next == CalculateTarget(t, task.quarters + 1)
        work == Quotient(t)
        n    == Len(work) + 4
        high == t.exponent - 4
        whole == [i \in 1..n |-> IF i = 36 - t.exponent THEN 1 ELSE 0]
    IN  /\ new.mantissa \in 32768..8388607 /\ ~Above(new, MaxTarget)
        /\ ~Above(new, next)
        /\ ~Less(AsHash(next), AsHash(new))
        /\ task.quarters <= 4 => ~Less(AsHash(t), AsHash(new))
        /\ ValidateProofOfWork(AsHash(new), new)
        /\ ValidateProofOfWork(AsHash(t), new) <=> ~Less(AsHash(new), AsHash(t))
        /\ ~Less(whole, Product(work, t.mantissa))
        /\ Less(whole, Product(Plus(work, <<1>>, 1), t.mantissa)) \/ Product(Plus(work, <<1>>, 1), t.mantissa) = whole
        /\ CalculateBlockWork(t, 0) = Normalised(work)
        /\ CalculateBlockWork(t, 255) = work \o Repeated(255, high) /\ Len(work) + high = 32

\* The root computed in place is the root of the tree of the same hashes, which
\* has those hashes in its lowest level, and another hash gives another root.
\* With one hash they differ: the tree has a level above it.
MerkleRootsAgree ==
  (task.kind = "tree" /\ Len(task.hashes) > 1) =>
    LET tree == CreateMerkleTree(task.hashes)
    IN  /\ CalculateMerkleRoot(task.hashes) = HashListForLevel(tree, 0)[1]
        /\ HashListForLevel(tree, 5) = task.hashes
        /\ \A i \in DOMAIN task.hashes :
             CalculateMerkleRoot([task.hashes EXCEPT ![i] = 9]) # CalculateMerkleRoot(task.hashes)

\* An operation that the walk of WithoutSeparators leaves where it ends: one without
\* data, or with data by its length whose last byte, which the walk takes for an
\* operation, is neither a push nor a separator.
LeftAtItsEnd(o) ==
  \/ o.op \notin 1..PushData4
  \/ o.op < PushData1 /\ Last(o.data) \notin (1..PushData4) \cup {Opcode("CODESEPARATOR")}

\* Script.c:1115 "Remove code separators for subScript", :1131 "If pushing bytes,
\* skip these bytes": what is signed of a script whose operations all are such are
\* its operations but the separators, with their data.  Of another script data that
\* looks like a separator may go and a separator stay.  The signature here is too
\* long for WithoutSignature to take anything.
SeparatorsRemoved ==
  (task.kind = "script" /\ Readable(task.script)) =>
    LET ops  == OperationsOf(task.script)
        kept == SelectSeq(ops, LAMBDA o : o.op # Opcode("CODESEPARATOR"))
    IN  (\A i \in DOMAIN ops : LeftAtItsEnd(ops[i])) => OperationsOf(SubScript(task.script, <<48, 49, 50>>)) = kept
==============================================================================
