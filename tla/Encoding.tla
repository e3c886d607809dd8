------------------------------- MODULE Encoding -------------------------------
(***************************************************************************)
(* How messages become bytes and bytes messages (Object/Message/*.c,       *)
(* Network/Version.c, AddressBroadcast.c, NetworkAddress.c and             *)
(* PingPongMessage.c).  A class is a table of steps, in the order in which *)
(* its functions take them: a check of the length that refuses the         *)
(* message, or a field.  A message is the sequence of its fields; a list   *)
(* is one field, as is a message inside another.                           *)
(***************************************************************************)
EXTENDS ByteArrays, SequencesExt

Size(n) == SizeOfVarLenInt(UInt64(n))

(* Steps.  Need: so many bytes in all.  Room: so many behind the cursor.     *)
Need(n)      == [do |-> "need", n |-> n]
Room(n)      == [do |-> "room", n |-> n]
Num(width)   == [do |-> "int", width |-> width]
Bytes(n)     == [do |-> "bytes", n |-> n]
One(class)   == [do |-> "one", of |-> class]
\* A number of at most `max', with `each' bytes for every one but in `spare' bytes.
Count(max, each, spare) == [do |-> "count", max |-> max, each |-> each, spare |-> spare]
Refused(when) == [do |-> "refused", when |-> when]
RoomEach(n)  == [do |-> "roomEach", n |-> n]
\* As many messages of a class as were counted, each in a section of the rest of
\* the array, or (copied) in a copy of it.
List(class)   == [do |-> "list", of |-> class, copied |-> FALSE]
Copied(class) == [do |-> "list", of |-> class, copied |-> TRUE]
\* A length of at most `max', so many bytes, and `after' more.
Var(max, after) == [do |-> "var", max |-> max, after |-> after]
\* For writing: bytes that are no field, and bytes left as they were.
Raw(bytes)   == [do |-> "raw", bytes |-> bytes]
Low(width)   == [do |-> "low", width |-> width]
PortNumber   == [do |-> "port"]

----------------------------------------------------------------------------
(* Messages of fixed size *)

PingPongReads     == <<Need(8), Num(8)>>
PingPongWrites(o) == <<Need(8), Num(8)>>

InventoryVectorReads     == <<Need(36), Num(4), Bytes(32)>>
InventoryVectorWrites(o) == <<Need(36), Num(4), Bytes(32)>>

\* With a time stamp, or without.
AddressReads(time)     == <<Need(IF time THEN 30 ELSE 26)>> \o (IF time THEN <<Num(4)>> ELSE <<>>) \o <<Num(8), Bytes(16), PortNumber>>
AddressWrites(time, o) == AddressReads(time)

----------------------------------------------------------------------------
(* Lists *)

InventoryReads     == <<Need(37), Count(1388, 0, 0), List("InventoryVector")>>
InventoryWrites(o) == <<Need(Size(Len(o[1])) + 36 * Len(o[1])), Count(1388, 0, 0), List("InventoryVector")>>
InventoryLength(o) == Size(Len(o[1])) + 36 * Len(o[1])

BroadcastReads(time) ==
  <<Need(IF time THEN 30 ELSE 26), Count(30, 0, 0), Copied(IF time THEN "TimedAddress" ELSE "NetworkAddress")>>
BroadcastWrites(time, o) ==
  <<Need((IF time THEN 30 ELSE 26) * Len(o[1])), Count(30, 0, 0), Copied(IF time THEN "TimedAddress" ELSE "NetworkAddress")>>
BroadcastLength(time, o) == Size(Len(o[1])) + Len(o[1]) * (IF time THEN 30 ELSE 26)

ChainDescriptorReads     == <<Need(33), Count(500, 0, 0), RoomEach(32), List("Hash")>>
ChainDescriptorWrites(o) == <<Need(Size(Len(o[1])) + Len(o[1]) * 32), Count(500, 0, 0), List("Hash")>>

\* Mutant: the length of the count is forgotten.
GetBlocksLengthShort(o) == 36 + Len(o[2][1]) * 32

GetBlocksReads     == <<Need(69), Num(4), One("ChainDescriptor"), Room(32), Bytes(32)>>
GetBlocksLength(o) == 36 + Len(o[2][1]) * 32 + Size(Len(o[2][1]))
\* Only the lowest byte of the version is written, into an array of zeros.
GetBlocksWrites(o) == <<Need(GetBlocksLength(o)), Low(4), One("ChainDescriptor"), Bytes(32)>>

----------------------------------------------------------------------------
(* Transactions and blocks *)

InputReads     == <<Need(41), Bytes(32), Num(4), Var(10000, 4), Num(4)>>
InputWrites(o) == <<Need(40 + Size(Len(o[3])) + Len(o[3])), Bytes(32), Num(4), Var(10000, 4), Num(4)>>

OutputReads     == <<Need(9), Num(8), Var(10000, 0)>>
OutputWrites(o) == <<Need(8 + Size(Len(o[2])) + Len(o[2])), Num(8), Var(10000, 0)>>

\* Mutant: an output is taken to be as large as an input.
TransactionReadsCrowded ==
  <<Need(10), Num(4), Count(10000, 41, 10), List("TransactionInput"), Room(5),
    Count(10000, 41, 10), List("TransactionOutput"), Room(4), Num(4)>>

TransactionReads ==
  <<Need(10), Num(4), Count(10000, 41, 10), List("TransactionInput"), Room(5),
    Count(10000, 9, 10), List("TransactionOutput"), Room(4), Num(4)>>

TransactionWrites(o) ==
  <<Need(4 + Size(Len(o[2])) + 5), Num(4), Count(10000, 0, 0), List("TransactionInput"), Room(5),
    Count(10000, 0, 0), List("TransactionOutput"), Room(4), Num(4)>>

TotalOf(s) == FoldLeft(LAMBDA a, b : a + b, 0, s)

TransactionLength(o) ==
  8 + Size(Len(o[2])) + Len(o[2]) * 40 + Size(Len(o[3])) + Len(o[3]) * 8
    + TotalOf([i \in DOMAIN o[2] |-> Size(Len(o[2][i][3])) + Len(o[2][i][3])])
    + TotalOf([i \in DOMAIN o[3] |-> Size(Len(o[3][i][2])) + Len(o[3][i][2])])

HeaderFields == <<Num(4), Bytes(32), Bytes(32), Num(4), Num(4), Num(4)>>

BlockReads(transactions) ==
  <<Need(82)>> \o HeaderFields \o
  (IF transactions THEN <<Need(89), Count(10000, 60, 81), List("Transaction")>> ELSE <<[do |-> "headerEnd"]>>)

BlockWrites(o) ==
  <<Need(81 + Size(Len(o[7])))>> \o HeaderFields \o <<Count(10000, 0, 0), List("Transaction")>>

\* The number of transactions of a header is a field, and a zero follows.
HeaderWrites(o) ==
  <<Need(81 + Size(o[7]))>> \o HeaderFields \o <<Raw(EncodeVarLenInt(UInt64(o[7])) \o <<0>>)>>

BlockLength(o) == 80 + Size(Len(o[7])) + TotalOf([i \in DOMAIN o[7] |-> TransactionLength(o[7][i])])

\* A byte too few for each header.
HeadersLength(o) == Size(Len(o[1])) + 81 * Len(o[1])
HeadersReads     == <<Need(82), Count(2000, 0, 0), List("BlockHeader")>>
HeadersWrites(o) == <<Need(81 * Len(o[1])), Count(2000, 0, 0), List("BlockHeader")>>

----------------------------------------------------------------------------
(* Version.  Its receiving address is not written: it is serialised before it *)
(* gets its section of the message, into the bytes it had.                    *)

VersionWrites(o) ==
  <<Need(46), Num(4), Num(8), Num(8), Raw([i \in 1..26 |-> 0])>> \o
  (IF o[1] < 106 THEN <<>>
   ELSE <<Need(85), Refused(Len(o[6]) > 400), One("NetworkAddress"), Num(8), Need(84 + Size(Len(o[6])) + Len(o[6])), Var(400, 4), Num(4)>>)

VersionLength(o) == IF o[1] < 106 THEN 46 ELSE IF Len(o[6]) > 400 THEN 0 ELSE 46 + 38 + Size(Len(o[6])) + Len(o[6])

----------------------------------------------------------------------------
(* Alerts: a payload in a length of its own, and a signature *)

String(spare) == [do |-> "string", spare |-> spare]

AlertHeadReads ==
  <<Need(47), [do |-> "payload"], Num(4), Num(8), Num(8), Num(4), Num(4), [do |-> "cancels"],
    Num(4), Num(4), [do |-> "agents"], Num(4)>>

AlertTextReads == <<String(2), String(1), [do |-> "reserved"], [do |-> "signature"]>>

VarBytes(b) == EncodeVarLenInt(UInt64(Len(b))) \o b

AgentsSize(o) == TotalOf([i \in DOMAIN o[9] |-> Size(Len(o[9][i][1])) + Len(o[9][i][1])])

AlertPayload(o) ==
  40 + Size(Len(o[6])) + 4 * Len(o[6]) + Size(Len(o[9])) + Size(Len(o[11])) + Len(o[11])
     + Size(Len(o[12])) + Len(o[12]) + Size(Len(o[13])) + Len(o[13]) + AgentsSize(o)

\* alertCalculateLength: the size of the length of a string is forgotten, unless it is empty.
AlertLength(o) ==
  LET text(b)  == IF b = <<>> THEN 1 ELSE Len(b)
      payload  == 40 + Size(Len(o[9])) + Size(Len(o[6])) + 4 * Len(o[6])
                     + text(o[11]) + text(o[12]) + text(o[13]) + AgentsSize(o)
  IN  payload + Size(payload) + Size(Len(o[14])) + Len(o[14])

AlertWrites(o) ==
  <<Need(AlertPayload(o) + Size(AlertPayload(o)) + 1), Raw(EncodeVarLenInt(UInt64(AlertPayload(o)))),
    Num(4), Num(8), Num(8), Num(4), Num(4), Count(10000, 0, 0), List("Number"), Num(4), Num(4),
    Count(10000, 0, 0), List("Text"), Num(4), Var(10000, 0), Var(10000, 0), Var(10000, 0),
    Room(Size(Len(o[14])) + Len(o[14])), Var(10000, 0)>>

----------------------------------------------------------------------------

Reads(class) ==
  CASE class = "PingPong"          -> PingPongReads
    [] class = "InventoryVector"   -> InventoryVectorReads
    [] class = "Inventory"         -> InventoryReads
    [] class = "NetworkAddress"    -> AddressReads(FALSE)
    [] class = "TimedAddress"      -> AddressReads(TRUE)
    [] class = "AddressBroadcast"  -> BroadcastReads(TRUE)
    [] class = "OldBroadcast"      -> BroadcastReads(FALSE)
    [] class = "Hash"              -> <<Bytes(32)>>
    [] class = "ChainDescriptor"   -> ChainDescriptorReads
    [] class = "GetBlocks"         -> GetBlocksReads
    [] class = "TransactionInput"  -> InputReads
    [] class = "TransactionOutput" -> OutputReads
    [] class = "Transaction"       -> TransactionReads
    [] class = "Block"             -> BlockReads(TRUE)
    [] class = "BlockHeader"       -> BlockReads(FALSE)
    [] class = "BlockHeaders"      -> HeadersReads
    [] class = "Alert"             -> AlertHeadReads \o AlertTextReads

Writes(class, o) ==
  CASE class = "PingPong"          -> PingPongWrites(o)
    [] class = "InventoryVector"   -> InventoryVectorWrites(o)
    [] class = "Inventory"         -> InventoryWrites(o)
    [] class = "NetworkAddress"    -> AddressWrites(FALSE, o)
    [] class = "TimedAddress"      -> AddressWrites(TRUE, o)
    [] class = "AddressBroadcast"  -> BroadcastWrites(TRUE, o)
    [] class = "OldBroadcast"      -> BroadcastWrites(FALSE, o)
    [] class = "Hash"              -> <<Bytes(32)>>
    [] class = "Number"            -> <<Num(4)>>
    [] class = "Text"              -> <<Var(10000, 0)>>
    [] class = "ChainDescriptor"   -> ChainDescriptorWrites(o)
    [] class = "GetBlocks"         -> GetBlocksWrites(o)
    [] class = "TransactionInput"  -> InputWrites(o)
    [] class = "TransactionOutput" -> OutputWrites(o)
    [] class = "Transaction"       -> TransactionWrites(o)
    [] class = "Block"             -> BlockWrites(o)
    [] class = "BlockHeader"       -> HeaderWrites(o)
    [] class = "BlockHeaders"      -> HeadersWrites(o)
    [] class = "Version"           -> VersionWrites(o)
    [] class = "Alert"             -> AlertWrites(o)

\* A section of length zero is as long as the array it is a section of.
SectionLength(length, whole) == IF length = 0 THEN whole ELSE length

----------------------------------------------------------------------------
(* Serialisation *)

RECURSIVE Write(_, _, _)

\* One step of a serialiser with an array of `len' bytes; s.next is the next field.
WriteStep(s, step, o, len) ==
  LET at    == Len(s.out)
      v     == o[s.next]
      field(bytes) == [s EXCEPT !.out = @ \o bytes, !.next = @ + 1]
      child(u, class, obj, room, bytes(_)) ==
        LET w == Write(class, obj, room) IN [u EXCEPT !.ok = @ /\ w.ok, !.out = @ \o bytes(w.out)]
      kept(b)   == b
      unset(b)  == [i \in DOMAIN b |-> 0]
  IN  CASE step.do = "need"  -> [s EXCEPT !.ok = len >= step.n]
        [] step.do = "room"  -> [s EXCEPT !.ok = len >= at + step.n]
        [] step.do = "refused" -> [s EXCEPT !.ok = ~step.when]
        [] step.do = "int"   -> field(LittleEndian(v, step.width))
        [] step.do = "low"   -> field(LittleEndian(v % 256, step.width))
        [] step.do = "port"  -> field(<<v \div 256, v % 256>>)
        [] step.do = "bytes" -> field(v)
        [] step.do = "var"   -> field(VarBytes(v))
        [] step.do = "raw"   -> [s EXCEPT !.out = @ \o step.bytes]
        [] step.do = "count" -> [s EXCEPT !.out = @ \o EncodeVarLenInt(UInt64(Len(v)))]
        [] step.do = "one"   -> [child(s, step.of, v, SectionLength(len - at, len), kept) EXCEPT !.next = @ + 1]
        [] step.do = "list"  ->
             [FoldLeft(LAMBDA u, obj :
                         IF ~u.ok THEN u
                         ELSE IF step.copied THEN child(u, step.of, obj, len - Len(u.out), unset)
                         ELSE child(u, step.of, obj, SectionLength(len - Len(u.out), len), kept), s, v)
               EXCEPT !.next = @ + 1]

Write(class, o, len) ==
  FoldLeft(LAMBDA s, step : IF s.ok THEN WriteStep(s, step, o, len) ELSE s,
           [ok |-> TRUE, out |-> <<>>, next |-> 1], Writes(class, o))

----------------------------------------------------------------------------
(* Deserialisation *)

RECURSIVE Read(_, _, _, _)

\* The width the alert takes a length to have, which is right below 253 only.
StringSize(first) == CASE first < 253 -> 1 [] first = 253 -> 2 [] first = 254 -> 4 [] first = 255 -> 8

\* One step of a deserialiser of a section of the memory.
ReadStep(s, step, memory, offset, len) ==
  LET here   == offset + s.at
      var    == DecodeVarLenInt(memory, here)
      v      == Quantity(var.value)
      take(value, n) == [s EXCEPT !.fields = Append(@, value), !.at = @ + n]
      width  == StringSize(Slice(memory, here, 1)[1])
      inPayload(n) == s.payload + s.mark >= s.at + n
      section(at, n) == Slice(memory, offset + at, SectionLength(n, len))
      child(u, class, room) ==
        LET r == Read(class, memory, offset + u.at, room)
        IN  [u EXCEPT !.ok = r.ok, !.at = @ + r.at, !.list = Append(@, r.fields)]
      agent(u, x) ==
        LET a == DecodeVarLenInt(memory, offset + u.at)
            n == Quantity(a.value)
            behind == u.at + a.size
        IN  [u EXCEPT !.ok = @ /\ u.payload + u.mark >= 7 + behind + n + u.n - x,
                      !.at = behind + n, !.list = Append(@, <<Slice(memory, offset + behind, n)>>)]
      listed(u) == [u EXCEPT !.fields = Append(@, u.list)]
  IN  CASE step.do = "need"  -> [s EXCEPT !.ok = len >= step.n]
        [] step.do = "room"  -> [s EXCEPT !.ok = len >= s.at + step.n]
        [] step.do = "roomEach" -> [s EXCEPT !.ok = len >= s.at + step.n * s.n]
        [] step.do = "int"   -> take(Number(Slice(memory, here, step.width)), step.width)
        [] step.do = "port"  -> take(Slice(memory, here, 2)[1] * 256 + Slice(memory, here, 2)[2], 2)
        [] step.do = "bytes" -> take(Slice(memory, here, step.n), step.n)
        [] step.do = "count" ->
             [s EXCEPT !.ok = v <= step.max /\ step.each * v <= len - step.spare, !.n = v, !.at = @ + var.size]
        [] step.do = "var"   ->
             [take(section(s.at + var.size, v), var.size + v) EXCEPT
                !.ok = v <= step.max /\ len >= s.at + var.size + v + step.after]
        [] step.do = "one"   -> LET r == Read(step.of, memory, here, SectionLength(len - s.at, len))
                                IN  [take(r.fields, r.at) EXCEPT !.ok = r.ok]
        [] step.do = "list"  ->
             listed(FoldLeft(LAMBDA u, x :
                               IF ~u.ok THEN u
                               ELSE child(u, step.of, IF step.copied THEN len - u.at ELSE SectionLength(len - u.at, len)),
                             [s EXCEPT !.list = <<>>], [x \in 1..s.n |-> x]))
        [] step.do = "headerEnd" ->
             [take(v, width + 1) EXCEPT
                !.ok = len >= s.at + width + 1 /\ Slice(memory, here + width, 1) = <<0>>]
        [] step.do = "payload" ->
             [s EXCEPT !.ok = len >= var.size + v + 1 /\ v <= 2000 /\ v >= 45,
                       !.payload = v, !.mark = var.size, !.at = var.size]
        [] step.do = "cancels" -> \* Read, but not kept.
             [take(<<>>, var.size + 4 * v) EXCEPT !.ok = s.payload >= 44 + var.size + 4 * v]
        [] step.do = "agents" ->
             listed(FoldLeft(LAMBDA u, x : IF u.ok THEN agent(u, x) ELSE u,
                             [s EXCEPT !.ok = inPayload(7 + var.size + v), !.n = v, !.at = @ + var.size, !.list = <<>>],
                             [x \in 1..v |-> x - 1]))
        [] step.do = "string" ->
             [take(Slice(memory, here + width, v), width + v) EXCEPT !.ok = inPayload(width + v + step.spare)]
        [] step.do = "reserved" ->
             [take(Slice(memory, here + width, v), width + v) EXCEPT !.ok = s.payload + s.mark = s.at + width + v]
        [] step.do = "signature" ->
             [take(section(s.at + width, v), width + v) EXCEPT !.ok = len >= s.at + width + v]

\* A block without transactions is read as a header.
Read(class, memory, offset, len) ==
  LET steps == IF class = "Block" /\ Slice(memory, offset + 80, 1) = <<0>> THEN Reads("BlockHeader") ELSE Reads(class)
  IN
  FoldLeft(LAMBDA s, step : IF s.ok THEN ReadStep(s, step, memory, offset, len) ELSE s,
           [ok |-> TRUE, at |-> 0, n |-> 0, fields |-> <<>>, list |-> <<>>, payload |-> 0, mark |-> 0],
           steps)
==============================================================================
