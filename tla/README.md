# Models and proofs of bitcon-ansi-c

The repository is a bitcoin library in C: byte-level objects (messages, scripts,
keys), a socket event loop, a network communicator that keeps connections to
peers, a wallet file shared with a daemon, and helpers for validation. It is
callback driven: the communicator has no loop of its own, a thread of the event
loop calls its handlers.

This directory holds TLA+ modules translated from that code, TLC configurations
that check them on small instances, and proofs that TLAPS checks for every value
of the constants. All paths below are relative to `src/src/` of the repository.

    NetworkCommunicator.c   = Object/Network/NetworkCommunicator.c
    AddressManager.c        = Object/Network/AddressManager.c
    LibevSockets.c          = Object/LibevSockets/LibevSockets.c
    Script.c, ByteArray.c   = Object/Script.c, Object/ByteArray.c
    Transaction.c           = Object/Message/Transaction.c


## 1. The system

### 1.1 Components

| component | state it keeps | operations | what makes it correct |
|---|---|---|---|
| Connection management (`NetworkCommunicator.c`) | `attemptingOrWorkingConnections`, `numIncomingConnections`, listening sockets, `stoppedListening`, ping timer | start, listen, accept, connect, lose, time out, stop | counters equal the connections there are; both limits hold; a stop closes everything |
| Peer array, network time (`AddressManager.c`) | `peers`, `peersNum`, `networkTimeOffset` | sorted insert, removal with memmove, median | the used slots are the connected peers, once each; the order gives the median |
| Address store (`AddressManager.c`) | 255 buckets of addresses, `addrNum` | add with eviction, take, get, look up, serialise | ordered by time; holds what it points to; a selection takes the newest first |
| Network addresses (`NetworkAddress.c`) | ip, port, `public`, type | compare, serialise | equality means the same ip and port |
| Message session (`NetworkCommunicator.c`, `Peer.c`) | per peer: accepted types, expected responses, header and payload progress, event registrations, timeouts | handshake, discovery, ping and pong, header and payload handlers | two honest ends complete the handshake and stay connected; a quiet end expects nothing |
| Send queue (`Peer.h`, `NetworkCommunicator.c`) | ring of ten messages, front, size | put, send, release | first in, first out; bounded; the send event is registered while it is not empty, and once too often at most |
| Socket event loop (`LibevSockets.c`) | event lists, mutexes, descriptor sets, the thread | create, add, remove, free, dispatch, exit | the registered events are a set that each call changes by one; lists intact under two threads; registered events are waited for; the thread ends |
| Wallet file and daemon (`Bitcoin.c`, `Core/NetworkHelper.c`) | a file of records, a queue of callers | pay, receive, append | no payment twice, none out of nothing, no caller forgotten |
| Script interpreter (`Script.c`) | stack, alt stack, nesting, the memory of the elements | every operation; scripts as text and as bytes | each element owns its bytes; blocks balance; operations do what is documented |
| Block validation (`Core/BlockValidationFunction.c`, `BigInt`, `MerkleNode`) | none | Merkle root, target, work, checks of a transaction | agree with their definitions |
| Object reference counts (`Object/Object.c`, `ByteArray.c`, messages) | counts, shared data | retain, release, share, and what messages do with their parts | every reference accounted for; nothing freed is used |
| Associative array (`Object/AssociativeArray.c`) | a B-tree | insert, find, delete | a sorted, balanced set |
| Variable length integers (`Utils/VariableLengthInteger`) | none | encode, decode | inverse of each other |
| Message serialisation (`Object/Message/*`, `Version.c`, `AddressBroadcast.c`, `PingPongMessage.c`) | none | to and from bytes, lengths | reads back what was written; lengths agree |
| Keys, checksums, Base58 | none | arithmetic, OpenSSL | text reads back as the bytes |
| Peer discovery (`IRC.c`, `NodeDiscovery.c`) | none | blocking network input | - |
| Full node, validator (`Core/FullNode.c`, `Core/FullValidator.c`) | callbacks | forward | `FullValidator.c` is empty |
| JSON parser (`YAJL/`) | vendored | - | - |

### 1.2 How the parts interact

    application --- start, stop, listen, addAddress, sendMessage ---> NetworkCommunicator
    event loop  --- accept, connect, can receive, can send, time-out, timer ---> NetworkCommunicator
    NetworkCommunicator --- add, remove, look up ---> AddressManager
    NetworkCommunicator --- add and remove events, sockets ---> event loop
    NetworkCommunicator --- onReceive, onErrorReceived, onPeerBadTime ---> application
    Bitcoin.c (command line) --- wallet file --- NetworkHelper.c (daemon)

A NetworkAddress is turned into a Peer by `realloc` and back again when the
connection ends, so one object wanders between the address store, the attempts,
the peer array and, after the connection, the store again. Handlers call each
other: an addr message stores addresses, tries new connections and relays to
other peers; a lost peer starts listening again; stopping calls `disconnectPeer`
in a loop over the array that `disconnectPeer` shifts.

### 1.3 What is hard

* order: handlers of many connections interleave in any order, with counters
  that each of a dozen error paths must lower exactly once;
* stale state: slots of the peer array past `peersNum`, the loop of
  `stopNetworkCommunicator` over an array that shrinks, peers released by a
  handler that goes on with them, a list of expected responses moved by bytes;
* protocol: each end says which types it accepts, and a type sent too early
  costs the connection;
* liveness: the receive event of the connecting end is registered by the write
  handler, so an omission anywhere leaves two ends waiting for each other;
* limits: queue of ten messages, list of three responses, two connection limits
  of which one is compared with `==`;
* timeouts: four kinds on one event, the last registered wins;
* the event loop: two mutexes, lists changed while they are walked, and calls
  that return with a mutex held;
* the wallet file: two processes and no lock, and either may be killed;
* memory by hand: elements of a script's stack that some operations copy, some
  move and some lose; parts of messages that share the data of one array and are
  released on a dozen error paths;
* algorithms with many boundaries: a B-tree with loans and merges, four lengths
  of integers, three ways to push data, compact targets, hash types.

`PROJECT.json` lists each of these under `hazards` with its line and the
properties that look for it, or the reason why none does.


## 2. The modules

| module | models | uses |
|---|---|---|
| `PeerArray` | insertion, removal, median of the peer array, as operators | - |
| `Communicator` | one NetworkCommunicator with its AddressManager | `PeerArray` |
| `RingBuffer` | put and front of the send queue, as operators | - |
| `MessageQueues` | abstract: two bounded first-in first-out queues | - |
| `Session` | one connection, both ends | `RingBuffer`, `MessageQueues` |
| `EventRegistry` | abstract: a set of events with calls that add and remove one | - |
| `EventLoop` | the event lists, two threads and `select` | `EventRegistry` |
| `AddressStore` | the buckets of addresses and the loop that takes them out | - |
| `WalletFile` | command lines and daemons of several hosts on their wallet files | - |
| `ScriptValues` | numbers, truth and results of script operations, multiple signatures | - |
| `Script` | `executeScript`: stacks, memory, blocks | `ScriptValues` |
| `Objects` | reference counts, shared data, messages and their parts | - |
| `ByteArrays` | integers in byte arrays, sections, variable length integers | - |
| `Encoding` | serialisers and deserialisers of the messages | `ByteArrays` |
| `SignatureData` | what a signature of a transaction covers | `Encoding` |
| `ScriptText`, `ScriptBytes` | scripts as text; the five walks through the bytes of a script | `ByteArrays` |
| `Keys` | big integers, Base58, addresses | - |
| `Validation` | targets, work, Merkle trees, checks of a transaction | `ScriptBytes`, `Keys` |
| `AssociativeArray` | the B-tree | - |
| `MCCommunicator`, `MCEventLoop`, `MCAddressStore`, `MCWalletFile`, `MCScript` | instances for TLC | each its module |
| `MCData` | inputs and properties of the algorithms without state | `SignatureData`, `ScriptValues`, `Validation`, `AssociativeArray` |
| `Communicator_proofs`, `AddressStore_proofs`, `Session_proofs`, `EventLoop_proofs`, `WalletFile_proofs`, `Script_proofs`, `Objects_proofs` | theorems | TLAPS, each its module |
| `Induction` | induction over the natural numbers, with a set in place of a predicate; what `FoldLeft` computes, for any operator and sequence, instantiated with the operator | TLAPS |

### 2.1 Communicator

Every action is one handler run by the event loop's thread, or one call of the
application. The model follows a pool of objects `Objs`; `obj[o]` is where the
object is: `free`, `stored`, `attempting`, `working`, or `leaked` (retained and
unreachable). The C counters are separate variables, so that they can disagree
with the objects.

| action | code |
|---|---|
| `Start`, `Listen` | `startNetworkCommunicator`, `startListeningToIncomingConnections` |
| `Stop`, `StopRound`, `ExitLoop`, `LoopEnds` | `stopNetworkCommunicator` round by round, `exitEventLoop` |
| `Accept` | `acceptIncomingConnection` |
| `TryConnecting`, and inside `AddressReceived` | `tryConnectingToStoredAddresses`, `connectToPeerUsingNetworkCommunicator` |
| `PeerConnected` | `onPeerConnectCallback`, the failing branches included |
| `PeerLost`, `HeaderRefused`, `TimedOut` | each way to `disconnectPeer` |
| `VersionReceived`, `AddressReceived` | what these messages do to connections and addresses |
| `AddressAdded` | `addAddressToAddressManager` |

Results of socket calls and of the peers are nondeterministic. When the code
reaches undefined behaviour or an assertion, `crash` says which and nothing
happens any more; safety properties are about all that came before. Assertions
are compiled in by `make dev` and out by `make`: where one fails, both
continuations are in the model. What the compared addresses are is kept concrete
enough for the inverted result of `compareNetworkAddresses` (it takes 0, equal,
for false), since the duplicate check, the self check and the lookups all go
through it. A selection of stored addresses that begins at bucket 0 holds the
newest address of a bucket several times (`AddressStore`): `Repeats` says when it
must, and the second attempt with one address, which the first one moved or
released, is `crash = "released"`.

Abstractions: one address family is reachable; an addr message carries one
address; every automatic flag is set; addresses of the store are one bag (the
buckets only matter for the lookup; `AddressStore` has them); allocation does not
fail except in `createNewVersion` (`VersionMayFail`); the communicator is not
restarted after a stop; the application's callbacks do nothing;
`stopNetworkCommunicator` is called on the thread of the event loop, so no
handler runs between its rounds (called from another thread it would race with
every handler, and nothing could be said).

### 2.2 Session

Two ends, `client` (which connects) and `server` (which accepts), and a channel
to each. `peer[e]` is the Peer object end e keeps for the other, with the fields
of `Peer.h` under short names: accepted types, ring of messages with front and
size, expected responses, registered events, and the timeout the receive event
was last registered with.

Handlers are functions from Peer to Peer (`VersionReceived`, `AckReceived`,
`AutoDiscovery`, `AutoPingPongs`, `MessageReceived`, `HeaderReceived`, `Finish`),
because one call of the code runs several of them, sends several messages and may
disconnect in the middle. Actions are the events: `Connected`, `Accepted`,
`Read`, `Write`, the ping timer, calls of the application, time-outs, failures.

`Expect` and `ExpectedAfter` keep the list of expected responses as the code
does, with `memmove` given a count of entries for a count of bytes: `Overwritten`
computes the value that leaves in a 32-bit little-endian entry. Message types
keep their numbers for that reason only.

`writing` counts how often the send event is on the list of the event loop:
`onPeerConnectCallback` adds it before there is anything to send
(NetworkCommunicator.c:211), and `sendMessageToPeer` again for the first message
(:1531). `socketRemoveEvent` then takes off one place or both, by where the event
lies in the list, so `Left` is a choice, unless `RemovesAll` says that a removal
undoes all additions. What is left registered calls the write handler with an
empty queue, although the comment of NetworkCommunicator.c:885 removes the event
because "we have nothing left to send": it reads the message it released before
(`WriteReleased`), and as nothing can be said of what follows, the connection
ends. With `RemovesAll = FALSE` that happens to honest ends, too, and
`HonestStayConnected` would be violated.

Of the event loop `Session` takes the promise of the interface: a registered
event whose socket is ready is called back, again and again. LibevSockets does
not keep it (`EventsPersist` in 2.3, violated), and with it no second message
would ever be read. The properties are about the communicator on top of a loop
that does what it is documented to do.

Assumptions: `responseTimeOut` is longer than any exchange of messages, so a
response times out only when nothing is under way; `heartBeat` is longer than
`responseTimeOut`, so no second ping is sent while a pong is awaited; a socket
call moves a whole header or payload (the code's partial transfers only repeat
the handler); after a refused header, where the code continues with the peer it
released, the connection ends with it; the two ends are different communicators
(no connection to oneself); both run this code; and a version message can be
read and written (the code's `deserializeVersion` calls a function on an address
it has not made yet, see 3.4: with that, no handshake gets anywhere).

`MessageQueues` is what the send queues promise: each handler extends an end's
queue at the back, the write handler takes the first message, a disconnect
empties it, and there are never more than `Max`. `Session` implements it under
the mapping `queues <- [e \in Ends |-> Contents(...)]`, the slots read from front
on, wrapping around.

### 2.3 EventLoop

The lists are cells with `next` pointers in a small memory, because
`handle_connection` walks them without the mutex. The threads are `net`, which
runs `startEventLoop` and calls back, and `app`.

| action | code |
|---|---|
| `Create` | `socketCanAcceptEvent`, `socketDidConnectEvent`, `socketCanSendEvent`, `socketCanReceiveEvent` |
| `Call`, `Walk`, `Add` | `socketAddEvent`: the call, the mutex and the walk, the change |
| `Call`, `Walk`, `Remove` | `socketRemoveEvent` and `socketFreeEvent`, with the returns that keep the mutex |
| `CallUnset` | a call with the address that `socketCanReceiveEvent` never gave |
| `Exit` | `exitEventLoop` |
| `Start`, `Select`, `SelectFails`, `Handle`, `Returned`, `Handled`, `Check` | `startEventLoop` and `handle_connection`, socket by socket |

A call may add an event that is registered already, as NetworkCommunicator.c does
with the send event at 211 and 1531 and with the receive event at 114, 682, 861
and 1206: the walk of `socketAddEvent` goes to the end of the list and looks at no
event, so the list holds it twice. A removal then takes off the first of the two
cells (`Before`, `RemoveAfter`), or both, as `socketRemoveEvent` goes on after it
took off the head; when they are the first two of the list, the second is freed
and stays the head. `broken` is a history of the lists to which that happened, or
on which a freed event was once more (`Breaks`).

`crash` is `unset` or `released` once an address that was never set or memory
that was freed is used. Timers have empty bodies in the code and do not exist
here. `EventRegistry` is the abstract specification, under `registered <- the
events of both lists` and `sound <- broken = {}`: while it is sound, a call changes
the set by at most one event, and nothing else changes it; only the removal of a
registered event (`Break`) ends the promise.

### 2.4 AddressStore

`buckets` are sequences, oldest address first; `refs` are the counts of the
objects; `locs` are the locators `tryConnectingToStoredAddresses` has still to
try, which point at places in buckets from which its own loop removes.

| action | code |
|---|---|
| `Receive` | an addr message: look up, copy, `addNetworkAddressToAddressManager` |
| `AttemptFails`, `PeerEnds`, `Release` | `onPeerConnectCallback` and `removePeerNodeFromAddressManager`, by whether they keep a reference |
| `RemoveAddress` | `removeNetworkAddressFromAddressManager` |
| `Begin`, `Try` | `getAddressesfromAddressManager` and one round of the connecting loop |
| `Reload` | serialise, destroy, deserialise |

`Insert` has both branches: the search for the place in time, and the eviction of
a place drawn by squares. `Turn` is one turn of the loop of
`getAddressesfromAddressManager`, and `Addresses` what it has found after as many
turns as it can take at most (`TurnsFor`; that it has ended by then is proved). The
addresses found are counted in a `uint8_t` while a `uint16_t` of them may be asked
for. Above `CountMax`, 255 in the code, the count starts again from 0 and never
gets there: a loop that began at bucket 0, where there is always an address left,
goes on without end, which counts as `undefined` like whatever has no result;
another one goes on until there are no more addresses (`Asked`), with those after
the first 256 in the places of the first, whose references are lost (`Listed`).
`maxAddressesInBucket` is never initialised, so it is a choice of
the initial state and of `Reload` (0 makes a full bucket divide by zero). The hash
that selects a bucket is a constant `BucketOf`; the random draw is any draw.

### 2.5 WalletFile

Each host has one command line (`client`) and one daemon. `Choose`, `Connect`,
`Send`, `FindEnd`, `Save` are the steps of `sendBitcoin`; `Accept`, `Turn`,
`FindEndOfRecords`, `AppendRecord` those of `daemon`; `Die` kills a command line
between any two. A file is its records, each with the position at which it ends,
and the number of characters behind the closing bracket. A writer finds the
position of the end in one step and writes there in the next, over whatever the
other writer put there: `Kept` is what stays in front of a position, a record of
another length that lies across it being cut in two; what was longer stays as
characters behind the new end; and a position behind the end, where the file was
made shorter in between, leaves the records as they are. A file with a cut record
or with characters behind its end is one that the parser refuses: `RecordsRead`
finds no records in it, so its balance is 0.

Amounts are floats, which `getBalance` adds up one by one. They are counted in
sixty-fourths, `Rounded` is the float nearest to a number, with the even mantissa
of two, and `Exact` the number up to which each has its own (2^24 in the code).
`payments` also keeps, for the property only, whether the sums a payment was
checked against were `Exactly` added. The result of `recv` is stored in an
unsigned number, so the daemon takes the -1 of a connection that broke (`Break`)
for data: it appends the comma that goes before a record, and no record
(`Cut`), after which the file cannot be read any more.

Assumptions: one command line per host at a time; a record arrives in one piece;
the daemon is not killed; the files exist.

### 2.6 Script

One step reads one operation, since a script has no jumps. Elements of the stacks
are addresses with lengths, `mem` the bytes at each: which operation copies,
moves, reallocates or forgets an element is what the module is about.

| operator | operations |
|---|---|
| `Push`, `AltStack`, `Simple`, `Shuffle`, `PickOrRoll` | data, constants, VERIFY, RETURN, the operations on the stack |
| `Equal`, `Unary`, `InPlace`, `Binary`, `Logical`, `Hash` | comparison, arithmetic, digests |
| `CheckSig`, `CheckMultisig` | signatures, which are external |
| `If`, `ElseOrEndIf`, `Skip` | blocks, with `ifElseSize` (`depth`) and `skipIfElseBlock` (`skip`) |
| `Made`, `NewIn`, `FreeIn`, `Placed` | copies and new elements, free, realloc |
| `Read`, `Finish` | the loop, the limits, and the second script of a script hash |

The branch that skips looks at one byte after the other, so the bytes of a push
are operations for it. `open`, `inside` and `lost` are history: the blocks that
are really open, how many bytes of the push being skipped are to come, and whether
the skipping branch missed an OP_NOTIF or took data for a branch. A number an
operation leaves may be negative: `convertInt64ToScriptByteVector` asserts that it
is not, which `make dev` compiles and `make`, with `-DNDEBUG`, does not; both
continuations are in the model. Where the code uses freed memory, or leaves two
elements with the same bytes, the status is `undefined` and the script ends.

### 2.7 Objects

`memory` is the heap (class, count, bytes, fields, data of each object), the
counts of shared data, and two histories, `lost` and `lostShared`: references
that the code forgot without giving them back. A caller creates arrays, inputs,
outputs, inventory vectors, transactions and inventories, adds or hands over
parts, reads (`Deserialize`, `Receive`), writes (`Serialize`) and releases, in
any order. `ReadParent` and `WriteParent` take the point at which the bytes prove
too short; `FailPart`, `UndoWriting` and `UndoAtLockTime` are the error paths
with the loops as they are. `Decrement` lowers a count and with the last reference
runs the destructor of the class on the object, after it left the heap: nobody
looks at an object that is being destroyed. Messages have parts and parts have
arrays, so there is one operator for each depth (`LowerArray`, `LowerLeaf`,
`Decrement`) in place of a recursive one; each is `Lower` with its destructor
(`DestroyByteArray`, `DestroyLeaf`, `DestroyParent`). Each kind of object has
addresses of its own, and memory gives out the lowest that is free; once a bad
pointer was followed (`undefined`) nothing is said of what comes after.

### 2.8 Algorithms

`MCData` chooses one task at a time, an input for one algorithm, and its
invariants compare the results; the B-tree is the only one with state, filled
and emptied step by step. `Encoding` describes every class of message as the
table of steps its functions take, checks of lengths included, so that reading
and writing are two interpretations (`Read`, `Write`) of what the code says
separately, and the functions that calculate a length are a third thing, class by
class. `ScriptBytes` keeps the different ways in which five functions walk
through one script. Targets, proofs of work and the work are computed on bytes;
hashes are external (in a Merkle tree, a pair of numbers). Products of ints wrap
at 32 bits in `MaxMoney` and the reward; amounts are in units of 512 satoshis, of
which all that matter are multiples. What the code reads without having written
it is an argument: the byte `behind` the memory of a sum in `Keys!Plus`, and the
`rest` of the memory for a block's work in `CalculateBlockWork`.


## 3. The runs

| run | result | question |
|---|---|---|
| `communicator_safety` | holds | counters, peer array, both limits, ping timer, in every order of handlers |
| `communicator_handshakefails` | holds | is the connection counter exact when the version message fails |
| `session_safety` | holds | two honest ends: handshake, discovery and pings, with nothing refused, lost or left waiting |
| `session_failures` | holds | failing sockets, refused relays, overflowing queues: FIFO, agreement, writing while queued, however removals work |
| `eventloop_safety` | holds | two threads and the dispatcher on two lists, events added again: intact, one event per call, ending |
| `addressstore` | holds | order, references, locators and selection under eviction, removal, reload |
| `wallet` | holds | payments under overlapping writers, kills, broken connections and rounded sums |
| `script_safety` | holds | memory, blocks and values of every operation |
| `objects` | holds | references and shared data of messages, with refusals |
| `data` | holds | the algorithms against their definitions |
| `communicator_stop` | violated | stopping "Closes all connections" |
| `eventloop_persistent` | violated | events "should be persistent" |

### 3.1 Properties of the passing runs

`Communicator`: `TypeOK`; `CountersMatch` (both counters equal the connections
they count: a decrement missed or doubled in any of the ways a connection ends
would wrap a `uint32_t` or keep listening off for ever); `PeersAreConnected` (the
used slots are exactly the working connections, through memmove and the stale
slots of a stop); `IncomingBounded` (with `listening => numIncoming <
MaxIncoming`, although `disconnectPeer` listens again at any time);
`OutgoingBounded` (the bound the code keeps instead of `maxConnections`);
`PingWhilePeers`.

`Session`: `HonestStayConnected` (no end ever refuses, overflows or times out the
other: each sends only what the other already accepts); `Agreement` (an end that
ended its handshake knows that both have the other's version, which the handlers
of pings dereference); `QuietMeansIdle` (nothing under way implies nothing
expected and not the response timeout); `WritingWhileQueued` (with messages queued
the send event is registered, without which they wait for ever, and it is
registered without need at most once, at the connecting end, where the write
handler then reads a released message); `NeverStalls` (until the handshake is over
at both ends, one of them has something to write or something arrived to read, and
is registered for it: the two never wait for each other); `QueuesInOrder`
(refinement of `MessageQueues`).

`EventLoop`: `ListsIntact` (both lists end, their cells and events exist, unless a
removal broke the list); `RegistrySpec` (refinement of `EventRegistry` as long as
none did); `EndsUnlessBlocked`
(liveness: after `exitEventLoop` the thread ends, except where it is undefined or
a callback waits for a mutex that a removal kept, which does happen).

`AddressStore`: `StoreSound` (buckets ordered by time and each address where it
is looked for; nothing pointed to is released; no object in two slots; locators
still point at theirs while the loop removes) and `Selection` (for up to
`CountMax` addresses: as many as asked for, none twice, the newest first and evenly
over the buckets; started at bucket 0, what it does instead).

`WalletFile`: `LedgerSound` (no payment twice in a wallet, none received before
it was sent, amounts kept, and no wallet with more sent than received, under
all stale writes, as long as nobody types a negative amount, which the prompt
takes, and no payment was checked against sums too large to be exact: without the
last premise TLC finds three times 13 rounded up to 40, which is then sent) and
`CallersServed` (liveness: no caller stays in the queue).

`Script`: `OwnedOnce` (every element owns allocated bytes of its length, and no
two the same), `BlocksBalance` (`ifElseSize` is the number of open blocks and an
accepted script has closed them all, unless it skipped an OP_NOTIF or data with a
byte that is a branch operation), `ValuesFollow` (the values on the stack after an
operation are those its comment describes, wherever they are in memory; OP_DROP
has nothing to say, OP_2OVER does not do what its comment says, and OP_PICK of a
depth from 256 on copies an element nearer to the top: no stack here is so deep,
and only the theorem sees it).

`Objects`: `CountsAccounted` (each count is the caller's references, the pointers
and the lost ones; so is the count of shared data) and `NothingFreedUsed`.

`MCData`: `RoundTrip` (messages read back as written, but for the version of a
getblocks message), `LengthsAgree` (calculated lengths are those written, but for
what `Missing` counts), `SignatureCovers`, `ArrayIntact`, `MultisigInOrder`,
`TextReadsBack` (compiled are the texts the grammar derives and those of
`Tolerated`, and they read back), `TransactionRules` (which transactions pass, with
the limit there is), `AddressesReadBack` (except all zeros, and where the byte
behind the memory was changed), `TargetsOrdered` (order, proofs, and the work for
memory that held zeros or did not), `MerkleRootsAgree`, `SeparatorsRemoved` (of the
scripts whose operations the walk leaves at their end). Each is stated in full
before its definition; where the code does something other than its documentation
says, the property says what the code does and 3.4 lists the difference.

### 3.2 Bounds

* `communicator_safety`: three objects, two addresses with one port (so that
  the inverted comparison can match them), limits 2 and 1. Three objects are one
  more than `maxConnections`, so limits are reached and exceeded, an incoming
  and two outgoing connections coexist, and a stop meets stale slots. All clock
  offsets are 0 here: they do not influence the properties of this run.
  Objects are symmetric. `VIEW LiveState` drops fields that no handler reads
  before writing them (the address of a free object, connection data of an
  object without a connection). `CounterMax = 7` is above the largest sum of
  limits, as 2^32 - 1 is in the code; a counter that wraps would show as 7.
* `communicator_handshakefails`: two objects, three addresses, and at most three
  slots in the array (`PeersBound`): a failed version message leaves its peer in
  the array and the object may join again, without end.
* `session_safety`: queue of five slots in place of ten. The automatic messages
  of one connection fill it and never need a sixth slot (with six there are as
  many states, and none has six messages), so nothing is dropped, and the front
  wraps around, which `NextFrontUnwrapped` as a mutant shows. One ping at each
  end, at any time after its handshake. A removal undoes all additions here
  (`RemovesAll`): otherwise the write handler is called without a message, see 2.2.
* `session_failures`: queue of three slots, one request and one relayed message
  at each end: the ring wraps, fills, and overflows in a handler that has to
  disconnect for it. A removal may leave one of two additions.
* `eventloop_safety`: two input events, one output event and one receive event
  for two sockets, four cells, two calls for each thread (`CallsMax`): an
  addition and a removal in each thread overlap in every way with a walk, an event
  is added twice and removed or freed, cells are reused, and a list has an inner
  cell to remove.
* `addressstore`: two buckets, of which key 3 and key 5 share one, two times,
  four objects (symmetric), and buckets of at most three addresses or of none
  (`MaxSizes`): buckets fill, evict below and above the place of insertion, and a
  selection goes round more than once. `CountMax = 3` in place of 255, and up to
  `MaxNum = 4` addresses are asked for, one more than the count can reach.
  `MaxRefs = 2` bounds the references that a failed public attempt leaks.
* `wallet`: two hosts, three payments (so a caller waits while another is talked
  to, and both writers of a file overlap), the amounts 13 and 40, whose records
  have different lengths (so a stale position may lie inside a record), and the
  initial 13 that each wallet has received. `Exact = 32` in place of 2^24: a wallet
  that received 13 three times has a balance of 40. Users pay no more after `MaxPayments`.
* `script_safety`: three operations after each of ten stacks that make every
  operation's guard true and false, twice for a script hash; six vectors, among
  them zero, negative zero, a number of two bytes and one too long to be a
  number; limits of 4 operations and 7 elements in place of 201 and 1000, so that
  both are hit; memory that always has three free places.
* `objects`: two arrays, one part and one message made by the caller, messages
  of up to two parts read from bytes, eight objects of a kind alive, and a message
  is written again until one reference was lost (`MaxLost`). Two parts distinguish
  the first, the last and the one that fails; lengths are choices.
* `data`: messages of every class with lists of up to five parts and lengths on
  both sides of 253; numbers on both sides of every length; scripts of up to four
  bytes and texts of up to four tokens, with data on both sides of 76 and 256 and
  of the limits; twenty keys in three orders with `BTreeHalfOrder = 2` in place of
  the code's, which splits the root twice, and any four deletions, which borrow
  from both sides and merge; amounts up to 50 bitcoins, more than the limit of the
  code; bytes whose sums carry out of their memory; work of short and long targets.
* `communicator_stop` has the bounds of `communicator_safety`,
  `eventloop_persistent` those of `eventloop_safety`.
* Deadlock is not an error in the runs of `Communicator`, `Session`, `EventLoop`,
  `AddressStore`, `WalletFile`, `Script` and `Objects`: bounded counters run out,
  a script ends, and behaviour that is undefined is not followed.

### 3.3 Fairness

`EventLoop!FairSpec` has weak fairness on the steps of the
network thread (threads are scheduled, callbacks return) and on a call that may
go on; not on the application making calls, on `Exit`, or on `select` finding a
socket ready. `WalletFile!Spec` has it on the daemon, a loop that only waits in
`select` with a time-out, and on the step in which a command line that is
connected sends; not on the user, who may also kill it, nor on `Break`: a
connection need not fail. The others state none: none of their properties needs
any. `Session` has none on purpose: LibevSockets does not call back a socket a
second time (`EventsPersist`), so a property that a handshake completes would rest
on a fairness that this code does not have. `NeverStalls` says instead, of every
state, that what the handshake waits for next is registered.

### 3.4 Disagreements found

The first is the violation run `communicator_stop`, the end of the ninth the run
`eventloop_persistent`, quoted in `PROJECT.json`; the others are facts of the
models that were met on the way, each at the definition that has it.

1. `stopNetworkCommunicator` disconnects only what is in the peer array; attempts
   stay open, and each disconnection may listen again after the socket was
   closed.
2. `maxConnections` is compared with `==` after counting in
   `acceptIncomingConnection`, and `disconnectPeer` listens again on the incoming
   limit alone: the total exceeds it (`OutgoingBounded` and `TotalBounded` say by
   how much).
3. `compareNetworkAddresses` uses the result of `compareByteArrays` as a truth
   value, so look-ups find a different ip with the same port (`Matches`).
4. A public address whose connection attempt times out is retained and lost.
5. A peer that is accepted and lost before its version message goes to the store
   without a type; connecting to it fails an assertion, or drops it.
6. Removing an expected response moves bytes instead of entries: with two
   expected, the second becomes a type no message has, and the peer is timed out
   (`Overwritten`).
7. The case for pings in `sendMessageToPeer` has no `break`; pings to peers before
   version 60000 carry eight bytes, which the receiver of the same code refuses.
8. An addr message is relayed to peers that have not finished their handshake,
   which drop the connection for it.
9. `socketRemoveEvent` returns at two places with the mutex of the list held: the
   next call on that list waits for ever, and when a callback makes it, the thread
   of the loop never ends (`Blocked`). `socketCanReceiveEvent` never returns the
   event it made. An event that was added twice, as the communicator does, leaves a
   list whose head is freed, or an event that is freed and still on it (`Breaks`).
   The descriptor sets are computed once and a socket that was ready leaves them
   for good, although the documentation of the interface wants events "persistent"
   (`EventsPersist`).
10. `getAddressesfromAddressManager` started at bucket 0 repeats the newest
    address of each bucket, and the communicator then uses an address it moved or
    released (`Repeats`). It counts in a `uint8_t`: asked for 256 or more it never
    ends from bucket 0, and from another one overwrites the first it found
    (`Asked`, `Listed`). `removeNetworkAddressFromAddressManager` releases the
    ip of the address that took the slot, and never the object.
    `maxAddressesInBucket` is never initialised.
11. Both writers of a wallet file lose records of the other; a shorter record over
    a longer one, or one written into the middle of another, leaves characters or
    a cut record that make the file unreadable; the prompt takes a negative
    amount, which the balance covers and which raises it; a command line
    killed between sending and saving leaves a payment unrecorded, and one whose
    record was not received records it; the daemon, which has closed its standard
    input, takes a second caller for a line of input and hangs up on the first.
    Balances are sums of floats, which above 2^24 may be more than was received; a failing `recv`
    appends a comma without a record, after which the file is unreadable.
12. Script: the branch that skips does not count OP_NOTIF and takes pushed bytes
    for operations, so that 51 00 63 01 68 is accepted with a block open; the depth
    of OP_PICK is cut to a byte; a negative result fails an assertion where those
    are compiled in; OP_2OVER pushes its copies only when there is no memory.
13. Writing a transaction forgets the bytes its parts had; when it is refused, it
    frees the bytes of parts with `destroyObject`, so their data is never given
    back, and runs over the inputs with the number of outputs and the other way
    round; `createNewTransactionFromByteArray` sets no destructor; a refused
    inventory leaves a vector without a hash, whose destructor follows it.
14. `MAX_MONEY` ("21 million Bitcoins") and `50 * ONE_BITCOIN` do not fit an int:
    the limit is that of about 15 bitcoins and the reward about 7, and the
    transaction of 50 bitcoins of `Block_tests.c` would be refused. Inputs that
    spend the null hash are not: `isNullByteArray` adds the place of a byte to it.
    `calculateBlockWork` leaves the high bytes of its result as memory had them, and
    divides 2^256, where BlockValidationFunction.h:26 says 256^31.
    The sum of big integers writes its last carry behind its memory (`Plus`).
    `validateProofOfWork` does not look at the low bytes of a hash whose
    significant bytes equal the target's. `createMerkleTree` and
    `calculateMerkleRoot` differ for one hash. Base58 of nothing but
    n zeros reads back as n + 2, and its encoder writes behind its string.
15. `deserializeVersion` reads an address before it was made and can only crash;
    it reads the nonce as two bytes; `GetBlocks` writes one byte of the version, so
    that of today comes back as another;
    `serialiseAddressBroadcast` writes addresses into copies of its bytes;
    `alertCalculateLength` does not count the lengths of its texts, nor the function
    for block headers a byte of each header, so both messages are refused when
    they are written with the length that was calculated;
    `deserializeBlockHeaders` counts its place in 16 bits; an empty script is read
    as all the rest of its array.
16. The walk that removes separators from a script misses the byte that announces
    data, so it removes data and overlooks separators (`LeftAtItsEnd` says where it
    does not); the removal of a signature has its comparison inverted, and takes
    out data that is not the signature.
17. More texts are compiled to scripts than the grammar of Script.h:155-168
    derives: 0x without digits, and a space at the end.

Smaller facts: `socketBind` overwrites the listening descriptor before it knows
whether it can bind, so the socket that is open can no longer be closed
(`fdKnown`); a peer's place in the sorted array is that of offset 0, and is not
corrected when its version message reports another one, so the middle slot is not
the median; a version message that cannot be made leaves the peer in the array
after its connection was undone, which is why `PeersAreConnected` is checked and
proved for `VersionMayFail = FALSE`; `rand() % (peersNum - 1)` divides by zero
with a single peer (`crash = "division"`); `disconnectPeer` is called with a
stored address, not a peer, when a version message names one (`crash =
"notpeer"`).


## 4. What is proved

Proofs are hierarchical and checked by TLAPS from nothing, with SMT, Zenon and
LS4. They hold for every value of the constants within the assumptions each
module names.

**Communicator_proofs** (assumes `VersionMayFail = FALSE`; limits are positive
and their sum is below `CounterMax`): `TypeCorrect`, `CountersCorrect`,
`PeersCorrect`, `IncomingLimitRespected`, `OutgoingLimitRespected`, `PingCorrect`,
`TotalBounded`. The inductive invariant
`IndInv` is the conjunction of the checked properties with two facts they need:

* `StopInRange`: the loop of a stop stays inside the array, stale slots
  included. Without it `peers[stopIndex + 1]` has no value.
* `RoomUntilStopped`: as long as listening was never stopped there is room for an
  incoming connection. Without it `IncomingBounded` is not inductive: the
  application may call `startListeningToIncomingConnections`.

`PeersAreWorking` states the peer array through sets (`Used`, `Distinct`), for
which there are lemmas first: insertion adds one, `RemovedUses` removal
leaves the others once each, whatever the stale slots hold. Counting uses
`FS_AddElement` and `FS_RemoveElement`: a connection that joins or leaves changes
each counter by exactly what its set changes by, which is where a doubled
decrement would not go through.

**AddressStore_proofs** (assumes that the memory `Objs` is finite and that the
bounds are natural numbers): `StoreStaysSound` (`StoreSound`), which holds however
many addresses are asked for, and `SelectionStaysFair` (`Selection`, about up to
`CountMax` of them). `IInv`
adds three things to the checked property. `Apart`: an object is in one slot of
one bucket, or in one address of the communicator, or in neither; `RefsCover`: its
count is at least the locators that point to it and one for whoever has it. From
these a free object is nobody's (`ReceiveSafe`), and an address that comes back is
in no slot. `Descending`: of two locators into one bucket the later points below
the earlier. `Pointing` is not inductive without it, since the connecting loop
removes the slot of the locator it has just used, which moves everything above.
What is left of more locators than can be counted is the end of them
(`ListedHeld`), so the same three things hold of it.
`ReplaceKeeps` is the eviction: the place found before the removal is still the
right one when it is lowered exactly if the evicted address was below it
(`PlaceFits`, `InsertKeeps`, `RemoveKeeps`).

What the selection gives follows from an invariant of its loop, in two forms.
`Rounds`, for a loop that did not begin at bucket 0: of every bucket exactly the
newest were found, as many as the visits to it, and each bucket was visited
`index` or `index + 1` times, depending on where it lies between the first bucket
and the present one. `Flat`, for one that did: the depth stays 0. Both are
kept by `Turn` (`TurnRounds`, `TurnFlat`), with the buckets that had nothing left
since `firstEmpty` (`Empties`). That the loop ends is `TurnCounts` and
`SelectionEnds`: a turn finds an address or passes one bucket more without, so
`TurnsFor` turns are enough. `RoundsSelect` counts: what is found is an injection
into the places of the buckets, of which `Total` is the number (`TotalIs`), and a
surjection when the loop ended because no bucket had any left.

**Session_proofs** (assumes `QueueMax` positive): `TypeCorrect`,
`WritingCorrect`, `QueuesCorrect`, `HandshakeAgrees`. Handlers being functions,
the argument is about pairs of Peers: `Keeps(p, q)` says that a handler that turned p into q left it
well formed and only extended its queue, or disconnected it. It is proved for
`Send` and `Disconnect`, is transitive while the connection is up
(`KeepsTransitive`), and so composes through every handler up to
`HeaderReceived`. The write handler satisfies `Takes` instead: the queue loses
its first message. Every step is one of the two (`NextHandled`), or, where a
connection is made, a registration and then a handler; `HandledBy` states both at
once. Well formed includes that no event is registered for a connection that is
not up: without it a read could begin on a peer that was disconnected, and its
handlers would extend a queue that was dropped. For `WritingCorrect` it includes
how often the send event is registered without need, `Surplus`: a handler never
raises it, `Tidy` says when a removal clears it, and only the end that connects
begins with one. Nothing is assumed of what a removal leaves: the theorem is for
both values of `RemovesAll`. `QueuesCorrect` is the refinement: each step
maps to `Extend`, `Take`, `Drop` or a stutter of `MessageQueues`. The lemmas about
`RingBuffer` carry the arithmetic: `PutAppends` (the slot computed with `%` is the one after
the last message) and `NextFrontIsTail` (the step by step front agrees with it).

`HandshakeAgrees` (`Agreement`) needs what the ends know of each other, and that
cannot be said of one Peer alone. `Informed(p, other)` relates a Peer to whether
the other end has this end's version: an acknowledgment waits in its queue only if
it has the other's version; it accepts a ping only if both have each other's; and
once it sent its own version, it accepts or reads one only if the other end has
that. `HandshakeInv` adds that an acknowledgment on the
wire comes from an end that has the version. `Informs` composes through the
handlers as `Keeps` does; the wire enters only in `ReadTells` and `WriteTells`,
the places where an end learns something of the other. An end that sent its
version accepts nothing but the acknowledgment until it came, so the version it
accepts afterwards may end the handshake: that conjunct is the one that makes the
invariant inductive.

**EventLoop_proofs** (assumes finitely many `Cells`, the memory, and sockets that
are numbers): `LoopTyped`, `ListsStayIntact`, `LoopImplementsRegistry`. Callers may
add an event as often as they like. `Following` collects the cells of a list in a
recursive function of the number of steps, so the first lemmas replace it:
`ReachExists` says that there is such a function, by induction over the steps, and
`AlongPath` that what it collects from a cell whose path ends is exactly the cells
of that path, since a path in finite memory that repeats no cell is no longer than
the memory.
From there on the proof is about paths: `EndsAppended`, `EndsBehind` and
`EndsUnlinked` say what a changed pointer does to a list. The invariant `IInv` has
four parts: `TypeOK`; `ListsInv`, a list that did not break ends and holds existing
cells and events of its mode; `Locked`, a list that broke has its mutex held by a
call that is over, since the branch that breaks it returns without unlocking; and
`CallsInv`, a call that walked holds the mutex of its list and stands where an
addition or a removal of its event belongs, and no two calls have the same event.
`Locked` is what keeps every later change off a broken list, so that nothing has to
be known of what it holds. The last part is needed because a call changes
the list one step after it looked for its place: `Stops` is still true then only
because every other change of that list needs the mutex, and because callers
do not use one event in two calls at a time, which the code leaves to them. As an
event may have several cells, a removal is about the first of them: `RemoveAfter`
is the place before it, of which there is one because of any cells of a list one
is followed by the others. `LoopImplementsRegistry` follows: `AddLists` and `RemoveLists` say that a
change of the pointers adds or removes one event of the registered set.

**WalletFile_proofs** (assumes integer amounts, positive lengths of records and a
first record that is not negative): `LedgerStaysSound`, the whole of
`LedgerSound`. `PaidOnce` needs to know at which step of which process a payment is:
`ClientSound`, `DaemonSound` and `QueueSound` say that a payment about to be
recorded is not in that file yet, and that the daemon records only what it
received. `SentCovered` compares sums over a file that two writers truncate at
positions they looked up earlier, and no bound on the whole file is inductive:
`ClientSums` says that what was sent, with the payment in progress, is covered by
what was received *before the position the command line looked up*, and
`DaemonSums` that everything received is before the position of the daemon, so
that its stale write loses only sent records. Both lean on `Ordered`: positions
grow along a file. Sums are folds; `FoldAppend` of `Induction` (the fold of a
sequence and one more element) is proved for an arbitrary operator from the
library's definition of `FoldLeft`, and the proof instantiates it with the two
additions.

The balance is the exact difference only while the sums are small enough to be
added exactly (`Rounded` is then the identity, record by record), which `SentCovered`
has as a premise and `exact` remembers for each payment. A record that `recv` left
empty makes the file unreadable, as a cut one does.

The first attempt at this proof failed for good reasons. Positions were counts of
records in the model, and the argument could not be carried over to files in
which records have different lengths: the model now keeps positions as the code
does, in characters. And `SentCovered` is
false when somebody types a negative amount: where such a payment arrives, it
lowers what was received below what was sent before. The property now says so.

**Script_proofs** (assumes that vectors and the stacks at the start are of bytes,
and that the memory has an address for each element of those stacks):
`ElementsOwnTheirBytes` (`OwnedOnce`), `BlocksStayBalanced`, `ScriptTyped` and
`OperationsLeaveTheirValues` (`ValuesFollow`). The
invariant `IInv` has `Owned`: each element of both stacks is null or has
allocated bytes of its length, and no two have the same; it says more than
`OwnedOnce`, which does not mind an address that was freed when the length is
zero as well, and it holds after every result, as an operation that stops does
not touch a stack. An operation rebuilds the top of the stack and leaves what is
below it, so `OwnsRebuilt` is stated once: what is below keeps its bytes
(`Keeps`), and what is new on the top has other addresses. `Apart` gives the
second from the invariant, `NewInOwn` from malloc, which gives out free addresses
only, `PlacedOwn` from realloc. There is one lemma for each operation; the ones
that only move elements share `ShuffleLeaves`, by the tables of what they copy,
free and arrange (`Tables`: nothing that is arranged was freed, nothing is arranged
twice, which is where an OP_NIP that frees the wrong element does not go
through). `Made`, `ToInt` and `FromInt` are recursive functions; that
there are such functions and what they give (`MadeOwn`, `ToIntIsInt`,
`FromIntIsBytes`) is by `Induction` on the length or the number. `Balanced` is
inductive because an OP_ENDIF that is skipped finds `depth >= skip > 0`, and as long
as nothing was `lost`, what the walk takes for a branch is one (`inside = 0`).
`ValuesFollow` is a step property and rests on `Owned`: `ValuesRebuilt` says that
the values below the top stay, which they do only because no address of theirs is
written or freed. `ShuffleLeaves` gives what the tables leave (`Rearranged`), and
`ShufflesDocumented` that it is what the comments say, operation by operation; an
element that was copied has to come from the right place (`Source`). What
`FromInt`, `ToInt` and the digests compute is on both sides of the equation, so
the theorem says nothing of the conversions themselves, which for negative
numbers continue where the assertion is not compiled in. An OP_PICK copies the
element at its depth modulo 256, so the property is about depths below that. Memory is as
large as one likes, and an operation is read only when it has three free
addresses (`Room`): that there is none is `NoMemory`. The run
`script_safety` checks the same properties, and by its mutants that they can fail.

**Objects_proofs** (assumes only that the bounds are natural numbers):
`CountsAreExact` (`CountsAccounted`) and `FreedIsNotUsed` (`NothingFreedUsed`), both
from `MemoryInvariant`. The argument is bookkeeping with tokens. A count is the
number of tokens for an object; a pointer in a live object has one, a lost
reference has one, and so has everybody who acts: the caller between two calls, and
an operation between two of its steps. `Accounted(m, ext)` is the balance, in which
`ext` says how many tokens of each object are with those who act. Every step of an
operation hands tokens on, and has a lemma that says from whom to whom
(`IncrementGood`, `PutNewGood`, `RemovedGood`, `LowerArrayGood`, `RefieldGood`, ...);
all lean on `Stepped`, one object changes and the tokens balance, and it on
`RefsDiffer`, which counts the pointers of two heaps that differ in one object.
Who has a token has a live object (`TokenAlive`), and so has a pointer
(`PointersAlive`): nothing that was freed is used.

The balance is not inductive alone. `destroyObject` frees the bytes of a part
whatever its count, so `Private` says that a part is the only one with a reference
to its bytes: `ReadPart` and `GiveSection` make a section for each part, nobody else
gets it, and the reader's own reference is given back at the end (`e` is the part
being read, whose bytes have two). `Shaped` says which
kinds of objects a pointer may lead to, and where it may be missing. Which of these
places are followed is `Tidy`: before any bytes are refused no pointer is missing
but where the destructors pass over it, so that what is `undefined` after complete
bytes is the destructor that `createNewTransactionFromByteArray` did not set
(`Jumps`), and nothing else. `State` covers the operations that go on after a bad
pointer: they leave a memory that is still shaped.

Folds over parts are by induction on the list, with the token of each part in its
turn (`LowerLeavesState`, `ReadPartsGood`, `WritePartsState`, `FreeAllState`), and each
operation has the theorem that it leaves a `State`: `DecrementState`,
`ReadParentGood`, `WriteParentState`. One lemma for each action (`...Keeps`) puts these
on the caller's tokens (`Callers`). The invariant was checked by TLC on the instance
of the run `objects` before it was proved. Two facts of the model came from the
proof. Destroying an object after it left the heap is what makes the balance hold at
every step of a destructor: with the object still there, its pointers would be
counted while their tokens are given back. And a step that follows a bad pointer
has to be the last, or what the model says after it is about a memory that no
program has.

Only model-checked: the liveness properties `EndsUnlessBlocked` and
`CallersServed`; `HonestStayConnected`, `QuietMeansIdle` and `NeverStalls`,
which hold only for queues as long as a handshake needs and without relays before its end, so that a proof would be about those constants and
every interleaving of the messages under way; everything with `VersionMayFail =
TRUE`; and the algorithms. ENABLED and
fairness are out of reach of the prover. So are RECURSIVE operators, which
`AssociativeArray`, `Encoding`, `ScriptBytes` and `Validation` use: the prover loses
its arithmetic in a module that has one. The theorems of the
library that take a predicate cannot be instantiated, but recursive functions and
folds are not out of reach: `Induction` states induction for a set of numbers,
which can be, and gives the folds from it.


## 5. Plan and limits

Done: `Communicator`, `AddressStore`, `Session`, `EventLoop`, `WalletFile`,
`Script` and `Objects` with proofs; the algorithms with their runs.

Left, most important first:

1. A variant of `Session` in which both ends are one communicator: the nonce by
   which it recognises itself is overwritten by every version message.
2. The other classes of messages in `Objects`: `GetBlocks`, `ChainDescriptor`,
   `BlockHeaders` and `Version` free their parts with `destroyObject`, `Alert`
   does not run `destroyMessage`, and `AddressBroadcast` keeps its bytes.

### Not modelled

* `FullNode.c`: reads two files once and forwards callbacks; `FullValidator.c` is
  empty, `Database.ca` is not compiled.
* `IRC.c`, `NodeDiscovery.c`, `SeedPeers.c`, `Protocol.c`: blocking network input
  without state between calls. The main loop of `AddressGenerator.c` and all key
  generation: OpenSSL.
* YAJL: vendored. `WalletFile` takes from it that a file with characters behind
  its records is refused.
* Socket calls, the classification of ips by prefix, address scores and
  reachability by family: their results are choices.
* Filling block headers one by one, and `deserializeVersion`, which cannot return.
* Functions nothing calls: `storeWallet`, `receiveCoins`, `updateWallet`.
* `generators/`, `EXE/`, documentation and tests.


## 6. Running

    tlc -workers 2 -config Session_safety.cfg Session
    tlc -workers 2 -config Communicator_safety.cfg MCCommunicator
    tlc -workers 2 -config WalletFile.cfg MCWalletFile
    tlapm Communicator_proofs.tla
    tlapm AddressStore_proofs.tla
    tlapm Session_proofs.tla
    tlapm EventLoop_proofs.tla
    tlapm WalletFile_proofs.tla
    tlapm Script_proofs.tla
    tlapm Objects_proofs.tla        (about a quarter of an hour)

`PROJECT.json` names for every property a mutant: an operator that changes one
mapped definition the way a plausible bug would (comments begin with "Mutant").
TLC finds the property violated with it. Mutants are never part of `Next`.
