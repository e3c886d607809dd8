---------------------------- MODULE Communicator ----------------------------
(***************************************************************************)
(* Connection management of one NetworkCommunicator                        *)
(* (Object/Network/NetworkCommunicator.c) together with the address store  *)
(* and the peer array of its AddressManager.                               *)
(*                                                                         *)
(* A NetworkAddress becomes a Peer by realloc and a Peer becomes a         *)
(* NetworkAddress again when the connection ends, so the model follows one *)
(* pool of objects through the states of their life.  Each action is one   *)
(* handler run by the event loop's thread; which handler runs next, and    *)
(* the results of the socket calls, are the environment's choice.          *)
(***************************************************************************)
EXTENDS PeerArray

CONSTANTS
  Objs,            \* memory objects: addresses and peers
  Addrs,           \* network addresses, records of an ip and a port
  NoAddr,          \* the NULL ip and IP_INVALID type of an accepted connection
  OwnAddr,         \* ourIPv4, the address others should know us by
  Bucket,          \* the bucket of the address store each address falls into
  Above,           \* addresses that compare greater than our own address
  Offsets,         \* clock offsets that version messages may report
  MaxConnections,  \* maxConnections
  MaxIncoming,     \* maxIncommingConnections
  MaxMedian,       \* 4200 seconds in the code
  CounterMax,      \* 2^32 - 1 in the code: the uint32_t counters wrap there
  VersionMayFail   \* whether createNewVersion may fail in onPeerConnectCallback

ASSUME ObjsAssumption == IsFiniteSet(Objs)
ASSUME AddrsAssumption == NoAddr \notin Addrs /\ Above \subseteq Addrs
ASSUME OffsetsAssumption == Offsets \subseteq Int
ASSUME LimitsAssumption ==
  /\ MaxConnections \in Nat \ {0}
  /\ MaxIncoming \in Nat \ {0}
  /\ CounterMax \in Nat
  /\ MaxConnections + MaxIncoming < CounterMax
  /\ MaxMedian \in Int
ASSUME VersionMayFailAssumption == VersionMayFail \in BOOLEAN

VARIABLES
  obj,              \* where each object is in its life
  addr,             \* its ip and port
  public,           \* NetworkAddress.public, uninitialised at creation
  incoming,         \* Peer.incoming
  versioned,        \* peers whose version message was processed
  offset,           \* Peer.timeOffset
  peers,            \* AddressManager.peers, stale slots included
  peersNum,         \* AddressManager.peersNum
  networkTime,      \* AddressManager.networkTimeOffset
  attempting,       \* attemptingOrWorkingConnections
  numIncoming,      \* numIncomingConnections
  listening,        \* isListeningIPv4
  bound,            \* the kernel has a listening socket on our port
  fdKnown,          \* listeningSocketIPv4 is the descriptor of that socket
  stoppedListening, \* stoppedListening
  pingTimer,        \* the ping timer was started and not ended
  phase,            \* life of the event loop
  stopIndex,        \* i of the loop in stopNetworkCommunicator
  stopNum,          \* its removeNum
  crash             \* why the process died, or why what it does from here on is
                    \* undefined; "none" while it is neither

objVars    == <<obj, addr, public, incoming, versioned, offset>>
peerVars   == <<peers, peersNum, networkTime>>
listenVars == <<listening, bound, fdKnown>>
stopVars   == <<phase, stopIndex, stopNum>>
vars == <<objVars, peerVars, attempting, numIncoming, listenVars,
          stoppedListening, pingTimer, stopVars, crash>>

ObjStates == {"free", "stored", "attempting", "working", "leaked"}
Phases    == {"idle", "running", "stopping", "exiting", "stopped"}
Crashes   == {"none", "assert", "division", "released", "notpeer"}

Connected == {o \in Objs : obj[o] \in {"attempting", "working"}}
Working   == {o \in Objs : obj[o] = "working"}

\* The handlers run while the event loop does; it still delivers the events of
\* its last round after exitEventLoop was called.
Live == crash = "none" /\ phase \in {"running", "exiting"}

\* compareNetworkAddresses takes the result of compareByteArrays, 0 for equal
\* ips, for a truth value.  The NULL ip of an unnamed peer matches nothing.
Matches(a, b) == a # NoAddr /\ b # NoAddr /\ a.ip # b.ip /\ a.port = b.port

\* getNetworkAddressFromAddressManager: the stored addresses it may return.
Known(a) ==
  {q \in Objs : obj[q] = "stored" /\ Matches(addr[q], a) /\ Bucket[addr[q]] = Bucket[a]}

Dec(n) == IF n = 0 THEN CounterMax ELSE n - 1

Init ==
  /\ obj = [o \in Objs |-> "free"]
  /\ addr = [o \in Objs |-> NoAddr]
  /\ public = [o \in Objs |-> FALSE]
  /\ incoming = [o \in Objs |-> FALSE]
  /\ versioned = {}
  /\ offset = [o \in Objs |-> 0]
  /\ peers = <<>>
  /\ peersNum = 0
  /\ networkTime = 0
  /\ attempting = 0
  /\ numIncoming = 0
  /\ listening = FALSE
  /\ bound = FALSE
  /\ fdKnown = FALSE
  /\ stoppedListening = FALSE
  /\ pingTimer = FALSE
  /\ phase = "idle"
  /\ stopIndex = 0
  /\ stopNum = 0
  /\ crash = "none"

Crash(why) ==
  /\ crash' = why
  /\ UNCHANGED <<objVars, peerVars, attempting, numIncoming, listenVars,
                 stoppedListening, pingTimer, stopVars>>

------------------------------------------------------------------------------
(* Listening sockets.  One address family is reachable; ok is the outcome   *)
(* of bind, of creating the accept event and of listen.                     *)

\* socketBind overwrites listeningSocketIPv4 before it knows whether it can
\* bind; it cannot while a socket of ours still listens on the port.
StartListening ==
  \E ok \in BOOLEAN :
    /\ bound' = (bound \/ ok)
    /\ listening' = (listening \/ (~bound /\ ok))
    /\ fdKnown' = (~bound /\ ok)

\* Closes the descriptor in listeningSocketIPv4, whatever that is by now.
StopListening ==
  /\ listening' = FALSE
  /\ bound' = (bound /\ ~(listening /\ fdKnown))
  /\ fdKnown' = (fdKnown /\ ~listening)

------------------------------------------------------------------------------
(* Joining and leaving the peer array.                                      *)

\* addPeerToAddressManager, whose peer always has a new Peer's offset of 0,
\* followed by its callers' start of the ping timer for the first peer.
AddPeer(o) ==
  /\ peers' = Inserted(peers, peersNum, offset, o, 0)
  /\ peersNum' = peersNum + 1
  /\ networkTime' = AdjustedTime(peers', peersNum', [offset EXCEPT ![o] = 0], MaxMedian)
  /\ pingTimer' = (pingTimer \/ peersNum' = 1)

\* Mutant: the removal counted once in disconnectPeer and once here.
RemovePeerCountedTwice(o) ==
  /\ obj' = [obj EXCEPT ![o] = "stored"]
  /\ peers' = Removed(peers, peersNum, o)
  /\ peersNum' = peersNum - 2
  /\ networkTime' = networkTime

\* removePeerNodeFromAddressManager: the peer goes back to the store.
RemovePeer(o) ==
  /\ obj' = [obj EXCEPT ![o] = "stored"]
  /\ peers' = Removed(peers, peersNum, o)
  /\ peersNum' = peersNum - 1
  /\ networkTime' = IF peersNum' = 0 THEN networkTime
                    ELSE AdjustedTime(peers', peersNum', offset, MaxMedian)

\* Mutant: the timer outlives the last peer.
KeepPingingAlways == pingTimer' = pingTimer

\* disconnectPeer ends the ping timer after the last peer.
KeepPinging == pingTimer' = (pingTimer /\ peersNum' # 0)

\* Mutant: every lost peer counts as an incoming one.
LeaveIncomingAlways(o) ==
  /\ numIncoming' = Dec(numIncoming)
  /\ IF stoppedListening /\ numIncoming' < MaxIncoming
       THEN StartListening
       ELSE UNCHANGED listenVars

\* disconnectPeer lowers the number of incoming connections and may listen again.
LeaveIncoming(o) ==
  /\ numIncoming' = IF incoming[o] THEN Dec(numIncoming) ELSE numIncoming
  /\ IF stoppedListening /\ numIncoming' < MaxIncoming
       THEN StartListening
       ELSE UNCHANGED listenVars

\* disconnectPeer.  An attempt that never worked is released and its object
\* ends in the state given by `released'.
Disconnect(o, released) ==
  /\ LeaveIncoming(o)
  /\ attempting' = Dec(attempting)
  /\ IF obj[o] = "working"
       THEN RemovePeer(o)
       ELSE obj' = [obj EXCEPT ![o] = released] /\ UNCHANGED peerVars
  /\ KeepPinging
  /\ UNCHANGED <<addr, public, incoming, versioned, offset, stoppedListening>>

------------------------------------------------------------------------------
(* Calls of the application.                                                *)

\* startNetworkCommunicator
Start ==
  /\ crash = "none" /\ phase = "idle"
  /\ phase' = "running"
  /\ UNCHANGED <<objVars, peerVars, attempting, numIncoming, listenVars,
                 stoppedListening, pingTimer, stopIndex, stopNum, crash>>

\* startListeningToIncomingConnections, called until it succeeds once
Listen ==
  /\ crash = "none" /\ phase = "running"
  /\ ~listening /\ ~stoppedListening
  /\ StartListening
  /\ UNCHANGED <<objVars, peerVars, attempting, numIncoming,
                 stoppedListening, pingTimer, stopVars, crash>>

\* stopNetworkCommunicator up to its loop
Stop ==
  /\ crash = "none" /\ phase = "running"
  /\ IF listening THEN StopListening ELSE UNCHANGED listenVars
  /\ phase' = "stopping"
  /\ stopIndex' = 0
  /\ stopNum' = peersNum
  /\ UNCHANGED <<objVars, peerVars, attempting, numIncoming,
                 stoppedListening, pingTimer, crash>>

\* One round of its loop: disconnectPeer(peers[i]).  From the second round on
\* the slot may be stale, and disconnecting an object that is no peer any more
\* frees its events a second time.
StopRound ==
  /\ crash = "none" /\ phase = "stopping" /\ stopIndex < stopNum
  /\ LET o == peers[stopIndex + 1]
     IN  \/ /\ obj[o] = "working"
            /\ Disconnect(o, "free")
            /\ stopIndex' = stopIndex + 1
            /\ UNCHANGED <<phase, stopNum, crash>>
         \/ /\ obj[o] # "working"
            /\ Crash("released")

\* exitEventLoop after the loop, and the thread that sees it later
ExitLoop ==
  /\ crash = "none" /\ phase = "stopping" /\ stopIndex = stopNum
  /\ phase' = "exiting"
  /\ UNCHANGED <<objVars, peerVars, attempting, numIncoming, listenVars,
                 stoppedListening, pingTimer, stopIndex, stopNum, crash>>

LoopEnds ==
  /\ crash = "none" /\ phase = "exiting"
  /\ phase' = "stopped"
  /\ UNCHANGED <<objVars, peerVars, attempting, numIncoming, listenVars,
                 stoppedListening, pingTimer, stopIndex, stopNum, crash>>

------------------------------------------------------------------------------
(* Connecting.                                                              *)

\* Mutant: only the total is compared with its limit.
LimitReachedTotalOnly == attempting' = MaxConnections

\* Whether acceptIncomingConnection stops listening.
LimitReached == numIncoming' = MaxIncoming \/ attempting' = MaxConnections

\* acceptIncomingConnection; when one of its calls fails it undoes the others
\* and changes nothing.  The peer is unnamed until its version message.
Accept(o) ==
  /\ Live /\ listening /\ obj[o] = "free"
  /\ obj' = [obj EXCEPT ![o] = "working"]
  /\ addr' = [addr EXCEPT ![o] = NoAddr]
  /\ \E b \in BOOLEAN : public' = [public EXCEPT ![o] = b]
  /\ incoming' = [incoming EXCEPT ![o] = TRUE]
  /\ versioned' = versioned \ {o}
  /\ offset' = [offset EXCEPT ![o] = 0]
  /\ AddPeer(o)
  /\ attempting' = attempting + 1
  /\ numIncoming' = numIncoming + 1
  /\ IF LimitReached
       THEN StopListening /\ stoppedListening' = TRUE
       ELSE UNCHANGED <<listenVars, stoppedListening>>
  /\ UNCHANGED <<stopVars, crash>>

\* Mutant: the connections there are already do not count.
PossibleConnectionsOfAll == MaxConnections

\* numPossibleConnections
PossibleConnections == MaxConnections - attempting

\* The addresses tried: as many of the stored ones as may be connected to.
Tried(at) ==
  {c \in SUBSET {o \in Objs : at[o] = "stored"} :
     /\ Cardinality(c) <= PossibleConnections
     /\ Cardinality(c) = PossibleConnections \/ \A o \in Objs : at[o] = "stored" => o \in c}

\* Connecting to each of them.  An address whose connection failed is kept if it
\* is public and its family supported; every other one leaves the store.  An
\* unnamed one has no family.
Attempt(chosen, at, ad, pub) ==
  \E ok \in SUBSET chosen : \E unsupported \in SUBSET (chosen \ ok) :
    /\ \A o \in chosen : ad[o] = NoAddr => o \in unsupported
    /\ obj' = [o \in Objs |->
                 IF o \notin chosen THEN at[o]
                 ELSE IF o \in ok THEN "attempting"
                 ELSE IF pub[o] /\ o \notin unsupported THEN "stored" ELSE "free"]
    /\ attempting' = attempting + Cardinality(ok)
    /\ incoming' = [o \in Objs |-> incoming[o] /\ o \notin chosen]
    /\ versioned' = versioned \ chosen
    /\ offset' = [o \in Objs |-> IF o \in chosen THEN 0 ELSE offset[o]]
    /\ UNCHANGED crash

\* A selection that begins at bucket 0 gets the same address of a bucket again and
\* again: one address is tried twice when the stored ones are in n buckets and more
\* than n are asked for.  An unnamed one may be in any bucket.
Repeats(at, ad) ==
  LET stored  == {o \in Objs : at[o] = "stored"}
      buckets == {Bucket[ad[o]] : o \in {s \in stored : ad[s] # NoAddr}}
  IN  \E n \in 1..(PossibleConnections - 1) :
         Cardinality(buckets) <= n /\ n < Cardinality(stored)

\* tryConnectingToStoredAddresses over the objects `at' with addresses `ad'; an
\* unnamed one fails the assertion in isReachableIPType when that is compiled in,
\* and one tried again was moved or released when it was tried first.
TryConnectingFrom(at, ad, pub) ==
  \/ /\ attempting >= MaxConnections
     /\ obj' = at
     /\ UNCHANGED <<attempting, incoming, versioned, offset, crash>>
  \/ /\ attempting < MaxConnections
     /\ \E chosen \in Tried(at) :
          \/ Attempt(chosen, at, ad, pub)
          \/ /\ \E o \in chosen : ad[o] = NoAddr
             /\ obj' = at
             /\ crash' = "assert"
             /\ UNCHANGED <<attempting, incoming, versioned, offset>>
  \/ /\ Repeats(at, ad)
     /\ obj' = at
     /\ crash' = "released"
     /\ UNCHANGED <<attempting, incoming, versioned, offset>>

\* The application connects to the addresses it has.
TryConnecting ==
  /\ crash = "none" /\ phase = "running"
  /\ \E o \in Objs : obj[o] = "stored"
  /\ TryConnectingFrom(obj, addr, public)
  /\ UNCHANGED <<addr, public, peerVars, numIncoming, listenVars,
                 stoppedListening, pingTimer, stopVars>>

\* getPeerNodeFromAddressManager finds a peer
Duplicate(o) == \E i \in 1..peersNum : Matches(addr[peers[i]], addr[o])

\* Mutant: a connection that fails late is not counted down.
ConnectionClosedUncounted(o) ==
  /\ attempting' = attempting
  /\ obj' = [obj EXCEPT ![o] = IF public[o] THEN "stored" ELSE "free"]

\* The attempt ends and the address goes back to the store if it is public.
ConnectionClosed(o) ==
  /\ attempting' = Dec(attempting)
  /\ obj' = [obj EXCEPT ![o] = IF public[o] THEN "stored" ELSE "free"]

\* onPeerConnectCallback closes the connection when its address is found among
\* the peers, when an event cannot be made, or, after the peer was added, when
\* there is no version message to send.
PeerConnected(o) ==
  /\ Live /\ obj[o] = "attempting"
  /\ \/ /\ ~Duplicate(o)
        /\ obj' = [obj EXCEPT ![o] = "working"]
        /\ AddPeer(o)
        /\ UNCHANGED attempting
     \/ /\ ConnectionClosed(o)
        /\ UNCHANGED <<peerVars, pingTimer>>
     \/ /\ VersionMayFail /\ ~Duplicate(o)
        /\ AddPeer(o)
        /\ ConnectionClosed(o)
  /\ UNCHANGED <<addr, public, incoming, versioned, offset, numIncoming,
                 listenVars, stoppedListening, stopVars, crash>>

------------------------------------------------------------------------------
(* Messages and losses.                                                     *)

\* The paths of the reading, writing and message handlers that disconnect a
\* working peer and return: closed or failed socket, bad checksum or payload,
\* a version too old or our own, a reply that cannot be queued.
PeerLost(o) ==
  /\ Live /\ obj[o] = "working"
  /\ Disconnect(o, "free")
  /\ UNCHANGED <<stopVars, crash>>

\* onHeaderReceivedCallback goes on with the peer it just disconnected: it
\* either waits for a payload that never comes or disconnects it again.
HeaderRefused(o) ==
  /\ Live /\ obj[o] = "working"
  /\ Disconnect(o, "free")
  /\ crash' \in {"none", "released"}
  /\ UNCHANGED stopVars

\* onTimeOutErrorCallback retains a named public peer before disconnecting it;
\* only a working one comes back to the store.
TimedOut(o) ==
  /\ Live /\ obj[o] \in {"attempting", "working"}
  /\ Disconnect(o, IF public[o] /\ addr[o] # NoAddr THEN "leaked" ELSE "free")
  /\ UNCHANGED <<stopVars, crash>>

\* processMessageForAutoHandshake on a version message from src.  The check
\* for a second connection looks src up among the stored addresses; when that
\* finds one and src compares lower, the stored address is disconnected as if
\* it were a peer.  Removing src from the store then removes what the lookup
\* finds, which is nothing.
VersionReceived(o, src, off) ==
  /\ Live /\ obj[o] = "working" /\ o \notin versioned
  /\ \/ /\ Known(src) # {} /\ src \in Above
        /\ Disconnect(o, "free")
        /\ UNCHANGED <<stopVars, crash>>
     \/ Known(src) # {} /\ src \notin Above /\ Crash("notpeer")
     \/ /\ Known(src) = {}
        /\ addr' = [addr EXCEPT ![o] = src]
        /\ versioned' = versioned \cup {o}
        /\ offset' = [offset EXCEPT ![o] = off]
        /\ UNCHANGED <<obj, public, incoming, peerVars, attempting,
                       numIncoming, listenVars, stoppedListening,
                       pingTimer, stopVars, crash>>

\* processMessageForAutoDiscovery on an addr message with the address a: a
\* stored address becomes public; a new one that is not ours is stored and
\* connections are tried.  Relaying an unsolicited message computes
\* rand() % (peersNum - 1).
AddressReceived(o, a) ==
  /\ Live /\ obj[o] = "working" /\ o \in versioned
  /\ \/ peersNum = 1 /\ Crash("division")
     \/ /\ \E q \in Known(a) : public' = [public EXCEPT ![q] = TRUE]
        /\ UNCHANGED <<obj, addr, attempting, incoming, versioned, offset, crash>>
        /\ UNCHANGED <<peerVars, numIncoming, listenVars,
                       stoppedListening, pingTimer, stopVars>>
     \/ /\ Known(a) = {} /\ ~Matches(OwnAddr, a)
        /\ \E n \in Objs, b \in BOOLEAN :
             /\ obj[n] = "free"
             /\ addr' = [addr EXCEPT ![n] = a]
             /\ public' = [public EXCEPT ![n] = b]
             /\ TryConnectingFrom([obj EXCEPT ![n] = "stored"], addr', public')
        /\ UNCHANGED <<peerVars, numIncoming, listenVars,
                       stoppedListening, pingTimer, stopVars>>

\* An address the application adds with addAddressToAddressManager
AddressAdded(n, a) ==
  /\ crash = "none" /\ phase \in {"idle", "running"} /\ obj[n] = "free"
  /\ obj' = [obj EXCEPT ![n] = "stored"]
  /\ addr' = [addr EXCEPT ![n] = a]
  /\ \E b \in BOOLEAN : public' = [public EXCEPT ![n] = b]
  /\ UNCHANGED <<incoming, versioned, offset, peerVars, attempting, numIncoming,
                 listenVars, stoppedListening, pingTimer, stopVars, crash>>

------------------------------------------------------------------------------
Next ==
  \/ Start \/ Listen \/ Stop \/ StopRound \/ ExitLoop \/ LoopEnds \/ TryConnecting
  \/ \E o \in Objs :
       \/ Accept(o) \/ PeerConnected(o)
       \/ PeerLost(o) \/ HeaderRefused(o) \/ TimedOut(o)
       \/ \E a \in Addrs : \/ AddressReceived(o, a) \/ AddressAdded(o, a)
                           \/ \E off \in Offsets : VersionReceived(o, a, off)

Spec == Init /\ [][Next]_vars
------------------------------------------------------------------------------
(* What connection management keeps right.                                  *)

\* The shape of the state: the life of every object, both counters inside
\* their uint32_t range, the peer array with peersNum of its slots in use.
TypeOK ==
  /\ obj \in [Objs -> ObjStates]
  /\ addr \in [Objs -> Addrs \cup {NoAddr}]
  /\ public \in [Objs -> BOOLEAN]
  /\ incoming \in [Objs -> BOOLEAN]
  /\ versioned \subseteq Objs
  /\ offset \in [Objs -> Int]
  /\ peers \in Seq(Objs)
  /\ peersNum \in 0..Len(peers)
  /\ networkTime \in Int
  /\ attempting \in 0..CounterMax
  /\ numIncoming \in 0..CounterMax
  /\ listening \in BOOLEAN /\ bound \in BOOLEAN /\ fdKnown \in BOOLEAN
  /\ stoppedListening \in BOOLEAN /\ pingTimer \in BOOLEAN
  /\ phase \in Phases /\ stopIndex \in Nat /\ stopNum \in Nat
  /\ crash \in Crashes

\* The counters never drift from the connections they count, whatever order
\* attempts, successes, failures, losses and timeouts come in: a missed or a
\* doubled decrement in one handler would let them wrap around or stick.
CountersMatch ==
  /\ attempting = Cardinality(Connected)
  /\ numIncoming = Cardinality({o \in Working : incoming[o]})

\* The used slots of the peer array are exactly the working connections, each
\* once: no handler leaves a freed peer in the array, adds one twice, or
\* forgets one.  An attempt is never marked incoming.
PeersAreConnected ==
  /\ \A i \in 1..peersNum : obj[peers[i]] = "working"
  /\ \A i, j \in 1..peersNum : peers[i] = peers[j] => i = j
  /\ \A o \in Working : \E i \in 1..peersNum : peers[i] = o
  /\ \A o \in Objs : obj[o] = "attempting" => ~incoming[o]

\* Incoming connections stay within maxIncommingConnections, and the
\* communicator stops listening as soon as it has that many, although listening
\* starts again from disconnectPeer at any time.
IncomingBounded ==
  /\ numIncoming <= MaxIncoming
  /\ listening => numIncoming < MaxIncoming

\* Connections the communicator made itself stay within maxConnections even
\* when connections are tried again from inside a message handler.
OutgoingBounded == attempting <= MaxConnections + numIncoming

\* The ping timer runs exactly while there are peers to ping.
PingWhilePeers == pingTimer <=> peersNum > 0

------------------------------------------------------------------------------
(* What the documentation says and the code does not keep.                  *)

\* NetworkCommunicator.h, stopNetworkCommunicator closes all connections and
\* stops listening.
StopClosesConnections ==
  phase = "stopped" => Connected = {} /\ ~bound
==============================================================================
