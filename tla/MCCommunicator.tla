--------------------------- MODULE MCCommunicator ---------------------------
(* Communicator on small instances for TLC. *)
EXTENDS Communicator, TLC

CONSTANTS o1, o2, o3

\* Two addresses of one port that fall into one bucket and can be mistaken for
\* each other.
a1 == [ip |-> "i1", port |-> 1]
a2 == [ip |-> "i2", port |-> 1]
TwoAddrs == {a1, a2}
AboveOne == {a2}

\* A third one in another bucket, with a port of its own.
a3 == [ip |-> "i3", port |-> 2]
ThreeAddrs == {a1, a2, a3}
BucketOf == [a \in ThreeAddrs |-> IF a = a3 THEN 2 ELSE 1]

\* Our own address with a port nobody else has, and with the usual port.
OwnPort == [ip |-> "i0", port |-> 3]
UsualPort == [ip |-> "i0", port |-> 1]

ObjSymmetry == Permutations(Objs)

\* A failed handshake leaves its peer in the array and its object may join again:
\* the runs that let the handshake fail look at arrays of at most three slots.
PeersBound == peersNum <= 3

\* Fields that an object's next life writes before anything reads them do not
\* tell states apart: the address of a free object and the connection data of
\* an object without a connection.
LiveState ==
  <<obj,
    [o \in Objs |-> IF obj[o] \in {"free", "leaked"} THEN <<>> ELSE <<addr[o], public[o]>>],
    [o \in Objs |-> IF o \in Connected THEN <<incoming[o], offset[o], o \in versioned>>
                    ELSE <<>>],
    peerVars, attempting, numIncoming, listenVars, stoppedListening, pingTimer,
    stopVars, crash>>
==============================================================================
