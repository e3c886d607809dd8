------------------------- MODULE Communicator_proofs -------------------------
(***************************************************************************)
(* The inductive invariant of connection management, for every number of   *)
(* objects and every setting of the limits, when a version message can     *)
(* always be made (VersionMayFail = FALSE).                                *)
(***************************************************************************)
EXTENDS Communicator, FiniteSetTheorems, TLAPS

-----------------------------------------------------------------------------
(* What an insertion into the peer array and a removal from it do to the set  *)
(* of its used slots, whatever the array holds past them.                     *)

\* The used slots of an array.
Used(arr, n) == {arr[i] : i \in 1..n}

\* No object is in two used slots.
Distinct(arr, n) == \A i, j \in 1..n : arr[i] = arr[j] => i = j

\* An insertion goes into one of the n + 1 slots there are afterwards.
LEMMA InsertPosInRange ==
  ASSUME NEW arr, NEW n \in Nat, NEW off, NEW t
  PROVE  InsertPos(arr, n, off, t) \in 1..(n + 1)
<1> DEFINE leading == {i \in 1..n : \A j \in 1..i : off[arr[j]] <= t}
<1>1. IsFiniteSet(1..n) /\ Cardinality(1..n) = n
  BY FS_Interval
<1>2. IsFiniteSet(leading) /\ Cardinality(leading) <= n
  BY <1>1, FS_Subset
<1>3. Cardinality(leading) \in Nat
  BY <1>2, FS_CardinalityType
<1> QED
  BY <1>2, <1>3 DEF InsertPos

\* The used slots after an insertion: those there were and the new peer, which
\* is in one slot only when it was in none.
LEMMA InsertedUses ==
  ASSUME NEW S, NEW arr \in Seq(S), NEW n \in 0..Len(arr),
         NEW p \in S, NEW off, NEW t
  PROVE  LET new == Inserted(arr, n, off, p, t)
         IN  /\ new \in Seq(S)
             /\ Len(new) = n + 1
             /\ Used(new, n + 1) = Used(arr, n) \cup {p}
             /\ Distinct(arr, n) /\ p \notin Used(arr, n) => Distinct(new, n + 1)
<1> DEFINE pos == InsertPos(arr, n, off, t)
           new == Inserted(arr, n, off, p, t)
<1>1. n \in Nat /\ pos \in 1..(n + 1)
  BY InsertPosInRange
<1>2. new = [i \in 1..(n + 1) |-> IF i < pos THEN arr[i]
                                  ELSE IF i = pos THEN p ELSE arr[i - 1]]
  BY DEF Inserted
<1> HIDE DEF pos, new
<1>3. \A i \in 1..n : arr[i] \in S
  OBVIOUS
<1>4. new \in [1..(n + 1) -> S]
  BY <1>1, <1>2, <1>3
<1>5. new \in Seq(S) /\ Len(new) = n + 1
  BY <1>1, <1>4
<1>6. Used(new, n + 1) \subseteq Used(arr, n) \cup {p}
  BY <1>1, <1>2 DEF Used
<1>7. Used(arr, n) \cup {p} \subseteq Used(new, n + 1)
  <2>1. p \in Used(new, n + 1)
    <3>1. new[pos] = p
      BY <1>1, <1>2
    <3> QED
      BY <1>1, <3>1 DEF Used
  <2>2. ASSUME NEW i \in 1..n
        PROVE  arr[i] \in Used(new, n + 1)
    <3>1. CASE i < pos
      <4>1. new[i] = arr[i] /\ i \in 1..(n + 1)
        BY <1>1, <1>2, <3>1
      <4> QED
        BY <4>1 DEF Used
    <3>2. CASE ~(i < pos)
      <4>1. new[i + 1] = arr[i] /\ i + 1 \in 1..(n + 1)
        BY <1>1, <1>2, <3>2
      <4> QED
        BY <4>1 DEF Used
    <3> QED
      BY <3>1, <3>2
  <2> QED
    BY <2>1, <2>2 DEF Used
<1>8. ASSUME Distinct(arr, n), p \notin Used(arr, n)
      PROVE  Distinct(new, n + 1)
  <2>1. SUFFICES ASSUME NEW i \in 1..(n + 1), NEW j \in 1..(n + 1), new[i] = new[j]
                 PROVE  i = j
    BY DEF Distinct
  <2>2. \A k \in 1..n : arr[k] # p
    BY <1>8 DEF Used
  <2>3. \A k \in 1..(n + 1) : k # pos =>
          new[k] = arr[IF k < pos THEN k ELSE k - 1]
          /\ (IF k < pos THEN k ELSE k - 1) \in 1..n
    BY <1>1, <1>2
  <2>4. new[pos] = p
    BY <1>1, <1>2
  <2> QED
    BY <1>1, <1>8, <2>1, <2>2, <2>3, <2>4 DEF Distinct
<1> QED
  BY <1>5, <1>6, <1>7, <1>8 DEF new

\* The removal of a peer that is in exactly one used slot empties that slot and
\* no other, even when stale slots past n hold the peer as well.
LEMMA RemovedUses ==
  ASSUME NEW S, NEW arr \in Seq(S), NEW n \in 0..Len(arr),
         NEW p \in Used(arr, n), Distinct(arr, n)
  PROVE  LET new == Removed(arr, n, p)
         IN  /\ new \in Seq(S)
             /\ Len(new) = Len(arr)
             /\ n - 1 \in 0..Len(arr)
             /\ Used(new, n - 1) = Used(arr, n) \ {p}
             /\ Distinct(new, n - 1)
<1> DEFINE pos == PosOf(arr, p)
           new == Removed(arr, n, p)
<1>1. Len(arr) \in Nat /\ n \in Nat /\ DOMAIN arr = 1..Len(arr)
  OBVIOUS
<1>2. PICK k \in 1..n : arr[k] = p
  BY DEF Used
<1>3. \A j \in DOMAIN arr : arr[j] = p => k <= j
  BY <1>1, <1>2 DEF Distinct
<1>4. pos = k
  <2>1. k \in DOMAIN arr
    BY <1>1, <1>2
  <2>2. \A i \in DOMAIN arr :
          arr[i] = p /\ (\A j \in DOMAIN arr : arr[j] = p => i <= j) => i = k
    BY <1>1, <1>2, <1>3, <2>1
  <2> QED
    BY <1>2, <1>3, <2>1, <2>2 DEF PosOf
<1>5. new = [i \in 1..Len(arr) |-> IF k <= i /\ i < n THEN arr[i + 1] ELSE arr[i]]
  BY <1>4 DEF Removed
<1> HIDE DEF pos, new
<1>6. new \in [1..Len(arr) -> S]
  <2>1. \A i \in 1..Len(arr) : arr[i] \in S
    OBVIOUS
  <2> QED
    BY <1>1, <1>5, <2>1
<1>7. new \in Seq(S) /\ Len(new) = Len(arr)
  BY <1>1, <1>6
<1>8. \A i \in 1..(n - 1) : /\ (IF i < k THEN i ELSE i + 1) \in 1..n \ {k}
                            /\ new[i] = arr[IF i < k THEN i ELSE i + 1]
  BY <1>1, <1>2, <1>5
<1>9. Used(new, n - 1) \subseteq Used(arr, n) \ {p}
  BY <1>1, <1>2, <1>8 DEF Used, Distinct
<1>10. Used(arr, n) \ {p} \subseteq Used(new, n - 1)
  <2>1. SUFFICES ASSUME NEW i \in 1..n, arr[i] # p
                 PROVE  arr[i] \in Used(new, n - 1)
    BY DEF Used
  <2>2. CASE i < k
    <3>1. i \in 1..(n - 1) /\ new[i] = arr[i]
      BY <1>1, <1>2, <1>5, <2>2
    <3> QED
      BY <3>1 DEF Used
  <2>3. CASE ~(i < k)
    <3>1. i - 1 \in 1..(n - 1) /\ new[i - 1] = arr[i]
      BY <1>1, <1>2, <1>5, <2>1, <2>3
    <3> QED
      BY <3>1 DEF Used
  <2> QED
    BY <2>2, <2>3
<1>11. Distinct(new, n - 1)
  <2>1. SUFFICES ASSUME NEW i \in 1..(n - 1), NEW j \in 1..(n - 1), new[i] = new[j]
                 PROVE  i = j
    BY DEF Distinct
  <2>2. (IF i < k THEN i ELSE i + 1) = (IF j < k THEN j ELSE j + 1)
    BY <1>1, <1>8, <2>1 DEF Distinct
  <2> QED
    BY <1>1, <1>2, <2>2
<1>12. n - 1 \in 0..Len(arr)
  BY <1>1, <1>2
<1> QED
  BY <1>7, <1>9, <1>10, <1>11, <1>12 DEF new

\* The time offset taken from a peer array with peers in it is one of theirs.
LEMMA AdjustedTimeIsOffset ==
  ASSUME NEW S, NEW arr \in Seq(S), NEW n \in 1..Len(arr),
         NEW off \in [S -> Int], NEW maxMedian \in Int
  PROVE  AdjustedTime(arr, n, off, maxMedian) \in Int
<1>1. Len(arr) \in Nat /\ n \in Nat
  OBVIOUS
<1>2. (n - 1) \div 2 + 1 \in 1..Len(arr)
  BY <1>1
<1>3. MiddleOffset(arr, n, off) \in Int
  BY <1>2 DEF MiddleOffset
<1> QED
  BY <1>3 DEF AdjustedTime

-----------------------------------------------------------------------------
(* The inductive invariant *)

InWorking == {o \in Working : incoming[o]}

\* PeersAreConnected as the proofs use it.
PeersAreWorking ==
  /\ Used(peers, peersNum) = Working
  /\ Distinct(peers, peersNum)
  /\ \A o \in Objs : obj[o] = "attempting" => ~incoming[o]

\* The loop of stopNetworkCommunicator stays inside the array, stale slots
\* included, because a removal never shrinks it.
StopInRange == phase = "stopping" => stopNum <= Len(peers)

\* As long as listening was never stopped for it, there is room for one more
\* incoming connection: the application may still start to listen.
RoomUntilStopped == ~stoppedListening => numIncoming < MaxIncoming

IndInv ==
  /\ TypeOK /\ StopInRange
  /\ CountersMatch /\ PeersAreWorking
  /\ IncomingBounded /\ OutgoingBounded /\ RoomUntilStopped
  /\ PingWhilePeers

------------------------------------------------------------------------------
(* Counting connections.                                                    *)

LEMMA CountsAreNatural ==
  ASSUME TypeOK
  PROVE  /\ IsFiniteSet(Connected) /\ Cardinality(Connected) \in Nat
         /\ IsFiniteSet(InWorking) /\ Cardinality(InWorking) \in Nat
<1>1. Connected \in SUBSET Objs /\ InWorking \in SUBSET Objs
  BY DEF Connected, InWorking, Working
<1>2. IsFiniteSet(Connected) /\ IsFiniteSet(InWorking)
  BY <1>1, ObjsAssumption, FS_Subset
<1> QED
  BY <1>2, FS_CardinalityType

\* A connection that joins raises the counts by one.
LEMMA CountJoin ==
  ASSUME TypeOK, NEW o, o \notin Connected
  PROVE  /\ Cardinality(Connected \cup {o}) = Cardinality(Connected) + 1
         /\ Cardinality(InWorking \cup {o}) = Cardinality(InWorking) + 1
<1>1. o \notin InWorking
  BY DEF Connected, InWorking, Working
<1> QED
  BY <1>1, CountsAreNatural, FS_AddElement

\* A connection that leaves lowers the counts by one; there was one to count.
LEMMA CountLeave ==
  ASSUME TypeOK, NEW o \in Connected
  PROVE  /\ Cardinality(Connected \ {o}) = Cardinality(Connected) - 1
         /\ Cardinality(Connected) > 0
         /\ o \in InWorking => /\ Cardinality(InWorking \ {o}) = Cardinality(InWorking) - 1
                               /\ Cardinality(InWorking) > 0
<1>1. Cardinality(Connected) # 0
  BY CountsAreNatural, FS_EmptySet
<1>2. Cardinality(Connected \ {o}) = Cardinality(Connected) - 1
  BY CountsAreNatural, FS_RemoveElement
<1>3. ASSUME o \in InWorking
      PROVE  /\ Cardinality(InWorking \ {o}) = Cardinality(InWorking) - 1
             /\ Cardinality(InWorking) # 0
  BY <1>3, CountsAreNatural, FS_EmptySet, FS_RemoveElement
<1> QED
  BY <1>1, <1>2, <1>3, CountsAreNatural

------------------------------------------------------------------------------
(* The effect of joining and leaving on the invariant.                      *)

\* The limits leave room in the uint32_t counters.
LEMMA NoWrap ==
  ASSUME IndInv
  PROVE  /\ attempting + 1 \in 0..CounterMax
         /\ numIncoming + 1 \in 0..CounterMax
         /\ attempting <= MaxConnections + MaxIncoming
BY LimitsAssumption DEF IndInv, TypeOK, IncomingBounded, OutgoingBounded

\* addPeerToAddressManager for an object that is not in the array yet.
LEMMA AddPeerKeeps ==
  ASSUME IndInv, NEW o \in Objs, obj[o] # "working", AddPeer(o),
         obj' = [obj EXCEPT ![o] = "working"],
         offset' = [offset EXCEPT ![o] = 0] \/ offset' = offset
  PROVE  /\ peers' \in Seq(Objs) /\ Len(peers') = peersNum'
         /\ peersNum' \in 0..Len(peers') /\ networkTime' \in Int
         /\ Used(peers', peersNum') = Working' /\ Distinct(peers', peersNum')
         /\ PingWhilePeers'
<1> USE DEF IndInv, TypeOK
<1>1. o \notin Used(peers, peersNum)
  BY DEF PeersAreWorking, Working
<1>2. /\ peers' \in Seq(Objs) /\ Len(peers') = peersNum + 1
      /\ Used(peers', peersNum + 1) = Used(peers, peersNum) \cup {o}
      /\ Distinct(peers', peersNum + 1)
  BY <1>1, InsertedUses DEF AddPeer, PeersAreWorking
<1>3. peersNum' = peersNum + 1 /\ peersNum \in Nat
  BY DEF AddPeer
<1>4. networkTime' \in Int
  <2>1. [offset EXCEPT ![o] = 0] \in [Objs -> Int]
    OBVIOUS
  <2>2. peersNum' \in 1..Len(peers')
    BY <1>2, <1>3
  <2> QED
    BY <1>2, <2>1, <2>2, AdjustedTimeIsOffset, LimitsAssumption DEF AddPeer
<1>5. Working' = Working \cup {o}
  BY DEF Working
<1>6. PingWhilePeers'
  <2>1. pingTimer' = (pingTimer \/ peersNum + 1 = 1)
    BY <1>3 DEF AddPeer
  <2>2. pingTimer \in BOOLEAN /\ (pingTimer <=> peersNum > 0)
    BY DEF PingWhilePeers
  <2>3. pingTimer'
    <3>1. CASE peersNum = 0
      <4>1. peersNum + 1 = 1
        BY <3>1
      <4> QED
        BY <2>1, <4>1
    <3>2. CASE peersNum # 0
      <4>1. peersNum > 0
        BY <1>3, <3>2
      <4> QED
        BY <2>1, <2>2, <4>1
    <3> QED
      BY <3>1, <3>2
  <2> QED
    BY <1>3, <2>3 DEF PingWhilePeers
<1> QED
  BY <1>2, <1>3, <1>4, <1>5, <1>6 DEF PeersAreWorking

\* removePeerNodeFromAddressManager for a working peer.
LEMMA RemovePeerKeeps ==
  ASSUME IndInv, NEW o \in Objs, obj[o] = "working", RemovePeer(o)
  PROVE  /\ peers' \in Seq(Objs) /\ Len(peers') = Len(peers)
         /\ peersNum' \in 0..Len(peers') /\ networkTime' \in Int
         /\ Used(peers', peersNum') = Working' /\ Distinct(peers', peersNum')
<1> USE DEF IndInv, TypeOK
<1>1. o \in Used(peers, peersNum)
  BY DEF PeersAreWorking, Working
<1>2. /\ peers' \in Seq(Objs) /\ Len(peers') = Len(peers)
      /\ peersNum - 1 \in 0..Len(peers)
      /\ Used(peers', peersNum - 1) = Used(peers, peersNum) \ {o}
      /\ Distinct(peers', peersNum - 1)
  <2>1. peers' = Removed(peers, peersNum, o)
    BY DEF RemovePeer
  <2>2. peers \in Seq(Objs) /\ peersNum \in 0..Len(peers) /\ Distinct(peers, peersNum)
    BY DEF PeersAreWorking
  <2> QED
    BY <1>1, <2>1, <2>2, RemovedUses
<1>3. peersNum' = peersNum - 1
  BY DEF RemovePeer
<1>4. networkTime' \in Int
  <2>1. CASE peersNum' = 0
    BY <2>1 DEF RemovePeer
  <2>2. CASE peersNum' # 0
    <3>1. peersNum' \in 1..Len(peers')
      BY <1>2, <1>3, <2>2
    <3> QED
      BY <1>2, <2>2, <3>1, AdjustedTimeIsOffset, LimitsAssumption DEF RemovePeer
  <2> QED
    BY <2>1, <2>2
<1>5. Working' = Working \ {o}
  BY DEF Working, RemovePeer
<1> QED
  BY <1>2, <1>3, <1>4, <1>5 DEF PeersAreWorking

\* disconnectPeer for a connection that works or is attempted.
LEMMA DisconnectKeeps ==
  ASSUME IndInv, NEW o \in Connected, NEW released \in {"free", "leaked"},
         Disconnect(o, released),
         phase' \in Phases, stopIndex' \in Nat, stopNum' \in Nat, crash' \in Crashes,
         phase' = "stopping" => stopNum' <= Len(peers)
  PROVE  IndInv'
<1>0. TypeOK /\ CountersMatch /\ PeersAreWorking /\ PingWhilePeers
  BY DEF IndInv
<1>1. o \in Objs /\ (obj[o] = "working" \/ obj[o] = "attempting")
  BY DEF Connected
<1>2. /\ peers' \in Seq(Objs) /\ Len(peers') = Len(peers)
      /\ peersNum' \in 0..Len(peers') /\ networkTime' \in Int
      /\ Used(peers', peersNum') = Working' /\ Distinct(peers', peersNum')
      /\ obj' \in [Objs -> ObjStates]
      /\ \A q \in Objs : q # o => obj'[q] = obj[q]
      /\ obj'[o] \notin {"working", "attempting"}
  <2>1. CASE obj[o] = "working"
    <3>1. RemovePeer(o)
      BY <2>1 DEF Disconnect
    <3>2. obj' = [obj EXCEPT ![o] = "stored"]
      BY <3>1 DEF RemovePeer
    <3> QED
      BY <1>0, <1>1, <2>1, <3>1, <3>2, RemovePeerKeeps DEF ObjStates, TypeOK
  <2>2. CASE obj[o] = "attempting"
    <3>1. obj' = [obj EXCEPT ![o] = released] /\ UNCHANGED peerVars
      BY <2>2 DEF Disconnect
    <3>2. Working' = Working
      BY <1>0, <1>1, <2>2, <3>1 DEF Working, TypeOK
    <3> QED
      BY <1>0, <1>1, <2>2, <3>1, <3>2 DEF peerVars, PeersAreWorking, ObjStates, TypeOK
  <2> QED
    BY <1>1, <2>1, <2>2
<1>3. /\ incoming' = incoming /\ addr' = addr /\ public' = public
      /\ versioned' = versioned /\ offset' = offset
      /\ stoppedListening' = stoppedListening
      /\ attempting' = Dec(attempting)
      /\ numIncoming' = IF incoming[o] THEN Dec(numIncoming) ELSE numIncoming
  BY DEF Disconnect, LeaveIncoming
<1>4. Connected' = Connected \ {o}
  BY <1>1, <1>2 DEF Connected
<1>5. InWorking' = IF incoming[o] THEN InWorking \ {o} ELSE InWorking
  BY <1>1, <1>2, <1>3 DEF InWorking, Working
<1>6. incoming[o] => o \in InWorking
  BY <1>0, <1>1 DEF InWorking, Working, PeersAreWorking
<1>7. attempting = Cardinality(Connected) /\ numIncoming = Cardinality(InWorking)
  BY <1>0 DEF CountersMatch, InWorking
<1>8. /\ attempting > 0 /\ attempting' = attempting - 1
      /\ attempting' = Cardinality(Connected')
  <2>1. /\ Cardinality(Connected \ {o}) = Cardinality(Connected) - 1
        /\ Cardinality(Connected) > 0 /\ Cardinality(Connected) \in Nat
    BY <1>0, CountLeave, CountsAreNatural
  <2> QED
    BY <1>3, <1>4, <1>7, <2>1 DEF Dec
<1>9. /\ numIncoming' = Cardinality(InWorking')
      /\ numIncoming' = IF incoming[o] THEN numIncoming - 1 ELSE numIncoming
      /\ incoming[o] => numIncoming > 0
  <2>1. CASE incoming[o]
    <3>1. /\ Cardinality(InWorking \ {o}) = Cardinality(InWorking) - 1
          /\ Cardinality(InWorking) > 0 /\ Cardinality(InWorking) \in Nat
      BY <1>0, <1>6, <2>1, CountLeave, CountsAreNatural
    <3> QED
      BY <1>3, <1>5, <1>7, <2>1, <3>1 DEF Dec
  <2>2. CASE ~incoming[o]
    BY <1>3, <1>5, <1>7, <2>2
  <2> QED
    BY <2>1, <2>2
<1>10. /\ listening' \in BOOLEAN /\ bound' \in BOOLEAN /\ fdKnown' \in BOOLEAN
       /\ listening' => listening \/ numIncoming' < MaxIncoming
  <2>1. CASE stoppedListening /\ numIncoming' < MaxIncoming
    <3>1. StartListening
      BY <2>1 DEF Disconnect, LeaveIncoming
    <3> QED
      BY <1>0, <2>1, <3>1 DEF StartListening, TypeOK
  <2>2. CASE ~(stoppedListening /\ numIncoming' < MaxIncoming)
    <3>1. UNCHANGED listenVars
      BY <2>2 DEF Disconnect, LeaveIncoming
    <3> QED
      BY <1>0, <3>1 DEF listenVars, TypeOK
  <2> QED
    BY <2>1, <2>2
<1>11. pingTimer' \in BOOLEAN /\ PingWhilePeers'
  <2>1. pingTimer' = (pingTimer /\ peersNum' # 0)
    BY DEF Disconnect, KeepPinging
  <2>2. (pingTimer <=> peersNum > 0) /\ pingTimer \in BOOLEAN
    BY <1>0 DEF PingWhilePeers, TypeOK
  <2>3. peersNum' # 0 => peersNum > 0
    <3>1. CASE obj[o] = "working"
      <4>1. o \in Used(peers, peersNum)
        BY <1>0, <1>1, <3>1 DEF PeersAreWorking, Working
      <4> QED
        BY <1>0, <4>1 DEF Used, TypeOK
    <3>2. CASE obj[o] = "attempting"
      <4>1. peersNum' = peersNum
        BY <3>2 DEF Disconnect, peerVars
      <4> QED
        BY <1>0, <4>1 DEF TypeOK
    <3> QED
      BY <1>1, <3>1, <3>2
  <2>4. peersNum' \in Nat
    BY <1>2
  <2>5. pingTimer' <=> peersNum' # 0
    BY <2>1, <2>2, <2>3
  <2>6. pingTimer' \in BOOLEAN
    BY <2>1
  <2> QED
    BY <2>4, <2>5, <2>6 DEF PingWhilePeers
<1>12. TypeOK'
  <2>1. attempting' \in 0..CounterMax /\ numIncoming' \in 0..CounterMax
    BY <1>0, <1>8, <1>9, LimitsAssumption DEF TypeOK
  <2> QED
    BY <1>0, <1>2, <1>3, <1>10, <1>11, <2>1 DEF TypeOK
<1>13. CountersMatch'
  BY <1>8, <1>9 DEF CountersMatch, InWorking
<1>14. IncomingBounded' /\ OutgoingBounded' /\ RoomUntilStopped'
  <2>1. /\ attempting \in Nat /\ numIncoming \in Nat
        /\ numIncoming <= MaxIncoming /\ attempting <= MaxConnections + numIncoming
        /\ listening => numIncoming < MaxIncoming
        /\ ~stoppedListening => numIncoming < MaxIncoming
    BY <1>0 DEF IndInv, TypeOK, IncomingBounded, OutgoingBounded, RoomUntilStopped
  <2>2. IncomingBounded' /\ OutgoingBounded'
    BY <1>8, <1>9, <1>10, <2>1, LimitsAssumption DEF IncomingBounded, OutgoingBounded
  <2>3. RoomUntilStopped'
    BY <1>3, <1>9, <2>1, LimitsAssumption DEF RoomUntilStopped
  <2> QED
    BY <2>2, <2>3
<1>15. PeersAreWorking'
  BY <1>0, <1>2, <1>3 DEF PeersAreWorking
<1> QED
  BY <1>2, <1>11, <1>12, <1>13, <1>14, <1>15 DEF StopInRange, IndInv

\* acceptIncomingConnection
LEMMA AcceptKeeps ==
  ASSUME IndInv, NEW o \in Objs, Accept(o)
  PROVE  IndInv'
<1>0. TypeOK /\ CountersMatch /\ PeersAreWorking /\ IncomingBounded /\ OutgoingBounded
  BY DEF IndInv
<1>1. obj[o] = "free" /\ listening
  BY DEF Accept
<1>2. /\ obj' = [obj EXCEPT ![o] = "working"]
      /\ incoming' = [incoming EXCEPT ![o] = TRUE]
      /\ offset' = [offset EXCEPT ![o] = 0]
      /\ attempting' = attempting + 1 /\ numIncoming' = numIncoming + 1
      /\ AddPeer(o) /\ UNCHANGED <<stopVars, crash>>
  BY DEF Accept
<1>3. /\ addr' \in [Objs -> Addrs \cup {NoAddr}] /\ public' \in [Objs -> BOOLEAN]
      /\ versioned' \subseteq Objs
  BY <1>0 DEF Accept, TypeOK
<1>4. /\ peers' \in Seq(Objs) /\ Len(peers') = peersNum'
      /\ peersNum' \in 0..Len(peers') /\ networkTime' \in Int
      /\ Used(peers', peersNum') = Working' /\ Distinct(peers', peersNum')
      /\ PingWhilePeers'
  BY <1>1, <1>2, AddPeerKeeps
<1>5. /\ listening' \in BOOLEAN /\ bound' \in BOOLEAN /\ fdKnown' \in BOOLEAN
      /\ stoppedListening' \in BOOLEAN
      /\ numIncoming' = MaxIncoming => ~listening' /\ stoppedListening'
  <2>1. CASE LimitReached
    BY <1>0, <2>1 DEF Accept, StopListening, TypeOK
  <2>2. CASE ~LimitReached
    BY <1>0, <2>2 DEF Accept, LimitReached, listenVars, TypeOK
  <2> QED
    BY <2>1, <2>2
<1>6. pingTimer' \in BOOLEAN
  BY <1>2 DEF AddPeer
<1>7. numIncoming < MaxIncoming
  BY <1>0, <1>1 DEF IncomingBounded
<1>8. TypeOK'
  <2>1. attempting' \in 0..CounterMax /\ numIncoming' \in 0..CounterMax
    BY <1>2, NoWrap
  <2>2. /\ obj' \in [Objs -> ObjStates] /\ incoming' \in [Objs -> BOOLEAN]
        /\ offset' \in [Objs -> Int]
    BY <1>0, <1>2 DEF TypeOK, ObjStates
  <2>3. phase' \in Phases /\ stopIndex' \in Nat /\ stopNum' \in Nat /\ crash' \in Crashes
    BY <1>0, <1>2 DEF TypeOK, stopVars
  <2> QED
    BY <1>3, <1>4, <1>5, <1>6, <2>1, <2>2, <2>3 DEF TypeOK
<1>9. CountersMatch'
  <2>1. Connected' = Connected \cup {o} /\ o \notin Connected
    BY <1>0, <1>1, <1>2 DEF Connected, TypeOK
  <2>2. InWorking' = InWorking \cup {o}
    BY <1>0, <1>1, <1>2 DEF InWorking, Working, TypeOK
  <2>3. attempting = Cardinality(Connected) /\ numIncoming = Cardinality(InWorking)
    BY <1>0 DEF CountersMatch, InWorking
  <2>4. attempting' = Cardinality(Connected') /\ numIncoming' = Cardinality(InWorking')
    BY <1>0, <1>2, <2>1, <2>2, <2>3, CountJoin
  <2> QED
    BY <2>4 DEF CountersMatch, InWorking
<1>10. PeersAreWorking'
  BY <1>0, <1>2, <1>4 DEF PeersAreWorking, TypeOK
<1>11. IncomingBounded' /\ OutgoingBounded' /\ RoomUntilStopped'
  <2>1. /\ attempting \in Nat /\ numIncoming \in Nat
        /\ attempting <= MaxConnections + numIncoming
    BY <1>0 DEF TypeOK, OutgoingBounded
  <2> QED
    BY <1>2, <1>5, <1>7, <2>1, LimitsAssumption
    DEF IncomingBounded, OutgoingBounded, RoomUntilStopped
<1>12. StopInRange'
  BY <1>2 DEF Accept, Live, StopInRange, stopVars
<1> QED
  BY <1>4, <1>8, <1>9, <1>10, <1>11, <1>12 DEF IndInv

\* tryConnectingToStoredAddresses from a store in which the connections are the
\* ones the state has.
LEMMA TryConnectingKeeps ==
  ASSUME IndInv, NEW at \in [Objs -> ObjStates],
         NEW ad \in [Objs -> Addrs \cup {NoAddr}], NEW pub \in [Objs -> BOOLEAN],
         \A o \in Objs : at[o] = obj[o] \/ (obj[o] = "free" /\ at[o] = "stored"),
         TryConnectingFrom(at, ad, pub), addr' = ad, public' = pub,
         UNCHANGED <<peerVars, numIncoming, listenVars, stoppedListening, pingTimer,
                     stopVars>>
  PROVE  IndInv'
<1>0. TypeOK /\ CountersMatch /\ PeersAreWorking /\ IncomingBounded /\ OutgoingBounded
      /\ PingWhilePeers /\ StopInRange /\ RoomUntilStopped
  BY DEF IndInv
<1>1. /\ peers' = peers /\ peersNum' = peersNum /\ networkTime' = networkTime
      /\ numIncoming' = numIncoming /\ listening' = listening /\ bound' = bound
      /\ fdKnown' = fdKnown /\ stoppedListening' = stoppedListening
      /\ pingTimer' = pingTimer /\ phase' = phase /\ stopIndex' = stopIndex
      /\ stopNum' = stopNum
  BY DEF peerVars, listenVars, stopVars
<1> DEFINE Outcome(ok) ==
        /\ IsFiniteSet(ok) /\ Cardinality(ok) \in Nat
        /\ attempting' = attempting + Cardinality(ok)
        /\ attempting' <= MaxConnections \/ ok = {}
        /\ obj' \in [Objs -> ObjStates]
        /\ \A o \in ok : obj'[o] = "attempting"
        /\ \A o \in Objs \ ok : obj'[o] = at[o] \/ (at[o] = "stored" /\ obj'[o] \in {"stored", "free"})
        /\ incoming' \in [Objs -> BOOLEAN]
        /\ \A o \in Objs : incoming'[o] = incoming[o] \/ (at[o] = "stored" /\ ~incoming'[o])
        /\ \A o \in ok : ~incoming'[o]
        /\ versioned' \subseteq Objs /\ offset' \in [Objs -> Int] /\ crash' \in Crashes
<1>2. \E ok \in SUBSET {o \in Objs : at[o] = "stored"} : Outcome(ok)
  <2>1. CASE UNCHANGED <<attempting, incoming, versioned, offset>> /\ obj' = at /\ crash' \in Crashes
    <3>1. {} \in SUBSET {o \in Objs : at[o] = "stored"} /\ attempting \in Nat
      BY <1>0 DEF TypeOK
    <3>2. IsFiniteSet({}) /\ Cardinality({}) = 0
      BY FS_EmptySet
    <3>3. attempting' = attempting + Cardinality({})
      BY <2>1, <3>1, <3>2
    <3>4. incoming' \in [Objs -> BOOLEAN] /\ versioned' \subseteq Objs /\ offset' \in [Objs -> Int]
      BY <1>0, <2>1 DEF TypeOK
    <3>5. Outcome({})
      BY <2>1, <3>2, <3>3, <3>4
    <3> QED
      BY <3>1, <3>5
  <2>2. ASSUME attempting < MaxConnections, NEW chosen \in Tried(at), Attempt(chosen, at, ad, pub)
        PROVE  \E ok \in SUBSET {o \in Objs : at[o] = "stored"} : Outcome(ok)
    <3>0. PICK ok \in SUBSET chosen : \E unsupported \in SUBSET (chosen \ ok) :
            /\ obj' = [o \in Objs |->
                 IF o \notin chosen THEN at[o]
                 ELSE IF o \in ok THEN "attempting"
                 ELSE IF pub[o] /\ o \notin unsupported THEN "stored" ELSE "free"]
            /\ attempting' = attempting + Cardinality(ok)
            /\ incoming' = [o \in Objs |-> incoming[o] /\ o \notin chosen]
            /\ versioned' = versioned \ chosen
            /\ offset' = [o \in Objs |-> IF o \in chosen THEN 0 ELSE offset[o]]
            /\ crash' = crash
      BY <2>2 DEF Attempt
    <3>a. chosen \in SUBSET {o \in Objs : at[o] = "stored"} /\ Cardinality(chosen) <= PossibleConnections
      BY DEF Tried
    <3>1. chosen \in SUBSET Objs
      BY <3>a
    <3>2. IsFiniteSet(chosen)
      BY <3>1, ObjsAssumption, FS_Subset
    <3>3. IsFiniteSet(ok) /\ Cardinality(ok) <= Cardinality(chosen)
      BY <3>2, FS_Subset
    <3>4. Cardinality(ok) \in Nat /\ Cardinality(chosen) \in Nat
      BY <3>2, <3>3, FS_CardinalityType
    <3>5. attempting' <= MaxConnections
      BY <1>0, <2>2, <3>0, <3>a, <3>3, <3>4, LimitsAssumption DEF PossibleConnections, TypeOK
    <3>6. obj' \in [Objs -> ObjStates]
      BY <3>0 DEF ObjStates
    <3>7. \A o \in ok : obj'[o] = "attempting" /\ ~incoming'[o]
      BY <3>0, <3>a
    <3>8. \A o \in Objs \ ok : obj'[o] = at[o] \/ (at[o] = "stored" /\ obj'[o] \in {"stored", "free"})
      BY <3>0, <3>a
    <3>9. incoming' \in [Objs -> BOOLEAN]
      BY <3>0, <3>a
    <3>10. \A o \in Objs : incoming'[o] = incoming[o] \/ (at[o] = "stored" /\ ~incoming'[o])
      <4>1. SUFFICES ASSUME NEW o \in Objs
                     PROVE  incoming'[o] = incoming[o] \/ (at[o] = "stored" /\ ~incoming'[o])
        OBVIOUS
      <4>2. incoming[o] \in BOOLEAN
        BY <1>0 DEF TypeOK
      <4>3. incoming'[o] = (incoming[o] /\ o \notin chosen)
        BY <3>0
      <4> QED
        BY <3>a, <4>2, <4>3
    <3>11. versioned' \subseteq Objs /\ offset' \in [Objs -> Int] /\ crash' \in Crashes
      BY <1>0, <3>0, <3>a DEF TypeOK
    <3>12. ok \in SUBSET {o \in Objs : at[o] = "stored"}
      BY <3>a
    <3> QED
      BY <3>0, <3>3, <3>4, <3>5, <3>6, <3>7, <3>8, <3>9, <3>10, <3>11, <3>12
  <2>3. {"assert", "released"} \subseteq Crashes /\ crash \in Crashes /\ attempting \in Nat /\ MaxConnections \in Nat
    BY <1>0, LimitsAssumption DEF Crashes, TypeOK
  <2> HIDE DEF Outcome
  <2> QED
    BY <2>1, <2>2, <2>3 DEF TryConnectingFrom
<1>3. PICK ok \in SUBSET {o \in Objs : at[o] = "stored"} : Outcome(ok)
  BY <1>2
<1>4. /\ attempting \in Nat /\ numIncoming \in Nat /\ Cardinality(ok) \in Nat
      /\ attempting' = attempting + Cardinality(ok)
      /\ attempting' <= MaxConnections \/ ok = {}
  BY <1>0, <1>3 DEF TypeOK
<1>5. Connected' = Connected \cup ok /\ Connected \cap ok = {}
  BY <1>3 DEF Connected
<1>6. Working' = Working
  BY <1>3 DEF Working
<1>7. InWorking' = InWorking
  BY <1>3, <1>6 DEF InWorking, Working
<1>8. CountersMatch'
  <2>1. attempting = Cardinality(Connected) /\ numIncoming = Cardinality(InWorking)
    BY <1>0 DEF CountersMatch, InWorking
  <2>2. Cardinality(Connected') = Cardinality(Connected) + Cardinality(ok)
    <3>1. /\ Cardinality(Connected \cap ok) = 0
          /\ IsFiniteSet(Connected) /\ Cardinality(Connected) \in Nat /\ IsFiniteSet(ok)
      BY <1>0, <1>3, <1>5, CountsAreNatural, FS_EmptySet
    <3>2. Cardinality(Connected \cup ok) =
            Cardinality(Connected) + Cardinality(ok) - Cardinality(Connected \cap ok)
      BY <3>1, FS_Union
    <3> QED
      BY <1>4, <1>5, <3>1, <3>2
  <2> QED
    BY <1>1, <1>3, <1>7, <2>1, <2>2 DEF CountersMatch, InWorking
<1>9. IncomingBounded' /\ OutgoingBounded'
  <2>1. IncomingBounded'
    BY <1>0, <1>1 DEF IncomingBounded
  <2>2. CASE attempting' <= MaxConnections
    <3>1. MaxConnections <= MaxConnections + numIncoming
      BY <1>4, LimitsAssumption
    <3> QED
      BY <1>1, <1>4, <2>1, <2>2, <3>1, LimitsAssumption DEF OutgoingBounded
  <2>3. CASE ok = {}
    <3>1. attempting' = attempting
      BY <1>4, <2>3, FS_EmptySet
    <3>2. attempting <= MaxConnections + numIncoming
      BY <1>0 DEF OutgoingBounded
    <3> QED
      BY <1>1, <2>1, <3>1, <3>2 DEF OutgoingBounded
  <2> QED
    BY <1>4, <2>1, <2>2, <2>3
<1>10. TypeOK'
  <2>1. attempting' \in 0..CounterMax
    <3>1. attempting' \in Nat /\ attempting' <= MaxConnections + numIncoming
      BY <1>1, <1>3, <1>4, <1>9 DEF OutgoingBounded
    <3> QED
      BY <1>0, <1>4, <3>1, LimitsAssumption DEF IncomingBounded
  <2> QED
    BY <1>0, <1>1, <1>3, <2>1 DEF TypeOK
<1>11. PeersAreWorking'
  BY <1>0, <1>1, <1>3, <1>6 DEF PeersAreWorking
<1>12. StopInRange' /\ PingWhilePeers' /\ RoomUntilStopped'
  BY <1>0, <1>1 DEF StopInRange, PingWhilePeers, RoomUntilStopped
<1> QED
  BY <1>8, <1>9, <1>10, <1>11, <1>12 DEF IndInv

\* onPeerConnectCallback
LEMMA PeerConnectedKeeps ==
  ASSUME VersionMayFail = FALSE, IndInv, NEW o \in Objs, PeerConnected(o)
  PROVE  IndInv'
<1>0. TypeOK /\ CountersMatch /\ PeersAreWorking /\ IncomingBounded /\ OutgoingBounded
      /\ PingWhilePeers /\ StopInRange /\ RoomUntilStopped
  BY DEF IndInv
<1>1. /\ obj[o] = "attempting" /\ o \in Connected
      /\ addr' = addr /\ public' = public /\ incoming' = incoming
      /\ versioned' = versioned /\ offset' = offset /\ numIncoming' = numIncoming
      /\ listening' = listening /\ bound' = bound /\ fdKnown' = fdKnown
      /\ stoppedListening' = stoppedListening /\ phase' = phase
      /\ stopIndex' = stopIndex /\ stopNum' = stopNum /\ crash' = crash
      /\ phase # "stopping"
  BY DEF PeerConnected, Connected, listenVars, stopVars, Live
<1>2. ~incoming[o] /\ attempting \in Nat /\ numIncoming \in Nat
  BY <1>0, <1>1 DEF PeersAreWorking, TypeOK
<1>3. CASE obj' = [obj EXCEPT ![o] = "working"] /\ AddPeer(o) /\ UNCHANGED attempting
  <2>1. /\ peers' \in Seq(Objs) /\ Len(peers') = peersNum'
        /\ peersNum' \in 0..Len(peers') /\ networkTime' \in Int
        /\ Used(peers', peersNum') = Working' /\ Distinct(peers', peersNum')
        /\ PingWhilePeers'
    BY <1>1, <1>3, AddPeerKeeps
  <2>2. TypeOK'
    <3>1. obj' \in [Objs -> ObjStates] /\ pingTimer' \in BOOLEAN
      BY <1>0, <1>3 DEF TypeOK, ObjStates, AddPeer
    <3> QED
      BY <1>0, <1>1, <1>3, <2>1, <3>1 DEF TypeOK
  <2>3. CountersMatch'
    <3>1. Connected' = Connected
      BY <1>0, <1>1, <1>3 DEF Connected, TypeOK
    <3>2. InWorking' = InWorking
      BY <1>0, <1>1, <1>2, <1>3 DEF InWorking, Working, TypeOK
    <3> QED
      BY <1>0, <1>1, <1>3, <3>1, <3>2 DEF CountersMatch, InWorking
  <2>4. PeersAreWorking'
    BY <1>0, <1>1, <1>3, <2>1 DEF PeersAreWorking, TypeOK
  <2>5. IncomingBounded' /\ OutgoingBounded'
    BY <1>0, <1>1, <1>3 DEF IncomingBounded, OutgoingBounded
  <2> QED
    BY <1>0, <1>1, <2>1, <2>2, <2>3, <2>4, <2>5 DEF IndInv, StopInRange, RoomUntilStopped
<1>4. CASE ConnectionClosed(o) /\ UNCHANGED <<peerVars, pingTimer>>
  <2>1. /\ obj' \in [Objs -> ObjStates] /\ obj'[o] \notin {"attempting", "working"}
        /\ \A q \in Objs : q # o => obj'[q] = obj[q]
    BY <1>0, <1>4 DEF ConnectionClosed, TypeOK, ObjStates
  <2>2. /\ peers' = peers /\ peersNum' = peersNum /\ networkTime' = networkTime
        /\ pingTimer' = pingTimer /\ attempting' = Dec(attempting)
    BY <1>4 DEF ConnectionClosed, peerVars
  <2>3. Connected' = Connected \ {o} /\ Working' = Working
    BY <1>1, <2>1 DEF Connected, Working
  <2>4. InWorking' = InWorking
    BY <1>1, <2>3 DEF InWorking
  <2>5. CountersMatch' /\ attempting' \in 0..CounterMax /\ attempting' <= attempting
    <3>1. attempting = Cardinality(Connected) /\ numIncoming = Cardinality(InWorking)
      BY <1>0 DEF CountersMatch, InWorking
    <3>2. /\ Cardinality(Connected \ {o}) = Cardinality(Connected) - 1
          /\ Cardinality(Connected) > 0
      BY <1>0, <1>1, CountLeave
    <3>3. attempting' = attempting - 1 /\ attempting > 0 /\ attempting <= CounterMax
      BY <1>0, <1>2, <2>2, <3>1, <3>2 DEF Dec, TypeOK
    <3>4. CountersMatch'
      BY <1>1, <2>3, <2>4, <3>1, <3>2, <3>3 DEF CountersMatch, InWorking
    <3> QED
      BY <1>2, <3>3, <3>4, LimitsAssumption
  <2>6. TypeOK'
    BY <1>0, <1>1, <2>1, <2>2, <2>5 DEF TypeOK
  <2>7. PeersAreWorking' /\ PingWhilePeers' /\ StopInRange' /\ RoomUntilStopped'
    BY <1>0, <1>1, <2>1, <2>2, <2>3
    DEF PeersAreWorking, PingWhilePeers, StopInRange, RoomUntilStopped
  <2>8. IncomingBounded' /\ OutgoingBounded'
    <3>1. IncomingBounded'
      BY <1>0, <1>1 DEF IncomingBounded
    <3>2. attempting <= MaxConnections + numIncoming
      BY <1>0 DEF OutgoingBounded
    <3>3. attempting' <= MaxConnections + numIncoming'
      BY <1>1, <1>2, <2>5, <3>2, LimitsAssumption
    <3> QED
      BY <3>1, <3>3 DEF OutgoingBounded
  <2> QED
    BY <2>5, <2>6, <2>7, <2>8 DEF IndInv
<1> QED
  BY <1>3, <1>4 DEF PeerConnected

\* The other handlers leave the connections and their counters alone.
LEMMA QuietStepKeeps ==
  ASSUME IndInv, TypeOK', StopInRange',
         \A q \in Objs : obj'[q] = obj[q] \/ (obj[q] = "free" /\ obj'[q] = "stored"),
         UNCHANGED <<incoming, peers, peersNum, attempting, numIncoming,
                     stoppedListening, pingTimer>>,
         listening' => listening \/ numIncoming < MaxIncoming
  PROVE  IndInv'
<1>0. CountersMatch /\ PeersAreWorking /\ IncomingBounded /\ OutgoingBounded
      /\ PingWhilePeers /\ RoomUntilStopped
  BY DEF IndInv
<1>1. Connected' = Connected /\ Working' = Working
  BY DEF Connected, Working
<1>2. InWorking' = InWorking
  BY <1>1 DEF InWorking
<1>3. CountersMatch'
  BY <1>0, <1>1, <1>2 DEF CountersMatch, InWorking
<1>4. PeersAreWorking'
  BY <1>0, <1>1 DEF PeersAreWorking
<1>5. IncomingBounded' /\ OutgoingBounded'
  BY <1>0 DEF IncomingBounded, OutgoingBounded
<1>6. PingWhilePeers' /\ RoomUntilStopped'
  BY <1>0 DEF PingWhilePeers, RoomUntilStopped
<1> QED
  BY <1>3, <1>4, <1>5, <1>6 DEF IndInv

LEMMA CrashKeeps ==
  ASSUME IndInv, NEW why \in Crashes, Crash(why)
  PROVE  IndInv'
<1>1. TypeOK'
  BY DEF IndInv, TypeOK, Crash, objVars, peerVars, listenVars, stopVars
<1>2. StopInRange'
  BY DEF IndInv, StopInRange, Crash, peerVars, stopVars
<1> QED
  BY <1>1, <1>2, QuietStepKeeps DEF Crash, objVars, peerVars, listenVars

LEMMA ApplicationCallsKeep ==
  ASSUME IndInv, Start \/ Listen \/ Stop \/ ExitLoop \/ LoopEnds
  PROVE  IndInv'
<1>0. TypeOK /\ StopInRange /\ RoomUntilStopped
  BY DEF IndInv
<1>1. CASE Start \/ ExitLoop \/ LoopEnds
  <2>1. TypeOK'
    BY <1>0, <1>1 DEF TypeOK, Start, ExitLoop, LoopEnds, Phases, objVars, peerVars, listenVars
  <2>2. StopInRange'
    BY <1>1 DEF Start, ExitLoop, LoopEnds, StopInRange
  <2> QED
    BY <1>1, <2>1, <2>2, QuietStepKeeps DEF Start, ExitLoop, LoopEnds, objVars, peerVars, listenVars
<1>2. CASE Listen
  <2>1. TypeOK'
    BY <1>0, <1>2 DEF TypeOK, Listen, StartListening, objVars, peerVars, stopVars
  <2>2. StopInRange' /\ numIncoming < MaxIncoming
    BY <1>0, <1>2 DEF Listen, StopInRange, RoomUntilStopped, stopVars
  <2> QED
    BY <1>2, <2>1, <2>2, QuietStepKeeps DEF Listen, objVars, peerVars
<1>3. CASE Stop
  <2>1. /\ listening' \in BOOLEAN /\ bound' \in BOOLEAN /\ fdKnown' \in BOOLEAN
        /\ listening' => listening
    BY <1>0, <1>3 DEF Stop, StopListening, listenVars, TypeOK
  <2>2. TypeOK'
    BY <1>0, <1>3, <2>1 DEF TypeOK, Stop, Phases, objVars, peerVars
  <2>3. StopInRange'
    BY <1>0, <1>3 DEF Stop, StopInRange, TypeOK, peerVars
  <2> QED
    BY <1>3, <2>1, <2>2, <2>3, QuietStepKeeps DEF Stop, objVars, peerVars
<1> QED
  BY <1>1, <1>2, <1>3

\* A round of the loop in stopNetworkCommunicator
LEMMA StopRoundKeeps ==
  ASSUME IndInv, StopRound
  PROVE  IndInv'
<1>0. TypeOK /\ StopInRange
  BY DEF IndInv
<1> DEFINE o == peers[stopIndex + 1]
<1>1. phase = "stopping" /\ stopIndex + 1 \in 1..Len(peers) /\ o \in Objs
  BY <1>0 DEF StopRound, StopInRange, TypeOK
<1> HIDE DEF o
<1>2. CASE obj[o] = "working" /\ Disconnect(o, "free") /\ stopIndex' = stopIndex + 1
           /\ UNCHANGED <<phase, stopNum, crash>>
  <2>1. /\ phase' \in Phases /\ stopIndex' \in Nat /\ stopNum' \in Nat /\ crash' \in Crashes
        /\ stopNum' <= Len(peers)
    BY <1>0, <1>1, <1>2 DEF TypeOK, StopInRange
  <2> QED
    BY <1>1, <1>2, <2>1, DisconnectKeeps DEF Connected
<1>3. CASE Crash("released")
  BY <1>3, CrashKeeps DEF Crashes
<1> QED
  BY <1>2, <1>3 DEF StopRound, o

\* The handlers that lose a connection
LEMMA LossKeeps ==
  ASSUME IndInv, NEW o \in Objs, PeerLost(o) \/ HeaderRefused(o) \/ TimedOut(o)
  PROVE  IndInv'
<1>0. TypeOK /\ StopInRange
  BY DEF IndInv
<1>1. o \in Connected
  BY DEF PeerLost, HeaderRefused, TimedOut, Connected
<1>2. PICK released \in {"free", "leaked"} : Disconnect(o, released)
  BY DEF PeerLost, HeaderRefused, TimedOut
<1>3. /\ phase' = phase /\ stopIndex' = stopIndex /\ stopNum' = stopNum
      /\ crash' \in Crashes
  BY <1>0 DEF PeerLost, HeaderRefused, TimedOut, stopVars, TypeOK, Crashes
<1>4. /\ phase' \in Phases /\ stopIndex' \in Nat /\ stopNum' \in Nat
      /\ phase' = "stopping" => stopNum' <= Len(peers)
  BY <1>0, <1>3 DEF TypeOK, StopInRange
<1> QED
  BY <1>1, <1>2, <1>3, <1>4, DisconnectKeeps

\* The version message
LEMMA VersionReceivedKeeps ==
  ASSUME IndInv, NEW o \in Objs, NEW src \in Addrs, NEW off \in Offsets,
         VersionReceived(o, src, off)
  PROVE  IndInv'
<1>0. TypeOK /\ StopInRange
  BY DEF IndInv
<1>1. o \in Connected
  BY DEF VersionReceived, Connected
<1>2. CASE Disconnect(o, "free") /\ UNCHANGED <<stopVars, crash>>
  <2>1. /\ phase' \in Phases /\ stopIndex' \in Nat /\ stopNum' \in Nat /\ crash' \in Crashes
        /\ phase' = "stopping" => stopNum' <= Len(peers)
    BY <1>0, <1>2 DEF TypeOK, StopInRange, stopVars
  <2> QED
    BY <1>1, <1>2, <2>1, DisconnectKeeps
<1>3. CASE Crash("notpeer")
  BY <1>3, CrashKeeps DEF Crashes
<1>4. CASE /\ addr' = [addr EXCEPT ![o] = src]
           /\ versioned' = versioned \cup {o}
           /\ offset' = [offset EXCEPT ![o] = off]
           /\ UNCHANGED <<obj, public, incoming, peerVars, attempting, numIncoming,
                          listenVars, stoppedListening, pingTimer, stopVars, crash>>
  <2>1. TypeOK'
    BY <1>0, <1>4, OffsetsAssumption DEF TypeOK, peerVars, listenVars, stopVars
  <2>2. StopInRange'
    BY <1>0, <1>4 DEF StopInRange, peerVars, stopVars
  <2> QED
    BY <1>4, <2>1, <2>2, QuietStepKeeps DEF peerVars, listenVars
<1> QED
  BY <1>2, <1>3, <1>4 DEF VersionReceived

\* Addresses that come in, and the connections tried because of them
LEMMA AddressesKeep ==
  ASSUME IndInv,
         \/ TryConnecting
         \/ \E o \in Objs, a \in Addrs : AddressReceived(o, a) \/ AddressAdded(o, a)
  PROVE  IndInv'
<1>0. TypeOK /\ StopInRange
  BY DEF IndInv
<1>1. CASE TryConnecting
  <2>1. /\ obj \in [Objs -> ObjStates] /\ addr \in [Objs -> Addrs \cup {NoAddr}]
        /\ public \in [Objs -> BOOLEAN]
    BY <1>0 DEF TypeOK
  <2>2. TryConnectingFrom(obj, addr, public) /\ addr' = addr /\ public' = public
    BY <1>1 DEF TryConnecting
  <2>3. UNCHANGED <<peerVars, numIncoming, listenVars, stoppedListening, pingTimer, stopVars>>
    BY <1>1 DEF TryConnecting
  <2> QED
    BY <2>1, <2>2, <2>3, TryConnectingKeeps
<1>2. ASSUME NEW o \in Objs, NEW a \in Addrs, AddressAdded(o, a)
      PROVE  IndInv'
  <2>1. TypeOK'
    BY <1>0, <1>2 DEF TypeOK, AddressAdded, ObjStates, peerVars, listenVars, stopVars
  <2>2. StopInRange'
    BY <1>0, <1>2 DEF StopInRange, AddressAdded, peerVars, stopVars
  <2>3. \A q \in Objs : obj'[q] = obj[q] \/ (obj[q] = "free" /\ obj'[q] = "stored")
    BY <1>0, <1>2 DEF TypeOK, AddressAdded
  <2> QED
    BY <1>2, <2>1, <2>2, <2>3, QuietStepKeeps DEF AddressAdded, peerVars, listenVars
<1>3. ASSUME NEW o \in Objs, NEW a \in Addrs, AddressReceived(o, a)
      PROVE  IndInv'
  <2>1. CASE Crash("division")
    BY <2>1, CrashKeeps DEF Crashes
  <2>2. ASSUME NEW q \in Objs, public' = [public EXCEPT ![q] = TRUE],
               UNCHANGED <<obj, addr, attempting, incoming, versioned, offset, crash>>,
               UNCHANGED <<peerVars, numIncoming, listenVars, stoppedListening,
                           pingTimer, stopVars>>
        PROVE  IndInv'
    <3>1. TypeOK'
      BY <1>0, <2>2 DEF TypeOK, peerVars, listenVars, stopVars
    <3>2. StopInRange'
      BY <1>0, <2>2 DEF StopInRange, peerVars, stopVars
    <3> QED
      BY <2>2, <3>1, <3>2, QuietStepKeeps DEF peerVars, listenVars
  <2>3. ASSUME NEW n \in Objs, NEW b \in BOOLEAN, obj[n] = "free",
               addr' = [addr EXCEPT ![n] = a], public' = [public EXCEPT ![n] = b],
               TryConnectingFrom([obj EXCEPT ![n] = "stored"], addr', public'),
               UNCHANGED <<peerVars, numIncoming, listenVars, stoppedListening,
                           pingTimer, stopVars>>
        PROVE  IndInv'
    <3> DEFINE at == [obj EXCEPT ![n] = "stored"]
               ad == [addr EXCEPT ![n] = a]
               pub == [public EXCEPT ![n] = b]
    <3>1. /\ at \in [Objs -> ObjStates] /\ ad \in [Objs -> Addrs \cup {NoAddr}]
          /\ pub \in [Objs -> BOOLEAN]
          /\ \A q \in Objs : at[q] = obj[q] \/ (obj[q] = "free" /\ at[q] = "stored")
      BY <1>0, <2>3 DEF TypeOK, ObjStates
    <3>2. TryConnectingFrom(at, ad, pub) /\ addr' = ad /\ public' = pub
      BY <2>3
    <3> HIDE DEF at, ad, pub
    <3> QED
      BY <2>3, <3>1, <3>2, TryConnectingKeeps
  <2> QED
    BY <1>3, <2>1, <2>2, <2>3 DEF AddressReceived, Known
<1> QED
  BY <1>1, <1>2, <1>3

------------------------------------------------------------------------------
(* The theorems.                                                            *)

LEMMA InitInv == Init => IndInv
<1> SUFFICES ASSUME Init PROVE IndInv
  OBVIOUS
<1>1. TypeOK
  <2>1. peers \in Seq(Objs) /\ peersNum \in 0..Len(peers)
    BY DEF Init
  <2>2. attempting \in 0..CounterMax /\ numIncoming \in 0..CounterMax
    BY LimitsAssumption DEF Init
  <2>3. /\ obj \in [Objs -> ObjStates] /\ addr \in [Objs -> Addrs \cup {NoAddr}]
        /\ public \in [Objs -> BOOLEAN] /\ incoming \in [Objs -> BOOLEAN]
        /\ offset \in [Objs -> Int] /\ versioned \subseteq Objs
    BY DEF Init, ObjStates
  <2>4. /\ listening \in BOOLEAN /\ bound \in BOOLEAN /\ fdKnown \in BOOLEAN
        /\ stoppedListening \in BOOLEAN /\ pingTimer \in BOOLEAN
    BY DEF Init
  <2>5. networkTime \in Int /\ phase \in Phases /\ stopIndex \in Nat /\ stopNum \in Nat
        /\ crash \in Crashes
    BY DEF Init, Phases, Crashes
  <2> QED
    BY <2>1, <2>2, <2>3, <2>4, <2>5 DEF TypeOK
<1>2. Connected = {} /\ InWorking = {} /\ Working = {}
  BY DEF Init, Connected, InWorking, Working
<1>3. CountersMatch
  BY <1>2, FS_EmptySet DEF Init, CountersMatch, InWorking
<1>4. PeersAreWorking
  BY <1>2 DEF Init, PeersAreWorking, Used, Distinct
<1>5. IncomingBounded /\ OutgoingBounded /\ RoomUntilStopped
  BY LimitsAssumption DEF Init, IncomingBounded, OutgoingBounded, RoomUntilStopped
<1>6. PingWhilePeers /\ StopInRange
  BY DEF Init, PingWhilePeers, StopInRange
<1> QED
  BY <1>1, <1>3, <1>4, <1>5, <1>6 DEF IndInv

LEMMA NextInv ==
  ASSUME VersionMayFail = FALSE, IndInv, [Next]_vars
  PROVE  IndInv'
<1>1. CASE Start \/ Listen \/ Stop \/ ExitLoop \/ LoopEnds
  BY <1>1, ApplicationCallsKeep
<1>2. CASE StopRound
  BY <1>2, StopRoundKeeps
<1>3. CASE \/ TryConnecting
           \/ \E o \in Objs, a \in Addrs : AddressReceived(o, a) \/ AddressAdded(o, a)
  BY <1>3, AddressesKeep
<1>4. ASSUME NEW o \in Objs, Accept(o)
      PROVE  IndInv'
  BY <1>4, AcceptKeeps
<1>5. ASSUME NEW o \in Objs, PeerConnected(o)
      PROVE  IndInv'
  BY <1>5, PeerConnectedKeeps
<1>6. ASSUME NEW o \in Objs, PeerLost(o) \/ HeaderRefused(o) \/ TimedOut(o)
      PROVE  IndInv'
  BY <1>6, LossKeeps
<1>7. ASSUME NEW o \in Objs, NEW a \in Addrs, NEW off \in Offsets, VersionReceived(o, a, off)
      PROVE  IndInv'
  BY <1>7, VersionReceivedKeeps
<1>8. CASE UNCHANGED vars
  BY <1>8 DEF vars, objVars, peerVars, listenVars, stopVars, IndInv, TypeOK, StopInRange,
              CountersMatch, PeersAreWorking, IncomingBounded, OutgoingBounded,
              RoomUntilStopped, PingWhilePeers, Connected, Working
<1> QED
  BY <1>1, <1>2, <1>3, <1>4, <1>5, <1>6, <1>7, <1>8 DEF Next

\* The inductive invariant holds in every reachable state.
THEOREM Invariance ==
  ASSUME VersionMayFail = FALSE
  PROVE  Spec => []IndInv
<1>1. IndInv /\ [Next]_vars => IndInv'
  BY NextInv
<1> QED
  BY <1>1, InitInv, PTL DEF Spec

\* The state keeps its types; in particular neither uint32_t counter wraps.
THEOREM TypeCorrect ==
  ASSUME VersionMayFail = FALSE
  PROVE  Spec => []TypeOK
<1>1. IndInv => TypeOK
  BY DEF IndInv
<1> QED
  BY <1>1, Invariance, PTL

\* attemptingOrWorkingConnections and numIncomingConnections always count the
\* connections there are, in whatever order handlers run.
THEOREM CountersCorrect ==
  ASSUME VersionMayFail = FALSE
  PROVE  Spec => []CountersMatch
<1>1. IndInv => CountersMatch
  BY DEF IndInv
<1> QED
  BY <1>1, Invariance, PTL

\* The used slots of the peer array are the working connections, each once.
THEOREM PeersCorrect ==
  ASSUME VersionMayFail = FALSE
  PROVE  Spec => []PeersAreConnected
<1>1. IndInv => PeersAreConnected
  <2> SUFFICES ASSUME IndInv PROVE PeersAreConnected
    OBVIOUS
  <2>1. PeersAreWorking
    BY DEF IndInv
  <2> QED
    BY <2>1 DEF PeersAreWorking, PeersAreConnected, Used, Distinct, Working
<1> QED
  BY <1>1, Invariance, PTL

\* Incoming connections stay within maxIncommingConnections, although an accept
\* event still pending when the last place goes is already on its way.
THEOREM IncomingLimitRespected ==
  ASSUME VersionMayFail = FALSE
  PROVE  Spec => []IncomingBounded
<1>1. IndInv => IncomingBounded
  BY DEF IndInv
<1> QED
  BY <1>1, Invariance, PTL

\* The connections the communicator makes itself stay within maxConnections,
\* which every batch of addresses and every retry has to respect.
THEOREM OutgoingLimitRespected ==
  ASSUME VersionMayFail = FALSE
  PROVE  Spec => []OutgoingBounded
<1>1. IndInv => OutgoingBounded
  BY DEF IndInv
<1> QED
  BY <1>1, Invariance, PTL

\* The ping timer runs exactly while there are peers to ping, through every way
\* in which the first peer comes and the last one goes.
THEOREM PingCorrect ==
  ASSUME VersionMayFail = FALSE
  PROVE  Spec => []PingWhilePeers
<1>1. IndInv => PingWhilePeers
  BY DEF IndInv
<1> QED
  BY <1>1, Invariance, PTL

\* Consequence for the memory the program may use: there are never more
\* connections than both maxima allow together.
THEOREM TotalBounded ==
  ASSUME VersionMayFail = FALSE
  PROVE  Spec => [](Cardinality(Connected) <= MaxConnections + MaxIncoming)
<1>1. IndInv => Cardinality(Connected) <= MaxConnections + MaxIncoming
  BY NoWrap DEF IndInv, CountersMatch
<1> QED
  BY <1>1, Invariance, PTL
==============================================================================
