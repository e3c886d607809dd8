---------------------------- MODULE Session_proofs ----------------------------
(***************************************************************************)
(* What holds of a session for every queue size, every pair of versions    *)
(* and every mix of pings, requests, relayed messages and failures: the    *)
(* types, the send event that is registered while messages are queued, and *)
(* once too often at most, the ring of slots being a bounded first-in      *)
(* first-out queue, and the handshake that ends on neither side before     *)
(* both have the versions.                                                 *)
(*                                                                         *)
(* Handlers are functions from a Peer to a Peer, so the proofs are about   *)
(* pairs of Peers: Keeps(p, q) says that a handler that turned p into q    *)
(* kept the Peer well formed, and only extended its queue unless it        *)
(* disconnected it; Informs(p, q, other) that q knows of the other end     *)
(* what p did, and queued an acknowledgment only with a version in hand.   *)
(* Both are proved for Send and composed upwards, handler by handler; the  *)
(* bytes between the ends enter only in the lemmas about Read and Write.   *)
(***************************************************************************)
EXTENDS Session, TLAPS

------------------------------------------------------------------------------
(* What the operations on the ring of slots do to its contents.              *)

\* A ring of max slots for elements of M, of which size from front are in use.
IsRing(M, max, buf, front, size) ==
  /\ max \in Nat \ {0}
  /\ buf \in [0..(max - 1) -> M]
  /\ front \in 0..(max - 1)
  /\ size \in 0..max

\* Indices of the ring wrap around at most once: the index computed with % in
\* sendMessageToPeer is the one that the write handler reaches step by step.
LEMMA Wraps ==
  ASSUME NEW max \in Nat \ {0}, NEW a \in 0..(max - 1), NEW b \in 0..max
  PROVE  (a + b) % max = IF a + b < max THEN a + b ELSE a + b - max
<1>1. CASE a + b < max
  BY <1>1
<1>2. CASE a + b >= max
  BY <1>2
<1> QED
  BY <1>1, <1>2

\* The contents are a sequence of `size' messages.
LEMMA ContentsType ==
  \A M, max, buf, front, size :
    IsRing(M, max, buf, front, size)
    => /\ Contents(buf, front, size, max) \in Seq(M)
       /\ Len(Contents(buf, front, size, max)) = size
<1> SUFFICES ASSUME NEW M, NEW max \in Nat \ {0}, NEW buf \in [0..(max - 1) -> M],
                    NEW front \in 0..(max - 1), NEW size \in 0..max
             PROVE  /\ Contents(buf, front, size, max) \in Seq(M)
                    /\ Len(Contents(buf, front, size, max)) = size
  BY DEF IsRing
<1>0. size \in Nat
  OBVIOUS
<1>1. ASSUME NEW i \in 1..size
      PROVE  (front + i - 1) % max \in 0..(max - 1)
  OBVIOUS
<1>2. Contents(buf, front, size, max) \in [1..size -> M]
  BY <1>1 DEF Contents
<1> QED
  BY <1>0, <1>2

\* A message put into a ring with room comes after all that were there, and
\* overwrites none of them (sendMessageToPeer).
LEMMA PutAppends ==
  \A M, max, buf, front, size, m :
    IsRing(M, max, buf, front, size) /\ size < max /\ m \in M
    => /\ IsRing(M, max, Put(buf, front, size, max, m), front, size + 1)
       /\ Contents(Put(buf, front, size, max, m), front, size + 1, max)
            = Append(Contents(buf, front, size, max), m)
<1> TAKE M, max, buf, front, size, m
<1> HAVE IsRing(M, max, buf, front, size) /\ size < max /\ m \in M
<1>a. /\ max \in Nat \ {0} /\ buf \in [0..(max - 1) -> M]
      /\ front \in 0..(max - 1) /\ size \in 0..(max - 1) /\ m \in M
  BY DEF IsRing
<1> USE <1>a
<1> DEFINE after == Put(buf, front, size, max, m)
           old == Contents(buf, front, size, max)
           new == Contents(after, front, size + 1, max)
<1>0. size \in 0..max /\ size \in Nat /\ size + 1 \in Nat /\ front \in Nat
  OBVIOUS
<1>1. (front + size) % max = IF front + size < max THEN front + size
                             ELSE front + size - max
  BY <1>0, Wraps
<1>2. after \in [0..(max - 1) -> M]
  BY DEF Put
<1>3. after[(front + size) % max] = m
  BY <1>1 DEF Put
<1>4. ASSUME NEW i \in 1..size
      PROVE  after[(front + i - 1) % max] = buf[(front + i - 1) % max]
  <2>1. (front + (i - 1)) % max = IF front + (i - 1) < max THEN front + (i - 1)
                                  ELSE front + (i - 1) - max
    <3>1. i - 1 \in 0..max
      OBVIOUS
    <3> QED
      BY <3>1, Wraps
  <2>2. front + i - 1 = front + (i - 1)
    OBVIOUS
  <2>3. (front + i - 1) % max # (front + size) % max /\ (front + i - 1) % max \in 0..(max - 1)
    BY <1>1, <2>1, <2>2
  <2> QED
    BY <2>3 DEF Put
<1>5. old \in Seq(M) /\ Len(old) = size
  <2>1. IsRing(M, max, buf, front, size)
    BY <1>0 DEF IsRing
  <2> QED
    BY <2>1, ContentsType
<1>6. new \in Seq(M) /\ Len(new) = size + 1
  <2> HIDE DEF after
  <2>1. ASSUME NEW i \in 1..(size + 1)
        PROVE  after[(front + i - 1) % max] \in M
    <3>1. (front + i - 1) % max \in 0..(max - 1)
      BY <1>0
    <3> QED
      BY <3>1, <1>2
  <2>2. new \in [1..(size + 1) -> M]
    BY <2>1 DEF Contents
  <2> QED
    BY <2>2, <1>0
<1>7. ASSUME NEW i \in 1..(size + 1)
      PROVE  new[i] = Append(old, m)[i]
  <2>1. CASE i \in 1..size
    <3>1. new[i] = after[(front + i - 1) % max] /\ old[i] = buf[(front + i - 1) % max]
      BY <2>1 DEF Contents
    <3>2. Append(old, m)[i] = old[i]
      BY <2>1, <1>5
    <3> QED
      BY <3>1, <3>2, <2>1, <1>4
  <2>2. CASE i = size + 1
    <3>1. new[i] = after[(front + i - 1) % max] /\ front + i - 1 = front + size
      BY <2>2 DEF Contents
    <3> QED
      BY <3>1, <2>2, <1>3, <1>5
  <2>3. i \in 1..size \/ i = size + 1
    BY <1>0
  <2> QED
    BY <2>1, <2>2, <2>3, Zenon
<1>8. Append(old, m) \in Seq(M) /\ Len(Append(old, m)) = size + 1
  BY <1>5
<1>9. new = Append(old, m)
  BY <1>6, <1>7, <1>8
<1>10. IsRing(M, max, after, front, size + 1)
  <2> HIDE DEF after
  <2> QED
    BY <1>2 DEF IsRing
<1> QED
  BY <1>9, <1>10

\* Moving the front past the first of several messages leaves the others, in
\* their order (onPeerReadyForWritingCallback).
LEMMA NextFrontIsTail ==
  \A M, max, buf, front, size :
    IsRing(M, max, buf, front, size) /\ size > 0
    => /\ IsRing(M, max, buf, NextFront(front, max), size - 1)
       /\ Contents(buf, NextFront(front, max), size - 1, max)
            = Tail(Contents(buf, front, size, max))
<1> TAKE M, max, buf, front, size
<1> HAVE IsRing(M, max, buf, front, size) /\ size > 0
<1>a. /\ max \in Nat \ {0} /\ buf \in [0..(max - 1) -> M]
      /\ front \in 0..(max - 1) /\ size \in 1..max
  BY DEF IsRing
<1> USE <1>a
<1> DEFINE next == NextFront(front, max)
           old == Contents(buf, front, size, max)
           new == Contents(buf, next, size - 1, max)
<1>0. size \in Nat /\ size - 1 \in Nat /\ front \in Nat
  OBVIOUS
<1>1. next \in 0..(max - 1) /\ next \in Nat
  BY DEF NextFront
<1>2. old \in Seq(M) /\ Len(old) = size
  <2>1. IsRing(M, max, buf, front, size)
    BY DEF IsRing
  <2> QED
    BY <2>1, ContentsType
<1>3. new \in Seq(M) /\ Len(new) = size - 1
  <2> DEFINE n == size - 1
  <2>1. IsRing(M, max, buf, next, n)
    BY <1>1 DEF IsRing
  <2> HIDE DEF n, next
  <2>2. /\ Contents(buf, next, n, max) \in Seq(M)
        /\ Len(Contents(buf, next, n, max)) = n
    BY <2>1, ContentsType
  <2> QED
    BY <2>2 DEF n
<1>4. ASSUME NEW i \in 1..(size - 1)
      PROVE  new[i] = Tail(old)[i]
  <2>1. (front + i) % max = IF front + i < max THEN front + i ELSE front + i - max
    <3>1. i \in 0..max
      OBVIOUS
    <3> QED
      BY <3>1, Wraps
  <2>2. (next + (i - 1)) % max = IF next + (i - 1) < max THEN next + (i - 1)
                                 ELSE next + (i - 1) - max
    <3>1. i - 1 \in 0..max
      OBVIOUS
    <3> QED
      BY <1>1, <3>1, Wraps
  <2>3. (next + (i - 1)) % max = (front + i) % max
    BY <2>1, <2>2 DEF NextFront
  <2>4. next + i - 1 = next + (i - 1) /\ front + (i + 1) - 1 = front + i
    BY <1>1
  <2>5. new[i] = buf[(next + i - 1) % max] /\ old[i + 1] = buf[(front + (i + 1) - 1) % max]
    BY DEF Contents
  <2>6. Tail(old)[i] = old[i + 1]
    BY <1>2
  <2> QED
    BY <2>3, <2>4, <2>5, <2>6
<1>5. Tail(old) \in Seq(M) /\ Len(Tail(old)) = size - 1
  BY <1>2
<1>6. new = Tail(old)
  BY <1>3, <1>4, <1>5
<1>7. IsRing(M, max, buf, next, size - 1)
  <2> HIDE DEF next
  <2> QED
    BY <1>1 DEF IsRing
<1> QED
  BY <1>6, <1>7

------------------------------------------------------------------------------
(* What a handler does to a Peer.                                            *)

Reasons == {"no", "full", "toomany", "refused", "pong", "timeout", "lost", "closed",
            "released"}
Responses == {0, VERACK, ADDR, PONG}

\* How often the send event is registered without need.
Surplus(p) == p.writing - (IF p.size > 0 THEN 1 ELSE 0)

WellFormed(p) ==
  /\ p \in Peers
  /\ Surplus(p) \in 0..1
  /\ p.reading \/ p.writing > 0 => Up(p)

\* The queue of q starts with the queue of p, and the send event is not registered
\* once more than before without need.
Extended(p, q) ==
  /\ p.size <= q.size
  /\ Surplus(q) <= Surplus(p)
  /\ \A i \in 1..p.size : Queue(q)[i] = Queue(p)[i]

Keeps(p, q) ==
  /\ WellFormed(q)
  /\ Up(q) => Extended(p, q)
  /\ ~Up(q) => q.size = 0

\* A handler may go on with what another one left of a connection that is up.
LEMMA KeepsTransitive ==
  ASSUME NEW p \in Peers, NEW q, NEW r, Keeps(p, q), Up(q), Keeps(q, r)
  PROVE  Keeps(p, r)
<1>1. /\ p.size \in Nat /\ q.size \in Nat /\ r.size \in Nat
      /\ Surplus(p) \in Int /\ Surplus(q) \in Int /\ Surplus(r) \in Int
  <2>1. ASSUME NEW x \in Peers PROVE x.size \in Nat /\ Surplus(x) \in Int
    <3>1. x.size \in Nat /\ x.writing \in Int
      BY DEF Peers
    <3> QED
      BY <3>1 DEF Surplus
  <2> QED
    BY <2>1 DEF Keeps, WellFormed
<1>2. ASSUME Up(r) PROVE Extended(p, r)
  <2>1. Extended(p, q) /\ Extended(q, r)
    BY <1>2 DEF Keeps
  <2> QED
    BY <1>1, <2>1 DEF Extended
<1> QED
  BY <1>2 DEF Keeps

\* A step that leaves the queue, the send event and the connection alone.
LEMMA KeepsOther ==
  ASSUME NEW p, NEW q \in Peers, WellFormed(p), Up(p),
         q.conn = p.conn, q.writing = p.writing, q.queue = p.queue,
         q.front = p.front, q.size = p.size
  PROVE  Keeps(p, q) /\ Up(q)
<1>1. p.size \in Nat /\ Surplus(p) \in Int
  BY DEF WellFormed, Peers
<1>2. Queue(q) = Queue(p) /\ Surplus(q) = Surplus(p)
  BY DEF Queue, Surplus
<1>3. Extended(p, q)
  BY <1>1, <1>2 DEF Extended
<1> QED
  BY <1>2, <1>3 DEF Keeps, WellFormed, Up

\* A handler may first change other fields and then go on with the result.
LEMMA KeepsAfterOther ==
  ASSUME NEW p, NEW q \in Peers, WellFormed(p), Up(p), NEW r,
         q.conn = p.conn, q.writing = p.writing, q.queue = p.queue,
         q.front = p.front, q.size = p.size,
         WellFormed(q) /\ Up(q) => Keeps(q, r)
  PROVE  Keeps(p, r)
<1>1. Keeps(p, q) /\ Up(q)
  BY KeepsOther
<1>2. Keeps(q, r)
  BY <1>1 DEF Keeps
<1> QED
  BY <1>1, <1>2, KeepsTransitive DEF WellFormed

\* Disconnecting empties the queue and removes both events.
LEMMA DisconnectKeeps ==
  ASSUME NEW p \in Peers, NEW why \in Reasons
  PROVE  Keeps(p, Disconnect(p, why)) /\ ~Up(Disconnect(p, why))
<1>1. /\ Disconnect(p, why) \in Peers
      /\ Disconnect(p, why).size = 0
      /\ Disconnect(p, why).writing = 0 /\ Disconnect(p, why).reading = FALSE
      /\ Disconnect(p, why).conn = "down"
  <2>1. 0 \in 0..QueueMax
    BY QueueMaxAssumption
  <2> QED
    BY <2>1, 0 \in 0..2 DEF Disconnect, Peers, Reasons
<1> QED
  BY <1>1 DEF Keeps, WellFormed, Up, Surplus

\* The fields of a Peer are a ring of messages.
LEMMA PeerIsRing ==
  ASSUME NEW p \in Peers
  PROVE  IsRing(Messages, QueueMax, p.queue, p.front, p.size)
BY QueueMaxAssumption DEF Peers, IsRing

\* The queue is a sequence of `size' messages.
LEMMA QueueType ==
  ASSUME NEW p \in Peers
  PROVE  Queue(p) \in Seq(Messages) /\ Len(Queue(p)) = p.size
BY PeerIsRing, ContentsType DEF Queue

\* Sending appends a message to a ring that has room and registers the send
\* event; where there is no room it changes nothing.
LEMMA SendKeeps ==
  ASSUME NEW p, WellFormed(p), Up(p), NEW t \in Types, NEW x \in Responses
  PROVE  Keeps(p, Send(p, t, x)) /\ Up(Send(p, t, x))
<1> DEFINE m == [type |-> t, expect |-> x]
           ring == Put(p.queue, p.front, p.size, QueueMax, m)
           q == [p EXCEPT !.queue = ring, !.size = @ + 1,
                          !.writing = IF p.size = 0 THEN @ + 1 ELSE @]
<1>1. CASE ~CanSend(p)
  <2>1. Send(p, t, x) = p
    BY <1>1 DEF Send
  <2> QED
    BY <2>1, KeepsOther DEF WellFormed
<1>2. CASE CanSend(p)
  <2>1. p \in Peers /\ p.size < QueueMax /\ p.size \in Nat
    BY <1>2 DEF WellFormed, Peers, CanSend
  <2>2. m \in Messages
    BY DEF Messages, Responses
  <2>3. Send(p, t, x) = q
    BY <1>2 DEF Send
  <2>4. p.size + 1 \in 0..QueueMax
    BY <2>1, QueueMaxAssumption
  <2> HIDE DEF m
  <2>5. /\ IsRing(Messages, QueueMax, ring, p.front, p.size + 1)
        /\ Contents(ring, p.front, p.size + 1, QueueMax) = Append(Queue(p), m)
    <3>1. IsRing(Messages, QueueMax, p.queue, p.front, p.size)
      BY <2>1, PeerIsRing
    <3>2. /\ IsRing(Messages, QueueMax, ring, p.front, p.size + 1)
          /\ Contents(ring, p.front, p.size + 1, QueueMax)
               = Append(Contents(p.queue, p.front, p.size, QueueMax), m)
      BY <2>1, <2>2, <3>1, PutAppends
    <3> QED
      BY <3>2 DEF Queue
  <2> HIDE DEF ring
  <2>a. Surplus(p) \in 0..1 /\ p.writing \in 0..2
    BY <2>1 DEF WellFormed, Peers
  <2>b. (IF p.size = 0 THEN p.writing + 1 ELSE p.writing) \in 0..2
    BY <2>1, <2>a DEF Surplus
  <2>6. q \in Peers
    BY <2>1, <2>4, <2>5, <2>b DEF Peers, IsRing
  <2>7. /\ q.queue = ring /\ q.front = p.front /\ q.size = p.size + 1
        /\ q.writing = (IF p.size = 0 THEN p.writing + 1 ELSE p.writing)
        /\ q.conn = p.conn
    BY <2>1 DEF Peers
  <2> HIDE DEF q
  <2>c. Surplus(q) = Surplus(p)
    BY <2>1, <2>7, <2>a DEF Surplus
  <2>8. Queue(q) = Append(Queue(p), m)
    BY <2>5, <2>7 DEF Queue
  <2>9. Queue(p) \in Seq(Messages) /\ Len(Queue(p)) = p.size
    BY <2>1, QueueType
  <2>10. Extended(p, q)
    BY <2>1, <2>7, <2>8, <2>9, <2>a, <2>c DEF Extended
  <2> QED
    BY <2>1, <2>3, <2>6, <2>7, <2>10, <2>a, <2>c DEF Keeps, WellFormed, Up
<1> QED
  BY <1>1, <1>2

\* Where the ring is full, the message or the connection is dropped.
LEMMA SendOrDropKeeps ==
  ASSUME NEW p, WellFormed(p), Up(p), NEW t \in Types, NEW x \in Responses
  PROVE  Keeps(p, SendOrDrop(p, t, x))
<1>1. Keeps(p, Disconnect(p, "full"))
  BY DisconnectKeeps DEF WellFormed, Reasons
<1> QED
  BY <1>1, SendKeeps DEF SendOrDrop

\* The end of the handshake accepts more types and sends nothing by itself.
LEMMA EndHandshakeKeeps ==
  ASSUME NEW p, WellFormed(p), Up(p)
  PROVE  Keeps(p, EndHandshake(p))
<1> DEFINE q == [p EXCEPT !.accepted = @ \cup {PING, INV, GETADDR, ADDR, ALERT}]
<1>1. /\ q \in Peers /\ q.conn = p.conn /\ q.writing = p.writing
      /\ q.queue = p.queue /\ q.front = p.front /\ q.size = p.size
  BY DEF WellFormed, Peers, Types
<1>2. EndHandshake(p) = SendOrDrop(q, GETADDR, 0)
  BY DEF EndHandshake
<1> HIDE DEF q
<1>3. WellFormed(q) /\ Up(q) => Keeps(q, SendOrDrop(q, GETADDR, 0))
  BY SendOrDropKeeps DEF Types, Responses
<1> QED
  BY <1>1, <1>2, <1>3, KeepsAfterOther

\* A version message, accepted or refused.
LEMMA VersionReceivedKeeps ==
  ASSUME NEW p, WellFormed(p), Up(p)
  PROVE  Keeps(p, VersionReceived(p))
<1> DEFINE q == [p EXCEPT !.hasVersion = TRUE, !.accepted = @ \ {VERSION}]
           acked == SendOrDrop(q, VERACK, 0)
           due == [acked EXCEPT !.accepted = {VERACK}, !.versionSent = TRUE]
<1>1. /\ q \in Peers /\ q.conn = p.conn /\ q.writing = p.writing
      /\ q.queue = p.queue /\ q.front = p.front /\ q.size = p.size
  BY DEF WellFormed, Peers
<1>2. VersionReceived(p) = IF ~Up(acked) THEN acked
                           ELSE IF p.versionSent THEN EndHandshake(acked)
                           ELSE SendOrDrop(due, VERSION, VERACK)
  BY DEF VersionReceived
<1>3. Keeps(p, acked)
  <2> HIDE DEF q
  <2>1. WellFormed(q) /\ Up(q) => Keeps(q, acked)
    BY SendOrDropKeeps DEF Types, Responses
  <2> QED
    BY <1>1, <2>1, KeepsAfterOther
<1> HIDE DEF acked
<1>4. ASSUME Up(acked)
      PROVE  Keeps(p, EndHandshake(acked)) /\ Keeps(p, SendOrDrop(due, VERSION, VERACK))
  <2>1. WellFormed(acked) /\ p \in Peers
    BY <1>3 DEF Keeps, WellFormed
  <2>2. Keeps(acked, EndHandshake(acked))
    BY <1>4, <2>1, EndHandshakeKeeps
  <2>3. /\ due \in Peers /\ due.conn = acked.conn /\ due.writing = acked.writing
        /\ due.queue = acked.queue /\ due.front = acked.front /\ due.size = acked.size
    BY <2>1 DEF WellFormed, Peers, Types
  <2> HIDE DEF due
  <2>4. WellFormed(due) /\ Up(due) => Keeps(due, SendOrDrop(due, VERSION, VERACK))
    BY SendOrDropKeeps DEF Types, Responses
  <2>5. Keeps(acked, SendOrDrop(due, VERSION, VERACK))
    BY <1>4, <2>1, <2>3, <2>4, KeepsAfterOther
  <2> QED
    BY <1>3, <1>4, <2>1, <2>2, <2>5, KeepsTransitive
<1> QED
  BY <1>2, <1>3, <1>4

\* An acknowledgment of this end's version.
LEMMA AckReceivedKeeps ==
  ASSUME NEW p, WellFormed(p), Up(p)
  PROVE  Keeps(p, AckReceived(p))
<1> DEFINE q == [p EXCEPT !.accepted = @ \ {VERACK}]
           waits == [q EXCEPT !.accepted = @ \cup {VERSION}]
<1>1. /\ q \in Peers /\ q.conn = p.conn /\ q.writing = p.writing
      /\ q.queue = p.queue /\ q.front = p.front /\ q.size = p.size
  BY DEF WellFormed, Peers
<1>2. AckReceived(p) = IF q.hasVersion THEN EndHandshake(q) ELSE waits
  BY DEF AckReceived
<1> HIDE DEF q
<1>3. /\ waits \in Peers /\ waits.conn = q.conn /\ waits.writing = q.writing
      /\ waits.queue = q.queue /\ waits.front = q.front /\ waits.size = q.size
  BY <1>1 DEF Peers, Types
<1> HIDE DEF waits
<1>4. WellFormed(q) /\ Up(q) => Keeps(q, EndHandshake(q)) /\ Keeps(q, waits)
  BY <1>3, EndHandshakeKeeps, KeepsOther
<1> QED
  BY <1>1, <1>2, <1>4, KeepsAfterOther

\* The automatic handshake, for every message type.
LEMMA AutoHandshakeKeeps ==
  ASSUME NEW p, WellFormed(p), Up(p), NEW t \in Types
  PROVE  Keeps(p, AutoHandshake(p, t))
<1>1. Keeps(p, p)
  BY KeepsOther DEF WellFormed
<1> QED
  BY <1>1, VersionReceivedKeeps, AckReceivedKeeps DEF AutoHandshake, VERSION, VERACK

\* The automatic discovery: requests and answers of addresses.
LEMMA AutoDiscoveryKeeps ==
  ASSUME NEW p, WellFormed(p), Up(p), NEW t \in Types, NEW e \in Ends
  PROVE  Keeps(p, AutoDiscovery(e, p, t))
<1> DEFINE answered == IF t = GETADDR /\ e \in Knowing THEN Send(p, ADDR, 0) ELSE p
           told == [answered EXCEPT !.broadcast = TRUE]
<1>1. AutoDiscovery(e, p, t) = IF e \in Sharing /\ ~p.broadcast /\ ADDR \in p.accepted
                               THEN Send(told, ADDR, 0) ELSE answered
  BY DEF AutoDiscovery
<1>2. Keeps(p, answered) /\ Up(answered)
  <2>1. Keeps(p, p)
    BY KeepsOther DEF WellFormed
  <2>2. Keeps(p, Send(p, ADDR, 0)) /\ Up(Send(p, ADDR, 0))
    BY SendKeeps DEF Types, Responses
  <2> QED
    BY <2>1, <2>2
<1> HIDE DEF answered
<1>3. WellFormed(answered) /\ p \in Peers
  BY <1>2 DEF Keeps, WellFormed
<1>4. /\ told \in Peers /\ told.conn = answered.conn /\ told.writing = answered.writing
      /\ told.queue = answered.queue /\ told.front = answered.front
      /\ told.size = answered.size
  BY <1>3 DEF WellFormed, Peers
<1> HIDE DEF told
<1>5. WellFormed(told) /\ Up(told) => Keeps(told, Send(told, ADDR, 0))
  BY SendKeeps DEF Types, Responses
<1>6. Keeps(answered, Send(told, ADDR, 0))
  BY <1>2, <1>3, <1>4, <1>5, KeepsAfterOther
<1> QED
  BY <1>1, <1>2, <1>3, <1>6, KeepsTransitive

\* The automatic pings: a pong for a ping, a pong that was expected.
LEMMA AutoPingPongsKeeps ==
  ASSUME NEW p, WellFormed(p), Up(p), NEW t \in Types
  PROVE  Keeps(p, AutoPingPongs(p, t))
<1> DEFINE q == [p EXCEPT !.accepted = @ \ {PONG}]
<1>1. Keeps(p, p)
  BY KeepsOther DEF WellFormed
<1>2. Keeps(p, Disconnect(p, "pong"))
  BY DisconnectKeeps DEF WellFormed, Reasons
<1>3. Keeps(p, SendOrDrop(p, PONG, 0))
  BY SendOrDropKeeps DEF Types, Responses
<1>4. Keeps(p, q)
  <2>1. /\ q \in Peers /\ q.conn = p.conn /\ q.writing = p.writing
        /\ q.queue = p.queue /\ q.front = p.front /\ q.size = p.size
    BY DEF WellFormed, Peers
  <2> QED
    BY <2>1, KeepsOther
<1> QED
  BY <1>1, <1>2, <1>3, <1>4 DEF AutoPingPongs, PING, PONG

\* The three automatic handlers after one another, as long as the connection
\* is up.
LEMMA MessageReceivedKeeps ==
  ASSUME NEW p, WellFormed(p), Up(p), NEW t \in Types, NEW e \in Ends
  PROVE  Keeps(p, MessageReceived(e, p, t))
<1> DEFINE ready == [p EXCEPT !.receiving = 0,
                              !.timeout = IF p.expectedNum > 0 THEN "response" ELSE "idle"]
           shaken == AutoHandshake(ready, t)
           discovered == IF Up(shaken) THEN AutoDiscovery(e, shaken, t) ELSE shaken
           answered == IF Up(discovered) THEN AutoPingPongs(discovered, t) ELSE discovered
<1>1. /\ ready \in Peers /\ ready.conn = p.conn /\ ready.writing = p.writing
      /\ ready.queue = p.queue /\ ready.front = p.front /\ ready.size = p.size
  BY DEF WellFormed, Peers
<1>2. MessageReceived(e, p, t) = answered
  BY DEF MessageReceived
<1> HIDE DEF ready
<1>3. ASSUME WellFormed(ready), Up(ready)
      PROVE  Keeps(ready, answered)
  <2>1. Keeps(ready, shaken)
    BY <1>3, AutoHandshakeKeeps
  <2> HIDE DEF shaken
  <2>2. Keeps(ready, discovered)
    <3>1. CASE Up(shaken)
      <4>1. WellFormed(shaken)
        BY <2>1 DEF Keeps
      <4>2. Keeps(shaken, AutoDiscovery(e, shaken, t))
        BY <3>1, <4>1, AutoDiscoveryKeeps
      <4> QED
        BY <1>1, <2>1, <3>1, <4>2, KeepsTransitive
    <3> QED
      BY <2>1, <3>1
  <2> HIDE DEF discovered
  <2>3. CASE Up(discovered)
    <3>1. WellFormed(discovered)
      BY <2>2 DEF Keeps
    <3>2. Keeps(discovered, AutoPingPongs(discovered, t))
      BY <2>3, <3>1, AutoPingPongsKeeps
    <3> QED
      BY <1>1, <2>2, <2>3, <3>2, KeepsTransitive
  <2> QED
    BY <2>2, <2>3
<1> HIDE DEF answered
<1> QED
  BY <1>1, <1>2, <1>3, KeepsAfterOther

\* The list of expected responses keeps its size and holds numbers.
LEMMA ExpectedAfterKeeps ==
  ASSUME NEW p \in Peers, NEW t \in Types
  PROVE  LET q == ExpectedAfter(p, t)
         IN  /\ q \in Peers /\ q.conn = p.conn /\ q.writing = p.writing
             /\ q.queue = p.queue /\ q.front = p.front /\ q.size = p.size
             /\ q.hasVersion = p.hasVersion /\ q.accepted = p.accepted
             /\ q.versionSent = p.versionSent /\ q.receiving = p.receiving
<1> DEFINE found == {i \in 0..(p.expectedNum - 1) : p.expected[i] = t}
           k == CHOOSE i \in found : \A j \in found : i <= j
           moved == p.expectedNum - 1 - k
           waits == [p EXCEPT !.expected[k] = VERSION]
           value == IF moved = 0 THEN p.expected[k]
                    ELSE Overwritten(p.expected[k], p.expected[k + 1], moved)
           moves == [p EXCEPT !.expectedNum = @ - 1, !.expected[k] = value]
<1>1. ExpectedAfter(p, t) = IF found = {} THEN p
                            ELSE IF StillExpected(p, t) THEN waits ELSE moves
  BY DEF ExpectedAfter
<1>2. p.expectedNum \in 0..3 /\ p.expected \in [0..2 -> Nat]
  BY DEF Peers, MaxExpected
<1>3. CASE found = {}
  BY <1>1, <1>3
<1>4. CASE found # {}
  <2>1. k \in found
    <3>1. \E i \in found : \A j \in found : i <= j
      <4>1. found \subseteq {0, 1, 2}
        BY <1>2
      <4> HIDE DEF found
      <4>2. CASE 0 \in found
        BY <4>1, <4>2
      <4>3. CASE 0 \notin found /\ 1 \in found
        BY <4>1, <4>3
      <4>4. CASE 0 \notin found /\ 1 \notin found
        <5>1. found = {2}
          BY <1>4, <4>1, <4>4
        <5> QED
          BY <5>1
      <4> QED
        BY <4>2, <4>3, <4>4
    <3> HIDE DEF found
    <3> QED
      BY <3>1
  <2>2. k \in 0..(p.expectedNum - 1) /\ k \in 0..2 /\ moved \in Nat
        /\ p.expectedNum - 1 \in 0..3 /\ (moved # 0 => k + 1 \in 0..2)
    <3> HIDE DEF k
    <3> QED
      BY <1>2, <2>1
  <2> HIDE DEF found, k
  <2>3. value \in Nat
    <3> HIDE DEF moved
    <3>1. p.expected[k] \in Nat /\ (moved # 0 => p.expected[k + 1] \in Nat)
      BY <1>2, <2>2
    <3>2. ASSUME NEW old \in Nat, NEW next \in Nat
          PROVE  Overwritten(old, next, moved) \in Nat
      <4>1. CASE moved = 1
        BY <4>1 DEF Overwritten
      <4>2. CASE moved # 1
        BY <4>2 DEF Overwritten
      <4> QED
        BY <4>1, <4>2
    <3> QED
      BY <3>1, <3>2
  <2> HIDE DEF value, moved
  <2>4. /\ waits \in Peers /\ waits.conn = p.conn /\ waits.writing = p.writing
        /\ waits.queue = p.queue /\ waits.front = p.front /\ waits.size = p.size
        /\ waits.hasVersion = p.hasVersion /\ waits.accepted = p.accepted
        /\ waits.versionSent = p.versionSent /\ waits.receiving = p.receiving
    BY <2>2 DEF Peers, MaxExpected, VERSION
  <2>5. /\ moves \in Peers /\ moves.conn = p.conn /\ moves.writing = p.writing
        /\ moves.queue = p.queue /\ moves.front = p.front /\ moves.size = p.size
        /\ moves.hasVersion = p.hasVersion /\ moves.accepted = p.accepted
        /\ moves.versionSent = p.versionSent /\ moves.receiving = p.receiving
    BY <2>2, <2>3 DEF Peers, MaxExpected
  <2> QED
    BY <1>1, <1>4, <2>4, <2>5
<1> QED
  BY <1>3, <1>4

\* A header alone: messages without payload, refused types, payloads awaited.
LEMMA HeaderReceivedKeeps ==
  ASSUME NEW p, WellFormed(p), Up(p), NEW t \in Types, NEW e \in Ends
  PROVE  Keeps(p, HeaderReceived(e, p, t))
<1> DEFINE q == ExpectedAfter(p, t)
           waits == [q EXCEPT !.receiving = t, !.timeout = "receive"]
<1>1. HeaderReceived(e, p, t) = IF ~Welcome(p, t) THEN Disconnect(p, "refused")
                                ELSE IF HasPayload(t) THEN waits
                                ELSE MessageReceived(e, q, t)
  BY DEF HeaderReceived
<1>2. /\ q \in Peers /\ q.conn = p.conn /\ q.writing = p.writing
      /\ q.queue = p.queue /\ q.front = p.front /\ q.size = p.size
  BY ExpectedAfterKeeps DEF WellFormed
<1>3. Keeps(p, Disconnect(p, "refused"))
  BY DisconnectKeeps DEF WellFormed, Reasons
<1> HIDE DEF q
<1>4. Keeps(p, MessageReceived(e, q, t))
  <2>1. WellFormed(q) /\ Up(q) => Keeps(q, MessageReceived(e, q, t))
    BY MessageReceivedKeeps
  <2> QED
    BY <1>2, <2>1, KeepsAfterOther
<1>5. Keeps(p, waits)
  <2>1. /\ waits \in Peers /\ waits.conn = p.conn /\ waits.writing = p.writing
        /\ waits.queue = p.queue /\ waits.front = p.front /\ waits.size = p.size
    BY <1>2 DEF Peers
  <2> HIDE DEF waits
  <2> QED
    BY <2>1, KeepsOther
<1> QED
  BY <1>1, <1>3, <1>4, <1>5

\* The write handler takes the first message from the queue, unless it
\* disconnects the peer.
Takes(p, q) ==
  /\ p.size > 0
  /\ WellFormed(q)
  /\ Up(q) => Queue(q) = Tail(Queue(p)) /\ Surplus(q) <= Surplus(p)
  /\ ~Up(q) => q.size = 0
  /\ RemovesAll /\ q.size = 0 => q.writing = 0

\* The message sent leaves the ring; the events follow what is left.
LEMMA SentTakes ==
  ASSUME NEW p, WellFormed(p), Up(p), p.size > 0, NEW left \in Left(p)
  PROVE  Takes(p, Sent(p, left)) /\ Up(Sent(p, left))
<1> DEFINE next == NextFront(p.front, QueueMax)
           q == Sent(p, left)
<1>1. p \in Peers /\ p.size > 0 /\ p.size \in 0..QueueMax /\ p.front \in 0..(QueueMax - 1)
  BY DEF WellFormed, Peers
<1>2. /\ IsRing(Messages, QueueMax, p.queue, next, p.size - 1)
      /\ Contents(p.queue, next, p.size - 1, QueueMax) = Tail(Queue(p))
  <2>1. IsRing(Messages, QueueMax, p.queue, p.front, p.size)
    BY <1>1, PeerIsRing
  <2>2. /\ IsRing(Messages, QueueMax, p.queue, next, p.size - 1)
        /\ Contents(p.queue, next, p.size - 1, QueueMax)
             = Tail(Contents(p.queue, p.front, p.size, QueueMax))
    BY <1>1, <2>1, NextFrontIsTail
  <2> QED
    BY <2>2 DEF Queue
<1>3. next \in 0..(QueueMax - 1) /\ p.size - 1 \in 0..QueueMax
  BY <1>2 DEF IsRing
<1>a. p.writing \in 1..2 /\ Surplus(p) = p.writing - 1
  BY <1>1 DEF WellFormed, Peers, Surplus
<1>b. left \in 0..(p.writing - 1) /\ (RemovesAll => left = 0)
  BY <1>a DEF Left
<1> HIDE DEF next
<1>4. /\ q \in Peers /\ q.conn = p.conn /\ q.queue = p.queue /\ q.size = p.size - 1
      /\ q.front = (IF p.size = 1 THEN p.front ELSE next)
      /\ q.writing = (IF p.size = 1 THEN left ELSE p.writing)
  <2>1. left \in 0..2
    BY <1>a, <1>b
  <2> QED
    BY <1>1, <1>3, <2>1, QueueMaxAssumption DEF Sent, Peers, next
<1> HIDE DEF q
<1>c. Surplus(q) \in 0..Surplus(p) /\ (RemovesAll /\ q.size = 0 => q.writing = 0)
  <2>1. p.size \in Nat
    BY <1>1
  <2> QED
    BY <1>1, <1>4, <1>a, <1>b, <2>1 DEF Surplus
<1>5. Queue(q) = Tail(Queue(p))
  <2>1. CASE p.size = 1
    <3>1. Contents(p.queue, p.front, 0, QueueMax) = Contents(p.queue, next, 0, QueueMax)
      BY DEF Contents
    <3>2. q.size = 0 /\ p.size - 1 = 0
      BY <1>4, <2>1
    <3> QED
      BY <1>2, <1>4, <2>1, <3>1, <3>2 DEF Queue
  <2>2. CASE p.size # 1
    BY <1>2, <1>4, <2>2 DEF Queue
  <2> QED
    BY <2>1, <2>2
<1>6. WellFormed(q) /\ Up(q)
  <2>1. Surplus(q) \in 0..1
    BY <1>a, <1>c
  <2> QED
    BY <1>4, <2>1 DEF WellFormed, Up
<1>7. Surplus(q) <= Surplus(p)
  BY <1>a, <1>c
<1> QED
  BY <1>1, <1>5, <1>6, <1>7, <1>c DEF Takes, q

\* What follows a sent message: the time-out of its answer, the next one.
LEMMA FinishTakes ==
  ASSUME NEW p, WellFormed(p), Up(p), p.size > 0, NEW left \in Left(p)
  PROVE  Takes(p, Finish(p, left))
<1> DEFINE response == p.queue[p.front].expect
           q == Sent(p, left)
           waits == Expect(q, response)
<1>1. Finish(p, left) = IF response = 0 THEN q
                        ELSE IF p.expectedNum = MaxExpected THEN Disconnect(p, "toomany")
                        ELSE waits
  BY DEF Finish
<1>2. Takes(p, q) /\ Up(q)
  BY SentTakes
<1>3. Takes(p, Disconnect(p, "toomany"))
  <2>1. Disconnect(p, "toomany").writing = 0
    BY DEF Disconnect, WellFormed, Peers
  <2> QED
    BY <2>1, DisconnectKeeps DEF WellFormed, Reasons, Keeps, Takes
<1>4. ASSUME p.expectedNum # MaxExpected
      PROVE  Takes(p, waits)
  <2>1. response \in Nat
    <3>1. p.queue[p.front] \in Messages
      BY DEF WellFormed, Peers
    <3> QED
      BY <3>1 DEF Messages, VERACK, ADDR, PONG
  <2>2. q.expectedNum = p.expectedNum /\ p.expectedNum \in 0..2 /\ q \in Peers
    <3>1. p.expectedNum \in 0..2 /\ p \in Peers
      BY <1>4 DEF WellFormed, Peers, MaxExpected
    <3> QED
      BY <1>2, <3>1 DEF Sent, Peers, Takes, WellFormed
  <2> HIDE DEF q, response
  <2>3. /\ waits \in Peers /\ waits.conn = q.conn /\ waits.writing = q.writing
        /\ waits.queue = q.queue /\ waits.front = q.front /\ waits.size = q.size
    <3>1. /\ q.expectedNum \in 0..(MaxExpected - 1) /\ q.expectedNum + 1 \in 0..MaxExpected
      BY <2>2 DEF MaxExpected
    <3> QED
      BY <2>1, <2>2, <3>1 DEF Expect, Peers
  <2> HIDE DEF waits
  <2>4. Queue(waits) = Queue(q) /\ Surplus(waits) = Surplus(q)
    BY <2>3 DEF Queue, Surplus
  <2> QED
    BY <1>2, <2>3, <2>4 DEF Takes, WellFormed, Up
<1> QED
  BY <1>1, <1>2, <1>3, <1>4

------------------------------------------------------------------------------
(* The steps.                                                               *)

Rest ==
  /\ wire \in [Ends -> Seq(Types)]
  /\ pings \in [Ends -> Nat] /\ requests \in [Ends -> Nat] /\ relays \in [Ends -> Nat]

\* The send event is removed with the last message if removing it undoes everything.
Tidy(p) == RemovesAll /\ p.size = 0 => p.writing = 0

\* Inductive: the send event is registered where messages are queued, at most once
\* more and that only at the connecting end, and no event is registered for a
\* connection that is not up.
IndInv ==
  /\ peer \in [Ends -> Peers]
  /\ \A e \in Ends : WellFormed(peer[e]) /\ Tidy(peer[e])
  /\ Surplus(peer["server"]) = 0
  /\ Rest

\* A step is the work of one handler at one end.  The connecting end registers the
\* send event, which leaves it as p, before the handler queues a message.
Handled(e) ==
  \E p, q :
    /\ peer' = [peer EXCEPT ![e] = q]
    /\ p \in Peers /\ p.size = peer[e].size /\ Queue(p) = Queue(peer[e])
    /\ Keeps(p, q) \/ Takes(p, q)
    /\ p = peer[e] \/ (e = "client" /\ q.size > 0)

\* Most begin with the Peer as it is.
LEMMA HandledBy ==
  ASSUME IndInv, NEW e \in Ends, NEW q, peer' = [peer EXCEPT ![e] = q],
         Keeps(peer[e], q) \/ Takes(peer[e], q)
  PROVE  Handled(e)
<1>1. peer[e] \in Peers
  BY DEF IndInv
<1> QED
  BY <1>1, Zenon DEF Handled

\* There are two ends.
LEMMA OtherIsEnd ==
  ASSUME NEW e \in Ends
  PROVE  Other(e) \in Ends
<1>1. \E f \in Ends : f # e
  BY DEF Ends
<1> QED
  BY <1>1 DEF Other

\* The connecting end sends its version.
LEMMA ConnectedHandled ==
  ASSUME IndInv, Connected
  PROVE  Handled("client") /\ Rest'
<1> DEFINE p == peer["client"]
           q == [p EXCEPT !.conn = "up", !.accepted = {VERACK}, !.versionSent = TRUE,
                          !.writing = @ + 1]
           r == Send(q, VERSION, VERACK)
<1>1. WellFormed(p) /\ p \in Peers /\ p.conn = "none"
  BY DEF IndInv, Connected, Ends
<1>2. peer' = [peer EXCEPT !["client"] = r]
  BY DEF Connected
<1> HIDE DEF p
<1>3. p.writing = 0 /\ p.size = 0
  BY <1>1 DEF WellFormed, Up, Surplus, Peers
<1>4. /\ q \in Peers /\ q.conn = "up" /\ q.writing = 1
      /\ q.queue = p.queue /\ q.front = p.front /\ q.size = 0
  <2>1. p.writing + 1 = 1 /\ 1 \in 0..2
    BY <1>3
  <2>2. q \in Peers
    BY <1>1, <2>1 DEF Peers, Types
  <2> QED
    BY <1>1, <1>3, <2>1, <2>2 DEF Peers
<1> HIDE DEF q
<1>5. WellFormed(q) /\ Up(q)
  BY <1>4 DEF WellFormed, Up, Surplus
<1>6. Keeps(q, r)
  BY <1>5, SendKeeps DEF Types, Responses
<1>7. r.size > 0
  BY <1>4, QueueMaxAssumption DEF r, Send, CanSend, Peers
<1> HIDE DEF r
<1>8. Queue(q) = Queue(p) /\ q.size = p.size
  BY <1>3, <1>4 DEF Queue
<1>9. Handled("client")
  BY <1>2, <1>4, <1>6, <1>7, <1>8, Zenon DEF Handled, p
<1> QED
  BY <1>9 DEF IndInv, Rest, Connected, Counters

\* The accepting end waits for one.
LEMMA AcceptedHandled ==
  ASSUME IndInv, Accepted
  PROVE  Handled("server") /\ Rest'
<1> DEFINE p == peer["server"]
           q == [p EXCEPT !.conn = "up", !.reading = TRUE, !.timeout = "response",
                          !.accepted = {VERSION}]
<1>1. WellFormed(p) /\ p \in Peers /\ p.conn = "none" /\ p.size \in Nat
  BY DEF IndInv, Accepted, Ends, Peers
<1>2. peer' = [peer EXCEPT !["server"] = q]
  BY DEF Accepted
<1> HIDE DEF p
<1>3. /\ q \in Peers /\ q.conn = "up" /\ q.writing = p.writing
      /\ q.queue = p.queue /\ q.front = p.front /\ q.size = p.size
  BY <1>1 DEF Peers, Types
<1> HIDE DEF q
<1>4. Keeps(p, q)
  <2>1. Queue(q) = Queue(p) /\ Surplus(q) = Surplus(p) /\ Surplus(p) \in 0..1
    BY <1>1, <1>3 DEF Queue, Surplus, WellFormed
  <2> QED
    BY <1>1, <1>3, <2>1 DEF Keeps, Extended, WellFormed, Up
<1>5. Handled("server")
  BY <1>2, <1>4, HandledBy DEF p, Ends
<1> QED
  BY <1>5 DEF IndInv, Rest, Accepted, Counters

\* Reading a message keeps both ends well formed.
LEMMA ReadHandled ==
  ASSUME IndInv, NEW e \in Ends, Read(e)
  PROVE  Handled(e) /\ Rest'
<1> DEFINE p == peer[e]
           t == Head(wire[e])
           r == IF p.receiving = 0 THEN HeaderReceived(e, p, t)
                ELSE MessageReceived(e, p, p.receiving)
<1>1. WellFormed(p) /\ p \in Peers /\ Up(p)
  BY DEF IndInv, Read, WellFormed
<1>2. peer' = [peer EXCEPT ![e] = r]
  BY DEF Read
<1>3. wire[e] \in Seq(Types) /\ wire[e] # <<>>
  BY DEF IndInv, Rest, Read
<1>4. t \in Types /\ Tail(wire[e]) \in Seq(Types)
  BY <1>3
<1> HIDE DEF p, t
<1>5. Keeps(p, r)
  <2>1. p.receiving # 0 => p.receiving \in Types
    BY <1>1 DEF Peers
  <2> QED
    BY <1>1, <1>4, <2>1, HeaderReceivedKeeps, MessageReceivedKeeps
<1> HIDE DEF r
<1>6. Handled(e)
  BY <1>2, <1>5, HandledBy DEF p
<1>7. Rest'
  BY <1>4 DEF IndInv, Rest, Read, Counters
<1> QED
  BY <1>6, <1>7

\* Writing takes at most the first message from the ring.
LEMMA WriteHandled ==
  ASSUME IndInv, NEW e \in Ends, Write(e)
  PROVE  Handled(e) /\ Rest'
<1>0. PICK left \in Left(peer[e]) :
        peer' = [peer EXCEPT ![e] =
                   IF ~peer[e].sentHeader /\ HasPayload(peer[e].queue[peer[e].front].type)
                   THEN [peer[e] EXCEPT !.sentHeader = TRUE]
                   ELSE Finish(peer[e], left)]
  BY DEF Write
<1> DEFINE p == peer[e]
           t == p.queue[p.front].type
           q == [p EXCEPT !.sentHeader = TRUE]
           r == IF ~p.sentHeader /\ HasPayload(t) THEN q ELSE Finish(p, left)
<1>1. WellFormed(p) /\ p \in Peers /\ p.size > 0 /\ Up(p) /\ left \in Left(p)
  BY DEF IndInv, Write, WellFormed
<1>2. peer' = [peer EXCEPT ![e] = r] /\ wire' = [wire EXCEPT ![Other(e)] = Append(@, t)]
  BY <1>0 DEF Write
<1> HIDE DEF p
<1>3. t \in Types
  BY <1>1 DEF Peers, Messages
<1> HIDE DEF t
<1>4. /\ q \in Peers /\ q.conn = p.conn /\ q.writing = p.writing
      /\ q.queue = p.queue /\ q.front = p.front /\ q.size = p.size
  BY <1>1 DEF Peers
<1> HIDE DEF q
<1>5. Keeps(p, r) \/ Takes(p, r)
  BY <1>1, <1>4, KeepsOther, FinishTakes
<1> HIDE DEF r
<1>6. Handled(e)
  BY <1>2, <1>5, HandledBy DEF p
<1>7. Rest'
  <2>1. wire \in [Ends -> Seq(Types)] /\ Other(e) \in Ends
    BY OtherIsEnd DEF IndInv, Rest
  <2>2. wire' \in [Ends -> Seq(Types)]
    BY <1>2, <1>3, <2>1
  <2> QED
    BY <2>2 DEF IndInv, Rest, Write, Counters
<1> QED
  BY <1>6, <1>7

\* A ping of the owner.
LEMMA SendPingHandled ==
  ASSUME IndInv, NEW e \in Ends, SendPing(e)
  PROVE  Handled(e) /\ Rest'
<1> DEFINE p == peer[e]
           q == Send(p, PING, PONG)
           r == [q EXCEPT !.accepted = @ \cup {PONG}]
<1>1. WellFormed(p) /\ p \in Peers /\ Up(p)
  BY DEF IndInv, SendPing
<1>2. /\ peer' = [peer EXCEPT ![e] = IF OldVersions THEN Send(p, PING, 0) ELSE r]
      /\ pings' = [pings EXCEPT ![e] = @ + 1]
      /\ UNCHANGED <<wire, requests, relays>>
  BY DEF SendPing
<1> HIDE DEF p
<1>3. Keeps(p, Send(p, PING, 0)) /\ Keeps(p, q) /\ Up(q)
  BY <1>1, SendKeeps DEF Types, Responses
<1> HIDE DEF q
<1>4. Keeps(p, r)
  <2>1. WellFormed(q) /\ q \in Peers
    BY <1>3 DEF Keeps, WellFormed
  <2>2. /\ r \in Peers /\ r.conn = q.conn /\ r.writing = q.writing
        /\ r.queue = q.queue /\ r.front = q.front /\ r.size = q.size
    BY <2>1 DEF Peers, Types
  <2> HIDE DEF r
  <2>3. Keeps(q, r)
    BY <1>3, <2>1, <2>2, KeepsOther
  <2> QED
    BY <1>1, <1>3, <2>3, KeepsTransitive
<1> HIDE DEF r
<1>5. Handled(e)
  BY <1>2, <1>3, <1>4, HandledBy DEF p
<1>6. Rest'
  BY <1>2 DEF IndInv, Rest
<1> QED
  BY <1>5, <1>6

\* A request for addresses of the owner.
LEMMA RequestAddressesHandled ==
  ASSUME IndInv, NEW e \in Ends, RequestAddresses(e)
  PROVE  Handled(e) /\ Rest'
<1>1. Keeps(peer[e], Send(peer[e], GETADDR, ADDR))
  BY SendKeeps DEF IndInv, RequestAddresses, Types, Responses
<1>2. Handled(e)
  <2>1. peer' = [peer EXCEPT ![e] = Send(peer[e], GETADDR, ADDR)]
    BY DEF RequestAddresses
  <2> QED
    BY <1>1, <2>1, HandledBy
<1>3. Rest'
  BY DEF IndInv, Rest, RequestAddresses
<1> QED
  BY <1>2, <1>3

\* An address relayed.
LEMMA RelayAddressHandled ==
  ASSUME IndInv, NEW e \in Ends, RelayAddress(e)
  PROVE  Handled(e) /\ Rest'
<1>1. Keeps(peer[e], Send(peer[e], ADDR, 0))
  BY SendKeeps DEF IndInv, RelayAddress, Types, Responses
<1>2. Handled(e)
  <2>1. peer' = [peer EXCEPT ![e] = Send(peer[e], ADDR, 0)]
    BY DEF RelayAddress
  <2> QED
    BY <1>1, <2>1, HandledBy
<1>3. Rest'
  BY DEF IndInv, Rest, RelayAddress
<1> QED
  BY <1>2, <1>3

\* The ways in which a connection ends but by what a handler finds.
EndsConnection(e) ==
  WriteReleased(e) \/ TimesOut(e) \/ SocketFails(e) \/ OtherEndClosed(e)

\* They disconnect the Peer.
LEMMA EndedHandled ==
  ASSUME IndInv, NEW e \in Ends, EndsConnection(e)
  PROVE  Handled(e) /\ Rest'
<1>1. \E why \in Reasons : peer' = [peer EXCEPT ![e] = Disconnect(@, why)]
  BY DEF EndsConnection, WriteReleased, TimesOut, SocketFails, OtherEndClosed, Reasons
<1>2. PICK why \in Reasons : peer' = [peer EXCEPT ![e] = Disconnect(@, why)]
  BY <1>1
<1>3. Keeps(peer[e], Disconnect(peer[e], why))
  BY DisconnectKeeps DEF IndInv
<1>4. UNCHANGED <<wire, Counters>>
  BY DEF EndsConnection, WriteReleased, TimesOut, SocketFails, OtherEndClosed
<1> QED
  <2>1. Handled(e)
    BY <1>2, <1>3, HandledBy
  <2> QED
    BY <1>4, <2>1 DEF IndInv, Rest, Counters

\* Every step handles one end.
LEMMA NextHandled ==
  ASSUME IndInv, Next
  PROVE  (\E e \in Ends : Handled(e)) /\ Rest'
<1>1. CASE Connected
  BY <1>1, ConnectedHandled DEF Ends
<1>2. CASE Accepted
  BY <1>2, AcceptedHandled DEF Ends
<1>3. ASSUME NEW e \in Ends,
             \/ Read(e) \/ Write(e)
             \/ SendPing(e) \/ RequestAddresses(e) \/ RelayAddress(e)
             \/ EndsConnection(e)
      PROVE  Handled(e) /\ Rest'
  BY <1>3, ReadHandled, WriteHandled, SendPingHandled, RequestAddressesHandled,
     RelayAddressHandled, EndedHandled
<1> QED
  BY <1>1, <1>2, <1>3 DEF Next, EndsConnection

\* The inductive invariant holds at first,
LEMMA IndInvInit == Init => IndInv
<1> SUFFICES ASSUME Init PROVE IndInv
  OBVIOUS
<1>1. /\ NewPeer \in Peers /\ NewPeer.size = 0 /\ NewPeer.writing = 0
      /\ NewPeer.reading = FALSE
  <2>1. 0 \in 0..QueueMax /\ 0 \in 0..(QueueMax - 1)
    BY QueueMaxAssumption
  <2>2. NoMessage \in Messages
    BY DEF NoMessage, Messages, Types
  <2> QED
    BY <2>1, <2>2 DEF NewPeer, Peers, MaxExpected, Types
<1> HIDE DEF NewPeer
<1>2. WellFormed(NewPeer) /\ Surplus(NewPeer) = 0 /\ Tidy(NewPeer)
  BY <1>1 DEF WellFormed, Surplus, Tidy
<1>3. peer["server"] = NewPeer
  BY DEF Init, Ends
<1> QED
  BY <1>1, <1>2, <1>3 DEF Init, IndInv, Rest

\* and every step keeps it.
LEMMA IndInvNext == IndInv /\ [Next]_vars => IndInv'
<1> SUFFICES ASSUME IndInv, [Next]_vars PROVE IndInv'
  OBVIOUS
<1>1. CASE Next
  <2>1. PICK e \in Ends : Handled(e)
    BY <1>1, NextHandled
  <2>2. PICK p, q : /\ peer' = [peer EXCEPT ![e] = q]
                    /\ p \in Peers /\ p.size = peer[e].size
                    /\ Keeps(p, q) \/ Takes(p, q)
                    /\ p = peer[e] \/ (e = "client" /\ q.size > 0)
    BY <2>1 DEF Handled
  <2>3. WellFormed(q) /\ q \in Peers
    BY <2>2 DEF Keeps, Takes, WellFormed
  <2>4. Rest'
    BY <1>1, NextHandled
  <2>5. p = peer[e] => Surplus(q) <= Surplus(p) \/ Surplus(q) = 0
    <3>1. CASE Up(q)
      BY <2>2, <3>1 DEF Keeps, Takes, Extended
    <3>2. CASE ~Up(q)
      <4>1. q.writing = 0 /\ q.size = 0
        BY <2>2, <2>3, <3>2 DEF Keeps, Takes, WellFormed, Peers
      <4> QED
        BY <4>1 DEF Surplus
    <3> QED
      BY <3>1, <3>2
  <2>6. Tidy(q)
    <3>1. CASE Takes(p, q)
      BY <3>1 DEF Takes, Tidy
    <3>2. CASE Keeps(p, q) /\ ~Up(q)
      BY <2>3, <3>2 DEF Tidy, WellFormed, Peers
    <3>3. CASE Keeps(p, q) /\ Up(q) /\ q.size = 0
      <4>1. p = peer[e] /\ p.size <= q.size /\ Surplus(q) <= Surplus(p)
        BY <2>2, <3>3 DEF Keeps, Extended
      <4>2. p.size \in Nat /\ p.writing \in 0..2 /\ q.writing \in 0..2
        BY <2>2, <2>3 DEF Peers
      <4>3. Tidy(p)
        BY <4>1 DEF IndInv
      <4>4. p.size = 0
        BY <3>3, <4>1, <4>2
      <4> QED
        BY <3>3, <4>1, <4>2, <4>3, <4>4 DEF Tidy, Surplus
    <3> QED
      BY <2>2, <3>1, <3>2, <3>3 DEF Tidy
  <2>7. Surplus(peer'["server"]) = 0
    <3>1. CASE e = "server"
      <4>1. p = peer["server"] /\ Surplus(p) = 0 /\ Surplus(q) \in 0..1
        BY <2>2, <2>3, <3>1 DEF IndInv, WellFormed
      <4>2. peer'["server"] = q
        BY <2>2, <3>1 DEF IndInv, Ends
      <4> QED
        BY <2>5, <3>1, <4>1, <4>2
    <3>2. CASE e # "server"
      <4>1. peer'["server"] = peer["server"]
        BY <2>2, <3>2 DEF IndInv, Ends
      <4> QED
        BY <4>1 DEF IndInv
    <3> QED
      BY <3>1, <3>2
  <2> QED
    BY <2>2, <2>3, <2>4, <2>6, <2>7 DEF IndInv
<1>2. CASE UNCHANGED vars
  BY <1>2 DEF vars, IndInv, Rest, WellFormed, Up, Tidy, Surplus
<1> QED
  BY <1>1, <1>2

\* So every state of a behaviour has it.
LEMMA IndInvHolds == Spec => []IndInv
BY IndInvInit, IndInvNext, PTL DEF Spec

------------------------------------------------------------------------------
(* The results.                                                             *)

\* Every field keeps its type, whatever the ends send and whatever fails.
THEOREM TypeCorrect == Spec => []TypeOK
<1>1. IndInv => TypeOK
  BY DEF IndInv, Rest, TypeOK
<1> QED
  BY <1>1, IndInvHolds, PTL

\* While messages are queued the send event is registered, for every size of the
\* queue and however many of its places a removal leaves.  It is registered once more
\* than needed only at the end that made the connection, and with an empty queue only
\* where a removal does not undo all additions.
THEOREM WritingCorrect == Spec => []WritingWhileQueued
<1>1. IndInv => WritingWhileQueued
  <2> SUFFICES ASSUME IndInv, NEW e \in Ends
               PROVE  LET p      == peer[e]
                          needed == IF p.size > 0 THEN 1 ELSE 0
                      IN  /\ p.writing \in needed..(needed + 1)
                          /\ p.writing > needed => e = "client"
                          /\ RemovesAll /\ p.size = 0 => p.writing = 0
    BY DEF WritingWhileQueued
  <2> DEFINE p == peer[e]
  <2>1. /\ Surplus(p) \in 0..1 /\ Tidy(p) /\ p.writing \in 0..2 /\ p.size \in Nat
        /\ e # "client" => Surplus(p) = 0
    BY DEF IndInv, WellFormed, Peers, Ends
  <2> HIDE DEF p
  <2>2. LET needed == IF p.size > 0 THEN 1 ELSE 0
        IN  /\ p.writing \in needed..(needed + 1)
            /\ p.writing > needed => e = "client"
            /\ RemovesAll /\ p.size = 0 => p.writing = 0
    BY <2>1 DEF Surplus, Tidy
  <2> QED
    BY <2>2 DEF p
<1> QED
  BY <1>1, IndInvHolds, PTL

\* What a handler keeps of a Peer is a step of its queue.
LEMMA KeepsExtendsOrDrops ==
  ASSUME NEW p \in Peers, NEW q, Keeps(p, q)
  PROVE  \/ /\ Len(Queue(q)) \in Len(Queue(p))..QueueMax
            /\ SubSeq(Queue(q), 1, Len(Queue(p))) = Queue(p)
         \/ Queue(q) = <<>>
<1>1. /\ Queue(p) \in Seq(Messages) /\ Len(Queue(p)) = p.size /\ p.size \in Nat
      /\ Queue(q) \in Seq(Messages) /\ Len(Queue(q)) = q.size /\ q.size \in 0..QueueMax
  BY QueueType DEF Keeps, WellFormed, Peers
<1>2. CASE Up(q)
  <2>1. p.size <= q.size /\ \A i \in 1..p.size : Queue(q)[i] = Queue(p)[i]
    BY <1>2 DEF Keeps, Extended
  <2> HIDE DEF Queue
  <2>2. SubSeq(Queue(q), 1, Len(Queue(p))) = Queue(p)
    <3> DEFINE s == Queue(q)
               u == Queue(p)
               n == p.size
    <3>1. /\ s \in Seq(Messages) /\ u \in Seq(Messages) /\ n \in Nat /\ Len(u) = n
          /\ n <= Len(s) /\ \A i \in 1..n : s[i] = u[i]
      BY <1>1, <2>1
    <3> HIDE DEF s, u, n
    <3>2. /\ SubSeq(s, 1, n) \in Seq(Messages) /\ Len(SubSeq(s, 1, n)) = n
          /\ \A i \in 1..n : SubSeq(s, 1, n)[i] = u[i]
      BY <3>1
    <3>3. SubSeq(s, 1, n) = u
      BY <3>1, <3>2
    <3> QED
      BY <3>1, <3>3 DEF s, u
  <2> QED
    BY <1>1, <2>1, <2>2
<1>3. CASE ~Up(q)
  <2>1. q.size = 0
    BY <1>3 DEF Keeps
  <2> QED
    BY <1>1, <2>1
<1> QED
  BY <1>2, <1>3

\* The two rings of slots behave as bounded first-in first-out queues: the
\* session implements MessageQueues.
THEOREM QueuesCorrect == Spec => QueuesInOrder
<1>1. Init => Queues!Init
  <2> SUFFICES ASSUME Init, NEW e \in Ends PROVE Queue(peer[e]) = <<>>
    BY DEF Queues!Init
  <2>1. peer[e].size = 0
    BY DEF Init, NewPeer
  <2> QED
    BY <2>1 DEF Queue, Contents
<1>2. IndInv /\ [Next]_vars => [Queues!Next]_([e \in Ends |-> Queue(peer[e])])
  <2> SUFFICES ASSUME IndInv, [Next]_vars
               PROVE  Queues!Next \/ UNCHANGED [e \in Ends |-> Queue(peer[e])]
    OBVIOUS
  <2>1. CASE Next
    <3>1. PICK e \in Ends : Handled(e)
      BY <2>1, NextHandled
    <3>2. PICK p, q : /\ peer' = [peer EXCEPT ![e] = q]
                      /\ p \in Peers /\ Queue(p) = Queue(peer[e])
                      /\ Keeps(p, q) \/ Takes(p, q)
      BY <3>1 DEF Handled
    <3>3. p \in Peers /\ peer'[e] = q /\ \A f \in Ends \ {e} : peer'[f] = peer[f]
      BY <3>2 DEF IndInv
    <3>4. Queues!Others(e)
      BY <3>3 DEF Queues!Others
    <3>5. CASE Keeps(p, q)
      <4>1. \/ /\ Len(Queue(q)) \in Len(Queue(peer[e]))..QueueMax
               /\ SubSeq(Queue(q), 1, Len(Queue(peer[e]))) = Queue(peer[e])
            \/ Queue(q) = <<>>
        BY <3>2, <3>5, KeepsExtendsOrDrops
      <4> QED
        BY <3>3, <3>4, <4>1 DEF Queues!Next, Queues!Extend, Queues!Drop
    <3>6. CASE Takes(p, q)
      <4>1. Queue(peer[e]) # <<>> /\ (~Up(q) => Queue(q) = <<>>)
        <5>1. p.size > 0 /\ q \in Peers /\ (~Up(q) => q.size = 0)
          BY <3>6 DEF Takes, WellFormed
        <5>2. Queue(p) # <<>> /\ (~Up(q) => Queue(q) = <<>>)
          BY <3>3, <5>1, QueueType
        <5> QED
          BY <3>2, <5>2
      <4>2. Up(q) => Queue(q) = Tail(Queue(peer[e]))
        BY <3>2, <3>6 DEF Takes
      <4> QED
        BY <3>3, <3>4, <4>1, <4>2 DEF Queues!Next, Queues!Take, Queues!Drop
    <3> QED
      BY <3>2, <3>5, <3>6
  <2>2. CASE UNCHANGED vars
    BY <2>2 DEF vars
  <2> QED
    BY <2>1, <2>2
<1> QED
  BY <1>1, <1>2, IndInvHolds, PTL DEF Spec, QueuesInOrder, Queues!Spec

------------------------------------------------------------------------------
(* Who has whose version.                                                   *)

\* The types of the messages that wait to be sent.
Queued(p) == {Queue(p)[i].type : i \in 1..p.size}

\* What a Peer knows of the handshake, where `other' says whether the other end
\* has this end's version: an acknowledgment is sent only for a version that
\* came, and a version is accepted from an end that was sent one only after it
\* acknowledged that.
Informed(p, other) ==
  /\ VERACK \in Queued(p) => p.hasVersion
  /\ PING \in p.accepted => p.hasVersion /\ other
  /\ VERSION \in p.accepted /\ p.versionSent => other
  /\ p.receiving = VERSION /\ p.versionSent => other
  /\ p.receiving # VERACK
  /\ p.conn = "none" => p.receiving = 0 /\ ~p.versionSent

\* What a handler that turned p into q did for it.
Informs(p, q, other) ==
  /\ Informed(q, other)
  /\ p.hasVersion => q.hasVersion
  /\ q.receiving \in {p.receiving, 0}

\* What is learned of the other end stays true.
LEMMA InformedLater ==
  ASSUME NEW p, NEW o \in BOOLEAN, NEW n \in BOOLEAN, Informed(p, o), o => n
  PROVE  Informed(p, n)
BY DEF Informed

\* A Peer that is disconnected queues nothing and awaits nothing.
LEMMA DisconnectInforms ==
  ASSUME NEW p \in Peers, NEW why \in Reasons, NEW o \in BOOLEAN, Informed(p, o)
  PROVE  Informs(p, Disconnect(p, why), o)
<1> DEFINE q == Disconnect(p, why)
<1>1. /\ q.size = 0 /\ q.hasVersion = p.hasVersion /\ q.accepted = p.accepted
      /\ q.versionSent = p.versionSent /\ q.receiving = 0 /\ q.conn = "down"
  BY DEF Disconnect, Peers
<1> HIDE DEF q
<1>2. Queued(q) = {}
  BY <1>1 DEF Queued
<1> QED
  BY <1>1, <1>2 DEF Informs, Informed, VERSION, VERACK, q

\* Fields that say nothing of the handshake.
LEMMA OtherInforms ==
  ASSUME NEW p, NEW q, NEW o \in BOOLEAN, Informed(p, o),
         q.queue = p.queue, q.front = p.front, q.size = p.size,
         q.hasVersion = p.hasVersion, q.accepted = p.accepted,
         q.versionSent = p.versionSent, q.conn = p.conn,
         q.receiving \in {p.receiving, 0}
  PROVE  Informs(p, q, o)
<1>1. Queued(q) = Queued(p)
  BY DEF Queued, Queue
<1> QED
  BY <1>1 DEF Informs, Informed, VERSION, VERACK

\* A message joins the queue at most.
LEMMA SendFields ==
  ASSUME NEW p, WellFormed(p), Up(p), NEW t \in Types, NEW x \in Responses
  PROVE  LET q == Send(p, t, x)
         IN  /\ Queued(q) \subseteq Queued(p) \cup {t}
             /\ q.hasVersion = p.hasVersion /\ q.accepted = p.accepted
             /\ q.versionSent = p.versionSent /\ q.receiving = p.receiving
             /\ q.conn = p.conn
<1> DEFINE m == [type |-> t, expect |-> x]
           ring == Put(p.queue, p.front, p.size, QueueMax, m)
           q == [p EXCEPT !.queue = ring, !.size = @ + 1,
                          !.writing = IF p.size = 0 THEN @ + 1 ELSE @]
<1>1. CASE ~CanSend(p)
  BY <1>1 DEF Send
<1>2. CASE CanSend(p)
  <2>1. p \in Peers /\ p.size < QueueMax /\ p.size \in Nat
    BY <1>2 DEF WellFormed, Peers, CanSend
  <2>2. m \in Messages
    BY DEF Messages, Responses
  <2>t. m.type = t
    OBVIOUS
  <2>3. Send(p, t, x) = q
    BY <1>2 DEF Send
  <2> HIDE DEF m
  <2>4. Contents(ring, p.front, p.size + 1, QueueMax) = Append(Queue(p), m)
    <3>1. IsRing(Messages, QueueMax, p.queue, p.front, p.size)
      BY <2>1, PeerIsRing
    <3>2. /\ IsRing(Messages, QueueMax, ring, p.front, p.size + 1)
          /\ Contents(ring, p.front, p.size + 1, QueueMax)
               = Append(Contents(p.queue, p.front, p.size, QueueMax), m)
      BY <2>1, <2>2, <3>1, PutAppends
    <3> QED
      BY <3>2 DEF Queue
  <2> HIDE DEF ring
  <2>5. /\ q.queue = ring /\ q.front = p.front /\ q.size = p.size + 1
        /\ q.hasVersion = p.hasVersion /\ q.accepted = p.accepted
        /\ q.versionSent = p.versionSent /\ q.receiving = p.receiving
        /\ q.conn = p.conn
    BY <2>1 DEF Peers
  <2> HIDE DEF q
  <2>6. Queue(q) = Append(Queue(p), m)
    BY <2>4, <2>5 DEF Queue
  <2>7. Queue(p) \in Seq(Messages) /\ Len(Queue(p)) = p.size
    BY <2>1, QueueType
  <2>8. Queued(q) \subseteq Queued(p) \cup {t}
    <3>1. ASSUME NEW i \in 1..p.size + 1 PROVE Queue(q)[i].type \in Queued(p) \cup {t}
      <4>1. Queue(q)[i] = IF i = p.size + 1 THEN m ELSE Queue(p)[i]
        BY <2>1, <2>6, <2>7
      <4>2. i # p.size + 1 => i \in 1..p.size
        BY <2>1
      <4> QED
        BY <2>t, <4>1, <4>2 DEF Queued
    <3> QED
      BY <2>5, <3>1 DEF Queued
  <2> QED
    BY <2>3, <2>5, <2>8
<1> QED
  BY <1>1, <1>2

\* Sending anything but an acknowledgment needs no version.
LEMMA SendInforms ==
  ASSUME NEW p, WellFormed(p), Up(p), NEW t \in Types, NEW x \in Responses,
         NEW o \in BOOLEAN, Informed(p, o), t = VERACK => p.hasVersion
  PROVE  Informs(p, Send(p, t, x), o)
BY SendFields DEF Informs, Informed

\* So does sending or dropping it.
LEMMA SendOrDropInforms ==
  ASSUME NEW p, WellFormed(p), Up(p), NEW t \in Types, NEW x \in Responses,
         NEW o \in BOOLEAN, Informed(p, o), t = VERACK => p.hasVersion
  PROVE  Informs(p, SendOrDrop(p, t, x), o)
BY SendInforms, DisconnectInforms DEF SendOrDrop, WellFormed, Reasons

\* The handshake ends where both versions came and went.
LEMMA EndHandshakeInforms ==
  ASSUME NEW p, WellFormed(p), Up(p), NEW o \in BOOLEAN, Informed(p, o),
         p.hasVersion, o
  PROVE  Informs(p, EndHandshake(p), o)
<1> DEFINE q == [p EXCEPT !.accepted = @ \cup {PING, INV, GETADDR, ADDR, ALERT}]
<1>1. /\ q \in Peers /\ q.conn = p.conn /\ q.writing = p.writing
      /\ q.queue = p.queue /\ q.front = p.front /\ q.size = p.size
      /\ q.hasVersion = p.hasVersion /\ q.versionSent = p.versionSent
      /\ q.receiving = p.receiving /\ q.reading = p.reading
      /\ EndHandshake(p) = SendOrDrop(q, GETADDR, 0)
  BY DEF WellFormed, Peers, Types, EndHandshake
<1> HIDE DEF q
<1>2. WellFormed(q) /\ Up(q)
  BY <1>1 DEF WellFormed, Up, Surplus
<1>3. Informed(q, o)
  <2>1. Queued(q) = Queued(p)
    BY <1>1 DEF Queued, Queue
  <2> QED
    BY <1>1, <2>1 DEF Informed
<1>4. Informs(q, SendOrDrop(q, GETADDR, 0), o)
  <2>1. GETADDR \in Types /\ 0 \in Responses /\ GETADDR # VERACK
    BY DEF Types, Responses, GETADDR, VERACK
  <2> QED
    BY <1>2, <1>3, <2>1, SendOrDropInforms
<1> QED
  BY <1>1, <1>4 DEF Informs

\* A version came from an end that acknowledged ours, if it was sent one.
LEMMA VersionReceivedInforms ==
  ASSUME NEW p, WellFormed(p), Up(p), NEW o \in BOOLEAN, Informed(p, o),
         p.versionSent => o, p.receiving = 0
  PROVE  Informs(p, VersionReceived(p), o)
<1> DEFINE q == [p EXCEPT !.hasVersion = TRUE, !.accepted = @ \ {VERSION}]
           acked == SendOrDrop(q, VERACK, 0)
           due == [acked EXCEPT !.accepted = {VERACK}, !.versionSent = TRUE]
<1>a. /\ VERACK \in Types /\ VERSION \in Types /\ 0 \in Responses /\ VERACK \in Responses
      /\ VERSION # VERACK /\ PING # VERACK
  BY DEF Types, Responses, VERSION, VERACK, PING
<1>1. /\ q \in Peers /\ q.conn = p.conn /\ q.writing = p.writing /\ q.reading = p.reading
      /\ q.queue = p.queue /\ q.front = p.front /\ q.size = p.size
      /\ q.hasVersion = TRUE /\ q.versionSent = p.versionSent
      /\ q.receiving = p.receiving /\ q.accepted = p.accepted \ {VERSION}
  BY DEF WellFormed, Peers
<1>2. VersionReceived(p) = IF ~Up(acked) THEN acked
                           ELSE IF p.versionSent THEN EndHandshake(acked)
                           ELSE SendOrDrop(due, VERSION, VERACK)
  BY DEF VersionReceived
<1> HIDE DEF q
<1>3. WellFormed(q) /\ Up(q) /\ Informed(q, o)
  <2>1. Queued(q) = Queued(p)
    BY <1>1 DEF Queued, Queue
  <2> QED
    BY <1>1, <2>1 DEF WellFormed, Up, Surplus, Informed
<1>4. Informs(q, acked, o) /\ acked.hasVersion
  BY <1>a, <1>1, <1>3, SendOrDropInforms DEF Informs
<1>5. WellFormed(acked)
  BY <1>a, <1>3, SendOrDropKeeps DEF Keeps
<1> HIDE DEF acked
<1>6. ASSUME Up(acked), p.versionSent
      PROVE  Informs(acked, EndHandshake(acked), o)
  BY <1>4, <1>5, <1>6, EndHandshakeInforms DEF Informs
<1>7. ASSUME Up(acked)
      PROVE  Informs(acked, SendOrDrop(due, VERSION, VERACK), o)
  <2>1. /\ due \in Peers /\ due.conn = acked.conn /\ due.writing = acked.writing
        /\ due.reading = acked.reading
        /\ due.queue = acked.queue /\ due.front = acked.front /\ due.size = acked.size
        /\ due.hasVersion = acked.hasVersion /\ due.versionSent = TRUE
        /\ due.accepted = {VERACK} /\ due.receiving = acked.receiving
    <3>1. acked \in Peers /\ {VERACK} \in SUBSET Types
      BY <1>5, <1>a DEF WellFormed
    <3> HIDE DEF VERACK
    <3>2. due \in Peers
      BY <3>1 DEF Peers
    <3> QED
      BY <3>1, <3>2 DEF Peers
  <2> HIDE DEF due
  <2>2. WellFormed(due) /\ Up(due)
    BY <1>5, <1>7, <2>1 DEF WellFormed, Up, Surplus
  <2>3. Informed(due, o)
    <3>1. Queued(due) = Queued(acked)
      BY <2>1 DEF Queued, Queue
    <3>2. due.receiving = 0
      BY <1>1, <1>4, <2>1 DEF Informs
    <3>3. due.conn # "none"
      BY <2>2 DEF Up
    <3> QED
      BY <1>a, <1>4, <2>1, <3>1, <3>2, <3>3 DEF Informed, VERSION, VERACK, PING
  <2>4. Informs(due, SendOrDrop(due, VERSION, VERACK), o)
    BY <1>a, <2>2, <2>3, SendOrDropInforms
  <2> QED
    BY <2>1, <2>4 DEF Informs
<1> QED
  BY <1>1, <1>2, <1>4, <1>6, <1>7 DEF Informs

\* An acknowledgment says that the other end has our version.
LEMMA AckReceivedInforms ==
  ASSUME NEW p, WellFormed(p), Up(p), NEW o \in BOOLEAN, Informed(p, o), o
  PROVE  Informs(p, AckReceived(p), o)
<1> DEFINE q == [p EXCEPT !.accepted = @ \ {VERACK}]
           waits == [q EXCEPT !.accepted = @ \cup {VERSION}]
<1>1. /\ q \in Peers /\ q.conn = p.conn /\ q.writing = p.writing /\ q.reading = p.reading
      /\ q.queue = p.queue /\ q.front = p.front /\ q.size = p.size
      /\ q.hasVersion = p.hasVersion /\ q.versionSent = p.versionSent
      /\ q.receiving = p.receiving /\ q.accepted = p.accepted \ {VERACK}
  BY DEF WellFormed, Peers
<1>2. AckReceived(p) = IF q.hasVersion THEN EndHandshake(q) ELSE waits
  BY DEF AckReceived
<1> HIDE DEF q
<1>3. WellFormed(q) /\ Up(q) /\ Informed(q, o)
  <2>1. Queued(q) = Queued(p)
    BY <1>1 DEF Queued, Queue
  <2> QED
    BY <1>1, <2>1 DEF WellFormed, Up, Surplus, Informed
<1>4. q.hasVersion => Informs(q, EndHandshake(q), o)
  BY <1>3, EndHandshakeInforms
<1>5. Informs(q, waits, o)
  <2>1. /\ waits.queue = q.queue /\ waits.front = q.front /\ waits.size = q.size
        /\ waits.hasVersion = q.hasVersion /\ waits.versionSent = q.versionSent
        /\ waits.receiving = q.receiving /\ waits.conn = q.conn
        /\ waits.accepted = q.accepted \cup {VERSION}
    BY <1>1 DEF Peers
  <2> HIDE DEF waits
  <2>2. Queued(waits) = Queued(q)
    BY <2>1 DEF Queued, Queue
  <2> QED
    BY <1>3, <2>1, <2>2 DEF Informs, Informed, PING, VERSION
<1> QED
  BY <1>1, <1>2, <1>4, <1>5 DEF Informs

\* The automatic handshake, for every message type.
LEMMA AutoHandshakeInforms ==
  ASSUME NEW p, WellFormed(p), Up(p), NEW t \in Types, NEW o \in BOOLEAN, Informed(p, o),
         p.receiving = 0, t = VERACK => o, t = VERSION /\ p.versionSent => o
  PROVE  Informs(p, AutoHandshake(p, t), o)
BY VersionReceivedInforms, AckReceivedInforms DEF AutoHandshake, Informs

\* The automatic discovery changes nothing the other end would have to know.
LEMMA AutoDiscoveryInforms ==
  ASSUME NEW p, WellFormed(p), Up(p), NEW t \in Types, NEW e \in Ends,
         NEW o \in BOOLEAN, Informed(p, o)
  PROVE  Informs(p, AutoDiscovery(e, p, t), o)
<1> DEFINE answered == IF t = GETADDR /\ e \in Knowing THEN Send(p, ADDR, 0) ELSE p
           told == [answered EXCEPT !.broadcast = TRUE]
<1>1. AutoDiscovery(e, p, t) = IF e \in Sharing /\ ~p.broadcast /\ ADDR \in p.accepted
                               THEN Send(told, ADDR, 0) ELSE answered
  BY DEF AutoDiscovery
<1>a. ADDR \in Types /\ 0 \in Responses /\ ADDR # VERACK
  BY DEF Types, Responses, ADDR, VERACK
<1>2. Informs(p, answered, o) /\ WellFormed(answered) /\ Up(answered)
  <2>1. Informs(p, Send(p, ADDR, 0), o)
    BY <1>a, SendInforms
  <2>2. WellFormed(Send(p, ADDR, 0)) /\ Up(Send(p, ADDR, 0))
    BY <1>a, SendKeeps DEF Keeps
  <2> QED
    BY <2>1, <2>2 DEF Informs
<1> HIDE DEF answered
<1>3. /\ told \in Peers /\ told.conn = answered.conn /\ told.writing = answered.writing
      /\ told.reading = answered.reading
      /\ told.queue = answered.queue /\ told.front = answered.front
      /\ told.size = answered.size /\ told.hasVersion = answered.hasVersion
      /\ told.accepted = answered.accepted /\ told.versionSent = answered.versionSent
      /\ told.receiving = answered.receiving
  BY <1>2 DEF WellFormed, Peers
<1> HIDE DEF told
<1>4. WellFormed(told) /\ Up(told) /\ Informs(answered, told, o)
  BY <1>2, <1>3, OtherInforms DEF WellFormed, Up, Surplus, Informs
<1>5. Informs(told, Send(told, ADDR, 0), o)
  BY <1>a, <1>4, SendInforms DEF Informs
<1> QED
  BY <1>1, <1>2, <1>4, <1>5 DEF Informs

\* Neither do the automatic pings.
LEMMA AutoPingPongsInforms ==
  ASSUME NEW p, WellFormed(p), Up(p), NEW t \in Types, NEW o \in BOOLEAN, Informed(p, o)
  PROVE  Informs(p, AutoPingPongs(p, t), o)
<1> DEFINE q == [p EXCEPT !.accepted = @ \ {PONG}]
<1>1. Informs(p, p, o)
  BY DEF Informs
<1>2. Informs(p, Disconnect(p, "pong"), o)
  BY DisconnectInforms DEF WellFormed, Reasons
<1>3. Informs(p, SendOrDrop(p, PONG, 0), o)
  <2>1. PONG \in Types /\ 0 \in Responses /\ PONG # VERACK
    BY DEF Types, Responses, PONG, VERACK
  <2> QED
    BY <2>1, SendOrDropInforms
<1>4. Informs(p, q, o)
  <2>1. /\ q.queue = p.queue /\ q.front = p.front /\ q.size = p.size
        /\ q.hasVersion = p.hasVersion /\ q.versionSent = p.versionSent
        /\ q.receiving = p.receiving /\ q.conn = p.conn
        /\ q.accepted \subseteq p.accepted
    BY DEF WellFormed, Peers
  <2> HIDE DEF q
  <2>2. Queued(q) = Queued(p)
    BY <2>1 DEF Queued, Queue
  <2> QED
    BY <2>1, <2>2 DEF Informs, Informed
<1> QED
  BY <1>1, <1>2, <1>3, <1>4 DEF AutoPingPongs

\* The three automatic responses, one after the other.
LEMMA MessageReceivedInforms ==
  ASSUME NEW p, WellFormed(p), Up(p), NEW t \in Types, NEW e \in Ends,
         NEW o \in BOOLEAN, Informed(p, o),
         t = VERACK => o, t = VERSION /\ p.versionSent => o
  PROVE  /\ Informed(MessageReceived(e, p, t), o)
         /\ p.hasVersion => MessageReceived(e, p, t).hasVersion
<1> DEFINE ready == [p EXCEPT !.receiving = 0,
                              !.timeout = IF p.expectedNum > 0 THEN "response" ELSE "idle"]
           shaken == AutoHandshake(ready, t)
           discovered == IF Up(shaken) THEN AutoDiscovery(e, shaken, t) ELSE shaken
<1>1. MessageReceived(e, p, t)
        = IF Up(discovered) THEN AutoPingPongs(discovered, t) ELSE discovered
  BY DEF MessageReceived
<1>2. /\ ready \in Peers /\ ready.conn = p.conn /\ ready.writing = p.writing
      /\ ready.reading = p.reading
      /\ ready.queue = p.queue /\ ready.front = p.front /\ ready.size = p.size
      /\ ready.hasVersion = p.hasVersion /\ ready.accepted = p.accepted
      /\ ready.versionSent = p.versionSent /\ ready.receiving = 0
  BY DEF WellFormed, Peers
<1> HIDE DEF ready
<1>3. WellFormed(ready) /\ Up(ready) /\ Informs(p, ready, o)
  BY <1>2, OtherInforms DEF WellFormed, Up, Surplus
<1>4. Informs(ready, shaken, o) /\ WellFormed(shaken)
  BY <1>2, <1>3, AutoHandshakeInforms, AutoHandshakeKeeps DEF Keeps, Informs
<1> HIDE DEF shaken
<1>5. Informs(shaken, discovered, o) /\ WellFormed(discovered)
  BY <1>4, AutoDiscoveryInforms, AutoDiscoveryKeeps DEF Keeps, Informs
<1> HIDE DEF discovered
<1>6. Up(discovered) => Informs(discovered, AutoPingPongs(discovered, t), o)
  BY <1>5, AutoPingPongsInforms DEF Informs
<1> QED
  BY <1>1, <1>3, <1>4, <1>5, <1>6 DEF Informs

\* A header is let through if its type is accepted.
LEMMA HeaderReceivedInforms ==
  ASSUME NEW p, WellFormed(p), Up(p), NEW t \in Types, NEW e \in Ends,
         NEW o \in BOOLEAN, Informed(p, o), t = VERACK => o
  PROVE  /\ Informed(HeaderReceived(e, p, t), o)
         /\ p.hasVersion => HeaderReceived(e, p, t).hasVersion
<1> DEFINE q == ExpectedAfter(p, t)
           waits == [q EXCEPT !.receiving = t, !.timeout = "receive"]
<1>1. HeaderReceived(e, p, t) = IF ~Welcome(p, t) THEN Disconnect(p, "refused")
                                ELSE IF HasPayload(t) THEN waits
                                ELSE MessageReceived(e, q, t)
  BY DEF HeaderReceived
<1>2. /\ q \in Peers /\ q.conn = p.conn /\ q.writing = p.writing
      /\ q.queue = p.queue /\ q.front = p.front /\ q.size = p.size
      /\ q.hasVersion = p.hasVersion /\ q.accepted = p.accepted
      /\ q.versionSent = p.versionSent /\ q.receiving = p.receiving
  BY ExpectedAfterKeeps DEF WellFormed
<1>3. Informs(p, Disconnect(p, "refused"), o)
  BY DisconnectInforms DEF WellFormed, Reasons
<1> HIDE DEF q
<1>4. Informs(p, q, o) /\ WellFormed(q) /\ Up(q)
  BY <1>2, OtherInforms DEF WellFormed, Up, Surplus
<1>5. CASE ~Welcome(p, t)
  BY <1>1, <1>3, <1>5 DEF Informs
<1>6. CASE Welcome(p, t) /\ HasPayload(t)
  <2>1. t \in q.accepted /\ t # VERACK
    BY <1>2, <1>6 DEF Welcome, HasPayload
  <2>2. /\ waits.queue = q.queue /\ waits.front = q.front /\ waits.size = q.size
        /\ waits.hasVersion = q.hasVersion /\ waits.accepted = q.accepted
        /\ waits.versionSent = q.versionSent /\ waits.receiving = t
        /\ waits.conn = q.conn
    BY <1>2 DEF Peers
  <2> HIDE DEF waits
  <2>3. Queued(waits) = Queued(q)
    BY <2>2 DEF Queued, Queue
  <2>4. Informed(waits, o)
    BY <1>4, <2>1, <2>2, <2>3 DEF Informs, Informed, Up
  <2> QED
    BY <1>1, <1>2, <1>6, <2>2, <2>4
<1>7. CASE Welcome(p, t) /\ ~HasPayload(t)
  <2>1. t = VERSION /\ q.versionSent => o
    BY <1>2, <1>4, <1>7 DEF Welcome, Informs, Informed
  <2>2. /\ Informed(MessageReceived(e, q, t), o)
        /\ q.hasVersion => MessageReceived(e, q, t).hasVersion
    BY <1>4, <2>1, MessageReceivedInforms DEF Informs
  <2> QED
    BY <1>1, <1>2, <1>7, <2>2
<1> QED
  BY <1>5, <1>6, <1>7

\* The write handler sends what was queued.
LEMMA FinishInforms ==
  ASSUME NEW p, WellFormed(p), Up(p), p.size > 0, NEW left \in Left(p),
         NEW o \in BOOLEAN, Informed(p, o)
  PROVE  Informs(p, Finish(p, left), o)
<1> DEFINE response == p.queue[p.front].expect
           q == Sent(p, left)
           waits == Expect(q, response)
<1>1. Finish(p, left) = IF response = 0 THEN q
                        ELSE IF p.expectedNum = MaxExpected THEN Disconnect(p, "toomany")
                        ELSE waits
  BY DEF Finish
<1>2. q \in Peers /\ Queue(q) = Tail(Queue(p)) /\ p \in Peers /\ p.size > 0
  BY SentTakes DEF Takes, WellFormed
<1>3. /\ q.hasVersion = p.hasVersion /\ q.accepted = p.accepted
      /\ q.versionSent = p.versionSent /\ q.receiving = p.receiving /\ q.conn = p.conn
      /\ q.size = p.size - 1
  BY <1>2 DEF Sent, Peers
<1> HIDE DEF q
<1>4. Queued(q) \subseteq Queued(p)
  <2>1. p.size \in Nat /\ Queue(p) \in Seq(Messages) /\ Len(Queue(p)) = p.size
    BY <1>2, QueueType DEF Peers
  <2>2. \A i \in 1..p.size - 1 : i + 1 \in 1..p.size /\ Queue(q)[i] = Queue(p)[i + 1]
    BY <1>2, <2>1
  <2> QED
    BY <1>3, <2>2 DEF Queued
<1>5. Informs(p, q, o)
  BY <1>3, <1>4 DEF Informs, Informed
<1>6. Informs(p, Disconnect(p, "toomany"), o)
  BY <1>2, DisconnectInforms DEF Reasons
<1>7. Informs(q, waits, o)
  <2> HIDE DEF response
  <2>1. /\ waits.queue = q.queue /\ waits.front = q.front /\ waits.size = q.size
        /\ waits.hasVersion = q.hasVersion /\ waits.accepted = q.accepted
        /\ waits.versionSent = q.versionSent /\ waits.receiving = q.receiving
        /\ waits.conn = q.conn
    BY <1>2 DEF Peers, Expect
  <2> HIDE DEF waits
  <2> QED
    BY <1>5, <2>1, OtherInforms DEF Informs
<1> QED
  BY <1>1, <1>5, <1>6, <1>7 DEF Informs

\* An acknowledgment is on its way to this end.
AckComing(e) == \E i \in 1..Len(wire[e]) : wire[e][i] = VERACK

\* Inductive: the ends know of each other what Informed says, and an
\* acknowledgment comes from an end that has this end's version.
HandshakeInv ==
  \A e \in Ends :
    /\ Informed(peer[e], peer[Other(e)].hasVersion)
    /\ AckComing(e) => peer[Other(e)].hasVersion

\* A step tells the other end no more than this end has.
Tells(e) ==
  /\ \E q : /\ peer' = [peer EXCEPT ![e] = q]
            /\ Informed(q, peer[Other(e)].hasVersion)
            /\ peer[e].hasVersion => q.hasVersion
            /\ q.hasVersion \in BOOLEAN
  /\ \A f \in Ends : AckComing(f)' => AckComing(f) \/ (f = Other(e) /\ peer[e].hasVersion)

\* There are two ends.
LEMMA TwoEnds ==
  ASSUME NEW e \in Ends
  PROVE  /\ Other(e) \in Ends /\ Other(e) # e /\ Other(Other(e)) = e
         /\ \A f \in Ends : f = e \/ f = Other(e)
<1>1. \A f \in Ends : \E g \in Ends : g # f
  BY DEF Ends
<1>2. \A f \in Ends : Other(f) \in Ends /\ Other(f) # f
  BY <1>1 DEF Other
<1> QED
  BY <1>2 DEF Ends

\* A step that tells no more than an end has keeps the invariant.
LEMMA TellsKeeps ==
  ASSUME IndInv, HandshakeInv, NEW e \in Ends, Tells(e)
  PROVE  HandshakeInv'
<1>1. PICK q : /\ peer' = [peer EXCEPT ![e] = q]
               /\ Informed(q, peer[Other(e)].hasVersion)
               /\ peer[e].hasVersion => q.hasVersion
               /\ q.hasVersion \in BOOLEAN
  BY DEF Tells
<1> DEFINE f == Other(e)
<1>2. /\ f \in Ends /\ f # e /\ Other(f) = e /\ \A g \in Ends : g = e \/ g = f
  BY TwoEnds
<1>3. peer'[e] = q /\ peer'[f] = peer[f]
  BY <1>1, <1>2 DEF IndInv
<1>4. /\ peer[e].hasVersion \in BOOLEAN /\ Informed(peer[f], peer[e].hasVersion)
      /\ AckComing(e) => peer[f].hasVersion
      /\ AckComing(f) => peer[e].hasVersion
  BY <1>2 DEF HandshakeInv, IndInv, Peers
<1>5. (AckComing(e)' => AckComing(e)) /\ (AckComing(f)' => AckComing(f) \/ peer[e].hasVersion)
  BY <1>2 DEF Tells
<1> HIDE DEF f
<1>6. Informed(peer[f], q.hasVersion)
  BY <1>1, <1>4, InformedLater
<1>7. \A g \in Ends : Informed(peer'[g], peer'[Other(g)].hasVersion)
  BY <1>1, <1>2, <1>3, <1>6 DEF f
<1>8. \A g \in Ends : AckComing(g)' => peer'[Other(g)].hasVersion
  BY <1>1, <1>2, <1>3, <1>4, <1>5 DEF f
<1> QED
  BY <1>7, <1>8 DEF HandshakeInv

\* Steps that leave the wires alone.
LEMMA TellsNothingNew ==
  ASSUME NEW e \in Ends, NEW q, peer' = [peer EXCEPT ![e] = q], wire' = wire,
         WellFormed(q), Informed(q, peer[Other(e)].hasVersion),
         peer[e].hasVersion => q.hasVersion
  PROVE  Tells(e)
BY DEF Tells, AckComing, WellFormed, Peers

\* The connecting end tells its version, no acknowledgment.
LEMMA ConnectedTells ==
  ASSUME IndInv, HandshakeInv, Connected
  PROVE  Tells("client")
<1> DEFINE p == peer["client"]
           o == peer[Other("client")].hasVersion
           q == [p EXCEPT !.conn = "up", !.accepted = {VERACK}, !.versionSent = TRUE,
                          !.writing = @ + 1]
           r == Send(q, VERSION, VERACK)
<1>1. /\ WellFormed(p) /\ p \in Peers /\ p.conn = "none" /\ o \in BOOLEAN /\ Informed(p, o)
      /\ "client" \in Ends
  BY TwoEnds DEF IndInv, HandshakeInv, Connected, Ends, Peers
<1>2. peer' = [peer EXCEPT !["client"] = r] /\ wire' = wire
  BY DEF Connected
<1> HIDE DEF p, o
<1>a. p.writing = 0 /\ p.size = 0
  BY <1>1 DEF WellFormed, Up, Surplus, Peers
<1>3. /\ q \in Peers /\ q.conn = "up" /\ q.writing = 1 /\ q.reading = p.reading
      /\ q.queue = p.queue /\ q.front = p.front /\ q.size = p.size
      /\ q.hasVersion = p.hasVersion /\ q.accepted = {VERACK} /\ q.receiving = p.receiving
  <2>1. p.writing + 1 = 1 /\ 1 \in 0..2
    BY <1>a
  <2>2. q \in Peers
    BY <1>1, <2>1 DEF Peers, Types
  <2> QED
    BY <1>1, <1>a, <2>1, <2>2 DEF Peers
<1> HIDE DEF q
<1>4. WellFormed(q) /\ Up(q) /\ Informed(q, o)
  <2>1. Queued(q) = Queued(p)
    BY <1>3 DEF Queued, Queue
  <2> QED
    BY <1>1, <1>3, <1>a, <2>1 DEF WellFormed, Up, Surplus, Informed, VERSION, VERACK, PING
<1>5. WellFormed(r) /\ Informs(q, r, o)
  <2>1. VERSION \in Types /\ VERACK \in Responses /\ VERSION # VERACK
    BY DEF Types, Responses, VERSION, VERACK
  <2> QED
    BY <1>1, <1>4, <2>1, SendKeeps, SendInforms DEF Keeps
<1> HIDE DEF r
<1> QED
  BY <1>1, <1>2, <1>3, <1>5, TellsNothingNew DEF Informs, p, o

\* The accepting end tells nothing yet.
LEMMA AcceptedTells ==
  ASSUME IndInv, HandshakeInv, Accepted
  PROVE  Tells("server")
<1> DEFINE p == peer["server"]
           o == peer[Other("server")].hasVersion
           q == [p EXCEPT !.conn = "up", !.reading = TRUE, !.timeout = "response",
                          !.accepted = {VERSION}]
<1>1. /\ WellFormed(p) /\ p \in Peers /\ p.conn = "none" /\ o \in BOOLEAN /\ Informed(p, o)
      /\ "server" \in Ends
  BY TwoEnds DEF IndInv, HandshakeInv, Accepted, Ends, Peers
<1>2. peer' = [peer EXCEPT !["server"] = q] /\ wire' = wire
  BY DEF Accepted
<1> HIDE DEF p, o
<1>3. /\ q \in Peers /\ q.conn = "up" /\ q.writing = p.writing
      /\ q.queue = p.queue /\ q.front = p.front /\ q.size = p.size
      /\ q.hasVersion = p.hasVersion /\ q.accepted = {VERSION} /\ q.receiving = p.receiving
      /\ q.versionSent = p.versionSent
  BY <1>1 DEF Peers, Types
<1> HIDE DEF q
<1>4. WellFormed(q) /\ Informed(q, o)
  <2>1. Queued(q) = Queued(p)
    BY <1>3 DEF Queued, Queue
  <2> QED
    BY <1>1, <1>3, <2>1 DEF WellFormed, Up, Surplus, Informed, VERSION, VERACK, PING
<1> QED
  BY <1>1, <1>2, <1>3, <1>4, TellsNothingNew DEF p, o

\* What an end reads, it learns; an acknowledgment read says that the other
\* end has the version.
LEMMA ReadTells ==
  ASSUME IndInv, HandshakeInv, NEW e \in Ends, Read(e)
  PROVE  Tells(e)
<1> DEFINE p == peer[e]
           o == peer[Other(e)].hasVersion
           t == Head(wire[e])
           r == IF p.receiving = 0 THEN HeaderReceived(e, p, t)
                ELSE MessageReceived(e, p, p.receiving)
<1>1. /\ WellFormed(p) /\ p \in Peers /\ Up(p) /\ o \in BOOLEAN /\ Informed(p, o)
      /\ AckComing(e) => o
  BY TwoEnds DEF IndInv, HandshakeInv, Read, WellFormed, Peers
<1>2. peer' = [peer EXCEPT ![e] = r] /\ wire' = [wire EXCEPT ![e] = Tail(@)]
  BY DEF Read
<1>3. wire \in [Ends -> Seq(Types)] /\ wire[e] \in Seq(Types) /\ wire[e] # <<>>
  BY DEF IndInv, Rest, Read
<1>4. t \in Types /\ (t = VERACK => o)
  <2>1. t \in Types /\ 1 \in 1..Len(wire[e]) /\ t = wire[e][1]
    BY <1>3
  <2> QED
    BY <1>1, <2>1 DEF AckComing
<1> HIDE DEF p, o, t
<1>5. WellFormed(r) /\ Informed(r, o) /\ (p.hasVersion => r.hasVersion)
  <2>1. CASE p.receiving = 0
    BY <1>1, <1>4, <2>1, HeaderReceivedInforms, HeaderReceivedKeeps DEF Keeps
  <2>2. CASE p.receiving # 0
    <3>1. /\ p.receiving \in Types /\ p.receiving # VERACK
          /\ p.receiving = VERSION /\ p.versionSent => o
      BY <1>1, <2>2 DEF Peers, Informed
    <3> QED
      BY <1>1, <2>2, <3>1, MessageReceivedInforms, MessageReceivedKeeps DEF Keeps
  <2> QED
    BY <2>1, <2>2
<1> HIDE DEF r
<1>6. \A f \in Ends : AckComing(f)' => AckComing(f)
  <2> SUFFICES ASSUME NEW f \in Ends, NEW i \in 1..Len(wire'[f]), wire'[f][i] = VERACK
               PROVE  AckComing(f)
    BY DEF AckComing
  <2>1. CASE f = e
    <3>1. wire'[f] = Tail(wire[f])
      BY <1>2, <1>3, <2>1
    <3>2. i + 1 \in 1..Len(wire[f]) /\ wire[f][i + 1] = VERACK
      BY <1>3, <2>1, <3>1
    <3> QED
      BY <3>2 DEF AckComing
  <2>2. CASE f # e
    BY <1>2, <1>3, <2>2 DEF AckComing
  <2> QED
    BY <2>1, <2>2
<1>7. r.hasVersion \in BOOLEAN
  BY <1>5 DEF WellFormed, Peers
<1> QED
  BY <1>2, <1>5, <1>6, <1>7 DEF Tells, p, o

\* What an end writes was in its queue, so an acknowledgment goes out only
\* from an end that has the version.
LEMMA WriteTells ==
  ASSUME IndInv, HandshakeInv, NEW e \in Ends, Write(e)
  PROVE  Tells(e)
<1>0. PICK left \in Left(peer[e]) :
        peer' = [peer EXCEPT ![e] =
                   IF ~peer[e].sentHeader /\ HasPayload(peer[e].queue[peer[e].front].type)
                   THEN [peer[e] EXCEPT !.sentHeader = TRUE]
                   ELSE Finish(peer[e], left)]
  BY DEF Write
<1> DEFINE p == peer[e]
           o == peer[Other(e)].hasVersion
           t == p.queue[p.front].type
           q == [p EXCEPT !.sentHeader = TRUE]
           r == IF ~p.sentHeader /\ HasPayload(t) THEN q ELSE Finish(p, left)
<1>1. /\ WellFormed(p) /\ p \in Peers /\ p.size > 0 /\ Up(p) /\ left \in Left(p)
      /\ o \in BOOLEAN /\ Informed(p, o)
  BY TwoEnds DEF IndInv, HandshakeInv, Write, WellFormed, Peers
<1>2. peer' = [peer EXCEPT ![e] = r] /\ wire' = [wire EXCEPT ![Other(e)] = Append(@, t)]
  BY <1>0 DEF Write
<1> HIDE DEF p, o
<1>3. t \in Types
  BY <1>1 DEF Peers, Messages
<1>4. t = VERACK => p.hasVersion
  <2>1. p.size \in 0..QueueMax /\ p.size > 0 /\ p.front \in 0..(QueueMax - 1)
    BY <1>1 DEF WellFormed, Peers
  <2>2. 1 \in 1..p.size /\ (p.front + 0) % QueueMax = p.front
    <3>1. QueueMax \in Nat \ {0} /\ 0 \in 0..QueueMax /\ p.front \in 0..(QueueMax - 1)
      BY <2>1, QueueMaxAssumption
    <3>2. p.front + 0 = p.front /\ p.front \in Nat /\ p.front < QueueMax
      BY <3>1
    <3>3. p.front % QueueMax = p.front
      BY <3>1, <3>2
    <3> QED
      BY <2>1, <3>2, <3>3
  <2>3. Queue(p)[1] = p.queue[p.front]
    <3>1. p.front + 1 - 1 = p.front + 0
      BY <2>1
    <3> QED
      BY <2>2, <3>1 DEF Queue, Contents
  <2>4. t \in Queued(p)
    BY <2>2, <2>3 DEF Queued
  <2> QED
    BY <1>1, <2>4 DEF Informed
<1> HIDE DEF t
<1>5. WellFormed(q) /\ Informs(p, q, o)
  <2>1. /\ q \in Peers /\ q.conn = p.conn /\ q.writing = p.writing /\ q.reading = p.reading
        /\ q.queue = p.queue /\ q.front = p.front /\ q.size = p.size
        /\ q.hasVersion = p.hasVersion /\ q.accepted = p.accepted
        /\ q.versionSent = p.versionSent /\ q.receiving = p.receiving
    BY <1>1 DEF Peers
  <2> HIDE DEF q
  <2> QED
    BY <1>1, <2>1, OtherInforms DEF WellFormed, Up, Surplus
<1>6. WellFormed(r) /\ Informed(r, o) /\ (p.hasVersion => r.hasVersion)
  BY <1>1, <1>5, FinishTakes, FinishInforms DEF Takes, Informs
<1> HIDE DEF r
<1>7. r.hasVersion \in BOOLEAN
  BY <1>6 DEF WellFormed, Peers
<1>8. \A f \in Ends : AckComing(f)' => AckComing(f) \/ (f = Other(e) /\ p.hasVersion)
  <2> SUFFICES ASSUME NEW f \in Ends, NEW i \in 1..Len(wire'[f]), wire'[f][i] = VERACK
               PROVE  AckComing(f) \/ (f = Other(e) /\ p.hasVersion)
    BY DEF AckComing
  <2>1. wire \in [Ends -> Seq(Types)] /\ wire[f] \in Seq(Types)
    BY DEF IndInv, Rest
  <2>2. CASE f = Other(e)
    <3>1. wire'[f] = Append(wire[f], t)
      BY <1>2, <2>1, <2>2
    <3>2. CASE i \in 1..Len(wire[f])
      BY <2>1, <3>1, <3>2 DEF AckComing
    <3>3. CASE i \notin 1..Len(wire[f])
      <4>1. wire'[f][i] = t
        BY <1>3, <2>1, <3>1, <3>3
      <4> QED
        BY <1>4, <2>2, <4>1
    <3> QED
      BY <3>2, <3>3
  <2>3. CASE f # Other(e)
    BY <1>2, <2>1, <2>3 DEF AckComing
  <2> QED
    BY <2>2, <2>3
<1> QED
  BY <1>2, <1>6, <1>7, <1>8 DEF Tells, p, o

\* Pings, requests and relayed addresses are sent by Send.
LEMMA SendTells ==
  ASSUME IndInv, HandshakeInv, NEW e \in Ends,
         SendPing(e) \/ RequestAddresses(e) \/ RelayAddress(e)
  PROVE  Tells(e)
<1> DEFINE p == peer[e]
           o == peer[Other(e)].hasVersion
           q == Send(p, PING, PONG)
           r == [q EXCEPT !.accepted = @ \cup {PONG}]
<1>1. /\ WellFormed(p) /\ p \in Peers /\ Up(p) /\ o \in BOOLEAN /\ Informed(p, o)
      /\ wire' = wire
  BY TwoEnds DEF IndInv, HandshakeInv, SendPing, RequestAddresses, RelayAddress, Peers
<1>2. ASSUME NEW t \in {PING, GETADDR, ADDR}, NEW x \in Responses,
             peer' = [peer EXCEPT ![e] = Send(p, t, x)]
      PROVE  Tells(e)
  <2> HIDE DEF p, o
  <2>1. t \in Types /\ t # VERACK
    BY DEF Types, PING, GETADDR, ADDR, VERACK
  <2>2. WellFormed(Send(p, t, x)) /\ Informs(p, Send(p, t, x), o)
    BY <1>1, <2>1, SendKeeps, SendInforms DEF Keeps
  <2> QED
    BY <1>1, <1>2, <2>2, TellsNothingNew DEF Informs, p, o
<1>3. CASE RequestAddresses(e)
  BY <1>2, <1>3 DEF RequestAddresses, Responses
<1>4. CASE RelayAddress(e)
  BY <1>2, <1>4 DEF RelayAddress, Responses
<1>5. CASE SendPing(e) /\ OldVersions
  BY <1>2, <1>5 DEF SendPing, Responses
<1>6. CASE SendPing(e) /\ ~OldVersions
  <2>1. peer' = [peer EXCEPT ![e] = r]
    BY <1>6 DEF SendPing
  <2> HIDE DEF p, o
  <2>2. PING \in Types /\ PONG \in Responses /\ PING # VERACK
    BY DEF Types, Responses, PING, PONG, VERACK
  <2>3. WellFormed(q) /\ Informs(p, q, o)
    BY <1>1, <2>2, SendKeeps, SendInforms DEF Keeps
  <2> HIDE DEF q
  <2>4. /\ r \in Peers /\ r.conn = q.conn /\ r.writing = q.writing /\ r.reading = q.reading
        /\ r.queue = q.queue /\ r.front = q.front /\ r.size = q.size
        /\ r.hasVersion = q.hasVersion /\ r.accepted = q.accepted \cup {PONG}
        /\ r.versionSent = q.versionSent /\ r.receiving = q.receiving
    BY <2>3 DEF WellFormed, Peers, Types
  <2> HIDE DEF r
  <2>5. Queued(r) = Queued(q)
    BY <2>4 DEF Queued, Queue
  <2>6. WellFormed(r) /\ Informed(r, o) /\ (p.hasVersion => r.hasVersion)
    BY <2>3, <2>4, <2>5 DEF WellFormed, Up, Surplus, Informs, Informed, PING, PONG, VERSION
  <2> QED
    BY <1>1, <2>1, <2>6, TellsNothingNew DEF p, o
<1> QED
  BY <1>3, <1>4, <1>5, <1>6

\* Whatever ends a connection tells nothing.
LEMMA EndedTells ==
  ASSUME IndInv, HandshakeInv, NEW e \in Ends, EndsConnection(e)
  PROVE  Tells(e)
<1>1. \E why \in Reasons : peer' = [peer EXCEPT ![e] = Disconnect(peer[e], why)]
  BY DEF EndsConnection, WriteReleased, TimesOut, SocketFails, OtherEndClosed, Reasons
<1>2. PICK why \in Reasons : peer' = [peer EXCEPT ![e] = Disconnect(peer[e], why)]
  BY <1>1
<1>3. /\ peer[e] \in Peers /\ peer[Other(e)].hasVersion \in BOOLEAN
      /\ Informed(peer[e], peer[Other(e)].hasVersion)
  BY TwoEnds DEF IndInv, HandshakeInv, Peers
<1>4. WellFormed(Disconnect(peer[e], why))
      /\ Informs(peer[e], Disconnect(peer[e], why), peer[Other(e)].hasVersion)
  BY <1>3, DisconnectKeeps, DisconnectInforms DEF Keeps
<1>5. wire' = wire
  BY DEF EndsConnection, WriteReleased, TimesOut, SocketFails, OtherEndClosed
<1> QED
  BY <1>2, <1>4, <1>5, TellsNothingNew DEF Informs

\* At first nobody knows anything,
LEMMA HandshakeInvInit == Init => HandshakeInv
<1> SUFFICES ASSUME Init, NEW e \in Ends
             PROVE  Informed(peer[e], peer[Other(e)].hasVersion) /\ ~AckComing(e)
  BY DEF HandshakeInv
<1>1. peer[e] = NewPeer /\ wire[e] = <<>>
  BY DEF Init
<1>2. Queued(NewPeer) = {}
  BY DEF Queued, NewPeer
<1>3. /\ NewPeer.accepted = {} /\ NewPeer.versionSent = FALSE
      /\ NewPeer.receiving = 0
  BY DEF NewPeer
<1>4. Informed(NewPeer, peer[Other(e)].hasVersion)
  BY <1>2, <1>3 DEF Informed, VERSION, VERACK
<1>5. ~AckComing(e)
  <2>1. Len(wire[e]) = 0
    BY <1>1
  <2> QED
    BY <2>1 DEF AckComing
<1> QED
  BY <1>1, <1>4, <1>5

\* and every step keeps who knows what.
LEMMA HandshakeInvNext == IndInv /\ HandshakeInv /\ [Next]_vars => HandshakeInv'
<1> SUFFICES ASSUME IndInv, HandshakeInv, [Next]_vars PROVE HandshakeInv'
  OBVIOUS
<1>1. CASE Connected
  BY <1>1, ConnectedTells, TellsKeeps DEF Ends
<1>2. CASE Accepted
  BY <1>2, AcceptedTells, TellsKeeps DEF Ends
<1>3. ASSUME NEW e \in Ends,
             \/ Read(e) \/ Write(e)
             \/ SendPing(e) \/ RequestAddresses(e) \/ RelayAddress(e)
             \/ EndsConnection(e)
      PROVE  HandshakeInv'
  BY <1>3, ReadTells, WriteTells, SendTells, EndedTells, TellsKeeps
<1>4. CASE UNCHANGED vars
  BY <1>4 DEF vars, HandshakeInv, AckComing
<1> QED
  BY <1>1, <1>2, <1>3, <1>4 DEF Next, EndsConnection

\* An end that allows the messages of a finished handshake has the other end's
\* version message and the other has its own, for every size of the queues and
\* whatever else is sent, relayed or lost: neither end's handlers then read a
\* NULL version (processMessageForAutoHandshake).
THEOREM HandshakeAgrees == Spec => []Agreement
<1>1. IndInv /\ HandshakeInv => Agreement
  <2> SUFFICES ASSUME HandshakeInv, NEW e \in Ends, PING \in peer[e].accepted
               PROVE  \A f \in Ends : peer[f].hasVersion
    BY DEF Agreement
  <2>1. peer[e].hasVersion /\ peer[Other(e)].hasVersion
    BY DEF HandshakeInv, Informed
  <2> QED
    BY <2>1, TwoEnds
<1> QED
  BY <1>1, HandshakeInvInit, HandshakeInvNext, IndInvHolds, PTL DEF Spec
==============================================================================
