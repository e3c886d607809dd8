------------------------------- MODULE Session -------------------------------
(***************************************************************************)
(* One connection between two NetworkCommunicators with every automatic    *)
(* flag set: the messages of the handshake, of address discovery and of    *)
(* the pings, through the send queues, the accepted types, the expected    *)
(* responses and the timeouts of the Peer object that each end keeps for   *)
(* the other (Object/Network/NetworkCommunicator.c, Peer.h).               *)
(*                                                                         *)
(* Handlers are functions from a Peer to a Peer: a handler may send        *)
(* several messages, and each may end the connection.  Bytes are not       *)
(* counted: a socket call transfers a whole header or a whole payload.     *)
(* Of the event loop, which EventLoop models, it is taken that it calls    *)
(* back every registered event whose socket is ready, as the documentation *)
(* of the interface demands and LibevSockets does not do.                  *)
(* Where the code goes on with a peer it has released, after it refused a  *)
(* header, or with a message it has released, after it had sent the last   *)
(* one, nothing is said of what it does: the connection has ended.         *)
(***************************************************************************)
EXTENDS RingBuffer, FiniteSets

CONSTANTS
  QueueMax,        \* SEND_QUEUE_MAX_SIZE
  OldVersions,     \* one of the ends is older than PONG_VERSION
  Sharing,         \* ends that listen and so broadcast their own address
  Knowing,         \* ends that have an address to answer a getaddr with
  PingsMax,        \* rounds of the ping timer at each end
  RequestsMax,     \* getaddr messages the application of an end sends
  RelaysMax,       \* addr messages of other peers that an end relays
  RelayEarly,      \* whether one is relayed before the end of the handshake
  SocketsFail,     \* whether a socket call may fail
  RemovesAll       \* whether removing an event undoes all its additions

ASSUME QueueMaxAssumption == QueueMax \in Nat \ {0}

VARIABLES
  peer,      \* the Peer each end has for the other
  wire,      \* headers and payloads on their way to each end
  pings,     \* rounds of the ping timer so far
  requests,  \* requests of the application so far
  relays     \* relayed messages so far

vars == <<peer, wire, pings, requests, relays>>

Ends == {"client", "server"}
Other(e) == CHOOSE f \in Ends : f # e

\* Message types keep their numbers: the list of expected responses is moved
\* byte by byte.
VERSION == 1
VERACK  == 2
ADDR    == 4
INV     == 8
GETADDR == 1024
PING    == 2048
PONG    == 4096
ALERT   == 8192
Types   == {VERSION, VERACK, ADDR, INV, GETADDR, PING, PONG, ALERT}

\* Messages without bytes are a header only.  A ping has a payload of eight
\* bytes whatever the versions: its case in sendMessageToPeer has no break.
HasPayload(t) == t \notin {VERACK, GETADDR}

Messages == [type : Types, expect : {0, VERACK, ADDR, PONG}]
NoMessage == [type |-> VERSION, expect |-> 0]

MaxExpected == 3   \* MAX_RESPONSES_EXPECTED

\* createNewPeerFromNetworkAddress
NewPeer ==
  [conn        |-> "none",    \* whether the connection is up
   reading     |-> FALSE,     \* receiveEvent is registered
   writing     |-> 0,         \* how often sendEvent is registered
   timeout     |-> "none",    \* the timeout receiveEvent was registered with
   accepted    |-> {},        \* acceptedTypes
   versionSent |-> FALSE,
   hasVersion  |-> FALSE,     \* versionMessage is not NULL
   expected    |-> [i \in 0..(MaxExpected - 1) |-> 0],   \* typesExpected
   expectedNum |-> 0,         \* typesExpectedNum
   queue       |-> [i \in 0..(QueueMax - 1) |-> NoMessage],
   front       |-> 0,         \* sendQueueFront
   size        |-> 0,         \* sendQueueSize
   sentHeader  |-> FALSE,
   receiving   |-> 0,         \* type of the message whose payload is awaited
   broadcast   |-> FALSE,     \* timeBroadcast is of the last 24 hours
   ended       |-> "no"]      \* why the connection ended

Up(p) == p.conn = "up"

Init ==
  /\ peer = [e \in Ends |-> NewPeer]
  /\ wire = [e \in Ends |-> <<>>]
  /\ pings = [e \in Ends |-> 0]
  /\ requests = [e \in Ends |-> 0]
  /\ relays = [e \in Ends |-> 0]

------------------------------------------------------------------------------
(* Sending.                                                                 *)

\* disconnectPeer, what it means for this connection.
Disconnect(p, why) ==
  [p EXCEPT !.conn = "down", !.ended = why, !.reading = FALSE, !.writing = 0,
            !.timeout = "none", !.size = 0, !.sentHeader = FALSE, !.receiving = 0]

CanSend(p) == p.size < QueueMax

\* sendMessageToPeer for a caller that ignores its result.  The send event is added
\* for the first message of the queue, also where it was added before.
Send(p, t, expect) ==
  IF CanSend(p)
  THEN [p EXCEPT !.queue = Put(p.queue, p.front, p.size, QueueMax,
                               [type |-> t, expect |-> expect]),
                 !.size = @ + 1,
                 !.writing = IF p.size = 0 THEN @ + 1 ELSE @]
  ELSE p

\* ... and for a handler that disconnects the peer when it fails.
SendOrDrop(p, t, expect) ==
  IF CanSend(p) THEN Send(p, t, expect) ELSE Disconnect(p, "full")

\* Mutant: the send event stays registered when the queue is empty.
SentStillWriting(p, left) ==
  [p EXCEPT !.sentHeader = FALSE,
            !.size = @ - 1,
            !.front = IF p.size = 1 THEN @ ELSE NextFront(@, QueueMax)]

\* How often the send event can be registered after it was removed: LibevSockets
\* takes one or two of its places off the list, depending on where they are.
Left(p) == IF RemovesAll \/ p.writing < 2 THEN {0} ELSE {0, p.writing - 1}

\* The message at the front leaves the queue, and with the last one the send event
\* is removed.
Sent(p, left) ==
  LET last == p.size = 1
  IN  [p EXCEPT !.sentHeader = FALSE,
                !.size = @ - 1,
                !.front = IF last THEN @ ELSE NextFront(@, QueueMax),
                !.writing = IF last THEN left ELSE @]

\* Mutant: the receive event is not registered for the response.
ExpectUnread(p, response) ==
  [p EXCEPT !.expected[p.expectedNum] = response, !.expectedNum = @ + 1]

\* A response joins the list of expected ones, which has room for it.
Expect(p, response) ==
  [p EXCEPT !.reading = TRUE,
            !.timeout = "response",
            !.expected[p.expectedNum] = response,
            !.expectedNum = @ + 1]

\* The end of onPeerReadyForWritingCallback: the message at the front was sent.
Finish(p, left) ==
  LET response == p.queue[p.front].expect
  IN  IF response = 0 THEN Sent(p, left)
      ELSE IF p.expectedNum = MaxExpected THEN Disconnect(p, "toomany")
      ELSE Expect(Sent(p, left), response)

------------------------------------------------------------------------------
(* Receiving.                                                               *)

\* What onHeaderReceivedCallback lets pass.
Welcome(p, t) == t \in p.accepted /\ ~(t = PING /\ OldVersions)

\* The entry old of typesExpected after memmove moved one or two bytes of the
\* next entry over it, the least significant first; it is never a whole entry.
Overwritten(old, next, bytes) ==
  LET span == IF bytes = 1 THEN 256 ELSE 65536
  IN  old - (old % span) + (next % span)

\* Mutant: the version is waited for after every acknowledgment.
StillExpectedAlways(p, t) == t = VERACK

\* The version is still to come when the acknowledgment arrives.
StillExpected(p, t) == t = VERACK /\ ~p.hasVersion

\* The response t is no longer waited for, except that the version is once the
\* acknowledgment arrived.  memmove is given a number of entries for its bytes.
ExpectedAfter(p, t) ==
  LET found == {i \in 0..(p.expectedNum - 1) : p.expected[i] = t}
      i     == CHOOSE i \in found : \A j \in found : i <= j
      moved == p.expectedNum - 1 - i
  IN  IF found = {} THEN p
      ELSE IF StillExpected(p, t) THEN [p EXCEPT !.expected[i] = VERSION]
      ELSE [p EXCEPT
              !.expectedNum = @ - 1,
              !.expected[i] = IF moved = 0 THEN @
                              ELSE Overwritten(@, p.expected[i + 1], moved)]

\* The end of the handshake in processMessageForAutoHandshake.
EndHandshake(p) ==
  SendOrDrop([p EXCEPT !.accepted = @ \cup {PING, INV, GETADDR, ADDR, ALERT}], GETADDR, 0)

\* Mutant: our version is sent before the acknowledgment of theirs.
VersionReceivedUnordered(p) ==
  LET q == [p EXCEPT !.hasVersion = TRUE, !.accepted = @ \ {VERSION}]
  IN  IF q.versionSent THEN EndHandshake(SendOrDrop(q, VERACK, 0))
      ELSE SendOrDrop(SendOrDrop([q EXCEPT !.accepted = {VERACK}, !.versionSent = TRUE],
                                 VERSION, VERACK),
                      VERACK, 0)

\* The other end's version: acknowledge it, then send ours if it is still due.
VersionReceived(p) ==
  LET acked == SendOrDrop([p EXCEPT !.hasVersion = TRUE, !.accepted = @ \ {VERSION}],
                          VERACK, 0)
  IN  IF ~Up(acked) THEN acked
      ELSE IF p.versionSent THEN EndHandshake(acked)
      ELSE SendOrDrop([acked EXCEPT !.accepted = {VERACK}, !.versionSent = TRUE],
                      VERSION, VERACK)

\* Mutant: the acknowledgment ends the handshake without their version.
AckReceivedEnds(p) == EndHandshake([p EXCEPT !.accepted = @ \ {VERACK}])

\* The other end's acknowledgment of our version.
AckReceived(p) ==
  LET acked == [p EXCEPT !.accepted = @ \ {VERACK}]
  IN  IF acked.hasVersion THEN EndHandshake(acked)
      ELSE [acked EXCEPT !.accepted = @ \cup {VERSION}]

\* processMessageForAutoHandshake
AutoHandshake(p, t) ==
  CASE t = VERSION -> VersionReceived(p)
    [] t = VERACK  -> AckReceived(p)
    [] OTHER       -> p

\* processMessageForAutoDiscovery: answer a getaddr, then broadcast the own
\* address if that is due and the peer is one that accepts addresses.
AutoDiscovery(e, p, t) ==
  LET answered == IF t = GETADDR /\ e \in Knowing THEN Send(p, ADDR, 0) ELSE p
  IN  IF e \in Sharing /\ ~p.broadcast /\ ADDR \in p.accepted
      THEN Send([answered EXCEPT !.broadcast = TRUE], ADDR, 0)
      ELSE answered

\* processMessageForAutoPingPongs
AutoPingPongs(p, t) ==
  CASE t = PING /\ ~OldVersions -> SendOrDrop(p, PONG, 0)
    [] t = PONG /\ OldVersions  -> Disconnect(p, "pong")
    [] t = PONG /\ ~OldVersions -> [p EXCEPT !.accepted = @ \ {PONG}]
    [] OTHER -> p

\* onMessageReceivedCallback: the automatic responses, until one disconnects.
MessageReceived(e, p, t) ==
  LET ready == [p EXCEPT !.receiving = 0,
                         !.timeout = IF p.expectedNum > 0 THEN "response" ELSE "idle"]
      shaken == AutoHandshake(ready, t)
      discovered == IF Up(shaken) THEN AutoDiscovery(e, shaken, t) ELSE shaken
  IN  IF Up(discovered) THEN AutoPingPongs(discovered, t) ELSE discovered

\* onHeaderReceivedCallback.  Receiving the rest has a timeout of its own.
HeaderReceived(e, p, t) ==
  IF ~Welcome(p, t) THEN Disconnect(p, "refused")
  ELSE LET expecting == ExpectedAfter(p, t)
       IN  IF HasPayload(t)
           THEN [expecting EXCEPT !.receiving = t, !.timeout = "receive"]
           ELSE MessageReceived(e, expecting, t)

------------------------------------------------------------------------------
(* The events.                                                              *)

Counters == <<pings, requests, relays>>

\* onPeerConnectCallback at the end that made the connection, which adds the send
\* event before it has anything to send.
Connected ==
  LET p == peer["client"]
  IN  /\ p.conn = "none"
      /\ peer' = [peer EXCEPT !["client"] =
                    Send([p EXCEPT !.conn = "up", !.accepted = {VERACK},
                                   !.versionSent = TRUE, !.writing = @ + 1],
                         VERSION, VERACK)]
      /\ UNCHANGED <<wire, Counters>>

\* acceptIncomingConnection at the other.
Accepted ==
  /\ peer["server"].conn = "none"
  /\ peer' = [peer EXCEPT !["server"] =
                [@ EXCEPT !.conn = "up", !.reading = TRUE, !.timeout = "response",
                          !.accepted = {VERSION}]]
  /\ UNCHANGED <<wire, Counters>>

\* onPeerReadyForReadingCallback
Read(e) ==
  /\ peer[e].reading
  /\ wire[e] # <<>>
  /\ wire' = [wire EXCEPT ![e] = Tail(@)]
  /\ peer' = [peer EXCEPT ![e] =
                IF @.receiving = 0 THEN HeaderReceived(e, @, Head(wire[e]))
                ELSE MessageReceived(e, @, @.receiving)]
  /\ UNCHANGED Counters

\* onPeerReadyForWritingCallback.  The header is named by its type, the payload
\* by the same type.
Write(e) ==
  LET p == peer[e]
      t == p.queue[p.front].type
  IN  /\ p.writing > 0 /\ p.size > 0
      /\ wire' = [wire EXCEPT ![Other(e)] = Append(@, t)]
      /\ \E left \in Left(p) :
           peer' = [peer EXCEPT ![e] =
                      IF ~p.sentHeader /\ HasPayload(t) THEN [p EXCEPT !.sentHeader = TRUE]
                      ELSE Finish(p, left)]
      /\ UNCHANGED Counters

\* ... called for an event that is still registered with an empty queue, it reads
\* the message that was released last.
WriteReleased(e) ==
  /\ peer[e].writing > 0 /\ peer[e].size = 0
  /\ peer' = [peer EXCEPT ![e] = Disconnect(@, "released")]
  /\ UNCHANGED <<wire, Counters>>

\* pingConnectedPeers.  Heartbeats are further apart than the time a peer has to
\* answer: there is no second ping while a pong is awaited.
SendPing(e) ==
  LET p == peer[e]
  IN  /\ Up(p) /\ PING \in p.accepted /\ PONG \notin p.accepted
      /\ pings[e] < PingsMax
      /\ pings' = [pings EXCEPT ![e] = @ + 1]
      /\ peer' = [peer EXCEPT ![e] =
                    IF OldVersions THEN Send(p, PING, 0)
                    ELSE [Send(p, PING, PONG) EXCEPT !.accepted = @ \cup {PONG}]]
      /\ UNCHANGED <<wire, requests, relays>>

\* The application asks a peer that ended its handshake for addresses, and says
\* that it expects them.
RequestAddresses(e) ==
  /\ Up(peer[e]) /\ ADDR \in peer[e].accepted
  /\ requests[e] < RequestsMax
  /\ requests' = [requests EXCEPT ![e] = @ + 1]
  /\ peer' = [peer EXCEPT ![e] = Send(@, GETADDR, ADDR)]
  /\ UNCHANGED <<wire, pings, relays>>

\* processMessageForAutoDiscovery, for an addr message of another peer of e.
RelayAddress(e) ==
  /\ Up(peer[e]) /\ (RelayEarly \/ ADDR \in peer[e].accepted)
  /\ relays[e] < RelaysMax
  /\ relays' = [relays EXCEPT ![e] = @ + 1]
  /\ peer' = [peer EXCEPT ![e] = Send(@, ADDR, 0)]
  /\ UNCHANGED <<wire, pings, requests>>

\* Nothing is on its way between the ends.
Quiet ==
  \A e \in Ends : Up(peer[e]) /\ wire[e] = <<>> /\ peer[e].size = 0

\* onTimeOutErrorCallback.  Messages and answers are fast compared with
\* responseTimeOut: it passes only when nothing is on its way.
TimesOut(e) ==
  /\ Quiet /\ peer[e].timeout = "response"
  /\ peer' = [peer EXCEPT ![e] = Disconnect(@, "timeout")]
  /\ UNCHANGED <<wire, Counters>>

\* A socket call of a handler returns SOCKET_FAILURE, or
\* SOCKET_CONNECTION_CLOSE when the other end is down and all it sent was read.
SocketFails(e) ==
  /\ SocketsFail /\ Up(peer[e]) /\ (peer[e].reading \/ peer[e].writing > 0)
  /\ peer' = [peer EXCEPT ![e] = Disconnect(@, "lost")]
  /\ UNCHANGED <<wire, Counters>>

OtherEndClosed(e) ==
  /\ peer[Other(e)].conn = "down"
  /\ peer[e].reading /\ wire[e] = <<>>
  /\ peer' = [peer EXCEPT ![e] = Disconnect(@, "closed")]
  /\ UNCHANGED <<wire, Counters>>

Next ==
  \/ Connected
  \/ Accepted
  \/ \E e \in Ends :
       \/ Read(e) \/ Write(e) \/ WriteReleased(e)
       \/ SendPing(e) \/ RequestAddresses(e) \/ RelayAddress(e)
       \/ TimesOut(e) \/ SocketFails(e) \/ OtherEndClosed(e)

Spec == Init /\ [][Next]_vars

------------------------------------------------------------------------------
(* Properties.                                                              *)

Peers ==
  [conn        : {"none", "up", "down"},
   reading     : BOOLEAN,
   writing     : 0..2,
   timeout     : {"none", "response", "receive", "idle"},
   accepted    : SUBSET Types,
   versionSent : BOOLEAN,
   hasVersion  : BOOLEAN,
   expected    : [0..(MaxExpected - 1) -> Nat],
   expectedNum : 0..MaxExpected,
   queue       : [0..(QueueMax - 1) -> Messages],
   front       : 0..(QueueMax - 1),
   size        : 0..QueueMax,
   sentHeader  : BOOLEAN,
   receiving   : Types \cup {0},
   broadcast   : BOOLEAN,
   ended       : {"no", "full", "toomany", "refused", "pong", "timeout", "lost", "closed",
                  "released"}]

\* Every field keeps the type it has in Peer.h; the indices stay in their arrays.
TypeOK ==
  /\ peer \in [Ends -> Peers]
  /\ wire \in [Ends -> Seq(Types)]
  /\ {pings, requests, relays} \subseteq [Ends -> Nat]

\* Two ends that follow the protocol stay connected until the network fails:
\* neither refuses a message of the other, overflows or waits in vain.
HonestStayConnected ==
  \A e \in Ends : peer[e].ended \in {"no", "lost", "closed"}

\* While there is something to send the send event is registered, without which the
\* messages would wait for ever.  With nothing to send it is registered at most once,
\* and only where it was added when the connection was made and a removal need not
\* undo all additions: the write handler would send a message that was released.
WritingWhileQueued ==
  \A e \in Ends :
    LET p      == peer[e]
        needed == IF p.size > 0 THEN 1 ELSE 0
    IN  /\ p.writing \in needed..(needed + 1)
        /\ p.writing > needed => e = "client"
        /\ RemovesAll /\ p.size = 0 => p.writing = 0

\* An end that allows the messages of a finished handshake and the other end
\* have each other's version message, so neither handler reads a NULL version.
Agreement ==
  \A e \in Ends : PING \in peer[e].accepted => \A f \in Ends : peer[f].hasVersion

\* When nothing is on its way, nothing is expected any more: a quiet peer is
\* then given the long timeout and not the one for a response.
QuietMeansIdle ==
  Quiet => \A e \in Ends : peer[e].expectedNum = 0 /\ peer[e].timeout # "response"

\* Each end's ring of slots is a bounded queue, first in first out.
Queue(p) == Contents(p.queue, p.front, p.size, QueueMax)
Queues == INSTANCE MessageQueues WITH
            Max <- QueueMax, queues <- [e \in Ends |-> Queue(peer[e])]
QueuesInOrder == Queues!Spec

\* As long as both ends are connected and the handshake is not over at both, an end
\* has something to write or to read and waits for it: the ends never wait for each
\* other.
NeverStalls ==
  (\A e \in Ends : Up(peer[e])) =>
    \/ \E e \in Ends : peer[e].writing > 0 \/ (peer[e].reading /\ wire[e] # <<>>)
    \/ \A e \in Ends : PING \in peer[e].accepted
==============================================================================
