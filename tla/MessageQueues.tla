---------------------------- MODULE MessageQueues ----------------------------
(***************************************************************************)
(* What the send queues of Peers promise (Peer.h, sendQueue: "Messages to  *)
(* send to this peer"): each end sends its messages in the order in which  *)
(* they were given to it, loses none while it is connected, and holds at   *)
(* most Max of them.                                                       *)
(***************************************************************************)
EXTENDS Naturals, Sequences

CONSTANTS
  Ends,   \* the ends of a connection
  Max     \* SEND_QUEUE_MAX_SIZE

VARIABLE queues   \* the messages each end has yet to send, first to last

Init == queues = [e \in Ends |-> <<>>]

Others(e) == \A f \in Ends \ {e} : queues'[f] = queues[f]

\* A handler gives the end messages to send, behind those it has.
Extend(e) ==
  /\ Len(queues'[e]) \in Len(queues[e])..Max
  /\ SubSeq(queues'[e], 1, Len(queues[e])) = queues[e]
  /\ Others(e)

\* The first message was sent.
Take(e) ==
  /\ queues[e] # <<>>
  /\ queues'[e] = Tail(queues[e])
  /\ Others(e)

\* The end is disconnected.
Drop(e) ==
  /\ queues'[e] = <<>>
  /\ Others(e)

Next == \E e \in Ends : Extend(e) \/ Take(e) \/ Drop(e)

Spec == Init /\ [][Next]_queues
==============================================================================
