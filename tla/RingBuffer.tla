------------------------------ MODULE RingBuffer ------------------------------
(***************************************************************************)
(* The send queue of a Peer (Object/Network/Peer.h): an array of `max'     *)
(* slots, SEND_QUEUE_MAX_SIZE in the code, of which `size' slots starting  *)
(* at `front' hold the messages not yet sent.                              *)
(***************************************************************************)
EXTENDS Integers, Sequences

\* Mutant: the slot after the last message without the front.
PutAtSize(buf, front, size, max, m) == [buf EXCEPT ![size % max] = m]

\* The array after sendMessageToPeer stored m behind the last message.
Put(buf, front, size, max, m) == [buf EXCEPT ![(front + size) % max] = m]

\* Mutant: the front runs past the end of the array.
NextFrontUnwrapped(front, max) == front + 1

\* sendQueueFront after the write handler sent a message and others remain.
NextFront(front, max) == IF front + 1 = max THEN 0 ELSE front + 1

\* The messages in the order in which they will be sent.
Contents(buf, front, size, max) == [i \in 1..size |-> buf[(front + i - 1) % max]]
==============================================================================
