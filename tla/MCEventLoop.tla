----------------------------- MODULE MCEventLoop -----------------------------
(* EventLoop on a small instance: two input events for two sockets, one of   *)
(* which an output event is for as well.                                     *)
EXTENDS EventLoop

CONSTANTS e1, e2, o1, r1

SocketOf == [e \in Events |-> IF e = e2 THEN 2 ELSE 1]
==============================================================================
