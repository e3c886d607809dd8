---------------------------- MODULE EventRegistry ----------------------------
(***************************************************************************)
(* What socketAddEvent and socketRemoveEvent promise                       *)
(* (Object/LibevSockets/LibevSockets.h: "Add an event to the eventloop     *)
(* loop", "removes an EventList form the eventloop"), as far as the code   *)
(* keeps it: the registered events are a set to which a call adds and from *)
(* which a call removes one event, whatever the threads that call.         *)
(* Adding an event again changes nothing, and one removal need not undo    *)
(* two additions.  A removal can end the promise, and with it what this    *)
(* module says.                                                            *)
(***************************************************************************)
CONSTANT Events

VARIABLES
  registered,  \* the events of the loop
  sound        \* no removal broke a list

Init == registered = {} /\ sound = TRUE

Register(e) ==
  /\ e \notin registered
  /\ registered' = registered \cup {e}
  /\ UNCHANGED sound

Unregister(e) ==
  /\ e \in registered
  /\ registered' = registered \ {e}
  /\ UNCHANGED sound

\* A removal that breaks a list.
Break(e) ==
  /\ e \in registered
  /\ sound' = FALSE

Next == \E e \in Events : Register(e) \/ Unregister(e) \/ Break(e)

Spec == Init /\ [][sound => Next]_<<registered, sound>>
==============================================================================
