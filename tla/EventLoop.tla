------------------------------ MODULE EventLoop ------------------------------
(***************************************************************************)
(* The event loop (Object/LibevSockets/LibevSockets.c): two linked lists   *)
(* of events, each behind a mutex, the thread that waits in select and     *)
(* calls back, and the calls that add, remove and free events from that    *)
(* thread's callbacks and from the application's thread.                   *)
(*                                                                         *)
(* The lists are cells with next pointers, because they are walked without *)
(* the mutex.  A call is three steps: it is made, it got the mutex and     *)
(* walked the list, it changed the list and returns.  No timer exists:     *)
(* startTimer, endTimer and the timeout callbacks have empty bodies.       *)
(***************************************************************************)
EXTENDS Naturals, FiniteSets

CONSTANTS
  Events,      \* _IOEvent objects
  Receivers,   \* those made by socketCanReceiveEvent
  Outputs,     \* those made by socketCanSendEvent, whose mode is OUTPUT
  Socket,      \* the socket each event is for
  Cells,       \* memory for elements of the lists
  NULL,        \* the null pointer
  CallsMax     \* calls that each thread makes

ASSUME EventLoopAssumption ==
  /\ Receivers \subseteq Events /\ Outputs \subseteq Events
  /\ Socket \in [Events -> Nat]
  /\ NULL \notin Cells /\ NULL \notin Events
  /\ IsFiniteSet(Cells)
  /\ CallsMax \in Nat

VARIABLES
  events,    \* events that exist: malloc'ed, not freed
  known,     \* events whose address the caller of their constructor got
  head,      \* iEvents and oEvents
  next,      \* next of each cell
  of,        \* ioEventID of each cell
  cells,     \* cells that were malloc'ed and not freed
  broken,    \* history: the lists that a removal left with freed memory on them
  mutex,     \* the thread that holds iEv_mutex, oEv_mutex, cond_mutex
  call,      \* the call each thread is in
  calls,     \* calls each thread has made
  term,      \* term_cond
  pc,        \* where the network thread is
  active,    \* active_read_set and active_write_set
  ready,     \* read_set and write_set after select
  set,       \* which of the two handle_connection works on
  from,      \* the list that handle_connection got when it began
  crash      \* why what happens from here on is undefined, or "none"

eventVars == <<events, known>>
listVars  == <<head, next, of, cells, broken>>
callVars  == <<call, calls>>
netVars   == <<pc, active, ready, set, from>>
vars == <<eventVars, listVars, mutex, callVars, term, netVars, crash>>

Threads == {"net", "app"}
Modes   == {"in", "out"}
Sockets == {Socket[e] : e \in Events}
Mode(e) == IF e \in Outputs THEN "out" ELSE "in"

NoCall == [op |-> "none", event |-> NULL, walked |-> FALSE, at |-> NULL]

\* The cells that a walk from cell c meets.
Following(c) ==
  LET after[n \in 0..Cardinality(Cells)] ==
        IF n = 0 THEN {c} \ {NULL}
        ELSE after[n - 1] \cup ({next[d] : d \in after[n - 1]} \ {NULL})
  IN  after[Cardinality(Cells)]

List(m) == Following(head[m])
Listed(m) == {of[c] : c \in List(m)}
Registered == Listed("in") \cup Listed("out")

\* newEventLoop
Init ==
  /\ events = {} /\ known = {}
  /\ head = [m \in Modes |-> NULL]
  /\ next = [c \in Cells |-> NULL]
  /\ of = [c \in Cells |-> NULL]
  /\ cells = {} /\ broken = {}
  /\ mutex = [m \in Modes \cup {"cond"} |-> "free"]
  /\ call = [t \in Threads |-> NoCall]
  /\ calls = [t \in Threads |-> 0]
  /\ term = FALSE
  /\ pc = "start"
  /\ active = [m \in Modes |-> {}]
  /\ ready = [m \in Modes |-> {}]
  /\ set = "in"
  /\ from = NULL
  /\ crash = "none"

Crash(why) ==
  /\ crash' = why
  /\ UNCHANGED <<eventVars, listVars, mutex, callVars, term, netVars>>

------------------------------------------------------------------------------
(* Calls on events.                                                         *)

\* socketCanAcceptEvent, socketDidConnectEvent and socketCanSendEvent return
\* the address of the event they made, socketCanReceiveEvent does not set it.
Create(e) ==
  /\ crash = "none" /\ e \notin events
  /\ events' = events \cup {e}
  /\ known' = IF e \in Receivers THEN known ELSE known \cup {e}
  /\ UNCHANGED <<listVars, mutex, callVars, term, netVars, crash>>

\* The application calls at any time, the network thread from a callback.
MayCall(t) ==
  /\ crash = "none"
  /\ call[t] = NoCall /\ calls[t] < CallsMax
  /\ t = "net" => pc = "called"

\* A call is made, with an event that may be on the list already: a connection
\* adds its send event when it begins and whenever its queue was empty.  Callers
\* use no event in two threads at once.
Call(t, op, e) ==
  /\ MayCall(t)
  /\ e \in known
  /\ \A u \in Threads : call[u].event # e
  /\ call' = [call EXCEPT ![t] = [NoCall EXCEPT !.op = op, !.event = e]]
  /\ calls' = [calls EXCEPT ![t] = @ + 1]
  /\ UNCHANGED <<eventVars, listVars, mutex, term, netVars, crash>>

\* A call with an event that the caller never got the address of reads through
\* an address that was never set.
CallUnset(t) ==
  /\ MayCall(t)
  /\ events \ known # {}
  /\ Crash("unset")

\* Mutant: the list is walked without its mutex.
GetMutexNot(t, m) == mutex' = mutex

\* pthread_mutex_lock: a thread that already holds it waits as well.
GetMutex(t, m) ==
  /\ mutex[m] = "free"
  /\ mutex' = [mutex EXCEPT ![m] = t]

Unlock(m) == mutex' = [mutex EXCEPT ![m] = "free"]

\* Mutant: the new cell becomes the list.
AddAfterNone(e) == {}

\* The cells before a cell of the event.
Before(e) == {n \in List(Mode(e)) : next[n] # NULL /\ of[next[n]] = e}

\* Where the walks of the two calls stop: at the last cell, or at the first one
\* before a cell of the event.
AddAfter(e) == {n \in List(Mode(e)) : next[n] = NULL}
RemoveAfter(e) == {n \in Before(e) : Before(e) \subseteq Following(n)}

OrNull(S) == IF S = {} THEN {NULL} ELSE S

\* socketAddEvent and socketRemoveEvent up to the change.
Walk(t) ==
  LET e == call[t].event
  IN  /\ crash = "none" /\ call[t] # NoCall /\ ~call[t].walked
      /\ GetMutex(t, Mode(e))
      /\ \E n \in OrNull(IF call[t].op = "add" THEN AddAfter(e) ELSE RemoveAfter(e)) :
           call' = [call EXCEPT ![t].walked = TRUE, ![t].at = n]
      /\ UNCHANGED <<eventVars, listVars, calls, term, netVars, crash>>

Return(t) == call' = [call EXCEPT ![t] = NoCall]

\* socketAddEvent: a new cell is the first of the list or follows its last.  It
\* is memory that was never used or that was freed.
Add(t) ==
  LET e == call[t].event
      p == call[t].at
      q == CHOOSE c \in Cells : c \notin cells
  IN  /\ crash = "none" /\ call[t].walked /\ call[t].op = "add"
      /\ cells # Cells
      /\ cells' = cells \cup {q}
      /\ of' = [of EXCEPT ![q] = e]
      /\ next' = [c \in Cells |-> IF c = q THEN NULL ELSE IF c = p THEN q ELSE next[c]]
      /\ head' = IF p = NULL THEN [head EXCEPT ![Mode(e)] = q] ELSE head
      /\ Return(t) /\ Unlock(Mode(e))
      /\ UNCHANGED <<broken, eventVars, calls, term, netVars, crash>>

\* The cell after p leaves the list.
Unlink(p) == [next EXCEPT ![p] = next[next[p]]]

\* Mutant: the first cell is searched for but not taken off.
BeheadNot(e) == head

\* The first cell leaves the list without being freed.
Behead(e) ==
  IF of[head[Mode(e)]] = e THEN [head EXCEPT ![Mode(e)] = next[@]] ELSE head

\* socketRemoveEvent up to its return, which keeps the mutex when the list is
\* empty and when a cell that is not the first was removed.  The search goes on
\* behind a first cell that was removed.
Unregister(e, p) ==
  CASE head[Mode(e)] = NULL -> UNCHANGED <<head, next, cells, mutex>>
    [] head[Mode(e)] # NULL /\ p # NULL ->
         head' = Behead(e) /\ next' = Unlink(p) /\ cells' = cells \ {next[p]}
         /\ UNCHANGED mutex
    [] OTHER -> head' = Behead(e) /\ Unlock(Mode(e)) /\ UNCHANGED <<next, cells>>

\* A list breaks when its first two cells are the event's, because the second is
\* freed and stays the first of the list, and when an event is freed that is on
\* the list once more.
Breaks(op, e, p) ==
  LET h == head[Mode(e)]
  IN  /\ h # NULL /\ p # NULL
      /\ \/ p = h /\ of[h] = e
         \/ op = "free" /\ \E c \in List(Mode(e)) \ {h, next[p]} : of[c] = e

\* Mutant: the caller goes on using an event that was freed.
ForgetNot(t) == known

\* Callers do not use an event that was freed.
Forget(t) == IF call[t].op = "free" THEN known \ {call[t].event} ELSE known

\* socketRemoveEvent, and socketFreeEvent, which frees the event whatever that
\* returned.
Remove(t) ==
  LET e == call[t].event
  IN  /\ crash = "none" /\ call[t].walked /\ call[t].op \in {"remove", "free"}
      /\ Unregister(e, call[t].at)
      /\ broken' = IF Breaks(call[t].op, e, call[t].at) THEN broken \cup {Mode(e)} ELSE broken
      /\ events' = IF call[t].op = "free" THEN events \ {e} ELSE events
      /\ known' = Forget(t)
      /\ Return(t)
      /\ UNCHANGED <<of, calls, term, netVars, crash>>

\* exitEventLoop
Exit ==
  /\ crash = "none" /\ call["app"] = NoCall
  /\ ~term /\ mutex["cond"] = "free"
  /\ term' = TRUE
  /\ UNCHANGED <<eventVars, listVars, mutex, callVars, netVars, crash>>

------------------------------------------------------------------------------
(* The network thread.                                                      *)

\* Some of these cells was freed, or its event was.
Released(S) == \E c \in S : c \notin cells \/ of[c] \notin events

\* startEventLoop before its loop: the sockets of the events there are now.
\* Nothing is added to these sets later.
Start ==
  /\ crash = "none" /\ pc = "start"
  /\ IF Released(List("in") \cup List("out")) THEN Crash("released")
     ELSE /\ active' = [m \in Modes |-> {Socket[e] : e \in Listed(m)}]
          /\ pc' = "select"
          /\ UNCHANGED <<eventVars, listVars, mutex, callVars, term, ready, set, from, crash>>

\* select returns sockets that are ready, or none after two seconds, and
\* handle_connection begins with the first of its two sets.
Select ==
  /\ crash = "none" /\ pc = "select"
  /\ \E i \in SUBSET active["in"], o \in SUBSET active["out"] :
       /\ ready' = [m \in Modes |-> IF m = "in" THEN i ELSE o]
       /\ pc' = IF i \cup o = {} THEN "check" ELSE "handle"
  /\ set' = "in" /\ from' = head["in"]
  /\ UNCHANGED <<eventVars, listVars, mutex, callVars, term, active, crash>>

\* select fails, as it does when a socket in its sets was closed.
SelectFails ==
  /\ crash = "none" /\ pc = "select"
  /\ active["in"] \cup active["out"] # {}
  /\ pc' = "ended"
  /\ UNCHANGED <<eventVars, listVars, mutex, callVars, term, active, ready, set, from, crash>>

\* getEventWithSocket: the cells it reads to find socket s.
Searched(s) ==
  {c \in Following(from) :
     \A d \in Following(from) : c \in Following(next[d]) => Socket[of[d]] # s}

\* A socket that was ready is not waited for again.
Served(s) == [active EXCEPT ![set] = @ \ {s}]

\* One round of the loop in handle_connection, up to the call of onEvent.  Both
\* sets are looked up in iEvents, and no mutex is held.
Handle(s) ==
  /\ crash = "none" /\ pc = "handle"
  /\ s \in ready[set] /\ \A r \in ready[set] : s <= r
  /\ IF Released(Searched(s)) THEN Crash("released")
     ELSE /\ ready' = [ready EXCEPT ![set] = @ \ {s}]
          /\ active' = Served(s)
          /\ pc' = IF \E c \in Searched(s) : Socket[of[c]] = s THEN "called" ELSE pc
          /\ UNCHANGED <<eventVars, listVars, mutex, callVars, term, set, from, crash>>

\* A callback returns.
Returned ==
  /\ crash = "none" /\ pc = "called" /\ call["net"] = NoCall
  /\ pc' = "handle"
  /\ UNCHANGED <<eventVars, listVars, mutex, callVars, term, active, ready, set, from, crash>>

\* The first handle_connection is over and the second gets the list, or that is
\* over as well.
Handled ==
  /\ crash = "none" /\ pc = "handle" /\ ready[set] = {}
  /\ IF set = "in" THEN set' = "out" /\ from' = head["in"] /\ UNCHANGED pc
     ELSE pc' = "check" /\ UNCHANGED <<set, from>>
  /\ UNCHANGED <<eventVars, listVars, mutex, callVars, term, active, ready, crash>>

\* Mutant: the thread goes on when it should end.
AfterCheckSelect == "select"

AfterCheck == IF term THEN "ended" ELSE "select"

\* The end of a round: term_cond ends the loop, with cond_mutex held.
Check ==
  /\ crash = "none" /\ pc = "check" /\ mutex["cond"] = "free"
  /\ pc' = AfterCheck
  /\ mutex' = IF term THEN [mutex EXCEPT !["cond"] = "net"] ELSE mutex
  /\ UNCHANGED <<eventVars, listVars, callVars, term, active, ready, set, from, crash>>

Net == Start \/ Select \/ SelectFails \/ (\E s \in Sockets : Handle(s)) \/ Returned
       \/ Handled \/ Check

Next ==
  \/ \E e \in Events : Create(e)
  \/ \E t \in Threads :
       \/ \E op \in {"add", "remove", "free"}, e \in Events : Call(t, op, e)
       \/ CallUnset(t) \/ Walk(t) \/ Add(t) \/ Remove(t)
  \/ Exit
  \/ Start \/ Select \/ SelectFails \/ \E s \in Sockets : Handle(s)
  \/ Returned \/ Handled \/ Check

Spec == Init /\ [][Next]_vars

\* Threads run: the network thread takes its steps, callbacks return, and a call
\* that may go on does.
Fairness ==
  /\ WF_vars(Net)
  /\ \A t \in Threads : WF_vars(Walk(t) \/ Add(t) \/ Remove(t))

FairSpec == Spec /\ Fairness

------------------------------------------------------------------------------
(* Properties.                                                              *)

\* The types of the variables.
TypeOK ==
  /\ events \subseteq Events /\ known \subseteq events
  /\ head \in [Modes -> Cells \cup {NULL}]
  /\ next \in [Cells -> Cells \cup {NULL}]
  /\ of \in [Cells -> Events \cup {NULL}]
  /\ cells \subseteq Cells /\ broken \subseteq Modes
  /\ mutex \in [Modes \cup {"cond"} -> Threads \cup {"free"}]
  /\ call \in [Threads -> [op : {"none", "add", "remove", "free"}, event : Events \cup {NULL},
                           walked : BOOLEAN, at : Cells \cup {NULL}]]
  /\ calls \in [Threads -> 0..CallsMax]
  /\ term \in BOOLEAN
  /\ pc \in {"start", "select", "handle", "called", "check", "ended"}
  /\ active \in [Modes -> SUBSET Sockets] /\ ready \in [Modes -> SUBSET Sockets]
  /\ set \in Modes /\ from \in Cells \cup {NULL}
  /\ crash \in {"none", "unset", "released"}

\* Whatever the threads add, again or for the first time, remove and free, in every
\* order of their steps, each list ends, its cells and their events exist and are of
\* its mode, unless an event that it held twice in front was removed or one that it
\* held twice was freed (socketAddEvent, socketRemoveEvent, socketFreeEvent).
ListsIntact ==
  \A m \in Modes \ broken : \A c \in List(m) :
    /\ c \in cells /\ of[c] \in events
    /\ c \notin Following(next[c])
    /\ Mode(of[c]) = m

\* As long as no list broke, an addition registers one event or changes nothing, a
\* removal takes one out or changes nothing, and nothing else changes what is
\* registered; only a removal of a registered event breaks a list.
Registry == INSTANCE EventRegistry WITH registered <- Registered, sound <- (broken = {})
RegistrySpec == Registry!Spec

\* doc/latex/_dependencies_8h.tex:498 and :558 want the events persistent: one that
\* stays registered, and whose socket is waited for, is still waited for.  The code
\* waits for no socket again that was ready once (FD_CLR in handle_connection).
EventsPersist ==
  [][\A e \in Registered \cap Registered' :
       Socket[e] \in active[Mode(e)] => Socket[e] \in active'[Mode(e)]]_vars

\* After exitEventLoop the thread ends, unless the behaviour became undefined or
\* a callback waits for a list's mutex that a removal left locked.
Blocked ==
  /\ call["net"] # NoCall /\ ~call["net"].walked
  /\ mutex[Mode(call["net"].event)] # "free"
EndsUnlessBlocked == term ~> pc = "ended" \/ crash # "none" \/ Blocked
==============================================================================
