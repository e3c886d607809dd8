------------------------------ MODULE PeerArray ------------------------------
(***************************************************************************)
(* The array of connected peers of an AddressManager                       *)
(* (Object/Network/AddressManager.c): a malloc'ed array `arr' of which the *)
(* first `n' (peersNum) slots are in use.  Removal shifts the used slots   *)
(* down with memmove and leaves the last one as it was, so the slots past  *)
(* `n' hold stale pointers until the next insertion reallocates the array. *)
(* `off' maps a peer to its clock offset (timeOffset).                     *)
(***************************************************************************)
EXTENDS Integers, Sequences, FiniteSets

\* Where addPeerToAddressManager puts a peer with offset t: after the leading
\* slots without a later offset.
InsertPos(arr, n, off, t) ==
  Cardinality({i \in 1..n : \A j \in 1..i : off[arr[j]] <= t}) + 1

\* The array after the insertion: realloc to n + 1 slots, then one memmove.
Inserted(arr, n, off, p, t) ==
  LET pos == InsertPos(arr, n, off, t)
  IN  [i \in 1..(n + 1) |-> IF i < pos THEN arr[i]
                            ELSE IF i = pos THEN p ELSE arr[i - 1]]

\* The slot removePeerNodeFromAddressManager finds: its scan has no bound, so
\* it may stop on a stale slot past n.
PosOf(arr, p) ==
  CHOOSE i \in DOMAIN arr : arr[i] = p /\ \A j \in DOMAIN arr : arr[j] = p => i <= j

\* Mutant: the memmove moves one slot too few.
RemovedShort(arr, n, p) ==
  LET pos == PosOf(arr, p)
  IN  [i \in 1..Len(arr) |-> IF pos <= i /\ i < n - 1 THEN arr[i + 1] ELSE arr[i]]

\* The array after the removal: slots pos + 1 .. n move down by one.
Removed(arr, n, p) ==
  LET pos == PosOf(arr, p)
  IN  [i \in 1..Len(arr) |-> IF pos <= i /\ i < n THEN arr[i + 1] ELSE arr[i]]

\* addressManagerAdjustTime takes the lower middle slot for every n: its test
\* for an even number of peers, !peersNum % 2, is 0 whenever there is one.
MiddleOffset(arr, n, off) == off[arr[(n - 1) \div 2 + 1]]

\* The network time the offsets give; past MaxMedian the system clock is kept.
AdjustedTime(arr, n, off, maxMedian) ==
  LET median == MiddleOffset(arr, n, off)
  IN  IF median > maxMedian THEN 0 ELSE median
==============================================================================
