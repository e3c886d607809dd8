---------------------------- MODULE AddressStore ----------------------------
(***************************************************************************)
(* The unconnected addresses of Object/Network/AddressManager.c and the    *)
(* loop of tryConnectingToStoredAddresses (NetworkCommunicator.c) that     *)
(* takes them out: buckets ordered by time, the eviction from a full       *)
(* bucket, the selection that goes round the buckets, the locators that    *)
(* point into them while addresses are removed, and who holds each object. *)
(* The connected peers of the same structure are in PeerArray.             *)
(***************************************************************************)
EXTENDS Integers, Sequences, FiniteSets, SequencesExt

CONSTANTS
  BucketCount,   \* 255 in the code
  Keys,          \* the addresses of peers, an ip and a port
  Port,          \* the port of each; keys with one port differ in their ip
  BucketOf,      \* addressManagerGetBucketIndex: secret and group are fixed
  Times,         \* the values of an address's time
  Objs,          \* the memory for address objects, which is finite
  MaxSizes,      \* what the memory of maxAddressesInBucket may hold
  CountMax,      \* the largest number a uint8_t counts to, 255
  MaxNum,        \* bound: the addresses asked for at once
  MaxRefs        \* bound: the count of the objects when one is given a reference too many

Buckets == 0 .. BucketCount - 1

ASSUME StoreAssumption ==
  /\ BucketCount \in Nat \ {0} /\ BucketOf \in [Keys -> Buckets] /\ Port \in [Keys -> Nat]
  /\ IsFiniteSet(Objs) /\ Times \subseteq Nat /\ MaxSizes \subseteq Nat
  /\ CountMax \in Nat /\ MaxNum \in Nat /\ MaxRefs \in Nat

VARIABLES
  buckets,       \* the addresses of each bucket, oldest first
  out,           \* the addresses the communicator holds: attempts and peers
  refs,          \* the reference count of each object; 0 when it is free
  locs,          \* the locators the connecting loop has still to try
  start,         \* the bucket their selection began at, 0 when there are none
  maxAddresses,  \* maxAddressesInBucket, which nothing initialises
  undefined      \* the program did something without a defined result, or without end

vars == <<buckets, out, refs, locs, start, maxAddresses, undefined>>

\* An address object; lost when its ip was released once too often.
Address == [obj : Objs, key : Keys, time : Times, lost : BOOLEAN]
Locator == [obj : Objs, bucket : Buckets, at : 1 .. Cardinality(Objs)]

TypeOK ==
  /\ buckets \in [Buckets -> Seq(Address)] /\ out \subseteq Address
  /\ refs \in [Objs -> Nat] /\ locs \in Seq(Locator) /\ start \in Buckets
  /\ maxAddresses \in MaxSizes /\ undefined \in BOOLEAN

Init ==
  /\ buckets = [b \in Buckets |-> <<>>] /\ out = {}
  /\ refs = [o \in Objs |-> 0] /\ locs = <<>> /\ start = 0
  /\ maxAddresses \in MaxSizes /\ undefined = FALSE

-----------------------------------------------------------------------------
\* The result of the program from here on is not defined, or it does not go on.
Undefined ==
  /\ undefined' = TRUE
  /\ UNCHANGED <<buckets, out, refs, locs, start, maxAddresses>>

\* compareNetworkAddresses: the result of compareByteArrays, 0 when they are
\* equal, is read as a truth value.
Matches(j, k) == j # k /\ Port[j] = Port[k]

\* getNetworkAddressFromAddressManager: the first address of the bucket that
\* matches k, 0 for none; comparing an ip that was freed has no defined result.
LookUp(k) == SelectInSeq(buckets[BucketOf[k]], LAMBDA e : e.lost \/ Matches(e.key, k))
Misread(k) == LookUp(k) # 0 /\ buckets[BucketOf[k]][LookUp(k)].lost

\* Where an address of time t goes: before the first later one.
Place(s, t) ==
  LET later == SelectInSeq(s, LAMBDA e : e.time > t)
  IN IF later = 0 THEN Len(s) + 1 ELSE later

\* Mutant: the place is not moved down with the addresses above the evicted one.
ReplacedAbove(s, gone, e) ==
  LET at == Place(s, e.time)
  IN InsertAt(RemoveAt(s, gone), IF at > Len(s) THEN at - 1 ELSE at, e)

\* A full bucket whose address at `gone' makes room for e.
Replaced(s, gone, e) ==
  LET at == Place(s, e.time)
  IN InsertAt(RemoveAt(s, gone), IF at > gone THEN at - 1 ELSE at, e)

\* addNetworkAddressToAddressManager for e, whose object's count becomes n: a
\* full bucket evicts the address at the square of a random index over the size.
Insert(e, n) ==
  LET b == BucketOf[e.key]
      s == buckets[b]
  IN IF Len(s) = maxAddresses
       THEN \E r \in 0 .. Len(s) - 1 :
              LET gone == (r * r) \div Len(s) + 1
              IN /\ buckets' = [buckets EXCEPT ![b] = Replaced(s, gone, e)]
                 /\ refs' = [refs EXCEPT ![e.obj] = n, ![s[gone].obj] = @ - 1]
       ELSE /\ buckets' = [buckets EXCEPT ![b] = InsertAt(s, Place(s, e.time), e)]
            /\ refs' = [refs EXCEPT ![e.obj] = n]

\* A full bucket of size 0: the random index is taken modulo zero.
NoRoom(k) == maxAddresses = 0 /\ buckets[BucketOf[k]] = <<>>

\* A peer sends an address: one that is not stored is copied and added.
Receive(k, t) ==
  /\ locs = <<>> /\ ~undefined
  /\ IF Misread(k) \/ (LookUp(k) = 0 /\ NoRoom(k))
       THEN Undefined
       ELSE /\ LookUp(k) = 0
            /\ \E o \in Objs : refs[o] = 0 /\ Insert([obj |-> o, key |-> k, time |-> t, lost |-> FALSE], 1)
            /\ UNCHANGED <<out, locs, start, maxAddresses, undefined>>

\* An address comes back from the communicator as e, `extra' references up.
Return(from, e, extra) ==
  /\ locs = <<>> /\ ~undefined /\ from \in out
  /\ IF NoRoom(e.key)
       THEN Undefined
       ELSE /\ extra = 1 => \A o \in Objs : refs[o] < MaxRefs
            /\ Insert(e, refs[e.obj] + extra)
            /\ out' = out \ {from}
            /\ UNCHANGED <<locs, start, maxAddresses, undefined>>

\* onPeerConnectCallback fails on a public address: it is added with a
\* reference and the one of the attempt is kept.
AttemptFails(e) == Return(e, e, 1)

\* removePeerNodeFromAddressManager: the peer's reference becomes the slot's.
\* After a version message the peer has the address and the ip of that message.
PeerEnds(e) ==
  \/ Return(e, e, 0)
  \/ \E k \in Keys : Return(e, [e EXCEPT !.key = k, !.lost = FALSE], 0)

\* The communicator lets an attempt go.
Release(e) ==
  /\ locs = <<>> /\ ~undefined /\ e \in out
  /\ out' = out \ {e}
  /\ refs' = [refs EXCEPT ![e.obj] = @ - 1]
  /\ UNCHANGED <<buckets, locs, start, maxAddresses, undefined>>

\* removeNetworkAddressFromAddressManager: the object is not released; what is
\* released is the ip of the address that has moved to its place.
RemoveAddress(k) ==
  /\ locs = <<>> /\ ~undefined
  /\ LET b == BucketOf[k]
         at == LookUp(k)
         rest == RemoveAt(buckets[b], at)
     IN IF Misread(k)
          THEN Undefined
          ELSE /\ at # 0
               /\ buckets' = [buckets EXCEPT ![b] =
                    IF at <= Len(rest) THEN [rest EXCEPT ![at].lost = TRUE] ELSE rest]
               /\ UNCHANGED <<out, refs, locs, start, maxAddresses, undefined>>

-----------------------------------------------------------------------------
(* The loop of getAddressesfromAddressManager, turn by turn: the variables it *)
(* has are the bucket it looks at next, the depth below the newest address,   *)
(* the first bucket that had nothing left, or -1, and the locators found.     *)

\* The bucket that is looked at: BucketCount goes back to 0.
BucketAt(sel) == IF sel.at = BucketCount THEN 0 ELSE sel.at
\* Enough are found, or no bucket since firstEmpty had an address left.
Over(sel, num) == Len(sel.found) = num \/ BucketAt(sel) = sel.firstEmpty
Deep(sel) == Len(buckets[BucketAt(sel)]) > sel.index
Found(sel) ==
  LET b == BucketAt(sel)
      at == Len(buckets[b]) - sel.index
  IN Append(sel.found, [obj |-> buckets[b][at].obj, bucket |-> b, at |-> at])

\* Mutant: firstEmpty is kept when a later bucket still has an address.
TurnOnce(sel, num, first) ==
  IF Over(sel, num) THEN sel
  ELSE [at         |-> BucketAt(sel) + 1,
        index      |-> IF BucketAt(sel) + 1 = first THEN sel.index + 1 ELSE sel.index,
        firstEmpty |-> IF sel.firstEmpty = -1 /\ ~Deep(sel) THEN BucketAt(sel) ELSE sel.firstEmpty,
        found      |-> IF Deep(sel) THEN Found(sel) ELSE sel.found]

\* One turn.  The depth grows where the round began, which is not seen when it
\* began at bucket 0.
Turn(sel, num, first) ==
  IF Over(sel, num) THEN sel
  ELSE [at         |-> BucketAt(sel) + 1,
        index      |-> IF BucketAt(sel) + 1 = first THEN sel.index + 1 ELSE sel.index,
        firstEmpty |-> IF Deep(sel) THEN -1
                       ELSE IF sel.firstEmpty = -1 THEN BucketAt(sel) ELSE sel.firstEmpty,
        found      |-> IF Deep(sel) THEN Found(sel) ELSE sel.found]

\* getAddressesfromAddressManager: between two addresses, and after the last,
\* the loop turns at most once for each bucket.
TurnsFor(num) == (num + 1) * (BucketCount + 1)
Addresses(num, first) ==
  LET turn[i \in 0 .. TurnsFor(num)] ==
        IF i = 0 THEN [at |-> first, index |-> 0, firstEmpty |-> -1, found |-> <<>>]
        ELSE Turn(turn[i - 1], num, first)
  IN turn[TurnsFor(num)].found

\* numOfStoredAddresses, without the peers.
Total ==
  LET total[b \in 0 .. BucketCount] == IF b = 0 THEN 0 ELSE total[b - 1] + Len(buckets[b - 1])
  IN total[BucketCount]

\* What the loop is asked for: a count that starts again from 0 never reaches a
\* number above CountMax, so it goes on until there are no more.
Asked(num) == IF num <= CountMax THEN num ELSE Cardinality(Objs) + 1

\* The locators that are left: those after CountMax + 1 take the places of the
\* first again, and the end is marked where the count stands.
Listed(got) == SubSeq(got, Len(got) - (Len(got) % (CountMax + 1)) + 1, Len(got))

\* tryConnectingToStoredAddresses takes its locators, each with a reference.  The
\* loop does not end when it began at bucket 0 and is asked for more than it counts.
Begin(num, first) ==
  /\ locs = <<>> /\ ~undefined
  /\ IF num > CountMax /\ first = 0 /\ (\E b \in Buckets : buckets[b] # <<>>)
       THEN Undefined
       ELSE LET got == Addresses(Asked(num), first)
            IN /\ num > CountMax => \A o \in Objs : refs[o] < MaxRefs
               /\ locs' = Listed(got)
               /\ start' = IF locs' = <<>> THEN 0 ELSE first
               /\ refs' = [o \in Objs |-> refs[o] + Cardinality({i \in DOMAIN got : got[i].obj = o})]
               /\ UNCHANGED <<buckets, out, maxAddresses, undefined>>

\* The next of them is tried.  Kept after a failure, its slot is set to the
\* object that was reallocated; otherwise the slot is removed with its
\* reference, and a connection that began has one of its own.
Try(outcome) ==
  /\ locs # <<>> /\ ~undefined
  /\ LET l == Head(locs)
         s == buckets[l.bucket]
     IN IF l.at > Len(s) \/ (l.at <= Len(s) /\ s[l.at].obj # l.obj)
          THEN Undefined
          ELSE /\ buckets' = IF outcome = "kept" THEN buckets
                             ELSE [buckets EXCEPT ![l.bucket] = RemoveAt(s, l.at)]
               /\ out' = IF outcome = "connecting" THEN out \union {s[l.at]} ELSE out
               /\ refs' = [refs EXCEPT ![l.obj] = IF outcome = "dropped" THEN @ - 2 ELSE @ - 1]
               /\ locs' = Tail(locs) /\ start' = IF Len(locs) = 1 THEN 0 ELSE start
               /\ UNCHANGED <<maxAddresses, undefined>>

\* The store is serialised, destroyed and read back in another run of the
\* program: the buckets and the secret return, peers do not, and the largest
\* size of a bucket is whatever the new memory holds.
Reload ==
  /\ locs = <<>> /\ ~undefined
  /\ LET stored == UNION {ToSet(buckets[b]) : b \in Buckets}
     IN IF \E e \in stored : e.lost
          THEN Undefined
          ELSE /\ refs' = [o \in Objs |-> IF \E e \in stored : e.obj = o THEN 1 ELSE 0]
               /\ maxAddresses' \in MaxSizes
               /\ out' = {}
               /\ UNCHANGED <<buckets, locs, start, undefined>>

Next ==
  \/ \E k \in Keys, t \in Times : Receive(k, t)
  \/ \E e \in out : AttemptFails(e) \/ PeerEnds(e) \/ Release(e)
  \/ \E k \in Keys : RemoveAddress(k)
  \/ \E num \in 1 .. MaxNum, first \in Buckets : Begin(num, first)
  \/ \E outcome \in {"kept", "dropped", "connecting"} : Try(outcome)
  \/ Reload

Spec == Init /\ [][Next]_vars

-----------------------------------------------------------------------------
\* The slots and the locators still to be tried that name o.
Slots(o) == {p \in Buckets \X (1 .. Cardinality(Objs)) :
               p[2] <= Len(buckets[p[1]]) /\ buckets[p[1]][p[2]].obj = o}
Held(o) == {i \in 1 .. Len(locs) : locs[i].obj = o}

\* Every bucket is ordered by time after any number of evictions, and every
\* address is in the bucket it will be looked for in.
Ordered ==
  \A b \in Buckets : \A i \in 1 .. Len(buckets[b]) :
    /\ BucketOf[buckets[b][i].key] = b
    /\ \A j \in i .. Len(buckets[b]) : buckets[b][i].time <= buckets[b][j].time
\* Nothing that a slot, a locator or the communicator points to is released,
\* and no two slots point to one object.
Counted ==
  \A o \in Objs :
    /\ Cardinality(Slots(o)) <= 1
    /\ Cardinality({e \in out : e.obj = o}) + Cardinality(Slots(o)) + Cardinality(Held(o)) <= refs[o]
\* While the loop removes addresses from the buckets, the locators it has not
\* used yet still point at theirs.
Pointing ==
  start # 0 => \A i \in 1 .. Len(locs) :
    locs[i].at <= Len(buckets[locs[i].bucket]) /\ buckets[locs[i].bucket][locs[i].at].obj = locs[i].obj

\* AddressManager.c:317-343, 446-485 and NetworkCommunicator.c:1760-1813: the
\* store stays ordered, holds what it points to, and the locators of a
\* selection that does not start at bucket 0 survive the removals of the loop.
StoreSound == TypeOK /\ Ordered /\ Counted /\ Pointing

\* AddressManager.c:181-222: a selection of no more than CountMax addresses has
\* as many as were asked for or as there are, none twice; it takes the newest of
\* each bucket, and no bucket gives two more than another that has some left.
\* One that starts at bucket 0 repeats the newest of each bucket instead.
Selection ==
  \A num \in 1 .. MaxNum, first \in Buckets : num <= CountMax =>
    LET got == Addresses(num, first)
        of(b) == {got[i].at : i \in {j \in 1 .. Len(got) : got[j].bucket = b}}
        top(b, n) == Len(buckets[b]) - n + 1 .. Len(buckets[b])
    IN IF first # 0
         THEN /\ Len(got) = IF num < Total THEN num ELSE Total
              /\ \A i, j \in 1 .. Len(got) : got[i].obj = got[j].obj => i = j
              /\ \A b, c \in Buckets :
                   /\ of(b) = top(b, Cardinality(of(b)))
                   /\ Cardinality(of(c)) < Len(buckets[c])
                        => Cardinality(of(b)) <= Cardinality(of(c)) + 1
         ELSE /\ Len(got) = IF Total = 0 THEN 0 ELSE num
              /\ \A b \in Buckets : of(b) \subseteq top(b, 1)
=============================================================================
