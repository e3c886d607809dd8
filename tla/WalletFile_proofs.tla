------------------------- MODULE WalletFile_proofs -------------------------
(***************************************************************************)
(* What holds of the wallet files for any hosts, amounts, lengths of       *)
(* records and numbers of payments: the types, each payment at most once   *)
(* in each wallet, and no more sent than received.                         *)
(*                                                                         *)
(* Two writers truncate a file and append to it, each at the position it   *)
(* looked up some time ago.  What keeps the sums right is what each of     *)
(* them knows of the records before its position: SumsSound.               *)
(***************************************************************************)
EXTENDS WalletFile, Induction

AddSent(sum, r) == IF r.type = "sent" THEN sum + r.amount ELSE sum
AddReceived(sum, r) == IF r.type = "received" THEN sum + r.amount ELSE sum

Sent == INSTANCE Induction WITH Op <- AddSent
Received == INSTANCE Induction WITH Op <- AddReceived
Floats == INSTANCE Induction WITH Op <- Added

Sums == {"sent", "received"}

First == [id |-> 0, type |-> "received", amount |-> Initial, ends |-> Length[Initial]]

Ordered(s) == \A i, j \in 1 .. Len(s) : i < j => s[i].ends < s[j].ends

\* The number of records that end at a position or before it.
Count(s, position) ==
  CHOOSE n \in 0 .. Len(s) : \A i \in 1 .. Len(s) : s[i].ends <= position <=> i <= n

\* The sum over these records.
SumTo(s, type, position) == Amount(SubSeq(s, 1, Count(s, position)), type)

-----------------------------------------------------------------------------
\* A file starts with the record it had at first, its records lie one behind
\* the other, and each is that of a payment that was begun, the first one or a cut one.
FileSound(h) ==
  LET s == wallet[h].records
  IN /\ s # <<>> /\ s[1] = First /\ Ordered(s)
     /\ \A i \in 1 .. Len(s) :
          /\ s[i].id <= Len(payments)
          /\ s[i].id = 0 => s[i].amount = Initial
          /\ s[i].type = "cut" => s[i].id = 0

Unrecorded(h, id) == \A i \in 1 .. Len(wallet[h].records) : wallet[h].records[i].id # id

\* The command line records a payment of its own that is not in the file.
ClientSound(h) ==
  LET c == client[h]
  IN /\ c.at # "idle" => /\ c.id \in 1 .. Len(payments) /\ payments[c.id].from = h
                         /\ Unrecorded(h, c.id)
     /\ c.at = "connect" => line[c.id] = "none"
     /\ c.at = "write" => c.end >= Length[Initial]

\* The daemon records a payment to its host that has ended and is not in the file,
\* or the empty record of one that failed.
DaemonSound(h) ==
  LET d == daemon[h]
  IN /\ d.at # "accept" => /\ d.id \in 1 .. Len(payments) /\ payments[d.id].to = h
                           /\ line[d.id] # "none"
     /\ d.at \in {"append", "write"} => line[d.id] \in {"ended", "failed"} /\ Unrecorded(h, d.id)
     /\ d.at = "write" => d.end >= Length[Initial]

QueueSound(h) ==
  \A i \in 1 .. Len(queue[h]) :
    /\ queue[h][i] \in 1 .. Len(payments) /\ payments[queue[h][i]].to = h
    /\ line[queue[h][i]] # "none"

PaymentsSound ==
  /\ Len(payments) <= MaxPayments
  /\ \A p \in 1 .. Len(payments) : payments[p].from # payments[p].to
  /\ \A p \in Payments : p > Len(payments) => line[p] = "none"

\* No amount is negative, and all were checked against exact sums.
NonNegative ==
  \A p \in 1 .. Len(payments) : payments[p].amount >= 0 /\ payments[p].exact

\* What is received covers what is sent, also with the payment in progress, and
\* before the position the command line has looked up.
ClientSums(h) ==
  LET s == wallet[h].records
      c == client[h]
  IN /\ Amount(s, "sent") <= Amount(s, "received")
     /\ c.at \in {"connect", "send", "append"} =>
          Amount(s, "sent") + payments[c.id].amount <= Amount(s, "received")
     /\ c.at = "write" =>
          SumTo(s, "sent", c.end) + payments[c.id].amount <= SumTo(s, "received", c.end)

\* All that was received is before the position the daemon has looked up.
DaemonSums(h) ==
  daemon[h].at = "write" =>
    SumTo(wallet[h].records, "received", daemon[h].end) = Amount(wallet[h].records, "received")

SumsSound(h) == ClientSums(h) /\ DaemonSums(h)

HostSound(h) == FileSound(h) /\ ClientSound(h) /\ DaemonSound(h) /\ QueueSound(h)

IInv ==
  /\ TypeOK /\ PaidOnce /\ PaymentsSound
  /\ \A h \in Hosts : HostSound(h)
  /\ NonNegative => \A h \in Hosts : SumsSound(h)
-----------------------------------------------------------------------------
\* The sums are the folds of the instances, whose theorems they have.
LEMMA AmountIsFold ==
  ASSUME NEW s
  PROVE  /\ Amount(s, "sent") = Sent!Fold(0, s)
         /\ Amount(s, "received") = Received!Fold(0, s)
<1>1. Amount(s, "sent") = Sent!Fold(0, s)
  BY DEF Amount, Sent!Fold, AddSent, FoldLeft, MapThenFoldSet,
         Sent!MapThenFoldSet, Max, Sent!Greatest
<1>2. Amount(s, "received") = Received!Fold(0, s)
  BY DEF Amount, Received!Fold, AddReceived, FoldLeft, MapThenFoldSet,
         Received!MapThenFoldSet, Max, Received!Greatest
<1> QED
  BY <1>1, <1>2

\* The amount of a record is an integer.
LEMMA RecordAmount ==
  ASSUME NEW r \in Record
  PROVE  r.amount \in Amounts /\ r.amount \in Int
BY WalletAssumption DEF Record

\* And so is a sum.
LEMMA AmountType ==
  ASSUME NEW s \in Seq(Record), NEW type \in Sums
  PROVE  Amount(s, type) \in Int
<1>1. ASSUME NEW a \in Int, NEW r \in Record
      PROVE  AddSent(a, r) \in Int /\ AddReceived(a, r) \in Int
  BY RecordAmount DEF AddSent, AddReceived
<1>2. Sent!Fold(0, s) \in Int
  BY <1>1, 0 \in Int, Sent!FoldType, Zenon
<1>3. Received!Fold(0, s) \in Int
  BY <1>1, 0 \in Int, Received!FoldType, Zenon
<1> QED
  BY <1>2, <1>3, AmountIsFold DEF Sums

\* A record behind the others adds its amount to the sum of its type.
LEMMA AmountAppend ==
  ASSUME NEW s \in Seq(Record), NEW r \in Record, NEW type \in Sums
  PROVE  Amount(Append(s, r), type)
           = Amount(s, type) + (IF r.type = type THEN r.amount ELSE 0)
<1>1. Sent!Fold(0, Append(s, r)) = AddSent(Sent!Fold(0, s), r)
  BY Sent!FoldAppend
<1>2. Received!Fold(0, Append(s, r)) = AddReceived(Received!Fold(0, s), r)
  BY Received!FoldAppend
<1>3. Amount(s, type) \in Int
  BY AmountType
<1> QED
  BY <1>1, <1>2, <1>3, AmountIsFold DEF Sums, AddSent, AddReceived

\* Nothing sums up to nothing.
LEMMA AmountEmpty ==
  ASSUME NEW type \in Sums
  PROVE  Amount(<<>>, type) = 0
BY Sent!FoldEmpty, Received!FoldEmpty, AmountIsFold DEF Sums

\* Without negative amounts, more records have no smaller sum.
LEMMA AmountMonotone ==
  ASSUME NEW s \in Seq(Record), NEW type \in Sums,
         \A i \in 1 .. Len(s) : s[i].amount >= 0,
         NEW j \in 0 .. Len(s), NEW k \in j .. Len(s)
  PROVE  Amount(SubSeq(s, 1, j), type) <= Amount(SubSeq(s, 1, k), type)
<1> DEFINE T == {n \in Nat : j + n <= Len(s) =>
                   Amount(SubSeq(s, 1, j), type) <= Amount(SubSeq(s, 1, j + n), type)}
<1>1. ASSUME NEW n \in 0 .. Len(s)
      PROVE  SubSeq(s, 1, n) \in Seq(Record) /\ Amount(SubSeq(s, 1, n), type) \in Int
  <2>1. SubSeq(s, 1, n) \in Seq(Record)
    OBVIOUS
  <2> QED
    BY <2>1, AmountType
<1>2. 0 \in T
  BY <1>1
<1>3. ASSUME NEW n \in T PROVE n + 1 \in T
  <2> SUFFICES ASSUME j + n + 1 <= Len(s)
               PROVE  Amount(SubSeq(s, 1, j), type) <= Amount(SubSeq(s, 1, j + n + 1), type)
    OBVIOUS
  <2>0. j + n \in 0 .. Len(s) /\ j + n + 1 \in 1 .. Len(s)
    OBVIOUS
  <2> DEFINE r == s[j + n + 1]
  <2>1. SubSeq(s, 1, j + n + 1) = Append(SubSeq(s, 1, j + n), r)
    OBVIOUS
  <2>2. r \in Record /\ r.amount \in Int /\ r.amount >= 0
    <3>1. s[j + n + 1] \in Record /\ s[j + n + 1].amount >= 0
      BY <2>0
    <3> QED
      BY <3>1, RecordAmount
  <2>3. Amount(SubSeq(s, 1, j + n + 1), type)
          = Amount(SubSeq(s, 1, j + n), type) + (IF r.type = type THEN r.amount ELSE 0)
    <3>1. SubSeq(s, 1, j + n) \in Seq(Record)
      BY <1>1, <2>0
    <3>2. r \in Record
      BY <2>2
    <3> HIDE DEF r
    <3>3. Amount(Append(SubSeq(s, 1, j + n), r), type)
            = Amount(SubSeq(s, 1, j + n), type) + (IF r.type = type THEN r.amount ELSE 0)
      BY <3>1, <3>2, AmountAppend
    <3> QED
      BY <2>1, <3>3 DEF r
  <2>4. Amount(SubSeq(s, 1, j), type) <= Amount(SubSeq(s, 1, j + n), type)
    OBVIOUS
  <2> HIDE DEF r
  <2> QED
    BY <1>1, <2>0, <2>2, <2>3, <2>4
<1>4. T = Nat
  BY <1>2, <1>3, SetInduction
<1>5. k - j \in T /\ j + (k - j) = k
  <2> HIDE DEF T
  <2> QED
    BY <1>4
<1>6. j + (k - j) <= Len(s)
  OBVIOUS
<1> QED
  BY <1>5, <1>6
-----------------------------------------------------------------------------
\* The positions at which records end are numbers.
LEMMA EndsNat ==
  ASSUME NEW s \in Seq(Record)
  PROVE  Len(s) \in Nat /\ \A i \in 1 .. Len(s) : s[i] \in Record /\ s[i].ends \in Nat
<1>1. ASSUME NEW r \in Record PROVE r.ends \in Nat
  BY DEF Record
<1>2. \A i \in 1 .. Len(s) : s[i] \in Record
  OBVIOUS
<1> QED
  BY <1>1, <1>2

\* The records up to a position are the first ones.
LEMMA CountDef ==
  ASSUME NEW s \in Seq(Record), Ordered(s), NEW position \in Nat
  PROVE  /\ Count(s, position) \in 0 .. Len(s)
         /\ \A i \in 1 .. Len(s) : s[i].ends <= position <=> i <= Count(s, position)
<1> DEFINE D == {n \in 0 .. Len(s) : \A i \in 1 .. Len(s) : i > n => ~(s[i].ends <= position)}
<1>0. Len(s) \in Nat /\ \A i \in 1 .. Len(s) : s[i].ends \in Nat
  BY EndsNat
<1>1. Len(s) \in D /\ D \in SUBSET Nat
  BY <1>0
<1>2. PICK m \in D : \A k \in D : m <= k
  <2> HIDE DEF D
  <2> QED
    BY <1>1, LeastNumber
<1>3. ASSUME m >= 1 PROVE s[m].ends <= position
  <2>1. m - 1 \in 0 .. Len(s) /\ ~(m <= m - 1)
    BY <1>0, <1>3
  <2>2. m - 1 \notin D
    BY <1>2, <2>1
  <2>3. PICK i \in 1 .. Len(s) : i > m - 1 /\ s[i].ends <= position
    BY <2>1, <2>2
  <2>4. i = m
    BY <1>0, <2>3
  <2> QED
    BY <2>3, <2>4
<1>4. ASSUME NEW i \in 1 .. Len(s) PROVE s[i].ends <= position <=> i <= m
  <2>1. CASE i > m
    BY <1>0, <2>1
  <2>2. CASE i = m
    BY <1>0, <1>3, <2>2
  <2>3. CASE i < m
    <3>1. m \in 1 .. Len(s) /\ m >= 1
      BY <1>0, <2>3
    <3>2. s[i].ends < s[m].ends
      BY <2>3, <3>1 DEF Ordered
    <3> QED
      BY <1>0, <1>3, <2>3, <3>1, <3>2
  <2> QED
    BY <1>0, <2>1, <2>2, <2>3
<1>5. m \in 0 .. Len(s)
  OBVIOUS
<1> QED
  BY <1>4, <1>5 DEF Count

\* Their number is the only one that separates them from the others.
LEMMA CountIs ==
  ASSUME NEW s \in Seq(Record), Ordered(s), NEW position \in Nat, NEW n \in 0 .. Len(s),
         \A i \in 1 .. Len(s) : s[i].ends <= position <=> i <= n
  PROVE  Count(s, position) = n
<1> DEFINE c == Count(s, position)
<1>1. c \in 0 .. Len(s) /\ \A i \in 1 .. Len(s) : i <= n <=> i <= c
  BY CountDef
<1> HIDE DEF c
<1>2. ~(c < n)
  <2> SUFFICES ASSUME c < n PROVE FALSE
    OBVIOUS
  <2>1. n \in 1 .. Len(s)
    BY <1>1
  <2> QED
    BY <1>1, <2>1
<1>3. ~(n < c)
  <2> SUFFICES ASSUME n < c PROVE FALSE
    OBVIOUS
  <2>1. c \in 1 .. Len(s)
    BY <1>1
  <2> QED
    BY <1>1, <2>1
<1>4. c = n
  BY <1>1, <1>2, <1>3
<1> QED
  BY <1>4 DEF c

\* Up to the end these are all records.
LEMMA CountAtEnd ==
  ASSUME NEW s \in Seq(Record), s # <<>>, Ordered(s), NEW position \in Nat,
         position >= End(s)
  PROVE  Count(s, position) = Len(s) /\ \A type : SumTo(s, type, position) = Amount(s, type)
<1>0. Len(s) \in Nat \ {0} /\ \A i \in 1 .. Len(s) : s[i].ends \in Nat
  BY EndsNat
<1>1. End(s) = s[Len(s)].ends
  BY DEF End, Last
<1>2. ASSUME NEW i \in 1 .. Len(s) PROVE s[i].ends <= position
  <2>1. Len(s) \in 1 .. Len(s)
    BY <1>0
  <2>2. i = Len(s) \/ s[i].ends < s[Len(s)].ends
    BY <1>0, <2>1 DEF Ordered
  <2> QED
    BY <1>0, <1>1, <2>1, <2>2
<1>3. Count(s, position) = Len(s)
  <2>1. Len(s) \in 0 .. Len(s) /\ \A i \in 1 .. Len(s) : s[i].ends <= position <=> i <= Len(s)
    BY <1>0, <1>2
  <2> QED
    BY <2>1, CountIs
<1>4. SubSeq(s, 1, Len(s)) = s
  OBVIOUS
<1> QED
  BY <1>3, <1>4 DEF SumTo

\* The position the code looks for is that of the last of them.
LEMMA MaxIsCount ==
  ASSUME NEW s \in Seq(Record), s # <<>>, Ordered(s), NEW position \in Nat,
         s[1].ends <= position
  PROVE  /\ Count(s, position) \in 1 .. Len(s)
         /\ Max({i \in 1 .. Len(s) : s[i].ends <= position}) = Count(s, position)
<1> DEFINE c == Count(s, position)
<1>1. c \in 0 .. Len(s) /\ \A i \in 1 .. Len(s) : s[i].ends <= position <=> i <= c
  BY CountDef
<1>2. Len(s) \in Nat /\ 1 \in 1 .. Len(s)
  OBVIOUS
<1> HIDE DEF c
<1>3. c \in 1 .. Len(s)
  BY <1>1, <1>2
<1>4. {i \in 1 .. Len(s) : s[i].ends <= position} = 1 .. c
  BY <1>1, <1>3
<1>5. Max(1 .. c) = c
  <2>1. c \in 1 .. c /\ \A y \in 1 .. c : c >= y
    BY <1>3
  <2>2. \A m \in 1 .. c : (\A y \in 1 .. c : m >= y) => m = c
    BY <1>3, <2>1
  <2> QED
    BY <2>1, <2>2 DEF Max
<1> QED
  BY <1>3, <1>4, <1>5 DEF c
-----------------------------------------------------------------------------
\* The records before a position, and what is left of the one it is in.
LEMMA KeptRecords ==
  ASSUME NEW s \in Seq(Record), s # <<>>, Ordered(s), NEW position \in Nat,
         s[1].ends <= position, NEW n, n = Count(s, position), NEW k, k = Kept(s, position)
  PROVE  /\ n \in 1 .. Len(s) /\ k \in Seq(Record) /\ Cut(position) \in Record
         /\ \/ k = SubSeq(s, 1, n) /\ s[n].ends = position
            \/ k = Append(SubSeq(s, 1, n), Cut(position)) /\ s[n].ends < position
<1>1. n \in 1 .. Len(s) /\ Max({i \in 1 .. Len(s) : s[i].ends <= position}) = n
  BY MaxIsCount
<1>2. s[n].ends \in Nat /\ s[n].ends <= position
  <2>1. n \in 0 .. Len(s) /\ \A i \in 1 .. Len(s) : s[i].ends <= position <=> i <= n
    BY CountDef
  <2> QED
    BY <1>1, <2>1, EndsNat
<1>3. Cut(position) \in Record
  BY WalletAssumption DEF Cut, Record
<1>4. SubSeq(s, 1, n) \in Seq(Record)
  BY <1>1
<1>5. k = IF s[n].ends = position THEN SubSeq(s, 1, n)
          ELSE Append(SubSeq(s, 1, n), Cut(position))
  BY <1>1, Zenon DEF Kept, Cut
<1>6. k \in Seq(Record)
  BY <1>3, <1>4, <1>5
<1>7. s[n].ends = position \/ s[n].ends < position
  BY <1>2
<1> QED
  BY <1>1, <1>3, <1>5, <1>6, <1>7

\* The same, record by record.
LEMMA KeptElements ==
  ASSUME NEW s \in Seq(Record), s # <<>>, Ordered(s), NEW position \in Nat,
         s[1].ends <= position, NEW n, n = Count(s, position), NEW k, k = Kept(s, position)
  PROVE  /\ Len(k) \in {n, n + 1} /\ \A i \in 1 .. n : k[i] = s[i]
         /\ \A i \in 1 .. Len(k) : i > n => k[i] = Cut(position)
         /\ \A i \in 1 .. Len(k) : k[i].ends <= position
         /\ \A type \in Sums : Amount(k, type) = SumTo(s, type, position)
<1>1. /\ n \in 1 .. Len(s) /\ k \in Seq(Record) /\ Cut(position) \in Record
      /\ \/ k = SubSeq(s, 1, n) /\ s[n].ends = position
         \/ k = Append(SubSeq(s, 1, n), Cut(position)) /\ s[n].ends < position
  BY KeptRecords
<1>2. /\ SubSeq(s, 1, n) \in Seq(Record) /\ Len(SubSeq(s, 1, n)) = n
      /\ \A i \in 1 .. n : SubSeq(s, 1, n)[i] = s[i]
  BY <1>1
<1>3. /\ Len(k) \in {n, n + 1} /\ \A i \in 1 .. n : k[i] = s[i]
      /\ \A i \in 1 .. Len(k) : i > n => k[i] = Cut(position)
  <2> DEFINE q == SubSeq(s, 1, n)
             c == Cut(position)
  <2>1. q \in Seq(Record) /\ Len(q) = n /\ (\A i \in 1 .. n : q[i] = s[i]) /\ c \in Record
    BY <1>1, <1>2
  <2>2. k = q \/ k = Append(q, c)
    BY <1>1
  <2> HIDE DEF q, c
  <2>3. CASE k = q
    BY <2>1, <2>3
  <2>4. CASE k = Append(q, c)
    <3>1. Len(k) = n + 1 /\ k[n + 1] = c /\ \A i \in 1 .. n : k[i] = q[i]
      BY <2>1, <2>4
    <3> QED
      BY <2>1, <3>1 DEF c
  <2> QED
    BY <2>2, <2>3, <2>4
<1>5. ASSUME NEW i \in 1 .. Len(k) PROVE k[i].ends <= position
  <2>1. CASE i > n
    BY <1>3, <2>1 DEF Cut
  <2>2. CASE ~(i > n)
    <3>1. i \in 1 .. n /\ i \in 1 .. Len(s)
      BY <1>1, <2>2, EndsNat
    <3>2. s[i].ends <= position <=> i <= n
      BY <3>1, CountDef
    <3>3. i <= n
      BY <1>1, <3>1
    <3> QED
      BY <1>3, <3>1, <3>2, <3>3
  <2> QED
    BY <2>1, <2>2
<1>6. ASSUME NEW type \in Sums PROVE Amount(k, type) = SumTo(s, type, position)
  <2>1. SumTo(s, type, position) = Amount(SubSeq(s, 1, n), type)
    BY DEF SumTo
  <2>2. Amount(SubSeq(s, 1, n), type) \in Int
    BY <1>2, AmountType
  <2>3. Cut(position).type # type
    BY DEF Cut, Sums
  <2>4. Amount(Append(SubSeq(s, 1, n), Cut(position)), type) = Amount(SubSeq(s, 1, n), type)
    <3>1. Amount(Append(SubSeq(s, 1, n), Cut(position)), type)
            = Amount(SubSeq(s, 1, n), type)
              + (IF Cut(position).type = type THEN Cut(position).amount ELSE 0)
      BY <1>1, <1>2, AmountAppend
    <3> QED
      BY <2>2, <2>3, <3>1
  <2> QED
    BY <1>1, <2>1, <2>4
<1> QED
  BY <1>3, <1>5, <1>6

\* A position behind the end changes no record; another one leaves the kept
\* records and the new one, and the file stays in order.
LEMMA WrittenRecords ==
  ASSUME NEW w \in [records : Seq(Record), junk : Nat], NEW s, s = w.records, s # <<>>,
         Ordered(s), NEW position \in Nat, s[1].ends <= position,
         NEW new \in Record, new.ends > position, NEW v, v = Written(w, position, new)
  PROVE  /\ v \in [records : Seq(Record), junk : Nat]
         /\ v.records # <<>> /\ v.records[1] = s[1] /\ Ordered(v.records)
         /\ \/ position > End(s) /\ v.records = s
            \/ /\ position <= End(s)
               /\ v.records = Append(Kept(s, position), new)
<1> DEFINE k == Kept(s, position)
           n == Count(s, position)
<1>0. s \in Seq(Record) /\ w.junk \in Nat
  OBVIOUS
<1>1. new.ends \in Nat
  BY DEF Record
<1>3. Len(s) \in Nat \ {0} /\ End(s) \in Nat
  <2>1. End(s) = s[Len(s)].ends /\ Len(s) \in Nat \ {0}
    BY <1>0 DEF End, Last
  <2> QED
    BY <1>0, <2>1, EndsNat
<1>4. CASE position > End(s)
  <2>1. v = [w EXCEPT !.junk = (IF End(s) + w.junk > new.ends
                                THEN End(s) + w.junk ELSE new.ends) - End(s)]
    BY <1>4 DEF Written
  <2>2. (IF End(s) + w.junk > new.ends
         THEN End(s) + w.junk ELSE new.ends) - End(s) \in Nat
    BY <1>0, <1>1, <1>3, <1>4
  <2>3. v \in [records : Seq(Record), junk : Nat] /\ v.records = s
    BY <2>1, <2>2
  <2> QED
    BY <1>4, <2>3
<1>5. CASE ~(position > End(s))
  <2>1. v = [records |-> Append(k, new),
             junk |-> IF End(s) + w.junk > new.ends
                      THEN (End(s) + w.junk) - new.ends ELSE 0]
    <3>1. ~(position > End(w.records))
      BY <1>5
    <3>2. v = [records |-> Append(Kept(w.records, position), new),
               junk |-> IF End(w.records) + w.junk > new.ends
                        THEN (End(w.records) + w.junk) - new.ends ELSE 0]
      BY <3>1 DEF Written
    <3> QED
      BY <3>2, Zenon
  <2>2. /\ \/ k = SubSeq(s, 1, n)
           \/ k = Append(SubSeq(s, 1, n), Cut(position)) /\ s[n].ends < position
        /\ Len(SubSeq(s, 1, n)) = n
        /\ n \in 1 .. Len(s) /\ k \in Seq(Record)
        /\ Len(k) \in {n, n + 1} /\ \A i \in 1 .. n : k[i] = s[i]
        /\ \A i \in 1 .. Len(k) : i > n => k[i] = Cut(position)
        /\ \A i \in 1 .. Len(k) : k[i].ends <= position
    <3>1. n \in 1 .. Len(s)
      BY <1>0, KeptRecords
    <3>2. Len(SubSeq(s, 1, n)) = n
      BY <1>0, <3>1
    <3>3. /\ k \in Seq(Record)
          /\ \/ k = SubSeq(s, 1, n)
             \/ k = Append(SubSeq(s, 1, n), Cut(position)) /\ s[n].ends < position
      BY <1>0, KeptRecords
    <3>4. /\ Len(k) \in {n, n + 1} /\ \A i \in 1 .. n : k[i] = s[i]
          /\ \A i \in 1 .. Len(k) : i > n => k[i] = Cut(position)
          /\ \A i \in 1 .. Len(k) : k[i].ends <= position
      BY <1>0, KeptElements
    <3> HIDE DEF k, n
    <3> QED
      BY <3>1, <3>2, <3>3, <3>4
  <2>3. (IF End(s) + w.junk > new.ends
         THEN (End(s) + w.junk) - new.ends ELSE 0) \in Nat
    BY <1>0, <1>1, <1>3
  <2> HIDE DEF k, n
  <2>4. Append(k, new) \in Seq(Record) /\ v \in [records : Seq(Record), junk : Nat]
        /\ v.records = Append(k, new)
    BY <2>1, <2>2, <2>3
  <2> DEFINE t == Append(k, new)
  <2>5. Len(t) = Len(k) + 1 /\ t[Len(t)] = new /\ \A i \in 1 .. Len(k) : t[i] = k[i]
    BY <2>2
  <2> HIDE DEF t
  <2>6. t # <<>> /\ t[1] = s[1]
    BY <1>3, <2>2, <2>5
  <2>7. position <= End(s)
    BY <1>3, <1>5
  <2>8. ASSUME NEW i \in 1 .. Len(t), NEW j \in 1 .. Len(t), i < j
        PROVE  t[i].ends < t[j].ends
    <3>1. n \in Nat /\ Len(k) \in Nat /\ n <= Len(s) /\ i \in 1 .. Len(k)
          /\ \A m \in 1 .. Len(k) : k[m].ends \in Nat
      BY <2>2, <2>5, <2>8, EndsNat
    <3>2. CASE j = Len(t)
      <4>1. t[j].ends = new.ends
        BY <2>5, <3>2
      <4>2. t[i].ends <= position /\ t[i].ends \in Nat
        BY <2>2, <2>5, <3>1
      <4> QED
        BY <1>1, <4>1, <4>2
    <3>3. CASE j # Len(t)
      <4>1. j \in 1 .. Len(k) /\ t[j] = k[j] /\ t[i] = k[i]
        BY <2>5, <3>1, <3>3
      <4>2. CASE j <= n
        <5>1. i \in 1 .. Len(s) /\ j \in 1 .. Len(s) /\ k[i] = s[i] /\ k[j] = s[j]
          <6>1. /\ \A m \in 1 .. n : k[m] = s[m]
                /\ n \in 1 .. Len(s)
            BY <2>2
          <6>2. i \in 1 .. n /\ j \in 1 .. n
            BY <2>8, <3>1, <4>1, <4>2
          <6>3. i \in 1 .. Len(s) /\ j \in 1 .. Len(s)
            BY <1>3, <3>1, <6>2
          <6> QED
            BY <6>1, <6>2, <6>3
        <5> QED
          BY <2>8, <4>1, <5>1 DEF Ordered
      <4>3. CASE j > n
        <5>1. j = n + 1 /\ i \in 1 .. n /\ Len(k) = n + 1
          BY <2>2, <2>8, <3>1, <4>1, <4>3
        <5>2. k[j].ends = position
          BY <2>2, <4>1, <4>3 DEF Cut
        <5>3. k = Append(SubSeq(s, 1, n), Cut(position)) /\ s[n].ends < position
          <6> SUFFICES ASSUME k = SubSeq(s, 1, n) PROVE FALSE
            BY <2>2
          <6>1. Len(k) = n
            BY <2>2, Zenon
          <6> QED
            BY <3>1, <5>1, <6>1
        <5>4. k[i].ends = s[i].ends /\ s[i].ends \in Nat /\ s[n].ends \in Nat
              /\ i \in 1 .. Len(s)
          <6>1. (\A m \in 1 .. n : k[m] = s[m]) /\ n \in 1 .. Len(s)
            BY <2>2
          <6>2. i \in 1 .. Len(s) /\ k[i] = s[i]
            BY <1>3, <3>1, <5>1, <6>1
          <6>3. \A m \in 1 .. Len(s) : s[m].ends \in Nat
            BY <1>0, EndsNat
          <6> QED
            BY <6>1, <6>2, <6>3
        <5>5. i = n \/ s[i].ends < s[n].ends
          <6>1. i = n \/ i < n
            BY <3>1, <5>1
          <6>2. n \in 1 .. Len(s)
            BY <2>2
          <6>3. \A a, b \in 1 .. Len(s) : a < b => s[a].ends < s[b].ends
            BY DEF Ordered
          <6> QED
            BY <5>4, <6>1, <6>2, <6>3
        <5> QED
          <6>1. s[i].ends < position
            BY <5>3, <5>4, <5>5
          <6> QED
            BY <4>1, <5>2, <5>4, <6>1
      <4> QED
        BY <3>1, <4>1, <4>2, <4>3
    <3> QED
      BY <3>2, <3>3
  <2> QED
    BY <2>4, <2>6, <2>7, <2>8 DEF Ordered, t, k
<1> QED
  BY <1>4, <1>5

\* Each record of the file is one that was there, what is left of one, or the new one.
LEMMA WrittenElements ==
  ASSUME NEW w \in [records : Seq(Record), junk : Nat], NEW s, s = w.records, s # <<>>,
         Ordered(s), NEW position \in Nat, s[1].ends <= position,
         NEW new \in Record, new.ends > position, NEW t, t = Written(w, position, new).records,
         NEW i \in 1 .. Len(t)
  PROVE  \/ i \in 1 .. Len(s) /\ t[i] = s[i]
         \/ t[i] = Cut(position)
         \/ i = Len(t) /\ t[i] = new
<1> DEFINE k == Kept(s, position)
           n == Count(s, position)
<1>0. s \in Seq(Record)
  OBVIOUS
<1>1. (t = s \/ t = Append(k, new))
  BY WrittenRecords
<1>2. n \in 1 .. Len(s) /\ k \in Seq(Record)
  BY <1>0, KeptRecords
<1>3. /\ Len(k) \in {n, n + 1} /\ \A j \in 1 .. n : k[j] = s[j]
      /\ \A j \in 1 .. Len(k) : j > n => k[j] = Cut(position)
  BY <1>0, KeptElements
<1> HIDE DEF k, n
<1>4. CASE t = Append(k, new)
  <2>1. Len(t) = Len(k) + 1 /\ t[Len(t)] = new /\ \A j \in 1 .. Len(k) : t[j] = k[j]
    BY <1>1, <1>2, <1>4
  <2>2. Len(s) \in Nat /\ Len(k) \in Nat
    BY <1>0, <1>2
  <2>3. i = Len(t) \/ i \in 1 .. n \/ (i \in 1 .. Len(k) /\ i > n)
    BY <1>2, <2>1, <2>2
  <2>4. ASSUME i \in 1 .. n PROVE i \in 1 .. Len(s) /\ i \in 1 .. Len(k)
    BY <1>2, <1>3, <2>2, <2>4
  <2> QED
    BY <1>3, <2>1, <2>3, <2>4
<1> QED
  BY <1>1, <1>4

\* Writing replaces the records behind the position in the sums.
LEMMA WrittenSums ==
  ASSUME NEW w \in [records : Seq(Record), junk : Nat], NEW s, s = w.records, s # <<>>,
         Ordered(s), NEW position \in Nat, s[1].ends <= position, position <= End(s),
         NEW new \in Record, new.ends > position, NEW t, t = Written(w, position, new).records,
         NEW other \in Sums
  PROVE  /\ Amount(t, other) = SumTo(s, other, position) + (IF new.type = other THEN new.amount ELSE 0)
         /\ \A q \in Nat : q < position => SumTo(t, other, q) = SumTo(s, other, q)
         /\ \A q \in Nat : q >= position =>
              SumTo(t, other, q) \in {SumTo(s, other, position), Amount(t, other)}
<1> DEFINE k == Kept(s, position)
           n == Count(s, position)
<1>0. s \in Seq(Record) /\ End(s) \in Nat
  <2>1. End(s) = s[Len(s)].ends /\ Len(s) \in 1 .. Len(s)
    BY DEF End, Last
  <2> QED
    BY <2>1, EndsNat
<1>1. t = Append(k, new) /\ t \in Seq(Record) /\ Ordered(t)
  <2>1. ~(position > End(s))
    BY <1>0
  <2>2. t \in Seq(Record) /\ Ordered(t)
    BY WrittenRecords
  <2> QED
    BY <2>1, <2>2, WrittenRecords
<1>2. n \in 1 .. Len(s) /\ k \in Seq(Record)
  BY <1>0, KeptRecords
<1>3. /\ Len(k) \in {n, n + 1} /\ \A j \in 1 .. n : k[j] = s[j]
      /\ \A j \in 1 .. Len(k) : j > n => k[j] = Cut(position)
      /\ \A j \in 1 .. Len(k) : k[j].ends <= position
      /\ Amount(k, other) = SumTo(s, other, position)
  BY <1>0, KeptElements
<1>4. new.ends \in Nat
  BY DEF Record
<1>5. Amount(t, other) = SumTo(s, other, position) + (IF new.type = other THEN new.amount ELSE 0)
  BY <1>1, <1>2, <1>3, <1>4, AmountAppend
<1> HIDE DEF k, n
<1>6. /\ Len(t) = Len(k) + 1 /\ t[Len(t)] = new /\ Len(k) \in Nat /\ Len(s) \in Nat
      /\ \A j \in 1 .. Len(k) : t[j] = k[j]
  BY <1>0, <1>1, <1>2
<1>7. SubSeq(t, 1, Len(k)) = k /\ SubSeq(t, 1, Len(t)) = t
  BY <1>1, <1>2, <1>6
<1>8. ASSUME NEW q \in Nat, q < position PROVE SumTo(t, other, q) = SumTo(s, other, q)
  <2> DEFINE c == Count(s, q)
  <2>1. c \in 0 .. Len(s) /\ \A j \in 1 .. Len(s) : s[j].ends <= q <=> j <= c
    BY <1>0, CountDef
  <2>2. \A j \in 1 .. Len(s) : s[j].ends \in Nat /\ (s[j].ends <= position <=> j <= n)
    BY <1>0, CountDef, EndsNat DEF n
  <2> HIDE DEF c
  <2>3. c <= n
    <3> SUFFICES ASSUME n < c PROVE FALSE
      BY <1>2, <2>1
    <3>1. c \in 1 .. Len(s) /\ ~(c <= n)
      BY <1>2, <2>1
    <3> QED
      BY <1>8, <2>1, <2>2, <3>1
  <2>4. ASSUME NEW j \in 1 .. Len(t) PROVE t[j].ends <= q <=> j <= c
    <3>1. CASE j \in 1 .. n
      <4>1. j \in 1 .. Len(s) /\ j \in 1 .. Len(k) /\ t[j] = s[j]
        BY <1>2, <1>3, <1>6, <3>1
      <4> QED
        BY <2>1, <4>1
    <3>2. CASE j \notin 1 .. n
      <4>1. ~(j <= c)
        BY <1>2, <1>6, <2>1, <2>3, <3>2
      <4>2. CASE j \in 1 .. Len(k)
        <5>1. t[j].ends = position
          BY <1>2, <1>3, <1>6, <3>2, <4>2 DEF Cut
        <5> QED
          BY <1>8, <4>1, <5>1
      <4>3. CASE j = Len(t)
        BY <1>4, <1>6, <1>8, <4>1, <4>3
      <4> QED
        BY <1>6, <4>2, <4>3
    <3> QED
      BY <3>1, <3>2
  <2>5. c \in 0 .. Len(t) /\ c \in 0 .. n
    BY <1>2, <1>3, <1>6, <2>1, <2>3
  <2>6. Count(t, q) = c
    BY <1>1, <2>4, <2>5, CountIs
  <2>7. SubSeq(t, 1, c) = SubSeq(s, 1, c)
    <3>1. \A j \in 1 .. c : t[j] = s[j]
      BY <1>2, <1>3, <1>6, <2>5
    <3>2. SubSeq(t, 1, c) = [j \in 1 .. c |-> t[j]] /\ SubSeq(s, 1, c) = [j \in 1 .. c |-> s[j]]
      BY <1>0, <1>1, <2>1, <2>5
    <3> QED
      BY <3>1, <3>2
  <2> QED
    BY <2>6, <2>7 DEF SumTo, c
<1>9. ASSUME NEW q \in Nat, q >= position
      PROVE  SumTo(t, other, q) \in {SumTo(s, other, position), Amount(t, other)}
  <2>1. CASE q >= new.ends
    <3>1. End(t) = new.ends /\ t # <<>>
      BY <1>1, <1>4, <1>6 DEF End, Last
    <3> QED
      BY <1>1, <2>1, <3>1, CountAtEnd
  <2>2. CASE ~(q >= new.ends)
    <3>1. ASSUME NEW j \in 1 .. Len(t) PROVE t[j].ends <= q <=> j <= Len(k)
      <4>1. CASE j = Len(t)
        BY <1>4, <1>6, <2>2, <4>1
      <4>2. CASE j # Len(t)
        <5>1. j \in 1 .. Len(k) /\ t[j].ends <= position /\ t[j].ends \in Nat
          BY <1>1, <1>3, <1>6, <4>2, EndsNat
        <5> QED
          BY <1>6, <1>9, <5>1
      <4> QED
        BY <4>1, <4>2
    <3>2. Len(k) \in 0 .. Len(t)
      BY <1>6
    <3>3. Count(t, q) = Len(k)
      BY <1>1, <3>1, <3>2, CountIs
    <3> QED
      BY <1>3, <1>7, <3>3 DEF SumTo
  <2> QED
    BY <2>1, <2>2
<1> QED
  BY <1>5, <1>8, <1>9

\* Without negative amounts, a later position has no smaller sum before it.
LEMMA SumToMonotone ==
  ASSUME NEW s \in Seq(Record), Ordered(s), \A i \in 1 .. Len(s) : s[i].amount >= 0,
         NEW type \in Sums, NEW p \in Nat, NEW q \in Nat, p <= q
  PROVE  /\ SumTo(s, type, p) \in Int /\ SumTo(s, type, q) \in Int /\ Amount(s, type) \in Int
         /\ SumTo(s, type, p) <= SumTo(s, type, q)
         /\ SumTo(s, type, q) <= Amount(s, type)
<1> DEFINE c == Count(s, p)
           d == Count(s, q)
<1>1. /\ c \in 0 .. Len(s) /\ \A i \in 1 .. Len(s) : s[i].ends <= p <=> i <= c
      /\ d \in 0 .. Len(s) /\ \A i \in 1 .. Len(s) : s[i].ends <= q <=> i <= d
      /\ Len(s) \in Nat /\ \A i \in 1 .. Len(s) : s[i].ends \in Nat
  BY CountDef, EndsNat
<1> HIDE DEF c, d
<1>2. c <= d
  <2> SUFFICES ASSUME d < c PROVE FALSE
    BY <1>1
  <2>1. c \in 1 .. Len(s) /\ ~(c <= d)
    BY <1>1
  <2> QED
    BY <1>1, <2>1
<1>3. d \in c .. Len(s) /\ Len(s) \in d .. Len(s)
  BY <1>1, <1>2
<1>4. SubSeq(s, 1, Len(s)) = s
  OBVIOUS
<1>5. SubSeq(s, 1, c) \in Seq(Record) /\ SubSeq(s, 1, d) \in Seq(Record)
  BY <1>1
<1>6. /\ Amount(SubSeq(s, 1, c), type) \in Int /\ Amount(SubSeq(s, 1, d), type) \in Int
      /\ Amount(s, type) \in Int
  BY <1>5, AmountType
<1>7. /\ Amount(SubSeq(s, 1, c), type) <= Amount(SubSeq(s, 1, d), type)
      /\ Amount(SubSeq(s, 1, d), type) <= Amount(SubSeq(s, 1, Len(s)), type)
  BY <1>1, <1>3, AmountMonotone
<1> QED
  BY <1>4, <1>6, <1>7 DEF SumTo, c, d
-----------------------------------------------------------------------------
\* Initially each file has its first record, and nobody pays.
LEMMA InitInv ==
  ASSUME Init
  PROVE  IInv
<1>1. First \in Record /\ <<First>> \in Seq(Record) /\ Len(<<First>>) = 1 /\ <<First>>[1] = First
  BY WalletAssumption DEF First, Record
<1>2. \A h \in Hosts : wallet[h].records = <<First>> /\ wallet[h].junk = 0
  BY DEF Init, First
<1>3. payments = <<>> /\ Len(payments) = 0
  BY DEF Init
<1>4. TypeOK
  <2>1. wallet \in [Hosts -> [records : Seq(Record), junk : Nat]]
    BY <1>1 DEF Init, First
  <2>2. payments \in Seq([from : Hosts, to : Hosts, amount : Amounts, exact : BOOLEAN])
    BY DEF Init
  <2>3. /\ client \in [Hosts -> [at : Steps, id : 0 .. MaxPayments, end : Nat]]
        /\ daemon \in [Hosts -> [at : Turns, id : 0 .. MaxPayments, end : Nat]]
    BY WalletAssumption DEF Init, Steps, Turns
  <2>4. /\ queue \in [Hosts -> Seq(Payments)]
        /\ line \in [Payments -> {"none", "open", "sent", "ended", "broken", "failed", "closed"}]
    BY DEF Init
  <2> QED
    BY <2>1, <2>2, <2>3, <2>4 DEF TypeOK
<1>5. PaidOnce
  <2>1. \A h \in Hosts : \A i \in 1 .. Len(wallet[h].records) : wallet[h].records[i].id = 0
    BY <1>1, <1>2 DEF First
  <2> QED
    BY <2>1 DEF PaidOnce
<1>6. PaymentsSound
  BY <1>3, WalletAssumption DEF PaymentsSound, Init
<1>7. ASSUME NEW h \in Hosts PROVE HostSound(h)
  <2>1. FileSound(h)
    <3>1. Ordered(<<First>>)
      BY <1>1 DEF Ordered
    <3>2. First.id = 0 /\ First.amount = Initial /\ First.type # "cut"
      BY DEF First
    <3>3. wallet[h].records = <<First>> /\ <<First>> # <<>>
      BY <1>1, <1>2
    <3> HIDE DEF First
    <3>4. \A i \in 1 .. 1 : <<First>>[i] = First
      OBVIOUS
    <3> QED
      BY <1>1, <1>3, <3>1, <3>2, <3>3, <3>4 DEF FileSound
  <2>2. ClientSound(h) /\ DaemonSound(h) /\ QueueSound(h)
    BY DEF ClientSound, DaemonSound, QueueSound, Init
  <2> QED
    BY <2>1, <2>2 DEF HostSound
<1>8. ASSUME NEW h \in Hosts PROVE SumsSound(h)
  <2>1. <<>> \in Seq(Record) /\ <<First>> = Append(<<>>, First)
    OBVIOUS
  <2>2. /\ Amount(<<First>>, "sent")
             = Amount(<<>>, "sent") + (IF First.type = "sent" THEN First.amount ELSE 0)
        /\ Amount(<<First>>, "received")
             = Amount(<<>>, "received") + (IF First.type = "received" THEN First.amount ELSE 0)
    BY <1>1, <2>1, AmountAppend DEF Sums
  <2>3. Amount(<<>>, "sent") = 0 /\ Amount(<<>>, "received") = 0
    BY AmountEmpty DEF Sums
  <2>4. First.type = "received" /\ First.amount \in Nat
    BY WalletAssumption DEF First
  <2>5. Amount(<<First>>, "sent") <= Amount(<<First>>, "received")
    BY <2>2, <2>3, <2>4
  <2>6. client[h].at = "idle" /\ daemon[h].at = "accept"
    BY DEF Init
  <2> QED
    BY <1>2, <2>5, <2>6 DEF SumsSound, ClientSums, DaemonSums
<1> QED
  BY <1>4, <1>5, <1>6, <1>7, <1>8 DEF IInv

-----------------------------------------------------------------------------
\* The types, one variable at a time.
LEMMA Types ==
  ASSUME TypeOK, NEW h \in Hosts
  PROVE  /\ wallet[h] \in [records : Seq(Record), junk : Nat]
         /\ wallet[h].records \in Seq(Record)
         /\ client[h] \in [at : Steps, id : 0 .. MaxPayments, end : Nat]
         /\ daemon[h] \in [at : Turns, id : 0 .. MaxPayments, end : Nat]
         /\ queue[h] \in Seq(Payments)
         /\ Len(payments) \in Nat
         /\ \A p \in 1 .. Len(payments) :
              payments[p] \in [from : Hosts, to : Hosts, amount : Amounts, exact : BOOLEAN]
<1>1. wallet[h] \in [records : Seq(Record), junk : Nat]
  BY DEF TypeOK
<1>2. wallet[h].records \in Seq(Record)
  BY <1>1
<1>3. /\ client[h] \in [at : Steps, id : 0 .. MaxPayments, end : Nat]
      /\ daemon[h] \in [at : Turns, id : 0 .. MaxPayments, end : Nat]
      /\ queue[h] \in Seq(Payments)
  BY DEF TypeOK
<1>4. /\ Len(payments) \in Nat
      /\ \A p \in 1 .. Len(payments) :
           payments[p] \in [from : Hosts, to : Hosts, amount : Amounts, exact : BOOLEAN]
  <2> DEFINE P == [from : Hosts, to : Hosts, amount : Amounts, exact : BOOLEAN]
  <2>1. payments \in Seq(P)
    BY DEF TypeOK
  <2> HIDE DEF P
  <2>2. Len(payments) \in Nat /\ \A p \in 1 .. Len(payments) : payments[p] \in P
    BY <2>1
  <2> QED
    BY <2>2 DEF P
<1> QED
  BY <1>1, <1>2, <1>3, <1>4

\* Numbers up to Exact are floats.
LEMMA SmallIsExact ==
  ASSUME NEW n \in Int, 0 <= n, n <= Exact
  PROVE  Rounded(n) = n /\ Rounded(-n) = -n
<1>1. (IF n < 0 THEN -n ELSE n) = n
  OBVIOUS
<1>2. (IF -n < 0 THEN -(-n) ELSE -n) = n
  OBVIOUS
<1> QED
  BY <1>1, <1>2, Zenon DEF Rounded

\* Without negative amounts the floats add up to the sums, when these are small.
LEMMA TotalsAreSums ==
  ASSUME NEW s \in Seq(Record), \A i \in 1 .. Len(s) : s[i].amount >= 0,
         Amount(s, "sent") <= Exact, Amount(s, "received") <= Exact
  PROVE  Totals(s) = [from |-> Amount(s, "sent"), to |-> Amount(s, "received")]
<1> DEFINE Exacts(q) == [from |-> Amount(q, "sent"), to |-> Amount(q, "received")]
           P(n) == SubSeq(s, 1, n)
           T == {n \in Nat : n <= Len(s) => Totals(P(n)) = Exacts(P(n))}
<1>0. "sent" \in Sums /\ "received" \in Sums
  BY DEF Sums
<1>1. ASSUME NEW n \in 0 .. Len(s), NEW type \in Sums
      PROVE  P(n) \in Seq(Record) /\ Amount(P(n), type) \in Int
  <2>1. SubSeq(s, 1, n) \in Seq(Record)
    OBVIOUS
  <2> QED
    BY <2>1, AmountType
<1>2. \A q : Totals(q) = Floats!Fold([from |-> 0, to |-> 0], q)
  BY DEF Totals, Floats!Fold, FoldLeft, MapThenFoldSet, Floats!MapThenFoldSet, Max, Floats!Greatest
<1>3. 0 \in T
  <2>1. P(0) = <<>>
    OBVIOUS
  <2>2. Totals(<<>>) = [from |-> 0, to |-> 0]
    BY <1>2, Floats!FoldEmpty, Zenon
  <2>3. Amount(<<>>, "sent") = 0 /\ Amount(<<>>, "received") = 0
    BY <1>0, AmountEmpty
  <2> QED
    BY <2>1, <2>2, <2>3
<1>4. ASSUME NEW n \in T PROVE n + 1 \in T
  <2> SUFFICES ASSUME n + 1 <= Len(s) PROVE Totals(P(n + 1)) = Exacts(P(n + 1))
    OBVIOUS
  <2> DEFINE r == s[n + 1]
  <2>1. n \in 0 .. Len(s) /\ n + 1 \in 1 .. Len(s) /\ n + 1 \in 0 .. Len(s) /\ Len(s) \in 0 .. Len(s)
    OBVIOUS
  <2>2. P(n + 1) = Append(P(n), r) /\ P(Len(s)) = s
    BY <2>1
  <2>3. r \in Record
    BY <2>1
  <2>4. P(n) \in Seq(Record)
    BY <2>1, <1>1, <1>0
  <2>5. Totals(P(n)) = Exacts(P(n))
    BY <2>1
  <2>6. ASSUME NEW type \in Sums
        PROVE  /\ Amount(P(n + 1), type) \in Int /\ 0 <= Amount(P(n + 1), type)
               /\ Amount(P(n + 1), type) <= Amount(s, type)
    <3>1. 0 \in 0 .. Len(s) /\ n + 1 \in 0 .. Len(s) /\ Len(s) \in n + 1 .. Len(s)
      BY <2>1
    <3>2. /\ Amount(SubSeq(s, 1, 0), type) <= Amount(SubSeq(s, 1, n + 1), type)
          /\ Amount(SubSeq(s, 1, n + 1), type) <= Amount(SubSeq(s, 1, Len(s)), type)
      BY <3>1, AmountMonotone
    <3>3. SubSeq(s, 1, 0) = <<>> /\ Amount(<<>>, type) = 0
      BY AmountEmpty
    <3> QED
      BY <1>1, <2>1, <2>2, <3>2, <3>3
  <2> HIDE DEF P, T, r
  <2>7. Totals(P(n + 1)) = Added(Totals(P(n)), r)
    <3>1. Floats!Fold([from |-> 0, to |-> 0], Append(P(n), r))
            = Added(Floats!Fold([from |-> 0, to |-> 0], P(n)), r)
      BY <2>3, <2>4, Floats!FoldAppend
    <3> QED
      BY <1>2, <2>2, <3>1
  <2>8. ASSUME NEW type \in Sums
        PROVE  Amount(P(n + 1), type)
                 = Amount(P(n), type) + (IF r.type = type THEN r.amount ELSE 0)
    <3> DEFINE q == P(n)
    <3>1. q \in Seq(Record) /\ P(n + 1) = Append(q, r)
      BY <2>2, <2>4
    <3> HIDE DEF q
    <3>2. Amount(Append(q, r), type) = Amount(q, type) + (IF r.type = type THEN r.amount ELSE 0)
      BY <2>3, <3>1, AmountAppend
    <3> QED
      BY <3>1, <3>2 DEF q
  <2>9. ASSUME NEW type \in Sums
        PROVE  /\ r.type = type => Rounded(Amount(P(n), type) + r.amount) = Amount(P(n + 1), type)
               /\ r.type # type => Amount(P(n + 1), type) = Amount(P(n), type)
    <3> DEFINE x == Amount(P(n), type)
               y == Amount(P(n + 1), type)
               z == Amount(s, type)
    <3>1. y = x + (IF r.type = type THEN r.amount ELSE 0) /\ r.amount \in Int
      BY <2>3, <2>8, RecordAmount
    <3>2. x \in Int /\ y \in Int /\ 0 <= y /\ y <= z /\ z \in Int
      BY <1>1, <2>1, <2>2, <2>6
    <3>3. z <= Exact
      BY DEF Sums
    <3> HIDE DEF x, y, z
    <3>4. y <= Exact /\ (r.type # type => y = x) /\ (r.type = type => y = x + r.amount)
      BY <3>1, <3>2, <3>3, WalletAssumption
    <3>5. Rounded(y) = y
      BY <3>2, <3>4, SmallIsExact
    <3> QED
      BY <3>4, <3>5 DEF x, y
  <2> HIDE DEF Exacts
  <2>10. Exacts(P(n)).from = Amount(P(n), "sent") /\ Exacts(P(n)).to = Amount(P(n), "received")
    BY DEF Exacts
  <2>11. CASE r.type = "sent"
    <3>1. Added(Exacts(P(n)), r) = [from |-> Rounded(Amount(P(n), "sent") + r.amount),
                                    to |-> Amount(P(n), "received")]
      BY <2>11, Zenon DEF Added, Exacts
    <3> QED
      BY <1>0, <2>5, <2>7, <2>9, <2>11, <3>1 DEF Exacts
  <2>12. CASE r.type = "received"
    <3>1. Added(Exacts(P(n)), r) = [from |-> Amount(P(n), "sent"),
                                    to |-> Rounded(Amount(P(n), "received") + r.amount)]
      BY <2>12 DEF Added, Exacts
    <3> QED
      BY <1>0, <2>5, <2>7, <2>9, <2>12, <3>1 DEF Exacts
  <2>13. CASE r.type \notin {"sent", "received"}
    <3>1. Added(Exacts(P(n)), r) = Exacts(P(n))
      BY <2>13 DEF Added
    <3> QED
      BY <1>0, <2>5, <2>7, <2>9, <2>13, <3>1 DEF Exacts
  <2> QED
    BY <2>11, <2>12, <2>13
<1>5. T = Nat
  <2>1. T \subseteq Nat
    OBVIOUS
  <2> HIDE DEF T
  <2> QED
    BY <1>3, <1>4, <2>1, SetInduction
<1>6. Totals(P(Len(s))) = Exacts(P(Len(s)))
  <2>1. Len(s) \in Nat
    OBVIOUS
  <2>2. Len(s) \in T
    <3> HIDE DEF T
    <3> QED
      BY <1>5, <2>1
  <2> QED
    BY <2>1, <2>2
<1>7. P(Len(s)) = s
  OBVIOUS
<1> QED
  BY <1>6, <1>7

\* What a readable file says is left is what was received without what was
\* sent, when the floats are exact; nothing is left of another file.
LEMMA BalanceIs ==
  ASSUME NEW w \in [records : Seq(Record), junk : Nat], Exactly(w),
         \A i \in 1 .. Len(w.records) : w.records[i].amount >= 0,
         Amount(w.records, "sent") <= Amount(w.records, "received")
  PROVE  \/ Balance(w) = Amount(w.records, "received") - Amount(w.records, "sent")
         \/ Balance(w) = 0
<1> DEFINE q == RecordsRead(w)
<1>1. q = <<>> \/ q = w.records
  BY DEF RecordsRead
<1>2. q \in Seq(Record) /\ w.records \in Seq(Record)
  <2>1. w.records \in Seq(Record) /\ <<>> \in Seq(Record)
    OBVIOUS
  <2> HIDE DEF q
  <2> QED
    BY <1>1, <2>1
<1>3. Amount(q, "sent") <= Exact /\ Amount(q, "received") <= Exact
  BY DEF Exactly
<1>4. \A i \in 1 .. Len(q) : q[i].amount >= 0
  BY <1>1
<1>5. Amount(<<>>, "sent") = 0 /\ Amount(<<>>, "received") = 0
  BY AmountEmpty DEF Sums
<1>6. /\ Amount(q, "sent") \in Int /\ Amount(q, "received") \in Int
      /\ 0 <= Amount(q, "sent") /\ Amount(q, "sent") <= Amount(q, "received")
  <2>1. "sent" \in Sums /\ "received" \in Sums
    BY DEF Sums
  <2>2. Amount(q, "sent") \in Int /\ Amount(q, "received") \in Int
    <3> HIDE DEF q
    <3> QED
      BY <1>2, <2>1, AmountType
  <2>3. 0 <= Amount(q, "sent")
    <3> HIDE DEF q
    <3>1. 0 \in 0 .. Len(q) /\ Len(q) \in 0 .. Len(q) /\ SubSeq(q, 1, 0) = <<>> /\ SubSeq(q, 1, Len(q)) = q
      BY <1>2
    <3>2. Amount(SubSeq(q, 1, 0), "sent") <= Amount(SubSeq(q, 1, Len(q)), "sent")
      BY <1>2, <1>4, <2>1, <3>1, AmountMonotone
    <3> QED
      BY <1>5, <3>1, <3>2
  <2>4. Amount(q, "sent") <= Amount(q, "received")
    BY <1>1, <1>5
  <2> QED
    BY <2>2, <2>3, <2>4
<1> HIDE DEF q
<1>7. Totals(q) = [from |-> Amount(q, "sent"), to |-> Amount(q, "received")]
  BY <1>2, <1>3, <1>4, TotalsAreSums
<1> DEFINE d == Amount(q, "received") - Amount(q, "sent")
<1>8. Balance(w) = Rounded(d)
  BY <1>7 DEF Balance, q
<1>9. d \in Int /\ 0 <= d /\ d <= Exact
  BY <1>3, <1>6, WalletAssumption
<1>10. Rounded(d) = d
  <2> HIDE DEF d
  <2> QED
    BY <1>9, SmallIsExact
<1> QED
  BY <1>1, <1>5, <1>8, <1>10

\* The payment of a record in a file is one that was begun.
LEMMA RecordIds ==
  ASSUME IInv, NEW h \in Hosts, NEW i \in 1 .. Len(wallet[h].records)
  PROVE  /\ wallet[h].records[i] \in Record
         /\ wallet[h].records[i].id \in 0 .. Len(payments)
         /\ wallet[h].records[i].id # 0 =>
              wallet[h].records[i].id \in 1 .. Len(payments) /\ wallet[h].records[i].id \in Payments
<1>1. wallet[h].records[i] \in Record /\ Len(payments) \in Nat
  BY Types DEF IInv
<1>2. wallet[h].records[i].id \in 0 .. MaxPayments
  BY <1>1 DEF Record
<1>3. wallet[h].records[i].id <= Len(payments)
  BY DEF IInv, HostSound, FileSound
<1> QED
  BY <1>1, <1>2, <1>3, WalletAssumption DEF Payments

\* Without negative payments there is no negative amount in a file.
LEMMA AmountsNatural ==
  ASSUME IInv, NonNegative, NEW h \in Hosts, NEW i \in 1 .. Len(wallet[h].records)
  PROVE  wallet[h].records[i].amount >= 0
<1> DEFINE r == wallet[h].records[i]
<1>1. r.id \in 0 .. Len(payments) /\ (r.id # 0 => r.id \in 1 .. Len(payments))
  BY RecordIds
<1>2. CASE r.id = 0
  <2>1. r.amount = Initial
    BY <1>2 DEF IInv, HostSound, FileSound
  <2> QED
    BY <2>1, WalletAssumption
<1>3. CASE r.id # 0
  <2>1. r.amount = payments[r.id].amount
    BY <1>3 DEF IInv, PaidOnce
  <2> QED
    BY <1>1, <1>3, <2>1 DEF NonNegative
<1> QED
  BY <1>2, <1>3

\* The payment chosen is a new one, between two hosts, that the balance covers.
LEMMA ChooseInv ==
  ASSUME IInv, NEW h \in Hosts, Choose(h)
  PROVE  IInv'
<1> DEFINE id == Len(payments) + 1
           x == Exactly(wallet[h])
<1>00. x \in BOOLEAN
  BY Zenon DEF Exactly
<1>0. TypeOK /\ PaidOnce /\ PaymentsSound /\ \A g \in Hosts : HostSound(g)
  BY DEF IInv
<1>1. PICK d \in Hosts \ {h}, a \in Amounts :
        /\ a <= Balance(wallet[h])
        /\ payments' = Append(payments, [from |-> h, to |-> d, amount |-> a, exact |-> x])
  BY DEF Choose
<1> HIDE DEF x
<1>2. /\ Len(payments) \in Nat /\ Len(payments') = id
      /\ payments'[id] = [from |-> h, to |-> d, amount |-> a, exact |-> x]
      /\ \A p \in 1 .. Len(payments) : payments'[p] = payments[p]
      /\ payments' \in Seq([from : Hosts, to : Hosts, amount : Amounts, exact : BOOLEAN])
  <2> DEFINE P == [from : Hosts, to : Hosts, amount : Amounts, exact : BOOLEAN]
             e == [from |-> h, to |-> d, amount |-> a, exact |-> x]
  <2>1. payments \in Seq(P) /\ e \in P
    BY <1>0, <1>00 DEF TypeOK
  <2> HIDE DEF P, e
  <2>2. payments' = Append(payments, e)
    BY <1>1 DEF e
  <2>3. /\ Len(payments) \in Nat /\ Len(payments') = id /\ payments'[id] = e
        /\ \A p \in 1 .. Len(payments) : payments'[p] = payments[p]
        /\ payments' \in Seq(P)
    BY <2>1, <2>2
  <2> QED
    BY <2>3 DEF P, e
<1>3. id \in Payments /\ id <= MaxPayments
  BY <1>2, WalletAssumption DEF Choose, Payments
<1>4. client' = [client EXCEPT ![h] = [at |-> "connect", id |-> id, end |-> 0]]
  BY <1>2 DEF Choose
<1>5. UNCHANGED <<wallet, daemon, queue, line>>
  BY DEF Choose
<1>6. TypeOK'
  <2>1. client' \in [Hosts -> [at : Steps, id : 0 .. MaxPayments, end : Nat]]
    BY <1>0, <1>2, <1>3, <1>4 DEF TypeOK, Steps
  <2> QED
    BY <1>0, <1>2, <1>5, <2>1 DEF TypeOK
<1>7. ASSUME NEW g \in Hosts, NEW i \in 1 .. Len(wallet[g].records)
      PROVE  wallet[g].records[i].id \in 0 .. Len(payments)
  <2>1. wallet[g].records[i] \in Record
    BY <1>0, Types
  <2>2. wallet[g].records[i].id \in Nat
    BY <2>1, WalletAssumption DEF Record
  <2>3. wallet[g].records[i].id <= Len(payments)
    BY <1>0, <1>7 DEF HostSound, FileSound
  <2> QED
    BY <1>2, <2>2, <2>3
<1>8. PaidOnce'
  <2>1. ASSUME NEW g \in Hosts, NEW i \in 1 .. Len(wallet[g].records),
               wallet[g].records[i].id # 0
        PROVE  payments'[wallet[g].records[i].id] = payments[wallet[g].records[i].id]
    BY <1>2, <1>7, <2>1
  <2>2. ASSUME NEW g \in Hosts, NEW i \in 1 .. Len(wallet[g].records),
               wallet[g].records[i].id # 0
        PROVE  LET r == wallet[g].records[i]
               IN /\ r.amount = payments'[r.id].amount
                  /\ g = IF r.type = "sent" THEN payments'[r.id].from ELSE payments'[r.id].to
                  /\ r.type = "received" => line[r.id] \in {"ended", "closed"}
                  /\ \A j \in 1 .. Len(wallet[g].records) : wallet[g].records[j].id = r.id => i = j
    BY <1>0, <2>1, <2>2 DEF PaidOnce
  <2> QED
    BY <1>5, <2>2 DEF PaidOnce
<1>9. PaymentsSound'
  <2>1. ASSUME NEW p \in 1 .. Len(payments') PROVE payments'[p].from # payments'[p].to
    BY <1>0, <1>1, <1>2, <2>1 DEF PaymentsSound
  <2>2. ASSUME NEW p \in Payments, p > Len(payments') PROVE line'[p] = "none"
    BY <1>0, <1>2, <1>5, <2>2 DEF PaymentsSound, Payments
  <2> QED
    BY <1>2, <1>3, <2>1, <2>2 DEF PaymentsSound
<1>10. ASSUME NEW g \in Hosts PROVE HostSound(g)'
  <2>0. HostSound(g)
    BY <1>0
  <2>1. FileSound(g)'
    <3>1. ASSUME NEW i \in 1 .. Len(wallet[g].records)
          PROVE  wallet[g].records[i].id <= Len(payments')
      BY <1>2, <1>7
    <3> QED
      BY <1>5, <2>0, <3>1 DEF HostSound, FileSound
  <2>2. ClientSound(g)'
    <3>1. CASE g = h
      <4>1. client'[g] = [at |-> "connect", id |-> id, end |-> 0]
        BY <1>0, <1>4, <3>1 DEF TypeOK
      <4>2. line'[id] = "none"
        BY <1>0, <1>2, <1>3, <1>5 DEF PaymentsSound
      <4>3. \A i \in 1 .. Len(wallet'[g].records) : wallet'[g].records[i].id # id
        BY <1>2, <1>5, <1>7
      <4>4. id \in 1 .. Len(payments') /\ payments'[id].from = h
        BY <1>2
      <4> QED
        BY <3>1, <4>1, <4>2, <4>3, <4>4 DEF ClientSound, Unrecorded
    <3>2. CASE g # h
      <4>1. client'[g] = client[g]
        BY <1>0, <1>4, <3>2 DEF TypeOK
      <4>2. ClientSound(g)
        BY <2>0 DEF HostSound
      <4>3. wallet'[g] = wallet[g] /\ line' = line
        BY <1>5
      <4>4. client[g].at # "idle" =>
              client[g].id \in 1 .. Len(payments') /\ payments'[client[g].id] = payments[client[g].id]
        BY <1>2, <4>2 DEF ClientSound
      <4> QED
        BY <4>1, <4>2, <4>3, <4>4 DEF ClientSound, Unrecorded
    <3> QED
      BY <3>1, <3>2
  <2>3. DaemonSound(g)'
    BY <1>2, <1>5, <2>0 DEF HostSound, DaemonSound, Unrecorded
  <2>4. QueueSound(g)'
    BY <1>2, <1>5, <2>0 DEF HostSound, QueueSound
  <2> QED
    BY <2>1, <2>2, <2>3, <2>4 DEF HostSound
<1>11. ASSUME NonNegative', NEW g \in Hosts PROVE SumsSound(g)'
  <2>1. NonNegative
    BY <1>2, <1>11 DEF NonNegative
  <2>2. SumsSound(g) /\ SumsSound(h)
    BY <2>1 DEF IInv
  <2>3. CASE g = h
    <3>1. client'[h] = [at |-> "connect", id |-> id, end |-> 0] /\ payments'[id].amount = a
      BY <1>0, <1>2, <1>4 DEF TypeOK
    <3>2. a \in Int /\ a >= 0 /\ x
      <4>1. id \in 1 .. Len(payments')
        BY <1>2
      <4>2. payments'[id].exact = x
        BY <1>2
      <4> QED
        BY <1>11, <3>1, <4>1, <4>2, WalletAssumption DEF NonNegative
    <3>3. wallet[h] \in [records : Seq(Record), junk : Nat]
      BY <1>0, Types
    <3>4. Amount(wallet[h].records, "sent") \in Int /\ Amount(wallet[h].records, "received") \in Int
      BY <3>3, AmountType DEF Sums
    <3>5. Amount(wallet[h].records, "sent") <= Amount(wallet[h].records, "received")
      BY <2>2 DEF SumsSound, ClientSums, DaemonSums
    <3>6. Amount(wallet[h].records, "sent") + a <= Amount(wallet[h].records, "received")
      <4>1. \A i \in 1 .. Len(wallet[h].records) : wallet[h].records[i].amount >= 0
        BY <2>1, AmountsNatural
      <4>2. Exactly(wallet[h])
        BY <3>2 DEF x
      <4>3. \/ Balance(wallet[h]) = Amount(wallet[h].records, "received") - Amount(wallet[h].records, "sent")
            \/ Balance(wallet[h]) = 0
        BY <3>3, <3>5, <4>1, <4>2, BalanceIs
      <4> QED
        BY <1>1, <3>2, <3>4, <3>5, <4>3
    <3> QED
      BY <1>5, <2>2, <2>3, <3>1, <3>6 DEF SumsSound, ClientSums, DaemonSums
  <2>4. CASE g # h
    <3>1. client'[g] = client[g]
      BY <1>0, <1>4, <2>4 DEF TypeOK
    <3>2. client[g].at # "idle" => payments'[client[g].id] = payments[client[g].id]
      BY <1>0, <1>2 DEF HostSound, ClientSound
    <3> QED
      BY <1>5, <2>2, <3>1, <3>2 DEF SumsSound, ClientSums, DaemonSums
  <2> QED
    BY <2>3, <2>4
<1> QED
  BY <1>6, <1>8, <1>9, <1>10, <1>11 DEF IInv

-----------------------------------------------------------------------------
\* A step that leaves the files and the payments and moves the connections of
\* payments onwards keeps what does not depend on the processes.
LineMoves ==
  \A p \in Payments :
    \/ line'[p] = line[p]
    \/ /\ p \in 1 .. Len(payments) /\ line'[p] # "none"
       /\ line[p] \in {"ended", "closed"} => line'[p] \in {"ended", "closed"}

\* What such a step leaves alone stays sound.
LEMMA QuietStep ==
  ASSUME IInv, UNCHANGED <<wallet, payments>>, LineMoves
  PROVE  /\ PaidOnce' /\ PaymentsSound'
         /\ \A g \in Hosts :
              /\ FileSound(g)'
              /\ queue'[g] = queue[g] => QueueSound(g)'
              /\ (client'[g] = client[g]
                  /\ (client[g].at = "connect" => line'[client[g].id] = "none")) => ClientSound(g)'
              /\ (daemon'[g] = daemon[g]
                  /\ (daemon[g].at \in {"append", "write"} => line'[daemon[g].id] \in {"ended", "failed"}))
                   => DaemonSound(g)'
<1>0. TypeOK /\ PaidOnce /\ PaymentsSound /\ \A g \in Hosts : HostSound(g)
  BY DEF IInv
<1>1. PaidOnce'
  <2> SUFFICES ASSUME NEW g \in Hosts, NEW i \in 1 .. Len(wallet[g].records),
                      wallet[g].records[i].id # 0
               PROVE  wallet[g].records[i].type = "received" =>
                        line'[wallet[g].records[i].id] \in {"ended", "closed"}
    BY <1>0 DEF PaidOnce
  <2>1. wallet[g].records[i].id \in Payments
    BY RecordIds
  <2>2. wallet[g].records[i].type = "received" => line[wallet[g].records[i].id] \in {"ended", "closed"}
    BY <1>0 DEF PaidOnce
  <2> QED
    BY <2>1, <2>2 DEF LineMoves
<1>2. PaymentsSound'
  <2>1. ASSUME NEW p \in Payments, p > Len(payments) PROVE line'[p] = "none"
    <3>1. ~(p \in 1 .. Len(payments))
      BY <2>1 DEF Payments
    <3> QED
      BY <1>0, <2>1, <3>1 DEF PaymentsSound, LineMoves
  <2> QED
    BY <1>0, <2>1 DEF PaymentsSound
<1>3. ASSUME NEW p \in 1 .. Len(payments), line[p] # "none" PROVE line'[p] # "none"
  <2>1. p \in Payments
    BY <1>0, WalletAssumption DEF PaymentsSound, Payments, TypeOK
  <2> QED
    BY <1>3, <2>1 DEF LineMoves
<1>4. ASSUME NEW g \in Hosts PROVE FileSound(g)'
  BY <1>0 DEF HostSound, FileSound
<1>5. ASSUME NEW g \in Hosts, queue'[g] = queue[g] PROVE QueueSound(g)'
  BY <1>0, <1>3, <1>5 DEF HostSound, QueueSound
<1>6. ASSUME NEW g \in Hosts, client'[g] = client[g],
             client[g].at = "connect" => line'[client[g].id] = "none"
      PROVE  ClientSound(g)'
  BY <1>0, <1>6 DEF HostSound, ClientSound, Unrecorded
<1>7. ASSUME NEW g \in Hosts, daemon'[g] = daemon[g],
             daemon[g].at \in {"append", "write"} => line'[daemon[g].id] \in {"ended", "failed"}
      PROVE  DaemonSound(g)'
  BY <1>0, <1>3, <1>7 DEF HostSound, DaemonSound, Unrecorded
<1> QED
  BY <1>1, <1>2, <1>4, <1>5, <1>6, <1>7

\* And so do the sums, unless a process looks up its position.
LEMMA QuietSums ==
  ASSUME IInv, UNCHANGED <<wallet, payments>>, NonNegative', NEW g \in Hosts
  PROVE  /\ client'[g] = client[g] \/ client'[g].at = "idle" => ClientSums(g)'
         /\ (/\ client'[g].id = client[g].id
             /\ client[g].at \in {"connect", "send", "append"}
             /\ client'[g].at \in {"connect", "send", "append"}) => ClientSums(g)'
         /\ daemon'[g] = daemon[g] \/ daemon'[g].at # "write" => DaemonSums(g)'
<1>1. NonNegative
  BY DEF NonNegative
<1>2. ClientSums(g) /\ DaemonSums(g)
  BY <1>1 DEF IInv, SumsSound
<1>3. ASSUME client'[g] = client[g] PROVE ClientSums(g)'
  BY <1>2, <1>3 DEF ClientSums
<1>4. ASSUME client'[g].at = "idle" PROVE ClientSums(g)'
  BY <1>2, <1>4 DEF ClientSums
<1>5. ASSUME client'[g].id = client[g].id,
             client[g].at \in {"connect", "send", "append"},
             client'[g].at \in {"connect", "send", "append"}
      PROVE  ClientSums(g)'
  BY <1>2, <1>5 DEF ClientSums
<1>6. ASSUME daemon'[g] = daemon[g] \/ daemon'[g].at # "write" PROVE DaemonSums(g)'
  BY <1>2, <1>6 DEF DaemonSums
<1> QED
  BY <1>3, <1>4, <1>5, <1>6

\* Such a step keeps the invariant when it keeps its part about the processes.
LEMMA QuietInv ==
  ASSUME IInv, UNCHANGED <<wallet, payments>>, LineMoves, TypeOK',
         \A g \in Hosts : ClientSound(g)' /\ DaemonSound(g)' /\ QueueSound(g)',
         NonNegative' => \A g \in Hosts : ClientSums(g)' /\ DaemonSums(g)'
  PROVE  IInv'
BY QuietStep DEF IInv, HostSound, SumsSound

\* The variables of the processes and of the connections have their types.
LEMMA OtherTypes ==
  ASSUME TypeOK, UNCHANGED <<wallet, payments>>,
         client' \in [Hosts -> [at : Steps, id : 0 .. MaxPayments, end : Nat]],
         daemon' \in [Hosts -> [at : Turns, id : 0 .. MaxPayments, end : Nat]],
         queue' \in [Hosts -> Seq(Payments)],
         line' \in [Payments -> {"none", "open", "sent", "ended", "broken", "failed", "closed"}]
  PROVE  TypeOK'
BY DEF TypeOK

\* A process that is somewhere has a payment that was begun.
LEMMA ProcessIds ==
  ASSUME IInv, NEW h \in Hosts
  PROVE  /\ client[h].at # "idle" => client[h].id \in 1 .. Len(payments) /\ client[h].id \in Payments
         /\ daemon[h].at # "accept" => daemon[h].id \in 1 .. Len(payments) /\ daemon[h].id \in Payments
         /\ \A i \in 1 .. Len(queue[h]) :
              queue[h][i] \in 1 .. Len(payments) /\ queue[h][i] \in Payments
<1>1. Len(payments) \in Nat /\ Len(payments) <= MaxPayments /\ MaxPayments \in Nat
  BY WalletAssumption, Types DEF IInv, PaymentsSound
<1>2. \A p \in 1 .. Len(payments) : p \in Payments
  BY <1>1 DEF Payments
<1>3. HostSound(h)
  BY DEF IInv
<1> QED
  BY <1>2, <1>3 DEF HostSound, ClientSound, DaemonSound, QueueSound

\* The payment of the command line becomes a caller of its daemon, or is given up.
LEMMA ConnectInv ==
  ASSUME IInv, NEW h \in Hosts, Connect(h)
  PROVE  IInv'
<1> DEFINE id == client[h].id
           d == payments[id].to
<1>0. TypeOK /\ PaymentsSound /\ \A g \in Hosts : HostSound(g)
  BY DEF IInv
<1>1. client[h].at = "connect" /\ UNCHANGED <<wallet, payments, daemon>>
  BY DEF Connect
<1>2. /\ id \in 1 .. Len(payments) /\ id \in Payments /\ line[id] = "none" /\ payments[id].from = h
      /\ d \in Hosts
  <2>1. ClientSound(h)
    BY <1>0 DEF HostSound
  <2>2. id \in 1 .. Len(payments) /\ id \in Payments
    BY <1>1, ProcessIds
  <2>3. payments[id] \in [from : Hosts, to : Hosts, amount : Amounts, exact : BOOLEAN]
    BY <1>0, <2>2, Types
  <2> QED
    BY <1>1, <2>1, <2>2, <2>3 DEF ClientSound
<1>3. CASE /\ queue' = [queue EXCEPT ![d] = Append(@, id)]
           /\ line' = [line EXCEPT ![id] = "open"]
           /\ client' = [client EXCEPT ![h].at = "send"]
  <2>1. TypeOK'
    <3>1. client' \in [Hosts -> [at : Steps, id : 0 .. MaxPayments, end : Nat]]
      <4>1. [client[h] EXCEPT !.at = "send"] \in [at : Steps, id : 0 .. MaxPayments, end : Nat]
        BY <1>0, Types DEF Steps
      <4>2. client' = [client EXCEPT ![h] = [client[h] EXCEPT !.at = "send"]]
        BY <1>0, <1>3 DEF TypeOK
      <4> QED
        BY <1>0, <4>1, <4>2 DEF TypeOK
    <3>2. queue' \in [Hosts -> Seq(Payments)]
      <4>1. queue[d] \in Seq(Payments) /\ Append(queue[d], id) \in Seq(Payments)
        <5> HIDE DEF d, id
        <5>1. queue[d] \in Seq(Payments)
          BY <1>0, <1>2, Types
        <5> QED
          BY <1>2, <5>1
      <4> QED
        BY <1>0, <1>2, <1>3, <4>1 DEF TypeOK
    <3>3. line' \in [Payments -> {"none", "open", "sent", "ended", "broken", "failed", "closed"}]
      BY <1>0, <1>3 DEF TypeOK
    <3> QED
      BY <1>0, <1>1, <3>1, <3>2, <3>3, OtherTypes DEF TypeOK
  <2>2. line'[id] = "open" /\ \A p \in Payments \ {id} : line'[p] = line[p]
    BY <1>0, <1>2, <1>3 DEF TypeOK
  <2>3. LineMoves
    BY <1>2, <2>2 DEF LineMoves
  <2>4. /\ client'[h] = [client[h] EXCEPT !.at = "send"]
        /\ \A g \in Hosts : g # h => client'[g] = client[g]
    BY <1>0, <1>3 DEF TypeOK
  <2>5. ASSUME NEW g \in Hosts PROVE ClientSound(g)'
    <3>1. CASE g = h
      <4>1. client'[g].at = "send" /\ client'[g].id = id
        BY <1>0, <2>4, <3>1, Types
      <4>2. ClientSound(h)
        BY <1>0 DEF HostSound
      <4> QED
        BY <1>1, <3>1, <4>1, <4>2 DEF ClientSound, Unrecorded
    <3>2. CASE g # h
      <4>1. client[g].at = "connect" => line'[client[g].id] = "none"
        <5>1. ClientSound(g)
          BY <1>0 DEF HostSound
        <5>2. client[g].at = "connect" => client[g].id \in Payments
          BY ProcessIds
        <5>3. client[g].at = "connect" => client[g].id # id
          BY <1>2, <3>2, <5>1 DEF ClientSound
        <5> QED
          BY <2>2, <5>1, <5>2, <5>3 DEF ClientSound
      <4> QED
        BY <1>1, <2>3, <2>4, <3>2, <4>1, QuietStep
    <3> QED
      BY <3>1, <3>2
  <2>6. ASSUME NEW g \in Hosts PROVE DaemonSound(g)'
    <3>1. DaemonSound(g)
      BY <1>0 DEF HostSound
    <3>2. daemon[g].at # "accept" => daemon[g].id \in Payments
      BY ProcessIds
    <3>3. daemon[g].at \in {"append", "write"} => line'[daemon[g].id] \in {"ended", "failed"}
      BY <1>2, <2>2, <3>1, <3>2 DEF DaemonSound
    <3> QED
      BY <1>1, <2>3, <3>3, QuietStep
  <2>7. ASSUME NEW g \in Hosts PROVE QueueSound(g)'
    <3>1. CASE g # d
      <4>1. queue'[g] = queue[g]
        BY <1>0, <1>3, <3>1 DEF TypeOK
      <4> QED
        BY <1>1, <2>3, <4>1, QuietStep
    <3>2. CASE g = d
      <4>1. queue'[g] = Append(queue[g], id) /\ queue[g] \in Seq(Payments)
        BY <1>0, <1>3, <3>2 DEF TypeOK
      <4>2. QueueSound(g)
        BY <1>0 DEF HostSound
      <4>3. ASSUME NEW i \in 1 .. Len(queue'[g])
            PROVE  /\ queue'[g][i] \in 1 .. Len(payments) /\ payments[queue'[g][i]].to = g
                   /\ line'[queue'[g][i]] # "none"
        <5>1. CASE i \in 1 .. Len(queue[g])
          <6>1. queue'[g][i] = queue[g][i] /\ queue[g][i] \in Payments
            BY <1>2, <4>1, <5>1
          <6> QED
            BY <2>2, <4>2, <5>1, <6>1 DEF QueueSound
        <5>2. CASE i \notin 1 .. Len(queue[g])
          <6>1. queue'[g][i] = id
            BY <1>2, <4>1, <4>3, <5>2
          <6> QED
            BY <1>2, <2>2, <3>2, <6>1
        <5> QED
          BY <5>1, <5>2
      <4> QED
        BY <1>1, <4>3 DEF QueueSound
    <3> QED
      BY <3>1, <3>2
  <2>8. ASSUME NonNegative', NEW g \in Hosts PROVE ClientSums(g)' /\ DaemonSums(g)'
    <3>1. client'[h].at = "send" /\ client'[h].id = id
      BY <1>0, <2>4, Types
    <3> QED
      BY <1>1, <2>4, <2>8, <3>1, QuietSums
  <2> QED
    BY <1>1, <2>1, <2>3, <2>5, <2>6, <2>7, <2>8, QuietInv
<1>4. CASE /\ client' = [client EXCEPT ![h] = [at |-> "idle", id |-> 0, end |-> 0]]
           /\ UNCHANGED <<queue, line>>
  <2>1. TypeOK'
    <3>1. client' \in [Hosts -> [at : Steps, id : 0 .. MaxPayments, end : Nat]]
      BY <1>0, <1>4, WalletAssumption DEF TypeOK, Steps
    <3> QED
      BY <1>0, <1>1, <1>4, <3>1, OtherTypes DEF TypeOK
  <2>2. LineMoves
    BY <1>4 DEF LineMoves
  <2>3. /\ client'[h] = [at |-> "idle", id |-> 0, end |-> 0]
        /\ \A g \in Hosts : g # h => client'[g] = client[g]
    BY <1>0, <1>4 DEF TypeOK
  <2>4. ASSUME NEW g \in Hosts PROVE ClientSound(g)' /\ DaemonSound(g)' /\ QueueSound(g)'
    <3>1. ClientSound(g) /\ DaemonSound(g)
      BY <1>0 DEF HostSound
    <3>2. DaemonSound(g)' /\ QueueSound(g)'
      BY <1>1, <1>4, <2>2, <3>1, QuietStep DEF DaemonSound
    <3>3. CASE g = h
      BY <2>3, <3>2, <3>3 DEF ClientSound
    <3>4. CASE g # h
      BY <1>1, <1>4, <2>2, <2>3, <3>1, <3>2, <3>4, QuietStep DEF ClientSound
    <3> QED
      BY <3>3, <3>4
  <2>5. ASSUME NonNegative', NEW g \in Hosts PROVE ClientSums(g)' /\ DaemonSums(g)'
    BY <1>1, <2>3, <2>5, QuietSums
  <2> QED
    BY <1>1, <2>1, <2>2, <2>4, <2>5, QuietInv
<1> QED
  BY <1>3, <1>4 DEF Connect

\* The record is sent on an open connection.
LEMMA SendInv ==
  ASSUME IInv, NEW h \in Hosts, Send(h)
  PROVE  IInv'
<1> DEFINE id == client[h].id
<1>0. TypeOK /\ \A g \in Hosts : HostSound(g)
  BY DEF IInv
<1>1. client[h].at = "send" /\ UNCHANGED <<wallet, payments, daemon, queue>>
  BY DEF Send
<1>2. id \in 1 .. Len(payments) /\ id \in Payments
  BY <1>1, ProcessIds
<1>3. /\ line'[id] = IF line[id] = "open" THEN "sent" ELSE line[id]
      /\ \A p \in Payments \ {id} : line'[p] = line[p]
  BY <1>0, <1>2 DEF TypeOK, Send
<1>4. LineMoves
  BY <1>2, <1>3 DEF LineMoves
<1>5. /\ client'[h] = [client[h] EXCEPT !.at = "append"]
      /\ \A g \in Hosts : g # h => client'[g] = client[g]
  BY <1>0 DEF TypeOK, Send
<1>6. client'[h].at = "append" /\ client'[h].id = id
  BY <1>0, <1>5, Types
<1>7. TypeOK'
  <2>1. client' \in [Hosts -> [at : Steps, id : 0 .. MaxPayments, end : Nat]]
    BY <1>0 DEF TypeOK, Steps, Send
  <2>2. line' \in [Payments -> {"none", "open", "sent", "ended", "broken", "failed", "closed"}]
    BY <1>0 DEF TypeOK, Send
  <2> QED
    BY <1>0, <1>1, <2>1, <2>2, OtherTypes DEF TypeOK
<1>8. ASSUME NEW g \in Hosts PROVE ClientSound(g)' /\ DaemonSound(g)' /\ QueueSound(g)'
  <2>1. ClientSound(g) /\ DaemonSound(g) /\ ClientSound(h)
    BY <1>0 DEF HostSound
  <2>2. QueueSound(g)'
    BY <1>1, <1>4, QuietStep
  <2>3. DaemonSound(g)'
    <3>1. daemon[g].at # "accept" => daemon[g].id \in Payments
      BY ProcessIds
    <3>2. daemon[g].at \in {"append", "write"} => line'[daemon[g].id] \in {"ended", "failed"}
      BY <1>3, <2>1, <3>1 DEF DaemonSound
    <3> QED
      BY <1>1, <1>4, <3>2, QuietStep
  <2>4. CASE g = h
    BY <1>1, <1>6, <2>1, <2>2, <2>3, <2>4 DEF ClientSound, Unrecorded
  <2>5. CASE g # h
    <3>1. client[g].at = "connect" => client[g].id \in Payments
      BY ProcessIds
    <3>2. client[g].at = "connect" => line'[client[g].id] = "none"
      BY <1>3, <2>1, <3>1 DEF ClientSound
    <3> QED
      BY <1>1, <1>4, <1>5, <2>2, <2>3, <2>5, <3>2, QuietStep
  <2> QED
    BY <2>4, <2>5
<1>9. ASSUME NonNegative', NEW g \in Hosts PROVE ClientSums(g)' /\ DaemonSums(g)'
  BY <1>1, <1>5, <1>6, <1>9, QuietSums
<1> QED
  BY <1>1, <1>4, <1>7, <1>8, <1>9, QuietInv

\* The command line that is killed leaves its connection to the system.
LEMMA DieInv ==
  ASSUME IInv, NEW h \in Hosts, Die(h)
  PROVE  IInv'
<1> DEFINE id == client[h].id
<1>0. TypeOK /\ \A g \in Hosts : HostSound(g)
  BY DEF IInv
<1>1. client[h].at # "idle" /\ UNCHANGED <<wallet, payments, daemon, queue>>
  BY DEF Die
<1>2. id \in 1 .. Len(payments) /\ id \in Payments
  BY <1>1, ProcessIds
<1>3. /\ line'[id] = IF line[id] = "open" THEN "ended" ELSE line[id]
      /\ \A p \in Payments \ {id} : line'[p] = line[p]
  BY <1>0, <1>2 DEF TypeOK, Die
<1>4. LineMoves
  BY <1>2, <1>3 DEF LineMoves
<1>5. /\ client'[h] = [at |-> "idle", id |-> 0, end |-> 0]
      /\ \A g \in Hosts : g # h => client'[g] = client[g]
  BY <1>0 DEF TypeOK, Die
<1>7. TypeOK'
  <2>1. client' \in [Hosts -> [at : Steps, id : 0 .. MaxPayments, end : Nat]]
    BY <1>0, WalletAssumption DEF TypeOK, Steps, Die
  <2>2. line' \in [Payments -> {"none", "open", "sent", "ended", "broken", "failed", "closed"}]
    BY <1>0 DEF TypeOK, Die
  <2> QED
    BY <1>0, <1>1, <2>1, <2>2, OtherTypes DEF TypeOK
<1>8. ASSUME NEW g \in Hosts PROVE ClientSound(g)' /\ DaemonSound(g)' /\ QueueSound(g)'
  <2>1. ClientSound(g) /\ DaemonSound(g)
    BY <1>0 DEF HostSound
  <2>2. QueueSound(g)'
    BY <1>1, <1>4, QuietStep
  <2>3. DaemonSound(g)'
    <3>1. daemon[g].at # "accept" => daemon[g].id \in Payments
      BY ProcessIds
    <3>2. daemon[g].at \in {"append", "write"} => line'[daemon[g].id] \in {"ended", "failed"}
      BY <1>3, <2>1, <3>1 DEF DaemonSound
    <3> QED
      BY <1>1, <1>4, <3>2, QuietStep
  <2>4. CASE g = h
    BY <1>5, <2>2, <2>3, <2>4 DEF ClientSound
  <2>5. CASE g # h
    <3>1. client[g].at = "connect" => client[g].id \in Payments
      BY ProcessIds
    <3>2. client[g].at = "connect" => line'[client[g].id] = "none"
      BY <1>3, <2>1, <3>1 DEF ClientSound
    <3> QED
      BY <1>1, <1>4, <1>5, <2>2, <2>3, <2>5, <3>2, QuietStep
  <2> QED
    BY <2>4, <2>5
<1>9. ASSUME NonNegative', NEW g \in Hosts PROVE ClientSums(g)' /\ DaemonSums(g)'
  BY <1>1, <1>5, <1>9, QuietSums
<1> QED
  BY <1>1, <1>4, <1>7, <1>8, <1>9, QuietInv

\* A connection breaks that has not been read from.
LEMMA BreakInv ==
  ASSUME IInv, NEW id \in Payments, Break(id)
  PROVE  IInv'
<1>0. TypeOK /\ PaymentsSound /\ \A g \in Hosts : HostSound(g)
  BY DEF IInv
<1>1. line[id] \in {"open", "sent"} /\ UNCHANGED <<wallet, payments, client, daemon, queue>>
  BY DEF Break
<1>2. line'[id] = "broken" /\ \A p \in Payments \ {id} : line'[p] = line[p]
  BY <1>0 DEF TypeOK, Break
<1>3. id \in 1 .. Len(payments)
  <2>1. payments \in Seq([from : Hosts, to : Hosts, amount : Amounts, exact : BOOLEAN])
    BY <1>0 DEF TypeOK
  <2>2. Len(payments) \in Nat
    BY <2>1
  <2> QED
    BY <1>0, <1>1, <2>2 DEF PaymentsSound, Payments
<1>4. LineMoves
  BY <1>1, <1>2, <1>3 DEF LineMoves
<1>5. TypeOK'
  <2>1. line' \in [Payments -> {"none", "open", "sent", "ended", "broken", "failed", "closed"}]
    BY <1>0 DEF TypeOK, Break
  <2> QED
    BY <1>0, <1>1, <2>1, OtherTypes DEF TypeOK
<1>6. ASSUME NEW g \in Hosts PROVE ClientSound(g)' /\ DaemonSound(g)' /\ QueueSound(g)'
  <2>1. ClientSound(g) /\ DaemonSound(g)
    BY <1>0 DEF HostSound
  <2>2. QueueSound(g)'
    BY <1>1, <1>4, QuietStep
  <2>3. client[g].at = "connect" => line'[client[g].id] = "none"
    <3>1. client[g].at = "connect" => client[g].id \in Payments
      BY ProcessIds
    <3> QED
      BY <1>1, <1>2, <2>1, <3>1 DEF ClientSound
  <2>4. daemon[g].at \in {"append", "write"} => line'[daemon[g].id] \in {"ended", "failed"}
    <3>1. daemon[g].at # "accept" => daemon[g].id \in Payments
      BY ProcessIds
    <3> QED
      BY <1>1, <1>2, <2>1, <3>1 DEF DaemonSound
  <2> QED
    BY <1>1, <1>4, <2>2, <2>3, <2>4, QuietStep
<1>7. ASSUME NonNegative', NEW g \in Hosts PROVE ClientSums(g)' /\ DaemonSums(g)'
  BY <1>1, <1>7, QuietSums
<1> QED
  BY <1>1, <1>4, <1>5, <1>6, <1>7, QuietInv

\* The end of the records is behind the first one.
LEMMA EndSound ==
  ASSUME IInv, NEW h \in Hosts
  PROVE  LET s == wallet[h].records
         IN /\ s \in Seq(Record) /\ s # <<>> /\ Ordered(s) /\ s[1].ends = Length[Initial]
            /\ Length[Initial] \in Nat
            /\ End(s) \in Nat /\ End(s) >= Length[Initial]
<1> DEFINE s == wallet[h].records
<1>1. s \in Seq(Record)
  BY Types DEF IInv
<1>2. s # <<>> /\ Ordered(s) /\ s[1].ends = Length[Initial]
  BY DEF IInv, HostSound, FileSound, First
<1>3. End(s) = s[Len(s)].ends
  BY <1>2 DEF End, Last
<1> HIDE DEF s
<1>4. /\ Len(s) \in Nat \ {0} /\ Len(s) \in 1 .. Len(s) /\ 1 \in 1 .. Len(s)
      /\ \A i \in 1 .. Len(s) : s[i].ends \in Nat
  BY <1>1, <1>2, EndsNat
<1>5. Len(s) = 1 \/ s[1].ends < s[Len(s)].ends
  <2>1. Len(s) = 1 \/ 1 < Len(s)
    BY <1>4
  <2>2. \A i, j \in 1 .. Len(s) : i < j => s[i].ends < s[j].ends
    BY <1>2 DEF Ordered
  <2> QED
    BY <1>4, <2>1, <2>2
<1>6. Length[Initial] \in Nat
  BY WalletAssumption
<1>7. End(s) \in Nat /\ End(s) >= Length[Initial]
  BY <1>2, <1>3, <1>4, <1>5, <1>6
<1> QED
  BY <1>1, <1>2, <1>6, <1>7 DEF s

\* The command line looks up the end: all records are before it.
LEMMA FindEndInv ==
  ASSUME IInv, NEW h \in Hosts, FindEnd(h)
  PROVE  IInv'
<1> DEFINE e == End(wallet[h].records)
<1>0. TypeOK /\ \A g \in Hosts : HostSound(g)
  BY DEF IInv
<1>1. client[h].at = "append" /\ UNCHANGED <<wallet, payments, daemon, queue, line>>
  BY DEF FindEnd
<1>2. e \in Nat /\ e >= Length[Initial]
  BY EndSound
<1>3. LineMoves
  BY <1>1 DEF LineMoves
<1>4. /\ client'[h] = [client[h] EXCEPT !.at = "write", !.end = e]
      /\ \A g \in Hosts : g # h => client'[g] = client[g]
  BY <1>0 DEF TypeOK, FindEnd
<1>5. client'[h].at = "write" /\ client'[h].id = client[h].id /\ client'[h].end = e
  BY <1>0, <1>4, Types
<1>6. TypeOK'
  <2>1. client' \in [Hosts -> [at : Steps, id : 0 .. MaxPayments, end : Nat]]
    <3>1. client[h] \in [at : Steps, id : 0 .. MaxPayments, end : Nat]
      BY <1>0, Types
    <3>2. [client[h] EXCEPT !.at = "write", !.end = e] \in [at : Steps, id : 0 .. MaxPayments, end : Nat]
      <4> HIDE DEF e
      <4> QED
        BY <1>2, <3>1 DEF Steps
    <3>3. client' = [client EXCEPT ![h] = [client[h] EXCEPT !.at = "write", !.end = e]]
      BY <1>0 DEF TypeOK, FindEnd
    <3> QED
      BY <1>0, <3>2, <3>3 DEF TypeOK
  <2> QED
    BY <1>0, <1>1, <2>1, OtherTypes DEF TypeOK
<1>7. ASSUME NEW g \in Hosts PROVE ClientSound(g)' /\ DaemonSound(g)' /\ QueueSound(g)'
  <2>1. ClientSound(g) /\ DaemonSound(g)
    BY <1>0 DEF HostSound
  <2>2. QueueSound(g)' /\ DaemonSound(g)'
    BY <1>1, <1>3, <2>1, QuietStep DEF DaemonSound
  <2>4. CASE g = h
    BY <1>1, <1>2, <1>5, <2>1, <2>2, <2>4 DEF ClientSound, Unrecorded
  <2>5. CASE g # h
    BY <1>1, <1>3, <1>4, <2>1, <2>2, <2>5, QuietStep DEF ClientSound
  <2> QED
    BY <2>4, <2>5
<1>8. ASSUME NonNegative', NEW g \in Hosts PROVE ClientSums(g)' /\ DaemonSums(g)'
  <2>1. DaemonSums(g)'
    BY <1>1, <1>8, QuietSums
  <2>2. CASE g # h
    BY <1>1, <1>4, <1>8, <2>1, <2>2, QuietSums
  <2>3. CASE g = h
    <3>1. NonNegative
      BY <1>1, <1>8 DEF NonNegative
    <3>2. ClientSums(h)
      BY <3>1 DEF IInv, SumsSound
    <3>3. \A type : SumTo(wallet[h].records, type, e) = Amount(wallet[h].records, type)
      BY <1>2, EndSound, CountAtEnd
    <3>4. wallet'[g] = wallet[h] /\ payments' = payments /\ client'[g] = client'[h]
      BY <1>1, <2>3
    <3>5. ClientSums(g)'
      BY <1>1, <1>5, <3>2, <3>3, <3>4 DEF ClientSums
    <3> QED
      BY <2>1, <3>5
  <2> QED
    BY <2>2, <2>3
<1> QED
  BY <1>1, <1>3, <1>6, <1>7, <1>8, QuietInv

-----------------------------------------------------------------------------
\* The daemon's next caller is the first of the queue.
LEMMA AcceptInv ==
  ASSUME IInv, NEW h \in Hosts, Accept(h)
  PROVE  IInv'
<1> DEFINE q == queue[h]
<1>0. TypeOK /\ \A g \in Hosts : HostSound(g)
  BY DEF IInv
<1>1. q # <<>> /\ UNCHANGED <<wallet, payments, client, line>>
  BY DEF Accept
<1>2. q \in Seq(Payments)
  BY <1>0, Types
<1>3. /\ Len(q) \in Nat /\ 1 \in 1 .. Len(q) /\ Head(q) = q[1] /\ Tail(q) \in Seq(Payments)
      /\ Len(Tail(q)) = Len(q) - 1
      /\ \A i \in 1 .. Len(Tail(q)) : i + 1 \in 1 .. Len(q) /\ Tail(q)[i] = q[i + 1]
  <2> HIDE DEF q
  <2> QED
    BY <1>1, <1>2
<1>4. /\ daemon'[h] = [at |-> "talk", id |-> Head(q), end |-> 0]
      /\ queue'[h] = Tail(q)
      /\ \A g \in Hosts : g # h => daemon'[g] = daemon[g] /\ queue'[g] = queue[g]
  BY <1>0 DEF TypeOK, Accept
<1>5. LineMoves
  BY <1>1 DEF LineMoves
<1>6. Head(q) \in Payments /\ Payments \subseteq 0 .. MaxPayments
  BY <1>3, ProcessIds DEF Payments
<1>7. TypeOK'
  <2>1. daemon' \in [Hosts -> [at : Turns, id : 0 .. MaxPayments, end : Nat]]
    BY <1>0, <1>6 DEF TypeOK, Turns, Accept
  <2>2. queue' \in [Hosts -> Seq(Payments)]
    BY <1>0, <1>3 DEF TypeOK, Accept
  <2> QED
    BY <1>0, <1>1, <2>1, <2>2, OtherTypes DEF TypeOK
<1>8. ASSUME NEW g \in Hosts PROVE ClientSound(g)' /\ DaemonSound(g)' /\ QueueSound(g)'
  <2>1. ClientSound(g) /\ DaemonSound(g) /\ QueueSound(h)
    BY <1>0 DEF HostSound
  <2>2. ClientSound(g)'
    BY <1>1, <1>5, <2>1, QuietStep DEF ClientSound
  <2>3. CASE g # h
    BY <1>1, <1>4, <1>5, <2>1, <2>2, <2>3, QuietStep DEF DaemonSound
  <2>4. CASE g = h
    <3>1. DaemonSound(g)'
      BY <1>1, <1>3, <1>4, <2>1, <2>4 DEF DaemonSound, QueueSound
    <3>2. QueueSound(g)'
      <4>1. ASSUME NEW i \in 1 .. Len(queue'[g])
            PROVE  /\ queue'[g][i] \in 1 .. Len(payments) /\ payments[queue'[g][i]].to = g
                   /\ line[queue'[g][i]] # "none"
        <5>1. i + 1 \in 1 .. Len(q) /\ queue'[g][i] = q[i + 1]
          BY <1>3, <1>4, <2>4
        <5> QED
          BY <2>1, <2>4, <5>1 DEF QueueSound
      <4> QED
        BY <1>1, <4>1 DEF QueueSound
    <3> QED
      BY <2>2, <3>1, <3>2
  <2> QED
    BY <2>3, <2>4
<1>9. ASSUME NonNegative', NEW g \in Hosts PROVE ClientSums(g)' /\ DaemonSums(g)'
  <2>1. daemon'[g] = daemon[g] \/ daemon'[g].at # "write"
    BY <1>4
  <2> QED
    BY <1>1, <1>9, <2>1, QuietSums
<1> QED
  BY <1>1, <1>5, <1>7, <1>8, <1>9, QuietInv

\* The daemon leaves its caller or takes its record, which nobody did before.
LEMMA TurnInv ==
  ASSUME IInv, NEW h \in Hosts, Turn(h)
  PROVE  IInv'
<1> DEFINE id == daemon[h].id
<1>0. TypeOK /\ PaidOnce /\ PaymentsSound /\ \A g \in Hosts : HostSound(g)
  BY DEF IInv
<1>1. daemon[h].at = "talk" /\ UNCHANGED <<wallet, payments, client, queue>>
  BY DEF Turn
<1>2. id \in 1 .. Len(payments) /\ id \in Payments /\ payments[id].to = h
  <2>1. DaemonSound(h)
    BY <1>0 DEF HostSound
  <2> QED
    BY <1>1, <2>1, ProcessIds DEF DaemonSound
<1>3. \/ /\ daemon' = [daemon EXCEPT ![h] = [at |-> "accept", id |-> 0, end |-> 0]]
         /\ line' = [line EXCEPT ![id] = "closed"]
      \/ /\ line[id] \in {"sent", "broken"}
         /\ line' = [line EXCEPT ![id] = IF @ = "sent" THEN "ended" ELSE "failed"]
         /\ daemon' = [daemon EXCEPT ![h].at = "append"]
  BY DEF Turn, HangUp
<1>4. /\ line'[id] \in {"ended", "failed", "closed"}
      /\ line[id] \in {"ended", "closed"} => line'[id] \in {"ended", "closed"}
      /\ \A p \in Payments \ {id} : line'[p] = line[p]
      /\ \A g \in Hosts : g # h => daemon'[g] = daemon[g]
  BY <1>0, <1>2, <1>3 DEF TypeOK
<1>5. \/ daemon'[h] = [at |-> "accept", id |-> 0, end |-> 0]
      \/ /\ daemon'[h].at = "append" /\ daemon'[h].id = id /\ line'[id] \in {"ended", "failed"}
         /\ line[id] \in {"sent", "broken"}
  <2>1. CASE daemon' = [daemon EXCEPT ![h] = [at |-> "accept", id |-> 0, end |-> 0]]
    BY <1>0, <2>1 DEF TypeOK
  <2>2. CASE /\ line[id] \in {"sent", "broken"}
             /\ line' = [line EXCEPT ![id] = IF @ = "sent" THEN "ended" ELSE "failed"]
             /\ daemon' = [daemon EXCEPT ![h].at = "append"]
    <3>1. daemon'[h] = [daemon[h] EXCEPT !.at = "append"]
      BY <1>0, <2>2 DEF TypeOK
    <3>2. line'[id] \in {"ended", "failed"}
      BY <1>0, <1>2, <2>2 DEF TypeOK
    <3> QED
      BY <1>0, <2>2, <3>1, <3>2, Types
  <2> QED
    BY <1>3, <2>1, <2>2
<1>6. LineMoves
  BY <1>2, <1>4 DEF LineMoves
<1>7. TypeOK'
  <2>1. daemon' \in [Hosts -> [at : Turns, id : 0 .. MaxPayments, end : Nat]]
    <3>1. daemon \in [Hosts -> [at : Turns, id : 0 .. MaxPayments, end : Nat]]
      BY <1>0 DEF TypeOK
    <3>2. [at |-> "accept", id |-> 0, end |-> 0] \in [at : Turns, id : 0 .. MaxPayments, end : Nat]
      BY WalletAssumption DEF Turns
    <3>3. [daemon[h] EXCEPT !.at = "append"] \in [at : Turns, id : 0 .. MaxPayments, end : Nat]
      BY <3>1 DEF Turns
    <3> QED
      BY <1>3, <3>1, <3>2, <3>3
  <2>2. line' \in [Payments -> {"none", "open", "sent", "ended", "broken", "failed", "closed"}]
    BY <1>0, <1>3 DEF TypeOK
  <2> QED
    BY <1>0, <1>1, <2>1, <2>2, OtherTypes DEF TypeOK
<1>8. ASSUME NEW g \in Hosts PROVE ClientSound(g)' /\ DaemonSound(g)' /\ QueueSound(g)'
  <2>1. ClientSound(g) /\ DaemonSound(g) /\ DaemonSound(h)
    BY <1>0 DEF HostSound
  <2>2. ClientSound(g)' /\ QueueSound(g)'
    <3>1. client[g].at = "connect" => client[g].id \in Payments
      BY ProcessIds
    <3>2. client[g].at = "connect" => line'[client[g].id] = "none"
      BY <1>1, <1>4, <2>1, <3>1 DEF ClientSound, DaemonSound
    <3> QED
      BY <1>1, <1>6, <3>2, QuietStep
  <2>3. CASE g # h
    <3>1. daemon[g].at # "accept" => daemon[g].id \in Payments
      BY ProcessIds
    <3>2. daemon[g].at \in {"append", "write"} => line'[daemon[g].id] \in {"ended", "failed"}
      BY <1>2, <1>4, <2>1, <2>3, <3>1 DEF DaemonSound
    <3> QED
      BY <1>1, <1>4, <1>6, <2>2, <2>3, <3>2, QuietStep
  <2>4. CASE g = h
    <3>1. CASE daemon'[h] = [at |-> "accept", id |-> 0, end |-> 0]
      BY <2>2, <2>4, <3>1 DEF DaemonSound
    <3>2. CASE /\ daemon'[h].at = "append" /\ daemon'[h].id = id /\ line'[id] \in {"ended", "failed"}
               /\ line[id] \in {"sent", "broken"}
      <4>1. ASSUME NEW i \in 1 .. Len(wallet[h].records), wallet[h].records[i].id = id
            PROVE  FALSE
        <5>1. id # 0
          BY <1>2
        <5>2. /\ h = IF wallet[h].records[i].type = "sent" THEN payments[id].from ELSE payments[id].to
              /\ wallet[h].records[i].type = "received" => line[id] \in {"ended", "closed"}
          BY <1>0, <4>1, <5>1 DEF PaidOnce
        <5>3. payments[id].from # h
          BY <1>0, <1>2 DEF PaymentsSound
        <5>4. wallet[h].records[i] \in Record /\ wallet[h].records[i].type # "cut"
          BY <1>0, <4>1, <5>1, RecordIds DEF HostSound, FileSound
        <5> QED
          BY <3>2, <5>2, <5>3, <5>4 DEF Record
      <4> QED
        BY <1>1, <1>2, <2>2, <2>4, <3>2, <4>1 DEF DaemonSound, Unrecorded
    <3> QED
      BY <1>5, <3>1, <3>2
  <2> QED
    BY <2>3, <2>4
<1>9. ASSUME NonNegative', NEW g \in Hosts PROVE ClientSums(g)' /\ DaemonSums(g)'
  <2>1. daemon'[g] = daemon[g] \/ daemon'[g].at # "write"
    BY <1>4, <1>5
  <2> QED
    BY <1>1, <1>9, <2>1, QuietSums
<1> QED
  BY <1>1, <1>6, <1>7, <1>8, <1>9, QuietInv

\* The daemon looks up the end: all that was received is before it.
LEMMA FindEndOfRecordsInv ==
  ASSUME IInv, NEW h \in Hosts, FindEndOfRecords(h)
  PROVE  IInv'
<1> DEFINE e == End(wallet[h].records)
<1>0. TypeOK /\ \A g \in Hosts : HostSound(g)
  BY DEF IInv
<1>1. daemon[h].at = "append" /\ UNCHANGED <<wallet, payments, client, queue, line>>
  BY DEF FindEndOfRecords
<1>2. e \in Nat /\ e >= Length[Initial]
  BY EndSound
<1>3. LineMoves
  BY <1>1 DEF LineMoves
<1>4. /\ daemon'[h] = [daemon[h] EXCEPT !.at = "write", !.end = e]
      /\ \A g \in Hosts : g # h => daemon'[g] = daemon[g]
  BY <1>0 DEF TypeOK, FindEndOfRecords
<1>5. daemon'[h].at = "write" /\ daemon'[h].id = daemon[h].id /\ daemon'[h].end = e
  BY <1>0, <1>4, Types
<1>6. TypeOK'
  <2>1. daemon' \in [Hosts -> [at : Turns, id : 0 .. MaxPayments, end : Nat]]
    <3>1. daemon[h] \in [at : Turns, id : 0 .. MaxPayments, end : Nat]
      BY <1>0, Types
    <3>2. [daemon[h] EXCEPT !.at = "write", !.end = e] \in [at : Turns, id : 0 .. MaxPayments, end : Nat]
      <4> HIDE DEF e
      <4> QED
        BY <1>2, <3>1 DEF Turns
    <3>3. daemon' = [daemon EXCEPT ![h] = [daemon[h] EXCEPT !.at = "write", !.end = e]]
      BY <1>0 DEF TypeOK, FindEndOfRecords
    <3> QED
      BY <1>0, <3>2, <3>3 DEF TypeOK
  <2> QED
    BY <1>0, <1>1, <2>1, OtherTypes DEF TypeOK
<1>7. ASSUME NEW g \in Hosts PROVE ClientSound(g)' /\ DaemonSound(g)' /\ QueueSound(g)'
  <2>1. ClientSound(g) /\ DaemonSound(g)
    BY <1>0 DEF HostSound
  <2>2. QueueSound(g)' /\ ClientSound(g)'
    BY <1>1, <1>3, <2>1, QuietStep DEF ClientSound
  <2>4. CASE g = h
    BY <1>1, <1>2, <1>5, <2>1, <2>2, <2>4 DEF DaemonSound, Unrecorded
  <2>5. CASE g # h
    BY <1>1, <1>3, <1>4, <2>1, <2>2, <2>5, QuietStep DEF DaemonSound
  <2> QED
    BY <2>4, <2>5
<1>8. ASSUME NonNegative', NEW g \in Hosts PROVE ClientSums(g)' /\ DaemonSums(g)'
  <2>1. ClientSums(g)'
    BY <1>1, <1>8, QuietSums
  <2>2. CASE g # h
    BY <1>1, <1>4, <1>8, <2>1, <2>2, QuietSums
  <2>3. CASE g = h
    <3>1. \A type : SumTo(wallet[h].records, type, e) = Amount(wallet[h].records, type)
      BY <1>2, EndSound, CountAtEnd
    <3>2. wallet'[g] = wallet[h] /\ daemon'[g] = daemon'[h]
      BY <1>1, <2>3
    <3> QED
      BY <1>5, <2>1, <3>1, <3>2 DEF DaemonSums
  <2> QED
    BY <2>2, <2>3
<1> QED
  BY <1>1, <1>3, <1>6, <1>7, <1>8, QuietInv

-----------------------------------------------------------------------------
\* The record of a payment of a host that is not in its file yet.
IsPayment(h, new) ==
  /\ new.id \in 1 .. Len(payments) /\ new.type \in Sums
  /\ new.amount = payments[new.id].amount
  /\ h = IF new.type = "sent" THEN payments[new.id].from ELSE payments[new.id].to
  /\ new.type = "received" => line[new.id] = "ended"
  /\ Unrecorded(h, new.id)

IsCut(r) == r.id = 0 /\ r.type = "cut" /\ r.amount = Initial

\* One of the processes of a host writes the record of a payment, or an empty one,
\* at a position behind the first record.
Writes(h, position, new) ==
  /\ position \in Nat /\ position >= Length[Initial]
  /\ new \in Record /\ new.ends > position
  /\ IsPayment(h, new) \/ IsCut(new)
  /\ wallet' = [wallet EXCEPT ![h] = Written(@, position, new)]
  /\ UNCHANGED <<payments, line>>

\* What such a step does to the file.
LEMMA WriteStep ==
  ASSUME IInv, NEW h \in Hosts, NEW position, NEW new, Writes(h, position, new)
  PROVE  /\ wallet'[h] = Written(wallet[h], position, new)
         /\ wallet'[h] \in [records : Seq(Record), junk : Nat]
         /\ wallet' \in [Hosts -> [records : Seq(Record), junk : Nat]]
         /\ \A g \in Hosts : g # h => wallet'[g] = wallet[g]
         /\ wallet'[h].records # <<>> /\ wallet'[h].records[1] = First
         /\ Ordered(wallet'[h].records)
<1>0. TypeOK /\ PaymentsSound /\ HostSound(h)
  BY DEF IInv
<1>1. position \in Nat /\ position >= Length[Initial] /\ new \in Record /\ new.ends > position
  BY DEF Writes
<1>4. /\ wallet'[h] = Written(wallet[h], position, new)
      /\ \A g \in Hosts : g # h => wallet'[g] = wallet[g]
  BY <1>0 DEF TypeOK, Writes
<1>5. /\ wallet[h] \in [records : Seq(Record), junk : Nat] /\ wallet[h].records # <<>>
      /\ wallet[h].records[1] = First
      /\ Ordered(wallet[h].records) /\ wallet[h].records[1].ends <= position
  BY <1>0, <1>1, Types, EndSound DEF HostSound, FileSound
<1>6. /\ wallet'[h] \in [records : Seq(Record), junk : Nat] /\ wallet'[h].records # <<>>
      /\ wallet'[h].records[1] = First /\ Ordered(wallet'[h].records)
  <2> DEFINE w == wallet[h]
             v == wallet'[h]
             s == w.records
  <2>1. /\ w \in [records : Seq(Record), junk : Nat] /\ s = w.records /\ s # <<>>
        /\ Ordered(s) /\ s[1] = First /\ s[1].ends <= position /\ v = Written(w, position, new)
    BY <1>4, <1>5
  <2> HIDE DEF w, v, s
  <2>2. /\ v \in [records : Seq(Record), junk : Nat] /\ v.records # <<>>
        /\ v.records[1] = First /\ Ordered(v.records)
    BY <1>1, <2>1, WrittenRecords
  <2> QED
    BY <2>2 DEF v
<1>7. wallet' \in [Hosts -> [records : Seq(Record), junk : Nat]]
  <2>1. wallet' = [wallet EXCEPT ![h] = wallet'[h]]
    BY <1>4 DEF Writes
  <2>2. wallet \in [Hosts -> [records : Seq(Record), junk : Nat]]
    BY <1>0 DEF TypeOK
  <2> QED
    BY <1>6, <2>1, <2>2
<1> QED
  BY <1>4, <1>6, <1>7

\* A record of the file is one that was there, at the same place, or what is left
\* of one, or that of the payment, at the end.
LEMMA WriteElements ==
  ASSUME IInv, NEW h \in Hosts, NEW position, NEW new, Writes(h, position, new),
         NEW i \in 1 .. Len(wallet'[h].records)
  PROVE  LET s == wallet[h].records
             t == wallet'[h].records
         IN \/ i \in 1 .. Len(s) /\ t[i] = s[i]
            \/ IsCut(t[i])
            \/ i = Len(t) /\ t[i] = new
<1> DEFINE s == wallet[h].records
           t == wallet'[h].records
<1>1. t = Written(wallet[h], position, new).records
  BY WriteStep
<1>2. position \in Nat /\ position >= Length[Initial] /\ new \in Record /\ new.ends > position
  BY DEF Writes
<1>3. /\ wallet[h] \in [records : Seq(Record), junk : Nat] /\ s # <<>>
      /\ Ordered(s) /\ s[1].ends <= position
  BY <1>2, Types, EndSound DEF IInv
<1>4. \/ i \in 1 .. Len(s) /\ t[i] = s[i]
      \/ t[i] = Cut(position)
      \/ i = Len(t) /\ t[i] = new
  <2> DEFINE w == wallet[h]
  <2>1. /\ w \in [records : Seq(Record), junk : Nat] /\ s = w.records
        /\ t = Written(w, position, new).records /\ i \in 1 .. Len(t)
        /\ s # <<>> /\ Ordered(s) /\ s[1].ends <= position
    <3>1. s[1].ends <= position
      BY <1>3
    <3> QED
      BY <1>1, <1>3, <3>1
  <2>2. /\ \/ i \in 1 .. Len(s) /\ t[i] = s[i]
           \/ t[i] = Cut(position)
           \/ i = Len(t) /\ t[i] = new
    <3> HIDE DEF w, s, t
    <3> QED
      BY <1>2, <2>1, WrittenElements
  <2> QED
    BY <2>2
<1>5. IsCut(Cut(position))
  BY DEF Cut, IsCut
<1> QED
  BY <1>4, <1>5

\* It keeps what is said of the files.
LEMMA WriteKeepsFiles ==
  ASSUME IInv, NEW h \in Hosts, NEW position, NEW new, Writes(h, position, new)
  PROVE  /\ PaidOnce' /\ PaymentsSound' /\ \A g \in Hosts : FileSound(g)'
         /\ \A g \in Hosts : \A x \in Payments \ {new.id} :
              Unrecorded(g, x) =>
                \A i \in 1 .. Len(wallet'[g].records) : wallet'[g].records[i].id # x
<1> DEFINE s == wallet[h].records
           t == wallet'[h].records
<1>0. TypeOK /\ PaidOnce /\ PaymentsSound /\ \A g \in Hosts : HostSound(g)
  BY DEF IInv
<1>1. /\ UNCHANGED <<payments, line>> /\ Len(payments) \in Nat
      /\ \/ IsCut(new)
         \/ /\ IsPayment(h, new) /\ \A i \in 1 .. Len(s) : s[i].id # new.id
  BY <1>0, Types DEF Writes, IsPayment, Unrecorded
<1>2. ASSUME NEW i \in 1 .. Len(t)
      PROVE  \/ i \in 1 .. Len(s) /\ t[i] = s[i]
             \/ IsCut(t[i])
             \/ i = Len(t) /\ t[i] = new /\ IsPayment(h, new)
  BY <1>1, WriteElements
<1>3. /\ \A g \in Hosts : g # h => wallet'[g] = wallet[g]
      /\ t # <<>> /\ t[1] = First /\ Ordered(t)
  BY WriteStep
<1>4. ASSUME NEW g \in Hosts PROVE FileSound(g)'
  <2>1. FileSound(g) /\ FileSound(h)
    BY <1>0 DEF HostSound
  <2>2. CASE g # h
    <3>1. wallet'[g] = wallet[g] /\ payments' = payments
      BY <1>1, <1>3, <2>2
    <3> QED
      BY <2>1, <3>1 DEF FileSound
  <2>3. CASE g = h
    <3>1. ASSUME NEW i \in 1 .. Len(t)
          PROVE  /\ t[i].id <= Len(payments)
                 /\ t[i].id = 0 => t[i].amount = Initial
                 /\ t[i].type = "cut" => t[i].id = 0
      <4>1. CASE i \in 1 .. Len(s) /\ t[i] = s[i]
        BY <2>1, <4>1 DEF FileSound
      <4>2. CASE IsCut(t[i])
        BY <1>1, <4>2 DEF IsCut
      <4>3. CASE t[i] = new /\ IsPayment(h, new)
        <5>1. new.id # 0 /\ new.id <= Len(payments) /\ new.type # "cut"
          BY <4>3 DEF IsPayment, Sums
        <5> QED
          BY <4>3, <5>1
      <4> QED
        BY <1>2, <4>1, <4>2, <4>3
    <3>2. wallet'[g].records = t /\ payments' = payments
      BY <1>1, <2>3
    <3> HIDE DEF s, t
    <3> QED
      BY <1>3, <3>1, <3>2 DEF FileSound, First
  <2> QED
    BY <2>2, <2>3
<1>5. ASSUME NEW g \in Hosts, NEW x \in Payments \ {new.id}, Unrecorded(g, x),
             NEW i \in 1 .. Len(wallet'[g].records)
      PROVE  wallet'[g].records[i].id # x
  <2>1. CASE g # h
    BY <1>3, <1>5, <2>1 DEF Unrecorded
  <2>2. CASE g = h
    <3>1. x # 0
      BY DEF Payments
    <3>2. i \in 1 .. Len(t)
      BY <2>2
    <3>3. t[i].id \in {0, new.id} \/ (i \in 1 .. Len(s) /\ t[i] = s[i])
      BY <1>2, <3>2 DEF IsCut
    <3> QED
      BY <1>5, <2>2, <3>1, <3>3 DEF Unrecorded
  <2> QED
    BY <2>1, <2>2
<1>6. PaidOnce'
  <2> SUFFICES ASSUME NEW g \in Hosts, NEW i \in 1 .. Len(wallet'[g].records),
                      wallet'[g].records[i].id # 0
               PROVE  LET r == wallet'[g].records[i]
                      IN /\ r.amount = payments'[r.id].amount
                         /\ g = IF r.type = "sent" THEN payments'[r.id].from ELSE payments'[r.id].to
                         /\ r.type = "received" => line'[r.id] \in {"ended", "closed"}
                         /\ \A j \in 1 .. Len(wallet'[g].records) :
                              wallet'[g].records[j].id = r.id => i = j
    BY DEF PaidOnce
  <2>1. CASE g # h
    <3>1. wallet'[g] = wallet[g] /\ payments' = payments /\ line' = line
      BY <1>1, <1>3, <2>1
    <3>2. LET r == wallet[g].records[i]
          IN /\ r.amount = payments[r.id].amount
             /\ g = IF r.type = "sent" THEN payments[r.id].from ELSE payments[r.id].to
             /\ r.type = "received" => line[r.id] \in {"ended", "closed"}
             /\ \A j \in 1 .. Len(wallet[g].records) :
                  wallet[g].records[j].id = r.id => i = j
      BY <1>0, <3>1 DEF PaidOnce
    <3> QED
      BY <3>1, <3>2
  <2>2. CASE g = h
    <3>1. i \in 1 .. Len(t) /\ t[i].id # 0 /\ wallet'[g].records = t
      BY <2>2
    <3>2. CASE i \in 1 .. Len(s) /\ t[i] = s[i]
      <4>1. /\ s[i].amount = payments[s[i].id].amount
            /\ h = IF s[i].type = "sent" THEN payments[s[i].id].from ELSE payments[s[i].id].to
            /\ s[i].type = "received" => line[s[i].id] \in {"ended", "closed"}
            /\ \A j \in 1 .. Len(s) : s[j].id = s[i].id => i = j
        BY <1>0, <3>1, <3>2 DEF PaidOnce
      <4>2. ASSUME NEW j \in 1 .. Len(t), t[j].id = s[i].id PROVE i = j
        <5>1. (IsPayment(h, new) => s[i].id # new.id) /\ s[i].id # 0
          BY <1>1, <3>1, <3>2 DEF IsPayment, IsCut
        <5>2. j \in 1 .. Len(s) /\ t[j] = s[j]
          BY <1>2, <4>2, <5>1 DEF IsCut
        <5> QED
          BY <4>1, <4>2, <5>2
      <4> HIDE DEF s, t
      <4>3. /\ t[i].amount = payments'[t[i].id].amount
            /\ g = IF t[i].type = "sent" THEN payments'[t[i].id].from ELSE payments'[t[i].id].to
            /\ t[i].type = "received" => line'[t[i].id] \in {"ended", "closed"}
        BY <1>1, <2>2, <3>2, <4>1
      <4> QED
        BY <3>1, <3>2, <4>2, <4>3
    <3>3. CASE i = Len(t) /\ t[i] = new /\ IsPayment(h, new)
      <4>1. ASSUME NEW j \in 1 .. Len(t), t[j].id = new.id PROVE i = j
        <5>1. new.id # 0 /\ \A m \in 1 .. Len(s) : s[m].id # new.id
          <6>1. IsPayment(h, new)
            BY <3>3
          <6> QED
            BY <1>0, <6>1 DEF IsPayment, Unrecorded
        <5> QED
          BY <1>2, <3>3, <4>1, <5>1 DEF IsCut
      <4> HIDE DEF s, t
      <4> QED
        BY <1>1, <2>2, <3>1, <3>3, <4>1 DEF IsPayment
    <3>4. ~ IsCut(t[i])
      BY <3>1 DEF IsCut
    <3> QED
      BY <1>2, <3>1, <3>2, <3>3, <3>4
  <2> QED
    BY <2>1, <2>2
<1>7. PaymentsSound'
  BY <1>0, <1>1 DEF PaymentsSound
<1> QED
  BY <1>4, <1>5, <1>6, <1>7

\* The sums of the file, before and after.
LEMMA WriteSums ==
  ASSUME IInv, NonNegative, NEW h \in Hosts, NEW position, NEW new,
         Writes(h, position, new), NEW other \in Sums
  PROVE  LET s == wallet[h].records
             t == wallet'[h].records
             a == new.amount
         IN /\ a \in Int /\ a >= 0
            /\ Amount(s, other) \in Int /\ SumTo(s, other, position) \in Int
            /\ SumTo(s, other, position) <= Amount(s, other)
            /\ \A q \in Nat : /\ SumTo(s, other, q) \in Int
                              /\ SumTo(s, other, q) <= Amount(s, other)
                              /\ q <= position => SumTo(s, other, q) <= SumTo(s, other, position)
                              /\ q >= position => SumTo(s, other, position) <= SumTo(s, other, q)
            /\ \/ t = s
               \/ /\ Amount(t, other)
                       = SumTo(s, other, position) + (IF new.type = other THEN a ELSE 0)
                  /\ \A q \in Nat : q < position => SumTo(t, other, q) = SumTo(s, other, q)
                  /\ \A q \in Nat : q >= position =>
                       SumTo(t, other, q) \in {SumTo(s, other, position), Amount(t, other)}
<1> DEFINE s == wallet[h].records
           t == wallet'[h].records
           a == new.amount
<1>1. t = Written(wallet[h], position, new).records
  BY WriteStep
<1>2. /\ position \in Nat /\ position >= Length[Initial] /\ new \in Record /\ new.ends > position
      /\ IsPayment(h, new) \/ IsCut(new)
  BY DEF Writes
<1>3. /\ wallet[h] \in [records : Seq(Record), junk : Nat] /\ s # <<>> /\ s \in Seq(Record)
      /\ Ordered(s) /\ s[1].ends <= position /\ End(s) \in Nat
  BY <1>2, Types, EndSound DEF IInv
<1>4. a \in Int /\ a >= 0
  <2>1. a \in Int
    BY <1>2, RecordAmount
  <2>2. CASE IsCut(new)
    BY <2>1, <2>2, WalletAssumption DEF IsCut
  <2>3. CASE IsPayment(h, new)
    BY <2>1, <2>3 DEF IsPayment, NonNegative
  <2> QED
    BY <1>2, <2>1, <2>2, <2>3
<1>5. \A i \in 1 .. Len(s) : s[i].amount >= 0
  BY AmountsNatural
<1> HIDE DEF s, a
<1>6. ASSUME NEW q \in Nat
      PROVE  /\ SumTo(s, other, q) \in Int /\ Amount(s, other) \in Int
             /\ SumTo(s, other, q) <= Amount(s, other)
             /\ q <= position => SumTo(s, other, q) <= SumTo(s, other, position)
             /\ q >= position => SumTo(s, other, position) <= SumTo(s, other, q)
  <2>1. q <= position \/ q >= position
    BY <1>2
  <2>2. CASE q <= position
    <3>1. /\ SumTo(s, other, q) \in Int /\ SumTo(s, other, position) \in Int
          /\ Amount(s, other) \in Int /\ SumTo(s, other, q) <= SumTo(s, other, position)
          /\ SumTo(s, other, position) <= Amount(s, other)
      BY <1>2, <1>3, <1>5, <2>2, SumToMonotone
    <3>2. q >= position => q = position
      BY <1>2, <2>2
    <3> QED
      BY <3>1, <3>2
  <2>3. CASE q >= position
    <3>1. position <= q
      BY <1>2, <2>3
    <3> QED
      <4>1. /\ SumTo(s, other, q) \in Int /\ SumTo(s, other, position) \in Int
            /\ Amount(s, other) \in Int /\ SumTo(s, other, position) <= SumTo(s, other, q)
            /\ SumTo(s, other, q) <= Amount(s, other)
        BY <1>2, <1>3, <1>5, <3>1, SumToMonotone
      <4>2. q <= position => q = position
        BY <1>2, <2>3
      <4> QED
        BY <4>1, <4>2
  <2> QED
    BY <2>1, <2>2, <2>3
<1>7. CASE position > End(s)
  <2>1. ~(position <= End(s))
    BY <1>2, <1>3, <1>7
  <2>2. t = s
    BY <1>1, <1>2, <1>3, <2>1, WrittenRecords DEF s
  <2> QED
    BY <1>2, <1>4, <1>6, <2>2 DEF s, a
<1>8. CASE position <= End(s)
  <2> HIDE DEF t
  <2>1. /\ Amount(t, other) = SumTo(s, other, position) + (IF new.type = other THEN a ELSE 0)
        /\ \A q \in Nat : q < position => SumTo(t, other, q) = SumTo(s, other, q)
        /\ \A q \in Nat : q >= position =>
             SumTo(t, other, q) \in {SumTo(s, other, position), Amount(t, other)}
    <3> DEFINE w == wallet[h]
    <3>1. /\ w \in [records : Seq(Record), junk : Nat] /\ s = w.records
          /\ t = Written(w, position, new).records
      BY <1>1, <1>3 DEF s, t
    <3> HIDE DEF w
    <3> QED
      BY <1>2, <1>3, <1>8, <3>1, WrittenSums DEF a
  <2> QED
    BY <1>2, <1>4, <1>6, <2>1 DEF s, t, a
<1> QED
  BY <1>2, <1>3, <1>7, <1>8

\* A step that writes keeps the invariant when it keeps its part about the processes.
LEMMA WriteInv ==
  ASSUME IInv, NEW h \in Hosts, NEW position, NEW new, Writes(h, position, new),
         client' \in [Hosts -> [at : Steps, id : 0 .. MaxPayments, end : Nat]],
         daemon' \in [Hosts -> [at : Turns, id : 0 .. MaxPayments, end : Nat]],
         queue' = queue,
         \A g \in Hosts : ClientSound(g)' /\ DaemonSound(g)',
         NonNegative' => \A g \in Hosts : ClientSums(g)' /\ DaemonSums(g)'
  PROVE  IInv'
<1>0. TypeOK /\ UNCHANGED <<payments, line>>
  BY DEF IInv, Writes
<1>1. TypeOK'
  BY <1>0, WriteStep DEF TypeOK
<1>2. ASSUME NEW g \in Hosts PROVE QueueSound(g)'
  BY <1>0 DEF IInv, HostSound, QueueSound
<1>3. PaidOnce' /\ PaymentsSound' /\ \A g \in Hosts : FileSound(g)'
  BY WriteKeepsFiles
<1> QED
  BY <1>1, <1>2, <1>3 DEF IInv, HostSound, SumsSound

\* What is written of a payment is a record that ends behind its position.
LEMMA NewRecord ==
  ASSUME IInv, NEW h \in Hosts, NEW position \in Nat, NEW id \in 1 .. Len(payments),
         NEW type \in Sums
  PROVE  LET new == RecordAt(position, id, type)
         IN /\ new \in Record /\ new.ends > position
            /\ new.id = id /\ new.type = type /\ new.amount = payments[id].amount
<1> DEFINE a == payments[id].amount
<1>1. a \in Amounts
  <2>1. payments[id] \in [from : Hosts, to : Hosts, amount : Amounts, exact : BOOLEAN]
    BY Types DEF IInv
  <2> QED
    BY <2>1
<1>2. id \in 0 .. MaxPayments
  BY Types, WalletAssumption DEF IInv, PaymentsSound
<1>3. RecordAt(position, id, type) = [id |-> id, type |-> type, amount |-> a,
                                      ends |-> position + Length[a]]
  BY DEF RecordAt
<1> HIDE DEF a
<1>4. position + Length[a] \in Nat /\ position + Length[a] > position
  BY <1>1, WalletAssumption
<1> QED
  BY <1>1, <1>2, <1>3, <1>4 DEF Record, Sums, a

\* The command line appends its record; it has no payment any more.
LEMMA SaveInv ==
  ASSUME IInv, NEW h \in Hosts, Save(h)
  PROVE  IInv'
<1> DEFINE id == client[h].id
           p == client[h].end
           s == wallet[h].records
           t == wallet'[h].records
           new == RecordAt(p, id, "sent")
<1>0. TypeOK /\ PaidOnce /\ PaymentsSound /\ \A g \in Hosts : HostSound(g)
  BY DEF IInv
<1>1. client[h].at = "write" /\ UNCHANGED <<payments, daemon, queue, line>>
  BY DEF Save
<1>2. /\ Writes(h, p, new) /\ new.id = id /\ new.type = "sent" /\ new.amount = payments[id].amount
      /\ payments[id].from = h /\ id \in 1 .. Len(payments)
  <2>1. /\ p \in Nat /\ p >= Length[Initial] /\ id \in 1 .. Len(payments)
        /\ payments[id].from = h /\ Unrecorded(h, id)
    BY <1>0, <1>1, Types DEF HostSound, ClientSound
  <2>2. wallet' = [wallet EXCEPT ![h] = Written(@, p, new)]
    BY DEF Save
  <2>3. "sent" \in Sums
    BY DEF Sums
  <2> HIDE DEF p, id
  <2>4. /\ new \in Record /\ new.ends > p
        /\ new.id = id /\ new.type = "sent" /\ new.amount = payments[id].amount
    BY <2>1, <2>3, NewRecord
  <2> HIDE DEF new
  <2>5. IsPayment(h, new)
    BY <2>1, <2>3, <2>4 DEF IsPayment
  <2> QED
    BY <1>1, <2>1, <2>2, <2>4, <2>5 DEF Writes
<1> HIDE DEF new
<1>3. /\ client'[h] = [at |-> "idle", id |-> 0, end |-> 0]
      /\ \A g \in Hosts : g # h => client'[g] = client[g]
  BY <1>0 DEF TypeOK, Save
<1>4. \A g \in Hosts : g # h => wallet'[g] = wallet[g]
  BY <1>2, WriteStep
<1>5. client' \in [Hosts -> [at : Steps, id : 0 .. MaxPayments, end : Nat]]
  BY <1>0, WalletAssumption DEF TypeOK, Steps, Save
<1>6. daemon' \in [Hosts -> [at : Turns, id : 0 .. MaxPayments, end : Nat]]
  BY <1>0, <1>1 DEF TypeOK
<1>7. ASSUME NEW g \in Hosts PROVE ClientSound(g)'
  <2>1. CASE g = h
    BY <1>3, <2>1 DEF ClientSound
  <2>2. CASE g # h
    <3>1. ClientSound(g)
      BY <1>0 DEF HostSound
    <3> QED
      BY <1>1, <1>3, <1>4, <2>2, <3>1 DEF ClientSound, Unrecorded
  <2> QED
    BY <2>1, <2>2
<1>8. ASSUME NEW g \in Hosts PROVE DaemonSound(g)'
  <2>1. DaemonSound(g)
    BY <1>0 DEF HostSound
  <2>2. CASE g = h
    <3>1. payments[id].from = h /\ id \in 1 .. Len(payments)
      BY <1>2
    <3>2. daemon[h].at # "accept" => daemon[h].id \in Payments \ {id}
      <4>1. payments[id].from # payments[id].to
        BY <1>0, <3>1 DEF PaymentsSound
      <4> QED
        BY <2>1, <2>2, <3>1, <4>1, ProcessIds DEF DaemonSound
    <3>3. daemon[h].at \in {"append", "write"} =>
            \A i \in 1 .. Len(wallet'[h].records) : wallet'[h].records[i].id # daemon[h].id
      BY <1>2, <2>1, <2>2, <3>2, WriteKeepsFiles DEF DaemonSound
    <3> QED
      BY <1>1, <2>1, <2>2, <3>3 DEF DaemonSound, Unrecorded
  <2>3. CASE g # h
    BY <1>1, <1>4, <2>1, <2>3 DEF DaemonSound, Unrecorded
  <2> QED
    BY <2>2, <2>3
<1>9. ASSUME NonNegative', NEW g \in Hosts PROVE ClientSums(g)' /\ DaemonSums(g)'
  <2>1. NonNegative
    BY <1>1, <1>9 DEF NonNegative
  <2>2. ClientSums(g) /\ DaemonSums(g)
    BY <2>1 DEF IInv, SumsSound
  <2>3. CASE g # h
    BY <1>1, <1>3, <1>4, <2>2, <2>3 DEF ClientSums, DaemonSums
  <2>4. CASE g = h
    <3> DEFINE a == payments[id].amount
    <3>1. /\ Amount(s, "sent") <= Amount(s, "received")
          /\ SumTo(s, "sent", p) + a <= SumTo(s, "received", p)
          /\ daemon[h].at = "write" => SumTo(s, "received", daemon[h].end) = Amount(s, "received")
      BY <1>1, <2>2, <2>4 DEF ClientSums, DaemonSums
    <3>2. p \in Nat /\ daemon[h].end \in Nat
      BY <1>0, Types
    <3>3. /\ a \in Int
          /\ SumTo(s, "received", p) \in Int
          /\ SumTo(s, "received", p) <= Amount(s, "received")
          /\ \A q \in Nat : q <= p => SumTo(s, "received", q) <= SumTo(s, "received", p)
          /\ \/ t = s
             \/ /\ Amount(t, "received") = SumTo(s, "received", p) + 0
                /\ \A q \in Nat : q < p => SumTo(t, "received", q) = SumTo(s, "received", q)
                /\ \A q \in Nat : q >= p =>
                     SumTo(t, "received", q) \in {SumTo(s, "received", p), Amount(t, "received")}
      <4>1. "received" \in Sums /\ "sent" # "received"
        BY DEF Sums
      <4> QED
        BY <1>2, <2>1, <4>1, WriteSums
    <3>4. Amount(s, "received") \in Int /\ SumTo(s, "sent", p) \in Int
          /\ (t = s \/ Amount(t, "sent") = SumTo(s, "sent", p) + a)
      <4>1. "received" \in Sums /\ "sent" \in Sums
        BY DEF Sums
      <4> QED
        BY <1>2, <2>1, <4>1, WriteSums
    <3> HIDE DEF a, p, s, t
    <3>5. Amount(t, "sent") <= Amount(t, "received")
      BY <3>1, <3>3, <3>4
    <3>6. daemon[h].at = "write" => SumTo(t, "received", daemon[h].end) = Amount(t, "received")
      <4> DEFINE q == daemon[h].end
      <4>1. q \in Nat
        BY <3>2
      <4>2. daemon[h].at = "write" => SumTo(s, "received", q) = Amount(s, "received")
        BY <3>1
      <4> HIDE DEF q
      <4>3. CASE q < p
        <5>1. q <= p
          BY <3>2, <4>1, <4>3
        <5> QED
          BY <3>3, <3>4, <4>1, <4>2, <4>3, <5>1 DEF q
      <4>4. CASE q >= p
        BY <3>3, <4>1, <4>2, <4>4 DEF q
      <4> QED
        BY <3>2, <4>1, <4>3, <4>4
    <3>7. ClientSums(h)'
      BY <1>3, <3>5 DEF ClientSums, t
    <3>8. DaemonSums(h)'
      BY <1>1, <3>6 DEF DaemonSums, t
    <3> QED
      BY <2>4, <3>7, <3>8
  <2> QED
    BY <2>3, <2>4
<1> QED
  BY <1>1, <1>2, <1>5, <1>6, <1>7, <1>8, <1>9, WriteInv

\* The daemon appends its record; what was received before is kept.
LEMMA AppendRecordInv ==
  ASSUME IInv, NEW h \in Hosts, AppendRecord(h)
  PROVE  IInv'
<1> DEFINE id == daemon[h].id
           p == daemon[h].end
           s == wallet[h].records
           t == wallet'[h].records
           new == IF line[id] = "failed" THEN Cut(p + 1) ELSE RecordAt(p, id, "received")
<1>0. TypeOK /\ PaidOnce /\ PaymentsSound /\ \A g \in Hosts : HostSound(g)
  BY DEF IInv
<1>1. daemon[h].at = "write" /\ UNCHANGED <<payments, client, queue, line>>
  BY DEF AppendRecord
<1>2. /\ Writes(h, p, new) /\ new.id \in {0, id} /\ new.type # "sent"
      /\ payments[id].to = h /\ id \in 1 .. Len(payments)
  <2>1. /\ p \in Nat /\ p >= Length[Initial] /\ id \in 1 .. Len(payments)
        /\ payments[id].to = h /\ Unrecorded(h, id) /\ line[id] \in {"ended", "failed"}
    BY <1>0, <1>1, Types DEF HostSound, DaemonSound
  <2>2. wallet' = [wallet EXCEPT ![h] = Written(@, p, new)]
    BY DEF AppendRecord
  <2>3. "received" \in Sums
    BY DEF Sums
  <2> HIDE DEF p, id
  <2>4. CASE line[id] = "failed"
    <3>1. new = Cut(p + 1)
      BY <2>4
    <3>2. Cut(p + 1) \in Record /\ Cut(p + 1).ends > p /\ IsCut(Cut(p + 1))
      BY <2>1, WalletAssumption DEF Cut, Record, IsCut
    <3> HIDE DEF new
    <3>3. new \in Record /\ new.ends > p /\ IsCut(new)
      BY <3>1, <3>2
    <3> QED
      BY <1>1, <2>1, <2>2, <3>3 DEF Writes, IsCut
  <2>5. CASE line[id] = "ended"
    <3>1. new = RecordAt(p, id, "received")
      BY <2>5
    <3> HIDE DEF new
    <3>2. /\ new \in Record /\ new.ends > p
          /\ new.id = id /\ new.type = "received" /\ new.amount = payments[id].amount
      BY <2>1, <2>3, <3>1, NewRecord
    <3>3. IsPayment(h, new)
      BY <2>1, <2>3, <2>5, <3>2 DEF IsPayment
    <3> QED
      BY <1>1, <2>1, <2>2, <3>2, <3>3 DEF Writes
  <2> QED
    BY <2>1, <2>4, <2>5
<1> HIDE DEF new
<1>3. /\ daemon'[h] = [daemon[h] EXCEPT !.at = "talk", !.end = 0]
      /\ \A g \in Hosts : g # h => daemon'[g] = daemon[g]
  BY <1>0 DEF TypeOK, AppendRecord
<1>4. \A g \in Hosts : g # h => wallet'[g] = wallet[g]
  BY <1>2, WriteStep
<1>5. daemon' \in [Hosts -> [at : Turns, id : 0 .. MaxPayments, end : Nat]]
  <2>1. daemon \in [Hosts -> [at : Turns, id : 0 .. MaxPayments, end : Nat]]
    BY <1>0 DEF TypeOK
  <2>2. [daemon[h] EXCEPT !.at = "talk", !.end = 0] \in [at : Turns, id : 0 .. MaxPayments, end : Nat]
    BY <2>1 DEF Turns
  <2>3. daemon' = [daemon EXCEPT ![h] = [daemon[h] EXCEPT !.at = "talk", !.end = 0]]
    BY <2>1 DEF AppendRecord
  <2> QED
    BY <2>1, <2>2, <2>3
<1>6. client' \in [Hosts -> [at : Steps, id : 0 .. MaxPayments, end : Nat]]
  BY <1>0, <1>1 DEF TypeOK
<1>7. daemon'[h].at = "talk" /\ daemon'[h].id = id
  BY <1>0, <1>3, Types
<1>8. ASSUME NEW g \in Hosts PROVE DaemonSound(g)'
  <2>1. DaemonSound(g)
    BY <1>0 DEF HostSound
  <2>2. CASE g = h
    BY <1>1, <1>7, <2>1, <2>2 DEF DaemonSound
  <2>3. CASE g # h
    BY <1>1, <1>3, <1>4, <2>1, <2>3 DEF DaemonSound, Unrecorded
  <2> QED
    BY <2>2, <2>3
<1>9. ASSUME NEW g \in Hosts PROVE ClientSound(g)'
  <2>1. ClientSound(g)
    BY <1>0 DEF HostSound
  <2>2. CASE g = h
    <3>1. payments[id].to = h /\ id \in 1 .. Len(payments)
      BY <1>2
    <3>2. client[h].at # "idle" => client[h].id \in Payments \ {0, id}
      <4>1. payments[id].from # payments[id].to
        BY <1>0, <3>1 DEF PaymentsSound
      <4> QED
        BY <2>1, <2>2, <3>1, <4>1, ProcessIds DEF ClientSound, Payments
    <3>3. client[h].at # "idle" =>
            \A i \in 1 .. Len(wallet'[h].records) : wallet'[h].records[i].id # client[h].id
      BY <1>2, <2>1, <2>2, <3>2, WriteKeepsFiles DEF ClientSound
    <3> QED
      BY <1>1, <2>1, <2>2, <3>3 DEF ClientSound, Unrecorded
  <2>3. CASE g # h
    BY <1>1, <1>4, <2>1, <2>3 DEF ClientSound, Unrecorded
  <2> QED
    BY <2>2, <2>3
<1>10. ASSUME NonNegative', NEW g \in Hosts PROVE ClientSums(g)' /\ DaemonSums(g)'
  <2>1. NonNegative
    BY <1>1, <1>10 DEF NonNegative
  <2>2. ClientSums(g) /\ DaemonSums(g)
    BY <2>1 DEF IInv, SumsSound
  <2>3. CASE g # h
    BY <1>1, <1>3, <1>4, <2>2, <2>3 DEF ClientSums, DaemonSums
  <2>4. CASE g = h
    <3> DEFINE a == IF new.type = "received" THEN new.amount ELSE 0
               c == client[h]
               b == payments[c.id].amount
    <3>1. /\ Amount(s, "sent") <= Amount(s, "received")
          /\ c.at \in {"connect", "send", "append"} => Amount(s, "sent") + b <= Amount(s, "received")
          /\ c.at = "write" => SumTo(s, "sent", c.end) + b <= SumTo(s, "received", c.end)
          /\ SumTo(s, "received", p) = Amount(s, "received")
      BY <1>1, <2>2, <2>4 DEF ClientSums, DaemonSums
    <3>2. p \in Nat /\ c.end \in Nat
      BY <1>0, Types
    <3>3. c.at # "idle" => b \in Int
      <4>1. c.at # "idle" => payments[c.id] \in [from : Hosts, to : Hosts, amount : Amounts, exact : BOOLEAN]
        BY <1>0, ProcessIds, Types
      <4> QED
        BY <4>1, WalletAssumption
    <3>4. "received" \in Sums /\ "sent" \in Sums /\ "sent" # "received"
      BY DEF Sums
    <3>5. /\ a \in Int /\ a >= 0
          /\ Amount(s, "received") \in Int
          /\ \A q \in Nat : SumTo(s, "received", q) \in Int
                            /\ SumTo(s, "received", q) <= Amount(s, "received")
          /\ \/ t = s
             \/ /\ Amount(t, "received") = SumTo(s, "received", p) + a
                /\ \A q \in Nat : q < p => SumTo(t, "received", q) = SumTo(s, "received", q)
                /\ \A q \in Nat : q >= p =>
                     SumTo(t, "received", q) \in {SumTo(s, "received", p), Amount(t, "received")}
      <4>1. new.amount \in Int /\ new.amount >= 0
        BY <1>2, <2>1, <3>4, WriteSums
      <4>2. a \in Int /\ a >= 0
        BY <4>1
      <4>3. a = IF new.type = "received" THEN new.amount ELSE 0
        OBVIOUS
      <4> HIDE DEF a
      <4>4. /\ Amount(s, "received") \in Int
            /\ \A q \in Nat : SumTo(s, "received", q) \in Int
                              /\ SumTo(s, "received", q) <= Amount(s, "received")
            /\ \/ t = s
               \/ /\ Amount(t, "received") = SumTo(s, "received", p)
                         + (IF new.type = "received" THEN new.amount ELSE 0)
                  /\ \A q \in Nat : q < p => SumTo(t, "received", q) = SumTo(s, "received", q)
                  /\ \A q \in Nat : q >= p =>
                       SumTo(t, "received", q) \in {SumTo(s, "received", p), Amount(t, "received")}
        BY <1>2, <2>1, <3>4, WriteSums
      <4> QED
        BY <4>2, <4>3, <4>4
    <3>6. /\ Amount(s, "sent") \in Int
          /\ \A q \in Nat : /\ SumTo(s, "sent", q) \in Int
                            /\ SumTo(s, "sent", q) <= Amount(s, "sent")
                            /\ q >= p => SumTo(s, "sent", p) <= SumTo(s, "sent", q)
          /\ \/ t = s
             \/ /\ Amount(t, "sent") = SumTo(s, "sent", p) + 0
                /\ \A q \in Nat : q < p => SumTo(t, "sent", q) = SumTo(s, "sent", q)
                /\ \A q \in Nat : q >= p =>
                     SumTo(t, "sent", q) \in {SumTo(s, "sent", p), Amount(t, "sent")}
      <4>1. new.type # "sent"
        BY <1>2
      <4>2. /\ Amount(s, "sent") \in Int
            /\ \A q \in Nat : /\ SumTo(s, "sent", q) \in Int
                              /\ SumTo(s, "sent", q) <= Amount(s, "sent")
                              /\ q >= p => SumTo(s, "sent", p) <= SumTo(s, "sent", q)
            /\ \/ t = s
               \/ /\ Amount(t, "sent") = SumTo(s, "sent", p)
                         + (IF new.type = "sent" THEN new.amount ELSE 0)
                  /\ \A q \in Nat : q < p => SumTo(t, "sent", q) = SumTo(s, "sent", q)
                  /\ \A q \in Nat : q >= p =>
                       SumTo(t, "sent", q) \in {SumTo(s, "sent", p), Amount(t, "sent")}
        BY <1>2, <2>1, <3>4, WriteSums
      <4> QED
        BY <4>1, <4>2
    <3> HIDE DEF a, b, c, p, s, t
    <3>12. ASSUME t # s
           PROVE  /\ Amount(t, "sent") <= Amount(t, "received")
                  /\ c.at \in {"connect", "send", "append"} =>
                       Amount(t, "sent") + b <= Amount(t, "received")
                  /\ c.at = "write" => SumTo(t, "sent", c.end) + b <= SumTo(t, "received", c.end)
      <4>1. /\ SumTo(s, "sent", p) \in Int /\ SumTo(s, "sent", p) <= Amount(s, "sent")
            /\ Amount(t, "received") = Amount(s, "received") + a
            /\ Amount(t, "sent") = SumTo(s, "sent", p)
        <5>1. SumTo(s, "sent", p) \in Int /\ SumTo(s, "sent", p) <= Amount(s, "sent")
          BY <3>2, <3>6
        <5>2. Amount(t, "received") = Amount(s, "received") + a
          BY <3>1, <3>5, <3>12
        <5>3. Amount(t, "sent") = SumTo(s, "sent", p)
          BY <3>6, <3>12, <5>1
        <5> QED
          BY <5>1, <5>2, <5>3
      <4>2. Amount(t, "sent") <= Amount(t, "received")
        BY <3>1, <3>5, <3>6, <4>1
      <4>3. ASSUME c.at \in {"connect", "send", "append"}
            PROVE  Amount(t, "sent") + b <= Amount(t, "received")
        <5>1. b \in Int
          BY <3>3, <4>3
        <5> QED
          BY <3>1, <3>5, <3>6, <4>1, <4>3, <5>1
      <4>4. ASSUME c.at = "write"
            PROVE  SumTo(t, "sent", c.end) + b <= SumTo(t, "received", c.end)
        <5> DEFINE q == c.end
        <5>1. /\ q \in Nat /\ b \in Int /\ SumTo(s, "sent", q) + b <= SumTo(s, "received", q)
          BY <3>1, <3>2, <3>3, <4>4
        <5> HIDE DEF q
        <5>2. /\ SumTo(s, "sent", q) \in Int /\ SumTo(s, "received", q) \in Int
              /\ SumTo(s, "received", q) <= Amount(s, "received")
              /\ q >= p => SumTo(s, "sent", p) <= SumTo(s, "sent", q)
          <6>1. SumTo(s, "received", q) \in Int /\ SumTo(s, "received", q) <= Amount(s, "received")
            BY <3>5, <5>1
          <6>2. SumTo(s, "sent", q) \in Int /\ (q >= p => SumTo(s, "sent", p) <= SumTo(s, "sent", q))
            BY <3>6, <5>1
          <6> QED
            BY <6>1, <6>2
        <5>3. CASE q < p
          BY <3>5, <3>6, <3>12, <5>1, <5>3 DEF q
        <5>4. CASE q >= p
          <6>1. SumTo(t, "sent", q) = SumTo(s, "sent", p)
            BY <3>6, <3>12, <4>1, <5>1, <5>4
          <6>2. SumTo(t, "received", q) \in {Amount(s, "received"), Amount(s, "received") + a}
            BY <3>1, <3>5, <3>12, <4>1, <5>1, <5>4
          <6>3. SumTo(s, "sent", p) + b <= Amount(s, "received")
            BY <3>5, <4>1, <5>1, <5>2, <5>4
          <6> QED
            BY <3>5, <4>1, <5>1, <6>1, <6>2, <6>3 DEF q
        <5> QED
          BY <3>2, <5>1, <5>3, <5>4
      <4> QED
        BY <4>2, <4>3, <4>4
    <3>7. Amount(t, "sent") <= Amount(t, "received")
      BY <3>1, <3>12
    <3>8. c.at \in {"connect", "send", "append"} => Amount(t, "sent") + b <= Amount(t, "received")
      BY <3>1, <3>12
    <3>9. c.at = "write" => SumTo(t, "sent", c.end) + b <= SumTo(t, "received", c.end)
      BY <3>1, <3>12
    <3>10. ClientSums(h)'
      BY <1>1, <3>7, <3>8, <3>9 DEF ClientSums, b, c, t
    <3>11. DaemonSums(h)'
      BY <1>7 DEF DaemonSums
    <3> QED
      BY <2>4, <3>10, <3>11
  <2> QED
    BY <2>3, <2>4
<1> QED
  BY <1>1, <1>2, <1>5, <1>6, <1>8, <1>9, <1>10, WriteInv

-----------------------------------------------------------------------------
\* No step breaks the invariant.
LEMMA NextInv ==
  ASSUME IInv, [Next]_vars
  PROVE  IInv'
<1>1. CASE UNCHANGED vars
  <2>1. UNCHANGED <<wallet, payments, client, daemon, queue, line>>
    BY <1>1 DEF vars
  <2>2. TypeOK' /\ PaidOnce' /\ PaymentsSound'
    BY <2>1 DEF IInv, TypeOK, PaidOnce, PaymentsSound
  <2>3. ASSUME NEW h \in Hosts PROVE HostSound(h)'
    BY <2>1 DEF IInv, HostSound, FileSound, ClientSound, DaemonSound, QueueSound, Unrecorded
  <2>4. ASSUME NonNegative', NEW h \in Hosts PROVE SumsSound(h)'
    BY <2>1, <2>4 DEF IInv, NonNegative, SumsSound, ClientSums, DaemonSums
  <2> QED
    BY <2>2, <2>3, <2>4 DEF IInv
<1>2. ASSUME NEW h \in Hosts, Pay(h) PROVE IInv'
  BY <1>2, ChooseInv, ConnectInv, SendInv, FindEndInv, SaveInv, DieInv DEF Pay
<1>3. ASSUME NEW h \in Hosts, Serve(h) PROVE IInv'
  BY <1>3, AcceptInv, TurnInv, FindEndOfRecordsInv, AppendRecordInv DEF Serve
<1>4. ASSUME NEW p \in Payments, Break(p) PROVE IInv'
  BY <1>4, BreakInv
<1> QED
  BY <1>1, <1>2, <1>3, <1>4 DEF Next

\* Bitcoin.c:92-162 and NetworkHelper.c:10-23, 180-198: whatever the amounts, the
\* lengths of their records and the number of hosts and payments, the wallet files
\* stay consistent with the payments: none is twice in a file or received before
\* it was sent, and a wallet has no more sent than received.
THEOREM LedgerStaysSound == Spec => []LedgerSound
<1>1. Init => IInv
  BY InitInv
<1>2. IInv /\ [Next]_vars => IInv'
  BY NextInv
<1>3. IInv => LedgerSound
  <2> SUFFICES ASSUME IInv PROVE LedgerSound
    OBVIOUS
  <2>1. TypeOK /\ PaidOnce
    BY DEF IInv
  <2>2. SentCovered
    BY DEF IInv, SumsSound, ClientSums, NonNegative, SentCovered
  <2> QED
    BY <2>1, <2>2 DEF LedgerSound
<1> QED
  BY <1>1, <1>2, <1>3, PTL DEF Spec
=============================================================================
