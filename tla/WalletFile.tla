----------------------------- MODULE WalletFile -----------------------------
(***************************************************************************)
(* Paying: the command line (Bitcoin.c) reads the balance from the wallet  *)
(* file, sends a record to the daemon of another host                      *)
(* (Core/NetworkHelper.c) and appends one of its own.  The daemon appends  *)
(* what it receives to the same kind of file.  Both look for the position  *)
(* of the end of the records first and write there when they close the     *)
(* file, without a lock; the other may have written in between, records of *)
(* other lengths.  A record arrives in one piece; its text is shorter than *)
(* the buffers of the file and of the daemon.  A file never gets shorter.  *)
(* Amounts and sums are floats, counted here in sixty-fourths, which "%f"  *)
(* writes exactly; a float holds each of them up to 2^24.                  *)
(***************************************************************************)
EXTENDS Integers, Sequences, FiniteSets, SequencesExt

CONSTANTS
  Hosts,         \* each runs one daemon and one command line
  Amounts,       \* the amounts a user types
  Length,        \* the bytes of a record and its comma, by its amount
  Initial,       \* what the only record of each wallet has received at first
  Exact,         \* a float holds every number up to it: 2^24, of FLT_MANT_DIG
  Backlog,       \* listnum: the callers the system keeps for the daemon
  MaxPayments    \* bound: the payments begun

Payments == 1 .. MaxPayments

ASSUME WalletAssumption ==
  /\ Amounts \subseteq Int /\ Initial \in Amounts \cap Nat /\ Length \in [Amounts -> Nat \ {0}]
  /\ Exact \in Nat \ {0} /\ Backlog \in Nat \ {0} /\ MaxPayments \in Nat

VARIABLES
  wallet,    \* the file of each host: its records and the bytes after them
  payments,  \* the payments begun, in order: host, destination, amount, and whether
             \* the sums they were checked against were small enough to be exact (a history)
  client,    \* what the command line of each host does: step, payment, file position
  daemon,    \* the same of the daemon
  queue,     \* the callers the daemon has still to accept
  line       \* the state of a payment's connection

vars == <<wallet, payments, client, daemon, queue, line>>

\* A record and the position at which it ends; "cut" is what is left of one whose
\* last bytes were written over, or the comma that was written without a record.
Record == [id : 0 .. MaxPayments, type : {"sent", "received", "cut"}, amount : Amounts, ends : Nat]
Steps == {"idle", "connect", "send", "append", "write"}
Turns == {"accept", "talk", "append", "write"}

TypeOK ==
  /\ wallet \in [Hosts -> [records : Seq(Record), junk : Nat]]
  /\ payments \in Seq([from : Hosts, to : Hosts, amount : Amounts, exact : BOOLEAN])
  /\ client \in [Hosts -> [at : Steps, id : 0 .. MaxPayments, end : Nat]]
  /\ daemon \in [Hosts -> [at : Turns, id : 0 .. MaxPayments, end : Nat]]
  /\ queue \in [Hosts -> Seq(Payments)]
  /\ line \in [Payments -> {"none", "open", "sent", "ended", "broken", "failed", "closed"}]

Init ==
  /\ wallet = [h \in Hosts |-> [records |-> <<[id |-> 0, type |-> "received", amount |-> Initial,
                                                ends |-> Length[Initial]]>>,
                                junk |-> 0]]
  /\ payments = <<>>
  /\ client = [h \in Hosts |-> [at |-> "idle", id |-> 0, end |-> 0]]
  /\ daemon = [h \in Hosts |-> [at |-> "accept", id |-> 0, end |-> 0]]
  /\ queue = [h \in Hosts |-> <<>>]
  /\ line = [p \in Payments |-> "none"]

-----------------------------------------------------------------------------
\* The sum of the amounts of the records of a type.
Amount(records, type) ==
  FoldLeft(LAMBDA sum, r : IF r.type = type THEN sum + r.amount ELSE sum, 0, records)

\* Mutant: the balance is not read again after the user has been asked.
BalanceAtStart(w) == Initial

\* readRecordsFromWalletFile into a new wallet: a file with a cut record or with
\* anything after its records cannot be parsed and adds none.
RecordsRead(w) ==
  IF w.junk > 0 \/ \E i \in 1 .. Len(w.records) : w.records[i].type = "cut" THEN <<>> ELSE w.records

\* The float nearest to a number, of two the one with the even mantissa: above
\* Exact the floats are 2 apart, above twice that 4, and so on.
Rounded(n) ==
  LET size == IF n < 0 THEN -n ELSE n
      spacing == 2 ^ (CHOOSE k \in 0 .. size :
                        size <= Exact * 2 ^ k /\ \A j \in 0 .. k - 1 : size > Exact * 2 ^ j)
      below == size \div spacing
      rest == 2 * (size % spacing)
      mantissa == IF rest > spacing \/ (rest = spacing /\ below % 2 = 1) THEN below + 1 ELSE below
  IN IF size <= Exact THEN n
     ELSE IF n < 0 THEN -(mantissa * spacing) ELSE mantissa * spacing

\* getBalance adds up one record after the other.
Added(totals, r) ==
  CASE r.type = "sent" -> [totals EXCEPT !.from = Rounded(@ + r.amount)]
    [] r.type = "received" -> [totals EXCEPT !.to = Rounded(@ + r.amount)]
    [] OTHER -> totals

Totals(records) == FoldLeft(Added, [from |-> 0, to |-> 0], records)

\* getOnlyBalance
Balance(w) ==
  LET totals == Totals(RecordsRead(w)) IN Rounded(totals.to - totals.from)

\* The sums of a wallet are small enough for its balance to be exact.
Exactly(w) == \A type \in {"sent", "received"} : Amount(RecordsRead(w), type) <= Exact

\* The position of the end of the records.
End(records) == Last(records).ends

\* What is left of a record up to a position.
Cut(position) == [id |-> 0, type |-> "cut", amount |-> Initial, ends |-> position]

\* The records before a position; the last is cut there when it ends behind it.
Kept(records, position) ==
  LET n == Max({i \in 1 .. Len(records) : records[i].ends <= position})
      whole == SubSeq(records, 1, n)
  IN IF records[n].ends = position THEN whole ELSE Append(whole, Cut(position))

\* A payment as it is recorded at a position.
RecordAt(position, id, type) ==
  LET amount == payments[id].amount
  IN [id |-> id, type |-> type, amount |-> amount, ends |-> position + Length[amount]]

\* A record and the end of the file written at a position, over what is there:
\* the file keeps its length when it was longer, and a position behind the end
\* leaves the records as they are.
Written(w, position, new) ==
  LET before == End(w.records) + w.junk
  IN IF position > End(w.records)
       THEN [w EXCEPT !.junk = (IF before > new.ends THEN before ELSE new.ends) - End(w.records)]
       ELSE [records |-> Append(Kept(w.records, position), new),
             junk |-> IF before > new.ends THEN before - new.ends ELSE 0]

-----------------------------------------------------------------------------
\* sendBitcoin: the user names another host and an amount that the balance
\* covers; it is asked for until it does.
Choose(h) ==
  /\ client[h].at = "idle" /\ Len(payments) < MaxPayments
  /\ \E d \in Hosts \ {h}, a \in Amounts :
       /\ a <= Balance(wallet[h])
       /\ payments' = Append(payments, [from |-> h, to |-> d, amount |-> a,
                                         exact |-> Exactly(wallet[h])])
  /\ client' = [client EXCEPT ![h] = [at |-> "connect", id |-> Len(payments'), end |-> 0]]
  /\ UNCHANGED <<wallet, daemon, queue, line>>

\* sendMessageToIPAddress connects when the daemon's queue has room; when the
\* connection is refused or times out the program exits.
Connect(h) ==
  /\ client[h].at = "connect"
  /\ LET id == client[h].id
         d == payments[id].to
     IN \/ /\ Len(queue[d]) < Backlog
           /\ queue' = [queue EXCEPT ![d] = Append(@, id)]
           /\ line' = [line EXCEPT ![id] = "open"]
           /\ client' = [client EXCEPT ![h].at = "send"]
        \/ /\ client' = [client EXCEPT ![h] = [at |-> "idle", id |-> 0, end |-> 0]]
           /\ UNCHANGED <<queue, line>>
  /\ UNCHANGED <<wallet, payments, daemon>>

\* The record is sent and the connection closed.  The result is not looked at:
\* the record of the payment is appended even when the connection was closed or
\* is broken.
Send(h) ==
  /\ client[h].at = "send"
  /\ line' = [line EXCEPT ![client[h].id] = IF @ = "open" THEN "sent" ELSE @]
  /\ client' = [client EXCEPT ![h].at = "append"]
  /\ UNCHANGED <<wallet, payments, daemon, queue>>

\* saveCoinsToWalletFile looks for the end of the records,
FindEnd(h) ==
  /\ client[h].at = "append"
  /\ client' = [client EXCEPT ![h].at = "write", ![h].end = End(wallet[h].records)]
  /\ UNCHANGED <<wallet, payments, daemon, queue, line>>

\* and what it prints there reaches the file when that is closed.
Save(h) ==
  /\ client[h].at = "write"
  /\ LET id == client[h].id
     IN wallet' = [wallet EXCEPT ![h] = Written(@, client[h].end, RecordAt(client[h].end, id, "sent"))]
  /\ client' = [client EXCEPT ![h] = [at |-> "idle", id |-> 0, end |-> 0]]
  /\ UNCHANGED <<payments, daemon, queue, line>>

\* The command line is killed in the middle of a payment and started again;
\* the system closes its connection.
Die(h) ==
  /\ client[h].at # "idle"
  /\ client' = [client EXCEPT ![h] = [at |-> "idle", id |-> 0, end |-> 0]]
  /\ line' = [line EXCEPT ![client[h].id] = IF @ = "open" THEN "ended" ELSE @]
  /\ UNCHANGED <<wallet, payments, daemon, queue>>

\* The connection of a payment breaks before its record has arrived: recv fails.
Break(p) ==
  /\ line[p] \in {"open", "sent"}
  /\ line' = [line EXCEPT ![p] = "broken"]
  /\ UNCHANGED <<wallet, payments, client, daemon, queue>>

-----------------------------------------------------------------------------
\* daemon: the next caller is accepted.
Accept(h) ==
  /\ daemon[h].at = "accept" /\ queue[h] # <<>>
  /\ daemon' = [daemon EXCEPT ![h] = [at |-> "talk", id |-> Head(queue[h]), end |-> 0]]
  /\ queue' = [queue EXCEPT ![h] = Tail(@)]
  /\ UNCHANGED <<wallet, payments, client, line>>

\* Mutant: the loop with the caller is not left.
HangUpNot(h) ==
  /\ line' = [line EXCEPT ![daemon[h].id] = "closed"]
  /\ UNCHANGED daemon

HangUp(h) ==
  /\ daemon' = [daemon EXCEPT ![h] = [at |-> "accept", id |-> 0, end |-> 0]]
  /\ line' = [line EXCEPT ![daemon[h].id] = "closed"]

\* Mutant: a record that has been read is read again.
TurnAgain(h) ==
  /\ daemon[h].at = "talk"
  /\ IF queue[h] # <<>> \/ line[daemon[h].id] = "ended"
       THEN HangUp(h)
       ELSE /\ line[daemon[h].id] = "sent"
            /\ daemon' = [daemon EXCEPT ![h].at = "append"]
            /\ UNCHANGED line
  /\ UNCHANGED <<wallet, payments, client, queue>>

\* One turn of select.  The daemon has closed its standard input, so descriptor
\* 0, which it also watches, is the listening socket: when another caller waits
\* there, it reads no line, sends nothing, takes that for a failure and leaves
\* the caller it talks to, whether or not that one's record has been read.  The
\* result of recv is stored in an unsigned number: only 0, the end, hangs up, and
\* when recv fails, with -1, the buffer, which is empty, is taken for a record.
Turn(h) ==
  /\ daemon[h].at = "talk"
  /\ LET id == daemon[h].id
     IN IF queue[h] # <<>> \/ line[id] \in {"ended", "failed"}
          THEN HangUp(h)
          ELSE /\ line[id] \in {"sent", "broken"}
               /\ line' = [line EXCEPT ![id] = IF @ = "sent" THEN "ended" ELSE "failed"]
               /\ daemon' = [daemon EXCEPT ![h].at = "append"]
  /\ UNCHANGED <<wallet, payments, client, queue>>

\* appendRecordToWallet, in the two steps of saveCoinsToWalletFile.
FindEndOfRecords(h) ==
  /\ daemon[h].at = "append"
  /\ daemon' = [daemon EXCEPT ![h].at = "write", ![h].end = End(wallet[h].records)]
  /\ UNCHANGED <<wallet, payments, client, queue, line>>

\* Of an empty record there is the comma before it.
AppendRecord(h) ==
  /\ daemon[h].at = "write"
  /\ LET id == daemon[h].id
         end == daemon[h].end
         new == IF line[id] = "failed" THEN Cut(end + 1) ELSE RecordAt(end, id, "received")
     IN wallet' = [wallet EXCEPT ![h] = Written(@, end, new)]
  /\ daemon' = [daemon EXCEPT ![h].at = "talk", ![h].end = 0]
  /\ UNCHANGED <<payments, client, queue, line>>

Pay(h) == Choose(h) \/ Connect(h) \/ Send(h) \/ FindEnd(h) \/ Save(h) \/ Die(h)
Serve(h) == Accept(h) \/ Turn(h) \/ FindEndOfRecords(h) \/ AppendRecord(h)

Next ==
  \/ \E h \in Hosts : Pay(h) \/ Serve(h)
  \/ \E p \in Payments : Break(p)

\* Both processes are scheduled by the system; what a user types is not, and a
\* connection need not break.
Spec ==
  /\ Init /\ [][Next]_vars
  /\ \A h \in Hosts : WF_vars(Serve(h)) /\ WF_vars(Send(h))

-----------------------------------------------------------------------------
\* However the two writers of a file overlap, a payment is in each wallet at
\* most once and with its amount: as sent where it was made, as received where
\* it was sent to, there only after it was sent.
PaidOnce ==
  \A h \in Hosts : \A i \in 1 .. Len(wallet[h].records) :
    LET r == wallet[h].records[i]
    IN r.id # 0 =>
         /\ r.amount = payments[r.id].amount
         /\ h = IF r.type = "sent" THEN payments[r.id].from ELSE payments[r.id].to
         /\ r.type = "received" => line[r.id] \in {"ended", "closed"}
         /\ \A j \in 1 .. Len(wallet[h].records) : wallet[h].records[j].id = r.id => i = j

\* Bitcoin.c:134-139, Wallet.c:241-256: as long as nobody typed a negative amount,
\* which the prompt takes, and no payment was checked against sums above 2^24, which
\* a float cannot add exactly, a wallet never has more sent than it has received:
\* what the daemon's stale writes lose is what was sent, and what the command
\* line's lose it has not counted yet.
SentCovered ==
  (\A p \in 1 .. Len(payments) : payments[p].amount >= 0 /\ payments[p].exact)
    => \A h \in Hosts :
         Amount(wallet[h].records, "sent") <= Amount(wallet[h].records, "received")

\* Bitcoin.c:92-162 and NetworkHelper.c:10-23, 180-198: the wallets stay
\* consistent with the payments under every interleaving, kill and broken connection.
LedgerSound == TypeOK /\ PaidOnce /\ SentCovered

Waiting(p) == \E h \in Hosts : Contains(queue[h], p)

\* NetworkHelper.c:118-203: a caller is always accepted in the end, whatever
\* the ones before it did.
CallersServed == \A p \in Payments : Waiting(p) ~> ~ Waiting(p)
=============================================================================
