------------------------------ MODULE ScriptText ------------------------------
(***************************************************************************)
(* A script written as text becomes bytes (initScriptFromString,           *)
(* Object/Script.c).  The text is a sequence of tokens: the name of an     *)
(* operation, hexadecimal digits after 0x, a space, the end of a line.     *)
(***************************************************************************)
EXTENDS Integers, SequencesExt

\* The operations from 79 on, in the order of ScriptOpcode.
Operations == <<
  "1NEGATE", "RESERVED", "1", "2", "3", "4", "5", "6", "7", "8", "9", "10", "11", "12", "13", "14", "15", "16",
  "NOP", "VER", "IF", "NOTIF", "VERIF", "VERNOTIF", "ELSE", "ENDIF", "VERIFY", "RETURN", "TOALTSTACK", "FROMALTSTACK",
  "2DROP", "2DUP", "3DUP", "2OVER", "2ROT", "2SWAP", "IFDUP", "DEPTH", "DROP", "DUP", "NIP", "OVER", "PICK", "ROLL",
  "ROT", "SWAP", "TUCK", "CAT", "SUBSTR", "LEFT", "RIGHT", "SIZE", "INVERT", "AND", "OR", "XOR", "EQUAL",
  "EQUALVERIFY", "RESERVED1", "RESERVED2", "1ADD", "1SUB", "2MUL", "2DIV", "NEGATE", "ABS", "NOT", "0NOTEQUAL", "ADD",
  "SUB", "MUL", "DIV", "MOD", "LSHIFT", "RSHIFT", "BOOLAND", "BOOLOR", "NUMEQUAL", "NUMEQUALVERIFY", "NUMNOTEQUAL",
  "LESSTHAN", "GREATERTHAN", "LESSTHANOREQUAL", "GREATERTHANOREQUAL", "MIN", "MAX", "WITHIN", "RIPEMD160", "SHA1",
  "SHA256", "HASH160", "HASH256", "CODESEPARATOR", "CHECKSIG", "CHECKSIGVERIFY", "CHECKMULTISIG",
  "CHECKMULTISIGVERIFY", "NOP1", "NOP2", "NOP3", "NOP4", "NOP5", "NOP6", "NOP7", "NOP8", "NOP9", "NOP10" >>

PushData1 == 76
PushData2 == 77
PushData4 == 78

Opcode(name) ==
  CASE name \in {"0", "FALSE"} -> 0
    [] name = "TRUE" -> 81
    [] OTHER -> 78 + CHOOSE i \in DOMAIN Operations : Operations[i] = name

----------------------------------------------------------------------------
(* The names in the order in which they are compared with the text *)

FlowAndStackNames == <<
  "FALSE", "1NEGATE", "VERNOTIF", "VERIFY", "VERIF", "VER", "IFDUP", "IF", "NOTIF", "ELSE", "ENDIF", "RETURN",
  "TOALTSTACK", "FROMALTSTACK", "2DROP", "2DUP", "3DUP", "2OVER", "2ROT", "2SWAP", "DEPTH", "DROP", "DUP", "NIP",
  "OVER", "PICK", "ROLL", "ROT", "SWAP", "TUCK" >>

ValueNames == <<
  "CAT", "SUBSTR", "LEFT", "RIGHT", "SIZE", "INVERT", "AND", "OR", "XOR", "EQUALVERIFY", "EQUAL", "RESERVED1",
  "RESERVED2", "RESERVED", "1ADD", "1SUB", "2MUL", "2DIV", "NEGATE", "ABS", "NOT", "0NOTEQUAL", "ADD", "SUB", "MUL",
  "DIV", "MOD", "LSHIFT", "RSHIFT", "BOOLAND", "BOOLOR", "NUMEQUALVERIFY", "NUMEQUAL", "NUMNOTEQUAL",
  "LESSTHANOREQUAL", "LESSTHAN", "GREATERTHANOREQUAL", "GREATERTHAN", "MIN", "MAX", "WITHIN" >>

\* Mutant: the ten operations that do nothing are compared from NOP1 on.
KeyAndNumberNamesUpwards == <<
  "RIPEMD160", "SHA1", "SHA256", "HASH160", "HASH256", "CODESEPARATOR", "CHECKSIGVERIFY", "CHECKSIG",
  "CHECKMULTISIGVERIFY", "CHECKMULTISIG", "NOP1", "NOP2", "NOP3", "NOP4", "NOP5", "NOP6", "NOP7", "NOP8", "NOP9",
  "NOP10", "NOP", "0", "10", "11", "12", "13", "14", "15", "16", "1", "TRUE", "2", "3", "4", "5", "6", "7", "8", "9" >>

KeyAndNumberNames == <<
  "RIPEMD160", "SHA1", "SHA256", "HASH160", "HASH256", "CODESEPARATOR", "CHECKSIGVERIFY", "CHECKSIG",
  "CHECKMULTISIGVERIFY", "CHECKMULTISIG", "NOP10", "NOP1", "NOP2", "NOP3", "NOP4", "NOP5", "NOP6", "NOP7", "NOP8",
  "NOP9", "NOP", "0", "10", "11", "12", "13", "14", "15", "16", "1", "TRUE", "2", "3", "4", "5", "6", "7", "8", "9" >>

Names == FlowAndStackNames \o ValueNames \o KeyAndNumberNames

\* The names that begin with another name: strncmp compares the other one only.
Longer(name) ==
  CASE name = "VER"      -> {"VERNOTIF", "VERIFY", "VERIF"}
    [] name = "VERIF"    -> {"VERIFY"}
    [] name = "IF"       -> {"IFDUP"}
    [] name = "NOT"      -> {"NOTIF"}
    [] name = "SUB"      -> {"SUBSTR"}
    [] name = "EQUAL"    -> {"EQUALVERIFY"}
    [] name = "RESERVED" -> {"RESERVED1", "RESERVED2"}
    [] name = "NUMEQUAL" -> {"NUMEQUALVERIFY"}
    [] name = "LESSTHAN" -> {"LESSTHANOREQUAL"}
    [] name = "GREATERTHAN"   -> {"GREATERTHANOREQUAL"}
    [] name = "CHECKSIG"      -> {"CHECKSIGVERIFY"}
    [] name = "CHECKMULTISIG" -> {"CHECKMULTISIGVERIFY"}
    [] name = "NOP"  -> {"NOP1", "NOP2", "NOP3", "NOP4", "NOP5", "NOP6", "NOP7", "NOP8", "NOP9", "NOP10"}
    [] name = "NOP1" -> {"NOP10"}
    [] name = "0"    -> {"0NOTEQUAL"}
    [] name = "1"    -> {"1NEGATE", "1ADD", "1SUB", "10", "11", "12", "13", "14", "15", "16"}
    [] name = "2"    -> {"2DROP", "2DUP", "2OVER", "2ROT", "2SWAP", "2MUL", "2DIV"}
    [] name = "3"    -> {"3DUP"}
    [] OTHER -> {}

\* The name that is found for the one in the text: the first that it begins with.
Found(name) == SelectInSeq(Names, LAMBDA n : n = name \/ name \in Longer(n))

----------------------------------------------------------------------------

Named(name) == [is |-> "name", name |-> name]
Hex(digits) == [is |-> "hex", digits |-> digits]
Space == [is |-> "space"]
Line  == [is |-> "line"]

\* What announces n bytes of data.
PushHeader(n) ==
  CASE n < 76 -> <<n>>
    [] n >= 76 /\ n < 256 -> <<PushData1, n>>
    [] n >= 256 /\ n < 65536 -> <<PushData2, n % 256, n \div 256>>
    [] n >= 65536 -> <<PushData4, n % 256, (n \div 256) % 256, n \div 65536, 0>>

\* Two digits are a byte; an odd number of them gets a zero in front.
HexBytes(digits) ==
  LET d == IF Len(digits) % 2 = 1 THEN <<0>> \o digits ELSE digits
  IN  [i \in 1..Len(d) \div 2 |-> 16 * d[2 * i - 1] + d[2 * i]]

\* One token.  An operation or data must follow either a space or the end of a
\* line (or begin the text), and not both; what is left of a longer name fails.
TakeToken(s, token) ==
  LET apart    == s.space # s.line
      add(b)   == [s EXCEPT !.space = FALSE, !.line = FALSE, !.data = @ \o b]
      fail     == [s EXCEPT !.ok = FALSE]
  IN  CASE token.is = "space" -> IF s.space THEN fail ELSE [s EXCEPT !.space = TRUE]
        [] token.is = "line"  -> [s EXCEPT !.line = TRUE]
        [] token.is = "hex"   ->
             LET b == HexBytes(token.digits) IN IF apart THEN add(PushHeader(Len(b)) \o b) ELSE fail
        [] token.is = "name"  ->
             LET at == Found(token.name)
             IN  IF apart /\ at # 0 /\ Names[at] = token.name THEN add(<<Opcode(Names[at])>>) ELSE fail

\* createNewScriptFromString
FromString(text) ==
  FoldLeft(LAMBDA s, token : IF s.ok THEN TakeToken(s, token) ELSE s,
           [ok |-> TRUE, space |-> FALSE, line |-> TRUE, data |-> <<>>], text)
==============================================================================
