------------------------------- MODULE MCScript -------------------------------
(* Script on small instances: every operation on stacks of up to six elements, *)
(* in scripts of a few operations.                                             *)
EXTENDS Script

\* Zero, numbers of both signs and of two bytes, negative zero, a vector that is
\* too long for a number and the digest of a script.
Named == Digest("HASH160", <<1>>)
SomeVectors == {<<>>, <<1>>, <<2>>, <<129>>, <<128>>, Named}

SomeStacks ==
  { <<>>, <<<<1>>>>, <<<<1>>, <<>>>>, <<<<>>, <<2>>>>, <<<<1>>, <<129>>, <<2>>>>, <<<<1, 1>>, <<5>>, <<200, 0>>>>,
    <<<<1, 1, 1, 1, 1>>, <<128>>, <<1>>>>,
    <<<<9>>, <<8>>, <<7>>, <<6>>, <<5>>, <<1>>>>, <<<<>>, <<7>>, <<1>>, <<6>>, <<5>>, <<2>>>>,
    <<<<>>, <<>>, <<1>>, <<6>>, <<1>>>>, <<<<5>>, <<4>>, <<3>>, <<2>>, <<200, 0>>>> }

AllOperations ==
  Shuffles \cup Binaries \cup Hashes \cup
  {"short", "RESERVED", "NOP", "IF", "NOTIF", "ELSE", "ENDIF", "VERIFY", "RETURN", "TOALTSTACK",
   "FROMALTSTACK", "IFDUP", "DEPTH", "PICK", "ROLL", "SIZE", "EQUAL", "EQUALVERIFY", "1ADD",
   "1SUB", "NEGATE", "ABS", "NOT", "0NOTEQUAL", "BOOLAND", "BOOLOR", "WITHIN", "CODESEPARATOR",
   "CHECKSIG", "CHECKSIGVERIFY", "CHECKMULTISIG", "CHECKMULTISIGVERIFY", "disabled", "unknown"}

\* The operation that was read last is there for a property of steps only.
NotLast == <<memVars, controlVars, opCount, read, p2sh, status>>
==============================================================================
