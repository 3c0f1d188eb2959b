------------------------------ MODULE FileNames ------------------------------
(***************************************************************************)
(* The names of a database's files and ParseFileName().  A name is a head, *)
(* a run of digits and a tail; numbers have base Base and W bits.          *)
(* Characters arrive one at a time, as ConsumeDecimalNumber() reads them.  *)
(***************************************************************************)
EXTENDS Integers, Sequences

CONSTANTS Base,         \* 10 in the code
          W,            \* the bits of uint64_t
          Pad,          \* the digits a number is padded to, 6 in the code
          MaxDigits     \* bound on the digits of a name

VARIABLES name,     \* the name: [head, digits, tail]
          at,       \* digits read
          v,        \* the number so far
          result    \* "reading", "false", or the type found
vars == <<name, at, v, result>>

MaxUint == 2^W - 1
Fixed == {"CURRENT", "LOCK", "LOG", "LOG.old"}
Heads == {"", "MANIFEST-"} \cup Fixed
Tails == {"", ".log", ".sst", ".ldb", ".dbtmp", "other"}
DigitStrings == UNION {[1 .. n -> 0 .. Base - 1] : n \in 0 .. MaxDigits}

\* printf("%06llu")
RECURSIVE Digits(_)
Digits(n) == IF n < Base THEN <<n>> ELSE Append(Digits(n \div Base), n % Base)
Padded(n) == [i \in 1 .. (IF Len(Digits(n)) < Pad THEN Pad - Len(Digits(n)) ELSE 0) |-> 0] \o Digits(n)

MakeFileName(n, suffix) == [head |-> "", digits |-> Padded(n), tail |-> suffix]
LogFileName(n) == MakeFileName(n, ".log")
TableFileName(n) == MakeFileName(n, ".ldb")
SSTTableFileName(n) == MakeFileName(n, ".sst")
TempFileName(n) == MakeFileName(n, ".dbtmp")
DescriptorFileName(n) == [head |-> "MANIFEST-", digits |-> Padded(n), tail |-> ""]

\* Mutant: the last digit is not looked at.
OverflowsTens(d) == v > MaxUint \div Base

Overflows(d) == v > MaxUint \div Base \/ (v = MaxUint \div Base /\ d > MaxUint % Base)

\* The first letter of a name that is not a digit ends the number; a head that is
\* no known one is a name that starts with no digit.
Init ==
    /\ name \in [head : Heads, digits : DigitStrings, tail : Tails]
    /\ name.head \in Fixed => name.digits = <<>> /\ name.tail \in {"", "other"}
    /\ at = 0 /\ v = 0 /\ result = "reading"

FixedName ==
    /\ result = "reading" /\ name.head \in Fixed /\ name.tail = ""
    /\ result' = CASE name.head = "CURRENT" -> "current" [] name.head = "LOCK" -> "lock" [] OTHER -> "infolog"
    /\ UNCHANGED <<name, at, v>>

ConsumeDigit ==
    /\ result = "reading" /\ at < Len(name.digits)
    /\ LET d == name.digits[at + 1]
       IN IF Overflows(d) THEN result' = "false" /\ UNCHANGED <<at, v>>
          ELSE at' = at + 1 /\ v' = (v * Base + d) % 2^W /\ UNCHANGED result
    /\ UNCHANGED name

TableSuffixes == {".sst", ".ldb"}

TypeOf(tail) ==
    CASE tail = ".log" -> "log" [] tail \in TableSuffixes -> "table" [] tail = ".dbtmp" -> "temp" [] OTHER -> "false"

EndOfNumber ==
    /\ result = "reading" /\ at = Len(name.digits) /\ ~(name.head \in Fixed /\ name.tail = "")
    /\ result' = IF at = 0 \/ name.head \in Fixed THEN "false"
                 ELSE IF name.head = "MANIFEST-" THEN (IF name.tail = "" THEN "descriptor" ELSE "false")
                 ELSE TypeOf(name.tail)
    /\ UNCHANGED <<name, at, v>>

Next == FixedName \/ ConsumeDigit \/ EndOfNumber
Spec == Init /\ [][Next]_vars

-----------------------------------------------------------------------------
RECURSIVE Value(_)
Value(ds) == IF ds = <<>> THEN 0 ELSE Value(SubSeq(ds, 1, Len(ds) - 1)) * Base + ds[Len(ds)]
Parsed == result \notin {"reading", "false"}

\* The number of a parsed name is the number that is written in it: digits that do
\* not fit in 64 bits are refused, never wrapped to another file's number, and no
\* name whose number fits is refused for its digits.
NumberExact ==
    /\ Parsed => v = Value(name.digits)
    /\ (result = "false" /\ at < Len(name.digits)) <=> (result = "false" /\ Value(name.digits) > MaxUint)

\* Every name the code gives a file with a number is parsed back to that number
\* and to the kind of the file; DeleteObsoleteFiles() and Recover() rely on it.
MadeNamesParse ==
    \A n \in {Value(name.digits)} \cap 1 .. MaxUint :
        result # "reading" =>
          /\ name = LogFileName(n) => result = "log" /\ v = n
          /\ name \in {TableFileName(n), SSTTableFileName(n)} => result = "table" /\ v = n
          /\ name = TempFileName(n) => result = "temp" /\ v = n
          /\ name = DescriptorFileName(n) => result = "descriptor" /\ v = n
===============================================================================
