------------------------------ MODULE Strings ------------------------------
(* Strings as the data types see them.  A string is coded by an integer:  *)
(*   v < 100            the decimal text of the number v itself;          *)
(*   100 <= v < 10000   a text that is no number, of v \div 100 bytes;    *)
(*   10000 <= v < 20000 the decimal text of v - 10000 and then a NUL byte.*)
(*   20000 <= v         the text v - 20000 with some bytes overwritten.   *)
(* What a conversion does is kept: which strings are numbers, how long a  *)
(* string is, how two of them compare byte by byte and as C strings.      *)
EXTENDS Integers

Nul(n) == 10000 + n
Damaged(v) == 20000 + v

(* isObjectRepresentableAsLongLong and string2ll accept exactly the       *)
(* canonical decimal texts.                                               *)
IsNumber(v) == v < 100

(* ll2string, sdslen: the length of the text.                             *)
StringLen(v) ==
    CASE v >= 20000 -> (v - 20000) \div 100
      [] v \in 10000 .. 19999 -> 2
      [] v \in 100 .. 9999 -> v \div 100
      [] v \in 10 .. 99 \/ v < 0 -> 2
      [] OTHER -> 1

(* The place of a string in the order of its bytes: '-' before the        *)
(* digits, the digits before the letters, a prefix before what extends it.*)
ByteOrder(v) ==
    CASE v < 0 -> v * (-1) - 100
      [] v \in 0 .. 9 -> 20 * v
      [] v \in 10 .. 99 -> 20 * (v \div 10) + 2 + (v % 10)
      [] v \in 10000 .. 19999 -> 20 * (v - 10000) + 1
      [] OTHER -> 1000 + v

(* What strcmp sees of a string: the bytes before the first NUL.          *)
CString(v) == IF v \in 10000 .. 19999 THEN v - 10000 ELSE v

(* An object of the keyspace keeps a number as an integer, anything else  *)
(* as bytes; an argument that no command has encoded is still bytes.      *)
Encoded(v) == [v |-> v, raw |-> ~IsNumber(v)]
Argument(v) == [v |-> v, raw |-> TRUE]

(* compareStringObjects: memcmp when both are bytes, strcmp otherwise.    *)
compareStringObjects(a, b) ==
    IF a.raw /\ b.raw THEN ByteOrder(a.v) - ByteOrder(b.v)
    ELSE ByteOrder(CString(a.v)) - ByteOrder(CString(b.v))

equalStringObjects(a, b) ==
    IF a.raw \/ b.raw THEN compareStringObjects(a, b) = 0 ELSE a.v = b.v
=============================================================================
