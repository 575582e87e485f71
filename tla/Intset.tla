------------------------------- MODULE Intset -------------------------------
(* intset.c: a sorted array of integers, all of them stored with the      *)
(* width the largest one asks for.  An intset is its encoding (2, 4 or 8  *)
(* bytes per value) and the sequence c of its values.                     *)
EXTENDS Integers, Sequences, SequencesExt

CONSTANTS
    Int16Max,  \* the largest value of two bytes: the least is -Int16Max - 1
    Int32Max   \* the largest value of four bytes

(* _intsetValueEncoding.                                                  *)
ValueEncoding(v) ==
    IF v < -Int32Max - 1 \/ v > Int32Max THEN 8
    ELSE IF v < -Int16Max - 1 \/ v > Int16Max THEN 4 ELSE 2

intsetNew == [enc |-> 2, c |-> <<>>]

(* intsetSearch: the position of v, or the one to insert it at (from 1).  *)
(* A value outside of the range of the array is not searched for.         *)
intsetSearch(is, v) ==
    LET n == Len(is.c)
        half[r \in (1 .. n + 1) \X (0 .. n)] ==
            LET mid == (r[1] + r[2]) \div 2
            IN  IF r[2] < r[1] THEN [found |-> FALSE, pos |-> r[1]]
                ELSE IF v > is.c[mid] THEN half[<<mid + 1, r[2]>>]
                ELSE IF v < is.c[mid] THEN half[<<r[1], mid - 1>>]
                ELSE [found |-> TRUE, pos |-> mid]
    IN  IF n = 0 THEN [found |-> FALSE, pos |-> 1]
        ELSE IF v > is.c[n] THEN [found |-> FALSE, pos |-> n + 1]
        ELSE IF v < is.c[1] THEN [found |-> FALSE, pos |-> 1]
        ELSE half[<<1, n>>]

(* The array as memory: byte i holds part i - start of a value of width   *)
(* enc.  A read finds a value only where all its bytes are still there.   *)
Garbage == 0
Bytes(c, enc) ==
    [i \in 0 .. Len(c) * enc - 1 |->
        [v |-> c[(i \div enc) + 1], part |-> i % enc, enc |-> enc]]
Get(mem, pos, enc) ==
    LET at == mem[pos * enc]
    IN  IF \A i \in 0 .. enc - 1 :
              mem[pos * enc + i] = [v |-> at.v, part |-> i, enc |-> enc]
        THEN at.v ELSE Garbage
Set(mem, pos, v, enc) ==
    [i \in DOMAIN mem |->
        IF i \in pos * enc .. (pos + 1) * enc - 1
        THEN [v |-> v, part |-> i - pos * enc, enc |-> enc] ELSE mem[i]]

(* The order in which intsetUpgradeAndAdd moves the values.               *)
BackToFront(n) == [i \in 1 .. n |-> n - i]

(* intsetUpgradeAndAdd: v needs more bytes than the values there are, so  *)
(* it goes in front of them or behind them; the values are rewritten in   *)
(* place, in the wider encoding, back to front.                           *)
intsetUpgradeAndAdd(is, v) ==
    LET n == Len(is.c)
        new == ValueEncoding(v)
        prepend == IF v < 0 THEN 1 ELSE 0
        resized == [i \in 0 .. (n + 1) * new - 1 |->
                       IF i < n * is.enc THEN Bytes(is.c, is.enc)[i]
                       ELSE [v |-> Garbage, part |-> 0, enc |-> 0]]
        moved == FoldLeft(LAMBDA mem, pos :
                             Set(mem, pos + prepend, Get(mem, pos, is.enc), new),
                          resized, BackToFront(n))
        added == Set(moved, IF prepend = 1 THEN 0 ELSE n, v, new)
    IN  [enc |-> new, c |-> [i \in 1 .. n + 1 |-> Get(added, i - 1, new)]]

(* intsetAdd; intsetMoveTail makes the room.                              *)
intsetAdd(is, v) ==
    IF ValueEncoding(v) > is.enc THEN intsetUpgradeAndAdd(is, v)
    ELSE LET s == intsetSearch(is, v)
         IN  IF s.found THEN is
             ELSE [is EXCEPT !.c = InsertAt(@, s.pos, v)]

(* intsetFind.                                                            *)
intsetFind(is, v) == ValueEncoding(v) <= is.enc /\ intsetSearch(is, v).found

(* intsetRemove: the encoding stays as wide as it was.                    *)
intsetRemove(is, v) ==
    IF intsetFind(is, v)
    THEN [is EXCEPT !.c = RemoveAt(@, intsetSearch(is, v).pos)] ELSE is

(* What the binary search needs: the values are in strict order, and each *)
(* of them fits the encoding.                                             *)
IntsetWellFormed(is) ==
    /\ \A i \in 1 .. Len(is.c) - 1 : is.c[i] < is.c[i + 1]
    /\ \A i \in DOMAIN is.c : ValueEncoding(is.c[i]) <= is.enc
=============================================================================
