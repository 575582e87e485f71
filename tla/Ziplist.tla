------------------------------ MODULE Ziplist ------------------------------
(* ziplist.c: a list in one block of memory.  Every entry starts with the *)
(* length of the entry before it, in one byte or in five; the block       *)
(* starts with its size, the offset of the last entry and the number of   *)
(* entries.  Entries are kept as the sequence e of                        *)
(*   v      the value                                                     *)
(*   psize  the bytes the previous length takes (1 or 5)                  *)
(*   plen   the previous length itself                                    *)
(* and the three header fields as bytes, tail and len.                    *)
EXTENDS Strings, Sequences, SequencesExt

CONSTANTS
    BigLen,  \* 254 in the code: previous lengths from here on take 5 bytes
    LenMax   \* UINT16_MAX in the code: the count does not go past it

HeaderSize == 10

(* zipPrevEncodeLength: bytes the length l takes as a previous length.    *)
PrevSize(l) == IF l < BigLen THEN 1 ELSE 5

(* zipTryEncoding, zipEncodeLength, zipIntSize: the bytes of an entry     *)
(* after the previous length.  Numbers up to 12 fit in the encoding byte. *)
Body(v) ==
    IF IsNumber(v) THEN (IF v \in 0 .. 12 THEN 1 ELSE 2)
    ELSE 1 + StringLen(v)

(* zipRawEntryLength.                                                     *)
RawLen(x) == x.psize + Body(x.v)

(* The offset of entry i, of the end mark for i = Len(e) + 1.             *)
Offset(e, i) == FoldLeft(LAMBDA a, x : a + RawLen(x), HeaderSize,
                         SubSeq(e, 1, i - 1))

ziplistNew == [e |-> <<>>, bytes |-> HeaderSize + 1, tail |-> HeaderSize,
               len |-> 0]

ZipValues(zl) == [i \in DOMAIN zl.e |-> zl.e[i].v]

(* ZIPLIST_INCR_LENGTH: the count stays at LenMax once it got there.      *)
IncrLength(zl, n) ==
    [zl EXCEPT !.len = IF @ < LenMax THEN @ + n ELSE @]

(* ziplistLen: a count at LenMax says nothing, so the entries are counted *)
(* and the count is stored again when it fits.                            *)
ziplistLen(zl) == IF zl.len < LenMax THEN zl.len ELSE Len(zl.e)
Recounted(zl) ==
    IF zl.len = LenMax /\ Len(zl.e) < LenMax
    THEN [zl EXCEPT !.len = Len(zl.e)] ELSE zl

----------------------------------------------------------------------------
(* __ziplistCascadeUpdate from entry i on: as long as the next entry has  *)
(* no room for the length of the one before it, it grows by four bytes,   *)
(* which the entry after it may have no room for.  An entry that has more *)
(* room than it needs keeps it.                                           *)
CascadeStep(s, j) ==
    LET e == s.zl.e
        raw == RawLen(e[j - 1])
        room == e[j].psize >= PrevSize(raw)
    IN  IF ~s.go \/ e[j].plen = raw THEN [s EXCEPT !.go = FALSE]
        ELSE IF room
             THEN [go |-> FALSE, zl |-> [s.zl EXCEPT !.e[j].plen = raw]]
             ELSE [go |-> TRUE,
                   zl |-> [s.zl EXCEPT
                             !.e[j] = [@ EXCEPT !.psize = 5, !.plen = raw],
                             !.bytes = @ + 4,
                             !.tail = IF j < Len(e) THEN @ + 4 ELSE @]]

(* Mutant of Cascade: only the next entry is given room.                  *)
CascadeNext(zl, i) ==
    IF i < Len(zl.e) THEN CascadeStep([go |-> TRUE, zl |-> zl], i + 1).zl ELSE zl

Cascade(zl, i) ==
    FoldLeft(CascadeStep, [go |-> TRUE, zl |-> zl],
             [k \in 1 .. Len(zl.e) - i |-> i + k]).zl

(* ziplistResize to a smaller block happens before the entries are moved  *)
(* and puts the end mark on bytes that have yet to be moved: the last     *)
(* entry loses them.                                                      *)
ShrinkFirst(e, change) ==
    IF change >= 0 THEN e
    ELSE [e EXCEPT ![Len(e)].v = Damaged(@)]

(* The length of what is before place i: known to the entry there, or,    *)
(* at the end, that of the entry the tail offset leads to.                *)
PrevLen(zl, i) ==
    LET n == Len(zl.e)
    IN  CASE i <= n -> zl.e[i].plen
          [] i > n /\ n > 0 ->
               RawLen(zl.e[CHOOSE j \in 1 .. n : Offset(zl.e, j) = zl.tail])
          [] OTHER -> 0

NewEntry(v, prevlen) == [v |-> v, psize |-> PrevSize(prevlen), plen |-> prevlen]

(* zipPrevLenByteDiff: what entry i grows by when l goes before it.       *)
NextDiff(zl, i, l) ==
    IF i <= Len(zl.e) THEN PrevSize(l) - zl.e[i].psize ELSE 0

(* The entries from i on moved up, the new one, of reqlen bytes, in the   *)
(* gap.                                                                   *)
MoveUp(zl, i, new, reqlen, nextdiff) ==
    LET n == Len(zl.e)
        kept == ShrinkFirst(zl.e, reqlen + nextdiff)
        moved == IF i > n THEN kept
                 ELSE [kept EXCEPT ![i].psize = @ + nextdiff,
                                   ![i].plen = reqlen]
    IN  [e |-> InsertAt(moved, i, new),
         bytes |-> zl.bytes + reqlen + nextdiff,
         tail |-> IF i > n THEN Offset(zl.e, i)
                  ELSE zl.tail + reqlen + (IF i < n THEN nextdiff ELSE 0),
         len |-> zl.len]

CascadeIf(grown, zl, i) == IF grown THEN Cascade(zl, i) ELSE zl

InsertEntry(zl, i, new, reqlen, nextdiff) ==
    IncrLength(CascadeIf(nextdiff # 0, MoveUp(zl, i, new, reqlen, nextdiff), i + 1), 1)

(* __ziplistInsert of v before entry i (at the end for i = Len(e) + 1).   *)
ziplistInsert(zl, i, v) ==
    LET new == NewEntry(v, PrevLen(zl, i))
        reqlen == RawLen(new)
    IN  InsertEntry(zl, i, new, reqlen, NextDiff(zl, i, reqlen))

ziplistPush(zl, v, where) ==
    ziplistInsert(zl, IF where = "head" THEN 1 ELSE Len(zl.e) + 1, v)

(* The entries from k on moved down to place i, totlen bytes.             *)
MoveDown(zl, i, k, totlen, nextdiff) ==
    LET n == Len(zl.e)
        prevlen == zl.e[i].plen
        moved == IF k > n THEN zl.e
                 ELSE [zl.e EXCEPT ![k].psize = @ + nextdiff,
                                   ![k].plen = prevlen]
    IN  [e |-> SubSeq(moved, 1, i - 1) \o SubSeq(moved, k, n),
         bytes |-> zl.bytes - totlen + nextdiff,
         tail |-> IF k > n THEN Offset(zl.e, i) - prevlen
                  ELSE zl.tail - totlen + (IF k < n THEN nextdiff ELSE 0),
         len |-> zl.len]

DeleteEntries(zl, i, k, totlen, nextdiff) ==
    IF totlen = 0 THEN zl
    ELSE CascadeIf(nextdiff # 0,
                   IncrLength(MoveDown(zl, i, k, totlen, nextdiff), i - k), i)

(* __ziplistDelete of num entries from entry i on, fewer when the list    *)
(* ends before.                                                           *)
ziplistDelete(zl, i, num) ==
    LET n == Len(zl.e)
        k == IF i + num > n + 1 THEN n + 1 ELSE i + num
    IN  DeleteEntries(zl, i, k, Offset(zl.e, k) - Offset(zl.e, i),
                      NextDiff(zl, k, zl.e[i].plen))

(* ziplistIndex: forwards from the first entry, or backwards from the     *)
(* tail along the previous lengths; 0 for no entry.                       *)
ziplistIndex(zl, index) ==
    LET n == Len(zl.e)
        At(off) == CHOOSE j \in 1 .. n : Offset(zl.e, j) = off
        back[k \in Nat] ==  \* the offset reached after k steps back
            IF k = 0 THEN zl.tail
            ELSE back[k - 1] - zl.e[At(back[k - 1])].plen
    IN  IF index >= 0 THEN (IF index < n THEN index + 1 ELSE 0)
        ELSE IF -index <= n THEN At(back[-index - 1]) ELSE 0

(* ziplistDeleteRange.                                                    *)
ziplistDeleteRange(zl, index, num) ==
    LET i == ziplistIndex(zl, index)
    IN  IF i = 0 THEN zl ELSE ziplistDelete(zl, i, num)

(* ziplistFind from entry i, comparing every (skip + 1)-th entry; 0 when  *)
(* there is none.  A number is compared with the number a text stands for.*)
ziplistFind(zl, i, v, skip) ==
    LET hits == {j \in i .. Len(zl.e) :
                    (j - i) % (skip + 1) = 0 /\ zl.e[j].v = v}
    IN  IF hits = {} THEN 0 ELSE CHOOSE j \in hits : \A h \in hits : j <= h

----------------------------------------------------------------------------
(* The block is what its readers take it for: its size, the offset of its *)
(* last entry and every previous length are right, every previous length  *)
(* fits its field, and the count is right unless it is LenMax.            *)
ZiplistWellFormed(zl) ==
    LET n == Len(zl.e)
    IN  /\ zl.bytes = Offset(zl.e, n + 1) + 1
        /\ zl.tail = IF n = 0 THEN HeaderSize ELSE Offset(zl.e, n)
        /\ \A i \in 1 .. n :
              /\ zl.e[i].plen = IF i = 1 THEN 0 ELSE RawLen(zl.e[i - 1])
              /\ zl.e[i].psize >= PrevSize(zl.e[i].plen)
        /\ zl.len < LenMax => zl.len = n
=============================================================================
