------------------------------ MODULE Protocol ------------------------------
(* networking.c, the input: requests, inline or multi bulk, arrive in     *)
(* pieces that end anywhere, are collected in the query buffer and parsed *)
(* as far as they have come.  Characters are abstracted to symbols; the   *)
(* digits of a count and its '*' or '$' are one symbol.                   *)
EXTENDS Integers, Sequences, SequencesExt

CONSTANTS IoLen,      \* REDIS_IOBUF_LEN: the most one read returns
          BigArg,     \* REDIS_MBULK_BIG_ARG: an argument worth not copying
          InlineMax   \* REDIS_INLINE_MAX_SIZE: the longest line

VARIABLES wire,       \* what the client has sent and the server not read
          q,          \* the client: querybuf, reqtype, multibulklen, bulklen, argv
          ran,        \* the commands that were executed
          request     \* what the client meant to send

prVars == <<wire, q, ran, request>>

(* Symbols: "\r", "\n", " ", letters, counts <<"*", n>> as "*n".          *)
CR == "r"
LF == "n"
Count == [s \in {"*0", "*1", "*2", "*x"} |->
            CASE s = "*0" -> 0 [] s = "*1" -> 1 [] s = "*2" -> 2 [] OTHER -> -1]
Length == [s \in {"$0", "$1", "$2", "$3", "$x"} |->
            CASE s = "$0" -> 0 [] s = "$1" -> 1 [] s = "$2" -> 2
              [] s = "$3" -> 3 [] OTHER -> -1]

NoBulk == -1
Idle == [buf |-> <<>>, type |-> "", mb |-> 0, bulk |-> NoBulk, argv |-> <<>>,
         close |-> FALSE, blocked |-> FALSE]
Blocks(argv) == argv = <<<<"b">>>>   \* a command that blocks, such as BLPOP

(* S: requests, each with what it is on the wire and the command it is,   *)
(* none for an empty or a broken one.                                     *)
PrInit(S) ==
    /\ request \in S
    /\ wire = FlattenSeq([i \in DOMAIN request |-> request[i].wire])
    /\ q = Idle /\ ran = <<>>

----------------------------------------------------------------------------
(* The first place from i on where s is in b, 0 when there is none.       *)
Find(b, s, i) == LET P == {j \in i .. Len(b) : b[j] = s}
                 IN  IF P = {} THEN 0 ELSE CHOOSE j \in P : \A k \in P : j <= k
Drop(b, n) == SubSeq(b, n + 1, Len(b))
Wait(c) == [c |-> c, ok |-> FALSE]
Ready(c) == [c |-> c, ok |-> TRUE]
ProtocolError(c, n) == Wait([c EXCEPT !.close = TRUE, !.buf = Drop(@, n)])
TooLong(c) == IF Len(c.buf) > InlineMax THEN ProtocolError(c, 0) ELSE Wait(c)

(* A line, split at the spaces; empty words are left out.                 *)
Words(line) ==
    LET cut == <<0>> \o SetToSortSeq({i \in DOMAIN line : line[i] = " "}, <)
                     \o <<Len(line) + 1>>
        word == [i \in 1 .. Len(cut) - 1 |-> SubSeq(line, cut[i] + 1, cut[i + 1] - 1)]
    IN  SelectSeq(word, LAMBDA w : w # <<>>)

processInlineBuffer(c) ==
    LET ends == {i \in 1 .. Len(c.buf) - 1 : c.buf[i] = CR /\ c.buf[i + 1] = LF}
        i == CHOOSE j \in ends : \A k \in ends : j <= k
    IN  IF ends = {} THEN TooLong(c)
        ELSE Ready([c EXCEPT !.argv = Words(SubSeq(c.buf, 1, i - 1)),
                             !.buf = Drop(@, i + 1)])

(* The arguments.  The length of one, then its data: taken as it is when  *)
(* the buffer holds a big argument and nothing else, copied otherwise.    *)
Trim(c, pos) == [c EXCEPT !.buf = Drop(@, pos)]
RECURSIVE Arguments(_, _)
Arguments(c, pos) ==
    IF c.mb = 0 THEN Ready(Trim(c, pos))
    ELSE IF c.bulk = NoBulk THEN
        LET i == Find(c.buf, CR, pos + 1)
            s == c.buf[pos + 1]
            big == Length[s] >= BigArg
        IN  CASE i = 0 /\ Len(c.buf) > InlineMax -> ProtocolError(Trim(c, pos), 0)
              [] i = 0 /\ Len(c.buf) <= InlineMax -> Wait(Trim(c, pos))
              [] i # 0 /\ i > Len(c.buf) - 1 -> Wait(Trim(c, pos))
              [] i # 0 /\ i <= Len(c.buf) - 1 ->
                   IF s \notin DOMAIN Length \/ i # pos + 2 \/ Length[s] < 0
                   THEN ProtocolError(c, pos)
                   ELSE Arguments([c EXCEPT !.bulk = Length[s],
                                            !.buf = IF big THEN Drop(@, i + 1) ELSE @],
                                  IF big THEN 0 ELSE i + 1)
    ELSE IF Len(c.buf) - pos < c.bulk + 2 THEN Wait(Trim(c, pos))
    ELSE LET arg == SubSeq(c.buf, pos + 1, pos + c.bulk)
             whole == pos = 0 /\ c.bulk >= BigArg /\ Len(c.buf) = c.bulk + 2
         IN  Arguments([c EXCEPT !.argv = Append(@, arg), !.bulk = NoBulk, !.mb = @ - 1,
                                 !.buf = IF whole THEN <<>> ELSE @],
                       IF whole THEN 0 ELSE pos + c.bulk + 2)

(* Mutant of processMultibulkBuffer: the '\n' may be still to come.       *)
MultibulkAtCr(c) ==
    LET i == Find(c.buf, CR, 1)
    IN  IF c.mb > 0 THEN Arguments(c, 0)
        ELSE IF i = 0 THEN TooLong(c)
        ELSE IF i # 2 \/ Count[c.buf[1]] < 0 THEN ProtocolError(c, 0)
        ELSE IF Count[c.buf[1]] = 0 THEN Ready(Trim(c, i + 1))
        ELSE Arguments([c EXCEPT !.mb = Count[c.buf[1]]], IF i < Len(c.buf) THEN i + 1 ELSE i)

processMultibulkBuffer(c) ==
    LET i == Find(c.buf, CR, 1)
    IN  IF c.mb > 0 THEN Arguments(c, 0)
        ELSE IF i = 0 THEN TooLong(c)
        ELSE IF i > Len(c.buf) - 1 THEN Wait(c)
        ELSE IF i # 2 \/ Count[c.buf[1]] < 0 THEN ProtocolError(c, 0)
        ELSE IF Count[c.buf[1]] = 0 THEN Ready(Trim(c, i + 1))
        ELSE Arguments([c EXCEPT !.mb = Count[c.buf[1]]], i + 1)

(* Commands are executed as long as there is a whole one and nothing      *)
(* blocks or closes the client.  x: the client and what it has run.       *)
RECURSIVE processInputBuffer(_)
processInputBuffer(x) ==
    IF x.c.buf = <<>> \/ x.c.close \/ x.c.blocked THEN x
    ELSE LET t == IF x.c.type # "" THEN x.c.type
                  ELSE IF x.c.buf[1] \in DOMAIN Count THEN "multibulk" ELSE "inline"
             c == [x.c EXCEPT !.type = t]
             r == IF t = "inline" THEN processInlineBuffer(c) ELSE processMultibulkBuffer(c)
             reset == [r.c EXCEPT !.type = "", !.argv = <<>>, !.blocked = Blocks(r.c.argv)]
         IN  IF ~r.ok THEN [x EXCEPT !.c = r.c]
             ELSE IF r.c.argv = <<>> THEN processInputBuffer([x EXCEPT !.c = reset])
             ELSE processInputBuffer([c |-> reset, ran |-> Append(x.ran, r.c.argv)])

(* A read returns at most IoLen symbols, and not more than is missing of  *)
(* a big argument.                                                        *)
readlen ==
    IF q.type = "multibulk" /\ q.mb > 0 /\ q.bulk # NoBulk /\ q.bulk >= BigArg
       /\ q.bulk + 2 - Len(q.buf) < IoLen
    THEN q.bulk + 2 - Len(q.buf) ELSE IoLen

readQueryFromClient(n) ==
    /\ n <= Len(wire) /\ n <= readlen
    /\ LET x == processInputBuffer([c |-> [q EXCEPT !.buf = @ \o SubSeq(wire, 1, n)],
                                    ran |-> ran])
       IN  q' = x.c /\ ran' = x.ran
    /\ wire' = Drop(wire, n)
    /\ UNCHANGED request

(* A client that was unblocked: beforeSleep goes on with its input.       *)
Unblock ==
    /\ q.blocked
    /\ LET x == processInputBuffer([c |-> [q EXCEPT !.blocked = FALSE], ran |-> ran])
       IN  q' = x.c /\ ran' = x.ran
    /\ UNCHANGED <<wire, request>>

PrNext == Unblock \/ \E n \in 1 .. IoLen : readQueryFromClient(n)

----------------------------------------------------------------------------
(* The commands a request means, up to the first broken one.              *)
Meant ==
    LET bad == {i \in DOMAIN request : request[i].broken}
        n == IF bad = {} THEN Len(request) ELSE (CHOOSE i \in bad : \A j \in bad : i <= j) - 1
    IN  SelectSeq([i \in 1 .. n |-> request[i].argv], LAMBDA a : a # <<>>)

(* However the bytes of the requests are cut into reads, the commands of  *)
(* the requests are executed, in order and with the arguments sent, data  *)
(* that looks like protocol included; a broken request and what follows   *)
(* it are not (processInputBuffer, processMultibulkBuffer).               *)
RequestsAsSent ==
    /\ IsPrefix(ran, Meant)
    /\ wire = <<>> /\ ~q.blocked => ran = Meant
    /\ q.close => \E i \in DOMAIN request : request[i].broken
=============================================================================
