------------------------------ MODULE PagePool ------------------------------
(***************************************************************************)
(* memory_aggregator.c, the allocator this fork uses for dict entries.     *)
(*                                                                         *)
(* Pages from mmap are kept in a doubly linked list of page_state nodes;   *)
(* an entry is cut from the page the caller names by its position in the   *)
(* list, and a page without room is replaced by a new one.                 *)
(*                                                                         *)
(* The nodes come from malloc, and free followed by malloc of the same     *)
(* size returns the same chunk: that is what the thread cache of the C     *)
(* library does, so the pointers that still name a freed node name the     *)
(* next one.  A freed node that is read before it is handed out again is   *)
(* undefined behaviour, after which nothing is modelled.                   *)
(***************************************************************************)
EXTENDS Integers, Sequences

CONSTANTS Node,        \* the addresses of page_state nodes
          NULL,
          PoolSize,    \* page_pool_size as compiled in
          PoolRequests, \* the arguments of set_page_pool_size
          PageSize,    \* PAGE_SIZE
          EntrySize,   \* the sizes asked for
          DictEntry,   \* the 24 bytes set_page_pool_size counts per request
          MaxPages,    \* bound: mmap gives no more pages than this
          MaxEntries   \* bound on the number of allocations

ASSUME PoolConstants ==
    /\ NULL \notin Node
    /\ PoolSize \in Nat \ {0} /\ PageSize \in Nat \ {0}
    /\ EntrySize \subseteq 1..PageSize /\ DictEntry \in 1..PageSize
    /\ PoolRequests \subseteq Nat \ {0}
    /\ MaxPages \in Nat /\ MaxEntries \in Nat

VARIABLES node,            \* the page_state structs
          live,            \* the nodes malloc has handed out
          freed,           \* chunks freed and not handed out since, last on top
          page_pool,       \* head of the list
          free_page_count,
          page_pool_size,
          mapped,          \* pages 1..mapped were mapped, in this order
          entries,         \* history: the memory handed out, in order
          status           \* what the process does

heap == <<node, live, freed, page_pool, free_page_count, mapped>>

poolVars == <<heap, page_pool_size, entries, status>>

PageState == [page : Nat, offset : Nat, prev : Node \cup {NULL},
              next : Node \cup {NULL}]

PoolInit ==
    /\ node = [n \in Node |-> [page |-> 0, offset |-> 0,
                               prev |-> NULL, next |-> NULL]]
    /\ live = {} /\ freed = <<>>
    /\ page_pool = NULL
    /\ free_page_count = 0
    /\ page_pool_size = PoolSize
    /\ mapped = 0
    /\ entries = <<>>
    /\ status = "init"

-----------------------------------------------------------------------------
(* alloc_page *)

\* malloc: the chunk freed last if there is one.
Chunk(chunks, alive) ==
    IF chunks = <<>> THEN Node \ alive ELSE {chunks[Len(chunks)]}

\* mmap succeeds: n becomes the head of the list, with used bytes of its page
\* taken.  old is page_pool, which may name the chunk n itself.
PushPage(nodes, alive, chunks, old, n, used) ==
    /\ n \in Chunk(chunks, alive)
    /\ node' = LET linked == IF old = NULL THEN nodes
                             ELSE [nodes EXCEPT ![old].prev = n]
               IN [linked EXCEPT ![n] = [page |-> mapped + 1, offset |-> used,
                                         prev |-> old, next |-> old]]
    /\ live' = alive \cup {n}
    /\ freed' = IF chunks = <<>> THEN <<>>
                ELSE SubSeq(chunks, 1, Len(chunks) - 1)
    /\ page_pool' = n
    /\ free_page_count' = free_page_count + 1
    /\ mapped' = mapped + 1

\* set_page_pool_size: pages for the requests, rounded up.
SetPagePoolSize(requests) ==
    /\ status = "init" /\ free_page_count = 0
    /\ page_pool_size' = (requests * DictEntry + PageSize - 1) \div PageSize
    /\ UNCHANGED <<heap, entries, status>>

\* init_page_pool: one turn of its loop.  A page that is not aligned (-2) is
\* unmapped again and the turn repeated; without memory (-1) the server exits.
InitPage ==
    /\ status = "init" /\ free_page_count < page_pool_size
    /\ \/ /\ mapped < MaxPages
          /\ \E n \in Node : PushPage(node, live, freed, page_pool, n, 0)
          /\ UNCHANGED <<entries, status>>
       \/ status' = "exited" /\ UNCHANGED <<heap, entries>>
       \/ UNCHANGED <<heap, entries, status>>
    /\ UNCHANGED page_pool_size

\* Mutant of InitDone: the loop of init_page_pool ends one page early.
InitDoneEarly ==
    /\ status = "init" /\ free_page_count = page_pool_size - 1
    /\ status' = "running"
    /\ UNCHANGED <<heap, page_pool_size, entries>>

InitDone ==
    /\ status = "init" /\ free_page_count = page_pool_size
    /\ status' = "running"
    /\ UNCHANGED <<heap, page_pool_size, entries>>

-----------------------------------------------------------------------------
(* remove_page: the prev of the next page still names sel afterwards, and    *)
(* only a page whose prev is NULL counts as the head.                        *)

UnlinkedNodes(sel) ==
    IF node[sel].prev = NULL THEN node
    ELSE [node EXCEPT ![node[sel].prev].next = node[sel].next]

HeadAfter(sel) == IF node[sel].prev = NULL THEN node[sel].next ELSE page_pool

-----------------------------------------------------------------------------
(* alloc_entry, alloc_entry_skip (whose skip is 0) and alloc_entry_random    *)

\* The nodes the search for position i visits; at the last page it stays.
Walk(i) ==
    LET at[j \in 0..i] ==
          IF j = 0 THEN page_pool
          ELSE IF node[at[j - 1]].next = NULL THEN at[j - 1]
          ELSE node[at[j - 1]].next
    IN at

\* -1 takes the head.
Position(i) == IF i < 0 THEN 0 ELSE i

HandOut(page, offset, size, via) ==
    entries' = Append(entries, [page |-> page, offset |-> offset,
                                size |-> size, via |-> via])

\* Mutant of CutEntry: the offset of the page is not advanced.
CutEntryNoAdvance(sel, size) ==
    /\ node[sel].offset + size <= PageSize
    /\ HandOut(node[sel].page, node[sel].offset, size, "cut")
    /\ UNCHANGED <<heap, status>>

\* The selected page has room.
CutEntry(sel, size) ==
    /\ node[sel].offset + size <= PageSize
    /\ node' = [node EXCEPT ![sel].offset = @ + size]
    /\ HandOut(node[sel].page, node[sel].offset, size, "cut")
    /\ UNCHANGED <<live, freed, page_pool, free_page_count, mapped, status>>

NoRoom(sel, size) == node[sel].offset + size > PageSize

\* Mutant of ReplacePage: the new page is allocated before the old is freed.
ReplacePageAllocFirst(sel, size) ==
    /\ NoRoom(sel, size)
    /\ mapped < MaxPages
    /\ \E n \in Node :
          /\ n # sel
          /\ PushPage(UnlinkedNodes(sel), live \ {sel}, freed, HeadAfter(sel),
                      n, size)
          /\ HandOut(node[sel].page, 0, size, "new")
    /\ UNCHANGED status

\* It has none and mmap gives a new page: the offset is that of the new head,
\* the page is the one read before the replacement.
ReplacePage(sel, size) ==
    /\ NoRoom(sel, size)
    /\ mapped < MaxPages
    /\ \E n \in Node : PushPage(UnlinkedNodes(sel), live \ {sel},
                                Append(freed, sel), HeadAfter(sel), n, size)
    /\ HandOut(node[sel].page, 0, size, "new")
    /\ UNCHANGED status

\* It has none and mmap fails, which goes unnoticed: the bytes are counted in
\* whatever page is the head, and taken at that offset from the page that was
\* removed, beyond the end of which they may lie.
ReplaceFails(sel, size) ==
    /\ NoRoom(sel, size)
    /\ live' = live \ {sel}
    /\ freed' = Append(freed, sel)
    /\ page_pool' = HeadAfter(sel)
    /\ \/ /\ HeadAfter(sel) = NULL
          /\ status' = "crashed"
          /\ node' = UnlinkedNodes(sel)
          /\ UNCHANGED entries
       \/ /\ HeadAfter(sel) # NULL /\ HeadAfter(sel) \notin live'
          /\ status' = "undefined"
          /\ node' = UnlinkedNodes(sel)
          /\ UNCHANGED entries
       \/ /\ HeadAfter(sel) \in live'
          /\ node' = [UnlinkedNodes(sel) EXCEPT
                        ![HeadAfter(sel)].offset = @ + size]
          /\ HandOut(node[sel].page, node[HeadAfter(sel)].offset, size, "fail")
          /\ UNCHANGED status
    /\ UNCHANGED <<free_page_count, mapped>>

\* The search or remove_page touches a node that was freed.
UseFreed(i, size) ==
    /\ \/ \E j \in 0..Position(i) : Walk(Position(i))[j] \notin live
       \/ LET sel == Walk(Position(i))[Position(i)]
          IN NoRoom(sel, size) /\ node[sel].prev \notin live \cup {NULL}
    /\ status' = "undefined"
    /\ UNCHANGED <<heap, entries>>

AllocEntry(size, i) ==
    /\ status = "running"
    /\ Len(entries) < MaxEntries
    /\ \/ i >= free_page_count /\ status' = "exited" /\ UNCHANGED <<heap, entries>>
       \/ i < free_page_count /\ UseFreed(i, size)
       \/ /\ i < free_page_count
          /\ \A j \in 0..Position(i) : Walk(Position(i))[j] \in live
          /\ \E sel \in live :
                /\ sel = Walk(Position(i))[Position(i)]
                /\ NoRoom(sel, size) => node[sel].prev \in live \cup {NULL}
                /\ \/ CutEntry(sel, size)
                   \/ ReplacePage(sel, size)
                   \/ ReplaceFails(sel, size)
    /\ UNCHANGED page_pool_size

\* The only caller: dictAddRaw, with rand() % page_pool_size.
AllocEntryRandom(size) == \E i \in 0..(page_pool_size - 1) : AllocEntry(size, i)

\* The callers may also name a position themselves, or -1.
AllocEntryAt(size) == \E i \in {-1, page_pool_size} : AllocEntry(size, i)

PoolNext ==
    \/ \E requests \in PoolRequests : SetPagePoolSize(requests)
    \/ InitPage \/ InitDone
    \/ \E size \in EntrySize : AllocEntryRandom(size) \/ AllocEntryAt(size)

PoolSpec == PoolInit /\ [][PoolNext]_poolVars

-----------------------------------------------------------------------------
(* Properties *)

\* Types; a running pool has a head, and as many pages were counted as a
\* random position may ask for, so that alloc_entry_random never exits.
TypeOK ==
    /\ node \in [Node -> PageState]
    /\ live \subseteq Node
    /\ freed \in Seq(Node)
    /\ page_pool \in Node \cup {NULL}
    /\ free_page_count \in Nat /\ page_pool_size \in Nat \ {0}
    /\ mapped \in Nat
    /\ entries \in Seq([page : Nat, offset : Nat, size : EntrySize,
                        via : {"cut", "new", "fail"}])
    /\ status \in {"init", "running", "exited", "crashed", "undefined"}
    /\ status = "running" => page_pool # NULL /\ free_page_count >= page_pool_size

Overlap(a, b) ==
    /\ a.page = b.page
    /\ a.offset < b.offset + b.size /\ b.offset < a.offset + a.size

\* After a failed mmap an entry may run past the end of its page, into what
\* the kernel has mapped there: another page of the pool, or nothing.
Spills(e) == e.offset + e.size > PageSize

\* An entry cut from a page with room lies inside that page and shares no
\* byte with any entry handed out before it, whatever pages were replaced or
\* lost meanwhile; of an entry that spills nothing is claimed.
CutEntriesSound ==
    \A j \in DOMAIN entries : entries[j].via = "cut" =>
        /\ ~Spills(entries[j])
        /\ \A i \in 1..(j - 1) : Spills(entries[i]) \/ ~Overlap(entries[i], entries[j])

\* While mmap never failed no pointer of the list names a freed node: what
\* remove_page leaves behind is always the chunk the next page takes.
NoDangling ==
    status = "running" /\ (\A j \in DOMAIN entries : entries[j].via # "fail") =>
        /\ page_pool \in live
        /\ \A n \in live : /\ node[n].next \in live \cup {NULL}
                           /\ node[n].prev \in live \cup {NULL}

\* alloc_entry: "We are assuming pages will not be reclaimed as opposed to
\* malloc. Meaning that once a key value pair is, it's never deleted": no
\* two entries share memory.
EntriesDisjoint ==
    \A j \in DOMAIN entries : \A i \in 1..(j - 1) :
        ~Overlap(entries[i], entries[j])
=============================================================================
