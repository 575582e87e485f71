--------------------------- MODULE PagePoolProofs ---------------------------
(***************************************************************************)
(* Proofs about PagePool for every number and size of pages and entries.   *)
(***************************************************************************)
EXTENDS PagePool, SequenceTheorems, TLAPS

EntryRecord == [page : Nat, offset : Nat, size : EntrySize,
                via : {"cut", "new", "fail"}]

\* No two nodes share a page, and every entry of a page in the list ends at
\* or before the offset its node has reached: what is not yet cut is free.
Owned ==
    /\ \A n \in live : node[n].page \in 1..mapped
    /\ \A m, n \in live : node[m].page = node[n].page => m = n
    /\ \A j \in DOMAIN entries : entries[j].page \in 1..mapped
    /\ \A j \in DOMAIN entries : \A n \in live :
          node[n].page = entries[j].page =>
              entries[j].offset + entries[j].size <= node[n].offset

\* The pool has a head as soon as a page was counted.
HeadCounted ==
    /\ status = "init" /\ free_page_count > 0 => page_pool # NULL
    /\ status = "running" => page_pool # NULL /\ free_page_count >= page_pool_size

Types ==
    /\ node \in [Node -> PageState]
    /\ live \subseteq Node
    /\ freed \in Seq(Node)
    /\ page_pool \in Node \cup {NULL}
    /\ free_page_count \in Nat /\ page_pool_size \in Nat \ {0}
    /\ mapped \in Nat
    /\ entries \in Seq(EntryRecord)
    /\ status \in {"init", "running", "exited", "crashed", "undefined"}

IInv == Types /\ HeadCounted /\ Owned /\ CutEntriesSound

-----------------------------------------------------------------------------
(* The heap *)

\* remove_page changes only links.
LEMMA UnlinkedSame ==
    ASSUME Types, NEW sel \in Node
    PROVE  /\ UnlinkedNodes(sel) \in [Node -> PageState]
           /\ \A m \in Node : /\ UnlinkedNodes(sel)[m].page = node[m].page
                              /\ UnlinkedNodes(sel)[m].offset = node[m].offset
<1>1. CASE node[sel].prev = NULL
  BY <1>1 DEF UnlinkedNodes, Types
<1>2. CASE node[sel].prev # NULL
  <2> DEFINE p == node[sel].prev
  <2>1. p \in Node /\ node[sel].next \in Node \cup {NULL}
    BY <1>2 DEF Types, PageState
  <2>2. UnlinkedNodes(sel) = [node EXCEPT ![p].next = node[sel].next]
    BY <1>2 DEF UnlinkedNodes
  <2> HIDE DEF p
  <2> QED BY <2>1, <2>2 DEF Types, PageState
<1> QED BY <1>1, <1>2

LEMMA ChunkNode ==
    ASSUME NEW chunks \in Seq(Node), NEW alive, NEW n \in Chunk(chunks, alive)
    PROVE  /\ n \in Node
           /\ (IF chunks = <<>> THEN <<>>
               ELSE SubSeq(chunks, 1, Len(chunks) - 1)) \in Seq(Node)
<1>1. CASE chunks = <<>>
  BY <1>1 DEF Chunk
<1>2. CASE chunks # <<>>
  <2>1. Len(chunks) \in Nat \ {0} BY <1>2, EmptySeq
  <2>2. n = chunks[Len(chunks)] BY <1>2 DEF Chunk
  <2>3. n \in Node BY <2>1, <2>2, ElementOfSeq
  <2>4. SubSeq(chunks, 1, Len(chunks) - 1) \in Seq(Node)
    BY <2>1, SubSeqProperties
  <2> QED BY <1>2, <2>3, <2>4
<1> QED BY <1>1, <1>2

\* A new head has a page nobody else has; the other nodes keep theirs.
LEMMA PushPageFacts ==
    ASSUME Types, NEW nodes \in [Node -> PageState], NEW alive \in SUBSET Node,
           NEW chunks \in Seq(Node), NEW old \in Node \cup {NULL},
           NEW n \in Node, NEW used \in Nat,
           PushPage(nodes, alive, chunks, old, n, used)
    PROVE  /\ node' \in [Node -> PageState]
           /\ node'[n].page = mapped + 1 /\ node'[n].offset = used
           /\ \A m \in Node \ {n} : /\ node'[m].page = nodes[m].page
                                    /\ node'[m].offset = nodes[m].offset
           /\ live' = alive \cup {n} /\ live' \subseteq Node
           /\ freed' \in Seq(Node)
           /\ page_pool' = n /\ n # NULL
           /\ free_page_count' = free_page_count + 1
           /\ mapped' = mapped + 1
<1> DEFINE linked == IF old = NULL THEN nodes
                     ELSE [nodes EXCEPT ![old].prev = n]
           new == [page |-> mapped + 1, offset |-> used,
                   prev |-> old, next |-> old]
<1>1. /\ linked \in [Node -> PageState]
      /\ \A m \in Node : /\ linked[m].page = nodes[m].page
                         /\ linked[m].offset = nodes[m].offset
  BY DEF PageState
<1>2. new \in PageState /\ new.page = mapped + 1 /\ new.offset = used
  BY DEF Types, PageState
<1>3. node' = [linked EXCEPT ![n] = new]
  BY DEF PushPage
<1> HIDE DEF linked, new
<1>4. /\ node' \in [Node -> PageState] /\ node'[n] = new
      /\ \A m \in Node \ {n} : node'[m] = linked[m]
  BY <1>1, <1>2, <1>3
<1>5. freed' \in Seq(Node)
  BY ChunkNode DEF PushPage
<1>6. n # NULL BY PoolConstants
<1> QED BY <1>1, <1>2, <1>4, <1>5, <1>6 DEF PushPage

\* Handing out an entry appends it to the history.
LEMMA HandOutFacts ==
    ASSUME Types, NEW page \in Nat, NEW offset \in Nat, NEW size \in EntrySize,
           NEW via \in {"cut", "new", "fail"}, HandOut(page, offset, size, via)
    PROVE  /\ entries' \in Seq(EntryRecord)
           /\ Len(entries) \in Nat
           /\ DOMAIN entries = 1..Len(entries)
           /\ DOMAIN entries' = 1..(Len(entries) + 1)
           /\ \A j \in 1..Len(entries) : /\ entries'[j] = entries[j]
                                         /\ entries[j] \in EntryRecord
           /\ entries'[Len(entries) + 1] =
                 [page |-> page, offset |-> offset, size |-> size, via |-> via]
<1> DEFINE e == [page |-> page, offset |-> offset, size |-> size, via |-> via]
<1>1. e \in EntryRecord /\ entries \in Seq(EntryRecord)
  BY DEF EntryRecord, Types
<1>2. entries' = Append(entries, e)
  BY DEF HandOut
<1> HIDE DEF e
<1>3. /\ entries' \in Seq(EntryRecord)
      /\ Len(entries') = Len(entries) + 1
      /\ \A j \in 1..Len(entries) : entries'[j] = entries[j]
      /\ entries'[Len(entries) + 1] = e
  BY <1>1, <1>2, AppendProperties
<1>4. /\ Len(entries) \in Nat /\ DOMAIN entries = 1..Len(entries)
      /\ DOMAIN entries' = 1..Len(entries')
      /\ \A j \in 1..Len(entries) : entries[j] \in EntryRecord
  BY <1>1, <1>3, LenProperties, ElementOfSeq
<1> QED BY <1>3, <1>4 DEF e

\* What handing out memory needs of the nodes for the history to stay sound.
LEMMA HandOutSound ==
    ASSUME IInv, NEW page \in 1..mapped, NEW offset \in Nat,
           NEW size \in EntrySize, NEW via \in {"cut", "new", "fail"},
           HandOut(page, offset, size, via),
           mapped' \in Nat, mapped <= mapped',
           node' \in [Node -> PageState], live' \subseteq Node,
           \A n \in live' : node'[n].page \in 1..mapped',
           \A m, n \in live' : node'[m].page = node'[n].page => m = n,
           \A n \in live' : node'[n].page <= mapped =>
               n \in live /\ node'[n].page = node[n].page
                          /\ node[n].offset <= node'[n].offset,
           \A n \in live' : node'[n].page = page =>
               offset + size <= node'[n].offset,
           via = "cut" =>
               /\ offset + size <= PageSize
               /\ \E n \in live : node[n].page = page /\ node[n].offset = offset
    PROVE  Owned' /\ CutEntriesSound'
<1> DEFINE L == Len(entries) + 1
           e == [page |-> page, offset |-> offset, size |-> size, via |-> via]
<1>1. Types BY DEF IInv
<1>2. mapped \in Nat /\ page \in Nat BY <1>1 DEF Types
<1>3. /\ Len(entries) \in Nat
      /\ DOMAIN entries = 1..Len(entries)
      /\ DOMAIN entries' = 1..L
      /\ \A j \in 1..Len(entries) : entries'[j] = entries[j]
                                    /\ entries[j] \in EntryRecord
      /\ entries'[L] = e
  <2>1. HandOut(page, offset, size, via)
    OBVIOUS
  <2>2. /\ entries' \in Seq(EntryRecord)
        /\ Len(entries) \in Nat
        /\ DOMAIN entries = 1..Len(entries)
        /\ DOMAIN entries' = 1..(Len(entries) + 1)
        /\ \A j \in 1..Len(entries) : /\ entries'[j] = entries[j]
                                      /\ entries[j] \in EntryRecord
        /\ entries'[Len(entries) + 1] =
              [page |-> page, offset |-> offset, size |-> size, via |-> via]
    BY ONLY <1>1, <1>2, <2>1, HandOutFacts, offset \in Nat, size \in EntrySize,
            via \in {"cut", "new", "fail"}
  <2> QED BY <2>2
<1>4. e.page = page /\ e.offset = offset /\ e.size = size /\ e.via = via
  OBVIOUS
<1>5. \A j \in 1..L : j = L \/ j \in 1..Len(entries)
  BY <1>3
<1>6. size \in Nat /\ \A s \in EntrySize : s \in Nat /\ s > 0
  BY PoolConstants
<1>7. \A j \in 1..Len(entries) : /\ entries[j].page \in 1..mapped
                                 /\ entries[j].offset \in Nat
                                 /\ entries[j].size \in Nat
                                 /\ entries[j].size > 0
  BY <1>3, <1>6 DEF IInv, Owned, EntryRecord
<1>8. \A n \in live' : node'[n].offset \in Nat /\ node'[n].page \in Nat
  BY DEF PageState
<1>9. \A n \in live : node[n].offset \in Nat
  BY <1>1 DEF Types, PageState
<1> HIDE DEF L, e
<1>10. \A j \in DOMAIN entries' : entries'[j].page \in 1..mapped'
  BY <1>2, <1>3, <1>4, <1>5, <1>7
<1>11. ASSUME NEW j \in DOMAIN entries', NEW n \in live',
              node'[n].page = entries'[j].page
       PROVE  entries'[j].offset + entries'[j].size <= node'[n].offset
  <2>1. CASE j = L
    BY <1>3, <1>4, <1>11, <2>1
  <2>2. CASE j \in 1..Len(entries)
    <3>1. entries'[j] = entries[j] BY <1>3, <2>2
    <3>2. node'[n].page <= mapped BY <1>2, <1>7, <1>11, <2>2, <3>1
    <3>3. n \in live /\ node'[n].page = node[n].page
          /\ node[n].offset <= node'[n].offset
      BY <3>2
    <3>4. entries[j].offset + entries[j].size <= node[n].offset
      BY <1>3, <1>11, <2>2, <3>1, <3>3 DEF IInv, Owned
    <3> QED BY <1>7, <1>8, <1>9, <2>2, <3>1, <3>3, <3>4
  <2> QED BY <1>3, <1>5, <2>1, <2>2
<1>12. ASSUME NEW j \in DOMAIN entries', entries'[j].via = "cut"
       PROVE  /\ entries'[j].offset + entries'[j].size <= PageSize
              /\ \A i \in 1..(j - 1) : \/ Spills(entries'[i])
                                      \/ ~Overlap(entries'[i], entries'[j])
  <2>1. CASE j = L
    <3>1. via = "cut" BY <1>3, <1>4, <1>12, <2>1
    <3>2. PICK n \in live : node[n].page = page /\ node[n].offset = offset
      BY <3>1
    <3>3. ASSUME NEW i \in 1..(j - 1) PROVE ~Overlap(entries'[i], entries'[j])
      <4>1. i \in 1..Len(entries) BY <1>3, <2>1 DEF L
      <4>2. entries'[i] = entries[i] /\ i \in DOMAIN entries BY <1>3, <4>1
      <4>3. entries[i].page = page => entries[i].offset + entries[i].size <= offset
        BY <3>2, <4>2 DEF IInv, Owned
      <4>4. entries[i].offset \in Nat /\ entries[i].size \in Nat
        BY <1>7, <4>1
      <4> QED BY <1>3, <1>4, <2>1, <4>2, <4>3, <4>4 DEF Overlap
    <3> QED BY <1>3, <1>4, <2>1, <3>1, <3>3
  <2>2. CASE j \in 1..Len(entries)
    <3>1. entries'[j] = entries[j] /\ j \in DOMAIN entries BY <1>3, <2>2
    <3>2. \A i \in 1..(j - 1) : entries'[i] = entries[i] BY <1>3, <2>2
    <3>3. /\ entries[j].offset + entries[j].size <= PageSize
          /\ \A i \in 1..(j - 1) : Spills(entries[i]) \/ ~Overlap(entries[i], entries[j])
      BY <1>3, <1>7, <1>12, <2>2, <3>1, PoolConstants DEF IInv, CutEntriesSound, Spills
    <3> QED BY <3>1, <3>2, <3>3
  <2> QED BY <1>3, <1>5, <2>1, <2>2
<1>13. \A j \in DOMAIN entries' : entries'[j].via = "cut" => ~Spills(entries'[j])
  <2> SUFFICES ASSUME NEW j \in DOMAIN entries', entries'[j].via = "cut"
               PROVE  ~Spills(entries'[j])
    OBVIOUS
  <2>1. /\ entries'[j].offset \in Nat /\ entries'[j].size \in Nat /\ PageSize \in Nat
    BY <1>3, <1>4, <1>5, <1>6, <1>7, PoolConstants
  <2> QED BY <1>12, <2>1 DEF Spills
<1> QED BY <1>10, <1>11, <1>12, <1>13 DEF Owned, CutEntriesSound

-----------------------------------------------------------------------------
(* The steps *)

LEMMA CutInv ==
    ASSUME IInv, NEW size \in EntrySize, NEW sel \in live, status = "running",
           CutEntry(sel, size), page_pool_size' = page_pool_size
    PROVE  IInv'
<1>1. Types /\ sel \in Node /\ size \in Nat
  BY PoolConstants DEF IInv, Types
<1>2. /\ node[sel] \in PageState /\ node[sel].offset \in Nat
      /\ node[sel].page \in Nat /\ node \in [Node -> PageState]
  BY <1>1 DEF Types, PageState
<1>3. /\ node' = [node EXCEPT ![sel].offset = node[sel].offset + size]
      /\ live' = live /\ freed' = freed /\ page_pool' = page_pool
      /\ free_page_count' = free_page_count /\ mapped' = mapped
      /\ status' = status
      /\ HandOut(node[sel].page, node[sel].offset, size, "cut")
      /\ node[sel].offset + size <= PageSize
  BY DEF CutEntry
<1>4. /\ node' \in [Node -> PageState]
      /\ node'[sel].offset = node[sel].offset + size
      /\ \A m \in Node : node'[m].page = node[m].page
      /\ \A m \in Node \ {sel} : node'[m] = node[m]
  BY <1>1, <1>2, <1>3 DEF PageState
<1>5. mapped \in Nat /\ live \subseteq Node BY <1>1 DEF Types
<1>6. /\ \A n \in live : node[n].page \in 1..mapped
      /\ \A m, n \in live : node[m].page = node[n].page => m = n
  BY DEF IInv, Owned
<1>7. \A n \in live : node[n].offset \in Nat BY <1>1 DEF Types, PageState
<1>8. /\ \A n \in live' : node'[n].page \in 1..mapped'
      /\ \A m, n \in live' : node'[m].page = node'[n].page => m = n
  BY <1>3, <1>4, <1>5, <1>6
<1>9. \A n \in live' : node[n].offset <= node'[n].offset
  BY <1>1, <1>2, <1>3, <1>4, <1>5, <1>7
<1>10. \A n \in live' : node'[n].page = node[sel].page =>
          node[sel].offset + size <= node'[n].offset
  BY <1>1, <1>2, <1>3, <1>4, <1>5, <1>6
<1>11. Owned' /\ CutEntriesSound'
  BY <1>2, <1>3, <1>4, <1>5, <1>6, <1>8, <1>9, <1>10, HandOutSound
<1>12. entries' \in Seq(EntryRecord)
  BY <1>1, <1>2, <1>3, HandOutFacts
<1>13. Types' BY <1>1, <1>3, <1>4, <1>12 DEF Types
<1>14. HeadCounted' BY <1>3 DEF IInv, HeadCounted
<1> QED BY <1>11, <1>13, <1>14 DEF IInv

LEMMA HeadAfterType ==
    ASSUME Types, NEW sel \in Node
    PROVE  HeadAfter(sel) \in Node \cup {NULL}
BY DEF HeadAfter, Types, PageState

LEMMA ReplaceInv ==
    ASSUME IInv, NEW size \in EntrySize, NEW sel \in live, status = "running",
           ReplacePage(sel, size), page_pool_size' = page_pool_size
    PROVE  IInv'
<1>1. Types /\ sel \in Node /\ size \in Nat /\ live \subseteq Node
      /\ mapped \in Nat
  BY PoolConstants DEF IInv, Types
<1>2. node[sel].page \in Nat BY <1>1 DEF Types, PageState
<1> DEFINE U == UnlinkedNodes(sel)
<1>3. /\ U \in [Node -> PageState]
      /\ \A m \in Node : U[m].page = node[m].page /\ U[m].offset = node[m].offset
  BY <1>1, UnlinkedSame
<1>4. PICK n \in Node : PushPage(U, live \ {sel}, Append(freed, sel),
                                 HeadAfter(sel), n, size)
  BY DEF ReplacePage
<1>5. Append(freed, sel) \in Seq(Node) BY <1>1, AppendProperties DEF Types
<1>6. HeadAfter(sel) \in Node \cup {NULL} BY <1>1, HeadAfterType
<1> HIDE DEF U
<1>7. /\ node' \in [Node -> PageState]
      /\ node'[n].page = mapped + 1 /\ node'[n].offset = size
      /\ \A m \in Node \ {n} : /\ node'[m].page = U[m].page
                               /\ node'[m].offset = U[m].offset
      /\ live' = (live \ {sel}) \cup {n} /\ live' \subseteq Node
      /\ freed' \in Seq(Node)
      /\ page_pool' = n /\ n # NULL
      /\ free_page_count' = free_page_count + 1
      /\ mapped' = mapped + 1
  BY <1>1, <1>3, <1>4, <1>5, <1>6, PushPageFacts
<1>8. HandOut(node[sel].page, 0, size, "new") /\ status' = status
  BY DEF ReplacePage
<1>9. /\ \A m \in live : node[m].page \in 1..mapped
      /\ \A m, k \in live : node[m].page = node[k].page => m = k
  BY DEF IInv, Owned
<1>10. \A m \in live' : m # n => m \in live /\ m # sel
                                 /\ node'[m].page = node[m].page
                                 /\ node'[m].offset = node[m].offset
  BY <1>1, <1>3, <1>7
<1>11. \A m \in live' : node'[m].page \in 1..mapped'
  BY <1>1, <1>7, <1>9, <1>10
<1>12. \A m, k \in live' : node'[m].page = node'[k].page => m = k
  <2> SUFFICES ASSUME NEW m \in live', NEW k \in live',
                      node'[m].page = node'[k].page
               PROVE  m = k
    OBVIOUS
  <2>1. \A j \in live : node[j].page \in Int /\ node[j].page < mapped + 1
    BY <1>1, <1>9
  <2> QED BY <1>7, <1>9, <1>10, <2>1
<1>13. \A m \in live' : node'[m].page <= mapped =>
          m \in live /\ node'[m].page = node[m].page
                     /\ node[m].offset <= node'[m].offset
  <2>1. ~(mapped + 1 <= mapped) BY <1>1
  <2>2. \A m \in live : node[m].offset \in Nat BY <1>1 DEF Types, PageState
  <2> QED BY <1>7, <1>10, <2>1, <2>2
<1>14. \A m \in live' : node'[m].page # node[sel].page
  <2>1. mapped + 1 # node[sel].page BY <1>1, <1>9
  <2> QED BY <1>7, <1>9, <1>10, <2>1
<1>15. mapped' \in Nat /\ mapped <= mapped' BY <1>1, <1>7
<1>16. Owned' /\ CutEntriesSound'
  BY <1>7, <1>8, <1>9, <1>11, <1>12, <1>13, <1>14, <1>15, HandOutSound
<1>17. entries' \in Seq(EntryRecord) BY <1>1, <1>2, <1>8, HandOutFacts
<1>18. Types' BY <1>1, <1>7, <1>8, <1>15, <1>17 DEF Types
<1>19. HeadCounted' BY <1>1, <1>7, <1>8 DEF IInv, HeadCounted, Types
<1> QED BY <1>16, <1>18, <1>19 DEF IInv

LEMMA FailInv ==
    ASSUME IInv, NEW size \in EntrySize, NEW sel \in live, status = "running",
           ReplaceFails(sel, size), page_pool_size' = page_pool_size
    PROVE  IInv'
<1>1. Types /\ sel \in Node /\ size \in Nat /\ live \subseteq Node
      /\ mapped \in Nat
  BY PoolConstants DEF IInv, Types
<1>2. node[sel].page \in Nat BY <1>1 DEF Types, PageState
<1> DEFINE U == UnlinkedNodes(sel)
           h == HeadAfter(sel)
<1>3. /\ U \in [Node -> PageState]
      /\ \A m \in Node : U[m].page = node[m].page /\ U[m].offset = node[m].offset
  BY <1>1, UnlinkedSame
<1>4. h \in Node \cup {NULL} BY <1>1, HeadAfterType
<1>5. /\ live' = live \ {sel} /\ freed' = Append(freed, sel)
      /\ page_pool' = h
      /\ free_page_count' = free_page_count /\ mapped' = mapped
  BY DEF ReplaceFails
<1>6. freed' \in Seq(Node) BY <1>1, <1>5, AppendProperties DEF Types
<1>7. /\ \A m \in live : node[m].page \in 1..mapped /\ node[m].offset \in Nat
      /\ \A m, k \in live : node[m].page = node[k].page => m = k
  BY <1>1 DEF IInv, Owned, Types, PageState
<1> HIDE DEF U, h
<1>8. ASSUME node' = U, entries' = entries, status' \in {"crashed", "undefined"}
      PROVE  IInv'
  <2>1. \A m \in live' : m \in live /\ node'[m].page = node[m].page
                         /\ node'[m].offset = node[m].offset
    BY <1>1, <1>3, <1>5, <1>8
  <2>2. Owned' BY <1>5, <1>7, <1>8, <2>1 DEF IInv, Owned
  <2>3. CutEntriesSound' BY <1>8 DEF IInv, CutEntriesSound
  <2>4. Types' BY <1>1, <1>3, <1>4, <1>5, <1>6, <1>8 DEF Types
  <2>5. HeadCounted' BY <1>8 DEF HeadCounted
  <2> QED BY <2>2, <2>3, <2>4, <2>5 DEF IInv
<1>9. ASSUME h \in live', node' = [U EXCEPT ![h].offset = U[h].offset + size],
             HandOut(node[sel].page, node[h].offset, size, "fail"),
             status' = status
      PROVE  IInv'
  <2>1. h \in Node /\ h \in live /\ h # NULL BY <1>1, <1>5, <1>9, PoolConstants
  <2>2. U[h] \in PageState /\ U[h].offset \in Nat
    BY <1>3, <2>1 DEF PageState
  <2>3. /\ node' \in [Node -> PageState]
        /\ \A m \in Node : node'[m].page = U[m].page
        /\ \A m \in Node \ {h} : node'[m] = U[m]
        /\ node'[h].offset = U[h].offset + size
    BY <1>1, <1>3, <1>9, <2>1, <2>2 DEF PageState
  <2>4. \A m \in live' : m \in live /\ m \in Node /\ m # sel
                         /\ node'[m].page = node[m].page
    BY <1>1, <1>3, <1>5, <2>3
  <2>5. \A m \in live' : node[m].offset <= node'[m].offset
    BY <1>1, <1>3, <1>7, <2>2, <2>3, <2>4
  <2>6. /\ \A m \in live' : node'[m].page \in 1..mapped'
        /\ \A m, k \in live' : node'[m].page = node'[k].page => m = k
        /\ \A m \in live' : node'[m].page # node[sel].page
    BY <1>5, <1>7, <2>4
  <2>7. node[h].offset \in Nat BY <1>7, <2>1
  <2>8. Owned' /\ CutEntriesSound'
    BY <1>1, <1>5, <1>7, <1>9, <2>3, <2>4, <2>5, <2>6, <2>7, HandOutSound, SMTT(40)
  <2>9. entries' \in Seq(EntryRecord) BY <1>1, <1>2, <1>9, <2>7, HandOutFacts
  <2>10. Types' BY <1>1, <1>4, <1>5, <1>6, <1>9, <2>3, <2>9 DEF Types
  <2>11. HeadCounted' BY <1>5, <1>9, <2>1 DEF IInv, HeadCounted
  <2> QED BY <2>8, <2>10, <2>11 DEF IInv
<1> QED BY <1>8, <1>9 DEF ReplaceFails, U, h

\* A step that leaves the heap and the history alone.
LEMMA HeapUnchanged ==
    ASSUME IInv, UNCHANGED <<heap, entries>>,
           page_pool_size' \in Nat \ {0},
           status' \in {"init", "running", "exited", "crashed", "undefined"},
           HeadCounted'
    PROVE  IInv'
<1>1. /\ node' = node /\ live' = live /\ freed' = freed /\ mapped' = mapped
      /\ page_pool' = page_pool /\ free_page_count' = free_page_count
      /\ entries' = entries
  BY DEF heap
<1>2. Owned' BY <1>1 DEF IInv, Owned
<1>3. CutEntriesSound' BY <1>1 DEF IInv, CutEntriesSound
<1>4. Types' BY <1>1 DEF IInv, Types
<1> QED BY <1>2, <1>3, <1>4 DEF IInv

LEMMA StartInv ==
    ASSUME IInv,
           \/ \E requests \in PoolRequests : SetPagePoolSize(requests)
           \/ InitPage \/ InitDone
    PROVE  IInv'
<1>1. Types BY DEF IInv
<1>2. ASSUME NEW requests \in PoolRequests, SetPagePoolSize(requests) PROVE IInv'
  <2>1. /\ UNCHANGED <<heap, entries>> /\ status' = status /\ status = "init"
        /\ page_pool_size' = (requests * DictEntry + PageSize - 1) \div PageSize
        /\ free_page_count' = free_page_count /\ page_pool' = page_pool
    BY <1>2 DEF SetPagePoolSize, heap
  <2>2. /\ requests \in Nat /\ requests >= 1
        /\ DictEntry \in Nat /\ DictEntry >= 1
        /\ PageSize \in Nat /\ PageSize >= 1
    BY PoolConstants
  <2>3. requests * DictEntry \in Nat /\ requests * DictEntry >= 1
    <3> DEFINE r == requests * DictEntry
    <3>1. requests \in Int /\ DictEntry \in Int /\ requests > 0 /\ DictEntry > 0
      BY <2>2
    <3>2. r \in Int /\ r > 0 BY <3>1, Z3
    <3> QED BY <3>2
  <2>4. ASSUME NEW a \in Nat, a >= 1
        PROVE  (a + PageSize - 1) \div PageSize \in Nat \ {0}
    <3>1. a + PageSize - 1 >= PageSize BY <2>2, <2>4
    <3> DEFINE q == (a + PageSize - 1) \div PageSize
    <3>2. q \in Int /\ a + PageSize - 1 < PageSize * (q + 1)
      BY <2>2, Z3
    <3>3. CASE q <= 0
      <4>1. PageSize * (q + 1) <= PageSize BY <2>2, <3>2, <3>3, Z3
      <4> QED BY <2>2, <3>1, <3>2, <4>1
    <3> QED BY <3>2, <3>3
  <2>5. page_pool_size' \in Nat \ {0} BY <2>1, <2>3, <2>4
  <2>6. HeadCounted' BY <2>1 DEF IInv, HeadCounted
  <2> QED BY <2>1, <2>5, <2>6, HeapUnchanged
<1>3. CASE InitDone
  <2>1. /\ UNCHANGED <<heap, entries>> /\ status' = "running" /\ status = "init"
        /\ page_pool_size' = page_pool_size /\ free_page_count = page_pool_size
        /\ free_page_count' = free_page_count /\ page_pool' = page_pool
    BY <1>3 DEF InitDone, heap
  <2>2. HeadCounted' BY <1>1, <2>1 DEF IInv, HeadCounted, Types
  <2> QED BY <1>1, <2>1, <2>2, HeapUnchanged DEF Types
<1>4. CASE InitPage
  <2>1. status = "init" /\ page_pool_size' = page_pool_size
    BY <1>4 DEF InitPage
  <2>2. CASE UNCHANGED <<heap, entries>> /\ status' \in {"exited", "init"}
    <3>1. free_page_count' = free_page_count /\ page_pool' = page_pool
      BY <2>2 DEF heap
    <3>2. HeadCounted' BY <2>1, <2>2, <3>1 DEF IInv, HeadCounted
    <3> QED BY <1>1, <2>1, <2>2, <3>2, HeapUnchanged DEF Types
  <2>3. ASSUME NEW n \in Node, PushPage(node, live, freed, page_pool, n, 0),
               entries' = entries, status' = status
        PROVE  IInv'
    <3>1. /\ node \in [Node -> PageState] /\ live \subseteq Node
          /\ freed \in Seq(Node) /\ page_pool \in Node \cup {NULL}
          /\ mapped \in Nat
      BY <1>1 DEF Types
    <3>2. /\ node' \in [Node -> PageState]
          /\ node'[n].page = mapped + 1 /\ node'[n].offset = 0
          /\ \A m \in Node \ {n} : /\ node'[m].page = node[m].page
                                   /\ node'[m].offset = node[m].offset
          /\ live' = live \cup {n} /\ live' \subseteq Node
          /\ freed' \in Seq(Node)
          /\ page_pool' = n /\ n # NULL
          /\ free_page_count' = free_page_count + 1
          /\ mapped' = mapped + 1
      BY <1>1, <2>3, <3>1, PushPageFacts
    <3>3. \A m \in live' : m # n => m \in live /\ m \in Node
      BY <3>1, <3>2
    <3>4. /\ \A m \in live : node[m].page \in 1..mapped
          /\ \A m, k \in live : node[m].page = node[k].page => m = k
          /\ \A j \in DOMAIN entries : entries[j].page \in 1..mapped
          /\ \A j \in DOMAIN entries : \A m \in live :
                node[m].page = entries[j].page =>
                    entries[j].offset + entries[j].size <= node[m].offset
      BY DEF IInv, Owned
    <3>5. \A p \in 1..mapped : p \in 1..(mapped + 1) /\ p # mapped + 1
      BY <3>1
    <3>6. \A m \in live' : node'[m].page \in 1..mapped'
      <4>1. mapped + 1 \in 1..(mapped + 1) BY <3>1
      <4> QED BY <3>2, <3>3, <3>4, <3>5, <4>1
    <3>7. \A m, k \in live' : node'[m].page = node'[k].page => m = k
      BY <3>2, <3>3, <3>4, <3>5
    <3>8. Owned' BY <2>3, <3>2, <3>3, <3>4, <3>5, <3>6, <3>7 DEF Owned
    <3>9. CutEntriesSound' BY <2>3 DEF IInv, CutEntriesSound
    <3>10. Types' BY <1>1, <2>1, <2>3, <3>2 DEF Types
    <3>11. HeadCounted' BY <2>1, <2>3, <3>2 DEF HeadCounted
    <3> QED BY <3>8, <3>9, <3>10, <3>11 DEF IInv
  <2> QED BY <1>4, <2>1, <2>2, <2>3 DEF InitPage
<1> QED BY <1>2, <1>3, <1>4

LEMMA AllocInv ==
    ASSUME IInv, NEW size \in EntrySize, NEW i, AllocEntry(size, i)
    PROVE  IInv'
<1>1. status = "running" /\ page_pool_size' = page_pool_size
      /\ page_pool_size \in Nat \ {0}
  BY DEF AllocEntry, IInv, Types
<1>2. ASSUME UNCHANGED <<heap, entries>>, status' \in {"exited", "undefined"}
      PROVE  IInv'
  <2>1. HeadCounted' BY <1>2 DEF HeadCounted
  <2> QED BY <1>1, <1>2, <2>1, HeapUnchanged
<1>3. ASSUME NEW sel \in live,
             CutEntry(sel, size) \/ ReplacePage(sel, size)
                                 \/ ReplaceFails(sel, size)
      PROVE  IInv'
  BY <1>1, <1>3, CutInv, ReplaceInv, FailInv
<1> QED BY <1>2, <1>3 DEF AllocEntry, UseFreed

LEMMA InitInv == PoolInit => IInv
<1> SUFFICES ASSUME PoolInit PROVE IInv OBVIOUS
<1>1. Types
  <2>1. <<>> \in Seq(Node) /\ <<>> \in Seq(EntryRecord) BY EmptySeq
  <2>2. node \in [Node -> PageState] BY DEF PoolInit, PageState
  <2> QED BY <2>1, <2>2, PoolConstants DEF PoolInit, Types
<1>2. DOMAIN entries = {} BY DEF PoolInit
<1> QED BY <1>1, <1>2 DEF PoolInit, IInv, HeadCounted, Owned, CutEntriesSound

LEMMA StepInv == IInv /\ [PoolNext]_poolVars => IInv'
<1> SUFFICES ASSUME IInv, [PoolNext]_poolVars PROVE IInv' OBVIOUS
<1>1. CASE UNCHANGED poolVars
  <2>1. UNCHANGED <<heap, entries>> /\ page_pool_size' = page_pool_size
        /\ status' = status /\ page_pool' = page_pool
        /\ free_page_count' = free_page_count
    BY <1>1 DEF poolVars, heap
  <2>2. HeadCounted' BY <2>1 DEF IInv, HeadCounted
  <2> QED BY <2>1, <2>2, HeapUnchanged DEF IInv, Types
<1>2. ASSUME NEW size \in EntrySize,
             AllocEntryRandom(size) \/ AllocEntryAt(size)
      PROVE  IInv'
  BY <1>2, AllocInv DEF AllocEntryRandom, AllocEntryAt
<1> QED BY <1>1, <1>2, StartInv DEF PoolNext

LEMMA Inductive == PoolSpec => []IInv
BY InitInv, StepInv, PTL DEF PoolSpec

-----------------------------------------------------------------------------
(* The list while mmap never failed *)

NoFail == \A j \in DOMAIN entries : entries[j].via # "fail"

\* Every link leads to a node in use, and no freed chunk waits to be handed
\* out again: remove_page frees one, and alloc_page takes that one at once.
Links ==
    status \in {"init", "running"} /\ NoFail =>
        /\ freed = <<>>
        /\ page_pool \in live \cup {NULL}
        /\ \A n \in live : /\ node[n].next \in live \cup {NULL}
                           /\ node[n].prev \in live \cup {NULL}

\* What alloc_page does to the links of every node.
LEMMA PushPageLinks ==
    ASSUME NEW nodes \in [Node -> PageState], NEW alive, NEW chunks,
           NEW old \in Node \cup {NULL}, NEW n \in Node, NEW used,
           PushPage(nodes, alive, chunks, old, n, used)
    PROVE  /\ node'[n].next = old /\ node'[n].prev = old
           /\ \A m \in Node \ {n} : /\ node'[m].next = nodes[m].next
                                    /\ \/ node'[m].prev = nodes[m].prev
                                       \/ node'[m].prev = n
<1> DEFINE linked == IF old = NULL THEN nodes ELSE [nodes EXCEPT ![old].prev = n]
           new == [page |-> mapped + 1, offset |-> used, prev |-> old, next |-> old]
<1>1. linked \in [Node -> PageState]
      /\ \A m \in Node : linked[m].next = nodes[m].next
                         /\ (linked[m].prev = nodes[m].prev \/ linked[m].prev = n)
  BY DEF PageState
<1>2. node' = [linked EXCEPT ![n] = new] BY DEF PushPage
<1>3. new.prev = old /\ new.next = old OBVIOUS
<1> HIDE DEF linked, new
<1>4. node'[n] = new /\ \A m \in Node \ {n} : node'[m] = linked[m] BY <1>1, <1>2
<1> QED BY <1>1, <1>3, <1>4

LEMMA ReplaceLinks ==
    ASSUME IInv, Links, NEW size \in EntrySize, NEW sel \in live, status = "running",
           ReplacePage(sel, size)
    PROVE  Links'
<1>1. Types /\ sel \in Node /\ size \in Nat /\ live \subseteq Node /\ mapped \in Nat
      /\ status' = status
  BY PoolConstants DEF IInv, Types, ReplacePage
<1>2. NoFail' => NoFail
  <2>1. HandOut(node[sel].page, 0, size, "new") /\ node[sel].page \in Nat
    BY <1>1 DEF ReplacePage, Types, PageState
  <2>2. /\ Len(entries) \in Nat /\ DOMAIN entries = 1..Len(entries)
        /\ DOMAIN entries' = 1..(Len(entries) + 1)
        /\ \A j \in 1..Len(entries) : entries'[j] = entries[j]
    BY <1>1, <2>1, HandOutFacts
  <2>3. \A j \in DOMAIN entries : j \in DOMAIN entries' /\ entries'[j] = entries[j]
    BY <2>2
  <2> QED BY <2>3 DEF NoFail
<1> SUFFICES ASSUME NoFail'
             PROVE  /\ freed' = <<>> /\ page_pool' \in live'
                    /\ \A m \in live' : /\ node'[m].next \in live' \cup {NULL}
                                        /\ node'[m].prev \in live' \cup {NULL}
  BY DEF Links
<1>3. /\ freed = <<>> /\ page_pool \in live \cup {NULL}
      /\ \A m \in live : /\ node[m].next \in live \cup {NULL}
                         /\ node[m].prev \in live \cup {NULL}
  BY <1>2 DEF Links
<1> DEFINE U == UnlinkedNodes(sel)
<1>4. U \in [Node -> PageState] BY <1>1, UnlinkedSame
<1>5. \A m \in Node : /\ U[m].prev = node[m].prev
                      /\ U[m].next = node[m].next \/ U[m].next = node[sel].next
  <2>1. CASE node[sel].prev = NULL BY <2>1 DEF UnlinkedNodes
  <2>2. CASE node[sel].prev # NULL
    <3> DEFINE p == node[sel].prev
    <3>1. p \in Node /\ node \in [Node -> PageState]
      BY <1>1, <2>2 DEF Types, PageState
    <3>2. U = [node EXCEPT ![p].next = node[sel].next] BY <2>2 DEF UnlinkedNodes
    <3> HIDE DEF p, U
    <3> QED BY <3>1, <3>2 DEF PageState
  <2> QED BY <2>1, <2>2
<1>6. HeadAfter(sel) \in live \cup {NULL} BY <1>3 DEF HeadAfter
<1>7. PICK n \in Node : PushPage(U, live \ {sel}, Append(freed, sel), HeadAfter(sel),
                                 n, size)
  BY DEF ReplacePage
<1> HIDE DEF U
<1>8. Append(freed, sel) = <<sel>> BY <1>1, <1>3
<1>9. n = sel /\ live' = (live \ {sel}) \cup {n} /\ page_pool' = n
      /\ freed' = SubSeq(<<sel>>, 1, 0)
  BY <1>7, <1>8 DEF PushPage, Chunk
<1>10. live' = live /\ freed' = <<>> BY <1>9, SubSeqEmpty
<1>11. \A m \in live : U[m].next \in live \cup {NULL} /\ U[m].prev \in live \cup {NULL}
  BY <1>1, <1>3, <1>5
<1>12. \A m \in live' : /\ node'[m].next \in live \cup {NULL}
                        /\ node'[m].prev \in live \cup {NULL}
  <2>1. HeadAfter(sel) \in Node \cup {NULL} BY <1>1, HeadAfterType
  <2>2. /\ node'[n].next = HeadAfter(sel) /\ node'[n].prev = HeadAfter(sel)
        /\ \A m \in Node \ {n} : /\ node'[m].next = U[m].next
                                 /\ node'[m].prev = U[m].prev \/ node'[m].prev = n
    BY <1>4, <1>7, <2>1, PushPageLinks
  <2> QED BY <1>1, <1>6, <1>9, <1>10, <1>11, <2>2
<1> QED BY <1>9, <1>10, <1>12

LEMMA StepLinks == IInv /\ Links /\ [PoolNext]_poolVars => Links'
<1> SUFFICES ASSUME IInv, Links, [PoolNext]_poolVars PROVE Links' OBVIOUS
<1>1. Types BY DEF IInv
<1>2. ASSUME UNCHANGED <<heap, entries>>,
             status' \in {"exited", "undefined"} \/ status' = status
                \/ (status = "init" /\ status' = "running")
      PROVE  Links'
  BY <1>2 DEF Links, NoFail, heap
<1>3. CASE UNCHANGED poolVars BY <1>2, <1>3 DEF poolVars
<1>4. CASE (\E requests \in PoolRequests : SetPagePoolSize(requests)) \/ InitDone
  BY <1>2, <1>4 DEF SetPagePoolSize, InitDone
<1>5. CASE InitPage
  <2>1. CASE UNCHANGED <<heap, entries>> /\ status' \in {"exited", "init"}
    BY <1>2, <1>5, <2>1 DEF InitPage
  <2>2. ASSUME NEW n \in Node, PushPage(node, live, freed, page_pool, n, 0),
               entries' = entries, status' = status
        PROVE  Links'
    <3> SUFFICES ASSUME NoFail, status \in {"init", "running"} PROVE Links'
      BY <2>2 DEF Links, NoFail
    <3>1. /\ freed = <<>> /\ page_pool \in live \cup {NULL}
          /\ \A m \in live : /\ node[m].next \in live \cup {NULL}
                             /\ node[m].prev \in live \cup {NULL}
      BY DEF Links
    <3>2. live' = live \cup {n} /\ page_pool' = n /\ freed' = <<>>
      BY <2>2, <3>1 DEF PushPage
    <3>3. \A m \in live' : /\ node'[m].next \in live' \cup {NULL}
                           /\ node'[m].prev \in live' \cup {NULL}
      <4>1. node \in [Node -> PageState] /\ live \subseteq Node
            /\ page_pool \in Node \cup {NULL}
        BY <1>1 DEF Types
      <4>2. /\ node'[n].next = page_pool /\ node'[n].prev = page_pool
            /\ \A m \in Node \ {n} : /\ node'[m].next = node[m].next
                                     /\ node'[m].prev = node[m].prev \/ node'[m].prev = n
        BY <2>2, <4>1, PushPageLinks
      <4> QED BY <3>1, <3>2, <4>1, <4>2
    <3> QED BY <3>2, <3>3 DEF Links
  <2> QED BY <1>5, <2>1, <2>2 DEF InitPage
<1>6. ASSUME NEW size \in EntrySize, NEW i, AllocEntry(size, i)
      PROVE  Links'
  <2>1. status = "running" BY <1>6 DEF AllocEntry
  <2>2. CASE UNCHANGED <<heap, entries>> /\ status' \in {"exited", "undefined"}
    BY <1>2, <2>2
  <2>3. ASSUME NEW sel \in live, CutEntry(sel, size) PROVE Links'
    <3>1. sel \in Node /\ node \in [Node -> PageState] /\ node[sel].page \in Nat
          /\ node[sel].offset \in Nat /\ size \in Nat
      BY <1>1, PoolConstants DEF Types, PageState
    <3>2. /\ node' = [node EXCEPT ![sel].offset = node[sel].offset + size]
          /\ UNCHANGED <<live, freed, page_pool, status>>
          /\ HandOut(node[sel].page, node[sel].offset, size, "cut")
      BY <2>3 DEF CutEntry
    <3>3. \A m \in Node : node'[m].next = node[m].next /\ node'[m].prev = node[m].prev
      BY <3>1, <3>2 DEF PageState
    <3>4. NoFail' => NoFail
      <4>1. /\ Len(entries) \in Nat /\ DOMAIN entries = 1..Len(entries)
            /\ DOMAIN entries' = 1..(Len(entries) + 1)
            /\ \A j \in 1..Len(entries) : entries'[j] = entries[j]
        BY <1>1, <3>1, <3>2, HandOutFacts
      <4>2. \A j \in DOMAIN entries : j \in DOMAIN entries' /\ entries'[j] = entries[j]
        BY <4>1
      <4> QED BY <4>2 DEF NoFail
    <3>5. live \subseteq Node BY <1>1 DEF Types
    <3> QED BY <3>2, <3>3, <3>4, <3>5 DEF Links
  <2>4. ASSUME NEW sel \in live, ReplacePage(sel, size) PROVE Links'
    BY <2>1, <2>4, ReplaceLinks
  <2>5. ASSUME NEW sel \in live, ReplaceFails(sel, size) PROVE Links'
    <3>1. CASE status' \in {"crashed", "undefined"} BY <3>1 DEF Links
    <3>2. CASE HandOut(node[sel].page, node[HeadAfter(sel)].offset, size, "fail")
               /\ HeadAfter(sel) \in live
      <4>1. node[sel].page \in Nat /\ node[HeadAfter(sel)].offset \in Nat
        BY <1>1, <3>2 DEF Types, PageState
      <4> DEFINE page == node[sel].page
                 offset == node[HeadAfter(sel)].offset
                 e == [page |-> page, offset |-> offset, size |-> size, via |-> "fail"]
      <4>2. page \in Nat /\ offset \in Nat /\ HandOut(page, offset, size, "fail")
        BY <3>2, <4>1
      <4> HIDE DEF page, offset
      <4>3. /\ Len(entries) \in Nat /\ DOMAIN entries' = 1..(Len(entries) + 1)
            /\ entries'[Len(entries) + 1] = e
        BY <1>1, <4>2, HandOutFacts
      <4>4. ~NoFail' BY <4>3 DEF NoFail
      <4> QED BY <4>4 DEF Links
    <3> QED BY <2>5, <3>1, <3>2 DEF ReplaceFails
  <2> QED BY <1>6, <2>2, <2>3, <2>4, <2>5 DEF AllocEntry, UseFreed
<1>7. CASE \E size \in EntrySize : AllocEntryRandom(size) \/ AllocEntryAt(size)
  BY <1>6, <1>7 DEF AllocEntryRandom, AllocEntryAt
<1> QED BY <1>3, <1>4, <1>5, <1>7 DEF PoolNext

-----------------------------------------------------------------------------
(* Theorems *)

\* A running pool has a head and as many pages were counted as a random
\* position may ask for: alloc_entry_random never leaves by exit(-1).
THEOREM TypeCorrect == PoolSpec => []TypeOK
<1>1. IInv => TypeOK
  BY DEF IInv, Types, HeadCounted, TypeOK, EntryRecord
<1> QED BY <1>1, Inductive, PTL

\* For pools and pages of every size an entry cut from a page with room is
\* inside the page and disjoint from everything handed out before, but for what
\* runs past the end of its own page after a failed mmap.
THEOREM CutEntriesSafe == PoolSpec => []CutEntriesSound
<1>1. IInv => CutEntriesSound
  BY DEF IInv
<1> QED BY <1>1, Inductive, PTL

\* While mmap never failed no pointer of the list names a freed node: what
\* remove_page leaves behind is the chunk that alloc_page takes.
THEOREM NoDanglingHolds == PoolSpec => []NoDangling
<1>1. PoolInit => Links
  BY DEF PoolInit, Links
<1>2. IInv /\ Links => NoDangling
  BY DEF IInv, Links, HeadCounted, NoFail, NoDangling
<1> QED BY <1>1, <1>2, StepLinks, Inductive, PTL DEF PoolSpec

=============================================================================
