-------------------------------- MODULE Heap --------------------------------
(***************************************************************************)
(* The kernel heap, kernel/mm/mm.c, on top of the page allocator: regions  *)
(* of pages cut into blocks, each behind a HEAP_BLOCK header, all linked   *)
(* from heap_head.  kmalloc is first fit with splitting and grows the heap *)
(* when nothing fits; kfree joins neighbours that are free.                *)
(*                                                                         *)
(* Nothing in these functions yields, so the heap is one sequential        *)
(* program: pc says where it is between the steps of a call, and `at` is   *)
(* the block the loop of MmCoalesce is on.  Drivers take pages and give    *)
(* them back between calls.                                                *)
(***************************************************************************)
EXTENDS Pmm

CONSTANTS
    WORD,          \* 2^32: sizes are uint32_t
    ALIGN,         \* MM_ALIGN (8)
    HEADER,        \* sizeof(HEAP_BLOCK): 16, or 12 with 32-bit pointers
    SPLIT_MIN,     \* MM_SPLIT_MIN (16)
    GROW_PAGES,    \* MM_HEAP_GROW_PAGES (16)
    Sizes,         \* the sizes callers ask for
    Counts         \* the numbers of pages drivers ask for

ASSUME HeapAssumption ==
    /\ WORD \in Nat \ {0} /\ ALIGN \in Nat \ {0}
    /\ HEADER \in Nat \ {0} /\ SPLIT_MIN \in Nat
    /\ GROW_PAGES \in Nat /\ HEADER < GROW_PAGES * PAGE_SIZE
    /\ Sizes \subseteq 1 .. WORD - 1
    /\ Counts \subseteq Nat \ {0}

Null == 0    \* page 0 is never lent

Block == [size : Nat, free : BOOLEAN, next : Nat]
Call == [asked : Nat, old : Nat]
NoCall == [asked |-> 0, old |-> Null]

VARIABLES
    heap_head,
    heap_committed,
    block,      \* the headers: a function on the addresses of the blocks in the list
    owned,      \* pointer -> the size its owner asked for
    pc,         \* "idle", or where the heap is: "grow", "retry" or "merge"
    call,       \* kmalloc's size while it grows, and the pointer realloc will free
    at,         \* the cursor of MmCoalesce
    regions,    \* history: how often MmGrowHeap has succeeded
    heap_pages  \* history: the pages it got

heapVars == <<heap_head, heap_committed, block, owned, pc, call, at, regions, heap_pages>>
vars == <<pmmVars, heapVars>>

Put(f, x, v) == [y \in DOMAIN f \cup {x} |-> IF y = x THEN v ELSE f[y]]
Drop(f, x) == [y \in DOMAIN f \ {x} |-> f[y]]

MmAlignUp(size) ==
    LET up == (size + ALIGN - 1) % WORD IN up - (up % ALIGN)

MmInitialize ==
    /\ PmmInitialize
    /\ heap_head = Null
    /\ heap_committed = 0
    /\ block = [a \in {} |-> 0]
    /\ owned = [p \in {} |-> 0]
    /\ pc = "idle"
    /\ call = NoCall
    /\ at = Null
    /\ regions = 0
    /\ heap_pages = {}
-----------------------------------------------------------------------------
\* The headers a walk along the next fields visits; Null once it has passed the end.
Chain ==
    LET walk[k \in 0 .. Cardinality(DOMAIN block)] ==
          IF k = 0 THEN heap_head
          ELSE IF walk[k - 1] = Null THEN Null ELSE block[walk[k - 1]].next
    IN  walk

Fits(b, size) == block[b].free /\ block[b].size >= size

\* The first block of the list that fits.
FirstFit(b, size) ==
    \E k \in DOMAIN Chain :
      /\ Chain[k] = b /\ Fits(b, size)
      /\ \A j \in 0 .. k - 1 : Chain[j] # Null /\ ~Fits(Chain[j], size)

\* Faulty variant: the header of the remainder is not taken off its size.
SplitForgetsHeader(b, size) ==
    LET rest == b + HEADER + size IN
    IF block[b].size <= size + HEADER + SPLIT_MIN
      THEN Put(block, b, [block[b] EXCEPT !.free = FALSE])
      ELSE Put(Put(block, rest, [size |-> block[b].size - size,
                                 free |-> TRUE, next |-> block[b].next]),
               b, [size |-> size, free |-> FALSE, next |-> rest])

\* Faulty variant: a block too large is cut, and the remainder not kept.
SplitDropsRest(b, size) ==
    Put(block, b, [block[b] EXCEPT !.size = size, !.free = FALSE])

\* Block b with `size` bytes cut off for the caller: MmSplitBlock, and free = 0.
SplitBlock(b, size) ==
    LET rest == b + HEADER + size IN
    IF block[b].size <= size + HEADER + SPLIT_MIN
      THEN Put(block, b, [block[b] EXCEPT !.free = FALSE])
      ELSE Put(Put(block, rest, [size |-> block[b].size - size - HEADER,
                                 free |-> TRUE, next |-> block[b].next]),
               b, [size |-> size, free |-> FALSE, next |-> rest])

\* kfree(p) on the headers: the block in front of the pointer becomes free.
Release(headers, p) == Put(headers, p - HEADER, [headers[p - HEADER] EXCEPT !.free = TRUE])

\* kmalloc returns the memory behind b's header.
Hand(b, asked) ==
    /\ block' = SplitBlock(b, MmAlignUp(asked))
    /\ owned' = Put(owned, b + HEADER, asked)
    /\ pc' = "idle"
    /\ UNCHANGED at

\* It returns it to realloc, which copies what the old memory holds, frees it with kfree
\* and so comes to MmCoalesce.
HandInstead(b, asked, old) ==
    /\ block' = Release(SplitBlock(b, MmAlignUp(asked)), old)
    /\ owned' = Drop(Put(owned, b + HEADER, asked), old)
    /\ pc' = "merge"
    /\ at' = heap_head

\* The search of kmalloc, for a caller or for realloc.
Search(asked, old) ==
    /\ \/ /\ \E b \in DOMAIN block :
               /\ FirstFit(b, MmAlignUp(asked))
               /\ IF old = Null THEN Hand(b, asked) ELSE HandInstead(b, asked, old)
          /\ call' = NoCall
       \/ /\ \A b \in DOMAIN block : ~FirstFit(b, MmAlignUp(asked))
          /\ pc' = "grow"
          /\ call' = [asked |-> asked, old |-> old]
          /\ UNCHANGED <<block, owned, at>>
    /\ UNCHANGED <<pmmVars, heap_head, heap_committed, regions, heap_pages>>

\* malloc is kmalloc; calloc is kmalloc of a product that fits 32 bits.
kmalloc(asked) == pc = "idle" /\ Search(asked, Null)

\* The pages MmGrowHeap asks for; the sums are of 32 bits.
GrowPages ==
    LET bytes == (MmAlignUp(call.asked) + HEADER) % WORD
        pages == ((bytes + PAGE_SIZE - 1) % WORD) \div PAGE_SIZE
    IN  IF pages < GROW_PAGES THEN GROW_PAGES ELSE pages

\* The new region is one free block at the head of the list; goto retry.
MmGrowHeap ==
    /\ pc = "grow"
    /\ \E start \in Pages :
         /\ PmmAllocatePages(GrowPages, start)
         /\ block' = Put(block, start * PAGE_SIZE,
              [size |-> GrowPages * PAGE_SIZE - HEADER, free |-> TRUE, next |-> heap_head])
         /\ heap_head' = start * PAGE_SIZE
         /\ heap_pages' = heap_pages \cup Run(start, GrowPages)
    /\ heap_committed' = heap_committed + GrowPages * PAGE_SIZE
    /\ regions' = regions + 1
    /\ pc' = "retry"
    /\ UNCHANGED <<owned, call, at>>

Retry == pc = "retry" /\ Search(call.asked, call.old)

\* Faulty variant: kmalloc retries whether the heap has grown or not.
GrowFailureRetries ==
    /\ pc = "grow"
    /\ PmmAllocateFails(GrowPages)
    /\ pc' = "retry"
    /\ UNCHANGED <<pmmVars, heap_head, heap_committed, block, owned, call, at, regions,
                   heap_pages>>

\* No pages: kmalloc returns 0, and so does realloc, whose caller keeps the old pointer.
MmGrowHeapFails ==
    /\ pc = "grow"
    /\ PmmAllocateFails(GrowPages)
    /\ pc' = "idle"
    /\ call' = NoCall
    /\ UNCHANGED <<pmmVars, heap_head, heap_committed, block, owned, at, regions, heap_pages>>

kfree(p) ==
    /\ pc = "idle"
    /\ p \in DOMAIN owned
    /\ block' = Release(block, p)
    /\ owned' = Drop(owned, p)
    /\ pc' = "merge"
    /\ at' = heap_head
    /\ UNCHANGED <<pmmVars, heap_head, heap_committed, call, regions, heap_pages>>

\* realloc keeps a block that is large enough, and otherwise asks kmalloc for another.
realloc(p, asked) ==
    /\ pc = "idle"
    /\ p \in DOMAIN owned
    /\ \/ /\ block[p - HEADER].size >= asked
          /\ owned' = [owned EXCEPT ![p] = asked]
          /\ UNCHANGED <<pmmVars, heap_head, heap_committed, block, pc, call, at, regions, heap_pages>>
       \/ block[p - HEADER].size < asked /\ Search(asked, p)

\* The block behind b in the list, if both are free and b ends where it starts.
Joins(b) ==
    LET n == block[b].next
    IN  n # Null /\ block[b].free /\ block[n].free /\ b + HEADER + block[b].size = n

\* Faulty variant: the cursor moves on after it has joined two blocks.
CoalesceMovesOn ==
    /\ pc = "merge"
    /\ \/ /\ at # Null /\ Joins(at)
          /\ LET n == block[at].next IN
               /\ block' = Drop(Put(block, at,
                    [size |-> block[at].size + HEADER + block[n].size,
                     free |-> TRUE, next |-> block[n].next]), n)
               /\ at' = block[n].next
          /\ UNCHANGED pc
       \/ /\ at # Null /\ block[at].next # Null /\ ~Joins(at)
          /\ at' = block[at].next
          /\ UNCHANGED <<block, pc>>
       \/ /\ ~(at # Null /\ block[at].next # Null)
          /\ pc' = "idle" /\ at' = Null
          /\ UNCHANGED block
    /\ UNCHANGED <<pmmVars, heap_head, heap_committed, owned, call, regions, heap_pages>>

\* Faulty variant: the joined block keeps the link to the one that has gone.
CoalesceKeepsLink ==
    /\ pc = "merge"
    /\ at # Null /\ Joins(at)
    /\ LET n == block[at].next IN
         block' = Drop(Put(block, at, [block[at] EXCEPT !.size = @ + HEADER + block[n].size]), n)
    /\ pc' = "idle" /\ at' = Null
    /\ UNCHANGED <<pmmVars, heap_head, heap_committed, owned, call, regions, heap_pages>>

\* One turn of MmCoalesce's loop: the cursor stays on a block that has grown.
MmCoalesce ==
    /\ pc = "merge"
    /\ \/ /\ at # Null /\ Joins(at)
          /\ LET n == block[at].next IN
               block' = Drop(Put(block, at, [size |-> block[at].size + HEADER + block[n].size,
                                             free |-> TRUE, next |-> block[n].next]), n)
          /\ UNCHANGED <<pc, at>>
       \/ /\ at # Null /\ block[at].next # Null /\ ~Joins(at)
          /\ at' = block[at].next
          /\ UNCHANGED <<block, pc>>
       \/ /\ ~(at # Null /\ block[at].next # Null)
          /\ pc' = "idle" /\ at' = Null
          /\ UNCHANGED block
    /\ UNCHANGED <<pmmVars, heap_head, heap_committed, owned, call, regions, heap_pages>>
-----------------------------------------------------------------------------
\* Drivers, between calls of the heap: pages are lent, and given back in whole or in part.
TakePages(count) ==
    /\ pc = "idle"
    /\ \E start \in Pages : PmmAllocatePages(count, start)
    /\ UNCHANGED heapVars

GivePages(start, count) ==
    /\ pc = "idle"
    /\ \A p \in Run(start, count) : p \in Pages \ heap_pages /\ lent[p] = 1
    /\ PmmFreePages(start, count)
    /\ UNCHANGED heapVars

Steps == MmGrowHeap \/ MmGrowHeapFails \/ Retry \/ MmCoalesce

Next ==
    \/ \E asked \in Sizes :
         kmalloc(asked) \/ \E p \in DOMAIN owned : realloc(p, asked)
    \/ \E p \in DOMAIN owned : kfree(p)
    \/ Steps
    \/ \E count \in Counts :
         TakePages(count) \/ \E start \in Pages : GivePages(start, count)

\* A loop of the heap goes on: nothing else runs until the call returns.
Spec == MmInitialize /\ [][Next]_vars /\ WF_vars(Steps)
-----------------------------------------------------------------------------
\* Headers that are linked to each other only.
Linked(headers) ==
    /\ DOMAIN headers \subseteq Nat \ {Null}
    /\ headers \in [DOMAIN headers -> Block]
    /\ \A b \in DOMAIN headers : headers[b].next \in DOMAIN headers \cup {Null}

\* Every variable has its type, and every pointer is null or points to a block: none is
\* left to a header that MmCoalesce has merged away.
TypeOK ==
    /\ PmmTypeOK
    /\ Linked(block)
    /\ heap_head \in DOMAIN block \cup {Null}
    /\ at \in DOMAIN block \cup {Null}
    /\ heap_committed \in Nat
    /\ DOMAIN owned \subseteq Nat
    /\ owned \in [DOMAIN owned -> Nat]
    /\ pc \in {"idle", "grow", "retry", "merge"}
    /\ call \in Call
    /\ call.old \in DOMAIN owned \cup {Null}
    /\ regions \in Nat
    /\ heap_pages \subseteq Pages

\* The bytes of a block, its header included.
Extent(headers, b) == b .. b + HEADER + headers[b].size - 1

Apart(headers) ==
    \A b, c \in DOMAIN headers : b # c => Extent(headers, b) \cap Extent(headers, c) = {}
Bytes(headers) == UNION {Extent(headers, b) : b \in DOMAIN headers}

HeapBytes == {x \in 0 .. page_limit * PAGE_SIZE - 1 : x \div PAGE_SIZE \in heap_pages}

\* The memory a caller owns is a block of its own that no other block's header or memory
\* overlaps, and it is as large as the caller asked, whatever splits, merges and growth
\* came before.  Sizes the alignment takes past 2^32 are excepted: kmalloc does not refuse
\* them.
OwnedApart ==
    /\ Apart(block)
    /\ \A p \in DOMAIN owned :
         /\ p - HEADER \in DOMAIN block
         /\ ~block[p - HEADER].free
         /\ owned[p] + ALIGN <= WORD => owned[p] <= block[p - HEADER].size

\* Every byte of the pages MmGrowHeap took belongs to a block, and no block reaches into a
\* page a driver holds or nobody was lent: splitting and MmCoalesce lose nothing.
NoByteLost ==
    /\ Bytes(block) = HeapBytes
    /\ \A p \in heap_pages : lent[p] = 1
    /\ heap_committed = Cardinality(heap_pages) * PAGE_SIZE

\* Once everything has been freed no region is left in pieces, however it was cut up:
\* the one pass of MmCoalesce after each kfree is enough.
AllFreedIsWhole ==
    pc = "idle" /\ DOMAIN owned = {} =>
      /\ Cardinality(DOMAIN block) <= regions
      /\ \A b \in DOMAIN block : block[b].free

\* Each call returns, those included whose size makes the sums of MmGrowHeap wrap, so
\* that the region it adds is too small and kmalloc searches and grows again.
CallsReturn == pc # "idle" ~> pc = "idle"
-----------------------------------------------------------------------------
\* The rest of the inductive invariant: a block is the next of at most one, and the
\* head the next of none.
OnePredecessor(headers, head) ==
    \A b \in DOMAIN headers :
      /\ headers[b].next # Null => headers[b].next # head
      /\ \A c \in DOMAIN headers : headers[b].next = headers[c].next =>
           b = c \/ headers[b].next = Null

\* Between calls, and in kfree, there is no kmalloc in progress.
Quiet == pc \in {"idle", "merge"} => call = NoCall

IInv ==
    /\ TypeOK
    /\ Quiet
    /\ OnePredecessor(block, heap_head)
    /\ OwnedApart
    /\ NoByteLost
    /\ PagesAccounted
-----------------------------------------------------------------------------
\* What AllFreedIsWhole rests on while blocks are in use.

\* The blocks whose next is not the one that starts where they end; and with them those
\* that could be joined with their next.
Breaks(headers) ==
    {b \in DOMAIN headers :
       ~(headers[b].next # Null /\ b + HEADER + headers[b].size = headers[b].next)}
Loose(headers) ==
    {b \in DOMAIN headers :
       \/ b \in Breaks(headers)
       \/ headers[b].free /\ headers[headers[b].next].free}

\* Splitting and merging move such a place and MmGrowHeap adds one; a pass of MmCoalesce
\* leaves nothing to join.
FewPieces ==
    /\ IsFiniteSet(DOMAIN block)
    /\ Cardinality(Breaks(block)) <= regions
    /\ pc # "merge" => Cardinality(Loose(block)) <= regions

\* A block in use has an owner.
UsedIsOwned == \A b \in DOMAIN block : block[b].free \/ b + HEADER \in DOMAIN owned

\* A walk from the head comes to every block.
AllLinked(headers, head) ==
    \A S \in SUBSET DOMAIN headers :
      /\ head \in S \cup {Null}
      /\ \A b \in S : headers[b].next \in S \cup {Null}
      => S = DOMAIN headers

\* The blocks MmCoalesce has passed are not to be joined, and lead to its cursor.
PassedIsDone ==
    pc = "merge" =>
      \E passed \in SUBSET DOMAIN block :
        /\ heap_head \in passed \cup {at}
        /\ \A b \in passed : ~Joins(b) /\ block[b].next \in passed \cup {at}

\* The invariant AllFreedIsWhole follows from.
WInv ==
    /\ FewPieces
    /\ UsedIsOwned
    /\ AllLinked(block, heap_head)
    /\ PassedIsDone
=============================================================================
