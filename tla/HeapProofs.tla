----------------------------- MODULE HeapProofs -----------------------------
(***************************************************************************)
(* Proofs about the page allocator and the heap, for every page, header    *)
(* and word size, every boot record and every set of request sizes.        *)
(*                                                                         *)
(* IInv adds to the four invariants that a block is the next of at most    *)
(* one other: without it MmCoalesce, which unlinks a header through one    *)
(* predecessor, could leave another pointing to it.  What an operation     *)
(* does to the headers is a lemma about functions (SplitKeeps,             *)
(* ReleaseKeeps, MergeKeeps, RegionKeeps); the step lemmas apply them.     *)
(*                                                                         *)
(* That what is freed becomes whole again counts places: the breaks in     *)
(* the list, and the pairs that could be joined (WInv).  The lemmas on     *)
(* pieces say how many of them each operation adds or takes away.          *)
(***************************************************************************)
EXTENDS Heap, FiniteSetTheorems, WellFoundedInduction, TLAPS

\* x lies in the d-sized step that x \div d names.
LEMMA DivBounds ==
    ASSUME NEW x \in Nat, NEW d \in Nat \ {0}
    PROVE  /\ x \div d \in Nat
           /\ d * (x \div d) <= x /\ x < d * (x \div d) + d
  OBVIOUS

\* A remainder is below its divisor, and below what it was taken of.
LEMMA ModBounds ==
    ASSUME NEW x \in Nat, NEW d \in Nat \ {0}
    PROVE  /\ x % d \in Nat /\ x % d < d
           /\ x % d <= x
           /\ x < d => x % d = x
  OBVIOUS

\* Multiplying by a page or header size keeps the order.
LEMMA Monotone ==
    ASSUME NEW a \in Nat, NEW b \in Nat, NEW d \in Nat, a <= b
    PROVE  a * d <= b * d /\ a * d \in Nat /\ b * d \in Nat
  OBVIOUS

\* MmAlignUp rounds up whenever the sum does not wrap around the word.
LEMMA AlignUpBounds ==
    ASSUME NEW size \in Nat
    PROVE  /\ MmAlignUp(size) \in Nat
           /\ size + ALIGN <= WORD => size <= MmAlignUp(size)
<1> DEFINE sum == size + ALIGN - 1
           up == sum % WORD
<1> WORD \in Nat \ {0} /\ ALIGN \in Nat \ {0}
  BY HeapAssumption, Zenon
<1>1. sum \in Nat /\ sum + 1 = size + ALIGN
  BY HeapAssumption
<1> HIDE DEF sum
<1>2. up \in Nat /\ (sum < WORD => up = sum)
  BY <1>1, ModBounds, Zenon
<1> HIDE DEF up
<1>3. up % ALIGN \in Nat /\ up % ALIGN < ALIGN /\ up % ALIGN <= up
  BY <1>2, ModBounds, Zenon
<1>4. MmAlignUp(size) = up - (up % ALIGN)
  BY Zenon DEF MmAlignUp, up, sum
<1> QED BY <1>1, <1>2, <1>3, <1>4, HeapAssumption

\* MmGrowHeap's region has room for its header.
LEMMA GrowPagesBounds ==
    ASSUME call \in Call
    PROVE  /\ GrowPages \in Nat
           /\ GrowPages * PAGE_SIZE \in Nat
           /\ HEADER < GrowPages * PAGE_SIZE
<1> DEFINE bytes == (MmAlignUp(call.asked) + HEADER) % WORD
           sum == (bytes + PAGE_SIZE - 1) % WORD
<1>1. call.asked \in Nat
  BY Zenon DEF Call
<1>2. MmAlignUp(call.asked) + HEADER \in Nat
  BY <1>1, AlignUpBounds, HeapAssumption
<1>3. bytes \in Nat
  BY <1>2, ModBounds, HeapAssumption, Zenon
<1> HIDE DEF bytes
<1>4. bytes + PAGE_SIZE - 1 \in Nat
  BY <1>3, PagesAssumption
<1>5. sum \in Nat
  BY <1>4, ModBounds, HeapAssumption, Zenon
<1> HIDE DEF sum
<1>6. sum \div PAGE_SIZE \in Nat
  BY <1>5, DivBounds, PagesAssumption, Zenon
<1>7. GrowPages \in Nat /\ GROW_PAGES <= GrowPages
  BY <1>6, HeapAssumption DEF GrowPages, sum, bytes
<1> QED BY <1>7, Monotone, HeapAssumption, PagesAssumption

\* A byte lies in page s, s + 1, ..., s + c - 1 exactly if it lies between their ends.
LEMMA ByteInRun ==
    ASSUME NEW x \in Nat, NEW s \in Nat, NEW c \in Nat, NEW d \in Nat \ {0}
    PROVE  x \div d \in Run(s, c) <=> x \in s * d .. s * d + c * d - 1
<1> DEFINE q == x \div d
<1>1. q \in Nat /\ d * q <= x /\ x < d * q + d
  BY DivBounds, Zenon
<1> HIDE DEF q
<1>2. CASE q < s
  <2>1. (q + 1) * d <= s * d
    BY <1>1, <1>2, Monotone
  <2> QED BY <1>1, <1>2, <2>1 DEF Run, q
<1>3. CASE s <= q /\ q < s + c
  <2>1. s * d <= q * d /\ (q + 1) * d <= (s + c) * d
    BY <1>1, <1>3, Monotone
  <2>2. (s + c) * d = s * d + c * d
    OBVIOUS
  <2>3. s * d \in Nat /\ c * d \in Nat
    BY Monotone
  <2> QED BY <1>1, <1>3, <2>1, <2>2, <2>3 DEF Run, q
<1>4. CASE s + c <= q
  <2>1. (s + c) * d <= q * d
    BY <1>1, <1>4, Monotone
  <2>2. (s + c) * d = s * d + c * d
    OBVIOUS
  <2> QED BY <1>1, <1>4, <2>1, <2>2 DEF Run, q
<1> QED BY <1>1, <1>2, <1>3, <1>4

\* A set of numbers that is not empty has a least one.
LEMMA LeastOf ==
    ASSUME NEW T \in SUBSET Nat, T # {}
    PROVE  \E x \in T : \A y \in T : x <= y
<1>1. PICK x \in T : \A y \in T : ~(<<y, x>> \in OpToRel(<, Nat))
  BY WFMin, NatLessThanWellFounded, Zenon
<1>2. \A y \in T : ~(y < x)
  BY <1>1, Zenon DEF OpToRel
<1> QED BY <1>2
-----------------------------------------------------------------------------
\* The pages below page_limit are finitely many, so they can be counted.
LEMMA PagesFinite ==
    ASSUME page_limit \in Nat
    PROVE  /\ IsFiniteSet(Pages)
           /\ Managed \subseteq Pages /\ Available \subseteq Pages
           /\ \A S \in SUBSET Pages : IsFiniteSet(S) /\ Cardinality(S) \in Nat
<1>1. IsFiniteSet(Pages)
  BY FS_Interval DEF Pages
<1>2. Available \subseteq Pages
  BY Zenon DEF Available, Inside
<1>3. \A S \in SUBSET Pages : IsFiniteSet(S) /\ Cardinality(S) \in Nat
  BY <1>1, FS_Subset, FS_CardinalityType, Zenon
<1> QED BY <1>1, <1>2, <1>3, Zenon DEF Managed

\* PmmInitialize: the counters agree with the bitmap it builds.
LEMMA PmmInitializeAccounts ==
    ASSUME PmmInitialize
    PROVE  PmmTypeOK /\ PagesAccounted
<1>1. boot \in Boot
  BY BootsAssumption, Zenon DEF PmmInitialize
<1>2. \A h \in Highest : h \in Nat
  <2>1. CASE boot.kind = "mmap"
    <3>1. \A r \in boot.available : r.base + r.length \in Nat
      BY <1>1 DEF Boot, ByteRange
    <3> QED BY <2>1, <3>1, PagesAssumption, Zenon DEF Highest
  <2>2. CASE boot.kind = "memory"
    BY <1>1, <2>2, PagesAssumption DEF Highest, Boot
  <2>3. CASE boot.kind = "none"
    BY <2>3, PagesAssumption, Zenon DEF Highest
  <2> QED BY <1>1, <2>1, <2>2, <2>3, Zenon DEF Boot
<1>3. PICK h \in Highest :
        page_limit = IF h \div PAGE_SIZE > MAX_PAGES THEN MAX_PAGES ELSE h \div PAGE_SIZE
  BY Zenon DEF PmmInitialize
<1>4. page_limit \in Nat
  BY <1>2, <1>3, DivBounds, PagesAssumption, Zenon
<1>5. search_hint \in Nat
  <2> DEFINE sum == boot.kernel_end + PAGE_SIZE - 1
  <2>1. sum \in Nat
    BY <1>1, PagesAssumption DEF Boot
  <2> HIDE DEF sum
  <2>2. sum \div PAGE_SIZE \in Nat
    BY <2>1, DivBounds, PagesAssumption, Zenon
  <2> QED BY <2>2, Zenon DEF PmmInitialize, sum
<1>6. free_pages = Cardinality(Managed)
  BY <1>4, PagesFinite, FS_Difference, Zenon DEF PmmInitialize, Managed
<1>7. Pages \ bitmap = Managed
  BY <1>4, PagesFinite, Zenon DEF PmmInitialize
<1>8. free_pages \in Nat
  BY <1>4, <1>6, PagesFinite, Zenon
<1>9. lent \in [Pages -> Nat] /\ \A p \in Pages : lent[p] = 0
  BY Zenon DEF PmmInitialize
<1>10. PmmTypeOK
  BY <1>4, <1>5, <1>8, <1>9, Zenon DEF PmmTypeOK, PmmInitialize
<1>11. Managed = {p \in Managed : lent[p] = 0}
  BY <1>4, <1>9, PagesFinite, Zenon
<1> QED BY <1>6, <1>7, <1>9, <1>10, <1>11 DEF PagesAccounted

\* Page 0 lies under the kernel's image.
LEMMA PageZeroReserved ==
    ASSUME PmmTypeOK
    PROVE  0 \notin Managed
<1> SUFFICES ASSUME 0 \in Pages
             PROVE  0 \in Reserved
  BY PagesFinite, Zenon DEF PmmTypeOK, Managed
<1>1. boot.kernel_end \in Nat \ {0}
  BY BootsAssumption, Zenon DEF PmmTypeOK, Boot
<1>2. 0 \in Touched([base |-> 0, length |-> boot.kernel_end])
  BY <1>1, PagesAssumption DEF Touched
<1> QED BY <1>2, Zenon DEF Reserved

\* What the scan of PmmAllocPages finds is a run of count free pages, page 0 excluded.
LEMMA RunFound ==
    ASSUME PmmTypeOK, PagesAccounted, NEW count \in Nat, NEW start \in Pages,
           Finds(count, start)
    PROVE  /\ count # 0
           /\ start \in Nat \ {0}
           /\ start + count <= page_limit
           /\ Run(start, count) \subseteq Pages \ bitmap
           /\ Cardinality(Run(start, count)) = count
<1>1. page_limit \in Nat /\ search_hint \in Nat /\ start \in Nat
  BY DEF PmmTypeOK, Pages
<1>2. count # 0 /\ Run(start, count) \subseteq Pages \ bitmap
  BY Zenon DEF Finds, FirstRun
<1>3. start \in Run(start, count) /\ start + count - 1 \in Run(start, count)
  BY <1>1, <1>2 DEF Run
<1>4. start # 0
  BY <1>2, <1>3, PageZeroReserved, Zenon DEF PagesAccounted
<1>5. start + count <= page_limit
  BY <1>1, <1>2, <1>3 DEF Pages
<1>6. Cardinality(Run(start, count)) = count
  BY <1>1, <1>2, FS_Interval DEF Run
<1> QED BY <1>1, <1>2, <1>4, <1>5, <1>6, Zenon

\* What a loan does to the bits, the counter and the loans.
LEMMA AllocateAccounts ==
    ASSUME PmmTypeOK, PagesAccounted, NEW count \in Nat, NEW start \in Pages,
           PmmAllocatePages(count, start)
    PROVE  /\ PmmTypeOK' /\ PagesAccounted'
           /\ Pages' = Pages /\ page_limit' = page_limit
           /\ \A p \in Run(start, count) : lent[p] = 0 /\ lent'[p] = 1
           /\ \A p \in Pages \ Run(start, count) : lent'[p] = lent[p]
<1> DEFINE R == Run(start, count)
           F == Pages \ bitmap
<1>1. /\ count # 0 /\ start \in Nat /\ R \subseteq F /\ Cardinality(R) = count
  BY RunFound, Zenon DEF PmmAllocatePages
<1>2. /\ Pages' = Pages /\ Managed' = Managed
      /\ boot' = boot /\ page_limit' = page_limit
  BY DEF PmmAllocatePages, Pages, Managed, Available, Reserved, Inside, Touched
<1>3. page_limit \in Nat /\ free_pages = Cardinality(F) /\ lent \in [Pages -> Nat]
  BY Zenon DEF PmmTypeOK, PagesAccounted
<1>4. IsFiniteSet(F) /\ IsFiniteSet(R) /\ Cardinality(F) \in Nat
  BY <1>1, <1>3, PagesFinite, Zenon
<1>5. bitmap' = bitmap \cup R /\ R \ bitmap = R
  BY <1>1, Zenon DEF PmmAllocatePages, SetUsed
<1>6. Pages' \ bitmap' = F \ R
  BY <1>2, <1>5, Zenon
<1>7. Cardinality(F \ R) = Cardinality(F) - count
  <2>1. F \cap R = R
    BY <1>1, Zenon
  <2>2. Cardinality(F \ R) = Cardinality(F) - Cardinality(F \cap R)
    BY <1>4, FS_Difference, Zenon
  <2> QED BY <1>1, <2>1, <2>2, Zenon
<1>8. Cardinality(R) <= Cardinality(F)
  BY <1>1, <1>4, FS_Subset, Zenon
<1>9. free_pages' = Cardinality(F \ R) /\ free_pages' \in Nat
  <2>1. free_pages' = IF Cardinality(R) > free_pages THEN 0 ELSE free_pages - Cardinality(R)
    BY <1>5, Zenon DEF PmmAllocatePages, SetUsed
  <2> QED BY <1>1, <1>3, <1>4, <1>7, <1>8, <2>1
<1>10. \A p \in Pages : lent'[p] = IF p \in R THEN lent[p] + 1 ELSE lent[p]
  BY Zenon DEF PmmAllocatePages
<1>11. lent' \in [Pages -> Nat]
  BY <1>3 DEF PmmAllocatePages
<1>12. \A p \in R : p \in Managed /\ lent[p] = 0
  BY <1>1, Zenon DEF PagesAccounted
<1>13. PmmTypeOK'
  <2>1. search_hint' \in Nat
    BY <1>1 DEF PmmAllocatePages
  <2>2. bitmap' \subseteq Pages'
    BY <1>1, <1>2, <1>5, Zenon DEF PmmTypeOK
  <2> QED BY <1>2, <1>3, <1>9, <1>11, <2>1, <2>2, Zenon DEF PmmTypeOK
<1>14. PagesAccounted'
  <2>1. \A p \in Pages : lent[p] <= 1 /\ (lent[p] = 1 => p \in Managed)
    BY Zenon DEF PagesAccounted
  <2>2. F = {p \in Managed : lent[p] = 0}
    BY Zenon DEF PagesAccounted
  <2>3. \A p \in Pages : lent'[p] <= 1 /\ (lent'[p] = 1 => p \in Managed)
    BY <1>10, <1>12, <2>1
  <2>4. F \ R = {p \in Managed : lent'[p] = 0}
    <3>1. \A p \in Managed : lent'[p] = 0 <=> lent[p] = 0 /\ p \notin R
      BY <1>3, <1>10, <1>12, PagesFinite
    <3> QED BY <2>2, <3>1, Zenon
  <2> QED BY <1>2, <1>6, <1>9, <2>3, <2>4, Zenon DEF PagesAccounted
<1>15. R \subseteq Pages
  BY <1>1, Zenon
<1> QED BY <1>2, <1>10, <1>12, <1>13, <1>14, <1>15

\* PmmFreePages of a run that was lent out keeps the accounts.
LEMMA FreeAccounts ==
    ASSUME PmmTypeOK, PagesAccounted, NEW count \in Nat, NEW start \in Pages,
           \A p \in Run(start, count) : p \in Pages /\ lent[p] = 1,
           PmmFreePages(start, count)
    PROVE  /\ PmmTypeOK' /\ PagesAccounted'
           /\ Pages' = Pages /\ page_limit' = page_limit
           /\ \A p \in Pages \ Run(start, count) : lent'[p] = lent[p]
<1> DEFINE R == Run(start, count)
           F == Pages \ bitmap
<1>1. R \subseteq Pages /\ R \cap Pages = R
  BY Zenon
<1>2. /\ Pages' = Pages /\ Managed' = Managed
      /\ boot' = boot /\ page_limit' = page_limit
  BY DEF PmmFreePages, Pages, Managed, Available, Reserved, Inside, Touched
<1>3. /\ page_limit \in Nat /\ free_pages = Cardinality(F) /\ lent \in [Pages -> Nat]
      /\ F = {p \in Managed : lent[p] = 0}
      /\ \A p \in Pages : lent[p] <= 1 /\ (lent[p] = 1 => p \in Managed)
  BY Zenon DEF PmmTypeOK, PagesAccounted
<1>4. R \subseteq bitmap /\ R \cap bitmap = R /\ F \cap R = {}
  BY <1>1, <1>3
<1>5. Pages' \ bitmap' = F \cup R
  BY <1>1, <1>2, <1>4, Zenon DEF PmmFreePages, SetFree
<1>6. Cardinality(F \cup R) = Cardinality(F) + Cardinality(R) /\ Cardinality(F \cup R) \in Nat
  <2>1. IsFiniteSet(F) /\ IsFiniteSet(R) /\ F \cup R \subseteq Pages
    BY <1>1, <1>3, PagesFinite, Zenon
  <2>2. Cardinality(F \cup R) \in Nat /\ Cardinality(F) \in Nat /\ Cardinality(R) \in Nat
    BY <1>1, <1>3, <2>1, PagesFinite, Zenon
  <2> QED BY <1>4, <2>1, <2>2, FS_Union, FS_EmptySet
<1>7. free_pages' = Cardinality(F \cup R)
  BY <1>1, <1>3, <1>4, <1>6, Zenon DEF PmmFreePages, SetFree
<1>8. \A p \in Pages : lent'[p] = IF p \in R THEN 0 ELSE lent[p]
  BY DEF PmmFreePages
<1>9. PmmTypeOK'
  <2>1. lent' \in [Pages -> Nat]
    BY <1>3, <1>8 DEF PmmFreePages
  <2>2. search_hint' \in Nat
    BY <1>3 DEF PmmFreePages, PmmTypeOK, Pages
  <2>3. bitmap' \subseteq Pages
    BY Zenon DEF PmmFreePages, SetFree, PmmTypeOK
  <2> QED BY <1>2, <1>3, <1>6, <1>7, <2>1, <2>2, <2>3, Zenon DEF PmmTypeOK
<1>10. PagesAccounted'
  <2>1. F \cup R = {p \in Managed : lent'[p] = 0}
    BY <1>1, <1>3, <1>8, PagesFinite, Zenon
  <2>2. \A p \in Pages : lent'[p] <= 1 /\ (lent'[p] = 1 => p \in Managed)
    BY <1>3, <1>8
  <2> QED BY <1>2, <1>5, <1>7, <2>1, <2>2, Zenon DEF PagesAccounted
<1> QED BY <1>2, <1>8, <1>9, <1>10, Zenon

\* Of the free pages the lowest not below the hint is found by the first pass, and if
\* there is none the lowest of all by the second.
LEMMA OnePageFound ==
    ASSUME PmmTypeOK, PagesAccounted
    PROVE  SinglePageFound
<1> SUFFICES ASSUME free_pages > 0
             PROVE  \E start \in Pages : Finds(1, start)
  BY Zenon DEF SinglePageFound
<1> DEFINE F == Pages \ bitmap
           High == {p \in F : search_hint <= p}
<1>1. /\ page_limit \in Nat /\ search_hint \in Nat /\ free_pages \in Nat
      /\ free_pages = Cardinality(F) /\ F \subseteq Pages /\ Pages \subseteq Nat
  BY DEF PmmTypeOK, PagesAccounted, Pages
<1>2. F # {}
  BY <1>1, FS_EmptySet
<1>3. 0 \notin F
  BY PageZeroReserved, Zenon DEF PagesAccounted
<1>4. \A s \in Nat : Run(s, 1) = {s}
  BY DEF Run
<1>5. CASE High # {}
  <2>1. PICK m \in High : \A y \in High : m <= y
    BY <1>1, <1>5, LeastOf, Zenon
  <2>2. m \in Nat /\ m \in F /\ search_hint <= m /\ m + 1 <= page_limit
    BY <1>1, <2>1 DEF Pages
  <2>3. \A s \in search_hint .. m - 1 : s \in Nat /\ s \notin F
    BY <1>1, <2>1, <2>2
  <2>4. FirstRun(search_hint, page_limit, 1, m)
    BY <1>4, <2>2, <2>3, Zenon DEF FirstRun
  <2> QED BY <1>1, <2>2, <2>4 DEF Finds
<1>6. CASE High = {}
  <2>1. PICK m \in F : \A y \in F : m <= y
    BY <1>1, <1>2, LeastOf, Zenon
  <2>2. m \in Nat /\ 1 <= m /\ m + 1 <= search_hint
    BY <1>1, <1>3, <1>6, <2>1
  <2>3. \A s \in 1 .. m - 1 : s \in Nat /\ s \notin F
    BY <1>1, <2>1, <2>2
  <2>4. FirstRun(1, search_hint, 1, m)
    BY <1>4, <2>1, <2>2, <2>3, Zenon DEF FirstRun
  <2>5. \A s \in Pages : ~FirstRun(search_hint, page_limit, 1, s)
    BY <1>1, <1>4, <1>6 DEF FirstRun
  <2> QED BY <1>1, <2>1, <2>4, <2>5 DEF Finds
<1> QED BY <1>5, <1>6, Zenon
-----------------------------------------------------------------------------
\* Unlinking a header leaves the others as they are.
LEMMA DropFacts ==
    ASSUME NEW f, NEW x
    PROVE  /\ DOMAIN Drop(f, x) = DOMAIN f \ {x}
           /\ \A y \in DOMAIN f \ {x} : Drop(f, x)[y] = f[y]
  BY Zenon DEF Drop

\* Writing a header keeps the memory a function into headers.
LEMMA PutIsFunction ==
    ASSUME NEW f, NEW x, NEW v, NEW V, f \in [DOMAIN f -> V], v \in V
    PROVE  Put(f, x, v) \in [DOMAIN Put(f, x, v) -> V]
  BY Zenon DEF Put

\* Unlinking a header keeps the memory a function into headers.
LEMMA DropIsFunction ==
    ASSUME NEW f, NEW x, NEW V, f \in [DOMAIN f -> V]
    PROVE  Drop(f, x) \in [DOMAIN Drop(f, x) -> V]
  BY Zenon DEF Drop

\* A byte belongs to the heap when it is in the extent of a block.
LEMMA InBytes ==
    ASSUME NEW f, NEW x
    PROVE  x \in Bytes(f) <=> \E b \in DOMAIN f : x \in Extent(f, b)
  BY Zenon DEF Bytes

\* What a linked heap says of one block.
LEMMA LinkedFacts ==
    ASSUME NEW f, Linked(f), NEW b \in DOMAIN f
    PROVE  /\ b \in Nat \ {Null}
           /\ f[b].size \in Nat /\ f[b].free \in BOOLEAN /\ f[b].next \in Nat
           /\ f[b].next \in DOMAIN f \cup {Null}
           /\ b \in Extent(f, b)
<1>1. b \in Nat \ {Null} /\ f[b] \in Block /\ f[b].next \in DOMAIN f \cup {Null}
  BY Zenon DEF Linked
<1>2. f[b].size \in Nat /\ f[b].free \in BOOLEAN /\ f[b].next \in Nat
  BY <1>1, Zenon DEF Block
<1> QED BY <1>1, <1>2, HeapAssumption DEF Block, Extent

\* Only whether blocks are free has changed.
LEMMA SameShape ==
    ASSUME NEW f, NEW g, NEW head, Linked(f), Apart(f), OnePredecessor(f, head),
           DOMAIN g = DOMAIN f, g \in [DOMAIN g -> Block],
           \A c \in DOMAIN f : g[c].size = f[c].size /\ g[c].next = f[c].next
    PROVE  Linked(g) /\ Apart(g) /\ OnePredecessor(g, head) /\ Bytes(g) = Bytes(f)
<1>1. \A c \in DOMAIN f : Extent(g, c) = Extent(f, c)
  BY Zenon DEF Extent
<1>2. Linked(g)
  BY Zenon DEF Linked
<1>3. Apart(g)
  BY <1>1, Zenon DEF Apart
<1>4. OnePredecessor(g, head)
  BY Zenon DEF OnePredecessor
<1>5. \A x : x \in Bytes(g) <=> x \in Bytes(f)
  BY <1>1, InBytes, Zenon
<1> QED BY <1>2, <1>3, <1>4, <1>5, Zenon

\* kfree marks one header free and touches no other.
LEMMA ReleaseKeeps ==
    ASSUME NEW f, NEW head, Linked(f), Apart(f), OnePredecessor(f, head),
           NEW p, p - HEADER \in DOMAIN f
    PROVE  LET g == Release(f, p) IN
           /\ Linked(g) /\ Apart(g) /\ OnePredecessor(g, head) /\ Bytes(g) = Bytes(f)
           /\ DOMAIN g = DOMAIN f
           /\ \A c \in DOMAIN f \ {p - HEADER} : g[c] = f[c]
<1> DEFINE b == p - HEADER
           v == [f[b] EXCEPT !.free = TRUE]
           g == Put(f, b, v)
<1>1. b \in DOMAIN f /\ f[b] \in Block
  BY Zenon DEF Linked
<1>3. v \in Block /\ v.size = f[b].size /\ v.next = f[b].next
  BY <1>1, Zenon DEF Block
<1> HIDE DEF b, v
<1>4. DOMAIN g = DOMAIN f /\ g[b] = v /\ \A c \in DOMAIN f \ {b} : g[c] = f[c]
  BY <1>1, Zenon DEF Put
<1>5. g \in [DOMAIN g -> Block]
  BY <1>3, PutIsFunction, Zenon DEF Linked
<1> HIDE DEF g
<1>6. \A c \in DOMAIN f : g[c].size = f[c].size /\ g[c].next = f[c].next
  BY <1>3, <1>4, Zenon
<1>7. Linked(g) /\ Apart(g) /\ OnePredecessor(g, head) /\ Bytes(g) = Bytes(f)
  BY <1>4, <1>5, <1>6, SameShape, Zenon
<1> QED BY <1>4, <1>7, Zenon DEF g, v, b, Release

\* kmalloc cuts a block in two: the same bytes, still disjoint, still one list.
LEMMA SplitKeeps ==
    ASSUME NEW head, Linked(block), Apart(block), OnePredecessor(block, head),
           head \in DOMAIN block \cup {Null},
           NEW b \in DOMAIN block, NEW size \in Nat, Fits(b, size)
    PROVE  LET g == SplitBlock(b, size) IN
           /\ Linked(g) /\ Apart(g) /\ OnePredecessor(g, head) /\ Bytes(g) = Bytes(block)
           /\ DOMAIN block \subseteq DOMAIN g
           /\ \A c \in DOMAIN block \ {b} : g[c] = block[c]
           /\ ~g[b].free /\ g[b].size >= size
<1>1. /\ block[b] \in Block /\ b \in Nat \ {Null} /\ block[b].size \in Nat
      /\ block[b].next \in Nat /\ block[b].next \in DOMAIN block \cup {Null}
      /\ size <= block[b].size
  BY LinkedFacts, Zenon DEF Linked, Fits
<1>2. HEADER \in Nat \ {0} /\ SPLIT_MIN \in Nat
  BY HeapAssumption, Zenon
<1>3. CASE block[b].size <= size + HEADER + SPLIT_MIN
  <2> DEFINE v == [block[b] EXCEPT !.free = FALSE]
             g == Put(block, b, v)
  <2>1. v \in Block /\ v.size = block[b].size /\ v.next = block[b].next /\ ~v.free
    BY <1>1, Zenon DEF Block
  <2> HIDE DEF v
  <2>2. DOMAIN g = DOMAIN block /\ g[b] = v /\ \A c \in DOMAIN block \ {b} : g[c] = block[c]
    BY Zenon DEF Put
  <2>3. g \in [DOMAIN g -> Block]
    BY <2>1, PutIsFunction, Zenon DEF Linked
  <2> HIDE DEF g
  <2>4. \A c \in DOMAIN block : g[c].size = block[c].size /\ g[c].next = block[c].next
    BY <2>1, <2>2, Zenon
  <2>5. Linked(g) /\ Apart(g) /\ OnePredecessor(g, head) /\ Bytes(g) = Bytes(block)
    BY <2>2, <2>3, <2>4, SameShape, Zenon
  <2>6. SplitBlock(b, size) = g
    BY <1>3, Zenon DEF SplitBlock, g, v
  <2> QED BY <1>1, <2>1, <2>2, <2>5, <2>6, Zenon
<1>4. CASE ~(block[b].size <= size + HEADER + SPLIT_MIN)
  <2> DEFINE rest == b + HEADER + size
             u == [size |-> block[b].size - size - HEADER, free |-> TRUE,
                   next |-> block[b].next]
             v == [size |-> size, free |-> FALSE, next |-> rest]
             g == Put(Put(block, rest, u), b, v)
             D == DOMAIN block
  <2>1. /\ rest \in Nat \ {Null} /\ rest = b + HEADER + size /\ rest # b
        /\ rest \in Extent(block, b)
    BY <1>1, <1>2, <1>4 DEF Extent, Null
  <2>2. /\ u \in Block /\ u.size = block[b].size - size - HEADER
        /\ u.next = block[b].next /\ u.size \in Nat
    BY <1>1, <1>2, <1>4 DEF Block
  <2>3. v \in Block /\ v.size = size /\ v.next = rest /\ ~v.free
    BY <2>1, Zenon DEF Block
  <2>4. SplitBlock(b, size) = g
    BY <1>4, Zenon DEF SplitBlock
  <2> HIDE DEF rest, u, v
  <2>5. rest \notin D
    <3> SUFFICES ASSUME rest \in D PROVE FALSE
      BY Zenon
    <3>1. rest \in Extent(block, rest)
      BY LinkedFacts, Zenon
    <3> QED BY <2>1, <3>1, Zenon DEF Apart
  <2>6. /\ DOMAIN g = D \cup {rest} /\ g[b] = v /\ g[rest] = u
        /\ \A c \in D \ {b} : g[c] = block[c]
    BY <2>1, <2>5, Zenon DEF Put
  <2>7. g \in [DOMAIN g -> Block]
    <3> DEFINE f == Put(block, rest, u)
    <3>1. f \in [DOMAIN f -> Block]
      BY <2>2, PutIsFunction, Zenon DEF Linked
    <3> HIDE DEF f
    <3>2. Put(f, b, v) \in [DOMAIN Put(f, b, v) -> Block]
      BY <2>3, <3>1, PutIsFunction, Zenon
    <3> QED BY <3>2, Zenon DEF f
  <2> HIDE DEF g
  <2>8. /\ Extent(g, b) = b .. rest - 1
        /\ Extent(g, rest) = rest .. b + HEADER + block[b].size - 1
        /\ \A c \in D \ {b} : Extent(g, c) = Extent(block, c)
    <3>1. Extent(g, b) = b .. rest - 1
      <4>1. g[b].size = size
        BY <2>3, <2>6, Zenon
      <4> QED BY <1>1, <1>2, <2>1, <4>1 DEF Extent
    <3>2. \A s \in Nat : rest + HEADER + (s - size - HEADER) - 1 = b + HEADER + s - 1
      BY <1>1, <1>2, <2>1
    <3>3. rest + HEADER + u.size - 1 = b + HEADER + block[b].size - 1
      BY <1>1, <2>2, <3>2, Zenon
    <3>4. Extent(g, rest) = rest .. b + HEADER + block[b].size - 1
      BY <2>6, <3>3, Zenon DEF Extent
    <3> QED BY <2>6, <3>1, <3>4, Zenon DEF Extent
  <2>9. /\ Extent(g, b) \cup Extent(g, rest) = Extent(block, b)
        /\ Extent(g, b) \cap Extent(g, rest) = {}
    <3> DEFINE last == b + HEADER + block[b].size - 1
    <3>1. last \in Int /\ rest <= last /\ b < rest /\ b \in Nat /\ rest \in Nat
      BY <1>1, <1>2, <2>1 DEF Extent
    <3>2. /\ Extent(g, b) = b .. rest - 1 /\ Extent(g, rest) = rest .. last
          /\ Extent(block, b) = b .. last
      BY <2>8, Zenon DEF Extent
    <3> HIDE DEF last
    <3> QED BY <3>1, <3>2
  <2>10. Linked(g)
    <3>1. DOMAIN g \subseteq Nat \ {Null}
      BY <2>1, <2>6, Zenon DEF Linked
    <3>2. \A c \in DOMAIN g : g[c].next \in DOMAIN g \cup {Null}
      BY <1>1, <2>2, <2>3, <2>6, Zenon DEF Linked
    <3> QED BY <2>7, <3>1, <3>2, Zenon DEF Linked
  <2>11. Apart(g)
    <3> SUFFICES ASSUME NEW c \in DOMAIN g, NEW d \in DOMAIN g, c # d
                 PROVE  Extent(g, c) \cap Extent(g, d) = {}
      BY Zenon DEF Apart
    <3>1. \A e \in D \ {b} : Extent(g, e) \cap Extent(block, b) = {}
      BY <2>8, Zenon DEF Apart
    <3>2. CASE c \in D \ {b} /\ d \in D \ {b}
      BY <2>8, <3>2, Zenon DEF Apart
    <3>3. CASE c \in D \ {b} /\ d \in {b, rest}
      BY <2>9, <3>1, <3>3, Zenon
    <3>4. CASE c \in {b, rest} /\ d \in D \ {b}
      BY <2>9, <3>1, <3>4, Zenon
    <3>5. CASE c \in {b, rest} /\ d \in {b, rest}
      BY <2>9, <3>5
    <3> QED BY <2>6, <3>2, <3>3, <3>4, <3>5, Zenon
  <2>12. OnePredecessor(g, head)
    <3>1. \A c \in D : block[c].next # rest
      BY <2>1, <2>5, Zenon DEF Linked
    <3>2. head # rest
      BY <2>1, <2>5, Zenon
    <3>3. \A c \in D \ {b} : g[c].next = block[c].next
      BY <2>6, Zenon
    <3>4. g[b].next = rest /\ g[rest].next = block[b].next
      BY <2>2, <2>3, <2>6, Zenon
    <3> QED BY <2>6, <3>1, <3>2, <3>3, <3>4 DEF OnePredecessor
  <2>13. Bytes(g) = Bytes(block)
    <3> SUFFICES ASSUME NEW x PROVE x \in Bytes(g) <=> x \in Bytes(block)
      BY Zenon
    <3>1. x \in Bytes(g) => x \in Bytes(block)
      BY <2>6, <2>8, <2>9, InBytes, Zenon
    <3>2. x \in Bytes(block) => x \in Bytes(g)
      BY <2>6, <2>8, <2>9, InBytes, ZenonT(30)
    <3> QED BY <3>1, <3>2, Zenon
  <2>14. g[b].size >= size
    BY <2>3, <2>6
  <2> QED BY <2>3, <2>4, <2>6, <2>10, <2>11, <2>12, <2>13, <2>14, Zenon
<1> QED BY <1>3, <1>4, Zenon

\* MmCoalesce takes the header of the block behind b out of the list and the headers.
LEMMA MergeKeeps ==
    ASSUME NEW head, Linked(block), Apart(block), OnePredecessor(block, head),
           head \in DOMAIN block \cup {Null},
           NEW b \in DOMAIN block, Joins(b)
    PROVE  LET n == block[b].next
               g == Drop(Put(block, b, [size |-> block[b].size + HEADER + block[n].size,
                                        free |-> TRUE, next |-> block[n].next]), n)
           IN  /\ Linked(g) /\ Apart(g) /\ OnePredecessor(g, head) /\ Bytes(g) = Bytes(block)
               /\ head \in DOMAIN g \cup {Null}
               /\ n # b /\ DOMAIN g = DOMAIN block \ {n}
               /\ \A c \in DOMAIN g \ {b} : g[c] = block[c]
<1> DEFINE n == block[b].next
           v == [size |-> block[b].size + HEADER + block[n].size,
                 free |-> TRUE, next |-> block[n].next]
           g == Drop(Put(block, b, v), n)
           D == DOMAIN block
<1>1. HEADER \in Nat \ {0}
  BY HeapAssumption, Zenon
<1>2. /\ b \in Nat \ {Null} /\ block[b].size \in Nat
      /\ n \in D /\ n \in Nat \ {Null} /\ n = b + HEADER + block[b].size
  BY LinkedFacts, Zenon DEF Joins
<1>3. block[n].size \in Nat /\ block[n].next \in Nat /\ block[n].next \in D \cup {Null}
  BY <1>2, LinkedFacts, Zenon
<1>4. /\ v \in Block /\ v.size = block[b].size + HEADER + block[n].size
      /\ v.next = block[n].next
  <2>1. block[b].size + HEADER + block[n].size \in Nat
    BY <1>1, <1>2, <1>3
  <2> QED BY <1>3, <2>1, Zenon DEF Block
<1>5. n # b
  BY <1>1, <1>2
<1>6. \A c \in D : (block[c].next = n => c = b) /\ head # n
  <2>1. \A c \in D : block[b].next = block[c].next => b = c \/ block[b].next = Null
    BY Zenon DEF OnePredecessor
  <2>2. block[b].next # Null => block[b].next # head
    BY Zenon DEF OnePredecessor
  <2> QED BY <1>2, <2>1, <2>2, Zenon
<1>7. block[n].next # n
  BY <1>2, <1>5, <1>6, Zenon
<1>r. \A c \in D : block[c].next = block[n].next => c = n \/ block[n].next = Null
  BY <1>2, Zenon DEF OnePredecessor
<1>h. block[n].next # Null => block[n].next # head
  BY <1>2, Zenon DEF OnePredecessor
<1>s. n = block[b].next
  BY Zenon
<1> HIDE DEF n, v
<1>8. DOMAIN g = D \ {n} /\ g[b] = v /\ \A c \in D \ {b, n} : g[c] = block[c]
  BY <1>5, Zenon DEF Put, Drop
<1>9. g \in [DOMAIN g -> Block]
  <2> DEFINE f == Put(block, b, v)
  <2>1. f \in [DOMAIN f -> Block]
    BY <1>4, PutIsFunction, Zenon DEF Linked
  <2> HIDE DEF f
  <2>2. Drop(f, n) \in [DOMAIN Drop(f, n) -> Block]
    BY <2>1, DropIsFunction, Zenon
  <2> QED BY <2>2, Zenon DEF f
<1> HIDE DEF g
<1>10. /\ Extent(g, b) = Extent(block, b) \cup Extent(block, n)
       /\ \A c \in D \ {b, n} : Extent(g, c) = Extent(block, c)
  <2> DEFINE k == block[b].size
             m == block[n].size
  <2>1. k \in Nat /\ m \in Nat /\ n = b + HEADER + k
    BY <1>2, <1>3, Zenon
  <2>2. g[b].size = k + HEADER + m
    BY <1>4, <1>8, Zenon
  <2>3. /\ Extent(g, b) = b .. b + HEADER + (k + HEADER + m) - 1
        /\ Extent(block, b) = b .. b + HEADER + k - 1
        /\ Extent(block, n) = n .. n + HEADER + m - 1
    BY <2>2, Zenon DEF Extent
  <2> HIDE DEF k, m
  <2>4. Extent(g, b) = Extent(block, b) \cup Extent(block, n)
    <3>1. /\ b \in Nat /\ n \in Nat /\ b < n /\ n + HEADER + m - 1 \in Nat
          /\ n <= n + HEADER + m - 1
      BY <1>1, <1>2, <2>1
    <3>2. /\ b + HEADER + (k + HEADER + m) - 1 = n + HEADER + m - 1
          /\ b + HEADER + k - 1 = n - 1
      BY <1>1, <1>2, <2>1
    <3>3. \A e \in Nat : n <= e => b .. e = (b .. n - 1) \cup (n .. e)
      BY <3>1
    <3> QED BY <2>3, <3>1, <3>2, <3>3, Zenon
  <2> QED BY <1>8, <2>4, Zenon DEF Extent
<1>11. Linked(g)
  <2>1. DOMAIN g \subseteq Nat \ {Null}
    BY <1>8, Zenon DEF Linked
  <2>2. \A c \in DOMAIN g : g[c].next \in DOMAIN g \cup {Null}
    <3> SUFFICES ASSUME NEW c \in DOMAIN g PROVE g[c].next \in DOMAIN g \cup {Null}
      BY Zenon
    <3>1. CASE c = b
      BY <1>3, <1>4, <1>7, <1>8, <3>1, Zenon
    <3>2. CASE c # b
      <4>1. g[c].next = block[c].next /\ block[c].next # n
        BY <1>6, <1>8, <3>2, Zenon
      <4>2. block[c].next \in D \cup {Null}
        BY <1>8, Zenon DEF Linked
      <4> QED BY <1>8, <4>1, <4>2, Zenon
    <3> QED BY <3>1, <3>2, Zenon
  <2> QED BY <1>9, <2>1, <2>2, Zenon DEF Linked
<1>12. Apart(g)
  <2> SUFFICES ASSUME NEW c \in DOMAIN g, NEW d \in DOMAIN g, c # d
               PROVE  Extent(g, c) \cap Extent(g, d) = {}
    BY Zenon DEF Apart
  <2>1. \A e \in D \ {b, n} : /\ Extent(block, e) \cap Extent(block, b) = {}
                              /\ Extent(block, e) \cap Extent(block, n) = {}
    BY <1>2, Zenon DEF Apart
  <2>2. CASE c = b
    BY <1>8, <1>10, <2>1, <2>2, Zenon
  <2>3. CASE d = b
    BY <1>8, <1>10, <2>1, <2>3, Zenon
  <2>4. CASE c # b /\ d # b
    BY <1>8, <1>10, <2>4, Zenon DEF Apart
  <2> QED BY <2>2, <2>3, <2>4, Zenon
<1>13. OnePredecessor(g, head)
  <2> SUFFICES ASSUME NEW c \in DOMAIN g
               PROVE  /\ g[c].next # Null => g[c].next # head
                      /\ \A d \in DOMAIN g : g[c].next = g[d].next =>
                           c = d \/ g[c].next = Null
    BY Zenon DEF OnePredecessor
  <2>1. g[b].next = block[n].next /\ \A d \in D \ {b, n} : g[d].next = block[d].next
    BY <1>4, <1>8, Zenon
  <2>2. CASE c = b
    BY <1>8, <1>r, <1>h, <2>1, <2>2, Zenon
  <2>3. CASE c # b
    <3>1. c \in D \ {b, n} /\ g[c].next = block[c].next
      BY <1>8, <2>1, <2>3, Zenon
    <3>2. g[c].next # Null => g[c].next # head
      BY <3>1, Zenon DEF OnePredecessor
    <3>3. ASSUME NEW d \in DOMAIN g, g[c].next = g[d].next
          PROVE  c = d \/ g[c].next = Null
      <4>1. CASE d = b
        BY <1>r, <2>1, <3>1, <3>3, <4>1, Zenon
      <4>2. CASE d # b
        BY <1>8, <2>1, <3>1, <3>3, <4>2, Zenon DEF OnePredecessor
      <4> QED BY <4>1, <4>2, Zenon
    <3> QED BY <3>2, <3>3, Zenon
  <2> QED BY <2>2, <2>3, Zenon
<1>14. Bytes(g) = Bytes(block)
  <2> SUFFICES ASSUME NEW x PROVE x \in Bytes(g) <=> x \in Bytes(block)
    BY Zenon
  <2>1. x \in Bytes(g) => x \in Bytes(block)
    BY <1>2, <1>8, <1>10, InBytes, Zenon
  <2>2. x \in Bytes(block) => x \in Bytes(g)
    BY <1>5, <1>8, <1>10, InBytes, Zenon
  <2> QED BY <2>1, <2>2, Zenon
<1>15. head \in DOMAIN g \cup {Null}
  BY <1>2, <1>6, <1>8, Zenon
<1>16. \A c \in DOMAIN g \ {b} : g[c] = block[c]
  BY <1>8, Zenon
<1> QED BY <1>5, <1>8, <1>11, <1>12, <1>13, <1>14, <1>15, <1>16, Zenon DEF g, v, n

\* MmGrowHeap puts a region of k bytes, all outside the blocks, at the head of the list.
LEMMA RegionKeeps ==
    ASSUME NEW head, Linked(block), Apart(block), OnePredecessor(block, head),
           head \in DOMAIN block \cup {Null},
           NEW a \in Nat \ {Null}, NEW k \in Nat, HEADER < k,
           (a .. a + k - 1) \cap Bytes(block) = {}
    PROVE  LET g == Put(block, a, [size |-> k - HEADER, free |-> TRUE, next |-> head])
           IN  /\ Linked(g) /\ Apart(g) /\ OnePredecessor(g, a)
               /\ Bytes(g) = Bytes(block) \cup (a .. a + k - 1)
               /\ DOMAIN g = DOMAIN block \cup {a}
               /\ \A c \in DOMAIN block : g[c] = block[c]
<1> DEFINE v == [size |-> k - HEADER, free |-> TRUE, next |-> head]
           g == Put(block, a, v)
           D == DOMAIN block
<1>1. HEADER \in Nat \ {0}
  BY HeapAssumption, Zenon
<1>2. v \in Block /\ v.size = k - HEADER /\ v.next = head
  BY <1>1 DEF Block, Linked, Null
<1>3. a \notin D
  <2> SUFFICES ASSUME a \in D PROVE FALSE
    BY Zenon
  <2>1. a \in Extent(block, a)
    BY LinkedFacts, Zenon
  <2>2. a \in a .. a + k - 1
    BY <1>1
  <2> QED BY <2>1, <2>2, InBytes, Zenon
<1> HIDE DEF v
<1>4. DOMAIN g = D \cup {a} /\ g[a] = v /\ \A c \in D : g[c] = block[c]
  BY <1>3, Zenon DEF Put
<1>5. g \in [DOMAIN g -> Block]
  BY <1>2, PutIsFunction, Zenon DEF Linked
<1> HIDE DEF g
<1>6. Extent(g, a) = a .. a + k - 1 /\ \A c \in D : Extent(g, c) = Extent(block, c)
  <2>1. g[a].size = k - HEADER
    BY <1>2, <1>4, Zenon
  <2>2. a + HEADER + (k - HEADER) - 1 = a + k - 1
    BY <1>1
  <2>3. Extent(g, a) = a .. a + k - 1
    BY <2>1, <2>2, Zenon DEF Extent
  <2> QED BY <1>4, <2>3, Zenon DEF Extent
<1>7. Linked(g)
  <2>1. DOMAIN g \subseteq Nat \ {Null}
    BY <1>4, Zenon DEF Linked
  <2>2. \A c \in DOMAIN g : g[c].next \in DOMAIN g \cup {Null}
    BY <1>2, <1>4, Zenon DEF Linked
  <2> QED BY <1>5, <2>1, <2>2, Zenon DEF Linked
<1>8. Apart(g)
  <2>1. \A c \in D : Extent(g, c) \cap Extent(g, a) = {}
    BY <1>6, InBytes, Zenon
  <2> QED BY <1>4, <1>6, <2>1, Zenon DEF Apart
<1>9. OnePredecessor(g, a)
  <2>1. g[a].next = head /\ \A c \in D : g[c].next = block[c].next
    BY <1>2, <1>4, Zenon
  <2>2. head # a /\ \A c \in D : block[c].next # a
    BY <1>3, Zenon DEF Linked
  <2> SUFFICES ASSUME NEW c \in DOMAIN g
               PROVE  /\ g[c].next # Null => g[c].next # a
                      /\ \A d \in DOMAIN g : g[c].next = g[d].next =>
                           c = d \/ g[c].next = Null
    BY Zenon DEF OnePredecessor
  <2>3. g[c].next # a
    BY <1>4, <2>1, <2>2, Zenon
  <2>4. ASSUME NEW d \in DOMAIN g, g[c].next = g[d].next, g[c].next # Null
        PROVE  c = d
    <3>1. CASE c = a
      BY <1>4, <2>1, <2>4, <3>1, Zenon DEF OnePredecessor
    <3>2. CASE d = a
      BY <1>4, <2>1, <2>4, <3>2, Zenon DEF OnePredecessor
    <3>3. CASE c \in D /\ d \in D
      BY <2>1, <2>4, <3>3, Zenon DEF OnePredecessor
    <3> QED BY <1>4, <3>1, <3>2, <3>3, Zenon
  <2> QED BY <2>3, <2>4, Zenon
<1>10. Bytes(g) = Bytes(block) \cup (a .. a + k - 1)
  <2> SUFFICES ASSUME NEW x
               PROVE  x \in Bytes(g) <=> x \in Bytes(block) \/ x \in a .. a + k - 1
    BY Zenon
  <2>1. x \in Bytes(g) => x \in Bytes(block) \/ x \in a .. a + k - 1
    BY <1>4, <1>6, InBytes, Zenon
  <2>2. x \in Bytes(block) \/ x \in a .. a + k - 1 => x \in Bytes(g)
    BY <1>4, <1>6, InBytes, Zenon
  <2> QED BY <2>1, <2>2, Zenon
<1> QED BY <1>4, <1>7, <1>8, <1>9, <1>10, Zenon DEF g, v
-----------------------------------------------------------------------------
\* OwnedApart's second part, for any headers and owners.
Holds(headers, owners) ==
    \A p \in DOMAIN owners :
      /\ p - HEADER \in DOMAIN headers
      /\ ~headers[p - HEADER].free
      /\ owners[p] + ALIGN <= WORD => owners[p] <= headers[p - HEADER].size

\* A step that leaves the page allocator alone keeps its accounts.
LEMMA PmmUnchanged ==
    ASSUME PmmTypeOK, PagesAccounted, UNCHANGED pmmVars
    PROVE  PmmTypeOK' /\ PagesAccounted' /\ Pages' = Pages
<1>1. Pages' = Pages /\ Managed' = Managed
  BY DEF pmmVars, Pages, Managed, Available, Reserved, Inside, Touched
<1>2. PmmTypeOK'
  BY <1>1, Zenon DEF PmmTypeOK, pmmVars
<1>3. PagesAccounted'
  BY <1>1, Zenon DEF PagesAccounted, pmmVars
<1> QED BY <1>1, <1>2, <1>3, Zenon

\* A step that takes no pages keeps the invariant if it keeps the headers' shape.
LEMMA HeadersPreserve ==
    ASSUME IInv, UNCHANGED <<pmmVars, heap_head, heap_committed, regions, heap_pages>>,
           Linked(block'), Apart(block'), OnePredecessor(block', heap_head),
           Bytes(block') = Bytes(block),
           heap_head \in DOMAIN block' \cup {Null}, at' \in DOMAIN block' \cup {Null},
           Holds(block', owned'), DOMAIN owned' \subseteq Nat,
           owned' \in [DOMAIN owned' -> Nat],
           pc' \in {"idle", "grow", "retry", "merge"}, call' \in Call,
           call'.old \in DOMAIN owned' \cup {Null},
           pc' \in {"idle", "merge"} => call' = NoCall
    PROVE  IInv'
<1>1. PmmTypeOK' /\ PagesAccounted' /\ Pages' = Pages
  BY PmmUnchanged, Zenon DEF IInv, TypeOK
<1>2. TypeOK'
  BY <1>1, Zenon DEF IInv, TypeOK
<1>3. OwnedApart'
  BY Zenon DEF OwnedApart, Holds
<1>4. NoByteLost'
  <2>1. HeapBytes' = HeapBytes
    BY Zenon DEF HeapBytes, pmmVars
  <2> QED BY <2>1, Zenon DEF IInv, NoByteLost, pmmVars
<1>5. OnePredecessor(block, heap_head)' /\ Quiet'
  BY Zenon DEF Quiet
<1> QED BY <1>1, <1>2, <1>3, <1>4, <1>5, Zenon DEF IInv

\* The parts of IInv that the step lemmas use.
LEMMA Parts ==
    ASSUME IInv
    PROVE  /\ Linked(block) /\ Apart(block) /\ OnePredecessor(block, heap_head)
           /\ heap_head \in DOMAIN block \cup {Null} /\ at \in DOMAIN block \cup {Null}
           /\ Holds(block, owned) /\ DOMAIN owned \subseteq Nat
           /\ owned \in [DOMAIN owned -> Nat]
           /\ pc \in {"idle", "grow", "retry", "merge"}
           /\ call \in Call /\ call.old \in DOMAIN owned \cup {Null}
           /\ pc \in {"idle", "merge"} => call = NoCall
           /\ NoCall \in Call /\ NoCall.old = Null
<1>1. NoCall \in Call /\ NoCall.old = Null
  BY Zenon DEF NoCall, Call, Null
<1> QED BY <1>1, Zenon DEF IInv, TypeOK, Quiet, OwnedApart, Holds

\* Freeing one of the owned blocks.
LEMMA ReleaseHolds ==
    ASSUME NEW f, NEW o, NEW p \in DOMAIN o, Linked(f), Holds(f, o),
           DOMAIN o \subseteq Nat, NEW g, DOMAIN g = DOMAIN f,
           \A c \in DOMAIN f \ {p - HEADER} : g[c] = f[c]
    PROVE  Holds(g, Drop(o, p))
<1>1. \A q \in DOMAIN o \ {p} : q - HEADER # p - HEADER
  <2>1. HEADER \in Nat /\ p \in Nat
    BY HeapAssumption, Zenon
  <2> QED BY <2>1
<1>2. DOMAIN Drop(o, p) = DOMAIN o \ {p} /\ \A q \in DOMAIN o \ {p} : Drop(o, p)[q] = o[q]
  BY DropFacts, Zenon
<1> QED BY <1>1, <1>2, Zenon DEF Holds

\* Handing out a free block.
LEMMA SplitHolds ==
    ASSUME IInv, NEW b \in DOMAIN block, NEW asked \in Nat, block[b].free,
           NEW g, DOMAIN block \subseteq DOMAIN g,
           \A c \in DOMAIN block \ {b} : g[c] = block[c],
           ~g[b].free, g[b].size \in Nat, g[b].size >= MmAlignUp(asked)
    PROVE  LET o == Put(owned, b + HEADER, asked)
           IN  /\ Holds(g, o) /\ DOMAIN o \subseteq Nat /\ o \in [DOMAIN o -> Nat]
               /\ DOMAIN owned \subseteq DOMAIN o
               /\ \A p \in DOMAIN owned : p # b + HEADER
<1> DEFINE q == b + HEADER
           o == Put(owned, q, asked)
<1>1. /\ Holds(block, owned) /\ DOMAIN owned \subseteq Nat
      /\ owned \in [DOMAIN owned -> Nat] /\ Linked(block)
  BY Parts, Zenon
<1>2. q \in Nat /\ q - HEADER = b
  BY <1>1, LinkedFacts, HeapAssumption
<1>3. \A p \in DOMAIN owned : p - HEADER \in DOMAIN block \ {b}
  BY <1>1, Zenon DEF Holds
<1>4. asked + ALIGN <= WORD => asked <= g[b].size
  BY AlignUpBounds, HeapAssumption
<1>5. \A p \in DOMAIN owned : p # q
  BY <1>2, <1>3, Zenon
<1> HIDE DEF q
<1>6. /\ DOMAIN o = DOMAIN owned \cup {q} /\ o[q] = asked
      /\ \A p \in DOMAIN owned : o[p] = owned[p]
  BY <1>5, Zenon DEF Put
<1>7. o \in [DOMAIN o -> Nat]
  BY <1>1, PutIsFunction, Zenon
<1> HIDE DEF o
<1>8. Holds(g, o)
  <2> SUFFICES ASSUME NEW p \in DOMAIN o
               PROVE  /\ p - HEADER \in DOMAIN g
                      /\ ~g[p - HEADER].free
                      /\ o[p] + ALIGN <= WORD => o[p] <= g[p - HEADER].size
    BY Zenon DEF Holds
  <2>1. CASE p = q
    BY <1>2, <1>4, <1>6, <2>1, Zenon
  <2>2. CASE p # q
    <3>1. p \in DOMAIN owned /\ o[p] = owned[p]
      BY <1>6, <2>2, Zenon
    <3>2. p - HEADER \in DOMAIN block /\ g[p - HEADER] = block[p - HEADER]
      BY <1>3, <3>1, Zenon
    <3> QED BY <1>1, <3>1, <3>2, Zenon DEF Holds
  <2> QED BY <2>1, <2>2, Zenon
<1>9. DOMAIN o \subseteq Nat /\ DOMAIN owned \subseteq DOMAIN o
  BY <1>1, <1>2, <1>6, Zenon
<1> QED BY <1>5, <1>7, <1>8, <1>9, Zenon DEF o, q

\* The first-fit search of kmalloc keeps the invariant, split or not.
LEMMA SearchPreserves ==
    ASSUME IInv, NEW asked \in Nat, NEW old \in DOMAIN owned \cup {Null},
           Search(asked, old)
    PROVE  IInv'
<1>1. /\ Linked(block) /\ Apart(block) /\ OnePredecessor(block, heap_head)
      /\ heap_head \in DOMAIN block \cup {Null} /\ at \in DOMAIN block \cup {Null}
      /\ Holds(block, owned) /\ DOMAIN owned \subseteq Nat
      /\ owned \in [DOMAIN owned -> Nat]
      /\ NoCall \in Call /\ NoCall.old = Null
  BY Parts, Zenon
<1>2. UNCHANGED <<pmmVars, heap_head, heap_committed, regions, heap_pages>>
  BY Zenon DEF Search
<1>3. ASSUME NEW b \in DOMAIN block, FirstFit(b, MmAlignUp(asked)), call' = NoCall,
             IF old = Null THEN Hand(b, asked) ELSE HandInstead(b, asked, old)
      PROVE  IInv'
  <2> DEFINE g == SplitBlock(b, MmAlignUp(asked))
             o == Put(owned, b + HEADER, asked)
  <2>1. MmAlignUp(asked) \in Nat /\ Fits(b, MmAlignUp(asked))
    BY <1>3, AlignUpBounds, Zenon DEF FirstFit
  <2>2. /\ Linked(g) /\ Apart(g) /\ OnePredecessor(g, heap_head)
        /\ Bytes(g) = Bytes(block) /\ DOMAIN block \subseteq DOMAIN g
        /\ \A c \in DOMAIN block \ {b} : g[c] = block[c]
        /\ ~g[b].free /\ g[b].size >= MmAlignUp(asked)
    BY <1>1, <2>1, SplitKeeps
  <2> HIDE DEF g
  <2>3. block[b].free /\ g[b].size \in Nat
    BY <2>1, <2>2, LinkedFacts, Zenon DEF Fits
  <2>4. /\ Holds(g, o) /\ DOMAIN o \subseteq Nat /\ o \in [DOMAIN o -> Nat]
        /\ DOMAIN owned \subseteq DOMAIN o /\ \A p \in DOMAIN owned : p # b + HEADER
    BY <2>2, <2>3, SplitHolds, Zenon
  <2> HIDE DEF o
  <2>5. call' \in Call /\ call'.old = Null
    BY <1>1, <1>3, Zenon
  <2>6. CASE old = Null
    <3>1. block' = g /\ owned' = o /\ pc' = "idle" /\ at' = at
      BY <1>3, <2>6, Zenon DEF Hand, g, o
    <3>2. at' \in DOMAIN block' \cup {Null} /\ heap_head \in DOMAIN block' \cup {Null}
      BY <1>1, <2>2, <3>1, Zenon
    <3> QED BY <1>2, <1>3, <2>2, <2>4, <2>5, <3>1, <3>2, HeadersPreserve, Zenon
  <2>7. CASE old # Null
    <3> DEFINE r == Release(g, old)
    <3>1. block' = r /\ owned' = Drop(o, old) /\ pc' = "merge" /\ at' = heap_head
      BY <1>3, <2>7, Zenon DEF HandInstead, g, o
    <3>2. old \in DOMAIN o /\ old - HEADER \in DOMAIN g
      BY <2>4, <2>7, Zenon DEF Holds
    <3>3. /\ Linked(r) /\ Apart(r) /\ OnePredecessor(r, heap_head)
          /\ Bytes(r) = Bytes(g) /\ DOMAIN r = DOMAIN g
          /\ \A c \in DOMAIN g \ {old - HEADER} : r[c] = g[c]
      BY <2>2, <3>2, ReleaseKeeps, ZenonT(30)
    <3> HIDE DEF r
    <3>4. Holds(r, Drop(o, old))
      BY <2>2, <2>4, <3>2, <3>3, ReleaseHolds, Zenon
    <3>5. DOMAIN owned' \subseteq Nat /\ owned' \in [DOMAIN owned' -> Nat]
      BY <2>4, <3>1, DropFacts, DropIsFunction, Zenon
    <3>6. at' \in DOMAIN block' \cup {Null} /\ heap_head \in DOMAIN block' \cup {Null}
      BY <1>1, <2>2, <3>1, <3>3, Zenon
    <3> QED BY <1>2, <1>3, <2>2, <2>5, <3>1, <3>3, <3>4, <3>5, <3>6, HeadersPreserve
  <2> QED BY <2>6, <2>7, Zenon
<1>4. ASSUME pc' = "grow", call' = [asked |-> asked, old |-> old],
             UNCHANGED <<block, owned, at>>
      PROVE  IInv'
  <2>1. call' \in Call /\ call'.old = old
    BY <1>1, <1>4, Zenon DEF Call, Null
  <2> QED BY <1>1, <1>2, <1>4, <2>1, HeadersPreserve, Zenon
<1> QED BY <1>3, <1>4, Zenon DEF Search

\* MmGrowHeap keeps the invariant: the new region overlaps no block.
LEMMA GrowPreserves ==
    ASSUME IInv, MmGrowHeap
    PROVE  IInv'
<1> DEFINE G == GrowPages
           k == G * PAGE_SIZE
<1>1. PmmTypeOK /\ PagesAccounted /\ page_limit \in Nat /\ heap_pages \subseteq Pages
  BY Zenon DEF IInv, TypeOK, PmmTypeOK
<1>2. /\ Linked(block) /\ Apart(block) /\ OnePredecessor(block, heap_head)
      /\ heap_head \in DOMAIN block \cup {Null} /\ at \in DOMAIN block \cup {Null}
      /\ Holds(block, owned) /\ call \in Call
  BY Parts, Zenon
<1>3. G \in Nat /\ k \in Nat /\ HEADER < k
  BY <1>2, GrowPagesBounds, Zenon
<1>4. PICK start \in Pages :
        /\ PmmAllocatePages(G, start)
        /\ block' = Put(block, start * PAGE_SIZE,
             [size |-> k - HEADER, free |-> TRUE, next |-> heap_head])
        /\ heap_head' = start * PAGE_SIZE
        /\ heap_pages' = heap_pages \cup Run(start, G)
  BY Zenon DEF MmGrowHeap
<1> HIDE DEF G
<1> DEFINE a == start * PAGE_SIZE
           R == Run(start, G)
<1>5. /\ start \in Nat \ {0} /\ start + G <= page_limit /\ Cardinality(R) = G
      /\ R \subseteq Pages
  BY <1>1, <1>3, <1>4, RunFound, Zenon DEF PmmAllocatePages
<1>6. /\ PmmTypeOK' /\ PagesAccounted' /\ Pages' = Pages /\ page_limit' = page_limit
      /\ \A p \in R : lent[p] = 0 /\ lent'[p] = 1
      /\ \A p \in Pages \ R : lent'[p] = lent[p]
  BY <1>1, <1>3, <1>4, AllocateAccounts, Zenon
<1>7. PAGE_SIZE \in Nat \ {0}
  BY PagesAssumption, Zenon
<1>8. a \in Nat \ {Null}
  <2>1. 1 * PAGE_SIZE <= start * PAGE_SIZE /\ start * PAGE_SIZE \in Nat
    BY <1>5, <1>7, Monotone
  <2> QED BY <1>7, <2>1 DEF Null
<1>9. a + k <= page_limit * PAGE_SIZE
  <2>1. (start + G) * PAGE_SIZE <= page_limit * PAGE_SIZE
    BY <1>1, <1>3, <1>5, <1>7, Monotone
  <2>2. (start + G) * PAGE_SIZE = start * PAGE_SIZE + G * PAGE_SIZE
    BY <1>3, <1>5, <1>7
  <2> QED BY <2>1, <2>2, Zenon
<1>10. \A p \in heap_pages : lent[p] = 1 /\ p \notin R
  BY <1>6 DEF IInv, NoByteLost
<1>11. \A x \in Nat : x \div PAGE_SIZE \in R <=> x \in a .. a + k - 1
  BY <1>3, <1>5, <1>7, ByteInRun, Zenon
<1>12. page_limit * PAGE_SIZE \in Nat
  BY <1>1, <1>7, Monotone
<1> HIDE DEF a, k, R
<1>13. HeapBytes' = HeapBytes \cup (a .. a + k - 1)
  <2> SUFFICES ASSUME NEW x
               PROVE  x \in HeapBytes' <=> x \in HeapBytes \/ x \in a .. a + k - 1
    BY Zenon
  <2>1. x \in HeapBytes' <=> /\ x \in 0 .. page_limit * PAGE_SIZE - 1
                             /\ x \div PAGE_SIZE \in heap_pages \/ x \div PAGE_SIZE \in R
    BY <1>4, <1>6, Zenon DEF HeapBytes, R
  <2>2. x \in a .. a + k - 1 =>
          x \in 0 .. page_limit * PAGE_SIZE - 1 /\ x \div PAGE_SIZE \in R
    <3> SUFFICES ASSUME x \in a .. a + k - 1
                 PROVE  x \in 0 .. page_limit * PAGE_SIZE - 1 /\ x \div PAGE_SIZE \in R
      BY Zenon
    <3>1. x \in Nat
      BY <1>3, <1>8
    <3>2. x \div PAGE_SIZE \in R
      BY <1>11, <3>1, Zenon
    <3>3. x \in 0 .. page_limit * PAGE_SIZE - 1
      BY <1>3, <1>8, <1>9, <1>12, <3>1
    <3> QED BY <3>2, <3>3, Zenon
  <2>3. x \in 0 .. page_limit * PAGE_SIZE - 1 /\ x \div PAGE_SIZE \in R =>
          x \in a .. a + k - 1
    <3> SUFFICES ASSUME x \in 0 .. page_limit * PAGE_SIZE - 1, x \div PAGE_SIZE \in R
                 PROVE  x \in a .. a + k - 1
      BY Zenon
    <3>1. x \in Nat
      BY <1>12
    <3> QED BY <1>11, <3>1, Zenon
  <2>4. x \in HeapBytes <=> /\ x \in 0 .. page_limit * PAGE_SIZE - 1
                            /\ x \div PAGE_SIZE \in heap_pages
    BY Zenon DEF HeapBytes
  <2> QED BY <2>1, <2>2, <2>3, <2>4, Zenon
<1>14. (a .. a + k - 1) \cap Bytes(block) = {}
  <2> SUFFICES ASSUME NEW x \in a .. a + k - 1, x \in Bytes(block) PROVE FALSE
    BY Zenon
  <2>1. x \in Nat
    BY <1>3, <1>8
  <2>2. x \div PAGE_SIZE \in R
    BY <1>11, <2>1, Zenon
  <2>3. x \div PAGE_SIZE \in heap_pages
    BY Zenon DEF IInv, NoByteLost, HeapBytes
  <2> QED BY <1>10, <2>2, <2>3, Zenon
<1>15. block' = Put(block, a, [size |-> k - HEADER, free |-> TRUE, next |-> heap_head])
  BY <1>4, Zenon DEF a, k
<1>16. /\ Linked(block') /\ Apart(block') /\ OnePredecessor(block', a)
       /\ Bytes(block') = Bytes(block) \cup (a .. a + k - 1)
       /\ DOMAIN block' = DOMAIN block \cup {a}
       /\ \A c \in DOMAIN block : block'[c] = block[c]
  <2> DEFINE g == Put(block, a, [size |-> k - HEADER, free |-> TRUE, next |-> heap_head])
  <2>1. /\ Linked(g) /\ Apart(g) /\ OnePredecessor(g, a)
        /\ Bytes(g) = Bytes(block) \cup (a .. a + k - 1)
        /\ DOMAIN g = DOMAIN block \cup {a}
        /\ \A c \in DOMAIN block : g[c] = block[c]
    BY <1>2, <1>3, <1>8, <1>14, RegionKeeps, ZenonT(30)
  <2> HIDE DEF g
  <2>2. block' = g
    BY <1>15, Zenon DEF g
  <2> QED BY <2>1, <2>2, Zenon
<1>17. heap_head' = a /\ heap_pages' = heap_pages \cup R
  BY <1>4, Zenon DEF a, R
<1>18. /\ heap_committed' = heap_committed + k /\ regions' = regions + 1
       /\ pc' = "retry" /\ UNCHANGED <<owned, call, at>>
  BY Zenon DEF MmGrowHeap, k, G
<1>19. Cardinality(heap_pages') * PAGE_SIZE = Cardinality(heap_pages) * PAGE_SIZE + k
  <2>1. IsFiniteSet(heap_pages) /\ IsFiniteSet(R) /\ Cardinality(heap_pages) \in Nat
    BY <1>1, <1>5, PagesFinite, Zenon DEF R
  <2>2. heap_pages \cap R = {}
    BY <1>10, Zenon
  <2>3. Cardinality(heap_pages \cup R) = Cardinality(heap_pages) + G
    <3>1. Cardinality(heap_pages \cup R) =
            Cardinality(heap_pages) + Cardinality(R) - Cardinality(heap_pages \cap R)
      BY <2>1, FS_Union, Zenon
    <3>2. Cardinality(heap_pages \cap R) = 0
      BY <2>2, FS_EmptySet, Zenon
    <3> QED BY <1>3, <1>5, <2>1, <3>1, <3>2
  <2>4. \A n \in Nat : (n + G) * PAGE_SIZE = n * PAGE_SIZE + G * PAGE_SIZE
    BY <1>3, <1>7
  <2> QED BY <1>17, <2>1, <2>3, <2>4, Zenon DEF k
<1>20. TypeOK'
  <2>1. heap_committed' \in Nat /\ regions' \in Nat
    BY <1>3, <1>18 DEF IInv, TypeOK
  <2>2. heap_pages' \subseteq Pages'
    BY <1>1, <1>5, <1>6, <1>17, Zenon DEF R
  <2>3. heap_head' \in DOMAIN block' \cup {Null} /\ at' \in DOMAIN block' \cup {Null}
    BY <1>2, <1>16, <1>17, <1>18, Zenon
  <2>4. /\ DOMAIN owned' \subseteq Nat /\ owned' \in [DOMAIN owned' -> Nat]
        /\ call' \in Call /\ call'.old \in DOMAIN owned' \cup {Null}
    BY <1>18, Zenon DEF IInv, TypeOK
  <2> QED BY <1>6, <1>16, <1>18, <2>1, <2>2, <2>3, <2>4, Zenon DEF TypeOK
<1>21. OwnedApart'
  <2>1. Holds(block', owned')
    BY <1>2, <1>16, <1>18, Zenon DEF Holds
  <2> QED BY <1>16, <2>1, Zenon DEF OwnedApart, Holds
<1>22. NoByteLost'
  <2>1. Bytes(block') = HeapBytes'
    BY <1>13, <1>16, Zenon DEF IInv, NoByteLost
  <2>2. \A p \in heap_pages' : lent'[p] = 1
    BY <1>1, <1>6, <1>10, <1>17, Zenon DEF R
  <2>3. heap_committed' = Cardinality(heap_pages') * PAGE_SIZE
    BY <1>18, <1>19, Zenon DEF IInv, NoByteLost
  <2> QED BY <2>1, <2>2, <2>3, Zenon DEF NoByteLost
<1>23. Quiet'
  BY <1>18, Zenon DEF Quiet
<1> QED BY <1>6, <1>16, <1>17, <1>20, <1>21, <1>22, <1>23, Zenon DEF IInv

\* MmGrowHeap without pages keeps the invariant: kmalloc answers NULL.
LEMMA GrowFailPreserves ==
    ASSUME IInv, MmGrowHeapFails
    PROVE  IInv'
<1>1. UNCHANGED <<pmmVars, heap_head, heap_committed, regions, heap_pages>>
  BY Zenon DEF MmGrowHeapFails
<1>2. UNCHANGED <<block, owned, at>> /\ pc' = "idle" /\ call' = NoCall
  BY Zenon DEF MmGrowHeapFails
<1> QED BY <1>1, <1>2, Parts, HeadersPreserve, Zenon

\* kfree of an owned block keeps the invariant.
LEMMA KfreePreserves ==
    ASSUME IInv, NEW p \in DOMAIN owned, kfree(p)
    PROVE  IInv'
<1> DEFINE g == Release(block, p)
<1>1. /\ Linked(block) /\ Apart(block) /\ OnePredecessor(block, heap_head)
      /\ heap_head \in DOMAIN block \cup {Null}
      /\ Holds(block, owned) /\ DOMAIN owned \subseteq Nat
      /\ owned \in [DOMAIN owned -> Nat] /\ call \in Call
  BY Parts, Zenon
<1>2. /\ block' = g /\ owned' = Drop(owned, p) /\ pc' = "merge" /\ at' = heap_head
      /\ call' = call
      /\ UNCHANGED <<pmmVars, heap_head, heap_committed, regions, heap_pages>>
  BY Zenon DEF kfree
<1>3. p - HEADER \in DOMAIN block
  BY <1>1, Zenon DEF Holds
<1>4. /\ Linked(g) /\ Apart(g) /\ OnePredecessor(g, heap_head) /\ Bytes(g) = Bytes(block)
      /\ DOMAIN g = DOMAIN block
      /\ \A c \in DOMAIN block \ {p - HEADER} : g[c] = block[c]
  BY <1>1, <1>3, ReleaseKeeps, Zenon
<1> HIDE DEF g
<1>5. Holds(g, Drop(owned, p))
  BY <1>1, <1>4, ReleaseHolds, Zenon
<1>6. DOMAIN owned' \subseteq Nat /\ owned' \in [DOMAIN owned' -> Nat]
  BY <1>1, <1>2, DropFacts, DropIsFunction, Zenon
<1>7. call = NoCall /\ call.old = Null
  BY Parts, Zenon DEF kfree
<1> QED BY <1>1, <1>2, <1>4, <1>5, <1>6, <1>7, HeadersPreserve, Zenon

\* krealloc keeps the invariant: in place, or by a search that will copy.
LEMMA ReallocPreserves ==
    ASSUME IInv, NEW p \in DOMAIN owned, NEW asked \in Sizes, realloc(p, asked)
    PROVE  IInv'
<1>1. asked \in Nat
  BY HeapAssumption
<1>2. CASE Search(asked, p)
  BY <1>1, <1>2, SearchPreserves, Zenon
<1>3. CASE /\ block[p - HEADER].size >= asked
           /\ owned' = [owned EXCEPT ![p] = asked]
           /\ UNCHANGED <<pmmVars, heap_head, heap_committed, block, pc, call, at, regions,
                          heap_pages>>
  <2>1. DOMAIN owned' = DOMAIN owned /\ owned' \in [DOMAIN owned' -> Nat]
    BY <1>1, <1>3, Parts, Zenon
  <2>2. \A q \in DOMAIN owned : owned'[q] = IF q = p THEN asked ELSE owned[q]
    BY <1>3, Parts, Zenon
  <2>3. Linked(block) /\ Holds(block, owned) /\ block' = block
    BY <1>3, Parts, Zenon
  <2>4. block[p - HEADER].size \in Nat
    BY <2>3, LinkedFacts, Zenon DEF Holds
  <2>5. Holds(block', owned')
    <3> SUFFICES ASSUME NEW q \in DOMAIN owned
                 PROVE  /\ q - HEADER \in DOMAIN block
                        /\ ~block[q - HEADER].free
                        /\ owned'[q] + ALIGN <= WORD => owned'[q] <= block[q - HEADER].size
      BY <2>1, <2>3, Zenon DEF Holds
    <3>1. CASE q = p
      BY <1>1, <1>3, <2>2, <2>3, <2>4, <3>1, Zenon DEF Holds
    <3>2. CASE q # p
      BY <2>2, <2>3, <3>2, Zenon DEF Holds
    <3> QED BY <3>1, <3>2, Zenon
  <2> QED BY <1>3, <2>1, <2>5, Parts, HeadersPreserve, Zenon
<1> QED BY <1>2, <1>3, Zenon DEF realloc

\* MmCoalesce keeps the invariant, pair by pair.
LEMMA CoalescePreserves ==
    ASSUME IInv, MmCoalesce
    PROVE  IInv'
<1>1. /\ Linked(block) /\ Apart(block) /\ OnePredecessor(block, heap_head)
      /\ heap_head \in DOMAIN block \cup {Null} /\ at \in DOMAIN block \cup {Null}
      /\ Holds(block, owned) /\ DOMAIN owned \subseteq Nat
      /\ owned \in [DOMAIN owned -> Nat] /\ call \in Call
      /\ call.old \in DOMAIN owned \cup {Null}
      /\ pc = "merge" => call = NoCall
  BY Parts, Zenon
<1>2. UNCHANGED <<pmmVars, heap_head, heap_committed, regions, heap_pages>> /\
      UNCHANGED <<owned, call>> /\ pc = "merge"
  BY Zenon DEF MmCoalesce
<1> DEFINE n == block[at].next
           g == Drop(Put(block, at, [size |-> block[at].size + HEADER + block[n].size,
                                     free |-> TRUE, next |-> block[n].next]), n)
<1>3. CASE at # Null /\ Joins(at) /\ block' = g /\ UNCHANGED <<pc, at>>
  <2>1. at \in DOMAIN block
    BY <1>1, <1>3, Zenon
  <2>2. /\ Linked(g) /\ Apart(g) /\ OnePredecessor(g, heap_head) /\ Bytes(g) = Bytes(block)
        /\ heap_head \in DOMAIN g \cup {Null}
        /\ n # at /\ DOMAIN g = DOMAIN block \ {n}
        /\ \A c \in DOMAIN g \ {at} : g[c] = block[c]
    BY <1>1, <1>3, <2>1, MergeKeeps, Zenon
  <2>3. block[at].free /\ block[n].free
    BY <1>3, Zenon DEF Joins
  <2> HIDE DEF g, n
  <2>4. Holds(g, owned)
    <3> SUFFICES ASSUME NEW p \in DOMAIN owned
                 PROVE  /\ p - HEADER \in DOMAIN g
                        /\ ~g[p - HEADER].free
                        /\ owned[p] + ALIGN <= WORD => owned[p] <= g[p - HEADER].size
      BY Zenon DEF Holds
    <3>1. p - HEADER \in DOMAIN block /\ ~block[p - HEADER].free
      BY <1>1, Zenon DEF Holds
    <3>2. p - HEADER \in DOMAIN g /\ g[p - HEADER] = block[p - HEADER]
      BY <2>2, <2>3, <3>1, Zenon
    <3> QED BY <1>1, <3>1, <3>2, Zenon DEF Holds
  <2>5. at \in DOMAIN g
    BY <2>1, <2>2, Zenon
  <2> QED BY <1>1, <1>2, <1>3, <2>2, <2>4, <2>5, HeadersPreserve, Zenon
<1>4. CASE /\ at # Null /\ block[at].next # Null /\ at' = block[at].next
           /\ UNCHANGED <<block, pc>>
  <2>1. at' \in DOMAIN block \cup {Null}
    BY <1>1, <1>4, LinkedFacts, Zenon
  <2> QED BY <1>1, <1>2, <1>4, <2>1, HeadersPreserve, Zenon
<1>5. CASE pc' = "idle" /\ at' = Null /\ UNCHANGED block
  BY <1>1, <1>2, <1>5, HeadersPreserve, Zenon
<1> QED BY <1>3, <1>4, <1>5, Zenon DEF MmCoalesce

\* The heap does not see what drivers do with pages that are not its own.
LEMMA PagesPreserve ==
    ASSUME IInv, UNCHANGED heapVars, PmmTypeOK', PagesAccounted',
           Pages' = Pages, page_limit' = page_limit,
           \A p \in heap_pages : lent'[p] = lent[p]
    PROVE  IInv'
<1>1. TypeOK'
  BY Zenon DEF IInv, TypeOK, heapVars
<1>2. OwnedApart'
  BY Zenon DEF IInv, OwnedApart, heapVars
<1>3. NoByteLost'
  <2>1. HeapBytes' = HeapBytes
    BY Zenon DEF HeapBytes, heapVars
  <2> QED BY <2>1, Zenon DEF IInv, NoByteLost, heapVars
<1>4. OnePredecessor(block, heap_head)' /\ Quiet'
  BY Zenon DEF IInv, Quiet, heapVars
<1> QED BY <1>1, <1>2, <1>3, <1>4, Zenon DEF IInv

\* Drivers that take pages from the page allocator and give them back keep the invariant.
LEMMA DriversPreserve ==
    ASSUME IInv, NEW count \in Counts,
           TakePages(count) \/ \E start \in Pages : GivePages(start, count)
    PROVE  IInv'
<1>1. count \in Nat /\ PmmTypeOK /\ PagesAccounted
  BY HeapAssumption, Zenon DEF IInv, TypeOK
<1>2. heap_pages \subseteq Pages /\ \A p \in heap_pages : lent[p] = 1
  BY Zenon DEF IInv, TypeOK, NoByteLost
<1>3. CASE TakePages(count)
  <2>1. PICK start \in Pages : PmmAllocatePages(count, start)
    BY <1>3, Zenon DEF TakePages
  <2>2. /\ PmmTypeOK' /\ PagesAccounted' /\ Pages' = Pages /\ page_limit' = page_limit
        /\ \A p \in Run(start, count) : lent[p] = 0
        /\ \A p \in Pages \ Run(start, count) : lent'[p] = lent[p]
    BY <1>1, <2>1, AllocateAccounts, Zenon
  <2>3. \A p \in heap_pages : lent'[p] = lent[p]
    BY <1>2, <2>2
  <2> QED BY <1>3, <2>2, <2>3, PagesPreserve, Zenon DEF TakePages
<1>4. CASE \E start \in Pages : GivePages(start, count)
  <2>1. PICK start \in Pages : GivePages(start, count)
    BY <1>4, Zenon
  <2>2. /\ \A p \in Run(start, count) : p \in Pages \ heap_pages /\ lent[p] = 1
        /\ PmmFreePages(start, count) /\ UNCHANGED heapVars
    BY <2>1, Zenon DEF GivePages
  <2>3. /\ PmmTypeOK' /\ PagesAccounted' /\ Pages' = Pages /\ page_limit' = page_limit
        /\ \A p \in Pages \ Run(start, count) : lent'[p] = lent[p]
    BY <1>1, <2>2, FreeAccounts, Zenon
  <2>4. \A p \in heap_pages : lent'[p] = lent[p]
    BY <1>2, <2>2, <2>3, Zenon
  <2> QED BY <2>2, <2>3, <2>4, PagesPreserve, Zenon
<1> QED BY <1>3, <1>4, Zenon

\* MmInitialize establishes the invariant, whatever the boot record says.
LEMMA InitEstablishes ==
    ASSUME MmInitialize
    PROVE  IInv
<1>1. PmmTypeOK /\ PagesAccounted
  BY PmmInitializeAccounts, Zenon DEF MmInitialize
<1>2. /\ heap_head = Null /\ heap_committed = 0 /\ pc = "idle" /\ call = NoCall
      /\ at = Null /\ regions = 0 /\ heap_pages = {}
  BY Zenon DEF MmInitialize
<1>3. DOMAIN block = {} /\ block \in [{} -> Block]
  BY Zenon DEF MmInitialize
<1>4. DOMAIN owned = {} /\ owned \in [{} -> Nat]
  BY Zenon DEF MmInitialize
<1>5. NoCall \in Call /\ NoCall.old = Null
  BY Zenon DEF NoCall, Call, Null
<1>6. TypeOK
  BY <1>1, <1>2, <1>3, <1>4, <1>5, Zenon DEF TypeOK, Linked
<1>7. OnePredecessor(block, heap_head) /\ Quiet /\ OwnedApart
  BY <1>2, <1>3, <1>4, Zenon DEF OnePredecessor, Quiet, OwnedApart, Apart
<1>8. NoByteLost
  <2>1. Bytes(block) = {}
    BY <1>3, InBytes, Zenon
  <2>2. HeapBytes = {}
    BY <1>2, Zenon DEF HeapBytes
  <2>3. Cardinality(heap_pages) * PAGE_SIZE = 0
    BY <1>2, FS_EmptySet, PagesAssumption
  <2> QED BY <1>2, <2>1, <2>2, <2>3, Zenon DEF NoByteLost
<1> QED BY <1>1, <1>6, <1>7, <1>8, Zenon DEF IInv

\* So does a step that changes nothing.
LEMMA StutterPreserves ==
    ASSUME IInv, UNCHANGED vars
    PROVE  IInv'
<1>1. UNCHANGED <<pmmVars, heap_head, heap_committed, regions, heap_pages>>
  BY Zenon DEF vars, heapVars
<1>2. UNCHANGED <<block, owned, at, pc, call>>
  BY Zenon DEF vars, heapVars
<1> QED BY <1>1, <1>2, Parts, HeadersPreserve, Zenon

\* Every step keeps the invariant.
LEMMA StepPreserves ==
    ASSUME IInv, [Next]_vars
    PROVE  IInv'
<1>1. ASSUME NEW asked \in Sizes, kmalloc(asked)
      PROVE  IInv'
  <2>1. asked \in Nat
    BY HeapAssumption
  <2> QED BY <1>1, <2>1, SearchPreserves, Zenon DEF kmalloc
<1>2. ASSUME NEW asked \in Sizes, NEW p \in DOMAIN owned, realloc(p, asked)
      PROVE  IInv'
  BY <1>2, ReallocPreserves, Zenon
<1>3. ASSUME NEW p \in DOMAIN owned, kfree(p)
      PROVE  IInv'
  BY <1>3, KfreePreserves, Zenon
<1>4. CASE Retry
  <2>1. call.asked \in Nat /\ call.old \in DOMAIN owned \cup {Null}
    BY Parts, Zenon DEF Call
  <2> QED BY <1>4, <2>1, SearchPreserves, Zenon DEF Retry
<1>5. CASE MmGrowHeap
  BY <1>5, GrowPreserves, Zenon
<1>6. CASE MmGrowHeapFails
  BY <1>6, GrowFailPreserves, Zenon
<1>7. CASE MmCoalesce
  BY <1>7, CoalescePreserves, Zenon
<1>8. ASSUME NEW count \in Counts,
             TakePages(count) \/ \E start \in Pages : GivePages(start, count)
      PROVE  IInv'
  BY <1>8, DriversPreserve, Zenon
<1>9. CASE UNCHANGED vars
  BY <1>9, StutterPreserves, Zenon
<1> QED BY <1>1, <1>2, <1>3, <1>4, <1>5, <1>6, <1>7, <1>8, <1>9, Zenon DEF Next, Steps
-----------------------------------------------------------------------------
\* Every state that kmalloc, kfree, realloc and drivers' loans of pages can lead to
\* satisfies the inductive invariant.
THEOREM Invariance == Spec => []IInv
<1>1. MmInitialize => IInv
  BY InitEstablishes, Zenon
<1>2. IInv /\ [Next]_vars => IInv'
  BY StepPreserves, Zenon
<1> QED BY <1>1, <1>2, PTL DEF Spec

\* No pointer of the heap's list is ever left to a header MmCoalesce has merged away.
THEOREM TypeCorrect == Spec => []TypeOK
<1>1. IInv => TypeOK
  BY Zenon DEF IInv
<1> QED BY <1>1, Invariance, PTL

\* kmalloc and realloc hand out memory that overlaps no other block, header or memory, and
\* is as large as was asked unless the alignment takes the size past the word.
THEOREM OwnedMemoryApart == Spec => []OwnedApart
<1>1. IInv => OwnedApart
  BY Zenon DEF IInv
<1> QED BY <1>1, Invariance, PTL

\* The blocks cover exactly the pages that MmGrowHeap took, whatever MmSplitBlock and
\* MmCoalesce do, and these pages are lent to the heap alone.
THEOREM HeapCoversItsPages == Spec => []NoByteLost
<1>1. IInv => NoByteLost
  BY Zenon DEF IInv
<1> QED BY <1>1, Invariance, PTL

\* PmmAllocatePages lends no page twice and none the boot data occupies, and free_pages
\* counts the free bits.
THEOREM PagesLentOnce == Spec => []PagesAccounted
<1>1. IInv => PagesAccounted
  BY Zenon DEF IInv
<1> QED BY <1>1, Invariance, PTL

\* As long as a page is free PmmAllocatePage finds one.
THEOREM FreePageIsFound == Spec => []SinglePageFound
<1>1. IInv => SinglePageFound
  BY OnePageFound, Zenon DEF IInv, TypeOK
<1> QED BY <1>1, Invariance, PTL

-----------------------------------------------------------------------------
\* One element more counts for at most one.
LEMMA AddCount ==
    ASSUME NEW S, IsFiniteSet(S), NEW x
    PROVE  /\ IsFiniteSet(S \cup {x})
           /\ Cardinality(S) \in Nat /\ Cardinality(S \cup {x}) \in Nat
           /\ Cardinality(S \cup {x}) <= Cardinality(S) + 1
<1> DEFINE c == Cardinality(S)
           d == Cardinality(S \cup {x})
<1>1. IsFiniteSet(S \cup {x}) /\ d = IF x \in S THEN c ELSE c + 1
  BY FS_AddElement, Zenon
<1>2. c \in Nat /\ d \in Nat
  BY <1>1, FS_CardinalityType, Zenon
<1> HIDE DEF c, d
<1>3. d <= c + 1
  BY <1>1, <1>2
<1> QED BY <1>1, <1>2, <1>3, Zenon DEF c, d

\* One element of a set takes the place of another.
LEMMA SwapCount ==
    ASSUME NEW S, IsFiniteSet(S), NEW x \in S, NEW y, NEW T, T \subseteq (S \ {x}) \cup {y}
    PROVE  Cardinality(T) <= Cardinality(S)
<1>1. IsFiniteSet(S \ {x}) /\ Cardinality(S \ {x}) = Cardinality(S) - 1
  BY FS_RemoveElement, Zenon
<1>2. Cardinality(S) \in Nat /\ Cardinality(S \ {x}) \in Nat
  BY <1>1, FS_CardinalityType, Zenon
<1> DEFINE U == S \ {x}
<1>3. IsFiniteSet(U \cup {y}) /\ Cardinality(U \cup {y}) <= Cardinality(U) + 1
  BY <1>1, AddCount, Zenon
<1>4. T \in SUBSET (U \cup {y})
  BY Zenon
<1>5. IsFiniteSet(T) /\ Cardinality(T) <= Cardinality(U \cup {y})
  BY <1>3, <1>4, FS_Subset, Zenon
<1>6. Cardinality(T) \in Nat /\ Cardinality(U \cup {y}) \in Nat
  BY <1>3, <1>5, FS_CardinalityType, Zenon
<1> HIDE DEF U
<1>7. Cardinality(U) = Cardinality(S) - 1
  BY <1>1, Zenon DEF U
<1> QED BY <1>2, <1>3, <1>5, <1>6, <1>7

\* A part of a set counts for no more than the set.
LEMMA FewerCount ==
    ASSUME NEW S, IsFiniteSet(S), NEW T, T \subseteq S
    PROVE  IsFiniteSet(T) /\ Cardinality(T) <= Cardinality(S)
  BY FS_Subset, Zenon

\* A break is loose too.
LEMMA BreaksLoose == \A f : Breaks(f) \subseteq Loose(f)
  BY Zenon DEF Breaks, Loose

\* Only whether blocks are free has changed: the list and its breaks are the same.
LEMMA SamePieces ==
    ASSUME NEW f, NEW g, NEW head, DOMAIN g = DOMAIN f, AllLinked(f, head),
           \A c \in DOMAIN f : g[c].size = f[c].size /\ g[c].next = f[c].next
    PROVE  Breaks(g) = Breaks(f) /\ AllLinked(g, head)
<1>1. Breaks(g) = Breaks(f)
  BY Zenon DEF Breaks
<1>2. AllLinked(g, head)
  BY DEF AllLinked
<1> QED BY <1>1, <1>2, Zenon

\* Cutting b in two moves what is behind b to the remainder.
LEMMA SplitPieces ==
    ASSUME NEW head, Linked(block), Apart(block), AllLinked(block, head),
           head \in DOMAIN block \cup {Null},
           IsFiniteSet(DOMAIN block), NEW b \in DOMAIN block, NEW size \in Nat,
           Fits(b, size), NEW g, g = SplitBlock(b, size)
    PROVE  /\ IsFiniteSet(DOMAIN g)
           /\ AllLinked(g, head)
           /\ Cardinality(Breaks(g)) <= Cardinality(Breaks(block))
           /\ Cardinality(Loose(g)) <= Cardinality(Loose(block))
           /\ \A c \in DOMAIN g : g[c].free \/ c = b \/ (c \in DOMAIN block /\ ~block[c].free)
<1>1. /\ block[b] \in Block /\ b \in Nat \ {Null} /\ block[b].size \in Nat
      /\ block[b].next \in Nat /\ block[b].next \in DOMAIN block \cup {Null}
      /\ block[b].free
  BY LinkedFacts, Zenon DEF Linked, Fits
<1>2. HEADER \in Nat \ {0} /\ SPLIT_MIN \in Nat /\ Null = 0
  BY HeapAssumption, Zenon DEF Null
<1>3. IsFiniteSet(Breaks(block)) /\ IsFiniteSet(Loose(block))
  BY FewerCount, Zenon DEF Breaks, Loose
<1>4. Cardinality(Breaks(block)) \in Nat /\ Cardinality(Loose(block)) \in Nat
  BY <1>3, FS_CardinalityType, Zenon
<1>5. CASE block[b].size <= size + HEADER + SPLIT_MIN
  <2> DEFINE v == [block[b] EXCEPT !.free = FALSE]
  <2>1. g = Put(block, b, v)
    BY <1>5, Zenon DEF SplitBlock
  <2>2. v.size = block[b].size /\ v.next = block[b].next /\ v.free = FALSE
    BY <1>1, Zenon DEF Block
  <2> HIDE DEF v
  <2>3. DOMAIN g = DOMAIN block /\ g[b] = v /\ \A c \in DOMAIN block \ {b} : g[c] = block[c]
    BY <2>1, Zenon DEF Put
  <2>4. Breaks(g) = Breaks(block) /\ AllLinked(g, head)
    BY <2>2, <2>3, SamePieces, Zenon
  <2>5. Loose(g) \subseteq Loose(block)
    <3> SUFFICES ASSUME NEW c \in Loose(g), c \notin Breaks(block) PROVE c \in Loose(block)
      BY BreaksLoose, Zenon
    <3>1. c \in DOMAIN block /\ g[c].free /\ g[g[c].next].free /\ c # b
      BY <2>2, <2>3, <2>4, Zenon DEF Loose
    <3>2. g[c] = block[c] /\ block[c].next # Null
      BY <2>3, <3>1, Zenon DEF Breaks
    <3>3. block[c].next \in DOMAIN block \ {b}
      BY <2>2, <2>3, <3>1, <3>2, LinkedFacts
    <3> QED BY <2>3, <3>1, <3>2, <3>3, Zenon DEF Loose
  <2>6. \A c \in DOMAIN g : g[c].free \/ c = b \/ (c \in DOMAIN block /\ ~block[c].free)
    BY <2>3, Zenon
  <2> QED BY <1>3, <1>4, <2>3, <2>4, <2>5, <2>6, FewerCount, Zenon
<1>6. CASE ~(block[b].size <= size + HEADER + SPLIT_MIN)
  <2> DEFINE rest == b + HEADER + size
             left == block[b].size - size - HEADER
             v == [size |-> left, free |-> TRUE, next |-> block[b].next]
             w == [size |-> size, free |-> FALSE, next |-> rest]
  <2>1. g = Put(Put(block, rest, v), b, w)
    BY <1>6, Zenon DEF SplitBlock
  <2>2. /\ rest \in Nat \ {Null} /\ rest # b /\ left \in Nat
        /\ rest + HEADER + left = b + HEADER + block[b].size
        /\ rest \in Extent(block, b)
    BY <1>1, <1>2, <1>6 DEF Extent
  <2>3. rest \notin DOMAIN block
    BY <2>2, LinkedFacts, Zenon DEF Apart
  <2>4. /\ v.size = left /\ v.free = TRUE /\ v.next = block[b].next
        /\ w.size = size /\ w.free = FALSE /\ w.next = rest /\ rest = b + HEADER + size
    BY Zenon
  <2> HIDE DEF v, w, left, rest
  <2>5. /\ DOMAIN g = DOMAIN block \cup {rest} /\ g[b] = w /\ g[rest] = v
        /\ \A c \in DOMAIN block \ {b} : g[c] = block[c]
    BY <2>1, <2>2, <2>3, Zenon DEF Put
  <2>6. IsFiniteSet(DOMAIN g)
    BY <2>5, FS_AddElement
  <2>7. AllLinked(g, head)
    <3> SUFFICES ASSUME NEW T \in SUBSET DOMAIN g, head \in T \cup {Null},
                        \A c \in T : g[c].next \in T \cup {Null}
                 PROVE  T = DOMAIN g
      BY Zenon DEF AllLinked
    <3> DEFINE S == T \ {rest}
    <3>1. S \in SUBSET DOMAIN block /\ head \in S \cup {Null}
      BY <2>2, <2>3, <2>5, Zenon
    <3>2. \A c \in S : block[c].next \in S \cup {Null}
      <4> SUFFICES ASSUME NEW c \in S PROVE block[c].next \in S \cup {Null}
        BY Zenon
      <4>1. block[c].next \in DOMAIN block \cup {Null}
        BY <3>1, LinkedFacts, Zenon
      <4>2. CASE c = b
        <5>1. rest \in T
          <6>1. b \in T /\ g[b].next = rest
            BY <4>2, <2>4, <2>5, Zenon
          <6> QED BY <6>1, <2>2, Zenon
        <5> QED BY <4>1, <4>2, <5>1, <2>3, <2>4, <2>5, Zenon
      <4>3. CASE c # b
        BY <4>1, <4>3, <3>1, <2>2, <2>3, <2>5, Zenon
      <4> QED BY <4>2, <4>3, Zenon
    <3>3. S = DOMAIN block
      BY <3>1, <3>2, Zenon DEF AllLinked
    <3>4. rest \in T
      <4>1. b \in T /\ g[b].next = rest
        BY <3>3, <2>4, <2>5, Zenon
      <4> QED BY <4>1, <2>2, Zenon
    <3> QED BY <3>3, <3>4, <2>5, Zenon
  <2>8. b \notin Breaks(g) /\ b \notin Loose(g)
    <3>1. b \notin Breaks(g)
      BY <2>2, <2>4, <2>5, Zenon DEF Breaks
    <3> QED BY <3>1, <2>4, <2>5, Zenon DEF Loose
  <2>9. \A c \in DOMAIN block \ {b} : c \in Breaks(g) <=> c \in Breaks(block)
    BY <2>5, Zenon DEF Breaks
  <2>10. rest \in Breaks(g) <=> b \in Breaks(block)
    BY <2>2, <2>4, <2>5, Zenon DEF Breaks
  <2>11. \A c \in DOMAIN block \ {b} : c \in Loose(g) => c \in Loose(block)
    <3> SUFFICES ASSUME NEW c \in DOMAIN block \ {b}, c \in Loose(g), c \notin Breaks(block)
                 PROVE  c \in Loose(block)
      BY Zenon DEF Loose
    <3>1. g[c] = block[c] /\ block[c].free /\ block[c].next # Null /\ g[block[c].next].free
      BY <2>5, <2>9, Zenon DEF Loose, Breaks
    <3>2. block[c].next \in DOMAIN block \ {b}
      <4>1. block[c].next \in DOMAIN block \cup {Null}
        BY LinkedFacts, Zenon
      <4> QED BY <3>1, <4>1, <2>4, <2>5, Zenon
    <3> QED BY <2>5, <3>1, <3>2, Zenon DEF Loose
  <2>12. rest \in Loose(g) => b \in Loose(block)
    <3> SUFFICES ASSUME rest \in Loose(g), b \notin Breaks(block)
                 PROVE  b \in Loose(block)
      BY Zenon DEF Loose
    <3>1. block[b].next # Null /\ g[block[b].next].free
      BY <2>4, <2>5, <2>10, Zenon DEF Loose, Breaks
    <3>2. block[b].next \in DOMAIN block \ {b}
      BY <1>1, <3>1, <2>4, <2>5, Zenon
    <3> QED BY <1>1, <2>5, <3>1, <3>2, Zenon DEF Loose
  <2>13. Breaks(g) \subseteq DOMAIN block \cup {rest} /\ Loose(g) \subseteq DOMAIN block \cup {rest}
    BY <2>5, Zenon DEF Breaks, Loose
  <2>14. Cardinality(Breaks(g)) <= Cardinality(Breaks(block))
    <3>1. CASE b \in Breaks(block)
      <4>1. Breaks(g) \subseteq (Breaks(block) \ {b}) \cup {rest}
        BY <2>8, <2>9, <2>13, Zenon
      <4> QED BY <3>1, <4>1, <1>3, SwapCount, Zenon
    <3>2. CASE b \notin Breaks(block)
      BY <3>2, <2>8, <2>9, <2>10, <2>13, <1>3, FewerCount
    <3> QED BY <3>1, <3>2, Zenon
  <2>15. Cardinality(Loose(g)) <= Cardinality(Loose(block))
    <3>1. CASE b \in Loose(block)
      <4>1. Loose(g) \subseteq (Loose(block) \ {b}) \cup {rest}
        BY <2>8, <2>11, <2>13, Zenon
      <4> QED BY <3>1, <4>1, <1>3, SwapCount, Zenon
    <3>2. CASE b \notin Loose(block)
      BY <3>2, <2>8, <2>11, <2>12, <2>13, <1>3, FewerCount, Zenon
    <3> QED BY <3>1, <3>2, Zenon
  <2>16. \A c \in DOMAIN g : g[c].free \/ c = b \/ (c \in DOMAIN block /\ ~block[c].free)
    BY <2>4, <2>5, Zenon
  <2> QED BY <2>6, <2>7, <2>14, <2>15, <2>16, Zenon
<1> QED BY <1>5, <1>6, Zenon

\* Freeing moves nothing.
LEMMA ReleasePieces ==
    ASSUME NEW head, NEW f, NEW p, f \in [DOMAIN f -> Block], AllLinked(f, head),
           p - HEADER \in DOMAIN f, NEW g, g = Release(f, p)
    PROVE  /\ DOMAIN g = DOMAIN f /\ AllLinked(g, head) /\ Breaks(g) = Breaks(f)
           /\ \A c \in DOMAIN f : g[c].free \/ (~f[c].free /\ c # p - HEADER)
<1> DEFINE b == p - HEADER
           v == [f[b] EXCEPT !.free = TRUE]
<1>1. g = Put(f, b, v) /\ b \in DOMAIN f
  BY Zenon DEF Release
<1>2. v.size = f[b].size /\ v.next = f[b].next /\ v.free = TRUE
  BY <1>1, Zenon DEF Block
<1> HIDE DEF v, b
<1>3. DOMAIN g = DOMAIN f /\ g[b] = v /\ \A c \in DOMAIN f \ {b} : g[c] = f[c]
  BY <1>1, Zenon DEF Put
<1>4. Breaks(g) = Breaks(f) /\ AllLinked(g, head)
  BY <1>2, <1>3, SamePieces, Zenon
<1>5. \A c \in DOMAIN f : g[c].free \/ (~f[c].free /\ c # b)
  BY <1>2, <1>3, Zenon
<1> QED BY <1>3, <1>4, <1>5, Zenon DEF b

\* Joining b with its next moves what is behind the next to b.
LEMMA MergePieces ==
    ASSUME NEW head, Linked(block), OnePredecessor(block, head), AllLinked(block, head),
           IsFiniteSet(DOMAIN block), NEW b \in DOMAIN block, Joins(b),
           NEW n, n = block[b].next, n # b,
           NEW g, DOMAIN g = DOMAIN block \ {n},
           g[b] = [size |-> block[b].size + HEADER + block[n].size,
                   free |-> TRUE, next |-> block[n].next],
           \A c \in DOMAIN g \ {b} : g[c] = block[c]
    PROVE  /\ IsFiniteSet(DOMAIN g)
           /\ AllLinked(g, head)
           /\ Cardinality(Breaks(g)) <= Cardinality(Breaks(block))
<1>1. /\ n \in DOMAIN block /\ n # Null /\ n # head
      /\ b + HEADER + block[b].size = n
      /\ b \in DOMAIN g
  BY LinkedFacts, Zenon DEF Joins, OnePredecessor
<1>2. /\ b \in Nat /\ n \in Nat /\ block[b].size \in Nat /\ block[n].size \in Nat
      /\ HEADER \in Nat
  BY <1>1, LinkedFacts, HeapAssumption, Zenon
<1>3. /\ g[b].next = block[n].next
      /\ b + HEADER + g[b].size = n + HEADER + block[n].size
  <2>1. g[b].next = block[n].next /\ g[b].size = block[b].size + HEADER + block[n].size
    OBVIOUS
  <2> QED BY <1>1, <1>2, <2>1
<1>4. IsFiniteSet(DOMAIN g) /\ IsFiniteSet(Breaks(block))
  BY FewerCount, Zenon DEF Breaks
<1>5. AllLinked(g, head)
  <2> SUFFICES ASSUME NEW T \in SUBSET DOMAIN g, head \in T \cup {Null},
                      \A c \in T : g[c].next \in T \cup {Null}
               PROVE  T = DOMAIN g
    BY Zenon DEF AllLinked
  <2> DEFINE S == T \cup {c \in {n} : b \in T}
  <2>1. S \in SUBSET DOMAIN block /\ head \in S \cup {Null}
    BY <1>1, Zenon
  <2>2. \A c \in S : block[c].next \in S \cup {Null}
    <3> SUFFICES ASSUME NEW c \in S PROVE block[c].next \in S \cup {Null}
      BY Zenon
    <3>1. CASE c = n
      BY <3>1, <1>3, Zenon
    <3>2. CASE c = b
      BY <3>2, <1>1, Zenon
    <3>3. CASE c # n /\ c # b
      BY <3>3, Zenon
    <3> QED BY <3>1, <3>2, <3>3, Zenon
  <2>3. S = DOMAIN block
    BY <2>1, <2>2, Zenon DEF AllLinked
  <2> QED BY <2>3, <1>1, Zenon
<1>6. \A c \in DOMAIN g \ {b} : c \in Breaks(g) <=> c \in Breaks(block)
  BY Zenon DEF Breaks
<1>7. b \in Breaks(g) <=> n \in Breaks(block)
  BY <1>1, <1>3, Zenon DEF Breaks
<1>8. Breaks(g) \subseteq DOMAIN block \ {n}
  BY Zenon DEF Breaks
<1>9. Cardinality(Breaks(g)) <= Cardinality(Breaks(block))
  <2>1. CASE n \in Breaks(block)
    <3>1. Breaks(g) \subseteq (Breaks(block) \ {n}) \cup {b}
      BY <1>6, <1>8, Zenon
    <3> QED BY <2>1, <3>1, <1>4, SwapCount, Zenon
  <2>2. CASE n \notin Breaks(block)
    BY <2>2, <1>4, <1>6, <1>7, <1>8, FewerCount, Zenon
  <2> QED BY <2>1, <2>2, Zenon
<1> QED BY <1>4, <1>5, <1>9, Zenon

\* A region adds one place.
LEMMA RegionPieces ==
    ASSUME NEW head, Linked(block), AllLinked(block, head),
           head \in DOMAIN block \cup {Null},
           IsFiniteSet(DOMAIN block), NEW a, a \notin DOMAIN block, a # Null,
           NEW g, DOMAIN g = DOMAIN block \cup {a}, g[a].next = head,
           \A c \in DOMAIN block : g[c] = block[c]
    PROVE  /\ IsFiniteSet(DOMAIN g)
           /\ AllLinked(g, a)
           /\ Cardinality(Breaks(g)) <= Cardinality(Breaks(block)) + 1
           /\ Cardinality(Loose(g)) <= Cardinality(Loose(block)) + 1
<1>1. IsFiniteSet(DOMAIN g)
  BY FS_AddElement
<1>2. AllLinked(g, a)
  <2> SUFFICES ASSUME NEW T \in SUBSET DOMAIN g, a \in T \cup {Null},
                      \A c \in T : g[c].next \in T \cup {Null}
               PROVE  T = DOMAIN g
    BY Zenon DEF AllLinked
  <2> DEFINE S == T \ {a}
  <2>1. a \in T /\ S \in SUBSET DOMAIN block
    BY Zenon
  <2>2. head \in S \cup {Null}
    BY <2>1, Zenon
  <2>3. \A c \in S : block[c].next \in S \cup {Null}
    BY <2>1, LinkedFacts
  <2>4. S = DOMAIN block
    BY <2>1, <2>2, <2>3, Zenon DEF AllLinked
  <2> QED BY <2>1, <2>4, Zenon
<1>3. Breaks(g) \subseteq Breaks(block) \cup {a}
  BY Zenon DEF Breaks
<1>4. Loose(g) \subseteq Loose(block) \cup {a}
  <2> SUFFICES ASSUME NEW c \in DOMAIN block, c \in Loose(g), c \notin Breaks(block)
               PROVE  c \in Loose(block)
    BY Zenon DEF Loose
  <2>1. block[c].next \in DOMAIN block
    BY LinkedFacts, Zenon DEF Breaks
  <2>2. c \notin Breaks(g)
    BY <1>3, Zenon
  <2> QED BY <2>1, <2>2, Zenon DEF Loose
<1>5. ASSUME NEW S, S \subseteq DOMAIN block, NEW T, T \subseteq S \cup {a}
      PROVE  Cardinality(T) <= Cardinality(S) + 1
  <2>1. IsFiniteSet(S)
    BY <1>5, FewerCount, Zenon
  <2>2. IsFiniteSet(S \cup {a}) /\ Cardinality(S \cup {a}) <= Cardinality(S) + 1
    BY <2>1, AddCount, Zenon
  <2>3. IsFiniteSet(T) /\ Cardinality(T) <= Cardinality(S \cup {a})
    BY <1>5, <2>2, FewerCount, Zenon
  <2>4. Cardinality(T) \in Nat /\ Cardinality(S) \in Nat /\ Cardinality(S \cup {a}) \in Nat
    BY <2>1, <2>2, <2>3, FS_CardinalityType, Zenon
  <2> QED BY <2>2, <2>3, <2>4
<1>6. Breaks(block) \subseteq DOMAIN block /\ Loose(block) \subseteq DOMAIN block
  BY Zenon DEF Breaks, Loose
<1>7. Cardinality(Breaks(g)) <= Cardinality(Breaks(block)) + 1
  BY <1>3, <1>5, <1>6, Zenon
<1>8. Cardinality(Loose(g)) <= Cardinality(Loose(block)) + 1
  BY <1>4, <1>5, <1>6, Zenon
<1> QED BY <1>1, <1>2, <1>7, <1>8, Zenon

\* The search of kmalloc, for a caller or for realloc.
LEMMA SearchPieces ==
    ASSUME IInv, WInv, pc # "merge", NEW asked \in Nat, NEW old \in DOMAIN owned \cup {Null},
           Search(asked, old)
    PROVE  WInv'
<1>1. /\ Linked(block) /\ Apart(block) /\ heap_head \in DOMAIN block \cup {Null}
      /\ Holds(block, owned) /\ DOMAIN owned \subseteq Nat /\ regions \in Nat
      /\ DOMAIN block \subseteq Nat
  BY Parts, Zenon DEF IInv, TypeOK, Linked
<1>2. UNCHANGED <<heap_head, regions>>
  BY Zenon DEF Search
<1>3. ASSUME NEW b \in DOMAIN block, FirstFit(b, MmAlignUp(asked)),
             IF old = Null THEN Hand(b, asked) ELSE HandInstead(b, asked, old)
      PROVE  WInv'
  <2> DEFINE size == MmAlignUp(asked)
             f == SplitBlock(b, size)
             q == b + HEADER
             o == Put(owned, q, asked)
  <2>1. size \in Nat /\ Fits(b, size)
    BY <1>3, AlignUpBounds, Zenon DEF FirstFit
  <2>2. /\ IsFiniteSet(DOMAIN f) /\ AllLinked(f, heap_head)
        /\ Cardinality(Breaks(f)) <= Cardinality(Breaks(block))
        /\ Cardinality(Loose(f)) <= Cardinality(Loose(block))
        /\ \A c \in DOMAIN f : f[c].free \/ c = b \/ (c \in DOMAIN block /\ ~block[c].free)
    BY <1>1, <2>1, SplitPieces, Zenon DEF WInv, FewPieces
  <2>3. /\ Cardinality(Breaks(block)) \in Nat /\ Cardinality(Breaks(f)) \in Nat
        /\ Cardinality(Loose(block)) \in Nat /\ Cardinality(Loose(f)) \in Nat
    <3>1. IsFiniteSet(DOMAIN block)
      BY Zenon DEF WInv, FewPieces
    <3>2. IsFiniteSet(Breaks(block)) /\ IsFiniteSet(Breaks(f))
      BY <3>1, <2>2, FewerCount, Zenon DEF Breaks
    <3>3. IsFiniteSet(Loose(block)) /\ IsFiniteSet(Loose(f))
      BY <3>1, <2>2, FewerCount, Zenon DEF Loose
    <3> QED BY <3>2, <3>3, FS_CardinalityType, Zenon
  <2>4. DOMAIN block \subseteq DOMAIN f /\ f \in [DOMAIN f -> Block]
    BY <1>1, <2>1, Parts, SplitKeeps, Zenon DEF Linked
  <2> HIDE DEF f, size
  <2>5. DOMAIN o = DOMAIN owned \cup {q}
    BY Zenon DEF Put
  <2> HIDE DEF o
  <2>6. \A c \in DOMAIN f : f[c].free \/ c + HEADER \in DOMAIN o
    BY <2>2, <2>5, Zenon DEF WInv, UsedIsOwned
  <2>7. Cardinality(Breaks(f)) <= regions /\ Cardinality(Loose(f)) <= regions
    BY <1>1, <2>2, <2>3 DEF WInv, FewPieces
  <2>8. CASE old = Null
    <3>1. block' = f /\ owned' = o /\ pc' = "idle"
      BY <1>3, <2>8, Zenon DEF Hand, f, o, size
    <3>2. FewPieces' /\ UsedIsOwned' /\ PassedIsDone'
      BY <1>2, <2>2, <2>6, <2>7, <3>1, Zenon DEF FewPieces, UsedIsOwned, PassedIsDone
    <3>3. AllLinked(block', heap_head')
      BY <1>2, <2>2, <3>1, Zenon
    <3> QED BY <3>2, <3>3, Zenon DEF WInv
  <2>9. CASE old # Null
    <3> DEFINE g == Release(f, old)
    <3>1. block' = g /\ owned' = Drop(o, old) /\ pc' = "merge" /\ at' = heap_head
      BY <1>3, <2>9, Zenon DEF HandInstead, f, o, size
    <3>2. old \in DOMAIN owned /\ old - HEADER \in DOMAIN f /\ old \in Nat
      BY <1>1, <2>4, <2>9, Zenon DEF Holds
    <3>3. /\ DOMAIN g = DOMAIN f /\ AllLinked(g, heap_head) /\ Breaks(g) = Breaks(f)
          /\ \A c \in DOMAIN f : g[c].free \/ (~f[c].free /\ c # old - HEADER)
      BY <2>2, <2>4, <3>2, ReleasePieces, Zenon
    <3> HIDE DEF g
    <3>4. DOMAIN owned' = DOMAIN o \ {old}
      BY <3>1, DropFacts, Zenon
    <3>5. DOMAIN f \subseteq Nat
      <4>1. Linked(f)
        BY <1>1, <2>1, Parts, SplitKeeps, Zenon DEF f
      <4> QED BY <4>1, Zenon DEF Linked
    <3>6. UsedIsOwned'
      <4> SUFFICES ASSUME NEW c \in DOMAIN g, ~g[c].free PROVE c + HEADER \in DOMAIN owned'
        BY <3>1, Zenon DEF UsedIsOwned
      <4>1. c \in DOMAIN f /\ ~f[c].free /\ c # old - HEADER /\ c \in Nat
        BY <3>3, <3>5, Zenon
      <4>2. c + HEADER # old
        BY <3>2, <4>1, HeapAssumption
      <4> QED BY <2>6, <3>4, <4>1, <4>2, Zenon
    <3>7. FewPieces'
      BY <1>2, <2>2, <2>7, <3>1, <3>3, Zenon DEF FewPieces
    <3>8. PassedIsDone'
      <4>1. {} \in SUBSET DOMAIN block' /\ heap_head' \in {} \cup {at'}
        BY <1>2, <3>1, Zenon
      <4> QED BY <4>1, Zenon DEF PassedIsDone
    <3>9. AllLinked(block', heap_head')
      BY <1>2, <3>1, <3>3, Zenon
    <3> QED BY <3>6, <3>7, <3>8, <3>9, Zenon DEF WInv
  <2> QED BY <2>8, <2>9, Zenon
<1>4. CASE pc' = "grow" /\ UNCHANGED <<block, owned, at>>
  BY <1>2, <1>4, Zenon DEF WInv, FewPieces, UsedIsOwned, PassedIsDone
<1> QED BY <1>3, <1>4, Zenon DEF Search

\* MmGrowHeap's block is a new one.
LEMMA GrowPieces ==
    ASSUME IInv, WInv, MmGrowHeap
    PROVE  WInv'
<1> DEFINE G == GrowPages
           k == G * PAGE_SIZE
<1>1. PmmTypeOK /\ PagesAccounted /\ page_limit \in Nat /\ regions \in Nat
  BY Zenon DEF IInv, TypeOK, PmmTypeOK
<1>2. Linked(block) /\ heap_head \in DOMAIN block \cup {Null} /\ call \in Call
  BY Parts, Zenon
<1>3. G \in Nat /\ k \in Nat /\ HEADER < k /\ HEADER \in Nat
  BY <1>2, GrowPagesBounds, HeapAssumption, Zenon
<1>4. PICK start \in Pages :
        /\ PmmAllocatePages(G, start)
        /\ block' = Put(block, start * PAGE_SIZE,
             [size |-> k - HEADER, free |-> TRUE, next |-> heap_head])
        /\ heap_head' = start * PAGE_SIZE
  BY Zenon DEF MmGrowHeap
<1>5. regions' = regions + 1 /\ pc' = "retry" /\ UNCHANGED owned /\ pc = "grow"
  BY Zenon DEF MmGrowHeap
<1> HIDE DEF G
<1> DEFINE a == start * PAGE_SIZE
           R == Run(start, G)
<1>6. start \in Nat \ {0} /\ \A p \in R : lent[p] = 0
  BY <1>1, <1>3, <1>4, RunFound, AllocateAccounts, Zenon DEF PmmAllocatePages
<1>7. PAGE_SIZE \in Nat \ {0}
  BY PagesAssumption, Zenon
<1>8. a \in Nat \ {Null}
  <2>1. 1 * PAGE_SIZE <= start * PAGE_SIZE /\ start * PAGE_SIZE \in Nat
    BY <1>6, <1>7, Monotone
  <2> QED BY <1>7, <2>1 DEF Null
<1>9. \A x \in Nat : x \div PAGE_SIZE \in R <=> x \in a .. a + k - 1
  BY <1>3, <1>6, <1>7, ByteInRun, Zenon
<1> HIDE DEF k, R
<1>10. a \notin DOMAIN block
  <2> SUFFICES ASSUME a \in DOMAIN block PROVE FALSE
    BY Zenon
  <2>1. a \in Bytes(block)
    BY <1>2, LinkedFacts, InBytes, Zenon
  <2>2. a \div PAGE_SIZE \in heap_pages
    BY <2>1, Zenon DEF IInv, NoByteLost, HeapBytes
  <2>3. a \in a .. a + k - 1
    BY <1>3, <1>8
  <2>4. a \div PAGE_SIZE \in R
    BY <1>8, <1>9, <2>3, Zenon
  <2> QED BY <1>6, <2>2, <2>4 DEF IInv, NoByteLost
<1> DEFINE v == [size |-> k - HEADER, free |-> TRUE, next |-> heap_head]
           g == Put(block, a, v)
<1>11. v.next = heap_head /\ v.free = TRUE /\ block' = g /\ heap_head' = a
  BY <1>4, Zenon
<1> HIDE DEF v, a
<1>12. /\ DOMAIN g = DOMAIN block \cup {a} /\ g[a] = v
       /\ \A c \in DOMAIN block : g[c] = block[c]
  BY <1>10, Zenon DEF Put
<1> HIDE DEF g
<1>13. IsFiniteSet(DOMAIN block) /\ AllLinked(block, heap_head)
  BY Zenon DEF WInv, FewPieces
<1>14. /\ IsFiniteSet(DOMAIN g) /\ AllLinked(g, a)
       /\ Cardinality(Breaks(g)) <= Cardinality(Breaks(block)) + 1
       /\ Cardinality(Loose(g)) <= Cardinality(Loose(block)) + 1
  BY <1>2, <1>8, <1>10, <1>11, <1>12, <1>13, RegionPieces, Zenon
<1>15. /\ Cardinality(Breaks(block)) \in Nat /\ Cardinality(Breaks(g)) \in Nat
       /\ Cardinality(Loose(block)) \in Nat /\ Cardinality(Loose(g)) \in Nat
  <2>1. IsFiniteSet(Breaks(block)) /\ IsFiniteSet(Breaks(g))
    BY <1>13, <1>14, FewerCount, Zenon DEF Breaks
  <2>2. IsFiniteSet(Loose(block)) /\ IsFiniteSet(Loose(g))
    BY <1>13, <1>14, FewerCount, Zenon DEF Loose
  <2> QED BY <2>1, <2>2, FS_CardinalityType, Zenon
<1>16. Cardinality(Breaks(g)) <= regions + 1 /\ Cardinality(Loose(g)) <= regions + 1
  BY <1>1, <1>5, <1>14, <1>15 DEF WInv, FewPieces
<1>17. FewPieces' /\ PassedIsDone'
  BY <1>5, <1>11, <1>14, <1>16, Zenon DEF FewPieces, PassedIsDone
<1>18. UsedIsOwned'
  BY <1>5, <1>11, <1>12, Zenon DEF WInv, UsedIsOwned
<1>19. AllLinked(block', heap_head')
  BY <1>11, <1>14, Zenon
<1> QED BY <1>17, <1>18, <1>19, Zenon DEF WInv

\* The pass starts at the head.
LEMMA KfreePieces ==
    ASSUME IInv, WInv, NEW p \in DOMAIN owned, kfree(p)
    PROVE  WInv'
<1> DEFINE g == Release(block, p)
<1>1. Linked(block) /\ Holds(block, owned) /\ DOMAIN owned \subseteq Nat
  BY Parts, Zenon
<1>2. /\ block' = g /\ owned' = Drop(owned, p) /\ pc' = "merge" /\ at' = heap_head
      /\ UNCHANGED <<heap_head, regions>>
  BY Zenon DEF kfree
<1>3. p - HEADER \in DOMAIN block /\ block \in [DOMAIN block -> Block] /\ DOMAIN block \subseteq Nat
  BY <1>1, Zenon DEF Holds, Linked
<1>4. /\ DOMAIN g = DOMAIN block /\ AllLinked(g, heap_head) /\ Breaks(g) = Breaks(block)
      /\ \A c \in DOMAIN block : g[c].free \/ (~block[c].free /\ c # p - HEADER)
  BY <1>3, ReleasePieces, Zenon DEF WInv
<1> HIDE DEF g
<1>5. DOMAIN owned' = DOMAIN owned \ {p}
  BY <1>2, DropFacts, Zenon
<1>6. UsedIsOwned'
  <2> SUFFICES ASSUME NEW c \in DOMAIN g, ~g[c].free PROVE c + HEADER \in DOMAIN owned'
    BY <1>2, Zenon DEF UsedIsOwned
  <2>1. c \in DOMAIN block /\ ~block[c].free /\ c # p - HEADER /\ c \in Nat /\ p \in Nat
    BY <1>1, <1>3, <1>4, Zenon
  <2>2. c + HEADER # p
    BY <2>1, HeapAssumption
  <2> QED BY <1>5, <2>1, <2>2, Zenon DEF WInv, UsedIsOwned
<1>7. FewPieces'
  BY <1>2, <1>4, Zenon DEF WInv, FewPieces
<1>8. PassedIsDone'
  <2>1. {} \in SUBSET DOMAIN block' /\ heap_head' \in {} \cup {at'}
    BY <1>2, Zenon
  <2> QED BY <2>1, Zenon DEF PassedIsDone
<1>9. AllLinked(block', heap_head')
  BY <1>2, <1>4, Zenon
<1> QED BY <1>6, <1>7, <1>8, <1>9, Zenon DEF WInv

\* One turn of the loop: two blocks become one, the cursor passes a block that cannot be
\* joined, or the pass ends with nothing left to join.
LEMMA CoalescePieces ==
    ASSUME IInv, WInv, MmCoalesce
    PROVE  WInv'
<1>1. /\ Linked(block) /\ Apart(block) /\ OnePredecessor(block, heap_head)
      /\ heap_head \in DOMAIN block \cup {Null} /\ at \in DOMAIN block \cup {Null}
  BY Parts, Zenon
<1>2. UNCHANGED <<heap_head, regions, owned>> /\ pc = "merge"
  BY Zenon DEF MmCoalesce
<1>3. PICK D \in SUBSET DOMAIN block :
        /\ heap_head \in D \cup {at}
        /\ \A b \in D : ~Joins(b) /\ block[b].next \in D \cup {at}
  BY <1>2, Zenon DEF WInv, PassedIsDone
<1>4. /\ IsFiniteSet(DOMAIN block) /\ AllLinked(block, heap_head)
      /\ Cardinality(Breaks(block)) <= regions /\ regions \in Nat
  BY Zenon DEF WInv, FewPieces, IInv, TypeOK
<1> DEFINE n == block[at].next
           v == [size |-> block[at].size + HEADER + block[n].size,
                 free |-> TRUE, next |-> block[n].next]
           g == Drop(Put(block, at, v), n)
<1>5. CASE at # Null /\ Joins(at) /\ block' = g /\ UNCHANGED <<pc, at>>
  <2>1. at \in DOMAIN block /\ at \notin D
    BY <1>1, <1>3, <1>5, Zenon
  <2>2. n # at /\ DOMAIN g = DOMAIN block \ {n} /\ \A c \in DOMAIN g \ {at} : g[c] = block[c]
    BY <1>1, <1>5, <2>1, MergeKeeps, Zenon
  <2>3. g[at] = v
    BY <2>1, <2>2, Zenon DEF Put, Drop
  <2>4. v.free = TRUE /\ block[at].free /\ block[n].free /\ n # heap_head /\ n # Null
    BY <1>1, <1>5, <2>1, Zenon DEF Joins, OnePredecessor
  <2>5. \A c \in DOMAIN block : block[c].next = n => c = at
    BY <1>1, <2>1, <2>4, ZenonT(30) DEF OnePredecessor
  <2>6. /\ IsFiniteSet(DOMAIN g) /\ AllLinked(g, heap_head)
        /\ Cardinality(Breaks(g)) <= Cardinality(Breaks(block))
    BY <1>1, <1>4, <1>5, <2>1, <2>2, <2>3, MergePieces, ZenonT(30)
  <2>7. Cardinality(Breaks(g)) <= regions
    <3>1. Cardinality(Breaks(block)) \in Nat /\ Cardinality(Breaks(g)) \in Nat
      BY <1>4, <2>6, FewerCount, FS_CardinalityType, Zenon DEF Breaks
    <3> HIDE DEF g
    <3> QED BY <1>4, <2>6, <3>1
  <2> HIDE DEF g, n, v
  <2>8. FewPieces'
    BY <1>2, <1>5, <2>6, <2>7, Zenon DEF FewPieces
  <2>9. UsedIsOwned'
    BY <1>2, <1>5, <2>2, <2>3, <2>4, Zenon DEF WInv, UsedIsOwned
  <2>10. PassedIsDone'
    <3> DEFINE E == D \ {n}
    <3>1. E \in SUBSET DOMAIN g /\ heap_head \in E \cup {at}
      BY <1>3, <2>2, <2>4, Zenon
    <3>2. ASSUME NEW b \in E
          PROVE  /\ g[b].next \in E \cup {at}
                 /\ ~(/\ g[b].next # Null /\ g[b].free /\ g[g[b].next].free
                      /\ b + HEADER + g[b].size = g[b].next)
      <4>1. b \in DOMAIN block /\ b # at /\ g[b] = block[b]
        BY <2>1, <2>2, <3>1, Zenon
      <4>2. block[b].next # n /\ block[b].next \in D \cup {at}
        BY <1>3, <2>5, <4>1, Zenon
      <4>3. g[block[b].next].free <=> block[block[b].next].free
        BY <2>1, <2>2, <2>3, <2>4, <4>2, Zenon
      <4> QED BY <1>3, <4>1, <4>2, <4>3, Zenon DEF Joins
    <3>3. heap_head' = heap_head /\ at' = at /\ block' = g
      BY <1>2, <1>5, Zenon
    <3> HIDE DEF E
    <3>4. \A b \in E : ~Joins(b)' /\ block'[b].next \in E \cup {at'}
      BY <3>2, <3>3, Zenon DEF Joins
    <3> QED BY <3>1, <3>3, <3>4, Zenon DEF PassedIsDone, Joins
  <2>11. AllLinked(block', heap_head')
    BY <1>2, <1>5, <2>6, Zenon
  <2> QED BY <2>8, <2>9, <2>10, <2>11, Zenon DEF WInv
<1>6. CASE /\ at # Null /\ block[at].next # Null /\ ~Joins(at)
           /\ at' = block[at].next
           /\ UNCHANGED <<block, pc>>
  <2> DEFINE E == D \cup {at}
  <2>1. /\ E \in SUBSET DOMAIN block /\ heap_head \in E \cup {at'}
        /\ \A b \in E : ~Joins(b) /\ block[b].next \in E \cup {at'}
    BY <1>1, <1>3, <1>6, Zenon
  <2> HIDE DEF E
  <2>2. PassedIsDone'
    BY <1>2, <1>6, <2>1, Zenon DEF PassedIsDone, Joins
  <2>3. FewPieces' /\ UsedIsOwned'
    BY <1>2, <1>6, Zenon DEF WInv, FewPieces, UsedIsOwned
  <2>4. AllLinked(block', heap_head')
    BY <1>2, <1>4, <1>6, Zenon
  <2> QED BY <2>2, <2>3, <2>4, Zenon DEF WInv
<1>7. CASE ~(at # Null /\ block[at].next # Null) /\ pc' = "idle" /\ UNCHANGED block
  <2>1. \A b \in DOMAIN block : ~Joins(b)
    <3>1. CASE at = Null
      <4>1. D = DOMAIN block
        BY <1>3, <1>4, <3>1, Zenon DEF AllLinked
      <4> QED BY <1>3, <4>1, Zenon
    <3>2. CASE at # Null /\ block[at].next = Null
      <4> DEFINE E == D \cup {at}
      <4>1. /\ E \in SUBSET DOMAIN block /\ heap_head \in E \cup {Null}
            /\ \A b \in E : block[b].next \in E \cup {Null}
        BY <1>1, <1>3, <3>2, Zenon
      <4> HIDE DEF E
      <4>2. E = DOMAIN block
        BY <1>4, <4>1, Zenon DEF AllLinked
      <4>3. ~Joins(at)
        BY <3>2, Zenon DEF Joins
      <4> QED BY <1>3, <4>2, <4>3, Zenon DEF E
    <3> QED BY <1>7, <3>1, <3>2, Zenon
  <2>2. Loose(block) \subseteq Breaks(block)
    BY <2>1, Zenon DEF Loose, Breaks, Joins
  <2>3. Loose(block) = Breaks(block)
    BY <2>2, Zenon DEF Loose, Breaks
  <2>4. FewPieces'
    BY <1>2, <1>4, <1>7, <2>3, Zenon DEF FewPieces
  <2>5. UsedIsOwned' /\ PassedIsDone'
    BY <1>2, <1>7, Zenon DEF WInv, UsedIsOwned, PassedIsDone
  <2>6. AllLinked(block', heap_head')
    BY <1>2, <1>4, <1>7, Zenon
  <2> QED BY <2>4, <2>5, <2>6, Zenon DEF WInv
<1> QED BY <1>5, <1>6, <1>7, Zenon DEF MmCoalesce

\* Steps that leave the headers and who owns them alone.
LEMMA StillPieces ==
    ASSUME WInv, UNCHANGED <<heap_head, block, regions, at>>, DOMAIN owned' = DOMAIN owned,
           pc' = pc \/ (pc # "merge" /\ pc' # "merge")
    PROVE  WInv'
<1>1. FewPieces' /\ UsedIsOwned'
  BY Zenon DEF WInv, FewPieces, UsedIsOwned
<1>2. PassedIsDone'
  BY Zenon DEF WInv, PassedIsDone, Joins
<1>3. AllLinked(block', heap_head')
  BY Zenon DEF WInv
<1> QED BY <1>1, <1>2, <1>3, Zenon DEF WInv

\* Every step keeps the account of the pieces.
LEMMA StepPieces == IInv /\ WInv /\ [Next]_vars => WInv'
<1> SUFFICES ASSUME IInv, WInv, [Next]_vars PROVE WInv'
  BY Zenon
<1>1. ASSUME NEW asked \in Sizes, kmalloc(asked) PROVE WInv'
  <2>1. asked \in Nat
    BY HeapAssumption
  <2> QED BY <1>1, <2>1, SearchPieces, Zenon DEF kmalloc
<1>2. ASSUME NEW asked \in Sizes, NEW p \in DOMAIN owned, realloc(p, asked) PROVE WInv'
  <2>1. asked \in Nat /\ pc # "merge"
    BY <1>2, HeapAssumption DEF realloc
  <2>2. CASE Search(asked, p)
    BY <2>1, <2>2, SearchPieces, Zenon
  <2>3. CASE /\ owned' = [owned EXCEPT ![p] = asked]
             /\ UNCHANGED <<pmmVars, heap_head, heap_committed, block, pc, call, at,
                            regions, heap_pages>>
    BY <2>3, StillPieces, Zenon
  <2> QED BY <1>2, <2>2, <2>3, Zenon DEF realloc
<1>3. ASSUME NEW p \in DOMAIN owned, kfree(p) PROVE WInv'
  BY <1>3, KfreePieces, Zenon
<1>4. CASE MmGrowHeap
  BY <1>4, GrowPieces, Zenon
<1>5. CASE MmGrowHeapFails
  BY <1>5, StillPieces, Zenon DEF MmGrowHeapFails
<1>6. CASE Retry
  <2>1. call.asked \in Nat /\ call.old \in DOMAIN owned \cup {Null} /\ pc # "merge"
    BY <1>6, Parts, Zenon DEF Retry, Call
  <2> QED BY <1>6, <2>1, SearchPieces, Zenon DEF Retry
<1>7. CASE MmCoalesce
  BY <1>7, CoalescePieces, Zenon
<1>8. CASE UNCHANGED heapVars
  BY <1>8, StillPieces, Zenon DEF heapVars
<1>9. CASE UNCHANGED vars
  BY <1>9, StillPieces, Zenon DEF vars, heapVars
<1> QED BY <1>1, <1>2, <1>3, <1>4, <1>5, <1>6, <1>7, <1>8, <1>9
        DEF Next, Steps, TakePages, GivePages

\* Once everything has been freed there are no more blocks than MmGrowHeap took regions,
\* whatever was allocated, resized and freed before, in whatever order.
THEOREM FreedIsWhole == Spec => []AllFreedIsWhole
<1>1. MmInitialize => WInv
  <2> SUFFICES ASSUME MmInitialize PROVE WInv
    BY Zenon
  <2>1. DOMAIN block = {} /\ regions = 0 /\ pc = "idle"
    BY Zenon DEF MmInitialize
  <2>2. Breaks(block) = {} /\ Loose(block) = {}
    BY <2>1, Zenon DEF Breaks, Loose
  <2>3. FewPieces
    BY <2>1, <2>2, FS_EmptySet DEF FewPieces
  <2> QED BY <2>1, <2>3, Zenon DEF WInv, UsedIsOwned, AllLinked, PassedIsDone
<1>2. IInv /\ WInv => AllFreedIsWhole
  <2> SUFFICES ASSUME IInv, WInv, pc = "idle", DOMAIN owned = {}
               PROVE  /\ Cardinality(DOMAIN block) <= regions
                      /\ \A b \in DOMAIN block : block[b].free
    BY Zenon DEF AllFreedIsWhole
  <2>1. \A b \in DOMAIN block : block[b].free
    BY Zenon DEF WInv, UsedIsOwned
  <2>2. Linked(block)
    BY Parts, Zenon
  <2>3. Loose(block) = DOMAIN block
    BY <2>1, <2>2, LinkedFacts, Zenon DEF Loose, Breaks
  <2> QED BY <2>1, <2>3, Zenon DEF WInv, FewPieces
<1> QED BY <1>1, <1>2, Invariance, StepPieces, PTL DEF Spec
=============================================================================
