--------------------------------- MODULE Pmm ---------------------------------
(***************************************************************************)
(* The physical page allocator, kernel/mm/pmm.c: a bitmap of the pages     *)
(* below page_limit, a count of the free ones, and a hint where the next   *)
(* search starts.  VmmAllocatePages and VmmFreePages of kernel/mm/vmm.c    *)
(* forward to it: the kernel runs identity-mapped.                         *)
(*                                                                         *)
(* A boot record is what the boot loader passes: the memory map, or only   *)
(* the size of the upper memory, and the ranges of bytes that the kernel   *)
(* image, the loader's data and its modules occupy.                        *)
(***************************************************************************)
EXTENDS Integers, FiniteSets

CONSTANTS
    PAGE_SIZE,   \* PMM_PAGE_SIZE (4096)
    MAX_PAGES,   \* PMM_MAX_PAGES (2^20)
    LOW,         \* the first megabyte (0x100000), which is free in no boot record
    FLOOR,       \* what is assumed to be there without a larger map (16 MiB)
    Boots        \* the boot records the kernel may be started with

ByteRange == [base : Nat, length : Nat]
Boot == [kind : {"mmap", "memory", "none"},
         available : SUBSET ByteRange,    \* MULTIBOOT_MEMORY_AVAILABLE entries
         upper : Nat,                 \* mem_upper * 1024
         kernel_end : Nat \ {0},
         modules : SUBSET ByteRange]      \* boot_info itself, its map, its modules; {} if it is null

ASSUME PagesAssumption ==
    /\ PAGE_SIZE \in Nat \ {0}
    /\ MAX_PAGES \in Nat /\ LOW \in Nat /\ FLOOR \in Nat
ASSUME BootsAssumption == Boots \subseteq Boot

VARIABLES
    boot,           \* boot_info
    page_limit,
    bitmap,         \* the pages whose bit is set: used
    free_pages,
    search_hint,
    lent            \* how many holders each page has been handed to and not freed by

pmmVars == <<boot, page_limit, bitmap, free_pages, search_hint, lent>>
-----------------------------------------------------------------------------
\* The values highest takes while the boot record is read; the last is the greatest.
Highest ==
    CASE boot.kind = "mmap" ->
           {FLOOR} \cup {e \in {r.base + r.length : r \in boot.available} : e > FLOOR}
      [] boot.kind = "memory" -> {LOW + boot.upper}
      [] boot.kind = "none" -> {FLOOR}

Pages == 0 .. page_limit - 1

\* PmmMarkRange frees the pages that lie inside a range, and reserves those it touches.
Inside(r) ==
    {p \in Pages : r.base <= p * PAGE_SIZE /\ (p + 1) * PAGE_SIZE <= r.base + r.length}
Touched(r) ==
    {p \in Pages : p * PAGE_SIZE < r.base + r.length /\ r.base < (p + 1) * PAGE_SIZE}

Available ==
    IF boot.kind = "mmap"
      THEN UNION {Inside(r) : r \in boot.available}
      ELSE {p \in Pages : LOW <= p * PAGE_SIZE}

\* PmmReserveBootData
Reserved ==
    Touched([base |-> 0, length |-> boot.kernel_end])
      \cup UNION {Touched(r) : r \in boot.modules}

\* What there is to lend.
Managed == Available \ Reserved

PmmInitialize ==
    /\ boot \in Boots
    /\ \E h \in Highest :
         /\ \A e \in Highest : e <= h
         /\ page_limit = IF h \div PAGE_SIZE > MAX_PAGES THEN MAX_PAGES ELSE h \div PAGE_SIZE
    /\ bitmap = Pages \ Managed
    /\ free_pages = Cardinality(Available) - Cardinality(Available \cap Reserved)
    /\ search_hint = (boot.kernel_end + PAGE_SIZE - 1) \div PAGE_SIZE
    /\ lent = [p \in Pages |-> 0]
-----------------------------------------------------------------------------
Run(start, count) == start .. start + count - 1

\* Where a scan of the pages from begin up to end finds its first run.
FirstRun(begin, end, count, start) ==
    LET Fits(s) == begin <= s /\ s + count <= end /\ Run(s, count) \subseteq Pages \ bitmap
    IN  Fits(start) /\ \A s \in begin .. start - 1 : ~Fits(s)

\* Faulty variant: the search does not start again below the hint.
FindsAboveHint(count, start) ==
    /\ count # 0 /\ count <= free_pages
    /\ FirstRun(search_hint, page_limit, count, start)

\* The two passes: from the hint to the end, then from page 1 up to the hint.
Finds(count, start) ==
    /\ count # 0 /\ count <= free_pages
    /\ \/ FirstRun(search_hint, page_limit, count, start)
       \/ /\ \A s \in Pages : ~FirstRun(search_hint, page_limit, count, s)
          /\ FirstRun(1, search_hint, count, start)

\* PmmSetPage for each page of a set.
SetUsed(pages) ==
    /\ bitmap' = bitmap \cup pages
    /\ LET newly == Cardinality(pages \ bitmap)
       IN  free_pages' = IF newly > free_pages THEN 0 ELSE free_pages - newly
SetFree(pages) ==
    /\ bitmap' = bitmap \ pages
    /\ free_pages' = free_pages + Cardinality(pages \cap bitmap)

\* Faulty variant: the last page of the run keeps its free bit.
AllocateMarksOneLess(count, start) ==
    /\ Finds(count, start)
    /\ SetUsed(Run(start, count - 1))
    /\ search_hint' = start + count
    /\ lent' = [p \in Pages |-> IF p \in Run(start, count) THEN lent[p] + 1 ELSE lent[p]]
    /\ UNCHANGED <<boot, page_limit>>

PmmAllocatePages(count, start) ==
    /\ Finds(count, start)
    /\ SetUsed(Run(start, count))
    /\ search_hint' = start + count
    /\ lent' = [p \in Pages |-> IF p \in Run(start, count) THEN lent[p] + 1 ELSE lent[p]]
    /\ UNCHANGED <<boot, page_limit>>

\* PmmAllocatePages returns 0.
PmmAllocateFails(count) == \A start \in Pages : ~Finds(count, start)

\* A holder gives back pages it was lent, a part of a run or all of it.
PmmFreePages(start, count) ==
    /\ start # 0
    /\ SetFree(Run(start, count) \cap Pages)
    /\ search_hint' = IF start < search_hint THEN start ELSE search_hint
    /\ lent' = [p \in Pages |-> IF p \in Run(start, count) THEN lent[p] - 1 ELSE lent[p]]
    /\ UNCHANGED <<boot, page_limit>>
-----------------------------------------------------------------------------
PmmTypeOK ==
    /\ boot \in Boots
    /\ page_limit \in Nat
    /\ bitmap \subseteq Pages
    /\ free_pages \in Nat
    /\ search_hint \in Nat
    /\ lent \in [Pages -> Nat]

\* The free bits, the counter and the loans agree: PmmAllocatePages lends no page twice,
\* none that the boot data occupies and none the memory map does not have, and no page
\* is lost between a loan and PmmFreePages.
PagesAccounted ==
    /\ \A p \in Pages : lent[p] <= 1
    /\ Pages \ bitmap = {p \in Managed : lent[p] = 0}
    /\ \A p \in Pages : lent[p] = 1 => p \in Managed
    /\ free_pages = Cardinality(Pages \ bitmap)

\* Wherever the hint stands, PmmAllocatePage finds a page as long as one is free: the two
\* passes leave none out.
SinglePageFound == free_pages > 0 => \E start \in Pages : Finds(1, start)
=============================================================================
