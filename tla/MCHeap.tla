------------------------------- MODULE MCHeap -------------------------------
(***************************************************************************)
(* Pages of 16 bytes, headers of 6 and words of 7 bits.  The memory map    *)
(* has a hole, and a page that the boot loader's data touches; where only  *)
(* the size of the memory is known a module lies between the free pages;   *)
(* where nothing is, they are one run.  Of the sizes 1 splits a block, 13  *)
(* needs more than the least growth, 126 wraps in MmGrowHeap and 127 in    *)
(* MmAlignUp.                                                              *)
(***************************************************************************)
EXTENDS Heap

R(b, l) == [base |-> b, length |-> l]

MCBoots == {
    [kind |-> "mmap", available |-> {R(3, 80), R(90, 22)}, upper |-> 0,
     kernel_end |-> 20, modules |-> {R(33, 2)}],
    [kind |-> "memory", available |-> {}, upper |-> 82,
     kernel_end |-> 20, modules |-> {R(50, 2)}],
    [kind |-> "none", available |-> {}, upper |-> 0, kernel_end |-> 33, modules |-> {}]}

MCSizes == {1, 13, 126, 127}
=============================================================================
