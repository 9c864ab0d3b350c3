------------------------------ MODULE MCMemory ------------------------------
(* A memory map in the shape GRUB reports, in units of one struct: low     *)
(* memory, a hole that is reserved, and the memory the kernel is loaded    *)
(* in, which has room for the kernel, the boot caches and about twenty     *)
(* units more: enough to extend each of the boot caches and a cache of the *)
(* client, to run out of memory, and to run out of free structs before     *)
(* that.  LowMemory is the size of the first zone, as it is with GRUB:     *)
(* were it any other size, memory_init would not reserve low memory whole. *)
EXTENDS Memory

MCZones == << [base |-> 0, size |-> 2, type |-> 0],
              [base |-> 2, size |-> 2, type |-> 2],
              [base |-> 4, size |-> 34, type |-> 0] >>
=============================================================================
