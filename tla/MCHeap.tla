------------------------------- MODULE MCHeap -------------------------------
(* Instances of Heap for TLC. *)
EXTENDS HeapRefinement

(* The sizes the kernel asks for: of a char (1), a kapi object and a short *)
(* name (2), a pointer or a word (4), and a name of eleven characters with *)
(* its end (12: the first length that clears a header in any place).       *)
KernelSizes == {0, 1, 2, 4, 12}
=============================================================================
