---------------------------- MODULE MCKernelHeap ----------------------------
(***************************************************************************)
(* The heap with 4-byte headers and 2-byte alignment, a swap file and      *)
(* other callers on it. A request for 63 bytes wraps around a size_t of 6  *)
(* bits when it is rounded up, and 9 * 8 wraps in calloc. A swap file      *)
(* starts with 2 bytes and doubles: 20 bytes need 32, which the heap does  *)
(* not have, and 33 bytes are never reached.                               *)
(***************************************************************************)
EXTENDS SwapFile

MCTexts == {<<"x", "y">>}
=============================================================================
