--------------------------- MODULE MCRecvAssembly ---------------------------
(***************************************************************************)
(* RecvAssembly scaled down: a ring of 8 cells and chunks of 4 stand for   *)
(* 8192 and 4096, a header of 2 for 4.                                     *)
(***************************************************************************)
EXTENDS RecvAssembly

\* A header that announces less than itself, and the sizes up to a chunk.
SmallHeaders == {1, 2, 3, 4}

\* Every size the ring can hold.
RingHeaders == {1} \cup 2 .. BufSize - 1
=============================================================================
