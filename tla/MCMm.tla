-------------------------------- MODULE MCMm --------------------------------
(* A segment of 64 bytes.  The pools are of even and odd size, one of them  *)
(* ending where the segment ends, as main.c:105-123 passes it; the requests *)
(* make blocks of 8, 10 and 16 bytes, so that blocks are split, used whole, *)
(* and used whole with bytes to spare.                                      *)
EXTENDS Mm

MCPools    == {[start |-> 2, size |-> 38], [start |-> 9, size |-> 27],
               [start |-> 30, size |-> 34], [start |-> 0, size |-> 20],
               [start |-> 4, size |-> 5]}
KernelPool == {[start |-> 30, size |-> 34]}
MCRequests == {1, 4, 9}
=============================================================================
