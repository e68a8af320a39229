-------------------------------- MODULE MCHeap --------------------------------
(* A pool of a few blocks.  With one bit for the second level, sizes of 12, *)
(* 16 and 20, 24 and 28, 32 to 44, 48 to 60 bytes are lists of their own.   *)
EXTENDS TLSF
===============================================================================
