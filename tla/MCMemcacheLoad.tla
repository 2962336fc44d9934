--------------------------- MODULE MCMemcacheLoad ---------------------------
(* Every small command line of the loader: a notify window that divides the  *)
(* keys and one that does not, one as large as the batch, and one larger.    *)
EXTENDS MemcacheLoad

CommandLines == [toload : 0 .. 9, batch : 1 .. 4, notify : 1 .. 5]
=============================================================================
