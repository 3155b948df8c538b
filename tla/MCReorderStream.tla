--------------------------- MODULE MCReorderStream ---------------------------
(* Small instances of ReorderStream; the constants are given in the cfgs.  *)
EXTENDS ReorderStream

CONSTANT MaxPosition   \* bound on the stream positions

MCPositions == 0 .. MaxPosition
=============================================================================
