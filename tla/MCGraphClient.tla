--------------------------- MODULE MCGraphClient ---------------------------
(* Two sources: one may change its runtime, the other keeps the first one. *)
EXTENDS GraphClient

MCRuntimesOf == [g \in Graphs |-> IF g = "g1" THEN Runtimes ELSE {"A"}]
=============================================================================
