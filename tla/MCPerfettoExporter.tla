------------------------- MODULE MCPerfettoExporter -------------------------
(* PerfettoExporter on processes nothing tells apart. *)
EXTENDS PerfettoExporter, TLC

Symmetry == Permutations(Processes)
=============================================================================
