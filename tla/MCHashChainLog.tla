--------------------------- MODULE MCHashChainLog ---------------------------
(***************************************************************************)
(* Instance of HashChainLog for TLC: two processes.                        *)
(***************************************************************************)
EXTENDS HashChainLog, TLC

CONSTANTS w1, w2

MCWriters == {w1, w2}
Symmetry == Permutations(MCWriters)
=============================================================================
