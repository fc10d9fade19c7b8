--------------------------- MODULE MCPersistence ---------------------------
(* Two (or three) processes and two updates for module Persistence.        *)
EXTENDS Persistence, TLC

ProcSymmetry == Permutations(Procs)
=============================================================================
