--------------------------- MODULE MCCmemBuffers ---------------------------
(***************************************************************************)
(* Instances of CmemBuffers for TLC: the files are interchangeable.        *)
(***************************************************************************)
EXTENDS CmemBuffers, TLC

Symmetry == Permutations(Files)

=============================================================================
