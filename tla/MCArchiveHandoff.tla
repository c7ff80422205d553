-------------------------- MODULE MCArchiveHandoff --------------------------
(* Small instances of ArchiveHandoff for TLC.                              *)
EXTENDS ArchiveHandoff, TLC

Symmetry == Permutations(Descriptors \ Corrupt)
=============================================================================
