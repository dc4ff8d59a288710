-------------------------- MODULE MCSidecarServices --------------------------
(***************************************************************************)
(* Small instances of SidecarServices: the executor threads are the same to *)
(* every action and property.                                              *)
(***************************************************************************)
EXTENDS SidecarServices, TLC

Symmetry == Permutations(Threads)
=============================================================================
