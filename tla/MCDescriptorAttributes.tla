----------------------- MODULE MCDescriptorAttributes -----------------------
(* DescriptorAttributes with any two kinds and attributes exchanged. *)
EXTENDS DescriptorAttributes, TLC

Symmetry == Permutations(Attributes) \cup Permutations(Kinds)
=============================================================================
