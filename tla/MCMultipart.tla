---------------------------- MODULE MCMultipart ----------------------------
(***************************************************************************)
(* Instances of Multipart.                                                 *)
(***************************************************************************)
EXTENDS Multipart, TLC

Symmetry == Permutations(Contents) \cup Permutations(Objects) \cup Permutations(Multiparts)
=============================================================================
