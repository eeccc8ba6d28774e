---------------------------- MODULE MCKiteBroker ----------------------------
(* Small instances of KiteBroker for TLC. *)
EXTENDS KiteBroker, TLC

\* Ids are interchangeable: no action or property tells one from another.
Symmetry == Permutations(Ids)
=============================================================================
