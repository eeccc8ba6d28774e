----------------------------- MODULE MCOrderGate -----------------------------
(* Small instances of OrderGate for TLC. *)
EXTENDS OrderGate, TLC

\* Instruments and ids are interchangeable.
Symmetry == Permutations(Instruments) \cup Permutations(Ids)
=============================================================================
