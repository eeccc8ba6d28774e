------------------------ MODULE MCTechnicalPortfolio ------------------------
(* Small instances of TechnicalPortfolio for TLC. *)
EXTENDS TechnicalPortfolio, TLC

MCIds == Days \X Instruments \X Kinds

\* A bar that is a candidate, one that closes an ATR above an entry, one that
\* falls through every stop, one whose trend turns on a high close, and one that
\* reaches a target and is too volatile for an entry.
MCBars == {[open |-> 10, low |-> 9, high |-> 11, close |-> 10, atr |-> 1, trend |-> "entry"],
           [open |-> 11, low |-> 11, high |-> 12, close |-> 12, atr |-> 1, trend |-> "up"],
           [open |-> 9, low |-> 4, high |-> 9, close |-> 5, atr |-> 1, trend |-> "entry"],
           [open |-> 10, low |-> 9, high |-> 12, close |-> 12, atr |-> 1, trend |-> "down"],
           [open |-> 12, low |-> 11, high |-> 15, close |-> 14, atr |-> 7, trend |-> "entry"]}

\* Instruments are interchangeable: any ranking of candidates is possible.
Symmetry == Permutations(Instruments)
=============================================================================
