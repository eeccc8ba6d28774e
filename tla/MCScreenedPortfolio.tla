------------------------- MODULE MCScreenedPortfolio -------------------------
(* Small instances of ScreenedPortfolio for TLC. *)
EXTENDS ScreenedPortfolio, TLC

MCIds == Days \X Instruments \X Kinds

\* A bar that passes, one that does not, one that falls through every stop and
\* one that reaches every target.
MCBars == {[open |-> 10, low |-> 9, high |-> 11, close |-> 10, atr |-> 1, passes |-> TRUE],
           [open |-> 10, low |-> 9, high |-> 11, close |-> 10, atr |-> 1, passes |-> FALSE],
           [open |-> 9, low |-> 6, high |-> 9, close |-> 7, atr |-> 2, passes |-> TRUE],
           [open |-> 12, low |-> 11, high |-> 14, close |-> 12, atr |-> 1, passes |-> FALSE]}

\* Instruments are interchangeable: any ranking of candidates is possible.
Symmetry == Permutations(Instruments)
=============================================================================
