------------------------- MODULE MCProposalExecutor -------------------------
(* Small instances of ProposalExecutor for TLC. *)
EXTENDS ProposalExecutor

MCInstruments == {Instrument}
MCIds == Days \X Kinds

\* A quiet bar, one that falls through any stop, one that reaches the default
\* target, and one that opens below every stop.
MCBars == {[open |-> 100, low |-> 99, high |-> 101],
           [open |-> 100, low |-> 70, high |-> 101],
           [open |-> 110, low |-> 109, high |-> 140],
           [open |-> 60, low |-> 59, high |-> 61]}

\* No levels, levels wider than the defaults, and tighter ones.
MCAdvice == {[stop |-> 0, target |-> 0],
             [stop |-> 5000, target |-> 20000],
             [stop |-> 9500, target |-> 12000]}
=============================================================================
