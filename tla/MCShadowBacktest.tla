-------------------------- MODULE MCShadowBacktest --------------------------
(* Small instances of ShadowBacktest for TLC. *)
EXTENDS ShadowBacktest

MCInstruments == {Instrument}
MCIds == Days \X Kinds

\* A quiet bar, one that falls through any stop of an entry at 100, one that
\* reaches its target, one that does both, and one that opens below every stop.
MCBars == {[open |-> 100, low |-> 99, high |-> 101, close |-> 101],
           [open |-> 100, low |-> 70, high |-> 101, close |-> 95],
           [open |-> 110, low |-> 109, high |-> 140, close |-> 120],
           [open |-> 100, low |-> 70, high |-> 140, close |-> 110],
           [open |-> 60, low |-> 59, high |-> 61, close |-> 60]}
=============================================================================
