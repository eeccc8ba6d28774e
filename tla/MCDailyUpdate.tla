--------------------------- MODULE MCDailyUpdate ---------------------------
(* A small instance of DailyUpdate for TLC. *)
EXTENDS DailyUpdate
=============================================================================
