---------------------------- MODULE ResearchDesk ----------------------------
(***************************************************************************)
(* The research tools of the repository, each a process of its own on data   *)
(* that nobody changes meanwhile: the indicators of the technical-only       *)
(* backtester over one instrument's bars (RollingIndicators), an evaluation  *)
(* (WalkForward), or runs of the collectors of fundamentals, which share     *)
(* their files (FundamentalsCollector).  They share nothing else, so one is  *)
(* run and the others stay as they are.                                      *)
(***************************************************************************)
EXTENDS RollingIndicators, WalkForward, FundamentalsCollector

VARIABLE tool   \* which one is run

deskVars == <<indicatorVars, evaluationVars, collectVars, tool>>

\* An empty dataset, no request, and no collector that was started.
IndicatorsOff ==
  bars = <<>> /\ seen = 0 /\ state = NewState /\ snapshot = NothingTaken /\ verdict = NoVerdict
EvaluationOff == NothingEvaluated /\ request = [kind |-> "none"]
CollectorsOff == NothingCollected /\ store = NoList

DeskInit ==
  \/ tool = "indicators" /\ IndicatorsInit /\ EvaluationOff /\ CollectorsOff
  \/ tool = "evaluation" /\ IndicatorsOff /\ EvaluationInit /\ CollectorsOff
  \/ tool = "collectors" /\ IndicatorsOff /\ EvaluationOff /\ CollectInit

DeskNext ==
  \/ tool = "indicators" /\ IndicatorStep /\ UNCHANGED <<evaluationVars, collectVars, tool>>
  \/ tool = "evaluation" /\ EvaluationStep /\ UNCHANGED <<indicatorVars, collectVars, tool>>
  \/ tool = "collectors" /\ CollectStep /\ UNCHANGED <<indicatorVars, evaluationVars, tool>>

DeskSpec == DeskInit /\ [][DeskNext]_deskVars
=============================================================================
