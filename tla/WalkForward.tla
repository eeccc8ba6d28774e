---------------------------- MODULE WalkForward ----------------------------
(***************************************************************************)
(* Out-of-sample evaluation (backtesting/evaluation.py): one chronological  *)
(* split with its benchmarks and cost scenarios, or rolling windows of      *)
(* training and test; and the choice between strategies from their windows  *)
(* (backtesting/selection.py).                                              *)
(*                                                                         *)
(* A backtest is which bars it is given and where its orders and returns    *)
(* begin; what a test earns is a choice.  Averages are over the same number *)
(* of windows for every candidate, and are compared as sums; the Sharpe     *)
(* ratio, which breaks ties, is left out.                                   *)
(***************************************************************************)
EXTENDS Integers, Sequences, SequencesExt, FiniteSetsExt

CONSTANTS
  Candidates,    \* how many strategies are compared
  Warmups,       \* the warmup periods they may have
  Outcomes,      \* what a test may earn: [return, drawdown]
  MaxDrawdown,   \* max_average_drawdown
  MinPositive,   \* min_positive_windows
  LongestData,   \* bound: bars of the dataset
  LongestTrain, LongestTest, LongestStep   \* bounds: sizes that are asked for

ASSUME CandidatesAssumption == Candidates \in Nat \ {0}
ASSUME WarmupsAssumption == Warmups \subseteq Nat \ {0}
ASSUME OutcomesAssumption == \A o \in Outcomes : o.return \in Int /\ o.drawdown \in Nat
ASSUME LimitsAssumption == MaxDrawdown \in Nat \ {0} /\ MinPositive \in Nat \ {0}

VARIABLES
  request,      \* what is evaluated
  candidate,    \* the strategy that is evaluated
  trainStart,   \* of generate_walk_forward_windows
  runs,         \* the windows of each candidate
  evidence,     \* what the tests of each candidate earned together
  evaluation,   \* evaluate_train_test's
  status,       \* "working", "refused" (a ValueError), "reported" or "selected"
  selected      \* selected_name, or Nobody

evaluationVars == <<request, candidate, trainStart, runs, evidence, evaluation, status, selected>>

-----------------------------------------------------------------------------
(* Backtests *)

\* Bars from .. to - 1 of the dataset, with orders and returns from start on.
Backtest(from, to, start) == [from |-> from, to |-> to, start |-> start]

\* The first bar of the slice a decision can be executed at: index is at least
\* start_index, and the bar before it is out of the strategy's warmup.
FirstOrder(test, warmup) == test.from + Max({test.start - test.from, warmup})

Flat == [return |-> 0, drawdown |-> 0]
Earned(test, warmup) == IF FirstOrder(test, warmup) < test.to THEN Outcomes \cup {Flat} ELSE {Flat}

-----------------------------------------------------------------------------
(* One split: chronological_split, evaluate_train_test *)

NoReport == [of |-> "none"]

\* _evaluation_slice
SliceIsValid(from, start, to) == 0 <= from /\ from < start /\ start < to

\* The warmup period less one: the decision for the first bar of the test is
\* still in the warmup, unless the training is that short.
ContextStart(split, warmup) == Max({0, split - warmup + 1})

SplitReport(size, split, warmup, scenarios) ==
  LET train == Backtest(0, split, 0)
      test == Backtest(ContextStart(split, warmup), size, split)
  IN [of |-> "split", train |-> train, test |-> test, trainHold |-> train,
      testHold |-> test, cash |-> test, costs |-> [n \in 1 .. scenarios |-> test]]

\* The buy-and-hold benchmark raises if the capital buys no share.
EvaluateTrainTest ==
  /\ request.kind = "split" /\ status = "working"
  /\ LET split == request.split
         warmup == request.warmup[1]
         valid == /\ request.bars >= 2 /\ split > 0 /\ split < request.bars
                  /\ SliceIsValid(ContextStart(split, warmup), split, request.bars)
     IN \/ /\ valid
           /\ evaluation' = SplitReport(request.bars, split, warmup, request.scenarios)
           /\ status' = "reported"
        \/ /\ status' = "refused"
           /\ UNCHANGED evaluation
  /\ UNCHANGED <<request, candidate, trainStart, runs, evidence, selected>>

-----------------------------------------------------------------------------
(* Rolling windows: generate_walk_forward_windows, evaluate_walk_forward *)

DefaultStep == -1
ActualStep == IF request.step = DefaultStep THEN request.test ELSE request.step
SizesAreValid == request.bars >= 1 /\ request.train >= 1 /\ request.test >= 1 /\ ActualStep >= 1
WindowFits == trainStart + request.train + request.test <= request.bars

\* Broken variant: the test begins with the last bar of the training.
WindowRun_Overlapping(from, train, test) ==
  [train |-> Backtest(from, from + train, from),
   test |-> Backtest(from, from + train + test, from + train - 1)]

WindowRun(from, train, test) ==
  [train |-> Backtest(from, from + train, from),
   test |-> Backtest(from, from + train + test, from + train)]

EvaluateWindow ==
  /\ request.kind = "walk" /\ status = "working"
  /\ SizesAreValid /\ WindowFits
  /\ LET run == WindowRun(trainStart, request.train, request.test)
     IN /\ runs' = [runs EXCEPT ![candidate] = Append(@, run)]
        /\ \E outcome \in Earned(run.test, request.warmup[candidate]) :
             evidence' = [evidence EXCEPT ![candidate] =
               [return |-> @.return + outcome.return,
                drawdown |-> @.drawdown + outcome.drawdown,
                positive |-> @.positive + IF outcome.return > 0 THEN 1 ELSE 0]]
  /\ trainStart' = trainStart + ActualStep
  /\ UNCHANGED <<request, candidate, evaluation, status, selected>>

RefuseSizes ==
  /\ request.kind = "walk" /\ status = "working"
  /\ ~SizesAreValid \/ (~WindowFits /\ runs[candidate] = <<>>)
  /\ status' = "refused"
  /\ UNCHANGED <<request, candidate, trainStart, runs, evidence, evaluation, selected>>

-----------------------------------------------------------------------------
(* compare_strategies *)

NextCandidate ==
  /\ request.kind = "walk" /\ status = "working"
  /\ SizesAreValid /\ ~WindowFits /\ runs[candidate] # <<>>
  /\ candidate < Candidates
  /\ candidate' = candidate + 1
  /\ trainStart' = 0
  /\ UNCHANGED <<request, runs, evidence, evaluation, status, selected>>

Returned(c) == evidence[c].return
Drawdown(c) == evidence[c].drawdown

Eligible(c) ==
  /\ Returned(c) > 0
  /\ Drawdown(c) <= MaxDrawdown * Len(runs[c])
  /\ evidence[c].positive >= MinPositive

\* risk_adjusted_score: zero for a candidate that had no drawdown at all.
Score(c) == IF Drawdown(c) > 0 THEN <<Returned(c), Drawdown(c)>> ELSE <<0, 1>>

\* Broken variant: the largest return wins.
Better_ByReturn(a, b) == Returned(a) >= Returned(b)

\* The order of max, without what breaks ties.
Better(a, b) == Score(a)[1] * Score(b)[2] >= Score(b)[1] * Score(a)[2]

Nobody == 0
Chosen == {c \in {d \in 1 .. Candidates : Eligible(d)} :
             \A d \in {e \in 1 .. Candidates : Eligible(e)} : Better(c, d)}

Select ==
  /\ request.kind = "walk" /\ status = "working"
  /\ SizesAreValid /\ ~WindowFits /\ runs[candidate] # <<>>
  /\ candidate = Candidates
  /\ selected' \in IF Chosen = {} THEN {Nobody} ELSE Chosen
  /\ status' = "selected"
  /\ UNCHANGED <<request, candidate, trainStart, runs, evidence, evaluation>>

NothingEvaluated ==
  /\ candidate = 1 /\ trainStart = 0
  /\ runs = [c \in 1 .. Candidates |-> <<>>]
  /\ evidence = [c \in 1 .. Candidates |-> [return |-> 0, drawdown |-> 0, positive |-> 0]]
  /\ evaluation = NoReport
  /\ status = "working" /\ selected = Nobody

EvaluationInit ==
  /\ NothingEvaluated
  /\ \E size \in 1 .. LongestData, warmup \in [1 .. Candidates -> Warmups] :
       \/ \E split \in 0 .. LongestData :
            request = [kind |-> "split", bars |-> size, warmup |-> warmup, split |-> split,
                       scenarios |-> 2]
       \/ \E train \in 0 .. LongestTrain, test \in 0 .. LongestTest,
             step \in 0 .. LongestStep \cup {DefaultStep} :
            request = [kind |-> "walk", bars |-> size, warmup |-> warmup, train |-> train,
                       test |-> test, step |-> step]

EvaluationStep == EvaluateTrainTest \/ EvaluateWindow \/ RefuseSizes \/ NextCandidate \/ Select

-----------------------------------------------------------------------------
(* Properties *)

IsTestOf(test, train) == train.to <= test.start /\ 0 <= test.from /\ test.from <= test.start

\* No test counts a bar its strategy was trained on, every bar that is tested
\* is there, and what is compared is compared on the same bars: benchmarks and
\* cost scenarios with the test of the split, which runs to the last bar, and
\* candidates with each other.  With the default step the tests follow one
\* another without a gap or an overlap from the end of the first training, until
\* less than a test is left.
TestsAreOutOfSample ==
  /\ evaluation # NoReport =>
       /\ IsTestOf(evaluation.test, evaluation.train)
       /\ evaluation.train.to = evaluation.test.start /\ evaluation.test.to = request.bars
       /\ \A other \in {evaluation.testHold, evaluation.cash} \cup ToSet(evaluation.costs) :
            other.start = evaluation.test.start /\ other.to = evaluation.test.to
  /\ \A c \in 1 .. Candidates : \A n \in DOMAIN runs[c] :
       LET run == runs[c][n]
       IN /\ IsTestOf(run.test, run.train)
          /\ run.test.start < run.test.to /\ run.test.to <= request.bars
          /\ n \in DOMAIN runs[1] /\ runs[1][n].test = run.test
          /\ request.step = DefaultStep =>
               run.test.start = IF n = 1 THEN request.train ELSE runs[c][n - 1].test.to
  /\ status = "selected" =>
       \A c \in 1 .. Candidates :
         /\ Len(runs[c]) = Len(runs[1])
         /\ request.step = DefaultStep => request.bars - Last(runs[c]).test.to < request.test

\* The choice is one that earned, in some window and on average, and that no
\* other eligible candidate beats in both return and drawdown ("risk-aware and
\* never based on full-sample return maximization", selection.py); no choice is
\* made only when nobody is eligible.  A candidate without any drawdown is left
\* out: its score is zero, so it loses to every other.
SelectionIsUndominated ==
  LET beats(d, c) == /\ Returned(d) >= Returned(c) /\ Drawdown(d) <= Drawdown(c)
                     /\ Returned(d) > Returned(c) \/ Drawdown(d) < Drawdown(c)
      fit(c) == /\ Returned(c) > 0 /\ Drawdown(c) <= MaxDrawdown * Len(runs[c])
                /\ evidence[c].positive >= MinPositive
  IN /\ status = "selected" /\ selected = Nobody => \A c \in 1 .. Candidates : ~fit(c)
     /\ selected # Nobody =>
          /\ fit(selected)
          /\ \A c \in 1 .. Candidates : fit(c) /\ Drawdown(c) > 0 => ~beats(c, selected)
=============================================================================
