------------------------- MODULE RollingIndicators -------------------------
(***************************************************************************)
(* What the technical-only backtester remembers of one instrument between    *)
(* bars (portfolio/technical_only.py): the rolling windows of its indicators,*)
(* caught up only when a snapshot is asked for, the snapshot of the latest   *)
(* bar, and the weekly verdict, cached for the week and taken from a series  *)
(* that was built from the whole dataset, later weeks included.              *)
(*                                                                         *)
(* Prices and volumes are integers; an average is its sum, and a ratio a     *)
(* pair of integers.                                                         *)
(***************************************************************************)
EXTENDS Integers, Sequences, SequencesExt, FiniteSetsExt

CONSTANTS
  FastPeriod, SlowPeriod, RsiPeriod, AtrPeriod, VolumePeriod,
  WeeklyPeriod, SlopeLookback,
  Shapes,      \* the bars there may be: [high, low, close, volume]
  MaxBars      \* bound: bars of the dataset

ASSUME PeriodsAssumption ==
  /\ {FastPeriod, RsiPeriod, AtrPeriod, VolumePeriod, SlopeLookback} \subseteq Nat \ {0}
  /\ SlowPeriod \in Nat /\ SlowPeriod > FastPeriod
  /\ WeeklyPeriod \in Nat /\ WeeklyPeriod >= 2
ASSUME MaxBarsAssumption == MaxBars \in Nat \ {0}
ASSUME ShapesAssumption == \A s \in Shapes : {s.high, s.low, s.close, s.volume} \subseteq Nat

VARIABLES
  bars,      \* the dataset: a shape and the week it falls in
  seen,      \* histories[instrument]: the bars up to this one
  state,     \* _indicator_states[instrument]
  snapshot,  \* _snapshot_cache, of the latest bar it was asked for
  verdict    \* _weekly_cache[instrument]

indicatorVars == <<bars, seen, state, snapshot, verdict>>

History == SubSeq(bars, 1, seen)
Total(s) == FoldLeft(LAMBDA a, b : a + b, 0, s)
LastOnes(s, n) == SubSeq(s, IF Len(s) > n THEN Len(s) - n + 1 ELSE 1, Len(s))
Gain(from, to) == IF to > from THEN to - from ELSE 0
TrueRange(bar, close) ==
  Max({bar.high - bar.low, Gain(close, bar.high) + Gain(bar.high, close),
       Gain(close, bar.low) + Gain(bar.low, close)})

-----------------------------------------------------------------------------
(* Rolling windows *)

Window == [values : Seq(Int), sum : Int]
NoValues == [values |-> <<>>, sum |-> 0]

\* Append, add, and when the window is full subtract what is popped.
Push(window, value, period) ==
  IF Len(window.values) < period
  THEN [values |-> Append(window.values, value), sum |-> window.sum + value]
  ELSE [values |-> Append(Tail(window.values), value),
        sum |-> window.sum + value - Head(window.values)]

NoPrice == -1
NewState == [length |-> 0, close |-> NoPrice, fast |-> NoValues, slow |-> NoValues,
             volumes |-> NoValues, gains |-> NoValues, losses |-> NoValues, ranges |-> NoValues]

\* _update_indicator_state: the changes begin with the second bar.
Updated(s, bar) ==
  LET changed == s.close # NoPrice
  IN [s EXCEPT
        !.close = bar.close,
        !.fast = Push(@, bar.close, FastPeriod),
        !.slow = Push(@, bar.close, SlowPeriod),
        !.volumes = Push(@, bar.volume, VolumePeriod),
        !.gains = IF changed THEN Push(@, Gain(s.close, bar.close), RsiPeriod) ELSE @,
        !.losses = IF changed THEN Push(@, Gain(bar.close, s.close), RsiPeriod) ELSE @,
        !.ranges = IF changed THEN Push(@, TrueRange(bar, s.close), AtrPeriod) ELSE @]

\* Broken variant: only the latest bar is added.
CaughtUp_LatestOnly(s, history) ==
  [Updated(s, Last(history)) EXCEPT !.length = Len(history)]

\* _technical_snapshot: the bars that came since the last snapshot are added.
CaughtUp(s, history) ==
  [FoldLeft(Updated, s, SubSeq(history, s.length + 1, Len(history))) EXCEPT !.length = Len(history)]

Rsi(gains, losses) ==
  IF losses = 0 THEN <<IF gains > 0 THEN 100 ELSE 50, 1>> ELSE <<100 * gains, gains + losses>>
VolumeRatio(volume, volumes) ==
  IF volumes = 0 THEN <<0, 1>> ELSE <<volume * VolumePeriod, volumes>>

NoSnapshot == [of |-> "too few bars"]

\* _snapshot_from_state
SnapshotOf(bar, s) ==
  IF \/ Len(s.slow.values) < SlowPeriod \/ Len(s.gains.values) < RsiPeriod
     \/ Len(s.ranges.values) < AtrPeriod \/ Len(s.volumes.values) < VolumePeriod
  THEN NoSnapshot
  ELSE [of |-> "bar", close |-> bar.close, fast |-> s.fast.sum, slow |-> s.slow.sum,
        rsi |-> Rsi(s.gains.sum, s.losses.sum), atr |-> s.ranges.sum,
        volume |-> VolumeRatio(bar.volume, s.volumes.sum)]

-----------------------------------------------------------------------------
(* Weekly confirmation *)

\* _build_weekly_series, a dictionary that each bar of a week overwrites: the last
\* close of each week, of which those before the given one are taken
\* (bisect_left).  The weeks that have bars are numbered in their order.
LastBarOf(bs, week) == Max({n \in DOMAIN bs : bs[n].week = week})
WeeklyCloses(bs, week) == [w \in 1 .. week - 1 |-> bs[LastBarOf(bs, w)].close]

\* The last close is above the average, and the average above "prior_sma", which
\* is the sum of the SlopeLookback closes before it over WeeklyPeriod.
Confirmed(closes) ==
  LET current == Total(LastOnes(closes, WeeklyPeriod))
      prior == Total(SubSeq(closes, Len(closes) - WeeklyPeriod - SlopeLookback + 1,
                            Len(closes) - WeeklyPeriod))
  IN IF Len(closes) < WeeklyPeriod + SlopeLookback THEN "unknown"
     ELSE IF Last(closes) * WeeklyPeriod > current /\ current > prior THEN "yes" ELSE "no"

-----------------------------------------------------------------------------
(* The run *)

Weeks == {w \in [1 .. MaxBars -> 1 .. MaxBars] :
            w[1] = 1 /\ \A n \in 2 .. MaxBars : w[n] \in {w[n - 1], w[n - 1] + 1}}

NothingTaken == [at |-> 0, value |-> NoSnapshot]
NoVerdict == [week |-> 0, value |-> "unknown"]

\* run clears the caches.
IndicatorsInit ==
  /\ \E shapes \in [1 .. MaxBars -> Shapes], weeks \in Weeks :
       bars = [n \in 1 .. MaxBars |->
                 [high |-> shapes[n].high, low |-> shapes[n].low, close |-> shapes[n].close,
                  volume |-> shapes[n].volume, week |-> weeks[n]]]
  /\ seen = 0 /\ state = NewState /\ snapshot = NothingTaken /\ verdict = NoVerdict

\* The next bar of the instrument joins its history.
Arrive ==
  /\ seen < Len(bars)
  /\ seen' = seen + 1
  /\ UNCHANGED <<bars, state, snapshot, verdict>>

\* The first request of a bar: one of an instrument that is held or active.
\* A second one, of the pyramids and then of the scan, reads the cache.
TakeSnapshot ==
  /\ seen # 0 /\ snapshot.at # seen
  /\ state' = CaughtUp(state, History)
  /\ snapshot' = [at |-> seen, value |-> SnapshotOf(Last(History), state')]
  /\ UNCHANGED <<bars, seen, verdict>>

\* _weekly_confirmation, for a candidate that has its snapshot.
Confirm ==
  /\ snapshot.at = seen /\ snapshot.value # NoSnapshot
  /\ LET week == bars[seen].week
     IN verdict' = IF verdict.week = week THEN verdict
                   ELSE [week |-> week, value |-> Confirmed(WeeklyCloses(bars, week))]
  /\ UNCHANGED <<bars, seen, state, snapshot>>

IndicatorStep == Arrive \/ TakeSnapshot \/ Confirm

-----------------------------------------------------------------------------
(* Properties *)

\* calculate_technical_snapshot (features/technical.py), from the whole history.
Reference(history) ==
  LET closes == [n \in DOMAIN history |-> history[n].close]
      changes == LastOnes([n \in 1 .. Len(history) - 1 |-> closes[n + 1] - closes[n]], RsiPeriod)
      gains == [n \in DOMAIN changes |-> IF changes[n] > 0 THEN changes[n] ELSE 0]
      losses == [n \in DOMAIN changes |-> IF changes[n] < 0 THEN -changes[n] ELSE 0]
      selected == LastOnes(history, AtrPeriod + 1)
      ranges == [n \in 1 .. Len(selected) - 1 |-> TrueRange(selected[n + 1], selected[n].close)]
      volumes == LastOnes([n \in DOMAIN history |-> history[n].volume], VolumePeriod)
  IN IF Len(history) < Max({SlowPeriod, RsiPeriod + 1, AtrPeriod + 1, VolumePeriod})
     THEN NoSnapshot
     ELSE [of |-> "bar", close |-> Last(closes), fast |-> Total(LastOnes(closes, FastPeriod)),
           slow |-> Total(LastOnes(closes, SlowPeriod)), rsi |-> Rsi(Total(gains), Total(losses)),
           atr |-> Total(ranges), volume |-> VolumeRatio(Last(volumes), Total(volumes))]

\* What is remembered is what the bars so far say.  The rolling snapshot is the
\* one features/technical.py calculates from all of them, whatever bars were
\* skipped before it; and the weekly verdict is that of the weeks that are over,
\* though its series holds later ones ("do not use ... future bars for the
\* technical decisions", run_technical_portfolio_backtest.py).
MemoryIsOfThePast ==
  /\ snapshot.at # 0 => snapshot.value = Reference(SubSeq(bars, 1, snapshot.at))
  /\ verdict.week # 0 => verdict.value = Confirmed(WeeklyCloses(History, verdict.week))
=============================================================================
