------------------------- MODULE TechnicalPortfolio -------------------------
(***************************************************************************)
(* The technical-only portfolio backtester (portfolio/technical_only.py):    *)
(* several instruments with unequal histories, one paper account, and one    *)
(* iteration per timestamp on which some instrument has a bar.  What is      *)
(* decided on a bar is pending until the next bar of its instrument.         *)
(*                                                                         *)
(* An iteration is four kinds of steps: Open (bars, mark, cooldown), one     *)
(* Execute per due pending action, Exits (stops and targets), Scan           *)
(* (pyramids, signals, candidates).  Indicators, the scores that rank        *)
(* candidates, the regime filter and the active universe are data: a bar     *)
(* comes with what they say of it, and any ranking is possible.              *)
(***************************************************************************)
EXTENDS BarLevels, PaperTrading, SequencesExt

\* The default stop of the other engines, StopLossPct, is not used here.
CONSTANTS
  Slots,          \* TechnicalOnlyConfig.max_positions
  StopAtr,        \* stop_atr_multiple
  UseTarget,      \* use_profit_target
  TrailAtr,       \* trailing_stop_atr_multiple, 0 for None
  PyramidAtr,     \* pyramid_trigger_atr_multiple
  PyramidPct,     \* pyramid_quantity_fraction
  MaxAdditions,   \* max_pyramid_additions, 0 without enable_pyramiding
  ByWeight,       \* use_weight_based_sizing
  MaxNewEntries,  \* max_new_entries_per_period, 0 for None
  EntryPeriod,    \* new_entry_period_days
  Cooldown,       \* backtest_kill_switch_cooldown_days, 0 for None
  Bars,           \* bars the data may hold: [open, low, high, close, atr, trend]
  MaxDays         \* bound: days of the data

Days == 1 .. MaxDays
Kinds == {"buy", "pyramid", "sell", "stop", "target", "final"}
ExitKinds == {"sell", "stop", "target", "final"}

\* "down": the fast average is below the slow one; "up": above it; "entry": above
\* it, and the bar passes every other gate of an entry.
Trends == {"down", "flat", "up", "entry"}

ASSUME DataAssumption ==
  \A bar \in Bars : /\ {bar.open, bar.low, bar.high, bar.close, bar.atr} \subseteq Nat \ {0}
                    /\ {bar.open, bar.close} \subseteq bar.low .. bar.high
                    /\ bar.trend \in Trends
\* What TechnicalOnlyConfig.__post_init__ enforces.
ASSUME ConfigAssumption ==
  /\ {Slots, StopAtr, PyramidAtr, EntryPeriod, MaxDays} \subseteq Nat \ {0}
  /\ {TrailAtr, MaxAdditions, MaxNewEntries, Cooldown} \subseteq Nat
  /\ PyramidPct \in 1 .. 100
  /\ {UseTarget, ByWeight} \subseteq BOOLEAN
  /\ ~UseTarget => TrailAtr # 0

\* Slippage never takes a whole price away: a fill has a positive price.
ASSUME WholePricesAssumption == \A bar \in Bars : SellPrice(100 * bar.low) > 0
ASSUME IdsAssumption == Ids = Days \X Instruments \X Kinds

VARIABLES
  account,
  paid,      \* average_price times quantity of each position
  risk,
  tripped,   \* kill_switch_triggered_at, 0 for None
  day,
  bars,      \* the last bar of each history, NoBar before the first
  fresh,     \* current_bars: the instruments with a bar today
  phase,
  pending,   \* the pending actions, in the order of the dictionary
  plans,
  entries,   \* active_entries
  recent,    \* recent_entries: the entries whose timestamps it holds
  records,   \* trade_records
  realized   \* the sum of trade_pnls

vars == <<account, paid, risk, tripped, day, bars, fresh, phase, pending, plans,
          entries, recent, records, realized>>

NoBar == [trend |-> "none"]
\* Levels are in hundredths of a price.
Plan == [stop : Nat \ {0}, target : Nat, highest : Nat \ {0}, additions : 0 .. MaxAdditions]
NoPlan == [stop |-> None]
Entry == [day : Days, price : Nat \ {0}, qty : Nat \ {0}]
NoEntry == [day |-> 0]
Pending == [instrument : Instruments, action : {"BUY", "SELL", "PYRAMID"},
            close : Nat, stop : Nat, target : Nat]
Record == [instrument : Instruments, entry : Days, pnl : Int, reason : ExitKinds]

TypeOK ==
  /\ account \in Account
  /\ paid \in [Instruments -> Nat]
  /\ risk \in Risk
  /\ tripped \in 0 .. MaxDays
  /\ day \in 0 .. MaxDays
  /\ bars \in [Instruments -> Bars \cup {NoBar}]
  /\ fresh \subseteq Instruments
  /\ phase \in {"open", "execute", "scan", "done"}
  /\ pending \in Seq(Pending)
  /\ plans \in [Instruments -> Plan \cup {NoPlan}]
  /\ entries \in [Instruments -> Entry \cup {NoEntry}]
  /\ recent \subseteq Days \X Instruments
  /\ records \in Seq(Record)
  /\ realized \in Int

Init ==
  /\ account = NewAccount
  /\ paid = [i \in Instruments |-> 0]
  /\ risk = NewRisk
  /\ tripped = 0
  /\ day = 0
  /\ bars = [i \in Instruments |-> NoBar]
  /\ fresh = {}
  /\ phase = "open"
  /\ pending = <<>>
  /\ plans = [i \in Instruments |-> NoPlan]
  /\ entries = [i \in Instruments |-> NoEntry]
  /\ recent = {}
  /\ records = <<>>
  /\ realized = 0

-----------------------------------------------------------------------------
(* The account, seen from the loop *)

Held == {i \in Instruments : account.held[i] > 0}
Opens(quotes) == [i \in Instruments |-> IF quotes[i] = NoBar THEN 0 ELSE quotes[i].open]

\* _equity_at_prices with use_open: an instrument without a bar today counts at
\* the open of its last one.
OpenEquity(quotes) == Equity(account, Opens(quotes))

\* Broken variant: the entry's price instead of the position's average.
Gain_OfEntry(i, price) == (price - entries[i].price) * account.held[i]

Gain(i, price) == price * account.held[i] - paid[i]

\* Broken variant: the entry stays active after its exit.
Released_Kept(exits) == entries

Released(exits) == [i \in Instruments |-> IF i \in exits THEN NoEntry ELSE entries[i]]

\* _sell for each of the exits: the whole position at the given price, and a
\* trade record of its entry - not of the shares a pyramid added.
Closed(exits, price, kind) ==
  LET id == [i \in exits |-> <<day, i, kind[i]>>]
      record(i) == [instrument |-> i, entry |-> entries[i].day,
                    pnl |-> (price[i] - entries[i].price) * entries[i].qty,
                    reason |-> kind[i]]
  IN /\ account' = SellEach(account, risk, exits, id, price)
     /\ paid' = [i \in Instruments |-> IF i \in exits THEN 0 ELSE paid[i]]
     /\ realized' = realized + SumFunction([i \in exits |-> Gain(i, price[i])])
     /\ \E order \in SetToSeqs(exits) :
          records' = records \o [n \in DOMAIN order |-> record(order[n])]
     /\ entries' = Released(exits)

-----------------------------------------------------------------------------
(* run: the top of an iteration *)

\* Broken variant: one day too many.
CooledDown_Late(marked, d) ==
  Cooldown # 0 /\ marked.kill /\ tripped # 0 /\ d - tripped > Cooldown

\* _apply_kill_switch_cooldown, for an engine just marked.
CooledDown(marked, d) ==
  Cooldown # 0 /\ marked.kill /\ tripped # 0 /\ d - tripped >= Cooldown

TrippedAt(marked, d) ==
  CASE Cooldown = 0 -> tripped
    [] Cooldown # 0 /\ (~marked.kill \/ CooledDown(marked, d)) -> 0
    [] OTHER -> IF tripped = 0 THEN d ELSE tripped

Open(d, arrived) ==
  /\ phase = "open" /\ d > day
  /\ day' = d
  /\ fresh' = {i \in Instruments : arrived[i] # NoBar}
  /\ fresh' # {}
  /\ bars' = [i \in Instruments |-> IF i \in fresh' THEN arrived[i] ELSE bars[i]]
  /\ LET marked == Marked(risk, OpenEquity(bars'), d)
     IN /\ risk' = IF CooledDown(marked, d) THEN Reset(marked) ELSE marked
        /\ tripped' = TrippedAt(marked, d)
  /\ phase' = "execute"
  /\ UNCHANGED <<account, paid, pending, plans, entries, recent, records, realized>>

-----------------------------------------------------------------------------
(* _execute_pending: the pending actions whose instrument has a bar, in order *)

Due == {n \in DOMAIN pending : pending[n].instrument \in fresh}
NextDue == pending[Min(Due)]

PopNextDue ==
  /\ phase = "execute" /\ Due # {}
  /\ pending' = RemoveAt(pending, Min(Due))
  /\ UNCHANGED <<risk, tripped, day, bars, fresh, phase>>

ExecuteSell ==
  LET i == NextDue.instrument
  IN /\ PopNextDue
     /\ NextDue.action = "SELL" /\ i \in Held
     /\ Closed({i}, [j \in {i} |-> SellPrice(100 * bars[i].open)], [j \in {i} |-> "sell"])
     /\ plans' = [plans EXCEPT ![i] = NoPlan]
     /\ UNCHANGED recent

\* The size of a buy with its stop at a distance of/all of the price.
Size(price, of, all) ==
  IF ByWeight THEN SizedByWeight(account.cash, price)
  ELSE SizedAt(account.cash, price, of, all)

Bought(i, kind, price, qty) ==
  account' = SubmitBuy(account, risk, <<day, i, kind>>, i, OpenEquity(bars), price, qty)
Filled(i, kind) == Submitted(account, account', <<day, i, kind>>)

\* The price is the open's; stop, target and the highest close are the candidate's.
ExecuteBuy ==
  LET i == NextDue.instrument
      price == BuyPrice(bars[i])
      qty == Size(price, 100 * NextDue.close - NextDue.stop, 100 * NextDue.close)
  IN /\ PopNextDue
     /\ NextDue.action = "BUY" /\ i \notin Held
     /\ Bought(i, "buy", price, qty)
     /\ IF Filled(i, "buy")
        THEN /\ paid' = [paid EXCEPT ![i] = qty * price]
             /\ plans' = [plans EXCEPT ![i] =
                  [stop |-> NextDue.stop, target |-> NextDue.target,
                   highest |-> 100 * NextDue.close, additions |-> 0]]
             /\ entries' = [entries EXCEPT ![i] = [day |-> day, price |-> price, qty |-> qty]]
             /\ recent' = recent \cup {<<day, i>>}
        ELSE UNCHANGED <<paid, plans, entries, recent>>
     /\ UNCHANGED <<records, realized>>

ExecutePyramid ==
  LET i == NextDue.instrument
      plan == plans[i]
      price == BuyPrice(bars[i])
      \* max((highest - stop) / highest, 0.01)
      distance == Higher(100 * (plan.highest - plan.stop), plan.highest)
      qty == Lower(SizedAt(account.cash, price, distance, 100 * plan.highest),
                   Higher(1, (account.held[i] * PyramidPct) \div 100))
  IN /\ PopNextDue
     /\ NextDue.action = "PYRAMID" /\ i \in Held /\ plan # NoPlan
     /\ Bought(i, "pyramid", price, qty)
     /\ IF Filled(i, "pyramid")
        THEN /\ paid' = [paid EXCEPT ![i] = @ + qty * price]
             /\ plans' = [plans EXCEPT ![i].additions = @ + 1]
        ELSE UNCHANGED <<paid, plans>>
     /\ UNCHANGED <<entries, recent, records, realized>>

-----------------------------------------------------------------------------
(* _execute_stops_and_targets, for every position with a bar *)

\* The trailing stop is measured from the highest close before this bar.
StopOf(i) ==
  IF TrailAtr = 0 THEN plans[i].stop
  ELSE Higher(plans[i].stop, plans[i].highest - 100 * bars[i].atr * TrailAtr)

\* Broken variant: a position entered on this bar is not looked at.
Watched_Carried == {i \in Held \cap fresh : entries[i].day < day}

Watched == {i \in Held \cap fresh : plans[i] # NoPlan}

Stopped == {i \in Watched : Crossed(bars[i], StopOf(i))}
Reaching ==
  {i \in Watched \ Stopped : plans[i].target # None /\ Reached(bars[i], plans[i].target)}

Exits ==
  LET exits == Stopped \cup Reaching
      price == [i \in exits |-> IF i \in Stopped THEN StopFill(bars[i], StopOf(i))
                                ELSE TargetFill(bars[i], plans[i].target)]
  IN /\ phase = "execute" /\ Due = {}
     /\ Closed(exits, price, [i \in exits |-> IF i \in Stopped THEN "stop" ELSE "target"])
     /\ plans' = [i \in Instruments |->
          CASE i \in exits -> NoPlan
            [] i \in Watched \ exits /\ TrailAtr # 0 ->
                 [plans[i] EXCEPT !.highest = Higher(@, 100 * bars[i].close)]
            [] OTHER -> plans[i]]
     /\ phase' = "scan"
     /\ UNCHANGED <<risk, tripped, day, bars, fresh, pending, recent>>

-----------------------------------------------------------------------------
(* run: the rest of the iteration *)

Rising(i) == bars[i].trend \in {"up", "entry"}

\* Broken variant: whatever the averages say.
Growing_AnyTrend ==
  {i \in Held \cap fresh :
     /\ plans[i].additions < MaxAdditions
     /\ account.held[i] * (bars[i].close - bars[i].atr * PyramidAtr) >= paid[i]}

\* _schedule_pyramids
Growing ==
  {i \in Held \cap fresh :
     /\ plans[i].additions < MaxAdditions
     /\ Rising(i)
     /\ account.held[i] * (bars[i].close - bars[i].atr * PyramidAtr) >= paid[i]}

Leaving == {i \in Held \cap fresh : bars[i].trend = "down"}

\* _candidate, whose stop must be positive.
Candidates ==
  {i \in fresh \ Held : bars[i].trend = "entry" /\ bars[i].close > bars[i].atr * StopAtr}

Action(i, action) ==
  [instrument |-> i, action |-> action, close |-> 0, stop |-> None, target |-> None]

Buying(i) ==
  LET close == bars[i].close
      stop == close - bars[i].atr * StopAtr
  IN [instrument |-> i, action |-> "BUY", close |-> close, stop |-> 100 * stop,
      target |-> IF UseTarget THEN 100 * close + RewardPct * (close - stop) ELSE None]

PendingBuys == Cardinality({n \in DOMAIN pending : pending[n].action = "BUY"})

\* Broken variant: only the entries of the day.
InWindow_Today == {e \in recent : e[1] >= day}

\* The entries that the rolling window still holds.
InWindow == {e \in recent : e[1] >= day - EntryPeriod}

\* Broken variant: a pending BUY takes no slot.
Vacant_Positions == Higher(0, Slots - Cardinality(Held))

Vacant == Higher(0, Slots - Cardinality(Held) - PendingBuys)

Allowed ==
  IF MaxNewEntries = 0 THEN Vacant
  ELSE Lower(Vacant, Higher(0, MaxNewEntries - Cardinality(InWindow) - PendingBuys))

Scheduled(instruments, Of(_)) ==
  {[n \in DOMAIN order |-> Of(order[n])] : order \in SetToSeqs(instruments)}

Scan ==
  /\ phase = "scan"
  /\ \E best \in kSubset(Lower(Allowed, Cardinality(Candidates)), Candidates) :
     \E pyramids \in Scheduled(Growing, LAMBDA i : Action(i, "PYRAMID")),
        sells \in Scheduled(Leaving, LAMBDA i : Action(i, "SELL")),
        buys \in Scheduled(best, Buying) :
       pending' = pending \o pyramids \o sells \o buys
  /\ recent' = IF MaxNewEntries = 0 THEN recent ELSE InWindow
  /\ phase' = "open"
  /\ UNCHANGED <<account, paid, risk, tripped, day, bars, fresh, plans, entries,
                 records, realized>>

\* The end of the data: every position is sold at its last close.
Finish ==
  /\ phase = "open" /\ day # 0
  /\ Closed(Held, [i \in Held |-> SellPrice(100 * bars[i].close)], [i \in Held |-> "final"])
  /\ phase' = "done"
  /\ UNCHANGED <<risk, tripped, day, bars, fresh, pending, plans, recent>>

Next ==
  \/ \E d \in Days, arrived \in [Instruments -> Bars \cup {NoBar}] : Open(d, arrived)
  \/ ExecuteSell
  \/ ExecuteBuy
  \/ ExecutePyramid
  \/ Exits
  \/ Scan
  \/ Finish

Spec == Init /\ [][Next]_vars

-----------------------------------------------------------------------------
(* Properties *)

\* A slot is taken when a BUY is decided, not when it is filled: positions and
\* pending BUYs together never exceed the configured number, also when a BUY
\* waits for an instrument that has no bar.
SlotsAreReserved == Cardinality(Held) + PendingBuys <= Slots

\* README.md: the pacing "caps new BUYs within a rolling window".  In any window
\* of the period that ends with an entry there are at most so many entries,
\* whenever they were decided.
EntryDays == {o \in Days \X Instruments : Known(account, <<o[1], o[2], "buy">>)}
EntriesArePaced ==
  MaxNewEntries # 0 =>
    \A last \in EntryDays :
      Cardinality({o \in EntryDays : last[1] - EntryPeriod <= o[1] /\ o[1] <= last[1]})
        <= MaxNewEntries

\* A pending action still fits when its bar comes, and a position is never
\* without its plan: what waits for a position to grow or to leave finds it,
\* what waits to enter finds none, and an instrument waits for one thing only.
PlansFitPositions ==
  phase # "done" =>
    /\ \A i \in Instruments : i \in Held <=> plans[i] # NoPlan
    /\ \A n \in DOMAIN pending :
         /\ pending[n].action = "BUY" <=> pending[n].instrument \notin Held
         /\ \A m \in DOMAIN pending :
              pending[m].instrument = pending[n].instrument => m = n

\* After the exits of a bar no position with a bar has a level that the bar
\* crossed, a position entered or enlarged on this very bar included.
LevelsAreExecuted ==
  phase = "scan" =>
    \A i \in Held \cap fresh :
      /\ plans[i].stop < 100 * bars[i].low
      /\ plans[i].target # None => 100 * bars[i].high < plans[i].target

\* The ledger is complete: an entry is either active or in exactly one record,
\* every exit that filled has a record, and as long as no position was enlarged
\* the records add up to the reported profits.
EveryEntryIsRecorded ==
  /\ \A d \in Days, i \in Instruments : Known(account, <<d, i, "buy">>) =>
       LET of == {n \in DOMAIN records : records[n].instrument = i /\ records[n].entry = d}
       IN Cardinality(of) = IF entries[i].day = d THEN 0 ELSE 1
  /\ \A i \in Instruments, k \in ExitKinds :
       Cardinality({n \in DOMAIN records : records[n].instrument = i /\ records[n].reason = k})
         = Cardinality({d \in Days : Known(account, <<d, i, k>>)})
  /\ (\A d \in Days, i \in Instruments : ~Known(account, <<d, i, "pyramid">>)) =>
       realized = SumFunction([n \in DOMAIN records |-> records[n].pnl])

\* A drawdown stops the entries for the cooldown, and not for longer: a mark
\* that finds the switch on clears it only if it was on before and no share was
\* bought in the days of the cooldown, and a switch that stays on was tripped
\* fewer days ago than that.
CooldownIsServed ==
  [][phase = "open" /\ phase' = "execute" =>
       LET tripping == Marked(risk, OpenEquity(bars'), day').kill
       IN /\ tripping /\ ~risk'.kill =>
               /\ risk.kill
               /\ \A d \in Days, i \in Instruments, k \in {"buy", "pyramid"} :
                    Known(account, <<d, i, k>>) => day' - d > Cooldown
          /\ risk'.kill /\ Cooldown # 0 => tripped' # 0 /\ day' - tripped' < Cooldown]_vars

\* The profits explain the cash: with what the open positions cost put back,
\* the cash is the capital and the reported profits, which leave the
\* commissions out.
ProfitsExplainCash ==
  LET ids == {id \in Days \X Instruments \X Kinds : Known(account, id)}
      fees == [id \in ids |-> Commission(account.orders[id].qty, account.orders[id].price)]
  IN account.cash = 100 * (Capital + realized - SumFunction(paid)) - SumFunction(fees)
=============================================================================
