# AgenticInvesting in TLA+

Specifications, model checks and proofs for AgenticInvesting. Their core is the
order path: what happens between a decision to trade - an agent's proposal, a
strategy's signal - and an order at the exchange, and what is left when a step of
it fails. Around it are the programs that feed it and learn from it: the login and
the refresh of the data, the agent's conversation with its model, the evaluation
of strategies, and the collection of fundamentals.

The TLA+ is written from the Python source (`src/src/agentic_investing`).
`PROJECT.json` maps every definition to the lines it stands for.

## The system

Everything runs in one Python process per use (a script, a backtest, or the MCP
server) and in one thread, except the callback server of the Zerodha login. The
hard behaviour is therefore not in locks but in

* failures between two steps: a broker call that raises after the exchange took
  the order, a file that cannot be saved, a process that dies;
* repetitions: client order ids are derived from the bar and repeated when a bar
  or a proposal is;
* state that several steps share: the cash and positions of the paper account,
  the peak and the baselines of the risk engine, the levels of a position;
* files that several processes share: two scripts that an operator or a scheduler
  runs at once replace one dataset, one list, through one temporary file.

### Components

| Component | State | Operations | Used by |
|---|---|---|---|
| Zerodha adapter, `execution/kite_broker.py` | `_orders`, the orders it knows | `hydrate`, `place_order`, `cancel_order`, `refresh_order`, `get_order`, reads | `OrderManager`; not wired into a schedule |
| Order store, `execution/order_store.py` | entries in memory, a JSON file | `begin_attempt`, `mark_submitted`, `mark_terminal`, load | the adapter |
| Reconciliation, `execution/reconciliation.py` | none | a report of non-terminal orders and of mismatches | an operator |
| Paper broker, `execution/paper_broker.py` | cash, positions, orders | `place_order`, `cancel_order`, reads | `OrderManager` |
| Risk engine, `risk/engine.py` | peak and current equity, day and month baselines, kill switch | `mark_to_market`, `reset_kill_switch`, `evaluate_new_position`, two sizings | `OrderManager`, `Backtester` |
| Order manager, `execution/order_manager.py` | none of its own | `submit_buy`, `submit_sell`, `reconcile` | executor, shadow session, portfolio backtests |
| Proposal executor and tools, `agent/executor.py`, `agent/tools.py` | stop and target of the position, one executor per instrument | `submit_trade_proposal` = mark + execute | agent runner, MCP server |
| Trade journal, `journal/trade_journal.py` | SQLite: entries, one plan per day and instrument | append, upsert, read | executor |
| Shadow session, `shadow/session.py` | history, stale flag, stop and target | `on_bar`, `mark_stale` | daily update, replay |
| Backtester, `backtesting/engine.py` | cash, one position, equity curve | `run` | evaluation, selection |
| Portfolio backtester, `portfolio/backtest.py`; technical-only, `portfolio/technical_only.py` | plans, pending actions, entry window, cooldown | `run` | scripts |
| Ingestion, `data/ingestion.py`, `data/manifest.py`, `data/validation.py`, `data/providers/kite.py` | dataset and manifest files, their temporary files | fetch in chunks, validate, replace both | three data scripts |
| Data scripts, `run_daily_shadow_update.py`, `fetch_portfolio_universe.py`, `fetch_kite_history.py` | backups, reports | log in, check the token, back up, refresh, replay, report | operator |
| Zerodha login, `auth/kite_login.py` | callback result and event, the server's connection, session file | callback, wait, exchange, save | data scripts |
| Agent runner and providers, `agent/runner.py`, `agent/providers.py` | the conversation | bounded tool-use loop, dispatch, two forms of a message | daily review |
| Daily review, `run_daily_agent_review.py` | the report | one conversation, or one replay, per instrument | operator |
| Evaluation, selection, `backtesting/evaluation.py`, `selection.py` | none | one split or rolling windows, benchmarks, choice of a strategy | scripts |
| Rolling indicators, in `portfolio/technical_only.py` | six windows per instrument, two caches | catch up, snapshot, weekly verdict | technical-only backtester |
| Collectors, `research/*.py` and two scripts | list of records, archive of documents | fetch, parse, archive, read, replace a record, rename | operator |
| Strategies, screener's filters, universe, metrics, MCP server, configuration | none | pure functions, registrations | everything above |

### How they interact

    agent / MCP client                strategy signals
          |                                 |
    AgentToolkit.submit_trade_proposal   ShadowTradingSession, PortfolioBacktester
          |  mark, then execute             |  mark, exits, then entries
    ProposalExecutor ---- TradeJournal      |
          |                                 |
          +---------> OrderManager <--------+
                       |        \
                   RiskEngine    BrokerAdapter = PaperBroker | KiteBrokerAdapter
                                                              |          |
                                                          OrderStore   Kite API, exchange

Calls are synchronous. The risk engine never sees the broker: its callers hand it
an equity. The executor and the session keep a position's stop and target
themselves; the broker does not know them. The adapter and the exchange meet only
in the order book, by the `tag` of an order.

    browser --callback thread--> KiteLogin --session file--> data scripts
                                                                 |
    Kite history --chunks--> validate_bars --> dataset + manifest (write, rename)
                                                                 |
                             ShadowTradingSession, backtests, evaluation

    model <--provider client--> AgentRunner --tools--> AgentToolkit (above)

The files are the only interface between these programs, and a rename is the only
thing that orders two processes.

### What makes each part correct

* Adapter, store: an id has at most one order at the exchange, whatever raised,
  crashed and was retried; every order at the exchange can be found again from
  the file; what is reported final is so; a hydrate misses no live order.
* Paper account: cash and positions are what the filled orders say; neither is
  ever negative.
* Risk engine, manager: the kill switch remembers exactly a drawdown since its
  last reset; no entry against the limits; exits always possible; a sized buy
  always fills.
* Executor: a position is one entry and leaves as a whole; its levels are never
  wider than the defaults; a crossed level is executed before a proposal is.
* Shadow session, backtester: what one would have done, the other does; levels live
  as long as the position; a stale feed suppresses entries and never exits; the
  trades explain the cash.
* Portfolio backtesters: every open position has its plan and no crossed level
  behind it; a decision that waited still fits the positions when it is executed;
  slots and the pace of entries are respected; the ledger and the cash agree; a
  drawdown stops entries for exactly the cooldown.
* Login: a callback that was answered in time is never lost to the timeout, what is
  saved is a success as the browser delivered it, and a session that looks fresh is
  honoured unless the token-day boundary passed between its issue and its stamp.
* Data scripts: whatever dies when, the dataset is whole, valid and of its
  instrument, what was replaced has its backup, and the manifest on disk describes
  the dataset on disk; every run ends, or is blocked in one of the login's two waits
  without a timeout.
* Agent runner, review: every tool call is answered in the provider's form, no trade
  is missing from the report, and no model holds up the watchlist.
* Evaluation, selection: no test counts a bar of its training; what is compared is
  compared on the same bars; nobody chosen is dominated.
* Rolling indicators: what is remembered is what the bars so far say, no bar of the
  past missing and none of the future in it.
* Collectors: no record of another instrument is lost, and every official record has
  its document in the archive.

## The modules

| Module | Models | Kind |
|---|---|---|
| `IdempotentOrders` | the promise of `BrokerAdapter` and `OrderRequest`: one order per id, growing fills, final states | abstract specification |
| `KiteBroker` | adapter, store, file, call in progress, wire, order book, crashes | state machine; implements `IdempotentOrders` |
| `KiteBrokerProofs` | inductive invariant and theorems about `KiteBroker` | proofs |
| `PaperTrading` | `PaperBroker`, `RiskEngine`, `OrderManager` as operators from state to state | shared operators |
| `OrderGate` | a caller of the manager with several instruments | state machine over `PaperTrading` |
| `PaperTradingProofs` | facts about data (least elements, sums, sequences) and about the shared operators: fills, sizes, marks, loops of sales | lemmas for the five below |
| `OrderGateProofs` | invariant and theorems about `OrderGate` | proofs |
| `ProposalExecutor` | `submit_trade_proposal`: mark, exits, proposal, journal failures, restarts | state machine over `PaperTrading` and `BarLevels` |
| `ProposalExecutorProofs` | invariant and theorems about `ProposalExecutor` | proofs |
| `BarLevels` | fills and exit levels on a bar, which three components compute alike | shared operators |
| `ShadowSession` | `ShadowTradingSession` over `PaperTrading` | actions of a state machine |
| `Backtester` | `Backtester.run` with its own cash and position | actions of a state machine |
| `ShadowBacktest` | a session and a backtest fed the same bars and trends | composition, with the specification |
| `ShadowBacktestProofs` | invariant and theorems about `ShadowBacktest` | proofs |
| `TechnicalPortfolio` | `TechnicalOnlyBacktester.run`: pending actions, slots, pyramids, trailing stops, cooldown, ledger | state machine over `PaperTrading` and `BarLevels` |
| `TechnicalPortfolioProofs` | invariants and theorems about `TechnicalPortfolio` | proofs |
| `ScreenedPortfolio` | `PortfolioBacktester.run` with the decisions of the screener | state machine over `PaperTrading` and `BarLevels` |
| `ScreenedPortfolioProofs` | invariant and theorems about `ScreenedPortfolio` | proofs |
| `KiteLogin` | `authenticate_kite`, its callback thread, the session file and its expiry | actions of a state machine |
| `DatasetFiles` | chunked fetch, `validate_bars`, writing and renaming of dataset and manifest | shared operators and actions |
| `DailyUpdate` | overlapping runs of the three data scripts over login and files | composition, with the specification and its fairness |
| `AgentLoop` | `run_for_instrument`, `_dispatch_tool`, the providers' messages | actions of a state machine |
| `AgentReview` | `run_daily_agent_review.py` over a watchlist | composition, with the specification and its fairness |
| `RollingIndicators` | the windows, the snapshot and the weekly verdict of `technical_only.py`, and `features/technical.py` as their reference | actions of a state machine |
| `WalkForward` | splits, windows, benchmarks and `compare_strategies` | actions of a state machine |
| `FundamentalsCollector` | both collectors, the archive and the list | actions of a state machine |
| `ResearchDesk` | the three before, one at a time | composition, with the specification |
| `ScriptsProofs` | invariants and theorems about `DailyUpdate`, `AgentReview` and `ResearchDesk` | proofs |
| `MCKiteBroker`, `MCOrderGate`, `MCProposalExecutor`, `MCShadowBacktest`, `MCTechnicalPortfolio`, `MCScreenedPortfolio`, `MCDailyUpdate`, `MCAgentReview`, `MCResearchDesk` | sets and symmetry for TLC | instances |

An operator whose name has a suffix (`PlaceNew_NoScan`) is a broken variant of the
operator below it. No specification uses it; it is there to show that the property
it is paired with in `PROJECT.json` notices such a bug.

### KiteBroker

| Code | Model |
|---|---|
| `KiteBrokerAdapter._orders` | `cache`, an order or `NoOrder` per id; `row` is the broker order id |
| `OrderStore._entries`, its file | `entries`, `disk`: a stage per id |
| a call of `client.place_order` | `call`: `sending` until the exchange has it, `accepted` until it returns |
| `orders()`, `order_history(id)` | `book`, a sequence of rows |
| process alive, hydrated | `up`, `hydrated` |

`PlaceNew` is `place_order` up to the client call, `PlaceReturns` and `PlaceRaises`
its two ends, `PlaceRecovered` the branch that finds the order in the book; a call
for a cached order changes nothing and is no action. Each `_save` may raise: it
leaves the old file and the changed memory, which is the order of the assignments
in the code. `Cancel` is `cancel_order` of a live order: the adapter records
CANCELLED as soon as the client accepts, and fills may still arrive. `Refresh`
applies the last row of the history. `Crash` loses all memory, `Start` loads the
file; `hydrate` may be called, at once, later or never, since nothing in the
repository calls it.

The wire is chosen at the start. On a `prompt` wire a request whose call has ended
never reaches the exchange afterwards. On a `late` wire it may (a timeout of the
HTTP client). Idempotence holds on the first and fails on the second; which one is
real depends on the broker, so both are modelled and each property says which it
needs.

### PaperTrading and OrderGate

An account is `[cash, held, orders]` and the engine's state `[peak, current, day,
month, dayStart, monthStart, kill]`, with `day = 0` for the fields that are `None`
before the first mark. `FillBuy`, `FillSell`, `Marked`, `Reset`, `Approved`,
`Sized` (through `SizedAt`), `SizedByWeight`, `SubmitBuy` and `SubmitSell` are the methods of nearly
the same names. Prices and rates are integers and money is counted in hundredths,
so the arithmetic is exact, as `Decimal` is at these sizes.

`OrderGate` lets a caller see bars of the same or the next day, mark, buy, sell
all it holds and reset the kill switch in any order, and repeat ids. It keeps
`marks`, the history of marks, so that `KillSwitchLatches` and
`EntriesRespectLimits` can say what should be decided from the whole history,
where the engine has a peak and two baselines.

### ProposalExecutor

Ids are pairs of a day and a kind, as the code builds them from the bar's timestamp
and a suffix. Each action is a whole `submit_trade_proposal`: the mark, the stop or
target exit, and HOLD, BUY or SELL after it. `ExitUnrecorded` is the journal write
after an exit raising, which ends the call before the levels are cleared. A BUY
while holding, and a SELL with nothing held, only mark: they are `Hold`.

### ShadowSession, Backtester and ShadowBacktest

`OnBar` is one call of `on_bar`, in four disjuncts: a level was crossed
(`ExitOnLevel`), a BUY signal (`EnterOnSignal`, suppressed or submitted), a SELL
signal (`ExitOnSignal`), none of them (`NoSignal`). `MarkStale` is `mark_stale`.
`Process` is one iteration of `Backtester.run`, in the code's order: mark, entry,
stop or target - of the position just entered too -, SELL signal; `Liquidate` is
what follows the loop. A strategy answers BUY only when flat and SELL only when
holding, so a bar comes with a trend, `up`, `down` or `none`, that both are shown;
the trend is any.

The two read differently: the session has a broker, ids and separate levels, the
backtester one record. `SessionFollowsBacktest` says that they agree, cash, shares,
levels and risk record, until a bar on which the session suppressed an entry or the
backtest's entry bar crossed a level (`Parts`).

### TechnicalPortfolio

One iteration of `run`, for a timestamp on which some instrument has a bar, is
four kinds of steps in a fixed order, told apart by `phase`:

| Step | Code |
|---|---|
| `Open` | the bars of the timestamp, `mark_to_market` at the opens, the cooldown |
| `ExecuteSell`, `ExecuteBuy`, `ExecutePyramid` | one due action of `_execute_pending` each |
| `Exits` | `_execute_stops_and_targets`, all instruments at once |
| `Scan` | `_schedule_pyramids`, the signals of the held, the new candidates |

`Finish` is the liquidation, possible whenever an iteration has ended, so that data
of every length is covered. An instrument without a bar keeps its last one (`bars`)
and its pending action; equity uses the last bar, as `_equity_at_prices` does.
`pending` is a sequence, as the dictionary keeps the order of insertion. A bar says
of itself what the indicators, the regime filter and the active universe would
(`trend`); scores are left out, so `Scan` takes any choice and any order of the
candidates. Levels are in hundredths of a price; `paid` is the average price times
the quantity, so that no average has to be rounded.

### ScreenedPortfolio

The bars are aligned, so an iteration is `Bar` (mark, stops and targets), `Decide`
(`build_portfolio_decisions` on the bars *before*), and one `ExecuteSell` or
`ExecuteBuy` per decision that is not HOLD. As above, a bar says whether its
instrument passes the screen and any ranking is possible. `ToldEquity` is the
equity that `_execute_decisions` hands to the manager: the cash alone.

### KiteLogin, DatasetFiles and DailyUpdate

`login` is where `authenticate_kite` is, `server` what its callback thread writes:
the pair first, then the event. The pair can be overwritten between the event and
the read, and a callback can come as the wait ends. The server has one thread, so it
is with one connection at a time (`Connect`, `held`) until that sends a request or
goes (`Callback`, `HangUp`); `shutdown` waits for it (`CloseServer`). `day` is the broker's token
day; a session has the day it was issued and the day it was stamped, and the code
knows the second only.

A file is a content, `NoFile` or `Torn`. `Open` truncates the temporary file, `Fill`
writes where the open file is by now, `Swap` renames it, under the hands of the
writers in it. A fetch is a sequence of candles in chunks, one of which the broker
may answer with nothing, twice a candle, out of order, or unsoundly; `Issues` is
`validate_bars` on one instrument.

| Step of a run | Code |
|---|---|
| `Resolve`, `LoggedIn` | `_resolve_credentials`, with the login for the daily script |
| `Verify`, `Backup` | `_verify_instrument_token`, `_backup_existing_dataset` |
| `Fetch`, `OpenData`, `FillData`, `SwapData`, `WriteManifest`, `SwapManifest`, `SwapFails` | `ingest_historical_bars` |
| `Load`, `Report` | `load_bars_json`, the replay, the two report files |
| `Crash` | the process is killed at any of them |

`DailyStep`, `UniverseStep` and `FetchStep` say which steps each script has. The
replay within the daily script is `ShadowSession`'s; here it only turns the loaded
bars into a report.

### AgentLoop and AgentReview

The model is the environment: `Replies` is every sequence of blocks with every stop
reason the provider's client can pass on. A call is its id; `Task`, `Assistant` and
`Results` are the messages, and `ToOpenAI` their conversion for the second provider.
A tool may raise before or after its effect (`ToolOutcomes`), and the dispatch itself
may raise. `AgentReview` runs one conversation after another; an entry of its report
is an error or what the runner returned.

### RollingIndicators, WalkForward, FundamentalsCollector and ResearchDesk

`RollingIndicators` follows one instrument through its bars: a bar arrives
(`Arrive`), and a snapshot may or may not be asked for (`TakeSnapshot`), which is
what being out of the active universe does. Averages are kept as sums. `Confirm` reads
a weekly series built from the whole dataset.

`WalkForward` keeps of a backtest which bars it is given and where its orders and
returns begin, and chooses what a test earns. `FundamentalsCollector` has the same
files as `DatasetFiles`, with a list of records in them, and an archive whose names
are never written twice.

The three share no state. `ResearchDesk` runs one of them at a time, chosen at the
start, so that one run covers the tools an operator uses offline.

## The runs

The longest run takes about a minute and a half on two workers.

| Run | Shows | Instance |
|---|---|---|
| `kite` | types, `AtMostOneOrder`, `StoreCoversOrders`, `FinalViewIsTrue`, `HydrationIsComplete`, `KeepsPromise` (refinement) | 2 symmetric ids, quantity 2, at most 2 rows, both wires: 144,541 states |
| `gate` | `BooksBalance`, `SizedBuysFill`, `KillSwitchLatches`, `EntriesRespectLimits` | 2 symmetric instruments, 3 symmetric ids, 2 prices, 3 days, 3 marks: 491,849 states |
| `executor` | `PositionIsOneEntry`, `LevelsNeverWiden`, `StopsAreEnforced` | 3 days, 4 bars, 3 kinds of advice: 63,950 states |
| `executor_naked` | `NoNakedPosition` fails | the same |
| `shadow` | `SessionFollowsBacktest`, `LevelsFollowPosition`, `TradesExplainCash`, `StaleOnlyExits` | 6 days, 5 bars, 3 trends, gaps from 2 days: 168,156 states |
| `technical` | `SlotsAreReserved`, `EntriesArePaced`, `PlansFitPositions`, `LevelsAreExecuted`, `EveryEntryIsRecorded`, `ProfitsExplainCash`, `CooldownIsServed` | 2 symmetric instruments, 1 slot, 5 bars or none, 5 days, 2 entries in 2 days, 1 pyramid, cooldown of 2 days: 170,530 states |
| `portfolio` | `PositionsAreWatched`, `DecisionsFit`, `PassingIsKept` | 2 symmetric instruments, 1 slot of the screen, 2 positions, 4 bars, 5 days: 192,713 states |
| `portfolio_cash` | `RefusalsAreLosses` fails | the same, with a daily limit one position exceeds |
| `daily` | `DatasetIsSound`, `ReplacedIsBackedUp`, `ManifestDescribesData`, `LoginIsHonest`, `UpdateEnds` (liveness) | 2 runs of any of 3 scripts, 2 instruments and a token of none, 2 days, 2 connections, chunks of 2 dates: 210,624 states |
| `agent` | `CallsAreAnswered`, `TradesAreReported`, `ReviewEnds` (liveness) | 2 instruments, 2 replies of at most 2 blocks, both providers: 90,506 states |
| `agent_neutral` | `ToolAnswersAreSent` fails | the same |
| `research` | `MemoryIsOfThePast`, `TestsAreOutOfSample`, `SelectionIsUndominated`, `RecordsAreBacked`, `RecordsAreKept` | 5 bars of 3 shapes in any weeks, periods 2 and 3; up to 6 bars, 2 strategies, 4 outcomes; 2 collectors, 2 instruments, 4 documents: 881,032 states |

Why the bounds are enough. *kite*: quantity 2 allows a partial fill; two rows allow
a duplicate of one id or an order of each; crashes, raised calls and retries are
not bounded. *gate*: three marks allow a peak, a fall and a mark after a reset; two
days to a month and three days cross a day and a month boundary; the prices and
limits are such that the daily, the monthly, the drawdown and the count limit each
block some buy and a reset unblocks one. Three ids allow an entry, an exit and a
re-entry, and every repetition. *executor*: a day to enter, one to be exited and
re-entered, one to see what is left; the four bars are quiet, through any stop, to
the default target, and opening below every stop. *shadow*: six days allow two
round trips, a gap and a mark between them, and falls that trip the kill switch
while the two still agree; the five bars add one that crosses both levels.
*technical*: one slot and two instruments make every entry compete with a position
or with a pending BUY; an instrument may miss any bar, so an action waits; five days
allow an entry, a pyramid and an exit, a second entry, a full window that holds back
a third, and a trip with the whole cooldown after it. *portfolio*: one slot of the
screen and two of the risk limits, so that a held instrument falls out of the best,
and a stopped one comes back; the four bars pass, do not pass, fall through every
stop and reach every target. *daily*: two runs are what it takes to share a temporary file and to
need a backup; two days let a token expire at any step of a login or a refresh, and
three dates make two chunks; two connections let a callback overwrite another, or
one bring the callback and the other stay silent. *agent*: two
blocks allow a proposal beside a reading call, or two proposals, two replies an
answer between them and a conversation cut by the limit; two instruments show that
nothing is carried over. *research*: five bars with windows of two and three fill
every window, pop from it, and leave a gap of several bars before a snapshot; they
fall in one to five weeks, of which three give a verdict; six bars allow five
windows, a remainder, a step beyond the test and training without room for a test;
two collectors interleave at every step, and one manifest names an instrument twice.
Shadow, technical and portfolio, daily and research turn the deadlock check off: a
backtest ends with its data and a script with its work.

Each state machine but the research tools' has its `TypeOK`, which the theorems
below start from, and which most of them prove. Only `kite` checks it in its run, where a broken conversion
of a status shows there first; the others hold on the instances above, and are not
repeated in every run.

### Where code and documents disagree

The runs expected to fail state what a comment or a document says, and TLC's trace
is what the code does instead.

* `RefusalsAreLosses` (a defect of the portfolio backtester): the manager is told
  the cash for the equity, while the baselines hold the positions too. Once a
  position is open, every further BUY looks like a breach of the daily limit: with
  the defaults (1% a day, about 10% a position) a portfolio of one.
* `NoNakedPosition` (a defect of the executor): exit, re-entry and another proposal
  on one bar repeat the exit's id, sell nothing, and clear the levels.
* `ToolAnswersAreSent` (a defect of the agent runner): the loop goes on only after
  Claude's `tool_use`. A provider of chat completions says `tool_calls`, so its
  conversation ends after the first turn of tools, whose results are never sent.

More were met while modelling. They have no run of their own; where a model
depends on one, its properties say so.

* Login: `server.shutdown()` (`kite_login.py:196`) waits for a connection that was
  accepted and sends nothing, as a browser opens some ahead of need; neither the handler
  nor the shutdown has a timeout, and `join(timeout=2)` on the next line is not reached.
  The access token is then issued and the session, which `src/README.md:171` says is
  stored, is not while the connection stays open. `UpdateEnds` names the case
  (`Blocked`). `generated_at` is taken after that shutdown: if the token-day boundary
  passes before it, `_is_session_fresh` takes a token of the day before for fresh until
  the next boundary, though `src/README.md:173` says that `fetch_kite_history.py` detects
  an expired session. `LoginIsHonest` names that case.
* Zerodha adapter: an id is submitted again when the order book shows no row,
  although the first, timed-out request may still arrive: `AtMostOneOrder` holds on
  a prompt wire only. The reconciliation report reads the cache, which an order
  whose placement did not complete never entered; `HydrationIsComplete` says when
  the report can be trusted. `get_order` reads the cache only, where the docstring
  of `kite_broker.py` says that it falls back to the order book.
* Risk: the deployment limit caps each order and not their sum. The docstring of
  `OrderManager` says that no order is sent unless the engine was marked for the
  period; the engine approves when a baseline is missing or old.
* Shadow session: stop and target are not checked on the bar it enters on; the
  backtester checks them. `SessionFollowsBacktest` ends its comparison there.
* Evaluation: a test gets one bar of context less than the warmup period
  (`evaluation.py:183`), so the decision for its first bar is still in the warmup,
  though the docstring says that orders begin at the first test bar. A strategy
  without any drawdown scores zero and loses to every other (`selection.py:96`).
* Weekly confirmation: `prior_sma` divides the sum of `weekly_slope_lookback` closes
  by `weekly_sma_period` (`technical_only.py:517`), so that with the defaults it is
  a fraction of an average and the slope is nearly always up.
* Collectors: a document whose archiving was cut keeps its name, and is never
  written again, while `docs/fundamentals-source-policy.md` has every raw response
  archived. `RecordsAreBacked` names the exception.
* Two writers of one dataset, or of one list, share the temporary file's name and
  can tear what they replace. `DatasetIsSound` and `RecordsAreKept` promise for a
  run that writes alone.

### Fairness

Two specifications state weak fairness, and two claim liveness.

* `DailyUpdate`: of the steps of a run that lives, and of the login's. Each script is
  one thread of straight-line code whose calls return; the login's wait has a timeout
  (300 seconds), which is an action of its own, enabled as long as no callback came.
  `OpenBrowser` has no fairness, since `webbrowser.open` waits for a console browser to
  end, and `CloseServer` is not enabled while the server is with a silent connection.
  Nothing is assumed of the operator, the browser and its connections, the calendar
  or a crash. So `UpdateEnds` does not say that every run ends: one that does not is
  for ever before the return of `webbrowser.open`, or in the shutdown with a connection
  open (`Blocked`). That the browser never answers is not among the reasons.
* `AgentReview`: of the script's steps. It is one thread, `max_tool_iterations` bounds
  the conversation, and the libraries of both providers end a request after their
  default timeout, which the code leaves in place.
  Nothing is assumed of the model but that the call returns or raises.

The order path states none. Nothing in the repository schedules `refresh_order`,
`hydrate` or a retry; the executor's mark happens only when an agent submits a
proposal, and an agent need not. A property such as "an order's final state is
eventually learnt" would rest on an operator. The backtests are functions of finite
data.

## The proofs

The theorems hold for every value of the constants that satisfies the assumptions
below. Each rests on an inductive invariant, with one lemma per action. TLC agreed with
every property, and with the invariants whose sets it can enumerate, before a proof
was tried.

| Module | Theorem | States |
|---|---|---|
| `KiteBrokerProofs` | `InductiveInvariant`, `TypeCorrect` | `IInv`, `TypeOK` |
| | `IdempotentPlacement`, `WriteAhead`, `TrueFinalViews` | `AtMostOneOrder` (prompt wire), `StoreCoversOrders`, `FinalViewIsTrue` |
| | `CompleteHydration` | `HydrationIsComplete`, an action property |
| | `Refinement` | `KeepsPromise`: on a prompt wire `KiteBroker` implements `IdempotentOrders` |
| `OrderGateProofs` | `BooksAreBalanced`, `SizedBuysAreFilled` | `BooksBalance`, `SizedBuysFill` |
| | `KillSwitchIsExact`, `LimitsAreRespected` | `KillSwitchLatches`, `EntriesRespectLimits` |
| `ProposalExecutorProofs` | `OneEntryIsHeld`, `LevelsAreTight`, `CrossedLevelsAreEnforced` | `PositionIsOneEntry`, `LevelsNeverWiden`, `StopsAreEnforced` |
| `ShadowBacktestProofs` | `SessionIsTheBacktest`, `LevelsAreThePositions` | `SessionFollowsBacktest`, `LevelsFollowPosition` |
| | `CashIsExplained`, `StaleFeedOnlyExits` | `TradesExplainCash`, `StaleOnlyExits` |
| `TechnicalPortfolioProofs` | `SlotsAreEnough`, `PaceIsKept`, `PendingActionsFit` | `SlotsAreReserved`, `EntriesArePaced`, `PlansFitPositions` |
| | `CrossedLevelsAreExecuted`, `CooldownIsExact` | `LevelsAreExecuted`, `CooldownIsServed` |
| | `LedgerIsComplete`, `CashFollowsProfits` | `EveryEntryIsRecorded`, `ProfitsExplainCash` |
| `ScreenedPortfolioProofs` | `PositionsHavePlans`, `DecisionsStillFit`, `WhatPassesIsKept` | `PositionsAreWatched`, `DecisionsFit`, `PassingIsKept` |
| `ScriptsProofs` | `HonestLogin`, `SoundDataset`, `BackupsComplete`, `FaithfulManifest` | `LoginIsHonest`, `DatasetIsSound`, `ReplacedIsBackedUp`, `ManifestDescribesData` |
| | `AnsweredCalls`, `ReportedTrades` | `CallsAreAnswered`, `TradesAreReported` |
| | `PastMemory` | `MemoryIsOfThePast` |
| | `OutOfSampleTests`, `UndominatedSelection` | `TestsAreOutOfSample`, `SelectionIsUndominated` |
| | `BackedRecords`, `KeptRecords` | `RecordsAreBacked`; `RecordsAreKept`, an action property |

Every module but `PaperTradingProofs`, which only has lemmas, also proves
`TypeCorrect` (`ScriptsProofs` of `DailyUpdate`; the types of the review and of the
research tools are conjuncts of their invariants): no fill, mark, plan or file leaves
its type. In the paper account that
already says that neither cash nor a position is ever negative.

### Assumptions

They are the `ASSUME`s of the modules, which TLC evaluates on every instance, and say
what the code enforces or takes for granted:

* the ranges of limits and rates that `RiskLimits`, the broker and the configurations
  check (`AccountAssumption`, `LimitsAssumption`, `RatesAssumption`,
  `ConfigAssumption`), and a finite set of instruments (`HoldingsAssumption`);
* bars with positive prices whose open and close lie within them, as `validate_bars`
  demands (`BarsAssumption`, `DataAssumption`); in `ScreenedPortfolio`, that a
  candidate's stop is positive, which `screener.py` asks of one that passes;
* `WholePricesAssumption`: slippage leaves a fill at least one whole price. The models
  round fills down where the code keeps the fraction, so a price of one tick
  would become nothing there and not in the code;
* the ids: a day (and an instrument) with a kind, as the code builds them
  (`IdsAssumption`, `AccountOfOneAssumption`);
* bounds that are positive (`MaxDays`, `MaxConnections`), and tokens and marks that
  are told apart (`NoTokenAssumption`, `InstrumentsAssumption`);
* of the research tools: positive periods, a slow average longer than the fast one and
  two weeks in the weekly one (`PeriodsAssumption`, which `TechnicalPortfolioConfig`
  checks in `__post_init__`), bars of natural numbers (`ShapesAssumption`) and at least
  one of them (`MaxBarsAssumption`), at least one strategy (`CandidatesAssumption`), positive
  warmups (`WarmupsAssumption`), outcomes that are numbers (`OutcomesAssumption`),
  lists of known instruments (`ListsAssumption`), documents of three types
  (`DocumentsAssumption`). The proofs about the review use none.

`ScriptsProofs` extends three modules with a specification each: `Spec` of
`DailyUpdate`, `ReviewSpec` of `AgentReview`, `DeskSpec` of `ResearchDesk`. They share
no variable, and a theorem is about one of them.

### Adapter and store

That an id has at most one row rests on
the scan before a submission, which is skipped when the store has no entry: so
every row must have an entry in memory, hence in the file a restart loads
(`StoreInv`, with memory and file of the same footprint while the process is up);
on there being no row for the id of a call that is still `sending`, and on that
call's row being the newest when it is `accepted` (`CallInv`); and on no stray
requests (`PromptInv`). That a final view is true rests on a cached order pointing
at a row of its id, on fills never shrinking, and on closed rows never changing
(`SoundOrder`, `RowsKept`). `IInv` is their conjunction. With it each step maps to a
step of the register or to a stutter: `PlaceReturns`, a hydrate or a recovery is a
stutter where the order is already there, and a row that grows or closes is
`Progress`.

### Account, engine and executor

The books balance only if the placed orders can be summed, so `AccountInv` says that
they are finitely many; a fill adds one term. The engine decides on a peak, two
baselines and a switch, and the properties speak of the history of marks: `RiskInv`
says that the peak is the highest mark since the one in force at the reset, and that
each baseline is the equity of the first mark of its day or month.

In `ProposalExecutor` a stop that is hit twice on one day repeats an id and sells
nothing. The invariant (`Sound`) dates the orders: nothing was ordered after the
entry of what is held. So a repeated exit means a position entered on this very
day, which no property about carried positions forbids.

### Session and backtest

`SessionFollowsBacktest` is inductive with what the session's ids say (they name bars
that have passed, so none is taken) and with the backtest's cash. Each side is
first reduced to what it does on a bar (`SessionResult`, `RunResult`), and the two
are compared with a position carried and with none.

### Portfolio backtests

An action of `TechnicalPortfolio` waits for any number of bars, so its invariant
(`Inv`) speaks of positions and pending actions together: each instrument waits for at
most one thing, which fits what is held; positions and waiting entries share the
slots; the window counts those that wait as well as those that filled; and every id is
dated, so that what a bar submits is new and is filled, not repeated. A sale of several
positions is a fold; `SoldEach` says what it leaves. `Books` adds the ledger: each
record is of a known entry, entries and records are counted per instrument, and the
cash is the capital with the profits, less what the positions cost. Its steps
need that a sum over a sequence of records grows by what a list made from any order of
a set says (`CountJoined`, `SumJoined`).

In `ScreenedPortfolio` the decisions of a bar are executed one by one, and each may
change the positions. The invariant says that the instruments of the list are
distinct, that none was traded since the decision, and that a BUY passes the screen; the
latter gives a plan with two positive levels.

### Login and files

The login's invariant (`LoginInv`) says that the pair it works with was delivered to
its own server as a success. For the files the heart is what one run may rely on while
others write the same names (`AloneInv`), that two runs which write are both not alone
(`Apart`), that the dataset is the one backed up until another run replaces it, and that
what is about to be written is what `validate_bars` let through (`FetchedIsUsable`),
however the history is cut into requests and whatever one of them answers.

The attempt corrected the model: with three runs that overlap, a run could replace the
dataset between another's manifest and its rename without being marked in the history
variable that `ManifestDescribesData` excuses, which an instance with two runs
cannot show. The marking now includes every run that is between the two (`Staled`).

### The daily review

A conversation is answered, in the sense of both providers, except for the calls that
wait; and these are the results so far and the calls that are pending, in the order in
which the model made them (`ConversationInv`). What `ToOpenAI` makes of a longer
conversation is what it made of the shorter one and the new message (`FlattenLast`).
`TradesAreReported` needs what a conversation knows of its trades (`TradeInv`): one that
it does not know of was made by a tool whose result could not be written, and ended it
as failed.

### The research tools

A rolling window holds the last values of a series, and their sum (`WindowIs`): a value
more keeps that (`PushKeeps`), since what leaves is what is subtracted. The series are
those of the bars the state is caught up with (`StateOf`); however many bars came
since, the fold over them makes it the state of them all (`CaughtUpKeeps`), and of such
a state the snapshot is that of `features/technical.py` (`SnapshotIs`), too few bars
included. That the weekly series may be built from bars that have not arrived rests on
the weeks never falling: every bar of a week before the present one has arrived, and
each has at least one (`WeeksThatAreOver`).

The windows of a candidate are the first ones, each a step behind the one before, and a
candidate that is done has all that fit (`WindowsInv`), so any two have the same. That
somebody is chosen when somebody is eligible rests on the comparison of scores being
total and transitive, although they are quotients (`ScoresCompare`).

Of the collectors, `CollectInv` says what a run may rely on: its record's document is in
the archive from the moment it is to be written (`Filed`, which no step undoes), its
entry was not in the list when it looked (`OwnInv`), and if no other run came between,
the list is the one it read and the temporary file its own (`LonelyInv`). Every file
holds one record per instrument, torn or not.

This attempt corrected a property: `RecordsAreKept` said that a run without `--refresh`
replaces no record that was there when it *started*. The web collector looks before each
entry, and with three runs a record can vanish in a lost update and come back between:
then it replaces one that was there at its start. The property now speaks of
what a run saw when it looked (`found`), which is what the code compares.

### How induction over data is done

The library's induction theorems take operators, which the provers cannot
instantiate. Sums, folds and flattened sequences are therefore treated from their
definitions: the function they choose exists, two such functions agree, and both facts
follow from a least counterexample (`LeastNat`, `LeastSubset`).

### What stays with TLC

* `UpdateEnds` and `ReviewEnds`: liveness under fairness.
* The properties that are expected to fail, for which TLC has traces.

## What is not modelled

* Other applications' rows in the order book, whose tags match no id, and
  collisions of tags (20 hexadecimal digits of a hash).
* The exchange clearing its order book each day. Ids carry the bar's date, and
  no caller retries an id of another day.
* `positions` and `cash_balance` of the Zerodha adapter, and the comparison of
  them with expectations, which no caller supplies.
* Average prices of the paper broker, which decide nothing; fractions of a price in
  `BarLevels` (fill prices are rounded down).
* The reports of the technical-only backtest. Its market regime and active universe
  are part of what a bar says of itself. Instruments without fundamentals, which the
  screener never buys.
* Executor, session and backtester with stop or target switched off; commission
  above 100%; a backtest that starts after the first bar; statistics and reports.
* Relative strength, volatility contraction, scores and rankings, the two strategies'
  averages, and the parsing of documents: where a strategy, a ranking or a model
  decides, the specifications allow any decision. The Sharpe ratio and the other
  metrics; `evaluation.py`'s reports.
* The texts of prompts and replies, and the count of web searches. What a search
  answers is one record or an error.
* The MCP server, which registers the toolkit's methods with a protocol library;
  configuration and logging; the filters of universe, liquidity and fundamentals; the
  CSV loader and the calendar; the other operator scripts, which are command lines
  and tables around modelled components.
* Windows' refusal to rename an open file, which ends a run where `DatasetFiles` lets
  it go on; the permissions of the session file; a torn manifest, which nobody reads.
* A candle of the running day: a refresh before the close stores it as a bar, and
  nothing compares `available_at` with the clock.
* Liveness of the order path, for the reason above.

## The plan

The modules and their runs are done, and every safety and action property that a run
checks has its theorem. What is left would make them say more:

1. The safety half of `UpdateEnds` and `ReviewEnds`: a count of the steps a run or a
   conversation has left, which each of its steps lowers.
2. An abstract list of fundamentals (a record per instrument, put or left as it is) that
   a collector implements as long as no other run comes between its read and its write,
   as `IdempotentOrders` is for the adapter.
