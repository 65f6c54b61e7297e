# A TLA+ development of crypto-rs-backtester

The repository is a discrete-event backtester for trading strategies: it replays
market data against a simulated exchange, with latencies between the market, the
exchange and the strategy, and with models of the queue a limit order waits in.
This directory holds TLA+ modules of its Rust core (`backtester-core`), the TLC
configurations that check them on small instances, and theorems that TLAPS
proves for every instance. Paths below are relative to the repository's root.

## 1. Inventory: the parts of the system

But for one reader thread per input file, all of the core runs in one thread. Its
difficulty is less parallelism than simulated concurrency: market, exchange and strategy act at different times on
one queue of events, each sees the others late, and orders, cancels, fills and
reports are in flight between them.

| Part | Source | State | Operations | Hard behaviour | What makes it correct |
|---|---|---|---|---|---|
| Engine | `engine.rs` | clock, event queue, routes `order -> symbol`, exchanges, account, risk guard, market view, batch buffers, timer, deferred wakeup | `run`, `step` (one handler per event kind), `handle_commands`, `flush_strategy` | interleavings of events of equal timestamp, latencies, batching with timers and deferred wakeups, commands issued from callbacks | orders, routes and exchanges agree; nothing is lost or told twice; clock monotone; no look-ahead; deadlines |
| Exchange simulator | `exchange_simulator.rs` | L2 book, live orders, (price, side) index | `submit_order`, `ack_new`, `cancel_order`, `ack_cancel`, `on_trade`, `fill_market_immediately`, `force_cancel_partial_fill`, `remove_order`, `apply_l2_update`, `mark_price` | a trade while a cancel is in flight; reports of one order from several calls | quantity conserved, index coherent, final states final, legal transitions |
| Queue models | `queue_model.rs` | per order: quantity ahead, or volume and claim | `register_order`, `check_fill` | volume cut into trades, boundary at the end of the queue | fills are a function of the volume past the queue position |
| Event queue | `event_queue.rs`, `event.rs` | binary heap of (timestamp, sequence number) | `push`, `pop` | ties | a stable queue |
| Account | `account.rs` | positions | `on_fill`, `apply_funding` | partial close, flip | position is the sum of the fills |
| Risk guard | `risk_guard.rs` | kill switch, running profit and loss | `check_order`, `update_pnl` | what it reads may be late | limits hold; after a kill no order is accepted |
| Types | `types.rs` | - | `can_transition_to`, `is_terminal` | - | the state machine of an order |
| L2 book | `orderbook_l2.rs` | levels | `apply_l2`, best bid and ask | - | - |
| L3 book, L3Exact | `orderbook_l3.rs`, `queue_model.rs` | venue's orders in FIFO order; orders ahead | `apply_l3`, `on_l3_update` | a trade and its book update both shorten the queue | the quantity ahead is what is left of the orders ahead |
| Sources | `tick_source.rs`, `l3_source.rs`, heaps in `engine.rs` | one row of look-ahead per source | `new`, `peek`, `next`, `advance` | merge of streams with equal timestamps; a column or a row that cannot be read, in the middle of a file | one order, whatever the batches; an end that is complete or an error |
| Reader thread | `io.rs` | bounded channel | `AsyncBatchIter::new`, `next` | the only real concurrency of the core | every batch once, in order, end only at the end |
| Batch tuner | `tuner.rs` | longest batch, its limits, batches since the last adjustment | `new`, `record_batch` | floor and ceiling that change places; the deadline of an open batch moves | stays within the limits; a fast batch never shortens the next |
| Trade log, statistics | `stats.rs` | fills or a ring of them, profit-and-loss history, running statistics with positions of their own | `push_fill`, `push_pnl_delta`, `push_pnl_event`, `calculate_stats` | a second ledger next to the account's; fills that are dropped; the same ratios computed four ways | both ledgers agree; profit is cash; every way gives the same statistics; what is kept is the last |
| Latency, random numbers, sweep, NUMA, Python | `latency_model.rs`, `rng.rs`, `sweep.rs`, `numa.rs`, `backtester-py` | - | - | - | - |

How they interact: the engine owns everything and is called by `run()`. It pulls
ticks from a source, pushes two events for each (the exchange's at `ts_exchange`,
the strategy's at `ts_local`), pops the earliest event, calls the exchange of the
event's symbol, books the fills in the account and the risk guard, and pushes the
reports as later events. The strategy is called back with a tick or a report (or
with a batch) and answers with commands; the engine checks orders against the
risk guard and pushes them, and cancels, as events.

## 2. Modules

Each action is a whole handler, with all it calls. `EXTENDS` follows the calls.

| Module | Models | How it corresponds |
|---|---|---|
| `OrderTypes` | `types.rs` | order states and `LegalTransition`; `Insert` and `Erase` are the hash-map updates |
| `OrderBookL2` | `orderbook_l2.rs` | a book maps side and price to a quantity, 0 for a level not in the map |
| `QueueModels` | `queue_model.rs`, level-based models | `CheckFill` returns the fill and the new queue state |
| `Exchange` | `exchange_simulator.rs` | one operator per method on a record; `Can...` is the method's `Ok` condition |
| `ExchangeSimulator` | one simulator and the calls it may get | one action per engine handler seen from the exchange; its guards are the `debug_assert!`s |
| `QueueModelEquivalence` | two simulators in lockstep | the same calls under the two queue models |
| `Events`, `StableQueue` | `event.rs`; what the engine needs of a queue | a sequence of events, `Enqueue` inserts an event behind all that are due no later (`DueBy`) |
| `EventQueue` | `event_queue.rs`, `Engine::push_event` | a set of entries, `Pop` takes a top of the heap; refines `StableQueue` |
| `OrderBookL3`, `L3ExactQueue` | `orderbook_l3.rs`; `L3ExactQueue` of `queue_model.rs` | a level is the sequence of its orders in line; the model keeps the orders ahead and, apart, their total |
| `L3Exchange` | one simulator in L3 mode | extends `Exchange`; a venue with its own book (external) shows each event as L3 updates and ticks, one message per step, the strategy's calls fall between them. Market orders take from the levels added up from the L3 book (`LevelsOf`), or fill at the last trade's price (`truth`) |
| `FeedMerge` | what the sources promise | the rows of all files in one order, without threads and batches |
| `Sources` | `io.rs`, `tick_source.rs`, `l3_source.rs`, the heaps and the merge in `engine.rs` | one thread and one channel per file; `ShowRow`, `Refuse...` and `Receive...` are `advance()`: a batch's columns are looked up under their names and cast, a row's side is decoded, each may fail; `Ingest` is one choice of the ingest loop; refines `FeedMerge` |
| `Account`, `RiskGuard` | `account.rs`, `compute_fee`; `risk_guard.rs` | positions and limits as operators, division truncates as in Rust |
| `Ratios`, `Statistics` | `f64` values as exact fractions; the pure part of `stats.rs` | what a fill does to a symbol's bookkeeping, equity curve, drawdown, Sharpe and Sortino in a loop, in lanes and in parallel. A ratio over a standard deviation is kept as mean and variance, so no root is taken |
| `TradeLog` | `TradeLog`, `IncrementalStats` of `stats.rs` | a log is a record; `PushFill`, `PushPnl` are its methods, `BatchStats` is the reference of the unit tests |
| `Ledger` | what `engine.rs` does to account, risk guard and log in one event | `TickFills` enters the fills of a tick (log first, then each in the account and its net result in log and guard), `FundingPayment` a funding event |
| `BatchTuner` | `tuner.rs` | a tuner is a record; `Engine` keeps one and calls it (`Tune`) at each flush |
| `Engine` | `engine.rs` | `Ingest` is one round of the ingest loop, one action per event kind, `FinalFlush` and `Returned` are `run()` |
| `EngineProperties` | - | properties of the engine |
| `EngineRefinement` | - | the engine seen from the exchange of one symbol, any one (`Symbol`): that exchange as an instance of `ExchangeSimulator` |
| `MCEngine`, `MCSources`, `MCLedger` | - | the small instances |
| `Selection` | - | the entries of a sequence that lie in a set; shared by the models |
| `FoldTheory` | - | theorems about the library's `FoldLeft`, and induction over sequences (section 4) |
| `ExchangeLemmas`, `ExchangeProofs` | - | lemmas about `Exchange`; the theorems of `ExchangeSimulator` and of `QueueModelEquivalence` |
| `L3Proofs` | - | lemmas about the operators of `L3ExactQueue`, `OrderBookL3` and `L3Exchange`; the theorems of `L3Exchange` |
| `EngineProofs` | - | lemmas about the operators of `Engine` and `BatchTuner`, and their theorems |
| `ReportProofs` | - | on top of `EngineProofs`: the reports on their way to the strategy, and the refinement of `EngineRefinement` |
| `EventQueueProofs`, `LedgerProofs` | - | the theorems of `EventQueue`, of `Ledger` |

Abstractions. Quantities, prices and timestamps are integers; the code's are
`i64` in fixed point, and its saturating operations at the ends of `i64` are out
of reach of the modelled quantities. The strategy is unknown: every callback may
issue any commands from a small set. `seen` in `Engine` is not state of the code
but what the strategy was told. The names in `ts_local`, `flags`, `client_order_id`
and `reason` that no handler reads are left out. Definitions commented `Faulty` are
plausible mistakes, kept to show that a property notices them; nothing uses them.

## 3. Runs

| Run | Module / cfg | Shows |
|---|---|---|
| `exchange` | `QueueModelEquivalence` / `MCExchange` | two simulators in lockstep that differ in the queue model, under all legal calls: quantities, index, queue positions and final states stay right in each, and Conservative and VolumeClock fill and report alike |
| `event_queue` | `EventQueue` / `MCEventQueue` | the heap implements the stable queue |
| `engine` | `MCEngine` / `MCEngine` | eight invariants and three action properties of the whole engine; no deadlock before `run()` may return; `ImplementsExchange`: the calls the engine makes on its exchange are those `ExchangeSimulator` is written, checked and proved for; `OrdersAnswered`: every order is answered |
| `l3_queue` | `L3Exchange` / `MCL3` | the L3 book follows the venue; the queue ahead is exact when a trade is shown before its updates, and never too long otherwise; market orders take no more than they ask for |
| `sources` | `MCSources` / `MCSources` | whatever the threads and the batches, the feed is the merge of the files, complete unless it fails; it comes to an end, and no thread outlives the engine |
| `trade_log` | `MCLedger` / `MCLedger` | account and trade log agree on every position; realised profit is cash but for rounding; the kill switch follows the equity curve; the running drawdown is the worst fall of the curve; all ways to compute the statistics give the same; each mode retains what it says |
| `cancel_race` | `ExchangeSimulator` / `MCCancelRace` | violation, finding 1 |
| `position_limit` | `MCEngine` / `MCPosition` | violation, finding 2 |
| `deferred_wakeup` | `MCEngine` / `MCWakeup` | violation, finding 3 |
| `l3_ids` | `L3Exchange` / `MCL3Ids` | violation, finding 4 |
| `l3_batches` | `MCSources` / `MCSourcesCut` | violation, finding 5 |
| `round_trips` | `MCLedger` / `MCRoundTrips` | violation, finding 6 |

Bounds, and why they are enough for what is asked:

- `exchange`: two orders of one or three units share one bucket or face each
  other, one price, levels and trades of up to two units: a trade can end inside
  the queue ahead, at its end, inside the order, and beyond it, and an order takes
  more than one trade to fill; removal happens at either place of a bucket. The
  theorems remove the bounds.
- `event_queue`: five pushes at three timestamps with two kinds of events, so
  that up to five events tie.
- `engine`: three ticks (`MaxTicks`), two orders (`MaxOrders`), two cancels
  (`MaxCancels`), two commands per callback (`MaxCommands`), one symbol, order
  latencies 0 and 2 against a feed latency of 1 or 2 and report latencies of 0
  and 1, so that acknowledgements, cancels and reports overtake ticks and tie
  with them. Three configurations: ticks, batches of two units, and tuned batches
  whose configured length (1) lies below the tuner's floor (2), where the tuner
  takes the floor for its ceiling; with an interval of 2 it adjusts within a run.
  Cancels may name orders that do not exist (yet). The situations the
  properties are about were found to occur: a kill with open orders and with
  orders in the very callback, partial fills with a cancel in flight, deferred
  wakeups, two acknowledgements of one order's cancels, a partial market fill.
- `l3_queue`: one side with two prices, three orders of the venue, four changes,
  deletions and trades (`MaxVenueOrders`, `MaxChanges`), one order of the strategy:
  a limit order on the venue's side or a market order on either, one of which
  meets the venue's levels and the other an empty side. A trade can end inside an
  order ahead, at its end, inside the strategy's order and beyond it; orders can
  join the line behind it, leave the level empty and change price by a deletion
  and an addition. The simulator keeps no state that two orders of the strategy
  share, so one is enough.
- `sources`: two tick files and one L3 file of up to three rows with equal
  timestamps, with and without `seq`, in one or more batches, with empty batches,
  empty files, errors in the middle, a row of no known side, a batch that has its
  timestamps under both names, one of them with a null; a channel that hands over
  (`Readaheads` 0) and one that holds a batch.
- `trade_log`: four fills, at most two of them in one tick, and one funding
  payment (`MaxFills`, `MaxTickFills`, `MaxFundings`) in all four modes and rings
  of one and two fills, with and without fees and a loss limit. The trades open,
  add at another price (whose average is rounded), reduce with a profit and with
  a loss, close, flip, and go to a second symbol. A scale of 2 makes divisions
  inexact; two lanes (the code has four) give series with whole groups and a
  remainder; more than three entries (10,000 in the code) take the parallel way.
- The counters a run could grow without bound (`ingested`, `next_order_id`,
  `cancels`) are bounded in the guards of the unknown environment only.

Deadlock is checked except where the modelled system really stops: the event
queue when `MaxPushes` is used up and the heap is empty, the L3 exchange when the
venue has used its bounds, the books when the fills are used up, the sources
when the feed has ended or the engine is gone. (`FeedEnds` and `ThreadsEnd` say that they stop nowhere else.)

Two limits of what `l3_queue` says. The code updates the queue only of orders in
`PendingNew`, `Open` and `PartiallyFilled`, so an order that was kept from an update
while its cancel was in flight keeps a queue that is too long; `QueueExact` and
`NeverTooFarBack` leave out exactly these orders (`missed`). And when the feed shows
a trade's updates before the trade, `check_fill` takes the volume off a second
time, so an order may fill too early; for such feeds only `NeverTooFarBack` holds.

Three limits of what `trade_log` says. Its numbers are exact fractions, so it
compares formulas and not the rounding of `f64`. `Comparable` says in which runs the
running statistics and the batch reference are meant to be equal; where they
differ on purpose (fees, closes in the instant of opening, a drawdown of the
whole) nothing is asked. A ring of
capacity 0 is left out: `TradeLogMode` says it keeps only the last N fills (`stats.rs:41`,
`docs/SPEC.md` 6.6.4), but `push_fill` (`stats.rs:269`) finds nothing to drop before its
first push and so keeps one. `RetainsTheLast` and its theorem ask nothing of the fills
in such a ring (`HasRoom`); `Retain` models it as the code has it.

Fairness. In `engine`, `run()` is a loop, so it returns or
steps for ever (`FairSpec`). It is weak fairness of the next-state relation as a
whole, nothing about particular events. `OrdersAnswered` needs no more: time cannot
pass an event in the queue. In `sources`, each reader thread and the engine's
thread are scheduled: weak fairness of each thread's step and of the engine's
step. A waiting `send` or `recv` is a step that is not enabled. Nothing is assumed
about `Drop`. The other runs assume no fairness.

### Findings

1. `on_trade` takes a partially filled order from `PendingCancel` to
   `PartiallyFilled` (`exchange_simulator.rs:386`). `can_transition_to`
   (`types.rs:95`) and the diagram in `docs/SPEC.md` 3.2 have no such edge. The
   cancel's acknowledgement then fails, no report is made, the order stays.
2. `max_position` (`engine.rs:57`) is checked per order against the booked
   position (`engine.rs:866`); two orders in flight pass and exceed it together.
   In the run these are two market sells of two units that one callback submits
   under a limit of two: both are accepted at position 0, and when the second is
   acknowledged the position is -4.
3. A wakeup that was deferred because more events share the timestamp is skipped
   when the last of them is a cancel of an order without a route
   (`engine.rs:747` returns before the check at `engine.rs:841`). The report stays
   buffered until a later event, against `docs/SPEC.md` 2.2.
4. `orders_ahead` stops at a venue order whose id is that of the strategy's order
   (`orderbook_l3.rs:91`), though its comment says the snapshot is the full level.
   The engine numbers orders from 1, so ids can coincide; the order then
   registers with too little ahead of it. `l3_queue` keeps the ids apart.
5. The fallback for a missing `seq` is the row's index in its record batch
   (`l3_source.rs:109`), not in the file. The same rows cut into other batches give
   another feed, against `docs/SPEC.md` 6.2. `sources` has files without
   `seq` in one batch only.
6. `win_rate` counts fills, not round trips: every fill that reduces a position with
   a result adds to `closed_trades` (`stats.rs:129`), against `stats.rs:967` and
   `python/tests/test_e2e_stats_basic.py:73`, which say that it is per closed round
   trip and not per fill leg.

## 4. Proofs

Every theorem holds for all values of the constants that the named assumptions
allow: any set of prices, order ids, quantities, levels, trades and timestamps,
finite or not. `TLC` evaluates the assumptions in the runs.

**Folds and induction** (`FoldTheory`). Trades, commands, fills and messages are
applied one after the other, and the models write that as `FoldLeft`. `FoldLeft` is
defined by a recursive function over a set of indices. `FoldTheory` proves, for any
operator `Op`, what it gives for no entry, for one more entry and for two sequences
in a row (`FoldOfEmpty`, `FoldOfAppend`, `FoldOfConcat`), and that it keeps what
each entry keeps (`FoldKeeps`). The provers cannot use an induction theorem with a
predicate for a parameter. So induction is stated about sets: a set that holds 0
and with each number the next holds all of them (`NatSetInduction`), a set that
holds the empty sequence and with each sequence its extensions holds all of them
(`SeqSetInduction`); the predicate of an induction becomes the set it is true of.
A module that has a fold takes the theorems by `INSTANCE FoldTheory WITH Op <- ...`.

**One simulator** (`ExchangeProofs`; assumptions `ExchangeAssumption`,
`PricesAssumption`). It is always well-typed (`TypeCorrect`), conserves
quantities (`QuantityIsConserved`), keeps its index coherent
(`IndexIsCoherent`), fills exactly what each queue model promises
(`VolumeClockIsExact`, `QueueComesFirst`) and never changes a finished order
(`TerminalIsFrozen`). By `EngineImplementsExchange` (below) every exchange of the engine is
such a simulator.

The argument. None of the invariants is inductive alone: a fill keeps `filled +
remaining = qty` only if the queue model's answer is at most `remaining`, which for
VolumeClock needs `claimed = filled`, and the answer is a natural number only if the
queue state is well-typed. The invariant `Good` (module `ExchangeLemmas`, predicate
`GoodExchange`) therefore says per order that type, conservation and the two queue
models' relations hold together, that an order before its first fill has none, and
that the index is coherent. `CheckFillBounds` bounds the queue models' answers;
`AnswerKeepsGood` carries one order through one trade; then there is one lemma per
method (`SubmitOrderGood`, `RemoveOrderGood`, `OnTradeGood`, `FillMarketGood`, ...),
and `NextGood` has one step per action. `RemoveOrderGood` is where the uniqueness of
index entries is needed: the code removes the first entry that names the order.
`NextFreezes` proves the action property from the same lemmas.

**Two queue models** (`ExchangeProofs`, same assumptions). `ModelsAlwaysAgree`:
a strategy cannot tell Conservative from VolumeClock by its orders.
`ModelsAgree` says nothing of queue states, so it is not inductive. The
invariant `Matched` adds what relates them (`Alike`): the conservative quantity ahead
is what the volume clock's traded volume has left of its quantity ahead, and
a market order never waits for a trade. With `Claimed` from the first proof this
makes the two answers to a trade equal and keeps the relation (`AnswersAgree`);
then again one lemma per method. `SameMethods` identifies the operators of the
instance `T` with the module's own. `FillsAlwaysAgree` is about the fills of the
next trade order by order; `ReportsAlwaysAgree` puts them in the order in which the
bucket is walked, which needs that both walks select the same ids.

**The order-by-order simulator** (`L3Proofs`; `L3Assumption`). All six
invariants of run `l3_queue` are theorems. They need four inductive invariants, each
on top of the first:

- `SoundState`: the simulator, its book, the venue's book and the pending messages are
  well formed, and an order's counter is the sum of the list it is about unless the
  order is first in line for good. From it `L3TypeCorrect`, `AheadAlwaysAddsUp`,
  `FirstOnceFilledForGood`.
- `FollowInv`: the simulator's book with all pending messages applied (`Seen`, a
  fold) is the venue's, no number stands in two places, and an addition is pending
  only alone. The property `BookFollowsVenue` speaks of the moments when nothing is
  pending; between them the two books differ, so it is not inductive. The hard step
  is a trade: the updates the venue sends for it, applied one after the other to the
  old line, give the line that the trade left (`BookAlwaysFollows`).
- `ExactInv`: with trades shown before their updates, an order's list is the front of
  the simulator's line or, after the trade and before the updates, already the front
  of the venue's, and every pending update finds it settled. `QueueAlwaysExact` assumes
  `NumbersApart`: ids of the venue and of the engine do not coincide. That is
  the condition finding 4 is about, and run `l3_ids` shows that the theorem is false
  without it.
- `UnderInv`: whenever a trade is shown, and with shared numbers too, an order's list,
  in order, is no longer and nowhere larger than the front of the simulator's line
  (`Under`). From it `AlwaysNeverTooFarBack`.

**The event queue** (`EventQueueProofs`, `EventQueueAssumption`). From the invariant
that sequence numbers are distinct and below the next one: the heap never has two
greatest elements (`PopHasNoChoice`), and what leaves comes before all that stays
(`LeavesInOrder`). A backtest is therefore a function of its input.

**The ledgers** (`LedgerProofs`, `LedgerAssumption`). One fill first: from equal
positions, `account.rs` and `stats.rs` come to equal positions
(`PositionsStayEqual`) and results (`ResultsAreEqual`), though one divides signed
and the other absolute quantities. Then whole runs. What a log keeps is kept entry by
entry, and what the properties ask for is a function of all entries so far. The
invariant `BooksInv` says that each kept value is what the fold over the entries
gives: totals are sums, the drawdown is the worst fall of the curve, the ring is the
suffix of the fills, the guard has fired when a partial sum reached the limit
(`BooksCorrect`). From it come `LedgerTypeCorrect`, `LedgersAlwaysAgree`,
`KilledExactlyAtLoss`, `LogRetainsTheLast` (rings that have room for a fill) and
`DrawdownIsTheWorst`, for any number of fills, funding payments and fees. The ratios of the drawdown are compared by cross
multiplication; their order is total and transitive because denominators are positive.

**The engine** (`EngineProofs`; the assumptions above on prices and the tuner, and
`EngineAssumption`: configurations, ticks, orders, latencies and bounds are
any natural numbers; what is pushed before the run is depth and funding, every tick
comes from the source). Six invariants and two action properties of run `engine` are
theorems: `EngineTypeCorrect`, `RoutesAreCoherent`, `NothingIsStuck`,
`OpenOrdersAreBounded`, `NothingIsSeenAhead`, `BatchesHaveDeadlines`,
`ClockNeverGoesBack`, `KillsForGood`. They share one inductive invariant, `EngineInv`,
with these parts:

- `QueueFrom`: the queue is sorted and holds nothing earlier than the clock, and every
  waiting tick has its delivery behind it. A push goes behind what is due no later, so
  both survive each push and pop; the clock theorem is the pop of a sorted queue plus
  `SourceInv` (a tick of the source is never in the past).
- `Life`: every order id is at one of three points. `Gone`: no route, in no exchange, no
  order event and no acknowledgement waits. `Sent`: routed, in no exchange, with one
  order event, for the route's exchange. `Placed`: live in the exchange of the route and
  nowhere else, with exactly the events under way that its state asks for (`Fits`).
  `RouteCoherent` and `NothingStuck` are two views of it, neither inductive: the
  first says nothing of acknowledgements, so a second acknowledgement could
  enter; the second says nothing of orders that are not live, whose events decide about
  them later. The counts of events are cardinalities of sets of places; `PushAll`,
  `PopKeeps` and `TimesAfterEnqueue` say what pushes and pops do to them, and
  `SameEvents` says that a step about one order leaves all others' counts alone.
- `DeskInv` puts both together with the ids and the bound on open orders, for the desk a
  callback works on. `HandleCommandsKeep` is the induction over the commands of a
  callback; it also shows that a killed run routes none of them.
- `Buffered`: a buffered tick has its wakeup owed, or the alarm of the active timer waits,
  due within `LongestBatch` of the first tick; with `TuningInv`, the limits of the
  tuner, since the configured duration is what the tuner last chose.
- `BooksInv`, `SeenInv`: each exchange is a `GoodExchange` (first proof), positions and
  guard have their types, and the strategy was shown nothing from the future.

`FlushKeeps` and `EndStepKeeps` are the flush check that ends every step, in its three
outcomes. Then there is one lemma per action of `Next` (`TickProceeds`, `OrderAckProceeds`,
...): the step keeps `EngineInv`, does not move the clock back and obeys the kill
switch. The hard ones are `HandleTick`, where a trade ends any number of orders at
once and each must get exactly one final report (`TradedIdsAre`: the walk over the
bucket meets each id once), and the acknowledgement of a market order, whose two
reports end it once. TLC checked `EngineInv`, over the ids the instance uses, as an
invariant of run `engine`'s instance before it was proved.

**The reports** (`ReportProofs`; the same assumptions). What the strategy knows of an
order is history, and `EngineInv` has none. The properties about it compare what was
told with the exchange, and what lies between the two is on its way: in the buffer and in
the queue. So the proof is about the `Outlook` of an order: what the strategy was
told of it, with the buffered and then the waiting reports added one by one (two folds).
The invariant `ReportsInv` says of every order:

- the outlook was never out of order: each report on its way adds its fill to the filled
  quantity before it, and none follows a final one (`Follows`);
- it ends with what became of the order (`Agrees`): the quantity filled and a state the
  exchange has or passed last, or a final state if the order has left, or nothing yet if
  the order is still on its way;
- what was told so far adds up (`SoundTold`); every report is about an order that was
  given out, and none is due later than one made now would be, so that a new report goes
  behind all others: `EnqueueReports` keeps the order of reports, whatever else waits,
  because their latency is one constant and the clock does not go back. With a latency
  that varied, this is what would fail.

`ReportsHold` is that invariance: a callback moves the buffer into what was told
(`TrailOfTell`), a popped report moves from the queue to the buffer
(`ReportPoppedTrail`), and a handler adds to the end of the outlook just what it did to
the order (`TickTrail`, where one trade reports on several orders and each report must
tell the fill of its own order; `AckMarketTrail`, with two reports in a row). From it:
`ReportsComeInOrder`, since the next report told is the first on the way of an outlook
that is in order; and `RunsStopClean`, since with nothing on the way the outlook is what
the strategy knows, and `Fits` leaves no order waiting. TLC checked `ReportsInv` as an
invariant of run `engine`'s instance before it was proved.

**The exchanges of the engine** (`ReportProofs`, with `SymbolAssumption`).
`EngineImplementsExchange`: the exchange of any symbol, with any others beside it,
implements `ExchangeSimulator`. Every step of the engine is one action there or
leaves that exchange alone (`StepObserved`, one lemma per handler that calls an exchange).
The guards there are the contract of the methods, and each needs an invariant: a new order
is in no exchange yet (`Sent`), an acknowledgement finds its order in `PendingNew`
and an order is removed only in a final state (`Placed`, `Fits`); and the inputs there are
sets, which needs that each event on its way carries a trade of the feed, an order of the
strategy or a quantity of a preloaded update (`Stray`) and that no id exceeds `MaxOrders`.

**The tuner** (`EngineProofs`, `TunerAssumption`). A new tuner is within its
limits however floor and ceiling lie (`NewTunerWithinLimits`), and no batch takes it
out (`RecordBatchWithinLimits`); a fast batch never shortens the next and a
slow one never lengthens it.

Only model-checked. Liveness (`OrdersAnswered`, `FeedEnds`, `ThreadsEnd`): the prover
does not handle it under fairness. The refinements `ImplementsStableQueue` and
`ImplementsMerge`: their mappings choose among sorted sequences or among entries of
a set. Of `Engine`, `FillsAccounted`: `ReportsInv` compares the reports of one order
with its exchange, but a position is a sum over all orders, and sums over a set of ids are
defined recursively with an operator for a parameter. Of `Ledger`, `ProfitIsCash` (an
error bound over a sum of truncated divisions), `BackendsAgree` and `MatchesBatch`
(equalities of recursively defined statistics). `EndIsComplete` of `Sources`.

## 5. Not modelled, and what is left

Not modelled, and why:

- `f64` rounding in the statistics, the log-normal sampling of latencies, the random
  numbers, the GPU backend: floating point. Latencies are any natural numbers of a
  set; a negative one is not rejected by the code and not in the model.
- Python bindings, sweeps, NUMA pinning, fixtures: conversion and independent runs,
  without state that two parts share.
- The cursor into a memory-mapped file, and a reader thread that panics.
- Strategy errors: they end `run()`, and the engine is not used again.
- Ticks whose `ts_local` lies before `ts_exchange`: input errors the code does not
  reject; the model's feed has none.

Left:

1. `Engine` takes its feed from the environment in the order `FeedMerge` allows, in L2
   mode and for one symbol; its composition with `Sources` and `L3Exchange` multiplies
   state spaces that are each near what a run can afford. With it would come the
   check that the L2 and L3 depth of a symbol are not mixed, at ingest and in the simulator.
2. The engine's books are those of `Ledger` step by step: a refinement like
   `ImplementsExchange`, once the model of the engine keeps the log.
3. A proof of `FillsAccounted`, from `ReportsInv` and a theory of sums over sets of ids.
