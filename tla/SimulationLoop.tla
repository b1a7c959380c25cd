--------------------------- MODULE SimulationLoop ---------------------------
(***************************************************************************)
(* SimulationLoop::run (backtest/src/simulation.rs): the event loop of the *)
(* backtest of a built-in strategy. For each item of market data it lets a *)
(* trade hit the resting orders, asks the strategies for signals (or takes *)
(* the last ones again while the price stands still), cancels what it had  *)
(* placed, has the risk manager check the account and every signal, and    *)
(* submits the signals to the book. It is one thread; an action is a phase *)
(* of the body of the loop, and "pc" names the phase that comes next.      *)
(*                                                                         *)
(* The book is Book's, and holds nothing but the loop's own orders. What   *)
(* the risk manager and the strategies answer is any of their answers, and *)
(* the portfolio is only told of fills.                                    *)
(***************************************************************************)
EXTENDS Book

CONSTANTS
  Prices,       \* the prices of trades, candles and limit orders
  TradeSizes,   \* the quantities of trades
  Batches,      \* what the strategies may answer: sequences of [kind, price, qty]
  Latency,      \* BacktestConfig::trading.latency_ms
  MaxSkip,      \* max_skip_ticks of the detector of stable regions
  MaxTicks      \* bound on how many items of market data there are

(* A signal without a price is a market order. It has the price 0, and so  *)
(* has the order it becomes.                                               *)
NoPrice == 0

ASSUME LoopAssumption ==
  /\ Prices \subseteq Nat \ {NoPrice}
  /\ TradeSizes \subseteq Nat \ {0}
  /\ Latency \in Nat /\ MaxSkip \in Nat /\ MaxTicks \in Nat

VARIABLES
  pc,         \* the phase of the loop
  ticks,      \* items of market data taken so far
  now,        \* the timestamp of the item
  price,      \* current_market_price, NoPrice before there is one
  book,       \* the order book
  active,     \* active_order_ids
  trackers,   \* order_trackers: when an order was placed, by its id
  runs,       \* how often the strategies were run
  signals,    \* last_signals
  queue,      \* the signals of this item that are still to be handled
  halted,     \* trading_halted
  trigger,    \* StableRegionDetector::last_trigger_price
  skips,      \* StableRegionDetector::ticks_since_update
  ordered,    \* history: quantity submitted under an id, all submissions together
  applied,    \* history: quantity of the fills of an id handed to the portfolio
  swept       \* history: ids that match_all_orders executed

detector == <<trigger, skips>>
strategies == <<runs, signals, trigger, skips>>
vars == <<pc, ticks, now, price, book, active, trackers, runs, signals, queue, halted,
          trigger, skips, ordered, applied, swept>>

Init ==
  /\ pc = "data" /\ ticks = 0 /\ now = 0 /\ price = NoPrice
  /\ book = EmptyBook /\ active = {} /\ trackers = <<>>
  /\ runs = 0 /\ signals = <<>> /\ queue = <<>> /\ halted = FALSE
  /\ trigger = NoPrice /\ skips = 0
  /\ ordered = <<>> /\ applied = <<>> /\ swept = {}

Ids(records) == {r.id : r \in records}

(* A sparse count f, and what fills add to it. *)
Count(f, id) == IF id \in DOMAIN f THEN f[id] ELSE 0

AddFills(f, fs) ==
  [id \in DOMAIN f \cup Ids(fs) |->
     Count(f, id) + SumFunction([x \in {y \in fs : y.id = id} |-> x.qty])]

-----------------------------------------------------------------------------
(* The next item of market data. *)

NextItem(p, elapsed) ==
  /\ pc = "data" /\ ticks < MaxTicks
  /\ ticks' = ticks + 1 /\ now' = now + elapsed /\ price' = p /\ pc' = "decide"

(* A trade of q at p, by an aggressor on side s. A fill of one of our      *)
(* orders counts if the order is old enough; either way the loop takes the *)
(* order for consumed and forgets it.                                      *)
OwnFills(s, p, q) == {f \in TradeFills(book, s, p, q) : f.id \in active \cap DOMAIN trackers}

TooEarly(f) == trackers[f.id] > now' - Latency

(* Mutant: an order that was filled stays active.                          *)
ForgetNothing(gone) == gone \subseteq active /\ UNCHANGED <<active, trackers>>

Forget(gone) ==
  /\ active' = active \ gone
  /\ trackers' = Restrict(trackers, DOMAIN trackers \ gone)

Trade(s, p, q, elapsed) ==
  /\ NextItem(p, elapsed)
  /\ book' = TradeBook(book, s, p, q)
  /\ applied' = AddFills(applied, {f \in OwnFills(s, p, q) : ~ TooEarly(f)})
  /\ Forget(Ids(OwnFills(s, p, q)))
  /\ UNCHANGED <<strategies, queue, halted, ordered, swept>>

(* A candle sets the price; other kinds of items leave it.                 *)
OtherItem(p, elapsed) ==
  /\ NextItem(p, elapsed)
  /\ UNCHANGED <<book, active, trackers, strategies, queue, halted, ordered, applied, swept>>

(* The data is used up, or the loss is so large that the run is given up.  *)
Finish ==
  /\ pc = "data" /\ pc' = "done"
  /\ UNCHANGED <<ticks, now, price, book, active, trackers, strategies, queue, halted,
                 ordered, applied, swept>>

-----------------------------------------------------------------------------
(* Signals. The detector asks for new ones on its first price, when the    *)
(* price moved (by a step, more than its threshold), and every MaxSkip     *)
(* items.                                                                  *)

ShouldProcess == trigger = NoPrice \/ skips + 1 >= MaxSkip \/ price # trigger

(* The strategy manager turns signals that scale into plain ones.          *)
Directional(kind) ==
  CASE kind = "ScaleIn" -> "Buy" [] kind = "ScaleOut" -> "Sell" [] OTHER -> kind

(* The strategies give every signal of a run an id of its own.             *)
Signalled(run, batch) ==
  [i \in DOMAIN batch |-> [id |-> <<run, i>>, kind |-> Directional(batch[i].kind),
                           price |-> batch[i].price, qty |-> batch[i].qty]]

Cancelled(bk, ids) ==
  FoldSet(LAMBDA id, b : IF Places(b, id) = {} THEN b ELSE CleanupEmptyLevels(CancelOrder(b, id)),
          bk, ids)

(* Mutant: the active set is cleared, the book is not.                     *)
CancelPreviousInSetOnly(sigs) ==
  IF sigs = <<>>
  THEN UNCHANGED <<book, active, trackers>>
  ELSE UNCHANGED book /\ Forget(active)

(* If there are signals, what is active is cancelled first.                *)
CancelPrevious(sigs) ==
  IF sigs = <<>>
  THEN UNCHANGED <<book, active, trackers>>
  ELSE book' = Cancelled(book, active) /\ Forget(active)

RunStrategies(batch) ==
  /\ pc = "decide" /\ ~ halted /\ ShouldProcess
  /\ runs' = runs + 1 /\ signals' = Signalled(runs + 1, batch)
  /\ trigger' = price /\ skips' = 0
  /\ CancelPrevious(signals')
  /\ pc' = "check" /\ UNCHANGED <<ticks, now, price, queue, halted, ordered, applied, swept>>

ReuseSignals ==
  /\ pc = "decide" /\ ~ halted /\ ~ ShouldProcess
  /\ skips' = skips + 1
  /\ CancelPrevious(signals)
  /\ pc' = "check"
  /\ UNCHANGED <<ticks, now, price, runs, signals, queue, halted, trigger, ordered, applied, swept>>

(* A halted run only follows its equity. *)
SkipSignals ==
  /\ pc = "decide" /\ halted /\ pc' = "data"
  /\ UNCHANGED <<ticks, now, price, book, active, trackers, strategies, queue, halted,
                 ordered, applied, swept>>

(* RiskManager::check on the account.                                      *)
CheckAccount(ok) ==
  /\ pc = "check"
  /\ IF ok THEN pc' = "submit" /\ queue' = signals /\ UNCHANGED halted
           ELSE pc' = "data" /\ halted' = TRUE /\ UNCHANGED queue
  /\ UNCHANGED <<ticks, now, price, book, active, trackers, strategies, ordered, applied, swept>>

(* The signal that is next. *)
AtSignal == pc = "submit" /\ queue # <<>>
Signal == Head(queue)

(* RiskManager::check_order rejects it, or allows nothing of it.           *)
RefuseSignal ==
  /\ AtSignal
  /\ queue' = Tail(queue)
  /\ UNCHANGED <<pc, ticks, now, price, book, active, trackers, strategies, halted,
                 ordered, applied, swept>>

(* HaltTrading, or CloseAllPositions, which closes none. The signals that  *)
(* follow are still handled.                                               *)
HaltOnSignal ==
  /\ AtSignal
  /\ halted' = TRUE /\ queue' = Tail(queue)
  /\ UNCHANGED <<pc, ticks, now, price, book, active, trackers, strategies,
                 ordered, applied, swept>>

(* Whatever is not a sale becomes a bid, the signals to close included.    *)
OrderSide(kind) == IF kind = "Sell" THEN "Ask" ELSE "Bid"

(* The order is allowed, all of it or a reduced size of it, and submitted. *)
(* The reduced size is not used, so that both answers submit the same      *)
(* order. A market order is matched at once.                               *)
Submit ==
  /\ AtSignal
  /\ active' = active \cup {Signal.id}
  /\ trackers' = Put(trackers, Signal.id, now)
  /\ book' = CleanupEmptyLevels(
               AddOrder(book, TRUE, Signal.id, OrderSide(Signal.kind), Signal.price, Signal.qty))
  /\ ordered' = Put(ordered, Signal.id, Count(ordered, Signal.id) + Signal.qty)
  /\ pc' = IF Signal.price = NoPrice THEN "match" ELSE "submit"
  /\ queue' = Tail(queue)
  /\ UNCHANGED <<ticks, now, price, strategies, halted, applied, swept>>

CanMatch == IsCrossed(book) /\ MatchQuantity(book) > 0

(* An iteration of match_all_orders. Its fills are all applied, whichever  *)
(* order they are of, and the orders stay active.                          *)
MatchIteration ==
  /\ pc = "match" /\ CanMatch
  /\ book' = MatchBook(book)
  /\ applied' = AddFills(applied, MatchFills(book))
  /\ swept' = swept \cup Ids(MatchExecuted(book))
  /\ UNCHANGED <<pc, ticks, now, price, active, trackers, strategies, queue, halted, ordered>>

MatchEnd ==
  /\ pc = "match" /\ ~ CanMatch
  /\ pc' = "submit"
  /\ UNCHANGED <<ticks, now, price, book, active, trackers, strategies, queue, halted,
                 ordered, applied, swept>>

EndItem ==
  /\ pc = "submit" /\ queue = <<>>
  /\ pc' = "data"
  /\ UNCHANGED <<ticks, now, price, book, active, trackers, strategies, queue, halted,
                 ordered, applied, swept>>

-----------------------------------------------------------------------------
(* Two items have the same time, or the later one is one unit later. *)
Elapsed == 0 .. 1

Next ==
  \/ \E s \in Sides, p \in Prices, q \in TradeSizes, e \in Elapsed : Trade(s, p, q, e)
  \/ \E p \in Prices \cup {price}, e \in Elapsed : OtherItem(p, e)
  \/ Finish
  \/ \E batch \in Batches : RunStrategies(batch)
  \/ ReuseSignals \/ SkipSignals
  \/ \E ok \in BOOLEAN : CheckAccount(ok)
  \/ RefuseSignal \/ HaltOnSignal
  \/ Submit
  \/ MatchIteration \/ MatchEnd \/ EndItem

Spec == Init /\ [][Next]_vars

-----------------------------------------------------------------------------
(* The orders that rest in the book: [id, orig, rem].                      *)
Resting ==
  UNION {UNION {ToSet(book[s][p].orders) : p \in DOMAIN book[s]} : s \in Sides}

(* The active set and the tracker map agree ("so the active set and        *)
(* tracker map stay consistent"): every path that drops an order from one  *)
(* drops it from the other.                                                *)
ActiveAreTracked == active = DOMAIN trackers

(* What the loop leaves behind in the book without knowing of it is the    *)
(* rest of an order that a trade filled in part, nothing else: an order    *)
(* that never traded is always active, so the next signals cancel it.      *)
OnlyPartFillsAreLeft == \A o \in Resting : o.id \notin active => o.rem < o.orig

(* No order is filled for more than was ordered under its id, though a     *)
(* fill carries all that was taken from the order so far and a stable      *)
(* price submits the same id again and again: the loop forgets an order at *)
(* its first fill. (match_all_orders does not forget.)                     *)
NoOverfill == \A id \in DOMAIN applied \ swept : applied[id] <= ordered[id]

=============================================================================
