-------------------------- MODULE PythonSimulation --------------------------
(***************************************************************************)
(* run_with_input (backtest/src/python_simulation.rs): the loop over the   *)
(* ticks of a Python strategy. Each tick first fills the limit orders that *)
(* wait, then asks the risk manager, then checks the margin, then works on *)
(* the signals of the strategy one by one, then closes the contracts that  *)
(* have expired, and last marks the portfolio. The portfolio is the one of *)
(* Portfolio, the limits those of RiskManager.                             *)
(*                                                                         *)
(* What a strategy answers is any of the given signals, whether it was     *)
(* asked, answered from a cached batch or computed for all ticks at once.  *)
(* Ticks whose price is not positive are skipped by the code and left out. *)
(***************************************************************************)
EXTENDS Portfolio, RiskManager, SequencesExt

CONSTANTS
  Signals,           \* the signals a strategy may give
  MaxSignals,        \* bound on the signals of a run
  MaxTicks,          \* bound on the ticks
  Volumes,           \* what limit orders may take of a tick's volume, in lots
  Latency,           \* ticks before an order can be filled
  AdverseSelection,  \* whether the price has to go through a limit
  SizePct,           \* position_size_pct, in percent
  Slippage,          \* what a market order pays, in money per lot
  Penalty,           \* what a liquidation pays, in money per lot
  Maintenance,       \* maintenance_margin_ratio, in percent
  Expiry             \* the tick at which the options expire

ASSUME PythonSimulationAssumption ==
  /\ MaxSignals \in Nat /\ MaxTicks \in Nat /\ Volumes \subseteq Nat
  /\ Latency \in Nat /\ AdverseSelection \in BOOLEAN /\ SizePct \in 1..100
  /\ Slippage \in Nat /\ Penalty \in Nat /\ Maintenance \in 0..100
  /\ Expiry \in Nat

VARIABLES
  pc,          \* the phase of the tick
  tick,        \* tick_idx, counted from 1
  price, low, high,  \* current_price and the extremes of the candle
  volume,      \* what limit orders may still take in this tick
  i,           \* the index of fill_pending_limits
  pending,     \* pending_limits
  left,        \* how many more signals the run may have
  queue,       \* market orders of a close or of a spread still to execute
  at,          \* the price they are executed at
  dummy,       \* whether they number their entries with the dummy id
  halted,      \* trading_halted
  trips,       \* open_positions: entries that wait for their exit
  nextTrade    \* next_trade_id

simVars == <<pc, tick, price, low, high, volume, i, pending, left, queue, at, dummy,
             halted, trips, nextTrade, peakEquity>>
allVars == <<vars, simVars>>

SimInit ==
  /\ Init
  /\ pc = "tick" /\ tick = 0
  /\ price = 0 /\ low = 0 /\ high = 0 /\ volume = 0
  /\ i = 1 /\ pending = <<>> /\ left = MaxSignals
  /\ queue = <<>> /\ at = 0 /\ dummy = FALSE
  /\ halted = FALSE /\ trips = <<>> /\ nextTrade = 1
  /\ peakEquity = InitialBalance

-----------------------------------------------------------------------------
(* The account                                                             *)

MarginUsed ==
  MapThenSumSet(LAMBDA s : positions[s]["Long"].margin + positions[s]["Short"].margin, Symbols)

(* equity_at: cash, posted margin and the profit of the spot position. An  *)
(* option that was paid for is not in it.                                  *)
Equity(p) ==
  LET long == positions[BTC]["Long"]
      short == positions[BTC]["Short"]
  IN  balance + MarginUsed + p * (long.qty - short.qty) - (long.cost - short.cost)

Exposure(p) == Absolute(net) * p

(* What a fill executes of q lots: 0 if there is nothing to pay it with.   *)
Executable(s, side, p, q) ==
  IF HasOpen(s, Reduces(side)) THEN Lesser(q, positions[s][Reduces(side)].qty)
  ELSE IF s \in Options /\ side = "Ask" THEN q
  ELSE Lesser(q, Affordable(s, p))

PortfolioFill(s, side, p, q) ==
  \/ s = BTC /\ (SpotOpen(side, p, q) \/ SpotClose(side, p, q))
  \/ s \in Futures /\ FutureOpen(s, side, p, q)
  \/ s \in Derivatives /\ DerivativeClose(s, side, p, q)
  \/ s \in Options /\ side = "Bid" /\ OptionBuy(s, p, q)
  \/ s \in Options /\ side = "Ask" /\ OptionWrite(s, p, q)
  \/ Executable(s, side, p, q) = 0 /\ UNCHANGED vars

(* A fill and its round trip: every purchase opens one, every sale closes  *)
(* the last one that was opened, whatever was sold of it.                  *)
Fill(s, side, p, q, id) ==
  LET k == Executable(s, side, p, q)
  IN  /\ PortfolioFill(s, side, p, q)
      /\ trips' = IF k = 0 THEN trips
                  ELSE IF side = "Bid" THEN Append(trips, [id |-> id, qty |-> k])
                  ELSE IF trips = <<>> THEN trips ELSE Front(trips)
      /\ nextTrade' = IF side = "Bid" /\ k > 0 /\ id = nextTrade THEN nextTrade + 1 ELSE nextTrade

(* execute_taker_fill, at price p less the slippage.                       *)
TakerFill(s, side, p, q, id) ==
  Fill(s, side, IF side = "Bid" THEN p + Slippage ELSE p - Slippage, q, id)

-----------------------------------------------------------------------------
(* The phases of a tick                                                    *)

NewTick(p, lo, hi, v) ==
  /\ pc = "tick" /\ tick < MaxTicks
  /\ lo <= p /\ p <= hi
  /\ pc' = "limits" /\ tick' = tick + 1 /\ i' = 1
  /\ price' = p /\ low' = lo /\ high' = hi /\ volume' = v
  /\ UNCHANGED <<vars, pending, left, queue, at, dummy, halted, trips, nextTrade, peakEquity>>

(* fill_pending_limits. An order is due once its latency is over and the   *)
(* price has reached its limit, or gone through it.                        *)
Crossed(order) ==
  LET distance == IF order.side = "Bid" THEN order.price - price ELSE price - order.price
  IN  IF AdverseSelection THEN distance > 0 ELSE distance >= 0

Due(order) == tick - order.placed >= Latency /\ Crossed(order)

PassOver ==
  /\ pc = "limits" /\ i <= Len(pending)
  /\ ~Due(pending[i]) \/ volume = 0
  /\ i' = i + 1
  /\ UNCHANGED <<vars, pc, tick, price, low, high, volume, pending, left, queue, at, dummy,
                 halted, trips, nextTrade, peakEquity>>

(* swap_remove: the last order takes the place of the one removed.         *)
SwapRemove(s, n) == Front([s EXCEPT ![n] = Last(s)])

(* Mutant: the next order is the one after the place of the removed one.   *)
AfterFillSkipping(order, k) ==
  IF k = order.qty
  THEN pending' = SwapRemove(pending, i) /\ i' = i + 1
  ELSE pending' = [pending EXCEPT ![i].qty = @ - k] /\ i' = i + 1

(* An order that is filled leaves the list; what the volume left of one    *)
(* stays, and what the portfolio did not execute is lost.                  *)
AfterFill(order, k) ==
  IF k = order.qty
  THEN pending' = SwapRemove(pending, i) /\ i' = i
  ELSE pending' = [pending EXCEPT ![i].qty = @ - k] /\ i' = i + 1

FillLimit ==
  /\ pc = "limits" /\ i <= Len(pending)
  /\ Due(pending[i]) /\ volume > 0
  /\ LET order == pending[i]
         k == Lesser(order.qty, volume)
     IN  /\ volume' = volume - k
         /\ Fill(order.symbol, order.side, order.price, k, nextTrade)
         /\ AfterFill(order, k)
  /\ UNCHANGED <<pc, tick, price, low, high, left, queue, at, dummy, halted, peakEquity>>

LimitsDone ==
  /\ pc = "limits" /\ i > Len(pending)
  /\ pc' = "risk"
  /\ UNCHANGED <<vars, tick, price, low, high, volume, i, pending, left, queue, at, dummy,
                 halted, trips, nextTrade, peakEquity>>

(* The risk manager's peak and its check; a halt is for good.              *)
Halting == halted' = (halted \/ ~Check(net, Equity(price))')

RiskStep ==
  /\ pc = "risk"
  /\ pc' = "margin" /\ volume' = 0
  /\ UpdateEquity(Equity(price))
  /\ UNCHANGED <<vars, tick, price, low, high, i, pending, left, queue, at, dummy, trips, nextTrade>>
  /\ Halting

(* Mutant: the candle's other extreme.                                     *)
IsLiquidatedAtBest(side) ==
  LET position == positions[BTC][side]
      n == position.qty
  IN  /\ HasOpen(BTC, side)
      /\ ReachesLiquidation(high * n, low * n, position.cost, side = "Long", Leverage, Maintenance)

(* Whether the candle reached the liquidation price of a position: what    *)
(* the position cost is the entry price times its lots.                    *)
IsLiquidated(side) ==
  LET position == positions[BTC][side]
      n == position.qty
  IN  /\ HasOpen(BTC, side)
      /\ ReachesLiquidation(low * n, high * n, position.cost, side = "Long", Leverage, Maintenance)

Liquidated ==
  /\ \E side \in PositionSides : IsLiquidated(side)
  /\ MarginCall(100 * Equity(price), MarginUsed, Maintenance * Exposure(price))

(* The market orders that close the positions of some symbols. The code    *)
(* takes them in the order they were opened.                               *)
ClosingSide(s) == IF HasOpen(s, "Long") THEN "Ask" ELSE "Bid"
ClosingOrder(s) ==
  [symbol |-> s, side |-> ClosingSide(s), qty |-> positions[s][Reduces(ClosingSide(s))].qty]
OpenSymbols == {s \in Symbols : \E side \in PositionSides : HasOpen(s, side)}

CloseAll(symbols, p) ==
  /\ \E order \in SetToSeqs({ClosingOrder(s) : s \in symbols}) : queue' = order
  /\ at' = p /\ dummy' = TRUE

MarginStep ==
  /\ pc = "margin"
  /\ IF Liquidated
     THEN CloseAll(OpenSymbols, IF net > 0 THEN price - Penalty ELSE price + Penalty)
     ELSE UNCHANGED <<queue, at, dummy>>
  /\ pc' = IF halted THEN "tick" ELSE "signals"
  /\ low' = price /\ high' = price
  /\ UNCHANGED <<vars, tick, price, volume, i, pending, left, halted, trips, nextTrade, peakEquity>>

(* One of the market orders that wait.                                     *)
ExecuteQueued ==
  /\ queue # <<>>
  /\ LET order == Head(queue)
     IN  TakerFill(order.symbol, order.side, at, order.qty, IF dummy THEN 0 ELSE nextTrade)
  /\ queue' = Tail(queue)
  /\ at' = IF Len(queue) = 1 THEN 0 ELSE at
  /\ dummy' = (dummy /\ Len(queue) > 1)
  /\ UNCHANGED <<pc, tick, price, low, high, volume, i, pending, left, halted, peakEquity>>

-----------------------------------------------------------------------------
(* The signals                                                             *)

(* A signal without a quantity gets a part of the equity, leveraged.       *)
Asked(signal) ==
  IF signal.qty > 0 THEN signal.qty
  ELSE SizeLeveraged(Equity(price), SizePct, Leverage, price)

Answer(q) == CheckOrder(q, net, Equity(price), InitialBalance)

(* An order away from zero, and what the cap leaves for it.                *)
Increasing(side) == IF side = "Bid" THEN net >= 0 ELSE net <= 0
ToCap(q) == ClampAggregate(q, price, Exposure(price), Equity(price), Leverage)

Clamped(side, q) == IF Increasing(side) THEN ToCap(q) ELSE q

OrderQty(signal) ==
  LET q == Asked(signal)
  IN  IF q = 0 THEN 0 ELSE Clamped(signal.side, Answer(q).qty)

Working(signal) ==
  /\ pc = "signals" /\ queue = <<>> /\ left > 0
  /\ left' = left - 1
  /\ UNCHANGED <<pc, tick, price, low, high, volume, i, peakEquity>>

LimitOrder(symbol, side, p, q) ==
  [symbol |-> symbol, side |-> side, price |-> p, qty |-> q, placed |-> tick]

MarketSignal(signal) ==
  /\ signal.kind = "Market" /\ Working(signal)
  /\ OrderQty(signal) > 0
  /\ TakerFill(signal.symbol, signal.side, price, OrderQty(signal), nextTrade)
  /\ UNCHANGED <<pending, queue, at, dummy, halted>>

LimitSignal(signal) ==
  /\ signal.kind = "Limit" /\ Working(signal)
  /\ OrderQty(signal) > 0
  /\ pending' = Append(pending, LimitOrder(signal.symbol, signal.side, signal.price, OrderQty(signal)))
  /\ UNCHANGED <<vars, queue, at, dummy, halted, trips, nextTrade>>

(* Nothing is left of the order; the answer that halts lets the rest of    *)
(* the tick's signals be worked on.                                        *)
RefusedSignal(signal) ==
  /\ signal.kind \in {"Market", "Limit"} /\ Working(signal)
  /\ OrderQty(signal) = 0
  /\ halted' = (halted \/ (Asked(signal) > 0 /\ Answer(Asked(signal)).action = "Halt"))
  /\ UNCHANGED <<vars, pending, queue, at, dummy, trips, nextTrade>>

(* OptionSpread: all legs are checked, each against the position as it is, *)
(* before any is worked on. No leg is clamped.                             *)
SpreadSignal(signal) ==
  /\ signal.kind = "Spread" /\ Working(signal)
  /\ LET accepted == \A n \in DOMAIN signal.legs : Answer(signal.legs[n].qty).action = "Proceed"
         limits == SelectSeq(signal.legs, LAMBDA leg : leg.price > 0)
         markets == SelectSeq(signal.legs, LAMBDA leg : leg.price = 0)
     IN  IF accepted
         THEN /\ pending' = pending \o
                   [n \in DOMAIN limits |->
                     LimitOrder(limits[n].symbol, limits[n].side, limits[n].price, limits[n].qty)]
              /\ queue' = [n \in DOMAIN markets |->
                   [symbol |-> markets[n].symbol, side |-> markets[n].side, qty |-> markets[n].qty]]
              /\ at' = (IF markets = <<>> THEN 0 ELSE price)
         ELSE UNCHANGED <<pending, queue, at>>
  /\ UNCHANGED <<vars, dummy, halted, trips, nextTrade>>

CloseSignal(signal) ==
  /\ signal.kind = "Close" /\ Working(signal)
  /\ CloseAll(OpenSymbols, price)
  /\ UNCHANGED <<vars, pending, halted, trips, nextTrade>>

(* StopLoss and TakeProfit: the net position, whatever it is made of, is   *)
(* closed with one order of spot.                                          *)
ExitSignal(signal) ==
  /\ signal.kind = "Exit" /\ Working(signal)
  /\ IF net # 0
     THEN TakerFill(BTC, IF net > 0 THEN "Ask" ELSE "Bid", price, Absolute(net), nextTrade)
     ELSE UNCHANGED <<vars, trips, nextTrade>>
  /\ UNCHANGED <<pending, queue, at, dummy, halted>>

CancelSignal(signal) ==
  /\ signal.kind = "Cancel" /\ Working(signal)
  /\ pending' = <<>>
  /\ UNCHANGED <<vars, queue, at, dummy, halted, trips, nextTrade>>

(* TwoSidedQuote: neither asked about nor clamped.                         *)
QuoteSignal(signal) ==
  /\ signal.kind = "Quote" /\ Working(signal)
  /\ pending' = pending \o <<LimitOrder(BTC, "Bid", signal.bid, signal.qty),
                             LimitOrder(BTC, "Ask", signal.ask, signal.qty)>>
  /\ UNCHANGED <<vars, queue, at, dummy, halted, trips, nextTrade>>

-----------------------------------------------------------------------------
(* The end of a tick                                                       *)

SignalsDone ==
  /\ pc = "signals" /\ queue = <<>>
  /\ pc' = "mark"
  /\ LET expired == {s \in OpenSymbols \cap Options : tick >= Expiry}
     IN  IF expired = {} THEN UNCHANGED <<queue, at, dummy>> ELSE CloseAll(expired, price)
  /\ UNCHANGED <<vars, tick, price, low, high, volume, i, pending, left, halted, trips, nextTrade,
                 peakEquity>>

MarkStep ==
  /\ pc = "mark" /\ queue = <<>>
  /\ Mark(price)
  /\ pc' = "tick"
  /\ UNCHANGED <<tick, price, low, high, volume, i, pending, left, queue, at, dummy, halted,
                 trips, nextTrade, peakEquity>>

Done ==
  /\ pc = "tick" /\ queue = <<>> /\ tick = MaxTicks
  /\ UNCHANGED allVars

SimNext ==
  \/ queue = <<>> /\ \E p, lo, hi \in Prices, v \in Volumes : NewTick(p, lo, hi, v)
  \/ PassOver \/ FillLimit \/ LimitsDone \/ RiskStep \/ MarginStep \/ ExecuteQueued
  \/ \E signal \in Signals :
       \/ MarketSignal(signal)
       \/ LimitSignal(signal)
       \/ RefusedSignal(signal)
       \/ SpreadSignal(signal)
       \/ CloseSignal(signal)
       \/ ExitSignal(signal)
       \/ CancelSignal(signal)
       \/ QuoteSignal(signal)
  \/ SignalsDone \/ MarkStep \/ Done

SimSpec == SimInit /\ [][SimNext]_allVars

-----------------------------------------------------------------------------
(* Properties                                                              *)

(* Once the limits of a tick are worked through, an order that is due was  *)
(* filled or waits because the tick's volume was used up: no order is      *)
(* forgotten when another leaves the list before it.                       *)
DueOrdersWaitForVolume ==
  pc = "risk" => volume = 0 \/ \A n \in DOMAIN pending : ~Due(pending[n])

NoDerivatives == \A s \in Derivatives, side \in PositionSides : ~HasOpen(s, side)

(* No long whose account is down to the maintenance margin survives the    *)
(* margin step: the two conditions of a liquidation, the price of the      *)
(* position and the equity of the account, do not shut each other out.     *)
MarginCallsAreNotMissed ==
  [][ /\ pc = "margin" /\ NoDerivatives /\ balance >= 0 /\ HasOpen(BTC, "Long")
      /\ MarginCall(100 * Equity(price), MarginUsed, Maintenance * Exposure(price))
      => queue' # <<>> ]_allVars
=============================================================================
