-------------------------- MODULE CandleSimulation --------------------------
(***************************************************************************)
(* CandleSimulator::run (backtest/src/candle_sim.rs): the loop over the    *)
(* bars that scores a candidate of the genetic search. A bar charges the   *)
(* funding of a perpetual, liquidates a leveraged position, works off stop *)
(* loss and take profit, and then acts on its signal at the open of the    *)
(* NEXT bar. There is one position, long or short, and it is always closed *)
(* as a whole.                                                             *)
(*                                                                         *)
(* Money, prices and quantities are whole numbers; what a size does not    *)
(* buy in whole lots is not bought. A bar's volume is what the simulation  *)
(* may take of it, in lots. Spread, impact and adverse selection make a    *)
(* price worse by one of Costs.                                            *)
(***************************************************************************)
EXTENDS Money

CONSTANTS
  Bars,            \* the bars of the market: [open, high, low, close, volume]
  N,               \* how many bars there are
  Spacings,        \* time from one bar to the next
  InitialCapital,  \* initial_capital
  Leverage,        \* leverage
  Maintenance,     \* maintenance_margin_ratio, in percent
  Penalty,         \* what a liquidation pays, in money per lot
  FundingPct,      \* funding_rate_8h, in percent
  Interval,        \* funding_interval_ms
  StopLoss,        \* stop_loss_pct, in percent
  TakeProfit,      \* take_profit_pct, in percent
  IntrabarPath,    \* whether the path within a bar is guessed
  SizePct,         \* position_size_pct, in percent
  Costs,           \* what an order may cost, in money per lot
  Commissions,     \* the commissions of the fee tiers, in money per lot
  CheckInterval,   \* early_term.check_interval
  MaxLossPct       \* early_term.max_loss_pct, in percent

ASSUME CandleAssumption ==
  /\ Bars \subseteq [open: Nat, high: Nat, low: Nat, close: Nat, volume: Nat]
  /\ N \in Nat \ {0} /\ Spacings \subseteq Nat /\ InitialCapital \in Nat
  /\ Leverage \in Nat \ {0} /\ Maintenance \in 0..100 /\ Penalty \in Nat
  /\ FundingPct \in Nat /\ Interval \in Nat \ {0}
  /\ StopLoss \in 0..100 /\ TakeProfit \in Nat /\ IntrabarPath \in BOOLEAN
  /\ SizePct \in 0..100 /\ Costs \subseteq Nat /\ Commissions \subseteq Nat
  /\ CheckInterval \in Nat \ {0} /\ MaxLossPct \in 0..100
  /\ \A b \in Bars, cost \in Costs : cost < b.open /\ cost < b.close

VARIABLES
  pc,           \* what the bar does next
  i,            \* the bar, from 0; -1 before the first one
  now,          \* its timestamp
  bar, next,    \* the bar and the one after it
  cash,         \* free cash
  qty, entry,   \* position_qty, negative for a short, and entry_price
  margin,       \* margin_used
  lastFunding,  \* last_funding_ts
  commission,   \* effective_commission
  earned,       \* what trade_returns add up to
  funding,      \* total_funding_paid
  entryFees,    \* history: commissions of the entries
  periods       \* history: funding periods charged

vars == <<pc, i, now, bar, next, cash, qty, entry, margin, lastFunding, commission, earned,
          funding, entryFees, periods>>

Init ==
  /\ pc = "bar" /\ i = -1 /\ now = 0
  /\ next \in Bars /\ bar = next
  /\ cash = InitialCapital /\ qty = 0 /\ entry = 0 /\ margin = 0
  /\ lastFunding = 0 /\ commission \in Commissions
  /\ earned = 0 /\ funding = 0 /\ entryFees = 0 /\ periods = 0

-----------------------------------------------------------------------------
(* The position                                                            *)

Lots == Absolute(qty)
IsLong == qty > 0

UnrealizedAt(p) == qty * (p - entry)
EquityAt(p) == cash + margin + UnrealizedAt(p)

(* apply_fill_costs: the price of an order is worse by its costs.          *)
BuyAt(p, cost) == p + cost
SellAt(p, cost) == p - cost
ExitAt(p, cost) == IF IsLong THEN SellAt(p, cost) ELSE BuyAt(p, cost)

(* close_position_with_commission at price p: the margin comes back with   *)
(* the profit, and nothing of the position is left.                        *)
Profit(p) == UnrealizedAt(p) - commission * Lots

(* Mutant: the margin is kept as well.                                     *)
ClosePositionKeepingMargin(p) ==
  /\ cash' = cash + margin + Profit(p)
  /\ earned' = earned + Profit(p)
  /\ qty' = 0 /\ entry' = 0 /\ margin' = margin

ClosePosition(p) ==
  /\ cash' = cash + margin + Profit(p)
  /\ earned' = earned + Profit(p)
  /\ qty' = 0 /\ entry' = 0 /\ margin' = 0

KeepPosition == UNCHANGED <<cash, earned, qty, entry, margin>>

-----------------------------------------------------------------------------
(* The steps of a bar                                                      *)

(* The next bar; a new fee tier may apply from it on.                      *)
NextBar(spacing) ==
  /\ pc = "bar" /\ i < N - 1
  /\ pc' = "funding" /\ i' = i + 1
  /\ now' = IF i = -1 THEN now ELSE now + spacing
  /\ bar' = next /\ next' \in Bars
  /\ commission' \in Commissions
  /\ KeepPosition /\ UNCHANGED <<lastFunding, funding, entryFees, periods>>

(* Mutant: the periods are counted from the start each time.               *)
FundedSame(elapsed) == lastFunding' = lastFunding

(* The time that was charged for.                                          *)
FundedTo(elapsed) == lastFunding' = lastFunding + elapsed * Interval

(* Whole periods since the last charge, of a position that is open now.    *)
ChargeFunding ==
  /\ pc = "funding" /\ pc' = "margin"
  /\ LET elapsed == (now - lastFunding) \div Interval
         cost == (Lots * bar.close * FundingPct * elapsed) \div 100
     IN  IF qty # 0 /\ FundingPct > 0 /\ elapsed > 0
         THEN /\ cash' = cash - cost /\ funding' = funding + cost
              /\ periods' = periods + elapsed
              /\ FundedTo(elapsed)
         ELSE UNCHANGED <<cash, funding, periods, lastFunding>>
  /\ UNCHANGED <<i, now, bar, next, qty, entry, margin, commission, earned, entryFees>>

IsLiquidated ==
  qty # 0 /\ ReachesLiquidation(bar.low, bar.high, entry, IsLong, Leverage, Maintenance)

(* The liquidation is filled at its own price less the penalty, wherever   *)
(* the bar opened.                                                         *)
CheckMargin(cost) ==
  /\ pc = "margin" /\ pc' = "stops"
  /\ IF IsLiquidated
     THEN ClosePosition(ExitAt(LiquidationExit(entry, IsLong, Leverage, Maintenance, Penalty), cost))
     ELSE KeepPosition
  /\ UNCHANGED <<i, now, bar, next, lastFunding, commission, funding, entryFees, periods>>

(* Stop loss and take profit, times 100, and whether the bar reached them. *)
StopPrice == entry * (IF IsLong THEN 100 - StopLoss ELSE 100 + StopLoss)
TargetPrice == entry * (IF IsLong THEN 100 + TakeProfit ELSE 100 - TakeProfit)
Stopped == IF IsLong THEN 100 * bar.low <= StopPrice ELSE 100 * bar.high >= StopPrice
OnTarget == IF IsLong THEN 100 * bar.high >= TargetPrice ELSE 100 * bar.low <= TargetPrice

(* If the bar reached both, the stop loss is taken, unless the shape of    *)
(* the bar says that the target came first.                                *)
TargetFirst ==
  LET upFirst == bar.high - bar.open < bar.open - bar.low
  IN  IntrabarPath /\ (IF IsLong THEN upFirst ELSE ~upFirst)

(* Mutant: a stop is always filled at its own price.                       *)
StopFillAtStop == StopPrice \div 100

(* A bar that opens beyond the stop fills it at its open.                  *)
StopFill ==
  LET beyond == IF IsLong THEN 100 * bar.open < StopPrice ELSE 100 * bar.open > StopPrice
  IN  IF beyond THEN bar.open ELSE StopPrice \div 100

StopOut(cost) ==
  /\ pc = "stops" /\ qty # 0
  /\ Stopped /\ ~(OnTarget /\ TargetFirst)
  /\ pc' = "signal"
  /\ ClosePosition(ExitAt(StopFill, cost))
  /\ UNCHANGED <<i, now, bar, next, lastFunding, commission, funding, entryFees, periods>>

TakeTarget(cost) ==
  /\ pc = "stops" /\ qty # 0
  /\ OnTarget /\ (Stopped => TargetFirst)
  /\ pc' = "signal"
  /\ ClosePosition(ExitAt(TargetPrice \div 100, cost))
  /\ UNCHANGED <<i, now, bar, next, lastFunding, commission, funding, entryFees, periods>>

NoStop ==
  /\ pc = "stops" /\ (qty = 0 \/ (~Stopped /\ ~OnTarget))
  /\ pc' = "signal"
  /\ KeepPosition
  /\ UNCHANGED <<i, now, bar, next, lastFunding, commission, funding, entryFees, periods>>

(* A signal is filled at the next bar's open, the last one at its close.   *)
LastBar == i = N - 1
FillBase == IF LastBar THEN bar.close ELSE next.open
FillVolume == IF LastBar THEN bar.volume ELSE next.volume

(* A buy closes a short first, then opens a long with a share of the       *)
(* equity, leveraged, and at most the volume; a sell the other way round.  *)
Turn(side, exitCost, cost) ==
  LET price == IF side = 1 THEN BuyAt(FillBase, cost) ELSE SellAt(FillBase, cost)
      profit == IF qty = 0 THEN 0 ELSE Profit(ExitAt(FillBase, exitCost))
      returned == margin + profit
      equity == cash + returned
      k == Lesser(SizeLeveraged(equity, SizePct, Leverage, price), FillVolume)
      posted == (k * price) \div Leverage
  IN  /\ cash' = cash + returned - posted - commission * k
      /\ earned' = earned + profit
      /\ entryFees' = entryFees + commission * k
      /\ margin' = posted
      /\ qty' = side * k
      /\ entry' = IF k = 0 THEN 0 ELSE price

(* Buy, sell, close or hold; a signal that latency rejects is a hold.      *)
Signal(cost) ==
  /\ pc = "signal" /\ pc' = "record"
  /\ \/ \E exitCost \in Costs :
          \/ qty <= 0 /\ Turn(1, exitCost, cost)
          \/ qty >= 0 /\ Turn(-1, exitCost, cost)
     \/ qty # 0 /\ ClosePosition(ExitAt(FillBase, cost)) /\ UNCHANGED entryFees
     \/ KeepPosition /\ UNCHANGED entryFees
  /\ UNCHANGED <<i, now, bar, next, lastFunding, commission, funding, periods>>

(* The equity of the bar; a loss that is large enough ends the run early.  *)
Record ==
  /\ pc = "record"
  /\ LET hopeless == /\ i > 0 /\ i % CheckInterval = 0
                     /\ 100 * EquityAt(bar.close) < InitialCapital * (100 - MaxLossPct)
     IN  pc' = IF LastBar \/ hopeless THEN "final" ELSE "bar"
  /\ KeepPosition
  /\ UNCHANGED <<i, now, bar, next, lastFunding, commission, funding, entryFees, periods>>

(* What is open is closed at the close of the LAST bar there is, also when *)
(* the run ended early.                                                    *)
CloseFinally(last, cost) ==
  /\ pc = "final" /\ (LastBar => last = bar)
  /\ pc' = "done"
  /\ IF qty # 0 THEN ClosePosition(ExitAt(last.close, cost)) ELSE KeepPosition
  /\ UNCHANGED <<i, now, bar, next, lastFunding, commission, funding, entryFees, periods>>

Done == pc = "done" /\ UNCHANGED vars

Next ==
  \/ \E spacing \in Spacings : NextBar(spacing)
  \/ ChargeFunding
  \/ \E cost \in Costs :
       \/ CheckMargin(cost)
       \/ StopOut(cost)
       \/ TakeTarget(cost)
       \/ Signal(cost)
       \/ \E last \in Bars : CloseFinally(last, cost)
  \/ NoStop \/ Record \/ Done

Spec == Init /\ [][Next]_vars

-----------------------------------------------------------------------------
(* Properties                                                              *)

Phases == {"bar", "funding", "margin", "stops", "signal", "record", "final", "done"}

(* The kinds of the state.                                                 *)
TypeOK ==
  /\ pc \in Phases /\ i \in Int /\ now \in Nat /\ bar \in Bars /\ next \in Bars
  /\ cash \in Int /\ qty \in Int /\ entry \in Int /\ margin \in Int
  /\ lastFunding \in Nat /\ commission \in Nat
  /\ earned \in Int /\ funding \in Int /\ entryFees \in Int /\ periods \in Nat

(* The returns that the fitness is computed from, and the cash that the    *)
(* profit is computed from, tell one story: through reversals, stops,      *)
(* liquidations and funding, what the account has is what it began with,   *)
(* the returns of its trades, less the commissions of the entries and the  *)
(* funding. Only an open position ties up margin.                          *)
MoneyAddsUp ==
  /\ cash + margin = InitialCapital + earned - entryFees - funding
  /\ qty = 0 => margin = 0

(* No period of time is charged for twice.                                 *)
FundingOncePerPeriod == periods * Interval <= now

(* A stop loss is filled at a price that the bar traded at (before costs): *)
(* a bar that opens beyond the stop does not fill it at the stop.          *)
StopsWereTradable ==
  [][ pc = "stops" /\ qty # 0 /\ Stopped => bar.low <= StopFill /\ StopFill <= bar.high ]_vars
=============================================================================
