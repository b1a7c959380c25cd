-------------------------- MODULE HedgedSimulation --------------------------
(***************************************************************************)
(* run_pair_backtest and run_basket_backtest (backtest/src/                *)
(* pair_simulation.rs, basket_simulation.rs): one position of two legs, or *)
(* of three and more, that is opened and closed as a whole. Every tick is  *)
(* first checked for a margin call of any leg, then its signal is worked   *)
(* on, then the position is marked.                                        *)
(*                                                                         *)
(* A pair with hedge ratio h is here a basket whose second leg has the     *)
(* weight -|h|, which is how the code sizes it and chooses its side. A     *)
(* price that is not a number is Missing; a price of zero is a number that *)
(* the code does not trade on. The counters of the report are left out: an *)
(* entry that is rejected is a tick on which nothing is done.              *)
(***************************************************************************)
EXTENDS Money, Sequences, FiniteSetsExt, SequencesExt

CONSTANTS
  Engines,      \* which of the two engines are looked at
  Bars,         \* the bars of a leg: [price, low, high]
  Ratios,       \* the weights an engine may estimate, the first one 1
  Fixed,        \* the weights of the fixed mode
  Window,       \* lookback_window
  MaxTicks,     \* how many ticks there are
  Capital,      \* initial_capital
  SizePct,      \* position_size_pct, in percent
  MaxNetPct,    \* max_net_exposure_pct, in percent
  Leverage,     \* leverage
  Maintenance,  \* maintenance_margin_ratio, in percent
  Penalty,      \* what a liquidation pays, in money per lot
  Slippage,     \* slippage_bps of all legs, in percent
  Fee           \* taker_fee of all legs, in percent

Missing == -1
LegsOf(kind) == IF kind = "pair" THEN 1..2 ELSE 1..3

ASSUME HedgedAssumption ==
  /\ Engines \subseteq {"pair", "basket"}
  /\ Bars \subseteq [price: Nat \cup {Missing}, low: Nat \cup {Missing}, high: Nat \cup {Missing}]
  /\ \A kind \in Engines : Fixed[kind] \in Ratios[kind]
  /\ \A kind \in Engines : \A w \in Ratios[kind] : w[1] = 1 /\ w \in [LegsOf(kind) -> Int]
  /\ Window \in Nat \ {0} /\ MaxTicks \in Nat /\ Capital \in Nat
  /\ SizePct \in 1..100 /\ MaxNetPct \in Nat /\ Leverage \in Nat \ {0}
  /\ Maintenance \in 0..100 /\ Penalty \in Nat /\ Slippage \in 0..100 /\ Fee \in 0..100

VARIABLES
  engine,    \* which engine runs
  dynamic,   \* whether the weights are estimated anew at each entry
  pc,        \* what the tick does next
  bars,      \* the bar of each leg
  window,    \* the prices of the last ticks, this one the last
  ticks,     \* how many ticks there were
  open,      \* the open position: a leg -> [qty, entry, long, fee], or none
  realized,  \* realized_pnl
  equity     \* the last point of equity_curve

vars == <<engine, dynamic, pc, bars, window, ticks, open, realized, equity>>

None == <<>>
Legs == LegsOf(engine)
Flat == open = None

Init ==
  /\ engine \in Engines /\ dynamic \in BOOLEAN
  /\ pc = "tick" /\ bars = None /\ window = <<>> /\ ticks = 0
  /\ open = None /\ realized = 0 /\ equity = Capital

-----------------------------------------------------------------------------
(* Prices and fills                                                        *)

Price(l) == bars[l].price

PricesValid == \A l \in Legs : Price(l) > 0
ExtremesValid == \A l \in Legs : bars[l].low # Missing /\ bars[l].high # Missing

(* taker_fill: the price against the trader, and the commission on it.     *)
TakerPrice(p, isBuy) ==
  IF isBuy THEN p + (p * Slippage) \div 100 ELSE p - (p * Slippage) \div 100
Commission(p, q) == (p * q * Fee) \div 100

SignedProfit(leg, p) == leg.qty * (IF leg.long THEN p - leg.entry ELSE leg.entry - p)

(* close_pair_position, close_basket_position: every leg at its price.     *)
CloseAt(base) ==
  LET exit == [l \in Legs |-> TakerPrice(base[l], ~open[l].long)]
      net == MapThenSumSet(
               LAMBDA l : SignedProfit(open[l], exit[l]) - open[l].fee - Commission(exit[l], open[l].qty),
               Legs)
  IN  open' = None /\ realized' = realized + net

(* The mark of a tick: without all the prices an open position counts 0.   *)
Unrealized(position) ==
  IF position = None \/ ~PricesValid THEN 0
  ELSE MapThenSumSet(LAMBDA l : SignedProfit(position[l], Price(l)) - position[l].fee, Legs)

MarkStep ==
  /\ pc' = "tick"
  /\ equity' = Capital + realized' + Unrealized(open')

-----------------------------------------------------------------------------
(* The entry                                                               *)

MissingInWindow == \E n \in DOMAIN window, l \in Legs : window[n][l] = Missing

(* The least squares of a window with a missing price are not a number:    *)
(* the second leg's quantity is none, and scale_paired_legs_to_cap takes   *)
(* that for 0. The Johansen test of such a window finds no relation.       *)
NotANumber == [l \in Legs |-> IF l = 1 THEN 1 ELSE 0]

(* estimate_hedge_ratio and estimate_basket_weights, or the fixed weights. *)
Estimates ==
  IF ~dynamic THEN {Fixed[engine]}
  ELSE IF Len(window) < Window THEN {}
  ELSE IF ~MissingInWindow THEN Ratios[engine]
  ELSE IF engine = "pair" THEN {NotANumber} ELSE {}

(* What one lot of the first leg comes with.                               *)
Worth(w) == MapThenSumSet(LAMBDA l : Absolute(w[l]) * Price(l), Legs)

Wanted == SizeLeveraged(Capital, SizePct, Leverage, Price(1))

(* Only the pair is held against the cap of a position.                    *)
FirstLots(w) ==
  IF engine = "pair" THEN ScaleToCap(Wanted, Worth(w), Capital, Leverage) ELSE Wanted

Combination(prices, w) == MapThenSumSet(LAMBDA l : w[l] * prices[l], Legs)

(* The net exposure is how far the combination is from its rolling mean. A *)
(* mean that is not there, or not a number, objects to nothing.            *)
ExceedsRiskLimit(w) ==
  LET sum == FoldSeq(LAMBDA prices, acc : acc + Combination(prices, w), 0, window)
      deviation == Absolute(Window * Combination(Last(window), w) - sum)
  IN  /\ Len(window) = Window /\ ~MissingInWindow
      /\ 100 * FirstLots(w) * deviation > Window * Capital * MaxNetPct

Enter(w, isLong) ==
  /\ pc = "signal" /\ Flat
  /\ PricesValid /\ w \in Estimates /\ FirstLots(w) > 0
  /\ ~ExceedsRiskLimit(w)
  /\ open' = [l \in Legs |->
       LET q == Absolute(w[l]) * FirstLots(w)
           long == isLong <=> w[l] > 0
           entry == TakerPrice(Price(l), long)
       IN  [qty |-> q, entry |-> entry, long |-> long, fee |-> Commission(entry, q)]]
  /\ UNCHANGED realized
  /\ MarkStep
  /\ UNCHANGED <<engine, dynamic, bars, window, ticks>>

-----------------------------------------------------------------------------
(* The other steps of a tick                                               *)

NextTick(next) ==
  /\ pc = "tick" /\ ticks < MaxTicks
  /\ pc' = "margin" /\ ticks' = ticks + 1
  /\ bars' = next
  /\ LET prices == [l \in Legs |-> next[l].price]
         longer == Append(window, prices)
     IN  window' = IF Len(longer) > Window THEN Tail(longer) ELSE longer
  /\ UNCHANGED <<engine, dynamic, open, realized, equity>>

Reaches(l) ==
  ReachesLiquidation(bars[l].low, bars[l].high, open[l].entry, open[l].long, Leverage, Maintenance)

(* Mutant: only the first leg is looked at.                                *)
MarginCalledFirst == ~Flat /\ ExtremesValid /\ Reaches(1)

MarginCalled == ~Flat /\ ExtremesValid /\ \E l \in Legs : Reaches(l)

(* One leg's margin call closes all legs, those that were not called at    *)
(* the price of the tick; the tick's signal is not worked on.              *)
Liquidate ==
  /\ pc = "margin" /\ MarginCalled
  /\ CloseAt([l \in Legs |->
       IF Reaches(l)
       THEN LiquidationExit(open[l].entry, open[l].long, Leverage, Maintenance, Penalty)
       ELSE Price(l)])
  /\ pc' = "tick" /\ equity' = Capital + realized'
  /\ UNCHANGED <<engine, dynamic, bars, window, ticks>>

NoMarginCall ==
  /\ pc = "margin" /\ ~MarginCalled
  /\ pc' = "signal"
  /\ UNCHANGED <<engine, dynamic, bars, window, ticks, open, realized, equity>>

(* A close signal, on a tick that has all the prices.                      *)
Close ==
  /\ pc = "signal" /\ ~Flat /\ PricesValid
  /\ CloseAt([l \in Legs |-> Price(l)])
  /\ MarkStep
  /\ UNCHANGED <<engine, dynamic, bars, window, ticks>>

(* No signal, or one that is rejected or does not apply.                   *)
Hold ==
  /\ pc = "signal"
  /\ UNCHANGED <<open, realized>>
  /\ MarkStep
  /\ UNCHANGED <<engine, dynamic, bars, window, ticks>>

Done == pc = "tick" /\ ticks = MaxTicks /\ UNCHANGED vars

Next ==
  \/ \E next \in [Legs -> Bars] : NextTick(next)
  \/ NoMarginCall \/ Liquidate \/ Close \/ Hold \/ Done
  \/ \E w \in Ratios[engine] \cup {NotANumber}, isLong \in BOOLEAN : Enter(w, isLong)

Spec == Init /\ [][Next]_vars

-----------------------------------------------------------------------------
(* Properties                                                              *)

(* When a tick's signal is worked on, no leg of the position has reached   *)
(* its liquidation price, whichever leg it is and whichever side it is on. *)
NoLegOutlivesItsMargin ==
  pc = "signal" /\ ~Flat /\ ExtremesValid => \A l \in Legs : ~Reaches(l)
=============================================================================
