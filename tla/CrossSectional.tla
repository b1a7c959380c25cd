--------------------------- MODULE CrossSectional ---------------------------
(***************************************************************************)
(* run_cross_sectional_backtest (backtest/src/                             *)
(* cross_sectional_simulation.rs): period after period the assets are      *)
(* ranked by their trailing return, each against its own class, the upper  *)
(* half is bought and the lower half sold, and all is closed when the      *)
(* holding window ends. How much is put in depends on the volatility of    *)
(* the universe (quant-diagnostics/src/volatility_regime.rs).              *)
(*                                                                         *)
(* The panel of prices is all there is: every step is a function of it. A  *)
(* return is a whole number of units, so that sums, deviations and squares *)
(* are exact; scores and volatilities are roots of fractions, and compared *)
(* by their squares. The test of significance of the spreads and the text  *)
(* of a trade are left out. A panel that is too short is refused: there is *)
(* no period to run.                                                       *)
(***************************************************************************)
EXTENDS HedgedSimulation

CONSTANTS
  ClassOf,       \* the asset class of each asset
  Paths,         \* the prices an asset may have, bar by bar
  Unit,          \* how many units a return of 100 % is
  Lookback,      \* lookback_bars
  Holding,       \* holding_bars
  RegimeWindow,  \* regime_window
  GrossPct,      \* gross_exposure_pct, in percent (large enough for whole quantities)
  HighPct,       \* high_vol_exposure_scalar, in percent
  MediumPct      \* medium_vol_exposure_scalar, in percent

Assets == DOMAIN ClassOf
Panels == [Assets -> Paths]

ASSUME CrossSectionalAssumption ==
  /\ Len(ClassOf) >= 4
  /\ \A path \in Paths : path \in Seq(Nat) /\ Len(path) >= 2
  /\ \A path, other \in Paths : Len(path) = Len(other)
  /\ \A path \in Paths : \A k \in 1 .. Len(path) - 1 :
       path[k] > 0 => (Unit * path[k + 1]) % path[k] = 0
  /\ Lookback \in Nat \ {0} /\ Holding \in Nat \ {0} /\ RegimeWindow \in Nat
  /\ GrossPct \in Nat /\ HighPct \in Nat /\ MediumPct \in Nat

VARIABLES
  panel,   \* prices
  period,  \* how many periods have been run
  book,    \* the legs of the last period: an asset -> [long, notional]
  curve    \* the last point of equity_curve

rotationVars == <<panel, period, book, curve>>

-----------------------------------------------------------------------------
(* Bars are counted from 1; return k is the one from bar k to bar k + 1.   *)

BarCount == Len(CHOOSE path \in Paths : TRUE)
PeriodLength == Lookback + Holding
Periods == (BarCount - 1) \div PeriodLength

EntryBar(n) == n * PeriodLength + Lookback + 1
ExitBar(n) == EntryBar(n) + Holding

Return(path, k) ==
  IF path[k] > 0 THEN (Unit * path[k + 1]) \div path[k] - Unit ELSE 0

(* Mutant: the ranking also sees the first return of the holding window.   *)
TrailingAndNext(prices, n, a) ==
  MapThenSumSet(LAMBDA k : Return(prices[a], k), EntryBar(n) - Lookback .. EntryBar(n))

Trailing(prices, n, a) ==
  MapThenSumSet(LAMBDA k : Return(prices[a], k), EntryBar(n) - Lookback .. EntryBar(n) - 1)

-----------------------------------------------------------------------------
(* Ranking                                                                 *)

Peers(a) == {b \in Assets : ClassOf[b] = ClassOf[a]}

(* How far the signal of an asset is from the mean of its class, and the   *)
(* sum of the squares of that over the class, in units of the class's size.*)
Deviation(signal, a) ==
  Cardinality(Peers(a)) * signal[a] - MapThenSumSet(LAMBDA b : signal[b], Peers(a))
Variation(signal, a) ==
  MapThenSumSet(LAMBDA b : Deviation(signal, b) * Deviation(signal, b), Peers(a))

(* The z-score, squared, with its sign. In a class of one, or of equals,   *)
(* it is 0.                                                                *)
Score(signal, a) ==
  LET d == Deviation(signal, a)
  IN  [num |-> d * Absolute(d) * (Cardinality(Peers(a)) - 1),
       den |-> Greater(Variation(signal, a), 1)]

(* The assets, best score first, and equals in their order.                *)
Ranking(prices, n) ==
  LET signal == [a \in Assets |-> Trailing(prices, n, a)]
      score == [a \in Assets |-> Score(signal, a)]
      Over(a, b) == score[a].num * score[b].den - score[b].num * score[a].den
  IN  SortSeq([a \in Assets |-> a], LAMBDA a, b : Over(a, b) > 0 \/ (Over(a, b) = 0 /\ a < b))

Half == Len(ClassOf) \div 2

-----------------------------------------------------------------------------
(* Volatility                                                              *)

Measured == RegimeWindow .. BarCount - 1

(* The variance of the universe's returns in the window that ends with k.  *)
Volatility(universe, k) ==
  LET recent == k - RegimeWindow + 1 .. k
      sum == MapThenSumSet(LAMBDA j : universe[j], recent)
  IN  RegimeWindow * MapThenSumSet(LAMBDA j : universe[j] * universe[j], recent) - sum * sum

(* The volatility that n others of the whole series are not above.         *)
Cut(volatility, n) ==
  CHOOSE v \in Range(volatility) :
    /\ Cardinality({k \in Measured : volatility[k] < v}) <= n
    /\ Cardinality({k \in Measured : volatility[k] <= v}) > n

(* volatility_tercile_regimes, for the last return before the entry.       *)
Regime(prices, n) ==
  LET k == EntryBar(n) - 1
      universe == [j \in 1 .. BarCount - 1 |->
                    MapThenSumSet(LAMBDA a : Return(prices[a], j), Assets)]
      volatility == [j \in Measured |-> Volatility(universe, j)]
      count == Cardinality(Measured)
  IN  IF RegimeWindow < 2 \/ k \notin Measured \/ count < 3 THEN "none"
      ELSE IF volatility[k] <= Cut(volatility, count \div 3) THEN "low"
      ELSE IF volatility[k] >= Cut(volatility, (2 * count) \div 3) THEN "high"
      ELSE "medium"

Exposure(regime) ==
  CASE regime = "high" -> HighPct [] regime = "medium" -> MediumPct [] OTHER -> 100

-----------------------------------------------------------------------------
(* A period                                                                *)

(* A leg is left out if it cannot be entered, or could not be closed.      *)
Tradable(prices, n, a) == prices[a][EntryBar(n)] > 0 /\ prices[a][ExitBar(n)] > 0

LegNotional(prices, n) ==
  (Capital * GrossPct * Exposure(Regime(prices, n))) \div (10000 * 2 * Half)

Positions(prices, n) ==
  LET ranking == Ranking(prices, n)
      Place(a) == CHOOSE i \in DOMAIN ranking : ranking[i] = a
      legs == {a \in Assets : /\ Place(a) <= Half \/ Place(a) > Len(ClassOf) - Half
                              /\ Tradable(prices, n, a)}
      notional == LegNotional(prices, n)
  IN  [a \in legs |-> [long |-> Place(a) <= Half, notional |-> notional]]

LegProfit(path, n, leg) ==
  LET quantity == leg.notional \div path[EntryBar(n)]
      entry == TakerPrice(path[EntryBar(n)], leg.long)
      exit == TakerPrice(path[ExitBar(n)], ~leg.long)
  IN  quantity * (IF leg.long THEN exit - entry ELSE entry - exit)
        - Commission(entry, quantity) - Commission(exit, quantity)

RotationInit ==
  /\ panel \in Panels /\ period = 0
  /\ book = None /\ curve = Capital

RunPeriod ==
  /\ period < Periods
  /\ book' = Positions(panel, period)
  /\ curve' = curve + MapThenSumSet(LAMBDA a : LegProfit(panel[a], period, book'[a]), DOMAIN book')
  /\ period' = period + 1
  /\ UNCHANGED panel

-----------------------------------------------------------------------------
(* What the engine may know when it enters a period                        *)

(* The panels that are the same up to a bar.                               *)
Alike(prices, bar) ==
  LET Same(a) == {path \in Paths : SubSeq(path, 1, bar) = SubSeq(prices[a], 1, bar)}
  IN  {other \in [Assets -> UNION {Same(a) : a \in Assets}] : \A a \in Assets : other[a] \in Same(a)}

(* Had the prices after the entry been others, the same assets would have  *)
(* been held, on the same side and for the same money, but for two things: *)
(* a label of volatility that the rest of the series decides, because the  *)
(* terciles are cut from all of it, and a leg whose price is gone at the   *)
(* exit, which is left out at the entry.                                   *)
OnlyLabelsAndExitsLookAhead ==
  period > 0 =>
    LET n == period - 1
        label == Regime(panel, n)
    IN  \A other \in Alike(panel, EntryBar(n)) :
          (/\ \A a \in Assets : Tradable(other, n, a) <=> Tradable(panel, n, a)
           /\ Regime(other, n) = label)
          => Positions(other, n) = book
=============================================================================
