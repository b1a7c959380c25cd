-------------------------------- MODULE Money --------------------------------
(***************************************************************************)
(* What the modules that count money share: words for numbers, and the     *)
(* formulas of isolated margin, portfoliomanager/src/margin.rs, that all   *)
(* simulations use. Ratios are percentages, prices whole numbers, and      *)
(* quantities whole lots: what a size does not buy in whole lots is not    *)
(* bought. A price that must be exact is scaled by Percent(leverage).      *)
(***************************************************************************)
EXTENDS Integers

Lesser(m, n) == IF m <= n THEN m ELSE n
Greater(m, n) == IF m >= n THEN m ELSE n
Positive(n) == IF n >= 0 THEN n ELSE 0
Absolute(n) == IF n >= 0 THEN n ELSE -n

Percent(leverage) == 100 * leverage

(* liquidation_price, scaled: entry * (1 - 1/leverage + ratio) for a long, *)
(* entry * (1 + 1/leverage - ratio) for a short.                           *)
LiquidationPrice(entry, isLong, leverage, ratio) ==
  entry * (IF isLong THEN Percent(leverage) - 100 + ratio * leverage
                     ELSE Percent(leverage) + 100 - ratio * leverage)

(* is_liquidated: the low of the bar for a long, its high for a short. A   *)
(* position without leverage is never liquidated.                          *)
ReachesLiquidation(low, high, entry, isLong, leverage, ratio) ==
  LET trigger == LiquidationPrice(entry, isLong, leverage, ratio)
  IN  /\ leverage > 1
      /\ IF isLong THEN low * Percent(leverage) <= trigger
                   ELSE high * Percent(leverage) >= trigger

(* apply_liquidation_penalty: the position is closed at the liquidation    *)
(* price, worse by the penalty.                                            *)
LiquidationExit(entry, isLong, leverage, ratio, penalty) ==
  (LiquidationPrice(entry, isLong, leverage, ratio) \div Percent(leverage))
    + (IF isLong THEN -penalty ELSE penalty)

(* size_leveraged_order: the lots that a share of the equity buys.         *)
SizeLeveraged(equity, pct, leverage, price) ==
  Positive(equity * pct * leverage) \div (100 * price)

(* What MAX_AGGREGATE_POSITION_EQUITY_PCT lets a position be worth.        *)
Cap(equity, leverage) == Positive(equity * leverage)

(* clamp_aggregate_position_qty: no more than the cap leaves, less what is *)
(* held already.                                                           *)
ClampAggregate(q, price, held, equity, leverage) ==
  Lesser(q, Positive(Cap(equity, leverage) - held) \div price)

(* scale_paired_legs_to_cap: both legs shrink together. A lot of the first *)
(* leg comes with the other leg's lots, and both are worth "worth".        *)
ScaleToCap(q, worth, equity, leverage) ==
  Lesser(q, Cap(equity, leverage) \div worth)
=============================================================================
