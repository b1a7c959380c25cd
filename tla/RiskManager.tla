---------------------------- MODULE RiskManager ----------------------------
(***************************************************************************)
(* RiskManager (riskmanager/src/lib.rs): the answers a simulation asks for *)
(* before an order and once per tick, and the peak of the equity that the  *)
(* drawdown is measured from. A limit that is not set is one that is never *)
(* reached.                                                                *)
(***************************************************************************)
EXTENDS Money

CONSTANTS
  MaxOrderSize,   \* limits.max_order_size
  MaxPosition,    \* limits.max_position
  MaxDrawdown,    \* limits.max_drawdown, in percent
  MaxDailyLoss    \* limits.max_daily_loss

ASSUME RiskAssumption ==
  /\ MaxOrderSize \in Nat \ {0} /\ MaxPosition \in Nat
  /\ MaxDrawdown \in Nat /\ MaxDailyLoss \in Nat

VARIABLE peakEquity   \* peak_equity

(* update_equity.                                                          *)
UpdateEquity(equity) == peakEquity' = IF equity > peakEquity THEN equity ELSE peakEquity

(* get_current_drawdown against max_drawdown: the part of the peak that is *)
(* lost, at most all of it.                                                *)
DrawdownExceeded(equity) ==
  /\ peakEquity > 0 /\ MaxDrawdown < 100
  /\ 100 * (peakEquity - equity) > MaxDrawdown * peakEquity

(* check_order: the first limit that objects answers. The size of an order *)
(* has no sign, so that a sale counts like a purchase.                     *)
Proceed(size) == [action |-> "Proceed", qty |-> size]
Reduce(size) == [action |-> "Reduce", qty |-> size]
Reject == [action |-> "Reject", qty |-> 0]
Halt == [action |-> "Halt", qty |-> 0]

CheckOrder(size, position, equity, start) ==
  CASE size > MaxOrderSize -> Reduce(MaxOrderSize)
    [] size <= MaxOrderSize /\ Absolute(position + size) > MaxPosition ->
         IF Absolute(position) >= MaxPosition THEN Reject
         ELSE Reduce(MaxPosition - Absolute(position))
    [] OTHER ->
         IF DrawdownExceeded(equity) \/ equity - start < -MaxDailyLoss THEN Halt
         ELSE Proceed(size)

(* check, as the simulations call it once per tick, without an order.      *)
Check(position, equity) ==
  Absolute(position) <= MaxPosition /\ ~DrawdownExceeded(equity)

(* check_margin.                                                           *)
MarginCall(equity, marginUsed, maintenance) == marginUsed > 0 /\ equity <= maintenance
=============================================================================
