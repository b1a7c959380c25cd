---------------------------- MODULE LpSimulation ----------------------------
(***************************************************************************)
(* The simulation of a liquidity position (backtest/src/lp_simulation.rs   *)
(* and amm_math.rs, portfoliomanager/src/lp_position.rs) as the engine runs *)
(* it: the deposit becomes a position at the first swap, then the loop goes*)
(* through all swaps, the first one included.                              *)
(*                                                                         *)
(* A tick has a square root of a price, doubling from tick to tick, and the*)
(* price of a swap is a square. Scale divides by every root, and money,    *)
(* amounts and shares of a pool are multiplied by it, so that what a       *)
(* position holds is whole; the liquidity of a range is not.               *)
(* The yearly return and the share of time in range are left out.          *)
(***************************************************************************)
EXTENDS Money, Sequences

CONSTANTS
  PoolTypes,   \* of "concentrated", "constant" and "stable"
  Ticks,       \* n, for the ticks -n .. n
  Swaps,       \* [tick, direction, fee, liquidity, a, b]: the reserves are a and b
  Deposit,     \* initial_deposit_usd
  DepositPct,  \* deposit_ratio, in percent
  Gas,         \* gas_cost_per_operation in dollars
  HalfWidth,   \* half of range_width_ticks
  Amp,         \* the amplification of a stable pool, 100 whatever is configured
  MaxSwaps,    \* bound of the model
  NoPosition

Root(tick) == 2 ^ (tick + Ticks)
Scale == Root(Ticks)

ASSUME LpAssumption ==
  /\ Ticks \in Nat /\ HalfWidth \in 1 .. Ticks /\ DepositPct \in 0 .. 100
  /\ Deposit \in Nat \ {0} /\ Gas \in Nat /\ Amp \in Nat /\ MaxSwaps \in Nat
  /\ \A s \in Swaps :
       /\ s.tick \in HalfWidth - Ticks .. Ticks - HalfWidth /\ s.direction \in {"AToB", "BToA"}
       /\ {s.fee, s.liquidity, s.a, s.b} \subseteq Nat

VARIABLES
  pool,      \* pool_type of the configuration
  position,  \* the one position, NoPosition before the first swap
  balance,   \* balance_usd
  initial,   \* initial_value of run, NoPosition before it starts
  equity,    \* the last value of the equity curve
  peak,      \* peak_value
  earning,   \* fee_earning_swaps
  last,      \* the swap processed last
  swaps      \* total_swaps

lpVars == <<pool, position, balance, initial, equity, peak, earning, last, swaps>>

---------------------------------------------------------------------------
(* The price of a swap is what came out over what went in: the other way   *)
(* round for a swap of B to A. This is its root.                           *)
PriceRoot(swap) == Root(IF swap.direction = "AToB" THEN swap.tick ELSE -swap.tick)

Value(amounts, root) == amounts.a * root * root + amounts.b

(* amounts_from_liquidity                                                  *)
Amounts(liquidity, root, lower, upper) ==
  LET at == Lesser(Greater(root, lower), upper)
  IN  [a |-> liquidity * ((Scale \div at) - (Scale \div upper)), b |-> liquidity * Scale * (at - lower)]

LiquidityOfOne(amounts, root, lower, upper) ==   \* mutant: as much as the richer token allows
  LET unit == Amounts(1, root, lower, upper)
  IN  Greater(IF unit.a = 0 THEN 0 ELSE amounts.a \div unit.a,
              IF unit.b = 0 THEN 0 ELSE amounts.b \div unit.b)

(* liquidity_from_amounts: what both tokens suffice for; the rest of the   *)
(* richer one is in no amount of the position.                             *)
LiquidityOf(amounts, root, lower, upper) ==
  LET unit == Amounts(1, root, lower, upper)
  IN  CASE unit.b = 0 -> amounts.a \div unit.a
        [] unit.a = 0 -> amounts.b \div unit.b
        [] OTHER -> Lesser(amounts.a \div unit.a, amounts.b \div unit.b)

(* The loss against holding, in its three forms, of the value at entry.    *)
Loss(p, root) ==
  LET entry == Value(p.entry, p.root)
      e     == p.root * p.root
      now   == root * root
      plain == -(((root - p.root) * (root - p.root) * entry) \div (e + now))
      held  == Amounts(1, p.root, p.lower, p.upper)
      hodl  == Value(held, root)
  IN  CASE pool = "constant" -> plain
        [] pool = "stable" ->
             (plain * e) \div (e + Amp * Positive(e - Absolute(e - now)))
        [] OTHER ->
             IF hodl = 0 THEN 0
             ELSE ((Value(Amounts(1, root, p.lower, p.upper), root) - hodl) * entry) \div hodl

---------------------------------------------------------------------------

SquareRoot(x) == CHOOSE n \in 0 .. x : n * n <= x /\ x < (n + 1) * (n + 1)

DepositedTokens(root) ==
  LET b == (Deposit * Scale * DepositPct) \div 100
  IN  [a |-> (Deposit * Scale - b) \div (root * root), b |-> b]

(* open_initial_position, called before run.                               *)
OpenInitialPosition(swap) ==
  LET root   == PriceRoot(swap)
      tokens == DepositedTokens(root)
      lower  == Root(swap.tick - HalfWidth)
      upper  == Root(swap.tick + HalfWidth)
      units  == CASE pool = "concentrated" -> LiquidityOf(tokens, root, lower, upper)
                  [] pool # "concentrated" /\ swap.liquidity > 0 -> Deposit * Scale
                  [] OTHER -> SquareRoot(tokens.a * tokens.b)
  IN  [units |-> units, root |-> root, entry |-> tokens, amounts |-> tokens,
       lower |-> lower, upper |-> upper, ticks |-> swap.tick - HalfWidth .. swap.tick + HalfWidth - 1,
       fees |-> 0, loss |-> 0]

(* accrue_fees: a concentrated position earns while the tick is in range.  *)
FeeOf(p, swap) ==
  LET units == IF pool = "concentrated" THEN Scale * p.units ELSE p.units
  IN  IF swap.liquidity = 0 \/ (pool = "concentrated" /\ swap.tick \notin p.ticks) THEN 0
      ELSE (units * swap.fee) \div swap.liquidity

(* update_positions: the shares of a stable pool stay as they were.        *)
AmountsAfter(p, swap) ==
  CASE pool = "concentrated" -> Amounts(p.units, PriceRoot(swap), p.lower, p.upper)
    [] pool = "constant" ->
         IF swap.liquidity = 0 THEN [a |-> 0, b |-> 0]
         ELSE [a |-> (swap.a * p.units) \div swap.liquidity, b |-> (swap.b * p.units) \div swap.liquidity]
    [] OTHER -> p.amounts

(* net_value_usd                                                           *)
NetValue(p, root) == Value(p.amounts, root) + p.fees - Gas * Scale

BalanceLeft == 0

(* One iteration of run. Before the first one run takes what is left of    *)
(* the balance for the initial value.                                      *)
ProcessSwap(swap) ==
  LET opened == IF position = NoPosition THEN OpenInitialPosition(swap) ELSE position
      cash   == IF position = NoPosition THEN BalanceLeft ELSE balance
      start  == IF initial = NoPosition THEN cash ELSE initial
      fee    == FeeOf(opened, swap)
      root   == PriceRoot(swap)
      after  == [opened EXCEPT !.fees = @ + fee, !.amounts = AmountsAfter(opened, swap),
                               !.loss = Loss(opened, root)]
      value  == cash + NetValue(after, root)
  IN  /\ position' = after /\ balance' = cash /\ initial' = start
      /\ equity' = value
      /\ peak' = Greater(IF initial = NoPosition THEN start ELSE peak, value)
      /\ earning' = earning + (IF fee > 0 THEN 1 ELSE 0)
      /\ swaps' = swaps + 1 /\ last' = swap
      /\ UNCHANGED pool

(* net_pnl_usd                                                             *)
NetPnl == equity - initial

---------------------------------------------------------------------------

LpInit ==
  /\ pool \in PoolTypes
  /\ position = NoPosition /\ balance = Deposit * Scale /\ initial = NoPosition
  /\ equity = 0 /\ peak = 0 /\ earning = 0 /\ last = NoPosition /\ swaps = 0

LpNext == swaps < MaxSwaps /\ \E swap \in Swaps : ProcessSwap(swap)

LpSpec == LpInit /\ [][LpNext]_lpVars

---------------------------------------------------------------------------
(* Properties.                                                             *)

(* Providing liquidity never beats holding what was deposited, at whatever *)
(* price both are valued (amounts_from_liquidity and                       *)
(* liquidity_from_amounts): a range that is left and entered again gains   *)
(* nothing, and a loss against holding is one, and gone when the price is  *)
(* back where it was. (A constant-product position is a share of reserves  *)
(* that anybody may have moved, so only its formula is bound.) Yet the     *)
(* result's profit is the whole of what the position is worth: run takes   *)
(* for the initial value what opening the position has left in the balance,*)
(* which is nothing (run_lp_simulation).                                   *)
WorthAgainstDeposit ==
  position # NoPosition =>
    LET root == PriceRoot(last)
    IN  /\ pool # "constant" => Value(position.amounts, root) <= Value(position.entry, root)
        /\ position.loss <= 0
        /\ root = position.root => position.loss = 0
        /\ NetPnl = NetValue(position, root)

=============================================================================
