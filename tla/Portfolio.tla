----------------------------- MODULE Portfolio -----------------------------
(***************************************************************************)
(* PortfolioState (portfoliomanager/src/lib.rs): the cash, the positions   *)
(* and the profit and loss of an account. The simulation loops hand it     *)
(* fills, spot or derivative, and mark it to the market once per item; a   *)
(* position is opened, enlarged, reduced and closed by fills, and an       *)
(* option also by its expiry.                                              *)
(*                                                                         *)
(* The code keeps a list of positions with a close time; it looks only for *)
(* the open one of a symbol and a side, and never opens a second, so that  *)
(* a position is found here by its symbol and its side, and a closed one   *)
(* is the empty one. The code's entry price is an average; here a position *)
(* keeps what it cost, the entry price times the quantity. Money and       *)
(* quantities are whole numbers (of lots), and what the cash does not buy  *)
(* in whole lots is not bought.                                            *)
(***************************************************************************)
EXTENDS Money, FiniteSetsExt

CONSTANTS
  BTC,             \* the one symbol apply_fill_executed knows, "BTC/USD"
  Futures,         \* the symbols of futures and perpetuals
  Options,         \* the symbols of options
  Multiplier,      \* contract_multiplier of a derivative
  Leverage,        \* PortfolioState::leverage
  InitialBalance,  \* the balance of with_balance
  Prices,          \* the prices of fills and marks
  Quantities,      \* the quantities of fills
  FeePerLot,       \* the fee of a fill is proportional to its quantity
  MaxLots,         \* bound on the quantity of a position
  MaxFills         \* bound on how many fills there are

ASSUME PortfolioAssumption ==
  /\ BTC \notin Futures \cup Options /\ Futures \cap Options = {}
  /\ Multiplier \in [Futures \cup Options -> Nat \ {0}]
  /\ Leverage \in Nat \ {0} /\ InitialBalance \in Nat /\ FeePerLot \in Nat
  /\ Prices \subseteq Nat \ {0} /\ Quantities \subseteq Nat \ {0}
  /\ MaxLots \in Nat /\ MaxFills \in Nat

Derivatives == Futures \cup Options
Symbols == {BTC} \cup Derivatives

VARIABLES
  balance,     \* free cash
  positions,   \* the open position of a symbol and a side
  net,         \* net_position
  realized,    \* realized_pnl
  unrealized,  \* unrealized_pnl, the total of the last mark
  feesPaid,    \* fees_paid
  fills,       \* how many fills were executed
  settled      \* history: quantity of the contracts that expired, longs less shorts

vars == <<balance, positions, net, realized, unrealized, feesPaid, fills, settled>>

PositionSides == {"Long", "Short"}
NoPosition == [qty |-> 0, cost |-> 0, margin |-> 0, pnl |-> 0, mark |-> 0]

Init ==
  /\ balance = InitialBalance
  /\ positions = [s \in Symbols |-> [side \in PositionSides |-> NoPosition]]
  /\ net = 0 /\ realized = 0 /\ unrealized = 0 /\ feesPaid = 0
  /\ fills = 0 /\ settled = 0

-----------------------------------------------------------------------------
(* What a fill does to the positions, the cash and the totals              *)

Sign(side) == IF side = "Long" THEN 1 ELSE -1

(* A purchase covers a short or opens a long; a sale closes a long or opens *)
(* a short.                                                                *)
Opens(side) == IF side = "Bid" THEN "Long" ELSE "Short"
Reduces(side) == IF side = "Bid" THEN "Short" ELSE "Long"

HasOpen(s, side) == positions[s][side].qty > 0

(* The value of q contracts at price p; spot has no multiplier.            *)
Value(s, p, q) == IF s = BTC THEN p * q ELSE p * q * Multiplier[s]

(* What can be opened at price p: 95% of the balance, times the leverage   *)
(* unless the instrument is an option. An option's multiplier is left out. *)
Affordable(s, p) ==
  IF s \in Options THEN Positive(balance * 95) \div (100 * p)
  ELSE Positive(balance * 95 * Leverage) \div (100 * Value(s, p, 1))

(* Mutant: any close releases the whole margin.                            *)
AllReleased(position, k) == position.margin

(* The part of the cost and of the margin that k of a position's lots have, *)
(* and their profit at price p, which knows no multiplier.                 *)
CostOf(position, k) == (position.cost * k) \div position.qty
Released(position, k) == (position.margin * k) \div position.qty
ProfitOf(position, side, p, k) == Sign(side) * (p * k - CostOf(position, k))

Enlarged(position, p, k, margin) ==
  [position EXCEPT !.qty = @ + k, !.cost = @ + p * k, !.margin = @ + margin, !.mark = p]

(* A part that is left keeps its mark and its unrealised profit.           *)
Reduced(position, k) ==
  IF k = position.qty THEN NoPosition
  ELSE [position EXCEPT !.qty = @ - k, !.cost = @ - CostOf(position, k),
                        !.margin = @ - Released(position, k)]

Executed(k) ==
  /\ fills' = fills + 1
  /\ feesPaid' = feesPaid + FeePerLot * k
  /\ UNCHANGED <<unrealized, settled>>

Open(s, side, p, k, margin, debit) ==
  /\ k > 0
  /\ positions[s][side].qty + k <= MaxLots
  /\ positions' = [positions EXCEPT ![s][side] = Enlarged(@, p, k, margin)]
  /\ balance' = balance - debit - FeePerLot * k
  /\ net' = net + Sign(side) * k
  /\ Executed(k)
  /\ UNCHANGED realized

Close(s, side, p, k, credit) ==
  /\ positions' = [positions EXCEPT ![s][side] = Reduced(@, k)]
  /\ balance' = balance + credit - FeePerLot * k
  /\ net' = net - Sign(side) * k
  /\ realized' = realized + ProfitOf(positions[s][side], side, p, k)
  /\ Executed(k)

-----------------------------------------------------------------------------
(* The operations                                                          *)

(* Mutant: only the margin is paid back.                                   *)
SpotCloseReleasing(side, p, q) ==
  LET reduces == Reduces(side)
      position == positions[BTC][reduces]
      k == Lesser(q, position.qty)
  IN  /\ fills < MaxFills
      /\ HasOpen(BTC, reduces)
      /\ Close(BTC, reduces, p, k, Released(position, k))

(* apply_fill_executed: what closes a position is capped by the position,  *)
(* what opens one by the cash, and posts its margin.                       *)
SpotClose(side, p, q) ==
  LET reduces == Reduces(side)
      position == positions[BTC][reduces]
      k == Lesser(q, position.qty)
  IN  /\ fills < MaxFills
      /\ HasOpen(BTC, reduces)
      /\ Close(BTC, reduces, p, k, Released(position, k) + ProfitOf(position, reduces, p, k))

SpotOpen(side, p, q) ==
  LET k == Lesser(q, Affordable(BTC, p))
      margin == Value(BTC, p, k) \div Leverage
  IN  /\ fills < MaxFills
      /\ ~HasOpen(BTC, Reduces(side))
      /\ Open(BTC, Opens(side), p, k, margin, margin)

(* apply_derivative_fill: a future posts and releases margin, an option is *)
(* paid for with its premium, and writing one is not capped by anything.   *)
DerivativeClose(s, side, p, q) ==
  LET reduces == Reduces(side)
      position == positions[s][reduces]
      k == Lesser(q, position.qty)
  IN  /\ fills < MaxFills
      /\ HasOpen(s, reduces)
      /\ Close(s, reduces, p, k,
               IF s \in Options THEN Sign(reduces) * Value(s, p, k) ELSE Released(position, k))

FutureOpen(s, side, p, q) ==
  LET k == Lesser(q, Affordable(s, p))
      margin == Value(s, p, k) \div Leverage
  IN  /\ fills < MaxFills
      /\ ~HasOpen(s, Reduces(side))
      /\ Open(s, Opens(side), p, k, margin, margin)

OptionBuy(s, p, q) ==
  LET k == Lesser(q, Affordable(s, p))
  IN  /\ fills < MaxFills
      /\ ~HasOpen(s, "Short")
      /\ Open(s, "Long", p, k, 0, Value(s, p, k))

OptionWrite(s, p, q) ==
  /\ fills < MaxFills
  /\ ~HasOpen(s, "Long")
  /\ Open(s, "Short", p, q, 0, -Value(s, p, q))

Marked(position, side, p, multiplier) ==
  IF position.qty = 0 THEN position
  ELSE [position EXCEPT !.mark = p,
                        !.pnl = Sign(side) * (p * position.qty - position.cost) * multiplier]

(* update_unrealized_pnl: every open position is marked at the one price,  *)
(* and no multiplier is applied.                                           *)
Mark(p) ==
  /\ positions' = [s \in Symbols |->
       [side \in PositionSides |-> Marked(positions[s][side], side, p, 1)]]
  /\ unrealized' = MapThenSumSet(LAMBDA s : positions'[s]["Long"].pnl + positions'[s]["Short"].pnl,
                                 Symbols)
  /\ UNCHANGED <<balance, net, realized, feesPaid, fills, settled>>

(* update_position_greeks: the model's price of an option, with the        *)
(* multiplier; the total of the last mark stays.                           *)
UpdateGreeks(s, p) ==
  /\ positions' = [positions EXCEPT ![s] =
       [side \in PositionSides |-> Marked(positions[s][side], side, p, Multiplier[s])]]
  /\ UNCHANGED <<balance, net, realized, unrealized, feesPaid, fills, settled>>

(* settle_expired_options: cash for the intrinsic value of the contracts;  *)
(* the net position and the total of the last mark stay.                   *)
Settle(s, intrinsic) ==
  LET long == positions[s]["Long"]
      short == positions[s]["Short"]
      worth == Value(s, intrinsic, long.qty) - Value(s, intrinsic, short.qty)
  IN  /\ \E side \in PositionSides : HasOpen(s, side)
      /\ positions' = [positions EXCEPT ![s] = [side \in PositionSides |-> NoPosition]]
      /\ balance' = balance + worth
      /\ realized' = realized + worth - (long.cost - short.cost) * Multiplier[s]
      /\ settled' = settled + long.qty - short.qty
      /\ UNCHANGED <<net, unrealized, feesPaid, fills>>

Next ==
  \/ \E side \in {"Bid", "Ask"}, p \in Prices, q \in Quantities :
       \/ SpotOpen(side, p, q)
       \/ SpotClose(side, p, q)
       \/ \E s \in Futures : FutureOpen(s, side, p, q)
       \/ \E s \in Derivatives : DerivativeClose(s, side, p, q)
  \/ \E s \in Options, p \in Prices, q \in Quantities :
       \/ OptionBuy(s, p, q)
       \/ OptionWrite(s, p, q)
  \/ \E p \in Prices : Mark(p)
  \/ \E s \in Options, p \in Prices : UpdateGreeks(s, p)
  \/ \E s \in Options, p \in Prices \cup {0} : Settle(s, p)

Spec == Init /\ [][Next]_vars

-----------------------------------------------------------------------------
(* Properties                                                              *)

PositionRecord ==
  [qty: Nat, cost: Nat, margin: Nat, pnl: Int, mark: Nat]

(* The kinds of the state. No fill sells more of a position than there is  *)
(* of it, so that no quantity, no cost and no margin is ever negative.     *)
(* (The total of the last mark, which is only reported, is left out.)      *)
TypeOK ==
  /\ balance \in Int /\ net \in Int /\ realized \in Int
  /\ feesPaid \in Nat /\ fills \in Nat /\ settled \in Int
  /\ positions \in [Symbols -> [PositionSides -> PositionRecord]]

(* A symbol is never held long and short at once: a sale first has to      *)
(* close the long, whatever path the fills come by.                        *)
OneSided == \A s \in Symbols : ~(HasOpen(s, "Long") /\ HasOpen(s, "Short"))

(* The margin a position holds stays the leveraged share of what it cost,  *)
(* over enlargements at other prices and partial closes; an option holds   *)
(* none.                                                                   *)
MarginIsItsShare ==
  \A s \in Symbols, side \in PositionSides :
    LET position == positions[s][side]
    IN  position.margin * Leverage = IF s \in Options THEN 0 ELSE Value(s, position.cost, 1)

(* What is tied up in a symbol: the margin of spot and futures, and the    *)
(* premiums of options, paid less received.                                *)
TiedUp(s, long, short) ==
  long.margin + short.margin + IF s \in Options THEN Value(s, long.cost - short.cost, 1) ELSE 0

Held(s) == TiedUp(s, positions[s]["Long"], positions[s]["Short"])

(* The profit in money that belongs to a change of the realised profit:    *)
(* the total counts an option's by the premium where a fill closes it and  *)
(* in money where it expires, and a future's never reaches the cash.       *)
Earned(s) ==
  CASE s = BTC     -> realized' - realized
    [] s \in Futures -> 0
    [] s \in Options -> (realized' - realized) * IF settled' = settled THEN Multiplier[s] ELSE 1

(* No step makes or loses money: whatever leaves the balance is tied up in *)
(* the one symbol the step is about or was paid as a fee, and what comes   *)
(* back is what was tied up and the profit.                                *)
MovesAddUp(s) ==
  /\ \A t \in Symbols \ {s} : positions'[t] = positions[t]
  /\ balance' + Held(s)' + feesPaid' = balance + Held(s) + feesPaid + Earned(s)

MovesNothing ==
  /\ UNCHANGED <<balance, realized, feesPaid>>
  /\ \A s \in Symbols : Held(s)' = Held(s)

CashAddsUp == [][(\E s \in Symbols : MovesAddUp(s)) \/ MovesNothing]_vars

(* get_total_value: an option counts with its mark, everything else with   *)
(* its margin and its unrealised profit.                                   *)
ValueOf(s) ==
  IF s \in Options
  THEN positions[s]["Long"].mark * positions[s]["Long"].qty
       - positions[s]["Short"].mark * positions[s]["Short"].qty
  ELSE positions[s]["Long"].margin + positions[s]["Long"].pnl
       + positions[s]["Short"].margin + positions[s]["Short"].pnl

TotalValue == balance + MapThenSumSet(ValueOf, Symbols)

(* A position is closed, wholly or in part, at the price it was last       *)
(* marked at.                                                              *)
ClosedAtItsMark(s, side) ==
  LET position == positions[s][side]
      k == position.qty - positions'[s][side].qty
  IN  /\ k > 0 /\ settled' = settled
      /\ position.pnl = ProfitOf(position, side, position.mark, position.qty)
      /\ realized' - realized = ProfitOf(position, side, position.mark, k)

(* "Get total portfolio value including the market value of all open       *)
(* positions": closing at the market turns a part of the position into     *)
(* cash, and costs the value of the account nothing but the fee.           *)
ClosingKeepsValue ==
  [][\A s \in Symbols, side \in PositionSides :
       ClosedAtItsMark(s, side) => TotalValue' + feesPaid' = TotalValue + feesPaid]_vars
=============================================================================
