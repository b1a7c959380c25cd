----------------------- MODULE CandleSimulationProofs -----------------------
(***************************************************************************)
(* The money of a candle simulation, for any market, any leverage, any     *)
(* fees and funding, and any number of bars.                               *)
(***************************************************************************)
EXTENDS CandleSimulation, TLAPS

(* The money is inductive as it stands. The periods charged for are the    *)
(* time up to the last charge, which is not in the future.                 *)
FundedUpToNow == lastFunding = periods * Interval /\ lastFunding <= now

Inv == TypeOK /\ MoneyAddsUp /\ FundedUpToNow

---------------------------------------------------------------------------
(* The arithmetic                                                          *)

LEMMA DivIsInt == ASSUME NEW a \in Int, NEW b \in Nat \ {0} PROVE a \div b \in Int
OBVIOUS

LEMMA BarIsNumbers ==
  ASSUME NEW b \in Bars
  PROVE  b.open \in Nat /\ b.high \in Nat /\ b.low \in Nat /\ b.close \in Nat /\ b.volume \in Nat
BY CandleAssumption

LEMMA ExitAtIsInt ==
  ASSUME TypeOK, NEW p \in Int, NEW cost \in Costs
  PROVE  ExitAt(p, cost) \in Int
BY CandleAssumption DEF ExitAt, SellAt, BuyAt

LEMMA ProfitIsInt ==
  ASSUME TypeOK, NEW p \in Int
  PROVE  Profit(p) \in Int
<1>1. qty * (p - entry) \in Int /\ Lots \in Int
  BY DEF TypeOK, Lots, Absolute
<1>2. commission * Lots \in Int
  BY <1>1 DEF TypeOK
<1> QED
  BY <1>1, <1>2 DEF Profit, UnrealizedAt

---------------------------------------------------------------------------
(* The steps                                                               *)

(* A close moves the margin and the profit into the cash.                  *)
LEMMA CloseKeepsMoney ==
  ASSUME Inv, NEW p \in Int, ClosePosition(p), UNCHANGED <<funding, entryFees>>
  PROVE  /\ cash' \in Int /\ earned' \in Int /\ qty' \in Int /\ entry' \in Int /\ margin' \in Int
         /\ MoneyAddsUp'
<1>1. PICK profit \in Int : profit = Profit(p)
  BY ProfitIsInt DEF Inv
<1>2. cash' = cash + margin + profit /\ earned' = earned + profit /\ qty' = 0 /\ entry' = 0 /\ margin' = 0
  BY <1>1 DEF ClosePosition
<1>3. cash \in Int /\ earned \in Int /\ margin \in Int /\ entryFees \in Int /\ funding \in Int
  BY DEF Inv, TypeOK
<1>4. InitialCapital \in Nat
  BY CandleAssumption
<1> QED
  BY <1>2, <1>3, <1>4 DEF Inv, MoneyAddsUp

LEMMA KeepKeepsMoney ==
  ASSUME Inv, KeepPosition, UNCHANGED <<funding, entryFees>>
  PROVE  /\ cash' \in Int /\ earned' \in Int /\ qty' \in Int /\ entry' \in Int /\ margin' \in Int
         /\ MoneyAddsUp'
BY DEF Inv, TypeOK, KeepPosition, MoneyAddsUp

(* Opening posts what leaves the cash, and pays for the entry.             *)
LEMMA TurnKeepsMoney ==
  ASSUME Inv, NEW side \in {1, -1}, NEW exitCost \in Costs, NEW cost \in Costs,
         Turn(side, exitCost, cost), UNCHANGED funding
  PROVE  /\ cash' \in Int /\ earned' \in Int /\ qty' \in Int /\ entry' \in Int /\ margin' \in Int
         /\ entryFees' \in Int /\ MoneyAddsUp'
<1> DEFINE price == IF side = 1 THEN BuyAt(FillBase, cost) ELSE SellAt(FillBase, cost)
           profit == IF qty = 0 THEN 0 ELSE Profit(ExitAt(FillBase, exitCost))
           k == Lesser(SizeLeveraged(cash + (margin + profit), SizePct, Leverage, price), FillVolume)
           posted == (k * price) \div Leverage
<1>1. FillBase \in Nat /\ FillVolume \in Nat /\ cost < FillBase
  BY BarIsNumbers, CandleAssumption DEF Inv, TypeOK, FillBase, FillVolume
<1>2. cost \in Nat /\ exitCost \in Nat
  BY CandleAssumption
<1>3. price \in Nat \ {0}
  BY <1>1, <1>2 DEF BuyAt, SellAt
<1>4. profit \in Int
  BY <1>1, ExitAtIsInt, ProfitIsInt DEF Inv
<1>5. k \in Int
  <2> HIDE DEF price, profit
  <2>1. cash + (margin + profit) \in Int
    BY <1>4 DEF Inv, TypeOK
  <2>2. PICK money \in Int : money = cash + (margin + profit)
    BY <2>1
  <2>3. money * SizePct * Leverage \in Int
    BY CandleAssumption
  <2>4. PICK worth \in Int : worth = money * SizePct * Leverage
    BY <2>3
  <2>5. Positive(worth) \in Int
    BY DEF Positive
  <2>6. 100 * price \in Nat \ {0}
    BY <1>3
  <2>7. Positive(worth) \div (100 * price) \in Int
    BY <2>5, <2>6, DivIsInt
  <2>8. SizeLeveraged(cash + (margin + profit), SizePct, Leverage, price) \in Int
    BY <2>2, <2>4, <2>7 DEF SizeLeveraged
  <2> QED
    BY <1>1, <2>8 DEF Lesser
<1>6. posted \in Int /\ commission * k \in Int /\ side * k \in Int
  <2> HIDE DEF price, profit, k
  <2>1. k * price \in Int
    BY <1>3, <1>5
  <2>2. Leverage \in Nat \ {0}
    BY CandleAssumption
  <2>3. posted \in Int
    BY <2>1, <2>2, DivIsInt
  <2>4. commission * k \in Int /\ side * k \in Int
    BY <1>5 DEF Inv, TypeOK
  <2> QED
    BY <2>3, <2>4
<1>7. k = 0 => posted = 0
  <2> HIDE DEF price, profit, k
  <2>1. ASSUME k = 0 PROVE posted = 0
    <3>1. k * price = 0
      BY <1>3, <2>1
    <3>2. 0 \div Leverage = 0
      BY CandleAssumption
    <3> QED
      BY <3>1, <3>2
  <2> QED
    BY <2>1
<1>8. /\ cash' = cash + (margin + profit) - posted - commission * k
      /\ earned' = earned + profit
      /\ entryFees' = entryFees + commission * k
      /\ margin' = posted
      /\ qty' = side * k
      /\ entry' = IF k = 0 THEN 0 ELSE price
  BY DEF Turn
<1> HIDE DEF price, profit, k, posted
<1>9. PICK fee \in Int, paid \in Int, made \in Int :
        fee = commission * k /\ paid = posted /\ made = profit
  BY <1>4, <1>6
<1>10. cash \in Int /\ earned \in Int /\ margin \in Int /\ entryFees \in Int /\ funding \in Int
  BY DEF Inv, TypeOK
<1>11. InitialCapital \in Nat
  BY CandleAssumption
<1>12. cash + margin = InitialCapital + earned - entryFees - funding
  BY DEF Inv, MoneyAddsUp
<1>13. cash' + margin' = InitialCapital + earned' - entryFees' - funding'
  BY <1>8, <1>9, <1>10, <1>11, <1>12
<1>14. qty' = 0 => margin' = 0
  BY <1>5, <1>7, <1>8
<1>15. entry' \in Int
  BY <1>3, <1>8
<1>16. cash' \in Int /\ earned' \in Int /\ entryFees' \in Int
  BY <1>8, <1>9, <1>10
<1> QED
  BY <1>6, <1>8, <1>13, <1>14, <1>15, <1>16 DEF MoneyAddsUp

(* What a period costs leaves the cash and is funding paid.                *)
LEMMA FundingKeepsMoney ==
  ASSUME Inv, ChargeFunding
  PROVE  TypeOK' /\ MoneyAddsUp' /\ FundedUpToNow'
<1> DEFINE elapsed == (now - lastFunding) \div Interval
           cost == (Lots * bar.close * FundingPct * elapsed) \div 100
<1>1. /\ cash \in Int /\ margin \in Int /\ earned \in Int /\ entryFees \in Int /\ funding \in Int
      /\ now \in Nat /\ lastFunding \in Nat /\ periods \in Nat /\ qty \in Int /\ bar.close \in Nat
  BY BarIsNumbers DEF Inv, TypeOK
<1>2. Interval \in Nat \ {0} /\ FundingPct \in Nat /\ InitialCapital \in Nat
  BY CandleAssumption
<1>3. PICK waited \in Nat : waited = now - lastFunding
  BY <1>1 DEF Inv, FundedUpToNow
<1>4. PICK n \in Nat : n = waited \div Interval /\ n * Interval <= waited
  <2>1. waited \div Interval \in Nat /\ Interval * (waited \div Interval) <= waited
    BY <1>2
  <2>2. PICK n \in Nat : n = waited \div Interval /\ Interval * n <= waited
    BY <2>1
  <2>3. Interval * n = n * Interval
    BY <1>2
  <2> QED
    BY <2>2, <2>3
<1>5. elapsed = n
  BY <1>3, <1>4
<1>6. cost \in Int
  <2>1. PICK held \in Int : held = Lots
    BY <1>1 DEF Lots, Absolute
  <2>2. PICK worth \in Int : worth = held * bar.close
    BY <1>1
  <2>3. PICK rate \in Int : rate = worth * FundingPct
    BY <1>2
  <2>4. rate * n \in Int
    OBVIOUS
  <2> QED
    BY <1>5, <2>1, <2>2, <2>3, <2>4, DivIsInt
<1>7. /\ pc' = "margin" /\ UNCHANGED <<i, now, bar, next, qty, entry, margin, commission, earned, entryFees>>
      /\ \/ UNCHANGED <<cash, funding, periods, lastFunding>>
         \/ /\ cash' = cash - cost /\ funding' = funding + cost
            /\ periods' = periods + elapsed /\ lastFunding' = lastFunding + elapsed * Interval
  BY DEF ChargeFunding, FundedTo
<1> HIDE DEF elapsed, cost
<1>8. CASE UNCHANGED <<cash, funding, periods, lastFunding>>
  BY <1>7, <1>8 DEF Inv, TypeOK, MoneyAddsUp, FundedUpToNow, Phases
<1>9. CASE /\ cash' = cash - cost /\ funding' = funding + cost
           /\ periods' = periods + elapsed /\ lastFunding' = lastFunding + elapsed * Interval
  <2>1. PICK paid \in Int : paid = cost
    BY <1>6
  <2>2. MoneyAddsUp'
    BY <1>1, <1>2, <1>7, <1>9, <2>1 DEF Inv, MoneyAddsUp
  <2>3. PICK time \in Nat : time = n * Interval /\ time <= waited
    BY <1>2, <1>4
  <2>4. periods' = periods + n /\ lastFunding' = lastFunding + time
    BY <1>5, <1>9, <2>3
  <2>5. (periods + n) * Interval = periods * Interval + time
    BY <1>1, <1>2, <2>3
  <2>6. lastFunding' = periods' * Interval
    BY <2>4, <2>5 DEF Inv, FundedUpToNow
  <2>7. lastFunding' <= now
    BY <1>1, <1>3, <2>3, <2>4
  <2>8. FundedUpToNow'
    BY <1>7, <2>6, <2>7 DEF FundedUpToNow
  <2>9. cash' \in Int /\ funding' \in Int /\ periods' \in Nat /\ lastFunding' \in Nat
    BY <1>1, <1>9, <2>1, <2>3, <2>4
  <2> QED
    BY <1>7, <2>2, <2>8, <2>9 DEF Inv, TypeOK, Phases
<1> QED
  BY <1>7, <1>8, <1>9

(* What every other step of a bar leaves as it is.                         *)
LEMMA OtherStepsType ==
  ASSUME Inv, pc' \in Phases, UNCHANGED <<i, now, bar, next, lastFunding, commission, funding, periods>>,
         cash' \in Int, earned' \in Int, qty' \in Int, entry' \in Int, margin' \in Int, entryFees' \in Int,
         MoneyAddsUp'
  PROVE  Inv'
BY DEF Inv, TypeOK, FundedUpToNow

LEMMA ClosesArePriced ==
  ASSUME Inv, NEW cost \in Costs, NEW last \in Bars
  PROVE  /\ ExitAt(LiquidationExit(entry, IsLong, Leverage, Maintenance, Penalty), cost) \in Int
         /\ ExitAt(StopFill, cost) \in Int
         /\ ExitAt(TargetPrice \div 100, cost) \in Int
         /\ ExitAt(FillBase, cost) \in Int
         /\ ExitAt(last.close, cost) \in Int
<1>1. entry \in Int /\ bar.open \in Nat /\ bar.close \in Nat /\ next.open \in Nat /\ last.close \in Nat
  BY BarIsNumbers DEF Inv, TypeOK
<1>2. /\ Leverage \in Nat \ {0} /\ Maintenance \in Nat /\ Penalty \in Nat
      /\ StopLoss \in Nat /\ TakeProfit \in Nat
  BY CandleAssumption
<1>3. LiquidationExit(entry, IsLong, Leverage, Maintenance, Penalty) \in Int
  <2> DEFINE share == IF IsLong THEN Percent(Leverage) - 100 + Maintenance * Leverage
                                ELSE Percent(Leverage) + 100 - Maintenance * Leverage
  <2>1. share \in Int
    BY <1>2 DEF Percent
  <2>2. LiquidationPrice(entry, IsLong, Leverage, Maintenance) = entry * share
    BY Zenon DEF LiquidationPrice
  <2> HIDE DEF share
  <2>3. PICK factor \in Int : factor = share
    BY <2>1
  <2>4. entry * factor \in Int
    BY <1>1
  <2>5. Percent(Leverage) \in Nat \ {0}
    BY <1>2 DEF Percent
  <2>6. LiquidationPrice(entry, IsLong, Leverage, Maintenance) \div Percent(Leverage) \in Int
    BY <2>2, <2>3, <2>4, <2>5, DivIsInt
  <2> QED
    BY <1>2, <2>6 DEF LiquidationExit
<1>4. StopPrice \in Int /\ TargetPrice \in Int
  BY <1>1, <1>2 DEF StopPrice, TargetPrice
<1>5. StopPrice \div 100 \in Int /\ TargetPrice \div 100 \in Int
  BY <1>4, DivIsInt
<1>6. StopFill \in Int
  BY <1>1, <1>5 DEF StopFill
<1>7. FillBase \in Int
  BY <1>1 DEF FillBase
<1> QED
  BY <1>1, <1>3, <1>5, <1>6, <1>7, ExitAtIsInt DEF Inv

LEMMA InvInit == Init => Inv
<1> SUFFICES ASSUME Init PROVE Inv
  OBVIOUS
<1>1. InitialCapital \in Nat /\ Interval \in Nat /\ commission \in Nat
  BY CandleAssumption DEF Init
<1>2. TypeOK
  BY <1>1 DEF Init, TypeOK, Phases
<1>3. MoneyAddsUp
  BY <1>1 DEF Init, MoneyAddsUp
<1>4. FundedUpToNow
  BY <1>1 DEF Init, FundedUpToNow
<1> QED
  BY <1>2, <1>3, <1>4 DEF Inv

LEMMA InvNext == Inv /\ [Next]_vars => Inv'
<1> SUFFICES ASSUME Inv, [Next]_vars PROVE Inv'
  OBVIOUS
<1>a. entryFees \in Int
  BY DEF Inv, TypeOK
<1>1. CASE UNCHANGED vars
  BY <1>1 DEF vars, Inv, TypeOK, MoneyAddsUp, FundedUpToNow
<1>2. ASSUME NEW spacing \in Spacings, NextBar(spacing) PROVE Inv'
  <2>1. spacing \in Nat /\ commission' \in Nat
    BY <1>2, CandleAssumption DEF NextBar
  <2>2. MoneyAddsUp'
    BY <1>2, KeepKeepsMoney DEF NextBar
  <2>3. TypeOK'
    BY <1>2, <2>1 DEF Inv, TypeOK, NextBar, KeepPosition, Phases
  <2>4. FundedUpToNow'
    BY <1>2, <2>1 DEF Inv, TypeOK, NextBar, FundedUpToNow
  <2> QED
    BY <2>2, <2>3, <2>4 DEF Inv
<1>3. CASE ChargeFunding
  BY <1>3, FundingKeepsMoney DEF Inv
<1>4. ASSUME NEW cost \in Costs, CheckMargin(cost) PROVE Inv'
  <2>1. UNCHANGED <<i, now, bar, next, lastFunding, commission, funding, entryFees, periods>> /\ pc' \in Phases
    BY <1>4 DEF CheckMargin, Phases
  <2>2. CASE IsLiquidated
    <3> DEFINE exit == ExitAt(LiquidationExit(entry, IsLong, Leverage, Maintenance, Penalty), cost)
    <3>1. exit \in Int
      BY ClosesArePriced DEF Inv, TypeOK
    <3>2. ClosePosition(exit)
      BY <1>4, <2>2 DEF CheckMargin
    <3> HIDE DEF exit
    <3> QED
      BY <1>a, <2>1, <3>1, <3>2, CloseKeepsMoney, OtherStepsType
  <2>3. CASE ~IsLiquidated
    BY <1>a, <1>4, <2>1, <2>3, KeepKeepsMoney, OtherStepsType DEF CheckMargin
  <2> QED
    BY <2>2, <2>3
<1>5. ASSUME NEW cost \in Costs, StopOut(cost) PROVE Inv'
  <2>1. UNCHANGED <<i, now, bar, next, lastFunding, commission, funding, entryFees, periods>> /\ pc' \in Phases
    BY <1>5 DEF StopOut, Phases
  <2>2. ClosePosition(ExitAt(StopFill, cost))
    BY <1>5 DEF StopOut
  <2>3. ExitAt(StopFill, cost) \in Int
    BY ClosesArePriced DEF Inv, TypeOK
  <2> QED
    BY <1>a, <2>1, <2>2, <2>3, CloseKeepsMoney, OtherStepsType
<1>6. ASSUME NEW cost \in Costs, TakeTarget(cost) PROVE Inv'
  <2>1. UNCHANGED <<i, now, bar, next, lastFunding, commission, funding, entryFees, periods>> /\ pc' \in Phases
    BY <1>6 DEF TakeTarget, Phases
  <2>2. ClosePosition(ExitAt(TargetPrice \div 100, cost))
    BY <1>6 DEF TakeTarget
  <2>3. ExitAt(TargetPrice \div 100, cost) \in Int
    BY ClosesArePriced DEF Inv, TypeOK
  <2> QED
    BY <1>a, <2>1, <2>2, <2>3, CloseKeepsMoney, OtherStepsType
<1>7. ASSUME NEW cost \in Costs, Signal(cost) PROVE Inv'
  <2>1. UNCHANGED <<i, now, bar, next, lastFunding, commission, funding, periods>> /\ pc' \in Phases
    BY <1>7 DEF Signal, Phases
  <2>2. CASE KeepPosition /\ UNCHANGED entryFees
    BY <1>a, <2>1, <2>2, KeepKeepsMoney, OtherStepsType
  <2>3. CASE ClosePosition(ExitAt(FillBase, cost)) /\ UNCHANGED entryFees
    <3>1. ExitAt(FillBase, cost) \in Int
      BY ClosesArePriced DEF Inv, TypeOK
    <3> QED
      BY <1>a, <2>1, <2>3, <3>1, CloseKeepsMoney, OtherStepsType
  <2>4. ASSUME NEW side \in {1, -1}, NEW exitCost \in Costs, Turn(side, exitCost, cost) PROVE Inv'
    BY <2>1, <2>4, TurnKeepsMoney, OtherStepsType
  <2> QED
    BY <1>7, <2>2, <2>3, <2>4 DEF Signal
<1>8. ASSUME NEW cost \in Costs, NEW last \in Bars, CloseFinally(last, cost) PROVE Inv'
  <2>1. UNCHANGED <<i, now, bar, next, lastFunding, commission, funding, entryFees, periods>> /\ pc' \in Phases
    BY <1>8 DEF CloseFinally, Phases
  <2>2. CASE qty # 0
    <3>1. ExitAt(last.close, cost) \in Int
      BY ClosesArePriced
    <3>2. ClosePosition(ExitAt(last.close, cost))
      BY <1>8, <2>2 DEF CloseFinally
    <3> QED
      BY <1>a, <2>1, <3>1, <3>2, CloseKeepsMoney, OtherStepsType
  <2>3. CASE qty = 0
    BY <1>a, <1>8, <2>1, <2>3, KeepKeepsMoney, OtherStepsType DEF CloseFinally
  <2> QED
    BY <2>2, <2>3 DEF Inv, TypeOK
<1>9. CASE NoStop \/ Record
  <2>1. /\ UNCHANGED <<i, now, bar, next, lastFunding, commission, funding, entryFees, periods>>
        /\ pc' \in Phases /\ KeepPosition
    BY <1>9 DEF NoStop, Record, Phases
  <2> QED
    BY <1>a, <2>1, KeepKeepsMoney, OtherStepsType
<1> QED
  BY <1>1, <1>2, <1>3, <1>4, <1>5, <1>6, <1>7, <1>8, <1>9 DEF Next, Done

LEMMA Invariance == Spec => []Inv
BY InvInit, InvNext, PTL DEF Spec

---------------------------------------------------------------------------

(* Through any bars, reversals, stops, liquidations and funding, the cash  *)
(* and the margin are what the trade returns, the commissions and the      *)
(* funding leave of the capital.                                           *)
THEOREM MoneyIsKept == Spec => []MoneyAddsUp
<1>1. Inv => MoneyAddsUp
  BY DEF Inv
<1> QED
  BY <1>1, Invariance, PTL

(* Whatever the spacing of the bars and the funding interval, no time is   *)
(* charged for twice.                                                      *)
THEOREM FundingIsChargedOnce == Spec => []FundingOncePerPeriod
<1>1. Inv => FundingOncePerPeriod
  BY DEF Inv, FundedUpToNow, FundingOncePerPeriod
<1> QED
  BY <1>1, Invariance, PTL
=============================================================================
