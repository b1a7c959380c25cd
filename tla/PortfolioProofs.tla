-------------------------- MODULE PortfolioProofs --------------------------
(***************************************************************************)
(* Proofs about Portfolio, for every set of instruments, every multiplier, *)
(* leverage, price, quantity and fee.                                      *)
(***************************************************************************)
EXTENDS Portfolio, TLAPS

(* The share that k of n lots have of an amount is a part of the amount.   *)
LEMMA ShareIsAPart ==
  ASSUME NEW a \in Nat, NEW n \in Nat, n > 0, NEW k \in Nat, k <= n
  PROVE  (a * k) \div n \in 0 .. a
<1>1. a * k \in Nat /\ a * k <= a * n
  OBVIOUS
<1> DEFINE d == (a * k) \div n
           r == (a * k) % n
<1>2. d \in Int /\ r \in 0 .. (n - 1) /\ a * k = n * d + r
  BY <1>1
<1> HIDE DEF d, r
<1>3. d >= 0
  BY <1>1, <1>2
<1>4. d <= a
  BY <1>1, <1>2
<1> QED
  BY <1>2, <1>3, <1>4 DEF d

LEMMA QuotientIsNatural ==
  ASSUME NEW a \in Nat, NEW n \in Nat, n > 0
  PROVE  a \div n \in Nat
  OBVIOUS

(* The value of a quantity is a natural number, and spot and contracts are *)
(* worth something.                                                        *)
LEMMA ValueIsNatural ==
  ASSUME NEW s \in Symbols, NEW p \in Nat, NEW q \in Nat
  PROVE  /\ Value(s, p, q) \in Nat
         /\ p > 0 /\ q > 0 => Value(s, p, q) > 0
<1>1. CASE s = BTC
  BY <1>1 DEF Value
<1>2. CASE s # BTC
  <2>1. PICK m \in Nat : m = Multiplier[s] /\ m > 0
    BY <1>2, PortfolioAssumption DEF Symbols, Derivatives
  <2>2. PICK w \in Nat : w = p * q /\ (p > 0 /\ q > 0 => w > 0)
    OBVIOUS
  <2>3. Value(s, p, q) = w * m
    BY <1>2, <2>1, <2>2 DEF Value
  <2> QED
    BY <2>1, <2>2, <2>3
<1> QED
  BY <1>1, <1>2

(* What can be afforded is a whole number of lots, with any balance.       *)
LEMMA AffordableIsNatural ==
  ASSUME TypeOK, NEW s \in Symbols, NEW p \in Prices
  PROVE  Affordable(s, p) \in Nat
<1>1. p \in Nat /\ p > 0 /\ Leverage \in Nat /\ balance \in Int
  BY PortfolioAssumption DEF TypeOK
<1>2. \A n \in Int : Positive(n) \in Nat
  BY DEF Positive
<1>3. CASE s \in Options
  <2>1. balance * 95 \in Int /\ 100 * p \in Nat /\ 100 * p > 0
    BY <1>1
  <2> QED
    BY <1>2, <1>3, <2>1, QuotientIsNatural DEF Affordable
<1>4. CASE s \notin Options
  <2>1. Value(s, p, 1) \in Nat /\ Value(s, p, 1) > 0
    BY <1>1, ValueIsNatural
  <2>2. 100 * Value(s, p, 1) \in Nat /\ 100 * Value(s, p, 1) > 0
    BY <2>1
  <2>3. balance * 95 * Leverage \in Int
    BY <1>1
  <2> QED
    BY <1>2, <1>4, <2>2, <2>3, QuotientIsNatural DEF Affordable
<1> QED
  BY <1>3, <1>4

(* What a fill makes of a position is a position again.                    *)
LEMMA EnlargedIsPosition ==
  ASSUME NEW position \in PositionRecord, NEW p \in Nat, NEW k \in Nat, NEW margin \in Nat
  PROVE  Enlarged(position, p, k, margin) \in PositionRecord
<1>1. PICK w \in Nat : w = p * k
  OBVIOUS
<1>2. /\ position.qty + k \in Nat
      /\ position.cost + w \in Nat
      /\ position.margin + margin \in Nat
  BY DEF PositionRecord
<1>3. [position EXCEPT !.qty = @ + k, !.cost = @ + w, !.margin = @ + margin, !.mark = p]
        \in PositionRecord
  BY <1>2 DEF PositionRecord
<1> QED
  BY <1>1, <1>3 DEF Enlarged

LEMMA ReducedIsPosition ==
  ASSUME NEW position \in PositionRecord, NEW k \in Nat, k <= position.qty, position.qty > 0
  PROVE  /\ Reduced(position, k) \in PositionRecord
         /\ CostOf(position, k) \in Nat
         /\ Released(position, k) \in Nat
<1>1. position.qty \in Nat /\ position.cost \in Nat /\ position.margin \in Nat
  BY DEF PositionRecord
<1>2. CostOf(position, k) \in 0 .. position.cost
  BY <1>1, ShareIsAPart DEF CostOf
<1>3. Released(position, k) \in 0 .. position.margin
  BY <1>1, ShareIsAPart DEF Released
<1>4. NoPosition \in PositionRecord
  BY DEF NoPosition, PositionRecord
<1>5. /\ position.qty - k \in Nat
      /\ position.cost - CostOf(position, k) \in Nat
      /\ position.margin - Released(position, k) \in Nat
  BY <1>1, <1>2, <1>3
<1>6. [position EXCEPT !.qty = @ - k, !.cost = @ - CostOf(position, k),
                       !.margin = @ - Released(position, k)] \in PositionRecord
  BY <1>5 DEF PositionRecord
<1> QED
  BY <1>1, <1>2, <1>3, <1>4, <1>6 DEF Reduced

(* A fill that opens a side keeps the types, and the symbol one-sided if   *)
(* the other side of it was closed.                                        *)
LEMMA OpenKeeps ==
  ASSUME TypeOK, OneSided,
         NEW s \in Symbols, NEW side \in PositionSides,
         \A other \in PositionSides \ {side} : ~HasOpen(s, other),
         NEW p \in Nat, NEW k \in Nat, NEW margin \in Nat, NEW debit \in Int,
         Open(s, side, p, k, margin, debit)
  PROVE  TypeOK' /\ OneSided'
<1>1. positions \in [Symbols -> [PositionSides -> PositionRecord]]
  BY DEF TypeOK
<1>2. Enlarged(positions[s][side], p, k, margin) \in PositionRecord
  BY <1>1, EnlargedIsPosition
<1>3. positions' = [positions EXCEPT ![s][side] = Enlarged(positions[s][side], p, k, margin)]
  BY DEF Open
<1>4. positions' \in [Symbols -> [PositionSides -> PositionRecord]]
  BY <1>1, <1>2, <1>3
<1>5. PICK paid \in Nat : paid = FeePerLot * k
  BY PortfolioAssumption
<1>6. /\ balance' \in Int /\ feesPaid' \in Nat /\ fills' \in Nat
      /\ realized' = realized /\ settled' = settled
  BY <1>5 DEF TypeOK, Open, Executed
<1>7. net' \in Int
  BY DEF TypeOK, Open, Sign
<1>8. TypeOK'
  BY <1>4, <1>6, <1>7 DEF TypeOK
<1>9. \A t \in Symbols, other \in PositionSides :
        (t # s \/ other # side) => positions'[t][other] = positions[t][other]
  BY <1>1, <1>3
<1>10. OneSided'
  BY <1>9 DEF OneSided, HasOpen, PositionSides
<1> QED
  BY <1>8, <1>10

(* A fill that reduces a side by no more than there is of it keeps both.   *)
LEMMA CloseKeeps ==
  ASSUME TypeOK, OneSided,
         NEW s \in Symbols, NEW side \in PositionSides, HasOpen(s, side),
         NEW p \in Nat, NEW k \in Nat, k <= positions[s][side].qty, NEW credit \in Int,
         Close(s, side, p, k, credit)
  PROVE  TypeOK' /\ OneSided'
<1>1. positions \in [Symbols -> [PositionSides -> PositionRecord]]
  BY DEF TypeOK
<1>2. PICK position \in PositionRecord : position = positions[s][side]
  BY <1>1
<1>3. position.qty > 0 /\ k <= position.qty
  BY <1>2 DEF HasOpen
<1>4. Reduced(position, k) \in PositionRecord /\ CostOf(position, k) \in Nat
  BY <1>3, ReducedIsPosition
<1>5. positions' = [positions EXCEPT ![s][side] = Reduced(position, k)]
  BY <1>2 DEF Close
<1>6. positions' \in [Symbols -> [PositionSides -> PositionRecord]]
  BY <1>1, <1>4, <1>5
<1>7. PICK paid \in Nat : paid = FeePerLot * k
  BY PortfolioAssumption
<1>8. balance' \in Int /\ feesPaid' \in Nat /\ fills' \in Nat /\ settled' = settled
  BY <1>7 DEF TypeOK, Close, Executed
<1>9. net' \in Int
  BY DEF TypeOK, Close, Sign
<1>10. PICK proceeds \in Nat : proceeds = p * k
  OBVIOUS
<1>11. ProfitOf(position, side, p, k) \in Int
  BY <1>4, <1>10 DEF ProfitOf, Sign
<1>12. realized' \in Int
  BY <1>2, <1>11 DEF TypeOK, Close
<1>13. TypeOK'
  BY <1>6, <1>8, <1>9, <1>12 DEF TypeOK
<1>14. \A t \in Symbols, other \in PositionSides :
         (t # s \/ other # side) => positions'[t][other] = positions[t][other]
  BY <1>1, <1>5
<1>15. OneSided'
  BY <1>2, <1>3, <1>14 DEF OneSided, HasOpen, PositionSides
<1> QED
  BY <1>13, <1>15

(* The profit of a close, and what it credits, are whole amounts of money. *)
LEMMA CloseCredits ==
  ASSUME TypeOK, NEW s \in Symbols, NEW side \in PositionSides, HasOpen(s, side),
         NEW p \in Nat, NEW k \in Nat, k <= positions[s][side].qty
  PROVE  /\ Released(positions[s][side], k) \in Int
         /\ ProfitOf(positions[s][side], side, p, k) \in Int
         /\ Sign(side) * Value(s, p, k) \in Int
<1>1. PICK position \in PositionRecord : position = positions[s][side]
  BY DEF TypeOK
<1>2. position.qty > 0
  BY <1>1 DEF HasOpen
<1>3. Released(position, k) \in Nat /\ CostOf(position, k) \in Nat
  BY <1>1, <1>2, ReducedIsPosition
<1>4. PICK proceeds \in Nat : proceeds = p * k
  OBVIOUS
<1>5. ProfitOf(position, side, p, k) \in Int
  BY <1>3, <1>4 DEF ProfitOf, Sign
<1>6. Sign(side) * Value(s, p, k) \in Int
  BY ValueIsNatural DEF Sign
<1> QED
  BY <1>1, <1>3, <1>5, <1>6

(* The quantity, the margin and the value of what is opened are natural.   *)
LEMMA OpeningIsNatural ==
  ASSUME TypeOK, NEW s \in Symbols, NEW p \in Prices, NEW q \in Quantities
  PROVE  /\ Lesser(q, Affordable(s, p)) \in Nat
         /\ Value(s, p, Lesser(q, Affordable(s, p))) \in Nat
         /\ Value(s, p, Lesser(q, Affordable(s, p))) \div Leverage \in Nat
<1>1. p \in Nat /\ q \in Nat /\ Leverage \in Nat /\ Leverage > 0
  BY PortfolioAssumption
<1>2. Lesser(q, Affordable(s, p)) \in Nat
  BY <1>1, AffordableIsNatural DEF Lesser
<1>3. Value(s, p, Lesser(q, Affordable(s, p))) \in Nat
  BY <1>1, <1>2, ValueIsNatural
<1> QED
  BY <1>1, <1>2, <1>3, QuotientIsNatural

(* Marking changes the mark and the profit of a position and nothing else. *)
LEMMA MarkedIsPosition ==
  ASSUME NEW position \in PositionRecord, NEW side \in PositionSides,
         NEW p \in Nat, NEW multiplier \in Nat
  PROVE  /\ Marked(position, side, p, multiplier) \in PositionRecord
         /\ Marked(position, side, p, multiplier).qty = position.qty
         /\ Marked(position, side, p, multiplier).cost = position.cost
         /\ Marked(position, side, p, multiplier).margin = position.margin
<1>1. PICK worth \in Nat : worth = p * position.qty
  BY DEF PositionRecord
<1>2. PICK gain \in Int : gain = Sign(side) * (worth - position.cost)
  BY DEF PositionRecord, Sign
<1>3. PICK profit \in Int : profit = gain * multiplier
  OBVIOUS
<1>4. Marked(position, side, p, multiplier) =
        IF position.qty = 0 THEN position ELSE [position EXCEPT !.mark = p, !.pnl = profit]
  BY <1>1, <1>2, <1>3 DEF Marked
<1> QED
  BY <1>4 DEF PositionRecord

LEMMA MarkLeaves ==
  ASSUME TypeOK, NEW p \in Prices, Mark(p), NEW s \in Symbols, NEW side \in PositionSides
  PROVE  /\ positions'[s][side] \in PositionRecord
         /\ positions'[s][side].qty = positions[s][side].qty
         /\ positions'[s][side].cost = positions[s][side].cost
         /\ positions'[s][side].margin = positions[s][side].margin
<1>1. positions'[s][side] = Marked(positions[s][side], side, p, 1)
  BY DEF Mark
<1>2. positions[s][side] \in PositionRecord /\ p \in Nat
  BY PortfolioAssumption DEF TypeOK
<1> QED
  BY <1>1, <1>2, MarkedIsPosition

LEMMA UpdateGreeksLeaves ==
  ASSUME TypeOK, NEW t \in Options, NEW p \in Prices, UpdateGreeks(t, p),
         NEW s \in Symbols, NEW side \in PositionSides
  PROVE  /\ positions'[s][side] \in PositionRecord
         /\ positions'[s][side].qty = positions[s][side].qty
         /\ positions'[s][side].cost = positions[s][side].cost
         /\ positions'[s][side].margin = positions[s][side].margin
<1>1. positions[s][side] \in PositionRecord
  BY DEF TypeOK
<1>2. CASE s = t
  <2>1. positions'[s][side] = Marked(positions[s][side], side, p, Multiplier[t])
    BY <1>2 DEF UpdateGreeks, TypeOK
  <2>2. p \in Nat /\ Multiplier[t] \in Nat
    BY PortfolioAssumption
  <2> QED
    BY <1>1, <2>1, <2>2, MarkedIsPosition
<1>3. CASE s # t
  <2>1. positions'[s] = positions[s]
    BY <1>3 DEF UpdateGreeks, TypeOK
  <2> QED
    BY <1>1, <2>1
<1> QED
  BY <1>2, <1>3

LEMMA MarkKeeps ==
  ASSUME TypeOK, OneSided, NEW p \in Prices, Mark(p)
  PROVE  TypeOK' /\ OneSided'
<1>1. positions' = [s \in Symbols |-> [side \in PositionSides |-> positions'[s][side]]]
  BY DEF Mark
<1>2. positions' \in [Symbols -> [PositionSides -> PositionRecord]]
  BY <1>1, MarkLeaves
<1> QED
  BY <1>2, MarkLeaves DEF TypeOK, OneSided, HasOpen, Mark, PositionSides

LEMMA UpdateGreeksKeeps ==
  ASSUME TypeOK, OneSided, NEW s \in Options, NEW p \in Prices, UpdateGreeks(s, p)
  PROVE  TypeOK' /\ OneSided'
<1> DEFINE marked == [side \in PositionSides |-> Marked(positions[s][side], side, p, Multiplier[s])]
<1>1. positions' = [positions EXCEPT ![s] = marked] /\ s \in Symbols
  BY DEF UpdateGreeks, Symbols, Derivatives
<1>2. positions \in [Symbols -> [PositionSides -> PositionRecord]]
  BY DEF TypeOK
<1>3. \A side \in PositionSides : positions'[s][side] = marked[side]
  BY <1>1, <1>2
<1>4. marked \in [PositionSides -> PositionRecord]
  BY <1>1, <1>3, UpdateGreeksLeaves
<1> HIDE DEF marked
<1>5. positions' \in [Symbols -> [PositionSides -> PositionRecord]]
  BY <1>1, <1>2, <1>4
<1> QED
  BY <1>5, UpdateGreeksLeaves DEF TypeOK, OneSided, HasOpen, UpdateGreeks, PositionSides

LEMMA SettleKeeps ==
  ASSUME TypeOK, OneSided, NEW s \in Options, NEW p \in Nat, Settle(s, p)
  PROVE  TypeOK' /\ OneSided'
<1>1. s \in Symbols /\ Multiplier[s] \in Nat
  BY PortfolioAssumption DEF Symbols, Derivatives
<1>2. positions \in [Symbols -> [PositionSides -> PositionRecord]]
  BY DEF TypeOK
<1>3. PICK long \in PositionRecord : long = positions[s]["Long"]
  BY <1>1, <1>2 DEF PositionSides
<1>4. PICK short \in PositionRecord : short = positions[s]["Short"]
  BY <1>1, <1>2 DEF PositionSides
<1>5. long.qty \in Nat /\ short.qty \in Nat /\ long.cost \in Nat /\ short.cost \in Nat
  BY DEF PositionRecord
<1>6. PICK worth \in Int : worth = Value(s, p, long.qty) - Value(s, p, short.qty)
  <2>1. Value(s, p, long.qty) \in Nat
    BY <1>1, <1>5, ValueIsNatural
  <2>2. Value(s, p, short.qty) \in Nat
    BY <1>1, <1>5, ValueIsNatural
  <2> QED
    BY <2>1, <2>2
<1>7. PICK premiums \in Int : premiums = (long.cost - short.cost) * Multiplier[s]
  BY <1>1, <1>5
<1>8. balance' \in Int /\ realized' \in Int /\ settled' \in Int
  BY <1>3, <1>4, <1>5, <1>6, <1>7 DEF TypeOK, Settle
<1> DEFINE closed == [side \in PositionSides |-> NoPosition]
<1>9. closed \in [PositionSides -> PositionRecord] /\ \A side \in PositionSides : closed[side].qty = 0
  BY DEF NoPosition, PositionRecord
<1>10. positions' = [positions EXCEPT ![s] = closed]
  BY DEF Settle
<1> HIDE DEF closed
<1>11. positions' \in [Symbols -> [PositionSides -> PositionRecord]]
  BY <1>2, <1>9, <1>10
<1>12. \A t \in Symbols, side \in PositionSides :
         positions'[t][side].qty = 0 \/ positions'[t][side] = positions[t][side]
  BY <1>2, <1>9, <1>10
<1>13. OneSided'
  BY <1>12 DEF OneSided, HasOpen, PositionSides
<1> QED
  BY <1>8, <1>11, <1>13 DEF TypeOK, Settle

(* Every operation keeps the types and the symbols one-sided.              *)
LEMMA StepKeeps ==
  ASSUME TypeOK, OneSided, Next
  PROVE  TypeOK' /\ OneSided'
<1>1. Prices \subseteq Nat /\ Quantities \subseteq Nat
  BY PortfolioAssumption
<1>2. positions \in [Symbols -> [PositionSides -> PositionRecord]]
  BY DEF TypeOK
<1>3. /\ BTC \in Symbols /\ Futures \subseteq Symbols /\ Options \subseteq Symbols
      /\ Derivatives \subseteq Symbols
  BY DEF Symbols, Derivatives
<1>4. ASSUME NEW side \in {"Bid", "Ask"}
      PROVE  /\ Opens(side) \in PositionSides /\ Reduces(side) \in PositionSides
             /\ PositionSides \ {Opens(side)} = {Reduces(side)}
  BY <1>4 DEF Opens, Reduces, PositionSides
<1>5. ASSUME NEW s \in Symbols, NEW side \in PositionSides, NEW q \in Quantities
      PROVE  /\ Lesser(q, positions[s][side].qty) \in Nat
             /\ Lesser(q, positions[s][side].qty) <= positions[s][side].qty
  <2>1. positions[s][side].qty \in Nat /\ q \in Nat
    BY <1>1, <1>2 DEF PositionRecord
  <2> QED
    BY <2>1 DEF Lesser
<1>6. ASSUME NEW side \in {"Bid", "Ask"}, NEW p \in Prices, NEW q \in Quantities,
             SpotOpen(side, p, q)
      PROVE  TypeOK' /\ OneSided'
  <2> DEFINE k == Lesser(q, Affordable(BTC, p))
             margin == Value(BTC, p, k) \div Leverage
  <2>1. k \in Nat /\ margin \in Nat /\ margin \in Int
    BY <1>3, OpeningIsNatural
  <2>2. Open(BTC, Opens(side), p, k, margin, margin) /\ ~HasOpen(BTC, Reduces(side))
    BY <1>6 DEF SpotOpen
  <2> HIDE DEF k, margin
  <2> QED
    BY <1>1, <1>3, <1>4, <2>1, <2>2, OpenKeeps
<1>7. ASSUME NEW side \in {"Bid", "Ask"}, NEW p \in Prices, NEW q \in Quantities,
             SpotClose(side, p, q)
      PROVE  TypeOK' /\ OneSided'
  <2> DEFINE reduces == Reduces(side)
             position == positions[BTC][reduces]
             k == Lesser(q, position.qty)
             credit == Released(position, k) + ProfitOf(position, reduces, p, k)
  <2>1. HasOpen(BTC, reduces) /\ Close(BTC, reduces, p, k, credit)
    BY <1>7 DEF SpotClose
  <2>2. reduces \in PositionSides /\ k \in Nat /\ k <= positions[BTC][reduces].qty /\ p \in Nat
    BY <1>1, <1>3, <1>4, <1>5
  <2>3. credit \in Int
    BY <1>3, <2>1, <2>2, CloseCredits
  <2> HIDE DEF reduces, k, credit
  <2> QED
    BY <1>3, <2>1, <2>2, <2>3, CloseKeeps
<1>8. ASSUME NEW s \in Futures, NEW side \in {"Bid", "Ask"}, NEW p \in Prices, NEW q \in Quantities,
             FutureOpen(s, side, p, q)
      PROVE  TypeOK' /\ OneSided'
  <2> DEFINE k == Lesser(q, Affordable(s, p))
             margin == Value(s, p, k) \div Leverage
  <2>1. k \in Nat /\ margin \in Nat /\ margin \in Int
    BY <1>3, OpeningIsNatural
  <2>2. Open(s, Opens(side), p, k, margin, margin) /\ ~HasOpen(s, Reduces(side))
    BY <1>8 DEF FutureOpen
  <2> HIDE DEF k, margin
  <2> QED
    BY <1>1, <1>3, <1>4, <2>1, <2>2, OpenKeeps
<1>9. ASSUME NEW s \in Derivatives, NEW side \in {"Bid", "Ask"}, NEW p \in Prices,
             NEW q \in Quantities, DerivativeClose(s, side, p, q)
      PROVE  TypeOK' /\ OneSided'
  <2> DEFINE reduces == Reduces(side)
             position == positions[s][reduces]
             k == Lesser(q, position.qty)
             credit == IF s \in Options THEN Sign(reduces) * Value(s, p, k)
                                        ELSE Released(position, k)
  <2>1. HasOpen(s, reduces) /\ Close(s, reduces, p, k, credit)
    BY <1>9 DEF DerivativeClose
  <2>2. reduces \in PositionSides /\ k \in Nat /\ k <= positions[s][reduces].qty /\ p \in Nat
    BY <1>1, <1>3, <1>4, <1>5
  <2>3. credit \in Int
    BY <1>3, <2>1, <2>2, CloseCredits
  <2> HIDE DEF reduces, k, credit
  <2> QED
    BY <1>3, <2>1, <2>2, <2>3, CloseKeeps
<1>10. ASSUME NEW s \in Options, NEW p \in Prices, NEW q \in Quantities, OptionBuy(s, p, q)
       PROVE  TypeOK' /\ OneSided'
  <2> DEFINE k == Lesser(q, Affordable(s, p))
             debit == Value(s, p, k)
  <2>1. k \in Nat /\ debit \in Int
    BY <1>3, OpeningIsNatural
  <2>2. Open(s, "Long", p, k, 0, debit) /\ ~HasOpen(s, "Short")
    BY <1>10 DEF OptionBuy
  <2>3. PositionSides \ {"Long"} = {"Short"} /\ "Long" \in PositionSides
    BY DEF PositionSides
  <2> HIDE DEF k, debit
  <2> QED
    BY <1>1, <1>3, <2>1, <2>2, <2>3, OpenKeeps
<1>11. ASSUME NEW s \in Options, NEW p \in Prices, NEW q \in Quantities, OptionWrite(s, p, q)
       PROVE  TypeOK' /\ OneSided'
  <2> DEFINE debit == -Value(s, p, q)
  <2>1. debit \in Int
    BY <1>1, <1>3, ValueIsNatural
  <2>2. Open(s, "Short", p, q, 0, debit) /\ ~HasOpen(s, "Long")
    BY <1>11 DEF OptionWrite
  <2>3. PositionSides \ {"Short"} = {"Long"} /\ "Short" \in PositionSides
    BY DEF PositionSides
  <2> HIDE DEF debit
  <2> QED
    BY <1>1, <1>3, <2>1, <2>2, <2>3, OpenKeeps
<1>12. ASSUME NEW s \in Options, NEW p \in Prices \cup {0}, Settle(s, p)
       PROVE  TypeOK' /\ OneSided'
  BY <1>1, <1>12, SettleKeeps
<1> QED
  BY <1>6, <1>7, <1>8, <1>9, <1>10, <1>11, <1>12, MarkKeeps, UpdateGreeksKeeps DEF Next

(* Whatever fills, marks and expiries come, in whatever order, no position *)
(* goes below zero, and no symbol is ever held long and short at once.     *)
THEOREM PositionsAreSound == Spec => [](TypeOK /\ OneSided)
<1>1. Init => TypeOK /\ OneSided
  BY PortfolioAssumption
  DEF Init, TypeOK, OneSided, HasOpen, NoPosition, PositionRecord, PositionSides
<1>2. TypeOK /\ OneSided /\ [Next]_vars => TypeOK' /\ OneSided'
  <2>1. TypeOK /\ OneSided /\ UNCHANGED vars => TypeOK' /\ OneSided'
    BY DEF TypeOK, OneSided, HasOpen, vars
  <2> QED
    BY <2>1, StepKeeps
<1> QED
  BY <1>1, <1>2, PTL DEF Spec

-----------------------------------------------------------------------------
(* No step makes or loses money.                                           *)

(* What is left of a position and the share that was taken add up to it,   *)
(* also when nothing is left.                                              *)
LEMMA ReducedByItsShare ==
  ASSUME NEW position \in PositionRecord, NEW k \in Nat, k <= position.qty, position.qty > 0
  PROVE  /\ Reduced(position, k).cost = position.cost - CostOf(position, k)
         /\ Reduced(position, k).margin = position.margin - Released(position, k)
<1>1. position.qty \in Nat /\ position.cost \in Nat /\ position.margin \in Nat
  BY DEF PositionRecord
<1>2. ASSUME NEW a \in Nat, NEW n \in Nat, n > 0
      PROVE  (a * n) \div n = a
  BY <1>2
<1>3. CASE k = position.qty
  <2>1. CostOf(position, k) = position.cost /\ Released(position, k) = position.margin
    BY <1>1, <1>2, <1>3 DEF CostOf, Released
  <2> QED
    BY <1>1, <1>3, <2>1 DEF Reduced, NoPosition
<1>4. CASE k # position.qty
  BY <1>4 DEF Reduced, PositionRecord
<1> QED
  BY <1>3, <1>4

(* What is tied up in an option and in anything else.                      *)
LEMMA TiedUpIs ==
  ASSUME NEW s \in Symbols, NEW long \in PositionRecord, NEW short \in PositionRecord
  PROVE  TiedUp(s, long, short) = long.margin + short.margin +
           IF s \in Options THEN (long.cost - short.cost) * Multiplier[s] ELSE 0
<1>1. PICK premiums \in Int : premiums = long.cost - short.cost
  BY DEF PositionRecord
<1>2. CASE s \in Options
  <2>1. s # BTC
    BY <1>2, PortfolioAssumption
  <2>2. premiums * 1 = premiums
    OBVIOUS
  <2> QED
    BY <1>1, <1>2, <2>1, <2>2 DEF TiedUp, Value
<1>3. CASE s \notin Options
  BY <1>3 DEF TiedUp
<1> QED
  BY <1>2, <1>3

(* Opening a position ties up its margin, or what an option's premium is   *)
(* worth, and earns nothing.                                               *)
LEMMA OpenMoves ==
  ASSUME TypeOK, NEW s \in Symbols, NEW side \in PositionSides,
         NEW p \in Nat, NEW k \in Nat, NEW margin \in Nat, NEW debit \in Int,
         debit = margin + IF s \in Options THEN Sign(side) * (p * k * Multiplier[s]) ELSE 0,
         Open(s, side, p, k, margin, debit)
  PROVE  MovesAddUp(s)
<1>1. positions \in [Symbols -> [PositionSides -> PositionRecord]]
  BY DEF TypeOK
<1>2. PICK position \in PositionRecord : position = positions[s][side]
  BY <1>1
<1>3. PICK enlarged \in PositionRecord : enlarged = Enlarged(position, p, k, margin)
  BY EnlargedIsPosition
<1>4. positions' = [positions EXCEPT ![s][side] = enlarged]
  BY <1>2, <1>3 DEF Open
<1>5. \A t \in Symbols \ {s} : positions'[t] = positions[t]
  BY <1>1, <1>4
<1>6. PICK paid \in Nat : paid = FeePerLot * k
  BY PortfolioAssumption
<1>7. balance' = balance - debit - paid /\ feesPaid' = feesPaid + paid
  BY <1>6 DEF Open, Executed
<1>8. PICK w \in Nat : w = p * k
  OBVIOUS
<1>9. /\ enlarged.cost = position.cost + w
      /\ enlarged.margin = position.margin + margin
  BY <1>3, <1>8 DEF Enlarged, PositionRecord
<1>10. /\ positions'[s][side] = enlarged
       /\ \A other \in PositionSides \ {side} : positions'[s][other] = positions[s][other]
  BY <1>1, <1>4
<1>11. PICK long \in PositionRecord : long = positions[s]["Long"]
  BY <1>1 DEF PositionSides
<1>12. PICK short \in PositionRecord : short = positions[s]["Short"]
  BY <1>1 DEF PositionSides
<1>13. /\ long.cost \in Nat /\ long.margin \in Nat /\ short.cost \in Nat /\ short.margin \in Nat
       /\ balance \in Int /\ feesPaid \in Int
  BY DEF PositionRecord, TypeOK
<1>14. Earned(s) = 0
  <2>1. realized' - realized = 0 /\ settled' = settled
    BY DEF Open, Executed, TypeOK
  <2>2. CASE s \in Options
    <3>1. Multiplier[s] \in Nat /\ s # BTC /\ s \notin Futures
      BY <2>2, PortfolioAssumption
    <3>2. Earned(s) = 0 * IF settled' = settled THEN Multiplier[s] ELSE 1
      BY <2>1, <2>2, <3>1 DEF Earned
    <3> QED
      BY <2>1, <3>1, <3>2
  <2>3. CASE s \notin Options
    BY <2>1, <2>3 DEF Earned, Symbols, Derivatives
  <2> QED
    BY <2>2, <2>3
<1>15. Held(s) = TiedUp(s, long, short)
  BY <1>11, <1>12 DEF Held
<1>16. Held(s)' = Held(s) + debit
  <2>1. CASE side = "Long"
    <3>1. Held(s)' = TiedUp(s, enlarged, short)
      BY <1>10, <1>12, <2>1 DEF Held, PositionSides
    <3>2. CASE s \in Options
      <4>1. PICK m \in Nat : m = Multiplier[s]
        BY <3>2, PortfolioAssumption
      <4>2. (long.cost + w - short.cost) * m = (long.cost - short.cost) * m + w * m
        BY <1>13
      <4>3. debit = margin + w * m
        BY <1>8, <2>1, <3>2, <4>1 DEF Sign
      <4>4. enlarged.cost = long.cost + w /\ enlarged.margin = long.margin + margin
        BY <1>2, <1>9, <1>11, <2>1
      <4>5. Held(s)' = long.margin + margin + short.margin + (long.cost + w - short.cost) * m
        <5>1. Held(s)' = enlarged.margin + short.margin + (enlarged.cost - short.cost) * m
          BY <3>1, <3>2, <4>1, TiedUpIs
        <5> QED
          BY <1>13, <4>4, <5>1
      <4>6. Held(s) = long.margin + short.margin + (long.cost - short.cost) * m
        BY <1>15, <3>2, <4>1, TiedUpIs
      <4> QED
        BY <1>13, <4>2, <4>3, <4>5, <4>6
    <3>3. CASE s \notin Options
      BY <1>2, <1>9, <1>11, <1>13, <1>15, <2>1, <3>1, <3>3, TiedUpIs
    <3> QED
      BY <3>2, <3>3
  <2>2. CASE side = "Short"
    <3>1. Held(s)' = TiedUp(s, long, enlarged)
      BY <1>10, <1>11, <2>2 DEF Held, PositionSides
    <3>2. CASE s \in Options
      <4>1. PICK m \in Nat : m = Multiplier[s]
        BY <3>2, PortfolioAssumption
      <4>2. (long.cost - (short.cost + w)) * m = (long.cost - short.cost) * m - w * m
        BY <1>13
      <4>3. debit = margin - w * m
        BY <1>8, <2>2, <3>2, <4>1 DEF Sign
      <4> QED
        BY <1>2, <1>9, <1>12, <1>13, <1>15, <2>2, <3>1, <3>2, <4>1, <4>2, <4>3, TiedUpIs
    <3>3. CASE s \notin Options
      BY <1>2, <1>9, <1>12, <1>13, <1>15, <2>2, <3>1, <3>3, TiedUpIs
    <3> QED
      BY <3>2, <3>3
  <2> QED
    BY <2>1, <2>2 DEF PositionSides
<1>17. Held(s) \in Int
  <2>1. s \in Options => Multiplier[s] \in Nat
    BY PortfolioAssumption
  <2> QED
    BY <1>13, <1>15, <2>1, TiedUpIs
<1> QED
  BY <1>5, <1>7, <1>13, <1>14, <1>16, <1>17 DEF MovesAddUp

(* Closing a position frees its share of what was tied up.                 *)
LEMMA CloseFrees ==
  ASSUME TypeOK, NEW s \in Symbols, NEW side \in PositionSides, HasOpen(s, side),
         NEW k \in Nat, k <= positions[s][side].qty,
         positions' = [positions EXCEPT ![s][side] = Reduced(positions[s][side], k)]
  PROVE  /\ Held(s) \in Int
         /\ Held(s)' = Held(s) - Released(positions[s][side], k)
              - IF s \in Options
                THEN Sign(side) * (CostOf(positions[s][side], k) * Multiplier[s]) ELSE 0
<1>1. positions \in [Symbols -> [PositionSides -> PositionRecord]]
  BY DEF TypeOK
<1>2. PICK position \in PositionRecord : position = positions[s][side]
  BY <1>1
<1>3. position.qty > 0
  BY <1>2 DEF HasOpen
<1>4. PICK reduced \in PositionRecord : reduced = Reduced(position, k)
  BY <1>2, <1>3, ReducedIsPosition
<1>5. PICK c \in Nat : c = CostOf(position, k)
  BY <1>2, <1>3, ReducedIsPosition
<1>6. PICK r \in Nat : r = Released(position, k)
  BY <1>2, <1>3, ReducedIsPosition
<1>7. reduced.cost = position.cost - c /\ reduced.margin = position.margin - r
  BY <1>2, <1>3, <1>4, <1>5, <1>6, ReducedByItsShare
<1>8. /\ positions'[s][side] = reduced
      /\ \A other \in PositionSides \ {side} : positions'[s][other] = positions[s][other]
  BY <1>1, <1>2, <1>4
<1>9. PICK long \in PositionRecord : long = positions[s]["Long"]
  BY <1>1 DEF PositionSides
<1>10. PICK short \in PositionRecord : short = positions[s]["Short"]
  BY <1>1 DEF PositionSides
<1>11. /\ long.cost \in Nat /\ long.margin \in Nat /\ short.cost \in Nat /\ short.margin \in Nat
  BY DEF PositionRecord
<1>12. Held(s) = TiedUp(s, long, short)
  BY <1>9, <1>10 DEF Held
<1>13. PICK m \in Nat : s \in Options => m = Multiplier[s]
  BY PortfolioAssumption
<1>14. Held(s) = long.margin + short.margin
                 + IF s \in Options THEN (long.cost - short.cost) * m ELSE 0
  BY <1>12, <1>13, TiedUpIs
<1>15. CASE side = "Long"
  <2>1. Held(s)' = TiedUp(s, reduced, short)
    BY <1>8, <1>10, <1>15 DEF Held, PositionSides
  <2>2. Held(s)' = reduced.margin + short.margin
                   + IF s \in Options THEN (reduced.cost - short.cost) * m ELSE 0
    BY <1>13, <2>1, TiedUpIs
  <2>3. reduced.margin = long.margin - r /\ reduced.cost = long.cost - c
    BY <1>2, <1>7, <1>9, <1>15
  <2>4. ((long.cost - c) - short.cost) * m = (long.cost - short.cost) * m - c * m
    BY <1>11
  <2>5. Sign(side) * (c * m) = c * m
    BY <1>15 DEF Sign
  <2>6. Held(s)' = Held(s) - r - IF s \in Options THEN Sign(side) * (c * m) ELSE 0
    BY <1>11, <1>14, <2>2, <2>3, <2>4, <2>5
  <2> QED
    BY <1>2, <1>5, <1>6, <1>11, <1>13, <1>14, <2>6
<1>16. CASE side = "Short"
  <2>1. Held(s)' = TiedUp(s, long, reduced)
    BY <1>8, <1>9, <1>16 DEF Held, PositionSides
  <2>2. Held(s)' = long.margin + reduced.margin
                   + IF s \in Options THEN (long.cost - reduced.cost) * m ELSE 0
    BY <1>13, <2>1, TiedUpIs
  <2>3. reduced.margin = short.margin - r /\ reduced.cost = short.cost - c
    BY <1>2, <1>7, <1>10, <1>16
  <2>4. (long.cost - (short.cost - c)) * m = (long.cost - short.cost) * m + c * m
    BY <1>11
  <2>5. Sign(side) * (c * m) = -(c * m)
    BY <1>16 DEF Sign
  <2>6. Held(s)' = Held(s) - r - IF s \in Options THEN Sign(side) * (c * m) ELSE 0
    BY <1>11, <1>14, <2>2, <2>3, <2>4, <2>5
  <2> QED
    BY <1>2, <1>5, <1>6, <1>11, <1>13, <1>14, <2>6
<1> QED
  BY <1>15, <1>16 DEF PositionSides

(* What a close credits beyond that share is the profit.                   *)
LEMMA CloseMoves ==
  ASSUME TypeOK, NEW s \in Symbols, NEW side \in PositionSides, HasOpen(s, side),
         s \in Options => positions[s][side].margin = 0,
         NEW p \in Nat, NEW k \in Nat, k <= positions[s][side].qty, NEW credit \in Int,
         s = BTC => credit = Released(positions[s][side], k)
                             + ProfitOf(positions[s][side], side, p, k),
         s \in Futures => credit = Released(positions[s][side], k),
         s \in Options => credit = Sign(side) * (p * k * Multiplier[s]),
         Close(s, side, p, k, credit)
  PROVE  MovesAddUp(s)
<1>1. positions \in [Symbols -> [PositionSides -> PositionRecord]]
  BY DEF TypeOK
<1>2. PICK position \in PositionRecord : position = positions[s][side]
  BY <1>1
<1>3. position.qty > 0
  BY <1>2 DEF HasOpen
<1>4. PICK c \in Nat : c = CostOf(position, k)
  BY <1>2, <1>3, ReducedIsPosition
<1>5. PICK r \in Nat : r = Released(position, k)
  BY <1>2, <1>3, ReducedIsPosition
<1>6. PICK w \in Nat : w = p * k
  OBVIOUS
<1>7. PICK sign \in Int : sign = Sign(side) /\ sign \in {1, -1}
  BY DEF Sign
<1>8. positions' = [positions EXCEPT ![s][side] = Reduced(positions[s][side], k)]
  BY DEF Close
<1>9. \A t \in Symbols \ {s} : positions'[t] = positions[t]
  BY <1>1, <1>8
<1>10. PICK paid \in Nat : paid = FeePerLot * k
  BY PortfolioAssumption
<1>11. balance' = balance + credit - paid /\ feesPaid' = feesPaid + paid
  BY <1>10 DEF Close, Executed
<1>12. realized \in Int /\ balance \in Int /\ feesPaid \in Int
  BY DEF TypeOK
<1>13. PICK profit \in Int : profit = sign * (w - c)
  OBVIOUS
<1>14. ProfitOf(position, side, p, k) = profit
  BY <1>4, <1>6, <1>7, <1>13 DEF ProfitOf
<1>15. realized' - realized = profit /\ settled' = settled
  BY <1>2, <1>12, <1>14 DEF Close, Executed
<1>16. /\ Held(s) \in Int
       /\ Held(s)' = Held(s) - r
            - IF s \in Options THEN sign * (c * Multiplier[s]) ELSE 0
  BY <1>2, <1>4, <1>5, <1>7, <1>8, CloseFrees
<1>17. credit - (Held(s) - Held(s)') = Earned(s)
  <2>1. CASE s = BTC
    <3>1. s \notin Options /\ s \notin Futures
      BY <2>1, PortfolioAssumption
    <3>2. Earned(s) = profit
      BY <1>15, <2>1, <3>1 DEF Earned
    <3> QED
      BY <1>2, <1>5, <1>14, <1>16, <2>1, <3>1, <3>2
  <2>2. CASE s \in Futures
    <3>1. s \notin Options /\ s # BTC
      BY <2>2, PortfolioAssumption
    <3>2. Earned(s) = 0
      BY <2>2, <3>1 DEF Earned
    <3> QED
      BY <1>2, <1>5, <1>16, <2>2, <3>1, <3>2
  <2>3. CASE s \in Options
    <3>1. PICK m \in Nat : m = Multiplier[s]
      BY <2>3, PortfolioAssumption
    <3>2. s \notin Futures /\ s # BTC
      BY <2>3, PortfolioAssumption
    <3>3. Earned(s) = profit * m
      BY <1>15, <2>3, <3>1, <3>2 DEF Earned
    <3>4. r = 0
      BY <1>2, <1>3, <1>5, <2>3 DEF Released, PositionRecord
    <3>5. credit = sign * (w * m)
      BY <1>6, <1>7, <2>3, <3>1
    <3>6. profit * m = sign * (w * m) - sign * (c * m)
      <4>1. (w - c) * m = w * m - c * m
        OBVIOUS
      <4> QED
        BY <1>7, <1>13, <4>1
    <3> QED
      BY <1>16, <2>3, <3>1, <3>3, <3>4, <3>5, <3>6
  <2> QED
    BY <2>1, <2>2, <2>3 DEF Symbols, Derivatives
<1>18. Held(s)' \in Int
  BY <1>7, <1>16, PortfolioAssumption
<1> QED
  BY <1>9, <1>11, <1>12, <1>16, <1>17, <1>18 DEF MovesAddUp

(* An option posts no margin, whatever the leverage.                       *)
OptionsPostNone ==
  \A s \in Options, side \in PositionSides : positions[s][side].margin = 0

LEMMA SettleMoves ==
  ASSUME TypeOK, OneSided, OptionsPostNone, NEW s \in Options, NEW p \in Nat, Settle(s, p)
  PROVE  MovesAddUp(s)
<1>1. s \in Symbols /\ s # BTC /\ s \notin Futures
  BY PortfolioAssumption DEF Symbols, Derivatives
<1>2. PICK m \in Nat : m = Multiplier[s]
  BY PortfolioAssumption
<1>3. positions \in [Symbols -> [PositionSides -> PositionRecord]]
  BY DEF TypeOK
<1>4. PICK long \in PositionRecord : long = positions[s]["Long"]
  BY <1>1, <1>3 DEF PositionSides
<1>5. PICK short \in PositionRecord : short = positions[s]["Short"]
  BY <1>1, <1>3 DEF PositionSides
<1>6. /\ long.qty \in Nat /\ short.qty \in Nat /\ long.cost \in Nat /\ short.cost \in Nat
      /\ long.margin = 0 /\ short.margin = 0
  BY <1>4, <1>5 DEF PositionRecord, OptionsPostNone, PositionSides
<1>7. PICK premiums \in Int : premiums = (long.cost - short.cost) * m
  BY <1>6
<1>8. Held(s) = premiums
  <2>1. Held(s) = TiedUp(s, long, short)
    BY <1>4, <1>5 DEF Held
  <2>2. Held(s) = 0 + 0 + premiums
    BY <1>1, <1>2, <1>6, <1>7, <2>1, TiedUpIs
  <2> QED
    BY <2>2
<1>9. /\ \A t \in Symbols \ {s} : positions'[t] = positions[t]
      /\ positions'[s]["Long"] = NoPosition /\ positions'[s]["Short"] = NoPosition
  BY <1>1, <1>3 DEF Settle, PositionSides
<1>10. Held(s)' = 0
  <2>1. NoPosition \in PositionRecord /\ NoPosition.margin = 0 /\ NoPosition.cost = 0
    BY DEF NoPosition, PositionRecord
  <2>2. Held(s)' = TiedUp(s, NoPosition, NoPosition)
    BY <1>9 DEF Held
  <2>3. Held(s)' = 0 + 0 + (0 - 0) * m
    BY <1>1, <1>2, <2>1, <2>2, TiedUpIs
  <2> QED
    BY <2>3
<1>11. PICK worth \in Int : worth = Value(s, p, long.qty) - Value(s, p, short.qty)
  <2>1. Value(s, p, long.qty) \in Nat
    BY <1>1, <1>6, ValueIsNatural
  <2>2. Value(s, p, short.qty) \in Nat
    BY <1>1, <1>6, ValueIsNatural
  <2> QED
    BY <2>1, <2>2
<1>12. balance' = balance + worth /\ realized' = realized + worth - premiums /\ feesPaid' = feesPaid
  BY <1>2, <1>4, <1>5, <1>7, <1>11 DEF Settle
<1>13. balance \in Int /\ realized \in Int /\ feesPaid \in Int /\ settled \in Int
  BY DEF TypeOK
<1>14. settled' # settled
  <2>1. long.qty > 0 \/ short.qty > 0
    BY <1>4, <1>5 DEF Settle, HasOpen, PositionSides
  <2>2. ~(long.qty > 0 /\ short.qty > 0)
    BY <1>1, <1>4, <1>5 DEF OneSided, HasOpen
  <2>3. settled' = settled + long.qty - short.qty
    BY <1>4, <1>5 DEF Settle
  <2> QED
    BY <1>6, <1>13, <2>1, <2>2, <2>3
<1>15. PICK profit \in Int : profit = realized' - realized
  BY <1>12, <1>13
<1>16. Earned(s) = profit * 1
  BY <1>1, <1>14, <1>15 DEF Earned
<1>17. Earned(s) = worth - premiums
  BY <1>12, <1>13, <1>15, <1>16
<1> QED
  BY <1>8, <1>9, <1>10, <1>12, <1>13, <1>17 DEF MovesAddUp

(* Marking moves no money.                                                 *)
LEMMA MarkingMovesNothing ==
  ASSUME TypeOK,
         \A s \in Symbols, side \in PositionSides :
           /\ positions'[s][side] \in PositionRecord
           /\ positions'[s][side].cost = positions[s][side].cost
           /\ positions'[s][side].margin = positions[s][side].margin,
         UNCHANGED <<balance, realized, feesPaid>>
  PROVE  MovesNothing
<1> SUFFICES ASSUME NEW s \in Symbols PROVE Held(s)' = Held(s)
  BY DEF MovesNothing
<1>1. /\ positions[s]["Long"] \in PositionRecord /\ positions[s]["Short"] \in PositionRecord
      /\ positions'[s]["Long"] \in PositionRecord /\ positions'[s]["Short"] \in PositionRecord
  BY DEF TypeOK, PositionSides
<1>2. /\ positions'[s]["Long"].cost = positions[s]["Long"].cost
      /\ positions'[s]["Long"].margin = positions[s]["Long"].margin
      /\ positions'[s]["Short"].cost = positions[s]["Short"].cost
      /\ positions'[s]["Short"].margin = positions[s]["Short"].margin
  BY DEF PositionSides
<1> QED
  BY <1>2 DEF Held, TiedUp

LEMMA MarkMoves ==
  ASSUME TypeOK, OptionsPostNone, NEW p \in Prices, Mark(p)
  PROVE  OptionsPostNone' /\ MovesNothing
<1>1. OptionsPostNone'
  BY MarkLeaves DEF OptionsPostNone, Symbols, Derivatives
<1>2. MovesNothing
  BY MarkLeaves, MarkingMovesNothing DEF Mark
<1> QED
  BY <1>1, <1>2

LEMMA UpdateGreeksMoves ==
  ASSUME TypeOK, OptionsPostNone, NEW s \in Options, NEW p \in Prices, UpdateGreeks(s, p)
  PROVE  OptionsPostNone' /\ MovesNothing
<1>1. OptionsPostNone'
  BY UpdateGreeksLeaves DEF OptionsPostNone, Symbols, Derivatives
<1>2. MovesNothing
  BY UpdateGreeksLeaves, MarkingMovesNothing DEF UpdateGreeks
<1> QED
  BY <1>1, <1>2

LEMMA OpenPostsNone ==
  ASSUME TypeOK, OptionsPostNone, NEW s \in Symbols, NEW side \in PositionSides,
         NEW p \in Nat, NEW k \in Nat, NEW margin \in Nat, s \in Options => margin = 0,
         NEW debit \in Int, Open(s, side, p, k, margin, debit)
  PROVE  OptionsPostNone'
<1> SUFFICES ASSUME NEW t \in Options, NEW other \in PositionSides
             PROVE  positions'[t][other].margin = 0
  BY DEF OptionsPostNone
<1>1. positions \in [Symbols -> [PositionSides -> PositionRecord]] /\ t \in Symbols
  BY DEF TypeOK, Symbols, Derivatives
<1>2. positions' = [positions EXCEPT ![s][side] = Enlarged(positions[s][side], p, k, margin)]
  BY DEF Open
<1>3. positions[t][other] \in PositionRecord /\ positions[t][other].margin = 0
  BY <1>1 DEF OptionsPostNone
<1>4. CASE t = s /\ other = side
  <2>1. positions'[t][other] = Enlarged(positions[t][other], p, k, margin)
    BY <1>1, <1>2, <1>4
  <2> QED
    BY <1>3, <1>4, <2>1 DEF Enlarged, PositionRecord
<1>5. CASE t # s \/ other # side
  <2>1. positions'[t][other] = positions[t][other]
    BY <1>1, <1>2, <1>5
  <2> QED
    BY <1>3, <2>1
<1> QED
  BY <1>4, <1>5

LEMMA ClosePostsNone ==
  ASSUME TypeOK, OptionsPostNone, NEW s \in Symbols, NEW side \in PositionSides, HasOpen(s, side),
         NEW p \in Nat, NEW k \in Nat, k <= positions[s][side].qty, NEW credit,
         Close(s, side, p, k, credit)
  PROVE  OptionsPostNone'
<1> SUFFICES ASSUME NEW t \in Options, NEW other \in PositionSides
             PROVE  positions'[t][other].margin = 0
  BY DEF OptionsPostNone
<1>1. positions \in [Symbols -> [PositionSides -> PositionRecord]] /\ t \in Symbols
  BY DEF TypeOK, Symbols, Derivatives
<1>2. positions' = [positions EXCEPT ![s][side] = Reduced(positions[s][side], k)]
  BY DEF Close
<1>3. PICK position \in PositionRecord : position = positions[t][other] /\ position.margin = 0
  BY <1>1 DEF OptionsPostNone
<1>4. CASE t = s /\ other = side
  <2>1. position.qty > 0 /\ k <= position.qty
    BY <1>3, <1>4 DEF HasOpen
  <2>2. position.qty \in Nat
    BY DEF PositionRecord
  <2>3. Released(position, k) = 0
    BY <1>3, <2>1, <2>2 DEF Released
  <2>4. Reduced(position, k).margin = 0
    BY <1>3, <2>1, <2>3, ReducedByItsShare
  <2>5. positions'[t][other] = Reduced(position, k)
    BY <1>1, <1>2, <1>3, <1>4
  <2> QED
    BY <2>4, <2>5
<1>5. CASE t # s \/ other # side
  <2>1. positions'[t][other] = positions[t][other]
    BY <1>1, <1>2, <1>5
  <2> QED
    BY <1>3, <2>1
<1> QED
  BY <1>4, <1>5

(* The step of each operation, with the margins of options.                *)
LEMMA StepMoves ==
  ASSUME TypeOK, OneSided, OptionsPostNone, Next
  PROVE  OptionsPostNone' /\ ((\E s \in Symbols : MovesAddUp(s)) \/ MovesNothing)
<1>1. Prices \subseteq Nat /\ Quantities \subseteq Nat
  BY PortfolioAssumption
<1>2. positions \in [Symbols -> [PositionSides -> PositionRecord]]
  BY DEF TypeOK
<1>3. /\ BTC \in Symbols /\ Futures \subseteq Symbols /\ Options \subseteq Symbols
      /\ Derivatives \subseteq Symbols /\ BTC \notin Futures \cup Options
      /\ Futures \cap Options = {}
  BY PortfolioAssumption DEF Symbols, Derivatives
<1>4. \A side \in {"Bid", "Ask"} : Opens(side) \in PositionSides /\ Reduces(side) \in PositionSides
  BY DEF Opens, Reduces, PositionSides
<1>5. ASSUME NEW s \in Symbols, NEW side \in PositionSides, NEW q \in Quantities
      PROVE  /\ Lesser(q, positions[s][side].qty) \in Nat
             /\ Lesser(q, positions[s][side].qty) <= positions[s][side].qty
  <2>1. positions[s][side].qty \in Nat /\ q \in Nat
    BY <1>1, <1>2 DEF PositionRecord
  <2> QED
    BY <2>1 DEF Lesser
<1>6. ASSUME NEW s \in Symbols \ Options, NEW side \in PositionSides, NEW p \in Nat, NEW k \in Nat,
             NEW margin \in Nat, Open(s, side, p, k, margin, margin)
      PROVE  OptionsPostNone' /\ MovesAddUp(s)
  <2>1. margin \in Int /\ margin = margin + 0
    OBVIOUS
  <2>2. OptionsPostNone'
    BY <1>6, <2>1, OpenPostsNone
  <2>3. margin = margin + IF s \in Options THEN Sign(side) * (p * k * Multiplier[s]) ELSE 0
    BY <2>1
  <2>4. MovesAddUp(s)
    BY <1>6, <2>1, <2>3, OpenMoves
  <2> QED
    BY <2>2, <2>4
<1>7. ASSUME NEW side \in {"Bid", "Ask"}, NEW p \in Prices, NEW q \in Quantities,
             SpotOpen(side, p, q)
      PROVE  OptionsPostNone' /\ MovesAddUp(BTC)
  <2> DEFINE k == Lesser(q, Affordable(BTC, p))
             margin == Value(BTC, p, k) \div Leverage
  <2>1. k \in Nat /\ margin \in Nat
    BY <1>3, OpeningIsNatural
  <2>2. Open(BTC, Opens(side), p, k, margin, margin)
    BY <1>7 DEF SpotOpen
  <2> HIDE DEF k, margin
  <2> QED
    BY <1>1, <1>3, <1>4, <1>6, <2>1, <2>2
<1>8. ASSUME NEW s \in Futures, NEW side \in {"Bid", "Ask"}, NEW p \in Prices, NEW q \in Quantities,
             FutureOpen(s, side, p, q)
      PROVE  OptionsPostNone' /\ MovesAddUp(s)
  <2> DEFINE k == Lesser(q, Affordable(s, p))
             margin == Value(s, p, k) \div Leverage
  <2>1. k \in Nat /\ margin \in Nat
    BY <1>3, OpeningIsNatural
  <2>2. Open(s, Opens(side), p, k, margin, margin)
    BY <1>8 DEF FutureOpen
  <2> HIDE DEF k, margin
  <2> QED
    BY <1>1, <1>3, <1>4, <1>6, <2>1, <2>2
<1>9. ASSUME NEW side \in {"Bid", "Ask"}, NEW p \in Prices, NEW q \in Quantities,
             SpotClose(side, p, q)
      PROVE  OptionsPostNone' /\ MovesAddUp(BTC)
  <2> DEFINE reduces == Reduces(side)
             position == positions[BTC][reduces]
             k == Lesser(q, position.qty)
             credit == Released(position, k) + ProfitOf(position, reduces, p, k)
  <2>1. HasOpen(BTC, reduces) /\ Close(BTC, reduces, p, k, credit)
    BY <1>9 DEF SpotClose
  <2>2. reduces \in PositionSides /\ k \in Nat /\ k <= positions[BTC][reduces].qty /\ p \in Nat
    BY <1>1, <1>3, <1>4, <1>5
  <2>3. credit \in Int
    BY <1>3, <2>1, <2>2, CloseCredits
  <2>4. credit = Released(positions[BTC][reduces], k) + ProfitOf(positions[BTC][reduces], reduces, p, k)
    OBVIOUS
  <2> HIDE DEF reduces, k, credit
  <2>5. OptionsPostNone'
    BY <1>3, <2>1, <2>2, ClosePostsNone
  <2>6. MovesAddUp(BTC)
    BY <1>3, <2>1, <2>2, <2>3, <2>4, CloseMoves
  <2> QED
    BY <2>5, <2>6
<1>10. ASSUME NEW s \in Derivatives, NEW side \in {"Bid", "Ask"}, NEW p \in Prices,
              NEW q \in Quantities, DerivativeClose(s, side, p, q)
       PROVE  OptionsPostNone' /\ MovesAddUp(s)
  <2> DEFINE reduces == Reduces(side)
             position == positions[s][reduces]
             k == Lesser(q, position.qty)
             credit == IF s \in Options THEN Sign(reduces) * Value(s, p, k)
                                        ELSE Released(position, k)
  <2>1. HasOpen(s, reduces) /\ Close(s, reduces, p, k, credit)
    BY <1>10 DEF DerivativeClose
  <2>2. reduces \in PositionSides /\ k \in Nat /\ k <= positions[s][reduces].qty /\ p \in Nat
    BY <1>1, <1>3, <1>4, <1>5
  <2>3. credit \in Int
    BY <1>3, <2>1, <2>2, CloseCredits
  <2>4. s \in Symbols /\ s # BTC
    BY <1>3 DEF Derivatives
  <2>5. s \in Futures => credit = Released(positions[s][reduces], k)
    BY <1>3
  <2>6. s \in Options => credit = Sign(reduces) * (p * k * Multiplier[s])
    BY <2>4 DEF Value
  <2> HIDE DEF reduces, k, credit
  <2>7. s \in Options => positions[s][reduces].margin = 0
    BY <2>2 DEF OptionsPostNone
  <2>8. OptionsPostNone'
    BY <2>1, <2>2, <2>4, ClosePostsNone
  <2>9. MovesAddUp(s)
    BY <2>1, <2>2, <2>3, <2>4, <2>5, <2>6, <2>7, CloseMoves
  <2> QED
    BY <2>8, <2>9
<1>11. ASSUME NEW s \in Options, NEW side \in PositionSides, NEW p \in Nat, NEW k \in Nat,
              NEW debit \in Int, debit = Sign(side) * Value(s, p, k), Open(s, side, p, k, 0, debit)
       PROVE  OptionsPostNone' /\ MovesAddUp(s)
  <2>1. s \in Symbols /\ s # BTC
    BY <1>3
  <2>2. debit = Sign(side) * (p * k * Multiplier[s])
    BY <1>11, <2>1 DEF Value
  <2>3. debit = 0 + IF s \in Options THEN Sign(side) * (p * k * Multiplier[s]) ELSE 0
    BY <2>2
  <2>4. OptionsPostNone'
    BY <1>11, <2>1, OpenPostsNone
  <2>5. MovesAddUp(s)
    BY <1>11, <2>1, <2>3, OpenMoves
  <2> QED
    BY <2>4, <2>5
<1>12. ASSUME NEW s \in Options, NEW p \in Prices, NEW q \in Quantities, OptionBuy(s, p, q)
       PROVE  OptionsPostNone' /\ MovesAddUp(s)
  <2> DEFINE k == Lesser(q, Affordable(s, p))
             debit == Value(s, p, k)
  <2>1. k \in Nat /\ debit \in Int
    BY <1>3, OpeningIsNatural
  <2>2. Open(s, "Long", p, k, 0, debit)
    BY <1>12 DEF OptionBuy
  <2>3. "Long" \in PositionSides /\ debit = Sign("Long") * Value(s, p, k)
    BY <2>1 DEF PositionSides, Sign
  <2> HIDE DEF k, debit
  <2> QED
    BY <1>1, <1>11, <2>1, <2>2, <2>3
<1>13. ASSUME NEW s \in Options, NEW p \in Prices, NEW q \in Quantities, OptionWrite(s, p, q)
       PROVE  OptionsPostNone' /\ MovesAddUp(s)
  <2> DEFINE debit == -Value(s, p, q)
  <2>1. debit \in Int /\ Value(s, p, q) \in Int
    BY <1>1, <1>3, ValueIsNatural
  <2>2. Open(s, "Short", p, q, 0, debit)
    BY <1>13 DEF OptionWrite
  <2>3. "Short" \in PositionSides /\ debit = Sign("Short") * Value(s, p, q)
    BY <2>1 DEF PositionSides, Sign
  <2> HIDE DEF debit
  <2> QED
    BY <1>1, <1>11, <2>1, <2>2, <2>3
<1>14. ASSUME NEW s \in Options, NEW p \in Prices \cup {0}, Settle(s, p)
       PROVE  OptionsPostNone' /\ MovesAddUp(s)
  <2>1. \A t \in Symbols, side \in PositionSides :
          positions'[t][side] = NoPosition \/ positions'[t][side] = positions[t][side]
    BY <1>2, <1>3, <1>14 DEF Settle
  <2>2. OptionsPostNone'
    BY <1>3, <2>1 DEF OptionsPostNone, NoPosition
  <2> QED
    BY <1>1, <1>14, <2>2, SettleMoves
<1> QED
  BY <1>3, <1>7, <1>8, <1>9, <1>10, <1>12, <1>13, <1>14, MarkMoves, UpdateGreeksMoves DEF Next

(* Over any sequence of fills, marks and expiries, what leaves the cash is *)
(* tied up in the symbol of the step or paid as a fee, and what comes back *)
(* is what was tied up and the profit.                                     *)
THEOREM CashAlwaysAddsUp == Spec => CashAddsUp
<1> DEFINE IInv == TypeOK /\ OneSided /\ OptionsPostNone
<1>1. Init => IInv
  <2>1. Init => TypeOK /\ OneSided
    BY PortfolioAssumption
    DEF Init, TypeOK, OneSided, HasOpen, NoPosition, PositionRecord, PositionSides
  <2>2. Init => OptionsPostNone
    BY DEF Init, OptionsPostNone, NoPosition, Symbols, Derivatives
  <2> QED
    BY <2>1, <2>2
<1>2. IInv /\ [Next]_vars => IInv'
  <2>1. IInv /\ UNCHANGED vars => IInv'
    BY DEF TypeOK, OneSided, OptionsPostNone, HasOpen, vars
  <2> QED
    BY <2>1, StepKeeps, StepMoves
<1>3. IInv /\ [Next]_vars => [(\E s \in Symbols : MovesAddUp(s)) \/ MovesNothing]_vars
  BY StepMoves
<1> QED
  BY <1>1, <1>2, <1>3, PTL DEF Spec, CashAddsUp
=============================================================================
