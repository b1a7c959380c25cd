-------------------------------- MODULE Book --------------------------------
(***************************************************************************)
(* The data structure of the order book (orderbook/src/level.rs and the    *)
(* price walks of orderbook/src/order_book.rs) as pure operators on values: *)
(* the modules that own a book (OrderBook, SimulationLoop) call them.      *)
(*                                                                         *)
(* A level is a record                                                     *)
(*   total    Level::total_quantity                                        *)
(*   count    Level::order_count                                           *)
(*   tracked  whether Level::orders is Some(_)                             *)
(*   orders   the IndexMap of the level, as the sequence of its entries in *)
(*            insertion order; an entry is [id, orig, rem]                 *)
(* and a book maps each side to a function from the prices that have a     *)
(* level to that level. Quantities are integers: the code's f64 amounts    *)
(* are multiples of one lot.                                               *)
(***************************************************************************)
EXTENDS Integers, Sequences, FiniteSets, Functions, SequencesExt

Sides == {"Bid", "Ask"}

Opposite(s) == IF s = "Bid" THEN "Ask" ELSE "Bid"

Least(a, b) == IF a <= b THEN a ELSE b
Greatest(a, b) == IF a >= b THEN a ELSE b

-----------------------------------------------------------------------------
(* One price level. *)

NewLevel(track) == [total |-> 0, count |-> 0, tracked |-> track, orders |-> <<>>]

IsEmpty(l) == l.total <= 0 \/ l.count = 0

Holds(l, id) == \E i \in DOMAIN l.orders : l.orders[i].id = id

SlotOf(l, id) == CHOOSE i \in DOMAIN l.orders : l.orders[i].id = id

(* IndexMap::insert keeps the position of a key that is already there and  *)
(* replaces its value; the totals grow in either case.                     *)
AddToLevel(l, o) ==
  [l EXCEPT !.total = @ + o.rem,
            !.count = @ + 1,
            !.orders = IF ~ l.tracked THEN @
                       ELSE IF Holds(l, o.id) THEN [@ EXCEPT ![SlotOf(l, o.id)] = o]
                       ELSE Append(@, o)]

(* Mutant: the count of the level is not reduced.                          *)
RemoveKeepingCount(l, id) ==
  LET i == SlotOf(l, id)
  IN  [l EXCEPT !.total = @ - l.orders[i].rem, !.orders = RemoveAt(@, i)]

RemoveFromLevel(l, id) ==
  LET i == SlotOf(l, id)
  IN  [l EXCEPT !.total = @ - l.orders[i].rem,
                !.count = @ - 1,
                !.orders = RemoveAt(@, i)]

(* Only the remaining quantity changes; the original one stays.            *)
ModifyInLevel(l, id, q) ==
  LET i == SlotOf(l, id)
  IN  [l EXCEPT !.total = @ + (q - l.orders[i].rem),
                !.orders[i].rem = q]

(* Ahead(orders)[i]: what rests in front of the i-th order of a queue.     *)
Ahead(orders) ==
  LET a[i \in 1 .. Len(orders) + 1] ==
        IF i = 1 THEN 0 ELSE a[i-1] + orders[i-1].rem
  IN  a

Resident(orders) == Ahead(orders)[Len(orders) + 1]

(* The orders a trade of q reaches: it has something left when it comes to *)
(* them. They are a prefix of the queue.                                   *)
Reached(orders, q) ==
  LET a == Ahead(orders) IN {i \in DOMAIN orders : a[i] < q}

(* The queue after a trade of q, its exhausted orders still in place.      *)
Drained(orders, q) ==
  LET a == Ahead(orders)
  IN  [i \in DOMAIN orders |->
         [orders[i] EXCEPT !.rem = @ - Least(@, Greatest(0, q - a[i]))]]

(* Level::execute_trade: first in, first out. An order is removed when the *)
(* trade reaches it and leaves nothing of it.                              *)
TradeLevel(l, q) ==
  IF l.tracked
  THEN LET left == Drained(l.orders, q)
           done == Cardinality({i \in Reached(l.orders, q) : left[i].rem = 0})
       IN  [l EXCEPT !.total = @ - Least(q, Resident(l.orders)),
                     !.count = @ - done,
                     !.orders = SubSeq(left, done + 1, Len(left))]
  ELSE [l EXCEPT !.total = Greatest(0, @ - q)]

(* The OrderInfo records execute_trade returns, with what was really taken *)
(* from each order beside them (the code does not return that).            *)
Executed(l, q) ==
  LET left == Drained(l.orders, q)
  IN  {[id |-> left[i].id, orig |-> left[i].orig, rem |-> left[i].rem,
        took |-> l.orders[i].rem - left[i].rem] : i \in Reached(l.orders, q)}

-----------------------------------------------------------------------------
(* A side of the book, and the book. *)

EmptyBook == [s \in Sides |-> <<>>]

(* A map (a BTreeMap of levels, a HashMap) after an insertion.             *)
Put(map, key, value) ==
  [x \in DOMAIN map \cup {key} |-> IF x = key THEN value ELSE map[x]]

CleanupEmptyLevels(bk) ==
  [s \in Sides |-> Restrict(bk[s], {p \in DOMAIN bk[s] : ~ IsEmpty(bk[s][p])})]

(* Price p is served before price r on side s.                             *)
Better(s, p, r) == IF s = "Bid" THEN p > r ELSE p < r

(* Mutant: both sides are read from their highest price.                   *)
HighestPrice(bk, s) == CHOOSE p \in DOMAIN bk[s] : \A r \in DOMAIN bk[s] : p >= r

BestPrice(bk, s) ==
  CHOOSE p \in DOMAIN bk[s] : \A r \in DOMAIN bk[s] \ {p} : Better(s, p, r)

IsCrossed(bk) ==
  /\ DOMAIN bk["Bid"] # {} /\ DOMAIN bk["Ask"] # {}
  /\ BestPrice(bk, "Bid") >= BestPrice(bk, "Ask")

(* order_book.rs add_order: the level is created if it is missing.         *)
AddOrder(bk, track, id, s, p, q) ==
  LET l == IF p \in DOMAIN bk[s] THEN bk[s][p] ELSE NewLevel(track)
  IN  [bk EXCEPT ![s] = Put(@, p, AddToLevel(l, [id |-> id, orig |-> q, rem |-> q]))]

(* The levels that hold an order, and the one the search for it finds: the *)
(* bids are searched before the asks, each side from its lowest price.     *)
Places(bk, id) ==
  {pl \in Sides \X UNION {DOMAIN bk[s] : s \in Sides} :
     pl[2] \in DOMAIN bk[pl[1]] /\ Holds(bk[pl[1]][pl[2]], id)}

FirstPlace(bk, id) ==
  CHOOSE pl \in Places(bk, id) :
    \A other \in Places(bk, id) \ {pl} :
      \/ pl[1] = "Bid" /\ other[1] = "Ask"
      \/ pl[1] = other[1] /\ pl[2] < other[2]

(* Mutant: the level goes with the order.                                  *)
CancelLevel(bk, id) ==
  LET pl == FirstPlace(bk, id)
  IN  [bk EXCEPT ![pl[1]] = Restrict(@, DOMAIN @ \ {pl[2]})]

CancelOrder(bk, id) ==
  LET pl == FirstPlace(bk, id)
  IN  [bk EXCEPT ![pl[1]][pl[2]] = RemoveFromLevel(@, id)]

ModifyOrder(bk, id, q) ==
  LET pl == FirstPlace(bk, id)
  IN  [bk EXCEPT ![pl[1]][pl[2]] = ModifyInLevel(@, id, q)]

(* What is left of a quantity q when the walk over the prices elig of side *)
(* s comes to p, after the levels with a better price; and what the level  *)
(* at p gets of it.                                                        *)
LeftAt(levels, s, elig, q, p) ==
  q - SumFunctionOnSet([x \in elig |-> levels[x].total], {x \in elig : Better(s, x, p)})

Shares(levels, s, elig, q) ==
  [p \in elig |-> Least(levels[p].total, Greatest(0, LeftAt(levels, s, elig, q, p)))]

(* The levels after a walk gave share[p] to each price p of hit; a level   *)
(* that is empty then is dropped.                                          *)
Sweep(levels, hit, share) ==
  LET after == [p \in DOMAIN levels |->
                  IF p \in hit THEN TradeLevel(levels[p], share[p]) ELSE levels[p]]
  IN  Restrict(after, {p \in DOMAIN after : p \in hit => ~ IsEmpty(after[p])})

SweepExecuted(levels, s, hit, share) ==
  UNION {{[id |-> x.id, side |-> s, price |-> p, orig |-> x.orig, rem |-> x.rem, took |-> x.took] :
            x \in Executed(levels[p], share[p])} : p \in hit}

(* execute_trade_with_fills: the side given is the aggressor's, the other  *)
(* side's prices up to the trade's price are walked, and a level with      *)
(* nothing to give is left alone.                                          *)
Reachable(bk, s, price) ==
  {p \in DOMAIN bk[Opposite(s)] : p = price \/ Better(Opposite(s), p, price)}

TradeShares(bk, s, price, q) ==
  Shares(bk[Opposite(s)], Opposite(s), Reachable(bk, s, price), q)

TradeBook(bk, s, price, q) ==
  LET share == TradeShares(bk, s, price, q)
  IN  [bk EXCEPT ![Opposite(s)] = Sweep(@, {p \in DOMAIN share : share[p] > 0}, share)]

TradeExecuted(bk, s, price, q) ==
  LET share == TradeShares(bk, s, price, q)
  IN  SweepExecuted(bk[Opposite(s)], Opposite(s), {p \in DOMAIN share : share[p] > 0}, share)

(* execute_market_order: every price of the other side, and every level    *)
(* the walk comes to with something left.                                  *)
MarketHits(bk, s, q) ==
  {p \in DOMAIN bk[Opposite(s)] :
     LeftAt(bk[Opposite(s)], Opposite(s), DOMAIN bk[Opposite(s)], q, p) > 0}

MarketShares(bk, s, q) ==
  Shares(bk[Opposite(s)], Opposite(s), DOMAIN bk[Opposite(s)], q)

MarketBook(bk, s, q) ==
  [bk EXCEPT ![Opposite(s)] = Sweep(@, MarketHits(bk, s, q), MarketShares(bk, s, q))]

MarketExecuted(bk, s, q) ==
  SweepExecuted(bk[Opposite(s)], Opposite(s), MarketHits(bk, s, q), MarketShares(bk, s, q))

(* One iteration of match_all_orders on a crossed book: the smaller of the *)
(* totals of the two best levels is executed on both.                      *)
MatchQuantity(bk) ==
  Least(bk["Bid"][BestPrice(bk, "Bid")].total, bk["Ask"][BestPrice(bk, "Ask")].total)

MatchHits(bk, s) == {BestPrice(bk, s)}
MatchShares(bk, s) == [p \in MatchHits(bk, s) |-> MatchQuantity(bk)]

(* Mutant: the trade is executed on the bids only.                         *)
MatchBidsOnly(bk) == [bk EXCEPT !["Bid"] = Sweep(@, MatchHits(bk, "Bid"), MatchShares(bk, "Bid"))]

MatchBook(bk) == [s \in Sides |-> Sweep(bk[s], MatchHits(bk, s), MatchShares(bk, s))]

MatchExecuted(bk) ==
  UNION {SweepExecuted(bk[s], s, MatchHits(bk, s), MatchShares(bk, s)) : s \in Sides}

(* The quantity of the Fill made of an executed order: what its original   *)
(* quantity and what is left of it differ by.                              *)
FillQuantity(x) == x.orig - x.rem

(* match_all_orders makes a fill of every executed order, at the price of  *)
(* the ask; execute_trade_with_fills only of those with a positive         *)
(* quantity, at the order's own price.                                     *)
Fill(x, price) ==
  [id |-> x.id, side |-> x.side, price |-> price, qty |-> FillQuantity(x)]

MatchFills(bk) == {Fill(x, BestPrice(bk, "Ask")) : x \in MatchExecuted(bk)}

TradeFills(bk, s, price, q) ==
  {Fill(x, x.price) : x \in {y \in TradeExecuted(bk, s, price, q) : FillQuantity(y) > 0}}
=============================================================================
