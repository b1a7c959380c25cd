------------------------------ MODULE OrderBook ------------------------------
(***************************************************************************)
(* The limit order book of the orderbook crate: orders enter, are amended  *)
(* and cancelled through apply_event, snapshots replace the book, and      *)
(* trades consume it: the feed's own trades (apply_event), the trades that *)
(* may hit resting orders (execute_trade_with_fills), market orders        *)
(* (execute_market_order) and the matching loop (match_all_orders). A book *)
(* has one owner (&mut self), so an operation is one step; only the while  *)
(* loop of match_all_orders is taken iteration by iteration.               *)
(***************************************************************************)
EXTENDS Book

CONSTANTS
  OrderIds,      \* the ids orders carry; each is submitted at most once
  Prices,        \* the prices of orders and trades
  Quantities,    \* the quantities of orders, amendments and trades
  TrackOrders,   \* OrderBookConfig::track_individual_orders
  Snapshots,     \* the snapshots the feed may send, as books of untracked levels
  MaxPlaced,     \* bound on the quantity placed by all orders together
  MaxAmended     \* bound on how many orders are amended

ASSUME BookAssumption ==
  /\ Prices \subseteq Nat
  /\ Quantities \subseteq Nat
  /\ TrackOrders \in BOOLEAN
  /\ MaxPlaced \in Nat /\ MaxAmended \in Nat

VARIABLES
  book,        \* OrderBook::bids and ::asks
  matching,    \* whether match_all_orders is running its loop
  fills,       \* the fills the last operation (or iteration) produced
  submitted,   \* history: ids submitted, in the order of their submission
  amended,     \* history: ids whose quantity was modified
  placed,      \* history: quantity of an order, amendments included
  taken,       \* history: quantity trades took from an order
  withdrawn    \* history: quantity that left individual tracking untraded

history == <<submitted, amended, placed, taken, withdrawn>>
vars == <<book, matching, fills, submitted, amended, placed, taken, withdrawn>>

(* What rests of an order, over all the levels that hold it.               *)
Open(bk, id) ==
  SumFunction([pl \in Places(bk, id) |->
                 bk[pl[1]][pl[2]].orders[SlotOf(bk[pl[1]][pl[2]], id)].rem])

TakenFrom(execs, id) ==
  SumFunction([x \in {y \in execs : y.id = id} |-> x.took])

Consume(execs) == taken' = [id \in OrderIds |-> taken[id] + TakenFrom(execs, id)]

(* What was placed in all, which MaxPlaced bounds. *)
AllPlaced == SumFunction(placed)

Resting == {id \in OrderIds : Places(book, id) # {}}

Init ==
  /\ book = EmptyBook /\ matching = FALSE /\ fills = {}
  /\ submitted = <<>> /\ amended = {}
  /\ placed = [id \in OrderIds |-> 0]
  /\ taken = [id \in OrderIds |-> 0]
  /\ withdrawn = [id \in OrderIds |-> 0]

-----------------------------------------------------------------------------
(* apply_event. Every event ends in the removal of the empty levels.       *)

NewOrder(id, s, p, q) ==
  /\ ~ matching /\ ~ Contains(submitted, id)
  /\ AllPlaced + q <= MaxPlaced
  /\ book' = CleanupEmptyLevels(AddOrder(book, TrackOrders, id, s, p, q))
  /\ submitted' = Append(submitted, id)
  /\ placed' = [placed EXCEPT ![id] = q]
  /\ withdrawn' = [withdrawn EXCEPT ![id] = q - Open(book', id)]
  /\ fills' = {} /\ UNCHANGED <<matching, amended, taken>>

(* An unknown id is an error that leaves the book alone: no step.          *)
Modify(id, q) ==
  /\ ~ matching /\ id \in Resting
  /\ AllPlaced + q - Open(book, id) <= MaxPlaced
  /\ Cardinality(amended \cup {id}) <= MaxAmended
  /\ book' = CleanupEmptyLevels(ModifyOrder(book, id, q))
  /\ placed' = [placed EXCEPT ![id] = @ + (q - Open(book, id))]
  /\ fills' = {}
  /\ amended' = amended \cup {id} /\ UNCHANGED <<matching, submitted, taken, withdrawn>>

Cancel(id) ==
  /\ ~ matching /\ id \in Resting
  /\ book' = CleanupEmptyLevels(CancelOrder(book, id))
  /\ withdrawn' = [withdrawn EXCEPT ![id] = @ + Open(book, id)]
  /\ fills' = {} /\ UNCHANGED <<matching, submitted, amended, placed, taken>>

(* The feed reports a trade at one price of one side; without a level at   *)
(* that price nothing is executed. The executed orders are dropped by      *)
(* apply_event: no fills.                                                  *)
FeedTrade(s, p, q) ==
  /\ ~ matching
  /\ IF p \in DOMAIN book[s]
     THEN /\ book' = CleanupEmptyLevels([book EXCEPT ![s][p] = TradeLevel(@, q)])
          /\ Consume(Executed(book[s][p], q))
     ELSE book' = CleanupEmptyLevels(book) /\ UNCHANGED taken
  /\ fills' = {} /\ UNCHANGED <<matching, submitted, amended, placed, withdrawn>>

Snapshot(snap) ==
  /\ ~ matching
  /\ book' = CleanupEmptyLevels(snap)
  /\ withdrawn' = [id \in OrderIds |-> withdrawn[id] + Open(book, id)]
  /\ fills' = {} /\ UNCHANGED <<matching, submitted, amended, placed, taken>>

-----------------------------------------------------------------------------
(* execute_trade_with_fills: a trade of the market, by an aggressor on     *)
(* side s, hits the orders that rest on the other side.                    *)
MarketTrade(s, p, q) ==
  /\ ~ matching
  /\ book' = TradeBook(book, s, p, q)
  /\ fills' = TradeFills(book, s, p, q)
  /\ Consume(TradeExecuted(book, s, p, q))
  /\ UNCHANGED <<matching, submitted, amended, placed, withdrawn>>

(* execute_market_order: the taker learns its cost, the makers get no fill.*)
MarketOrder(s, q) ==
  /\ ~ matching
  /\ book' = MarketBook(book, s, q)
  /\ Consume(MarketExecuted(book, s, q))
  /\ fills' = {} /\ UNCHANGED <<matching, submitted, amended, placed, withdrawn>>

-----------------------------------------------------------------------------
(* match_all_orders. *)

MatchBegin ==
  /\ ~ matching
  /\ matching' = TRUE /\ fills' = {} /\ UNCHANGED <<book, history>>

CanMatch == IsCrossed(book) /\ MatchQuantity(book) > 0

MatchIteration ==
  /\ matching /\ CanMatch
  /\ book' = MatchBook(book)
  /\ fills' = MatchFills(book)
  /\ Consume(MatchExecuted(book))
  /\ UNCHANGED <<matching, submitted, amended, placed, withdrawn>>

MatchEnd ==
  /\ matching /\ ~ CanMatch
  /\ matching' = FALSE /\ fills' = {} /\ UNCHANGED <<book, history>>

-----------------------------------------------------------------------------
Next ==
  \/ \E id \in OrderIds, s \in Sides, p \in Prices, q \in Quantities : NewOrder(id, s, p, q)
  \/ \E id \in OrderIds, q \in Quantities \cup {0} : Modify(id, q)
  \/ \E id \in OrderIds : Cancel(id)
  \/ \E s \in Sides, p \in Prices, q \in Quantities : FeedTrade(s, p, q)
  \/ \E snap \in Snapshots : Snapshot(snap)
  \/ \E s \in Sides, p \in Prices, q \in Quantities : MarketTrade(s, p, q)
  \/ \E s \in Sides, q \in Quantities : MarketOrder(s, q)
  \/ MatchBegin \/ MatchIteration \/ MatchEnd

Spec == Init /\ [][Next]_vars

-----------------------------------------------------------------------------
Levels == {book[pl[1]][pl[2]] : pl \in {x \in Sides \X Prices : x[2] \in DOMAIN book[x[1]]}}

(* All that rests on a side. *)
Depth(levels) == SumFunction([p \in DOMAIN levels |-> levels[p].total])

(* What a level caches about its queue (Level::total_quantity and          *)
(* ::order_count, kept up to date by each operation on its own) is what    *)
(* the queue holds, and a level that holds nothing is not in the book, so  *)
(* best_bid and best_ask name prices at which something rests.             *)
LevelsMatchQueues ==
  \A l \in Levels :
    /\ l.tracked => /\ l.total = Resident(l.orders)
                    /\ l.count = Len(l.orders)
    /\ ~ IsEmpty(l)

(* Price-time priority of execute_trade_with_fills and match_all_orders:   *)
(* when a step gives an order a fill, no order that rested at a better     *)
(* price of its side, and none that rested at its own price and was        *)
(* submitted earlier, is still in the book after it. An amendment does not *)
(* cost an order its place.                                                *)
Before(x, y) ==
  \E i, j \in DOMAIN submitted : i < j /\ submitted[i] = x /\ submitted[j] = y

IdsAt(s, p) == {book[s][p].orders[i].id : i \in DOMAIN book[s][p].orders}

PriceTimePriority ==
  [][\A f \in fills' : \A at \in {p \in DOMAIN book[f.side] : f.id \in IdsAt(f.side, p)} :
       \A p \in DOMAIN book[f.side] : \A id \in IdsAt(f.side, p) :
         Better(f.side, p, at) \/ (p = at /\ Before(id, f.id)) => Places(book', id) = {}]_vars

(* The loop of match_all_orders ends: on a crossed book, every iteration   *)
(* takes something out of both sides, and nothing else runs meanwhile. And *)
(* it leaves no two orders behind that could still trade: when it ends,    *)
(* every bid is below every ask.                                           *)
MatchMakesProgress ==
  [][matching =>
       IF matching' THEN \A s \in Sides : Depth(book'[s]) < Depth(book[s])
       ELSE \A b \in DOMAIN book'["Bid"], a \in DOMAIN book'["Ask"] : b < a]_vars

(* Every order's quantity is conserved, through every kind of step.        *)
Ledger == INSTANCE OrderLedger WITH
            submitted <- ToSet(submitted),
            live <- Resting,
            open <- [id \in OrderIds |-> Open(book, id)]

ImplementsLedger == Ledger!LedgerSpec
=============================================================================
