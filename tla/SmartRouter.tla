---------------------------- MODULE SmartRouter ----------------------------
(***************************************************************************)
(* The smart order router (smartrouter/src): orders that are sent to the   *)
(* best venue, split over several, or sliced over time, and arbitrage      *)
(* between venues. What is decided and what is executed are separate calls,*)
(* and the venues may be updated in between.                               *)
(*                                                                         *)
(* A venue is its best levels on both sides, its taker fee in percent, and *)
(* a quality that stands for the factors of latency and reliability. In    *)
(* place of an average price there is the cost of the whole quantity. Both *)
(* routers look at the venues of one symbol only, so there is one. The     *)
(* routing metrics, which nothing here reads, are left out. The caller     *)
(* holds what it asked for last, a decision or the result of a scan; an    *)
(* order that cannot be routed leaves things as they are.                  *)
(***************************************************************************)
EXTENDS Money, FiniteSets, FiniteSetsExt, Sequences, SequencesExt

CONSTANTS
  Venues,        \* names of venues
  Snapshots(_),  \* of a venue: [bids, asks, fee, quality], of levels [price, qty], best first
  Parents,       \* orders: [side, qty, limit], limit NoLimit or a price
  Profiles,      \* weights of the slices of an order; TWAP has equal ones
  MaxVenues,     \* max_venues
  MinAllocation, \* min_venue_allocation, in percent
  MinProfit,     \* min_profit_bps, in percent
  MaxAge,        \* bound of the model: updates before what is held is executed
  NoLimit,
  NoVenue

IsBook(levels) == levels \in Seq([price : Nat \ {0}, qty : Nat \ {0}])

ASSUME RouterAssumption ==
  /\ \A v \in Venues : \A s \in Snapshots(v) :
       IsBook(s.bids) /\ IsBook(s.asks) /\ s.fee \in 0 .. 99 /\ s.quality \in Nat \ {0}
  /\ \A o \in Parents : o.side \in {"Buy", "Sell"} /\ o.qty \in Nat \ {0}
  /\ \A p \in Profiles : p \in Seq(Nat) /\ \E i \in DOMAIN p : p[i] > 0

VARIABLES
  venues,         \* the venues a router knows
  decision,       \* [mode, parent, slices]; a slice is its set of child orders
  opportunities,  \* what the last scan found
  age,            \* updates of the venues since the last decision or scan
  execution       \* what came out of the last execution

routerVars == <<venues, decision, opportunities, age, execution>>

---------------------------------------------------------------------------
(* A venue's book.                                                         *)

(* The levels an order of a side is filled from.                           *)
Against(snapshot, side) == IF side = "Buy" THEN snapshot.asks ELSE snapshot.bids

(* bid_liquidity and ask_liquidity                                         *)
Liquidity(snapshot, side) ==
  FoldSeq(LAMBDA level, sum : sum + level.qty, 0, Against(snapshot, side))

(* The walk of simulate_fill over the levels within the limit (a book is   *)
(* sorted, so that the first level beyond it ends the walk); Take is what  *)
(* a level gives to an order that has received done.                       *)
Walk(snapshot, side, q, limit, Take(_, _)) ==
  LET Within(price) == limit = NoLimit \/ (IF side = "Buy" THEN price <= limit ELSE price >= limit)
  IN  FoldLeft(LAMBDA done, level :
                 IF Within(level.price)
                 THEN [qty |-> done.qty + Take(done, level),
                       cost |-> done.cost + Take(done, level) * level.price]
                 ELSE done,
               [qty |-> 0, cost |-> 0], Against(snapshot, side))

WholeLevels(snapshot, side, q, limit) ==   \* mutant: takes what is there
  Walk(snapshot, side, q, limit, LAMBDA done, level : IF done.qty < q THEN level.qty ELSE 0)

(* simulate_fill: level by level, until a level is beyond the limit.       *)
SimulateFill(snapshot, side, q, limit) ==
  Walk(snapshot, side, q, limit, LAMBDA done, level : Lesser(q - done.qty, level.qty))

(* expected_fill_price, as a cost: there is none if the book is too short. *)
Fillable(snapshot, side, q) == Liquidity(snapshot, side) >= q
ExpectedCost(snapshot, side, q) == SimulateFill(snapshot, side, q, NoLimit).cost

(* expected_fill_price_with_fees, in hundredths.                           *)
NetCost(snapshot, side, q) ==
  ExpectedCost(snapshot, side, q)
    * (IF side = "Buy" THEN 100 + snapshot.fee ELSE 100 - snapshot.fee)

Known == {v \in Venues : venues[v] # NoVenue}

Candidates(side, q) == {v \in Known : Fillable(venues[v], side, q)}

(* The first n candidates by score_for_order: quality over what the buyer  *)
(* pays, or times what the seller gets; among equals a HashMap decides.    *)
Leading(side, q, n) ==
  LET all == Candidates(side, q)
      net == [v \in all |-> NetCost(venues[v], side, q)]
      Outscores(v, w) ==
        IF side = "Buy" THEN venues[v].quality * net[w] > venues[w].quality * net[v]
        ELSE venues[v].quality * net[v] > venues[w].quality * net[w]
  IN  {some \in SUBSET all :
         /\ Cardinality(some) = Lesser(n, Cardinality(all))
         /\ \A v \in some, w \in all \ some : ~Outscores(w, v)}

---------------------------------------------------------------------------
(* Routing.                                                                *)

Child(v, side, q, limit) ==
  [venue |-> v, side |-> side, qty |-> q, limit |-> limit,
   cost |-> ExpectedCost(venues[v], side, q)]

(* route_best_venue                                                        *)
BestVenue(side, q, limit) ==
  {{Child(v, side, q, limit) : v \in chosen} : chosen \in Leading(side, q, 1) \ {{}}}

(* route_multi_venue. What is below the minimum is not given to others.    *)
Split(parent, chosen) ==
  LET liquidity == [v \in chosen |-> Liquidity(venues[v], parent.side)]
      total     == MapThenSumSet(LAMBDA v : liquidity[v], chosen)
      share     == [v \in chosen |-> (liquidity[v] * parent.qty) \div total]
  IN  {Child(v, parent.side, share[v], parent.limit) :
         v \in {w \in chosen : 100 * liquidity[w] >= MinAllocation * total /\ share[w] > 0}}

MultiVenue(parent) ==
  {Split(parent, chosen) : chosen \in Leading(parent.side, parent.qty, MaxVenues) \ {{}}} \ {{}}

(* The quantities of route_twap and route_vwap.                            *)
SliceSizes(parent, profile) ==
  LET total == FoldSeq(LAMBDA w, sum : sum + w, 0, profile)
  IN  SelectSeq([i \in DOMAIN profile |-> (parent.qty * profile[i]) \div total],
                LAMBDA q : q > 0)

Decide(mode, parent, slices) ==
  /\ decision' = [mode |-> mode, parent |-> parent, slices |-> slices]
  /\ age' = 0
  /\ opportunities' = {} /\ execution' = NoVenue
  /\ UNCHANGED venues

RouteBest == \E parent \in Parents :
  \E children \in BestVenue(parent.side, parent.qty, parent.limit) :
    Decide("best", parent, <<children>>)

RouteMulti == \E parent \in Parents : \E children \in MultiVenue(parent) :
  Decide("multi", parent, <<children>>)

(* The slices carry the limit of the order. All are routed over the venues *)
(* of now; one that cannot be routed fails them all.                       *)
RouteSlices == \E parent \in Parents, profile \in Profiles :
  LET sizes  == SliceSizes(parent, profile)
      routes == [i \in DOMAIN sizes |-> BestVenue(parent.side, sizes[i], parent.limit)]
  IN  \E slices \in [DOMAIN sizes -> UNION Range(routes)] :
        /\ \A i \in DOMAIN sizes : slices[i] \in routes[i]
        /\ Decide("slices", parent, slices)

(* simulate_execution of the router: a decision may be executed later, on  *)
(* the venues that are there then, and none of it is taken from the books. *)
SimulateExecution ==
  /\ decision # NoVenue
  /\ execution' =
       [kind |-> "order",
        fills |-> [i \in DOMAIN decision.slices |->
          {[child |-> c, fill |-> SimulateFill(venues[c.venue], c.side, c.qty, c.limit)] :
             c \in {d \in decision.slices[i] : d.venue \in Known}}]]
  /\ UNCHANGED <<venues, decision, opportunities, age>>

---------------------------------------------------------------------------
(* Arbitrage.                                                              *)

WithoutFees(buy, sell, ask, bid) == 200 * (bid - ask)   \* mutant: the fees are forgotten

(* net_profit_bps, in percent of the sum of ask and bid: the fees are taken*)
(* on the middle between the two.                                          *)
NetProfit(buy, sell, ask, bid) == 200 * (bid - ask) - (buy.fee + sell.fee) * (ask + bid)

(* scan_opportunities                                                      *)
Opportunity(b, s) ==
  LET ask == venues[b].asks[1]
      bid == venues[s].bids[1]
  IN  [buy |-> b, sell |-> s, ask |-> ask.price, bid |-> bid.price,
       qty |-> Lesser(ask.qty, bid.qty),
       net |-> NetProfit(venues[b], venues[s], ask.price, bid.price)]

Worthwhile(o) == o.bid > o.ask /\ o.net >= MinProfit * (o.ask + o.bid)

ScanOpportunities ==
  /\ opportunities' =
       {o \in {Opportunity(b, s) : b \in {v \in Known : venues[v].asks # <<>>},
                                   s \in {v \in Known : venues[v].bids # <<>>}} :
          o.buy # o.sell /\ Worthwhile(o)}
  /\ decision' = NoVenue /\ age' = 0 /\ execution' = NoVenue
  /\ UNCHANGED venues

(* simulate_execution of ArbitrageRouter, of any quantity. Proceeds and    *)
(* cost are set against each other whether the fills match or not.         *)
SimulateArbitrage == \E o \in opportunities, asked \in {p.qty : p \in Parents} :
  LET q    == Lesser(asked, o.qty)
      buy  == SimulateFill(venues[o.buy], "Buy", q, NoLimit)
      sell == SimulateFill(venues[o.sell], "Sell", q, NoLimit)
      both == o.buy \in Known /\ o.sell \in Known
  IN  /\ execution' =
           [kind |-> "arbitrage", opportunity |-> o, qty |-> q,
            pnl |-> IF both THEN sell.cost * (100 - venues[o.sell].fee)
                                 - buy.cost * (100 + venues[o.buy].fee) ELSE 0,
            fully |-> both /\ buy.qty = q /\ sell.qty = q]
      /\ UNCHANGED <<venues, decision, opportunities, age>>

---------------------------------------------------------------------------

RouterInit ==
  /\ venues = [v \in Venues |-> NoVenue]
  /\ decision = NoVenue /\ opportunities = {} /\ age = 0 /\ execution = NoVenue

(* What is held grows old; MaxAge bounds how old.                          *)
Age ==
  LET held == decision # NoVenue \/ opportunities # {}
  IN  age' = (IF held THEN age + 1 ELSE 0) /\ age' <= MaxAge

(* update_venue                                                            *)
UpdateVenue == \E v \in Venues : \E snapshot \in Snapshots(v) :
  /\ venues' = [venues EXCEPT ![v] = snapshot]
  /\ Age
  /\ UNCHANGED <<decision, opportunities, execution>>

ClearVenues ==
  /\ venues' = [v \in Venues |-> NoVenue]
  /\ Age
  /\ UNCHANGED <<decision, opportunities, execution>>

RouterNext ==
  \/ UpdateVenue \/ ClearVenues
  \/ RouteBest \/ RouteMulti \/ RouteSlices \/ SimulateExecution
  \/ ScanOpportunities \/ SimulateArbitrage

RouterSpec == RouterInit /\ [][RouterNext]_routerVars

---------------------------------------------------------------------------
(* Properties.                                                             *)

(* A split order (route_multi_venue) never asks more of a venue than it    *)
(* has, nor of all more than was ordered; what it leaves out is less than  *)
(* the minimum for every venue that was passed over; the whole comes no    *)
(* dearer per lot than at the worst of the venues it goes to; as long as   *)
(* the books stay as they were it is executed as expected; and it did not  *)
(* have to be split, since a venue has a score only if it can fill the     *)
(* whole order (score_for_order).                                          *)
SplitsAddUp ==
  decision # NoVenue /\ age = 0 /\ decision.mode = "multi" =>
    LET parent   == decision.parent
        children == decision.slices[1]
        given    == MapThenSumSet(LAMBDA c : c.qty, children)
        cost     == MapThenSumSet(LAMBDA c : c.cost, children)
        Alone(c) == given * ExpectedCost(venues[c.venue], parent.side, parent.qty)
    IN  /\ \A c \in children : c.qty <= Liquidity(venues[c.venue], parent.side)
        /\ given <= parent.qty
        /\ 100 * (parent.qty - given) < MinAllocation * parent.qty * (MaxVenues - 1) + 100 * MaxVenues
        /\ \E c \in children : IF parent.side = "Buy" THEN cost * parent.qty <= Alone(c)
                                                     ELSE cost * parent.qty >= Alone(c)
        /\ execution # NoVenue /\ parent.limit = NoLimit =>
             \A f \in execution.fills[1] :
               f.fill = [qty |-> f.child.qty, cost |-> f.child.cost]
        /\ \E v \in Known : Fillable(venues[v], parent.side, parent.qty)

(* An arbitrage that is executed on the books it was found on is filled on *)
(* both sides, and earns what was promised but for the fees, which are     *)
(* promised on the middle of the prices and paid on the prices: a dearer   *)
(* sale costs more than that, and may turn the profit into a loss.         *)
UnchangedBooksPay ==
  execution # NoVenue /\ age = 0 /\ opportunities # {} =>
    LET o == execution.opportunity
    IN  /\ execution.fully
        /\ 2 * execution.pnl = execution.qty *
             (o.net - (o.bid - o.ask) * (venues[o.sell].fee - venues[o.buy].fee))

=============================================================================
