-------------------------- MODULE MCSimulationLoop --------------------------
(* The instances of SimulationLoop that TLC explores. *)
EXTENDS SimulationLoop

Limit(kind, p, q) == [kind |-> kind, price |-> p, qty |-> q]
Market(kind, q) == [kind |-> kind, price |-> NoPrice, qty |-> q]

(* No signal; quotes on both sides; and a closing signal, which becomes a  *)
(* bid, that a market sale of half its size follows.                       *)
MCBatches ==
  {<<>>,
   <<Limit("Buy", 1, 2), Limit("Sell", 2, 2)>>,
   <<Limit("Close", 1, 2), Market("ScaleOut", 1)>>}
=============================================================================
