------------------------- MODULE MCPythonSimulation -------------------------
(* The instance of PythonSimulation that TLC explores: one spot symbol and *)
(* one option, prices that halve and double, and signals of every kind.    *)
EXTENDS PythonSimulation

MCMultiplier == [s \in Derivatives |-> 2]

Order(kind, symbol, side, p, q) ==
  [kind |-> kind, symbol |-> symbol, side |-> side, price |-> p, qty |-> q]

MCSignals ==
  {Order("Market", BTC, "Bid", 0, 0),
   Order("Market", BTC, "Ask", 0, 1),
   Order("Market", "CALL", "Bid", 0, 1),
   Order("Limit", BTC, "Bid", 32, 2),
   [kind |-> "Spread", legs |-> <<[symbol |-> BTC, side |-> "Bid", qty |-> 1, price |-> 0],
                                  [symbol |-> "CALL", side |-> "Ask", qty |-> 1, price |-> 32]>>],
   [kind |-> "Quote", bid |-> 16, ask |-> 32, qty |-> 1]}
  \cup [kind: {"Close", "Exit", "Cancel"}]
=============================================================================
