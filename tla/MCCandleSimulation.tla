------------------------- MODULE MCCandleSimulation -------------------------
(* The instances of CandleSimulation that TLC explores: a calm market,     *)
(* bars that reach stops and targets at once, and gaps in both directions. *)
EXTENDS CandleSimulation

Candle(o, h, l, c, v) == [open |-> o, high |-> h, low |-> l, close |-> c, volume |-> v]

MCBars ==
  {Candle(16, 16, 16, 16, 4), Candle(16, 24, 8, 16, 2), Candle(12, 24, 8, 8, 4),
   Candle(8, 8, 8, 8, 0), Candle(20, 20, 20, 20, 2), Candle(24, 32, 20, 24, 1)}
=============================================================================
