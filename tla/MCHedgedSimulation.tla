------------------------- MODULE MCHedgedSimulation -------------------------
(* The instances that TLC explores, one engine at a time: a pair whose legs*)
(* trade one to two and a basket of three, prices that double, a wick, a   *)
(* bar of zeros and a bar that is missing; and a rotation of four assets   *)
(* in two classes, whose paths part after the first or the last entry, one *)
(* of them because the asset is gone.                                      *)
EXTENDS CrossSectional

Bar(p, l, h) == [price |-> p, low |-> l, high |-> h]

MCBars == {Bar(16, 16, 16), Bar(32, 24, 32), Bar(16, 8, 16), Bar(0, 0, 0),
           Bar(Missing, Missing, Missing)}

MCFixed == [pair |-> <<1, -2>>, basket |-> <<1, -1, 1>>]
MCRatios == [pair |-> {<<1, -1>>, <<1, -2>>}, basket |-> {<<1, -1, 1>>}]

MCClasses == <<1, 1, 1, 2>>
MCPaths == {<<16, 16, 32, 32, 16>>, <<16, 16, 16, 32, 32>>,
            <<16, 32, 16, 16, 16>>, <<16, 32, 16, 16, 64>>, <<16, 32, 16, 16, 0>>}

NoRotation == panel = None /\ period = 0 /\ book = None /\ curve = 0

NoHedge ==
  /\ engine = "rotation" /\ dynamic = FALSE /\ pc = "idle"
  /\ bars = None /\ window = <<>> /\ ticks = 0
  /\ open = None /\ realized = 0 /\ equity = 0

MCInit ==
  \/ Init /\ NoRotation
  \/ RotationInit /\ NoHedge

RotationDone == pc = "idle" /\ period = Periods /\ UNCHANGED <<vars, rotationVars>>

MCNext ==
  \/ engine # "rotation" /\ Next /\ UNCHANGED rotationVars
  \/ engine = "rotation" /\ RunPeriod /\ UNCHANGED vars
  \/ RotationDone

MCSpec == MCInit /\ [][MCNext]_<<vars, rotationVars>>
=============================================================================
