------------------------- MODULE MCExternalParties -------------------------
(* The parts that wait for processes and servers, one at a time: the worker*)
(* pool, with a batch that leaves a worker idle and one of uneven shares; a*)
(* fetch of bars from up to three pages; and two tasks that share the Sui  *)
(* provider while the last event is indexed and the cache is cleared once; *)
(* and two threads that run Python strategies in one interpreter.          *)
EXTENDS WorkerPool, MassiveProvider, SuiDexProvider, PythonBridge

MCBatchSizes == {1, 5}

Event(at, void) == [at |-> at, void |-> void]

(* Two events in one second, of which the second is on another page; a void*)
(* one; and one in the first second, which only trades are asked from.     *)
MCEvents ==
  <<Event(0, FALSE), Event(1, FALSE), Event(1, FALSE), Event(2, TRUE), Event(3, FALSE)>>

Ask(kind, to, width) ==
  [kind |-> kind, subject |-> "pool", from |-> 0, to |-> to, width |-> width]

MCDataRequests ==
  {Ask("trades", 3, 0), Ask("trades", 3, 2), Ask("trades", 2, 0), Ask("swaps", 3, 0)}

---------------------------------------------------------------------------
VARIABLE part

mcVars == <<vars, massiveVars, suiVars, bridgeVars, part>>

(* While another part runs there is a fetch that has ended.                *)
FetchIsOver ==
  /\ call = "fetch" /\ server = <<TRUE>> /\ phase = "bars"
  /\ url = 1 /\ attempt = 1 /\ allBars = <<1>> /\ mishaps = <<>>

MCInit ==
  /\ Init /\ SuiInit /\ BridgeInit
  /\ \/ part \in {"pool", "sui", "python"} /\ FetchIsOver
     \/ part = "massive" /\ MassiveInit

MCNext ==
  /\ UNCHANGED part
  /\ \/ part = "pool" /\ Next /\ UNCHANGED <<massiveVars, suiVars, bridgeVars>>
     \/ part = "massive" /\ MassiveNext /\ UNCHANGED <<vars, suiVars, bridgeVars>>
     \/ part = "sui" /\ SuiNext /\ UNCHANGED <<vars, massiveVars, bridgeVars>>
     \/ part = "python" /\ BridgeNext /\ UNCHANGED <<vars, massiveVars, suiVars>>

MCFairSpec ==
  MCInit /\ [][MCNext]_mcVars /\ PoolFairness /\ MassiveFairness /\ BridgeFairness
=============================================================================
