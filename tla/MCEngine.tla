------------------------------ MODULE MCEngine ------------------------------
(* The engine and three parts that share nothing with it, one at a time:   *)
(* the order router, a liquidity position, the execution of a strategy.    *)
EXTENDS Engine, SmartRouter, LpSimulation, StrategyExecutor

Bars(times) == [i \in DOMAIN times |-> [at |-> times[i], price |-> 10 * (i % 3), real |-> TRUE]]

MCSources ==
  {Bars(t) : t \in {<<>>, <<3>>, <<0, 1, 2, 3>>, <<1, 3, 12, 16, 19>>,
                    <<0, 2, 4, 6, 8, 10, 12, 14, 16, 18>>}}

Setting(m, export, walkForward, fill, gapFactor) ==
  [mode |-> m, export |-> export, optimise |-> TRUE, walkForward |-> walkForward,
   fill |-> fill, frequency |-> 2, gapFactor |-> gapFactor]

MCSettings ==
  {Setting("development", FALSE, TRUE, fill, 2) : fill \in {"none", "forward", "linear", "exclude"}}
    \cup {Setting("development", TRUE, TRUE, "forward", 1),
          Setting("validation", FALSE, FALSE, "linear", 1),
          [Setting("production", FALSE, TRUE, "off", 2) EXCEPT !.optimise = FALSE]}

Trade(gain, mae) == [gain |-> gain, mae |-> mae]

(* Wins and losses in turn; a loss of more than the account.               *)
Mixed == <<Trade(8, 0), Trade(-8, 8), Trade(8, 0), Trade(-8, 8)>>
Ruinous == <<Trade(16, 0), Trade(-24, 24), Trade(8, 0)>>

MCOutcomes ==
  {[sharpe |-> o[1], trades |-> o[2]] :
     o \in {<<None, <<>>>>, <<50, Ruinous>>, <<150, <<Trade(8, 0)>>>>, <<250, Mixed>>}}

---------------------------------------------------------------------------
(* A near venue, a dear one with a fee that eats a profit, and one that    *)
(* may offer nothing; each has two books.                                  *)
Level(p, q) == [price |-> p, qty |-> q]
Offer(bids, asks, fee, quality) == [bids |-> bids, asks |-> asks, fee |-> fee, quality |-> quality]

MCSnapshots(v) ==
  CASE v = "near" -> {Offer(<<Level(20, 4)>>, <<Level(22, 4), Level(24, 8)>>, 1, 9),
                      Offer(<<Level(24, 2), Level(21, 6)>>, <<Level(25, 1)>>, 1, 9)}
    [] v = "dear" -> {Offer(<<Level(26, 2), Level(18, 4)>>, <<Level(28, 6)>>, 8, 10),
                      Offer(<<Level(22, 7)>>, <<Level(23, 2), Level(24, 4)>>, 8, 10)}
    [] OTHER -> {Offer(<<Level(24, 2), Level(21, 6)>>, <<>>, 0, 8),
                 Offer(<<Level(20, 6)>>, <<Level(24, 6)>>, 0, 8)}

Parent(side, q, limit) == [side |-> side, qty |-> q, limit |-> limit]

MCParents == {Parent("Buy", 4, NoLimit), Parent("Buy", 6, 22), Parent("Sell", 6, NoLimit)}

(* Two equal slices; three, of which one is empty.                         *)
MCProfiles == {<<1, 1>>, <<3, 0, 1>>}

---------------------------------------------------------------------------
Swap(tick_, direction, fee, liquidity, a, b) ==
  [tick |-> tick_, direction |-> direction, fee |-> fee, liquidity |-> liquidity, a |-> a, b |-> b]

(* At three ticks in both directions, of pools with reserves and without,  *)
(* and one that knows no liquidity.                                        *)
MCSwaps ==
  {Swap(t, d, 6, 512, a, 3 * a) : t \in -1 .. 1, d \in {"AToB", "BToA"}, a \in {0, 64}}
    \cup {Swap(0, "AToB", 0, 0, 0, 0)}

---------------------------------------------------------------------------
Script(schema, pricing, model, features, method, many) ==
  [schema |-> schema, pricing |-> pricing, model |-> model, features |-> features,
   indicators |-> {"known"}, named |-> TRUE, capacity |-> 2, method |-> method, venues |-> many]

Hybrid == Script(TRUE, "fails", TRUE, "fail", TRUE, FALSE)

(* One of each tier, then some without compute_signals: one for many       *)
(* venues, one with no room in its window and an unknown indicator, one    *)
(* whose window is not fed.                                                *)
MCStrategies ==
  {Hybrid,
   Script(TRUE, "none", TRUE, "compile", TRUE, TRUE),
   Script(TRUE, "compiles", TRUE, "compile", TRUE, FALSE),
   Script(FALSE, "none", FALSE, "none", TRUE, TRUE),
   [Hybrid EXCEPT !.method = FALSE, !.venues = TRUE],
   [Hybrid EXCEPT !.method = FALSE, !.indicators = {"known", "unknown"}, !.capacity = 0],
   [Hybrid EXCEPT !.method = FALSE, !.named = FALSE, !.indicators = {"known", "invalid"}]}

MCInputs == UNION {[1 .. n -> {0, 100, 101}] : n \in 1 .. 5}

MCConfigs == {[venues |-> FALSE, threshold |-> 0, maxSkip |-> 1],
              [venues |-> TRUE, threshold |-> 1, maxSkip |-> 3]}

---------------------------------------------------------------------------
VARIABLE part

mcVars == <<vars, routerVars, lpVars, executorVars, part>>

(* What the other parts are while one runs.                                *)
EngineIsIdle == Init /\ source = <<>> /\ settings.mode = "production"
LpIsIdle == LpInit /\ pool = "stable"
ExecutorIsIdle == ExecutorInit /\ strategy = Hybrid /\ prices = <<0>> /\ ~config.venues

MCInit ==
  /\ part \in {"engine", "router", "lp", "executor"}
  /\ IF part = "engine" THEN Init ELSE EngineIsIdle
  /\ RouterInit
  /\ IF part = "lp" THEN LpInit ELSE LpIsIdle
  /\ IF part = "executor" THEN ExecutorInit ELSE ExecutorIsIdle

MCNext ==
  /\ UNCHANGED part
  /\ \/ part = "engine" /\ Next /\ UNCHANGED <<routerVars, lpVars, executorVars>>
     \/ part = "router" /\ RouterNext /\ UNCHANGED <<vars, lpVars, executorVars>>
     \/ part = "lp" /\ LpNext /\ UNCHANGED <<vars, routerVars, executorVars>>
     \/ part = "executor" /\ ExecutorNext /\ UNCHANGED <<vars, routerVars, lpVars>>

MCSpec == MCInit /\ [][MCNext]_mcVars
=============================================================================
