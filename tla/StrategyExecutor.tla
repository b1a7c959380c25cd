--------------------------- MODULE StrategyExecutor ---------------------------
(***************************************************************************)
(* How a Python strategy is executed (strategy/src/executor.rs with        *)
(* mm_pricing.rs, state_store.rs and indicator_registry.rs) and how the    *)
(* simulation gets its signals (run_with_input of                          *)
(* backtest/src/python_simulation.rs): from one call for all ticks, or tick*)
(* by tick from the executor of a tier.                                    *)
(*                                                                         *)
(* A source is what analyse_strategy finds in it. Of a tick there is the   *)
(* price; what is kept of the volumes goes the same way. A store has one   *)
(* window, and a bank of indicators one that looks back over Period prices *)
(* (StddevIndicator; the others are fed at the same places). What a quote  *)
(* of a pricing formula is computed from is left out: there is one or not. *)
(***************************************************************************)
EXTENDS Integers, FiniteSets, Sequences, SequencesExt

CONSTANTS
  Strategies, \* [schema, pricing, model, features, indicators, named, capacity, method, venues]
  Inputs,     \* sequences of prices, 0 for a tick without one
  Configs,    \* [venues, threshold, maxSkip]: multi_venue_data, and the stable regions in percent
  Codes,      \* what compute_signals may answer to a tick, of "buy", "sell", "close", "hold"
  Period      \* of the indicator

ASSUME ExecutorAssumption ==
  /\ \A s \in Strategies :
       /\ {s.schema, s.model, s.named, s.method, s.venues} \subseteq BOOLEAN
       /\ s.pricing \in {"none", "compiles", "fails"} /\ s.features \in {"none", "compile", "fail"}
       /\ s.indicators \subseteq {"known", "unknown", "invalid"} /\ s.capacity \in Nat
  /\ Inputs \subseteq Seq(Nat)
  /\ \A c \in Configs : c.threshold \in Nat /\ c.maxSkip \in Nat \ {0}
  /\ Period \in Nat \ {0}

VARIABLES
  strategy, prices, config,  \* what is run, over which ticks
  phase,     \* how far run_with_input has come
  tier,      \* of the executor, "none" before there is one
  window,    \* the window of the state store, with its running sum
  bank,      \* the window of the indicator
  enriched,  \* pre_enriched
  bulk,      \* whether there are precomputed_signals
  trigger, since,  \* last_trigger_price and ticks_since_update
  signals,   \* last_signals
  tick,  \* tick_idx, counted from 1
  asked,     \* the ticks on_tick was called for
  errors     \* diag_error_ticks

executorVars == <<strategy, prices, config, phase, tier, window, bank, enriched, bulk,
                  trigger, since, signals, tick, asked, errors>>

---------------------------------------------------------------------------
(* The store and the bank.                                                 *)

Empty == [items |-> <<>>, sum |-> 0]

PushLate(deque, size, x) ==   \* mutant: evicts when there is one too many
  LET full == Len(deque.items) > size
  IN  [items |-> Append(IF full THEN Tail(deque.items) ELSE deque.items, x),
       sum |-> deque.sum + x - (IF full THEN Head(deque.items) ELSE 0)]

(* push of BoundedDeque, and next of StddevIndicator. Of size 0 it evicts  *)
(* nothing, ever.                                                          *)
Push(deque, size, x) ==
  LET full == Len(deque.items) = size /\ deque.items # <<>>
  IN  [items |-> Append(IF full THEN Tail(deque.items) ELSE deque.items, x),
       sum |-> deque.sum + x - (IF full THEN Head(deque.items) ELSE 0)]

(* extract_indicators and IndicatorBank::new: one entry that is not known  *)
(* drops all, one whose parameters are invalid itself.                     *)
HasBank == tier # "0" /\ "unknown" \notin strategy.indicators /\ "known" \in strategy.indicators

(* classify_windows: only windows with certain names are fed.              *)
Windowed(w, price) == IF strategy.named THEN Push(w, strategy.capacity, price) ELSE w
Indicated(b, price) == IF HasBank THEN Push(b, Period, price) ELSE b

---------------------------------------------------------------------------
(* Building an executor, and the call for all ticks.                       *)

(* analyse_strategy. There is no way to tier 2.                            *)
TierOf(s) ==
  CASE ~s.schema -> "3"
    [] s.schema /\ s.pricing = "compiles" -> "0.5"
    [] s.schema /\ s.pricing # "compiles" /\ s.model /\ s.features = "compile" -> "0"
    [] OTHER -> "1"

IsPython(t) == t \in {"1", "3"}

(* build_executor: only the Python tiers initialize the strategy.          *)
Build ==
  /\ phase = "start"
  /\ tier' = TierOf(strategy)
  /\ phase' \in IF IsPython(tier') THEN {"built", "failed"} ELSE {"built"}
  /\ UNCHANGED <<strategy, prices, config, window, bank, enriched, bulk, trigger, since,
                 signals, tick, asked, errors>>

(* The methods are looked up by name; a strategy of the other tiers is not *)
(* asked at all.                                                           *)
Supported ==
  IsPython(tier) /\ ((config.venues /\ strategy.venues) \/ strategy.method)

FallBack(failed) == "ticks"   \* mutant: as the log has it

(* What follows an exception, a timeout or a list of another length.       *)
AfterTheCall(failed) == IF failed THEN "failed" ELSE "ticks"

ComputeAllSignals ==
  /\ phase = "built"
  /\ \E answer \in IF Supported THEN {"signals", "error", "wrong length"} ELSE {"none"} :
       /\ bulk' = (answer = "signals")
       /\ phase' = AfterTheCall(answer \in {"error", "wrong length"})
  /\ UNCHANGED <<strategy, prices, config, tier, window, bank, enriched, trigger, since,
                 signals, tick, asked, errors>>

---------------------------------------------------------------------------
(* The ticks.                                                              *)

Price == prices[tick]
InLoop == phase = "ticks" /\ tick <= Len(prices)

SkipTick ==
  /\ InLoop /\ Price = 0
  /\ tick' = tick + 1
  /\ UNCHANGED <<strategy, prices, config, phase, tier, window, bank, enriched, bulk, trigger,
                 since, signals, asked, errors>>

(* pre_enrich of the four executors, once a tick.                          *)
PreEnrich ==
  [window   |-> IF tier \in {"0.5", "1"} THEN Windowed(window, Price) ELSE window,
   bank     |-> Indicated(bank, Price),
   enriched |-> tier # "0"]

(* should_process                                                          *)
Distance(a, b) == IF a < b THEN b - a ELSE a - b
ShouldProcess ==
  trigger = 0 \/ since + 1 >= config.maxSkip
    \/ 100 * Distance(Price, trigger) >= config.threshold * trigger

Observe(processed) ==
  /\ trigger' = IF processed THEN Price ELSE trigger
  /\ since' = IF processed THEN 0 ELSE since + 1

Signalled(code) == IF code \in {"buy", "sell", "close"} THEN <<code>> ELSE <<>>

(* With precomputed signals nobody asks the detector or the executor.      *)
TakePrecomputed ==
  /\ InLoop /\ Price > 0 /\ bulk
  /\ \E code \in Codes : signals' = Signalled(code)
  /\ LET pre == PreEnrich IN window' = pre.window /\ bank' = pre.bank /\ enriched' = pre.enriched
  /\ tick' = tick + 1
  /\ UNCHANGED <<strategy, prices, config, phase, tier, bulk, trigger, since, asked, errors>>

(* In a stable region the last signals are acted on again.                 *)
StayStable ==
  /\ InLoop /\ Price > 0 /\ ~bulk /\ ~ShouldProcess
  /\ Observe(FALSE)
  /\ LET pre == PreEnrich IN window' = pre.window /\ bank' = pre.bank /\ enriched' = pre.enriched
  /\ tick' = tick + 1
  /\ UNCHANGED <<strategy, prices, config, phase, tier, bulk, signals, asked, errors>>

(* What on_tick finds to be done: pre_enrich has fed the windows, and the  *)
(* bank of all tiers but 0.5, which feeds its bank here, too.              *)
OnTick(pre) ==
  [window   |-> IF tier = "0" \/ (tier \in {"0.5", "1"} /\ ~pre.enriched)
                THEN Windowed(pre.window, Price) ELSE pre.window,
   bank     |-> IF tier = "0.5" \/ (IsPython(tier) /\ ~pre.enriched)
                THEN Indicated(pre.bank, Price) ELSE pre.bank]

(* What on_tick answers: tier 0 waits for ONNX; Python is asked with the   *)
(* method for all ticks, of which there is one.                            *)
Answers ==
  CASE tier = "0"   -> {<<>>}
    [] tier = "0.5" -> {<<>>, <<"quote">>}
    [] OTHER        -> IF strategy.method THEN {Signalled(code) : code \in Codes} \cup {<<"error">>}
                       ELSE {<<>>}

ProcessTick ==
  /\ InLoop /\ Price > 0 /\ ~bulk /\ ShouldProcess
  /\ Observe(TRUE)
  /\ LET after == OnTick(PreEnrich)
     IN  window' = after.window /\ bank' = after.bank /\ enriched' = FALSE
  /\ \E answer \in Answers :
       /\ signals' = IF answer = <<"error">> THEN <<>> ELSE answer
       /\ errors' = errors + (IF answer = <<"error">> THEN 1 ELSE 0)
  /\ asked' = asked \cup {tick}
  /\ tick' = tick + 1
  /\ UNCHANGED <<strategy, prices, config, phase, tier, bulk>>

(* A run in which every call failed is an error, as nothing was traded.    *)
EndOfTicks ==
  /\ phase = "ticks" /\ tick > Len(prices)
  /\ phase' = IF asked # {} /\ errors = Cardinality(asked) THEN "failed" ELSE "done"
  /\ UNCHANGED <<strategy, prices, config, tier, window, bank, enriched, bulk, trigger, since,
                 signals, tick, asked, errors>>

---------------------------------------------------------------------------

ExecutorInit ==
  /\ strategy \in Strategies /\ prices \in Inputs /\ config \in Configs
  /\ phase = "start" /\ tier = "none"
  /\ window = Empty /\ bank = Empty /\ enriched = FALSE /\ bulk = FALSE
  /\ trigger = 0 /\ since = 0 /\ signals = <<>>
  /\ tick = 1 /\ asked = {} /\ errors = 0

ExecutorNext ==
  \/ Build \/ ComputeAllSignals
  \/ SkipTick \/ TakePrecomputed \/ StayStable \/ ProcessTick
  \/ EndOfTicks

ExecutorSpec == ExecutorInit /\ [][ExecutorNext]_executorVars

---------------------------------------------------------------------------
(* Properties.                                                             *)

(* A window holds the last prices of what it was fed, and its running sum  *)
(* is theirs, whichever calls come in which order (pre_enrich, on_tick,    *)
(* should_process): in tiers 0.5 and 1 every price once; in tier 0 only    *)
(* those that ended a stable region. An indicator is fed every price, and  *)
(* in tier 0.5 those the strategy is asked about twice.                    *)
StateFollowsTheTicks ==
  LET LastOf(items, size) ==
        IF size = 0 \/ Len(items) <= size THEN items
        ELSE SubSeq(items, Len(items) - size + 1, Len(items))
      Total(items) == FoldSeq(LAMBDA x, sum : x + sum, 0, items)
      real  == SelectSeq([i \in 1 .. tick - 1 |-> i], LAMBDA i : prices[i] > 0)
      few   == SelectSeq(real, LAMBDA i : i \in asked)
      twice == FlattenSeq([k \in DOMAIN real |->
                 IF real[k] \in asked THEN <<real[k], real[k]>> ELSE <<real[k]>>])
      Of(indices) == [k \in DOMAIN indices |-> prices[indices[k]]]
      fed   == CASE ~strategy.named \/ tier \notin {"0", "0.5", "1"} -> <<>>
                 [] tier = "0" -> Of(few)
                 [] OTHER -> Of(real)
      shown == CASE ~HasBank -> <<>>
                 [] tier = "0.5" -> Of(twice)
                 [] OTHER -> Of(real)
  IN  /\ window.items = LastOf(fed, strategy.capacity) /\ window.sum = Total(window.items)
      /\ bank.items = LastOf(shown, Period) /\ bank.sum = Total(bank.items)

(* Whatever a Python strategy signals, it signals in the call for all      *)
(* ticks: when run_with_input goes tick by tick, there is no method to ask,*)
(* and of the tiers only 0.5 ever signals. So no tick ever fails either,   *)
(* and the error for runs in which all of them did is never returned.      *)
OnlyBulkSignals ==
  /\ signals # <<>> => bulk \/ tier = "0.5"
  /\ errors = 0 /\ (phase = "failed" => tick = 1)

=============================================================================
