---------------------------- MODULE PythonBridge ----------------------------
(***************************************************************************)
(* PythonStrategy (strategy/src/strategies/python_strategy.rs): jobs that  *)
(* run Python strategies in one process, and so in one interpreter. They   *)
(* share its modules, among them the SDK that the first of them injects;   *)
(* its lock (the GIL); its main thread, the only one that an interrupt     *)
(* reaches; and the deadline that watchdogs compare with the clock.        *)
(*                                                                         *)
(* A thread runs one job after the other, each with a strategy of its own. *)
(* The interpreter is external: it takes the lock from a thread that runs  *)
(* Python and gives it to one that waits, and, if Python handles SIGINT, it*)
(* raises KeyboardInterrupt as soon as its main thread, the one that asked *)
(* for it first (auto-initialize), runs Python. A strategy is supposed not *)
(* to catch it. What strategies compute, and the conversion of data and    *)
(* signals, are left out.                                                  *)
(***************************************************************************)
EXTENDS Integers

CONSTANTS
  Threads,
  Main,         \* the main thread of the interpreter, which may run no job
  MaxJobs,      \* bound on the jobs
  MaxCalls,     \* bound on the calls of all strategies
  Nobody        \* a value that is no thread and no call

ASSUME BridgeAssumption ==
  /\ MaxJobs \in Nat /\ MaxCalls \in Nat
  /\ Nobody \notin Threads /\ Nobody \notin Nat

Calls == 1 .. MaxCalls

(* The deadline when it is 0.0, and before there is a list to hold it.     *)
Disarmed == 0
NoList == -1

VARIABLES
  gil,          \* the thread that holds the lock of the interpreter
  sdk,          \* SDK_STATE
  package,      \* trading_platform in sys.modules
  names,        \* MODULE_NAME_COUNTER: the names that were given out
  modules,      \* of each name in sys.modules, the job whose Strategy it has
  job,          \* of each thread: its job
  step,         \* of each thread: where its job is
  class,        \* of each thread: the job whose Strategy was instantiated
  current,      \* of each thread: the call of its strategy
  deadline,     \* _wd_deadline[0], as the call that armed it
  over,         \* whether the clock has passed it
  seen,         \* of each watchdog: the deadline that it found to be over
  interrupt,    \* an interrupt on its way to the main thread, and what for
  started,      \* the number of jobs
  begun,        \* the number of calls
  told,         \* of each thread: what its call was told it timed out for
  meddled,      \* history: the calls in progress whose deadline another job has written
  blamed        \* history: the calls that a watchdog found to take too long,
                \* and those that ended without disarming

bridgeVars == <<gil, sdk, package, names, modules, job, step, class, current,
                deadline, over, seen, interrupt, started, begun, told, meddled, blamed>>

interpreter == <<sdk, package, names, modules>>
watch == <<deadline, over, seen, interrupt, told, meddled, blamed>>
jobs == <<job, class, current, started, begun>>

BridgeInit ==
  /\ gil = Nobody
  /\ sdk = "not started" /\ package = "absent" /\ names = 0 /\ modules = <<>>
  /\ job = [t \in Threads |-> 0]
  /\ step = [t \in Threads |-> "idle"]
  /\ class = [t \in Threads |-> Nobody] /\ current = [t \in Threads |-> Nobody]
  /\ deadline = NoList /\ over = FALSE /\ seen = <<>> /\ interrupt = Nobody
  /\ started = 0 /\ begun = 0
  /\ told = [t \in Threads |-> Nobody] /\ meddled = {} /\ blamed = {}

---------------------------------------------------------------------------
Goes(t, where) == step' = [step EXCEPT ![t] = where]

(* The lock. Rust code keeps it until its closure ends; Python code may    *)
(* lose it and get it back.                                                *)

InPython ==
  {"inject", "compile", "initialize", "watch", "build", "running", "disarm", "asked"}
InClosure == InPython \cup {"sdk", "arm"}

(* KeyboardInterrupt strikes whatever Python the main thread runs next.    *)
Raises(t) == t = Main /\ interrupt # Nobody

Acquire(t) ==
  /\ gil = Nobody /\ step[t] \in InClosure
  /\ gil' = t
  /\ UNCHANGED <<interpreter, jobs, step, watch>>

Yield(t) ==
  /\ gil = t /\ step[t] \in InPython /\ ~Raises(t)
  /\ \/ \E u \in Threads \ {t} : step[u] \in InClosure
     \/ \E d \in DOMAIN seen : seen[d] # Nobody \/ over
  /\ gil' = Nobody
  /\ UNCHANGED <<interpreter, jobs, step, watch>>

Ends(t) ==                                    \* the job, with an error or without
  /\ gil' = IF gil = t THEN Nobody ELSE gil
  /\ Goes(t, "idle")
  /\ job' = [job EXCEPT ![t] = 0] /\ class' = [class EXCEPT ![t] = Nobody]

Struck(t) == interrupt' = IF Raises(t) THEN Nobody ELSE interrupt

InCall(t) == step[t] \in {"build", "running", "disarm"}

(* Writing the deadline, and whose deadline is lost by it.                 *)
InProgress == {current[t] : t \in {u \in Threads : InCall(u)}}

Meddled(t) == meddled \cup ({deadline} \cap (InProgress \ {current[t]}))

Writes(t, value) == deadline' = value /\ over' = FALSE /\ meddled' = Meddled(t)

---------------------------------------------------------------------------
Begin(t) ==
  /\ step[t] = "idle" /\ started < MaxJobs
  /\ started' = started + 1
  /\ job' = [job EXCEPT ![t] = started + 1]
  /\ Goes(t, "sdk")
  /\ UNCHANGED <<gil, interpreter, class, current, begun, watch>>

(* inject_sdk: the first caller builds the package, the others sleep until *)
(* it has, without the lock.                                               *)
InjectSdk(t) ==
  /\ gil = t /\ step[t] = "sdk"
  /\ \/ /\ sdk = "not started"
        /\ sdk' = "in progress" /\ package' = "partial" /\ Goes(t, "inject")
        /\ UNCHANGED <<gil, job, class>>
     \/ /\ sdk = "done"
        /\ Goes(t, "compile")
        /\ UNCHANGED <<gil, sdk, package, job, class>>
     \/ /\ sdk = "failed"
        /\ Ends(t)
        /\ UNCHANGED <<sdk, package>>
     \/ /\ sdk = "in progress"
        /\ gil' = Nobody
        /\ UNCHANGED <<sdk, package, step, job, class>>
  /\ UNCHANGED <<names, modules, current, started, begun, watch>>

SdkInjected(t) ==
  /\ gil = t /\ step[t] = "inject"
  /\ \/ /\ sdk' = "done" /\ package' = "whole" /\ Goes(t, "compile")
        /\ UNCHANGED <<gil, job, class>>
     \/ /\ sdk' = "failed" /\ Ends(t)
        /\ UNCHANGED package
  /\ UNCHANGED <<names, modules, current, started, begun, watch>>

(* init_python: the source is run in the module of a name; what an earlier *)
(* source has put into a module of that name is still there.               *)
ModuleName == names + 1                       \* unique_module_name

Found(t, named) ==            \* named: the source has a class named Strategy
  IF named THEN job[t]
  ELSE IF ModuleName \in DOMAIN modules THEN modules[ModuleName] ELSE Nobody

(* It fails before there is a module, after it, or not at all; where errors*)
(* are ignored, so is an interrupt.                                        *)
Compile(t) ==
  /\ gil = t /\ step[t] = "compile"
  /\ Struck(t)
  /\ \/ Ends(t) /\ UNCHANGED <<names, modules>>
     \/ /\ names' = names + 1
        /\ \E named \in BOOLEAN :
             /\ modules' = [n \in DOMAIN modules \cup {ModuleName} |->
                              IF n = ModuleName THEN Found(t, named) ELSE modules[n]]
             /\ \/ Ends(t)
                \/ /\ Found(t, named) # Nobody
                   /\ class' = [class EXCEPT ![t] = Found(t, named)]
                   /\ gil' = Nobody /\ Goes(t, "initialize")
                   /\ UNCHANGED job
  /\ UNCHANGED <<sdk, package, current, started, begun,
                 deadline, over, seen, told, meddled, blamed>>

(* initialize: the strategy's own, and what is asked of it once.           *)
Initialize(t) ==
  /\ gil = t /\ step[t] = "initialize"
  /\ Struck(t)
  /\ \/ /\ gil' = Nobody /\ Goes(t, "watch")
        /\ UNCHANGED <<job, class>>
     \/ Ends(t)
  /\ UNCHANGED <<interpreter, current, started, begun, deadline, over, seen, told, meddled, blamed>>

(* Every strategy starts a watchdog, on a new list that takes the place of *)
(* the one before it; an error is ignored.                                 *)
StartWatchdog(t) ==
  /\ gil = t /\ step[t] = "watch"
  /\ Struck(t)
  /\ IF Raises(t) THEN UNCHANGED <<deadline, over, seen, meddled>>
     ELSE /\ Writes(t, Disarmed)
          /\ seen' = [d \in DOMAIN seen \cup {job[t]} |->
                        IF d = job[t] THEN Nobody ELSE seen[d]]
  /\ gil' = Nobody /\ Goes(t, "ready")
  /\ UNCHANGED <<interpreter, jobs, told, blamed>>

---------------------------------------------------------------------------
(* A call: generate_signals, compute_all_signals, compute_all_position_    *)
(* sizes or compute_all_signals_multi_venue.                               *)

BeginCall(t) ==
  /\ step[t] = "ready" /\ begun < MaxCalls
  /\ begun' = begun + 1
  /\ current' = [current EXCEPT ![t] = begun + 1]
  /\ Goes(t, "arm")
  /\ UNCHANGED <<gil, interpreter, job, class, started, watch>>

(* Arming is a line of Python whose failure is ignored.                    *)
Arm(t) ==
  /\ gil = t /\ step[t] = "arm"
  /\ Struck(t)
  /\ IF Raises(t) \/ deadline = NoList THEN UNCHANGED <<deadline, over, meddled>>
     ELSE Writes(t, current[t])
  /\ Goes(t, "build")
  /\ UNCHANGED <<gil, interpreter, jobs, seen, told, blamed>>

CallEnds(t) ==
  /\ gil' = Nobody /\ Goes(t, "ready")
  /\ current' = [current EXCEPT ![t] = Nobody] /\ told' = [told EXCEPT ![t] = Nobody]

(* The data of the call is converted; an error, or an interrupt while it   *)
(* runs Python for that, returns at once.                                  *)
Build(t) ==
  /\ gil = t /\ step[t] = "build"
  /\ \/ /\ Goes(t, "running")
        /\ UNCHANGED <<gil, interrupt, current, told, meddled, blamed>>
     \/ /\ Struck(t) /\ CallEnds(t)
        /\ blamed' = blamed \cup {current[t]} /\ meddled' = meddled \ {current[t]}
  /\ UNCHANGED <<interpreter, job, class, started, begun, deadline, over, seen>>

(* The strategy's method returns or raises an error of its own.            *)
Return(t) ==
  /\ gil = t /\ step[t] = "running"
  /\ Goes(t, "disarm")
  /\ UNCHANGED <<gil, interpreter, jobs, watch>>

(* It is interrupted. The error says that it timed out; the one of sizes is *)
(* only logged, and there are none.                                        *)
Interrupt(t) ==
  /\ gil = t /\ step[t] = "running" /\ Raises(t)
  /\ interrupt' = Nobody
  /\ told' = [told EXCEPT ![t] = interrupt]
  /\ Goes(t, "disarm")
  /\ UNCHANGED <<gil, interpreter, jobs, deadline, over, seen, meddled, blamed>>

NothingToDisarm(t) ==   \* mutant: leaves the deadline as it is
  /\ gil = t /\ step[t] = "disarm"
  /\ CallEnds(t)
  /\ meddled' = meddled \ {current[t]}
  /\ UNCHANGED <<interpreter, job, class, started, begun, deadline, over, seen, interrupt, blamed>>

Disarm(t) ==
  /\ gil = t /\ step[t] = "disarm"
  /\ Struck(t)
  /\ CallEnds(t)
  /\ IF Raises(t) \/ deadline = NoList
     THEN /\ blamed' = blamed \cup {current[t]} /\ meddled' = meddled \ {current[t]}
          /\ UNCHANGED <<deadline, over>>
     ELSE /\ deadline' = Disarmed /\ over' = FALSE
          /\ meddled' = Meddled(t) \ {current[t]}
          /\ UNCHANGED blamed
  /\ UNCHANGED <<interpreter, job, class, started, begun, seen>>

(* What is asked without a deadline: update_state, update_parameters,      *)
(* compute_all_features, on_expiry, on_funding_rate_change, reset and what *)
(* the strategy requires. An interrupt is an error like any other.         *)
AskStrategy(t) ==
  /\ step[t] = "ready" /\ Goes(t, "asked")
  /\ UNCHANGED <<gil, interpreter, jobs, watch>>

StrategyAnswers(t) ==
  /\ gil = t /\ step[t] = "asked"
  /\ Struck(t)
  /\ gil' = Nobody /\ Goes(t, "ready")
  /\ UNCHANGED <<interpreter, jobs, deadline, over, seen, told, meddled, blamed>>

(* The strategy is dropped; its watchdog stays.                            *)
Drop(t) ==
  /\ step[t] = "ready" /\ Ends(t)
  /\ UNCHANGED <<interpreter, current, started, begun, watch>>

---------------------------------------------------------------------------
(* Time, and the watchdogs: they look once a second.                       *)
TimeUp ==
  /\ deadline \in Calls /\ ~over
  /\ over' = TRUE
  /\ UNCHANGED <<gil, interpreter, jobs, step, deadline, seen, interrupt, told, meddled, blamed>>

Look(d) ==
  /\ gil = Nobody /\ seen[d] = Nobody /\ over
  /\ seen' = [seen EXCEPT ![d] = deadline]
  /\ blamed' = blamed \cup ({deadline} \cap InProgress)
  /\ UNCHANGED <<gil, interpreter, jobs, step, deadline, over, interrupt, told, meddled>>

(* It clears the deadline of now, and interrupts.                          *)
Bark(d) ==
  /\ gil = Nobody /\ seen[d] # Nobody
  /\ deadline' = Disarmed /\ over' = FALSE
  /\ interrupt' = IF interrupt = Nobody THEN seen[d] ELSE interrupt
  /\ seen' = [seen EXCEPT ![d] = Nobody]
  /\ UNCHANGED <<gil, interpreter, jobs, step, told, meddled, blamed>>

---------------------------------------------------------------------------
BridgeNext ==
  \/ \E t \in Threads :
       \/ Acquire(t) \/ Yield(t) \/ Begin(t) \/ InjectSdk(t) \/ SdkInjected(t)
       \/ Compile(t) \/ Initialize(t) \/ StartWatchdog(t)
       \/ BeginCall(t) \/ Arm(t) \/ Build(t) \/ Return(t) \/ Interrupt(t)
       \/ Disarm(t) \/ AskStrategy(t) \/ StrategyAnswers(t) \/ Drop(t)
  \/ TimeUp
  \/ \E d \in DOMAIN seen : Look(d) \/ Bark(d)

TakesInterrupt(t) ==
  /\ Raises(t)
  /\ \/ Compile(t) \/ Initialize(t) \/ StartWatchdog(t)
     \/ Build(t) \/ Interrupt(t) \/ Disarm(t) \/ StrategyAnswers(t)

(* Whoever waits for the lock gets it in turn, its holder goes on as long  *)
(* as that is not the code of a strategy, which nothing makes end, the code*)
(* of the SDK does end, and some watchdog goes on looking.                 *)
BridgeFairness ==
  /\ \A t \in Threads : SF_bridgeVars(Acquire(t))
  /\ WF_bridgeVars(\E t \in Threads : Yield(t) \/ InjectSdk(t) \/ Arm(t) \/ TakesInterrupt(t))
  /\ SF_bridgeVars(\E t \in Threads : SdkInjected(t))
  /\ SF_bridgeVars(\E d \in DOMAIN seen : Look(d) \/ Bark(d))

BridgeSpec == BridgeInit /\ [][BridgeNext]_bridgeVars /\ BridgeFairness

---------------------------------------------------------------------------
(* Properties.                                                             *)

(* A job runs the class of its own source, on a whole SDK: a strategy never*)
(* gets that of an earlier job whose module lives on, nor a package that   *)
(* another thread is still building (unique_module_name and inject_sdk).   *)
OwnClassWholeSdk ==
  \A t \in Threads :
    /\ class[t] \in {job[t], Nobody}
    /\ step[t] \notin {"idle", "sdk", "inject"} => package = "whole"

(* A call that is told it timed out ran in the main thread, and the time of*)
(* a call was up: of this one or of another, of whichever job, that took   *)
(* too long as a watchdog looked, or that ended without disarming.         *)
TimeoutsHaveACause ==
  \A t \in Threads : told[t] # Nobody => t = Main /\ told[t] \in blamed

(* The injection of the SDK ends, though other threads wait for it.        *)
InjectionEnds == sdk = "in progress" ~> sdk # "in progress"

(* A call that takes too long is interrupted, if it runs in the main thread*)
(* and no other job has written the deadline since it was armed.           *)
Overdue(t) == t = Main /\ step[t] = "running" /\ current[t] = deadline /\ over

OverdueCallsEnd ==
  (\E t \in Threads : Overdue(t)) ~>
    \A t \in Threads : t = Main => step[t] # "running" \/ current[t] \in meddled

(* Jobs in one interpreter meet in the SDK, the names of modules, the lock *)
(* and the deadline: none gets what is another's, none is told it timed out*)
(* without a cause, and nobody waits for ever for what the lock is needed. *)
JobsShareOnePython ==
  /\ [](OwnClassWholeSdk /\ TimeoutsHaveACause)
  /\ InjectionEnds /\ OverdueCallsEnd
=============================================================================
