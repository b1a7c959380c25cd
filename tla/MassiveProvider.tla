-------------------------- MODULE MassiveProvider --------------------------
(***************************************************************************)
(* MassiveDataProvider (dataloader/src/massive_provider.rs): the bars of a *)
(* range of days are fetched page by page from a server that may be slow,  *)
(* fail or refuse. A page is asked for again while its request fails in a  *)
(* way that may pass; any other failure ends the fetch, and the pages that *)
(* were there are dropped.                                                 *)
(*                                                                         *)
(* The server has the range cut into pages, each naming the next; a page   *)
(* may be empty. What it holds does not change while it is read, so that a *)
(* page is its number here. The client gives every request 90 seconds, the *)
(* reading of its body included.                                           *)
(***************************************************************************)
EXTENDS Integers, Sequences, FiniteSets

CONSTANTS
  MaxPages,      \* bound on the pages of a range
  MaxAttempts    \* MAX_ATTEMPTS of fetch_page_with_retry

ASSUME MassiveAssumption == MaxPages \in Nat \ {0} /\ MaxAttempts \in Nat \ {0}

(* Failures that may pass: the request was not sent or got no head of an   *)
(* answer in time, or the status was 5xx. Refusals end the fetch: 429, any *)
(* other status, and a body that cannot be parsed; and so does a body that *)
(* is not there when the 90 seconds are over.                              *)
Transient == {"unreachable", "server error"}
Refusals == {"rate limited", "refused", "bad body"}
SlowBody == "slow body"

VARIABLES
  call,       \* what asks: fetch of bars, or of an option contract
  server,     \* the server: which of the pages of the range hold bars
  phase,      \* where fetch_page_with_retry is
  url,        \* the page that is asked for
  attempt,
  allBars,    \* all_bars, page by page
  mishaps     \* history: what befell the requests for this page

massiveVars == <<call, server, phase, url, attempt, allBars, mishaps>>

Waiting == phase = "sent"
Ended == {"bars", "no data", "failed"}

MassiveInit ==
  /\ call \in {"fetch", "fetch_option_aggregates"}
  /\ \E n \in 1 .. MaxPages : server \in [1 .. n -> BOOLEAN]
  /\ phase = "sent" /\ url = 1 /\ attempt = 1
  /\ allBars = <<>> /\ mishaps = <<>>

(* The result of fetch_bars: fetch takes no bars for an error, while an    *)
(* option contract may have none.                                          *)
EndOf(bars) == IF call = "fetch" /\ bars = <<>> THEN "no data" ELSE "bars"

Arrived == IF server[url] THEN Append(allBars, url) ELSE allBars

PageArrives ==
  /\ Waiting
  /\ allBars' = Arrived
  /\ mishaps' = <<>>
  /\ IF url < Len(server)
     THEN url' = url + 1 /\ attempt' = 1 /\ phase' = "sent"
     ELSE phase' = EndOf(Arrived) /\ UNCHANGED <<url, attempt>>
  /\ UNCHANGED <<call, server>>

(* Mutant: a fetch that gives up returns the pages it has.                 *)
RequestFailsWithPages(mishap) ==
  /\ Waiting
  /\ mishaps' = Append(mishaps, mishap)
  /\ phase' = IF mishap \in Transient /\ attempt < MaxAttempts THEN "backoff"
              ELSE EndOf(allBars)
  /\ UNCHANGED <<call, server, url, attempt, allBars>>

RequestFails(mishap) ==
  /\ Waiting
  /\ mishaps' = Append(mishaps, mishap)
  /\ phase' = IF mishap \in Transient /\ attempt < MaxAttempts THEN "backoff" ELSE "failed"
  /\ UNCHANGED <<call, server, url, attempt, allBars>>

(* Mutant: every retry starts the count anew.                              *)
TryAgainUncounted ==
  /\ phase = "backoff"
  /\ phase' = "sent" /\ attempt' = 1 /\ mishaps' = <<>>
  /\ UNCHANGED <<call, server, url, allBars>>

TryAgain ==
  /\ phase = "backoff"
  /\ phase' = "sent" /\ attempt' = attempt + 1
  /\ UNCHANGED <<call, server, url, allBars, mishaps>>

Answer ==
  \/ PageArrives
  \/ \E mishap \in Transient \cup Refusals \cup {SlowBody} : RequestFails(mishap)

MassiveNext == Answer \/ TryAgain

(* A request is answered or runs into its timeout, and a sleep ends.       *)
MassiveFairness == WF_massiveVars(Answer) /\ WF_massiveVars(TryAgain)

MassiveSpec == MassiveInit /\ [][MassiveNext]_massiveVars /\ MassiveFairness

---------------------------------------------------------------------------
(* A fetch that succeeds has every bar of the range, in the order of the   *)
(* pages and once, whatever was asked for again on the way. One that fails *)
(* was refused, or the same page failed MaxAttempts times, or its body was *)
(* too slow once.                                                          *)
RangeIsWhole ==
  /\ phase = "bars" => allBars = SelectSeq([k \in DOMAIN server |-> k], LAMBDA k : server[k])
  /\ phase = "failed" =>
       \/ mishaps[Len(mishaps)] \in Refusals \cup {SlowBody}
       \/ Len(mishaps) = MaxAttempts

(* Every fetch ends, however often the server fails.                       *)
FetchEnds == <>(phase \in Ended)
=============================================================================
