--------------------------- MODULE SuiDexProvider ---------------------------
(***************************************************************************)
(* SuiDexDataProvider (dataloader/src/sui_dex_provider.rs): trades of an   *)
(* exchange, or the swaps of a pool, are fetched from a subgraph page after*)
(* page; the next page is asked for by the time of the last event that was *)
(* read. Trades, as they are or put into candles, are kept in a cache that *)
(* all tasks share, until it is cleared.                                   *)
(*                                                                         *)
(* The subgraph (external) indexes the events of a chain in their order,   *)
(* and gets to know more of them while it is asked. It answers with up to  *)
(* PageSize events, may be out of reach, or may answer without data: a     *)
(* query that went wrong is a list of errors where the data would be. An   *)
(* event is a time and whether it is void, a trade of an amount of zero;   *)
(* price, side and size follow from the event. Exchanges and symbols are   *)
(* the subject of a request.                                               *)
(***************************************************************************)
EXTENDS Integers, FiniteSetsExt, SequencesExt

CONSTANTS
  Callers,       \* tasks that share the provider
  DataRequests,  \* [kind, subject, from, to, width]: width 0 is no granularity
  Events,        \* what the chain will have had: a sequence of [at, void]
  Indexed,       \* how many of them the subgraph may know at first
  PageSize,      \* PAGE_SIZE
  MaxClears,     \* bound on the times the cache is cleared
  Nothing        \* None

ASSUME SuiAssumption ==
  /\ PageSize \in Nat \ {0} /\ MaxClears \in Nat /\ Indexed \subseteq 0 .. Len(Events)
  /\ \A k, l \in DOMAIN Events : k < l => Events[k].at <= Events[l].at
  /\ \A r \in DataRequests : r.kind \in {"trades", "swaps"} /\ r.width \in Nat

VARIABLES
  known,      \* how many of the events the subgraph has indexed
  cache,      \* what is kept of trades, by cache key
  clears,     \* how often the cache was cleared
  tasks       \* what each caller is at

suiVars == <<known, cache, clears, tasks>>

Idle == [at |-> "idle"]

(* Mutant: the key leaves the end of the range out as well.                *)
KeyWithoutEnd(r) == <<r.subject, r.from>>

(* The key leaves the granularity out.                                     *)
CacheKey(r) == <<r.subject, r.from, r.to>>

(* Mutant: trades too are asked for after the last second.                 *)
PageAfter(r, last) ==
  LET hits == SelectSeq([k \in 1 .. known |-> k],
                        LAMBDA k : last < Events[k].at /\ Events[k].at <= r.to)
  IN  SubSeq(hits, 1, Min({PageSize, Len(hits)}))

(* The page of a query: timestamp_gte for trades, timestamp_gt for swaps.  *)
Page(r, last) ==
  LET first == IF r.kind = "trades" THEN last ELSE last + 1
      hits == SelectSeq([k \in 1 .. known |-> k],
                        LAMBDA k : first <= Events[k].at /\ Events[k].at <= r.to)
  IN  SubSeq(hits, 1, Min({PageSize, Len(hits)}))

(* What is taken from a page: of trades, those that are not void.          *)
Taken(r, page) == SelectSeq(page, LAMBDA k : r.kind = "swaps" \/ ~Events[k].void)

(* Where the next page begins: at the last event that was taken, and for   *)
(* trades one second later. (timestamp_gt skips that second for swaps.)    *)
LastTaken(r, last, page) ==
  IF Taken(r, page) = <<>> THEN last ELSE Events[Last(Taken(r, page))].at

NextFrom(r, last, page) ==
  LastTaken(r, last, page) + IF r.kind = "trades" THEN 1 ELSE 0

(* aggregate_trades_to_candles: one candle for each interval with a trade. *)
Candles(trades, width) ==
  LET bucket(k) == (Events[k].at \div width) * width
      buckets == SetToSortSeq({bucket(k) : k \in ToSet(trades)}, <)
  IN  [n \in DOMAIN buckets |->
         [at |-> buckets[n], trades |-> SelectSeq(trades, LAMBDA k : bucket(k) = buckets[n])]]

Shaped(r, got) ==
  IF r.width # 0 THEN Candles(got, r.width)
  ELSE [n \in DOMAIN got |-> [at |-> Events[got[n]].at, trades |-> <<got[n]>>]]

---------------------------------------------------------------------------
SuiInit ==
  /\ known \in Indexed
  /\ cache = [key \in {CacheKey(r) : r \in DataRequests} |-> Nothing]
  /\ clears = 0
  /\ tasks = [c \in Callers |-> Idle]

Proceed(c, task) == tasks' = [tasks EXCEPT ![c] = task]

(* What is kept for later, and the history of the fetch that it came from. *)
Entry(task) ==
  [result |-> Shaped(task.request, task.got), request |-> task.request, seams |-> task.seams,
   cut |-> task.cut, asked |-> task.asked, stored |-> clears]

Answered(r, asked, entry) ==
  [at |-> "answered", request |-> r, asked |-> asked, entry |-> entry]

Asked == [known |-> known, clears |-> clears]

(* fetch looks into the cache first; swaps are never kept.                 *)
Hit(c, r) ==
  /\ tasks[c] = Idle
  /\ r.kind = "trades" /\ cache[CacheKey(r)] # Nothing
  /\ Proceed(c, Answered(r, Asked, cache[CacheKey(r)]))
  /\ UNCHANGED <<known, cache, clears>>

Miss(c, r) ==
  /\ tasks[c] = Idle
  /\ r.kind = "trades" => cache[CacheKey(r)] = Nothing
  /\ Proceed(c, [at |-> "paging", request |-> r, last |-> r.from, got |-> <<>>,
                 seams |-> {}, cut |-> FALSE, asked |-> Asked])
  /\ UNCHANGED <<known, cache, clears>>

(* The pages are read: trades are shaped and stored, unless there are none,*)
(* and swaps are the answer.                                               *)
PagesRead(c, task) ==
  Proceed(c, IF task.request.kind = "swaps" THEN Answered(task.request, task.asked, Entry(task))
             ELSE IF task.got = <<>> THEN [at |-> "no data"]
             ELSE [task EXCEPT !.at = "storing"])

(* A page ends the fetch if it is not full. The second it ends in is a seam*)
(* otherwise.                                                              *)
ReadPage(c) ==
  /\ tasks[c].at = "paging"
  /\ LET task == tasks[c]
         page == Page(task.request, task.last)
         next == NextFrom(task.request, task.last, page)
         read == [task EXCEPT !.got = @ \o Taken(task.request, page)]
     IN  IF Len(page) < PageSize
         THEN PagesRead(c, read)
         ELSE Proceed(c, [read EXCEPT !.last = next,
                            !.seams = @ \cup {LastTaken(task.request, task.last, page)}])
  /\ UNCHANGED <<known, cache, clears>>

(* An answer without data is a page without events; of swaps, any body in  *)
(* which there is no data is one, whatever the status.                     *)
ReadNoData(c) ==
  /\ tasks[c].at = "paging"
  /\ PagesRead(c, [tasks[c] EXCEPT !.cut = TRUE])
  /\ UNCHANGED <<known, cache, clears>>

(* No answer, another status, or a body that is no answer.                 *)
QueryFails(c) ==
  /\ tasks[c].at = "paging"
  /\ Proceed(c, [at |-> "failed"])
  /\ UNCHANGED <<known, cache, clears>>

Store(c) ==
  /\ tasks[c].at = "storing"
  /\ cache' = [cache EXCEPT ![CacheKey(tasks[c].request)] = Entry(tasks[c])]
  /\ Proceed(c, Answered(tasks[c].request, tasks[c].asked, Entry(tasks[c])))
  /\ UNCHANGED <<known, clears>>

ClearCache ==
  /\ clears < MaxClears
  /\ clears' = clears + 1
  /\ cache' = [key \in DOMAIN cache |-> Nothing]
  /\ UNCHANGED <<known, tasks>>

(* The subgraph indexes the next event.                                    *)
Index ==
  /\ known < Len(Events)
  /\ known' = known + 1
  /\ UNCHANGED <<cache, clears, tasks>>

SuiNext ==
  \/ ClearCache \/ Index
  \/ \E c \in Callers :
       \/ \E r \in DataRequests : Hit(c, r) \/ Miss(c, r)
       \/ ReadPage(c) \/ ReadNoData(c) \/ QueryFails(c) \/ Store(c)

SuiSpec == SuiInit /\ [][SuiNext]_suiVars

---------------------------------------------------------------------------
(* What of a request's range the subgraph knew when it was asked.          *)
Wanted(r, before) ==
  {k \in 1 .. before : r.from <= Events[k].at /\ Events[k].at <= r.to
                       /\ (r.kind = "trades" => ~Events[k].void)}

Entries == {tasks[c].entry : c \in {d \in Callers : tasks[d].at = "answered"}}

Held(entry) == FlattenSeq([n \in DOMAIN entry.result |-> entry.result[n].trades])

(* An answer has the events of the range in their order and once each, and *)
(* all that were there when the fetch began, but for those that share their*)
(* second with the end of a full page, swaps of the very first second, and *)
(* what comes after an answer without data.                                *)
LossesAreAtPageEnds ==
  \A entry \in Entries :
    /\ \A i, j \in DOMAIN Held(entry) : i < j => Held(entry)[i] < Held(entry)[j]
    /\ \A k \in Wanted(entry.request, entry.asked.known) \ ToSet(Held(entry)) :
         \/ Events[k].at \in entry.seams
         \/ entry.request.kind = "swaps" /\ Events[k].at = entry.request.from
         \/ entry.cut /\ \A l \in ToSet(Held(entry)) : l < k

(* An answer is one to the request, of some granularity; and if the events *)
(* were read before the request came, then they were stored after the last *)
(* clearing before it, though perhaps read before that.                    *)
AnswersAreTheirs ==
  \A c \in Callers : tasks[c].at = "answered" =>
    LET request == tasks[c].request  entry == tasks[c].entry
    IN  /\ [entry.request EXCEPT !.width = request.width] = request
        /\ entry.stored >= tasks[c].asked.clears
=============================================================================
