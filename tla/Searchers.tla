------------------------------ MODULE Searchers ------------------------------
(***************************************************************************)
(* How the outside sources are spared (features/research): arXiv's request *)
(* spacing and the rest after a 429 (search/academic.py), used by parallel *)
(* queries of many runs, and the one-hour cache of trending papers of      *)
(* research/router.py. Times are kept relative to now: how long ago, or    *)
(* how long still.                                                         *)
(***************************************************************************)
EXTENDS Integers, FiniteSets

CONSTANTS
  Queries,    \* threads that search arXiv
  Spacing,    \* ARXIV_SPACING_SECONDS
  RestTime,   \* COOLDOWN_SECONDS
  Backoff,    \* _BACKOFF
  Oversleep,  \* how much later than asked a sleep may end
  Pages,      \* calls of get_trending_papers
  Ttl,        \* _TRENDING_TTL_SECONDS
  Retry,      \* _TRENDING_RETRY_SECONDS
  FetchTime   \* the fetch's timeout

ASSUME SpacingAssumption == {Spacing, RestTime, Backoff, Ttl, Retry, FetchTime} \subseteq Nat \ {0}
ASSUME FetchAssumption == FetchTime < Retry /\ Retry <= Ttl /\ Oversleep \in Nat

Attempts == 2   \* _RETRIES
Ago == 0 .. Spacing + Oversleep

VARIABLES
  query,      \* what each thread is doing, which attempt it is, how long it
              \* still sleeps, and, at the gate, its whole sleep and its excess
  passing,    \* who holds the lock of _arxiv_gate
  last,       \* clock - _last, up to a bound
  passed,     \* how long ago a thread really passed the gate, up to a bound
  close,      \* the least time there ever was between two of them
  resting,    \* _until - clock, 0 once it has passed
  page,       \* what each call of the cache is doing: its fetch's age
  next        \* next_fetch - now

searchers == <<query, passing, last, passed, close, resting, page, next>>
arxiv == <<query, passing, last, passed, close, resting>>
trending == <<page, next>>

NoFetch == -1
Doing(at, attempt, time) ==
  [at |-> at, attempt |-> attempt, sleep |-> time, nap |-> 0, over |-> 0]
Still == Doing("idle", 0, 0)
Farthest == Spacing + Oversleep

SearchersInit ==
  /\ query = [q \in Queries |-> Still]
  /\ passing = {}
  /\ last = Farthest /\ passed = Farthest /\ close = Farthest
  /\ resting = 0
  /\ page = [p \in Pages |-> NoFetch]
  /\ next = 0

-----------------------------------------------------------------------------
Becomes(q, r) == query' = [query EXCEPT ![q] = r]

(* search: nothing is asked of a source that rests. *)
Search(q) ==
  /\ query[q] = Still
  /\ IF resting > 0 THEN UNCHANGED query ELSE Becomes(q, Doing("gate", 1, 0))
  /\ UNCHANGED <<passing, last, passed, close, resting, trending>>

(* wait() of the gate: the lock, then a sleep with the lock held until     *)
(* Spacing after _last. A sleep may last a little longer than asked.       *)
EnterGate(q) ==
  /\ query[q].at = "gate" /\ query[q].sleep = 0
  /\ passing = {}
  /\ passing' = {q}
  /\ LET nap == IF last < Spacing THEN Spacing - last ELSE 0 IN
     \E over \in IF nap = 0 THEN {0} ELSE 0 .. Oversleep :
       Becomes(q, [at |-> "passing", attempt |-> query[q].attempt, sleep |-> nap + over,
                   nap |-> nap + over, over |-> over])
  /\ UNCHANGED <<last, passed, close, resting, trending>>

Least(a, b) == IF a < b THEN a ELSE b

(* Mutant: _last is the moment the thread came to the gate. *)
StampBeforeSleep(q) == last' = query[q].nap
(* _last is the moment the thread was to wake. *)
Stamp(q) == last' = query[q].over

(* The gate is passed; the resting flag is read again. *)
LeaveGate(q) ==
  /\ query[q].at = "passing" /\ query[q].sleep = 0
  /\ passing' = {}
  /\ Stamp(q)
  /\ passed' = 0
  /\ close' = Least(close, passed)
  /\ Becomes(q, IF resting > 0 THEN Still ELSE Doing("asking", query[q].attempt, 0))
  /\ UNCHANGED <<resting, trending>>

(* Results, or the second attempt failed. *)
SearchReturns(q) ==
  /\ query[q].at = "asking"
  /\ Becomes(q, Still)
  /\ UNCHANGED <<passing, last, passed, close, resting, trending>>

RateLimited(q) ==
  /\ query[q].at = "asking"
  /\ Becomes(q, Still)
  /\ resting' = RestTime
  /\ UNCHANGED <<passing, last, passed, close, trending>>

(* Any other error, once: back to the gate after a while. *)
RetryLater(q) ==
  /\ query[q].at = "asking" /\ query[q].attempt < Attempts
  /\ Becomes(q, Doing("gate", query[q].attempt + 1, Backoff))
  /\ UNCHANGED <<passing, last, passed, close, resting, trending>>

-----------------------------------------------------------------------------
(* Mutant: the refresh is not claimed. *)
ClaimNothing == UNCHANGED next
Claim == next' = Retry

(* get_trending_papers: the cache, or a fetch of its own when one is due. *)
OpenPage(p) ==
  /\ page[p] = NoFetch
  /\ next <= 0
  /\ page' = [page EXCEPT ![p] = 0]
  /\ Claim
  /\ UNCHANGED arxiv

(* Titles came: the next fetch is due Ttl after this one began. *)
FetchSucceeds(p) ==
  /\ page[p] # NoFetch
  /\ next' = Ttl - page[p]
  /\ page' = [page EXCEPT ![p] = NoFetch]
  /\ UNCHANGED arxiv

FetchFails(p) ==
  /\ page[p] # NoFetch
  /\ page' = [page EXCEPT ![p] = NoFetch]
  /\ UNCHANGED <<next, arxiv>>

(* Time passes; a sleep ends on time, a fetch by its timeout. *)
SearchersTick ==
  /\ \A p \in Pages : page[p] < FetchTime
  /\ \A q \in Queries : query[q].at = "passing" => query[q].sleep > 0
  /\ query' = [q \in Queries |-> [query[q] EXCEPT !.sleep = IF @ > 0 THEN @ - 1 ELSE 0]]
  /\ last' = Least(last + 1, Farthest)
  /\ passed' = Least(passed + 1, Farthest)
  /\ resting' = IF resting > 0 THEN resting - 1 ELSE 0
  /\ page' = [p \in Pages |-> IF page[p] = NoFetch THEN NoFetch ELSE page[p] + 1]
  /\ next' = IF next > 0 THEN next - 1 ELSE 0
  /\ UNCHANGED <<passing, close>>

SearchersNext ==
  \/ \E q \in Queries : \/ Search(q) \/ EnterGate(q) \/ LeaveGate(q)
                        \/ SearchReturns(q) \/ RateLimited(q) \/ RetryLater(q)
  \/ \E p \in Pages : OpenPage(p) \/ FetchSucceeds(p) \/ FetchFails(p)
  \/ SearchersTick

SearchersSpec == SearchersInit /\ [][SearchersNext]_searchers

-----------------------------------------------------------------------------
(* "no more than one request every 3 seconds" (academic.py:21): however    *)
(* the queries of parallel runs and their retries meet, two pass the gate  *)
(* no closer together than that, less what a sleep may last too long.      *)
ArxivSpaced == close >= Spacing - Oversleep

(* "concurrent page loads keep serving the cache instead of each starting  *)
(* its own fetch" (router.py:152-153): never two fetches at once, also     *)
(* when one is slow and the cache is renewed with the time it began.       *)
OneFetch == Cardinality({p \in Pages : page[p] # NoFetch}) <= 1
=============================================================================
