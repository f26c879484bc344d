------------------------------ MODULE NewsRefresh ------------------------------
(***************************************************************************)
(* The news refresh of news/scheduler.py: the single-flight task           *)
(* (_inflight, refresh_news, _on_pipeline_done), the pipeline it runs      *)
(* (fetch, check, summarize, store) and its callers, the background loop   *)
(* and the POST handlers of news/router.py with their cooldown. Everything *)
(* but the two store calls and the model calls runs on the event loop;     *)
(* between an await and the next anything else may happen there, also      *)
(* between the end of the task and its done callback.                      *)
(***************************************************************************)
EXTENDS Integers, FiniteSets, SequencesExt

CONSTANTS
  Urls,        \* normalized article urls
  Fetches,     \* what fetch_all_sources may return: sequences of urls
  Background,  \* the background loop
  Clients,     \* the requests to POST /api/news/refresh
  Tasks,       \* names for the pipeline tasks alive at one time
  None,        \* no task
  Cap,         \* NEWS_MAX_NEW_ITEMS_PER_RUN
  Cooldown     \* NEWS_MANUAL_COOLDOWN_SECONDS, in clock units

ASSUME FetchesAssumption == Fetches \subseteq Seq(Urls)
ASSUME CallerAssumption == Background \notin Clients /\ None \notin Tasks
ASSUME LimitAssumption == Cap \in Nat /\ Cooldown \in Nat \ {0}

VARIABLES
  stored,     \* the urls of news_items
  inflight,   \* _inflight
  phase,      \* where each task is
  fetched,    \* fetched[n]: task n's deduped list
  batch,      \* batch[n]: the new items task n summarizes and stores
  outcome,    \* outcome[n]: what its awaiters will get
  joined,     \* joined[c]: the task caller c awaits
  since,      \* seconds_since_last_refresh(), at most Cooldown
  finishedAgo \* history variable: time since a task last ended, at most Cooldown

vars == <<stored, inflight, phase, fetched, batch, outcome, joined, since, finishedAgo>>

Callers == Clients \cup {Background}
Ended == {"finished", "over"}

-----------------------------------------------------------------------------
Init ==
  /\ stored \in SUBSET Urls
  /\ inflight = None
  /\ phase = [n \in Tasks |-> "over"]
  /\ fetched = [n \in Tasks |-> <<>>]
  /\ batch = [n \in Tasks |-> <<>>]
  /\ outcome = [n \in Tasks |-> "none"]
  /\ joined = [c \in Callers |-> None]
  /\ since = Cooldown
  /\ finishedAgo = Cooldown

(* A name is free when its task is over and nobody awaits it. *)
FreeTask(n) == phase[n] = "over" /\ \A c \in Callers : joined[c] # n

(* _inflight is not None and not _inflight.done() *)
InProgress == inflight # None /\ phase[inflight] \notin Ended

(* refresh_news up to its await: join the task in progress, or start one.  *)
Refresh(c) ==
  /\ joined[c] = None
  /\ \/ /\ InProgress
        /\ joined' = [joined EXCEPT ![c] = inflight]
        /\ UNCHANGED <<inflight, phase, outcome>>
     \/ /\ ~InProgress
        /\ \E n \in Tasks :
             /\ FreeTask(n)
             /\ inflight' = n
             /\ phase' = [phase EXCEPT ![n] = "fetching"]
             /\ outcome' = [outcome EXCEPT ![n] = "none"]
             /\ joined' = [joined EXCEPT ![c] = n]
  /\ UNCHANGED <<stored, fetched, batch, since, finishedAgo>>

(* One round of _background_loop, whatever it slept. *)
BackgroundRefresh == Refresh(Background)

(* refresh_now: 429 within the cooldown, otherwise no await before the join. *)
RefreshNow(c) == since >= Cooldown /\ Refresh(c)

(* Mutant: without shield the client's departure cancels the task. *)
LeaveUnshielded(c) ==
  /\ joined[c] # None
  /\ joined' = [joined EXCEPT ![c] = None]
  /\ phase' = IF phase[joined[c]] \in Ended THEN phase
              ELSE [phase EXCEPT ![joined[c]] = "over"]
  /\ UNCHANGED <<stored, inflight, fetched, batch, outcome, since, finishedAgo>>

(* The client disconnects: only the shield's future is cancelled. *)
Leave(c) ==
  /\ joined[c] # None
  /\ joined' = [joined EXCEPT ![c] = None]
  /\ UNCHANGED <<stored, inflight, phase, fetched, batch, outcome, since, finishedAgo>>

(* The task is over: its result or its exception reaches the caller. *)
Answer(c) ==
  /\ joined[c] # None
  /\ phase[joined[c]] = "over"
  /\ joined' = [joined EXCEPT ![c] = None]
  /\ UNCHANGED <<stored, inflight, phase, fetched, batch, outcome, since, finishedAgo>>

-----------------------------------------------------------------------------
(* The pipeline. *)

(* Mutant: every entry of every feed counts. *)
DedupedNot(items) == items

(* The elements of a sequence at some of its positions, in their order.    *)
Picked(s, positions) ==
  LET pick[n \in 0 .. Len(s)] ==
        IF n = 0 THEN <<>>
        ELSE IF n \in positions THEN Append(pick[n - 1], s[n]) ELSE pick[n - 1]
  IN  pick[Len(s)]

(* Feeds repeat each other: the first of every url stays. *)
Deduped(items) ==
  Picked(items, {n \in DOMAIN items : \A m \in 1 .. n - 1 : items[m] # items[n]})

(* What existing_urls does not know, as far as the cap goes. *)
NewItems(items) ==
  LET new == Picked(items, {n \in DOMAIN items : items[n] \notin stored})
  IN  SubSeq(new, 1, IF Len(new) < Cap THEN Len(new) ELSE Cap)

PhaseStep(n, from, to) == phase[n] = from /\ phase' = [phase EXCEPT ![n] = to]

(* fetch_all_sources: sources that fail are left out, it never fails.      *)
Fetch(n) ==
  /\ PhaseStep(n, "fetching", "checking")
  /\ \E items \in Fetches : fetched' = [fetched EXCEPT ![n] = Deduped(items)]
  /\ UNCHANGED <<stored, inflight, batch, outcome, joined, since, finishedAgo>>

Check(n) ==
  /\ PhaseStep(n, "checking", "summarizing")
  /\ batch' = [batch EXCEPT ![n] = NewItems(fetched[n])]
  /\ UNCHANGED <<stored, inflight, fetched, outcome, joined, since, finishedAgo>>

(* A batch the model cannot summarize keeps its original text. *)
Summarize(n) ==
  /\ PhaseStep(n, "summarizing", "storing")
  /\ UNCHANGED <<stored, inflight, fetched, batch, outcome, joined, since, finishedAgo>>

(* The task ends; its done callbacks are only scheduled. *)
End(n, from, result) ==
  /\ PhaseStep(n, from, "finished")
  /\ outcome' = [outcome EXCEPT ![n] = result]
  /\ finishedAgo' = 0
  /\ UNCHANGED <<inflight, fetched, batch, joined, since>>

(* add_new, in one transaction. *)
Store(n) ==
  /\ End(n, "storing", "stored")
  /\ stored' = stored \cup ToSet(batch[n])

(* existing_urls or add_new raises: nothing of this run is stored. *)
FailTask(n) ==
  /\ \E from \in {"checking", "storing"} : End(n, from, "failed")
  /\ UNCHANGED stored

(* Mutant: the callback does not ask whose task it is. *)
OnDoneOfAny(n) ==
  /\ PhaseStep(n, "finished", "over")
  /\ inflight' = None
  /\ since' = 0
  /\ fetched' = [fetched EXCEPT ![n] = <<>>]
  /\ batch' = [batch EXCEPT ![n] = <<>>]
  /\ UNCHANGED <<stored, outcome, joined, finishedAgo>>

(* Mutant: a failed run does not arm the cooldown. *)
OnDoneUnarmed(n) ==
  /\ PhaseStep(n, "finished", "over")
  /\ inflight' = IF inflight = n THEN None ELSE inflight
  /\ since' = IF outcome[n] = "failed" THEN since ELSE 0
  /\ fetched' = [fetched EXCEPT ![n] = <<>>]
  /\ batch' = [batch EXCEPT ![n] = <<>>]
  /\ UNCHANGED <<stored, outcome, joined, finishedAgo>>

(* _on_pipeline_done, scheduled before the wake-up of any awaiter: another *)
(* run may have been started since the task ended.                         *)
OnDone(n) ==
  /\ PhaseStep(n, "finished", "over")
  /\ inflight' = IF inflight = n THEN None ELSE inflight
  /\ since' = 0
  /\ fetched' = [fetched EXCEPT ![n] = <<>>]
  /\ batch' = [batch EXCEPT ![n] = <<>>]
  /\ UNCHANGED <<stored, outcome, joined, finishedAgo>>

Later(t) == IF t < Cooldown THEN t + 1 ELSE t

Tick ==
  /\ since' = Later(since)
  /\ finishedAgo' = Later(finishedAgo)
  /\ UNCHANGED <<stored, inflight, phase, fetched, batch, outcome, joined>>

TaskNext(n) ==
  Fetch(n) \/ Check(n) \/ Summarize(n) \/ Store(n) \/ FailTask(n) \/ OnDone(n)

Next ==
  \/ BackgroundRefresh
  \/ Answer(Background)
  \/ \E c \in Clients : RefreshNow(c) \/ Leave(c) \/ Answer(c)
  \/ \E n \in Tasks : TaskNext(n)
  \/ Tick

(* The event loop runs, and feeds, model and database calls have timeouts. *)
(* Nobody need ask, time need not pass.                                    *)
Fairness == \A n \in Tasks : WF_vars(TaskNext(n))

Spec == Init /\ [][Next]_vars
FairSpec == Spec /\ Fairness

-----------------------------------------------------------------------------
(* Single flight: at any time at most one pipeline is running, whoever     *)
(* joins, leaves, or comes in between the end of a run and its callback    *)
(* (news/scheduler.py:1-6, 44-73).                                         *)
OneRun ==
  \A n, m \in Tasks : phase[n] \notin Ended /\ phase[m] \notin Ended => n = m

(* No article is paid for that is stored already, and none twice in a run: *)
(* what goes to the model is exactly what will be inserted, so the         *)
(* new_count reported is its length (news/scheduler.py:25-41).             *)
EachPaidOnce ==
  \A n \in Tasks : phase[n] \in {"summarizing", "storing"} =>
    /\ Cardinality(ToSet(batch[n])) = Len(batch[n])
    /\ ToSet(batch[n]) \cap stored = {}

(* Whoever awaits a run that is over is given its result, however many     *)
(* joined it, left it or came in between, and although a task's place is   *)
(* used again: nobody's departure ends a run for the others, no awaiter is *)
(* moved to another run (news/scheduler.py:44-73).                         *)
AwaitedIsAnswered ==
  \A c \in Callers :
    joined[c] # None /\ phase[joined[c]] \in Ended => outcome[joined[c]] # "none"

(* A client never starts a run within the cooldown of the last one, be it  *)
(* a failed one, except in the instant between the end of a task and its   *)
(* callback (news/router.py:37-41, news/scheduler.py:76-80).               *)
CooldownHolds ==
  [][\A c \in Clients :
       joined[c] = None /\ joined'[c] # None /\ phase[joined'[c]] = "over"
         => finishedAgo >= Cooldown \/ \E n \in Tasks : phase[n] = "finished"]_vars

(* A run that has gone to the model ends with its articles stored, or with *)
(* the store's failure: a client that leaves, the one that started the run *)
(* included, stops nothing (news/scheduler.py:51-58, 62-70).               *)
PaidIsKept == \A n \in Tasks : phase[n] = "summarizing" ~> outcome[n] # "none"
=============================================================================
