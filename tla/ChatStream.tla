------------------------------ MODULE ChatStream ------------------------------
(***************************************************************************)
(* A streaming answer whose coroutine saves the exchange: chat             *)
(* (chat/router.py chat_stream, chat/service.py stream,                    *)
(* conversation_store.py chat_stream) and, with the same shape, research   *)
(* and deep dive (research/service.py). The load and the save run on       *)
(* threads of asyncio.to_thread; a coroutine cancelled at such an await    *)
(* does not take its thread with it. Composed here are the session leases, *)
(* the coroutines, the save threads, the history store, clients who leave, *)
(* redo requests (replace_last) and DELETE, which takes no lease.          *)
(***************************************************************************)
EXTENDS ConversationStore, FiniteSets

CONSTANTS
  Sessions, Requests,
  SessionOf,     \* the session each request names
  Redo,          \* the requests sent with replace_last
  NoKey,
  MaxAge,        \* MAX_LEASE_SECONDS, in clock units
  MaxClock       \* bound: the clock stops there

ASSUME SessionOfAssumption == SessionOf \in [Requests -> Sessions]
ASSUME RedoAssumption == Redo \subseteq Requests

VARIABLES
  clock, held, generations, lease,   \* the registry, see SessionLocks
  history,    \* history[s]: the turns stored for session s
  request,    \* where each request's coroutine is
  saver,      \* where the thread of each request's save is
  seen,       \* seen[r]: the history r's exchange will be added to, once read
  committed,  \* history variable: requests whose exchange is in the history
  spoiled,    \* history variable: sessions cleared or taken over meanwhile
  overtaken   \* history variable: sessions that began anew during a save

registry == <<clock, held, generations, lease>>
ghosts == <<committed, spoiled, overtaken>>
vars == <<registry, history, request, saver, seen, ghosts>>

Locks == INSTANCE SessionLocks WITH
  Keys <- Sessions, Leases <- Requests, MaxGen <- Cardinality(Requests)

-----------------------------------------------------------------------------
Open == {"loading", "answering", "saving"}
On(s) == {r \in Requests : SessionOf[r] = s}
Saving(r) == saver[r] \in {"queued", "read"}

(* r will write a history it has already read. *)
WillWriteWhatItSaw(r) ==
  \/ saver[r] = "read"
  \/ r \in Redo /\ (request[r] = "answering" \/ saver[r] = "queued")

Init ==
  /\ Locks!Init
  /\ history = [s \in Sessions |-> <<>>]
  /\ request = [r \in Requests |-> "idle"]
  /\ saver = [r \in Requests |-> "none"]
  /\ seen = [r \in Requests |-> <<>>]
  /\ committed = [s \in Sessions |-> <<>>]
  /\ spoiled = {}
  /\ overtaken = {}

RequestStep(r, from, to) ==
  request[r] = from /\ request' = [request EXCEPT ![r] = to]

Close(r) == request' = [request EXCEPT ![r] = "closing"]

-----------------------------------------------------------------------------
(* begin_session; a busy session answers 409 and changes nothing.          *)
Begin(r) ==
  LET s == SessionOf[r] IN
  /\ RequestStep(r, "idle", "leased")
  /\ Locks!TryAcquire(s, r)
  /\ spoiled' = IF held[s] # Locks!NotHeld THEN spoiled \cup {s} ELSE spoiled
  /\ overtaken' = IF \E q \in On(s) : request[q] = "closed" /\ Saving(q)
                  THEN overtaken \cup {s} ELSE overtaken
  /\ UNCHANGED <<history, saver, seen, committed>>

(* Mutant: only the body gives the lease back, and it never starts here.   *)
LeaveBeforeStartKeepingLease(r) ==
  /\ RequestStep(r, "leased", "closed")
  /\ UNCHANGED <<registry, history, saver, seen, ghosts>>

(* The client is gone before the first byte. *)
LeaveBeforeStart(r) ==
  /\ RequestStep(r, "leased", "closed")
  /\ Locks!Release(r)
  /\ UNCHANGED <<history, saver, seen, ghosts>>

Start(r) ==
  /\ RequestStep(r, "leased", "loading")
  /\ UNCHANGED <<registry, history, saver, seen, ghosts>>

(* aget_history; a redo goes on without the exchange it replaces.          *)
LoadHistory(r) ==
  /\ RequestStep(r, "loading", "answering")
  /\ seen' = [seen EXCEPT ![r] =
       IF r \in Redo THEN WithoutLastExchange(history[SessionOf[r]]) ELSE <<>>]
  /\ UNCHANGED <<registry, history, saver, ghosts>>

(* The store or the model fails, a research run reports an error or goes   *)
(* silent for too long, or the client leaves: nothing is saved.            *)
StopBeforeSave(r) ==
  /\ request[r] \in {"loading", "answering"}
  /\ Close(r)
  /\ seen' = [seen EXCEPT ![r] = <<>>]
  /\ UNCHANGED <<registry, history, saver, ghosts>>

(* Mutant: the lease goes back as soon as the answer is complete.          *)
QueueSaveUnleased(r) ==
  /\ RequestStep(r, "answering", "saving")
  /\ saver' = [saver EXCEPT ![r] = "queued"]
  /\ Locks!Release(r)
  /\ UNCHANGED <<history, seen, ghosts>>

(* The answer is complete: aadd_turns or areplace_history is awaited.      *)
QueueSave(r) ==
  /\ RequestStep(r, "answering", "saving")
  /\ saver' = [saver EXCEPT ![r] = "queued"]
  /\ UNCHANGED <<registry, history, seen, ghosts>>

(* add_turns, on its thread: the read.                                     *)
ReadTurns(r) ==
  /\ r \notin Redo
  /\ saver[r] = "queued"
  /\ saver' = [saver EXCEPT ![r] = "read"]
  /\ seen' = [seen EXCEPT ![r] = history[SessionOf[r]]]
  /\ UNCHANGED <<registry, history, request, ghosts>>

(* The write, of both turns at once: add_turns after its read, a redo's    *)
(* replace_history with what the request loaded in the beginning.          *)
WriteTurns(r) ==
  LET s == SessionOf[r]
      before == committed[s]
      kept == IF r \in Redo /\ before # <<>> THEN SubSeq(before, 1, Len(before) - 1)
              ELSE before IN
  /\ saver[r] = IF r \in Redo THEN "queued" ELSE "read"
  /\ saver' = [saver EXCEPT ![r] = "stopped"]
  /\ history' = [history EXCEPT ![s] = Extended(seen[r], Exchange(r))]
  /\ seen' = [seen EXCEPT ![r] = <<>>]
  /\ committed' = [committed EXCEPT ![s] = Append(kept, r)]
  /\ UNCHANGED <<registry, request, spoiled, overtaken>>

(* The store fails under the save: the client is told, nothing is stored.  *)
FailSave(r) ==
  /\ Saving(r)
  /\ saver' = [saver EXCEPT ![r] = "stopped"]
  /\ seen' = [seen EXCEPT ![r] = <<>>]
  /\ UNCHANGED <<registry, history, request, ghosts>>

(* The awaited save is over. *)
Finish(r) ==
  /\ request[r] = "saving"
  /\ saver[r] = "stopped"
  /\ Close(r)
  /\ UNCHANGED <<registry, history, saver, seen, ghosts>>

(* The client leaves during the save. A save no thread has taken up yet is *)
(* cancelled with the await; a running one is not.                         *)
LeaveDuringSave(r) ==
  /\ request[r] = "saving"
  /\ Close(r)
  /\ \/ UNCHANGED <<saver, seen>>
     \/ /\ saver[r] = "queued"
        /\ saver' = [saver EXCEPT ![r] = "stopped"]
        /\ seen' = [seen EXCEPT ![r] = <<>>]
  /\ UNCHANGED <<registry, history, ghosts>>

(* end_session in the router's finally. *)
EndSession(r) ==
  /\ RequestStep(r, "closing", "closed")
  /\ Locks!Release(r)
  /\ UNCHANGED <<history, saver, seen, ghosts>>

(* DELETE on the session: no lease is asked for. *)
ClearSession(s) ==
  /\ history' = [history EXCEPT ![s] = <<>>]
  /\ committed' = [committed EXCEPT ![s] = <<>>]
  /\ spoiled' = IF \E r \in On(s) : WillWriteWhatItSaw(r)
                THEN spoiled \cup {s} ELSE spoiled
  /\ UNCHANGED <<registry, request, saver, seen, overtaken>>

(* Time passes, but not past a response that is about to start.            *)
Tick ==
  /\ \A r \in Requests : request[r] # "leased"
  /\ Locks!Tick
  /\ UNCHANGED <<history, request, saver, seen, ghosts>>

RequestNext(r) ==
  \/ Begin(r) \/ LeaveBeforeStart(r) \/ Start(r) \/ LoadHistory(r)
  \/ StopBeforeSave(r) \/ QueueSave(r) \/ Finish(r) \/ LeaveDuringSave(r)
  \/ EndSession(r)

SaverNext(r) == ReadTurns(r) \/ WriteTurns(r) \/ FailSave(r)

Next ==
  \/ \E r \in Requests : RequestNext(r) \/ SaverNext(r)
  \/ \E s \in Sessions : ClearSession(s)
  \/ Tick

(* The event loop and the thread pool keep running, and calls of the model *)
(* and of the store have timeouts. Clients may stay for ever; time need    *)
(* not pass.                                                               *)
Fairness ==
  \A r \in Requests :
    /\ WF_vars(LeaveBeforeStart(r) \/ Start(r))
    /\ WF_vars(LoadHistory(r) \/ StopBeforeSave(r) \/ QueueSave(r))
    /\ WF_vars(Finish(r))
    /\ WF_vars(EndSession(r))
    /\ WF_vars(SaverNext(r))

Spec == Init /\ [][Next]_vars
FairSpec == Spec /\ Fairness

-----------------------------------------------------------------------------
(* Questions and answers stay together through everything that can happen, *)
(* overlapping saves, takeovers and DELETE included: the history is always *)
(* a sequence of whole exchanges ("saved together or not at all",          *)
(* conversation_store.py:203-211, 170-179).                                *)
HistoryPaired ==
  \A s \in Sessions :
    \E rs \in [1 .. Len(history[s]) \div 2 -> Requests] : history[s] = Exchanges(rs)

(* With no save under way, the history is what the saves that succeeded    *)
(* make of it, redo requests replacing the last exchange. Excused are a    *)
(* DELETE or a takeover under a request that will write what it saw, and   *)
(* the one thing the lease does not cover, a save that outlives its        *)
(* request (session_locks.py:63-65, conversation_store.py:257-268).        *)
HistoryIsCommitted ==
  \A s \in Sessions :
    s \notin spoiled \cup overtaken /\ (\A r \in On(s) : ~Saving(r))
      => history[s] = LastN(Exchanges(committed[s]), MaxHistory)

(* The same without the last excuse: "All history mutations hold a         *)
(* per-session lock and increment `revision`, preventing two browser tabs  *)
(* from interleaving or silently losing turns" (docs/superpowers/specs/    *)
(* 2026-07-18-hardening-ux-foundation-design.md:59).                       *)
NoLostTurn ==
  \A s \in Sessions :
    s \notin spoiled /\ (\A r \in On(s) : ~Saving(r))
      => history[s] = LastN(Exchanges(committed[s]), MaxHistory)

(* A busy session always has somebody who will free it: the hold is that   *)
(* of a request still on its way, whoever left before the first byte,      *)
(* during the answer or during the save, and however late an expired       *)
(* lease was given back (sse.py:62-83, session_locks.py:137-147).          *)
HeldByTheLiving ==
  \A s \in Sessions : held[s] # Locks!NotHeld =>
    \E r \in On(s) : /\ request[r] \notin {"idle", "closed"}
                      /\ lease[r].generation = held[s].generation

(* A busy session becomes free again, whoever leaves and whatever fails    *)
(* (sse.py:62-83).                                                         *)
SessionFreed ==
  \A s \in Sessions : held[s] # Locks!NotHeld ~> held[s] = Locks!NotHeld
=============================================================================
