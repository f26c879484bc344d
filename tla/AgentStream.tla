----------------------------- MODULE AgentStream -----------------------------
(***************************************************************************)
(* A streaming answer computed by a worker thread that saves the exchange  *)
(* itself: the coding agent (coding/router.py coding_stream,               *)
(* coding/service.py CodingService.stream) and PDF chat (pdf/router.py     *)
(* pdf_chat_stream, pdf/service.py chat_events). Composed here are the     *)
(* session leases, the request's coroutine, its worker thread, the event   *)
(* queue between them, the history store, the client who may leave at any  *)
(* moment, and DELETE on the session, which takes no lease. A PDF summary  *)
(* (pdf_summarize, summarize_events) runs under the same lease and saves   *)
(* nothing; its thread has no share, so it may outlive the lease.          *)
(***************************************************************************)
EXTENDS ConversationStore, FiniteSets

CONSTANTS
  Sessions, Requests,
  SessionOf,     \* the session each request names
  NoKey,
  MaxAge,        \* MAX_LEASE_SECONDS, in clock units
  Silence,       \* timeout of wait_for(queue.get(), ...), in clock units
  MaxTokens,     \* bound: events a worker emits before it has its answer
  MaxClock       \* bound: the clock stops there

ASSUME SessionOfAssumption == SessionOf \in [Requests -> Sessions]
ASSUME StreamBoundAssumption ==
  MaxAge \in Nat \ {0} /\ Silence \in Nat \ {0} /\ MaxTokens \in Nat

VARIABLES
  clock, held, generations, lease,   \* the registry, see SessionLocks
  history,    \* history[s]: the turns stored for session s
  request,    \* where each request's coroutine is
  worker,     \* where each request's worker thread is
  tokens,     \* tokens[r]: events r's worker has emitted on the way to its answer
  queue,      \* queue[r]: events emitted and not yet sent to the client
  waitFrom,   \* waitFrom[r]: when the coroutine began its present wait
  cancelled,  \* cancel_event / cancelled is set
  snapshot,   \* snapshot[r]: the history r's add_turn has read
  committed,  \* history variable: requests whose exchange was saved, in order
  spoiled,    \* history variable: sessions whose history was interfered with
  abandoned   \* history variable: requests cancelled before they had an answer

registry == <<clock, held, generations, lease>>
ghosts == <<committed, spoiled, abandoned>>
vars == <<registry, history, request, worker, tokens, queue, waitFrom,
          cancelled, snapshot, ghosts>>

RequestShare(r) == <<r, "request">>
WorkerShare(r) == <<r, "worker">>
Shares == Requests \X {"request", "worker"}

Locks == INSTANCE SessionLocks WITH
  Keys <- Sessions, Leases <- Shares, MaxGen <- Cardinality(Requests)

-----------------------------------------------------------------------------
Terminal == {"done", "error"}
Answering == {"loading", "answering", "answered"}
Writing == {"loadUser", "saveUser", "loadAssistant", "saveAssistant"}
Running(r) == worker[r] \notin {"none", "stopped"}
On(s) == {r \in Requests : SessionOf[r] = s}

Init ==
  /\ Locks!Init
  /\ history = [s \in Sessions |-> <<>>]
  /\ request = [r \in Requests |-> "idle"]
  /\ worker = [r \in Requests |-> "none"]
  /\ tokens = [r \in Requests |-> 0]
  /\ queue = [r \in Requests |-> <<>>]
  /\ waitFrom = [r \in Requests |-> 0]
  /\ cancelled = [r \in Requests |-> FALSE]
  /\ snapshot = [r \in Requests |-> <<>>]
  /\ committed = [s \in Sessions |-> <<>>]
  /\ spoiled = {}
  /\ abandoned = {}

RequestStep(r, from, to) ==
  request[r] = from /\ request' = [request EXCEPT ![r] = to]
WorkerStep(r, from, to) ==
  worker[r] = from /\ worker' = [worker EXCEPT ![r] = to]

(* emit. What the worker emits once the loop has ended is dropped or is    *)
(* left in a queue nobody reads.                                           *)
Emit(r, event) ==
  queue' = IF request[r] = "streaming"
           THEN [queue EXCEPT ![r] = Append(@, event)] ELSE queue

(* The loop over the events ends, with what is still queued. *)
EndLoop(r) ==
  /\ RequestStep(r, "streaming", "closing")
  /\ queue' = [queue EXCEPT ![r] = <<>>]
  /\ waitFrom' = [waitFrom EXCEPT ![r] = 0]
  /\ UNCHANGED <<registry, history, worker, tokens, cancelled, snapshot, ghosts>>

-----------------------------------------------------------------------------
(* The request. A busy session answers 409 and changes nothing. *)

(* begin_session, and the response object that now owns the lease. Taking  *)
(* over an expired lease interferes with whoever still holds it.           *)
Begin(r) ==
  /\ RequestStep(r, "idle", "leased")
  /\ Locks!TryAcquire(SessionOf[r], RequestShare(r))
  /\ spoiled' = IF held[SessionOf[r]] # Locks!NotHeld
                THEN spoiled \cup {SessionOf[r]} ELSE spoiled
  /\ UNCHANGED <<history, worker, tokens, queue, waitFrom, cancelled, snapshot,
                 committed, abandoned>>

(* Mutant: the lease is released by the body generator alone, which is     *)
(* never started here.                                                     *)
LeaveBeforeStartKeepingLease(r) ==
  /\ RequestStep(r, "leased", "closed")
  /\ UNCHANGED <<registry, history, worker, tokens, queue, waitFrom, cancelled,
                 snapshot, ghosts>>

(* The client is gone before the first byte: the body generator never      *)
(* runs, LeasedStreamingResponse.__call__ still releases.                  *)
LeaveBeforeStart(r) ==
  /\ RequestStep(r, "leased", "closed")
  /\ Locks!Release(RequestShare(r))
  /\ UNCHANGED <<history, worker, tokens, queue, waitFrom, cancelled, snapshot,
                 ghosts>>

(* Mutant: the worker thread takes no share of its own. *)
StartUnshared(r) ==
  /\ RequestStep(r, "leased", "streaming")
  /\ WorkerStep(r, "none", "loading")
  /\ waitFrom' = [waitFrom EXCEPT ![r] = clock]
  /\ UNCHANGED <<registry, history, tokens, queue, cancelled, snapshot, ghosts>>

(* The body starts: a share for the worker, the thread, the first wait. *)
Start(r) ==
  /\ RequestStep(r, "leased", "streaming")
  /\ WorkerStep(r, "none", "loading")
  /\ Locks!Share(SessionOf[r], WorkerShare(r))
  /\ waitFrom' = [waitFrom EXCEPT ![r] = clock]
  /\ UNCHANGED <<history, tokens, queue, cancelled, snapshot, ghosts>>

(* The same for a summary, whose thread takes no share. *)
StartSummary(r) ==
  /\ RequestStep(r, "leased", "streaming")
  /\ WorkerStep(r, "none", "summarizing")
  /\ waitFrom' = [waitFrom EXCEPT ![r] = clock]
  /\ UNCHANGED <<registry, history, tokens, queue, cancelled, snapshot, ghosts>>

(* chat_events refuses image pins a local model cannot read: an error      *)
(* event, no share and no thread.                                          *)
RefuseInput(r) ==
  /\ RequestStep(r, "leased", "closing")
  /\ UNCHANGED <<registry, history, worker, tokens, queue, waitFrom, cancelled,
                 snapshot, ghosts>>

(* The next event goes to the client, and the wait begins anew. *)
Deliver(r) ==
  /\ request[r] = "streaming"
  /\ queue[r] # <<>>
  /\ Head(queue[r]) \notin Terminal
  /\ queue' = [queue EXCEPT ![r] = Tail(@)]
  /\ waitFrom' = [waitFrom EXCEPT ![r] = clock]
  /\ UNCHANGED <<registry, history, request, worker, tokens, cancelled, snapshot,
                 ghosts>>

(* A terminal event goes to the client and ends the loop. *)
DeliverLast(r) ==
  /\ queue[r] # <<>>
  /\ Head(queue[r]) \in Terminal
  /\ EndLoop(r)

(* wait_for gave up: the client is told, the loop ends. *)
TimeOut(r) ==
  /\ queue[r] = <<>>
  /\ clock - waitFrom[r] >= Silence
  /\ EndLoop(r)

Disconnect(r) == EndLoop(r)

(* The finally of the service's generator. When the outer generator is     *)
(* closed at a yield, the inner one is closed only once it is collected,   *)
(* so this may come before or after the lease is given back.               *)
SetCancelled(r) ==
  /\ request[r] \in {"closing", "closed"}
  /\ worker[r] # "none"
  /\ ~cancelled[r]
  /\ cancelled' = [cancelled EXCEPT ![r] = TRUE]
  /\ abandoned' = IF worker[r] \in Answering THEN abandoned \cup {r} ELSE abandoned
  /\ UNCHANGED <<registry, history, request, worker, tokens, queue, waitFrom,
                 snapshot, committed, spoiled>>

(* end_session in the router's finally; the response releases once more.   *)
EndSession(r) ==
  /\ RequestStep(r, "closing", "closed")
  /\ Locks!Release(RequestShare(r))
  /\ UNCHANGED <<history, worker, tokens, queue, waitFrom, cancelled, snapshot,
                 ghosts>>

-----------------------------------------------------------------------------
(* The worker thread. *)

(* get_history (for the prompt), and for a PDF the document. *)
LoadContext(r) ==
  /\ WorkerStep(r, "loading", "answering")
  /\ UNCHANGED <<registry, history, request, tokens, queue, waitFrom, cancelled,
                 snapshot, ghosts>>

(* One token, step or source; a worker that sees the event set just stops. *)
Produce(r) ==
  /\ worker[r] = "answering"
  /\ IF cancelled[r]
     THEN /\ WorkerStep(r, "answering", "finishing")
          /\ tokens' = [tokens EXCEPT ![r] = 0]
          /\ UNCHANGED queue
     ELSE /\ tokens[r] < MaxTokens
          /\ tokens' = [tokens EXCEPT ![r] = @ + 1]
          /\ Emit(r, "token")
          /\ UNCHANGED worker
  /\ UNCHANGED <<registry, history, request, waitFrom, cancelled, snapshot, ghosts>>

FinishAnswer(r) ==
  /\ WorkerStep(r, "answering", "answered")
  /\ tokens' = [tokens EXCEPT ![r] = 0]
  /\ UNCHANGED <<registry, history, request, queue, waitFrom, cancelled, snapshot,
                 ghosts>>

(* Mutant: the answer is saved whether or not the request is still there. *)
SaveAnyAnswer(r) ==
  /\ WorkerStep(r, "answered", "loadUser")
  /\ UNCHANGED <<registry, history, request, tokens, queue, waitFrom, cancelled,
                 snapshot, ghosts>>

(* _persist looks at the event once, before the first of its two writes. *)
DecideToSave(r) ==
  /\ WorkerStep(r, "answered", IF cancelled[r] THEN "finishing" ELSE "loadUser")
  /\ UNCHANGED <<registry, history, request, tokens, queue, waitFrom, cancelled,
                 snapshot, ghosts>>

(* add_turn, first the read ... *)
ReadTurns(r) ==
  /\ \/ WorkerStep(r, "loadUser", "saveUser")
     \/ WorkerStep(r, "loadAssistant", "saveAssistant")
  /\ snapshot' = [snapshot EXCEPT ![r] = history[SessionOf[r]]]
  /\ UNCHANGED <<registry, history, request, tokens, queue, waitFrom, cancelled,
                 ghosts>>

(* ... then the write of what was read plus the new turn, for the question *)
(* and, in a second add_turn, for the answer.                              *)
WriteTurns(r) ==
  LET s == SessionOf[r]
      role == IF worker[r] = "saveUser" THEN "user" ELSE "assistant" IN
  /\ \/ WorkerStep(r, "saveUser", "loadAssistant") /\ UNCHANGED committed
     \/ /\ WorkerStep(r, "saveAssistant", "saved")
        /\ committed' = [committed EXCEPT ![s] = Append(@, r)]
  /\ history' = [history EXCEPT ![s] = Extended(snapshot[r], <<Turn(role, r)>>)]
  /\ snapshot' = [snapshot EXCEPT ![r] = <<>>]
  /\ UNCHANGED <<registry, request, tokens, queue, waitFrom, cancelled, spoiled,
                 abandoned>>

(* The model, the document or the store fails: an error event. Between the *)
(* two writes it leaves a question without its answer.                     *)
Fail(r) ==
  /\ worker[r] \in {"loading", "answering"} \cup Writing
  /\ WorkerStep(r, worker[r], "finishing")
  /\ Emit(r, "error")
  /\ tokens' = [tokens EXCEPT ![r] = 0]
  /\ snapshot' = [snapshot EXCEPT ![r] = <<>>]
  /\ spoiled' = IF worker[r] \in {"loadAssistant", "saveAssistant"}
                THEN spoiled \cup {SessionOf[r]} ELSE spoiled
  /\ UNCHANGED <<registry, history, request, waitFrom, cancelled, committed,
                 abandoned>>

EmitDone(r) ==
  /\ WorkerStep(r, "saved", "finishing")
  /\ Emit(r, "done")
  /\ UNCHANGED <<registry, history, request, tokens, waitFrom, cancelled, snapshot,
                 ghosts>>

(* The thread's finally: its share of the lease goes back. *)
StopWorker(r) ==
  /\ WorkerStep(r, "finishing", "stopped")
  /\ Locks!Release(WorkerShare(r))
  /\ UNCHANGED <<history, request, tokens, queue, waitFrom, cancelled, snapshot,
                 ghosts>>

(* A summary: one part read, or one token of the summary of them all; the  *)
(* event is looked at before each, and without a word the thread ends.     *)
Summarize(r) ==
  /\ worker[r] = "summarizing"
  /\ IF cancelled[r]
     THEN /\ WorkerStep(r, "summarizing", "stopped")
          /\ tokens' = [tokens EXCEPT ![r] = 0]
          /\ UNCHANGED queue
     ELSE /\ tokens[r] < MaxTokens
          /\ tokens' = [tokens EXCEPT ![r] = @ + 1]
          /\ \E told \in BOOLEAN : IF told THEN Emit(r, "token") ELSE UNCHANGED queue
          /\ UNCHANGED worker
  /\ UNCHANGED <<registry, history, request, waitFrom, cancelled, snapshot, ghosts>>

(* It is complete, out of scope, or failed. *)
EndSummary(r) ==
  /\ WorkerStep(r, "summarizing", "stopped")
  /\ \E event \in Terminal : Emit(r, event)
  /\ tokens' = [tokens EXCEPT ![r] = 0]
  /\ UNCHANGED <<registry, history, request, waitFrom, cancelled, snapshot, ghosts>>

-----------------------------------------------------------------------------
(* DELETE on the session: no lease is asked for. A writer that has already *)
(* read the history, or is between its two writes, is interfered with.     *)
ClearSession(s) ==
  /\ history' = [history EXCEPT ![s] = <<>>]
  /\ committed' = [committed EXCEPT ![s] = <<>>]
  /\ spoiled' = IF \E r \in On(s) : worker[r] \in Writing \ {"loadUser"}
                THEN spoiled \cup {s} ELSE spoiled
  /\ UNCHANGED <<registry, request, worker, tokens, queue, waitFrom, cancelled,
                 snapshot, abandoned>>

(* Time passes in units of minutes: not past an acquired response that is  *)
(* about to start, an event ready to be sent, or a timeout that is due.    *)
Tick ==
  /\ \A r \in Requests :
       /\ request[r] # "leased"
       /\ request[r] = "streaming" =>
            queue[r] = <<>> /\ clock - waitFrom[r] < Silence
  /\ Locks!Tick
  /\ UNCHANGED <<history, request, worker, tokens, queue, waitFrom, cancelled,
                 snapshot, ghosts>>

RequestNext(r) ==
  \/ Begin(r) \/ LeaveBeforeStart(r) \/ Start(r) \/ StartSummary(r)
  \/ RefuseInput(r) \/ Deliver(r) \/ DeliverLast(r) \/ TimeOut(r) \/ Disconnect(r)
  \/ SetCancelled(r) \/ EndSession(r)

WorkerNext(r) ==
  \/ LoadContext(r) \/ Produce(r) \/ FinishAnswer(r) \/ DecideToSave(r)
  \/ ReadTurns(r) \/ WriteTurns(r) \/ Fail(r) \/ EmitDone(r) \/ StopWorker(r)
  \/ Summarize(r) \/ EndSummary(r)

Next ==
  \/ \E r \in Requests : RequestNext(r) \/ WorkerNext(r)
  \/ \E s \in Sessions : ClearSession(s)
  \/ Tick

(* The event loop and the threads keep running, and every model and store  *)
(* call has a timeout (LLM_TIMEOUT, the pool's). A client that stays       *)
(* connected reads what it is sent. Time need not pass, nobody need leave. *)
Fairness ==
  \A r \in Requests :
    /\ WF_vars(LeaveBeforeStart(r) \/ Start(r) \/ StartSummary(r) \/ RefuseInput(r))
    /\ WF_vars(Deliver(r) \/ DeliverLast(r))
    /\ WF_vars(SetCancelled(r))
    /\ WF_vars(EndSession(r))
    /\ WF_vars(WorkerNext(r))

Spec == Init /\ [][Next]_vars
FairSpec == Spec /\ Fairness

-----------------------------------------------------------------------------
(* r's worker lost the session to a takeover, its share not given back. *)
TakenOver(r) ==
  /\ ~lease[WorkerShare(r)].released
  /\ lease[WorkerShare(r)].generation # held[SessionOf[r]].generation

(* No two workers are between deciding to save and having saved on one     *)
(* session, whoever left and in whatever order, unless the lease of one of *)
(* them had run out (session_locks.py:60-68, coding/service.py:438-441).   *)
OneWriter ==
  \A r, q \in Requests :
    r # q /\ SessionOf[r] = SessionOf[q] /\ {worker[r], worker[q]} \subseteq Writing
      => TakenOver(r) \/ TakenOver(q)

(* When nobody is writing, the stored history is exactly the most recent   *)
(* saved exchanges, complete and in the order they were saved: two clients,*)
(* departures and timeouts lose, split or swap nothing. Only a failed      *)
(* write, a DELETE in the middle of a save or a takeover is excused        *)
(* (coding/service.py:451-455, pdf/service.py:187-195).                    *)
HistoryIsCommitted ==
  \A s \in Sessions :
    s \notin spoiled /\ (\A r \in On(s) : worker[r] \notin Writing)
      => history[s] = LastN(Exchanges(committed[s]), MaxHistory)

(* A request that ended before its worker had an answer leaves no trace in *)
(* the history ("abandoned run: nobody saw this answer", service.py:453).  *)
AbandonedNeverSaved ==
  \A s \in Sessions : \A i \in DOMAIN history[s] : history[s][i].of \notin abandoned

(* A session is never taken away from a request that is still streaming to *)
(* its client: the ceiling "only ever frees a session whose holder leaked  *)
(* - a bug, not a slow answer" (session_locks.py:28-30). The timeouts it   *)
(* is compared with bound one wait for one event, not a stream             *)
(* (coding/service.py:484, pdf/service.py:214, research/service.py:124).   *)
StreamKeepsSession ==
  \A r \in Requests :
    request[r] = "streaming" =>
      lease[RequestShare(r)].generation = held[SessionOf[r]].generation

(* A busy session always has somebody who will free it: the hold is that   *)
(* of a request still on its way or of a worker that still has its share.  *)
(* Nobody who is done left a hold behind, be it that the client went       *)
(* before the first byte, that the thread outlived the request, or that    *)
(* another took the session over in between (sse.py:62-83,                 *)
(* session_locks.py:123-147, coding/service.py:438-441).                   *)
HeldByTheLiving ==
  \A s \in Sessions : held[s] # Locks!NotHeld =>
    \E r \in On(s) :
      /\ \/ request[r] \in {"leased", "streaming", "closing"}
         \/ worker[r] \notin {"none", "summarizing", "stopped"}
      /\ lease[RequestShare(r)].generation = held[s].generation

(* A busy session becomes free again: no order of disconnects, timeouts,   *)
(* errors and thread exits leaks a lease (sse.py:62-83).                   *)
SessionFreed ==
  \A s \in Sessions : held[s] # Locks!NotHeld ~> held[s] = Locks!NotHeld
=============================================================================
