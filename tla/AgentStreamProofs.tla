-------------------------- MODULE AgentStreamProofs --------------------------
(***************************************************************************)
(* For any sessions, requests and bounds: only an expired lease lets a     *)
(* second worker write to a session, an abandoned request leaves no turn   *)
(* behind, and what is stored is what was committed. The generations carry *)
(* the proofs: a generation belongs to one request for ever, and the share *)
(* a worker takes is of its own request's generation, because no hold is   *)
(* taken over between a response's lease and its first byte.               *)
(***************************************************************************)
EXTENDS AgentStream, ConversationStoreProofs, TLAPS

RequestGeneration(r) == lease[RequestShare(r)].generation
WorkerGeneration(r) == lease[WorkerShare(r)].generation

(* A worker with a share of its own that it has not given back.            *)
Sharing == Answering \cup Writing \cup {"saved", "finishing"}

Places == {"idle", "leased", "streaming", "closing", "closed"}
Threads == {"none", "summarizing", "stopped"} \cup Sharing

Typed ==
  /\ clock \in Nat /\ generations \in Nat
  /\ held \in [Sessions -> Locks!HeldEntry]
  /\ lease \in [Shares -> Locks!LeaseObject]
  /\ request \in [Requests -> Places]
  /\ worker \in [Requests -> Threads]

Stamped ==
  /\ \A s \in Sessions : held[s].generation <= generations
  /\ \A r \in Requests :
       /\ RequestGeneration(r) <= generations
       /\ WorkerGeneration(r) \in {0, RequestGeneration(r)}
  /\ \A r, q \in Requests :
       r # q /\ RequestGeneration(r) = RequestGeneration(q) => RequestGeneration(r) = 0

Staged ==
  \A r \in Requests :
    /\ request[r] = "idle" => RequestGeneration(r) = 0
    /\ request[r] \in {"idle", "leased"} => worker[r] = "none"
    /\ worker[r] \in Sharing => ~lease[WorkerShare(r)].released /\ WorkerGeneration(r) # 0

(* A response that has its lease and has not begun holds its session.      *)
Holding ==
  \A r \in Requests : request[r] = "leased" =>
    /\ RequestGeneration(r) # 0
    /\ held[SessionOf[r]].generation = RequestGeneration(r)
    /\ held[SessionOf[r]].since = clock

IInv == Typed /\ Stamped /\ Staged /\ Holding

LEMMA SharesApart ==
  /\ \A r \in Requests : RequestShare(r) \in Shares /\ WorkerShare(r) \in Shares
  /\ \A r, q \in Requests :
       /\ RequestShare(r) # WorkerShare(q)
       /\ r # q => RequestShare(r) # RequestShare(q) /\ WorkerShare(r) # WorkerShare(q)
  /\ \A l \in Shares : \E r \in Requests : l \in {RequestShare(r), WorkerShare(r)}
  BY DEF RequestShare, WorkerShare, Shares

LEMMA StreamBegins == Init => IInv
  <1> SUFFICES ASSUME Init PROVE IInv
    OBVIOUS
  <1>1. /\ \A s \in Sessions : held[s] = Locks!NotHeld
        /\ \A l \in Shares : lease[l] = Locks!NoLease
    BY DEF Init, Locks!Init
  <1>2. Typed
    <2>1. Locks!NotHeld \in Locks!HeldEntry /\ Locks!NoLease \in Locks!LeaseObject
      BY DEF Locks!HeldEntry, Locks!LeaseObject, Locks!NotHeld, Locks!NoLease
    <2>2. /\ clock = 0 /\ generations = 0
          /\ held = [s \in Sessions |-> Locks!NotHeld]
          /\ lease = [l \in Shares |-> Locks!NoLease]
          /\ request = [r \in Requests |-> "idle"]
          /\ worker = [r \in Requests |-> "none"]
      BY DEF Init, Locks!Init
    <2> QED
      BY <2>1, <2>2 DEF Typed, Places, Threads
  <1>3. /\ generations = 0 /\ \A s \in Sessions : held[s].generation = 0
        /\ \A r \in Requests : RequestGeneration(r) = 0 /\ WorkerGeneration(r) = 0
    BY <1>1, SharesApart DEF Init, Locks!Init, Locks!NotHeld, Locks!NoLease,
                             RequestGeneration, WorkerGeneration
  <1>4. Stamped
    BY <1>3 DEF Stamped
  <1>5. Staged /\ Holding
    BY <1>3 DEF Init, Staged, Holding, Sharing, Answering, Writing
  <1> QED
    BY <1>2, <1>4, <1>5 DEF IInv

LEMMA IInvImplies == IInv => OneWriter
  <1> SUFFICES ASSUME IInv, NEW r \in Requests, NEW q \in Requests,
                      r # q, SessionOf[r] = SessionOf[q], {worker[r], worker[q]} \subseteq Writing
               PROVE  TakenOver(r) \/ TakenOver(q)
    BY DEF OneWriter
  <1>1. worker[r] \in Sharing /\ worker[q] \in Sharing
    BY DEF Sharing
  <1>2. /\ ~lease[WorkerShare(r)].released /\ ~lease[WorkerShare(q)].released
        /\ WorkerGeneration(r) # WorkerGeneration(q)
    BY <1>1 DEF IInv, Staged, Stamped
  <1> QED
    BY <1>2 DEF TakenOver, WorkerGeneration

-----------------------------------------------------------------------------
(* Steps that leave the registry alone.                                    *)
LEMMA QuietStep ==
  ASSUME IInv, UNCHANGED registry,
         request' \in [Requests -> Places], worker' \in [Requests -> Threads],
         \A r \in Requests :
           /\ request'[r] \in {"idle", "leased"} => request'[r] = request[r] /\ worker'[r] = worker[r]
           /\ worker'[r] \in Sharing => worker[r] \in Sharing
  PROVE  IInv'
  <1>1. \A r \in Requests : /\ RequestGeneration(r)' = RequestGeneration(r)
                            /\ WorkerGeneration(r)' = WorkerGeneration(r)
                            /\ lease'[WorkerShare(r)] = lease[WorkerShare(r)]
    BY DEF registry, RequestGeneration, WorkerGeneration, RequestShare, WorkerShare
  <1>2. Typed'
    BY DEF IInv, Typed, registry
  <1>3. Stamped'
    BY <1>1 DEF IInv, Stamped, registry
  <1>4. Staged'
    BY <1>1 DEF IInv, Staged
  <1>5. Holding'
    BY <1>1 DEF IInv, Holding, registry
  <1> QED
    BY <1>2, <1>3, <1>4, <1>5 DEF IInv

(* The coroutine moves past its lease, or stays where it is.               *)
LEMMA QuietRequestStep ==
  ASSUME IInv, UNCHANGED registry, UNCHANGED worker, NEW r \in Requests,
         request' = [request EXCEPT ![r] = request'[r]],
         request'[r] \in Places \ {"idle", "leased"}
  PROVE  IInv'
  BY QuietStep DEF IInv, Typed

(* A thread that runs goes on, and takes no share by that.                 *)
LEMMA QuietWorkerStep ==
  ASSUME IInv, UNCHANGED registry, UNCHANGED request, NEW r \in Requests,
         worker' = [worker EXCEPT ![r] = worker'[r]],
         worker[r] # "none",
         worker'[r] \in Threads, worker'[r] \in Sharing => worker[r] \in Sharing
  PROVE  IInv'
  <1>1. request[r] \notin {"idle", "leased"}
    BY DEF IInv, Staged
  <1> QED
    BY <1>1, QuietStep DEF IInv, Typed

(* The coroutine, but for its lease. *)
LEMMA CoroutineSteps ==
  ASSUME IInv, NEW r \in Requests,
         \/ StartSummary(r) \/ RefuseInput(r) \/ Deliver(r) \/ DeliverLast(r)
         \/ TimeOut(r) \/ Disconnect(r) \/ SetCancelled(r)
  PROVE  IInv'
  <1>1. CASE StartSummary(r)
    <2>1. /\ UNCHANGED registry
          /\ request' = [request EXCEPT ![r] = "streaming"]
          /\ worker' = [worker EXCEPT ![r] = "summarizing"]
      BY <1>1 DEF StartSummary, RequestStep, WorkerStep
    <2> QED
      BY <2>1, QuietStep DEF IInv, Typed, Places, Threads, Sharing, Answering, Writing
  <1>2. CASE RefuseInput(r) \/ DeliverLast(r) \/ TimeOut(r) \/ Disconnect(r)
    <2>1. /\ UNCHANGED registry /\ UNCHANGED worker
          /\ request' = [request EXCEPT ![r] = "closing"]
      BY <1>2 DEF RefuseInput, DeliverLast, TimeOut, Disconnect, EndLoop, RequestStep
    <2> QED
      BY <2>1, QuietRequestStep DEF IInv, Typed, Places
  <1>3. CASE Deliver(r) \/ SetCancelled(r)
    <2>1. UNCHANGED registry /\ UNCHANGED worker /\ UNCHANGED request
      BY <1>3 DEF Deliver, SetCancelled
    <2> QED
      BY <2>1, QuietStep DEF IInv, Typed
  <1> QED
    BY <1>1, <1>2, <1>3

(* The thread, but for its share. *)
LEMMA ThreadSteps ==
  ASSUME IInv, NEW r \in Requests,
         \/ LoadContext(r) \/ Produce(r) \/ FinishAnswer(r) \/ DecideToSave(r)
         \/ ReadTurns(r) \/ WriteTurns(r) \/ Fail(r) \/ EmitDone(r)
         \/ Summarize(r) \/ EndSummary(r)
  PROVE  IInv'
  <1>1. UNCHANGED registry /\ UNCHANGED request
    BY DEF LoadContext, Produce, FinishAnswer, DecideToSave, ReadTurns, WriteTurns, Fail,
           EmitDone, Summarize, EndSummary
  <1>2. CASE UNCHANGED worker
    BY <1>1, <1>2, QuietStep DEF IInv, Typed
  <1>3. CASE \/ LoadContext(r) \/ FinishAnswer(r) \/ DecideToSave(r) \/ ReadTurns(r)
             \/ WriteTurns(r) \/ Fail(r) \/ EmitDone(r)
    <2>1. /\ worker[r] \in Sharing
          /\ \E to \in Threads : worker' = [worker EXCEPT ![r] = to]
      BY <1>3 DEF LoadContext, FinishAnswer, DecideToSave, ReadTurns, WriteTurns, Fail,
                  EmitDone, WorkerStep, Threads, Sharing, Answering, Writing
    <2> QED
      BY <1>1, <2>1, QuietWorkerStep DEF IInv, Typed, Places, Threads, Sharing, Answering, Writing
  <1>4. CASE (Produce(r) \/ Summarize(r) \/ EndSummary(r)) /\ worker' # worker
    <2>1. \/ worker[r] = "answering" /\ worker' = [worker EXCEPT ![r] = "finishing"]
          \/ worker[r] = "summarizing" /\ worker' = [worker EXCEPT ![r] = "stopped"]
      BY <1>4 DEF Produce, Summarize, EndSummary, WorkerStep
    <2> QED
      BY <1>1, <2>1, QuietWorkerStep DEF IInv, Typed, Places, Threads, Sharing, Answering, Writing
  <1> QED
    BY <1>2, <1>3, <1>4

-----------------------------------------------------------------------------
(* Steps on the registry.                                                  *)

(* A free session gets a generation nobody has had; no response that is    *)
(* about to begin had it.                                                  *)
LEMMA BeginStep ==
  ASSUME IInv, NEW r \in Requests, Begin(r)
  PROVE  IInv'
  <1> DEFINE s == SessionOf[r]
             l == RequestShare(r)
  <1>1. /\ s \in Sessions /\ l \in Shares
        /\ request[r] = "idle" /\ request' = [request EXCEPT ![r] = "leased"]
        /\ UNCHANGED <<worker, clock>>
        /\ ~Locks!Busy(s)
        /\ generations' = generations + 1
        /\ held' = [held EXCEPT ![s] =
                      [generation |-> generations + 1, holders |-> 1, since |-> clock]]
        /\ lease' = [lease EXCEPT ![l] =
                      [key |-> s, generation |-> generations + 1, released |-> FALSE]]
    BY SessionOfAssumption, SharesApart DEF Begin, RequestStep, Locks!TryAcquire
  <1>2. /\ RequestGeneration(r)' = generations + 1
        /\ \A q \in Requests \ {r} : RequestGeneration(q)' = RequestGeneration(q)
        /\ \A q \in Requests : lease'[WorkerShare(q)] = lease[WorkerShare(q)]
    BY <1>1, SharesApart DEF IInv, Typed, RequestGeneration
  <1>3. /\ generations \in Nat
        /\ \A q \in Requests : RequestGeneration(q) \in Nat /\ WorkerGeneration(q) \in Nat
        /\ \A x \in Sessions : held[x].generation \in Nat
    BY SharesApart DEF IInv, Typed, Locks!HeldEntry, Locks!LeaseObject, RequestGeneration,
                       WorkerGeneration
  <1>4. Typed'
    <2>1. /\ [generation |-> generations + 1, holders |-> 1, since |-> clock] \in Locks!HeldEntry
          /\ [key |-> s, generation |-> generations + 1, released |-> FALSE] \in Locks!LeaseObject
      BY <1>1, <1>3 DEF Locks!HeldEntry, Locks!LeaseObject, IInv, Typed
    <2> HIDE DEF s, l
    <2> QED
      BY <1>1, <2>1 DEF IInv, Typed, Places
  <1>5. \A q \in Requests : WorkerGeneration(q)' = WorkerGeneration(q)
    BY <1>2 DEF WorkerGeneration
  <1>6. RequestGeneration(r) = 0 /\ WorkerGeneration(r) = 0
    BY <1>1 DEF IInv, Staged, Stamped
  <1>7. Stamped'
    <2>1. \A x \in Sessions : held'[x].generation <= generations'
      BY <1>1, <1>3 DEF IInv, Typed, Stamped
    <2>2. \A q \in Requests : /\ RequestGeneration(q)' <= generations'
                              /\ WorkerGeneration(q)' \in {0, RequestGeneration(q)'}
      BY <1>1, <1>2, <1>3, <1>5, <1>6 DEF IInv, Stamped
    <2>3. \A p, q \in Requests :
            p # q /\ RequestGeneration(p)' = RequestGeneration(q)' => RequestGeneration(p)' = 0
      BY <1>2, <1>3 DEF IInv, Stamped
    <2> QED
      BY <2>1, <2>2, <2>3 DEF Stamped
  <1>8. Staged'
    <2>1. \A q \in Requests : request'[q] = "idle" => q # r /\ request[q] = "idle"
      BY <1>1 DEF IInv, Typed
    <2>2. \A q \in Requests : request'[q] \in {"idle", "leased"}
                               => request[q] \in {"idle", "leased"}
      BY <1>1 DEF IInv, Typed
    <2> QED
      BY <1>1, <1>2, <1>5, <2>1, <2>2 DEF IInv, Staged
  <1>9. Holding'
    <2> SUFFICES ASSUME NEW q \in Requests, request'[q] = "leased"
                 PROVE  /\ RequestGeneration(q)' # 0
                        /\ held'[SessionOf[q]].generation = RequestGeneration(q)'
                        /\ held'[SessionOf[q]].since = clock'
      BY DEF Holding
    <2>1. CASE q = r
      BY <1>1, <1>2, <1>3, <2>1 DEF IInv, Typed
    <2>2. CASE q # r
      <3>1. /\ request[q] = "leased" /\ RequestGeneration(q) # 0
            /\ held[SessionOf[q]].generation = RequestGeneration(q)
            /\ held[SessionOf[q]].since = clock
        BY <1>1, <2>2 DEF IInv, Typed, Holding
      <3>2. SessionOf[q] # s
        BY <1>1, <3>1, StreamBoundAssumption DEF Locks!Busy, Locks!Expired, Locks!NotHeld, IInv, Typed
      <3> QED
        BY <1>1, <1>2, <2>2, <3>1, <3>2, SessionOfAssumption DEF IInv, Typed
    <2> QED
      BY <2>1, <2>2
  <1> QED
    BY <1>4, <1>7, <1>8, <1>9 DEF IInv

(* The worker's share is one of the hold its request still has.            *)
LEMMA StartStep ==
  ASSUME IInv, NEW r \in Requests, Start(r)
  PROVE  IInv'
  <1> DEFINE s == SessionOf[r]
             l == WorkerShare(r)
  <1>1. /\ s \in Sessions /\ l \in Shares
        /\ request[r] = "leased" /\ request' = [request EXCEPT ![r] = "streaming"]
        /\ worker' = [worker EXCEPT ![r] = "loading"]
        /\ UNCHANGED <<clock, generations>>
        /\ held' = [held EXCEPT ![s].holders = @ + 1]
        /\ lease' = [lease EXCEPT ![l] =
                      [key |-> s, generation |-> held[s].generation, released |-> FALSE]]
    BY SessionOfAssumption, SharesApart DEF Start, RequestStep, WorkerStep, Locks!Share
  <1>2. /\ held[s] \in Locks!HeldEntry
        /\ held'[s] = [held[s] EXCEPT !.holders = @ + 1]
        /\ \A x \in Sessions : /\ held'[x].generation = held[x].generation
                              /\ held'[x].since = held[x].since
    BY <1>1 DEF IInv, Typed, Locks!HeldEntry
  <1>3. /\ \A q \in Requests : RequestGeneration(q)' = RequestGeneration(q)
        /\ \A q \in Requests \ {r} : lease'[WorkerShare(q)] = lease[WorkerShare(q)]
        /\ ~lease'[l].released
        /\ WorkerGeneration(r)' = RequestGeneration(r)
        /\ RequestGeneration(r) # 0
    BY <1>1, SharesApart DEF IInv, Typed, Holding, RequestGeneration, WorkerGeneration
  <1>4. \A q \in Requests \ {r} : WorkerGeneration(q)' = WorkerGeneration(q)
    BY <1>3 DEF WorkerGeneration
  <1>5. Typed'
    <2>1. /\ [held[s] EXCEPT !.holders = @ + 1] \in Locks!HeldEntry
          /\ [key |-> s, generation |-> held[s].generation, released |-> FALSE]
               \in Locks!LeaseObject
      BY <1>1, <1>2 DEF Locks!HeldEntry, Locks!LeaseObject
    <2>2. "streaming" \in Places /\ "loading" \in Threads
      BY DEF Places, Threads, Sharing, Answering
    <2>3. held' \in [Sessions -> Locks!HeldEntry]
      BY <1>1, <1>2, <2>1 DEF IInv, Typed
    <2> HIDE DEF s, l
    <2> QED
      BY <1>1, <2>1, <2>2, <2>3 DEF IInv, Typed
  <1>6. Stamped'
    BY <1>1, <1>2, <1>3, <1>4 DEF IInv, Stamped
  <1>7. \A q \in Requests \ {r} : request'[q] = request[q] /\ worker'[q] = worker[q]
    BY <1>1 DEF IInv, Typed
  <1>8. request'[r] = "streaming"
    BY <1>1 DEF IInv, Typed
  <1>9. Staged'
    BY <1>3, <1>4, <1>7, <1>8 DEF IInv, Staged
  <1>10. Holding'
    BY <1>1, <1>2, <1>3, <1>7, <1>8, SessionOfAssumption DEF IInv, Holding
  <1> QED
    BY <1>5, <1>6, <1>9, <1>10 DEF IInv

(* A release changes the entry of its own generation only.                 *)
LEMMA ReleaseStep ==
  ASSUME IInv, NEW l \in Shares, Locks!Release(l), NEW r \in Requests,
         l = RequestShare(r) \/ (l = WorkerShare(r) /\ worker'[r] \notin Sharing),
         request' \in [Requests -> Places], worker' \in [Requests -> Threads],
         request'[r] \notin {"idle", "leased"}, worker'[r] \in Sharing => worker[r] \in Sharing,
         \A q \in Requests \ {r} : request'[q] = request[q] /\ worker'[q] = worker[q]
  PROVE  IInv'
  <1> DEFINE k == lease[l].key
  <1>1. /\ UNCHANGED <<clock, generations>>
        /\ lease' = [lease EXCEPT ![l].released = TRUE]
        /\ held' = [held EXCEPT ![k] = Locks!EntryAfterRelease(l)]
    BY DEF Locks!Release
  <1>2. /\ \A m \in Shares : lease'[m].generation = lease[m].generation
        /\ \A m \in Shares \ {l} : lease'[m] = lease[m]
    BY <1>1 DEF IInv, Typed
  <1>3. \A q \in Requests : /\ RequestGeneration(q)' = RequestGeneration(q)
                            /\ WorkerGeneration(q)' = WorkerGeneration(q)
                            /\ RequestGeneration(q) \in Nat
    BY <1>2, SharesApart DEF RequestGeneration, WorkerGeneration, IInv, Typed, Locks!LeaseObject
  <1>4. lease[l].generation \in {0, RequestGeneration(r)}
    BY DEF IInv, Stamped, RequestGeneration, WorkerGeneration
  <1>5. k \in Sessions => Locks!EntryAfterRelease(l) \in Locks!HeldEntry
    BY DEF Locks!EntryAfterRelease, Locks!HeldEntry, Locks!NotHeld, IInv, Typed
  <1>6. \A x \in Sessions :
          \/ held'[x] = held[x]
          \/ /\ held[x].generation = lease[l].generation
             /\ held'[x].generation \in {0, held[x].generation}
    BY <1>1 DEF Locks!EntryAfterRelease, Locks!HeldEntry, Locks!NotHeld, IInv, Typed
  <1>7. Typed'
    <2>1. held' \in [Sessions -> Locks!HeldEntry]
      BY <1>1, <1>5 DEF IInv, Typed
    <2>2. lease' \in [Shares -> Locks!LeaseObject]
      BY <1>1 DEF IInv, Typed, Locks!LeaseObject
    <2> QED
      BY <1>1, <2>1, <2>2 DEF IInv, Typed
  <1>8. Stamped'
    <2>1. \A x \in Sessions : held[x].generation \in Nat
      BY DEF IInv, Typed, Locks!HeldEntry
    <2>2. \A x \in Sessions : held'[x].generation <= generations'
      BY <1>1, <1>6, <2>1 DEF IInv, Typed, Stamped
    <2> QED
      BY <1>1, <1>3, <2>2 DEF IInv, Stamped
  <1>9. Staged'
    <2> SUFFICES ASSUME NEW q \in Requests
                 PROVE  /\ request'[q] = "idle" => RequestGeneration(q)' = 0
                        /\ request'[q] \in {"idle", "leased"} => worker'[q] = "none"
                        /\ worker'[q] \in Sharing =>
                             ~lease'[WorkerShare(q)].released /\ WorkerGeneration(q)' # 0
      BY DEF Staged
    <2>1. worker'[q] \in Sharing => lease'[WorkerShare(q)] = lease[WorkerShare(q)]
      BY <1>2, SharesApart
    <2> QED
      BY <1>3, <2>1 DEF IInv, Staged
  <1>10. Holding'
    <2> SUFFICES ASSUME NEW q \in Requests, request'[q] = "leased"
                 PROVE  /\ RequestGeneration(q)' # 0
                        /\ held'[SessionOf[q]].generation = RequestGeneration(q)'
                        /\ held'[SessionOf[q]].since = clock'
      BY DEF Holding
    <2>1. /\ q # r /\ RequestGeneration(q) # 0
          /\ held[SessionOf[q]].generation = RequestGeneration(q)
          /\ held[SessionOf[q]].since = clock
      BY DEF IInv, Holding
    <2>2. RequestGeneration(q) # lease[l].generation
      BY <1>4, <2>1 DEF IInv, Stamped
    <2> QED
      BY <1>1, <1>3, <1>6, <2>1, <2>2, SessionOfAssumption
  <1> QED
    BY <1>7, <1>8, <1>9, <1>10 DEF IInv

LEMMA ReleasingSteps ==
  ASSUME IInv, NEW r \in Requests, LeaveBeforeStart(r) \/ EndSession(r) \/ StopWorker(r)
  PROVE  IInv'
  <1>1. CASE LeaveBeforeStart(r) \/ EndSession(r)
    <2>1. /\ Locks!Release(RequestShare(r)) /\ UNCHANGED worker
          /\ request' = [request EXCEPT ![r] = "closed"]
      BY <1>1 DEF LeaveBeforeStart, EndSession, RequestStep
    <2>2. /\ request' \in [Requests -> Places] /\ request'[r] = "closed"
          /\ \A q \in Requests \ {r} : request'[q] = request[q]
      BY <2>1 DEF IInv, Typed, Places
    <2> QED
      BY <2>1, <2>2, SharesApart, ReleaseStep DEF IInv, Typed
  <1>2. CASE StopWorker(r)
    <2>1. /\ Locks!Release(WorkerShare(r)) /\ UNCHANGED request
          /\ worker[r] = "finishing" /\ worker' = [worker EXCEPT ![r] = "stopped"]
      BY <1>2 DEF StopWorker, WorkerStep
    <2>2. /\ worker' \in [Requests -> Threads] /\ worker'[r] \notin Sharing
          /\ \A q \in Requests \ {r} : worker'[q] = worker[q]
      BY <2>1 DEF IInv, Typed, Threads, Sharing, Answering, Writing
    <2>3. request[r] \notin {"idle", "leased"}
      BY <2>1 DEF IInv, Staged
    <2> QED
      BY <2>1, <2>2, <2>3, SharesApart, ReleaseStep DEF IInv, Typed
  <1> QED
    BY <1>1, <1>2

(* Time stands still while a response is about to begin.                   *)
LEMMA TickStep ==
  ASSUME IInv, Tick
  PROVE  IInv'
  <1>1. /\ UNCHANGED <<held, generations, lease, request, worker>>
        /\ clock' = clock + 1 /\ \A r \in Requests : request[r] # "leased"
    BY DEF Tick, Locks!Tick, Locks!lockVars
  <1>2. Typed'
    BY <1>1 DEF IInv, Typed
  <1>3. Stamped'
    BY <1>1 DEF IInv, Stamped, RequestGeneration, WorkerGeneration
  <1>4. Staged'
    BY <1>1 DEF IInv, Staged, RequestGeneration, WorkerGeneration
  <1>5. Holding'
    BY <1>1 DEF Holding
  <1> QED
    BY <1>2, <1>3, <1>4, <1>5 DEF IInv

LEMMA StreamStep == IInv /\ [Next]_vars => IInv'
  <1> SUFFICES ASSUME IInv, [Next]_vars PROVE IInv'
    OBVIOUS
  <1>1. CASE UNCHANGED vars \/ \E s \in Sessions : ClearSession(s)
    <2>1. UNCHANGED registry /\ UNCHANGED request /\ UNCHANGED worker
      BY <1>1 DEF vars, ClearSession
    <2> QED
      BY <2>1, QuietStep DEF IInv, Typed
  <1>2. ASSUME NEW r \in Requests, RequestNext(r) PROVE IInv'
    BY <1>2, BeginStep, StartStep, ReleasingSteps, CoroutineSteps DEF RequestNext
  <1>3. ASSUME NEW r \in Requests, WorkerNext(r) PROVE IInv'
    BY <1>3, ReleasingSteps, ThreadSteps DEF WorkerNext
  <1> QED
    BY <1>1, <1>2, <1>3, TickStep DEF Next

(* Two workers write to one session only after the lease of one of them    *)
(* has been taken over, whoever left, timed out, released late or cleared  *)
(* the session meanwhile (session_locks.py:60-147, coding/service.py:      *)
(* 438-484, pdf/service.py:176-229).                                       *)
THEOREM WritersTakeTurns == Spec => []OneWriter
  <1> QED
    BY StreamBegins, StreamStep, IInvImplies, PTL DEF Spec
-----------------------------------------------------------------------------
(* The history. Where a turn in it, or in what was read of it, comes from: *)
(* a worker past its first write, whose request was not abandoned.         *)
Turns == [role : Roles, of : Requests]
Past == {"loadAssistant", "saveAssistant", "saved", "finishing", "stopped"}

HistoryTyped ==
  /\ history \in [Sessions -> Seq(Turns)] /\ snapshot \in [Requests -> Seq(Turns)]
  /\ committed \in [Sessions -> Seq(Requests)]
  /\ cancelled \in [Requests -> BOOLEAN]

(* An abandoned request will not begin to write. *)
AbandonedStops ==
  /\ abandoned \subseteq Requests
  /\ \A r \in abandoned : cancelled[r] /\ worker[r] \notin {"none", "saved"} \cup Writing

Seen(h) == \A i \in DOMAIN h : worker[h[i].of] \in Past /\ h[i].of \notin abandoned
Traceless ==
  (\A s \in Sessions : Seen(history[s])) /\ (\A r \in Requests : Seen(snapshot[r]))

TraceIInv == HistoryTyped /\ AbandonedStops /\ Traceless

(* A worker only goes on, and only one without an answer is abandoned.     *)
GoesOn ==
  /\ \A q \in Requests : worker[q] \in Past => worker'[q] \in Past
  /\ \A q \in Requests : q \in abandoned' => q \in abandoned \/ worker[q] \notin Past

LEMMA SeenStays ==
  ASSUME NEW h \in Seq(Turns), Seen(h), GoesOn
  PROVE  Seen(h)'
<1> SUFFICES ASSUME NEW i \in DOMAIN h
             PROVE  worker'[h[i].of] \in Past /\ h[i].of \notin abandoned'
  BY DEF Seen
<1>1. h[i].of \in Requests
  <2>1. h[i] \in Turns
    BY ElementOfSeq
  <2> QED  BY <2>1 DEF Turns
<1> QED  BY <1>1 DEF Seen, GoesOn

LEMMA TraceInit == Init => TraceIInv
<1> SUFFICES ASSUME Init PROVE TraceIInv
  OBVIOUS
<1>1. <<>> \in Seq(Turns) /\ <<>> \in Seq(Requests) /\ DOMAIN <<>> = {}
  OBVIOUS
<1>2. /\ history = [s \in Sessions |-> <<>>] /\ snapshot = [r \in Requests |-> <<>>]
      /\ committed = [s \in Sessions |-> <<>>] /\ cancelled = [r \in Requests |-> FALSE]
      /\ abandoned = {}
  BY DEF Init
<1> QED  BY <1>1, <1>2 DEF TraceIInv, HistoryTyped, AbandonedStops, Traceless, Seen

(* Steps that write to no history. *)
LEMMA TraceQuiet ==
  ASSUME IInv, TraceIInv, UNCHANGED <<history, snapshot, committed, abandoned>>,
         cancelled' \in [Requests -> BOOLEAN],
         \A q \in Requests :
           /\ cancelled[q] => cancelled'[q]
           /\ worker[q] \in Past => worker'[q] \in Past
           /\ worker'[q] \in {"none", "saved"} \cup Writing =>
                worker[q] \in {"none", "saved"} \cup Writing \/ (worker[q] = "answered" /\ ~cancelled[q])
  PROVE  TraceIInv'
<1>1. HistoryTyped'
  BY DEF TraceIInv, HistoryTyped
<1>2. AbandonedStops'
  BY DEF TraceIInv, AbandonedStops
<1>3. GoesOn
  BY DEF GoesOn
<1>4. \A s \in Sessions : Seen(history[s])'
  BY <1>3, SeenStays DEF TraceIInv, HistoryTyped, Traceless
<1>5. \A r \in Requests : Seen(snapshot[r])'
  BY <1>3, SeenStays DEF TraceIInv, HistoryTyped, Traceless
<1>6. Traceless'
  BY <1>4, <1>5 DEF Traceless
<1> QED  BY <1>1, <1>2, <1>6 DEF TraceIInv

(* A request is cancelled and, without an answer yet, abandoned.           *)
LEMMA TraceCancel ==
  ASSUME IInv, TraceIInv, NEW r \in Requests, SetCancelled(r)
  PROVE  TraceIInv'
<1>1. /\ UNCHANGED <<history, snapshot, committed, worker>> /\ worker[r] # "none"
      /\ cancelled' = [cancelled EXCEPT ![r] = TRUE]
      /\ abandoned' = IF worker[r] \in Answering THEN abandoned \cup {r} ELSE abandoned
  BY DEF SetCancelled
<1>2. HistoryTyped'
  BY <1>1 DEF TraceIInv, HistoryTyped
<1>3. \A q \in Requests : q \in abandoned' => q \in abandoned \/ (q = r /\ worker[r] \in Answering)
  BY <1>1
<1>4. AbandonedStops'
  BY <1>1, <1>3 DEF TraceIInv, HistoryTyped, AbandonedStops, Answering, Writing
<1>5. GoesOn
  BY <1>1, <1>3 DEF GoesOn, Answering, Past
<1>6. Traceless'
  BY <1>1, <1>5, SeenStays DEF TraceIInv, HistoryTyped, Traceless
<1> QED  BY <1>2, <1>4, <1>6 DEF TraceIInv

(* add_turn reads, *)
LEMMA TraceRead ==
  ASSUME IInv, TraceIInv, NEW r \in Requests, ReadTurns(r)
  PROVE  TraceIInv'
<1>0. SessionOf[r] \in Sessions
  BY SessionOfAssumption
<1>1. /\ UNCHANGED <<history, committed, abandoned, cancelled>>
      /\ snapshot' = [snapshot EXCEPT ![r] = history[SessionOf[r]]]
      /\ \/ worker[r] = "loadUser" /\ worker' = [worker EXCEPT ![r] = "saveUser"]
         \/ worker[r] = "loadAssistant" /\ worker' = [worker EXCEPT ![r] = "saveAssistant"]
  BY DEF ReadTurns, WorkerStep, ghosts
<1>2. HistoryTyped'
  BY <1>0, <1>1 DEF TraceIInv, HistoryTyped
<1>3. /\ \A q \in Requests : worker[q] \in Past => worker'[q] \in Past
      /\ \A q \in Requests : worker'[q] \in {"none", "saved"} \cup Writing =>
            worker[q] \in {"none", "saved"} \cup Writing
  BY <1>1 DEF IInv, Typed, Past, Writing
<1>4. AbandonedStops'
  BY <1>1, <1>3 DEF TraceIInv, AbandonedStops
<1>5. GoesOn
  BY <1>1, <1>3 DEF GoesOn
<1>6. \A s \in Sessions : Seen(history[s])'
  BY <1>1, <1>5, SeenStays DEF TraceIInv, HistoryTyped, Traceless
<1>7. \A q \in Requests : snapshot'[q] = IF q = r THEN history[SessionOf[r]] ELSE snapshot[q]
  BY <1>1 DEF TraceIInv, HistoryTyped
<1>8. \A q \in Requests : Seen(snapshot[q])'
  <2> TAKE q \in Requests
  <2> DEFINE h == IF q = r THEN history[SessionOf[r]] ELSE snapshot[q]
  <2>1. h \in Seq(Turns) /\ Seen(h)
    BY <1>0 DEF TraceIInv, HistoryTyped, Traceless
  <2> QED  BY <1>5, <1>7, <2>1, SeenStays DEF Seen
<1> QED  BY <1>2, <1>4, <1>6, <1>8 DEF TraceIInv, Traceless

(* and writes a turn of a request that is not abandoned.                   *)
LEMMA TraceWrite ==
  ASSUME IInv, TraceIInv, NEW r \in Requests, WriteTurns(r)
  PROVE  TraceIInv'
<1> DEFINE s == SessionOf[r]
           t == Turn(IF worker[r] = "saveUser" THEN "user" ELSE "assistant", r)
           new == Extended(snapshot[r], <<t>>)
<1>0. s \in Sessions /\ t \in Turns /\ t.of = r
  BY SessionOfAssumption DEF Turn, Turns, Roles
<1>1. /\ UNCHANGED <<abandoned, cancelled>>
      /\ history' = [history EXCEPT ![s] = new]
      /\ snapshot' = [snapshot EXCEPT ![r] = <<>>]
      /\ committed' \in {committed, [committed EXCEPT ![s] = Append(@, r)]}
      /\ worker[r] \in {"saveUser", "saveAssistant"}
      /\ worker' \in {[worker EXCEPT ![r] = "loadAssistant"], [worker EXCEPT ![r] = "saved"]}
  BY DEF WriteTurns, WorkerStep
<1>2. /\ history \in [Sessions -> Seq(Turns)] /\ snapshot \in [Requests -> Seq(Turns)]
      /\ committed \in [Sessions -> Seq(Requests)] /\ <<>> \in Seq(Turns) /\ <<t>> \in Seq(Turns)
      /\ Append(committed[s], r) \in Seq(Requests)
  <2> HIDE DEF t, s
  <2>1. /\ history \in [Sessions -> Seq(Turns)] /\ snapshot \in [Requests -> Seq(Turns)]
        /\ committed \in [Sessions -> Seq(Requests)]
    BY DEF TraceIInv, HistoryTyped
  <2>2. <<>> \in Seq(Turns) /\ <<t>> \in Seq(Turns)
    BY <1>0
  <2>3. committed[s] \in Seq(Requests)
    BY <1>0, <2>1
  <2>4. Append(committed[s], r) \in Seq(Requests)
    BY <2>3
  <2> QED  BY <2>1, <2>2, <2>4
<1> HIDE DEF t, s
<1>3. PICK n \in Seq(Turns) :
        /\ n = new
        /\ \A i \in DOMAIN n : \/ \E j \in DOMAIN snapshot[r] : n[i] = snapshot[r][j]
                              \/ \E j \in DOMAIN <<t>> : n[i] = <<t>>[j]
  <2>1. snapshot[r] \in Seq(Turns) /\ <<t>> \in Seq(Turns)
    BY <1>2
  <2>2. /\ new \in Seq(Turns)
        /\ \A i \in DOMAIN new : \/ \E j \in DOMAIN snapshot[r] : new[i] = snapshot[r][j]
                                \/ \E j \in DOMAIN <<t>> : new[i] = <<t>>[j]
    <3> SUFFICES ASSUME NEW h \in Seq(Turns), NEW u \in Seq(Turns)
                 PROVE  /\ Extended(h, u) \in Seq(Turns)
                        /\ \A i \in DOMAIN Extended(h, u) :
                             \/ \E j \in DOMAIN h : Extended(h, u)[i] = h[j]
                             \/ \E j \in DOMAIN u : Extended(h, u)[i] = u[j]
      BY <2>1
    <3> QED  BY ExtendedFrom
  <2> HIDE DEF new
  <2> QED  BY <2>2
<1>3a. history' = [history EXCEPT ![s] = n]
  BY <1>1, <1>3
<1> HIDE DEF new
<1>4. HistoryTyped'
  <2>1. history' \in [Sessions -> Seq(Turns)] /\ snapshot' \in [Requests -> Seq(Turns)]
    BY <1>0, <1>1, <1>2, <1>3a
  <2>2. committed' \in [Sessions -> Seq(Requests)]
    <3>1. [committed EXCEPT ![s] = Append(@, r)] \in [Sessions -> Seq(Requests)]
      BY <1>0, <1>2
    <3> QED  BY <1>1, <1>2, <3>1
  <2>3. cancelled' \in [Requests -> BOOLEAN]
    BY <1>1 DEF TraceIInv, HistoryTyped
  <2> QED  BY <2>1, <2>2, <2>3 DEF HistoryTyped
<1>5. r \notin abandoned /\ worker'[r] \in Past
  BY <1>1 DEF TraceIInv, AbandonedStops, Writing, IInv, Typed, Past
<1>6. \A q \in Requests \ {r} : worker'[q] = worker[q]
  BY <1>1 DEF IInv, Typed
<1>7. AbandonedStops'
  BY <1>1, <1>5, <1>6 DEF TraceIInv, AbandonedStops
<1>8. GoesOn
  BY <1>1, <1>5, <1>6 DEF GoesOn
<1>9. \A i \in DOMAIN n : worker'[n[i].of] \in Past /\ n[i].of \notin abandoned'
  <2> TAKE i \in DOMAIN n
  <2>1. CASE \E j \in DOMAIN snapshot[r] : n[i] = snapshot[r][j]
    <3>1. PICK j \in DOMAIN snapshot[r] : n[i] = snapshot[r][j]
      BY <2>1
    <3>2. snapshot[r][j].of \in Requests
      <4>1. snapshot[r] \in Seq(Turns)
        BY <1>2
      <4>2. snapshot[r][j] \in Turns
        BY <4>1, ElementOfSeq
      <4> QED  BY <4>2 DEF Turns
    <3>3. worker[snapshot[r][j].of] \in Past /\ snapshot[r][j].of \notin abandoned
      BY DEF TraceIInv, Traceless, Seen
    <3> QED  BY <1>8, <3>1, <3>2, <3>3 DEF GoesOn
  <2>2. CASE \E j \in DOMAIN <<t>> : n[i] = <<t>>[j]
    <3>1. n[i].of = r
      BY <1>0, <2>2
    <3> QED  BY <1>1, <1>5, <3>1
  <2> QED  BY <1>3, <2>1, <2>2
<1>10. \A x \in Sessions : Seen(history[x])'
  <2> TAKE x \in Sessions
  <2>1. CASE x = s
    <3>1. history'[x] = n
      BY <1>0, <1>2, <1>3a, <2>1
    <3> QED  BY <1>9, <3>1 DEF Seen
  <2>2. CASE x # s
    <3>1. history'[x] = history[x] /\ Seen(history[x]) /\ history[x] \in Seq(Turns)
      BY <1>1, <1>2, <2>2 DEF TraceIInv, Traceless
    <3> QED  BY <1>8, <3>1, SeenStays DEF Seen
  <2> QED  BY <2>1, <2>2
<1>11. \A q \in Requests : Seen(snapshot[q])'
  <2> TAKE q \in Requests
  <2>1. CASE q = r
    BY <1>1, <1>2, <2>1 DEF Seen
  <2>2. CASE q # r
    <3>1. snapshot'[q] = snapshot[q] /\ Seen(snapshot[q]) /\ snapshot[q] \in Seq(Turns)
      BY <1>1, <1>2, <2>2 DEF TraceIInv, Traceless
    <3> QED  BY <1>8, <3>1, SeenStays DEF Seen
  <2> QED  BY <2>1, <2>2
<1> QED  BY <1>4, <1>7, <1>10, <1>11 DEF TraceIInv, Traceless

(* What it read, or the whole history, is dropped. *)
LEMMA TraceDropped ==
  ASSUME IInv, TraceIInv, UNCHANGED <<abandoned, cancelled>>,
         \A x \in Sessions : history'[x] \in {<<>>, history[x]},
         \A q \in Requests : snapshot'[q] \in {<<>>, snapshot[q]},
         HistoryTyped',
         \A q \in Requests :
           /\ worker[q] \in Past => worker'[q] \in Past
           /\ worker'[q] \in {"none", "saved"} \cup Writing => worker'[q] = worker[q]
  PROVE  TraceIInv'
<1>1. AbandonedStops'
  BY DEF TraceIInv, AbandonedStops
<1>2. GoesOn
  BY DEF GoesOn
<1>3. \A x \in Sessions : Seen(history[x])'
  <2> TAKE x \in Sessions
  <2>1. CASE history'[x] = <<>>
    BY <2>1 DEF Seen
  <2>2. CASE history'[x] = history[x]
    <3>1. Seen(history[x]) /\ history[x] \in Seq(Turns)
      BY DEF TraceIInv, Traceless, HistoryTyped
    <3> QED  BY <1>2, <2>2, <3>1, SeenStays DEF Seen
  <2> QED  BY <2>1, <2>2
<1>4. \A q \in Requests : Seen(snapshot[q])'
  <2> TAKE q \in Requests
  <2>1. CASE snapshot'[q] = <<>>
    BY <2>1 DEF Seen
  <2>2. CASE snapshot'[q] = snapshot[q]
    <3>1. Seen(snapshot[q]) /\ snapshot[q] \in Seq(Turns)
      BY DEF TraceIInv, Traceless, HistoryTyped
    <3> QED  BY <1>2, <2>2, <3>1, SeenStays DEF Seen
  <2> QED  BY <2>1, <2>2
<1> QED  BY <1>1, <1>3, <1>4 DEF TraceIInv, Traceless

LEMMA TraceStep ==
  ASSUME IInv, TraceIInv, [Next]_vars
  PROVE  TraceIInv'
<1> USE DEF registry, ghosts
<1>1. ASSUME NEW r \in Requests,
             \/ Begin(r) \/ LeaveBeforeStart(r) \/ RefuseInput(r) \/ Deliver(r)
             \/ DeliverLast(r) \/ TimeOut(r) \/ Disconnect(r) \/ EndSession(r)
      PROVE  TraceIInv'
  <2>1. UNCHANGED <<history, snapshot, committed, abandoned, cancelled, worker>>
    BY <1>1 DEF Begin, LeaveBeforeStart, RefuseInput, Deliver, DeliverLast, TimeOut, Disconnect,
                EndLoop, EndSession
  <2> QED  BY <2>1, TraceQuiet DEF TraceIInv, HistoryTyped
<1>2. ASSUME NEW r \in Requests,
             \/ Start(r) \/ StartSummary(r) \/ LoadContext(r) \/ Produce(r) \/ FinishAnswer(r)
             \/ DecideToSave(r) \/ EmitDone(r) \/ StopWorker(r) \/ Summarize(r) \/ EndSummary(r)
      PROVE  TraceIInv'
  <2>1. UNCHANGED <<history, snapshot, committed, abandoned, cancelled>>
    BY <1>2 DEF Start, StartSummary, LoadContext, Produce, FinishAnswer, DecideToSave, EmitDone,
                StopWorker, Summarize, EndSummary
  <2>2. \/ UNCHANGED worker
        \/ /\ worker[r] \notin Past /\ worker[r] # "saved"
           /\ \E to \in {"loading", "summarizing", "answering", "answered", "finishing", "stopped"} :
                worker' = [worker EXCEPT ![r] = to]
        \/ /\ worker[r] = "answered" /\ ~cancelled[r]
           /\ worker' = [worker EXCEPT ![r] = "loadUser"]
        \/ /\ worker[r] \in {"saved", "finishing"}
           /\ \E to \in {"finishing", "stopped"} : worker' = [worker EXCEPT ![r] = to]
    BY <1>2 DEF Start, StartSummary, LoadContext, Produce, FinishAnswer, DecideToSave, EmitDone,
                StopWorker, Summarize, EndSummary, WorkerStep, Past
  <2>3. \A q \in Requests :
          /\ worker[q] \in Past => worker'[q] \in Past
          /\ worker'[q] \in {"none", "saved"} \cup Writing =>
               worker[q] \in {"none", "saved"} \cup Writing \/ (worker[q] = "answered" /\ ~cancelled[q])
    BY <2>2 DEF IInv, Typed, Past, Writing
  <2> QED  BY <2>1, <2>3, TraceQuiet DEF TraceIInv, HistoryTyped
<1>3. ASSUME NEW r \in Requests, Fail(r) PROVE TraceIInv'
  <2>1. /\ UNCHANGED <<history, committed, abandoned, cancelled>>
        /\ snapshot' = [snapshot EXCEPT ![r] = <<>>]
        /\ worker' = [worker EXCEPT ![r] = "finishing"]
    BY <1>3 DEF Fail, WorkerStep
  <2>2. <<>> \in Seq(Turns)
    OBVIOUS
  <2>3. HistoryTyped' /\ \A q \in Requests : snapshot'[q] \in {<<>>, snapshot[q]}
    BY <2>1, <2>2 DEF TraceIInv, HistoryTyped
  <2>4. \A q \in Requests :
          /\ worker[q] \in Past => worker'[q] \in Past
          /\ worker'[q] \in {"none", "saved"} \cup Writing => worker'[q] = worker[q]
    BY <2>1 DEF IInv, Typed, Past, Writing
  <2> QED  BY <2>1, <2>3, <2>4, TraceDropped
<1>4. ASSUME NEW s \in Sessions, ClearSession(s) PROVE TraceIInv'
  <2>1. /\ UNCHANGED <<snapshot, abandoned, cancelled, worker>>
        /\ history' = [history EXCEPT ![s] = <<>>] /\ committed' = [committed EXCEPT ![s] = <<>>]
    BY <1>4 DEF ClearSession
  <2>2. <<>> \in Seq(Turns) /\ <<>> \in Seq(Requests)
    OBVIOUS
  <2>3. HistoryTyped' /\ \A x \in Sessions : history'[x] \in {<<>>, history[x]}
    BY <2>1, <2>2 DEF TraceIInv, HistoryTyped
  <2> QED  BY <2>1, <2>3, TraceDropped
<1>5. CASE Tick \/ UNCHANGED vars
  <2>1. UNCHANGED <<history, snapshot, committed, abandoned, cancelled, worker>>
    BY <1>5 DEF Tick, vars
  <2> QED  BY <2>1, TraceQuiet DEF TraceIInv, HistoryTyped
<1>6. ASSUME NEW r \in Requests, RequestNext(r) \/ WorkerNext(r) PROVE TraceIInv'
  BY <1>1, <1>2, <1>3, <1>6, TraceCancel, TraceRead, TraceWrite DEF RequestNext, WorkerNext
<1> QED  BY <1>4, <1>5, <1>6 DEF Next

(* A request that was cancelled before its worker had an answer never has  *)
(* a turn in the history, whoever writes to it later from what he read of  *)
(* it: _persist looks at the event before the first of its two writes      *)
(* (coding/service.py:451-455, pdf/service.py:187-195).                    *)
THEOREM AbandonedLeaveNoTrace == Spec => []AbandonedNeverSaved
<1>1. TraceIInv => AbandonedNeverSaved
  BY DEF TraceIInv, Traceless, Seen, AbandonedNeverSaved
<1> QED
  BY <1>1, StreamBegins, StreamStep, TraceInit, TraceStep, PTL DEF Spec

-----------------------------------------------------------------------------
(* Who holds a session. A share stays on its own request's session; the    *)
(* holders of a request's hold are its own shares that are not given back; *)
(* and while nobody took a session over, its workers' hold is the one there.*)
SharesKept ==
  \A r \in Requests :
    /\ \A l \in {RequestShare(r), WorkerShare(r)} :
         ~lease[l].released => lease[l].key = SessionOf[r]
    /\ worker[r] \notin Sharing => lease[WorkerShare(r)].released
    /\ ~lease[RequestShare(r)].released => RequestGeneration(r) # 0

One(l) == IF lease[l].released THEN 0 ELSE 1

HoldersCounted ==
  \A r \in Requests :
    RequestGeneration(r) # 0 /\ held[SessionOf[r]].generation = RequestGeneration(r)
      => held[SessionOf[r]].holders = One(RequestShare(r)) + One(WorkerShare(r))

NotTakenOver ==
  \A r \in Requests : worker[r] \in Sharing /\ SessionOf[r] \notin spoiled
    => held[SessionOf[r]].generation = WorkerGeneration(r)

HoldIInv == SharesKept /\ HoldersCounted /\ NotTakenOver

LEMMA HoldInit == Init => HoldIInv
<1> SUFFICES ASSUME Init PROVE HoldIInv
  OBVIOUS
<1>1. \A l \in Shares : lease[l] = Locks!NoLease
  BY DEF Init, Locks!Init
<1>2. \A r \in Requests : /\ lease[RequestShare(r)].released /\ lease[WorkerShare(r)].released
                          /\ RequestGeneration(r) = 0 /\ worker[r] \notin Sharing
  BY <1>1, SharesApart DEF Init, Locks!NoLease, RequestGeneration, Sharing, Answering, Writing
<1> QED  BY <1>2 DEF HoldIInv, SharesKept, HoldersCounted, NotTakenOver

LEMMA HoldQuiet ==
  ASSUME IInv, HoldIInv, UNCHANGED <<held, lease>>, spoiled \subseteq spoiled',
         \A q \in Requests : worker'[q] \in Sharing <=> worker[q] \in Sharing
  PROVE  HoldIInv'
<1>1. \A r \in Requests : /\ RequestShare(r)' = RequestShare(r) /\ WorkerShare(r)' = WorkerShare(r)
                          /\ RequestGeneration(r)' = RequestGeneration(r)
                          /\ WorkerGeneration(r)' = WorkerGeneration(r)
                          /\ One(RequestShare(r))' = One(RequestShare(r))
                          /\ One(WorkerShare(r))' = One(WorkerShare(r))
  BY DEF RequestShare, WorkerShare, RequestGeneration, WorkerGeneration, One
<1>2. SharesKept'
  BY <1>1 DEF HoldIInv, SharesKept
<1>3. HoldersCounted'
  BY <1>1 DEF HoldIInv, HoldersCounted
<1>4. NotTakenOver'
  BY <1>1 DEF HoldIInv, NotTakenOver
<1> QED  BY <1>2, <1>3, <1>4 DEF HoldIInv

(* A new hold, on a session nobody holds or one that is spoiled now. *)
LEMMA HoldBegin ==
  ASSUME IInv, HoldIInv, NEW r \in Requests, Begin(r)
  PROVE  HoldIInv'
<1> DEFINE s == SessionOf[r]
           l == RequestShare(r)
           g == generations + 1
<1>1. /\ s \in Sessions /\ l \in Shares /\ request[r] = "idle" /\ UNCHANGED worker
      /\ held' = [held EXCEPT ![s] = [generation |-> g, holders |-> 1, since |-> clock]]
      /\ lease' = [lease EXCEPT ![l] = [key |-> s, generation |-> g, released |-> FALSE]]
      /\ spoiled' = IF held[s] # Locks!NotHeld THEN spoiled \cup {s} ELSE spoiled
  BY SessionOfAssumption, SharesApart DEF Begin, RequestStep, Locks!TryAcquire
<1>2. /\ lease \in [Shares -> Locks!LeaseObject] /\ held \in [Sessions -> Locks!HeldEntry]
      /\ generations \in Nat /\ g # 0
  BY DEF IInv, Typed
<1>3. /\ lease'[l].key = s /\ lease'[l].generation = g /\ ~lease'[l].released
      /\ \A m \in Shares \ {l} : lease'[m] = lease[m]
      /\ held'[s].generation = g /\ held'[s].holders = 1
      /\ \A x \in Sessions \ {s} : held'[x] = held[x]
  BY <1>1, <1>2
<1>4. /\ \A q \in Requests : lease'[WorkerShare(q)] = lease[WorkerShare(q)]
      /\ \A q \in Requests \ {r} : lease'[RequestShare(q)] = lease[RequestShare(q)]
  BY <1>3, SharesApart
<1>5. worker[r] \notin Sharing
  BY <1>1 DEF IInv, Staged, Sharing, Answering, Writing
<1>6. \A q \in Requests : RequestGeneration(q) <= generations /\ RequestGeneration(q) \in Nat
  BY <1>2, SharesApart DEF IInv, Stamped, RequestGeneration, Locks!LeaseObject
<1> HIDE DEF g
<1>7. SharesKept'
  <2> SUFFICES ASSUME NEW q \in Requests
               PROVE  /\ ~lease'[RequestShare(q)].released =>
                           lease'[RequestShare(q)].key = SessionOf[q] /\ lease'[RequestShare(q)].generation # 0
                      /\ ~lease'[WorkerShare(q)].released => lease'[WorkerShare(q)].key = SessionOf[q]
                      /\ worker'[q] \notin Sharing => lease'[WorkerShare(q)].released
    BY DEF SharesKept, RequestGeneration, RequestShare, WorkerShare
  <2>1. CASE q = r
    BY <1>1, <1>2, <1>3, <1>4, <2>1 DEF HoldIInv, SharesKept
  <2>2. CASE q # r
    BY <1>1, <1>4, <2>2 DEF HoldIInv, SharesKept, RequestGeneration
  <2> QED  BY <2>1, <2>2
<1>8. HoldersCounted'
  <2> SUFFICES ASSUME NEW q \in Requests, RequestGeneration(q)' # 0,
                      held'[SessionOf[q]].generation = RequestGeneration(q)'
               PROVE  held'[SessionOf[q]].holders = One(RequestShare(q))' + One(WorkerShare(q))'
    BY DEF HoldersCounted
  <2>1. CASE q = r
    <3>1. One(RequestShare(q))' = 1
      BY <1>3, <2>1 DEF One, RequestShare
    <3>2. One(WorkerShare(q))' = 0
      BY <1>4, <1>5, <2>1 DEF One, WorkerShare, HoldIInv, SharesKept
    <3> QED  BY <1>3, <2>1, <3>1, <3>2
  <2>2. CASE q # r
    <3>1. /\ RequestGeneration(q)' = RequestGeneration(q)
          /\ One(RequestShare(q))' = One(RequestShare(q)) /\ One(WorkerShare(q))' = One(WorkerShare(q))
      BY <1>4, <2>2 DEF RequestGeneration, One, RequestShare, WorkerShare
    <3>2. SessionOf[q] \in Sessions \ {s}
      BY <1>2, <1>3, <1>6, <3>1, SessionOfAssumption DEF g
    <3>3. held'[SessionOf[q]] = held[SessionOf[q]]
      BY <1>3, <3>2
    <3> QED  BY <3>1, <3>3 DEF HoldIInv, HoldersCounted
  <2> QED  BY <2>1, <2>2
<1>9. NotTakenOver'
  <2> SUFFICES ASSUME NEW q \in Requests, worker[q] \in Sharing, SessionOf[q] \notin spoiled'
               PROVE  held'[SessionOf[q]].generation = lease'[WorkerShare(q)].generation
    BY <1>1 DEF NotTakenOver, WorkerGeneration, WorkerShare
  <2>1. /\ held[SessionOf[q]].generation = WorkerGeneration(q) /\ WorkerGeneration(q) # 0
    BY <1>1 DEF HoldIInv, NotTakenOver, IInv, Staged
  <2>2. SessionOf[q] \in Sessions \ {s}
    BY <1>1, <2>1, SessionOfAssumption DEF Locks!NotHeld
  <2>3. held'[SessionOf[q]] = held[SessionOf[q]]
    BY <1>3, <2>2
  <2> QED  BY <1>4, <2>1, <2>3 DEF WorkerGeneration
<1> QED  BY <1>7, <1>8, <1>9 DEF HoldIInv

(* The worker is one more holder of what its request holds. *)
LEMMA HoldStart ==
  ASSUME IInv, HoldIInv, NEW r \in Requests, Start(r)
  PROVE  HoldIInv'
<1> DEFINE s == SessionOf[r]
           l == WorkerShare(r)
<1>1. /\ s \in Sessions /\ l \in Shares /\ request[r] = "leased" /\ worker[r] = "none"
      /\ worker' = [worker EXCEPT ![r] = "loading"] /\ lease[l].released
      /\ held' = [held EXCEPT ![s].holders = @ + 1]
      /\ lease' = [lease EXCEPT ![l] = [key |-> s, generation |-> held[s].generation, released |-> FALSE]]
      /\ UNCHANGED spoiled
  BY SessionOfAssumption, SharesApart
  DEF Start, RequestStep, WorkerStep, Locks!Share, Locks!FreeName, ghosts
<1>2. /\ lease \in [Shares -> Locks!LeaseObject] /\ held \in [Sessions -> Locks!HeldEntry]
      /\ worker \in [Requests -> Threads]
  BY DEF IInv, Typed
<1>3. /\ lease'[l].key = s /\ lease'[l].generation = held[s].generation /\ ~lease'[l].released
      /\ \A m \in Shares \ {l} : lease'[m] = lease[m]
      /\ held'[s].holders = held[s].holders + 1
      /\ \A x \in Sessions : held'[x].generation = held[x].generation
      /\ \A x \in Sessions \ {s} : held'[x] = held[x]
  <2>1. held[s] \in Locks!HeldEntry
    BY <1>1, <1>2
  <2>2. held'[s] = [held[s] EXCEPT !.holders = @ + 1]
    BY <1>1, <1>2
  <2>3. held'[s].holders = held[s].holders + 1 /\ held'[s].generation = held[s].generation
    BY <2>1, <2>2 DEF Locks!HeldEntry
  <2>4. \A x \in Sessions \ {s} : held'[x] = held[x]
    BY <1>1, <1>2
  <2>5. /\ lease'[l].key = s /\ lease'[l].generation = held[s].generation /\ ~lease'[l].released
        /\ \A m \in Shares \ {l} : lease'[m] = lease[m]
    BY <1>1, <1>2
  <2> QED  BY <2>3, <2>4, <2>5
<1>4. /\ \A q \in Requests : lease'[RequestShare(q)] = lease[RequestShare(q)]
      /\ \A q \in Requests \ {r} : lease'[WorkerShare(q)] = lease[WorkerShare(q)]
  BY <1>3, SharesApart
<1>5. worker'[r] \in Sharing /\ \A q \in Requests \ {r} : worker'[q] = worker[q]
  BY <1>1, <1>2 DEF Sharing, Answering
<1>6. RequestGeneration(r) # 0 /\ held[s].generation = RequestGeneration(r)
  BY <1>1 DEF IInv, Holding
<1>7. \A q \in Requests \ {r} : RequestGeneration(q) = RequestGeneration(r) => RequestGeneration(q) = 0
  BY DEF IInv, Stamped
<1> HIDE DEF s, l
<1>8. SharesKept'
  <2> SUFFICES ASSUME NEW q \in Requests
               PROVE  /\ ~lease'[RequestShare(q)].released =>
                           lease'[RequestShare(q)].key = SessionOf[q] /\ lease'[RequestShare(q)].generation # 0
                      /\ ~lease'[WorkerShare(q)].released => lease'[WorkerShare(q)].key = SessionOf[q]
                      /\ worker'[q] \notin Sharing => lease'[WorkerShare(q)].released
    BY DEF SharesKept, RequestGeneration, RequestShare, WorkerShare
  <2>1. CASE q = r
    BY <1>3, <1>4, <1>5, <2>1 DEF HoldIInv, SharesKept, s, l, RequestGeneration
  <2>2. CASE q # r
    BY <1>4, <1>5, <2>2 DEF HoldIInv, SharesKept, RequestGeneration
  <2> QED  BY <2>1, <2>2
<1>9. HoldersCounted'
  <2> SUFFICES ASSUME NEW q \in Requests, RequestGeneration(q)' # 0,
                      held'[SessionOf[q]].generation = RequestGeneration(q)'
               PROVE  held'[SessionOf[q]].holders = One(RequestShare(q))' + One(WorkerShare(q))'
    BY DEF HoldersCounted
  <2>0. /\ RequestGeneration(q)' = RequestGeneration(q) /\ One(RequestShare(q))' = One(RequestShare(q))
        /\ held[SessionOf[q]].generation = RequestGeneration(q) /\ RequestGeneration(q) # 0
    BY <1>3, <1>4, SessionOfAssumption DEF RequestGeneration, One, RequestShare
  <2>1. CASE q = r
    <3>1. One(WorkerShare(r))' = 1 /\ One(WorkerShare(r)) = 0
      BY <1>1, <1>3 DEF One, WorkerShare, l
    <3>2. held[s].holders = One(RequestShare(r)) + One(WorkerShare(r))
      BY <1>6 DEF HoldIInv, HoldersCounted, s
    <3>3. One(RequestShare(r)) \in Nat
      BY DEF One
    <3> QED  BY <1>3, <2>0, <2>1, <3>1, <3>2, <3>3 DEF s
  <2>2. CASE q # r
    <3>1. One(WorkerShare(q))' = One(WorkerShare(q))
      BY <1>4, <2>2 DEF One, WorkerShare
    <3>2. SessionOf[q] # s
      BY <1>6, <1>7, <2>0, <2>2
    <3>3. held'[SessionOf[q]] = held[SessionOf[q]]
      BY <1>3, <3>2, SessionOfAssumption
    <3> QED  BY <2>0, <3>1, <3>3 DEF HoldIInv, HoldersCounted
  <2> QED  BY <2>1, <2>2
<1>10. NotTakenOver'
  <2> SUFFICES ASSUME NEW q \in Requests, worker'[q] \in Sharing, SessionOf[q] \notin spoiled
               PROVE  held[SessionOf[q]].generation = lease'[WorkerShare(q)].generation
    BY <1>1, <1>3, SessionOfAssumption DEF NotTakenOver, WorkerGeneration, WorkerShare
  <2>1. CASE q = r
    BY <1>3, <2>1 DEF s, l
  <2>2. CASE q # r
    BY <1>4, <1>5, <2>2 DEF HoldIInv, NotTakenOver, WorkerGeneration
  <2> QED  BY <2>1, <2>2
<1> QED  BY <1>8, <1>9, <1>10 DEF HoldIInv

(* A share is given back. The hold goes with the last one only. *)
LEMMA HoldRelease ==
  ASSUME IInv, HoldIInv, NEW r \in Requests, NEW l \in {RequestShare(r), WorkerShare(r)},
         Locks!Release(l), UNCHANGED spoiled,
         \A q \in Requests : worker'[q] \in Sharing => worker[q] \in Sharing,
         \A q \in Requests : worker'[q] \notin Sharing => worker[q] \notin Sharing \/ l = WorkerShare(q),
         l = WorkerShare(r) => worker[r] \in Sharing /\ worker'[r] \notin Sharing
  PROVE  HoldIInv'
<1> DEFINE s == SessionOf[r]
           g == RequestGeneration(r)
<1>0. s \in Sessions /\ l \in Shares
  BY SessionOfAssumption, SharesApart
<1>1. /\ ~lease[l].released
      /\ lease' = [lease EXCEPT ![l].released = TRUE]
      /\ held' = [held EXCEPT ![lease[l].key] = Locks!EntryAfterRelease(l)]
  BY DEF Locks!Release
<1>2. lease[l].key = s
  BY <1>1 DEF HoldIInv, SharesKept
<1>3. lease[l].generation = g /\ g # 0
  <2>1. CASE l = RequestShare(r)
    BY <1>1, <2>1 DEF HoldIInv, SharesKept, RequestGeneration
  <2>2. CASE l = WorkerShare(r)
    BY <2>2 DEF IInv, Staged, Stamped, WorkerGeneration
  <2> QED  BY <2>1, <2>2
<1>4. /\ lease \in [Shares -> Locks!LeaseObject] /\ held \in [Sessions -> Locks!HeldEntry]
  BY DEF IInv, Typed
<1> HIDE DEF g, s
<1>5. /\ lease'[l].released
      /\ \A m \in Shares : lease'[m].key = lease[m].key /\ lease'[m].generation = lease[m].generation
      /\ \A m \in Shares \ {l} : lease'[m].released = lease[m].released
  BY <1>0, <1>1, <1>4 DEF Locks!LeaseObject
<1>6. \A q \in Requests :
        /\ RequestGeneration(q)' = RequestGeneration(q) /\ WorkerGeneration(q)' = WorkerGeneration(q)
        /\ l # RequestShare(q) => One(RequestShare(q))' = One(RequestShare(q))
        /\ l # WorkerShare(q) => One(WorkerShare(q))' = One(WorkerShare(q))
  BY <1>5, SharesApart DEF RequestGeneration, WorkerGeneration, One, RequestShare, WorkerShare
<1>7. \A q \in Requests : RequestGeneration(q) = g /\ q # r => FALSE
  BY <1>3 DEF IInv, Stamped, g
<1>8. /\ \A x \in Sessions \ {s} : held'[x] = held[x]
      /\ held'[s] = Locks!EntryAfterRelease(l)
  BY <1>0, <1>1, <1>2, <1>4
<1>10. held[s].generation = g =>
         /\ held[s].holders = One(RequestShare(r)) + One(WorkerShare(r))
         /\ IF held[s].holders <= 1 THEN held'[s].generation = 0
            ELSE held'[s].generation = g /\ held'[s].holders = held[s].holders - 1
  <2> SUFFICES ASSUME held[s].generation = g
               PROVE  /\ held[s].holders = One(RequestShare(r)) + One(WorkerShare(r))
                      /\ IF held[s].holders <= 1 THEN held'[s].generation = 0
                         ELSE held'[s].generation = g /\ held'[s].holders = held[s].holders - 1
    OBVIOUS
  <2>1. held[s].holders = One(RequestShare(r)) + One(WorkerShare(r))
    BY <1>3 DEF HoldIInv, HoldersCounted, g, s
  <2>2. held[s] # Locks!NotHeld
    BY <1>3 DEF Locks!NotHeld
  <2>3. held'[s] = IF held[s].holders <= 1 THEN Locks!NotHeld ELSE [held[s] EXCEPT !.holders = @ - 1]
    BY <1>2, <1>3, <1>8, <2>2 DEF Locks!EntryAfterRelease
  <2>4. held[s] \in Locks!HeldEntry
    BY <1>0, <1>4
  <2>5. IF held[s].holders <= 1 THEN held'[s].generation = 0
        ELSE held'[s].generation = g /\ held'[s].holders = held[s].holders - 1
    BY <2>3, <2>4 DEF Locks!NotHeld, Locks!HeldEntry
  <2> QED  BY <2>1, <2>5
<1>11. held[s].generation # g => held'[s] = held[s]
  BY <1>2, <1>3, <1>8 DEF Locks!EntryAfterRelease
<1>12. SharesKept'
  <2> SUFFICES ASSUME NEW q \in Requests
               PROVE  /\ ~lease'[RequestShare(q)].released =>
                           lease'[RequestShare(q)].key = SessionOf[q] /\ lease'[RequestShare(q)].generation # 0
                      /\ ~lease'[WorkerShare(q)].released => lease'[WorkerShare(q)].key = SessionOf[q]
                      /\ worker'[q] \notin Sharing => lease'[WorkerShare(q)].released
    BY DEF SharesKept, RequestGeneration, RequestShare, WorkerShare
  <2>0. RequestShare(q) \in Shares /\ WorkerShare(q) \in Shares
    BY SharesApart
  <2>1. \A m \in Shares : ~lease'[m].released => ~lease[m].released
    BY <1>5
  <2>2. ~lease'[RequestShare(q)].released =>
           lease'[RequestShare(q)].key = SessionOf[q] /\ lease'[RequestShare(q)].generation # 0
    BY <1>5, <2>0, <2>1 DEF HoldIInv, SharesKept, RequestGeneration
  <2>3. ~lease'[WorkerShare(q)].released => lease'[WorkerShare(q)].key = SessionOf[q]
    BY <1>5, <2>0, <2>1 DEF HoldIInv, SharesKept
  <2>4. worker'[q] \notin Sharing => lease'[WorkerShare(q)].released
    BY <1>5, <2>0, <2>1 DEF HoldIInv, SharesKept
  <2> QED  BY <2>2, <2>3, <2>4
<1>13. One(l) = 1 /\ One(l)' = 0 /\ \A m \in Shares : One(m) \in {0, 1} /\ One(m)' \in {0, 1}
  BY <1>1, <1>5 DEF One
<1>14. HoldersCounted'
  <2> SUFFICES ASSUME NEW q \in Requests, RequestGeneration(q) # 0,
                      held'[SessionOf[q]].generation = RequestGeneration(q)
               PROVE  held'[SessionOf[q]].holders = One(RequestShare(q))' + One(WorkerShare(q))'
    BY <1>6 DEF HoldersCounted
  <2>1. CASE q = r
    <3>1. held'[s].generation = g
      BY <2>1 DEF g, s
    <3>2. held[s].generation = g /\ ~(held[s].holders <= 1)
      BY <1>3, <1>10, <1>11, <3>1
    <3>3. /\ held[s].holders = One(RequestShare(r)) + One(WorkerShare(r))
          /\ held'[s].holders = held[s].holders - 1
      BY <1>10, <3>2
    <3>4. CASE l = RequestShare(r)
      <4>1. One(WorkerShare(r))' = One(WorkerShare(r)) /\ One(WorkerShare(r)) \in {0, 1}
        BY <1>6, <1>13, <3>4, SharesApart
      <4>2. One(RequestShare(r)) = 1 /\ One(RequestShare(r))' = 0
        BY <1>5, <1>13, <3>4 DEF One, RequestShare
      <4> QED  BY <2>1, <3>3, <4>1, <4>2 DEF s
    <3>5. CASE l = WorkerShare(r)
      <4>1. One(RequestShare(r))' = One(RequestShare(r)) /\ One(RequestShare(r)) \in {0, 1}
        BY <1>6, <1>13, <3>5, SharesApart
      <4>2. One(WorkerShare(r)) = 1 /\ One(WorkerShare(r))' = 0
        BY <1>5, <1>13, <3>5 DEF One, WorkerShare
      <4> QED  BY <2>1, <3>3, <4>1, <4>2 DEF s
    <3> QED  BY <3>4, <3>5
  <2>2. CASE q # r
    <3>1. One(RequestShare(q))' = One(RequestShare(q)) /\ One(WorkerShare(q))' = One(WorkerShare(q))
      BY <1>6, <2>2, SharesApart
    <3>2. SessionOf[q] = s => held'[s] = held[s]
      BY <1>7, <1>10, <1>11, <2>2
    <3>3. held'[SessionOf[q]] = held[SessionOf[q]]
      BY <1>8, <3>2, SessionOfAssumption
    <3> QED  BY <3>1, <3>3 DEF HoldIInv, HoldersCounted
  <2> QED  BY <2>1, <2>2
<1>15. NotTakenOver'
  <2> SUFFICES ASSUME NEW q \in Requests, worker'[q] \in Sharing, SessionOf[q] \notin spoiled
               PROVE  held'[SessionOf[q]].generation = WorkerGeneration(q)
    BY <1>6 DEF NotTakenOver
  <2>1. /\ held[SessionOf[q]].generation = WorkerGeneration(q) /\ WorkerGeneration(q) # 0
        /\ ~lease[WorkerShare(q)].released /\ WorkerGeneration(q) = RequestGeneration(q)
    BY DEF HoldIInv, NotTakenOver, IInv, Staged, Stamped
  <2>2. CASE q = r
    <3>1. l = RequestShare(r)
      BY <2>2
    <3>2. One(RequestShare(r)) = 1 /\ One(WorkerShare(r)) = 1
      BY <1>13, <2>1, <2>2, <3>1 DEF One
    <3>3. held[s].generation = g
      BY <2>1, <2>2 DEF s, g
    <3>4. held'[s].generation = g
      BY <1>10, <3>2, <3>3
    <3> QED  BY <2>1, <2>2, <3>4 DEF s, g
  <2>3. CASE q # r
    <3>1. SessionOf[q] = s => held'[s] = held[s]
      BY <1>7, <1>11, <2>1, <2>3
    <3>2. held'[SessionOf[q]] = held[SessionOf[q]]
      BY <1>8, <3>1, SessionOfAssumption
    <3> QED  BY <2>1, <3>2
  <2> QED  BY <2>2, <2>3
<1> QED  BY <1>12, <1>14, <1>15 DEF HoldIInv

LEMMA HoldStep ==
  ASSUME IInv, HoldIInv, [Next]_vars
  PROVE  HoldIInv'
<1> USE DEF registry, ghosts
<1>1. ASSUME NEW r \in Requests, LeaveBeforeStart(r) \/ EndSession(r) PROVE HoldIInv'
  <2>1. Locks!Release(RequestShare(r)) /\ UNCHANGED <<spoiled, worker>>
    BY <1>1 DEF LeaveBeforeStart, EndSession
  <2> QED  BY <2>1, SharesApart, HoldRelease
<1>2. ASSUME NEW r \in Requests, StopWorker(r) PROVE HoldIInv'
  <2>1. /\ Locks!Release(WorkerShare(r)) /\ UNCHANGED spoiled
        /\ worker[r] = "finishing" /\ worker' = [worker EXCEPT ![r] = "stopped"]
    BY <1>2 DEF StopWorker, WorkerStep
  <2>2. /\ worker[r] \in Sharing /\ worker'[r] \notin Sharing
        /\ \A q \in Requests \ {r} : worker'[q] = worker[q]
    BY <2>1 DEF IInv, Typed, Sharing, Answering, Writing
  <2> QED  BY <2>1, <2>2, HoldRelease
<1>3. ASSUME NEW r \in Requests,
             \/ StartSummary(r) \/ RefuseInput(r) \/ Deliver(r) \/ DeliverLast(r) \/ TimeOut(r)
             \/ Disconnect(r) \/ SetCancelled(r)
      PROVE  HoldIInv'
  <2>1. /\ UNCHANGED <<held, lease, spoiled>>
        /\ \/ UNCHANGED worker
           \/ worker[r] = "none" /\ worker' = [worker EXCEPT ![r] = "summarizing"]
    BY <1>3 DEF StartSummary, RefuseInput, Deliver, DeliverLast, TimeOut, Disconnect, EndLoop,
                SetCancelled, WorkerStep
  <2>2. \A q \in Requests : worker'[q] \in Sharing <=> worker[q] \in Sharing
    BY <2>1 DEF IInv, Typed, Sharing, Answering, Writing
  <2> QED  BY <2>1, <2>2, HoldQuiet
<1>4. ASSUME NEW r \in Requests,
             \/ LoadContext(r) \/ Produce(r) \/ FinishAnswer(r) \/ DecideToSave(r)
             \/ ReadTurns(r) \/ WriteTurns(r) \/ Fail(r) \/ EmitDone(r)
             \/ Summarize(r) \/ EndSummary(r)
      PROVE  HoldIInv'
  <2>1. /\ UNCHANGED <<held, lease>> /\ spoiled \subseteq spoiled'
        /\ \/ UNCHANGED worker
           \/ /\ worker[r] \in Sharing
              /\ \E to \in Sharing : worker' = [worker EXCEPT ![r] = to]
           \/ worker[r] = "summarizing" /\ worker' = [worker EXCEPT ![r] = "stopped"]
    BY <1>4 DEF LoadContext, Produce, FinishAnswer, DecideToSave, ReadTurns, WriteTurns, Fail,
                EmitDone, Summarize, EndSummary, WorkerStep, Sharing, Answering, Writing
  <2>2. \A q \in Requests : worker'[q] \in Sharing <=> worker[q] \in Sharing
    BY <2>1 DEF IInv, Typed, Sharing, Answering, Writing
  <2> QED  BY <2>1, <2>2, HoldQuiet
<1>5. CASE \/ Tick \/ UNCHANGED vars \/ \E s \in Sessions : ClearSession(s)
  <2>1. UNCHANGED <<held, lease, worker>> /\ spoiled \subseteq spoiled'
    BY <1>5 DEF Tick, Locks!Tick, Locks!lockVars, vars, ClearSession
  <2> QED  BY <2>1, HoldQuiet
<1>6. ASSUME NEW r \in Requests, RequestNext(r) \/ WorkerNext(r) PROVE HoldIInv'
  BY <1>1, <1>2, <1>3, <1>4, <1>6, HoldBegin, HoldStart DEF RequestNext, WorkerNext
<1> QED  BY <1>5, <1>6 DEF Next

(* Hence one worker at a time on a session nobody took over. *)
LEMMA OneSharing ==
  ASSUME IInv, HoldIInv, NEW r \in Requests, NEW q \in Requests,
         worker[r] \in Sharing, worker[q] \in Sharing,
         SessionOf[r] = SessionOf[q], SessionOf[r] \notin spoiled
  PROVE  r = q
<1>1. /\ WorkerGeneration(r) = WorkerGeneration(q) /\ WorkerGeneration(r) # 0
  BY DEF IInv, Staged, HoldIInv, NotTakenOver
<1> QED  BY <1>1 DEF IInv, Stamped

-----------------------------------------------------------------------------
(* Who is to free a session. A share not given back is that of a request   *)
(* on its way or of a worker that has one; whatever holds a session is     *)
(* some request's hold and counts a share not given back.                  *)
OnItsWay == {"leased", "streaming", "closing"}

HeldIInv ==
  /\ \A r \in Requests : ~lease[RequestShare(r)].released => request[r] \in OnItsWay
  /\ \A s \in Sessions : held[s] # Locks!NotHeld =>
       /\ held[s].holders >= 1
       /\ \E r \in On(s) : RequestGeneration(r) # 0 /\ RequestGeneration(r) = held[s].generation

LEMMA HeldQuiet ==
  ASSUME HeldIInv, UNCHANGED <<held, lease>>,
         \A q \in Requests : request[q] \in OnItsWay => request'[q] \in OnItsWay
  PROVE  HeldIInv'
<1>1. \A q \in Requests : /\ RequestGeneration(q)' = RequestGeneration(q)
                          /\ lease'[RequestShare(q)] = lease[RequestShare(q)]
  BY DEF RequestGeneration
<1>2. \A s : On(s)' = On(s) /\ On(s) \subseteq Requests
  BY DEF On
<1> QED  BY <1>1, <1>2 DEF HeldIInv, OnItsWay, On, RequestShare, RequestGeneration

LEMMA HeldBegin ==
  ASSUME IInv, HeldIInv, NEW r \in Requests, Begin(r)
  PROVE  HeldIInv'
<1> DEFINE s == SessionOf[r]
           g == generations + 1
<1>1. /\ s \in Sessions /\ r \in On(s) /\ RequestShare(r) \in Shares
      /\ request' = [request EXCEPT ![r] = "leased"] /\ request[r] = "idle"
      /\ held' = [held EXCEPT ![s] = [generation |-> g, holders |-> 1, since |-> clock]]
      /\ lease' = [lease EXCEPT ![RequestShare(r)] = [key |-> s, generation |-> g, released |-> FALSE]]
  BY SessionOfAssumption, SharesApart DEF On, Begin, RequestStep, Locks!TryAcquire
<1>2. /\ lease \in [Shares -> Locks!LeaseObject] /\ held \in [Sessions -> Locks!HeldEntry]
      /\ request \in [Requests -> Places] /\ g # 0
  BY DEF IInv, Typed
<1> HIDE DEF s, g
<1>3. /\ held'[s].generation = g /\ held'[s].holders = 1
      /\ \A x \in Sessions \ {s} : held'[x] = held[x]
  BY <1>1, <1>2
<1>4. /\ lease'[RequestShare(r)].generation = g
      /\ \A q \in Requests \ {r} : lease'[RequestShare(q)] = lease[RequestShare(q)]
  BY <1>1, <1>2, SharesApart
<1>5. request'[r] = "leased" /\ \A q \in Requests \ {r} : request'[q] = request[q]
  BY <1>1, <1>2
<1>6. ASSUME NEW q \in Requests, ~lease'[RequestShare(q)].released PROVE request'[q] \in OnItsWay
  BY <1>4, <1>5, <1>6 DEF HeldIInv, OnItsWay
<1>7. RequestGeneration(r) = 0
  BY <1>1 DEF IInv, Staged
<1>8. ASSUME NEW x \in Sessions, held'[x] # Locks!NotHeld
      PROVE  /\ held'[x].holders >= 1
             /\ \E q \in On(x) : /\ lease'[RequestShare(q)].generation # 0
                                 /\ lease'[RequestShare(q)].generation = held'[x].generation
  <2>1. CASE x = s
    BY <1>1, <1>2, <1>3, <1>4, <2>1
  <2>2. CASE x # s
    <3>1. held'[x] = held[x]
      BY <1>3, <2>2
    <3>2. PICK q \in On(x) : RequestGeneration(q) # 0 /\ RequestGeneration(q) = held[x].generation
      BY <1>8, <3>1 DEF HeldIInv
    <3>3. q \in Requests \ {r}
      BY <1>7, <3>2 DEF On
    <3> QED  BY <1>4, <1>8, <3>1, <3>2, <3>3 DEF HeldIInv, RequestGeneration
  <2> QED  BY <2>1, <2>2
<1> QED  BY <1>6, <1>8 DEF HeldIInv, OnItsWay, On, RequestGeneration, RequestShare

LEMMA HeldStart ==
  ASSUME IInv, HeldIInv, NEW r \in Requests, Start(r)
  PROVE  HeldIInv'
<1> DEFINE s == SessionOf[r]
<1>1. /\ s \in Sessions /\ request' = [request EXCEPT ![r] = "streaming"]
      /\ held' = [held EXCEPT ![s].holders = @ + 1]
      /\ lease' = [lease EXCEPT ![WorkerShare(r)] =
                     [key |-> s, generation |-> held[s].generation, released |-> FALSE]]
      /\ held[s] # Locks!NotHeld
  BY SessionOfAssumption DEF Start, RequestStep, Locks!Share
<1>2. /\ lease \in [Shares -> Locks!LeaseObject] /\ held \in [Sessions -> Locks!HeldEntry]
      /\ request \in [Requests -> Places]
  BY DEF IInv, Typed
<1> HIDE DEF s
<1>3. \A q \in Requests : lease'[RequestShare(q)] = lease[RequestShare(q)]
  BY <1>1, <1>2, SharesApart
<1>4. /\ \A x \in Sessions \ {s} : held'[x] = held[x]
      /\ held'[s].generation = held[s].generation /\ held'[s].holders = held[s].holders + 1
      /\ held[s].holders \in Nat
  BY <1>1, <1>2 DEF Locks!HeldEntry
<1>5. ASSUME NEW q \in Requests, ~lease'[RequestShare(q)].released PROVE request'[q] \in OnItsWay
  BY <1>1, <1>2, <1>3, <1>5 DEF HeldIInv, OnItsWay
<1>6. ASSUME NEW x \in Sessions, held'[x] # Locks!NotHeld
      PROVE  /\ held'[x].holders >= 1
             /\ \E q \in On(x) : /\ lease'[RequestShare(q)].generation # 0
                                 /\ lease'[RequestShare(q)].generation = held'[x].generation
  <2>1. held[x] # Locks!NotHeld /\ held'[x].generation = held[x].generation
    BY <1>1, <1>4, <1>6
  <2>2. held'[x].holders >= 1
    BY <1>4, <2>1 DEF HeldIInv
  <2>3. PICK q \in On(x) : RequestGeneration(q) # 0 /\ RequestGeneration(q) = held[x].generation
    BY <2>1 DEF HeldIInv
  <2> QED  BY <1>3, <2>1, <2>2, <2>3 DEF On, RequestGeneration
<1> QED  BY <1>5, <1>6 DEF HeldIInv, OnItsWay, On, RequestGeneration, RequestShare

LEMMA HeldRelease ==
  ASSUME IInv, HoldIInv, HeldIInv, NEW r \in Requests,
         NEW l \in {RequestShare(r), WorkerShare(r)}, Locks!Release(l),
         l = WorkerShare(r) => worker[r] \in Sharing,
         \A q \in Requests : request[q] \in OnItsWay =>
           request'[q] \in OnItsWay \/ l = RequestShare(q)
  PROVE  HeldIInv'
<1> DEFINE s == SessionOf[r]
<1>1. /\ s \in Sessions /\ l \in Shares /\ ~lease[l].released
      /\ lease' = [lease EXCEPT ![l].released = TRUE]
      /\ held' = [held EXCEPT ![lease[l].key] = Locks!EntryAfterRelease(l)]
  BY SessionOfAssumption, SharesApart DEF Locks!Release
<1>2. lease[l].key = s
  BY <1>1 DEF HoldIInv, SharesKept
<1>3. /\ lease \in [Shares -> Locks!LeaseObject] /\ held \in [Sessions -> Locks!HeldEntry]
  BY DEF IInv, Typed
<1> HIDE DEF s
<1>4. /\ held'[s] = Locks!EntryAfterRelease(l)
      /\ \A x \in Sessions \ {s} : held'[x] = held[x]
  BY <1>1, <1>2, <1>3
<1>5. /\ lease'[l].released
      /\ \A m \in Shares : lease'[m].generation = lease[m].generation
      /\ \A m \in Shares : ~lease'[m].released => ~lease[m].released /\ m # l
  BY <1>1, <1>3 DEF Locks!LeaseObject
<1>6. ASSUME NEW q \in Requests, ~lease'[RequestShare(q)].released PROVE request'[q] \in OnItsWay
  <2>1. ~lease[RequestShare(q)].released /\ RequestShare(q) # l
    BY <1>5, <1>6, SharesApart
  <2> QED  BY <2>1 DEF HeldIInv
<1>7. ASSUME NEW x \in Sessions, held'[x] # Locks!NotHeld
      PROVE  /\ held[x] # Locks!NotHeld /\ held'[x].generation = held[x].generation
             /\ held'[x].holders >= 1
  <2>1. CASE x # s
    BY <1>4, <1>7, <2>1 DEF HeldIInv
  <2>2. CASE x = s
    <3>1. held[s] # Locks!NotHeld
      BY <1>2, <1>4, <1>7, <2>2 DEF Locks!EntryAfterRelease
    <3>2. held[s] \in Locks!HeldEntry /\ held[s].holders >= 1
      BY <1>1, <1>3, <3>1 DEF HeldIInv
    <3>3. \/ held'[s] = held[s]
          \/ ~(held[s].holders <= 1) /\ held'[s] = [held[s] EXCEPT !.holders = @ - 1]
      BY <1>2, <1>4, <1>7, <2>2 DEF Locks!EntryAfterRelease
    <3>4. held'[s].generation = held[s].generation /\ held'[s].holders >= 1
      BY <3>2, <3>3 DEF Locks!HeldEntry
    <3> QED  BY <2>2, <3>1, <3>4
  <2> QED  BY <2>1, <2>2
<1>8. ASSUME NEW x \in Sessions, held'[x] # Locks!NotHeld
      PROVE  \E q \in On(x) : /\ lease'[RequestShare(q)].generation # 0
                              /\ lease'[RequestShare(q)].generation = held'[x].generation
  <2>1. held[x] # Locks!NotHeld /\ held'[x].generation = held[x].generation
    BY <1>7, <1>8
  <2>2. PICK q \in On(x) : RequestGeneration(q) # 0 /\ RequestGeneration(q) = held[x].generation
    BY <2>1 DEF HeldIInv
  <2>3. RequestShare(q) \in Shares
    BY SharesApart DEF On
  <2>4. lease'[RequestShare(q)].generation = RequestGeneration(q)
    BY <1>5, <2>3 DEF RequestGeneration
  <2> QED  BY <2>1, <2>2, <2>4
<1> QED  BY <1>6, <1>7, <1>8 DEF HeldIInv, OnItsWay, On, RequestGeneration, RequestShare

LEMMA HeldStep ==
  ASSUME IInv, HoldIInv, HeldIInv, [Next]_vars
  PROVE  HeldIInv'
<1> USE DEF registry, ghosts
<1>0. request \in [Requests -> Places]
  BY DEF IInv, Typed
<1>1. ASSUME NEW r \in Requests, LeaveBeforeStart(r) \/ EndSession(r) PROVE HeldIInv'
  <2>1. Locks!Release(RequestShare(r)) /\ request' = [request EXCEPT ![r] = "closed"]
    BY <1>1 DEF LeaveBeforeStart, EndSession, RequestStep
  <2>2. \A q \in Requests : request'[q] = request[q] \/ q = r
    BY <1>0, <2>1
  <2> QED  BY <2>1, <2>2, SharesApart, HeldRelease
<1>2. ASSUME NEW r \in Requests, StopWorker(r) PROVE HeldIInv'
  <2>1. Locks!Release(WorkerShare(r)) /\ worker[r] = "finishing" /\ UNCHANGED request
    BY <1>2 DEF StopWorker, WorkerStep
  <2>2. worker[r] \in Sharing
    BY <2>1 DEF Sharing
  <2> QED  BY <2>1, <2>2, HeldRelease
<1>3. ASSUME NEW r \in Requests,
             \/ StartSummary(r) \/ RefuseInput(r) \/ DeliverLast(r) \/ TimeOut(r) \/ Disconnect(r)
      PROVE  HeldIInv'
  <2>1. /\ UNCHANGED <<held, lease>>
        /\ \E to \in {"streaming", "closing"} : request' = [request EXCEPT ![r] = to]
    BY <1>3 DEF StartSummary, RefuseInput, DeliverLast, TimeOut, Disconnect, EndLoop, RequestStep
  <2>2. \A q \in Requests : request[q] \in OnItsWay => request'[q] \in OnItsWay
    BY <1>0, <2>1 DEF OnItsWay
  <2> QED  BY <2>1, <2>2, HeldQuiet
<1>4. ASSUME UNCHANGED <<held, lease, request>> PROVE HeldIInv'
  BY <1>4, HeldQuiet
<1>5. ASSUME NEW r \in Requests,
             \/ Deliver(r) \/ SetCancelled(r)
             \/ LoadContext(r) \/ Produce(r) \/ FinishAnswer(r) \/ DecideToSave(r)
             \/ ReadTurns(r) \/ WriteTurns(r) \/ Fail(r) \/ EmitDone(r)
             \/ Summarize(r) \/ EndSummary(r)
      PROVE  HeldIInv'
  BY <1>4, <1>5 DEF Deliver, SetCancelled, LoadContext, Produce, FinishAnswer, DecideToSave,
                    ReadTurns, WriteTurns, Fail, EmitDone, Summarize, EndSummary
<1>6. CASE \/ Tick \/ UNCHANGED vars \/ \E s \in Sessions : ClearSession(s)
  BY <1>4, <1>6 DEF Tick, Locks!Tick, Locks!lockVars, vars, ClearSession
<1>7. ASSUME NEW r \in Requests, RequestNext(r) \/ WorkerNext(r) PROVE HeldIInv'
  BY <1>1, <1>2, <1>3, <1>5, <1>7, HeldBegin, HeldStart DEF RequestNext, WorkerNext
<1> QED  BY <1>6, <1>7 DEF Next

(* As long as a session is busy, the request whose hold it is, or its      *)
(* worker, has still to give its share back: for any order of departures,  *)
(* timeouts, errors, thread exits and takeovers nobody leaves a session    *)
(* busy behind him (sse.py:62-83, session_locks.py:104-147,                *)
(* coding/service.py:438-484, pdf/service.py:176-229).                     *)
THEOREM BusyMeansAlive == Spec => []HeldByTheLiving
<1>1. Init => HeldIInv
  <2> SUFFICES ASSUME Init PROVE HeldIInv
    OBVIOUS
  <2>1. /\ \A s \in Sessions : held[s] = Locks!NotHeld
        /\ \A l \in Shares : lease[l] = Locks!NoLease
    BY DEF Init, Locks!Init
  <2>2. \A r \in Requests : lease[RequestShare(r)].released
    BY <2>1, SharesApart DEF Locks!NoLease
  <2> QED  BY <2>1, <2>2 DEF HeldIInv
<1>2. ASSUME IInv, HoldIInv, HeldIInv PROVE HeldByTheLiving
  <2> SUFFICES ASSUME NEW s \in Sessions, held[s] # Locks!NotHeld
               PROVE  \E r \in On(s) :
                        /\ \/ request[r] \in {"leased", "streaming", "closing"}
                           \/ worker[r] \notin {"none", "summarizing", "stopped"}
                        /\ RequestGeneration(r) = held[s].generation
    BY DEF HeldByTheLiving, RequestGeneration
  <2>1. PICK r \in On(s) : RequestGeneration(r) # 0 /\ RequestGeneration(r) = held[s].generation
    BY <1>2 DEF HeldIInv
  <2>2. r \in Requests /\ SessionOf[r] = s
    BY DEF On
  <2>3. held[s].holders = One(RequestShare(r)) + One(WorkerShare(r)) /\ held[s].holders >= 1
    BY <1>2, <2>1, <2>2 DEF HoldIInv, HoldersCounted, HeldIInv
  <2>4. ~lease[RequestShare(r)].released \/ ~lease[WorkerShare(r)].released
    BY <2>3 DEF One
  <2>5. CASE ~lease[RequestShare(r)].released
    BY <1>2, <2>1, <2>2, <2>5 DEF HeldIInv, OnItsWay
  <2>6. CASE ~lease[WorkerShare(r)].released
    <3>1. worker[r] \in Sharing
      BY <1>2, <2>2, <2>6 DEF HoldIInv, SharesKept
    <3> QED  BY <2>1, <3>1 DEF Sharing, Answering, Writing
  <2> QED  BY <2>4, <2>5, <2>6
<1> QED
  BY <1>1, <1>2, StreamBegins, StreamStep, HoldInit, HoldStep, HeldStep, PTL DEF Spec

-----------------------------------------------------------------------------
(* What is stored: what was committed, and in the middle of a save the     *)
(* question of the one request that saves.                                 *)
Base(s) == LastN(Exchanges(committed[s]), MaxHistory)
Between == {"loadAssistant", "saveAssistant"}
Asked(s, r) == Extended(Base(s), <<Turn("user", r)>>)

Stored ==
  \A s \in Sessions \ spoiled :
    \/ history[s] = Base(s) /\ \A r \in On(s) : worker[r] \notin Between
    \/ \E r \in On(s) : worker[r] \in Between /\ history[s] = Asked(s, r)

(* What a request will add to is still there. *)
SnapshotsThere ==
  \A r \in Requests :
    SessionOf[r] \notin spoiled /\ worker[r] \in {"saveUser", "saveAssistant"}
      => snapshot[r] = history[SessionOf[r]]

StoreIInv == Stored /\ SnapshotsThere

LEMMA StoreInit == Init => StoreIInv
<1> SUFFICES ASSUME Init PROVE StoreIInv
  OBVIOUS
<1>1. /\ \A s \in Sessions : history[s] = <<>> /\ committed[s] = <<>>
      /\ \A r \in Requests : worker[r] = "none"
  BY DEF Init
<1>2. LastN(Exchanges(<<>>), MaxHistory) = <<>>
  BY NothingSaved
<1> QED  BY <1>1, <1>2 DEF StoreIInv, Stored, SnapshotsThere, Base, Between, On

LEMMA StoreQuiet ==
  ASSUME StoreIInv, UNCHANGED <<history, committed, snapshot>>, spoiled \subseteq spoiled',
         \A q \in Requests :
           /\ worker'[q] \in Between <=> worker[q] \in Between
           /\ worker'[q] \in {"saveUser", "saveAssistant"} => worker[q] \in {"saveUser", "saveAssistant"}
  PROVE  StoreIInv'
<1>1. \A s : On(s)' = On(s) /\ Base(s)' = Base(s)
  BY DEF On, Base
<1>2. \A s, q : Asked(s, q)' = Asked(s, q)
  BY <1>1 DEF Asked
<1>3. Stored'
  <2> SUFFICES ASSUME NEW s \in Sessions \ spoiled'
               PROVE  \/ history'[s] = Base(s)' /\ \A r \in On(s)' : worker'[r] \notin Between
                      \/ \E r \in On(s)' : worker'[r] \in Between /\ history'[s] = Asked(s, r)'
    BY DEF Stored, Between
  <2>1. \/ history[s] = Base(s) /\ \A r \in On(s) : worker[r] \notin Between
        \/ \E r \in On(s) : worker[r] \in Between /\ history[s] = Asked(s, r)
    BY DEF StoreIInv, Stored
  <2> QED  BY <1>1, <1>2, <2>1 DEF On
<1>4. SnapshotsThere'
  BY DEF StoreIInv, SnapshotsThere
<1> QED  BY <1>3, <1>4 DEF StoreIInv

(* A write adds the question, or the answer after it, to what is there. *)
LEMMA StoreWrite ==
  ASSUME IInv, TraceIInv, HoldIInv, StoreIInv, NEW r \in Requests, WriteTurns(r)
  PROVE  StoreIInv'
<1> DEFINE s == SessionOf[r]
           t == Turn(IF worker[r] = "saveUser" THEN "user" ELSE "assistant", r)
<1>0. s \in Sessions /\ r \in On(s)
  BY SessionOfAssumption DEF On
<1>1. /\ history' = [history EXCEPT ![s] = Extended(snapshot[r], <<t>>)]
      /\ snapshot' = [snapshot EXCEPT ![r] = <<>>] /\ UNCHANGED spoiled
      /\ \/ /\ worker[r] = "saveUser" /\ worker' = [worker EXCEPT ![r] = "loadAssistant"]
            /\ UNCHANGED committed
         \/ /\ worker[r] = "saveAssistant" /\ worker' = [worker EXCEPT ![r] = "saved"]
            /\ committed' = [committed EXCEPT ![s] = Append(@, r)]
  BY DEF WriteTurns, WorkerStep
<1> HIDE DEF t
<1>2. /\ history \in [Sessions -> Seq(Turns)] /\ snapshot \in [Requests -> Seq(Turns)]
      /\ committed \in [Sessions -> Seq(Requests)] /\ worker \in [Requests -> Threads]
  BY DEF TraceIInv, HistoryTyped, IInv, Typed
<1>3. /\ history'[s] = Extended(snapshot[r], <<t>>)
      /\ \A x \in Sessions \ {s} : history'[x] = history[x] /\ committed'[x] = committed[x]
      /\ \A q \in Requests \ {r} : worker'[q] = worker[q] /\ snapshot'[q] = snapshot[q]
  BY <1>0, <1>1, <1>2
<1>4. /\ worker[r] \in Sharing /\ worker'[r] \notin {"saveUser", "saveAssistant"}
      /\ s \notin spoiled => snapshot[r] = history[s]
  BY <1>1, <1>2 DEF Sharing, Writing, StoreIInv, SnapshotsThere
<1>5. \A q \in Requests \ {r} : SessionOf[q] = s /\ s \notin spoiled => worker[q] \notin Sharing
  BY <1>4, OneSharing
<1>6. Between \subseteq Sharing /\ {"saveUser", "saveAssistant"} \subseteq Sharing
  BY DEF Sharing, Writing, Between
<1>7. SnapshotsThere'
  <2> SUFFICES ASSUME NEW q \in Requests, SessionOf[q] \notin spoiled,
                      worker'[q] \in {"saveUser", "saveAssistant"}
               PROVE  snapshot'[q] = history'[SessionOf[q]]
    BY <1>1 DEF SnapshotsThere
  <2>1. q # r
    BY <1>4
  <2>2. worker[q] \in Sharing /\ SessionOf[q] # s
    BY <1>3, <1>4, <1>5, <1>6, <2>1
  <2> QED  BY <1>3, <2>1, <2>2, SessionOfAssumption DEF StoreIInv, SnapshotsThere
<1>8. Stored'
  <2> SUFFICES ASSUME NEW x \in Sessions \ spoiled
               PROVE  \/ history'[x] = Base(x)' /\ \A q \in On(x) : worker'[q] \notin Between
                      \/ \E q \in On(x) : worker'[q] \in Between /\ history'[x] = Asked(x, q)'
    BY <1>1 DEF Stored, Between, On
  <2>1. \/ history[x] = Base(x) /\ \A q \in On(x) : worker[q] \notin Between
        \/ \E q \in On(x) : worker[q] \in Between /\ history[x] = Asked(x, q)
    BY DEF StoreIInv, Stored
  <2>2. CASE x # s
    <3>1. /\ history'[x] = history[x] /\ Base(x)' = Base(x)
          /\ \A q : Asked(x, q)' = Asked(x, q)
          /\ \A q \in On(x) : q \in Requests /\ q # r /\ worker'[q] = worker[q]
      BY <1>3, <2>2 DEF Base, Asked, On
    <3> QED  BY <2>1, <3>1
  <2>3. CASE x = s /\ worker[r] = "saveUser"
    <3>1. history[s] = Base(s)
      <4>1. worker[r] \notin Between
        BY <2>3 DEF Between
      <4>2. \A q \in On(s) : worker[q] \notin Between
        BY <1>5, <1>6, <2>3, <4>1 DEF On
      <4> QED  BY <2>1, <2>3, <4>2
    <3>2. worker'[r] = "loadAssistant" /\ Base(s)' = Base(s) /\ t = Turn("user", r)
      BY <1>1, <1>2, <2>3 DEF t, Base
    <3>3. history'[s] = Asked(s, r)'
      BY <1>3, <1>4, <2>3, <3>1, <3>2 DEF Asked
    <3> QED  BY <1>0, <2>3, <3>2, <3>3 DEF Between
  <2>4. CASE x = s /\ worker[r] = "saveAssistant"
    <3>1. history[s] = Asked(s, r)
      <4>1. worker[r] \in Between
        BY <2>4 DEF Between
      <4>2. \A q \in On(s) : worker[q] \in Between => q = r
        BY <1>5, <1>6, <2>4 DEF On
      <4> QED  BY <1>0, <2>1, <2>4, <4>1, <4>2
    <3>2. /\ worker'[r] = "saved" /\ committed'[s] = Append(committed[s], r)
          /\ t = Turn("assistant", r)
      BY <1>0, <1>1, <1>2, <2>4 DEF t
    <3>3. history'[s] = Extended(Asked(s, r), <<Turn("assistant", r)>>)
      BY <1>3, <1>4, <2>4, <3>1, <3>2
    <3>4. committed[s] \in Seq(Requests)
      BY <1>0, <1>2
    <3>5. history'[s] = LastN(Exchanges(committed'[s]), MaxHistory)
      BY <3>2, <3>3, <3>4, ExchangeSaved DEF Asked, Base
    <3>6. \A q \in On(s) : worker'[q] \notin Between
      <4>1. worker'[r] \notin Between
        BY <3>2 DEF Between
      <4> QED  BY <1>3, <1>5, <1>6, <2>4, <4>1 DEF On
    <3> QED  BY <2>4, <3>5, <3>6 DEF Base
  <2> QED  BY <1>1, <2>2, <2>3, <2>4
<1> QED  BY <1>7, <1>8 DEF StoreIInv

LEMMA StoreStep ==
  ASSUME IInv, TraceIInv, HoldIInv, StoreIInv, [Next]_vars
  PROVE  StoreIInv'
<1> USE DEF registry, ghosts
<1>1. ASSUME NEW r \in Requests, RequestNext(r) PROVE StoreIInv'
  <2>1. /\ UNCHANGED <<history, committed, snapshot>> /\ spoiled \subseteq spoiled'
        /\ \/ UNCHANGED worker
           \/ /\ worker[r] = "none"
              /\ \E to \in {"loading", "summarizing"} : worker' = [worker EXCEPT ![r] = to]
    BY <1>1 DEF RequestNext, Begin, LeaveBeforeStart, Start, StartSummary, RefuseInput, Deliver,
                DeliverLast, TimeOut, Disconnect, EndLoop, SetCancelled, EndSession, WorkerStep
  <2>2. \A q \in Requests :
          /\ worker'[q] \in Between <=> worker[q] \in Between
          /\ worker'[q] \in {"saveUser", "saveAssistant"} => worker[q] \in {"saveUser", "saveAssistant"}
    BY <2>1 DEF IInv, Typed, Between
  <2> QED  BY <2>1, <2>2, StoreQuiet
<1>2. ASSUME NEW r \in Requests,
             \/ LoadContext(r) \/ Produce(r) \/ FinishAnswer(r) \/ DecideToSave(r) \/ EmitDone(r)
             \/ StopWorker(r) \/ Summarize(r) \/ EndSummary(r)
      PROVE  StoreIInv'
  <2>1. /\ UNCHANGED <<history, committed, snapshot, spoiled>>
        /\ \/ UNCHANGED worker
           \/ /\ worker[r] \notin Writing
              /\ \E to \in {"answering", "answered", "loadUser", "finishing", "stopped"} :
                   worker' = [worker EXCEPT ![r] = to]
    BY <1>2 DEF LoadContext, Produce, FinishAnswer, DecideToSave, EmitDone, StopWorker, Summarize,
                EndSummary, WorkerStep, Writing
  <2>2. \A q \in Requests :
          /\ worker'[q] \in Between <=> worker[q] \in Between
          /\ worker'[q] \in {"saveUser", "saveAssistant"} => worker[q] \in {"saveUser", "saveAssistant"}
    BY <2>1 DEF IInv, Typed, Between, Writing
  <2> QED  BY <2>1, <2>2, StoreQuiet
<1>3. ASSUME NEW r \in Requests, ReadTurns(r) PROVE StoreIInv'
  <2>1. /\ UNCHANGED <<history, committed, spoiled>>
        /\ snapshot' = [snapshot EXCEPT ![r] = history[SessionOf[r]]]
        /\ \/ worker[r] = "loadUser" /\ worker' = [worker EXCEPT ![r] = "saveUser"]
           \/ worker[r] = "loadAssistant" /\ worker' = [worker EXCEPT ![r] = "saveAssistant"]
    BY <1>3 DEF ReadTurns, WorkerStep
  <2>2. /\ \A q \in Requests : worker'[q] \in Between <=> worker[q] \in Between
        /\ \A q \in Requests \ {r} : worker'[q] = worker[q] /\ snapshot'[q] = snapshot[q]
        /\ snapshot'[r] = history[SessionOf[r]]
    BY <2>1 DEF IInv, Typed, Between, TraceIInv, HistoryTyped
  <2>3. SnapshotsThere'
    BY <2>1, <2>2 DEF StoreIInv, SnapshotsThere
  <2>4. Stored'
    <3>1. \A s : On(s)' = On(s) /\ Base(s)' = Base(s)
      BY <2>1 DEF On, Base
    <3>2. \A s, q : Asked(s, q)' = Asked(s, q)
      BY <3>1 DEF Asked
    <3> SUFFICES ASSUME NEW s \in Sessions \ spoiled
                 PROVE  \/ history[s] = Base(s) /\ \A q \in On(s) : worker'[q] \notin Between
                        \/ \E q \in On(s) : worker'[q] \in Between /\ history[s] = Asked(s, q)
      BY <2>1, <3>1, <3>2 DEF Stored, Between
    <3>3. \/ history[s] = Base(s) /\ \A q \in On(s) : worker[q] \notin Between
          \/ \E q \in On(s) : worker[q] \in Between /\ history[s] = Asked(s, q)
      BY DEF StoreIInv, Stored
    <3> QED  BY <2>2, <3>3 DEF On
  <2> QED  BY <2>3, <2>4 DEF StoreIInv
<1>4. ASSUME NEW r \in Requests, Fail(r) PROVE StoreIInv'
  <2>1. /\ UNCHANGED <<history, committed>> /\ snapshot' = [snapshot EXCEPT ![r] = <<>>]
        /\ worker' = [worker EXCEPT ![r] = "finishing"]
        /\ spoiled' = IF worker[r] \in Between THEN spoiled \cup {SessionOf[r]} ELSE spoiled
    BY <1>4 DEF Fail, WorkerStep, Between
  <2>2. /\ \A q \in Requests \ {r} : worker'[q] = worker[q] /\ snapshot'[q] = snapshot[q]
        /\ worker'[r] \notin Between \cup {"saveUser", "saveAssistant"}
    BY <2>1 DEF IInv, Typed, Between, TraceIInv, HistoryTyped
  <2>3. /\ spoiled \subseteq spoiled'
        /\ \A q \in Requests : SessionOf[q] \notin spoiled' =>
              (worker'[q] \in Between <=> worker[q] \in Between)
    BY <2>1, <2>2
  <2>4. SnapshotsThere'
    BY <2>1, <2>2, <2>3 DEF StoreIInv, SnapshotsThere
  <2>5. Stored'
    <3>1. \A s : On(s)' = On(s) /\ Base(s)' = Base(s)
      BY <2>1 DEF On, Base
    <3>2. \A s, q : Asked(s, q)' = Asked(s, q)
      BY <3>1 DEF Asked
    <3> SUFFICES ASSUME NEW s \in Sessions \ spoiled'
                 PROVE  \/ history[s] = Base(s) /\ \A q \in On(s) : worker'[q] \notin Between
                        \/ \E q \in On(s) : worker'[q] \in Between /\ history[s] = Asked(s, q)
      BY <2>1, <3>1, <3>2 DEF Stored, Between
    <3>3. \/ history[s] = Base(s) /\ \A q \in On(s) : worker[q] \notin Between
          \/ \E q \in On(s) : worker[q] \in Between /\ history[s] = Asked(s, q)
      BY <2>3 DEF StoreIInv, Stored
    <3> QED  BY <2>3, <3>3 DEF On
  <2> QED  BY <2>4, <2>5 DEF StoreIInv
<1>5. ASSUME NEW s \in Sessions, ClearSession(s) PROVE StoreIInv'
  <2>1. /\ history' = [history EXCEPT ![s] = <<>>] /\ committed' = [committed EXCEPT ![s] = <<>>]
        /\ spoiled' = IF \E r \in On(s) : worker[r] \in Writing \ {"loadUser"}
                      THEN spoiled \cup {s} ELSE spoiled
        /\ UNCHANGED <<worker, snapshot>>
    BY <1>5 DEF ClearSession
  <2>2. /\ spoiled \subseteq spoiled'
        /\ s \notin spoiled' => \A r \in On(s) : worker[r] \notin Between \cup {"saveUser", "saveAssistant"}
    BY <2>1 DEF Between, Writing
  <2>3. /\ history'[s] = <<>> /\ committed'[s] = <<>>
        /\ \A x \in Sessions \ {s} : history'[x] = history[x] /\ committed'[x] = committed[x]
    BY <2>1 DEF TraceIInv, HistoryTyped
  <2>4. SnapshotsThere'
    <3> SUFFICES ASSUME NEW q \in Requests, SessionOf[q] \notin spoiled',
                        worker[q] \in {"saveUser", "saveAssistant"}
                 PROVE  snapshot[q] = history'[SessionOf[q]]
      BY <2>1 DEF SnapshotsThere
    <3>1. SessionOf[q] # s
      BY <2>2 DEF On
    <3> QED  BY <2>2, <2>3, <3>1, SessionOfAssumption DEF StoreIInv, SnapshotsThere
  <2>5. Stored'
    <3> SUFFICES ASSUME NEW x \in Sessions \ spoiled'
                 PROVE  \/ history'[x] = Base(x)' /\ \A q \in On(x) : worker[q] \notin Between
                        \/ \E q \in On(x) : worker[q] \in Between /\ history'[x] = Asked(x, q)'
      BY <2>1 DEF Stored, Between, On
    <3>1. CASE x = s
      <4>1. history'[s] = Base(s)'
        BY <2>3, NothingSaved DEF Base
      <4> QED  BY <2>2, <3>1, <4>1
    <3>2. CASE x # s
      <4>1. history'[x] = history[x] /\ Base(x)' = Base(x) /\ \A q : Asked(x, q)' = Asked(x, q)
        BY <2>3, <3>2 DEF Base, Asked
      <4> QED  BY <2>2, <4>1 DEF StoreIInv, Stored
    <3> QED  BY <3>1, <3>2
  <2> QED  BY <2>4, <2>5 DEF StoreIInv
<1>6. CASE Tick \/ UNCHANGED vars
  <2>1. UNCHANGED <<history, committed, snapshot, spoiled, worker>>
    BY <1>6 DEF Tick, vars
  <2> QED  BY <2>1, StoreQuiet
<1>7. ASSUME NEW r \in Requests, WorkerNext(r) PROVE StoreIInv'
  BY <1>2, <1>3, <1>4, <1>7, StoreWrite DEF WorkerNext
<1> QED  BY <1>1, <1>5, <1>6, <1>7 DEF Next

(* With nobody writing, what a session's history holds is the most recent  *)
(* saved exchanges, complete and in order, although each is saved in two   *)
(* reads and two writes by a thread that may outlive its request; unless a *)
(* write failed between the two, a DELETE came in the middle of a save, or *)
(* a lease ran out (coding/service.py:451-455, pdf/service.py:187-195,     *)
(* session_locks.py:60-147).                                               *)
THEOREM SavedInTurn == Spec => []HistoryIsCommitted
<1>1. StoreIInv => HistoryIsCommitted
  <2> SUFFICES ASSUME StoreIInv, NEW s \in Sessions, s \notin spoiled,
                      \A r \in On(s) : worker[r] \notin Writing
               PROVE  history[s] = LastN(Exchanges(committed[s]), MaxHistory)
    BY DEF HistoryIsCommitted
  <2> QED  BY DEF StoreIInv, Stored, Base, Between, Writing
<1> QED
  BY <1>1, StreamBegins, StreamStep, TraceInit, TraceStep, HoldInit, HoldStep,
     StoreInit, StoreStep, PTL DEF Spec
=============================================================================
