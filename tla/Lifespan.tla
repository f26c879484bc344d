------------------------------ MODULE Lifespan -------------------------------
(***************************************************************************)
(* The connection pool of a Postgres store (_SupabaseSessionStore and      *)
(* _SupabaseNewsStore) over the life of the process (core/lifespan.py):    *)
(* worker threads that create it on first use, startup's clean-up, and a   *)
(* shutdown that closes it. A shutdown waits for no thread: neither a save *)
(* whose request has gone, nor the news pipeline, which is shielded from   *)
(* the cancellation of the background loop and may call the store again.   *)
(* SUPABASE_DB_URL is set: without it there is no pool at all.             *)
(***************************************************************************)
EXTENDS Integers, FiniteSets

CONSTANTS
  Workers,    \* threads that call the store for requests
  Pipeline,   \* the news pipeline's thread
  MaxPools,   \* bound on the pools created
  NoPool

Threads == Workers \cup {Pipeline}
Pools == 1 .. MaxPools

ASSUME PipelineAssumption == Pipeline \notin Workers
ASSUME NoPoolAssumption == NoPool \notin Pools
ASSUME MaxPoolsAssumption == MaxPools \in Nat

VARIABLES
  process,   \* "starting", "serving", "stopping", "closing", "stopped"
  thread,    \* what each thread is doing in the store
  holds,     \* the pool a thread is opening or working with
  pool,      \* _pool
  lock,      \* who holds the store's _lock
  made,      \* how many pools were created
  open       \* those that are open, or half open

lifespan == <<process, thread, holds, pool, lock, made, open>>

LifespanInit ==
  /\ process = "starting"
  /\ thread = [t \in Threads |-> "idle"]
  /\ holds = [t \in Threads |-> NoPool]
  /\ pool = NoPool
  /\ lock = {}
  /\ made = 0
  /\ open = {}

-----------------------------------------------------------------------------
Step(t, from, to) == thread[t] = from /\ thread' = [thread EXCEPT ![t] = to]
Hold(t, p) == holds' = [holds EXCEPT ![t] = p]

(* Requests call while the process serves; one thread stands for the       *)
(* clean-up at startup too. The pipeline may call after that.              *)
Calls(t) == CASE process = "starting" -> t # Pipeline
              [] process = "serving" -> TRUE
              [] OTHER -> t = Pipeline

(* _get_pool: the pool that is there, or the lock. *)
FindPool(t) ==
  /\ Calls(t)
  /\ Step(t, "idle", IF pool # NoPool THEN "working" ELSE "locking")
  /\ Hold(t, pool)
  /\ UNCHANGED <<process, pool, lock, made, open>>

Lock(t) ==
  /\ lock = {}
  /\ Step(t, "locking", "checking")
  /\ lock' = {t}
  /\ UNCHANGED <<process, holds, pool, made, open>>

Create(t) ==
  /\ made < MaxPools
  /\ Step(t, "checking", "opening")
  /\ made' = made + 1
  /\ open' = open \cup {made'}
  /\ Hold(t, made')
  /\ UNCHANGED <<process, pool, lock>>

(* The second look, under the lock. *)
UsePublished(t) ==
  /\ pool # NoPool
  /\ Step(t, "checking", "working")
  /\ Hold(t, pool)
  /\ lock' = {}
  /\ UNCHANGED <<process, pool, made, open>>

(* Mutant: without the second look. *)
CheckUnlooked(t) == Create(t)
Check(t) == IF pool # NoPool THEN UsePublished(t) ELSE Create(t)

PublishPool(t) ==
  /\ Step(t, "opening", "working")
  /\ pool' = holds[t]
  /\ lock' = {}
  /\ UNCHANGED <<process, holds, made, open>>

GiveUp(t) == Step(t, "opening", "idle") /\ Hold(t, NoPool) /\ lock' = {}
(* open() failed: the pool is closed, and never published. *)
OpenFails(t) ==
  /\ GiveUp(t)
  /\ open' = open \ {holds[t]}
  /\ UNCHANGED <<process, pool, made>>

(* The call ends, in an error if its pool was closed under it. *)
Finish(t) ==
  /\ Step(t, "working", "idle")
  /\ Hold(t, NoPool)
  /\ UNCHANGED <<process, pool, lock, made, open>>

-----------------------------------------------------------------------------
(* Startup ends when its clean-up has, whatever became of it. *)
Start ==
  /\ process = "starting"
  /\ \A t \in Threads : thread[t] = "idle"
  /\ process' = "serving"
  /\ UNCHANGED <<thread, holds, pool, lock, made, open>>

(* The background loop is cancelled; its pipeline is not. *)
Stop ==
  /\ process = "serving"
  /\ process' = "stopping"
  /\ UNCHANGED <<thread, holds, pool, lock, made, open>>

(* close(), without the lock: nothing to do if no pool is published yet,   *)
(* otherwise the pool first and the reference after it.                    *)
Close ==
  /\ process = "stopping"
  /\ process' = IF pool = NoPool THEN "stopped" ELSE "closing"
  /\ open' = open \ {pool}
  /\ UNCHANGED <<thread, holds, pool, lock, made>>

ForgetPool ==
  /\ process = "closing"
  /\ process' = "stopped"
  /\ pool' = NoPool
  /\ UNCHANGED <<thread, holds, lock, made, open>>

LifespanNext ==
  \/ \E t \in Threads : FindPool(t) \/ Lock(t) \/ Check(t) \/ PublishPool(t)
                        \/ OpenFails(t) \/ Finish(t)
  \/ Start \/ Stop \/ Close \/ ForgetPool

LifespanSpec == LifespanInit /\ [][LifespanNext]_lifespan

-----------------------------------------------------------------------------
(* Nothing is leaked and nothing doubled: a pool that is open is the       *)
(* store's, or the one its lock holder is opening. Threads race to create  *)
(* it, fail to open it and have it closed under them; still there is never *)
(* a second pool against the database's few connections.                   *)
NoPoolLost ==
  \A p \in open : p = pool \/ \E t \in lock : thread[t] = "opening" /\ holds[t] = p
=============================================================================
