------------------------------ MODULE DbBreaker ------------------------------
(***************************************************************************)
(* DbCircuitBreaker of shared/db_health.py, the one breaker both Postgres  *)
(* stores go through: threads that wrap their database work in guard(),    *)
(* a database that goes down and comes back, and time. Each of _admit,     *)
(* _trip, _recover and _release runs under _lock, so each is one step; the *)
(* work between them is not, and any number of calls overlap.              *)
(* _retry_at is kept as the time still to wait for it.                     *)
(***************************************************************************)
EXTENDS Integers, FiniteSets

CONSTANTS
  Callers,         \* threads that use the database
  Interruptible,   \* those a BaseException may hit inside the guard
  Cooldown,        \* COOLDOWN_SECONDS, in clock units
  PoolSize         \* max_size of the connection pool

ASSUME CallerAssumption == Interruptible \subseteq Callers
ASSUME CooldownAssumption == Cooldown \in Nat \ {0}
ASSUME PoolAssumption == PoolSize \in Nat \ {0}

VARIABLES
  tripped,   \* _retry_at # 0
  wait,      \* _retry_at - clock, 0 once it has passed
  probing,   \* _probing
  call,      \* what each thread is doing
  up,        \* whether the database can be reached
  met        \* met[c]: what c's present call may have met, up, down or full

breaker == <<tripped, wait, probing>>
vars == <<breaker, call, up, met>>

-----------------------------------------------------------------------------
InFlight(c) == call[c] # "idle"
Reachable == IF up THEN "up" ELSE "down"

Init ==
  /\ tripped = FALSE
  /\ wait = 0
  /\ probing = FALSE
  /\ call = [c \in Callers |-> "idle"]
  /\ up = TRUE
  /\ met = [c \in Callers |-> {}]

(* _get_pool().connection() waits for a connection the others have. *)
Crowd == IF Cardinality({c \in Callers : InFlight(c)}) >= PoolSize THEN {"full"} ELSE {}

Enter(c, as) ==
  /\ call[c] = "idle"
  /\ call' = [call EXCEPT ![c] = as]
  /\ met' = [met EXCEPT ![c] = {Reachable} \cup Crowd]
  /\ UNCHANGED up

Leave(c) ==
  /\ call' = [call EXCEPT ![c] = "idle"]
  /\ met' = [met EXCEPT ![c] = {}]
  /\ UNCHANGED up

(* _admit with no outage known. Otherwise, and unless it becomes the       *)
(* probe, a call is refused at once and nothing changes.                   *)
Admit(c) ==
  /\ ~tripped
  /\ Enter(c, "plain")
  /\ UNCHANGED breaker

(* _admit after the cooldown: this caller tests the connection.            *)
AdmitProbe(c) ==
  /\ tripped
  /\ wait = 0
  /\ ~probing
  /\ Enter(c, "probe")
  /\ probing' = TRUE
  /\ UNCHANGED <<tripped, wait>>

(* Mutant: recovering forgets who was probing.                             *)
RecoverStillProbing ==
  tripped' = FALSE /\ wait' = 0 /\ UNCHANGED probing

(* _recover *)
Recover == tripped' = FALSE /\ wait' = 0 /\ probing' = FALSE

(* _trip *)
Trip == tripped' = TRUE /\ wait' = Cooldown /\ probing' = FALSE

(* The database answered: a result, a cancelled statement, a constraint.   *)
Answer(c) ==
  /\ "up" \in met[c]
  /\ Leave(c)
  /\ Recover

(* An OperationalError: no database, or no connection of the pool in time. *)
Fail(c) ==
  /\ met[c] \cap {"down", "full"} # {}
  /\ Leave(c)
  /\ Trip

(* Mutant: an interrupted call leaves the breaker alone.                   *)
InterruptUnreleased(c) ==
  /\ c \in Interruptible
  /\ InFlight(c)
  /\ Leave(c)
  /\ UNCHANGED breaker

(* A BaseException inside the guard: _release, no verdict.                 *)
Interrupt(c) ==
  /\ c \in Interruptible
  /\ InFlight(c)
  /\ Leave(c)
  /\ probing' = FALSE
  /\ UNCHANGED <<tripped, wait>>

(* The database goes down or comes back; calls under way meet that too.    *)
Switch ==
  /\ up' = ~up
  /\ met' = [c \in Callers |->
       IF InFlight(c) THEN met[c] \cup {IF up THEN "down" ELSE "up"} ELSE {}]
  /\ UNCHANGED <<breaker, call>>

Tick ==
  /\ wait > 0
  /\ wait' = wait - 1
  /\ UNCHANGED <<tripped, probing, call, up, met>>

Finish(c) == Answer(c) \/ Fail(c) \/ Interrupt(c)

Next ==
  \/ \E c \in Callers : Admit(c) \/ AdmitProbe(c) \/ Finish(c)
  \/ Switch
  \/ Tick

(* Requests keep coming, every database call ends (the pool's and the      *)
(* statement timeouts), time passes, and a call that could be answered     *)
(* again and again is not interrupted every time.                          *)
Fairness ==
  /\ \A c \in Callers :
       /\ WF_vars(Admit(c) \/ AdmitProbe(c))
       /\ WF_vars(Finish(c))
       /\ SF_vars(Answer(c))
  /\ WF_vars(Tick)

Spec == Init /\ [][Next]_vars
FairSpec == Spec /\ Fairness

-----------------------------------------------------------------------------
(* The breaker, its callers and what they met keep their types             *)
(* (db_health.py:37-48).                                                   *)
TypeOK ==
  /\ tripped \in BOOLEAN
  /\ wait \in 0 .. Cooldown
  /\ probing \in BOOLEAN
  /\ call \in [Callers -> {"idle", "plain", "probe"}]
  /\ up \in BOOLEAN
  /\ met \in [Callers -> SUBSET {"up", "down", "full"}]

(* _probing is set only while the breaker is tripped and some caller that  *)
(* was let through as a probe is still at work: no overlap of probes, late *)
(* calls and interruptions leaves a flag that would refuse every request   *)
(* for ever (db_health.py:71-103).                                         *)
ProbingIsJustified ==
  probing => tripped /\ \E c \in Callers : call[c] = "probe"

(* When the database is back for good, requests keep coming and no more of *)
(* them than the pool has connections for, the breaker is closed for good: *)
(* calls that failed before the return, or for want of a connection, may   *)
(* trip it again, but not for ever (db_health.py:8-13).                    *)
Uncrowded == \A c \in Callers : "full" \notin met[c]
Recovers == <>[](up /\ Uncrowded) => <>[]~tripped

(* "then lets a single request through to test the connection while the    *)
(* others keep failing fast" (db_health.py:10-11): never two probes at     *)
(* work.                                                                   *)
SingleProbe == Cardinality({c \in Callers : call[c] = "probe"}) <= 1
=============================================================================
