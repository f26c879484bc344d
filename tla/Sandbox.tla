------------------------------- MODULE Sandbox --------------------------------
(***************************************************************************)
(* Whether generated code can run (features/coding/execution.py): Docker,  *)
(* which comes and goes with its image, the cached status of it behind     *)
(* _status_lock, the page that asks for it, with or without refresh, and   *)
(* the runs that rely on it and may meet another Docker than they were     *)
(* told of. What /health shows of it is left out.                          *)
(***************************************************************************)
EXTENDS Integers

CONSTANTS
  Checkers,      \* threads that ask: page loads, "check again" and runs
  TtlOk,         \* _TTL_AVAILABLE
  TtlDown,       \* _TTL_UNAVAILABLE
  MinProbe,      \* _MIN_PROBE_INTERVAL
  CommandLimit   \* the timeout of one docker command of a probe

ASSUME SandboxAssumption ==
  /\ {TtlOk, TtlDown, MinProbe, CommandLimit} \subseteq Nat \ {0}
  /\ MinProbe <= TtlDown /\ TtlDown <= TtlOk

Statuses == {"ok", "docker_unavailable", "image_missing"}
Could(status) == IF status = "ok" THEN "up" ELSE "down"
Oldest == TtlOk + CommandLimit   \* bound on the times below

VARIABLES
  docker,    \* what a probe would find now
  lately,    \* lately["up"], lately["down"]: how long ago code could last have
             \* run, and could last not have
  cached,    \* _status_cache: a status, or "none"
  cachedAge, \* clock - its stamp
  probing,   \* who holds _status_lock
  seen,      \* what the running probe has found
  spending,  \* how long its present docker command has been running
  checker,   \* what each thread is doing
  told       \* the status it was just answered with

sandbox == <<docker, lately, cached, cachedAge, probing, seen, spending,
             checker, told>>
environment == <<docker, lately>>
cache == <<cached, cachedAge>>
probe == <<probing, seen, spending>>

SandboxInit ==
  /\ docker \in Statuses
  /\ lately = [w \in {"up", "down"} |-> IF w = Could(docker) THEN 0 ELSE Oldest]
  /\ cached = "none" /\ cachedAge = 0
  /\ probing = {} /\ seen = "none" /\ spending = 0
  /\ checker = [c \in Checkers |-> "idle"]
  /\ told = [c \in Checkers |-> "none"]

-----------------------------------------------------------------------------
Turns(c, from, to) == checker[c] \in from /\ checker' = [checker EXCEPT ![c] = to]

(* executor_status(refresh): each thread waits for the lock. *)
AskStatus(c, how) ==
  /\ Turns(c, {"idle"}, how)
  /\ told' = [told EXCEPT ![c] = "none"]
  /\ UNCHANGED <<environment, cache, probe>>

Asking == {"loading", "refreshing", "running"}
LifeOf(how) == IF how = "refreshing" THEN MinProbe
               ELSE IF cached = "ok" THEN TtlOk ELSE TtlDown

(* Mutant: a result is trusted the same time, good or bad. *)
FreshOneTtl(how) == cachedAge < IF how = "refreshing" THEN MinProbe ELSE TtlOk
FreshEnough(how) == cachedAge < LifeOf(how)

(* What a thread does with the answer: a page shows it, a run goes on to   *)
(* its container or gives up.                                              *)
AfterAnswer(how, status) ==
  IF how = "running" /\ status = "ok" THEN "starting" ELSE "idle"

(* With the lock: an answer from the cache, *)
AnswerCached(c) ==
  /\ probing = {} /\ checker[c] \in Asking
  /\ cached # "none" /\ FreshEnough(checker[c])
  /\ Turns(c, Asking, AfterAnswer(checker[c], cached))
  /\ told' = [told EXCEPT ![c] = cached]
  /\ UNCHANGED <<environment, cache, probe>>

(* or a probe. `docker info` comes first. *)
BeginProbe(c) ==
  /\ probing = {} /\ checker[c] \in Asking
  /\ ~(cached # "none" /\ FreshEnough(checker[c]))
  /\ probing' = {c} /\ seen' = "none" /\ spending' = 0
  /\ UNCHANGED <<environment, cache, checker, told>>

(* It answers, and the image is looked for; *)
DaemonFound(c) ==
  /\ c \in probing /\ seen = "none"
  /\ docker # "docker_unavailable"
  /\ seen' = "daemon" /\ spending' = 0
  /\ UNCHANGED <<environment, cache, probing, checker, told>>

(* it does not.                                                            *)
DaemonMissing(c) ==
  /\ c \in probing /\ seen = "none"
  /\ docker = "docker_unavailable"
  /\ seen' = "docker_unavailable"
  /\ UNCHANGED <<environment, cache, probing, spending, checker, told>>

(* `docker image inspect` fails without the image, and without Docker too. *)
LookForImage(c) ==
  /\ c \in probing /\ seen = "daemon"
  /\ seen' = IF docker = "ok" THEN "ok" ELSE "image_missing"
  /\ UNCHANGED <<environment, cache, probing, spending, checker, told>>

(* The command has ended: the cache is written, the lock given back. *)
EndProbe(c) ==
  /\ c \in probing /\ seen \in Statuses
  /\ cached' = seen /\ cachedAge' = 0
  /\ probing' = {} /\ seen' = "none" /\ spending' = 0
  /\ Turns(c, Asking, AfterAnswer(checker[c], seen))
  /\ told' = [told EXCEPT ![c] = seen]
  /\ UNCHANGED environment

(* docker run: an exit code of the code, of a Docker that has gone since    *)
(* or of a container name already taken, or a timeout and a kill.          *)
RunEnds(c) ==
  /\ Turns(c, {"starting"}, "idle")
  /\ told' = [told EXCEPT ![c] = "none"]
  /\ UNCHANGED <<environment, cache, probe>>

-----------------------------------------------------------------------------
(* Docker or its image comes or goes. *)
DockerChanges(s) ==
  /\ s # docker
  /\ docker' = s
  /\ lately' = [lately EXCEPT ![Could(s)] = 0]
  /\ UNCHANGED <<cache, probe, checker, told>>

Aged(n, bound) == IF n < bound THEN n + 1 ELSE bound

(* Time passes; a docker command of a probe ends by its timeout. *)
SandboxTick ==
  /\ spending < CommandLimit
  /\ lately' = [w \in {"up", "down"} |-> IF w = Could(docker) THEN 0 ELSE Aged(lately[w], Oldest)]
  /\ cachedAge' = Aged(cachedAge, TtlOk)
  /\ spending' = IF probing = {} THEN 0 ELSE spending + 1
  /\ told' = [c \in Checkers |-> "none"]
  /\ UNCHANGED <<docker, cached, probing, seen, checker>>

SandboxNext ==
  \/ \E c \in Checkers :
       \/ \E how \in Asking : AskStatus(c, how)
       \/ AnswerCached(c) \/ BeginProbe(c) \/ DaemonFound(c) \/ DaemonMissing(c)
       \/ LookForImage(c) \/ EndProbe(c) \/ RunEnds(c)
  \/ \E s \in Statuses : DockerChanges(s)
  \/ SandboxTick

SandboxSpec == SandboxInit /\ [][SandboxNext]_sandbox

-----------------------------------------------------------------------------
(* No answer is older than it may be: whoever is told that code can run,   *)
(* or that it cannot, is told of a moment at most the time to live (for a  *)
(* refresh, the shortest interval) and one docker command ago, however     *)
(* probes, questions and queues for the lock fall (executor_status).       *)
StatusIsRecent ==
  [][\A c \in Checkers :
       told[c] = "none" /\ told'[c] # "none" =>
         lately[Could(told'[c])] < CommandLimit +
           IF checker[c] = "refreshing" THEN MinProbe
           ELSE IF told'[c] = "ok" THEN TtlOk ELSE TtlDown]_sandbox
=============================================================================
