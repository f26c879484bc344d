------------------------------- MODULE CodingRun -------------------------------
(***************************************************************************)
(* The coding agent on the sandbox of one session: the plan, write, run    *)
(* and debug loop of CodingAgent.run (coding/service.py), the containers   *)
(* CodeExecutor starts (execution.py), the variables the runner inside     *)
(* them keeps in state.pkl and state.json (state_runner.py), and DELETE on *)
(* the session, which clears both while anything may be running. Requests  *)
(* of a session follow each other: their worker holds the session lease    *)
(* (AgentStream). A container outlives its request only if docker kill     *)
(* fails. The variables of one run are one version.                        *)
(***************************************************************************)
EXTENDS Integers, FiniteSets

CONSTANTS
  Versions,    \* names for the contents alive at one time
  Nothing,     \* no file, or nothing loaded
  Unread,      \* no attempt of the request has loaded anything yet
  Containers,  \* names for the containers alive at one time
  None,        \* no container
  MaxDebug,    \* MAX_DEBUG_ITER
  Settings     \* the settings considered, with ENABLE_AUTO_INSTALL, ENABLE_TESTS

ASSUME NameAssumption ==
  Nothing \notin Versions /\ Unread \notin Versions \cup {Nothing} /\ None \notin Containers
ASSUME LimitAssumption ==
  MaxDebug \in Nat /\ Settings \subseteq [autoInstall : BOOLEAN, tests : BOOLEAN]

VARIABLES
  settings,   \* the settings of this process
  state,      \* what state.pkl holds
  manifest,   \* what state.json describes
  container,  \* the containers, by name
  current,    \* the container the agent waits for
  agent,      \* where the agent is
  iteration,  \* debug rounds so far
  installed,  \* auto_installed is not empty
  cancelled,  \* cancel_event is set
  clearing,   \* DELETE is between its two unlinks
  first,      \* history variable: what the request's first attempt loaded
  disturbed,  \* history variable: a clear or a timeout since then, or an orphan
  late,       \* history variable: containers started after the request was cancelled
  torn        \* history variable: state and manifest may have parted

files == <<state, manifest>>
loop == <<agent, iteration, installed, cancelled>>
ghosts == <<first, disturbed, late, torn>>
vars == <<settings, files, container, current, loop, clearing, ghosts>>

-----------------------------------------------------------------------------
Contents == Versions \cup {Nothing}
Gone == [phase |-> "gone", writes |-> Nothing, keeps |-> FALSE]
Alive(k) == container[k].phase \notin {"gone", "ok", "failed"}

(* A container between its two writes. *)
Torn(k) == container[k].phase = "saveManifest"

(* A content unlike any other that is still around. *)
Fresh == CHOOSE v \in Versions :
  v \notin {state, manifest, first} \cup {container[k].writes : k \in Containers}

FreeContainers == {k \in Containers : container[k] = Gone}

Init ==
  /\ settings \in Settings
  /\ state = Nothing
  /\ manifest = Nothing
  /\ container = [k \in Containers |-> Gone]
  /\ current = None
  /\ agent = "idle"
  /\ iteration = 0
  /\ installed = FALSE
  /\ cancelled = FALSE
  /\ clearing = FALSE
  /\ first = Unread
  /\ disturbed = FALSE
  /\ late = 0
  /\ torn = FALSE

-----------------------------------------------------------------------------
(* The container: state_runner.main, for the tests the script alone. *)

ContainerStep(k, from, to) ==
  container[k].phase = from /\ container' = [container EXCEPT ![k].phase = to]

(* It exits; nobody collects the exit code of an orphan.                   *)
Exit(k, code) ==
  container' = [container EXCEPT ![k] = IF k = current THEN [Gone EXCEPT !.phase = code] ELSE Gone]

(* load_state, on a missing or unreadable file nothing. *)
Load(k) ==
  /\ ContainerStep(k, "loading", "script")
  /\ first' = IF k = current /\ container[k].keeps /\ first = Unread THEN state ELSE first
  /\ UNCHANGED <<settings, files, current, loop, clearing, disturbed, late, torn>>

(* Mutant: a script that raises has its variables saved all the same.      *)
ScriptExitsSaved(k) ==
  /\ container[k].phase = "script"
  /\ \E code \in {"ok", "failed"} : Exit(k, code)
  /\ state' = Fresh
  /\ manifest' = Fresh
  /\ UNCHANGED <<settings, current, loop, clearing, ghosts>>

(* The script runs to its end, and leaves variables to save.               *)
ScriptEnds(k) ==
  /\ container[k].keeps
  /\ ContainerStep(k, "script", "saveState")
  /\ UNCHANGED <<settings, files, current, loop, clearing, ghosts>>

(* A script not to be kept ends; any script raises or exits by itself.     *)
ScriptExits(k) ==
  /\ container[k].phase = "script"
  /\ \E code \in {"ok", "failed"} : Exit(k, code)
  /\ UNCHANGED <<settings, files, current, loop, clearing, ghosts>>

(* save_state: state.pkl is replaced ... *)
SaveState(k) ==
  /\ container[k].phase = "saveState"
  /\ state' = Fresh
  /\ container' = [container EXCEPT ![k].phase = "saveManifest", ![k].writes = Fresh]
  /\ torn' = (torn \/ clearing \/ \E l \in Containers : Torn(l))
  /\ UNCHANGED <<settings, manifest, current, loop, clearing, first, disturbed, late>>

(* ... then state.json. Both agree again unless somebody came in between.  *)
SaveManifest(k) ==
  /\ Torn(k)
  /\ manifest' = container[k].writes
  /\ Exit(k, "ok")
  /\ torn' = \/ state # container[k].writes
             \/ clearing
             \/ \E l \in Containers \ {k} : Torn(l)
  /\ UNCHANGED <<settings, state, current, loop, clearing, first, disturbed, late>>

(* A write fails; the runner says so and exits with 0 all the same.        *)
SaveFails(k) ==
  /\ container[k].phase \in {"saveState", "saveManifest"}
  /\ Exit(k, "ok")
  /\ torn' = (torn \/ Torn(k))
  /\ UNCHANGED <<settings, files, current, loop, clearing, first, disturbed, late>>

-----------------------------------------------------------------------------
(* The agent. *)

AgentStep(from, to) == agent = from /\ agent' = to

AgentOnly == UNCHANGED <<settings, files, container, current, cancelled, clearing, ghosts>>

(* A request: the manifest goes into its prompts (kept_variables_context). *)
Begin ==
  /\ AgentStep("idle", "planning")
  /\ disturbed' = \E k \in Containers : Alive(k)
  /\ UNCHANGED <<settings, files, container, current, iteration, installed,
                 cancelled, clearing, first, late, torn>>

Cancel ==
  /\ agent \notin {"idle", "over"}
  /\ ~cancelled
  /\ cancelled' = TRUE
  /\ UNCHANGED <<settings, files, container, current, agent, iteration, installed,
                 clearing, ghosts>>

(* The plan; without an answer of the model a standard plan is used. *)
Plan ==
  /\ AgentStep("planning", IF cancelled THEN "over" ELSE "writing")
  /\ UNCHANGED <<iteration, installed>> /\ AgentOnly

(* The code is written to the sandbox, or there is nothing to run: the     *)
(* model fails, no code block, no valid file, several files but no main.py.*)
WriteCode ==
  /\ \E to \in {"checking", "over"} : AgentStep("writing", to)
  /\ UNCHANGED <<iteration, installed>> /\ AgentOnly

(* Mutant: the loop does not look at the event. *)
AttemptAnyway ==
  /\ AgentStep("checking", "launching")
  /\ UNCHANGED <<iteration, installed>> /\ AgentOnly

(* The top of the loop. *)
Attempt ==
  /\ AgentStep("checking", IF cancelled THEN "over" ELSE "launching")
  /\ UNCHANGED <<iteration, installed>> /\ AgentOnly

(* executor.run, up to its wait: a container for an attempt, whose         *)
(* variables are kept, or for the tests.                                   *)
Launch ==
  /\ \/ AgentStep("launching", "executing")
     \/ AgentStep("testing", "awaitingTests")
  /\ FreeContainers # {}
  /\ current' = CHOOSE k \in FreeContainers : TRUE
  /\ container' = [container EXCEPT ![current'] =
       [phase |-> "loading", writes |-> Nothing, keeps |-> (agent = "launching")]]
  /\ late' = IF cancelled THEN late + 1 ELSE late
  /\ UNCHANGED <<settings, files, iteration, installed, cancelled, clearing, first,
                 disturbed, torn>>

(* executor_status says no: the run ends; the tests are left out.          *)
Unavailable ==
  /\ \E from \in {"launching", "testing"} : AgentStep(from, "over")
  /\ UNCHANGED <<iteration, installed>> /\ AgentOnly

(* The wait for the current container ends. *)
Resume(outcome) ==
  /\ \/ AgentStep("executing", outcome)
     \/ AgentStep("awaitingTests", "over")
  /\ current' = None
  /\ UNCHANGED <<settings, files, iteration, installed, cancelled, clearing, first, late>>

(* communicate returns; only 0 is a success. *)
Collect ==
  /\ current \in Containers
  /\ \E code \in {"ok", "failed"} : container[current].phase = code /\ Resume(code)
  /\ container' = [container EXCEPT ![current] = Gone]
  /\ UNCHANGED <<disturbed, torn>>

(* The timeout: docker kill, wherever the container is, even as it saves.  *)
TimeOut ==
  /\ current \in Containers
  /\ Resume("timedOut")
  /\ container' = [container EXCEPT ![current] = Gone]
  /\ torn' = (torn \/ Torn(current))
  /\ disturbed' = TRUE

(* ... or docker kill fails, and the container goes on. The bound: one     *)
(* name stays free for the next.                                           *)
TimeOutUnkilled ==
  /\ current \in Containers
  /\ Resume("timedOut")
  /\ Alive(current)
  /\ FreeContainers # {}
  /\ disturbed' = TRUE
  /\ UNCHANGED <<container, torn>>

(* Mutant: an installation does not count. *)
InstallAgain ==
  /\ settings.autoInstall
  /\ AgentStep("failed", "checking")
  /\ UNCHANGED <<iteration, installed>> /\ AgentOnly

(* A module is missing, the first time: install it and run the same code.  *)
Install ==
  /\ settings.autoInstall
  /\ ~installed
  /\ AgentStep("failed", "checking")
  /\ installed' = TRUE
  /\ UNCHANGED iteration /\ AgentOnly

(* Installing is switched off: the request ends. *)
MissModule ==
  /\ ~settings.autoInstall
  /\ AgentStep("failed", "over")
  /\ UNCHANGED <<iteration, installed>> /\ AgentOnly

(* Another round; an installation may have been tried and have failed.     *)
Retry ==
  /\ iteration < MaxDebug
  /\ \E from \in {"failed", "timedOut"} : AgentStep(from, "debugging")
  /\ iteration' = iteration + 1
  /\ installed' \in {installed, installed \/ (settings.autoInstall /\ agent = "failed")}
  /\ AgentOnly

GiveUp ==
  /\ iteration >= MaxDebug
  /\ \E from \in {"failed", "timedOut"} : AgentStep(from, "over")
  /\ UNCHANGED <<iteration, installed>> /\ AgentOnly

(* The model corrects the code, or fails to. *)
Debug ==
  /\ \E to \in {"checking", "over"} : AgentStep("debugging", to)
  /\ UNCHANGED <<iteration, installed>> /\ AgentOnly

(* After a success: the tests, if wanted; a review changes nothing.        *)
Finish ==
  /\ AgentStep("ok", IF settings.tests /\ ~cancelled THEN "testing" ELSE "over")
  /\ UNCHANGED <<iteration, installed>> /\ AgentOnly

(* The generator ends, and what it knew is gone. *)
End ==
  /\ AgentStep("over", "idle")
  /\ iteration' = 0
  /\ installed' = FALSE
  /\ cancelled' = FALSE
  /\ first' = Unread
  /\ disturbed' = FALSE
  /\ late' = 0
  /\ UNCHANGED <<settings, files, container, current, clearing, torn>>

-----------------------------------------------------------------------------
(* DELETE on the session, clear_kept_variables: state.pkl first, ... *)
ClearState ==
  /\ ~clearing
  /\ clearing' = TRUE
  /\ state' = Nothing
  /\ disturbed' = (agent # "idle")
  /\ torn' = (torn \/ \E k \in Containers : Torn(k))
  /\ UNCHANGED <<settings, manifest, container, current, loop, first, late>>

(* Mutant: the description stays. *)
ClearManifestNot ==
  /\ clearing
  /\ clearing' = FALSE
  /\ torn' = (state # Nothing \/ \E k \in Containers : Torn(k))
  /\ UNCHANGED <<settings, files, container, current, loop, first, disturbed, late>>

(* ... then state.json. *)
ClearManifest ==
  /\ clearing
  /\ clearing' = FALSE
  /\ manifest' = Nothing
  /\ torn' = (state # Nothing \/ \E k \in Containers : Torn(k))
  /\ UNCHANGED <<settings, state, container, current, loop, first, disturbed, late>>

(* A file vanished under the loop, or cannot be removed: it gives up.      *)
ClearStops ==
  /\ clearing
  /\ clearing' = FALSE
  /\ torn' = TRUE
  /\ UNCHANGED <<settings, files, container, current, loop, first, disturbed, late>>

ContainerNext(k) ==
  \/ Load(k) \/ ScriptEnds(k) \/ ScriptExits(k)
  \/ SaveState(k) \/ SaveManifest(k) \/ SaveFails(k)

AgentNext ==
  \/ Plan \/ WriteCode \/ Attempt \/ Launch \/ Unavailable
  \/ Collect \/ TimeOut \/ TimeOutUnkilled
  \/ Install \/ MissModule \/ Retry \/ GiveUp \/ Debug \/ Finish \/ End

Next ==
  \/ Begin \/ Cancel \/ AgentNext
  \/ \E k \in Containers : ContainerNext(k)
  \/ ClearState \/ ClearManifest \/ ClearStops

(* The worker thread runs; model calls, pip and docker have timeouts.      *)
Fairness == WF_vars(AgentNext)

Spec == Init /\ [][Next]_vars
FairSpec == Spec /\ Fairness

-----------------------------------------------------------------------------
(* "A failed run saves nothing, so every debug attempt starts from the     *)
(* same variables as the first one" (state_runner.py:13-14): unless the    *)
(* session was cleared or a container overran its timeout, which may catch *)
(* it after it has saved.                                                  *)
DebugStartsAlike ==
  [][/\ agent = "executing" /\ container[current].phase = "loading"
     /\ container'[current].phase = "script"
     /\ first # Unread /\ ~disturbed
     => state = first]_vars

(* When no container and no DELETE is between its two files, the           *)
(* description put into the prompts is that of the variables the next run  *)
(* will find. Excused until the next complete save or clear: a kill or an  *)
(* error between the two files, and a DELETE or an orphan that overlaps a  *)
(* save (state_runner.py:148-153, session_state.py:92-108).                *)
ManifestDescribesState ==
  ~clearing /\ ~torn /\ (\A k \in Containers : ~Torn(k)) => manifest = state

(* A cancelled request starts at most one more container: the one it had   *)
(* decided on (coding/service.py:313-316, 376-379).                        *)
OneMoreAfterCancel == late <= 1

(* The containers a request may still start: one for each debug round that *)
(* is left, one after an installation, one for the tests, and the one it   *)
(* is on its way to.                                                       *)
RunsLeft ==
  LET rounds == MaxDebug - iteration + (IF settings.autoInstall /\ ~installed THEN 1 ELSE 0)
      tests == IF settings.tests THEN 1 ELSE 0
  IN  IF agent \in {"planning", "writing", "checking", "launching", "debugging"}
      THEN 1 + rounds + tests
      ELSE IF agent \in {"executing", "failed", "timedOut"} THEN rounds + tests
      ELSE IF agent = "ok" THEN tests
      ELSE IF agent = "testing" THEN 1 ELSE 0

(* What a request may cost is settled when it begins: each container it    *)
(* starts uses up one of the runs left, and no failure, timeout, missing   *)
(* module or installation that failed gives it one back, so that attempts  *)
(* do not go round for ever (coding/service.py:310-343, 376-388).          *)
RunsAreBounded ==
  [][/\ current' \notin {None, current} => RunsLeft' < RunsLeft
     /\ agent # "idle" => RunsLeft' <= RunsLeft
     /\ RunsLeft \in 0 .. MaxDebug + 3]_vars

(* However attempts fail, time out, miss modules or cannot be corrected,   *)
(* every request comes to its end (coding/service.py:312-407).             *)
RequestEnds == agent # "idle" ~> agent = "idle"
=============================================================================
