---------------------------- MODULE CodingRunProofs ----------------------------
(***************************************************************************)
(* The coding agent and its containers, for any number of containers,      *)
(* contents and debug rounds: the description of the kept variables, the   *)
(* containers after a cancel, what a debug attempt starts from, and how    *)
(* many containers a request may still start.                              *)
(***************************************************************************)
EXTENDS CodingRun, TLAPS

(* A container is a record of its three fields, whatever they hold. *)
Shaped ==
  /\ container = [k \in Containers |-> container[k]]
  /\ \A k \in Containers : container[k] =
       [phase |-> container[k].phase, writes |-> container[k].writes, keeps |-> container[k].keeps]

LEMMA ShapedInit == Init => Shaped
<1> SUFFICES ASSUME Init PROVE Shaped
  OBVIOUS
<1>1. container = [k \in Containers |-> Gone]
  BY DEF Init
<1>2. \A k \in Containers : container[k] = Gone
  BY <1>1
<1>3. container = [k \in Containers |-> container[k]]
  BY <1>1
<1> QED  BY <1>2, <1>3 DEF Shaped, Gone

(* What one field's change, an exit and a launch make of it. *)
LEMMA PhaseChanged ==
  ASSUME Shaped, NEW k \in Containers, NEW p, container' = [container EXCEPT ![k].phase = p]
  PROVE  /\ Shaped'
         /\ \A l \in Containers : container'[l].phase = IF l = k THEN p ELSE container[l].phase
         /\ \A l \in Containers : container'[l].writes = container[l].writes
         /\ \A l \in Containers : container'[l].keeps = container[l].keeps
  BY DEF Shaped

LEMMA Replaced ==
  ASSUME Shaped, NEW k \in Containers, NEW r,
         r = [phase |-> r.phase, writes |-> r.writes, keeps |-> r.keeps],
         container' = [container EXCEPT ![k] = r]
  PROVE  /\ Shaped'
         /\ container'[k] = r
         /\ \A l \in Containers \ {k} : container'[l] = container[l]
  BY DEF Shaped

LEMMA GoneShaped == Gone = [phase |-> Gone.phase, writes |-> Gone.writes, keeps |-> Gone.keeps]
  BY DEF Gone

LEMMA Saved ==
  ASSUME Shaped, NEW k \in Containers, NEW w,
         container' = [container EXCEPT ![k].phase = "saveManifest", ![k].writes = w]
  PROVE  /\ Shaped'
         /\ container'[k].phase = "saveManifest" /\ container'[k].writes = w
         /\ \A l \in Containers \ {k} : container'[l] = container[l]
<1> DEFINE c == [phase |-> "saveManifest", writes |-> w, keeps |-> container[k].keeps]
<1>1. container'[k] = [container[k] EXCEPT !.phase = "saveManifest", !.writes = w]
  BY DEF Shaped
<1>2. container'[k] = c
  BY <1>1 DEF Shaped
<1>3. \A l \in Containers \ {k} : container'[l] = container[l]
  BY DEF Shaped
<1>4. container' = [l \in Containers |-> container'[l]]
  BY DEF Shaped
<1> QED  BY <1>2, <1>3, <1>4 DEF Shaped

LEMMA Exited ==
  ASSUME Shaped, NEW k \in Containers, NEW code \in {"ok", "failed"}, Exit(k, code)
  PROVE  /\ Shaped'
         /\ container'[k].phase = IF k = current THEN code ELSE "gone"
         /\ \A l \in Containers \ {k} : container'[l] = container[l]
  BY DEF Shaped, Exit, Gone

-----------------------------------------------------------------------------
(* Where the agent and its container are, what a cancel leaves it to do,   *)
(* and, as long as no clear, timeout or orphan of another request          *)
(* disturbed the request, whose variables the next attempt will load.      *)

AgentTyped ==
  /\ agent \in {"idle", "planning", "writing", "checking", "launching", "executing",
               "failed", "timedOut", "ok", "debugging", "testing", "awaitingTests", "over"}
  /\ current \in Containers \cup {None}
  /\ late \in {0, 1}

Waiting ==
  /\ current # None <=> agent \in {"executing", "awaitingTests"}
  /\ agent \in {"idle", "planning", "writing"} => first = Unread

LastContainer ==
  /\ ~cancelled \/ agent \in {"launching", "testing"} => late = 0
  /\ agent = "idle" => ~cancelled

OwnOnly ==
  agent # "idle" /\ ~disturbed => \A k \in Containers : Alive(k) => k = current

(* No attempt of the request has saved anything yet. *)
Unsaved ==
  \/ agent \in {"checking", "launching", "failed", "timedOut", "debugging"}
  \/ /\ agent = "executing"
     /\ container[current].phase \in {"loading", "script", "saveState", "failed"}

Alike == Unsaved /\ first # Unread /\ ~disturbed => state = first

RunIInv ==
  Shaped /\ AgentTyped /\ Waiting /\ LastContainer /\ OwnOnly /\ Alike
  /\ ManifestDescribesState

LEMMA RunIInvInit == Init => RunIInv
<1> SUFFICES ASSUME Init PROVE RunIInv
  OBVIOUS
<1>1. Shaped
  BY ShapedInit
<1>2. \A k \in Containers : container[k] = Gone
  BY DEF Init
<1> QED  BY <1>1, <1>2 DEF Init, RunIInv, AgentTyped, Waiting, LastContainer, OwnOnly, Unsaved,
            Alike, ManifestDescribesState, Gone, Alive

(* A step of a container: what it may change, and the others it leaves.    *)
LEMMA ContainerKeepsRunIInv ==
  ASSUME RunIInv, NEW k \in Containers, ContainerNext(k)
  PROVE  RunIInv'
<1>n. None \notin Containers
  BY NameAssumption
<1>s. Shaped
  BY DEF RunIInv
<1>p. ASSUME NEW p, container' = [container EXCEPT ![k].phase = p]
      PROVE  /\ Shaped'
             /\ \A l \in Containers :
                  container'[l].phase = IF l = k THEN p ELSE container[l].phase
  BY <1>p, <1>s, PhaseChanged
<1>e. ASSUME NEW code \in {"ok", "failed"}, Exit(k, code)
      PROVE  /\ Shaped'
             /\ container'[k].phase = IF k = current THEN code ELSE "gone"
             /\ \A l \in Containers \ {k} : container'[l] = container[l]
  BY <1>e, <1>s, Exited
<1>w. ASSUME SaveState(k)
      PROVE  /\ Shaped'
             /\ container'[k].phase = "saveManifest"
             /\ \A l \in Containers \ {k} : container'[l] = container[l]
  BY <1>w, <1>s, Saved DEF SaveState
<1> DEFINE Rest == AgentTyped /\ Waiting /\ LastContainer /\ OwnOnly /\ Alike
                   /\ ManifestDescribesState
<1>r. Rest
  BY DEF RunIInv
<1>g. SUFFICES Shaped' /\ Rest'
  BY DEF RunIInv
<1> USE DEF AgentTyped, Waiting, LastContainer, OwnOnly, Unsaved, Alike,
            ManifestDescribesState, Alive, Torn, loop, files, ghosts
<1>1. CASE Load(k)
  <2>1. /\ Shaped'
        /\ \A l \in Containers :
             container'[l].phase = IF l = k THEN "script" ELSE container[l].phase
    BY <1>1, <1>p DEF Load, ContainerStep
  <2> QED  BY <1>1, <1>n, <1>r, <2>1 DEF Load, ContainerStep
<1>2. CASE ScriptEnds(k)
  <2>1. /\ Shaped'
        /\ \A l \in Containers :
             container'[l].phase = IF l = k THEN "saveState" ELSE container[l].phase
    BY <1>2, <1>p DEF ScriptEnds, ContainerStep
  <2> QED  BY <1>2, <1>n, <1>r, <2>1 DEF ScriptEnds, ContainerStep
<1>3. CASE ScriptExits(k)
  BY <1>3, <1>n, <1>r, <1>e DEF ScriptExits
<1>4. CASE SaveState(k)
  BY <1>4, <1>n, <1>r, <1>w DEF SaveState
<1>5. CASE SaveManifest(k)
  BY <1>5, <1>n, <1>r, <1>e DEF SaveManifest
<1>6. CASE SaveFails(k)
  BY <1>6, <1>n, <1>r, <1>e DEF SaveFails
<1> QED  BY <1>1, <1>2, <1>3, <1>4, <1>5, <1>6 DEF ContainerNext

(* A step of the agent by itself. *)
LEMMA AgentOnlyKeepsRunIInv ==
  ASSUME RunIInv,
         \/ Plan \/ WriteCode \/ Attempt \/ Unavailable \/ Install
         \/ MissModule \/ Retry \/ GiveUp \/ Debug \/ Finish
  PROVE  RunIInv'
<1> USE DEF RunIInv, AgentTyped, Waiting, LastContainer, OwnOnly, Unsaved, Alike, Shaped,
            ManifestDescribesState, Alive, Torn, AgentStep, AgentOnly, files, ghosts
<1>1. CASE Plan  BY <1>1 DEF Plan
<1>2. CASE WriteCode  BY <1>2 DEF WriteCode
<1>3. CASE Attempt  BY <1>3 DEF Attempt
<1>4. CASE Unavailable  BY <1>4 DEF Unavailable
<1>5. CASE Install  BY <1>5 DEF Install
<1>6. CASE MissModule  BY <1>6 DEF MissModule
<1>7. CASE Retry  BY <1>7 DEF Retry
<1>8. CASE GiveUp  BY <1>8 DEF GiveUp
<1>9. CASE Debug  BY <1>9 DEF Debug
<1>10. CASE Finish  BY <1>10 DEF Finish
<1> QED  BY <1>1, <1>2, <1>3, <1>4, <1>5, <1>6, <1>7, <1>8, <1>9, <1>10

LEMMA LaunchKeepsRunIInv ==
  ASSUME RunIInv, Launch
  PROVE  RunIInv'
<1>s. Shaped
  BY DEF RunIInv
<1>n. None \notin Containers
  BY NameAssumption
<1>1. current' \in FreeContainers
  BY DEF Launch
<1>2. current' \in Containers /\ container[current'] = Gone
  BY <1>1 DEF FreeContainers
<1>3. PICK b : container' = [container EXCEPT ![current'] =
        [phase |-> "loading", writes |-> Nothing, keeps |-> b]]
  BY Zenon DEF Launch
<1> DEFINE r == [phase |-> "loading", writes |-> Nothing, keeps |-> b]
<1>4. r = [phase |-> r.phase, writes |-> r.writes, keeps |-> r.keeps] /\ r.phase = "loading"
  OBVIOUS
<1>5. PICK k \in Containers : k = current'
  BY <1>2
<1>6. container' = [container EXCEPT ![k] = r]
  BY <1>3, <1>5
<1> HIDE DEF r
<1>7. /\ Shaped'
      /\ container'[current'].phase = "loading"
      /\ \A l \in Containers \ {current'} : container'[l] = container[l]
  BY <1>s, <1>4, <1>5, <1>6, Replaced
<1> USE DEF RunIInv, AgentTyped, Waiting, LastContainer, OwnOnly, Unsaved, Alike,
            ManifestDescribesState, Alive, Torn, files
<1>8. /\ \/ agent = "launching" /\ agent' = "executing"
         \/ agent = "testing" /\ agent' = "awaitingTests"
      /\ late' = IF cancelled THEN late + 1 ELSE late
      /\ UNCHANGED <<state, manifest, cancelled, clearing, first, disturbed, torn>>
  BY DEF Launch, AgentStep
<1>9. AgentTyped' /\ LastContainer'
  BY <1>2, <1>8
<1>10. Waiting'
  BY <1>n, <1>2, <1>8
<1>11. OwnOnly' /\ ManifestDescribesState'
  BY <1>n, <1>2, <1>7, <1>8 DEF Gone
<1>12. Alike'
  BY <1>7, <1>8
<1> QED  BY <1>7, <1>9, <1>11, <1>12, <1>10

(* The wait ends, and with a kill or without, the container is gone or     *)
(* nobody's.                                                               *)
LEMMA ResumeKeepsRunIInv ==
  ASSUME RunIInv, Collect \/ TimeOut \/ TimeOutUnkilled
  PROVE  RunIInv'
<1>s. Shaped
  BY DEF RunIInv
<1>n. None \notin Containers
  BY NameAssumption
<1>1. ASSUME current \in Containers, container' = [container EXCEPT ![current] = Gone]
      PROVE  /\ Shaped'
             /\ container'[current].phase = "gone"
             /\ \A l \in Containers \ {current} : container'[l] = container[l]
  <2>1. /\ Shaped'
        /\ container'[current] = Gone
        /\ \A l \in Containers \ {current} : container'[l] = container[l]
    BY <1>1, <1>s, Replaced, GoneShaped
  <2> QED  BY <2>1 DEF Gone
<1> USE DEF RunIInv, AgentTyped, Waiting, LastContainer, OwnOnly, Unsaved, Alike,
            ManifestDescribesState, Alive, Torn, files
<1>2. CASE Collect
  BY <1>n, <1>1, <1>2 DEF Collect, Resume, AgentStep
<1>3. CASE TimeOut
  BY <1>n, <1>1, <1>3 DEF TimeOut, Resume, AgentStep
<1>4. CASE TimeOutUnkilled
  BY <1>n, <1>4 DEF TimeOutUnkilled, Resume, AgentStep, Shaped
<1> QED  BY <1>2, <1>3, <1>4

LEMMA RunIInvStep == RunIInv /\ [Next]_vars => RunIInv'
<1> SUFFICES ASSUME RunIInv, [Next]_vars PROVE RunIInv'
  OBVIOUS
<1>1. CASE UNCHANGED vars
  BY <1>1 DEF vars, files, loop, ghosts, RunIInv, Shaped, AgentTyped, Waiting, LastContainer,
     OwnOnly, Unsaved, Alike, ManifestDescribesState, Alive, Torn
<1>2. CASE Begin \/ Cancel \/ End \/ ClearState \/ ClearManifest \/ ClearStops
  <2> USE DEF files, loop, ghosts, RunIInv, Shaped, AgentTyped, Waiting, LastContainer,
     OwnOnly, Unsaved, Alike, ManifestDescribesState, Alive, Torn, AgentStep
  <2>1. CASE Begin  BY <2>1 DEF Begin
  <2>2. CASE Cancel  BY <2>2 DEF Cancel
  <2>3. CASE End  BY <2>3 DEF End
  <2>4. CASE ClearState  BY <2>4 DEF ClearState
  <2>5. CASE ClearManifest  BY <2>5 DEF ClearManifest
  <2>6. CASE ClearStops  BY <2>6 DEF ClearStops
  <2> QED  BY <1>2, <2>1, <2>2, <2>3, <2>4, <2>5, <2>6
<1>3. CASE \E k \in Containers : ContainerNext(k)
  BY <1>3, ContainerKeepsRunIInv
<1> QED  BY <1>1, <1>2, <1>3, AgentOnlyKeepsRunIInv, LaunchKeepsRunIInv, ResumeKeepsRunIInv
         DEF Next, AgentNext

LEMMA RunIInvHolds == Spec => []RunIInv
  BY RunIInvInit, RunIInvStep, PTL DEF Spec

(* Once a DELETE and every save are between no two files, and none of them *)
(* was cut short or overlapped another, the description in the prompts is  *)
(* that of the variables a run will load (state_runner.py:141-153,         *)
(* session_state.py:92-108).                                               *)
THEOREM ManifestDescribed == Spec => []ManifestDescribesState
<1>1. RunIInv => ManifestDescribesState
  BY DEF RunIInv
<1> QED  BY <1>1, RunIInvHolds, PTL

(* A request that was cancelled starts at most one container more          *)
(* (coding/service.py:313-316, 376-379).                                   *)
THEOREM CancelledRunStops == Spec => []OneMoreAfterCancel
<1>1. RunIInv => OneMoreAfterCancel
  BY DEF RunIInv, AgentTyped, OneMoreAfterCancel
<1> QED  BY <1>1, RunIInvHolds, PTL

(* Every attempt of a request that nothing disturbed loads what its first  *)
(* attempt loaded: a failed attempt saves nothing (state_runner.py:13-14,  *)
(* coding/execution.py:331-336).                                           *)
THEOREM AttemptsStartAlike == Spec => DebugStartsAlike
<1> DEFINE StartsAlike ==
      /\ agent = "executing" /\ container[current].phase = "loading"
      /\ container'[current].phase = "script"
      /\ first # Unread /\ ~disturbed
      => state = first
<1>1. RunIInv => StartsAlike
  BY DEF RunIInv, Alike, Unsaved
<1>2. RunIInv /\ [Next]_vars => [StartsAlike]_vars
  BY <1>1
<1> QED  BY <1>2, RunIInvHolds, PTL DEF Spec, DebugStartsAlike

-----------------------------------------------------------------------------
(* How many containers a request may still start. RunsLeft is a count only *)
(* because a round is not begun at the limit.                              *)
Budgeted ==
  /\ settings.autoInstall \in BOOLEAN
  /\ iteration \in 0 .. MaxDebug
  /\ installed \in BOOLEAN

LEMMA LimitIsNat == MaxDebug \in Nat
  BY LimitAssumption

LEMMA BudgetedInit == Init => Budgeted
<1> SUFFICES ASSUME Init PROVE Budgeted
  OBVIOUS
<1>1. settings.autoInstall \in BOOLEAN
  <2>1. settings \in [autoInstall : BOOLEAN, tests : BOOLEAN]
    BY LimitAssumption DEF Init
  <2> QED  BY ONLY <2>1
<1>2. iteration \in 0 .. MaxDebug
  <2>1. iteration = 0
    BY DEF Init
  <2> QED  BY <2>1, LimitIsNat
<1>3. installed \in BOOLEAN
  <2>1. installed = FALSE
    BY DEF Init
  <2> QED  BY ONLY <2>1
<1> QED  BY ONLY <1>1, <1>2, <1>3 DEF Budgeted

LEMMA BudgetedStep == Budgeted /\ [Next]_vars => Budgeted'
<1> SUFFICES ASSUME Budgeted, [Next]_vars PROVE Budgeted'
  OBVIOUS
<1> USE LimitIsNat DEF Budgeted, loop
<1>1. CASE UNCHANGED vars  BY <1>1 DEF vars
<1>2. CASE Retry
  <2>1. iteration' \in 0 .. MaxDebug
    BY <1>2 DEF Retry
  <2>2. installed' \in {installed, installed \/ (settings.autoInstall /\ agent = "failed")}
    BY <1>2 DEF Retry
  <2>3. installed' \in BOOLEAN
    BY ONLY <2>2, Zenon, Budgeted DEF Budgeted
  <2>4. settings'.autoInstall \in BOOLEAN
    BY <1>2 DEF Retry, AgentOnly
  <2> QED  BY ONLY <2>1, <2>3, <2>4 DEF Budgeted
<1>3. CASE Install \/ End
  <2>1. settings' = settings /\ iteration' \in {iteration, 0}
    BY <1>3 DEF Install, AgentOnly, End
  <2>2. installed' = TRUE \/ installed' = FALSE
    BY ONLY <1>3 DEF Install, End
  <2>3. iteration' \in 0 .. MaxDebug
    BY <2>1
  <2>4. installed' \in BOOLEAN
    BY ONLY <2>2
  <2> QED  BY ONLY <2>1, <2>3, <2>4, Budgeted DEF Budgeted
<1>4. CASE Plan \/ WriteCode \/ Attempt \/ Unavailable \/ MissModule \/ GiveUp \/ Debug \/ Finish
  BY <1>4 DEF Plan, WriteCode, Attempt, Unavailable, MissModule, GiveUp, Debug, Finish, AgentOnly
<1>5. CASE Launch \/ Collect \/ TimeOut \/ TimeOutUnkilled
  BY <1>5 DEF Launch, Collect, TimeOut, TimeOutUnkilled, Resume
<1>6. CASE Begin \/ Cancel \/ ClearState \/ ClearManifest \/ ClearStops
  BY <1>6 DEF Begin, Cancel, ClearState, ClearManifest, ClearStops
<1>7. CASE \E k \in Containers : ContainerNext(k)
  BY <1>7 DEF ContainerNext, Load, ScriptEnds, ScriptExits, SaveState, SaveManifest, SaveFails
<1> QED  BY <1>1, <1>2, <1>3, <1>4, <1>5, <1>6, <1>7 DEF Next, AgentNext

(* What is left of the whole budget where the agent is: a number that      *)
(* depends on the request alone.                                           *)
LEMMA RunsLeftRange == Budgeted => RunsLeft \in 0 .. MaxDebug + 3
  BY LimitIsNat DEF Budgeted, RunsLeft

LEMMA RunsLeftKept ==
  ASSUME UNCHANGED <<settings, agent, iteration, installed>>
  PROVE  RunsLeft' = RunsLeft
  BY DEF RunsLeft

(* A container is paid for ... *)
LEMMA LaunchPays == Budgeted /\ Launch => RunsLeft' < RunsLeft
  BY LimitIsNat DEF Budgeted, Launch, AgentStep, RunsLeft

(* ... and nothing is paid back. *)
LEMMA AgentPaysBackNothing ==
  ASSUME Budgeted, AgentNext
  PROVE  RunsLeft' <= RunsLeft
<1> USE LimitIsNat DEF Budgeted, AgentStep, AgentOnly, RunsLeft
<1>1. CASE Plan  BY <1>1 DEF Plan
<1>2. CASE WriteCode  BY <1>2 DEF WriteCode
<1>3. CASE Attempt  BY <1>3 DEF Attempt
<1>4. CASE Unavailable  BY <1>4 DEF Unavailable
<1>5. CASE Install  BY <1>5 DEF Install
<1>6. CASE MissModule  BY <1>6 DEF MissModule
<1>7. CASE Retry  BY <1>7 DEF Retry
<1>8. CASE GiveUp  BY <1>8 DEF GiveUp
<1>9. CASE Debug  BY <1>9 DEF Debug
<1>10. CASE Finish  BY <1>10 DEF Finish
<1>11. CASE Collect
  <2>1. \/ agent = "executing" /\ agent' \in {"ok", "failed"}
        \/ agent = "awaitingTests" /\ agent' = "over"
    BY <1>11 DEF Collect, Resume
  <2>2. UNCHANGED <<settings, iteration, installed>>
    BY <1>11 DEF Collect, Resume
  <2> QED  BY <2>1, <2>2
<1>12. CASE TimeOut \/ TimeOutUnkilled
  <2>1. \/ agent = "executing" /\ agent' = "timedOut"
        \/ agent = "awaitingTests" /\ agent' = "over"
    BY <1>12 DEF TimeOut, TimeOutUnkilled, Resume
  <2>2. UNCHANGED <<settings, iteration, installed>>
    BY <1>12 DEF TimeOut, TimeOutUnkilled, Resume
  <2> QED  BY <2>1, <2>2
<1>13. CASE Launch
  <2>1. RunsLeft \in Int /\ RunsLeft' \in Int
    <3>1. Budgeted'
      BY <1>13 DEF Launch
    <3> QED  BY <3>1
  <2> HIDE DEF RunsLeft
  <2> QED  BY <1>13, <2>1, LaunchPays
<1>14. CASE End  BY <1>14 DEF End
<1> QED  BY <1>1, <1>2, <1>3, <1>4, <1>5, <1>6, <1>7, <1>8, <1>9, <1>10, <1>11, <1>12, <1>13, <1>14
         DEF AgentNext

(* Nobody but Launch makes the agent wait for another container.           *)
LEMMA OnlyLaunchStarts ==
  ASSUME [Next]_vars, current' \notin {None, current}
  PROVE  Launch
<1>1. CASE UNCHANGED vars  BY <1>1 DEF vars
<1>2. CASE Plan \/ WriteCode \/ Attempt \/ Unavailable \/ Install \/ MissModule \/ Retry
           \/ GiveUp \/ Debug \/ Finish
  BY <1>2 DEF Plan, WriteCode, Attempt, Unavailable, Install, MissModule, Retry, GiveUp, Debug,
     Finish, AgentOnly
<1>3. CASE Collect \/ TimeOut \/ TimeOutUnkilled \/ End
  BY <1>3 DEF Collect, TimeOut, TimeOutUnkilled, Resume, End
<1>4. CASE Begin \/ Cancel \/ ClearState \/ ClearManifest \/ ClearStops
  BY <1>4 DEF Begin, Cancel, ClearState, ClearManifest, ClearStops
<1>5. CASE \E k \in Containers : ContainerNext(k)
  BY <1>5 DEF ContainerNext, Load, ScriptEnds, ScriptExits, SaveState, SaveManifest, SaveFails
<1> QED  BY <1>1, <1>2, <1>3, <1>4, <1>5 DEF Next, AgentNext

LEMMA OthersKeepRunsLeft ==
  ASSUME [Next]_vars, ~AgentNext, agent # "idle"
  PROVE  RunsLeft' = RunsLeft
<1> SUFFICES UNCHANGED <<settings, agent, iteration, installed>>
  BY RunsLeftKept
<1> USE DEF loop
<1>1. CASE UNCHANGED vars  BY <1>1 DEF vars
<1>2. CASE Begin \/ Cancel \/ ClearState \/ ClearManifest \/ ClearStops
  BY <1>2 DEF Begin, AgentStep, Cancel, ClearState, ClearManifest, ClearStops
<1>3. CASE \E k \in Containers : ContainerNext(k)
  BY <1>3 DEF ContainerNext, Load, ScriptEnds, ScriptExits, SaveState, SaveManifest, SaveFails
<1> QED  BY <1>1, <1>2, <1>3 DEF Next

(* A request starts no more containers than its settings, the debug rounds *)
(* and one installation allow, and nothing that fails, times out or is     *)
(* missing raises what it may still start (coding/service.py:310-343,      *)
(* 376-388).                                                               *)
THEOREM RunsBounded == Spec => RunsAreBounded
<1> DEFINE Bounded ==
      /\ current' \notin {None, current} => RunsLeft' < RunsLeft
      /\ agent # "idle" => RunsLeft' <= RunsLeft
      /\ RunsLeft \in 0 .. MaxDebug + 3
<1>1. ASSUME Budgeted, [Next]_vars PROVE Bounded
  <2>1. RunsLeft \in 0 .. MaxDebug + 3
    BY <1>1, RunsLeftRange
  <2>2. ASSUME current' \notin {None, current} PROVE RunsLeft' < RunsLeft
    <3>1. Launch
      BY <1>1, <2>2, OnlyLaunchStarts
    <3> QED  BY <1>1, <3>1, LaunchPays
  <2>3. ASSUME agent # "idle" PROVE RunsLeft' <= RunsLeft
    <3>1. CASE AgentNext
      BY <1>1, <3>1, AgentPaysBackNothing
    <3>2. CASE ~AgentNext
      <4>1. RunsLeft' = RunsLeft
        BY <1>1, <2>3, <3>2, OthersKeepRunsLeft
      <4>2. RunsLeft \in Int
        BY <2>1, LimitIsNat
      <4> QED  BY <4>1, <4>2
    <3> QED  BY <3>1, <3>2
  <2> QED  BY <2>1, <2>2, <2>3
<1>2. Budgeted /\ [Next]_vars => [Bounded]_vars
  BY <1>1
<1> QED  BY <1>2, BudgetedInit, BudgetedStep, PTL DEF Spec, RunsAreBounded
=============================================================================
