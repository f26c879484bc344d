--------------------------- MODULE OutsideProofs ----------------------------
(***************************************************************************)
(* The parts that call services outside, for any number of callers: the    *)
(* news refresh, the knowledge store, the searchers, the research run, the *)
(* audit of its claims and the status of the sandbox.                      *)
(***************************************************************************)
EXTENDS NewsRefresh, KnowledgeStore, Searchers, ResearchRun, Grounding, Sandbox,
  FiniteSetTheorems, SequenceTheorems, WellFoundedInduction, TLAPS

(***************************************************************************)
(* Proofs about NewsRefresh for any feeds, callers, task names, cap and    *)
(* cooldown: there is one run at a time, and the clients keep the cooldown.*)
(***************************************************************************)

Phases == {"fetching", "checking", "summarizing", "storing"} \cup Ended

(* What the two invariants need to know of the types. *)
NewsTyped ==
  /\ inflight \in Tasks \cup {None}
  /\ phase \in [Tasks -> Phases]
  /\ joined \in [Callers -> Tasks \cup {None}]
  /\ since \in 0 .. Cooldown
  /\ finishedAgo \in 0 .. Cooldown

(* A task that runs is the one _inflight names. *)
RunningIsInflight == \A n \in Tasks : phase[n] \notin Ended => inflight = n

(* Unless a callback is pending, _last_completed_at is the end of the last *)
(* run or later.                                                           *)
SinceIsKnown == since <= finishedAgo \/ \E n \in Tasks : phase[n] = "finished"

NewsIInv == NewsTyped /\ RunningIsInflight /\ SinceIsKnown

-----------------------------------------------------------------------------
(* A Refresh starts a task only when none runs. *)
LEMMA RefreshKeepsInv ==
  ASSUME NewsIInv, NEW c \in Callers, Refresh(c)
  PROVE  NewsIInv'
<1>1. CASE InProgress /\ joined' = [joined EXCEPT ![c] = inflight]
                      /\ UNCHANGED <<inflight, phase>>
  BY <1>1 DEF NewsIInv, NewsTyped, RunningIsInflight, SinceIsKnown, Refresh, InProgress
<1>2. CASE ~InProgress
  <2>1. PICK n \in Tasks :
          /\ FreeTask(n)
          /\ inflight' = n
          /\ phase' = [phase EXCEPT ![n] = "fetching"]
          /\ joined' = [joined EXCEPT ![c] = n]
    BY <1>2 DEF Refresh
  <2>2. phase[n] = "over" /\ \A m \in Tasks : phase[m] \in Ended
    BY <1>2, <2>1, CallerAssumption DEF FreeTask, InProgress, NewsIInv, RunningIsInflight
  <2>3. NewsTyped'
    BY <2>1 DEF Refresh, NewsIInv, NewsTyped, Phases
  <2>4. RunningIsInflight'
    BY <2>1, <2>2 DEF NewsIInv, NewsTyped, RunningIsInflight
  <2>5. SinceIsKnown'
    BY <2>1, <2>2 DEF NewsIInv, NewsTyped, SinceIsKnown, Refresh
  <2> QED BY <2>3, <2>4, <2>5 DEF NewsIInv
<1> QED BY <1>1, <1>2 DEF Refresh

(* A step of a running task: its phase moves on, or it ends now. *)
LEMMA StageKeepsInv ==
  ASSUME NewsIInv, NEW n \in Tasks, Fetch(n) \/ Check(n) \/ Summarize(n)
  PROVE  NewsIInv'
<1>1. PICK from \in Phases \ Ended, to \in Phases \ Ended : PhaseStep(n, from, to)
  BY DEF Fetch, Check, Summarize, Phases, Ended
<1>2. UNCHANGED <<inflight, joined, since, finishedAgo>>
  BY DEF Fetch, Check, Summarize
<1>3. NewsTyped'
  BY <1>1, <1>2 DEF NewsIInv, NewsTyped, PhaseStep
<1>4. RunningIsInflight'
  BY <1>1, <1>2 DEF NewsIInv, NewsTyped, RunningIsInflight, PhaseStep
<1>5. SinceIsKnown'
  BY <1>1, <1>2 DEF NewsIInv, NewsTyped, SinceIsKnown, PhaseStep, Ended
<1> QED BY <1>3, <1>4, <1>5 DEF NewsIInv

LEMMA EndKeepsInv ==
  ASSUME NewsIInv, NEW n \in Tasks, Store(n) \/ FailTask(n)
  PROVE  NewsIInv'
<1>1. PICK from \in Phases \ Ended, result \in {"stored", "failed"} : End(n, from, result)
  BY DEF Store, FailTask, Phases, Ended
<1>2. NewsTyped'
  BY <1>1, LimitAssumption DEF NewsIInv, NewsTyped, End, PhaseStep, Phases, Ended
<1>3. RunningIsInflight'
  BY <1>1 DEF NewsIInv, NewsTyped, RunningIsInflight, End, PhaseStep, Ended
<1>4. SinceIsKnown'
  BY <1>1 DEF NewsIInv, NewsTyped, SinceIsKnown, End, PhaseStep
<1> QED BY <1>2, <1>3, <1>4 DEF NewsIInv

(* The callback clears _inflight only if it is its own. *)
LEMMA OnDoneKeepsInv ==
  ASSUME NewsIInv, NEW n \in Tasks, OnDone(n)
  PROVE  NewsIInv'
<1>1. NewsTyped'
  BY LimitAssumption DEF NewsIInv, NewsTyped, OnDone, PhaseStep, Phases, Ended
<1>2. RunningIsInflight'
  BY DEF NewsIInv, NewsTyped, RunningIsInflight, OnDone, PhaseStep, Ended
<1>3. SinceIsKnown'
  BY DEF NewsIInv, NewsTyped, SinceIsKnown, OnDone
<1> QED BY <1>1, <1>2, <1>3 DEF NewsIInv

LEMMA TickKeepsInv ==
  ASSUME NewsIInv, Tick
  PROVE  NewsIInv'
<1>1. NewsTyped'
  BY LimitAssumption DEF NewsIInv, NewsTyped, Tick, Later
<1>2. SinceIsKnown'
  BY LimitAssumption DEF NewsIInv, NewsTyped, SinceIsKnown, Tick, Later
<1>3. RunningIsInflight'
  BY DEF NewsIInv, RunningIsInflight, Tick
<1> QED BY <1>1, <1>2, <1>3 DEF NewsIInv

LEMMA NewsInit == Init => NewsIInv
  BY LimitAssumption DEF Init, NewsIInv, NewsTyped, RunningIsInflight, SinceIsKnown, Phases, Ended

LEMMA NextKeepsInv == NewsIInv /\ [Next]_vars => NewsIInv'
<1> SUFFICES ASSUME NewsIInv, [Next]_vars PROVE NewsIInv'
  OBVIOUS
<1>1. ASSUME NEW c \in Callers, Refresh(c) PROVE NewsIInv'
  BY <1>1, RefreshKeepsInv
<1>2. ASSUME NEW c \in Callers, Leave(c) \/ Answer(c) PROVE NewsIInv'
  BY <1>2 DEF NewsIInv, NewsTyped, RunningIsInflight, SinceIsKnown, Leave, Answer
<1>3. ASSUME NEW n \in Tasks, TaskNext(n) PROVE NewsIInv'
  BY <1>3, StageKeepsInv, EndKeepsInv, OnDoneKeepsInv DEF TaskNext
<1>4. CASE Tick
  BY <1>4, TickKeepsInv
<1>5. CASE UNCHANGED vars
  BY <1>5 DEF NewsIInv, NewsTyped, RunningIsInflight, SinceIsKnown, vars
<1> QED
  BY <1>1, <1>2, <1>3, <1>4, <1>5 DEF Next, BackgroundRefresh, RefreshNow, Callers

LEMMA NewsInductive == Spec => []NewsIInv
  BY NewsInit, NextKeepsInv, PTL DEF Spec

-----------------------------------------------------------------------------
(* There is one run at a time, for any callers and any interleaving of     *)
(* ends, callbacks and joins (news/scheduler.py:44-73).                    *)
THEOREM SingleFlight == Spec => []OneRun
<1>1. NewsIInv => OneRun
  BY DEF NewsIInv, RunningIsInflight, OneRun
<1> QED BY <1>1, NewsInductive, PTL

(* The clients keep the cooldown, the instant before the callback excepted *)
(* (news/router.py:37-41).                                                 *)
THEOREM ClientsKeepCooldown == Spec => CooldownHolds
<1>1. ASSUME NewsIInv, [Next]_vars, NEW c \in Clients,
             joined[c] = None, joined'[c] # None, phase[joined'[c]] = "over"
      PROVE  finishedAgo >= Cooldown \/ \E n \in Tasks : phase[n] = "finished"
  <2>1. RefreshNow(c)
    <3>1. \A d \in Callers : Refresh(d) => joined' = [joined EXCEPT ![d] = joined'[d]]
      BY DEF Refresh, NewsIInv, NewsTyped
    <3>2. joined' # joined
      BY <1>1
    <3>3. PICK d \in Clients : RefreshNow(d) \/ BackgroundRefresh
      <4>1. \A d \in Callers : Leave(d) \/ Answer(d) => joined'[c] = None
        BY <1>1 DEF Leave, Answer, NewsIInv, NewsTyped, Callers
      <4>2. \A n \in Tasks : TaskNext(n) => joined' = joined
        BY DEF TaskNext, Fetch, Check, Summarize, Store, FailTask, End, OnDone
      <4> QED BY <1>1, <3>2, <4>1, <4>2 DEF Next, Tick, vars, Callers
    <3>4. ~BackgroundRefresh
      BY <1>1, <3>1, CallerAssumption DEF BackgroundRefresh, Callers, NewsIInv, NewsTyped
    <3>5. d = c
      BY <1>1, <3>1, <3>3, <3>4 DEF RefreshNow, Callers, NewsIInv, NewsTyped
    <3> QED BY <3>3, <3>4, <3>5
  <2>2. since >= Cooldown
    BY <2>1 DEF RefreshNow
  <2> QED BY <1>1, <2>2, LimitAssumption DEF NewsIInv, NewsTyped, SinceIsKnown
<1>2. NewsIInv /\ [Next]_vars =>
        [\A c \in Clients :
           joined[c] = None /\ joined'[c] # None /\ phase[joined'[c]] = "over"
             => finishedAgo >= Cooldown \/ \E n \in Tasks : phase[n] = "finished"]_vars
  BY <1>1
<1> QED BY <1>2, NewsInductive, PTL DEF Spec, CooldownHolds

-----------------------------------------------------------------------------
(* A set of natural numbers with 0 and every successor has them all: the   *)
(* rest would have a least.                                                *)
LEMMA NatSetInduction ==
  ASSUME NEW T \in SUBSET Nat, 0 \in T, \A n \in T : n + 1 \in T
  PROVE  T = Nat
<1> DEFINE R == OpToRel(<, Nat)
<1>1. IsWellFoundedOn(R, Nat)
  BY NatLessThanWellFounded, Zenon
<1>2. \A x, y \in Nat : y < x => <<y, x>> \in R
  BY DEF OpToRel
<1> HIDE DEF R
<1>3. ASSUME Nat \ T # {} PROVE FALSE
  <2>1. PICK x \in Nat \ T : \A y \in Nat \ T : ~(<<y, x>> \in R)
    BY <1>1, <1>3, WFMin
  <2>2. x \in Nat /\ x # 0
    BY <2>1
  <2>3. x - 1 \in Nat /\ x - 1 < x /\ x = (x - 1) + 1
    BY <2>2
  <2>4. x - 1 \in T
    BY <1>2, <2>1, <2>2, <2>3
  <2> QED  BY <2>1, <2>3, <2>4
<1> QED  BY <1>3

IsPick(pick, s, positions, len) ==
  pick = [n \in 0 .. len |->
            IF n = 0 THEN <<>>
            ELSE IF n \in positions THEN Append(pick[n - 1], s[n]) ELSE pick[n - 1]]

LEMMA PickExists ==
  ASSUME NEW s, NEW positions, NEW len \in Nat
  PROVE  \E pick : IsPick(pick, s, positions, len)
<1> DEFINE T == {n \in Nat : \E pick : IsPick(pick, s, positions, n)}
<1>1. 0 \in T
  <2>1. IsPick([n \in 0 .. 0 |-> <<>>], s, positions, 0)
    BY DEF IsPick
  <2> QED  BY <2>1
<1>2. ASSUME NEW k \in T PROVE k + 1 \in T
  <2>1. PICK pick : IsPick(pick, s, positions, k)
    BY <1>2
  <2> DEFINE tip == IF k + 1 \in positions THEN Append(pick[k], s[k + 1]) ELSE pick[k]
             more == [n \in 0 .. k + 1 |-> IF n = k + 1 THEN tip ELSE pick[n]]
  <2>2. k \in Nat
    BY <1>2
  <2>3. \A n \in 0 .. k :
          pick[n] = IF n = 0 THEN <<>>
                    ELSE IF n \in positions THEN Append(pick[n - 1], s[n]) ELSE pick[n - 1]
    BY <2>1, <2>2 DEF IsPick
  <2>4. \A n \in 0 .. k + 1 :
          more[n] = IF n = 0 THEN <<>>
                    ELSE IF n \in positions THEN Append(more[n - 1], s[n]) ELSE more[n - 1]
    <3>1. ASSUME NEW n \in 0 .. k PROVE more[n] = pick[n] /\ (n # 0 => more[n - 1] = pick[n - 1])
      BY <2>2
    <3>2. more[k + 1] = tip /\ more[(k + 1) - 1] = pick[k] /\ k + 1 # 0
      BY <2>2
    <3>3. \A n \in 0 .. k + 1 : n \in 0 .. k \/ n = k + 1
      BY <2>2
    <3> HIDE DEF more
    <3> QED  BY <2>3, <3>1, <3>2, <3>3
  <2>5. IsPick(more, s, positions, k + 1)
    <3>1. more = [n \in 0 .. k + 1 |-> more[n]]
      OBVIOUS
    <3> HIDE DEF more
    <3> QED  BY <2>4, <3>1 DEF IsPick
  <2> QED  BY <2>2, <2>5
<1>3. T = Nat
  <2> HIDE DEF T
  <2>1. T \in SUBSET Nat
    BY DEF T
  <2> QED  BY <1>1, <1>2, <2>1, NatSetInduction
<1> QED  BY <1>3

LEMMA PickedIs ==
  ASSUME NEW s, NEW positions, Len(s) \in Nat
  PROVE  \E pick : IsPick(pick, s, positions, Len(s)) /\ Picked(s, positions) = pick[Len(s)]
<1>1. Picked(s, positions) = (CHOOSE pick : IsPick(pick, s, positions, Len(s)))[Len(s)]
  BY DEF Picked, IsPick
<1>2. IsPick(CHOOSE pick : IsPick(pick, s, positions, Len(s)), s, positions, Len(s))
  BY PickExists
<1> QED  BY <1>1, <1>2

(* p holds the elements of s at the positions up to n, each once. *)
IsChoice(p, s, positions, n, S) ==
  /\ p \in Seq(S)
  /\ \E spot \in [1 .. Len(p) -> positions] :
       /\ \A i \in 1 .. Len(p) : spot[i] \in 1 .. n /\ p[i] = s[spot[i]]
       /\ \A i, j \in 1 .. Len(p) : i # j => spot[i] # spot[j]

LEMMA ChoiceMade ==
  ASSUME NEW S, NEW p \in Seq(S), NEW s, NEW positions, NEW n, NEW len, Len(p) = len,
         NEW spot \in [1 .. len -> positions],
         \A i \in 1 .. len : spot[i] \in 1 .. n /\ p[i] = s[spot[i]],
         \A i, j \in 1 .. len : i # j => spot[i] # spot[j]
  PROVE  IsChoice(p, s, positions, n, S)
  BY DEF IsChoice

LEMMA PickedChooses ==
  ASSUME NEW S, NEW s \in Seq(S), NEW positions
  PROVE  IsChoice(Picked(s, positions), s, positions, Len(s), S)
<1>0. Len(s) \in Nat /\ \A i \in 1 .. Len(s) : s[i] \in S
  OBVIOUS
<1>1. PICK pick : IsPick(pick, s, positions, Len(s)) /\ Picked(s, positions) = pick[Len(s)]
  BY <1>0, PickedIs
<1>2. \A n \in 0 .. Len(s) :
        pick[n] = IF n = 0 THEN <<>>
                  ELSE IF n \in positions THEN Append(pick[n - 1], s[n]) ELSE pick[n - 1]
  BY <1>1 DEF IsPick
<1> DEFINE T == {n \in Nat : n <= Len(s) => IsChoice(pick[n], s, positions, n, S)}
<1>3. 0 \in T
  <2>1. pick[0] = <<>>
    BY <1>0, <1>2
  <2>2. PICK none \in Nat : none = 0
    OBVIOUS
  <2>3. <<>> \in Seq(S) /\ Len(<<>>) = none /\ \A i \in 1 .. none : FALSE
    BY <2>2
  <2>4. PICK spot : spot \in [1 .. none -> positions]
    <3>1. [i \in 1 .. none |-> i] \in [1 .. none -> positions]
      BY <2>2
    <3> QED  BY <3>1
  <2> DEFINE p == <<>>
  <2>5. /\ \A i \in 1 .. none : spot[i] \in 1 .. none /\ p[i] = s[spot[i]]
        /\ \A i, j \in 1 .. none : i # j => spot[i] # spot[j]
    BY <2>3
  <2>6. p \in Seq(S) /\ Len(p) = none
    BY <2>3
  <2>7. IsChoice(p, s, positions, none, S)
    <3> HIDE DEF p
    <3>1. \A i \in 1 .. none : spot[i] \in 1 .. none /\ p[i] = s[spot[i]]
      BY <2>5
    <3>2. \A i, j \in 1 .. none : i # j => spot[i] # spot[j]
      BY <2>5
    <3>3. p \in Seq(S) /\ Len(p) = none
      BY <2>6
    <3>4. spot \in [1 .. Len(p) -> positions]
      BY <2>4, <3>3
    <3>5. \E to \in [1 .. Len(p) -> positions] :
            /\ \A i \in 1 .. Len(p) : to[i] \in 1 .. none /\ p[i] = s[to[i]]
            /\ \A i, j \in 1 .. Len(p) : i # j => to[i] # to[j]
      BY <3>1, <3>2, <3>3, <3>4
    <3> QED  BY <3>3, <3>5 DEF IsChoice
  <2> QED  BY <2>1, <2>2, <2>7
<1>4. ASSUME NEW k \in T PROVE k + 1 \in T
  <2> SUFFICES ASSUME k + 1 <= Len(s) PROVE IsChoice(pick[k + 1], s, positions, k + 1, S)
    BY <1>4
  <2>1. k \in Nat /\ k + 1 \in 1 .. Len(s) /\ IsChoice(pick[k], s, positions, k, S)
    BY <1>0, <1>4
  <2>2. pick[k + 1] = IF k + 1 \in positions THEN Append(pick[k], s[k + 1]) ELSE pick[k]
    BY <1>0, <1>2, <2>1
  <2> DEFINE p == pick[k]
             m == Len(p)
  <2>3. p \in Seq(S) /\ m \in Nat
    BY <2>1 DEF IsChoice
  <2>4. PICK spot \in [1 .. m -> positions] :
          /\ \A i \in 1 .. m : spot[i] \in 1 .. k /\ p[i] = s[spot[i]]
          /\ \A i, j \in 1 .. m : i # j => spot[i] # spot[j]
    BY <2>1 DEF IsChoice
  <2>5. CASE k + 1 \notin positions
    <3>1. pick[k + 1] = p
      BY <2>2, <2>5
    <3>2. \A i \in 1 .. m : spot[i] \in 1 .. k + 1
      BY <2>1, <2>4
    <3> HIDE DEF p, m
    <3>3. IsChoice(p, s, positions, k + 1, S)
      <4>1. /\ \A i \in 1 .. m : spot[i] \in 1 .. k + 1 /\ p[i] = s[spot[i]]
            /\ \A i, j \in 1 .. m : i # j => spot[i] # spot[j]
        BY <2>4, <3>2
      <4>2. p \in Seq(S) /\ Len(p) = m
        BY <2>3 DEF m
      <4>3. spot \in [1 .. m -> positions]
        BY <2>4
      <4> QED  BY ONLY <4>1, <4>2, <4>3, ChoiceMade
    <3> QED  BY <3>1, <3>3
  <2>6. CASE k + 1 \in positions
    <3> DEFINE q == Append(p, s[k + 1])
               to == [i \in 1 .. m + 1 |-> IF i = m + 1 THEN k + 1 ELSE spot[i]]
    <3>1. pick[k + 1] = q
      BY <2>2, <2>6
    <3>2. q \in Seq(S) /\ Len(q) = m + 1 /\ q[m + 1] = s[k + 1] /\ \A i \in 1 .. m : q[i] = p[i]
      <4>0. p \in Seq(S)
        BY <2>3
      <4>1. s[k + 1] \in S
        BY <1>0, <2>1
      <4> HIDE DEF p
      <4>2. /\ q \in Seq(S) /\ Len(q) = Len(p) + 1 /\ q[Len(p) + 1] = s[k + 1]
            /\ \A i \in 1 .. Len(p) : q[i] = p[i]
        BY ONLY <4>0, <4>1, AppendProperties DEF q
      <4> QED  BY <4>2
    <3>3. to \in [1 .. m + 1 -> positions]
      <4> HIDE DEF p, q
      <4>1. \A i \in 1 .. m + 1 : i # m + 1 => i \in 1 .. m
        BY <2>3
      <4>2. \A i \in 1 .. m : spot[i] \in positions
        BY <2>4
      <4> HIDE DEF m
      <4>3. \A i \in 1 .. m + 1 : (IF i = m + 1 THEN k + 1 ELSE spot[i]) \in positions
        BY <2>6, <4>1, <4>2
      <4> QED  BY <4>3
    <3>4. to[m + 1] = k + 1 /\ \A i \in 1 .. m : to[i] = spot[i]
      BY <2>3
    <3>5. \A i \in 1 .. m + 1 : i \in 1 .. m \/ i = m + 1
      BY <2>3
    <3> HIDE DEF p, q, to, m
    <3>6. \A i \in 1 .. m + 1 : to[i] \in 1 .. k + 1 /\ q[i] = s[to[i]]
      BY <2>1, <2>4, <3>2, <3>4, <3>5
    <3>7. \A i \in 1 .. m : spot[i] # k + 1
      BY <2>1, <2>4
    <3>8. \A i, j \in 1 .. m + 1 : i # j => to[i] # to[j]
      BY <2>4, <3>4, <3>5, <3>7
    <3>9. IsChoice(q, s, positions, k + 1, S)
      <4>1. q \in Seq(S) /\ Len(q) = m + 1
        BY <3>2
      <4> QED  BY ONLY <4>1, <3>3, <3>6, <3>8, ChoiceMade
    <3> QED  BY <3>1, <3>9
  <2> QED  BY <2>5, <2>6
<1>5. T = Nat
  <2>1. T \in SUBSET Nat
    OBVIOUS
  <2> HIDE DEF T
  <2> QED  BY <1>3, <1>4, <2>1, NatSetInduction
<1>6. IsChoice(pick[Len(s)], s, positions, Len(s), S)
  BY <1>0, <1>5
<1> QED  BY <1>1, <1>6

(* No element twice. *)
Distinct(b) == \A i, j \in 1 .. Len(b) : i # j => b[i] # b[j]

LEMMA PickedOnce ==
  ASSUME NEW S, NEW s \in Seq(S), NEW positions \in SUBSET (1 .. Len(s)),
         \A i, j \in positions : i # j => s[i] # s[j]
  PROVE  /\ Picked(s, positions) \in Seq(S)
         /\ Distinct(Picked(s, positions))
         /\ \A i \in 1 .. Len(Picked(s, positions)) :
              \E n \in positions : Picked(s, positions)[i] = s[n]
<1> DEFINE p == Picked(s, positions)
<1>1. IsChoice(p, s, positions, Len(s), S)
  BY PickedChooses
<1> HIDE DEF p
<1>2. PICK spot \in [1 .. Len(p) -> positions] :
        /\ \A i \in 1 .. Len(p) : spot[i] \in 1 .. Len(s) /\ p[i] = s[spot[i]]
        /\ \A i, j \in 1 .. Len(p) : i # j => spot[i] # spot[j]
  BY <1>1 DEF IsChoice
<1>3. p \in Seq(S)
  BY <1>1 DEF IsChoice
<1>4. \A i \in 1 .. Len(p) : spot[i] \in positions
  BY <1>2
<1>5. Distinct(p)
  BY <1>2, <1>4 DEF Distinct
<1>6. \A i \in 1 .. Len(p) : \E n \in positions : p[i] = s[n]
  BY <1>2, <1>4
<1> QED  BY <1>3, <1>5, <1>6 DEF p

LEMMA DedupedOnce ==
  ASSUME NEW S, NEW items \in Seq(S)
  PROVE  Deduped(items) \in Seq(S) /\ Distinct(Deduped(items))
<1> DEFINE firsts == {n \in DOMAIN items : \A m \in 1 .. n - 1 : items[m] # items[n]}
<1>1. firsts \in SUBSET (1 .. Len(items)) /\ Len(items) \in Nat
  OBVIOUS
<1>2. ASSUME NEW i \in firsts, NEW j \in firsts, i # j PROVE items[i] # items[j]
  <2>1. i \in 1 .. j - 1 \/ j \in 1 .. i - 1
    BY <1>1, <1>2
  <2> QED  BY <1>2, <2>1
<1>3. Deduped(items) = Picked(items, firsts)
  BY DEF Deduped
<1> HIDE DEF firsts
<1> QED  BY <1>1, <1>2, <1>3, PickedOnce

LEMMA NewOnce ==
  ASSUME NEW S, NEW items \in Seq(S), Distinct(items)
  PROVE  /\ NewItems(items) \in Seq(S) /\ Distinct(NewItems(items))
         /\ \A i \in 1 .. Len(NewItems(items)) : NewItems(items)[i] \notin stored
<1> DEFINE unknown == {n \in DOMAIN items : items[n] \notin stored}
           new == Picked(items, unknown)
           len == IF Len(new) < Cap THEN Len(new) ELSE Cap
<1>1. unknown \in SUBSET (1 .. Len(items)) /\ \A n \in unknown : items[n] \notin stored
  OBVIOUS
<1>2. \A i, j \in unknown : i # j => items[i] # items[j]
  BY <1>1 DEF Distinct
<1>3. NewItems(items) = SubSeq(new, 1, len)
  BY DEF NewItems
<1> HIDE DEF unknown
<1>4. /\ new \in Seq(S) /\ Distinct(new)
      /\ \A i \in 1 .. Len(new) : \E n \in unknown : new[i] = items[n]
  BY <1>1, <1>2, PickedOnce
<1> HIDE DEF new
<1>5. Len(new) \in Nat /\ len \in 0 .. Len(new)
  BY <1>4, LimitAssumption
<1>6. \A i \in 1 .. len : new[i] \in S
  BY <1>4, <1>5
<1> HIDE DEF len
<1> DEFINE b == SubSeq(new, 1, len)
<1>7. b \in Seq(S) /\ Len(b) = len /\ \A i \in 1 .. len : b[i] = new[i]
  <2>1. /\ b \in Seq(S) /\ Len(b) = IF 1 <= len THEN len - 1 + 1 ELSE 0
        /\ \A i \in 1 .. len - 1 + 1 : b[i] = new[1 + i - 1]
    BY <1>5, <1>6, SubSeqProperties
  <2> HIDE DEF b
  <2> QED  BY <1>5, <2>1
<1> HIDE DEF b
<1>8. Distinct(b)
  BY <1>4, <1>5, <1>7 DEF Distinct
<1>9. ASSUME NEW i \in 1 .. Len(b) PROVE b[i] \notin stored
  <2>1. b[i] = new[i] /\ i \in 1 .. Len(new)
    BY <1>5, <1>7
  <2>2. PICK n \in unknown : new[i] = items[n]
    BY <1>4, <2>1
  <2> QED  BY <1>1, <2>1, <2>2
<1> QED  BY <1>3, <1>7, <1>8, <1>9 DEF b

LEMMA DistinctCount ==
  ASSUME NEW S, NEW b \in Seq(S), Distinct(b)
  PROVE  Cardinality(ToSet(b)) = Len(b)
<1>1. Len(b) \in Nat /\ DOMAIN b = 1 .. Len(b)
  OBVIOUS
<1>2. b \in Bijection(1 .. Len(b), ToSet(b))
  BY <1>1 DEF Bijection, Injection, Surjection, IsInjective, ToSet, Distinct
<1>3. IsFiniteSet(1 .. Len(b)) /\ Cardinality(1 .. Len(b)) = Len(b)
  <2>1. Cardinality(1 .. Len(b)) = IF 1 > Len(b) THEN 0 ELSE Len(b) - 1 + 1
    BY <1>1, FS_Interval
  <2> QED  BY <1>1, <2>1, FS_Interval
<1>4. ExistsBijection(1 .. Len(b), ToSet(b))
  BY <1>2 DEF ExistsBijection
<1>5. \A A, B : IsFiniteSet(A) /\ ExistsBijection(A, B) => Cardinality(B) = Cardinality(A)
  BY FS_Bijection
<1> QED  BY <1>3, <1>4, <1>5

-----------------------------------------------------------------------------
(* News, what is paid for. A deduped list and a batch have no address      *)
(* twice, and a batch none that is stored: only the one run stores.        *)

Fresh(b) == Distinct(b) /\ \A i \in 1 .. Len(b) : b[i] \notin stored

Paid ==
  /\ fetched \in [Tasks -> Seq(Urls)] /\ batch \in [Tasks -> Seq(Urls)]
  /\ \A n \in Tasks : phase[n] = "checking" => Distinct(fetched[n])
  /\ \A n \in Tasks : phase[n] \in {"summarizing", "storing"} => Fresh(batch[n])

Informed ==
  /\ outcome \in [Tasks -> {"none", "stored", "failed"}]
  /\ \A n \in Tasks : phase[n] = "finished" => outcome[n] # "none"
  /\ AwaitedIsAnswered

LEMMA PaidInit == Init => Paid /\ Informed
  BY CallerAssumption DEF Init, Paid, Informed, AwaitedIsAnswered

LEMMA FetchPaid ==
  ASSUME NewsIInv, Paid, NEW n \in Tasks, Fetch(n)
  PROVE  Paid'
<1>1. PICK items \in Fetches : fetched' = [fetched EXCEPT ![n] = Deduped(items)]
  BY DEF Fetch
<1>2. Deduped(items) \in Seq(Urls) /\ Distinct(Deduped(items))
  BY DedupedOnce, FetchesAssumption
<1>3. phase' = [phase EXCEPT ![n] = "checking"] /\ UNCHANGED <<stored, batch>>
  BY DEF Fetch, PhaseStep
<1>4. phase \in [Tasks -> Phases] /\ fetched \in [Tasks -> Seq(Urls)]
  BY DEF NewsIInv, NewsTyped, Paid
<1>5. /\ phase'[n] = "checking" /\ fetched'[n] = Deduped(items)
      /\ \A m \in Tasks \ {n} : phase'[m] = phase[m] /\ fetched'[m] = fetched[m]
      /\ fetched' \in [Tasks -> Seq(Urls)]
  BY <1>1, <1>2, <1>3, <1>4
<1>6. \A m \in Tasks : phase'[m] = "checking" => Distinct(fetched'[m])
  BY <1>2, <1>5 DEF Paid
<1>7. \A m \in Tasks : phase'[m] \in {"summarizing", "storing"} => Fresh(batch[m])
  BY <1>5 DEF Paid
<1> QED  BY <1>3, <1>5, <1>6, <1>7 DEF Paid, Fresh, Distinct

LEMMA CheckPaid ==
  ASSUME NewsIInv, Paid, NEW n \in Tasks, Check(n)
  PROVE  Paid'
<1>1. /\ phase[n] = "checking" /\ phase' = [phase EXCEPT ![n] = "summarizing"]
      /\ batch' = [batch EXCEPT ![n] = NewItems(fetched[n])]
      /\ UNCHANGED <<stored, fetched>>
  BY DEF Check, PhaseStep
<1>2. NewItems(fetched[n]) \in Seq(Urls) /\ Fresh(NewItems(fetched[n]))
  <2>1. fetched[n] \in Seq(Urls) /\ Distinct(fetched[n])
    BY <1>1 DEF Paid
  <2> QED  BY <2>1, NewOnce DEF Fresh
<1>3. phase \in [Tasks -> Phases] /\ batch \in [Tasks -> Seq(Urls)]
  BY DEF NewsIInv, NewsTyped, Paid
<1>4. /\ phase'[n] = "summarizing" /\ batch'[n] = NewItems(fetched[n])
      /\ \A m \in Tasks \ {n} : phase'[m] = phase[m] /\ batch'[m] = batch[m]
      /\ batch' \in [Tasks -> Seq(Urls)]
  BY <1>1, <1>2, <1>3
<1>5. \A m \in Tasks : phase'[m] = "checking" => Distinct(fetched[m])
  BY <1>4 DEF Paid
<1>6. \A m \in Tasks : phase'[m] \in {"summarizing", "storing"} => Fresh(batch'[m])
  BY <1>2, <1>4 DEF Paid
<1> QED  BY <1>1, <1>4, <1>5, <1>6 DEF Paid, Fresh, Distinct

(* What a run stores is in no other batch: no other runs. *)
LEMMA EndPaid ==
  ASSUME NewsIInv, Paid, NEW n \in Tasks, Store(n) \/ FailTask(n)
  PROVE  Paid'
<1>1. /\ phase[n] \notin Ended /\ phase' = [phase EXCEPT ![n] = "finished"]
      /\ UNCHANGED <<fetched, batch>>
  BY DEF Store, FailTask, End, PhaseStep, Ended
<1>2. phase \in [Tasks -> Phases] /\ RunningIsInflight
  BY DEF NewsIInv, NewsTyped
<1>3. phase'[n] = "finished" /\ \A m \in Tasks \ {n} : phase'[m] = phase[m]
  BY <1>1, <1>2
<1>4. \A m \in Tasks : phase'[m] \in Ended
  BY <1>1, <1>2, <1>3 DEF RunningIsInflight, Ended
<1> QED  BY <1>1, <1>4 DEF Paid, Ended

LEMMA PaidStep == NewsIInv /\ Paid /\ [Next]_vars => Paid'
<1> SUFFICES ASSUME NewsIInv, Paid, [Next]_vars PROVE Paid'
  OBVIOUS
<1>0. phase \in [Tasks -> Phases]
  BY DEF NewsIInv, NewsTyped
<1>1. ASSUME UNCHANGED <<stored, fetched, batch, phase>> PROVE Paid'
  BY <1>1 DEF Paid, Fresh, Distinct
<1>2. ASSUME NEW c \in Callers, Refresh(c) PROVE Paid'
  <2>1. CASE UNCHANGED phase
    BY <1>1, <1>2, <2>1 DEF Refresh
  <2>2. ASSUME NEW n \in Tasks, phase' = [phase EXCEPT ![n] = "fetching"] PROVE Paid'
    <3>1. phase'[n] = "fetching" /\ \A m \in Tasks \ {n} : phase'[m] = phase[m]
      BY <1>0, <2>2
    <3>2. UNCHANGED <<stored, fetched, batch>>
      BY <1>2 DEF Refresh
    <3>3. /\ \A m \in Tasks : phase'[m] = "checking" => phase[m] = "checking"
          /\ \A m \in Tasks : phase'[m] \in {"summarizing", "storing"} =>
               phase[m] \in {"summarizing", "storing"}
      BY <3>1
    <3>4. \A b : (Fresh(b))' = Fresh(b)
      BY <3>2 DEF Fresh, Distinct
    <3> QED  BY <3>2, <3>3, <3>4 DEF Paid, Fresh, Distinct
  <2> QED  BY <1>2, <2>1, <2>2 DEF Refresh
<1>3. ASSUME NEW c \in Callers, Leave(c) \/ Answer(c) PROVE Paid'
  BY <1>1, <1>3 DEF Leave, Answer
<1>4. ASSUME NEW n \in Tasks, Summarize(n) PROVE Paid'
  <2>1. /\ phase[n] = "summarizing" /\ phase' = [phase EXCEPT ![n] = "storing"]
        /\ UNCHANGED <<stored, fetched, batch>>
    BY <1>4 DEF Summarize, PhaseStep
  <2>2. phase'[n] = "storing" /\ \A m \in Tasks \ {n} : phase'[m] = phase[m]
    BY <1>0, <2>1
  <2> QED  BY <2>1, <2>2 DEF Paid, Fresh, Distinct
<1>5. ASSUME NEW n \in Tasks, OnDone(n) PROVE Paid'
  <2>1. /\ phase' = [phase EXCEPT ![n] = "over"] /\ UNCHANGED stored
        /\ fetched' = [fetched EXCEPT ![n] = <<>>] /\ batch' = [batch EXCEPT ![n] = <<>>]
    BY <1>5 DEF OnDone, PhaseStep
  <2>2. /\ phase'[n] = "over"
        /\ \A m \in Tasks \ {n} :
             phase'[m] = phase[m] /\ fetched'[m] = fetched[m] /\ batch'[m] = batch[m]
        /\ fetched' \in [Tasks -> Seq(Urls)] /\ batch' \in [Tasks -> Seq(Urls)]
    BY <1>0, <2>1 DEF Paid
  <2> QED  BY <2>1, <2>2 DEF Paid, Fresh, Distinct
<1>6. CASE Tick \/ UNCHANGED vars
  BY <1>1, <1>6 DEF Tick, vars
<1> QED
  BY <1>2, <1>3, <1>4, <1>5, <1>6, FetchPaid, CheckPaid, EndPaid
     DEF Next, TaskNext, BackgroundRefresh, RefreshNow, Callers

(* What goes to the model is new and goes there once: the feeds' repeats   *)
(* and what is stored are dropped before, and nothing is stored meanwhile  *)
(* (news/scheduler.py:25-41).                                              *)
THEOREM PaidOnce == Spec => []EachPaidOnce
<1>1. Paid => EachPaidOnce
  <2> SUFFICES ASSUME Paid, NEW n \in Tasks, phase[n] \in {"summarizing", "storing"}
               PROVE  /\ Cardinality(ToSet(batch[n])) = Len(batch[n])
                      /\ ToSet(batch[n]) \cap stored = {}
    BY DEF EachPaidOnce
  <2>1. batch[n] \in Seq(Urls) /\ Fresh(batch[n])
    BY DEF Paid
  <2>2. ToSet(batch[n]) \cap stored = {}
    BY <2>1 DEF Fresh, ToSet
  <2> QED  BY <2>1, <2>2, DistinctCount DEF Fresh
<1> QED  BY <1>1, PaidInit, PaidStep, NewsInductive, PTL DEF Spec

LEMMA AnsweredStep == NewsIInv /\ Informed /\ [Next]_vars => Informed'
<1> SUFFICES ASSUME NewsIInv, Informed, [Next]_vars PROVE Informed'
  OBVIOUS
<1>0. /\ phase \in [Tasks -> Phases] /\ joined \in [Callers -> Tasks \cup {None}]
      /\ inflight \in Tasks \cup {None} /\ outcome \in [Tasks -> {"none", "stored", "failed"}]
  BY DEF NewsIInv, NewsTyped, Informed
<1> USE <1>0 DEF Informed, AwaitedIsAnswered
<1>1. ASSUME UNCHANGED <<phase, outcome, joined>> PROVE Informed'
  BY <1>1
<1>2. ASSUME NEW c \in Callers, Refresh(c) PROVE Informed'
  <2>1. CASE InProgress /\ joined' = [joined EXCEPT ![c] = inflight] /\ UNCHANGED <<phase, outcome>>
    BY <2>1 DEF InProgress
  <2>2. ASSUME NEW n \in Tasks, FreeTask(n), phase' = [phase EXCEPT ![n] = "fetching"],
               outcome' = [outcome EXCEPT ![n] = "none"], joined' = [joined EXCEPT ![c] = n]
        PROVE  Informed'
    BY <2>2 DEF FreeTask, Ended
  <2> QED  BY <1>2, <2>1, <2>2 DEF Refresh
<1>3. ASSUME NEW c \in Callers, Leave(c) \/ Answer(c) PROVE Informed'
  BY <1>3 DEF Leave, Answer
<1>4. ASSUME NEW n \in Tasks, Fetch(n) \/ Check(n) \/ Summarize(n) PROVE Informed'
  <2>1. PICK to \in {"checking", "summarizing", "storing"} :
          phase' = [phase EXCEPT ![n] = to] /\ UNCHANGED <<outcome, joined>>
    BY <1>4 DEF Fetch, Check, Summarize, PhaseStep
  <2> QED  BY <2>1 DEF Ended
<1>5. ASSUME NEW n \in Tasks, Store(n) \/ FailTask(n) PROVE Informed'
  <2>1. PICK result \in {"stored", "failed"} :
          /\ phase' = [phase EXCEPT ![n] = "finished"]
          /\ outcome' = [outcome EXCEPT ![n] = result] /\ UNCHANGED joined
    BY <1>5 DEF Store, FailTask, End, PhaseStep
  <2> QED  BY <2>1 DEF Ended
<1>6. ASSUME NEW n \in Tasks, OnDone(n) PROVE Informed'
  BY <1>6 DEF OnDone, PhaseStep, Ended
<1>7. CASE Tick \/ UNCHANGED vars
  BY <1>1, <1>7 DEF Tick, vars
<1> QED
  BY <1>2, <1>3, <1>4, <1>5, <1>6, <1>7
     DEF Next, TaskNext, BackgroundRefresh, RefreshNow, Callers

(* Nobody who awaits a run is left without its result by what the others   *)
(* do (news/scheduler.py:44-73).                                           *)
THEOREM AwaitersAnswered == Spec => []AwaitedIsAnswered
<1>1. Informed => AwaitedIsAnswered
  BY DEF Informed
<1> QED  BY <1>1, PaidInit, AnsweredStep, NewsInductive, PTL DEF Spec

-----------------------------------------------------------------------------
(* The knowledge store. In a pause, whoever may still fail has a budget:   *)
(* what is left of the pause's bound covers the rest of the call, and, as  *)
(* long as the client is not open, those queued for it as well.            *)

Budget == (Cardinality(Askers) + 1) * CallLimit
LockQueue == {a \in Askers : asker[a] = "locking"}
QueueTime == Cardinality(LockQueue) * CallLimit

KnowledgeTyped ==
  /\ asker \in [Askers -> {"idle", "locking"} \cup Waits]
  /\ spent \in [Askers -> 0 .. CallLimit]
  /\ pause \in 0 .. RetryAfter /\ refusing \in Nat /\ client \in BOOLEAN

OneOpens ==
  /\ \A a \in Askers : a \in opening <=> asker[a] = "connecting"
  /\ opening \subseteq Askers /\ \A a, b \in opening : a = b
  /\ client => opening = {}
  /\ ~client => \A a \in Askers : asker[a] \in {"idle", "locking", "connecting"}

BudgetOpen ==
  \A a \in Askers :
    /\ asker[a] \in {"querying", "inserting"} => refusing + (CallLimit - spent[a]) <= Budget
    /\ asker[a] = "embedding" => refusing + (CallLimit - spent[a]) + CallLimit <= Budget
    /\ asker[a] = "locking" => refusing + 2 * CallLimit <= Budget

BudgetClosed ==
  /\ LockQueue # {} => refusing + QueueTime + 2 * CallLimit <= Budget
  /\ \A a \in Askers : asker[a] = "connecting" =>
       refusing + (CallLimit - spent[a]) + QueueTime + 2 * CallLimit <= Budget

Budgeted ==
  /\ pause = 0 => refusing = 0
  /\ pause > 0 => (client => BudgetOpen) /\ (~client => BudgetClosed)
  /\ refusing + pause <= RetryAfter + Budget

KnowledgeIInv == KnowledgeTyped /\ OneOpens /\ Budgeted

LEMMA KnowledgeNumbers ==
  /\ RetryAfter \in Nat /\ CallLimit \in Nat /\ CallLimit > 0
  /\ Cardinality(Askers) \in Nat /\ Budget \in Nat
<1>1. Cardinality(Askers) \in Nat
  BY KnowledgeAssumption, FS_CardinalityType
<1> QED  BY <1>1, KnowledgeAssumption DEF Budget

LEMMA Times == \A n \in Nat : (n + 1) * CallLimit = n * CallLimit + CallLimit /\ n * CallLimit \in Nat
  BY KnowledgeNumbers

LEMMA TimesMore == \A m, n \in Nat : m <= n => m * CallLimit <= n * CallLimit
<1> SUFFICES ASSUME NEW m \in Nat, NEW n \in Nat, m <= n PROVE m * CallLimit <= n * CallLimit
  OBVIOUS
<1>1. PICK d \in Nat : n = m + d
  <2>1. n - m \in Nat /\ n = m + (n - m)
    OBVIOUS
  <2> QED  BY <2>1
<1>2. n * CallLimit = m * CallLimit + d * CallLimit
  BY <1>1, KnowledgeNumbers
<1> QED  BY <1>2, KnowledgeNumbers

(* The queue for the lock, and what remains of it without one who is in it *)
LEMMA QueueCounts ==
  /\ IsFiniteSet(LockQueue) /\ Cardinality(LockQueue) \in Nat
  /\ Cardinality(LockQueue) <= Cardinality(Askers)
<1>1. LockQueue \subseteq Askers
  BY DEF LockQueue
<1> QED  BY <1>1, KnowledgeAssumption, FS_Subset, FS_CardinalityType

(* With one outside the queue, the time of the queue leaves twice a call.  *)
LEMMA QueueShort ==
  ASSUME NEW a \in Askers, asker[a] # "locking"
  PROVE  QueueTime + 2 * CallLimit <= Budget
<1>1. LockQueue \subseteq Askers \ {a}
  BY DEF LockQueue
<1>2. IsFiniteSet(Askers \ {a}) /\ Cardinality(Askers \ {a}) = Cardinality(Askers) - 1
  BY KnowledgeAssumption, FS_RemoveElement
<1>3. Cardinality(LockQueue) <= Cardinality(Askers) - 1
  BY <1>1, <1>2, FS_Subset
<1>4. Cardinality(LockQueue) + 1 <= Cardinality(Askers)
  BY <1>3, QueueCounts, KnowledgeNumbers
<1>5. (Cardinality(LockQueue) + 1) * CallLimit <= Cardinality(Askers) * CallLimit
  BY <1>4, QueueCounts, KnowledgeNumbers, TimesMore
<1>6. (Cardinality(LockQueue) + 1) * CallLimit = QueueTime + CallLimit
  BY QueueCounts, Times DEF QueueTime
<1>7. Budget = Cardinality(Askers) * CallLimit + CallLimit
  BY KnowledgeNumbers, Times DEF Budget
<1>8. QueueTime \in Nat /\ Cardinality(Askers) * CallLimit \in Nat
  BY QueueCounts, KnowledgeNumbers, Times DEF QueueTime
<1> QED  BY <1>5, <1>6, <1>7, <1>8, KnowledgeNumbers

LEMMA BudgetTwice == \A a \in Askers : 2 * CallLimit <= Budget
<1> SUFFICES ASSUME NEW a \in Askers PROVE 2 * CallLimit <= Budget
  OBVIOUS
<1>1. Cardinality(Askers) # 0
  BY KnowledgeAssumption, FS_EmptySet
<1>2. 1 * CallLimit <= Cardinality(Askers) * CallLimit
  BY <1>1, KnowledgeNumbers, TimesMore
<1>3. Budget = Cardinality(Askers) * CallLimit + CallLimit
  BY KnowledgeNumbers, Times DEF Budget
<1> QED  BY <1>2, <1>3, KnowledgeNumbers, Times

LEMMA QueueTimeNat == QueueTime \in Nat
  BY QueueCounts, Times DEF QueueTime

(* One leaves the queue. *)
LEMMA QueueShrinks ==
  ASSUME NEW a \in Askers, NEW to, to # "locking", asker[a] = "locking",
         asker \in [Askers -> {"idle", "locking"} \cup Waits],
         asker' = [asker EXCEPT ![a] = to]
  PROVE  QueueTime' = QueueTime - CallLimit /\ QueueTime' \in Nat
<1>1. LockQueue' = LockQueue \ {a} /\ a \in LockQueue
  BY DEF LockQueue
<1>2. Cardinality(LockQueue') = Cardinality(LockQueue) - 1 /\ Cardinality(LockQueue') \in Nat
  BY <1>1, QueueCounts, FS_RemoveElement, FS_CardinalityType
<1>3. (Cardinality(LockQueue') + 1) * CallLimit = Cardinality(LockQueue') * CallLimit + CallLimit
      /\ Cardinality(LockQueue') * CallLimit \in Nat
  BY <1>2, Times
<1>4. Cardinality(LockQueue') + 1 = Cardinality(LockQueue)
  BY <1>2, QueueCounts
<1> QED  BY <1>3, <1>4, KnowledgeNumbers DEF QueueTime

LEMMA QueueStays ==
  ASSUME NEW a \in Askers, NEW to, to # "locking", asker[a] # "locking",
         asker \in [Askers -> {"idle", "locking"} \cup Waits],
         asker' = [asker EXCEPT ![a] = to]
  PROVE  QueueTime' = QueueTime /\ LockQueue' = LockQueue
<1>1. LockQueue' = LockQueue
  BY DEF LockQueue
<1> QED  BY <1>1 DEF QueueTime

(* A call moves on, and its clock starts again. *)
LEMMA Goes ==
  ASSUME KnowledgeTyped, NEW a \in Askers, NEW from, NEW to \in {"idle", "locking"} \cup Waits,
         Go(a, from, to)
  PROVE  /\ asker[a] = from /\ asker' = [asker EXCEPT ![a] = to]
         /\ asker' \in [Askers -> {"idle", "locking"} \cup Waits]
         /\ spent' \in [Askers -> 0 .. CallLimit]
         /\ \A b \in Askers : asker'[b] = IF b = a THEN to ELSE asker[b]
         /\ \A b \in Askers : spent'[b] = IF b = a THEN 0 ELSE spent[b]
  BY KnowledgeNumbers DEF KnowledgeTyped, Go

LEMMA BudgetSame == Budget' = Budget
  BY DEF Budget

LEMMA KnowledgeInitOk == KnowledgeInit => KnowledgeIInv
<1> SUFFICES ASSUME KnowledgeInit PROVE KnowledgeIInv
  OBVIOUS
<1>1. KnowledgeTyped
  <2>1. asker \in [Askers -> {"idle", "locking"} \cup Waits]
    BY DEF KnowledgeInit
  <2>2. spent \in [Askers -> 0 .. CallLimit]
    BY KnowledgeNumbers DEF KnowledgeInit
  <2>3. pause \in 0 .. RetryAfter /\ refusing \in Nat
    BY KnowledgeNumbers DEF KnowledgeInit
  <2>4. client \in BOOLEAN
    BY Zenon DEF KnowledgeInit
  <2> QED  BY <2>1, <2>2, <2>3, <2>4 DEF KnowledgeTyped
<1>2. OneOpens
  BY DEF KnowledgeInit, OneOpens
<1>3. Budgeted
  BY KnowledgeNumbers DEF KnowledgeInit, Budgeted
<1> QED  BY <1>1, <1>2, <1>3 DEF KnowledgeIInv

(* The moves of one thread that leave the client and the pause alone.      *)
LEMMA KnowledgeMoves ==
  ASSUME KnowledgeIInv, NEW a \in Askers,
         Ask(a) \/ OpenClient(a) \/ EmbedEnds(a) \/ QueryEnds(a)
  PROVE  KnowledgeIInv'
<1> USE KnowledgeNumbers, QueueTimeNat, BudgetSame
<1>t. KnowledgeTyped /\ OneOpens /\ Budgeted
  BY DEF KnowledgeIInv
<1>1. CASE Ask(a)
  <2>1. pause = 0 /\ UNCHANGED <<pause, refusing, client, opening>>
    BY <1>1 DEF Ask
  <2>2. PICK to \in {"locking"} \cup Waits :
          Go(a, "idle", to) /\ to # "connecting" /\ (~client => to = "locking")
    BY <1>1 DEF Ask, WithClient, Waits
  <2>3. KnowledgeTyped'
    BY <1>t, <2>1, <2>2, Goes DEF KnowledgeTyped
  <2>4. OneOpens'
    BY <1>t, <2>1, <2>2, Goes DEF OneOpens
  <2>5. Budgeted'
    BY <1>t, <2>1 DEF Budgeted
  <2> QED  BY <2>3, <2>4, <2>5 DEF KnowledgeIInv
<1>2. CASE OpenClient(a) /\ client
  <2>1. UNCHANGED <<pause, refusing, client, opening>> /\ opening = {}
    BY <1>2 DEF OpenClient
  <2>2. PICK to \in WithClient : Go(a, "locking", to)
    BY <1>2 DEF OpenClient
  <2>3. KnowledgeTyped'
    BY <1>t, <2>1, <2>2, Goes DEF KnowledgeTyped, WithClient, Waits
  <2>4. OneOpens'
    BY <1>t, <1>2, <2>1, <2>2, Goes DEF OneOpens, WithClient, Waits
  <2>5. ASSUME pause > 0 PROVE BudgetOpen'
    BY <1>t, <1>2, <2>1, <2>2, <2>5, Goes
       DEF Budgeted, BudgetOpen, WithClient, Waits, KnowledgeTyped
  <2>6. Budgeted'
    BY <1>t, <1>2, <2>1, <2>5 DEF Budgeted
  <2> QED  BY <2>3, <2>4, <2>6 DEF KnowledgeIInv
<1>3. CASE OpenClient(a) /\ ~client
  <2>1. UNCHANGED <<pause, refusing, client>> /\ opening = {} /\ opening' = {a}
    BY <1>3 DEF OpenClient
  <2>2. Go(a, "locking", "connecting")
    BY <1>3 DEF OpenClient
  <2>3. KnowledgeTyped'
    BY <1>t, <2>1, <2>2, Goes DEF KnowledgeTyped, Waits
  <2>4. OneOpens'
    BY <1>t, <1>3, <2>1, <2>2, Goes DEF OneOpens, Waits
  <2>5. a \in LockQueue /\ asker' = [asker EXCEPT ![a] = "connecting"] /\ spent'[a] = 0
        /\ \A b \in Askers : asker'[b] = "connecting" => b = a
    BY <1>t, <2>1, <2>2, Goes DEF LockQueue, Waits, OneOpens
  <2>6. QueueTime' = QueueTime - CallLimit /\ QueueTime' \in Nat
    BY <1>t, <2>2, <2>5, QueueShrinks DEF KnowledgeTyped, Go
  <2>7. ASSUME pause > 0 PROVE BudgetClosed'
    BY <1>t, <1>3, <2>1, <2>5, <2>6, <2>7 DEF Budgeted, BudgetClosed, KnowledgeTyped
  <2>8. Budgeted'
    BY <1>t, <1>3, <2>1, <2>7 DEF Budgeted
  <2> QED  BY <2>3, <2>4, <2>8 DEF KnowledgeIInv
<1>4. CASE EmbedEnds(a) \/ QueryEnds(a)
  <2>1. UNCHANGED <<pause, refusing, client, opening>>
    BY <1>4 DEF EmbedEnds, QueryEnds
  <2>2. PICK from \in {"embedding", "querying", "inserting"}, to \in {"idle", "querying"} :
          Go(a, from, to) /\ (to # "idle" => from = "embedding")
    BY <1>4 DEF EmbedEnds, QueryEnds
  <2>3. client
    BY <1>t, <2>2 DEF OneOpens, Go
  <2>4. KnowledgeTyped'
    BY <1>t, <2>1, <2>2, Goes DEF KnowledgeTyped, Waits
  <2>5. OneOpens'
    BY <1>t, <2>1, <2>2, <2>3, Goes DEF OneOpens, Waits
  <2>6. ASSUME pause > 0 PROVE BudgetOpen'
    BY <1>t, <2>1, <2>2, <2>3, <2>6, Goes DEF Budgeted, BudgetOpen, Waits, KnowledgeTyped
  <2>7. Budgeted'
    BY <1>t, <2>1, <2>3, <2>6 DEF Budgeted
  <2> QED  BY <2>4, <2>5, <2>7 DEF KnowledgeIInv
<1> QED  BY <1>1, <1>2, <1>3, <1>4

LEMMA ConnectedKeeps ==
  ASSUME KnowledgeIInv, NEW a \in Askers, Connected(a)
  PROVE  KnowledgeIInv'
<1> USE KnowledgeNumbers, QueueTimeNat, BudgetSame
<1>t. KnowledgeTyped /\ OneOpens /\ Budgeted
  BY DEF KnowledgeIInv
<1>1. PICK to \in WithClient : Go(a, "connecting", to)
  BY DEF Connected
<1>2. UNCHANGED <<pause, refusing>> /\ client' = TRUE /\ opening' = {}
  BY DEF Connected
<1>3. ~client /\ \A b \in Askers \ {a} : asker[b] \in {"idle", "locking"}
  BY <1>t, <1>1 DEF OneOpens, Go
<1>4. KnowledgeTyped'
  BY <1>t, <1>1, <1>2, Goes DEF KnowledgeTyped, WithClient, Waits
<1>5. OneOpens'
  BY <1>2, <1>1, <1>3, <1>t, Goes DEF OneOpens, WithClient, Waits
<1>6. ASSUME pause > 0 PROVE BudgetOpen'
  <2>1. refusing + QueueTime + 2 * CallLimit <= Budget
    BY <1>t, <1>1, <1>3, <1>6 DEF Budgeted, BudgetClosed, Go, KnowledgeTyped
  <2>2. refusing + 2 * CallLimit <= Budget
    BY <1>t, <2>1 DEF KnowledgeTyped
  <2>3. spent'[a] = 0
    BY <1>t, <1>1, Goes DEF WithClient, Waits
  <2>4. \A b \in Askers : b # a => asker'[b] \in {"idle", "locking"}
    BY <1>t, <1>1, <1>3, Goes DEF WithClient, Waits
  <2> QED  BY <1>t, <1>2, <2>2, <2>3, <2>4 DEF BudgetOpen, KnowledgeTyped
<1>7. Budgeted'
  BY <1>t, <1>2, <1>6 DEF Budgeted
<1> QED  BY <1>4, <1>5, <1>7 DEF KnowledgeIInv

LEMMA ConnectFailsKeeps ==
  ASSUME KnowledgeIInv, NEW a \in Askers, ConnectFails(a)
  PROVE  KnowledgeIInv'
<1> USE KnowledgeNumbers, QueueTimeNat, BudgetSame
<1>t. KnowledgeTyped /\ OneOpens /\ Budgeted
  BY DEF KnowledgeIInv
<1>1. Go(a, "connecting", "idle")
  BY DEF ConnectFails
<1>2. UNCHANGED <<refusing, client>> /\ opening' = {} /\ pause' = RetryAfter
  BY DEF ConnectFails, Pause
<1>3. ~client /\ \A b \in Askers \ {a} : asker[b] \in {"idle", "locking"}
  BY <1>t, <1>1 DEF OneOpens, Go
<1>4. KnowledgeTyped'
  BY <1>t, <1>1, <1>2, Goes DEF KnowledgeTyped, Waits
<1>5. OneOpens'
  BY <1>2, <1>1, <1>3, <1>t, Goes DEF OneOpens, Waits
<1>6. refusing + QueueTime + 2 * CallLimit <= Budget
  <2>1. CASE pause > 0
    BY <1>t, <1>1, <1>3, <2>1 DEF Budgeted, BudgetClosed, Go, KnowledgeTyped
  <2>2. CASE pause = 0
    BY <1>t, <1>1, <2>2, QueueShort DEF Budgeted, Go, KnowledgeTyped
  <2> QED  BY <1>t, <2>1, <2>2 DEF KnowledgeTyped
<1>7. QueueTime' = QueueTime /\ LockQueue' = LockQueue
  BY <1>t, <1>1, QueueStays DEF Go, KnowledgeTyped
<1>8. BudgetClosed'
  <2>1. \A b \in Askers : asker'[b] # "connecting"
    BY <1>t, <1>1, <1>3, Goes DEF Waits
  <2> QED  BY <1>2, <1>6, <1>7, <2>1 DEF BudgetClosed
<1>9. Budgeted'
  BY <1>t, <1>2, <1>3, <1>6, <1>8, KnowledgeAssumption DEF Budgeted, KnowledgeTyped
<1> QED  BY <1>4, <1>5, <1>9 DEF KnowledgeIInv

LEMMA QueryFailsKeeps ==
  ASSUME KnowledgeIInv, NEW a \in Askers, QueryFails(a)
  PROVE  KnowledgeIInv'
<1> USE KnowledgeNumbers, QueueTimeNat, BudgetSame
<1>t. KnowledgeTyped /\ OneOpens /\ Budgeted
  BY DEF KnowledgeIInv
<1>1. Go(a, "querying", "idle")
  BY DEF QueryFails
<1>2. UNCHANGED <<refusing, client, opening>> /\ pause' = RetryAfter
  BY DEF QueryFails, Pause
<1>3. client
  BY <1>t, <1>1 DEF OneOpens, Go
<1>4. KnowledgeTyped'
  BY <1>t, <1>1, <1>2, Goes DEF KnowledgeTyped, Waits
<1>5. OneOpens'
  BY <1>2, <1>1, <1>3, <1>t, Goes DEF OneOpens, Waits
<1>6. refusing <= Budget /\ BudgetOpen
  <2>1. CASE pause > 0
    BY <1>t, <1>1, <1>3, <2>1 DEF Budgeted, BudgetOpen, Go, KnowledgeTyped
  <2>2. CASE pause = 0
    BY <1>t, <2>2, BudgetTwice DEF Budgeted, BudgetOpen, KnowledgeTyped
  <2> QED  BY <1>t, <2>1, <2>2 DEF KnowledgeTyped
<1>7. BudgetOpen'
  BY <1>t, <1>1, <1>2, <1>6, Goes DEF BudgetOpen, Waits
<1>8. Budgeted'
  BY <1>t, <1>2, <1>3, <1>6, <1>7, KnowledgeAssumption DEF Budgeted, KnowledgeTyped
<1> QED  BY <1>4, <1>5, <1>8 DEF KnowledgeIInv

LEMMA KnowledgeTickKeeps ==
  ASSUME KnowledgeIInv, KnowledgeTick
  PROVE  KnowledgeIInv'
<1> USE KnowledgeNumbers, QueueTimeNat, BudgetSame
<1>t. KnowledgeTyped /\ OneOpens /\ Budgeted
  BY DEF KnowledgeIInv
<1>1. /\ \A a \in Askers : spent[a] < CallLimit
      /\ \A a \in Askers : asker[a] = "locking" => opening # {}
      /\ spent' = [a \in Askers |-> IF asker[a] \in Waits THEN spent[a] + 1 ELSE 0]
      /\ pause' = IF pause > 0 THEN pause - 1 ELSE 0
      /\ refusing' = IF pause > 1 THEN refusing + 1 ELSE 0
      /\ UNCHANGED <<asker, client, opening>>
  BY DEF KnowledgeTick
<1>2. \A a \in Askers : spent'[a] \in 0 .. CallLimit
                         /\ (asker[a] \in Waits => spent'[a] = spent[a] + 1)
  BY <1>t, <1>1 DEF KnowledgeTyped
<1>3. KnowledgeTyped'
  BY <1>t, <1>1, <1>2 DEF KnowledgeTyped
<1>4. OneOpens'
  BY <1>t, <1>1 DEF OneOpens
<1>5. LockQueue' = LockQueue /\ QueueTime' = QueueTime
  BY <1>1 DEF LockQueue, QueueTime
<1>6. ASSUME pause' > 0, client PROVE BudgetOpen'
  <2>1. BudgetOpen /\ refusing' = refusing + 1 /\ \A a \in Askers : asker[a] # "locking"
    BY <1>t, <1>1, <1>6 DEF Budgeted, KnowledgeTyped, OneOpens
  <2> QED  BY <1>t, <1>1, <1>2, <2>1 DEF BudgetOpen, KnowledgeTyped, Waits
<1>7. ASSUME pause' > 0, ~client PROVE BudgetClosed'
  <2>1. BudgetClosed /\ refusing' = refusing + 1
    BY <1>t, <1>1, <1>7 DEF Budgeted, KnowledgeTyped
  <2>2. \A a \in Askers : asker[a] = "connecting" =>
          refusing' + (CallLimit - spent'[a]) + QueueTime + 2 * CallLimit <= Budget
    BY <1>t, <1>2, <2>1 DEF BudgetClosed, KnowledgeTyped, Waits
  <2>3. ASSUME LockQueue # {} PROVE refusing' + QueueTime + 2 * CallLimit <= Budget
    <3>1. PICK a \in Askers : asker[a] = "connecting"
      BY <1>t, <1>1, <2>3 DEF LockQueue, OneOpens
    <3> QED  BY <1>t, <1>2, <2>1, <2>2, <3>1 DEF KnowledgeTyped
  <2> QED  BY <1>1, <1>5, <2>2, <2>3 DEF BudgetClosed
<1>8. Budgeted'
  BY <1>t, <1>1, <1>6, <1>7 DEF Budgeted, KnowledgeTyped
<1> QED  BY <1>3, <1>4, <1>8 DEF KnowledgeIInv

LEMMA KnowledgeStep == KnowledgeIInv /\ [KnowledgeNext]_knowledge => KnowledgeIInv'
<1> SUFFICES ASSUME KnowledgeIInv, [KnowledgeNext]_knowledge PROVE KnowledgeIInv'
  OBVIOUS
<1>1. CASE UNCHANGED knowledge
  BY <1>1 DEF knowledge, KnowledgeIInv, KnowledgeTyped, OneOpens, Budgeted, BudgetOpen, BudgetClosed,
     Budget, QueueTime, LockQueue
<1>2. ASSUME NEW a \in Askers, Skip(a) PROVE KnowledgeIInv'
  BY <1>1, <1>2 DEF Skip
<1> QED  BY <1>1, <1>2, KnowledgeMoves, ConnectedKeeps, ConnectFailsKeeps, QueryFailsKeeps,
            KnowledgeTickKeeps DEF KnowledgeNext

(* However calls fail, and whoever goes on calling: the store is skipped   *)
(* no longer than one pause and the calls that were under way              *)
(* (knowledge_store.py:250-286).                                           *)
THEOREM PauseBounded == KnowledgeSpec => []PauseIsBounded
<1>1. KnowledgeIInv => PauseIsBounded
  BY KnowledgeNumbers DEF KnowledgeIInv, KnowledgeTyped, Budgeted, PauseIsBounded, Budget
<1> QED  BY <1>1, KnowledgeInitOk, KnowledgeStep, PTL DEF KnowledgeSpec

-----------------------------------------------------------------------------
(* Searchers. The cache: the age of a fetch and the rest of its claim add  *)
(* up, and a fetch ends before its claim does.                             *)

PagesClaimed ==
  /\ page \in [Pages -> {NoFetch} \cup 0 .. FetchTime]
  /\ next \in Nat
  /\ \A p \in Pages : page[p] # NoFetch => next >= Retry - page[p]
  /\ \A p, r \in Pages : page[p] # NoFetch /\ page[r] # NoFetch => p = r

(* The gate: one thread passes it at a time, _last is not much older than  *)
(* the last passage, and whoever sleeps at the gate sleeps long enough.    *)
Query == [at : {"idle", "gate", "passing", "asking"}, attempt : Nat, sleep : Nat,
          nap : Nat, over : Nat]

GateHeld ==
  /\ query \in [Queries -> Query]
  /\ \A q \in Queries : query[q].at = "passing" <=> q \in passing
  /\ \A q, r \in passing : q = r

GateTimed ==
  /\ last \in Nat /\ passed \in Nat /\ close \in Nat
  /\ last <= passed + Oversleep
  /\ \A q \in Queries : query[q].at = "passing" =>
       query[q].over <= Oversleep /\ passed + query[q].sleep >= Spacing - Oversleep
  /\ ArxivSpaced

LEMMA SearcherNumbers ==
  /\ Spacing \in Nat /\ RestTime \in Nat /\ Backoff \in Nat /\ Ttl \in Nat /\ Retry \in Nat
  /\ FetchTime \in Nat /\ Oversleep \in Nat /\ FetchTime < Retry /\ Retry <= Ttl
  BY SpacingAssumption, FetchAssumption

LEMMA PagesStep == PagesClaimed /\ [SearchersNext]_searchers => PagesClaimed'
<1> SUFFICES ASSUME PagesClaimed, [SearchersNext]_searchers PROVE PagesClaimed'
  OBVIOUS
<1> USE SearcherNumbers DEF PagesClaimed, NoFetch
<1>1. CASE UNCHANGED trending
  BY <1>1 DEF trending
<1>2. ASSUME NEW p \in Pages, OpenPage(p) PROVE PagesClaimed'
  <2>1. next = 0 /\ next' = Retry /\ page' = [page EXCEPT ![p] = 0]
    BY <1>2 DEF OpenPage, Claim
  <2>2. \A r \in Pages : page[r] = -1
    BY <2>1
  <2> QED  BY <2>1, <2>2
<1>3. ASSUME NEW p \in Pages, FetchSucceeds(p) PROVE PagesClaimed'
  BY <1>3 DEF FetchSucceeds
<1>4. ASSUME NEW p \in Pages, FetchFails(p) PROVE PagesClaimed'
  BY <1>4 DEF FetchFails
<1>5. CASE SearchersTick
  <2>1. /\ \A p \in Pages : page[p] < FetchTime
        /\ page' = [p \in Pages |-> IF page[p] = -1 THEN -1 ELSE page[p] + 1]
        /\ next' = IF next > 0 THEN next - 1 ELSE 0
    BY <1>5 DEF SearchersTick
  <2>2. next' \in Nat /\ next' >= next - 1
    BY <2>1
  <2>3. \A p \in Pages : page'[p] \in {-1} \cup 0 .. FetchTime
    BY <2>1
  <2>4. \A p \in Pages : page'[p] # -1 => page[p] # -1 /\ page'[p] = page[p] + 1
    BY <2>1
  <2> QED  BY <2>1, <2>2, <2>3, <2>4
<1>6. ASSUME NEW q \in Queries, \/ Search(q) \/ EnterGate(q) \/ LeaveGate(q)
                                \/ SearchReturns(q) \/ RateLimited(q) \/ RetryLater(q)
      PROVE  UNCHANGED trending
  BY <1>6 DEF Search, EnterGate, LeaveGate, SearchReturns, RateLimited, RetryLater
<1> QED  BY <1>1, <1>2, <1>3, <1>4, <1>5, <1>6 DEF SearchersNext, searchers, trending

LEMMA PagesHold == SearchersSpec => []PagesClaimed
<1>1. SearchersInit => PagesClaimed
  BY SearcherNumbers DEF SearchersInit, PagesClaimed, NoFetch
<1> QED  BY <1>1, PagesStep, PTL DEF SearchersSpec

(* The trending papers are fetched by one page load at a time, however     *)
(* long a fetch takes within its timeouts (research/router.py:142-165).    *)
THEOREM TrendingFetchedOnce == SearchersSpec => []OneFetch
<1>1. PagesClaimed => OneFetch
  <2> SUFFICES ASSUME PagesClaimed PROVE OneFetch
    OBVIOUS
  <2> DEFINE F == {p \in Pages : page[p] # NoFetch}
  <2>1. CASE F = {}
    BY <2>1, FS_EmptySet DEF OneFetch
  <2>2. CASE F # {}
    <3>1. PICK p : p \in F
      BY <2>2
    <3>2. F = {p}
      BY <3>1 DEF PagesClaimed
    <3>3. Cardinality(F) = 1
      <4> HIDE DEF F
      <4> QED  BY <3>2, FS_Singleton
    <3> QED  BY <3>3 DEF OneFetch
  <2> QED  BY <2>1, <2>2
<1> QED  BY <1>1, PagesHold, PTL

-----------------------------------------------------------------------------
LEMMA Doings ==
  ASSUME NEW where \in {"idle", "gate", "passing", "asking"}, NEW n \in Nat, NEW t \in Nat
  PROVE  Doing(where, n, t) = [at |-> where, attempt |-> n, sleep |-> t, nap |-> 0, over |-> 0]
  BY DEF Doing

LEMMA GateStep == GateHeld /\ GateTimed /\ [SearchersNext]_searchers => GateHeld' /\ GateTimed'
<1> SUFFICES ASSUME GateHeld, GateTimed, [SearchersNext]_searchers
             PROVE  GateHeld' /\ GateTimed'
  OBVIOUS
<1> USE SearcherNumbers DEF GateHeld, GateTimed, ArxivSpaced
<1>1. CASE UNCHANGED arxiv
  BY <1>1 DEF arxiv
<1>2. ASSUME NEW q \in Queries, NEW where \in {"idle", "gate", "asking"}, NEW n \in Nat, NEW t \in Nat,
             query[q].at # "passing", query' = [query EXCEPT ![q] = Doing(where, n, t)],
             UNCHANGED <<passing, last, passed, close>>
      PROVE  GateHeld' /\ GateTimed'
  <2>1. Doing(where, n, t) \in Query /\ Doing(where, n, t).at # "passing"
    <3>1. /\ Doing(where, n, t) = [at |-> where, attempt |-> n, sleep |-> t, nap |-> 0, over |-> 0]
          /\ where \in {"idle", "gate", "passing", "asking"} /\ where # "passing"
      BY Doings
    <3> QED  BY <3>1 DEF Query
  <2> QED  BY <1>2, <2>1
<1>3. Still = Doing("idle", 0, 0)
  BY DEF Still
<1>4. ASSUME NEW q \in Queries, Search(q) PROVE GateHeld' /\ GateTimed'
  <2>1. CASE resting > 0
    BY <2>1, <1>4, <1>1 DEF Search, arxiv
  <2>2. CASE ~(resting > 0)
    <3>1. query[q].at # "passing"
      BY <1>4 DEF Search, Still, Doing
    <3>2. query' = [query EXCEPT ![q] = Doing("gate", 1, 0)]
      BY <1>4, <2>2 DEF Search, Becomes
    <3>3. UNCHANGED <<passing, last, passed, close>>
      BY <1>4 DEF Search
    <3> QED  BY <1>2, <3>1, <3>2, <3>3
  <2> QED  BY <2>1, <2>2
<1>5. ASSUME NEW q \in Queries, EnterGate(q) PROVE GateHeld' /\ GateTimed'
  <2> DEFINE nap == IF last < Spacing THEN Spacing - last ELSE 0
  <2>1. PICK over \in IF nap = 0 THEN {0} ELSE 0 .. Oversleep :
          Becomes(q, [at |-> "passing", attempt |-> query[q].attempt, sleep |-> nap + over,
                      nap |-> nap + over, over |-> over])
    BY <1>5 DEF EnterGate
  <2>2. nap \in Nat /\ over \in Nat /\ over <= Oversleep /\ nap + over \in Nat
        /\ query[q].attempt \in Nat
    BY DEF Query
  <2> DEFINE r == [at |-> "passing", attempt |-> query[q].attempt, sleep |-> nap + over,
                   nap |-> nap + over, over |-> over]
  <2>3. query' = [query EXCEPT ![q] = r]
    BY <2>1 DEF Becomes
  <2>4. r \in Query
    BY <2>2 DEF Query
  <2>5. r.at = "passing" /\ r.over <= Oversleep /\ passed + r.sleep >= Spacing - Oversleep
    BY <2>2
  <2>6. passing = {} /\ passing' = {q} /\ UNCHANGED <<last, passed, close>>
    BY <1>5 DEF EnterGate
  <2> HIDE DEF r
  <2> QED  BY <2>3, <2>4, <2>5, <2>6
<1>6. ASSUME NEW q \in Queries, LeaveGate(q) PROVE GateHeld' /\ GateTimed'
  <2>1. /\ query[q].at = "passing" /\ query[q].sleep = 0 /\ q \in passing
        /\ passing' = {} /\ last' = query[q].over /\ passed' = 0 /\ close' = Least(close, passed)
    BY <1>6 DEF LeaveGate, Stamp
  <2>2. passed >= Spacing - Oversleep /\ close' >= Spacing - Oversleep /\ close' \in Nat
    BY <2>1 DEF Least
  <2>3. query[q].over \in Nat /\ query[q].attempt \in Nat /\ query[q].over <= Oversleep
    BY <2>1 DEF Query
  <2>4. PICK r \in Query : query' = [query EXCEPT ![q] = r] /\ r.at # "passing"
    <3>1. Still \in Query /\ Still.at # "passing"
      BY <1>3, Doings DEF Query
    <3>2. /\ Doing("asking", query[q].attempt, 0) \in Query
          /\ Doing("asking", query[q].attempt, 0).at # "passing"
      BY <2>3, Doings DEF Query
    <3> QED  BY <1>6, <3>1, <3>2 DEF LeaveGate, Becomes
  <2>5. \A l \in Queries : query'[l].at # "passing"
    BY <2>1, <2>4
  <2> QED  BY <2>1, <2>2, <2>3, <2>4, <2>5
<1>7. ASSUME NEW q \in Queries, SearchReturns(q) \/ RateLimited(q) PROVE GateHeld' /\ GateTimed'
  BY <1>7, <1>2, <1>3 DEF SearchReturns, RateLimited, Becomes
<1>8. ASSUME NEW q \in Queries, RetryLater(q) PROVE GateHeld' /\ GateTimed'
  <2>1. query[q].attempt + 1 \in Nat
    BY DEF Query
  <2> QED  BY <1>8, <1>2, <2>1 DEF RetryLater, Becomes
<1>9. CASE SearchersTick
  <2>1. /\ \A q \in Queries : query[q].at = "passing" => query[q].sleep > 0
        /\ query' = [q \in Queries |->
             [query[q] EXCEPT !.sleep = IF query[q].sleep > 0 THEN query[q].sleep - 1 ELSE 0]]
        /\ last' = Least(last + 1, Farthest) /\ passed' = Least(passed + 1, Farthest)
        /\ UNCHANGED <<passing, close>>
    BY <1>9 DEF SearchersTick
  <2>2. \A q \in Queries :
          /\ query'[q] \in Query
          /\ query'[q].at = query[q].at /\ query'[q].over = query[q].over
          /\ query'[q].sleep = IF query[q].sleep > 0 THEN query[q].sleep - 1 ELSE 0
    BY <2>1 DEF Query
  <2>3. last' \in Nat /\ passed' \in Nat /\ last' <= passed' + Oversleep
    BY <2>1 DEF Least, Farthest
  <2>4. passed' = passed + 1 \/ passed' >= Spacing
    BY <2>1 DEF Least, Farthest
  <2>5. \A q \in Queries : query[q].sleep \in Nat
    BY DEF Query
  <2>6. ASSUME NEW q \in Queries, query'[q].at = "passing"
        PROVE  /\ query'[q].over <= Oversleep
               /\ passed' + query'[q].sleep >= Spacing - Oversleep
    BY <2>1, <2>2, <2>3, <2>4, <2>5, <2>6
  <2> QED  BY <2>1, <2>2, <2>3, <2>6
<1>10. ASSUME NEW p \in Pages, OpenPage(p) \/ FetchSucceeds(p) \/ FetchFails(p)
       PROVE  UNCHANGED arxiv
  BY <1>10 DEF OpenPage, FetchSucceeds, FetchFails
<1> QED  BY <1>1, <1>4, <1>5, <1>6, <1>7, <1>8, <1>9, <1>10 DEF SearchersNext, searchers, arxiv

(* However the queries of parallel runs and their retries meet at the      *)
(* gate, arXiv is asked no more often than every Spacing less Oversleep    *)
(* (search/academic.py:62-100).                                            *)
THEOREM ArxivIsSpared == SearchersSpec => []ArxivSpaced
<1>1. SearchersInit => GateHeld /\ GateTimed
  BY SearcherNumbers, Doings DEF SearchersInit, GateHeld, GateTimed, Still, Query, Farthest, ArxivSpaced
<1>2. GateHeld /\ GateTimed => ArxivSpaced
  BY DEF GateTimed
<1> QED  BY <1>1, <1>2, GateStep, PTL DEF SearchersSpec

-----------------------------------------------------------------------------
(***************************************************************************)
(* What a research run hands to the knowledge store, how soon it stops and *)
(* what its answer rests on, for any sources, searches and number of       *)
(* rounds.                                                                 *)
(***************************************************************************)

Before == {"gate", "thin", "maybe", "judging", "topup", "search", "searching"}
Extra == {"iterate", "rewrite"}
After == {"rag", "sections", "loop", "finish"} \cup Extra
Bags == [Sources -> Nat]
Empty(bag) == \A s \in Sources : bag[s] = 0
Within(part, bag) == \A s \in Sources : part[s] <= bag[s]
Same(one, other) == \A s \in Sources : one[s] = other[s]

RunTyped ==
  /\ at \in Before \cup {"decided"} \cup After \cup RunEnded
  /\ {newly, dispatched, handed} \subseteq Bags
  /\ {persist, storing} \subseteq BOOLEAN
  /\ rounds \in Nat
  /\ fresh \subseteq Sources

(* Nothing is fetched before the decision, and nothing handed over before  *)
(* the synthesis; a live search has found the store empty.                 *)
NothingYet ==
  /\ at \in Before => Empty(newly) /\ reason # "sufficient"
  /\ at \in Before \cup {"decided"} => Empty(dispatched) /\ Empty(handed) /\ rounds = 0
                                       /\ ~storing
  /\ at \in {"search", "searching"} => fresh = {}
  /\ at \in Extra => rounds > 0

StoreSuffices ==
  reason = "sufficient" => Empty(newly) /\ at \notin {"sections", "loop"} \cup Extra

(* The first batch is on its way, or has arrived as a whole. *)
Handing ==
  /\ Within(dispatched, newly)
  /\ storing => persist /\ Empty(handed) /\ at # "done"
  /\ at \in After /\ persist /\ ~storing => Same(handed, dispatched)

Handed ==
  /\ at = "done" /\ persist => Same(handed, newly)
  /\ Within(handed, newly)
  /\ ~persist => Empty(handed)
  /\ rounds = 0 => \A s \in fresh : newly[s] = 0

RunIInv == RunTyped /\ NothingYet /\ StoreSuffices /\ Handing /\ Handed

LEMMA Extensional ==
  ASSUME NEW one \in Bags, NEW other \in Bags, Same(one, other)
  PROVE  one = other
  BY DEF Same, Bags

LEMMA EmptyIsNothing ==
  ASSUME NEW bag \in Bags
  PROVE  Empty(bag) <=> bag = Nothing
  BY DEF Empty, Bags, Nothing

LEMMA RunIInvImplies == RunIInv => FetchedIsStored
  <1> SUFFICES ASSUME RunIInv PROVE FetchedIsStored
    OBVIOUS
  <1>1. at = "done" /\ persist => handed = newly
    BY Extensional DEF RunIInv, RunTyped, Handed
  <1>2. \A s \in Sources : handed[s] <= newly[s] /\ (~persist => handed[s] = 0)
    BY DEF RunIInv, Handed, Within, Empty
  <1>3. reason = "sufficient" => newly = Nothing
    BY EmptyIsNothing DEF RunIInv, RunTyped, StoreSuffices
  <1> QED
    BY <1>1, <1>2, <1>3 DEF RunIInv, Handed, FetchedIsStored

LEMMA PlusIsMore ==
  ASSUME NEW bag \in Bags, NEW S
  PROVE  /\ Plus(bag, S) \in Bags
         /\ Within(bag, Plus(bag, S))
         /\ \A s \in Sources \ S : Plus(bag, S)[s] = bag[s]
  BY DEF Plus, Bags, Within

(* Steps that fetch nothing and hand over nothing. *)
Untouched == UNCHANGED <<newly, dispatched, handed, storing, persist, rounds>>

LEMMA PlainSteps ==
  ASSUME RunIInv, Untouched, fresh' \subseteq Sources,
         at' \in Before \cup {"decided"} \cup After \cup RunEnded,
         at' \in Before => at \in Before /\ reason' # "sufficient",
         at' = "decided" => at \in Before,
         at' \in After => at \in After,
         at' = "done" => at = "done",
         at' \in Extra => at \in Extra,
         at' \in {"search", "searching"} => fresh' = {},
         fresh' = fresh \/ at \in Before,
         reason' = "sufficient" => (reason = "sufficient" \/ at \in Before),
         reason' = "sufficient" => at' \notin {"sections", "loop"} \cup Extra
  PROVE  RunIInv'
  <1>1. RunTyped'
    BY DEF RunIInv, RunTyped, Untouched
  <1>2. NothingYet'
    BY DEF RunIInv, NothingYet, Untouched, Empty
  <1>3. StoreSuffices'
    BY DEF RunIInv, StoreSuffices, NothingYet, Untouched, Empty
  <1>4. Handing'
    BY DEF RunIInv, Handing, Untouched, Empty, Within, Same
  <1>5. Handed'
    BY DEF RunIInv, Handed, NothingYet, Untouched, Empty, Within, Same
  <1> QED
    BY <1>1, <1>2, <1>3, <1>4, <1>5 DEF RunIInv

(* The end of a search round: what it found is added to what was fetched.  *)
LEMMA FetchStep ==
  ASSUME RunIInv, NEW S, newly' = Plus(newly, S),
         \/ at \in {"topup", "searching"} /\ at' = "decided" /\ S \cap fresh = {}
         \/ at = "rewrite" /\ at' = "loop",
         reason' \in {reason, "top_up_failed"},
         UNCHANGED <<dispatched, handed, storing, persist, rounds, fresh>>
  PROVE  RunIInv'
  <1>1. /\ newly' \in Bags
        /\ Within(newly, newly')
        /\ \A s \in Sources \ S : newly'[s] = newly[s]
    BY PlusIsMore DEF RunIInv, RunTyped
  <1>2. reason # "sufficient" /\ reason' # "sufficient"
    BY DEF RunIInv, StoreSuffices, NothingYet, Before, Extra
  <1>3. RunTyped'
    BY <1>1 DEF RunIInv, RunTyped, After
  <1>4. Within(dispatched, newly') /\ Within(handed, newly')
    BY <1>1 DEF RunIInv, RunTyped, Handing, Handed, Within, Bags
  <1>5. NothingYet'
    BY <1>2 DEF RunIInv, NothingYet, Before, Extra, Empty
  <1>6. StoreSuffices'
    BY <1>2 DEF StoreSuffices
  <1>7. Handing'
    BY <1>4 DEF RunIInv, Handing, After, Empty, Within, Same, Extra
  <1>8. Handed'
    <2>1. rounds = 0 => \A s \in fresh : newly'[s] = 0
      BY <1>1 DEF RunIInv, RunTyped, NothingYet, Handed, Extra
    <2> QED
      BY <1>4, <2>1 DEF RunIInv, Handed, Empty, Within
  <1> QED
    BY <1>3, <1>5, <1>6, <1>7, <1>8 DEF RunIInv

(* The first batch is cut: everything there is so far, if it is to be      *)
(* kept and there is any.                                                  *)
LEMMA SynthesizeStep ==
  ASSUME RunIInv, Synthesize
  PROVE  RunIInv'
  <1>1. CASE cancel
    <2>1. Untouched /\ at' = "cancelled" /\ UNCHANGED <<fresh, reason>>
      BY <1>1 DEF Synthesize, GotoUnlessCancelled, Goto, Untouched, gathered, answered, gate
    <2> QED
      BY <2>1, PlainSteps DEF RunIInv, RunTyped, Before, After, Extra, RunEnded
  <1>2. CASE ~cancel
    <2>1. /\ at = "decided"
          /\ at' = IF reason = "sufficient" THEN "rag" ELSE "sections"
          /\ dispatched' = newly /\ storing' = (persist /\ newly # Nothing)
          /\ UNCHANGED <<persist, fresh, reason, newly, handed, rounds>>
      BY <1>2 DEF Synthesize, GotoUnlessCancelled, Goto, gathered, answered, gate
    <2>2. Empty(handed) /\ rounds = 0
      BY <2>1 DEF RunIInv, NothingYet
    <2>3. RunTyped' /\ NothingYet' /\ StoreSuffices'
      BY <2>1, <2>2 DEF RunIInv, RunTyped, NothingYet, StoreSuffices, Before, After, Extra, Empty
    <2>4. Handing'
      <3>1. Within(dispatched', newly')
        BY <2>1 DEF RunIInv, RunTyped, Bags, Within
      <3>2. persist' /\ ~storing' => Same(handed', dispatched')
        BY <2>1, <2>2, EmptyIsNothing DEF RunIInv, RunTyped, Empty, Same
      <3> QED
        BY <2>1, <2>2, <3>1, <3>2 DEF Handing, Empty
    <2>5. Handed'
      BY <2>1 DEF RunIInv, Handed, Empty, Within
    <2> QED
      BY <2>3, <2>4, <2>5 DEF RunIInv
  <1> QED
    BY <1>1, <1>2

LEMMA AllOfIsSum ==
  ASSUME NEW bag \in Bags, NEW more \in Bags
  PROVE  /\ AllOf(bag, more) \in Bags
         /\ \A s \in Sources : AllOf(bag, more)[s] = bag[s] + more[s]
  BY DEF AllOf, Bags

LEMMA StoreBatchStep ==
  ASSUME RunIInv, StoreBatch
  PROVE  RunIInv'
  <1>1. /\ storing /\ storing' = FALSE
        /\ handed' = AllOf(handed, dispatched)
        /\ UNCHANGED <<at, persist, fresh, reason, newly, dispatched, rounds>>
    BY DEF StoreBatch, gate, gathered, answered
  <1>2. persist /\ Empty(handed) /\ at # "done" /\ at \notin Before \cup {"decided"}
    BY <1>1 DEF RunIInv, Handing, NothingYet
  <1>3. handed' \in Bags /\ Same(handed', dispatched)
    BY <1>1, <1>2, AllOfIsSum DEF RunIInv, RunTyped, Same, Empty, Bags
  <1>4. RunTyped' /\ NothingYet' /\ StoreSuffices'
    BY <1>1, <1>2, <1>3 DEF RunIInv, RunTyped, NothingYet, StoreSuffices, Empty
  <1>5. Handing'
    BY <1>1, <1>3 DEF RunIInv, Handing, Within, Same
  <1>6. Handed'
    BY <1>1, <1>2, <1>3 DEF RunIInv, Handing, Handed, Within, Same
  <1> QED
    BY <1>4, <1>5, <1>6 DEF RunIInv

LEMMA NextRoundStep ==
  ASSUME RunIInv, NextRound
  PROVE  RunIInv'
  <1>1. /\ at = "loop" /\ at' \in {"iterate", "finish", "cancelled"}
        /\ rounds' \in {rounds, rounds + 1}
        /\ at' = "iterate" => rounds' = rounds + 1
        /\ UNCHANGED <<persist, fresh, reason, newly, dispatched, storing, handed>>
    BY DEF NextRound, GotoUnlessCancelled, Goto, gate, gathered, store, RunIInv, RunTyped
  <1>2. reason # "sufficient" /\ rounds' \in Nat /\ (rounds' = 0 => rounds = 0)
    BY <1>1 DEF RunIInv, RunTyped, StoreSuffices
  <1>3. RunTyped' /\ StoreSuffices'
    BY <1>1, <1>2 DEF RunIInv, RunTyped, StoreSuffices, After, RunEnded, Extra
  <1>4. NothingYet'
    BY <1>1, <1>2 DEF RunIInv, RunTyped, NothingYet, Before, Extra
  <1>5. Handing' /\ Handed'
    BY <1>1, <1>2 DEF RunIInv, Handing, Handed, After, Empty, Within, Same
  <1> QED
    BY <1>3, <1>4, <1>5 DEF RunIInv

(* What is left goes after the batch that has arrived. *)
LEMMA FinishStep ==
  ASSUME RunIInv, Finish
  PROVE  RunIInv'
  <1>1. /\ at = "finish" /\ at' = "done" /\ ~storing
        /\ handed' = IF persist THEN AllOf(handed, Remaining) ELSE handed
        /\ UNCHANGED <<persist, fresh, reason, newly, dispatched, storing, rounds>>
    BY DEF Finish, Goto, gate, gathered, answered
  <1>2. Remaining \in Bags /\ \A s \in Sources : Remaining[s] = newly[s] - dispatched[s]
    BY DEF RunIInv, RunTyped, Handing, Within, Remaining, Bags
  <1>3. handed' \in Bags /\ (persist => Same(handed', newly)) /\ (~persist => handed' = handed)
    BY <1>1, <1>2, AllOfIsSum DEF RunIInv, RunTyped, Handing, After, Same, Bags
  <1>4. RunTyped'
    BY <1>1, <1>3 DEF RunIInv, RunTyped, RunEnded
  <1>5. NothingYet' /\ StoreSuffices'
    BY <1>1 DEF RunIInv, NothingYet, StoreSuffices, Before, Empty, Extra
  <1>6. Handing'
    BY <1>1 DEF RunIInv, Handing, After, Empty, Within, Extra
  <1>7. Handed'
    BY <1>1, <1>3 DEF RunIInv, RunTyped, Handed, Empty, Within, Same, Bags
  <1> QED
    BY <1>4, <1>5, <1>6, <1>7 DEF RunIInv

(* Up to the decision. *)
LEMMA GateSteps ==
  ASSUME RunIInv,
         \/ \E F \in SUBSET Sources : Assess(F)
         \/ EnterGap \/ BeginSearch
         \/ \E reply \in Replies : Judge(reply)
         \/ \E came \in SUBSET Sources : SearchEnds(came)
  PROVE  RunIInv'
  <1>1. ASSUME NEW F \in SUBSET Sources, Assess(F) PROVE RunIInv'
    <2>1. /\ Untouched /\ at = "gate" /\ fresh' = F
          /\ at' \in {"search", "thin", "maybe"} /\ (at' = "search" => F = {})
          /\ reason' # "sufficient"
      BY <1>1 DEF Assess, States, Untouched, gathered, store, answered
    <2> QED
      BY <2>1, PlainSteps DEF Before, After, Extra
  <1>2. ASSUME EnterGap \/ BeginSearch PROVE RunIInv'
    <2>1. /\ Untouched /\ UNCHANGED <<fresh, reason>>
          /\ at \in Before /\ at' \in {"topup", "judging", "searching", "cancelled"}
          /\ at' = "searching" => at = "search"
      BY <1>2 DEF EnterGap, BeginSearch, GotoUnlessCancelled, Goto, Untouched, Before,
                  gathered, store, answered, gate
    <2> QED
      BY <2>1, PlainSteps DEF RunIInv, RunTyped, NothingYet, Before, After, Extra, RunEnded
  <1>3. ASSUME NEW reply \in Replies, Judge(reply) PROVE RunIInv'
    <2>1. /\ Untouched /\ UNCHANGED fresh
          /\ at = "judging" /\ at' \in {"decided", "topup", "cancelled"}
          /\ at' # "decided" => reason' = reason
      BY <1>3 DEF Judge, GotoUnlessCancelled, Goto, Untouched, store, answered
    <2> QED
      BY <2>1, PlainSteps DEF RunIInv, RunTyped, NothingYet, Before, After, Extra, RunEnded
  <1>4. ASSUME NEW came \in SUBSET Sources, SearchEnds(came) PROVE RunIInv'
    <2>1. Untouched /\ UNCHANGED <<at, fresh, reason>> /\ at = "searching"
      BY <1>4 DEF SearchEnds, Untouched, gathered, store, answered, gate
    <2> QED
      BY <2>1, PlainSteps DEF RunIInv, RunTyped, NothingYet, Before, After, Extra, RunEnded
  <1> QED
    BY <1>1, <1>2, <1>3, <1>4

(* The steps that add to what was fetched. *)
LEMMA FetchSteps ==
  ASSUME RunIInv, NEW S,
         TopUp(S) \/ EndSearch(S) \/ \E a \in Answers : Iterate(a)
  PROVE  RunIInv'
  <1>1. CASE TopUp(S)
    <2>1. /\ at = "topup" /\ at' = "decided" /\ newly' = Plus(newly, S \ fresh)
          /\ reason' \in {reason, "top_up_failed"}
          /\ UNCHANGED <<dispatched, handed, storing, persist, rounds, fresh>>
      BY <1>1 DEF TopUp, Goto, Newly, store, answered
    <2>2. (S \ fresh) \cap fresh = {}
      OBVIOUS
    <2> QED
      BY <2>1, <2>2, FetchStep
  <1>2. CASE EndSearch(S)
    <2>1. /\ at = "searching"
          /\ UNCHANGED <<dispatched, handed, storing, persist, rounds, fresh, reason>>
      BY <1>2 DEF EndSearch, GotoUnlessCancelled, Goto, gate, store, answered
    <2>2. CASE cancel
      <3>1. Untouched /\ at' = "cancelled"
        BY <1>2, <2>1, <2>2 DEF EndSearch, GotoUnlessCancelled, Goto, Untouched, gathered
      <3> QED
        BY <2>1, <3>1, PlainSteps DEF RunIInv, RunTyped, NothingYet, Before, After, Extra, RunEnded
    <2>3. CASE ~cancel
      <3>1. newly' = Plus(newly, S) /\ at' = "decided"
        BY <1>2, <2>3 DEF EndSearch, GotoUnlessCancelled, Goto
      <3>2. S \cap fresh = {}
        BY <2>1 DEF RunIInv, NothingYet
      <3> QED
        BY <2>1, <3>1, <3>2, FetchStep
    <2> QED
      BY <2>2, <2>3
  <1>3. ASSUME NEW a \in Answers, Iterate(a) PROVE RunIInv'
    <2>1. /\ at = "rewrite" /\ at' = "loop" /\ newly' = Plus(newly, merged \ sources)
          /\ UNCHANGED <<dispatched, handed, storing, persist, rounds, fresh, reason>>
      BY <1>3 DEF Iterate, Goto, Newly, gate, store
    <2> QED
      BY <2>1, FetchStep
  <1> QED
    BY <1>1, <1>2, <1>3

LEMMA Stuttering ==
  ASSUME RunIInv, Untouched, UNCHANGED <<at, fresh, reason>>
  PROVE  RunIInv'
  <1>1. RunTyped' /\ NothingYet' /\ StoreSuffices'
    BY DEF RunIInv, RunTyped, NothingYet, StoreSuffices, Untouched, Empty
  <1>2. Handing' /\ Handed'
    BY DEF RunIInv, Handing, Handed, Untouched, Empty, Within, Same
  <1> QED
    BY <1>1, <1>2 DEF RunIInv

(* From the synthesis on, what only answers, fails or stops. *)
LEMMA AnswerSteps ==
  ASSUME RunIInv,
         \/ \E a \in Answers : AnswerFromStore(a) \/ StreamSections(a)
         \/ \E S : FillGap(S)
         \/ IterateFails \/ ResearchFails \/ RaiseCancel
  PROVE  RunIInv'
  <1>1. Untouched /\ UNCHANGED <<fresh, reason>>
    BY DEF AnswerFromStore, StreamSections, FillGap, IterateFails, ResearchFails, RaiseCancel,
           Untouched, gathered, store, answered, gate
  <1>2. \/ at = "rag" /\ at' = "finish"
        \/ at = "sections" /\ at' \in {"loop", "cancelled"}
        \/ at = "iterate" /\ at' = "rewrite"
        \/ at \in Extra /\ at' = "finish"
        \/ at' = "error"
        \/ at' = at
    BY DEF Extra, AnswerFromStore, StreamSections, FillGap, IterateFails, ResearchFails, RaiseCancel,
           GotoUnlessCancelled, Goto
  <1>3. CASE at' = at
    BY <1>1, <1>3, Stuttering
  <1>4. CASE \/ at = "rag" /\ at' = "finish"
             \/ at = "sections" /\ at' \in {"loop", "cancelled"}
             \/ at = "iterate" /\ at' = "rewrite"
             \/ at \in Extra /\ at' = "finish"
             \/ at' = "error"
    <2>1. reason' = "sufficient" => at' \notin {"sections", "loop"} \cup Extra
      BY <1>1, <1>4 DEF RunIInv, StoreSuffices, Extra
    <2> QED
      BY <1>1, <1>4, <2>1, PlainSteps DEF RunIInv, RunTyped, Before, After, Extra, RunEnded
  <1> QED
    BY <1>2, <1>3, <1>4

LEMMA ResearchStep == RunIInv /\ [ResearchNext]_research => RunIInv'
  <1> SUFFICES ASSUME RunIInv, [ResearchNext]_research PROVE RunIInv'
    OBVIOUS
  <1>1. CASE UNCHANGED research
    BY <1>1, Stuttering DEF research, Untouched
  <1>2. CASE ResearchNext
    BY <1>2, GateSteps, FetchSteps, SynthesizeStep, StoreBatchStep, AnswerSteps, NextRoundStep,
       FinishStep DEF ResearchNext
  <1> QED
    BY <1>1, <1>2

LEMMA ResearchBegins == ResearchInit => RunIInv
  <1> SUFFICES ASSUME ResearchInit PROVE RunIInv
    OBVIOUS
  <1>1. newly = Nothing /\ dispatched = Nothing /\ handed = Nothing /\ Nothing \in Bags
    BY DEF ResearchInit, Nothing, Bags
  <1>2. Empty(newly) /\ Empty(dispatched) /\ Empty(handed)
    BY <1>1, EmptyIsNothing
  <1>3. RunTyped /\ NothingYet /\ StoreSuffices
    BY <1>1, <1>2 DEF ResearchInit, RunTyped, NothingYet, StoreSuffices, Before, After, Extra
  <1>4. Handing /\ Handed
    BY <1>2 DEF ResearchInit, Handing, Handed, Within, Empty, After, Extra
  <1> QED
    BY <1>3, <1>4 DEF RunIInv

(* A finished run has handed the knowledge store exactly what it fetched:  *)
(* the batch the thread of _dispatch_store takes and the rest that is      *)
(* given after it (agent.py:340-360, 700-744), and a guest's run nothing.  *)
THEOREM FetchedGoesToStore == ResearchSpec => []FetchedIsStored
  <1>1. RunIInv /\ [ResearchNext]_research => RunIInv'
    BY ResearchStep
  <1> QED
    BY <1>1, ResearchBegins, RunIInvImplies, PTL DEF ResearchSpec

-----------------------------------------------------------------------------
(* Once the flag is up, a round that ends leads to no place from which     *)
(* another could begin without the flag being read.                        *)
Rounding == {"topup", "searching", "iterate"}
Stopping ==
  /\ cancel \in BOOLEAN
  /\ late \in {0, 1}
  /\ late = 1 => cancel /\ at \notin Rounding

LEMMA StoppingStep == Stopping /\ [ResearchNext]_research => Stopping'
  <1> SUFFICES ASSUME Stopping, [ResearchNext]_research PROVE Stopping'
    OBVIOUS
  <1> USE DEF Stopping, Rounding, live, gate, store, gathered, answered
  <1>1. CASE UNCHANGED research
    BY <1>1 DEF research
  <1>2. ASSUME NEW S, Assess(S) \/ SearchEnds(S) PROVE Stopping'
    BY <1>2 DEF Assess, States, SearchEnds
  <1>3. ASSUME NEW S, TopUp(S) \/ EndSearch(S) PROVE Stopping'
    BY <1>3 DEF TopUp, EndSearch, Goto, GotoUnlessCancelled, SearchRoundEnds
  <1>4. ASSUME NEW S, NEW a, FillGap(S) \/ Iterate(a) PROVE Stopping'
    BY <1>4 DEF FillGap, Iterate, Goto, SearchRoundEnds
  <1>5. ASSUME NEW reply, Judge(reply) PROVE Stopping'
    BY <1>5 DEF Judge, GotoUnlessCancelled, Goto
  <1>6. ASSUME NEW a, AnswerFromStore(a) \/ StreamSections(a) PROVE Stopping'
    BY <1>6 DEF AnswerFromStore, StreamSections, GotoUnlessCancelled, Goto
  <1>7. CASE EnterGap \/ BeginSearch \/ Synthesize \/ NextRound \/ IterateFails
    BY <1>7 DEF EnterGap, BeginSearch, Synthesize, NextRound, IterateFails,
                GotoUnlessCancelled, Goto
  <1>8. CASE StoreBatch \/ Finish \/ ResearchFails \/ RaiseCancel
    BY <1>8 DEF StoreBatch, Finish, ResearchFails, RaiseCancel, Goto
  <1> HIDE DEF Stopping, Rounding, live, gate, store, gathered, answered
  <1>9. CASE ResearchNext
    BY <1>2, <1>3, <1>4, <1>5, <1>6, <1>7, <1>8, <1>9 DEF ResearchNext
  <1> QED
    BY <1>1, <1>9

(* A run reads the cancel flag often enough that a client who has left     *)
(* pays for one more search round at most (agent.py:455-738).              *)
THEOREM CancelStopsSearching == ResearchSpec => []OneRoundAfterCancel
  <1>1. ResearchInit => Stopping
    <2> SUFFICES ASSUME ResearchInit PROVE Stopping
      OBVIOUS
    <2>1. cancel \in BOOLEAN
      BY DEF ResearchInit
    <2>2. late \in {0, 1} /\ late # 1
      BY DEF ResearchInit
    <2> QED
      BY <2>1, <2>2 DEF Stopping
  <1>2. Stopping => OneRoundAfterCancel
    BY DEF Stopping, OneRoundAfterCancel
  <1> QED
    BY <1>1, <1>2, StoppingStep, PTL DEF ResearchSpec

-----------------------------------------------------------------------------
(* What the run holds was stored before or has been fetched by it, and its *)
(* answer is written from that: a round keeps its own until it is done.    *)
Answering == {"loop", "finish", "done"} \cup Extra

Sourced ==
  /\ sources \subseteq Sources /\ merged \subseteq Sources /\ found \subseteq Sources
  /\ at \in Before => sources = {}
  /\ \A s \in sources : s \in fresh \/ newly[s] > 0
  /\ at \in Answering => output.basis = sources

LEMMA RankedWithin ==
  ASSUME NEW S, NEW R \in Ranked(S)
  PROVE  R \subseteq S
  BY DEF Ranked, Deduplicated

LEMMA ProcessedWithin ==
  ASSUME NEW S, NEW R \in Processed(S)
  PROVE  R \subseteq S
  <1>1. PICK Q \in Relevant(S) : R \in Ranked(Q)
    BY DEF Processed
  <1>2. Q \subseteq S
    BY DEF Relevant
  <1> QED
    BY <1>1, <1>2, RankedWithin

(* What is added to the fetched ones counts, and none is forgotten.        *)
LEMMA PlusCounts ==
  ASSUME NEW bag \in Bags, NEW S, NEW s \in Sources
  PROVE  /\ s \in S => Plus(bag, S)[s] > 0
         /\ bag[s] > 0 => Plus(bag, S)[s] > 0
  BY DEF Plus, Bags

(* Steps that gather nothing, and write nothing. *)
LEMMA SourcesStay ==
  ASSUME Sourced, UNCHANGED <<sources, newly>>,
         merged' \subseteq Sources, found' \subseteq Sources,
         fresh' = fresh \/ at \in Before,
         at' \in Before => at \in Before,
         at' \in Answering => (at \in Answering /\ output' = output) \/ output'.basis = sources
  PROVE  Sourced'
  <1>1. at' \in Before => sources' = {}
    BY DEF Sourced
  <1>2. \A s \in sources' : s \in fresh' \/ newly'[s] > 0
    BY DEF Sourced
  <1>3. at' \in Answering => output'.basis = sources'
    BY DEF Sourced
  <1> QED
    BY <1>1, <1>2, <1>3 DEF Sourced

(* Steps that replace the sources and count what is new among them.        *)
LEMMA SourcesGathered ==
  ASSUME RunIInv, Sourced, NEW S \in SUBSET Sources, NEW base,
         base \subseteq sources \cup fresh,
         sources' = S, newly' = Plus(newly, S \ base), fresh' = fresh,
         merged' \subseteq Sources, found' \subseteq Sources, at' \notin Before,
         at' \in Answering => output'.basis = S
  PROVE  Sourced'
  <1>1. ASSUME NEW s \in S PROVE s \in fresh' \/ newly'[s] > 0
    <2>0. newly \in Bags /\ s \in Sources
      BY DEF RunIInv, RunTyped
    <2>1. CASE s \in base
      <3>1. s \in fresh \/ newly[s] > 0
        BY <2>1 DEF Sourced
      <3> QED
        BY <2>0, <3>1, PlusCounts
    <2>2. CASE s \notin base
      <3>1. s \in S \ base
        BY <2>2
      <3> QED
        BY <2>0, <3>1, PlusCounts
    <2> QED
      BY <2>1, <2>2
  <1> QED
    BY <1>1 DEF Sourced

LEMMA SourcedStep == RunIInv /\ Sourced /\ [ResearchNext]_research => Sourced'
  <1> SUFFICES ASSUME RunIInv, Sourced, [ResearchNext]_research PROVE Sourced'
    OBVIOUS
  <1>0. /\ sources \subseteq Sources /\ merged \subseteq Sources /\ found \subseteq Sources
        /\ fresh \subseteq Sources
    BY DEF Sourced, RunIInv, RunTyped
  <1>1. ASSUME NEW S \in SUBSET Sources, Assess(S) \/ SearchEnds(S) \/ FillGap(S)
        PROVE  Sourced'
    <2>1. UNCHANGED <<sources, newly, output>>
      BY <1>1 DEF Assess, SearchEnds, FillGap, gathered, answered
    <2>2. merged' \subseteq Sources /\ found' \subseteq Sources
      BY <1>0, <1>1 DEF Assess, SearchEnds, FillGap, live
    <2>3. /\ at' \in Before => at \in Before
          /\ at' \in Answering => at \in Answering
          /\ fresh' = fresh \/ at \in Before
      BY <1>1 DEF Assess, States, SearchEnds, FillGap, Goto, gate, Before, Answering, Extra
    <2> QED
      BY <2>1, <2>2, <2>3, SourcesStay
  <1>2. ASSUME NEW S \in SUBSET Sources, TopUp(S) PROVE Sourced'
    <2>1. /\ sources' = S /\ newly' = Plus(newly, S \ fresh) /\ fresh' = fresh
          /\ at' = "decided" /\ UNCHANGED <<merged, found>>
      BY <1>2 DEF TopUp, Goto, Newly, live
    <2> QED
      BY <1>0, <2>1, SourcesGathered DEF Before, Answering, Extra
  <1>3. ASSUME NEW S, EndSearch(S) PROVE Sourced'
    <2>1. /\ at = "searching" /\ S \in SUBSET Sources
          /\ UNCHANGED <<merged, found, fresh>>
      BY <1>0, <1>3, ProcessedWithin DEF EndSearch, GotoUnlessCancelled, Goto, live, gate
    <2>2. CASE cancel
      <3>1. UNCHANGED <<sources, newly>> /\ at' = "cancelled"
        BY <1>3, <2>2 DEF EndSearch, GotoUnlessCancelled, Goto, gathered
      <3> QED
        BY <1>0, <2>1, <3>1, SourcesStay DEF Before, Answering, Extra
    <2>3. CASE ~cancel
      <3>0. sources' = S /\ newly' = Plus(newly, S) /\ at' = "decided"
        BY <1>3, <2>3 DEF EndSearch, GotoUnlessCancelled, Goto
      <3>1. sources' = S /\ newly' = Plus(newly, S \ {}) /\ at' = "decided"
        <4>1. S \ {} = S
          OBVIOUS
        <4> QED
          BY <3>0, <4>1
      <3>2. at' \notin Before /\ at' \notin Answering
        BY <3>1 DEF Before, Answering, Extra
      <3>3. PICK base : base = {}
        OBVIOUS
      <3>4. base \subseteq sources \cup fresh /\ newly' = Plus(newly, S \ base)
        BY <3>1, <3>3
      <3>5. S \in SUBSET Sources /\ fresh' = fresh /\ sources' = S
        BY <2>1, <3>1
      <3>6. merged' \subseteq Sources /\ found' \subseteq Sources
        BY <1>0, <2>1
      <3>7. RunIInv /\ Sourced
        OBVIOUS
      <3> QED
        BY ONLY <3>2, <3>4, <3>5, <3>6, <3>7, SourcesGathered
    <2> QED
      BY <2>2, <2>3
  <1>4. ASSUME NEW a \in Answers, Iterate(a) PROVE Sourced'
    <2>1. /\ sources' = merged /\ newly' = Plus(newly, merged \ sources)
          /\ UNCHANGED <<fresh, found>> /\ merged' = {} /\ at' = "loop"
          /\ output' = [answer |-> a, basis |-> merged]
      BY <1>4 DEF Iterate, Goto, Newly, Written, gate
    <2>2. output'.basis = merged /\ at' \notin Before
      BY <2>1 DEF Before
    <2> QED
      BY <1>0, <2>1, <2>2, SourcesGathered
  <1>5. ASSUME NEW reply, Judge(reply) PROVE Sourced'
    <2>1. /\ at = "judging" /\ at' \in {"cancelled", "decided", "topup"}
          /\ sources' \in {sources, fresh} /\ (at' = "topup" => sources' = sources)
          /\ UNCHANGED <<fresh, newly, merged, found>>
      BY <1>5 DEF Judge, GotoUnlessCancelled, Goto, live
    <2> QED
      BY <1>0, <2>1 DEF Sourced, Before, Answering, Extra
  <1>6. ASSUME NEW a \in Answers, AnswerFromStore(a) \/ StreamSections(a) PROVE Sourced'
    <2>1. /\ UNCHANGED <<sources, newly, merged, found, fresh>>
          /\ output' = [answer |-> a, basis |-> sources]
          /\ at' \in {"finish", "loop", "cancelled"}
      BY <1>6 DEF AnswerFromStore, StreamSections, GotoUnlessCancelled, Goto, Written, gate, live,
                  gathered
    <2>2. output'.basis = sources /\ at' \notin Before
      BY <2>1 DEF Before
    <2> QED
      BY <1>0, <2>1, <2>2, SourcesStay
  <1>7. CASE \/ EnterGap \/ BeginSearch \/ Synthesize \/ StoreBatch \/ NextRound \/ IterateFails
             \/ Finish \/ ResearchFails \/ RaiseCancel \/ UNCHANGED research
    <2>1. UNCHANGED <<sources, newly, found, fresh, output>> /\ merged' \in {merged, {}}
      BY <1>7 DEF EnterGap, BeginSearch, Synthesize, StoreBatch, NextRound, IterateFails, Finish,
                  ResearchFails, RaiseCancel, research, gathered, live, gate, answered
    <2>2. /\ at' \in Before => at \in Before
          /\ at' \in Answering => at \in Answering
      BY <1>7 DEF EnterGap, BeginSearch, Synthesize, StoreBatch, NextRound, IterateFails, Finish,
                  ResearchFails, RaiseCancel, research, GotoUnlessCancelled, Goto, Before,
                  Answering, Extra
    <2> QED
      BY <1>0, <2>1, <2>2, SourcesStay
  <1>8. CASE ResearchNext
    <2>1. ASSUME NEW S \in SUBSET Sources, NEW R \in Ranked(fresh \cup S) PROVE R \in SUBSET Sources
      BY <1>0, <2>1, RankedWithin
    <2>2. ASSUME NEW S \in SUBSET Sources, NEW R \in Ranked(sources \cup S) PROVE R \in SUBSET Sources
      BY <1>0, <2>2, RankedWithin
    <2> QED
      BY <1>0, <1>1, <1>2, <1>3, <1>4, <1>5, <1>6, <1>7, <1>8, <2>1, <2>2 DEF ResearchNext
  <1> QED
    BY <1>7, <1>8

(* The answer a client is shown, after any number of extra rounds and      *)
(* wherever the last one broke off, is written from the sources shown with *)
(* it, and each of these is in the knowledge store or was handed to it     *)
(* before the run was over (agent.py:373-387, 684-701, 732-736).           *)
THEOREM AnswersRestOnTheirSources == ResearchSpec => []AnswerHasItsSources
  <1>1. ResearchInit => Sourced
    BY DEF ResearchInit, Sourced, Answering, Extra
  <1>2. RunIInv /\ Sourced => AnswerHasItsSources
    <2> SUFFICES ASSUME RunIInv, Sourced PROVE AnswerHasItsSources
      OBVIOUS
    <2>1. at \in {"loop", "iterate", "rewrite", "finish", "done"} => output.basis = sources
      BY DEF Sourced, Answering, Extra
    <2>2. ASSUME at = "done", persist, NEW s \in output.basis PROVE s \in fresh \/ handed[s] > 0
      <3>1. s \in sources
        BY <2>1, <2>2
      <3>2. s \in Sources /\ (s \in fresh \/ newly[s] > 0)
        BY <3>1 DEF Sourced
      <3>3. handed[s] = newly[s]
        BY <2>2, <3>2 DEF RunIInv, Handed, Same
      <3> QED
        BY <3>2, <3>3
    <2> QED
      BY <2>1, <2>2 DEF AnswerHasItsSources
  <1>3. RunIInv /\ [ResearchNext]_research => RunIInv'
    BY ResearchStep
  <1> QED
    BY <1>1, <1>2, <1>3, ResearchBegins, SourcedStep, PTL DEF ResearchSpec

-----------------------------------------------------------------------------
(* Grounding. What each stage makes of the claims: who is grounded follows *)
(* from the claims themselves and from what the scorer answered.           *)

ClaimFields ==
  /\ claims = [i \in Positions |-> claims[i]]
  /\ \A i \in Positions : claims[i] =
       [quoted |-> claims[i].quoted, backed |-> claims[i].backed,
        related |-> claims[i].related, alike |-> claims[i].alike, direct |-> claims[i].direct]

ByQuote(i) == claims[i].backed
ByRelatedness(i) ==
  claims[i].backed /\ (scorer["quotes"] = "scores" /\ claims[i].quoted => claims[i].related)

Judged ==
  grounded = IF redone THEN {i \in Positions : claims[i].alike}
             ELSE {i \in Positions : ByRelatedness(i)}

AuditIInv ==
  /\ ClaimFields
  /\ stage = "quotesChecked" => grounded = {i \in Positions : ByQuote(i)}
  /\ stage = "relatednessChecked" => grounded = {i \in Positions : ByRelatedness(i)}
  /\ stage \in {"judged", "labelled", "attached"} => Judged
  /\ stage = "attached" => /\ shown.claims = grounded
                           /\ grounded # Positions => shown.note

LEMMA AuditInit == GroundingInit => AuditIInv
<1> SUFFICES ASSUME GroundingInit PROVE AuditIInv
  OBVIOUS
<1>1. stage = "extracted"
  BY DEF GroundingInit
<1>2. PICK n \in 0 .. MaxClaims : claims \in [1 .. n -> Claims]
  BY DEF GroundingInit
<1>3. Positions = 1 .. n /\ claims = [i \in Positions |-> claims[i]]
  BY <1>2 DEF Positions
<1>4. \A i \in Positions : claims[i] \in [quoted : BOOLEAN, backed : BOOLEAN, related : BOOLEAN,
                                          alike : BOOLEAN, direct : {TRUE}]
  BY <1>2, <1>3 DEF Claims
<1>5. ClaimFields
  BY <1>3, <1>4 DEF ClaimFields
<1> QED  BY <1>1, <1>5 DEF AuditIInv

LEMMA AuditStep == AuditIInv /\ [GroundingNext]_grounding => AuditIInv'
<1> SUFFICES ASSUME AuditIInv, [GroundingNext]_grounding PROVE AuditIInv'
  OBVIOUS
<1>1. CASE UNCHANGED grounding
  BY <1>1 DEF grounding, AuditIInv, ClaimFields, Judged, ByQuote, ByRelatedness, Positions
<1>2. CASE CheckQuotes
  BY <1>2 DEF CheckQuotes, Audit, Supported, AuditIInv, ClaimFields, ByQuote, Positions
<1>3. CASE CheckRelatedness
  <2>1. grounded = {i \in Positions : ByQuote(i)} /\ stage' = "relatednessChecked"
        /\ UNCHANGED <<claims, scorer>>
    BY <1>3 DEF CheckRelatedness, Audit, AuditIInv
  <2>2. grounded' = IF scorer["quotes"] = "scores" THEN grounded \ Unrelated ELSE grounded
    BY <1>3 DEF CheckRelatedness
  <2>3. grounded' = {i \in Positions : ByRelatedness(i)}
    BY <2>1, <2>2 DEF ByQuote, ByRelatedness, Unrelated
  <2>4. (grounded = {i \in Positions : ByRelatedness(i)})'
    BY <2>1, <2>3 DEF ByRelatedness, Positions
  <2>5. ClaimFields'
    BY <2>1 DEF AuditIInv, ClaimFields, Positions
  <2> QED  BY <2>1, <2>4, <2>5 DEF AuditIInv
<1>4. CASE FallBack
  <2>1. grounded = {i \in Positions : ByRelatedness(i)} /\ stage' = "judged"
        /\ UNCHANGED <<claims, scorer>>
    BY <1>4 DEF FallBack, Audit, AuditIInv
  <2>2. grounded' = IF redone' THEN {i \in Positions : claims[i].alike} ELSE grounded
    BY <1>4 DEF FallBack
  <2>3. Judged'
    BY <2>1, <2>2 DEF Judged, ByRelatedness, Positions
  <2>4. ClaimFields'
    BY <2>1 DEF AuditIInv, ClaimFields, Positions
  <2> QED  BY <2>1, <2>3, <2>4 DEF AuditIInv
<1>5. CASE Downgrade
  <2>1. Judged /\ stage' = "labelled" /\ UNCHANGED <<grounded, scorer, redone>>
    BY <1>5 DEF Downgrade, AuditIInv
  <2>2. claims' = [i \in Positions |->
          [claims[i] EXCEPT !.direct = claims[i].direct /\ i \in grounded]]
    BY <1>5 DEF Downgrade
  <2>3. Positions' = Positions /\ claims' = [i \in Positions |-> claims'[i]]
    BY <2>2 DEF Positions
  <2>4. ASSUME NEW i \in Positions
        PROVE  /\ claims'[i] = [quoted |-> claims[i].quoted, backed |-> claims[i].backed,
                                related |-> claims[i].related, alike |-> claims[i].alike,
                                direct |-> claims'[i].direct]
               /\ claims'[i].quoted = claims[i].quoted /\ claims'[i].backed = claims[i].backed
               /\ claims'[i].related = claims[i].related /\ claims'[i].alike = claims[i].alike
    <3> DEFINE d == claims[i].direct /\ i \in grounded
    <3>1. claims'[i] = [claims[i] EXCEPT !.direct = d]
      BY <2>2
    <3> HIDE DEF d
    <3>2. claims[i] = [quoted |-> claims[i].quoted, backed |-> claims[i].backed,
             related |-> claims[i].related, alike |-> claims[i].alike, direct |-> claims[i].direct]
      BY DEF AuditIInv, ClaimFields
    <3> QED  BY <3>1, <3>2
  <2>5. ClaimFields'
    BY <2>3, <2>4 DEF ClaimFields
  <2>6. Judged'
    BY <2>1, <2>3, <2>4 DEF Judged, ByRelatedness
  <2> QED  BY <2>1, <2>5, <2>6 DEF AuditIInv
<1>6. CASE Attach
  <2>1. Judged /\ stage' = "attached" /\ UNCHANGED <<claims, scorer, grounded, redone>>
    BY <1>6 DEF Attach, Audit, AuditIInv
  <2>2. ClaimFields' /\ Judged'
    BY <2>1 DEF AuditIInv, ClaimFields, Judged, ByRelatedness, Positions
  <2>3. shown' = [claims |-> grounded, confident |-> Confident, note |-> Limited]
    BY <1>6 DEF Attach
  <2>4. shown'.claims = grounded /\ shown'.note = Limited
    BY <2>3
  <2> QED  BY <2>1, <2>2, <2>4 DEF AuditIInv, Limited, Positions
<1> QED  BY <1>1, <1>2, <1>3, <1>4, <1>5, <1>6 DEF GroundingNext

(* Whatever the batch is like and whether or not the scores come, a claim  *)
(* no test supports is not shown, and one that every test supports is      *)
(* (grounding.py:297-370).                                                 *)
THEOREM ClaimsShownRightly == GroundingSpec => []ClearCasesStand
<1>1. AuditIInv => ClearCasesStand
  <2> SUFFICES ASSUME AuditIInv, stage = "attached", NEW i \in Positions
               PROVE  LET claim == claims[i] IN
                      /\ ~claim.backed /\ ~claim.alike => i \notin shown.claims
                      /\ claim.backed /\ (claim.quoted => claim.related) /\ claim.alike
                           => i \in shown.claims
                      /\ claim.quoted /\ ~claim.related /\ ~claim.alike
                           /\ scorer["quotes"] = "scores" => i \notin shown.claims
                      /\ i \notin shown.claims => shown.note
    BY DEF ClearCasesStand
  <2>1. shown.claims = grounded /\ (grounded # Positions => shown.note) /\ Judged
    BY DEF AuditIInv
  <2> QED  BY <2>1 DEF Judged, ByRelatedness
<1> QED  BY <1>1, AuditInit, AuditStep, PTL DEF GroundingSpec

-----------------------------------------------------------------------------
(* Sandbox. What a probe has seen and what the cache holds was so at most  *)
(* as long ago as the present command runs, or as the cache is old and one *)
(* command more.                                                           *)

SandboxTyped ==
  /\ docker \in Statuses /\ cached \in Statuses \cup {"none"}
  /\ seen \in Statuses \cup {"none", "daemon"}
  /\ lately \in [{"up", "down"} -> 0 .. Oldest]
  /\ cachedAge \in 0 .. TtlOk /\ spending \in 0 .. CommandLimit
  /\ told \in [Checkers -> Statuses \cup {"none"}]

ProbeRecent ==
  /\ lately[Could(docker)] = 0
  /\ probing = {} => seen = "none"
  /\ seen \in Statuses => lately[Could(seen)] <= spending

CacheRecent == cached \in Statuses => lately[Could(cached)] <= CommandLimit + cachedAge

StatusIInv == SandboxTyped /\ ProbeRecent /\ CacheRecent

LEMMA SandboxNumbers ==
  /\ TtlOk \in Nat \ {0} /\ TtlDown \in Nat \ {0} /\ MinProbe \in Nat \ {0}
  /\ CommandLimit \in Nat \ {0} /\ Oldest = TtlOk + CommandLimit /\ Oldest \in Nat
  BY SandboxAssumption DEF Oldest

LEMMA Coulds == \A s : Could(s) \in {"up", "down"}
  BY DEF Could

LEMMA StatusInit == SandboxInit => StatusIInv
<1> SUFFICES ASSUME SandboxInit PROVE StatusIInv
  OBVIOUS
<1> USE SandboxNumbers, Coulds
<1>1. lately \in [{"up", "down"} -> 0 .. Oldest]
  BY DEF SandboxInit
<1>2. told \in [Checkers -> Statuses \cup {"none"}]
  BY DEF SandboxInit
<1>3. SandboxTyped
  BY <1>1, <1>2 DEF SandboxInit, SandboxTyped
<1>4. lately[Could(docker)] = 0
  BY DEF SandboxInit
<1> QED  BY <1>3, <1>4 DEF SandboxInit, StatusIInv, ProbeRecent, CacheRecent, Statuses

LEMMA StatusStep == StatusIInv /\ [SandboxNext]_sandbox => StatusIInv'
<1> SUFFICES ASSUME StatusIInv, [SandboxNext]_sandbox PROVE StatusIInv'
  OBVIOUS
<1> USE SandboxNumbers, Coulds DEF StatusIInv, SandboxTyped, ProbeRecent, CacheRecent
<1>1. CASE UNCHANGED sandbox
  BY <1>1 DEF sandbox, environment, cache, probe
<1>2. ASSUME NEW c \in Checkers, NEW how \in Asking, AskStatus(c, how) PROVE StatusIInv'
  BY <1>2 DEF AskStatus, environment, cache, probe
<1>3. ASSUME NEW c \in Checkers, AnswerCached(c) PROVE StatusIInv'
  BY <1>3 DEF AnswerCached, environment, cache, probe
<1>4. ASSUME NEW c \in Checkers, BeginProbe(c) PROVE StatusIInv'
  BY <1>4 DEF BeginProbe, environment, cache, Statuses
<1>5. ASSUME NEW c \in Checkers, DaemonFound(c) PROVE StatusIInv'
  BY <1>5 DEF DaemonFound, environment, cache, Statuses
<1>6. ASSUME NEW c \in Checkers, DaemonMissing(c) PROVE StatusIInv'
  BY <1>6 DEF DaemonMissing, environment, cache, Statuses
<1>7. ASSUME NEW c \in Checkers, LookForImage(c) PROVE StatusIInv'
  <2>1. /\ seen' = IF docker = "ok" THEN "ok" ELSE "image_missing"
        /\ c \in probing /\ UNCHANGED <<docker, lately, cached, cachedAge, probing, spending, told>>
    BY <1>7 DEF LookForImage, environment, cache
  <2>2. Could(seen') = Could(docker)
    BY <2>1 DEF Could
  <2> QED  BY <2>1, <2>2 DEF Statuses
<1>8. ASSUME NEW c \in Checkers, EndProbe(c) PROVE StatusIInv'
  BY <1>8 DEF EndProbe, environment, Statuses
<1>9. ASSUME NEW c \in Checkers, RunEnds(c) PROVE StatusIInv'
  BY <1>9 DEF RunEnds, environment, cache, probe
<1>10. ASSUME NEW s \in Statuses, DockerChanges(s) PROVE StatusIInv'
  BY <1>10 DEF DockerChanges, cache, probe
<1>11. CASE SandboxTick
  <2>1. /\ spending < CommandLimit
        /\ lately' = [w \in {"up", "down"} |->
                        IF w = Could(docker) THEN 0 ELSE Aged(lately[w], Oldest)]
        /\ cachedAge' = Aged(cachedAge, TtlOk)
        /\ spending' = IF probing = {} THEN 0 ELSE spending + 1
        /\ told' = [c \in Checkers |-> "none"]
        /\ UNCHANGED <<docker, cached, probing, seen>>
    BY <1>11 DEF SandboxTick
  <2>2. \A w \in {"up", "down"} : lately'[w] \in 0 .. Oldest /\ lately'[w] <= lately[w] + 1
    BY <2>1 DEF Aged
  <2>3. cachedAge' \in 0 .. TtlOk /\ (cachedAge' = cachedAge + 1 \/ cachedAge' = TtlOk)
    BY <2>1 DEF Aged
  <2>4. SandboxTyped'
    BY <2>1, <2>2, <2>3
  <2>5. ProbeRecent'
    BY <2>1, <2>2 DEF Statuses
  <2>6. CacheRecent'
    BY <2>1, <2>2, <2>3
  <2> QED  BY <2>4, <2>5, <2>6
<1> QED  BY <1>1, <1>2, <1>3, <1>4, <1>5, <1>6, <1>7, <1>8, <1>9, <1>10, <1>11 DEF SandboxNext

(* Whoever is told that code can run, or that it cannot, is told of a      *)
(* moment no further back than a time to live and one docker command       *)
(* (coding/execution.py:117-126).                                          *)
THEOREM StatusTold == SandboxSpec => StatusIsRecent
<1> DEFINE Limit(c) == IF checker[c] = "refreshing" THEN MinProbe
                      ELSE IF told'[c] = "ok" THEN TtlOk ELSE TtlDown
           Recent == \A c \in Checkers : told[c] = "none" /\ told'[c] # "none" =>
                       lately[Could(told'[c])] < CommandLimit + Limit(c)
<1>1. ASSUME StatusIInv, [SandboxNext]_sandbox, NEW c \in Checkers,
             told[c] = "none", told'[c] # "none"
      PROVE  lately[Could(told'[c])] < CommandLimit + Limit(c)
  <2>0. Limit(c) \in Nat \ {0}
    BY SandboxNumbers
  <2>1. AnswerCached(c) \/ EndProbe(c)
    BY <1>1 DEF StatusIInv, SandboxTyped, SandboxNext, sandbox, probe, AskStatus, AnswerCached,
       BeginProbe, DaemonFound, DaemonMissing, LookForImage, EndProbe, RunEnds, DockerChanges,
       SandboxTick
  <2>2. CASE AnswerCached(c)
    <3>1. told'[c] = cached /\ cached \in Statuses /\ cachedAge < LifeOf(checker[c])
      BY <1>1, <2>2 DEF AnswerCached, FreshEnough, StatusIInv, SandboxTyped
    <3>2. LifeOf(checker[c]) = Limit(c)
      BY <3>1 DEF LifeOf
    <3>3. lately[Could(cached)] \in Nat /\ lately[Could(cached)] <= CommandLimit + cachedAge
      BY <1>1, <3>1, Coulds DEF StatusIInv, SandboxTyped, CacheRecent
    <3> HIDE DEF Limit
    <3> QED  BY <1>1, <2>0, <3>1, <3>2, <3>3, SandboxNumbers DEF StatusIInv, SandboxTyped
  <2>3. CASE EndProbe(c)
    <3>1. told'[c] = seen /\ seen \in Statuses
      BY <1>1, <2>3 DEF EndProbe, StatusIInv, SandboxTyped
    <3>2. lately[Could(seen)] \in Nat /\ lately[Could(seen)] <= spending
      BY <1>1, <3>1, Coulds DEF StatusIInv, SandboxTyped, ProbeRecent
    <3> HIDE DEF Limit
    <3> QED  BY <1>1, <2>0, <3>1, <3>2, SandboxNumbers DEF StatusIInv, SandboxTyped
  <2> QED  BY <2>1, <2>2, <2>3
<1>2. StatusIInv /\ [SandboxNext]_sandbox => [Recent]_sandbox
  BY <1>1
<1> QED  BY <1>2, StatusInit, StatusStep, PTL DEF SandboxSpec, StatusIsRecent
=============================================================================
