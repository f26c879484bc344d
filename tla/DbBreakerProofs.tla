--------------------------- MODULE DbBreakerProofs ---------------------------
(***************************************************************************)
(* The two invariants of the circuit breaker, for any number of callers    *)
(* and any cooldown.                                                       *)
(***************************************************************************)
EXTENDS DbBreaker, TLAPS

(* The two halves of the state: what the callers do, and the breaker. *)
CallsTyped ==
  /\ call \in [Callers -> {"idle", "plain", "probe"}]
  /\ up \in BOOLEAN
  /\ met \in [Callers -> SUBSET {"up", "down", "full"}]

BreakerTyped ==
  /\ tripped \in BOOLEAN
  /\ wait \in 0 .. Cooldown
  /\ probing \in BOOLEAN

LEMMA Halves == TypeOK <=> CallsTyped /\ BreakerTyped
  BY DEF TypeOK, CallsTyped, BreakerTyped

LEMMA EnterTyped ==
  ASSUME CallsTyped, NEW c \in Callers, NEW as \in {"plain", "probe"}, Enter(c, as)
  PROVE  CallsTyped'
  BY DEF CallsTyped, Enter, Reachable, Crowd

LEMMA LeaveTyped ==
  ASSUME CallsTyped, NEW c \in Callers, Leave(c)
  PROVE  CallsTyped'
  BY DEF CallsTyped, Leave

(* The callers' half through every step. *)
LEMMA CallsStep == CallsTyped /\ [Next]_vars => CallsTyped'
  <1> SUFFICES ASSUME CallsTyped, [Next]_vars PROVE CallsTyped'
    OBVIOUS
  <1>1. ASSUME NEW c \in Callers, Admit(c) \/ AdmitProbe(c) PROVE CallsTyped'
    BY <1>1, EnterTyped DEF Admit, AdmitProbe
  <1>2. ASSUME NEW c \in Callers, Finish(c) PROVE CallsTyped'
    BY <1>2, LeaveTyped DEF Finish, Answer, Fail, Interrupt
  <1>3. CASE Switch
    BY <1>3 DEF CallsTyped, Switch
  <1>4. CASE Tick \/ UNCHANGED vars
    BY <1>4 DEF CallsTyped, Tick, vars
  <1> QED
    BY <1>1, <1>2, <1>3, <1>4 DEF Next

(* The breaker's half through every step. *)
LEMMA BreakerStep == BreakerTyped /\ [Next]_vars => BreakerTyped'
  <1> SUFFICES ASSUME BreakerTyped, [Next]_vars PROVE BreakerTyped'
    OBVIOUS
  <1>1. ASSUME NEW c \in Callers, Admit(c) \/ AdmitProbe(c) PROVE BreakerTyped'
    BY <1>1 DEF BreakerTyped, Admit, AdmitProbe, breaker
  <1>2. ASSUME NEW c \in Callers, Finish(c) PROVE BreakerTyped'
    <2>1. tripped' \in BOOLEAN /\ probing' \in BOOLEAN
      BY <1>2 DEF BreakerTyped, Finish, Answer, Fail, Interrupt, Recover, Trip
    <2>2. wait' = 0 \/ wait' = Cooldown \/ wait' = wait
      BY <1>2 DEF Finish, Answer, Fail, Interrupt, Recover, Trip
    <2>3. wait' \in 0 .. Cooldown
      BY <2>2, CooldownAssumption DEF BreakerTyped
    <2> QED
      BY <2>1, <2>3 DEF BreakerTyped
  <1>3. CASE Tick
    BY <1>3, CooldownAssumption DEF BreakerTyped, Tick
  <1>4. CASE Switch \/ UNCHANGED vars
    BY <1>4 DEF BreakerTyped, Switch, vars, breaker
  <1> QED
    BY <1>1, <1>2, <1>3, <1>4 DEF Next

LEMMA TypeStep == TypeOK /\ [Next]_vars => TypeOK'
  <1> SUFFICES ASSUME TypeOK, [Next]_vars PROVE TypeOK'
    OBVIOUS
  <1>1. CallsTyped' /\ BreakerTyped'
    BY Halves, CallsStep, BreakerStep
  <1> QED
    BY <1>1 DEF TypeOK, CallsTyped, BreakerTyped

(* Every variable keeps its type, whatever the callers, the cooldown and   *)
(* the database's outages (db_health.py:37-48).                            *)
THEOREM TypeCorrect == Spec => []TypeOK
  <1>1. Init => TypeOK
    <2> SUFFICES ASSUME Init PROVE TypeOK
      OBVIOUS
    <2>1. CallsTyped
      BY DEF Init, CallsTyped
    <2>2. wait \in 0 .. Cooldown
      BY CooldownAssumption DEF Init
    <2>3. BreakerTyped
      BY <2>2 DEF Init, BreakerTyped
    <2> QED
      BY <2>1, <2>3, Halves
  <1> QED
    BY <1>1, TypeStep, PTL DEF Spec

LEMMA ProbingStep ==
  TypeOK /\ ProbingIsJustified /\ [Next]_vars => ProbingIsJustified'
  <1> SUFFICES ASSUME TypeOK, ProbingIsJustified, [Next]_vars
               PROVE  ProbingIsJustified'
    OBVIOUS
  <1>1. ASSUME NEW c \in Callers, Admit(c) PROVE ProbingIsJustified'
    <2>1. ~tripped' /\ ~probing'
      BY <1>1 DEF Admit, breaker, ProbingIsJustified
    <2> QED
      BY <2>1 DEF ProbingIsJustified
  <1>2. ASSUME NEW c \in Callers, AdmitProbe(c) PROVE ProbingIsJustified'
    <2>1. tripped' /\ call'[c] = "probe"
      BY <1>2 DEF AdmitProbe, Enter, TypeOK
    <2> QED
      BY <2>1 DEF ProbingIsJustified
  \* Whoever leaves, and with whatever verdict, clears the flag.
  <1>3. ASSUME NEW c \in Callers, Finish(c) PROVE ProbingIsJustified'
    <2>1. ~probing'
      BY <1>3 DEF Finish, Answer, Fail, Interrupt, Recover, Trip
    <2> QED
      BY <2>1 DEF ProbingIsJustified
  <1>4. CASE Switch \/ Tick \/ UNCHANGED vars
    <2>1. UNCHANGED <<tripped, probing, call>>
      BY <1>4 DEF Switch, Tick, vars, breaker
    <2> QED
      BY <2>1 DEF ProbingIsJustified
  <1> QED
    BY <1>1, <1>2, <1>3, <1>4 DEF Next

(* The flag that admits one probe at a time is never left behind by a      *)
(* caller that is gone: with it, an outage would last for ever             *)
(* (db_health.py:71-103).                                                  *)
THEOREM ProbingAlwaysJustified == Spec => []ProbingIsJustified
  <1>1. Init => ProbingIsJustified
    BY DEF Init, ProbingIsJustified, breaker
  <1> QED
    BY <1>1, TypeCorrect, ProbingStep, PTL DEF Spec
=============================================================================
