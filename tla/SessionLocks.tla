---------------------------- MODULE SessionLocks ----------------------------
(***************************************************************************)
(* The per-session leases of shared/session_locks.py: one                  *)
(* KeyedLockRegistry (_held, the generation counter) and the SessionLease  *)
(* objects it has handed out. Every method runs under _map_lock, so each   *)
(* is one step. The counter, the generations and the expiry together have  *)
(* to behave like the plain set of owners of SessionMutex.                 *)
(***************************************************************************)
EXTENDS Integers, FiniteSets

CONSTANTS
  Keys,       \* session ids
  Leases,     \* names for the SessionLease objects alive at one time
  NoKey,      \* the key of a name that stands for no object yet
  MaxAge,     \* MAX_LEASE_SECONDS, in clock units
  MaxClock,   \* bound: the clock stops there
  MaxGen      \* bound: the generations handed out

ASSUME KeyAssumption == NoKey \notin Keys
ASSUME LeaseAssumption == IsFiniteSet(Leases)
ASSUME BoundAssumption ==
  MaxAge \in Nat \ {0} /\ MaxClock \in Nat /\ MaxGen \in Nat

VARIABLES
  clock,        \* self._clock()
  held,         \* self._held, NotHeld where the dict has no entry
  generations,  \* the last value drawn from self._generations
  lease         \* the SessionLease objects, by name

lockVars == <<held, generations, lease>>
vars == <<clock, held, generations, lease>>

-----------------------------------------------------------------------------
NotHeld == [generation |-> 0, holders |-> 0, since |-> 0]
NoLease == [key |-> NoKey, generation |-> 0, released |-> TRUE]

HeldEntry == [generation : Nat, holders : Nat, since : Nat]
LeaseObject == [key : Keys \cup {NoKey}, generation : Nat, released : BOOLEAN]

(* A name is free for a new object when it stands for none, or for one     *)
(* that was released and has since been dropped by its owner.              *)
FreeName(l) == lease[l].released

Expired(k) == clock - held[k].since >= MaxAge

(* try_acquire answers None: a stream younger than MaxAge holds k. *)
Busy(k) == held[k] # NotHeld /\ ~Expired(k)

(* Mutant: a late release frees whatever holds its key now. *)
EntryIgnoringGeneration(l) ==
  LET entry == held[lease[l].key] IN
  IF entry.holders <= 1 THEN NotHeld ELSE [entry EXCEPT !.holders = @ - 1]

(* The entry a release of l leaves behind for its key: none of its         *)
(* business if it was taken over, gone with the last share, one share less *)
(* otherwise.                                                              *)
EntryAfterRelease(l) ==
  LET entry == held[lease[l].key] IN
  IF entry = NotHeld \/ entry.generation # lease[l].generation THEN entry
  ELSE IF entry.holders <= 1 THEN NotHeld
  ELSE [entry EXCEPT !.holders = @ - 1]

-----------------------------------------------------------------------------
Init ==
  /\ clock = 0
  /\ held = [k \in Keys |-> NotHeld]
  /\ generations = 0
  /\ lease = [l \in Leases |-> NoLease]

(* Mutant: a takeover keeps the generation of the hold it replaces. *)
TryAcquireSameGeneration(k, l) ==
  LET g == IF held[k] = NotHeld THEN generations + 1 ELSE held[k].generation IN
  /\ FreeName(l)
  /\ generations < MaxGen
  /\ ~Busy(k)
  /\ generations' = generations + 1
  /\ held' = [held EXCEPT ![k] = [generation |-> g, holders |-> 1, since |-> clock]]
  /\ lease' = [lease EXCEPT ![l] = [key |-> k, generation |-> g, released |-> FALSE]]
  /\ UNCHANGED clock

(* try_acquire: a fresh generation with one holder, for a key that is free *)
(* or whose holder outlived MaxAge.                                        *)
TryAcquire(k, l) ==
  /\ FreeName(l)
  /\ generations < MaxGen
  /\ ~Busy(k)
  /\ generations' = generations + 1
  /\ held' = [held EXCEPT ![k] =
       [generation |-> generations + 1, holders |-> 1, since |-> clock]]
  /\ lease' = [lease EXCEPT ![l] =
       [key |-> k, generation |-> generations + 1, released |-> FALSE]]
  /\ UNCHANGED clock

(* share: one more holder of whatever generation holds k now. *)
Share(k, l) ==
  /\ FreeName(l)
  /\ held[k] # NotHeld
  /\ held' = [held EXCEPT ![k].holders = @ + 1]
  /\ lease' = [lease EXCEPT ![l] =
       [key |-> k, generation |-> held[k].generation, released |-> FALSE]]
  /\ UNCHANGED <<clock, generations>>

(* release on an object released before: an early return. *)
ReleaseAgain(l) ==
  /\ lease[l] # NoLease
  /\ lease[l].released
  /\ UNCHANGED vars

(* Mutant: release without the idempotence flag counts a share twice. *)
ReleaseTwice(l) ==
  /\ lease[l] # NoLease
  /\ lease' = [lease EXCEPT ![l].released = TRUE]
  /\ held' = [held EXCEPT ![lease[l].key] = EntryAfterRelease(l)]
  /\ UNCHANGED <<clock, generations>>

(* release: this object's share is given back, once. *)
Release(l) ==
  /\ ~lease[l].released
  /\ lease' = [lease EXCEPT ![l].released = TRUE]
  /\ held' = [held EXCEPT ![lease[l].key] = EntryAfterRelease(l)]
  /\ UNCHANGED <<clock, generations>>

Tick ==
  /\ clock < MaxClock
  /\ clock' = clock + 1
  /\ UNCHANGED lockVars

Next ==
  \/ \E k \in Keys, l \in Leases : TryAcquire(k, l) \/ Share(k, l)
  \/ \E l \in Leases : Release(l) \/ ReleaseAgain(l)
  \/ Tick

Spec == Init /\ [][Next]_vars

-----------------------------------------------------------------------------
(* The unreleased leases on k that belong to the generation holding k now. *)
CurrentShares(k) ==
  {l \in Leases : /\ ~lease[l].released
                  /\ lease[l].key = k
                  /\ lease[l].generation = held[k].generation}

(* Every variable of the registry keeps its type (session_locks.py:60-101).  *)
TypeOK ==
  /\ clock \in Nat
  /\ held \in [Keys -> HeldEntry]
  /\ generations \in Nat
  /\ lease \in [Leases -> LeaseObject]

(* An entry of _held counts exactly the unreleased leases of its own        *)
(* generation, and at least one: takeovers, late releases and repeated      *)
(* releases never leave a session busy with nobody to free it, nor free one *)
(* that somebody still uses (session_locks.py:137-147).                     *)
HoldersMatchShares ==
  \A k \in Keys :
    /\ held[k].holders = Cardinality(CurrentShares(k))
    /\ held[k] # NotHeld => held[k].holders > 0

(* A step takes a session away from an unreleased lease only by taking over *)
(* a hold of age MaxAge: not by anybody's release, and not by a younger      *)
(* stream (session_locks.py:104-121, 137-147).                              *)
OnlyExpiryTakesAway ==
  [][\A k \in Keys : \A l \in CurrentShares(k) :
       ~lease'[l].released /\ l \notin CurrentShares(k)' => Expired(k)]_vars

(* The registry implements the set-of-owners lock: counters and generations *)
(* add nothing an owner set does not say.                                   *)
Mutex == INSTANCE SessionMutex WITH
  owners <- [k \in Keys |-> CurrentShares(k)],
  since <- [k \in Keys |-> held[k].since]

ImplementsMutex == Mutex!Spec
=============================================================================
