--------------------------- MODULE RequestsProofs ---------------------------
(***************************************************************************)
(* What a request meets on its way to a handler, for any number of keys,   *)
(* leases, clients and deployments: the session leases (SessionLocks), the *)
(* choice of the model (ModelChoice), the admission checks (Admission).    *)
(***************************************************************************)
EXTENDS SessionLocks, Admission, ModelChoice, FiniteSetTheorems, SequenceTheorems, TLAPS

(***************************************************************************)
(* SessionLocks: what the run checks on two sessions and three leases,     *)
(* for every set of sessions, every finite set of leases and every bound.  *)
(* The inductive invariant adds Stamped to the checked invariants: without *)
(* it a released generation could come back and revive an old lease.       *)
(***************************************************************************)

(* Generations are handed out once, in order, and 0 means "no entry".      *)
Stamped ==
  /\ \A l \in Leases : ~lease[l].released =>
       /\ lease[l].key \in Keys
       /\ lease[l].generation \in 1 .. generations
  /\ \A k \in Keys :
       /\ held[k].generation <= generations
       /\ held[k].generation = 0 => held[k] = NotHeld

LocksIInv == TypeOK /\ Stamped /\ HoldersMatchShares

-----------------------------------------------------------------------------
(* How each operation changes the shares of a session. *)

LEMMA SharesFinite ==
  ASSUME NEW k \in Keys
  PROVE  IsFiniteSet(CurrentShares(k))
BY LeaseAssumption, FS_Subset DEF CurrentShares

(* A session without an entry has no current share. *)
LEMMA NoSharesIfNotHeld ==
  ASSUME LocksIInv, NEW k \in Keys, held[k] = NotHeld
  PROVE  CurrentShares(k) = {}
BY DEF LocksIInv, Stamped, CurrentShares, NotHeld, TypeOK

(* A new hold belongs to the acquiring lease alone: no older lease carries *)
(* its generation.                                                         *)
LEMMA SharesAfterTryAcquire ==
  ASSUME LocksIInv, NEW k \in Keys, NEW l \in Leases, TryAcquire(k, l), NEW x \in Keys
  PROVE  CurrentShares(x)' = IF x = k THEN {l} ELSE CurrentShares(x)
<1>1. /\ ~lease'[l].released /\ lease'[l].key = k
      /\ lease'[l].generation = generations + 1
      /\ \A m \in Leases \ {l} : lease'[m] = lease[m]
      /\ held'[k].generation = generations + 1
      /\ \A y \in Keys \ {k} : held'[y] = held[y]
      /\ generations \in Nat
  BY DEF TryAcquire, LocksIInv, TypeOK
<1>2. \A m \in Leases : ~lease[m].released => lease[m].generation # generations + 1
  BY <1>1 DEF LocksIInv, Stamped
<1>3. lease[l].released
  BY DEF TryAcquire, FreeName
<1>4. CASE x = k
  BY <1>1, <1>2, <1>4 DEF CurrentShares
<1>5. CASE x # k
  BY <1>1, <1>3, <1>5 DEF CurrentShares
<1> QED BY <1>4, <1>5

(* A share joins the present hold and no other. *)
LEMMA SharesAfterShare ==
  ASSUME LocksIInv, NEW k \in Keys, NEW l \in Leases, Share(k, l), NEW x \in Keys
  PROVE  /\ l \notin CurrentShares(x)
         /\ CurrentShares(x)' =
              IF x = k THEN CurrentShares(k) \cup {l} ELSE CurrentShares(x)
<1>1. /\ ~lease'[l].released /\ lease'[l].key = k
      /\ lease'[l].generation = held[k].generation
      /\ \A m \in Leases \ {l} : lease'[m] = lease[m]
      /\ \A y \in Keys : held'[y].generation = held[y].generation
      /\ lease[l].released
  BY DEF Share, FreeName, LocksIInv, TypeOK, HeldEntry
<1>2. l \notin CurrentShares(x)
  BY <1>1 DEF CurrentShares
<1>3. CASE x = k
  BY <1>1, <1>3 DEF CurrentShares
<1>4. CASE x # k
  BY <1>1, <1>4 DEF CurrentShares
<1> QED BY <1>2, <1>3, <1>4

(* A release removes that lease from the shares and touches no other. *)
LEMMA SharesAfterRelease ==
  ASSUME LocksIInv, NEW l \in Leases, Release(l), NEW x \in Keys
  PROVE  CurrentShares(x)' = CurrentShares(x) \ {l}
<1> DEFINE k == lease[l].key
<1>1. /\ ~lease[l].released /\ lease'[l].released /\ k \in Keys
      /\ \A m \in Leases \ {l} : lease'[m] = lease[m]
      /\ held' = [held EXCEPT ![k] = EntryAfterRelease(l)]
  BY DEF Release, LocksIInv, TypeOK, Stamped, LeaseObject
<1>2. CASE held'[x].generation = held[x].generation
  BY <1>1, <1>2 DEF CurrentShares
<1>3. CASE held'[x].generation # held[x].generation
  <2>1. /\ x = k /\ held'[x] = EntryAfterRelease(l)
        /\ held[x] \in HeldEntry
    BY <1>1, <1>3 DEF LocksIInv, TypeOK
  <2>2. /\ held[k] # NotHeld /\ held[k].generation = lease[l].generation
        /\ held[k].holders <= 1 /\ held'[k] = NotHeld
    BY <2>1, <1>3 DEF EntryAfterRelease, HeldEntry
  <2>3. l \in CurrentShares(k)
    BY <1>1, <2>2 DEF CurrentShares
  <2>4. Cardinality(CurrentShares(k)) = 1
    BY <1>1, <2>1, <2>2 DEF LocksIInv, HoldersMatchShares, HeldEntry
  <2>5. CurrentShares(k) = {l}
    BY <1>1, <2>3, <2>4, SharesFinite, FS_Singleton
  <2>6. CurrentShares(x)' = {}
    <3>1. \A m \in Leases : ~lease'[m].released => lease'[m].generation # 0
      BY <1>1 DEF LocksIInv, Stamped, TypeOK
    <3>2. held'[x].generation = 0
      BY <2>1, <2>2 DEF NotHeld
    <3> QED BY <3>1, <3>2 DEF CurrentShares
  <2> QED BY <2>1, <2>5, <2>6
<1> QED BY <1>2, <1>3

-----------------------------------------------------------------------------
(* The inductive invariant. *)

LEMMA LocksInit == Init => LocksIInv
<1> SUFFICES ASSUME Init PROVE LocksIInv
  OBVIOUS
<1>1. TypeOK
  BY DEF Init, TypeOK, NotHeld, NoLease, HeldEntry, LeaseObject
<1>2. Stamped
  BY DEF Init, Stamped, NotHeld, NoLease
<1>3. HoldersMatchShares
  <2> SUFFICES ASSUME NEW k \in Keys
               PROVE  held[k].holders = Cardinality(CurrentShares(k)) /\ held[k] = NotHeld
    BY DEF HoldersMatchShares
  <2>1. CurrentShares(k) = {}
    BY DEF Init, CurrentShares, NoLease
  <2> QED BY <2>1, FS_EmptySet DEF Init, NotHeld
<1> QED BY <1>1, <1>2, <1>3 DEF LocksIInv

LEMMA LocksTypeStep == TypeOK /\ [Next]_vars => TypeOK'
<1> SUFFICES ASSUME TypeOK, [Next]_vars PROVE TypeOK'
  OBVIOUS
<1> USE DEF TypeOK
<1>1. ASSUME NEW k \in Keys, NEW l \in Leases, TryAcquire(k, l) PROVE TypeOK'
  BY <1>1 DEF TryAcquire, HeldEntry, LeaseObject
<1>2. ASSUME NEW k \in Keys, NEW l \in Leases, Share(k, l) PROVE TypeOK'
  BY <1>2 DEF Share, HeldEntry, LeaseObject
<1>3. ASSUME NEW l \in Leases, Release(l) PROVE TypeOK'
  <2>1. CASE lease[l].key \in Keys
    <3>1. EntryAfterRelease(l) \in HeldEntry
      BY <2>1 DEF EntryAfterRelease, HeldEntry, NotHeld
    <3> QED BY <3>1, <1>3 DEF Release, LeaseObject
  <2>2. CASE lease[l].key \notin Keys
    BY <2>2, <1>3 DEF Release, LeaseObject
  <2> QED BY <2>1, <2>2
<1>4. CASE Tick
  BY <1>4 DEF Tick, lockVars
<1>5. CASE UNCHANGED vars
  BY <1>5 DEF vars
<1> QED BY <1>1, <1>2, <1>3, <1>4, <1>5 DEF Next, ReleaseAgain

LEMMA StampedStep == LocksIInv /\ [Next]_vars => Stamped'
<1> SUFFICES ASSUME LocksIInv, [Next]_vars PROVE Stamped'
  OBVIOUS
<1> USE DEF LocksIInv, TypeOK, Stamped
<1>1. ASSUME NEW k \in Keys, NEW l \in Leases, TryAcquire(k, l) PROVE Stamped'
  BY <1>1 DEF TryAcquire, LeaseObject, HeldEntry
<1>2. ASSUME NEW k \in Keys, NEW l \in Leases, Share(k, l) PROVE Stamped'
  BY <1>2 DEF Share, LeaseObject, HeldEntry
<1>3. ASSUME NEW l \in Leases, Release(l) PROVE Stamped'
  <2>1. lease[l].key \in Keys
    BY <1>3 DEF Release
  <2>2. /\ EntryAfterRelease(l).generation <= generations
        /\ EntryAfterRelease(l).generation = 0 => EntryAfterRelease(l) = NotHeld
    BY <2>1 DEF EntryAfterRelease, HeldEntry, NotHeld
  <2> QED BY <2>1, <2>2, <1>3 DEF Release, LeaseObject
<1>4. CASE Tick
  BY <1>4 DEF Tick, lockVars
<1>5. CASE UNCHANGED vars
  BY <1>5 DEF vars
<1> QED BY <1>1, <1>2, <1>3, <1>4, <1>5 DEF Next, ReleaseAgain

LEMMA HoldersStep == LocksIInv /\ [Next]_vars => HoldersMatchShares'
<1> SUFFICES ASSUME LocksIInv, [Next]_vars, NEW x \in Keys
             PROVE  /\ held'[x].holders = Cardinality(CurrentShares(x)')
                    /\ held'[x] # NotHeld => held'[x].holders > 0
  BY DEF HoldersMatchShares, CurrentShares
<1>0. /\ held[x].holders = Cardinality(CurrentShares(x))
      /\ held[x] # NotHeld => held[x].holders > 0
      /\ held[x] \in HeldEntry
  BY DEF LocksIInv, HoldersMatchShares, TypeOK
<1>1. ASSUME NEW k \in Keys, NEW l \in Leases, TryAcquire(k, l)
      PROVE  /\ held'[x].holders = Cardinality(CurrentShares(x)')
             /\ held'[x] # NotHeld => held'[x].holders > 0
  <2>1. CurrentShares(x)' = IF x = k THEN {l} ELSE CurrentShares(x)
    BY <1>1, SharesAfterTryAcquire
  <2>2. held'[x].holders = IF x = k THEN 1 ELSE held[x].holders
    BY <1>1 DEF TryAcquire, LocksIInv, TypeOK
  <2>3. x # k => held'[x] = held[x]
    BY <1>1 DEF TryAcquire, LocksIInv, TypeOK
  <2> QED BY <1>0, <2>1, <2>2, <2>3, FS_Singleton
<1>2. ASSUME NEW k \in Keys, NEW l \in Leases, Share(k, l)
      PROVE  /\ held'[x].holders = Cardinality(CurrentShares(x)')
             /\ held'[x] # NotHeld => held'[x].holders > 0
  <2>1. /\ l \notin CurrentShares(x)
        /\ CurrentShares(x)' = IF x = k THEN CurrentShares(k) \cup {l} ELSE CurrentShares(x)
    BY <1>2, SharesAfterShare
  <2>2. /\ held'[x].holders = IF x = k THEN held[k].holders + 1 ELSE held[x].holders
        /\ x # k => held'[x] = held[x]
    BY <1>2 DEF Share, LocksIInv, TypeOK, HeldEntry
  <2>3. Cardinality(CurrentShares(x) \cup {l}) = Cardinality(CurrentShares(x)) + 1
    BY <2>1, SharesFinite, FS_AddElement
  <2> QED BY <1>0, <2>1, <2>2, <2>3 DEF HeldEntry
<1>3. ASSUME NEW l \in Leases, Release(l)
      PROVE  /\ held'[x].holders = Cardinality(CurrentShares(x)')
             /\ held'[x] # NotHeld => held'[x].holders > 0
  <2>1. CurrentShares(x)' = CurrentShares(x) \ {l}
    BY <1>3, SharesAfterRelease
  <2>2. /\ lease[l].key \in Keys /\ ~lease[l].released
        /\ held' = [held EXCEPT ![lease[l].key] = EntryAfterRelease(l)]
    BY <1>3 DEF Release, LocksIInv, Stamped
  <2>3. CASE l \in CurrentShares(x)
    <3>1. lease[l].key = x /\ lease[l].generation = held[x].generation
      BY <2>3 DEF CurrentShares
    <3>2. held[x] # NotHeld
      BY <2>2, <3>1 DEF LocksIInv, Stamped, TypeOK, NotHeld
    <3>3. held'[x] = IF held[x].holders <= 1 THEN NotHeld
                     ELSE [held[x] EXCEPT !.holders = @ - 1]
      BY <2>2, <3>1, <3>2 DEF EntryAfterRelease, LocksIInv, TypeOK
    <3>4. Cardinality(CurrentShares(x)') = Cardinality(CurrentShares(x)) - 1
      BY <2>1, <2>3, SharesFinite, FS_RemoveElement
    <3> QED BY <1>0, <3>2, <3>3, <3>4 DEF HeldEntry, NotHeld
  <2>4. CASE l \notin CurrentShares(x)
    <3>1. CurrentShares(x)' = CurrentShares(x)
      BY <2>1, <2>4
    <3>2. held'[x] = held[x]
      BY <2>2, <2>4 DEF EntryAfterRelease, CurrentShares, LocksIInv, TypeOK
    <3> QED BY <1>0, <3>1, <3>2
  <2> QED BY <2>3, <2>4
<1>4. CASE Tick \/ UNCHANGED vars
  BY <1>0, <1>4 DEF Tick, lockVars, vars, CurrentShares
<1> QED BY <1>1, <1>2, <1>3, <1>4 DEF Next, ReleaseAgain

(* Every reachable registry satisfies the inductive invariant. *)
THEOREM LocksInvariance == Spec => []LocksIInv
<1>1. Init => LocksIInv
  BY LocksInit
<1>2. LocksIInv /\ [Next]_vars => LocksIInv'
  BY LocksTypeStep, StampedStep, HoldersStep DEF LocksIInv
<1> QED BY <1>1, <1>2, PTL DEF Spec

(* Each variable keeps its type. *)
THEOREM TypeCorrect == Spec => []TypeOK
BY LocksInvariance, PTL DEF LocksIInv

(* Whatever the order of acquisitions, shares, takeovers and (late or      *)
(* repeated) releases, an entry counts exactly its own unreleased leases.  *)
THEOREM HoldersCounted == Spec => []HoldersMatchShares
BY LocksInvariance, PTL DEF LocksIInv

-----------------------------------------------------------------------------
(* A session is taken from an unreleased lease only by expiry. *)

LEMMA TakenOnlyByExpiry ==
  ASSUME LocksIInv, [Next]_vars, NEW x \in Keys, NEW m \in CurrentShares(x),
         ~lease'[m].released, m \notin CurrentShares(x)'
  PROVE  Expired(x)
<1>0. m \in Leases /\ ~lease[m].released
  BY DEF CurrentShares
<1>1. ASSUME NEW k \in Keys, NEW l \in Leases, TryAcquire(k, l) PROVE Expired(x)
  <2>1. CurrentShares(x)' = IF x = k THEN {l} ELSE CurrentShares(x)
    BY <1>1, SharesAfterTryAcquire
  <2>2. held[x] # NotHeld
    BY NoSharesIfNotHeld
  <2> QED BY <1>1, <2>1, <2>2 DEF TryAcquire, Busy
<1>2. ASSUME NEW k \in Keys, NEW l \in Leases, Share(k, l) PROVE Expired(x)
  BY <1>2, SharesAfterShare
<1>3. ASSUME NEW l \in Leases, Release(l) PROVE Expired(x)
  <2>1. CurrentShares(x)' = CurrentShares(x) \ {l}
    BY <1>3, SharesAfterRelease
  <2>2. m # l
    BY <1>0, <1>3 DEF Release, LocksIInv, TypeOK, LeaseObject
  <2> QED BY <2>1, <2>2
<1>4. CASE Tick \/ UNCHANGED vars
  BY <1>4 DEF Tick, lockVars, vars, CurrentShares
<1> QED BY <1>1, <1>2, <1>3, <1>4 DEF Next, ReleaseAgain

(* No release and no younger stream ever takes a session from a holder     *)
(* that has not given it back.                                             *)
THEOREM NothingElseTakesAway == Spec => OnlyExpiryTakesAway
<1>1. LocksIInv /\ [Next]_vars =>
        [\A k \in Keys : \A l \in CurrentShares(k) :
           ~lease'[l].released /\ l \notin CurrentShares(k)' => Expired(k)]_vars
  BY TakenOnlyByExpiry
<1> QED BY <1>1, LocksInvariance, PTL DEF Spec, OnlyExpiryTakesAway

-----------------------------------------------------------------------------
(* The registry implements the set-of-owners lock. *)

LEMMA RefinesInit == Init => Mutex!Init
<1> SUFFICES ASSUME Init PROVE Mutex!Init
  OBVIOUS
<1>1. ASSUME NEW k \in Keys PROVE CurrentShares(k) = {} /\ held[k].since = 0
  BY DEF Init, CurrentShares, NoLease, NotHeld
<1> QED BY <1>1 DEF Init, Mutex!Init

(* The name a fresh lease gets is nobody's share. *)
LEMMA FreeNameUnused ==
  ASSUME NEW l \in Leases, FreeName(l)
  PROVE  Mutex!Unused(l)
BY DEF FreeName, Mutex!Unused, CurrentShares

LEMMA RefinesTryAcquire ==
  ASSUME LocksIInv, NEW k \in Keys, NEW l \in Leases, TryAcquire(k, l)
  PROVE  Mutex!Take(k, l)
<1>1. Mutex!Unused(l)
  BY FreeNameUnused DEF TryAcquire
<1>2. CurrentShares(k) = {} \/ clock - held[k].since >= MaxAge
  BY NoSharesIfNotHeld DEF TryAcquire, Busy, Expired
<1>3. \A x \in Keys : CurrentShares(x)' = IF x = k THEN {l} ELSE CurrentShares(x)
  BY SharesAfterTryAcquire
<1>4. /\ \A x \in Keys : held'[x].since = IF x = k THEN clock ELSE held[x].since
      /\ clock' = clock
  BY DEF TryAcquire, LocksIInv, TypeOK
<1> QED BY <1>1, <1>2, <1>3, <1>4 DEF Mutex!Take

LEMMA RefinesShare ==
  ASSUME LocksIInv, NEW k \in Keys, NEW l \in Leases, Share(k, l)
  PROVE  Mutex!Join(k, l)
<1>1. Mutex!Unused(l)
  BY FreeNameUnused DEF Share
<1>2. CurrentShares(k) # {}
  <2>1. /\ held[k].holders = Cardinality(CurrentShares(k))
        /\ held[k].holders > 0
    BY DEF Share, LocksIInv, HoldersMatchShares
  <2> QED BY <2>1, FS_EmptySet
<1>3. \A x \in Keys :
        CurrentShares(x)' = IF x = k THEN CurrentShares(k) \cup {l} ELSE CurrentShares(x)
  BY SharesAfterShare
<1>4. (\A x \in Keys : held'[x].since = held[x].since) /\ clock' = clock
  BY DEF Share, LocksIInv, TypeOK, HeldEntry
<1> QED BY <1>1, <1>2, <1>3, <1>4 DEF Mutex!Join

(* A release is a Leave if the lease still counted, invisible if it had    *)
(* been taken over.                                                        *)
LEMMA RefinesRelease ==
  ASSUME LocksIInv, NEW l \in Leases, Release(l)
  PROVE  Mutex!Leave(lease[l].key, l) \/ UNCHANGED Mutex!vars
<1> DEFINE k == lease[l].key
<1>1. /\ k \in Keys /\ ~lease[l].released /\ clock' = clock
      /\ held' = [held EXCEPT ![k] = EntryAfterRelease(l)]
      /\ held[k] \in HeldEntry
  BY DEF Release, LocksIInv, TypeOK, Stamped
<1>2. \A x \in Keys : CurrentShares(x)' = CurrentShares(x) \ {l}
  BY SharesAfterRelease
<1>3. \A x \in Keys \ {k} : l \notin CurrentShares(x) /\ held'[x] = held[x]
  BY <1>1 DEF CurrentShares, LocksIInv, TypeOK
<1>4. CASE l \in CurrentShares(k)
  <2>1. lease[l].generation = held[k].generation /\ held[k] # NotHeld
    <3>1. held[k] # NotHeld
      BY <1>1, <1>4, NoSharesIfNotHeld
    <3> QED BY <3>1, <1>4 DEF CurrentShares
  <2>2. held[k].holders = Cardinality(CurrentShares(k)) /\ held[k].holders > 0
    BY <1>1, <2>1 DEF LocksIInv, HoldersMatchShares
  <2>3. held[k].holders <= 1 <=> CurrentShares(k) = {l}
    BY <1>1, <1>4, <2>2, SharesFinite, FS_Singleton DEF HeldEntry
  <2>4. held'[k].since = IF CurrentShares(k) = {l} THEN 0 ELSE held[k].since
    BY <1>1, <2>1, <2>3 DEF EntryAfterRelease, HeldEntry, NotHeld, LocksIInv, TypeOK
  <2>5. \A x \in Keys : CurrentShares(x)' =
          IF x = k THEN CurrentShares(k) \ {l} ELSE CurrentShares(x)
    BY <1>2, <1>3
  <2>6. \A x \in Keys : held'[x].since =
          IF x = k THEN (IF CurrentShares(k) = {l} THEN 0 ELSE held[k].since)
                   ELSE held[x].since
    BY <1>3, <2>4
  <2>7. k \in Keys /\ clock' = clock
    BY <1>1
  <2> HIDE DEF k
  <2>8. Mutex!Leave(k, l)
    BY <1>4, <2>5, <2>6, <2>7 DEF Mutex!Leave
  <2> QED BY <2>8 DEF k
<1>5. CASE l \notin CurrentShares(k)
  <2>1. held' = held
    BY <1>1, <1>5 DEF EntryAfterRelease, CurrentShares, LocksIInv, TypeOK
  <2>2. \A x \in Keys : CurrentShares(x)' = CurrentShares(x)
    BY <1>2, <1>3, <1>5
  <2> QED BY <1>1, <2>1, <2>2 DEF Mutex!vars
<1> QED BY <1>4, <1>5

LEMMA RefinesNext == LocksIInv /\ [Next]_vars => [Mutex!Next]_(Mutex!vars)
<1> SUFFICES ASSUME LocksIInv, [Next]_vars PROVE Mutex!Next \/ UNCHANGED Mutex!vars
  OBVIOUS
<1>1. ASSUME NEW k \in Keys, NEW l \in Leases, TryAcquire(k, l) PROVE Mutex!Next
  BY <1>1, RefinesTryAcquire DEF Mutex!Next
<1>2. ASSUME NEW k \in Keys, NEW l \in Leases, Share(k, l) PROVE Mutex!Next
  BY <1>2, RefinesShare DEF Mutex!Next
<1>3. ASSUME NEW l \in Leases, Release(l) PROVE Mutex!Next \/ UNCHANGED Mutex!vars
  <2>1. lease[l].key \in Keys
    BY <1>3 DEF Release, LocksIInv, Stamped
  <2> QED BY <1>3, <2>1, RefinesRelease DEF Mutex!Next
<1>4. CASE Tick
  BY <1>4 DEF Tick, lockVars, Mutex!Next, Mutex!Tick, CurrentShares
<1>5. CASE UNCHANGED vars
  BY <1>5 DEF vars, Mutex!vars, CurrentShares
<1> QED BY <1>1, <1>2, <1>3, <1>4, <1>5 DEF Next, ReleaseAgain

(* Counters and generations deliver the set-of-owners lock, for any number *)
(* of sessions, leases, generations and ticks.                             *)
THEOREM RegistryImplementsMutex == Spec => ImplementsMutex
BY RefinesInit, RefinesNext, LocksInvariance, PTL DEF Spec, ImplementsMutex, Mutex!Spec

-----------------------------------------------------------------------------
(* ModelChoice. A pair with both halves is resolved to itself, so whatever *)
(* the guard let through is what the client is built for.                  *)

Deployed ==
  deployment \in [provider : Providers, model : Models, usable : SUBSET Providers,
                  guestProvider : Providers \cup {Unset}, guestModel : Models]

Listed(pair) == pair \in Available \cup {ServerDefault}

ChoiceIInv ==
  /\ Deployed
  /\ ask = [guest |-> ask.guest, pair |-> ask.pair, reports |-> ask.reports]
  /\ course \in {"admitted", "built", "unusable"} =>
       Listed(Resolved(ask.pair)) /\ (ask.guest => ask.pair = GuestModel)
  /\ course = "built" =>
       built.client = Resolved(ask.pair) /\ built.capabilities = built.client
  /\ course = "unusable" => Resolved(ask.pair).provider \notin deployment.usable

LEMMA Fallbacks == \A p \in Providers : Fallback[p] # Unset
  BY DEF Providers, Fallback, Unset

LEMMA Providings == \A p \in Providers : p # Unset
  BY DEF Providers, Unset

(* Both halves given, nothing is left to resolve. *)
LEMMA ResolvedStays ==
  ASSUME NEW p, NEW m, p # Unset, m # Unset
  PROVE  Resolved([provider |-> p, model |-> m]) = [provider |-> p, model |-> m]
  BY DEF Resolved, Provider, ResolveModel, FirstSet

LEMMA AvailableStays ==
  ASSUME Deployed, NEW pair \in Available
  PROVE  Resolved(pair) = pair /\ pair.provider \in deployment.usable
<1>1. PICK p \in deployment.usable : pair = [provider |-> p, model |-> Fallback[p]]
  BY DEF Available
<1>2. p \in Providers
  BY DEF Deployed
<1> QED  BY <1>1, <1>2, ResolvedStays, Fallbacks, Providings

(* So is the guests' model: its second half is always filled in. *)
LEMMA GuestModelStays ==
  ASSUME Deployed
  PROVE  Resolved(GuestModel) = GuestModel
<1> DEFINE p == IF deployment.guestProvider # Unset THEN deployment.guestProvider
                ELSE deployment.provider
           m == ResolveModel(p, FirstSet(deployment.guestModel, DefaultModelFor(p), Unset))
<1>1. p \in Providers
  BY DEF Deployed
<1>2. m # Unset
  BY <1>1, Fallbacks DEF ResolveModel, FirstSet
<1>3. GuestModel = [provider |-> p, model |-> m]
  BY DEF GuestModel
<1> HIDE DEF p, m
<1> QED  BY <1>1, <1>2, <1>3, ResolvedStays, Providings

(* The deployment does not change, nor what is worked out from it. *)
LEMMA ChoiceStep == ChoiceIInv /\ [ModelChoiceNext]_modelChoice => ChoiceIInv'
<1> SUFFICES ASSUME ChoiceIInv, [ModelChoiceNext]_modelChoice PROVE ChoiceIInv'
  OBVIOUS
<1>0. Deployed' /\ deployment' = deployment
  BY DEF ChoiceIInv, Deployed, ModelChoiceNext, modelChoice, Ask, Guard, Build, Invoke, Stream, Used, Answer
<1>1. \A pair : /\ Resolved(pair)' = Resolved(pair) /\ (Listed(pair)' <=> Listed(pair))
                /\ GuestModel' = GuestModel
  BY <1>0 DEF Resolved, Provider, ResolveModel, DefaultModelFor, Listed, Available, ServerDefault, GuestModel
<1>2. CASE UNCHANGED modelChoice
  BY <1>0, <1>1, <1>2 DEF modelChoice, ChoiceIInv
<1>3. ASSUME NEW guest \in BOOLEAN, NEW reports \in BOOLEAN, NEW pair \in Asks, Ask(guest, pair, reports)
      PROVE  ChoiceIInv'
  BY <1>0, <1>3 DEF Ask, ChoiceIInv
<1>4. CASE Guard
  <2> DEFINE pair == IF ask.guest THEN GuestModel ELSE ask.pair
  <2>1. ask' = [ask EXCEPT !.pair = pair] /\ course' \in {"admitted", "refused"}
        /\ (course' = "admitted" => Allowed(pair))
    BY <1>4 DEF Guard
  <2>s. /\ ask = [guest |-> ask.guest, pair |-> ask.pair, reports |-> ask.reports]
        /\ ask'.pair = pair /\ ask'.guest = ask.guest
        /\ ask' = [guest |-> ask'.guest, pair |-> ask'.pair, reports |-> ask'.reports]
    <3> HIDE DEF pair
    <3>1. ask = [guest |-> ask.guest, pair |-> ask.pair, reports |-> ask.reports]
      BY DEF ChoiceIInv
    <3> QED  BY <2>1, <3>1
  <2>2. course' = "admitted" => Listed(Resolved(ask'.pair))
    BY <2>1, <2>s DEF Allowed, Listed
  <2>3. ask'.guest => ask'.pair = GuestModel
    BY <2>s
  <2> HIDE DEF pair
  <2> QED  BY <1>0, <1>1, <2>1, <2>s, <2>2, <2>3 DEF ChoiceIInv
<1>5. CASE Build
  BY <1>0, <1>1, <1>5 DEF Build, ChoiceIInv
<1>6. ASSUME NEW ok \in BOOLEAN, Invoke(ok) PROVE ChoiceIInv'
  BY <1>0, <1>6 DEF Invoke, Used, ChoiceIInv
<1>7. CASE Stream
  BY <1>0, <1>7 DEF Stream, Used, ChoiceIInv
<1>8. CASE Answer
  BY <1>0, <1>8 DEF Answer, ChoiceIInv
<1> QED  BY <1>2, <1>3, <1>4, <1>5, <1>6, <1>7, <1>8 DEF ModelChoiceNext

(* Whatever halves a request leaves out: a client is built only for what   *)
(* the list offers or the operator's default, a guest's for the guests'    *)
(* model, and what the list announces passes the guard (core/llm.py:       *)
(* 174-256, shared/model_guard.py:6-12).                                   *)
THEOREM ModelsGuarded == ModelChoiceSpec => []ModelGuard
<1>1. ModelChoiceInit => ChoiceIInv
  BY DeploymentsAssumption DEF ModelChoiceInit, ChoiceIInv, Deployed
<1>2. ChoiceIInv => ModelGuard
  <2> SUFFICES ASSUME ChoiceIInv PROVE ModelGuard
    OBVIOUS
  <2>1. course = "built" => /\ built.client \in Available \cup {ServerDefault}
                            /\ built.capabilities = built.client
                            /\ ask.guest => built.client = GuestModel
    BY GuestModelStays DEF ChoiceIInv, Listed
  <2>2. course = "unusable" => Resolved(ask.pair) = ServerDefault
    BY AvailableStays DEF ChoiceIInv, Listed
  <2>3. ASSUME NEW first \in Available PROVE Allowed(Announced(FALSE, first))
    <3>1. Announced(FALSE, first) \in Available
      BY <2>3 DEF Announced
    <3> QED  BY <3>1, AvailableStays DEF ChoiceIInv, Allowed
  <2> QED  BY <2>1, <2>2, <2>3 DEF ModelGuard
<1> QED  BY <1>1, <1>2, ChoiceStep, PTL DEF ModelChoiceSpec

-----------------------------------------------------------------------------
(* Admission. What is counted, s, is the end of what was let through, log; *)
(* everything before it is gap or more old at the time t.                  *)

Ledger(s, log, limit, gap, t) ==
  /\ s \in Seq(Nat) /\ log \in Seq(Nat) /\ Len(s) <= Len(log) /\ Len(s) <= limit
  /\ \A j \in 1 .. Len(s) : s[j] = log[Len(log) - Len(s) + j]
  /\ \A j \in 1 .. Len(log) - Len(s) : log[j] + gap <= t
  /\ \A i \in 1 .. Len(log) : log[i] <= t
  /\ \A i, j \in 1 .. Len(log) : i < j => log[i] <= log[j]
  /\ Spaced(log, limit, gap)

(* A time a refused client was told is not before the oldest counted one   *)
(* is gap old.                                                             *)
Kept(s, limit, gap, promise) ==
  promise # Never => limit >= 1 /\ (Len(s) = limit => promise >= s[1] + gap)

Counted ==
  /\ now \in Nat /\ conf \in Settings
  /\ hits \in [Buckets -> Seq(Nat)] /\ hitLog \in [Buckets -> Seq(Nat)]
  /\ hitPromise \in [Buckets -> Int]
  /\ \A k \in Buckets : /\ Ledger(hits[k], hitLog[k], RateLimit[k[2]], Window, now)
                        /\ Kept(hits[k], RateLimit[k[2]], Window, hitPromise[k])
Promised ==
  /\ turns \in [Purses -> Seq(Nat)] /\ turnLog \in [Purses -> Seq(Nat)]
  /\ turnPromise \in [Purses -> Int]
  /\ \A p \in Purses : /\ Ledger(turns[p], turnLog[p], Limit(p), Day, now)
                       /\ Kept(turns[p], Limit(p), Day, turnPromise[p])
AdmissionIInv == Counted /\ Promised

LEMMA FromProps ==
  ASSUME NEW S, NEW s \in Seq(S), NEW n \in 0 .. Len(s)
  PROVE  /\ From(s, n) \in Seq(S) /\ Len(From(s, n)) = Len(s) - n
         /\ \A i \in 1 .. Len(s) - n : From(s, n)[i] = s[i + n]
<1>1. \A i \in n + 1 .. Len(s) : s[i] \in S
  OBVIOUS
<1>2. Len(s) \in Nat
  OBVIOUS
<1>3. /\ SubSeq(s, n + 1, Len(s)) \in Seq(S)
      /\ Len(SubSeq(s, n + 1, Len(s))) = IF n + 1 <= Len(s) THEN Len(s) - (n + 1) + 1 ELSE 0
      /\ \A i \in 1 .. Len(s) - (n + 1) + 1 : SubSeq(s, n + 1, Len(s))[i] = s[(n + 1) + i - 1]
  BY <1>1, <1>2, SubSeqProperties
<1> QED  BY <1>2, <1>3 DEF From

(* The limits of the settings. *)
LEMMA Limits ==
  ASSUME AdmissionIInv
  PROVE  /\ \A k \in Buckets : RateLimit[k[2]] \in Nat /\ RateLimit[k[2]] >= 1
         /\ \A p \in Purses : Limit(p) \in Nat
         /\ Window \in Nat /\ Day \in Nat /\ now \in Nat
<1>1. \A k \in Buckets : k[2] \in Tiers
  BY DEF Buckets
<1>2. \A k \in Buckets : RateLimit[k[2]] \in Nat /\ RateLimit[k[2]] >= 1
  BY <1>1, RateLimitAssumption
<1>3. conf.research \in Nat
  BY SettingsAssumption DEF AdmissionIInv, Counted
<1>4. \A p \in Purses : Limit(p) \in Nat
  BY <1>3, TurnLimitAssumption DEF Limit
<1> QED  BY <1>2, <1>4, TimeAssumption DEF AdmissionIInv, Counted

(* Time passes. *)
LEMMA LedgerLater ==
  ASSUME NEW s, NEW log, NEW limit \in Nat, NEW gap \in Nat, NEW t \in Nat,
         Ledger(s, log, limit, gap, t), NEW u \in Nat, t <= u
  PROVE  Ledger(s, log, limit, gap, u)
<1>1. \A i \in 1 .. Len(log) : log[i] \in Nat
  BY DEF Ledger
<1>2. Len(s) \in Nat /\ Len(log) \in Nat
  BY DEF Ledger
<1>3. \A i \in 1 .. Len(log) : log[i] <= u
  BY <1>1 DEF Ledger
<1>4. \A j \in 1 .. Len(log) - Len(s) : log[j] + gap <= u
  <2> SUFFICES ASSUME NEW j \in 1 .. Len(log) - Len(s) PROVE log[j] + gap <= u
    OBVIOUS
  <2>1. j \in 1 .. Len(log)
    BY <1>2
  <2>2. log[j] + gap <= t
    BY DEF Ledger
  <2> QED  BY <1>1, <2>1, <2>2
<1> QED  BY <1>3, <1>4 DEF Ledger

(* The first n times are dropped, all of them gap old. *)
LEMMA LedgerPruned ==
  ASSUME NEW s, NEW log, NEW limit \in Nat, NEW gap \in Nat, NEW t \in Nat,
         Ledger(s, log, limit, gap, t),
         NEW n \in 0 .. Len(s), \A i \in 1 .. n : s[i] + gap <= t
  PROVE  Ledger(From(s, n), log, limit, gap, t) /\ Len(From(s, n)) = Len(s) - n
<1>1. /\ s \in Seq(Nat) /\ log \in Seq(Nat) /\ Len(s) \in Nat /\ Len(log) \in Nat
      /\ Len(s) <= Len(log) /\ Len(s) <= limit
      /\ \A j \in 1 .. Len(s) : s[j] = log[Len(log) - Len(s) + j]
      /\ \A j \in 1 .. Len(log) - Len(s) : log[j] + gap <= t
  BY DEF Ledger
<1>2. /\ From(s, n) \in Seq(Nat) /\ Len(From(s, n)) = Len(s) - n
      /\ \A i \in 1 .. Len(s) - n : From(s, n)[i] = s[i + n]
  BY <1>1, FromProps
<1>3. ASSUME NEW j \in 1 .. Len(s) - n
      PROVE  From(s, n)[j] = log[Len(log) - Len(From(s, n)) + j]
  <2>1. j + n \in 1 .. Len(s)
    BY <1>1
  <2>2. Len(log) - Len(s) + (j + n) = Len(log) - Len(From(s, n)) + j
    BY <1>1, <1>2
  <2>3. s[j + n] = log[Len(log) - Len(s) + (j + n)]
    BY <1>1, <2>1
  <2> QED  BY <1>2, <2>2, <2>3
<1>4. ASSUME NEW j \in 1 .. Len(log) - Len(From(s, n)) PROVE log[j] + gap <= t
  <2>1. CASE j <= Len(log) - Len(s)
    <3>1. j \in 1 .. Len(log) - Len(s)
      BY <2>1
    <3> QED  BY <1>1, <3>1
  <2>2. CASE ~(j <= Len(log) - Len(s))
    <3> DEFINE m == j - (Len(log) - Len(s))
    <3>1. m \in 1 .. n /\ m \in 1 .. Len(s) /\ Len(log) - Len(s) + m = j
      <4>1. /\ Len(s) \in Nat /\ Len(log) \in Nat /\ j \in 1 .. Len(log) - (Len(s) - n)
            /\ n \in 0 .. Len(s)
        BY <1>1, <1>2
      <4> QED  BY <2>2, <4>1
    <3> HIDE DEF m
    <3>2. s[m] = log[j]
      BY <1>1, <3>1
    <3> QED  BY <3>1, <3>2
  <2> QED  BY <2>1, <2>2
<1>5. Len(From(s, n)) <= Len(log) /\ Len(From(s, n)) <= limit
  BY <1>1, <1>2
<1>6. \A i \in 1 .. Len(From(s, n)) : From(s, n)[i] = log[Len(log) - Len(From(s, n)) + i]
  BY <1>2, <1>3
<1> QED  BY <1>2, <1>4, <1>5, <1>6 DEF Ledger

(* One more is let through. *)
LEMMA LedgerMore ==
  ASSUME NEW s, NEW log, NEW limit \in Nat, NEW gap \in Nat, NEW t \in Nat,
         Ledger(s, log, limit, gap, t), Len(s) < limit
  PROVE  Ledger(Append(s, t), Append(log, t), limit, gap, t)
<1>1. /\ s \in Seq(Nat) /\ log \in Seq(Nat) /\ Len(s) \in Nat /\ Len(log) \in Nat
      /\ Len(s) <= Len(log) /\ Len(s) <= limit
      /\ \A j \in 1 .. Len(s) : s[j] = log[Len(log) - Len(s) + j]
      /\ \A j \in 1 .. Len(log) - Len(s) : log[j] + gap <= t
      /\ \A i \in 1 .. Len(log) : log[i] <= t
  BY DEF Ledger
<1> DEFINE a == Append(s, t)
           b == Append(log, t)
<1>2. a \in Seq(Nat) /\ Len(a) = Len(s) + 1 /\ a[Len(s) + 1] = t /\ \A i \in 1 .. Len(s) : a[i] = s[i]
  BY <1>1, AppendProperties
<1>3. b \in Seq(Nat) /\ Len(b) = Len(log) + 1 /\ b[Len(log) + 1] = t /\ \A i \in 1 .. Len(log) : b[i] = log[i]
  BY <1>1, AppendProperties
<1> HIDE DEF a, b
<1>4. ASSUME NEW j \in 1 .. Len(a) PROVE a[j] = b[Len(b) - Len(a) + j]
  <2>1. Len(b) - Len(a) + j = Len(log) - Len(s) + j
    BY <1>1, <1>2, <1>3
  <2>2. CASE j = Len(s) + 1
    <3>1. Len(log) - Len(s) + j = Len(log) + 1
      BY <1>1, <2>2
    <3> QED  BY <1>2, <1>3, <2>1, <2>2, <3>1
  <2>3. CASE j # Len(s) + 1
    <3>1. j \in 1 .. Len(s) /\ Len(log) - Len(s) + j \in 1 .. Len(log)
      BY <1>1, <1>2, <2>3
    <3>2. a[j] = log[Len(log) - Len(s) + j]
      <4>1. a[j] = s[j]
        BY <1>2, <3>1
      <4>2. s[j] = log[Len(log) - Len(s) + j]
        BY <1>1, <3>1
      <4> QED  BY <4>1, <4>2
    <3>3. b[Len(log) - Len(s) + j] = log[Len(log) - Len(s) + j]
      BY <1>3, <3>1
    <3> QED  BY <2>1, <3>2, <3>3
  <2> QED  BY <2>2, <2>3
<1>5. ASSUME NEW j \in 1 .. Len(b) - Len(a) PROVE b[j] + gap <= t
  <2>1. j \in 1 .. Len(log) - Len(s) /\ j \in 1 .. Len(log)
    <3>1. j \in 1 .. (Len(log) + 1) - (Len(s) + 1) /\ Len(s) \in Nat /\ Len(log) \in Nat
      BY <1>1, <1>2, <1>3
    <3> QED  BY <3>1
  <2> QED  BY <1>1, <1>3, <2>1
<1>6. ASSUME NEW i \in 1 .. Len(b) PROVE b[i] <= t
  <2>1. i \in 1 .. Len(log) \/ i = Len(log) + 1
    BY <1>1, <1>3
  <2> QED  BY <1>1, <1>3, <2>1
<1>7. ASSUME NEW i \in 1 .. Len(b) - limit PROVE b[i + limit] - b[i] >= gap
  <2>0. i \in 1 .. Len(log) /\ b[i] = log[i] /\ log[i] \in Nat
    <3>1. limit >= 1
      BY <1>1
    <3>2. i \in 1 .. Len(log)
      BY <1>1, <1>3, <3>1
    <3>3. b[i] = log[i]
      BY <1>3, <3>2
    <3>4. log[i] \in Nat
      <4>1. log \in Seq(Nat)
        BY <1>1
      <4> QED  BY ONLY <3>2, <4>1
    <3> QED  BY <3>2, <3>3, <3>4
  <2>1. CASE i + limit = Len(log) + 1
    <3>1. i \in 1 .. Len(log) - Len(s)
      BY <1>1, <2>1
    <3>2. log[i] + gap <= t
      BY <1>1, <3>1
    <3>3. b[i + limit] = t
      BY <1>3, <2>1
    <3> QED  BY <2>0, <3>2, <3>3
  <2>2. CASE i + limit # Len(log) + 1
    <3>0. Len(log) \in Nat /\ Len(b) = Len(log) + 1
      BY <1>1, <1>3
    <3>1. i \in 1 .. Len(log) - limit /\ i + limit \in 1 .. Len(log)
      BY <2>2, <3>0
    <3>2. log[i + limit] - log[i] >= gap
      BY <3>1 DEF Ledger, Spaced
    <3>3. b[i + limit] = log[i + limit]
      BY <1>3, <3>1
    <3> QED  BY <2>0, <3>2, <3>3
  <2> QED  BY <2>1, <2>2
<1>8. Len(a) <= Len(b) /\ Len(a) <= limit
  BY <1>1, <1>2, <1>3
<1>10. ASSUME NEW i \in 1 .. Len(b), NEW j \in 1 .. Len(b), i < j PROVE b[i] <= b[j]
  <2>1. i \in 1 .. Len(log) /\ b[i] = log[i] /\ log[i] <= t
    BY <1>1, <1>3, <1>10
  <2>2. CASE j = Len(log) + 1
    BY <1>3, <2>1, <2>2
  <2>3. CASE j # Len(log) + 1
    <3>1. j \in 1 .. Len(log) /\ b[j] = log[j]
      BY <1>1, <1>3, <2>3
    <3> QED  BY <1>10, <2>1, <3>1 DEF Ledger
  <2> QED  BY <2>2, <2>3
<1>9. Ledger(a, b, limit, gap, t)
  BY <1>2, <1>3, <1>4, <1>5, <1>6, <1>7, <1>8, <1>10 DEF Ledger, Spaced
<1> QED  BY <1>9 DEF a, b

LEMMA KeptPruned ==
  ASSUME NEW s \in Seq(Nat), NEW limit \in Nat, NEW gap \in Nat, NEW promise \in Int,
         Kept(s, limit, gap, promise), Len(s) <= limit, NEW n \in 0 .. Len(s)
  PROVE  Kept(From(s, n), limit, gap, promise)
<1>1. /\ Len(From(s, n)) = Len(s) - n
      /\ \A i \in 1 .. Len(s) - n : From(s, n)[i] = s[i + n]
  BY FromProps
<1>2. Len(s) \in Nat
  OBVIOUS
<1> SUFFICES ASSUME promise # Never
             PROVE  limit >= 1 /\ (Len(From(s, n)) = limit => promise >= From(s, n)[1] + gap)
  BY DEF Kept
<1>3. limit >= 1 /\ (Len(s) = limit => promise >= s[1] + gap)
  BY DEF Kept
<1>4. CASE Len(From(s, n)) = limit
  <2>1. n = 0 /\ Len(s) = limit /\ 1 \in 1 .. Len(s) - n /\ 1 + n = 1
    BY <1>1, <1>2, <1>3, <1>4
  <2>2. From(s, n)[1] = s[1]
    BY <1>1, <2>1
  <2> QED  BY <1>3, <2>1, <2>2
<1> QED  BY <1>3, <1>4

(* The table the sweep leaves is as good as the one it found. *)
LEMMA SweptTable ==
  ASSUME AdmissionIInv
  PROVE  /\ Table \in [Buckets -> Seq(Nat)]
         /\ \A k \in Buckets : /\ Ledger(Table[k], hitLog[k], RateLimit[k[2]], Window, now)
                               /\ Kept(Table[k], RateLimit[k[2]], Window, hitPromise[k])
<1>0. /\ hits \in [Buckets -> Seq(Nat)] /\ hitPromise \in [Buckets -> Int]
      /\ \A k \in Buckets : /\ Ledger(hits[k], hitLog[k], RateLimit[k[2]], Window, now)
                            /\ Kept(hits[k], RateLimit[k[2]], Window, hitPromise[k])
  BY DEF AdmissionIInv, Counted
<1>1. ASSUME NEW k \in Buckets
      PROVE  /\ Swept[k] \in Seq(Nat)
             /\ Ledger(Swept[k], hitLog[k], RateLimit[k[2]], Window, now)
             /\ Kept(Swept[k], RateLimit[k[2]], Window, hitPromise[k])
  <2> DEFINE s == hits[k]
  <2>1. CASE s # <<>> /\ s[Len(s)] + Window <= now
    <3>1. s \in Seq(Nat) /\ Len(s) \in Nat /\ Len(s) <= RateLimit[k[2]]
      BY <1>0 DEF Ledger
    <3>2. RateLimit[k[2]] \in Nat /\ RateLimit[k[2]] >= 1 /\ Window \in Nat /\ now \in Nat
      BY Limits
    <3>3. Swept[k] = <<>>
      BY <2>1 DEF Swept
    <3>4. Len(Swept[k]) = 0 /\ Swept[k] \in Seq(Nat)
      BY <3>3
    <3>5. Ledger(Swept[k], hitLog[k], RateLimit[k[2]], Window, now)
      <4> DEFINE log == hitLog[k]
      <4>0. /\ log \in Seq(Nat) /\ Len(log) \in Nat /\ Len(s) <= Len(log) /\ Len(s) >= 1
            /\ \A j \in 1 .. Len(s) : s[j] = log[Len(log) - Len(s) + j]
            /\ \A i, j \in 1 .. Len(log) : i < j => log[i] <= log[j]
        BY <1>0, <2>1, <3>1 DEF Ledger
      <4>1. s[Len(s)] = log[Len(log)]
        <5> HIDE DEF s, log
        <5>0. Len(s) \in Nat
          BY <3>1
        <5>1. Len(s) \in 1 .. Len(s) /\ Len(log) - Len(s) + Len(s) = Len(log)
          BY <4>0, <5>0
        <5>2. s[Len(s)] = log[Len(log) - Len(s) + Len(s)]
          BY <4>0, <5>1
        <5> QED  BY <5>1, <5>2
      <4>2. ASSUME NEW j \in 1 .. Len(log) PROVE log[j] + Window <= now
        <5>1. log[j] <= log[Len(log)] /\ log[j] \in Nat /\ log[Len(log)] \in Nat
          BY <4>0
        <5> QED  BY <2>1, <3>2, <4>1, <5>1
      <4>3. Len(Swept[k]) <= Len(log) /\ Len(log) - Len(Swept[k]) = Len(log)
        BY <3>4, <4>0
      <4>4. /\ \A j \in 1 .. Len(Swept[k]) :
                 Swept[k][j] = log[Len(log) - Len(Swept[k]) + j]
            /\ \A j \in 1 .. Len(log) - Len(Swept[k]) : log[j] + Window <= now
            /\ Len(Swept[k]) <= RateLimit[k[2]]
        BY <3>2, <3>4, <4>0, <4>2, <4>3
      <4>5. /\ \A i \in 1 .. Len(log) : log[i] <= now
            /\ \A i, j \in 1 .. Len(log) : i < j => log[i] <= log[j]
            /\ Spaced(log, RateLimit[k[2]], Window)
        BY <1>0 DEF Ledger
      <4> QED  BY <3>4, <4>0, <4>3, <4>4, <4>5 DEF Ledger
    <3>6. Kept(Swept[k], RateLimit[k[2]], Window, hitPromise[k])
      BY <1>0, <3>2, <3>4 DEF Kept
    <3> QED  BY <3>4, <3>5, <3>6
  <2>2. CASE ~(s # <<>> /\ s[Len(s)] + Window <= now)
    <3>1. Swept[k] = hits[k]
      BY <2>2 DEF Swept
    <3> QED  BY <1>0, <3>1
  <2> QED  BY <2>1, <2>2
<1>2. Swept \in [Buckets -> Seq(Nat)]
  <2>1. \A k \in Buckets : (IF hits[k] # <<>> /\ hits[k][Len(hits[k])] + Window <= now
                           THEN <<>> ELSE hits[k]) \in Seq(Nat)
    BY <1>0
  <2> QED  BY <2>1 DEF Swept
<1>3. CASE (calls + 1) % SweepEvery = 0
  <2>1. Table = Swept
    BY <1>3 DEF Table
  <2> QED  BY <1>1, <1>2, <2>1
<1>4. CASE (calls + 1) % SweepEvery # 0
  <2>1. Table = hits
    BY <1>4 DEF Table
  <2> QED  BY <1>0, <2>1
<1> QED  BY <1>3, <1>4

-----------------------------------------------------------------------------
LEMMA AdmissionIInit == AdmissionInit => AdmissionIInv
<1> SUFFICES ASSUME AdmissionInit PROVE AdmissionIInv
  OBVIOUS
<1>1. /\ now = 0 /\ conf \in Settings
      /\ hits = [k \in Buckets |-> <<>>] /\ hitLog = hits
      /\ turns = [p \in Purses |-> <<>>] /\ turnLog = turns
      /\ hitPromise = [k \in Buckets |-> Never] /\ turnPromise = [p \in Purses |-> Never]
  BY DEF AdmissionInit
<1>2. \A limit \in Nat : \A gap : Ledger(<<>>, <<>>, limit, gap, 0) /\ Kept(<<>>, limit, gap, Never)
  BY DEF Ledger, Kept, Spaced
<1>3. \A k \in Buckets : RateLimit[k[2]] \in Nat
  BY RateLimitAssumption DEF Buckets
<1>4. \A p \in Purses : Limit(p) \in Nat
  BY <1>1, SettingsAssumption, TurnLimitAssumption DEF Limit
<1>5. Counted
  BY <1>1, <1>2, <1>3 DEF Counted, Never
<1>6. Promised
  BY <1>1, <1>2, <1>4 DEF Promised, Never
<1> QED  BY <1>5, <1>6 DEF AdmissionIInv

(* The parts of a state that are not touched. *)
LEMMA CountedStays ==
  ASSUME Counted, UNCHANGED <<now, conf, hits, hitLog, hitPromise>>
  PROVE  Counted'
BY DEF Counted, Ledger, Kept

LEMMA AllowedStays ==
  ASSUME Promised, UNCHANGED <<now, conf, turns, turnLog, turnPromise>>
  PROVE  Promised'
BY DEF Promised, Ledger, Kept, Limit

LEMMA TablePruned ==
  ASSUME AdmissionIInv, NEW k \in Buckets, NEW n \in 0 .. Len(Table[k]),
         \A i \in 1 .. n : Table[k][i] + Window <= now
  PROVE  /\ Ledger(From(Table[k], n), hitLog[k], RateLimit[k[2]], Window, now)
         /\ Len(From(Table[k], n)) = Len(Table[k]) - n
<1>1. Ledger(Table[k], hitLog[k], RateLimit[k[2]], Window, now)
  BY SweptTable
<1>2. RateLimit[k[2]] \in Nat /\ Window \in Nat /\ now \in Nat
  BY Limits
<1> DEFINE s == Table[k]
           limit == RateLimit[k[2]]
           log == hitLog[k]
<1>3. Ledger(s, log, limit, Window, now) /\ limit \in Nat /\ n \in 0 .. Len(s)
  BY <1>1, <1>2
<1>4. \A i \in 1 .. n : s[i] + Window <= now
  OBVIOUS
<1> HIDE DEF s, limit, log
<1>6. \A m \in 0 .. Len(s) : (\A i \in 1 .. m : s[i] + Window <= now) =>
         Ledger(From(s, m), log, limit, Window, now) /\ Len(From(s, m)) = Len(s) - m
  BY <1>2, <1>3, LedgerPruned
<1>5. Ledger(From(s, n), log, limit, Window, now) /\ Len(From(s, n)) = Len(s) - n
  BY <1>3, <1>4, <1>6
<1> QED  BY <1>5 DEF s, limit, log

(* One bucket of the table is pruned, and perhaps filled, the others stay. *)
LEMMA HitCounted ==
  ASSUME AdmissionIInv, NEW k \in Buckets, NEW n \in 0 .. Len(Table[k]),
         \A i \in 1 .. n : Table[k][i] + Window <= now, UNCHANGED <<now, conf>>,
         \/ /\ Len(Table[k]) - n < RateLimit[k[2]]
            /\ hits' = [Table EXCEPT ![k] = Append(From(@, n), now)]
            /\ hitLog' = [hitLog EXCEPT ![k] = Append(@, now)]
            /\ hitPromise' = [hitPromise EXCEPT ![k] = Never]
         \/ /\ Len(Table[k]) - n >= RateLimit[k[2]]
            /\ hits' = [Table EXCEPT ![k] = RefusedHit(From(@, n))]
            /\ hitPromise' = [hitPromise EXCEPT ![k] = Table[k][n + 1] + Window]
            /\ hitLog' = hitLog
  PROVE  Counted'
<1> DEFINE limit == RateLimit[k[2]]
           s == Table[k]
<1>0. /\ Table \in [Buckets -> Seq(Nat)]
      /\ \A q \in Buckets : /\ Ledger(Table[q], hitLog[q], RateLimit[q[2]], Window, now)
                            /\ Kept(Table[q], RateLimit[q[2]], Window, hitPromise[q])
  BY SweptTable
<1>1. /\ now \in Nat /\ conf \in Settings /\ hitLog \in [Buckets -> Seq(Nat)]
      /\ hitPromise \in [Buckets -> Int] /\ now' = now /\ conf' = conf
  BY DEF AdmissionIInv, Counted
<1>2. limit \in Nat /\ limit >= 1 /\ Window \in Nat
  BY Limits
<1>3. s \in Seq(Nat) /\ Len(s) \in Nat /\ Len(s) <= limit /\ n \in 0 .. Len(s)
  BY <1>0 DEF Ledger
<1>4. Ledger(s, hitLog[k], limit, Window, now) /\ \A i \in 1 .. n : s[i] + Window <= now
  BY <1>0
<1> HIDE DEF limit, s
<1>5. Ledger(From(s, n), hitLog[k], limit, Window, now) /\ Len(From(s, n)) = Len(s) - n
  BY TablePruned DEF limit, s
<1>6. From(s, n) \in Seq(Nat) /\ \A i \in 1 .. Len(s) - n : From(s, n)[i] = s[i + n]
  BY <1>3, FromProps
<1>7. CASE /\ Len(s) - n < limit
           /\ hits' = [Table EXCEPT ![k] = Append(From(@, n), now)]
           /\ hitLog' = [hitLog EXCEPT ![k] = Append(@, now)]
           /\ hitPromise' = [hitPromise EXCEPT ![k] = Never]
  <2>1. Ledger(Append(From(s, n), now), Append(hitLog[k], now), limit, Window, now)
    BY <1>1, <1>2, <1>5, <1>7, LedgerMore
  <2>2. Append(From(s, n), now) \in Seq(Nat) /\ Append(hitLog[k], now) \in Seq(Nat)
    BY <1>1, <1>6
  <2>3. /\ hits' = [Table EXCEPT ![k] = Append(From(s, n), now)]
        /\ hitLog' = [hitLog EXCEPT ![k] = Append(hitLog[k], now)]
    BY <1>7 DEF s
  <2>4. /\ hits' \in [Buckets -> Seq(Nat)] /\ hitLog' \in [Buckets -> Seq(Nat)]
        /\ hitPromise' \in [Buckets -> Int]
    <3>1. hits' \in [Buckets -> Seq(Nat)]
      BY <1>0, <2>2, <2>3
    <3>2. hitLog' \in [Buckets -> Seq(Nat)]
      BY <1>1, <2>2, <2>3
    <3>3. hitPromise' \in [Buckets -> Int]
      BY <1>1, <1>7 DEF Never
    <3> QED  BY <3>1, <3>2, <3>3
  <2>5. ASSUME NEW q \in Buckets
        PROVE  /\ Ledger(hits'[q], hitLog'[q], RateLimit[q[2]], Window, now)
               /\ Kept(hits'[q], RateLimit[q[2]], Window, hitPromise'[q])
    <3>1. CASE q = k
      <4>1. hits'[q] = Append(From(s, n), now) /\ hitLog'[q] = Append(hitLog[k], now) /\ hitPromise'[q] = Never
        BY <1>0, <1>1, <1>7, <2>3, <3>1
      <4> QED  BY <2>1, <3>1, <4>1 DEF Kept, limit
    <3>2. CASE q # k
      <4>1. hits'[q] = Table[q] /\ hitLog'[q] = hitLog[q] /\ hitPromise'[q] = hitPromise[q]
        BY <1>0, <1>1, <1>7, <2>3, <3>2
      <4> QED  BY <1>0, <4>1
    <3> QED  BY <3>1, <3>2
  <2> QED  BY <1>1, <2>4, <2>5 DEF Counted
<1>8. CASE /\ Len(s) - n >= limit
           /\ hits' = [Table EXCEPT ![k] = RefusedHit(From(@, n))]
           /\ hitPromise' = [hitPromise EXCEPT ![k] = s[n + 1] + Window]
           /\ hitLog' = hitLog
  <2>1. n = 0 /\ Len(s) = limit /\ n + 1 \in 1 .. Len(s) /\ s[n + 1] \in Nat /\ 1 \in 1 .. Len(s) - n
    BY <1>2, <1>3, <1>8
  <2>2. From(s, n)[1] = s[n + 1]
    BY <1>6, <2>1
  <2>3. Kept(From(s, n), limit, Window, s[n + 1] + Window)
    BY <1>2, <2>1, <2>2 DEF Kept
  <2>4. hits' = [Table EXCEPT ![k] = From(s, n)]
    BY <1>8 DEF s, RefusedHit
  <2>5. hits' \in [Buckets -> Seq(Nat)] /\ hitPromise' \in [Buckets -> Int]
    BY <1>0, <1>1, <1>2, <1>6, <1>8, <2>1, <2>4
  <2>6. ASSUME NEW q \in Buckets
        PROVE  /\ Ledger(hits'[q], hitLog'[q], RateLimit[q[2]], Window, now)
               /\ Kept(hits'[q], RateLimit[q[2]], Window, hitPromise'[q])
    <3>1. CASE q = k
      <4>1. hits'[q] = From(s, n) /\ hitLog'[q] = hitLog[k] /\ hitPromise'[q] = s[n + 1] + Window
        BY <1>0, <1>1, <1>8, <2>4, <3>1
      <4> QED  BY <1>5, <2>3, <3>1, <4>1 DEF limit
    <3>2. CASE q # k
      <4>1. hits'[q] = Table[q] /\ hitLog'[q] = hitLog[q] /\ hitPromise'[q] = hitPromise[q]
        BY <1>0, <1>1, <1>8, <2>4, <3>2
      <4> QED  BY <1>0, <4>1
    <3> QED  BY <3>1, <3>2
  <2> QED  BY <1>1, <1>8, <2>5, <2>6 DEF Counted
<1> QED  BY <1>7, <1>8 DEF limit, s

(* Turns that are a day old are forgotten. *)
LEMMA PursePruned ==
  ASSUME AdmissionIInv, NEW p \in Purses, NEW n \in 0 .. Len(turns[p]),
         \A i \in 1 .. n : turns[p][i] + Day <= now
  PROVE  /\ From(turns[p], n) \in Seq(Nat) /\ Len(From(turns[p], n)) = Len(turns[p]) - n
         /\ \A i \in 1 .. Len(turns[p]) - n : From(turns[p], n)[i] = turns[p][i + n]
         /\ Ledger(From(turns[p], n), turnLog[p], Limit(p), Day, now)
         /\ Kept(From(turns[p], n), Limit(p), Day, turnPromise[p])
<1> DEFINE s == turns[p]
           limit == Limit(p)
           log == turnLog[p]
           promise == turnPromise[p]
<1>1. /\ Ledger(s, log, limit, Day, now) /\ Kept(s, limit, Day, promise) /\ n \in 0 .. Len(s)
      /\ s \in Seq(Nat) /\ promise \in Int
  BY DEF AdmissionIInv, Promised
<1>2. limit \in Nat /\ Day \in Nat /\ now \in Nat
  BY Limits
<1>3. \A i \in 1 .. n : s[i] + Day <= now
  OBVIOUS
<1> HIDE DEF s, limit, log, promise
<1>4. \A m \in 0 .. Len(s) : (\A i \in 1 .. m : s[i] + Day <= now) =>
         Ledger(From(s, m), log, limit, Day, now) /\ Len(From(s, m)) = Len(s) - m
  <2>1. Ledger(s, log, limit, Day, now)
    BY <1>1
  <2> QED  BY <1>2, <2>1, LedgerPruned
<1>5. Len(s) <= limit
  BY <1>1 DEF Ledger
<1>6. \A m \in 0 .. Len(s) : Kept(From(s, m), limit, Day, promise)
  BY <1>1, <1>2, <1>5, KeptPruned
<1>7. From(s, n) \in Seq(Nat) /\ \A i \in 1 .. Len(s) - n : From(s, n)[i] = s[i + n]
  BY <1>1, FromProps
<1>8. Ledger(From(s, n), log, limit, Day, now) /\ Len(From(s, n)) = Len(s) - n
  BY <1>1, <1>3, <1>4
<1> QED  BY <1>1, <1>6, <1>7, <1>8 DEF s, limit, log, promise

(* The purse of a route a guest may call can hold a turn. *)
LEMMA GuestPurse ==
  ASSUME AdmissionIInv, NEW c \in Clients, NEW r \in conf.calls, GuestMay(r), r.spends # "nothing"
  PROVE  <<c, r.spends>> \in Purses /\ Limit(<<c, r.spends>>) >= 1
<1>1. conf.calls \subseteq Routes /\ conf.research \in Nat
  BY SettingsAssumption DEF AdmissionIInv, Counted
<1>2. r.spends \in {"turn", "research"}
  BY <1>1 DEF Routes, RouteOf
<1>3. ~(r.spends = "research" /\ conf.research = 0)
  BY DEF GuestMay
<1>4. <<c, r.spends>>[2] = r.spends
  OBVIOUS
<1>5. CASE r.spends = "research"
  BY <1>1, <1>2, <1>3, <1>4, <1>5 DEF Limit, Purses, Allowances
<1>6. CASE r.spends = "turn"
  BY <1>2, <1>4, <1>6, TurnLimitAssumption DEF Limit, Purses, Allowances
<1> QED  BY <1>2, <1>5, <1>6

LEMMA TurnSpent ==
  ASSUME AdmissionIInv, NEW c \in Clients, NEW r \in conf.calls, SpendTurn(c, r)
  PROVE  Promised'
<1> DEFINE p == <<c, r.spends>>
<1>1. p \in Purses
  BY GuestPurse DEF SpendTurn
<1>2. PICK n \in 0 .. Len(turns[p]) :
        /\ Prunes(turns[p], n, Day) /\ Len(turns[p]) - n < Limit(p)
        /\ turns' = [turns EXCEPT ![p] = Append(From(@, n), now)]
        /\ turnLog' = [turnLog EXCEPT ![p] = Append(@, now)]
        /\ turnPromise' = [turnPromise EXCEPT ![p] = Never]
  BY DEF SpendTurn
<1>3. now' = now /\ conf' = conf
  BY DEF SpendTurn
<1> HIDE DEF p
<1>4. \A i \in 1 .. n : turns[p][i] + Day <= now
  BY <1>2 DEF Prunes
<1> DEFINE s == From(turns[p], n)
<1>5. /\ s \in Seq(Nat) /\ Len(s) = Len(turns[p]) - n
      /\ Ledger(s, turnLog[p], Limit(p), Day, now)
  BY <1>1, <1>4, PursePruned
<1>6. Limit(p) \in Nat /\ Day \in Nat /\ now \in Nat
  BY <1>1, Limits
<1>7. Len(s) < Limit(p)
  BY <1>2, <1>5
<1>8. turns' = [turns EXCEPT ![p] = Append(s, now)]
  BY <1>2
<1> HIDE DEF s
<1>9. Ledger(Append(s, now), Append(turnLog[p], now), Limit(p), Day, now)
  BY <1>5, <1>6, <1>7, LedgerMore
<1>10. /\ turns \in [Purses -> Seq(Nat)] /\ turnLog \in [Purses -> Seq(Nat)]
       /\ turnPromise \in [Purses -> Int]
       /\ \A q \in Purses : /\ Ledger(turns[q], turnLog[q], Limit(q), Day, now)
                            /\ Kept(turns[q], Limit(q), Day, turnPromise[q])
  BY DEF AdmissionIInv, Promised
<1>11. Append(s, now) \in Seq(Nat) /\ Append(turnLog[p], now) \in Seq(Nat)
  BY <1>1, <1>5, <1>6, <1>10
<1>12. turns' \in [Purses -> Seq(Nat)] /\ turnLog' \in [Purses -> Seq(Nat)]
  <2>1. turns' \in [Purses -> Seq(Nat)]
    BY <1>8, <1>10, <1>11
  <2>2. turnLog' \in [Purses -> Seq(Nat)]
    BY <1>2, <1>10, <1>11
  <2> QED  BY <2>1, <2>2
<1>13. turnPromise' \in [Purses -> Int]
  <2>1. turnPromise' = [turnPromise EXCEPT ![p] = Never] /\ Never \in Int
    BY <1>2 DEF Never
  <2>2. turnPromise \in [Purses -> Int]
    BY <1>10
  <2> HIDE DEF p
  <2> QED  BY <2>1, <2>2
<1>14. ASSUME NEW q \in Purses
       PROVE  /\ Ledger(turns'[q], turnLog'[q], Limit(q), Day, now)
              /\ Kept(turns'[q], Limit(q), Day, turnPromise'[q])
  <2>1. CASE q = p
    <3>1. turns'[q] = Append(s, now) /\ turnLog'[q] = Append(turnLog[p], now) /\ turnPromise'[q] = Never
      BY <1>1, <1>2, <1>8, <1>10, <2>1
    <3> QED  BY <1>9, <2>1, <3>1 DEF Kept
  <2>2. CASE q # p
    <3>1. turns'[q] = turns[q] /\ turnLog'[q] = turnLog[q] /\ turnPromise'[q] = turnPromise[q]
      BY <1>2, <1>8, <1>10, <2>2
    <3> QED  BY <1>10, <3>1
  <2> QED  BY <2>1, <2>2
<1>15. \A q : Limit(q)' = Limit(q)
  BY <1>3 DEF Limit
<1> QED  BY <1>3, <1>12, <1>13, <1>14, <1>15 DEF Promised

LEMMA TurnRefused ==
  ASSUME AdmissionIInv, NEW c \in Clients, NEW r \in conf.calls, RefuseTurn(c, r)
  PROVE  Promised'
<1> DEFINE p == <<c, r.spends>>
<1>1. p \in Purses /\ Limit(p) >= 1
  BY GuestPurse DEF RefuseTurn
<1>2. PICK n \in 0 .. Len(turns[p]) :
        /\ Prunes(turns[p], n, Day) /\ Len(turns[p]) - n >= Limit(p)
        /\ turns' = [turns EXCEPT ![p] = From(@, n)]
        /\ turnPromise' = [turnPromise EXCEPT ![p] = turns[p][n + 1] + Day]
  BY DEF RefuseTurn
<1>3. now' = now /\ conf' = conf /\ turnLog' = turnLog
  BY DEF RefuseTurn
<1> HIDE DEF p
<1>4. \A i \in 1 .. n : turns[p][i] + Day <= now
  BY <1>2 DEF Prunes
<1> DEFINE s == From(turns[p], n)
<1>5. /\ s \in Seq(Nat) /\ Len(s) = Len(turns[p]) - n
      /\ \A i \in 1 .. Len(turns[p]) - n : s[i] = turns[p][i + n]
      /\ Ledger(s, turnLog[p], Limit(p), Day, now)
  BY <1>1, <1>4, PursePruned
<1>6. Limit(p) \in Nat /\ Day \in Nat /\ now \in Nat
  BY <1>1, Limits
<1>10. /\ turns \in [Purses -> Seq(Nat)] /\ turnLog \in [Purses -> Seq(Nat)]
       /\ turnPromise \in [Purses -> Int]
       /\ \A q \in Purses : /\ Ledger(turns[q], turnLog[q], Limit(q), Day, now)
                            /\ Kept(turns[q], Limit(q), Day, turnPromise[q])
  BY DEF AdmissionIInv, Promised
<1>8. turns' = [turns EXCEPT ![p] = s]
  BY <1>2
<1> HIDE DEF s
<1>7. turns[p] \in Seq(Nat) /\ Len(turns[p]) \in Nat /\ turns[p][n + 1] \in Nat /\ s[1] = turns[p][n + 1]
  <2>1. turns[p] \in Seq(Nat) /\ Len(turns[p]) \in Nat
    BY <1>1, <1>10
  <2>2. 1 \in 1 .. Len(turns[p]) - n /\ n + 1 \in 1 .. Len(turns[p]) /\ 1 + n = n + 1
    BY <1>1, <1>2, <1>6, <2>1
  <2>3. s[1] = turns[p][1 + n]
    BY <1>5, <2>2
  <2> QED  BY <2>1, <2>2, <2>3
<1>9. Kept(s, Limit(p), Day, turns[p][n + 1] + Day)
  BY <1>1, <1>6, <1>7 DEF Kept
<1>12. turns' \in [Purses -> Seq(Nat)] /\ turnPromise' \in [Purses -> Int]
  <2>1. turns' \in [Purses -> Seq(Nat)]
    BY <1>5, <1>8, <1>10
  <2>2. turns[p][n + 1] + Day \in Int
    BY <1>6, <1>7
  <2>3. turnPromise' \in [Purses -> Int]
    BY <1>2, <1>10, <2>2
  <2> QED  BY <2>1, <2>3
<1>14. ASSUME NEW q \in Purses
       PROVE  /\ Ledger(turns'[q], turnLog'[q], Limit(q), Day, now)
              /\ Kept(turns'[q], Limit(q), Day, turnPromise'[q])
  <2>1. CASE q = p
    <3>1. turns'[q] = s /\ turnPromise'[q] = turns[p][n + 1] + Day
      BY <1>1, <1>2, <1>8, <1>10, <2>1
    <3> QED  BY <1>3, <1>5, <1>9, <2>1, <3>1
  <2>2. CASE q # p
    <3>1. turns'[q] = turns[q] /\ turnPromise'[q] = turnPromise[q]
      BY <1>2, <1>8, <1>10, <2>2
    <3> QED  BY <1>3, <1>10, <3>1
  <2> QED  BY <2>1, <2>2
<1>15. \A q : Limit(q)' = Limit(q)
  BY <1>3 DEF Limit
<1> QED  BY <1>3, <1>10, <1>12, <1>14, <1>15 DEF Promised

(* Whoever is told what remains. *)
LEMMA MeLooks ==
  ASSUME AdmissionIInv, NEW c \in Clients, LookAtTurns(c),
         UNCHANGED <<now, conf, turnLog, turnPromise>>
  PROVE  Promised'
<1>0. now' = now /\ conf' = conf /\ turnLog' = turnLog /\ turnPromise' = turnPromise
  OBVIOUS
<1>1. CASE turns' = turns
  BY <1>0, <1>1, AllowedStays DEF AdmissionIInv
<1>2. CASE turns' # turns
  <2>1. PICK drop \in [Allowances -> 0 .. Limit(<<c, "turn">>) + Limit(<<c, "research">>)] :
          /\ \A a \in Allowances :
               drop[a] <= Len(turns[<<c, a>>]) /\ Prunes(turns[<<c, a>>], drop[a], Day)
          /\ turns' = [p \in Purses |-> IF p[1] = c THEN From(turns[p], drop[p[2]]) ELSE turns[p]]
    BY <1>2 DEF LookAtTurns
  <2>2. /\ turns \in [Purses -> Seq(Nat)] /\ turnLog \in [Purses -> Seq(Nat)]
        /\ turnPromise \in [Purses -> Int]
        /\ \A q \in Purses : /\ Ledger(turns[q], turnLog[q], Limit(q), Day, now)
                             /\ Kept(turns[q], Limit(q), Day, turnPromise[q])
    BY DEF AdmissionIInv, Promised
  <2>3. ASSUME NEW q \in Purses
        PROVE  /\ turns'[q] \in Seq(Nat)
               /\ Ledger(turns'[q], turnLog'[q], Limit(q), Day, now)
               /\ Kept(turns'[q], Limit(q), Day, turnPromise'[q])
    <3>1. CASE q[1] = c
      <4>1. q = <<c, q[2]>> /\ q[2] \in Allowances
        BY <3>1 DEF Purses
      <4> DEFINE n == drop[q[2]]
      <4>2. n \in 0 .. Len(turns[q]) /\ Prunes(turns[q], n, Day)
        <5>1. n \in Nat
          <6>1. <<c, "turn">> \in Purses /\ <<c, "research">> \in Purses
            BY DEF Purses, Allowances
          <6>2. Limit(<<c, "turn">>) + Limit(<<c, "research">>) \in Nat
            BY <6>1, Limits
          <6> QED  BY <4>1, <6>2
        <5>2. n <= Len(turns[q]) /\ Prunes(turns[q], n, Day)
          BY <2>1, <4>1
        <5>3. Len(turns[q]) \in Nat
          BY <2>2
        <5> QED  BY <5>1, <5>2, <5>3
      <4>3. \A i \in 1 .. n : turns[q][i] + Day <= now
        BY <4>2 DEF Prunes
      <4>4. turns'[q] = From(turns[q], n)
        BY <2>1, <3>1
      <4> HIDE DEF n
      <4> QED  BY <1>0, <4>2, <4>3, <4>4, PursePruned
    <3>2. CASE q[1] # c
      <4>1. turns'[q] = turns[q]
        BY <2>1, <3>2
      <4> QED  BY <1>0, <2>2, <4>1
    <3> QED  BY <3>1, <3>2
  <2>4. turns' \in [Purses -> Seq(Nat)]
    <3>1. turns' = [q \in Purses |-> turns'[q]]
      BY <2>1
    <3> QED  BY <2>3, <3>1
  <2>5. \A q : Limit(q)' = Limit(q)
    BY <1>0 DEF Limit
  <2> QED  BY <1>0, <2>2, <2>3, <2>4, <2>5 DEF Promised
<1> QED  BY <1>1, <1>2

LEMMA HitStep ==
  ASSUME AdmissionIInv, NEW c \in Clients,
         HitRefused(c) \/ (HitAccepted(c) /\ UNCHANGED <<now, conf>>)
  PROVE  Counted'
<1> DEFINE k == <<c, inflight[c].tier>>
<1>1. k \in Buckets /\ k[2] = inflight[c].tier
  BY DEF HitRefused, HitAccepted, Buckets
<1>2. UNCHANGED <<now, conf>>
  BY DEF HitRefused
<1>3. CASE HitRefused(c)
  <2>1. PICK n \in 0 .. Len(Table[k]) :
          /\ Prunes(Table[k], n, Window) /\ Len(Table[k]) - n >= RateLimit[k[2]]
          /\ hits' = [Table EXCEPT ![k] = RefusedHit(From(@, n))]
          /\ hitPromise' = [hitPromise EXCEPT ![k] = Table[k][n + 1] + Window]
    BY <1>1, <1>3 DEF HitRefused
  <2>2. hitLog' = hitLog
    BY <1>3 DEF HitRefused
  <2> HIDE DEF k
  <2>3. \A i \in 1 .. n : Table[k][i] + Window <= now
    BY <2>1 DEF Prunes
  <2> QED  BY <1>1, <1>2, <2>1, <2>2, <2>3, HitCounted
<1>4. CASE HitAccepted(c)
  <2>1. PICK n \in 0 .. Len(Table[k]) :
          /\ Prunes(Table[k], n, Window) /\ Len(Table[k]) - n < RateLimit[k[2]]
          /\ hits' = [Table EXCEPT ![k] = Append(From(@, n), now)]
          /\ hitLog' = [hitLog EXCEPT ![k] = Append(@, now)]
          /\ hitPromise' = [hitPromise EXCEPT ![k] = Never]
    BY <1>4 DEF HitAccepted
  <2> HIDE DEF k
  <2>3. \A i \in 1 .. n : Table[k][i] + Window <= now
    BY <2>1 DEF Prunes
  <2> QED  BY <1>1, <1>2, <2>1, <2>3, HitCounted
<1> QED  BY <1>3, <1>4

LEMMA PassKeeps ==
  ASSUME AdmissionIInv, Pass
  PROVE  AdmissionIInv'
<1>1. now' = now + 1 /\ UNCHANGED <<conf, hits, turns, hitLog, turnLog, hitPromise, turnPromise>>
  BY DEF Pass
<1>2. now \in Nat /\ now' \in Nat /\ now <= now'
  BY <1>1 DEF AdmissionIInv, Counted
<1>3. \A k \in Buckets : Ledger(hits[k], hitLog[k], RateLimit[k[2]], Window, now')
  BY <1>2, Limits, LedgerLater DEF AdmissionIInv, Counted
<1>4. \A p \in Purses : Ledger(turns[p], turnLog[p], Limit(p), Day, now')
  BY <1>2, Limits, LedgerLater DEF AdmissionIInv, Promised
<1>5. Counted'
  BY <1>1, <1>2, <1>3 DEF AdmissionIInv, Counted
<1>6. \A p : Limit(p)' = Limit(p)
  BY <1>1 DEF Limit
<1>7. Promised'
  BY <1>1, <1>4, <1>6 DEF AdmissionIInv, Promised
<1> QED  BY <1>5, <1>7 DEF AdmissionIInv

LEMMA RestartKeeps ==
  ASSUME AdmissionIInv, Restart
  PROVE  AdmissionIInv'
<1>1. /\ hits' = [k \in Buckets |-> <<>>] /\ hitLog' = [k \in Buckets |-> <<>>]
      /\ turns' = [p \in Purses |-> <<>>] /\ turnLog' = [p \in Purses |-> <<>>]
      /\ UNCHANGED <<now, conf, hitPromise, turnPromise>>
  BY DEF Restart
<1>2. \A limit \in Nat : \A gap, t : Ledger(<<>>, <<>>, limit, gap, t)
  BY DEF Ledger, Spaced
<1>3. \A limit \in Nat : \A gap, promise : \A s : Kept(s, limit, gap, promise) => Kept(<<>>, limit, gap, promise)
  BY DEF Kept
<1>4. Counted'
  BY <1>1, <1>2, <1>3, Limits DEF AdmissionIInv, Counted
<1>5. \A p : Limit(p)' = Limit(p)
  BY <1>1 DEF Limit
<1>6. Promised'
  BY <1>1, <1>2, <1>3, <1>5, Limits DEF AdmissionIInv, Promised
<1> QED  BY <1>4, <1>6 DEF AdmissionIInv

LEMMA AdmissionIStep == AdmissionIInv /\ [AdmissionNext]_admission => AdmissionIInv'
<1> SUFFICES ASSUME AdmissionIInv, [AdmissionNext]_admission PROVE AdmissionIInv'
  OBVIOUS
<1>0. Counted /\ Promised
  BY DEF AdmissionIInv
<1>1. ASSUME NEW c \in Clients, NEW r \in conf.calls, Refuse(c, r) PROVE AdmissionIInv'
  <2>1. UNCHANGED <<now, conf, hits, hitLog, hitPromise>> /\ UNCHANGED <<now, conf, turns, turnLog, turnPromise>>
    BY <1>1 DEF Refuse, admission
  <2> QED  BY <1>0, <2>1, CountedStays, AllowedStays DEF AdmissionIInv
<1>2. ASSUME NEW c \in Clients, NEW r \in conf.calls, Enter(c, r) PROVE AdmissionIInv'
  <2>1. UNCHANGED <<now, conf, hits, hitLog, hitPromise>> /\ UNCHANGED <<now, conf, turns, turnLog, turnPromise>>
    BY <1>2 DEF Enter
  <2> QED  BY <1>0, <2>1, CountedStays, AllowedStays DEF AdmissionIInv
<1>3. ASSUME NEW c \in Clients, NEW r \in conf.calls, SpendTurn(c, r) PROVE AdmissionIInv'
  <2>1. UNCHANGED <<now, conf, hits, hitLog, hitPromise>>
    BY <1>3 DEF SpendTurn
  <2> QED  BY <1>0, <1>3, <2>1, CountedStays, TurnSpent DEF AdmissionIInv
<1>4. ASSUME NEW c \in Clients, NEW r \in conf.calls, RefuseTurn(c, r) PROVE AdmissionIInv'
  <2>1. UNCHANGED <<now, conf, hits, hitLog, hitPromise>>
    BY <1>4 DEF RefuseTurn
  <2> QED  BY <1>0, <1>4, <2>1, CountedStays, TurnRefused DEF AdmissionIInv
<1>5. ASSUME NEW c \in Clients, HitRefused(c) PROVE AdmissionIInv'
  <2>1. UNCHANGED <<now, conf, turns, turnLog, turnPromise>>
    BY <1>5 DEF HitRefused
  <2> QED  BY <1>0, <1>5, <2>1, HitStep, AllowedStays DEF AdmissionIInv
<1>6. ASSUME NEW c \in Clients, Run(c) PROVE AdmissionIInv'
  <2>1. UNCHANGED <<now, conf, turns, turnLog, turnPromise>> /\ HitAccepted(c)
    BY <1>6 DEF Run
  <2> QED  BY <1>0, <2>1, HitStep, AllowedStays DEF AdmissionIInv
<1>7. ASSUME NEW c \in Clients, Logout(c) PROVE AdmissionIInv'
  <2>1. UNCHANGED <<now, conf, hits, hitLog, hitPromise>>
    BY <1>7 DEF Logout, Unlimited
  <2>2. LookAtTurns(c) /\ UNCHANGED <<now, conf, turnLog, turnPromise>>
    BY <1>7 DEF Logout
  <2> QED  BY <1>0, <2>1, <2>2, CountedStays, MeLooks DEF AdmissionIInv
<1>8. ASSUME NEW c \in Clients, Me(c) PROVE AdmissionIInv'
  <2>1. UNCHANGED <<now, conf, hits, hitLog, hitPromise>>
    BY <1>8 DEF Me, Unlimited
  <2>2. LookAtTurns(c) /\ UNCHANGED <<now, conf, turnLog, turnPromise>>
    BY <1>8 DEF Me
  <2> QED  BY <1>0, <2>1, <2>2, CountedStays, MeLooks DEF AdmissionIInv
<1>9. ASSUME NEW c \in Clients, NEW right \in BOOLEAN, Login(c, right) PROVE AdmissionIInv'
  <2>1. UNCHANGED <<now, conf, turnLog, turnPromise>> /\ HitAccepted(c)
    BY <1>9 DEF Login
  <2>2. LookAtTurns(c) \/ UNCHANGED turns
    BY <1>9 DEF Login
  <2>3. CASE LookAtTurns(c)
    BY <1>0, <2>1, <2>3, HitStep, MeLooks DEF AdmissionIInv
  <2>4. CASE UNCHANGED turns
    BY <1>0, <2>1, <2>4, HitStep, AllowedStays DEF AdmissionIInv
  <2> QED  BY <2>2, <2>3, <2>4
<1>10. CASE UNCHANGED admission
  <2>1. UNCHANGED <<now, conf, hits, hitLog, hitPromise>> /\ UNCHANGED <<now, conf, turns, turnLog, turnPromise>>
    BY <1>10 DEF admission
  <2> QED  BY <1>0, <2>1, CountedStays, AllowedStays DEF AdmissionIInv
<1> QED  BY <1>1, <1>2, <1>3, <1>4, <1>5, <1>6, <1>7, <1>8, <1>9, <1>10,
            PassKeeps, RestartKeeps DEF AdmissionNext

LEMMA AdmissionCounts == AdmissionSpec => []AdmissionIInv
BY AdmissionIInit, AdmissionIStep, PTL DEF AdmissionSpec

-----------------------------------------------------------------------------
(* No client is let through more often than its limits, in any minute or   *)
(* any 24 hours: SlidingWindowLimiter.hit and GuestQuota.spend count the   *)
(* end of what was let through, and forget only what is old                *)
(* (core/rate_limit.py:44-58, core/auth.py:146-167).                       *)
THEOREM LimitsHold == AdmissionSpec => []WindowsHold
<1>1. AdmissionIInv => WindowsHold
  <2> SUFFICES ASSUME AdmissionIInv PROVE WindowsHold
    OBVIOUS
  <2>1. \A k \in Buckets : Spaced(hitLog[k], RateLimit[k[2]], Window)
    BY DEF AdmissionIInv, Counted, Ledger
  <2>2. \A p \in Purses : Spaced(turnLog[p], Limit(p), Day)
    BY DEF AdmissionIInv, Promised, Ledger
  <2> QED  BY <2>1, <2>2 DEF WindowsHold
<1> QED  BY <1>1, AdmissionCounts, PTL

(* The Retry-After of a refused client is honest: once that time has       *)
(* passed, the oldest of the times counted for it is old enough            *)
(* (core/rate_limit.py:44-58, core/auth.py:146-167).                       *)
THEOREM PromisesKept == AdmissionSpec => []RetryHonest
<1>1. ASSUME NEW s \in Seq(Nat), NEW limit \in Nat, NEW gap \in Nat, NEW promise \in Int, NEW t \in Nat,
             Kept(s, limit, gap, promise), Len(s) <= limit, promise # Never, t >= promise
      PROVE  Len(s) < limit \/ s[Len(s) - limit + 1] + gap <= t
  <2>1. CASE Len(s) = limit
    <3>1. limit >= 1 /\ promise >= s[1] + gap /\ s[1] \in Nat
      BY <1>1, <2>1 DEF Kept
    <3>2. Len(s) - limit + 1 = 1
      BY <2>1
    <3> QED  BY <1>1, <3>1, <3>2
  <2> QED  BY <1>1, <2>1
<1>2. AdmissionIInv => RetryHonest
  <2> SUFFICES ASSUME AdmissionIInv PROVE RetryHonest
    OBVIOUS
  <2>1. \A k \in Buckets : hitPromise[k] # Never /\ now >= hitPromise[k] =>
          Len(hits[k]) < RateLimit[k[2]] \/ hits[k][Len(hits[k]) - RateLimit[k[2]] + 1] + Window <= now
    <3>1. \A k \in Buckets : /\ Kept(hits[k], RateLimit[k[2]], Window, hitPromise[k])
                            /\ Len(hits[k]) <= RateLimit[k[2]]
                            /\ hits[k] \in Seq(Nat) /\ hitPromise[k] \in Int
      BY DEF AdmissionIInv, Counted, Ledger
    <3> QED  BY <1>1, <3>1, Limits
  <2>2. \A p \in Purses : turnPromise[p] # Never /\ now >= turnPromise[p] =>
          Len(turns[p]) < Limit(p) \/ turns[p][Len(turns[p]) - Limit(p) + 1] + Day <= now
    <3>1. \A p \in Purses : /\ Kept(turns[p], Limit(p), Day, turnPromise[p])
                           /\ Len(turns[p]) <= Limit(p)
                           /\ turns[p] \in Seq(Nat) /\ turnPromise[p] \in Int
      BY DEF AdmissionIInv, Promised, Ledger
    <3> QED  BY <1>1, <3>1, Limits
  <2> QED  BY <2>1, <2>2 DEF RetryHonest, Room
<1> QED  BY <1>2, AdmissionCounts, PTL
=============================================================================
