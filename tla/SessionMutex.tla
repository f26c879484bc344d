---------------------------- MODULE SessionMutex ----------------------------
(***************************************************************************)
(* What session leases promise (shared/session_locks.py), without the      *)
(* bookkeeping that delivers it: a session is owned by a set of shares.    *)
(* The first share is taken when nobody owns the session, further shares   *)
(* join it, the session is free again once the last of them has left, and  *)
(* only an ownership older than MaxAge may be taken away.                  *)
(***************************************************************************)
EXTENDS Integers

CONSTANTS
  Keys,       \* the sessions
  Leases,     \* the shares that can be handed out
  MaxAge      \* MAX_LEASE_SECONDS

VARIABLES
  clock,      \* time.monotonic()
  owners,     \* owners[k]: the shares session k is owned by
  since       \* since[k]: when the present ownership of k began, 0 if none

vars == <<clock, owners, since>>

Init ==
  /\ clock = 0
  /\ owners = [k \in Keys |-> {}]
  /\ since = [k \in Keys |-> 0]

Unused(l) == \A k \in Keys : l \notin owners[k]

(* A stream takes a free session, or one whose ownership is too old. *)
Take(k, l) ==
  /\ Unused(l)
  /\ owners[k] = {} \/ clock - since[k] >= MaxAge
  /\ owners' = [owners EXCEPT ![k] = {l}]
  /\ since' = [since EXCEPT ![k] = clock]
  /\ UNCHANGED clock

(* A worker thread joins the stream that owns the session. *)
Join(k, l) ==
  /\ Unused(l)
  /\ owners[k] # {}
  /\ owners' = [owners EXCEPT ![k] = @ \cup {l}]
  /\ UNCHANGED <<clock, since>>

(* A share is given back; the last one frees the session. *)
Leave(k, l) ==
  /\ l \in owners[k]
  /\ owners' = [owners EXCEPT ![k] = @ \ {l}]
  /\ since' = [since EXCEPT ![k] = IF owners[k] = {l} THEN 0 ELSE @]
  /\ UNCHANGED clock

Tick == clock' = clock + 1 /\ UNCHANGED <<owners, since>>

Next ==
  \/ \E k \in Keys, l \in Leases : Take(k, l) \/ Join(k, l) \/ Leave(k, l)
  \/ Tick

Spec == Init /\ [][Next]_vars
=============================================================================
