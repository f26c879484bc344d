----------------------------- MODULE GuestStore ------------------------------
(***************************************************************************)
(* EphemeralSessionStore of shared/guest_store.py: the conversations of    *)
(* guests, in this process only, dropped by age and by number. A turn      *)
(* reads the history when it starts and, if the model answered, writes it  *)
(* back longer; each call of the store holds its lock, turns of different  *)
(* sessions overlap, and one session has one turn at a time. A history is  *)
(* abstracted to the number of its turns.                                  *)
(***************************************************************************)
EXTENDS Integers, Sequences, SequencesExt

CONSTANTS
  Guests,        \* session keys
  Ttl,           \* TTL_SECONDS
  MaxSessions,   \* MAX_SESSIONS
  MaxTurns,      \* bound on the turns of a history
  GuestHorizon   \* bound on the clock

ASSUME GuestStoreAssumption ==
  Ttl \in Nat \ {0} /\ MaxSessions \in Nat \ {0} /\ GuestHorizon \in Nat

VARIABLES
  data,     \* _data: the entries, oldest use first
  age,      \* clock - used, in the order of data
  turn      \* the history each session's running turn has read, or NoTurn

guestStore == <<data, age, turn>>
NoTurn == -1

GuestStoreInit ==
  /\ data = <<>>
  /\ age = <<>>
  /\ turn = [g \in Guests |-> NoTurn]

-----------------------------------------------------------------------------
Held == {data[i].key : i \in DOMAIN data}
At(g) == CHOOSE i \in DOMAIN data : data[i].key = g
Stored(d, g) == IF \E i \in DOMAIN d : d[i].key = g
                THEN d[CHOOSE i \in DOMAIN d : d[i].key = g].turns ELSE 0

(* Mutant: an entry exactly Ttl old stays. *)
ExpiresLate(d, a, n) ==
  /\ \A i \in 1 .. n : a[i] > Ttl \/ Len(d) - i + 1 > MaxSessions
  /\ n < Len(d) => a[n + 1] <= Ttl /\ Len(d) - n <= MaxSessions
(* _expire drops n entries: each of them too old, or one too many when its *)
(* turn came.                                                              *)
Expires(d, a, n) ==
  /\ \A i \in 1 .. n : a[i] >= Ttl \/ Len(d) - i + 1 > MaxSessions
  /\ n < Len(d) => a[n + 1] < Ttl /\ Len(d) - n <= MaxSessions

Drop(s, n) == SubSeq(s, n + 1, Len(s))

(* load: the table is pruned, the use not renewed. *)
Loaded(g) == LET n == CHOOSE m \in 0 .. Len(data) : Expires(data, age, m)
             IN Stored(Drop(data, n), g)

BeginTurn(g) ==
  /\ turn[g] = NoTurn
  /\ \E n \in 0 .. Len(data) :
       /\ Expires(data, age, n)
       /\ data' = Drop(data, n)
       /\ age' = Drop(age, n)
  /\ turn' = [turn EXCEPT ![g] = Loaded(g)]

(* save: the entry moves to the end, then the table is pruned. *)
Saved(g, turns) ==
  LET d == Append(IF g \in Held THEN RemoveAt(data, At(g)) ELSE data,
                  [key |-> g, turns |-> turns])
      a == Append(IF g \in Held THEN RemoveAt(age, At(g)) ELSE age, 0)
  IN \E n \in 0 .. Len(d) : /\ Expires(d, a, n)
                            /\ data' = Drop(d, n)
                            /\ age' = Drop(a, n)

(* add_turns reads once more; a redo writes on what its turn had read. *)
EndTurn(g, redo) ==
  /\ turn[g] # NoTurn
  /\ LET turns == (IF redo THEN turn[g] ELSE Loaded(g)) + 1 IN
     turns <= MaxTurns /\ Saved(g, turns)
  /\ turn' = [turn EXCEPT ![g] = NoTurn]

(* The model failed, or the guest left: nothing is saved. *)
FailTurn(g) ==
  /\ turn[g] # NoTurn
  /\ turn' = [turn EXCEPT ![g] = NoTurn]
  /\ UNCHANGED <<data, age>>

(* delete, when the guest deletes the document it is about: that route     *)
(* takes no session lease, so a turn may be running.                       *)
Clear(g) ==
  /\ g \in Held
  /\ data' = RemoveAt(data, At(g))
  /\ age' = RemoveAt(age, At(g))
  /\ UNCHANGED turn

GuestTick ==
  /\ age' = [i \in DOMAIN age |-> IF age[i] < GuestHorizon THEN age[i] + 1 ELSE age[i]]
  /\ UNCHANGED <<data, turn>>

GuestStoreNext ==
  \/ \E g \in Guests : BeginTurn(g) \/ FailTurn(g) \/ Clear(g)
  \/ \E g \in Guests, redo \in BOOLEAN : EndTurn(g, redo)
  \/ GuestTick

GuestStoreSpec == GuestStoreInit /\ [][GuestStoreNext]_guestStore

-----------------------------------------------------------------------------
Survivors == {data'[i].key : i \in DOMAIN data'}

(* A guest's conversation goes only when it is cleared, has not been saved *)
(* for Ttl, or MaxSessions others were saved after it, and is never handed *)
(* to a turn once it is that old. _expire stops at the first entry that    *)
(* may stay, so this rests on the entries being in the order of their use. *)
GuestMemory ==
  [][/\ \A g \in Held \ Survivors :
          \/ Clear(g) \/ age[At(g)] >= Ttl
          \/ Len(data') = MaxSessions /\ \A i \in DOMAIN age' : age'[i] <= age[At(g)]
     /\ Len(data') <= MaxSessions
     /\ \A g \in Guests :
          turn[g] = NoTurn /\ turn'[g] > 0 => age[At(g)] < Ttl]_guestStore
=============================================================================
