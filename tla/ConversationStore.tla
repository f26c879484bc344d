-------------------------- MODULE ConversationStore --------------------------
(***************************************************************************)
(* The history of one session as ConversationManager                       *)
(* (shared/conversation_store.py) computes it: what add_turns writes back, *)
(* and what a redo leaves. The contents of a turn are abstracted to the    *)
(* request it belongs to.                                                  *)
(***************************************************************************)
EXTENDS Integers, Sequences

CONSTANT MaxHistory   \* MAX_HISTORY, the turns a session keeps
ASSUME MaxHistoryAssumption == MaxHistory \in Nat \ {0}

Roles == {"user", "assistant"}
Turn(role, r) == [role |-> role, of |-> r]
Exchange(r) == <<Turn("user", r), Turn("assistant", r)>>

LastN(h, n) == IF Len(h) > n THEN SubSeq(h, Len(h) - n + 1, Len(h)) ELSE h

(* Mutant: a cut from the wrong end. *)
ExtendedKeepingOldest(h, turns) ==
  LET all == h \o turns IN
  IF Len(all) > MaxHistory THEN SubSeq(all, 1, MaxHistory) ELSE all

(* add_turns, given the history it read; replace_history with no new turns. *)
Extended(h, turns) == LastN(h \o turns, MaxHistory)

(* One element off the end if it is a turn of this role. *)
WithoutLast(h, role) ==
  IF h # <<>> /\ h[Len(h)].role = role THEN SubSeq(h, 1, Len(h) - 1) ELSE h

(* Mutant: the question stays. *)
WithoutLastAnswer(h) == WithoutLast(h, "assistant")

(* _without_last_exchange: the answer, then the question it answered. *)
WithoutLastExchange(h) == WithoutLast(WithoutLast(h, "assistant"), "user")

(* The turns of these requests, question then answer, in this order. *)
Exchanges(rs) ==
  [i \in 1 .. 2 * Len(rs) |->
     Turn(IF i % 2 = 1 THEN "user" ELSE "assistant", rs[(i + 1) \div 2])]
=============================================================================
