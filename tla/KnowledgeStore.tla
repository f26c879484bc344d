--------------------------- MODULE KnowledgeStore ----------------------------
(***************************************************************************)
(* Access to the knowledge store (features/research/knowledge_store.py):   *)
(* the lazily opened Weaviate client, the deadlines of its calls, and the  *)
(* pause after a failure, during which the store is skipped. _retry_at is  *)
(* read without a lock, so calls let in before a failure go on after it,   *)
(* and those queued on _client_lock connect without looking at it again.   *)
(* _retry_at is kept as the time still to wait for it.                     *)
(***************************************************************************)
EXTENDS Integers, FiniteSets

CONSTANTS
  Askers,      \* threads that use the store
  RetryAfter,  \* RETRY_AFTER_SECONDS
  CallLimit    \* the longest a connection, a query or an insert may take

ASSUME KnowledgeAssumption ==
  IsFiniteSet(Askers) /\ RetryAfter \in Nat \ {0} /\ CallLimit \in Nat \ {0}

VARIABLES
  asker,      \* what each thread is doing
  spent,      \* how long its present call has been waiting for the network
  pause,      \* _retry_at - clock, 0 once it has passed
  refusing,   \* for how long the store has been skipped without a break
  client,     \* _client is open
  opening     \* who holds _client_lock

knowledge == <<asker, spent, pause, refusing, client, opening>>

Waits == {"connecting", "embedding", "querying", "inserting"}
Uses == {"retrieve", "size", "add"}

KnowledgeInit ==
  /\ asker = [a \in Askers |-> "idle"]
  /\ spent = [a \in Askers |-> 0]
  /\ pause = 0 /\ refusing = 0
  /\ client = FALSE
  /\ opening = {}

-----------------------------------------------------------------------------
Go(a, from, to) ==
  /\ asker[a] = from
  /\ asker' = [asker EXCEPT ![a] = to]
  /\ spent' = [spent EXCEPT ![a] = 0]

(* What comes after the client: the query is embedded first (by OpenAI),   *)
(* and so is what is added; size() asks at once.                           *)
WithClient == {"embedding", "querying", "inserting"}

(* _get_weaviate, first look: not paused; the client or the lock. A paused *)
(* store is skipped and nothing changes.                                   *)
Ask(a) ==
  /\ pause = 0
  /\ IF client THEN \E next \in WithClient : Go(a, "idle", next) ELSE Go(a, "idle", "locking")
  /\ UNCHANGED <<pause, refusing, client, opening>>

(* Mutant: being skipped counts as a failure. *)
SkipPauses(a) ==
  /\ asker[a] = "idle" /\ pause > 0
  /\ pause' = RetryAfter
  /\ UNCHANGED <<asker, spent, refusing, client, opening>>
Skip(a) == asker[a] = "idle" /\ pause > 0 /\ UNCHANGED knowledge

(* Second look, under the lock: the client only. *)
OpenClient(a) ==
  /\ opening = {}
  /\ IF client
     THEN (\E next \in WithClient : Go(a, "locking", next)) /\ UNCHANGED opening
     ELSE Go(a, "locking", "connecting") /\ opening' = {a}
  /\ UNCHANGED <<pause, refusing, client>>

Connected(a) ==
  /\ \E next \in WithClient : Go(a, "connecting", next)
  /\ client' = TRUE
  /\ opening' = {}
  /\ UNCHANGED <<pause, refusing>>

(* _pause *)
Pause == pause' = RetryAfter

(* Connecting, or bringing the schema up to date, failed. *)
ConnectFails(a) ==
  /\ Go(a, "connecting", "idle")
  /\ opening' = {}
  /\ Pause
  /\ UNCHANGED <<refusing, client>>

(* Embedding failed: that is not the store's fault, no pause. *)
EmbedEnds(a) ==
  /\ \E next \in {"idle", "querying"} : Go(a, "embedding", next)
  /\ UNCHANGED <<pause, refusing, client, opening>>

(* A result, or an insert that failed, which is only logged. *)
QueryEnds(a) ==
  /\ Go(a, "querying", "idle") \/ Go(a, "inserting", "idle")
  /\ UNCHANGED <<pause, refusing, client, opening>>

QueryFails(a) ==
  /\ Go(a, "querying", "idle")
  /\ Pause
  /\ UNCHANGED <<refusing, client, opening>>

(* Time passes while no call is over its deadline. *)
KnowledgeTick ==
  /\ \A a \in Askers : spent[a] < CallLimit
  /\ \A a \in Askers : asker[a] = "locking" => opening # {}
  /\ spent' = [a \in Askers |-> IF asker[a] \in Waits THEN spent[a] + 1 ELSE 0]
  /\ pause' = IF pause > 0 THEN pause - 1 ELSE 0
  /\ refusing' = IF pause > 1 THEN refusing + 1 ELSE 0
  /\ UNCHANGED <<asker, client, opening>>

KnowledgeNext ==
  \/ \E a \in Askers : \/ Ask(a) \/ Skip(a) \/ OpenClient(a)
                       \/ Connected(a) \/ ConnectFails(a)
                       \/ EmbedEnds(a) \/ QueryEnds(a) \/ QueryFails(a)
  \/ KnowledgeTick

KnowledgeSpec == KnowledgeInit /\ [][KnowledgeNext]_knowledge

-----------------------------------------------------------------------------
(* A pause is the cost of one failure and of the calls that were under way *)
(* at that moment, never more: each of those may fail late and prolong it, *)
(* one after the other if they queue for the client, but no call made in   *)
(* the pause does. Requests that keep coming cannot keep the store skipped.*)
PauseIsBounded ==
  refusing <= RetryAfter + (Cardinality(Askers) + 1) * CallLimit
=============================================================================
