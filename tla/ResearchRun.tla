----------------------------- MODULE ResearchRun -----------------------------
(***************************************************************************)
(* One run of ResearchAgent._run_core (features/research/agent.py): the    *)
(* gate that asks whether stored knowledge is enough, the judge, the       *)
(* top-up or the live search, the synthesis with the store being written   *)
(* beside it, the bounded extra rounds, and the cancel flag, which the     *)
(* client may raise at any moment and the run reads only here and there.   *)
(* Sources stand for SearchResult.id; ranking and near-duplicate removal   *)
(* may keep any of them, up to TopK. The sufficiency gate is switched on.  *)
(***************************************************************************)
EXTENDS Integers, FiniteSets

CONSTANTS
  Sources,    \* what the store and the searches may return
  TopK,       \* top_k of rerank_results
  Searches,   \* searches of a live round
  MaxRounds   \* RESEARCH_MAX_ITERATIONS

ASSUME ResearchAssumption == TopK \in Nat \ {0} /\ Searches \in Nat /\ MaxRounds \in Nat

Answers == {"none", "weak", "good"}   \* no claim, a low or a high confidence
Nothing == [s \in Sources |-> 0]
NoOutput == [answer |-> "none", basis |-> {}]

VARIABLES
  at,          \* where the run is; "done", "cancelled" and "error" end it
  persist,     \* FALSE for a guest
  cancel,      \* cancel_event
  fresh,       \* the stored sources that passed the gate
  reason,      \* why this path was taken
  pending,     \* searches of the live round still running
  found,       \* raw_results
  sources,     \* all_sources
  merged,      \* what the top-up of the round under way has made of them
  newly,       \* newly_fetched: how often each source is in it
  dispatched,  \* the part of it that went to the store thread
  storing,     \* store_future is running
  handed,      \* how often each source was given to add_results
  output,      \* the answer, and the sources it was written from
  rounds,      \* extra rounds begun
  late         \* search rounds that ended after the cancel flag was raised

research == <<at, persist, cancel, fresh, reason, pending, found, sources,
              merged, newly, dispatched, storing, handed, output, rounds, late>>
gate == <<fresh, reason>>
live == <<pending, found, merged>>
store == <<dispatched, storing, handed>>
gathered == <<sources, newly>>
answered == <<output, rounds>>

ResearchInit ==
  /\ at = "gate" /\ persist \in BOOLEAN /\ cancel = FALSE
  /\ fresh = {} /\ reason = "none"
  /\ pending = 0 /\ found = {} /\ merged = {}
  /\ sources = {} /\ newly = Nothing
  /\ dispatched = Nothing /\ storing = FALSE /\ handed = Nothing
  /\ output = NoOutput /\ rounds = 0 /\ late = 0

-----------------------------------------------------------------------------
(* filter_by_anchor_relevance: a filter that would drop more than 80 % is  *)
(* not applied.                                                            *)
Relevant(S) == {S} \cup {R \in SUBSET S : 5 * Cardinality(S \ R) <= 4 * Cardinality(S)}
(* deduplicate_results: one of each group of near-duplicates. *)
Deduplicated(S) == {R \in SUBSET S : S # {} => R # {}}
(* rerank_results on top of it. *)
Ranked(S) == {R \in Deduplicated(S) : Cardinality(R) <= TopK}
(* _process_pipeline; the crawled full texts keep their source's id. *)
Processed(S) == UNION {Ranked(R) : R \in Relevant(S)}
Plus(bag, S) == [s \in Sources |-> bag[s] + IF s \in S THEN 1 ELSE 0]
AllOf(bag, more) == [s \in Sources |-> bag[s] + more[s]]

Goto(from, to) == at = from /\ at' = to
(* A point where the code looks at the flag before it goes on. *)
GotoUnlessCancelled(from, to) == Goto(from, IF cancel THEN "cancelled" ELSE to)
SearchRoundEnds == late' = late + IF cancel THEN 1 ELSE 0

(* sufficiency.assess: nothing stored, or all too old; too thin for the    *)
(* question, or perhaps enough.                                            *)
States(F) == IF F = {} THEN {"empty", "stale"} ELSE {"thin", "maybe"}

(* retrieve_candidates, the focus filter and the first two tiers. *)
Assess(F) ==
  /\ at = "gate"
  /\ fresh' = F
  /\ \E state \in States(F) :
       /\ at' = IF F = {} THEN "search" ELSE state
       /\ reason' = IF state = "maybe" THEN "insufficient" ELSE state
  /\ UNCHANGED <<persist, cancel, live, gathered, store, answered, late>>

(* Before the gap is filled, and before the judge is asked. *)
EnterGap ==
  /\ GotoUnlessCancelled("thin", "topup") \/ GotoUnlessCancelled("maybe", "judging")
  /\ UNCHANGED <<persist, cancel, gate, live, gathered, store, answered, late>>

(* validate_judge_response: anything but a plain `true` is no. *)
Replies == {"true", "false", "malformed", "none"}
Verdict(reply) == reply = "true"

(* _run_judge: a verdict, or no reply in time or an error, which count as  *)
(* insufficient; the flag is polled while it runs.                         *)
Judge(reply) ==
  LET sufficient == Verdict(reply) IN
  /\ GotoUnlessCancelled("judging", IF sufficient THEN "decided" ELSE "topup")
  /\ IF ~cancel /\ sufficient
     THEN sources' = fresh /\ reason' = "sufficient"
     ELSE UNCHANGED <<sources, reason>>
  /\ UNCHANGED <<persist, cancel, fresh, newly, live, store, answered, late>>

(* _top_up: what is left of both after the merge and was not there before. *)
Newly(base, result) == result \ base

(* A search that fails leaves the stored sources as they are. *)
TopUp(result) ==
  /\ Goto("topup", "decided")
  /\ sources' = result
  /\ newly' = Plus(newly, Newly(fresh, result))
  /\ reason' = IF Newly(fresh, result) = {} THEN "top_up_failed" ELSE reason
  /\ SearchRoundEnds
  /\ UNCHANGED <<persist, cancel, fresh, live, store, answered>>

-----------------------------------------------------------------------------
BeginSearch ==
  /\ GotoUnlessCancelled("search", "searching")
  /\ pending' = Searches
  /\ UNCHANGED <<persist, cancel, gate, found, merged, gathered, store, answered, late>>

(* One search ends, with some results, with none or in an error. *)
SearchEnds(batch) ==
  /\ at = "searching" /\ pending > 0
  /\ pending' = pending - 1
  /\ found' = found \cup batch
  /\ UNCHANGED <<at, persist, cancel, gate, merged, gathered, store, answered, late>>

(* All have ended, the flag is up, or time is: the slow ones are left      *)
(* behind, earlier once there are enough results (_gather).                *)
EndSearch(R) ==
  /\ GotoUnlessCancelled("searching", "decided")
  /\ R \in Processed(found)
  /\ IF cancel THEN UNCHANGED gathered
               ELSE sources' = R /\ newly' = Plus(newly, R)
  /\ SearchRoundEnds
  /\ UNCHANGED <<persist, cancel, gate, live, store, answered>>

-----------------------------------------------------------------------------
(* Synthesis begins, and the new sources go to the store's thread. *)
Synthesize ==
  /\ GotoUnlessCancelled("decided", IF reason = "sufficient" THEN "rag" ELSE "sections")
  /\ IF cancel
     THEN UNCHANGED <<dispatched, storing>>
     ELSE dispatched' = newly /\ storing' = (persist /\ newly # Nothing)
  /\ UNCHANGED <<persist, cancel, gate, live, gathered, handed, answered, late>>

(* _store_sources on its thread, at any moment from then on. *)
StoreBatch ==
  /\ storing
  /\ storing' = FALSE
  /\ handed' = AllOf(handed, dispatched)
  /\ UNCHANGED <<at, persist, cancel, gate, live, gathered, dispatched, answered, late>>

Written(answer, from) == output' = [answer |-> answer, basis |-> from]

(* synthesize_rag_grounded: one call, no look at the flag. *)
AnswerFromStore(answer) ==
  /\ Goto("rag", "finish")
  /\ Written(answer, sources)
  /\ UNCHANGED <<persist, cancel, gate, live, gathered, store, rounds, late>>

(* The sections of synthesize_grounded_streaming; after each the flag is   *)
(* read. Without sources there is nothing to say.                          *)
StreamSections(answer) ==
  /\ GotoUnlessCancelled("sections", "loop")
  /\ sources = {} => answer = "none"
  /\ Written(answer, sources)
  /\ UNCHANGED <<persist, cancel, gate, live, gathered, store, rounds, late>>

NeedsIteration == sources # {} /\ rounds < MaxRounds /\ output.answer # "good"

(* Mutant: the loop does not look at the flag. *)
NextRoundUnchecked ==
  /\ Goto("loop", IF NeedsIteration THEN "iterate" ELSE "finish")
  /\ rounds' = rounds + IF NeedsIteration THEN 1 ELSE 0
  /\ UNCHANGED <<persist, cancel, gate, live, gathered, store, output, late>>

NextRound ==
  /\ IF NeedsIteration THEN GotoUnlessCancelled("loop", "iterate")
                       ELSE Goto("loop", "finish")
  /\ rounds' = rounds + IF NeedsIteration /\ ~cancel THEN 1 ELSE 0
  /\ UNCHANGED <<persist, cancel, gate, live, gathered, store, output, late>>

(* Mutant: the top-up of a round replaces the sources at once. *)
FillGapAtOnce(result) ==
  /\ Goto("iterate", "rewrite")
  /\ merged' = result
  /\ sources' = result
  /\ SearchRoundEnds
  /\ UNCHANGED <<persist, cancel, gate, pending, found, newly, store, answered>>

(* _iteration_step: a top-up aimed at the gap, which the round keeps to    *)
(* itself. A search that fails leaves the sources as they are.             *)
FillGap(result) ==
  /\ Goto("iterate", "rewrite")
  /\ merged' = result
  /\ SearchRoundEnds
  /\ UNCHANGED <<persist, cancel, gate, pending, found, gathered, store, answered>>

(* A whole new output from them: only now are they the run's sources, and  *)
(* what is new among them fetched.                                         *)
Iterate(answer) ==
  /\ Goto("rewrite", "loop")
  /\ Written(answer, merged)
  /\ sources' = merged
  /\ newly' = Plus(newly, Newly(sources, merged))
  /\ merged' = {}
  /\ UNCHANGED <<persist, cancel, gate, pending, found, store, rounds, late>>

(* No gap to aim at, or the synthesis after the top-up failed: the round   *)
(* is dropped as a whole, and is the last.                                 *)
IterateFails ==
  /\ Goto("iterate", "finish") \/ Goto("rewrite", "finish")
  /\ merged' = {}
  /\ UNCHANGED <<persist, cancel, gate, pending, found, gathered, store, answered, late>>

-----------------------------------------------------------------------------
(* Mutant: the rest is cut off by the length the list has now. *)
RemainingForgotten == Nothing
(* newly_fetched[dispatched:] *)
Remaining == [s \in Sources |-> newly[s] - dispatched[s]]

(* The first batch is joined, what the rounds added goes after it, and     *)
(* only then is done sent.                                                 *)
Finish ==
  /\ Goto("finish", "done")
  /\ ~storing
  /\ handed' = IF persist THEN AllOf(handed, Remaining) ELSE handed
  /\ UNCHANGED <<persist, cancel, gate, live, gathered, dispatched, storing, answered, late>>

RunEnded == {"done", "cancelled", "error"}

(* An exception anywhere else becomes an error event. *)
ResearchFails ==
  /\ at \notin RunEnded
  /\ at' = "error"
  /\ UNCHANGED <<persist, cancel, gate, live, gathered, store, answered, late>>

(* The client leaves or asks to stop. *)
RaiseCancel ==
  /\ at \notin RunEnded /\ ~cancel
  /\ cancel' = TRUE
  /\ UNCHANGED <<at, persist, gate, live, gathered, store, answered, late>>

ResearchNext ==
  \/ \E S \in SUBSET Sources :
       \/ Assess(S) \/ SearchEnds(S) \/ EndSearch(S)
       \/ TopUp(fresh)
       \/ \E R \in Ranked(fresh \cup S) : TopUp(R)
       \/ FillGap(sources)
       \/ \E R \in Ranked(sources \cup S) : FillGap(R)
  \/ EnterGap \/ BeginSearch \/ Synthesize \/ StoreBatch \/ NextRound \/ IterateFails
  \/ \E reply \in Replies : Judge(reply)
  \/ \E a \in Answers : AnswerFromStore(a) \/ StreamSections(a) \/ Iterate(a)
  \/ Finish \/ ResearchFails \/ RaiseCancel

ResearchSpec == ResearchInit /\ [][ResearchNext]_research

-----------------------------------------------------------------------------
(* A finished run has handed the store exactly what it fetched, whatever   *)
(* the store's thread, the extra rounds and the moment of the dispatch; a  *)
(* cancelled or failed one nothing else; a guest's run nothing at all. Up  *)
(* to the first extra round that is nothing which came from the store.     *)
FetchedIsStored ==
  /\ at = "done" /\ persist => handed = newly
  /\ \A s \in Sources : handed[s] <= newly[s] /\ (~persist => handed[s] = 0)
  /\ reason = "sufficient" /\ at \in RunEnded => newly = Nothing
  /\ rounds = 0 => \A s \in fresh : newly[s] = 0

(* What the client is shown belongs together, wherever a round breaks off: *)
(* from the first answer to the last event the answer is written from the  *)
(* sources the run holds, and when a run that stores is done, each of them *)
(* came from the knowledge store or has been handed to it (_iteration_step *)
(* and the loop around it, agent.py:373-387, 684-701, 732-736).            *)
AnswerHasItsSources ==
  /\ at \in {"loop", "iterate", "rewrite", "finish", "done"} => output.basis = sources
  /\ at = "done" /\ persist => \A s \in output.basis : s \in fresh \/ handed[s] > 0

(* After the client has cancelled, at most the search round that was       *)
(* running then comes to its end: wherever the run is, it reads the flag   *)
(* before it begins another.                                               *)
OneRoundAfterCancel == late <= 1

(* "nguồn trong `base_sources` đến từ Weaviate và ghi lại sẽ nhân bản      *)
(* chunk" (agent.py:340-341), "không nguồn nào bị ghi hai lần"             *)
(* (agent.py:733-734): a run writes no source that it had from the store,  *)
(* and none twice.                                                         *)
StoredOnce ==
  \A s \in Sources : handed[s] <= IF s \in fresh THEN 0 ELSE 1
=============================================================================
