------------------------------ MODULE MCOutside ------------------------------
(* What depends on services the process does not control: the news feeds,  *)
(* the knowledge store, the search engines, the research agent and what it *)
(* is told, and the Docker daemon of the sandbox. They share no state:     *)
(* each behaviour is about one of them, the others rest.                   *)
EXTENDS NewsRefresh, KnowledgeStore, Searchers, ResearchRun, Grounding, Sandbox

CONSTANTS a, b, c

VARIABLE part

outside == <<part, vars, knowledge, searchers, research, grounding, sandbox>>

MCInit ==
  /\ part \in {"news", "knowledge", "searchers", "research", "grounding", "sandbox"}
  /\ Init /\ KnowledgeInit /\ SearchersInit /\ ResearchInit /\ GroundingInit /\ SandboxInit
  /\ part # "news" => stored = {}
  /\ part # "sandbox" => docker = "ok"
  /\ part # "research" => ~persist
  /\ part # "grounding" => claims = <<>> /\ scorer = [s \in {"quotes", "all"} |-> "nothing"]

MCNext ==
  /\ UNCHANGED part
  /\ \/ part = "news" /\ Next
        /\ UNCHANGED <<knowledge, searchers, research, grounding, sandbox>>
     \/ part = "knowledge" /\ KnowledgeNext
        /\ UNCHANGED <<vars, searchers, research, grounding, sandbox>>
     \/ part = "searchers" /\ SearchersNext
        /\ UNCHANGED <<vars, knowledge, research, grounding, sandbox>>
     \/ part = "research" /\ ResearchNext
        /\ UNCHANGED <<vars, knowledge, searchers, grounding, sandbox>>
     \/ part = "grounding" /\ GroundingNext
        /\ UNCHANGED <<vars, knowledge, searchers, research, sandbox>>
     \/ part = "sandbox" /\ SandboxNext
        /\ UNCHANGED <<vars, knowledge, searchers, research, grounding>>
     \* One answer is researched and audited, and then it is over.
     \/ part \in {"research", "grounding"} /\ UNCHANGED outside

(* The fairness of NewsRefresh, where the news move. *)
MCSpec == MCInit /\ [][MCNext]_outside
          /\ \A n \in Tasks : WF_vars(part = "news" /\ TaskNext(n)
                                      /\ UNCHANGED <<part, knowledge, searchers, research,
                                                     grounding, sandbox>>)

MCFetches == {<<a, b, a>>, <<c, b>>, <<a, b, c>>, <<>>}
=============================================================================
