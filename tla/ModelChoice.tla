----------------------------- MODULE ModelChoice -----------------------------
(***************************************************************************)
(* Which model a request runs on (core/llm.py): the route swaps in the     *)
(* guests' model (core/auth.py), the guard of shared/model_guard.py checks *)
(* the pair, and later, from the same two words of the request, get_llm    *)
(* and capabilities_for work the pair out again. What happens to the call  *)
(* is reported to the capability registry, by invoke_chat only.            *)
(***************************************************************************)
EXTENDS Integers

CONSTANTS Deployments   \* the settings considered

Providers == {"ollama", "anthropic", "openai"}      \* _VALID_PROVIDERS
Unset == "unset"

(* MODEL_REGISTRY: one listed id per provider, the one get_llm falls back  *)
(* to (it is listed for both), "local" for OLLAMA_MODEL and "other" for an *)
(* id nobody lists.                                                        *)
Fallback == [ollama |-> "local", anthropic |-> "sonnet", openai |-> "mini"]
Models == {Unset, "local", "sonnet", "mini", "other"}

(* DEFAULT_PROVIDER is validated (_check_provider), the rest is free.      *)
(* `usable`: the providers with a key, or with a URL for Ollama.           *)
ASSUME DeploymentsAssumption ==
  Deployments \subseteq [provider : Providers, model : Models, usable : SUBSET Providers,
                         guestProvider : Providers \cup {Unset}, guestModel : Models]

VARIABLES
  deployment,   \* the settings
  ask,          \* the request: who, and its provider and model
  course,       \* "idle", "guarded", "admitted", "refused", "built", "unusable"
  built,        \* the pair the client was built for, and whose capabilities apply
  llm           \* the llm entry of the capability registry

modelChoice == <<deployment, ask, course, built, llm>>

NoPair == [provider |-> Unset, model |-> Unset]

ModelChoiceInit ==
  /\ deployment \in Deployments
  /\ ask = [guest |-> FALSE, pair |-> NoPair, reports |-> FALSE]
  /\ course = "idle"
  /\ built = [client |-> NoPair, capabilities |-> NoPair]
  /\ llm = "unknown"

-----------------------------------------------------------------------------
Provider(pair) == IF pair.provider = Unset THEN deployment.provider ELSE pair.provider

(* DEFAULT_MODEL, when it belongs to this provider. *)
DefaultModelFor(p) == IF p = deployment.provider THEN deployment.model ELSE Unset

FirstSet(m, default, fallback) ==
  IF m # Unset THEN m ELSE IF default # Unset THEN default ELSE fallback

(* An unknown provider falls through to OpenAI's model here. *)
ResolveModel(p, m) ==
  FirstSet(m, DefaultModelFor(p), IF p \in Providers THEN Fallback[p] ELSE "mini")

Resolved(pair) ==
  [provider |-> Provider(pair), model |-> ResolveModel(Provider(pair), pair.model)]

ServerDefault == Resolved(NoPair)

Available == {[provider |-> p, model |-> Fallback[p]] : p \in deployment.usable}

(* Mutant: a request that names no model is let through. *)
AllowedUnresolved(pair) ==
  pair.model = Unset \/ Resolved(pair) \in Available \cup {ServerDefault}
(* check_model_allowed *)
Allowed(pair) == Resolved(pair) \in Available \cup {ServerDefault}

(* guest_model *)
GuestModel ==
  LET p == IF deployment.guestProvider # Unset THEN deployment.guestProvider
           ELSE deployment.provider IN
  [provider |-> p,
   model |-> ResolveModel(p, FirstSet(deployment.guestModel, DefaultModelFor(p), Unset))]

(* What GET /api/models announces as the default: to a guest the one model *)
(* it gets; to the owner the server's, unless it is not available.         *)
Announced(guest, first) ==
  LET local == [provider |-> "ollama", model |-> "local"]
      wanted == [provider |-> deployment.provider, model |-> deployment.model]
      offered == IF Available = {} THEN local ELSE first IN
  IF guest THEN GuestModel
  ELSE IF deployment.model # Unset /\ wanted \in Available THEN wanted ELSE offered

-----------------------------------------------------------------------------
(* The client's words come as they are, or are what the list announced. *)
Ask(guest, pair, reports) ==
  /\ course = "idle"
  /\ ask' = [guest |-> guest, pair |-> pair, reports |-> reports]
  /\ course' = "guarded"
  /\ UNCHANGED <<deployment, built, llm>>

(* The route: a guest's words are replaced, then the guard, before any     *)
(* lock or call is taken.                                                  *)
Guard ==
  LET pair == IF ask.guest THEN GuestModel ELSE ask.pair IN
  /\ course = "guarded"
  /\ ask' = [ask EXCEPT !.pair = pair]
  /\ course' = IF Allowed(pair) THEN "admitted" ELSE "refused"
  /\ UNCHANGED <<deployment, built, llm>>

(* get_llm: ChatOllama is built whatever its URL is, the others only with  *)
(* a key. Only invoke_chat reports that one is missing.                    *)
Build ==
  LET pair == Resolved(ask.pair)
      keyed == pair.provider \in deployment.usable \cup {"ollama"} IN
  /\ course = "admitted"
  /\ course' = IF keyed THEN "built" ELSE "unusable"
  /\ built' = IF keyed THEN [client |-> pair, capabilities |-> pair] ELSE built
  /\ llm' = IF ~keyed /\ ask.reports THEN "degraded" ELSE llm
  /\ UNCHANGED <<deployment, ask>>

Used ==
  /\ course = "built"
  /\ course' = "idle"
  /\ built' = [client |-> NoPair, capabilities |-> NoPair]
  /\ UNCHANGED <<deployment, ask>>

(* invoke_chat tells the registry how its call ended; *)
Invoke(ok) ==
  /\ ask.reports
  /\ llm' = IF ok THEN "ok" ELSE "degraded"
  /\ Used

(* stream_chat and astream_chat tell it nothing. *)
Stream ==
  /\ ~ask.reports
  /\ UNCHANGED llm
  /\ Used

(* A 400 for what was refused, an error for what cannot be used. *)
Answer ==
  /\ course \in {"refused", "unusable"}
  /\ course' = "idle"
  /\ UNCHANGED <<deployment, ask, built, llm>>

Asks == [provider : Providers \cup {Unset, "unknown"}, model : Models]

ModelChoiceNext ==
  \/ \E guest, reports \in BOOLEAN, pair \in Asks : Ask(guest, pair, reports)
  \/ Guard \/ Build \/ (\E ok \in BOOLEAN : Invoke(ok)) \/ Stream \/ Answer

ModelChoiceSpec == ModelChoiceInit /\ [][ModelChoiceNext]_modelChoice

-----------------------------------------------------------------------------
(* The pair is worked out three times, from words that may leave either    *)
(* half open. Whatever they leave out, a client is built only for a model  *)
(* on the list of GET /api/models or for the operator's own default; a key *)
(* is missing only for a default the operator left unusable, never for a   *)
(* caller's choice; a guest runs on the guests' model alone; and the       *)
(* default the list announces to the owner is not one the guard refuses,   *)
(* as long as anything can be offered.                                     *)
ModelGuard ==
  /\ course = "built" =>
       /\ built.client \in Available \cup {ServerDefault}
       /\ built.capabilities = built.client
       /\ ask.guest => built.client = GuestModel
  /\ course = "unusable" => Resolved(ask.pair) = ServerDefault
  /\ Available # {} => \A first \in Available : Allowed(Announced(FALSE, first))
=============================================================================
