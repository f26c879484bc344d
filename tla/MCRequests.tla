----------------------------- MODULE MCRequests ------------------------------
(* What a request meets on its way to a handler: the session leases, the   *)
(* admission checks, the choice of its model. They share no state: each    *)
(* behaviour is about one of them, the others rest.                        *)
EXTENDS SessionLocks, Admission, ModelChoice

VARIABLE part

MCInit ==
  /\ part \in {"leases", "admission", "model"}
  /\ Init /\ AdmissionInit /\ ModelChoiceInit
  /\ part # "admission" => conf = CHOOSE s \in Settings : TRUE
  /\ part # "model" => deployment = CHOOSE d \in Deployments : TRUE

MCNext ==
  /\ UNCHANGED part
  /\ \/ part = "leases" /\ Next /\ UNCHANGED <<admission, modelChoice>>
     \/ part = "admission" /\ AdmissionNext /\ UNCHANGED <<vars, modelChoice>>
     \/ part = "model" /\ ModelChoiceNext /\ UNCHANGED <<vars, admission>>

MCSpec == MCInit /\ [][MCNext]_<<part, vars, admission, modelChoice>>

MCRates == [t \in Tiers |-> IF t = "expensive" THEN 2 ELSE 1]

Setting(auth, guests, research, fixed, names) ==
  [auth |-> auth, guests |-> guests, research |-> research, fixedSecret |-> fixed,
   calls |-> {r \in Routes : r.name \in names}]
MCSettings ==
  { Setting(TRUE, TRUE, 1, TRUE, {"chat", "me"}),
    Setting(TRUE, TRUE, 1, TRUE, {"research", "me"}),
    Setting(TRUE, FALSE, 0, FALSE, {"login", "coding"}),
    Setting(TRUE, FALSE, 0, FALSE, {"login", "logout"}),
    Setting(FALSE, TRUE, 0, FALSE, {"logout", "coding"}),
    Setting(TRUE, TRUE, 0, TRUE, {"research", "logout"}) }

Deployed(provider, model, usable, guestProvider, guestModel) ==
  [provider |-> provider, model |-> model, usable |-> usable,
   guestProvider |-> guestProvider, guestModel |-> guestModel]
MCDeployments ==
  { Deployed("openai", Unset, {"openai", "ollama"}, Unset, Unset),
    Deployed("openai", "other", {"anthropic"}, "anthropic", Unset),
    Deployed("anthropic", "other", {"anthropic", "openai"}, Unset, "other"),
    Deployed("ollama", Unset, {}, "openai", "mini"),
    Deployed("ollama", "local", {"ollama", "openai"}, "openai", Unset) }
=============================================================================
