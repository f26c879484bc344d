------------------------------ MODULE Grounding -------------------------------
(***************************************************************************)
(* The audit of an answer's claims (features/research/grounding.py and     *)
(* Synthesizer._attach_grounding): what the model extracted is judged by   *)
(* the quote it copied, by its own words when it copied none, by whether   *)
(* the quote belongs to the claim, and, when too few are left, all over    *)
(* again by meaning. The scorer of the last two is a service that may give *)
(* nothing. Texts are abstracted to what each test would say of them.      *)
(***************************************************************************)
EXTENDS Integers, Sequences, FiniteSets

CONSTANTS
  MaxClaims,   \* bound on the claims of an answer
  MinClaims    \* _FALLBACK_MIN_CLAIMS

ASSUME GroundingAssumption == MinClaims \in Nat \ {0} /\ MaxClaims \in Nat

(* backed: the quote, or without one the claim's words, are in the source  *)
(* it cites; it cites none that exists if that cannot be. related: the     *)
(* quote is about the claim. alike: the service finds claim and source (or *)
(* the empty text, when none is cited) close. direct: labelled so.         *)
Claims == {c \in [quoted : BOOLEAN, backed : BOOLEAN, related : BOOLEAN,
                  alike : BOOLEAN, direct : {TRUE}] :
             c.related => c.quoted /\ c.backed}
Scorers == {"scores", "nothing"}   \* a list as long as asked, or anything else

VARIABLES
  stage,     \* how far the audit has come
  claims,    \* what extract_claims returned
  grounded,  \* the positions of the claims that are grounded
  scorer,    \* whether the service answers: first for quotes, then for all
  redone,    \* the fallback has judged the claims anew
  shown      \* out.claims, whether confidence is positive, and the note that
             \* some claims found no support

grounding == <<stage, claims, grounded, scorer, redone, shown>>

NothingShown == [claims |-> {}, confident |-> FALSE, note |-> FALSE]

GroundingInit ==
  /\ stage = "extracted"
  /\ \E n \in 0 .. MaxClaims : claims \in [1 .. n -> Claims]
  /\ grounded = {}
  /\ scorer \in [{"quotes", "all"} -> Scorers]
  /\ redone = FALSE
  /\ shown = NothingShown

-----------------------------------------------------------------------------
Positions == DOMAIN claims
Audit(from, to) == stage = from /\ stage' = to /\ UNCHANGED <<claims, scorer>>

(* quote_support of the quote, or without one is_grounded of the words. *)
Supported(c) == c.backed

(* verify, first. *)
CheckQuotes ==
  /\ Audit("extracted", "quotesChecked")
  /\ grounded' = {i \in Positions : Supported(claims[i])}
  /\ UNCHANGED <<redone, shown>>

(* Mutant: the scores of the quoted claims are laid against all of them.   *)
UnrelatedMisplaced ==
  LET quoted == {i \in grounded : claims[i].quoted} IN
  {i \in grounded : \E j \in quoted :
     /\ Cardinality({k \in quoted : k < j}) = Cardinality({k \in Positions : k < i})
     /\ ~claims[j].related}
(* _check_quote_relatedness: real quotes that say something else. *)
Unrelated == {i \in grounded : claims[i].quoted /\ ~claims[i].related}

CheckRelatedness ==
  /\ Audit("quotesChecked", "relatednessChecked")
  /\ grounded' = IF scorer["quotes"] = "scores" THEN grounded \ Unrelated ELSE grounded
  /\ UNCHANGED <<redone, shown>>

(* _should_fall_back: three claims or more, and less than 3 in 10 stand. *)
FallsBack == Len(claims) >= MinClaims /\ 10 * Cardinality(grounded) < 3 * Len(claims)

(* _apply_fallback: every claim is judged anew, unless the scores fail.    *)
FallBack ==
  /\ Audit("relatednessChecked", "judged")
  /\ redone' = (FallsBack /\ scorer["all"] = "scores")
  /\ grounded' = IF redone' THEN {i \in Positions : claims[i].alike} ELSE grounded
  /\ UNCHANGED shown

(* A claim that does not stand is no longer called direct. *)
Downgrade ==
  /\ stage = "judged" /\ stage' = "labelled"
  /\ claims' = [i \in Positions |->
       [claims[i] EXCEPT !.direct = @ /\ i \in grounded]]
  /\ UNCHANGED <<grounded, scorer, redone, shown>>

(* compute_confidence and derive_limitations count the rejected ones too. *)
Confident == grounded # {}
Limited == grounded # Positions

(* Only grounded claims are shown. *)
Attach ==
  /\ Audit("labelled", "attached")
  /\ shown' = [claims |-> grounded, confident |-> Confident, note |-> Limited]
  /\ UNCHANGED <<grounded, redone>>

GroundingNext ==
  CheckQuotes \/ CheckRelatedness \/ FallBack \/ Downgrade \/ Attach

GroundingSpec == GroundingInit /\ [][GroundingNext]_grounding

-----------------------------------------------------------------------------
(* What no test would support is never shown and what every test supports  *)
(* always is, whatever the other claims of the batch are like and whether  *)
(* or not the scores come: a collapse of the batch or a silent scorer may  *)
(* change the judge, not the verdict on clear cases. A real quote about    *)
(* something else is not shown while the scores come, unless the meaning   *)
(* says otherwise (ClaimAuditor.verify).                                   *)
ClearCasesStand ==
  stage = "attached" => \A i \in Positions :
    LET claim == claims[i] IN
    /\ ~claim.backed /\ ~claim.alike => i \notin shown.claims
    /\ claim.backed /\ (claim.quoted => claim.related) /\ claim.alike => i \in shown.claims
    /\ claim.quoted /\ ~claim.related /\ ~claim.alike /\ scorer["quotes"] = "scores"
         => i \notin shown.claims
    /\ i \notin shown.claims => shown.note
=============================================================================
