------------------------------ MODULE MCStorage ------------------------------
(* What the process keeps for later, in memory, in files and in its        *)
(* database: PDF texts, guests' sessions, formula images, connection       *)
(* pools, and the operators' backups. They share no state: each behaviour  *)
(* is about one of them, the others rest.                                  *)
EXTENDS PdfDocs, GuestStore, Hmer, Lifespan, Backups

VARIABLE part

MCInit ==
  /\ part \in {"pdf", "guests", "formulas", "pools", "backups"}
  /\ Init /\ GuestStoreInit /\ HmerInit /\ LifespanInit /\ BackupsInit
  /\ part # "formulas" => health = "unknown"

MCNext ==
  /\ UNCHANGED part
  /\ \/ part = "pdf" /\ Next /\ UNCHANGED <<guestStore, hmer, lifespan, backups>>
     \/ part = "guests" /\ GuestStoreNext /\ UNCHANGED <<vars, hmer, lifespan, backups>>
     \/ part = "formulas" /\ HmerNext /\ UNCHANGED <<vars, guestStore, lifespan, backups>>
     \/ part = "pools" /\ LifespanNext /\ UNCHANGED <<vars, guestStore, hmer, backups>>
     \/ part = "backups" /\ BackupsNext /\ UNCHANGED <<vars, guestStore, hmer, lifespan>>

MCSpec == MCInit /\ [][MCNext]_<<part, vars, guestStore, hmer, lifespan, backups>>
=============================================================================
