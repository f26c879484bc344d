------------------------------ MODULE MCCodingRun ------------------------------
(* The default settings, and both switches on.                             *)
EXTENDS CodingRun

MCSettings == {[autoInstall |-> on, tests |-> on] : on \in BOOLEAN}
=============================================================================
