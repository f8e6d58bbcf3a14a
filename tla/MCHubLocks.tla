----------------------------- MODULE MCHubLocks -----------------------------
(* Model-checking instance of HubLocks.  Calls are numbered and made in the  *)
(* order of their numbers: they differ in nothing else, and a symmetry set  *)
(* would not be sound for the liveness properties.                           *)
EXTENDS HubLocks

InOrder == \A c \in Calls : fate[c] = "idle" /\ fate'[c] # "idle" =>
              \A d \in Calls : d < c => fate[d] # "idle"
=============================================================================
