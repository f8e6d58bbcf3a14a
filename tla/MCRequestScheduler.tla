------------------------- MODULE MCRequestScheduler -------------------------
(* Model-checking instance of RequestScheduler.  Requests are dispatched in  *)
(* the order of their numbers, and the first belongs to the first session:   *)
(* requests and sessions differ in nothing else, and a symmetry set would    *)
(* not be sound for liveness.                                                *)
EXTENDS RequestScheduler

CONSTANTS t1, s1, s2

InOrder ==
    /\ \A r \in Requests : fate[r] = "idle" /\ fate'[r] # "idle" =>
          \A d \in Requests : d < r => fate[d] # "idle"
    /\ meta'[1] = NoMeta \/ meta'[1].session = s1
=============================================================================
