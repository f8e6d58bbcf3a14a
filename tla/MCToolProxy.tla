----------------------------- MODULE MCToolProxy -----------------------------
(* Model-checking instances of ToolProxy: two fetches of one session, which *)
(* compete for its places, and a plain request.                             *)
EXTENDS ToolProxy, TLC

CONSTANTS f1, f2, p1, s1

MCFetches == {f1, f2}
MCSessionOf == [r \in MCFetches |-> s1]

MCRequestsMixed == {f1, f2, p1}
MCSessionOfMixed == [r \in MCRequestsMixed |-> s1]

\* Two of the three requests are made, and f1 is the first fetch: what is fair does not depend
\* on which request is made when, and a symmetry set would not be sound for liveness.
TwoAreMade ==
    /\ phase'[f2] = "unasked" \/ phase'[p1] = "unasked"
    /\ phase'[f1] = "unasked" => phase'[f2] = "unasked"

Symmetry == Permutations(MCFetches)
=============================================================================
