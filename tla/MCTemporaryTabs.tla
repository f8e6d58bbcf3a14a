--------------------------- MODULE MCTemporaryTabs ---------------------------
(* Model-checking instance of TemporaryTabs.                                *)
EXTENDS TemporaryTabs, TLC

\* The sessions are interchangeable: in a state where none of them appears, First goes first.
\* (A symmetry set would not be sound for the liveness property.)
First == CHOOSE s \in Sessions : TRUE

NoneAppears ==
    /\ resolving = {} /\ ended = {} /\ requests = 0
    /\ \A t \in Tabs : owner[t] = NoSession
    /\ \A i \in DOMAIN chain : chain[i].session = NoSession

InOrder ==
    NoneAppears => /\ resolving' \cup ended' \subseteq {First}
                   /\ \A i \in DOMAIN chain' : chain'[i].session \in {First, NoSession}

\* A first fault may strike anywhere; a second one is the failing read of a retry pass, over
\* what the first has left.
SecondFaultHitsTheRetry == faults' = 2 /\ faults = 1 => RetrySessionFails
=============================================================================
