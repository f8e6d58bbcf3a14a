------------------------- MODULE MCSessionLifecycle -------------------------
(* Values for model checking SessionLifecycle.                             *)
EXTENDS SessionLifecycle, TLC

Symmetry == Permutations(Clients) \cup Permutations(Ids) \cup Permutations(Sockets)

\* Two things go wrong in a run, in whatever order: a connection is lost, or the hub.  None of
\* the steps this forbids is fair.
TwoThingsGoWrong == drops' + restarts' + crashes' <= 2
=============================================================================
