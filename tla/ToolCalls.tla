------------------------------ MODULE ToolCalls ------------------------------
(***************************************************************************)
(* What the proxy of server/src/ws-server.ts promises a client about a     *)
(* tool call and the file it may bring, with no socket, timer, registry or *)
(* shutdown: a call is answered once, and a file is saved in the very step *)
(* that tells the client so.  A call can be given up while its file is on  *)
(* the way; what happens to that file later depends on what was said.  One *)
(* that was given up as disconnected or for the shutdown is never saved.   *)
(*                                                                         *)
(* One call is not answered: a fetch made while its session has as many    *)
(* files on the way as it may have.  The hub drops it, and the client      *)
(* hears nothing until its own timer ends the call.                        *)
(***************************************************************************)
EXTENDS Naturals, Sequences, FiniteSets

CONSTANTS Requests, Fetches, SessionOf, MaxActive

VARIABLES
    call,    \* call[r]: not made, open, over, or dropped unheard
    told,    \* told[r]: the answers the client has been sent
    gone,    \* the calls whose client has left
    file     \* file[r]: none, on the way ("coming", or "doomed" if it will not be saved), saved

callVars == <<call, told, gone, file>>

Open == {r \in Requests : call[r] = "open"}

\* The files that can still be settled.
OnTheWay == {r \in Requests : file[r] \in {"coming", "doomed"}}

\* The session of t may have another file on the way.
HasPlace(t) == Cardinality({f \in OnTheWay : SessionOf[f] = SessionOf[t]}) < MaxActive

\* The calls of R are over, and those whose clients are there hear the answer.
End(R, answer) ==
    /\ call' = [r \in Requests |-> IF r \in R THEN "over" ELSE call[r]]
    /\ told' = [r \in Requests |-> IF r \in R \ gone THEN Append(told[r], answer) ELSE told[r]]
    /\ UNCHANGED gone

Ask(r) ==
    /\ call[r] = "unasked"
    /\ call' = [call EXCEPT ![r] = "open"]
    /\ UNCHANGED <<told, gone, file>>

\* Before its file is on the way a call may be refused, on arrival or later.
Refuse(r) ==
    /\ call[r] \in {"unasked", "open"} /\ file[r] = "none"
    /\ \E answer \in {"shutting_down", "no_target"} : End({r}, answer)
    /\ UNCHANGED file

\* A fetch without a place is dropped; it is never answered and never brings a file.
Lose(t) ==
    /\ call[t] = "open" /\ file[t] = "none"
    /\ ~ HasPlace(t)
    /\ call' = [call EXCEPT ![t] = "unheard"]
    /\ UNCHANGED <<told, gone, file>>

Begin(t) ==
    /\ call[t] = "open" /\ file[t] = "none"
    /\ HasPlace(t)
    /\ file' = [file EXCEPT ![t] = "coming"]
    /\ UNCHANGED <<call, told, gone>>

\* Only a call without a file has the tool's answer for its own.
Answer(r) ==
    /\ call[r] = "open" /\ r \notin Fetches
    /\ End({r}, "answered")
    /\ UNCHANGED file

\* Open calls are answered without a result.  After a timeout the file may still be saved.
GiveUp(R, answer) ==
    /\ End(R, answer)
    /\ file' = [r \in Requests |->
                  IF r \in R \ gone /\ file[r] = "coming" /\ answer # "timeout"
                  THEN "doomed" ELSE file[r]]

\* The files of T come to nothing, and their callers are told, the second time if need be.
Fail(T) ==
    /\ End(T, "failed")
    /\ file' = [r \in Requests |-> IF r \in T THEN "none" ELSE file[r]]

Save(t) ==
    /\ file[t] = "coming"
    /\ End({t}, "landed")
    /\ file' = [file EXCEPT ![t] = "saved"]

\* The client of the calls C leaves; those of D are given up, without a word.
Leave(C, D) ==
    /\ gone' = gone \cup C
    /\ call' = [r \in Requests |-> IF r \in D THEN "over" ELSE call[r]]
    /\ UNCHANGED <<told, file>>

Init ==
    /\ call = [r \in Requests |-> "unasked"]
    /\ told = [r \in Requests |-> <<>>]
    /\ gone = {}
    /\ file = [r \in Requests |-> "none"]

Next ==
    \/ \E r \in Requests : Ask(r) \/ Refuse(r) \/ Answer(r)
    \/ \E t \in Fetches : Lose(t) \/ Begin(t) \/ Save(t)
    \/ \E R \in SUBSET Open, answer \in {"timeout", "disconnected", "shutting_down"} :
          GiveUp(R, answer)
    \/ \E T \in SUBSET OnTheWay : Fail(T)
    \/ \E C \in SUBSET {r \in Requests : call[r] # "unasked"} :
          \E D \in SUBSET (C \cap Open) : Leave(C, D)

Spec == Init /\ [][Next]_callVars
=============================================================================
