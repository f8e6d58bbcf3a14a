-------------------------- MODULE TemporaryTabsProofs --------------------------
(***************************************************************************)
(* Proofs about TemporaryTabs, for any sessions, tabs, limits, calls and   *)
(* faults.                                                                 *)
(*                                                                         *)
(* The inductive invariant says of each place where the manager keeps a    *)
(* tab (storage, the operation under way, the calls that wait) whose it is.*)
(* Its delicate part is CallOK: the new id a waiting replaceTab brings is  *)
(* its own session's, tracked nowhere yet, and brought by no other call.   *)
(***************************************************************************)
EXTENDS TemporaryTabs, SequenceTheorems, TLAPS

\* What Chrome, the storage and the operation under way may be; the part of TypeOK that the
\* other invariants rest on.
CoreTypeOK ==
    /\ created \in 0..MaxTabs /\ open \in SUBSET (1..created)
    /\ owner \in [Tabs -> Sessions \cup {NoSession}]
    /\ stored \in [Sessions -> SUBSET Tabs]
    /\ cleanupPending \in [Sessions -> BOOLEAN]
    /\ \A s \in Sessions : cleanupPending[s] => stored[s] # {}
    /\ op \in [step : Steps, session : Sessions \cup {NoSession}, tab : Tabs \cup {NoTab},
               todo : SUBSET Tabs, rest : SUBSET Sessions]
    /\ kept \in SUBSET (1..created) /\ condemned \in SUBSET Tabs /\ lost \in SUBSET Tabs

\* The callers.
CallersTypeOK ==
    /\ resolving \in SUBSET Sessions /\ ended \in SUBSET Sessions
    /\ link \in {"connected", "lost", "asking", "authenticating"}
    /\ reported \in SUBSET Sessions /\ reconciling \in SUBSET Sessions
    /\ requests \in 0..MaxRequests /\ faults \in 0..MaxFaults

\* A tracked tab is its session's and not kept; an entry marked for cleanup had its tabs when
\* the cleanup was asked for.
StorageOK ==
    /\ \A t \in Tabs : t > created => owner[t] = NoSession
    /\ \A s \in Sessions :
          /\ \A t \in stored[s] : t <= created /\ owner[t] = s /\ t \notin kept
          /\ cleanupPending[s] => stored[s] \subseteq condemned

OperationOK ==
    /\ op.step \in {"idle", "recording", "rollback", "closed"} => op.todo = {} /\ op.rest = {}
    /\ \A t \in op.todo :
          t <= created /\ owner[t] = op.session /\ t \notin kept /\ t \in condemned
    /\ \A s \in op.rest : stored[s] \subseteq condemned
    /\ op.step \in {"recording", "rollback"} =>
          /\ op.session \in Sessions /\ op.tab \in 1..created
          /\ owner[op.tab] = op.session /\ op.tab \notin kept
    /\ op.step \in {"closed", "dropping"} => op.tab <= created /\ op.tab \notin open

CallOK(c) ==
    /\ c.kind \in {"open", "close", "keep", "cleanup"} => c.session \in Sessions
    /\ c.kind # "replace" => c.added = NoTab
    /\ c.kind \in {"forget", "replace"} => c.tab \in 1..created /\ c.tab \notin open
    /\ c.kind = "replace" =>
          /\ c.added \in 1..created /\ owner[c.added] = owner[c.tab]
          /\ c.added \in kept => c.tab \in kept
          /\ c.added \notin Tracked \cup Unrecorded

\* The ids the calls C bring, and that no two of them bring the same.
Brought(C) == {C[i].added : i \in DOMAIN C} \ {NoTab}
Distinct(C) == \A i, j \in DOMAIN C : C[i].added = C[j].added /\ C[i].added # NoTab => i = j

ChainOK ==
    /\ chain \in Seq(Calls) /\ Distinct(chain)
    /\ \A i \in DOMAIN chain : CallOK(chain[i])

IInv ==
    /\ CoreTypeOK
    /\ CallersTypeOK
    /\ StorageOK
    /\ OperationOK
    /\ ChainOK
    /\ NoTabEscapes

-----------------------------------------------------------------------------
(* The calls that wait                                                     *)

LEMMA TailOf ==
    ASSUME NEW C \in Seq(Calls), C # <<>>, Distinct(C)
    PROVE  /\ Tail(C) \in Seq(Calls) /\ Distinct(Tail(C))
           /\ Head(C) \in Calls /\ Head(C) = C[1] /\ 1 \in DOMAIN C
           /\ Brought(C) = Brought(Tail(C)) \cup ({Head(C).added} \ {NoTab})
           /\ Head(C).added \notin Brought(Tail(C))
           /\ \A i \in DOMAIN Tail(C) : i + 1 \in DOMAIN C /\ Tail(C)[i] = C[i + 1]
<1>1. /\ Tail(C) \in Seq(Calls) /\ Head(C) \in Calls /\ Head(C) = C[1]
      /\ Len(C) \in Nat \ {0} /\ DOMAIN C = 1..Len(C)
      /\ DOMAIN Tail(C) = 1..(Len(C) - 1)
      /\ \A i \in 1..(Len(C) - 1) : Tail(C)[i] = C[i + 1]
  BY HeadTailProperties, EmptySeq, LenProperties
<1>2. \A i \in DOMAIN Tail(C) : i \in Nat /\ i + 1 # 1 /\ i + 1 \in DOMAIN C /\ Tail(C)[i] = C[i + 1]
  BY <1>1
<1>3. 1 \in DOMAIN C /\ \A j \in DOMAIN C : j = 1 \/ (j - 1 \in DOMAIN Tail(C) /\ C[j] = Tail(C)[j - 1])
  BY <1>1
<1>4. Distinct(Tail(C))
  BY <1>2 DEF Distinct
<1>5. Brought(C) = Brought(Tail(C)) \cup ({Head(C).added} \ {NoTab})
  <2>1. ASSUME NEW x \in Brought(C)
        PROVE  x \in Brought(Tail(C)) \cup ({Head(C).added} \ {NoTab})
    <3>1. PICK j \in DOMAIN C : x = C[j].added /\ x # NoTab
      BY <2>1 DEF Brought
    <3>2. CASE j = 1
      BY <1>1, <3>1, <3>2
    <3>3. CASE j # 1
      BY <1>3, <3>1, <3>3 DEF Brought
    <3>4. QED
      BY <3>2, <3>3
  <2>2. ASSUME NEW x \in Brought(Tail(C)) \cup ({Head(C).added} \ {NoTab})
        PROVE  x \in Brought(C)
    BY <1>1, <1>2, <1>3, <2>2 DEF Brought
  <2>3. QED
    BY <2>1, <2>2
<1>6. Head(C).added \notin Brought(Tail(C))
  <2>1. SUFFICES ASSUME Head(C).added \in Brought(Tail(C)) PROVE FALSE
    OBVIOUS
  <2>2. PICK i \in DOMAIN Tail(C) : Tail(C)[i].added = Head(C).added /\ Head(C).added # NoTab
    BY <2>1 DEF Brought
  <2>3. C[i + 1].added = C[1].added /\ C[1].added # NoTab /\ i + 1 \in DOMAIN C
    BY <1>1, <1>2, <2>2
  <2>4. i + 1 = 1
    BY <1>3, <2>3 DEF Distinct
  <2>5. QED
    BY <1>2, <2>4
<1>7. QED
  BY <1>1, <1>2, <1>3, <1>4, <1>5, <1>6

LEMMA AppendOf ==
    ASSUME NEW C \in Seq(Calls), Distinct(C), NEW d \in Calls, d.added \notin Brought(C)
    PROVE  /\ Append(C, d) \in Seq(Calls) /\ Distinct(Append(C, d))
           /\ Brought(Append(C, d)) = Brought(C) \cup ({d.added} \ {NoTab})
           /\ \A i \in DOMAIN Append(C, d) :
                 Append(C, d)[i] = d \/ (i \in DOMAIN C /\ Append(C, d)[i] = C[i])
<1>1. /\ Append(C, d) \in Seq(Calls) /\ Len(C) \in Nat /\ DOMAIN C = 1..Len(C)
      /\ DOMAIN Append(C, d) = 1..(Len(C) + 1)
      /\ \A i \in 1..Len(C) : Append(C, d)[i] = C[i]
      /\ Append(C, d)[Len(C) + 1] = d
  BY AppendProperties, LenProperties
<1>2. /\ \A i \in DOMAIN Append(C, d) :
            \/ i = Len(C) + 1 /\ Append(C, d)[i] = d
            \/ i \in DOMAIN C /\ Append(C, d)[i] = C[i]
      /\ \A i \in DOMAIN C : i \in DOMAIN Append(C, d) /\ Append(C, d)[i] = C[i]
      /\ Len(C) + 1 \in DOMAIN Append(C, d)
  BY <1>1
<1>3. \A i \in DOMAIN C : C[i].added # NoTab => C[i].added # d.added
  BY DEF Brought
<1>4. Distinct(Append(C, d))
  <2>1. ASSUME NEW i \in DOMAIN Append(C, d), NEW j \in DOMAIN Append(C, d),
               Append(C, d)[i].added = Append(C, d)[j].added, Append(C, d)[i].added # NoTab
        PROVE  i = j
    BY <1>2, <1>3, <2>1 DEF Distinct
  <2>2. QED
    BY <2>1 DEF Distinct
<1>5. Brought(Append(C, d)) = Brought(C) \cup ({d.added} \ {NoTab})
  <2>1. ASSUME NEW x \in Brought(Append(C, d))
        PROVE  x \in Brought(C) \cup ({d.added} \ {NoTab})
    BY <1>2, <2>1 DEF Brought
  <2>2. ASSUME NEW x \in Brought(C) \cup ({d.added} \ {NoTab})
        PROVE  x \in Brought(Append(C, d))
    BY <1>1, <1>2, <2>2 DEF Brought
  <2>3. QED
    BY <2>1, <2>2
<1>6. QED
  BY <1>1, <1>2, <1>4, <1>5

\* One call may have had its turn, and one may have come.
LEMMA ChainKeeps ==
    ASSUME ChainOK, NEW C \in Seq(Calls), Distinct(C), \A i \in DOMAIN C : CallOK(C[i])',
           \/ chain' = C
           \/ \E d \in Calls : d.added \notin Brought(C) /\ CallOK(d)' /\ chain' = Append(C, d)
    PROVE  ChainOK' /\ Brought(C) \subseteq Replacing'
<1>1. Replacing' = Brought(chain')
  BY DEF Replacing, Brought
<1>2. CASE chain' = C
  BY <1>1, <1>2 DEF ChainOK
<1>3. ASSUME NEW d \in Calls, d.added \notin Brought(C), CallOK(d)', chain' = Append(C, d)
      PROVE  ChainOK' /\ Brought(C) \subseteq Replacing'
  <2>1. /\ chain' \in Seq(Calls) /\ Distinct(chain') /\ Brought(C) \subseteq Brought(chain')
        /\ \A i \in DOMAIN chain' : chain'[i] = d \/ (i \in DOMAIN C /\ chain'[i] = C[i])
    BY <1>3, AppendOf
  <2>2. ASSUME NEW i \in DOMAIN chain'
        PROVE  CallOK(chain[i])'
    <3>1. CASE chain'[i] = d
      BY <1>3, <3>1 DEF CallOK
    <3>2. CASE i \in DOMAIN C /\ chain'[i] = C[i]
      <4>1. CallOK(C[i])'
        BY <3>2
      <4>2. QED
        BY <3>2, <4>1 DEF CallOK
    <3>3. QED
      BY <2>1, <3>1, <3>2
  <2>3. QED
    BY <1>1, <2>1, <2>2 DEF ChainOK
<1>4. QED
  BY <1>2, <1>3

\* What Chrome and the manager may do to the tabs without a waiting call being wronged.
Gentle ==
    /\ created <= created' /\ created' \in 0..MaxTabs
    /\ \A t \in open' : t \in open \/ t > created
    /\ \A t \in 1..created : owner'[t] = owner[t]
    /\ kept \subseteq kept'
    /\ \A t \in kept' : t \in kept \/ t \in Tracked \/ t > created
    /\ \A t \in (Tracked \cup Unrecorded)' : t \in Tracked \cup Unrecorded \/ t > created

LEMMA CallsStay ==
    ASSUME CoreTypeOK, Gentle, NEW c \in Calls, CallOK(c)
    PROVE  CallOK(c)'
<1>1. created \in Nat /\ created' \in Nat /\ MaxTabs \in Nat
  BY TabsAssumption DEF CoreTypeOK, Gentle
<1>2. c.kind \in {"forget", "replace"} => c.tab \in 1..created' /\ c.tab \notin open'
  BY <1>1 DEF CallOK, Gentle
<1>3. c.kind = "replace" =>
         /\ c.added \in 1..created' /\ owner'[c.added] = owner'[c.tab]
         /\ c.added \in kept' => c.tab \in kept'
         /\ c.added \notin (Tracked \cup Unrecorded)'
  BY <1>1 DEF CallOK, Gentle
<1>4. QED
  BY <1>2, <1>3 DEF CallOK

LEMMA NotifiedIs ==
    ASSUME NEW t, NEW C
    PROVE  \/ Notified(t, C) = C
           \/ t \in open /\ Notified(t, C) = Append(C, Call("forget", NoSession, t, NoTab))
BY DEF Notified

LEMMA CallFields ==
    ASSUME NEW k, NEW s, NEW t, NEW u
    PROVE  /\ Call(k, s, t, u).kind = k /\ Call(k, s, t, u).session = s
           /\ Call(k, s, t, u).tab = t /\ Call(k, s, t, u).added = u
           /\ k \in Kinds /\ s \in Sessions \cup {NoSession} /\ t \in Tabs \cup {NoTab}
                 /\ u \in Tabs \cup {NoTab} => Call(k, s, t, u) \in Calls
BY DEF Call, Calls

LEMMA AtFields ==
    ASSUME NEW p, NEW s, NEW t, NEW x, NEW y
    PROVE  /\ At(p, s, t, x, y).step = p /\ At(p, s, t, x, y).session = s
           /\ At(p, s, t, x, y).tab = t /\ At(p, s, t, x, y).todo = x
           /\ At(p, s, t, x, y).rest = y
           /\ p \in Steps /\ s \in Sessions \cup {NoSession} /\ t \in Tabs \cup {NoTab}
                 /\ x \in SUBSET Tabs /\ y \in SUBSET Sessions =>
              At(p, s, t, x, y) \in [step : Steps, session : Sessions \cup {NoSession},
                                     tab : Tabs \cup {NoTab}, todo : SUBSET Tabs,
                                     rest : SUBSET Sessions]
BY DEF At

LEMMA Waiting ==
    ASSUME IInv, Gentle, NEW C,
           \/ C = chain
           \/ chain # <<>> /\ C = Tail(chain) /\ Head(chain).kind # "replace",
           \/ chain' = C
           \/ \E d \in Calls : d.added = NoTab /\ CallOK(d)' /\ chain' = Append(C, d)
    PROVE  ChainOK' /\ Replacing \subseteq Replacing'
<1>1. Replacing = Brought(chain)
  BY DEF Replacing, Brought
<1>2. /\ C \in Seq(Calls) /\ Distinct(C) /\ \A i \in DOMAIN C : C[i] \in Calls /\ CallOK(C[i])
      /\ Brought(C) = Brought(chain)
  <2>1. CASE C = chain
    <3>1. \A i \in DOMAIN chain : chain[i] \in Calls
      BY ElementOfSeq, LenProperties DEF IInv, ChainOK
    <3>2. QED
      BY <2>1, <3>1 DEF IInv, ChainOK
  <2>2. CASE chain # <<>> /\ C = Tail(chain) /\ Head(chain).kind # "replace"
    <3>1. /\ C \in Seq(Calls) /\ Distinct(C) /\ Head(chain) = chain[1] /\ 1 \in DOMAIN chain
          /\ Brought(chain) = Brought(C) \cup ({Head(chain).added} \ {NoTab})
          /\ \A i \in DOMAIN C : i + 1 \in DOMAIN chain /\ C[i] = chain[i + 1]
      BY <2>2, TailOf DEF IInv, ChainOK
    <3>2. Head(chain).added = NoTab
      BY <2>2, <3>1 DEF IInv, ChainOK, CallOK
    <3>3. \A i \in DOMAIN C : CallOK(C[i])
      BY <3>1 DEF IInv, ChainOK
    <3>4. \A i \in DOMAIN C : C[i] \in Calls
      BY <3>1, ElementOfSeq, LenProperties
    <3>5. QED
      BY <3>1, <3>2, <3>3, <3>4
  <2>3. QED
    BY <2>1, <2>2
<1>3. \A i \in DOMAIN C : CallOK(C[i])'
  BY <1>2, CallsStay DEF IInv
<1>4. NoTab \notin Brought(C)
  BY DEF Brought
<1>5. \/ chain' = C
      \/ \E d \in Calls : d.added \notin Brought(C) /\ CallOK(d)' /\ chain' = Append(C, d)
  BY <1>4
<1>6. ChainOK
  BY DEF IInv
<1>7. ChainOK' /\ Brought(C) \subseteq Replacing'
  BY <1>2, <1>3, <1>5, <1>6, ChainKeeps
<1>8. QED
  BY <1>1, <1>2, <1>7

\* ... when Chrome has reported that a tab is gone.
LEMMA WaitingNotified ==
    ASSUME IInv, Gentle, NEW C, NEW t,
           \/ C = chain
           \/ chain # <<>> /\ C = Tail(chain) /\ Head(chain).kind # "replace",
           chain' = Notified(t, C), t \notin open'
    PROVE  ChainOK' /\ Replacing \subseteq Replacing'
<1>1. CASE chain' = C
  BY <1>1, Waiting
<1>2. CASE t \in open /\ chain' = Append(C, Call("forget", NoSession, t, NoTab))
  <2>1. PICK d : d = Call("forget", NoSession, t, NoTab)
    OBVIOUS
  <2>2. t \in 1..created /\ t \in Tabs /\ t \in 1..created'
    BY <1>2, TabsAssumption DEF IInv, CoreTypeOK, Gentle, Tabs
  <2>3. /\ d.kind = "forget" /\ d.tab = t /\ d.added = NoTab /\ d \in Calls
    BY <2>1, <2>2, CallFields DEF Kinds
  <2>4. CallOK(d)'
    BY <2>2, <2>3 DEF CallOK
  <2>5. QED
    BY <1>2, <2>1, <2>3, <2>4, Waiting
<1>3. QED
  BY <1>1, <1>2, NotifiedIs

\* A step that leaves the callers alone, or is a fault.
LEMMA CallersStay ==
    ASSUME IInv, UNCHANGED sessionVars,
           UNCHANGED countVars \/ (Fault /\ UNCHANGED requests)
    PROVE  CallersTypeOK'
BY TabsAssumption DEF IInv, CallersTypeOK, sessionVars, linkVars, countVars, Fault

-----------------------------------------------------------------------------
(* The callers                                                             *)

\* What touches neither Chrome nor the storage only schedules a call, or takes one that does
\* nothing off the chain.
LEMMA CallerKeeps ==
    ASSUME IInv, CallersTypeOK', UNCHANGED <<chromeVars, kept, condemned, storageVars, op>>,
           lost \subseteq lost', lost' \in SUBSET Tabs, ChainOK',
           Replacing \subseteq Replacing' \cup lost'
    PROVE  IInv'
<1> USE DEF chromeVars, storageVars
<1>1. CoreTypeOK' /\ StorageOK' /\ OperationOK'
  BY DEF IInv, CoreTypeOK, StorageOK, OperationOK
<1>2. NoTabEscapes'
  BY DEF IInv, NoTabEscapes, Unrecorded
<1>3. QED
  BY <1>1, <1>2 DEF IInv

LEMMA StillGentle ==
    ASSUME IInv, UNCHANGED <<chromeVars, kept, storageVars, op>>
    PROVE  Gentle
BY DEF IInv, CoreTypeOK, Gentle, chromeVars, storageVars, Tracked, Unrecorded

LEMMA SchedulingKeeps ==
    ASSUME IInv, \/ \E s \in Sessions : \/ NewTab(s) \/ NewTabOpens(s) \/ TabTool(s)
                                        \/ SessionCloses(s) \/ Reconcile(s)
                 \/ Disconnects \/ Reconnects \/ CollectionTimesOut \/ Authenticated \/ Alarm
    PROVE  IInv'
<1> USE TabsAssumption
<1>1. UNCHANGED <<chromeVars, historyVars, storageVars, op>>
  BY DEF NewTab, NewTabOpens, TabTool, SessionCloses, Reconcile, Disconnects, Reconnects,
         CollectionTimesOut, Authenticated, Alarm
<1>2. CallersTypeOK'
  BY DEF NewTab, NewTabOpens, TabTool, SessionCloses, Reconcile, Disconnects, Reconnects,
         CollectionTimesOut, Authenticated, Alarm, Request, Fault, IInv, CallersTypeOK,
         sessionVars, linkVars, countVars
<1>3. \/ chain' = chain
      \/ \E kind \in {"open", "cleanup"}, s \in Sessions :
            chain' = Append(chain, Call(kind, s, NoTab, NoTab))
      \/ \E kind \in {"close", "keep"}, s \in Sessions, t \in open :
            chain' = Append(chain, Call(kind, s, t, NoTab))
      \/ \E kind \in {"list", "retry"} :
            chain' = Append(chain, Call(kind, NoSession, NoTab, NoTab))
  BY DEF NewTab, NewTabOpens, TabTool, SessionCloses, Reconcile, Disconnects, Reconnects,
         CollectionTimesOut, Authenticated, Alarm
<1>4. \/ chain' = chain
      \/ \E d \in Calls : d.added = NoTab /\ CallOK(d)' /\ chain' = Append(chain, d)
  <2>1. ASSUME NEW kind \in {"open", "close", "keep", "cleanup", "list", "retry"},
               NEW s \in Sessions \cup {NoSession}, NEW t \in Tabs \cup {NoTab},
               kind \in {"list", "retry"} \/ s \in Sessions,
               chain' = Append(chain, Call(kind, s, t, NoTab))
        PROVE  \E d \in Calls : d.added = NoTab /\ CallOK(d)' /\ chain' = Append(chain, d)
    <3>1. PICK d : d = Call(kind, s, t, NoTab)
      OBVIOUS
    <3>2. d \in Calls /\ d.kind = kind /\ d.session = s /\ d.added = NoTab
      BY <3>1, CallFields DEF Kinds
    <3>3. CallOK(d)'
      BY <2>1, <3>2 DEF CallOK
    <3>4. QED
      BY <2>1, <3>1, <3>2, <3>3
  <2>2. open \subseteq Tabs
    BY DEF IInv, CoreTypeOK, Tabs
  <2>3. QED
    BY <1>3, <2>1, <2>2
<1>5. ChainOK' /\ Replacing \subseteq Replacing'
  <2>1. Gentle
    BY <1>1, StillGentle DEF historyVars
  <2>2. PICK C : C = chain
    OBVIOUS
  <2>3. QED
    BY <1>4, <2>1, <2>2, Waiting
<1>6. lost' \in SUBSET Tabs /\ lost' = lost
  BY <1>1 DEF IInv, CoreTypeOK, historyVars
<1>7. QED
  BY <1>1, <1>2, <1>5, <1>6, CallerKeeps DEF historyVars

\* A call that is refused, only reads, or fails at its first await.
LEMMA TurnTakenKeeps ==
    ASSUME IInv, OpenRefused \/ TrackedSessionIds \/ CallFails
    PROVE  IInv'
<1> USE TabsAssumption
<1>1. /\ chain # <<>> /\ chain' = Tail(chain)
      /\ UNCHANGED <<chromeVars, kept, condemned, storageVars, op>>
      /\ \/ lost' = lost /\ Head(chain).kind # "replace"
         \/ lost' = lost \cup ({Head(chain).added} \ {NoTab})
  BY DEF OpenRefused, TrackedSessionIds, CallFails, Turn, historyVars
<1>2. CallersTypeOK'
  <2>1. CASE OpenRefused \/ CallFails
    BY <2>1, CallersStay DEF OpenRefused, CallFails, sessionVars, countVars
  <2>2. CASE TrackedSessionIds
    BY <2>2 DEF TrackedSessionIds, IInv, CallersTypeOK, linkVars, countVars
  <2>3. QED
    BY <2>1, <2>2
<1>3. PICK C : C = Tail(chain)
  OBVIOUS
<1>4. /\ C \in Seq(Calls) /\ Distinct(C) /\ Head(chain) \in Calls
      /\ Brought(chain) = Brought(C) \cup ({Head(chain).added} \ {NoTab})
      /\ Head(chain) = chain[1] /\ 1 \in DOMAIN chain
      /\ \A i \in DOMAIN C : i + 1 \in DOMAIN chain /\ C[i] = chain[i + 1]
  BY <1>1, <1>3, TailOf DEF IInv, ChainOK
<1>5. Gentle
  BY <1>1, StillGentle
<1>6. ChainOK' /\ Brought(C) \subseteq Replacing'
  <2>1. \A i \in DOMAIN C : C[i] \in Calls /\ CallOK(C[i])
    BY <1>4, ElementOfSeq, LenProperties DEF IInv, ChainOK
  <2>2. \A i \in DOMAIN C : CallOK(C[i])'
    BY <1>5, <2>1, CallsStay DEF IInv
  <2>3. ChainOK
    BY DEF IInv
  <2>4. QED
    BY <1>1, <1>3, <1>4, <2>2, <2>3, ChainKeeps
<1>7. Head(chain).added \in Tabs \cup {NoTab}
      /\ (Head(chain).kind # "replace" => Head(chain).added = NoTab)
  BY <1>4 DEF Calls, IInv, ChainOK, CallOK
<1>8. lost \subseteq lost' /\ lost' \in SUBSET Tabs /\ Replacing \subseteq Replacing' \cup lost'
  <2>1. Replacing = Brought(chain)
    BY DEF Replacing, Brought
  <2>2. lost \in SUBSET Tabs
    BY DEF IInv, CoreTypeOK
  <2>3. QED
    BY <1>1, <1>4, <1>6, <1>7, <2>1, <2>2
<1>9. QED
  BY <1>1, <1>2, <1>6, <1>8, CallerKeeps

-----------------------------------------------------------------------------
(* open                                                                    *)

\* The call at the head of the chain, when it has its turn.
LEMMA TurnIs ==
    ASSUME IInv, NEW kind, Turn(kind)
    PROVE  /\ chain # <<>> /\ op = Idle /\ Head(chain) \in Calls
           /\ Head(chain).kind = kind /\ CallOK(Head(chain))
           /\ Unrecorded = {} /\ op.todo = {} /\ op.rest = {} /\ op.step = "idle"
<1>1. chain # <<>> /\ op = Idle /\ Head(chain).kind = kind
  BY DEF Turn
<1>2. Head(chain) \in Calls /\ Head(chain) = chain[1] /\ 1 \in DOMAIN chain
  BY <1>1, TailOf DEF IInv, ChainOK
<1>3. op.step = "idle" /\ op.todo = {} /\ op.rest = {}
  BY <1>1 DEF Idle, At
<1>4. QED
  BY <1>1, <1>2, <1>3 DEF IInv, ChainOK, Unrecorded

LEMMA OpenCreatesKeeps ==
    ASSUME IInv, OpenCreates
    PROVE  IInv'
<1> USE TabsAssumption
<1>1. PICK s, t, C : s = Head(chain).session /\ t = created + 1 /\ C = Tail(chain)
  OBVIOUS
<1>2. /\ Turn("open") /\ created < MaxTabs
      /\ created' = t /\ open' = open \cup {t} /\ owner' = [owner EXCEPT ![t] = s]
      /\ chain' = C /\ op' = At("recording", s, t, {}, {})
      /\ UNCHANGED <<kept, condemned, lost, storageVars, sessionVars, countVars>>
  BY <1>1 DEF OpenCreates, historyVars
<1>3. /\ chain # <<>> /\ Head(chain).kind = "open" /\ s \in Sessions /\ Unrecorded = {}
  BY <1>1, <1>2, TurnIs DEF CallOK
<1>4. /\ created \in Nat /\ t \in Tabs /\ t > created /\ MaxTabs \in Nat
      /\ \A x \in Tabs : owner'[x] = IF x = t THEN s ELSE owner[x]
  BY <1>1, <1>2 DEF IInv, CoreTypeOK, Tabs
<1>5. /\ op'.step = "recording" /\ op'.session = s /\ op'.tab = t /\ op'.todo = {}
      /\ op'.rest = {} /\ Unrecorded' = {t}
      /\ op' \in [step : Steps, session : Sessions \cup {NoSession}, tab : Tabs \cup {NoTab},
                  todo : SUBSET Tabs, rest : SUBSET Sessions]
  <2>1. op'.step = "recording" /\ op'.session = s /\ op'.tab = t /\ op'.todo = {} /\ op'.rest = {}
    BY <1>2, AtFields
  <2>2. At("recording", s, t, {}, {}) \in
           [step : Steps, session : Sessions \cup {NoSession}, tab : Tabs \cup {NoTab},
            todo : SUBSET Tabs, rest : SUBSET Sessions]
    BY <1>3, <1>4, AtFields, {} \in SUBSET Tabs, {} \in SUBSET Sessions DEF Steps
  <2>3. QED
    BY <1>2, <2>1, <2>2 DEF Unrecorded
<1>6. Tracked' = Tracked /\ stored' = stored /\ cleanupPending' = cleanupPending
  BY <1>2 DEF storageVars, Tracked
<1>7. CoreTypeOK'
  <2>1. /\ created \in 0..MaxTabs /\ open \in SUBSET (1..created)
        /\ owner \in [Tabs -> Sessions \cup {NoSession}] /\ kept \in SUBSET (1..created)
    BY DEF IInv, CoreTypeOK
  <2>2. created' \in 0..MaxTabs /\ 1..created \subseteq 1..created' /\ t \in 1..created'
    BY <1>1, <1>2, <1>4
  <2>3. open' \in SUBSET (1..created') /\ kept' \in SUBSET (1..created')
    BY <1>2, <2>1, <2>2
  <2>4. owner' \in [Tabs -> Sessions \cup {NoSession}]
    BY <1>2, <1>3, <2>1
  <2>5. QED
    BY <1>2, <1>5, <1>6, <2>2, <2>3, <2>4 DEF IInv, CoreTypeOK
<1>8. CallersTypeOK'
  BY <1>2, CallersStay
<1>9. \A x \in 1..created : x \in Tabs /\ owner'[x] = owner[x]
  BY <1>4 DEF IInv, CoreTypeOK, Tabs
<1>10. Gentle
  <2>1. created <= created' /\ created' \in 0..MaxTabs /\ kept' = kept
    BY <1>1, <1>2, <1>4
  <2>2. \A x \in open' : x \in open \/ x > created
    BY <1>2, <1>4
  <2>3. \A x \in (Tracked \cup Unrecorded)' : x \in Tracked \cup Unrecorded \/ x > created
    BY <1>4, <1>5, <1>6
  <2>4. QED
    BY <1>9, <2>1, <2>2, <2>3 DEF Gentle
<1>11. StorageOK'
  <2>1. \A x \in Tabs : x > created' => owner'[x] = NoSession
    BY <1>1, <1>2, <1>4 DEF IInv, StorageOK, Tabs
  <2>2. ASSUME NEW x \in Sessions, NEW y \in stored[x]
        PROVE  y <= created' /\ owner'[y] = x /\ y \notin kept'
    <3>1. y \in Tabs /\ y <= created /\ owner[y] = x /\ y \notin kept
      BY <2>2 DEF IInv, CoreTypeOK, StorageOK
    <3>2. QED
      BY <1>1, <1>2, <1>4, <3>1 DEF Tabs
  <2>3. QED
    BY <1>2, <1>6, <2>1, <2>2 DEF IInv, StorageOK
<1>12. OperationOK'
  <2>1. t \notin kept /\ t \in 1..created'
    BY <1>1, <1>2, <1>4 DEF IInv, CoreTypeOK
  <2>2. QED
    BY <1>2, <1>3, <1>4, <1>5, <2>1 DEF OperationOK
<1>13. ChainOK' /\ Replacing \subseteq Replacing'
  BY <1>1, <1>2, <1>3, <1>10, Waiting
<1>14. NoTabEscapes'
  <2>1. ASSUME NEW x \in open', x \notin kept', x \notin lost', owner'[x] # NoSession
        PROVE  x \in stored'[owner'[x]] \/ x \in Unrecorded' \/ x \in Replacing'
    <3>1. CASE x = t
      BY <1>5, <3>1
    <3>2. CASE x # t
      <4>1. x \in open /\ owner'[x] = owner[x]
        BY <1>2, <1>9, <2>1, <3>2 DEF IInv, CoreTypeOK
      <4>2. QED
        BY <1>2, <1>3, <1>6, <1>13, <2>1, <4>1 DEF IInv, NoTabEscapes
    <3>3. QED
      BY <3>1, <3>2
  <2>2. QED
    BY <2>1 DEF NoTabEscapes
<1>15. QED
  BY <1>7, <1>8, <1>11, <1>12, <1>13, <1>14 DEF IInv

LEMMA OpenRecordsKeeps ==
    ASSUME IInv, OpenRecords
    PROVE  IInv'
<1> USE TabsAssumption
<1>1. PICK s, t : s = op.session /\ t = op.tab
  OBVIOUS
<1>2. /\ op.step = "recording" /\ stored' = [stored EXCEPT ![s] = @ \cup {t}]
      /\ cleanupPending' = [cleanupPending EXCEPT ![s] = FALSE] /\ op' = Idle
      /\ UNCHANGED <<created, open, owner, kept, condemned, lost, chain, sessionVars, countVars>>
  BY <1>1 DEF OpenRecords, PendingAfterOpen, chromeVars, historyVars
<1>3. /\ s \in Sessions /\ t \in 1..created /\ t \in Tabs /\ owner[t] = s /\ t \notin kept
      /\ Unrecorded = {t}
  BY <1>1, <1>2 DEF IInv, OperationOK, CoreTypeOK, Tabs, Unrecorded
<1>4. /\ op'.step = "idle" /\ op'.todo = {} /\ op'.rest = {} /\ Unrecorded' = {}
      /\ op' \in [step : Steps, session : Sessions \cup {NoSession}, tab : Tabs \cup {NoTab},
                  todo : SUBSET Tabs, rest : SUBSET Sessions]
  BY <1>2 DEF Idle, At, Unrecorded, Steps
<1>5. \A x \in Sessions : /\ stored'[x] = IF x = s THEN stored[s] \cup {t} ELSE stored[x]
                          /\ cleanupPending'[x] <=> x # s /\ cleanupPending[x]
  BY <1>2 DEF IInv, CoreTypeOK
<1>6. Tracked' = Tracked \cup {t}
  <2>1. ASSUME NEW x \in Tracked'
        PROVE  x \in Tracked \cup {t}
    BY <1>5, <2>1 DEF Tracked
  <2>2. ASSUME NEW x \in Tracked \cup {t}
        PROVE  x \in Tracked'
    BY <1>3, <1>5, <2>2 DEF Tracked
  <2>3. QED
    BY <2>1, <2>2
<1>7. CoreTypeOK'
  <2>1. stored' \in [Sessions -> SUBSET Tabs] /\ cleanupPending' \in [Sessions -> BOOLEAN]
    BY <1>2, <1>3 DEF IInv, CoreTypeOK
  <2>2. \A x \in Sessions : cleanupPending'[x] => stored'[x] # {}
    BY <1>5 DEF IInv, CoreTypeOK
  <2>3. QED
    BY <1>2, <1>4, <2>1, <2>2 DEF IInv, CoreTypeOK
<1>8. CallersTypeOK'
  BY <1>2, CallersStay
<1>9. Gentle
  BY <1>2, <1>3, <1>4, <1>6 DEF IInv, CoreTypeOK, Gentle
<1>10. ChainOK' /\ Replacing \subseteq Replacing'
  <2>1. PICK C : C = chain
    OBVIOUS
  <2>2. QED
    BY <1>2, <1>9, <2>1, Waiting
<1>11. StorageOK' /\ OperationOK'
  BY <1>2, <1>3, <1>4, <1>5 DEF IInv, StorageOK, OperationOK
<1>12. NoTabEscapes'
  <2>1. \A x \in open : owner[x] \in Sessions \cup {NoSession}
    <3>1. open \subseteq Tabs
      BY DEF IInv, CoreTypeOK, Tabs
    <3>2. QED
      BY <3>1 DEF IInv, CoreTypeOK
  <2>2. QED
    BY <1>2, <1>3, <1>5, <1>10, <2>1 DEF IInv, NoTabEscapes
<1>13. QED
  BY <1>7, <1>8, <1>10, <1>11, <1>12 DEF IInv

\* The operation under way gives up or goes back, tabs may be closed or lost, and the storage
\* is as it was.
LEMMA OperationMovesKeeps ==
    ASSUME IInv, CallersTypeOK', CoreTypeOK', OperationOK', ChainOK',
           UNCHANGED <<created, owner, kept, stored, cleanupPending>>,
           open' \subseteq open, condemned \subseteq condemned', lost \subseteq lost',
           Replacing \subseteq Replacing',
           \A t \in Unrecorded \cap open' : t \in Unrecorded' \cup lost'
    PROVE  IInv'
<1>1. StorageOK'
  BY DEF IInv, StorageOK
<1>2. NoTabEscapes'
  BY DEF IInv, NoTabEscapes
<1>3. QED
  BY <1>1, <1>2 DEF IInv

LEMMA OpenFailsKeeps ==
    ASSUME IInv, OpenRecordFails \/ OpenRollsBack \/ OpenRollbackFails
    PROVE  IInv'
<1> USE TabsAssumption
<1>1. PICK t, C : t = op.tab /\ C = chain
  OBVIOUS
<1>2. /\ op.step \in {"recording", "rollback"} /\ op.todo = {} /\ op.rest = {}
      /\ op.session \in Sessions /\ t \in 1..created /\ t \in Tabs /\ owner[t] = op.session
      /\ t \notin kept /\ Unrecorded = {t}
  BY <1>1 DEF OpenRecordFails, OpenRollsBack, OpenRollbackFails, IInv, OperationOK, CoreTypeOK,
              Tabs, Unrecorded
<1>3. /\ UNCHANGED <<created, owner, kept, stored, cleanupPending, condemned, sessionVars>>
      /\ UNCHANGED countVars \/ (Fault /\ UNCHANGED requests)
  BY DEF OpenRecordFails, OpenRollsBack, OpenRollbackFails, chromeVars, historyVars, storageVars
<1>4. CallersTypeOK'
  BY <1>3, CallersStay
<1>5. Tracked' = Tracked
  BY <1>3 DEF Tracked
<1>6. CASE OpenRecordFails
  <2>1. op' = [op EXCEPT !.step = "rollback"] /\ UNCHANGED <<open, chain, lost>>
    BY <1>6 DEF OpenRecordFails, AfterFailedRecord, chromeVars, historyVars
  <2>2. /\ op'.step = "rollback" /\ op'.session = op.session /\ op'.tab = op.tab
        /\ op'.todo = {} /\ op'.rest = {} /\ Unrecorded' = {t}
        /\ op' \in [step : Steps, session : Sessions \cup {NoSession}, tab : Tabs \cup {NoTab},
                    todo : SUBSET Tabs, rest : SUBSET Sessions]
    BY <1>1, <1>2, <2>1 DEF IInv, CoreTypeOK, Steps, Unrecorded
  <2>3. CoreTypeOK' /\ OperationOK'
    BY <1>1, <1>2, <1>3, <2>1, <2>2 DEF IInv, CoreTypeOK, OperationOK
  <2>4. Gentle
    BY <1>2, <1>3, <1>5, <2>1, <2>2 DEF IInv, CoreTypeOK, Gentle
  <2>5. ChainOK' /\ Replacing \subseteq Replacing'
    BY <1>1, <2>1, <2>4, Waiting
  <2>6. QED
    BY <1>2, <1>3, <1>4, <2>1, <2>2, <2>3, <2>5, OperationMovesKeeps
<1>7. CASE OpenRollsBack \/ OpenRollbackFails
  <2>1. /\ op' = Idle
        /\ \/ open' = open \ {t} /\ chain' = Notified(t, C) /\ lost' = lost
           \/ open' = open /\ chain' = chain /\ lost' = lost \cup {t}
    BY <1>1, <1>7 DEF OpenRollsBack, OpenRollbackFails, chromeVars, historyVars
  <2>2. /\ op'.step = "idle" /\ op'.todo = {} /\ op'.rest = {} /\ Unrecorded' = {}
        /\ op' \in [step : Steps, session : Sessions \cup {NoSession}, tab : Tabs \cup {NoTab},
                    todo : SUBSET Tabs, rest : SUBSET Sessions]
    BY <2>1 DEF Idle, At, Unrecorded, Steps
  <2>3. CoreTypeOK' /\ OperationOK'
    BY <1>2, <1>3, <2>1, <2>2 DEF IInv, CoreTypeOK, OperationOK
  <2>4. Gentle
    BY <1>3, <1>5, <2>1, <2>2 DEF IInv, CoreTypeOK, Gentle
  <2>5. ChainOK' /\ Replacing \subseteq Replacing'
    <3>1. CASE chain' = C
      BY <1>1, <2>4, <3>1, Waiting
    <3>2. ASSUME chain' = Notified(t, C), t \notin open'
          PROVE  ChainOK' /\ Replacing \subseteq Replacing'
      <4>1. C = chain
        BY <1>1
      <4>2. QED
        BY <2>4, <3>2, <4>1, WaitingNotified
    <3>3. QED
      BY <1>1, <2>1, <3>1, <3>2
  <2>6. QED
    BY <1>2, <1>3, <1>4, <2>1, <2>2, <2>3, <2>5, OperationMovesKeeps
<1>8. QED
  BY <1>6, <1>7

-----------------------------------------------------------------------------
(* Where an operation goes on, and what it forgets                         *)

Operations == [step : Steps, session : Sessions \cup {NoSession}, tab : Tabs \cup {NoTab},
               todo : SUBSET Tabs, rest : SUBSET Sessions]

LEMMA IdleIs ==
    ASSUME op' = Idle
    PROVE  OperationOK' /\ op' \in Operations /\ Unrecorded' = {}
BY DEF Idle, At, Operations, OperationOK, Unrecorded, Steps

LEMMA CleaningIs ==
    ASSUME NEW s \in Sessions \cup {NoSession}, NEW todo \in SUBSET Tabs,
           NEW rest \in SUBSET Sessions, op' = Cleaning(s, todo, rest),
           \A t \in todo : t <= created' /\ owner'[t] = s /\ t \notin kept' /\ t \in condemned',
           \A x \in rest : stored'[x] \subseteq condemned'
    PROVE  OperationOK' /\ op' \in Operations /\ Unrecorded' = {}
<1>1. CASE todo # {}
  <2>1. op' = At("cleaning", s, NoTab, todo, rest)
    BY <1>1 DEF Cleaning
  <2>2. op'.step = "cleaning" /\ op'.session = s /\ op'.todo = todo /\ op'.rest = rest
    BY <2>1, AtFields
  <2>3. op' \in Operations
    BY <2>1, AtFields DEF Steps, Operations
  <2>4. QED
    BY <2>2, <2>3 DEF OperationOK, Unrecorded
<1>2. CASE todo = {} /\ rest # {}
  <2>1. op' = At("retrying", NoSession, NoTab, {}, rest)
    BY <1>2 DEF Cleaning
  <2>2. op'.step = "retrying" /\ op'.todo = {} /\ op'.rest = rest
    BY <2>1, AtFields
  <2>3. op' \in Operations
    BY <2>1, AtFields, {} \in SUBSET Tabs DEF Steps, Operations
  <2>4. QED
    BY <2>2, <2>3 DEF OperationOK, Unrecorded
<1>3. CASE todo = {} /\ rest = {}
  BY <1>3, IdleIs DEF Cleaning
<1>4. QED
  BY <1>1, <1>2, <1>3

LEMMA UntrackIs ==
    ASSUME CoreTypeOK, NEW S, NEW t, Untrack(S, t)
    PROVE  /\ stored' \in [Sessions -> SUBSET Tabs] /\ cleanupPending' \in [Sessions -> BOOLEAN]
           /\ \A s \in Sessions :
                 /\ stored'[s] = IF s \in S THEN stored[s] \ {t} ELSE stored[s]
                 /\ cleanupPending'[s] => cleanupPending[s] /\ stored'[s] # {}
           /\ Tracked' \subseteq Tracked
<1>1. /\ stored' = [s \in Sessions |-> IF s \in S THEN stored[s] \ {t} ELSE stored[s]]
      /\ cleanupPending' = [s \in Sessions |->
                               cleanupPending[s] /\ (s \in S => stored[s] \ {t} # {})]
  BY DEF Untrack, Unmarked
<1>2. stored' \in [Sessions -> SUBSET Tabs] /\ cleanupPending' \in [Sessions -> BOOLEAN]
  BY <1>1 DEF CoreTypeOK
<1>3. \A s \in Sessions :
         /\ stored'[s] = IF s \in S THEN stored[s] \ {t} ELSE stored[s]
         /\ cleanupPending'[s] => cleanupPending[s] /\ stored'[s] # {}
  BY <1>1 DEF CoreTypeOK
<1>4. Tracked' \subseteq Tracked
  BY <1>3 DEF Tracked
<1>5. QED
  BY <1>2, <1>3, <1>4

\* Tabs leave the storage when they are closed or kept; the operation under way opens none.
LEMMA UntrackKeeps ==
    ASSUME IInv, NEW S, NEW t, NEW C, Untrack(S, t),
           UNCHANGED <<created, open, owner, condemned, lost, sessionVars, countVars>>,
           \/ kept' = kept /\ t \notin open
           \/ kept' = kept /\ \A s \in S \cap Sessions : t \notin stored[s]
           \/ \E s \in Sessions : S = {s} /\ t \in stored[s] /\ kept' = kept \cup {t},
           Unrecorded = {}, OperationOK', op' \in Operations, Unrecorded' = {},
           chain' = C,
           C = chain \/ (chain # <<>> /\ C = Tail(chain) /\ Head(chain).kind # "replace")
    PROVE  IInv'
<1>1. /\ stored' \in [Sessions -> SUBSET Tabs] /\ cleanupPending' \in [Sessions -> BOOLEAN]
      /\ \A s \in Sessions :
            /\ stored'[s] = IF s \in S THEN stored[s] \ {t} ELSE stored[s]
            /\ cleanupPending'[s] => cleanupPending[s] /\ stored'[s] # {}
      /\ Tracked' \subseteq Tracked
  BY UntrackIs DEF IInv
<1>2. /\ kept \subseteq kept' /\ kept' \in SUBSET (1..created)
      /\ \A x \in kept' : x \in kept \/ x \in Tracked
  <2>1. ASSUME NEW s \in Sessions, t \in stored[s], kept' = kept \cup {t}
        PROVE  t \in 1..created /\ t \in Tracked
    BY <2>1 DEF IInv, CoreTypeOK, StorageOK, Tracked, Tabs
  <2>2. QED
    BY <2>1 DEF IInv, CoreTypeOK
<1>3. CoreTypeOK'
  BY <1>1, <1>2 DEF IInv, CoreTypeOK, Operations
<1>4. CallersTypeOK'
  BY CallersStay
<1>5. Gentle
  BY <1>1, <1>2 DEF IInv, CoreTypeOK, Gentle
<1>6. ChainOK' /\ Replacing \subseteq Replacing'
  BY <1>5, Waiting
<1>7. StorageOK'
  <2>1. ASSUME NEW s \in Sessions, NEW x \in stored'[s]
        PROVE  x \in stored[s] /\ x <= created /\ owner[x] = s /\ x \notin kept'
    <3>1. x \in stored[s] /\ x <= created /\ owner[x] = s /\ x \notin kept
      BY <1>1, <2>1 DEF IInv, StorageOK
    <3>2. ASSUME NEW z \in Sessions, S = {z}, t \in stored[z]
          PROVE  x # t
      BY <1>1, <2>1, <3>1, <3>2 DEF IInv, StorageOK
    <3>3. QED
      BY <3>1, <3>2
  <2>2. QED
    BY <1>1, <2>1 DEF IInv, StorageOK
<1>8. NoTabEscapes'
  <2>1. ASSUME NEW x \in open, x \notin kept', x \notin lost, owner[x] # NoSession
        PROVE  x \in stored'[owner[x]] \/ x \in Replacing'
    <3>1. x \in Tabs
      BY TabsAssumption DEF IInv, CoreTypeOK, Tabs
    <3>2. owner[x] \in Sessions /\ (x \in stored[owner[x]] \/ x \in Replacing)
      BY <1>2, <2>1, <3>1 DEF IInv, NoTabEscapes, CoreTypeOK
    <3>3. \A s \in Sessions : x \in stored[s] => x \in stored'[s] \/ (x = t /\ s \in S)
      BY <1>1
    <3>4. ASSUME owner[x] \in S, x = t, x \in stored[owner[x]]
          PROVE  x \in kept'
      BY <2>1, <3>2, <3>4
    <3>5. QED
      BY <1>6, <2>1, <3>2, <3>3, <3>4
  <2>2. QED
    BY <2>1 DEF NoTabEscapes
<1>9. QED
  BY <1>3, <1>4, <1>6, <1>7, <1>8 DEF IInv

-----------------------------------------------------------------------------
(* close, keep, forgetClosedTab, replaceTab                                *)

LEMMA CloseRemovesKeeps ==
    ASSUME IInv, CloseRemoves
    PROVE  IInv'
<1> USE TabsAssumption
<1>1. PICK s, t, C : s = Head(chain).session /\ t = Head(chain).tab /\ C = Tail(chain)
  OBVIOUS
<1>2. /\ Turn("close") /\ open' = open \ {t} /\ chain' = Notified(t, C)
      /\ op' = (IF t \in stored[s] THEN At("closed", s, t, {}, {}) ELSE Idle)
      /\ UNCHANGED <<created, owner, kept, condemned, lost, stored, cleanupPending,
                     sessionVars, countVars>>
  BY <1>1 DEF CloseRemoves, historyVars, storageVars
<1>3. /\ chain # <<>> /\ Head(chain).kind = "close" /\ s \in Sessions /\ t \in Tabs \cup {NoTab}
      /\ Unrecorded = {}
  BY <1>1, <1>2, TurnIs DEF CallOK, Calls
<1>4. OperationOK' /\ op' \in Operations /\ Unrecorded' = {}
  <2>1. CASE t \in stored[s]
    <3>1. op' = At("closed", s, t, {}, {})
      BY <1>2, <2>1
    <3>2. /\ op'.step = "closed" /\ op'.tab = t /\ op'.todo = {} /\ op'.rest = {}
      BY <3>1, AtFields
    <3>3. t <= created
      BY <1>3, <2>1 DEF IInv, StorageOK
    <3>4. op' \in Operations
      BY <1>3, <3>1, AtFields, {} \in SUBSET Tabs, {} \in SUBSET Sessions DEF Operations, Steps
    <3>5. QED
      BY <1>2, <3>2, <3>3, <3>4 DEF OperationOK, Unrecorded
  <2>2. CASE t \notin stored[s]
    BY <1>2, <2>2, IdleIs
  <2>3. QED
    BY <2>1, <2>2
<1>5. CoreTypeOK'
  BY <1>2, <1>4 DEF IInv, CoreTypeOK, Operations
<1>6. Gentle
  BY <1>2, <1>4 DEF IInv, CoreTypeOK, Gentle, Tracked
<1>7. ChainOK' /\ Replacing \subseteq Replacing'
  BY <1>1, <1>2, <1>3, <1>6, WaitingNotified
<1>8. CallersTypeOK'
  BY <1>2, CallersStay
<1>9. QED
  BY <1>2, <1>3, <1>4, <1>5, <1>7, <1>8, OperationMovesKeeps

LEMMA CloseRecordsKeeps ==
    ASSUME IInv, CloseRecords
    PROVE  IInv'
<1>1. PICK S, t, C : S = {op.session} /\ t = op.tab /\ C = chain
  OBVIOUS
<1>2. /\ op.step = "closed" /\ Untrack(S, t) /\ op' = Idle /\ chain' = C
      /\ UNCHANGED <<created, open, owner, kept, condemned, lost, sessionVars, countVars>>
  BY <1>1 DEF CloseRecords, chromeVars, historyVars
<1>3. t \notin open /\ Unrecorded = {}
  BY <1>1, <1>2 DEF IInv, OperationOK, Unrecorded
<1>4. QED
  BY <1>1, <1>2, <1>3, IdleIs, UntrackKeeps

LEMMA KeepForgetKeeps ==
    ASSUME IInv, Keep \/ ForgetClosedTab
    PROVE  IInv'
<1>1. PICK t, C, s : t = Head(chain).tab /\ C = Tail(chain) /\ s = Head(chain).session
  OBVIOUS
<1>2. CASE Keep
  <2>1. /\ Turn("keep") /\ chain' = C /\ Untrack({s}, t)
        /\ kept' = IF t \in stored[s] THEN kept \cup {t} ELSE kept
        /\ UNCHANGED <<created, open, owner, condemned, lost, op, sessionVars, countVars>>
    BY <1>1, <1>2 DEF Keep, chromeVars
  <2>2. chain # <<>> /\ Head(chain).kind = "keep" /\ s \in Sessions /\ Unrecorded = {} /\ op' = Idle
    BY <1>1, <2>1, TurnIs DEF CallOK
  <2>3. OperationOK' /\ op' \in Operations /\ Unrecorded' = {}
    BY <2>2, IdleIs
  <2>4. \/ kept' = kept /\ \A x \in {s} \cap Sessions : t \notin stored[x]
        \/ \E x \in Sessions : {s} = {x} /\ t \in stored[x] /\ kept' = kept \cup {t}
    BY <2>1, <2>2
  <2>5. QED
    BY <1>1, <2>1, <2>2, <2>3, <2>4, UntrackKeeps
<1>3. CASE ForgetClosedTab
  <2>1. /\ Turn("forget") /\ chain' = C /\ Untrack(Sessions, t)
        /\ UNCHANGED <<created, open, owner, kept, condemned, lost, op, sessionVars, countVars>>
    BY <1>1, <1>3 DEF ForgetClosedTab, chromeVars, historyVars
  <2>2. chain # <<>> /\ Head(chain).kind = "forget" /\ t \notin open /\ Unrecorded = {} /\ op' = Idle
    BY <1>1, <2>1, TurnIs DEF CallOK
  <2>3. OperationOK' /\ op' \in Operations /\ Unrecorded' = {}
    BY <2>2, IdleIs
  <2>4. QED
    BY <1>1, <2>1, <2>2, <2>3, UntrackKeeps
<1>4. QED
  BY <1>2, <1>3

LEMMA RecordFailsKeeps ==
    ASSUME IInv, CloseRecordFails \/ DropTabFails \/ RetrySessionFails
    PROVE  IInv'
<1>1. /\ op' = Idle /\ op.step \in {"closed", "dropping", "retrying"} /\ Fault
      /\ UNCHANGED <<created, open, owner, kept, condemned, lost, stored, cleanupPending, chain,
                     sessionVars, requests>>
  BY DEF CloseRecordFails, DropTabFails, RetrySessionFails, chromeVars, historyVars, storageVars
<1>2. OperationOK' /\ op' \in Operations /\ Unrecorded' = {} /\ Unrecorded = {}
  BY <1>1, IdleIs DEF Unrecorded
<1>3. CoreTypeOK'
  BY <1>1, <1>2 DEF IInv, CoreTypeOK, Operations
<1>4. Gentle
  BY <1>1, <1>2 DEF IInv, CoreTypeOK, Gentle, Tracked
<1>5. ChainOK' /\ Replacing \subseteq Replacing'
  <2>1. PICK C : C = chain
    OBVIOUS
  <2>2. QED
    BY <1>1, <1>4, <2>1, Waiting
<1>6. CallersTypeOK'
  BY <1>1, CallersStay
<1>7. QED
  BY <1>1, <1>2, <1>3, <1>5, <1>6, OperationMovesKeeps

LEMMA ReplaceTabKeeps ==
    ASSUME IInv, ReplaceTab
    PROVE  IInv'
<1> USE TabsAssumption
<1>1. PICK t, u, C : t = Head(chain).tab /\ u = Head(chain).added /\ C = Tail(chain)
  OBVIOUS
<1>2. /\ Turn("replace") /\ chain' = C
      /\ UNCHANGED <<created, open, owner, kept, cleanupPending, op, sessionVars, countVars>>
  BY <1>1 DEF ReplaceTab, chromeVars
<1>3. \/ /\ t \in Tracked /\ lost' = lost
         /\ stored' = [s \in Sessions |-> IF t \in stored[s]
                                          THEN (stored[s] \ {t}) \cup {u} ELSE stored[s]]
         /\ condemned' = IF t \in condemned THEN condemned \cup {u} ELSE condemned
      \/ lost' = lost \cup {u} /\ UNCHANGED <<stored, condemned>>
  BY <1>1 DEF ReplaceTab
<1>4. /\ chain # <<>> /\ op.step = "idle" /\ op.todo = {} /\ op.rest = {} /\ Unrecorded = {}
      /\ t \in 1..created /\ t \notin open /\ u \in 1..created /\ u \in Tabs
      /\ owner[u] = owner[t] /\ u \notin Tracked /\ (u \in kept => t \in kept)
  <2>1. /\ chain # <<>> /\ op.step = "idle" /\ op.todo = {} /\ op.rest = {} /\ Unrecorded = {}
        /\ CallOK(Head(chain)) /\ Head(chain).kind = "replace"
    BY <1>2, TurnIs
  <2>2. QED
    BY <1>1, <2>1 DEF CallOK, IInv, CoreTypeOK, Tabs
<1>5. /\ C \in Seq(Calls) /\ Distinct(C) /\ Brought(chain) = Brought(C) \cup {u}
      /\ u \notin Brought(C)
      /\ \A i \in DOMAIN C : i + 1 \in DOMAIN chain /\ C[i] = chain[i + 1]
  BY <1>1, <1>4, TailOf DEF IInv, ChainOK, NoTab
<1>6. \A i \in DOMAIN C : C[i] \in Calls /\ CallOK(C[i]) /\ C[i].added # u
  <2>1. \A i \in DOMAIN C : C[i] \in Calls /\ CallOK(C[i])
    BY <1>5, ElementOfSeq, LenProperties DEF IInv, ChainOK
  <2>2. \A i \in DOMAIN C : C[i].added # u
    BY <1>4, <1>5 DEF Brought, NoTab
  <2>3. QED
    BY <2>1, <2>2
<1>7. Replacing = Brought(C) \cup {u}
  BY <1>5 DEF Replacing, Brought
<1>8. Unrecorded' = {}
  BY <1>2, <1>4 DEF Unrecorded
<1>9. CallersTypeOK'
  BY <1>2, CallersStay
<1>10. ASSUME Tracked' \subseteq Tracked \cup {u}
       PROVE  ChainOK' /\ Brought(C) \subseteq Replacing'
  <2>1. ASSUME NEW i \in DOMAIN C
        PROVE  CallOK(C[i])'
    BY <1>2, <1>4, <1>6, <1>8, <1>10, <2>1 DEF CallOK
  <2>2. ChainOK
    BY DEF IInv
  <2>3. QED
    BY <1>2, <1>5, <2>1, <2>2, ChainKeeps
<1>11. CASE lost' = lost \cup {u} /\ UNCHANGED <<stored, condemned>>
  <2>1. Tracked' = Tracked
    BY <1>11 DEF Tracked
  <2>2. ChainOK' /\ Brought(C) \subseteq Replacing'
    BY <1>10, <2>1
  <2>3. lost \subseteq lost' /\ lost' \in SUBSET Tabs
    BY <1>4, <1>11 DEF IInv, CoreTypeOK
  <2>4. QED
    BY <1>2, <1>7, <1>9, <1>11, <2>2, <2>3, CallerKeeps DEF chromeVars, storageVars
<1>12. CASE /\ t \in Tracked /\ lost' = lost
            /\ stored' = [s \in Sessions |-> IF t \in stored[s]
                                             THEN (stored[s] \ {t}) \cup {u} ELSE stored[s]]
            /\ condemned' = IF t \in condemned THEN condemned \cup {u} ELSE condemned
  <2>1. \A s \in Sessions : stored'[s] = IF t \in stored[s] THEN (stored[s] \ {t}) \cup {u}
                                          ELSE stored[s]
    BY <1>12
  <2>2. /\ owner[t] \in Sessions /\ t \in stored[owner[t]] /\ t \notin kept /\ u \notin kept
        /\ \A s \in Sessions : t \in stored[s] => s = owner[t]
    BY <1>4, <1>12 DEF Tracked, IInv, StorageOK
  <2>3. Tracked' \subseteq Tracked \cup {u}
    BY <2>1 DEF Tracked
  <2>4. ChainOK' /\ Brought(C) \subseteq Replacing'
    BY <1>10, <2>3
  <2>5. CoreTypeOK'
    <3>1. stored' \in [Sessions -> SUBSET Tabs]
      BY <1>4, <1>12 DEF IInv, CoreTypeOK
    <3>2. \A s \in Sessions : cleanupPending'[s] => stored'[s] # {}
      BY <1>2, <2>1 DEF IInv, CoreTypeOK
    <3>3. condemned' \in SUBSET Tabs
      BY <1>4, <1>12 DEF IInv, CoreTypeOK
    <3>4. QED
      BY <1>2, <1>12, <3>1, <3>2, <3>3 DEF IInv, CoreTypeOK
  <2>6. StorageOK'
    <3>1. ASSUME NEW s \in Sessions, NEW x \in stored'[s]
          PROVE  /\ x <= created /\ owner[x] = s /\ x \notin kept
                 /\ cleanupPending[s] => x \in condemned'
      <4>1. CASE x \in stored[s]
        BY <1>12, <4>1 DEF IInv, StorageOK
      <4>2. CASE x \notin stored[s]
        <5>1. x = u /\ t \in stored[s] /\ s = owner[t]
          BY <2>1, <2>2, <3>1, <4>2
        <5>2. cleanupPending[s] => t \in condemned
          BY <5>1 DEF IInv, StorageOK
        <5>3. created \in Nat
          BY DEF IInv, CoreTypeOK
        <5>4. u <= created
          BY <1>4, <5>3
        <5>5. QED
          BY <1>4, <1>12, <2>2, <5>1, <5>2, <5>4
      <4>3. QED
        BY <4>1, <4>2
    <3>2. QED
      BY <1>2, <3>1 DEF IInv, StorageOK
  <2>7. OperationOK'
    BY <1>2, <1>4 DEF OperationOK
  <2>8. NoTabEscapes'
    <3>1. ASSUME NEW x \in open, x \notin kept, x \notin lost, owner[x] # NoSession
          PROVE  x \in stored'[owner[x]] \/ x \in Replacing'
      <4>1. x \in Tabs /\ owner[x] \in Sessions /\ x # t
        BY <1>4, <3>1 DEF IInv, CoreTypeOK, Tabs
      <4>2. CASE x \in stored[owner[x]]
        BY <2>1, <4>1, <4>2
      <4>3. CASE x = u
        BY <1>4, <2>1, <2>2, <4>3
      <4>4. CASE x \in Brought(C)
        BY <2>4, <4>4
      <4>5. QED
        BY <1>4, <1>7, <3>1, <4>2, <4>3, <4>4 DEF IInv, NoTabEscapes
    <3>2. QED
      BY <1>2, <1>12, <3>1 DEF NoTabEscapes
  <2>9. QED
    BY <1>9, <2>4, <2>5, <2>6, <2>7, <2>8 DEF IInv
<1>13. QED
  BY <1>3, <1>11, <1>12

-----------------------------------------------------------------------------
(* cleanupSession, retryPendingCleanup                                     *)

LEMMA CleanupKeeps ==
    ASSUME IInv, Cleanup
    PROVE  IInv'
<1> USE TabsAssumption
<1>1. PICK s, C : s = Head(chain).session /\ C = Tail(chain)
  OBVIOUS
<1>2. /\ Turn("cleanup") /\ chain' = C
      /\ cleanupPending' = [cleanupPending EXCEPT ![s] = stored[s] # {}]
      /\ condemned' = condemned \cup stored[s] /\ op' = Cleaning(s, stored[s], {})
      /\ UNCHANGED <<created, open, owner, kept, lost, stored, sessionVars, countVars>>
  BY <1>1 DEF Cleanup, chromeVars
<1>3. /\ chain # <<>> /\ Head(chain).kind = "cleanup" /\ s \in Sessions /\ Unrecorded = {}
  BY <1>1, <1>2, TurnIs DEF CallOK
<1>4. /\ stored[s] \in SUBSET Tabs
      /\ \A t \in stored[s] : t <= created /\ owner[t] = s /\ t \notin kept
  BY <1>3 DEF IInv, CoreTypeOK, StorageOK
<1>5. OperationOK' /\ op' \in Operations /\ Unrecorded' = {}
  <2>1. PICK todo, rest : todo = stored[s] /\ rest = {}
    OBVIOUS
  <2>2. /\ \A t \in todo : t <= created' /\ owner'[t] = s /\ t \notin kept' /\ t \in condemned'
        /\ \A x \in rest : stored'[x] \subseteq condemned'
    BY <1>2, <1>4, <2>1
  <2>3. s \in Sessions \cup {NoSession} /\ todo \in SUBSET Tabs /\ rest \in SUBSET Sessions
    BY <1>3, <1>4, <2>1
  <2>4. op' = Cleaning(s, todo, rest)
    BY <1>2, <2>1
  <2>5. QED
    BY <2>2, <2>3, <2>4, CleaningIs
<1>6. CoreTypeOK'
  <2>1. /\ cleanupPending' \in [Sessions -> BOOLEAN]
        /\ \A x \in Sessions : cleanupPending'[x] => stored[x] # {}
    BY <1>2, <1>3 DEF IInv, CoreTypeOK
  <2>2. condemned' \in SUBSET Tabs
    BY <1>2, <1>4 DEF IInv, CoreTypeOK
  <2>3. QED
    BY <1>2, <1>5, <2>1, <2>2 DEF IInv, CoreTypeOK, Operations
<1>7. Gentle
  BY <1>2, <1>3, <1>5 DEF IInv, CoreTypeOK, Gentle, Tracked
<1>8. ChainOK' /\ Replacing \subseteq Replacing'
  BY <1>1, <1>2, <1>3, <1>7, Waiting
<1>9. CallersTypeOK'
  BY <1>2, CallersStay
<1>10. StorageOK'
  <2>1. \A x \in Sessions : cleanupPending'[x] => x = s \/ cleanupPending[x]
    BY <1>2 DEF IInv, CoreTypeOK
  <2>2. QED
    BY <1>2, <1>4, <2>1 DEF IInv, StorageOK
<1>11. NoTabEscapes'
  BY <1>2, <1>3, <1>8 DEF IInv, NoTabEscapes
<1>12. QED
  BY <1>5, <1>6, <1>8, <1>9, <1>10, <1>11 DEF IInv

\* The retry finds the sessions that are marked, and comes to one after the other.
LEMMA RetryKeeps ==
    ASSUME IInv, Retry \/ \E s \in Sessions : RetrySession(s)
    PROVE  IInv'
<1> USE TabsAssumption
<1>1. /\ UNCHANGED <<created, open, owner, kept, stored, cleanupPending, condemned, lost>>
      /\ UNCHANGED <<sessionVars, countVars>>
  BY DEF Retry, RetrySession, chromeVars, historyVars, storageVars
<1>2. CallersTypeOK'
  BY <1>1, CallersStay
<1>3. ASSUME OperationOK', op' \in Operations, Unrecorded' = {}, Unrecorded = {},
             \/ chain' = chain
             \/ chain # <<>> /\ chain' = Tail(chain) /\ Head(chain).kind # "replace"
      PROVE  IInv'
  <2>1. CoreTypeOK'
    BY <1>1, <1>3 DEF IInv, CoreTypeOK, Operations
  <2>2. Gentle
    BY <1>1, <1>3 DEF IInv, CoreTypeOK, Gentle, Tracked
  <2>3. ChainOK' /\ Replacing \subseteq Replacing'
    <3>1. PICK C : chain' = C /\ \/ C = chain
                                 \/ chain # <<>> /\ C = Tail(chain)
                                      /\ Head(chain).kind # "replace"
      BY <1>3
    <3>2. QED
      BY <2>2, <3>1, Waiting
  <2>4. QED
    BY <1>1, <1>2, <1>3, <2>1, <2>3, OperationMovesKeeps
<1>4. CASE Retry
  <2>1. Turn("retry") /\ chain' = Tail(chain) /\ op' = Cleaning(NoSession, {}, Due)
    BY <1>4 DEF Retry
  <2>2. chain # <<>> /\ Head(chain).kind = "retry" /\ Unrecorded = {}
    BY <2>1, TurnIs
  <2>3. Due \in SUBSET Sessions /\ \A x \in Due : stored'[x] \subseteq condemned'
    BY <1>1 DEF Due, IInv, StorageOK
  <2>4. OperationOK' /\ op' \in Operations /\ Unrecorded' = {}
    <3>1. {} \in SUBSET Tabs /\ NoSession \in Sessions \cup {NoSession}
      OBVIOUS
    <3>2. \A t \in {} : t <= created' /\ owner'[t] = NoSession /\ t \notin kept' /\ t \in condemned'
      OBVIOUS
    <3>3. QED
      BY <2>1, <2>3, <3>1, <3>2, CleaningIs
  <2>5. QED
    BY <1>3, <2>1, <2>2, <2>4
<1>5. CASE \E s \in Sessions : RetrySession(s)
  <2>1. PICK s \in Sessions : RetrySession(s)
    BY <1>5
  <2>2. PICK todo, rest : todo = stored[s] /\ rest = op.rest \ {s}
    OBVIOUS
  <2>3. /\ op.step = "retrying" /\ s \in op.rest /\ chain' = chain
        /\ op' = Cleaning(s, todo, rest)
    BY <2>1, <2>2 DEF RetrySession
  <2>4. todo \in SUBSET Tabs /\ rest \in SUBSET Sessions /\ s \in Sessions \cup {NoSession}
    BY <2>2 DEF IInv, CoreTypeOK
  <2>5. /\ \A t \in todo : t <= created' /\ owner'[t] = s /\ t \notin kept' /\ t \in condemned'
        /\ \A x \in rest : stored'[x] \subseteq condemned'
    BY <1>1, <2>2, <2>3 DEF IInv, StorageOK, OperationOK
  <2>6. OperationOK' /\ op' \in Operations /\ Unrecorded' = {}
    BY <2>3, <2>4, <2>5, CleaningIs
  <2>7. Unrecorded = {}
    BY <2>3 DEF Unrecorded
  <2>8. QED
    BY <1>3, <2>3, <2>6, <2>7
<1>6. QED
  BY <1>4, <1>5

LEMMA RemoveTabKeeps ==
    ASSUME IInv, NEW t \in Tabs, RemoveTab(t) \/ RemoveTabFails(t)
    PROVE  IInv'
<1> USE TabsAssumption
<1>1. /\ op.step = "cleaning" /\ t \in op.todo /\ Unrecorded = {}
      /\ UNCHANGED <<created, owner, kept, stored, cleanupPending, condemned, lost, sessionVars>>
      /\ UNCHANGED countVars \/ (Fault /\ UNCHANGED requests)
  BY DEF RemoveTab, RemoveTabFails, chromeVars, historyVars, storageVars, Unrecorded
<1>2. CallersTypeOK'
  BY <1>1, CallersStay
<1>3. PICK C : C = chain
  OBVIOUS
<1>4. CASE RemoveTab(t)
  <2>1. /\ open' = open \ {t} /\ chain' = Notified(t, C)
        /\ op' = [op EXCEPT !.step = "dropping", !.tab = t]
    BY <1>3, <1>4 DEF RemoveTab
  <2>2. /\ op'.step = "dropping" /\ op'.session = op.session /\ op'.tab = t
        /\ op'.todo = op.todo /\ op'.rest = op.rest /\ op' \in Operations
    BY <2>1 DEF IInv, CoreTypeOK, Operations, Steps
  <2>3. OperationOK' /\ Unrecorded' = {}
    BY <1>1, <2>1, <2>2 DEF IInv, OperationOK, Unrecorded
  <2>4. CoreTypeOK'
    BY <1>1, <2>1, <2>2 DEF IInv, CoreTypeOK, Operations
  <2>5. Gentle
    BY <1>1, <2>1, <2>3 DEF IInv, CoreTypeOK, Gentle, Tracked
  <2>6. ChainOK' /\ Replacing \subseteq Replacing'
    BY <1>3, <2>1, <2>5, WaitingNotified
  <2>7. QED
    BY <1>1, <1>2, <2>1, <2>3, <2>4, <2>6, OperationMovesKeeps
<1>5. CASE RemoveTabFails(t)
  <2>1. PICK s, todo, rest : s = op.session /\ todo = op.todo \ {t} /\ rest = op.rest
    OBVIOUS
  <2>2. open' = open /\ chain' = chain /\ op' = Cleaning(s, todo, rest)
    BY <1>5, <2>1 DEF RemoveTabFails, chromeVars
  <2>3. /\ s \in Sessions \cup {NoSession} /\ todo \in SUBSET Tabs /\ rest \in SUBSET Sessions
    BY <2>1 DEF IInv, CoreTypeOK
  <2>4. /\ \A x \in todo : x <= created' /\ owner'[x] = s /\ x \notin kept' /\ x \in condemned'
        /\ \A x \in rest : stored'[x] \subseteq condemned'
    BY <1>1, <2>1 DEF IInv, OperationOK
  <2>5. OperationOK' /\ op' \in Operations /\ Unrecorded' = {}
    BY <2>2, <2>3, <2>4, CleaningIs
  <2>6. CoreTypeOK'
    BY <1>1, <2>2, <2>5 DEF IInv, CoreTypeOK, Operations
  <2>7. Gentle
    BY <1>1, <2>2, <2>5 DEF IInv, CoreTypeOK, Gentle, Tracked
  <2>8. ChainOK' /\ Replacing \subseteq Replacing'
    BY <1>3, <2>2, <2>7, Waiting
  <2>9. QED
    BY <1>1, <1>2, <2>2, <2>5, <2>6, <2>8, OperationMovesKeeps
<1>6. QED
  BY <1>4, <1>5

LEMMA DropTabKeeps ==
    ASSUME IInv, DropTab
    PROVE  IInv'
<1>1. PICK s, t, S, C, todo, rest :
         /\ s = op.session /\ t = op.tab /\ S = {op.session} /\ C = chain
         /\ todo = op.todo \ {op.tab} /\ rest = op.rest
  OBVIOUS
<1>2. /\ op.step = "dropping" /\ Untrack(S, t) /\ op' = Cleaning(s, todo, rest) /\ chain' = C
      /\ UNCHANGED <<created, open, owner, kept, condemned, lost, sessionVars, countVars>>
  BY <1>1 DEF DropTab, chromeVars, historyVars
<1>3. t \notin open /\ Unrecorded = {}
  BY <1>1, <1>2 DEF IInv, OperationOK, Unrecorded
<1>4. /\ s \in Sessions \cup {NoSession} /\ todo \in SUBSET Tabs /\ rest \in SUBSET Sessions
  BY <1>1 DEF IInv, CoreTypeOK
<1>5. \A x \in Sessions : stored'[x] \subseteq stored[x]
  <2>1. CoreTypeOK /\ Untrack(S, t)
    BY <1>2 DEF IInv
  <2>2. \A x \in Sessions : stored'[x] = IF x \in S THEN stored[x] \ {t} ELSE stored[x]
    BY <2>1, UntrackIs
  <2>3. QED
    BY <2>2
<1>6. /\ \A x \in todo : x <= created' /\ owner'[x] = s /\ x \notin kept' /\ x \in condemned'
      /\ \A x \in rest : stored'[x] \subseteq condemned'
  BY <1>1, <1>2, <1>4, <1>5 DEF IInv, OperationOK
<1>7. OperationOK' /\ op' \in Operations /\ Unrecorded' = {}
  <2>1. op' = Cleaning(s, todo, rest)
    BY <1>2
  <2>2. QED
    BY <1>4, <1>6, <2>1, CleaningIs
<1>8. QED
  BY <1>1, <1>2, <1>3, <1>7, UntrackKeeps

-----------------------------------------------------------------------------
(* Chrome                                                                  *)

LEMMA UserClosesKeeps ==
    ASSUME IInv, NEW t \in Tabs, UserCloses(t)
    PROVE  IInv'
<1>1. PICK C : C = chain
  OBVIOUS
<1>2. /\ open' = open \ {t} /\ chain' = Notified(t, C)
      /\ UNCHANGED <<created, owner, kept, condemned, lost, stored, cleanupPending, op>>
      /\ UNCHANGED <<sessionVars, countVars>>
  BY <1>1 DEF UserCloses, historyVars, storageVars
<1>3. CallersTypeOK'
  BY <1>2, CallersStay
<1>4. CoreTypeOK' /\ OperationOK'
  BY <1>2 DEF IInv, CoreTypeOK, OperationOK
<1>5. Unrecorded' = Unrecorded
  BY <1>2 DEF Unrecorded
<1>6. Gentle
  BY <1>2, <1>5 DEF IInv, CoreTypeOK, Gentle, Tracked
<1>7. ChainOK' /\ Replacing \subseteq Replacing'
  BY <1>1, <1>2, <1>6, WaitingNotified
<1>8. QED
  BY <1>2, <1>3, <1>4, <1>5, <1>7, OperationMovesKeeps

\* A tab is new: one of the user's, or the new id of a page.
LEMMA NewTabKeeps ==
    ASSUME IInv, NEW u, u = created + 1, created < MaxTabs, created' = u,
           open' \subseteq open \cup {u}, UNCHANGED <<condemned, lost, storageVars, op>>,
           CallersTypeOK', ChainOK', Replacing \subseteq Replacing',
           \/ UNCHANGED <<owner, kept>>
           \/ /\ \E t \in Tabs : owner' = [owner EXCEPT ![u] = owner[t]]
              /\ kept' \in {kept, kept \cup {u}} /\ u \in Replacing'
    PROVE  IInv'
<1> USE TabsAssumption
<1>1. /\ created \in Nat /\ MaxTabs \in Nat /\ u \in Tabs /\ u \in 1..u /\ u \notin 1..created
      /\ 1..created \subseteq 1..u /\ 1..u \subseteq Tabs /\ u \in 0..MaxTabs
  BY DEF IInv, CoreTypeOK, Tabs
<1>2. /\ owner \in [Tabs -> Sessions \cup {NoSession}] /\ owner[u] = NoSession
      /\ open \in SUBSET (1..created) /\ kept \in SUBSET (1..created)
  BY <1>1 DEF IInv, CoreTypeOK, StorageOK
<1>3. /\ owner' \in [Tabs -> Sessions \cup {NoSession}]
      /\ \A x \in Tabs : x # u => owner'[x] = owner[x]
      /\ kept \subseteq kept' /\ kept' \subseteq kept \cup {u}
  BY <1>1, <1>2
<1>4. UNCHANGED <<stored, cleanupPending>> /\ Unrecorded' = Unrecorded
  BY DEF storageVars, Unrecorded
<1>5. CoreTypeOK'
  <2>1. open' \in SUBSET (1..u) /\ kept' \in SUBSET (1..u)
    BY <1>1, <1>2, <1>3
  <2>2. QED
    BY <1>1, <1>3, <1>4, <2>1 DEF IInv, CoreTypeOK
<1>6. \A x \in Tabs : x <= created =>
         x # u /\ x <= u /\ owner'[x] = owner[x] /\ (x \in kept' => x \in kept)
               /\ (x \in open' => x \in open)
  <2>1. \A x \in Tabs : x <= created => x # u /\ x <= u
    BY <1>1 DEF Tabs
  <2>2. QED
    BY <1>3, <2>1
<1>7. StorageOK'
  <2>1. \A x \in Tabs : x > u => owner'[x] = NoSession
    BY <1>1, <1>3 DEF IInv, StorageOK, Tabs
  <2>2. \A s \in Sessions : \A x \in stored[s] :
           x \in Tabs /\ x <= created /\ owner[x] = s /\ x \notin kept
    BY DEF IInv, CoreTypeOK, StorageOK
  <2>3. \A s \in Sessions : \A x \in stored[s] : x <= u /\ owner'[x] = s /\ x \notin kept'
    BY <1>6, <2>2
  <2>4. QED
    BY <1>4, <2>1, <2>3 DEF IInv, StorageOK
<1>8. OperationOK'
  <2>1. op.todo \subseteq Tabs /\ op.tab \in Tabs \cup {NoTab} /\ NoTab \notin 1..u
        /\ NoTab \notin open'
    BY <1>1, <1>2 DEF IInv, CoreTypeOK, NoTab
  <2>2. \A x \in op.todo :
           x <= u /\ owner'[x] = op.session /\ x \notin kept' /\ x \in condemned
    BY <1>6, <2>1 DEF IInv, OperationOK
  <2>3. op.step \in {"recording", "rollback"} =>
           /\ op.session \in Sessions /\ op.tab \in 1..u
           /\ owner'[op.tab] = op.session /\ op.tab \notin kept'
    BY <1>1, <1>6, <2>1 DEF IInv, OperationOK
  <2>4. op.step \in {"closed", "dropping"} => op.tab <= u /\ op.tab \notin open'
    BY <1>1, <1>6, <2>1 DEF IInv, OperationOK, NoTab
  <2>5. QED
    BY <1>4, <2>2, <2>3, <2>4 DEF IInv, OperationOK
<1>9. NoTabEscapes'
  <2>1. ASSUME NEW x \in open', x \notin kept', x \notin lost, owner'[x] # NoSession
        PROVE  x \in stored[owner'[x]] \/ x \in Unrecorded \/ x \in Replacing'
    <3>1. CASE x = u
      BY <1>2, <2>1, <3>1
    <3>2. CASE x # u
      BY <1>1, <1>2, <1>3, <2>1, <3>2 DEF IInv, NoTabEscapes
    <3>3. QED
      BY <3>1, <3>2
  <2>2. QED
    BY <1>4, <2>1 DEF NoTabEscapes
<1>10. QED
  BY <1>5, <1>7, <1>8, <1>9 DEF IInv

LEMMA OtherTabOpensKeeps ==
    ASSUME IInv, OtherTabOpens
    PROVE  IInv'
<1> USE TabsAssumption
<1>1. PICK u, C : u = created + 1 /\ C = chain
  OBVIOUS
<1>2. /\ created < MaxTabs /\ created' = u /\ open' = open \cup {u} /\ chain' = C
      /\ UNCHANGED <<owner, kept, condemned, lost, storageVars, op, sessionVars, countVars>>
  BY <1>1 DEF OtherTabOpens, historyVars
<1>3. CallersTypeOK'
  BY <1>2, CallersStay
<1>4. created \in Nat /\ u > created /\ u \in 0..MaxTabs
  BY <1>1, <1>2 DEF IInv, CoreTypeOK
<1>5. Gentle
  BY <1>2, <1>4 DEF Gentle, Tracked, Unrecorded, storageVars
<1>6. ChainOK' /\ Replacing \subseteq Replacing'
  BY <1>1, <1>2, <1>5, Waiting
<1>7. QED
  BY <1>1, <1>2, <1>3, <1>6, NewTabKeeps

LEMMA ChromeReplacesKeeps ==
    ASSUME IInv, NEW t \in Tabs, ChromeReplaces(t)
    PROVE  IInv'
<1> USE TabsAssumption
<1>1. PICK u, d, C : /\ u = created + 1 /\ d = Call("replace", NoSession, t, u)
                     /\ C = chain
  OBVIOUS
<1>2. /\ t \in open /\ created < MaxTabs /\ Fault /\ created' = u
      /\ open' = (open \ {t}) \cup {u} /\ owner' = [owner EXCEPT ![u] = owner[t]]
      /\ kept' = (IF t \in kept THEN kept \cup {u} ELSE kept) /\ chain' = Append(C, d)
      /\ UNCHANGED <<condemned, lost, storageVars, op, sessionVars, requests>>
  BY <1>1 DEF ChromeReplaces
<1>3. CallersTypeOK'
  BY <1>2, CallersStay
<1>4. /\ created \in Nat /\ u > created /\ u \in 0..MaxTabs /\ u \in Tabs
      /\ t \in 1..created /\ t # u /\ kept \subseteq 1..created /\ u \notin 1..created
      /\ t \in 1..u /\ u \in 1..u
  BY <1>1, <1>2 DEF IInv, CoreTypeOK, Tabs
<1>5. owner'[u] = owner[t] /\ \A x \in 1..created : owner'[x] = owner[x]
  BY <1>2, <1>4 DEF IInv, CoreTypeOK, Tabs
<1>6. /\ d \in Calls /\ d.kind = "replace" /\ d.tab = t /\ d.added = u
  BY <1>1, <1>4, CallFields DEF Kinds
<1>7. Tracked' = Tracked /\ Unrecorded' = Unrecorded
  BY <1>2 DEF storageVars, Tracked, Unrecorded
<1>8. u \notin Tracked \cup Unrecorded
  BY <1>4 DEF IInv, CoreTypeOK, StorageOK, OperationOK, Tracked, Unrecorded
<1>9. CallOK(d)'
  <2>1. u \in kept' => t \in kept'
    BY <1>2, <1>4
  <2>2. t \in 1..created' /\ t \notin open' /\ u \in 1..created'
    BY <1>2, <1>4
  <2>3. owner'[u] = owner'[t]
    BY <1>4, <1>5
  <2>4. QED
    BY <1>6, <1>7, <1>8, <2>1, <2>2, <2>3 DEF CallOK
<1>10. Gentle
  <2>1. \A x \in open' : x \in open \/ x > created
    BY <1>2, <1>4
  <2>2. kept \subseteq kept' /\ \A x \in kept' : x \in kept \/ x > created
    BY <1>2, <1>4
  <2>3. QED
    BY <1>2, <1>4, <1>5, <1>7, <2>1, <2>2 DEF Gentle
<1>11. /\ C \in Seq(Calls) /\ Distinct(C)
       /\ \A i \in DOMAIN C : C[i] \in Calls /\ CallOK(C[i])
  <2>1. C \in Seq(Calls)
    BY <1>1 DEF IInv, ChainOK
  <2>2. QED
    BY <1>1, <2>1, ElementOfSeq, LenProperties DEF IInv, ChainOK
<1>12. \A i \in DOMAIN C : CallOK(C[i])'
  BY <1>10, <1>11, CallsStay DEF IInv
<1>13. d.added \notin Brought(C)
  <2>1. \A i \in DOMAIN C : C[i].added \in 1..created \cup {NoTab}
    BY <1>11 DEF CallOK
  <2>2. QED
    BY <1>4, <1>6, <2>1 DEF Brought
<1>14. ChainOK' /\ Replacing' = Replacing \cup {u}
  <2>1. ChainOK
    BY DEF IInv
  <2>2. ChainOK'
    BY <1>2, <1>6, <1>9, <1>11, <1>12, <1>13, <2>1, ChainKeeps
  <2>3. Brought(chain') = Brought(C) \cup ({u} \ {NoTab})
    BY <1>2, <1>6, <1>11, <1>13, AppendOf
  <2>4. u # NoTab /\ Replacing = Brought(C) /\ Replacing' = Brought(chain')
    BY <1>1, <1>4 DEF NoTab, Replacing, Brought
  <2>5. QED
    BY <2>2, <2>3, <2>4
<1>15. open' \subseteq open \cup {u} /\ kept' \in {kept, kept \cup {u}}
  BY <1>2
<1>16. QED
  BY <1>1, <1>2, <1>3, <1>14, <1>15, NewTabKeeps

LEMMA WorkerRestartsKeeps ==
    ASSUME IInv, WorkerRestarts
    PROVE  IInv'
<1> USE TabsAssumption
<1>1. /\ Fault /\ lost' = lost \cup Unrecorded \cup Replacing /\ chain' = <<>> /\ op' = Idle
      /\ resolving' = {} /\ reconciling' = {}
      /\ UNCHANGED <<created, open, owner, kept, condemned, stored, cleanupPending>>
      /\ UNCHANGED <<ended, link, reported, requests>>
  BY DEF WorkerRestarts, chromeVars, storageVars
<1>2. OperationOK' /\ op' \in Operations /\ Unrecorded' = {}
  BY <1>1, IdleIs
<1>3. CallersTypeOK'
  BY <1>1 DEF IInv, CallersTypeOK, Fault
<1>4. ChainOK'
  BY <1>1 DEF ChainOK, Distinct
<1>5. Replacing \subseteq Tabs /\ Unrecorded \subseteq Tabs
  <2>1. \A i \in DOMAIN chain : chain[i] \in Calls
    BY ElementOfSeq, LenProperties DEF IInv, ChainOK
  <2>2. Replacing \subseteq Tabs
    BY <2>1 DEF Replacing, Calls
  <2>3. Unrecorded \subseteq Tabs
    BY DEF Unrecorded, IInv, CoreTypeOK, OperationOK, Tabs
  <2>4. QED
    BY <2>2, <2>3
<1>6. CoreTypeOK'
  BY <1>1, <1>2, <1>5 DEF IInv, CoreTypeOK, Operations
<1>7. StorageOK'
  BY <1>1 DEF IInv, StorageOK
<1>8. NoTabEscapes'
  BY <1>1 DEF IInv, NoTabEscapes
<1>9. QED
  BY <1>2, <1>3, <1>4, <1>6, <1>7, <1>8 DEF IInv

-----------------------------------------------------------------------------
(* The invariant, and what follows from it                                 *)

LEMMA Init_IInv ==
    ASSUME Init
    PROVE  IInv
<1> USE TabsAssumption
<1>1. /\ created = 0 /\ open = {} /\ op = Idle /\ chain = <<>> /\ kept = {}
      /\ owner = [t \in Tabs |-> NoSession] /\ stored = [s \in Sessions |-> {}]
      /\ cleanupPending = [s \in Sessions |-> FALSE] /\ condemned = {} /\ lost = {}
  BY DEF Init
<1>2. op.step = "idle" /\ op.todo = {} /\ op.rest = {} /\ op \in Operations
  BY <1>1 DEF Idle, At, Operations, Steps
<1>3. CoreTypeOK /\ StorageOK /\ NoTabEscapes
  BY <1>1, <1>2 DEF CoreTypeOK, StorageOK, NoTabEscapes, Operations
<1>4. CallersTypeOK
  BY DEF Init, CallersTypeOK
<1>5. OperationOK
  BY <1>2 DEF OperationOK
<1>6. ChainOK
  BY <1>1 DEF ChainOK, Distinct
<1>7. QED
  BY <1>3, <1>4, <1>5, <1>6 DEF IInv

LEMMA Next_IInv ==
    ASSUME IInv, [Next]_vars
    PROVE  IInv'
<1>1. CASE ManagerStep
  BY <1>1, TurnTakenKeeps, OpenCreatesKeeps, OpenRecordsKeeps, OpenFailsKeeps, CloseRemovesKeeps,
     CloseRecordsKeeps, KeepForgetKeeps, ReplaceTabKeeps, CleanupKeeps, RetryKeeps,
     RemoveTabKeeps, DropTabKeeps DEF ManagerStep
<1>2. CASE Failure
  BY <1>2, TurnTakenKeeps, OpenFailsKeeps, RecordFailsKeeps, RemoveTabKeeps DEF Failure
<1>3. CASE \E s \in Sessions : \/ NewTab(s) \/ NewTabOpens(s) \/ TabTool(s) \/ SessionCloses(s)
                             \/ Reconcile(s)
  BY <1>3, SchedulingKeeps
<1>4. CASE Disconnects \/ Reconnects \/ CollectionTimesOut \/ Authenticated \/ Alarm
  BY <1>4, SchedulingKeeps
<1>5. CASE OtherTabOpens \/ WorkerRestarts
  BY <1>5, OtherTabOpensKeeps, WorkerRestartsKeeps
<1>6. CASE \E t \in Tabs : UserCloses(t) \/ ChromeReplaces(t)
  BY <1>6, UserClosesKeeps, ChromeReplacesKeeps
<1>7. CASE UNCHANGED vars
  <2>1. UNCHANGED <<chromeVars, kept, condemned, lost, storageVars, op, chain>>
    BY <1>7 DEF vars, historyVars
  <2>2. CallersTypeOK'
    BY <1>7 DEF vars, sessionVars, linkVars, countVars, IInv, CallersTypeOK
  <2>3. ChainOK' /\ Replacing \subseteq Replacing'
    <3>1. Gentle
      BY <2>1, StillGentle
    <3>2. PICK C : C = chain
      OBVIOUS
    <3>3. QED
      BY <2>1, <3>1, <3>2, Waiting
  <2>4. lost' \in SUBSET Tabs /\ lost' = lost
    BY <2>1 DEF IInv, CoreTypeOK
  <2>5. QED
    BY <2>1, <2>2, <2>3, <2>4, CallerKeeps
<1>8. QED
  BY <1>1, <1>2, <1>3, <1>4, <1>5, <1>6, <1>7 DEF Next

LEMMA IInvHolds == Spec => []IInv
BY Init_IInv, Next_IInv, PTL DEF Spec

\* Every variable stays in its range (ChainOK holds what waits).
THEOREM TabsTypeCorrect == Spec => []TypeOK
<1>1. ASSUME IInv
      PROVE  TypeOK
  <2>1. kept \in SUBSET Tabs
    BY <1>1, TabsAssumption DEF IInv, CoreTypeOK, Tabs
  <2>2. QED
    BY <1>1, <2>1 DEF IInv, CoreTypeOK, CallersTypeOK, ChainOK, TypeOK
<1>2. QED
  BY <1>1, IInvHolds, PTL

\* A cleanup, also one taken up again after the worker was stopped, comes only to tabs that its
\* session opened as temporary, has not kept, and had when it last asked for a cleanup.
THEOREM CleanupIsSafe == Spec => []CleanupTakesOnlyItsOwn
<1>1. ASSUME IInv
      PROVE  CleanupTakesOnlyItsOwn
  BY <1>1 DEF IInv, OperationOK, CleanupTakesOnlyItsOwn
<1>2. QED
  BY <1>1, IInvHolds, PTL

\* An open temporary tab is tracked, about to be, or kept, unless the manager had to give it up.
THEOREM TemporaryTabsAreTracked == Spec => []NoTabEscapes
<1>1. ASSUME IInv
      PROVE  NoTabEscapes
  BY <1>1 DEF IInv
<1>2. QED
  BY <1>1, IInvHolds, PTL
=============================================================================
