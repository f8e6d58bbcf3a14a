------------------------ MODULE RecordingDeliveryProofs ------------------------
(***************************************************************************)
(* Proofs about RecordingDelivery, for any sessions, names, calls and      *)
(* faults: what a caller has read to be saved is on disk, and a recording  *)
(* that has held its name since its start ends only by a stop.             *)
(*                                                                         *)
(* Two facts carry the first.  A file with a recording in it never changes *)
(* (FilesStay), as the hub opens files with "wx" and compares what is      *)
(* there.  And a state says that the server has a recording only when the  *)
(* file is there as the recording now is (Fits): its steps stop growing    *)
(* before the hub is asked, and the state stays the same until it answers. *)
(***************************************************************************)
EXTENDS RecordingDelivery, SequenceTheorems, FiniteSetTheorems, TLAPS

\* m is a recording, and what it says of the server is true of the files f.
Fits(m, f) ==
    /\ m \in ActiveRecording
    /\ m.stop \in {"server", "both"} => f[m.name] = Payload(m)
    /\ m.status \in {"active", "quarantined"} => m.stop = "none"

\* What RecordingManager may know of a session.
Sound(r, f) ==
    /\ r \in SessionState
    /\ r.mem # None => Fits(r.mem, f)
    /\ r.stored # None => Fits(r.stored, f)
    /\ r.renewing => r.mem # None
    /\ r.pending => r.mem # None /\ r.mem.status # "quarantined" /\ r.mem.steps < MaxSteps

WorkKinds == {"start", "stop", "closed", "abort", "expire", "cleanup"}
WorkItem ==
    {w \in [kind : WorkKinds, s : Here, call : 0..MaxCalls, name : Optional(Names)] :
        w.kind = "start" => w.call \in Calls /\ w.name \in Names}

HubOK ==
    /\ live \subseteq Sessions
    /\ reservation \in [Names -> Optional(Reservation)]
    /\ retained \in [Sessions -> Optional(Recording)]
    /\ files \in [Names -> Optional(Recording) \cup {Torn}]

ManagerOK ==
    /\ DOMAIN rec = Here /\ \A s \in Here : Sound(rec[s], files)
    /\ rec = [s \in Here |-> rec[s]]

\* An operation that holds the chain has its recording in memory; the hub has it, if it said so.
ChainOK ==
    /\ chain \in Optional([kind : {"stop", "act"}, s : Here, call : 0..MaxCalls,
                            at : {"authority", "persist", "local", "finish"},
                            rpc : {"sent", "yes", "no", "lost"}])
    /\ chain # None =>
          LET m == rec[chain.s].mem IN
          /\ m # None
          /\ m.status = (IF chain.at = "authority" THEN "quarantined" ELSE "stopping")
          /\ chain.at \in {"local", "finish"} \/ (chain.at = "persist" /\ chain.rpc = "yes")
                => files[m.name] = Payload(m)

RequestsOK ==
    /\ work \in Seq(WorkItem)
    /\ pass \in Optional([Here -> Optional(Renewal)])
    /\ late \subseteq [s : Here, recording : Recording]

CompletedOK ==
    /\ completed \in [Names -> Optional(Recording)]
    /\ \A n \in Names : completed[n] # None => files[n] = completed[n]

\* An answer that says the server has a recording is true.
AnswerOK(a, f) == a.server => a.recording \in Recording /\ f[a.recording.name] = a.recording

ToolOK ==
    /\ tool \in [Here -> [op : {"none", "start", "stop"}, call : 0..MaxCalls, name : Optional(Names),
                          at : {"idle", "checked", "sent"}, answer : Optional(Answers)]]
    /\ \A s \in Here :
          /\ tool[s].at = "checked" => tool[s].call \in Calls /\ tool[s].name \in Names
          /\ tool[s].answer # None => AnswerOK(tool[s].answer, files)

ToldOK == told \subseteq Recording /\ \A r \in told : files[r.name] = r
CountsOK == calls \in 0..MaxCalls /\ faults \in 0..MaxFaults

IInv ==
    /\ HubOK
    /\ ManagerOK
    /\ ChainOK
    /\ RequestsOK
    /\ CompletedOK
    /\ ToolOK
    /\ current \in [Here -> Optional(Names)]
    /\ ToldOK
    /\ CountsOK

-------------------------------------------------------------------------------
(* What an operation of RecordingManager makes of a sound state. *)

\* Setting or clearing marks that promise nothing keeps a state sound.
LEMMA HidingIsSound ==
    ASSUME NEW f, NEW r, Sound(r, f), NEW F \in SUBSET Failure
    PROVE  /\ Sound(Hidden(r), f)
           /\ Sound(Removed(r), f)
           /\ Sound(WithAlarm(r, F), f)
           /\ Sound(Cleared(r, F), f)
           /\ Sound(RetryCleanup(r, F), f)
           /\ Sound([r EXCEPT !.closed = TRUE], f)
<1>1. Sound(Hidden(r), f)
  BY DEF Sound, Hidden, SessionState, Optional
<1>2. Sound(Removed(r), f)
  BY DEF Sound, Removed, NoSession, SessionState, Optional
<1>3. Sound(WithAlarm(r, F), f)
  BY DEF Sound, WithAlarm, SessionState, Optional
<1>4. Sound(Cleared(r, F), f)
  BY DEF Sound, Cleared, Removed, NoSession, SessionState, Optional
<1>5. Sound(WithAlarm(Hidden(r), F), f)
  <2> DEFINE h == Hidden(r)
  <2>1. Sound(h, f)
    BY <1>1
  <2> HIDE DEF h
  <2>2. Sound(WithAlarm(h, F), f)
    BY <2>1 DEF Sound, WithAlarm, SessionState, Optional
  <2> QED
    BY <2>2 DEF h
<1>6. Sound(RetryCleanup(r, F), f)
  BY <1>4, <1>5 DEF RetryCleanup
<1>7. Sound([r EXCEPT !.closed = TRUE], f)
  BY DEF Sound, SessionState, Optional
<1> QED
  BY <1>1, <1>2, <1>3, <1>4, <1>6, <1>7

\* A recording whose status moves on still fits, unless it would be active again.
LEMMA StatusFits ==
    ASSUME NEW f, NEW m, Fits(m, f)
    PROVE  /\ m # None
           /\ Fits([m EXCEPT !.status = "cleanup"], f)
           /\ Fits([m EXCEPT !.status = "stopping"], f)
           /\ m.status \in {"active", "quarantined"} =>
                 /\ Fits([m EXCEPT !.status = "quarantined"], f)
                 /\ Fits([m EXCEPT !.status = "active"], f)
  BY DeliveryAssumption DEF Fits, ActiveRecording, Payload

\* Putting a recording that fits into memory, or into memory and storage.
LEMMA PlacingIsSound ==
    ASSUME NEW f, NEW r, Sound(r, f), NEW m, Fits(m, f),
           r.pending => m.status # "quarantined" /\ m.steps < MaxSteps
    PROVE  /\ Sound([r EXCEPT !.mem = m], f)
           /\ Sound([r EXCEPT !.mem = m, !.stored = m], f)
           /\ \A F \in SUBSET Failure : Sound(Kept(r, m, F), f)
<1>1. m # None /\ m \in ActiveRecording
  BY StatusFits DEF Fits
<1>2. Sound([r EXCEPT !.mem = m], f)
  BY <1>1 DEF Sound, SessionState, Optional
<1>3. Sound([r EXCEPT !.mem = m, !.stored = m], f)
  BY <1>1 DEF Sound, SessionState, Optional
<1>4. ASSUME NEW F \in SUBSET Failure
      PROVE  Sound(Kept(r, m, F), f)
  <2>1. CASE "persist" \in F
    <3>1. Kept(r, m, F) = [r EXCEPT !.mem = m]
      BY <2>1 DEF Kept, Sound, SessionState
    <3> QED
      BY <3>1, <1>2
  <2>2. CASE "persist" \notin F
    BY <2>2, <1>3 DEF Kept
  <2> QED
    BY <2>1, <2>2
<1> QED
  BY <1>2, <1>3, <1>4

LEMMA FinishStopIsSound ==
    ASSUME NEW f, NEW r, Sound(r, f), NEW F \in SUBSET Failure
    PROVE  Sound(FinishStop(r, F), f)
<1>1. CASE r.mem = None
  BY <1>1 DEF FinishStop
<1>2. CASE r.mem # None
  <2> DEFINE m == [r.mem EXCEPT !.status = "cleanup"]
             armed == WithAlarm(r, F)
             inMemory == [armed EXCEPT !.mem = m]
             inBoth == [armed EXCEPT !.mem = m, !.stored = m]
             marked == IF r.mem.status = "cleanup" THEN inMemory ELSE inBoth
             fails == r.mem.status # "cleanup" /\ "persist" \in F
  <2>1. Fits(m, f)
    BY <1>2, StatusFits DEF Sound
  <2>2. Sound(armed, f) /\ armed.mem = r.mem /\ armed.stored = r.stored /\ armed.pending = r.pending
    BY HidingIsSound DEF WithAlarm, Sound, SessionState
  <2>3. armed.pending => m.status # "quarantined" /\ m.steps < MaxSteps
    BY <2>2, <1>2 DEF Sound, Fits, ActiveRecording
  <2>4. Sound(inMemory, f) /\ Sound(inBoth, f)
    <3> HIDE DEF m, armed
    <3> QED
      BY <2>1, <2>2, <2>3, PlacingIsSound
  <2>5. Sound(marked, f)
    BY <2>4
  <2>6. Sound(Cleared(marked, F), f) /\ Sound(WithAlarm(Hidden(marked), F), f)
    <3> HIDE DEF marked
    <3>1. Sound(Cleared(marked, F), f) /\ Sound(Hidden(marked), f)
      BY <2>5, HidingIsSound
    <3> DEFINE h == Hidden(marked)
    <3> HIDE DEF h
    <3>2. Sound(h, f) => Sound(WithAlarm(h, F), f)
      BY HidingIsSound
    <3> QED
      BY <3>1, <3>2 DEF h
  <2>7. /\ [armed EXCEPT !.mem.status = "cleanup"] = inMemory
        /\ [armed EXCEPT !.mem.status = "cleanup",
                         !.stored = IF r.mem.status = "cleanup" THEN @
                                    ELSE [r.mem EXCEPT !.status = "cleanup"]] = marked
    <3> HIDE DEF armed
    <3> QED
      BY <2>2 DEF Sound, SessionState
  <2>8. FinishStop(r, F) = IF fails THEN inMemory
                           ELSE IF "remove" \in F THEN WithAlarm(Hidden(marked), F)
                           ELSE Cleared(marked, F)
    <3> HIDE DEF inMemory, marked
    <3> QED
      BY <1>2, <2>7 DEF FinishStop
  <2> HIDE DEF inMemory, marked
  <2> QED
    BY <2>4, <2>6, <2>8
<1> QED
  BY <1>1, <1>2

LEMMA RestoringIsSound ==
    ASSUME NEW f, NEW r, Sound(r, f), NEW F \in SUBSET Failure
    PROVE  Sound(Restore(r, F), f) /\ Sound(RestoreOne(r, F), f) /\ Sound(Restored(r, F), f)
<1>1. Sound(Restore(r, F), f)
  <2>1. CASE r.stored = None
    BY <2>1, HidingIsSound DEF Restore
  <2>2. CASE r.stored # None /\ r.mem # None
    BY <2>2, HidingIsSound DEF Restore
  <2>3. CASE r.stored # None /\ r.mem = None
    <3> DEFINE m == [r.stored EXCEPT !.status = IF @ = "active" THEN "quarantined" ELSE @]
               placed == [r EXCEPT !.mem = m]
               alarm == r.alarm \/ (r.stored.status = "cleanup" /\ "alarm" \notin F)
    <3>1. Fits(r.stored, f) /\ ~r.pending
      BY <2>3 DEF Sound, SessionState
    <3>2. m = IF r.stored.status = "active" THEN [r.stored EXCEPT !.status = "quarantined"] ELSE r.stored
      BY <3>1 DEF Fits, ActiveRecording
    <3>3. Fits(m, f)
      BY <3>1, <3>2, StatusFits
    <3>4. Sound(placed, f)
      <4> HIDE DEF m
      <4> QED
        BY <3>1, <3>3, PlacingIsSound
    <3>5. Restore(r, F) = [placed EXCEPT !.alarm = alarm]
      <4> HIDE DEF m
      <4>1. Restore(r, F) = [r EXCEPT !.mem = m, !.alarm = alarm]
        BY <2>3 DEF Restore, m, Sound, SessionState
      <4> QED
        BY <4>1 DEF Sound, SessionState
    <3>6. alarm \in BOOLEAN
      BY DEF Sound, SessionState
    <3> HIDE DEF placed, alarm
    <3> QED
      BY <3>4, <3>5, <3>6 DEF Sound, SessionState
  <2> QED
    BY <2>1, <2>2, <2>3
<1>2. Sound(FinishStop(Restore(r, F), F), f)
  <2> DEFINE q == Restore(r, F)
  <2> HIDE DEF q
  <2>1. Sound(q, f) => Sound(FinishStop(q, F), f)
    BY FinishStopIsSound
  <2> QED
    BY <2>1, <1>1 DEF q
<1>3. Sound(RestoreOne(r, F), f)
  BY <1>1, HidingIsSound DEF RestoreOne
<1>4. Sound(Restored(r, F), f)
  BY <1>1, <1>2, HidingIsSound DEF Restored
<1> QED
  BY <1>1, <1>3, <1>4

\* The rest of the helpers.
LEMMA PreparedIsSound ==
    ASSUME NEW f, NEW r, Sound(r, f)
    PROVE  Sound(Prepared(r), f)
  BY DEF Sound, Prepared, SessionState

LEMMA PromotedIsSound ==
    ASSUME NEW f, NEW r, Sound(r, f), Quarantined(r), NEW F \in SUBSET Failure
    PROVE  Sound(Promoted(r, F), f)
<1> DEFINE m == [r.mem EXCEPT !.status = "active"]
<1>1. Fits(m, f)
  BY StatusFits DEF Quarantined, Sound
<1>2. ~r.pending
  BY DEF Quarantined, Sound, SessionState
<1> HIDE DEF m
<1>3. Sound(Kept(r, m, F), f)
  BY <1>1, <1>2, PlacingIsSound
<1> QED
  BY <1>3 DEF Promoted, m

LEMMA AfterRenewalIsSound ==
    ASSUME NEW f, NEW r, Sound(r, f), NEW answer, NEW F \in SUBSET Failure
    PROVE  Sound([AfterRenewal(r, answer, F) EXCEPT !.renewing = FALSE], f)
<1>0. PICK q : q = AfterRenewal(r, answer, F)
  OBVIOUS
<1>1. Sound(FinishStop(r, F), f)
  BY FinishStopIsSound
<1>2. Quarantined(r) => Sound(Promoted(r, F), f)
  BY PromotedIsSound
<1>3. q \in {r, FinishStop(r, F)} \/ (Quarantined(r) /\ q = Promoted(r, F))
  BY <1>0 DEF AfterRenewal
<1>4. Sound(q, f)
  BY <1>1, <1>2, <1>3
<1>5. Sound([q EXCEPT !.renewing = FALSE], f)
  BY <1>4 DEF Sound, SessionState
<1> QED
  BY <1>0, <1>5

LEMMA GatheredIsSound ==
    ASSUME NEW f, NEW r, Sound(r, f), NEW F \in SUBSET Failure
    PROVE  Sound(Gathered(r, F), f)
<1>0. PICK q : q = Restore(r, F)
  OBVIOUS
<1>1. Sound(q, f)
  BY <1>0, RestoringIsSound
<1>2. Sound(FinishStop(q, F), f)
  BY <1>1, FinishStopIsSound
<1>3. q.mem # None => /\ Sound([q EXCEPT !.deferred = TRUE], f)
                      /\ Sound([q EXCEPT !.renewing = TRUE, !.deferred = FALSE], f)
  BY <1>1 DEF Sound, SessionState
<1>4. Sound(RetryCleanup(r, F), f)
  BY HidingIsSound
<1> QED
  BY <1>0, <1>1, <1>2, <1>3, <1>4 DEF Gathered, InCleanup

LEMMA RolledBackIsSound ==
    ASSUME NEW f, NEW r, Sound(r, f), ~r.pending, ~r.renewing, NEW F \in SUBSET Failure
    PROVE  Sound(RolledBack(r, F), f)
<1>0. PICK q : q = [r EXCEPT !.mem = None, !.closed = TRUE, !.fallback = TRUE]
  OBVIOUS
<1>1. Sound(q, f)
  BY <1>0 DEF Sound, SessionState, Optional
<1>2. PICK a : a = WithAlarm(q, F)
  OBVIOUS
<1>3. Sound(a, f)
  BY <1>1, <1>2, HidingIsSound
<1>4. Sound(RetryCleanup(a, F), f)
  BY <1>3, HidingIsSound
<1> QED
  BY <1>0, <1>2, <1>4 DEF RolledBack

-------------------------------------------------------------------------------
(* The disk. *)

\* Recordings on disk stay as they are.
Grows == \A n \in Names : files[n] \in Recording => files'[n] = files[n]

\* persistRecording answers yes only for what is on disk, and overwrites nothing.
LEMMA FilesStay ==
    ASSUME HubOK, NEW s \in Sessions, NEW r \in Recording, NEW outcome, NEW yes,
           Persist(s, r, outcome, yes)
    PROVE  HubOK' /\ Grows /\ (yes => files'[r.name] = r)
<1>1. r.name \in Names /\ None \notin Recording
  BY ReservationAssumption DEF Recording
<1>2. CASE ~(MayPersist(s, r) /\ MayWrite(r))
  BY <1>2 DEF Persist, HubOK, Grows
<1>3. CASE MayPersist(s, r) /\ MayWrite(r)
  <2>1. outcome \in Outcomes(r) /\ files' = [files EXCEPT ![r.name] = FileAfter(r, outcome)]
    BY <1>3 DEF Persist
  <2>2. outcome \in {"saved", "unsynced", "failed"} \/ (outcome = "torn" /\ files[r.name] = None)
    BY <2>1 DEF Outcomes
  <2>3. FileAfter(r, outcome) = CASE outcome \in {"saved", "unsynced"} -> r
                                  [] outcome = "failed" -> files[r.name]
                                  [] outcome = "torn" -> Torn
    BY DEF FileAfter
  <2>4. FileAfter(r, outcome) \in {r, files[r.name], Torn}
    BY <2>2, <2>3
  <2>5. files' \in [Names -> Optional(Recording) \cup {Torn}]
    BY <1>1, <2>1, <2>4 DEF HubOK, Optional
  <2>6. files[r.name] \in Recording => FileAfter(r, outcome) = files[r.name]
    BY <1>1, <1>3, <2>2, <2>3 DEF MayWrite
  <2>7. Grows
    BY <1>1, <2>1, <2>6 DEF Grows, HubOK
  <2>8. yes => files'[r.name] = r
    BY <1>1, <2>1, <2>3 DEF Persist, HubOK
  <2>9. /\ live' = live
        /\ \/ UNCHANGED <<reservation, retained>>
           \/ Terminate(r.name)
           \/ retained' = [retained EXCEPT ![s] = r] /\ UNCHANGED reservation
    BY <1>3, <2>2 DEF Persist
  <2>10. reservation' \in [Names -> Optional(Reservation)] /\ retained' \in [Sessions -> Optional(Recording)]
    BY <2>9 DEF HubOK, Terminate, RetainedWithout, Optional
  <2> QED
    BY <2>5, <2>7, <2>8, <2>9, <2>10 DEF HubOK
<1> QED
  BY <1>2, <1>3

\* A sound state stays sound while recordings on disk stay as they are.
LEMMA SoundStays ==
    ASSUME Grows, NEW r, Sound(r, files)
    PROVE  Sound(r, files')
<1>1. ASSUME NEW m, Fits(m, files)
      PROVE  Fits(m, files')
  <2>1. Payload(m) \in Recording /\ Payload(m).name = m.name /\ m.name \in Names
    BY <1>1 DEF Fits, ActiveRecording, Payload, Recording
  <2> QED
    BY <1>1, <2>1 DEF Fits, Grows
<1> QED
  BY <1>1 DEF Sound

\* What a step leaves alone stays as the invariant has it.
LEMMA Frame ==
    ASSUME IInv, Grows
    PROVE  /\ UNCHANGED hubVars => HubOK'
           /\ UNCHANGED rec => ManagerOK'
           /\ UNCHANGED <<rec, chain>> => ChainOK'
           /\ chain' = None => ChainOK'
           /\ UNCHANGED <<work, pass, late>> => RequestsOK'
           /\ UNCHANGED completed => CompletedOK'
           /\ UNCHANGED tool => ToolOK'
           /\ UNCHANGED told => ToldOK'
<1> USE DEF IInv
<1>1. UNCHANGED hubVars => HubOK'
  BY DEF HubOK, hubVars
<1>2. UNCHANGED rec => ManagerOK'
  BY SoundStays DEF ManagerOK
<1>3. ASSUME UNCHANGED <<rec, chain>> PROVE ChainOK'
  <2>1. CASE chain = None
    BY <1>3, <2>1 DEF ChainOK
  <2>2. CASE chain # None
    <3>1. chain.s \in Here
      BY <2>2 DEF ChainOK, Optional
    <3>2. rec[chain.s].mem # None => rec[chain.s].mem \in ActiveRecording
      BY <3>1 DEF ManagerOK, Sound, Fits
    <3>3. PICK c, m : c = chain /\ m = rec[chain.s].mem
      OBVIOUS
    <3>4. /\ m # None
          /\ m.status = (IF c.at = "authority" THEN "quarantined" ELSE "stopping")
          /\ c.at \in {"local", "finish"} \/ (c.at = "persist" /\ c.rpc = "yes")
                => files[m.name] = Payload(m)
      BY <2>2, <3>3 DEF ChainOK
    <3>5. Payload(m) \in Recording /\ m.name \in Names
      BY <3>2, <3>3, <3>4 DEF ActiveRecording, Payload, Recording
    <3>6. c.at \in {"local", "finish"} \/ (c.at = "persist" /\ c.rpc = "yes")
             => files'[m.name] = Payload(m)
      BY <3>4, <3>5 DEF Grows
    <3>7. chain' = c /\ rec'[chain'.s].mem = m
      BY <1>3, <3>3
    <3> QED
      BY <1>3, <3>3, <3>4, <3>6, <3>7 DEF ChainOK
  <2> QED
    BY <2>1, <2>2
<1>4. chain' = None => ChainOK'
  BY DEF ChainOK, Optional
<1>5. UNCHANGED <<work, pass, late>> => RequestsOK'
  BY DEF RequestsOK
<1>6. UNCHANGED completed => CompletedOK'
  BY ReservationAssumption DEF CompletedOK, Optional, Grows
<1>7. UNCHANGED tool => ToolOK'
  <2>1. \A a : AnswerOK(a, files) => AnswerOK(a, files')
    BY DEF AnswerOK, Grows, Recording
  <2> QED
    BY <2>1 DEF ToolOK
<1>8. UNCHANGED told => ToldOK'
  BY DEF ToldOK, Grows, Recording
<1> QED
  BY <1>1, <1>2, <1>3, <1>4, <1>5, <1>6, <1>7, <1>8

LEMMA DiskUnchanged ==
    ASSUME UNCHANGED hubVars
    PROVE  Grows
  BY DEF Grows, hubVars

-------------------------------------------------------------------------------
(* Faults, answers, and the operations that wait their turn. *)

LEMMA FaultsCounted ==
    ASSUME faults \in 0..MaxFaults, NEW F, NEW kinds \in SUBSET Failure, FailsWith(F, kinds)
    PROVE  F \in SUBSET Failure /\ faults' \in 0..MaxFaults
<1>1. F \in SUBSET Failure
  BY DEF FailsWith
<1>2. IsFiniteSet(Failure)
  <2>1. ASSUME NEW x, NEW y PROVE IsFiniteSet({x, y})
    <3>1. IsFiniteSet({} \cup {x})
      BY FS_EmptySet, FS_AddElement
    <3>2. IsFiniteSet(({} \cup {x}) \cup {y})
      BY <3>1, FS_AddElement
    <3>3. {x, y} = ({} \cup {x}) \cup {y}
      OBVIOUS
    <3> QED
      BY <3>2, <3>3
  <2>2. IsFiniteSet({"persist", "remove"} \cup {"read", "alarm"})
    BY <2>1, FS_Union
  <2>3. IsFiniteSet(({"persist", "remove"} \cup {"read", "alarm"}) \cup {"clear", "local"})
    BY <2>1, <2>2, FS_Union
  <2>4. Failure = ({"persist", "remove"} \cup {"read", "alarm"}) \cup {"clear", "local"}
    BY DEF Failure
  <2> QED
    BY <2>3, <2>4
<1>3. Cardinality(F) \in Nat
  BY <1>1, <1>2, FS_Subset, FS_CardinalityType
<1> QED
  BY <1>1, <1>3, DeliveryAssumption DEF FailsWith

LEMMA FaultCounted ==
    ASSUME faults \in 0..MaxFaults, Fault
    PROVE  faults' \in 0..MaxFaults
  BY DeliveryAssumption DEF Fault

LEMMA AnswerIsTrue ==
    ASSUME IInv, UNCHANGED files, NEW s \in Here, NEW call, NEW a \in Answers, AnswerOK(a, files),
           Answer(s, call, a)
    PROVE  ToolOK'
<1>1. UNCHANGED tool => ToolOK'
  BY DEF IInv, ToolOK
<1>2. CASE tool' = [tool EXCEPT ![s].answer = a]
  BY <1>2 DEF IInv, ToolOK, Optional
<1> QED
  BY <1>1, <1>2 DEF Answer

LEMMA FailedIsTrue ==
    Failed \in Answers /\ [Failed EXCEPT !.ok = TRUE] \in Answers
    /\ AnswerOK(Failed, files) /\ AnswerOK([Failed EXCEPT !.ok = TRUE], files)
  BY DEF Failed, Answers, AnswerOK, Optional

LEMMA StoppedIsTrue ==
    ASSUME NEW m \in ActiveRecording, NEW server \in BOOLEAN, server => files[m.name] = Payload(m)
    PROVE  Stopped(server, m) \in Answers /\ AnswerOK(Stopped(server, m), files)
  BY DEF Stopped, Answers, AnswerOK, Optional, Payload, ActiveRecording, Recording

LEMMA Taken ==
    ASSUME IInv, NEW i \in Items
    PROVE  /\ work[i] \in WorkItem
           /\ Without(work, i) \in Seq(WorkItem)
  BY DEF IInv, RequestsOK, Items, Without

LEMMA Queued ==
    ASSUME NEW q \in Seq(WorkItem), NEW w \in WorkItem
    PROVE  Append(q, w) \in Seq(WorkItem)
  OBVIOUS

\* The states of RecordingManager after a step that leaves the disk alone.
LEMMA OneStateChanges ==
    ASSUME IInv, UNCHANGED files, NEW s \in Here, NEW r, Sound(r, files), rec' = [rec EXCEPT ![s] = r]
    PROVE  ManagerOK' /\ rec'[s] = r
<1>1. rec' = [x \in Here |-> IF x = s THEN r ELSE rec[x]]
  BY DEF IInv, ManagerOK
<1>2. \A x \in Here : Sound(rec'[x], files)
  BY <1>1 DEF IInv, ManagerOK
<1> QED
  BY <1>1, <1>2 DEF ManagerOK

LEMMA StatesChange ==
    ASSUME IInv, UNCHANGED files, NEW r, DOMAIN r = Here, r = [s \in Here |-> r[s]],
           \A s \in Here : Sound(r[s], files), rec' = r
    PROVE  ManagerOK'
  BY DEF ManagerOK

-------------------------------------------------------------------------------
(* One step of each action: the tools. *)

ToolState == [op : {"none", "start", "stop"}, call : 0..MaxCalls, name : Optional(Names),
              at : {"idle", "checked", "sent"}, answer : Optional(Answers)]

\* The call of one session changes.
LEMMA OneToolChanges ==
    ASSUME IInv, Grows, NEW s \in Here, NEW t \in ToolState, tool' = [tool EXCEPT ![s] = t],
           t.at = "checked" => t.call \in Calls /\ t.name \in Names,
           t.answer \in {None, Failed, tool[s].answer}
    PROVE  ToolOK' /\ tool'[s] = t
<1>1. tool \in [Here -> ToolState]
  BY DEF IInv, ToolOK, ToolState
<1>2. tool' \in [Here -> ToolState] /\ \A x \in Here : tool'[x] = IF x = s THEN t ELSE tool[x]
  BY <1>1
<1>3. \A a : AnswerOK(a, files) => AnswerOK(a, files')
  BY DEF AnswerOK, Grows, Recording
<1>4. t.answer # None => AnswerOK(t.answer, files')
  BY <1>3, FailedIsTrue DEF IInv, ToolOK
<1> QED
  BY <1>1, <1>2, <1>3, <1>4 DEF IInv, ToolOK, ToolState

LEMMA CallOfATool ==
    ASSUME IInv, Grows, NEW s \in Here, NEW op \in {"start", "stop"}, NEW name \in Optional(Names),
           NEW at \in {"checked", "sent"}, at = "checked" => name \in Names,
           Calling(s, op, name, at), UNCHANGED faults
    PROVE  ToolOK' /\ CountsOK' /\ tool'[s].call \in 0..MaxCalls /\ tool'[s].name = name
<1>1. calls \in 0..MaxCalls /\ MaxCalls \in Nat
  BY ReservationAssumption DEF IInv, CountsOK
<1>2. calls + 1 \in Calls /\ calls' = calls + 1 /\ calls' \in 0..MaxCalls
  BY <1>1 DEF Calling, Calls
<1>3. PICK t : t = [op |-> op, call |-> calls + 1, name |-> name, at |-> at, answer |-> None]
  OBVIOUS
<1>4. t \in ToolState
  BY <1>1, <1>2, <1>3 DEF ToolState, Optional
<1>5. tool' = [tool EXCEPT ![s] = t]
  BY <1>3 DEF Calling
<1>6. ToolOK' /\ tool'[s] = t
  BY <1>2, <1>3, <1>4, <1>5, OneToolChanges
<1> QED
  BY <1>2, <1>3, <1>4, <1>6 DEF IInv, CountsOK, ToolState

LEMMA EndOfACall ==
    ASSUME IInv, Grows, NEW s \in Here, Ends(s)
    PROVE  ToolOK'
<1>1. PICK t : t = NoTool
  OBVIOUS
<1>2. t \in ToolState /\ t.at = "idle" /\ t.answer = None
  BY <1>1, ReservationAssumption DEF NoTool, ToolState, Optional
<1> QED
  BY <1>1, <1>2, OneToolChanges DEF Ends

LEMMA CallStartStep ==
    ASSUME IInv, NEW s \in Here, NEW n \in Names, CallStart(s, n)
    PROVE  IInv'
<1>1. Grows
  BY DiskUnchanged DEF CallStart
<1>2. ToolOK' /\ CountsOK'
  BY <1>1, CallOfATool DEF CallStart, Optional
<1>3. current' \in [Here -> Optional(Names)]
  BY DEF IInv, CallStart, Optional
<1> QED
  BY <1>1, <1>2, <1>3, Frame DEF CallStart, IInv, extensionVars

LEMMA ReserveNameStep ==
    ASSUME IInv, NEW s \in Here, ReserveName(s)
    PROVE  IInv'
<1>1. Grows
  BY DEF ReserveName, Reserve, Grows, hubVars
<1>2. PICK n, t : n = tool[s].name /\ t = tool[s]
  OBVIOUS
<1>3. t \in ToolState /\ t.call \in Calls /\ n \in Names /\ s \in Sessions
  BY <1>2, DeliveryAssumption DEF IInv, ToolOK, ToolState, ReserveName
<1>4. CASE reservation[n] = None
  <2>1. HubOK'
    BY <1>2, <1>3, <1>4 DEF IInv, HubOK, ReserveName, Reserve, Reservation, Optional
  <2>2. current' \in [Here -> Optional(Names)]
    BY <1>2, <1>3, <1>4 DEF IInv, ReserveName, Optional
  <2>3. PICK u : u = [t EXCEPT !.at = "sent"]
    OBVIOUS
  <2>4. tool' = [tool EXCEPT ![s] = u]
    BY <1>2, <1>4, <2>3 DEF ReserveName
  <2>5. u \in ToolState /\ u.at = "sent" /\ u.answer = t.answer /\ u.call = t.call /\ u.name = t.name
    BY <1>3, <2>3 DEF ToolState
  <2>6. ToolOK' /\ tool'[s] = u
    BY <1>1, <1>2, <2>4, <2>5, OneToolChanges
  <2>7. work' \in Seq(WorkItem)
    <3>1. PICK w : w = [kind |-> "start", s |-> s, call |-> u.call, name |-> u.name]
      OBVIOUS
    <3>2. w \in WorkItem
      BY <1>2, <1>3, <2>5, <3>1 DEF WorkItem, WorkKinds, Optional, ToolState
    <3>3. work' = Append(work, w)
      BY <1>2, <1>4, <2>6, <3>1 DEF ReserveName, Ask
    <3> QED
      BY <3>2, <3>3, Queued DEF IInv, RequestsOK
  <2> QED
    BY <1>1, <2>1, <2>2, <2>6, <2>7, Frame DEF ReserveName, IInv, RequestsOK, CountsOK
<1>5. CASE reservation[n] # None
  <2>1. ToolOK'
    BY <1>1, <1>2, <1>5, EndOfACall DEF ReserveName
  <2> QED
    BY <1>1, <1>2, <1>5, <2>1, Frame DEF ReserveName, IInv, CountsOK
<1> QED
  BY <1>4, <1>5

LEMMA CallStopStep ==
    ASSUME IInv, NEW s \in Here, CallStop(s)
    PROVE  IInv'
<1>1. Grows
  BY DiskUnchanged DEF CallStop
<1>2. ToolOK' /\ CountsOK' /\ tool'[s].call \in 0..MaxCalls /\ tool'[s].name = None
  BY <1>1, CallOfATool DEF CallStop, Optional
<1>3. work' \in Seq(WorkItem)
  <2>1. PICK w : w = [kind |-> "stop", s |-> s, call |-> tool'[s].call, name |-> tool'[s].name]
    OBVIOUS
  <2>2. w \in WorkItem
    BY <1>2, <2>1 DEF WorkItem, WorkKinds, Optional
  <2>3. work' = Append(work, w)
    BY <2>1 DEF CallStop, Ask
  <2> QED
    BY <2>2, <2>3, Queued DEF IInv, RequestsOK
<1> QED
  BY <1>1, <1>2, <1>3, Frame DEF CallStop, IInv, RequestsOK

LEMMA NameLetGo ==
    ASSUME IInv, NEW s \in Here, LetGo(s)
    PROVE  HubOK' /\ Grows /\ current' \in [Here -> Optional(Names)]
<1>1. Grows
  BY DEF LetGo, Release, Grows
<1>2. current' \in [Here -> Optional(Names)]
  BY DEF IInv, LetGo, Optional
<1>3. HubOK'
  BY DEF LetGo, Release, Terminate, RetainedWithout, HubOK, IInv, Optional
<1> QED
  BY <1>1, <1>2, <1>3

LEMMA StartReturnsStep ==
    ASSUME IInv, NEW s \in Here, StartReturns(s)
    PROVE  IInv'
<1>1. HubOK' /\ Grows /\ current' \in [Here -> Optional(Names)]
  BY NameLetGo, DiskUnchanged, Frame DEF StartReturns, IInv
<1>2. ToolOK'
  BY <1>1, EndOfACall DEF StartReturns
<1> QED
  BY <1>1, <1>2, Frame DEF StartReturns, IInv, CountsOK, extensionVars

LEMMA StopReturnsStep ==
    ASSUME IInv, NEW s \in Here, StopReturns(s)
    PROVE  IInv'
<1>1. HubOK' /\ Grows /\ current' \in [Here -> Optional(Names)]
  <2>1. LetGo(s) \/ UNCHANGED <<hubVars, current>>
    BY DEF StopReturns
  <2> QED
    BY <2>1, NameLetGo, DiskUnchanged, Frame DEF IInv
<1>2. ToolOK'
  BY <1>1, EndOfACall DEF StopReturns
<1>3. ToldOK'
  <2>1. UNCHANGED told => ToldOK'
    BY <1>1, Frame
  <2>2. PICK a : a = tool[s].answer
    OBVIOUS
  <2>3. a # None /\ AnswerOK(a, files)
    BY <2>2 DEF IInv, ToolOK, StopReturns, Returned
  <2>4. CASE told' = told \cup {a.recording} /\ a.server
    BY <1>1, <2>3, <2>4 DEF AnswerOK, IInv, ToldOK, Grows, Recording
  <2> QED
    BY <2>1, <2>2, <2>4 DEF StopReturns, Acknowledged
<1> QED
  BY <1>1, <1>2, <1>3, Frame DEF StopReturns, IInv, CountsOK, extensionVars

LEMMA GiveUpStep ==
    ASSUME IInv, NEW s \in Here, GiveUp(s)
    PROVE  IInv'
<1>1. Grows
  BY DiskUnchanged DEF GiveUp
<1>2. PICK t : t = [tool[s] EXCEPT !.answer = Failed]
  OBVIOUS
<1>3. tool[s] \in ToolState
  BY DEF IInv, ToolOK, ToolState
<1>4. t \in ToolState /\ t.answer = Failed /\ t.at = "sent"
  BY <1>2, <1>3, FailedIsTrue DEF ToolState, Optional, GiveUp
<1>5. tool' = [tool EXCEPT ![s] = t]
  BY <1>2 DEF GiveUp
<1>6. ToolOK'
  BY <1>1, <1>4, <1>5, OneToolChanges
<1>7. CountsOK'
  BY FaultCounted DEF GiveUp, IInv, CountsOK
<1> QED
  BY <1>1, <1>6, <1>7, Frame DEF GiveUp, IInv, extensionVars

-------------------------------------------------------------------------------
(* The hub, and sessions that record elsewhere. *)

LEMMA LapseStep ==
    ASSUME IInv, NEW n \in Names, LapseOf(n)
    PROVE  IInv'
<1>1. Grows
  BY DEF LapseOf, Lapse, Grows
<1>2. HubOK' /\ reservation[n] \in Reservation
  BY DEF LapseOf, Lapse, Terminate, RetainedWithout, HubOK, IInv, Optional
<1>3. work' \in Seq(WorkItem)
  <2>1. CASE work' = work
    BY <2>1 DEF IInv, RequestsOK
  <2>2. CASE work' # work
    <3>1. PICK w : w = [kind |-> "expire", s |-> reservation[n].by, call |-> 0, name |-> n]
      OBVIOUS
    <3>2. w.s \in Here /\ work' = Append(work, w)
      BY <2>2, <3>1 DEF LapseOf
    <3>3. w \in WorkItem
      BY <3>1, <3>2, ReservationAssumption DEF WorkItem, WorkKinds, Optional
    <3> QED
      BY <3>2, <3>3, Queued DEF IInv, RequestsOK
  <2> QED
    BY <2>1, <2>2
<1> QED
  BY <1>1, <1>2, <1>3, Frame DEF LapseOf, IInv, RequestsOK, CountsOK, toolVars

LEMMA HubForgetsSession ==
    ASSUME IInv, NEW s \in Sessions, EndSession(s)
    PROVE  HubOK' /\ Grows
  BY DEF EndSession, HubOK, IInv, Optional, Grows

LEMMA SessionEndsStep ==
    ASSUME IInv, NEW s \in Here, SessionEnds(s)
    PROVE  IInv'
<1>1. HubOK' /\ Grows
  BY HubForgetsSession, DeliveryAssumption DEF SessionEnds
<1>2. ToolOK'
  BY <1>1, EndOfACall DEF SessionEnds, Ends
<1>3. current' \in [Here -> Optional(Names)]
  BY DEF SessionEnds, IInv, Optional
<1>4. work' \in Seq(WorkItem)
  <2>1. PICK w : w = [kind |-> "closed", s |-> s, call |-> 0, name |-> None]
    OBVIOUS
  <2>2. w \in WorkItem
    BY <2>1, ReservationAssumption DEF WorkItem, WorkKinds, Optional
  <2>3. work' \in {work, Append(work, w)}
    BY <2>1 DEF SessionEnds
  <2> QED
    BY <2>2, <2>3, Queued DEF IInv, RequestsOK
<1> QED
  BY <1>1, <1>2, <1>3, <1>4, Frame DEF SessionEnds, IInv, RequestsOK, CountsOK

LEMMA ElsewhereSteps ==
    ASSUME IInv, NEW s \in Elsewhere,
           EndElsewhere(s) \/ \E n \in Names : ReserveElsewhere(s, n) \/ PersistElsewhere(s, n)
    PROVE  IInv'
<1>1. s \in Sessions
  BY DEF Elsewhere
<1>2. CASE EndElsewhere(s)
  <2>1. HubOK' /\ Grows
    BY <1>1, <1>2, HubForgetsSession DEF EndElsewhere
  <2> QED
    BY <1>2, <2>1, Frame DEF EndElsewhere, IInv, CountsOK, extensionVars, toolVars
<1>3. ASSUME NEW n \in Names, ReserveElsewhere(s, n)
      PROVE  IInv'
  <2>1. calls + 1 \in Calls /\ calls' \in 0..MaxCalls
    BY <1>3, ReservationAssumption DEF ReserveElsewhere, Calls, IInv, CountsOK
  <2>2. HubOK' /\ Grows
    BY <1>1, <1>3, <2>1 DEF ReserveElsewhere, Reserve, HubOK, IInv, Optional, Reservation, Grows
  <2> QED
    BY <1>3, <2>1, <2>2, Frame DEF ReserveElsewhere, IInv, CountsOK, extensionVars
<1>4. ASSUME NEW n \in Names, PersistElsewhere(s, n)
      PROVE  IInv'
  <2>1. PICK r, yes : /\ r = [name |-> n, start |-> reservation[n].start, steps |-> 0]
                      /\ Persist(s, r, "saved", yes)
    BY <1>4 DEF PersistElsewhere
  <2>2. reservation[n] \in Reservation
    BY <1>4 DEF PersistElsewhere, Holds, IInv, HubOK, Optional
  <2>3. r \in Recording
    BY <2>1, <2>2, ReservationAssumption DEF Reservation, Recording
  <2>4. HubOK' /\ Grows
    BY <1>1, <2>1, <2>3, FilesStay DEF IInv
  <2> QED
    BY <1>4, <2>4, Frame DEF PersistElsewhere, IInv, CountsOK, extensionVars, toolVars
<1> QED
  BY <1>2, <1>3, <1>4

-------------------------------------------------------------------------------
(* RecordingManager, one operation at a time. *)

LEMMA PrepareStep ==
    ASSUME IInv, NEW s \in Here, RunPrepare(s)
    PROVE  IInv'
<1>1. PICK F : /\ FailsWith(F, {"persist", "remove", "alarm", "clear"})
               /\ LET r == RestoreAll(F)[s] IN
                  IF ~r.closed /\ ~Busy(r) /\ Quarantined(r)
                  THEN rec' = RestoreAll(F) /\ Hold("act", s, 0, "authority")
                  ELSE /\ rec' = [RestoreAll(F) EXCEPT ![s] = IF r.closed \/ Busy(r) THEN r ELSE Prepared(r)]
                       /\ KeepsChain
  BY DEF RunPrepare
<1>2. F \in SUBSET Failure /\ faults' \in 0..MaxFaults
  BY <1>1, FaultsCounted DEF IInv, CountsOK, Failure
<1>3. PICK q : q = RestoreAll(F)
  OBVIOUS
<1>4. q = [x \in Here |-> q[x]] /\ DOMAIN q = Here /\ \A x \in Here : Sound(q[x], files)
  BY <1>2, <1>3, RestoringIsSound DEF RestoreAll, IInv, ManagerOK
<1>5. UNCHANGED hubVars /\ Grows
  BY DiskUnchanged DEF RunPrepare
<1>6. chain = None
  BY DEF RunPrepare, ChainIdle
<1>7. ManagerOK' /\ ChainOK'
  <2>1. CASE ~q[s].closed /\ ~Busy(q[s]) /\ Quarantined(q[s])
    <3>1. rec' = q /\ Hold("act", s, 0, "authority")
      BY <1>1, <1>3, <2>1
    <3>2. ManagerOK'
      BY <1>4, <1>5, <3>1, StatesChange DEF hubVars
    <3>3. ChainOK'
      BY <2>1, <3>1, ReservationAssumption DEF Hold, ChainOK, Optional, Quarantined
    <3> QED
      BY <3>2, <3>3
  <2>2. CASE ~(~q[s].closed /\ ~Busy(q[s]) /\ Quarantined(q[s]))
    <3>1. PICK r : r = IF q[s].closed \/ Busy(q[s]) THEN q[s] ELSE Prepared(q[s])
      OBVIOUS
    <3>2. Sound(r, files)
      BY <1>4, <3>1, PreparedIsSound
    <3>3. rec' = [q EXCEPT ![s] = r] /\ chain' = chain
      BY <1>1, <1>3, <2>2, <3>1 DEF KeepsChain
    <3>4. ManagerOK'
      <4>1. PICK p : p = [q EXCEPT ![s] = r]
        OBVIOUS
      <4>2. p = [x \in Here |-> p[x]] /\ DOMAIN p = Here /\ \A x \in Here : Sound(p[x], files)
        BY <1>4, <3>2, <4>1
      <4> QED
        BY <1>5, <3>3, <4>1, <4>2, StatesChange DEF hubVars
    <3> QED
      BY <1>5, <1>6, <3>3, <3>4, Frame
  <2> QED
    BY <2>1, <2>2
<1> QED
  BY <1>2, <1>5, <1>7, Frame DEF RunPrepare, IInv, CountsOK, toolVars

LEMMA CommitStep ==
    ASSUME IInv, NEW s \in Here, RunCommit(s)
    PROVE  IInv'
<1>1. PICK F, done : /\ FailsWith(F, {"persist"})
                     /\ LET r == [rec[s] EXCEPT !.pending = FALSE] IN
                        rec' = [rec EXCEPT ![s] =
                                  IF done /\ ~r.closed /\ r.mem # None /\ r.mem.status = "active"
                                  THEN Kept(r, [r.mem EXCEPT !.steps = @ + 1], F) ELSE r]
  BY DEF RunCommit
<1>2. F \in SUBSET Failure /\ faults' \in 0..MaxFaults
  BY <1>1, FaultsCounted DEF IInv, CountsOK, Failure
<1>3. PICK r, m : r = [rec[s] EXCEPT !.pending = FALSE] /\ m = [r.mem EXCEPT !.steps = @ + 1]
  OBVIOUS
<1>4. Sound(rec[s], files)
  BY DEF IInv, ManagerOK
<1>5. Sound(r, files) /\ ~r.pending /\ r.mem = rec[s].mem
  BY <1>3, <1>4 DEF Sound, SessionState
<1>6. r.mem # None /\ r.mem.status = "active" => Fits(m, files)
  BY <1>3, <1>4, <1>5, ReservationAssumption DEF RunCommit, Sound, Fits, ActiveRecording
<1>7. r.mem # None /\ r.mem.status = "active" => Sound(Kept(r, m, F), files)
  BY <1>2, <1>5, <1>6, PlacingIsSound
<1>8. PICK q : q = IF done /\ ~r.closed /\ r.mem # None /\ r.mem.status = "active"
                   THEN Kept(r, m, F) ELSE r
  OBVIOUS
<1>9. Sound(q, files) /\ rec' = [rec EXCEPT ![s] = q]
  BY <1>1, <1>3, <1>5, <1>7, <1>8
<1>10. UNCHANGED hubVars /\ Grows
  BY DiskUnchanged DEF RunCommit
<1>11. ManagerOK'
  BY <1>9, <1>10, OneStateChanges DEF hubVars
<1>12. chain' = None
  BY DEF RunCommit, ChainIdle
<1> QED
  BY <1>2, <1>10, <1>11, <1>12, Frame DEF RunCommit, IInv, CountsOK, toolVars

LEMMA StartStep ==
    ASSUME IInv, NEW i \in Items, RunStart(i)
    PROVE  IInv'
<1>1. PICK F : FailsWith(F, Failure \ {"local"}) /\ Start(i, F)
  BY DEF RunStart
<1>2. F \in SUBSET Failure /\ faults' \in 0..MaxFaults
  BY <1>1, FaultsCounted DEF IInv, CountsOK, Failure
<1>3. PICK w, q : w = work[i] /\ q = RestoreAll(F)
  OBVIOUS
<1>4. w \in WorkItem /\ w.s \in Here /\ w.name \in Names /\ w.call \in Calls
  BY <1>3, Taken DEF RunStart, Begins, WorkItem
<1>5. work' \in Seq(WorkItem)
  BY Taken DEF RunStart, Begins
<1>6. q = [x \in Here |-> q[x]] /\ DOMAIN q = Here /\ \A x \in Here : Sound(q[x], files)
  BY <1>2, <1>3, RestoringIsSound DEF RestoreAll, IInv, ManagerOK
<1>7. UNCHANGED hubVars /\ Grows
  BY DiskUnchanged DEF RunStart
<1>8. chain' = None
  BY DEF RunStart, Begins, ChainIdle
<1>9. ManagerOK' /\ ToolOK'
  <2>1. CASE completed[w.name] # None \/ "read" \in F
    <3>1. UNCHANGED rec /\ Answer(w.s, w.call, Failed)
      BY <1>1, <1>3, <2>1 DEF Start
    <3> QED
      BY <1>4, <1>7, <3>1, Frame, AnswerIsTrue, FailedIsTrue DEF hubVars
  <2>2. CASE ~(completed[w.name] # None \/ "read" \in F)
    <3>1. PICK r, begun, refused, unscheduled, after :
            /\ r = q[w.s]
            /\ refused = (Cleaning(rec[w.s]) \/ InCleanup(Restore(rec[w.s], F)) \/ r.fallback \/ r.mem # None)
            /\ begun = [r EXCEPT !.mem = Fresh(w), !.stored = Fresh(w)]
            /\ unscheduled = IF "remove" \in F THEN [begun EXCEPT !.mem = None] ELSE Removed(r)
            /\ after = CASE refused -> r
                         [] ~refused /\ "persist" \in F -> RolledBack(r, F)
                         [] ~refused /\ "persist" \notin F /\ "alarm" \in F -> unscheduled
                         [] OTHER -> begun
      OBVIOUS
    <3>2. /\ rec' = [q EXCEPT ![w.s] = after]
          /\ Answer(w.s, w.call, IF after = begun THEN [Failed EXCEPT !.ok = TRUE] ELSE Failed)
      BY <1>1, <1>3, <2>2, <3>1 DEF Start
    <3>3. Sound(r, files)
      BY <1>4, <1>6, <3>1
    <3>4. Fits(Fresh(w), files) /\ Fresh(w).status = "active"
      BY <1>4, ReservationAssumption DEF Fits, Fresh, ActiveRecording
    <3>5. ~refused => ~r.pending /\ ~r.renewing
      BY <3>1, <3>3 DEF Sound, SessionState
    <3>6. ~refused => Sound(begun, files) /\ begun.pending = FALSE /\ begun.renewing = FALSE
      <4>1. PICK m : m = Fresh(w)
        OBVIOUS
      <4>2. ~refused => Sound(begun, files)
        BY <3>1, <3>3, <3>4, <3>5, <4>1, PlacingIsSound
      <4> QED
        BY <3>1, <3>3, <3>5, <4>2 DEF Sound, SessionState
    <3>7. ~refused => Sound(unscheduled, files)
      <4>1. ~refused => Sound([begun EXCEPT !.mem = None], files)
        BY <3>6 DEF Sound, SessionState, Optional
      <4> QED
        BY <3>1, <3>3, <4>1, HidingIsSound, <1>2
    <3>8. ~refused => Sound(RolledBack(r, F), files)
      BY <1>2, <3>3, <3>5, RolledBackIsSound
    <3>9. Sound(after, files)
      BY <3>1, <3>3, <3>6, <3>7, <3>8
    <3>10. ManagerOK'
      <4>1. PICK p : p = [q EXCEPT ![w.s] = after]
        OBVIOUS
      <4>2. p = [x \in Here |-> p[x]] /\ DOMAIN p = Here /\ \A x \in Here : Sound(p[x], files)
        BY <1>6, <3>9, <4>1
      <4> QED
        BY <1>7, <3>2, <4>1, <4>2, StatesChange DEF hubVars
    <3>11. ToolOK'
      <4>1. PICK a : a = IF after = begun THEN [Failed EXCEPT !.ok = TRUE] ELSE Failed
        OBVIOUS
      <4>2. a \in Answers /\ AnswerOK(a, files)
        BY <4>1, FailedIsTrue
      <4> QED
        BY <1>4, <1>7, <3>2, <4>1, <4>2, AnswerIsTrue DEF hubVars
    <3> QED
      BY <3>10, <3>11
  <2> QED
    BY <2>1, <2>2
<1> QED
  BY <1>2, <1>5, <1>7, <1>8, <1>9, Frame DEF RunStart, IInv, RequestsOK, CountsOK

\* stop, once the session has authority: nothing is said of the server yet, and the chain is
\* held for a recording that is stopping.
LEMMA StopBodyStep ==
    ASSUME IInv, UNCHANGED files, NEW s \in Here, NEW call \in 0..MaxCalls,
           NEW r, Sound(r, files), ~Quarantined(r), NEW F, StopBody(s, call, r, F)
    PROVE  ManagerOK' /\ ChainOK' /\ ToolOK'
<1> DEFINE m == [r.mem EXCEPT !.status = "stopping"]
           idle == r.mem = None \/ InCleanup(r) \/ r.pending
           unpersisted == ~idle /\ r.mem.status = "active" /\ "persist" \in F
<1>1. r.mem # None => r.mem \in ActiveRecording /\ Fits(r.mem, files)
  BY DEF Sound, Fits
<1>2. CASE idle
  <2>1. rec' = [rec EXCEPT ![s] = r] /\ chain' = None /\ Answer(s, call, Failed)
    BY <1>2 DEF StopBody, FreeChain
  <2> QED
    BY <2>1, OneStateChanges, AnswerIsTrue, FailedIsTrue DEF ChainOK, Optional
<1>3. CASE unpersisted
  <2>1. rec' = [rec EXCEPT ![s] = r] /\ chain' = None /\ Answer(s, call, Stopped(FALSE, r.mem))
    BY <1>3 DEF StopBody, FreeChain
  <2>2. Stopped(FALSE, r.mem) \in Answers /\ AnswerOK(Stopped(FALSE, r.mem), files)
    BY <1>1, <1>3, StoppedIsTrue
  <2> QED
    BY <2>1, <2>2, OneStateChanges, AnswerIsTrue DEF ChainOK, Optional
<1>4. CASE ~idle /\ ~unpersisted
  <2>1. PICK n, q : /\ n = m
                    /\ q = IF r.mem.status = "active" THEN [r EXCEPT !.mem = n, !.stored = n] ELSE r
    OBVIOUS
  <2>2. Fits(n, files) /\ ~r.pending
    BY <1>1, <1>4, <2>1, StatusFits DEF Sound, SessionState
  <2>3. n.status = "stopping" /\ n \in ActiveRecording
    BY <1>1, <1>4, <2>1, <2>2 DEF Fits, ActiveRecording
  <2>4. Sound(q, files)
    BY <2>1, <2>2, PlacingIsSound
  <2>5. q.mem = n
    <3>1. CASE r.mem.status = "active"
      BY <2>1, <3>1 DEF Sound, SessionState
    <3>2. CASE r.mem.status # "active"
      <4>1. r.mem.status = "stopping"
        BY <1>1, <1>4, <3>2 DEF ActiveRecording, Quarantined, InCleanup
      <4> QED
        BY <1>1, <1>4, <2>1, <3>2, <4>1 DEF ActiveRecording
    <3> QED
      BY <3>1, <3>2
  <2>6. /\ rec' = [rec EXCEPT ![s] = q]
        /\ CASE n.stop = "failed" -> FreeChain /\ Answer(s, call, Stopped(FALSE, n))
             [] n.stop = "none" -> Hold("stop", s, call, "persist") /\ NoAnswer
             [] OTHER -> Hold("stop", s, call, "local") /\ NoAnswer
    BY <1>4, <2>1 DEF StopBody
  <2>7. ManagerOK' /\ rec'[s] = q
    BY <2>4, <2>6, OneStateChanges
  <2>8. CASE n.stop = "failed"
    BY <2>3, <2>6, <2>7, <2>8, StoppedIsTrue, AnswerIsTrue DEF FreeChain, ChainOK, Optional
  <2>9. ToolOK' \/ n.stop = "failed"
    BY <2>6, DiskUnchanged DEF NoAnswer, IInv, ToolOK
  <2>10. CASE n.stop = "none"
    <3>1. chain' = [kind |-> "stop", s |-> s, call |-> call, at |-> "persist", rpc |-> "sent"]
      BY <2>6, <2>10 DEF Hold
    <3>2. ChainOK'
      BY <2>2, <2>3, <2>5, <2>7, <3>1, StatusFits DEF ChainOK, Optional
    <3> QED
      BY <2>7, <2>9, <2>10, <3>2
  <2>11. CASE n.stop \in {"server", "both"}
    <3>1. chain' = [kind |-> "stop", s |-> s, call |-> call, at |-> "local", rpc |-> "sent"]
      BY <2>6, <2>11 DEF Hold
    <3>2. files'[n.name] = Payload(n)
      BY <2>2, <2>11 DEF Fits
    <3>3. ChainOK'
      BY <2>2, <2>3, <2>5, <2>7, <3>1, <3>2, StatusFits DEF ChainOK, Optional
    <3> QED
      BY <2>7, <2>9, <2>11, <3>3
  <2> QED
    BY <2>3, <2>8, <2>10, <2>11 DEF ActiveRecording
<1> QED
  BY <1>2, <1>3, <1>4

LEMMA StopStep ==
    ASSUME IInv, NEW i \in Items, RunStop(i)
    PROVE  IInv'
<1>1. PICK F : /\ FailsWith(F, Failure \ {"local"})
               /\ LET s == work[i].s
                      r == RestoreOne(rec[s], F)
                  IN CASE "read" \in F -> UNCHANGED <<rec, chain>> /\ Answer(s, work[i].call, Failed)
                       [] "read" \notin F /\ Busy(r) ->
                            rec' = [rec EXCEPT ![s] = r] /\ KeepsChain /\ Answer(s, work[i].call, Failed)
                       [] "read" \notin F /\ ~Busy(r) /\ Quarantined(r) ->
                            /\ rec' = [rec EXCEPT ![s] = r]
                            /\ Hold("stop", s, work[i].call, "authority") /\ NoAnswer
                       [] OTHER -> StopBody(s, work[i].call, r, F)
  BY DEF RunStop
<1>2. F \in SUBSET Failure /\ faults' \in 0..MaxFaults
  BY <1>1, FaultsCounted DEF IInv, CountsOK, Failure
<1>3. PICK s, call : s = work[i].s /\ call = work[i].call
  OBVIOUS
<1>4. s \in Here /\ call \in 0..MaxCalls
  BY <1>3, Taken DEF WorkItem
<1>5. PICK r : r = RestoreOne(rec[s], F)
  OBVIOUS
<1>6. Sound(r, files)
  <2>1. Sound(rec[s], files)
    BY <1>4 DEF IInv, ManagerOK
  <2>2. PICK x : x = rec[s]
    OBVIOUS
  <2> QED
    BY <1>2, <1>5, <2>1, <2>2, RestoringIsSound
<1>7. work' \in Seq(WorkItem)
  BY Taken DEF RunStop, Begins
<1>8. UNCHANGED hubVars /\ UNCHANGED files /\ Grows /\ chain = None
  BY DiskUnchanged DEF RunStop, hubVars, Begins, ChainIdle
<1>9. ManagerOK' /\ ChainOK' /\ ToolOK'
  <2>1. CASE "read" \in F
    <3>1. UNCHANGED <<rec, chain>> /\ Answer(s, call, Failed)
      BY <1>1, <1>3, <2>1
    <3> QED
      BY <1>4, <1>8, <3>1, Frame, AnswerIsTrue, FailedIsTrue
  <2>2. CASE "read" \notin F /\ Busy(r)
    <3>1. rec' = [rec EXCEPT ![s] = r] /\ chain' = None /\ Answer(s, call, Failed)
      BY <1>1, <1>3, <1>5, <1>8, <2>2 DEF KeepsChain
    <3> QED
      BY <1>4, <1>6, <1>8, <3>1, Frame, OneStateChanges, AnswerIsTrue, FailedIsTrue
  <2>3. CASE "read" \notin F /\ ~Busy(r) /\ Quarantined(r)
    <3>1. /\ rec' = [rec EXCEPT ![s] = r] /\ tool' = tool
          /\ chain' = [kind |-> "stop", s |-> s, call |-> call, at |-> "authority", rpc |-> "sent"]
      BY <1>1, <1>3, <1>5, <2>3 DEF Hold, NoAnswer
    <3>2. ManagerOK' /\ rec'[s] = r
      BY <1>4, <1>6, <1>8, <3>1, OneStateChanges
    <3>3. ChainOK'
      BY <1>4, <2>3, <3>1, <3>2 DEF ChainOK, Optional, Quarantined
    <3> QED
      BY <1>8, <3>1, <3>2, <3>3, Frame
  <2>4. CASE "read" \notin F /\ ~Busy(r) /\ ~Quarantined(r)
    <3>1. StopBody(s, call, r, F)
      BY <1>1, <1>3, <1>5, <2>4
    <3> QED
      BY <1>4, <1>6, <1>8, <2>4, <3>1, StopBodyStep
  <2> QED
    BY <2>1, <2>2, <2>3, <2>4
<1> QED
  BY <1>2, <1>7, <1>8, <1>9, Frame DEF RunStop, IInv, RequestsOK, CountsOK

\* The mark that a session has closed may come while the chain is held.
LEMMA HearClosedStep ==
    ASSUME IInv, NEW i \in Items, HearClosed(i)
    PROVE  IInv'
<1>1. PICK F : /\ FailsWith(F, {"alarm"})
               /\ rec' = [rec EXCEPT ![work[i].s] = WithAlarm([@ EXCEPT !.closed = TRUE], F)]
  BY DEF HearClosed
<1>2. F \in SUBSET Failure /\ faults' \in 0..MaxFaults
  BY <1>1, FaultsCounted DEF IInv, CountsOK, Failure
<1>3. PICK w, s : w = work[i] /\ s = w.s
  OBVIOUS
<1>4. w \in WorkItem /\ w.kind = "closed" /\ s \in Here
  BY <1>3, Taken DEF WorkItem, HearClosed
<1>5. PICK x : x = rec[s]
  OBVIOUS
<1>6. PICK c : c = [x EXCEPT !.closed = TRUE]
  OBVIOUS
<1>7. Sound(x, files) /\ Sound(c, files) /\ c.mem = x.mem
  BY <1>2, <1>4, <1>5, <1>6, HidingIsSound DEF IInv, ManagerOK, Sound, SessionState
<1>8. PICK r : r = WithAlarm(c, F)
  OBVIOUS
<1>9. Sound(r, files) /\ r.mem = x.mem
  BY <1>2, <1>7, <1>8, HidingIsSound DEF WithAlarm, Sound, SessionState
<1>10. rec' = [rec EXCEPT ![s] = r]
  BY <1>1, <1>3, <1>5, <1>6, <1>8
<1>11. UNCHANGED hubVars /\ UNCHANGED files /\ Grows
  BY DiskUnchanged DEF HearClosed, hubVars
<1>12. ManagerOK'
  BY <1>4, <1>9, <1>10, <1>11, OneStateChanges
<1>13. \A y \in Here : rec'[y].mem = rec[y].mem
  BY <1>4, <1>5, <1>9, <1>10 DEF IInv, ManagerOK
<1>14. ChainOK'
  <2>1. chain' = chain
    BY DEF HearClosed
  <2>2. chain # None => chain.s \in Here
    BY DEF IInv, ChainOK, Optional
  <2> QED
    BY <1>11, <1>13, <2>1, <2>2 DEF IInv, ChainOK
<1>15. work' \in Seq(WorkItem)
  <2>1. PICK u : u = [w EXCEPT !.kind = "abort"]
    OBVIOUS
  <2>2. u \in WorkItem
    BY <1>4, <2>1 DEF WorkItem, WorkKinds
  <2>3. PICK q : q = Without(work, i)
    OBVIOUS
  <2>4. q \in Seq(WorkItem) /\ work' = Append(q, u)
    BY <1>3, <2>1, <2>3, Taken DEF HearClosed
  <2> QED
    BY <2>2, <2>4, Queued
<1> QED
  BY <1>2, <1>11, <1>12, <1>14, <1>15, Frame DEF HearClosed, IInv, RequestsOK, CountsOK, toolVars

\* A session's state changes, and nothing else but the request that asked for it.
LEMMA OneOperation ==
    ASSUME IInv, UNCHANGED <<hubVars, completed, chain, pass, late, toolVars>>, ChainIdle,
           work' \in Seq(WorkItem), faults' \in 0..MaxFaults,
           NEW s \in Here, NEW r, Sound(r, files), rec' = [rec EXCEPT ![s] = r]
    PROVE  IInv'
<1>1. UNCHANGED hubVars /\ UNCHANGED files /\ Grows
  BY DiskUnchanged DEF hubVars
<1>2. ManagerOK'
  BY <1>1, OneStateChanges
<1>3. ChainOK'
  BY <1>1, Frame DEF ChainIdle
<1> QED
  BY <1>1, <1>2, <1>3, Frame DEF IInv, RequestsOK, CountsOK, toolVars

LEMMA AbortStep ==
    ASSUME IInv, NEW i \in Items, RunAbort(i)
    PROVE  IInv'
<1>1. PICK F : /\ FailsWith(F, {"persist", "remove", "read", "alarm", "clear"})
               /\ rec' = [rec EXCEPT ![work[i].s] =
                            IF "read" \in F THEN @ ELSE FinishStop(Restore(@, F), F)]
  BY DEF RunAbort
<1>2. F \in SUBSET Failure /\ faults' \in 0..MaxFaults
  BY <1>1, FaultsCounted DEF IInv, CountsOK, Failure
<1>3. PICK s, x : s = work[i].s /\ x = rec[s]
  OBVIOUS
<1>4. s \in Here /\ Sound(x, files)
  BY <1>3, Taken DEF WorkItem, IInv, ManagerOK
<1>5. PICK q : q = Restore(x, F)
  OBVIOUS
<1>6. Sound(q, files)
  BY <1>2, <1>4, <1>5, RestoringIsSound
<1>7. Sound(FinishStop(q, F), files)
  BY <1>2, <1>6, FinishStopIsSound
<1>8. PICK r : r = IF "read" \in F THEN x ELSE FinishStop(q, F)
  OBVIOUS
<1>9. Sound(r, files) /\ rec' = [rec EXCEPT ![s] = r]
  BY <1>1, <1>3, <1>4, <1>5, <1>7, <1>8
<1> QED
  BY <1>2, <1>4, <1>9, Taken, OneOperation DEF RunAbort, Begins

LEMMA ExpireStep ==
    ASSUME IInv, NEW i \in Items, RunExpire(i)
    PROVE  IInv'
<1>1. PICK F : /\ FailsWith(F, {"persist", "remove", "read", "alarm", "clear"})
               /\ LET q == RestoreOne(rec[work[i].s], F)
                      hit == q.mem # None /\ q.mem.status = "active" /\ q.mem.name = work[i].name
                  IN rec' = [rec EXCEPT ![work[i].s] =
                               IF "read" \in F THEN @ ELSE IF hit THEN FinishStop(q, F) ELSE q]
  BY DEF RunExpire
<1>2. F \in SUBSET Failure /\ faults' \in 0..MaxFaults
  BY <1>1, FaultsCounted DEF IInv, CountsOK, Failure
<1>3. PICK s, x : s = work[i].s /\ x = rec[s]
  OBVIOUS
<1>4. s \in Here /\ Sound(x, files)
  BY <1>3, Taken DEF WorkItem, IInv, ManagerOK
<1>5. PICK q : q = RestoreOne(x, F)
  OBVIOUS
<1>6. Sound(q, files)
  BY <1>2, <1>4, <1>5, RestoringIsSound
<1>7. Sound(FinishStop(q, F), files)
  BY <1>2, <1>6, FinishStopIsSound
<1>8. PICK r : /\ r \in {x, q, FinishStop(q, F)}
               /\ rec' = [rec EXCEPT ![s] = r]
  BY <1>1, <1>3, <1>5
<1>9. Sound(r, files)
  BY <1>4, <1>6, <1>7, <1>8
<1> QED
  BY <1>2, <1>4, <1>8, <1>9, Taken, OneOperation DEF RunExpire, Begins

LEMMA CleanupStep ==
    ASSUME IInv, NEW i \in Items, RunCleanup(i)
    PROVE  IInv'
<1>1. PICK F : /\ FailsWith(F, {"remove", "alarm", "clear"})
               /\ rec' = [rec EXCEPT ![work[i].s] = RetryCleanup(@, F)]
  BY DEF RunCleanup
<1>2. F \in SUBSET Failure /\ faults' \in 0..MaxFaults
  BY <1>1, FaultsCounted DEF IInv, CountsOK, Failure
<1>3. PICK s, x : s = work[i].s /\ x = rec[s]
  OBVIOUS
<1>4. s \in Here /\ Sound(x, files)
  BY <1>3, Taken DEF WorkItem, IInv, ManagerOK
<1>5. PICK r : r = RetryCleanup(x, F)
  OBVIOUS
<1>6. Sound(r, files) /\ rec' = [rec EXCEPT ![s] = r]
  BY <1>1, <1>2, <1>3, <1>4, <1>5, HidingIsSound
<1> QED
  BY <1>2, <1>4, <1>6, Taken, OneOperation DEF RunCleanup, Begins

LEMMA CleanupAlarmStep ==
    ASSUME IInv, NEW s \in Here, CleanupAlarm(s)
    PROVE  IInv'
<1>1. Grows
  BY DiskUnchanged DEF CleanupAlarm
<1>2. PICK w : w = [kind |-> "cleanup", s |-> s, call |-> 0, name |-> None]
  OBVIOUS
<1>3. w \in WorkItem
  BY <1>2, ReservationAssumption DEF WorkItem, WorkKinds, Optional
<1>4. work' = Append(work, w)
  BY <1>2 DEF CleanupAlarm
<1>5. work' \in Seq(WorkItem)
  BY <1>3, <1>4, Queued DEF IInv, RequestsOK
<1> QED
  BY <1>1, <1>5, Frame DEF CleanupAlarm, IInv, RequestsOK, CountsOK, toolVars

LEMMA KeepaliveStep ==
    ASSUME IInv, RunKeepalive
    PROVE  IInv'
<1>1. PICK F : FailsWith(F, {"persist", "remove", "alarm", "clear"}) /\ rec' = RestoreAll(F)
  BY DEF RunKeepalive
<1>2. F \in SUBSET Failure /\ faults' \in 0..MaxFaults
  BY <1>1, FaultsCounted DEF IInv, CountsOK, Failure
<1>3. PICK q : q = RestoreAll(F)
  OBVIOUS
<1>4. q = [x \in Here |-> q[x]] /\ DOMAIN q = Here /\ \A x \in Here : Sound(q[x], files)
  BY <1>2, <1>3, RestoringIsSound DEF RestoreAll, IInv, ManagerOK
<1>5. UNCHANGED hubVars /\ UNCHANGED files /\ Grows
  BY DiskUnchanged DEF RunKeepalive, hubVars
<1>6. ManagerOK'
  BY <1>1, <1>3, <1>4, <1>5, StatesChange
<1>7. ChainOK'
  BY <1>5, Frame DEF RunKeepalive, ChainIdle
<1> QED
  BY <1>2, <1>5, <1>6, <1>7, Frame DEF RunKeepalive, IInv, CountsOK, toolVars

-------------------------------------------------------------------------------
(* The operation that holds the chain. *)

\* What the operation knows while it waits.
LEMMA ChainHeld ==
    ASSUME IInv, chain # None
    PROVE  /\ chain \in [kind : {"stop", "act"}, s : Here, call : 0..MaxCalls,
                         at : {"authority", "persist", "local", "finish"},
                         rpc : {"sent", "yes", "no", "lost"}]
           /\ Sound(rec[chain.s], files)
           /\ Fits(rec[chain.s].mem, files)
           /\ rec[chain.s].mem # None
           /\ rec[chain.s].mem.status = (IF chain.at = "authority" THEN "quarantined" ELSE "stopping")
           /\ chain.at \in {"local", "finish"} \/ (chain.at = "persist" /\ chain.rpc = "yes")
                 => files[rec[chain.s].mem.name] = Payload(rec[chain.s].mem)
<1>1. chain \in [kind : {"stop", "act"}, s : Here, call : 0..MaxCalls,
                 at : {"authority", "persist", "local", "finish"},
                 rpc : {"sent", "yes", "no", "lost"}]
  BY DEF IInv, ChainOK, Optional
<1>2. Sound(rec[chain.s], files)
  BY <1>1 DEF IInv, ManagerOK
<1>3. rec[chain.s].mem # None
  BY DEF IInv, ChainOK
<1> QED
  BY <1>1, <1>2, <1>3 DEF IInv, ChainOK, Sound

LEMMA PayloadIsRecording ==
    ASSUME NEW m \in ActiveRecording
    PROVE  Payload(m) \in Recording /\ Payload(m).name = m.name /\ m.name \in Names
  BY DEF ActiveRecording, Payload, Recording

\* The hub answers, or the answer is lost.
LEMMA AnswerReceived ==
    ASSUME IInv, Grows, chain # None, chain.at \in {"authority", "persist"}, UNCHANGED rec,
           NEW rpc \in {"yes", "no", "lost"}, Answered(rpc),
           chain.at = "persist" /\ rpc = "yes" =>
               files'[rec[chain.s].mem.name] = Payload(rec[chain.s].mem)
    PROVE  ChainOK'
<1>1. PICK c, m : c = chain /\ m = rec[c.s].mem
  OBVIOUS
<1>2. /\ c \in [kind : {"stop", "act"}, s : Here, call : 0..MaxCalls,
                at : {"authority", "persist", "local", "finish"},
                rpc : {"sent", "yes", "no", "lost"}]
      /\ m # None
      /\ m.status = (IF c.at = "authority" THEN "quarantined" ELSE "stopping")
  BY <1>1, ChainHeld
<1>3. PICK d : d = [c EXCEPT !.rpc = rpc]
  OBVIOUS
<1>4. chain' = d /\ d.at = c.at /\ d.s = c.s /\ d.rpc = rpc
      /\ d \in [kind : {"stop", "act"}, s : Here, call : 0..MaxCalls,
                at : {"authority", "persist", "local", "finish"},
                rpc : {"sent", "yes", "no", "lost"}]
  BY <1>1, <1>2, <1>3 DEF Answered
<1>5. rec'[d.s].mem = m
  BY <1>1, <1>4
<1> QED
  BY <1>1, <1>2, <1>4, <1>5 DEF ChainOK, Optional

LEMMA HubAnswersAuthorityStep ==
    ASSUME IInv, HubAnswersAuthority
    PROVE  IInv'
<1>1. Grows
  BY DiskUnchanged DEF HubAnswersAuthority
<1>2. ChainOK'
  BY <1>1, AnswerReceived DEF HubAnswersAuthority, Waiting
<1> QED
  BY <1>1, <1>2, Frame DEF HubAnswersAuthority, IInv, CountsOK, toolVars

LEMMA HubAnswersPersistStep ==
    ASSUME IInv, HubAnswersPersist
    PROVE  IInv'
<1>1. PICK s, r : s = chain.s /\ r = Payload(rec[chain.s].mem)
  OBVIOUS
<1>2. s \in Sessions /\ r \in Recording /\ r.name = rec[chain.s].mem.name
  BY <1>1, ChainHeld, PayloadIsRecording, DeliveryAssumption DEF HubAnswersPersist, Waiting, Fits
<1>3. PICK outcome \in {"saved", "unsynced", "failed", "torn"}, yes \in BOOLEAN :
         /\ Persist(s, r, outcome, yes)
         /\ IF outcome = "saved" THEN UNCHANGED faults ELSE Fault
         /\ Answered(IF yes THEN "yes" ELSE "no")
  BY <1>1 DEF HubAnswersPersist
<1>4. HubOK' /\ Grows /\ (yes => files'[r.name] = r)
  BY <1>2, <1>3, FilesStay DEF IInv
<1>5. ChainOK'
  <2>1. PICK rpc \in {"yes", "no"} : Answered(rpc) /\ (rpc = "yes" => yes)
    BY <1>3
  <2> QED
    BY <1>1, <1>2, <1>4, <2>1, AnswerReceived DEF HubAnswersPersist, Waiting
<1>6. faults' \in 0..MaxFaults
  BY <1>3, FaultCounted DEF IInv, CountsOK
<1> QED
  BY <1>4, <1>5, <1>6, Frame DEF HubAnswersPersist, IInv, CountsOK, toolVars

\* A request that the worker does not wait for any more is one of the recording it had.
LEMMA RequestLeftBehind ==
    ASSUME IInv, chain # None, late' = late \cup {[s |-> chain.s, recording |-> Payload(rec[chain.s].mem)]}
    PROVE  late' \subseteq [s : Here, recording : Recording]
<1>1. chain.s \in Here /\ Payload(rec[chain.s].mem) \in Recording
  BY ChainHeld, PayloadIsRecording DEF Fits
<1> QED
  BY <1>1 DEF IInv, RequestsOK

LEMMA LoseAnswerStep ==
    ASSUME IInv, LoseAnswer
    PROVE  IInv'
<1>1. Grows
  BY DiskUnchanged DEF LoseAnswer
<1>2. ChainOK'
  BY <1>1, AnswerReceived DEF LoseAnswer
<1>3. RequestsOK'
  BY RequestLeftBehind DEF LoseAnswer, IInv, RequestsOK
<1>4. faults' \in 0..MaxFaults
  BY FaultCounted DEF LoseAnswer, IInv, CountsOK
<1> QED
  BY <1>1, <1>2, <1>3, <1>4, Frame DEF LoseAnswer, IInv, CountsOK, toolVars

LEMMA LatePersistStep ==
    ASSUME IInv, HubTakesLatePersist
    PROVE  IInv'
<1>1. PICK x \in late, outcome \in {"saved", "unsynced", "failed", "torn"}, yes \in BOOLEAN :
         /\ late' = late \ {x}
         /\ Persist(x.s, x.recording, outcome, yes)
         /\ IF outcome = "saved" THEN UNCHANGED faults ELSE Fault
  BY DEF HubTakesLatePersist
<1>2. PICK s, r : s = x.s /\ r = x.recording
  OBVIOUS
<1>3. s \in Sessions /\ r \in Recording /\ Persist(s, r, outcome, yes)
  BY <1>1, <1>2, DeliveryAssumption DEF IInv, RequestsOK
<1>4. HubOK' /\ Grows
  BY <1>3, FilesStay DEF IInv
<1>5. RequestsOK'
  BY <1>1 DEF HubTakesLatePersist, IInv, RequestsOK
<1>6. faults' \in 0..MaxFaults
  BY <1>1, FaultCounted DEF IInv, CountsOK
<1> QED
  BY <1>4, <1>5, <1>6, Frame DEF HubTakesLatePersist, IInv, CountsOK, toolVars

LEMMA ReceiveAuthorityStep ==
    ASSUME IInv, ReceiveAuthority
    PROVE  IInv'
<1>1. PICK F :
         LET s == chain.s
             r == rec[s]
             denied == chain.rpc = "no" /\ ~r.closed
             granted == chain.rpc = "yes" /\ ~r.closed
             gives == granted /\ "persist" \notin F
             q == IF granted THEN Promoted(r, F) ELSE r
         IN /\ FailsWith(F, {"persist", "remove", "alarm", "clear"})
            /\ IF gives /\ chain.kind = "stop" THEN StopBody(s, chain.call, q, {})
               ELSE /\ rec' = [rec EXCEPT ![s] = CASE gives -> Prepared(q)
                                                   [] denied -> FinishStop(r, F)
                                                   [] OTHER -> r]
                    /\ FreeChain
                    /\ IF chain.kind = "stop" THEN Answer(s, chain.call, Failed) ELSE NoAnswer
  BY DEF ReceiveAuthority
<1>2. F \in SUBSET Failure /\ faults' \in 0..MaxFaults
  BY <1>1, FaultsCounted DEF IInv, CountsOK, Failure
<1>3. PICK s, call, r, gives, q :
         /\ s = chain.s /\ call = chain.call /\ r = rec[s]
         /\ gives = (chain.rpc = "yes" /\ ~r.closed /\ "persist" \notin F)
         /\ q = IF chain.rpc = "yes" /\ ~r.closed THEN Promoted(r, F) ELSE r
  OBVIOUS
<1>4. s \in Here /\ call \in 0..MaxCalls /\ Sound(r, files) /\ Quarantined(r)
  BY <1>3, ChainHeld DEF ReceiveAuthority, Waiting, Quarantined
<1>5. Sound(q, files)
  BY <1>2, <1>3, <1>4, PromotedIsSound
<1>6. gives => ~Quarantined(q)
  BY <1>3, <1>4 DEF Promoted, Kept, Quarantined, Sound, SessionState, Fits, ActiveRecording
<1>7. UNCHANGED hubVars /\ UNCHANGED files /\ Grows
  BY DiskUnchanged DEF ReceiveAuthority, hubVars
<1>8. ManagerOK' /\ ChainOK' /\ ToolOK'
  <2>1. CASE gives /\ chain.kind = "stop"
    <3>1. StopBody(s, call, q, {})
      BY <1>1, <1>3, <2>1
    <3> QED
      BY <1>4, <1>5, <1>6, <1>7, <2>1, <3>1, StopBodyStep
  <2>2. CASE ~(gives /\ chain.kind = "stop")
    <3>1. PICK p : /\ p \in {Prepared(q), FinishStop(r, F), r}
                   /\ rec' = [rec EXCEPT ![s] = p]
                   /\ chain' = None
                   /\ Answer(s, call, Failed) \/ tool' = tool
      BY <1>1, <1>3, <2>2 DEF FreeChain, NoAnswer
    <3>2. Sound(p, files)
      BY <1>2, <1>4, <1>5, <3>1, PreparedIsSound, FinishStopIsSound
    <3> QED
      BY <1>4, <1>7, <3>1, <3>2, OneStateChanges, AnswerIsTrue, FailedIsTrue, Frame
  <2> QED
    BY <2>1, <2>2
<1> QED
  BY <1>2, <1>7, <1>8, Frame DEF ReceiveAuthority, IInv, CountsOK

LEMMA ReceivePersistStep ==
    ASSUME IInv, ReceivePersist
    PROVE  IInv'
<1>1. PICK F :
         LET s == chain.s
             cached == [rec[s].mem EXCEPT !.stop = IF chain.rpc = "yes" THEN "server" ELSE "failed"]
         IN /\ FailsWith(F, {"persist"})
            /\ rec' = [rec EXCEPT ![s] = Kept(rec[s], cached, F)]
            /\ IF chain.rpc = "yes" THEN Hold("stop", s, chain.call, "local") /\ NoAnswer
               ELSE FreeChain /\ Answer(s, chain.call, Stopped(FALSE, cached))
  BY DEF ReceivePersist
<1>2. F \in SUBSET Failure /\ faults' \in 0..MaxFaults
  BY <1>1, FaultsCounted DEF IInv, CountsOK, Failure
<1>3. PICK s, call, r, m, yes, n :
         /\ s = chain.s /\ call = chain.call /\ r = rec[s] /\ m = r.mem /\ yes = (chain.rpc = "yes")
         /\ n = [m EXCEPT !.stop = IF yes THEN "server" ELSE "failed"]
  OBVIOUS
<1>4. /\ s \in Here /\ call \in 0..MaxCalls /\ Sound(r, files) /\ Fits(m, files)
      /\ m.status = "stopping"
      /\ yes => files[m.name] = Payload(m)
  BY <1>3, ChainHeld DEF ReceivePersist, Waiting
<1>5. /\ n \in ActiveRecording /\ n.status = "stopping" /\ n.steps = m.steps
      /\ n.name = m.name /\ Payload(n) = Payload(m)
  BY <1>3, <1>4 DEF Fits, ActiveRecording, Payload
<1>6. Fits(n, files)
  BY <1>3, <1>4, <1>5 DEF Fits, ActiveRecording
<1>7. r.pending => n.steps < MaxSteps
  BY <1>3, <1>4, <1>5 DEF Sound
<1>8. PICK q : q = Kept(r, n, F)
  OBVIOUS
<1>9. Sound(q, files) /\ q.mem = n
  <2>1. Sound(q, files)
    BY <1>2, <1>4, <1>5, <1>6, <1>7, <1>8, PlacingIsSound
  <2>2. q.mem = n
    BY <1>4, <1>8 DEF Kept, Sound, SessionState
  <2> QED
    BY <2>1, <2>2
<1>10. UNCHANGED hubVars /\ UNCHANGED files /\ Grows
  BY DiskUnchanged DEF ReceivePersist, hubVars
<1>11. /\ rec' = [rec EXCEPT ![s] = q]
       /\ IF yes THEN Hold("stop", s, call, "local") /\ NoAnswer
          ELSE FreeChain /\ Answer(s, call, Stopped(FALSE, n))
  BY <1>1, <1>3, <1>8
<1>12. ManagerOK' /\ rec'[s] = q
  BY <1>4, <1>9, <1>10, <1>11, OneStateChanges
<1>13. CASE yes
  <2>1. chain' = [kind |-> "stop", s |-> s, call |-> call, at |-> "local", rpc |-> "sent"]
    BY <1>11, <1>13 DEF Hold
  <2>2. files'[n.name] = Payload(n) /\ n # None
    BY <1>4, <1>5, <1>10, <1>13, DeliveryAssumption
  <2>3. ChainOK'
    BY <1>4, <1>5, <1>9, <1>12, <2>1, <2>2 DEF ChainOK, Optional
  <2> QED
    BY <1>2, <1>10, <1>11, <1>12, <1>13, <2>3, Frame DEF ReceivePersist, NoAnswer, IInv, CountsOK
<1>14. CASE ~yes
  <2>1. ToolOK'
    BY <1>4, <1>5, <1>10, <1>11, <1>14, StoppedIsTrue, AnswerIsTrue
  <2> QED
    BY <1>2, <1>10, <1>11, <1>12, <1>14, <2>1, Frame DEF ReceivePersist, FreeChain, IInv, CountsOK
<1> QED
  BY <1>13, <1>14

LEMMA CopyLocallyStep ==
    ASSUME IInv, CopyLocally
    PROVE  IInv'
<1>1. PICK F :
         LET s == chain.s
             m == rec[s].mem
             copies == m.stop # "both" /\ "local" \notin F /\ MayComplete(Payload(m))
         IN /\ FailsWith(F, {"local", "persist"})
            /\ completed' = IF copies THEN [completed EXCEPT ![m.name] = Payload(m)] ELSE completed
            /\ rec' = [rec EXCEPT ![s] = IF copies THEN Kept(@, [m EXCEPT !.stop = "both"], F) ELSE @]
            /\ chain' = [chain EXCEPT !.at = "finish"]
  BY DEF CopyLocally
<1>2. F \in SUBSET Failure /\ faults' \in 0..MaxFaults
  BY <1>1, FaultsCounted DEF IInv, CountsOK, Failure
<1>3. PICK c, s, r, m, n : c = chain /\ s = c.s /\ r = rec[s] /\ m = r.mem /\ n = [m EXCEPT !.stop = "both"]
  OBVIOUS
<1>4. /\ c \in [kind : {"stop", "act"}, s : Here, call : 0..MaxCalls,
                at : {"authority", "persist", "local", "finish"},
                rpc : {"sent", "yes", "no", "lost"}]
      /\ s \in Here /\ Sound(r, files) /\ Fits(m, files) /\ m.status = "stopping"
      /\ files[m.name] = Payload(m)
  BY <1>3, ChainHeld DEF CopyLocally, Waiting
<1>5. /\ n \in ActiveRecording /\ n.status = "stopping" /\ n.steps = m.steps
      /\ n.name = m.name /\ Payload(n) = Payload(m)
  BY <1>3, <1>4 DEF Fits, ActiveRecording, Payload
<1>6. Fits(n, files) /\ (r.pending => n.steps < MaxSteps)
  BY <1>3, <1>4, <1>5 DEF Fits, ActiveRecording, Sound
<1>7. Sound(Kept(r, n, F), files) /\ Kept(r, n, F).mem = n
  <2>1. Sound(Kept(r, n, F), files)
    BY <1>2, <1>4, <1>5, <1>6, PlacingIsSound
  <2>2. Kept(r, n, F).mem = n
    BY <1>4 DEF Kept, Sound, SessionState
  <2> QED
    BY <2>1, <2>2
<1>8. PICK q, copies : /\ q = IF copies THEN Kept(r, n, F) ELSE r
                       /\ rec' = [rec EXCEPT ![s] = q]
                       /\ completed' = IF copies THEN [completed EXCEPT ![m.name] = Payload(m)] ELSE completed
                       /\ chain' = [c EXCEPT !.at = "finish"]
  BY <1>1, <1>3
<1>9. Sound(q, files) /\ q.mem \in {m, n}
  BY <1>3, <1>4, <1>7, <1>8
<1>10. UNCHANGED hubVars /\ UNCHANGED files /\ Grows
  BY DiskUnchanged DEF CopyLocally, hubVars
<1>11. ManagerOK' /\ rec'[s] = q
  BY <1>4, <1>8, <1>9, <1>10, OneStateChanges
<1>12. ChainOK'
  <2>1. PICK d : d = [c EXCEPT !.at = "finish"]
    OBVIOUS
  <2>2. /\ d \in [kind : {"stop", "act"}, s : Here, call : 0..MaxCalls,
                  at : {"authority", "persist", "local", "finish"},
                  rpc : {"sent", "yes", "no", "lost"}]
        /\ d.at = "finish" /\ d.s = s
    BY <1>3, <1>4, <2>1
  <2>3. PICK k : k = q.mem
    OBVIOUS
  <2>4. k # None /\ k.status = "stopping" /\ files'[k.name] = Payload(k)
    BY <1>4, <1>5, <1>9, <1>10, <2>3, DeliveryAssumption DEF Fits
  <2> QED
    BY <1>8, <1>11, <2>1, <2>2, <2>3, <2>4 DEF ChainOK, Optional
<1>13. CompletedOK'
  <2>1. Payload(m) \in Recording /\ m.name \in Names /\ Payload(m).name = m.name
    BY <1>4, PayloadIsRecording DEF Fits
  <2> QED
    BY <1>4, <1>8, <1>10, <2>1 DEF IInv, CompletedOK, Optional
<1> QED
  BY <1>2, <1>10, <1>11, <1>12, <1>13, Frame DEF CopyLocally, IInv, CountsOK, toolVars

LEMMA FinishStoppingStep ==
    ASSUME IInv, FinishStopping
    PROVE  IInv'
<1>1. PICK F : /\ FailsWith(F, {"persist", "remove", "alarm", "clear"})
               /\ rec' = [rec EXCEPT ![chain.s] = FinishStop(@, F)]
               /\ Answer(chain.s, chain.call, Stopped(TRUE, rec[chain.s].mem))
  BY DEF FinishStopping
<1>2. F \in SUBSET Failure /\ faults' \in 0..MaxFaults
  BY <1>1, FaultsCounted DEF IInv, CountsOK, Failure
<1>3. PICK s, r, m : s = chain.s /\ r = rec[s] /\ m = r.mem
  OBVIOUS
<1>4. s \in Here /\ Sound(r, files) /\ m \in ActiveRecording /\ files[m.name] = Payload(m)
  BY <1>3, ChainHeld DEF FinishStopping, Waiting, Fits
<1>5. Sound(FinishStop(r, F), files) /\ rec' = [rec EXCEPT ![s] = FinishStop(r, F)]
  BY <1>1, <1>2, <1>3, <1>4, FinishStopIsSound
<1>6. UNCHANGED hubVars /\ UNCHANGED files /\ Grows
  BY DiskUnchanged DEF FinishStopping, hubVars
<1>7. ManagerOK'
  BY <1>4, <1>5, <1>6, OneStateChanges
<1>8. ToolOK'
  <2>1. PICK a : a = Stopped(TRUE, m)
    OBVIOUS
  <2>2. a \in Answers /\ AnswerOK(a, files)
    BY <1>4, <2>1, StoppedIsTrue
  <2> QED
    BY <1>1, <1>3, <1>4, <1>6, <2>1, <2>2, AnswerIsTrue
<1> QED
  BY <1>2, <1>6, <1>7, <1>8, Frame DEF FinishStopping, FreeChain, IInv, CountsOK

-------------------------------------------------------------------------------
(* The renewal pass, and the stop of the worker. *)

LEMMA GatherStep ==
    ASSUME IInv, GatherRenewals
    PROVE  IInv'
<1>1. PICK F : /\ FailsWith(F, {"persist", "remove", "alarm", "clear"})
               /\ rec' = [s \in Here |-> Gathered(rec[s], F)]
  BY DEF GatherRenewals
<1>2. F \in SUBSET Failure /\ faults' \in 0..MaxFaults
  BY <1>1, FaultsCounted DEF IInv, CountsOK, Failure
<1>3. \A s \in Here : Sound(rec'[s], files)
  BY <1>1, <1>2, GatheredIsSound DEF IInv, ManagerOK
<1>4. UNCHANGED hubVars /\ UNCHANGED files /\ Grows
  BY DiskUnchanged DEF GatherRenewals, hubVars
<1>5. ManagerOK'
  BY <1>1, <1>3, <1>4 DEF ManagerOK
<1>6. \A s \in Here : rec'[s].renewing => rec'[s].mem.name \in Names
  BY <1>3 DEF Sound, Fits, ActiveRecording
<1>7. pass' \in [Here -> Optional(Renewal)]
  BY <1>6 DEF GatherRenewals, Optional, Renewal
<1>8. RequestsOK'
  BY <1>7 DEF GatherRenewals, IInv, RequestsOK, Optional
<1>9. chain' = None
  BY DEF GatherRenewals, ChainIdle
<1> QED
  BY <1>2, <1>4, <1>5, <1>8, <1>9, Frame DEF GatherRenewals, IInv, CountsOK, toolVars

LEMMA RenewalAnswerSteps ==
    ASSUME IInv, NEW s \in Here, HubAnswersRenewal(s) \/ LoseRenewal(s)
    PROVE  IInv'
<1>1. UNCHANGED hubVars /\ Grows
  BY DiskUnchanged DEF HubAnswersRenewal, LoseRenewal
<1>2. PICK a \in {"yes", "no", "lost"} : pass' = [pass EXCEPT ![s].answer = a]
  BY DEF HubAnswersRenewal, LoseRenewal
<1>3. PICK x : x = pass[s]
  OBVIOUS
<1>4. /\ pass \in [Here -> Optional(Renewal)]
      /\ x \in Renewal
  BY <1>3 DEF HubAnswersRenewal, LoseRenewal, Asked, IInv, RequestsOK, Optional
<1>5. PICK y : y = [x EXCEPT !.answer = a]
  OBVIOUS
<1>6. y \in Renewal
  BY <1>4, <1>5 DEF Renewal
<1>7. pass' = [pass EXCEPT ![s] = y]
  BY <1>2, <1>3, <1>5
<1>8. pass' \in [Here -> Optional(Renewal)]
  BY <1>4, <1>6, <1>7 DEF Optional
<1>9. RequestsOK'
  BY <1>8 DEF HubAnswersRenewal, LoseRenewal, IInv, RequestsOK, Optional
<1>10. faults' \in 0..MaxFaults
  BY FaultCounted DEF HubAnswersRenewal, LoseRenewal, IInv, CountsOK
<1> QED
  BY <1>1, <1>9, <1>10, Frame DEF HubAnswersRenewal, LoseRenewal, IInv, CountsOK, toolVars

LEMMA ApplyStep ==
    ASSUME IInv, ApplyRenewals
    PROVE  IInv'
<1>1. PICK F : /\ FailsWith(F, {"persist", "remove", "alarm", "clear"})
               /\ rec' = [s \in Here |->
                            IF pass[s] = None THEN rec[s]
                            ELSE [AfterRenewal(rec[s], pass[s].answer, F) EXCEPT !.renewing = FALSE]]
  BY DEF ApplyRenewals
<1>2. F \in SUBSET Failure /\ faults' \in 0..MaxFaults
  BY <1>1, FaultsCounted DEF IInv, CountsOK, Failure
<1>3. ASSUME NEW s \in Here
      PROVE  Sound(rec'[s], files)
  <2>1. PICK x, a : x = rec[s] /\ a = pass[s].answer
    OBVIOUS
  <2>2. Sound(x, files)
    BY <2>1 DEF IInv, ManagerOK
  <2>3. Sound([AfterRenewal(x, a, F) EXCEPT !.renewing = FALSE], files)
    BY <1>2, <2>2, AfterRenewalIsSound
  <2> QED
    BY <1>1, <2>1, <2>2, <2>3
<1>4. UNCHANGED hubVars /\ UNCHANGED files /\ Grows
  BY DiskUnchanged DEF ApplyRenewals, hubVars
<1>5. ManagerOK'
  BY <1>1, <1>3, <1>4 DEF ManagerOK
<1>6. RequestsOK'
  BY DEF ApplyRenewals, IInv, RequestsOK, Optional
<1>7. chain' = None
  BY DEF ApplyRenewals, ChainIdle
<1> QED
  BY <1>2, <1>4, <1>5, <1>6, <1>7, Frame DEF ApplyRenewals, IInv, CountsOK, toolVars

LEMMA WorkerStopsStep ==
    ASSUME IInv, WorkerStops
    PROVE  IInv'
<1>1. UNCHANGED hubVars /\ UNCHANGED files /\ Grows
  BY DiskUnchanged DEF WorkerStops, hubVars
<1>2. faults' \in 0..MaxFaults
  BY FaultCounted DEF WorkerStops, IInv, CountsOK
<1>3. ManagerOK'
  <2>1. rec' = [s \in Here |-> [NoSession EXCEPT !.stored = rec[s].stored, !.alarm = rec[s].alarm]]
    BY DEF WorkerStops
  <2>2. ASSUME NEW s \in Here
        PROVE  Sound(rec'[s], files)
    <3>1. PICK x : x = rec[s]
      OBVIOUS
    <3>2. Sound(x, files)
      BY <3>1 DEF IInv, ManagerOK
    <3>3. Sound([NoSession EXCEPT !.stored = x.stored, !.alarm = x.alarm], files)
      BY <3>2 DEF Sound, SessionState, NoSession, Optional
    <3> QED
      BY <2>1, <3>1, <3>3
  <2> QED
    BY <1>1, <2>1, <2>2 DEF ManagerOK
<1>4. RequestsOK'
  <2>1. late' \subseteq [s : Here, recording : Recording]
    BY RequestLeftBehind DEF WorkerStops, Waiting, IInv, RequestsOK
  <2>2. work' \in Seq(WorkItem)
    <3>1. <<>> \in Seq(WorkItem)
      OBVIOUS
    <3> QED
      BY <3>1 DEF WorkerStops
  <2> QED
    BY <2>1, <2>2 DEF WorkerStops, RequestsOK, Optional
<1>5. ToolOK'
  <2>1. tool \in [Here -> ToolState]
    BY DEF IInv, ToolOK, ToolState
  <2>2. tool' = [s \in Here |->
                   IF tool[s].at = "sent" /\ tool[s].answer = None
                   THEN [tool[s] EXCEPT !.answer = Failed] ELSE tool[s]]
    BY DEF WorkerStops
  <2>3. ASSUME NEW s \in Here
        PROVE  /\ tool'[s] \in ToolState
               /\ tool'[s].at = "checked" => tool'[s].call \in Calls /\ tool'[s].name \in Names
               /\ tool'[s].answer # None => AnswerOK(tool'[s].answer, files)
    <3>1. PICK t, u : t = tool[s] /\ u = [t EXCEPT !.answer = Failed]
      OBVIOUS
    <3>2. t \in ToolState
      BY <2>1, <3>1
    <3>3. u \in ToolState /\ u.answer = Failed /\ u.at = t.at /\ u.call = t.call /\ u.name = t.name
      BY <3>1, <3>2, FailedIsTrue DEF ToolState, Optional
    <3>4. /\ t.at = "checked" => t.call \in Calls /\ t.name \in Names
          /\ t.answer # None => AnswerOK(t.answer, files)
      BY <3>1 DEF IInv, ToolOK
    <3>5. tool'[s] \in {t, u}
      BY <2>2, <3>1
    <3> QED
      BY <3>2, <3>3, <3>4, <3>5, FailedIsTrue
  <2> QED
    BY <1>1, <2>2, <2>3 DEF ToolOK, ToolState
<1>6. chain' = None
  BY DEF WorkerStops
<1> QED
  BY <1>1, <1>2, <1>3, <1>4, <1>5, <1>6, Frame DEF WorkerStops, IInv, CountsOK

-------------------------------------------------------------------------------
(* The invariant, and what follows from it. *)

LEMMA InitEstablishesIInv ==
    ASSUME Init
    PROVE  IInv
<1> USE ReservationAssumption, DeliveryAssumption DEF Init
<1>1. HubOK
  BY DEF HubOK, ReservationsInit, Optional
<1>2. ManagerOK
  <2>1. Sound(NoSession, files)
    BY DEF Sound, NoSession, SessionState, Optional
  <2> QED
    BY <2>1 DEF ManagerOK
<1>3. ChainOK /\ RequestsOK
  BY DEF ChainOK, RequestsOK, Optional
<1>4. CompletedOK /\ ToldOK /\ CountsOK /\ current \in [Here -> Optional(Names)]
  BY DEF CompletedOK, ToldOK, CountsOK, Optional
<1>5. ToolOK
  BY DEF ToolOK, NoTool, Optional
<1> QED
  BY <1>1, <1>2, <1>3, <1>4, <1>5 DEF IInv

LEMMA StutteringKeepsIInv ==
    ASSUME IInv, UNCHANGED vars
    PROVE  IInv'
<1>1. Grows
  BY DiskUnchanged DEF vars
<1> QED
  BY <1>1, Frame DEF vars, extensionVars, toolVars, IInv, CountsOK

LEMMA NextPreservesIInv ==
    ASSUME IInv, [Next]_vars
    PROVE  IInv'
<1>1. ASSUME NEW s \in Here, NEW n \in Names, CallStart(s, n) PROVE IInv'
  BY <1>1, CallStartStep
<1>2. ASSUME NEW s \in Here,
             ReserveName(s) \/ CallStop(s) \/ StartReturns(s) \/ StopReturns(s) \/ GiveUp(s)
      PROVE  IInv'
  BY <1>2, ReserveNameStep, CallStopStep, StartReturnsStep, StopReturnsStep, GiveUpStep
<1>3. ASSUME NEW s \in Here, RunPrepare(s) \/ RunCommit(s) \/ CleanupAlarm(s) \/ SessionEnds(s)
      PROVE  IInv'
  BY <1>3, PrepareStep, CommitStep, CleanupAlarmStep, SessionEndsStep
<1>4. ASSUME NEW s \in Here, HubAnswersRenewal(s) \/ LoseRenewal(s) PROVE IInv'
  BY <1>4, RenewalAnswerSteps
<1>5. ASSUME NEW i \in Items,
             RunStart(i) \/ RunStop(i) \/ HearClosed(i) \/ RunAbort(i) \/ RunExpire(i) \/ RunCleanup(i)
      PROVE  IInv'
  BY <1>5, StartStep, StopStep, HearClosedStep, AbortStep, ExpireStep, CleanupStep
<1>6. ASSUME NEW n \in Names, LapseOf(n) PROVE IInv'
  BY <1>6, LapseStep
<1>7. ASSUME NEW s \in Elsewhere,
             EndElsewhere(s) \/ \E n \in Names : ReserveElsewhere(s, n) \/ PersistElsewhere(s, n)
      PROVE  IInv'
  BY <1>7, ElsewhereSteps
<1>8. CASE HubAnswersAuthority \/ HubAnswersPersist \/ LoseAnswer \/ HubTakesLatePersist
  BY <1>8, HubAnswersAuthorityStep, HubAnswersPersistStep, LoseAnswerStep, LatePersistStep
<1>9. CASE ReceiveAuthority \/ ReceivePersist \/ CopyLocally \/ FinishStopping
  BY <1>9, ReceiveAuthorityStep, ReceivePersistStep, CopyLocallyStep, FinishStoppingStep
<1>10. CASE RunKeepalive \/ GatherRenewals \/ ApplyRenewals \/ WorkerStops
  BY <1>10, KeepaliveStep, GatherStep, ApplyStep, WorkerStopsStep
<1>11. CASE UNCHANGED vars
  BY <1>11, StutteringKeepsIInv
<1> QED
  BY <1>1, <1>2, <1>3, <1>4, <1>5, <1>6, <1>7, <1>8, <1>9, <1>10, <1>11 DEF Next

LEMMA IInvHolds == Spec => []IInv
  BY InitEstablishesIInv, NextPreservesIInv, PTL DEF Spec

\* The hub, the extension and the tools keep only what their types allow: the state machine of a
\* recording has the four statuses of the code, and an operation on the chain one of four waits.
THEOREM RecordingTypeCorrect == Spec => []TypeOK
<1>1. IInv => TypeOK
  <2> SUFFICES ASSUME IInv PROVE TypeOK
    OBVIOUS
  <2>1. rec \in [Here -> SessionState]
    BY DEF IInv, ManagerOK, Sound
  <2>2. \A i \in DOMAIN work : work[i].s \in Here
    BY DEF IInv, RequestsOK, WorkItem
  <2> QED
    BY <2>1, <2>2 DEF IInv, HubOK, ChainOK, RequestsOK, CompletedOK, ToolOK, ToldOK, CountsOK, TypeOK
<1> QED
  BY <1>1, IInvHolds, PTL

\* What a caller of browser_record_stop has read to be saved on the server is on disk as it was
\* recorded, and the copy the extension keeps of a name is the one of the hub, whatever calls of
\* Chrome fail, answers are lost or come late, and sessions record under the name in between.
THEOREM SavedCopiesNeverDiffer == Spec => []SavedCopiesAgree
<1>1. IInv => SavedCopiesAgree
  BY DEF IInv, ToldOK, CompletedOK, SavedCopiesAgree
<1> QED
  BY <1>1, IInvHolds, PTL

\* A recording on disk is final: no later call under its name, by this browser or another, by a
\* request that arrives late or by a retry, changes or removes the file.
THEOREM RecordingsOnDiskAreFinal ==
    Spec => [][\A n \in Names : files[n] \in Recording => files'[n] = files[n]]_vars
<1>1. ASSUME IInv, [Next]_vars
      PROVE  Grows
  <2>1. CASE UNCHANGED files
    BY <2>1 DEF Grows
  <2>2. CASE HubAnswersPersist
    <3>1. PICK s, r : s = chain.s /\ r = Payload(rec[chain.s].mem)
      OBVIOUS
    <3>2. s \in Sessions /\ r \in Recording
      BY <1>1, <2>2, <3>1, ChainHeld, PayloadIsRecording, DeliveryAssumption
         DEF HubAnswersPersist, Waiting, Fits
    <3>3. PICK outcome \in {"saved", "unsynced", "failed", "torn"}, yes \in BOOLEAN :
             Persist(s, r, outcome, yes)
      BY <2>2, <3>1 DEF HubAnswersPersist
    <3> QED
      BY <1>1, <3>2, <3>3, FilesStay DEF IInv
  <2>3. CASE HubTakesLatePersist
    <3>1. PICK s, r, outcome, yes : s \in Sessions /\ r \in Recording /\ Persist(s, r, outcome, yes)
      BY <1>1, <2>3, DeliveryAssumption DEF HubTakesLatePersist, IInv, RequestsOK
    <3> QED
      BY <1>1, <3>1, FilesStay DEF IInv
  <2>4. ASSUME NEW s \in Elsewhere, NEW n \in Names, PersistElsewhere(s, n)
        PROVE  Grows
    <3>1. PICK r, yes : /\ r = [name |-> n, start |-> reservation[n].start, steps |-> 0]
                        /\ Persist(s, r, "saved", yes)
      BY <2>4 DEF PersistElsewhere
    <3>2. reservation[n] \in Reservation /\ s \in Sessions
      BY <1>1, <2>4 DEF PersistElsewhere, Holds, IInv, HubOK, Optional, Elsewhere
    <3>3. r \in Recording
      BY <3>1, <3>2, ReservationAssumption DEF Reservation, Recording
    <3> QED
      BY <1>1, <3>1, <3>2, <3>3, FilesStay DEF IInv
  <2>5. CASE ~HubAnswersPersist /\ ~HubTakesLatePersist
             /\ ~(\E s \in Elsewhere, n \in Names : PersistElsewhere(s, n))
    <3>1. UNCHANGED files
      BY <1>1, <2>5
         DEF Next, vars, hubVars, CallStart, ReserveName, Reserve, CallStop, StartReturns, StopReturns,
             LetGo, Release, GiveUp, RunPrepare, RunCommit, CleanupAlarm, SessionEnds, EndSession,
             HubAnswersRenewal, LoseRenewal, RunStart, RunStop, HearClosed, RunAbort, RunExpire,
             RunCleanup, LapseOf, Lapse, EndElsewhere, ReserveElsewhere, HubAnswersAuthority,
             LoseAnswer, ReceiveAuthority, ReceivePersist, CopyLocally, FinishStopping,
             RunKeepalive, GatherRenewals, ApplyRenewals, WorkerStops
    <3> QED
      BY <3>1, <2>1
  <2> QED
    BY <2>2, <2>3, <2>4, <2>5
<1> QED
  BY <1>1, IInvHolds, PTL DEF Spec, Grows

-------------------------------------------------------------------------------
(* A recording that holds its name survives.  What an operation makes of a *)
(* state is told by two relations: Evolves, which every operation but a    *)
(* start obeys, says that no recording appears, is taken for another or    *)
(* comes back from a cleanup; Spares says that the recording is still      *)
(* there, or is stopping.                                                  *)

\* The stored recording is active, and no cleanup of it has begun.
Intact(r) == r.stored # None /\ r.stored.status = "active" /\ ~r.alarm /\ ~r.closed

\* Memory has nothing against it.
Untouched(r) == ~r.fallback /\ (r.mem # None => r.mem.status \in {"active", "quarantined"})

\* Memory and storage have the same recording, unless memory is cleaning up.
Paired(r) ==
    /\ r.stored # None => r.stored.status # "quarantined"
    /\ r.mem # None /\ r.mem.status # "cleanup" =>
          /\ r.stored # None /\ r.stored.name = r.mem.name /\ r.stored.start = r.mem.start
          /\ r.stored.status = (IF r.mem.status = "stopping" THEN "stopping" ELSE "active")

Evolves(r, q) ==
    /\ Paired(q)
    /\ q.stored # None => r.stored # None /\ q.stored.start = r.stored.start
    /\ Intact(q) => Intact(r) /\ q.stored.name = r.stored.name
    /\ q.renewing => r.renewing

Spares(r, q) ==
    Intact(r) /\ Untouched(r) =>
        /\ q.stored # None /\ q.stored.status \in {"active", "stopping"}
        /\ Intact(q) => Untouched(q)

LEMMA EvolvesTwice ==
    ASSUME NEW r, NEW q, NEW p, Evolves(r, q), Evolves(q, p)
    PROVE  Evolves(r, p)
  BY DEF Evolves

LEMMA StayingEvolves ==
    ASSUME NEW r, Paired(r)
    PROVE  Evolves(r, r) /\ Spares(r, r)
  BY DEF Evolves, Spares, Intact

\* Cleaning up.
LEMMA CleaningEvolves ==
    ASSUME NEW r \in SessionState, Paired(r), NEW F
    PROVE  /\ Evolves(r, WithAlarm(r, F))
           /\ Evolves(r, Removed(r))
           /\ Evolves(r, Cleared(r, F))
           /\ Evolves(r, WithAlarm(Hidden(r), F)) /\ ~Intact(WithAlarm(Hidden(r), F))
           /\ Evolves(r, RetryCleanup(r, F)) /\ ~Intact(RetryCleanup(r, F))
<1>1. Evolves(r, WithAlarm(r, F))
  BY DEF Evolves, Paired, Intact, WithAlarm, SessionState
<1>2. Evolves(r, Removed(r)) /\ Evolves(r, Cleared(r, F)) /\ ~Intact(Cleared(r, F))
  BY DEF Evolves, Paired, Intact, Cleared, Removed, NoSession, SessionState
<1>3. Evolves(r, WithAlarm(Hidden(r), F)) /\ ~Intact(WithAlarm(Hidden(r), F))
  <2>1. PICK h : h = Hidden(r)
    OBVIOUS
  <2>2. h \in SessionState /\ h.mem = None /\ h.closed = TRUE /\ h.stored = r.stored /\ h.renewing = FALSE
    BY <2>1 DEF Hidden, SessionState, Optional
  <2>3. PICK q : q = WithAlarm(h, F)
    OBVIOUS
  <2>4. q.mem = None /\ q.closed = TRUE /\ q.stored = r.stored /\ q.renewing = FALSE
    BY <2>2, <2>3 DEF WithAlarm, SessionState
  <2>5. Evolves(r, q) /\ ~Intact(q)
    BY <2>4 DEF Evolves, Paired, Intact
  <2> QED
    BY <2>1, <2>3, <2>5
<1> QED
  BY <1>1, <1>2, <1>3 DEF RetryCleanup

\* The mark of a session that ended.
LEMMA MarkingEvolves ==
    ASSUME NEW r \in SessionState, Paired(r), NEW F
    PROVE  Evolves(r, WithAlarm([r EXCEPT !.closed = TRUE], F))
<1>1. PICK h : h = [r EXCEPT !.closed = TRUE]
  OBVIOUS
<1>2. h \in SessionState /\ h.mem = r.mem /\ h.closed = TRUE /\ h.stored = r.stored /\ h.renewing = r.renewing
  BY <1>1 DEF SessionState
<1>3. PICK q : q = WithAlarm(h, F)
  OBVIOUS
<1>4. q.mem = r.mem /\ q.closed = TRUE /\ q.stored = r.stored /\ q.renewing = r.renewing
  BY <1>2, <1>3 DEF WithAlarm, SessionState
<1>5. Evolves(r, q)
  BY <1>4 DEF Evolves, Paired, Intact
<1> QED
  BY <1>1, <1>3, <1>5

\* Evolves and Spares look only at some fields.
Same(r, q) ==
    /\ q.mem = r.mem /\ q.stored = r.stored /\ q.alarm = r.alarm /\ q.closed = r.closed
    /\ q.fallback = r.fallback /\ q.renewing \in {r.renewing, FALSE}

LEMMA SameEvolves ==
    ASSUME NEW r, NEW q, Same(r, q), Paired(r)
    PROVE  Evolves(r, q) /\ Spares(r, q)
  BY DEF Same, Evolves, Spares, Intact, Untouched, Paired

LEMMA FinishingEvolves ==
    ASSUME NEW f, NEW r, Sound(r, f), Paired(r), NEW F \in SUBSET Failure
    PROVE  Evolves(r, FinishStop(r, F))
<1>1. CASE r.mem = None
  BY <1>1, StayingEvolves DEF FinishStop
<1>2. CASE r.mem # None
  <2> DEFINE m == [r.mem EXCEPT !.status = "cleanup"]
             armed == WithAlarm(r, F)
             inMemory == [armed EXCEPT !.mem = m]
             inBoth == [armed EXCEPT !.mem = m, !.stored = m]
             marked == IF r.mem.status = "cleanup" THEN inMemory ELSE inBoth
             fails == r.mem.status # "cleanup" /\ "persist" \in F
  <2>1. m \in ActiveRecording /\ m.status = "cleanup" /\ m.name = r.mem.name /\ m.start = r.mem.start /\ m # None
    BY <1>2, DeliveryAssumption DEF Sound, Fits, ActiveRecording
  <2>2. /\ armed \in SessionState /\ armed.mem = r.mem /\ armed.stored = r.stored
        /\ armed.closed = r.closed /\ armed.renewing = r.renewing /\ (r.alarm => armed.alarm)
    BY DEF WithAlarm, Sound, SessionState
  <2>3. Evolves(r, inMemory) /\ inMemory \in SessionState
    <3> HIDE DEF m, armed
    <3>1. /\ inMemory \in SessionState /\ inMemory.mem = m /\ inMemory.stored = r.stored
          /\ inMemory.closed = r.closed /\ inMemory.renewing = r.renewing /\ (r.alarm => inMemory.alarm)
      BY <2>1, <2>2 DEF SessionState, Optional
    <3> QED
      BY <2>1, <3>1 DEF Evolves, Paired, Intact
  <2>4. r.mem.status # "cleanup" => Evolves(r, inBoth) /\ inBoth \in SessionState
    <3> SUFFICES ASSUME r.mem.status # "cleanup" PROVE Evolves(r, inBoth) /\ inBoth \in SessionState
      OBVIOUS
    <3> HIDE DEF m, armed
    <3>1. /\ inBoth \in SessionState /\ inBoth.mem = m /\ inBoth.stored = m
          /\ inBoth.closed = r.closed /\ inBoth.renewing = r.renewing /\ (r.alarm => inBoth.alarm)
      BY <2>1, <2>2 DEF SessionState, Optional
    <3>2. r.stored # None /\ r.stored.start = m.start
      BY <1>2, <2>1 DEF Paired
    <3> QED
      BY <2>1, <3>1, <3>2 DEF Evolves, Paired, Intact
  <2>5. Evolves(r, marked) /\ marked \in SessionState /\ Paired(marked)
    <3> HIDE DEF inMemory, inBoth
    <3> QED
      BY <2>3, <2>4 DEF Evolves
  <2>6. Evolves(r, Cleared(marked, F)) /\ Evolves(r, WithAlarm(Hidden(marked), F))
    <3> HIDE DEF marked
    <3>1. Evolves(marked, Cleared(marked, F)) /\ Evolves(marked, WithAlarm(Hidden(marked), F))
      BY <2>5, CleaningEvolves
    <3> QED
      BY <2>5, <3>1, EvolvesTwice
  <2>7. /\ [armed EXCEPT !.mem.status = "cleanup"] = inMemory
        /\ [armed EXCEPT !.mem.status = "cleanup",
                         !.stored = IF r.mem.status = "cleanup" THEN @
                                    ELSE [r.mem EXCEPT !.status = "cleanup"]] = marked
    <3> HIDE DEF armed
    <3> QED
      BY <2>2 DEF SessionState
  <2>8. FinishStop(r, F) = IF fails THEN inMemory
                           ELSE IF "remove" \in F THEN WithAlarm(Hidden(marked), F)
                           ELSE Cleared(marked, F)
    <3> HIDE DEF inMemory, marked
    <3> QED
      BY <1>2, <2>7 DEF FinishStop
  <2> HIDE DEF inMemory, marked
  <2> QED
    BY <2>3, <2>6, <2>8
<1> QED
  BY <1>1, <1>2

\* Restoring a session whose recording is intact finds it, and leaves it as it is.
LEMMA RestoringEvolves ==
    ASSUME NEW f, NEW r, Sound(r, f), Paired(r), NEW F \in SUBSET Failure
    PROVE  LET q == Restore(r, F) IN
           /\ Evolves(r, q)
           /\ Intact(r) /\ Untouched(r) =>
                 /\ q.mem # None /\ q.mem.status \in {"active", "quarantined"}
                 /\ q.stored = r.stored /\ Intact(q) /\ Untouched(q)
<1>1. PICK q : q = Restore(r, F)
  OBVIOUS
<1>2. CASE r.stored = None
  BY <1>1, <1>2, CleaningEvolves DEF Restore, Sound, Intact
<1>3. CASE r.stored # None /\ r.mem # None
  <2>1. q \in {r, Removed(r)}
    BY <1>1, <1>3 DEF Restore
  <2>2. Intact(r) /\ Untouched(r) => q = r
    BY <1>1, <1>3 DEF Restore, Paired, Intact, Untouched
  <2> QED
    BY <1>1, <1>3, <2>1, <2>2, CleaningEvolves, StayingEvolves DEF Sound, Untouched
<1>4. CASE r.stored # None /\ r.mem = None
  <2> DEFINE m == [r.stored EXCEPT !.status = IF @ = "active" THEN "quarantined" ELSE @]
             alarm == r.alarm \/ (r.stored.status = "cleanup" /\ "alarm" \notin F)
  <2>1. r.stored \in ActiveRecording
    BY <1>4 DEF Sound, Fits
  <2>2. /\ m \in ActiveRecording /\ m # None /\ m.name = r.stored.name /\ m.start = r.stored.start
        /\ m.status = IF r.stored.status = "active" THEN "quarantined" ELSE r.stored.status
    BY <2>1, DeliveryAssumption DEF ActiveRecording
  <2>3. q = [r EXCEPT !.mem = m, !.alarm = alarm]
    BY <1>1, <1>4 DEF Restore, Sound, SessionState
  <2>4. /\ q.mem = m /\ q.stored = r.stored /\ q.alarm = alarm /\ q.closed = r.closed
        /\ q.fallback = r.fallback /\ q.renewing = r.renewing
    <3> HIDE DEF m, alarm
    <3> QED
      BY <2>3 DEF Sound, SessionState
  <2>5. Paired(q)
    BY <2>1, <2>2, <2>4, <1>4 DEF Paired, ActiveRecording
  <2>6. Evolves(r, q)
    BY <1>4, <2>4, <2>5 DEF Evolves, Intact
  <2>7. Intact(r) => alarm = FALSE
    BY DEF Intact, Sound, SessionState
  <2>8. Intact(r) /\ Untouched(r) => q.mem # None /\ q.mem.status \in {"active", "quarantined"}
                                     /\ q.stored = r.stored /\ Intact(q) /\ Untouched(q)
    <3> HIDE DEF m, alarm
    <3> QED
      BY <1>4, <2>2, <2>4, <2>7 DEF Intact, Untouched
  <2> QED
    BY <1>1, <2>6, <2>8
<1> QED
  BY <1>1, <1>2, <1>3, <1>4

\* A session looked at by restoreAll or restoreSession.
LEMMA RestoredEvolves ==
    ASSUME NEW f, NEW r, Sound(r, f), Paired(r), NEW F \in SUBSET Failure
    PROVE  /\ Evolves(r, Restored(r, F)) /\ Spares(r, Restored(r, F))
           /\ Evolves(r, RestoreOne(r, F)) /\ Spares(r, RestoreOne(r, F))
           /\ Intact(r) /\ Untouched(r) => Restored(r, F).mem # None /\ ~Cleaning(r)
<1>1. PICK q : q = Restore(r, F)
  OBVIOUS
<1>2. /\ Evolves(r, q)
      /\ Intact(r) /\ Untouched(r) =>
            /\ q.mem # None /\ q.mem.status \in {"active", "quarantined"}
            /\ q.stored = r.stored /\ Intact(q) /\ Untouched(q)
  BY <1>1, RestoringEvolves
<1>3. Spares(r, q)
  BY <1>2 DEF Spares, Intact
<1>4. Sound(q, f) /\ Paired(q)
  BY <1>1, <1>2, RestoringIsSound DEF Evolves
<1>5. Evolves(r, FinishStop(q, F))
  <2>1. Evolves(q, FinishStop(q, F))
    BY <1>4, FinishingEvolves
  <2> QED
    BY <1>2, <2>1, EvolvesTwice
<1>6. Evolves(r, RetryCleanup(r, F))
  BY CleaningEvolves DEF Sound
<1>7. Evolves(r, r) /\ Spares(r, r)
  BY StayingEvolves
<1>8. Intact(r) /\ Untouched(r) => ~r.alarm /\ ~Cleaning(r) /\ r.stored # None /\ ~InCleanup(q)
  BY <1>2 DEF Intact, Untouched, Cleaning, InCleanup
<1>9. /\ Evolves(r, RestoreOne(r, F))
      /\ Intact(r) /\ Untouched(r) => RestoreOne(r, F) = q
  BY <1>1, <1>2, <1>6, <1>8 DEF RestoreOne
<1>10. /\ Evolves(r, Restored(r, F))
       /\ Intact(r) /\ Untouched(r) => Restored(r, F) = q
  BY <1>1, <1>2, <1>5, <1>6, <1>7, <1>8 DEF Restored
<1> QED
  BY <1>2, <1>3, <1>8, <1>9, <1>10 DEF Spares

\* prepareStep, and the promotion of a recording that the hub has confirmed.
LEMMA PreparingEvolves ==
    ASSUME NEW r \in SessionState, Paired(r)
    PROVE  Evolves(r, Prepared(r)) /\ Spares(r, Prepared(r))
<1>1. PICK q : q = Prepared(r)
  OBVIOUS
<1>2. Same(r, q)
  BY <1>1 DEF Same, Prepared, SessionState
<1> QED
  BY <1>1, <1>2, SameEvolves

\* A recording that is put where it was, with other steps or another status.
LEMMA KeepingEvolves ==
    ASSUME NEW r \in SessionState, Paired(r), NEW m \in ActiveRecording, NEW F,
           r.mem # None, r.mem.status # "cleanup", m.name = r.mem.name, m.start = r.mem.start,
           \/ r.mem.status \in {"active", "quarantined"} /\ m.status = "active"
           \/ r.mem.status = "stopping" /\ m.status = "stopping"
    PROVE  Evolves(r, Kept(r, m, F)) /\ Spares(r, Kept(r, m, F))
<1>1. PICK q : q = Kept(r, m, F)
  OBVIOUS
<1>2. /\ q.mem = m /\ q.stored \in {r.stored, m} /\ q.alarm = r.alarm /\ q.closed = r.closed
      /\ q.fallback = r.fallback /\ q.renewing = r.renewing /\ m # None
  BY <1>1, DeliveryAssumption DEF Kept, SessionState, Optional
<1>3. Paired(q)
  BY <1>2 DEF Paired
<1>4. Evolves(r, q)
  BY <1>2, <1>3 DEF Evolves, Intact, Paired
<1>5. Spares(r, q)
  BY <1>2 DEF Spares, Intact, Untouched, Paired
<1> QED
  BY <1>1, <1>4, <1>5

LEMMA PromotingEvolves ==
    ASSUME NEW f, NEW r, Sound(r, f), Paired(r), Quarantined(r), NEW F
    PROVE  Evolves(r, Promoted(r, F)) /\ Spares(r, Promoted(r, F))
<1>1. PICK m : m = [r.mem EXCEPT !.status = "active"]
  OBVIOUS
<1>2. m \in ActiveRecording /\ m.name = r.mem.name /\ m.start = r.mem.start /\ m.status = "active"
  BY <1>1 DEF Quarantined, Sound, Fits, ActiveRecording
<1>3. Evolves(r, Kept(r, m, F)) /\ Spares(r, Kept(r, m, F))
  BY <1>2, KeepingEvolves DEF Quarantined, Sound
<1> QED
  BY <1>1, <1>3, StayingEvolves DEF Promoted

\* stop, when it marks the recording in memory and storage.
LEMMA StoppingEvolves ==
    ASSUME NEW f, NEW r, Sound(r, f), Paired(r), r.mem # None, r.mem.status = "active"
    PROVE  LET m == [r.mem EXCEPT !.status = "stopping"]
               q == [r EXCEPT !.mem = m, !.stored = m] IN
           Evolves(r, q) /\ Spares(r, q)
<1>1. PICK m : m = [r.mem EXCEPT !.status = "stopping"]
  OBVIOUS
<1>2. m # None /\ m.name = r.mem.name /\ m.start = r.mem.start /\ m.status = "stopping"
  BY <1>1, DeliveryAssumption DEF Sound, Fits, ActiveRecording
<1>3. PICK q : q = [r EXCEPT !.mem = m, !.stored = m]
  OBVIOUS
<1>4. q.mem = m /\ q.stored = m /\ q.renewing = r.renewing
  BY <1>3 DEF Sound, SessionState
<1>5. Evolves(r, q) /\ Spares(r, q)
  BY <1>2, <1>4 DEF Evolves, Spares, Intact, Paired
<1> QED
  BY <1>1, <1>3, <1>5

\* The renewal pass takes a session up: only then is a recording taken for a candidate.
LEMMA GatheringEvolves ==
    ASSUME NEW f, NEW r, Sound(r, f), Paired(r), NEW F \in SUBSET Failure
    PROVE  /\ Evolves(r, [Gathered(r, F) EXCEPT !.renewing = FALSE])
           /\ Spares(r, Gathered(r, F))
<1>1. PICK q : q = Restore(r, F)
  OBVIOUS
<1>2. /\ Evolves(r, q)
      /\ Intact(r) /\ Untouched(r) =>
            /\ q.mem # None /\ q.mem.status \in {"active", "quarantined"}
            /\ q.stored = r.stored /\ Intact(q) /\ Untouched(q)
  BY <1>1, RestoringEvolves
<1>3. Sound(q, f) /\ Paired(q)
  BY <1>1, <1>2, RestoringIsSound DEF Evolves
<1>4. Evolves(r, FinishStop(q, F))
  <2>1. Evolves(q, FinishStop(q, F))
    BY <1>3, FinishingEvolves
  <2> QED
    BY <1>2, <2>1, EvolvesTwice
<1>5. Evolves(r, RetryCleanup(r, F)) /\ Evolves(r, r)
  BY CleaningEvolves, StayingEvolves DEF Sound
<1>6. PICK d, n : d = [q EXCEPT !.deferred = TRUE] /\ n = [q EXCEPT !.renewing = TRUE, !.deferred = FALSE]
  OBVIOUS
<1>7. /\ \A p \in {d, n} : /\ p.mem = q.mem /\ p.stored = q.stored /\ p.alarm = q.alarm
                           /\ p.closed = q.closed /\ p.fallback = q.fallback
      /\ d \in SessionState /\ n \in SessionState
  BY <1>3, <1>6 DEF Sound, SessionState
<1>8. PICK g : g = Gathered(r, F)
  OBVIOUS
<1>9. /\ g \in {r, RetryCleanup(r, F), q, FinishStop(q, F), d, n}
      /\ Intact(r) /\ Untouched(r) => g \in {d, n}
  <2>1. g \in {r, RetryCleanup(r, F), q, FinishStop(q, F), d, n}
    BY <1>1, <1>6, <1>8 DEF Gathered
  <2>2. ASSUME Intact(r), Untouched(r)
        PROVE  g \in {d, n}
    <3>1. ~Cleaning(r) /\ r.stored # None /\ ~InCleanup(q) /\ ~q.closed
      BY <1>2, <2>2 DEF Intact, Untouched, Cleaning, InCleanup
    <3> QED
      BY <1>1, <1>2, <1>6, <1>8, <2>2, <3>1 DEF Gathered
  <2> QED
    BY <2>1, <2>2
<1>10. g \in SessionState
  BY <1>8, GatheredIsSound DEF Sound
<1>11. PICK h : h = [g EXCEPT !.renewing = FALSE]
  OBVIOUS
<1>12. /\ h.mem = g.mem /\ h.stored = g.stored /\ h.alarm = g.alarm
       /\ h.closed = g.closed /\ h.fallback = g.fallback /\ h.renewing = FALSE
  BY <1>10, <1>11 DEF SessionState
<1>13. Evolves(r, h)
  <2>1. \A p : Evolves(r, p) /\ h.mem = p.mem /\ h.stored = p.stored /\ h.alarm = p.alarm
               /\ h.closed = p.closed => Evolves(r, h)
    BY <1>12 DEF Evolves, Paired, Intact
  <2>2. CASE g \in {r, RetryCleanup(r, F), q, FinishStop(q, F)}
    BY <1>2, <1>4, <1>5, <1>12, <2>1, <2>2
  <2>3. CASE g \in {d, n}
    BY <1>2, <1>7, <1>12, <2>1, <2>3
  <2> QED
    BY <1>9, <2>2, <2>3
<1>14. Spares(r, g)
  BY <1>2, <1>7, <1>9 DEF Spares, Intact, Untouched
<1> QED
  BY <1>8, <1>11, <1>13, <1>14

\* The renewal pass ends: only a refusal, or the mark, ends a recording.
LEMMA RenewingEvolves ==
    ASSUME NEW f, NEW r, Sound(r, f), Paired(r), NEW answer, NEW F \in SUBSET Failure
    PROVE  LET q == [AfterRenewal(r, answer, F) EXCEPT !.renewing = FALSE] IN
           Evolves(r, q) /\ (~r.renewing \/ answer # "no" => Spares(r, q))
<1>1. PICK p : p = AfterRenewal(r, answer, F)
  OBVIOUS
<1>2. Evolves(r, FinishStop(r, F)) /\ Evolves(r, r) /\ Spares(r, r)
  BY FinishingEvolves, StayingEvolves
<1>3. Quarantined(r) => Evolves(r, Promoted(r, F)) /\ Spares(r, Promoted(r, F)) /\ Sound(Promoted(r, F), f)
  BY PromotingEvolves, PromotedIsSound
<1>4. p \in {r, FinishStop(r, F)} \/ (Quarantined(r) /\ p = Promoted(r, F))
  BY <1>1 DEF AfterRenewal
<1>5. Evolves(r, p) /\ p \in SessionState
  BY <1>2, <1>3, <1>4, FinishStopIsSound DEF Sound
<1>6. Intact(r) /\ (~r.renewing \/ answer # "no") => p = r \/ (Quarantined(r) /\ p = Promoted(r, F))
  BY <1>1 DEF AfterRenewal, Intact, IsCandidate
<1>7. ~r.renewing \/ answer # "no" => Spares(r, p)
  BY <1>2, <1>3, <1>6 DEF Spares
<1>8. PICK q : q = [p EXCEPT !.renewing = FALSE]
  OBVIOUS
<1>9. Same(p, q) /\ Paired(p)
  BY <1>5, <1>8 DEF Same, SessionState, Evolves
<1>10. Evolves(r, q)
  BY <1>5, <1>9, SameEvolves, EvolvesTwice
<1>11. Spares(r, p) => Spares(r, q)
  BY <1>9 DEF Same, Spares, Intact, Untouched
<1> QED
  BY <1>1, <1>7, <1>8, <1>10, <1>11

-------------------------------------------------------------------------------
(* What else has to be so for a recording that holds its name to survive:  *)
(* nothing that can end it is on its way.                                  *)

StartWaits(q, s, c) == \E i \in DOMAIN q : q[i].kind = "start" /\ q[i].s = s /\ q[i].call = c
ExpireWaits(q, s, n) == \E i \in DOMAIN q : q[i].kind = "expire" /\ q[i].s = s /\ q[i].name = n
EndWaits(q, s) == \E i \in DOMAIN q : q[i].kind \in {"closed", "abort"} /\ q[i].s = s

\* An expiry of n was asked for before the start c.
InOrder(q, s, n, c) ==
    \A i \in DOMAIN q : q[i].kind = "expire" /\ q[i].s = s /\ q[i].name = n =>
        \A j \in 1..(i - 1) : ~(q[j].kind = "start" /\ q[j].s = s /\ q[j].call = c)

\* The operation on the chain is about to hear that the hub knows nothing of its recording.
Denied(s) == chain # None /\ chain.s = s /\ chain.at = "authority" /\ chain.rpc = "no"

\* The renewal pass asked for the name of the stored recording, and was not refused.
CandidateOK(s) ==
    rec[s].renewing => pass[s] # None /\ pass[s].name = rec[s].stored.name /\ pass[s].answer # "no"
HeldOK(s) == HoldsItsName(s) => Untouched(rec[s]) /\ CandidateOK(s) /\ ~Denied(s)

\* A start is numbered by its call, and no call has two.
StoredStart(s, c) == rec[s].stored # None /\ rec[s].stored.start = c
StartsOK(s) ==
    /\ \A c \in Calls : StoredStart(s, c) \/ StartWaits(work, s, c) => c <= calls
    /\ tool[s].call <= calls
    /\ tool[s].at = "checked" => ~StoredStart(s, tool[s].call) /\ ~StartWaits(work, s, tool[s].call)

\* An expiry that waits was for an earlier reservation of the name.
ExpiresOK(s) ==
    \A n \in Names : Holds(s, n) /\ ExpireWaits(work, s, n) =>
        /\ ~StoredStart(s, reservation[n].start)
        /\ InOrder(work, s, n, reservation[n].start)

EndsOK(s) == EndWaits(work, s) => s \notin live

HInv ==
    /\ IInv
    /\ \A s \in Here : Paired(rec[s]) /\ HeldOK(s) /\ StartsOK(s) /\ ExpiresOK(s) /\ EndsOK(s)

\* A step does to a session what it may, or runs the excepted cleanup.
Cared(s) ==
    /\ Evolves(rec[s], rec'[s])
    /\ HoldsItsName(s) => \/ Spares(rec[s], rec'[s])
                          \/ CleanupRuns(s) /\ ~Intact(rec'[s])
Survives(s) == HoldsItsName(s) /\ StillReserved(s) => KeepsRecording(s) \/ CleanupRuns(s)

LEMMA CaredForSurvives ==
    ASSUME HInv, NEW s \in Here, Cared(s)
    PROVE  Survives(s)
  BY DEF HInv, HeldOK, Cared, Survives, HoldsItsName, CleanupBegan, Intact, Spares, KeepsRecording

\* What a step may do to the hub, to the work that waits and to the tools
\* without any session being the worse for it.
HubCalm ==
    /\ live' \subseteq live
    /\ \A n \in Names : reservation'[n] \in {None, reservation[n]} \/ reservation'[n].by \notin Here
Drains(q, p) ==
    \A s \in Here :
       /\ \A c \in Calls : StartWaits(p, s, c) => StartWaits(q, s, c)
       /\ \A n \in Names : Holds(s, n)' /\ ExpireWaits(p, s, n) => ExpireWaits(q, s, n)
       /\ \A n \in Names, c \in Calls : Holds(s, n)' /\ InOrder(q, s, n, c) => InOrder(p, s, n, c)
       /\ EndWaits(p, s) => EndWaits(q, s) \/ s \notin live'
ToolsCalm ==
    /\ calls <= calls'
    /\ \A s \in Here : /\ tool'[s].call <= calls'
                       /\ tool'[s].at = "checked" => tool[s].at = "checked" /\ tool'[s].call = tool[s].call

\* Nothing holds its name that did not before.
LEMMA NothingHeldAnew ==
    ASSUME HInv, IInv', NEW s \in Here, Evolves(rec[s], rec'[s]), HubCalm
    PROVE  HoldsItsName(s)' => HoldsItsName(s)
<1>1. SUFFICES ASSUME HoldsItsName(s)'
      PROVE  HoldsItsName(s)
  OBVIOUS
<1>2. PICK r, q : r = rec[s] /\ q = rec'[s]
  OBVIOUS
<1>3. Intact(q)
  BY <1>1, <1>2 DEF HoldsItsName, CleanupBegan, Intact
<1>4. Intact(r) /\ q.stored.name = r.stored.name /\ q.stored.start = r.stored.start
  BY <1>2, <1>3 DEF Evolves, Intact
<1>5. q.stored.name \in Names /\ q.stored.start \in Calls
  BY <1>2, <1>3 DEF IInv, ManagerOK, Sound, Fits, ActiveRecording, Intact
<1>6. reservation'[q.stored.name] = [by |-> s, start |-> q.stored.start] /\ s \in live'
  BY <1>1, <1>2 DEF HoldsItsName
<1>7. [by |-> s, start |-> q.stored.start] \in Reservation
  BY <1>5, DeliveryAssumption DEF Reservation
<1>8. reservation[q.stored.name] = [by |-> s, start |-> q.stored.start] /\ s \in live
  BY <1>5, <1>6, <1>7, ReservationAssumption DEF HubCalm
<1> QED
  BY <1>2, <1>4, <1>8 DEF HoldsItsName, CleanupBegan, Intact

LEMMA EvolvedStart ==
    ASSUME NEW s \in Here, Evolves(rec[s], rec'[s])
    PROVE  \A c \in Calls : StoredStart(s, c)' => StoredStart(s, c)
  BY DEF Evolves, StoredStart

LEMMA HeldKept ==
    ASSUME HInv, NEW s \in Here, Cared(s), HoldsItsName(s)' => HoldsItsName(s),
           pass' = pass \/ ~rec'[s].renewing, Denied(s)' => Denied(s)
    PROVE  Paired(rec[s])' /\ HeldOK(s)'
<1>1. Paired(rec[s])'
  BY DEF Cared, Evolves
<1>2. SUFFICES ASSUME HoldsItsName(s)'
      PROVE  Untouched(rec'[s]) /\ CandidateOK(s)' /\ ~Denied(s)'
  BY <1>1 DEF HeldOK
<1>3. PICK r, q : r = rec[s] /\ q = rec'[s]
  OBVIOUS
<1>4. Intact(r) /\ Intact(q) /\ q.stored.name = r.stored.name /\ (q.renewing => r.renewing)
  BY <1>2, <1>3 DEF HoldsItsName, CleanupBegan, Intact, Cared, Evolves
<1>5. Untouched(r) /\ CandidateOK(s) /\ ~Denied(s)
  BY <1>2 , <1>3 DEF HInv, HeldOK
<1>6. Untouched(q)
  BY <1>2, <1>3, <1>4, <1>5 DEF Cared, Spares
<1> QED
  BY <1>3, <1>4, <1>5, <1>6 DEF CandidateOK

LEMMA StartsKept ==
    ASSUME HInv, IInv', NEW s \in Here, Drains(work, work'), ToolsCalm,
           \A c \in Calls : StoredStart(s, c)' => StoredStart(s, c) \/ StartWaits(work, s, c)
    PROVE  StartsOK(s)'
<1>1. calls \in Nat /\ calls' \in Nat /\ calls <= calls'
  BY DEF HInv, IInv, CountsOK, ToolsCalm
<1>2. \A c \in Calls : StartWaits(work', s, c) => StartWaits(work, s, c)
  BY DEF Drains
<1>3. \A c \in Calls : StoredStart(s, c) \/ StartWaits(work, s, c) => c <= calls
  BY DEF HInv, StartsOK
<1>4. \A c \in Calls : StoredStart(s, c)' \/ StartWaits(work', s, c) => c <= calls'
  BY <1>1, <1>2, <1>3 DEF Calls
<1>5. ASSUME tool'[s].at = "checked"
      PROVE  ~StoredStart(s, tool[s].call)' /\ ~StartWaits(work', s, tool'[s].call)
  <2>1. PICK c : c = tool'[s].call
    OBVIOUS
  <2>2. c \in Calls /\ tool[s].at = "checked" /\ tool[s].call = c
    BY <1>5, <2>1 DEF IInv, ToolOK, ToolsCalm
  <2>3. ~StoredStart(s, c) /\ ~StartWaits(work, s, c)
    BY <2>2 DEF HInv, StartsOK
  <2>4. ~StoredStart(s, c)' /\ ~StartWaits(work', s, c)
    BY <1>2, <2>2, <2>3
  <2> QED
    BY <2>1, <2>4 DEF StoredStart
<1> QED
  BY <1>4, <1>5 DEF StartsOK, ToolsCalm

LEMMA ExpiresKept ==
    ASSUME HInv, IInv', NEW s \in Here, Drains(work, work'), HubCalm,
           \A c \in Calls : StoredStart(s, c)' => StoredStart(s, c)
    PROVE  ExpiresOK(s)'
<1>1. SUFFICES ASSUME NEW n \in Names, Holds(s, n)', ExpireWaits(work', s, n)
               PROVE  /\ ~StoredStart(s, reservation[n].start)'
                      /\ InOrder(work', s, n, reservation'[n].start)
  BY DEF ExpiresOK
<1>2. reservation'[n] = reservation[n] /\ Holds(s, n)
  BY <1>1 DEF HubCalm, Holds
<1>3. PICK c : c = reservation[n].start
  OBVIOUS
<1>4. c \in Calls
  BY <1>2, <1>3 DEF Holds, HInv, IInv, HubOK, Optional, Reservation
<1>5. ExpireWaits(work, s, n)
  BY <1>1 DEF Drains
<1>6. ~StoredStart(s, c) /\ InOrder(work, s, n, c)
  BY <1>2, <1>3, <1>5 DEF HInv, ExpiresOK
<1>7. ~StoredStart(s, c)' /\ InOrder(work', s, n, c)
  BY <1>1, <1>4, <1>6 DEF Drains
<1> QED
  BY <1>2, <1>3, <1>7 DEF StoredStart

LEMMA EndsKept ==
    ASSUME HInv, NEW s \in Here, Drains(work, work'), HubCalm
    PROVE  EndsOK(s)'
  BY DEF HInv, EndsOK, Drains, HubCalm

\* A step that cares for every session, and leaves the rest calm.
LEMMA CalmStep ==
    ASSUME HInv, IInv', \A s \in Here : Cared(s), HubCalm, Drains(work, work'), ToolsCalm,
           \A s \in Here : pass' = pass \/ ~rec'[s].renewing,
           \A s \in Here : Denied(s)' => Denied(s)
    PROVE  HInv' /\ \A s \in Here : Survives(s)
<1>1. ASSUME NEW s \in Here
      PROVE  /\ Paired(rec[s])' /\ HeldOK(s)' /\ StartsOK(s)' /\ ExpiresOK(s)' /\ EndsOK(s)'
             /\ Survives(s)
  <2>1. \A c \in Calls : StoredStart(s, c)' => StoredStart(s, c)
    BY EvolvedStart DEF Cared
  <2> QED
    BY <2>1, NothingHeldAnew, HeldKept, StartsKept, ExpiresKept, EndsKept, CaredForSurvives
       DEF Cared
<1> QED
  BY <1>1 DEF HInv

\* The work that waits.
LEMMA DrainsNothing ==
    ASSUME NEW q
    PROVE  Drains(q, q) /\ Drains(q, <<>>)
  BY DEF Drains, StartWaits, ExpireWaits, InOrder, EndWaits

LEMMA WithoutAt ==
    ASSUME NEW q \in Seq(WorkItem), NEW i \in 1..Len(q)
    PROVE  LET p == Without(q, i) IN
           /\ p \in Seq(WorkItem) /\ Len(p) = Len(q) - 1
           /\ \A k \in 1..Len(p) : p[k] = q[IF k < i THEN k ELSE k + 1]
<1>1. PICK a, b : a = SubSeq(q, 1, i - 1) /\ b = SubSeq(q, i + 1, Len(q))
  OBVIOUS
<1>2. /\ a \in Seq(WorkItem) /\ Len(a) = i - 1
      /\ \A k \in 1..(i - 1) : a[k] = q[k]
  BY <1>1
<1>3. /\ b \in Seq(WorkItem) /\ Len(b) = Len(q) - i
      /\ \A k \in 1..(Len(q) - i) : b[k] = q[k + i]
  BY <1>1
<1>4. PICK p : p = a \o b
  OBVIOUS
<1>5. p \in Seq(WorkItem) /\ Len(p) = Len(q) - 1
  BY <1>2, <1>3, <1>4
<1>6. ASSUME NEW k \in 1..Len(p)
      PROVE  p[k] = q[IF k < i THEN k ELSE k + 1]
  <2>1. CASE k < i
    BY <1>2, <1>3, <1>4, <2>1
  <2>2. CASE ~(k < i)
    <3>1. p[k] = b[k - (i - 1)] /\ k - (i - 1) \in 1..(Len(q) - i)
      BY <1>2, <1>3, <1>4, <1>5, <2>2
    <3>2. k - (i - 1) + i = k + 1
      OBVIOUS
    <3> QED
      BY <1>3, <2>2, <3>1, <3>2
  <2> QED
    BY <2>1, <2>2
<1> QED
  BY <1>1, <1>4, <1>5, <1>6 DEF Without

LEMMA DrainsOne ==
    ASSUME NEW q \in Seq(WorkItem), NEW i \in 1..Len(q)
    PROVE  Drains(q, Without(q, i))
<1>1. PICK p : p = Without(q, i)
  OBVIOUS
<1>2. /\ p \in Seq(WorkItem) /\ Len(p) = Len(q) - 1
      /\ \A k \in 1..Len(p) : p[k] = q[IF k < i THEN k ELSE k + 1]
  BY <1>1, WithoutAt
<1>3. \A k \in DOMAIN p : k \in DOMAIN q /\ k + 1 \in DOMAIN q
  BY <1>2
<1>4. \A k \in DOMAIN p : \E l \in DOMAIN q : p[k] = q[l]
  BY <1>2, <1>3
<1>5. ASSUME NEW s \in Here, NEW n \in Names, NEW c \in Calls, InOrder(q, s, n, c)
      PROVE  InOrder(p, s, n, c)
  <2>1. SUFFICES ASSUME NEW k \in DOMAIN p, p[k].kind = "expire", p[k].s = s, p[k].name = n,
                        NEW j \in 1..(k - 1), p[j].kind = "start", p[j].s = s, p[j].call = c
                 PROVE  FALSE
    BY DEF InOrder
  <2>2. PICK l, h : l = (IF k < i THEN k ELSE k + 1) /\ h = (IF j < i THEN j ELSE j + 1)
    OBVIOUS
  <2>3. k \in 1..Len(p) /\ j \in 1..Len(p) /\ k \in Nat /\ j \in Nat /\ i \in Nat
    BY <1>2, <2>1
  <2>4. l \in DOMAIN q /\ h \in 1..(l - 1)
    BY <1>2, <2>1, <2>2, <2>3
  <2>5. p[k] = q[l] /\ p[j] = q[h]
    BY <1>2, <2>2, <2>3
  <2> QED
    BY <1>5, <2>1, <2>4, <2>5 DEF InOrder
<1> QED
  BY <1>1, <1>4, <1>5 DEF Drains, StartWaits, ExpireWaits, EndWaits

\* An item that is put at the end.
LEMMA AppendedWaits ==
    ASSUME NEW q \in Seq(WorkItem), NEW w \in WorkItem, NEW s, NEW c, NEW n
    PROVE  LET p == Append(q, w) IN
           /\ StartWaits(p, s, c) => StartWaits(q, s, c) \/ (w.kind = "start" /\ w.s = s /\ w.call = c)
           /\ ExpireWaits(p, s, n) => ExpireWaits(q, s, n) \/ (w.kind = "expire" /\ w.s = s /\ w.name = n)
           /\ EndWaits(p, s) => EndWaits(q, s) \/ (w.kind \in {"closed", "abort"} /\ w.s = s)
           /\ InOrder(q, s, n, c) /\ ~(w.kind = "expire" /\ w.s = s /\ w.name = n) => InOrder(p, s, n, c)
           /\ ~StartWaits(q, s, c) => InOrder(p, s, n, c)
<1>1. PICK p : p = Append(q, w)
  OBVIOUS
<1>2. /\ DOMAIN p = 1..(Len(q) + 1) /\ DOMAIN q = 1..Len(q) /\ Len(q) \in Nat
      /\ \A i \in 1..Len(q) : p[i] = q[i]
      /\ p[Len(q) + 1] = w
  BY <1>1
<1>3. StartWaits(p, s, c) => StartWaits(q, s, c) \/ (w.kind = "start" /\ w.s = s /\ w.call = c)
  BY <1>2 DEF StartWaits
<1>4. ExpireWaits(p, s, n) => ExpireWaits(q, s, n) \/ (w.kind = "expire" /\ w.s = s /\ w.name = n)
  BY <1>2 DEF ExpireWaits
<1>5. EndWaits(p, s) => EndWaits(q, s) \/ (w.kind \in {"closed", "abort"} /\ w.s = s)
  BY <1>2 DEF EndWaits
<1>6. ASSUME InOrder(q, s, n, c), ~(w.kind = "expire" /\ w.s = s /\ w.name = n)
      PROVE  InOrder(p, s, n, c)
  <2>1. SUFFICES ASSUME NEW k \in DOMAIN p, p[k].kind = "expire", p[k].s = s, p[k].name = n,
                        NEW j \in 1..(k - 1), p[j].kind = "start", p[j].s = s, p[j].call = c
                 PROVE  FALSE
    BY DEF InOrder
  <2>2. k # Len(q) + 1
    BY <1>2, <1>6, <2>1
  <2>3. k \in 1..Len(q) /\ j \in 1..Len(q)
    BY <1>2, <2>1, <2>2
  <2> QED
    BY <1>2, <1>6, <2>1, <2>3 DEF InOrder
<1>7. ASSUME ~StartWaits(q, s, c)
      PROVE  InOrder(p, s, n, c)
  <2>1. SUFFICES ASSUME NEW k \in DOMAIN p,
                        NEW j \in 1..(k - 1), p[j].kind = "start", p[j].s = s, p[j].call = c
                 PROVE  FALSE
    BY DEF InOrder
  <2>2. j \in 1..Len(q)
    BY <1>2, <2>1
  <2> QED
    BY <1>2, <1>7, <2>1, <2>2 DEF StartWaits
<1> QED
  BY <1>1, <1>3, <1>4, <1>5, <1>6, <1>7

LEMMA DrainsWithMore ==
    ASSUME NEW q \in Seq(WorkItem), NEW w \in WorkItem, w.kind \in {"stop", "cleanup"}
    PROVE  Drains(q, Append(q, w))
<1>1. w.kind \notin {"start", "expire", "closed", "abort"}
  OBVIOUS
<1> QED
  BY <1>1, AppendedWaits DEF Drains

-------------------------------------------------------------------------------
(* One step of each action: the sessions it cares for. *)

LEMMA StateOf ==
    ASSUME HInv, NEW s \in Here
    PROVE  Sound(rec[s], files) /\ rec[s] \in SessionState /\ Paired(rec[s])
  BY DEF HInv, IInv, ManagerOK, Sound

LEMMA AllStay ==
    ASSUME HInv, UNCHANGED rec
    PROVE  \A s \in Here : Cared(s)
  BY StateOf, StayingEvolves DEF Cared

LEMMA OneCared ==
    ASSUME HInv, NEW s \in Here, NEW r, rec' = [rec EXCEPT ![s] = r], Evolves(rec[s], r),
           HoldsItsName(s) => Spares(rec[s], r) \/ (CleanupRuns(s) /\ ~Intact(r))
    PROVE  \A x \in Here : Cared(x)
<1>1. rec'[s] = r /\ \A x \in Here : x # s => rec'[x] = rec[x]
  BY DEF HInv, IInv, ManagerOK
<1> QED
  BY <1>1, StateOf, StayingEvolves DEF Cared

\* The tools, the hub and the chain in a step that does little to them.
LEMMA CallsCounted ==
    ASSUME HInv
    PROVE  calls \in Nat /\ \A s \in Here : tool[s].call <= calls
  BY DEF HInv, IInv, CountsOK, StartsOK

LEMMA ToolsUnchanged ==
    ASSUME HInv, UNCHANGED <<tool, calls>>
    PROVE  ToolsCalm
  BY CallsCounted DEF ToolsCalm

LEMMA AnsweredTool ==
    ASSUME HInv, NEW s \in Here, NEW call, NEW a, Answer(s, call, a), UNCHANGED calls
    PROVE  ToolsCalm
<1>1. UNCHANGED tool \/ tool' = [tool EXCEPT ![s].answer = a]
  BY DEF Answer
<1>2. tool \in [Here -> ToolState]
  BY DEF HInv, IInv, ToolOK, ToolState
<1>3. \A x \in Here : tool'[x].call = tool[x].call /\ tool'[x].at = tool[x].at
  BY <1>1, <1>2 DEF ToolState
<1> QED
  BY <1>3, CallsCounted DEF ToolsCalm

LEMMA EndedTool ==
    ASSUME HInv, NEW s \in Here, Ends(s), UNCHANGED calls
    PROVE  ToolsCalm
<1>1. PICK t : t = NoTool
  OBVIOUS
<1>2. t.call = 0 /\ t.at = "idle"
  BY <1>1 DEF NoTool
<1>3. tool'[s] = t /\ \A x \in Here : x # s => tool'[x] = tool[x]
  BY <1>1 DEF Ends, HInv, IInv, ToolOK
<1> QED
  BY <1>2, <1>3, CallsCounted DEF ToolsCalm

LEMMA HubUnchanged ==
    ASSUME UNCHANGED <<live, reservation>>
    PROVE  HubCalm
  BY DEF HubCalm

LEMMA HubLetsGo ==
    ASSUME HInv,
           \/ \E s, n : Release(s, n)
           \/ \E n : Lapse(n)
           \/ \E s : EndSession(s)
           \/ \E s, r, outcome, yes : Persist(s, r, outcome, yes)
    PROVE  HubCalm
<1>1. reservation = [n \in Names |-> reservation[n]]
  BY DEF HInv, IInv, HubOK
<1>2. ASSUME NEW n, Terminate(n)
      PROVE  \A x \in Names : reservation'[x] \in {None, reservation[x]}
  BY <1>1, <1>2 DEF Terminate
<1>3. ASSUME NEW s, NEW n, Release(s, n) PROVE HubCalm
  BY <1>2, <1>3 DEF Release, HubCalm
<1>4. ASSUME NEW n, Lapse(n) PROVE HubCalm
  BY <1>2, <1>4 DEF Lapse, HubCalm
<1>5. ASSUME NEW s, EndSession(s) PROVE HubCalm
  BY <1>5 DEF EndSession, HubCalm
<1>6. ASSUME NEW s, NEW r, NEW outcome, NEW yes, Persist(s, r, outcome, yes) PROVE HubCalm
  BY <1>2, <1>6 DEF Persist, HubCalm
<1> QED
  BY <1>3, <1>4, <1>5, <1>6

LEMMA WorkBegins ==
    ASSUME HInv, NEW i \in Items, NEW kind, Begins(i, kind)
    PROVE  /\ Drains(work, work') /\ chain = None
           /\ work[i] \in WorkItem /\ work[i].s \in Here
<1>1. PICK q : q = work
  OBVIOUS
<1>2. q \in Seq(WorkItem) /\ i \in 1..Len(q)
  BY <1>1 DEF HInv, IInv, RequestsOK, Items
<1>3. Drains(q, Without(q, i))
  BY <1>2, DrainsOne
<1> QED
  BY <1>1, <1>3, Taken DEF HInv, Items, Begins, ChainIdle, WorkItem

LEMMA NobodyDenied ==
    ASSUME chain' = None \/ chain'.rpc # "no" \/ chain'.at # "authority" \/ UNCHANGED chain
    PROVE  \A s \in Here : Denied(s)' => Denied(s)
  BY DEF Denied

\* A step of the extension alone that leaves the tools calm.
LEMMA ExtensionStep ==
    ASSUME HInv, IInv', \A s \in Here : Cared(s), UNCHANGED hubVars, Drains(work, work'), ToolsCalm,
           UNCHANGED pass,
           chain' = None \/ chain'.rpc # "no" \/ chain'.at # "authority" \/ UNCHANGED chain
    PROVE  HInv' /\ \A s \in Here : Survives(s)
<1>1. HubCalm
  BY HubUnchanged DEF hubVars
<1>2. \A s \in Here : Denied(s)' => Denied(s)
  BY NobodyDenied
<1> QED
  BY <1>1, <1>2, CalmStep

LEMMA RestoredAll ==
    ASSUME HInv, NEW F \in SUBSET Failure, NEW s \in Here
    PROVE  LET q == RestoreAll(F) IN
           /\ Evolves(rec[s], q[s]) /\ Spares(rec[s], q[s]) /\ Sound(q[s], files) /\ Paired(q[s])
           /\ Intact(rec[s]) /\ Untouched(rec[s]) => q[s].mem # None /\ ~Cleaning(rec[s])
<1>1. PICK r : r = rec[s]
  OBVIOUS
<1>2. Sound(r, files) /\ Paired(r)
  BY <1>1, StateOf
<1>3. PICK p : p = Restored(r, F)
  OBVIOUS
<1>4. /\ Evolves(r, p) /\ Spares(r, p) /\ Sound(p, files)
      /\ Intact(r) /\ Untouched(r) => p.mem # None /\ ~Cleaning(r)
  BY <1>2, <1>3, RestoredEvolves, RestoringIsSound
<1>5. RestoreAll(F)[s] = p
  BY <1>1, <1>3 DEF RestoreAll
<1> QED
  BY <1>1, <1>4, <1>5 DEF Evolves

LEMMA PrepareCares ==
    ASSUME HInv, IInv', NEW s \in Here, RunPrepare(s)
    PROVE  HInv' /\ \A x \in Here : Survives(x)
<1>1. PICK F : /\ FailsWith(F, {"persist", "remove", "alarm", "clear"})
               /\ LET r == RestoreAll(F)[s] IN
                  IF ~r.closed /\ ~Busy(r) /\ Quarantined(r)
                  THEN rec' = RestoreAll(F) /\ Hold("act", s, 0, "authority")
                  ELSE /\ rec' = [RestoreAll(F) EXCEPT ![s] = IF r.closed \/ Busy(r) THEN r ELSE Prepared(r)]
                       /\ KeepsChain
  BY DEF RunPrepare
<1>2. F \in SUBSET Failure
  BY <1>1 DEF FailsWith, Failure
<1>3. PICK q : q = RestoreAll(F)
  OBVIOUS
<1>4. DOMAIN q = Here /\ \A x \in Here : /\ Evolves(rec[x], q[x]) /\ Spares(rec[x], q[x])
                                         /\ Sound(q[x], files) /\ Paired(q[x])
  BY <1>2, <1>3, RestoredAll DEF RestoreAll
<1>5. PICK p : p = Prepared(q[s])
  OBVIOUS
<1>6. Evolves(rec[s], p) /\ Spares(rec[s], p)
  <2>1. PICK r, o : r = q[s] /\ o = rec[s]
    OBVIOUS
  <2>2. Evolves(o, r) /\ Spares(o, r) /\ r \in SessionState /\ Paired(r)
    BY <1>4, <2>1 DEF Sound
  <2>3. p = Prepared(r) /\ Same(r, p)
    BY <1>5, <2>1, <2>2 DEF Same, Prepared, SessionState
  <2>4. Evolves(o, p)
    BY <2>2, <2>3, SameEvolves, EvolvesTwice
  <2>5. Spares(o, p)
    BY <2>2, <2>3 DEF Same, Spares, Intact, Untouched
  <2> QED
    BY <2>1, <2>4, <2>5
<1>7. /\ rec' = q \/ rec' = [q EXCEPT ![s] = p] \/ rec' = [q EXCEPT ![s] = q[s]]
      /\ chain'.rpc = "sent" \/ UNCHANGED chain
  BY <1>1, <1>3, <1>5 DEF Hold, KeepsChain
<1>8. \A x \in Here : Cared(x)
  BY <1>4, <1>6, <1>7 DEF Cared
<1> QED
  BY <1>7, <1>8, ExtensionStep, ToolsUnchanged, DrainsNothing DEF RunPrepare, toolVars

LEMMA CommitCares ==
    ASSUME HInv, IInv', NEW s \in Here, RunCommit(s)
    PROVE  HInv' /\ \A x \in Here : Survives(x)
<1>1. PICK F, done : /\ FailsWith(F, {"persist"})
                     /\ LET r == [rec[s] EXCEPT !.pending = FALSE] IN
                        rec' = [rec EXCEPT ![s] =
                                  IF done /\ ~r.closed /\ r.mem # None /\ r.mem.status = "active"
                                  THEN Kept(r, [r.mem EXCEPT !.steps = @ + 1], F) ELSE r]
  BY DEF RunCommit
<1>2. PICK o, r, m : o = rec[s] /\ r = [o EXCEPT !.pending = FALSE] /\ m = [r.mem EXCEPT !.steps = @ + 1]
  OBVIOUS
<1>3. Sound(o, files) /\ o \in SessionState /\ Paired(o)
  BY <1>2, StateOf
<1>4. r \in SessionState /\ Same(o, r) /\ r.mem = o.mem
  BY <1>2, <1>3 DEF SessionState, Same
<1>5. Evolves(o, r) /\ Spares(o, r) /\ Paired(r)
  BY <1>3, <1>4, SameEvolves DEF Evolves
<1>6. ASSUME r.mem # None, r.mem.status = "active"
      PROVE  Evolves(o, Kept(r, m, F)) /\ Spares(o, Kept(r, m, F))
  <2>1. m \in ActiveRecording /\ m.name = r.mem.name /\ m.start = r.mem.start /\ m.status = "active"
    BY <1>2, <1>3, <1>4, <1>6, ReservationAssumption DEF RunCommit, Sound, Fits, ActiveRecording
  <2>2. PICK p : p = Kept(r, m, F)
    OBVIOUS
  <2>3. Evolves(r, p) /\ Spares(r, p)
    BY <1>4, <1>5, <1>6, <2>1, <2>2, KeepingEvolves
  <2>4. Evolves(o, p)
    BY <1>5, <2>3, EvolvesTwice
  <2>5. Spares(o, p)
    BY <1>4, <2>3 DEF Same, Spares, Intact, Untouched
  <2> QED
    BY <2>2, <2>4, <2>5
<1>7. PICK p : /\ p = r \/ (r.mem # None /\ r.mem.status = "active" /\ p = Kept(r, m, F))
               /\ rec' = [rec EXCEPT ![s] = p]
  BY <1>1, <1>2
<1>8. \A x \in Here : Cared(x)
  BY <1>2, <1>5, <1>6, <1>7, OneCared
<1> QED
  BY <1>8, ExtensionStep, ToolsUnchanged, DrainsNothing DEF RunCommit, toolVars

LEMMA CleanupAlarmCares ==
    ASSUME HInv, IInv', NEW s \in Here, CleanupAlarm(s)
    PROVE  HInv' /\ \A x \in Here : Survives(x)
<1>1. PICK w : w = [kind |-> "cleanup", s |-> s, call |-> 0, name |-> None]
  OBVIOUS
<1>2. w \in WorkItem /\ w.kind = "cleanup"
  BY <1>1, ReservationAssumption DEF WorkItem, WorkKinds, Optional
<1>3. work' = Append(work, w)
  BY <1>1 DEF CleanupAlarm
<1>4. Drains(work, work')
  BY <1>2, <1>3, DrainsWithMore DEF HInv, IInv, RequestsOK
<1> QED
  BY <1>4, AllStay, ExtensionStep, ToolsUnchanged DEF CleanupAlarm, toolVars

LEMMA StopBodyCares ==
    ASSUME HInv, NEW s \in Here, NEW call, NEW r, Sound(r, files), NEW F,
           Evolves(rec[s], r), Spares(rec[s], r), StopBody(s, call, r, F), UNCHANGED calls
    PROVE  /\ \A x \in Here : Cared(x)
           /\ ToolsCalm
           /\ chain' = None \/ chain'.at # "authority"
<1> DEFINE m == [r.mem EXCEPT !.status = "stopping"]
           idle == r.mem = None \/ InCleanup(r) \/ r.pending
           unpersisted == ~idle /\ r.mem.status = "active" /\ "persist" \in F
<1>1. Paired(r) /\ r \in SessionState
  BY DEF Evolves, Sound
<1>2. PICK p : p = [r EXCEPT !.mem = m, !.stored = m]
  OBVIOUS
<1>3. r.mem # None /\ r.mem.status = "active" => Evolves(rec[s], p) /\ Spares(rec[s], p)
  <2>1. SUFFICES ASSUME r.mem # None, r.mem.status = "active"
        PROVE  Evolves(rec[s], p) /\ Spares(rec[s], p)
    OBVIOUS
  <2>2. Evolves(r, p)
    BY <1>1, <1>2, <2>1, StoppingEvolves
  <2>3. Evolves(rec[s], p)
    BY <2>2, EvolvesTwice
  <2>4. p.stored = m /\ m.status = "stopping" /\ m # None
    BY <1>1, <1>2, <2>1, DeliveryAssumption DEF SessionState, Optional, ActiveRecording
  <2> HIDE DEF m
  <2>5. Spares(rec[s], p)
    BY <2>4 DEF Spares, Intact
  <2> QED
    BY <2>3, <2>5
<1>4. PICK q : /\ rec' = [rec EXCEPT ![s] = q]
               /\ q = r \/ (r.mem # None /\ r.mem.status = "active" /\ q = p)
  <2>1. CASE idle \/ unpersisted
    BY <2>1 DEF StopBody
  <2>2. CASE ~idle /\ ~unpersisted
    BY <1>2, <2>2 DEF StopBody
  <2> QED
    BY <2>1, <2>2
<1>5. \A x \in Here : Cared(x)
  BY <1>3, <1>4, OneCared
<1>6. /\ chain' = None \/ chain'.at # "authority"
      /\ UNCHANGED tool \/ \E a : Answer(s, call, a)
  <2>1. CASE idle \/ unpersisted
    BY <2>1 DEF StopBody, FreeChain
  <2>2. CASE ~idle /\ ~unpersisted
    <3>1. CASE m.stop = "failed"
      BY <2>2, <3>1 DEF StopBody, FreeChain
    <3>2. CASE m.stop # "failed"
      <4>1. \E at \in {"persist", "local"} : Hold("stop", s, call, at) /\ NoAnswer
        BY <2>2, <3>2 DEF StopBody
      <4> QED
        BY <4>1 DEF Hold, NoAnswer
    <3> QED
      BY <3>1, <3>2
  <2> QED
    BY <2>1, <2>2
<1> QED
  BY <1>5, <1>6, AnsweredTool, ToolsUnchanged

LEMMA StopCares ==
    ASSUME HInv, IInv', NEW i \in Items, RunStop(i)
    PROVE  HInv' /\ \A x \in Here : Survives(x)
<1>1. PICK F :
        /\ FailsWith(F, Failure \ {"local"})
        /\ LET s == work[i].s
               r == RestoreOne(rec[s], F)
           IN CASE "read" \in F -> UNCHANGED <<rec, chain>> /\ Answer(s, work[i].call, Failed)
                [] "read" \notin F /\ Busy(r) ->
                     rec' = [rec EXCEPT ![s] = r] /\ KeepsChain /\ Answer(s, work[i].call, Failed)
                [] "read" \notin F /\ ~Busy(r) /\ Quarantined(r) ->
                     /\ rec' = [rec EXCEPT ![s] = r]
                     /\ Hold("stop", s, work[i].call, "authority") /\ NoAnswer
                [] OTHER -> StopBody(s, work[i].call, r, F)
  BY DEF RunStop
<1>2. F \in SUBSET Failure
  BY <1>1 DEF FailsWith
<1>3. /\ Drains(work, work') /\ UNCHANGED hubVars /\ UNCHANGED pass /\ UNCHANGED calls
      /\ work[i].s \in Here
  BY WorkBegins DEF RunStop
<1>4. PICK s, o, r, call : s = work[i].s /\ o = rec[s] /\ r = RestoreOne(o, F) /\ call = work[i].call
  OBVIOUS
<1>5. s \in Here /\ Sound(o, files) /\ Paired(o)
  BY <1>3, <1>4, StateOf
<1>6. Evolves(o, r) /\ Spares(o, r) /\ Sound(r, files)
  BY <1>2, <1>4, <1>5, RestoredEvolves, RestoringIsSound
<1>7. CASE "read" \in F
  <2>1. UNCHANGED <<rec, chain>> /\ Answer(s, call, Failed)
    BY <1>1, <1>4, <1>7
  <2> QED
    BY <1>3, <1>5, <2>1, AllStay, AnsweredTool, ExtensionStep
<1>8. CASE "read" \notin F /\ Busy(r)
  <2>1. rec' = [rec EXCEPT ![s] = r] /\ UNCHANGED chain /\ Answer(s, call, Failed)
    BY <1>1, <1>4, <1>8 DEF KeepsChain
  <2>2. \A x \in Here : Cared(x)
    BY <1>4, <1>5, <1>6, <2>1, OneCared
  <2> QED
    BY <1>3, <1>5, <2>1, <2>2, AnsweredTool, ExtensionStep
<1>9. CASE "read" \notin F /\ ~Busy(r) /\ Quarantined(r)
  <2>1. rec' = [rec EXCEPT ![s] = r] /\ chain'.rpc = "sent" /\ UNCHANGED tool
    BY <1>1, <1>4, <1>9 DEF Hold, NoAnswer
  <2>2. \A x \in Here : Cared(x)
    BY <1>4, <1>5, <1>6, <2>1, OneCared
  <2> QED
    BY <1>3, <2>1, <2>2, ToolsUnchanged, ExtensionStep
<1>10. CASE "read" \notin F /\ ~Busy(r) /\ ~Quarantined(r)
  <2>1. StopBody(s, call, r, F)
    BY <1>1, <1>4, <1>10
  <2>2. /\ \A x \in Here : Cared(x)
        /\ ToolsCalm
        /\ chain' = None \/ chain'.at # "authority"
    BY <1>3, <1>4, <1>5, <1>6, <2>1, StopBodyCares
  <2> QED
    BY <1>3, <2>2, ExtensionStep
<1> QED
  BY <1>7, <1>8, <1>9, <1>10

\* An abort comes only when the session has ended.
LEMMA AbortCares ==
    ASSUME HInv, IInv', NEW i \in Items, RunAbort(i)
    PROVE  HInv' /\ \A x \in Here : Survives(x)
<1>1. PICK F : /\ FailsWith(F, {"persist", "remove", "read", "alarm", "clear"})
               /\ rec' = [rec EXCEPT ![work[i].s] =
                            IF "read" \in F THEN @ ELSE FinishStop(Restore(@, F), F)]
  BY DEF RunAbort
<1>2. F \in SUBSET Failure
  BY <1>1 DEF FailsWith, Failure
<1>3. PICK s, o, q : s = work[i].s /\ o = rec[s] /\ q = Restore(o, F)
  OBVIOUS
<1>4. /\ s \in Here /\ Sound(o, files) /\ Paired(o)
      /\ Drains(work, work') /\ UNCHANGED hubVars /\ UNCHANGED <<pass, chain, tool, calls>>
  BY <1>3, WorkBegins, StateOf DEF RunAbort, toolVars
<1>5. Evolves(o, q) /\ Sound(q, files) /\ Paired(q)
  BY <1>2, <1>3, <1>4, RestoringEvolves, RestoringIsSound DEF Evolves
<1>6. Evolves(o, FinishStop(q, F)) /\ Evolves(o, o) /\ Spares(o, o)
  <2>1. Evolves(q, FinishStop(q, F))
    BY <1>2, <1>5, FinishingEvolves
  <2> QED
    BY <1>4, <1>5, <2>1, EvolvesTwice, StayingEvolves
<1>7. ~HoldsItsName(s)
  <2>1. EndWaits(work, s)
    BY <1>3 DEF EndWaits, Items, RunAbort, Begins
  <2> QED
    BY <1>4, <2>1 DEF HInv, EndsOK, HoldsItsName
<1>8. PICK r : r \in {o, FinishStop(q, F)} /\ rec' = [rec EXCEPT ![s] = r]
  BY <1>1, <1>3
<1>9. \A x \in Here : Cared(x)
  BY <1>3, <1>4, <1>6, <1>7, <1>8, OneCared
<1> QED
  BY <1>4, <1>9, ToolsUnchanged, ExtensionStep

\* An expiry hits only a recording whose reservation it was for.
LEMMA ExpireCares ==
    ASSUME HInv, IInv', NEW i \in Items, RunExpire(i)
    PROVE  HInv' /\ \A x \in Here : Survives(x)
<1>1. PICK F : /\ FailsWith(F, {"persist", "remove", "read", "alarm", "clear"})
               /\ LET q == RestoreOne(rec[work[i].s], F)
                      hit == q.mem # None /\ q.mem.status = "active" /\ q.mem.name = work[i].name
                  IN rec' = [rec EXCEPT ![work[i].s] =
                               IF "read" \in F THEN @ ELSE IF hit THEN FinishStop(q, F) ELSE q]
  BY DEF RunExpire
<1>2. F \in SUBSET Failure
  BY <1>1 DEF FailsWith, Failure
<1>3. PICK s, n, o, q : s = work[i].s /\ n = work[i].name /\ o = rec[s] /\ q = RestoreOne(o, F)
  OBVIOUS
<1>4. /\ s \in Here /\ Sound(o, files) /\ Paired(o)
      /\ Drains(work, work') /\ UNCHANGED hubVars /\ UNCHANGED <<pass, chain, tool, calls>>
  BY <1>3, WorkBegins, StateOf DEF RunExpire, toolVars
<1>5. Evolves(o, q) /\ Spares(o, q) /\ Sound(q, files) /\ Paired(q)
  BY <1>2, <1>3, <1>4, RestoredEvolves, RestoringIsSound DEF Evolves
<1>6. Evolves(o, FinishStop(q, F)) /\ Evolves(o, o) /\ Spares(o, o)
  <2>1. Evolves(q, FinishStop(q, F))
    BY <1>2, <1>5, FinishingEvolves
  <2> QED
    BY <1>4, <1>5, <2>1, EvolvesTwice, StayingEvolves
<1>7. ASSUME HoldsItsName(s), q.mem # None, q.mem.status = "active", q.mem.name = n
      PROVE  FALSE
  <2>1. o.stored # None /\ reservation[o.stored.name] = [by |-> s, start |-> o.stored.start]
    BY <1>3, <1>7 DEF HoldsItsName
  <2>2. q.stored # None /\ Intact(o) /\ Untouched(o)
    BY <1>3, <1>4, <1>5, <1>7 DEF HoldsItsName, CleanupBegan, Intact, HInv, HeldOK, Paired
  <2>3. q.stored.name = n /\ q.stored = o.stored
    <3>1. PICK p : p = Restore(o, F)
      OBVIOUS
    <3>2. p.stored = o.stored
      BY <1>2, <1>4, <2>2, <3>1, RestoringEvolves
    <3>3. q = p
      BY <1>3, <2>2, <3>1 DEF RestoreOne, Intact
    <3> QED
      BY <1>5, <1>7, <3>2, <3>3 DEF Paired
  <2>4. n \in Names /\ o.stored.start \in Calls
    BY <1>4, <2>1, <2>3 DEF Sound, Fits, ActiveRecording
  <2>5. [by |-> s, start |-> o.stored.start] \in Reservation
    BY <1>4, <2>4, DeliveryAssumption DEF Reservation
  <2>6. Holds(s, n) /\ reservation[n].start = o.stored.start
    BY <2>1, <2>3, <2>5, ReservationAssumption DEF Holds
  <2>7. ExpireWaits(work, s, n)
    BY <1>3 DEF ExpireWaits, RunExpire, Begins, Items
  <2>8. StoredStart(s, reservation[n].start)
    BY <1>3, <2>1, <2>6 DEF StoredStart
  <2> QED
    BY <1>4, <2>4, <2>6, <2>7, <2>8 DEF HInv, ExpiresOK
<1>8. PICK r : /\ rec' = [rec EXCEPT ![s] = r]
               /\ \/ r = o \/ r = q
                  \/ r = FinishStop(q, F) /\ q.mem # None /\ q.mem.status = "active" /\ q.mem.name = n
  BY <1>1, <1>3
<1>9. Evolves(o, r) /\ (HoldsItsName(s) => Spares(o, r))
  BY <1>5, <1>6, <1>7, <1>8
<1>10. \A x \in Here : Cared(x)
  BY <1>3, <1>4, <1>8, <1>9, OneCared
<1> QED
  BY <1>4, <1>10, ToolsUnchanged, ExtensionStep

LEMMA CleanupCares ==
    ASSUME HInv, IInv', NEW i \in Items, RunCleanup(i)
    PROVE  HInv' /\ \A x \in Here : Survives(x)
<1>1. PICK F : rec' = [rec EXCEPT ![work[i].s] = RetryCleanup(@, F)]
  BY DEF RunCleanup
<1>2. PICK s, o, r : s = work[i].s /\ o = rec[s] /\ r = RetryCleanup(o, F)
  OBVIOUS
<1>3. /\ s \in Here /\ o \in SessionState /\ Paired(o)
      /\ Drains(work, work') /\ UNCHANGED hubVars /\ UNCHANGED <<pass, chain, tool, calls>>
  BY <1>2, WorkBegins, StateOf DEF RunCleanup, toolVars
<1>4. Evolves(o, r) /\ ~Intact(r) /\ rec' = [rec EXCEPT ![s] = r]
  BY <1>1, <1>2, <1>3, CleaningEvolves
<1>5. CleanupRuns(s)
  BY <1>2 DEF CleanupRuns, RunCleanup, Begins, Items
<1>6. \A x \in Here : Cared(x)
  BY <1>2, <1>3, <1>4, <1>5, OneCared
<1> QED
  BY <1>3, <1>6, ToolsUnchanged, ExtensionStep

LEMMA KeepaliveCares ==
    ASSUME HInv, IInv', RunKeepalive
    PROVE  HInv' /\ \A x \in Here : Survives(x)
<1>1. PICK F : FailsWith(F, {"persist", "remove", "alarm", "clear"}) /\ rec' = RestoreAll(F)
  BY DEF RunKeepalive
<1>2. F \in SUBSET Failure
  BY <1>1 DEF FailsWith, Failure
<1>3. \A x \in Here : Cared(x)
  BY <1>1, <1>2, RestoredAll DEF Cared
<1> QED
  BY <1>3, ToolsUnchanged, DrainsNothing, ExtensionStep DEF RunKeepalive, toolVars

\* The renewal pass asks for the recordings it takes up.
LEMMA GatherCares ==
    ASSUME HInv, IInv', GatherRenewals
    PROVE  HInv' /\ \A x \in Here : Survives(x)
<1>1. PICK F : /\ FailsWith(F, {"persist", "remove", "alarm", "clear"})
               /\ rec' = [s \in Here |-> Gathered(rec[s], F)]
  BY DEF GatherRenewals
<1>2. F \in SUBSET Failure
  BY <1>1 DEF FailsWith, Failure
<1>3. /\ UNCHANGED <<live, reservation, work, chain, tool, calls>>
      /\ pass' = [s \in Here |->
                    IF rec'[s].renewing THEN [name |-> rec'[s].mem.name, answer |-> "sent"] ELSE None]
      /\ chain = None
  BY DEF GatherRenewals, toolVars, hubVars, ChainIdle
<1>4. HubCalm /\ ToolsCalm /\ Drains(work, work')
  BY <1>3, HubUnchanged, ToolsUnchanged, DrainsNothing
<1>5. ASSUME NEW s \in Here
      PROVE  /\ Paired(rec[s])' /\ HeldOK(s)' /\ StartsOK(s)' /\ ExpiresOK(s)' /\ EndsOK(s)'
             /\ Survives(s)
  <2>1. PICK r, g, h : r = rec[s] /\ g = Gathered(r, F) /\ h = [g EXCEPT !.renewing = FALSE]
    OBVIOUS
  <2>2. Sound(r, files) /\ Paired(r) /\ rec'[s] = g
    BY <1>1, <2>1, StateOf
  <2>3. Evolves(r, h) /\ Spares(r, g) /\ Sound(g, files)
    BY <1>2, <2>1, <2>2, GatheringEvolves, GatheredIsSound
  <2>4. /\ h.mem = g.mem /\ h.stored = g.stored /\ h.alarm = g.alarm /\ h.closed = g.closed
    BY <2>1, <2>3 DEF Sound, SessionState
  <2>5. /\ Paired(g)
        /\ g.stored # None => r.stored # None /\ g.stored.start = r.stored.start
        /\ Intact(g) => Intact(r) /\ g.stored.name = r.stored.name
    BY <2>3, <2>4 DEF Evolves, Paired, Intact
  <2>6. StartsOK(s)' /\ ExpiresOK(s)' /\ EndsOK(s)'
    <3>1. \A c \in Calls : StoredStart(s, c)' => StoredStart(s, c)
      BY <2>1, <2>2, <2>5 DEF StoredStart
    <3> QED
      BY <1>4, <3>1, StartsKept, ExpiresKept, EndsKept
  <2>7. Survives(s)
    BY <2>1, <2>2, <2>3
       DEF HInv, HeldOK, Survives, HoldsItsName, CleanupBegan, Intact, Spares, KeepsRecording
  <2>8. HeldOK(s)'
    <3>1. SUFFICES ASSUME HoldsItsName(s)'
          PROVE  Untouched(g) /\ CandidateOK(s)' /\ ~Denied(s)'
      BY <2>2 DEF HeldOK
    <3>2. Intact(g) /\ Intact(r) /\ HoldsItsName(s)
      BY <1>3, <2>1, <2>2, <2>5, <3>1 DEF HoldsItsName, CleanupBegan, Intact
    <3>3. Untouched(r)
      BY <2>1, <3>2 DEF HInv, HeldOK
    <3>4. Untouched(g)
      BY <2>3, <3>2, <3>3 DEF Spares
    <3>5. ASSUME g.renewing
          PROVE  pass'[s] # None /\ pass'[s].name = g.stored.name /\ pass'[s].answer # "no"
      <4>1. g.mem # None /\ g.mem.name = g.stored.name /\ g.mem.name \in Names
        BY <2>3, <2>5, <3>4, <3>5 DEF Sound, Untouched, Paired, Fits, ActiveRecording
      <4>2. pass'[s] = [name |-> g.mem.name, answer |-> "sent"]
        BY <1>3, <2>2, <3>5
      <4>3. pass'[s] \in Renewal
        BY <4>1, <4>2 DEF Renewal
      <4> QED
        BY <4>1, <4>2, <4>3, DeliveryAssumption
    <3>6. ~Denied(s)'
      BY <1>3 DEF Denied
    <3> QED
      BY <2>2, <3>4, <3>5, <3>6 DEF CandidateOK
  <2> QED
    BY <2>2, <2>5, <2>6, <2>7, <2>8
<1> QED
  BY <1>5 DEF HInv

\* An answer of the hub to the renewal pass refuses no recording that holds its name.
LEMMA RenewalAnswerCares ==
    ASSUME HInv, IInv', NEW s \in Here, HubAnswersRenewal(s) \/ LoseRenewal(s)
    PROVE  HInv' /\ \A x \in Here : Survives(x)
<1>1. PICK a \in {"yes", "no", "lost"} :
               /\ pass' = [pass EXCEPT ![s].answer = a]
               /\ a = "no" => ~Renews(s, pass[s].name)
  BY DEF HubAnswersRenewal, LoseRenewal
<1>2. UNCHANGED <<rec, live, reservation, work, chain, tool, calls>>
  BY DEF HubAnswersRenewal, LoseRenewal, toolVars, hubVars
<1>3. pass \in [Here -> Optional(Renewal)] /\ pass[s] \in Renewal
  BY DEF HubAnswersRenewal, LoseRenewal, Asked, HInv, IInv, RequestsOK, Optional
<1>4. /\ pass'[s].name = pass[s].name /\ pass'[s].answer = a /\ pass'[s] # None
      /\ \A x \in Here : x # s => pass'[x] = pass[x]
  <2>1. PICK p, o : o = pass[s] /\ p = [o EXCEPT !.answer = a]
    OBVIOUS
  <2>2. pass' = [pass EXCEPT ![s] = p]
    BY <1>1, <2>1
  <2>3. p.name = o.name /\ p.answer = a
    BY <1>3, <2>1 DEF Renewal
  <2>4. p # None
    BY <1>3, <2>1, DeliveryAssumption DEF Renewal
  <2> QED
    BY <1>3, <2>1, <2>2, <2>3, <2>4
<1>5. HubCalm /\ ToolsCalm /\ Drains(work, work') /\ \A x \in Here : Cared(x)
  BY <1>2, HubUnchanged, ToolsUnchanged, DrainsNothing, AllStay
<1>6. ASSUME NEW x \in Here
      PROVE  /\ Paired(rec[x])' /\ HeldOK(x)' /\ StartsOK(x)' /\ ExpiresOK(x)' /\ EndsOK(x)'
             /\ Survives(x)
  <2>1. Paired(rec[x])' /\ StartsOK(x)' /\ ExpiresOK(x)' /\ EndsOK(x)' /\ Survives(x)
    <3>1. \A c \in Calls : StoredStart(x, c)' => StoredStart(x, c)
      BY <1>2 DEF StoredStart
    <3> QED
      BY <1>2, <1>5, <3>1, StateOf, StartsKept, ExpiresKept, EndsKept, CaredForSurvives
  <2>2. HoldsItsName(x)' => HoldsItsName(x)
    BY <1>2 DEF HoldsItsName, CleanupBegan
  <2>3. ASSUME HoldsItsName(x)
        PROVE  CandidateOK(x)'
    <3>1. CandidateOK(x)
      BY <2>3 DEF HInv, HeldOK
    <3>2. CASE x # s
      BY <1>2, <1>4, <3>1, <3>2 DEF CandidateOK
    <3>3. CASE x = s
      <4>1. rec[s].renewing => Renews(s, pass[s].name)
        <5>1. PICK n, o : n = rec[s].stored.name /\ o = [by |-> s, start |-> rec[s].stored.start]
          OBVIOUS
        <5>2. n \in Names /\ o \in Reservation /\ o.by = s
          BY <2>3, <3>3, <5>1, StateOf, DeliveryAssumption
             DEF HoldsItsName, Sound, Fits, ActiveRecording, Reservation
        <5>3. s \in live /\ reservation[n] = o
          BY <2>3, <3>3, <5>1 DEF HoldsItsName
        <5> QED
          BY <3>1, <3>3, <5>1, <5>2, <5>3, ReservationAssumption DEF CandidateOK, Renews, Holds
      <4> QED
        BY <1>1, <1>2, <1>4, <3>1, <3>3, <4>1 DEF CandidateOK
    <3> QED
      BY <3>2, <3>3
  <2>4. HeldOK(x)'
    BY <1>2, <2>2, <2>3 DEF HInv, HeldOK, Denied
  <2> QED
    BY <2>1, <2>4
<1> QED
  BY <1>6 DEF HInv

LEMMA ApplyCares ==
    ASSUME HInv, IInv', ApplyRenewals
    PROVE  HInv' /\ \A x \in Here : Survives(x)
<1>1. PICK F : /\ FailsWith(F, {"persist", "remove", "alarm", "clear"})
               /\ rec' = [s \in Here |->
                            IF pass[s] = None THEN rec[s]
                            ELSE [AfterRenewal(rec[s], pass[s].answer, F) EXCEPT !.renewing = FALSE]]
  BY DEF ApplyRenewals
<1>2. F \in SUBSET Failure
  BY <1>1 DEF FailsWith, Failure
<1>3. UNCHANGED <<live, reservation, work, chain, tool, calls>>
  BY DEF ApplyRenewals, toolVars, hubVars
<1>4. HubCalm /\ ToolsCalm /\ Drains(work, work') /\ \A s \in Here : Denied(s)' => Denied(s)
  BY <1>3, HubUnchanged, ToolsUnchanged, DrainsNothing, NobodyDenied
<1>5. ASSUME NEW s \in Here
      PROVE  Cared(s) /\ (HoldsItsName(s)' => ~rec'[s].renewing)
  <2>1. PICK r, a : r = rec[s] /\ a = pass[s].answer
    OBVIOUS
  <2>2. Sound(r, files) /\ Paired(r)
    BY <2>1, StateOf
  <2>3. PICK p, q : p = AfterRenewal(r, a, F) /\ q = [p EXCEPT !.renewing = FALSE]
    OBVIOUS
  <2>4. Evolves(r, q) /\ (~r.renewing \/ a # "no" => Spares(r, q)) /\ Evolves(r, r) /\ Spares(r, r)
    BY <1>2, <2>2, <2>3, RenewingEvolves, StayingEvolves
  <2>5. rec'[s] = IF pass[s] = None THEN r ELSE q
    BY <1>1, <2>1, <2>3
  <2>6. HoldsItsName(s) => CandidateOK(s)
    BY DEF HInv, HeldOK
  <2>7. HoldsItsName(s) => (r.renewing => pass[s] # None /\ a # "no")
    BY <2>1, <2>6 DEF CandidateOK
  <2>8. Cared(s)
    BY <2>1, <2>4, <2>5, <2>7 DEF Cared
  <2>9. HoldsItsName(s)' => HoldsItsName(s)
    BY <1>4, <2>8, NothingHeldAnew DEF Cared
  <2>10. q.renewing = FALSE
    <3>1. Sound(q, files)
      BY <1>2, <2>2, <2>3, AfterRenewalIsSound
    <3> QED
      BY <2>3, <3>1 DEF Sound, SessionState
  <2> QED
    BY <2>5, <2>7, <2>8, <2>9, <2>10, <2>1
<1>6. ASSUME NEW s \in Here
      PROVE  /\ Paired(rec[s])' /\ HeldOK(s)' /\ StartsOK(s)' /\ ExpiresOK(s)' /\ EndsOK(s)'
             /\ Survives(s)
  <2>1. \A c \in Calls : StoredStart(s, c)' => StoredStart(s, c)
    BY <1>5, EvolvedStart DEF Cared
  <2>2. StartsOK(s)' /\ ExpiresOK(s)' /\ EndsOK(s)' /\ Survives(s)
    BY <1>4, <1>5, <2>1, StartsKept, ExpiresKept, EndsKept, CaredForSurvives
  <2>3. HoldsItsName(s)' => HoldsItsName(s)
    BY <1>4, <1>5, NothingHeldAnew DEF Cared
  <2>4. Paired(rec[s])' /\ HeldOK(s)'
    <3>1. CASE HoldsItsName(s)'
      BY <1>4, <1>5, <2>3, <3>1, HeldKept
    <3>2. CASE ~HoldsItsName(s)'
      BY <1>5, <3>2 DEF HeldOK, Cared, Evolves
    <3> QED
      BY <3>1, <3>2
  <2> QED
    BY <2>2, <2>4
<1> QED
  BY <1>6 DEF HInv

\* The hub confirms every recording that holds its name.
LEMMA AuthorityAnswerCares ==
    ASSUME HInv, IInv', HubAnswersAuthority
    PROVE  HInv' /\ \A x \in Here : Survives(x)
<1>1. UNCHANGED <<rec, live, reservation, work, pass, tool, calls>>
  BY DEF HubAnswersAuthority, toolVars, hubVars
<1>2. HubCalm /\ ToolsCalm /\ Drains(work, work') /\ \A x \in Here : Cared(x)
  BY <1>1, HubUnchanged, ToolsUnchanged, DrainsNothing, AllStay
<1>3. PICK t : t = chain.s
  OBVIOUS
<1>4. /\ t \in Here /\ rec[t].mem # None /\ rec[t].mem.status = "quarantined" /\ chain.at = "authority"
      /\ chain' = [chain EXCEPT !.rpc = IF Renews(t, rec[t].mem.name) THEN "yes" ELSE "no"]
  BY <1>3 DEF HInv, IInv, ChainOK, HubAnswersAuthority, Waiting, Answered, Optional
<1>5. chain'.s = t /\ chain'.rpc = (IF Renews(t, rec[t].mem.name) THEN "yes" ELSE "no")
  BY <1>3, <1>4 DEF HInv, IInv, ChainOK, HubAnswersAuthority, Waiting, Optional
<1>6. ASSUME NEW x \in Here, HoldsItsName(x)
      PROVE  ~Denied(x)'
  <2>1. CASE x # t
    BY <1>5, <2>1 DEF Denied
  <2>2. CASE x = t
    <3>1. PICK n, o : n = rec[t].stored.name /\ o = [by |-> t, start |-> rec[t].stored.start]
      OBVIOUS
    <3>2. n \in Names /\ o \in Reservation /\ o.by = t
      BY <1>6, <2>2, <3>1, StateOf, DeliveryAssumption
         DEF HoldsItsName, Sound, Fits, ActiveRecording, Reservation
    <3>3. t \in live /\ reservation[n] = o
      BY <1>6, <2>2, <3>1 DEF HoldsItsName
    <3>4. rec[t].mem.name = n
      BY <1>4, <3>1, StateOf DEF Paired
    <3>5. Renews(t, rec[t].mem.name)
      BY <3>2, <3>3, <3>4, ReservationAssumption DEF Renews, Holds
    <3> QED
      BY <1>5, <2>2, <3>5 DEF Denied
  <2> QED
    BY <2>1, <2>2
<1>7. ASSUME NEW x \in Here
      PROVE  /\ Paired(rec[x])' /\ HeldOK(x)' /\ StartsOK(x)' /\ ExpiresOK(x)' /\ EndsOK(x)'
             /\ Survives(x)
  <2>1. \A c \in Calls : StoredStart(x, c)' => StoredStart(x, c)
    BY <1>1 DEF StoredStart
  <2>2. Paired(rec[x])' /\ StartsOK(x)' /\ ExpiresOK(x)' /\ EndsOK(x)' /\ Survives(x)
    BY <1>1, <1>2, <2>1, StateOf, StartsKept, ExpiresKept, EndsKept, CaredForSurvives
  <2>3. HoldsItsName(x)' => HoldsItsName(x)
    BY <1>1 DEF HoldsItsName, CleanupBegan
  <2>4. HeldOK(x)'
    BY <1>1, <1>6, <2>3 DEF HInv, HeldOK, CandidateOK
  <2> QED
    BY <2>2, <2>4
<1> QED
  BY <1>7 DEF HInv

LEMMA HubStepCares ==
    ASSUME HInv, IInv', HubAnswersPersist \/ HubTakesLatePersist \/ LoseAnswer
    PROVE  HInv' /\ \A x \in Here : Survives(x)
<1>1. UNCHANGED <<rec, work, pass, tool, calls>>
  BY DEF HubAnswersPersist, HubTakesLatePersist, LoseAnswer, toolVars
<1>2. HubCalm
  BY HubLetsGo, HubUnchanged DEF HubAnswersPersist, HubTakesLatePersist, LoseAnswer, hubVars
<1>3. UNCHANGED chain \/ chain'.at # "authority" \/ chain'.rpc # "no"
  <2>1. CASE HubAnswersPersist
    BY <2>1 DEF HInv, IInv, ChainOK, HubAnswersPersist, Waiting, Answered, Optional
  <2>2. CASE LoseAnswer
    BY <2>2 DEF HInv, IInv, ChainOK, LoseAnswer, Answered, Optional
  <2>3. CASE HubTakesLatePersist
    BY <2>3 DEF HubTakesLatePersist
  <2> QED
    BY <2>1, <2>2, <2>3
<1>4. ToolsCalm /\ Drains(work, work') /\ \A x \in Here : Cared(x)
  BY <1>1, ToolsUnchanged, DrainsNothing, AllStay
<1> QED
  BY <1>1, <1>2, <1>3, <1>4, NobodyDenied, CalmStep

LEMMA ReceiveAuthorityCares ==
    ASSUME HInv, IInv', ReceiveAuthority
    PROVE  HInv' /\ \A x \in Here : Survives(x)
<1>1. PICK F :
        LET s == chain.s
            r == rec[s]
            denied == chain.rpc = "no" /\ ~r.closed
            granted == chain.rpc = "yes" /\ ~r.closed
            gives == granted /\ "persist" \notin F
            q == IF granted THEN Promoted(r, F) ELSE r
        IN /\ FailsWith(F, {"persist", "remove", "alarm", "clear"})
           /\ IF gives /\ chain.kind = "stop" THEN StopBody(s, chain.call, q, {})
              ELSE /\ rec' = [rec EXCEPT ![s] = CASE gives -> Prepared(q)
                                                  [] denied -> FinishStop(r, F)
                                                  [] OTHER -> r]
                   /\ FreeChain
                   /\ IF chain.kind = "stop" THEN Answer(s, chain.call, Failed) ELSE NoAnswer
  BY DEF ReceiveAuthority
<1>2. PICK s, r, q, call : s = chain.s /\ r = rec[s] /\ q = Promoted(r, F) /\ call = chain.call
  OBVIOUS
<1>3. /\ s \in Here /\ Sound(r, files) /\ Paired(r) /\ Quarantined(r) /\ F \in SUBSET Failure
      /\ UNCHANGED hubVars /\ UNCHANGED <<work, pass, calls>>
  <2>1. s \in Here /\ r.mem # None /\ r.mem.status = "quarantined"
    BY <1>2 DEF HInv, IInv, ChainOK, ReceiveAuthority, Waiting, Optional
  <2>2. F \in SUBSET Failure
    BY <1>1 DEF FailsWith, Failure
  <2> QED
    BY <1>2, <2>1, <2>2, StateOf DEF ReceiveAuthority, Quarantined
<1>4. Evolves(r, q) /\ Spares(r, q) /\ Sound(q, files)
  BY <1>2, <1>3, PromotingEvolves, PromotedIsSound
<1>5. Drains(work, work')
  BY <1>3, DrainsNothing
<1> DEFINE gives == chain.rpc = "yes" /\ ~r.closed /\ "persist" \notin F
<1>6. CASE gives /\ chain.kind = "stop"
  <2>1. StopBody(s, call, q, {})
    BY <1>1, <1>2, <1>6
  <2>2. /\ \A x \in Here : Cared(x)
        /\ ToolsCalm
        /\ chain' = None \/ chain'.at # "authority"
    BY <1>2, <1>3, <1>4, <2>1, StopBodyCares
  <2> QED
    BY <1>3, <1>5, <2>2, ExtensionStep
<1>7. CASE ~(gives /\ chain.kind = "stop")
  <2>1. PICK p : /\ rec' = [rec EXCEPT ![s] = p]
                 /\ \/ p = Prepared(q)
                    \/ p = FinishStop(r, F) /\ chain.rpc = "no" /\ ~r.closed
                    \/ p = r
    BY <1>1, <1>2, <1>7
  <2>2. chain' = None /\ (UNCHANGED tool \/ Answer(s, call, Failed))
    BY <1>1, <1>2, <1>7 DEF FreeChain, NoAnswer
  <2>3. Evolves(r, Prepared(q)) /\ Spares(r, Prepared(q))
    <3>1. PICK o : o = Prepared(q)
      OBVIOUS
    <3>2. Same(q, o) /\ Paired(q)
      BY <1>4, <3>1 DEF Same, Prepared, Sound, SessionState, Evolves
    <3>3. Evolves(r, o) /\ Spares(r, o)
      BY <1>4, <3>2, SameEvolves, EvolvesTwice DEF Same, Spares, Intact, Untouched
    <3> QED
      BY <3>1, <3>3
  <2>4. Evolves(r, FinishStop(r, F)) /\ Evolves(r, r) /\ Spares(r, r)
    BY <1>3, FinishingEvolves, StayingEvolves
  <2>5. chain.rpc = "no" => ~HoldsItsName(s)
    BY <1>2, <1>3 DEF HInv, HeldOK, Denied, ReceiveAuthority, Waiting
  <2>6. \A x \in Here : Cared(x)
    BY <1>2, <1>3, <2>1, <2>3, <2>4, <2>5, OneCared
  <2>7. ToolsCalm
    BY <1>3, <2>2, AnsweredTool, ToolsUnchanged
  <2> QED
    BY <1>3, <1>5, <2>2, <2>6, <2>7, ExtensionStep
<1> QED
  BY <1>6, <1>7

\* The operation that holds the chain after "authority" is of a recording that is stopping.
LEMMA StoppingHeld ==
    ASSUME HInv, chain # None, chain.at # "authority"
    PROVE  LET m == rec[chain.s].mem IN
           /\ chain.s \in Here /\ m # None /\ m \in ActiveRecording /\ m.status = "stopping"
           /\ ~HoldsItsName(chain.s)
<1>1. PICK s, r : s = chain.s /\ r = rec[s]
  OBVIOUS
<1>2. s \in Here /\ r.mem # None /\ r.mem.status = "stopping"
  BY <1>1 DEF HInv, IInv, ChainOK, Optional
<1>3. r.mem \in ActiveRecording /\ r.stored # None /\ r.stored.status = "stopping"
  BY <1>1, <1>2, StateOf DEF Sound, Fits, Paired
<1> QED
  BY <1>1, <1>2, <1>3 DEF HoldsItsName

LEMMA ReceivePersistCares ==
    ASSUME HInv, IInv', ReceivePersist
    PROVE  HInv' /\ \A x \in Here : Survives(x)
<1>1. PICK F :
         LET s == chain.s
             cached == [rec[s].mem EXCEPT !.stop = IF chain.rpc = "yes" THEN "server" ELSE "failed"]
         IN /\ FailsWith(F, {"persist"})
            /\ rec' = [rec EXCEPT ![s] = Kept(rec[s], cached, F)]
            /\ IF chain.rpc = "yes" THEN Hold("stop", s, chain.call, "local") /\ NoAnswer
               ELSE FreeChain /\ Answer(s, chain.call, Stopped(FALSE, cached))
  BY DEF ReceivePersist
<1>2. PICK s, r, m : /\ s = chain.s /\ r = rec[s]
                     /\ m = [r.mem EXCEPT !.stop = IF chain.rpc = "yes" THEN "server" ELSE "failed"]
  OBVIOUS
<1>3. /\ s \in Here /\ r \in SessionState /\ Paired(r) /\ r.mem # None /\ r.mem.status = "stopping"
      /\ r.mem \in ActiveRecording /\ UNCHANGED hubVars /\ UNCHANGED <<work, pass, calls>>
  BY <1>2, StoppingHeld, StateOf DEF ReceivePersist, Waiting
<1>4. m \in ActiveRecording /\ m.status = "stopping" /\ m.name = r.mem.name /\ m.start = r.mem.start
  BY <1>2, <1>3 DEF ActiveRecording
<1>5. Evolves(r, Kept(r, m, F)) /\ Spares(r, Kept(r, m, F)) /\ rec' = [rec EXCEPT ![s] = Kept(r, m, F)]
  BY <1>1, <1>2, <1>3, <1>4, KeepingEvolves
<1>6. \A x \in Here : Cared(x)
  BY <1>2, <1>3, <1>5, OneCared
<1>7. /\ chain' = None \/ chain'.at # "authority"
      /\ UNCHANGED tool \/ \E a : Answer(s, chain.call, a)
  <2>1. CASE chain.rpc = "yes"
    BY <1>1, <2>1 DEF Hold, NoAnswer
  <2>2. CASE chain.rpc # "yes"
    BY <1>1, <1>2, <2>2 DEF FreeChain
  <2> QED
    BY <2>1, <2>2
<1>8. ToolsCalm
  BY <1>3, <1>7, AnsweredTool, ToolsUnchanged
<1> QED
  BY <1>3, <1>6, <1>7, <1>8, DrainsNothing, ExtensionStep

LEMMA CopyLocallyCares ==
    ASSUME HInv, IInv', CopyLocally
    PROVE  HInv' /\ \A x \in Here : Survives(x)
<1>1. PICK F :
         LET s == chain.s
             m == rec[s].mem
             copies == m.stop # "both" /\ "local" \notin F /\ MayComplete(Payload(m))
         IN /\ rec' = [rec EXCEPT ![s] = IF copies THEN Kept(@, [m EXCEPT !.stop = "both"], F) ELSE @]
            /\ chain' = [chain EXCEPT !.at = "finish"]
  BY DEF CopyLocally
<1>2. PICK s, r, m : s = chain.s /\ r = rec[s] /\ m = [r.mem EXCEPT !.stop = "both"]
  OBVIOUS
<1>3. /\ s \in Here /\ r \in SessionState /\ Paired(r) /\ r.mem # None /\ r.mem.status = "stopping"
      /\ r.mem \in ActiveRecording /\ UNCHANGED hubVars /\ UNCHANGED <<work, pass, tool, calls>>
  BY <1>2, StoppingHeld, StateOf DEF CopyLocally, Waiting, toolVars
<1>4. m \in ActiveRecording /\ m.status = "stopping" /\ m.name = r.mem.name /\ m.start = r.mem.start
  BY <1>2, <1>3 DEF ActiveRecording
<1>5. Evolves(r, Kept(r, m, F)) /\ Spares(r, Kept(r, m, F)) /\ Evolves(r, r) /\ Spares(r, r)
  BY <1>3, <1>4, KeepingEvolves, StayingEvolves
<1>6. PICK q : q \in {r, Kept(r, m, F)} /\ rec' = [rec EXCEPT ![s] = q]
  BY <1>1, <1>2
<1>7. \A x \in Here : Cared(x)
  BY <1>2, <1>3, <1>5, <1>6, OneCared
<1>8. chain'.at = "finish"
  BY <1>1 DEF HInv, IInv, ChainOK, CopyLocally, Waiting, Optional
<1> QED
  BY <1>3, <1>7, <1>8, ToolsUnchanged, DrainsNothing, ExtensionStep

LEMMA FinishStoppingCares ==
    ASSUME HInv, IInv', FinishStopping
    PROVE  HInv' /\ \A x \in Here : Survives(x)
<1>1. PICK F : /\ FailsWith(F, {"persist", "remove", "alarm", "clear"})
               /\ rec' = [rec EXCEPT ![chain.s] = FinishStop(@, F)]
               /\ Answer(chain.s, chain.call, Stopped(TRUE, rec[chain.s].mem))
  BY DEF FinishStopping
<1>2. PICK s, r : s = chain.s /\ r = rec[s]
  OBVIOUS
<1>3. /\ s \in Here /\ Sound(r, files) /\ Paired(r) /\ ~HoldsItsName(s) /\ F \in SUBSET Failure
      /\ UNCHANGED hubVars /\ UNCHANGED <<work, pass, calls>> /\ chain' = None
  <2>1. F \in SUBSET Failure
    BY <1>1 DEF FailsWith, Failure
  <2> QED
    BY <1>2, <2>1, StoppingHeld, StateOf DEF FinishStopping, Waiting, FreeChain
<1>4. Evolves(r, FinishStop(r, F)) /\ rec' = [rec EXCEPT ![s] = FinishStop(r, F)]
  BY <1>1, <1>2, <1>3, FinishingEvolves
<1>5. \A x \in Here : Cared(x)
  BY <1>2, <1>3, <1>4, OneCared
<1>6. ToolsCalm
  BY <1>1, <1>2, <1>3, AnsweredTool
<1> QED
  BY <1>3, <1>5, <1>6, DrainsNothing, ExtensionStep

\* A start finds a recording that holds its name, or begins one where there is none.
LEMMA StartCares ==
    ASSUME HInv, IInv', NEW i \in Items, RunStart(i)
    PROVE  HInv' /\ \A x \in Here : Survives(x)
<1>1. PICK F : FailsWith(F, Failure \ {"local"}) /\ Start(i, F)
  BY DEF RunStart
<1>2. F \in SUBSET Failure
  BY <1>1 DEF FailsWith
<1>3. /\ Drains(work, work') /\ UNCHANGED hubVars /\ UNCHANGED <<pass, chain, calls>> /\ chain = None
      /\ work[i] \in WorkItem /\ work[i].s \in Here /\ work[i].kind = "start"
  BY WorkBegins DEF RunStart, Begins
<1>4. HubCalm
  BY <1>3, HubUnchanged DEF hubVars
<1>5. PICK w, s, o, q : w = work[i] /\ s = w.s /\ o = rec[s] /\ q = RestoreAll(F)
  OBVIOUS
<1>6. /\ DOMAIN q = Here /\ s \in Here
      /\ \A x \in Here : Evolves(rec[x], q[x]) /\ Spares(rec[x], q[x])
  BY <1>2, <1>3, <1>5, RestoredAll DEF RestoreAll
<1>7. CASE completed[w.name] # None \/ "read" \in F
  <2>1. UNCHANGED rec /\ Answer(s, w.call, Failed)
    BY <1>1, <1>5, <1>7 DEF Start
  <2> QED
    BY <1>3, <1>6, <2>1, AllStay, AnsweredTool, ExtensionStep
<1>8. CASE ~(completed[w.name] # None \/ "read" \in F)
  <2>1. PICK r, begun, refused, unscheduled, after :
          /\ r = q[s]
          /\ refused = (Cleaning(o) \/ InCleanup(Restore(o, F)) \/ r.fallback \/ r.mem # None)
          /\ begun = [r EXCEPT !.mem = Fresh(w), !.stored = Fresh(w)]
          /\ unscheduled = IF "remove" \in F THEN [begun EXCEPT !.mem = None] ELSE Removed(r)
          /\ after = CASE refused -> r
                       [] ~refused /\ "persist" \in F -> RolledBack(r, F)
                       [] ~refused /\ "persist" \notin F /\ "alarm" \in F -> unscheduled
                       [] OTHER -> begun
    OBVIOUS
  <2>2. rec' = [q EXCEPT ![s] = after] /\ \E a : Answer(s, w.call, a)
    BY <1>1, <1>5, <1>8, <2>1 DEF Start
  <2>3. /\ rec'[s] = after /\ \A x \in Here : x # s => rec'[x] = q[x]
        /\ ToolsCalm
    BY <1>3, <1>6, <2>2, AnsweredTool
  <2>4. \A x \in Here : x # s => Cared(x)
    BY <1>6, <2>3 DEF Cared
  <2>5. CASE refused
    <3>1. Cared(s)
      BY <1>5, <1>6, <2>1, <2>3, <2>5 DEF Cared
    <3> QED
      BY <1>3, <2>3, <2>4, <3>1, ExtensionStep
  <2>6. CASE ~refused
    <3>1. /\ Sound(r, files) /\ r.mem = None /\ ~r.renewing /\ ~r.fallback
          /\ Evolves(o, r)
      BY <1>2, <1>5, <1>6, <2>1, <2>6, RestoredAll DEF Sound
    <3>2. ~HoldsItsName(s)
      <4>1. ~(Intact(o) /\ Untouched(o))
        BY <1>2, <1>5, <1>6, <2>1, <2>6, RestoredAll
      <4> QED
        BY <1>5, <1>6, <4>1 DEF HInv, HeldOK, HoldsItsName, CleanupBegan, Intact
    <3>3. PICK m : m = Fresh(w)
      OBVIOUS
    <3>4. m # None /\ m.status = "active" /\ m.start = w.call
      <4>1. Fits(m, files)
        BY <1>3, <1>5, <3>3, ReservationAssumption DEF WorkItem, Fits, Fresh, ActiveRecording
      <4> QED
        BY <3>3, <4>1, StatusFits DEF Fresh
    <3>5. begun \in SessionState /\ begun.mem = m /\ begun.stored = m /\ ~begun.fallback /\ ~begun.renewing
      <4>1. m \in ActiveRecording
        BY <1>3, <1>5, <3>3, ReservationAssumption DEF WorkItem, Fresh, ActiveRecording
      <4> QED
        BY <2>1, <3>1, <3>3, <4>1 DEF Sound, SessionState, Optional
    <3>6. PICK c : c = [begun EXCEPT !.mem = None]
      OBVIOUS
    <3>7. c.mem = None /\ c.stored = m /\ ~c.fallback /\ ~c.renewing
      BY <3>5, <3>6 DEF SessionState
    <3>8. PICK d : d = Removed(r)
      OBVIOUS
    <3>9. d.mem = None /\ d.stored = None
      BY <3>8 DEF Removed, NoSession
    <3>10. PICK e : e = RolledBack(r, F)
      OBVIOUS
    <3>11. ~Intact(e) /\ Evolves(o, e)
      <4>1. PICK a : a = [r EXCEPT !.mem = None, !.closed = TRUE, !.fallback = TRUE]
        OBVIOUS
      <4>2. /\ a \in SessionState /\ a.mem = None /\ a.stored = r.stored /\ a.closed = TRUE
            /\ a.renewing = r.renewing
        BY <3>1, <4>1 DEF Sound, SessionState, Optional
      <4>3. Evolves(o, a)
        BY <3>1, <4>2 DEF Evolves, Paired, Intact
      <4>4. PICK b : b = WithAlarm(a, F)
        OBVIOUS
      <4>5. b \in SessionState /\ Paired(b) /\ Evolves(o, b)
        <5>1. b \in SessionState
          BY <4>2, <4>4 DEF WithAlarm, SessionState
        <5>2. Evolves(a, b)
          BY <4>2, <4>3, <4>4, CleaningEvolves DEF Evolves
        <5> QED
          BY <4>3, <5>1, <5>2, EvolvesTwice DEF Evolves
      <4>6. e = RetryCleanup(b, F)
        BY <3>10, <4>1, <4>4 DEF RolledBack
      <4>7. Evolves(b, e) /\ ~Intact(e)
        BY <4>5, <4>6, CleaningEvolves
      <4> QED
        BY <4>5, <4>7, EvolvesTwice
    <3>12. after \in {begun, c, d, e}
      BY <2>1, <2>6, <3>6, <3>8, <3>10
    <3>13. Paired(after) /\ (Intact(after) => Untouched(after) /\ ~after.renewing)
      BY <3>4, <3>5, <3>7, <3>9, <3>11, <3>12 DEF Paired, Intact, Untouched, Evolves
    <3>14. after.stored # None =>
             (o.stored # None /\ after.stored.start = o.stored.start) \/ after.stored.start = w.call
      BY <3>4, <3>5, <3>7, <3>9, <3>11, <3>12 DEF Evolves
    <3>15. StartWaits(work, s, w.call)
      BY <1>3, <1>5 DEF StartWaits, Items
    <3>16. \A x \in Calls : StoredStart(s, x)' => StoredStart(s, x) \/ StartWaits(work, s, x)
      BY <1>5, <2>3, <3>14, <3>15 DEF StoredStart
    <3>17. HeldOK(s)' /\ Paired(rec[s])' /\ Survives(s)
      <4>1. ~Denied(s)'
        BY <1>3 DEF Denied
      <4> QED
        BY <2>3, <3>2, <3>13, <4>1 DEF HeldOK, HoldsItsName, CleanupBegan, Intact, CandidateOK, Survives
    <3>18. StartsOK(s)' /\ EndsOK(s)'
      BY <1>3, <1>4, <1>6, <2>3, <3>16, StartsKept, EndsKept
    <3>19. ExpiresOK(s)'
      <4>1. SUFFICES ASSUME NEW n \in Names, Holds(s, n)', ExpireWaits(work', s, n)
                     PROVE  /\ ~StoredStart(s, reservation[n].start)'
                            /\ InOrder(work', s, n, reservation'[n].start)
        BY DEF ExpiresOK
      <4>2. reservation' = reservation /\ Holds(s, n)
        BY <1>3, <4>1 DEF hubVars, Holds
      <4>3. PICK x : x = reservation[n].start
        OBVIOUS
      <4>4. x \in Calls
        BY <4>2, <4>3 DEF Holds, HInv, IInv, HubOK, Optional, Reservation
      <4>5. ExpireWaits(work, s, n)
        BY <1>3, <1>6, <4>1 DEF Drains
      <4>6. ~StoredStart(s, x) /\ InOrder(work, s, n, x)
        BY <1>6, <4>2, <4>3, <4>5 DEF HInv, ExpiresOK
      <4>7. x # w.call
        <5>1. PICK k \in DOMAIN work : work[k].kind = "expire" /\ work[k].s = s /\ work[k].name = n
          BY <4>5 DEF ExpireWaits
        <5>2. k # i /\ k \in 1..Len(work) /\ i \in 1..Len(work) /\ Len(work) \in Nat
          BY <1>3, <5>1 DEF Items, HInv, IInv, RequestsOK
        <5>3. ~(k < i)
          BY <5>1, <5>2 DEF RunStart, Begins, Prompt
        <5>4. i \in 1..(k - 1)
          BY <5>2, <5>3
        <5> QED
          BY <1>3, <1>5, <4>6, <5>1, <5>4 DEF InOrder
      <4>8. ~StoredStart(s, x)'
        BY <1>5, <2>3, <3>14, <4>6, <4>7 DEF StoredStart
      <4>9. InOrder(work', s, n, x)
        BY <1>3, <1>6, <4>1, <4>4, <4>6 DEF Drains
      <4> QED
        BY <4>2, <4>3, <4>8, <4>9 DEF StoredStart
    <3>20. ASSUME NEW x \in Here, x # s
           PROVE  /\ Paired(rec[x])' /\ HeldOK(x)' /\ StartsOK(x)' /\ ExpiresOK(x)' /\ EndsOK(x)'
                  /\ Survives(x)
      <4>1. Cared(x)
        BY <2>4, <3>20
      <4>2. \A y \in Calls : StoredStart(x, y)' => StoredStart(x, y)
        BY <4>1, EvolvedStart DEF Cared
      <4>3. StartsOK(x)' /\ ExpiresOK(x)' /\ EndsOK(x)' /\ Survives(x)
        BY <1>3, <1>4, <2>3, <4>1, <4>2, StartsKept, ExpiresKept, EndsKept, CaredForSurvives
      <4>4. HoldsItsName(x)' => HoldsItsName(x)
        BY <1>4, <4>1, NothingHeldAnew DEF Cared
      <4>5. Denied(x)' => Denied(x)
        BY <1>3, NobodyDenied
      <4> QED
        BY <1>3, <4>1, <4>3, <4>4, <4>5, HeldKept
    <3> QED
      BY <3>17, <3>18, <3>19, <3>20 DEF HInv
  <2> QED
    BY <2>1, <2>5, <2>6
<1> QED
  BY <1>7, <1>8

\* The mark of an end comes only to a session that has ended.
LEMMA HearClosedCares ==
    ASSUME HInv, IInv', NEW i \in Items, HearClosed(i)
    PROVE  HInv' /\ \A x \in Here : Survives(x)
<1>1. PICK F : rec' = [rec EXCEPT ![work[i].s] = WithAlarm([@ EXCEPT !.closed = TRUE], F)]
  BY DEF HearClosed
<1>2. PICK w, s, o, v, q : /\ w = work[i] /\ s = w.s /\ o = rec[s] /\ q = Without(work, i)
                           /\ v = [w EXCEPT !.kind = "abort"]
  OBVIOUS
<1>3. /\ w \in WorkItem /\ w.kind = "closed" /\ s \in Here /\ q \in Seq(WorkItem)
      /\ work' = Append(q, v) /\ UNCHANGED hubVars /\ UNCHANGED <<pass, chain, tool, calls>>
  <2>1. w \in WorkItem /\ q \in Seq(WorkItem) /\ work[i].kind = "closed"
    BY <1>2, Taken DEF HInv, HearClosed
  <2>2. work' = Append(q, v) /\ UNCHANGED hubVars /\ UNCHANGED <<pass, chain, tool, calls>>
    BY <1>2 DEF HearClosed, toolVars
  <2> QED
    BY <1>2, <2>1, <2>2 DEF WorkItem
<1>4. v \in WorkItem /\ v.kind = "abort" /\ v.s = s
  BY <1>2, <1>3 DEF WorkItem, WorkKinds
<1>5. o \in SessionState /\ Paired(o)
  BY <1>2, <1>3, StateOf
<1>6. PICK r : r = WithAlarm([o EXCEPT !.closed = TRUE], F)
  OBVIOUS
<1>7. Evolves(o, r) /\ rec' = [rec EXCEPT ![s] = r]
  BY <1>1, <1>2, <1>5, <1>6, MarkingEvolves
<1>8. EndWaits(work, s) /\ ~HoldsItsName(s)
  <2>1. EndWaits(work, s)
    BY <1>2, <1>3 DEF EndWaits, Items
  <2> QED
    BY <1>3, <2>1 DEF HInv, EndsOK, HoldsItsName
<1>9. \A x \in Here : Cared(x)
  BY <1>2, <1>3, <1>7, <1>8, OneCared
<1>10. Drains(work, work')
  <2>1. PICK p, u : p = work /\ u = Append(q, v)
    OBVIOUS
  <2>2. p \in Seq(WorkItem) /\ i \in 1..Len(p) /\ q = Without(p, i)
    BY <1>2, <2>1 DEF HInv, IInv, RequestsOK, Items
  <2>3. Drains(p, q)
    BY <2>2, DrainsOne
  <2>4. ASSUME NEW x \in Here
        PROVE  /\ \A c \in Calls : StartWaits(u, x, c) => StartWaits(q, x, c)
               /\ \A n \in Names : ExpireWaits(u, x, n) => ExpireWaits(q, x, n)
               /\ \A n \in Names, c \in Calls : InOrder(q, x, n, c) => InOrder(u, x, n, c)
               /\ EndWaits(u, x) => EndWaits(q, x) \/ x = s
    BY <1>3, <1>4, <2>1, AppendedWaits
  <2>5. Drains(p, u)
    BY <1>8, <2>1, <2>3, <2>4 DEF Drains
  <2> QED
    BY <1>3, <2>1, <2>5
<1> QED
  BY <1>3, <1>9, <1>10, ToolsUnchanged, ExtensionStep

\* A stop of the worker forgets every mark, and everything that was on its way.
LEMMA WorkerStopsCares ==
    ASSUME HInv, IInv', WorkerStops
    PROVE  HInv' /\ \A x \in Here : Survives(x)
<1>1. /\ rec' = [s \in Here |-> [NoSession EXCEPT !.stored = rec[s].stored, !.alarm = rec[s].alarm]]
      /\ UNCHANGED <<live, reservation, calls>> /\ work' = <<>> /\ chain' = None
  BY DEF WorkerStops, hubVars
<1>2. HubCalm /\ Drains(work, work')
  BY <1>1, HubUnchanged, DrainsNothing
<1>3. ToolsCalm
  <2>1. tool \in [Here -> ToolState]
    BY DEF HInv, IInv, ToolOK, ToolState
  <2>2. \A s \in Here : tool'[s] = tool[s] \/ tool'[s] = [tool[s] EXCEPT !.answer = Failed]
    BY DEF WorkerStops
  <2>3. \A s \in Here : tool'[s].call = tool[s].call /\ tool'[s].at = tool[s].at
    BY <2>1, <2>2 DEF ToolState
  <2>4. calls' = calls /\ calls \in Nat /\ \A s \in Here : tool[s].call <= calls
    BY <1>1, CallsCounted
  <2> QED
    BY <2>3, <2>4 DEF ToolsCalm
<1>4. ASSUME NEW s \in Here
      PROVE  /\ Paired(rec[s])' /\ HeldOK(s)' /\ StartsOK(s)' /\ ExpiresOK(s)' /\ EndsOK(s)'
             /\ Survives(s)
  <2>1. PICK o, r : o = rec[s] /\ r = [NoSession EXCEPT !.stored = o.stored, !.alarm = o.alarm]
    OBVIOUS
  <2>2. rec'[s] = r /\ Paired(o)
    BY <1>1, <2>1, StateOf
  <2>3. r.mem = None /\ r.stored = o.stored /\ r.fallback = FALSE /\ r.renewing = FALSE
    BY <2>1 DEF NoSession
  <2>4. Paired(rec[s])'
    BY <2>2, <2>3 DEF Paired
  <2>5. HeldOK(s)'
    BY <1>1, <2>2, <2>3 DEF HeldOK, Untouched, CandidateOK, Denied
  <2>6. Survives(s)
    BY <2>1, <2>2, <2>3 DEF Survives, HoldsItsName, KeepsRecording
  <2>7. \A c \in Calls : StoredStart(s, c)' => StoredStart(s, c)
    BY <2>1, <2>2, <2>3 DEF StoredStart
  <2> QED
    BY <1>2, <1>3, <2>4, <2>5, <2>6, <2>7, StartsKept, ExpiresKept, EndsKept
<1> QED
  BY <1>4 DEF HInv

-------------------------------------------------------------------------------
(* One step of each action: the tools and the hub. *)

\* A step of the tools alone.
LEMMA ToolStep ==
    ASSUME HInv, IInv', UNCHANGED <<rec, pass, chain>>, HubCalm, Drains(work, work'), ToolsCalm
    PROVE  HInv' /\ \A x \in Here : Survives(x)
  BY AllStay, NobodyDenied, CalmStep

LEMMA CallStartCares ==
    ASSUME HInv, IInv', NEW s \in Here, NEW n \in Names, CallStart(s, n)
    PROVE  HInv' /\ \A x \in Here : Survives(x)
<1>1. /\ UNCHANGED <<rec, work, chain, pass, live, reservation>>
      /\ calls' = calls + 1 /\ calls \in Nat
  BY CallsCounted DEF CallStart, Calling, hubVars, extensionVars
<1>2. PICK t : t = [op |-> "start", call |-> calls + 1, name |-> n, at |-> "checked", answer |-> None]
  OBVIOUS
<1>3. tool' = [tool EXCEPT ![s] = t] /\ t.call = calls + 1
  BY <1>2 DEF CallStart, Calling
<1>4. tool'[s] = t /\ \A x \in Here : x # s => tool'[x] = tool[x]
  BY <1>3 DEF HInv, IInv, ToolOK
<1>5. HubCalm /\ Drains(work, work') /\ \A x \in Here : Cared(x) /\ (Denied(x)' => Denied(x))
  BY <1>1, HubUnchanged, DrainsNothing, AllStay, NobodyDenied
<1>6. ASSUME NEW x \in Here
      PROVE  /\ Paired(rec[x])' /\ HeldOK(x)' /\ StartsOK(x)' /\ ExpiresOK(x)' /\ EndsOK(x)'
             /\ Survives(x)
  <2>1. \A c \in Calls : StoredStart(x, c)' => StoredStart(x, c)
    BY <1>1 DEF StoredStart
  <2>2. HoldsItsName(x)' => HoldsItsName(x)
    BY <1>5, NothingHeldAnew DEF Cared
  <2>3. Paired(rec[x])' /\ HeldOK(x)' /\ ExpiresOK(x)' /\ EndsOK(x)' /\ Survives(x)
    BY <1>1, <1>5, <2>1, <2>2, HeldKept, ExpiresKept, EndsKept, CaredForSurvives
  <2>4. \A c \in Calls : StoredStart(x, c) \/ StartWaits(work, x, c) => c <= calls
    BY DEF HInv, StartsOK
  <2>5. \A c \in Calls : StoredStart(x, c)' \/ StartWaits(work', x, c) => c <= calls'
    BY <1>1, <2>1, <2>4 DEF Calls
  <2>6. tool'[x].call <= calls'
    BY <1>1, <1>3, <1>4, CallsCounted DEF HInv, IInv, ToolOK
  <2>7. tool'[x].at = "checked" => ~StoredStart(x, tool[x].call)' /\ ~StartWaits(work', x, tool'[x].call)
    <3>1. CASE x # s
      BY <1>1, <1>4, <3>1 DEF HInv, StartsOK, StoredStart
    <3>2. CASE x = s
      <4>1. PICK c : c = calls + 1
        OBVIOUS
      <4>2. ~(c <= calls)
        BY <1>1, <4>1
      <4>3. tool'[x].at = "checked" => c \in Calls
        BY <1>3, <1>4, <3>2, <4>1 DEF IInv, ToolOK
      <4>4. c \in Calls => ~StoredStart(x, c)' /\ ~StartWaits(work', x, c)
        BY <1>1, <2>1, <2>4, <4>2
      <4> QED
        BY <1>3, <1>4, <3>2, <4>1, <4>3, <4>4 DEF StoredStart
    <3> QED
      BY <3>1, <3>2
  <2>8. StartsOK(x)'
    BY <2>5, <2>6, <2>7 DEF StartsOK
  <2> QED
    BY <2>3, <2>8
<1> QED
  BY <1>6 DEF HInv

\* A new reservation is for a start that no recording and no request has yet.
LEMMA ReserveNameCares ==
    ASSUME HInv, IInv', NEW s \in Here, ReserveName(s)
    PROVE  HInv' /\ \A x \in Here : Survives(x)
<1>1. UNCHANGED <<rec, chain, pass, calls>>
  BY DEF ReserveName
<1>2. PICK n, c : n = tool[s].name /\ c = tool[s].call
  OBVIOUS
<1>3. n \in Names /\ c \in Calls /\ tool[s].at = "checked" /\ tool \in [Here -> ToolState]
  BY <1>2 DEF HInv, IInv, ToolOK, ToolState, ReserveName
<1>4. CASE reservation[n] # None
  <2>1. Ends(s) /\ UNCHANGED hubVars /\ UNCHANGED work
    BY <1>2, <1>4 DEF ReserveName
  <2> QED
    BY <1>1, <2>1, EndedTool, HubUnchanged, DrainsNothing, ToolStep DEF hubVars
<1>5. CASE reservation[n] = None
  <2>1. /\ reservation' = [reservation EXCEPT ![n] = [by |-> s, start |-> c]] /\ UNCHANGED live
        /\ tool' = [tool EXCEPT ![s].at = "sent"]
        /\ work' = Ask(s, "start")
    BY <1>2, <1>5 DEF ReserveName, Reserve
  <2>2. /\ tool'[s].call = c /\ tool'[s].name = n /\ tool'[s].at = "sent"
        /\ \A x \in Here : x # s => tool'[x] = tool[x]
    BY <1>2, <1>3, <2>1 DEF ToolState
  <2>3. PICK w, q : w = [kind |-> "start", s |-> s, call |-> c, name |-> n] /\ q = work
    OBVIOUS
  <2>4. w \in WorkItem /\ w.kind = "start" /\ w.s = s /\ w.call = c /\ q \in Seq(WorkItem)
    BY <1>3, <2>3, ReservationAssumption DEF WorkItem, WorkKinds, Optional, Calls, HInv, IInv, RequestsOK
  <2>5. work' = Append(q, w)
    BY <2>1, <2>2, <2>3 DEF Ask
  <2>6. PICK u : u = Append(q, w)
    OBVIOUS
  <2>7. /\ \A x \in Names : x # n => reservation'[x] = reservation[x]
        /\ reservation'[n] = [by |-> s, start |-> c]
    BY <1>3, <2>1 DEF HInv, IInv, HubOK
  <2>8. ~StoredStart(s, c) /\ ~StartWaits(q, s, c)
    BY <1>2, <1>3, <2>3 DEF HInv, StartsOK
  <2>9. ASSUME NEW x \in Here
        PROVE  /\ Paired(rec[x])' /\ HeldOK(x)' /\ StartsOK(x)' /\ ExpiresOK(x)' /\ EndsOK(x)'
               /\ Survives(x)
    <3>1. Cared(x) /\ (Denied(x)' => Denied(x))
      BY <1>1, AllStay, NobodyDenied
    <3>2. HoldsItsName(x)' => HoldsItsName(x)
      <4>1. SUFFICES ASSUME HoldsItsName(x)' PROVE HoldsItsName(x)
        OBVIOUS
      <4>2. PICK m : m = rec[x].stored
        OBVIOUS
      <4>3. m # None /\ reservation'[m.name] = [by |-> x, start |-> m.start] /\ m.name \in Names
        BY <1>1, <4>1, <4>2, StateOf DEF HoldsItsName, Sound, Fits, ActiveRecording
      <4>4. m.name # n
        <5>1. SUFFICES ASSUME m.name = n PROVE FALSE
          OBVIOUS
        <5>2. [by |-> x, start |-> m.start] = [by |-> s, start |-> c]
          BY <2>7, <4>3, <5>1
        <5>3. x = s /\ m.start = c
          BY <5>2
        <5> QED
          BY <2>8, <4>2, <4>3, <5>3 DEF StoredStart
      <4> QED
        BY <1>1, <2>1, <2>7, <4>1, <4>2, <4>3, <4>4 DEF HoldsItsName, CleanupBegan
    <3>3. Paired(rec[x])' /\ HeldOK(x)' /\ Survives(x)
      BY <1>1, <3>1, <3>2, HeldKept, CaredForSurvives
    <3>4. \A y : StoredStart(x, y)' <=> StoredStart(x, y)
      BY <1>1 DEF StoredStart
    <3>5. \A y \in Calls : StartWaits(u, x, y) => StartWaits(q, x, y) \/ (x = s /\ y = c)
      BY <2>4, <2>6, AppendedWaits
    <3>6. StartsOK(x)'
      <4>1. \A y \in Calls : StoredStart(x, y)' \/ StartWaits(work', x, y) => y <= calls'
        BY <1>1, <1>2, <2>3, <2>5, <2>6, <3>4, <3>5, CallsCounted DEF HInv, StartsOK
      <4>2. tool'[x].call <= calls'
        BY <1>1, <1>2, <2>2, CallsCounted
      <4>3. ASSUME tool'[x].at = "checked"
            PROVE  ~StoredStart(x, tool[x].call)' /\ ~StartWaits(work', x, tool'[x].call)
        <5>1. x # s /\ tool'[x] = tool[x]
          BY <2>2, <4>3
        <5>2. tool[x].call \in Calls /\ ~StoredStart(x, tool[x].call) /\ ~StartWaits(work, x, tool[x].call)
          BY <4>3, <5>1 DEF HInv, StartsOK, IInv, ToolOK
        <5> QED
          BY <1>1, <2>3, <2>5, <2>6, <3>5, <5>1, <5>2 DEF StoredStart
      <4> QED
        BY <4>1, <4>2, <4>3 DEF StartsOK
    <3>7. \A y \in Names : ExpireWaits(u, x, y) => ExpireWaits(q, x, y)
      BY <2>4, <2>6, AppendedWaits
    <3>8. ExpiresOK(x)'
      <4>1. SUFFICES ASSUME NEW y \in Names, Holds(x, y)', ExpireWaits(work', x, y)
                     PROVE  /\ ~StoredStart(x, reservation[y].start)'
                            /\ InOrder(work', x, y, reservation'[y].start)
        BY DEF ExpiresOK
      <4>2. PICK h : h = reservation'[y].start
        OBVIOUS
      <4>3. CASE y = n
        <5>1. x = s /\ h = c
          BY <2>7, <4>1, <4>2, <4>3 DEF Holds
        <5>2. InOrder(u, s, n, c)
          BY <2>4, <2>6, <2>8, AppendedWaits
        <5> QED
          BY <2>5, <2>6, <2>8, <3>4, <4>2, <4>3, <5>1, <5>2 DEF StoredStart
      <4>4. CASE y # n
        <5>1. reservation'[y] = reservation[y] /\ Holds(x, y) /\ ExpireWaits(q, x, y)
          BY <2>5, <2>6, <2>7, <3>7, <4>1, <4>4 DEF Holds
        <5>2. h = reservation[y].start
          BY <4>2, <5>1
        <5>3. ~StoredStart(x, h) /\ InOrder(q, x, y, h)
          BY <2>3, <5>1, <5>2 DEF HInv, ExpiresOK
        <5>4. InOrder(u, x, y, h)
          BY <2>4, <2>6, <5>3, AppendedWaits
        <5> QED
          BY <2>5, <2>6, <3>4, <4>2, <5>3, <5>4 DEF StoredStart
      <4> QED
        BY <4>3, <4>4
    <3>9. EndsOK(x)'
      <4>1. EndWaits(u, x) => EndWaits(q, x)
        BY <2>4, <2>6, AppendedWaits
      <4> QED
        BY <2>1, <2>3, <2>5, <2>6, <4>1 DEF HInv, EndsOK
    <3> QED
      BY <3>3, <3>6, <3>8, <3>9
  <2> QED
    BY <2>9 DEF HInv
<1> QED
  BY <1>4, <1>5

LEMMA CallStopCares ==
    ASSUME HInv, IInv', NEW s \in Here, CallStop(s)
    PROVE  HInv' /\ \A x \in Here : Survives(x)
<1>1. /\ UNCHANGED <<rec, chain, pass, live, reservation>>
      /\ calls' = calls + 1 /\ calls \in Nat /\ work' = Ask(s, "stop")
  BY CallsCounted DEF CallStop, Calling, hubVars
<1>2. PICK t : t = [op |-> "stop", call |-> calls + 1, name |-> None, at |-> "sent", answer |-> None]
  OBVIOUS
<1>3. tool' = [tool EXCEPT ![s] = t] /\ t.call = calls + 1 /\ t.at = "sent" /\ t.name = None
  BY <1>2 DEF CallStop, Calling
<1>4. tool'[s] = t /\ \A x \in Here : x # s => tool'[x] = tool[x]
  BY <1>3 DEF HInv, IInv, ToolOK
<1>5. ToolsCalm
  <2>1. \A x \in Here : x # s => tool[x].call <= calls /\ tool[x].call \in Nat
    BY CallsCounted DEF HInv, IInv, ToolOK
  <2> QED
    BY <1>1, <1>3, <1>4, <2>1 DEF ToolsCalm
<1>6. PICK w, q : w = [kind |-> "stop", s |-> s, call |-> calls + 1, name |-> None] /\ q = work
  OBVIOUS
<1>7. w \in WorkItem /\ w.kind = "stop" /\ q \in Seq(WorkItem) /\ work' = Append(q, w)
  <2>1. calls + 1 \in 0..MaxCalls
    BY <1>1 DEF IInv, CountsOK
  <2> QED
    BY <1>1, <1>3, <1>4, <1>6, <2>1 DEF WorkItem, WorkKinds, Optional, Ask, HInv, IInv, RequestsOK
<1>8. Drains(work, work')
  <2>1. Drains(q, Append(q, w))
    BY <1>7, DrainsWithMore
  <2> QED
    BY <1>6, <1>7, <2>1
<1> QED
  BY <1>1, <1>5, <1>8, HubUnchanged, ToolStep

LEMMA ReturnCares ==
    ASSUME HInv, IInv', NEW s \in Here, StartReturns(s) \/ StopReturns(s) \/ GiveUp(s)
    PROVE  HInv' /\ \A x \in Here : Survives(x)
<1>1. UNCHANGED <<rec, work, chain, pass, calls>>
  BY DEF StartReturns, StopReturns, GiveUp, extensionVars
<1>2. UNCHANGED hubVars \/ Release(s, current[s])
  BY DEF StartReturns, StopReturns, GiveUp, LetGo
<1>3. HubCalm
  BY <1>2, HubUnchanged, HubLetsGo DEF hubVars
<1>4. ToolsCalm
  <2>1. CASE StartReturns(s) \/ StopReturns(s)
    BY <1>1, <2>1, EndedTool DEF StartReturns, StopReturns
  <2>2. CASE GiveUp(s)
    <3>1. Answer(s, tool[s].call, Failed)
      BY <2>2 DEF GiveUp, Answer
    <3> QED
      BY <1>1, <3>1, AnsweredTool
  <2> QED
    BY <2>1, <2>2
<1> QED
  BY <1>1, <1>3, <1>4, DrainsNothing, ToolStep

\* The expiry of a name waits from when its reservation is gone.
LEMMA LapseCares ==
    ASSUME HInv, IInv', NEW n \in Names, LapseOf(n)
    PROVE  HInv' /\ \A x \in Here : Survives(x)
<1>1. UNCHANGED <<rec, chain, pass, tool, calls>>
  BY DEF LapseOf, toolVars
<1>2. HubCalm /\ ToolsCalm
  BY <1>1, HubLetsGo, ToolsUnchanged DEF LapseOf
<1>3. reservation'[n] = None
  BY DEF LapseOf, Lapse, Terminate, HInv, IInv, HubOK
<1>4. PICK w, q : w = [kind |-> "expire", s |-> reservation[n].by, call |-> 0, name |-> n] /\ q = work
  OBVIOUS
<1>5. work' = q \/ (work' = Append(q, w) /\ w \in WorkItem)
  <2>1. work' = q \/ (work' = Append(q, w) /\ reservation[n].by \in Here)
    BY <1>4 DEF LapseOf
  <2>2. reservation[n].by \in Here => w \in WorkItem
    BY <1>4, ReservationAssumption DEF WorkItem, WorkKinds, Optional
  <2> QED
    BY <2>1, <2>2
<1>6. w.kind = "expire" /\ w.name = n /\ q \in Seq(WorkItem)
  BY <1>4 DEF HInv, IInv, RequestsOK
<1>7. w \in WorkItem => Drains(q, Append(q, w))
  <2>1. SUFFICES ASSUME w \in WorkItem PROVE Drains(q, Append(q, w))
    OBVIOUS
  <2>2. PICK u : u = Append(q, w)
    OBVIOUS
  <2>3. \A x \in Here : ~Holds(x, n)'
    BY <1>3 DEF Holds
  <2>4. ASSUME NEW x \in Here
        PROVE  /\ \A c \in Calls : StartWaits(u, x, c) => StartWaits(q, x, c)
               /\ \A y \in Names : ExpireWaits(u, x, y) => ExpireWaits(q, x, y) \/ y = n
               /\ \A y \in Names, c \in Calls : InOrder(q, x, y, c) => InOrder(u, x, y, c) \/ y = n
               /\ EndWaits(u, x) => EndWaits(q, x)
    BY <1>6, <2>1, <2>2, AppendedWaits
  <2>5. Drains(q, u)
    BY <2>3, <2>4 DEF Drains
  <2> QED
    BY <2>2, <2>5
<1>8. Drains(work, work')
  BY <1>4, <1>5, <1>7, DrainsNothing
<1> QED
  BY <1>1, <1>2, <1>8, ToolStep

LEMMA SessionEndCares ==
    ASSUME HInv, IInv', NEW s \in Here, SessionEnds(s)
    PROVE  HInv' /\ \A x \in Here : Survives(x)
<1>1. UNCHANGED <<rec, chain, pass, calls>> /\ EndSession(s)
  BY DEF SessionEnds
<1>2. HubCalm /\ s \notin live'
  BY <1>1, HubLetsGo DEF EndSession
<1>3. Ends(s)
  BY DEF SessionEnds, Ends
<1>4. PICK w, q : w = [kind |-> "closed", s |-> s, call |-> 0, name |-> None] /\ q = work
  OBVIOUS
<1>5. /\ w \in WorkItem /\ w.kind = "closed" /\ w.s = s /\ q \in Seq(WorkItem)
      /\ work' \in {q, Append(q, w)}
  BY <1>4, ReservationAssumption DEF WorkItem, WorkKinds, Optional, HInv, IInv, RequestsOK, SessionEnds
<1>6. PICK u : u = Append(q, w)
  OBVIOUS
<1>7. ASSUME NEW x \in Here
      PROVE  /\ \A c \in Calls : StartWaits(u, x, c) => StartWaits(q, x, c)
             /\ \A n \in Names : ExpireWaits(u, x, n) => ExpireWaits(q, x, n)
             /\ \A n \in Names, c \in Calls : InOrder(q, x, n, c) => InOrder(u, x, n, c)
             /\ EndWaits(u, x) => EndWaits(q, x) \/ x = s
  BY <1>5, <1>6, AppendedWaits
<1>8. Drains(q, u)
  BY <1>2, <1>7 DEF Drains
<1>9. Drains(work, work')
  BY <1>4, <1>5, <1>6, <1>8, DrainsNothing
<1> QED
  BY <1>1, <1>2, <1>3, <1>9, EndedTool, ToolStep

\* What other browsers do takes no name from a session of this one.
LEMMA ElsewhereCares ==
    ASSUME HInv, IInv', NEW s \in Elsewhere,
           EndElsewhere(s) \/ \E n \in Names : ReserveElsewhere(s, n) \/ PersistElsewhere(s, n)
    PROVE  HInv' /\ \A x \in Here : Survives(x)
<1>1. UNCHANGED <<rec, work, chain, pass, tool>> /\ calls \in Nat /\ calls' \in {calls, calls + 1}
  BY CallsCounted DEF EndElsewhere, ReserveElsewhere, PersistElsewhere, extensionVars, toolVars
<1>2. HubCalm
  <2>1. CASE EndElsewhere(s)
    BY <2>1, HubLetsGo DEF EndElsewhere
  <2>2. ASSUME NEW n \in Names, PersistElsewhere(s, n) PROVE HubCalm
    BY <2>2, HubLetsGo DEF PersistElsewhere
  <2>3. ASSUME NEW n \in Names, ReserveElsewhere(s, n) PROVE HubCalm
    <3>1. /\ UNCHANGED live
          /\ \A x \in Names : x # n => reservation'[x] = reservation[x]
          /\ reservation'[n].by = s
      BY <2>3 DEF ReserveElsewhere, Reserve, HInv, IInv, HubOK
    <3> QED
      BY <3>1 DEF HubCalm, Elsewhere
  <2> QED
    BY <2>1, <2>2, <2>3
<1>3. ToolsCalm
  <2>1. \A x \in Here : tool[x].call <= calls /\ tool[x].call \in Nat
    BY CallsCounted DEF HInv, IInv, ToolOK
  <2> QED
    BY <1>1, <2>1 DEF ToolsCalm
<1> QED
  BY <1>1, <1>2, <1>3, DrainsNothing, ToolStep

LEMMA InitEstablishesHInv ==
    ASSUME Init
    PROVE  HInv
<1>1. IInv
  BY InitEstablishesIInv
<1>2. ASSUME NEW s \in Here
      PROVE  Paired(rec[s]) /\ HeldOK(s) /\ StartsOK(s) /\ ExpiresOK(s) /\ EndsOK(s)
  <2>1. /\ rec[s].mem = None /\ rec[s].stored = None
        /\ work = <<>> /\ calls = 0 /\ tool[s].call = 0 /\ tool[s].at = "idle"
    BY DEF Init, NoSession, NoTool
  <2> QED
    BY <2>1 DEF Paired, HeldOK, HoldsItsName, StartsOK, StoredStart, StartWaits, ExpiresOK, ExpireWaits,
                EndsOK, EndWaits
<1> QED
  BY <1>1, <1>2 DEF HInv

LEMMA StutteringCares ==
    ASSUME HInv, IInv', UNCHANGED vars
    PROVE  HInv' /\ \A x \in Here : Survives(x)
<1>1. /\ UNCHANGED <<rec, pass, chain, work, tool, calls>> /\ UNCHANGED <<live, reservation>>
  BY DEF vars, hubVars, extensionVars, toolVars
<1> QED
  BY <1>1, HubUnchanged, ToolsUnchanged, DrainsNothing, ToolStep

LEMMA NextCares ==
    ASSUME HInv, [Next]_vars
    PROVE  HInv' /\ \A x \in Here : Survives(x)
<1>0. IInv'
  BY NextPreservesIInv DEF HInv
<1> DEFINE Goal == HInv' /\ \A x \in Here : Survives(x)
<1>1. ASSUME NEW s \in Here, NEW n \in Names, CallStart(s, n) PROVE Goal
  BY <1>0, <1>1, CallStartCares
<1>2. ASSUME NEW s \in Here,
             ReserveName(s) \/ CallStop(s) \/ StartReturns(s) \/ StopReturns(s) \/ GiveUp(s)
      PROVE  Goal
  BY <1>0, <1>2, ReserveNameCares, CallStopCares, ReturnCares
<1>3. ASSUME NEW s \in Here, RunPrepare(s) \/ RunCommit(s) \/ CleanupAlarm(s) \/ SessionEnds(s)
      PROVE  Goal
  BY <1>0, <1>3, PrepareCares, CommitCares, CleanupAlarmCares, SessionEndCares
<1>4. ASSUME NEW s \in Here, HubAnswersRenewal(s) \/ LoseRenewal(s) PROVE Goal
  BY <1>0, <1>4, RenewalAnswerCares
<1>5. ASSUME NEW i \in Items,
             RunStart(i) \/ RunStop(i) \/ HearClosed(i) \/ RunAbort(i) \/ RunExpire(i) \/ RunCleanup(i)
      PROVE  Goal
  BY <1>0, <1>5, StartCares, StopCares, HearClosedCares, AbortCares, ExpireCares, CleanupCares
<1>6. ASSUME NEW n \in Names, LapseOf(n) PROVE Goal
  BY <1>0, <1>6, LapseCares
<1>7. ASSUME NEW s \in Elsewhere,
             EndElsewhere(s) \/ \E n \in Names : ReserveElsewhere(s, n) \/ PersistElsewhere(s, n)
      PROVE  Goal
  BY <1>0, <1>7, ElsewhereCares
<1>8. CASE HubAnswersAuthority \/ HubAnswersPersist \/ LoseAnswer \/ HubTakesLatePersist
  BY <1>0, <1>8, AuthorityAnswerCares, HubStepCares
<1>9. CASE ReceiveAuthority \/ ReceivePersist \/ CopyLocally \/ FinishStopping
  BY <1>0, <1>9, ReceiveAuthorityCares, ReceivePersistCares, CopyLocallyCares, FinishStoppingCares
<1>10. CASE RunKeepalive \/ GatherRenewals \/ ApplyRenewals \/ WorkerStops
  BY <1>0, <1>10, KeepaliveCares, GatherCares, ApplyCares, WorkerStopsCares
<1>11. CASE UNCHANGED vars
  BY <1>0, <1>11, StutteringCares
<1> QED
  BY <1>1, <1>2, <1>3, <1>4, <1>5, <1>6, <1>7, <1>8, <1>9, <1>10, <1>11 DEF Next

LEMMA HInvHolds == Spec => []HInv
  BY InitEstablishesHInv, NextCares, PTL DEF Spec

\* A recording that has held its name since its start ends only by a stop of its session: no renewal
\* refused to an earlier recording, no late expiry of an earlier reservation, no restart and no
\* answer that comes late removes it, whatever fails; the one exception is a cleanup that was put on
\* the chain for an earlier recording of the session.
THEOREM HeldRecordingsAreKept == Spec => HeldRecordingsSurvive
<1>1. HInv /\ [Next]_vars => [\A s \in Here : Survives(s)]_vars
  BY NextCares
<1> QED
  BY <1>1, HInvHolds, PTL DEF Spec, HeldRecordingsSurvive, Survives
================================================================================
