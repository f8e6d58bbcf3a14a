------------------------- MODULE RecordingReservations -------------------------
(***************************************************************************)
(* What the hub keeps about recordings: the reservation of a name          *)
(* (state-manager.ts), the retry registry, and the directory of finished   *)
(* recordings (saveRecordingToFile of tools/record.ts), with the two       *)
(* requests of the extension, renewRecordingReservation and                *)
(* persistRecording (ws-server.ts).                                        *)
(*                                                                         *)
(* A recording is its name, the call that started it, and how many steps   *)
(* it has: two recordings with the same three have the same JSON text.     *)
(***************************************************************************)
EXTENDS Naturals, FiniteSets, Sequences

CONSTANTS
    Sessions, Names,
    None,        \* no value
    Torn,        \* a file whose write failed and whose removal failed too
    MaxSteps,    \* bound: steps of a recording
    MaxCalls     \* bound: calls of browser_record_start and browser_record_stop

VARIABLES
    live,          \* sessions with a live registration (hasLiveSession)
    reservation,   \* recordingReservations: by name, who holds it, and since which start
    retained,      \* RecordingRetryRegistry: by session, the recording kept for a retry
    files          \* the recordings directory

hubVars == <<live, reservation, retained, files>>

Calls == 1..MaxCalls
Recording == [name : Names, start : Calls, steps : 0..MaxSteps]
Reservation == [by : Sessions, start : Calls]

ASSUME ReservationAssumption ==
    /\ MaxSteps \in Nat /\ MaxCalls \in Nat
    /\ None \notin Sessions \cup Names \cup {Torn} \cup Recording \cup Reservation

ReservationsInit ==
    /\ live = Sessions
    /\ reservation = [n \in Names |-> None]
    /\ retained = [s \in Sessions |-> None]
    /\ files = [n \in Names |-> None]

(* hasRecordingReservation; a name that lapsed is gone by then, see Lapse. *)
Holds(s, n) == reservation[n] # None /\ reservation[n].by = s

(* clearTerminated, the listener of every termination. *)
RetainedWithout(s, n) ==
    IF retained[s] # None /\ retained[s].name = n THEN [retained EXCEPT ![s] = None] ELSE retained

Terminate(n) ==
    /\ reservation' = [reservation EXCEPT ![n] = None]
    /\ retained' = RetainedWithout(reservation[n].by, n)

Reserve(s, n, call) ==
    /\ reservation[n] = None
    /\ reservation' = [reservation EXCEPT ![n] = [by |-> s, start |-> call]]
    /\ UNCHANGED <<live, retained, files>>

(* releaseRecordingReservation *)
Release(s, n) ==
    /\ IF n # None /\ Holds(s, n) THEN Terminate(n) ELSE UNCHANGED <<reservation, retained>>
    /\ UNCHANGED <<live, files>>

(* The lease runs out. *)
Lapse(n) ==
    /\ reservation[n] # None
    /\ Terminate(n)
    /\ UNCHANGED <<live, files>>

(* The finalizer of a session, seen from here. *)
EndSession(s) ==
    /\ s \in live
    /\ live' = live \ {s}
    /\ reservation' = [n \in Names |-> IF Holds(s, n) THEN None ELSE reservation[n]]
    /\ retained' = [retained EXCEPT ![s] = None]
    /\ UNCHANGED files

(* renewRecordingReservation: the answer; the new lease is not state here, *)
(* as a lease may run out at any time.                                     *)
Renews(s, n) == s \in live /\ Holds(s, n)

CanRetain(s, r) == retained[s] \in {None, r}

(* persistRecording of session s is let in: it is live, holds the name,    *)
(* and does not come with another payload than the one kept for a retry.   *)
MayPersist(s, r) == s \in live /\ Holds(s, r.name) /\ CanRetain(s, r)

MayWrite_Overwrites(r) == TRUE   \* a mutant: "w" in place of "wx"

(* openSync "wx", then either a new file or the comparison with the old.   *)
MayWrite(r) == files[r.name] \in {None, r}

(* The outcomes of saveRecordingToFile when it may write: the file is on   *)
(* disk, it is there but its directory could not be synced, the write (or  *)
(* the comparison with the old) failed and a new file is removed again, or *)
(* not even that.                                                          *)
Outcomes(r) ==
    {"saved", "unsynced", "failed"} \cup (IF files[r.name] = None THEN {"torn"} ELSE {})

FileAfter(r, outcome) ==
    CASE outcome \in {"saved", "unsynced"} -> r
      [] outcome = "failed" -> files[r.name]
      [] outcome = "torn" -> Torn

(* The task of persistRecording, with its answer. *)
Persist(s, r, outcome, yes) ==
    /\ yes = (MayPersist(s, r) /\ MayWrite(r) /\ outcome = "saved")
    /\ IF MayPersist(s, r) /\ MayWrite(r)
       THEN /\ outcome \in Outcomes(r)
            /\ files' = [files EXCEPT ![r.name] = FileAfter(r, outcome)]
            /\ CASE outcome = "saved" -> Terminate(r.name)
                 [] outcome = "unsynced" -> /\ retained' = [retained EXCEPT ![s] = r]
                                            /\ UNCHANGED reservation
                 [] OTHER -> UNCHANGED <<reservation, retained>>
       ELSE outcome = "saved" /\ UNCHANGED <<reservation, retained, files>>
    /\ UNCHANGED live
================================================================================
