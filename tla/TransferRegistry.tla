--------------------------- MODULE TransferRegistry ---------------------------
(***************************************************************************)
(* The files on their way from an extension to the hub:                    *)
(* server/src/transfers/registry.ts, with landing.ts.                      *)
(*                                                                         *)
(* The registry is passive and every call of it is one step of the hub's   *)
(* event loop: this module has its state and what its calls do to it, and  *)
(* ToolProxy has the steps that make the calls.  A transfer is named by    *)
(* the request that expects it (the tool draws a random transferId for     *)
(* each request).                                                          *)
(***************************************************************************)
EXTENDS Naturals, Sequences, FiniteSets

CONSTANTS
    Requests, Fetches,      \* the calls of the clients; those that expect a file
    SessionOf,              \* SessionOf[r]: the session that makes call r
    TotalChunks,            \* chunks of a file
    MaxActive               \* MAX_ACTIVE_TRANSFERS_PER_SESSION

ASSUME RegistryAssumption ==
    /\ IsFiniteSet(Requests) /\ Fetches \subseteq Requests
    /\ DOMAIN SessionOf = Requests
    /\ TotalChunks \in Nat \ {0} /\ MaxActive \in Nat

VARIABLES
    expected,     \* the transfers under way (`entries`)
    nextSeq,      \* nextSeq[t]: chunks of t that have been written
    staged,       \* transfers with a .part file
    landed,       \* transfers whose file is in the downloads directory
    disposed

registryVars == <<expected, nextSeq, staged, landed, disposed>>

RegistryInit ==
    /\ expected = {} /\ staged = {} /\ landed = {}
    /\ nextSeq = [t \in Fetches |-> 0]
    /\ disposed = FALSE

ExpectedOf(s) == {t \in expected : SessionOf[t] = s}

\* expect refuses a transfer when the registry is disposed of or the session has its two.
Accepts(t) == ~ disposed /\ Cardinality(ExpectedOf(SessionOf[t])) < MaxActive

Expect(t) ==
    /\ expected' = expected \cup {t}
    /\ UNCHANGED <<nextSeq, staged, landed, disposed>>

Remaining_AfterFailedWrite(T) == expected

\* The entries that settling the transfers T leaves.
Remaining(T) == expected \ T

\* settle, for a failure: the entry and the part file go.
Drop(T) ==
    /\ expected' = Remaining(T)
    /\ staged' = staged \ T
    /\ UNCHANGED <<nextSeq, landed>>

Verdict_AnySocket(t, seq, expectedHere) ==
    IF t \notin expected THEN "unknown"
    ELSE IF seq # nextSeq[t] THEN "violation"
    ELSE IF seq + 1 = TotalChunks THEN "last"
    ELSE "next"

\* What ingestChunk makes of chunk seq of t; expectedHere says whether it has come over the
\* socket the request was forwarded to.
Verdict(t, seq, expectedHere) ==
    IF t \notin expected THEN "unknown"
    ELSE IF ~ expectedHere \/ seq # nextSeq[t] THEN "violation"
    ELSE IF seq + 1 = TotalChunks THEN "last"
    ELSE "next"

Ingest(t) == nextSeq' = [nextSeq EXCEPT ![t] = @ + 1]

WriteChunk(t) ==
    /\ Ingest(t)
    /\ staged' = staged \cup {t}
    /\ UNCHANGED <<expected, landed, disposed>>

\* completeTransfer: the part file is renamed and the transfer settled.  (A failure after the
\* rename takes someone else who replaces the file, and is left out.)
Land(t) ==
    /\ Ingest(t)
    /\ landed' = landed \cup {t}
    /\ expected' = Remaining({t})
    /\ staged' = staged \ {t}
    /\ UNCHANGED disposed

\* completeTransfer, when the file is not what its hash says or cannot be moved: the transfer
\* fails, but nothing is thrown, and the last chunk counts as ingested.
DropWhole(t) ==
    /\ Ingest(t)
    /\ expected' = Remaining({t})
    /\ staged' = staged \ {t}
    /\ UNCHANGED <<landed, disposed>>

RegistryTypeOK ==
    /\ expected \in SUBSET Fetches /\ staged \in SUBSET Fetches /\ landed \in SUBSET Fetches
    /\ nextSeq \in [Fetches -> 0..TotalChunks]
    /\ disposed \in BOOLEAN
=============================================================================
