------------------------- MODULE MCRecordingDelivery -------------------------
(* Model-checking instance of RecordingDelivery: this browser records in one *)
(* session, another browser in another, under one name.                      *)
EXTENDS RecordingDelivery

CONSTANTS s1, s2
MCSessions == {s1, s2}
MCHere == {s1}
MCNames == {"n"}
==============================================================================
