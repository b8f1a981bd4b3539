------------------------- MODULE RecordingLifecycle -------------------------
(***************************************************************************)
(* What sttd promises about recordings, whatever the mode: a recording is  *)
(* requested, its capture gate may open, and it ends once and for good.    *)
(* At most one recording is live at a time and ids are given in order.     *)
(***************************************************************************)
EXTENDS Integers

CONSTANT MaxSessions

VARIABLE phase      \* phase[i]: how far recording i has come

SessionId == 1 .. MaxSessions

Live(i) == phase[i] \in {"requested", "open"}

Init == phase = [i \in SessionId |-> "unused"]

Request(i) ==
    /\ phase[i] = "unused"
    /\ \A j \in SessionId : ~Live(j) /\ (j < i => phase[j] # "unused")
    /\ phase' = [phase EXCEPT ![i] = "requested"]

Open(i) ==
    /\ phase[i] = "requested"
    /\ phase' = [phase EXCEPT ![i] = "open"]

End(i) ==
    /\ Live(i)
    /\ phase' = [phase EXCEPT ![i] = "ended"]

Next == \E i \in SessionId : Request(i) \/ Open(i) \/ End(i)

Spec == Init /\ [][Next]_phase
=============================================================================
