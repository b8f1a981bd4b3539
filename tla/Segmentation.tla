---------------------------- MODULE Segmentation ----------------------------
(***************************************************************************)
(* What cutting a stream of frames into utterances promises, whatever      *)
(* decides where to cut: a frame is dropped only while nothing is held,    *)
(* and never an audible one; what is held leaves whole, in order, once.    *)
(***************************************************************************)
EXTENDS Sequences

CONSTANTS
    Frames,     \* the frames a caller may push, sequences of samples
    Audible     \* those that may not be dropped

VARIABLES
    pushed,     \* the frame given to the last call, <<>> for none
    held,       \* samples of the utterance that has begun
    emitted     \* the utterance the last call returned, <<>> for none

vars == <<pushed, held, emitted>>

Init == pushed = <<>> /\ held = <<>> /\ emitted = <<>>

Drop ==
    /\ held = <<>> /\ pushed' \notin Audible
    /\ held' = <<>> /\ emitted' = <<>>

Hold == held' = held \o pushed' /\ emitted' = <<>>

Emit ==
    /\ held # <<>>
    /\ held' = <<>> /\ emitted' = held \o pushed'

Push  == pushed' \in Frames /\ (Drop \/ Hold \/ Emit)
Flush == pushed' = <<>> /\ held' = <<>> /\ emitted' = held

Next == Push \/ Flush

Spec == Init /\ [][Next]_vars
=============================================================================
