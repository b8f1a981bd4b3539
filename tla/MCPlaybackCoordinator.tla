------------------------ MODULE MCPlaybackCoordinator ------------------------
(***************************************************************************)
(* The playback coordinator under any serial caller: starts with fresh or  *)
(* repeated ids, stops of any id, a shutdown; and a user who works the     *)
(* same players meanwhile.                                                 *)
(***************************************************************************)
EXTENDS PlaybackCoordinator

VARIABLE pausedFor      \* pausedFor[p]: the recording whose pause command p obeyed,
                        \* NoOwner once a play command for it was issued

vars == <<playbackVars, pausedFor>>

Init == PlaybackInit /\ pausedFor = [p \in Players |-> NoOwner]

Start == \E id \in 1 .. MaxSessions :
            (AlreadyStarted(id) /\ UNCHANGED playbackVars) \/ BeginPausePass(id)
Stop  == \E id \in 1 .. MaxSessions :
            (NotOwner(id) /\ UNCHANGED playbackVars) \/ BeginResumePass(id)

Call ==
    /\ Start \/ Stop \/ BeginShutdownPass
    /\ pausedFor' = [p \in Players |->
                        IF pass'.action = "play" /\ p \in pass'.waiting THEN NoOwner
                        ELSE pausedFor[p]]

CommandEnds ==
    \E p \in Players :
        /\ PlayerCommandEnds(p)
        /\ pausedFor' = IF pass.action = "pause" /\ player'[p] = "Paused"
                        THEN [pausedFor EXCEPT ![p] = pass.session] ELSE pausedFor

PassEnds == (EndPausePass \/ EndResumePass) /\ UNCHANGED pausedFor

User == \E p \in Players : UserControls(p) /\ UNCHANGED pausedFor

Next == Call \/ CommandEnds \/ PassEnds \/ User
Spec == Init /\ [][Next]_vars

\* A play command is issued only for players that obeyed a pause command of the very
\* recording whose pause is being undone, and at most once per pause: media that was
\* already stopped, or that a failed command left alone, is never started.
OnlyOwnPausesResumed ==
    [][pass'.action = "play" /\ pass.action # "play" =>
          \A p \in pass'.waiting :
             pausedFor[p] # NoOwner /\ pausedFor[p] = pass'.session]_vars
=============================================================================
