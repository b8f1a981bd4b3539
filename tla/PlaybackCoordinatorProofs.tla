---------------------- MODULE PlaybackCoordinatorProofs ----------------------
(***************************************************************************)
(* Proofs about the playback coordinator for any set of players, any       *)
(* number of recordings and any serial caller.                             *)
(***************************************************************************)
EXTENDS MCPlaybackCoordinator, TLAPS

\* What sttd believes agrees with what it did: the players it tracks obeyed a pause
\* command of the owning recording, and so did those that have succeeded so far in a
\* pause pass, which begins with nothing tracked.
TrackedObeyed ==
    /\ pausedFor \in [Players -> 0 .. MaxSessions]
    /\ \A p \in paused_players : pausedFor[p] = active_session_id
    /\ pass.action = "pause" =>
          /\ paused_players = {}
          /\ pass.session # NoOwner
          /\ \A p \in pass.succeeded : pausedFor[p] = pass.session

IInv == PlaybackTypeOK /\ PausedOnlyUnderOwner /\ TrackedObeyed

\* A pause pass begins with nothing tracked and nobody reached.
LEMMA BeginPausePassOK ==
  ASSUME IInv, NEW id \in 1 .. MaxSessions, BeginPausePass(id),
         UNCHANGED pausedFor
  PROVE  IInv'
<1> USE SessionsAssumption DEF IInv, BeginPausePass, NoOwner
<1>1. PICK found \in FoundPlaying :
         pass' = [action |-> "pause", session |-> id, waiting |-> found, succeeded |-> {}]
  OBVIOUS
<1>2. found \subseteq Players
  BY DEF FoundPlaying
<1>3. PlaybackTypeOK'
  BY <1>1, <1>2 DEF PlaybackTypeOK, Pass
<1>4. PausedOnlyUnderOwner' /\ TrackedObeyed'
  BY <1>1 DEF PausedOnlyUnderOwner, TrackedObeyed
<1> QED
  BY <1>3, <1>4

\* Taking the ownership leaves nothing tracked, whatever becomes of the history.
LEMMA TakeOwnershipOK ==
  ASSUME IInv, TakeOwnership, pausedFor' \in [Players -> 0 .. MaxSessions]
  PROVE  IInv'
<1> USE SessionsAssumption DEF IInv, TakeOwnership, NoOwner
<1>1. PlaybackTypeOK'
  BY DEF PlaybackTypeOK, Pass
<1>2. PausedOnlyUnderOwner' /\ TrackedObeyed'
  BY DEF PausedOnlyUnderOwner, TrackedObeyed
<1> QED
  BY <1>1, <1>2

\* A call by the serial caller.
LEMMA CallOK ==
  ASSUME IInv, Call
  PROVE  IInv'
<1>1. /\ pausedFor \in [Players -> 0 .. MaxSessions]
      /\ pausedFor' \in [Players -> 0 .. MaxSessions]
  BY SessionsAssumption DEF Call, IInv, TrackedObeyed, NoOwner
<1>2. pass'.action # "play" => pausedFor' = pausedFor
  BY <1>1 DEF Call
<1>3. CASE UNCHANGED playbackVars /\ pass = NoPass
  BY <1>1, <1>2, <1>3 DEF playbackVars, NoPass, IInv, PlaybackTypeOK,
                          PausedOnlyUnderOwner, TrackedObeyed
<1>4. CASE \E id \in 1 .. MaxSessions : BeginPausePass(id)
  <2>1. pass'.action = "pause"
    BY <1>4 DEF BeginPausePass
  <2> QED
    BY <1>2, <1>4, <2>1, BeginPausePassOK
<1>5. CASE TakeOwnership
  BY <1>1, <1>5, TakeOwnershipOK
<1> QED
  BY <1>3, <1>4, <1>5 DEF Call, Start, Stop, AlreadyStarted, NotOwner, BeginResumePass,
                          BeginShutdownPass

\* A player command ends: only a player that obeyed the pause joins the successes.
LEMMA CommandEndsOK ==
  ASSUME IInv, CommandEnds
  PROVE  IInv'
<1>1. PICK p \in Players :
         /\ PlayerCommandEnds(p)
         /\ pausedFor' = IF pass.action = "pause" /\ player'[p] = "Paused"
                         THEN [pausedFor EXCEPT ![p] = pass.session] ELSE pausedFor
  BY DEF CommandEnds
<1>2. /\ p \in pass.waiting
      /\ pass \in Pass
      /\ player' \in [Players -> {"Playing", "Paused"}]
      /\ UNCHANGED <<active_session_id, paused_players>>
  BY <1>1 DEF PlayerCommandEnds, Reached, coordinatorVars, IInv, PlaybackTypeOK, NoPass
<1>3. \/ /\ pass' = [pass EXCEPT !.waiting = @ \ {p}, !.succeeded = @ \cup {p}]
         /\ pass.action = "pause" => player'[p] = "Paused"
      \/ pass' = [pass EXCEPT !.waiting = @ \ {p}]
  BY <1>1 DEF PlayerCommandEnds, Reached, IInv, PlaybackTypeOK
<1>4. /\ pass'.action = pass.action /\ pass'.session = pass.session
      /\ pass'.waiting = pass.waiting \ {p}
      /\ \/ pass'.succeeded = pass.succeeded
         \/ /\ pass'.succeeded = pass.succeeded \cup {p}
            /\ pass.action = "pause" => player'[p] = "Paused"
      /\ pass' \in [action: {"pause", "play"}, session: 0 .. MaxSessions,
                    waiting: SUBSET Players, succeeded: SUBSET Players]
  <2>1. CASE pass' = [pass EXCEPT !.waiting = @ \ {p}]
    BY <1>2, <2>1 DEF Pass
  <2>2. CASE /\ pass' = [pass EXCEPT !.waiting = @ \ {p}, !.succeeded = @ \cup {p}]
             /\ pass.action = "pause" => player'[p] = "Paused"
    <3>1. pass' = [action |-> pass.action, session |-> pass.session,
                   waiting |-> pass.waiting \ {p}, succeeded |-> pass.succeeded \cup {p}]
      BY <1>2, <2>2 DEF Pass
    <3> QED
      BY <1>2, <2>2, <3>1 DEF Pass
  <2> QED
    BY <1>3, <2>1, <2>2
<1>5. PlaybackTypeOK'
  BY <1>2, <1>4 DEF IInv, PlaybackTypeOK, Pass
<1>6. TrackedObeyed'
  <2>1. pausedFor' \in [Players -> 0 .. MaxSessions]
    BY <1>1, <1>2 DEF IInv, TrackedObeyed, Pass
  <2>2. CASE pass.action = "pause"
    <3>1. /\ pass'.action = "pause" /\ pass'.session = pass.session
          /\ paused_players' = {} /\ pass.session # NoOwner
          /\ \A q \in pass'.succeeded : q \in pass.succeeded \/ (q = p /\ player'[p] = "Paused")
      BY <1>2, <1>4, <2>2 DEF IInv, TrackedObeyed
    <3>2. \A q \in pass'.succeeded : pausedFor'[q] = pass.session
      BY <1>1, <1>2, <2>2, <3>1 DEF Pass, IInv, TrackedObeyed
    <3> QED
      BY <2>1, <3>1, <3>2 DEF TrackedObeyed
  <2>3. CASE pass.action # "pause"
    <3>1. pausedFor' = pausedFor /\ pass'.action = pass.action
      BY <1>1, <1>4, <2>3
    <3> QED
      BY <1>2, <2>1, <2>3, <3>1 DEF IInv, TrackedObeyed
  <2> QED
    BY <2>2, <2>3
<1> QED
  BY <1>2, <1>5, <1>6 DEF IInv, PausedOnlyUnderOwner

\* The end of a pass hands over what its successes, and only they, have earned.
LEMMA PassEndsOK ==
  ASSUME IInv, PassEnds
  PROVE  IInv'
<1> USE SessionsAssumption DEF IInv, NoOwner
<1>1. CASE EndPausePass /\ UNCHANGED pausedFor
  <2>1. /\ pass \in Pass /\ pass.action = "pause" /\ pass' = NoPass
        /\ active_session_id' = pass.session /\ paused_players' = pass.succeeded
        /\ UNCHANGED player
    BY <1>1 DEF EndPausePass, PassDone, PlaybackTypeOK, NoPass
  <2> QED
    BY <1>1, <2>1 DEF PlaybackTypeOK, Pass, NoPass, PausedOnlyUnderOwner, TrackedObeyed
<1>2. CASE EndResumePass /\ UNCHANGED pausedFor
  BY <1>2 DEF EndResumePass, coordinatorVars, PlaybackTypeOK, NoPass,
              PausedOnlyUnderOwner, TrackedObeyed
<1> QED
  BY <1>1, <1>2 DEF PassEnds

\* The user's controls touch only the players.
LEMMA UserOK ==
  ASSUME IInv, User
  PROVE  IInv'
BY DEF User, UserControls, coordinatorVars, IInv, PlaybackTypeOK, PausedOnlyUnderOwner,
       TrackedObeyed

\* The coordinator keeps its invariant under every caller and every failure.
THEOREM Inductive == Spec => []IInv
<1>1. Init => IInv
  BY SessionsAssumption DEF Init, PlaybackInit, IInv, PlaybackTypeOK, NoPass, NoOwner,
                            PausedOnlyUnderOwner, TrackedObeyed
<1>2. ASSUME IInv, [Next]_vars
      PROVE  IInv'
  <2>1. CASE Next
    BY <1>2, <2>1, CallOK, CommandEndsOK, PassEndsOK, UserOK DEF Next
  <2>2. CASE UNCHANGED vars
    BY <1>2, <2>2 DEF vars, playbackVars, IInv, PlaybackTypeOK, PausedOnlyUnderOwner,
                      TrackedObeyed
  <2> QED
    BY <1>2, <2>1, <2>2
<1> QED
  BY <1>1, <1>2, PTL DEF Spec

\* Players are tracked only under an owner, so the stop of a recording finds them.
THEOREM TrackedUnderOwner == Spec => []PausedOnlyUnderOwner
BY Inductive, PTL DEF IInv

\* Media that no pause command of the ending recording stopped is never started.
THEOREM ResumesOnlyOwn == Spec => OnlyOwnPausesResumed
<1>1. ASSUME IInv, [Next]_vars
      PROVE  [pass'.action = "play" /\ pass.action # "play" =>
                \A p \in pass'.waiting :
                   pausedFor[p] # NoOwner /\ pausedFor[p] = pass'.session]_vars
  <2> SUFFICES ASSUME pass'.action = "play", pass.action # "play"
               PROVE  \A p \in pass'.waiting :
                         pausedFor[p] # NoOwner /\ pausedFor[p] = pass'.session
    OBVIOUS
  <2>1. TakeOwnership
    <3>1. CASE Call
      BY <3>1 DEF Call, Start, Stop, AlreadyStarted, NotOwner, BeginResumePass,
                  BeginShutdownPass, BeginPausePass, playbackVars
    <3>2. CASE CommandEnds
      BY <1>1, <3>2 DEF CommandEnds, PlayerCommandEnds, IInv, PlaybackTypeOK, Pass, NoPass
    <3>3. CASE PassEnds \/ User \/ UNCHANGED vars
      BY <3>3 DEF PassEnds, EndPausePass, EndResumePass, NoPass, User, UserControls,
                  vars, playbackVars
    <3> QED
      BY <1>1, <3>1, <3>2, <3>3 DEF Next
  <2> QED
    BY <1>1, <2>1 DEF TakeOwnership, IInv, PausedOnlyUnderOwner, TrackedObeyed
<1> QED
  BY <1>1, Inductive, PTL DEF Spec, OnlyOwnPausesResumed
=============================================================================
