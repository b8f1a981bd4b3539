------------------------- MODULE PlaybackCoordinator -------------------------
(***************************************************************************)
(* PlaybackCoordinator and the PlaybackController it drives                *)
(* (crates/sttd/src/playback.rs).  The coordinator holds its mutex for the *)
(* whole of a call, so at most one pass over the players runs at a time;   *)
(* within a pass one playerctl process per player runs concurrently, and   *)
(* each may fail or time out before or after it reached its player.        *)
(***************************************************************************)
EXTENDS Integers, FiniteSets

CONSTANTS
    Players,            \* MPRIS players
    PlaybackEnabled,    \* playback.enabled
    MaxSessions         \* recordings the caller may begin

ASSUME EnabledAssumption == PlaybackEnabled \in BOOLEAN
ASSUME SessionsAssumption == MaxSessions \in Nat

NoOwner == 0            \* session ids start at 1

VARIABLES
    player,             \* what each player does (outside sttd)
    active_session_id,  \* CoordinatorState, NoOwner for None
    paused_players,
    pass                \* the run_player_action in progress

coordinatorVars == <<active_session_id, paused_players>>
playbackVars    == <<player, active_session_id, paused_players, pass>>

NoPass == [action |-> "none", session |-> NoOwner, waiting |-> {}, succeeded |-> {}]
Pass   == {r \in [action: {"pause", "play"}, session: 0 .. MaxSessions,
                  waiting: SUBSET Players, succeeded: SUBSET Players] :
              r.waiting \cap r.succeeded = {}}

PlaybackInit ==
    /\ player \in [Players -> {"Playing", "Paused"}]
    /\ active_session_id = NoOwner
    /\ paused_players = {}
    /\ pass = NoPass

PassDone == pass.action # "none" /\ pass.waiting = {}

-----------------------------------------------------------------------------
(* on_recording_started *)

\* The call returns at once for the recording that already owns the pause.
AlreadyStarted(id) == pass = NoPass /\ active_session_id = id

\* enumerate_playing_players: a status query may fail, so any of the playing
\* players may be missed, and all are when playback is disabled.
FoundPlaying == IF PlaybackEnabled
                THEN SUBSET {p \in Players : player[p] = "Playing"} ELSE {{}}

\* Ownership left by an earlier recording is discarded, its players not resumed.
BeginPausePass(id) ==
    /\ pass = NoPass
    /\ active_session_id # id
    /\ active_session_id' = NoOwner
    /\ paused_players' = {}
    /\ \E found \in FoundPlaying :
          pass' = [action |-> "pause", session |-> id, waiting |-> found, succeeded |-> {}]
    /\ UNCHANGED player

\* pause_current_playback returned: its successes are what the session owns.
EndPausePass ==
    /\ PassDone /\ pass.action = "pause"
    /\ active_session_id' = pass.session
    /\ paused_players' = pass.succeeded
    /\ pass' = NoPass
    /\ UNCHANGED player

-----------------------------------------------------------------------------
(* on_recording_stopped and on_shutdown *)

NotOwner(id) == pass = NoPass /\ active_session_id # id

KeepPausedPlayers ==
    /\ pass' = [action |-> "play", session |-> active_session_id,
                waiting |-> IF PlaybackEnabled THEN paused_players ELSE {},
                succeeded |-> {}]
    /\ active_session_id' = NoOwner
    /\ UNCHANGED <<paused_players, player>>

TakeOwnership ==
    /\ pass' = [action |-> "play", session |-> active_session_id,
                waiting |-> IF PlaybackEnabled THEN paused_players ELSE {},
                succeeded |-> {}]
    /\ active_session_id' = NoOwner
    /\ paused_players' = {}
    /\ UNCHANGED player

BeginResumePass(id) == pass = NoPass /\ active_session_id = id /\ TakeOwnership

BeginShutdownPass == pass = NoPass /\ TakeOwnership

EndResumePass ==
    /\ PassDone /\ pass.action = "play"
    /\ pass' = NoPass
    /\ UNCHANGED <<coordinatorVars, player>>

-----------------------------------------------------------------------------
(* One playerctl process of the pass ends. *)

Reached(p) == player' = [player EXCEPT ![p] = IF pass.action = "pause" THEN "Paused"
                                              ELSE "Playing"]

CountFailures(p) ==
    /\ p \in pass.waiting
    /\ \/ pass' = [pass EXCEPT !.waiting = @ \ {p}, !.succeeded = @ \cup {p}] /\ Reached(p)
       \/ pass' = [pass EXCEPT !.waiting = @ \ {p}, !.succeeded = @ \cup {p}]
          /\ UNCHANGED player
    /\ UNCHANGED coordinatorVars

PlayerCommandEnds(p) ==
    /\ p \in pass.waiting
    /\ \/ /\ pass' = [pass EXCEPT !.waiting = @ \ {p}, !.succeeded = @ \cup {p}]
          /\ Reached(p)
       \/ /\ pass' = [pass EXCEPT !.waiting = @ \ {p}]
          /\ Reached(p)                 \* timed out after the player obeyed
       \/ /\ pass' = [pass EXCEPT !.waiting = @ \ {p}]
          /\ UNCHANGED player
    /\ UNCHANGED coordinatorVars

\* The user's own player controls.
UserControls(p) ==
    /\ player' = [player EXCEPT ![p] = IF @ = "Playing" THEN "Paused" ELSE "Playing"]
    /\ UNCHANGED <<coordinatorVars, pass>>

PlaybackTypeOK ==
    /\ player \in [Players -> {"Playing", "Paused"}]
    /\ active_session_id \in 0 .. MaxSessions
    /\ paused_players \subseteq Players
    /\ pass \in Pass \cup {NoPass}

\* Players are remembered only under an owner, or they could never be resumed.
PausedOnlyUnderOwner == paused_players # {} => active_session_id # NoOwner
=============================================================================
