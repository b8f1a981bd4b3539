------------------------------ MODULE MCDaemon ------------------------------
(***************************************************************************)
(* The daemon with two history variables: the recordings whose gate was    *)
(* ever opened, and whether a provider cooldown was ever begun.            *)
(***************************************************************************)
EXTENDS Daemon

VARIABLES opened, cooled

MCInit == Init /\ opened = {} /\ cooled = FALSE

MCNext ==
    /\ Next
    /\ opened' = IF recording_session'.phase = "Active"
                 THEN opened \cup {recording_session'.id} ELSE opened
    /\ cooled' = (cooled \/ (w_pc = "cooldown" /\ w_pc' # "cooldown"))

MCSpec == MCInit /\ [][MCNext]_<<vars, opened, cooled>>

\* Audio exists only of recordings whose gate was opened: an utterance cancelled
\* before its gate is never captured, buffered or sent to the provider (AC 12).
CancelledIsNeverCaptured ==
    \A a \in ptt_buffer \cup vad \cup job.audio : a.id \in opened

\* Apart from provider cooldowns, every way a recording ends resumes its players.
PauseLeftBehindOnlyByCooldown == NoPauseLeftBehind \/ cooled
=============================================================================
