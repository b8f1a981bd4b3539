------------------------------- MODULE Output -------------------------------
(***************************************************************************)
(* Injector::inject (injection/mod.rs) and its two callers, which do not   *)
(* wait for each other: the worker with each new transcript, and the IPC   *)
(* server with the retained one.  wtype and wl-copy are processes that may *)
(* fail before or after they did what they were asked.                     *)
(*                                                                         *)
(* A transcript is known by its number in the order of the worker; 0 is    *)
(* none.  The replay is refused unless the daemon is Idle, which it may be *)
(* while the worker still has an utterance of a continuous recording, so   *)
(* no order of the two callers is excluded here.                           *)
(***************************************************************************)
EXTENDS Integers

CONSTANT MaxTexts       \* bound: transcripts in one life of the daemon

ASSUME TextsAssumption == MaxTexts \in Nat

VARIABLES
    output_mode,            \* injection.output_mode
    wtype, wl_copy,         \* whether the two commands are installed
    stage,                  \* the command each caller awaits, "idle" when it awaits none
    text,                   \* what each caller was given to insert
    result,                 \* how its last call ended
    clipboard,              \* the transcript on the clipboard
    shown,                  \* what the window was sent by each caller's last call
    handed,                 \* transcripts the worker has received
    retained,               \* last_transcript, for a replay
    delivered,              \* how often each transcript was reported as delivered
    failed,                 \* transcripts some call failed for
    alone                   \* whether no other call overlaps the caller's last one

setup == <<output_mode, wtype, wl_copy>>
history == <<handed, delivered, failed>>
outputVars == <<setup, stage, text, result, clipboard, shown, retained, history, alone>>

Callers == {"worker", "replay"}
Texts   == 1 .. MaxTexts
NoText  == 0

Other(c) == IF c = "worker" THEN "replay" ELSE "worker"

Stages  == {"idle", "wtype", "copy", "paste"}
Results == {"none", "inserted", "requires_manual_paste", "BackendUnavailable", "BackendFailed"}
Errors  == {"BackendUnavailable", "BackendFailed"}

OutputInit ==
    /\ output_mode \in {"type", "clipboard", "clipboard_autopaste"}
    /\ wtype \in BOOLEAN /\ wl_copy \in BOOLEAN
    /\ stage = [c \in Callers |-> "idle"] /\ result = [c \in Callers |-> "none"]
    /\ text = [c \in Callers |-> NoText] /\ shown = [c \in Callers |-> NoText]
    /\ alone = [c \in Callers |-> TRUE]
    /\ clipboard = NoText /\ retained = NoText
    /\ handed = 0 /\ delivered = [t \in Texts |-> 0] /\ failed = {}

-----------------------------------------------------------------------------
(* The end of a call, and what its caller does with the result *)

\* record_output_failure keeps the newest transcript; a replay that failed puts its own
\* back only if there is none (restore_last_transcript_if_absent).
RestoredNever(c) == IF c = "worker" THEN text[c] ELSE retained
RetainedAfterFailure(c) ==
    IF c = "worker" \/ retained = NoText THEN text[c] ELSE retained

Fails(c, error) ==
    /\ stage' = [stage EXCEPT ![c] = "idle"]
    /\ result' = [result EXCEPT ![c] = error]
    /\ retained' = RetainedAfterFailure(c)
    /\ failed' = failed \cup {text[c]}
    /\ UNCHANGED <<handed, delivered>>

Succeeds(c, how) ==
    /\ stage' = [stage EXCEPT ![c] = "idle"]
    /\ result' = [result EXCEPT ![c] = how]
    /\ delivered' = [delivered EXCEPT ![text[c]] = @ + 1]
    /\ UNCHANGED <<handed, failed, retained>>

GoesOn(c, next) ==
    /\ stage' = [stage EXCEPT ![c] = next]
    /\ UNCHANGED <<result, retained, history>>

-----------------------------------------------------------------------------
(* The start of a call *)

\* The first command of the mode; "none" when neither of type mode is installed.
FirstCommand ==
    IF output_mode # "type" \/ (~wtype /\ wl_copy) THEN "copy"
    ELSE IF wtype THEN "wtype" ELSE "none"

Begins(c, t) ==
    /\ stage[c] = "idle"
    /\ text' = [text EXCEPT ![c] = t] /\ shown' = [shown EXCEPT ![c] = NoText]
    /\ IF FirstCommand # "none"
       THEN /\ stage' = [stage EXCEPT ![c] = FirstCommand]
            /\ alone' = [d \in Callers |-> stage[Other(c)] = "idle" /\ (d = c \/ alone[d])]
            /\ UNCHANGED <<result, failed>>
       ELSE /\ result' = [result EXCEPT ![c] = "BackendUnavailable"]
            /\ failed' = failed \cup {t}
            /\ UNCHANGED <<stage, alone>>
    /\ UNCHANGED <<setup, clipboard, delivered>>

WorkerInjects ==
    /\ handed < MaxTexts
    /\ handed' = handed + 1
    /\ Begins("worker", handed')
    /\ retained' = IF FirstCommand = "none" THEN handed' ELSE retained

TakenTranscript == IF FirstCommand = "none" THEN retained ELSE NoText

\* take_last_transcript; without a backend it is back before anyone can look.
ReplayInjects ==
    /\ retained # NoText
    /\ Begins("replay", retained)
    /\ retained' = TakenTranscript
    /\ UNCHANGED handed

-----------------------------------------------------------------------------
(* The commands: each may do its work or not before it fails *)

Types(c) ==
    /\ stage[c] = "wtype"
    /\ \/ Succeeds(c, "inserted") /\ shown' = [shown EXCEPT ![c] = text[c]]
       \/ /\ shown' \in {shown, [shown EXCEPT ![c] = text[c]]}
          /\ IF wl_copy THEN GoesOn(c, "copy") ELSE Fails(c, "BackendUnavailable")
    /\ UNCHANGED <<setup, text, clipboard, alone>>

AfterFailedCopyPastes(c) ==
    IF output_mode = "clipboard_autopaste" THEN GoesOn(c, "paste") ELSE Fails(c, "BackendFailed")
AfterFailedCopy(c) == Fails(c, "BackendFailed")

Copies(c) ==
    /\ stage[c] = "copy"
    /\ \/ /\ wl_copy /\ clipboard' = text[c]
          /\ IF output_mode = "clipboard_autopaste"
             THEN GoesOn(c, "paste") ELSE Succeeds(c, "requires_manual_paste")
       \/ /\ clipboard' = clipboard \/ (wl_copy /\ clipboard' = text[c])
          /\ AfterFailedCopy(c)
    /\ UNCHANGED <<setup, text, shown, alone>>

\* The keys paste what is on the clipboard by then.
Pastes(c) ==
    /\ stage[c] = "paste"
    /\ \/ wtype /\ Succeeds(c, "inserted") /\ shown' = [shown EXCEPT ![c] = clipboard]
       \/ /\ shown' = shown \/ (wtype /\ shown' = [shown EXCEPT ![c] = clipboard])
          /\ Fails(c, "BackendFailed")
    /\ UNCHANGED <<setup, text, clipboard, alone>>

\* The bound is reached and nothing is left to insert.
Rests ==
    /\ handed = MaxTexts /\ retained = NoText /\ \A c \in Callers : stage[c] = "idle"
    /\ UNCHANGED outputVars

OutputNext ==
    \/ WorkerInjects \/ ReplayInjects \/ Rests
    \/ \E c \in Callers : Types(c) \/ Copies(c) \/ Pastes(c)

OutputSpec == OutputInit /\ [][OutputNext]_outputVars

-----------------------------------------------------------------------------
OutputTypeOK ==
    /\ stage \in [Callers -> Stages] /\ result \in [Callers -> Results]
    /\ text \in [Callers -> Texts \cup {NoText}] /\ shown \in [Callers -> Texts \cup {NoText}]
    /\ alone \in [Callers -> BOOLEAN]
    /\ clipboard \in Texts \cup {NoText} /\ retained \in Texts \cup {NoText}
    /\ handed \in Texts \cup {0} /\ delivered \in [Texts -> Nat] /\ failed \in SUBSET Texts

InFlight(t) == \E c \in Callers : stage[c] # "idle" /\ text[c] = t

\* A transcript is tried until one call reports it delivered, and never after that:
\* until then it is being inserted or is retained, unless a newer one failed, of which
\* the daemon keeps only that.  Two callers, each failing anywhere, change nothing of it.
KeptUntilDelivered ==
    \A t \in 1 .. handed :
        /\ delivered[t] <= 1
        /\ delivered[t] = 1 => ~InFlight(t) /\ retained # t
        /\ delivered[t] = 0 => InFlight(t) \/ retained = t \/ \E u \in failed : u > t

\* A call that reports its text as inserted has sent the window that text and not an
\* older clipboard, unless the other caller's call overlapped it: between wl-copy and
\* the keys the other's copy may take the clipboard, and its text goes in twice.
InsertedIsOwn ==
    \A c \in Callers :
        stage[c] = "idle" /\ result[c] = "inserted" /\ alone[c] => shown[c] = text[c]
=============================================================================
