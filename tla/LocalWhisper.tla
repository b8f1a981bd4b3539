---------------------------- MODULE LocalWhisper ----------------------------
(***************************************************************************)
(* transcribe_utterance of the provider that runs whisper as a child       *)
(* process (provider/whisper_local.rs): the audio goes out and the         *)
(* transcript comes back in two temporary files named after the call.  A   *)
(* call that times out returns while its child goes on, so that children   *)
(* of earlier calls run, read and write beside the current one.            *)
(*                                                                         *)
(* An audio file is known by the call whose audio it holds, a transcript   *)
(* by the call whose audio it was made of; 0 stands for no file.           *)
(***************************************************************************)
EXTENDS Integers

CONSTANT MaxCalls       \* bound: utterances transcribed in one life of the daemon

ASSUME CallsAssumption == MaxCalls \in Nat

VARIABLES
    call,       \* TEMP_FILE_COUNTER: the calls begun so far, the last one the current
    stage,      \* what the current call awaits, "idle" when it has returned
    wav,        \* the audio file of each prefix
    txt,        \* the transcript file of each prefix
    child,      \* the whisper process of each call
    heard,      \* the audio that process has read
    answer,     \* what each call returns, "none" while that is open
    said,       \* the transcript it returns
    stuck       \* history: the files a cleanup could not remove, with their prefix

localVars == <<call, stage, wav, txt, child, heard, answer, said, stuck>>

Calls == 1 .. MaxCalls
Files == 0 .. MaxCalls

Stages   == {"idle", "write", "run", "read", "remove_wav", "remove_txt"}
Children == {"none", "started", "listened", "ok", "failed"}
Answers  == {"none", "Transcript", "MissingTranscript", "Transport",
             "DependencyUnavailable", "Execution", "TimedOut"}

\* A prefix of the process id alone would be shared by its calls.
SharedPrefix(c) == IF c = 0 THEN 0 ELSE 1

\* temp_base_path: no two calls share a prefix, because each takes a new count.
Prefix(c) == c

LocalInit ==
    /\ call = 0 /\ stage = "idle"
    /\ wav = [p \in Calls |-> 0] /\ txt = [p \in Calls |-> 0]
    /\ child = [c \in Calls |-> "none"] /\ heard = [c \in Calls |-> 0]
    /\ answer = [c \in Calls |-> "none"] /\ said = [c \in Calls |-> 0]
    /\ stuck = {}

-----------------------------------------------------------------------------
(* The call *)

Transcribe ==
    /\ stage = "idle" /\ call < MaxCalls
    /\ call' = call + 1 /\ stage' = "write"
    /\ UNCHANGED <<wav, txt, child, heard, answer, said, stuck>>

Return(result) == answer' = [answer EXCEPT ![call] = result] /\ stage' = "idle"

Conclude(result) == answer' = [answer EXCEPT ![call] = result] /\ stage' = "remove_wav"

\* What a failed fs::write has written stays: this error returns without cleanup.
WriteFails ==
    /\ stage = "write"
    /\ \E written \in {0, call} : wav' = [wav EXCEPT ![Prefix(call)] = written]
    /\ Return("Transport")
    /\ UNCHANGED <<call, txt, child, heard, said, stuck>>

\* The file is written and the command spawned, with no await in between.
Spawn ==
    /\ stage = "write"
    /\ wav' = [wav EXCEPT ![Prefix(call)] = call]
    /\ \/ child' = [child EXCEPT ![call] = "started"] /\ stage' = "run" /\ UNCHANGED answer
       \/ UNCHANGED child /\ \E error \in {"DependencyUnavailable", "Execution"} : Conclude(error)
    /\ UNCHANGED <<call, txt, heard, said, stuck>>

OutputArrives ==
    /\ stage = "run"
    /\ \/ child[call] = "ok" /\ stage' = "read" /\ UNCHANGED answer
       \/ child[call] = "failed" /\ Conclude("Execution")
    /\ UNCHANGED <<call, wav, txt, child, heard, said, stuck>>

\* An Execution error, told apart here: dropping the future does not kill the child.
TimesOut ==
    /\ stage = "run"
    /\ Conclude("TimedOut")
    /\ UNCHANGED <<call, wav, txt, child, heard, said, stuck>>

Read ==
    /\ stage = "read"
    /\ \/ Conclude("Execution") /\ UNCHANGED said
       \/ txt[Prefix(call)] # 0 /\ Conclude("MissingTranscript") /\ UNCHANGED said
       \/ /\ txt[Prefix(call)] # 0 /\ Conclude("Transcript")
          /\ said' = [said EXCEPT ![call] = txt[Prefix(call)]]
    /\ UNCHANGED <<call, wav, txt, child, heard, stuck>>

\* cleanup, in two awaits. It ignores what remove_file returns: a file that cannot be
\* removed stays, and the cleanup goes on as if it were gone.
Stuck(kind) == stuck' = stuck \union {<<kind, Prefix(call)>>}

RemoveWav ==
    /\ stage = "remove_wav" /\ stage' = "remove_txt"
    /\ \/ wav' = [wav EXCEPT ![Prefix(call)] = 0] /\ UNCHANGED stuck
       \/ wav[Prefix(call)] # 0 /\ Stuck("wav") /\ UNCHANGED wav
    /\ UNCHANGED <<call, txt, child, heard, answer, said>>

RemoveTxt ==
    /\ stage = "remove_txt" /\ stage' = "idle"
    /\ \/ txt' = [txt EXCEPT ![Prefix(call)] = 0] /\ UNCHANGED stuck
       \/ txt[Prefix(call)] # 0 /\ Stuck("txt") /\ UNCHANGED txt
    /\ UNCHANGED <<call, wav, child, heard, answer, said>>

-----------------------------------------------------------------------------
(* The children, whose calls may be over: they read, write and exit when they will *)

Listens(c) ==
    /\ child[c] = "started"
    /\ LET audio == wav[Prefix(c)] IN
        /\ heard' = [heard EXCEPT ![c] = audio]
        /\ child' = [child EXCEPT ![c] = IF audio = 0 THEN "failed" ELSE "listened"]
    /\ UNCHANGED <<call, stage, wav, txt, answer, said, stuck>>

\* It may fail after it wrote its transcript, or exit in good order without one.
Exits(c) ==
    /\ child[c] = "listened"
    /\ \E written \in {txt[Prefix(c)], heard[c]} :
          txt' = [txt EXCEPT ![Prefix(c)] = written]
    /\ \E status \in {"ok", "failed"} : child' = [child EXCEPT ![c] = status]
    /\ UNCHANGED <<call, stage, wav, heard, answer, said, stuck>>

CallStep == Transcribe \/ WriteFails \/ Spawn \/ OutputArrives \/ TimesOut
            \/ Read \/ RemoveWav \/ RemoveTxt
ChildStep == \E c \in Calls : Listens(c) \/ Exits(c)

LocalNext == CallStep \/ ChildStep

LocalSpec == LocalInit /\ [][LocalNext]_localVars

-----------------------------------------------------------------------------
LocalTypeOK ==
    /\ call \in Files /\ stage \in Stages
    /\ wav \in [Calls -> Files] /\ txt \in [Calls -> Files]
    /\ child \in [Calls -> Children] /\ heard \in [Calls -> Files]
    /\ answer \in [Calls -> Answers] /\ said \in [Calls -> Files]
    /\ stuck \subseteq {"wav", "txt"} \X Calls

Over(c)    == c < call \/ (c = call /\ stage = "idle")
Running(c) == child[c] \in {"started", "listened"}

\* A transcript is made of the utterance it is returned for, and no late output of
\* an earlier call's child, of whatever age, is typed in its place.
TranscriptIsOwn == \A c \in Calls : answer[c] = "Transcript" => said[c] = c

\* A call that is over leaves the user's speech on disk only where something failed:
\* its audio because writing or removing the file failed, a transcript because removing
\* it failed or whisper was too slow, and a process that may yet write one only then.
LeftBehindOnlyByFailure ==
    \A c \in Calls : Over(c) =>
        /\ wav[Prefix(c)] # 0 => answer[c] = "Transport" \/ <<"wav", Prefix(c)>> \in stuck
        /\ txt[Prefix(c)] # 0 => answer[c] = "TimedOut" \/ <<"txt", Prefix(c)>> \in stuck
        /\ Running(c) => answer[c] = "TimedOut"
=============================================================================
