---------------------------- MODULE MCProviders -----------------------------
(***************************************************************************)
(* The provider of a daemon: build_provider (provider/mod.rs) makes one of *)
(* three, and the worker then calls nothing else, one utterance at a time. *)
(***************************************************************************)
EXTENDS MCRemoteProvider, LocalWhisper

VARIABLE built_locally      \* provider.kind is whisper_local

providers == <<vars, localVars, built_locally>>

BuildProvider == HistoryInit /\ LocalInit /\ built_locally \in BOOLEAN

remote == <<localVars, built_locally>>
local  == <<vars, built_locally>>

RemoteCall    == ~built_locally /\ HistoryCall /\ UNCHANGED remote
RemoteReply   == ~built_locally /\ HistoryReply /\ UNCHANGED remote
RemoteBackoff == ~built_locally /\ HistoryBackoff /\ UNCHANGED remote

LocalCall   == built_locally /\ Transcribe /\ UNCHANGED local
LocalWrite  == built_locally /\ (WriteFails \/ Spawn) /\ UNCHANGED local
LocalOutput == built_locally /\ OutputArrives /\ UNCHANGED local
LocalTimer  == built_locally /\ TimesOut /\ UNCHANGED local
LocalRead   == built_locally /\ Read /\ UNCHANGED local
LocalRemove == built_locally /\ (RemoveWav \/ RemoveTxt) /\ UNCHANGED local
LocalChild  == built_locally /\ ChildStep /\ UNCHANGED local

\* The bound on calls is reached and every child has ended.
LocalRests ==
    /\ built_locally /\ call = MaxCalls /\ stage = "idle" /\ \A c \in Calls : ~Running(c)
    /\ UNCHANGED providers

ProviderNext ==
    \/ RemoteCall \/ RemoteReply \/ RemoteBackoff
    \/ LocalCall \/ LocalWrite \/ LocalOutput \/ LocalTimer
    \/ LocalRead \/ LocalRemove \/ LocalChild \/ LocalRests

\* A request is answered or times out, a sleep ends, file operations end and the timer
\* of a whisper process fires.  Nothing is assumed of the process itself.
ProviderSpec ==
    /\ BuildProvider /\ [][ProviderNext]_providers
    /\ WF_providers(RemoteReply) /\ WF_providers(RemoteBackoff)
    /\ WF_providers(LocalWrite) /\ WF_providers(LocalTimer)
    /\ WF_providers(LocalRead) /\ WF_providers(LocalRemove)

Busy == pc # "idle" \/ stage # "idle"

\* However a server answers, whatever a model says, and though a whisper process may
\* hang for good, the call returns and the worker gets to its next command.
CallReturns == Busy ~> ~Busy
=============================================================================
