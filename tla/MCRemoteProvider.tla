-------------------------- MODULE MCRemoteProvider --------------------------
(***************************************************************************)
(* The remote providers with what their requests were answered as history. *)
(***************************************************************************)
EXTENDS RemoteProvider

VARIABLES
    requests,       \* uploads of the utterance made by the current or last call
    endpointGone    \* a server said that it has no transcription endpoint

vars == <<providerVars, requests, endpointGone>>

Awaiting == {"transcription", "chat", "reinforced"}

HistoryInit == Init /\ requests = 0 /\ endpointGone = FALSE

\* A request is counted when it is sent; the count stops one above its bound.
UploadCap == 2 * (MaxRetries + 1) + 2
Sent(before) ==
    IF pc' \in Awaiting /\ before < UploadCap THEN before + 1 ELSE before

SaysEndpointGone(reply) ==
    /\ pc = "transcription" /\ kind = "openai_compatible"
    /\ OutcomeOf(reply) = "HttpEndpoint"

HistoryCall    == Call /\ requests' = Sent(0) /\ UNCHANGED endpointGone
HistoryBackoff == BackoffEnds /\ requests' = Sent(requests) /\ UNCHANGED endpointGone
HistoryReply ==
    \E reply \in Replies :
        /\ TranscriptionReply(reply) \/ ChatReply(reply) \/ ReinforcedReply(reply)
        /\ requests' = Sent(requests)
        /\ endpointGone' = (endpointGone \/ SaysEndpointGone(reply))

HistoryNext == HistoryCall \/ HistoryBackoff \/ HistoryReply

HistorySpec == HistoryInit /\ [][HistoryNext]_vars

-----------------------------------------------------------------------------
TypeOK ==
    /\ pc \in Awaiting \cup {"idle", "backoff"}
    /\ prefer \in BOOLEAN /\ prefer_chat_completions \in BOOLEAN /\ endpointGone \in BOOLEAN
    /\ attempt \in 0 .. MaxRetries /\ requests \in Nat
    /\ result \in Texts \cup Errors \cup {"none", "envelope"}

\* An utterance is uploaded at most twice a round, by the prompt and its reinforced
\* form, and once more by the call that falls back; a hosted provider that was slow
\* or talkative in every reply is not sent the audio without bound.
UploadsBounded ==
    /\ requests <= 2 * (attempt + 1) + 1
    /\ kind = "whisper_server" => requests <= attempt + 1

\* A transcription endpoint that is missing is asked once in the life of the daemon:
\* not in the retries of the call that found out, and not by later calls.
FallbackSticks == endpointGone => pc # "transcription"

\* No reply of a chat model that looks like an assistant's, or like a complaint about
\* missing audio, is returned as a transcript, whatever the order of the two replies.
ChatterIsNoTranscript ==
    [][(pc \in {"chat", "reinforced"} /\ pc' = "idle") => ~LooksWrong(result')]_vars

\* The retries are used up before a retryable error starts the worker's cooldown.
RetriedBeforeGivingUp ==
    [][(pc # "idle" /\ pc' = "idle" /\ IsRetryable(result')) => attempt = MaxRetries]_vars
=============================================================================
