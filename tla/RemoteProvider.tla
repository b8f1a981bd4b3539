--------------------------- MODULE RemoteProvider ---------------------------
(***************************************************************************)
(* transcribe_utterance of the two providers that use HTTP: the hosted one *)
(* (provider/openai_compatible.rs), which falls back from the              *)
(* transcription endpoint to chat completions and asks again when a reply  *)
(* does not look like a transcript, and the local server one               *)
(* (provider/whisper_server.rs), which only retries.  A step is one reply  *)
(* of the server, of any kind, or the end of a backoff.                    *)
(***************************************************************************)
EXTENDS Integers

CONSTANT MaxRetries     \* provider.max_retries

ASSUME RetriesAssumption == MaxRetries \in Nat

VARIABLES
    kind, request_mode,         \* the provider that was built, fixed from then on
    pc,                         \* what the call awaits, "idle" when there is none
    prefer_chat_completions,    \* the provider's flag, kept between calls
    prefer,                     \* the call's own prefer_chat_completions
    attempt,                    \* its number of retries
    result                      \* what the last call returned

built == <<kind, request_mode>>
providerVars == <<built, pc, prefer_chat_completions, prefer, attempt, result>>

-----------------------------------------------------------------------------
(* Replies and what the code makes of them *)

Texts == {"transcript", "assistant-like", "missing-audio"}

\* What a server may send: no reply in time or none at all, or a status and a body.
NoReply == [status |-> 0, body |-> "none"]
Replies == {NoReply} \cup
    [status : {200, 400, 401, 403, 404, 405, 413, 429, 500, 503, 599},
     body   : Texts \cup {"blank", "empty-text", "not-json", "endpoint-unsupported"}]

Errors == {"Transport", "Auth", "RateLimited", "HttpServer", "HttpEndpoint", "HttpClient",
           "MissingTranscript", "InvalidResponse"}

IsRetryable(outcome) == outcome \in {"Transport", "RateLimited", "HttpServer"}

MapHttpError(reply) ==
    CASE reply.status \in {401, 403} -> "Auth"
      [] reply.status = 429          -> "RateLimited"
      [] reply.status \in 500 .. 599 -> "HttpServer"
      [] reply.status \in {404, 405} -> "HttpEndpoint"
      [] reply.status = 400 /\ reply.body = "endpoint-unsupported" -> "HttpEndpoint"
      [] OTHER -> "HttpClient"

\* The hosted provider reads JSON and wants its text field.
ParseJson(body) ==
    CASE body \in Texts        -> body
      [] body = "empty-text"   -> "MissingTranscript"
      [] OTHER                 -> "InvalidResponse"

\* A whisper server may answer in plain text: whatever is not a JSON text field is
\* taken for the transcript, the JSON of an empty one included.
ParseJsonOrPlain(body) ==
    CASE body \in Texts        -> body
      [] body = "blank"        -> "MissingTranscript"
      [] body = "empty-text"   -> "envelope"
      [] OTHER                 -> "transcript"

Parse(body) ==
    IF kind = "whisper_server" THEN ParseJsonOrPlain(body) ELSE ParseJson(body)

OutcomeOf(reply) ==
    IF reply = NoReply THEN "Transport"
    ELSE IF reply.status = 200 THEN Parse(reply.body)
    ELSE MapHttpError(reply)

ShouldFallBackToChat(outcome) ==
    kind = "openai_compatible" /\ outcome = "HttpEndpoint"

-----------------------------------------------------------------------------
Init ==
    /\ kind \in {"openai_compatible", "whisper_server"}
    /\ request_mode \in {"auto", "chat_completions"}
    /\ kind = "whisper_server" => request_mode = "auto"
    /\ pc = "idle" /\ attempt = 0 /\ prefer = FALSE
    /\ prefer_chat_completions = (request_mode = "chat_completions")
    /\ result = "none"

FirstRequest(chat) == IF chat THEN "chat" ELSE "transcription"

Call ==
    /\ pc = "idle"
    /\ attempt' = 0
    /\ prefer' = (request_mode = "chat_completions" \/ prefer_chat_completions)
    /\ pc' = FirstRequest(prefer')
    /\ UNCHANGED <<built, prefer_chat_completions, result>>

MayRetry(outcome) == IsRetryable(outcome) /\ attempt < MaxRetries

SettleForgettingAttempts(outcome) ==
    IF MayRetry(outcome)
    THEN pc' = "backoff" /\ UNCHANGED <<attempt, result>>
    ELSE pc' = "idle" /\ result' = outcome /\ UNCHANGED attempt

\* The end of one round of the retry loop.
Settle(outcome) ==
    IF MayRetry(outcome)
    THEN pc' = "backoff" /\ attempt' = attempt + 1 /\ UNCHANGED result
    ELSE pc' = "idle" /\ result' = outcome /\ UNCHANGED attempt

FallBackOnce ==
    /\ prefer_chat_completions' = TRUE
    /\ pc' = "chat"
    /\ UNCHANGED <<prefer, attempt, result>>

FallBack ==
    /\ prefer' = TRUE /\ prefer_chat_completions' = TRUE
    /\ pc' = "chat"
    /\ UNCHANGED <<attempt, result>>

TranscriptionReply(reply) ==
    /\ pc = "transcription"
    /\ LET outcome == OutcomeOf(reply)
       IN  \/ ShouldFallBackToChat(outcome) /\ FallBack
           \/ /\ ~ShouldFallBackToChat(outcome) /\ Settle(outcome)
              /\ UNCHANGED <<built, prefer, prefer_chat_completions>>
    /\ UNCHANGED built

\* A reply that is not a transcript.  The code looks for missing audio first and for an
\* assistant's answer then; either way it sends the same reinforced request once and
\* applies both tests to its reply, so the order decides the wording of an error only.
LooksWrong(outcome) == outcome \in {"assistant-like", "missing-audio"}

ChatReply(reply) ==
    /\ pc = "chat"
    /\ LET outcome == OutcomeOf(reply)
       IN  IF LooksWrong(outcome)
           THEN pc' = "reinforced" /\ UNCHANGED <<attempt, result>>
           ELSE Settle(outcome)
    /\ UNCHANGED <<built, prefer, prefer_chat_completions>>

SecondOpinionUnlessMissing(outcome) ==
    IF outcome = "missing-audio" THEN "Transport" ELSE outcome

\* What is returned after the reinforced prompt was tried.
SecondOpinion(outcome) == IF LooksWrong(outcome) THEN "Transport" ELSE outcome

ReinforcedReply(reply) ==
    /\ pc = "reinforced"
    /\ Settle(SecondOpinion(OutcomeOf(reply)))
    /\ UNCHANGED <<built, prefer, prefer_chat_completions>>

BackoffEnds ==
    /\ pc = "backoff"
    /\ pc' = FirstRequest(prefer)
    /\ UNCHANGED <<built, prefer, prefer_chat_completions, attempt, result>>

Reply == \E reply \in Replies :
            TranscriptionReply(reply) \/ ChatReply(reply) \/ ReinforcedReply(reply)

Next == Call \/ Reply \/ BackoffEnds

\* The HTTP client has a timeout, so that every request is answered; a sleep ends.
Spec == Init /\ [][Next]_providerVars /\ WF_providerVars(Reply) /\ WF_providerVars(BackoffEnds)
=============================================================================
