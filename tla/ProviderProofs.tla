---------------------------- MODULE ProviderProofs ----------------------------
(***************************************************************************)
(* Proofs about the providers, for every number of retries and of calls.   *)
(*                                                                         *)
(* Of a remote provider: the uploads of a call are counted by the request  *)
(* it awaits, and a call in progress prefers chat once the transcription   *)
(* endpoint is known to be gone.  Of the local one: a file and a child     *)
(* only ever hold audio of the call they are named after, and what         *)
(* outlives its call was there when the call took the one path that does   *)
(* not wait for it.  The daemon's provider is one of the two.              *)
(***************************************************************************)
EXTENDS MCProviders, TLAPS

-----------------------------------------------------------------------------
(* The remote providers.                                                    *)

\* What is known of the provider that was built: a whisper server has no chat.
KindInv ==
    /\ kind \in {"openai_compatible", "whisper_server"}
    /\ request_mode \in {"auto", "chat_completions"}
    /\ kind = "whisper_server" =>
          /\ request_mode = "auto" /\ ~prefer /\ ~prefer_chat_completions
          /\ pc \notin {"chat", "reinforced"}

\* The transcription endpoint is asked only by a call that does not prefer chat, and
\* a call in progress prefers chat once the endpoint is known to be gone.
ChatInv ==
    /\ pc = "transcription" => ~prefer
    /\ pc \in {"chat", "reinforced"} => prefer
    /\ endpointGone => prefer_chat_completions /\ (pc # "idle" => prefer)

\* Uploads counted against the rounds done: rounds on the transcription endpoint take
\* one upload, the round that falls back up to three, the others up to two.
UploadsInv ==
    /\ pc = "transcription" => requests <= attempt + 1
    /\ pc = "backoff" => /\ ~prefer => requests <= attempt
                         /\ requests <= 2 * attempt + 1
    /\ pc = "chat" => requests <= 2 * attempt + 2
    /\ UploadsBounded

IInv == TypeOK /\ KindInv /\ ChatInv /\ UploadsInv

\* Whatever a server sends, the code makes a text or an error of it.
LEMMA OutcomeType ==
    ASSUME NEW reply
    PROVE  OutcomeOf(reply) \in Texts \cup Errors \cup {"envelope"}
<1>1. MapHttpError(reply) \in Errors
  BY DEF MapHttpError, Errors
<1>2. Parse(reply.body) \in Texts \cup Errors \cup {"envelope"}
  BY DEF Parse, ParseJson, ParseJsonOrPlain, Texts, Errors
<1>3. "Transport" \in Errors
  BY DEF Errors
<1>. QED  BY <1>1, <1>2, <1>3 DEF OutcomeOf

\* The reinforced prompt's reply is an outcome too, and never a text that looks wrong.
LEMMA SecondOpinionType ==
    ASSUME NEW outcome \in Texts \cup Errors \cup {"envelope"}
    PROVE  /\ SecondOpinion(outcome) \in Texts \cup Errors \cup {"envelope"}
           /\ ~LooksWrong(SecondOpinion(outcome))
BY DEF SecondOpinion, LooksWrong, Errors

\* A provider has made no request when it is built.
LEMMA InitInv == HistoryInit => IInv
<1>. SUFFICES ASSUME HistoryInit PROVE IInv
  OBVIOUS
<1>. USE DEF HistoryInit, Init
<1>1. TypeOK
  <2>1. prefer \in BOOLEAN /\ prefer_chat_completions \in BOOLEAN /\ endpointGone \in BOOLEAN
    BY Zenon
  <2>. QED  BY <2>1, RetriesAssumption DEF TypeOK
<1>2. KindInv
  BY DEF KindInv
<1>3. ChatInv
  BY DEF ChatInv
<1>4. UploadsInv
  BY DEF UploadsInv, UploadsBounded
<1>. QED  BY <1>1, <1>2, <1>3, <1>4 DEF IInv

\* A call starts with one upload, to the endpoint the provider's flag chooses.
LEMMA CallInv ==
    ASSUME IInv, Call, requests' = Sent(0), UNCHANGED endpointGone
    PROVE  IInv'
<1>. USE DEF IInv, Call, FirstRequest, Sent, Awaiting, built
<1>1. requests' = 1 /\ attempt' = 0
  BY RetriesAssumption DEF TypeOK, UploadCap
<1>2. TypeOK'
  BY <1>1, RetriesAssumption DEF TypeOK, KindInv
<1>3. KindInv'
  BY DEF KindInv
<1>4. ChatInv'
  BY DEF ChatInv
<1>5. UploadsInv'
  BY <1>1 DEF UploadsInv, UploadsBounded
<1>. QED  BY <1>2, <1>3, <1>4, <1>5

\* The next round starts with one more upload.
LEMMA BackoffInv ==
    ASSUME IInv, BackoffEnds, requests' = Sent(requests), UNCHANGED endpointGone
    PROVE  IInv'
<1>. USE DEF IInv, BackoffEnds, FirstRequest, Sent, Awaiting, built
<1>1. /\ requests' \in Nat /\ requests \in Nat /\ requests' <= requests + 1
      /\ attempt \in Nat /\ attempt' = attempt
  BY RetriesAssumption DEF TypeOK, UploadCap
<1>2. TypeOK'
  BY <1>1 DEF TypeOK
<1>3. KindInv'
  BY DEF KindInv
<1>4. ChatInv'
  BY DEF ChatInv
<1>5. UploadsInv'
  BY <1>1 DEF UploadsInv, UploadsBounded, KindInv
<1>. QED  BY <1>2, <1>3, <1>4, <1>5

\* The end of a round either starts the backoff of the next or returns; it sends
\* nothing.
LEMMA SettleInv ==
    ASSUME IInv, NEW outcome \in Texts \cup Errors \cup {"envelope"}, Settle(outcome),
           pc \in Awaiting, requests' = Sent(requests),
           UNCHANGED <<built, prefer, prefer_chat_completions, endpointGone>>
    PROVE  IInv'
<1>. USE DEF IInv, Settle, MayRetry, built
<1>1. pc' \in {"backoff", "idle"}
  OBVIOUS
<1>2. requests' = requests /\ requests \in Nat /\ attempt \in 0 .. MaxRetries
  BY <1>1 DEF Sent, Awaiting, TypeOK
<1>3. TypeOK'
  BY <1>1, <1>2, RetriesAssumption DEF TypeOK
<1>4. KindInv'
  BY <1>1 DEF KindInv
<1>5. ChatInv'
  BY <1>1 DEF ChatInv, Awaiting
<1>6. UploadsInv'
  BY <1>1, <1>2 DEF UploadsInv, UploadsBounded, ChatInv, KindInv, Awaiting
<1>. QED  BY <1>3, <1>4, <1>5, <1>6

\* A reply of the transcription endpoint ends the round, or turns the call and all
\* later ones to chat completions.
LEMMA TranscriptionReplyInv ==
    ASSUME IInv, NEW reply \in Replies, TranscriptionReply(reply),
           requests' = Sent(requests), endpointGone' = (endpointGone \/ SaysEndpointGone(reply))
    PROVE  IInv'
<1>1. CASE ShouldFallBackToChat(OutcomeOf(reply)) /\ FallBack
  <2>. USE <1>1 DEF IInv, TranscriptionReply, FallBack, ShouldFallBackToChat, built
  <2>1. /\ requests' \in Nat /\ requests \in Nat /\ requests' <= requests + 1
        /\ attempt \in Nat /\ attempt' = attempt
    BY RetriesAssumption DEF TypeOK, Sent, UploadCap, Awaiting
  <2>2. TypeOK'
    BY <2>1 DEF TypeOK, Awaiting
  <2>3. KindInv'
    BY DEF KindInv
  <2>4. ChatInv'
    BY DEF ChatInv
  <2>5. UploadsInv'
    BY <2>1 DEF UploadsInv, UploadsBounded, KindInv
  <2>. QED  BY <2>2, <2>3, <2>4, <2>5
<1>2. CASE /\ ~ShouldFallBackToChat(OutcomeOf(reply)) /\ Settle(OutcomeOf(reply))
           /\ UNCHANGED <<prefer, prefer_chat_completions>>
  <2>1. endpointGone' = endpointGone
    <3>1. ~SaysEndpointGone(reply)
      BY <1>2 DEF SaysEndpointGone, ShouldFallBackToChat
    <3>. QED  BY <3>1 DEF IInv, TypeOK
  <2>2. pc \in Awaiting /\ UNCHANGED built
    BY DEF TranscriptionReply, Awaiting
  <2>. QED  BY <1>2, <2>1, <2>2, OutcomeType, SettleInv
<1>. QED  BY <1>1, <1>2 DEF TranscriptionReply

\* A reply of chat completions ends the round or asks again with the reinforced prompt.
LEMMA ChatReplyInv ==
    ASSUME IInv, NEW reply \in Replies, ChatReply(reply),
           requests' = Sent(requests), UNCHANGED endpointGone
    PROVE  IInv'
<1>1. CASE LooksWrong(OutcomeOf(reply))
  <2>. USE <1>1 DEF IInv, ChatReply, built
  <2>1. /\ requests' \in Nat /\ requests \in Nat /\ requests' <= requests + 1
        /\ attempt \in Nat /\ attempt' = attempt
        /\ pc' = "reinforced"
    BY RetriesAssumption DEF TypeOK, Sent, UploadCap, Awaiting
  <2>2. TypeOK'
    BY <2>1 DEF TypeOK, Awaiting
  <2>3. KindInv'
    BY <2>1 DEF KindInv
  <2>4. ChatInv'
    BY <2>1 DEF ChatInv
  <2>5. UploadsInv'
    BY <2>1 DEF UploadsInv, UploadsBounded, KindInv
  <2>. QED  BY <2>2, <2>3, <2>4, <2>5
<1>2. CASE ~LooksWrong(OutcomeOf(reply))
  <2>1. /\ Settle(OutcomeOf(reply)) /\ pc \in Awaiting
        /\ UNCHANGED <<built, prefer, prefer_chat_completions>>
    BY <1>2 DEF ChatReply, Awaiting
  <2>. QED  BY <2>1, OutcomeType, SettleInv
<1>. QED  BY <1>1, <1>2

\* The reply to the reinforced prompt ends the round.
LEMMA ReinforcedReplyInv ==
    ASSUME IInv, NEW reply \in Replies, ReinforcedReply(reply),
           requests' = Sent(requests), UNCHANGED endpointGone
    PROVE  IInv'
<1>1. /\ Settle(SecondOpinion(OutcomeOf(reply))) /\ pc \in Awaiting
      /\ UNCHANGED <<built, prefer, prefer_chat_completions>>
  BY DEF ReinforcedReply, Awaiting
<1>. QED  BY <1>1, OutcomeType, SecondOpinionType, SettleInv

\* Every step of the provider keeps the invariant.
LEMMA NextInv == IInv /\ [HistoryNext]_vars => IInv'
<1>. SUFFICES ASSUME IInv, [HistoryNext]_vars PROVE IInv'
  OBVIOUS
<1>1. CASE Call /\ requests' = Sent(0) /\ UNCHANGED endpointGone
  BY <1>1, CallInv
<1>2. CASE BackoffEnds /\ requests' = Sent(requests) /\ UNCHANGED endpointGone
  BY <1>2, BackoffInv
<1>3. ASSUME NEW reply \in Replies,
             TranscriptionReply(reply) \/ ChatReply(reply) \/ ReinforcedReply(reply),
             requests' = Sent(requests), endpointGone' = (endpointGone \/ SaysEndpointGone(reply))
      PROVE  IInv'
  <2>1. CASE TranscriptionReply(reply)
    BY <1>3, <2>1, TranscriptionReplyInv
  <2>2. CASE ChatReply(reply)
    <3>1. ~SaysEndpointGone(reply)
      BY <2>2 DEF ChatReply, SaysEndpointGone
    <3>2. endpointGone' = endpointGone
      BY <1>3, <3>1 DEF IInv, TypeOK
    <3>. QED  BY <1>3, <2>2, <3>2, ChatReplyInv
  <2>3. CASE ReinforcedReply(reply)
    <3>1. ~SaysEndpointGone(reply)
      BY <2>3 DEF ReinforcedReply, SaysEndpointGone
    <3>2. endpointGone' = endpointGone
      BY <1>3, <3>1 DEF IInv, TypeOK
    <3>. QED  BY <1>3, <2>3, <3>2, ReinforcedReplyInv
  <2>. QED  BY <1>3, <2>1, <2>2, <2>3
<1>4. CASE UNCHANGED vars
  BY <1>4 DEF vars, providerVars, built, IInv, TypeOK, KindInv, ChatInv, UploadsInv,
              UploadsBounded
<1>. QED  BY <1>1, <1>2, <1>3, <1>4 DEF HistoryNext, HistoryCall, HistoryBackoff, HistoryReply

\* The invariant holds of every run of a provider.
THEOREM Inductive == HistorySpec => []IInv
BY InitInv, NextInv, PTL DEF HistorySpec

\* The uploads of an utterance are bounded by the retries, for every max_retries.
THEOREM Bounded == HistorySpec => []UploadsBounded
<1>1. IInv => UploadsBounded  BY DEF IInv, UploadsInv
<1>. QED  BY <1>1, Inductive, PTL

\* A missing transcription endpoint is never asked again, by this call or a later one.
THEOREM Sticks == HistorySpec => []FallbackSticks
<1>1. IInv => FallbackSticks  BY DEF IInv, ChatInv, FallbackSticks
<1>. QED  BY <1>1, Inductive, PTL

\* A chat reply that looks wrong is never what a call returns.
THEOREM NoChatter == HistorySpec => ChatterIsNoTranscript
<1>1. ASSUME [HistoryNext]_vars, pc \in {"chat", "reinforced"}, pc' = "idle"
      PROVE  ~LooksWrong(result')
  <2>1. PICK reply \in Replies : ChatReply(reply) \/ ReinforcedReply(reply)
    BY <1>1 DEF HistoryNext, HistoryCall, HistoryBackoff, HistoryReply, Call, BackoffEnds,
                  TranscriptionReply, vars, providerVars
  <2>2. CASE ChatReply(reply)
    BY <1>1, <2>2 DEF ChatReply, Settle
  <2>3. CASE ReinforcedReply(reply)
    BY <1>1, <2>3, OutcomeType, SecondOpinionType DEF ReinforcedReply, Settle
  <2>. QED  BY <2>1, <2>2, <2>3
<1>2. [HistoryNext]_vars =>
        [(pc \in {"chat", "reinforced"} /\ pc' = "idle") => ~LooksWrong(result')]_vars
  BY <1>1
<1>. QED  BY <1>2, PTL DEF HistorySpec, ChatterIsNoTranscript

\* A call returns a retryable error, which starts the worker's cooldown, only when it
\* has used up max_retries.
THEOREM GivesUpLast == HistorySpec => RetriedBeforeGivingUp
<1>1. ASSUME IInv, [HistoryNext]_vars, pc # "idle", pc' = "idle", IsRetryable(result')
      PROVE  attempt = MaxRetries
  <2>1. PICK outcome : Settle(outcome)
    BY <1>1 DEF HistoryNext, HistoryCall, HistoryBackoff, HistoryReply, Call, BackoffEnds,
                  TranscriptionReply, ChatReply, ReinforcedReply, FallBack,
                  FirstRequest, vars, providerVars
  <2>2. ~(attempt < MaxRetries)
    BY <1>1, <2>1 DEF Settle, MayRetry
  <2>. QED  BY <1>1, <2>2, RetriesAssumption DEF IInv, TypeOK
<1>2. IInv /\ [HistoryNext]_vars =>
        [(pc # "idle" /\ pc' = "idle" /\ IsRetryable(result')) => attempt = MaxRetries]_vars
  BY <1>1
<1>. QED  BY <1>2, Inductive, PTL DEF HistorySpec, RetriedBeforeGivingUp

-----------------------------------------------------------------------------
(* The local provider.                                                      *)

\* What is named after a call comes of that call.
FilesAreOwn ==
    \A c \in Calls :
        /\ wav[c] \in {0, c} /\ txt[c] \in {0, c} /\ heard[c] \in {0, c}
        /\ child[c] = "listened" => heard[c] = c

\* Calls that have not begun have left no trace.
NotYetBegun ==
    \A c \in Calls : c > call => child[c] = "none" /\ wav[c] = 0 /\ txt[c] = 0

\* Where the current call is, in what it has left.
CurrentCall ==
    /\ stage # "idle" => call \in Calls
    /\ stage = "write" => child[call] = "none" /\ wav[call] = 0 /\ txt[call] = 0
    /\ stage = "read" => child[call] = "ok"
    /\ stage \in {"remove_wav", "remove_txt"} /\ Running(call) => answer[call] = "TimedOut"
    /\ stage = "remove_txt" => wav[call] = 0 \/ <<"wav", call>> \in stuck

LocalInv ==
    /\ LocalTypeOK /\ FilesAreOwn /\ NotYetBegun /\ CurrentCall
    /\ TranscriptIsOwn /\ LeftBehindOnlyByFailure

-----------------------------------------------------------------------------
\* A new call finds none of its files, and leaves those of calls that are over.
LEMMA TranscribeInv == ASSUME LocalInv, Transcribe PROVE LocalInv'
<1>. USE CallsAssumption DEF LocalInv, Transcribe
<1>1. LocalTypeOK'
  BY DEF LocalTypeOK, Calls, Files, Stages, Children, Answers, CurrentCall, Prefix
<1>2. FilesAreOwn'
  BY DEF FilesAreOwn, LocalTypeOK, CurrentCall, Calls, Files, Prefix
<1>3. NotYetBegun'
  BY DEF NotYetBegun, LocalTypeOK, CurrentCall, Calls, Files, Prefix
<1>4. CurrentCall'
  BY DEF CurrentCall, NotYetBegun, LocalTypeOK, Running, Calls, Files, Prefix
<1>5. TranscriptIsOwn'
  BY DEF TranscriptIsOwn, FilesAreOwn, LocalTypeOK, CurrentCall, Calls, Files, Prefix
<1>6. LeftBehindOnlyByFailure'
  BY DEF LeftBehindOnlyByFailure, CurrentCall, LocalTypeOK, Over, Running, Calls, Files, Prefix
<1>. QED  BY <1>1, <1>2, <1>3, <1>4, <1>5, <1>6

\* The one return without cleanup: only the audio file can be left.
LEMMA WriteFailsInv == ASSUME LocalInv, WriteFails PROVE LocalInv'
<1>. USE CallsAssumption DEF LocalInv, WriteFails, Return
<1>1. LocalTypeOK'
  <2>1. call \in Calls /\ call \in Files
    BY DEF CurrentCall, LocalTypeOK
  <2>2. wav' \in [Calls -> Files]
    BY <2>1 DEF LocalTypeOK, Calls, Files, Prefix
  <2>3. answer' \in [Calls -> Answers] /\ stage' \in Stages
    BY DEF LocalTypeOK, Answers, Stages
  <2>. QED  BY <2>2, <2>3 DEF LocalTypeOK
<1>2. FilesAreOwn'
  BY DEF FilesAreOwn, LocalTypeOK, CurrentCall, Calls, Files, Prefix
<1>3. NotYetBegun'
  BY DEF NotYetBegun, LocalTypeOK, CurrentCall, Calls, Files, Prefix
<1>4. CurrentCall'
  BY DEF CurrentCall, NotYetBegun, LocalTypeOK, Running, Calls, Files, Prefix
<1>5. TranscriptIsOwn'
  BY DEF TranscriptIsOwn, FilesAreOwn, LocalTypeOK, CurrentCall, Calls, Files, Prefix
<1>6. LeftBehindOnlyByFailure'
  BY DEF LeftBehindOnlyByFailure, CurrentCall, LocalTypeOK, Over, Running, Calls, Files, Prefix
<1>. QED  BY <1>1, <1>2, <1>3, <1>4, <1>5, <1>6

\* The child is started, or the call fails before there is one.
LEMMA SpawnInv == ASSUME LocalInv, Spawn PROVE LocalInv'
<1>. USE CallsAssumption DEF LocalInv, Spawn, Conclude
<1>1. LocalTypeOK'
  BY DEF LocalTypeOK, Calls, Files, Stages, Children, Answers, CurrentCall, Prefix
<1>2. FilesAreOwn'
  BY DEF FilesAreOwn, LocalTypeOK, CurrentCall, Calls, Files, Prefix
<1>3. NotYetBegun'
  BY DEF NotYetBegun, LocalTypeOK, CurrentCall, Calls, Files, Prefix
<1>4. CurrentCall'
  BY DEF CurrentCall, NotYetBegun, LocalTypeOK, Running, Calls, Files, Prefix
<1>5. TranscriptIsOwn'
  BY DEF TranscriptIsOwn, FilesAreOwn, LocalTypeOK, CurrentCall, Calls, Files, Prefix
<1>6. LeftBehindOnlyByFailure'
  <2>. SUFFICES ASSUME NEW c \in Calls, Over(c)'
                PROVE  /\ wav'[c] # 0 => answer'[c] = "Transport" \/ <<"wav", c>> \in stuck'
                       /\ txt'[c] # 0 => answer'[c] = "TimedOut" \/ <<"txt", c>> \in stuck'
                       /\ Running(c)' => answer'[c] = "TimedOut"
    BY DEF LeftBehindOnlyByFailure, Prefix
  <2>1. Over(c) /\ c # call
    BY <1>1 DEF Over, CurrentCall, LocalTypeOK, Calls, Files
  <2>2. /\ wav'[c] = wav[c] /\ txt'[c] = txt[c]
        /\ child'[c] = child[c] /\ answer'[c] = answer[c]
    BY <2>1 DEF LocalTypeOK, Prefix
  <2>. QED  BY <2>1, <2>2 DEF LeftBehindOnlyByFailure, Running, Prefix
<1>. QED  BY <1>1, <1>2, <1>3, <1>4, <1>5, <1>6

\* A call goes on from its output only when the child has ended.
LEMMA OutputArrivesInv == ASSUME LocalInv, OutputArrives PROVE LocalInv'
<1>. USE CallsAssumption DEF LocalInv, OutputArrives, Conclude
<1>1. LocalTypeOK'
  BY DEF LocalTypeOK, Calls, Files, Stages, Children, Answers, CurrentCall, Prefix
<1>2. FilesAreOwn'
  BY DEF FilesAreOwn, LocalTypeOK, CurrentCall, Calls, Files, Prefix
<1>3. NotYetBegun'
  BY DEF NotYetBegun, LocalTypeOK, CurrentCall, Calls, Files, Prefix
<1>4. CurrentCall'
  BY DEF CurrentCall, NotYetBegun, LocalTypeOK, Running, Calls, Files, Prefix
<1>5. TranscriptIsOwn'
  BY DEF TranscriptIsOwn, FilesAreOwn, LocalTypeOK, CurrentCall, Calls, Files, Prefix
<1>6. LeftBehindOnlyByFailure'
  <2>. SUFFICES ASSUME NEW c \in Calls, Over(c)'
                PROVE  /\ wav'[c] # 0 => answer'[c] = "Transport" \/ <<"wav", c>> \in stuck'
                       /\ txt'[c] # 0 => answer'[c] = "TimedOut" \/ <<"txt", c>> \in stuck'
                       /\ Running(c)' => answer'[c] = "TimedOut"
    BY DEF LeftBehindOnlyByFailure, Prefix
  <2>1. Over(c) /\ c # call
    BY <1>1 DEF Over, CurrentCall, LocalTypeOK, Calls, Files
  <2>2. /\ wav'[c] = wav[c] /\ txt'[c] = txt[c]
        /\ child'[c] = child[c] /\ answer'[c] = answer[c]
    BY <2>1 DEF LocalTypeOK, Prefix
  <2>. QED  BY <2>1, <2>2 DEF LeftBehindOnlyByFailure, Running, Prefix
<1>. QED  BY <1>1, <1>2, <1>3, <1>4, <1>5, <1>6

\* The child that a call leaves behind is one that timed out.
LEMMA TimesOutInv == ASSUME LocalInv, TimesOut PROVE LocalInv'
<1>. USE CallsAssumption DEF LocalInv, TimesOut, Conclude
<1>1. LocalTypeOK'
  BY DEF LocalTypeOK, Calls, Files, Stages, Children, Answers, CurrentCall, Prefix
<1>2. FilesAreOwn'
  BY DEF FilesAreOwn, LocalTypeOK, CurrentCall, Calls, Files, Prefix
<1>3. NotYetBegun'
  BY DEF NotYetBegun, LocalTypeOK, CurrentCall, Calls, Files, Prefix
<1>4. CurrentCall'
  BY DEF CurrentCall, NotYetBegun, LocalTypeOK, Running, Calls, Files, Prefix
<1>5. TranscriptIsOwn'
  BY DEF TranscriptIsOwn, FilesAreOwn, LocalTypeOK, CurrentCall, Calls, Files, Prefix
<1>6. LeftBehindOnlyByFailure'
  <2>. SUFFICES ASSUME NEW c \in Calls, Over(c)'
                PROVE  /\ wav'[c] # 0 => answer'[c] = "Transport" \/ <<"wav", c>> \in stuck'
                       /\ txt'[c] # 0 => answer'[c] = "TimedOut" \/ <<"txt", c>> \in stuck'
                       /\ Running(c)' => answer'[c] = "TimedOut"
    BY DEF LeftBehindOnlyByFailure, Prefix
  <2>1. Over(c) /\ c # call
    BY <1>1 DEF Over, CurrentCall, LocalTypeOK, Calls, Files
  <2>2. /\ wav'[c] = wav[c] /\ txt'[c] = txt[c]
        /\ child'[c] = child[c] /\ answer'[c] = answer[c]
    BY <2>1 DEF LocalTypeOK, Prefix
  <2>. QED  BY <2>1, <2>2 DEF LeftBehindOnlyByFailure, Running, Prefix
<1>. QED  BY <1>1, <1>2, <1>3, <1>4, <1>5, <1>6

\* What is read is the transcript file of the call's own prefix.
LEMMA ReadInv == ASSUME LocalInv, Read PROVE LocalInv'
<1>. USE CallsAssumption DEF LocalInv, Read, Conclude
<1>1. LocalTypeOK'
  BY DEF LocalTypeOK, Calls, Files, Stages, Children, Answers, CurrentCall, Prefix
<1>2. FilesAreOwn'
  BY DEF FilesAreOwn, LocalTypeOK, CurrentCall, Calls, Files, Prefix
<1>3. NotYetBegun'
  BY DEF NotYetBegun, LocalTypeOK, CurrentCall, Calls, Files, Prefix
<1>4. CurrentCall'
  BY DEF CurrentCall, NotYetBegun, LocalTypeOK, Running, Calls, Files, Prefix
<1>5. TranscriptIsOwn'
  BY DEF TranscriptIsOwn, FilesAreOwn, LocalTypeOK, CurrentCall, Calls, Files, Prefix
<1>6. LeftBehindOnlyByFailure'
  <2>. SUFFICES ASSUME NEW c \in Calls, Over(c)'
                PROVE  /\ wav'[c] # 0 => answer'[c] = "Transport" \/ <<"wav", c>> \in stuck'
                       /\ txt'[c] # 0 => answer'[c] = "TimedOut" \/ <<"txt", c>> \in stuck'
                       /\ Running(c)' => answer'[c] = "TimedOut"
    BY DEF LeftBehindOnlyByFailure, Prefix
  <2>1. Over(c) /\ c # call
    BY <1>1 DEF Over, CurrentCall, LocalTypeOK, Calls, Files
  <2>2. /\ wav'[c] = wav[c] /\ txt'[c] = txt[c]
        /\ child'[c] = child[c] /\ answer'[c] = answer[c]
    BY <2>1 DEF LocalTypeOK, Prefix
  <2>. QED  BY <2>1, <2>2 DEF LeftBehindOnlyByFailure, Running, Prefix
<1>. QED  BY <1>1, <1>2, <1>3, <1>4, <1>5, <1>6

\* The audio of a call that settled is removed, or known not to have been.
LEMMA RemoveWavInv == ASSUME LocalInv, RemoveWav PROVE LocalInv'
<1>. USE CallsAssumption DEF LocalInv, RemoveWav, Stuck
<1>1. LocalTypeOK'
  <2>1. call \in Calls
    BY DEF CurrentCall
  <2>2. wav' \in [Calls -> Files]
    BY DEF LocalTypeOK, Files, Prefix
  <2>3. stuck' \subseteq {"wav", "txt"} \X Calls
    BY <2>1 DEF LocalTypeOK, Prefix
  <2>. QED  BY <2>2, <2>3 DEF LocalTypeOK, Stages
<1>2. FilesAreOwn'
  BY DEF FilesAreOwn, LocalTypeOK, CurrentCall, Calls, Files, Prefix
<1>3. NotYetBegun'
  BY DEF NotYetBegun, LocalTypeOK, CurrentCall, Calls, Files, Prefix
<1>4. CurrentCall'
  BY DEF CurrentCall, NotYetBegun, LocalTypeOK, Running, Calls, Files, Prefix
<1>5. TranscriptIsOwn'
  BY DEF TranscriptIsOwn, FilesAreOwn, LocalTypeOK, CurrentCall, Calls, Files, Prefix
<1>6. LeftBehindOnlyByFailure'
  BY DEF LeftBehindOnlyByFailure, CurrentCall, LocalTypeOK, Over, Running, Calls, Files, Prefix
<1>. QED  BY <1>1, <1>2, <1>3, <1>4, <1>5, <1>6

\* So is its transcript, before it returns.
LEMMA RemoveTxtInv == ASSUME LocalInv, RemoveTxt PROVE LocalInv'
<1>. USE CallsAssumption DEF LocalInv, RemoveTxt, Stuck
<1>1. LocalTypeOK'
  <2>1. call \in Calls
    BY DEF CurrentCall
  <2>2. txt' \in [Calls -> Files]
    BY DEF LocalTypeOK, Files, Prefix
  <2>3. stuck' \subseteq {"wav", "txt"} \X Calls
    BY <2>1 DEF LocalTypeOK, Prefix
  <2>. QED  BY <2>2, <2>3 DEF LocalTypeOK, Stages
<1>2. FilesAreOwn'
  BY DEF FilesAreOwn, LocalTypeOK, CurrentCall, Calls, Files, Prefix
<1>3. NotYetBegun'
  <2>. SUFFICES ASSUME NEW c \in Calls, c > call
                PROVE  child[c] = "none" /\ wav[c] = 0 /\ txt'[c] = 0
    BY DEF NotYetBegun
  <2>. QED  BY DEF NotYetBegun, LocalTypeOK, Prefix
<1>4. CurrentCall'
  BY DEF CurrentCall, NotYetBegun, LocalTypeOK, Running, Calls, Files, Prefix
<1>5. TranscriptIsOwn'
  BY DEF TranscriptIsOwn, FilesAreOwn, LocalTypeOK, CurrentCall, Calls, Files, Prefix
<1>6. LeftBehindOnlyByFailure'
  <2>. SUFFICES ASSUME NEW c \in Calls, Over(c)'
                PROVE  /\ wav'[c] # 0 => answer'[c] = "Transport" \/ <<"wav", c>> \in stuck'
                       /\ txt'[c] # 0 => answer'[c] = "TimedOut" \/ <<"txt", c>> \in stuck'
                       /\ Running(c)' => answer'[c] = "TimedOut"
    BY DEF LeftBehindOnlyByFailure, Prefix
  <2>1. CASE c = call
    BY <2>1 DEF CurrentCall, LocalTypeOK, Running, Prefix
  <2>2. CASE c # call
    <3>1. Over(c) /\ txt'[c] = txt[c] /\ stuck \subseteq stuck'
      BY <2>2 DEF Over, LocalTypeOK, Prefix
    <3>. QED  BY <3>1 DEF LeftBehindOnlyByFailure, Running, Prefix
  <2>. QED  BY <2>1, <2>2
<1>. QED  BY <1>1, <1>2, <1>3, <1>4, <1>5, <1>6

\* A child finds the audio of its own call, or none.
LEMMA ListensInv == ASSUME LocalInv, NEW c \in Calls, Listens(c) PROVE LocalInv'
<1>. USE CallsAssumption DEF LocalInv, Listens
<1>1. LocalTypeOK'
  BY DEF LocalTypeOK, Calls, Files, Children, FilesAreOwn, Prefix
<1>2. FilesAreOwn'
  BY DEF FilesAreOwn, LocalTypeOK, Calls, Files, Prefix
<1>3. NotYetBegun'
  BY DEF NotYetBegun, LocalTypeOK, Calls, Files, Prefix
<1>4. CurrentCall'
  BY DEF CurrentCall, LocalTypeOK, Running, Calls, Files, Prefix
<1>5. TranscriptIsOwn'
  BY DEF TranscriptIsOwn
<1>6. LeftBehindOnlyByFailure'
  BY DEF LeftBehindOnlyByFailure, LocalTypeOK, Over, Running, Calls, Files, Prefix
<1>. QED  BY <1>1, <1>2, <1>3, <1>4, <1>5, <1>6

\* A child that ends after its call left it behind is one of a call that timed out.
LEMMA ExitsInv == ASSUME LocalInv, NEW c \in Calls, Exits(c) PROVE LocalInv'
<1>. USE CallsAssumption DEF LocalInv, Exits
<1>1. LocalTypeOK'
  BY DEF LocalTypeOK, Calls, Files, Children, FilesAreOwn, Prefix
<1>2. FilesAreOwn'
  BY DEF FilesAreOwn, LocalTypeOK, Calls, Files, Prefix
<1>3. NotYetBegun'
  BY DEF NotYetBegun, LocalTypeOK, Calls, Files, Prefix
<1>4. CurrentCall'
  BY DEF CurrentCall, LocalTypeOK, Running, Calls, Files, Prefix
<1>5. TranscriptIsOwn'
  BY DEF TranscriptIsOwn
<1>6. LeftBehindOnlyByFailure'
  BY DEF LeftBehindOnlyByFailure, LocalTypeOK, Over, Running, Calls, Files, Prefix
<1>. QED  BY <1>1, <1>2, <1>3, <1>4, <1>5, <1>6

-----------------------------------------------------------------------------
\* Nothing is begun, running or written at the start.
LEMMA LocalInitInv == LocalInit => LocalInv
BY CallsAssumption DEF LocalInit, LocalInv, LocalTypeOK, FilesAreOwn, NotYetBegun, CurrentCall,
   TranscriptIsOwn, LeftBehindOnlyByFailure, Calls, Files, Stages, Children, Answers, Over,
   Running, Prefix

\* Every step of the call and of any child preserves the invariant.
LEMMA LocalNextInv == LocalInv /\ [LocalNext]_localVars => LocalInv'
<1>. SUFFICES ASSUME LocalInv, [LocalNext]_localVars PROVE LocalInv'
  OBVIOUS
<1>1. CASE CallStep
  BY <1>1, TranscribeInv, WriteFailsInv, SpawnInv, OutputArrivesInv, TimesOutInv, ReadInv,
     RemoveWavInv, RemoveTxtInv DEF CallStep
<1>2. CASE ChildStep
  BY <1>2, ListensInv, ExitsInv DEF ChildStep
<1>3. CASE UNCHANGED localVars
  BY <1>3 DEF localVars, LocalInv, LocalTypeOK, FilesAreOwn, NotYetBegun, CurrentCall,
     TranscriptIsOwn, LeftBehindOnlyByFailure, Over, Running, Prefix
<1>. QED  BY <1>1, <1>2, <1>3 DEF LocalNext

\* The inductive invariant of the local provider, for any number of calls.
THEOREM LocalInductive == LocalSpec => []LocalInv
BY LocalInitInv, LocalNextInv, PTL DEF LocalSpec

\* transcribe_utterance never returns the transcript of another call, whatever its
\* children and those of calls that timed out do, and whenever they do it.
THEOREM OwnTranscript == LocalSpec => []TranscriptIsOwn
BY LocalInductive, PTL DEF LocalInv

\* What a call leaves behind has its cause: a failed write, a failed removal or a timeout.
THEOREM LeftBehind == LocalSpec => []LeftBehindOnlyByFailure
BY LocalInductive, PTL DEF LocalInv

-----------------------------------------------------------------------------
(* The provider that the daemon built.                                      *)

\* The worker calls the one provider that build_provider made, and leaves the other as
\* it was: what holds of either of them alone holds of the daemon's provider.
THEOREM ProviderIsEither == ProviderSpec => HistorySpec /\ LocalSpec
<1>1. BuildProvider => HistoryInit /\ LocalInit
  BY DEF BuildProvider
<1>2. [ProviderNext]_providers => [HistoryNext]_vars /\ [LocalNext]_localVars
  <2>. SUFFICES ASSUME [ProviderNext]_providers
                PROVE  [HistoryNext]_vars /\ [LocalNext]_localVars
    OBVIOUS
  <2>1. CASE RemoteCall \/ RemoteReply \/ RemoteBackoff
    <3>1. HistoryNext /\ UNCHANGED localVars
      BY <2>1 DEF RemoteCall, RemoteReply, RemoteBackoff, HistoryNext, remote
    <3>. QED  BY <3>1
  <2>2. CASE LocalCall \/ LocalWrite \/ LocalOutput \/ LocalTimer \/ LocalRead
             \/ LocalRemove \/ LocalChild
    <3>1. LocalNext /\ UNCHANGED vars
      BY <2>2 DEF LocalCall, LocalWrite, LocalOutput, LocalTimer, LocalRead, LocalRemove,
                  LocalChild, LocalNext, CallStep, local
    <3>. QED  BY <3>1
  <2>3. CASE LocalRests \/ UNCHANGED providers
    BY <2>3 DEF LocalRests, providers
  <2>. QED  BY <2>1, <2>2, <2>3 DEF ProviderNext
<1>. QED  BY <1>1, <1>2, PTL DEF ProviderSpec, HistorySpec, LocalSpec

\* What the daemon's provider promises, whichever of the three it is: uploads are
\* bounded, a missing endpoint is not asked again, a transcript is of its own utterance,
\* and of a call nothing is left behind but by a failure.
THEOREM ProviderKeepsPromises ==
    ProviderSpec => /\ [](UploadsBounded /\ FallbackSticks)
                    /\ [](TranscriptIsOwn /\ LeftBehindOnlyByFailure)
                    /\ ChatterIsNoTranscript
BY ProviderIsEither, Bounded, Sticks, OwnTranscript, LeftBehind, NoChatter, PTL
===============================================================================
