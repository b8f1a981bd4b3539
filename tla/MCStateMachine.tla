--------------------------- MODULE MCStateMachine ---------------------------
(***************************************************************************)
(* StateMachine under its most general caller, with a history variable     *)
(* that logs the accepted transcription requests independently of pruning. *)
(***************************************************************************)
EXTENDS StateMachine

VARIABLE accepted       \* accepted[a]: requests accepted exactly a ticks ago

requestsVars == <<smvars, reply, accepted>>

InWindow == 0 .. RateWindow

AcceptedInWindow == RequestCount(accepted)

RequestsInit == SMInit /\ accepted = [a \in InWindow |-> 0]

RequestsCall ==
    /\ Call
    /\ accepted' = IF requests_last_minute'[0] > requests_last_minute[0]
                   THEN [accepted EXCEPT ![0] = @ + 1] ELSE accepted

RequestsElapse ==
    /\ Elapse /\ UNCHANGED reply
    /\ accepted' = [a \in InWindow |-> IF a = 0 THEN 0 ELSE accepted[a - 1]]

RequestsNext == RequestsCall \/ RequestsElapse
RequestsSpec == RequestsInit /\ [][RequestsNext]_requestsVars

\* The rate limit is exact: no window of RateWindow ticks holds more accepted
\* requests than allowed, and a request is refused for its rate only when the
\* window is full.  It must hold however long the deque was left unpruned.
RateLimitExact ==
    /\ AcceptedInWindow <= MaxRequests
    /\ RateLimited <=> AcceptedInWindow = MaxRequests
=============================================================================
