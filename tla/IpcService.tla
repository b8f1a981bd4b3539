----------------------------- MODULE IpcService -----------------------------
(***************************************************************************)
(* The life of a daemon as its clients see it: server::run (ipc/server.rs) *)
(* takes the socket path, answers one connection at a time and gives the   *)
(* path up; main.rs turns its result into the exit status, by which        *)
(* systemd restarts the service.  A second instance may be started by hand *)
(* on the same path.  What a command does is in module Daemon.             *)
(***************************************************************************)
EXTENDS Integers, Sequences

CONSTANTS
    Daemons, Service,   \* the instances, and the one systemd restarts
    Clients,            \* bound: calls of sttctl
    StartLimit,         \* bound on the lives of each; the service's is StartLimitBurst
    Asked,              \* bound: what the calls may ask
    NoDaemon, NoClient

Requests == {"command", "shutdown", "mismatched"}

ASSUME ServiceAssumption ==
    /\ Service \in Daemons /\ NoDaemon \notin Daemons /\ NoClient \notin Clients
    /\ StartLimit \in [Daemons -> Nat]
    /\ Asked \subseteq [Clients -> Requests]

VARIABLES
    phase,      \* where each instance is in server::run
    why,        \* how its life ended
    starts,     \* lives it has had
    asked,      \* what asked it to stop: "nothing", a "signal" or a "command"
    alone,      \* whether no other instance lived during this life of it
    socket,     \* the instance that bound the file at the path
    backlog,    \* connections it has not accepted
    conn,       \* the connection in handle_connection
    response,   \* what is decided to write to it
    pc,         \* where each call of sttctl is
    at,         \* the instance it is connected to
    request,    \* what it asks
    reply,      \* how it ended
    executed    \* how often its command was executed

lives   == <<why, starts, asked, alone>>
calls   == <<pc, at, reply>>
orders  == <<request, executed>>
hands   == <<conn, response>>
serviceVars == <<phase, lives, socket, backlog, hands, calls, orders>>

\* A client waits for the daemon, or has gone before or after it sent its request.
Waiting == {"connected", "sent"}
Gone    == {"killed unsent", "killed"}

ServiceInit ==
    /\ phase = [d \in Daemons |-> "off"] /\ why = [d \in Daemons |-> "never started"]
    /\ starts = [d \in Daemons |-> 0] /\ asked = [d \in Daemons |-> "nothing"]
    /\ alone = [d \in Daemons |-> TRUE]
    /\ socket \in {NoDaemon, Service}
    /\ backlog = [d \in Daemons |-> <<>>] /\ conn = [d \in Daemons |-> NoClient]
    /\ response = [d \in Daemons |-> "none"]
    /\ pc = [c \in Clients |-> "new"] /\ at = [c \in Clients |-> NoDaemon]
    /\ request \in Asked
    /\ reply = [c \in Clients |-> "none"] /\ executed = [c \in Clients |-> 0]

-----------------------------------------------------------------------------
(* The instance *)

\* The listener exists from bind to the return of run.
Listening(d) == phase[d] \in {"chmod", "accept", "read", "execute", "write", "close"}

GoesTo(d, next) ==
    /\ phase' = [phase EXCEPT ![d] = next]
    /\ UNCHANGED <<lives, calls, orders>>

\* The listener and its connections are gone: who waits reads the end of the stream.
Ends(d, next, reason) ==
    LET cut == {c \in Clients : at[c] = d} IN
    /\ phase' = [phase EXCEPT ![d] = next] /\ why' = [why EXCEPT ![d] = reason]
    /\ backlog' = [backlog EXCEPT ![d] = <<>>] /\ conn' = [conn EXCEPT ![d] = NoClient]
    /\ response' = [response EXCEPT ![d] = "none"]
    /\ pc' = [c \in Clients |-> IF c \in cut THEN "ended" ELSE pc[c]]
    /\ reply' = [c \in Clients |-> IF c \in cut /\ pc[c] \notin Gone THEN "dropped" ELSE reply[c]]
    /\ at' = [c \in Clients |-> IF c \in cut THEN NoDaemon ELSE at[c]]
    /\ UNCHANGED <<starts, asked, alone, orders>>

\* An error leaves the file, whoever bound it, and is the exit status of main.
FailureIgnored(reason) == "stopped"
FailureOf(reason)      == reason

Fails(d, reason) == Ends(d, "drain", FailureOf(reason)) /\ UNCHANGED socket

Starts(d) ==
    /\ phase[d] = "off" /\ starts[d] < StartLimit[d]
    /\ phase' = [phase EXCEPT ![d] = "load"] /\ why' = [why EXCEPT ![d] = "running"]
    /\ starts' = [starts EXCEPT ![d] = @ + 1] /\ asked' = [asked EXCEPT ![d] = "nothing"]
    /\ alone' = [e \in Daemons |->
                    IF e = d THEN \A f \in Daemons \ {d} : phase[f] = "off"
                    ELSE alone[e] /\ phase[e] = "off"]
    /\ UNCHANGED <<socket, backlog, hands, calls, orders>>

\* The configuration, the provider and what it probes: main returns before any task runs.
Loads(d) ==
    /\ phase[d] = "load"
    /\ \/ GoesTo(d, "prepare") /\ UNCHANGED <<backlog, hands>>
       \/ Ends(d, "off", "refused")
    /\ UNCHANGED socket

NeverRemoves == FALSE
MustRemove   == socket # NoDaemon

\* The directory cannot be made, or the file system refuses what is asked of the path.
PathRefused(d) ==
    /\ phase[d] \in {"prepare", "remove", "bind", "chmod"}
    /\ Fails(d, "path")

\* prepare_socket looks first and removes then.
Prepares(d) ==
    /\ phase[d] = "prepare"
    /\ GoesTo(d, IF MustRemove THEN "remove" ELSE "bind")
    /\ UNCHANGED <<socket, backlog, hands>>

Removes(d) ==
    /\ phase[d] = "remove"
    /\ \/ /\ socket # NoDaemon /\ socket' = NoDaemon
          /\ GoesTo(d, "bind") /\ UNCHANGED <<backlog, hands>>
       \/ socket = NoDaemon /\ Fails(d, "startup")

Binds(d) ==
    /\ phase[d] = "bind"
    /\ \/ /\ socket = NoDaemon /\ socket' = d
          /\ GoesTo(d, "chmod") /\ UNCHANGED <<backlog, hands>>
       \/ socket # NoDaemon /\ Fails(d, "startup")

SetsPermissions(d) ==
    /\ phase[d] = "chmod"
    /\ \/ /\ socket # NoDaemon
          /\ GoesTo(d, "accept") /\ UNCHANGED <<socket, backlog, hands>>
       \/ socket = NoDaemon /\ Fails(d, "startup")

LeavesOnCommand(d) == phase[d] = "close"
LeavesLoop(d)      == phase[d] = "close" \/ (phase[d] = "accept" /\ asked[d] = "signal")

\* Whatever file is at the path by now is removed.
Closes(d) ==
    /\ LeavesLoop(d)
    /\ Ends(d, "drain", "stopped") /\ socket' = NoDaemon

\* main has waited for the worker and resumed the players.
Exits(d) == phase[d] = "drain" /\ GoesTo(d, "off") /\ UNCHANGED <<socket, backlog, hands>>

-----------------------------------------------------------------------------
(* One connection at a time *)

Accepts(d) ==
    /\ phase[d] = "accept" /\ backlog[d] # <<>>
    /\ conn' = [conn EXCEPT ![d] = Head(backlog[d])]
    /\ backlog' = [backlog EXCEPT ![d] = Tail(@)]
    /\ GoesTo(d, "read") /\ UNCHANGED <<socket, response>>

\* An error of accept or of read_to_end, which ends run.
ConnectionBreaks(d) == phase[d] \in {"accept", "read"} /\ Fails(d, "connection")

\* A request that does not decode, or that speaks another version.
Unread(c)   == pc[c] = "killed unsent"
Rejected(c) == Unread(c) \/ request[c] = "mismatched"

\* Shutdown does nothing but ask the loop to stop, which a signal may have done before.
Carried(d, c) ==
    /\ executed' = [executed EXCEPT ![c] = @ + 1]
    /\ asked' = IF request[c] = "shutdown" /\ asked[d] = "nothing"
                THEN [asked EXCEPT ![d] = "command"] ELSE asked

Responds(d, decided) ==
    /\ phase' = [phase EXCEPT ![d] = "write"]
    /\ response' = [response EXCEPT ![d] = decided]

ReadsThenTests(d) ==
    /\ phase[d] = "read" /\ pc[conn[d]] \in Gone \cup {"sent"}
    /\ IF Unread(conn[d]) THEN UNCHANGED <<executed, asked>> ELSE Carried(d, conn[d])
    /\ Responds(d, IF Rejected(conn[d]) THEN "rejected" ELSE "done")
    /\ UNCHANGED <<why, starts, alone, socket, backlog, conn, calls, request>>

\* read_to_end has no timeout: it returns when the client has shut its side down or died.
Reads(d) ==
    /\ phase[d] = "read" /\ pc[conn[d]] \in Gone \cup {"sent"}
    /\ \/ Rejected(conn[d]) /\ Responds(d, "rejected")
       \/ ~Rejected(conn[d]) /\ phase' = [phase EXCEPT ![d] = "execute"] /\ UNCHANGED response
    /\ UNCHANGED <<lives, socket, backlog, conn, calls, orders>>

\* execute_command gives the response, and whether to stop once it is written.
ExecutesCommand(d) ==
    /\ phase[d] = "execute"
    /\ Carried(d, conn[d])
    /\ Responds(d, IF request[conn[d]] = "shutdown" THEN "stopping" ELSE "done")
    /\ UNCHANGED <<why, starts, alone, socket, backlog, conn, calls, request>>

\* Writing to a client that has gone is an error, which ends run.
Writes(d) ==
    /\ phase[d] = "write"
    /\ LET c == conn[d] IN
       \/ pc[c] \in Gone /\ Fails(d, "connection")
       \/ /\ pc[c] \notin Gone
          /\ phase' = [phase EXCEPT ![d] = IF response[d] = "stopping" THEN "close" ELSE "accept"]
          /\ pc' = [pc EXCEPT ![c] = "ended"] /\ at' = [at EXCEPT ![c] = NoDaemon]
          /\ reply' = [reply EXCEPT ![c] =
                          IF response[d] = "rejected" THEN "rejected" ELSE "answered"]
          /\ conn' = [conn EXCEPT ![d] = NoClient]
          /\ response' = [response EXCEPT ![d] = "none"]
          /\ UNCHANGED <<lives, socket, backlog, orders>>

-----------------------------------------------------------------------------
(* The clients, and what happens to a process *)

Connects(c) ==
    /\ pc[c] = "new"
    /\ IF socket \in Daemons /\ Listening(socket)
       THEN /\ pc' = [pc EXCEPT ![c] = "connected"] /\ at' = [at EXCEPT ![c] = socket]
            /\ backlog' = [backlog EXCEPT ![socket] = Append(@, c)]
            /\ UNCHANGED reply
       ELSE /\ pc' = [pc EXCEPT ![c] = "ended"] /\ reply' = [reply EXCEPT ![c] = "refused"]
            /\ UNCHANGED <<at, backlog>>
    /\ UNCHANGED <<phase, lives, socket, hands, orders>>

\* The request, and the end of the client's side.
Sends(c) ==
    /\ pc[c] = "connected" /\ pc' = [pc EXCEPT ![c] = "sent"]
    /\ UNCHANGED <<phase, lives, socket, backlog, hands, at, reply, orders>>

IsKilled(c) ==
    /\ \/ pc[c] \in {"connected", "suspended"} /\ pc' = [pc EXCEPT ![c] = "killed unsent"]
       \/ pc[c] = "sent" /\ pc' = [pc EXCEPT ![c] = "killed"]
    /\ UNCHANGED <<phase, lives, socket, backlog, hands, at, reply, orders>>

IsSuspended(c) ==
    /\ pc[c] = "connected" /\ pc' = [pc EXCEPT ![c] = "suspended"]
    /\ UNCHANGED <<phase, lives, socket, backlog, hands, at, reply, orders>>

IsSignalled(d) ==
    /\ phase[d] \notin {"off", "load", "drain"} /\ asked[d] # "signal"
    /\ asked' = [asked EXCEPT ![d] = "signal"]
    /\ UNCHANGED <<phase, why, starts, alone, socket, backlog, hands, calls, orders>>

\* SIGKILL, a panic or the end of the machine's memory.
Dies(d) == phase[d] # "off" /\ Ends(d, "off", "killed") /\ UNCHANGED socket

-----------------------------------------------------------------------------
ServerStep(d) ==
    \/ Loads(d) \/ Prepares(d) \/ Removes(d) \/ Binds(d) \/ SetsPermissions(d)
    \/ Accepts(d) \/ Reads(d) \/ ExecutesCommand(d) \/ Writes(d) \/ Closes(d) \/ Exits(d)

\* Restart=on-failure, unless it was stopped or has started too often.
Restarts ==
    /\ why[Service] \in {"refused", "path", "startup", "connection", "killed"}
    /\ asked[Service] # "signal"
    /\ Starts(Service)

ServiceNext ==
    \/ \E d \in Daemons : Starts(d) \/ ServerStep(d) \/ IsSignalled(d)
    \/ \E d \in Daemons : PathRefused(d) \/ ConnectionBreaks(d) \/ Dies(d)
    \/ \E c \in Clients : Connects(c) \/ Sends(c) \/ IsKilled(c) \/ IsSuspended(c)

ServiceSpec == ServiceInit /\ [][ServiceNext]_serviceVars

\* An instance runs, systemd restarts, and a client that is not stopped sends its request.
FairService ==
    /\ ServiceSpec
    /\ \A d \in Daemons : WF_serviceVars(ServerStep(d))
    /\ \A c \in Clients : WF_serviceVars(Sends(c))
    /\ WF_serviceVars(Restarts)

-----------------------------------------------------------------------------
\* A client that was answered had its command executed, once; one that was refused or
\* rejected had not, so it may be given again.  And an instance that was told by a client
\* to stop fails, and so is restarted, only if it could not tell that client so.
AnswerMeansDone ==
    /\ \A c \in Clients :
          /\ reply[c] = "answered" => executed[c] = 1
          /\ reply[c] \in {"refused", "rejected"} => executed[c] = 0
    /\ \A d \in Daemons :
          asked[d] = "command" /\ why[d] \in {"path", "startup", "connection"} =>
             \E c \in Clients :
                request[c] = "shutdown" /\ executed[c] = 1 /\ reply[c] # "answered"

\* An instance that has the machine to itself is never kept from starting by what an
\* earlier one left at the path, and the path leads to it for as long as it listens.
LoneInstanceServes ==
    \A d \in Daemons : alone[d] =>
        /\ why[d] # "startup"
        /\ Listening(d) => socket = d

\* The service comes back after every end that nobody asked for (a client killed before
\* it was answered is such an end), until systemd gives it up.
ServiceReturns ==
    (phase[Service] = "off" /\ starts[Service] > 0 /\ asked[Service] = "nothing")
        ~> \/ Listening(Service)
           \/ phase[Service] = "off" /\ starts[Service] = StartLimit[Service]

\* Every call of sttctl ends and every signal stops its instance, whoever else dies or
\* is stopped, unless a client holds its connection open without sending.
NobodyWaitsForever ==
    LET held == \E c \in Clients : pc[c] = "suspended" IN
    /\ \A c \in Clients : (pc[c] \in Waiting) ~> (pc[c] \notin Waiting \/ held)
    /\ \A d \in Daemons : (asked[d] = "signal") ~> (phase[d] = "off" \/ held)
=============================================================================
