-------------------------- MODULE IpcServiceProofs --------------------------
(***************************************************************************)
(* Proofs about the life of any number of daemons on one path and of any   *)
(* number of calls of sttctl.                                              *)
(*                                                                         *)
(* What a client was told says what was done to its command because every  *)
(* client an instance holds is held once, in the backlog or in the         *)
(* connection being handled, and only the latter has been executed.        *)
(***************************************************************************)
EXTENDS IpcService, SequenceTheorems, TLAPS

-----------------------------------------------------------------------------
(* The inductive invariant, part by part.                                   *)

Phases == {"off", "load", "prepare", "remove", "bind", "chmod", "accept", "read",
           "execute", "write", "close", "drain"}

\* Where handle_connection has a client in hand.
InHand == {"read", "execute", "write"}

Reasons == {"never started", "running", "refused", "path", "startup", "connection",
            "stopped", "killed"}

Responses == {"none", "rejected", "done", "stopping"}

\* Where a client is that an instance holds: it waits, or it has gone.
Held == {"connected", "sent", "suspended", "killed unsent", "killed"}

ServiceTypeOK ==
    /\ phase \in [Daemons -> Phases] /\ why \in [Daemons -> Reasons]
    /\ starts \in [Daemons -> Nat]
    /\ asked \in [Daemons -> {"nothing", "signal", "command"}]
    /\ alone \in [Daemons -> BOOLEAN]
    /\ socket \in Daemons \cup {NoDaemon}
    /\ backlog \in [Daemons -> Seq(Clients)]
    /\ conn \in [Daemons -> Clients \cup {NoClient}]
    /\ response \in [Daemons -> Responses]
    /\ pc \in [Clients -> Held \cup {"new", "ended"}]
    /\ at \in [Clients -> Daemons \cup {NoDaemon}]
    /\ request \in [Clients -> Requests]
    /\ reply \in [Clients -> {"none", "refused", "rejected", "answered", "dropped"}]
    /\ executed \in [Clients -> Nat]

\* A client is at an instance from connect until either of them is done with it; it has
\* no answer before that.
PlaceOK ==
    \A c \in Clients :
        /\ at[c] = NoDaemon <=> pc[c] \in {"new", "ended"}
        /\ at[c] # NoDaemon \/ pc[c] = "new" => reply[c] = "none"
        /\ pc[c] = "new" => executed[c] = 0

\* An instance holds a client once, and has a client in hand only while it handles one.
BacklogOK ==
    \A d \in Daemons :
        /\ \A i \in 1 .. Len(backlog[d]) :
              /\ at[backlog[d][i]] = d /\ backlog[d][i] # conn[d]
              /\ \A j \in 1 .. Len(backlog[d]) : backlog[d][i] = backlog[d][j] => i = j
        /\ conn[d] # NoClient => at[conn[d]] = d
        /\ phase[d] \in InHand <=> conn[d] # NoClient

\* Of the clients it holds, an instance has executed the command of at most the one it is
\* about to answer.
ExecutedOK ==
    \A c \in Clients :
        at[c] # NoDaemon =>
           executed[c] = 0 \/ (conn[at[c]] = c /\ phase[at[c]] = "write")

\* What is about to be written to the client in hand is what was done for it.
ResponseOK ==
    \A d \in Daemons : phase[d] = "write" =>
        /\ response[d] # "none"
        /\ response[d] = "rejected" => executed[conn[d]] = 0
        /\ response[d] # "rejected" => executed[conn[d]] = 1
        /\ response[d] = "stopping" => request[conn[d]] = "shutdown"

\* A client that asked for a shutdown and will never know that it was carried out.
Untold(c) ==
    /\ request[c] = "shutdown" /\ executed[c] = 1
    /\ pc[c] = "ended" /\ reply[c] # "answered"

\* What becomes of an instance that a client told to stop: it answers and leaves its
\* loop, it dies, or it fails because that client could not be answered.
Stopping(d) ==
    \/ phase[d] = "write" /\ why[d] = "running" /\ response[d] = "stopping"
    \/ phase[d] = "close" /\ why[d] = "running"
    \/ phase[d] \in {"drain", "off"} /\ why[d] \in {"stopped", "killed"}
    \/ phase[d] \in {"drain", "off"} /\ why[d] = "connection" /\ \E c \in Clients : Untold(c)

\* What is known of an instance: it is running until its server::run has returned or it
\* died, and told to stop it is stopping.
Kept(d) ==
    /\ asked[d] = "command" => Stopping(d)
    /\ phase[d] \notin {"off", "drain"} => why[d] = "running"

\* What a client was told of its command.
ToldOK ==
    \A c \in Clients :
        /\ reply[c] = "answered" => executed[c] = 1
        /\ reply[c] \in {"refused", "rejected"} => executed[c] = 0

\* An instance that is alone finds at the path what it left there itself.
AloneOK ==
    \A d \in Daemons : alone[d] =>
        /\ phase[d] # "off" => \A e \in Daemons \ {d} : phase[e] = "off"
        /\ phase[d] = "remove" => socket # NoDaemon
        /\ phase[d] = "bind" => socket = NoDaemon

\* What holds of the clients, of being told to stop, and of the socket.
ClientsInv == ServiceTypeOK /\ PlaceOK /\ BacklogOK /\ ExecutedOK /\ ResponseOK /\ ToldOK
StopInv    == \A d \in Daemons : Kept(d)
SocketInv  == AloneOK /\ LoneInstanceServes

-----------------------------------------------------------------------------
(* The clients.                                                             *)

LEMMA ClientsInit == ServiceInit => ClientsInv
<1> SUFFICES ASSUME ServiceInit PROVE ClientsInv
  OBVIOUS
<1> USE ServiceAssumption DEF ServiceInit
<1>1. ServiceTypeOK
  <2>1. backlog \in [Daemons -> Seq(Clients)]
    BY EmptySeq
  <2>2. request \in [Clients -> Requests]
    OBVIOUS
  <2> QED
    BY <2>1, <2>2 DEF ServiceTypeOK, Phases, Reasons, Responses
<1>2. BacklogOK
  <2>1. \A d \in Daemons : backlog[d] = <<>> /\ conn[d] = NoClient /\ phase[d] = "off"
    OBVIOUS
  <2> HIDE DEF ServiceInit
  <2>2. \A d \in Daemons : Len(backlog[d]) = 0
    BY <2>1, EmptySeq
  <2>3. \A i \in 1 .. 0 : FALSE
    OBVIOUS
  <2> QED
    BY <2>1, <2>2, <2>3 DEF BacklogOK, InHand
<1>3. PlaceOK /\ ExecutedOK /\ ResponseOK /\ ToldOK
  <2>1. \A c \in Clients : pc[c] = "new" /\ at[c] = NoDaemon /\ reply[c] = "none"
                           /\ executed[c] = 0
    OBVIOUS
  <2>2. \A d \in Daemons : phase[d] = "off"
    OBVIOUS
  <2> HIDE DEF ServiceInit
  <2> QED
    BY <2>1, <2>2 DEF PlaceOK, ExecutedOK, ResponseOK, ToldOK
<1> QED
  BY <1>1, <1>2, <1>3 DEF ClientsInv

\* An instance goes on, with no client in hand before and after.
LEMMA PhaseStep ==
  ASSUME ClientsInv, NEW d \in Daemons, NEW p \in Phases,
         phase[d] \notin InHand, p \notin InHand,
         phase' = [phase EXCEPT ![d] = p], socket' \in Daemons \cup {NoDaemon},
         why' \in [Daemons -> Reasons], starts' \in [Daemons -> Nat],
         asked' \in [Daemons -> {"nothing", "signal", "command"}],
         alone' \in [Daemons -> BOOLEAN],
         UNCHANGED <<backlog, hands, calls, orders>>
  PROVE  ClientsInv'
<1>1. ServiceTypeOK' /\ PlaceOK' /\ ToldOK'
  BY DEF ClientsInv, ServiceTypeOK, PlaceOK, ToldOK, hands, calls, orders
<1>2. \A e \in Daemons : phase'[e] \in InHand <=> phase[e] \in InHand
  BY DEF ClientsInv, ServiceTypeOK
<1>3. BacklogOK'
  BY <1>2 DEF ClientsInv, BacklogOK, hands, calls
<1>4. ExecutedOK'
  BY <1>2 DEF ClientsInv, ServiceTypeOK, ExecutedOK, InHand, hands, calls, orders
<1>5. ResponseOK'
  BY DEF ClientsInv, ServiceTypeOK, ResponseOK, InHand, hands, orders
<1> QED
  BY <1>1, <1>3, <1>4, <1>5 DEF ClientsInv

\* The instance ends, and with it whatever its clients wait for.
LEMMA EndsStep ==
  ASSUME ClientsInv, NEW d \in Daemons, NEW next \in {"drain", "off"},
         NEW reason \in Reasons, Ends(d, next, reason),
         socket' \in Daemons \cup {NoDaemon}
  PROVE  ClientsInv'
<1> USE DEF ClientsInv, Ends, orders
<1>1. ServiceTypeOK'
  <2>1. phase' \in [Daemons -> Phases] /\ why' \in [Daemons -> Reasons]
        /\ conn' \in [Daemons -> Clients \cup {NoClient}]
        /\ response' \in [Daemons -> Responses]
    BY DEF ServiceTypeOK, Phases, Responses
  <2>2. backlog' \in [Daemons -> Seq(Clients)]
    BY DEF ServiceTypeOK
  <2>3. /\ pc' \in [Clients -> Held \cup {"new", "ended"}]
        /\ at' \in [Clients -> Daemons \cup {NoDaemon}]
        /\ reply' \in [Clients -> {"none", "refused", "rejected", "answered", "dropped"}]
    BY DEF ServiceTypeOK
  <2> QED
    BY <2>1, <2>2, <2>3 DEF ServiceTypeOK
<1>2. PlaceOK'
  BY ServiceAssumption DEF ServiceTypeOK, PlaceOK, Held, Gone
<1>3. BacklogOK'
  <2> SUFFICES ASSUME NEW e \in Daemons
               PROVE  /\ \A i \in 1 .. Len(backlog[e]') :
                            /\ at'[backlog'[e][i]] = e /\ backlog'[e][i] # conn'[e]
                            /\ \A j \in 1 .. Len(backlog[e]') :
                                  backlog'[e][i] = backlog'[e][j] => i = j
                      /\ conn'[e] # NoClient => at'[conn'[e]] = e
                      /\ phase'[e] \in InHand <=> conn'[e] # NoClient
    BY DEF BacklogOK
  <2>1. CASE e = d
    BY <2>1, EmptySeq DEF ServiceTypeOK, InHand
  <2>2. CASE e # d
    <3>1. backlog'[e] = backlog[e] /\ conn'[e] = conn[e] /\ phase'[e] = phase[e]
      BY <2>2 DEF ServiceTypeOK
    <3>2. \A c \in Clients : at[c] = e => at'[c] = e
      BY <2>2 DEF ServiceTypeOK
    <3>3. \A i \in 1 .. Len(backlog[e]) : backlog[e][i] \in Clients
      BY ElementOfSeq DEF ServiceTypeOK
    <3> QED
      BY <3>1, <3>2, <3>3 DEF BacklogOK, ServiceTypeOK
  <2> QED
    BY <2>1, <2>2
<1>4. ExecutedOK'
  BY DEF ServiceTypeOK, ExecutedOK
<1>5. ToldOK'
  BY DEF ServiceTypeOK, ToldOK
<1>6. ResponseOK'
  BY DEF ServiceTypeOK, ResponseOK
<1> QED
  BY <1>1, <1>2, <1>3, <1>4, <1>5, <1>6

\* What an instance does before it listens, and after, changes no client but by ending.
LEMMA QuietStep ==
  ASSUME ClientsInv, NEW d \in Daemons,
         \/ Starts(d) \/ Loads(d) \/ Prepares(d) \/ Removes(d) \/ Binds(d)
         \/ SetsPermissions(d) \/ PathRefused(d) \/ ConnectionBreaks(d) \/ Closes(d)
         \/ Exits(d) \/ Dies(d)
  PROVE  ClientsInv'
<1> USE ServiceAssumption
<1>1. socket \in Daemons \cup {NoDaemon}
  BY DEF ClientsInv, ServiceTypeOK
<1>2. CASE \E next \in {"drain", "off"}, reason \in Reasons : Ends(d, next, reason)
  BY <1>1, <1>2, EndsStep
     DEF Starts, Loads, Prepares, Removes, Binds, SetsPermissions, PathRefused,
         ConnectionBreaks, Closes, Exits, Dies, Fails
<1>3. CASE \E p \in Phases :
              /\ phase[d] \notin InHand /\ p \notin InHand
              /\ GoesTo(d, p) /\ UNCHANGED <<backlog, hands>>
              /\ socket' \in Daemons \cup {NoDaemon}
  BY <1>3, PhaseStep DEF GoesTo, lives, ClientsInv, ServiceTypeOK
<1>4. CASE Starts(d)
  <2>1. why' \in [Daemons -> Reasons]
    BY <1>4 DEF Starts, ClientsInv, ServiceTypeOK, Reasons
  <2>2. starts' \in [Daemons -> Nat]
    BY <1>4 DEF Starts, ClientsInv, ServiceTypeOK
  <2>3. asked' \in [Daemons -> {"nothing", "signal", "command"}]
    BY <1>4 DEF Starts, ClientsInv, ServiceTypeOK
  <2>4. alone' \in [Daemons -> BOOLEAN]
    BY <1>4, Zenon DEF Starts
  <2> QED
    BY <1>1, <1>4, <2>1, <2>2, <2>3, <2>4, PhaseStep DEF Starts, Phases, InHand
<1> QED
  BY <1>1, <1>2, <1>3, <1>4
     DEF Loads, Prepares, Removes, Binds, SetsPermissions, PathRefused, ConnectionBreaks,
         Closes, Exits, Dies, Fails, LeavesLoop, InHand, FailureOf, MustRemove, Phases, Reasons

\* The client accepted is the first of the backlog, and no longer in it.
LEMMA AcceptsStep ==
  ASSUME ClientsInv, NEW d \in Daemons, Accepts(d)
  PROVE  ClientsInv'
<1> USE DEF ClientsInv, Accepts, GoesTo, lives, calls, orders
<1> DEFINE q == backlog[d]
<1>1. q \in Seq(Clients) /\ q # <<>>
  BY DEF ServiceTypeOK
<1>2. Head(q) \in Clients /\ Head(q) = q[1] /\ Tail(q) \in Seq(Clients)
  BY <1>1
<1>3. Len(Tail(q)) = Len(q) - 1 /\ Len(q) \in Nat \ {0}
      /\ \A i \in 1 .. Len(Tail(q)) : Tail(q)[i] = q[i + 1]
  BY <1>1
<1>4. ServiceTypeOK'
  BY <1>2 DEF ServiceTypeOK, Phases
<1>5. PlaceOK' /\ ToldOK'
  BY DEF PlaceOK, ToldOK
<1>6. conn[d] = NoClient
  BY DEF BacklogOK, InHand
<1>7. BacklogOK'
  <2> SUFFICES ASSUME NEW e \in Daemons
               PROVE  /\ \A i \in 1 .. Len(backlog[e]') :
                            /\ at'[backlog'[e][i]] = e /\ backlog'[e][i] # conn'[e]
                            /\ \A j \in 1 .. Len(backlog[e]') :
                                  backlog'[e][i] = backlog'[e][j] => i = j
                      /\ conn'[e] # NoClient => at'[conn'[e]] = e
                      /\ phase'[e] \in InHand <=> conn'[e] # NoClient
    BY DEF BacklogOK
  <2>1. CASE e = d
    <3>1. backlog'[e] = Tail(q) /\ conn'[e] = q[1] /\ phase'[e] = "read"
      BY <2>1, <1>2 DEF ServiceTypeOK
    <3>2. /\ \A i \in 1 .. Len(q) : at[q[i]] = d
          /\ \A i, j \in 1 .. Len(q) : q[i] = q[j] => i = j
      BY DEF BacklogOK
    <3>3. \A i \in 1 .. Len(Tail(q)) : i + 1 \in 1 .. Len(q) /\ i + 1 # 1
      BY <1>3
    <3> HIDE DEF q
    <3>4. \A i \in 1 .. Len(Tail(q)) : at[Tail(q)[i]] = d /\ Tail(q)[i] # q[1]
      BY <1>3, <3>2, <3>3
    <3>5. \A i, j \in 1 .. Len(Tail(q)) : Tail(q)[i] = Tail(q)[j] => i = j
      BY <1>3, <3>2, <3>3
    <3>6. at[q[1]] = d /\ q[1] # NoClient
      BY <1>2, <1>3, <3>2, ServiceAssumption
    <3>7. at' = at
      OBVIOUS
    <3> HIDE DEF Accepts, ClientsInv
    <3>8. \A i \in 1 .. Len(backlog[e]') : at'[backlog'[e][i]] = e /\ backlog'[e][i] # conn'[e]
      BY <2>1, <3>1, <3>4, <3>7
    <3>9. \A i, j \in 1 .. Len(backlog[e]') : backlog'[e][i] = backlog'[e][j] => i = j
      BY <3>1, <3>5
    <3>10. at'[conn'[e]] = e /\ conn'[e] # NoClient /\ phase'[e] = "read"
      BY <2>1, <3>1, <3>6, <3>7
    <3> QED
      BY <3>8, <3>9, <3>10 DEF InHand
  <2>2. CASE e # d
    BY <2>2 DEF BacklogOK, ServiceTypeOK
  <2> QED
    BY <2>1, <2>2
<1>8. ExecutedOK'
  BY <1>6, ServiceAssumption DEF ServiceTypeOK, ExecutedOK
<1>9. ResponseOK'
  BY DEF ServiceTypeOK, ResponseOK
<1> QED
  BY <1>4, <1>5, <1>7, <1>8, <1>9

\* The request is read: nothing is executed yet, and nothing ever for a rejected one.
LEMMA ReadsStep ==
  ASSUME ClientsInv, NEW d \in Daemons, Reads(d)
  PROVE  ClientsInv'
<1> USE DEF ClientsInv, Reads, Responds, lives, calls, orders
<1>0. \/ phase' = [phase EXCEPT ![d] = "write"]
         /\ response' = [response EXCEPT ![d] = "rejected"]
      \/ phase' = [phase EXCEPT ![d] = "execute"] /\ response' = response
  OBVIOUS
<1>1. executed[conn[d]] = 0
  <2>1. conn[d] # NoClient /\ at[conn[d]] = d
    BY DEF BacklogOK, InHand
  <2>2. conn[d] \in Clients
    BY <2>1 DEF ServiceTypeOK
  <2> QED
    BY <2>1, <2>2, ServiceAssumption DEF ExecutedOK
<1>2. ServiceTypeOK'
  <2>1. \E next \in Phases : phase' = [phase EXCEPT ![d] = next]
    BY <1>0 DEF Phases
  <2>2. response' \in [Daemons -> Responses]
    BY <1>0 DEF ServiceTypeOK, Responses
  <2> QED
    BY <2>1, <2>2 DEF ServiceTypeOK
<1>3. PlaceOK' /\ ToldOK'
  BY DEF PlaceOK, ToldOK
<1>4. BacklogOK'
  BY DEF BacklogOK, ServiceTypeOK, InHand
<1>5. ExecutedOK'
  BY DEF ExecutedOK, ServiceTypeOK
<1>6. ResponseOK'
  <2>1. CASE phase'[d] = "execute"
    BY <1>0, <2>1 DEF ResponseOK, ServiceTypeOK
  <2>2. CASE phase'[d] = "write"
    <3>1. response'[d] = "rejected" /\ executed' = executed /\ conn' = conn
      BY <1>0, <2>2 DEF ServiceTypeOK
    <3>2. \A e \in Daemons : e # d => phase'[e] = phase[e] /\ response'[e] = response[e]
      BY <1>0 DEF ServiceTypeOK
    <3> QED
      BY <1>1, <3>1, <3>2 DEF ResponseOK
  <2> QED
    BY <1>0, <2>1, <2>2 DEF ServiceTypeOK
<1> QED
  BY <1>2, <1>3, <1>4, <1>5, <1>6

\* The command of the client in hand is executed for the first time.
LEMMA ExecutesStep ==
  ASSUME ClientsInv, NEW d \in Daemons, ExecutesCommand(d)
  PROVE  ClientsInv'
<1> USE DEF ClientsInv, ExecutesCommand, Carried, Responds, calls
<1> DEFINE c == conn[d]
<1>1. c \in Clients /\ at[c] = d /\ executed[c] = 0
  <2>1. c # NoClient /\ at[c] = d
    BY DEF BacklogOK, InHand
  <2>2. c \in Clients
    BY <2>1 DEF ServiceTypeOK
  <2> QED
    BY <2>1, <2>2, ServiceAssumption DEF ExecutedOK
<1>2. at[c] # NoDaemon /\ pc[c] # "new" /\ reply[c] = "none"
  BY <1>1, ServiceAssumption DEF PlaceOK, ServiceTypeOK
<1>3. /\ executed' \in [Clients -> Nat] /\ \A k \in Clients \ {c} : executed'[k] = executed[k]
      /\ executed'[c] = 1
  <2>1. executed \in [Clients -> Nat]
    BY DEF ServiceTypeOK
  <2>2. executed' = [executed EXCEPT ![c] = executed[c] + 1] /\ executed[c] + 1 = 1
    BY <1>1
  <2> QED
    BY <1>1, <2>1, <2>2
<1>4. ServiceTypeOK'
  <2>1. asked' \in [Daemons -> {"nothing", "signal", "command"}]
    BY DEF ServiceTypeOK
  <2>2. phase' \in [Daemons -> Phases] /\ response' \in [Daemons -> Responses]
    BY DEF ServiceTypeOK, Phases, Responses
  <2> QED
    BY <1>3, <2>1, <2>2 DEF ServiceTypeOK
<1>5. PlaceOK'
  BY <1>2, <1>3 DEF PlaceOK
<1>6. BacklogOK'
  BY DEF BacklogOK, ServiceTypeOK, InHand
<1>7. ExecutedOK'
  BY <1>1, <1>3 DEF ExecutedOK, ServiceTypeOK
<1>8. ToldOK'
  BY <1>2, <1>3 DEF ToldOK
<1>9. ResponseOK'
  <2> SUFFICES ASSUME NEW e \in Daemons, phase'[e] = "write"
               PROVE  /\ response'[e] # "none"
                      /\ response'[e] = "rejected" => executed'[conn[e]] = 0
                      /\ response'[e] # "rejected" => executed'[conn[e]] = 1
                      /\ response'[e] = "stopping" => request[conn[e]] = "shutdown"
    BY DEF ResponseOK
  <2>1. CASE e = d
    BY <1>3, <2>1 DEF ServiceTypeOK
  <2>2. CASE e # d
    <3>1. phase[e] = "write" /\ response'[e] = response[e]
      BY <2>2 DEF ServiceTypeOK
    <3>2. conn[e] \in Clients \ {c}
      BY <1>1, <2>2, <3>1, ServiceAssumption DEF BacklogOK, ServiceTypeOK, InHand
    <3> QED
      BY <1>3, <3>1, <3>2 DEF ResponseOK
  <2> QED
    BY <2>1, <2>2
<1> QED
  BY <1>4, <1>5, <1>6, <1>7, <1>8, <1>9

\* The client in hand is answered by what was executed for it, or the instance ends.
LEMMA WritesStep ==
  ASSUME ClientsInv, NEW d \in Daemons, Writes(d)
  PROVE  ClientsInv'
<1> DEFINE c == conn[d]
<1>1. CASE \E reason \in Reasons : Ends(d, "drain", reason) /\ UNCHANGED socket
  BY <1>1, EndsStep DEF ClientsInv, ServiceTypeOK
<1>2. CASE ~\E reason \in Reasons : Ends(d, "drain", reason) /\ UNCHANGED socket
  <2> USE DEF ClientsInv, lives, orders
  <2>1. /\ phase[d] = "write" /\ pc[c] \notin Gone
        /\ phase' = [phase EXCEPT ![d] = IF response[d] = "stopping" THEN "close" ELSE "accept"]
        /\ pc' = [pc EXCEPT ![c] = "ended"] /\ at' = [at EXCEPT ![c] = NoDaemon]
        /\ reply' = [reply EXCEPT ![c] =
                        IF response[d] = "rejected" THEN "rejected" ELSE "answered"]
        /\ conn' = [conn EXCEPT ![d] = NoClient]
        /\ response' = [response EXCEPT ![d] = "none"]
        /\ UNCHANGED <<lives, socket, backlog, orders>>
    BY <1>2 DEF Writes, Fails, FailureOf, Reasons
  <2>2. c \in Clients /\ at[c] = d
    BY <2>1 DEF ServiceTypeOK, BacklogOK, InHand
  <2>3. ServiceTypeOK'
    BY <2>1, <2>2 DEF ServiceTypeOK, Phases, Responses
  <2>4. PlaceOK'
    BY <2>1, <2>2, ServiceAssumption DEF PlaceOK, ServiceTypeOK
  <2>5. BacklogOK'
    <3>1. \A e \in Daemons : \A i \in 1 .. Len(backlog[e]) : backlog[e][i] # c
      BY <2>2 DEF BacklogOK
    <3>2. \A e \in Daemons : \A i \in 1 .. Len(backlog[e]) : backlog[e][i] \in Clients
      BY ElementOfSeq DEF ServiceTypeOK
    <3>3. \A e \in Daemons \ {d} : conn[e] # c
      BY <2>2, ServiceAssumption DEF BacklogOK
    <3>4. \A k \in Clients \ {c} : at'[k] = at[k]
      BY <2>1 DEF ServiceTypeOK
    <3>5. \A e \in Daemons : e # d => conn'[e] = conn[e] /\ phase'[e] = phase[e]
      BY <2>1 DEF ServiceTypeOK
    <3>6. conn'[d] = NoClient /\ phase'[d] \in {"close", "accept"} /\ backlog' = backlog
      BY <2>1 DEF ServiceTypeOK
    <3>7. \A e \in Daemons : conn[e] \in Clients \cup {NoClient}
      BY DEF ServiceTypeOK
    <3> HIDE DEF c
    <3>8. ASSUME NEW e \in Daemons
          PROVE  /\ conn'[e] # NoClient => at'[conn'[e]] = e
                 /\ phase'[e] \in InHand <=> conn'[e] # NoClient
      BY <3>3, <3>4, <3>5, <3>6, <3>7, <3>8 DEF BacklogOK, InHand
    <3>9. ASSUME NEW e \in Daemons, NEW i \in 1 .. Len(backlog[e])
          PROVE  /\ at'[backlog[e][i]] = e /\ backlog[e][i] # conn'[e]
                 /\ \A j \in 1 .. Len(backlog[e]) : backlog[e][i] = backlog[e][j] => i = j
      BY <3>1, <3>2, <3>4, <3>5, <3>6, ServiceAssumption DEF BacklogOK
    <3> QED
      BY <3>6, <3>8, <3>9 DEF BacklogOK
  <2>6. ExecutedOK'
    BY <2>1, <2>2 DEF ExecutedOK, ServiceTypeOK
  <2>7. ToldOK'
    BY <2>1, <2>2 DEF ToldOK, ResponseOK, ServiceTypeOK
  <2>8. ResponseOK'
    BY <2>1 DEF ResponseOK, ServiceTypeOK
  <2> QED
    BY <2>3, <2>4, <2>5, <2>6, <2>7, <2>8
<1> QED
  BY <1>1, <1>2

\* A client comes: it is refused, or it is the last in the backlog.
LEMMA ConnectsStep ==
  ASSUME ClientsInv, NEW c \in Clients, Connects(c)
  PROVE  ClientsInv'
<1> USE DEF ClientsInv, Connects, lives, hands, orders
<1>1. at[c] = NoDaemon /\ executed[c] = 0 /\ reply[c] = "none"
  BY DEF PlaceOK
<1>2. CASE ~(socket \in Daemons /\ Listening(socket))
  <2>1. /\ pc' = [pc EXCEPT ![c] = "ended"] /\ reply' = [reply EXCEPT ![c] = "refused"]
        /\ UNCHANGED <<at, backlog>>
    BY <1>2
  <2>2. ServiceTypeOK' /\ PlaceOK'
    BY <1>1, <2>1 DEF ServiceTypeOK, PlaceOK
  <2>3. BacklogOK' /\ ExecutedOK' /\ ResponseOK'
    BY <2>1 DEF BacklogOK, ExecutedOK, ResponseOK
  <2>4. ToldOK'
    BY <1>1, <2>1 DEF ServiceTypeOK, ToldOK
  <2> QED
    BY <2>2, <2>3, <2>4
<1>3. CASE socket \in Daemons /\ Listening(socket)
  <2> DEFINE d == socket
             q == backlog[d]
  <2>1. /\ pc' = [pc EXCEPT ![c] = "connected"] /\ at' = [at EXCEPT ![c] = d]
        /\ backlog' = [backlog EXCEPT ![d] = Append(q, c)] /\ UNCHANGED reply
    BY <1>3
  <2>2. q \in Seq(Clients) /\ Append(q, c) \in Seq(Clients) /\ Len(Append(q, c)) = Len(q) + 1
        /\ \A i \in 1 .. Len(q) : Append(q, c)[i] = q[i] /\ q[i] \in Clients
    BY <1>3, ElementOfSeq DEF ServiceTypeOK
  <2>3. Append(q, c)[Len(q) + 1] = c /\ Len(q) \in Nat
    BY <2>2
  <2>4. ServiceTypeOK'
    BY <1>3, <2>1, <2>2 DEF ServiceTypeOK, Held
  <2>5. PlaceOK'
    BY <1>1, <1>3, <2>1, ServiceAssumption DEF ServiceTypeOK, PlaceOK
  <2>6. BacklogOK'
    <3> SUFFICES ASSUME NEW e \in Daemons
                 PROVE  /\ \A i \in 1 .. Len(backlog[e]') :
                              /\ at'[backlog'[e][i]] = e /\ backlog'[e][i] # conn'[e]
                              /\ \A j \in 1 .. Len(backlog[e]') :
                                    backlog'[e][i] = backlog'[e][j] => i = j
                        /\ conn'[e] # NoClient => at'[conn'[e]] = e
                        /\ phase'[e] \in InHand <=> conn'[e] # NoClient
      BY DEF BacklogOK
    <3>1. conn'[e] = conn[e] /\ phase'[e] = phase[e] /\ conn[e] # c
      BY <1>1, ServiceAssumption DEF BacklogOK
    <3>2. \A k \in Clients \ {c} : at'[k] = at[k]
      BY <2>1 DEF ServiceTypeOK
    <3>3. CASE e # d
      <4>1. backlog'[e] = backlog[e]
        BY <2>1, <3>3 DEF ServiceTypeOK
      <4>2. \A i \in 1 .. Len(backlog[e]) : backlog[e][i] \in Clients \ {c}
        BY <1>1, ServiceAssumption, ElementOfSeq DEF BacklogOK, ServiceTypeOK
      <4> QED
        BY <3>1, <3>2, <4>1, <4>2 DEF BacklogOK, ServiceTypeOK
    <3>4. CASE e = d
      <4>1. backlog'[e] = Append(q, c) /\ at'[c] = e
        BY <1>3, <2>1, <3>4 DEF ServiceTypeOK
      <4>2. /\ \A i \in 1 .. Len(q) : q[i] # c /\ at[q[i]] = e /\ q[i] # conn[e]
            /\ \A i, j \in 1 .. Len(q) : q[i] = q[j] => i = j
        BY <1>1, <3>4, ServiceAssumption DEF BacklogOK
      <4> HIDE DEF q
      <4>3. \A i \in 1 .. Len(Append(q, c)) : i \in 1 .. Len(q) \/ i = Len(q) + 1
        BY <2>2, <2>3
      <4>4. \A i \in 1 .. Len(Append(q, c)) :
               at'[Append(q, c)[i]] = e /\ Append(q, c)[i] # conn[e]
        BY <2>2, <2>3, <3>1, <3>2, <4>1, <4>2, <4>3
      <4>5. \A i, j \in 1 .. Len(Append(q, c)) : Append(q, c)[i] = Append(q, c)[j] => i = j
        BY <2>2, <2>3, <4>2, <4>3
      <4>6. /\ conn[e] # NoClient => at'[conn[e]] = e
            /\ phase[e] \in InHand <=> conn[e] # NoClient
        BY <3>1, <3>2 DEF BacklogOK, ServiceTypeOK
      <4> QED
        BY <3>1, <4>1, <4>4, <4>5, <4>6
    <3> QED
      BY <3>3, <3>4
  <2>7. ExecutedOK' /\ ResponseOK' /\ ToldOK'
    BY <1>1, <2>1 DEF ExecutedOK, ResponseOK, ToldOK, ServiceTypeOK
  <2> QED
    BY <2>4, <2>5, <2>6, <2>7
<1> QED
  BY <1>2, <1>3

\* What a client does alone, and a signal, move nobody.
LEMMA ClientStep ==
  ASSUME ClientsInv,
         \/ \E c \in Clients : Sends(c) \/ IsKilled(c) \/ IsSuspended(c)
         \/ \E d \in Daemons : IsSignalled(d)
  PROVE  ClientsInv'
<1> USE DEF ClientsInv, lives, hands, calls, orders
<1>1. CASE \E c \in Clients : Sends(c) \/ IsKilled(c) \/ IsSuspended(c)
  <2>1. PICK c \in Clients : Sends(c) \/ IsKilled(c) \/ IsSuspended(c)
    BY <1>1
  <2>2. pc[c] \in Held /\ \E p \in Held : pc' = [pc EXCEPT ![c] = p]
    BY <2>1 DEF Sends, IsKilled, IsSuspended, Held
  <2>3. /\ UNCHANGED <<phase, lives, socket, backlog, hands, at, reply, orders>>
    BY <2>1 DEF Sends, IsKilled, IsSuspended
  <2>4. ServiceTypeOK' /\ PlaceOK'
    BY <2>2, <2>3 DEF ServiceTypeOK, PlaceOK, Held
  <2> QED
    BY <2>3, <2>4 DEF BacklogOK, ExecutedOK, ResponseOK, ToldOK
<1>2. CASE \E d \in Daemons : IsSignalled(d)
  BY <1>2 DEF IsSignalled, ServiceTypeOK, PlaceOK, BacklogOK, ExecutedOK, ResponseOK, ToldOK
<1> QED
  BY <1>1, <1>2

-----------------------------------------------------------------------------
(* The socket.                                                              *)

LEMMA SocketInit == ServiceInit => SocketInv
BY DEF ServiceInit, SocketInv, AloneOK, LoneInstanceServes, Listening

\* While an instance that is alone runs, no other makes a step but to start, which ends
\* its being alone.
LEMMA OnlyOneRuns ==
  ASSUME AloneOK, NEW d \in Daemons, phase[d] # "off", NEW e \in Daemons, e # d, alone[e]
  PROVE  phase[e] = "off"
BY DEF AloneOK

\* An instance goes on without an error: what it knows of the path is still so.
LEMMA SocketGoesOn ==
  ASSUME ServiceTypeOK, SocketInv, NEW d \in Daemons, NEW p \in Phases,
         phase[d] # "off", phase' = [phase EXCEPT ![d] = p], UNCHANGED <<why, alone>>,
         p = "remove" => socket' # NoDaemon,
         p = "bind" => socket' = NoDaemon,
         alone[d] /\ p \in {"chmod", "accept", "read", "execute", "write", "close"} => socket' = d
  PROVE  SocketInv'
<1>1. /\ phase'[d] = p /\ \A e \in Daemons : e # d => phase'[e] = phase[e]
  BY DEF ServiceTypeOK
<1>2. \A e \in Daemons : e # d /\ alone[e] => phase'[e] = "off"
  BY <1>1, OnlyOneRuns DEF SocketInv
<1>3. AloneOK'
  BY <1>1, <1>2 DEF SocketInv, AloneOK
<1>4. LoneInstanceServes'
  BY <1>1, <1>2 DEF SocketInv, LoneInstanceServes, Listening
<1> QED
  BY <1>3, <1>4 DEF SocketInv

\* An instance ends, with an error at start-up only if it was not alone.
LEMMA SocketEnds ==
  ASSUME ServiceTypeOK, SocketInv, NEW d \in Daemons, NEW next \in {"drain", "off"},
         NEW reason \in Reasons, phase[d] # "off", Ends(d, next, reason),
         reason = "startup" => ~alone[d]
  PROVE  SocketInv'
<1>1. /\ phase'[d] = next /\ why'[d] = reason /\ alone' = alone
      /\ \A e \in Daemons : e # d => phase'[e] = phase[e] /\ why'[e] = why[e]
  BY DEF ServiceTypeOK, Ends
<1>2. \A e \in Daemons : e # d /\ alone[e] => phase'[e] = "off"
  BY <1>1, OnlyOneRuns DEF SocketInv
<1>3. AloneOK'
  BY <1>1, <1>2 DEF SocketInv, AloneOK
<1>4. LoneInstanceServes'
  BY <1>1, <1>2 DEF SocketInv, LoneInstanceServes, Listening
<1> QED
  BY <1>3, <1>4 DEF SocketInv

LEMMA SocketStarts ==
  ASSUME ServiceTypeOK, SocketInv, NEW d \in Daemons, Starts(d)
  PROVE  SocketInv'
<1>1. /\ phase[d] = "off" /\ phase'[d] = "load" /\ why'[d] = "running"
      /\ \A e \in Daemons : e # d => phase'[e] = phase[e] /\ why'[e] = why[e]
  BY DEF ServiceTypeOK, Starts
<1>2. alone'[d] => \A e \in Daemons \ {d} : phase'[e] = "off"
  BY <1>1 DEF Starts
<1>3. \A e \in Daemons : e # d /\ alone'[e] => alone[e] /\ phase'[e] = "off"
  BY <1>1 DEF Starts
<1>4. AloneOK'
  BY <1>1, <1>2, <1>3 DEF AloneOK
<1>5. LoneInstanceServes'
  BY <1>1, <1>2, <1>3 DEF SocketInv, LoneInstanceServes, Listening
<1> QED
  BY <1>4, <1>5 DEF SocketInv

\* The steps of an instance from its start to the return of run, one by one.
LEMMA SocketStep ==
  ASSUME ServiceTypeOK, SocketInv, [ServiceNext]_serviceVars
  PROVE  SocketInv'
<1> USE DEF SocketInv, AloneOK, LoneInstanceServes, GoesTo, lives
<1>1. ASSUME NEW d \in Daemons, Starts(d) PROVE SocketInv'
  BY <1>1, SocketStarts
<1>2. ASSUME NEW d \in Daemons, Loads(d) PROVE SocketInv'
  <2>1. CASE GoesTo(d, "prepare") /\ UNCHANGED socket
    BY <1>2, <2>1, SocketGoesOn DEF Loads, Phases
  <2>2. CASE Ends(d, "off", "refused")
    BY <1>2, <2>2, SocketEnds DEF Loads, Reasons
  <2> QED
    BY <1>2, <2>1, <2>2 DEF Loads
<1>3. ASSUME NEW d \in Daemons, Prepares(d) PROVE SocketInv'
  BY <1>3, SocketGoesOn DEF Prepares, MustRemove, Phases
<1>4. ASSUME NEW d \in Daemons, Removes(d) PROVE SocketInv'
  <2>1. CASE socket # NoDaemon
    BY <1>4, <2>1, SocketGoesOn DEF Removes, Phases
  <2>2. CASE socket = NoDaemon
    BY <1>4, <2>2, SocketEnds DEF Removes, Fails, FailureOf, Reasons
  <2> QED
    BY <2>1, <2>2
<1>5. ASSUME NEW d \in Daemons, Binds(d) PROVE SocketInv'
  <2>1. CASE socket = NoDaemon
    BY <1>5, <2>1, SocketGoesOn DEF Binds, Phases
  <2>2. CASE socket # NoDaemon
    BY <1>5, <2>2, SocketEnds DEF Binds, Fails, FailureOf, Reasons
  <2> QED
    BY <2>1, <2>2
<1>6. ASSUME NEW d \in Daemons, SetsPermissions(d) PROVE SocketInv'
  <2>1. CASE socket # NoDaemon
    BY <1>6, <2>1, SocketGoesOn DEF SetsPermissions, Listening, Phases
  <2>2. CASE socket = NoDaemon
    BY <1>6, <2>2, ServiceAssumption, SocketEnds
       DEF SetsPermissions, Fails, FailureOf, Listening, Reasons
  <2> QED
    BY <2>1, <2>2
<1>7. ASSUME NEW d \in Daemons, Accepts(d) PROVE SocketInv'
  BY <1>7, SocketGoesOn DEF Accepts, Listening, Phases
<1>8. ASSUME NEW d \in Daemons, Reads(d) \/ ExecutesCommand(d) PROVE SocketInv'
  <2>1. CASE Reads(d)
    BY <2>1, SocketGoesOn DEF Reads, Responds, Listening, Phases
  <2>2. CASE ExecutesCommand(d)
    BY <2>2, SocketGoesOn DEF ExecutesCommand, Responds, Listening, Phases
  <2> QED
    BY <1>8, <2>1, <2>2
<1>9. ASSUME NEW d \in Daemons, Writes(d) PROVE SocketInv'
  <2>1. CASE Fails(d, "connection")
    BY <1>9, <2>1, SocketEnds DEF Writes, Fails, FailureOf, Reasons
  <2>2. CASE ~Fails(d, "connection")
    BY <1>9, <2>2, SocketGoesOn DEF Writes, Listening, Phases
  <2> QED
    BY <2>1, <2>2
<1>10. ASSUME NEW d \in Daemons, Closes(d) \/ Exits(d) \/ Dies(d) PROVE SocketInv'
  <2>1. CASE Closes(d)
    BY <2>1, SocketEnds DEF Closes, LeavesLoop, Reasons
  <2>2. CASE Exits(d)
    BY <2>2, SocketGoesOn DEF Exits, Phases
  <2>3. CASE Dies(d)
    BY <2>3, SocketEnds DEF Dies, Reasons
  <2> QED
    BY <1>10, <2>1, <2>2, <2>3
<1>11. ASSUME NEW d \in Daemons, PathRefused(d) \/ ConnectionBreaks(d) PROVE SocketInv'
  <2>1. CASE PathRefused(d)
    BY <2>1, SocketEnds DEF PathRefused, Fails, FailureOf, Reasons
  <2>2. CASE ConnectionBreaks(d)
    BY <2>2, SocketEnds DEF ConnectionBreaks, Fails, FailureOf, Reasons
  <2> QED
    BY <1>11, <2>1, <2>2
<1>12. CASE UNCHANGED <<phase, why, alone, socket>>
  BY <1>12 DEF Listening
<1> QED
  BY <1>1, <1>2, <1>3, <1>4, <1>5, <1>6, <1>7, <1>8, <1>9, <1>10, <1>11, <1>12
     DEF ServiceNext, ServerStep, Connects, Sends, IsKilled, IsSuspended, IsSignalled,
         serviceVars

-----------------------------------------------------------------------------
(* Being told to stop.                                                      *)

LEMMA StopInit == ServiceInit => StopInv
BY DEF ServiceInit, StopInv, Kept

\* An instance ends, with the clients it holds.
LEMMA EndsOnlyHeld ==
  ASSUME ClientsInv, NEW d \in Daemons, NEW next, NEW reason, Ends(d, next, reason),
         NEW c \in Clients, Untold(c)
  PROVE  Untold(c)'
<1>1. at[c] = NoDaemon
  BY DEF ClientsInv, PlaceOK, Untold
<1>2. pc'[c] = pc[c] /\ reply'[c] = reply[c] /\ UNCHANGED orders
  BY <1>1, ServiceAssumption DEF Ends, ClientsInv, ServiceTypeOK
<1> QED
  BY <1>2 DEF Untold, orders

\* No instance comes back to a client it is done with.
LEMMA UntoldStays ==
  ASSUME ClientsInv, [ServiceNext]_serviceVars, NEW c \in Clients, Untold(c)
  PROVE  Untold(c)'
<1>1. at[c] = NoDaemon /\ pc[c] = "ended"
  BY DEF ClientsInv, PlaceOK, Untold
<1>2. \A d \in Daemons : phase[d] \in InHand => conn[d] # c
  BY <1>1, ServiceAssumption DEF ClientsInv, BacklogOK
<1>3. CASE \E d \in Daemons, next \in {"drain", "off"}, reason \in Reasons :
              Ends(d, next, reason)
  BY <1>3, EndsOnlyHeld
<1>4. CASE UNCHANGED <<pc, reply, orders>>
  BY <1>4 DEF Untold, orders
<1>5. ASSUME NEW d \in Daemons, ExecutesCommand(d) PROVE Untold(c)'
  <2>1. executed'[c] = executed[c]
    BY <1>2, <1>5 DEF ExecutesCommand, Carried, InHand, ClientsInv, ServiceTypeOK
  <2> QED
    BY <1>5, <2>1 DEF ExecutesCommand, calls, Untold
<1>6. ASSUME NEW d \in Daemons, Writes(d) PROVE Untold(c)'
  <2>1. CASE Fails(d, "connection")
    BY <1>3, <2>1 DEF Fails, FailureOf, Reasons
  <2>2. CASE ~Fails(d, "connection")
    <3>1. pc'[c] = pc[c] /\ reply'[c] = reply[c]
      BY <1>2, <1>6, <2>2 DEF Writes, InHand, ClientsInv, ServiceTypeOK
    <3> QED
      BY <1>6, <2>2, <3>1 DEF Writes, orders, Untold
  <2> QED
    BY <2>1, <2>2
<1>7. ASSUME NEW k \in Clients, Connects(k) \/ Sends(k) \/ IsKilled(k) \/ IsSuspended(k)
      PROVE  Untold(c)'
  <2>1. pc'[c] = pc[c] /\ reply'[c] = reply[c]
    BY <1>1, <1>7 DEF Connects, Sends, IsKilled, IsSuspended, ClientsInv, ServiceTypeOK
  <2> QED
    BY <1>7, <2>1 DEF Connects, Sends, IsKilled, IsSuspended, orders, Untold
<1>8. ASSUME NEW d \in Daemons,
             Starts(d) \/ ServerStep(d) \/ IsSignalled(d) \/ PathRefused(d)
                \/ ConnectionBreaks(d) \/ Dies(d)
      PROVE  Untold(c)'
  BY <1>3, <1>4, <1>5, <1>6, <1>8
     DEF ServerStep, Starts, Loads, Prepares, Removes, Binds, SetsPermissions, Accepts, Reads,
         Closes, Exits, IsSignalled, PathRefused, ConnectionBreaks, Dies, Fails, FailureOf,
         GoesTo, Reasons, calls
<1> QED
  BY <1>4, <1>7, <1>8 DEF ServiceNext, serviceVars, calls

\* What an instance was told to do it still does when another moves, or a client.
LEMMA OthersStop ==
  ASSUME ClientsInv, StopInv, [ServiceNext]_serviceVars, NEW d \in Daemons,
         phase'[d] = phase[d], why'[d] = why[d], response'[d] = response[d],
         asked'[d] \in {asked[d], "signal"}
  PROVE  Kept(d)'
BY UntoldStays DEF StopInv, Kept, Stopping

\* An instance ends.  It can have been told to stop only if it is about to answer, has
\* answered, or has ended before.
LEMMA EndsStops ==
  ASSUME ClientsInv, StopInv, [ServiceNext]_serviceVars, NEW d \in Daemons,
         NEW next \in {"drain", "off"}, NEW reason \in Reasons, Ends(d, next, reason),
         reason \in {"stopped", "killed"} \/ phase[d] \notin {"close", "drain", "off"},
         phase[d] = "write" =>
            reason \in {"connection", "killed"} /\ (reason = "connection" => pc[conn[d]] \in Gone)
  PROVE  Kept(d)'
<1>1. phase'[d] = next /\ why'[d] = reason /\ asked'[d] = asked[d]
  BY DEF Ends, ClientsInv, ServiceTypeOK
<1>2. CASE reason \in {"stopped", "killed"}
  BY <1>1, <1>2 DEF Kept, Stopping
<1>3. CASE reason \notin {"stopped", "killed"} /\ asked[d] = "command"
  <2>1. phase[d] = "write" /\ response[d] = "stopping" /\ reason = "connection"
        /\ pc[conn[d]] \in Gone
    BY <1>3 DEF StopInv, Kept, Stopping
  <2>2. PICK c \in Clients : /\ c = conn[d] /\ at[c] = d /\ pc[c] \in Gone
                             /\ executed[c] = 1 /\ request[c] = "shutdown"
    BY <2>1 DEF ClientsInv, ServiceTypeOK, BacklogOK, ResponseOK, InHand
  <2>3. pc'[c] = "ended" /\ reply'[c] = reply[c] /\ reply[c] = "none"
    BY <2>2, ServiceAssumption DEF Ends, ClientsInv, PlaceOK, ServiceTypeOK
  <2>4. Untold(c)'
    BY <2>2, <2>3 DEF Ends, orders, Untold
  <2> QED
    BY <1>1, <2>1, <2>4 DEF Kept, Stopping
<1> QED
  BY <1>1, <1>2, <1>3 DEF Kept

\* Every step keeps what is known of an instance that was told to stop.
LEMMA StopStep ==
  ASSUME ClientsInv, StopInv, [ServiceNext]_serviceVars
  PROVE  StopInv'
<1> SUFFICES ASSUME NEW d \in Daemons PROVE Kept(d)'
  BY DEF StopInv
<1>1. ASSUME phase'[d] = phase[d], why'[d] = why[d], response'[d] = response[d],
             asked'[d] \in {asked[d], "signal"}
      PROVE  Kept(d)'
  BY <1>1, OthersStop
<1>2. ASSUME NEW e \in Daemons \ {d},
             Starts(e) \/ ServerStep(e) \/ IsSignalled(e) \/ PathRefused(e)
                \/ ConnectionBreaks(e) \/ Dies(e)
      PROVE  Kept(d)'
  <2>1. /\ phase'[d] = phase[d] /\ why'[d] = why[d] /\ response'[d] = response[d]
        /\ asked'[d] = asked[d]
    BY <1>2 DEF ServerStep, Starts, Loads, Prepares, Removes, Binds, SetsPermissions, Accepts,
         Reads, ExecutesCommand, Carried, Responds, Writes, Closes, Exits, IsSignalled,
         PathRefused, ConnectionBreaks, Dies, Fails, Ends, GoesTo, lives, hands, calls, orders,
         ClientsInv, ServiceTypeOK
  <2> QED
    BY <1>1, <2>1
<1>3. ASSUME \E c \in Clients : Connects(c) \/ Sends(c) \/ IsKilled(c) \/ IsSuspended(c)
      PROVE  Kept(d)'
  <2>1. UNCHANGED <<phase, why, response, asked>>
    BY <1>3 DEF Connects, Sends, IsKilled, IsSuspended, lives, hands
  <2> QED
    BY <1>1, <2>1
<1>4. CASE UNCHANGED serviceVars
  BY <1>1, <1>4 DEF serviceVars, lives, hands
<1>5. CASE Starts(d)
  <2>1. asked'[d] = "nothing" /\ why'[d] = "running"
    BY <1>5 DEF Starts, ClientsInv, ServiceTypeOK
  <2> QED
    BY <2>1 DEF Kept
<1>6. CASE IsSignalled(d)
  <2>1. asked'[d] = "signal" /\ UNCHANGED <<phase, why, response>>
    BY <1>6 DEF IsSignalled, hands, ClientsInv, ServiceTypeOK
  <2> QED
    BY <1>1, <2>1
<1>7. CASE \E next \in {"drain", "off"}, reason \in Reasons :
              /\ Ends(d, next, reason)
              /\ reason \in {"stopped", "killed"} \/ phase[d] \notin {"close", "drain", "off"}
              /\ phase[d] = "write" =>
                    /\ reason \in {"connection", "killed"}
                    /\ reason = "connection" => pc[conn[d]] \in Gone
  BY <1>7, EndsStops
<1>8. ASSUME NEW p \in Phases, phase[d] \notin {"off", "drain", "write", "close"},
             phase' = [phase EXCEPT ![d] = p], UNCHANGED <<why, asked>>
      PROVE  Kept(d)'
  <2>1. asked'[d] # "command" /\ why'[d] = "running"
    BY <1>8 DEF StopInv, Kept, Stopping
  <2> QED
    BY <2>1 DEF Kept
<1>9. CASE ExecutesCommand(d)
  <2>1. phase[d] = "execute" /\ phase'[d] = "write" /\ why' = why /\ why[d] = "running"
    BY <1>9 DEF ExecutesCommand, Responds, StopInv, Kept, ClientsInv, ServiceTypeOK
  <2>2. asked[d] # "command"
    BY <2>1 DEF StopInv, Kept, Stopping
  <2>3. asked'[d] = "command" => response'[d] = "stopping"
    BY <1>9, <2>2 DEF ExecutesCommand, Carried, Responds, ClientsInv, ServiceTypeOK
  <2> QED
    BY <2>1, <2>3 DEF Kept, Stopping
<1>10. CASE Writes(d) /\ ~Fails(d, "connection")
  <2>1. phase[d] = "write" /\ UNCHANGED <<why, asked>> /\ why[d] = "running"
    BY <1>10 DEF Writes, lives, StopInv, Kept
  <2>2. asked[d] = "command" => response[d] = "stopping"
    BY <2>1 DEF StopInv, Kept, Stopping
  <2>3. phase'[d] = IF response[d] = "stopping" THEN "close" ELSE "accept"
    BY <1>10 DEF Writes, ClientsInv, ServiceTypeOK
  <2> QED
    BY <2>1, <2>2, <2>3 DEF Kept, Stopping
<1>11. CASE Writes(d) /\ Fails(d, "connection")
  <2>1. pc[conn[d]] \in Gone /\ Ends(d, "drain", "connection") /\ phase[d] = "write"
    <3>1. phase'[d] = "drain"
      BY <1>11 DEF Fails, Ends, ClientsInv, ServiceTypeOK
    <3>2. pc[conn[d]] \in Gone
      BY <1>11, <3>1 DEF Writes, ClientsInv, ServiceTypeOK
    <3> QED
      BY <1>11, <3>2 DEF Writes, Fails, FailureOf
  <2> QED
    BY <1>7, <2>1 DEF Reasons
<1>12. CASE Exits(d)
  <2>1. phase[d] = "drain" /\ phase'[d] = "off" /\ why'[d] = why[d] /\ asked'[d] = asked[d]
    BY <1>12 DEF Exits, GoesTo, lives, ClientsInv, ServiceTypeOK
  <2>2. ASSUME NEW c \in Clients, Untold(c) PROVE Untold(c)'
    BY <2>2, UntoldStays
  <2> QED
    BY <2>1, <2>2 DEF Kept, Stopping, StopInv
<1>13. CASE Loads(d) \/ Prepares(d) \/ Removes(d) \/ Binds(d) \/ SetsPermissions(d)
            \/ Accepts(d) \/ Reads(d) \/ Closes(d) \/ PathRefused(d) \/ ConnectionBreaks(d)
            \/ Dies(d)
  BY <1>7, <1>8, <1>13
     DEF Loads, Prepares, Removes, Binds, SetsPermissions, Accepts, Reads, Responds, Closes,
         LeavesLoop, PathRefused, ConnectionBreaks, Dies, Fails, FailureOf, GoesTo, lives,
         Phases, Reasons
<1> QED
  BY <1>2, <1>3, <1>4, <1>5, <1>6, <1>9, <1>10, <1>11, <1>12, <1>13
     DEF ServiceNext, ServerStep

-----------------------------------------------------------------------------
\* The parts of the invariant hold in every state.
LEMMA ServiceInductive == ServiceSpec => [](ClientsInv /\ StopInv /\ SocketInv)
<1>1. ServiceInit => ClientsInv /\ StopInv /\ SocketInv
  BY ClientsInit, StopInit, SocketInit
<1>2. ClientsInv /\ StopInv /\ SocketInv /\ [ServiceNext]_serviceVars
         => (ClientsInv /\ StopInv /\ SocketInv)'
  <2> SUFFICES ASSUME ClientsInv, StopInv, SocketInv, [ServiceNext]_serviceVars
               PROVE  (ClientsInv /\ StopInv /\ SocketInv)'
    OBVIOUS
  <2>1. SocketInv'
    BY SocketStep DEF ClientsInv
  <2>2. ClientsInv'
    <3>1. CASE ServiceNext
      BY <3>1, QuietStep, AcceptsStep, ReadsStep, ExecutesStep, WritesStep,
         ConnectsStep, ClientStep
         DEF ServiceNext, ServerStep
    <3>2. CASE UNCHANGED serviceVars
      BY <3>2 DEF serviceVars, lives, hands, calls, orders, ClientsInv, ServiceTypeOK,
                  PlaceOK, BacklogOK, ExecutedOK, ResponseOK, ToldOK
    <3> QED
      BY <3>1, <3>2
  <2>3. StopInv'
    BY StopStep
  <2> QED
    BY <2>1, <2>2, <2>3
<1> QED
  BY <1>1, <1>2, PTL DEF ServiceSpec

\* The variables keep to their types, whatever dies or is stopped when.
THEOREM ServiceTypeCorrect == ServiceSpec => []ServiceTypeOK
<1>1. ClientsInv => ServiceTypeOK
  BY DEF ClientsInv
<1> QED
  BY <1>1, ServiceInductive, PTL

\* However many clients call, are stopped or die, and however many instances start, end
\* and die on the path, what a client was told by handle_connection says whether its
\* command was executed, and an instance told to stop fails only by not saying so.
THEOREM AnswersMeanDone == ServiceSpec => []AnswerMeansDone
<1>1. ClientsInv /\ StopInv => AnswerMeansDone
  BY DEF ClientsInv, ToldOK, StopInv, Kept, Stopping, Untold, AnswerMeansDone
<1> QED
  BY <1>1, ServiceInductive, PTL

\* However the earlier instances ended, prepare_socket, bind and set_permissions succeed
\* for an instance that nobody runs beside, and the path leads to it until run returns.
THEOREM LoneInstancesServe == ServiceSpec => []LoneInstanceServes
<1>1. SocketInv => LoneInstanceServes
  BY DEF SocketInv
<1> QED
  BY <1>1, ServiceInductive, PTL
=============================================================================
