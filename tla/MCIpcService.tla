---------------------------- MODULE MCIpcService ----------------------------
(***************************************************************************)
(* Constants for IpcService: the service may live twice and the instance   *)
(* started by hand once, while one call gives a command and another wants  *)
(* a shutdown or speaks another protocol version.                          *)
(***************************************************************************)
EXTENDS IpcService, TLC

CONSTANTS unit, byhand, c1, c2

Lives == unit :> 2 @@ byhand :> 1
Calls == { c1 :> "command" @@ c2 :> r : r \in {"shutdown", "mismatched"} }
=============================================================================
