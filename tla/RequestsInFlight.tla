--------------------------- MODULE RequestsInFlight ---------------------------
(***************************************************************************)
(* The HTTP requests of the payroll server (examples/payroll-server.ts)    *)
(* that wait for their body, and what their handlers hold meanwhile.  The  *)
(* components behind the server's routes extend this module and say what   *)
(* there is to hold.                                                       *)
(***************************************************************************)
CONSTANT Requests     \* HTTP requests that may be in flight at once

VARIABLE requests     \* request -> what its handler holds

\* No request: nothing is held.
Idle == [kind |-> "idle"]
=============================================================================
