------------------------------ MODULE Exchange ------------------------------
(***************************************************************************)
(* What a connection promises its caller: an exchange of numbered commands,*)
(* one at a time. A call that returns without breaking the connection has  *)
(* its command served, and so are all commands before it; a broken         *)
(* connection issues nothing more.                                         *)
(***************************************************************************)
EXTENDS Naturals

VARIABLES
  issued,    \* commands the caller has begun
  served,    \* commands the server has taken up
  waiting,   \* the command whose reply the caller waits for, 0 for none
  open       \* the connection may be used

vars == <<issued, served, waiting, open>>

Init == issued = 0 /\ served = 0 /\ waiting = 0 /\ open = TRUE

\* A command is begun, and perhaps waited for at once.
Issue ==
  /\ open /\ waiting = 0
  /\ issued' = issued + 1 /\ waiting' \in {0, issued'}
  /\ UNCHANGED <<served, open>>

\* The rest of it is sent, or the caller asks for the next result.
Await ==
  /\ open /\ waiting = 0 /\ issued > 0
  /\ waiting' = issued
  /\ UNCHANGED <<issued, served, open>>

\* The server takes the commands in order. What the caller has begun last it
\* may still take after the connection was broken.
Serve ==
  /\ served < issued
  /\ served' = served + 1
  /\ UNCHANGED <<issued, waiting, open>>

\* The reply, or one result of it, has been read.
Complete ==
  /\ open /\ waiting > 0 /\ served = waiting
  /\ waiting' = 0
  /\ UNCHANGED <<issued, served, open>>

Break ==
  /\ open /\ open' = FALSE
  /\ waiting' = 0
  /\ UNCHANGED <<issued, served>>

Next == Issue \/ Await \/ Serve \/ Complete \/ Break

Spec == Init /\ [][Next]_vars
=============================================================================
