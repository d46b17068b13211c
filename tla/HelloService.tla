--------------------------- MODULE HelloService ----------------------------
(***************************************************************************)
(* What the server promises its clients: while it is up, each chunk of     *)
(* input that a connected client gets through (the end of its stream       *)
(* counts as one) is answered with one "Hello, World!" on the same         *)
(* connection, and nothing else is sent.  The promise ends when the server *)
(* goes down.                                                              *)
(***************************************************************************)
EXTENDS Naturals

CONSTANT Fds          \* the descriptors connections can have

VARIABLES
  up,                 \* is the server running?
  connected,          \* the connections it has accepted
  owed                \* the answers it owes each connection

vars == <<up, connected, owed>>

Init ==
  /\ up = TRUE
  /\ connected = {}
  /\ owed = [fd \in Fds |-> 0]

Connect(fd) ==
  /\ up /\ fd \notin connected
  /\ connected' = connected \cup {fd}
  /\ UNCHANGED <<up, owed>>

Receive(fd) ==
  /\ up /\ fd \in connected
  /\ owed' = [owed EXCEPT ![fd] = @ + 1]
  /\ UNCHANGED <<up, connected>>

Answer(fd) ==
  /\ up /\ owed[fd] > 0
  /\ owed' = [owed EXCEPT ![fd] = @ - 1]
  /\ UNCHANGED <<up, connected>>

GoDown ==
  /\ up' = FALSE
  /\ UNCHANGED <<connected, owed>>

Next ==
  \/ \E fd \in Fds : Connect(fd) \/ Receive(fd) \/ Answer(fd)
  \/ GoDown

Spec == Init /\ [][Next]_vars
=============================================================================
