--------------------------- MODULE BufferLending ---------------------------
(***************************************************************************)
(* What a buffer pool promises its callers, whatever its data structure:   *)
(* a buffer is lent to one borrower at a time, a request is refused only   *)
(* when every buffer is out, and only a buffer that is out comes back.     *)
(* The freelist of clib/appctx.c (module BufPool) and the log buffers of   *)
(* the running server (module Server) are both shown to implement it, with *)
(* each of their grants, refusals and returns a Lend, a Refuse or a Return *)
(* and never a stutter.                                                    *)
(***************************************************************************)
CONSTANT Buffers      \* the buffers of the pool

VARIABLES
  lent,               \* the buffers that are out
  refused             \* did the last request get nothing?

vars == <<lent, refused>>

Init ==
  /\ lent = {}
  /\ refused = FALSE

\* A request is granted: the borrower gets a buffer nobody else has.
Lend(b) ==
  /\ b \notin lent
  /\ lent' = lent \cup {b}
  /\ refused' = FALSE

\* A request is refused, which the promise allows only with nothing left.
Refuse ==
  /\ lent = Buffers
  /\ refused' = TRUE
  /\ UNCHANGED lent

\* A borrower gives its buffer back.
Return(b) ==
  /\ b \in lent
  /\ lent' = lent \ {b}
  /\ UNCHANGED refused

Next ==
  \/ \E b \in Buffers : Lend(b) \/ Return(b)
  \/ Refuse

Spec == Init /\ [][Next]_vars
=============================================================================
