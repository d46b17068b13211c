----------------------------- MODULE RexeReader -----------------------------
(***************************************************************************)
(* The Rust front end (rexe/src/main.rs): it reads standard input once,    *)
(* through io_uring, into a registered buffer and prints it.  Only main's  *)
(* own asserts guard it: the results of io_uring_submit and                *)
(* io_uring_wait_cqe are not looked at.  The set-up by appctx_init is that *)
(* of the server.                                                          *)
(***************************************************************************)
EXTENDS Integers, SequencesExt

CONSTANTS
  BufSize,            \* LOGGING_BUFSIZE: what a read can take (256)
  MaxInput            \* a bound on what is typed, for TLC

ASSUME ReaderAssumption == BufSize \in Nat \ {0} /\ MaxInput \in Nat

VARIABLES
  pc,                 \* where main is
  typed,              \* the bytes of standard input so far
  ended,              \* no more will come
  request,            \* the read: "none", "queued", "reading", "done"
  slot,               \* res of the completion, in its slot of the queue
  log_buf,            \* the registered buffer
  cqe,                \* "null", or where it points: "slot"
  printed             \* what is printed after "User entered: "

vars == <<pc, typed, ended, request, slot, log_buf, cqe, printed>>

\* A character of one byte, the two bytes of another, and one that is no text.
Bytes == {"ascii", "lead", "cont", "bad"}

\* std::str::from_utf8 accepts the bytes.
Utf8(s) ==
  /\ ~Contains(s, "bad")
  /\ \A i \in 1..Len(s) :
       /\ s[i] = "lead" => i < Len(s) /\ s[i + 1] = "cont"
       /\ s[i] = "cont" => i > 1 /\ s[i - 1] = "lead"

\* The buffer is memory from malloc that nobody has cleared.
Init ==
  /\ pc = "start"
  /\ typed = <<>>
  /\ ended = FALSE
  /\ request = "none"
  /\ slot = 0
  /\ \E b \in {"ascii", "bad"} : log_buf = [i \in 1..BufSize |-> b]
  /\ cqe = "null"
  /\ printed = <<>>

-----------------------------------------------------------------------------
\* Standard input may be a pipe: it delivers bytes, not characters.
TypeByte(b) ==
  /\ ~ended
  /\ Len(typed) < MaxInput
  /\ typed' = Append(typed, b)
  /\ UNCHANGED <<pc, ended, request, slot, log_buf, cqe, printed>>

EndInput ==
  /\ ended' = TRUE
  /\ UNCHANGED <<pc, typed, request, slot, log_buf, cqe, printed>>

\* The SQPOLL thread takes the entry.
Poll ==
  /\ request = "queued"
  /\ request' = "reading"
  /\ UNCHANGED <<pc, typed, ended, slot, log_buf, cqe, printed>>

\* The read takes what is there, up to the length of the buffer: it can end
\* within a character at any length.
CompleteRead ==
  /\ request = "reading"
  /\ typed # <<>> \/ ended
  /\ LET n == IF Len(typed) < BufSize THEN Len(typed) ELSE BufSize
     IN  /\ slot' = n
         /\ log_buf' = [i \in 1..BufSize |->
                          IF i <= n THEN typed[i] ELSE log_buf[i]]
  /\ request' = "done"
  /\ UNCHANGED <<pc, typed, ended, cqe, printed>>

\* Standard input is closed, or the terminal belongs to another job.
FailRead ==
  /\ request = "reading"
  /\ slot' = -1
  /\ request' = "done"
  /\ UNCHANGED <<pc, typed, ended, log_buf, cqe, printed>>

-----------------------------------------------------------------------------
\* A faulty main that does not submit.
SubmitReadForgotten ==
  /\ pc = "start"
  /\ pc' = "wait"
  /\ UNCHANGED <<typed, ended, request, slot, log_buf, cqe, printed>>

\* get_sqe, bufpool_pop, prep_read_fixed and submit: fresh from appctx_init,
\* the queue and the pool have one to give.
SubmitRead ==
  /\ pc = "start"
  /\ request' = "queued"
  /\ pc' = "wait"
  /\ UNCHANGED <<typed, ended, slot, log_buf, cqe, printed>>

WaitCqe ==
  /\ pc = "wait"
  /\ request = "done"
  /\ cqe' = "slot"
  /\ pc' = "got"
  /\ UNCHANGED <<typed, ended, request, slot, log_buf, printed>>

\* io_uring_wait_cqe returns -EINTR, as it does when the process is stopped
\* and continued, and leaves the pointer null; main goes on.
Interrupted ==
  /\ pc = "wait"
  /\ request # "done"
  /\ pc' = "got"
  /\ UNCHANGED <<typed, ended, request, slot, log_buf, cqe, printed>>

\* io_uring_cqe_seen, which does nothing with a null pointer.  The slot may be
\* used again from here on, but there is no other request to use it.
CqeSeen ==
  /\ pc = "got"
  /\ pc' = "seen"
  /\ UNCHANGED <<typed, ended, request, slot, log_buf, cqe, printed>>

\* A faulty length: the whole buffer.
SliceOfBuffer == log_buf

\* from_raw_parts(log_buf, (*cqe).res as usize)
Slice == SubSeq(log_buf, 1, slot)

\* A null pointer or a slice of almost 2^64 bytes ends the process; unwrap
\* panics when the bytes are no text.
PrintLine ==
  /\ pc = "seen"
  /\ IF cqe = "slot" /\ slot >= 0 /\ Utf8(Slice)
     THEN pc' = "printed" /\ printed' = Slice
     ELSE pc' = "crashed" /\ UNCHANGED printed
  /\ UNCHANGED <<typed, ended, request, slot, log_buf, cqe>>

Program == SubmitRead \/ WaitCqe \/ CqeSeen \/ PrintLine

Next ==
  \/ \E b \in Bytes : TypeByte(b)
  \/ EndInput \/ Poll \/ CompleteRead \/ FailRead \/ Interrupted
  \/ Program

Spec == Init /\ [][Next]_vars

\* The operating system schedules the program and the SQPOLL thread, and a
\* read that has something to return returns.
FairSpec ==
  /\ Spec
  /\ WF_vars(Program)
  /\ WF_vars(Poll)
  /\ WF_vars(CompleteRead)

-----------------------------------------------------------------------------
\* What is printed is what was typed, from the first byte on and as far as the
\* read went: neither the rest of the buffer, which is uninitialized memory
\* (appctx.c:57), nor half a character where the read ended within one
\* (main.rs:47-50); and never anything before a read is done, though the wait
\* may have been interrupted and its result is not looked at (main.rs:44).
PrintsWhatWasTyped ==
  pc = "printed" => /\ IsPrefix(printed, typed)
                    /\ Utf8(printed)
                    /\ printed = <<>> => ended

\* Once there is input, or its end, the program ends (main.rs:44): it does not
\* wait for a completion that nothing will post.
InputEndsProgram == typed # <<>> \/ ended ~> pc \in {"printed", "crashed"}
=============================================================================
