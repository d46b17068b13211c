------------------------------ MODULE LogLine ------------------------------
(***************************************************************************)
(* A line of the log, byte by byte: from the receive buffer, where the     *)
(* kernel puts a header in front of the message, through log_event, which  *)
(* formats twice into buffers of LOGGING_BUFSIZE bytes, to the write of    *)
(* the registered buffer (clib/appctx.c:134-149, clib/logging.c:62-94).    *)
(* Both buffers are used again for the next message.  A byte is marked     *)
(* with the message it belongs to.                                         *)
(***************************************************************************)
EXTENDS Bindings, SequencesExt

CONSTANTS
  BufSize,            \* LOGGING_BUFSIZE (256)
  StampLen,           \* length of "<time> [<bid>] <level> "
  WordsLen,           \* length of "Packet from ..., content: "
  MaxPayload          \* the most that a message has

ASSUME LogLineAssumption ==
  /\ BufSize \in Nat \ {0}
  /\ {StampLen, WordsLen, MaxPayload} \subseteq Nat

VARIABLES
  pc,                 \* "idle", "received", "queued"
  msg,                \* which message: 0 or 1 in turn
  payload,            \* its bytes, as they were sent
  recvbuf,            \* the receive buffer
  msglen,             \* res of its completion
  log_buf,            \* the registered buffer
  logsize,            \* the length given to the write
  stderr              \* what the last write put there, <<>> if it failed

vars == <<pc, msg, payload, recvbuf, msglen, log_buf, logsize, stderr>>

\* Bytes: the terminator, memory nobody wrote, and those of message m.
Nul == <<-1, 0>>
Unwritten == <<-1, 1>>
Text(m) == <<m, 0>>
Content(m, j) == <<m, j>>
Newline(m) == <<m, -1>>

Repeat(byte, n) == [i \in 1..n |-> byte]
HeaderLen == io_uring_recvmsg_out.size

\* What %.*s and %s print of a buffer: up to its terminator.
Printable(s) ==
  IF Contains(s, Nul) THEN SubSeq(s, 1, SelectInSeq(s, LAMBDA b : b = Nul) - 1)
  ELSE s

\* A new string in a buffer that held old: the rest of it stays.
Over(s, old) == s \o SubSeq(old, Len(s) + 1, Len(old))

\* What snprintf and vsnprintf leave of a string in LOGGING_BUFSIZE bytes.
Truncated(s) == SubSeq(s, 1, IF Len(s) < BufSize THEN Len(s) ELSE BufSize - 1)

Init ==
  /\ pc = "idle"
  /\ msg = 0
  /\ payload = <<>>
  /\ recvbuf = Repeat(Unwritten, HeaderLen + MaxPayload)
  /\ msglen = 0
  /\ log_buf = Repeat(Unwritten, BufSize)
  /\ logsize = 0
  /\ stderr = <<>>

-----------------------------------------------------------------------------
\* The kernel's recvmsg leaves room for the name that the struct msghdr of the
\* request asks for: none, it is zeroed in run_event_loop (main.c:15).
Receive(n, nul) ==
  LET m == 1 - msg
      bytes == [j \in 1..n |-> IF j = nul THEN Nul ELSE Content(m, j)]
  IN  /\ pc = "idle"
      /\ msg' = m
      /\ payload' = bytes
      /\ recvbuf' = Over(Repeat(Text(m), HeaderLen) \o bytes, recvbuf)
      /\ msglen' = HeaderLen + n
      /\ pc' = "received"
      /\ UNCHANGED <<log_buf, logsize, stderr>>

\* A faulty handler whose struct msghdr asks for a name, unlike the request's.
PayloadAfterName == HeaderLen + 1

\* io_uring_recvmsg_payload: behind the header and the name that the handler's
\* own struct msghdr asks for: none (appctx.c:135).
PayloadStart == HeaderLen

\* vsnprintf of the message into scratch2: its words, then len bytes.
Scratch2 ==
  LET content == SubSeq(recvbuf, PayloadStart + 1, msglen)
  IN  Truncated(Repeat(Text(msg), WordsLen) \o Printable(content))

FormattedLine == Repeat(Text(msg), StampLen) \o Scratch2 \o <<Newline(msg)>>

\* A faulty log_event that writes the whole buffer.
LogsizeOfBuffer == BufSize

\* snprintf returns the length that the line has, not what fitted.
Logsize == Len(FormattedLine)

\* appctx_handle_recvmsg up to its debug_log, and log_event.
LogPacket ==
  /\ pc = "received"
  /\ log_buf' = Over(Append(Truncated(FormattedLine), Nul), log_buf)
  /\ logsize' = Logsize
  /\ pc' = "queued"
  /\ UNCHANGED <<msg, payload, recvbuf, msglen, stderr>>

\* The kernel writes from the registered buffer, and refuses a length beyond
\* its end; the event loop does not look at the result (main.c:30-34).
CompleteWrite ==
  /\ pc = "queued"
  /\ stderr' = IF logsize <= BufSize THEN SubSeq(log_buf, 1, logsize) ELSE <<>>
  /\ pc' = "idle"
  /\ UNCHANGED <<msg, payload, recvbuf, msglen, log_buf, logsize>>

Next ==
  \/ \E n \in 0..MaxPayload : \E nul \in 0..n : Receive(n, nul)
  \/ LogPacket
  \/ CompleteWrite

Spec == Init /\ [][Next]_vars

-----------------------------------------------------------------------------
\* The line as it is meant: in full.
Line == Repeat(Text(msg), StampLen + WordsLen) \o Printable(payload)
          \o <<Newline(msg)>>

Written == pc = "idle" /\ stderr # <<>>

\* What is written is the line as far as it goes, with at most a newline or a
\* terminator where the line is cut: no byte of an earlier line or message,
\* though both buffers still hold some, no memory that was never written
\* (logging.c:81-92, appctx.c:141-149).
LogsThisMessage ==
  Written => \A i \in 1..Len(stderr) :
    \/ i <= Len(Line) /\ stderr[i] = Line[i]
    \/ i = Len(stderr) /\ stderr[i] \in {Newline(msg), Nul}

\* A line that fits in the buffer with its terminator is written whole, and one
\* is lost only if it would not even fit without.
ShortLinesWhole ==
  pc = "idle" /\ msglen > 0 =>
    /\ Len(Line) < BufSize => stderr = Line
    /\ stderr = <<>> => Len(Line) > BufSize
=============================================================================
