------------------------------- MODULE Uring -------------------------------
(***************************************************************************)
(* The io_uring instance the server runs on, as src/ uses it: the          *)
(* submission queue with its SQPOLL thread, the requests the kernel has in *)
(* progress, and the completion queue with its overflow list.  liburing    *)
(* and the kernel are not part of the repository; the model keeps what the *)
(* program can observe of them.                                            *)
(*                                                                         *)
(* A submission entry is [op, fd]: the operation and the descriptor (for a *)
(* write: the registered buffer) it works on, the two arguments the program *)
(* also gives encode_userdata.  A completion is [op, fd, res]: what        *)
(* userdata_decode makes of the entry's user data, and the result.         *)
(***************************************************************************)
EXTENDS UserData

CONSTANTS
  SqEntries,          \* slots of the submission queue (16, appctx.c:100)
  CqEntries,          \* slots of the completion queue (twice as many)
  RingEntries,        \* receive buffers of ring 0 (16, main.c:64)
  Fds,                \* descriptors the process can get for connections
  ListenFd,           \* descriptor of the listening socket
  ResetFds,           \* connections whose peer may reset them
  MaxChunks           \* bound: chunks of input per connection

ASSUME UringAssumption ==
  /\ SqEntries \in Nat \ {0}
  /\ CqEntries \in Nat \ {0}
  /\ RingEntries \in Nat
  /\ Fds \subseteq Nat
  /\ ListenFd \in Nat \ Fds
  /\ ResetFds \subseteq Fds
  /\ MaxChunks \in Nat

\* enum opcode of clib/userdata.h; the other values are never submitted.
OP_ACCEPT      == 2
OP_RECVMSG     == 3
OP_WRITE_FIXED == 5
OP_SENDMSG     == 6

\* A completion brings back the user data of its request.  Nothing sets its
\* padding, and what that is does not matter (ServerProofs!RoundTrip).
Unset == [i \in 5..7 |-> 255]

Completion(op, fd, res) ==
  LET ud == Decode(Encode(fd, op, Unset))
  IN  [op |-> ud.op, fd |-> ud.fd, res |-> res]

VARIABLES
  sq,                 \* entries handed out by io_uring_get_sqe, not consumed
  published,          \* how many of them io_uring_submit has published
  cq,                 \* completions posted and not marked as seen
  visible,            \* how many of them are in the ring, not in overflow
  accepting,          \* is the multishot accept armed?
  connected,          \* descriptors of the connections accepted so far
  receiving,          \* connections whose multishot receive is armed
  chunks,             \* chunks of input received per connection
  avail,              \* receive buffers the kernel can use
  writing,            \* registered buffers with a write in progress
  sending,            \* sends in progress per connection
  notifying           \* zero-copy sends whose notification is outstanding

sqVars == <<sq, published>>
cqVars == <<cq, visible>>
acceptVars == <<accepting, connected>>
recvVars == <<receiving, chunks, avail>>
sendVars == <<sending, notifying>>
uringVars == <<sqVars, cqVars, acceptVars, recvVars, writing, sendVars>>

UringInit ==
  /\ sq = <<>> /\ published = 0
  /\ cq = <<>> /\ visible = 0
  /\ accepting = FALSE /\ connected = {}
  /\ receiving = {} /\ chunks = [fd \in Fds |-> 0] /\ avail = RingEntries
  /\ writing = {}
  /\ sending = [fd \in Fds |-> 0] /\ notifying = [fd \in Fds |-> 0]

-----------------------------------------------------------------------------
\* The SQPOLL thread takes the oldest published entry, starts it and frees
\* its slot.  (It frees the slots of a batch together, when all are started;
\* the program can only tell by the queue looking full for longer.)
Fetch(op) ==
  /\ published > 0
  /\ Head(sq).op = op
  /\ sq' = Tail(sq)
  /\ published' = published - 1
  /\ UNCHANGED cqVars

StartAccept ==
  /\ Fetch(OP_ACCEPT)
  /\ accepting' = TRUE
  /\ UNCHANGED <<connected, recvVars, writing, sendVars>>

StartRecvmsg ==
  /\ Fetch(OP_RECVMSG)
  /\ receiving' = receiving \cup {Head(sq).fd}
  /\ UNCHANGED <<acceptVars, chunks, avail, writing, sendVars>>

StartWrite ==
  /\ Fetch(OP_WRITE_FIXED)
  /\ writing' = writing \cup {Head(sq).fd}
  /\ UNCHANGED <<acceptVars, recvVars, sendVars>>

\* A send to a descriptor without a connection fails and nobody looks.
StartSend ==
  /\ Fetch(OP_SENDMSG)
  /\ sending' = [fd \in Fds |->
                   sending[fd] + IF fd = Head(sq).fd THEN 1 ELSE 0]
  /\ UNCHANGED <<acceptVars, recvVars, writing, notifying>>

-----------------------------------------------------------------------------
\* A completion goes to the ring, or to the overflow list when the ring is
\* full or older completions are still in overflow.  A multishot request
\* whose completion does not fit in the ring ends with that completion.
Fits == visible = Len(cq) /\ visible < CqEntries

Post(op, fd, res) ==
  /\ cq' = Append(cq, Completion(op, fd, res))
  /\ visible' = IF Fits THEN visible + 1 ELSE visible
  /\ UNCHANGED sqVars

\* A connection arrives and gets a descriptor; the program closes none.
AcceptConnection(fd) ==
  /\ accepting
  /\ fd \in Fds \ connected
  /\ Post(OP_ACCEPT, ListenFd, fd)
  /\ connected' = connected \cup {fd}
  /\ accepting' = Fits
  /\ UNCHANGED <<recvVars, writing, sendVars>>

\* A connection arrives and the process has no descriptor left for it.
AcceptFails ==
  /\ accepting
  /\ connected = Fds
  /\ Post(OP_ACCEPT, ListenFd, -1)
  /\ accepting' = FALSE
  /\ UNCHANGED <<connected, recvVars, writing, sendVars>>

\* A chunk of input fills a buffer of the ring.
ReceiveChunk(fd) ==
  /\ fd \in receiving
  /\ chunks[fd] < MaxChunks
  /\ avail > 0
  /\ Post(OP_RECVMSG, fd, 1)
  /\ chunks' = [chunks EXCEPT ![fd] = @ + 1]
  /\ avail' = avail - 1
  /\ receiving' = IF Fits THEN receiving ELSE receiving \ {fd}
  /\ UNCHANGED <<acceptVars, writing, sendVars>>

\* The end of the stream takes a buffer too (for the header that recvmsg
\* writes) and ends the multishot receive.
ReceiveEnd(fd) ==
  /\ fd \in receiving
  /\ avail > 0
  /\ Post(OP_RECVMSG, fd, 1)
  /\ avail' = avail - 1
  /\ receiving' = receiving \ {fd}
  /\ UNCHANGED <<acceptVars, chunks, writing, sendVars>>

\* The receive fails: there is input, or its end, and no buffer in the ring to
\* take it, or the peer resets the connection.
ReceiveFails(fd) ==
  /\ fd \in receiving
  /\ avail = 0 \/ fd \in ResetFds
  /\ Post(OP_RECVMSG, fd, -1)
  /\ receiving' = receiving \ {fd}
  /\ UNCHANGED <<acceptVars, chunks, avail, writing, sendVars>>

\* A write to stderr ends; the program does not look at its result.
CompleteWrite(bid) ==
  /\ bid \in writing
  /\ Post(OP_WRITE_FIXED, bid, 0)
  /\ writing' = writing \ {bid}
  /\ UNCHANGED <<acceptVars, recvVars, sendVars>>

\* A zero-copy send completes twice: once with its result, once when the
\* kernel is done with the data.
SendResult(fd) ==
  /\ sending[fd] > 0
  /\ Post(OP_SENDMSG, fd, 0)
  /\ sending' = [sending EXCEPT ![fd] = @ - 1]
  /\ notifying' = [notifying EXCEPT ![fd] = @ + 1]
  /\ UNCHANGED <<acceptVars, recvVars, writing>>

SendNotification(fd) ==
  /\ notifying[fd] > 0
  /\ Post(OP_SENDMSG, fd, 0)
  /\ notifying' = [notifying EXCEPT ![fd] = @ - 1]
  /\ UNCHANGED <<acceptVars, recvVars, writing, sending>>

Poll == StartAccept \/ StartRecvmsg \/ StartWrite \/ StartSend

\* What other processes bring about: connections, input, ends and resets.
Peers ==
  \/ AcceptFails
  \/ \E fd \in Fds : \/ AcceptConnection(fd)
                     \/ ReceiveChunk(fd)
                     \/ ReceiveEnd(fd)
                     \/ ReceiveFails(fd)
=============================================================================
