-------------------------- MODULE ServerProperties --------------------------
(***************************************************************************)
(* What is checked and proved of the server: where its log buffers and     *)
(* receive buffers are, what it owes its clients, and what it never leaves *)
(* behind when it goes to sleep.                                           *)
(***************************************************************************)
EXTENDS Server, Functions

\* The completions the program has yet to handle: a handled one stays in the
\* queue until io_uring_cqe_seen.
Unhandled == IF pc = "handled" THEN Tail(cq) ELSE cq

\* The entries that the queues can hold.
SQE ==
  [op : {OP_ACCEPT}, fd : {ListenFd}] \cup [op : {OP_RECVMSG}, fd : Fds]
    \cup [op : {OP_WRITE_FIXED}, fd : Bids] \cup [op : {OP_SENDMSG}, fd : Nat]

CQE ==
  [op : {OP_ACCEPT}, fd : Nat, res : Fds \cup {-1}]
    \cup [op : {OP_RECVMSG}, fd : Nat, res : {1, -1}]
    \cup [op : {OP_WRITE_FIXED}, fd : Bids, res : {0}]
    \cup [op : {OP_SENDMSG}, fd : Nat, res : {0}]

\* Every variable has the values the code gives it, and the two queues hold
\* no more than the kernel has room for.
ProgramOK ==
  /\ pc \in {"start", "greet", "wait", "handled", "seen", "dead"}
  /\ cause \in {"none", "no_log_buffer", "no_log_sqe", "null_sqe",
                "accept_failed", "recv_failed", "wait_interrupted"}
  /\ pc = "dead" <=> cause # "none"
  /\ free \in Seq(Bids)
  /\ fmt_addr \in Fds \cup {Zeroed, Garbage}

QueuesOK ==
  /\ sq \in Seq(SQE) /\ Len(sq) <= SqEntries
  /\ published \in 0..Len(sq)
  /\ cq \in Seq(CQE)
  /\ visible \in 0..Len(cq) /\ visible <= CqEntries
  /\ pc = "start" => sq = <<>>
  /\ pc = "handled" => visible > 0

RequestsOK ==
  /\ accepting \in BOOLEAN
  /\ connected \subseteq Fds
  /\ receiving \subseteq Fds
  /\ chunks \in [Fds -> 0..MaxChunks]
  /\ avail \in Nat
  /\ writing \subseteq Bids
  /\ sending \in [Fds -> Nat]
  /\ notifying \in [Fds -> Nat]

TypeOK == ProgramOK /\ QueuesOK /\ RequestsOK

-----------------------------------------------------------------------------
\* The log buffers that the writes in the queue s are about, and that no two
\* of these writes are about the same one.
Writes(s) == {i \in 1..Len(s) : s[i].op = OP_WRITE_FIXED}
BidsIn(s) == {s[i].fd : i \in Writes(s)}
Distinct(s) == \A i, j \in Writes(s) : s[i].fd = s[j].fd => i = j

\* Each log buffer is in exactly one place, once: in the freelist, in a write
\* that is queued, in one the kernel works on, or in one whose completion is
\* to be handled.  So log_event (logging.c:81-93) never formats a line into
\* memory the kernel is still writing from, bufpool_put (main.c:30-34) never
\* pushes a node that is in the list, and no buffer is lost.
PoolConserved ==
  /\ Range(free) \cup BidsIn(sq) \cup writing \cup BidsIn(Unhandled) = Bids
  /\ Range(free) \cap BidsIn(sq) = {}
  /\ Range(free) \cap writing = {}
  /\ Range(free) \cap BidsIn(Unhandled) = {}
  /\ BidsIn(sq) \cap writing = {}
  /\ BidsIn(sq) \cap BidsIn(Unhandled) = {}
  /\ writing \cap BidsIn(Unhandled) = {}
  /\ IsInjective(free) /\ Distinct(sq) /\ Distinct(Unhandled)

\* The log buffers that a line is on its way in, from log_event to the handling
\* of the write's completion.
InFlight == BidsIn(sq) \cup writing \cup BidsIn(Unhandled)

\* The running server uses the pool as a lender.
Lending == INSTANCE BufferLending WITH
  Buffers <- Bids, lent <- InFlight, refused <- (cause = "no_log_buffer")

\* The step queues a line that log_event put into the buffer bid.
LogsInto(bid) ==
  \E i \in DOMAIN sq' : i > Len(sq) /\ sq'[i] = Sqe(OP_WRITE_FIXED, bid)

\* Each line is put into a buffer that no other line is on its way in
\* (logging.c:81-93); each buffer that the loop puts back was out, and no line
\* is on its way in it any more (main.c:30-34), which is what module BufPool
\* assumes of its callers; and log_event is refused one, and the server dies of
\* it, only when lines are on their way in all of them (logging.c:82).
LogBuffersLent ==
  /\ Lending!Spec
  /\ [][/\ \A bid \in Bids :
             LogsInto(bid) => bid \in Range(free) /\ Lending!Lend(bid)
        /\ HandleWriteFixed => LET bid == Head(cq).fd
                               IN  bid \notin Range(free) /\ Lending!Return(bid)
        /\ cause' # cause /\ cause' = "no_log_buffer" => Lending!Refuse]_vars

-----------------------------------------------------------------------------
\* The completions in s of a receive that got input.
Received(s) == {i \in 1..Len(s) : s[i].op = OP_RECVMSG /\ s[i].res >= 0}

\* Each slot of the receive ring is the kernel's to take or stands for a message
\* that the program has yet to handle.  Module BufRing counts the slots where
\* there is nothing else; here receives fail or end, completions overflow,
\* handlers die half-way and two connections share the ring, and still each
\* message handled is one advance (appctx.c:157).  So a receive only fails for
\* want of a slot when RingEntries messages wait in the completion queue.
\* Which buffers the slots name is another matter (BufRing!EveryBufferInUse).
RingConserved == avail + Cardinality(Received(Unhandled)) = RingEntries

-----------------------------------------------------------------------------
\* The answers due to each connection: for its input that is to be handled,
\* and those queued and in progress.
Owed == [fd \in Fds |->
  Cardinality({i \in Received(Unhandled) : Unhandled[i].fd = fd})
    + Cardinality({i \in DOMAIN sq : sq[i] = Sqe(OP_SENDMSG, fd)})
    + sending[fd]]

\* One of the things that Kernel can do.
KernelDoes(A) == pc # "dead" /\ A /\ UNCHANGED <<pc, cause, free, fmt_addr>>

\* The steps in which the kernel takes input from fd, and sends it an answer.
TakesInput(fd) == KernelDoes(ReceiveChunk(fd) \/ ReceiveEnd(fd))
SendsAnswer(fd) == KernelDoes(SendResult(fd))

Hello == INSTANCE HelloService WITH up <- (pc # "dead"), owed <- Owed

\* Whatever the order of accepts, receives, log writes and sends, and however
\* many of each are under way, each piece of input gets one answer, on the
\* connection it came from (appctx.c:136 and 159-161).  What is owed to a
\* connection grows when the kernel takes input from that one, of which
\* the descriptor goes through the 16 bits of userdata.c:4-12, and falls when
\* the kernel sends to it, and at no other step: a handler that dropped an
\* answer or queued a second one would lower or raise it by itself.
HelloSpec ==
  /\ Hello!Spec
  /\ [][\A fd \in Fds : /\ Hello!Receive(fd) <=> TakesInput(fd)
                        /\ Hello!Answer(fd) <=> SendsAnswer(fd)]_vars

\* The asserts and null pointers that end the server (logging.h:16-56) do so
\* under pressure from outside and not from what the loop left undone itself:
\* it finds no submission entry (appctx.c:122 and 159, logging.c:91) only when
\* SQPOLL is behind by all of the queue but one slot, an accept fails
\* (appctx.c:120) only when descriptors are used up, and a signal ends the wait
\* (main.c:20) only when there is nothing to handle.  When log buffers run out
\* is part of LogBuffersLent.
GoesDownForCause ==
  /\ cause \in {"no_log_sqe", "null_sqe"} => published >= SqEntries - 1
  /\ cause = "accept_failed" => connected = Fds
  /\ cause = "wait_interrupted" => cq = <<>>

-----------------------------------------------------------------------------
\* When the program goes to wait in io_uring_wait_cqe (main.c:19) it has left
\* nothing behind that only it could move on: every entry it queued is
\* published (main.c:49, main.c:96), and if the ring is empty no completion is
\* held back in the kernel's overflow list, where the wait would not see it.
NoStrandedWork ==
  pc = "wait" => published = Len(sq) /\ (visible = 0 => cq = <<>>)

\* The server listens: the accept is queued or armed, or has failed and the
\* failure is to be handled, which the program does not survive.
Listening ==
  \/ accepting
  \/ \E i \in DOMAIN sq : sq[i].op = OP_ACCEPT
  \/ \E i \in DOMAIN Unhandled :
       Unhandled[i].op = OP_ACCEPT /\ Unhandled[i].res < 0

\* From the first entry on the server listens, and no step of its own stops it
\* (main.c:86-90, appctx.c:119-120): only the kernel does, when it accepts a
\* connection whose completion finds no room in the queue, for the code arms the
\* accept once and never looks at IORING_CQE_F_MORE.
StaysListening ==
  [][/\ QueueAccept => Listening'
     /\ Listening /\ ~Listening' =>
          KernelDoes(~Fits /\ \E fd \in Fds : AcceptConnection(fd))]_vars

\* Connection fd is read: its receive is armed, or queued, or its accept is to
\* be handled, which queues one (appctx.c:122-126).
Read(fd) ==
  \/ fd \in receiving
  \/ \E i \in DOMAIN sq : sq[i] = Sqe(OP_RECVMSG, fd)
  \/ \E i \in DOMAIN Unhandled :
       Unhandled[i].op = OP_ACCEPT /\ Unhandled[i].res = fd

\* Each connection is read from the moment the kernel accepts it, and only the
\* kernel stops reading it: at its end, at a failure, or, since the code arms a
\* receive once and never looks at IORING_CQE_F_MORE (appctx.c:123), with a
\* completion that finds no room.  No order of the loop's steps loses one.
ConnectionsStayRead ==
  [][\A fd \in Fds :
       /\ fd \in connected' \ connected => Read(fd)'
       /\ Read(fd) /\ ~Read(fd)' =>
            KernelDoes(\/ ReceiveEnd(fd) \/ ReceiveFails(fd)
                       \/ ~Fits /\ ReceiveChunk(fd))]_vars

-----------------------------------------------------------------------------
\* The scheduler runs the program's thread and the kernel's SQPOLL thread;
\* stderr takes what is written to it, and clients take what is sent to them.
\* Nobody has to connect or to send anything.
FairSpec ==
  /\ Spec
  /\ WF_vars(Program)
  /\ WF_vars(KernelDoes(Poll))
  /\ \A bid \in Bids : WF_vars(KernelDoes(CompleteWrite(bid)))
  /\ \A fd \in Fds : WF_vars(KernelDoes(SendResult(fd)))

\* A log buffer that is out comes back, unless the server dies: the loop
\* handles every completion and submits what it queued in time for that.
LogBuffersReturn ==
  \A bid \in Bids :
    bid \notin Range(free) ~> bid \in Range(free) \/ pc = "dead"

\* Input that arrives is answered, unless the server dies: what is owed falls
\* only by an answer sent, and it falls to nothing.
InputAnswered ==
  /\ [][\A fd \in Fds : Owed'[fd] < Owed[fd] => SendsAnswer(fd)]_vars
  /\ \A fd \in Fds : Owed[fd] > 0 ~> Owed[fd] = 0 \/ pc = "dead"

-----------------------------------------------------------------------------
\* logging.c:22-23 asserts that getpeername succeeds before it formats the
\* address; were that so, fmt_addr would never be made from a struct
\* sockaddr_in that nobody filled in.
AddressInitialized == fmt_addr # Garbage

\* appctx.c:148 logs "Packet from %s": the address it prints, fmt_addr, is
\* the one of the connection the packet came from.
PacketFromSender ==
  pc = "handled" /\ Head(cq).op = OP_RECVMSG => fmt_addr = Head(cq).fd
=============================================================================
