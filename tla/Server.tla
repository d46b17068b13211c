------------------------------ MODULE Server -------------------------------
(***************************************************************************)
(* The server program: main and run_event_loop (cexe/main.c), the handlers *)
(* and the buffer pool (clib/appctx.c), and the logger (clib/logging.c),   *)
(* running concurrently with the io_uring instance of module Uring.        *)
(*                                                                         *)
(* The program is a single thread.  Each handler is one action: what it    *)
(* puts in the submission queue is invisible to the kernel until           *)
(* io_uring_submit, so nothing interleaves with it but the SQPOLL thread   *)
(* freeing slots.  A failed ASSERT_ macro or a null pointer dereference    *)
(* kills the process.                                                      *)
(***************************************************************************)
EXTENDS Uring, FiniteSets

CONSTANTS
  PoolSize,           \* registered buffers of the pool (16, main.c:68)
  Greetings           \* lines main logs before the loop (4, main.c:91-94)

Bids == 0..(PoolSize - 1)

ASSUME ServerAssumption ==
  /\ PoolSize \in Nat \ {0}
  /\ PoolSize <= UdFdMod
  /\ Greetings \in Nat
  /\ Greetings <= PoolSize
  /\ Greetings < SqEntries

VARIABLES
  pc,                 \* where the program is
  cause,              \* what killed it, if it is dead
  free,               \* the freelist of the pool, head first
  fmt_addr            \* whose address the global fmt_addr holds

vars == <<uringVars, pc, cause, free, fmt_addr>>

\* The values of fmt_addr that are not the descriptor of the peer it names.
Zeroed  == -1         \* its initial value
Garbage == -2         \* made from an uninitialized struct sockaddr_in

\* appctx_init: bufpool_init leaves the last buffer at the head of the list.
Init ==
  /\ UringInit
  /\ pc = "start"
  /\ cause = "none"
  /\ free = [i \in 1..PoolSize |-> PoolSize - i]
  /\ fmt_addr = Zeroed

Die(why) ==
  /\ pc' = "dead"
  /\ cause' = why
  /\ UNCHANGED <<uringVars, free, fmt_addr>>

-----------------------------------------------------------------------------
\* io_uring_get_sqe returns NULL when every slot of the queue q is taken.
Full(q) == Len(q) >= SqEntries

\* An entry for op on fd, with its user data.
Sqe(op, fd) == [op |-> op, fd |-> fd]

\* A faulty bufpool_pop that does not advance the head.
BufpoolPopKeepsHead == free' = free

\* bufpool_pop on a list with a buffer to give, and bufpool_put; the linked
\* list itself is the subject of module BufPool.
BufpoolPop == free' = Tail(free)

\* A faulty bufpool_put, off by one in the array of nodes.
BufpoolPutNextBid(bid) == free' = <<bid + 1>> \o free

BufpoolPut(bid) == free' = <<bid>> \o free

\* log_event formats the line into the buffer it popped and queues its
\* write; q is the submission queue as the caller leaves it.  It asserts that
\* it got a buffer and that it got a submission entry.
CanLog(q) == free # <<>> /\ ~Full(q)

Logged(q) == Append(q, Sqe(OP_WRITE_FIXED, Head(free)))

LogEventDies(q) ==
  \/ free = <<>> /\ Die("no_log_buffer")
  \/ free # <<>> /\ Full(q) /\ Die("no_log_sqe")

-----------------------------------------------------------------------------
\* main queues the multishot accept, logs its greetings and submits.  The
\* asserts of log_event hold here: nothing is consumed before the submit, and
\* the pool and the queue have room (ServerAssumption).
QueueAccept ==
  /\ pc = "start"
  /\ pc' = "greet"
  /\ sq' = Append(sq, Sqe(OP_ACCEPT, ListenFd))
  /\ UNCHANGED <<published, cqVars, acceptVars, recvVars, writing, sendVars,
                 cause, free, fmt_addr>>

Greet ==
  /\ pc = "greet"
  /\ Len(sq) <= Greetings
  /\ CanLog(sq)
  /\ sq' = Logged(sq)
  /\ BufpoolPop
  /\ UNCHANGED <<published, cqVars, acceptVars, recvVars, writing, sendVars,
                 pc, cause, fmt_addr>>

\* A faulty submit that publishes one entry too few.
PublishAllButLast == published' = IF sq = <<>> THEN 0 ELSE Len(sq) - 1

\* A faulty submit that leaves the overflow list alone.
LeaveOverflow == visible' = visible

\* io_uring_submit publishes every entry handed out so far and, seeing the
\* overflow flag, has the kernel move completions from the overflow list into
\* the free slots of the ring.
Publish == published' = Len(sq)

FlushOverflow ==
  visible' = IF Len(cq) < CqEntries THEN Len(cq) ELSE CqEntries

Submit ==
  /\ \/ pc = "greet" /\ Len(sq) > Greetings
     \/ pc = "seen"
  /\ pc' = "wait"
  /\ Publish
  /\ FlushOverflow
  /\ UNCHANGED <<sq, cq, acceptVars, recvVars, writing, sendVars, cause, free,
                 fmt_addr>>

-----------------------------------------------------------------------------
\* run_event_loop waits for a completion and switches on its operation.
Dispatch(op) ==
  /\ pc = "wait"
  /\ visible > 0
  /\ Head(cq).op = op

\* A signal ends the wait before there is a completion (io_uring_wait_cqe
\* returns -EINTR, as when the process is stopped and continued): the loop
\* asserts that it succeeds and does not try again.
WaitInterrupted == pc = "wait" /\ visible = 0 /\ Die("wait_interrupted")

\* The handler returns.
Handled ==
  /\ pc' = "handled"
  /\ UNCHANGED <<published, cqVars, acceptVars, receiving, chunks, writing,
                 sendVars, cause>>

\* A faulty event loop that does not put the buffer back.
HandleWriteFixedKeepsBuffer ==
  /\ Dispatch(OP_WRITE_FIXED)
  /\ Handled
  /\ UNCHANGED <<sq, avail, free, fmt_addr>>

\* case OP_WRITE_FIXED: the buffer of the written line is free again.
HandleWriteFixed ==
  /\ Dispatch(OP_WRITE_FIXED)
  /\ BufpoolPut(Head(cq).fd)
  /\ Handled
  /\ UNCHANGED <<sq, avail, fmt_addr>>

\* The default case: completions of sends are ignored.
HandleSendmsg ==
  /\ Dispatch(OP_SENDMSG)
  /\ Handled
  /\ UNCHANGED <<sq, avail, free, fmt_addr>>

\* format_inet_addr_from_sockfd: what fmt_addr can hold after the call for
\* fd.  getpeername returns -1 when the peer is gone; ASSERT_POSITIVE(-err)
\* lets through every err for which -err >= 0.
GetPeerName(fd) == IF fd \in ResetFds THEN {0, -1} ELSE {0}

FormattedAddr(fd) ==
  {IF err = 0 THEN fd ELSE Garbage : err \in {e \in GetPeerName(fd) : -e >= 0}}

\* A faulty handler that lets a failed accept pass.
AcceptFailureIgnored(clientfd) ==
  /\ clientfd < 0
  /\ Handled
  /\ UNCHANGED <<sq, avail, free, fmt_addr>>

AcceptFailureAsserted(clientfd) == clientfd < 0 /\ Die("accept_failed")

\* appctx_handle_accept: arm a multishot receive on the new connection, note
\* its address and log it.  The entry for the receive is not checked.
HandleAccept ==
  /\ Dispatch(OP_ACCEPT)
  /\ LET clientfd == Head(cq).res
         q        == Append(sq, Sqe(OP_RECVMSG, clientfd))
     IN  \/ AcceptFailureAsserted(clientfd)
         \/ clientfd >= 0 /\ Full(sq) /\ Die("null_sqe")
         \/ clientfd >= 0 /\ ~Full(sq) /\ LogEventDies(q)
         \/ /\ clientfd >= 0 /\ ~Full(sq) /\ CanLog(q)
            /\ sq' = Logged(q)
            /\ BufpoolPop
            /\ fmt_addr' \in FormattedAddr(clientfd)
            /\ Handled
            /\ UNCHANGED avail

\* A faulty handler that does not advance the ring.
KeepReceiveSlot == avail' = avail

\* The tail of the ring advances by one slot.  Which buffer the kernel then
\* finds there is the subject of module BufRing.
AdvanceReceiveRing == avail' = avail + 1

\* The connection that the user data of the completion names.
Sender == Head(cq).fd

\* A faulty handler that forgets the answer.
NotAnswered(q) == q

\* The answer is queued behind the log line.
Answered(q) == Append(q, Sqe(OP_SENDMSG, Sender))

\* appctx_handle_recvmsg: log the message, advance the receive ring and
\* queue the answer.  The entry for the answer is not checked.
HandleRecvmsg ==
  /\ Dispatch(OP_RECVMSG)
  /\ \/ Head(cq).res < 0 /\ Die("recv_failed")
     \/ Head(cq).res >= 0 /\ LogEventDies(sq)
     \/ Head(cq).res >= 0 /\ CanLog(sq) /\ Full(Logged(sq)) /\ Die("null_sqe")
     \/ /\ Head(cq).res >= 0 /\ CanLog(sq) /\ ~Full(Logged(sq))
        /\ BufpoolPop
        /\ AdvanceReceiveRing
        /\ sq' = Answered(Logged(sq))
        /\ Handled
        /\ UNCHANGED fmt_addr

\* A faulty loop that releases all completions in the ring with the first.
SeenWholeBatch ==
  /\ pc = "handled"
  /\ pc' = "seen"
  /\ cq' = SubSeq(cq, visible + 1, Len(cq))
  /\ visible' = 0
  /\ UNCHANGED <<sqVars, acceptVars, recvVars, writing, sendVars, cause, free,
                 fmt_addr>>

\* io_uring_cqe_seen releases the slot of the handled completion.
Seen ==
  /\ pc = "handled"
  /\ pc' = "seen"
  /\ cq' = Tail(cq)
  /\ visible' = visible - 1
  /\ UNCHANGED <<sqVars, acceptVars, recvVars, writing, sendVars, cause, free,
                 fmt_addr>>

Program ==
  \/ QueueAccept \/ Greet \/ Submit \/ Seen
  \/ HandleAccept \/ HandleRecvmsg \/ HandleWriteFixed \/ HandleSendmsg

\* The kernel makes a step while the process is alive.  SQPOLL and the
\* completions of writes and sends are its own doing; connections and input
\* depend on the clients.
KernelWork ==
  \/ Poll
  \/ \E bid \in Bids : CompleteWrite(bid)
  \/ \E fd \in Fds : SendResult(fd) \/ SendNotification(fd)

Kernel ==
  /\ pc # "dead"
  /\ KernelWork \/ Peers
  /\ UNCHANGED <<pc, cause, free, fmt_addr>>

\* Signals are nobody's doing here: no fairness is asked of them.
Next == Program \/ Kernel \/ WaitInterrupted

Spec == Init /\ [][Next]_vars
=============================================================================
